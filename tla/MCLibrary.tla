----------------------------- MODULE MCLibrary -----------------------------
(***************************************************************************)
(* The instance of the library run and the faults of its mutants.           *)
(***************************************************************************)
EXTENDS Library

CONSTANTS
  ValueBound, KeyBound, NodeBound   \* bounds

MCClasses == VectorClasses \cup ListClasses \cup MapClasses \cup HashClasses \cup {"String"}
MCElements == 1 .. ValueBound
MCKeys == 1 .. KeyBound
MCHashKeys == {1, 2, 3}
MCHeld == {1, 2}
MCNodes == 1 .. NodeBound
MCHashID == [key \in MCKeys |-> IF key % 2 = 0 THEN key ELSE -key]
MCArrays == {<<>>, <<2>>, <<2, 1, 1>>}
(* A character of each kind: the end of an array, a blank, "%", "-", "0",   *)
(* "1", "A", "a" and "x".                                                  *)
MCTexts == {<<>>, <<0>>, <<32>>, <<97>>, <<97, 97>>, <<97, 48>>, <<48, 120>>}
MCLetters == {0, 32, 37, 97}
MCLiterals == MCTexts \cup {<<97, 97, 48, 32>>, <<48, 48, 120, 120>>, <<32, 97, 32, 32>>, <<32, 32, 32>>, <<45, 36, 65>>}
MCNumbers == {-10, 0, 1, 100, 1000}
====
