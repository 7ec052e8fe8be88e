---------------------------- MODULE MCSerializer ----------------------------
(***************************************************************************)
(* What the programs write.  A byte has 16 values, an Int two bytes, a      *)
(* Float four; a new buffer has eight, as many as a type and an Int take    *)
(* twice.  Left out of the run that passes: arrays of Ints or Bools and of   *)
(* Chars that are written by themselves, arrays of two dimensions, arrays    *)
(* of objects, text with a zero and numbers beyond an INT_VALUE.            *)
(***************************************************************************)
EXTENDS Serializer

Call(type, v) == [type |-> type, v |-> v]
Object(cls, words) == [cls |-> cls, head |-> <<>>, mem |-> words]
Array(elements) == [cls |-> 0, head |-> <<Len(elements), 1, Len(elements)>>, mem |-> elements]
Program(classes, objects, calls) == [classes |-> classes, memory |-> objects, calls |-> calls]

(* Numbers and text, in rows of up to three. *)
Scalars == {Call("INT", n) : n \in {0, -128, 127}} \cup {Call("FLOAT", n) : n \in {-5, 1000}} \cup {Call("CHAR", c) : c \in {0, 7, 14}}
ScalarCases == {Program(<<>>, <<>>, s) : s \in UNION {[1 .. n -> Scalars] : n \in 1 .. 3}}

(* Arrays up to three times the buffer, and what follows them. *)
Numbers(n) == [i \in 1 .. n |-> (i % 7) + 1]
ArrayCases ==
  {Program(<<>>, <<Array(Numbers(n)), Array(Numbers(m))>>, <<Call(type, 1), Call(other, IF m = 0 THEN Nil ELSE 2), Call("INT", 5)>>) :
     n \in {0, 1, 3, 24}, m \in {0, 2, 5}, type \in {"BYTE_ARY", "FLOAT_ARY"}, other \in {"BYTE_ARY", "FLOAT_ARY"}}

(* Every graph of three nodes, each with a number and two neighbours, with   *)
(* a value behind it and the graph from another node once more.             *)
Node == <<"INT", "OBJ", "OBJ">>
NodeOf(n, left, right) == Object(1, <<n + 10, left, right>>)
Neighbours == {<<l, r>> : l \in 0 .. 3, r \in 0 .. 3}
GraphCases ==
  {Program(<<Node>>, [n \in 1 .. 3 |-> NodeOf(n, g[n][1], g[n][2])], <<Call("OBJ", 1), Call("INT", 7), Call("OBJ", 2)>>) :
     g \in [1 .. 3 -> Neighbours]}

(* Two objects of a class with fields of every kind share arrays and text.  *)
Mixed == <<"FLOAT", "CHAR", "BYTE_ARY", "CHAR_ARY", "INT_ARY", "FLOAT_ARY", "BYTE_ARY", "OBJ", "INT">>
MixedOf(bytes, text, ints, floats, more, next) == Object(2, <<300, 0, 14, bytes, text, ints, floats, more, next, -3>>)
MixedMemory(b, n) ==
  <<MixedOf(3, 4, 5, 6, b, n), MixedOf(b, 4, 0, 6, 3, 0), Array(<<1, 5, 7>>), Array(<<6, 13, 4>>), Array(<<-7, 99>>), Array(<<-1000, 4>>), Array(<<>>)>>
MixedCases ==
  {Program(<<Node, Mixed>>, MixedMemory(b, n), <<Call("OBJ", first), Call("BYTE_ARY", 3), Call("OBJ", Nil), Call("CHAR_ARY", Nil)>>) :
     b \in {0, 3, 7}, n \in {0, 1, 2}, first \in {1, 2}}

(* An object whose class has an array of objects or nothing at all.        *)
SkipCases == {Program(<<<<"OBJ_ARY">>, <<>>>>, <<Object(1, <<0>>), Object(2, <<>>)>>, <<Call("OBJ", a), Call("INT", 3)>>) : a \in {1, 2}}

AllCases == ScalarCases \cup ArrayCases \cup GraphCases \cup MixedCases \cup SkipCases
====
