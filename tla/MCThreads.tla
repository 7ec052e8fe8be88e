----------------------------- MODULE MCThreads -----------------------------
(* Instances of Threads for TLC: small programs. *)
EXTENDS Threads, TLC

CONSTANTS o1, o2, m1, m2

EXECUTE(o) == <<[op |-> "EXECUTE", of |-> o]>>
JOIN(o)    == <<[op |-> "JOIN", of |-> o]>>
GETID(o)   == <<[op |-> "GETID", of |-> o]>>
RTRN       == <<[op |-> "RTRN"]>>

Program(sanitize, mainCode, code1, code2) ==
  [sanitize |-> sanitize,
   code |-> (Main :> mainCode \o RTRN) @@ (o1 :> code1 \o RTRN) @@ (o2 :> code2 \o RTRN)]

(* Two threads executed and joined, twice, by main, as in prgm51.obs and
   thread.obs; their Runs have critical sections of the same mutex. *)
Round == EXECUTE(o1) \o EXECUTE(o2) \o GETID(o1) \o JOIN(o1) \o JOIN(o2)
Section == EmitCriticalSection(m1, <<>>)
Loop == Program(FALSE, Round \o Round, Section, Section \o Section)

Section2 == EmitCriticalSection(m2, <<>>)

(* A Run that executes another thread and joins it, in sections of two
   mutexes taken in the same order. *)
Nested == Program(FALSE, EXECUTE(o1) \o EmitCriticalSection(m1, Section2) \o JOIN(o1),
                  EXECUTE(o2) \o EmitCriticalSection(m1, Section2) \o JOIN(o2),
                            Section2)

(* Joins the machine ends the program for. *)
BadPrograms ==
  {Program(FALSE, JOIN(o1), <<>>, <<>>),                                \* not executed
   Program(FALSE, EXECUTE(o1) \o JOIN(o1) \o JOIN(o1), <<>>, <<>>),     \* joined twice
   Program(FALSE, EXECUTE(o1) \o EXECUTE(o2) \o JOIN(o2),
           JOIN(o1), JOIN(o2))}                                         \* itself

(* Threads nobody joins, as in concur.obs and sleep_sort.obs: main waits for
   them in a _SANITIZE build. *)
Loose == Program(TRUE, EXECUTE(o1) \o EXECUTE(o2), Section, Section)

(* What the theorems about critical sections suppose.                      *)
ASSUME SectionAssumption == \A code \in AllCode : Bracketed(code) /\ Closed(code)

\* What those about executing and joining suppose.
ASSUME JoinAssumption ==
  \A p \in {Loop, Nested} :
    /\ ~ p.sanitize
    /\ \A k \in Objects \cup {Main} : Paired(p.code[k]) /\ Collected(p.code[k])
    /\ \E parent \in [Objects -> Objects \cup {Main}], rank \in [Objects \cup {Main} -> 0 .. 2] :
         Tree(p, parent, rank)

AllPrograms == {Loop, Nested, Loose} \cup BadPrograms
====
