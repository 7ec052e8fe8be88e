------------------------------ MODULE ForkJoin ------------------------------
(***************************************************************************)
(* What a program may rely on when it runs Threads: Execute starts the Run *)
(* method of an object, Join waits until that Run has ended, a critical    *)
(* section is entered by one Run at a time.  Nothing here has an id.       *)
(***************************************************************************)
EXTENDS Integers, SequencesExt

CONSTANTS Tasks, Main, Mutexes, None

VARIABLES code,      \* [Tasks -> Seq(instruction)]
          state,     \* "idle", "running" or "done"
          pos,       \* the instruction a running task is at
          owner,     \* which task holds a mutex
          ended      \* "no", "returned" (main is back), "failed"

vars == <<code, state, pos, owner, ended>>

Init == /\ state = [k \in Tasks |-> IF k = Main THEN "running" ELSE "idle"]
        /\ pos = [k \in Tasks |-> 1]
        /\ owner = [m \in Mutexes |-> None]
        /\ ended = "no"

AtOp(k, op)   == ended = "no" /\ state[k] = "running" /\ code[k][pos[k]].op = op
Operand(k)    == code[k][pos[k]].of
Go(k)         == pos' = [pos EXCEPT ![k] = @ + 1]
Waits(k, o)   == state[k] = "running" /\ code[k][pos[k]].op = "JOIN" /\ Operand(k) = o

Fork(k) ==
  /\ AtOp(k, "EXECUTE") /\ state[Operand(k)] = "idle"
  /\ state' = [state EXCEPT ![Operand(k)] = "running"]
  /\ UNCHANGED <<code, pos, owner, ended>>

\* Execute returns to the caller some time after the Run has started: it may
\* have ended by then, but nobody can have joined it.
Forked(k) ==
  /\ AtOp(k, "EXECUTE") /\ state[Operand(k)] # "idle"
  /\ Go(k) /\ UNCHANGED <<code, state, owner, ended>>

Join(k) ==
  /\ AtOp(k, "JOIN") /\ state[Operand(k)] = "done"
  /\ state' = [state EXCEPT ![Operand(k)] = "idle"]
  /\ pos' = [pos EXCEPT ![k] = @ + 1, ![Operand(k)] = 1]
  /\ UNCHANGED <<code, owner, ended>>

\* A program that joins what does not run, itself, or what another joins, fails.
FailJoin(k) ==
  /\ AtOp(k, "JOIN")
  /\ \/ state[Operand(k)] = "idle" \/ Operand(k) = k
     \/ \E j \in Tasks \ {k} : Waits(j, Operand(k))
     \/ Waits(Operand(k), k)
  /\ ended' = "failed" /\ UNCHANGED <<code, state, pos, owner>>

Enter(k) ==
  /\ AtOp(k, "CRITICAL_START") /\ owner[Operand(k)] = None
  /\ owner' = [owner EXCEPT ![Operand(k)] = k]
  /\ Go(k) /\ UNCHANGED <<code, state, ended>>

Leave(k) ==
  /\ AtOp(k, "CRITICAL_END") /\ owner[Operand(k)] = k
  /\ owner' = [owner EXCEPT ![Operand(k)] = None]
  /\ Go(k) /\ UNCHANGED <<code, state, ended>>

Step(k) == AtOp(k, "GETID") /\ Go(k) /\ UNCHANGED <<code, state, owner, ended>>

Return(k) ==
  /\ AtOp(k, "RTRN")
  /\ state' = [state EXCEPT ![k] = "done"]
  /\ ended' = IF k = Main THEN "returned" ELSE ended
  /\ UNCHANGED <<code, pos, owner>>

\* A main that has nothing left to execute may wait for the others.
Reap(o) ==
  /\ AtOp(Main, "RTRN") /\ o # Main /\ state[o] = "done"
  /\ state' = [state EXCEPT ![o] = "idle"] /\ pos' = [pos EXCEPT ![o] = 1]
  /\ UNCHANGED <<code, owner, ended>>

Next == \E k \in Tasks : \/ Fork(k) \/ Forked(k) \/ Join(k) \/ FailJoin(k)
                         \/ Enter(k) \/ Leave(k) \/ Step(k) \/ Return(k)
                         \/ Reap(k)

Spec == Init /\ [][Next]_vars
====
