---------------------------- MODULE MethodCalls ----------------------------
(***************************************************************************)
(* What a program may rely on when methods call each other: each thread    *)
(* has one stack of activations, a call starts its callee at the first     *)
(* instruction, a return resumes the caller at the instruction after the   *)
(* call, and nothing else moves.  Whether a method is interpreted or       *)
(* native is not visible.                                                  *)
(***************************************************************************)
EXTENDS Integers, SequencesExt

CONSTANTS Threads, None, Code

VARIABLES entry,     \* [Threads -> Methods \cup {None}]: where threads begin
          stack      \* [Threads -> Seq([method, ip])], the top is the last

Init == stack = [t \in Threads |-> <<>>]

Active(t) == stack[t] # <<>>
Top(t)    == Last(stack[t])
Instr(t)  == Code[Top(t).method][Top(t).ip]
First(m)  == [method |-> m, ip |-> 1]
At(a, i)  == [a EXCEPT !.ip = i]

Begin(t) == /\ ~Active(t) /\ entry[t] # None
            /\ stack' = [stack EXCEPT ![t] = <<First(entry[t])>>]

\* An instruction that neither calls nor returns.
Step(t) ==
  /\ Active(t) /\ Instr(t).op \in {"STOR", "JMP"}
  /\ \E i \in {Top(t).ip + 1} \cup (IF Instr(t).op = "JMP" THEN {Instr(t).to} ELSE {}) :
       stack' = [stack EXCEPT ![t] = Append(Front(@), At(Top(t), i))]

Call(t) ==
  /\ Active(t) /\ Instr(t).op \in {"MTHD_CALL", "DLL_FUNC_CALL"}
  /\ \E m \in Instr(t).callees : stack' = [stack EXCEPT ![t] = Append(@, First(m))]

Return(t) ==
  /\ Active(t) /\ Instr(t).op = "RTRN"
  /\ LET callers == Front(stack[t]) IN
     stack' = [stack EXCEPT ![t] =
                 IF callers = <<>> THEN <<>>
                 ELSE Append(Front(callers), At(Last(callers), Last(callers).ip + 1))]

Next == /\ \E t \in Threads : Begin(t) \/ Step(t) \/ Call(t) \/ Return(t)
        /\ UNCHANGED entry

Spec == Init /\ [][Next]_<<entry, stack>>
====
