---------------------------- MODULE MCCallStack ----------------------------
(* Instances of CallStack for TLC: small programs. *)
EXTENDS CallStack, TLC

CONSTANTS main, leaf, nat, rec, main2, nat2, low, low2

ST(v)      == [op |-> "STOR", vars |-> v]
JMP(n)     == [op |-> "JMP", to |-> n]
CALL(S, n) == [op |-> "MTHD_CALL", callees |-> S, native |-> n]
DLL(S)     == [op |-> "DLL_FUNC_CALL", callees |-> S]
RET        == [op |-> "RTRN"]

(* main calls leaf and rec through the interpreter and nat natively, and is
   called back from C; nat, native, calls leaf (interpreted) and itself or rec
   (natively); rec has no native code and is recursive. *)
MCCode == [m \in Methods |->
  CASE m = main -> <<JMP(3), DLL({leaf}), CALL({nat}, TRUE), RET>>
    [] m = leaf -> <<ST({"low", "high"}), RET>>
    [] m = nat  -> <<ST({"low"}), JMP(4), CALL({leaf}, FALSE), CALL({rec, leaf}, TRUE), RET>>
    [] m = rec  -> <<JMP(3), CALL({nat, rec}, TRUE), RET>>
    [] m = main2 -> <<CALL({nat2}, TRUE), RET>>
    [] m = nat2  -> <<CALL({low}, FALSE), RET>>
    [] m = low   -> <<RET>>
    [] m = low2  -> <<CALL({low}, FALSE), RET>>]

AddressSymmetry == Permutations(Interps) \cup Permutations(Natives)

(* A thread that runs main; two threads, one in main2, which calls nat2, which
   calls low, and one in low2, which calls low. *)
MCEntries == LET t1 == CHOOSE t \in Threads : TRUE IN
             {[t \in Threads |-> IF t = t1 THEN main ELSE None],
              [t \in Threads |-> IF t = t1 THEN main2 ELSE low2]}
====
