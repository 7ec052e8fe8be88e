----------------------------- MODULE Optimizer -----------------------------
(***************************************************************************)
(* The optimizer of stack code, src/compiler/optimization.cpp and .h.      *)
(* Every pass reads a method's instructions in order and holds some back:  *)
(* [out, work] is what is written and what is held, oldest first.          *)
(*                                                                         *)
(* Left out: the pattern of character printing, and the limit on the local *)
(* space of a method that is inlined into, which no small method reaches.  *)
(***************************************************************************)
EXTENDS Words, Trees

Code(op, n, m) == [op |-> op, n |-> n, m |-> m]
Held(acc, i) == [acc EXCEPT !.work = Append(@, i)]
Flushed(acc, instrs) == [out |-> acc.out \o acc.work \o instrs, work |-> <<>>]
Drop(acc) == [acc EXCEPT !.work = Front(@)]
HoldsLast(acc, ops) == acc.work # <<>> /\ Last(acc.work).op \in ops

(* From the first instruction to the last, in parts of sixteen. *)
Scanned(step(_, _), start, code) ==
  LET part(n) == SubSeq(code, 16 * n - 15, Min({16 * n, Len(code)}))
      over(acc, n) == Strictly(LAMBDA a : FoldLeft(step, a, part(n)), acc)
  IN  FoldLeft(over, start, [n \in 1 .. (Len(code) + 15) \div 16 |-> n])

Scan(step(_, _), code) == Scanned(step, [out |-> <<>>, work |-> <<>>], code)

VarOps == {"LOAD_INT_VAR", "STOR_INT_VAR", "COPY_INT_VAR", "LOAD_FLOAT_VAR", "STOR_FLOAT_VAR", "COPY_FLOAT_VAR"}
LocalVars(code) == {i \in Range(code) : i.op \in VarOps /\ i.m = "LOCL"}

-----------------------------------------------------------------------------
(* A jump to the label right after it. *)
CleanJumps(code) ==
  LET step(acc, i) ==
        IF i.op = "JMP" THEN Held(acc, i)
        ELSE IF i.op = "LBL" /\ HoldsLast(acc, {"JMP"}) /\ Last(acc.work).n = i.n THEN Flushed(Drop(acc), <<i>>)
        ELSE Flushed(acc, <<i>>)
  IN  Flushed(Scan(step, code), <<>>).out

(* A local that is loaded to be stored where it was.  Loads at the very end *)
(* of a method are lost; none ends in one.                                  *)
RemoveUselessInstructions(code) ==
  LET step(acc, i) ==
        IF i.op = "LOAD_INT_VAR" /\ i.m = "LOCL" THEN Held(acc, i)
        ELSE IF i.op = "STOR_INT_VAR" /\ i.m = "LOCL" /\ acc.work # <<>> /\ Last(acc.work).n = i.n THEN Drop(acc)
        ELSE Flushed(acc, <<i>>)
  IN  Scan(step, code).out

-----------------------------------------------------------------------------
Ops(code) == [j \in DOMAIN code |-> code[j].op]

(* What replaces a call of a method that only reads a field, returns a     *)
(* literal or stores its parameter into a field; <<>> when it does not.    *)
CanInlineSetterGetter(code, params) ==
  LET local(j) == code[j].n = 0 /\ code[j].m = "LOCL"
      field(j) == code[j].m = "INST"
      setter(kind) == <<"STOR_" \o kind, "LOAD_" \o kind, "LOAD_INST_MEM", "STOR_" \o kind, "RTRN">>
  IN  IF params = 0 /\ Ops(code) \in {<<"LOAD_INST_MEM", l, "RTRN">> : l \in {"LOAD_INT_VAR", "LOAD_FLOAT_VAR"}} /\ field(2)
      THEN <<code[2]>>
      ELSE IF params = 0 /\ Ops(code) \in {<<l, "RTRN">> : l \in {"LOAD_INT_LIT", "LOAD_FLOAT_LIT"}}
      THEN <<Code("POP_INT", 0, ""), code[1]>>
      ELSE IF params = 1 /\ Ops(code) \in {setter("INT_VAR"), setter("FLOAT_VAR")} /\ local(1) /\ local(2) /\ field(4)
      THEN <<code[4]>>
      ELSE <<>>

InlineSettersGetters(code, codes, params) ==
  LET instead(i) == IF i.op = "MTHD_CALL" THEN CanInlineSetterGetter(codes[i.n], params[i.n]) ELSE <<>>
  IN  FlattenSeq([j \in DOMAIN code |-> IF instead(code[j]) = <<>> THEN <<code[j]>> ELSE instead(code[j])])

-----------------------------------------------------------------------------
(* Operations on the literals held, in the width of the compiler's         *)
(* integers; the one held last is the first operand.                       *)
FoldConstants(code, literal, calculations, fold(_, _, _)) ==
  LET calculate(acc, i) ==
        LET n == Len(acc.work)
            value == fold(calculations[i.op], acc.work[n].n, acc.work[n - 1].n)
        IN  IF n > 1 THEN [acc EXCEPT !.work = Append(SubSeq(@, 1, n - 2), Code(literal, value, ""))]
            ELSE Flushed(acc, <<i>>)
      step(acc, i) == IF i.op = literal THEN Held(acc, i)
                      ELSE IF i.op \in DOMAIN calculations THEN calculate(acc, i)
                      ELSE Flushed(acc, <<i>>)
  IN  Flushed(Scan(step, code), <<>>).out

IntFolds == [op \in {c \o "_INT" : c \in {"ADD", "SUB", "MUL", "DIV", "MOD", "BIT_AND", "BIT_OR", "BIT_XOR"}} |->
               CHOOSE c \in {"ADD", "SUB", "MUL", "DIV", "MOD", "BIT_AND", "BIT_OR", "BIT_XOR"} : op = c \o "_INT"]
FloatFolds == [op \in {c \o "_FLOAT" : c \in {"ADD", "SUB", "MUL", "DIV"}} |->
                 CHOOSE c \in {"ADD", "SUB", "MUL", "DIV"} : op = c \o "_FLOAT"]

FoldIntConstants(code) ==
  FoldConstants(code, "LOAD_INT_LIT", IntFolds, LAMBDA op, a, b : IntCalc(op, a, b, LiteralBits))
FoldFloatConstants(code) == FoldConstants(code, "LOAD_FLOAT_LIT", FloatFolds, FloatCalc)

-----------------------------------------------------------------------------
(* A multiplication or division of a variable by a power of two, whichever *)
(* operand the literal is, becomes a shift of the variable.                *)
Shift(n) == IF \E s \in 1 .. 8 : 2^s = n THEN CHOOSE s \in 1 .. 8 : 2^s = n ELSE 0

CalculateReduction(acc, i) ==
  LET n == Len(acc.work)
      pair == {acc.work[n - 1], acc.work[n]}
      literal == CHOOSE x \in pair : x.op = "LOAD_INT_LIT"
      variable == CHOOSE x \in pair : x.op = "LOAD_INT_VAR"
      shift == Code("LOAD_INT_LIT", Shift(literal.n), "")
  IN  IF n > 1 /\ {x.op : x \in pair} = {"LOAD_INT_LIT", "LOAD_INT_VAR"} /\ Shift(literal.n) # 0
      THEN Flushed([acc EXCEPT !.work = SubSeq(@, 1, n - 2)],
                   <<shift, variable, Code(IF i.op = "MUL_INT" THEN "SHL_INT" ELSE "SHR_INT", 0, "")>>)
      ELSE Flushed(acc, <<i>>)

StrengthReduction(code) ==
  LET step(acc, i) == IF i.op \in {"LOAD_INT_LIT", "LOAD_INT_VAR"} THEN Held(acc, i)
                      ELSE IF i.op \in {"MUL_INT", "DIV_INT"} THEN CalculateReduction(acc, i)
                      ELSE Flushed(acc, <<i>>)
  IN  Flushed(Scan(step, code), <<>>).out

(* A store and a load of the same variable become a copy, except among the *)
(* stores of the parameters.                                               *)
InstructionReplacement(code) ==
  LET stores == {"STOR_INT_VAR", "STOR_FLOAT_VAR"}
      first == SelectInSeq(code, LAMBDA i : i.op \notin stores)
      copied(acc, i) == /\ HoldsLast(acc, {IF i.op = "LOAD_INT_VAR" THEN "STOR_INT_VAR" ELSE "STOR_FLOAT_VAR"})
                        /\ Last(acc.work).n = i.n /\ Last(acc.work).m = i.m
      copy(i) == Code(IF i.op = "LOAD_INT_VAR" THEN "COPY_INT_VAR" ELSE "COPY_FLOAT_VAR", i.n, i.m)
      step(acc, i) ==
        IF i.op \in {"LOAD_INT_VAR", "LOAD_FLOAT_VAR"} /\ copied(acc, i)
        THEN [Drop(acc) EXCEPT !.out = Append(@, copy(i))]
        ELSE IF i.op \in stores /\ ~HoldsLast(acc, {"STOR_INT_VAR"}) THEN Held(acc, i)
        ELSE Flushed(acc, <<i>>)
  IN  SubSeq(code, 1, first - 1) \o Flushed(Scan(step, SubSeq(code, first, Len(code))), <<>>).out

-----------------------------------------------------------------------------
(* A call of a method that works on locals only and has one way out is     *)
(* replaced by its instructions, its locals behind those of the caller.    *)
(* The labels compared are those the caller had before anything was        *)
(* inlined into it.                                                        *)
Labels(code) == {i.n : i \in {j \in Range(code) : j.op \in {"LBL", "JMP"}}}
LocalOffset(code) == Max({0} \cup {i.n : i \in LocalVars(code)}) + 2

CanInlineMethod(code, caller, called, codes, new, inlined) ==
  LET body == codes[called]
  IN  /\ called # caller /\ called \notin inlined /\ ~new[called]
      /\ Len(body) >= 2
      /\ {i \in Range(body) : i.op \in VarOps} = LocalVars(body)
      /\ Labels(body) \cap Labels(code) = {}
      /\ Cardinality({j \in DOMAIN body : body[j].op = "RTRN"}) <= 1

(* Fault: the locals of the method keep their places. *)
FaultInlined(body, offset) ==
  <<Code("STOR_INT_VAR", offset, "LOCL")>>
    \o [j \in 1 .. Len(body) - 1 |-> IF body[j].op = "LOAD_INST_MEM" THEN Code("LOAD_INT_VAR", offset, "LOCL") ELSE body[j]]

Inlined(body, offset) ==
  LET shift(i) == IF i.op = "LOAD_INST_MEM" THEN Code("LOAD_INT_VAR", offset, "LOCL")
                  ELSE IF i.op \in VarOps THEN [i EXCEPT !.n = @ + offset + 1] ELSE i
  IN  <<Code("STOR_INT_VAR", offset, "LOCL")>> \o [j \in 1 .. Len(body) - 1 |-> shift(body[j])]

InlineMethod(caller, codes, new) ==
  LET code == codes[caller]
      step(acc, i) ==
        IF i.op = "MTHD_CALL" /\ CanInlineMethod(code, caller, i.n, codes, new, acc.inlined)
        THEN [out |-> acc.out \o Inlined(codes[i.n], LocalOffset(code)), inlined |-> acc.inlined \cup {i.n}]
        ELSE [acc EXCEPT !.out = Append(@, i)]
  IN  Scanned(step, [out |-> <<>>, inlined |-> {}], code).out

(* The passes of a level, in order. *)
Passes(level) ==
  SubSeq(<<"jumps", "useless", "access", "fold_int", "fold_float", "strength", "replace">>,
         1, CASE level = 0 -> 2 [] level = 1 -> 5 [] level = 2 -> 6 [] level = 3 -> 7)

OptimizePass(pass, method, codes, params) ==
  LET code == codes[method]
  IN  CASE pass = "jumps" -> CleanJumps(code)
        [] pass = "useless" -> RemoveUselessInstructions(code)
        [] pass = "access" -> InlineSettersGetters(code, codes, params)
        [] pass = "fold_int" -> FoldIntConstants(code)
        [] pass = "fold_float" -> FoldFloatConstants(code)
        [] pass = "strength" -> StrengthReduction(code)
        [] pass = "replace" -> InstructionReplacement(code)
====
