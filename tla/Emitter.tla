------------------------------ MODULE Emitter ------------------------------
(***************************************************************************)
(* The intermediate code generator, src/compiler/intermediate.cpp: from    *)
(* the decorated tree of a method to its flat list of stack instructions.  *)
(*                                                                         *)
(* An emission state st has the instructions so far, the two label         *)
(* counters, one emitter's for all methods, and the labels of the          *)
(* enclosing loops, innermost last.                                        *)
(*                                                                         *)
(* Critical sections are in Threads.                                       *)
(***************************************************************************)
EXTENDS Trees

CONSTANT UncondBase   \* first unconditional label less one, above every conditional one

(* An instruction: operation, operand, and memory context or jump condition. *)
Instr(op, n, m) == [op |-> op, n |-> n, m |-> m]
Op(op) == Instr(op, 0, "")
Jmp(label, when) == Instr("JMP", label, when)
Lbl(label) == Instr("LBL", label, "")

Emit(st, instrs) == [st EXCEPT !.code = @ \o instrs]
NextConditional(st) == [st EXCEPT !.cond = @ + 1]
NextUnconditional(st) == [st EXCEPT !.uncond = @ + 1]

-----------------------------------------------------------------------------
(* Entries: a declaration is [name, type, dim, mem]; its id is its place,   *)
(* where a Float scalar takes two and a method with logical expressions    *)
(* keeps place 0 for their result.                                         *)
EntryWidth(d) == IF d.type = "Float" /\ d.dim = 0 THEN 2 ELSE 1

EntryId(decls, i, first) ==
  first + FoldLeft(LAMBDA n, d : n + EntryWidth(d), 0, SubSeq(decls, 1, i - 1))

RECURSIVE HasAndOr(_)
HasAndOr(e) ==
  \/ e.k = "Cond"
  \/ e.k = "Calc" /\ e.op \in {"AND", "OR"}
  \/ \E i \in DOMAIN e.args : HasAndOr(e.args[i])
  \/ \E i \in DOMAIN e.next : HasAndOr(e.next[i])

(* The expressions of a statement, those of its parts included. *)
RECURSIVE StatementHasAndOr(_)
StatementHasAndOr(s) ==
  \/ \E i \in DOMAIN s.exprs : HasAndOr(s.exprs[i])
  \/ \E i \in DOMAIN s.blocks : \E j \in DOMAIN s.blocks[i] : StatementHasAndOr(s.blocks[i][j])

MethodHasAndOr(m) == \E i \in DOMAIN m.body : StatementHasAndOr(m.body[i])

(* The entry of a name: a local of the method, at its place there, else a  *)
(* field of the class.                                                      *)
Entry(env, name, local) ==
  LET field == SelectInSeq(env.fields, LAMBDA d : d.name = name)
  IN  IF local # 0
      THEN [id |-> EntryId(env.method.entries, local, IF MethodHasAndOr(env.method) THEN 1 ELSE 0),
            mem |-> "LOCL", type |-> env.method.entries[local].type,
            dim |-> env.method.entries[local].dim]
      ELSE [id |-> EntryId(env.fields, field, 0), mem |-> "INST",
            type |-> env.fields[field].type, dim |-> env.fields[field].dim]

LoadMemory(mem) == IF mem = "INST" THEN <<Op("LOAD_INST_MEM")>> ELSE <<>>
VarKind(entry) == IF entry.type = "Float" /\ entry.dim = 0 THEN "FLOAT" ELSE "INT"
ElemKind(entry) == IF entry.type = "Float" THEN "FLOAT" ELSE IF entry.type \in {"Byte", "Bool"} THEN "BYTE" ELSE "INT"
LoadVar(entry) == Instr(IF VarKind(entry) = "FLOAT" THEN "LOAD_FLOAT_VAR" ELSE "LOAD_INT_VAR", entry.id, entry.mem)
StorVar(entry) == Instr(IF VarKind(entry) = "FLOAT" THEN "STOR_FLOAT_VAR" ELSE "STOR_INT_VAR", entry.id, entry.mem)
LoadElem(entry) == Instr("LOAD_" \o ElemKind(entry) \o "_ARY_ELM", entry.dim, entry.mem)
StorElem(entry) == Instr("STOR_" \o ElemKind(entry) \o "_ARY_ELM", entry.dim, entry.mem)

-----------------------------------------------------------------------------
(* Fault: only integers are converted. *)
FaultEmitCast(st, e) == IF e.cast = "Float" /\ e.base \in IntTypes THEN Emit(st, <<Op("I2F")>>) ELSE st

(* A conversion when the cast crosses Float; the kind is the base type's. *)
EmitCast(st, e) ==
  IF e.cast = None THEN st
  ELSE IF e.base \in IntTypes /\ e.cast = "Float" THEN Emit(st, <<Op("I2F")>>)
  ELSE IF e.base = "Float" /\ e.cast # "Float" THEN Emit(st, <<Op("F2I")>>)
  ELSE st

(* The instruction of a calculation: a comparison is of floats when either *)
(* operand evaluates to one, arithmetic when the result does.              *)
CalcOp(e) ==
  LET float == IF e.op \in CompareOps
               THEN \E i \in 1 .. 2 : e.args[i].eval = "Float" /\ (e.op \in {"EQL", "NEQL"} => e.args[i].dim = 0)
               ELSE e.eval = "Float"
  IN  IF e.op \in IntegerOps \/ ~float THEN e.op \o "_INT" ELSE e.op \o "_FLOAT"

EmitLit(st, e) ==
  LET load == IF e.base = "Float" THEN "LOAD_FLOAT_LIT" ELSE "LOAD_INT_LIT"
      lit == Emit(st, <<Instr(load, e.v, "")>>)
  IN  IF e.base \in {"Bool", "Nil"} THEN lit ELSE EmitCast(lit, e)

(* Expressions, calls and statements are emitted by each other. *)
RECURSIVE Emission(_, _, _, _)
EmitExpression(st, env, e) == Emission("expression", st, env, e)
EmitChainParameters(st, env, call) == Emission("parameters", st, env, call)
EmitCalls(st, env, call, nested) == Emission("calls", st, env, <<call, nested>>)
EmitStatement(st, env, s) == Emission("statement", st, env, s)
EmitElseIf(st, env, s, next, end) == Emission("else if", st, env, <<s, next, end>>)
EmitSelectNode(st, env, s, node, label, other) == Emission("node", st, env, <<s, node, label, other>>)

(* Parameters of every call of a chain, those of the last call first, and  *)
(* the new object after the parameters of its constructor.                 *)
EmitExpressions(st, env, exprs) ==
  FoldLeft(LAMBDA s, e : EmitExpression(s, env, e), st, exprs)

ChainParametersCode(st, env, call) ==
  LET tail == IF call.next = <<>> THEN st ELSE EmitChainParameters(st, env, call.next[1])
      params == EmitExpressions(tail, env, call.args)
  IN  IF call.op = "new" THEN Emit(params, <<Op("NEW_OBJ_INST")>>) ELSE params

(* The receiver, unless the call is made on a result or on a new object,   *)
(* then the call.  A constructor called from itself gets the instance of   *)
(* its caller.                                                             *)
EmitMethodCall(st, env, call, nested) ==
  IF call.op = "array"
  THEN Emit(st, <<Instr("NEW_" \o ElemKind([type |-> call.name]) \o "_ARY", Len(call.args), "")>>)
  ELSE LET on == Entry(env, call.on, call.place)
           receiver ==
             IF call.on # "" THEN LoadMemory(on.mem) \o <<LoadVar(on)>>
             ELSE IF ~nested /\ (call.op # "new" \/ call.v = env.method.id) THEN <<Op("LOAD_INST_MEM")>>
             ELSE <<>>
       IN  Emit(st, receiver \o <<Instr("MTHD_CALL", call.v, "")>>)

CallsCode(st, env, call, nested) ==
  LET called == EmitCast(EmitMethodCall(st, env, call, nested), call)
  IN  IF call.next = <<>> THEN called ELSE EmitCalls(called, env, call.next[1], call.base = "Obj")

EmitMethodCallExpression(st, env, call) ==
  EmitCalls(EmitChainParameters(st, env, call), env, call, FALSE)

EmitVariable(st, env, e) ==
  LET entry == Entry(env, e.name, e.place)
      indices == EmitExpressions(st, env, e.args)
  IN  Emit(indices, LoadMemory(entry.mem)
                      \o IF e.args = <<>> THEN <<LoadVar(entry)>> ELSE <<LoadVar(entry), LoadElem(entry)>>)

(* The operand on the right of the tree first: it is the left of the source *)
(* for AND and OR, whose second operand is skipped when the first decides.  *)
EmitAndOr(st, env, e) ==
  LET right == EmitExpression(st, env, e.args[2])
      decided == Emit(NextUnconditional(NextConditional(right)),
                      <<Jmp(right.cond + 1, IF e.op = "AND" THEN "true" ELSE "false"),
                        Instr("LOAD_INT_LIT", IF e.op = "AND" THEN 0 ELSE 1, ""),
                        Instr("STOR_INT_VAR", 0, "LOCL"),
                        Jmp(right.uncond + 1, "always"), Lbl(right.cond + 1)>>)
      left == EmitExpression(decided, env, e.args[1])
  IN  Emit(left, <<Instr("STOR_INT_VAR", 0, "LOCL"), Lbl(right.uncond + 1), Instr("LOAD_INT_VAR", 0, "LOCL")>>)

(* Right operand, left operand, operation: the left one ends on top. *)
EmitCalculation(st, env, e) ==
  EmitCast(Emit(EmitExpression(EmitExpression(st, env, e.args[2]), env, e.args[1]), <<Op(CalcOp(e))>>), e)

(* Both branches leave their value in place 0; no cast is emitted. *)
EmitConditional(st, env, e) ==
  LET test == NextConditional(EmitExpression(NextUnconditional(st), env, e.args[1]))
      end == st.uncond + 1
      then == EmitExpression(Emit(test, <<Jmp(test.cond, "false")>>), env, e.args[2])
      else == EmitExpression(Emit(then, <<Instr("STOR_INT_VAR", 0, "LOCL"), Jmp(end, "always"), Lbl(test.cond)>>),
                             env, e.args[3])
  IN  Emit(else, <<Instr("STOR_INT_VAR", 0, "LOCL"), Lbl(end), Instr("LOAD_INT_VAR", 0, "LOCL")>>)

ExpressionCode(st, env, e) ==
  CASE e.k = "Lit" -> EmitLit(st, e)
    [] e.k = "Var" -> EmitCast(EmitVariable(st, env, e), e)
    [] e.k = "Cond" -> EmitConditional(st, env, e)
    [] e.k = "Call" -> EmitMethodCallExpression(st, env, e)
    [] e.k = "Calc" -> IF e.op \in {"AND", "OR"} THEN EmitAndOr(st, env, e) ELSE EmitCalculation(st, env, e)

-----------------------------------------------------------------------------
EmitBlock(st, env, stmts) ==
  FoldLeft(LAMBDA s, stmt : Strictly(LAMBDA t : EmitStatement(t, env, stmt), s), st, stmts)

(* Fault: a Float that nobody uses stays on the stack. *)
FaultOrphanReturn(call) ==
  IF call.op = "array" \/ call.base = "Nil" \/ (call.base = "Float" /\ call.dim = 0) THEN <<>> ELSE <<Op("POP_INT")>>

(* The call after which nothing is called keeps a value nobody uses. *)
OrphanReturn(call) ==
  IF call.op = "array" \/ call.base = "Nil" THEN <<>>
  ELSE IF call.base = "Float" /\ call.dim = 0 THEN <<Op("POP_FLOAT")>> ELSE <<Op("POP_INT")>>

EmitMethodCallStatement(st, env, call) ==
  Emit(EmitMethodCallExpression(st, env, call), OrphanReturn(LastCall(call)))

(* A compound assignment loads the element or variable above the value. The *)
(* indices are evaluated once for the load and once for the store.          *)
EmitAssignment(st, env, s) ==
  LET target == s.exprs[2]
      entry == Entry(env, target.name, target.place)
      mem == LoadMemory(entry.mem)
      indices(t) == EmitExpressions(t, env, target.args)
      access(t, element) ==
        IF target.args = <<>> THEN t ELSE Emit(indices(t), mem \o <<LoadVar(entry)>> \o element)
      value == EmitExpression(st, env, s.exprs[1])
      old == IF target.args = <<>> THEN Emit(value, mem \o <<LoadVar(entry)>>)
             ELSE access(value, <<LoadElem(entry)>>)
      operated == IF s.op = "" THEN value
                  ELSE Emit(old, <<Op(s.op \o IF target.eval = "Float" THEN "_FLOAT" ELSE "_INT")>>)
  IN  IF target.args = <<>> THEN Emit(operated, mem \o <<StorVar(entry)>>)
      ELSE access(operated, <<StorElem(entry)>>)

EmitIf(st, env, s) ==
  LET chain == EmitElseIf(NextConditional(NextUnconditional(st)), env, s, st.cond + 1, st.uncond + 1)
  IN  Emit(chain, <<Lbl(st.uncond + 1)>>)

(* .blocks: the statements, the next if of the chain (none or one), else. *)
ElseIfCode(st, env, s, next, end) ==
  LET test == NextConditional(EmitExpression(Emit(st, <<Lbl(next)>>), env, s.exprs[1]))
      more == s.blocks[2] # <<>>
      then == EmitBlock(Emit(test, <<Jmp(IF more \/ s.op = "else" THEN test.cond ELSE end, "false")>>),
                        env, s.blocks[1])
      left == Emit(then, <<Jmp(end, "always")>> \o
                         IF s.blocks[1] = <<>> /\ ~more THEN <<Op("POP_INT")>> ELSE <<>>)
      chain == IF more THEN EmitElseIf(left, env, s.blocks[2][1], test.cond, end) ELSE left
  IN  IF s.op = "else" THEN EmitBlock(Emit(chain, <<Lbl(test.cond)>>), env, s.blocks[3]) ELSE chain

(* A loop's exit label is the target of the breaks in its body. *)
EmitBody(st, env, exit, stmts) ==
  [EmitBlock([st EXCEPT !.brk = Append(@, exit)], env, stmts) EXCEPT !.brk = st.brk]

EmitDoWhile(st, env, s) ==
  LET exit == st.uncond + 1
      body == EmitBody(Emit(NextConditional(NextUnconditional(st)), <<Lbl(st.cond + 1)>>), env, exit, s.blocks[1])
  IN  Emit(EmitExpression(body, env, s.exprs[1]), <<Jmp(st.cond + 1, "true"), Lbl(exit)>>)

(* While, and For with statements before and after the body. *)
EmitFor(st, env, s) ==
  LET first == EmitBlock(st, env, s.blocks[2])
      loop == Emit(NextUnconditional(first), <<Lbl(first.uncond + 1)>>)
      test == NextConditional(EmitExpression(loop, env, s.exprs[1]))
      exit == test.cond
      body == EmitBody(Emit(test, <<Jmp(exit, "false")>>), env, exit, s.blocks[1])
      update == EmitBlock(body, env, s.blocks[3])
  IN  Emit(update, <<Jmp(first.uncond + 1, "always"), Lbl(exit)>>)

-----------------------------------------------------------------------------
(* A select of one label is an if; of more, a tree of comparisons, each of  *)
(* which evaluates the selected expression anew.                            *)
SortedValues(s) ==
  [i \in 1 .. Cardinality(DOMAIN s.values) |->
     CHOOSE v \in DOMAIN s.values : Cardinality({w \in DOMAIN s.values : w <= v}) = i]

EmitSelectOne(st, env, s) ==
  LET end == st.uncond + 1
      labels == IF s.op = "other" THEN NextConditional(NextUnconditional(st)) ELSE NextUnconditional(st)
      test == EmitExpression(Emit(labels, <<Instr("LOAD_INT_LIT", SortedValues(s)[1], "")>>), env, s.exprs[1])
      branch == Emit(test, <<Op("EQL_INT"), Jmp(IF s.op = "other" THEN labels.cond ELSE end, "false")>>)
      stmts == Emit(EmitBlock(branch, env, s.blocks[1]), <<Jmp(end, "always")>>)
      other == IF s.op = "other" THEN EmitBlock(Emit(stmts, <<Lbl(labels.cond)>>), env, s.blocks[2]) ELSE stmts
  IN  Emit(other, <<Lbl(end)>>)

(* A node [id, op, v, v2, kids] over the values from first to last: a leaf  *)
(* tests for its value, an inner node goes left below its value.            *)
RECURSIVE SelectDivide(_, _, _, _)
SelectDivide(id, values, first, last) ==
  LET leaf(n, v) == [id |-> n, op |-> "EQUAL", v |-> v, v2 |-> v, kids |-> <<>>]
      node(n, op, v, v2, left, right) == [id |-> n, op |-> op, v |-> v, v2 |-> v2, kids |-> <<left, right>>]
      size == last - first + 1
      middle == size \div 2 + first
      left == SelectDivide(id, values, first, middle - 1)
      right == SelectDivide(left.id, values, IF size % 2 = 0 THEN middle ELSE middle + 1, last)
  IN  IF size = 2
      THEN node(id + 3, "LESS", values[first + 1], 0, leaf(id + 1, values[first]), leaf(id + 2, values[first + 1]))
      ELSE IF size = 3
      THEN node(id + 3, "EQUAL_OR_LESS", values[first + 1], values[first + 2],
                leaf(id + 1, values[first]), leaf(id + 2, values[first + 2]))
      ELSE node(right.id + 1, IF size % 2 = 0 THEN "LESS" ELSE "EQUAL_OR_LESS", values[middle], values[middle],
                left, right)

SelectNodeCode(st, env, s, node, label, other) ==
  LET test(t, v, op) == Emit(EmitExpression(Emit(t, <<Instr("LOAD_INT_LIT", v, "")>>), env, s.exprs[1]), <<Op(op)>>)
      entered == Emit(st, <<Lbl(node.id)>>)
      equal == IF node.op = "LESS" THEN entered
               ELSE Emit(test(entered, node.v, "EQL_INT"), <<Jmp(label[node.v], "true")>>)
      less == Emit(test(equal, IF node.op = "LESS" THEN node.v ELSE node.v2, "LES_INT"),
                   <<Jmp(node.kids[1].id, "true"), Jmp(node.kids[2].id, "always")>>)
  IN  IF node.op = "EQUAL" THEN Emit(equal, <<Jmp(other, "always")>>)
      ELSE EmitSelectNode(EmitSelectNode(less, env, s, node.kids[1], label, other), env, s, node.kids[2], label, other)

EmitSelectTree(st, env, s) ==
  LET values == SortedValues(s)
      end == st.uncond + 1
      place(v) == st.cond + Cardinality({w \in DOMAIN s.values : w <= v})
      other == IF s.op = "other" THEN st.cond + Len(values) + 1 ELSE end
      root == SelectDivide(IF s.op = "other" THEN other ELSE st.cond + Len(values), values, 1, Len(values))
      tested == EmitSelectNode([NextUnconditional(st) EXCEPT !.cond = root.id], env, s, root,
                               [v \in DOMAIN s.values |-> place(v)], other)
      part(t, label, stmts) == Emit(EmitBlock(Emit(t, <<Lbl(label)>>), env, stmts), <<Jmp(end, "always")>>)
      labelled == FoldLeft(LAMBDA t, v : part(t, place(v), s.blocks[s.values[v]]), tested, values)
      finished == IF s.op = "other" THEN part(labelled, other, Last(s.blocks)) ELSE labelled
  IN  Emit(finished, <<Lbl(end)>>)

StatementCode(st, env, s) ==
  CASE s.k = "Assign" -> EmitAssignment(st, env, s)
    [] s.k = "Call" -> EmitMethodCallStatement(st, env, s.exprs[1])
    [] s.k = "If" -> EmitIf(st, env, s)
    [] s.k \in {"While", "For"} -> EmitFor(st, env, s)
    [] s.k = "DoWhile" -> EmitDoWhile(st, env, s)
    [] s.k = "Select" -> IF Cardinality(DOMAIN s.values) > 1 THEN EmitSelectTree(st, env, s) ELSE EmitSelectOne(st, env, s)
    [] s.k = "Decl" -> EmitBlock(st, env, s.blocks[1])
    [] s.k = "Empty" -> st
    [] s.k = "Simple" -> EmitExpression(st, env, s.exprs[1])
    [] s.k = "Break" -> Emit(st, <<Jmp(Last(st.brk), "always")>>)
    [] s.k = "Return" -> Emit(EmitExpressions(st, env, s.exprs), <<Op("RTRN")>>)

Emission(what, st, env, x) ==
  CASE what = "expression" -> ExpressionCode(st, env, x)
    [] what = "parameters" -> ChainParametersCode(st, env, x)
    [] what = "calls" -> CallsCode(st, env, x[1], x[2])
    [] what = "statement" -> StatementCode(st, env, x)
    [] what = "else if" -> ElseIfCode(st, env, x[1], x[2], x[3])
    [] what = "node" -> SelectNodeCode(st, env, x[1], x[2], x[3], x[4])

(* A method stores its parameters, the last first; a constructor leaves the *)
(* new instance.  Its first .params entries are the parameters.  The labels *)
(* of one method follow those of the one before.                            *)
FirstLabels == [cond |-> -1, uncond |-> UncondBase]

EmitMethod(labels, env) ==
  LET m == env.method
      stores == [i \in 1 .. m.params |-> StorVar(Entry(env, "", m.params + 1 - i))]
      start == [code |-> stores, cond |-> labels.cond, uncond |-> labels.uncond, brk |-> <<>>]
      instance == IF m.new THEN <<Op("LOAD_INST_MEM")>> ELSE <<>>
      return == IF m.body # <<>> /\ Last(m.body).k = "Return" THEN <<>> ELSE <<Op("RTRN")>>
  IN  Emit(EmitBlock(start, env, m.body), instance \o return)
====
