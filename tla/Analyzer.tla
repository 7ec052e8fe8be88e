----------------------------- MODULE Analyzer ------------------------------
(***************************************************************************)
(* The contextual analysis, src/compiler/context.cpp and context.h: it     *)
(* finds the declaration of every variable and the method of every call,   *)
(* gives every expression its type and the conversion it needs, and marks  *)
(* what it rejects.                                                        *)
(*                                                                         *)
(* An environment has the entries of the method so far, its scopes, the     *)
(* innermost last, each the places of its names among the entries, how      *)
(* many declarations have been met, the fields, all methods, the number of  *)
(* the current one and whether a loop is open.                              *)
(* Nested calculations and parameters are analysed several times by the    *)
(* code, with the same result as once.                                     *)
(***************************************************************************)
EXTENDS Trees

Bad(e, wrong) == [e EXCEPT !.bad = @ \/ wrong]

(* A type with its dimensions; an expression's is that of its last call,   *)
(* and its cast comes before what it evaluates to.                         *)
Type(name, dim) == [name |-> name, dim |-> dim]
EvalOf(e) == Type(e.eval, e.dim)
TypeOf(e) == IF e.cast # None THEN Type(e.cast, 0) ELSE EvalOf(e)
ExpressionType(e) == TypeOf(LastCall(e))
IsScalar(e) == LET l == LastCall(e) IN TypeOf(l).dim = 0 \/ (l.k = "Var" /\ l.args # <<>>)
IsBoolean(e) == LastCall(e).eval = "Bool"
IsInteger(e) == ExpressionType(e).name \in IntTypes
Evaluates(e, type) == [e EXCEPT !.eval = type.name, !.dim = type.dim,
                                !.base = IF @ = None THEN type.name ELSE @]

(* A scope has the names its statements declare from its start; places goes *)
(* on after the parameters and the declarations written before it.          *)
NewScope(env, stmts) ==
  LET names == {d.name : d \in UNION {Range(stmts[i].values) : i \in {j \in DOMAIN stmts : stmts[j].k = "Decl"}}}
      first(name) == SelectInSeq(stmts, LAMBDA s : s.k = "Decl" /\ s.values[1].name = name)
      place(name) == env.params + env.seen + Len(DeclarationsIn(SubSeq(stmts, 1, first(name))))
  IN  [env EXCEPT !.scopes = Append(@, [name \in names |-> place(name)])]
PreviousScope(env) == [env EXCEPT !.scopes = Front(@)]

(* The place of a local, in the innermost scope that has the name; 0 if     *)
(* none has.                                                                *)
Place(env, name) ==
  LET scope == SelectLastInSeq(env.scopes, LAMBDA s : name \in DOMAIN s)
  IN  IF scope = 0 THEN 0 ELSE env.scopes[scope][name]

(* The declaration of a name, a local before a field; a name without one   *)
(* has type Var.                                                           *)
Declared(env, name) ==
  LET field == SelectInSeq(env.fields, LAMBDA d : d.name = name)
  IN  IF Place(env, name) # 0 THEN env.entries[Place(env, name)]
      ELSE IF field # 0 THEN env.fields[field]
      ELSE Decl(name, "Var", 0)

-----------------------------------------------------------------------------
(* What a value must become for the place it goes to: e is the expression,  *)
(* without the calls made on it, right the type the analysis goes by.       *)
RightCast(left, right, e, scalar) ==
  LET number(t) == t.name \in IntTypes \cup {"Float"}
      integer(t) == t.name \in IntTypes
      float(t) == t.name = "Float"
      array == left.dim # right.dim \/ left.name # right.name
  IN  IF ~scalar THEN Bad(Evaluates(e, left), array /\ right.name # "Nil")
      ELSE IF number(left) /\ number(right)
      THEN IF integer(left) # integer(right)
           THEN [Evaluates(e, right) EXCEPT !.cast = left.name]
           ELSE IF e.eval = (IF integer(left) THEN "Float" ELSE "Int") THEN e ELSE Evaluates(e, left)
      ELSE IF right.name = "Nil" /\ left.name # "Nil"
      THEN Bad(e, IF left.name = "Obj" THEN e.k # "Lit" ELSE left.dim < 1 /\ left.name # "Var")
      ELSE Bad(e, left.name # right.name \/ left.name \notin {"Bool", "Obj"})

(* The value of an assignment, a return or a parameter. *)
CastTo(left, e, scalar) == WithLast(e, RightCast(left, ExpressionType(e), LastCall(e), scalar))

(* A cast written in the source. *)
AnalyzeCast(e) ==
  LET root == Type(IF e.base = None THEN e.eval ELSE e.base, e.dim)
      wrong == root.name = "Var" \/ (e.k = "Var" /\ e.args = <<>> /\ root.dim # 0)
  IN  IF e.cast = None THEN e
      ELSE Bad(IF e.k = "Call" THEN RightCast(Type(e.cast, 0), root, e, IsScalar(e)) ELSE e, wrong)

-----------------------------------------------------------------------------
(* The type of a calculation and the conversion of the operand that is not  *)
(* a Float when the other is; both are marked on the first call of a chain. *)
CalculationCast(e) ==
  LET left == ExpressionType(e.args[1])
      right == ExpressionType(e.args[2])
      integers == left.name \in IntTypes /\ right.name \in IntTypes
      float(t) == t.name = "Float"
      number(t) == t.name \in IntTypes \cup {"Float"}
      result(name) == Evaluates(e, Type(name, 0))
  IN  IF ~(IsScalar(e.args[1]) /\ IsScalar(e.args[2])) THEN Bad(e, right.name # "Nil")
      ELSE IF integers THEN result(left.name)
      ELSE IF number(left) /\ number(right)
      THEN IF float(left) = float(right) THEN result("Float")
           ELSE [result("Float") EXCEPT !.args[IF float(left) THEN 2 ELSE 1].cast = "Float"]
      ELSE IF left.name = right.name /\ left.name \in {"Bool", "Obj"} THEN result("Bool")
      ELSE Bad(e, {left.name, right.name} # {"Obj", "Nil"})

(* Fault: arithmetic takes Bools. *)
FaultInvalidOperands(e) ==
  LET boolean == {x \in {e.args[1], e.args[2]} : IsBoolean(x)}
  IN  IF e.op \in LogicOps THEN boolean # {e.args[1], e.args[2]} ELSE \E i \in 1 .. 2 : ExpressionType(e.args[i]).name = "Obj"

(* What each operator rejects once its operands are converted. *)
InvalidOperands(e) ==
  LET operand == {e.args[1], e.args[2]}
      boolean == {x \in operand : IsBoolean(x)}
      class == \E x \in operand : ExpressionType(x).name = "Obj"
      float == \E x \in operand : (x.eval = "Float" /\ x.cast \notin {None, "Int"}) \/ x.cast = "Float"
  IN  CASE e.op \in LogicOps -> boolean # operand
        [] e.op \in {"EQL", "NEQL"} -> boolean \notin {{}, operand}
        [] e.op \in CompareOps \ {"EQL", "NEQL"} -> boolean # {} \/ class \/ \E x \in operand : x.eval = "Nil"
        [] e.op = "MOD" -> boolean # {} \/ class \/ float
        [] OTHER -> boolean # {} \/ class

AnalyzeCalculation(e) ==
  LET converted == CalculationCast(e)
      typed == IF e.op \in CompareOps THEN Evaluates(converted, Type("Bool", 0)) ELSE converted
  IN  Bad(typed, InvalidOperands(converted))

AnalyzeConditional(e) ==
  LET if == ExpressionType(e.args[2]).name
      else == ExpressionType(e.args[3]).name
  IN  Bad(Evaluates(e, Type(e.args[2].eval, 0)), if # else \/ if = "Nil")

(* An array element keeps the dimensions of its array. *)
AnalyzeVariable(env, e) ==
  LET entry == Declared(env, e.name)
      count == e.args # <<>> /\ Len(e.args) # entry.dim
      indices == \E i \in DOMAIN e.args : e.args[i].eval \notin IntTypes
  IN  Bad([Evaluates(e, Type(entry.type, entry.dim)) EXCEPT !.place = Place(env, e.name)], count \/ indices)

-----------------------------------------------------------------------------
(* Fault: a number fits a parameter of its own type only. *)
FaultMatchCallingParameter(e, decl) ==
  IF ExpressionType(e) = Type(decl.type, decl.dim) THEN 0 ELSE -1

(* How well a parameter fits: 0 exactly, 1 with a conversion, -1 not. *)
MatchCallingParameter(e, decl) ==
  LET calling == ExpressionType(e)
      numbers == IntTypes \cup {"Float"}
  IN  IF ~IsScalar(e) THEN IF calling = Type(decl.type, decl.dim) THEN 0 ELSE -1
      ELSE IF decl.dim # 0 THEN -1
      ELSE IF calling.name = decl.type /\ decl.type # "Var" THEN 0
      ELSE IF (calling.name \in numbers /\ decl.type \in numbers) \/ (calling.name = "Nil" /\ decl.type = "Obj") THEN 1
      ELSE -1

(* Of several valid candidates the one with most exact parameters in front. *)
(* The scores are those of all candidates, the invalid ones too.            *)
ResolveMethodCall(env, call) ==
  LET matches == SelectSeq(env.methods, LAMBDA m : m.name = call.name /\ m.params = Len(call.args))
      match(m) == [i \in DOMAIN call.args |-> MatchCallingParameter(call.args[i], m.entries[i])]
      valid == SelectSeq(matches, LAMBDA m : \A i \in DOMAIN call.args : match(m)[i] >= 0)
      score(m) == Max({n \in 0 .. m.params : \A i \in 1 .. n : match(m)[i] = 0})
      best == SelectInSeq(matches, LAMBDA m : score(m) > 0 /\ \A x \in Range(matches) : score(m) >= score(x))
  IN  IF Len(valid) <= 1 THEN valid
      ELSE IF best = 0 THEN <<>> ELSE <<matches[best]>>

(* Expressions, calls and statements are analysed by each other. *)
RECURSIVE Analysis(_, _, _)
AnalyzeExpression(env, e) == Analysis("expression", env, e)
AnalyzeCall(env, e) == Analysis("call", env, e)
AnalyzeStatement(env, s) == Analysis("statement", env, s)

(* The call with its method, its parameters converted twice, by their type  *)
(* and then by what they evaluate to, and the call made on its result.      *)
ConvertParameter(decl, arg) ==
  LET place == Type(decl.type, decl.dim)
      Again(once) == WithLast(once, RightCast(place, EvalOf(LastCall(once)), LastCall(once), IsScalar(LastCall(once))))
  IN  Again(CastTo(place, arg, IsScalar(arg)))

WithMethod(env, e, method) ==
  [e EXCEPT !.v = method.id, !.base = method.returns.name, !.eval = method.returns.name,
            !.dim = method.returns.dim, !.place = Place(env, e.on),
            !.args = [i \in DOMAIN @ |-> ConvertParameter(method.entries[i], @[i])]]

AnalyzeChain(env, called) ==
  Bad([called EXCEPT !.next = [i \in DOMAIN @ |-> AnalyzeCall(env, @[i])]],
      called.next # <<>> /\ TypeOf(called) # Type("Obj", 0))

AnalyzeMethodCall(env, e, found) ==
  LET receiver == Declared(env, e.on)
  IN  IF found = <<>> \/ (e.on # "" /\ Type(receiver.type, receiver.dim) # Type("Obj", 0))
      THEN Bad(e, TRUE) ELSE AnalyzeChain(env, WithMethod(env, e, found[1]))

CallAnalysis(env, e) ==
  LET Analyzed(call) == IF call.op = "array" THEN Bad(call, \E i \in DOMAIN call.args : call.args[i].eval \notin IntTypes)
                        ELSE AnalyzeMethodCall(env, call, ResolveMethodCall(env, call))
  IN  Analyzed([e EXCEPT !.args = [i \in DOMAIN @ |-> AnalyzeExpression(env, @[i])]])

ExpressionAnalysis(env, e) ==
  LET Analyzed(parts) == CASE e.k = "Lit" -> e
                           [] e.k = "Var" -> AnalyzeVariable(env, parts)
                           [] e.k = "Calc" -> AnalyzeCalculation(parts)
                           [] e.k = "Cond" -> AnalyzeConditional(parts)
                           [] e.k = "Call" -> AnalyzeCall(env, e)
  IN  AnalyzeCast(Analyzed([e EXCEPT !.args = [i \in DOMAIN @ |-> AnalyzeExpression(env, @[i])]]))

RECURSIVE Rejected(_)
Rejected(e) ==
  \/ e.bad
  \/ \E i \in DOMAIN e.args : Rejected(e.args[i])
  \/ \E i \in DOMAIN e.next : Rejected(e.next[i])

-----------------------------------------------------------------------------
(* Statements change the environment, whose .ok says nothing was rejected   *)
(* so far, and are collected in .done.                                      *)
Done(env, s) == [env EXCEPT !.done = Append(@, s), !.ok = @ /\ \A i \in DOMAIN s.exprs : ~Rejected(s.exprs[i])]
Refuse(env, wrong) == [env EXCEPT !.ok = @ /\ ~wrong]

(* A list of statements in a scope of its own: the environment after it,   *)
(* its .done the list.                                                      *)
AnalyzeEach(env, stmts) ==
  FoldLeft(LAMBDA before, s : Strictly(LAMBDA e : AnalyzeStatement(e, s), before), [env EXCEPT !.done = <<>>], stmts)
AnalyzeStatements(env, stmts) == PreviousScope(AnalyzeEach(NewScope(env, stmts), stmts))

(* The blocks of a statement in the order given, then the statement itself. *)
AnalyzeBlocks(env, s, order) ==
  LET step(acc, i) == LET after == AnalyzeStatements(acc.env, s.blocks[i])
                      IN  [env |-> [after EXCEPT !.done = env.done], stmt |-> [acc.stmt EXCEPT !.blocks[i] = after.done]]
      Analyzed(all) == Done(all.env, all.stmt)
  IN  Analyzed(FoldLeft(step, [env |-> env, stmt |-> s], order))

InLoop(env, loop) == [env EXCEPT !.loop = loop]
Tested(env, s) == [s EXCEPT !.exprs[1] = AnalyzeExpression(env, @)]

(* The first assignment of a name without a type gives it one; an element   *)
(* of an array gives the type of the elements.                              *)
Bind(env, target, value) ==
  LET type == IF LastCall(value).k = "Var" /\ LastCall(value).args # <<>>
              THEN Type(ExpressionType(value).name, 0) ELSE ExpressionType(value)
  IN  IF target.eval # "Var" THEN env
      ELSE [env EXCEPT !.entries = Append(@, Decl(target.name, type.name, type.dim)),
                       !.scopes = Append(Front(@), (target.name :> Len(env.entries) + 1) @@ Last(@))]

BoundTarget(bound, target) ==
  LET Typed(entry) == [target EXCEPT !.base = entry.type, !.eval = entry.type, !.dim = entry.dim,
                                     !.place = Place(bound, target.name)]
  IN  Typed(Declared(bound, target.name))

AnalyzeValue(bound, s, target, value) ==
  LET converted == CastTo(EvalOf(target), value, IsScalar(target) /\ IsScalar(value))
  IN  Refuse(Done(bound, [s EXCEPT !.exprs = <<converted, target>>]),
             ExpressionType(value).name = "Var" \/ (value.k = "Call" /\ LastCall(value).eval = "Nil"))

AnalyzeTarget(env, s, target, value) ==
  LET Bound(bound) == AnalyzeValue(bound, s, IF bound = env THEN target ELSE BoundTarget(bound, target), value)
  IN  Refuse(Bound(Bind(env, target, value)), target.eval = "Var" /\ target.args # <<>>)

AnalyzeAssignment(env, s) ==
  AnalyzeTarget(env, s, AnalyzeVariable(env, [s.exprs[2] EXCEPT !.args = [i \in DOMAIN @ |-> AnalyzeExpression(env, @[i])]]),
                AnalyzeExpression(env, s.exprs[1]))

AnalyzeReturn(env, s) ==
  LET returns == env.methods[env.method].returns
      value == AnalyzeExpression(env, s.exprs[1])
      converted == CastTo(returns, value, IsScalar(value) /\ returns.dim = 0)
  IN  Refuse(Done(env, IF s.exprs = <<>> THEN s ELSE [s EXCEPT !.exprs = <<converted>>]),
             (s.exprs = <<>> /\ returns.name # "Nil") \/ env.methods[env.method].new)

(* A select's pairs of a label's value and a block become a function. *)
AnalyzeSelect(env, s) ==
  LET t == Tested(env, s)
      label(v) == s.values[SelectInSeq(s.values, LAMBDA p : p[1] = v)][2]
      values == {p[1] : p \in Range(s.values)}
      wrong == ~IsInteger(t.exprs[1]) \/ values = {} \/ Cardinality(values) # Len(s.values)
  IN  AnalyzeBlocks(Refuse(env, wrong), [t EXCEPT !.values = [v \in values |-> label(v)]], [i \in DOMAIN s.blocks |-> i])

(* A name is declared once in a scope and those around it: what is declared *)
(* here is not one that was, as far as the parser had come.                 *)
AnalyzeDeclaration(env, s) ==
  LET place == env.params + env.seen + 1
      again == \E i \in DOMAIN env.scopes : s.values[1].name \in DOMAIN env.scopes[i] /\ env.scopes[i][s.values[1].name] < place
      assigned == AnalyzeEach([env EXCEPT !.seen = @ + 1], s.blocks[1])
  IN  Done([Refuse(assigned, again) EXCEPT !.done = env.done], [s EXCEPT !.blocks[1] = assigned.done])

(* The end of any loop leaves the analysis out of loops, even of an outer  *)
(* one.                                                                     *)
StatementAnalysis(env, s) ==
  CASE s.k = "Assign" -> AnalyzeAssignment(env, s)
    [] s.k = "Call" -> Done(env, [s EXCEPT !.exprs[1] = AnalyzeExpression(env, @)])
    [] s.k = "Decl" -> AnalyzeDeclaration(env, s)
    [] s.k = "Return" -> AnalyzeReturn(env, s)
    [] s.k = "Empty" -> Done(env, s)
    [] s.k = "Simple" -> LET t == Tested(env, s) IN Refuse(Done(env, t), s.exprs[1].next = <<>>)
    [] s.k = "Break" -> Done(Refuse(env, ~env.loop), s)
    [] s.k = "If" -> LET t == Tested(env, s) IN AnalyzeBlocks(Refuse(env, ~IsBoolean(t.exprs[1])), t, <<1, 2, 3>>)
    [] s.k = "Select" -> AnalyzeSelect(env, s)
    [] s.k = "DoWhile" ->
         LET body == AnalyzeEach(InLoop(NewScope(env, s.blocks[1]), TRUE), s.blocks[1])
             t == Tested(body, [s EXCEPT !.blocks[1] = body.done])
         IN  PreviousScope(Done(Refuse(InLoop([body EXCEPT !.done = env.done], FALSE), ~IsBoolean(t.exprs[1])), t))
    [] s.k = "While" ->
         LET t == Tested(env, s)
         IN  InLoop(Refuse(AnalyzeBlocks(InLoop(env, TRUE), t, <<1>>), ~IsBoolean(t.exprs[1])), FALSE)
    [] s.k = "For" ->
         LET pre == AnalyzeEach(NewScope(env, s.blocks[2]), s.blocks[2])
             t == Tested(pre, [s EXCEPT !.blocks[2] = pre.done])
             update == AnalyzeEach(pre, s.blocks[3])
             looped == AnalyzeBlocks(InLoop([update EXCEPT !.done = env.done], TRUE), [t EXCEPT !.blocks[3] = update.done], <<1>>)
         IN  PreviousScope(InLoop(Refuse(looped, ~IsBoolean(t.exprs[1])), FALSE))

Analysis(what, env, x) ==
  CASE what = "expression" -> ExpressionAnalysis(env, x)
    [] what = "call" -> CallAnalysis(env, x)
    [] what = "statement" -> StatementAnalysis(env, x)

-----------------------------------------------------------------------------
(* A method that returns a value ends in a return. *)
AnalyzeMethod(program, id) ==
  LET m == program.methods[id]
      parameters == [name \in {d.name : d \in Range(m.entries)} |-> SelectInSeq(m.entries, LAMBDA d : d.name = name)]
      env == [entries |-> m.entries \o DeclarationsIn(m.body), scopes |-> <<parameters>>, params |-> m.params, seen |-> 0,
              fields |-> program.fields, methods |-> program.methods, method |-> id,
              loop |-> FALSE, ok |-> TRUE, done |-> <<>>]
      returned == m.new \/ m.returns.name = "Nil" \/ (m.body # <<>> /\ Last(m.body).k = "Return")
      Analyzed(after) == [ok |-> after.ok /\ returned, method |-> [m EXCEPT !.entries = after.entries, !.body = after.done]]
  IN  Analyzed(AnalyzeStatements(env, m.body))

(* The analysed program, and whether it is accepted. *)
Analyze(program) ==
  LET All(results) == [ok |-> \A id \in DOMAIN results : results[id].ok,
                       program |-> [program EXCEPT !.methods = [id \in DOMAIN results |-> results[id].method]]]
  IN  All([id \in DOMAIN program.methods |-> AnalyzeMethod(program, id)])
====
