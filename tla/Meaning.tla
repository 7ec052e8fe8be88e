------------------------------ MODULE Meaning ------------------------------
(***************************************************************************)
(* What a program means: an evaluation of its tree as written, before any  *)
(* analysis, with typed values, variables by name and array elements by    *)
(* their indices.  It is the reference the compiled program is compared    *)
(* with, and has nothing of the code's stack, labels, scopes or memory.    *)
(*                                                                         *)
(* A value is [t, n], its type and its number or its place in the heap.  A *)
(* world w has the heap, the variables and the instance of the method,     *)
(* the names of the innermost block, what the last statement asks for      *)
(* ("next", "break", or "return" with w.result), and whether anything was  *)
(* used for what it is not: such a program has no meaning.                 *)
(***************************************************************************)
EXTENDS Trees, Words

Val(t, n) == [t |-> t, n |-> n]
Void == Val("None", 0)
NilValue == Val("Nil", 0)
Numbers == IntTypes \cup {"Float"}
Kind(decl) == IF decl.dim > 0 THEN "Array" ELSE decl.type
Default(kind) == IF kind \in {"Obj", "Array"} THEN NilValue ELSE Val(kind, 0)

Fits(v, kind) ==
  \/ v.t = kind /\ kind # "None"
  \/ {v.t, kind} \subseteq Numbers
  \/ v = NilValue /\ kind \in {"Obj", "Array"}

Converted(v, kind) ==
  IF v.t \in IntTypes /\ kind = "Float" THEN Val(kind, IntToFloat(v.n))
  ELSE IF v.t = "Float" /\ kind \in IntTypes THEN Val(kind, FloatToInt(v.n))
  ELSE IF v.t \in IntTypes /\ kind \in IntTypes THEN Val(kind, v.n)
  ELSE v

Wrong(w, wrong) == [w EXCEPT !.wrong = @ \/ wrong]

(* Numbers calculate and compare, Bools combine, anything of one kind is    *)
(* equal or not; only integers are shifted or taken apart.                 *)
Operable(op, a, b) ==
  LET numbers == {a.t, b.t} \subseteq Numbers
  IN  CASE op \in LogicOps -> a.t = "Bool" /\ b.t = "Bool"
        [] op \in {"EQL", "NEQL"} -> numbers \/ (a.t = b.t /\ a.t \in {"Bool", "Obj"})
                                  \/ (NilValue \in {a, b} /\ {a.t, b.t} \subseteq {"Obj", "Array", "Nil"})
        [] op \in IntegerOps -> {a.t, b.t} \subseteq IntTypes
        [] OTHER -> numbers

Operate(op, a, b) ==
  LET float == "Float" \in {a.t, b.t}
      n(v) == IF float THEN Converted(v, "Float").n ELSE v.n
  IN  IF op \in CompareOps THEN Val("Bool", Compare(op, n(a), n(b)))
      ELSE IF float THEN Val("Float", FloatCalc(op, n(a), n(b)))
      ELSE Val("Int", IntCalc(op, n(a), n(b), WordBits))

-----------------------------------------------------------------------------
NewInstance(p) ==
  [name \in {d.name : d \in Range(p.fields)} |->
     Default(Kind(p.fields[SelectInSeq(p.fields, LAMBDA d : d.name = name)]))]
FieldKind(p, name) == Kind(p.fields[SelectInSeq(p.fields, LAMBDA d : d.name = name)])
World(p) == [heap |-> <<NewInstance(p)>>, vars |-> <<>>, own |-> {}, self |-> 1,
             signal |-> "next", result |-> Void, wrong |-> FALSE]

(* A variable is [kind, v, declared]; it is not declared when an assignment *)
(* introduced it.                                                           *)
Variable(kind, v, declared) == [kind |-> kind, v |-> v, declared |-> declared]
Introduce(w, name, variable) == [w EXCEPT !.vars = (name :> variable) @@ @, !.own = @ \cup {name}]
Declaration(w, decl) ==
  LET again == decl.name \in DOMAIN w.vars /\ w.vars[decl.name].declared
  IN  Introduce(Wrong(w, again), decl.name, Variable(Kind(decl), Default(Kind(decl)), TRUE))

Result(w, v) == [w |-> w, v |-> v]
Read(p, w, name) ==
  IF name \in DOMAIN w.vars THEN Result(w, w.vars[name].v)
  ELSE IF name \in DOMAIN w.heap[w.self] THEN Result(w, w.heap[w.self][name])
  ELSE Result(Wrong(w, TRUE), Void)

Write(p, w, name, v) ==
  LET local == w.vars[name].kind
      field == FieldKind(p, name)
  IN  IF name \in DOMAIN w.vars THEN [Wrong(w, ~Fits(v, local)) EXCEPT !.vars[name].v = Converted(v, local)]
      ELSE IF name \in DOMAIN w.heap[w.self]
      THEN [Wrong(w, ~Fits(v, field)) EXCEPT !.heap[w.self][name] = Converted(v, field)]
      ELSE Introduce(Wrong(w, v \in {Void, NilValue}), name, Variable(v.t, v, FALSE))

(* An array is [type, dims, slots], the slots those that were written. *)
Indexed(w, array, vs) == array.t = "Array" /\ Len(vs) = Len(w.heap[array.n].dims) /\ \A i \in DOMAIN vs : vs[i].t \in IntTypes
NumbersOf(vs) == [i \in DOMAIN vs |-> vs[i].n]
ElementRead(w, array, vs) ==
  IF ~Indexed(w, array, vs) THEN Result(Wrong(w, TRUE), Void)
  ELSE LET a == w.heap[array.n]
       IN  Result(w, IF NumbersOf(vs) \in DOMAIN a.slots THEN a.slots[NumbersOf(vs)] ELSE Default(a.type))
ElementWritten(w, array, vs, v) ==
  LET type == w.heap[array.n].type
      bits == IF type = "Byte" THEN LiteralBits - 2 ELSE WordBits
      element == [Converted(v, type) EXCEPT !.n = IF type = "Float" THEN @ ELSE Wrap(@, bits)]
  IN  IF ~Indexed(w, array, vs) \/ ~Fits(v, type) THEN Wrong(w, TRUE)
      ELSE [w EXCEPT !.heap[array.n].slots = (NumbersOf(vs) :> element) @@ @]

(* The methods of a name the values fit, those that need the fewest        *)
(* conversions.                                                             *)
Callees(p, name, vs) ==
  LET fits == {i \in DOMAIN p.methods : /\ p.methods[i].name = name /\ p.methods[i].params = Len(vs)
                                        /\ \A j \in DOMAIN vs : Fits(vs[j], Kind(p.methods[i].entries[j]))}
      exact(i) == Cardinality({j \in DOMAIN vs : Kind(p.methods[i].entries[j]) = vs[j].t})
  IN  {i \in fits : \A j \in fits : exact(i) >= exact(j)}

-----------------------------------------------------------------------------
(* Values and statements are evaluated by each other. *)
RECURSIVE Evaluation(_, _, _, _)
Value(p, w, e) == Evaluation("value", p, w, e)
Execute(p, w, s) == Evaluation("execute", p, w, s)
Loop(p, w, s) == Evaluation("loop", p, w, s)
DoLoop(p, w, s) == Evaluation("do", p, w, s)
Calls(p, w, e, receiver) == Evaluation("calls", p, w, <<e, receiver>>)

Values(p, w, exprs) ==
  FoldLeft(LAMBDA acc, e : LET r == Value(p, acc.w, e) IN [w |-> r.w, vs |-> Append(acc.vs, r.v)],
           [w |-> w, vs |-> <<>>], exprs)

Each(p, w, stmts) == FoldLeft(LAMBDA u, s : IF u.signal = "next" /\ ~u.wrong THEN Execute(p, u, s) ELSE u, w, stmts)

(* What a block introduces ends with it. *)
Leave(w, inside) ==
  [inside EXCEPT !.own = w.own,
                 !.vars = [name \in DOMAIN w.vars |-> IF name \in inside.own THEN w.vars[name] ELSE inside.vars[name]]]
Block(p, w, stmts) == Leave(w, Each(p, [w EXCEPT !.own = {}], stmts))

(* A call on an object, with variables of its own. *)
Enter(w, self, method, vs) ==
  LET kind(i) == Kind(method.entries[i])
      names == {method.entries[i].name : i \in DOMAIN vs}
      parameter(i) == Variable(kind(i), Converted(vs[i], kind(i)), TRUE)
  IN  [w EXCEPT !.vars = [n \in names |-> parameter(SelectInSeq(method.entries, LAMBDA d : d.name = n))],
                !.own = names, !.self = self, !.signal = "next", !.result = Void]

(* What is left of a call: its objects, its value and whether all was well. *)
Returned(w, self, method, run) ==
  LET kind == Kind([type |-> method.returns.name, dim |-> method.returns.dim])
      fits == method.new \/ method.returns.name = "Nil" \/ Fits(run.result, kind)
  IN  Result([w EXCEPT !.heap = run.heap, !.wrong = run.wrong \/ ~fits],
             IF method.new THEN Val("Obj", self) ELSE Converted(run.result, kind))

Invoke(p, w, self, name, vs) ==
  LET Run(method) == Returned(w, self, method, Each(p, Enter(w, self, method, vs), method.body))
      callees == Callees(p, name, vs)
  IN  IF w.wrong \/ Cardinality(callees) # 1 THEN Result(Wrong(w, TRUE), Void)
      ELSE Run(p.methods[CHOOSE i \in callees : TRUE])

NewArrayOf(type, w, vs) ==
  Result([Wrong(w, \E v \in Range(vs) : v.t \notin IntTypes) EXCEPT
            !.heap = Append(@, [type |-> type, dims |-> NumbersOf(vs), slots |-> <<>>])],
         Val("Array", Len(w.heap) + 1))

Called(p, w, e, receiver) ==
  LET On(v, self, vs) == Invoke(p, v, self, e.name, vs)
      With(params) == CASE e.op = "new" -> On([params.w EXCEPT !.heap = Append(@, NewInstance(p))], Len(params.w.heap) + 1, params.vs)
                        [] e.op = "array" -> NewArrayOf(e.name, params.w, params.vs)
                        [] e.op = "method" -> On(Wrong(params.w, receiver.t # "Obj"), receiver.n, params.vs)
  IN  With(Values(p, w, e.args))

CastAs(r, type) ==
  IF type = None THEN r ELSE Result(Wrong(r.w, ~Fits(r.v, type)), Converted(r.v, type))
CallsOf(p, w, e, receiver) ==
  LET Rest(r) == IF e.next = <<>> \/ r.w.wrong THEN r ELSE Calls(p, r.w, e.next[1], r.v)
  IN  Rest(CastAs(Called(p, w, e, receiver), e.cast))

(* AND and OR need their second operand only when the first does not        *)
(* decide; in the tree the first one is on the right.                       *)
ValueOf(p, w, e) ==
  LET first == Value(p, w, e.args[IF e.op \in LogicOps THEN 2 ELSE 1])
      second == Value(p, first.w, e.args[IF e.op \in LogicOps THEN 1 ELSE 2])
      third == Value(p, first.w, e.args[3])
      wrongly == ~Operable(e.op, first.v, second.v)
      read == Read(p, w, e.name)
      indices == Values(p, read.w, e.args)
      on == Read(p, w, e.on)
  IN  CASE e.k = "Lit" -> CastAs(Result(w, Val(e.base, e.v)), e.cast)
        [] e.k = "Var" -> CastAs(IF e.args = <<>> THEN read ELSE ElementRead(indices.w, read.v, indices.vs), e.cast)
        [] e.k = "Cond" ->
             LET chosen == IF first.v.n = 1 THEN second ELSE third
             IN  Result(Wrong(chosen.w, first.v.t # "Bool" \/ second.v.t # third.v.t \/ second.v.t = "Nil"), chosen.v)
        [] e.k = "Call" -> IF e.on = "" THEN Calls(p, w, e, Val("Obj", w.self)) ELSE Calls(p, on.w, e, on.v)
        [] e.k = "Calc" ->
             IF e.op \notin LogicOps
             THEN CastAs(Result(Wrong(second.w, wrongly), IF second.w.wrong \/ wrongly THEN Void ELSE Operate(e.op, first.v, second.v)), e.cast)
             ELSE LET decided == first.v.n = (IF e.op = "AND" THEN 0 ELSE 1)
                  IN  Result(Wrong(IF decided THEN first.w ELSE second.w, wrongly), IF decided THEN first.v ELSE second.v)

-----------------------------------------------------------------------------
(* A test and, while it holds, the body and the update. *)
LoopOf(p, w, s) ==
  LET test == Value(p, w, s.exprs[1])
      body == Block(p, test.w, s.blocks[1])
      update == Each(p, body, s.blocks[3])
  IN  IF test.v.n = 0 \/ test.v.t # "Bool" \/ test.w.wrong THEN Wrong(test.w, test.v.t # "Bool")
      ELSE IF body.signal = "next" /\ ~body.wrong THEN Loop(p, update, s)
      ELSE [body EXCEPT !.signal = IF @ = "break" THEN "next" ELSE @]

(* A body and its test, which sees what the body introduced. *)
DoLoopOf(p, w, s) ==
  LET body == Each(p, [w EXCEPT !.own = {}], s.blocks[1])
      test == Value(p, body, s.exprs[1])
      after == Leave(w, test.w)
  IN  IF body.signal # "next" \/ body.wrong
      THEN [Leave(w, body) EXCEPT !.signal = IF @ = "break" THEN "next" ELSE @]
      ELSE IF test.v.n = 0 \/ test.v.t # "Bool" \/ after.wrong THEN Wrong(after, test.v.t # "Bool")
      ELSE DoLoop(p, after, s)

AssignTo(p, w, s) ==
  LET target == s.exprs[2]
      value == Value(p, w, s.exprs[1])
      old == Value(p, value.w, target)
      wrongly == ~Operable(s.op, old.v, value.v)
      v == IF s.op = "" THEN value.v ELSE IF wrongly THEN Void ELSE Operate(s.op, old.v, value.v)
      indices == Values(p, value.w, target.args)
      array == Read(p, indices.w, target.name)
  IN  IF target.args = <<>> THEN Write(p, value.w, target.name, v)
      ELSE ElementWritten(array.w, array.v, indices.vs, v)

ExecuteOf(p, w, s) ==
  LET test == Value(p, w, s.exprs[1])
      chosen == SelectInSeq(s.values, LAMBDA pair : pair[1] = test.v.n)
  IN  CASE s.k = "Assign" -> AssignTo(p, w, s)
        [] s.k = "Decl" -> Each(p, Declaration(w, s.values[1]), s.blocks[1])
        [] s.k = "Empty" -> w
        [] s.k \in {"Call", "Simple"} -> test.w
        [] s.k = "Break" -> [w EXCEPT !.signal = "break"]
        [] s.k = "Return" -> IF s.exprs = <<>> THEN [w EXCEPT !.signal = "return"]
                             ELSE [test.w EXCEPT !.signal = "return", !.result = test.v]
        [] s.k = "If" -> IF test.v.t # "Bool" THEN Wrong(test.w, TRUE)
                         ELSE IF test.v.n = 1 THEN Block(p, test.w, s.blocks[1])
                         ELSE IF s.blocks[2] # <<>> THEN Block(p, test.w, s.blocks[2]) ELSE Block(p, test.w, s.blocks[3])
        [] s.k = "Select" -> IF test.v.t \notin IntTypes THEN Wrong(test.w, TRUE)
                             ELSE IF chosen # 0 THEN Block(p, test.w, s.blocks[s.values[chosen][2]])
                             ELSE IF s.op = "other" THEN Block(p, test.w, Last(s.blocks)) ELSE test.w
        [] s.k = "While" -> Loop(p, w, s)
        [] s.k = "For" -> Leave(w, Loop(p, Each(p, [w EXCEPT !.own = {}], s.blocks[2]), s))
        [] s.k = "DoWhile" -> DoLoop(p, w, s)

Evaluation(what, p, w, x) ==
  CASE what = "value" -> ValueOf(p, w, x)
    [] what = "execute" -> ExecuteOf(p, w, x)
    [] what = "loop" -> LoopOf(p, w, x)
    [] what = "do" -> DoLoopOf(p, w, x)
    [] what = "calls" -> CallsOf(p, w, x[1], x[2])

(* The fields of the instance the first method was called on, at the end,  *)
(* and whether all was well.                                                *)
Meaning(p) ==
  LET At(w) == [fields |-> w.heap[1], wrong |-> w.wrong]
  IN  At(Invoke(p, World(p), 1, p.methods[1].name, <<>>).w)
====
