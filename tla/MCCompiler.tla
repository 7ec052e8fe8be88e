----------------------------- MODULE MCCompiler -----------------------------
(***************************************************************************)
(* The programs the runs compile.  Run, the first method, leaves what is    *)
(* compared in the fields r, f and b; the other fields and the methods are  *)
(* there to be used.                                                        *)
(***************************************************************************)
EXTENDS Compiler

Fields == <<Decl("r", "Int", 0), Decl("f", "Float", 0), Decl("b", "Bool", 0), Decl("s", "Int", 0)>>
V(name) == Var(name, <<>>)
I(n) == Lit("Int", n)
F(n) == Lit("Float", n)
B(n) == Lit("Bool", n)
Set(name, e) == Assign(V(name), "", e)
M(name, params) == Call("", name, params)
NilType == [name |-> "Nil", dim |-> 0]
Run(body) == Method(1, "Run", <<>>, NilType, body)
Program(body, others) == [fields |-> Fields, methods |-> <<Run(body)>> \o others]
As(e, type) == [e EXCEPT !.cast = type]

(* An Int i, a Float x, a Bool t and two fields have values. *)
Prelude == <<Set("i", I(5)), Set("j", I(-3)), Set("x", F(6)), Set("t", B(1)), Set("s", I(7))>>

(* A written cast is lost, or a comparison is of the wrong kind, when the   *)
(* other operand asks for another conversion: casts meet their own type.    *)
PlainLeaves == {V("i"), V("x"), V("s"), I(3), F(10)}
IntLeaves == {V("i"), V("s"), I(3), As(V("x"), "Int")}
FloatLeaves == {V("x"), F(10), As(V("j"), "Float")}
Flat == {Calc(op, l, r) : op \in MathOps \cup CompareOps, l \in PlainLeaves, r \in PlainLeaves}
        \cup {Calc(op, l, r) : op \in MathOps \cup IntegerOps, l \in IntLeaves, r \in IntLeaves}
        \cup {Calc(op, l, r) : op \in MathOps, l \in FloatLeaves, r \in FloatLeaves}

(* Calculations of literals, which are folded. *)
Folded == {Calc(op, l, r) : op \in MathOps \cup IntegerOps, l \in {I(7), I(-2)}, r \in {I(3), I(2)}}
          \cup {Calc(op, l, r) : op \in MathOps, l \in {F(7), F(-2)}, r \in {F(3), F(-8)}}
          \cup {Calc(op, Calc("SUB", I(9), I(4)), Calc("MOD", V("i"), I(3))) : op \in MathOps}

Numeric == {Calc(op, l, r) : op \in {"SUB", "MUL"}, l \in {V("i"), V("x"), I(3)}, r \in {V("j"), F(10), V("s")}}
Deep == {Calc(op, l, r) : op \in {"ADD", "DIV", "LES"}, l \in Numeric, r \in {V("x"), V("j")}}
        \cup {Calc(op, l, r) : op \in {"ADD", "SUB"}, l \in {V("i"), F(10)}, r \in Numeric}
Tests == {Calc("LES", V("i"), V("s")), Calc("GTR", V("i"), V("s")), V("t"), Calc("EQL", V("t"), B(0))}
Logic == {Calc(op, l, r) : op \in LogicOps, l \in Tests, r \in Tests}
Logics == Logic \cup {Calc(op, l, r) : op \in LogicOps, l \in Logic, r \in {V("t"), Calc("NEQL", V("t"), B(1))}}

Case(family, what) == [family |-> family, what |-> what]

ExprCases ==
  {Case("expr", <<name, e>>) : name \in {"r", "f", "b"}, e \in Flat}
    \cup {Case("expr", <<name, e>>) : name \in {"r", "f"}, e \in Folded}
    \cup {Case("expr", <<name, e>>) : name \in {"r", "f"}, e \in Deep}
    \cup {Case("expr", <<"b", e>>) : e \in Logics}

-----------------------------------------------------------------------------
(* Selects over groups of labels, with and without a part for the others;  *)
(* .what is <<the value selected, the groups, other>>.                      *)
Groups == {<<<<4>>>>, <<<<1>>, <<4>>>>, <<<<3>>, <<1, 2>>>>, <<<<1>>, <<2>>, <<3>>, <<6>>>>, <<<<5, 2>>, <<1>>, <<3>>, <<-4>>>>, <<<<1>>, <<2>>, <<3>>, <<4>>, <<5>>, <<6>>, <<7>>>>}
SelectCases == {Case("select", <<v, g, other>>) : v \in -4 .. 8, g \in Groups, other \in BOOLEAN}
SelectBody(v, groups, other) ==
  LET pairs == FlattenSeq([i \in DOMAIN groups |-> [j \in DOMAIN groups[i] |-> <<groups[i][j], i>>]])
      blocks == [i \in DOMAIN groups |-> <<Set("r", Calc("ADD", V("r"), I(i)))>>]
  IN  <<Set("i", I(v)), Set("r", I(100)),
        Select(V("i"), pairs, other, IF other THEN Append(blocks, <<Set("r", I(0))>>) ELSE blocks)>>

Add(l, r) == Calc("ADD", l, r)
Less(l, r) == Calc("LES", l, r)
Increment(name, n) == Assign(V(name), "ADD", I(n))
Upto(name, e) == For(Set(name, I(0)), Less(V(name), e), Increment(name, 1), <<Increment("r", 1)>>)

(* A loop of the kind over i below n that leaves when i is k, with a loop   *)
(* inside; .what is <<kind, n, k, inside>>.  A break comes before a loop in  *)
(* the same body: after it the analysis takes the body for no loop.         *)
LoopCases == {Case("loop", <<kind, n, k, inside>>) :
                kind \in {"While", "For", "DoWhile"}, n \in {0, 1, 3}, k \in {0, 2, 9}, inside \in BOOLEAN}
LoopBody(kind, n, k, inside) ==
  LET test == Less(V("i"), I(n))
      leave == If(Calc("EQL", V("i"), I(k)), <<BreakStmt>>, <<>>, FALSE, <<>>)
      inner == IF inside THEN <<Upto("j", V("i"))>> ELSE <<>>
      body == <<leave, Increment("r", 10)>> \o inner
  IN  <<Set("i", I(0)), Set("r", I(0)),
        CASE kind = "While" -> While(test, Append(body, Increment("i", 1)))
          [] kind = "DoWhile" -> DoWhile(test, Append(body, Increment("i", 1)))
          [] kind = "For" -> For(Set("i", I(0)), test, Increment("i", 1), body)>>

(* An if of three tests with or without an else, and with an empty part. *)
IfCases == {Case("if", <<a, b, c, else, empty>>) : a \in 0 .. 1, b \in 0 .. 1, c \in 0 .. 1, else \in BOOLEAN, empty \in 0 .. 3}
IfBody(a, b, c, else, empty) ==
  LET part(n) == IF empty = n THEN <<>> ELSE <<Set("r", I(n))>>
      third == If(Calc("EQL", V("j"), I(c)), part(3), <<>>, else, <<Set("r", I(4))>>)
      second == If(Calc("NEQL", V("j"), I(b)), part(2), <<third>>, FALSE, <<>>)
  IN  <<Set("j", I(1)), Set("r", I(9)), If(Less(V("j"), I(a + 1)), part(1), <<second>>, FALSE, <<>>)>>

(* Arrays: loops write every element and add to it, one element is read. *)
ArrayCases ==
  {Case("array", <<type, <<3>>, <<i>>>>) : type \in {"Int", "Float", "Byte"}, i \in 0 .. 2}
    \cup {Case("array", <<type, <<3, 2>>, <<i, j>>>>) : type \in {"Int", "Float"}, i \in 0 .. 2, j \in 0 .. 1}
    \cup {Case("array", <<"Byte", <<2, 3, 2>>, <<i, j, k>>>>) : i \in 0 .. 1, j \in 0 .. 2, k \in 0 .. 1}
Counters == <<"i", "j", "k">>
Literals(seq) == [n \in DOMAIN seq |-> I(seq[n])]
ArrayBody(type, dims, index) ==
  LET here == Var("a", [n \in DOMAIN dims |-> V(Counters[n])])
      first == Var("a", [n \in DOMAIN dims |-> IF n = 1 THEN V("i") ELSE I(0)])
      around(body, n) == <<For(Set(Counters[n], I(0)), Less(V(Counters[n]), I(dims[n])), Increment(Counters[n], 1), body)>>
      fill == <<Increment("s", 40), Assign(here, "", V("s")), Assign(here, "ADD", first)>>
  IN  <<Set("s", I(-90)), Set("a", NewArrayCall(type, Literals(dims)))>>
        \o FoldRight(LAMBDA n, body : around(body, n), [n \in DOMAIN dims |-> n], fill)
        \o <<Set("r", Var("a", Literals(index))), Set("f", Var("a", Literals(index)))>>

-----------------------------------------------------------------------------
(* The methods there are to call. *)
Ret(e) == ReturnStmt(<<e>>)
Returns(type) == [name |-> type, dim |-> 0]
Whole(name) == Decl(name, "Int", 0)
Real(name) == Decl(name, "Float", 0)
Others == <<
  Method(2, "GetS", <<>>, Returns("Int"), <<Ret(V("s"))>>),
  Method(3, "SetS", <<Whole("v")>>, NilType, <<Set("s", V("v"))>>),
  Method(4, "Seven", <<>>, Returns("Int"), <<Ret(I(7))>>),
  Method(5, "Add", <<Whole("m"), Whole("n")>>, Returns("Int"), <<Ret(Calc("SUB", V("m"), V("n")))>>),
  Method(6, "Add", <<Real("m"), Real("n")>>, Returns("Float"), <<Ret(Calc("DIV", V("m"), V("n")))>>),
  Method(7, "New", <<Whole("v")>>, Returns("Obj"), <<Set("s", V("v"))>>),
  Method(8, "Fact", <<Whole("n")>>, Returns("Int"),
         <<If(Less(V("n"), I(2)), <<Ret(I(1))>>, <<>>, FALSE, <<>>),
           Ret(Calc("MUL", V("n"), Call("", "Fact", <<Calc("SUB", V("n"), I(1))>>)))>>),
  Method(9, "Twice", <<Whole("v")>>, Returns("Int"), <<Set("d", Calc("MUL", V("v"), I(2))), Ret(V("d"))>>),
  Method(10, "Bump", <<Whole("v")>>, Returns("Int"), <<Increment("s", 1), Ret(Add(V("s"), V("v")))>>),
  Method(11, "Count", <<Whole("n")>>, Returns("Int"),
         <<Set("c", I(0)), While(Less(V("c"), V("n")), <<Increment("c", 1)>>), Ret(V("c"))>>),
  Method(12, "Make", <<Whole("v")>>, Returns("Obj"), <<Set("o", New(<<Add(V("v"), I(1))>>)), Ret(V("o"))>>),
  Method(13, "Half", <<Real("v")>>, Returns("Float"), <<Ret(Calc("DIV", V("v"), F(8)))>>)>>

Then(call, next) == [call EXCEPT !.next = <<next>>]
CallBodies == <<
  <<Set("r", M("GetS", <<>>)), Set("f", M("GetS", <<>>))>>,
  <<M("SetS", <<I(9)>>), Set("r", M("GetS", <<>>))>>,
  <<Set("r", Calc("SUB", M("Seven", <<>>), V("j"))), Set("f", M("Seven", <<>>))>>,
  <<Set("r", M("Add", <<V("i"), I(3)>>)), Set("f", M("Add", <<V("x"), F(2)>>))>>,
  <<Set("r", M("Add", <<V("x"), F(2)>>)), Set("f", M("Add", <<V("i"), V("j")>>))>>,
  <<Set("r", M("Fact", <<I(4)>>)), Set("f", M("Fact", <<V("x")>>))>>,
  <<Set("r", Add(M("Twice", <<V("i")>>), M("Count", <<I(2)>>))), Set("b", Less(M("Half", <<V("x")>>), F(3)))>>,
  <<Set("r", Add(V("i"), M("Twice", <<M("Twice", <<V("i")>>)>>))), Set("f", M("Half", <<V("i")>>))>>,
  <<M("Bump", <<V("i")>>), M("Half", <<V("x")>>), M("Seven", <<>>), Set("r", V("s"))>>,
  <<Set("o", New(<<I(4)>>)), Set("r", Call("o", "GetS", <<>>)), Call("o", "SetS", <<V("r")>>), Set("f", Call("o", "Bump", <<I(2)>>))>>,
  <<Set("r", Then(M("Make", <<I(3)>>), M("GetS", <<>>)))>>,
  <<Set("r", Then(New(<<V("i")>>), M("Twice", <<I(6)>>))), Then(M("Make", <<I(3)>>), M("GetS", <<>>))>>,
  <<Set("r", Then(Then(M("Make", <<I(3)>>), M("Make", <<I(5)>>)), M("Add", <<V("s"), V("i")>>)))>>,
  <<Set("b", Calc("AND", Less(M("Bump", <<I(0)>>), V("i")), Less(M("Bump", <<I(0)>>), V("i")))), Set("r", V("s"))>>,
  <<Set("b", Calc("OR", Less(M("Bump", <<I(0)>>), V("i")), Less(V("i"), M("Bump", <<I(0)>>)))), Set("r", V("s"))>>,
  <<Set("r", Cond(V("t"), M("Bump", <<I(1)>>), M("Bump", <<I(2)>>))), Set("f", V("s"))>>,
  <<Set("r", I(0)), For(Set("k", I(0)), Less(V("k"), I(3)), Increment("k", 1), <<Assign(V("r"), "ADD", M("Count", <<V("k")>>))>>)>>>>
CallBody(n) == Prelude \o [i \in DOMAIN CallBodies[n] |-> IF CallBodies[n][i].k = "Call" THEN CallStmt(CallBodies[n][i]) ELSE CallBodies[n][i]]

-----------------------------------------------------------------------------
(* Names in blocks: introduced again, declared over what an assignment      *)
(* introduced outside, used after their block, declared twice.             *)
Declares(name, type, e) == Declare(Decl(name, type, 0), <<Set(name, e)>>)
When(test, then, else) == If(test, then, <<>>, else # <<>>, else)
Count(name) == For(Declares(name, "Int", I(0)), Less(V(name), I(3)), Increment(name, 1), <<Increment("r", 1)>>)
ScopeBodies == <<
  <<When(V("t"), <<Set("k", I(1)), Set("r", V("k"))>>, <<Set("k", F(8))>>), Set("k", F(20)), Set("f", V("k"))>>,
  <<Set("k", I(3)), When(V("t"), <<Declares("k", "Float", F(9)), Set("f", V("k"))>>, <<>>), Set("r", V("k"))>>,
  <<Declares("k", "Int", I(3)), When(V("t"), <<Set("k", F(20))>>, <<>>), Set("r", V("k"))>>,
  <<When(V("t"), <<Set("k", I(1))>>, <<>>), Set("r", V("k"))>>,
  <<Declares("k", "Int", I(1)), When(V("t"), <<Declares("k", "Int", I(2))>>, <<>>)>>,
  <<When(V("t"), <<Declares("k", "Int", I(2))>>, <<>>), Declares("k", "Float", F(1)), Set("f", V("k"))>>,
  <<Set("r", I(0)), Count("k"), Count("k"), Declares("k", "Float", F(7)), Set("f", V("k"))>>,
  <<Set("r", I(0)), DoWhile(Less(V("k"), I(4)), <<Declares("k", "Int", V("r")), Increment("r", 3)>>), Set("k", B(1)), Set("b", V("k"))>>,
  <<Set("r", I(0)), While(Less(V("r"), I(9)), <<Declares("k", "Int", V("r")), When(Less(V("k"), I(4)), <<Declares("m", "Int", I(4))>>, <<Declares("m", "Float", F(30))>>),
                                               Declares("m", "Float", F(2)), Set("f", V("m")), Increment("r", 4)>>)>>,
  <<Select(V("i"), <<<<4, 1>>, <<5, 2>>, <<6, 2>>>>, TRUE,
           <<<<Set("k", I(4))>>, <<Set("k", F(11)), Set("f", V("k"))>>, <<Declares("k", "Bool", B(1)), Set("b", V("k"))>>>>),
    Set("k", I(8)), Set("r", V("k"))>>,
  <<Declare(Decl("k", "Int", 0), <<>>), Declare(Decl("o", "Obj", 0), <<>>), Set("r", V("k")), Set("b", Calc("EQL", V("o"), Lit("Nil", 0)))>>>>
ScopeCases == {Case("scope", <<n>>) : n \in DOMAIN ScopeBodies}

-----------------------------------------------------------------------------
(* Operators, targets and parameters of every type: .what is <<target,      *)
(* expression>>.  A comparison of two Nils or with Nil on the left of an    *)
(* array has no need to be accepted.                                        *)
TypeLeaves == {V("i"), V("x"), V("t"), V("o"), V("a"), I(3), B(0), Lit("Nil", 0)}
TypePrelude == <<Set("i", I(5)), Set("x", F(6)), Set("t", B(1)), Declare(Decl("o", "Obj", 0), <<Set("o", New(<<>>))>>),
                 Set("a", NewArrayCall("Int", <<I(2)>>))>>
TypeMethods == <<Method(2, "New", <<>>, Returns("Obj"), <<>>),
                 Method(3, "Half", <<Real("v")>>, Returns("Float"), <<Ret(Calc("DIV", V("v"), F(8)))>>),
                 Method(4, "IsIt", <<Decl("v", "Bool", 0)>>, Returns("Bool"), <<Ret(V("v"))>>),
                 Method(5, "Sum", <<Whole("m"), Real("n")>>, Returns("Int"), <<Ret(Calc("ADD", V("m"), V("n")))>>),
                 Method(6, "Sum", <<Decl("m", "Obj", 0), Decl("n", "Int", 1)>>, NilType, <<>>)>>
TypeCases == {Case("type", <<name, e>>) : name \in {"r", "f", "b", "o"},
                e \in {x \in {Calc(op, l, r) : op \in {"ADD", "LES", "EQL", "AND", "MOD"}, l \in TypeLeaves, r \in TypeLeaves} :
                        x.args[1] # Lit("Nil", 0)} \ {Calc("MOD", V("x"), V("x"))}}
             \cup {Case("type", <<name, e>>) : name \in {"r", "b", "a", "o"},
                      e \in TypeLeaves \cup {M(name, <<l>>) : name \in {"Half", "IsIt", "Sum", "None"}, l \in TypeLeaves}
                              \cup {Call(on, "IsIt", <<l>>) : on \in {"i", "a", "o"}, l \in TypeLeaves}
                              \cup {M("Sum", <<l, r>>) : l \in TypeLeaves, r \in TypeLeaves}}

ProgramOfCase(c) ==
  LET w == c.what
  IN  CASE c.family = "expr" -> Program(Append(Prelude, Set(w[1], w[2])), <<>>)
        [] c.family = "select" -> Program(SelectBody(w[1], w[2], w[3]), <<>>)
        [] c.family = "loop" -> Program(LoopBody(w[1], w[2], w[3], w[4]), <<>>)
        [] c.family = "if" -> Program(IfBody(w[1], w[2], w[3], w[4], w[5]), <<>>)
        [] c.family = "array" -> Program(ArrayBody(w[1], w[2], w[3]), <<>>)
        [] c.family = "scope" -> Program(Prelude \o ScopeBodies[w[1]], <<>>)
        [] c.family = "type" -> Program(Append(TypePrelude, Set(w[1], w[2])), TypeMethods)
        [] c.family = "call" -> Program(CallBody(w[1]), Others)

StmtCases == SelectCases \cup LoopCases \cup IfCases \cup ArrayCases \cup {Case("call", <<n>>) : n \in DOMAIN CallBodies}

CompileCases == ExprCases \cup StmtCases \cup ScopeCases \cup TypeCases

SomeLevels == {0, 1, 3}
====
