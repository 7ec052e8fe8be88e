------------------------------ MODULE MCNative ------------------------------
(***************************************************************************)
(* The programs that are run natively, and which of their methods are.     *)
(* Left out of the run that passes, as the code would not agree: a right   *)
(* shift of a negative number, a byte above 127, a calculation of literals *)
(* beyond 32 bits, a Nil array, two logical values or two inlined methods  *)
(* in one expression, a comparison of Floats used as a value while four     *)
(* registers are in use, a declaration no code uses after one of an object, *)
(* and a collection where a method has been inlined (level 3).              *)
(***************************************************************************)
EXTENDS Native, MCCompiler

(* e op (s * 1) op (s * 2) ... grouped to the left: the products, computed  *)
(* first, all wait in registers.                                            *)
Chained(e, ops, product(_)) ==
  FoldLeftDomain(LAMBDA l, n : Calc(ops[n], l, product(n)), e, ops)
Repeated(op, n) == [k \in 1 .. n |-> op]
Alternating(op, other, n) == [k \in 1 .. n |-> IF k % 2 = 0 THEN op ELSE other]
IntProduct(n) == Calc("MUL", V("s"), I(n))
FloatProduct(n) == Calc("MUL", V("x"), F(2 + n))

IntOperands == {V("i"), I(6), Calc("ADD", V("i"), V("s"))}
FloatOperands == {V("x"), F(10), Calc("MUL", V("x"), V("f"))}
NativeExprs ==
  {<<"r", Calc(op, l, r)>> : op \in MathOps \cup IntegerOps, l \in IntOperands, r \in IntOperands}
    \cup {<<"b", Calc(op, l, r)>> : op \in CompareOps, l \in IntOperands, r \in IntOperands}
    \cup {<<"f", Calc(op, l, r)>> : op \in MathOps, l \in FloatOperands, r \in FloatOperands}
    \cup {<<"b", Calc(op, l, r)>> : op \in CompareOps, l \in FloatOperands, r \in FloatOperands}
    \cup {<<"r", Chained(V("i"), Repeated("SUB", n), IntProduct)>> : n \in 1 .. 9}
    \cup {<<"r", Chained(Calc("MUL", V("s"), I(30)), Alternating("DIV", "MOD", n), IntProduct)>> : n \in 1 .. 6}
    \cup {<<"r", Calc(op, I(200), Chained(V("i"), Repeated("SUB", n), IntProduct))>> : op \in {"DIV", "MOD"}, n \in 1 .. 4}
    \cup {<<"f", Chained(V("x"), Repeated("SUB", n), FloatProduct)>> : n \in 1 .. 6}

    \cup {<<"r", Calc("SUB", Cond(Calc(op, V("i"), V("s")), a, IntProduct(3)), IntProduct(2))>> : op \in CompareOps, a \in {V("i"), IntProduct(4)}}
    \cup {<<"r", Calc("SUB", Cond(t, IntProduct(3), Calc("DIV", IntProduct(4), V("i"))), IntProduct(2))>> : t \in Tests}

(* The same with a call in the middle: what waits is kept in the frame. *)
NativeCallExprs ==
  {<<"r", Chained(M("Twice", <<V("i")>>), Repeated("SUB", n), IntProduct)>> : n \in 1 .. 8}
    \cup {<<"f", Chained(M("Half", <<V("x")>>), Repeated("SUB", n), FloatProduct)>> : n \in 1 .. 5}
    \cup {<<"f", Chained(M("Half", <<V("i")>>), Repeated("SUB", n), IntProduct)>> : n \in 1 .. 3}
    \cup {<<"r", Chained(M("Twice", <<V("x")>>), Repeated("SUB", n), FloatProduct)>> : n \in 1 .. 3}
    \cup {<<"r", Calc("SUB", Cond(t, M("Twice", <<V("i")>>), IntProduct(3)), IntProduct(2))>> : t \in Tests}
    \cup {<<"r", M("Pick", <<V("t"), IntProduct(2), I(4), IntProduct(3), l>>)>> : l \in Logic}

(* Conditions of each kind, alone and combined, decide an if in a loop. *)
FloatTests == {Calc(op, V("x"), V("f")) : op \in CompareOps} \cup {Calc(op, V("x"), F(6)) : op \in CompareOps}
NativeConditions == {Calc(op, V("i"), r) : op \in CompareOps, r \in {V("s"), I(5)}} \cup FloatTests \cup Logic

Cell(indices) == Var("a", indices)
Back(name, n) == Calc("SUB", V(name), I(n))
ArrayFill(type, dims) == SubSeq(ArrayBody(type, dims, dims), 1, Len(ArrayBody(type, dims, dims)) - 2)
NativeArrays == {
  <<"Int", <<3>>, Calc("SUB", Calc("ADD", Cell(<<Back("i", 1)>>), Cell(<<I(0)>>)), Cell(<<Back("i", 2)>>))>>,
  <<"Float", <<3>>, Calc("SUB", Calc("ADD", Cell(<<Back("i", 1)>>), V("i")), Cell(<<Back("i", 2)>>))>>,
  <<"Byte", <<3>>, Calc("SUB", Calc("ADD", Cell(<<Back("i", 1)>>), Cell(<<I(0)>>)), Cell(<<Back("i", 2)>>))>>,
  <<"Int", <<3>>, Cell(<<V("i")>>)>>, <<"Int", <<3>>, Cell(<<Back("i", 4)>>)>>, <<"Byte", <<2>>, Cell(<<Calc("ADD", V("i"), I(1))>>)>>,
  <<"Int", <<2, 3>>, Cell(<<I(1), Back("j", 1)>>)>>, <<"Float", <<2, 3>>, Cell(<<Back("i", 1), Back("j", 2)>>)>>,
  <<"Int", <<2, 3>>, Calc("SUB", Calc("SUB", Cell(<<Back("i", 1), Back("j", 1)>>), Cell(<<I(0), Back("j", 2)>>)), Cell(<<I(1), Back("j", 3)>>))>>}

NativePrelude == Prelude \o <<Set("f", F(9))>>
NativeOthers == Append(Others, Method(14, "Pick", <<Decl("t", "Bool", 0), Whole("k"), Whole("m"), Whole("n"), Decl("u", "Bool", 0)>>, Returns("Int"),
  <<When(Calc("EQL", V("t"), V("u")), <<Ret(Calc("SUB", V("k"), V("n")))>>, <<>>), Ret(Calc("MUL", V("m"), V("n")))>>))
ReallyLess(op) == Calc(op, V("x"), V("f"))
NativeCalls == [n \in 1 .. 12 |-> CASE n < 7 -> <<Set("r", M("Pick", <<ReallyLess(SetToSeq(CompareOps)[n]), IntProduct(2), IntProduct(3), V("i"), V("t")>>))>>
                                 [] OTHER -> <<Set("r", M("Pick", <<V("t"), V("i"), IntProduct(2), IntProduct(3), ReallyLess(SetToSeq(CompareOps)[n - 6])>>))>>]
Unset == Declare(Decl("o", "Obj", 0), <<Set("o", Lit("Nil", 0))>>)
(* What is allocated later finds what was before: in variables of each kind  *)
(* between others, in registers, as the instance, on the operand stack, in a *)
(* field.  A method with three parameters merges what two objects have.      *)
Obj(name, e) == Declare(Decl(name, "Obj", 0), <<Set(name, e)>>)
GetS(name) == Call(name, "GetS", <<>>)
Garbage == Obj("u", New(<<I(90)>>))
IntsOf(name, n, v) == <<Set(name, NewArrayCall("Int", <<I(n)>>)), Assign(Var(name, <<I(n - 1)>>), "", v)>>
RootBodies == <<
  <<Obj("o", New(<<I(4)>>)), Declares("k", "Int", I(2)), Obj("p", New(<<I(8)>>)), Garbage, Set("r", Calc("SUB", GetS("p"), GetS("o"))), Set("f", V("k"))>>,
  <<Declares("k", "Int", I(2)), Obj("o", New(<<I(4)>>)), Declares("y", "Float", F(9)), Obj("p", New(<<I(8)>>)), Garbage, Set("f", V("y")), Set("r", Calc("SUB", GetS("o"), V("k")))>>,
  <<Obj("o", New(<<I(4)>>)), Declares("k", "Int", I(1))>> \o IntsOf("c", 3, I(7)) \o <<Declares("m", "Int", V("k"))>> \o IntsOf("e", 2, V("m"))
    \o <<Set("r", Add(GetS("o"), Calc("SUB", Var("c", <<I(2)>>), Var("e", <<V("k")>>))))>>,
  <<Set("r", M("Merge", <<New(<<I(9)>>), New(<<I(4)>>), V("i")>>))>>,
  <<Set("r", Calc("SUB", M("Merge", <<New(<<V("i")>>), Then(New(<<I(1)>>), M("Make", <<I(2)>>)), I(1)>>), IntProduct(2)))>>,
  <<Obj("o", M("Make", <<I(3)>>)), Obj("p", Call("o", "Make", <<I(4)>>)), Set("k", Cond(V("t"), GetS("o"), GetS("p"))), Garbage,
    Set("r", Calc("SUB", V("k"), GetS("o"))), Set("b", Calc("AND", V("t"), Calc("EQL", V("o"), V("p"))))>>,
  <<CallStmt(M("Keep", <<I(6)>>)), Garbage, Set("r", Call("next", "GetS", <<>>))>>,
  <<Declare(Decl("k", "Int", 0), <<>>), Obj("o", New(<<I(4)>>)), Garbage, Set("r", GetS("o"))>>,
  <<Declare(Decl("k", "Int", 0), <<>>), Obj("o", New(<<I(4)>>)), Garbage, Set("r", Add(GetS("o"), V("k")))>>,
  <<Declares("k", "Int", I(2)), Declares("m", "Int", I(2)), Declares("n", "Int", I(3)), Obj("o", New(<<I(4)>>)), Set("k", M("Twice", <<V("i")>>)), Garbage, Set("r", Calc("SUB", GetS("o"), V("k")))>>>>
RootMethods == <<
  Method(15, "Merge", <<Decl("m", "Obj", 0), Decl("n", "Obj", 0), Whole("k")>>, Returns("Int"),
         <<Garbage, Ret(Calc("SUB", Call("m", "GetS", <<>>), Calc("MUL", Call("n", "GetS", <<>>), V("k"))))>>),
  Method(16, "Keep", <<Whole("k")>>, NilType, <<Set("next", New(<<V("k")>>)), Garbage>>)>>
Rooted(body) == [fields |-> Append(Fields, Decl("next", "Obj", 0)), methods |-> <<Run(NativePrelude \o body)>> \o NativeOthers \o RootMethods]

Errors == <<
  <<Unset, Set("r", Call("o", "GetS", <<>>))>>,
  <<Unset, Call("o", "SetS", <<V("i")>>)>>,
  <<Set("j", I(0)), Set("r", Calc("DIV", V("i"), V("j")))>>>>

NativeCase(family, what) == [family |-> "native", what |-> <<family, what>>]
Statements(body) == [n \in DOMAIN body |-> IF body[n].k = "Call" THEN CallStmt(body[n]) ELSE body[n]]
NativeBody(family, w) ==
  CASE family \in {"expr", "mix"} -> <<Set(w[1], w[2])>>
    [] family = "test" -> <<When(w, <<Set("r", I(1))>>, <<Set("r", I(2))>>), Set("b", w),
                            Set("j", I(0)), While(Less(V("j"), I(3)), <<Increment("j", 1), When(w, <<Increment("r", 5)>>, <<>>)>>)>>
    [] family = "array" -> <<Set("s", I(0))>> \o ArrayFill(w[1], w[2]) \o <<Set("r", w[3])>>
    [] family = "call" -> Statements(CallBodies[w])
    [] family = "pick" -> NativeCalls[w]
    [] family = "error" -> Statements(Errors[w])

NativeProgram(c) ==
  IF c.family # "native" THEN ProgramOfCase(c)
  ELSE IF c.what[1] = "root" THEN Rooted(RootBodies[c.what[2]])
  ELSE Program(NativePrelude \o NativeBody(c.what[1], c.what[2]), IF c.what[1] \in {"expr", "test", "array"} THEN <<>> ELSE NativeOthers)

NativeCases ==
  {NativeCase("expr", e) : e \in NativeExprs} \cup {NativeCase("mix", e) : e \in NativeCallExprs}
    \cup {NativeCase("test", e) : e \in NativeConditions}
    \cup {NativeCase("array", e) : e \in NativeArrays} \cup {NativeCase("call", n) : n \in DOMAIN CallBodies \ {7}}
    \cup {NativeCase("pick", n) : n \in DOMAIN NativeCalls} \cup {NativeCase("error", n) : n \in DOMAIN Errors}
    \cup {NativeCase("root", n) : n \in DOMAIN RootBodies}
    \cup LoopCases \cup IfCases \cup {c \in SelectCases : c.what[1] \in {-4, 3, 8}}

NativeChoices(ms) == {ms, {1}, ms \ {1}} \ {{}}
NativeLevels == {0, 3}
====
