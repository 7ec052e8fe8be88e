------------------------------- MODULE Parser -------------------------------
(***************************************************************************)
(* The parser, src/compiler/parser.cpp: recursive descent over the tokens  *)
(* the scanner made of a class, one token ahead, two where a cast follows  *)
(* "->".  Every operator takes the tokens with the place it is at and      *)
(* returns them at the place behind what it parsed, with the tree.         *)
(*                                                                         *)
(* A token is [t, v]: its text for a sign or a keyword, "ident" or the     *)
(* type of a literal with v its name or value, "end" after the last one.   *)
(* After an error the parser looks for a place to go on and reports more;  *)
(* nothing is compiled then, so the first error ends the parse here.       *)
(*                                                                         *)
(* Left out: bundles, enums, interfaces, functions, anonymous classes,     *)
(* virtual and native methods, strings, static arrays, typeof, function    *)
(* types, critical sections (see Threads) and each.  A part for the other  *)
(* values is the last one of its select.                                   *)
(***************************************************************************)
EXTENDS Trees

Tok(t) == [t |-> t, v |-> 0]
Tokens(ts) == [toks |-> ts, at |-> 1, ok |-> TRUE]

Token(p) == IF p.at \in DOMAIN p.toks THEN p.toks[p.at].t ELSE "end"
Second(p) == IF p.at + 1 \in DOMAIN p.toks THEN p.toks[p.at + 1].t ELSE "end"
TokenValue(p) == IF p.at \in DOMAIN p.toks THEN p.toks[p.at].v ELSE 0
NextToken(p) == [p EXCEPT !.at = @ + 1]
Failed(p) == [p EXCEPT !.at = Len(p.toks) + 1, !.ok = FALSE]
Expect(p, t) == IF Token(p) = t THEN NextToken(p) ELSE Failed(p)
Parsed(p, e) == [p |-> p, e |-> e]

TermOps == [t \in {"+", "-"} |-> IF t = "+" THEN "ADD" ELSE "SUB"]
FactorOps == ("*" :> "MUL") @@ ("/" :> "DIV") @@ ("%" :> "MOD") @@ ("<<" :> "SHL") @@ (">>" :> "SHR")
               @@ ("and" :> "BIT_AND") @@ ("or" :> "BIT_OR") @@ ("xor" :> "BIT_XOR")
CompareTokens == ("<" :> "LES") @@ (">" :> "GTR") @@ ("<=" :> "LES_EQL") @@ (">=" :> "GTR_EQL")
                   @@ ("=" :> "EQL") @@ ("<>" :> "NEQL")
LogicTokens == ("&" :> "AND") @@ ("|" :> "OR")
AssignTokens == (":=" :> "") @@ ("+=" :> "ADD") @@ ("-=" :> "SUB") @@ ("*=" :> "MUL") @@ ("/=" :> "DIV")
BasicTypes == {"Int", "Float", "Byte", "Char", "Bool", "Nil"}
LiteralTokens == {"int", "float", "char", "true", "false", "nil"}

LiteralOf(token, v) ==
  CASE token = "int" -> Lit("Int", v)
    [] token = "float" -> Lit("Float", v)
    [] token = "char" -> Lit("Char", v)
    [] token \in {"true", "false"} -> Lit("Bool", IF token = "true" THEN 1 ELSE 0)
    [] token = "nil" -> Lit("Nil", 0)

-----------------------------------------------------------------------------
(* The rules of the grammar call each other by name. *)
RECURSIVE Rule(_, _)
ParseExpression(p) == Rule("expression", p)
ParseLogic(p) == Rule("logic", p)
ParseTerm(p) == Rule("term", p)
TermRest(r) == Rule("terms", r)
FactorRest(r) == Rule("factors", r)
ParseSimpleExpression(p) == Rule("simple", p)
ParseCalls(r) == Rule("calls", r)
ParseMethodCall(p, ident) == Rule("call", <<p, ident>>)
ParseExpressionList(p, closed, es) == Rule("expressions", <<p, closed, es>>)
Dimensions(p, n) == Rule("dimensions", <<p, n>>)
ParseStatement(p) == Rule("statement", p)
StatementsRest(p, stmts) == Rule("statements", <<p, stmts>>)
ParseIf(p) == Rule("if", p)
ParseLabels(p, found) == Rule("labels", <<p, found>>)
ParseGroups(p, s) == Rule("groups", <<p, s>>)
ParseAssignment(r) == Rule("assignment", r)
ParseDeclaration(p, ident) == Rule("declaration", <<p, ident>>)
ParseParameters(p, decls) == Rule("parameters", <<p, decls>>)
ParseMembers(p, program) == Rule("members", <<p, program>>)

-----------------------------------------------------------------------------
(* The dimensions of a type, its commas and one. *)
DimensionsRule(p, n) == IF Token(p) = "," THEN Dimensions(NextToken(p), n + 1) ELSE Parsed(Expect(p, "]"), n)
ParseType(p) ==
  LET name == IF Token(p) \in BasicTypes THEN Token(p) ELSE TokenValue(p)
      dims == IF Second(p) = "[" THEN Dimensions(NextToken(NextToken(p)), 1) ELSE Parsed(NextToken(p), 0)
  IN  IF Token(p) \in BasicTypes \cup {"ident"} THEN Parsed(dims.p, [name |-> name, dim |-> dims.e])
      ELSE Parsed(Failed(p), [name |-> None, dim |-> 0])

(* Expressions up to a closing token, the opening one being behind. *)
ExpressionListRule(p, closed, es) ==
  LET one == ParseExpression(p)
      more == Append(es, one.e)
  IN  IF Token(p) = closed THEN Parsed(NextToken(p), es)
      ELSE IF Token(one.p) = "," THEN ParseExpressionList(NextToken(one.p), closed, more)
      ELSE Parsed(Expect(one.p, closed), more)

ParseIndices(p) == IF Token(p) = "[" THEN ParseExpressionList(NextToken(p), "]", <<>>) ELSE Parsed(p, <<>>)
ParseVariable(p, ident) == LET indices == ParseIndices(p) IN Parsed(indices.p, Var(ident, indices.e))

(* A call on what was parsed, or a cast of it and the calls after that. *)
CallsRule(r) ==
  LET name == TokenValue(NextToken(r.p))
      call == ParseMethodCall(NextToken(NextToken(r.p)), name)
      type == ParseType(Expect(NextToken(NextToken(r.p)), "("))
      cast == Parsed(Expect(type.p, ")"), [r.e EXCEPT !.cast = type.e.name])
  IN  IF Token(r.p) # "->" THEN r
      ELSE IF Second(r.p) = "As" THEN IF Token(cast.p) = "->" THEN ParseCalls(cast) ELSE cast
      ELSE IF Second(r.p) = "ident" THEN Parsed(call.p, [r.e EXCEPT !.next = <<call.e>>])
      ELSE Parsed(Failed(r.p), r.e)

(* A call: of a method of the class itself, on a variable, or of New. *)
MethodCallRule(p, ident) ==
  LET params(q) == ParseExpressionList(Expect(q, "("), ")", <<>>)
      own == params(p)
      member == NextToken(p)
      on == params(NextToken(member))
      array == ParseExpressionList(NextToken(NextToken(member)), "]", <<>>)
      new == params(NextToken(member))
  IN  ParseCalls(IF Token(p) = "(" THEN Parsed(own.p, Call("", ident, own.e))
                 ELSE IF Token(p) = "->" /\ Token(member) = "ident" THEN Parsed(on.p, Call(ident, TokenValue(member), on.e))
                 ELSE IF Token(p) = "->" /\ Token(member) = "New"
                 THEN IF Second(member) = "[" THEN Parsed(array.p, NewArrayCall(ident, array.e)) ELSE Parsed(new.p, New(new.e))
                 ELSE Parsed(Failed(p), Lit("Nil", 0)))

(* The place after a "-" must have a number. *)
SimpleExpressionRule(p) ==
  LET ident == IF Token(p) = "ident" THEN TokenValue(p) ELSE Token(p)
      after == NextToken(p)
      inner == ParseExpression(after)
      negative == LiteralOf(Token(after), -TokenValue(after))
  IN  ParseCalls(
        IF Token(p) \in BasicTypes \cup {"ident"}
        THEN IF Token(after) = "(" \/ (Token(after) = "->" /\ Second(after) # "As")
             THEN ParseMethodCall(after, ident) ELSE ParseVariable(after, ident)
        ELSE IF Token(p) = "(" THEN Parsed(Expect(inner.p, ")"), inner.e)
        ELSE IF Token(p) = "-" /\ Token(after) \in {"int", "float"} THEN Parsed(NextToken(after), negative)
        ELSE IF Token(p) \in LiteralTokens THEN Parsed(after, LiteralOf(Token(p), TokenValue(p)))
        ELSE Parsed(Failed(p), Lit("Nil", 0)))

(* Operators of one level from the left; every level takes the tighter ones *)
(* as its operands.                                                         *)
FactorRestRule(r) ==
  LET right == ParseSimpleExpression(NextToken(r.p))
  IN  IF Token(r.p) \in DOMAIN FactorOps
      THEN FactorRest(Parsed(right.p, Calc(FactorOps[Token(r.p)], r.e, right.e))) ELSE r
ParseFactor(p) == FactorRest(ParseSimpleExpression(p))

(* Fault: the second operand takes all that follows. *)
FaultTermRest(r) ==
  LET right == TermRest(ParseFactor(NextToken(r.p)))
  IN  IF Token(r.p) \in DOMAIN TermOps
      THEN Parsed(right.p, Calc(TermOps[Token(r.p)], r.e, right.e)) ELSE r

TermRestRule(r) ==
  LET right == ParseFactor(NextToken(r.p))
  IN  IF Token(r.p) \in DOMAIN TermOps
      THEN TermRest(Parsed(right.p, Calc(TermOps[Token(r.p)], r.e, right.e))) ELSE r

TermRule(p) == TermRest(ParseFactor(p))

ParseMathLogic(p) ==
  LET Compared(left, right) == Parsed(right.p, Calc(CompareTokens[Token(left.p)], left.e, right.e))
      Rest(left) == IF Token(left.p) \in DOMAIN CompareTokens THEN Compared(left, ParseTerm(NextToken(left.p))) ELSE left
  IN  Rest(ParseTerm(p))

(* The right operand takes all logic that follows.  The first operand goes  *)
(* to the right of the tree, where it is evaluated first.                   *)
LogicRule(p) ==
  LET Negated(r) == Parsed(r.p, Calc("NEQL", r.e, Lit("Bool", 1)))
      Joined(left, right) == Parsed(right.p, Calc(LogicTokens[Token(left.p)], right.e, left.e))
      Rest(left) == IF Token(left.p) \in DOMAIN LogicTokens THEN Joined(left, ParseLogic(NextToken(left.p))) ELSE left
  IN  Rest(IF Token(p) = "!" THEN Negated(ParseMathLogic(NextToken(p))) ELSE ParseMathLogic(p))

ExpressionRule(p) ==
  LET test == ParseLogic(p)
      if == ParseLogic(NextToken(test.p))
      else == ParseLogic(Expect(if.p, ":"))
  IN  IF Token(test.p) = "?" THEN Parsed(else.p, Cond(test.e, if.e, else.e)) ELSE test

-----------------------------------------------------------------------------
StatementsRestRule(p, stmts) ==
  LET one == ParseStatement(p)
  IN  IF Token(p) \in {"}", "end"} THEN Parsed(Expect(p, "}"), stmts) ELSE StatementsRest(one.p, Append(stmts, one.e))
ParseStatementList(p) == StatementsRest(Expect(p, "{"), <<>>)

InParens(p) == LET test == ParseExpression(Expect(p, "(")) IN Parsed(Expect(test.p, ")"), test.e)

(* A compound assignment takes no conditional expression. *)
AssignmentRule(r) ==
  LET value == IF Token(r.p) = ":=" THEN ParseExpression(NextToken(r.p)) ELSE ParseLogic(NextToken(r.p))
  IN  Parsed(value.p, Assign(r.e, AssignTokens[Token(r.p)], value.e))

DeclarationRule(p, ident) ==
  LET type == ParseType(Expect(p, ":"))
      decl == Decl(ident, type.e.name, type.e.dim)
      assigned == ParseAssignment(Parsed(type.p, Var(ident, <<>>)))
  IN  IF Token(type.p) = ":=" THEN Parsed(assigned.p, Declare(decl, <<assigned.e>>)) ELSE Parsed(type.p, Declare(decl, <<>>))

IfRule(p) ==
  LET test == InParens(NextToken(p))
      then == ParseStatementList(test.p)
      next == ParseIf(NextToken(then.p))
      else == ParseStatementList(NextToken(then.p))
  IN  IF Token(then.p) # "else" THEN Parsed(then.p, If(test.e, then.e, <<>>, FALSE, <<>>))
      ELSE IF Second(then.p) = "if" THEN Parsed(next.p, If(test.e, then.e, <<next.e>>, FALSE, <<>>))
      ELSE Parsed(else.p, If(test.e, then.e, <<>>, TRUE, else.e))

(* The labels in front of a part, with whether "other" is among them. *)
LabelsRule(p, found) ==
  LET label == ParseSimpleExpression(NextToken(p))
  IN  IF Token(p) = "label" THEN ParseLabels(Expect(label.p, ":"), [found EXCEPT !.labels = Append(@, label.e.v)])
      ELSE IF Token(p) = "other" /\ ~found.other THEN ParseLabels(Expect(NextToken(p), ":"), [found EXCEPT !.other = TRUE])
      ELSE Parsed(IF Token(p) = "other" THEN Failed(p) ELSE p, found)

(* The parts of a select; the labels next to "other" are forgotten. *)
GroupsRule(p, s) ==
  LET labels == ParseLabels(p, [labels |-> <<>>, other |-> FALSE])
      part == ParseStatementList(labels.p)
      pairs == [i \in DOMAIN labels.e.labels |-> <<labels.e.labels[i], Len(s.blocks) + 1>>]
      added == [s EXCEPT !.blocks = Append(@, part.e), !.values = IF labels.e.other THEN @ ELSE @ \o pairs,
                         !.op = IF labels.e.other THEN "other" ELSE @]
  IN  IF Token(p) \notin {"label", "other"} THEN Parsed(Expect(p, "}"), s)
      ELSE IF s.op = "other" THEN Parsed(Failed(p), s)
      ELSE ParseGroups(part.p, added)

ParseSelect(p) == LET on == InParens(NextToken(p)) IN ParseGroups(Expect(on.p, "{"), Select(on.e, <<>>, FALSE, <<>>))

ParseWhile(p) ==
  LET test == InParens(NextToken(p))
      body == ParseStatementList(test.p)
  IN  Parsed(body.p, While(test.e, body.e))

ParseDoWhile(p) ==
  LET body == ParseStatementList(NextToken(p))
      test == InParens(Expect(body.p, "while"))
  IN  Parsed(test.p, DoWhile(test.e, body.e))

ParseFor(p) ==
  LET pre == ParseStatement(Expect(NextToken(p), "("))
      test == ParseExpression(pre.p)
      update == ParseStatement(Expect(test.p, ";"))
      body == ParseStatementList(Expect(update.p, ")"))
  IN  Parsed(body.p, For(pre.e, test.e, update.e, body.e))

ParseReturn(p) ==
  LET value == ParseExpression(NextToken(p))
  IN  IF Token(NextToken(p)) = ";" THEN Parsed(NextToken(p), ReturnStmt(<<>>)) ELSE Parsed(value.p, ReturnStmt(<<value.e>>))

(* A statement that starts with a name. *)
ParseNamed(p, ident) ==
  LET variable == ParseVariable(p, ident)
      call == ParseMethodCall(p, ident)
  IN  CASE Token(p) = ":" -> ParseDeclaration(p, ident)
        [] Token(p) \in {"->", "("} -> Parsed(call.p, CallStmt(call.e))
        [] OTHER -> IF Token(variable.p) \in DOMAIN AssignTokens THEN ParseAssignment(variable)
                    ELSE Parsed(Failed(p), EmptyStmt)

ParseSimple(p) == LET e == ParseSimpleExpression(p) IN Parsed(e.p, SimpleStmt(e.e))

(* Every statement ends in a semicolon. *)
StatementRule(p) ==
  LET Ended(s) == Parsed(Expect(s.p, ";"), s.e)
  IN  Ended(CASE Token(p) = "ident" -> ParseNamed(NextToken(p), TokenValue(p))
             [] Token(p) = ";" -> Parsed(p, EmptyStmt)
             [] Token(p) = "return" -> ParseReturn(p)
             [] Token(p) = "if" -> ParseIf(p)
             [] Token(p) = "do" -> ParseDoWhile(p)
             [] Token(p) = "while" -> ParseWhile(p)
             [] Token(p) = "break" -> Parsed(NextToken(p), BreakStmt)
             [] Token(p) = "select" -> ParseSelect(p)
             [] Token(p) = "for" -> ParseFor(p)
             [] OTHER -> ParseSimple(p))

-----------------------------------------------------------------------------
ParametersRule(p, decls) ==
  LET Rest(q, more) == IF Token(q) = "," /\ Second(q) = "ident" THEN ParseParameters(NextToken(q), more)
                       ELSE Parsed(Expect(q, ")"), more)
      After(one) == Rest(one.p, Append(decls, one.e.values[1]))
  IN  IF Token(p) = ")" THEN Parsed(NextToken(p), decls)
      ELSE IF Token(p) # "ident" THEN Parsed(Failed(p), decls)
      ELSE After(ParseDeclaration(NextToken(p), TokenValue(p)))

(* A method is private unless it says public; a constructor has no name and *)
(* returns its class.                                                       *)
ParseMethod(p, id) ==
  LET new == Token(p) = "New"
      colon == Expect(NextToken(p), ":")
      access == IF Token(colon) \in {"public", "private"} THEN Expect(NextToken(colon), ":") ELSE colon
      params == ParseParameters(Expect(IF new THEN NextToken(p) ELSE Expect(access, "ident"), "("), <<>>)
      type == IF new THEN Parsed(params.p, [name |-> "Obj", dim |-> 0]) ELSE ParseType(Expect(params.p, "~"))
      body == ParseStatementList(type.p)
  IN  Parsed(body.p, Method(id, IF new THEN "New" ELSE TokenValue(access), params.e, type.e, body.e))

(* Two methods of a name differ in the types of their parameters. *)
Signature(m) == <<m.name, [i \in DOMAIN m.entries |-> <<m.entries[i].type, m.entries[i].dim>>]>>

MembersRule(p, program) ==
  LET Again(m) == \E i \in DOMAIN program.methods : Signature(program.methods[i]) = Signature(m)
      WithMethod(r) == ParseMembers(IF Again(r.e) THEN Failed(p) ELSE r.p, [program EXCEPT !.methods = Append(@, r.e)])
      WithField(r) == ParseMembers(Expect(r.p, ";"), [program EXCEPT !.fields = Append(@, r.e.values[1])])
  IN  CASE Token(p) \in {"method", "New"} -> WithMethod(ParseMethod(p, Len(program.methods) + 1))
        [] Token(p) = "ident" -> WithField(ParseDeclaration(NextToken(p), TokenValue(p)))
        [] OTHER -> Parsed(Expect(p, "}"), program)

Rule(name, x) ==
  CASE name = "expression" -> ExpressionRule(x)
    [] name = "logic" -> LogicRule(x)
    [] name = "term" -> TermRule(x)
    [] name = "terms" -> TermRestRule(x)
    [] name = "factors" -> FactorRestRule(x)
    [] name = "simple" -> SimpleExpressionRule(x)
    [] name = "calls" -> CallsRule(x)
    [] name = "call" -> MethodCallRule(x[1], x[2])
    [] name = "expressions" -> ExpressionListRule(x[1], x[2], x[3])
    [] name = "dimensions" -> DimensionsRule(x[1], x[2])
    [] name = "statement" -> StatementRule(x)
    [] name = "statements" -> StatementsRestRule(x[1], x[2])
    [] name = "if" -> IfRule(x)
    [] name = "labels" -> LabelsRule(x[1], x[2])
    [] name = "groups" -> GroupsRule(x[1], x[2])
    [] name = "assignment" -> AssignmentRule(x)
    [] name = "declaration" -> DeclarationRule(x[1], x[2])
    [] name = "parameters" -> ParametersRule(x[1], x[2])
    [] name = "members" -> MembersRule(x[1], x[2])

(* A class from its keyword on: the program, and whether it parsed. *)
NoProgram == [fields |-> <<>>, methods |-> <<>>]
Parse(tokens) ==
  LET start == Expect(Expect(Expect(Tokens(tokens), "class"), "ident"), "{")
      Program(members) == [ok |-> members.p.ok /\ Token(members.p) = "end", program |-> members.e]
  IN  Program(ParseMembers(start, NoProgram))

-----------------------------------------------------------------------------
(***************************************************************************)
(* The reference: the tokens a program is written with, by the precedence  *)
(* of docs/guide/objeck_lang.tex (Expressions), with the parentheses that  *)
(* asks for and no others.  Operators of one precedence go from the left,  *)
(* so a first operand of the same precedence has none.                     *)
(***************************************************************************)
Sign1(t) == <<Tok(t)>>
Ident(name) == <<[t |-> "ident", v |-> name]>>
TypeName(type) == IF type \in BasicTypes THEN Sign1(type) ELSE Ident(type)
TokenOf(tokens, op) == CHOOSE t \in DOMAIN tokens : tokens[t] = op
Separated(texts, sign) ==
  FlattenSeq([i \in DOMAIN texts |-> IF i = 1 THEN texts[i] ELSE Sign1(sign) \o texts[i]])

IsNot(e) == e.op = "NEQL" /\ e.args[2] = Lit("Bool", 1)

(* How tight an expression binds: a choice, logic, "!", comparisons, sums,  *)
(* products, all else.                                                      *)
Precedence(e) ==
  CASE e.cast # None -> 6
    [] e.k = "Cond" -> 0
    [] e.k # "Calc" -> 6
    [] e.op \in LogicOps -> 1
    [] IsNot(e) -> 2
    [] e.op \in CompareOps -> 3
    [] e.op \in {"ADD", "SUB"} -> 4
    [] OTHER -> 5

LiteralText(type, v) ==
  CASE type \in {"Int", "Float"} ->
         LET t == IF type = "Int" THEN "int" ELSE "float"
         IN  IF v < 0 THEN Sign1("-") \o <<[t |-> t, v |-> -v]>> ELSE <<[t |-> t, v |-> v]>>
    [] type = "Char" -> <<[t |-> "char", v |-> v]>>
    [] type = "Bool" -> IF v = 1 THEN Sign1("true") ELSE Sign1("false")
    [] type = "Nil" -> Sign1("nil")

(* The text of an expression or a statement. *)
RECURSIVE TextOf(_, _)
Text(e, level) == TextOf("expression", <<e, level>>)
StatementText(s) == TextOf("statement", s)

(* An expression where one that binds less than level needs parentheses.   *)
Bracketed(text) == Sign1("(") \o text \o Sign1(")")
List(exprs) == Separated([i \in DOMAIN exprs |-> Text(exprs[i], 0)], ",")
IndexText(exprs) == IF exprs = <<>> THEN <<>> ELSE Sign1("[") \o List(exprs) \o Sign1("]")

CallText(e) ==
  LET on == IF e.op = "new" THEN Ident("Obj") ELSE IF e.op = "array" THEN TypeName(e.name) ELSE Ident(e.on)
      name == IF e.op = "method" THEN Ident(e.name) ELSE Sign1("New")
  IN  (IF e.op = "method" /\ e.on = "" THEN <<>> ELSE on \o Sign1("->")) \o name
        \o (IF e.op = "array" THEN IndexText(e.args) ELSE Bracketed(List(e.args)))

Plain(e) ==
  CASE e.k = "Lit" -> LiteralText(e.base, e.v)
    [] e.k = "Var" -> Ident(e.name) \o IndexText(e.args)
    [] e.k = "Call" -> CallText(e)
    [] e.k = "Cond" -> Text(e.args[1], 1) \o Sign1("?") \o Text(e.args[2], 1) \o Sign1(":") \o Text(e.args[3], 1)
    [] e.op \in LogicOps -> Text(e.args[2], 1) \o Sign1(TokenOf(LogicTokens, e.op)) \o Text(e.args[1], 2)
    [] IsNot(e) -> Sign1("!") \o Text(e.args[1], 3)
    [] e.op \in CompareOps -> Text(e.args[1], 4) \o Sign1(TokenOf(CompareTokens, e.op)) \o Text(e.args[2], 4)
    [] e.op \in {"ADD", "SUB"} -> Text(e.args[1], 4) \o Sign1(TokenOf(TermOps, e.op)) \o Text(e.args[2], 5)
    [] OTHER -> Text(e.args[1], 5) \o Sign1(TokenOf(FactorOps, e.op)) \o Text(e.args[2], 6)

(* What comes behind: a cast, then the calls made on the result. *)
Behind(e) ==
  (IF e.cast = None THEN <<>> ELSE Sign1("->") \o Sign1("As") \o Bracketed(TypeName(e.cast)))
    \o IF e.next = <<>> THEN <<>> ELSE Sign1("->") \o Text(e.next[1], 6)

ExpressionText(e, level) ==
  IF e.cast # None /\ e.k \in {"Calc", "Cond"} THEN Bracketed(Plain(e)) \o Behind(e)
  ELSE IF Precedence(e) < level THEN Bracketed(Plain(e)) ELSE Plain(e) \o Behind(e)

-----------------------------------------------------------------------------
BlockText(stmts) == Sign1("{") \o FlattenSeq([i \in DOMAIN stmts |-> StatementText(stmts[i]) \o Sign1(";")]) \o Sign1("}")
TypeText(d) ==
  TypeName(d.type) \o IF d.dim = 0 THEN <<>> ELSE Sign1("[") \o [i \in 1 .. d.dim - 1 |-> Tok(",")] \o Sign1("]")
DeclText(d) == Ident(d.name) \o Sign1(":") \o TypeText(d)

AssignText(s) ==
  Sign1(TokenOf(AssignTokens, s.op)) \o Text(s.exprs[1], IF s.op = "" THEN 0 ELSE 1)

IfText(s) ==
  Sign1("if") \o Bracketed(Text(s.exprs[1], 0)) \o BlockText(s.blocks[1])
    \o IF s.blocks[2] # <<>> THEN Sign1("else") \o StatementText(s.blocks[2][1])
       ELSE IF s.op = "else" THEN Sign1("else") \o BlockText(s.blocks[3]) ELSE <<>>

SelectText(s) ==
  LET pairs(i) == SelectSeq(s.values, LAMBDA p : p[2] = i)
      labels(i) == FlattenSeq([j \in DOMAIN pairs(i) |-> Sign1("label") \o LiteralText("Int", pairs(i)[j][1]) \o Sign1(":")])
      part(i) == (IF labels(i) = <<>> THEN Sign1("other") \o Sign1(":") ELSE labels(i)) \o BlockText(s.blocks[i])
  IN  Sign1("select") \o Bracketed(Text(s.exprs[1], 0))
        \o Sign1("{") \o FlattenSeq([i \in DOMAIN s.blocks |-> part(i)]) \o Sign1("}")

StatementTokens(s) ==
  CASE s.k = "Assign" -> Text(s.exprs[2], 6) \o AssignText(s)
    [] s.k = "Call" -> Text(s.exprs[1], 6)
    [] s.k = "Simple" -> Bracketed(Text([s.exprs[1] EXCEPT !.next = <<>>], 0)) \o Sign1("->") \o Text(s.exprs[1].next[1], 6)
    [] s.k = "Decl" -> DeclText(s.values[1]) \o IF s.blocks[1] = <<>> THEN <<>> ELSE AssignText(s.blocks[1][1])
    [] s.k = "Return" -> Sign1("return") \o List(s.exprs)
    [] s.k = "Break" -> Sign1("break")
    [] s.k = "Empty" -> <<>>
    [] s.k = "If" -> IfText(s)
    [] s.k = "Select" -> SelectText(s)
    [] s.k = "While" -> Sign1("while") \o Bracketed(Text(s.exprs[1], 0)) \o BlockText(s.blocks[1])
    [] s.k = "DoWhile" -> Sign1("do") \o BlockText(s.blocks[1]) \o Sign1("while") \o Bracketed(Text(s.exprs[1], 0))
    [] s.k = "For" -> Sign1("for") \o Bracketed(StatementText(s.blocks[2][1]) \o Sign1(";") \o Text(s.exprs[1], 0)
                        \o Sign1(";") \o StatementText(s.blocks[3][1]) \o Sign1(";")) \o BlockText(s.blocks[1])

TextOf(what, x) ==
  CASE what = "expression" -> ExpressionText(x[1], x[2])
    [] what = "statement" -> StatementTokens(x)

(* A method's first entries are its parameters, all there are as written. *)
MethodText(m) ==
  LET params == Separated([i \in DOMAIN m.entries |-> DeclText(m.entries[i])], ",")
  IN  (IF m.new THEN Sign1("New")
       ELSE Sign1("method") \o Sign1(":") \o Sign1("public") \o Sign1(":") \o Ident(m.name))
        \o Bracketed(params)
        \o (IF m.new THEN <<>> ELSE Sign1("~") \o TypeText([type |-> m.returns.name, dim |-> m.returns.dim]))
        \o BlockText(m.body)

Written(program) ==
  Sign1("class") \o Ident("Obj") \o Sign1("{")
    \o FlattenSeq([i \in DOMAIN program.fields |-> DeclText(program.fields[i]) \o Sign1(";")])
    \o FlattenSeq([i \in DOMAIN program.methods |-> MethodText(program.methods[i])]) \o Sign1("}")
====
