------------------------------- MODULE Trees -------------------------------
(***************************************************************************)
(* The tree of a program, src/compiler/tree.h, as the parser builds it and *)
(* the contextual analysis decorates it.                                   *)
(*                                                                         *)
(* An expression is a record: .k its kind ("Lit", "Var", "Calc", "Cond",   *)
(* "Call"), .op the operator of a Calc or the sort of a Call ("method",    *)
(* "new", "array"), .name a variable, method or type, .v a literal's value *)
(* or the number of a called method, .args its subexpressions (a Calc's    *)
(* <<left, right>>, a Cond's <<test, if, else>>, the indices of a Var, the *)
(* parameters of a Call), .on the variable a Call is made on, "" for the   *)
(* current instance, .next the call made on the result, none or one; and   *)
(* what the analysis notes: .place, the entry of the variable's name that  *)
(* is meant, the base type, the type it evaluates to with its dimensions,  *)
(* the type it is cast to, None when there is no cast, and whether it is   *)
(* in error.                                                               *)
(*                                                                         *)
(* A statement is a record: .k its kind, .exprs its expressions, .blocks   *)
(* its lists of statements, .op what distinguishes it: an assignment's     *)
(* operator, "else" or "other" when it has such a part, .values a select's *)
(* pairs of a label's value and a block, which the analysis makes a        *)
(* function.                                                               *)
(*                                                                         *)
(* Left out: strings, enums, function references, library calls, static    *)
(* arrays and methods, system directives.  There is one class, "Obj".      *)
(***************************************************************************)
EXTENDS Integers, SequencesExt

(* f of the value of x: TLC has x computed before it goes into f, and nests *)
(* no deeper than f alone.                                                  *)
Strictly(f(_), x) == CHOOSE r \in {f(v) : v \in {x}} : TRUE

None == "-"
IntTypes == {"Int", "Byte", "Char"}
CompareOps == {"EQL", "NEQL", "LES", "GTR", "LES_EQL", "GTR_EQL"}
MathOps == {"ADD", "SUB", "MUL", "DIV"}
IntegerOps == {"MOD", "SHL", "SHR", "BIT_AND", "BIT_OR", "BIT_XOR"}
LogicOps == {"AND", "OR"}

Node(k, op, name, v, args) ==
  [k |-> k, op |-> op, name |-> name, v |-> v, args |-> args, on |-> "", next |-> <<>>,
   place |-> 0, base |-> None, eval |-> None, dim |-> 0, cast |-> None, bad |-> FALSE]

Lit(type, v) == [Node("Lit", "", "", v, <<>>) EXCEPT !.base = type, !.eval = type]
Var(name, indices) == Node("Var", "", name, 0, indices)
Calc(op, left, right) == Node("Calc", op, "", 0, <<left, right>>)
Cond(test, if, else) == Node("Cond", "", "", 0, <<test, if, else>>)
Call(on, name, params) == [Node("Call", "method", name, 0, params) EXCEPT !.on = on]
New(params) == Node("Call", "new", "New", 0, params)
NewArrayCall(type, sizes) == [Node("Call", "array", type, 0, sizes) EXCEPT !.base = type, !.eval = type, !.dim = Len(sizes)]

(* The last call of a chain, and the chain with its last call changed. *)
RECURSIVE LastCall(_), WithLast(_, _)
LastCall(e) == IF e.next = <<>> THEN e ELSE LastCall(e.next[1])
WithLast(e, last) == IF e.next = <<>> THEN last ELSE [e EXCEPT !.next = <<WithLast(e.next[1], last)>>]

Stmt(k, op, exprs, blocks, values) == [k |-> k, op |-> op, exprs |-> exprs, blocks |-> blocks, values |-> values]
Assign(target, op, value) == Stmt("Assign", op, <<value, target>>, <<>>, <<>>)
CallStmt(call) == Stmt("Call", "", <<call>>, <<>>, <<>>)
If(test, then, elseIf, hasElse, else) ==
  Stmt("If", IF hasElse THEN "else" ELSE "", <<test>>, <<then, elseIf, IF hasElse THEN else ELSE <<>>>>, <<>>)
While(test, body) == Stmt("While", "", <<test>>, <<body, <<>>, <<>>>>, <<>>)
For(pre, test, update, body) == Stmt("For", "", <<test>>, <<body, <<pre>>, <<update>>>>, <<>>)
DoWhile(test, body) == Stmt("DoWhile", "", <<test>>, <<body>>, <<>>)
Select(expr, values, hasOther, blocks) ==
  Stmt("Select", IF hasOther THEN "other" ELSE "", <<expr>>, blocks, values)
BreakStmt == Stmt("Break", "", <<>>, <<>>, <<>>)
EmptyStmt == Stmt("Empty", "", <<>>, <<>>, <<>>)
SimpleStmt(e) == Stmt("Simple", "", <<e>>, <<>>, <<>>)
ReturnStmt(exprs) == Stmt("Return", "", exprs, <<>>, <<>>)

(* A declaration; declared by a statement, with or without an assignment,  *)
(* which the statement has in its only block.                              *)
Decl(name, type, dim) == [name |-> name, type |-> type, dim |-> dim]
Declare(decl, assign) == Stmt("Decl", "", <<>>, <<assign>>, <<decl>>)

(* The blocks of a statement as they are written, and the declarations in   *)
(* statements and all their blocks, which the parser enters as it meets     *)
(* them.                                                                    *)
BlockOrder(s) == IF s.k \in {"While", "For"} THEN <<2, 3, 1>> ELSE [i \in DOMAIN s.blocks |-> i]
RECURSIVE DeclarationsIn(_)
DeclarationsIn(stmts) ==
  FlattenSeq([i \in DOMAIN stmts |->
    IF stmts[i].k = "Decl" THEN stmts[i].values
    ELSE FlattenSeq([n \in DOMAIN stmts[i].blocks |-> DeclarationsIn(stmts[i].blocks[BlockOrder(stmts[i])[n]])])])

(* A method: its parameters are its first entries. *)
Method(id, name, params, returns, body) ==
  [id |-> id, name |-> name, new |-> name = "New", params |-> Len(params), returns |-> returns,
   entries |-> params, body |-> body]
====
