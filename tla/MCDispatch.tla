----------------------------- MODULE MCDispatch -----------------------------
(***************************************************************************)
(* Worlds for Dispatch: lang.obs with Base and String; a library with a     *)
(* class K, a virtual class V, an interface I, texts, an enum, a function   *)
(* and every instruction; and programs with two classes P and Q and an      *)
(* interface PI, in every way these can inherit, implement and override     *)
(* the method m.                                                           *)
(***************************************************************************)
EXTENDS Dispatch

RECURSIVE InSequence(_)
InSequence(S) == IF S = {} THEN <<>> ELSE LET x == CHOOSE e \in S : TRUE IN <<x>> \o InSequence(S \ {x})

Method(sig, params, body) ==
  [sig |-> sig, virt |-> FALSE, static |-> FALSE, native |-> FALSE, params |-> params, body |-> body]
Virtual(sig) == [Method(sig, 0, <<>>) EXCEPT !.virt = TRUE]
Class(name, parent, infs, mthds) ==
  [name |-> name, parent |-> parent, infs |-> infs, isInf |-> FALSE, fields |-> <<INT_PARM>>, mthds |-> mthds]
Interface(name) == [Class(name, "", <<>>, <<Virtual("m:")>>) EXCEPT !.isInf = TRUE]
New(body) == Method("New:", 0, <<<<"parent">>>> \o body)

Lang ==
  [classes |-> <<Class(Base, "", <<>>, <<Method("New:", 0, <<>>)>>),
                 Class(String, "", <<>>, <<New(<<>>), Method("New:o,", 1, <<<<"parent">>>>), Method("New:c*,", 1, <<<<"parent">>>>)>>)>>,
   enums |-> <<>>, debug |-> FALSE]

Greeting == <<7, 8>>
Numbers == <<1, -2>>
Operanded == <<<<"LOAD_INT_LIT", 3>>, <<"LOAD_CHAR_LIT", 4>>, <<"LOAD_FLOAT_LIT", 5>>, <<"LBL", 1>>, <<"JMP", 1, -1>>, <<"TRAP", 2>>,
  <<"NEW_BYTE_ARY", 1>>, <<"LOAD_INT_ARY_ELM", 1, 0>>, <<"STOR_FLOAT_ARY_ELM", 1, 0>>, <<"LOAD_FLOAT_VAR", 0, LOCL>>,
  <<"COPY_INT_VAR", 0, LOCL>>, <<"LOAD_INT_VAR", 0, LOCL + 1>>, <<"STOR_INT_VAR", 0, LOCL + 1>>, <<"COPY_FLOAT_VAR", 0, LOCL>>,
  <<"ASYNC_MTHD_CALL", 0, 0, FALSE>>>>
Everything == InSequence({ <<type>> : type \in Plain }) \o Operanded
Plainly(instrs) == [i \in DOMAIN instrs |-> <<"plain", instrs[i]>>]

Texts1 == <<<<"chars", Greeting>>, <<"chars", <<>>>>, <<"numbers", "int", Numbers>>, <<"numbers", "float", <<9>>>>, <<"chars", <<6>>>>>>
Library(debug) ==
  [classes |-> <<
     Interface("I"),
     Class("K", "", <<"I">>, <<Method("m:", 0, Texts1), New(<<>>), [Method("f:", 0, <<<<"item", "E", "b">>>>) EXCEPT !.static = TRUE],
                               Method("g:", 0, <<<<"func", "K", "f:">>, <<"make", "K", "K">>>>), Method("h:", 0, Plainly(Everything)),
                               [Method("n:", 0, <<<<"call", "V", "W", "m:">>>>) EXCEPT !.native = TRUE]>>),
     Class("V", "", <<>>, <<New(<<>>), Virtual("m:")>>),
     Class("W", "V", <<>>, <<Method("m:", 0, <<>>), New(<<>>)>>)>>,
   enums |-> <<[name |-> "E", offset |-> 10, items |-> <<"a", "b">>]>>, debug |-> debug]

(* How a class has m: not at all, its own, or for others to write. *)
Ways == [absent |-> <<>>, concrete |-> <<Method("m:", 0, <<>>)>>, virtual |-> <<Virtual("m:")>>]

Program(debug, p, pInfs, pWay, q, qInfs, qWay) ==
  [classes |-> <<Class("Q", q, qInfs, <<New(<<>>)>> \o Ways[qWay]), Interface("PI"),
                 Class("P", p, pInfs, <<New(<<<<"item", "F", "d">>, <<"chars", <<6>>>>>>)>> \o Ways[pWay])>>,
   enums |-> <<[name |-> "F", offset |-> 20, items |-> <<"c", "d">>]>>, debug |-> debug]

Declared == {"K", "V", "I", "P", "Q", "PI"}
Made == {"K", "P", "Q", "V"}
Common == <<<<"typeof", "K", "K", "I">>, <<"call", "K", "K", "n:">>, <<"chars", Greeting>>, <<"numbers", "int", Numbers>>, <<"numbers", "float", <<9, 9>>>>,
            <<"chars", <<>>>>, <<"func", "K", "f:">>, <<"item", "E", "a">>, <<"item", "F", "c">>>>
Calls1 == { <<"call", d, c, "m:">> : d \in Declared, c \in {"K", "P", "Q"} } \cup {<<"make", "V", "V">>}
Narrows == { <<"make", d, c>> : d \in Declared, c \in {"P", "Q"} }
           \cup { <<"narrow", d, c, e>> : d \in {"V", "I", "P", "PI"}, c \in {"P", "Q"}, e \in {"K", "I", "P", "Q", "PI"} }
TypeOfs == { <<"typeof", "P", c, e>> : c \in {"P", "Q"}, e \in Declared } \cup { <<"typeof", "K", "K", e>> : e \in Declared }
CallStatements == Common \o InSequence(Calls1 \cup TypeOfs)
CastStatements == <<<<"typeof", "K", "K", "I">>>> \o InSequence(Narrows)

World(program, debug, statements) ==
  [libs |-> <<Lang, Library(debug)>>, prog |-> program, statements |-> statements,
   arguments |-> <<<<6>>, <<5, 5>>>>, garbage |-> -7]

Programs(debug) ==
  { Program(debug, p, pInfs, pWay, q, qInfs, qWay) :
    p \in {"", "K", "V"}, pInfs \in {<<>>, <<"I">>, <<"PI">>, <<"I", "PI">>}, pWay \in DOMAIN Ways,
    q \in {"", "P"}, qInfs \in {<<>>, <<"I">>}, qWay \in {"absent", "concrete"} }

(* A program and its library differ in whether they carry debug symbols. *)
AllWorlds == { World(x, FALSE, CallStatements) : x \in Programs(TRUE) } \cup { World(x, TRUE, CastStatements) : x \in Programs(FALSE) }

Names == <<"Main:o*,", "New:", "New:c*,", "New:o,", "f:", "g:", "h:", "m:", "n:">>
ThreadBound == (1 :> 2) @@ (2 :> 1)

(* Written casts. *)
WrittenCasts == InSequence({ <<"make", "P", "P">>, <<"as", "P", "P", "Q">>, <<"as", "P", "Q", "Q">> })
CastWorlds == { World(x, FALSE, WrittenCasts) : x \in Programs(FALSE) }
=============================================================================
