------------------------------- MODULE Target -------------------------------
(***************************************************************************)
(* The end of the compiler: classes and methods get their ids, what the     *)
(* libraries bring is joined to what the program has, and the file is       *)
(* written (src/compiler/intermediate.cpp, target.h, target.cpp).           *)
(*                                                                         *)
(* An intermediate class is [id, name, pid, parent, infIds, infs, isInf,    *)
(* virt, debug, fields, mthds], its methods [id, name, virt, native,        *)
(* static, params, instrs].                                                *)
(***************************************************************************)
EXTENDS Linker

CONSTANT NameOrder    \* the signatures in use, in the order of a map's keys

(* How the unit is linked: the libraries, which of their classes get ids,   *)
(* how many do, the ids of all of them, and all texts.  garbage is what an  *)
(* id holds that was never set.                                            *)
Linkage(env, plans, libs, garbage) ==
  LET linked == env.linked
      names == { c.name : c \in ToSet(linked) }
      reached == IF env.lib THEN names ELSE ResolveExternalClasses(linked, Called(env) \cap names)
  IN  [env |-> env, libs |-> libs, linked |-> linked, reached |-> reached,
       ids |-> [n \in names |-> LibraryClassId(linked, reached, n, garbage)],
       first |-> CallsBefore(linked, reached, Len(linked) + 1),
       texts |-> [kind \in ToSet(TextKinds) |->
         IF env.lib THEN Texts(plans, kind) ELSE MergeStrings(Texts(plans, kind), libs, kind)]]

(* A class's id: the libraries' come first. *)
ClassId(link, n) ==
  IF InProgram(link.env, n) THEN link.first + SelectInSeq(link.env.prog, LAMBDA c : c.name = n) - 1
  ELSE link.ids[n]

MethodId(link, n, sig) ==
  IF InProgram(link.env, n)
  THEN SelectInSeq(SearchProgramClasses(link.env, n).mthds, LAMBDA m : m.sig = sig) - 1
  ELSE LibraryMethodId(link.linked, n, sig)

StringId(link) == IF link.env.system THEN ClassId(link, String) ELSE StringClassId(link.linked, link.reached)

(* An item of an enum of the unit, or of a library. *)
ItemId(link, enum, item) ==
  LET own == FirstOf(link.env.enums, LAMBDA e : e.name = enum, NoClass)
      theirs == FirstOf(FlattenSeq([l \in DOMAIN link.libs |-> link.libs[l].enums]), LAMBDA e : e.name = enum, NoClass)
  IN  IF own # NoClass THEN own.offset + SelectInSeq(own.items, LAMBDA i : i = item) - 1
      ELSE FirstOf(theirs.items, LAMBDA i : i[1] = item, <<item, -1>>)[2]

-----------------------------------------------------------------------------
(* A symbolic item of a plan in an executable, and in a library. *)
EmitForProgram(link, item) ==
  CASE item[1] = "new" -> <<<<"NEW_OBJ_INST", ClassId(link, item[2])>>>>
    [] item[1] = "call" -> <<<<"MTHD_CALL", ClassId(link, item[2]), MethodId(link, item[2], item[3]), item[4]>>>>
    [] item[1] = "cast" -> <<<<"OBJ_INST_CAST", ClassId(link, item[2])>>>>
    [] item[1] = "method" -> <<<<"LOAD_INT_LIT", MethodId(link, item[2], item[3])>>>>
    [] item[1] = "class" -> <<<<"LOAD_INT_LIT", ClassId(link, item[2])>>>>
    [] item[1] = "string" -> <<<<"NEW_OBJ_INST", StringId(link)>>>>
    [] item[1] = "string_new" -> <<<<"MTHD_CALL", StringId(link), IF item[2] = "New:" THEN 0 ELSE 2, FALSE>>>>

EmitForLibrary(link, item) ==
  CASE item[1] = "new" -> <<<<"LIB_NEW_OBJ_INST", item[2]>>>>
    [] item[1] = "call" -> <<<<"LIB_MTHD_CALL", item[4], item[2], <<item[2], item[3]>>>>>>
    [] item[1] = "cast" -> <<<<"LIB_OBJ_INST_CAST", item[2]>>>>
    [] item[1] = "method" -> <<<<"LIB_FUNC_DEF", item[2], <<item[2], item[3]>>>>>>
    [] item[1] = "class" -> <<>>
    [] item[1] = "string" -> <<<<"LIB_NEW_OBJ_INST", String>>>>
    [] item[1] = "string_new" -> <<<<"LIB_MTHD_CALL", FALSE, String, <<String, item[2]>>>>>>

Symbolic == {"new", "call", "cast", "method", "class", "string", "string_new"}

(* OBJ_TYPE_OF has an id in both. *)
EmitItem(link, item) ==
  CASE item[1] \in Symbolic -> IF link.env.lib THEN EmitForLibrary(link, item) ELSE EmitForProgram(link, item)
    [] item[1] = "type" -> <<<<"OBJ_TYPE_OF", ClassId(link, item[2])>>>>
    [] item[1] = "text" -> <<<<"LOAD_INT_LIT", TextId(link.texts[item[2]], item[3])>>>>
    [] item[1] = "item" -> <<<<"LOAD_INT_LIT", ItemId(link, item[2], item[3])>>>>
    [] OTHER -> <<item>>

EmitPlan(link, plan) == FlattenSeq([i \in DOMAIN plan |-> EmitItem(link, plan[i])])

(* A class of the unit: its interfaces' ids, those of the program first. *)
EmitProgramClass(link, k, plans) ==
  [id |-> ClassId(link, k.name), name |-> k.name, parent |-> k.parent,
   pid |-> IF k.parent = "" THEN -1 ELSE ClassId(link, k.parent),
   infIds |-> LET own == SelectSeq(k.infs, LAMBDA n : InProgram(link.env, n))
                  theirs == SelectSeq(k.infs, LAMBDA n : ~InProgram(link.env, n))
              IN  [i \in DOMAIN (own \o theirs) |-> ClassId(link, (own \o theirs)[i])],
   infs |-> k.infs, isInf |-> k.isInf, virt |-> k.virt, debug |-> link.env.debug, fields |-> k.fields,
   mthds |-> [m \in DOMAIN k.mthds |->
     [id |-> m - 1, name |-> <<k.name, k.mthds[m].sig>>, virt |-> k.mthds[m].virt, native |-> k.mthds[m].native,
      static |-> k.mthds[m].static, params |-> k.mthds[m].params, instrs |-> EmitPlan(link, plans[m])]]]

(* A library's class in an executable: no parent id, and its methods in the *)
(* order of their names, with the ids they had.                            *)
MethodsByName(c) == SelectSeq([i \in DOMAIN NameOrder |-> GetMethod(c, NameOrder[i])], LAMBDA m : m # NoMethod)

EmitLibraryClass(link, c) ==
  LET mthds == MethodsByName(c)
      infs == SelectSeq(c.infs, LAMBDA n : LibraryClass(link.linked, n) # NoClass)
  IN  [id |-> link.ids[c.name], name |-> c.name, parent |-> c.parent, pid |-> -1,
       infIds |-> [i \in DOMAIN infs |-> link.ids[infs[i]]],
       infs |-> c.infs, isInf |-> c.isInf, virt |-> c.virt, debug |-> c.debug, fields |-> c.fields,
       mthds |-> [m \in DOMAIN mthds |->
         [id |-> mthds[m].id, name |-> <<c.name, mthds[m].sig>>, virt |-> mthds[m].virt, native |-> mthds[m].native,
          static |-> mthds[m].static, params |-> mthds[m].params,
          instrs |-> ResolveExternalMethodCalls(link.linked, link.ids,
                       EmitStrings(mthds[m].instrs, link.libs[c.lib].texts, link.texts))]]]

EmitEnum(e) == [name |-> e.name, offset |-> e.offset, items |-> [i \in DOMAIN e.items |-> <<e.items[i], e.offset + i - 1>>]]

(* Translate: the libraries' classes that are called, then the program's.   *)
Translate(link, plans) ==
  LET env == link.env
      taken == SelectSeq(link.linked, LAMBDA c : ~env.lib /\ c.name \in link.reached)
  IN  [lib |-> env.lib, string |-> IF env.lib THEN -1 ELSE StringId(link), texts |-> link.texts,
       start |-> IF env.lib THEN <<-1, -1>> ELSE <<ClassId(link, "Main"), MethodId(link, "Main", "Main:o*,")>>,
       enums |-> (IF env.lib THEN <<>> ELSE FlattenSeq([l \in DOMAIN link.libs |-> link.libs[l].enums]))
                 \o [i \in DOMAIN env.enums |-> EmitEnum(env.enums[i])],
       classes |-> [i \in DOMAIN taken |-> EmitLibraryClass(link, taken[i])]
                   \o [k \in DOMAIN env.prog |-> EmitProgramClass(link, env.prog[k], plans[k])]]

-----------------------------------------------------------------------------
(* The file. *)
WriteInt(n) == <<"int", n>>
WriteString(s) == <<"str", s>>
Written(kinds, values) == [i \in DOMAIN kinds |-> <<kinds[i], values[i]>>]
WriteList(s, Item(_)) == <<WriteInt(Len(s))>> \o FlattenSeq([i \in DOMAIN s |-> Item(s[i])])

Operands(type) ==
  CASE type \in WithInt -> <<"int">>
    [] type = "LOAD_CHAR_LIT" -> <<"char">>
    [] type = "LOAD_FLOAT_LIT" -> <<"double">>
    [] type \in Calls -> <<"int", "int", "int">>
    [] type \in {"LIB_NEW_OBJ_INST", "LIB_OBJ_INST_CAST"} -> <<"str">>
    [] type = "LIB_MTHD_CALL" -> <<"int", "str", "str">>
    [] type = "LIB_FUNC_DEF" -> <<"str", "str">>
    [] type \in Variables \cup Elements \cup {"COPY_FUNC_VAR", "JMP", "DYN_MTHD_CALL"} -> <<"int", "int">>
    [] OTHER -> <<>>

Line1 == 1    \* a line of the source, of no meaning here
WriteInstruction(instr, debug) ==
  <<<<"byte", instr[1]>>>> \o (IF debug THEN <<WriteInt(Line1)>> ELSE <<>>)
  \o Written(Operands(instr[1]), Tail(instr))

WriteEntries(types, debug) ==
  LET Plainly(t) == <<WriteInt(t)>>
      Named(t) == <<WriteInt(t), WriteString("v")>>
  IN  IF debug THEN WriteList(types, Named) ELSE WriteList(types, Plainly)

INT_PARM == -1499
WriteMethod(m, debug) ==
  <<WriteInt(m.id), WriteInt(0), WriteInt(m.virt), WriteInt(FALSE), WriteInt(m.native), WriteInt(m.static),
    WriteString(m.name), WriteString("n"), WriteInt(m.params), WriteInt(m.params)>>
  \o WriteEntries([i \in 1 .. m.params |-> INT_PARM], debug)
  \o FlattenSeq([i \in DOMAIN m.instrs |-> WriteInstruction(m.instrs[i], debug)])
  \o <<<<"byte", END_STMTS>>>>

WriteClass(c) ==
  LET Id(n) == <<WriteInt(n)>>
      Name(n) == <<WriteString(n)>>
      Mthd(m) == WriteMethod(m, c.debug)
  IN  <<WriteInt(c.id), WriteString(c.name), WriteInt(c.pid), WriteString(c.parent)>>
      \o WriteList(c.infIds, Id) \o WriteList(c.infs, Name)
      \o <<WriteInt(c.isInf), WriteInt(c.virt), WriteInt(c.debug)>>
      \o (IF c.debug THEN <<WriteString("file")>> ELSE <<>>)
      \o <<WriteInt(0), WriteInt(Len(c.fields))>>
      \o WriteEntries(<<>>, c.debug) \o WriteEntries(c.fields, c.debug)
      \o WriteList(c.mthds, Mthd)

WriteEnum(e) ==
  LET Item(i) == <<WriteString(i[1]), WriteInt(i[2])>>
  IN  <<WriteString(e.name), WriteInt(e.offset)>> \o WriteList(e.items, Item)

WriteNumbers(kind, numbers) == LET Number(n) == <<<<kind, n>>>> IN WriteList(numbers, Number)

WriteProgram(unit) ==
  LET Floats(t) == WriteNumbers("double", t)
      Ints(t) == WriteNumbers("int", t)
      Chars(t) == <<WriteString(t)>>
  IN  <<WriteInt(VER_NUM), WriteInt(IF unit.lib THEN MAGIC_NUM_LIB ELSE MAGIC_NUM_EXE)>>
      \o (IF unit.lib THEN <<>> ELSE <<WriteInt(unit.string)>>)
      \o WriteList(unit.texts.float, Floats) \o WriteList(unit.texts.int, Ints) \o WriteList(unit.texts.char, Chars)
      \o (IF unit.lib THEN <<WriteInt(1), WriteString("Bundle")>> ELSE <<WriteInt(unit.start[1]), WriteInt(unit.start[2])>>)
      \o WriteList(unit.enums, WriteEnum) \o WriteList(unit.classes, WriteClass)
=============================================================================
