------------------------------- MODULE Linker -------------------------------
(***************************************************************************)
(* Libraries: how the compiler reads the files of those a unit links, which *)
(* of their classes an executable takes along, the ids these get, and how   *)
(* names of classes, methods and texts become ids (src/compiler/linker.cpp, *)
(* linker.h, and the parts of intermediate.cpp that go over the libraries). *)
(*                                                                         *)
(* A file is a sequence of <<kind, value>>: an int, a str (the name of a    *)
(* method is the one of its class with its signature), a byte, a char or a  *)
(* double.  What is read as another kind than it was written as is of no    *)
(* use to anyone: Astray.                                                   *)
(*                                                                         *)
(* An instruction is <<name, operands ...>>.                                *)
(***************************************************************************)
EXTENDS Classes

VER_NUM == 3260
MAGIC_NUM_LIB == 56798
MAGIC_NUM_EXE == 56797
END_STMTS == "END_STMTS"
TextKinds == <<"float", "int", "char">>

Astray(kind) == IF kind \in {"str", "byte"} THEN END_STMTS ELSE -9

(* A reader at place p of a file gives what it read, of, and the place      *)
(* after it, at.                                                           *)
Read(file, p, kind) == IF p \in DOMAIN file /\ file[p][1] = kind THEN file[p][2] ELSE Astray(kind)
ReadAll(file, p, kinds) ==
  [of |-> [i \in DOMAIN kinds |-> Read(file, p + i - 1, kinds[i])], at |-> p + Len(kinds)]

(* n items, each read by Item(file, place). *)
Many(file, p, n, Item(_, _)) ==
  FoldLeft(LAMBDA done, i : LET next == Item(file, done.at) IN [of |-> Append(done.of, next.of), at |-> next.at],
           [of |-> <<>>, at |-> p], [i \in 1 .. n |-> i])
Counted(file, p, Item(_, _)) == Many(file, p + 1, Read(file, p, "int"), Item)

ReadInt(file, p) == ReadAll(file, p, <<"int">>)
ReadString(file, p) == ReadAll(file, p, <<"str">>)
ReadDouble(file, p) == ReadAll(file, p, <<"double">>)

(* The types of fields or parameters, with their names in debug files. *)
EntryKinds(debug) == IF debug THEN <<"int", "str">> ELSE <<"int">>
LoadEntry(file, p) == ReadInt(file, p)
LoadDebugEntry(file, p) == ReadAll(file, p, EntryKinds(TRUE))
LoadEntries(file, p, debug) ==
  LET read == IF debug THEN Counted(file, p, LoadDebugEntry) ELSE Counted(file, p, LoadEntry)
  IN  [of |-> [i \in DOMAIN read.of |-> read.of[i][1]], at |-> read.at]

LoadItem(file, p) == ReadAll(file, p, <<"str", "int">>)
LoadEnum(file, p) ==
  LET head == ReadAll(file, p, <<"str", "int">>)
      items == Counted(file, head.at, LoadItem)
  IN  [of |-> [name |-> head.of[1], offset |-> head.of[2], items |-> items.of], at |-> items.at]

-----------------------------------------------------------------------------
(* Instructions without operands, and those with the same ones. *)
Plain == {"SHL_INT", "SHR_INT", "RTRN", "SWAP_INT", "POP_INT", "POP_FLOAT", "AND_INT", "OR_INT",
  "ADD_INT", "SUB_INT", "MUL_INT", "DIV_INT", "MOD_INT", "BIT_AND_INT", "BIT_OR_INT", "BIT_XOR_INT",
  "EQL_INT", "NEQL_INT", "LES_INT", "GTR_INT", "LES_EQL_INT", "GTR_EQL_INT",
  "ADD_FLOAT", "SUB_FLOAT", "MUL_FLOAT", "DIV_FLOAT", "EQL_FLOAT", "NEQL_FLOAT", "LES_FLOAT", "GTR_FLOAT",
  "LES_EQL_FLOAT", "GTR_EQL_FLOAT", "FLOR_FLOAT", "CEIL_FLOAT", "SIN_FLOAT", "COS_FLOAT", "TAN_FLOAT",
  "ASIN_FLOAT", "ACOS_FLOAT", "ATAN_FLOAT", "LOG_FLOAT", "POW_FLOAT", "SQRT_FLOAT", "RAND_FLOAT", "F2I", "I2F",
  "CPY_BYTE_ARY", "CPY_CHAR_ARY", "CPY_INT_ARY", "CPY_FLOAT_ARY", "LOAD_ARY_SIZE", "LOAD_CLS_MEM", "LOAD_INST_MEM",
  "DLL_LOAD", "DLL_UNLOAD", "DLL_FUNC_CALL", "THREAD_JOIN", "THREAD_SLEEP", "THREAD_MUTEX",
  "CRITICAL_START", "CRITICAL_END"}
WithInt == {"LOAD_INT_LIT", "NEW_FLOAT_ARY", "NEW_INT_ARY", "NEW_BYTE_ARY", "NEW_CHAR_ARY", "NEW_OBJ_INST",
  "OBJ_INST_CAST", "OBJ_TYPE_OF", "TRAP", "TRAP_RTRN", "LBL"}
Variables == {"LOAD_INT_VAR", "LOAD_FLOAT_VAR", "LOAD_FUNC_VAR", "STOR_INT_VAR", "STOR_FLOAT_VAR", "STOR_FUNC_VAR",
  "COPY_INT_VAR", "COPY_FLOAT_VAR"}
Elements == {"LOAD_BYTE_ARY_ELM", "LOAD_CHAR_ARY_ELM", "LOAD_INT_ARY_ELM", "LOAD_FLOAT_ARY_ELM",
  "STOR_BYTE_ARY_ELM", "STOR_CHAR_ARY_ELM", "STOR_INT_ARY_ELM", "STOR_FLOAT_ARY_ELM"}
Calls == {"MTHD_CALL", "ASYNC_MTHD_CALL"}

(* What follows the instruction in a library's file; it ends the compiler   *)
(* to meet another one, COPY_FUNC_VAR among them.                           *)
LibraryOperands(type) ==
  CASE type \in Plain -> <<>>
    [] type \in WithInt -> <<"int">>
    [] type = "LOAD_CHAR_LIT" -> <<"char">>
    [] type = "LOAD_FLOAT_LIT" -> <<"double">>
    [] type \in Calls -> <<"int", "int", "int">>
    [] type \in Variables \cup Elements \cup {"JMP", "DYN_MTHD_CALL"} -> <<"int", "int">>
    [] type \in {"LIB_NEW_OBJ_INST", "LIB_OBJ_INST_CAST"} -> <<"str">>
    [] type = "LIB_MTHD_CALL" -> <<"int", "str", "str">>
    [] type = "LIB_FUNC_DEF" -> <<"str", "str">>
    [] OTHER -> <<>>

(* A function reference makes room for the id of its class. *)
LibraryInstrs(type, operands) ==
  IF type = "LIB_FUNC_DEF" THEN <<<<type>> \o operands, <<"LOAD_INT_LIT", -1>>>> ELSE <<<<type>> \o operands>>

RECURSIVE LoadLibraryStatements(_, _, _, _)
LoadLibraryStatements(file, p, debug, done) ==
  LET type == Read(file, p, "byte")
      start == p + (IF debug THEN 2 ELSE 1)
      read == ReadAll(file, start, LibraryOperands(type))
  IN  IF type = END_STMTS THEN [of |-> done, at |-> p + 1]
      ELSE LoadLibraryStatements(file, read.at, debug, done \o LibraryInstrs(type, read.of))

(* The copies of texts in a method: where their number is loaded. *)
StringInstructions(instrs, kind) ==
  { i \in DOMAIN instrs : i + 2 \in DOMAIN instrs /\ instrs[i + 2][1] = "TRAP_RTRN"
                          /\ instrs[i + 1] = <<"LOAD_INT_LIT", CopyTrap(kind)>> }

LoadLibraryMethod(file, p, debug) ==
  LET head == ReadAll(file, p, <<"int", "int", "int", "int", "int", "int", "str", "str", "int", "int">>)
      entries == LoadEntries(file, head.at, debug)
      body == LoadLibraryStatements(file, entries.at, debug, <<>>)
  IN  [of |-> [id |-> head.of[1], virt |-> head.of[3], native |-> head.of[5], static |-> head.of[6],
               sig |-> head.of[7][2], params |-> head.of[9], instrs |-> body.of], at |-> body.at]

LoadPlainMethod(file, p) == LoadLibraryMethod(file, p, FALSE)
LoadDebugMethod(file, p) == LoadLibraryMethod(file, p, TRUE)

(* Ids in the file are of no use: names are kept. *)
LoadLibraryClass(file, p) ==
  LET head == ReadAll(file, p, <<"int", "str", "int", "str">>)
      ids == Counted(file, head.at, ReadInt)
      names == Counted(file, ids.at, ReadString)
      flags == ReadAll(file, names.at, <<"int", "int", "int">>)
      debug == flags.of[3] = TRUE
      spaces == ReadAll(file, flags.at, IF debug THEN <<"str", "int", "int">> ELSE <<"int", "int">>)
      shared == LoadEntries(file, spaces.at, debug)
      fields == LoadEntries(file, shared.at, debug)
      mthds == IF debug THEN Counted(file, fields.at, LoadDebugMethod) ELSE Counted(file, fields.at, LoadPlainMethod)
  IN  [of |-> [name |-> head.of[2], parent |-> head.of[4], infs |-> [i \in DOMAIN names.of |-> names.of[i][1]],
               isInf |-> flags.of[1], virt |-> flags.of[2], debug |-> debug, fields |-> fields.of, mthds |-> mthds.of],
       at |-> mthds.at]

LoadIntText(file, p) == LET read == Counted(file, p, ReadInt) IN [of |-> FlattenSeq(read.of), at |-> read.at]
LoadFloatText(file, p) == LET read == Counted(file, p, ReadDouble) IN [of |-> FlattenSeq(read.of), at |-> read.at]
LoadCharText(file, p) == LET read == ReadString(file, p) IN [of |-> read.of[1], at |-> read.at]

NoLibrary == [texts |-> <<>>, enums |-> <<>>, classes |-> <<>>]
LoadFile(file) ==
  IF Read(file, 1, "int") # VER_NUM \/ Read(file, 2, "int") # MAGIC_NUM_LIB THEN NoLibrary
  ELSE LET floats == Counted(file, 3, LoadFloatText)
           ints == Counted(file, floats.at, LoadIntText)
           chars == Counted(file, ints.at, LoadCharText)
           bundles == Counted(file, chars.at, ReadString)
           enums == Counted(file, bundles.at, LoadEnum)
           classes == Counted(file, enums.at, LoadLibraryClass)
       IN  [texts |-> [float |-> floats.of, int |-> ints.of, char |-> chars.of], enums |-> enums.of, classes |-> classes.of]

-----------------------------------------------------------------------------
(* Linking.  libs are the libraries read, in the order of their paths;      *)
(* linked is the sequence of all their classes, each with its library.      *)
GetAllClasses(libs) ==
  FlattenSeq([l \in DOMAIN libs |->
    [i \in DOMAIN libs[l].classes |-> [lib |-> l] @@ libs[l].classes[i]]])

LibraryClass(linked, n) == FirstOf(linked, LAMBDA c : c.name = n, NoClass)

(* The classes named by the instructions of a class's methods, but for the  *)
(* references to functions.                                                *)
NamedIn(c) ==
  UNION { { m.instrs[i][IF m.instrs[i][1] = "LIB_MTHD_CALL" THEN 3 ELSE 2] :
            i \in { j \in DOMAIN m.instrs : m.instrs[j][1] \in {"LIB_NEW_OBJ_INST", "LIB_OBJ_INST_CAST", "LIB_MTHD_CALL"} } }
        : m \in ToSet(c.mthds) }

RECURSIVE ResolveExternalClasses(_, _)
ResolveExternalClasses(linked, called) ==
  LET more == UNION { NamedIn(LibraryClass(linked, n)) : n \in called }
  IN  IF more \subseteq called THEN called ELSE ResolveExternalClasses(linked, called \cup more)

(* The ids of the called classes, in order; others have what their memory   *)
(* held.  A library gives ids to all.                                       *)
CallsBefore(linked, called, i) == Cardinality({ j \in 1 .. i - 1 : linked[j].name \in called })
LibraryClassId(linked, called, n, garbage) ==
  IF n \in called THEN CallsBefore(linked, called, SelectInSeq(linked, LAMBDA c : c.name = n)) ELSE garbage
StringClassId(linked, called) ==
  CallsBefore(linked, called, SelectInSeq(linked, LAMBDA c : c.name = String))

LibraryMethodId(linked, n, sig) == GetMethod(LibraryClass(linked, n), sig).id

(* Names become ids; the class of a function reference goes to the          *)
(* instruction after it.                                                    *)
ResolveExternalMethodCalls(linked, ids, instrs) ==
  [i \in DOMAIN instrs |->
    LET instr == instrs[i] IN
    CASE instr[1] = "LIB_NEW_OBJ_INST" -> <<"NEW_OBJ_INST", ids[instr[2]]>>
      [] instr[1] = "LIB_OBJ_INST_CAST" -> <<"OBJ_INST_CAST", ids[instr[2]]>>
      [] instr[1] = "LIB_MTHD_CALL" ->
           <<"MTHD_CALL", ids[instr[3]], LibraryMethodId(linked, instr[3], instr[4][2]), instr[2]>>
      [] instr[1] = "LIB_FUNC_DEF" -> <<"LOAD_INT_LIT", LibraryMethodId(linked, instr[2], instr[3][2])>>
      [] i > 1 /\ instrs[i - 1][1] = "LIB_FUNC_DEF" -> <<"LOAD_INT_LIT", ids[instrs[i - 1][2]]>>
      [] OTHER -> instr]

(* The texts of an executable: its own, then those of its libraries it does *)
(* not have yet.                                                           *)
MergeStrings(texts, libs, kind) ==
  FoldLeft(AddString, texts, FoldLeft(AddString, <<>>, FlattenSeq([l \in DOMAIN libs |-> libs[l].texts[kind]])))

TextId(texts, value) == SelectInSeq(texts, LAMBDA t : t = value) - 1

(* Fault: an executable takes the copies of numbers as they are. *)
FaultEmitStrings(instrs, old, texts) ==
  [i \in DOMAIN instrs |->
    IF i \in StringInstructions(instrs, "char")
    THEN <<"LOAD_INT_LIT", TextId(texts.char, old.char[instrs[i][2] + 1])>>
    ELSE instrs[i]]

(* A library's copies of texts get the numbers these have now. *)
EmitStrings(instrs, old, texts) ==
  [i \in DOMAIN instrs |->
    IF \E kind \in ToSet(TextKinds) : i \in StringInstructions(instrs, kind)
    THEN LET kind == CHOOSE t \in ToSet(TextKinds) : i \in StringInstructions(instrs, t)
         IN  <<"LOAD_INT_LIT", TextId(texts[kind], old[kind][instrs[i][2] + 1])>>
    ELSE instrs[i]]
=============================================================================
