------------------------------- MODULE Loader -------------------------------
(***************************************************************************)
(* The virtual machine reads a program (src/vm/loader.cpp): tables indexed  *)
(* by the ids in the file, of which it believes every one, and instructions *)
(* that say whether an integer variable is local.                           *)
(*                                                                         *)
(* An image is [string, texts, start, classes, arguments]; classes is a     *)
(* function from ids to [name, pid, infs, virt, fields, mthds], mthds one   *)
(* from ids to [name, virt, params, instrs].                                *)
(***************************************************************************)
EXTENDS Target

NoImage == [string |-> -1, texts |-> <<>>, start |-> <<-1, -1>>, classes |-> <<>>, arguments |-> <<>>]

(* What follows an instruction in a program's file.  The loader stops at    *)
(* one it does not know: those of libraries, and COPY_FUNC_VAR.             *)
LoadOperands(type) ==
  CASE type \in Plain -> <<>>
    [] type \in WithInt -> <<"int">>
    [] type = "LOAD_CHAR_LIT" -> <<"char">>
    [] type = "LOAD_FLOAT_LIT" -> <<"double">>
    [] type \in Calls -> <<"int", "int", "int">>
    [] type \in Variables \cup Elements \cup {"JMP", "DYN_MTHD_CALL"} -> <<"int", "int">>
    [] OTHER -> <<>>

Local == [LOAD_INT_VAR |-> "LOAD_LOCL_INT_VAR", STOR_INT_VAR |-> "STOR_LOCL_INT_VAR", COPY_INT_VAR |-> "COPY_LOCL_INT_VAR"]
Member == [LOAD_INT_VAR |-> "LOAD_CLS_INST_INT_VAR", STOR_INT_VAR |-> "STOR_CLS_INST_INT_VAR", COPY_INT_VAR |-> "COPY_CLS_INST_INT_VAR"]
LoadInstr(type, operands) ==
  <<IF type \notin DOMAIN Local THEN type ELSE IF operands[2] = LOCL THEN Local[type] ELSE Member[type]>> \o operands

RECURSIVE LoadStatements(_, _, _, _)
LoadStatements(file, p, debug, done) ==
  LET type == Read(file, p, "byte")
      read == ReadAll(file, p + (IF debug THEN 2 ELSE 1), LoadOperands(type))
  IN  IF type = END_STMTS THEN [of |-> done, at |-> p + 1]
      ELSE LoadStatements(file, read.at, debug, Append(done, LoadInstr(type, read.of)))

(* Labels are places to jump to: AddLabel. *)
Labels(instrs) == { <<instrs[i][2], i - 1>> : i \in { j \in DOMAIN instrs : instrs[j][1] = "LBL" } }

LoadMethod(file, p, debug) ==
  LET head == ReadAll(file, p, <<"int", "int", "int", "int", "int", "int", "str", "str", "int", "int">>)
      dclrs == LoadEntries(file, head.at, debug)
      body == LoadStatements(file, dclrs.at, debug, <<>>)
  IN  [of |-> [id |-> head.of[1], name |-> head.of[7], virt |-> head.of[3], params |-> head.of[9],
               instrs |-> body.of, labels |-> Labels(body.of)], at |-> body.at]

LoadMethodPlainly(file, p) == LoadMethod(file, p, FALSE)
LoadMethodDebug(file, p) == LoadMethod(file, p, TRUE)

(* Items by their ids. *)
Indexed(items) == [n \in { items[i].id : i \in DOMAIN items } |-> Last(SelectSeq(items, LAMBDA i : i.id = n))]

LoadClass(file, p) ==
  LET head == ReadAll(file, p, <<"int", "str", "int", "str">>)
      infs == Counted(file, head.at, ReadInt)
      names == Counted(file, infs.at, ReadString)
      flags == ReadAll(file, names.at, <<"int", "int", "int">>)
      debug == flags.of[3] = TRUE
      spaces == ReadAll(file, flags.at, IF debug THEN <<"str", "int", "int">> ELSE <<"int", "int">>)
      shared == LoadEntries(file, spaces.at, debug)
      fields == LoadEntries(file, shared.at, debug)
      mthds == IF debug THEN Counted(file, fields.at, LoadMethodDebug) ELSE Counted(file, fields.at, LoadMethodPlainly)
  IN  [of |-> [id |-> head.of[1], name |-> head.of[2], pid |-> head.of[3],
               infs |-> [i \in DOMAIN infs.of |-> infs.of[i][1]], virt |-> flags.of[2],
               fields |-> fields.of, mthds |-> Indexed(mthds.of)],
       at |-> mthds.at]

(* The method that starts the program: it makes the array of its arguments, *)
(* whose texts come after the program's, and calls Main.                    *)
LoadInitializationCode(image, arguments) ==
  LET first == Len(image.texts.char) - Len(arguments)
      argument(i) ==
        <<<<"LOAD_INT_LIT", Len(arguments[i])>>, <<"NEW_CHAR_ARY", 1>>, <<"LOAD_INT_LIT", first + i - 1>>,
          <<"LOAD_INT_LIT", CopyTrap("char")>>, <<"TRAP_RTRN", 3>>,
          <<"NEW_OBJ_INST", image.string>>, <<"MTHD_CALL", image.string, 2, FALSE>>,
          <<"LOAD_INT_LIT", i - 1>>, <<"LOAD_LOCL_INT_VAR", 0, LOCL>>, <<"STOR_INT_ARY_ELM", 1, LOCL>>>>
  IN  <<<<"LOAD_INT_LIT", Len(arguments)>>, <<"NEW_INT_ARY", 1>>, <<"STOR_LOCL_INT_VAR", 0, LOCL>>>>
      \o FlattenSeq([i \in DOMAIN arguments |-> argument(i)])
      \o <<<<"LOAD_LOCL_INT_VAR", 0, LOCL>>, <<"LOAD_INST_MEM">>,
           <<"MTHD_CALL", image.start[1], image.start[2], FALSE>>, <<"RTRN">>>>

Load(file, arguments) ==
  LET floats == Counted(file, 4, LoadFloatText)
      ints == Counted(file, floats.at, LoadIntText)
      chars == Counted(file, ints.at, LoadCharText)
      start == ReadAll(file, chars.at, <<"int", "int">>)
      enums == Counted(file, start.at, LoadEnum)
      classes == Counted(file, enums.at, LoadClass)
  IN  IF Read(file, 1, "int") # VER_NUM \/ Read(file, 2, "int") # MAGIC_NUM_EXE THEN NoImage
      ELSE [string |-> Read(file, 3, "int"), start |-> start.of, classes |-> Indexed(classes.of),
            texts |-> [float |-> floats.of, int |-> ints.of, char |-> chars.of \o arguments],
            arguments |-> arguments]

-----------------------------------------------------------------------------
(* The tables in use. *)
RECURSIVE Climb(_, _)
Climb(image, id) == IF id = -1 \/ id \notin DOMAIN image.classes THEN {} ELSE {id} \cup Climb(image, image.classes[id].pid)

(* Fault: interfaces of parents are not looked at. *)
FaultValidObjectCast(image, id, to) == to \in Climb(image, id) \/ Contains(image.classes[id].infs, to)

(* MemoryManager::ValidObjectCast: the class and its parents, then their    *)
(* interfaces, of which a negative id is the end.                          *)
ValidObjectCast(image, id, to) ==
  LET line == Climb(image, id)
      interfaces(c) == image.classes[c].infs
  IN  \/ to \in line
      \/ \E c \in line : \E i \in DOMAIN interfaces(c) :
           interfaces(c)[i] = to /\ \A j \in 1 .. i : interfaces(c)[j] > -1
=============================================================================
