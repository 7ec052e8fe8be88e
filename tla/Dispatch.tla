------------------------------ MODULE Dispatch ------------------------------
(***************************************************************************)
(* A program from its classes to its calls: libraries and the program are   *)
(* compiled one after the other, each to a file that the next ones read,    *)
(* the virtual machine loads the program, and its threads call methods      *)
(* through a cache they share (src/compiler, src/vm/loader.cpp,             *)
(* src/vm/interpreter.cpp, src/vm/common.h).                               *)
(*                                                                         *)
(* A world is [libs, prog, statements, arguments, garbage]: the units of    *)
(* the libraries, in the order of their paths, the first lang.obs; the one  *)
(* of the program; statements for Main, each of which becomes a function if *)
(* the analyzer accepts it; the arguments the program is run with; and what *)
(* ids hold that were never set.                                           *)
(***************************************************************************)
EXTENDS Loader, VirtualCalls

CONSTANTS
  Worlds       \* the worlds compiled

VARIABLES
  world,
  stage,       \* what comes next
  libs,        \* the libraries read so far
  env,         \* the unit as the parser leaves it, and what it is compiled in
  plans,       \* what the analyzer made of it
  link,        \* how it is linked
  imm,         \* the unit's intermediate classes
  file,        \* the unit's file
  meant        \* the plans of the units so far

unitVars == <<env, plans, link, imm, file>>
compilerVars == <<libs, unitVars, meant>>
vars == <<world, stage, compilerVars, callVars>>

unit == Len(libs) + 1
compiling == IF unit > Len(world.libs) THEN world.prog ELSE world.libs[unit]

(* What a unit is compiled in, with the classes given. *)
EnvOf(classes) ==
  [prog |-> [i \in DOMAIN classes |-> ParseClass([system |-> unit = 1], classes[i])], linked |-> GetAllClasses(libs),
   enums |-> compiling.enums, debug |-> compiling.debug, system |-> unit = 1, lib |-> unit <= Len(world.libs)]

FunctionName(i) == "f" \o ToString(i) \o ":"

(* Main has a function for each statement the analyzer accepts. *)
Function(i, op) == [sig |-> FunctionName(i), virt |-> FALSE, static |-> TRUE, native |-> FALSE, params |-> 0, body |-> <<op>>]
MainMethod == [sig |-> "Main:o*,", virt |-> FALSE, static |-> TRUE, native |-> FALSE, params |-> 1, body |-> <<>>]
MainClass(statements) ==
  [name |-> "Main", parent |-> "", infs |-> <<>>, isInf |-> FALSE, fields |-> <<>>,
   mthds |-> <<MainMethod>> \o [i \in DOMAIN statements |-> Function(i, statements[i])]]

Statements(within) ==
  SelectSeq(world.statements, LAMBDA op : AnalyzeStatement(within, ParseClass(within, MainClass(<<>>)), op))

-----------------------------------------------------------------------------
(* The compiler, once for each unit. *)
ParseUnit ==
  /\ stage = "parse"
  /\ env' = IF unit <= Len(world.libs) THEN EnvOf(compiling.classes)
            ELSE EnvOf(Append(compiling.classes, MainClass(Statements(EnvOf(compiling.classes)))))
  /\ stage' = "analyze"
  /\ UNCHANGED <<world, libs, plans, link, imm, file, meant, callVars>>

(* A unit with an error goes no further, nor do those that need it. *)
AnalyzeUnit ==
  /\ stage = "analyze"
  /\ plans' = IF AcceptedUnit(env) THEN Analyze(env) ELSE <<>>
  /\ stage' = IF AcceptedUnit(env) THEN "link" ELSE "rejected"
  /\ UNCHANGED <<world, libs, env, link, imm, file, meant, callVars>>

LinkUnit ==
  /\ stage = "link"
  /\ link' = Linkage(env, plans, libs, world.garbage) /\ stage' = "translate"
  /\ UNCHANGED <<world, libs, env, plans, imm, file, meant, callVars>>

TranslateUnit ==
  /\ stage = "translate"
  /\ imm' = Translate(link, plans)
  /\ meant' = Append(meant, [classes |-> env.prog, plans |-> plans])
  /\ stage' = "write" /\ link' = <<>>
  /\ UNCHANGED <<world, libs, env, plans, file, callVars>>

EmitUnit ==
  /\ stage = "write"
  /\ file' = WriteProgram(imm) /\ stage' = "read" /\ imm' = <<>>
  /\ UNCHANGED <<world, libs, env, plans, link, meant, callVars>>

ReadLibrary ==
  /\ stage = "read" /\ unit <= Len(world.libs)
  /\ libs' = Append(libs, LoadFile(file)) /\ stage' = "parse" /\ file' = <<>>
  /\ UNCHANGED <<world, env, plans, link, imm, meant, callVars>>

LoadProgram ==
  /\ stage = "read" /\ unit > Len(world.libs)
  /\ image' = Load(file, world.arguments) /\ stage' = "loaded" /\ file' = <<>>
  /\ UNCHANGED <<world, libs, env, plans, link, imm, meant, virtual_cache, threads>>

(* The program runs: the compiler's data is gone. *)
Start ==
  /\ stage = "loaded"
  /\ stage' = "run" /\ libs' = <<>> /\ meant' = <<>> /\ env' = <<>> /\ plans' = <<>>
  /\ UNCHANGED <<world, link, imm, file, callVars>>

-----------------------------------------------------------------------------
(* The calls a program makes on objects it has made: the object's class and *)
(* the method the instruction names.  A cast that is not valid ends the     *)
(* program before the call.                                                *)
ObjectMade(m) == SelectSeq(m.instrs, LAMBDA i : i[1] = "NEW_OBJ_INST")[1][2]
MainFunctions == LET main == image.classes[image.start[1]].mthds IN { main[m] : m \in DOMAIN main }
CastsOf(f, type) == { f.instrs[i][2] : i \in { j \in DOMAIN f.instrs : f.instrs[j][1] = type } }
Completes(f) == \A to \in CastsOf(f, "OBJ_INST_CAST") : ValidObjectCast(image, ObjectMade(f), to)
CallsMade(m) == SelectSeq(m.instrs, LAMBDA i : i[1] = "MTHD_CALL")
CallSites ==
  { <<ObjectMade(m), <<CallsMade(m)[2][2], CallsMade(m)[2][3]>>>> :
    m \in { f \in MainFunctions : Len(CallsMade(f)) = 2 /\ Completes(f) } }

Call(t) ==
  /\ stage = "run"
  /\ \/ \E site \in CallSites : ProcessMethodCall(t, site)
     \/ GetVirtualEntry(t) \/ ClimbToImplementation(t) \/ AddVirtualEntry(t) \/ Return(t)
  /\ UNCHANGED <<world, stage, compilerVars>>

Init ==
  /\ world \in Worlds
  /\ stage = "parse" /\ libs = <<>> /\ env = <<>> /\ plans = <<>> /\ link = <<>> /\ imm = <<>> /\ file = <<>> /\ meant = <<>>
  /\ image = NoImage /\ virtual_cache = <<>>
  /\ threads = [t \in Threads |-> Idle(CallBound[t])]

Next ==
  \/ ParseUnit \/ AnalyzeUnit \/ LinkUnit \/ TranslateUnit \/ EmitUnit \/ ReadLibrary \/ LoadProgram \/ Start
  \/ \E t \in Threads : Call(t)

Spec == Init /\ [][Next]_vars

-----------------------------------------------------------------------------
(* The language: classes of the world, whatever unit they are in. *)
SourceClasses == UNION { ToSet(u.classes) : u \in ToSet(Append(world.libs, world.prog)) }
Source(n) == CHOOSE c \in SourceClasses : c.name = n
SourceParent(n) == IF n = Base THEN "" ELSE IF Source(n).parent = "" THEN Base ELSE Source(n).parent

RECURSIVE Ancestors(_)
Ancestors(n) == IF n = "" THEN <<>> ELSE <<n>> \o Ancestors(SourceParent(n))

Subtype(n, of) ==
  of \in ToSet(Ancestors(n)) \/ \E a \in ToSet(Ancestors(n)) : of \in ToSet(Source(a).infs)

SourceMethod(n, sig) == { m \in ToSet(Source(n).mthds) : m.sig = sig }
IsVirtual(n, sig) == Source(n).isInf \/ \E m \in SourceMethod(n, sig) : m.virt
Binding(object, n, sig) ==
  IF ~IsVirtual(n, sig) THEN n
  ELSE SelectSeq(Ancestors(object), LAMBDA a : SourceMethod(a, sig) # {} /\ ~IsVirtual(a, sig))[1]

(* What an instruction of the loaded program refers to is what the item of  *)
(* the plan it came from names.                                            *)
NameOf(id) == GetClass(image, id).name
EnumItem(enum, item) ==
  LET e == CHOOSE x \in UNION { ToSet(u.enums) : u \in ToSet(Append(world.libs, world.prog)) } : x.name = enum
  IN  e.offset + SelectInSeq(e.items, LAMBDA i : i = item) - 1

RefersTo(item, instr) ==
  CASE item[1] = "new" -> instr[1] = "NEW_OBJ_INST" /\ NameOf(instr[2]) = item[2]
    [] item[1] = "call" -> instr[1] = "MTHD_CALL" /\ GetClass(image, instr[2]).name = item[2]
                           /\ instr[3] \in DOMAIN GetClass(image, instr[2]).mthds
                           /\ MethodAt(image, instr[2], instr[3]).name = <<item[2], item[3]>>
                           /\ instr[4] = item[4]
    [] item[1] = "cast" -> instr[1] = "OBJ_INST_CAST" /\ NameOf(instr[2]) = item[2]
    [] item[1] = "type" -> instr[1] = "OBJ_TYPE_OF" /\ NameOf(instr[2]) = item[2]
    [] item[1] = "class" -> instr[1] = "LOAD_INT_LIT" /\ NameOf(instr[2]) = item[2]
    [] item[1] = "method" -> instr[1] = "LOAD_INT_LIT" /\ \E id \in DOMAIN image.classes :
         NameOf(id) = item[2] /\ instr[2] \in DOMAIN image.classes[id].mthds
         /\ MethodAt(image, id, instr[2]).name = <<item[2], item[3]>>
    [] item[1] = "text" -> instr[1] = "LOAD_INT_LIT" /\ instr[2] + 1 \in DOMAIN image.texts[item[2]]
                           /\ image.texts[item[2]][instr[2] + 1] = item[3]
    [] item[1] = "item" -> instr = <<"LOAD_INT_LIT", EnumItem(item[2], item[3])>>
    [] item[1] = "string" -> instr[1] = "NEW_OBJ_INST" /\ NameOf(instr[2]) = String
    [] item[1] = "string_new" -> instr[1] = "MTHD_CALL" /\ NameOf(instr[2]) = String
                                 /\ MethodAt(image, instr[2], instr[3]).name = <<String, item[2]>>
    [] OTHER -> instr = IF item[1] \in {"LOAD_INT_VAR", "STOR_INT_VAR", "COPY_INT_VAR"}
                        THEN LoadInstr(item[1], Tail(item)) ELSE item

MethodKept(u, k, m) ==
  \A id \in DOMAIN image.classes : NameOf(id) = u.classes[k].name =>
    \E n \in DOMAIN image.classes[id].mthds :
      LET loaded == MethodAt(image, id, n) IN
      /\ loaded.name = <<u.classes[k].name, u.classes[k].mthds[m].sig>>
      /\ Len(loaded.instrs) = Len(u.plans[k][m])
      /\ \A i \in DOMAIN loaded.instrs : RefersTo(u.plans[k][m][i], loaded.instrs[i])

InitializationKept ==
  LET code == LoadInitializationCode(image, world.arguments)
  IN  \A i \in DOMAIN world.arguments :
        /\ \E j \in StringInstructions(code, "char") : image.texts.char[code[j][2] + 1] = world.arguments[i]
        /\ NameOf(image.string) = String /\ MethodAt(image, image.string, 2).name = <<String, "New:c*,">>

(* However classes, methods, texts and items were numbered on the way       *)
(* through the library files, the linker and the program's file, every      *)
(* instruction of the loaded program refers to what its source names, every *)
(* class of the program knows its parent and interfaces, and so does the    *)
(* code that starts Main (linker.cpp ResolveExternalMethodCalls,            *)
(* intermediate.cpp EmitStrings, loader.cpp LoadClasses).                   *)
ReferencesKept ==
  stage = "loaded" =>
    /\ \A u \in ToSet(meant) : \A k \in DOMAIN u.classes : \A m \in DOMAIN u.plans[k] : MethodKept(u, k, m)
    /\ \A k \in DOMAIN Last(meant).classes : \E id \in DOMAIN image.classes : NameOf(id) = Last(meant).classes[k].name
    /\ \A c \in ToSet(world.prog.classes) : \E id \in DOMAIN image.classes :
         /\ NameOf(id) = c.name
         /\ NameOf(image.classes[id].pid) = SourceParent(c.name)
         /\ { NameOf(n) : n \in ToSet(image.classes[id].infs) } = ToSet(c.infs)
    /\ MethodAt(image, image.start[1], image.start[2]).name = <<"Main", "Main:o*,">>
    /\ InitializationKept

(* Casts.  A function of Main that narrows its variable runs to its end     *)
(* exactly when its object is of the types it is given to, and TypeOf says  *)
(* whether it is; a conversion the analyzer refuses is one no object could  *)
(* have passed (context.cpp AnalyzeClassCast, memory.cpp ValidObjectCast).  *)
FunctionOf(i) == CHOOSE f \in MainFunctions : f.name = <<"Main", FunctionName(i)>>
Answer(f) == \A to \in CastsOf(f, "OBJ_TYPE_OF") : ValidObjectCast(image, ObjectMade(f), to)
NoCommonObject(d, e) == \A c \in SourceClasses : c.isInf \/ ~(Subtype(c.name, d) /\ Subtype(c.name, e))

CastAgrees(i, op) ==
  LET f == FunctionOf(i)
      object == NameOf(ObjectMade(f))
  IN  /\ op[1] \in {"make", "call"} => (Completes(f) <=> Subtype(object, op[2]))
      /\ op[1] \in {"narrow", "as"} => (Completes(f) <=> Subtype(object, op[2]) /\ Subtype(object, op[4]))
      /\ op[1] = "typeof" => (Answer(f) <=> Subtype(object, op[4]))

CastsAgree ==
  stage = "loaded" =>
    LET accepted == [i \in 1 .. Len(Last(env.prog).mthds) - 1 |-> Last(env.prog).mthds[i + 1].body[1]]
    IN  /\ \A i \in DOMAIN accepted : accepted[i][1] \in {"make", "call", "narrow", "as", "typeof"} => CastAgrees(i, accepted[i])
        /\ \A op \in ToSet(world.statements) \ ToSet(accepted) :
             op[1] = "narrow" /\ <<"make", op[2], op[3]>> \in ToSet(accepted) => NoCommonObject(op[2], op[4])

(* What VirtualCalls takes for granted holds of every program the compiler  *)
(* accepts and the loader loads: no two classes share an id or a name, and  *)
(* above every object a virtual method is called on, the first class that   *)
(* has the method has it written out.  That class is the one whose method   *)
(* the source means (context.cpp AnalyzeVirtualMethods, linker.cpp,         *)
(* loader.cpp LoadClasses).  That calls reach it is BoundToNearest.         *)
CallsBind ==
  stage = "loaded" =>
    /\ ClassesNamed(image)
    /\ \A site \in CallSites :
         LET called == MethodAt(image, site[2][1], site[2][2]).name
             bound == IF VirtualMethod(image, site[2]) THEN Nearest(image, site[1], called[2]) ELSE site[2][1]
         IN  Legal(image, site) /\ NameOf(bound) = Binding(NameOf(site[1]), called[1], called[2])
=============================================================================
