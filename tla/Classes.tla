------------------------------ MODULE Classes ------------------------------
(***************************************************************************)
(* Classes as the compiler sees them: parents, interfaces, virtual methods, *)
(* which method a call names and which casts it needs                       *)
(* (src/compiler/context.cpp, context.h, parser.cpp, intermediate.cpp).     *)
(*                                                                         *)
(* A unit is what one run of the compiler reads: [classes, enums, debug].   *)
(* A class is [name, parent, infs, isInf, fields, mthds], a method          *)
(* [sig, virt, static, native, params, body]; sig is its name with the      *)
(* types of its parameters, and its id is its place in mthds, less one.     *)
(* A body is a sequence of the statements Items translates.                 *)
(*                                                                         *)
(* env is what a unit is compiled in: [prog, linked, system, lib], its own  *)
(* classes, those of the libraries it links in the order of their paths,    *)
(* whether it is lang.obs compiled without libraries (_SYSTEM), and         *)
(* whether it becomes a library.                                           *)
(*                                                                         *)
(* Outside the model: overloads that need a choice between conversions,     *)
(* private methods, bundles, anonymous classes, web programs.               *)
(***************************************************************************)
EXTENDS Integers, Sequences, FiniteSets, SequencesExt, TLC

Base == "System.Base"
String == "System.String"
Constructors == {"New:", "New:o,", "New:c*,"}

LOCL == -3498
NIL_TYPE == -1000

NoMethod == [sig |-> "", virt |-> FALSE, static |-> FALSE, native |-> FALSE]
NoClass == [name |-> "", parent |-> "", infs |-> <<>>, isInf |-> FALSE, virt |-> FALSE, mthds |-> <<>>]

(* The first of s that P describes, or none. *)
FirstOf(s, P(_), none) == IF \E i \in DOMAIN s : P(s[i]) THEN SelectSeq(s, P)[1] ELSE none

ParseMethod(m, isInf) == [m EXCEPT !.virt = @ \/ isInf]

(* A class with a virtual method is virtual; a class without a parent has   *)
(* System.Base for one, but for System.Base itself in lang.obs.             *)
ParseClass(env, c) ==
  LET mthds == [i \in DOMAIN c.mthds |-> ParseMethod(c.mthds[i], c.isInf)]
  IN  [name |-> c.name, infs |-> c.infs, isInf |-> c.isInf, fields |-> c.fields, mthds |-> mthds,
       parent |-> IF c.parent = "" /\ ~(env.system /\ c.name = Base) THEN Base ELSE c.parent,
       virt |-> \E m \in ToSet(mthds) : m.virt]

-----------------------------------------------------------------------------
(* Classes by name: the program's first, then the libraries'. *)
SearchProgramClasses(env, n) == FirstOf(env.prog, LAMBDA c : c.name = n, NoClass)
SearchClassLibraries(env, n) == FirstOf(env.linked, LAMBDA c : c.name = n, NoClass)
InProgram(env, n) == SearchProgramClasses(env, n) # NoClass
ClassOf(env, n) == IF InProgram(env, n) THEN SearchProgramClasses(env, n) ELSE SearchClassLibraries(env, n)
Known(env, n) == ClassOf(env, n) # NoClass

(* A class and its ancestors. *)
RECURSIVE Line(_, _)
Line(env, n) == IF Known(env, n) THEN <<ClassOf(env, n)>> \o Line(env, ClassOf(env, n).parent) ELSE <<>>

GetMethod(c, sig) == FirstOf(c.mthds, LAMBDA m : m.sig = sig, NoMethod)
Has(c, sig) == GetMethod(c, sig) # NoMethod

(* The class whose method a call on an object of static type n means. *)
ResolveMethodCall(env, n, sig) == FirstOf(Line(env, n), LAMBDA c : Has(c, sig), NoClass)

(* Where the implementation of a virtual method is looked for: the class,   *)
(* its ancestors in the program, and the first one from a library.          *)
Candidates(env, c) ==
  LET line == Line(env, c.name)
      outside == SelectSeq(line, LAMBDA a : ~InProgram(env, a.name))
  IN  SelectSeq(line, LAMBDA a : InProgram(env, a.name)) \o SubSeq(outside, 1, IF outside = <<>> THEN 0 ELSE 1)

AnalyzeVirtualMethod(impl, virtual) == impl.static = virtual.static /\ ~impl.virt

AnalyzeVirtualMethods(env, c, virtual) ==
  \A m \in ToSet(virtual.mthds) : m.virt =>
    LET impl == FirstOf(Candidates(env, c), LAMBDA a : Has(a, m.sig), NoClass)
    IN  impl # NoClass /\ AnalyzeVirtualMethod(GetMethod(impl, m.sig), m)

AnalyzeInterfaces(env, c) ==
  \A n \in ToSet(c.infs) : ClassOf(env, n).isInf /\ AnalyzeVirtualMethods(env, c, ClassOf(env, n))

AnalyzeClass(env, c) ==
  /\ SearchClassLibraries(env, c.name) = NoClass
  /\ c.parent # "" => Known(env, c.parent) /\ ~ClassOf(env, c.parent).isInf
  /\ AnalyzeInterfaces(env, c)

(* A constructor of a class with a parent of its own calls it first. *)
CallsParent(env, c, m) ==
  /\ m.sig \in Constructors /\ ~c.isInf
  /\ InProgram(env, c.parent) \/ c.parent \notin {"", Base}
  => m.body # <<>> /\ m.body[1] = <<"parent">>

(* Fault: what a virtual parent leaves open is not looked for. *)
FaultAnalyzeMethods(env, c) == \A m \in ToSet(c.mthds) : m.virt \/ CallsParent(env, c, m)

AnalyzeMethods(env, c) ==
  /\ \A m \in ToSet(c.mthds) : m.virt \/ CallsParent(env, c, m)
  /\ ClassOf(env, c.parent).virt => AnalyzeVirtualMethods(env, c, ClassOf(env, c.parent))

-----------------------------------------------------------------------------
(* Casts. *)
Children(env, n) ==
  SelectSeq(env.prog, LAMBDA c : c.parent = n \/ Contains(c.infs, n))
  \o SelectSeq(env.linked, LAMBDA c : c.parent = n /\ c.lib = SearchClassLibraries(env, n).lib)

ValidDownCast(env, to, from) ==
  to = Base \/ \E c \in ToSet(Line(env, from)) : c.name = to \/ Contains(c.infs, to)

RECURSIVE ValidUpCast(_, _, _)
ValidUpCast(env, to, from) ==
  \/ from.name \in {Base, to}
  \/ Contains(from.infs, to)
  \/ \E c \in ToSet(Children(env, from.name)) : ValidUpCast(env, to, c)

(* Whether an object of type right may become one of type left, and whether *)
(* that is left to a check when the program runs.                           *)
Widens(env, left, right) == ValidDownCast(env, left, right)
Accepted(env, left, right) ==
  Widens(env, left, right) \/ ClassOf(env, right).isInf \/ ValidUpCast(env, left, ClassOf(env, right))
Checked(env, left, right) == Widens(env, left, right) => ClassOf(env, left).isInf

-----------------------------------------------------------------------------
(* Statements, and the instructions they become.  What names a class, a     *)
(* method, a text or an item of an enum is left symbolic:                   *)
(*   new C, call C m, cast C, type C, method C m, class C, text kind value, *)
(*   item enum i, string (a System.String), string_new m (its constructor). *)
EmitClassCast(env, left, right) == IF Checked(env, left, right) THEN <<<<"cast", left>>>> ELSE <<>>
StorVar(v) == <<"STOR_INT_VAR", v, LOCL>>
LoadVar(v) == <<"LOAD_INT_VAR", v, LOCL>>

EmitMethodCall(env, n, sig) ==
  LET c == ResolveMethodCall(env, n, sig)
  IN  <<"call", c.name, sig, GetMethod(c, sig).native>>

(* C->New(): the object is of the class the constructor was found in. *)
NewInstance(env, n) ==
  <<<<"new", ResolveMethodCall(env, n, "New:").name>>, EmitMethodCall(env, n, "New:")>>

(* d : D := C->New(); *)
Make(env, d, c, v) == NewInstance(env, c) \o EmitClassCast(env, d, c) \o <<StorVar(v)>>
(* e : E := d; where d was declared as d. *)
Narrow(env, e, d, v) == <<LoadVar(v)>> \o EmitClassCast(env, e, d) \o <<StorVar(v + 1)>>

CopyTrap(kind) == CASE kind = "char" -> -3994 [] kind = "int" -> -3992 [] kind = "float" -> -3991
NewArray(kind) == CASE kind = "char" -> "NEW_CHAR_ARY" [] kind = "int" -> "NEW_INT_ARY" [] kind = "float" -> "NEW_FLOAT_ARY"

EmitStaticArray(kind, value) ==
  <<<<"LOAD_INT_LIT", Len(value)>>, <<NewArray(kind), 1>>, <<"text", kind, value>>,
    <<"LOAD_INT_LIT", CopyTrap(kind)>>, <<"TRAP_RTRN", 3>>>>

EmitCharacterString(value) ==
  IF value = <<>> THEN <<<<"string">>, <<"string_new", "New:">>>>
  ELSE EmitStaticArray("char", value) \o <<<<"string">>, <<"string_new", "New:c*,">>>>

(* f := C->m(); a variable of a function type, called at once. *)
FunctionReference(c, sig, v) ==
  <<<<"method", c, sig>>, <<"class", c>>, <<"STOR_FUNC_VAR", v, LOCL>>, <<"LOAD_FUNC_VAR", v, LOCL>>,
    <<"LOAD_INST_MEM">>, <<"DYN_MTHD_CALL", 0, NIL_TYPE>>>>

(* The variables a statement declares. *)
Slots(op) == CASE op[1] \in {"parent", "plain"} -> 0 [] op[1] \in {"narrow", "typeof", "as", "func"} -> 2 [] OTHER -> 1

(*   parent             Parent()                                            *)
(*   make D C           d : D := C->New();                                  *)
(*   call D C m         d : D := C->New(); d->m();                          *)
(*   narrow D C E       d : D := C->New(); e : E := d;                      *)
(*   as D C E           d : D := C->New(); e := d->As(E);                   *)
(*   typeof D C E       d : D := C->New(); b := d->TypeOf(E);               *)
EmitStatement(env, k, op, v) ==
  CASE op[1] = "parent" -> <<<<"LOAD_INST_MEM">>, EmitMethodCall(env, k.parent, "New:"), <<"POP_INT">>>>
    [] op[1] = "make" -> Make(env, op[2], op[3], v)
    [] op[1] = "call" -> Make(env, op[2], op[3], v) \o <<LoadVar(v), EmitMethodCall(env, op[2], op[4])>>
    [] op[1] = "narrow" -> Make(env, op[2], op[3], v) \o Narrow(env, op[4], op[2], v)
    [] op[1] = "as" -> Make(env, op[2], op[3], v) \o Narrow(env, op[4], op[4], v)
    [] op[1] = "typeof" -> Make(env, op[2], op[3], v) \o <<LoadVar(v), <<"type", op[4]>>, StorVar(v + 1)>>
    [] op[1] = "func" -> FunctionReference(op[2], op[3], v)
    [] op[1] = "chars" -> EmitCharacterString(op[2]) \o <<StorVar(v)>>
    [] op[1] = "numbers" -> EmitStaticArray(op[2], op[3]) \o <<StorVar(v)>>
    [] op[1] = "item" -> <<<<"item", op[2], op[3]>>, StorVar(v)>>
    [] op[1] = "plain" -> <<op[2]>>

(* Which class may be made: one of the program's that is not virtual or is  *)
(* the parent of the class that makes it, or a library's that is named by   *)
(* itself and not virtual.                                                 *)
NewAllowed(env, k, n) ==
  LET found == ResolveMethodCall(env, n, "New:")
  IN  /\ found # NoClass
      /\ IF InProgram(env, found.name) THEN ~found.virt \/ k.parent = found.name
         ELSE InProgram(env, n) \/ ~ClassOf(env, n).virt

AnalyzeStatement(env, k, op) ==
  /\ op[1] \in {"make", "call", "narrow", "as", "typeof"} =>
       Known(env, op[2]) /\ Known(env, op[3]) /\ NewAllowed(env, k, op[3]) /\ Accepted(env, op[2], op[3])
  /\ op[1] = "call" => ResolveMethodCall(env, op[2], op[4]) # NoClass
  /\ op[1] = "narrow" => Known(env, op[4]) /\ Accepted(env, op[4], op[2])
  /\ op[1] \in {"as", "typeof"} => Known(env, op[4])
  /\ op[1] = "func" => GetMethod(ClassOf(env, op[2]), op[3]).static
  /\ op[1] = "parent" => ResolveMethodCall(env, k.parent, "New:") # NoClass

-----------------------------------------------------------------------------
(* A method: its parameters are stored, its body runs, and it returns, a    *)
(* constructor with its object.  A virtual one is empty.                    *)
EmitMethod(env, k, m) ==
  IF m.virt THEN <<>>
  ELSE [i \in 1 .. m.params |-> StorVar(m.params - i)]
       \o FlattenSeq([j \in DOMAIN m.body |->
            EmitStatement(env, k, m.body[j],
              FoldLeft(LAMBDA v, op : v + Slots(op), m.params, SubSeq(m.body, 1, j - 1)))])
       \o (IF m.sig \in Constructors THEN <<<<"LOAD_INST_MEM">>>> ELSE <<>>)
       \o <<<<"RTRN">>>>

EmitClass(env, k) == [m \in DOMAIN k.mthds |-> EmitMethod(env, k, k.mthds[m])]

(* The library classes a statement marks as called. *)
CalledByStatement(env, k, op) ==
  CASE op[1] = "parent" -> {ResolveMethodCall(env, k.parent, "New:").name}
    [] op[1] = "make" -> {op[2], ResolveMethodCall(env, op[3], "New:").name}
    [] op[1] = "call" -> {op[2], ResolveMethodCall(env, op[3], "New:").name, ResolveMethodCall(env, op[2], op[4]).name}
    [] op[1] \in {"narrow", "as", "typeof"} -> {op[2], op[4], ResolveMethodCall(env, op[3], "New:").name}
    [] op[1] = "func" -> {op[2]}
    [] op[1] = "chars" -> {String}
    [] OTHER -> {}

(* The libraries' classes the unit needs: those its statements name, its    *)
(* interfaces, and System.String for the arguments of Main.                 *)
Called(env) ==
  UNION { ToSet(k.infs) \cup (IF env.lib THEN {} ELSE {String})
          \cup UNION { UNION { CalledByStatement(env, k, op) : op \in ToSet(m.body) } : m \in ToSet(k.mthds) }
        : k \in ToSet(env.prog) }

(* The texts of a kind, each once, in the order the analyzer meets them. *)
AddString(texts, value) == IF Contains(texts, value) THEN texts ELSE Append(texts, value)
Texts(plans, kind) ==
  FoldLeft(AddString, <<>>,
    FlattenSeq([k \in DOMAIN plans |-> FlattenSeq([m \in DOMAIN plans[k] |->
      LET found == SelectSeq(plans[k][m], LAMBDA i : i[1] = "text" /\ i[2] = kind)
      IN  [j \in DOMAIN found |-> found[j][3]]])]))

(* What the analyzer leaves of a unit: the plans of its methods. *)
Analyze(env) == [k \in DOMAIN env.prog |-> EmitClass(env, env.prog[k])]

(* Whether it has nothing to report. *)
AcceptedUnit(env) ==
  \A k \in ToSet(env.prog) :
    /\ AnalyzeClass(env, k)
    /\ AnalyzeMethods(env, k)
    /\ \A m \in ToSet(k.mthds) : \A op \in ToSet(m.body) : AnalyzeStatement(env, k, op)
=============================================================================
