------------------------------- MODULE Native -------------------------------
(***************************************************************************)
(* A program that is run twice: by the interpreter, then with some of its  *)
(* methods native.  A native method is translated when it is called first  *)
(* (JitCompilerIA64::Compile), an instruction a step; one that needs more   *)
(* registers than there are stays with the interpreter.  Native and         *)
(* interpreted frames then call each other, and whenever something is       *)
(* allocated the collector may run: it frees what it does not find from     *)
(* the frames and the operand stack.  How it runs is in MemoryManager; here *)
(* it looks for references where the code of both kinds keeps them.         *)
(***************************************************************************)
EXTENDS Compiler, NativeCompiler

N == INSTANCE NativeMachine

CONSTANTS
  NativeSets(_),       \* the sets of methods, of those there are, that may be native
  CollectedLevels,     \* the optimization levels at which there are collections
  MaxCollections       \* how many in a run

VARIABLES
  native,     \* the methods declared native
  compiled,   \* the translations there are
  twin,       \* how the interpreted run ended
  collections \* how many objects there were at each of its collections

nativeVars == <<native, jit, compiled, twin, collections>>
allVars == <<vars, nativeVars>>

NativeInit ==
  /\ Init
  /\ native = {}
  /\ jit = NoTranslation
  /\ compiled = <<>>
  /\ twin = Idle
  /\ collections = {}

(* What a method's call takes and leaves, as StackMethod says. *)
ReturnType(id) == LET t == program.methods[id].returns IN
  IF program.methods[id].new THEN "INT" ELSE IF t.name = "Nil" THEN "NIL" ELSE IF t.name = "Float" /\ t.dim = 0 THEN "FLOAT" ELSE "INT"
Signatures == [id \in Methods |-> [params |-> Params[id], type |-> ReturnType(id)]]

(* Two literals are calculated when the code is generated. *)
IntFold(op, l, r) == IF op \in CompareOps THEN Compare(op, l, r) ELSE IntCalc(op, l, r, WordBits)

InterpretedRun == twin = Idle
Compile == (ParseProgram \/ AnalyzeProgram \/ EmitNextMethod \/ OptimizeMethod \/ OptimizedAll \/ InlineMethods) /\ UNCHANGED nativeVars

RunAgain ==
  /\ phase = "end"
  /\ InterpretedRun
  /\ native' \in NativeSets(Methods)
  /\ twin' = machine
  /\ machine' = Started(1)
  /\ phase' = "run"
  /\ UNCHANGED <<case, program, level, labels, codes, at, jit, compiled, collections>>

-----------------------------------------------------------------------------
Here1 == Current(machine)
InNative == Running /\ N!IsNativeFrame(Here1)

(* A method that is called and has not begun. *)
Entering == Running /\ ~InterpretedRun /\ ~N!IsNativeFrame(Here1) /\ Here1.ip = 1 /\ Here1.method \in native
Enters == Entering /\ (Here1.method \in DOMAIN compiled => compiled[Here1.method].success)

BeginTranslation ==
  /\ Entering
  /\ Here1.method \notin DOMAIN compiled
  /\ StartCompiling(codes[Here1.method], Params[Here1.method], Signatures)
  /\ UNCHANGED <<vars, native, compiled, twin, collections>>

Translate ==
  /\ CompileInstruction
  /\ UNCHANGED <<vars, native, compiled, twin, collections>>

EndTranslation ==
  /\ StopCompiling
  /\ compiled' = (Here1.method :> jit) @@ compiled
  /\ UNCHANGED <<vars, native, twin, collections>>

EnterNative ==
  /\ Entering
  /\ Here1.method \in DOMAIN compiled
  /\ compiled[Here1.method].success
  /\ machine' = InFrame(machine, N!NativeFrame(Here1.method, Here1.self))
  /\ UNCHANGED <<case, program, level, phase, labels, codes, at, nativeVars>>

Interpret == ~InNative /\ ~Enters /\ Execution /\ UNCHANGED nativeVars

-----------------------------------------------------------------------------
(* Declarations are walked in order, a Float taking two words as it takes   *)
(* two numbers, after the word kept for logical expressions: the variables  *)
(* of an interpreted frame and the fields of an object (CheckMemory).        *)
HoldsReference(d) == d.dim > 0 \/ d.type = "Obj"
References(slots) == {slot.n : slot \in {s \in slots : s.k = "ref"}}
CheckMemory(mem, decls, first) ==
  References({At(mem, EntryId(decls, j, first)) : j \in {k \in DOMAIN decls : HoldsReference(decls[k])}})

DeclarationsOf(id) == program.methods[id].entries
FirstId(id) == IF MethodHasAndOr(program.methods[id]) THEN 1 ELSE 0

(* A native frame has a word for each variable its code uses, downwards in  *)
(* the order of their numbers; here words are counted from the lowest, which *)
(* RegisterRoot passes to the collector.  The places where registers are     *)
(* kept follow, the last of them first.                                     *)
Used(id) == {i.n : i \in LocalVars(codes[id])}
Word(id, place) ==
  IF place \in Used(id) THEN Cardinality({n \in Used(id) : n > place})
  ELSE Cardinality(Used(id)) + SelectInSeq([k \in 1 .. SavedRegs |-> TMP_REG[SavedRegs - k]], LAMBDA t : t = place) - 1

(* Fault: the declarations are taken from the first to the last. *)
FaultCheckedWords(decls) ==
  {j - 1 : j \in {k \in DOMAIN decls : HoldsReference(decls[k])}} \cup Len(decls) .. Len(decls) + 7

(* The collector takes the declarations from the last to the first, a word  *)
(* each, then eight words whatever they hold (CheckJitRoots).               *)
Conservative == 8
CheckedWords(decls) ==
  {Len(decls) - j : j \in {k \in DOMAIN decls : HoldsReference(decls[k])}} \cup Len(decls) .. Len(decls) + Conservative - 1

CheckJitRoots(f) ==
  References({f.mem[place] : place \in {p \in DOMAIN f.mem : Word(f.method, p) \in CheckedWords(DeclarationsOf(f.method))}})

CheckFrame(f) ==
  References({f.self}) \cup (IF N!IsNativeFrame(f) THEN CheckJitRoots(f) ELSE CheckMemory(f.mem, DeclarationsOf(f.method), FirstId(f.method)))
Roots(m) == UNION {CheckFrame(f) : f \in Range(m.frames)} \cup References(Range(m.stack))

(* What is found from there: the fields of an object, the elements of an    *)
(* array.  What is not is freed, and its memory zeroed for the next.         *)
Children(object) == IF object.dims = <<>> THEN CheckMemory(object.slots, program.fields, 0) ELSE References(Range(object.slots))
Marked(heap, roots) == FoldLeft(LAMBDA found, any : found \cup UNION {Children(heap[n]) : n \in found}, roots, heap)
Freed == [dims |-> <<>>, slots |-> <<>>]
Swept(m) ==
  LET marked == Marked(m.heap, Roots(m))
  IN  [m EXCEPT !.heap = [n \in DOMAIN @ |-> IF n \in marked THEN @[n] ELSE Freed]]

-----------------------------------------------------------------------------
NativeInstruction == compiled[Here1.method].code[Here1.ip]

NativeStep(ops, next(_, _, _)) ==
  /\ InNative
  /\ NativeInstruction.op \in ops
  /\ machine' = next(machine, Here1, NativeInstruction)
  /\ phase' = IF machine'.status = "running" THEN "run" ELSE "end"
  /\ UNCHANGED <<case, program, level, labels, codes, at, nativeVars>>

NativeMove == NativeStep({"MOV"}, N!Move)
NativeArithmetic == NativeStep({"ALU", "FALU"}, N!Arithmetic)
NativeDivision == NativeStep({"IDIV"}, N!Division)
NativeTest == NativeStep({"CMP", "CMOV", "JCC"}, LAMBDA m, f, i : N!Test(m, f, i, NativeTarget(compiled[f.method], i.n.label)))
NativeJump == NativeStep({"JMP"}, LAMBDA m, f, i : InFrame(m, [f EXCEPT !.ip = NativeTarget(compiled[f.method], i.n)]))
NativeCheck == NativeStep({"CHECK_NIL", "CHECK_BOUNDS", "ELEM"}, N!Check)
NativeConvert == NativeStep({"CVT"}, N!CVT)
NativeStack == NativeStep({"PUSH", "POP"}, N!OperandStack)
NativeCallback == NativeStep({"CALLBACK"}, N!Callback)
NativeScratch == NativeStep({"SCRATCH", "CALL"}, N!Scratch)
NativeReturn == NativeStep({"RET"}, LAMBDA m, f, i : Return(m))

NativeExecution ==
  \/ NativeMove \/ NativeArithmetic \/ NativeDivision \/ NativeTest \/ NativeJump \/ NativeCheck
  \/ NativeConvert \/ NativeStack \/ NativeCallback \/ NativeScratch \/ NativeReturn

(* The instruction that comes next allocates; the collector runs first.     *)
Allocating ==
  /\ Running /\ ~InterpretedRun /\ ~Entering
  /\ IF InNative THEN NativeInstruction.op = "CALLBACK" /\ NativeInstruction.n.op \in NewOps ELSE Instruction.op \in NewOps

CollectMemory ==
  /\ Allocating
  /\ level \in CollectedLevels
  /\ Len(machine.heap) \notin collections
  /\ Cardinality(collections) < MaxCollections
  /\ machine' = Swept(machine)
  /\ collections' = collections \cup {Len(machine.heap)}
  /\ UNCHANGED <<case, program, level, phase, labels, codes, at, native, jit, compiled, twin>>

BothDone == (phase \in {"unparsed", "rejected"} \/ (phase = "end" /\ ~InterpretedRun)) /\ UNCHANGED allVars
NativeNext ==
  \/ Compile \/ Interpret \/ RunAgain
  \/ BeginTranslation \/ Translate \/ EndTranslation \/ EnterNative
  \/ NativeExecution \/ CollectMemory \/ BothDone

NativeSpec == NativeInit /\ [][NativeNext]_allVars

-----------------------------------------------------------------------------
(* Native code does what the interpreter does: the run ends the same way    *)
(* and leaves the same objects, whichever of its methods are native and     *)
(* whenever the collector has run (jit_amd_lp64.cpp against interpreter.cpp, *)
(* ProcessIndices and ProcessStackCallback against CheckJitRoots).           *)
LeftBehind(m) == [n \in Marked(m.heap, {1} \cup References(Range(m.stack))) |-> m.heap[n]]
NativeAgrees ==
  phase = "end" /\ ~InterpretedRun =>
    /\ machine.status = twin.status
    /\ machine.status = "done" => machine.stack = twin.stack
    /\ IF collections = {} THEN machine.heap = twin.heap
       ELSE machine.status = "done" => LeftBehind(machine) = LeftBehind(twin)

(* A label is met with the same items in the same places by every jump to   *)
(* it and by the code before it: the code after it was generated for one    *)
(* of them only.  So what comes next finds the items it takes there.        *)
LabelsAgree ==
  jit # NoTranslation =>
    /\ \A one, other \in jit.joins : one.label = other.label => one.stack = other.stack
    /\ Translating(jit) => Fed(jit)
====
