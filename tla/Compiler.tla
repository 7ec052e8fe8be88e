------------------------------ MODULE Compiler ------------------------------
(***************************************************************************)
(* A program from its tree to its end: contextual analysis, emission of    *)
(* stack code, the passes of the optimizer one by one, then the run of the *)
(* result, an instruction a step.  src/compiler/compiler.cpp runs the      *)
(* phases; the machine is that of src/vm/interpreter.cpp.                  *)
(*                                                                         *)
(* The first method is called on a new object, the interpreter's start     *)
(* being a call of it from outside the class.                              *)
(***************************************************************************)
EXTENDS Parser, Analyzer, Emitter, Optimizer, Interpreter, Meaning

CONSTANTS
  Cases, ProgramOf(_),   \* the programs a run compiles: ProgramOf(c) for c in Cases
  Levels                 \* the optimization levels it compiles them at, of 0 .. 3

ASSUME LevelsAssumption == Levels \subseteq 0 .. 3

VARIABLES
  case,         \* which program it is
  program,      \* its tree once it is parsed, decorated once it is analysed
  level,
  phase,        \* "parse", "analyze", "emit", "optimize", "inline", "run", "end", "unparsed", "rejected"
  labels,       \* the last labels the emitter has used
  codes,        \* the code of every method
  at,           \* the method the phase is at, and how many passes it has had
  machine

vars == <<case, program, level, phase, labels, codes, at, machine>>

Source == ProgramOf(case)
Methods == DOMAIN program.methods
Params == [id \in Methods |-> program.methods[id].params]
Constructors == [id \in Methods |-> program.methods[id].new]
Idle == [frames |-> <<>>, stack |-> <<>>, heap |-> <<>>, status |-> "idle"]

Init ==
  /\ case \in Cases
  /\ program = NoProgram
  /\ level \in Levels
  /\ phase = "parse"
  /\ labels = FirstLabels
  /\ codes = <<>>
  /\ at = [method |-> 1, passes |-> 0]
  /\ machine = Idle

(* Nothing is analysed after an error of the parser, nothing emitted after  *)
(* one of the analysis.                                                    *)
ParseProgram ==
  /\ phase = "parse"
  /\ \E parsed \in {Parse(Written(Source))} :
       /\ program' = parsed.program
       /\ phase' = IF parsed.ok THEN "analyze" ELSE "unparsed"
  /\ UNCHANGED <<case, level, labels, codes, at, machine>>

AnalyzeProgram ==
  /\ phase = "analyze"
  /\ \E analyzed \in {Analyze(program)} :
       /\ program' = analyzed.program
       /\ phase' = IF analyzed.ok THEN "emit" ELSE "rejected"
  /\ UNCHANGED <<case, level, labels, codes, at, machine>>

EmitNextMethod ==
  /\ phase = "emit"
  /\ \E emitted \in {EmitMethod(labels, [method |-> program.methods[at.method], fields |-> program.fields])} :
       /\ codes' = Append(codes, emitted.code)
       /\ labels' = [cond |-> emitted.cond, uncond |-> emitted.uncond]
  /\ IF at.method + 1 \in Methods
     THEN at' = [at EXCEPT !.method = @ + 1] /\ phase' = phase
     ELSE at' = [at EXCEPT !.method = 1] /\ phase' = "optimize"
  /\ UNCHANGED <<case, program, level, machine>>

(* The next pass on the current method, whose calls see the methods before  *)
(* it optimized and those after it not.                                     *)
OptimizeMethod ==
  /\ phase = "optimize"
  /\ at.method \in Methods
  /\ LET pass == Passes(level)[at.passes + 1]
     IN  codes' = [codes EXCEPT ![at.method] = OptimizePass(pass, at.method, codes, Params)]
  /\ at' = IF at.passes + 1 < Len(Passes(level)) THEN [at EXCEPT !.passes = @ + 1]
           ELSE [method |-> at.method + 1, passes |-> 0]
  /\ UNCHANGED <<case, program, level, phase, labels, machine>>

OptimizedAll ==
  /\ phase = "optimize"
  /\ at.method \notin Methods
  /\ phase' = IF level > 2 THEN "inline" ELSE "run"
  /\ at' = [at EXCEPT !.method = 1]
  /\ machine' = IF level > 2 THEN machine ELSE Started(1)
  /\ UNCHANGED <<case, program, level, labels, codes>>

InlineMethods ==
  /\ phase = "inline"
  /\ codes' = [codes EXCEPT ![at.method] = InlineMethod(at.method, codes, Constructors)]
  /\ at' = [at EXCEPT !.method = @ + 1]
  /\ phase' = IF at.method + 1 \in Methods THEN phase ELSE "run"
  /\ machine' = IF at.method + 1 \in Methods THEN machine ELSE Started(1)
  /\ UNCHANGED <<case, program, level, labels>>

-----------------------------------------------------------------------------
Running == phase = "run" /\ machine.status = "running"
Instruction == LET f == Last(machine.frames) IN codes[f.method][f.ip]

Step(ops, next(_, _)) ==
  /\ Running
  /\ Instruction.op \in ops
  /\ machine' = next(machine, Instruction)
  /\ phase' = IF machine'.status = "running" THEN "run" ELSE "end"
  /\ UNCHANGED <<case, program, level, labels, codes, at>>

(* Unless it ended the run, the instruction after it is next. *)
Here(done) == IF done.status = "running" THEN Advance(done) ELSE done

ExecuteLoad == Step(LoadOps, LAMBDA m, i : Here(Load(m, i)))
ExecuteStore == Step(StoreOps, LAMBDA m, i : Here(Store(m, i)))
ExecuteCalculation ==
  Step(DOMAIN IntCalculations \cup DOMAIN FloatCalculations \cup {"I2F", "F2I"}, LAMBDA m, i : Here(Compute(m, i)))
ExecuteElement ==
  Step(LoadElementOps \cup StoreElementOps, LAMBDA m, i : Here(AccessElement(m, i, i.op \in StoreElementOps)))
ExecuteNew == Step(NewOps, LAMBDA m, i : Here(IF i.op = "NEW_OBJ_INST" THEN NewObject(m) ELSE NewArray(m, i)))
ExecuteStack == Step({"POP_INT", "POP_FLOAT", "SWAP_INT", "LBL"}, LAMBDA m, i : Here(Compute(m, i)))
ExecuteJump == Step({"JMP"}, LAMBDA m, i : Jump(m, i, codes[Last(m.frames).method]))
ExecuteCall == Step({"MTHD_CALL"}, LAMBDA m, i : MethodCall(m, i))
ExecuteReturn == Step({"RTRN"}, LAMBDA m, i : Return(m))

Execution ==
  \/ ExecuteLoad \/ ExecuteStore \/ ExecuteCalculation \/ ExecuteElement \/ ExecuteNew
  \/ ExecuteStack \/ ExecuteJump \/ ExecuteCall \/ ExecuteReturn

Finished == phase \in {"end", "unparsed", "rejected"} /\ UNCHANGED vars

Next == ParseProgram \/ AnalyzeProgram \/ EmitNextMethod \/ OptimizeMethod \/ OptimizedAll \/ InlineMethods \/ Execution \/ Finished

Spec == Init /\ [][Next]_vars /\ WF_vars(Next)

-----------------------------------------------------------------------------
(* The value the run left in a field of the first object. *)
Observed(name) ==
  LET place == SelectInSeq(program.fields, LAMBDA d : d.name = name)
  IN  At(machine.heap[1].slots, EntryId(program.fields, place, 0)).n

Scalars == {d.name : d \in {x \in Range(Source.fields) : x.dim = 0 /\ x.type # "Obj"}}

LeftInFields(meaning) == \A name \in Scalars : Observed(name) = meaning.fields[name].n

(* A run that ends has left in the fields what the program means, at every  *)
(* optimization level: analysis, emission, the passes of optimization.cpp   *)
(* and the interpreter's instructions agree on every conversion, operand    *)
(* order, label, entry and frame.                                          *)
KeepsMeaning ==
  phase = "end" /\ machine.status = "done" => LeftInFields(Meaning(Source))

(* A program written with the parentheses its precedences need is parsed,   *)
(* and parsed to the tree it was written from (parser.cpp).                 *)
ParsesAsWritten ==
  /\ phase # "unparsed"
  /\ phase = "analyze" => program = Source

(* context.cpp rejects no program that has a meaning. *)
AcceptsSense == phase = "rejected" => Meaning(Source).wrong

(* context.cpp accepts no program that has none: one that uses a value for  *)
(* what it is not, an unknown name, two methods a call fits equally well.   *)
RejectsNonsense == phase = "emit" /\ codes = <<>> => ~Meaning(Source).wrong

(* No instruction computes with a slot of another kind, the bits of a       *)
(* double as an integer or a pointer as a number: the conversions the       *)
(* analysis notes (context.cpp:2951) and EmitCast emits are complete.       *)
KindsMatch == machine.status # "kind"

(* What an instruction takes from the calculation stack and leaves there.  *)
(* A method leaves its value, a constructor the instance.                   *)
Width(id) == IF program.methods[id].returns.name = "Nil" /\ ~program.methods[id].new THEN 0 ELSE 1
Variables(kind) == {kind \o "_INT_VAR", kind \o "_FLOAT_VAR"}
Binary == DOMAIN IntCalculations \cup DOMAIN FloatCalculations

Takes(i, width) ==
  LET instance == IF i.m = "INST" THEN 1 ELSE 0
  IN  CASE i.op \in Variables("LOAD") -> instance
        [] i.op \in StoreOps -> 1 + instance
        [] i.op \in Binary \cup {"SWAP_INT"} -> 2
        [] i.op \in LoadElementOps -> i.n + 1
        [] i.op \in StoreElementOps -> i.n + 2
        [] i.op \in NewOps -> i.n
        [] i.op \in {"POP_INT", "POP_FLOAT", "I2F", "F2I"} -> 1
        [] i.op = "JMP" -> IF i.m = "always" THEN 0 ELSE 1
        [] i.op = "MTHD_CALL" -> 1 + Params[i.n]
        [] i.op = "RTRN" -> width
        [] OTHER -> 0

Leaves1 == LoadOps \cup Binary \cup LoadElementOps \cup NewOps \cup {"I2F", "F2I"} \cup Variables("COPY")
Left(i) == IF i.op \in Leaves1 THEN 1 ELSE IF i.op = "SWAP_INT" THEN 2 ELSE IF i.op = "MTHD_CALL" THEN Width(i.n) ELSE 0

(* Whatever way an instruction is reached the stack has the same height,   *)
(* never below what the method found; .height is None after a jump or a    *)
(* return.                                                                 *)
Unreached == -1
Meets(acc, label, height) == label \notin DOMAIN acc.heights \/ acc.heights[label] = height
Verify(code, params, width) ==
  LET step(acc, i) ==
        LET taken == acc.height - Takes(i, width)
            height == taken + Left(i)
            label == IF i.n \in DOMAIN acc.heights THEN acc.heights[i.n] ELSE acc.height
        IN  IF i.op = "LBL"
            THEN [acc EXCEPT !.ok = @ /\ i.n \notin acc.labels /\ (acc.height = Unreached \/ Meets(acc, i.n, acc.height)),
                             !.labels = @ \cup {i.n}, !.height = label,
                             !.heights = IF label = Unreached THEN @ ELSE (i.n :> label) @@ @]
            ELSE IF acc.height = Unreached THEN acc
            ELSE [acc EXCEPT !.ok = @ /\ taken >= 0 /\ (i.op = "JMP" => Meets(acc, i.n, height)) /\ (i.op = "RTRN" => taken = 0),
                             !.heights = IF i.op = "JMP" THEN (i.n :> height) @@ @ ELSE @,
                             !.height = IF i.op = "RTRN" \/ (i.op = "JMP" /\ i.m = "always") THEN Unreached ELSE height]
      Verified(end) == end.ok /\ end.height = Unreached /\ DOMAIN end.heights \subseteq end.labels
  IN  Verified(Scanned(step, [ok |-> TRUE, height |-> params, heights |-> <<>>, labels |-> {}], code))

(* What every pass leaves and every emitter begins with: no label twice or  *)
(* missing, no way through a method that falls off its end or leaves the    *)
(* calculation stack higher or lower than another (intermediate.cpp,        *)
(* optimization.cpp).                                                       *)
CodeVerifies ==
  phase \in {"optimize", "inline"} \/ (phase = "run" /\ machine = Started(1)) =>
    \A id \in Methods : Verify(codes[id], Params[id], Width(id))
====
