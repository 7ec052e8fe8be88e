--------------------------- MODULE NativeMachine ---------------------------
(***************************************************************************)
(* What the AMD64 code of NativeCompiler does when it runs.  A native       *)
(* frame is a frame with registers and flags, .ip its place in the machine  *)
(* code.  Its variables are zero to begin with; where it keeps registers is *)
(* junk until it is written.  Junk may be moved; no result comes of it, and *)
(* the run ends with status "kind" when it is computed with.                *)
(***************************************************************************)
EXTENDS Interpreter

Junk == [k |-> "junk", n |-> 1]
Registers == {"RAX", "RBX", "RDX", "R8", "R10", "R11", "R12", "R13", "R14", "R15"}
             \cup {"XMM0", "XMM10", "XMM11", "XMM12", "XMM13", "XMM14", "XMM15"}

NativeFrame(method, self) ==
  [method |-> method, ip |-> 1, mem |-> <<>>, self |-> self,
   regs |-> [r \in Registers |-> Junk], flags |-> <<Junk, Junk>>]
IsNativeFrame(f) == "regs" \in DOMAIN f

(* The registers that have their values after a function of C++ returns,    *)
(* which ProcessStackCallback pushes and pops or which are the callee's.    *)
Kept == {"RBX", "R8", "R13", "R14", "R15"}
Called(f, kept) == [f EXCEPT !.regs = [r \in Registers |-> IF r \in kept THEN f.regs[r] ELSE Junk]]

INSTANCE_PLACE == -1

(* An immediate operand has 32 bits, except when it is moved to a register. *)
Immediate(o, wide) == IF o.v = "IMM_FLOAT" THEN FloatSlot(o.n) ELSE IntSlot(IF wide THEN o.n ELSE Wrap(o.n, LiteralBits))

(* Of an array the dimension n > 1 or its size; a byte is not extended by   *)
(* its sign.                                                                *)
Value(m, f, o, wide) ==
  LET object == m.heap[f.regs[o.v].n]
      size == FoldLeft(LAMBDA p, d : p * d, 1, object.dims)
      slot == At(object.slots, f.regs[o.v].i)
  IN  CASE o.at = "IMM" -> Immediate(o, wide)
        [] o.at = "REG" -> f.regs[o.v]
        [] o.at = "MEM" -> IF o.v = INSTANCE_PLACE THEN f.self ELSE IF o.v < 0 /\ o.v \notin DOMAIN f.mem THEN Junk ELSE At(f.mem, o.v)
        [] o.at = "FIELD" -> IF f.regs[o.v].k = "ref" THEN At(object.slots, o.n) ELSE Junk
        [] o.at = "DIM" -> IF f.regs[o.v].k = "ref" THEN IntSlot(IF o.n = 0 THEN size ELSE object.dims[o.n]) ELSE Junk
        [] o.at = "WORD" -> slot
        [] o.at = "BYTE" -> [slot EXCEPT !.n = @ % 2^ByteBits]

Next1(m, f) == InFrame(m, [f EXCEPT !.ip = @ + 1])

Write(m, f, o, slot) ==
  LET r == f.regs[o.v]
      stored(place, s) == IF r.k \in {"ref", "elem"} THEN Next1([m EXCEPT !.heap[r.n].slots = Put(@, place, s)], f) ELSE Stop(m, "kind")
  IN  CASE o.at = "REG" -> Next1(m, [f EXCEPT !.regs[o.v] = slot])
        [] o.at = "MEM" -> Next1(m, [f EXCEPT !.mem = Put(@, o.v, slot)])
        [] o.at = "FIELD" -> stored(o.n, slot)
        [] o.at = "WORD" -> stored(r.i, slot)
        [] o.at = "BYTE" -> stored(r.i, [slot EXCEPT !.n = Wrap(@, ByteBits)])

-----------------------------------------------------------------------------
Move(m, f, i) == Write(m, f, i.to, Value(m, f, i.from, i.to.at = "REG"))

(* A right shift does not keep the sign. *)
NativeCalc(op, a, b) ==
  IF op = "SHR" THEN Wrap((a % 2^WordBits) \div 2^(b % WordBits), WordBits) ELSE IntCalc(op, a, b, WordBits)

Arithmetic(m, f, i) ==
  LET a == f.regs[i.to.v]
      b == Value(m, f, i.from, FALSE)
      kind == IF i.op = "ALU" THEN "int" ELSE "float"
  IN  IF ~IsA(a, kind) \/ ~IsA(b, kind) THEN Stop(m, "kind")
      ELSE IF i.op = "FALU" /\ i.n = "DIV" /\ b.n = 0 THEN Stop(m, "zero")
      ELSE Write(m, f, i.to, IF i.op = "ALU" THEN IntSlot(NativeCalc(i.n, a.n, b.n)) ELSE FloatSlot(FloatCalc(i.n, a.n, b.n)))

Division(m, f, i) ==
  LET a == f.regs["RAX"]
      b == Value(m, f, i.from, FALSE)
  IN  IF ~IsA(a, "int") \/ ~IsA(b, "int") THEN Stop(m, "kind")
      ELSE IF b.n = 0 THEN Stop(m, "zero")
      ELSE Next1(m, [f EXCEPT !.regs["RAX"] = IntSlot(Wrap(Quot(a.n, b.n), WordBits)), !.regs["RDX"] = IntSlot(Rem(a.n, b.n))])

(* What was compared decides the conditions tested after it. *)
Holds(f, cond) == Compare(cond, f.flags[1].n, f.flags[2].n) = 1
Comparable(f) == f.flags[1] # Junk /\ f.flags[2] # Junk /\ (f.flags[1].k = f.flags[2].k \/ 0 \in {f.flags[1].n, f.flags[2].n})

Test(m, f, i, target) ==
  CASE i.op = "CMP" -> Next1(m, [f EXCEPT !.flags = <<f.regs[i.to.v], Value(m, f, i.from, FALSE)>>])
    [] i.op # "CMP" /\ ~Comparable(f) -> Stop(m, "kind")
    [] i.op = "CMOV" /\ Comparable(f) -> IF Holds(f, i.n) THEN Move(m, f, i) ELSE Next1(m, f)
    [] i.op = "JCC" /\ Comparable(f) ->
         IF Holds(f, i.n.cond) = i.n.sense THEN InFrame(m, [f EXCEPT !.ip = target]) ELSE Next1(m, f)

(* The checks leave by themselves, with a status the interpreter reports.   *)
Check(m, f, i) ==
  LET tested == f.regs[i.to.v]
  IN  CASE i.op = "CHECK_NIL" -> IF tested.n = 0 THEN Stop(m, "nil") ELSE Next1(m, f)
        [] i.op = "CHECK_BOUNDS" -> IF tested.n \notin 0 .. f.regs[i.from.v].n - 1 THEN Stop(m, "bounds") ELSE Next1(m, f)
        [] i.op = "ELEM" -> Write(m, f, i.to, IF tested.k = "ref" /\ IsA(f.regs[i.from.v], "int")
                                              THEN [k |-> "elem", n |-> tested.n, i |-> f.regs[i.from.v].n] ELSE Junk)

CVT(m, f, i) ==
  LET value == Value(m, f, i.from, TRUE)
  IN  IF ~IsA(value, IF i.n = "I2F" THEN "int" ELSE "float") THEN Stop(m, "kind")
      ELSE Write(m, f, i.to, IF i.n = "I2F" THEN FloatSlot(IntToFloat(value.n)) ELSE IntSlot(FloatToInt(value.n)))

OperandStack(m, f, i) ==
  CASE i.op = "PUSH" -> Next1(Push(m, Value(m, f, i.from, FALSE)), f)
    [] i.op = "POP" -> Write(Pop(m, 1), f, i.to, Top(m))

(* The interpreter executes the one instruction: a call from a frame of its *)
(* own, which ends with that call.                                          *)
Callback(m, f, i) ==
  LET back == InFrame(m, [Called(f, Kept) EXCEPT !.ip = @ + 1])
      instr == i.n
  IN  IF instr.op = "MTHD_CALL" THEN [Pop(back, 1) EXCEPT !.frames = Append(@, Frame(instr.n, Top(m)))]
      ELSE Compute(back, instr)

Scratch(m, f, i) == IF i.op = "SCRATCH" THEN Write(m, f, i.to, Junk) ELSE InFrame(m, [Called(f, Kept \ {"R8"}) EXCEPT !.ip = @ + 1])
====
