---------------------------- MODULE Interpreter ----------------------------
(***************************************************************************)
(* The instructions of a program as the interpreter executes them,         *)
(* src/vm/interpreter.cpp and interpreter.h: how each one changes the      *)
(* calculation stack, the memory of the frame and the objects.  Frames,    *)
(* native code and the collector are in CallStack and MemoryManager.       *)
(*                                                                         *)
(* A slot is [k, n]: what was last written to it as, "int", "float" or     *)
(* "ref", and the number, or the object's place in the heap.  Moving a     *)
(* slot keeps its bits, so only operations that interpret it look at .k:   *)
(* one that meets another kind computes with a meaningless number, which   *)
(* ends the run with status "kind".  Nil is the integer 0.                 *)
(***************************************************************************)
EXTENDS Words, SequencesExt

IntSlot(n) == [k |-> "int", n |-> n]
FloatSlot(n) == [k |-> "float", n |-> n]
RefSlot(n) == [k |-> "ref", n |-> n]
Nil == IntSlot(0)

(* Memory of a frame or an object: what was never written is zero. *)
At(mem, i) == IF i \in DOMAIN mem THEN mem[i] ELSE Nil

Frame(method, self) == [method |-> method, ip |-> 1, mem |-> <<>>, self |-> self]

(* The machine when the entry method is called on a new object. *)
Started(entry) ==
  [frames |-> <<Frame(entry, RefSlot(1))>>, stack |-> <<>>,
   heap |-> <<[dims |-> <<>>, slots |-> <<>>]>>, status |-> "running"]

Top(m) == IF m.stack = <<>> THEN Nil ELSE Last(m.stack)
Below(m) == m.stack[Len(m.stack) - 1]
Pop(m, n) == [m EXCEPT !.stack = SubSeq(@, 1, Len(@) - n)]
Push(m, slot) == [m EXCEPT !.stack = Append(@, slot)]
Current(m) == Last(m.frames)
InFrame(m, f) == [m EXCEPT !.frames[Len(m.frames)] = f]
Advance(m) == InFrame(m, [Current(m) EXCEPT !.ip = @ + 1])
Stop(m, status) == [m EXCEPT !.status = status]

(* The kinds an operation can make sense of: zero is zero in every kind. *)
IsA(slot, kind) == slot.k = kind \/ slot.n = 0

-----------------------------------------------------------------------------
Load(m, i) ==
  CASE i.op \in {"LOAD_INT_LIT"} -> Push(m, IntSlot(i.n))
    [] i.op = "LOAD_FLOAT_LIT" -> Push(m, FloatSlot(i.n))
    [] i.op = "LOAD_INST_MEM" -> Push(m, Current(m).self)
    [] i.m = "LOCL" -> Push(m, At(Current(m).mem, i.n))
    [] OTHER -> LET ref == Top(m) IN
                IF ref.n = 0 THEN Stop(m, "nil")
                ELSE IF ref.k # "ref" THEN Stop(m, "kind")
                ELSE Push(Pop(m, 1), At(m.heap[ref.n].slots, i.n))

Put(mem, i, slot) == (i :> slot) @@ mem

(* A store pops the value, a copy keeps it. *)
Store(m, i) ==
  LET copy == i.op \in {"COPY_INT_VAR", "COPY_FLOAT_VAR"}
      left(r) == IF copy THEN r ELSE Pop(r, 1)
      ref == Top(m)
      popped == Pop(m, 1)
  IN  IF i.m = "LOCL"
      THEN left(InFrame(m, [Current(m) EXCEPT !.mem = Put(@, i.n, Top(m))]))
      ELSE IF ref.n = 0 THEN Stop(m, "nil")
      ELSE IF ref.k # "ref" THEN Stop(m, "kind")
      ELSE left([popped EXCEPT !.heap[ref.n].slots = Put(@, i.n, Top(popped))])

(* The operation's first operand is on top.  Nothing checks a divisor. *)
Calculated(op, kind, a, b) ==
  IF op \in {"EQL", "NEQL", "LES", "GTR", "LES_EQL", "GTR_EQL"} THEN IntSlot(Compare(op, a, b))
  ELSE IF kind = "int" THEN IntSlot(IntCalc(op, a, b, WordBits)) ELSE FloatSlot(FloatCalc(op, a, b))

Calculate(m, op, kind) ==
  LET a == Top(m)
      b == Below(m)
      same == op \in {"EQL", "NEQL"} /\ kind = "int" /\ (a.k = b.k \/ (IsA(a, "ref") /\ IsA(b, "ref")))
  IN  IF ~same /\ ~(IsA(a, kind) /\ IsA(b, kind)) THEN Stop(m, "kind")
      ELSE IF op \in {"DIV", "MOD"} /\ b.n = 0 THEN Stop(m, "zero")
      ELSE Push(Pop(m, 2), Calculated(op, kind, a.n, b.n))

Convert(m, op) ==
  IF ~IsA(Top(m), IF op = "I2F" THEN "int" ELSE "float") THEN Stop(m, "kind")
  ELSE Push(Pop(m, 1), IF op = "I2F" THEN FloatSlot(IntToFloat(Top(m).n)) ELSE IntSlot(FloatToInt(Top(m).n)))

-----------------------------------------------------------------------------
(* The dimensions of an array are those popped, the last one first; so are  *)
(* the indices, and only the index into the whole array is checked.         *)
Popped(m, n) == [j \in 1 .. n |-> m.stack[Len(m.stack) + 1 - j]]

NewArray(m, i) ==
  LET dims == Popped(m, i.n)
  IN  [Push(Pop(m, i.n), RefSlot(Len(m.heap) + 1)) EXCEPT
         !.heap = Append(@, [dims |-> [j \in 1 .. i.n |-> dims[j].n], slots |-> <<>>])]

ArrayIndex(m, array, n) ==
  FoldLeftDomain(LAMBDA index, j : IF j = 1 THEN m.stack[Len(m.stack)].n
                                   ELSE index * array.dims[j] + m.stack[Len(m.stack) + 1 - j].n,
                 0, [j \in 1 .. n |-> j])

(* A byte keeps the low bits and reads as a signed number. *)
ByteBits == LiteralBits - 2
Element(op, slot) ==
  IF op \in {"LOAD_BYTE_ARY_ELM", "STOR_BYTE_ARY_ELM"} THEN [slot EXCEPT !.n = Wrap(@, ByteBits)] ELSE slot

(* The access once the reference and the indices are popped. *)
ElementAt(m, i, ref, index, store) ==
  IF store THEN [Pop(m, 1) EXCEPT !.heap[ref].slots = Put(@, index, Element(i.op, Top(m)))]
  ELSE Push(m, Element(i.op, At(m.heap[ref].slots, index)))

(* An access to a Nil array is reported, and the run goes on without it:    *)
(* the indices, and the value of a store, stay on the stack.                *)
AccessElement(m, i, store) ==
  LET Access(popped, ref) ==
        LET array == m.heap[ref.n]
            index == ArrayIndex(popped, array, i.n)
            size == FoldLeft(LAMBDA p, d : p * d, 1, array.dims)
        IN  IF ref.n = 0 THEN popped
            ELSE IF ref.k # "ref" \/ \E j \in 1 .. i.n : ~IsA(Popped(popped, i.n)[j], "int") THEN Stop(m, "kind")
            ELSE IF index \notin 0 .. size - 1 THEN Stop(m, "bounds")
            ELSE ElementAt(Pop(popped, i.n), i, ref.n, index, store)
  IN  Access(Pop(m, 1), Top(m))

-----------------------------------------------------------------------------
(* A label's place is that of its first occurrence in the method. *)
Jump(m, i, code) ==
  LET taken == i.m = "always" \/ Top(m).n = (IF i.m = "true" THEN 1 ELSE 0)
      popped == IF i.m = "always" THEN m ELSE Pop(m, 1)
      place == SelectInSeq(code, LAMBDA c : c.op = "LBL" /\ c.n = i.n)
  IN  IF i.m # "always" /\ ~IsA(Top(m), "int") THEN Stop(m, "kind")
      ELSE InFrame(popped, [Current(m) EXCEPT !.ip = IF taken THEN place + 1 ELSE @ + 1])

(* The instance is popped; the parameters stay for the method to store. *)
MethodCall(m, i) ==
  LET called == Frame(i.n, Top(m))
  IN  [Advance(Pop(m, 1)) EXCEPT !.frames = Append(@, called)]

Return(m) ==
  IF Len(m.frames) = 1 THEN Stop(m, "done") ELSE [m EXCEPT !.frames = Front(@)]

NewObject(m) ==
  [Push(m, RefSlot(Len(m.heap) + 1)) EXCEPT !.heap = Append(@, [dims |-> <<>>, slots |-> <<>>])]

LoadOps == {"LOAD_INT_LIT", "LOAD_FLOAT_LIT", "LOAD_INST_MEM", "LOAD_INT_VAR", "LOAD_FLOAT_VAR"}
StoreOps == {"STOR_INT_VAR", "STOR_FLOAT_VAR", "COPY_INT_VAR", "COPY_FLOAT_VAR"}
CalculationOps == {"EQL", "NEQL", "LES", "GTR", "LES_EQL", "GTR_EQL", "ADD", "SUB", "MUL", "DIV",
                   "MOD", "SHL", "SHR", "BIT_AND", "BIT_OR", "BIT_XOR"}
IntCalculations == [op \in {c \o "_INT" : c \in CalculationOps} |-> CHOOSE c \in CalculationOps : op = c \o "_INT"]
FloatCalculations == [op \in {c \o "_FLOAT" : c \in CalculationOps} |-> CHOOSE c \in CalculationOps : op = c \o "_FLOAT"]
LoadElementOps == {"LOAD_INT_ARY_ELM", "LOAD_FLOAT_ARY_ELM", "LOAD_BYTE_ARY_ELM"}
StoreElementOps == {"STOR_INT_ARY_ELM", "STOR_FLOAT_ARY_ELM", "STOR_BYTE_ARY_ELM"}
NewOps == {"NEW_INT_ARY", "NEW_FLOAT_ARY", "NEW_BYTE_ARY", "NEW_OBJ_INST"}

(* What an instruction that stays in its method does. *)
Compute(m, i) ==
  CASE i.op \in LoadOps -> Load(m, i)
    [] i.op \in StoreOps -> Store(m, i)
    [] i.op \in DOMAIN IntCalculations -> Calculate(m, IntCalculations[i.op], "int")
    [] i.op \in DOMAIN FloatCalculations -> Calculate(m, FloatCalculations[i.op], "float")
    [] i.op \in {"I2F", "F2I"} -> Convert(m, i.op)
    [] i.op \in LoadElementOps -> AccessElement(m, i, FALSE)
    [] i.op \in StoreElementOps -> AccessElement(m, i, TRUE)
    [] i.op = "NEW_OBJ_INST" -> NewObject(m)
    [] i.op \in NewOps -> NewArray(m, i)
    [] i.op \in {"POP_INT", "POP_FLOAT"} -> Pop(m, 1)
    [] i.op = "SWAP_INT" -> Push(Push(Pop(m, 2), Top(m)), Below(m))
    [] i.op = "LBL" -> m
====
