--------------------------- MODULE NativeCompiler ---------------------------
(***************************************************************************)
(* The translation of a method's stack code to AMD64 code, as              *)
(* src/vm/jit/amd64/jit_amd_lp64.cpp and .h do it, one instruction after   *)
(* the other.                                                              *)
(*                                                                         *)
(* The compiler keeps the calculation stack at compile time: an item is    *)
(* what will be there, [type, v]: an immediate ("IMM_INT", "IMM_FLOAT") v,  *)
(* what is in register v ("REG_..") or in place v of the frame ("MEM_..").  *)
(* Code is only emitted when an item has to be somewhere.  A place is a    *)
(* variable's number, or one of those below.                               *)
(*                                                                         *)
(* A machine instruction is [op, to, from, n]: to and from are operands,   *)
(* [at, v, n], an immediate, a register, a place of the frame, or a part    *)
(* of the object register v points at.  An address, of several             *)
(* instructions, is one operand, and so is a shift count, which goes        *)
(* through RCX, a register no item is ever in.  Left out: function          *)
(* variables, traps, class memory, Char arrays, Floor and Ceil.             *)
(***************************************************************************)
EXTENDS Integers, SequencesExt

CONSTANT
  ProcessIntFold(_, _, _)   \* what an operation on two literals gives

VARIABLE
  jit                       \* the translation going on

NoTranslation == [index |-> 0]

INSTANCE_MEM == -1
TMP_REG == [n \in 0 .. 7 |-> -2 - n]      \* for a register across a call
TMP_XMM == [n \in 0 .. 5 |-> -20 - n]
SavedRegs == 6                            \* how many of each are kept there
SavedXmms == 3

Item(type, v) == [type |-> type, v |-> v]
Imm(kind, n) == [at |-> "IMM", v |-> kind, n |-> n]
Reg(r) == [at |-> "REG", v |-> r, n |-> 0]
Mem(place) == [at |-> "MEM", v |-> place, n |-> 0]
Field(r, n) == [at |-> "FIELD", v |-> r, n |-> n]       \* word n of the object
Dim(r, n) == [at |-> "DIM", v |-> r, n |-> n]           \* an array's dimension, its size for 0
Elem(r, size) == [at |-> size, v |-> r, n |-> 0]        \* the element at the address in r
NoOperand == [at |-> "NONE", v |-> 0, n |-> 0]
Mach(op, to, from, n) == [op |-> op, to |-> to, from |-> from, n |-> n]
Mov(to, from) == Mach("MOV", to, from, 0)

Operand(item) ==
  CASE item.type \in {"IMM_INT", "IMM_FLOAT"} -> Imm(item.type, item.v)
    [] item.type \in {"REG_INT", "REG_FLOAT"} -> Reg(item.v)
    [] OTHER -> Mem(item.v)
IsFloat(item) == item.type \in {"IMM_FLOAT", "REG_FLOAT", "MEM_FLOAT"}
InReg(item) == item.type \in {"REG_INT", "REG_FLOAT"}

Comparisons == {"EQL", "NEQL", "LES", "GTR", "LES_EQL", "GTR_EQL"}
IntOperations ==
  [ADD_INT |-> "ADD", SUB_INT |-> "SUB", MUL_INT |-> "MUL", DIV_INT |-> "DIV", MOD_INT |-> "MOD", SHL_INT |-> "SHL", SHR_INT |-> "SHR",
   BIT_AND_INT |-> "BIT_AND", BIT_OR_INT |-> "BIT_OR", BIT_XOR_INT |-> "BIT_XOR", EQL_INT |-> "EQL", NEQL_INT |-> "NEQL",
   LES_INT |-> "LES", GTR_INT |-> "GTR", LES_EQL_INT |-> "LES_EQL", GTR_EQL_INT |-> "GTR_EQL"]
FloatOperations ==
  [ADD_FLOAT |-> "ADD", SUB_FLOAT |-> "SUB", MUL_FLOAT |-> "MUL", DIV_FLOAT |-> "DIV", EQL_FLOAT |-> "EQL", NEQL_FLOAT |-> "NEQL",
   LES_FLOAT |-> "LES", GTR_FLOAT |-> "GTR", LES_EQL_FLOAT |-> "LES_EQL", GTR_EQL_FLOAT |-> "GTR_EQL"]
ElementLoads == {"LOAD_INT_ARY_ELM", "LOAD_FLOAT_ARY_ELM", "LOAD_BYTE_ARY_ELM"}
ElementStores == {"STOR_INT_ARY_ELM", "STOR_FLOAT_ARY_ELM", "STOR_BYTE_ARY_ELM"}
NewArrays == {"NEW_INT_ARY", "NEW_FLOAT_ARY", "NEW_BYTE_ARY"}

-----------------------------------------------------------------------------
(* The state of a translation.  .stack has its front first, .aval, .aux and *)
(* .xmms are taken from and returned to at their ends; .offsets are where   *)
(* the code of an instruction begins, .joins the stacks labels are met     *)
(* with, .got is the register last taken.                                  *)
XmmRegs == <<"XMM15", "XMM14", "XMM13", "XMM12", "XMM11", "XMM10">>
Fresh(instrs, params, sigs) ==
  [instrs |-> instrs, params |-> params, sigs |-> sigs, index |-> 1, stack |-> <<>>,
   aval |-> <<"RBX", "RAX">>, aux |-> <<"R15", "R14", "R13", "R11", "R10", "R8">>, xmms |-> XmmRegs,
   code |-> <<>>, offsets |-> <<>>, joins |-> {}, skip_jump |-> FALSE, success |-> TRUE, got |-> "RAX"]

AddCode(j, ops) == [j EXCEPT !.code = @ \o ops]
PushItem(j, item) == [j EXCEPT !.stack = <<item>> \o @]
DropItems(j, n) == [j EXCEPT !.stack = SubSeq(@, n + 1, Len(@))]
FirstItem(j) == Head(j.stack)
SecondItem(j) == j.stack[2]

(* A register, of the auxiliary ones if none is left and they will do; when *)
(* there is none the method will not be compiled.                           *)
GetRegister(j, use_aux) ==
  IF j.aval # <<>> THEN [j EXCEPT !.aval = Front(@), !.got = Last(j.aval)]
  ELSE IF use_aux /\ j.aux # <<>> THEN [j EXCEPT !.aux = Front(@), !.got = Last(j.aux)]
  ELSE [j EXCEPT !.success = FALSE, !.got = "RAX"]

GetXmmRegister(j) ==
  IF j.xmms # <<>> THEN [j EXCEPT !.xmms = Front(@), !.got = Last(j.xmms)]
  ELSE [j EXCEPT !.success = FALSE, !.got = "XMM0"]

ReleaseRegister(j, r) == [j EXCEPT !.aval = Append(@, r)]
ReleaseXmmRegister(j, r) == [j EXCEPT !.xmms = Append(@, r)]
Release(j, item) ==
  CASE item.type = "REG_INT" -> ReleaseRegister(j, item.v)
    [] item.type = "REG_FLOAT" -> ReleaseXmmRegister(j, item.v)
    [] OTHER -> j

(* The item in a register, .got: its own, or one that is loaded; a float    *)
(* literal by its address, in another register for the moment.              *)
LoadedTo(j, item) == AddCode(j, <<Mov(Reg(j.got), Operand(item))>>)
Passing(j) ==
  LET returned(k) == [ReleaseRegister(k, k.got) EXCEPT !.got = j.got]
  IN  returned(GetRegister(j, TRUE))
Loaded(j, item, use_aux) ==
  CASE InReg(item) -> [j EXCEPT !.got = item.v]
    [] item.type \in {"IMM_INT", "MEM_INT"} -> LoadedTo(GetRegister(j, use_aux), item)
    [] item.type = "MEM_FLOAT" -> LoadedTo(GetXmmRegister(j), item)
    [] OTHER -> LoadedTo(Passing(GetXmmRegister(j)), item)

InRegister(item, r) == Item(IF IsFloat(item) THEN "REG_FLOAT" ELSE "REG_INT", r)

(* The item moved somewhere, through a register unless it is in one or is   *)
(* an integer literal; no register is left to it.                           *)
Moved(j, item, to) ==
  LET through(k) == Release(AddCode(k, <<Mov(to, Reg(k.got))>>), InRegister(item, k.got))
  IN  IF item.type = "IMM_INT" THEN AddCode(j, <<Mov(to, Operand(item))>>) ELSE through(Loaded(j, item, TRUE))

(* Two registers are taken and returned around a call of the collector.     *)
TwoRegisters(j) ==
  LET another(k) == [j |-> GetRegister(k, TRUE), first |-> k.got]
  IN  another(GetRegister(j, TRUE))
ReturnedTwo(j, first, second) == ReleaseRegister(ReleaseRegister(j, first), second)
CallRoot(j) ==
  LET called(t) == AddCode(ReturnedTwo(t.j, t.first, t.j.got), <<Mach("CALL", NoOperand, NoOperand, 0)>>)
  IN  called(TwoRegisters(j))

-----------------------------------------------------------------------------
(* A value from the operand stack, through registers that hold its address  *)
(* and its position.  The result of a call takes the register of the        *)
(* address, a parameter one of its own.                                     *)
Trash(regs) == [n \in DOMAIN regs |-> Mach("SCRATCH", Reg(regs[n]), NoOperand, 0)]
PopTo(r) == Mach("POP", Reg(r), NoOperand, 0)

ProcessFloatCallParameter(j) ==
  LET popped(k, first, second) == PushItem(ReturnedTwo(AddCode(k, Append(Trash(<<first, second>>), PopTo(k.got))), first, second),
                                           Item("REG_FLOAT", k.got))
      through(t) == popped(GetXmmRegister(t.j), t.first, t.j.got)
  IN  through(TwoRegisters(j))

ProcessIntCallParameter(j) ==
  LET popped(t) == PushItem(ReleaseRegister(AddCode(t.j, Append(Trash(<<t.j.got>>), PopTo(t.first))), t.j.got),
                            Item("REG_INT", t.first))
  IN  popped(TwoRegisters(j))

ProcessReturnParameters(j, type) ==
  CASE type = "INT" -> ProcessIntCallParameter(j)
    [] type = "FLOAT" -> ProcessFloatCallParameter(j)
    [] OTHER -> j

(* The first n items to the operand stack, the last of them first.  All of   *)
(* them are pushed before the registers of any are returned.                *)
Pushed(j, item) ==
  LET push(k, o) == AddCode(k, <<Mach("PUSH", NoOperand, o, 0)>>)
      through(k) == Release(push(k, Reg(k.got)), InRegister(item, k.got))
  IN  IF item.type \in {"IMM_INT", "REG_INT", "REG_FLOAT"} THEN push(j, Operand(item)) ELSE through(Loaded(j, item, TRUE))
AllPushed(j, items) ==
  LET pushed[n \in 0 .. Len(items)] == IF n = 0 THEN j ELSE Pushed(pushed[n - 1], items[Len(items) + 1 - n])
  IN  pushed[Len(items)]
AllReleased(j, items) ==
  LET released[n \in 0 .. Len(items)] == IF n = 0 THEN j ELSE Release(released[n - 1], items[n])
  IN  released[Len(items)]
ProcessReturn(j, n) ==
  LET items == SubSeq(j.stack, 1, n)
      freed(t) == AllReleased(ReturnedTwo(AllPushed(AddCode(t.j, Trash(<<t.first, t.j.got>>)), items), t.first, t.j.got), items)
  IN  IF j.stack = <<>> THEN j ELSE DropItems(freed(TwoRegisters(j)), n)

(* Fault: the registers are not kept around the call.                      *)
FaultProcessStackCallback(j, instr, params) ==
  LET called(k) == ReleaseRegister(AddCode(k, <<Mach("CALLBACK", NoOperand, NoOperand, instr)>>), k.got)
  IN  called(GetRegister(ProcessReturn(j, params), TRUE))

(* The interpreter executes the instruction: the registers of the items it  *)
(* does not take are kept in the frame meanwhile.                           *)
ProcessStackCallback(j, instr, params) ==
  LET kept(float) == SelectSeq(Reverse(SubSeq(j.stack, params + 1, Len(j.stack))), LAMBDA i : InReg(i) /\ IsFloat(i) = float)
      moves(items, places) == [n \in DOMAIN items |-> Mov(Mem(places[n - 1]), Reg(items[n].v))]
      restored(saved) == [n \in DOMAIN saved |-> Mov(saved[n].from, saved[n].to)]
      called(k, saved) == ReleaseRegister(AddCode(k, <<Mach("CALLBACK", NoOperand, NoOperand, instr)>> \o restored(saved)), k.got)
      around(saved) == called(GetRegister(ProcessReturn(AddCode(j, saved), params), TRUE), saved)
  IN  [around(moves(kept(FALSE), TMP_REG) \o moves(kept(TRUE), TMP_XMM)) EXCEPT
         !.success = @ /\ Len(kept(FALSE)) <= SavedRegs /\ Len(kept(TRUE)) <= SavedXmms]

-----------------------------------------------------------------------------
(* One or zero for a condition.  An xmm register has the number of a        *)
(* general one, and it is that one that is written.                         *)
Twins == [XMM10 |-> "R10", XMM11 |-> "R11", XMM12 |-> "R12", XMM13 |-> "R13", XMM14 |-> "R14", XMM15 |-> "R15"]
Cmov(j, r, cond) ==
  LET set(one, to) == ReleaseRegister(AddCode(one, <<Mov(to, Imm("IMM_INT", 0)), Mov(Reg(one.got), Imm("IMM_INT", 1)),
                                                     Mach("CMOV", to, Reg(one.got), cond)>>), one.got)
  IN  set(GetRegister(j, TRUE), Reg(IF r \in DOMAIN Twins THEN Twins[r] ELSE r))

(* A comparison jumps by itself when a conditional jump comes next, which    *)
(* then has nothing to do.                                                  *)
Fuses(j) == j.index <= Len(j.instrs) /\ j.instrs[j.index].op = "JMP" /\ j.instrs[j.index].m # "always"
Compared(j, r, from, cond) ==
  LET compared == AddCode(j, <<Mach("CMP", Reg(r), from, 0)>>)
      jump(next) == Mach("JCC", NoOperand, NoOperand, [cond |-> cond, sense |-> next.m = "true", label |-> next.n])
  IN  IF Fuses(j) THEN [AddCode(compared, <<jump(j.instrs[j.index])>>) EXCEPT !.skip_jump = TRUE] ELSE Cmov(compared, r, cond)

(* RAX is kept in the frame while it has the dividend. *)
Divide(j, op, from, r) ==
  LET mod == op = "MOD"
      save == IF mod \/ r # "RAX" THEN <<Mov(Mem(TMP_REG[0]), Reg("RAX"))>> ELSE <<>>
      source == IF from.at = "REG" /\ from.v = "RAX" THEN Mem(TMP_REG[0]) ELSE from
      result == IF mod THEN <<Mov(Reg(r), Reg("RDX"))>> ELSE IF r # "RAX" THEN <<Mov(Reg(r), Reg("RAX"))>> ELSE <<>>
      restore == IF r # "RAX" THEN <<Mov(Reg("RAX"), Mem(TMP_REG[0]))>> ELSE <<>>
  IN  AddCode(j, save \o <<Mov(Reg("RAX"), Reg(r)), Mach("IDIV", NoOperand, source, 0)>> \o result \o restore)

(* An integer operation on register r; a literal is divided by, and a        *)
(* shift count that is a variable taken, through another register.          *)
Math(j, op, from, r) ==
  LET through == from.at = (IF op \in {"DIV", "MOD"} THEN "IMM" ELSE IF op \in {"SHL", "SHR"} THEN "MEM" ELSE "")
      direct(k, source) == IF op \in {"DIV", "MOD"} THEN Divide(k, op, source, r) ELSE AddCode(k, <<Mach("ALU", Reg(r), source, op)>>)
      indirect(other) == ReleaseRegister(direct(AddCode(other, <<Mov(Reg(other.got), from)>>), Reg(other.got)), other.got)
  IN  IF op \in Comparisons THEN Compared(j, r, from, op)
      ELSE IF through THEN indirect(GetRegister(j, TRUE)) ELSE direct(j, from)

(* The first operand's register gets the result. *)
ProcessIntCalculation(j, op) ==
  LET onto(k, source) == Release(PushItem(Math(k, op, Operand(source), k.got), Item("REG_INT", k.got)), source)
      calculated(k, left, source) == onto(Loaded(k, left, TRUE), source)
      right_first(k, left) == calculated(k, left, Item("REG_INT", k.got))
      process(left, right) ==
        IF left.type = "IMM_INT" /\ right.type = "IMM_INT"
        THEN PushItem(DropItems(j, 2), Item("IMM_INT", ProcessIntFold(op, left.v, right.v)))
        ELSE IF right.type = "MEM_INT" /\ left.type # "MEM_INT" THEN right_first(Loaded(DropItems(j, 2), right, TRUE), left)
        ELSE calculated(DropItems(j, 2), left, right)
  IN  process(FirstItem(j), SecondItem(j))

(* Of a comparison by "less" the operands change places.  Its result, set   *)
(* by the comparison itself already, is set again in a general register.    *)
FloatResult(j, op, dest, source) ==
  LET cond == CASE op = "LES" -> "GTR" [] op = "LES_EQL" -> "GTR_EQL" [] OTHER -> op
      compared == ReleaseXmmRegister(ReleaseXmmRegister(Compared(j, dest, Reg(source), cond), source), dest)
      set(k) == PushItem(Cmov(k, k.got, cond), Item("REG_INT", k.got))
  IN  IF op \in Comparisons THEN set(GetRegister(compared, TRUE))
      ELSE PushItem(ReleaseXmmRegister(AddCode(j, <<Mach("FALU", Reg(dest), Reg(source), op)>>), source), Item("REG_FLOAT", dest))
ProcessFloatCalculation(j, op) ==
  LET second(k, one, swapped) == FloatResult(k, op, IF swapped THEN k.got ELSE one, IF swapped THEN one ELSE k.got)
      first(k, other, swapped) == second(Loaded(k, other, TRUE), k.got, swapped)
      process(left, right, right_first) ==
        first(Loaded(DropItems(j, 2), IF right_first THEN right ELSE left, TRUE), IF right_first THEN left ELSE right,
              right_first # (op \in {"LES", "LES_EQL"}))
  IN  process(FirstItem(j), SecondItem(j), FirstItem(j).type = "IMM_FLOAT" /\ SecondItem(j).type = "MEM_FLOAT")

-----------------------------------------------------------------------------
(* Variables: a local stays where it is until it is needed. *)
VarItem(instr) == Item(IF instr.op \in {"LOAD_FLOAT_VAR", "STOR_FLOAT_VAR"} THEN "MEM_FLOAT" ELSE "MEM_INT", instr.n)
CheckNil(j, r) == AddCode(j, <<Mach("CHECK_NIL", Reg(r), NoOperand, 0)>>)

ProcessLoad(j, instr) ==
  LET load(k, r, object) == AddCode(k, <<Mov(Reg(r), Field(object, instr.n))>>)
      float(k, object) == PushItem(ReleaseRegister(load(k, k.got, object), object), Item("REG_FLOAT", k.got))
      field(k) == IF instr.op = "LOAD_INT_VAR" THEN PushItem(load(CheckNil(k, k.got), k.got, k.got), Item("REG_INT", k.got))
                  ELSE float(GetXmmRegister(CheckNil(k, k.got)), k.got)
  IN  IF instr.m = "LOCL" THEN PushItem(j, VarItem(instr)) ELSE field(Loaded(DropItems(j, 1), FirstItem(j), TRUE))

ProcessStore(j, instr) ==
  LET stored(k, to) == Moved(DropItems(k, 1), FirstItem(k), to)
      field(k) == ReleaseRegister(stored(CheckNil(k, k.got), Field(k.got, instr.n)), k.got)
  IN  IF instr.m = "LOCL" THEN stored(j, Mem(instr.n)) ELSE field(Loaded(DropItems(j, 1), FirstItem(j), TRUE))

(* Fault: the register is returned, as after a store. *)
FaultProcessCopy(j, instr) ==
  LET copied(k, item) == Release(PushItem(AddCode(k, <<Mov(Mem(instr.n), Reg(k.got))>>), item), item)
      held(k) == copied(k, InRegister(FirstItem(j), k.got))
  IN  held(Loaded(DropItems(j, 1), FirstItem(j), TRUE))

(* A copy to a local, the only ones there are, leaves the register. *)
ProcessCopy(j, instr) ==
  LET copied(k) == PushItem(AddCode(k, <<Mov(Mem(instr.n), Reg(k.got))>>), InRegister(FirstItem(j), k.got))
  IN  copied(Loaded(DropItems(j, 1), FirstItem(j), TRUE))

(* The parameters are stored by the first instructions of the method.      *)
ProcessParameter(j) ==
  LET store(k, item, instr, regs) == ReturnedTwo(ProcessStore(PushItem(AddCode(k, Append(Trash(regs), PopTo(k.got))), item), instr), regs[2], regs[1])
      stored(k, instr, regs) == store(k, Item(IF instr.op = "STOR_FLOAT_VAR" THEN "REG_FLOAT" ELSE "REG_INT", k.got), instr, regs)
      popped(t, instr) == stored(IF instr.op = "STOR_FLOAT_VAR" THEN GetXmmRegister(t.j) ELSE GetRegister(t.j, TRUE), instr, <<t.j.got, t.first>>)
  IN  [popped(TwoRegisters(j), j.instrs[j.index]) EXCEPT !.index = @ + 1, !.params = @ - 1, !.offsets = Append(@, Len(j.code) + 1)]

-----------------------------------------------------------------------------
Joined(j, label) == [j EXCEPT !.joins = @ \cup {[label |-> label, stack |-> j.stack]}]

(* A value decides: it is compared, and its register returned. *)
JumpTested(j, instr) ==
  LET jump == Mach("JCC", NoOperand, NoOperand, [cond |-> "EQL", sense |-> TRUE, label |-> instr.n])
      value == Imm("IMM_INT", IF instr.m = "true" THEN 1 ELSE 0)
      compared(k) == ReleaseRegister(AddCode(k, <<Mach("CMP", Reg(k.got), value, 0), jump>>), k.got)
  IN  Joined(DropItems(compared(Loaded(j, FirstItem(j), TRUE)), 1), instr.n)

(* Fault: of a comparison that has jumped the result stays on the stack. *)
FaultProcessJump(j, instr) ==
  IF j.skip_jump THEN Joined([j EXCEPT !.skip_jump = FALSE], instr.n)
  ELSE IF instr.m = "always" THEN Joined(AddCode(j, <<Mach("JMP", NoOperand, NoOperand, instr.n)>>), instr.n)
  ELSE JumpTested(j, instr)

ProcessJump(j, instr) ==
  IF j.skip_jump THEN Joined(DropItems([Release(j, FirstItem(j)) EXCEPT !.skip_jump = FALSE], 1), instr.n)
  ELSE IF instr.m = "always" THEN Joined(AddCode(j, <<Mach("JMP", NoOperand, NoOperand, instr.n)>>), instr.n)
  ELSE JumpTested(j, instr)

-----------------------------------------------------------------------------
(* The address of an element is left in the register of the array.  The    *)
(* registers of further indices are not returned.                          *)
Bounded(j, array, index) ==
  LET bounds(k) == ReleaseRegister(AddCode(k, <<Mov(Reg(k.got), Dim(array, 0)), Mach("CHECK_BOUNDS", Reg(index), Reg(k.got), 0)>>), k.got)
  IN  bounds(GetRegister(j, TRUE))
IndexedFurther(j, array, index, dims) ==
  LET times(k, n) == DropItems(AddCode(k, <<Mach("ALU", Reg(index), Dim(array, n), "MUL"),
                                            Mach("ALU", Reg(index), Operand(FirstItem(k)), "ADD")>>), 1)
      further[n \in 1 .. dims] == IF n = 1 THEN j ELSE times(further[n - 1], n)
  IN  further[dims]
ElementAddress(j, dims) ==
  LET added(k, array, index) == [ReleaseRegister(AddCode(k, <<Mach("ELEM", Reg(array), Reg(index), 0)>>), index) EXCEPT !.got = array]
      indexed(k, array) == added(Bounded(IndexedFurther(k, array, k.got, dims), array, k.got), array, k.got)
      checked(k) == indexed(Loaded(CheckNil(k, k.got), SecondItem(j), TRUE), k.got)
  IN  checked(Loaded(DropItems(j, 2), FirstItem(j), TRUE))

Size(op) == IF op \in {"LOAD_BYTE_ARY_ELM", "STOR_BYTE_ARY_ELM"} THEN "BYTE" ELSE "WORD"

ProcessLoadElement(j, instr) ==
  LET load(k, r, address) == AddCode(k, <<Mov(Reg(r), Elem(address, Size(instr.op)))>>)
      other(k, address, kind) == PushItem(ReleaseRegister(load(k, k.got, address), address), Item(kind, k.got))
      element(k) == CASE instr.op = "LOAD_INT_ARY_ELM" -> PushItem(load(k, k.got, k.got), Item("REG_INT", k.got))
                      [] instr.op = "LOAD_BYTE_ARY_ELM" -> other(GetRegister(k, TRUE), k.got, "REG_INT")
                      [] OTHER -> other(GetXmmRegister(k), k.got, "REG_FLOAT")
  IN  element(ElementAddress(j, instr.n))

(* A byte that is a variable goes through a register that is not auxiliary. *)
ProcessStoreElement(j, instr) ==
  LET byte(k, to) == ReleaseRegister(AddCode(k, <<Mov(to, Reg(k.got))>>), k.got)
      stored(k, item, to) == IF instr.op = "STOR_BYTE_ARY_ELM" /\ item.type = "MEM_INT" THEN byte(Loaded(k, item, FALSE), to)
                             ELSE Moved(k, item, to)
      element(k) == ReleaseRegister(stored(DropItems(k, 1), FirstItem(k), Elem(k.got, Size(instr.op))), k.got)
  IN  element(ElementAddress(j, instr.n))

(* The result's register is taken first; a literal goes through another.   *)
ProcessConversion(j, op) ==
  LET converted(k, to, item) == AddCode(k, <<Mach("CVT", Reg(to), Operand(item), op)>>)
      literal(k, to, item) == ReleaseRegister(converted(k, to, item), k.got)
      done(k, item) == IF item.type \in {"IMM_INT", "IMM_FLOAT"} THEN literal(GetRegister(k, TRUE), k.got, item)
                       ELSE Release(converted(k, k.got, item), item)
      result(k) == PushItem(done(k, FirstItem(j)), Item(IF op = "F2I" THEN "REG_INT" ELSE "REG_FLOAT", k.got))
  IN  result(IF op = "F2I" THEN GetRegister(DropItems(j, 1), TRUE) ELSE GetXmmRegister(DropItems(j, 1)))

-----------------------------------------------------------------------------
(* A call takes the instance and the parameters, sigs tells how many they   *)
(* are and what comes back.                                                 *)
ProcessInstruction(j, instr) ==
  CASE instr.op = "LOAD_INT_LIT" -> PushItem(j, Item("IMM_INT", instr.n))
    [] instr.op = "LOAD_FLOAT_LIT" -> PushItem(j, Item("IMM_FLOAT", instr.n))
    [] instr.op = "LOAD_INST_MEM" -> PushItem(j, Item("MEM_INT", INSTANCE_MEM))
    [] instr.op \in {"LOAD_INT_VAR", "LOAD_FLOAT_VAR"} -> ProcessLoad(j, instr)
    [] instr.op \in {"STOR_INT_VAR", "STOR_FLOAT_VAR"} -> ProcessStore(j, instr)
    [] instr.op \in {"COPY_INT_VAR", "COPY_FLOAT_VAR"} -> ProcessCopy(j, instr)
    [] instr.op \in DOMAIN IntOperations -> ProcessIntCalculation(j, IntOperations[instr.op])
    [] instr.op \in DOMAIN FloatOperations -> ProcessFloatCalculation(j, FloatOperations[instr.op])
    [] instr.op \in {"F2I", "I2F"} -> ProcessConversion(j, instr.op)
    [] instr.op \in ElementLoads -> ProcessLoadElement(j, instr)
    [] instr.op \in ElementStores -> ProcessStoreElement(j, instr)
    [] instr.op = "NEW_OBJ_INST" -> ProcessReturnParameters(ProcessStackCallback(j, instr, 0), "INT")
    [] instr.op \in NewArrays -> ProcessReturnParameters(ProcessStackCallback(j, instr, instr.n), "INT")
    [] instr.op = "MTHD_CALL" -> ProcessReturnParameters(ProcessStackCallback(j, instr, j.sigs[instr.n].params + 1), j.sigs[instr.n].type)
    [] instr.op \in {"POP_INT", "POP_FLOAT"} -> IF j.stack = <<>> THEN j ELSE DropItems(Release(j, FirstItem(j)), 1)
    [] instr.op = "SWAP_INT" -> PushItem(PushItem(DropItems(j, 2), FirstItem(j)), SecondItem(j))
    [] instr.op = "RTRN" -> AddCode(CallRoot(ProcessReturn(j, Len(j.stack))), <<Mach("RET", NoOperand, NoOperand, 0)>>)
    [] instr.op = "JMP" -> ProcessJump(j, instr)
    [] instr.op = "LBL" -> Joined(j, instr.n)

Prolog(instrs, params, sigs) == CallRoot(Fresh(instrs, params, sigs))
Translating(j) == j.success /\ j.index <= Len(j.instrs)
Translated(j) ==
  IF j.params > 0 THEN ProcessParameter(j)
  ELSE ProcessInstruction([j EXCEPT !.index = @ + 1, !.offsets = Append(@, Len(j.code) + 1)], j.instrs[j.index])

(* A jump goes behind the first label of its number. *)
NativeTarget(j, label) == j.offsets[SelectInSeq(j.instrs, LAMBDA i : i.op = "LBL" /\ i.n = label) + 1]

StartCompiling(instrs, params, sigs) ==
  /\ jit = NoTranslation
  /\ jit' = Prolog(instrs, params, sigs)
CompileInstruction ==
  /\ jit # NoTranslation /\ Translating(jit)
  /\ jit' = Translated(jit)
StopCompiling ==
  /\ jit # NoTranslation /\ ~Translating(jit)
  /\ jit' = NoTranslation

-----------------------------------------------------------------------------
(* What the compiler of the language sees to: a parameter is stored in a    *)
(* local, and other instructions find what they take on the stack.          *)
Taken(j, instr) ==
  CASE instr.op \in {"LOAD_INT_LIT", "LOAD_FLOAT_LIT", "LOAD_INST_MEM", "NEW_OBJ_INST", "POP_INT", "POP_FLOAT", "RTRN", "LBL"} -> 0
    [] instr.op \in {"LOAD_INT_VAR", "LOAD_FLOAT_VAR"} -> IF instr.m = "LOCL" THEN 0 ELSE 1
    [] instr.op \in {"STOR_INT_VAR", "STOR_FLOAT_VAR"} -> IF instr.m = "LOCL" THEN 1 ELSE 2
    [] instr.op \in {"COPY_INT_VAR", "COPY_FLOAT_VAR", "F2I", "I2F"} -> 1
    [] instr.op \in DOMAIN IntOperations \cup DOMAIN FloatOperations \cup {"SWAP_INT"} -> 2
    [] instr.op \in ElementLoads -> instr.n + 1
    [] instr.op \in ElementStores -> instr.n + 2
    [] instr.op \in NewArrays -> instr.n
    [] instr.op = "MTHD_CALL" -> j.sigs[instr.n].params + 1
    [] instr.op = "JMP" -> IF instr.m = "always" /\ ~j.skip_jump THEN 0 ELSE 1
    [] OTHER -> -1
Fed(j) ==
  LET instr == j.instrs[j.index]
  IN  /\ IF j.params > 0 THEN instr.op \in {"STOR_INT_VAR", "STOR_FLOAT_VAR"} /\ instr.m = "LOCL"
         ELSE Taken(j, instr) \in 0 .. Len(j.stack)
      /\ instr.op \in ElementLoads \cup ElementStores => instr.n \in Nat \ {0}

CompileNext ==
  \/ \E instrs, params, sigs : StartCompiling(instrs, params, sigs)
  \/ Fed(jit) /\ CompileInstruction
  \/ StopCompiling
CompileSpec == jit = NoTranslation /\ [][CompileNext]_jit

(* While code is generated no register is both free and in use, or free     *)
(* twice, or what two items are in (GetRegister and ReleaseRegister,        *)
(* jit_amd_lp64.h:825): what is left in it would be lost.                   *)
NoAlias ==
  LET free == jit.aval \o jit.aux \o jit.xmms
      used == {n \in DOMAIN jit.stack : InReg(jit.stack[n])}
  IN  jit # NoTranslation /\ jit.success =>
        /\ IsInjective(free)
        /\ \A n \in used : \A r \in DOMAIN free : free[r] # jit.stack[n].v
        /\ \A m, n \in used : jit.stack[m].v = jit.stack[n].v => m = n
====
