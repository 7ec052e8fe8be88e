--------------------------- MODULE MemoryManager ---------------------------
(***************************************************************************)
(* The memory manager of the Objeck virtual machine (src/vm/os/posix/      *)
(* memory.h and memory.cpp, built without _GC_SERIAL) together with the    *)
(* instructions of src/vm/interpreter.cpp and the traps of                 *)
(* src/vm/common.cpp that allocate, load and store references.             *)
(*                                                                         *)
(* Processes: the threads that run Objeck code, the collector thread a     *)
(* thread starts when an allocation would exceed mem_max_size, and the     *)
(* four marker threads of one collection.  Only the thread that started    *)
(* the collection waits for it: every other thread keeps running.          *)
(*                                                                         *)
(* Data kept: which block a slot refers to (integers, floats and the       *)
(* contents of primitive arrays are left out), the kind of a block, its    *)
(* mark, its cache pool, the sizes that drive the collector's threshold.   *)
(***************************************************************************)
EXTENDS Integers, Sequences, FiniteSets

CONSTANTS
  Threads,           \* threads that execute Objeck code
  Blocks,            \* addresses malloc can return
  Nil,               \* the null reference
  None,              \* "no thread", "no kind", "not cached" (CACHE_SIZE -1)
  Fields,            \* reference fields of an object, elements of an array
  Statics,           \* reference variables in class memory
  Locals,            \* reference variables of a frame, 'self' included
  JitFrames,         \* native activations whose memory can be a root
  JitVars,           \* declared reference variables of a native activation
  JitTemps,          \* its temporaries (mem[0..7] after the declarations)
  StackDepth,        \* deepest use of a calculation stack (bound)
  Program,           \* allocating operations the bytecode contains
  Pools,             \* cache pools (16, 32, 64, 256 and 512 bytes)
  Home,              \* [Pools -> SUBSET Blocks]: blocks Initialize caches
  PoolOf,            \* [Kinds -> Pools \cup {None}]: pool by request size
  Size,              \* [Kinds -> Nat]: bytes the compiler asked for
  SizeFactor,        \* 2 under _X64 (AllocateObject: size *= 2), else 1
  POOL_SIZE, MEM_MAX, UNCOLLECTED_COUNT, COLLECTED_COUNT

Kinds == {"object", "obj_array", "prim_array"}
Markers == {"static", "stack", "pda", "jit"}
Collector == "collector"

(***************************************************************************)
(* Allocating operations, named for the instruction or function that       *)
(* makes them, and the kind of block each asks for.  CreateStringObject    *)
(* asks for the characters first and for the String object second.         *)
(***************************************************************************)
Jobs == {"NEW_OBJ_INST", "NEW_INT_ARY", "NEW_CHAR_ARY", "LOAD_MULTI_ARY_SIZE",
         "CreateStringObject", "CreateStringObject2"}

JobKind(j) == CASE j \in {"NEW_OBJ_INST", "CreateStringObject2"} -> "object"
                [] j = "NEW_INT_ARY"                             -> "obj_array"
                [] OTHER                                         -> "prim_array"

\* The field of a String that refers to its characters.
CharsField == CHOOSE f \in Fields : TRUE

\* CreateStringObject passes collect = false, the others collect = true.
Collects(j) == j \notin {"CreateStringObject", "CreateStringObject2"}

ASSUME SetsAssumption ==
  /\ Nil \notin Blocks
  /\ None \notin Threads \cup Kinds \cup Pools \cup Markers \cup {Collector}
  /\ Program \subseteq (Jobs \ {"CreateStringObject2"})
  /\ "class" \notin Blocks \cup Threads \cup JitFrames
  /\ Blocks \cap Threads = {} /\ Blocks \cap JitFrames = {} /\ Threads \cap JitFrames = {}
ASSUME NumbersAssumption ==
  /\ StackDepth \in Nat /\ POOL_SIZE \in Nat /\ MEM_MAX \in Nat
  /\ UNCOLLECTED_COUNT \in Nat /\ COLLECTED_COUNT \in Nat
  /\ SizeFactor \in {1, 2}
  /\ Size \in [Kinds -> Nat]
ASSUME PoolAssumption ==
  /\ PoolOf \in [Kinds -> Pools \cup {None}]
  /\ Home \in [Pools -> SUBSET Blocks]
  /\ \A p \in Pools : IsFiniteSet(Home[p]) /\ Cardinality(Home[p]) = POOL_SIZE
  /\ \A p, q \in Pools : p # q => Home[p] \cap Home[q] = {}

(***************************************************************************)
(* Memory that can hold a reference.                                       *)
(***************************************************************************)
FieldSlots(b) == {b} \X Fields
StaticSlots   == {"class"} \X Statics
LocalSlots(t) == {t} \X Locals
OpSlots(t)    == {t} \X (0 .. StackDepth)
TypedJitSlots(j) == {j} \X (JitVars \cup {"self"})
TempJitSlots(j)  == {j} \X JitTemps

Slots == (Blocks \X Fields) \cup StaticSlots
         \cup (Threads \X Locals) \cup (Threads \X (0 .. StackDepth))
         \cup (JitFrames \X (JitVars \cup {"self"})) \cup (JitFrames \X JitTemps)

\* Fault: the calculation stack taken for references throughout.
ConservativeSlots_TempsOnly == JitFrames \X JitTemps

\* Slots whose content need not be a reference: CheckObject(_, false, _).
ConservativeSlots == (Threads \X (0 .. StackDepth)) \cup (JitFrames \X JitTemps)

VARIABLES
  mem,               \* [Slots -> Blocks \cup {Nil}]
  kind,              \* headers TYPE and SIZE_OR_CLS of a block
  flag,              \* header MARKED_FLAG
  cache_size,        \* header CACHE_SIZE: the pool the block came from
  stack_pos,         \* [Threads -> 0 .. StackDepth]
  jit_roots,         \* [JitFrames -> Threads \cup {None}]: registered roots
  pda_monitors,      \* threads whose interpreter has a monitor registered
  allocated_memory, sorted,  \* the vector as a set, and whether it is sorted
  marked_memory,
  cache_pool,        \* [Pools -> Seq(Blocks)], the top is the last element
  heap_free,         \* blocks malloc may return
  allocation_size, mem_max_size, uncollected_count, collected_count,
  pc, job, blk, scratch,     \* threads: location, request, block, C local
  cpc, info, live_memory, unswept,        \* collector: location, CollectionInfo
  mpc, at, todo,     \* markers: location, block at hand, slots to check
  allocated_mutex, marked_mutex, marked_sweep_mutex, jit_mutex, pda_monitor_mutex

heapVars   == <<mem, kind, flag, cache_size>>
rootVars   == <<stack_pos, jit_roots, pda_monitors>>
storeVars  == <<allocated_memory, sorted, cache_pool, heap_free>>
sizeVars   == <<allocation_size, mem_max_size, uncollected_count, collected_count>>
threadVars == <<pc, job, blk, scratch>>
gcVars     == <<cpc, info, live_memory, unswept, marked_memory>>
markVars   == <<mpc, at, todo>>
lockVars   == <<allocated_mutex, marked_mutex, marked_sweep_mutex, jit_mutex,
                pda_monitor_mutex>>
vars == <<heapVars, rootVars, storeVars, sizeVars, threadVars, gcVars, markVars,
          lockVars>>

Refs == Blocks \cup {Nil}

\* MemoryManager::Initialize: the pools are filled, nothing is allocated.
Init ==
  /\ mem = [s \in Slots |-> Nil]
  /\ kind = [b \in Blocks |-> None]
  /\ flag = [b \in Blocks |-> FALSE]
  /\ cache_size = [b \in Blocks |-> None]
  /\ stack_pos = [t \in Threads |-> 0]
  /\ jit_roots = [j \in JitFrames |-> None]
  /\ pda_monitors = {}
  /\ allocated_memory = {} /\ sorted = TRUE /\ marked_memory = {}
  /\ cache_pool \in [Pools -> [1 .. POOL_SIZE -> Blocks]]
  /\ \A p \in Pools :
       /\ {cache_pool[p][i] : i \in 1 .. POOL_SIZE} = Home[p]
       /\ \A i, k \in 1 .. POOL_SIZE : cache_pool[p][i] = cache_pool[p][k] => i = k
  /\ heap_free = Blocks \ UNION {Home[p] : p \in Pools}
  /\ allocation_size = 0 /\ mem_max_size = MEM_MAX
  /\ uncollected_count = 0 /\ collected_count = 0
  /\ pc = [t \in Threads |-> "off"]
  /\ job = [t \in Threads |-> None]
  /\ blk = [t \in Threads |-> Nil]
  /\ scratch = [t \in Threads |-> Nil]
  /\ cpc = "idle" /\ info = None /\ live_memory = {} /\ unswept = {}
  /\ mpc = [m \in Markers |-> "off"]
  /\ at = [m \in Markers |-> Nil]
  /\ todo = [m \in Markers |-> {}]
  /\ allocated_mutex = None /\ marked_mutex = None /\ marked_sweep_mutex = None
  /\ jit_mutex = None /\ pda_monitor_mutex = None


(***************************************************************************)
(* Threads: the calculation stack and the variables.  The stack keeps what *)
(* is popped: only stack_pos moves.                                        *)
(***************************************************************************)
Running(t) == pc[t] = "run"
CanPush(t) == stack_pos[t] < StackDepth
Top(t)     == mem[<<t, stack_pos[t] - 1>>]
Second(t)  == mem[<<t, stack_pos[t] - 2>>]

\* Reference variables thread t can name: class memory, its frame, its
\* native activations.
Variables(t) == StaticSlots \cup LocalSlots(t)
                \cup UNION {TypedJitSlots(j) \cup TempJitSlots(j) :
                            j \in {i \in JitFrames : jit_roots[i] = t}}

\* The constructor of an interpreter registers its monitor; the frame it
\* starts with has been zeroed.
StartThread(t) ==
  /\ pc[t] = "off" /\ pda_monitor_mutex = None
  /\ pda_monitors' = pda_monitors \cup {t}
  /\ mem' = [s \in Slots |-> IF s \in LocalSlots(t) THEN Nil ELSE mem[s]]
  /\ pc' = [pc EXCEPT ![t] = "run"]
  /\ UNCHANGED <<kind, flag, cache_size, stack_pos, jit_roots, job, blk, scratch,
                 storeVars, sizeVars, gcVars, markVars, lockVars>>

\* The destructor removes the monitor.
EndThread(t) ==
  /\ Running(t) /\ stack_pos[t] = 0 /\ pda_monitor_mutex = None
  /\ \A j \in JitFrames : jit_roots[j] # t
  /\ pda_monitors' = pda_monitors \ {t}
  /\ pc' = [pc EXCEPT ![t] = "off"]
  /\ UNCHANGED <<heapVars, stack_pos, jit_roots, job, blk, scratch,
                 storeVars, sizeVars, gcVars, markVars, lockVars>>

\* LOAD_LOCL_INT_VAR, LOAD_CLS_MEM with LOAD_CLS_INST_INT_VAR, and the loads
\* of native code.
LoadVar(t, s) ==
  /\ Running(t) /\ CanPush(t)
  /\ mem' = [mem EXCEPT ![<<t, stack_pos[t]>>] = mem[s]]
  /\ stack_pos' = [stack_pos EXCEPT ![t] = @ + 1]
  /\ UNCHANGED <<kind, flag, cache_size, jit_roots, pda_monitors,
                 threadVars, storeVars, sizeVars, gcVars, markVars, lockVars>>

\* STOR_LOCL_INT_VAR, STOR_CLS_INST_INT_VAR on class memory, native stores.
StoreVar(t, s) ==
  /\ Running(t) /\ stack_pos[t] > 0
  /\ mem' = [mem EXCEPT ![s] = Top(t)]
  /\ stack_pos' = [stack_pos EXCEPT ![t] = @ - 1]
  /\ UNCHANGED <<kind, flag, cache_size, jit_roots, pda_monitors,
                 threadVars, storeVars, sizeVars, gcVars, markVars, lockVars>>

\* LOAD_CLS_INST_INT_VAR and LOAD_INT_ARY_ELM: the instance is popped, the
\* field is pushed.  A Nil instance ends the program.
LoadField(t, f) ==
  /\ Running(t) /\ stack_pos[t] > 0
  /\ Top(t) # Nil /\ kind[Top(t)] \in {"object", "obj_array"}
  /\ mem' = [mem EXCEPT ![<<t, stack_pos[t] - 1>>] = mem[<<Top(t), f>>]]
  /\ UNCHANGED <<kind, flag, cache_size, rootVars,
                 threadVars, storeVars, sizeVars, gcVars, markVars, lockVars>>

\* STOR_CLS_INST_INT_VAR and STOR_INT_ARY_ELM: the instance and then the
\* value are popped.
StoreField(t, f) ==
  /\ Running(t) /\ stack_pos[t] > 1
  /\ Top(t) # Nil /\ kind[Top(t)] \in {"object", "obj_array"}
  /\ mem' = [mem EXCEPT ![<<Top(t), f>>] = Second(t)]
  /\ stack_pos' = [stack_pos EXCEPT ![t] = @ - 2]
  /\ UNCHANGED <<kind, flag, cache_size, jit_roots, pda_monitors,
                 threadVars, storeVars, sizeVars, gcVars, markVars, lockVars>>

\* Fault: the calculation stack may underflow.
PopInt_NoGuard(t) ==
  /\ Running(t)
  /\ stack_pos' = [stack_pos EXCEPT ![t] = @ - 1]
  /\ UNCHANGED <<heapVars, jit_roots, pda_monitors,
                 threadVars, storeVars, sizeVars, gcVars, markVars, lockVars>>

\* POP_INT.
PopInt(t) ==
  /\ Running(t) /\ stack_pos[t] > 0
  /\ stack_pos' = [stack_pos EXCEPT ![t] = @ - 1]
  /\ UNCHANGED <<heapVars, jit_roots, pda_monitors,
                 threadVars, storeVars, sizeVars, gcVars, markVars, lockVars>>

\* Fault: the memory of a native method is not zeroed.
AddJitMethodRoot_NoMemset(t, j) ==
  /\ Running(t) /\ stack_pos[t] > 0 /\ jit_roots[j] = None /\ jit_mutex = None
  /\ jit_roots' = [jit_roots EXCEPT ![j] = t]
  /\ mem' = [mem EXCEPT ![<<j, "self">>] = Top(t)]
  /\ stack_pos' = [stack_pos EXCEPT ![t] = @ - 1]
  /\ UNCHANGED <<kind, flag, cache_size, pda_monitors,
                 threadVars, storeVars, sizeVars, gcVars, markVars, lockVars>>

\* A native method starts: AddJitMethodRoot zeroes its memory and registers
\* it with the instance that ProcessJitMethodCall popped.
AddJitMethodRoot(t, j) ==
  /\ Running(t) /\ stack_pos[t] > 0 /\ jit_roots[j] = None /\ jit_mutex = None
  /\ jit_roots' = [jit_roots EXCEPT ![j] = t]
  /\ mem' = [s \in Slots |-> CASE s = <<j, "self">> -> Top(t)
                               [] s \in TypedJitSlots(j) \cup TempJitSlots(j)
                                  /\ s # <<j, "self">> -> Nil
                               [] OTHER -> mem[s]]
  /\ stack_pos' = [stack_pos EXCEPT ![t] = @ - 1]
  /\ UNCHANGED <<kind, flag, cache_size, pda_monitors,
                 threadVars, storeVars, sizeVars, gcVars, markVars, lockVars>>

\* A native method returns.
RemoveJitMethodRoot(t, j) ==
  /\ Running(t) /\ jit_roots[j] = t /\ jit_mutex = None
  /\ jit_roots' = [jit_roots EXCEPT ![j] = None]
  /\ UNCHANGED <<heapVars, stack_pos, pda_monitors,
                 threadVars, storeVars, sizeVars, gcVars, markVars, lockVars>>

(***************************************************************************)
(* Threads: AllocateObject and AllocateArray.                              *)
(***************************************************************************)
\* Bytes a block of kind k counts for when it is allocated and when it is
\* swept: the second does not double the size of an object under _X64.
AllocSize(k) == IF k = "object" THEN SizeFactor * Size[k] ELSE Size[k]
SweptSize(k) == Size[k]

\* Location after the size test at the head of an allocation.
Checked(j) == IF Collects(j) /\ allocation_size + AllocSize(JobKind(j)) > mem_max_size
              THEN "trylock" ELSE "take"

\* The bound Blocks puts on the heap: an operation is started only when the
\* blocks it needs are left.
Left(k) ==
  LET pool == IF PoolOf[k] = None THEN <<>> ELSE cache_pool[PoolOf[k]]
  IN  heap_free \cup {pool[i] : i \in 1 .. Len(pool)}

BlocksLeft(j) ==
  IF j = "CreateStringObject"
  THEN \E chars \in Left("prim_array") : \E string \in Left("object") : chars # string
  ELSE Left(JobKind(j)) # {}

\* An instruction that allocates enters AllocateObject or AllocateArray.
\* LOAD_MULTI_ARY_SIZE first pops the array it is about to measure and keeps
\* the pointer in a C local.
Allocate(t, j) ==
  /\ Running(t) /\ BlocksLeft(j)
  /\ IF j = "LOAD_MULTI_ARY_SIZE"
     THEN /\ stack_pos[t] > 0 /\ Top(t) # Nil
          /\ kind[Top(t)] \in {"obj_array", "prim_array"}
          /\ scratch' = [scratch EXCEPT ![t] = Top(t)]
          /\ stack_pos' = [stack_pos EXCEPT ![t] = @ - 1]
     ELSE CanPush(t) /\ UNCHANGED <<scratch, stack_pos>>
  /\ job' = [job EXCEPT ![t] = j]
  /\ pc' = [pc EXCEPT ![t] = Checked(j)]
  /\ UNCHANGED <<heapVars, jit_roots, pda_monitors, blk,
                 storeVars, sizeVars, gcVars, markVars, lockVars>>

\* CollectMemory(op_stack, stack_pos): start the collector, or go on without
\* a collection when another thread is in one.
TryLock(t) ==
  /\ pc[t] = "trylock"
  /\ IF marked_sweep_mutex = None
     THEN /\ marked_sweep_mutex' = t /\ info' = t /\ cpc' = "sort"
          /\ pc' = [pc EXCEPT ![t] = "join"]
     ELSE /\ pc' = [pc EXCEPT ![t] = "take"]
          /\ UNCHANGED <<marked_sweep_mutex, info, cpc>>
  /\ UNCHANGED <<heapVars, rootVars, storeVars, sizeVars, job, blk, scratch,
                 live_memory, unswept, marked_memory, markVars,
                 allocated_mutex, marked_mutex, jit_mutex, pda_monitor_mutex>>

\* The collector thread has ended: unlock marked_sweep_mutex.
JoinCollector(t) ==
  /\ pc[t] = "join" /\ cpc = "done"
  /\ cpc' = "idle" /\ info' = None /\ marked_sweep_mutex' = None
  /\ pc' = [pc EXCEPT ![t] = "take"]
  /\ UNCHANGED <<heapVars, rootVars, storeVars, sizeVars, job, blk, scratch,
                 live_memory, unswept, marked_memory, markVars,
                 allocated_mutex, marked_mutex, jit_mutex, pda_monitor_mutex>>

\* The block is the top of the pool for its size, read without a lock ...
TakeTop(t) ==
  LET p == PoolOf[JobKind(job[t])] IN
  /\ pc[t] = "take" /\ p # None /\ cache_pool[p] # <<>>
  /\ blk' = [blk EXCEPT ![t] = cache_pool[p][Len(cache_pool[p])]]
  /\ pc' = [pc EXCEPT ![t] = "pop"]
  /\ UNCHANGED <<heapVars, rootVars, job, scratch,
                 storeVars, sizeVars, gcVars, markVars, lockVars>>

\* ... which is then popped, whatever it is by now; the header is written.
PopTop(t) ==
  LET p == PoolOf[JobKind(job[t])] IN
  /\ pc[t] = "pop"
  /\ cache_pool' = [cache_pool EXCEPT ![p] =
                      IF @ = <<>> THEN @ ELSE SubSeq(@, 1, Len(@) - 1)]
  /\ cache_size' = [cache_size EXCEPT ![blk[t]] = p]
  /\ kind' = [kind EXCEPT ![blk[t]] = JobKind(job[t])]
  /\ pc' = [pc EXCEPT ![t] = "record"]
  /\ UNCHANGED <<mem, flag, rootVars, job, blk, scratch, allocated_memory, sorted,
                 heap_free, sizeVars, gcVars, markVars, lockVars>>

\* No pool serves the size, or the pool is empty: calloc.
Calloc(t, b) ==
  LET p == PoolOf[JobKind(job[t])] IN
  /\ pc[t] = "take" /\ (p # None => cache_pool[p] = <<>>)
  /\ b \in heap_free
  /\ heap_free' = heap_free \ {b}
  /\ blk' = [blk EXCEPT ![t] = b]
  /\ mem' = [s \in Slots |-> IF s \in FieldSlots(b) THEN Nil ELSE mem[s]]
  /\ flag' = [flag EXCEPT ![b] = FALSE]
  /\ cache_size' = [cache_size EXCEPT ![b] = None]
  /\ kind' = [kind EXCEPT ![b] = JobKind(job[t])]
  /\ pc' = [pc EXCEPT ![t] = "record"]
  /\ UNCHANGED <<rootVars, job, scratch, allocated_memory, sorted, cache_pool,
                 sizeVars, gcVars, markVars, lockVars>>

\* The block is appended to allocated_memory, which is no longer sorted.
Record(t) ==
  /\ pc[t] = "record" /\ allocated_mutex = None
  /\ allocation_size' = allocation_size + AllocSize(JobKind(job[t]))
  /\ allocated_memory' = allocated_memory \cup {blk[t]}
  /\ sorted' = FALSE
  /\ pc' = [pc EXCEPT ![t] = "finish"]
  /\ UNCHANGED <<heapVars, rootVars, cache_pool, heap_free, job, blk, scratch,
                 mem_max_size, uncollected_count, collected_count,
                 gcVars, markVars, lockVars>>

\* The instruction uses the block.  CreateStringObject keeps the characters
\* in a C local and allocates the String, then links and pushes it.
Finish(t) ==
  /\ pc[t] = "finish"
  /\ blk' = [blk EXCEPT ![t] = Nil]
  /\ IF job[t] = "CreateStringObject"
     THEN /\ scratch' = [scratch EXCEPT ![t] = blk[t]]
          /\ job' = [job EXCEPT ![t] = "CreateStringObject2"]
          /\ pc' = [pc EXCEPT ![t] = Checked("CreateStringObject2")]
          /\ UNCHANGED <<mem, stack_pos>>
     ELSE /\ mem' = [s \in Slots |->
                       CASE s = <<t, stack_pos[t]>> -> blk[t]
                         [] job[t] = "CreateStringObject2"
                            /\ s = <<blk[t], CharsField>> -> scratch[t]
                         [] OTHER -> mem[s]]
          /\ stack_pos' = [stack_pos EXCEPT ![t] = @ + 1]
          /\ scratch' = [scratch EXCEPT ![t] = Nil]
          /\ job' = [job EXCEPT ![t] = None]
          /\ pc' = [pc EXCEPT ![t] = "run"]
  /\ UNCHANGED <<kind, flag, cache_size, jit_roots, pda_monitors,
                 storeVars, sizeVars, gcVars, markVars, lockVars>>

(***************************************************************************)
(* Marker threads.  One visits the slots of its roots and of the blocks it *)
(* marks, in any order: the order of the recursion is left out.            *)
(***************************************************************************)
\* Fault: the stack is scanned from the last pushed slot, stack_pos - 1.
RootSlots_StackBelowTop(m) ==
  CASE m = "static" -> StaticSlots
    [] m = "stack"  -> {info} \X {i \in 0 .. StackDepth : i < stack_pos[info]}
    [] m = "pda"    -> UNION {LocalSlots(t) : t \in pda_monitors}
    [] m = "jit"    -> UNION {TypedJitSlots(j) \cup TempJitSlots(j) :
                              j \in {i \in JitFrames : jit_roots[i] # None}}

\* Fault: class memory is not scanned.
RootSlots_NoStatic(m) ==
  CASE m = "static" -> {}
    [] m = "stack"  -> {info} \X (0 .. stack_pos[info])
    [] m = "pda"    -> UNION {LocalSlots(t) : t \in pda_monitors}
    [] m = "jit"    -> UNION {TypedJitSlots(j) \cup TempJitSlots(j) :
                              j \in {i \in JitFrames : jit_roots[i] # None}}

RootSlots(m) ==
  CASE m = "static" -> StaticSlots
    [] m = "stack"  -> {info} \X (0 .. stack_pos[info])
    [] m = "pda"    -> UNION {LocalSlots(t) : t \in pda_monitors}
    [] m = "jit"    -> UNION {TypedJitSlots(j) \cup TempJitSlots(j) :
                              j \in {i \in JitFrames : jit_roots[i] # None}}

\* The reference slots CheckMemory or the element loop visits in block b.
RefSlots(b) == IF kind[b] \in {"object", "obj_array"} THEN FieldSlots(b) ELSE {}

\* std::binary_search on allocated_memory: exact on a sorted vector; in one
\* that other threads have appended to, a block may be missed.
Search(b) == IF b \notin allocated_memory THEN {FALSE}
             ELSE IF sorted THEN {TRUE} ELSE {TRUE, FALSE}

\* Fault: the 'self' of a native method is not checked.
StartMarker_NoSelf(m) ==
  /\ mpc[m] = "start"
  /\ m = "pda" => pda_monitor_mutex = None
  /\ m = "jit" => jit_mutex = None
  /\ pda_monitor_mutex' = IF m = "pda" THEN m ELSE pda_monitor_mutex
  /\ jit_mutex' = IF m = "jit" THEN m ELSE jit_mutex
  /\ todo' = [todo EXCEPT ![m] = RootSlots(m) \ (JitFrames \X {"self"})]
  /\ mpc' = [mpc EXCEPT ![m] = "scan"]
  /\ UNCHANGED <<heapVars, rootVars, storeVars, sizeVars, threadVars, gcVars, at,
                 allocated_mutex, marked_mutex, marked_sweep_mutex>>

\* CheckStatic, CheckStack, CheckPdaRoots or CheckJitRoots begins.
StartMarker(m) ==
  /\ mpc[m] = "start"
  /\ m = "pda" => pda_monitor_mutex = None
  /\ m = "jit" => jit_mutex = None
  /\ pda_monitor_mutex' = IF m = "pda" THEN m ELSE pda_monitor_mutex
  /\ jit_mutex' = IF m = "jit" THEN m ELSE jit_mutex
  /\ todo' = [todo EXCEPT ![m] = RootSlots(m)]
  /\ mpc' = [mpc EXCEPT ![m] = "scan"]
  /\ UNCHANGED <<heapVars, rootVars, storeVars, sizeVars, threadVars, gcVars, at,
                 allocated_mutex, marked_mutex, marked_sweep_mutex>>

\* What its header says of block b: anything, once b has been freed.
HeaderKinds(b) == IF kind[b] = None THEN Kinds ELSE {kind[b]}

\* CheckObject or CheckMemory reads a slot.  An object or an array of a
\* primitive type goes to MarkMemory, an object array to MarkValidMemory, the
\* content of a conservative slot to GetClassMapping first.  The elements of
\* an object array are visited either way, as the array itself was.
Visit(m, s) ==
  /\ mpc[m] = "scan" /\ s \in todo[m]
  /\ todo' = [todo EXCEPT ![m] = @ \ {s}]
  /\ IF mem[s] = Nil
     THEN UNCHANGED <<mpc, at>>
     ELSE /\ at' = [at EXCEPT ![m] = mem[s]]
          /\ \/ /\ \/ s \in ConservativeSlots
                   \/ s[1] \in Blocks /\ kind[s[1]] = "obj_array"
                /\ mpc' = [mpc EXCEPT ![m] = "map"]
             \/ /\ s \notin ConservativeSlots
                /\ \E k \in HeaderKinds(mem[s]) :
                     mpc' = [mpc EXCEPT ![m] = IF k \in {"object", "prim_array"}
                                               THEN "test" ELSE "valid"]
  /\ UNCHANGED <<heapVars, rootVars, storeVars, sizeVars, threadVars, gcVars, lockVars>>

\* GetClassMapping, under allocated_mutex.
GetClassMapping(m) ==
  /\ mpc[m] = "map" /\ allocated_mutex = None
  /\ \E found \in Search(at[m]) :
       mpc' = [mpc EXCEPT ![m] = IF found /\ kind[at[m]] = "object"
                                 THEN "test" ELSE "valid"]
  /\ UNCHANGED <<heapVars, rootVars, storeVars, sizeVars, threadVars, gcVars,
                 at, todo, lockVars>>

\* Fault: a block that is marked already is traced again.
TestMark_Again(m) ==
  /\ mpc[m] = "test"
  /\ mpc' = [mpc EXCEPT ![m] = "mark"]
  /\ UNCHANGED <<heapVars, rootVars, storeVars, sizeVars, threadVars, gcVars,
                 at, todo, lockVars>>

\* MarkMemory tests the mark without a lock ...
TestMark(m) ==
  /\ mpc[m] = "test"
  /\ IF flag[at[m]]
     THEN /\ mpc' = [mpc EXCEPT ![m] = "scan"]
          /\ at' = [at EXCEPT ![m] = Nil]
     ELSE /\ mpc' = [mpc EXCEPT ![m] = "mark"]
          /\ UNCHANGED at
  /\ UNCHANGED <<heapVars, rootVars, storeVars, sizeVars, threadVars, gcVars,
                 todo, lockVars>>

\* Fault: a marked object's fields are not checked.
MarkMemory_NoTrace(m) ==
  /\ mpc[m] = "mark" /\ marked_mutex = None
  /\ flag' = [flag EXCEPT ![at[m]] = TRUE]
  /\ marked_memory' = marked_memory \cup {at[m]}
  /\ at' = [at EXCEPT ![m] = Nil]
  /\ mpc' = [mpc EXCEPT ![m] = "scan"]
  /\ UNCHANGED <<mem, kind, cache_size, rootVars, storeVars, sizeVars, threadVars,
                 cpc, info, live_memory, unswept, todo, lockVars>>

\* ... and sets it under marked_mutex, so two markers may both mark a block;
\* its fields are checked next.
MarkMemory(m) ==
  /\ mpc[m] = "mark" /\ marked_mutex = None
  /\ flag' = [flag EXCEPT ![at[m]] = TRUE]
  /\ marked_memory' = marked_memory \cup {at[m]}
  /\ todo' = [todo EXCEPT ![m] = @ \cup RefSlots(at[m])]
  /\ at' = [at EXCEPT ![m] = Nil]
  /\ mpc' = [mpc EXCEPT ![m] = "scan"]
  /\ UNCHANGED <<mem, kind, cache_size, rootVars, storeVars, sizeVars, threadVars,
                 cpc, info, live_memory, unswept, lockVars>>

\* MarkValidMemory: search and test under allocated_mutex, which is kept
\* while marked_mutex is taken.
SearchValid(m) ==
  /\ mpc[m] = "valid" /\ allocated_mutex = None
  /\ \E found \in Search(at[m]) :
       IF found /\ ~flag[at[m]]
       THEN /\ allocated_mutex' = m
            /\ mpc' = [mpc EXCEPT ![m] = "markvalid"]
            /\ UNCHANGED at
       ELSE /\ mpc' = [mpc EXCEPT ![m] = "scan"]
            /\ at' = [at EXCEPT ![m] = Nil]
            /\ UNCHANGED allocated_mutex
  /\ UNCHANGED <<heapVars, rootVars, storeVars, sizeVars, threadVars, gcVars, todo,
                 marked_mutex, marked_sweep_mutex, jit_mutex, pda_monitor_mutex>>

MarkValidMemory(m) ==
  /\ mpc[m] = "markvalid" /\ marked_mutex = None
  /\ flag' = [flag EXCEPT ![at[m]] = TRUE]
  /\ marked_memory' = marked_memory \cup {at[m]}
  /\ allocated_mutex' = None
  /\ mpc' = [mpc EXCEPT ![m] = "elements"]
  /\ UNCHANGED <<mem, kind, cache_size, rootVars, storeVars, sizeVars, threadVars,
                 cpc, info, live_memory, unswept, at, todo,
                 marked_mutex, marked_sweep_mutex, jit_mutex, pda_monitor_mutex>>

\* Fault: the elements of a marked array are not checked.
CheckElements_Skip(m) ==
  /\ mpc[m] = "elements"
  /\ at' = [at EXCEPT ![m] = Nil]
  /\ mpc' = [mpc EXCEPT ![m] = "scan"]
  /\ UNCHANGED <<heapVars, rootVars, storeVars, sizeVars, threadVars, gcVars, todo, lockVars>>

\* The elements of a marked array.  CheckObject searches allocated_memory
\* once more, without a lock; CheckMemory does not.
CheckElements(m) ==
  /\ mpc[m] = "elements"
  /\ \E found \in Search(at[m]) \cup {TRUE} :
       todo' = [todo EXCEPT ![m] = IF found THEN @ \cup RefSlots(at[m]) ELSE @]
  /\ at' = [at EXCEPT ![m] = Nil]
  /\ mpc' = [mpc EXCEPT ![m] = "scan"]
  /\ UNCHANGED <<heapVars, rootVars, storeVars, sizeVars, threadVars, gcVars, lockVars>>

\* Nothing left: the marker unlocks its roots and exits.
EndMarker(m) ==
  /\ mpc[m] = "scan" /\ todo[m] = {}
  /\ pda_monitor_mutex' = IF m = "pda" THEN None ELSE pda_monitor_mutex
  /\ jit_mutex' = IF m = "jit" THEN None ELSE jit_mutex
  /\ mpc' = [mpc EXCEPT ![m] = "exit"]
  /\ UNCHANGED <<heapVars, rootVars, storeVars, sizeVars, threadVars, gcVars, at, todo,
                 allocated_mutex, marked_mutex, marked_sweep_mutex>>

(***************************************************************************)
(* The collector thread: CollectMemory, second form.                       *)
(***************************************************************************)
\* Sort allocated_memory and create the four markers.
SortAndSpawn ==
  /\ cpc = "sort" /\ allocated_mutex = None
  /\ sorted' = TRUE
  /\ mpc' = [m \in Markers |-> "start"]
  /\ cpc' = "mark"
  /\ UNCHANGED <<heapVars, rootVars, allocated_memory, cache_pool, heap_free, sizeVars,
                 threadVars, info, live_memory, unswept, marked_memory, at, todo,
                 lockVars>>

\* Fault: one marker is not joined before the sweep.
JoinMarkers_NotStatic ==
  /\ cpc = "mark" /\ \A m \in Markers \ {"static"} : mpc[m] = "exit"
  /\ marked_mutex = None
  /\ marked_mutex' = Collector
  /\ mpc' = [m \in Markers |-> IF m = "static" THEN mpc[m] ELSE "off"]
  /\ cpc' = "lock"
  /\ UNCHANGED <<heapVars, rootVars, storeVars, sizeVars, threadVars, info, live_memory,
                 unswept, marked_memory, at, todo,
                 allocated_mutex, marked_sweep_mutex, jit_mutex, pda_monitor_mutex>>

\* Join the markers and lock marked_mutex ...
JoinMarkers ==
  /\ cpc = "mark" /\ \A m \in Markers : mpc[m] = "exit"
  /\ marked_mutex = None
  /\ marked_mutex' = Collector
  /\ mpc' = [m \in Markers |-> "off"]
  /\ cpc' = "lock"
  /\ UNCHANGED <<heapVars, rootVars, storeVars, sizeVars, threadVars, info, live_memory,
                 unswept, marked_memory, at, todo,
                 allocated_mutex, marked_sweep_mutex, jit_mutex, pda_monitor_mutex>>

\* ... then allocated_mutex: the order opposite to MarkValidMemory's.
LockAllocated ==
  /\ cpc = "lock" /\ allocated_mutex = None
  /\ allocated_mutex' = Collector
  /\ unswept' = allocated_memory /\ live_memory' = {}
  /\ cpc' = "sweep"
  /\ UNCHANGED <<heapVars, rootVars, storeVars, sizeVars, threadVars, info, marked_memory,
                 markVars, marked_mutex, marked_sweep_mutex, jit_mutex, pda_monitor_mutex>>

\* Fault: a kept block keeps its mark.
KeepBlock_StillMarked(b) ==
  /\ cpc = "sweep" /\ b \in unswept /\ b \in marked_memory
  /\ live_memory' = live_memory \cup {b}
  /\ unswept' = unswept \ {b}
  /\ UNCHANGED <<heapVars, rootVars, storeVars, sizeVars, threadVars,
                 cpc, info, marked_memory, markVars, lockVars>>

\* A marked block is unmarked and kept.
KeepBlock(b) ==
  /\ cpc = "sweep" /\ b \in unswept /\ b \in marked_memory
  /\ flag' = [flag EXCEPT ![b] = FALSE]
  /\ live_memory' = live_memory \cup {b}
  /\ unswept' = unswept \ {b}
  /\ UNCHANGED <<mem, kind, cache_size, rootVars, storeVars, sizeVars, threadVars,
                 cpc, info, marked_memory, markVars, lockVars>>

\* Fault: a pool is taken to be full one block early.
FreeBlock_FullEarly(b) ==
  LET p == cache_size[b]
      caches == p # None /\ Len(cache_pool[p]) < POOL_SIZE - 1
  IN
  /\ cpc = "sweep" /\ b \in unswept /\ b \notin marked_memory
  /\ allocation_size' = allocation_size - SweptSize(kind[b])
  /\ cache_pool' = IF caches THEN [cache_pool EXCEPT ![p] = Append(@, b)] ELSE cache_pool
  /\ heap_free' = IF p = None THEN heap_free \cup {b} ELSE heap_free
  /\ mem' = [s \in Slots |-> IF s \in FieldSlots(b) THEN Nil ELSE mem[s]]
  /\ flag' = [flag EXCEPT ![b] = FALSE]
  /\ kind' = [kind EXCEPT ![b] = None]
  /\ cache_size' = [cache_size EXCEPT ![b] = None]
  /\ unswept' = unswept \ {b}
  /\ UNCHANGED <<rootVars, allocated_memory, sorted, mem_max_size, uncollected_count,
                 collected_count, threadVars, cpc, info, live_memory, marked_memory,
                 markVars, lockVars>>

\* Fault: only blocks that go back to malloc are accounted for.
FreeBlock_CachedUncounted(b) ==
  /\ cpc = "sweep" /\ b \in unswept /\ b \notin marked_memory
  /\ allocation_size' = allocation_size - (IF kind[b] = "object" THEN 0 ELSE SweptSize(kind[b]))
  /\ heap_free' = heap_free \cup {b}
  /\ mem' = [s \in Slots |-> IF s \in FieldSlots(b) THEN Nil ELSE mem[s]]
  /\ flag' = [flag EXCEPT ![b] = FALSE]
  /\ kind' = [kind EXCEPT ![b] = None]
  /\ cache_size' = [cache_size EXCEPT ![b] = None]
  /\ unswept' = unswept \ {b}
  /\ UNCHANGED <<rootVars, allocated_memory, sorted, cache_pool, mem_max_size,
                 uncollected_count, collected_count, threadVars, cpc, info, live_memory,
                 marked_memory, markVars, lockVars>>

\* Any other block is zeroed and cached in the pool it came from if that is
\* not over its limit (and is lost if it is), or freed.
FreeBlock(b) ==
  LET p == cache_size[b]
      caches == p # None /\ Len(cache_pool[p]) < POOL_SIZE + 1
  IN
  /\ cpc = "sweep" /\ b \in unswept /\ b \notin marked_memory
  /\ allocation_size' = allocation_size - SweptSize(kind[b])
  /\ cache_pool' = IF caches THEN [cache_pool EXCEPT ![p] = Append(@, b)] ELSE cache_pool
  /\ heap_free' = IF p = None THEN heap_free \cup {b} ELSE heap_free
  /\ mem' = [s \in Slots |-> IF s \in FieldSlots(b) THEN Nil ELSE mem[s]]
  /\ flag' = [flag EXCEPT ![b] = FALSE]
  /\ kind' = [kind EXCEPT ![b] = None]
  /\ cache_size' = [cache_size EXCEPT ![b] = None]
  /\ unswept' = unswept \ {b}
  /\ UNCHANGED <<rootVars, allocated_memory, sorted, mem_max_size, uncollected_count,
                 collected_count, threadVars, cpc, info, live_memory, marked_memory,
                 markVars, lockVars>>

FinishSweep ==
  /\ cpc = "sweep" /\ unswept = {}
  /\ IF live_memory = allocated_memory
     THEN /\ uncollected_count' = IF uncollected_count < UNCOLLECTED_COUNT
                                  THEN uncollected_count + 1 ELSE 0
          /\ mem_max_size' = IF uncollected_count < UNCOLLECTED_COUNT
                             THEN mem_max_size ELSE mem_max_size * 4
          /\ UNCHANGED collected_count
     ELSE IF mem_max_size # MEM_MAX
     THEN /\ collected_count' = IF collected_count < COLLECTED_COUNT
                                THEN collected_count + 1 ELSE 0
          /\ mem_max_size' = IF collected_count < COLLECTED_COUNT
                             THEN mem_max_size ELSE mem_max_size \div 2
          /\ UNCHANGED uncollected_count
     ELSE UNCHANGED <<uncollected_count, collected_count, mem_max_size>>
  /\ marked_memory' = {}
  /\ allocated_memory' = live_memory /\ live_memory' = {}
  /\ marked_mutex' = None /\ allocated_mutex' = None
  /\ cpc' = "done"
  /\ UNCHANGED <<heapVars, rootVars, sorted, cache_pool, heap_free, allocation_size,
                 threadVars, info, unswept, markVars,
                 marked_sweep_mutex, jit_mutex, pda_monitor_mutex>>

(***************************************************************************)
(* The specification.                                                      *)
(***************************************************************************)
Execute(t) ==
  \/ StartThread(t) \/ EndThread(t) \/ PopInt(t)
  \/ \E s \in Variables(t) : LoadVar(t, s) \/ StoreVar(t, s)
  \/ \E f \in Fields : LoadField(t, f) \/ StoreField(t, f)
  \/ \E j \in JitFrames : AddJitMethodRoot(t, j) \/ RemoveJitMethodRoot(t, j)
  \/ \E j \in Program : Allocate(t, j)

\* The rest of an allocation that has begun.
AllocateStep(t) ==
  \/ TryLock(t) \/ JoinCollector(t) \/ TakeTop(t) \/ PopTop(t)
  \/ \E b \in Blocks : Calloc(t, b)
  \/ Record(t) \/ Finish(t)

MarkerStep(m) ==
  \/ StartMarker(m) \/ (\E s \in Slots : Visit(m, s)) \/ GetClassMapping(m)
  \/ TestMark(m) \/ MarkMemory(m) \/ SearchValid(m) \/ MarkValidMemory(m)
  \/ CheckElements(m) \/ EndMarker(m)

CollectorStep ==
  \/ SortAndSpawn \/ JoinMarkers \/ LockAllocated \/ FinishSweep
  \/ \E b \in Blocks : KeepBlock(b) \/ FreeBlock(b)

Next ==
  \/ \E t \in Threads : Execute(t) \/ AllocateStep(t)
  \/ \E m \in Markers : MarkerStep(m)
  \/ CollectorStep

Spec == Init /\ [][Next]_vars

\* The operating system runs every thread that is not blocked; nothing makes
\* a program go on to its next instruction.
Fairness ==
  /\ \A t \in Threads : WF_vars(AllocateStep(t))
  /\ \A m \in Markers : WF_vars(MarkerStep(m))
  /\ WF_vars(CollectorStep)

FairSpec == Spec /\ Fairness

(***************************************************************************)
(* Properties.                                                             *)
(***************************************************************************)
ThreadPCs  == {"off", "run", "trylock", "join", "take", "pop", "record", "finish"}
CollectPCs == {"idle", "sort", "mark", "lock", "sweep", "done"}
MarkPCs    == {"off", "start", "scan", "map", "test", "mark", "valid", "markvalid",
               "elements", "exit"}

\* The types of the memory manager's state: headers, root tables, vectors,
\* pools, counters, thread locations and mutex holders.
TypeOK ==
  /\ mem \in [Slots -> Refs]
  /\ kind \in [Blocks -> Kinds \cup {None}]
  /\ flag \in [Blocks -> BOOLEAN]
  /\ cache_size \in [Blocks -> Pools \cup {None}]
  /\ stack_pos \in [Threads -> 0 .. StackDepth]
  /\ jit_roots \in [JitFrames -> Threads \cup {None}]
  /\ pda_monitors \subseteq Threads
  /\ allocated_memory \subseteq Blocks /\ sorted \in BOOLEAN
  /\ marked_memory \subseteq Blocks
  /\ cache_pool \in [Pools -> Seq(Blocks)]
  /\ heap_free \subseteq Blocks
  /\ allocation_size \in Int /\ mem_max_size \in Nat
  /\ uncollected_count \in Nat /\ collected_count \in Nat
  /\ pc \in [Threads -> ThreadPCs]
  /\ job \in [Threads -> Jobs \cup {None}]
  /\ blk \in [Threads -> Refs] /\ scratch \in [Threads -> Refs]
  /\ cpc \in CollectPCs /\ info \in Threads \cup {None}
  /\ live_memory \subseteq Blocks /\ unswept \subseteq Blocks
  /\ mpc \in [Markers -> MarkPCs]
  /\ at \in [Markers -> Refs]
  /\ todo \in [Markers -> SUBSET Slots]
  /\ allocated_mutex \in Markers \cup {Collector, None}
  /\ marked_mutex \in {Collector, None}
  /\ marked_sweep_mutex \in Threads \cup {None}
  /\ jit_mutex \in {"jit", None} /\ pda_monitor_mutex \in {"pda", None}

\* The blocks that have not been freed: during the sweep, those it has kept
\* and those it has not reached.
Heap == IF cpc = "sweep" THEN live_memory \cup unswept ELSE allocated_memory

\* The blocks that stay: the sweep frees garbage in any order, so garbage may
\* refer to a block freed before it.
Survivors == IF cpc = "sweep" THEN marked_memory ELSE allocated_memory

\* The slots the program can still read: variables of running threads and of
\* native activations, the calculation stack below stack_pos.
LiveOpSlots(t) == {t} \X {i \in 0 .. StackDepth : i < stack_pos[t]}
LiveRoots ==
  {s \in Slots :
     \/ s \in StaticSlots
     \/ \E t \in pda_monitors : s \in LocalSlots(t) \cup LiveOpSlots(t)
     \/ \E j \in JitFrames : jit_roots[j] # None /\ s \in TypedJitSlots(j) \cup TempJitSlots(j)}

\* No root, no field of a surviving block and no pointer held in a C local
\* across an allocation (the array of LOAD_MULTI_ARY_SIZE, the characters of
\* CreateStringObject, the block just recorded) refers to a freed block.
NoDangling ==
  /\ \A s \in LiveRoots : mem[s] \in Survivors \cup {Nil}
  /\ \A b \in Survivors : \A s \in RefSlots(b) : mem[s] \in Survivors \cup {Nil}
  /\ \A t \in Threads : scratch[t] \in Survivors \cup {Nil}
  /\ \A t \in Threads : pc[t] = "finish" => blk[t] \in Survivors

\* Markers read and write headers of blocks in the heap only: GetClass and
\* MarkMemory dereference without asking allocated_memory.
MarkersOnHeap ==
  \A m \in Markers :
    mpc[m] \in {"test", "mark", "markvalid", "elements"} => at[m] \in allocated_memory

\* Between collections no block carries a mark: a mark left over would make
\* the next collection skip the block's fields.
MarksCleared ==
  cpc \in {"idle", "sort", "done"} =>
    marked_memory = {} /\ \A b \in allocated_memory : ~flag[b]

\* What a closed set of blocks is, starting from the slots in roots.
ClosedFrom(C, roots) ==
  /\ \A s \in roots : mem[s] \in C \cup {Nil} \cup (Blocks \ allocated_memory)
  /\ \A b \in C : \A s \in RefSlots(b) : mem[s] \in C \cup {Nil}

\* The mark phase is exact: when the sweep begins, a block is marked if and
\* only if it can be reached from the slots CheckStatic, CheckStack (up to
\* and including op_stack[stack_pos]), CheckPdaRoots and CheckJitRoots read.
MarkIsExact ==
  cpc = "lock" =>
    LET roots == UNION {RootSlots(m) : m \in Markers} IN
    /\ ClosedFrom(marked_memory, roots)
    /\ \A C \in SUBSET marked_memory : ClosedFrom(C, roots) => C = marked_memory

\* The two mutexes that are taken in opposite orders are never held crosswise.
NoLockCycle == ~(marked_mutex = Collector /\ allocated_mutex \in Markers)

\* Only one thread at a time has a collection under way, and it holds
\* marked_sweep_mutex until it has joined the collector.
OneCollection ==
  /\ \A t, u \in Threads : pc[t] = "join" /\ pc[u] = "join" => t = u
  /\ \A t \in Threads : pc[t] = "join" <=> (marked_sweep_mutex = t)
  /\ cpc # "idle" <=> marked_sweep_mutex # None

\* A block Initialize put in a pool is in that pool, or in the heap or in a
\* thread's hands with that pool in its header: never lost, never twice.
InHand(b) == \E t \in Threads : pc[t] \in {"pop", "record"} /\ blk[t] = b
PoolsConserved ==
  \A p \in Pools :
    /\ \A i, k \in 1 .. Len(cache_pool[p]) : cache_pool[p][i] = cache_pool[p][k] => i = k
    /\ \A i \in 1 .. Len(cache_pool[p]) :
         cache_pool[p][i] \in Home[p] \ Heap
    /\ \A b \in Home[p] :
         \/ \E i \in 1 .. Len(cache_pool[p]) : cache_pool[p][i] = b
         \/ cache_size[b] = p /\ (b \in Heap \/ InHand(b))

\* mem_max_size is MEM_MAX doubled some number of times: quadrupled and
\* halved, it never sinks below its start value and never loses a bit.
Doubled[k \in Nat] == IF k = 0 THEN MEM_MAX ELSE 2 * Doubled[k - 1]
ThresholdKept == \E k \in 0 .. mem_max_size : mem_max_size = Doubled[k]

\* allocation_size is the sum of what the blocks in the heap were charged.
AllocationAccounted ==
  LET Charged(k) == AllocSize(k) * Cardinality({b \in Heap : kind[b] = k}) IN
  allocation_size = Charged("object") + Charged("obj_array") + Charged("prim_array")

\* What decides when the next collection starts agrees with the heap.
SizesKept == ThresholdKept /\ AllocationAccounted

\* The heap the program sees.  A collection takes effect when the sweep
\* begins; C locals that outlive an allocation count as variables.
Seen == ({mem[s] : s \in LiveRoots} \cup {scratch[t] : t \in Threads}
         \cup {blk[t] : t \in {u \in Threads : pc[u] = "finish"}}) \ {Nil}
Program_ == INSTANCE ReclaimedHeap WITH
  heap   <- Survivors,
  roots  <- Seen,
  points <- [b \in Survivors |-> {mem[s] : s \in RefSlots(b)} \ {Nil}]

\* With one thread, the memory manager implements a heap that is reclaimed
\* behind the program's back, and only where the program cannot reach it.
Reclaims == Program_!Spec

\* A thread that has asked for a collection gets on with its allocation.
CollectionEnds == \A t \in Threads : pc[t] \in {"trylock", "join"} ~> pc[t] = "take"

====
