------------------------ MODULE MemoryManagerProofs ------------------------
(***************************************************************************)
(* What MemoryManager guarantees for any number of threads, blocks,        *)
(* variables, native activations and pools: its types, one collection at a *)
(* time, and two mutexes never held crosswise; and, for a program that      *)
(* starts no thread of its own, that what a collection marks is what can be *)
(* reached, that it frees nothing else, that no block of a pool is lost,    *)
(* that the sizes that decide about the next collection agree with the      *)
(* heap, and that the memory manager implements a heap that is reclaimed    *)
(* behind the program's back.                                              *)
(***************************************************************************)
EXTENDS MemoryManager, SequenceTheorems, FiniteSetTheorems, Inductions, TLAPS

(***************************************************************************)
(* The inductive invariant.                                                *)
(***************************************************************************)
\* The thread that waits for a collection holds marked_sweep_mutex and is the
\* one whose stack the collector was given; markers run in the mark phase.
Phases ==
  /\ \A t \in Threads : pc[t] = "join" <=> marked_sweep_mutex = t
  /\ cpc # "idle" <=> marked_sweep_mutex # None
  /\ info = marked_sweep_mutex
  /\ \A m \in Markers : mpc[m] = "off" <=> cpc # "mark"

\* Where a marker stands tells what it holds.
MarkersAt ==
  \A m \in Markers :
    /\ mpc[m] \in {"off", "start", "exit"} => todo[m] = {}
    /\ mpc[m] \in {"off", "start", "scan", "exit"} <=> at[m] = Nil

\* Who holds the two mutexes that are taken in opposite orders.
Holders ==
  /\ marked_mutex = Collector <=> cpc \in {"lock", "sweep"}
  /\ allocated_mutex = Collector <=> cpc = "sweep"
  /\ \A m \in Markers : mpc[m] = "markvalid" <=> allocated_mutex = m

\* What an allocation that has begun knows.
Allocating ==
  \A t \in Threads :
    /\ pc[t] \notin {"off", "run"} => job[t] \in Jobs /\ stack_pos[t] < StackDepth
    /\ pc[t] \in {"pop", "record", "finish"} => blk[t] \in Blocks

BaseInv == TypeOK /\ Phases /\ MarkersAt /\ Holders /\ Allocating

(***************************************************************************)
(* Slots.                                                                  *)
(***************************************************************************)
LEMMA SlotFacts ==
  /\ \A t \in Threads : \A i \in 0 .. StackDepth : <<t, i>> \in Slots
  /\ \A b \in Blocks : \A f \in Fields : <<b, f>> \in Slots
  /\ \A b \in Blocks : FieldSlots(b) \subseteq Slots
  /\ StaticSlots \subseteq Slots
  /\ \A t \in Threads : LocalSlots(t) \subseteq Slots
  /\ \A j \in JitFrames : /\ TypedJitSlots(j) \subseteq Slots
                          /\ TempJitSlots(j) \subseteq Slots
                          /\ <<j, "self">> \in Slots
BY DEF Slots, FieldSlots, StaticSlots, LocalSlots, TypedJitSlots, TempJitSlots

LEMMA VariablesAreSlots ==
  ASSUME NEW t \in Threads
  PROVE  Variables(t) \subseteq Slots
BY SlotFacts DEF Variables

LEMMA RefSlotsAreSlots ==
  ASSUME NEW b \in Blocks
  PROVE  RefSlots(b) \subseteq Slots
BY SlotFacts DEF RefSlots

LEMMA RootSlotsAreSlots ==
  ASSUME TypeOK, info \in Threads, NEW m \in Markers
  PROVE  RootSlots(m) \subseteq Slots
<1>1. \A i \in 0 .. stack_pos[info] : <<info, i>> \in Slots
  BY SlotFacts, NumbersAssumption DEF TypeOK
<1>2. {info} \X (0 .. stack_pos[info]) \subseteq Slots
  BY <1>1
<1>3. CASE m = "static"
  BY <1>3, SlotFacts DEF RootSlots
<1>4. CASE m = "stack"
  BY <1>4, <1>2 DEF RootSlots
<1>5. CASE m = "pda"
  BY <1>5, SlotFacts DEF RootSlots, TypeOK
<1>6. CASE m = "jit"
  BY <1>6, SlotFacts DEF RootSlots
<1> QED
  BY <1>3, <1>4, <1>5, <1>6 DEF Markers

\* The top of the calculation stack and the value under it.
LEMMA TopIsRef ==
  ASSUME TypeOK, NEW t \in Threads, stack_pos[t] > 0
  PROVE  /\ stack_pos[t] - 1 \in 0 .. StackDepth
         /\ Top(t) \in Refs
         /\ stack_pos[t] > 1 => Second(t) \in Refs
BY SlotFacts, NumbersAssumption DEF TypeOK, Top, Second


(***************************************************************************)
(* Types.                                                                  *)
(***************************************************************************)
LEMMA InitTypes == Init => TypeOK
<1> SUFFICES ASSUME Init PROVE TypeOK
  OBVIOUS
<1>1. cache_pool \in [Pools -> Seq(Blocks)]
  BY NumbersAssumption DEF Init
<1>2. mem \in [Slots -> Refs]
  BY DEF Init, Refs
<1> QED
  BY <1>1, <1>2, NumbersAssumption DEF Init, TypeOK, Refs, ThreadPCs, CollectPCs, MarkPCs, Jobs

LEMMA JobKindType == \A j : JobKind(j) \in Kinds /\ AllocSize(JobKind(j)) \in Nat
BY NumbersAssumption DEF JobKind, Kinds, AllocSize

LEMMA NextTypes ==
  ASSUME TypeOK, Phases, MarkersAt, Allocating, [Next]_vars
  PROVE  TypeOK'
<1> USE DEF heapVars, rootVars, storeVars, sizeVars, threadVars, gcVars, markVars, lockVars
<1>1. ASSUME NEW t \in Threads, StartThread(t) PROVE TypeOK'
  BY <1>1, NumbersAssumption DEF StartThread, TypeOK, Refs, ThreadPCs, CollectPCs, MarkPCs, Jobs, Running, CanPush
<1>2. ASSUME NEW t \in Threads, EndThread(t) PROVE TypeOK'
  BY <1>2, NumbersAssumption DEF EndThread, TypeOK, Refs, ThreadPCs, CollectPCs, MarkPCs, Jobs, Running, CanPush
<1>3. ASSUME NEW t \in Threads, PopInt(t) PROVE TypeOK'
  BY <1>3, NumbersAssumption DEF PopInt, TypeOK, Refs, ThreadPCs, CollectPCs, MarkPCs, Jobs, Running, CanPush
<1>4. ASSUME NEW t \in Threads, NEW s \in Variables(t), LoadVar(t, s) PROVE TypeOK'
  BY <1>4, SlotFacts, VariablesAreSlots, NumbersAssumption DEF LoadVar, TypeOK, Refs, ThreadPCs, CollectPCs, MarkPCs, Jobs, Running, CanPush
<1>5. ASSUME NEW t \in Threads, NEW s \in Variables(t), StoreVar(t, s) PROVE TypeOK'
  BY <1>5, VariablesAreSlots, TopIsRef, NumbersAssumption DEF StoreVar, TypeOK, Refs, ThreadPCs, CollectPCs, MarkPCs, Jobs, Running, CanPush
<1>6. ASSUME NEW t \in Threads, NEW f \in Fields, LoadField(t, f) PROVE TypeOK'
  BY <1>6, SlotFacts, TopIsRef, NumbersAssumption DEF LoadField, TypeOK, Refs, ThreadPCs, CollectPCs, MarkPCs, Jobs, Running, CanPush
<1>7. ASSUME NEW t \in Threads, NEW f \in Fields, StoreField(t, f) PROVE TypeOK'
  BY <1>7, SlotFacts, TopIsRef, NumbersAssumption DEF StoreField, TypeOK, Refs, ThreadPCs, CollectPCs, MarkPCs, Jobs, Running, CanPush
<1>8. ASSUME NEW t \in Threads, NEW j \in JitFrames, AddJitMethodRoot(t, j) PROVE TypeOK'
  <2>1. Top(t) \in Refs /\ stack_pos[t] - 1 \in 0 .. StackDepth
    BY <1>8, TopIsRef DEF AddJitMethodRoot
  <2>2. mem' \in [Slots -> Refs]
    BY <1>8, <2>1 DEF AddJitMethodRoot, TypeOK, Refs
  <2>3. stack_pos' \in [Threads -> 0 .. StackDepth] /\ jit_roots' \in [JitFrames -> Threads \cup {None}]
    BY <1>8, <2>1 DEF AddJitMethodRoot, TypeOK
  <2> QED
    BY <1>8, <2>2, <2>3 DEF AddJitMethodRoot, TypeOK
<1>9. ASSUME NEW t \in Threads, NEW j \in JitFrames, RemoveJitMethodRoot(t, j) PROVE TypeOK'
  BY <1>9, NumbersAssumption DEF RemoveJitMethodRoot, TypeOK, Refs, ThreadPCs, CollectPCs, MarkPCs, Jobs, Running, CanPush
<1>10. ASSUME NEW t \in Threads, NEW j \in Program, Allocate(t, j) PROVE TypeOK'
  <2>1. CASE j = "LOAD_MULTI_ARY_SIZE"
    <3>1. Top(t) \in Refs /\ stack_pos[t] - 1 \in 0 .. StackDepth
      BY <1>10, <2>1, TopIsRef DEF Allocate
    <3>2. scratch' \in [Threads -> Refs] /\ stack_pos' \in [Threads -> 0 .. StackDepth]
      BY <1>10, <2>1, <3>1 DEF Allocate, TypeOK
    <3>3. pc' \in [Threads -> ThreadPCs] /\ job' \in [Threads -> Jobs \cup {None}]
      BY <1>10, SetsAssumption DEF Allocate, TypeOK, Checked, ThreadPCs
    <3> QED
      BY <1>10, <3>2, <3>3 DEF Allocate, TypeOK
  <2>2. CASE j # "LOAD_MULTI_ARY_SIZE"
    BY <1>10, <2>2, SetsAssumption DEF Allocate, TypeOK, Checked, ThreadPCs
  <2> QED
    BY <2>1, <2>2
<1>11. ASSUME NEW t \in Threads, TryLock(t) PROVE TypeOK'
  BY <1>11, NumbersAssumption DEF TryLock, TypeOK, Refs, ThreadPCs, CollectPCs, MarkPCs, Jobs, Running, CanPush
<1>12. ASSUME NEW t \in Threads, JoinCollector(t) PROVE TypeOK'
  BY <1>12, NumbersAssumption DEF JoinCollector, TypeOK, Refs, ThreadPCs, CollectPCs, MarkPCs, Jobs, Running, CanPush
<1>13. ASSUME NEW t \in Threads, TakeTop(t) PROVE TypeOK'
  <2>1. PoolOf[JobKind(job[t])] \in Pools
    BY <1>13, JobKindType, PoolAssumption DEF TakeTop
  <2>2. blk' \in [Threads -> Refs]
    <3> DEFINE c == cache_pool[PoolOf[JobKind(job[t])]]
    <3>1. c \in Seq(Blocks) /\ c # <<>>
      BY <1>13, <2>1 DEF TakeTop, TypeOK
    <3>2. c[Len(c)] \in Blocks
      BY <3>1
    <3> QED
      BY <1>13, <3>2 DEF TakeTop, TypeOK, Refs
  <2> QED
    BY <1>13, <2>2 DEF TakeTop, TypeOK, ThreadPCs
<1>14. ASSUME NEW t \in Threads, PopTop(t) PROVE TypeOK'
  <2>1. PoolOf[JobKind(job[t])] \in Pools \cup {None}
    BY JobKindType, PoolAssumption
  <2>2. \A c \in Seq(Blocks) : c # <<>> => SubSeq(c, 1, Len(c) - 1) \in Seq(Blocks)
    OBVIOUS
  <2>3. cache_pool' \in [Pools -> Seq(Blocks)]
    BY <1>14, <2>2 DEF PopTop, TypeOK
  <2> QED
    BY <1>14, <2>1, <2>3, JobKindType DEF PopTop, TypeOK, ThreadPCs
<1>15. ASSUME NEW t \in Threads, NEW b \in Blocks, Calloc(t, b) PROVE TypeOK'
  BY <1>15, JobKindType DEF Calloc, TypeOK, Refs, ThreadPCs
<1>16. ASSUME NEW t \in Threads, Record(t) PROVE TypeOK'
  <2>1. blk[t] \in Blocks
    BY <1>16 DEF Record, Allocating
  <2>2. AllocSize(JobKind(job[t])) \in Nat
    BY JobKindType
  <2>3. allocation_size' \in Int
    BY <1>16, <2>2 DEF Record, TypeOK
  <2> QED
    BY <1>16, <2>1, <2>3 DEF Record, TypeOK, ThreadPCs
<1>17. ASSUME NEW t \in Threads, Finish(t) PROVE TypeOK'
  <2>1. blk[t] \in Blocks /\ job[t] \in Jobs /\ stack_pos[t] < StackDepth
    BY <1>17 DEF Finish, Allocating
  <2>2. scratch[t] \in Refs /\ stack_pos[t] + 1 \in 0 .. StackDepth
    BY <2>1, NumbersAssumption DEF TypeOK
  <2>3. CASE job[t] = "CreateStringObject"
    BY <1>17, <2>1, <2>3 DEF Finish, TypeOK, Refs, Checked, ThreadPCs, Jobs
  <2>4. CASE job[t] # "CreateStringObject"
    <3>1. mem' \in [Slots -> Refs]
      <4>1. /\ DOMAIN mem' = Slots
            /\ \A s \in Slots : mem'[s] \in {blk[t], scratch[t], mem[s]}
        BY <1>17, <2>4 DEF Finish
      <4>2. \A s \in Slots : mem'[s] \in Refs
        BY <2>1, <2>2, <4>1 DEF TypeOK, Refs
      <4>3. mem' = [s \in Slots |-> mem'[s]]
        BY <1>17, <2>4 DEF Finish
      <4> QED
        BY <4>2, <4>3
    <3>2. stack_pos' \in [Threads -> 0 .. StackDepth] /\ pc' \in [Threads -> ThreadPCs]
      BY <1>17, <2>2, <2>4 DEF Finish, TypeOK, ThreadPCs
    <3> QED
      BY <1>17, <2>4, <3>1, <3>2 DEF Finish, TypeOK, Refs
  <2> QED
    BY <2>3, <2>4
<1>18. ASSUME NEW m \in Markers, StartMarker(m) PROVE TypeOK'
  <2>1. info \in Threads
    BY <1>18 DEF StartMarker, Phases, TypeOK, Markers
  <2>2. RootSlots(m) \subseteq Slots
    BY <2>1, RootSlotsAreSlots
  <2> QED
    BY <1>18, <2>2 DEF StartMarker, TypeOK, MarkPCs, Markers
<1>19. ASSUME NEW m \in Markers, NEW s \in Slots, Visit(m, s) PROVE TypeOK'
  <2>1. mem[s] \in Refs
    BY DEF TypeOK
  <2>2. mpc' \in [Markers -> MarkPCs] /\ at' \in [Markers -> Refs]
    BY <1>19, <2>1 DEF Visit, TypeOK, MarkPCs
  <2> QED
    BY <1>19, <2>2 DEF Visit, TypeOK
<1>20. ASSUME NEW m \in Markers, GetClassMapping(m) PROVE TypeOK'
  BY <1>20, NumbersAssumption DEF GetClassMapping, TypeOK, Refs, ThreadPCs, CollectPCs, MarkPCs, Jobs, Running, CanPush
<1>21. ASSUME NEW m \in Markers, TestMark(m) PROVE TypeOK'
  BY <1>21, ZenonT(40) DEF TestMark, TypeOK, Refs, MarkPCs
<1>22. ASSUME NEW m \in Markers, MarkMemory(m) PROVE TypeOK'
  <2>1. at[m] \in Blocks
    BY <1>22 DEF MarkMemory, MarkersAt, TypeOK, Refs
  <2>2. RefSlots(at[m]) \subseteq Slots
    BY <2>1, RefSlotsAreSlots
  <2> QED
    BY <1>22, <2>1, <2>2 DEF MarkMemory, TypeOK, MarkPCs, Refs
<1>23. ASSUME NEW m \in Markers, SearchValid(m) PROVE TypeOK'
  BY <1>23, NumbersAssumption, ZenonT(40) DEF SearchValid, TypeOK, Refs, ThreadPCs, CollectPCs, MarkPCs, Jobs, Running, CanPush
<1>24. ASSUME NEW m \in Markers, MarkValidMemory(m) PROVE TypeOK'
  <2>1. at[m] \in Blocks
    BY <1>24 DEF MarkValidMemory, MarkersAt, TypeOK, Refs
  <2> QED
    BY <1>24, <2>1 DEF MarkValidMemory, TypeOK, MarkPCs
<1>25. ASSUME NEW m \in Markers, CheckElements(m) PROVE TypeOK'
  <2>1. at[m] \in Blocks
    BY <1>25 DEF CheckElements, MarkersAt, TypeOK, Refs
  <2>2. RefSlots(at[m]) \subseteq Slots
    BY <2>1, RefSlotsAreSlots
  <2>3. todo' \in [Markers -> SUBSET Slots]
    BY <1>25, <2>2 DEF CheckElements, TypeOK
  <2> QED
    BY <1>25, <2>3 DEF CheckElements, TypeOK, MarkPCs, Refs
<1>26. ASSUME NEW m \in Markers, EndMarker(m) PROVE TypeOK'
  BY <1>26, NumbersAssumption DEF EndMarker, TypeOK, Refs, ThreadPCs, CollectPCs, MarkPCs, Jobs, Running, CanPush
<1>27. ASSUME SortAndSpawn PROVE TypeOK'
  BY <1>27, NumbersAssumption DEF SortAndSpawn, TypeOK, Refs, ThreadPCs, CollectPCs, MarkPCs, Jobs, Running, CanPush
<1>28. ASSUME JoinMarkers PROVE TypeOK'
  BY <1>28, NumbersAssumption DEF JoinMarkers, TypeOK, Refs, ThreadPCs, CollectPCs, MarkPCs, Jobs, Running, CanPush
<1>29. ASSUME LockAllocated PROVE TypeOK'
  BY <1>29, NumbersAssumption DEF LockAllocated, TypeOK, Refs, ThreadPCs, CollectPCs, MarkPCs, Jobs, Running, CanPush
<1>30. ASSUME NEW b \in Blocks, KeepBlock(b) PROVE TypeOK'
  BY <1>30, NumbersAssumption DEF KeepBlock, TypeOK, Refs, ThreadPCs, CollectPCs, MarkPCs, Jobs, Running, CanPush
<1>31. ASSUME NEW b \in Blocks, FreeBlock(b) PROVE TypeOK'
  BY <1>31, NumbersAssumption DEF FreeBlock, TypeOK, Refs, ThreadPCs, CollectPCs, MarkPCs, Jobs, Running, CanPush
<1>32. ASSUME FinishSweep PROVE TypeOK'
  BY <1>32, NumbersAssumption DEF FinishSweep, TypeOK, Refs, ThreadPCs, CollectPCs, MarkPCs, Jobs, Running, CanPush
<1>33. CASE UNCHANGED vars
  BY <1>33 DEF vars, TypeOK
<1> QED
  BY <1>1, <1>2, <1>3, <1>4, <1>5, <1>6, <1>7, <1>8, <1>9, <1>10, <1>11, <1>12, <1>13, <1>14, <1>15, <1>16, <1>17, <1>18, <1>19, <1>20, <1>21, <1>22, <1>23, <1>24, <1>25, <1>26, <1>27, <1>28, <1>29, <1>30, <1>31, <1>32, <1>33 DEF Next, Execute, AllocateStep, MarkerStep, CollectorStep

(***************************************************************************)
(* Phases, markers and mutexes.                                            *)
(***************************************************************************)
\* The steps of an instruction leave collector, markers and mutexes alone.
LEMMA ExecuteFrame ==
  ASSUME NEW t \in Threads, Execute(t)
  PROVE  UNCHANGED <<kind, flag, cache_size, blk, storeVars, sizeVars, gcVars, markVars, lockVars>>
BY DEF Execute, StartThread, EndThread, PopInt, LoadVar, StoreVar, LoadField, StoreField,
       AddJitMethodRoot, RemoveJitMethodRoot, Allocate, heapVars, threadVars

\* A marker leaves the collector, the threads and the heap but for the marks.
LEMMA MarkerFrame ==
  ASSUME NEW m \in Markers, MarkerStep(m)
  PROVE  UNCHANGED <<mem, kind, cache_size, rootVars, storeVars, sizeVars, threadVars,
                     cpc, info, live_memory, unswept, marked_mutex, marked_sweep_mutex>>
BY DEF MarkerStep, StartMarker, Visit, GetClassMapping, TestMark, MarkMemory, SearchValid,
       MarkValidMemory, CheckElements, EndMarker, heapVars, gcVars, markVars, lockVars

\* The collector leaves the threads and their roots alone.
LEMMA CollectorFrame ==
  ASSUME CollectorStep
  PROVE  UNCHANGED <<rootVars, threadVars, info, at, todo, marked_sweep_mutex, jit_mutex,
                     pda_monitor_mutex>>
BY DEF CollectorStep, SortAndSpawn, JoinMarkers, LockAllocated, FinishSweep, KeepBlock,
       FreeBlock, heapVars, gcVars, markVars, lockVars

\* An allocation leaves the markers and their mutexes alone.
LEMMA AllocateFrame ==
  ASSUME NEW t \in Threads, AllocateStep(t)
  PROVE  UNCHANGED <<jit_roots, pda_monitors, live_memory, unswept, marked_memory, markVars,
                     allocated_mutex, marked_mutex, jit_mutex, pda_monitor_mutex>>
BY DEF AllocateStep, TryLock, JoinCollector, TakeTop, PopTop, Calloc, Record, Finish,
       rootVars, gcVars, lockVars

LEMMA InitBase == Init => BaseInv
<1> SUFFICES ASSUME Init PROVE BaseInv
  OBVIOUS
<1>1. TypeOK
  BY InitTypes
<1>2. Phases /\ MarkersAt /\ Holders /\ Allocating
  BY SetsAssumption DEF Init, Phases, MarkersAt, Holders, Allocating, Collector
<1> QED
  BY <1>1, <1>2 DEF BaseInv

LEMMA NextPhases ==
  ASSUME BaseInv, Next
  PROVE  Phases'
<1> USE DEF gcVars, markVars, lockVars, threadVars
<1>1. ASSUME NEW t \in Threads, Execute(t) PROVE Phases'
  <2>1. UNCHANGED <<gcVars, markVars, lockVars>>
    BY <1>1, ExecuteFrame
  <2>2. \A u \in Threads : pc'[u] = "join" <=> pc[u] = "join"
    BY <1>1 DEF Execute, StartThread, EndThread, PopInt, LoadVar, StoreVar, LoadField,
                StoreField, AddJitMethodRoot, RemoveJitMethodRoot, Allocate, Checked,
                Running, BaseInv, TypeOK
  <2> QED
    BY <2>1, <2>2 DEF BaseInv, Phases
<1>2. ASSUME NEW t \in Threads, TryLock(t) PROVE Phases'
  BY <1>2, SetsAssumption DEF TryLock, BaseInv, TypeOK, Phases
<1>3. ASSUME NEW t \in Threads, JoinCollector(t) PROVE Phases'
  BY <1>3, SetsAssumption DEF JoinCollector, BaseInv, TypeOK, Phases
<1>4. ASSUME NEW t \in Threads,
             \/ TakeTop(t) \/ PopTop(t) \/ (\E b \in Blocks : Calloc(t, b))
             \/ Record(t) \/ Finish(t)
      PROVE  Phases'
  <2>1. UNCHANGED <<gcVars, markVars, lockVars>>
    BY <1>4 DEF TakeTop, PopTop, Calloc, Record, Finish
  <2>2. \A u \in Threads : pc'[u] = "join" <=> pc[u] = "join"
    BY <1>4 DEF TakeTop, PopTop, Calloc, Record, Finish, Checked, Collects, BaseInv, TypeOK
  <2> QED
    BY <2>1, <2>2 DEF BaseInv, Phases
<1>5. ASSUME NEW m \in Markers, MarkerStep(m) PROVE Phases'
  <2>1. UNCHANGED <<pc, cpc, info, marked_sweep_mutex>>
    BY <1>5, MarkerFrame
  <2> mpc \in [Markers -> MarkPCs]
    BY DEF BaseInv, TypeOK
  <2>2. \A n \in Markers : mpc'[n] = "off" <=> mpc[n] = "off"
    <3>1. CASE \E s \in Slots : Visit(m, s)
      BY <3>1 DEF Visit
    <3>2. CASE SearchValid(m)
      BY <3>2 DEF SearchValid
    <3>3. CASE \/ StartMarker(m) \/ GetClassMapping(m) \/ TestMark(m) \/ MarkMemory(m)
               \/ MarkValidMemory(m) \/ CheckElements(m) \/ EndMarker(m)
      BY <3>3 DEF StartMarker, GetClassMapping, TestMark, MarkMemory, MarkValidMemory,
                  CheckElements, EndMarker
    <3> QED
      BY <1>5, <3>1, <3>2, <3>3 DEF MarkerStep
  <2> QED
    BY <2>1, <2>2 DEF BaseInv, Phases
<1>6. ASSUME CollectorStep PROVE Phases'
  <2>1. UNCHANGED <<pc, info, marked_sweep_mutex>>
    BY <1>6, CollectorFrame
  <2>2. cpc' # "idle" /\ cpc # "idle"
    BY <1>6 DEF CollectorStep, SortAndSpawn, JoinMarkers, LockAllocated, KeepBlock, FreeBlock,
                FinishSweep
  <2>3. \A m \in Markers : mpc'[m] = "off" <=> cpc' # "mark"
    BY <1>6 DEF CollectorStep, SortAndSpawn, JoinMarkers, LockAllocated, KeepBlock, FreeBlock,
                FinishSweep, BaseInv, Phases, TypeOK
  <2> QED
    BY <2>1, <2>2, <2>3 DEF BaseInv, Phases
<1> QED
  BY <1>1, <1>2, <1>3, <1>4, <1>5, <1>6 DEF Next, AllocateStep

LEMMA NextMarkersAt ==
  ASSUME BaseInv, Next
  PROVE  MarkersAt'
<1> USE DEF markVars
<1>1. ASSUME NEW t \in Threads, Execute(t) \/ AllocateStep(t) PROVE MarkersAt'
  BY <1>1, ExecuteFrame, AllocateFrame DEF BaseInv, MarkersAt
<1>2. ASSUME NEW m \in Markers, NEW s \in Slots, Visit(m, s) PROVE MarkersAt'
  BY <1>2 DEF Visit, BaseInv, TypeOK, MarkersAt
<1>3. ASSUME NEW m \in Markers,
             \/ StartMarker(m) \/ GetClassMapping(m) \/ TestMark(m) \/ MarkMemory(m)
             \/ SearchValid(m) \/ MarkValidMemory(m) \/ CheckElements(m) \/ EndMarker(m)
      PROVE  MarkersAt'
  BY <1>3, ZenonT(40) DEF StartMarker, GetClassMapping, TestMark, MarkMemory, SearchValid,
              MarkValidMemory, CheckElements, EndMarker, BaseInv, TypeOK, MarkersAt
<1>4. ASSUME CollectorStep PROVE MarkersAt'
  <2>1. UNCHANGED <<at, todo>>
    BY <1>4, CollectorFrame
  <2>2. \A m \in Markers :
          \/ mpc'[m] = mpc[m]
          \/ mpc[m] = "off" /\ mpc'[m] = "start"
          \/ mpc[m] = "exit" /\ mpc'[m] = "off"
    BY <1>4 DEF CollectorStep, SortAndSpawn, JoinMarkers, LockAllocated, KeepBlock, FreeBlock,
                FinishSweep, BaseInv, Phases
  <2> QED
    BY <2>1, <2>2 DEF BaseInv, MarkersAt
<1> QED
  BY <1>1, <1>2, <1>3, <1>4 DEF Next, MarkerStep

LEMMA NextHolders ==
  ASSUME BaseInv, Next
  PROVE  Holders'
<1> USE DEF markVars, lockVars
<1>1. ASSUME NEW t \in Threads, Execute(t) PROVE Holders'
  BY <1>1, ExecuteFrame DEF gcVars, BaseInv, Holders
<1>2. ASSUME NEW t \in Threads, AllocateStep(t) PROVE Holders'
  <2>1. UNCHANGED <<allocated_mutex, marked_mutex, mpc>>
    BY <1>2, AllocateFrame
  <2>2. \/ cpc' = cpc
        \/ cpc \in {"idle", "done"} /\ cpc' \in {"idle", "sort"}
    BY <1>2 DEF AllocateStep, TryLock, JoinCollector, TakeTop, PopTop, Calloc, Record, Finish,
                gcVars, BaseInv, Phases
  <2> QED
    BY <2>1, <2>2 DEF BaseInv, Holders
<1>3. ASSUME NEW m \in Markers, MarkerStep(m) PROVE Holders'
  <2>1. UNCHANGED <<cpc, marked_mutex>>
    BY <1>3, MarkerFrame
  <2>2. \A n \in Markers : n # Collector /\ n # None
    BY SetsAssumption DEF Markers, Collector
  <2>3. CASE mpc[m] = "valid" /\ SearchValid(m)
    BY <2>1, <2>2, <2>3, SetsAssumption DEF SearchValid, BaseInv, TypeOK, Holders
  <2>4. CASE MarkValidMemory(m)
    BY <2>1, <2>2, <2>4, SetsAssumption DEF MarkValidMemory, BaseInv, TypeOK, Holders
  <2>5. CASE \/ StartMarker(m) \/ (\E s \in Slots : Visit(m, s)) \/ GetClassMapping(m)
             \/ TestMark(m) \/ MarkMemory(m) \/ CheckElements(m) \/ EndMarker(m)
    <3>1. CASE StartMarker(m) \/ EndMarker(m)
      BY <2>1, <3>1 DEF StartMarker, EndMarker, BaseInv, TypeOK, Holders
    <3>2. CASE \E s \in Slots : Visit(m, s)
      BY <2>1, <3>2 DEF Visit, BaseInv, TypeOK, Holders
    <3>3. CASE GetClassMapping(m) \/ TestMark(m)
      BY <2>1, <3>3 DEF GetClassMapping, TestMark, BaseInv, TypeOK, Holders
    <3>4. CASE MarkMemory(m) \/ CheckElements(m)
      BY <2>1, <3>4, ZenonT(40) DEF MarkMemory, CheckElements, BaseInv, TypeOK, Holders
    <3> QED
      BY <2>5, <3>1, <3>2, <3>3, <3>4
  <2> QED
    BY <1>3, <2>3, <2>4, <2>5 DEF MarkerStep, SearchValid
<1>4. ASSUME CollectorStep PROVE Holders'
  <2>1. \A n \in Markers : n # Collector /\ n # None /\ Collector # None
    BY SetsAssumption DEF Markers, Collector
  <2>2. CASE SortAndSpawn \/ JoinMarkers
    BY <2>1, <2>2, SetsAssumption DEF SortAndSpawn, JoinMarkers, BaseInv, Phases, Holders
  <2>3. CASE LockAllocated
    BY <2>1, <2>3 DEF LockAllocated, BaseInv, Phases, Holders
  <2>4. CASE \E b \in Blocks : KeepBlock(b) \/ FreeBlock(b)
    BY <2>4 DEF KeepBlock, FreeBlock, BaseInv, Holders
  <2>5. CASE FinishSweep
    BY <2>1, <2>5, SetsAssumption DEF FinishSweep, BaseInv, Phases, Holders
  <2> QED
    BY <1>4, <2>2, <2>3, <2>4, <2>5 DEF CollectorStep
<1> QED
  BY <1>1, <1>2, <1>3, <1>4 DEF Next

LEMMA NextAllocating ==
  ASSUME BaseInv, Next
  PROVE  Allocating'
<1> USE DEF threadVars, rootVars
<1>1. ASSUME NEW t \in Threads, NEW j \in Program, Allocate(t, j) PROVE Allocating'
  BY <1>1, SetsAssumption, NumbersAssumption DEF Allocate, Running, CanPush, Checked, BaseInv, TypeOK, Allocating
<1>2. ASSUME NEW t \in Threads,
             \/ StartThread(t) \/ EndThread(t) \/ PopInt(t)
             \/ \E s \in Variables(t) : LoadVar(t, s) \/ StoreVar(t, s)
             \/ \E f \in Fields : LoadField(t, f) \/ StoreField(t, f)
             \/ \E j \in JitFrames : AddJitMethodRoot(t, j) \/ RemoveJitMethodRoot(t, j)
      PROVE  Allocating'
  <2>1. UNCHANGED <<job, blk>>
    BY <1>2 DEF StartThread, EndThread, PopInt, LoadVar, StoreVar, LoadField,
                StoreField, AddJitMethodRoot, RemoveJitMethodRoot
  <2> pc \in [Threads -> ThreadPCs] /\ stack_pos \in [Threads -> 0 .. StackDepth]
    BY DEF BaseInv, TypeOK
  <2>2. ASSUME NEW u \in Threads, u # t PROVE pc'[u] = pc[u] /\ stack_pos'[u] = stack_pos[u]
    BY <1>2, <2>2 DEF StartThread, EndThread, PopInt, LoadVar, StoreVar, LoadField, StoreField,
                      AddJitMethodRoot, RemoveJitMethodRoot
  <2>3. pc'[t] \in {"off", "run"}
    BY <1>2 DEF StartThread, EndThread, PopInt, LoadVar, StoreVar, LoadField, StoreField,
                AddJitMethodRoot, RemoveJitMethodRoot, Running
  <2> QED
    BY <2>1, <2>2, <2>3 DEF BaseInv, Allocating
<1>3. ASSUME NEW t \in Threads, TryLock(t) \/ JoinCollector(t) PROVE Allocating'
  BY <1>3 DEF TryLock, JoinCollector, BaseInv, TypeOK, Allocating
<1>4. ASSUME NEW t \in Threads, TakeTop(t) PROVE Allocating'
  <2>1. PoolOf[JobKind(job[t])] \in Pools
    BY <1>4, JobKindType, PoolAssumption DEF TakeTop
  <2> DEFINE c == cache_pool[PoolOf[JobKind(job[t])]]
  <2>2. c \in Seq(Blocks) /\ c # <<>>
    BY <1>4, <2>1 DEF TakeTop, BaseInv, TypeOK
  <2>3. c[Len(c)] \in Blocks
    BY <2>2
  <2> QED
    BY <1>4, <2>3 DEF TakeTop, BaseInv, TypeOK, Allocating
<1>5. ASSUME NEW t \in Threads, NEW b \in Blocks, Calloc(t, b) PROVE Allocating'
  BY <1>5 DEF Calloc, BaseInv, TypeOK, Allocating
<1>6. ASSUME NEW t \in Threads, PopTop(t) \/ Record(t) PROVE Allocating'
  BY <1>6 DEF PopTop, Record, BaseInv, TypeOK, Allocating
<1>7. ASSUME NEW t \in Threads, Finish(t) PROVE Allocating'
  <2>1. CASE job[t] = "CreateStringObject"
    BY <1>7, <2>1 DEF Finish, Checked, Collects, Jobs, BaseInv, TypeOK, Allocating
  <2>2. CASE job[t] # "CreateStringObject"
    BY <1>7, <2>2 DEF Finish, BaseInv, TypeOK, Allocating
  <2> QED
    BY <2>1, <2>2
<1>8. ASSUME NEW m \in Markers, MarkerStep(m) PROVE Allocating'
  BY <1>8, MarkerFrame DEF BaseInv, Allocating
<1>9. ASSUME CollectorStep PROVE Allocating'
  BY <1>9, CollectorFrame DEF BaseInv, Allocating
<1> QED
  BY <1>1, <1>2, <1>3, <1>4, <1>5, <1>6, <1>7, <1>8, <1>9 DEF Next, Execute, AllocateStep

THEOREM BaseInvariant == Spec => []BaseInv
<1>1. Init => BaseInv
  BY InitBase
<1>2. BaseInv /\ [Next]_vars => BaseInv'
  <2>1. ASSUME BaseInv, Next PROVE BaseInv'
    BY <2>1, NextTypes, NextPhases, NextMarkersAt, NextHolders, NextAllocating DEF BaseInv
  <2>2. ASSUME BaseInv, UNCHANGED vars PROVE BaseInv'
    BY <2>2 DEF vars, heapVars, rootVars, storeVars, sizeVars, threadVars, gcVars, markVars,
                lockVars, BaseInv, TypeOK, Phases, MarkersAt, Holders, Allocating
  <2> QED
    BY <2>1, <2>2
<1> QED
  BY <1>1, <1>2, PTL DEF Spec

\* The state of the memory manager always has its types.
THEOREM TypeCorrect == Spec => []TypeOK
<1>1. BaseInv => TypeOK
  BY DEF BaseInv
<1> QED
  BY <1>1, BaseInvariant, PTL

\* However many threads allocate at once, CollectMemory lets one of them
\* start a collection, and that one holds marked_sweep_mutex to its end.
THEOREM CollectionsExclude == Spec => []OneCollection
<1>1. BaseInv => OneCollection
  BY DEF BaseInv, Phases, OneCollection
<1> QED
  BY <1>1, BaseInvariant, PTL

\* MarkValidMemory takes allocated_mutex and then marked_mutex, CollectMemory
\* the other way round; because it joins the markers first, neither can hold
\* one and wait for the other.
THEOREM LocksOrdered == Spec => []NoLockCycle
<1>1. BaseInv => NoLockCycle
  BY DEF BaseInv, Phases, Holders, NoLockCycle
<1> QED
  BY <1>1, BaseInvariant, PTL

-----------------------------------------------------------------------------
(***************************************************************************)
(* A program that starts no thread of its own: the collector frees nothing *)
(* the program can reach.                                                  *)
(***************************************************************************)
\* The program runs in the main thread only.
OneThread == \A t, u \in Threads : t = u

(***************************************************************************)
(* The inductive invariant, on top of BaseInv.                             *)
(***************************************************************************)
\* allocated_memory stays sorted from the start of the mark phase.
Sorted == cpc \in {"mark", "lock", "sweep"} => sorted

\* The marks in the headers are the blocks in marked_memory, until the sweep
\* takes them away one by one.
Marks ==
  /\ marked_memory \subseteq allocated_memory
  /\ cpc \in {"idle", "sort", "done"} => marked_memory = {}
  /\ \A b \in Blocks :
       flag[b] <=> (b \in marked_memory /\ (cpc = "sweep" => b \in unswept))

\* The sweep has kept marked blocks only, and has every other one before it.
Swept ==
  /\ cpc # "sweep" => unswept = {} /\ live_memory = {}
  /\ cpc = "sweep" => /\ unswept \subseteq allocated_memory
                      /\ live_memory \subseteq marked_memory
                      /\ marked_memory \subseteq live_memory \cup unswept

\* A block of which pools, heap_free and the heap know nothing is new.
NoFields(b) == \A f \in Fields : mem[<<b, f>>] = Nil
Pooled(p) == {cache_pool[p][i] : i \in 1 .. Len(cache_pool[p])}

\* A block is in the heap, in one pool once, in a thread's hands or free, and
\* refers to nothing unless it is in the heap.
Placed ==
  /\ \A b \in Heap : b \notin heap_free
  /\ \A p \in Pools : \A b \in Pooled(p) : b \notin Heap \cup heap_free /\ NoFields(b)
  /\ \A p \in Pools : \A i, k \in 1 .. Len(cache_pool[p]) :
       cache_pool[p][i] = cache_pool[p][k] => i = k
  /\ \A p, q \in Pools : p # q => Pooled(p) \cap Pooled(q) = {}

\* The block an allocation has chosen: the top of a pool, then in no pool.
InHands ==
  \A t \in Threads :
    /\ pc[t] = "pop" =>
         LET p == PoolOf[JobKind(job[t])] IN
         /\ p \in Pools /\ cache_pool[p] # <<>>
         /\ blk[t] = cache_pool[p][Len(cache_pool[p])]
    /\ pc[t] = "record" =>
         /\ blk[t] \notin Heap \cup heap_free /\ NoFields(blk[t])
         /\ \A p \in Pools : blk[t] \notin Pooled(p)

\* A thread runs with its monitor registered; the pointer it keeps in a C
\* local while it may collect is still in the slot above the top of its stack.
Threaded ==
  \A t \in Threads :
    /\ pc[t] = "off" <=> t \notin pda_monitors
    /\ pc[t] = "off" => stack_pos[t] = 0
    /\ pc[t] \in {"off", "run"} => scratch[t] = Nil
    /\ pc[t] \in {"trylock", "join"} /\ scratch[t] # Nil =>
         mem[<<t, stack_pos[t]>>] = scratch[t]

\* Markers hold blocks of the heap, marked ones when they turn to elements.
OnHeap ==
  \A m \in Markers :
    /\ mpc[m] \in {"test", "mark", "markvalid"} => at[m] \in allocated_memory
    /\ mpc[m] = "elements" => at[m] \in marked_memory

\* The content of slot s is taken care of: it is no block of the heap, it is
\* marked, a marker has the slot to check or the block at hand.
Covered(s) ==
  \/ mem[s] \notin allocated_memory
  \/ mem[s] \in marked_memory
  \/ \E m \in Markers : s \in todo[m]
  \/ \E m \in Markers : /\ at[m] = mem[s]
                        /\ mpc[m] \in {"map", "test", "mark", "valid", "markvalid"}

\* The mark phase: the roots of every marker that has begun are covered, and
\* so are the fields of marked blocks ...
Marking ==
  cpc = "mark" =>
    /\ \A m \in Markers : mpc[m] # "start" => \A s \in RootSlots(m) : Covered(s)
    /\ \A b \in marked_memory :
         \/ \A s \in RefSlots(b) : Covered(s)
         \/ \E m \in Markers : mpc[m] = "elements" /\ at[m] = b

\* ... and what a marker follows without a search is in the heap.
Followed ==
  cpc = "mark" =>
    \A m \in Markers : \A s \in todo[m] :
      s \in ConservativeSlots \/ mem[s] \in allocated_memory \cup {Nil}

\* When the sweep is about to begin, the marked blocks are closed.
Marked ==
  cpc = "lock" =>
    /\ \A s \in LiveRoots : mem[s] \in marked_memory \cup {Nil}
    /\ \A b \in marked_memory : \A s \in RefSlots(b) : mem[s] \in marked_memory \cup {Nil}
    /\ \A t \in Threads : scratch[t] \in marked_memory \cup {Nil}

SafeInv == /\ Sorted /\ Marks /\ Swept /\ Placed /\ InHands /\ Threaded /\ OnHeap
           /\ NoDangling /\ Marking /\ Followed /\ Marked

(***************************************************************************)
(* With one thread, a collection and the program never run together.       *)
(***************************************************************************)
LEMMA Paused ==
  ASSUME OneThread, BaseInv, NEW t \in Threads, cpc # "idle"
  PROVE  pc[t] = "join"
<1>1. marked_sweep_mutex \in Threads
  BY DEF BaseInv, Phases, TypeOK
<1> QED
  BY <1>1 DEF OneThread, BaseInv, Phases

LEMMA ExecuteIdle ==
  ASSUME OneThread, BaseInv, NEW t \in Threads, Execute(t)
  PROVE  /\ cpc = "idle" /\ cpc' = "idle"
         /\ pc[t] \in {"off", "run"}
         /\ pc'[t] \in {"off", "run", "trylock", "take"}
         /\ \A u \in Threads : u = t
<1>1. pc[t] \in {"off", "run"}
  BY DEF Execute, StartThread, EndThread, PopInt, LoadVar, StoreVar, LoadField, StoreField,
         AddJitMethodRoot, RemoveJitMethodRoot, Allocate, Running
<1>2. cpc = "idle"
  BY <1>1, Paused
<1>3. cpc' = "idle"
  BY <1>2, ExecuteFrame DEF gcVars
<1>4. pc'[t] \in {"off", "run", "trylock", "take"}
  <2> pc \in [Threads -> ThreadPCs]
    BY DEF BaseInv, TypeOK
  <2> QED
    BY DEF Execute, StartThread, EndThread, PopInt, LoadVar, StoreVar, LoadField, StoreField,
           AddJitMethodRoot, RemoveJitMethodRoot, Allocate, Checked, Running, threadVars
<1> QED
  BY <1>1, <1>2, <1>3, <1>4 DEF OneThread

\* Before and after an allocation's step there is no mark phase and no sweep.
LEMMA AllocateIdle ==
  ASSUME OneThread, BaseInv, NEW t \in Threads, AllocateStep(t)
  PROVE  /\ cpc \in {"idle", "done"} /\ cpc' \in {"idle", "sort"}
         /\ ~JoinCollector(t) => cpc = "idle"
         /\ ~TryLock(t) => cpc' = "idle"
         /\ \A u \in Threads : u = t
<1>1. CASE TryLock(t)
  <2>1. cpc = "idle"
    BY <1>1, Paused DEF TryLock
  <2>2. marked_sweep_mutex = None
    BY <2>1 DEF BaseInv, Phases
  <2> QED
    BY <1>1, <2>1, <2>2 DEF TryLock, OneThread
<1>2. CASE JoinCollector(t)
  BY <1>2 DEF JoinCollector, OneThread
<1>3. CASE \/ TakeTop(t) \/ PopTop(t) \/ (\E b \in Blocks : Calloc(t, b))
           \/ Record(t) \/ Finish(t)
  <2>1. pc[t] # "join" /\ cpc' = cpc
    BY <1>3 DEF TakeTop, PopTop, Calloc, Record, Finish, gcVars
  <2> QED
    BY <2>1, Paused DEF OneThread
<1> QED
  BY <1>1, <1>2, <1>3 DEF AllocateStep

LEMMA MarkerPhase ==
  ASSUME BaseInv, NEW m \in Markers, MarkerStep(m)
  PROVE  cpc = "mark" /\ cpc' = "mark"
<1>1. mpc[m] # "off"
  BY DEF MarkerStep, StartMarker, Visit, GetClassMapping, TestMark, MarkMemory, SearchValid,
         MarkValidMemory, CheckElements, EndMarker
<1> QED
  BY <1>1, MarkerFrame DEF BaseInv, Phases

(***************************************************************************)
(* Marks, sweep and order of allocated_memory.                             *)
(***************************************************************************)
LEMMA NextSorted ==
  ASSUME OneThread, BaseInv, Sorted, Next
  PROVE  Sorted'
<1>1. ASSUME NEW t \in Threads, Execute(t) \/ AllocateStep(t) PROVE Sorted'
  BY <1>1, ExecuteIdle, AllocateIdle DEF Sorted
<1>2. ASSUME NEW m \in Markers, MarkerStep(m) PROVE Sorted'
  BY <1>2, MarkerFrame DEF storeVars, Sorted
<1>3. ASSUME CollectorStep PROVE Sorted'
  BY <1>3 DEF CollectorStep, SortAndSpawn, JoinMarkers, LockAllocated, KeepBlock, FreeBlock,
              FinishSweep, storeVars, Sorted
<1> QED
  BY <1>1, <1>2, <1>3 DEF Next

LEMMA NextSwept ==
  ASSUME OneThread, BaseInv, Marks, Swept, Next
  PROVE  Swept'
<1>1. ASSUME NEW t \in Threads, Execute(t) \/ AllocateStep(t) PROVE Swept'
  BY <1>1, ExecuteIdle, AllocateIdle, ExecuteFrame, AllocateFrame DEF gcVars, Swept
<1>2. ASSUME NEW m \in Markers, MarkerStep(m) PROVE Swept'
  BY <1>2, MarkerFrame, MarkerPhase DEF Swept
<1>3. ASSUME SortAndSpawn \/ JoinMarkers PROVE Swept'
  BY <1>3 DEF SortAndSpawn, JoinMarkers, Swept
<1>4. ASSUME LockAllocated PROVE Swept'
  BY <1>4 DEF LockAllocated, storeVars, Marks, Swept
<1>5. ASSUME NEW b \in Blocks, KeepBlock(b) \/ FreeBlock(b) PROVE Swept'
  BY <1>5 DEF KeepBlock, FreeBlock, storeVars, Swept
<1>6. ASSUME FinishSweep PROVE Swept'
  BY <1>6 DEF FinishSweep, Swept
<1> QED
  BY <1>1, <1>2, <1>3, <1>4, <1>5, <1>6 DEF Next, CollectorStep

LEMMA NextMarks ==
  ASSUME OneThread, BaseInv, Marks, Swept, Placed, OnHeap, Next
  PROVE  Marks'
<1> flag \in [Blocks -> BOOLEAN] /\ allocated_memory \subseteq Blocks /\ at \in [Markers -> Refs]
  BY DEF BaseInv, TypeOK
<1>1. ASSUME NEW t \in Threads, Execute(t) PROVE Marks'
  BY <1>1, ExecuteFrame DEF storeVars, gcVars, Marks
<1>2. ASSUME NEW t \in Threads, AllocateStep(t) PROVE Marks'
  <2>1. /\ UNCHANGED <<marked_memory, unswept>>
        /\ marked_memory = {} /\ cpc' \in {"idle", "sort"} /\ cpc # "sweep"
    BY <1>2, AllocateFrame, AllocateIdle DEF Marks
  <2>2. \A b \in Blocks : flag'[b] = flag[b] \/ flag'[b] = FALSE
    BY <1>2 DEF AllocateStep, TryLock, JoinCollector, TakeTop, PopTop, Calloc, Record, Finish,
                heapVars
  <2> QED
    BY <2>1, <2>2 DEF Marks
<1>3. ASSUME NEW m \in Markers, MarkMemory(m) \/ MarkValidMemory(m) PROVE Marks'
  <2>1. cpc = "mark" /\ cpc' = "mark" /\ at[m] \in allocated_memory
    BY <1>3, MarkerPhase DEF MarkerStep, OnHeap, MarkMemory, MarkValidMemory
  <2>2. /\ marked_memory' = marked_memory \cup {at[m]} /\ allocated_memory' = allocated_memory
        /\ flag' = [flag EXCEPT ![at[m]] = TRUE]
    BY <1>3 DEF MarkMemory, MarkValidMemory, storeVars
  <2> QED
    BY <2>1, <2>2 DEF Marks
<1>4. ASSUME NEW m \in Markers,
             \/ StartMarker(m) \/ (\E s \in Slots : Visit(m, s)) \/ GetClassMapping(m)
             \/ TestMark(m) \/ SearchValid(m) \/ CheckElements(m) \/ EndMarker(m)
      PROVE  Marks'
  <2>1. UNCHANGED <<flag, marked_memory, allocated_memory, cpc, unswept>>
    BY <1>4 DEF StartMarker, Visit, GetClassMapping, TestMark, SearchValid, CheckElements,
                EndMarker, heapVars, storeVars, gcVars
  <2> QED
    BY <2>1 DEF Marks
<1>5. ASSUME SortAndSpawn \/ JoinMarkers PROVE Marks'
  BY <1>5 DEF SortAndSpawn, JoinMarkers, heapVars, storeVars, Marks
<1>6. ASSUME LockAllocated PROVE Marks'
  BY <1>6 DEF LockAllocated, heapVars, storeVars, Marks
<1>7. ASSUME NEW b \in Blocks, KeepBlock(b) PROVE Marks'
  BY <1>7 DEF KeepBlock, storeVars, Marks
<1>8. ASSUME NEW b \in Blocks, FreeBlock(b) PROVE Marks'
  BY <1>8 DEF FreeBlock, Marks
<1>9. ASSUME FinishSweep PROVE Marks'
  BY <1>9 DEF FinishSweep, heapVars, Swept, Marks
<1> QED
  BY <1>1, <1>2, <1>3, <1>4, <1>5, <1>6, <1>7, <1>8, <1>9 DEF Next, MarkerStep, CollectorStep

(***************************************************************************)
(* Threads.                                                                *)
(***************************************************************************)
LEMMA NextThreaded ==
  ASSUME OneThread, BaseInv, Threaded, Next
  PROVE  Threaded'
<1> /\ pc \in [Threads -> ThreadPCs] /\ stack_pos \in [Threads -> 0 .. StackDepth]
    /\ scratch \in [Threads -> Refs] /\ mem \in [Slots -> Refs] /\ pda_monitors \subseteq Threads
  BY DEF BaseInv, TypeOK
<1>1. ASSUME NEW t \in Threads, NEW j \in Program, Allocate(t, j) PROVE Threaded'
  <2>1. \A u \in Threads : u = t
    BY DEF OneThread
  <2>2. pc[t] = "run" /\ UNCHANGED <<mem, pda_monitors>> /\ pc'[t] \in {"trylock", "take"}
    BY <1>1 DEF Allocate, Running, Checked, heapVars
  <2>3. scratch'[t] # Nil => mem[<<t, stack_pos'[t]>>] = scratch'[t]
    <3>1. CASE j = "LOAD_MULTI_ARY_SIZE"
      BY <1>1, <3>1 DEF Allocate, Top
    <3>2. CASE j # "LOAD_MULTI_ARY_SIZE"
      BY <1>1, <2>2, <3>2 DEF Allocate, Threaded
    <3> QED
      BY <3>1, <3>2
  <2> QED
    BY <2>1, <2>2, <2>3 DEF Threaded
<1>2. ASSUME NEW t \in Threads,
             \/ StartThread(t) \/ EndThread(t) \/ PopInt(t)
             \/ \E s \in Variables(t) : LoadVar(t, s) \/ StoreVar(t, s)
             \/ \E f \in Fields : LoadField(t, f) \/ StoreField(t, f)
             \/ \E j \in JitFrames : AddJitMethodRoot(t, j) \/ RemoveJitMethodRoot(t, j)
      PROVE  Threaded'
  <2>1. \A u \in Threads : u = t
    BY DEF OneThread
  <2>2. scratch' = scratch /\ pc[t] \in {"off", "run"} /\ pc'[t] \in {"off", "run"}
    BY <1>2 DEF StartThread, EndThread, PopInt, LoadVar, StoreVar, LoadField, StoreField,
                AddJitMethodRoot, RemoveJitMethodRoot, Running, threadVars
  <2>3. /\ pc'[t] = "off" <=> t \notin pda_monitors'
        /\ pc'[t] = "off" => stack_pos'[t] = 0
    BY <1>2 DEF StartThread, EndThread, PopInt, LoadVar, StoreVar, LoadField, StoreField,
                AddJitMethodRoot, RemoveJitMethodRoot, Running, threadVars, rootVars, Threaded
  <2> QED
    BY <2>1, <2>2, <2>3 DEF Threaded
<1>3. ASSUME NEW t \in Threads, TryLock(t) \/ JoinCollector(t) PROVE Threaded'
  BY <1>3 DEF TryLock, JoinCollector, heapVars, rootVars, Threaded
<1>4. ASSUME NEW t \in Threads,
             \/ TakeTop(t) \/ PopTop(t) \/ (\E b \in Blocks : Calloc(t, b)) \/ Record(t)
      PROVE  Threaded'
  <2>1. \A u \in Threads : u = t
    BY DEF OneThread
  <2>2. /\ UNCHANGED <<scratch, rootVars>> /\ pc[t] # "off"
        /\ pc'[t] \in {"pop", "record", "finish"}
    BY <1>4 DEF TakeTop, PopTop, Calloc, Record, rootVars
  <2> QED
    BY <2>1, <2>2 DEF rootVars, Threaded
<1>5. ASSUME NEW t \in Threads, Finish(t) PROVE Threaded'
  <2>1. \A u \in Threads : u = t
    BY DEF OneThread
  <2>2. pda_monitors' = pda_monitors /\ pc[t] # "off" /\ pc'[t] \in {"take", "run"}
    BY <1>5 DEF Finish, Checked, Collects
  <2>3. pc'[t] = "run" => scratch'[t] = Nil
    BY <1>5 DEF Finish, Checked, Collects
  <2> QED
    BY <2>1, <2>2, <2>3 DEF Threaded
<1>6. ASSUME NEW m \in Markers, MarkerStep(m) PROVE Threaded'
  BY <1>6, MarkerFrame DEF threadVars, rootVars, Threaded
<1>7. ASSUME CollectorStep PROVE Threaded'
  <2>1. UNCHANGED <<threadVars, rootVars>>
    BY <1>7, CollectorFrame
  <2>2. \A t \in Threads : mem'[<<t, stack_pos[t]>>] = mem[<<t, stack_pos[t]>>]
    <3>1. CASE \E b \in Blocks : FreeBlock(b)
      BY <3>1, SlotFacts, SetsAssumption DEF FreeBlock, FieldSlots
    <3>2. CASE ~ \E b \in Blocks : FreeBlock(b)
      BY <1>7, <3>2 DEF CollectorStep, SortAndSpawn, JoinMarkers, LockAllocated, KeepBlock,
                        FinishSweep, heapVars
    <3> QED
      BY <3>1, <3>2
  <2> QED
    BY <2>1, <2>2 DEF threadVars, rootVars, Threaded
<1> QED
  BY <1>1, <1>2, <1>3, <1>4, <1>5, <1>6, <1>7 DEF Next, Execute, AllocateStep

(***************************************************************************)
(* The mark phase.                                                         *)
(***************************************************************************)
\* On a sorted vector the search is exact.
LEMMA SearchExact ==
  ASSUME Sorted, cpc = "mark", NEW b, NEW found \in Search(b)
  PROVE  found <=> b \in allocated_memory
<1>1. Search(b) = IF b \in allocated_memory THEN {TRUE} ELSE {FALSE}
  BY DEF Sorted, Search
<1>2. CASE b \in allocated_memory
  <2>1. found = TRUE
    BY <1>1, <1>2
  <2> QED
    BY <1>2, <2>1
<1>3. CASE b \notin allocated_memory
  <2>1. found = FALSE
    BY <1>1, <1>3
  <2> QED
    BY <1>3, <2>1
<1> QED
  BY <1>2, <1>3

LEMMA NextOnHeap ==
  ASSUME OneThread, BaseInv, Sorted, Marks, OnHeap, Followed, Next
  PROVE  OnHeap'
<1> /\ mpc \in [Markers -> MarkPCs] /\ at \in [Markers -> Refs]
  BY DEF BaseInv, TypeOK
<1>1. ASSUME NEW t \in Threads, Execute(t) \/ AllocateStep(t) PROVE OnHeap'
  <2>1. \A m \in Markers : mpc'[m] = "off"
    <3>1. cpc # "mark"
      BY <1>1, ExecuteIdle, AllocateIdle
    <3>2. mpc' = mpc
      BY <1>1, ExecuteFrame, AllocateFrame DEF markVars
    <3> QED
      BY <3>1, <3>2 DEF BaseInv, Phases
  <2> QED
    BY <2>1 DEF OnHeap
<1>2. ASSUME NEW m \in Markers, MarkerStep(m) PROVE OnHeap'
  <2>1. cpc = "mark" /\ allocated_memory' = allocated_memory
    BY <1>2, MarkerPhase, MarkerFrame DEF storeVars
  <2>2. marked_memory \subseteq marked_memory'
    BY <1>2 DEF MarkerStep, StartMarker, Visit, GetClassMapping, TestMark, MarkMemory,
                SearchValid, MarkValidMemory, CheckElements, EndMarker, gcVars
  <2>3. \A n \in Markers : n # m => mpc'[n] = mpc[n] /\ at'[n] = at[n]
    BY <1>2 DEF MarkerStep, StartMarker, Visit, GetClassMapping, TestMark, MarkMemory,
                SearchValid, MarkValidMemory, CheckElements, EndMarker
  <2>4. /\ mpc'[m] \in {"test", "mark", "markvalid"} => at'[m] \in allocated_memory
        /\ mpc'[m] = "elements" => at'[m] \in marked_memory'
    <3>1. CASE \E s \in Slots : Visit(m, s)
      BY <2>1, <3>1 DEF Visit, Followed
    <3>2. CASE GetClassMapping(m)
      BY <2>1, <3>2, SearchExact DEF GetClassMapping
    <3>3. CASE SearchValid(m)
      BY <2>1, <3>3, SearchExact DEF SearchValid
    <3>4. CASE \/ StartMarker(m) \/ TestMark(m) \/ MarkMemory(m) \/ MarkValidMemory(m)
               \/ CheckElements(m) \/ EndMarker(m)
      BY <3>4 DEF StartMarker, TestMark, MarkMemory, MarkValidMemory, CheckElements,
                  EndMarker, OnHeap
    <3> QED
      BY <1>2, <3>1, <3>2, <3>3, <3>4 DEF MarkerStep
  <2> QED
    BY <2>1, <2>2, <2>3, <2>4 DEF OnHeap
<1>3. ASSUME CollectorStep PROVE OnHeap'
  <2>1. \A m \in Markers : mpc'[m] \in {"off", "start"}
    BY <1>3 DEF CollectorStep, SortAndSpawn, JoinMarkers, LockAllocated, KeepBlock, FreeBlock,
                FinishSweep, markVars, BaseInv, Phases
  <2> QED
    BY <2>1 DEF OnHeap
<1> QED
  BY <1>1, <1>2, <1>3 DEF Next

\* What is a root of the program.
LEMMA LiveRootsAre ==
  ASSUME BaseInv
  PROVE  /\ StaticSlots \subseteq LiveRoots
         /\ \A t \in pda_monitors : LocalSlots(t) \cup LiveOpSlots(t) \subseteq LiveRoots
         /\ \A j \in JitFrames :
              jit_roots[j] # None => TypedJitSlots(j) \cup TempJitSlots(j) \subseteq LiveRoots
<1>1. \A t \in pda_monitors : t \in Threads /\ LiveOpSlots(t) \subseteq Slots
  BY SlotFacts DEF BaseInv, TypeOK, LiveOpSlots
<1> QED
  BY <1>1, SlotFacts DEF LiveRoots

\* What a marker's root scan follows without a search is a variable the
\* program can read.
LEMMA TypedRootsAreLive ==
  ASSUME BaseInv, Threaded, NEW m \in Markers, info \in Threads, NEW s \in RootSlots(m)
  PROVE  s \in ConservativeSlots \/ s \in LiveRoots
<1> stack_pos \in [Threads -> 0 .. StackDepth]
  BY DEF BaseInv, TypeOK
<1>1. CASE m = "static"
  BY <1>1, LiveRootsAre DEF RootSlots
<1>2. CASE m = "stack"
  <2>1. stack_pos[info] \in 0 .. StackDepth
    OBVIOUS
  <2>2. \A i \in 0 .. stack_pos[info] : i \in 0 .. StackDepth
    BY <2>1, NumbersAssumption
  <2> QED
    BY <1>2, <2>2 DEF RootSlots, ConservativeSlots
<1>3. CASE m = "pda"
  <2>1. PICK t \in pda_monitors : s \in LocalSlots(t)
    BY <1>3 DEF RootSlots
  <2> QED
    BY <2>1, LiveRootsAre
<1>4. CASE m = "jit"
  <2>1. PICK j \in {i \in JitFrames : jit_roots[i] # None} :
          s \in TypedJitSlots(j) \cup TempJitSlots(j)
    BY <1>4 DEF RootSlots
  <2> QED
    BY <2>1, LiveRootsAre
<1> QED
  BY <1>1, <1>2, <1>3, <1>4 DEF Markers

LEMMA NextFollowed ==
  ASSUME OneThread, BaseInv, Sorted, Marks, Threaded, OnHeap, NoDangling, Followed, Next
  PROVE  Followed'
<1> /\ mpc \in [Markers -> MarkPCs] /\ at \in [Markers -> Refs]
    /\ todo \in [Markers -> SUBSET Slots]
  BY DEF BaseInv, TypeOK
<1>1. ASSUME NEW t \in Threads, Execute(t) \/ AllocateStep(t) PROVE Followed'
  BY <1>1, ExecuteIdle, AllocateIdle DEF Followed
<1>2. ASSUME NEW m \in Markers, MarkerStep(m) PROVE Followed'
  <2>1. cpc = "mark" /\ cpc' = "mark" /\ UNCHANGED <<mem, allocated_memory, kind>>
    BY <1>2, MarkerPhase, MarkerFrame DEF storeVars
  <2>2. \A n \in Markers : n # m => todo'[n] = todo[n]
    BY <1>2 DEF MarkerStep, StartMarker, Visit, GetClassMapping, TestMark, MarkMemory,
                SearchValid, MarkValidMemory, CheckElements, EndMarker
  <2>3. ASSUME NEW s \in todo'[m]
        PROVE  s \in ConservativeSlots \/ mem[s] \in allocated_memory \cup {Nil}
    <3>1. CASE s \in todo[m]
      BY <2>1, <3>1 DEF Followed
    <3>2. CASE StartMarker(m) /\ s \notin todo[m]
      <4>1. s \in RootSlots(m)
        BY <3>2 DEF StartMarker
      <4>2. info \in Threads
        BY <2>1 DEF BaseInv, Phases, TypeOK
      <4>3. s \in ConservativeSlots \/ s \in LiveRoots
        BY <4>1, <4>2, TypedRootsAreLive
      <4> QED
        BY <2>1, <4>3 DEF NoDangling, Survivors
    <3>3. CASE (MarkMemory(m) \/ CheckElements(m)) /\ s \notin todo[m]
      <4>1. s \in RefSlots(at[m])
        BY <3>3 DEF MarkMemory, CheckElements
      <4>2. at[m] \in allocated_memory
        BY <3>3 DEF MarkMemory, CheckElements, OnHeap, Marks
      <4> QED
        BY <2>1, <4>1, <4>2 DEF NoDangling, Survivors
    <3> QED
      BY <1>2, <2>3, <3>1, <3>2, <3>3
      DEF MarkerStep, Visit, GetClassMapping, TestMark, SearchValid, MarkValidMemory, EndMarker
  <2> QED
    BY <2>1, <2>2, <2>3 DEF Followed
<1>3. ASSUME CollectorStep PROVE Followed'
  <2>1. todo' = todo
    BY <1>3, CollectorFrame
  <2>2. cpc' = "mark" => \A m \in Markers : todo[m] = {}
    BY <1>3 DEF CollectorStep, SortAndSpawn, JoinMarkers, LockAllocated, KeepBlock, FreeBlock,
                FinishSweep, BaseInv, Phases, MarkersAt
  <2> QED
    BY <2>1, <2>2 DEF Followed
<1> QED
  BY <1>1, <1>2, <1>3 DEF Next

\* No marker's step loses a slot that was covered.
LEMMA CoveredStays ==
  ASSUME BaseInv, Sorted, Marks, NEW m \in Markers, MarkerStep(m), NEW s \in Slots, Covered(s)
  PROVE  Covered(s)'
<1> /\ mpc \in [Markers -> MarkPCs] /\ at \in [Markers -> Refs]
    /\ todo \in [Markers -> SUBSET Slots] /\ mem[s] \in Refs
    /\ allocated_memory \subseteq Blocks /\ flag \in [Blocks -> BOOLEAN]
  BY DEF BaseInv, TypeOK
<1>1. cpc = "mark" /\ UNCHANGED <<mem, allocated_memory>>
  BY MarkerPhase, MarkerFrame DEF storeVars
<1>2. marked_memory \subseteq marked_memory'
  BY DEF MarkerStep, StartMarker, Visit, GetClassMapping, TestMark, MarkMemory,
         SearchValid, MarkValidMemory, CheckElements, EndMarker, gcVars
<1>3. \A n \in Markers : n # m => mpc'[n] = mpc[n] /\ at'[n] = at[n] /\ todo'[n] = todo[n]
  BY DEF MarkerStep, StartMarker, Visit, GetClassMapping, TestMark, MarkMemory,
         SearchValid, MarkValidMemory, CheckElements, EndMarker
<1>4. CASE mem[s] \notin allocated_memory \/ mem[s] \in marked_memory
  BY <1>1, <1>2, <1>4 DEF Covered
<1>5. ASSUME NEW n \in Markers, s \in todo[n] PROVE Covered(s)'
  <2>1. CASE n # m
    BY <1>3, <1>5, <2>1 DEF Covered
  <2>2. CASE n = m /\ Visit(m, s)
    <3>1. CASE mem[s] = Nil
      BY <1>1, <3>1, SetsAssumption DEF Covered
    <3>2. CASE mem[s] # Nil
      <4>1. at'[m] = mem[s] /\ mpc'[m] \in {"map", "test", "valid"}
        BY <2>2, <3>2 DEF Visit
      <4> QED
        BY <1>1, <4>1 DEF Covered
    <3> QED
      BY <3>1, <3>2
  <2>3. CASE n = m /\ ~Visit(m, s)
    <3>1. mpc[m] # "start"
      BY <1>5, <2>3 DEF BaseInv, MarkersAt
    <3>2. s \in todo'[m]
      <4>1. CASE \E r \in Slots : Visit(m, r)
        <5>1. PICK r \in Slots : Visit(m, r)
          BY <4>1
        <5>2. r # s /\ todo' = [todo EXCEPT ![m] = @ \ {r}]
          BY <2>3, <5>1 DEF Visit
        <5> QED
          BY <1>5, <2>3, <5>2
      <4>2. CASE ~ \E r \in Slots : Visit(m, r)
        BY <1>5, <2>3, <3>1, <4>2
       , ZenonT(40) DEF MarkerStep, StartMarker, GetClassMapping, TestMark,
            MarkMemory, SearchValid, MarkValidMemory, CheckElements, EndMarker
      <4> QED
        BY <4>1, <4>2
    <3> QED
      BY <3>2 DEF Covered
  <2> QED
    BY <2>1, <2>2, <2>3
<1>6. ASSUME NEW n \in Markers, at[n] = mem[s], mem[s] \in allocated_memory,
             mpc[n] \in {"map", "test", "mark", "valid", "markvalid"}
      PROVE  Covered(s)'
  <2>1. CASE n # m
    BY <1>1, <1>3, <1>6, <2>1 DEF Covered
  <2>2. CASE n = m /\ GetClassMapping(m)
    <3>1. at'[m] = mem[s] /\ mpc'[m] \in {"test", "valid"}
      BY <1>6, <2>2 DEF GetClassMapping
    <3> QED
      BY <1>1, <3>1 DEF Covered
  <2>3. CASE n = m /\ TestMark(m)
    <3>1. CASE flag[at[m]]
      BY <1>1, <1>2, <1>6, <2>3, <3>1 DEF Marks, Covered
    <3>2. CASE ~flag[at[m]]
      BY <1>1, <1>6, <2>3, <3>2 DEF TestMark, Covered
    <3> QED
      BY <3>1, <3>2
  <2>4. CASE n = m /\ (MarkMemory(m) \/ MarkValidMemory(m))
    <3>1. mem[s] \in marked_memory'
      BY <1>6, <2>4 DEF MarkMemory, MarkValidMemory
    <3> QED
      BY <1>1, <3>1 DEF Covered
  <2>5. CASE n = m /\ SearchValid(m)
    <3>1. CASE flag[at[m]]
      BY <1>1, <1>2, <1>6, <2>5, <3>1 DEF Marks, Covered
    <3>2. CASE ~flag[at[m]]
      <4>1. at'[m] = mem[s] /\ mpc'[m] = "markvalid"
        BY <1>1, <1>6, <2>5, <3>2, SearchExact DEF SearchValid
      <4> QED
        BY <1>1, <4>1 DEF Covered
    <3> QED
      BY <3>1, <3>2
  <2> QED
    BY <1>6, <2>1, <2>2, <2>3, <2>4, <2>5
    DEF MarkerStep, StartMarker, Visit, CheckElements, EndMarker, GetClassMapping, TestMark,
        MarkMemory, MarkValidMemory, SearchValid
<1> QED
  BY <1>4, <1>5, <1>6 DEF Covered

\* The roots a marker scans do not change while it runs.
LEMMA RootSlotsStay ==
  ASSUME NEW m \in Markers, UNCHANGED <<info, rootVars>>
  PROVE  \A n \in Markers : RootSlots(n)' = RootSlots(n)
BY DEF RootSlots, rootVars, StaticSlots, LocalSlots, TypedJitSlots, TempJitSlots

LEMMA NextMarking ==
  ASSUME OneThread, BaseInv, Sorted, Marks, OnHeap, Marking, Next
  PROVE  Marking'
<1> /\ mpc \in [Markers -> MarkPCs] /\ at \in [Markers -> Refs]
    /\ todo \in [Markers -> SUBSET Slots] /\ allocated_memory \subseteq Blocks
  BY DEF BaseInv, TypeOK
<1>1. ASSUME NEW t \in Threads, Execute(t) \/ AllocateStep(t) PROVE Marking'
  BY <1>1, ExecuteIdle, AllocateIdle DEF Marking
<1>2. ASSUME NEW m \in Markers, MarkerStep(m) PROVE Marking'
  <2>1. cpc = "mark" /\ UNCHANGED <<mem, allocated_memory, kind, info, rootVars>>
    BY <1>2, MarkerPhase, MarkerFrame DEF storeVars
  <2>2. info \in Threads
    BY <2>1 DEF BaseInv, Phases, TypeOK
  <2>3. \A n \in Markers : RootSlots(n)' = RootSlots(n) /\ RootSlots(n) \subseteq Slots
    BY <1>2, <2>1, <2>2, RootSlotsStay, RootSlotsAreSlots DEF BaseInv
  <2>4. \A s \in Slots : Covered(s) => Covered(s)'
    BY <1>2, CoveredStays
  <2>5. \A n \in Markers : n # m => mpc'[n] = mpc[n] /\ at'[n] = at[n]
    BY <1>2 DEF MarkerStep, StartMarker, Visit, GetClassMapping, TestMark, MarkMemory,
                SearchValid, MarkValidMemory, CheckElements, EndMarker
  <2>6. ASSUME NEW n \in Markers, mpc'[n] # "start", NEW s \in RootSlots(n)
        PROVE  Covered(s)'
    <3>1. CASE mpc[n] # "start"
      BY <2>1, <2>3, <2>4, <2>6, <3>1 DEF Marking
    <3>2. CASE mpc[n] = "start"
      <4>1. StartMarker(m) /\ n = m
        BY <1>2, <2>5, <2>6, <3>2 DEF MarkerStep, StartMarker, Visit, GetClassMapping, TestMark,
           MarkMemory, SearchValid, MarkValidMemory, CheckElements, EndMarker
      <4>2. s \in todo'[m]
        BY <2>6, <4>1 DEF StartMarker
      <4> QED
        BY <4>2 DEF Covered
    <3> QED
      BY <3>1, <3>2
  <2>7. ASSUME NEW b \in marked_memory'
        PROVE  \/ \A s \in RefSlots(b) : Covered(s)'
               \/ \E n \in Markers : mpc'[n] = "elements" /\ at'[n] = b
    <3>1. CASE b \in marked_memory /\ \A s \in RefSlots(b) : Covered(s)
      <4>1. b \in Blocks
        BY <3>1 DEF Marks
      <4> QED
        BY <2>4, <3>1, <4>1, RefSlotsAreSlots
    <3>2. ASSUME NEW n \in Markers, mpc[n] = "elements", at[n] = b
          PROVE  \/ \A s \in RefSlots(b) : Covered(s)'
                 \/ \E k \in Markers : mpc'[k] = "elements" /\ at'[k] = b
      <4>1. CASE n # m
        BY <2>5, <3>2, <4>1
      <4>2. CASE n = m
        <5>1. CheckElements(m)
          BY <1>2, <3>2, <4>2 DEF MarkerStep, StartMarker, Visit, GetClassMapping, TestMark,
             MarkMemory, SearchValid, MarkValidMemory, CheckElements, EndMarker
        <5>2. at[m] \in allocated_memory
          BY <3>2, <4>2 DEF OnHeap, Marks
        <5>3. \A found \in Search(at[m]) \cup {TRUE} : found
          BY <2>1, <5>2, SearchExact
        <5>4. RefSlots(b) \subseteq todo'[m]
          BY <3>2, <4>2, <5>1, <5>3 DEF CheckElements
        <5> QED
          BY <5>4 DEF Covered
      <4> QED
        BY <4>1, <4>2
    <3>3. CASE b \notin marked_memory
      <4>1. /\ MarkMemory(m) \/ MarkValidMemory(m)
            /\ b = at[m]
        BY <1>2, <2>7, <3>3 DEF MarkerStep, StartMarker, Visit, GetClassMapping, TestMark,
           MarkMemory, SearchValid, MarkValidMemory, CheckElements, EndMarker, gcVars
      <4>2. CASE MarkMemory(m)
        <5>1. RefSlots(b) \subseteq todo'[m]
          BY <4>1, <4>2 DEF MarkMemory
        <5> QED
          BY <5>1 DEF Covered
      <4>3. CASE MarkValidMemory(m)
        <5>1. mpc'[m] = "elements" /\ at'[m] = b
          BY <4>1, <4>3 DEF MarkValidMemory
        <5> QED
          BY <5>1
      <4> QED
        BY <4>1, <4>2, <4>3
    <3> QED
      BY <2>1, <3>1, <3>2, <3>3 DEF Marking
  <2>8. \A b \in marked_memory' : RefSlots(b)' = RefSlots(b)
    BY <2>1 DEF RefSlots, FieldSlots
  <2> QED
    BY <2>3, <2>6, <2>7, <2>8 DEF Marking
<1>3. ASSUME CollectorStep PROVE Marking'
  <2>1. CASE SortAndSpawn
    <3>1. marked_memory' = {} /\ \A m \in Markers : mpc'[m] = "start"
      BY <2>1 DEF SortAndSpawn, Marks
    <3> QED
      BY <3>1 DEF Marking
  <2>2. CASE ~SortAndSpawn
    <3>1. cpc' # "mark"
      BY <1>3, <2>2 DEF CollectorStep, JoinMarkers, LockAllocated, KeepBlock, FreeBlock,
                        FinishSweep
    <3> QED
      BY <3>1 DEF Marking
  <2> QED
    BY <2>1, <2>2
<1> QED
  BY <1>1, <1>2, <1>3 DEF Next

(***************************************************************************)
(* From the mark phase to the sweep.                                       *)
(***************************************************************************)
LEMMA NextMarked ==
  ASSUME OneThread, BaseInv, Marks, Threaded, NoDangling, Marking, Marked, Next
  PROVE  Marked'
<1>1. ASSUME NEW t \in Threads, Execute(t) \/ AllocateStep(t) PROVE Marked'
  BY <1>1, ExecuteIdle, AllocateIdle DEF Marked
<1>2. ASSUME NEW m \in Markers, MarkerStep(m) PROVE Marked'
  BY <1>2, MarkerPhase DEF Marked
<1>3. ASSUME CollectorStep, ~JoinMarkers PROVE Marked'
  BY <1>3 DEF CollectorStep, SortAndSpawn, LockAllocated, KeepBlock, FreeBlock, FinishSweep,
              Marked
<1>4. ASSUME JoinMarkers PROVE Marked'
  <2>1. /\ cpc = "mark" /\ \A m \in Markers : mpc[m] = "exit"
        /\ UNCHANGED <<mem, kind, rootVars, marked_memory, scratch>>
    BY <1>4 DEF JoinMarkers, heapVars, threadVars
  <2>2. info \in Threads
    BY <2>1 DEF BaseInv, Phases, TypeOK
  <2>3. ASSUME NEW s, Covered(s), mem[s] \in allocated_memory \cup {Nil}
        PROVE  mem[s] \in marked_memory \cup {Nil}
    BY <2>1, <2>3 DEF Covered, BaseInv, MarkersAt
  <2>4. ASSUME NEW s \in LiveRoots PROVE mem[s] \in marked_memory \cup {Nil}
    <3>1. \E m \in Markers : s \in RootSlots(m)
      <4>1. CASE s \in StaticSlots
        BY <4>1 DEF RootSlots, Markers
      <4>2. ASSUME NEW t \in pda_monitors, s \in LocalSlots(t)
            PROVE  s \in RootSlots("pda")
        BY <4>2 DEF RootSlots
      <4>3. ASSUME NEW t \in pda_monitors, s \in LiveOpSlots(t)
            PROVE  s \in RootSlots("stack")
        <5>1. t = info
          BY <2>2 DEF OneThread, BaseInv, TypeOK
        <5>2. \A i \in 0 .. StackDepth : i < stack_pos[t] => i \in 0 .. stack_pos[t]
          BY NumbersAssumption DEF BaseInv, TypeOK
        <5> QED
          BY <4>3, <5>1, <5>2 DEF LiveOpSlots, RootSlots
      <4>4. ASSUME NEW j \in JitFrames, jit_roots[j] # None,
                   s \in TypedJitSlots(j) \/ s \in TempJitSlots(j)
            PROVE  s \in RootSlots("jit")
        BY <4>4 DEF RootSlots
      <4> QED
        BY <2>4, <4>1, <4>2, <4>3, <4>4 DEF LiveRoots, Markers
    <3>2. Covered(s)
      BY <2>1, <3>1 DEF Marking
    <3> QED
      BY <2>1, <2>3, <2>4, <3>2 DEF NoDangling, Survivors
  <2>5. ASSUME NEW b \in marked_memory, NEW s \in RefSlots(b)
        PROVE  mem[s] \in marked_memory \cup {Nil}
    <3>1. Covered(s)
      BY <2>1 DEF Marking
    <3>2. b \in allocated_memory
      BY DEF Marks
    <3> QED
      BY <2>1, <2>3, <3>1, <3>2 DEF NoDangling, Survivors
  <2>6. ASSUME NEW t \in Threads PROVE scratch[t] \in marked_memory \cup {Nil}
    <3>1. CASE scratch[t] = Nil
      BY <3>1
    <3>2. CASE scratch[t] # Nil
      <4>1. pc[t] = "join" /\ t = info
        BY <2>1, <2>2, Paused DEF OneThread
      <4>2. mem[<<t, stack_pos[t]>>] = scratch[t]
        BY <3>2, <4>1 DEF Threaded
      <4>3. <<t, stack_pos[t]>> \in RootSlots("stack")
        BY <4>1, NumbersAssumption DEF RootSlots, BaseInv, TypeOK
      <4>4. Covered(<<t, stack_pos[t]>>)
        BY <2>1, <4>3 DEF Marking, Markers
      <4> QED
        BY <2>1, <2>3, <4>2, <4>4 DEF NoDangling, Survivors
    <3> QED
      BY <3>1, <3>2
  <2>7. LiveRoots' = LiveRoots /\ \A b : RefSlots(b)' = RefSlots(b)
    BY <2>1 DEF rootVars, LiveRoots, LiveOpSlots, LocalSlots, StaticSlots, TypedJitSlots,
                TempJitSlots, RefSlots, FieldSlots
  <2> QED
    BY <2>1, <2>4, <2>5, <2>6, <2>7 DEF Marked
<1> QED
  BY <1>1, <1>2, <1>3, <1>4 DEF Next

(***************************************************************************)
(* Where blocks are.                                                       *)
(***************************************************************************)
\* The blocks of a pool after its top is popped and after one is appended.
LEMMA PoolPop ==
  ASSUME NEW c \in Seq(Blocks), c # <<>>,
         \A i, k \in 1 .. Len(c) : c[i] = c[k] => i = k
  PROVE  LET d == SubSeq(c, 1, Len(c) - 1) IN
         /\ d \in Seq(Blocks) /\ Len(d) = Len(c) - 1
         /\ \A i \in 1 .. Len(d) : i \in 1 .. Len(c) /\ d[i] = c[i] /\ d[i] # c[Len(c)]
<1>1. Len(c) \in Nat \ {0} /\ \A i \in 1 .. Len(c) : c[i] \in Blocks
  OBVIOUS
<1> DEFINE d == SubSeq(c, 1, Len(c) - 1)
<1>2. /\ d \in Seq(Blocks) /\ Len(d) = Len(c) - 1
      /\ \A i \in 1 .. Len(c) - 1 : d[i] = c[i]
  <2>1. Len(c) - 1 \in Int /\ \A i \in 1 .. Len(c) - 1 : c[i] \in Blocks
    BY <1>1
  <2>2. /\ d \in Seq(Blocks)
        /\ Len(d) = IF 1 <= Len(c) - 1 THEN Len(c) - 1 - 1 + 1 ELSE 0
        /\ \A i \in 1 .. Len(c) - 1 - 1 + 1 : d[i] = c[1 + i - 1]
    BY <2>1, SubSeqProperties
  <2> HIDE DEF d
  <2>3. \A i \in 1 .. Len(c) - 1 : i \in 1 .. Len(c) - 1 - 1 + 1 /\ 1 + i - 1 = i
    BY <1>1
  <2>4. Len(d) = Len(c) - 1
    <3>1. PICK n \in Nat \ {0} : n = Len(c)
      BY <1>1
    <3>2. Len(d) = IF 1 <= n - 1 THEN n - 1 - 1 + 1 ELSE 0
      BY <2>2, <3>1
    <3>3. Len(d) = n - 1
      BY <3>2
    <3> QED
      BY <3>1, <3>3
  <2>5. ASSUME NEW i \in 1 .. Len(c) - 1 PROVE d[i] = c[i]
    BY <2>2, <2>3
  <2> QED
    BY <2>2, <2>4, <2>5
<1>3. \A i \in 1 .. Len(c) - 1 : i \in 1 .. Len(c) /\ i # Len(c) /\ Len(c) \in 1 .. Len(c)
  BY <1>1
<1> HIDE DEF d
<1>4. \A i \in 1 .. Len(d) : i \in 1 .. Len(c) /\ d[i] = c[i] /\ d[i] # c[Len(c)]
  BY <1>2, <1>3
<1> QED
  BY <1>2, <1>4 DEF d

LEMMA PoolPush ==
  ASSUME NEW c \in Seq(Blocks), NEW b \in Blocks
  PROVE  LET d == Append(c, b) IN
         /\ d \in Seq(Blocks) /\ Len(d) = Len(c) + 1
         /\ \A i \in 1 .. Len(d) : \/ i \in 1 .. Len(c) /\ d[i] = c[i]
                                   \/ i = Len(d) /\ d[i] = b
OBVIOUS

LEMMA PooledStay ==
  ASSUME UNCHANGED cache_pool
  PROVE  \A p : Pooled(p)' = Pooled(p)
BY DEF Pooled

LEMMA PlacedStays ==
  ASSUME Placed, UNCHANGED <<mem, cache_pool, heap_free>>, Heap' = Heap
  PROVE  Placed'
<1>1. \A b : NoFields(b)' = NoFields(b)
  BY DEF NoFields
<1> QED
  BY <1>1, PooledStay DEF Placed

\* An instruction writes fields of blocks of the heap only.
LEMMA ExecuteFields ==
  ASSUME BaseInv, Threaded, NoDangling, NEW t \in Threads, Execute(t), cpc = "idle"
  PROVE  \A b \in Blocks \ allocated_memory : NoFields(b) => NoFields(b)'
<1> SUFFICES ASSUME NEW b \in Blocks \ allocated_memory, NEW f \in Fields
             PROVE  mem'[<<b, f>>] = mem[<<b, f>>]
  BY DEF NoFields
<1> mem \in [Slots -> Refs] /\ stack_pos \in [Threads -> 0 .. StackDepth] /\ <<b, f>> \in Slots
  BY SlotFacts DEF BaseInv, TypeOK
<1> b \notin Threads /\ b \notin JitFrames /\ b # "class"
  BY SetsAssumption
<1>1. CASE EndThread(t) \/ PopInt(t) \/ (\E j \in JitFrames : RemoveJitMethodRoot(t, j))
           \/ \E j \in Program : Allocate(t, j)
  BY <1>1 DEF EndThread, PopInt, RemoveJitMethodRoot, Allocate, heapVars
<1>2. CASE StartThread(t)
  BY <1>2 DEF StartThread, LocalSlots
<1>3. CASE \E s \in Variables(t) : LoadVar(t, s) \/ StoreVar(t, s)
  <2>1. PICK s \in Variables(t) : LoadVar(t, s) \/ StoreVar(t, s)
    BY <1>3
  <2>2. s # <<b, f>>
    BY DEF Variables, StaticSlots, LocalSlots, TypedJitSlots, TempJitSlots
  <2> QED
    BY <2>1, <2>2 DEF LoadVar, StoreVar
<1>4. CASE \E g \in Fields : LoadField(t, g)
  BY <1>4 DEF LoadField
<1>5. CASE \E g \in Fields : StoreField(t, g)
  <2>1. PICK g \in Fields : StoreField(t, g)
    BY <1>5
  <2>2. stack_pos[t] - 1 \in 0 .. StackDepth /\ stack_pos[t] - 1 < stack_pos[t]
    BY <2>1, NumbersAssumption DEF StoreField
  <2>3. <<t, stack_pos[t] - 1>> \in LiveOpSlots(t) /\ t \in pda_monitors
    BY <2>1, <2>2 DEF StoreField, Running, LiveOpSlots, Threaded
  <2>4. Top(t) \in allocated_memory
    BY <2>1, <2>3, LiveRootsAre DEF StoreField, Top, NoDangling, Survivors
  <2> QED
    BY <2>1, <2>4 DEF StoreField
<1>6. CASE \E j \in JitFrames : AddJitMethodRoot(t, j)
  <2>1. PICK j \in JitFrames : AddJitMethodRoot(t, j)
    BY <1>6
  <2> QED
    BY <2>1 DEF AddJitMethodRoot, TypedJitSlots, TempJitSlots
<1> QED
  BY <1>1, <1>2, <1>3, <1>4, <1>5, <1>6 DEF Execute

\* The last block of a pool that is not empty.
LEMMA TopInPool ==
  ASSUME BaseInv, NEW p \in Pools, cache_pool[p] # <<>>
  PROVE  /\ cache_pool[p][Len(cache_pool[p])] \in Pooled(p)
         /\ cache_pool[p][Len(cache_pool[p])] \in Blocks
<1>1. cache_pool[p] \in Seq(Blocks)
  BY DEF BaseInv, TypeOK
<1>2. Len(cache_pool[p]) \in 1 .. Len(cache_pool[p])
  BY <1>1
<1> QED
  BY <1>1, <1>2 DEF Pooled

LEMMA NextPlaced ==
  ASSUME OneThread, BaseInv, Marks, Swept, Threaded, NoDangling, Placed, InHands, Next
  PROVE  Placed'
<1> /\ cache_pool \in [Pools -> Seq(Blocks)] /\ mem \in [Slots -> Refs]
    /\ allocated_memory \subseteq Blocks /\ heap_free \subseteq Blocks
    /\ \A p \in Pools : Pooled(p) \subseteq Blocks
  BY DEF BaseInv, TypeOK, Pooled
<1>1. ASSUME NEW t \in Threads, Execute(t) PROVE Placed'
  <2>1. UNCHANGED <<storeVars, gcVars>> /\ cpc = "idle"
    BY <1>1, ExecuteFrame, ExecuteIdle
  <2>2. Heap = allocated_memory /\ Heap' = Heap /\ \A p : Pooled(p)' = Pooled(p)
    BY <2>1 DEF Heap, storeVars, gcVars, Pooled
  <2>3. \A b \in Blocks \ Heap : NoFields(b) => NoFields(b)'
    BY <1>1, <2>1, <2>2, ExecuteFields
  <2> QED
    BY <2>1, <2>2, <2>3 DEF storeVars, Placed
<1>2. ASSUME NEW t \in Threads, TryLock(t) \/ JoinCollector(t) \/ TakeTop(t) PROVE Placed'
  <2>1. UNCHANGED <<heapVars, storeVars, live_memory, unswept>> /\ cpc # "sweep" /\ cpc' # "sweep"
    BY <1>2, AllocateIdle DEF AllocateStep, TryLock, JoinCollector, TakeTop, gcVars
  <2>2. Heap' = Heap
    BY <2>1 DEF storeVars, Heap
  <2> QED
    BY <2>1, <2>2, PlacedStays DEF heapVars, storeVars
<1>3. ASSUME NEW t \in Threads, PopTop(t) PROVE Placed'
  <2> DEFINE p == PoolOf[JobKind(job[t])]
             c == cache_pool[p]
  <2>1. p \in Pools /\ c # <<>>
    BY <1>3 DEF PopTop, InHands
  <2>2. UNCHANGED <<mem, allocated_memory, heap_free, gcVars>>
    BY <1>3 DEF PopTop
  <2>3. cache_pool' = [cache_pool EXCEPT ![p] = SubSeq(c, 1, Len(c) - 1)]
    BY <1>3, <2>1 DEF PopTop
  <2>4. \A q \in Pools : \A i \in 1 .. Len(cache_pool'[q]) :
          i \in 1 .. Len(cache_pool[q]) /\ cache_pool'[q][i] = cache_pool[q][i]
    BY <2>1, <2>3, PoolPop DEF Placed
  <2>5. Heap' = Heap /\ \A b : NoFields(b)' = NoFields(b)
    BY <2>2 DEF Heap, gcVars, NoFields
  <2>6. \A q \in Pools : Pooled(q)' \subseteq Pooled(q)
    BY <2>4 DEF Pooled
  <2> QED
    BY <2>2, <2>4, <2>5, <2>6 DEF Placed
<1>4. ASSUME NEW t \in Threads, NEW b \in Blocks, Calloc(t, b) PROVE Placed'
  <2>1. /\ UNCHANGED <<allocated_memory, cache_pool, gcVars>> /\ heap_free' = heap_free \ {b}
        /\ mem' = [s \in Slots |-> IF s \in FieldSlots(b) THEN Nil ELSE mem[s]]
    BY <1>4 DEF Calloc
  <2>2. Heap' = Heap /\ \A p : Pooled(p)' = Pooled(p)
    BY <2>1 DEF Heap, gcVars, Pooled
  <2>3. \A d \in Blocks : NoFields(d) => NoFields(d)'
    BY <2>1, SlotFacts DEF NoFields
  <2> QED
    BY <2>1, <2>2, <2>3 DEF Placed
<1>5. ASSUME NEW t \in Threads, Record(t) PROVE Placed'
  <2>1. /\ UNCHANGED <<heapVars, cache_pool, heap_free, gcVars>> /\ cpc # "sweep"
        /\ allocated_memory' = allocated_memory \cup {blk[t]}
    BY <1>5, AllocateIdle DEF Record, AllocateStep, JoinCollector
  <2>2. Heap' = Heap \cup {blk[t]} /\ \A p : Pooled(p)' = Pooled(p)
    BY <2>1 DEF Heap, gcVars, Pooled
  <2>3. blk[t] \notin heap_free /\ \A p \in Pools : blk[t] \notin Pooled(p)
    BY <1>5 DEF Record, InHands
  <2>4. \A d : NoFields(d)' = NoFields(d)
    BY <2>1 DEF heapVars, NoFields
  <2> QED
    BY <2>1, <2>2, <2>3, <2>4 DEF Placed
<1>6. ASSUME NEW t \in Threads, Finish(t) PROVE Placed'
  <2>1. UNCHANGED <<storeVars, gcVars>> /\ cpc = "idle"
    BY <1>6, AllocateIdle DEF Finish, AllocateStep, TryLock, JoinCollector
  <2>2. Heap = allocated_memory /\ Heap' = Heap /\ \A p : Pooled(p)' = Pooled(p)
    BY <2>1 DEF Heap, storeVars, gcVars, Pooled
  <2>3. blk[t] \in allocated_memory
    BY <1>6, <2>1 DEF Finish, NoDangling, Survivors
  <2>4. ASSUME NEW d \in Blocks \ allocated_memory, NEW f \in Fields
        PROVE  mem'[<<d, f>>] = mem[<<d, f>>]
    <3>1. <<d, f>> \in Slots /\ <<d, f>> # <<t, stack_pos[t]>> /\ <<d, f>> # <<blk[t], CharsField>>
      BY <2>3, SlotFacts, SetsAssumption
    <3> QED
      BY <1>6, <3>1 DEF Finish
  <2>5. \A d \in Blocks \ allocated_memory : NoFields(d) => NoFields(d)'
    BY <2>4 DEF NoFields
  <2> QED
    BY <2>1, <2>2, <2>5 DEF storeVars, Placed
<1>7. ASSUME NEW m \in Markers, MarkerStep(m) PROVE Placed'
  <2>1. UNCHANGED <<mem, cache_pool, heap_free>> /\ Heap' = Heap
    BY <1>7, MarkerFrame DEF storeVars, Heap
  <2> QED
    BY <2>1, PlacedStays
<1>8. ASSUME SortAndSpawn \/ JoinMarkers \/ LockAllocated \/ FinishSweep PROVE Placed'
  <2>1. UNCHANGED <<mem, cache_pool, heap_free>>
    BY <1>8 DEF SortAndSpawn, JoinMarkers, LockAllocated, FinishSweep, heapVars, storeVars
  <2>2. Heap' = Heap
    BY <1>8 DEF SortAndSpawn, JoinMarkers, LockAllocated, FinishSweep, storeVars, Heap, Swept
  <2> QED
    BY <2>1, <2>2, PlacedStays
<1>9. ASSUME NEW b \in Blocks, KeepBlock(b) PROVE Placed'
  <2>1. UNCHANGED <<mem, cache_pool, heap_free, cpc>> /\ Heap' = Heap
    BY <1>9 DEF KeepBlock, storeVars, Heap
  <2> QED
    BY <2>1, PlacedStays
<1>10. ASSUME NEW b \in Blocks, FreeBlock(b) PROVE Placed'
  <2>1. /\ b \in Heap /\ Heap' = Heap \ {b}
        /\ b \notin heap_free
    BY <1>10 DEF FreeBlock, Heap, Swept, Placed
  <2>2. \A q \in Pools : b \notin Pooled(q)
    BY <2>1 DEF Placed
  <2>3. NoFields(b)' /\ \A d \in Blocks : NoFields(d) => NoFields(d)'
    BY <1>10, SlotFacts DEF FreeBlock, NoFields, FieldSlots
  <2>4. CASE cache_pool' = cache_pool
    <3>1. heap_free' \subseteq heap_free \cup {b}
      BY <1>10 DEF FreeBlock
    <3>2. \A q : Pooled(q)' = Pooled(q)
      BY <2>4 DEF Pooled
    <3> QED
      BY <2>1, <2>2, <2>3, <2>4, <3>1, <3>2 DEF Placed
  <2>5. CASE cache_pool' # cache_pool
    <3>1. PICK p \in Pools : /\ p = cache_size[b]
                            /\ cache_pool' = [cache_pool EXCEPT ![p] = Append(@, b)]
      BY <1>10, <2>5 DEF FreeBlock, BaseInv, TypeOK
    <3>2. heap_free' = heap_free
      BY <1>10, <3>1, SetsAssumption DEF FreeBlock
    <3>3. \A q \in Pools : Pooled(q)' = IF q = p THEN Pooled(p) \cup {b} ELSE Pooled(q)
      <4>1. ASSUME NEW q \in Pools, q # p PROVE Pooled(q)' = Pooled(q)
        <5>1. cache_pool'[q] = cache_pool[q]
          BY <3>1, <4>1
        <5> QED
          BY <5>1 DEF Pooled
      <4>2. Pooled(p)' = Pooled(p) \cup {b}
        <5> DEFINE c == cache_pool[p]
                   d == cache_pool'[p]
        <5>1. c \in Seq(Blocks) /\ d = Append(c, b)
          BY <3>1
        <5> HIDE DEF c, d
        <5>2. /\ Len(c) \in Nat /\ Len(d) = Len(c) + 1 /\ d[Len(d)] = b
              /\ \A i \in 1 .. Len(c) : d[i] = c[i]
          BY <5>1
        <5>3. \A i : i \in 1 .. Len(d) <=> i \in 1 .. Len(c) \/ i = Len(d)
          BY <5>2
        <5>4. {d[i] : i \in 1 .. Len(d)} = {c[i] : i \in 1 .. Len(c)} \cup {b}
          BY <5>2, <5>3
        <5> QED
          BY <5>4 DEF Pooled, c, d
      <4> QED
        BY <4>1, <4>2
    <3>4. \A q \in Pools : \A i, k \in 1 .. Len(cache_pool'[q]) :
            cache_pool'[q][i] = cache_pool'[q][k] => i = k
      <4>1. \A i \in 1 .. Len(cache_pool[p]) : cache_pool[p][i] # b
        BY <2>2, <3>1 DEF Pooled
      <4> QED
        BY <3>1, <4>1, PoolPush DEF Placed
    <3>5. \A d \in Heap' : d \notin heap_free'
      BY <2>1, <3>2 DEF Placed
    <3>6. ASSUME NEW q \in Pools, NEW d \in Pooled(q)'
          PROVE  d \notin Heap' \cup heap_free' /\ NoFields(d)'
      <4>1. CASE d = b
        BY <2>1, <2>3, <3>2, <4>1
      <4>2. CASE d # b
        <5>1. d \in Pooled(q)
          BY <3>3, <4>2
        <5> QED
          BY <2>1, <2>3, <3>2, <5>1 DEF Placed
      <4> QED
        BY <4>1, <4>2
    <3>7. \A q, r \in Pools : q # r => Pooled(q)' \cap Pooled(r)' = {}
      BY <2>2, <3>3 DEF Placed
    <3> QED
      BY <3>4, <3>5, <3>6, <3>7 DEF Placed
  <2> QED
    BY <2>4, <2>5
<1> QED
  BY <1>1, <1>2, <1>3, <1>4, <1>5, <1>6, <1>7, <1>8, <1>9, <1>10
  DEF Next, AllocateStep, CollectorStep

\* A step that is no step of an allocation leaves no block in a thread's
\* hands, or leaves it as it is.
LEMMA NextInHands ==
  ASSUME OneThread, BaseInv, Marks, Swept, Placed, InHands, Next
  PROVE  InHands'
<1> /\ cache_pool \in [Pools -> Seq(Blocks)] /\ mem \in [Slots -> Refs]
    /\ pc \in [Threads -> ThreadPCs] /\ blk \in [Threads -> Refs]
    /\ heap_free \subseteq Blocks /\ \A p \in Pools : Pooled(p) \subseteq Blocks
  BY DEF BaseInv, TypeOK, Pooled
<1>1. ASSUME NEW t \in Threads, Execute(t) PROVE InHands'
  BY <1>1, ExecuteIdle DEF InHands
<1>2. ASSUME NEW t \in Threads, TryLock(t) \/ JoinCollector(t) \/ Record(t) \/ Finish(t)
      PROVE  InHands'
  <2>1. pc'[t] \notin {"pop", "record"} /\ \A u \in Threads : u = t
    BY <1>2 DEF TryLock, JoinCollector, Record, Finish, Checked, OneThread
  <2> QED
    BY <2>1 DEF InHands
<1>3. ASSUME NEW t \in Threads, TakeTop(t) PROVE InHands'
  <2>1. \A u \in Threads : u = t
    BY DEF OneThread
  <2>2. PoolOf[JobKind(job[t])] \in Pools
    BY <1>3, JobKindType, PoolAssumption DEF TakeTop
  <2>3. pc'[t] = "pop" /\ UNCHANGED <<job, cache_pool>>
    BY <1>3 DEF TakeTop, storeVars
  <2> QED
    BY <1>3, <2>1, <2>2, <2>3 DEF TakeTop, InHands
<1>4. ASSUME NEW t \in Threads, PopTop(t) PROVE InHands'
  <2>1. \A u \in Threads : u = t
    BY DEF OneThread
  <2>2. PICK p \in Pools : p = PoolOf[JobKind(job[t])]
    BY <1>4 DEF PopTop, InHands
  <2>3. cache_pool[p] # <<>> /\ blk[t] = cache_pool[p][Len(cache_pool[p])]
    BY <1>4, <2>2 DEF PopTop, InHands
  <2>4. /\ UNCHANGED <<mem, blk, allocated_memory, heap_free, gcVars>>
        /\ pc'[t] = "record"
        /\ cache_pool' = [cache_pool EXCEPT ![p] = SubSeq(@, 1, Len(@) - 1)]
    BY <1>4, <2>2, <2>3 DEF PopTop
  <2>5. blk[t] \in Pooled(p) /\ blk[t] \in Blocks
    BY <2>3, TopInPool
  <2>6. Heap' = Heap /\ NoFields(blk[t])'
    BY <2>4, <2>5 DEF Heap, gcVars, Placed, NoFields
  <2>7. ASSUME NEW q \in Pools PROVE blk[t] \notin Pooled(q)'
    <3>1. CASE q = p
      <4>1. \A i \in 1 .. Len(cache_pool'[p]) : cache_pool'[p][i] # blk[t]
        BY <2>3, <2>4, PoolPop DEF Placed
      <4> QED
        BY <3>1, <4>1 DEF Pooled
    <3>2. CASE q # p
      <4>1. Pooled(q)' = Pooled(q)
        BY <2>4, <3>2 DEF Pooled
      <4> QED
        BY <2>5, <3>2, <4>1 DEF Placed
    <3> QED
      BY <3>1, <3>2
  <2> QED
    BY <2>1, <2>4, <2>5, <2>6, <2>7 DEF InHands, Placed
<1>5. ASSUME NEW t \in Threads, NEW b \in Blocks, Calloc(t, b) PROVE InHands'
  <2>1. \A u \in Threads : u = t
    BY DEF OneThread
  <2>2. /\ UNCHANGED <<allocated_memory, cache_pool, gcVars>> /\ heap_free' = heap_free \ {b}
        /\ b \in heap_free /\ blk'[t] = b /\ pc'[t] = "record"
        /\ mem' = [s \in Slots |-> IF s \in FieldSlots(b) THEN Nil ELSE mem[s]]
    BY <1>5 DEF Calloc
  <2>3. NoFields(b)'
    BY <2>2, SlotFacts DEF NoFields, FieldSlots
  <2>4. Heap' = Heap /\ \A p : Pooled(p)' = Pooled(p)
    BY <2>2 DEF Heap, gcVars, Pooled
  <2> QED
    BY <2>1, <2>2, <2>3, <2>4 DEF Placed, InHands, NoFields
<1>6. ASSUME NEW m \in Markers, MarkerStep(m) PROVE InHands'
  <2>1. \A t \in Threads : pc'[t] = "join"
    BY <1>6, MarkerPhase, MarkerFrame, Paused DEF threadVars
  <2> QED
    BY <2>1 DEF InHands
<1>7. ASSUME CollectorStep PROVE InHands'
  <2>1. cpc # "idle"
    BY <1>7 DEF CollectorStep, SortAndSpawn, JoinMarkers, LockAllocated, KeepBlock, FreeBlock,
                FinishSweep
  <2>2. \A t \in Threads : pc'[t] = "join"
    BY <1>7, <2>1, CollectorFrame, Paused DEF threadVars
  <2> QED
    BY <2>2 DEF InHands
<1> QED
  BY <1>1, <1>2, <1>3, <1>4, <1>5, <1>6, <1>7 DEF Next, AllocateStep

(***************************************************************************)
(* The collector frees nothing the program can reach.                      *)
(***************************************************************************)
\* A step that changes no heap and writes references to blocks that survive.
LEMMA WritesSurvivors ==
  ASSUME NoDangling, UNCHANGED <<kind, cpc, allocated_memory, marked_memory>>,
         \A b \in Survivors : \A s \in FieldSlots(b) : mem'[s] \in Survivors \cup {Nil, mem[s]},
         \A s \in LiveRoots' : mem'[s] \in Survivors \cup {Nil},
         \A t \in Threads : scratch'[t] \in Survivors \cup {Nil},
         \A t \in Threads : pc'[t] = "finish" => blk'[t] \in Survivors
  PROVE  NoDangling'
<1>1. Survivors' = Survivors
  BY DEF Survivors
<1>2. \A b : RefSlots(b)' = RefSlots(b) /\ RefSlots(b) \subseteq FieldSlots(b)
  BY DEF RefSlots, FieldSlots
<1>3. ASSUME NEW b \in Survivors, NEW s \in RefSlots(b) PROVE mem'[s] \in Survivors \cup {Nil}
  BY <1>2, <1>3 DEF NoDangling
<1> QED
  BY <1>1, <1>2, <1>3 DEF NoDangling

\* The variables of a running thread and the slots it has pushed are live.
LEMMA OwnSlotsAreLive ==
  ASSUME BaseInv, Threaded, NEW t \in Threads, pc[t] # "off"
  PROVE  /\ \A s \in Variables(t) : s \in LiveRoots
         /\ stack_pos[t] > 0 => <<t, stack_pos[t] - 1>> \in LiveRoots
         /\ stack_pos[t] > 1 => <<t, stack_pos[t] - 2>> \in LiveRoots
<1>1. t \in pda_monitors /\ t # None
  BY SetsAssumption DEF Threaded
<1>2. \A s \in Variables(t) : s \in LiveRoots
  BY <1>1, LiveRootsAre DEF Variables
<1>3. stack_pos[t] \in 0 .. StackDepth
  BY DEF BaseInv, TypeOK
<1>4. \A i \in 0 .. StackDepth : i < stack_pos[t] => <<t, i>> \in LiveRoots
  BY <1>1, LiveRootsAre DEF LiveOpSlots
<1> QED
  BY <1>2, <1>3, <1>4, NumbersAssumption

\* Whatever set of references contains those a program can read and is closed
\* under loading a field: an instruction writes and reads no others.
LEMMA ExecuteMoves ==
  ASSUME OneThread, BaseInv, Threaded, NEW t \in Threads, Execute(t),
         NEW Good, Nil \in Good, \A s \in LiveRoots : mem[s] \in Good,
         \A u \in Threads : scratch[u] \in Good,
         \A b \in Good \ {Nil} : \A s \in RefSlots(b) : mem[s] \in Good
  PROVE  /\ \A s \in Slots : mem'[s] \in Good \cup {mem[s]}
         /\ \A s \in LiveRoots' : s \in Slots /\ mem'[s] \in Good
         /\ \A u \in Threads : scratch'[u] \in Good
<1> /\ mem \in [Slots -> Refs] /\ stack_pos \in [Threads -> 0 .. StackDepth]
    /\ scratch \in [Threads -> Refs] /\ pda_monitors \subseteq Threads
    /\ jit_roots \in [JitFrames -> Threads \cup {None}] /\ pc \in [Threads -> ThreadPCs]
  BY DEF BaseInv, TypeOK
<1>4. pc[t] # "off" =>
        /\ \A s \in Variables(t) : mem[s] \in Good
        /\ stack_pos[t] > 0 => Top(t) \in Good /\ <<t, stack_pos[t] - 1>> \in Slots
        /\ stack_pos[t] > 1 => Second(t) \in Good
  BY OwnSlotsAreLive, TopIsRef, SlotFacts, NumbersAssumption DEF BaseInv, Top, Second
<1> DEFINE Moves == /\ \A s \in Slots : mem'[s] \in Good \cup {mem[s]}
                    /\ \A s \in LiveRoots' : s \in Slots /\ mem'[s] \in Good
                    /\ \A u \in Threads : scratch'[u] \in Good
<1>6. LiveRoots' \subseteq Slots
  BY DEF LiveRoots, Slots
<1>5. ASSUME \A s \in Slots : mem'[s] \in Good \cup {mem[s]},
             \A s \in LiveRoots' : s \in LiveRoots \/ mem'[s] \in Good,
             scratch' = scratch
      PROVE  Moves
  BY <1>5, <1>6
<1> HIDE DEF Moves
<1>7. CASE StartThread(t)
  <2>1. /\ pc[t] = "off" /\ pda_monitors' = pda_monitors \cup {t}
        /\ UNCHANGED <<stack_pos, jit_roots, scratch>>
        /\ mem' = [s \in Slots |-> IF s \in LocalSlots(t) THEN Nil ELSE mem[s]]
    BY <1>7 DEF StartThread
  <2>2. LiveOpSlots(t) = {}
    <3>1. stack_pos[t] = 0
      BY <2>1 DEF Threaded
    <3>2. \A i \in 0 .. StackDepth : ~(i < 0)
      BY NumbersAssumption
    <3> QED
      BY <3>1, <3>2 DEF LiveOpSlots
  <2>3. \A u \in Threads : LiveOpSlots(u)' = LiveOpSlots(u)
    BY <2>1 DEF LiveOpSlots
  <2>4. \A s \in LiveRoots' : s \in LiveRoots \/ s \in LocalSlots(t)
    BY <2>1, <2>2, <2>3 DEF LiveRoots, LocalSlots, StaticSlots, TypedJitSlots, TempJitSlots
  <2>5. \A s \in LiveRoots' : s \in LiveRoots \/ mem'[s] \in Good
    BY <1>6, <2>1, <2>4
  <2>6. \A s \in Slots : mem'[s] \in Good \cup {mem[s]}
    BY <2>1
  <2> QED
    BY <1>5, <1>6, <2>1, <2>5, <2>6
<1>8. CASE EndThread(t) \/ PopInt(t) \/ (\E j \in JitFrames : RemoveJitMethodRoot(t, j))
           \/ \E j \in Program : Allocate(t, j)
  <2>1. /\ mem' = mem /\ pda_monitors' \subseteq pda_monitors /\ pc[t] # "off"
        /\ \A j \in JitFrames : jit_roots'[j] # None => jit_roots[j] # None
        /\ \A u \in Threads : stack_pos'[u] =< stack_pos[u]
    BY <1>8 DEF EndThread, PopInt, RemoveJitMethodRoot, Allocate, heapVars, Running
  <2>2. \A u \in Threads : LiveOpSlots(u)' \subseteq LiveOpSlots(u)
    <3>1. \A u \in Threads : \A i \in 0 .. StackDepth : i < stack_pos'[u] => i < stack_pos[u]
      <4>1. TypeOK'
        BY NextTypes DEF BaseInv, Next
      <4> QED
        BY <2>1, <4>1, NumbersAssumption DEF TypeOK
    <3> QED
      BY <3>1 DEF LiveOpSlots
  <2>3. \A s \in LiveRoots' : s \in LiveRoots
    BY <2>1, <2>2 DEF LiveRoots, LocalSlots, StaticSlots, TypedJitSlots, TempJitSlots
  <2>4. \A u \in Threads : scratch'[u] \in Good
    <3>1. CASE \E j \in Program : Allocate(t, j)
      BY <1>4, <2>1, <3>1 DEF Allocate
    <3>2. CASE EndThread(t) \/ PopInt(t) \/ (\E j \in JitFrames : RemoveJitMethodRoot(t, j))
      BY <3>2 DEF EndThread, PopInt, RemoveJitMethodRoot, threadVars
    <3> QED
      BY <1>8, <3>1, <3>2
  <2>5. \A s \in LiveRoots' : mem'[s] \in Good
    BY <2>1, <2>3
  <2> QED
    BY <1>6, <2>1, <2>4, <2>5 DEF Moves
<1>9. ASSUME NEW s \in Variables(t), LoadVar(t, s) PROVE Moves
  <2>1. /\ pc[t] # "off" /\ stack_pos' = [stack_pos EXCEPT ![t] = @ + 1]
        /\ UNCHANGED <<jit_roots, pda_monitors, scratch>>
        /\ mem' = [mem EXCEPT ![<<t, stack_pos[t]>>] = mem[s]] /\ mem[s] \in Good
    BY <1>4, <1>9 DEF LoadVar, Running, threadVars
  <2>2. \A u \in Threads : LiveOpSlots(u)' \subseteq LiveOpSlots(u) \cup {<<t, stack_pos[t]>>}
    BY <2>1 DEF LiveOpSlots
  <2>3. \A r \in LiveRoots' : r \in LiveRoots \/ r = <<t, stack_pos[t]>>
    BY <2>1, <2>2 DEF LiveRoots, LocalSlots, StaticSlots, TypedJitSlots, TempJitSlots
  <2>4. \A r \in Slots : mem'[r] \in Good \cup {mem[r]}
    BY <2>1
  <2>5. \A r \in LiveRoots' : r \in LiveRoots \/ mem'[r] \in Good
    BY <1>6, <2>1, <2>3
  <2> QED
    BY <1>5, <1>6, <2>1, <2>4, <2>5
<1>10. ASSUME \/ \E s \in Variables(t) : StoreVar(t, s)
              \/ \E f \in Fields : LoadField(t, f) \/ StoreField(t, f)
       PROVE  Moves
  <2>1. /\ pc[t] # "off" /\ UNCHANGED <<jit_roots, pda_monitors, scratch>>
        /\ \A u \in Threads : stack_pos'[u] =< stack_pos[u]
    <3>1. CASE \E s \in Variables(t) : StoreVar(t, s)
      BY <3>1 DEF StoreVar, Running, threadVars
    <3>2. CASE \E f \in Fields : LoadField(t, f)
      BY <3>2 DEF LoadField, Running, rootVars, threadVars
    <3>3. CASE \E f \in Fields : StoreField(t, f)
      BY <3>3 DEF StoreField, Running, threadVars
    <3> QED
      BY <1>10, <3>1, <3>2, <3>3
  <2>2. \A u \in Threads : LiveOpSlots(u)' \subseteq LiveOpSlots(u)
    <3>1. TypeOK'
      BY NextTypes DEF BaseInv, Next
    <3>2. \A u \in Threads : \A i \in 0 .. StackDepth : i < stack_pos'[u] => i < stack_pos[u]
      BY <2>1, <3>1, NumbersAssumption DEF TypeOK
    <3> QED
      BY <3>2 DEF LiveOpSlots
  <2>3. \A r \in LiveRoots' : r \in LiveRoots
    BY <2>1, <2>2 DEF LiveRoots, LocalSlots, StaticSlots, TypedJitSlots, TempJitSlots
  <2>4. \A r \in Slots : mem'[r] \in Good \cup {mem[r]}
    <3>1. CASE \E s \in Variables(t) : StoreVar(t, s)
      BY <1>4, <2>1, <3>1 DEF StoreVar
    <3>2. CASE \E f \in Fields : LoadField(t, f)
      <4>1. PICK f \in Fields : LoadField(t, f)
        BY <3>2
      <4>2. Top(t) \in Good \ {Nil}
        BY <1>4, <2>1, <4>1 DEF LoadField
      <4>3. mem[<<Top(t), f>>] \in Good
        BY <4>1, <4>2 DEF LoadField, RefSlots, FieldSlots
      <4> QED
        BY <4>1, <4>3 DEF LoadField
    <3>3. CASE \E f \in Fields : StoreField(t, f)
      BY <1>4, <2>1, <3>3 DEF StoreField
    <3> QED
      BY <1>10, <3>1, <3>2, <3>3
  <2> QED
    BY <1>5, <1>6, <2>1, <2>3, <2>4
<1>11. ASSUME NEW j \in JitFrames, AddJitMethodRoot(t, j) PROVE Moves
  <2>1. /\ pc[t] # "off" /\ stack_pos[t] > 0 /\ UNCHANGED <<pda_monitors, scratch>>
        /\ jit_roots' = [jit_roots EXCEPT ![j] = t]
        /\ stack_pos' = [stack_pos EXCEPT ![t] = @ - 1]
    BY <1>11 DEF AddJitMethodRoot, Running, threadVars
  <2>2. Top(t) \in Good
    BY <1>4, <2>1
  <2>3. \A s \in Slots :
          IF s \in TypedJitSlots(j) \cup TempJitSlots(j) THEN mem'[s] \in Good
          ELSE mem'[s] = mem[s]
    BY <1>11, <2>2 DEF AddJitMethodRoot, TypedJitSlots
  <2>4. \A u \in Threads : LiveOpSlots(u)' \subseteq LiveOpSlots(u)
    <3>1. \A i \in 0 .. StackDepth : i < stack_pos[t] - 1 => i < stack_pos[t]
      BY NumbersAssumption
    <3> QED
      BY <2>1, <3>1 DEF LiveOpSlots
  <2>5. \A s \in LiveRoots' : s \in LiveRoots \/ s \in TypedJitSlots(j) \cup TempJitSlots(j)
    BY <2>1, <2>4 DEF LiveRoots, LocalSlots, StaticSlots, TypedJitSlots, TempJitSlots
  <2>6. \A s \in LiveRoots' : s \in LiveRoots \/ mem'[s] \in Good
    BY <1>6, <2>3, <2>5
  <2>7. \A s \in Slots : mem'[s] \in Good \cup {mem[s]}
    BY <2>3
  <2> QED
    BY <1>5, <1>6, <2>1, <2>6, <2>7
<1> QED
  BY <1>7, <1>8, <1>9, <1>10, <1>11 DEF Execute, Moves

\* An instruction.
LEMMA ExecuteSafe ==
  ASSUME OneThread, BaseInv, Threaded, NoDangling, NEW t \in Threads, Execute(t)
  PROVE  NoDangling'
<1>1. /\ cpc = "idle" /\ UNCHANGED <<kind, cpc, allocated_memory, marked_memory>>
      /\ \A u \in Threads : pc'[u] # "finish"
  BY ExecuteIdle, ExecuteFrame DEF storeVars, gcVars
<1>2. Survivors \subseteq Blocks
  BY <1>1 DEF Survivors, BaseInv, TypeOK
<1>3. PICK Good : Good = Survivors \cup {Nil}
  OBVIOUS
<1>4. /\ Nil \in Good /\ \A s \in LiveRoots : mem[s] \in Good
      /\ \A u \in Threads : scratch[u] \in Good
      /\ \A b \in Good \ {Nil} : \A s \in RefSlots(b) : mem[s] \in Good
  BY <1>3 DEF NoDangling
<1>5. /\ \A s \in Slots : mem'[s] \in Good \cup {mem[s]}
      /\ \A s \in LiveRoots' : s \in Slots /\ mem'[s] \in Good
      /\ \A u \in Threads : scratch'[u] \in Good
  BY <1>4, ExecuteMoves
<1>6. \A b \in Survivors : FieldSlots(b) \subseteq Slots
  BY <1>2, SlotFacts
<1> QED
  BY <1>1, <1>3, <1>5, <1>6, WritesSurvivors

\* The end of an allocation writes the block and the pointer kept in a C local.
LEMMA FinishMoves ==
  ASSUME OneThread, BaseInv, Threaded, NEW t \in Threads, Finish(t),
         NEW Good, Nil \in Good, \A s \in LiveRoots : mem[s] \in Good,
         scratch[t] \in Good, blk[t] \in Good
  PROVE  /\ \A s \in Slots : mem'[s] \in Good \cup {mem[s]}
         /\ \A s \in LiveRoots' : s \in Slots /\ mem'[s] \in Good
         /\ \A u \in Threads : scratch'[u] \in Good
<1> /\ mem \in [Slots -> Refs] /\ stack_pos \in [Threads -> 0 .. StackDepth]
    /\ scratch \in [Threads -> Refs] /\ blk[t] \in Blocks /\ pda_monitors \subseteq Threads
  BY DEF BaseInv, TypeOK, Allocating, Finish
<1>1. UNCHANGED <<jit_roots, pda_monitors>> /\ \A u \in Threads : u = t
  BY DEF Finish, OneThread
<1>2. \A u \in Threads : scratch'[u] \in Good
  BY <1>1 DEF Finish
<1>3. \A s \in Slots : mem'[s] \in Good \cup {mem[s]}
  BY DEF Finish
<1>4. \A s \in LiveRoots' : s \in LiveRoots \/ mem'[s] \in Good
  <2>1. CASE job[t] = "CreateStringObject"
    BY <1>1, <2>1 DEF Finish, LiveRoots, LocalSlots, LiveOpSlots, StaticSlots, TypedJitSlots,
                      TempJitSlots
  <2>2. CASE job[t] # "CreateStringObject"
    <3>1. /\ stack_pos' = [stack_pos EXCEPT ![t] = @ + 1]
          /\ \A s \in Slots : s = <<t, stack_pos[t]>> => mem'[s] = blk[t]
      <4>1. /\ stack_pos' = [stack_pos EXCEPT ![t] = @ + 1]
            /\ mem' = [s \in Slots |->
                         CASE s = <<t, stack_pos[t]>> -> blk[t]
                           [] job[t] = "CreateStringObject2"
                              /\ s = <<blk[t], CharsField>> -> scratch[t]
                           [] OTHER -> mem[s]]
        BY <2>2 DEF Finish
      <4>2. <<t, stack_pos[t]>> # <<blk[t], CharsField>>
        BY SetsAssumption
      <4> QED
        BY <4>1, <4>2
    <3>2. \A u \in Threads : LiveOpSlots(u)' \subseteq LiveOpSlots(u) \cup {<<t, stack_pos[t]>>}
      BY <3>1 DEF LiveOpSlots
    <3>3. \A s \in LiveRoots' : s \in Slots /\ (s \in LiveRoots \/ s = <<t, stack_pos[t]>>)
      BY <1>1, <3>2 DEF LiveRoots, LocalSlots, StaticSlots, TypedJitSlots, TempJitSlots
    <3> QED
      BY <3>1, <3>3
  <2> QED
    BY <2>1, <2>2
<1>5. LiveRoots' \subseteq Slots
  BY DEF LiveRoots, Slots
<1> QED
  BY <1>2, <1>3, <1>4, <1>5

\* A step of an allocation.
LEMMA AllocateSafe ==
  ASSUME OneThread, BaseInv, Placed, InHands, Threaded, NoDangling,
         NEW t \in Threads, AllocateStep(t)
  PROVE  NoDangling'
<1> /\ mem \in [Slots -> Refs] /\ stack_pos \in [Threads -> 0 .. StackDepth]
    /\ scratch \in [Threads -> Refs] /\ pda_monitors \subseteq Threads
    /\ blk \in [Threads -> Refs] /\ pc \in [Threads -> ThreadPCs]
    /\ kind \in [Blocks -> Kinds \cup {None}] /\ allocated_memory \subseteq Blocks
  BY DEF BaseInv, TypeOK
<1>1. /\ UNCHANGED <<jit_roots, pda_monitors, marked_memory>> /\ \A u \in Threads : u = t
      /\ cpc # "sweep" /\ cpc' # "sweep"
  BY AllocateFrame, AllocateIdle
<1>2. Survivors = allocated_memory /\ Survivors' = allocated_memory' /\ Heap = allocated_memory
  BY <1>1 DEF Survivors, Heap
<1>3. ASSUME UNCHANGED stack_pos PROVE LiveRoots' = LiveRoots
  BY <1>1, <1>3 DEF LiveRoots, LocalSlots, LiveOpSlots, StaticSlots, TypedJitSlots, TempJitSlots
<1>4. CASE TryLock(t) \/ JoinCollector(t) \/ TakeTop(t)
  <2>1. UNCHANGED <<mem, kind, allocated_memory, stack_pos, scratch>> /\ pc'[t] # "finish"
    BY <1>4 DEF TryLock, JoinCollector, TakeTop, heapVars, storeVars, rootVars
  <2>2. \A b : RefSlots(b)' = RefSlots(b)
    BY <2>1 DEF RefSlots, FieldSlots
  <2> QED
    BY <1>1, <1>2, <1>3, <2>1, <2>2 DEF NoDangling
<1>5. CASE PopTop(t) \/ \E b \in Blocks : Calloc(t, b)
  <2>1. /\ UNCHANGED <<allocated_memory, stack_pos, scratch>> /\ pc'[t] # "finish"
        /\ \A s \in Slots : mem'[s] \in {Nil, mem[s]}
    BY <1>5 DEF PopTop, Calloc, rootVars
  <2>2. \A b \in allocated_memory : kind'[b] = kind[b]
    <3>1. CASE PopTop(t)
      <4>1. PICK p \in Pools : p = PoolOf[JobKind(job[t])]
        BY <3>1 DEF PopTop, InHands
      <4>2. blk[t] \in Pooled(p)
        BY <3>1, <4>1, TopInPool DEF PopTop, InHands
      <4>3. blk[t] \notin allocated_memory
        BY <1>2, <4>2 DEF Placed
      <4> QED
        BY <3>1, <4>3 DEF PopTop
    <3>2. CASE \E b \in Blocks : Calloc(t, b)
      BY <1>2, <3>2 DEF Calloc, Placed
    <3> QED
      BY <1>5, <3>1, <3>2
  <2>3. \A b \in allocated_memory : RefSlots(b)' = RefSlots(b) /\ RefSlots(b) \subseteq Slots
    BY <2>2, RefSlotsAreSlots DEF RefSlots, FieldSlots
  <2>4. LiveRoots \subseteq Slots
    BY DEF LiveRoots, Slots
  <2> QED
    BY <1>1, <1>2, <1>3, <2>1, <2>3, <2>4 DEF NoDangling
<1>6. CASE Record(t)
  <2>1. /\ UNCHANGED <<mem, kind, stack_pos, scratch, blk>>
        /\ allocated_memory' = allocated_memory \cup {blk[t]} /\ NoFields(blk[t])
    BY <1>6 DEF Record, heapVars, rootVars, InHands
  <2>2. \A b : RefSlots(b)' = RefSlots(b)
    BY <2>1 DEF RefSlots, FieldSlots
  <2>3. \A s \in RefSlots(blk[t]) : mem[s] = Nil
    BY <2>1 DEF RefSlots, FieldSlots, NoFields
  <2> QED
    BY <1>1, <1>2, <1>3, <2>1, <2>2, <2>3 DEF NoDangling
<1>7. CASE Finish(t)
  <2>1. /\ UNCHANGED <<kind, cpc, allocated_memory, marked_memory>>
        /\ pc[t] = "finish" /\ pc'[t] # "finish"
    BY <1>7 DEF Finish, storeVars, gcVars, Checked
  <2>2. PICK Good : Good = Survivors \cup {Nil}
    OBVIOUS
  <2>3. /\ Nil \in Good /\ \A s \in LiveRoots : mem[s] \in Good
        /\ scratch[t] \in Good /\ blk[t] \in Good
    BY <2>1, <2>2 DEF NoDangling
  <2>4. /\ \A s \in Slots : mem'[s] \in Good \cup {mem[s]}
        /\ \A s \in LiveRoots' : s \in Slots /\ mem'[s] \in Good
        /\ \A u \in Threads : scratch'[u] \in Good
    BY <1>7, <2>3, FinishMoves
  <2>5. \A b \in Survivors : FieldSlots(b) \subseteq Slots
    BY <1>2, SlotFacts
  <2> QED
    BY <1>1, <2>1, <2>2, <2>4, <2>5, WritesSurvivors
<1> QED
  BY <1>4, <1>5, <1>6, <1>7 DEF AllocateStep

\* A step of a marker or of the collector.
LEMMA CollectorSafe ==
  ASSUME OneThread, BaseInv, Marks, Swept, Threaded, NoDangling, Marked,
         CollectorStep \/ \E m \in Markers : MarkerStep(m)
  PROVE  NoDangling'
<1> mem \in [Slots -> Refs] /\ kind \in [Blocks -> Kinds \cup {None}]
  BY DEF BaseInv, TypeOK
<1>1. UNCHANGED <<rootVars, pc, blk, scratch>>
  BY CollectorFrame, MarkerFrame DEF threadVars
<1>2. LiveRoots' = LiveRoots
  BY <1>1 DEF rootVars, LiveRoots, LocalSlots, LiveOpSlots, StaticSlots, TypedJitSlots,
              TempJitSlots
<1>3. cpc # "idle" /\ \A t \in Threads : pc'[t] # "finish"
  <2>1. cpc # "idle"
    BY MarkerPhase DEF CollectorStep, SortAndSpawn, JoinMarkers, LockAllocated, KeepBlock,
                       FreeBlock, FinishSweep
  <2> QED
    BY <1>1, <2>1, Paused
<1>4. ASSUME UNCHANGED <<mem, kind>>, Survivors' = Survivors PROVE NoDangling'
  <2>1. \A b : RefSlots(b)' = RefSlots(b)
    BY <1>4 DEF RefSlots, FieldSlots
  <2> QED
    BY <1>1, <1>2, <1>3, <1>4, <2>1 DEF NoDangling
<1>5. CASE \E m \in Markers : MarkerStep(m)
  <2>1. UNCHANGED <<mem, kind, allocated_memory>> /\ cpc = "mark" /\ cpc' = "mark"
    BY <1>5, MarkerFrame, MarkerPhase DEF storeVars
  <2> QED
    BY <1>4, <2>1 DEF Survivors
<1>6. CASE SortAndSpawn \/ JoinMarkers \/ \E b \in Blocks : KeepBlock(b)
  <2>1. /\ UNCHANGED <<mem, kind, allocated_memory, marked_memory>>
        /\ cpc = "sweep" <=> cpc' = "sweep"
    BY <1>6 DEF SortAndSpawn, JoinMarkers, KeepBlock, heapVars, storeVars
  <2> QED
    BY <1>4, <2>1 DEF Survivors
<1>7. CASE LockAllocated
  <2>1. /\ UNCHANGED <<mem, kind, marked_memory>> /\ cpc = "lock" /\ cpc' = "sweep"
    BY <1>7 DEF LockAllocated, heapVars
  <2>2. Survivors' = marked_memory /\ \A b : RefSlots(b)' = RefSlots(b)
    BY <2>1 DEF Survivors, RefSlots, FieldSlots
  <2> QED
    BY <1>1, <1>2, <1>3, <2>1, <2>2 DEF Marked, NoDangling
<1>8. CASE \E b \in Blocks : FreeBlock(b)
  <2>1. PICK b \in Blocks : FreeBlock(b)
    BY <1>8
  <2>2. /\ UNCHANGED <<marked_memory, cpc>> /\ cpc = "sweep" /\ b \notin marked_memory
        /\ \A s \in Slots : mem'[s] \in {Nil, mem[s]}
        /\ kind' = [kind EXCEPT ![b] = None]
    BY <2>1 DEF FreeBlock
  <2>3. Survivors = marked_memory /\ Survivors' = marked_memory /\ marked_memory \subseteq Blocks
    BY <2>2 DEF Survivors, BaseInv, TypeOK
  <2>4. \A d \in marked_memory : RefSlots(d)' = RefSlots(d) /\ RefSlots(d) \subseteq Slots
    BY <2>2, <2>3, RefSlotsAreSlots DEF RefSlots, FieldSlots
  <2>5. LiveRoots \subseteq Slots
    BY DEF LiveRoots, Slots
  <2> QED
    BY <1>1, <1>2, <1>3, <2>2, <2>3, <2>4, <2>5 DEF NoDangling
<1>9. CASE FinishSweep
  <2>1. /\ UNCHANGED <<mem, kind>> /\ cpc = "sweep" /\ cpc' = "done" /\ unswept = {}
        /\ allocated_memory' = live_memory
    BY <1>9 DEF FinishSweep, heapVars
  <2>2. Survivors' = Survivors
    BY <2>1 DEF Survivors, Swept
  <2> QED
    BY <1>4, <2>1, <2>2
<1> QED
  BY <1>5, <1>6, <1>7, <1>8, <1>9 DEF CollectorStep

LEMMA InitSafe == Init => SafeInv
<1> SUFFICES ASSUME Init PROVE SafeInv
  OBVIOUS
<1>1. Sorted /\ Swept /\ Threaded /\ OnHeap /\ Marking /\ Followed /\ Marked
  BY DEF Init, Sorted, Swept, Threaded, OnHeap, Marking, Followed, Marked
<1>2. Marks
  BY DEF Init, Marks
<1>3. Heap = {} /\ Survivors = {} /\ mem = [s \in Slots |-> Nil]
  BY DEF Init, Heap, Survivors
<1>4. InHands
  BY DEF Init, InHands
<1>5. NoDangling
  BY <1>3 DEF Init, NoDangling, LiveRoots
<1>6. Placed
  <2>1. \A p \in Pools : Len(cache_pool[p]) = POOL_SIZE /\ Pooled(p) = Home[p]
    BY NumbersAssumption DEF Init, Pooled
  <2>2. \A p \in Pools : \A b \in Home[p] : b \in Blocks /\ NoFields(b) /\ b \notin heap_free
    <3>1. \A p \in Pools : Home[p] \subseteq Blocks
      BY PoolAssumption
    <3>2. \A p \in Pools : \A b \in Home[p] : b \notin heap_free
      BY DEF Init
    <3> QED
      BY <1>3, <3>1, <3>2, SlotFacts DEF NoFields
  <2>3. \A p \in Pools : \A i, k \in 1 .. POOL_SIZE :
          cache_pool[p][i] = cache_pool[p][k] => i = k
    BY DEF Init
  <2> QED
    BY <1>3, <2>1, <2>2, <2>3, PoolAssumption DEF Placed
<1> QED
  BY <1>1, <1>2, <1>4, <1>5, <1>6 DEF SafeInv

THEOREM SafeInvariant ==
  ASSUME OneThread
  PROVE  Spec => [](BaseInv /\ SafeInv)
<1>1. Init => SafeInv
  BY InitSafe
<1>2. BaseInv /\ SafeInv /\ [Next]_vars => SafeInv'
  <2>1. ASSUME BaseInv, SafeInv, Next PROVE SafeInv'
    <3>1. Sorted' /\ Marks' /\ Swept' /\ Placed' /\ InHands'
      BY <2>1, NextSorted, NextMarks, NextSwept, NextPlaced, NextInHands DEF SafeInv
    <3>2. Threaded' /\ OnHeap' /\ Marking' /\ Followed' /\ Marked'
      BY <2>1, NextThreaded, NextOnHeap, NextMarking, NextFollowed, NextMarked DEF SafeInv
    <3>3. NoDangling'
      BY <2>1, ExecuteSafe, AllocateSafe, CollectorSafe DEF Next, SafeInv
    <3> QED
      BY <3>1, <3>2, <3>3 DEF SafeInv
  <2>2. ASSUME SafeInv, UNCHANGED vars PROVE SafeInv'
    <3> USE <2>2 DEF vars, heapVars, rootVars, storeVars, sizeVars, threadVars, gcVars,
                     markVars, lockVars, SafeInv
    <3>1. Sorted' /\ Marks' /\ Swept' /\ Threaded' /\ OnHeap'
      BY DEF Sorted, Marks, Swept, Threaded, OnHeap
    <3>2. Heap' = Heap /\ Survivors' = Survivors /\ LiveRoots' = LiveRoots
      BY DEF Heap, Survivors, LiveRoots, LocalSlots, LiveOpSlots, StaticSlots, TypedJitSlots,
             TempJitSlots
    <3>3. /\ \A b : RefSlots(b)' = RefSlots(b) /\ NoFields(b)' = NoFields(b)
          /\ \A s : Covered(s)' = Covered(s)
          /\ \A m \in Markers : RootSlots(m)' = RootSlots(m)
      BY RootSlotsStay DEF RefSlots, FieldSlots, NoFields, Covered
    <3>4. Placed' /\ InHands'
      BY <3>2, <3>3, PlacedStays, PooledStay DEF InHands
    <3>5. NoDangling' /\ Marked'
      BY <3>2, <3>3 DEF NoDangling, Marked
    <3>6. Marking' /\ Followed'
      BY <3>3 DEF Marking, Followed
    <3> QED
      BY <3>1, <3>4, <3>5, <3>6
  <2> QED
    BY <2>1, <2>2
<1> QED
  BY <1>1, <1>2, BaseInvariant, PTL DEF Spec

\* While a program runs in one thread, no variable, no field of a surviving
\* block and no pointer an allocation keeps in a C local ever refers to a
\* block CollectMemory has freed or put back in a pool.
THEOREM NothingDangles ==
  ASSUME OneThread
  PROVE  Spec => []NoDangling
<1>1. SafeInv => NoDangling
  BY DEF SafeInv
<1> QED
  BY <1>1, SafeInvariant, PTL

\* MarkMemory and GetClass, which dereference what they are given, are given
\* blocks of allocated_memory.
THEOREM MarkersStayOnHeap ==
  ASSUME OneThread
  PROVE  Spec => []MarkersOnHeap
<1>1. SafeInv => MarkersOnHeap
  BY DEF SafeInv, OnHeap, Marks, MarkersOnHeap
<1> QED
  BY <1>1, SafeInvariant, PTL

\* A collection leaves no mark behind for the next one to stumble over.
THEOREM NoMarkIsLeft ==
  ASSUME OneThread
  PROVE  Spec => []MarksCleared
<1>1. BaseInv /\ SafeInv => MarksCleared
  BY DEF SafeInv, Marks, BaseInv, TypeOK, MarksCleared
<1> QED
  BY <1>1, SafeInvariant, PTL

(***************************************************************************)
(* The mark phase marks nothing that cannot be reached.                    *)
(***************************************************************************)
Roots == UNION {RootSlots(m) : m \in Markers}
Outside == Blocks \ allocated_memory

\* Every set of blocks that contains what the roots refer to, and what its own
\* blocks refer to, contains what is marked and what markers are about to mark.
Reached ==
  cpc \in {"mark", "lock"} =>
    \A C \in SUBSET allocated_memory : ClosedFrom(C, Roots) =>
      /\ marked_memory \subseteq C
      /\ \A m \in Markers :
           /\ \A s \in todo[m] : mem[s] \in C \cup {Nil} \cup Outside
           /\ mpc[m] \in {"map", "test", "mark", "valid", "markvalid", "elements"} =>
                at[m] \in C \cup Outside

\* When the sweep is about to begin, what the roots refer to is marked.
RootsMarked == cpc = "lock" => \A s \in Roots : mem[s] \in marked_memory \cup {Nil} \cup Outside

ExactInv == Reached /\ RootsMarked

LEMMA NextReached ==
  ASSUME OneThread, BaseInv, SafeInv, Reached, Next
  PROVE  Reached'
<1> /\ mpc \in [Markers -> MarkPCs] /\ at \in [Markers -> Refs]
    /\ todo \in [Markers -> SUBSET Slots] /\ allocated_memory \subseteq Blocks
    /\ mem \in [Slots -> Refs]
  BY DEF BaseInv, TypeOK
<1>1. ASSUME NEW t \in Threads, Execute(t) \/ AllocateStep(t) PROVE Reached'
  BY <1>1, ExecuteIdle, AllocateIdle DEF Reached
<1>2. ASSUME NEW m \in Markers, MarkerStep(m) PROVE Reached'
  <2>1. cpc = "mark" /\ UNCHANGED <<mem, allocated_memory, kind, info, rootVars>>
    BY <1>2, MarkerPhase, MarkerFrame DEF storeVars
  <2>2. \A b : RefSlots(b)' = RefSlots(b)
    BY <2>1 DEF RefSlots, FieldSlots
  <2>3. Roots' = Roots /\ Outside' = Outside
    BY <1>2, <2>1, RootSlotsStay DEF Roots, Outside
  <2>4. SUFFICES ASSUME NEW C \in SUBSET allocated_memory, ClosedFrom(C, Roots)
                 PROVE  /\ marked_memory' \subseteq C
                        /\ \A n \in Markers :
                             /\ \A s \in todo'[n] : mem[s] \in C \cup {Nil} \cup Outside
                             /\ mpc'[n] \in {"map", "test", "mark", "valid", "markvalid", "elements"} =>
                                  at'[n] \in C \cup Outside
    BY <2>1, <2>2, <2>3 DEF Reached, ClosedFrom
  <2>5. /\ marked_memory \subseteq C
        /\ \A n \in Markers :
             /\ \A s \in todo[n] : mem[s] \in C \cup {Nil} \cup Outside
             /\ mpc[n] \in {"map", "test", "mark", "valid", "markvalid", "elements"} =>
                  at[n] \in C \cup Outside
    BY <2>1, <2>4 DEF Reached
  <2>6. \A n \in Markers : n # m => mpc'[n] = mpc[n] /\ at'[n] = at[n] /\ todo'[n] = todo[n]
    BY <1>2 DEF MarkerStep, StartMarker, Visit, GetClassMapping, TestMark, MarkMemory,
                SearchValid, MarkValidMemory, CheckElements, EndMarker
\* A block that is marked, or whose elements are taken up, is in the heap.
  <2>7. mpc[m] \in {"mark", "markvalid", "elements"} =>
          at[m] \in C /\ \A s \in RefSlots(at[m]) : mem[s] \in C \cup {Nil}
    <3>1. mpc[m] \in {"mark", "markvalid", "elements"} => at[m] \in allocated_memory
      BY DEF SafeInv, OnHeap, Marks
    <3> QED
      BY <2>4, <2>5, <3>1 DEF ClosedFrom, Outside
  <2>8. marked_memory' \subseteq C
    <3>1. \/ marked_memory' = marked_memory
          \/ mpc[m] \in {"mark", "markvalid"} /\ marked_memory' = marked_memory \cup {at[m]}
      BY <1>2 DEF MarkerStep, StartMarker, Visit, GetClassMapping, TestMark, MarkMemory,
                  SearchValid, MarkValidMemory, CheckElements, EndMarker, gcVars
    <3> QED
      BY <2>5, <2>7, <3>1
  <2>9. \A s \in todo'[m] : mem[s] \in C \cup {Nil} \cup Outside
    <3>1. CASE StartMarker(m)
      <4>1. todo'[m] = RootSlots(m) /\ RootSlots(m) \subseteq Roots
        BY <3>1 DEF StartMarker, Roots
      <4> QED
        BY <2>4, <4>1 DEF ClosedFrom, Outside
    <3>2. CASE MarkMemory(m) \/ CheckElements(m)
      <4>1. /\ todo'[m] \subseteq todo[m] \cup RefSlots(at[m])
            /\ mpc[m] \in {"mark", "elements"}
        BY <3>2 DEF MarkMemory, CheckElements
      <4> QED
        BY <2>5, <2>7, <4>1
    <3>3. CASE ~ StartMarker(m) /\ ~ MarkMemory(m) /\ ~ CheckElements(m)
      <4>1. todo'[m] \subseteq todo[m]
        BY <1>2, <3>3 DEF MarkerStep, Visit, GetClassMapping, TestMark, SearchValid,
                          MarkValidMemory, EndMarker
      <4> QED
        BY <2>5, <4>1
    <3> QED
      BY <3>1, <3>2, <3>3
  <2>10. mpc'[m] \in {"map", "test", "mark", "valid", "markvalid", "elements"} =>
           at'[m] \in C \cup Outside
    <3>1. CASE \E s \in Slots : Visit(m, s)
      <4>1. PICK s \in todo[m] : /\ mem[s] = Nil => mpc'[m] = "scan"
                                 /\ mem[s] # Nil => at'[m] = mem[s]
        BY <3>1 DEF Visit
      <4> QED
        BY <2>5, <4>1
    <3>2. CASE ~ \E s \in Slots : Visit(m, s)
      <4>1. mpc'[m] \in {"map", "test", "mark", "valid", "markvalid", "elements"} =>
              /\ at'[m] = at[m]
              /\ mpc[m] \in {"map", "test", "mark", "valid", "markvalid", "elements"}
        BY <1>2, <3>2 DEF MarkerStep, StartMarker, GetClassMapping, TestMark, MarkMemory,
                          SearchValid, MarkValidMemory, CheckElements, EndMarker
      <4> QED
        BY <2>5, <4>1
    <3> QED
      BY <3>1, <3>2
  <2> QED
    BY <2>5, <2>6, <2>8, <2>9, <2>10
<1>3. ASSUME CollectorStep PROVE Reached'
  <2>1. CASE SortAndSpawn
    <3>1. /\ marked_memory' = {} /\ \A m \in Markers : mpc'[m] = "start"
          /\ todo' = todo /\ cpc = "sort"
      BY <2>1 DEF SortAndSpawn, SafeInv, Marks
    <3>2. \A m \in Markers : todo[m] = {}
      BY <3>1 DEF BaseInv, Phases, MarkersAt
    <3> QED
      BY <3>1, <3>2 DEF Reached
  <2>2. CASE JoinMarkers
    <3>1. /\ cpc = "mark" /\ \A m \in Markers : mpc[m] = "exit" /\ mpc'[m] = "off"
          /\ UNCHANGED <<mem, kind, allocated_memory, marked_memory, info, rootVars, at, todo>>
      BY <2>2 DEF JoinMarkers, heapVars, storeVars
    <3>2. /\ \A b : RefSlots(b)' = RefSlots(b)
          /\ \A m \in Markers : RootSlots(m)' = RootSlots(m)
      BY <3>1 DEF RefSlots, FieldSlots, RootSlots, rootVars, StaticSlots, LocalSlots, TypedJitSlots,
                  TempJitSlots
    <3>3. \A C : ClosedFrom(C, Roots)' = ClosedFrom(C, Roots)
      BY <3>1, <3>2 DEF ClosedFrom, Roots
    <3> QED
      BY <3>1, <3>3 DEF Reached, Outside
  <2>3. CASE ~ SortAndSpawn /\ ~ JoinMarkers
    <3>1. cpc' \notin {"mark", "lock"}
      BY <1>3, <2>3 DEF CollectorStep, LockAllocated, KeepBlock, FreeBlock, FinishSweep
    <3> QED
      BY <3>1 DEF Reached
  <2> QED
    BY <2>1, <2>2, <2>3
<1> QED
  BY <1>1, <1>2, <1>3 DEF Next

LEMMA NextRootsMarked ==
  ASSUME OneThread, BaseInv, SafeInv, RootsMarked, Next
  PROVE  RootsMarked'
<1>1. ASSUME NEW t \in Threads, Execute(t) \/ AllocateStep(t) PROVE RootsMarked'
  BY <1>1, ExecuteIdle, AllocateIdle DEF RootsMarked
<1>2. ASSUME NEW m \in Markers, MarkerStep(m) PROVE RootsMarked'
  BY <1>2, MarkerPhase DEF RootsMarked
<1>3. ASSUME CollectorStep, ~ JoinMarkers PROVE RootsMarked'
  BY <1>3 DEF CollectorStep, SortAndSpawn, LockAllocated, KeepBlock, FreeBlock, FinishSweep,
              RootsMarked
<1>4. ASSUME JoinMarkers PROVE RootsMarked'
  <2>1. /\ cpc = "mark" /\ \A m \in Markers : mpc[m] = "exit"
        /\ UNCHANGED <<mem, allocated_memory, marked_memory, info, rootVars>>
    BY <1>4 DEF JoinMarkers, heapVars, storeVars
  <2>2. \A m \in Markers : RootSlots(m)' = RootSlots(m)
    BY <2>1 DEF RootSlots, rootVars, StaticSlots, LocalSlots, TypedJitSlots, TempJitSlots
  <2>3. ASSUME NEW m \in Markers, NEW s \in RootSlots(m)
        PROVE  mem[s] \in marked_memory \cup {Nil} \cup Outside
    <3>1. Covered(s)
      BY <2>1 DEF SafeInv, Marking
    <3>2. \A n \in Markers : todo[n] = {}
      BY <2>1 DEF BaseInv, MarkersAt
    <3>3. mem[s] \notin allocated_memory \/ mem[s] \in marked_memory
      BY <2>1, <3>1, <3>2 DEF Covered
    <3>4. s \in Slots
      BY <2>1, RootSlotsAreSlots DEF BaseInv, Phases, TypeOK
    <3> QED
      BY <3>3, <3>4 DEF Outside, BaseInv, TypeOK, Refs
  <2> QED
    BY <2>1, <2>2, <2>3 DEF RootsMarked, Roots, Outside
<1> QED
  BY <1>1, <1>2, <1>3, <1>4 DEF Next

THEOREM ExactInvariant ==
  ASSUME OneThread
  PROVE  Spec => []ExactInv
<1>1. Init => ExactInv
  BY DEF Init, ExactInv, Reached, RootsMarked
<1>2. BaseInv /\ SafeInv /\ ExactInv /\ [Next]_vars => ExactInv'
  <2>1. ASSUME BaseInv, SafeInv, ExactInv, Next PROVE ExactInv'
    BY <2>1, NextReached, NextRootsMarked DEF ExactInv
  <2>2. ASSUME ExactInv, UNCHANGED vars PROVE ExactInv'
    <3>1. UNCHANGED <<mem, kind, allocated_memory, marked_memory, info, rootVars, at, todo, cpc, mpc>>
      BY <2>2 DEF vars, heapVars, storeVars, gcVars, markVars
    <3>2. /\ \A b : RefSlots(b)' = RefSlots(b)
          /\ \A m \in Markers : RootSlots(m)' = RootSlots(m)
      BY <3>1 DEF RefSlots, FieldSlots, RootSlots, rootVars, StaticSlots, LocalSlots, TypedJitSlots,
                  TempJitSlots
    <3>3. Roots' = Roots /\ Outside' = Outside
      BY <3>1, <3>2 DEF Roots, Outside
    <3>4. \A C : ClosedFrom(C, Roots)' = ClosedFrom(C, Roots)
      BY <3>1, <3>2, <3>3 DEF ClosedFrom
    <3>5. Reached'
      BY <2>2, <3>1, <3>3, <3>4 DEF ExactInv, Reached
    <3>6. RootsMarked'
      BY <2>2, <3>1, <3>3 DEF ExactInv, RootsMarked
    <3> QED
      BY <3>5, <3>6 DEF ExactInv
  <2> QED
    BY <2>1, <2>2
<1> QED
  BY <1>1, <1>2, SafeInvariant, PTL DEF Spec

\* When the markers have ended, the marked blocks are exactly those that can be
\* reached from what they scanned: the four of them, meeting in any order on
\* blocks one has tested and another is marking, miss no block and mark no other.
THEOREM MarkingIsExact ==
  ASSUME OneThread
  PROVE  Spec => []MarkIsExact
<1>1. BaseInv /\ SafeInv /\ ExactInv => MarkIsExact
  <2> SUFFICES ASSUME BaseInv, SafeInv, ExactInv, cpc = "lock"
               PROVE  /\ ClosedFrom(marked_memory, Roots)
                      /\ \A C \in SUBSET marked_memory : ClosedFrom(C, Roots) => C = marked_memory
    BY DEF MarkIsExact, Roots
  <2>1. ClosedFrom(marked_memory, Roots)
    BY DEF ClosedFrom, SafeInv, Marked, ExactInv, RootsMarked, Outside
  <2>2. ASSUME NEW C \in SUBSET marked_memory, ClosedFrom(C, Roots) PROVE C = marked_memory
    <3>1. C \in SUBSET allocated_memory
      BY DEF SafeInv, Marks
    <3> QED
      BY <2>2, <3>1 DEF ExactInv, Reached
  <2> QED
    BY <2>1, <2>2
<1> QED
  BY <1>1, SafeInvariant, ExactInvariant, PTL

(***************************************************************************)
(* The cache pools lose no block and get none that is not theirs.          *)
(***************************************************************************)
\* The block a thread has popped and not yet recorded.
Popped(b) == \E t \in Threads : pc[t] = "record" /\ blk[t] = b

\* Pools hold blocks of their own, malloc returns none of them, and the header
\* of one that is in no pool names the pool it came from.
Homes ==
  /\ \A p \in Pools : Pooled(p) \subseteq Home[p]
  /\ \A p \in Pools : \A b \in Home[p] : b \notin heap_free
  /\ \A p \in Pools : \A b \in Home[p] :
       b \in Pooled(p) \/ (cache_size[b] = p /\ (b \in Heap \/ Popped(b)))
  /\ \A b \in Blocks : cache_size[b] # None => b \in Home[cache_size[b]]

\* A pool that holds its own blocks only, each once, is not over its limit.
LEMMA PoolBound ==
  ASSUME NEW p \in Pools, NEW c \in Seq(Blocks),
         \A i \in 1 .. Len(c) : c[i] \in Home[p],
         \A i, k \in 1 .. Len(c) : c[i] = c[k] => i = k
  PROVE  Len(c) <= POOL_SIZE
<1>1. PICK n \in Nat : n = Len(c)
  OBVIOUS
<1>2. IsFiniteSet(1 .. n) /\ Cardinality(1 .. n) = n
  <2>1. /\ IsFiniteSet(1 .. n)
        /\ Cardinality(1 .. n) = IF 1 > n THEN 0 ELSE n - 1 + 1
    BY FS_Interval
  <2> QED
    BY <2>1
<1>3. IsFiniteSet(Home[p]) /\ Cardinality(Home[p]) = POOL_SIZE
  BY PoolAssumption
<1>4. SUFFICES ASSUME POOL_SIZE < n PROVE FALSE
  BY <1>1, NumbersAssumption
<1>5. c \in [1 .. n -> Home[p]]
  BY <1>1
<1>6. Cardinality(Home[p]) < Cardinality(1 .. n)
  BY <1>2, <1>3, <1>4
<1>7. \E x, y \in 1 .. n : x # y /\ c[x] = c[y]
  BY <1>2, <1>3, <1>5, <1>6, FS_PigeonHole
<1> QED
  BY <1>1, <1>7

LEMMA InitHomes == Init => Homes
<1> SUFFICES ASSUME Init PROVE Homes
  OBVIOUS
<1>1. \A p \in Pools : Len(cache_pool[p]) = POOL_SIZE /\ Pooled(p) = Home[p]
  BY NumbersAssumption DEF Init, Pooled
<1>2. \A p \in Pools : \A b \in Home[p] : b \notin heap_free
  BY DEF Init
<1> QED
  BY <1>1, <1>2 DEF Init, Homes

\* What leaves the pools, the heap and the headers alone.
LEMMA HomesStay ==
  ASSUME Homes, UNCHANGED <<cache_pool, heap_free, cache_size>>, Heap \subseteq Heap',
         \A b \in Blocks : Popped(b) => Popped(b)' \/ b \in Heap'
  PROVE  Homes'
<1>1. \A p : Pooled(p)' = Pooled(p)
  BY PooledStay
<1>2. \A p \in Pools : Home[p] \subseteq Blocks
  BY PoolAssumption
<1> QED
  BY <1>1, <1>2 DEF Homes

LEMMA NextHomes ==
  ASSUME OneThread, BaseInv, SafeInv, Homes, Next
  PROVE  Homes'
<1> /\ cache_pool \in [Pools -> Seq(Blocks)] /\ cache_size \in [Blocks -> Pools \cup {None}]
    /\ allocated_memory \subseteq Blocks /\ heap_free \subseteq Blocks
    /\ \A p \in Pools : Pooled(p) \subseteq Blocks /\ Home[p] \subseteq Blocks
    /\ None \notin Pools /\ blk \in [Threads -> Refs]
  BY PoolAssumption, SetsAssumption DEF BaseInv, TypeOK, Pooled
<1>1. ASSUME NEW t \in Threads, Execute(t) PROVE Homes'
  <2>1. UNCHANGED <<storeVars, gcVars, cache_size>> /\ cpc = "idle" /\ pc[t] \in {"off", "run"}
        /\ \A u \in Threads : u = t
    BY <1>1, ExecuteFrame, ExecuteIdle
  <2>2. Heap' = Heap
    BY <2>1 DEF Heap, storeVars, gcVars
  <2>3. \A b \in Blocks : ~ Popped(b)
    BY <2>1 DEF Popped
  <2> QED
    BY <2>1, <2>2, <2>3, HomesStay DEF storeVars
<1>2. ASSUME NEW t \in Threads, TryLock(t) \/ JoinCollector(t) \/ TakeTop(t) \/ Finish(t)
      PROVE  Homes'
  <2>1. /\ UNCHANGED <<cache_size, storeVars, live_memory, unswept>>
        /\ cpc # "sweep" /\ cpc' # "sweep" /\ pc[t] # "record"
    BY <1>2, AllocateIdle DEF AllocateStep, TryLock, JoinCollector, TakeTop, Finish, gcVars, heapVars
  <2>2. Heap' = Heap
    BY <2>1 DEF storeVars, Heap
  <2>3. \A b \in Blocks : ~ Popped(b)
    BY <2>1 DEF Popped, OneThread
  <2> QED
    BY <2>1, <2>2, <2>3, HomesStay DEF storeVars
<1>3. ASSUME NEW t \in Threads, PopTop(t) PROVE Homes'
  <2>1. PICK p \in Pools : p = PoolOf[JobKind(job[t])]
    BY <1>3 DEF PopTop, SafeInv, InHands
  <2>2. cache_pool[p] # <<>> /\ blk[t] = cache_pool[p][Len(cache_pool[p])]
    BY <1>3, <2>1 DEF PopTop, SafeInv, InHands
  <2>3. blk[t] \in Pooled(p) /\ blk[t] \in Blocks
    BY <2>2, TopInPool
  <2>4. blk[t] \in Home[p]
    BY <2>3 DEF Homes
  <2>5. /\ UNCHANGED <<allocated_memory, heap_free, gcVars, blk>> /\ pc'[t] = "record"
        /\ cache_size' = [cache_size EXCEPT ![blk[t]] = p]
        /\ cache_pool' = [cache_pool EXCEPT ![p] = SubSeq(@, 1, Len(@) - 1)]
    BY <1>3, <2>1, <2>2 DEF PopTop, BaseInv, TypeOK
  <2>6. Heap' = Heap /\ Popped(blk[t])'
    BY <2>5 DEF Heap, gcVars, Popped
  <2>7. \A b : ~ Popped(b)
    BY <1>3 DEF PopTop, Popped, OneThread
  <2>8. \A q \in Pools : q # p => Pooled(q)' = Pooled(q)
    <3>1. \A q \in Pools : q # p => cache_pool'[q] = cache_pool[q]
      BY <2>5
    <3> QED
      BY <3>1 DEF Pooled
  <2>9. Pooled(p)' \subseteq Pooled(p) /\ Pooled(p) \subseteq Pooled(p)' \cup {blk[t]}
    <3>1. PICK c \in Seq(Blocks) : c = cache_pool[p]
      OBVIOUS
    <3>2. PICK d : d = SubSeq(c, 1, Len(c) - 1)
      OBVIOUS
    <3>3. cache_pool'[p] = d
      BY <2>5, <3>1, <3>2
    <3>4. \A i, k \in 1 .. Len(c) : c[i] = c[k] => i = k
      BY <3>1 DEF SafeInv, Placed
    <3>5. c # <<>>
      BY <2>2, <3>1
    <3>6. /\ Len(d) = Len(c) - 1
          /\ \A i \in 1 .. Len(d) : i \in 1 .. Len(c) /\ d[i] = c[i]
      BY <3>2, <3>4, <3>5, PoolPop
    <3>7. \A i \in 1 .. Len(c) : i \in 1 .. Len(d) \/ i = Len(c)
      <4>1. Len(c) \in Nat
        OBVIOUS
      <4> QED
        BY <3>6, <4>1
    <3>8. {d[i] : i \in 1 .. Len(d)} \subseteq {c[i] : i \in 1 .. Len(c)}
      BY <3>6
    <3>9. ASSUME NEW i \in 1 .. Len(c) PROVE c[i] \in {d[k] : k \in 1 .. Len(d)} \cup {c[Len(c)]}
      BY <3>6, <3>7
    <3>10. Pooled(p) = {c[i] : i \in 1 .. Len(c)} /\ Pooled(p)' = {d[i] : i \in 1 .. Len(d)}
      BY <3>1, <3>3 DEF Pooled
    <3>11. c[Len(c)] = blk[t]
      BY <2>2, <3>1
    <3> QED
      BY <3>8, <3>9, <3>10, <3>11
  <2>10. \A q \in Pools : Pooled(q)' \subseteq Home[q]
    BY <2>8, <2>9 DEF Homes
  <2>11. ASSUME NEW q \in Pools, NEW b \in Home[q]
         PROVE  b \in Pooled(q)' \/ (cache_size'[b] = q /\ (b \in Heap' \/ Popped(b)'))
    <3>1. CASE b = blk[t]
      <4>1. q = p
        BY <2>4, <3>1, PoolAssumption
      <4> QED
        BY <2>3, <2>5, <2>6, <3>1, <4>1
    <3>2. CASE b # blk[t]
      <4>1. cache_size'[b] = cache_size[b]
        BY <2>5, <3>2
      <4>2. b \in Pooled(q) => b \in Pooled(q)'
        BY <2>8, <2>9, <3>2
      <4> QED
        BY <2>6, <2>7, <4>1, <4>2 DEF Homes
    <3> QED
      BY <3>1, <3>2
  <2>12. \A b \in Blocks : cache_size'[b] # None => b \in Home[cache_size'[b]]
    BY <2>4, <2>5 DEF Homes
  <2> QED
    BY <2>5, <2>10, <2>11, <2>12 DEF Homes
<1>4. ASSUME NEW t \in Threads, NEW b \in Blocks, Calloc(t, b) PROVE Homes'
  <2>1. /\ UNCHANGED <<allocated_memory, cache_pool, gcVars>> /\ heap_free' = heap_free \ {b}
        /\ cache_size' = [cache_size EXCEPT ![b] = None] /\ b \in heap_free
    BY <1>4 DEF Calloc
  <2>2. Heap' = Heap /\ \A p : Pooled(p)' = Pooled(p)
    BY <2>1, PooledStay DEF Heap, gcVars
  <2>3. \A d : ~ Popped(d)
    BY <1>4 DEF Calloc, Popped, OneThread
  <2>4. \A p \in Pools : b \notin Home[p]
    BY <2>1 DEF Homes
  <2> QED
    BY <2>1, <2>2, <2>3, <2>4 DEF Homes
<1>5. ASSUME NEW t \in Threads, Record(t) PROVE Homes'
  <2>1. /\ UNCHANGED <<heapVars, cache_pool, heap_free, gcVars>> /\ cpc # "sweep"
        /\ allocated_memory' = allocated_memory \cup {blk[t]}
    BY <1>5, AllocateIdle DEF Record, AllocateStep, JoinCollector
  <2>2. Heap' = Heap \cup {blk[t]}
    BY <2>1 DEF Heap, gcVars
  <2>3. \A b : Popped(b) => b = blk[t]
    BY DEF Popped, OneThread
  <2> QED
    BY <2>1, <2>2, <2>3, HomesStay DEF heapVars
<1>6. ASSUME NEW m \in Markers, MarkerStep(m) PROVE Homes'
  <2>1. UNCHANGED <<cache_size, cache_pool, heap_free, pc, blk>> /\ Heap' = Heap
    BY <1>6, MarkerFrame DEF storeVars, threadVars, Heap
  <2>2. \A b : Popped(b)' = Popped(b)
    BY <2>1 DEF Popped
  <2> QED
    BY <2>1, <2>2, HomesStay
<1>7. ASSUME SortAndSpawn \/ JoinMarkers \/ LockAllocated \/ FinishSweep PROVE Homes'
  <2>1. UNCHANGED <<cache_size, cache_pool, heap_free, pc, blk>>
    BY <1>7 DEF SortAndSpawn, JoinMarkers, LockAllocated, FinishSweep, heapVars, storeVars, threadVars
  <2>2. Heap' = Heap
    BY <1>7 DEF SortAndSpawn, JoinMarkers, LockAllocated, FinishSweep, storeVars, Heap, SafeInv, Swept
  <2>3. \A b : Popped(b)' = Popped(b)
    BY <2>1 DEF Popped
  <2> QED
    BY <2>1, <2>2, <2>3, HomesStay
<1>8. ASSUME NEW b \in Blocks, KeepBlock(b) PROVE Homes'
  <2>1. UNCHANGED <<cache_size, cache_pool, heap_free, pc, blk>> /\ Heap' = Heap
    BY <1>8 DEF KeepBlock, storeVars, threadVars, Heap
  <2>2. \A d : Popped(d)' = Popped(d)
    BY <2>1 DEF Popped
  <2> QED
    BY <2>1, <2>2, HomesStay
<1>9. ASSUME NEW b \in Blocks, FreeBlock(b) PROVE Homes'
  <2>1. /\ b \in Heap /\ Heap' = Heap \ {b}
        /\ UNCHANGED <<pc, blk>> /\ cache_size' = [cache_size EXCEPT ![b] = None]
    BY <1>9 DEF FreeBlock, Heap, SafeInv, Swept, threadVars
  <2>2. \A q \in Pools : b \notin Pooled(q)
    BY <2>1 DEF SafeInv, Placed
  <2>3. \A d : Popped(d)' = Popped(d)
    BY <2>1 DEF Popped
  <2>4. CASE cache_size[b] = None
    <3>1. cache_pool' = cache_pool /\ heap_free' = heap_free \cup {b}
      BY <1>9, <2>4 DEF FreeBlock
    <3>2. \A q : Pooled(q)' = Pooled(q)
      BY <3>1, PooledStay
    <3>3. \A q \in Pools : b \notin Home[q]
      BY <2>2, <2>4 DEF Homes
    <3> QED
      BY <2>1, <2>3, <3>1, <3>2, <3>3 DEF Homes
  <2>5. CASE cache_size[b] # None
    <3>1. PICK p \in Pools : p = cache_size[b]
      BY <2>5
    <3>2. b \in Home[p]
      BY <3>1, <2>5 DEF Homes
    <3>3. PICK c \in Seq(Blocks) : c = cache_pool[p]
      OBVIOUS
    <3>4. Len(c) <= POOL_SIZE
      <4>1. \A i \in 1 .. Len(c) : c[i] \in Home[p]
        BY <3>3 DEF Homes, Pooled
      <4>2. \A i, k \in 1 .. Len(c) : c[i] = c[k] => i = k
        BY <3>3 DEF SafeInv, Placed
      <4> QED
        BY <4>1, <4>2, PoolBound
    <3>5. Len(cache_pool[p]) < POOL_SIZE + 1
      BY <3>3, <3>4, NumbersAssumption
    <3>6. cache_pool' = [cache_pool EXCEPT ![p] = Append(@, b)] /\ heap_free' = heap_free
      BY <1>9, <3>1, <3>5 DEF FreeBlock
    <3>7. \A q \in Pools : q # p => Pooled(q)' = Pooled(q)
      <4>1. \A q \in Pools : q # p => cache_pool'[q] = cache_pool[q]
        BY <3>6
      <4> QED
        BY <4>1 DEF Pooled
    <3>8. Pooled(p)' = Pooled(p) \cup {b}
      <4>1. PICK d : d = Append(c, b)
        OBVIOUS
      <4>2. cache_pool'[p] = d
        BY <3>3, <3>6, <4>1
      <4>3. /\ Len(c) \in Nat /\ Len(d) = Len(c) + 1 /\ d[Len(d)] = b
            /\ \A i \in 1 .. Len(c) : d[i] = c[i]
        BY <4>1
      <4>4. \A i : i \in 1 .. Len(d) <=> i \in 1 .. Len(c) \/ i = Len(d)
        BY <4>3
      <4>5. {d[i] : i \in 1 .. Len(d)} = {c[i] : i \in 1 .. Len(c)} \cup {b}
        BY <4>3, <4>4
      <4> QED
        BY <3>3, <4>2, <4>5, ZenonT(40) DEF Pooled
    <3>9. \A q \in Pools : Pooled(q)' \subseteq Home[q]
      BY <3>2, <3>7, <3>8, SMTT(30) DEF Homes
    <3>10. ASSUME NEW q \in Pools, NEW d \in Home[q]
           PROVE  d \in Pooled(q)' \/ (cache_size'[d] = q /\ (d \in Heap' \/ Popped(d)'))
      <4>1. CASE d = b
        <5>1. q = p
          BY <3>2, <4>1, PoolAssumption
        <5> QED
          BY <3>8, <4>1, <5>1
      <4>2. CASE d # b
        <5>1. cache_size'[d] = cache_size[d] /\ (d \in Heap => d \in Heap')
          BY <2>1, <4>2
        <5>2. d \in Pooled(q) => d \in Pooled(q)'
          BY <3>7, <3>8
        <5> QED
          BY <2>3, <5>1, <5>2 DEF Homes
      <4> QED
        BY <4>1, <4>2
    <3> QED
      BY <2>1, <3>6, <3>9, <3>10 DEF Homes
  <2> QED
    BY <2>4, <2>5
<1> QED
  BY <1>1, <1>2, <1>3, <1>4, <1>5, <1>6, <1>7, <1>8, <1>9
  DEF Next, AllocateStep, CollectorStep

THEOREM HomesInvariant ==
  ASSUME OneThread
  PROVE  Spec => []Homes
<1>1. BaseInv /\ SafeInv /\ Homes /\ [Next]_vars => Homes'
  <2>1. ASSUME Homes, UNCHANGED vars PROVE Homes'
    <3>1. UNCHANGED <<cache_pool, heap_free, cache_size, Heap, pc, blk>>
      BY <2>1 DEF vars, heapVars, storeVars, threadVars, gcVars, Heap
    <3>2. \A b : Popped(b)' = Popped(b)
      BY <3>1 DEF Popped
    <3> QED
      BY <2>1, <3>1, <3>2, HomesStay
  <2> QED
    BY <2>1, NextHomes
<1> QED
  BY <1>1, InitHomes, SafeInvariant, PTL DEF Spec

\* A block Initialize has put in a cache pool is never lost and never in two
\* places: it is in that pool, once, or in the heap or in the hands of the
\* thread that is about to record it, with that pool in its header.
THEOREM PoolsAreConserved ==
  ASSUME OneThread
  PROVE  Spec => []PoolsConserved
<1>1. BaseInv /\ SafeInv /\ Homes => PoolsConserved
  <2> SUFFICES ASSUME BaseInv, SafeInv, Homes, NEW p \in Pools
               PROVE  /\ \A i, k \in 1 .. Len(cache_pool[p]) :
                           cache_pool[p][i] = cache_pool[p][k] => i = k
                      /\ \A i \in 1 .. Len(cache_pool[p]) : cache_pool[p][i] \in Home[p] \ Heap
                      /\ \A b \in Home[p] :
                           \/ \E i \in 1 .. Len(cache_pool[p]) : cache_pool[p][i] = b
                           \/ cache_size[b] = p /\ (b \in Heap \/ InHand(b))
    BY DEF PoolsConserved
  <2>1. \A i \in 1 .. Len(cache_pool[p]) : cache_pool[p][i] \in Pooled(p)
    BY DEF Pooled
  <2>2. \A b \in Pooled(p) : b \in Home[p] \ Heap
    BY DEF SafeInv, Placed, Homes
  <2>3. \A b \in Pooled(p) : \E i \in 1 .. Len(cache_pool[p]) : cache_pool[p][i] = b
    BY DEF Pooled
  <2>4. \A b : Popped(b) => InHand(b)
    BY DEF Popped, InHand
  <2>5. \A i, k \in 1 .. Len(cache_pool[p]) : cache_pool[p][i] = cache_pool[p][k] => i = k
    BY DEF SafeInv, Placed
  <2>6. \A b \in Home[p] :
          b \in Pooled(p) \/ (cache_size[b] = p /\ (b \in Heap \/ Popped(b)))
    BY DEF Homes
  <2> QED
    BY <2>1, <2>2, <2>3, <2>4, <2>5, <2>6
<1> QED
  BY <1>1, SafeInvariant, HomesInvariant, PTL

(***************************************************************************)
(* The sizes that decide about the next collection.                        *)
(***************************************************************************)
\* MEM_MAX doubled k times is a number, and one that is at least k unless
\* MEM_MAX is zero.
LEMMA DoubledIs ==
  /\ Doubled \in [Nat -> Nat] /\ Doubled[0] = MEM_MAX
  /\ \A k \in Nat : Doubled[k + 1] = 2 * Doubled[k]
<1> DEFINE IsTable(g, n) == /\ g \in [0 .. n -> Nat] /\ g[0] = MEM_MAX
                            /\ \A i \in 1 .. n : g[i] = 2 * g[i - 1]
<1>1. \A n \in Nat : \E g : IsTable(g, n)
  <2> SUFFICES ASSUME NEW n \in Nat PROVE \E g : IsTable(g, n)
    OBVIOUS
  <2> DEFINE step == [x \in Nat \X (1 .. n) |-> 2 * x[1]]
  <2>1. step \in [Nat \X (1 .. n) -> Nat] /\ MEM_MAX \in Nat
    BY NumbersAssumption
  <2>2. \A x \in Nat, i \in 1 .. n : step[<<x, i>>] = 2 * x
    OBVIOUS
  <2> HIDE DEF step
  <2>3. PICK g \in [0 .. n -> Nat] : g[0] = MEM_MAX /\ \A i \in 1 .. n : g[i] = step[<<g[i - 1], i>>]
    <3> DEFINE V == Nat
               c == MEM_MAX
               m == n
    <3>1. m \in Nat /\ c \in V /\ step \in [V \X (1 .. m) -> V]
      BY <2>1
    <3> HIDE DEF V, c, m
    <3>2. \E g \in [0 .. m -> V] : g[0] = c /\ \A i \in 1 .. m : g[i] = step[<<g[i - 1], i>>]
      BY ONLY <3>1, Recursion
    <3> QED
      BY <3>2 DEF V, c, m
  <2>4. \A i \in 1 .. n : g[i] = 2 * g[i - 1]
    <3>1. \A i \in 1 .. n : g[i - 1] \in Nat
      OBVIOUS
    <3> QED
      BY <2>2, <2>3, <3>1
  <2> QED
    BY <2>3, <2>4
<1>2. ASSUME NEW g, NEW h, NEW n \in Nat, NEW m \in Nat, IsTable(g, n), IsTable(h, m), n <= m
      PROVE  \A i \in 0 .. n : g[i] = h[i]
  <2> DEFINE H == {i \in 0 .. n : g[i] = h[i]}
  <2>1. 0 \in H /\ H \in SUBSET (0 .. n)
    BY <1>2
  <2>2. ASSUME NEW i \in 1 .. n, i - 1 \in H PROVE i \in H
    BY <1>2, <2>2
  <2>3. H = 0 .. n
    <3> HIDE DEF H
    <3> QED
      BY <2>1, <2>2, UpTo
  <2> QED
    BY <2>3
<1> DEFINE T(n) == CHOOSE g : IsTable(g, n)
           D == [n \in Nat |-> T(n)[n]]
<1>3. \A n \in Nat : IsTable(T(n), n)
  <2> HIDE DEF IsTable
  <2> QED
    BY <1>1
<1>4. D \in [Nat -> Nat] /\ D[0] = MEM_MAX /\ \A k \in Nat : D[k + 1] = 2 * D[k]
  <2> HIDE DEF T
  <2>1. \A n \in Nat : T(n)[n] \in Nat
    BY <1>3
  <2>2. D[0] = MEM_MAX
    BY <1>3
  <2>3. ASSUME NEW k \in Nat PROVE D[k + 1] = 2 * D[k]
    <3>1. T(k + 1)[k + 1] = 2 * T(k + 1)[k]
      <4>1. k + 1 \in 1 .. k + 1 /\ (k + 1) - 1 = k /\ k + 1 \in Nat
        OBVIOUS
      <4> QED
        BY <1>3, <4>1
    <3>2. T(k)[k] = T(k + 1)[k]
      <4>1. k + 1 \in Nat /\ k <= k + 1 /\ k \in 0 .. k
        OBVIOUS
      <4>2. IsTable(T(k), k) /\ IsTable(T(k + 1), k + 1)
        BY <1>3, <4>1
      <4> HIDE DEF IsTable
      <4> QED
        BY <1>2, <4>1, <4>2
    <3> QED
      BY <3>1, <3>2
  <2> QED
    BY <2>1, <2>2, <2>3
<1>5. D = [k \in Nat |-> IF k = 0 THEN MEM_MAX ELSE 2 * D[k - 1]]
  <2> HIDE DEF D
  <2>1. ASSUME NEW k \in Nat PROVE D[k] = IF k = 0 THEN MEM_MAX ELSE 2 * D[k - 1]
    <3>1. CASE k = 0
      BY <1>4, <3>1
    <3>2. CASE k # 0
      <4>1. k - 1 \in Nat /\ (k - 1) + 1 = k
        BY <3>2
      <4> QED
        BY <1>4, <3>2, <4>1
    <3> QED
      BY <3>1, <3>2
  <2> QED
    BY <1>4, <2>1
<1>6. Doubled = [k \in Nat |-> IF k = 0 THEN MEM_MAX ELSE 2 * Doubled[k - 1]]
  <2> HIDE DEF D
  <2> QED
    BY <1>5 DEF Doubled
<1>7. Doubled = D
  <2> HIDE DEF D
  <2>1. ASSUME NEW n \in Nat PROVE Doubled[n] = D[n]
    <3> DEFINE H == {i \in 0 .. n : Doubled[i] = D[i]}
    <3>1. 0 \in H /\ H \in SUBSET (0 .. n)
      BY <1>4, <1>6
    <3>2. ASSUME NEW i \in 1 .. n, i - 1 \in H PROVE i \in H
      BY <1>5, <1>6, <3>2
    <3>3. H = 0 .. n
      <4> HIDE DEF H
      <4> QED
        BY <3>1, <3>2, UpTo
    <3> QED
      BY <3>3
  <2>2. Doubled = [k \in Nat |-> Doubled[k]] /\ D = [k \in Nat |-> D[k]]
    BY <1>4, <1>6
  <2> QED
    BY <2>1, <2>2
<1> QED
  <2> HIDE DEF D
  <2> QED
    BY <1>4, <1>7

LEMMA DoubledGrows ==
  ASSUME NEW k \in Nat
  PROVE  Doubled[k] >= MEM_MAX /\ (k <= Doubled[k] \/ (MEM_MAX = 0 /\ Doubled[k] = 0))
<1> DEFINE H == {i \in 0 .. k : /\ Doubled[i] >= MEM_MAX
                                /\ MEM_MAX > 0 => i + 1 <= Doubled[i]
                                /\ MEM_MAX = 0 => Doubled[i] = 0}
<1>1. 0 \in H /\ H \in SUBSET (0 .. k)
  BY DoubledIs, NumbersAssumption
<1>2. ASSUME NEW i \in 1 .. k, i - 1 \in H PROVE i \in H
  <2>1. PICK d \in Nat : d = Doubled[i - 1] /\ Doubled[i] = 2 * d
    <3>1. i - 1 \in Nat /\ (i - 1) + 1 = i
      OBVIOUS
    <3> QED
      BY <3>1, DoubledIs
  <2> QED
    BY <1>2, <2>1, NumbersAssumption
<1>3. H = 0 .. k
  <2> HIDE DEF H
  <2> QED
    BY <1>1, <1>2, UpTo
<1>4. k \in H
  <2> HIDE DEF H
  <2> QED
    BY <1>3
<1> QED
  BY <1>4, DoubledIs, NumbersAssumption

Threshold == \E k \in Nat : mem_max_size = Doubled[k]

LEMMA NextThreshold ==
  ASSUME Threshold, [Next]_vars
  PROVE  Threshold'
<1> USE DEF sizeVars
<1>1. ASSUME NEW t \in Threads, Execute(t) \/ AllocateStep(t) PROVE mem_max_size' = mem_max_size
  BY <1>1, ExecuteFrame
  DEF AllocateStep, TryLock, JoinCollector, TakeTop, PopTop, Calloc, Record, Finish
<1>2. ASSUME NEW m \in Markers, MarkerStep(m) PROVE mem_max_size' = mem_max_size
  BY <1>2, MarkerFrame
<1>3. ASSUME CollectorStep, ~ FinishSweep PROVE mem_max_size' = mem_max_size
  BY <1>3 DEF CollectorStep, SortAndSpawn, JoinMarkers, LockAllocated, KeepBlock, FreeBlock
<1>4. ASSUME FinishSweep PROVE Threshold'
  <2>1. PICK k \in Nat : mem_max_size = Doubled[k]
    BY DEF Threshold
  <2>2. CASE mem_max_size' = mem_max_size
    BY <2>1, <2>2 DEF Threshold
  <2>3. CASE mem_max_size' = mem_max_size * 4
    <3>1. k + 1 \in Nat /\ k + 2 \in Nat /\ (k + 1) + 1 = k + 2
      OBVIOUS
    <3>2. PICK d \in Nat : d = Doubled[k]
      BY DoubledIs
    <3>3. Doubled[k + 1] = 2 * d /\ Doubled[k + 2] = 2 * (2 * d)
      BY <3>1, <3>2, DoubledIs
    <3>4. mem_max_size' = Doubled[k + 2]
      BY <2>1, <2>3, <3>2, <3>3
    <3> QED
      BY <3>1, <3>4 DEF Threshold
  <2>4. CASE mem_max_size # MEM_MAX /\ mem_max_size' = mem_max_size \div 2
    <3>1. k # 0
      BY <2>1, <2>4, DoubledIs
    <3>2. k - 1 \in Nat /\ (k - 1) + 1 = k
      BY <3>1
    <3>3. PICK d \in Nat : d = Doubled[k - 1]
      BY <3>2, DoubledIs
    <3>4. mem_max_size = 2 * d
      BY <2>1, <3>2, <3>3, DoubledIs
    <3>5. mem_max_size' = d
      BY <2>4, <3>4
    <3> QED
      BY <3>2, <3>3, <3>5 DEF Threshold
  <2> QED
    BY <1>4, <2>2, <2>3, <2>4 DEF FinishSweep
<1>5. ASSUME UNCHANGED vars PROVE mem_max_size' = mem_max_size
  BY <1>5 DEF vars
<1> QED
  BY <1>1, <1>2, <1>3, <1>4, <1>5 DEF Next, Threshold

\* The blocks of the heap that are of one kind, and what they were charged.
OfKind(k) == {b \in Heap : kind[b] = k}
Charge(k) == AllocSize(k) * Cardinality(OfKind(k))

\* The heap is finite and charged for, its headers name what was asked for, and
\* so does that of a block about to be recorded.
Accounted ==
  /\ IsFiniteSet(Heap) /\ AllocationAccounted
  /\ \A b \in Heap : kind[b] \in Kinds
  /\ \A t \in Threads : pc[t] = "record" => kind[blk[t]] = JobKind(job[t])

LEMMA SizesAre ==
  ASSUME SizeFactor = 1, NEW k \in Kinds
  PROVE  AllocSize(k) \in Nat /\ SweptSize(k) = AllocSize(k)
BY NumbersAssumption DEF AllocSize, SweptSize, Kinds

LEMMA AccountIs ==
  AllocationAccounted <=>
    allocation_size = Charge("object") + Charge("obj_array") + Charge("prim_array")
BY DEF AllocationAccounted, Charge, OfKind

\* The same heap with the same headers is charged the same.
LEMMA AccountStays ==
  ASSUME Accounted, UNCHANGED allocation_size, Heap' = Heap, \A b \in Heap : kind'[b] = kind[b]
  PROVE  AllocationAccounted' /\ IsFiniteSet(Heap)' /\ \A b \in Heap' : kind'[b] \in Kinds
<1>1. \A k : OfKind(k)' = OfKind(k)
  BY DEF OfKind
<1>2. \A k : Charge(k)' = Charge(k)
  BY <1>1 DEF Charge, AllocSize
<1>3. Charge("object")' = Charge("object") /\ Charge("obj_array")' = Charge("obj_array")
      /\ Charge("prim_array")' = Charge("prim_array")
  BY <1>2
<1> QED
  BY <1>3, AccountIs DEF Accounted, AllocationAccounted, Charge, OfKind, AllocSize

\* One block more or one less of a kind.
LEMMA OneMore ==
  ASSUME NEW a \in Nat, NEW S, IsFiniteSet(S), NEW x, x \notin S
  PROVE  /\ a * Cardinality(S \cup {x}) = a * Cardinality(S) + a
         /\ a * Cardinality(S) \in Nat
<1>1. PICK n \in Nat : n = Cardinality(S)
  BY FS_CardinalityType
<1>2. Cardinality(S \cup {x}) = n + 1
  BY <1>1, FS_AddElement
<1>3. a * (n + 1) = a * n + a /\ a * n \in Nat
  OBVIOUS
<1> QED
  BY <1>1, <1>2, <1>3

LEMMA NextAccounted ==
  ASSUME OneThread, SizeFactor = 1, BaseInv, SafeInv, Accounted, Next
  PROVE  Accounted'
<1> /\ kind \in [Blocks -> Kinds \cup {None}] /\ blk \in [Threads -> Refs] /\ Heap \subseteq Blocks
    /\ allocation_size \in Int /\ heap_free \subseteq Blocks
  BY DEF BaseInv, TypeOK, Heap
<1> /\ {"object", "obj_array", "prim_array"} = Kinds
  BY DEF Kinds
\* A step that changes neither the heap nor the headers of its blocks.
<1>1. ASSUME UNCHANGED allocation_size, Heap' = Heap, \A b \in Heap : kind'[b] = kind[b],
             \A t \in Threads : pc'[t] = "record" => kind'[blk'[t]] = JobKind(job'[t])
      PROVE  Accounted'
  BY <1>1, AccountStays DEF Accounted
<1>2. ASSUME NEW t \in Threads, Execute(t) PROVE Accounted'
  <2>1. /\ UNCHANGED <<storeVars, gcVars, sizeVars, kind>> /\ pc'[t] # "record"
        /\ \A u \in Threads : u = t
    BY <1>2, ExecuteFrame, ExecuteIdle
  <2> QED
    BY <1>1, <2>1 DEF Heap, storeVars, gcVars, sizeVars
<1>3. ASSUME NEW t \in Threads, TryLock(t) \/ JoinCollector(t) \/ TakeTop(t) \/ Finish(t)
      PROVE  Accounted'
  <2>1. /\ UNCHANGED <<kind, storeVars, sizeVars, live_memory, unswept>>
        /\ cpc # "sweep" /\ cpc' # "sweep"
    BY <1>3, AllocateIdle DEF AllocateStep, TryLock, JoinCollector, TakeTop, Finish, gcVars, heapVars
  <2>2. Heap' = Heap
    BY <2>1 DEF storeVars, Heap
  <2>3. \A u \in Threads : u = t /\ pc'[u] # "record"
    <3>1. pc'[t] # "record"
      BY <1>3 DEF TryLock, JoinCollector, TakeTop, Finish, Checked, BaseInv, TypeOK
    <3> QED
      BY <3>1 DEF OneThread
  <2> QED
    BY <1>1, <2>1, <2>2, <2>3 DEF sizeVars
<1>4. ASSUME NEW t \in Threads, PopTop(t) PROVE Accounted'
  <2>1. /\ PoolOf[JobKind(job[t])] \in Pools /\ cache_pool[PoolOf[JobKind(job[t])]] # <<>>
        /\ blk[t] = cache_pool[PoolOf[JobKind(job[t])]][Len(cache_pool[PoolOf[JobKind(job[t])]])]
    BY <1>4 DEF PopTop, SafeInv, InHands
  <2>2. blk[t] \in Pooled(PoolOf[JobKind(job[t])]) /\ blk[t] \in Blocks
    BY <2>1, TopInPool
  <2>3. blk[t] \notin Heap
    BY <2>1, <2>2 DEF SafeInv, Placed
  <2>4. /\ UNCHANGED <<allocated_memory, gcVars, sizeVars, blk, job>>
        /\ kind' = [kind EXCEPT ![blk[t]] = JobKind(job[t])]
    BY <1>4 DEF PopTop
  <2>5. \A u \in Threads : u = t
    BY DEF OneThread
  <2> QED
    BY <1>1, <2>2, <2>3, <2>4, <2>5 DEF Heap, gcVars, sizeVars
<1>5. ASSUME NEW t \in Threads, NEW b \in Blocks, Calloc(t, b) PROVE Accounted'
  <2>1. /\ UNCHANGED <<allocated_memory, gcVars, sizeVars, job>> /\ b \in heap_free
        /\ kind' = [kind EXCEPT ![b] = JobKind(job[t])]
        /\ blk' = [blk EXCEPT ![t] = b]
    BY <1>5 DEF Calloc
  <2>2. b \notin Heap
    BY <2>1 DEF SafeInv, Placed
  <2>3. \A u \in Threads : u = t
    BY DEF OneThread
  <2> QED
    BY <1>1, <2>1, <2>2, <2>3 DEF Heap, gcVars, sizeVars
<1>6. ASSUME NEW t \in Threads, Record(t) PROVE Accounted'
  <2> DEFINE x == blk[t]
             j == JobKind(job[t])
  <2>1. /\ UNCHANGED <<heapVars, gcVars>> /\ cpc # "sweep"
        /\ allocated_memory' = allocated_memory \cup {x}
        /\ allocation_size' = allocation_size + AllocSize(j)
        /\ pc[t] = "record" /\ pc'[t] = "finish"
    BY <1>6, AllocateIdle DEF Record, AllocateStep, JoinCollector, BaseInv, TypeOK
  <2>2. Heap' = Heap \cup {x} /\ kind' = kind
    BY <2>1 DEF Heap, gcVars, heapVars
  <2>3. x \notin Heap /\ kind[x] = j /\ j \in Kinds
    BY <2>1, JobKindType DEF SafeInv, InHands, Accounted
  <2>4. ASSUME NEW k \in Kinds
        PROVE  Charge(k)' = Charge(k) + (IF k = j THEN AllocSize(k) ELSE 0) /\ Charge(k) \in Nat
    <3>1. OfKind(k)' = IF k = j THEN OfKind(k) \cup {x} ELSE OfKind(k)
      BY <2>2, <2>3 DEF OfKind
    <3>2. x \notin OfKind(k) /\ IsFiniteSet(OfKind(k))
      <4>1. OfKind(k) \in SUBSET Heap /\ IsFiniteSet(Heap)
        BY DEF OfKind, Accounted
      <4> QED
        BY <2>3, <4>1, FS_Subset
    <3>3. PICK S : S = OfKind(k)
      OBVIOUS
    <3>4. PICK a \in Nat : a = AllocSize(k) /\ AllocSize(k)' = a
      BY SizesAre DEF AllocSize
    <3>5. a * Cardinality(S \cup {x}) = a * Cardinality(S) + a /\ a * Cardinality(S) \in Nat
      <4>1. a \in Nat /\ IsFiniteSet(S) /\ x \notin S
        BY <3>2, <3>3
      <4> HIDE DEF x
      <4> QED
        BY ONLY <4>1, OneMore
    <3>6. Charge(k) = a * Cardinality(S)
      BY <3>3, <3>4 DEF Charge
    <3>7. Charge(k)' = IF k = j THEN a * Cardinality(S \cup {x}) ELSE a * Cardinality(S)
      BY <3>1, <3>3, <3>4 DEF Charge
    <3> QED
      BY <3>4, <3>5, <3>6, <3>7
  <2>5. AllocationAccounted'
    <3>1. /\ Charge("object") \in Nat /\ Charge("obj_array") \in Nat /\ Charge("prim_array") \in Nat
          /\ Charge("object")' = Charge("object") + (IF j = "object" THEN AllocSize("object") ELSE 0)
          /\ Charge("obj_array")' =
               Charge("obj_array") + (IF j = "obj_array" THEN AllocSize("obj_array") ELSE 0)
          /\ Charge("prim_array")' =
               Charge("prim_array") + (IF j = "prim_array" THEN AllocSize("prim_array") ELSE 0)
      BY <2>4
    <3>2. AllocSize("object") \in Nat /\ AllocSize("obj_array") \in Nat /\ AllocSize("prim_array") \in Nat
      BY SizesAre
    <3>3. allocation_size = Charge("object") + Charge("obj_array") + Charge("prim_array")
      BY AccountIs DEF Accounted
    <3>4. allocation_size' = (Charge("object") + Charge("obj_array") + Charge("prim_array"))'
      BY <2>1, <2>3, <3>1, <3>2, <3>3
    <3> QED
      BY <3>4 DEF AllocationAccounted, Charge, OfKind
  <2>6. IsFiniteSet(Heap)' /\ \A b \in Heap' : kind'[b] \in Kinds
    BY <2>2, <2>3, FS_AddElement DEF Accounted
  <2>7. \A u \in Threads : pc'[u] # "record"
    BY <2>1 DEF OneThread
  <2> QED
    BY <2>5, <2>6, <2>7 DEF Accounted
<1>7. ASSUME NEW m \in Markers, MarkerStep(m) PROVE Accounted'
  <2>1. UNCHANGED <<kind, allocation_size, pc, blk, job>> /\ Heap' = Heap
    BY <1>7, MarkerFrame DEF storeVars, sizeVars, threadVars, Heap
  <2> QED
    BY <1>1, <2>1 DEF Accounted
<1>8. ASSUME \/ SortAndSpawn \/ JoinMarkers \/ LockAllocated \/ FinishSweep
             \/ \E b \in Blocks : KeepBlock(b)
      PROVE  Accounted'
  <2>1. UNCHANGED <<kind, allocation_size, pc, blk, job>>
    BY <1>8 DEF SortAndSpawn, JoinMarkers, LockAllocated, FinishSweep, KeepBlock, heapVars, sizeVars,
                threadVars
  <2>2. Heap' = Heap
    BY <1>8 DEF SortAndSpawn, JoinMarkers, LockAllocated, FinishSweep, KeepBlock, storeVars, Heap,
                SafeInv, Swept
  <2> QED
    BY <1>1, <2>1, <2>2 DEF Accounted
<1>9. ASSUME NEW x \in Blocks, FreeBlock(x) PROVE Accounted'
  <2> DEFINE j == kind[x]
  <2>1. /\ x \in Heap /\ Heap' = Heap \ {x}
        /\ UNCHANGED <<pc, blk, job>> /\ kind' = [kind EXCEPT ![x] = None]
        /\ allocation_size' = allocation_size - SweptSize(j)
    BY <1>9 DEF FreeBlock, Heap, SafeInv, Swept, threadVars
  <2>2. j \in Kinds /\ SweptSize(j) = AllocSize(j)
    BY <2>1, SizesAre DEF Accounted
  <2>3. ASSUME NEW k \in Kinds
        PROVE  /\ Charge(k) = Charge(k)' + (IF k = j THEN AllocSize(k) ELSE 0)
               /\ Charge(k)' \in Nat /\ Charge(k) \in Nat
    <3>1. OfKind(k) = IF k = j THEN OfKind(k)' \cup {x} ELSE OfKind(k)'
      <4>1. CASE k = j
        BY <2>1, <4>1 DEF OfKind
      <4>2. CASE k # j
        BY <2>1, <4>2 DEF OfKind
      <4> QED
        BY <4>1, <4>2
    <3>2. x \notin OfKind(k)' /\ IsFiniteSet(OfKind(k)')
      <4>1. OfKind(k)' \in SUBSET Heap /\ IsFiniteSet(Heap)
        BY <2>1 DEF OfKind, Accounted
      <4>2. x \notin OfKind(k)'
        BY <2>1 DEF OfKind
      <4> QED
        BY <4>1, <4>2, FS_Subset
    <3>3. PICK S : S = OfKind(k)'
      OBVIOUS
    <3>4. PICK a \in Nat : a = AllocSize(k) /\ AllocSize(k)' = a
      BY SizesAre DEF AllocSize
    <3>5. a * Cardinality(S \cup {x}) = a * Cardinality(S) + a /\ a * Cardinality(S) \in Nat
      <4>1. a \in Nat /\ IsFiniteSet(S) /\ x \notin S
        BY <3>2, <3>3
      <4> QED
        BY ONLY <4>1, OneMore
    <3>6. Charge(k)' = a * Cardinality(S)
      BY <3>3, <3>4 DEF Charge
    <3>7. Charge(k) = IF k = j THEN a * Cardinality(S \cup {x}) ELSE a * Cardinality(S)
      BY <3>1, <3>3, <3>4 DEF Charge
    <3> QED
      BY <3>4, <3>5, <3>6, <3>7
  <2>4. AllocationAccounted'
    <3>1. /\ Charge("object")' \in Nat /\ Charge("obj_array")' \in Nat /\ Charge("prim_array")' \in Nat
          /\ Charge("object") = Charge("object")' + (IF j = "object" THEN AllocSize("object") ELSE 0)
          /\ Charge("obj_array") =
               Charge("obj_array")' + (IF j = "obj_array" THEN AllocSize("obj_array") ELSE 0)
          /\ Charge("prim_array") =
               Charge("prim_array")' + (IF j = "prim_array" THEN AllocSize("prim_array") ELSE 0)
      BY <2>3
    <3>2. AllocSize("object") \in Nat /\ AllocSize("obj_array") \in Nat /\ AllocSize("prim_array") \in Nat
      BY SizesAre
    <3>3. allocation_size = Charge("object") + Charge("obj_array") + Charge("prim_array")
      BY AccountIs DEF Accounted
    <3>4. allocation_size' = (Charge("object") + Charge("obj_array") + Charge("prim_array"))'
      <4>1. j = "object" \/ j = "obj_array" \/ j = "prim_array"
        BY <2>2 DEF Kinds
      <4> HIDE DEF j
      <4> QED
        BY <2>1, <2>2, <3>1, <3>2, <3>3, <4>1
    <3> QED
      BY <3>4 DEF AllocationAccounted, Charge, OfKind
  <2>5. IsFiniteSet(Heap)' /\ \A b \in Heap' : kind'[b] \in Kinds
    BY <2>1, FS_RemoveElement DEF Accounted
  <2>6. \A u \in Threads : pc'[u] # "record"
    <3>1. cpc # "idle"
      BY <1>9 DEF FreeBlock
    <3> QED
      BY <2>1, <3>1, Paused
  <2> QED
    BY <2>4, <2>5, <2>6 DEF Accounted
<1> QED
  BY <1>2, <1>3, <1>4, <1>5, <1>6, <1>7, <1>8, <1>9
  DEF Next, AllocateStep, CollectorStep

LEMMA InitSizes == Init => Threshold /\ Accounted
<1> SUFFICES ASSUME Init PROVE Threshold /\ Accounted
  OBVIOUS
<1>1. Threshold
  BY DoubledIs DEF Init, Threshold
<1>2. Heap = {} /\ IsFiniteSet(Heap)
  BY FS_EmptySet DEF Init, Heap
<1>3. \A k : OfKind(k) = {}
  BY <1>2 DEF OfKind
<1>4. \A a \in Nat : a * Cardinality({}) = 0
  <2>1. Cardinality({}) = 0
    BY FS_EmptySet
  <2> QED
    BY <2>1
<1>5. Charge("object") = 0 /\ Charge("obj_array") = 0 /\ Charge("prim_array") = 0
  <2>1. AllocSize("object") \in Nat /\ AllocSize("obj_array") \in Nat /\ AllocSize("prim_array") \in Nat
    BY NumbersAssumption DEF AllocSize, Kinds
  <2> QED
    BY <1>3, <1>4, <2>1 DEF Charge
<1>6. AllocationAccounted
  BY <1>5, AccountIs DEF Init
<1> QED
  BY <1>1, <1>2, <1>6 DEF Init, Accounted

\* What decides when the next collection starts agrees with the heap: the
\* bytes counted are those the blocks in it were charged, and the threshold,
\* raised and lowered by shifts, is MEM_MAX doubled some number of times.
\* Stated of builds without _X64, which charge what they give back.
THEOREM SizesAreKept ==
  ASSUME OneThread, SizeFactor = 1
  PROVE  Spec => []SizesKept
<1>1. BaseInv /\ SafeInv /\ Accounted /\ [Next]_vars => Accounted'
  <2>1. ASSUME Accounted, UNCHANGED vars PROVE Accounted'
    <3>1. UNCHANGED <<allocation_size, Heap, kind, pc, blk, job>>
      BY <2>1 DEF vars, heapVars, storeVars, threadVars, gcVars, sizeVars, Heap
    <3>2. AllocationAccounted' /\ IsFiniteSet(Heap)' /\ \A b \in Heap' : kind'[b] \in Kinds
      BY <2>1, <3>1, AccountStays
    <3> QED
      BY <2>1, <3>1, <3>2 DEF Accounted
  <2> QED
    BY <2>1, NextAccounted
<1>2. Threshold /\ Accounted => SizesKept
  <2> SUFFICES ASSUME Threshold, Accounted PROVE ThresholdKept
    BY DEF SizesKept, Accounted
  <2>1. PICK k \in Nat : mem_max_size = Doubled[k]
    BY DEF Threshold
  <2>2. PICK d \in Nat : d = Doubled[k]
    BY DoubledIs
  <2>3. CASE k <= d
    <3>1. k \in 0 .. mem_max_size
      BY <2>1, <2>2, <2>3
    <3> QED
      BY <2>1, <3>1 DEF ThresholdKept
  <2>4. CASE MEM_MAX = 0 /\ d = 0
    <3>1. 0 \in 0 .. mem_max_size /\ mem_max_size = Doubled[0]
      BY <2>1, <2>2, <2>4, DoubledIs
    <3> QED
      BY <3>1 DEF ThresholdKept
  <2> QED
    BY <2>2, <2>3, <2>4, DoubledGrows
<1> QED
  BY <1>1, <1>2, InitSizes, NextThreshold, SafeInvariant, PTL DEF Spec

(***************************************************************************)
(* The memory manager implements ReclaimedHeap.                            *)
(***************************************************************************)
\* The blocks block b refers to.
Points(b) == {mem[s] : s \in RefSlots(b)} \ {Nil}

LEMMA SeenIs ==
  ASSUME NEW C
  PROVE  Seen \subseteq C <=>
           /\ \A s \in LiveRoots : mem[s] \in C \cup {Nil}
           /\ \A t \in Threads : scratch[t] \in C \cup {Nil}
           /\ \A t \in Threads : pc[t] = "finish" => blk[t] \in C \cup {Nil}
BY DEF Seen

LEMMA PointsIs ==
  ASSUME NEW C, NEW b
  PROVE  Points(b) \subseteq C <=> \A s \in RefSlots(b) : mem[s] \in C \cup {Nil}
BY DEF Points

\* The program sees survivors only, and so does what it can reach.
LEMMA ReachableIs ==
  ASSUME NoDangling
  PROVE  /\ Program_!Reachable \subseteq Survivors
         /\ Seen \subseteq Program_!Reachable
         /\ \A b \in Program_!Reachable : Points(b) \subseteq Program_!Reachable
<1>1. \A C \in SUBSET Survivors :
        Program_!Closed(C) <=> Seen \subseteq C /\ \A b \in C : Points(b) \subseteq C
  BY DEF Program_!Closed, Points
<1>2. Program_!Reachable = {b \in Survivors : \A C \in SUBSET Survivors : Program_!Closed(C) => b \in C}
  BY DEF Program_!Reachable
<1>3. Seen \subseteq Survivors
  BY SeenIs DEF NoDangling
<1>4. \A b \in Survivors : Points(b) \subseteq Survivors
  BY PointsIs DEF NoDangling
<1>5. Seen \subseteq Program_!Reachable
  BY <1>1, <1>2, <1>3
<1>6. ASSUME NEW b \in Program_!Reachable, NEW c \in Points(b) PROVE c \in Program_!Reachable
  <2>1. b \in Survivors /\ c \in Survivors
    BY <1>2, <1>4
  <2>2. \A C \in SUBSET Survivors : Program_!Closed(C) => b \in C
    BY <1>2
  <2>3. \A C \in SUBSET Survivors : Program_!Closed(C) => c \in C
    BY <1>1, <2>2
  <2> QED
    BY <1>2, <2>1, <2>3
<1> QED
  BY <1>2, <1>5, <1>6

\* A step of which the program sees nothing.
LEMMA UnseenStep ==
  ASSUME Survivors' = Survivors, LiveRoots' = LiveRoots,
         \A s \in LiveRoots : mem'[s] = mem[s], scratch' = scratch,
         \A t \in Threads : pc[t] # "finish" /\ pc'[t] # "finish",
         \A b \in Survivors : RefSlots(b)' = RefSlots(b),
         \A b \in Survivors : \A s \in RefSlots(b) : mem'[s] = mem[s]
  PROVE  UNCHANGED Program_!vars
<1>1. \A b \in Survivors : Points(b)' = Points(b)
  BY DEF Points
<1>2. Seen' = Seen
  BY DEF Seen
<1> QED
  BY <1>1, <1>2 DEF Program_!vars, Points

\* A step of the program: it has what it could reach, and what is new.
LEMMA SeenStep ==
  ASSUME NEW Known, Known = Program_!Reachable \cup (Survivors' \ Survivors),
         Survivors \subseteq Survivors', Survivors' \subseteq Blocks,
         Seen' \subseteq Known,
         \A b \in Survivors' :
           Points(b)' \subseteq Known \cup (IF b \in Survivors THEN Points(b) ELSE {})
  PROVE  Program_!Run
BY DEF Program_!Run, Points

LEMMA ExecuteRuns ==
  ASSUME OneThread, BaseInv, SafeInv, NEW t \in Threads, Execute(t)
  PROVE  Program_!Run
<1>1. /\ cpc = "idle" /\ UNCHANGED <<kind, cpc, allocated_memory, marked_memory>>
      /\ \A u \in Threads : pc'[u] # "finish"
  BY ExecuteIdle, ExecuteFrame DEF storeVars, gcVars
<1>2. Survivors \subseteq Blocks /\ Survivors' = Survivors
  BY <1>1 DEF Survivors, BaseInv, TypeOK
<1>3. PICK Known : Known = Program_!Reachable \cup (Survivors' \ Survivors)
  OBVIOUS
<1>4. Seen \subseteq Known /\ Known \subseteq Survivors /\ \A b \in Known : Points(b) \subseteq Known
  BY <1>2, <1>3, ReachableIs DEF SafeInv
<1>5. PICK Good : Good = Known \cup {Nil}
  OBVIOUS
<1>6. /\ Nil \in Good /\ \A s \in LiveRoots : mem[s] \in Good
      /\ \A u \in Threads : scratch[u] \in Good
      /\ \A b \in Good \ {Nil} : \A s \in RefSlots(b) : mem[s] \in Good
  BY <1>4, <1>5, SeenIs, PointsIs
<1>7. /\ \A s \in Slots : mem'[s] \in Good \cup {mem[s]}
      /\ \A s \in LiveRoots' : s \in Slots /\ mem'[s] \in Good
      /\ \A u \in Threads : scratch'[u] \in Good
  BY <1>6, ExecuteMoves DEF SafeInv
<1>8. Seen' \subseteq Known
  BY <1>1, <1>5, <1>7 DEF Seen
<1>9. ASSUME NEW b \in Survivors' PROVE Points(b)' \subseteq Known \cup Points(b)
  <2>1. RefSlots(b)' = RefSlots(b) /\ RefSlots(b) \subseteq Slots
    BY <1>1, <1>2, RefSlotsAreSlots DEF RefSlots, FieldSlots
  <2> QED
    BY <1>5, <1>7, <2>1 DEF Points
<1> QED
  BY <1>2, <1>3, <1>8, <1>9, SeenStep

LEMMA AllocateRuns ==
  ASSUME OneThread, BaseInv, SafeInv, NEW t \in Threads, AllocateStep(t)
  PROVE  Program_!Run \/ UNCHANGED Program_!vars
<1> /\ mem \in [Slots -> Refs] /\ stack_pos \in [Threads -> 0 .. StackDepth]
    /\ scratch \in [Threads -> Refs] /\ pda_monitors \subseteq Threads
    /\ blk \in [Threads -> Refs] /\ pc \in [Threads -> ThreadPCs]
    /\ kind \in [Blocks -> Kinds \cup {None}] /\ allocated_memory \subseteq Blocks
  BY DEF BaseInv, TypeOK
<1>1. /\ UNCHANGED <<jit_roots, pda_monitors, marked_memory>> /\ \A u \in Threads : u = t
      /\ cpc # "sweep" /\ cpc' # "sweep"
  BY AllocateFrame, AllocateIdle
<1>2. Survivors = allocated_memory /\ Survivors' = allocated_memory' /\ Heap = allocated_memory
  BY <1>1 DEF Survivors, Heap
<1>3. ASSUME UNCHANGED stack_pos PROVE LiveRoots' = LiveRoots
  BY <1>1, <1>3 DEF LiveRoots, LocalSlots, LiveOpSlots, StaticSlots, TypedJitSlots, TempJitSlots
<1>4. CASE TryLock(t) \/ JoinCollector(t) \/ TakeTop(t)
  <2>1. /\ UNCHANGED <<mem, kind, allocated_memory, stack_pos, scratch>>
        /\ pc[t] # "finish" /\ pc'[t] # "finish"
    BY <1>4 DEF TryLock, JoinCollector, TakeTop, heapVars, storeVars, rootVars
  <2>2. \A b : RefSlots(b)' = RefSlots(b)
    BY <2>1 DEF RefSlots, FieldSlots
  <2> QED
    BY <1>1, <1>2, <1>3, <2>1, <2>2, UnseenStep
<1>5. CASE PopTop(t) \/ \E b \in Blocks : Calloc(t, b)
  <2>1. /\ UNCHANGED <<allocated_memory, stack_pos, scratch>>
        /\ pc[t] # "finish" /\ pc'[t] # "finish"
    BY <1>5 DEF PopTop, Calloc, rootVars
  <2>2. PICK b \in Blocks : /\ b \notin allocated_memory
                            /\ \A d \in Blocks : d # b => kind'[d] = kind[d]
                            /\ \A s \in Slots : s \notin FieldSlots(b) => mem'[s] = mem[s]
    <3>1. CASE PopTop(t)
      <4>1. PICK p \in Pools : p = PoolOf[JobKind(job[t])]
        BY <3>1 DEF PopTop, SafeInv, InHands
      <4>2. blk[t] \in Pooled(p) /\ blk[t] \in Blocks
        BY <3>1, <4>1, TopInPool DEF PopTop, SafeInv, InHands
      <4>3. blk[t] \notin allocated_memory
        BY <1>2, <4>2 DEF SafeInv, Placed
      <4> QED
        BY <3>1, <4>2, <4>3 DEF PopTop
    <3>2. CASE \E b \in Blocks : Calloc(t, b)
      BY <1>2, <3>2 DEF Calloc, SafeInv, Placed
    <3> QED
      BY <1>5, <3>1, <3>2
  <2>3. \A d \in allocated_memory : RefSlots(d)' = RefSlots(d) /\ RefSlots(d) \subseteq Slots
    BY <2>2, RefSlotsAreSlots DEF RefSlots, FieldSlots
  <2>4. \A d \in allocated_memory : \A s \in RefSlots(d) : s \notin FieldSlots(b)
    BY <2>2 DEF RefSlots, FieldSlots
  <2>5. \A s \in LiveRoots : s \in Slots /\ s \notin FieldSlots(b)
    BY SetsAssumption DEF LiveRoots, FieldSlots, StaticSlots, LocalSlots, LiveOpSlots,
                          TypedJitSlots, TempJitSlots
  <2>6. \A s \in LiveRoots : mem'[s] = mem[s]
    BY <2>2, <2>5
  <2>7. \A d \in allocated_memory : \A s \in RefSlots(d) : mem'[s] = mem[s]
    BY <2>2, <2>3, <2>4
  <2> QED
    BY <1>1, <1>2, <1>3, <2>1, <2>3, <2>6, <2>7, UnseenStep
<1>6. CASE Record(t)
  <2>1. /\ UNCHANGED <<mem, kind, stack_pos, scratch, blk>> /\ pc[t] = "record"
        /\ allocated_memory' = allocated_memory \cup {blk[t]}
        /\ blk[t] \in Blocks /\ blk[t] \notin allocated_memory /\ NoFields(blk[t])
    BY <1>2, <1>6 DEF Record, heapVars, rootVars, SafeInv, InHands, BaseInv, Allocating
  <2>2. \A b : RefSlots(b)' = RefSlots(b) /\ Points(b)' = Points(b)
    BY <2>1 DEF RefSlots, FieldSlots, Points
  <2>3. Points(blk[t]) = {}
    BY <2>1 DEF Points, RefSlots, FieldSlots, NoFields
  <2>4. PICK Known : Known = Program_!Reachable \cup (Survivors' \ Survivors)
    OBVIOUS
  <2>5. blk[t] \in Known /\ Seen \subseteq Known
    BY <1>2, <2>1, <2>4, ReachableIs DEF SafeInv
  <2>6. Seen' \subseteq Seen \cup {blk[t]}
    BY <1>1, <1>3, <2>1 DEF Seen
  <2>7. \A b \in Survivors' :
          Points(b)' \subseteq Known \cup (IF b \in Survivors THEN Points(b) ELSE {})
    BY <1>2, <2>1, <2>2, <2>3
  <2>8. Seen' \subseteq Known
    BY <2>5, <2>6
  <2>9. Survivors \subseteq Survivors' /\ Survivors' \subseteq Blocks
    BY <1>2, <2>1
  <2> QED
    BY <2>4, <2>7, <2>8, <2>9, SeenStep
<1>7. CASE Finish(t)
  <2>1. /\ UNCHANGED <<kind, allocated_memory>> /\ pc[t] = "finish" /\ pc'[t] # "finish"
    BY <1>7 DEF Finish, storeVars, Checked
  <2>2. Survivors' = Survivors /\ Survivors \subseteq Blocks
    BY <1>2, <2>1
  <2>3. PICK Known : Known = Program_!Reachable \cup (Survivors' \ Survivors)
    OBVIOUS
  <2>4. Seen \subseteq Known
    BY <2>3, ReachableIs DEF SafeInv
  <2>5. PICK Good : Good = Known \cup {Nil}
    OBVIOUS
  <2>6. /\ Nil \in Good /\ \A s \in LiveRoots : mem[s] \in Good
        /\ scratch[t] \in Good /\ blk[t] \in Good
    BY <2>1, <2>4, <2>5, SeenIs
  <2>7. /\ \A s \in Slots : mem'[s] \in Good \cup {mem[s]}
        /\ \A s \in LiveRoots' : s \in Slots /\ mem'[s] \in Good
        /\ \A u \in Threads : scratch'[u] \in Good
    BY <1>7, <2>6, FinishMoves DEF SafeInv
  <2>8. Seen' \subseteq Known
    BY <1>1, <2>1, <2>5, <2>7 DEF Seen
  <2>9. ASSUME NEW b \in Survivors' PROVE Points(b)' \subseteq Known \cup Points(b)
    <3>1. RefSlots(b)' = RefSlots(b) /\ RefSlots(b) \subseteq Slots
      BY <2>1, <2>2, RefSlotsAreSlots DEF RefSlots, FieldSlots
    <3> QED
      BY <2>5, <2>7, <3>1 DEF Points
  <2> QED
    BY <2>2, <2>3, <2>8, <2>9, SeenStep
<1> QED
  BY <1>4, <1>5, <1>6, <1>7 DEF AllocateStep

LEMMA CollectorReclaims ==
  ASSUME OneThread, BaseInv, SafeInv, CollectorStep \/ \E m \in Markers : MarkerStep(m)
  PROVE  Program_!Reclaim \/ UNCHANGED Program_!vars
<1> /\ mem \in [Slots -> Refs] /\ kind \in [Blocks -> Kinds \cup {None}]
    /\ pda_monitors \subseteq Threads
  BY DEF BaseInv, TypeOK
<1>1. UNCHANGED <<rootVars, pc, blk, scratch>>
  BY CollectorFrame, MarkerFrame DEF threadVars
<1>2. LiveRoots' = LiveRoots /\ LiveRoots \subseteq Slots
  BY <1>1 DEF rootVars, LiveRoots, LocalSlots, LiveOpSlots, StaticSlots, TypedJitSlots,
              TempJitSlots, Slots
<1>3. \A t \in Threads : pc[t] # "finish" /\ pc'[t] # "finish"
  <2>1. cpc # "idle"
    BY MarkerPhase DEF CollectorStep, SortAndSpawn, JoinMarkers, LockAllocated, KeepBlock,
                       FreeBlock, FinishSweep
  <2> QED
    BY <1>1, <2>1, Paused
<1>4. ASSUME UNCHANGED <<mem, kind>>, Survivors' = Survivors PROVE UNCHANGED Program_!vars
  <2>1. \A b : RefSlots(b)' = RefSlots(b)
    BY <1>4 DEF RefSlots, FieldSlots
  <2> QED
    BY <1>1, <1>2, <1>3, <1>4, <2>1, UnseenStep
<1>5. CASE \E m \in Markers : MarkerStep(m)
  <2>1. UNCHANGED <<mem, kind, allocated_memory>> /\ cpc = "mark" /\ cpc' = "mark"
    BY <1>5, MarkerFrame, MarkerPhase DEF storeVars
  <2> QED
    BY <1>4, <2>1 DEF Survivors
<1>6. CASE SortAndSpawn \/ JoinMarkers \/ \E b \in Blocks : KeepBlock(b)
  <2>1. /\ UNCHANGED <<mem, kind, allocated_memory, marked_memory>>
        /\ cpc = "sweep" <=> cpc' = "sweep"
    BY <1>6 DEF SortAndSpawn, JoinMarkers, KeepBlock, heapVars, storeVars
  <2> QED
    BY <1>4, <2>1 DEF Survivors
\* The heap the program sees shrinks when the sweep begins.
<1>7. CASE LockAllocated
  <2>1. /\ UNCHANGED <<mem, kind, marked_memory>> /\ cpc = "lock" /\ cpc' = "sweep"
    BY <1>7 DEF LockAllocated, heapVars
  <2>2. /\ Survivors = allocated_memory /\ Survivors' = marked_memory
        /\ marked_memory \subseteq allocated_memory
    BY <2>1 DEF Survivors, SafeInv, Marks
  <2>3. \A b : Points(b)' = Points(b)
    BY <2>1 DEF Points, RefSlots, FieldSlots
  <2>4. Seen' = Seen
    BY <1>1, <1>2, <1>3, <2>1 DEF Seen
  <2>5. Seen \subseteq marked_memory /\ \A b \in marked_memory : Points(b) \subseteq marked_memory
    BY <1>3, <2>1, SeenIs, PointsIs DEF SafeInv, Marked
  <2>6. Program_!Closed(marked_memory)
    BY <2>2, <2>5 DEF Program_!Closed, Points
  <2>7. Program_!Reclaim
    <3>1. marked_memory \in SUBSET Survivors
      BY <2>2
    <3>2. [b \in Survivors |-> Points(b)]' = [b \in marked_memory |-> Points(b)]
      BY <2>2, <2>3
    <3>3. [b \in marked_memory |-> Points(b)]
            = [b \in marked_memory |-> [d \in Survivors |-> Points(d)][b]]
      BY <3>1
    <3> QED
      BY <2>2, <2>4, <2>6, <3>1, <3>2, <3>3 DEF Program_!Reclaim, Points
  <2> QED
    BY <2>7
<1>8. CASE \E b \in Blocks : FreeBlock(b)
  <2>1. PICK b \in Blocks : FreeBlock(b)
    BY <1>8
  <2>2. /\ UNCHANGED <<marked_memory, cpc>> /\ cpc = "sweep" /\ b \notin marked_memory
        /\ \A s \in Slots : s \notin FieldSlots(b) => mem'[s] = mem[s]
        /\ kind' = [kind EXCEPT ![b] = None]
    BY <2>1 DEF FreeBlock
  <2>3. Survivors = marked_memory /\ Survivors' = marked_memory /\ marked_memory \subseteq Blocks
    BY <2>2 DEF Survivors, BaseInv, TypeOK
  <2>4. \A d \in marked_memory : RefSlots(d)' = RefSlots(d) /\ RefSlots(d) \subseteq Slots
    BY <2>2, <2>3, RefSlotsAreSlots DEF RefSlots, FieldSlots
  <2>5. \A d \in marked_memory : \A s \in RefSlots(d) : s \notin FieldSlots(b)
    BY <2>2 DEF RefSlots, FieldSlots
  <2>6. \A s \in LiveRoots : s \notin FieldSlots(b)
    BY SetsAssumption DEF LiveRoots, FieldSlots, StaticSlots, LocalSlots, LiveOpSlots,
                          TypedJitSlots, TempJitSlots
  <2>7. \A s \in LiveRoots : mem'[s] = mem[s]
    BY <1>2, <2>2, <2>6
  <2>8. \A d \in marked_memory : \A s \in RefSlots(d) : mem'[s] = mem[s]
    BY <2>2, <2>4, <2>5
  <2> QED
    BY <1>1, <1>2, <1>3, <2>3, <2>4, <2>7, <2>8, UnseenStep
<1>9. CASE FinishSweep
  <2>1. /\ UNCHANGED <<mem, kind>> /\ cpc = "sweep" /\ cpc' = "done" /\ unswept = {}
        /\ allocated_memory' = live_memory
    BY <1>9 DEF FinishSweep, heapVars
  <2>2. live_memory = marked_memory
    BY <2>1 DEF SafeInv, Swept
  <2>3. Survivors' = Survivors
    BY <2>1, <2>2 DEF Survivors
  <2> QED
    BY <1>4, <2>1, <2>3
<1> QED
  BY <1>5, <1>6, <1>7, <1>8, <1>9 DEF CollectorStep

\* A program that runs in the main thread sees a heap that is reclaimed behind
\* its back: every step of threads, markers and collector is a step of the
\* program on what it can reach, a collection that keeps a closed set of blocks
\* with all it refers to, or not to be seen at all.
THEOREM HeapIsReclaimed ==
  ASSUME OneThread
  PROVE  Spec => Reclaims
<1>1. Init => Program_!Init
  <2> SUFFICES ASSUME Init PROVE Program_!Init
    OBVIOUS
  <2>1. Survivors = {}
    BY DEF Init, Survivors
  <2>2. Seen = {}
    BY DEF Init, Seen, LiveRoots
  <2> QED
    BY <2>1, <2>2 DEF Program_!Init
<1>2. BaseInv /\ SafeInv /\ [Next]_vars => [Program_!Next]_(Program_!vars)
  <2>1. ASSUME BaseInv, SafeInv, Next PROVE Program_!Next \/ UNCHANGED Program_!vars
    BY <2>1, ExecuteRuns, AllocateRuns, CollectorReclaims DEF Next, Program_!Next
  <2>2. ASSUME UNCHANGED vars PROVE UNCHANGED Program_!vars
    <3>1. UNCHANGED <<mem, kind, cpc, allocated_memory, marked_memory, pda_monitors, stack_pos,
                      jit_roots, pc, blk, scratch>>
      BY <2>2 DEF vars, heapVars, rootVars, storeVars, threadVars, gcVars
    <3>2. Survivors' = Survivors /\ LiveRoots' = LiveRoots
      BY <3>1 DEF Survivors, LiveRoots, LocalSlots, LiveOpSlots, StaticSlots, TypedJitSlots,
                  TempJitSlots
    <3>3. Seen' = Seen /\ \A b : Points(b)' = Points(b)
      BY <3>1, <3>2 DEF Seen, Points, RefSlots, FieldSlots
    <3> QED
      BY <3>2, <3>3 DEF Program_!vars, Points
  <2> QED
    BY <2>1, <2>2
<1> QED
  BY <1>1, <1>2, SafeInvariant, PTL DEF Spec, Reclaims, Program_!Spec
====
