------------------------------ MODULE Threads ------------------------------
(***************************************************************************)
(* Threads of an Objeck program on POSIX: System.Concurrency.Thread and    *)
(* ThreadMutex over the instructions ASYNC_MTHD_CALL, THREAD_JOIN,         *)
(* CRITICAL_START and CRITICAL_END (src/vm/interpreter.cpp), the list of   *)
(* threads StackProgram keeps (src/vm/common.h), and the end of the        *)
(* program (src/vm/vm.cpp), with and without _SANITIZE.                    *)
(*                                                                         *)
(* A thread is a pthread_t; the system uses it again once it has been      *)
(* joined.  A Thread object keeps in its first word, @id, the pthread_t    *)
(* its last Execute created.  What a Run computes is left out: its code is *)
(* the sequence of thread operations it comes to.  Objects named by these  *)
(* operations are not Nil, and creating a thread does not fail.            *)
(***************************************************************************)
EXTENDS Integers, SequencesExt, FiniteSets

CONSTANTS
  Tids,              \* values of pthread_t (bound on threads not yet joined)
  MainTid,           \* that of the main thread
  Objects,           \* Thread objects
  Main,              \* names the code of the main thread
  Mutexes,
  None,              \* the value 0 of @id, and nobody
  Programs           \* set of [code : [Objects \cup {Main} -> Seq(operation)],
                     \* sanitize : BOOLEAN]: built with -D_SANITIZE or not

Ops == [op : {"EXECUTE", "JOIN", "GETID"}, of : Objects]
       \cup [op : {"CRITICAL_START", "CRITICAL_END"}, of : Mutexes] \cup [op : {"RTRN"}]

ASSUME ProgramAssumption ==
  \A p \in Programs :
    /\ p.sanitize \in BOOLEAN
    /\ \A o \in Objects \cup {Main} :
         p.code[o] \in Seq(Ops) /\ p.code[o] # <<>> /\ Last(p.code[o]).op = "RTRN"
ASSUME NameAssumption ==
  /\ MainTid \in Tids
  /\ None \notin Tids \cup Objects \cup {Main} /\ Main \notin Objects

(***************************************************************************)
(* What the compiler emits for critical(m) { body }; nothing is emitted    *)
(* for a return or a break that leaves the body.                           *)
(***************************************************************************)
EmitCriticalSection(m, body) ==
  <<[op |-> "CRITICAL_START", of |-> m]>> \o body \o <<[op |-> "CRITICAL_END", of |-> m]>>

(* list.remove(tid): every entry that is tid goes.                         *)
Without(tid_list, tid) ==
  LET rest[i \in 0 .. Len(tid_list)] ==
        IF i = 0 THEN <<>>
        ELSE IF tid_list[i] = tid THEN rest[i - 1] ELSE Append(rest[i - 1], tid_list[i])
  IN  rest[Len(tid_list)]

\* The instructions of that kind for mutex m before place n of the code.
Passed(code, op, m, n) == {i \in 1 .. n - 1 : code[i].op = op /\ code[i].of = m}
Starts(code, m, n) == Cardinality(Passed(code, "CRITICAL_START", m, n))
Ends(code, m, n) == Cardinality(Passed(code, "CRITICAL_END", m, n))

(* Every CRITICAL_END ends a section begun before it, ...                   *)
Bracketed(code) ==
  \A m \in Mutexes, n \in DOMAIN code :
    code[n].op = "CRITICAL_END" /\ code[n].of = m => Starts(code, m, n) > Ends(code, m, n)

(* ... and no section is left open: none is left by a return or a break.    *)
Closed(code) ==
  \A m \in Mutexes, n \in DOMAIN code : code[n].op = "RTRN" => Starts(code, m, n) = Ends(code, m, n)

(***************************************************************************)
(* Programs whose Runs join what they execute.                             *)
(***************************************************************************)
\* How many more Executes than Joins of o are before place n of the code.
Due(code, o, n) ==
  Cardinality(Passed(code, "EXECUTE", o, n)) - Cardinality(Passed(code, "JOIN", o, n))

(* An object is executed when no Run of it is left to join, and joined or
   asked for its id when one is.                                           *)
Paired(code) ==
  \A o \in Objects, n \in DOMAIN code :
    /\ code[n].op = "EXECUTE" /\ code[n].of = o => Due(code, o, n) = 0
    /\ code[n].op \in {"JOIN", "GETID"} /\ code[n].of = o => Due(code, o, n) = 1

(* No Run is left to join when the code returns.                           *)
Collected(code) ==
  \A o \in Objects, n \in DOMAIN code : code[n].op = "RTRN" => Due(code, o, n) = 0

(* One Run handles an object, its parent, and comes above it.              *)
Tree(p, parent, rank) ==
  \A k \in Objects \cup {Main} : \A n \in DOMAIN p.code[k] :
    p.code[k][n].op \in {"EXECUTE", "JOIN", "GETID"} =>
      parent[p.code[k][n].of] = k /\ rank[k] < rank[p.code[k][n].of]

AllCode == {p.code[o] : p \in Programs, o \in Objects \cup {Main}}

VARIABLES
  program,           \* one of Programs
  \* per thread
  at,                \* where it is: see Places
  run,               \* the object whose Run it executes (holder->self), or Main
  ip,
  vm_thread,         \* local of ProcessAsyncMethodCall: the thread just created
  joiner,            \* the thread joining it
  \* per object
  id,                \* @id
  \* shared
  owner,             \* thread holding a mutex
  thread_ids,        \* StackProgram::thread_ids
  to_join,           \* main's copy of it when the program ends
  process            \* "up", "returned" (main has), "failed" (exit(1), exit(-1))

threadVars == <<at, run, ip, vm_thread, joiner>>
vars == <<program, threadVars, id, owner, thread_ids, to_join, process>>

\* off: not a thread, or joined; run: executing its code; created, assigned: in
\* ProcessAsyncMethodCall; join: in pthread_join; remove: Run has returned;
\* ended: terminated; shutdown: main, joining thread_ids.
Places == {"off", "run", "created", "assigned", "join", "remove", "ended", "shutdown"}

Init ==
  /\ program \in Programs
  /\ at = [t \in Tids |-> IF t = MainTid THEN "run" ELSE "off"]
  /\ run = [t \in Tids |-> IF t = MainTid THEN Main ELSE None]
  /\ ip = [t \in Tids |-> 1]
  /\ vm_thread = [t \in Tids |-> None] /\ joiner = [t \in Tids |-> None]
  /\ id = [o \in Objects |-> None] /\ owner = [m \in Mutexes |-> None]
  /\ thread_ids = <<>> /\ to_join = <<>> /\ process = "up"

Up(t, place) == process = "up" /\ at[t] = place
Instr(t)     == program.code[run[t]][ip[t]]
AtOp(t, op)  == Up(t, "run") /\ Instr(t).op = op
Operand(t)   == Instr(t).of
GoOn(t)      == at' = [at EXCEPT ![t] = "run"] /\ ip' = [ip EXCEPT ![t] = @ + 1]

(***************************************************************************)
(* Execute: ASYNC_MTHD_CALL.                                               *)
(***************************************************************************)
\* pthread_create; the new thread may run at once.
ProcessAsyncMethodCall(t) ==
  /\ AtOp(t, "EXECUTE")
  /\ \E u \in Tids :
       /\ at[u] = "off"
       /\ at' = [at EXCEPT ![t] = "created", ![u] = "run"]
       /\ run' = [run EXCEPT ![u] = Operand(t)] /\ ip' = [ip EXCEPT ![u] = 1]
       /\ vm_thread' = [vm_thread EXCEPT ![t] = u]
  /\ UNCHANGED <<program, joiner, id, owner, thread_ids, to_join, process>>

\* Fault: an object keeps the id of its first Execute.
AssignId_Once(t) ==
  /\ Up(t, "created")
  /\ id' = [id EXCEPT ![Operand(t)] = IF @ = None THEN vm_thread[t] ELSE @]
  /\ at' = [at EXCEPT ![t] = "assigned"]
  /\ UNCHANGED <<program, run, ip, vm_thread, joiner, owner, thread_ids, to_join, process>>

\* instance[0] = vm_thread.
AssignId(t) ==
  /\ Up(t, "created")
  /\ id' = [id EXCEPT ![Operand(t)] = vm_thread[t]]
  /\ at' = [at EXCEPT ![t] = "assigned"]
  /\ UNCHANGED <<program, run, ip, vm_thread, joiner, owner, thread_ids, to_join, process>>

\* program->AddThread(vm_thread), under program_mutex.
AddThread(t) ==
  /\ Up(t, "assigned")
  /\ thread_ids' = Append(thread_ids, vm_thread[t])
  /\ vm_thread' = [vm_thread EXCEPT ![t] = None]
  /\ GoOn(t)
  /\ UNCHANGED <<program, run, joiner, id, owner, to_join, process>>

(***************************************************************************)
(* pthread_join.  It fails on an id that is no thread's, on the thread     *)
(* itself, on one that another joins, and on one that joins the caller.    *)
(***************************************************************************)
CanJoin(t, u) ==
  u # None /\ at[u] # "off" /\ u # t /\ joiner[u] = None /\ joiner[t] # u

StartJoin(t, u, place) ==
  /\ joiner' = [joiner EXCEPT ![u] = t]
  /\ at' = [at EXCEPT ![t] = place]

\* It returns when the thread has terminated; the id is free again.
EndJoin(t, u, place) ==
  /\ joiner[u] = t /\ at[u] = "ended"
  /\ joiner' = [joiner EXCEPT ![u] = None]
  /\ run' = [run EXCEPT ![u] = None]
  /\ at' = [at EXCEPT ![t] = place, ![u] = "off"]

\* Fault: the thread is not joined.
ThreadJoin_NoJoin(t) ==
  /\ AtOp(t, "JOIN")
  /\ GoOn(t)
  /\ UNCHANGED <<program, run, vm_thread, joiner, id, owner, thread_ids, to_join, process>>

\* THREAD_JOIN: reads @id.
ThreadJoin(t) ==
  LET u == id[Operand(t)] IN
  /\ AtOp(t, "JOIN")
  /\ IF CanJoin(t, u)
     THEN StartJoin(t, u, "join") /\ UNCHANGED process
     ELSE process' = "failed" /\ UNCHANGED <<at, joiner>>
  /\ UNCHANGED <<program, run, ip, vm_thread, id, owner, thread_ids, to_join>>

Joined(t) ==
  /\ Up(t, "join")
  /\ \E u \in Tids : EndJoin(t, u, "run") /\ ip' = [ip EXCEPT ![u] = 1, ![t] = @ + 1]
  /\ UNCHANGED <<program, vm_thread, id, owner, thread_ids, to_join, process>>

(***************************************************************************)
(* ThreadMutex.                                                            *)
(***************************************************************************)
\* Fault: the mutex is not waited for.
CriticalStart_NoWait(t) ==
  /\ AtOp(t, "CRITICAL_START")
  /\ owner' = [owner EXCEPT ![Operand(t)] = t]
  /\ GoOn(t)
  /\ UNCHANGED <<program, run, vm_thread, joiner, id, thread_ids, to_join, process>>

CriticalStart(t) ==
  /\ AtOp(t, "CRITICAL_START") /\ owner[Operand(t)] = None
  /\ owner' = [owner EXCEPT ![Operand(t)] = t]
  /\ GoOn(t)
  /\ UNCHANGED <<program, run, vm_thread, joiner, id, thread_ids, to_join, process>>

\* Fault: the mutex stays locked.
CriticalEnd_KeepsLock(t) ==
  /\ AtOp(t, "CRITICAL_END")
  /\ GoOn(t)
  /\ UNCHANGED <<program, run, vm_thread, joiner, id, owner, thread_ids, to_join, process>>

CriticalEnd(t) ==
  /\ AtOp(t, "CRITICAL_END")
  /\ owner' = [owner EXCEPT ![Operand(t)] = None]
  /\ GoOn(t)
  /\ UNCHANGED <<program, run, vm_thread, joiner, id, thread_ids, to_join, process>>

\* Thread->GetExecuteID(): reads @id.
GetExecuteID(t) ==
  /\ AtOp(t, "GETID")
  /\ GoOn(t)
  /\ UNCHANGED <<program, run, vm_thread, joiner, id, owner, thread_ids, to_join, process>>

(***************************************************************************)
(* The end of a thread and of the program.                                 *)
(***************************************************************************)
\* Fault: the interpreter runs on.
RunReturns_GoesOn(t) ==
  /\ AtOp(t, "RTRN") /\ t # MainTid
  /\ GoOn(t)
  /\ UNCHANGED <<program, run, vm_thread, joiner, id, owner, thread_ids, to_join, process>>

\* Run returns.
RunReturns(t) ==
  /\ AtOp(t, "RTRN") /\ t # MainTid
  /\ at' = [at EXCEPT ![t] = "remove"]
  /\ UNCHANGED <<program, run, ip, vm_thread, joiner, id, owner, thread_ids, to_join, process>>

\* program->RemoveThread(pthread_self()), and the thread terminates.
RemoveThread(t) ==
  /\ Up(t, "remove")
  /\ thread_ids' = Without(thread_ids, t)
  /\ at' = [at EXCEPT ![t] = "ended"]
  /\ UNCHANGED <<program, run, ip, vm_thread, joiner, id, owner, to_join, process>>

\* Fault: main does not ask for the threads.
MainReturns_NoThreads(t) ==
  /\ AtOp(t, "RTRN") /\ t = MainTid
  /\ IF program.sanitize
     THEN /\ at' = [at EXCEPT ![t] = "shutdown"] /\ to_join' = <<>>
          /\ UNCHANGED process
     ELSE process' = "returned" /\ UNCHANGED <<at, to_join>>
  /\ UNCHANGED <<program, run, ip, vm_thread, joiner, id, owner, thread_ids>>

\* main returns, which ends the process; only with _SANITIZE does it first
\* join the threads of the list.
MainReturns(t) ==
  /\ AtOp(t, "RTRN") /\ t = MainTid
  /\ IF program.sanitize
     THEN /\ at' = [at EXCEPT ![t] = "shutdown"] /\ to_join' = thread_ids
          /\ UNCHANGED process
     ELSE process' = "returned" /\ UNCHANGED <<at, to_join>>
  /\ UNCHANGED <<program, run, ip, vm_thread, joiner, id, owner, thread_ids>>

\* One pthread_join of the loop in vm.cpp begins, ...
ShutdownJoin ==
  /\ Up(MainTid, "shutdown") /\ to_join # <<>> /\ joiner[Head(to_join)] # MainTid
  /\ IF CanJoin(MainTid, Head(to_join))
     THEN StartJoin(MainTid, Head(to_join), "shutdown") /\ UNCHANGED process
     ELSE process' = "failed" /\ UNCHANGED <<at, joiner>>
  /\ UNCHANGED <<program, run, ip, vm_thread, id, owner, thread_ids, to_join>>

\* ... and ends.
ShutdownJoined ==
  /\ Up(MainTid, "shutdown") /\ to_join # <<>>
  /\ EndJoin(MainTid, Head(to_join), "shutdown")
  /\ ip' = [ip EXCEPT ![Head(to_join)] = 1]
  /\ to_join' = Tail(to_join)
  /\ UNCHANGED <<program, vm_thread, id, owner, thread_ids, process>>

\* The resources of the machine are released and main returns.
ShutdownDone ==
  /\ Up(MainTid, "shutdown") /\ to_join = <<>>
  /\ process' = "returned"
  /\ UNCHANGED <<program, threadVars, id, owner, thread_ids, to_join>>

ThreadStep(t) ==
  \/ ProcessAsyncMethodCall(t) \/ AssignId(t) \/ AddThread(t)
  \/ ThreadJoin(t) \/ Joined(t)
  \/ CriticalStart(t) \/ CriticalEnd(t) \/ GetExecuteID(t)
  \/ RunReturns(t) \/ RemoveThread(t) \/ MainReturns(t)

Shutdown == ShutdownJoin \/ ShutdownJoined \/ ShutdownDone

Next == (\E t \in Tids : ThreadStep(t)) \/ Shutdown

Spec == Init /\ [][Next]_vars

\* The system schedules every thread.
FairSpec == Spec /\ \A t \in Tids : WF_vars(ThreadStep(t)) /\ WF_vars(Shutdown)

(***************************************************************************)
(* Properties.                                                             *)
(***************************************************************************)
\* The types of the state; a thread stays within its code.
TypeOK ==
  /\ program \in Programs
  /\ at \in [Tids -> Places] /\ run \in [Tids -> Objects \cup {Main, None}]
  /\ \A t \in Tids : run[t] = None <=> at[t] = "off"
  /\ ip \in [Tids -> Nat] /\ \A t \in Tids : run[t] # None => ip[t] \in 1 .. Len(program.code[run[t]])
  /\ vm_thread \in [Tids -> Tids \cup {None}] /\ joiner \in [Tids -> Tids \cup {None}]
  /\ id \in [Objects -> Tids \cup {None}] /\ owner \in [Mutexes -> Tids \cup {None}]
  /\ thread_ids \in Seq(Tids) /\ to_join \in Seq(Tids)
  /\ process \in {"up", "returned", "failed"}

\* Where GetExecuteID is called the object has the id of the thread that runs it.
IdNamesRun ==
  \A t \in Tids : AtOp(t, "GETID") =>
    LET u == id[Operand(t)] IN u # None /\ run[u] = Operand(t)

\* Thread t is between the two ends of a critical section of m.
Inside(t, m) ==
  /\ run[t] # None
  /\ Starts(program.code[run[t]], m, ip[t]) > Ends(program.code[run[t]], m, ip[t])

\* One thread at a time is in the critical sections of a mutex.
MutualExclusion ==
  \A m \in Mutexes : \A t, u \in Tids : Inside(t, m) /\ Inside(u, m) => t = u

\* A thread whose Run is over has released the mutexes its sections locked.
SectionsReleased ==
  \A m \in Mutexes : owner[m] # None => at[owner[m]] \notin {"off", "remove", "ended"}

\* When the process ends, so has every Run that Execute started.
RunsComplete ==
  process = "returned" =>
    \A t \in Tids \ {MainTid} : at[t] \in {"off", "remove", "ended"}

\* The program ends: no lock and no join, that of the shutdown included, waits
\* for ever.
ProgramEnds == <>(process # "up")

(***************************************************************************)
(* Threads with ids, a list and a lock behave as tasks without them.  A    *)
(* main that joins the threads of the list is still at its RTRN.           *)
(***************************************************************************)
RunOf(t) == IF t = None THEN None ELSE run[t]
Tasks == Objects \cup {Main}
Runners(k) == {t \in Tids : run[t] = k}

Forks == INSTANCE ForkJoin WITH
  code  <- program.code,
  state <- [k \in Tasks |->
              IF Runners(k) = {} THEN "idle"
              ELSE IF \/ \E t \in Runners(k) : at[t] \in {"remove", "ended"}
                      \/ k = Main /\ process = "returned"
              THEN "done" ELSE "running"],
  pos   <- [k \in Tasks |->
              IF Runners(k) = {} THEN 1 ELSE ip[CHOOSE t \in Runners(k) : TRUE]],
  owner <- [m \in Mutexes |-> RunOf(owner[m])],
  ended <- IF process = "up" THEN "no" ELSE process

\* Execute starts the Run of its object, Join returns when that Run is over,
\* and a section is entered by one Run at a time.
ForksAndJoins == Forks!Spec
====
