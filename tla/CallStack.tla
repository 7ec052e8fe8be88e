----------------------------- MODULE CallStack -----------------------------
(***************************************************************************)
(* How the Objeck virtual machine calls methods: the call stacks of        *)
(* src/vm/interpreter.h and interpreter.cpp, the cache of stack frames all *)
(* threads share, and the calls between interpreted and native code on     *)
(* AMD64 (src/vm/jit/amd64/jit_amd_lp64.h), built with the JIT and without *)
(* _SANITIZE.                                                              *)
(*                                                                         *)
(* Native code does not call: it has an interpreter made on the C stack    *)
(* execute the call instruction for it (StackCallback), in a frame of the  *)
(* native method itself marked jit_called, and that interpreter ends when  *)
(* the callee has returned to that frame.  A thread's C stack is therefore *)
(* a sequence of interpreters and native activations.                      *)
(*                                                                         *)
(* Data kept: who owns which frame, where each activation resumes, whether *)
(* a frame's variables are zero.  Operands and instances are left out.     *)
(***************************************************************************)
EXTENDS Integers, SequencesExt, FiniteSets

CONSTANTS
  Threads,
  Entries,           \* set of [Threads -> Methods \cup {None}]: what each thread
                     \* of a program executes first, None if there is no such thread
  Methods,
  Code,              \* [Methods -> Seq(instruction)], counted from 1
  Compilable,        \* methods the JIT compiler succeeds on
  Frames,            \* addresses of StackFrames
  Interps,           \* addresses of StackInterpreters
  Natives,           \* activations of native code (bound)
  None,
  CALL_STACK_SIZE,   \* entries of an interpreter's call stack
  CACHED,            \* frames Initialize caches (CALL_STACK_SIZE * 16)
  MORE,              \* frames GetStackFrame adds (CALL_STACK_SIZE)
  CACHE_MAX          \* cached frames beyond which one is freed
                     \* (CALL_STACK_SIZE * 256)

(***************************************************************************)
(* Instructions: STOR stores into the variables in .vars of the frame, JMP *)
(* may jump to .to, MTHD_CALL (DYN_MTHD_CALL too) calls one of .callees,   *)
(* natively if .native, DLL_FUNC_CALL is C code that calls one of .callees *)
(* back (APITools_MethodCall).                                             *)
(***************************************************************************)
Instrs ==
  [op : {"STOR"}, vars : SUBSET {"low", "high"}] \cup [op : {"JMP"}, to : Nat \ {0}]
  \cup [op : {"MTHD_CALL"}, callees : SUBSET Methods, native : BOOLEAN]
  \cup [op : {"DLL_FUNC_CALL"}, callees : SUBSET Methods] \cup [op : {"RTRN"}]

ASSUME CodeAssumption ==
  /\ \A m \in Methods :
       Code[m] \in Seq(Instrs) /\ Code[m] # <<>> /\ Last(Code[m]).op = "RTRN"
  /\ \A m \in Methods : \A i \in 1 .. Len(Code[m]) :
       Code[m][i].op = "JMP" => Code[m][i].to \in 1 .. Len(Code[m])
  /\ \A m \in Compilable : \A i \in 1 .. Len(Code[m]) : Code[m][i].op # "DLL_FUNC_CALL"
  /\ Entries \subseteq [Threads -> Methods \cup {None}] /\ Compilable \subseteq Methods
ASSUME SizeAssumption ==
  /\ CALL_STACK_SIZE \in Nat \ {0} /\ CACHED \in Nat /\ MORE \in Nat \ {0} /\ CACHE_MAX \in Nat
  /\ \E s \in [1 .. CACHED -> Frames] : IsInjective(s)
ASSUME NameAssumption ==
  None \notin Frames \cup Methods /\ Interps \cap Natives = {}

VARIABLES
  entry,             \* one of Entries
  \* per frame
  method, saved_ip, jit_called,
  stored,            \* variables not zero: "low" within the first LOCAL_SIZE
                     \* bytes of mem, "high" beyond
  \* per interpreter
  at,                \* location: see Places
  call_stack,        \* its frames below the current one
  frame,             \* the current frame (*frame)
  instrs, ip,        \* method and instruction Execute is at
  jit_arg,           \* the argument jit_called of Execute
  \* per native activation
  native,            \* [method, ip] it is at
  \* per thread
  c_stack,           \* interpreters and native activations on its C stack
  \* shared
  cached_frames,     \* the cache; the top is the last element
  free_frames,       \* frames not allocated
  pda_monitors,      \* interpreters whose monitor is registered
  native_code,       \* methods that have native code
  exited             \* exit(1) was called

frameVars  == <<method, saved_ip, jit_called, stored, cached_frames, free_frames>>
interpVars == <<at, call_stack, frame, instrs, ip, jit_arg>>
vars == <<entry, frameVars, interpVars, native, c_stack, pda_monitors, native_code, exited>>

\* The locations of an interpreter: not made, made, executing, about to run
\* native code for the callee, waiting for native code, waiting for a C
\* function, between the two halves of ProcessReturn, and returned.
Places == {"off", "new", "run", "jit", "native", "dll", "return", "leave"}

Init ==
  /\ entry \in Entries
  /\ cached_frames = CHOOSE s \in [1 .. CACHED -> Frames] : IsInjective(s)
  /\ free_frames = Frames \ ToSet(cached_frames)
  /\ method = [f \in Frames |-> None] /\ saved_ip = [f \in Frames |-> 1]
  /\ jit_called = [f \in Frames |-> FALSE] /\ stored = [f \in Frames |-> {}]
  /\ at = [i \in Interps |-> "off"] /\ call_stack = [i \in Interps |-> <<>>]
  /\ frame = [i \in Interps |-> None] /\ instrs = [i \in Interps |-> None]
  /\ ip = [i \in Interps |-> 1] /\ jit_arg = [i \in Interps |-> FALSE]
  /\ native = [a \in Natives |-> [method |-> None, ip |-> 1]]
  /\ c_stack = [t \in Threads |-> <<>>]
  /\ pda_monitors = {} /\ native_code = {} /\ exited = FALSE

(***************************************************************************)
(* The frame cache, under cached_frames_mutex.                             *)
(***************************************************************************)
\* The cache GetStackFrame pops from: refilled if it is empty.  The bound is
\* on Frames; which addresses malloc returns makes no difference.
Filled == IF cached_frames # <<>> THEN {cached_frames}
          ELSE LET new == {s \in [1 .. MORE -> free_frames] : IsInjective(s)}
               IN  IF new = {} THEN {} ELSE {CHOOSE s \in new : TRUE}

GetStackFrame(f, m, jit) ==
  \E s \in Filled :
    /\ f = Last(s)
    /\ cached_frames' = Front(s)
    /\ free_frames' = free_frames \ ToSet(s)
    /\ method' = [method EXCEPT ![f] = m]
    /\ jit_called' = [jit_called EXCEPT ![f] = jit]
    /\ UNCHANGED stored

\* The frame is freed if the cache is over its limit, else cleared and cached:
\* memset clears LOCAL_SIZE bytes, mem has LOCAL_SIZE longs.  calloc clears all
\* of a frame that is allocated anew.  The method of a frame in the cache is
\* not read again and is dropped here.
ReleaseStackFrame(f) ==
  /\ method' = [method EXCEPT ![f] = None] /\ jit_called' = [jit_called EXCEPT ![f] = FALSE]
  /\ IF Len(cached_frames) > CACHE_MAX
     THEN /\ free_frames' = free_frames \cup {f}
          /\ stored' = [stored EXCEPT ![f] = {}]
          /\ UNCHANGED cached_frames
     ELSE /\ cached_frames' = Append(cached_frames, f)
          /\ stored' = [stored EXCEPT ![f] = @ \ {"low"}]
          /\ UNCHANGED free_frames

(***************************************************************************)
(* Interpreters.                                                           *)
(***************************************************************************)
Runs(t, i, place) ==
  ~exited /\ c_stack[t] # <<>> /\ i = Last(c_stack[t]) /\ i \in Interps /\ at[i] = place
Instr(i) == Code[instrs[i]][ip[i]]

\* Fault: an interpreter that native code makes registers no monitor.
Construct_NoMonitor(t, i, m, n, jit) ==
  /\ at[i] = "off"
  /\ at' = [at EXCEPT ![i] = "new"]
  /\ instrs' = [instrs EXCEPT ![i] = m] /\ ip' = [ip EXCEPT ![i] = n]
  /\ jit_arg' = [jit_arg EXCEPT ![i] = jit]
  /\ call_stack' = [call_stack EXCEPT ![i] = <<>>] /\ frame' = [frame EXCEPT ![i] = None]
  /\ c_stack' = [c_stack EXCEPT ![t] = Append(@, i)]
  /\ pda_monitors' = IF jit THEN pda_monitors ELSE pda_monitors \cup {i}

\* The constructor allocates the call stack and registers the monitor; neither
\* call_stack_pos nor *frame has a value yet.
Construct(t, i, m, n, jit) ==
  /\ at[i] = "off"
  /\ at' = [at EXCEPT ![i] = "new"]
  /\ instrs' = [instrs EXCEPT ![i] = m] /\ ip' = [ip EXCEPT ![i] = n]
  /\ jit_arg' = [jit_arg EXCEPT ![i] = jit]
  /\ call_stack' = [call_stack EXCEPT ![i] = <<>>] /\ frame' = [frame EXCEPT ![i] = None]
  /\ c_stack' = [c_stack EXCEPT ![t] = Append(@, i)]
  /\ pda_monitors' = pda_monitors \cup {i}

\* A thread starts: Execute in vm.cpp, or AsyncMethodCall.
Start(t, i) ==
  /\ ~exited /\ c_stack[t] = <<>> /\ entry[t] # None
  /\ Construct(t, i, entry[t], 1, FALSE)
  /\ UNCHANGED <<frameVars, native, native_code, exited>>

\* The head of Execute.
Execute(t, i) ==
  /\ Runs(t, i, "new")
  /\ \E f \in Frames :
       /\ GetStackFrame(f, instrs[i], jit_arg[i])
       /\ frame' = [frame EXCEPT ![i] = f]
  /\ at' = [at EXCEPT ![i] = "run"]
  /\ UNCHANGED <<saved_ip, call_stack, instrs, ip, jit_arg, native, c_stack,
                 pda_monitors, native_code, exited>>

\* STOR_LOCL_INT_VAR and the like.
Store(t, i) ==
  /\ Runs(t, i, "run") /\ Instr(i).op = "STOR"
  /\ stored' = [stored EXCEPT ![frame[i]] = @ \cup Instr(i).vars]
  /\ ip' = [ip EXCEPT ![i] = @ + 1]
  /\ UNCHANGED <<method, saved_ip, jit_called, cached_frames, free_frames, at, call_stack,
                 frame, instrs, jit_arg, native, c_stack, pda_monitors, native_code, exited>>

Jump(t, i) ==
  /\ Runs(t, i, "run") /\ Instr(i).op = "JMP"
  /\ \E n \in {ip[i] + 1, Instr(i).to} : ip' = [ip EXCEPT ![i] = n]
  /\ UNCHANGED <<frameVars, at, call_stack, frame, instrs, jit_arg, native, c_stack,
                 pda_monitors, native_code, exited>>

\* Fault: the call stack has no limit.
PushFrame_NoLimit(i) ==
  /\ call_stack' = [call_stack EXCEPT ![i] = Append(@, frame[i])]
  /\ UNCHANGED exited

\* PushFrame ends the program when the call stack is full.
PushFrame(i) ==
  IF Len(call_stack[i]) >= CALL_STACK_SIZE
  THEN exited' = TRUE /\ UNCHANGED call_stack
  ELSE /\ call_stack' = [call_stack EXCEPT ![i] = Append(@, frame[i])]
       /\ UNCHANGED exited

\* ProcessMethodCall, ProcessDynamicMethodCall: save the caller and run the
\* callee in a new frame, or natively where the call instruction says so.
CallMethod(t, i) ==
  /\ Runs(t, i, "run") /\ Instr(i).op = "MTHD_CALL"
  /\ saved_ip' = [saved_ip EXCEPT ![frame[i]] = ip[i] + 1]
  /\ PushFrame(i)
  /\ IF exited'
     THEN UNCHANGED <<at, frame, instrs, ip, method, jit_called, stored, cached_frames,
                      free_frames>>
     ELSE \E m \in Instr(i).callees :
            /\ instrs' = [instrs EXCEPT ![i] = m] /\ ip' = [ip EXCEPT ![i] = 1]
            /\ IF Instr(i).native
               THEN /\ at' = [at EXCEPT ![i] = "jit"]
                    /\ UNCHANGED <<frame, method, jit_called, stored, cached_frames, free_frames>>
               ELSE /\ \E f \in Frames :
                         GetStackFrame(f, m, FALSE) /\ frame' = [frame EXCEPT ![i] = f]
                    /\ UNCHANGED at
  /\ UNCHANGED <<jit_arg, native, c_stack, pda_monitors, native_code>>

\* ProcessJitMethodCall compiles a method that has no native code ...
Compile(t, i) ==
  /\ Runs(t, i, "jit") /\ instrs[i] \in Compilable \ native_code
  /\ native_code' = native_code \cup {instrs[i]}
  /\ UNCHANGED <<frameVars, interpVars, native, c_stack, pda_monitors, exited>>

\* ... interprets it if that fails ...
ProcessInterpretedMethodCall(t, i) ==
  /\ Runs(t, i, "jit") /\ instrs[i] \notin Compilable \cup native_code
  /\ \E f \in Frames :
       GetStackFrame(f, instrs[i], FALSE) /\ frame' = [frame EXCEPT ![i] = f]
  /\ at' = [at EXCEPT ![i] = "run"]
  /\ UNCHANGED <<saved_ip, call_stack, instrs, ip, jit_arg, native, c_stack,
                 pda_monitors, native_code, exited>>

\* ... and else runs the native code.
ExecuteMachineCode(t, i, a) ==
  /\ Runs(t, i, "jit") /\ instrs[i] \in native_code
  /\ \A u \in Threads : a \notin ToSet(c_stack[u])
  /\ native' = [native EXCEPT ![a] = [method |-> instrs[i], ip |-> 1]]
  /\ c_stack' = [c_stack EXCEPT ![t] = Append(@, a)]
  /\ at' = [at EXCEPT ![i] = "native"]
  /\ UNCHANGED <<frameVars, call_stack, frame, instrs, ip, jit_arg,
                 pda_monitors, native_code, exited>>

\* DLL_FUNC_CALL: the C function calls a method back.
CallBack(t, i, j) ==
  /\ Runs(t, i, "run") /\ Instr(i).op = "DLL_FUNC_CALL" /\ at[j] = "off"
  /\ \E m \in Instr(i).callees :
       /\ instrs' = [instrs EXCEPT ![j] = m] /\ ip' = [ip EXCEPT ![j] = 1]
  /\ at' = [at EXCEPT ![i] = "dll", ![j] = "new"]
  /\ jit_arg' = [jit_arg EXCEPT ![j] = FALSE]
  /\ call_stack' = [call_stack EXCEPT ![j] = <<>>] /\ frame' = [frame EXCEPT ![j] = None]
  /\ c_stack' = [c_stack EXCEPT ![t] = Append(@, j)]
  /\ pda_monitors' = pda_monitors \cup {j}
  /\ UNCHANGED <<frameVars, native, native_code, exited>>

\* RTRN: ProcessReturn releases the frame ...
ReleaseReturning(t, i) ==
  /\ Runs(t, i, "run") /\ Instr(i).op = "RTRN"
  /\ ReleaseStackFrame(frame[i])
  /\ at' = [at EXCEPT ![i] = "return"]
  /\ UNCHANGED <<saved_ip, call_stack, frame, instrs, ip, jit_arg,
                 native, c_stack, pda_monitors, native_code, exited>>

\* Fault: the frame native code called from is a frame like any other.
Resume_NoJitTest(i) ==
  LET f == Last(call_stack[i]) IN
  /\ frame' = [frame EXCEPT ![i] = f]
  /\ call_stack' = [call_stack EXCEPT ![i] = Front(@)]
  /\ instrs' = [instrs EXCEPT ![i] = method[f]]
  /\ ip' = [ip EXCEPT ![i] = saved_ip[f]]
  /\ at' = [at EXCEPT ![i] = "run"]
  /\ UNCHANGED <<cached_frames, free_frames, stored, jit_called, method>>

\* Fault: the frame native code called from is not released.
Resume_NoRelease(i) ==
  LET f == Last(call_stack[i]) IN
  /\ frame' = [frame EXCEPT ![i] = f]
  /\ call_stack' = [call_stack EXCEPT ![i] = Front(@)]
  /\ instrs' = [instrs EXCEPT ![i] = method[f]]
  /\ ip' = [ip EXCEPT ![i] = saved_ip[f]]
  /\ jit_called' = [jit_called EXCEPT ![f] = FALSE]
  /\ at' = [at EXCEPT ![i] = IF jit_called[f] THEN "leave" ELSE "run"]
  /\ UNCHANGED <<cached_frames, free_frames, stored, method>>

\* Pop the caller and go on at its saved ip, or end Execute if the caller is
\* the frame native code called from.
Resume(i) ==
  LET f == Last(call_stack[i]) IN
  /\ frame' = [frame EXCEPT ![i] = f]
  /\ call_stack' = [call_stack EXCEPT ![i] = Front(@)]
  /\ instrs' = [instrs EXCEPT ![i] = method[f]]
  /\ ip' = [ip EXCEPT ![i] = saved_ip[f]]
  /\ IF jit_called[f]
     THEN at' = [at EXCEPT ![i] = "leave"] /\ ReleaseStackFrame(f)
     ELSE /\ at' = [at EXCEPT ![i] = "run"]
          /\ UNCHANGED <<cached_frames, free_frames, stored, method, jit_called>>

\* ... and restores the caller, or halts if there is none.
Return(t, i) ==
  /\ Runs(t, i, "return")
  /\ IF call_stack[i] # <<>>
     THEN Resume(i)
     ELSE /\ frame' = [frame EXCEPT ![i] = None]
          /\ at' = [at EXCEPT ![i] = "leave"]
          /\ UNCHANGED <<call_stack, instrs, ip, method, jit_called, cached_frames, free_frames,
                         stored>>
  /\ UNCHANGED <<saved_ip, jit_arg, native, c_stack, pda_monitors, native_code, exited>>

\* The interpreter's destructor removes the monitor; whoever made it goes on.
Destroy(t, i) ==
  LET below == Front(c_stack[t])
      Waits(j) == below # <<>> /\ j = Last(below)
  IN
  /\ Runs(t, i, "leave")
  /\ pda_monitors' = pda_monitors \ {i}
  /\ c_stack' = [c_stack EXCEPT ![t] = below]
  /\ native' = [a \in Natives |-> IF Waits(a) THEN [native[a] EXCEPT !.ip = @ + 1] ELSE native[a]]
  /\ at' = [j \in Interps |-> IF j = i THEN "off" ELSE IF Waits(j) THEN "run" ELSE at[j]]
  /\ ip' = [j \in Interps |-> IF j = i THEN 1 ELSE IF Waits(j) THEN ip[j] + 1 ELSE ip[j]]
  /\ call_stack' = [call_stack EXCEPT ![i] = <<>>] /\ frame' = [frame EXCEPT ![i] = None]
  /\ instrs' = [instrs EXCEPT ![i] = None] /\ jit_arg' = [jit_arg EXCEPT ![i] = FALSE]
  /\ UNCHANGED <<frameVars, native_code, exited>>

(***************************************************************************)
(* Native code.                                                            *)
(***************************************************************************)
RunsNative(t, a) ==
  ~exited /\ c_stack[t] # <<>> /\ a = Last(c_stack[t]) /\ a \in Natives
NativeInstr(a) == Code[native[a].method][native[a].ip]

\* Its variables are on the C stack.
NativeStep(t, a) ==
  /\ RunsNative(t, a) /\ NativeInstr(a).op \in {"STOR", "JMP"}
  /\ \E n \in {native[a].ip + 1} \cup (IF NativeInstr(a).op = "JMP" THEN {NativeInstr(a).to} ELSE {}) :
       native' = [native EXCEPT ![a].ip = n]
  /\ UNCHANGED <<frameVars, interpVars, c_stack, pda_monitors, native_code, exited>>

\* StackCallback, MTHD_CALL and DYN_MTHD_CALL: an interpreter for the native
\* method, at its call instruction.
StackCallback(t, a, i) ==
  /\ RunsNative(t, a) /\ NativeInstr(a).op = "MTHD_CALL"
  /\ Construct(t, i, native[a].method, native[a].ip, TRUE)
  /\ UNCHANGED <<frameVars, native, native_code, exited>>

\* RTRN, back in ProcessJitMethodCall.
NativeReturn(t, a) ==
  LET i == Last(Front(c_stack[t])) IN
  /\ RunsNative(t, a) /\ NativeInstr(a).op = "RTRN"
  /\ c_stack' = [c_stack EXCEPT ![t] = Front(@)]
  /\ Resume(i)
  /\ native' = [native EXCEPT ![a] = [method |-> None, ip |-> 1]]
  /\ UNCHANGED <<saved_ip, jit_arg, pda_monitors, native_code, exited>>

\* A Nil instance or an index out of bounds in native code.
NativeError(t, a) ==
  /\ RunsNative(t, a) /\ NativeInstr(a).op = "STOR"
  /\ exited' = TRUE
  /\ UNCHANGED <<frameVars, interpVars, native, c_stack, pda_monitors, native_code>>

InterpStep(t, i) ==
  \/ Start(t, i) \/ Execute(t, i) \/ Store(t, i) \/ Jump(t, i) \/ CallMethod(t, i)
  \/ Compile(t, i) \/ ProcessInterpretedMethodCall(t, i)
  \/ (\E a \in Natives : ExecuteMachineCode(t, i, a))
  \/ (\E j \in Interps : CallBack(t, i, j))
  \/ ReleaseReturning(t, i) \/ Return(t, i) \/ Destroy(t, i)

NativeStepOf(t, a) ==
  \/ NativeStep(t, a) \/ (\E i \in Interps : StackCallback(t, a, i))
  \/ NativeReturn(t, a) \/ NativeError(t, a)

Next == /\ \E t \in Threads : \/ \E i \in Interps : InterpStep(t, i)
                              \/ \E a \in Natives : NativeStepOf(t, a)
        /\ UNCHANGED entry

Spec == Init /\ [][Next]_vars

(***************************************************************************)
(* Properties.                                                             *)
(***************************************************************************)
\* The types of the state; a call stack has at most CALL_STACK_SIZE frames.
TypeOK ==
  /\ entry \in Entries
  /\ method \in [Frames -> Methods \cup {None}] /\ saved_ip \in [Frames -> Nat]
  /\ jit_called \in [Frames -> BOOLEAN] /\ stored \in [Frames -> SUBSET {"low", "high"}]
  /\ at \in [Interps -> Places]
  /\ call_stack \in [Interps -> Seq(Frames)]
  /\ \A i \in Interps : Len(call_stack[i]) <= CALL_STACK_SIZE
  /\ frame \in [Interps -> Frames \cup {None}]
  /\ instrs \in [Interps -> Methods \cup {None}] /\ ip \in [Interps -> Nat]
  /\ jit_arg \in [Interps -> BOOLEAN]
  /\ native \in [Natives -> [method : Methods \cup {None}, ip : Nat]]
  /\ c_stack \in [Threads -> Seq(Interps \cup Natives)]
  /\ cached_frames \in Seq(Frames) /\ free_frames \subseteq Frames
  /\ pda_monitors \subseteq Interps /\ native_code \subseteq Compilable
  /\ exited \in BOOLEAN

\* The frames interpreter i has got and not released.  While native code runs
\* the current frame is the one it has just pushed.
Held(i) == IF at[i] \in {"run", "dll"} THEN Append(call_stack[i], frame[i])
           ELSE IF at[i] \in {"jit", "native", "return"} THEN call_stack[i]
           ELSE <<>>

\* Every frame is in one place: cached, free, or held once by one interpreter.
\* No frame is lost, none is handed out twice, and what waits in the cache is
\* cleared within LOCAL_SIZE bytes; the rest of a cached frame keeps old values.
FramesConserved ==
  /\ \A f \in ToSet(cached_frames) : "low" \notin stored[f]
  /\ IsInjective(cached_frames)
  /\ \A i \in Interps : IsInjective(Held(i))
  /\ \A i, j \in Interps : i # j => ToSet(Held(i)) \cap ToSet(Held(j)) = {}
  /\ \A i \in Interps : ToSet(Held(i)) \cap (ToSet(cached_frames) \cup free_frames) = {}
  /\ ToSet(cached_frames) \cap free_frames = {}
  /\ \A f \in Frames : \/ f \in ToSet(cached_frames) \cup free_frames
                      \/ \E i \in Interps : f \in ToSet(Held(i))

\* What CheckPdaRoots reads through the monitor of interpreter i.
Scanned(i) == {frame[i]} \cup ToSet(call_stack[i])

\* Thread t is executing instructions, which may ask for a collection.
MayCollect(t) == c_stack[t] # <<>> /\ (Last(c_stack[t]) \in Natives \/ at[Last(c_stack[t])] = "run")

\* When thread t can ask for a collection, the registered monitors of its
\* interpreters lead to exactly the frames they hold.
ScanIsExact ==
  \A t \in Threads : MayCollect(t) =>
    \A i \in ToSet(c_stack[t]) \cap Interps :
      i \in pda_monitors /\ Scanned(i) = ToSet(Held(i))

(***************************************************************************)
(* The calls the program sees: frames and native activations of a thread,  *)
(* without the frames native code calls from.  A caller is at its call     *)
(* until the callee has returned.                                          *)
(***************************************************************************)
Activation(m, n) == [method |-> m, ip |-> n]
Callers(i) == [k \in 1 .. Len(call_stack[i]) |->
                 Activation(method[call_stack[i][k]], saved_ip[call_stack[i][k]] - 1)]
Visible(i) == IF jit_arg[i] /\ call_stack[i] # <<>> THEN Tail(Callers(i)) ELSE Callers(i)

\* Whether the call of the entry below position n has been returned from.
Over(t, n) == n < Len(c_stack[t]) /\ c_stack[t][n + 1] \in Interps
              /\ at[c_stack[t][n + 1]] = "leave"

Part(t, n) ==
  LET e == c_stack[t][n]
      Here(m, k) == <<Activation(m, IF Over(t, n) THEN k + 1 ELSE k)>>
  IN
  IF e \in Natives THEN Here(native[e].method, native[e].ip)
  ELSE IF at[e] = "leave" \/ (jit_arg[e] /\ call_stack[e] = <<>> /\ at[e] \in {"new", "run"})
  THEN <<>>
  ELSE Visible(e) \o (IF at[e] = "native" THEN <<>> ELSE Here(instrs[e], ip[e]))

Calls == INSTANCE MethodCalls WITH
  stack <- [t \in Threads |-> FlattenSeq([n \in 1 .. Len(c_stack[t]) |-> Part(t, n)])]

\* Interpreters inside native code inside interpreters are one stack of method
\* activations: every call returns to the instruction after it, once.
ReturnsToCaller == Calls!Spec
====
