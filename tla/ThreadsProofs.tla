--------------------------- MODULE ThreadsProofs ---------------------------
(***************************************************************************)
(* Theorems about Threads: its types; the sections of a mutex exclude each  *)
(* other; a Run that is over holds no mutex; programs that join what they   *)
(* execute find ids that name Runs, leave none under way, and see the tasks *)
(* of ForkJoin.                                                            *)
(***************************************************************************)
EXTENDS Threads, Inductions

(***************************************************************************)
(* The list of threads.                                                    *)
(***************************************************************************)
(* A list from which a thread is removed is a list of the same kind.       *)
LEMMA WithoutType ==
  ASSUME NEW S, NEW s, s \in Seq(S), NEW x
  PROVE  Without(s, x) \in Seq(S)
<1> DEFINE n == Len(s)
           step == [q \in Seq(S) \X (1 .. n) |->
                      IF s[q[2]] = x THEN q[1] ELSE Append(q[1], s[q[2]])]
           F(f) == [i \in 0 .. n |->
                      IF i = 0 THEN <<>>
                      ELSE IF s[i] = x THEN f[i - 1] ELSE Append(f[i - 1], s[i])]
           rest == CHOOSE f : f = F(f)
<1>1. /\ n \in Nat /\ <<>> \in Seq(S)
      /\ \A v \in Seq(S), i \in 1 .. n : Append(v, s[i]) \in Seq(S)
  OBVIOUS
<1>2. step \in [Seq(S) \X (1 .. n) -> Seq(S)]
  BY <1>1
<1>3. \A v \in Seq(S), i \in 1 .. n :
        step[<<v, i>>] = IF s[i] = x THEN v ELSE Append(v, s[i])
  BY <1>1
<1>4. PICK g \in [0 .. n -> Seq(S)] : g[0] = <<>> /\ \A i \in 1 .. n : g[i] = step[<<g[i - 1], i>>]
  <2> DEFINE V == Seq(S)
             c == <<>>
  <2>1. n \in Nat /\ c \in V /\ step \in [V \X (1 .. n) -> V]
    BY <1>1, <1>2
  <2> HIDE DEF step, n, V, c
  <2>2. \E g \in [0 .. n -> V] : g[0] = c /\ \A i \in 1 .. n : g[i] = step[<<g[i - 1], i>>]
    BY ONLY <2>1, Recursion
  <2> QED
    BY <2>2 DEF V, c
<1>5. g = F(g)
  <2>1. ASSUME NEW i \in 1 .. n
        PROVE  g[i] = IF s[i] = x THEN g[i - 1] ELSE Append(g[i - 1], s[i])
    <3>1. g[i - 1] \in Seq(S)
      <4> HIDE DEF n
      <4> QED
        BY <1>1, <1>4
    <3> HIDE DEF step, n
    <3> QED
      BY <3>1, <1>3, <1>4
  <2>2. \A i \in 0 .. n : i # 0 => i \in 1 .. n
    BY <1>1
  <2> HIDE DEF step, n
  <2> QED
    BY <1>4, <2>1, <2>2
<1>6. rest = F(rest)
  <2> HIDE DEF F
  <2> QED
    BY <1>5
<1>7. \A i \in 0 .. n : rest[i] \in Seq(S)
  <2> DEFINE H == {i \in 0 .. n : rest[i] \in Seq(S)}
  <2>1. \A i \in 0 .. n :
          rest[i] = IF i = 0 THEN <<>>
                    ELSE IF s[i] = x THEN rest[i - 1] ELSE Append(rest[i - 1], s[i])
    <3> HIDE DEF rest, n
    <3> QED
      BY <1>6
  <2> HIDE DEF rest, n
  <2>2. 0 \in 0 .. n /\ rest[0] = <<>>
    BY <1>1, <2>1
  <2>3. ASSUME NEW i \in 1 .. n, rest[i - 1] \in Seq(S) PROVE i \in 0 .. n /\ rest[i] \in Seq(S)
    <3>1. i \in 0 .. n /\ i # 0
      BY <1>1
    <3>2. rest[i] = IF s[i] = x THEN rest[i - 1] ELSE Append(rest[i - 1], s[i])
      BY <2>1, <3>1
    <3> QED
      BY <1>1, <2>3, <3>1, <3>2
  <2>4. H \in SUBSET (0 .. n) /\ 0 \in H /\ \A i \in 1 .. n : i - 1 \in H => i \in H
    BY <1>1, <2>2, <2>3
  <2>5. H = 0 .. n
    <3> HIDE DEF H
    <3> QED
      BY <1>1, <2>4, UpTo
  <2> QED
    BY <2>5
<1>8. Without(s, x) = rest[n]
  BY DEF Without
<1> QED
  <2> HIDE DEF rest, n
  <2> QED
    BY <1>1, <1>7, <1>8

(***************************************************************************)
(* Code.                                                                   *)
(***************************************************************************)
(* The instructions of a Run and what their operands name.                 *)
LEMMA CodeOfRun ==
  ASSUME NEW p \in Programs, NEW o \in Objects \cup {Main}, NEW i \in 1 .. Len(p.code[o])
  PROVE  /\ Len(p.code[o]) \in Nat /\ 1 \in 1 .. Len(p.code[o])
         /\ p.code[o][i].op \in {"EXECUTE", "JOIN", "GETID"} => p.code[o][i].of \in Objects
         /\ p.code[o][i].op \in {"CRITICAL_START", "CRITICAL_END"} => p.code[o][i].of \in Mutexes
         /\ p.code[o][i].op # "RTRN" => i + 1 \in 1 .. Len(p.code[o])
<1> DEFINE c == p.code[o]
<1>1. c \in Seq(Ops) /\ c # <<>> /\ Last(c).op = "RTRN"
  BY ProgramAssumption
<1>2. c[Len(c)].op = "RTRN" /\ Len(c) \in Nat /\ Len(c) > 0
  BY <1>1 DEF Last
<1>3. c[i] \in Ops
  BY <1>1
<1>4. /\ c[i].op \in {"EXECUTE", "JOIN", "GETID"} => c[i].of \in Objects
      /\ c[i].op \in {"CRITICAL_START", "CRITICAL_END"} => c[i].of \in Mutexes
  BY <1>3 DEF Ops
<1> QED
  BY <1>2, <1>4

(* ... as a thread meets them.                                             *)
LEMMA InstrOfThread ==
  ASSUME TypeOK, NEW t \in Tids, run[t] # None
  PROVE  /\ run[t] \in Objects \cup {Main}
         /\ Instr(t).op \in {"EXECUTE", "JOIN", "GETID"} => Operand(t) \in Objects
         /\ Instr(t).op \in {"CRITICAL_START", "CRITICAL_END"} => Operand(t) \in Mutexes
         /\ Instr(t).op # "RTRN" => ip[t] + 1 \in 1 .. Len(program.code[run[t]])
<1>1. program \in Programs /\ run[t] \in Objects \cup {Main} /\ ip[t] \in 1 .. Len(program.code[run[t]])
  BY DEF TypeOK
<1> QED
  BY <1>1, CodeOfRun DEF Instr, Operand

(***************************************************************************)
(* Types.                                                                  *)
(***************************************************************************)
\* Where a thread is says which instruction it is at.
AtInstructions ==
  \A t \in Tids :
    /\ at[t] \in {"created", "assigned"} => Instr(t).op = "EXECUTE" /\ vm_thread[t] \in Tids
    /\ at[t] = "join" => Instr(t).op = "JOIN"
    /\ at[t] \in {"remove", "ended", "shutdown"} => Instr(t).op = "RTRN"

Base == TypeOK /\ AtInstructions

LEMMA InitBase == Init => Base
<1> SUFFICES ASSUME Init PROVE Base
  OBVIOUS
<1> USE DEF Init
<1>1. /\ MainTid \in Tids /\ program \in Programs /\ run[MainTid] = Main
      /\ None # Main /\ Main \in Objects \cup {Main}
  BY NameAssumption
<1>2. TypeOK
  <2>1. 1 \in 1 .. Len(program.code[Main])
    <3>1. Len(program.code[Main]) \in Nat /\ program.code[Main] # <<>> /\ program.code[Main] \in Seq(Ops)
      BY <1>1, ProgramAssumption
    <3> QED
      BY <3>1
  <2>2. \A t \in Tids : run[t] = None <=> at[t] = "off"
    BY <1>1
  <2>3. \A t \in Tids : run[t] # None => ip[t] \in 1 .. Len(program.code[run[t]])
    BY <1>1, <2>1
  <2> QED
    BY <1>1, <2>2, <2>3 DEF TypeOK, Places
<1>3. AtInstructions
  BY DEF AtInstructions
<1> QED
  BY <1>2, <1>3 DEF Base

(* A step that leaves a thread where it is, at the same instruction.       *)
LEMMA InstrKept ==
  ASSUME NEW t \in Tids, program' = program, run'[t] = run[t], ip'[t] = ip[t]
  PROVE  Instr(t)' = Instr(t)
BY DEF Instr

(***************************************************************************)
(* One lemma per action.                                                   *)
(***************************************************************************)
LEMMA ProcessAsyncMethodCallTypes ==
  ASSUME Base, NEW t \in Tids, ProcessAsyncMethodCall(t)
  PROVE  Base'
<1> USE DEF Base, ProcessAsyncMethodCall, AtOp, Up
<1>1. PICK u \in Tids :
        /\ at[u] = "off"
        /\ at' = [at EXCEPT ![t] = "created", ![u] = "run"]
        /\ run' = [run EXCEPT ![u] = Operand(t)] /\ ip' = [ip EXCEPT ![u] = 1]
        /\ vm_thread' = [vm_thread EXCEPT ![t] = u]
  OBVIOUS
<1>2. /\ u # t /\ run[t] # None
      /\ at'[t] = "created" /\ at'[u] = "run" /\ run'[u] = Operand(t) /\ ip'[u] = 1
      /\ vm_thread'[t] = u
      /\ \A v \in Tids \ {u} : run'[v] = run[v] /\ ip'[v] = ip[v]
      /\ \A v \in Tids \ {t, u} : at'[v] = at[v] /\ vm_thread'[v] = vm_thread[v]
      /\ vm_thread'[u] = vm_thread[u]
  BY <1>1 DEF TypeOK
<1>3. Operand(t) \in Objects /\ Operand(t) # None
  BY <1>2, InstrOfThread, NameAssumption
<1>4. 1 \in 1 .. Len(program.code[Operand(t)])
  <2>1. program.code[Operand(t)] \in Seq(Ops) /\ program.code[Operand(t)] # <<>>
    BY <1>3, ProgramAssumption DEF TypeOK
  <2> QED
    BY <2>1
<1>5. TypeOK'
  <2>1. at' \in [Tids -> Places] /\ run' \in [Tids -> Objects \cup {Main, None}]
        /\ ip' \in [Tids -> Nat] /\ vm_thread' \in [Tids -> Tids \cup {None}]
    BY <1>1, <1>3 DEF TypeOK, Places
  <2>2. \A v \in Tids : run'[v] = None <=> at'[v] = "off"
    BY <1>2, <1>3 DEF TypeOK
  <2>3. \A v \in Tids : run'[v] # None => ip'[v] \in 1 .. Len(program.code[run'[v]])
    BY <1>2, <1>4 DEF TypeOK
  <2> QED
    BY <2>1, <2>2, <2>3 DEF TypeOK
<1>6. AtInstructions'
  <2>1. \A v \in Tids \ {u} : Instr(v)' = Instr(v)
    BY <1>2, InstrKept
  <2>2. ASSUME NEW v \in Tids
        PROVE  /\ at'[v] \in {"created", "assigned"} => Instr(v)'.op = "EXECUTE" /\ vm_thread'[v] \in Tids
               /\ at'[v] = "join" => Instr(v)'.op = "JOIN"
               /\ at'[v] \in {"remove", "ended", "shutdown"} => Instr(v)'.op = "RTRN"
    <3>1. CASE v = t
      <4>1. Instr(t)' = Instr(t) /\ Instr(t).op = "EXECUTE"
        BY <1>2, <2>1
      <4> QED
        BY <1>2, <3>1, <4>1
    <3>2. CASE v = u
      BY <1>2, <3>2
    <3>3. CASE v \notin {t, u}
      <4>1. Instr(v)' = Instr(v) /\ at'[v] = at[v] /\ vm_thread'[v] = vm_thread[v]
        BY <1>2, <2>1, <3>3
      <4> QED
        BY <4>1 DEF AtInstructions
    <3> QED
      BY <3>1, <3>2, <3>3
  <2> QED
    BY <2>2 DEF AtInstructions
<1> QED
  BY <1>5, <1>6

LEMMA AssignIdTypes ==
  ASSUME Base, NEW t \in Tids, AssignId(t)
  PROVE  Base'
<1> USE DEF Base, AssignId, Up
<1>1. run[t] # None /\ vm_thread[t] \in Tids /\ Operand(t) \in Objects
  BY InstrOfThread DEF TypeOK, AtInstructions
<1>2. at'[t] = "assigned" /\ \A v \in Tids \ {t} : at'[v] = at[v]
  BY DEF TypeOK
<1>3. TypeOK'
  BY <1>1, <1>2 DEF TypeOK, Places
<1>4. \A v \in Tids : Instr(v)' = Instr(v)
  BY InstrKept
<1>5. AtInstructions'
  BY <1>2, <1>4 DEF AtInstructions
<1> QED
  BY <1>3, <1>5

(* A thread that goes on has a next instruction unless it is at a RTRN.    *)
LEMMA GoOnTypes ==
  ASSUME Base, NEW t \in Tids, run[t] # None, Instr(t).op # "RTRN", GoOn(t),
         UNCHANGED <<program, run, joiner, to_join, process>>,
         vm_thread' \in [Tids -> Tids \cup {None}],
         \A v \in Tids \ {t} : vm_thread'[v] = vm_thread[v],
         id' \in [Objects -> Tids \cup {None}], owner' \in [Mutexes -> Tids \cup {None}],
         thread_ids' \in Seq(Tids)
  PROVE  Base'
<1> USE DEF Base, GoOn
<1>1. ip[t] + 1 \in 1 .. Len(program.code[run[t]])
  BY InstrOfThread
<1>2. /\ at'[t] = "run" /\ ip'[t] = ip[t] + 1
      /\ \A v \in Tids \ {t} : at'[v] = at[v] /\ ip'[v] = ip[v]
  BY DEF TypeOK
<1>3. TypeOK'
  <2>1. at' \in [Tids -> Places] /\ ip' \in [Tids -> Nat]
    BY <1>1 DEF TypeOK, Places
  <2>2. \A v \in Tids : run'[v] = None <=> at'[v] = "off"
    BY <1>2 DEF TypeOK
  <2>3. \A v \in Tids : run'[v] # None => ip'[v] \in 1 .. Len(program.code[run'[v]])
    BY <1>1, <1>2 DEF TypeOK
  <2> QED
    BY <2>1, <2>2, <2>3 DEF TypeOK
<1>4. \A v \in Tids \ {t} : Instr(v)' = Instr(v)
  BY <1>2, InstrKept
<1>5. AtInstructions'
  BY <1>2, <1>4 DEF AtInstructions
<1> QED
  BY <1>3, <1>5

(* A thread that only comes to another place, at the same instruction.     *)
LEMMA MoveTypes ==
  ASSUME Base, NEW t \in Tids, NEW place \in Places \ {"off"}, run[t] # None,
         at' = [at EXCEPT ![t] = place], UNCHANGED <<program, run, ip, vm_thread>>,
         place \notin {"created", "assigned"},
         place = "join" => Instr(t).op = "JOIN",
         place \in {"remove", "ended", "shutdown"} => Instr(t).op = "RTRN",
         joiner' \in [Tids -> Tids \cup {None}], id' = id, owner' = owner,
         thread_ids' \in Seq(Tids), to_join' \in Seq(Tids), process' = process
  PROVE  Base'
<1> USE DEF Base
<1>1. at'[t] = place /\ \A v \in Tids \ {t} : at'[v] = at[v]
  BY DEF TypeOK
<1>2. TypeOK'
  <2>1. at' \in [Tids -> Places]
    BY DEF TypeOK
  <2>2. \A v \in Tids : run'[v] = None <=> at'[v] = "off"
    BY <1>1 DEF TypeOK
  <2> QED
    BY <2>1, <2>2 DEF TypeOK
<1>3. \A v \in Tids : Instr(v)' = Instr(v)
  BY InstrKept
<1>4. AtInstructions'
  BY <1>1, <1>3 DEF AtInstructions
<1> QED
  BY <1>2, <1>4

(* A step in which no thread moves.                                        *)
LEMMA StillTypes ==
  ASSUME Base, UNCHANGED <<program, threadVars, id, owner, thread_ids, to_join>>,
         process' \in {"up", "returned", "failed"}
  PROVE  Base'
<1> USE DEF Base, threadVars
<1>1. TypeOK'
  BY DEF TypeOK
<1>2. \A v \in Tids : Instr(v)' = Instr(v)
  BY InstrKept
<1>3. AtInstructions'
  BY <1>2 DEF AtInstructions
<1> QED
  BY <1>1, <1>3

(* A join that returns.                                                    *)
LEMMA EndJoinTypes ==
  ASSUME Base, NEW t \in Tids, NEW u \in Tids, NEW place \in {"run", "shutdown"},
         EndJoin(t, u, place), at[t] \in {"join", "shutdown"},
         program' = program, UNCHANGED <<vm_thread, id, owner, thread_ids, process>>,
         to_join' \in Seq(Tids),
         place = "run" => at[t] = "join" /\ ip' = [ip EXCEPT ![u] = 1, ![t] = @ + 1],
         place = "shutdown" => at[t] = "shutdown" /\ ip' = [ip EXCEPT ![u] = 1]
  PROVE  Base'
<1> USE DEF Base, EndJoin
<1>1. /\ u # t /\ run[t] # None /\ run[t] \in Objects \cup {Main}
      /\ at'[t] = place /\ at'[u] = "off" /\ run'[u] = None /\ ip'[u] = 1
      /\ \A v \in Tids \ {t, u} : at'[v] = at[v] /\ run'[v] = run[v] /\ ip'[v] = ip[v]
      /\ run'[t] = run[t]
      /\ ip'[t] = IF place = "run" THEN ip[t] + 1 ELSE ip[t]
  BY InstrOfThread DEF TypeOK
<1>2. place = "run" => ip[t] + 1 \in 1 .. Len(program.code[run[t]])
  BY <1>1, InstrOfThread DEF AtInstructions
<1>3. TypeOK'
  <2>1. at' \in [Tids -> Places] /\ run' \in [Tids -> Objects \cup {Main, None}]
    BY DEF TypeOK, Places
  <2>2. ip' \in [Tids -> Nat]
    <3>1. ip \in [Tids -> Nat]
      BY DEF TypeOK
    <3>2. CASE place = "run"
      <4>1. ip' = [ip EXCEPT ![u] = 1, ![t] = @ + 1]
        BY <3>2
      <4> QED
        BY ONLY <3>1, <4>1
    <3>3. CASE place = "shutdown"
      <4>1. ip' = [ip EXCEPT ![u] = 1]
        BY <3>3
      <4> QED
        BY ONLY <3>1, <4>1
    <3> QED
      BY <3>2, <3>3
  <2>5. joiner' \in [Tids -> Tids \cup {None}]
    BY DEF TypeOK
  <2>3. \A v \in Tids : run'[v] = None <=> at'[v] = "off"
    BY <1>1 DEF TypeOK
  <2>4. \A v \in Tids : run'[v] # None => ip'[v] \in 1 .. Len(program.code[run'[v]])
    BY <1>1, <1>2 DEF TypeOK
  <2> QED
    BY <2>1, <2>2, <2>3, <2>4, <2>5 DEF TypeOK
<1>4. AtInstructions'
  <2>1. \A v \in Tids \ {t, u} : Instr(v)' = Instr(v)
    BY <1>1, InstrKept
  <2>2. place = "shutdown" => Instr(t)' = Instr(t) /\ Instr(t).op = "RTRN"
    BY <1>1, InstrKept DEF AtInstructions
  <2>3. ASSUME NEW v \in Tids
        PROVE  /\ at'[v] \in {"created", "assigned"} => Instr(v)'.op = "EXECUTE" /\ vm_thread'[v] \in Tids
               /\ at'[v] = "join" => Instr(v)'.op = "JOIN"
               /\ at'[v] \in {"remove", "ended", "shutdown"} => Instr(v)'.op = "RTRN"
    <3>1. CASE v = t
      BY <1>1, <2>2, <3>1
    <3>2. CASE v = u
      BY <1>1, <3>2
    <3>3. CASE v \notin {t, u}
      <4>1. Instr(v)' = Instr(v) /\ at'[v] = at[v] /\ vm_thread'[v] = vm_thread[v]
        BY <1>1, <2>1, <3>3
      <4> QED
        BY <4>1 DEF AtInstructions
    <3> QED
      BY <3>1, <3>2, <3>3
  <2> QED
    BY <2>3 DEF AtInstructions
<1> QED
  BY <1>3, <1>4

LEMMA NextBase == Base /\ [Next]_vars => Base'
<1> SUFFICES ASSUME Base, [Next]_vars PROVE Base'
  OBVIOUS
<1> USE DEF Up, AtOp
<1>0. \A t \in Tids : at[t] # "off" => run[t] # None
  BY DEF Base, TypeOK
<1>1. ASSUME NEW t \in Tids, ProcessAsyncMethodCall(t) PROVE Base'
  BY <1>1, ProcessAsyncMethodCallTypes
<1>2. ASSUME NEW t \in Tids, AssignId(t) PROVE Base'
  BY <1>2, AssignIdTypes
<1>3. ASSUME NEW t \in Tids, AddThread(t) PROVE Base'
  <2> USE <1>3 DEF AddThread
  <2>1. vm_thread[t] \in Tids /\ Instr(t).op = "EXECUTE" /\ run[t] # None
    BY <1>0 DEF Base, AtInstructions
  <2>2. thread_ids' \in Seq(Tids)
    BY <2>1 DEF Base, TypeOK
  <2>3. /\ vm_thread' \in [Tids -> Tids \cup {None}]
        /\ \A v \in Tids \ {t} : vm_thread'[v] = vm_thread[v]
    BY DEF Base, TypeOK
  <2>4. id' \in [Objects -> Tids \cup {None}] /\ owner' \in [Mutexes -> Tids \cup {None}]
    BY DEF Base, TypeOK
  <2> QED
    BY <2>1, <2>2, <2>3, <2>4, GoOnTypes
<1>4. ASSUME NEW t \in Tids, ThreadJoin(t) PROVE Base'
  <2> USE <1>4 DEF ThreadJoin
  <2>1. CASE CanJoin(t, id[Operand(t)])
    <3>1. run[t] # None /\ id[Operand(t)] \in Tids
      <4>1. run[t] # None /\ Operand(t) \in Objects
        BY <1>0, InstrOfThread DEF Base
      <4> QED
        BY <2>1, <4>1 DEF CanJoin, Base, TypeOK
    <3>2. joiner' \in [Tids -> Tids \cup {None}] /\ thread_ids' \in Seq(Tids) /\ to_join' \in Seq(Tids)
      BY <2>1, <3>1 DEF StartJoin, Base, TypeOK
    <3>3. at' = [at EXCEPT ![t] = "join"]
      BY <2>1 DEF StartJoin
    <3>5. "join" \in Places \ {"off"}
      BY DEF Places
    <3> QED
      BY <2>1, <3>1, <3>2, <3>3, <3>5, MoveTypes
  <2>2. CASE ~ CanJoin(t, id[Operand(t)])
    BY <2>2, StillTypes DEF threadVars
  <2> QED
    BY <2>1, <2>2
<1>5. ASSUME NEW t \in Tids, Joined(t) PROVE Base'
  <2>1. PICK u \in Tids : EndJoin(t, u, "run") /\ ip' = [ip EXCEPT ![u] = 1, ![t] = @ + 1]
    BY <1>5 DEF Joined
  <2>2. to_join' \in Seq(Tids) /\ at[t] = "join" /\ program' = program
        /\ UNCHANGED <<vm_thread, id, owner, thread_ids, process>>
    BY <1>5 DEF Joined, Base, TypeOK
  <2> QED
    BY <2>1, <2>2, EndJoinTypes
<1>6. ASSUME NEW t \in Tids, CriticalStart(t) \/ CriticalEnd(t) \/ GetExecuteID(t) PROVE Base'
  <2>1. run[t] # None /\ Instr(t).op \in {"CRITICAL_START", "CRITICAL_END", "GETID"} /\ GoOn(t)
    BY <1>0, <1>6 DEF CriticalStart, CriticalEnd, GetExecuteID
  <2>2. UNCHANGED <<program, run, joiner, to_join, process, vm_thread, id, thread_ids>>
    BY <1>6 DEF CriticalStart, CriticalEnd, GetExecuteID
  <2>3. owner' \in [Mutexes -> Tids \cup {None}]
    BY <1>6 DEF CriticalStart, CriticalEnd, GetExecuteID, Base, TypeOK
  <2>4. /\ vm_thread' \in [Tids -> Tids \cup {None}] /\ id' \in [Objects -> Tids \cup {None}]
        /\ thread_ids' \in Seq(Tids)
    BY <2>2 DEF Base, TypeOK
  <2> QED
    BY <2>1, <2>2, <2>3, <2>4, GoOnTypes
<1>7. ASSUME NEW t \in Tids, RunReturns(t) PROVE Base'
  <2>1. /\ run[t] # None /\ at' = [at EXCEPT ![t] = "remove"] /\ Instr(t).op = "RTRN"
        /\ UNCHANGED <<program, run, ip, vm_thread, joiner, id, owner, thread_ids, to_join, process>>
    BY <1>0, <1>7 DEF RunReturns
  <2>2. /\ joiner' \in [Tids -> Tids \cup {None}]
        /\ thread_ids' \in Seq(Tids) /\ to_join' \in Seq(Tids)
    BY <2>1 DEF Base, TypeOK
  <2>5. "remove" \in Places \ {"off"}
    BY DEF Places
  <2> QED
    BY <2>1, <2>2, <2>5, MoveTypes
<1>8. ASSUME NEW t \in Tids, RemoveThread(t) PROVE Base'
  <2>1. /\ run[t] # None /\ at' = [at EXCEPT ![t] = "ended"] /\ Instr(t).op = "RTRN"
        /\ UNCHANGED <<program, run, ip, vm_thread, joiner, id, owner, to_join, process>>
    BY <1>0, <1>8 DEF RemoveThread, Base, AtInstructions
  <2>2. thread_ids \in Seq(Tids)
    BY DEF Base, TypeOK
  <2>3. thread_ids' \in Seq(Tids)
    BY <1>8, <2>2, WithoutType DEF RemoveThread
  <2>4. joiner' \in [Tids -> Tids \cup {None}] /\ to_join' \in Seq(Tids)
    BY <2>1 DEF Base, TypeOK
  <2>5. "ended" \in Places \ {"off"}
    BY DEF Places
  <2> QED
    BY <2>1, <2>3, <2>4, <2>5, MoveTypes
<1>9. ASSUME NEW t \in Tids, MainReturns(t) PROVE Base'
  <2> USE <1>9 DEF MainReturns
  <2>1. CASE program.sanitize
    <3>1. /\ run[t] # None /\ at' = [at EXCEPT ![t] = "shutdown"] /\ Instr(t).op = "RTRN"
          /\ to_join' = thread_ids
          /\ UNCHANGED <<program, run, ip, vm_thread, joiner, id, owner, thread_ids, process>>
      BY <1>0, <2>1
    <3>2. /\ joiner' \in [Tids -> Tids \cup {None}]
          /\ thread_ids' \in Seq(Tids) /\ to_join' \in Seq(Tids)
      BY <3>1 DEF Base, TypeOK
    <3> QED
      BY <3>1, <3>2, MoveTypes, ZenonT(40) DEF Places
  <2>2. CASE ~ program.sanitize
    BY <2>2, StillTypes DEF threadVars
  <2> QED
    BY <2>1, <2>2
<1>10. ASSUME ShutdownJoin PROVE Base'
  <2> USE <1>10 DEF ShutdownJoin
  <2>0. MainTid \in Tids
    BY NameAssumption
  <2>1. CASE CanJoin(MainTid, Head(to_join))
    <3>1. to_join \in Seq(Tids) /\ to_join # <<>>
      BY DEF Base, TypeOK
    <3>2. Head(to_join) \in Tids
      BY <3>1
    <3>3. joiner' \in [Tids -> Tids \cup {None}] /\ thread_ids' \in Seq(Tids) /\ to_join' \in Seq(Tids)
      BY <2>0, <2>1, <3>2 DEF StartJoin, Base, TypeOK
    <3>4. run[MainTid] # None /\ at' = [at EXCEPT ![MainTid] = "shutdown"] /\ Instr(MainTid).op = "RTRN"
      BY <1>0, <2>0, <2>1 DEF StartJoin, Base, AtInstructions
    <3> QED
      BY <2>0, <2>1, <3>3, <3>4, MoveTypes DEF Places
  <2>2. CASE ~ CanJoin(MainTid, Head(to_join))
    BY <2>2, StillTypes DEF threadVars
  <2> QED
    BY <2>1, <2>2
<1>11. ASSUME ShutdownJoined PROVE Base'
  <2> USE <1>11 DEF ShutdownJoined
  <2>1. to_join \in Seq(Tids) /\ to_join # <<>> /\ MainTid \in Tids
    BY NameAssumption DEF Base, TypeOK
  <2>2. Head(to_join) \in Tids /\ Tail(to_join) \in Seq(Tids)
    BY <2>1
  <2>3. /\ EndJoin(MainTid, Head(to_join), "shutdown") /\ at[MainTid] = "shutdown"
        /\ ip' = [ip EXCEPT ![Head(to_join)] = 1] /\ to_join' \in Seq(Tids)
        /\ program' = program /\ UNCHANGED <<vm_thread, id, owner, thread_ids, process>>
    BY <2>2
  <2> DEFINE h == Head(to_join)
  <2>4. /\ EndJoin(MainTid, h, "shutdown") /\ ip' = [ip EXCEPT ![h] = 1] /\ h \in Tids
    BY <2>2, <2>3
  <2> HIDE DEF h
  <2> QED
    BY <2>1, <2>3, <2>4, EndJoinTypes
<1>12. ASSUME ShutdownDone PROVE Base'
  BY <1>12, StillTypes DEF ShutdownDone
<1>13. ASSUME UNCHANGED vars PROVE Base'
  <2>1. process' \in {"up", "returned", "failed"}
    BY <1>13 DEF Base, TypeOK, vars
  <2> QED
    BY <1>13, <2>1, StillTypes DEF vars
<1> QED
  BY <1>1, <1>2, <1>3, <1>4, <1>5, <1>6, <1>7, <1>8, <1>9, <1>10, <1>11, <1>12, <1>13
  DEF Next, ThreadStep, Shutdown

(* The state has its types, and no thread runs out of its code.            *)
THEOREM TypesKept == Spec => []TypeOK
<1>1. Spec => []Base
  BY InitBase, NextBase, PTL DEF Spec
<1> QED
  BY <1>1, PTL DEF Base

(***************************************************************************)
(* Critical sections.                                                      *)
(***************************************************************************)
\* How many sections of m are open before place n of the code, ...
Deep(code, m, n) == Starts(code, m, n) - Ends(code, m, n)

\* ... and where thread t is.
Depth(t, m) == Deep(program.code[run[t]], m, ip[t])

LEMMA PassedFinite ==
  ASSUME NEW code, NEW op, NEW m, NEW n \in Nat
  PROVE  IsFiniteSet(Passed(code, op, m, n)) /\ Cardinality(Passed(code, op, m, n)) \in Nat
<1>1. IsFiniteSet(1 .. n - 1)
  BY FS_Interval
<1>2. Passed(code, op, m, n) \subseteq 1 .. n - 1
  BY DEF Passed
<1>3. IsFiniteSet(Passed(code, op, m, n))
  BY <1>1, <1>2, FS_Subset
<1> QED
  BY <1>3, FS_CardinalityType

(* One instruction further, it counts if it is of that kind.               *)
LEMMA PassedNext ==
  ASSUME NEW code, NEW op, NEW m, NEW n \in Nat \ {0}
  PROVE  Cardinality(Passed(code, op, m, n + 1)) =
           IF code[n].op = op /\ code[n].of = m
           THEN Cardinality(Passed(code, op, m, n)) + 1
           ELSE Cardinality(Passed(code, op, m, n))
<1>1. 1 .. (n + 1) - 1 = (1 .. n - 1) \cup {n} /\ n \notin 1 .. n - 1
  OBVIOUS
<1>2. CASE code[n].op = op /\ code[n].of = m
  <2>1. Passed(code, op, m, n + 1) = Passed(code, op, m, n) \cup {n} /\ n \notin Passed(code, op, m, n)
    BY <1>1, <1>2 DEF Passed
  <2> QED
    BY <1>2, <2>1, PassedFinite, FS_AddElement
<1>3. CASE ~ (code[n].op = op /\ code[n].of = m)
  <2>1. Passed(code, op, m, n + 1) = Passed(code, op, m, n)
    BY <1>1, <1>3 DEF Passed
  <2> QED
    BY <1>3, <2>1
<1> QED
  BY <1>2, <1>3

LEMMA DeepType ==
  ASSUME NEW code, NEW m, NEW n \in Nat
  PROVE  Starts(code, m, n) \in Nat /\ Ends(code, m, n) \in Nat /\ Deep(code, m, n) \in Int
BY PassedFinite DEF Starts, Ends, Deep

LEMMA DeepFirst ==
  ASSUME NEW code, NEW m
  PROVE  Deep(code, m, 1) = 0
<1>1. \A op : Passed(code, op, m, 1) = {}
  BY DEF Passed
<1> QED
  BY <1>1, FS_EmptySet DEF Starts, Ends, Deep

LEMMA DeepNext ==
  ASSUME NEW code, NEW m, NEW n \in Nat \ {0}
  PROVE  Deep(code, m, n + 1) =
           IF code[n].op = "CRITICAL_START" /\ code[n].of = m THEN Deep(code, m, n) + 1
           ELSE IF code[n].op = "CRITICAL_END" /\ code[n].of = m THEN Deep(code, m, n) - 1
           ELSE Deep(code, m, n)
<1>1. "CRITICAL_START" # "CRITICAL_END"
  OBVIOUS
<1> QED
  BY <1>1, PassedNext, DeepType DEF Starts, Ends, Deep

(* A thread is deeper or less deep in sections of m only by a step of its   *)
(* own that locks or unlocks m; a Run begins and ends.                     *)
Level(v, m) ==
  \/ run'[v] = None /\ (run[v] # None => Instr(v).op = "RTRN")
  \/ run'[v] # None /\ run[v] = None /\ Depth(v, m)' = 0
  \/ run'[v] # None /\ run[v] # None /\ Depth(v, m)' = Depth(v, m)

\* The thread stays, or goes on over an instruction that is not for a mutex.
LEMMA StaysLevel ==
  ASSUME Base, NEW v \in Tids, NEW m, program' = program, run'[v] = run[v],
         \/ ip'[v] = ip[v]
         \/ run[v] # None /\ ip'[v] = ip[v] + 1 /\ Instr(v).op \in {"EXECUTE", "JOIN", "GETID"}
  PROVE  Level(v, m)
<1>1. CASE run[v] = None
  BY <1>1 DEF Level
<1>2. CASE run[v] # None /\ ip'[v] = ip[v]
  BY <1>2 DEF Level, Depth
<1>3. CASE run[v] # None /\ ip'[v] = ip[v] + 1 /\ Instr(v).op \in {"EXECUTE", "JOIN", "GETID"}
  <2>1. ip[v] \in Nat \ {0}
    BY <1>3 DEF Base, TypeOK
  <2>2. Depth(v, m)' = Depth(v, m)
    BY <1>3, <2>1, DeepNext DEF Depth, Instr
  <2> QED
    BY <1>3, <2>2 DEF Level
<1> QED
  BY <1>1, <1>2, <1>3

\* A Run begins.
LEMMA BeginsLevel ==
  ASSUME NEW v, NEW m, run[v] = None, run'[v] # None, ip'[v] = 1
  PROVE  Level(v, m)
BY DeepFirst DEF Level, Depth

LEMMA StepsLevel ==
  ASSUME Base, [Next]_vars,
         \A t \in Tids : ~ CriticalStart(t) /\ ~ CriticalEnd(t)
  PROVE  owner' = owner /\ \A v \in Tids, m \in Mutexes : Level(v, m)
<1> USE DEF Up, AtOp
<1>0. \A t \in Tids : (at[t] # "off" => run[t] # None) /\ (run[t] = None <=> at[t] = "off")
  BY DEF Base, TypeOK
<1>1. ASSUME NEW t \in Tids, ProcessAsyncMethodCall(t)
      PROVE  owner' = owner /\ \A v \in Tids, m \in Mutexes : Level(v, m)
  <2>1. PICK u \in Tids :
          /\ at[u] = "off"
          /\ run' = [run EXCEPT ![u] = Operand(t)] /\ ip' = [ip EXCEPT ![u] = 1]
    BY <1>1 DEF ProcessAsyncMethodCall
  <2>2. Operand(t) # None /\ owner' = owner /\ program' = program
    BY <1>0, <1>1, InstrOfThread, NameAssumption DEF ProcessAsyncMethodCall, Base
  <2>3. \A v \in Tids \ {u} : run'[v] = run[v] /\ ip'[v] = ip[v]
    BY <2>1 DEF Base, TypeOK
  <2>4. run[u] = None /\ run'[u] # None /\ ip'[u] = 1
    BY <1>0, <2>1, <2>2 DEF Base, TypeOK
  <2> QED
    BY <2>2, <2>3, <2>4, StaysLevel, BeginsLevel
<1>2. ASSUME UNCHANGED <<program, run, ip, owner>>
      PROVE  owner' = owner /\ \A v \in Tids, m \in Mutexes : Level(v, m)
  BY <1>2, StaysLevel
<1>3. ASSUME NEW t \in Tids, AddThread(t) \/ GetExecuteID(t)
      PROVE  owner' = owner /\ \A v \in Tids, m \in Mutexes : Level(v, m)
  <2>1. owner' = owner /\ program' = program /\ run' = run /\ run[t] # None
        /\ ip' = [ip EXCEPT ![t] = @ + 1] /\ Instr(t).op \in {"EXECUTE", "JOIN", "GETID"}
    BY <1>0, <1>3 DEF AddThread, GetExecuteID, GoOn, Base, AtInstructions
  <2>2. ip'[t] = ip[t] + 1 /\ \A v \in Tids \ {t} : ip'[v] = ip[v]
    BY <2>1 DEF Base, TypeOK
  <2> QED
    BY <2>1, <2>2, StaysLevel
<1>4. ASSUME NEW t \in Tids, NEW u \in Tids, NEW place, EndJoin(t, u, place),
             program' = program, owner' = owner, at[t] # "ended",
             \/ ip' = [ip EXCEPT ![u] = 1, ![t] = @ + 1] /\ at[t] = "join"
             \/ ip' = [ip EXCEPT ![u] = 1]
      PROVE  owner' = owner /\ \A v \in Tids, m \in Mutexes : Level(v, m)
  <2>1. run' = [run EXCEPT ![u] = None] /\ at[u] = "ended" /\ u # t
    BY <1>4 DEF EndJoin
  <2>2. run'[u] = None /\ Instr(u).op = "RTRN" /\ \A v \in Tids \ {u} : run'[v] = run[v]
    BY <2>1 DEF Base, TypeOK, AtInstructions
  <2>3. \A v \in Tids \ {u, t} : ip'[v] = ip[v]
    BY <1>4 DEF Base, TypeOK
  <2>4. ip'[t] = ip[t] \/ (ip'[t] = ip[t] + 1 /\ run[t] # None /\ Instr(t).op = "JOIN")
    BY <1>0, <1>4, <2>1 DEF Base, TypeOK, AtInstructions
  <2>5. \A m : Level(u, m)
    BY <2>2 DEF Level
  <2>6. \A m : Level(t, m)
    BY <1>4, <2>1, <2>2, <2>4, StaysLevel
  <2>7. \A v \in Tids \ {u, t} : \A m : Level(v, m)
    BY <1>4, <2>2, <2>3, StaysLevel
  <2> QED
    BY <1>4, <2>5, <2>6, <2>7
<1>5. ASSUME NEW t \in Tids, Joined(t)
      PROVE  owner' = owner /\ \A v \in Tids, m \in Mutexes : Level(v, m)
  <2>1. PICK u \in Tids : EndJoin(t, u, "run") /\ ip' = [ip EXCEPT ![u] = 1, ![t] = @ + 1]
    BY <1>5 DEF Joined
  <2>2. program' = program /\ owner' = owner /\ at[t] = "join"
    BY <1>5 DEF Joined
  <2> QED
    BY <1>4, <2>1, <2>2
<1>6. ASSUME ShutdownJoined
      PROVE  owner' = owner /\ \A v \in Tids, m \in Mutexes : Level(v, m)
  <2> DEFINE h == Head(to_join)
  <2>1. to_join \in Seq(Tids) /\ to_join # <<>> /\ MainTid \in Tids
    BY <1>6, NameAssumption DEF ShutdownJoined, Base, TypeOK
  <2>2. h \in Tids
    BY <2>1
  <2>3. /\ EndJoin(MainTid, h, "shutdown") /\ ip' = [ip EXCEPT ![h] = 1]
        /\ at[MainTid] = "shutdown" /\ program' = program /\ owner' = owner
    BY <1>6 DEF ShutdownJoined
  <2> HIDE DEF h
  <2> QED
    BY <1>4, <2>1, <2>2, <2>3
<1>7. ASSUME NEW t \in Tids,
             AssignId(t) \/ ThreadJoin(t) \/ RunReturns(t) \/ RemoveThread(t) \/ MainReturns(t)
      PROVE  UNCHANGED <<program, run, ip, owner>>
  BY <1>7 DEF AssignId, ThreadJoin, RunReturns, RemoveThread, MainReturns
<1>8. ASSUME ShutdownJoin \/ ShutdownDone \/ UNCHANGED vars
      PROVE  UNCHANGED <<program, run, ip, owner>>
  BY <1>8 DEF ShutdownJoin, ShutdownDone, vars, threadVars
<1> QED
  BY <1>1, <1>2, <1>3, <1>5, <1>6, <1>7, <1>8 DEF Next, ThreadStep, Shutdown

\* Locking and unlocking k move one thread by one level of k.
LEMMA LockSteps ==
  ASSUME Base, NEW t \in Tids, CriticalStart(t) \/ CriticalEnd(t), NEW k, k = Operand(t)
  PROVE  /\ run[t] # None /\ k \in Mutexes /\ run' = run /\ program' = program
         /\ \A v \in Tids \ {t}, m \in Mutexes : Depth(v, m)' = Depth(v, m)
         /\ \A m \in Mutexes \ {k} : Depth(t, m)' = Depth(t, m) /\ owner'[m] = owner[m]
         /\ CriticalStart(t) =>
              Depth(t, k)' = Depth(t, k) + 1 /\ owner[k] = None /\ owner'[k] = t
         /\ CriticalEnd(t) =>
              /\ Depth(t, k)' = Depth(t, k) - 1 /\ owner'[k] = None
              /\ Instr(t).op = "CRITICAL_END"
<1> USE DEF CriticalStart, CriticalEnd, AtOp, Up
<1>1. /\ run[t] # None /\ Instr(t).op \in {"CRITICAL_START", "CRITICAL_END"}
      /\ Instr(t).of = k
  BY DEF Base, TypeOK, Operand
<1>2. k \in Mutexes
  BY <1>1, InstrOfThread DEF Base
<1>3. run' = run /\ program' = program /\ ip' = [ip EXCEPT ![t] = @ + 1]
  BY DEF GoOn
<1>4. ip'[t] = ip[t] + 1 /\ ip[t] \in Nat \ {0} /\ \A v \in Tids \ {t} : ip'[v] = ip[v]
  BY <1>1, <1>3 DEF Base, TypeOK
<1>5. \A v \in Tids \ {t}, m \in Mutexes : Depth(v, m)' = Depth(v, m)
  BY <1>3, <1>4 DEF Depth
<1> DEFINE c == program.code[run[t]]
<1>6. /\ \A m \in Mutexes : Depth(t, m) = Deep(c, m, ip[t]) /\ Depth(t, m)' = Deep(c, m, ip[t] + 1)
      /\ c[ip[t]].op = Instr(t).op /\ c[ip[t]].of = k
  BY <1>1, <1>3, <1>4 DEF Depth, Instr
<1> HIDE DEF c
<1>7. \A m \in Mutexes \ {k} : Depth(t, m)' = Depth(t, m)
  BY <1>4, <1>6, DeepNext
<1>8. Depth(t, k)' = IF Instr(t).op = "CRITICAL_START" THEN Depth(t, k) + 1 ELSE Depth(t, k) - 1
  BY <1>1, <1>2, <1>4, <1>6, DeepNext
<1>9. \A m \in Mutexes \ {k} : owner'[m] = owner[m]
  BY DEF Base, TypeOK
<1>10. /\ CriticalStart(t) => Instr(t).op = "CRITICAL_START" /\ owner[k] = None /\ owner'[k] = t
       /\ CriticalEnd(t) => Instr(t).op = "CRITICAL_END" /\ owner'[k] = None
  BY <1>2 DEF Base, TypeOK
<1>11. "CRITICAL_START" # "CRITICAL_END"
  OBVIOUS
<1> HIDE DEF CriticalStart, CriticalEnd
<1> QED
  BY <1>1, <1>2, <1>3, <1>5, <1>7, <1>8, <1>9, <1>10, <1>11

\* A thread inside a section of m holds m, which is not locked twice, ...
HeldInside ==
  \A t \in Tids, m \in Mutexes :
    run[t] # None => Depth(t, m) <= 1 /\ (Depth(t, m) > 0 => owner[m] = t)

\* ... and a thread that holds m is inside a section of it.
InsideHeld ==
  \A t \in Tids, m \in Mutexes :
    /\ owner[m] = t => run[t] # None /\ Depth(t, m) > 0
    /\ run[t] # None => Depth(t, m) >= 0

LEMMA DepthType ==
  ASSUME Base, NEW t \in Tids, NEW m \in Mutexes, run[t] # None
  PROVE  Depth(t, m) \in Int /\ program.code[run[t]] \in AllCode /\ ip[t] \in DOMAIN program.code[run[t]]
<1>1. program \in Programs /\ run[t] \in Objects \cup {Main} /\ ip[t] \in 1 .. Len(program.code[run[t]])
  BY DEF Base, TypeOK
<1>2. program.code[run[t]] \in Seq(Ops) /\ ip[t] \in Nat
  BY <1>1, ProgramAssumption DEF Base, TypeOK
<1> QED
  BY <1>1, <1>2, DeepType DEF Depth, AllCode

LEMMA InitSections == Init => HeldInside /\ InsideHeld
<1> SUFFICES ASSUME Init PROVE HeldInside /\ InsideHeld
  OBVIOUS
<1>1. \A t \in Tids, m \in Mutexes : Depth(t, m) = 0 /\ owner[m] = None /\ t # None
  BY DeepFirst, NameAssumption DEF Init, Depth
<1> QED
  BY <1>1 DEF HeldInside, InsideHeld

\* Where the code has its brackets in order, a mutex is released by its holder.
LEMMA NextHeld ==
  ASSUME \A code \in AllCode : Bracketed(code), Base, Base', HeldInside, [Next]_vars
  PROVE  HeldInside'
<1>0. \A v \in Tids, m \in Mutexes : run'[v] # None => Depth(v, m)' \in Int
  <2> SUFFICES ASSUME NEW v \in Tids, NEW m \in Mutexes, run'[v] # None PROVE Depth(v, m)' \in Int
    OBVIOUS
  <2>1. ip'[v] \in Nat
    BY DEF Base, TypeOK
  <2> QED
    BY <2>1, DeepType DEF Depth
<1>1. CASE \A t \in Tids : ~ CriticalStart(t) /\ ~ CriticalEnd(t)
  <2>1. owner' = owner /\ \A v \in Tids, m \in Mutexes : Level(v, m)
    BY <1>1, StepsLevel
  <2> QED
    BY <2>1 DEF Level, HeldInside
<1>2. ASSUME NEW t \in Tids, CriticalStart(t) PROVE HeldInside'
  <2>0. PICK k : k = Operand(t)
    OBVIOUS
  <2>1. /\ run[t] # None /\ k \in Mutexes /\ run' = run
        /\ \A v \in Tids \ {t}, m \in Mutexes : Depth(v, m)' = Depth(v, m)
        /\ \A m \in Mutexes \ {k} : Depth(t, m)' = Depth(t, m) /\ owner'[m] = owner[m]
        /\ Depth(t, k)' = Depth(t, k) + 1 /\ owner[k] = None /\ owner'[k] = t
    BY <1>2, <2>0, LockSteps
  <2>2. \A v \in Tids : v # None
    BY NameAssumption
  <2>3. \A v \in Tids : run[v] # None => Depth(v, k) \in Int /\ Depth(v, k) <= 0
    BY <2>1, <2>2, DepthType DEF HeldInside
  <2> QED
    BY <2>1, <2>2, <2>3 DEF HeldInside
<1>3. ASSUME NEW t \in Tids, CriticalEnd(t) PROVE HeldInside'
  <2>0. PICK k : k = Operand(t)
    OBVIOUS
  <2>1. /\ run[t] # None /\ k \in Mutexes /\ run' = run
        /\ \A v \in Tids \ {t}, m \in Mutexes : Depth(v, m)' = Depth(v, m)
        /\ \A m \in Mutexes \ {k} : Depth(t, m)' = Depth(t, m) /\ owner'[m] = owner[m]
        /\ Depth(t, k)' = Depth(t, k) - 1 /\ owner'[k] = None
        /\ Instr(t).op = "CRITICAL_END"
    BY <1>3, <2>0, LockSteps
  <2>2. Depth(t, k) > 0
    <3> DEFINE c == program.code[run[t]]
    <3>1. c \in AllCode /\ ip[t] \in DOMAIN c /\ ip[t] \in Nat
      BY <2>1, DepthType DEF Base, TypeOK
    <3>2. c[ip[t]].op = "CRITICAL_END" /\ c[ip[t]].of = k
      BY <2>0, <2>1 DEF Instr, Operand
    <3>3. Starts(c, k, ip[t]) > Ends(c, k, ip[t])
      BY <2>1, <3>1, <3>2 DEF Bracketed
    <3> QED
      BY <3>1, <3>3, DeepType DEF Depth, Deep
  <2>3. owner[k] = t /\ Depth(t, k) = 1
    BY <2>1, <2>2, DepthType DEF HeldInside
  <2>4. \A v \in Tids \ {t} : run[v] # None => Depth(v, k) \in Int /\ Depth(v, k) <= 0
    BY <2>1, <2>3, DepthType DEF HeldInside
  <2> QED
    BY <2>1, <2>3, <2>4 DEF HeldInside
<1> QED
  BY <1>1, <1>2, <1>3

\* Where no section is left open a Run that is over holds nothing.
LEMMA NothingHeld ==
  ASSUME \A code \in AllCode : Closed(code), Base, InsideHeld,
         NEW v \in Tids, run[v] # None => Instr(v).op = "RTRN"
  PROVE  \A m \in Mutexes : owner[m] # v
<1> SUFFICES ASSUME NEW m \in Mutexes, owner[m] = v PROVE FALSE
  OBVIOUS
<1> DEFINE c == program.code[run[v]]
<1>1. run[v] # None /\ Depth(v, m) > 0
  BY DEF InsideHeld
<1>2. c \in AllCode /\ ip[v] \in DOMAIN c /\ ip[v] \in Nat /\ c[ip[v]].op = "RTRN"
  BY <1>1, DepthType DEF Base, TypeOK, Instr
<1>3. Starts(c, m, ip[v]) = Ends(c, m, ip[v])
  BY <1>2 DEF Closed
<1> QED
  BY <1>1, <1>2, <1>3, DeepType DEF Depth, Deep

LEMMA NextInside ==
  ASSUME \A code \in AllCode : Bracketed(code) /\ Closed(code),
         Base, Base', HeldInside, InsideHeld, [Next]_vars
  PROVE  InsideHeld'
<1>1. CASE \A t \in Tids : ~ CriticalStart(t) /\ ~ CriticalEnd(t)
  <2>1. owner' = owner /\ \A v \in Tids, m \in Mutexes : Level(v, m)
    BY <1>1, StepsLevel
  <2>2. ASSUME NEW v \in Tids, NEW m \in Mutexes
        PROVE  /\ owner'[m] = v => run'[v] # None /\ Depth(v, m)' > 0
               /\ run'[v] # None => Depth(v, m)' >= 0
    <3>1. CASE run'[v] = None /\ (run[v] # None => Instr(v).op = "RTRN")
      <4>1. owner[m] # v
        BY <3>1, NothingHeld
      <4> QED
        BY <2>1, <3>1, <4>1
    <3>2. CASE run'[v] # None /\ run[v] = None /\ Depth(v, m)' = 0
      BY <2>1, <3>2 DEF InsideHeld
    <3>3. CASE run'[v] # None /\ run[v] # None /\ Depth(v, m)' = Depth(v, m)
      BY <2>1, <3>3 DEF InsideHeld
    <3> QED
      BY <2>1, <3>1, <3>2, <3>3 DEF Level
  <2> QED
    BY <2>2 DEF InsideHeld
<1>2. ASSUME NEW t \in Tids, CriticalStart(t) PROVE InsideHeld'
  <2>0. PICK k : k = Operand(t)
    OBVIOUS
  <2>1. /\ run[t] # None /\ k \in Mutexes /\ run' = run
        /\ \A v \in Tids \ {t}, m \in Mutexes : Depth(v, m)' = Depth(v, m)
        /\ \A m \in Mutexes \ {k} : Depth(t, m)' = Depth(t, m) /\ owner'[m] = owner[m]
        /\ Depth(t, k)' = Depth(t, k) + 1 /\ owner[k] = None /\ owner'[k] = t
    BY <1>2, <2>0, LockSteps
  <2>2. Depth(t, k) \in Int /\ Depth(t, k) >= 0
    BY <2>1, DepthType DEF InsideHeld
  <2> QED
    BY <2>1, <2>2 DEF InsideHeld
<1>3. ASSUME NEW t \in Tids, CriticalEnd(t) PROVE InsideHeld'
  <2>0. PICK k : k = Operand(t)
    OBVIOUS
  <2>1. /\ run[t] # None /\ k \in Mutexes /\ run' = run
        /\ \A v \in Tids \ {t}, m \in Mutexes : Depth(v, m)' = Depth(v, m)
        /\ \A m \in Mutexes \ {k} : Depth(t, m)' = Depth(t, m) /\ owner'[m] = owner[m]
        /\ Depth(t, k)' = Depth(t, k) - 1 /\ owner'[k] = None
        /\ Instr(t).op = "CRITICAL_END"
    BY <1>3, <2>0, LockSteps
  <2> DEFINE c == program.code[run[t]]
  <2>2. c \in AllCode /\ ip[t] \in DOMAIN c /\ ip[t] \in Nat /\ Depth(t, k) \in Int
    BY <2>1, DepthType DEF Base, TypeOK
  <2>3. c[ip[t]].op = "CRITICAL_END" /\ c[ip[t]].of = k
    BY <2>0, <2>1 DEF Instr, Operand
  <2>4. Starts(c, k, ip[t]) > Ends(c, k, ip[t])
    BY <2>1, <2>2, <2>3 DEF Bracketed
  <2>5. Depth(t, k) > 0
    BY <2>2, <2>4, DeepType DEF Depth, Deep
  <2>6. Depth(t, k)' >= 0
    BY <2>1, <2>2, <2>5
  <2>7. \A v \in Tids : v # None
    BY NameAssumption
  <2> HIDE DEF c
  <2> QED
    BY <2>1, <2>6, <2>7 DEF InsideHeld
<1> QED
  BY <1>1, <1>2, <1>3

(* One thread at a time is in the sections of a mutex, where every code ends
   only sections it has begun.                                             *)
THEOREM SectionsExclude ==
  ASSUME \A code \in AllCode : Bracketed(code)
  PROVE  Spec => []MutualExclusion
<1>1. Init => Base /\ HeldInside
  BY InitBase, InitSections
<1>2. Base /\ HeldInside /\ [Next]_vars => (Base /\ HeldInside)'
  BY NextBase, NextHeld
<1>3. Base /\ HeldInside => MutualExclusion
  <2> SUFFICES ASSUME Base, HeldInside, NEW m \in Mutexes, NEW t \in Tids, NEW u \in Tids,
                      Inside(t, m), Inside(u, m)
               PROVE  t = u
    BY DEF MutualExclusion
  <2>1. ASSUME NEW v \in Tids, Inside(v, m) PROVE owner[m] = v
    <3>1. ip[v] \in Nat
      BY DEF Base, TypeOK
    <3>2. Depth(v, m) > 0
      BY <2>1, <3>1, DeepType DEF Inside, Depth, Deep
    <3> QED
      BY <2>1, <3>2 DEF Inside, HeldInside
  <2> QED
    BY <2>1
<1> QED
  BY <1>1, <1>2, <1>3, PTL DEF Spec

(* A Run that is over holds no mutex, where moreover no section is left by a
   return or a break.                                                      *)
THEOREM SectionsAreReleased ==
  ASSUME \A code \in AllCode : Bracketed(code) /\ Closed(code)
  PROVE  Spec => []SectionsReleased
<1> DEFINE IInv == Base /\ HeldInside /\ InsideHeld
<1>1. Init => IInv
  BY InitBase, InitSections
<1>2. IInv /\ [Next]_vars => IInv'
  BY NextBase, NextHeld, NextInside
<1>3. IInv => SectionsReleased
  <2> SUFFICES ASSUME Base, InsideHeld, NEW m \in Mutexes, owner[m] # None,
                      at[owner[m]] \in {"off", "remove", "ended"}
               PROVE  FALSE
    BY DEF SectionsReleased
  <2>1. owner[m] \in Tids
    BY DEF Base, TypeOK
  <2>2. run[owner[m]] # None => Instr(owner[m]).op = "RTRN"
    BY <2>1 DEF Base, TypeOK, AtInstructions
  <2> QED
    BY <2>1, <2>2, NothingHeld
<1> HIDE DEF IInv
<1> QED
  BY <1>1, <1>2, <1>3, PTL DEF Spec

(***************************************************************************)
(* What the compiler emits has its brackets in order.                      *)
(***************************************************************************)
\* Code in which every section is begun and ended, with no return in it.
Balanced(code) ==
  /\ code \in Seq(Ops) /\ Bracketed(code)
  /\ \A n \in DOMAIN code : code[n].op # "RTRN"
  /\ \A m \in Mutexes : Deep(code, m, Len(code) + 1) = 0

\* Sections open in a part of the code are those open in the code.
LEMMA DeepPrefix ==
  ASSUME NEW S, NEW a \in Seq(S), NEW b \in Seq(S), NEW m, NEW n \in 1 .. Len(a) + 1
  PROVE  Deep(a \o b, m, n) = Deep(a, m, n)
<1>1. Len(a) \in Nat /\ \A i \in 1 .. n - 1 : (a \o b)[i] = a[i]
  OBVIOUS
<1>2. \A op : Passed(a \o b, op, m, n) = Passed(a, op, m, n)
  BY <1>1 DEF Passed
<1> QED
  BY <1>2 DEF Deep, Starts, Ends

\* The same instruction opens or ends the same sections wherever it is.
LEMMA DeepSame ==
  ASSUME NEW c, NEW d, NEW m, NEW p \in Nat \ {0}, NEW q \in Nat \ {0}, c[p] = d[q],
         NEW base \in Int, Deep(c, m, p) = base + Deep(d, m, q)
  PROVE  Deep(c, m, p + 1) = base + Deep(d, m, q + 1)
<1>1. Deep(c, m, p) \in Int /\ Deep(d, m, q) \in Int
  BY DeepType
<1>2. Deep(c, m, p + 1) - Deep(c, m, p) = Deep(d, m, q + 1) - Deep(d, m, q)
  BY <1>1, DeepNext
<1>3. Deep(c, m, p + 1) \in Int /\ Deep(d, m, q + 1) \in Int
  BY DeepType
<1> QED
  BY <1>1, <1>2, <1>3

\* After it, those of the rest come to those it left open.
LEMMA DeepSuffix ==
  ASSUME NEW S, NEW a, a \in Seq(S), NEW b, b \in Seq(S), NEW m, NEW n \in 1 .. Len(b) + 1
  PROVE  Deep(a \o b, m, Len(a) + n) = Deep(a, m, Len(a) + 1) + Deep(b, m, n)
<1> DEFINE D(i) == Deep(a \o b, m, Len(a) + 1 + i)
           E(i) == Deep(b, m, 1 + i)
           base == Deep(a, m, Len(a) + 1)
           k == Len(b)
           H == {i \in 0 .. k : D(i) = base + E(i)}
<1>1. Len(a) \in Nat /\ k \in Nat /\ base \in Int /\ n - 1 \in 0 .. k
  BY DeepType
<1>2. D(0) = base /\ E(0) = 0
  <2>1. Len(a) + 1 \in 1 .. Len(a) + 1 /\ Len(a) + 1 + 0 = Len(a) + 1 /\ 1 + 0 = 1
    BY <1>1
  <2> QED
    BY <2>1, DeepPrefix, DeepFirst
<1>3. ASSUME NEW i \in 1 .. k, D(i - 1) = base + E(i - 1)
      PROVE  D(i) = base + E(i)
  <2>1. /\ Len(a) + i \in Nat \ {0} /\ i \in Nat \ {0}
        /\ Len(a) + 1 + (i - 1) = Len(a) + i /\ 1 + (i - 1) = i
        /\ Len(a) + 1 + i = (Len(a) + i) + 1 /\ 1 + i = i + 1
    BY <1>1
  <2>2. (a \o b)[Len(a) + i] = b[i]
    BY <1>1
  <2>3. Deep(a \o b, m, Len(a) + i) = base + Deep(b, m, i)
    BY <1>3, <2>1
  <2> DEFINE c == a \o b
             p == Len(a) + i
  <2>4. p \in Nat \ {0} /\ i \in Nat \ {0} /\ c[p] = b[i] /\ base \in Int
        /\ Deep(c, m, p) = base + Deep(b, m, i)
    BY <1>1, <2>1, <2>2, <2>3
  <2>5. Deep(a \o b, m, (Len(a) + i) + 1) = base + Deep(b, m, i + 1)
    <3> HIDE DEF base, c, p
    <3>1. Deep(c, m, p + 1) = base + Deep(b, m, i + 1)
      BY ONLY <2>4, DeepSame
    <3> QED
      BY <3>1 DEF c, p
  <2> QED
    BY <2>1, <2>5
<1>4. H \in SUBSET (0 .. k) /\ 0 \in H /\ \A i \in 1 .. k : i - 1 \in H => i \in H
  <2> HIDE DEF D, E, base
  <2>1. 0 \in 0 .. k /\ D(0) = base + E(0)
    BY <1>1, <1>2
  <2>2. \A i \in 1 .. k : i \in 0 .. k
    BY <1>1
  <2> QED
    BY <1>3, <2>1, <2>2
<1>5. H = 0 .. k
  <2> HIDE DEF H, k
  <2> QED
    BY ONLY <1>1, <1>4, UpTo
<1>6. D(n - 1) = base + E(n - 1)
  <2> HIDE DEF D, E, base, k
  <2> QED
    BY <1>1, <1>5
<1>7. Len(a) + 1 + (n - 1) = Len(a) + n /\ 1 + (n - 1) = n
  BY <1>1
<1> QED
  BY <1>6, <1>7

LEMMA BalancedConcat ==
  ASSUME NEW a, NEW b, Balanced(a), Balanced(b)
  PROVE  Balanced(a \o b)
<1> DEFINE c == a \o b
<1>1. /\ a \in Seq(Ops) /\ b \in Seq(Ops) /\ c \in Seq(Ops) /\ Len(a) \in Nat /\ Len(b) \in Nat
      /\ Len(c) = Len(a) + Len(b)
      /\ \A n \in DOMAIN a : c[n] = a[n] /\ n \in 1 .. Len(a) + 1 /\ n \in Nat
      /\ \A n \in DOMAIN b : c[Len(a) + n] = b[n] /\ n \in 1 .. Len(b) + 1 /\ n \in Nat
  BY DEF Balanced
<1>2. ASSUME NEW n \in DOMAIN c
      PROVE  n \in DOMAIN a \/ \E i \in DOMAIN b : n = Len(a) + i
  <2>1. n \in 1 .. Len(a) + Len(b) /\ DOMAIN a = 1 .. Len(a) /\ DOMAIN b = 1 .. Len(b)
    BY <1>1
  <2>2. n \in 1 .. Len(a) \/ n - Len(a) \in 1 .. Len(b)
    BY <1>1, <2>1
  <2>3. n = Len(a) + (n - Len(a))
    BY <1>1, <2>1
  <2> QED
    BY <2>1, <2>2, <2>3
<1>3. \A m \in Mutexes : Deep(a, m, Len(a) + 1) = 0 /\ Deep(b, m, Len(b) + 1) = 0
  BY DEF Balanced
<1>4. ASSUME NEW m \in Mutexes, NEW n \in DOMAIN a PROVE Deep(c, m, n) = Deep(a, m, n)
  BY <1>1, DeepPrefix
<1>5. ASSUME NEW m \in Mutexes, NEW n \in 1 .. Len(b) + 1
      PROVE  Deep(c, m, Len(a) + n) = Deep(b, m, n)
  <2>1. Deep(c, m, Len(a) + n) = Deep(a, m, Len(a) + 1) + Deep(b, m, n)
    BY <1>1, DeepSuffix
  <2>2. Deep(b, m, n) \in Int
    BY <1>1, DeepType
  <2> QED
    BY <1>3, <2>1, <2>2
<1>6. \A m \in Mutexes : Deep(c, m, Len(c) + 1) = 0
  <2>1. Len(b) + 1 \in 1 .. Len(b) + 1 /\ Len(c) + 1 = Len(a) + (Len(b) + 1)
    BY <1>1
  <2> HIDE DEF c
  <2> QED
    BY <1>3, <1>5, <2>1
<1>7. \A n \in DOMAIN c : c[n].op # "RTRN"
  <2> HIDE DEF c
  <2> QED
    BY <1>1, <1>2 DEF Balanced
<1>8. Bracketed(c)
  <2> SUFFICES ASSUME NEW m \in Mutexes, NEW n \in DOMAIN c, c[n].op = "CRITICAL_END", c[n].of = m
               PROVE  Starts(c, m, n) > Ends(c, m, n)
    BY DEF Bracketed
  <2>1. Deep(c, m, n) > 0
    <3>1. CASE n \in DOMAIN a
      <4>1. Starts(a, m, n) > Ends(a, m, n)
        BY <1>1, <3>1 DEF Balanced, Bracketed
      <4>2. Deep(a, m, n) > 0
        BY <1>1, <3>1, <4>1, DeepType DEF Deep
      <4> QED
        BY <1>4, <3>1, <4>2
    <3>2. ASSUME NEW i \in DOMAIN b, n = Len(a) + i PROVE Deep(c, m, n) > 0
      <4>1. Starts(b, m, i) > Ends(b, m, i)
        BY <1>1, <3>2 DEF Balanced, Bracketed
      <4>2. Deep(b, m, i) > 0
        BY <1>1, <3>2, <4>1, DeepType DEF Deep
      <4> QED
        BY <1>1, <1>5, <3>2, <4>2
    <3> QED
      BY <1>2, <3>1, <3>2
  <2>2. n \in Nat
    BY <1>1
  <2> QED
    BY <2>1, <2>2, DeepType DEF Deep
<1> QED
  BY <1>1, <1>6, <1>7, <1>8 DEF Balanced

(* A critical section around code that has its brackets in order has, too. *)
THEOREM SectionsNest ==
  ASSUME NEW m \in Mutexes, NEW body, Balanced(body)
  PROVE  Balanced(EmitCriticalSection(m, body))
<1> DEFINE S == [op |-> "CRITICAL_START", of |-> m]
           E == [op |-> "CRITICAL_END", of |-> m]
           d == <<S>> \o body
           c == d \o <<E>>
           L == Len(body)
<1>1. S \in Ops /\ E \in Ops
  BY DEF Ops
<1>2. /\ body \in Seq(Ops) /\ <<S>> \in Seq(Ops) /\ <<E>> \in Seq(Ops) /\ d \in Seq(Ops) /\ c \in Seq(Ops)
      /\ L \in Nat /\ Len(<<S>>) = 1 /\ Len(d) = 1 + L /\ Len(c) = L + 2
      /\ DOMAIN c = 1 .. L + 2 /\ DOMAIN body = 1 .. L
  BY <1>1 DEF Balanced
<1>3. /\ c[1] = S /\ c[L + 2] = E /\ (<<S>>)[1] = S
      /\ \A n \in 1 .. L : c[1 + n] = body[n]
  BY <1>1, <1>2
<1>4. \A n \in DOMAIN c : n = 1 \/ n = L + 2 \/ \E i \in 1 .. L : n = 1 + i
  <2> SUFFICES ASSUME NEW n \in 1 .. L + 2, n # 1, n # L + 2 PROVE \E i \in 1 .. L : n = 1 + i
    BY <1>2
  <2>1. n - 1 \in 1 .. L /\ n = 1 + (n - 1)
    BY <1>2
  <2> QED
    BY <2>1
<1>5. ASSUME NEW k \in Mutexes, NEW n \in 1 .. L + 1
      PROVE  Deep(c, k, 1 + n) = (IF k = m THEN 1 ELSE 0) + Deep(body, k, n)
  <2>1. Deep(<<S>>, k, 1 + 1) = IF k = m THEN 1 ELSE 0
    <3>1. Deep(<<S>>, k, 1) = 0
      BY DeepFirst
    <3>2. S.op = "CRITICAL_START" /\ S.of = m
      OBVIOUS
    <3> DEFINE s == <<S>>
    <3>3. s[1].op = "CRITICAL_START" /\ s[1].of = m /\ Deep(s, k, 1) = 0
      BY <1>3, <3>1, <3>2
    <3> HIDE DEF s
    <3>4. Deep(s, k, 1 + 1) = IF k = m THEN 1 ELSE 0
      BY ONLY <3>3, DeepNext
    <3> QED
      BY <3>4 DEF s
  <2>2. Deep(d, k, Len(<<S>>) + n) = Deep(<<S>>, k, Len(<<S>>) + 1) + Deep(body, k, n)
    <3> DEFINE s == <<S>>
    <3>1. s \in Seq(Ops) /\ body \in Seq(Ops) /\ n \in 1 .. Len(body) + 1
      BY <1>2
    <3> HIDE DEF s
    <3>2. Deep(s \o body, k, Len(s) + n) = Deep(s, k, Len(s) + 1) + Deep(body, k, n)
      BY ONLY <3>1, DeepSuffix
    <3> QED
      BY <3>2 DEF s
  <2>3. Deep(c, k, 1 + n) = Deep(d, k, 1 + n)
    <3>1. 1 + n \in 1 .. Len(d) + 1
      BY <1>2
    <3> QED
      BY <1>2, <3>1, DeepPrefix
  <2> QED
    BY <1>2, <2>1, <2>2, <2>3
<1>6. ASSUME NEW k \in Mutexes PROVE Deep(c, k, L + 2) = IF k = m THEN 1 ELSE 0
  <2>1. Deep(body, k, L + 1) = 0
    BY DEF Balanced
  <2>2. L + 1 \in 1 .. L + 1 /\ 1 + (L + 1) = L + 2
    BY <1>2
  <2> HIDE DEF c, L
  <2> QED
    BY <1>5, <2>1, <2>2
<1>7. ASSUME NEW k \in Mutexes PROVE Deep(c, k, Len(c) + 1) = 0
  <2>1. c[L + 2].op = "CRITICAL_END" /\ c[L + 2].of = m /\ L + 2 \in Nat \ {0} /\ Len(c) = L + 2
    BY <1>2, <1>3
  <2> HIDE DEF c, L
  <2> QED
    BY ONLY <1>6, <2>1, DeepNext
<1>8. \A n \in DOMAIN c : c[n].op # "RTRN"
  <2> HIDE DEF c, L
  <2>1. \A i \in 1 .. L : c[1 + i].op # "RTRN"
    BY <1>2, <1>3 DEF Balanced
  <2>2. c[1].op # "RTRN" /\ c[L + 2].op # "RTRN"
    BY <1>3
  <2> QED
    BY <1>4, <2>1, <2>2
<1>9. Bracketed(c)
  <2> SUFFICES ASSUME NEW k \in Mutexes, NEW n \in DOMAIN c, c[n].op = "CRITICAL_END", c[n].of = k
               PROVE  Starts(c, k, n) > Ends(c, k, n)
    BY DEF Bracketed
  <2>1. Deep(c, k, n) > 0
    <3>1. CASE n = 1
      BY <1>3, <3>1
    <3>2. CASE n = L + 2
      <4>1. k = m
        BY <1>3, <3>2
      <4> HIDE DEF c, L
      <4> QED
        BY <1>6, <3>2, <4>1
    <3>3. ASSUME NEW i \in 1 .. L, n = 1 + i PROVE Deep(c, k, n) > 0
      <4>1. body[i].op = "CRITICAL_END" /\ body[i].of = k /\ i \in DOMAIN body /\ i \in 1 .. L + 1
        BY <1>2, <1>3, <3>3
      <4>2. Starts(body, k, i) > Ends(body, k, i)
        BY <4>1 DEF Balanced, Bracketed
      <4>3. Deep(body, k, i) > 0 /\ Deep(body, k, i) \in Int
        BY <1>2, <4>1, <4>2, DeepType DEF Deep
      <4> HIDE DEF c, L
      <4> QED
        BY <1>5, <3>3, <4>1, <4>3
    <3> QED
      BY <1>4, <3>1, <3>2, <3>3
  <2>2. n \in Nat
    BY <1>2
  <2> QED
    BY <2>1, <2>2, DeepType DEF Deep
<1>10. EmitCriticalSection(m, body) = c
  BY DEF EmitCriticalSection
<1> HIDE DEF c
<1> QED
  BY <1>2, <1>7, <1>8, <1>9, <1>10 DEF Balanced

(* Code in order and a RTRN is a Run as the theorems suppose it.           *)
THEOREM SectionsInOrder ==
  ASSUME NEW body, Balanced(body)
  PROVE  LET code == body \o <<[op |-> "RTRN"]>> IN Bracketed(code) /\ Closed(code)
<1> DEFINE R == [op |-> "RTRN"]
           c == body \o <<R>>
           L == Len(body)
<1>1. /\ R \in Ops /\ body \in Seq(Ops) /\ <<R>> \in Seq(Ops) /\ L \in Nat
      /\ DOMAIN c = 1 .. L + 1 /\ c[L + 1].op = "RTRN"
      /\ \A n \in 1 .. L : c[n] = body[n] /\ n \in DOMAIN body
  BY DEF Ops, Balanced
<1>2. \A n \in DOMAIN c : n \in Nat /\ (n = L + 1 \/ n \in 1 .. L)
  BY <1>1
<1>3. ASSUME NEW m \in Mutexes, NEW n \in DOMAIN c PROVE Deep(c, m, n) = Deep(body, m, n)
  <2>1. n \in 1 .. Len(body) + 1
    BY <1>1
  <2> QED
    BY <1>1, <2>1, DeepPrefix
<1> HIDE DEF c, L
<1>4. Bracketed(c)
  <2> SUFFICES ASSUME NEW m \in Mutexes, NEW n \in DOMAIN c, c[n].op = "CRITICAL_END", c[n].of = m
               PROVE  Starts(c, m, n) > Ends(c, m, n)
    BY DEF Bracketed
  <2>1. n \in 1 .. L /\ body[n] = c[n] /\ n \in DOMAIN body
    BY <1>1, <1>2
  <2>2. Starts(body, m, n) > Ends(body, m, n)
    BY <2>1 DEF Balanced, Bracketed
  <2> QED
    BY <1>2, <1>3, <2>2, DeepType DEF Deep
<1>5. Closed(c)
  <2> SUFFICES ASSUME NEW m \in Mutexes, NEW n \in DOMAIN c, c[n].op = "RTRN"
               PROVE  Starts(c, m, n) = Ends(c, m, n)
    BY DEF Closed
  <2>1. n = L + 1
    BY <1>1, <1>2 DEF Balanced
  <2>2. Deep(body, m, n) = 0
    BY <2>1 DEF Balanced, L
  <2> QED
    BY <1>2, <1>3, <2>2, DeepType DEF Deep
<1> QED
  BY <1>4, <1>5 DEF c

(***************************************************************************)
(* Programs that join what they execute.                                   *)
(***************************************************************************)
\* Without _SANITIZE; what main has executed may be left when it returns.
Joining(p) ==
  /\ ~ p.sanitize
  /\ \E parent \in [Objects -> Tasks], rank \in [Tasks -> Nat] : Tree(p, parent, rank)
  /\ \A k \in Tasks : Paired(p.code[k])
  /\ \A o \in Objects : Collected(p.code[o])

Owed(t, o) == Due(program.code[run[t]], o, ip[t])

\* Thread t has executed o and not joined it.
Awaits(t, o) ==
  /\ run[t] # None
  /\ Owed(t, o) = 1 \/ (at[t] \in {"created", "assigned"} /\ Operand(t) = o)

\* The thread it has created for it.
Child(t, o) == IF at[t] = "created" /\ Operand(t) = o THEN vm_thread[t] ELSE id[o]

Alone == \A t, u \in Tids : run[t] # None /\ run[t] = run[u] => t = u
MainIn == run[MainTid] = Main /\ at[MainTid] \in {"run", "created", "assigned", "join"}
Children ==
  \A t \in Tids, o \in Objects :
    /\ run[t] # None => Owed(t, o) \in {0, 1}
    /\ Awaits(t, o) => Child(t, o) \in Tids /\ run[Child(t, o)] = o
Parents == \A u \in Tids : run[u] \in Objects => \E t \in Tids : Awaits(t, run[u])
Joiners ==
  \A u \in Tids : joiner[u] # None =>
    at[joiner[u]] = "join" /\ id[Operand(joiner[u])] = u

\* A Run has one thread; what it has executed and not joined is under way in
\* the thread whose id the object has, and nothing else is under way.
Family == Joining(program) /\ Alone /\ MainIn /\ Children /\ Parents /\ Joiners

LEMMA DueFirst ==
  ASSUME NEW code, NEW o
  PROVE  Due(code, o, 1) = 0
<1>1. \A op : Passed(code, op, o, 1) = {}
  BY DEF Passed
<1> QED
  BY <1>1, FS_EmptySet DEF Due

LEMMA DueNext ==
  ASSUME NEW code, NEW o, NEW n \in Nat \ {0}
  PROVE  /\ Due(code, o, n) \in Int
         /\ Due(code, o, n + 1) =
              IF code[n].op = "EXECUTE" /\ code[n].of = o THEN Due(code, o, n) + 1
              ELSE IF code[n].op = "JOIN" /\ code[n].of = o THEN Due(code, o, n) - 1
              ELSE Due(code, o, n)
<1>1. "EXECUTE" # "JOIN" /\ n \in Nat
  OBVIOUS
<1>2. \A op : Cardinality(Passed(code, op, o, n)) \in Nat
  BY <1>1, PassedFinite
<1>3. \A op : Cardinality(Passed(code, op, o, n + 1)) =
                IF code[n].op = op /\ code[n].of = o
                THEN Cardinality(Passed(code, op, o, n)) + 1
                ELSE Cardinality(Passed(code, op, o, n))
  BY PassedNext
<1> QED
  BY <1>1, <1>2, <1>3 DEF Due

\* What is due has been executed.
LEMMA DueExecuted ==
  ASSUME NEW code, NEW o, NEW n \in Nat, Due(code, o, n) = 1
  PROVE  \E i \in 1 .. n - 1 : code[i].op = "EXECUTE" /\ code[i].of = o
<1>1. \A op : Cardinality(Passed(code, op, o, n)) \in Nat
  BY PassedFinite
<1>2. Cardinality(Passed(code, "EXECUTE", o, n)) # 0
  BY <1>1 DEF Due
<1>3. Passed(code, "EXECUTE", o, n) # {}
  BY <1>2, FS_EmptySet
<1> QED
  BY <1>3 DEF Passed

\* Where a thread is in its code.
LEMMA OwedIs ==
  ASSUME Base, NEW t \in Tids, NEW o \in Objects, run[t] # None
  PROVE  /\ run[t] \in Tasks /\ ip[t] \in Nat \ {0} /\ ip[t] \in DOMAIN program.code[run[t]]
         /\ DOMAIN program.code[run[t]] = 1 .. Len(program.code[run[t]])
         /\ Owed(t, o) \in Int
<1>1. /\ program \in Programs /\ run[t] \in Tasks /\ ip[t] \in Nat
      /\ ip[t] \in 1 .. Len(program.code[run[t]])
  BY DEF Base, TypeOK, Tasks
<1>2. program.code[run[t]] \in Seq(Ops)
  BY <1>1, ProgramAssumption DEF Tasks
<1>3. ip[t] \in Nat \ {0} /\ DOMAIN program.code[run[t]] = 1 .. Len(program.code[run[t]])
  BY <1>1, <1>2
<1>4. Owed(t, o) \in Int
  BY <1>3, DueNext DEF Owed
<1> QED
  BY <1>1, <1>3, <1>4

\* A thread awaits Runs of objects it is the parent of.
LEMMA AwaitsChild ==
  ASSUME Base, NEW t \in Tids, NEW o \in Objects, Awaits(t, o),
         NEW parent, NEW rank, Tree(program, parent, rank)
  PROVE  parent[o] = run[t] /\ rank[run[t]] < rank[o]
<1> DEFINE c == program.code[run[t]]
<1>1. /\ run[t] \in Objects \cup {Main} /\ ip[t] \in Nat \ {0} /\ ip[t] \in DOMAIN c
      /\ DOMAIN c = 1 .. Len(c)
  BY OwedIs DEF Awaits, Tasks
<1>2. \E n \in DOMAIN c : c[n].op = "EXECUTE" /\ c[n].of = o
  <2>1. CASE Owed(t, o) = 1
    <3>1. PICK i \in 1 .. ip[t] - 1 : c[i].op = "EXECUTE" /\ c[i].of = o
      BY <1>1, <2>1, DueExecuted DEF Owed
    <3>2. i \in DOMAIN c
      <4> HIDE DEF c
      <4> QED
        BY <1>1
    <3> QED
      BY <3>1, <3>2
  <2>2. CASE at[t] \in {"created", "assigned"} /\ Operand(t) = o
    BY <1>1, <2>2 DEF Base, AtInstructions, Instr, Operand
  <2> QED
    BY <2>1, <2>2 DEF Awaits
<1> QED
  BY <1>1, <1>2 DEF Tree

LEMMA OneParent ==
  ASSUME Base, Family, NEW s \in Tids, NEW t \in Tids, NEW o \in Objects, Awaits(s, o), Awaits(t, o)
  PROVE  s = t
<1>1. PICK parent, rank : Tree(program, parent, rank)
  BY DEF Family, Joining
<1>2. run[s] = run[t] /\ run[s] # None
  BY <1>1, AwaitsChild DEF Awaits
<1> QED
  BY <1>2 DEF Family, Alone

\* Of two Runs not both await the other, and none awaits itself.
LEMMA NoCycle ==
  ASSUME Base, Family, NEW s \in Tids, NEW t \in Tids,
         run[s] \in Objects, run[t] \in Objects, Awaits(s, run[t]), Awaits(t, run[s])
  PROVE  FALSE
<1>1. PICK parent \in [Objects -> Tasks], rank \in [Tasks -> Nat] : Tree(program, parent, rank)
  BY DEF Family, Joining
<1>2. rank[run[s]] < rank[run[t]] /\ rank[run[t]] < rank[run[s]]
  BY <1>1, AwaitsChild
<1>3. rank[run[s]] \in Nat /\ rank[run[t]] \in Nat
  BY <1>1 DEF Tasks
<1> QED
  BY <1>2, <1>3

\* What an instruction about an object supposes.
LEMMA AtOperand ==
  ASSUME Base, Family, NEW t \in Tids, run[t] # None, NEW o, o = Operand(t)
  PROVE  /\ Instr(t).op = "EXECUTE" => o \in Objects /\ Owed(t, o) = 0
         /\ Instr(t).op \in {"JOIN", "GETID"} =>
              /\ o \in Objects /\ Owed(t, o) = 1 /\ Awaits(t, o)
              /\ at[t] # "created" => id[o] \in Tids /\ run[id[o]] = o
         /\ Instr(t).op = "RTRN" /\ t # MainTid => \A q \in Objects : Owed(t, q) = 0
<1> DEFINE c == program.code[run[t]]
<1>1. Instr(t).op \in {"EXECUTE", "JOIN", "GETID"} => o \in Objects
  BY InstrOfThread DEF Base
<1>2. /\ run[t] \in Tasks /\ \A q \in Objects : ip[t] \in DOMAIN c /\ Owed(t, q) = Due(c, q, ip[t])
  <2>1. run[t] \in Tasks /\ ip[t] \in DOMAIN c
    <3>1. PICK q : q = run[t]
      OBVIOUS
    <3>2. program \in Programs /\ run[t] \in Tasks /\ ip[t] \in 1 .. Len(c)
      BY DEF Base, TypeOK, Tasks
    <3>3. c \in Seq(Ops)
      BY <3>2, ProgramAssumption DEF Tasks
    <3> HIDE DEF c
    <3> QED
      BY <3>2, <3>3
  <2> QED
    BY <2>1 DEF Owed
<1>3. c[ip[t]].op = Instr(t).op /\ c[ip[t]].of = o
  BY DEF Instr, Operand
<1>4. Paired(c)
  BY <1>2 DEF Family, Joining
<1>5. t # MainTid => run[t] # Main
  BY NameAssumption DEF Family, Alone, MainIn
<1> HIDE DEF c
<1>6. Instr(t).op = "EXECUTE" => o \in Objects /\ Owed(t, o) = 0
  BY <1>1, <1>2, <1>3, <1>4 DEF Paired
<1>7. Instr(t).op \in {"JOIN", "GETID"} =>
        /\ o \in Objects /\ Owed(t, o) = 1 /\ Awaits(t, o)
        /\ at[t] # "created" => id[o] \in Tids /\ run[id[o]] = o
  <2> SUFFICES ASSUME Instr(t).op \in {"JOIN", "GETID"}
               PROVE  /\ o \in Objects /\ Owed(t, o) = 1 /\ Awaits(t, o)
                      /\ at[t] # "created" => id[o] \in Tids /\ run[id[o]] = o
    OBVIOUS
  <2>1. o \in Objects /\ Owed(t, o) = 1
    BY <1>1, <1>2, <1>3, <1>4 DEF Paired
  <2>2. Awaits(t, o)
    BY <2>1 DEF Awaits
  <2>3. at[t] # "created" => Child(t, o) = id[o]
    BY DEF Child
  <2> QED
    BY <2>1, <2>2, <2>3 DEF Family, Children
<1>8. Instr(t).op = "RTRN" /\ t # MainTid => \A q \in Objects : Owed(t, q) = 0
  <2> SUFFICES ASSUME Instr(t).op = "RTRN", t # MainTid, NEW q \in Objects PROVE Owed(t, q) = 0
    OBVIOUS
  <2>1. run[t] \in Objects
    BY <1>2, <1>5 DEF Tasks
  <2>2. Collected(c)
    BY <2>1 DEF Family, Joining, c
  <2> QED
    BY <1>2, <1>3, <2>2 DEF Collected
<1> QED
  BY <1>6, <1>7, <1>8

LEMMA InitFamily ==
  ASSUME Init, Joining(program)
  PROVE  Family
<1>1. /\ MainTid \in Tids /\ None \notin Tids \cup Objects \cup {Main} /\ Main \notin Objects
  BY NameAssumption
<1>2. \A t \in Tids : run[t] = (IF t = MainTid THEN Main ELSE None) /\ ip[t] = 1 /\ joiner[t] = None
  BY DEF Init
<1>3. at[MainTid] = "run" /\ run[MainTid] = Main
  BY <1>1 DEF Init
<1>4. \A t \in Tids, o \in Objects : Owed(t, o) = 0 /\ ~ Awaits(t, o)
  BY <1>1, <1>2, <1>3, DueFirst DEF Owed, Awaits
<1>5. Alone /\ MainIn /\ Joiners /\ Parents
  BY <1>1, <1>2, <1>3 DEF Alone, MainIn, Joiners, Parents
<1>6. Children
  BY <1>4 DEF Children
<1> QED
  BY <1>5, <1>6 DEF Family

\* The thread executes and joins nothing in the step.
Steady(v) ==
  /\ run'[v] = run[v]
  /\ \A o \in Objects : /\ Owed(v, o)' = Owed(v, o) /\ (Awaits(v, o)' <=> Awaits(v, o))
                        /\ Child(v, o)' = Child(v, o) \/ ~ Awaits(v, o)

LEMMA SteadyStays ==
  ASSUME NEW v \in Tids, program' = program, run'[v] = run[v], ip'[v] = ip[v],
         id' = id, vm_thread'[v] = vm_thread[v],
         at'[v] = at[v] \/ (at[v] \notin {"created", "assigned"} /\ at'[v] \notin {"created", "assigned"})
  PROVE  Steady(v)
BY DEF Steady, Owed, Awaits, Child, Operand, Instr

LEMMA SteadyOn ==
  ASSUME Base, NEW v \in Tids, program' = program, run'[v] = run[v], run[v] # None,
         ip'[v] = ip[v] + 1, Instr(v).op \notin {"EXECUTE", "JOIN"}, id' = id,
         at[v] = "run", at'[v] = "run"
  PROVE  Steady(v)
<1>1. ip[v] \in Nat \ {0}
  BY DEF Base, TypeOK
<1>2. \A o : Owed(v, o)' = Owed(v, o)
  BY <1>1, DueNext DEF Owed, Instr
<1> QED
  BY <1>2 DEF Steady, Awaits, Child

LEMMA FamilyStays ==
  ASSUME Family, program' = program, run' = run, \A v \in Tids : Steady(v),
         at'[MainTid] \in {"run", "created", "assigned", "join"}, Joiners'
  PROVE  Family'
<1>1. Joining(program)' /\ Alone' /\ MainIn'
  BY DEF Family, Alone, MainIn
<1>2. Children'
  BY DEF Family, Children, Steady
<1>3. Parents'
  BY DEF Family, Parents, Steady
<1> QED
  BY <1>1, <1>2, <1>3 DEF Family

\* Nobody runs an object that is executed.
LEMMA ExecutedIdle ==
  ASSUME Base, Family, NEW t \in Tids, at[t] = "run", Instr(t).op = "EXECUTE", NEW o, o = Operand(t)
  PROVE  o \in Objects /\ Owed(t, o) = 0 /\ \A v \in Tids : run[v] # o
<1>1. run[t] # None
  BY DEF Base, TypeOK
<1>2. o \in Objects /\ Owed(t, o) = 0
  BY <1>1, AtOperand
<1>3. ~ Awaits(t, o)
  BY <1>2 DEF Awaits
<1>4. ASSUME NEW v \in Tids, run[v] = o PROVE FALSE
  <2>1. PICK s \in Tids : Awaits(s, o)
    BY <1>2, <1>4 DEF Family, Parents
  <2>2. PICK parent, rank : Tree(program, parent, rank)
    BY DEF Family, Joining
  <2>3. parent[o] = run[s] /\ run[s] # None
    BY <1>2, <2>1, <2>2, AwaitsChild DEF Awaits
  <2>4. /\ run[t] \in Objects \cup {Main} /\ ip[t] \in DOMAIN program.code[run[t]]
    BY <1>1, <1>2, OwedIs DEF Tasks
  <2>5. parent[o] = run[t]
    BY <2>2, <2>4 DEF Tree, Instr, Operand
  <2> QED
    BY <1>1, <1>3, <2>1, <2>3, <2>5 DEF Family, Alone
<1> QED
  BY <1>2, <1>4

LEMMA ExecuteFamily ==
  ASSUME Base, Family, NEW t \in Tids, ProcessAsyncMethodCall(t)
  PROVE  Family'
<1>0. PICK o : o = Operand(t)
  OBVIOUS
<1>1. /\ process = "up" /\ at[t] = "run" /\ Instr(t).op = "EXECUTE"
      /\ UNCHANGED <<program, joiner, id, owner, thread_ids, to_join, process>>
  BY DEF ProcessAsyncMethodCall, AtOp, Up
<1>2. PICK u \in Tids :
        /\ at[u] = "off"
        /\ at' = [at EXCEPT ![t] = "created", ![u] = "run"]
        /\ run' = [run EXCEPT ![u] = o] /\ ip' = [ip EXCEPT ![u] = 1]
        /\ vm_thread' = [vm_thread EXCEPT ![t] = u]
  BY <1>0 DEF ProcessAsyncMethodCall
<1>3. o \in Objects /\ Owed(t, o) = 0 /\ \A v \in Tids : run[v] # o
  BY <1>0, <1>1, ExecutedIdle
<1>4. /\ run[u] = None /\ run[t] # None /\ t # u /\ u # MainTid /\ o # None /\ o # Main
  BY <1>1, <1>2, <1>3, NameAssumption DEF Base, TypeOK, Family, MainIn
<1>5. /\ at'[t] = "created" /\ at'[u] = "run" /\ run'[u] = o /\ ip'[u] = 1 /\ vm_thread'[t] = u
      /\ run'[t] = run[t] /\ ip'[t] = ip[t]
      /\ \A v \in Tids \ {t, u} : at'[v] = at[v] /\ run'[v] = run[v] /\ ip'[v] = ip[v]
                                  /\ vm_thread'[v] = vm_thread[v]
  BY <1>2, <1>4 DEF Base, TypeOK
<1>6. \A v \in Tids \ {t, u} : Steady(v)
  BY <1>1, <1>5, SteadyStays
<1>7. \A q \in Objects : Owed(u, q)' = 0 /\ ~ Awaits(u, q)' /\ ~ Awaits(u, q)
  BY <1>1, <1>4, <1>5, DueFirst DEF Owed, Awaits
<1>8. /\ \A q \in Objects : Owed(t, q)' = Owed(t, q) /\ (Awaits(t, q)' <=> (Awaits(t, q) \/ q = o))
      /\ \A q \in Objects : Child(t, q)' = IF q = o THEN u ELSE Child(t, q)
  <2>1. Operand(t)' = o
    BY <1>0, <1>1, <1>5 DEF Operand, Instr
  <2> QED
    BY <1>1, <1>4, <1>5, <2>1 DEF Owed, Awaits, Child
<1>9. Joining(program)' /\ MainIn'
  BY <1>1, <1>4, <1>5, NameAssumption DEF Family, MainIn
<1>10. Alone'
  BY <1>3, <1>4, <1>5 DEF Family, Alone
<1>11. ASSUME NEW v \in Tids, NEW q \in Objects
       PROVE  /\ run'[v] # None => Owed(v, q)' \in {0, 1}
              /\ Awaits(v, q)' => Child(v, q)' \in Tids /\ run'[Child(v, q)'] = q
  <2>1. Awaits(v, q) => run[Child(v, q)] = q /\ Child(v, q) \in Tids /\ run'[Child(v, q)] = q
    <3>1. q # None
      BY NameAssumption
    <3> QED
      BY <1>2, <1>4, <1>5, <3>1 DEF Family, Children
  <2>2. CASE v \notin {t, u}
    BY <1>5, <1>6, <2>1, <2>2 DEF Family, Children, Steady
  <2>3. CASE v = t
    BY <1>3, <1>4, <1>5, <1>8, <2>1, <2>3 DEF Family, Children
  <2>4. CASE v = u
    BY <1>7, <2>4
  <2> QED
    BY <2>2, <2>3, <2>4
<1>12. ASSUME NEW v \in Tids, run'[v] \in Objects PROVE \E s \in Tids : Awaits(s, run[v])'
  <2>1. CASE v = u
    BY <1>3, <1>5, <1>8, <2>1
  <2>2. CASE v # u
    <3>1. run'[v] = run[v]
      BY <1>5, <2>2
    <3>2. PICK s \in Tids : Awaits(s, run[v])
      BY <1>12, <3>1 DEF Family, Parents
    <3>3. Awaits(s, run[v])'
      BY <1>6, <1>7, <1>8, <1>12, <3>1, <3>2 DEF Steady
    <3> QED
      BY <3>1, <3>3
  <2> QED
    BY <2>1, <2>2
<1>13. Joiners'
  <2> SUFFICES ASSUME NEW v \in Tids, joiner'[v] # None
               PROVE  at'[joiner'[v]] = "join" /\ id'[Operand(joiner[v])'] = v
    BY DEF Joiners
  <2>1. joiner'[v] = joiner[v] /\ joiner[v] \in Tids
    BY <1>1 DEF Base, TypeOK
  <2>2. at[joiner[v]] = "join" /\ id[Operand(joiner[v])] = v
    BY <2>1 DEF Family, Joiners
  <2>3. joiner[v] \notin {t, u}
    BY <1>1, <1>2, <2>2
  <2> QED
    BY <1>1, <1>5, <2>1, <2>2, <2>3 DEF Operand, Instr
<1>14. Children' /\ Parents'
  BY <1>11, <1>12 DEF Children, Parents
<1> QED
  BY <1>9, <1>10, <1>13, <1>14 DEF Family

LEMMA AssignFamily ==
  ASSUME Base, Family, NEW t \in Tids, AssignId(t)
  PROVE  Family'
<1>0. PICK o : o = Operand(t)
  OBVIOUS
<1>1. /\ at[t] = "created" /\ Instr(t).op = "EXECUTE" /\ run[t] # None
      /\ id' = [id EXCEPT ![o] = vm_thread[t]] /\ at' = [at EXCEPT ![t] = "assigned"]
      /\ UNCHANGED <<program, run, ip, vm_thread, joiner>>
  BY <1>0 DEF AssignId, Up, Base, TypeOK, AtInstructions
<1>2. o \in Objects /\ Awaits(t, o)
  BY <1>0, <1>1, InstrOfThread DEF Base, Awaits
<1>3. /\ at'[t] = "assigned" /\ id'[o] = vm_thread[t]
      /\ \A v \in Tids \ {t} : at'[v] = at[v]
      /\ \A q \in Objects \ {o} : id'[q] = id[q]
  BY <1>1, <1>2 DEF Base, TypeOK
<1>4. \A v \in Tids : Operand(v)' = Operand(v)
  BY <1>1 DEF Operand, Instr
<1>5. \A v \in Tids, q \in Objects : Owed(v, q)' = Owed(v, q) /\ (Awaits(v, q)' <=> Awaits(v, q))
  BY <1>1, <1>3, <1>4 DEF Owed, Awaits
<1>6. \A v \in Tids \ {t} : ~ Awaits(v, o)
  BY <1>2, OneParent
<1>7. \A v \in Tids, q \in Objects : Awaits(v, q) => Child(v, q)' = Child(v, q)
  BY <1>0, <1>1, <1>3, <1>4, <1>6 DEF Child
<1>8. Children'
  BY <1>1, <1>5, <1>7 DEF Family, Children
<1>9. Parents'
  BY <1>1, <1>5 DEF Family, Parents
<1>10. Joining(program)' /\ Alone' /\ MainIn'
  BY <1>1, <1>3, NameAssumption DEF Family, Alone, MainIn
<1>11. Joiners'
  <2> SUFFICES ASSUME NEW v \in Tids, joiner'[v] # None
               PROVE  at'[joiner'[v]] = "join" /\ id'[Operand(joiner[v])'] = v
    BY DEF Joiners
  <2>1. joiner'[v] = joiner[v] /\ joiner[v] \in Tids
    BY <1>1 DEF Base, TypeOK
  <2>2. at[joiner[v]] = "join" /\ id[Operand(joiner[v])] = v
    BY <2>1 DEF Family, Joiners
  <2>3. joiner[v] # t
    BY <1>1, <2>2
  <2>4. Operand(joiner[v]) \in Objects /\ Awaits(joiner[v], Operand(joiner[v]))
    BY <2>1, <2>2, AtOperand DEF Base, TypeOK, AtInstructions
  <2>5. Operand(joiner[v]) # o
    BY <1>6, <2>1, <2>3, <2>4
  <2> QED
    BY <1>3, <1>4, <2>1, <2>2, <2>3, <2>4, <2>5
<1> QED
  BY <1>8, <1>9, <1>10, <1>11 DEF Family

LEMMA AddFamily ==
  ASSUME Base, Family, NEW t \in Tids, AddThread(t)
  PROVE  Family'
<1>0. PICK o : o = Operand(t)
  OBVIOUS
<1>1. /\ at[t] = "assigned" /\ Instr(t).op = "EXECUTE" /\ run[t] # None
      /\ vm_thread' = [vm_thread EXCEPT ![t] = None]
      /\ at' = [at EXCEPT ![t] = "run"] /\ ip' = [ip EXCEPT ![t] = @ + 1]
      /\ UNCHANGED <<program, run, joiner, id>>
  BY DEF AddThread, GoOn, Up, Base, TypeOK, AtInstructions
<1>2. o \in Objects /\ Awaits(t, o) /\ Owed(t, o) = 0
  BY <1>0, <1>1, AtOperand DEF Awaits
<1>3. /\ at'[t] = "run" /\ ip'[t] = ip[t] + 1 /\ ip[t] \in Nat \ {0}
      /\ \A v \in Tids \ {t} : at'[v] = at[v] /\ ip'[v] = ip[v] /\ vm_thread'[v] = vm_thread[v]
  BY <1>1 DEF Base, TypeOK
<1>4. \A v \in Tids \ {t} : Steady(v)
  BY <1>1, <1>3, SteadyStays
<1>5. \A q \in Objects : Owed(t, q)' = IF q = o THEN 1 ELSE Owed(t, q)
  BY <1>0, <1>1, <1>2, <1>3, DueNext DEF Owed, Instr, Operand
<1>6. \A q \in Objects : (Awaits(t, q)' <=> Awaits(t, q)) /\ Child(t, q)' = Child(t, q)
  BY <1>0, <1>1, <1>2, <1>3, <1>5 DEF Awaits, Child
<1>7. Children'
  <2>1. \A q \in Objects : Owed(t, q)' \in {0, 1}
    BY <1>1, <1>5 DEF Family, Children
  <2> QED
    BY <1>1, <1>4, <1>6, <2>1 DEF Family, Children, Steady
<1>8. Parents'
  BY <1>1, <1>4, <1>6 DEF Family, Parents, Steady
<1>9. Joining(program)' /\ Alone' /\ MainIn'
  BY <1>1, <1>3, NameAssumption DEF Family, Alone, MainIn
<1>10. Joiners'
  <2> SUFFICES ASSUME NEW v \in Tids, joiner'[v] # None
               PROVE  at'[joiner'[v]] = "join" /\ id'[Operand(joiner[v])'] = v
    BY DEF Joiners
  <2>1. joiner'[v] = joiner[v] /\ joiner[v] \in Tids
    BY <1>1 DEF Base, TypeOK
  <2>2. at[joiner[v]] = "join" /\ id[Operand(joiner[v])] = v
    BY <2>1 DEF Family, Joiners
  <2> QED
    BY <1>1, <1>3, <2>1, <2>2 DEF Operand, Instr
<1> QED
  BY <1>7, <1>8, <1>9, <1>10 DEF Family

\* The thread whose id an object has can be joined by whoever executed it.
LEMMA JoinsChild ==
  ASSUME Base, Family, NEW t \in Tids, at[t] = "run", Instr(t).op = "JOIN"
  PROVE  /\ Operand(t) \in Objects /\ id[Operand(t)] \in Tids
         /\ run[id[Operand(t)]] = Operand(t) /\ CanJoin(t, id[Operand(t)])
<1>0. PICK o : o = Operand(t)
  OBVIOUS
<1>1. PICK u : u = id[o]
  OBVIOUS
<1>2. run[t] # None
  BY DEF Base, TypeOK
<1>3. o \in Objects /\ Awaits(t, o) /\ u \in Tids /\ run[u] = o
  BY <1>0, <1>1, <1>2, AtOperand
<1>4. u # None /\ at[u] # "off"
  BY <1>3, NameAssumption DEF Base, TypeOK
<1>5. run[t] # o
  BY <1>3, NoCycle
<1>6. \A j \in Tids : at[j] = "join" => Operand(j) \in Objects /\ Awaits(j, Operand(j)) /\ run[id[Operand(j)]] = Operand(j)
  <2> SUFFICES ASSUME NEW j \in Tids, at[j] = "join"
               PROVE  Operand(j) \in Objects /\ Awaits(j, Operand(j)) /\ run[id[Operand(j)]] = Operand(j)
    OBVIOUS
  <2>1. run[j] # None /\ Instr(j).op = "JOIN"
    BY DEF Base, TypeOK, AtInstructions
  <2> QED
    BY <2>1, AtOperand
<1>7. \A v \in Tids : joiner[v] # None =>
        joiner[v] \in Tids /\ at[joiner[v]] = "join" /\ id[Operand(joiner[v])] = v
  BY DEF Family, Joiners, Base, TypeOK
<1>8. joiner[u] = None
  <2> SUFFICES ASSUME joiner[u] # None PROVE FALSE
    OBVIOUS
  <2>1. Awaits(joiner[u], o)
    BY <1>3, <1>6, <1>7
  <2>2. joiner[u] = t
    BY <1>3, <1>7, <2>1, OneParent
  <2> QED
    BY <1>3, <1>7, <2>2
<1>9. joiner[t] # u
  <2> SUFFICES ASSUME joiner[t] = u PROVE FALSE
    OBVIOUS
  <2>1. at[u] = "join" /\ id[Operand(u)] = t
    BY <1>4, <1>7
  <2>2. run[t] = Operand(u) /\ run[t] \in Objects /\ Awaits(u, run[t])
    BY <1>3, <1>6, <2>1
  <2> QED
    BY <1>3, <2>2, NoCycle
<1>10. CanJoin(t, u)
  BY <1>3, <1>4, <1>5, <1>8, <1>9 DEF CanJoin
<1> QED
  BY <1>0, <1>1, <1>3, <1>10

LEMMA ThreadJoinFamily ==
  ASSUME Base, Family, NEW t \in Tids, ThreadJoin(t)
  PROVE  Family' /\ at[t] = "run" /\ at' = [at EXCEPT ![t] = "join"] /\ process' = process
<1>0. PICK u : u = id[Operand(t)]
  OBVIOUS
<1>1. at[t] = "run" /\ Instr(t).op = "JOIN"
  BY DEF ThreadJoin, AtOp, Up
<1>2. u \in Tids /\ CanJoin(t, u)
  BY <1>0, <1>1, JoinsChild
<1>3. /\ at' = [at EXCEPT ![t] = "join"] /\ joiner' = [joiner EXCEPT ![u] = t]
      /\ UNCHANGED <<program, run, ip, vm_thread, id, process>>
  BY <1>0, <1>2 DEF ThreadJoin, StartJoin
<1>4. at'[t] = "join" /\ \A v \in Tids \ {t} : at'[v] = at[v]
  BY <1>3 DEF Base, TypeOK
<1>5. \A v \in Tids : Steady(v)
  BY <1>1, <1>3, <1>4, SteadyStays
<1>6. \A v \in Tids : joiner'[v] = IF v = u THEN t ELSE joiner[v]
  BY <1>2, <1>3 DEF Base, TypeOK
<1>7. Joiners'
  <2> SUFFICES ASSUME NEW v \in Tids, joiner'[v] # None
               PROVE  at'[joiner'[v]] = "join" /\ id'[Operand(joiner[v])'] = v
    BY DEF Joiners
  <2>1. CASE v = u
    BY <1>0, <1>3, <1>4, <1>6, <2>1 DEF Operand, Instr
  <2>2. CASE v # u
    <3>1. joiner'[v] = joiner[v] /\ joiner[v] \in Tids
      BY <1>6, <2>2 DEF Base, TypeOK
    <3>2. at[joiner[v]] = "join" /\ id[Operand(joiner[v])] = v
      BY <3>1 DEF Family, Joiners
    <3> QED
      BY <1>3, <1>4, <3>1, <3>2 DEF Operand, Instr
  <2> QED
    BY <2>1, <2>2
<1>8. at'[MainTid] \in {"run", "created", "assigned", "join"}
  BY <1>4, NameAssumption DEF Family, MainIn
<1> QED
  BY <1>1, <1>3, <1>5, <1>7, <1>8, FamilyStays

\* What joining t is about to end.
LEMMA JoinedThread ==
  ASSUME Base, Family, NEW t \in Tids, Joined(t), NEW u \in Tids, joiner[u] = t, at[u] = "ended"
  PROVE  /\ Operand(t) \in Objects /\ id[Operand(t)] = u /\ run[u] = Operand(t)
         /\ Awaits(t, Operand(t)) /\ Owed(t, Operand(t)) = 1
         /\ at[t] = "join" /\ Instr(t).op = "JOIN" /\ u # t /\ u # MainTid /\ Instr(u).op = "RTRN"
<1>1. at[t] = "join" /\ run[t] # None /\ Instr(t).op = "JOIN"
  BY DEF Joined, Up, Base, TypeOK, AtInstructions
<1>2. id[Operand(t)] = u
  BY NameAssumption DEF Family, Joiners
<1>3. u # t /\ u # MainTid /\ Instr(u).op = "RTRN"
  BY <1>1 DEF Family, MainIn, Base, AtInstructions
<1> QED
  BY <1>1, <1>2, <1>3, AtOperand

LEMMA JoinedFamily ==
  ASSUME Base, Family, NEW t \in Tids, Joined(t)
  PROVE  Family'
<1>0. PICK o : o = Operand(t)
  OBVIOUS
<1>1. PICK u \in Tids : EndJoin(t, u, "run") /\ ip' = [ip EXCEPT ![u] = 1, ![t] = @ + 1]
  BY DEF Joined
<1>2. /\ joiner[u] = t /\ at[u] = "ended"
      /\ joiner' = [joiner EXCEPT ![u] = None] /\ run' = [run EXCEPT ![u] = None]
      /\ at' = [at EXCEPT ![t] = "run", ![u] = "off"]
      /\ UNCHANGED <<program, vm_thread, id>>
  BY <1>1 DEF EndJoin, Joined
<1>3. /\ o \in Objects /\ id[o] = u /\ run[u] = o /\ Awaits(t, o) /\ Owed(t, o) = 1
      /\ at[t] = "join" /\ Instr(t).op = "JOIN" /\ u # t /\ u # MainTid /\ Instr(u).op = "RTRN"
  BY <1>0, <1>2, JoinedThread
<1>4. /\ run[t] # None /\ at'[t] = "run" /\ at'[u] = "off" /\ run'[u] = None /\ run'[t] = run[t]
      /\ ip'[t] = ip[t] + 1 /\ ip[t] \in Nat \ {0}
      /\ \A v \in Tids \ {t, u} : at'[v] = at[v] /\ run'[v] = run[v] /\ ip'[v] = ip[v]
  BY <1>1, <1>2, <1>3 DEF Base, TypeOK, Awaits
<1>5. \A v \in Tids \ {t, u} : Steady(v)
  BY <1>2, <1>4, SteadyStays
<1>6. \A q \in Objects : Owed(t, q)' = IF q = o THEN 0 ELSE Owed(t, q)
  <2>1. \A q \in Objects : Owed(t, q) \in Int
    BY <1>4, OwedIs
  <2> DEFINE c == program.code[run[t]]
  <2>2. \A q \in Objects : Owed(t, q) = Due(c, q, ip[t]) /\ Owed(t, q)' = Due(c, q, ip[t] + 1)
    BY <1>2, <1>4 DEF Owed
  <2>3. c[ip[t]].op = "JOIN" /\ c[ip[t]].of = o
    BY <1>0, <1>3 DEF Instr, Operand
  <2> HIDE DEF c
  <2>4. \A q \in Objects : Due(c, q, ip[t] + 1) = IF q = o THEN Due(c, q, ip[t]) - 1 ELSE Due(c, q, ip[t])
    BY <1>4, <2>3, DueNext
  <2> QED
    BY <1>3, <2>2, <2>4
<1>7. \A q \in Objects : /\ Awaits(t, q)' <=> (Awaits(t, q) /\ q # o)
                         /\ Child(t, q)' = Child(t, q)
  BY <1>2, <1>3, <1>4, <1>6 DEF Awaits, Child
<1>8. \A q \in Objects : ~ Awaits(u, q)' /\ ~ Awaits(u, q)
  <2>1. \A q \in Objects : Owed(u, q) = 0
    BY <1>3, AtOperand, NameAssumption
  <2> QED
    BY <1>2, <1>4, <2>1 DEF Awaits
<1>9. Joining(program)' /\ MainIn'
  BY <1>2, <1>3, <1>4, NameAssumption DEF Family, MainIn
<1>10. Alone'
  BY <1>4 DEF Family, Alone
<1>11. ASSUME NEW v \in Tids, NEW q \in Objects
       PROVE  /\ run'[v] # None => Owed(v, q)' \in {0, 1}
              /\ Awaits(v, q)' => Child(v, q)' \in Tids /\ run'[Child(v, q)'] = q
  <2>1. Awaits(v, q) /\ ~ (v = t /\ q = o) =>
          run[Child(v, q)] = q /\ Child(v, q) \in Tids /\ run'[Child(v, q)] = q
    <3> SUFFICES ASSUME Awaits(v, q), ~ (v = t /\ q = o)
                 PROVE  run[Child(v, q)] = q /\ Child(v, q) \in Tids /\ run'[Child(v, q)] = q
      OBVIOUS
    <3>1. run[Child(v, q)] = q /\ Child(v, q) \in Tids
      BY DEF Family, Children
    <3>2. Child(v, q) # u
      BY <1>3, <3>1, OneParent
    <3> QED
      BY <1>4, <3>1, <3>2
  <2>2. CASE v \notin {t, u}
    BY <1>4, <1>5, <2>1, <2>2 DEF Family, Children, Steady
  <2>3. CASE v = t
    BY <1>3, <1>4, <1>6, <1>7, <2>1, <2>3 DEF Family, Children
  <2>4. CASE v = u
    BY <1>4, <1>8, <2>4
  <2> QED
    BY <2>2, <2>3, <2>4
<1>12. ASSUME NEW v \in Tids, run'[v] \in Objects PROVE \E s \in Tids : Awaits(s, run[v])'
  <2>1. v # u /\ run'[v] = run[v]
    BY <1>4, <1>12, NameAssumption
  <2>2. run[v] # o
    BY <1>3, <2>1, NameAssumption DEF Family, Alone
  <2>3. PICK s \in Tids : Awaits(s, run[v])
    BY <1>12, <2>1 DEF Family, Parents
  <2>4. Awaits(s, run[v])'
    BY <1>5, <1>7, <1>8, <1>12, <2>1, <2>2, <2>3 DEF Steady
  <2> QED
    BY <2>4
<1>13. Joiners'
  <2> SUFFICES ASSUME NEW v \in Tids, joiner'[v] # None
               PROVE  at'[joiner'[v]] = "join" /\ id'[Operand(joiner[v])'] = v
    BY DEF Joiners
  <2>1. v # u /\ joiner'[v] = joiner[v] /\ joiner[v] \in Tids
    BY <1>2 DEF Base, TypeOK
  <2>2. at[joiner[v]] = "join" /\ id[Operand(joiner[v])] = v
    BY <2>1 DEF Family, Joiners
  <2>3. joiner[v] \notin {t, u}
    BY <1>0, <1>2, <1>3, <2>1, <2>2
  <2>4. at'[joiner[v]] = at[joiner[v]] /\ run'[joiner[v]] = run[joiner[v]] /\ ip'[joiner[v]] = ip[joiner[v]]
    BY <1>4, <2>1, <2>3
  <2>5. program' = program /\ id' = id
    BY <1>2
  <2> QED
    BY <2>1, <2>2, <2>4, <2>5 DEF Operand, Instr
<1>14. Children' /\ Parents'
  BY <1>11, <1>12 DEF Children, Parents
<1> QED
  BY <1>9, <1>10, <1>13, <1>14 DEF Family

LEMMA OtherStepsFamily ==
  ASSUME Base, Family, NEW t \in Tids,
         \/ CriticalStart(t) \/ CriticalEnd(t) \/ GetExecuteID(t)
         \/ RunReturns(t) \/ RemoveThread(t) \/ MainReturns(t)
  PROVE  Family'
<1>1. /\ at[t] \in {"run", "remove"} /\ run[t] # None /\ UNCHANGED <<program, run, vm_thread, joiner, id>>
      /\ \/ at[t] = "run" /\ at' = [at EXCEPT ![t] = "run"] /\ ip' = [ip EXCEPT ![t] = @ + 1]
            /\ Instr(t).op \notin {"EXECUTE", "JOIN"}
         \/ t # MainTid /\ at' = [at EXCEPT ![t] = "remove"] /\ ip' = ip
         \/ t # MainTid /\ at' = [at EXCEPT ![t] = "ended"] /\ ip' = ip
         \/ at' = at /\ ip' = ip
  <2>1. CASE CriticalStart(t) \/ CriticalEnd(t) \/ GetExecuteID(t)
    BY <2>1 DEF CriticalStart, CriticalEnd, GetExecuteID, AtOp, Up, GoOn, Base, TypeOK
  <2>2. CASE RunReturns(t)
    BY <2>2 DEF RunReturns, AtOp, Up, Base, TypeOK
  <2>3. CASE RemoveThread(t)
    BY <2>3 DEF RemoveThread, Up, Base, TypeOK, Family, MainIn
  <2>4. CASE MainReturns(t)
    BY <2>4 DEF MainReturns, AtOp, Up, Base, TypeOK, Family, Joining
  <2> QED
    BY <2>1, <2>2, <2>3, <2>4
<1>2. /\ at'[t] \notin {"created", "assigned"} /\ at[t] \notin {"created", "assigned"}
      /\ t = MainTid => at'[t] = "run" \/ at'[t] = at[t]
      /\ \A v \in Tids \ {t} : at'[v] = at[v] /\ ip'[v] = ip[v]
      /\ \/ ip'[t] = ip[t]
         \/ ip'[t] = ip[t] + 1 /\ at[t] = "run" /\ at'[t] = "run" /\ Instr(t).op \notin {"EXECUTE", "JOIN"}
  BY <1>1 DEF Base, TypeOK
<1>3. \A v \in Tids : Steady(v)
  <2>1. ASSUME NEW v \in Tids \ {t} PROVE Steady(v)
    BY <1>1, <1>2, SteadyStays
  <2>2. Steady(t)
    <3>1. CASE ip'[t] = ip[t]
      BY <1>1, <1>2, <3>1, SteadyStays
    <3>2. CASE ip'[t] = ip[t] + 1 /\ at[t] = "run" /\ at'[t] = "run" /\ Instr(t).op \notin {"EXECUTE", "JOIN"}
      BY <1>1, <3>2, SteadyOn
    <3> QED
      BY <1>2, <3>1, <3>2
  <2> QED
    BY <2>1, <2>2
<1>4. Joiners'
  <2> SUFFICES ASSUME NEW v \in Tids, joiner'[v] # None
               PROVE  at'[joiner'[v]] = "join" /\ id'[Operand(joiner[v])'] = v
    BY DEF Joiners
  <2>1. joiner'[v] = joiner[v] /\ joiner[v] \in Tids
    BY <1>1 DEF Base, TypeOK
  <2>2. at[joiner[v]] = "join" /\ id[Operand(joiner[v])] = v
    BY <2>1 DEF Family, Joiners
  <2>3. joiner[v] # t
    BY <1>1, <2>2
  <2>4. program' = program /\ id' = id /\ run' = run
    BY <1>1
  <2> QED
    BY <1>2, <2>1, <2>2, <2>3, <2>4 DEF Operand, Instr
<1>5. at'[MainTid] \in {"run", "created", "assigned", "join"}
  BY <1>2, NameAssumption DEF Family, MainIn
<1> QED
  BY <1>1, <1>3, <1>4, <1>5, FamilyStays

LEMMA NextFamily ==
  ASSUME Base, Family, [Next]_vars
  PROVE  Family'
<1>1. ASSUME NEW t \in Tids, ThreadStep(t) PROVE Family'
  BY <1>1, ExecuteFamily, AssignFamily, AddFamily, ThreadJoinFamily, JoinedFamily, OtherStepsFamily
     DEF ThreadStep
<1>2. ASSUME Shutdown PROVE FALSE
  BY <1>2 DEF Shutdown, ShutdownJoin, ShutdownJoined, ShutdownDone, Up, Family, MainIn
<1>3. ASSUME UNCHANGED vars PROVE Family'
  <2>1. UNCHANGED <<program, at, run, ip, vm_thread, joiner, id>>
    BY <1>3 DEF vars, threadVars
  <2>2. \A v \in Tids : Steady(v)
    BY <2>1, SteadyStays
  <2>3. Joiners'
    BY <2>1 DEF Family, Joiners, Operand, Instr
  <2> QED
    BY <2>1, <2>2, <2>3, FamilyStays DEF Family, MainIn
<1> QED
  BY <1>1, <1>2, <1>3 DEF Next

(* Where a Run asks for the id of an object it has executed and not joined,
   that is the id of the thread in which the object's Run is under way, however
   often ids have been used before.                                        *)
THEOREM IdsNameRuns == Spec /\ Joining(program) => []IdNamesRun
<1> DEFINE IInv == Base /\ Family
<1>1. Init /\ Joining(program) => IInv
  BY InitBase, InitFamily
<1>2. IInv /\ [Next]_vars => IInv'
  BY NextBase, NextFamily
<1>3. IInv => IdNamesRun
  <2> SUFFICES ASSUME Base, Family, NEW t \in Tids, AtOp(t, "GETID"), NEW o, o = Operand(t)
               PROVE  id[o] # None /\ run[id[o]] = o
    BY DEF IdNamesRun
  <2>1. at[t] = "run" /\ run[t] # None /\ Instr(t).op = "GETID"
    BY DEF AtOp, Up, Base, TypeOK
  <2>2. id[o] \in Tids /\ run[id[o]] = o
    BY <2>1, AtOperand
  <2> QED
    BY <2>2, NameAssumption
<1> HIDE DEF IInv
<1> QED
  BY <1>1, <1>2, <1>3, PTL DEF Spec

\* A main that has returned is at a RTRN.
Returned == process = "returned" => Instr(MainTid).op = "RTRN" /\ at[MainTid] = "run"

LEMMA NextReturned ==
  ASSUME Base, Family, Returned, [Next]_vars
  PROVE  Returned'
<1>1. ASSUME NEW t \in Tids, ThreadStep(t), ~ MainReturns(t) PROVE process' # "returned"
  BY <1>1, ThreadJoinFamily DEF ThreadStep, ProcessAsyncMethodCall, AssignId, AddThread, ThreadJoin, Joined, CriticalStart,
     CriticalEnd, GetExecuteID, RunReturns, RemoveThread, AtOp, Up
<1>2. ASSUME NEW t \in Tids, MainReturns(t) PROVE Returned'
  BY <1>2 DEF MainReturns, AtOp, Up, Returned, Instr, Family, Joining
<1>3. ASSUME Shutdown PROVE FALSE
  BY <1>3 DEF Shutdown, ShutdownJoin, ShutdownJoined, ShutdownDone, Up, Family, MainIn
<1>4. ASSUME UNCHANGED vars PROVE Returned'
  BY <1>4 DEF vars, threadVars, Returned, Instr
<1> QED
  BY <1>1, <1>2, <1>3, <1>4 DEF Next, Returned

(* Where main joins what it has executed, too, no Run is under way when the
   process ends: what a Run leaves unjoined cannot outlive its parent.     *)
THEOREM AllRunsComplete ==
  Spec /\ Joining(program) /\ Collected(program.code[Main]) => []RunsComplete
<1> DEFINE IInv == Base /\ Family /\ Returned /\ Collected(program.code[Main])
<1>1. Init /\ Joining(program) /\ Collected(program.code[Main]) => IInv
  BY InitBase, InitFamily DEF Init, Returned
<1>2. IInv /\ [Next]_vars => IInv'
  <2>1. ASSUME Base, Family, [Next]_vars PROVE program' = program
    <3>1. ASSUME NEW t \in Tids, ThreadStep(t) PROVE program' = program
      BY <3>1 DEF ThreadStep, ProcessAsyncMethodCall, AssignId, AddThread, ThreadJoin, Joined, CriticalStart,
         CriticalEnd, GetExecuteID, RunReturns, RemoveThread, MainReturns
    <3>2. ASSUME Shutdown PROVE program' = program
      BY <3>2 DEF Shutdown, ShutdownJoin, ShutdownJoined, ShutdownDone
    <3> QED
      BY <2>1, <3>1, <3>2 DEF Next, vars
  <2> QED
    BY <2>1, NextBase, NextFamily, NextReturned
<1>3. IInv => RunsComplete
  <2> SUFFICES ASSUME Base, Family, Returned, Collected(program.code[Main]), process = "returned",
                      NEW u \in Tids \ {MainTid}, at[u] # "off"
               PROVE  FALSE
    BY DEF RunsComplete
  <2>1. PICK parent \in [Objects -> Tasks], rank \in [Tasks -> Nat] : Tree(program, parent, rank)
    BY DEF Family, Joining
  <2>2. MainTid \in Tids /\ run[MainTid] = Main /\ Main # None
    BY NameAssumption DEF Family, MainIn
  <2>3. \A v \in Tids : v # MainTid /\ run[v] # None => run[v] \in Objects
    BY <2>2 DEF Family, Alone, Base, TypeOK
  <2> DEFINE R == {rank[o] : o \in {run[v] : v \in Tids} \cap Objects}
  <2>4. R \in SUBSET Nat /\ R # {}
    <3>1. run[u] \in Objects
      BY <2>3 DEF Base, TypeOK
    <3> QED
      BY <2>1, <3>1 DEF Tasks
  <2>5. PICK n \in R : \A m \in R : n <= m
    <3> HIDE DEF R
    <3> QED
      BY <2>4, LeastNatural
  <2>6. PICK v \in Tids : run[v] \in Objects /\ n = rank[run[v]]
    BY <2>5
  <2>7. PICK s \in Tids : Awaits(s, run[v])
    BY <2>6 DEF Family, Parents
  <2>8. rank[run[s]] < n
    BY <2>1, <2>6, <2>7, AwaitsChild
  <2>9. s # MainTid
    <3>1. ASSUME NEW o \in Objects PROVE Owed(MainTid, o) = 0
      <4>1. ip[MainTid] \in DOMAIN program.code[Main]
        BY <2>2, OwedIs
      <4> QED
        BY <2>2, <4>1 DEF Returned, Collected, Owed, Instr
    <3> QED
      BY <2>6, <2>7, <3>1 DEF Awaits, Returned
  <2>10. run[s] \in Objects
    BY <2>3, <2>7, <2>9 DEF Awaits
  <2>11. rank[run[s]] \in R /\ rank[run[s]] \in Nat /\ n \in Nat
    BY <2>1, <2>4, <2>5, <2>10 DEF Tasks
  <2> HIDE DEF R
  <2> QED
    BY <2>5, <2>8, <2>11
<1> HIDE DEF IInv
<1> QED
  BY <1>1, <1>2, <1>3, PTL DEF Spec

(***************************************************************************)
(* Threads implements ForkJoin.                                            *)
(***************************************************************************)
StateOf(t) ==
  IF at[t] \in {"remove", "ended"} \/ (run[t] = Main /\ process = "returned") THEN "done" ELSE "running"
State ==
  [k \in Tasks |->
     IF Runners(k) = {} THEN "idle"
     ELSE IF \/ \E t \in Runners(k) : at[t] \in {"remove", "ended"}
             \/ k = Main /\ process = "returned"
     THEN "done" ELSE "running"]
Pos == [k \in Tasks |-> IF Runners(k) = {} THEN 1 ELSE ip[CHOOSE t \in Runners(k) : TRUE]]
Owner == [m \in Mutexes |-> RunOf(owner[m])]
Ended == IF process = "up" THEN "no" ELSE process

\* A task is what its thread is.
Views ==
  \A k \in Tasks :
    /\ \A t \in Tids : run[t] = k => State[k] = StateOf(t) /\ Pos[k] = ip[t]
    /\ (\A t \in Tids : run[t] # k) => State[k] = "idle" /\ Pos[k] = 1

LEMMA AloneViews == Alone => Views
<1> SUFFICES ASSUME Alone, NEW k \in Tasks
             PROVE  /\ \A t \in Tids : run[t] = k => State[k] = StateOf(t) /\ Pos[k] = ip[t]
                    /\ (\A t \in Tids : run[t] # k) => State[k] = "idle" /\ Pos[k] = 1
  BY DEF Views
<1>1. ASSUME NEW t \in Tids, run[t] = k PROVE State[k] = StateOf(t) /\ Pos[k] = ip[t]
  <2>1. Runners(k) = {t}
    BY <1>1, NameAssumption DEF Runners, Alone, Tasks
  <2>2. (CHOOSE u \in Runners(k) : TRUE) = t
    BY <2>1
  <2> QED
    BY <1>1, <2>1, <2>2 DEF State, StateOf, Pos
<1>2. ASSUME \A t \in Tids : run[t] # k PROVE State[k] = "idle" /\ Pos[k] = 1
  <2>1. Runners(k) = {}
    BY <1>2 DEF Runners
  <2> QED
    BY <2>1 DEF State, Pos
<1> QED
  BY <1>1, <1>2

LEMMA AloneViewsNext == Alone' => Views'
<1> SUFFICES ASSUME Alone', NEW k \in Tasks
             PROVE  /\ \A t \in Tids : run'[t] = k => State'[k] = StateOf(t)' /\ Pos'[k] = ip'[t]
                    /\ (\A t \in Tids : run'[t] # k) => State'[k] = "idle" /\ Pos'[k] = 1
  BY DEF Views
<1>1. ASSUME NEW t \in Tids, run'[t] = k PROVE State'[k] = StateOf(t)' /\ Pos'[k] = ip'[t]
  <2>1. Runners(k)' = {t}
    BY <1>1, NameAssumption DEF Runners, Alone, Tasks
  <2>2. (CHOOSE u \in Runners(k)' : TRUE) = t
    BY <2>1
  <2> QED
    BY <1>1, <2>1, <2>2 DEF State, StateOf, Pos
<1>2. ASSUME \A t \in Tids : run'[t] # k PROVE State'[k] = "idle" /\ Pos'[k] = 1
  <2>1. Runners(k)' = {}
    BY <1>2 DEF Runners
  <2> QED
    BY <2>1 DEF State, Pos
<1> QED
  BY <1>1, <1>2

\* A step of one thread changes what its task is.
LEMMA OneMoves ==
  ASSUME Views, Views', NEW t \in Tids, run[t] \in Tasks, run' = run,
         \A u \in Tids \ {t} : run[u] # None => StateOf(u)' = StateOf(u) /\ ip'[u] = ip[u],
         Alone
  PROVE  /\ State' = [State EXCEPT ![run[t]] = StateOf(t)']
         /\ Pos' = [Pos EXCEPT ![run[t]] = ip'[t]]
<1>0. None \notin Tasks
  BY NameAssumption DEF Tasks
<1>1. ASSUME NEW k \in Tasks
      PROVE  /\ State'[k] = IF k = run[t] THEN StateOf(t)' ELSE State[k]
             /\ Pos'[k] = IF k = run[t] THEN ip'[t] ELSE Pos[k]
  <2>1. CASE k = run[t]
    BY <2>1 DEF Views
  <2>2. CASE k # run[t] /\ \A u \in Tids : run[u] # k
    BY <2>2 DEF Views
  <2>3. ASSUME k # run[t], NEW u \in Tids, run[u] = k
        PROVE  State'[k] = State[k] /\ Pos'[k] = Pos[k]
    <3>1. u # t /\ StateOf(u)' = StateOf(u) /\ ip'[u] = ip[u]
      BY <1>0, <2>3
    <3> QED
      BY <2>3, <3>1 DEF Views
  <2> QED
    BY <2>1, <2>2, <2>3
<1>2. DOMAIN State = Tasks /\ DOMAIN Pos = Tasks /\ State' = [k \in Tasks |-> State'[k]]
      /\ Pos' = [k \in Tasks |-> Pos'[k]]
  BY DEF State, Pos
<1> HIDE DEF State, Pos
<1> QED
  BY <1>1, <1>2

LEMMA NoneMoves ==
  ASSUME Views, Views', run' = run,
         \A u \in Tids : run[u] # None => StateOf(u)' = StateOf(u) /\ ip'[u] = ip[u]
  PROVE  State' = State /\ Pos' = Pos
<1>0. None \notin Tasks
  BY NameAssumption DEF Tasks
<1>1. ASSUME NEW k \in Tasks PROVE State'[k] = State[k] /\ Pos'[k] = Pos[k]
  <2>1. CASE \A u \in Tids : run[u] # k
    BY <2>1 DEF Views
  <2>2. ASSUME NEW u \in Tids, run[u] = k PROVE State'[k] = State[k] /\ Pos'[k] = Pos[k]
    <3>1. StateOf(u)' = StateOf(u) /\ ip'[u] = ip[u]
      BY <1>0, <2>2
    <3> QED
      BY <2>2, <3>1 DEF Views
  <2> QED
    BY <2>1, <2>2
<1>2. State = [k \in Tasks |-> State[k]] /\ State' = [k \in Tasks |-> State'[k]]
      /\ Pos = [k \in Tasks |-> Pos[k]] /\ Pos' = [k \in Tasks |-> Pos'[k]]
  BY DEF State, Pos
<1> HIDE DEF State, Pos
<1> QED
  BY <1>1, <1>2

\* Who holds a mutex goes on holding it.
LEMMA OwnersStay ==
  ASSUME Base, owner' = owner, \A m \in Mutexes : owner[m] # None => run'[owner[m]] = run[owner[m]]
  PROVE  Owner' = Owner
BY DEF Owner, RunOf

\* The steps of ForkJoin in terms of these.
LEMMA ForksOf ==
  /\ Forks!Init <=> /\ State = [k \in Tasks |-> IF k = Main THEN "running" ELSE "idle"]
                    /\ Pos = [k \in Tasks |-> 1] /\ Owner = [m \in Mutexes |-> None] /\ Ended = "no"
  /\ Forks!vars = <<program.code, State, Pos, Owner, Ended>>
  /\ \A k, op : Forks!AtOp(k, op) <=>
       Ended = "no" /\ State[k] = "running" /\ program.code[k][Pos[k]].op = op
  /\ \A k : Forks!Operand(k) = program.code[k][Pos[k]].of
BY DEF Forks!Init, Forks!vars, Forks!AtOp, Forks!Operand, State, Pos, Owner, Ended

LEMMA ForkSteps ==
  ASSUME NEW k \in Tasks
  PROVE
  /\ Forks!AtOp(k, "EXECUTE") /\ State[Forks!Operand(k)] = "idle"
     /\ State' = [State EXCEPT ![Forks!Operand(k)] = "running"]
     /\ UNCHANGED <<program, Pos, Owner, Ended>> => Forks!Next
  /\ Forks!AtOp(k, "EXECUTE") /\ State[Forks!Operand(k)] # "idle"
     /\ Pos' = [Pos EXCEPT ![k] = Pos[k] + 1] /\ UNCHANGED <<program, State, Owner, Ended>> => Forks!Next
  /\ Forks!AtOp(k, "JOIN") /\ State[Forks!Operand(k)] = "done"
     /\ State' = [State EXCEPT ![Forks!Operand(k)] = "idle"]
     /\ Pos' = [Pos EXCEPT ![k] = Pos[k] + 1, ![Forks!Operand(k)] = 1]
     /\ UNCHANGED <<program, Owner, Ended>> => Forks!Next
  /\ Forks!AtOp(k, "CRITICAL_START") /\ Owner[Forks!Operand(k)] = None
     /\ Owner' = [Owner EXCEPT ![Forks!Operand(k)] = k]
     /\ Pos' = [Pos EXCEPT ![k] = Pos[k] + 1] /\ UNCHANGED <<program, State, Ended>> => Forks!Next
  /\ Forks!AtOp(k, "CRITICAL_END") /\ Owner[Forks!Operand(k)] = k
     /\ Owner' = [Owner EXCEPT ![Forks!Operand(k)] = None]
     /\ Pos' = [Pos EXCEPT ![k] = Pos[k] + 1] /\ UNCHANGED <<program, State, Ended>> => Forks!Next
  /\ Forks!AtOp(k, "GETID") /\ Pos' = [Pos EXCEPT ![k] = Pos[k] + 1]
     /\ UNCHANGED <<program, State, Owner, Ended>> => Forks!Next
  /\ Forks!AtOp(k, "RTRN") /\ State' = [State EXCEPT ![k] = "done"]
     /\ Ended' = (IF k = Main THEN "returned" ELSE Ended)
     /\ UNCHANGED <<program, Pos, Owner>> => Forks!Next
<1>1. Forks!AtOp(k, "EXECUTE") /\ State[Forks!Operand(k)] = "idle"
      /\ State' = [State EXCEPT ![Forks!Operand(k)] = "running"]
      /\ UNCHANGED <<program, Pos, Owner, Ended>> => Forks!Fork(k)
  BY DEF Forks!Fork, State, Pos, Owner, Ended
<1>2. Forks!AtOp(k, "EXECUTE") /\ State[Forks!Operand(k)] # "idle"
      /\ Pos' = [Pos EXCEPT ![k] = Pos[k] + 1] /\ UNCHANGED <<program, State, Owner, Ended>>
      => Forks!Forked(k)
  BY DEF Forks!Forked, Forks!Go, State, Pos, Owner, Ended
<1>3. Forks!AtOp(k, "JOIN") /\ State[Forks!Operand(k)] = "done"
      /\ State' = [State EXCEPT ![Forks!Operand(k)] = "idle"]
      /\ Pos' = [Pos EXCEPT ![k] = Pos[k] + 1, ![Forks!Operand(k)] = 1]
      /\ UNCHANGED <<program, Owner, Ended>> => Forks!Join(k)
  BY DEF Forks!Join, State, Pos, Owner, Ended
<1>4. Forks!AtOp(k, "CRITICAL_START") /\ Owner[Forks!Operand(k)] = None
      /\ Owner' = [Owner EXCEPT ![Forks!Operand(k)] = k]
      /\ Pos' = [Pos EXCEPT ![k] = Pos[k] + 1] /\ UNCHANGED <<program, State, Ended>>
      => Forks!Enter(k)
  BY DEF Forks!Enter, Forks!Go, State, Pos, Owner, Ended
<1>5. Forks!AtOp(k, "CRITICAL_END") /\ Owner[Forks!Operand(k)] = k
      /\ Owner' = [Owner EXCEPT ![Forks!Operand(k)] = None]
      /\ Pos' = [Pos EXCEPT ![k] = Pos[k] + 1] /\ UNCHANGED <<program, State, Ended>>
      => Forks!Leave(k)
  BY DEF Forks!Leave, Forks!Go, State, Pos, Owner, Ended
<1>6. Forks!AtOp(k, "GETID") /\ Pos' = [Pos EXCEPT ![k] = Pos[k] + 1]
      /\ UNCHANGED <<program, State, Owner, Ended>> => Forks!Step(k)
  BY DEF Forks!Step, Forks!Go, State, Pos, Owner, Ended
<1>7. Forks!AtOp(k, "RTRN") /\ State' = [State EXCEPT ![k] = "done"]
      /\ Ended' = (IF k = Main THEN "returned" ELSE Ended)
      /\ UNCHANGED <<program, Pos, Owner>> => Forks!Return(k)
  BY DEF Forks!Return, State, Pos, Owner, Ended
<1>8. Forks!Fork(k) \/ Forks!Forked(k) \/ Forks!Join(k) \/ Forks!Enter(k) \/ Forks!Leave(k)
      \/ Forks!Step(k) \/ Forks!Return(k) => Forks!Next
  BY DEF Forks!Next
<1> QED
  BY <1>1, <1>2, <1>3, <1>4, <1>5, <1>6, <1>7, <1>8

\* A task whose thread is under way is at that thread's instruction.
LEMMA AtPlace ==
  ASSUME Base, Family, NEW t \in Tids, process = "up", at[t] \in {"run", "created", "assigned", "join"}
  PROVE  /\ Views /\ run[t] \in Tasks /\ run[t] # None /\ Ended = "no" /\ ip[t] \in Nat
         /\ State[run[t]] = "running" /\ Pos[run[t]] = ip[t] /\ StateOf(t) = "running"
         /\ Forks!AtOp(run[t], Instr(t).op) /\ Forks!Operand(run[t]) = Operand(t)
<1>1. run[t] \in Tasks /\ run[t] # None /\ ip[t] \in Nat
  BY DEF Base, TypeOK, Tasks
<1>2. Views
  BY AloneViews DEF Family
<1>3. Ended = "no" /\ StateOf(t) = "running"
  BY DEF Ended, StateOf
<1>4. State[run[t]] = "running" /\ Pos[run[t]] = ip[t]
  BY <1>1, <1>2, <1>3 DEF Views
<1>5. Forks!AtOp(run[t], Instr(t).op) /\ Forks!Operand(run[t]) = Operand(t)
  BY <1>3, <1>4, ForksOf DEF Instr, Operand
<1> QED
  BY <1>1, <1>2, <1>3, <1>4, <1>5

Seen == Forks!Next \/ UNCHANGED <<program, State, Pos, Owner, Ended>>

LEMMA ExecuteSeen ==
  ASSUME Base, Family, Family', InsideHeld, NEW t \in Tids, ProcessAsyncMethodCall(t)
  PROVE  Seen
<1>0. PICK o : o = Operand(t)
  OBVIOUS
<1>1. /\ process = "up" /\ at[t] = "run" /\ Instr(t).op = "EXECUTE"
      /\ UNCHANGED <<program, owner, process>>
  BY DEF ProcessAsyncMethodCall, AtOp, Up
<1>2. PICK u \in Tids :
        /\ at[u] = "off" /\ at' = [at EXCEPT ![t] = "created", ![u] = "run"]
        /\ run' = [run EXCEPT ![u] = o] /\ ip' = [ip EXCEPT ![u] = 1]
  BY <1>0 DEF ProcessAsyncMethodCall
<1>3. o \in Objects /\ \A v \in Tids : run[v] # o
  BY <1>0, <1>1, ExecutedIdle
<1>4. run[u] = None /\ t # u /\ o # None /\ o # Main
  BY <1>1, <1>2, <1>3, NameAssumption DEF Base, TypeOK
<1>5. /\ at'[t] = "created" /\ at'[u] = "run" /\ run'[u] = o /\ ip'[u] = 1
      /\ run'[t] = run[t] /\ ip'[t] = ip[t]
      /\ \A v \in Tids \ {t, u} : at'[v] = at[v] /\ run'[v] = run[v] /\ ip'[v] = ip[v]
  BY <1>2, <1>4 DEF Base, TypeOK
<1>6. /\ Views /\ run[t] \in Tasks /\ Ended = "no"
      /\ Forks!AtOp(run[t], "EXECUTE") /\ Forks!Operand(run[t]) = o
  BY <1>0, <1>1, AtPlace
<1>7. Views'
  BY AloneViewsNext DEF Family
<1>8. o \in Tasks /\ State[o] = "idle" /\ Pos[o] = 1
  BY <1>3, <1>6 DEF Views, Tasks
<1>9. \A v \in Tids \ {u} : StateOf(v)' = StateOf(v)
  BY <1>1, <1>5 DEF StateOf
<1>10. StateOf(u)' = "running"
  BY <1>1, <1>4, <1>5 DEF StateOf
<1>11. ASSUME NEW k \in Tasks
       PROVE  State'[k] = (IF k = o THEN "running" ELSE State[k]) /\ Pos'[k] = Pos[k]
  <2>0. k # None
    BY NameAssumption DEF Tasks
  <2>1. CASE k = o
    BY <1>5, <1>7, <1>8, <1>10, <2>1 DEF Views
  <2>2. CASE k # o /\ \A v \in Tids : run[v] # k
    <3>1. \A v \in Tids : run'[v] # k
      BY <1>5, <2>2
    <3> QED
      BY <1>6, <1>7, <2>2, <3>1 DEF Views
  <2>3. ASSUME k # o, NEW v \in Tids, run[v] = k
        PROVE  State'[k] = State[k] /\ Pos'[k] = Pos[k]
    <3>1. v # u /\ run'[v] = k /\ ip'[v] = ip[v] /\ StateOf(v)' = StateOf(v)
      BY <1>4, <1>5, <1>9, <2>0, <2>3
    <3> QED
      BY <1>6, <1>7, <2>3, <3>1 DEF Views
  <2> QED
    BY <2>1, <2>2, <2>3
<1>12. State' = [State EXCEPT ![o] = "running"] /\ Pos' = Pos
  <2>1. State = [k \in Tasks |-> State[k]] /\ State' = [k \in Tasks |-> State'[k]]
        /\ Pos = [k \in Tasks |-> Pos[k]] /\ Pos' = [k \in Tasks |-> Pos'[k]]
    BY DEF State, Pos
  <2> HIDE DEF State, Pos
  <2> QED
    BY <1>8, <1>11, <2>1
<1>13. Owner' = Owner /\ Ended' = Ended
  <2>1. \A m \in Mutexes : owner[m] # None => owner[m] \in Tids /\ owner[m] # u
    BY <1>4 DEF InsideHeld, Base, TypeOK
  <2>2. \A m \in Mutexes : owner[m] # None => run'[owner[m]] = run[owner[m]]
    BY <1>5, <2>1
  <2> QED
    BY <1>1, <2>2, OwnersStay DEF Ended
<1> QED
  BY <1>1, <1>6, <1>8, <1>12, <1>13, ForkSteps DEF Seen

LEMMA AssignSeen ==
  ASSUME Base, Family, Family', NEW t \in Tids,
         AssignId(t) \/ ThreadJoin(t) \/ RemoveThread(t)
  PROVE  Seen
<1>1. /\ UNCHANGED <<program, run, ip, owner, process>>
      /\ \/ at[t] = "created" /\ at' = [at EXCEPT ![t] = "assigned"]
         \/ at[t] = "run" /\ at' = [at EXCEPT ![t] = "join"]
         \/ at[t] = "remove" /\ at' = [at EXCEPT ![t] = "ended"]
  BY ThreadJoinFamily DEF AssignId, ThreadJoin, RemoveThread, Up
<1>2. \A v \in Tids : at'[v] = IF v = t THEN at'[t] ELSE at[v]
  BY <1>1 DEF Base, TypeOK
<1>3. at'[t] \in {"remove", "ended"} <=> at[t] \in {"remove", "ended"}
  BY <1>1 DEF Base, TypeOK
<1>4. \A v \in Tids : StateOf(v)' = StateOf(v)
  BY <1>1, <1>2, <1>3 DEF StateOf
<1>5. Views /\ Views'
  BY AloneViews, AloneViewsNext DEF Family
<1>6. State' = State /\ Pos' = Pos
  BY <1>1, <1>4, <1>5, NoneMoves
<1>7. Owner' = Owner /\ Ended' = Ended
  BY <1>1, OwnersStay DEF Ended
<1> QED
  BY <1>1, <1>6, <1>7 DEF Seen

\* A thread goes on to its next instruction.
LEMMA GoesOn ==
  ASSUME Base, Family, Family', NEW t \in Tids, process = "up",
         at[t] \in {"run", "assigned"}, GoOn(t),
         UNCHANGED <<program, run, process>>
  PROVE  State' = State /\ Pos' = [Pos EXCEPT ![run[t]] = Pos[run[t]] + 1] /\ Ended' = Ended
<1>1. Views /\ run[t] \in Tasks /\ StateOf(t) = "running" /\ State[run[t]] = "running" /\ Pos[run[t]] = ip[t]
  BY AtPlace
<1>2. /\ at'[t] = "run" /\ ip'[t] = ip[t] + 1
      /\ \A v \in Tids \ {t} : at'[v] = at[v] /\ ip'[v] = ip[v]
  BY DEF GoOn, Base, TypeOK
<1>3. \A v \in Tids \ {t} : StateOf(v)' = StateOf(v) /\ ip'[v] = ip[v]
  BY <1>2 DEF StateOf
<1>4. StateOf(t)' = "running"
  BY <1>2 DEF StateOf
<1>5. Views'
  BY AloneViewsNext DEF Family
<1>6. State' = [State EXCEPT ![run[t]] = "running"] /\ Pos' = [Pos EXCEPT ![run[t]] = ip[t] + 1]
  BY <1>1, <1>2, <1>3, <1>4, <1>5, OneMoves DEF Family
<1>7. State = [k \in Tasks |-> State[k]]
  BY DEF State
<1>8. State' = State
  <2> HIDE DEF State
  <2> QED
    BY <1>1, <1>6, <1>7
<1>9. Ended' = Ended
  BY DEF Ended
<1> QED
  BY <1>1, <1>6, <1>8, <1>9

LEMMA AddSeen ==
  ASSUME Base, Family, Family', NEW t \in Tids, AddThread(t)
  PROVE  Seen
<1>0. PICK o : o = Operand(t)
  OBVIOUS
<1>1. /\ process = "up" /\ at[t] = "assigned" /\ Instr(t).op = "EXECUTE" /\ run[t] # None
      /\ GoOn(t) /\ UNCHANGED <<program, run, owner, process>>
  BY DEF AddThread, Up, Base, TypeOK, AtInstructions
<1>2. /\ run[t] \in Tasks /\ Views
      /\ Forks!AtOp(run[t], "EXECUTE") /\ Forks!Operand(run[t]) = o
  BY <1>0, <1>1, AtPlace
<1>3. o \in Objects /\ id[o] \in Tids /\ run[id[o]] = o
  <2>1. o \in Objects
    BY <1>0, <1>1, AtOperand
  <2>2. Awaits(t, o) /\ Child(t, o) = id[o]
    BY <1>0, <1>1 DEF Awaits, Child
  <2> QED
    BY <2>1, <2>2 DEF Family, Children
<1>4. State[o] # "idle"
  <2>1. State[o] = StateOf(id[o])
    BY <1>2, <1>3 DEF Views, Tasks
  <2> QED
    BY <2>1 DEF StateOf
<1>5. Owner' = Owner
  BY <1>1, OwnersStay
<1>6. State' = State /\ Pos' = [Pos EXCEPT ![run[t]] = Pos[run[t]] + 1] /\ Ended' = Ended
  BY <1>1, GoesOn
<1> QED
  BY <1>1, <1>2, <1>4, <1>5, <1>6, ForkSteps DEF Seen

LEMMA GetIdSeen ==
  ASSUME Base, Family, Family', NEW t \in Tids, GetExecuteID(t)
  PROVE  Seen
<1>1. /\ process = "up" /\ at[t] = "run" /\ Instr(t).op = "GETID" /\ GoOn(t)
      /\ UNCHANGED <<program, run, owner, process>>
  BY DEF GetExecuteID, AtOp, Up
<1>2. run[t] \in Tasks /\ Forks!AtOp(run[t], "GETID")
  BY <1>1, AtPlace
<1>3. Owner' = Owner
  BY <1>1, OwnersStay
<1> QED
  BY <1>1, <1>2, <1>3, GoesOn, ForkSteps DEF Seen

LEMMA CriticalSeen ==
  ASSUME \A code \in AllCode : Bracketed(code),
         Base, Family, Family', HeldInside, NEW t \in Tids, CriticalStart(t) \/ CriticalEnd(t)
  PROVE  Seen
<1>0. PICK m : m = Operand(t)
  OBVIOUS
<1>1. /\ process = "up" /\ at[t] = "run" /\ GoOn(t) /\ UNCHANGED <<program, run, process>>
      /\ \/ Instr(t).op = "CRITICAL_START" /\ owner[m] = None /\ owner' = [owner EXCEPT ![m] = t]
         \/ Instr(t).op = "CRITICAL_END" /\ owner' = [owner EXCEPT ![m] = None]
  BY <1>0 DEF CriticalStart, CriticalEnd, AtOp, Up
<1>2. /\ run[t] \in Tasks /\ run[t] # None /\ ip[t] \in Nat /\ Forks!Operand(run[t]) = m
      /\ Forks!AtOp(run[t], Instr(t).op)
  BY <1>0, <1>1, AtPlace
<1>3. m \in Mutexes
  BY <1>0, <1>1, <1>2, InstrOfThread DEF Base
<1>4. Instr(t).op = "CRITICAL_END" => owner[m] = t
  <2> SUFFICES ASSUME Instr(t).op = "CRITICAL_END" PROVE owner[m] = t
    OBVIOUS
  <2> DEFINE c == program.code[run[t]]
  <2>1. c \in AllCode /\ ip[t] \in DOMAIN c
    BY <1>2, <1>3, DepthType
  <2>2. c[ip[t]].op = "CRITICAL_END" /\ c[ip[t]].of = m
    BY <1>0 DEF Instr, Operand
  <2>3. Starts(c, m, ip[t]) > Ends(c, m, ip[t])
    BY <1>3, <2>1, <2>2 DEF Bracketed
  <2>4. Depth(t, m) > 0
    BY <1>2, <2>3, DeepType DEF Depth, Deep
  <2> QED
    BY <1>2, <1>3, <2>4 DEF HeldInside
<1>5. State' = State /\ Pos' = [Pos EXCEPT ![run[t]] = Pos[run[t]] + 1] /\ Ended' = Ended
  BY <1>1, GoesOn
<1>6. /\ DOMAIN owner = Mutexes /\ t # None
      /\ \A q \in Mutexes : Owner[q] = RunOf(owner[q])
      /\ Owner' = [q \in Mutexes |-> RunOf(owner'[q])]
  BY <1>1, NameAssumption DEF Base, TypeOK, Owner, RunOf
<1>7. CASE Instr(t).op = "CRITICAL_START"
  <2>1. owner[m] = None /\ owner' = [owner EXCEPT ![m] = t]
    BY <1>1, <1>7
  <2>2. Owner[m] = None /\ Owner' = [Owner EXCEPT ![m] = run[t]]
    BY <1>3, <1>6, <2>1 DEF Owner, RunOf
  <2> QED
    BY <1>1, <1>2, <1>5, <1>7, <2>2, ForkSteps DEF Seen
<1>8. CASE Instr(t).op = "CRITICAL_END"
  <2>1. owner[m] = t /\ owner' = [owner EXCEPT ![m] = None]
    BY <1>1, <1>4, <1>8
  <2>2. Owner[m] = run[t] /\ Owner' = [Owner EXCEPT ![m] = None]
    BY <1>3, <1>6, <2>1 DEF Owner, RunOf
  <2> QED
    BY <1>1, <1>2, <1>5, <1>8, <2>2, ForkSteps DEF Seen
<1> QED
  BY <1>1, <1>7, <1>8

LEMMA ReturnSeen ==
  ASSUME Base, Family, Family', NEW t \in Tids, RunReturns(t) \/ MainReturns(t)
  PROVE  Seen
<1>1. /\ process = "up" /\ at[t] = "run" /\ Instr(t).op = "RTRN" /\ UNCHANGED <<program, run, ip, owner>>
      /\ \/ t # MainTid /\ at' = [at EXCEPT ![t] = "remove"] /\ process' = process
         \/ t = MainTid /\ at' = at /\ process' = "returned"
  BY DEF RunReturns, MainReturns, AtOp, Up, Family, Joining
<1>2. /\ run[t] \in Tasks /\ run[t] # None /\ Views /\ Ended = "no" /\ Pos[run[t]] = ip[t]
      /\ Forks!AtOp(run[t], "RTRN")
  BY <1>1, AtPlace
<1>3. t = MainTid <=> run[t] = Main
  BY <1>2, NameAssumption DEF Family, Alone, MainIn
<1>4. \A v \in Tids \ {t} : at'[v] = at[v] /\ (run[v] # None => run[v] # run[t])
  BY <1>1 DEF Base, TypeOK, Family, Alone
<1>5. \A v \in Tids \ {t} : run[v] # None => StateOf(v)' = StateOf(v) /\ ip'[v] = ip[v]
  BY <1>1, <1>3, <1>4 DEF StateOf
<1>6. StateOf(t)' = "done"
  BY <1>1, <1>3 DEF StateOf, Base, TypeOK
<1>7. Views'
  BY AloneViewsNext DEF Family
<1>8. State' = [State EXCEPT ![run[t]] = "done"] /\ Pos' = [Pos EXCEPT ![run[t]] = ip[t]]
  BY <1>1, <1>2, <1>5, <1>6, <1>7, OneMoves DEF Family
<1>9. Pos = [k \in Tasks |-> Pos[k]]
  BY DEF Pos
<1>10. Pos' = Pos
  <2> HIDE DEF Pos
  <2> QED
    BY <1>2, <1>8, <1>9
<1>11. Owner' = Owner /\ Ended' = IF run[t] = Main THEN "returned" ELSE Ended
  BY <1>1, <1>3, OwnersStay DEF Ended
<1> QED
  BY <1>1, <1>2, <1>8, <1>10, <1>11, ForkSteps DEF Seen

LEMMA JoinedSeen ==
  ASSUME \A code \in AllCode : Closed(code), Base, Family, Family', InsideHeld, NEW t \in Tids, Joined(t)
  PROVE  Seen
<1>0. PICK o : o = Operand(t)
  OBVIOUS
<1>1. PICK u \in Tids : EndJoin(t, u, "run") /\ ip' = [ip EXCEPT ![u] = 1, ![t] = @ + 1]
  BY DEF Joined
<1>2. /\ joiner[u] = t /\ at[u] = "ended" /\ run' = [run EXCEPT ![u] = None]
      /\ at' = [at EXCEPT ![t] = "run", ![u] = "off"]
      /\ UNCHANGED <<program, owner, process>> /\ process = "up"
  BY <1>1 DEF EndJoin, Joined, Up
<1>3. /\ o \in Objects /\ run[u] = o /\ at[t] = "join" /\ Instr(t).op = "JOIN"
      /\ u # t /\ Instr(u).op = "RTRN"
  BY <1>0, <1>2, JoinedThread
<1>4. /\ run[t] \in Tasks /\ run[t] # None /\ Views /\ Ended = "no" /\ Pos[run[t]] = ip[t]
      /\ Forks!AtOp(run[t], "JOIN") /\ Forks!Operand(run[t]) = o
      /\ State[run[t]] = "running" /\ StateOf(t) = "running"
  BY <1>0, <1>2, <1>3, AtPlace
<1>5. /\ at'[t] = "run" /\ run'[u] = None /\ run'[t] = run[t] /\ ip'[t] = ip[t] + 1
      /\ \A v \in Tids \ {t, u} : at'[v] = at[v] /\ run'[v] = run[v] /\ ip'[v] = ip[v]
  BY <1>1, <1>2, <1>3 DEF Base, TypeOK
<1>6. Views'
  BY AloneViewsNext DEF Family
<1>7. o \in Tasks /\ o # None /\ run[t] # o /\ \A v \in Tids \ {u} : run[v] # o
  BY <1>3, NameAssumption DEF Tasks, Family, Alone
<1>8. State[o] = "done"
  BY <1>2, <1>3, <1>4, <1>7 DEF Views, StateOf
<1>9. \A v \in Tids \ {t, u} : StateOf(v)' = StateOf(v)
  BY <1>2, <1>5 DEF StateOf
<1>10. StateOf(t)' = "running"
  BY <1>2, <1>5 DEF StateOf
<1>11. ASSUME NEW k \in Tasks
       PROVE  /\ State'[k] = IF k = o THEN "idle" ELSE State[k]
              /\ Pos'[k] = IF k = o THEN 1 ELSE IF k = run[t] THEN Pos[k] + 1 ELSE Pos[k]
  <2>0. k # None
    BY NameAssumption DEF Tasks
  <2>1. CASE k = o
    <3>1. \A v \in Tids : run'[v] # k
      BY <1>5, <1>7, <2>0, <2>1
    <3> QED
      BY <1>6, <2>1, <3>1 DEF Views
  <2>2. CASE k = run[t]
    <3>1. State'[k] = "running" /\ Pos'[k] = ip[t] + 1
      BY <1>5, <1>6, <1>10, <2>2 DEF Views
    <3> QED
      BY <1>4, <1>7, <2>2, <3>1
  <2>3. CASE k # o /\ k # run[t] /\ \A v \in Tids : run[v] # k
    <3>1. \A v \in Tids : run'[v] # k
      BY <1>5, <2>0, <2>3
    <3> QED
      BY <1>4, <1>6, <2>3, <3>1 DEF Views
  <2>4. ASSUME k # o, k # run[t], NEW v \in Tids, run[v] = k
        PROVE  State'[k] = State[k] /\ Pos'[k] = Pos[k]
    <3>1. v \notin {t, u}
      BY <1>3, <2>4
    <3>2. run'[v] = k /\ ip'[v] = ip[v] /\ StateOf(v)' = StateOf(v)
      BY <1>5, <1>9, <2>4, <3>1
    <3> QED
      BY <1>4, <1>6, <2>4, <3>2 DEF Views
  <2> QED
    BY <2>1, <2>2, <2>3, <2>4
<1>12. /\ State' = [State EXCEPT ![o] = "idle"]
       /\ Pos' = [Pos EXCEPT ![run[t]] = Pos[run[t]] + 1, ![o] = 1]
  <2>1. State = [k \in Tasks |-> State[k]] /\ State' = [k \in Tasks |-> State'[k]]
        /\ Pos = [k \in Tasks |-> Pos[k]] /\ Pos' = [k \in Tasks |-> Pos'[k]]
    BY DEF State, Pos
  <2> HIDE DEF State, Pos
  <2>2. State' = [State EXCEPT ![o] = "idle"]
    BY <1>7, <1>11, <2>1
  <2>3. Pos' = [k \in Tasks |-> IF k = o THEN 1 ELSE IF k = run[t] THEN Pos[k] + 1 ELSE Pos[k]]
    BY <1>11, <2>1
  <2>4. [Pos EXCEPT ![run[t]] = Pos[run[t]] + 1, ![o] = 1]
          = [k \in Tasks |-> IF k = o THEN 1 ELSE IF k = run[t] THEN Pos[k] + 1 ELSE Pos[k]]
    BY <1>4, <1>7, <2>1
  <2> QED
    BY <2>2, <2>3, <2>4
<1>13. Owner' = Owner /\ Ended' = Ended
  <2>1. \A m \in Mutexes : owner[m] # u
    BY <1>3, NothingHeld
  <2>2. \A m \in Mutexes : owner[m] # None => run'[owner[m]] = run[owner[m]]
    BY <1>5, <2>1 DEF Base, TypeOK
  <2> QED
    BY <1>2, <2>2, OwnersStay DEF Ended
<1> QED
  BY <1>2, <1>4, <1>8, <1>12, <1>13, ForkSteps DEF Seen

LEMMA NextSeen ==
  ASSUME \A code \in AllCode : Bracketed(code) /\ Closed(code),
         Base, Family, Family', HeldInside, InsideHeld, [Next]_vars
  PROVE  Seen
<1>1. ASSUME NEW t \in Tids, ThreadStep(t) PROVE Seen
  BY <1>1, ExecuteSeen, AssignSeen, AddSeen, JoinedSeen, CriticalSeen, GetIdSeen, ReturnSeen DEF ThreadStep
<1>2. ASSUME Shutdown PROVE FALSE
  BY <1>2 DEF Shutdown, ShutdownJoin, ShutdownJoined, ShutdownDone, Up, Family, MainIn
<1>3. ASSUME UNCHANGED vars PROVE Seen
  <2>1. UNCHANGED <<program, at, run, ip, owner, process>>
    BY <1>3 DEF vars, threadVars
  <2>2. UNCHANGED <<State, Pos, Owner, Ended>>
    BY <2>1 DEF State, Pos, Owner, Ended, Runners, RunOf
  <2> QED
    BY <2>1, <2>2 DEF Seen
<1> QED
  BY <1>1, <1>2, <1>3 DEF Next

(* Threads with ids that are used again, a list and mutexes are, to programs
   that join what they execute, tasks that fork, join and lock: Execute starts
   the Run of its object, Join returns when that Run is over and never fails,
   and a section is entered by one Run at a time.                          *)
THEOREM RunsForkAndJoin ==
  ASSUME \A code \in AllCode : Bracketed(code) /\ Closed(code)
  PROVE  Spec /\ Joining(program) => ForksAndJoins
<1> DEFINE IInv == Base /\ Family /\ HeldInside /\ InsideHeld
<1>1. Init /\ Joining(program) => IInv /\ Forks!Init
  <2> SUFFICES ASSUME Init, Joining(program) PROVE IInv /\ Forks!Init
    OBVIOUS
  <2>1. IInv
    BY InitBase, InitFamily, InitSections
  <2>2. Views
    BY <2>1, AloneViews DEF Family
  <2>3. /\ MainTid \in Tids /\ run[MainTid] = Main /\ StateOf(MainTid) = "running"
        /\ \A t \in Tids \ {MainTid} : run[t] = None
        /\ \A t \in Tids : ip[t] = 1
    BY NameAssumption DEF Init, StateOf
  <2>4. \A k \in Tasks : State[k] = (IF k = Main THEN "running" ELSE "idle") /\ Pos[k] = 1
    <3> SUFFICES ASSUME NEW k \in Tasks
                 PROVE  State[k] = (IF k = Main THEN "running" ELSE "idle") /\ Pos[k] = 1
      OBVIOUS
    <3>1. CASE k = Main
      BY <2>2, <2>3, <3>1 DEF Views
    <3>2. CASE k # Main
      <4>1. \A t \in Tids : run[t] # k
        BY <2>3, <3>2, NameAssumption DEF Tasks
      <4> QED
        BY <2>2, <3>2, <4>1 DEF Views
    <3> QED
      BY <3>1, <3>2
  <2>5. State = [k \in Tasks |-> State[k]] /\ Pos = [k \in Tasks |-> Pos[k]]
    BY DEF State, Pos
  <2>6. Owner = [m \in Mutexes |-> None] /\ Ended = "no"
    BY DEF Owner, Ended, RunOf, Init
  <2> HIDE DEF State, Pos, Owner, Ended
  <2>7. Forks!Init
    BY <2>4, <2>5, <2>6, ForksOf
  <2> QED
    BY <2>1, <2>7
<1>2. IInv /\ [Next]_vars => IInv' /\ [Forks!Next]_(Forks!vars)
  <2> SUFFICES ASSUME IInv, [Next]_vars PROVE IInv' /\ [Forks!Next]_(Forks!vars)
    OBVIOUS
  <2>1. IInv'
    BY NextBase, NextFamily, NextHeld, NextInside
  <2>2. Forks!Next \/ UNCHANGED Forks!vars
    BY <2>1, NextSeen, ForksOf DEF Seen, Forks!vars, State, Pos, Owner, Ended
  <2> QED
    BY <2>1, <2>2
<1> HIDE DEF IInv
<1> QED
  BY <1>1, <1>2, PTL DEF Spec, ForksAndJoins, Forks!Spec
====
