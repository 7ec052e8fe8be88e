-------------------------- MODULE CallStackProofs --------------------------
(***************************************************************************)
(* Theorems about CallStack: its types, no frame is lost or handed out      *)
(* twice, the collector scans exactly the frames in use, and CallStack      *)
(* implements MethodCalls: interpreters inside native code inside           *)
(* interpreters are, for the program, one stack of activations per thread,  *)
(* and every call returns once, to the instruction after it.                *)
(***************************************************************************)
EXTENDS CallStack, SequenceTheorems, Inductions, TLAPS

(***************************************************************************)
(* Stacks as sequences whose top is the last element.                      *)
(***************************************************************************)
LEMMA Pushed ==
  ASSUME NEW S, NEW s \in Seq(S), NEW e \in S
  PROVE  /\ Append(s, e) \in Seq(S) /\ Len(Append(s, e)) = Len(s) + 1 /\ Len(s) \in Nat
         /\ DOMAIN Append(s, e) = 1 .. Len(s) + 1 /\ DOMAIN s = 1 .. Len(s)
         /\ \A k \in DOMAIN s : k \in DOMAIN Append(s, e) /\ Append(s, e)[k] = s[k] /\ k # Len(s) + 1
         /\ Append(s, e)[Len(s) + 1] = e
         /\ \A k \in DOMAIN Append(s, e) : k \in DOMAIN s \/ k = Len(s) + 1
         /\ ToSet(Append(s, e)) = ToSet(s) \cup {e}
         /\ IsInjective(Append(s, e)) <=> (IsInjective(s) /\ e \notin ToSet(s))
<1>1. /\ Append(s, e) \in Seq(S) /\ Len(Append(s, e)) = Len(s) + 1 /\ Len(s) \in Nat
      /\ DOMAIN Append(s, e) = 1 .. Len(s) + 1 /\ DOMAIN s = 1 .. Len(s)
      /\ \A k \in 1 .. Len(s) : Append(s, e)[k] = s[k]
      /\ Append(s, e)[Len(s) + 1] = e
  OBVIOUS
<1> DEFINE a == Append(s, e)
           n == Len(s)
<1>2. /\ \A k \in DOMAIN s : k \in DOMAIN a /\ a[k] = s[k] /\ k # n + 1
      /\ \A k \in DOMAIN a : k \in DOMAIN s \/ k = n + 1
      /\ n + 1 \in DOMAIN a /\ a[n + 1] = e
  BY <1>1
<1> HIDE DEF a, n
<1>3. ToSet(a) = ToSet(s) \cup {e}
  BY <1>2 DEF ToSet
<1>4. IsInjective(a) <=> (IsInjective(s) /\ e \notin ToSet(s))
  BY <1>2 DEF IsInjective, ToSet
<1> QED
  BY <1>1, <1>2, <1>3, <1>4 DEF a, n

LEMMA Popped ==
  ASSUME NEW S, NEW s \in Seq(S), s # <<>>
  PROVE  /\ Front(s) \in Seq(S) /\ Last(s) \in S /\ s = Append(Front(s), Last(s))
         /\ Len(s) \in Nat \ {0} /\ Len(Front(s)) = Len(s) - 1
         /\ DOMAIN s = 1 .. Len(s) /\ DOMAIN Front(s) = 1 .. Len(s) - 1
         /\ Last(s) = s[Len(s)] /\ \A k \in 1 .. Len(s) - 1 : Front(s)[k] = s[k]
<1>1. Len(s) \in Nat \ {0} /\ DOMAIN s = 1 .. Len(s) /\ Last(s) = s[Len(s)] /\ Last(s) \in S
  BY DEF Last
<1>2. /\ Front(s) \in Seq(S) /\ Len(Front(s)) = Len(s) - 1 /\ DOMAIN Front(s) = 1 .. Len(s) - 1
      /\ \A k \in 1 .. Len(s) - 1 : Front(s)[k] = s[k]
  BY <1>1 DEF Front
<1>3. s = Append(Front(s), Last(s))
  <2> DEFINE a == Append(Front(s), Last(s))
  <2>1. /\ a \in Seq(S) /\ Len(a) = Len(s)
        /\ \A k \in 1 .. Len(s) - 1 : a[k] = s[k]
        /\ a[Len(s)] = s[Len(s)]
    <3>1. Front(s) \in Seq(S) /\ Last(s) \in S /\ (Len(s) - 1) + 1 = Len(s)
      BY <1>1, <1>2
    <3>2. /\ a \in Seq(S) /\ Len(a) = Len(Front(s)) + 1
          /\ \A k \in DOMAIN Front(s) : a[k] = Front(s)[k]
          /\ a[Len(Front(s)) + 1] = Last(s)
      BY <3>1, Pushed
    <3> HIDE DEF a
    <3> QED
      BY <1>1, <1>2, <3>1, <3>2
  <2>2. \A k \in 1 .. Len(s) : a[k] = s[k]
    <3> HIDE DEF a
    <3> QED
      BY <1>1, <2>1
  <2> HIDE DEF a
  <2>3. a = s
    BY <2>1, <2>2, SeqEqual
  <2> QED
    BY <2>3 DEF a
<1> QED
  BY <1>1, <1>2, <1>3

LEMMA EmptyStack ==
  /\ \A S : <<>> \in Seq(S)
  /\ Len(<<>>) = 0 /\ DOMAIN <<>> = {} /\ ToSet(<<>>) = {} /\ IsInjective(<<>>)
BY DEF ToSet, IsInjective

(***************************************************************************)
(* The inductive invariant.                                                *)
(***************************************************************************)
InCode(m, n) == m \in Methods /\ n \in 1 .. Len(Code[m])

\* What an interpreter has at each place.  A frame of its call stack says where
\* its method goes on; only the first frame is one native code calls from.
Sound(i) ==
  /\ at[i] \in {"off", "new", "leave"} => call_stack[i] = <<>>
  /\ at[i] \in {"new", "run", "jit", "dll"} => InCode(instrs[i], ip[i])
  /\ at[i] \in {"run", "dll"} => frame[i] \in Frames /\ method[frame[i]] = instrs[i]
  /\ at[i] = "dll" => Instr(i).op = "DLL_FUNC_CALL"
  /\ at[i] \in {"jit", "native"} => call_stack[i] # <<>> /\ frame[i] = Last(call_stack[i])
  /\ \A k \in DOMAIN call_stack[i] : InCode(method[call_stack[i][k]], saved_ip[call_stack[i][k]])
  /\ \A k \in DOMAIN Held(i) : jit_called[Held(i)[k]] => k = 1

Interpreting == \A i \in Interps : Sound(i)

\* An interpreter or native activation is once on one C stack.
StacksApart ==
  \A t, u \in Threads : \A m \in DOMAIN c_stack[t], n \in DOMAIN c_stack[u] :
    c_stack[t][m] = c_stack[u][n] => t = u /\ m = n

\* What is on a C stack: it begins with an interpreter; the top one executes,
\* each other waits for the one above it.
Waiting ==
  \A t \in Threads : \A n \in DOMAIN c_stack[t] :
    /\ n = 1 => c_stack[t][n] \in Interps
    /\ c_stack[t][n] \in Interps =>
         /\ c_stack[t][n] \in pda_monitors
         /\ at[c_stack[t][n]] \in
              IF n = Len(c_stack[t]) THEN {"new", "run", "jit", "return", "leave"}
              ELSE IF c_stack[t][n + 1] \in Natives THEN {"native"} ELSE {"dll"}
    /\ c_stack[t][n] \in Natives =>
         /\ InCode(native[c_stack[t][n]].method, native[c_stack[t][n]].ip)
         /\ n < Len(c_stack[t]) =>
              c_stack[t][n + 1] \in Interps /\ NativeInstr(c_stack[t][n]).op = "MTHD_CALL"

\* A frame that malloc has not given, or that was freed, is given zeroed.
FreeZero == \A f \in free_frames : stored[f] = {}

(***************************************************************************)
(* Frames: what an interpreter gets comes out of the cache, what it drops   *)
(* goes back.                                                              *)
(***************************************************************************)
LEMMA HeldType ==
  ASSUME TypeOK, Interpreting, NEW i \in Interps
  PROVE  /\ Held(i) \in Seq(Frames) /\ call_stack[i] \in Seq(Frames)
         /\ at[i] \notin {"run", "dll"} => Held(i) = call_stack[i]
<1>1. call_stack[i] \in Seq(Frames) /\ at[i] \in Places
  BY DEF TypeOK
<1>2. CASE at[i] \in {"run", "dll"}
  <2>1. frame[i] \in Frames
    BY <1>2 DEF Interpreting, Sound
  <2> QED
    BY <1>1, <1>2, <2>1, Pushed DEF Held
<1>3. CASE at[i] \notin {"run", "dll"}
  BY <1>1, <1>3, EmptyStack DEF Held, Interpreting, Sound, Places
<1> QED
  BY <1>1, <1>2, <1>3

\* The cache, filled.
LEMMA FilledFrames ==
  ASSUME TypeOK, FramesConserved, NEW s \in Filled
  PROVE  /\ s \in Seq(Frames) /\ s # <<>> /\ IsInjective(s)
         /\ ToSet(cached_frames) \subseteq ToSet(s)
         /\ ToSet(s) \subseteq ToSet(cached_frames) \cup free_frames
<1>1. CASE cached_frames # <<>>
  BY <1>1 DEF Filled, TypeOK, FramesConserved
<1>2. CASE cached_frames = <<>>
  <2> DEFINE new == {q \in [1 .. MORE -> free_frames] : IsInjective(q)}
  <2>1. new # {} /\ s = CHOOSE q \in new : TRUE
    BY <1>2 DEF Filled
  <2>2. s \in new
    BY <2>1
  <2>3. MORE \in Nat \ {0} /\ free_frames \subseteq Frames
    BY SizeAssumption DEF TypeOK
  <2>4. s \in [1 .. MORE -> Frames] /\ \A k \in 1 .. MORE : s[k] \in free_frames
    BY <2>2, <2>3
  <2>5. s \in Seq(Frames) /\ Len(s) = MORE /\ DOMAIN s = 1 .. MORE
    BY <2>3, <2>4
  <2>6. s # <<>>
    BY <2>3, <2>5, EmptyStack
  <2>7. ToSet(s) \subseteq free_frames
    BY <2>4, <2>5 DEF ToSet
  <2> QED
    BY <1>2, <2>2, <2>5, <2>6, <2>7, EmptyStack
<1> QED
  BY <1>1, <1>2

\* GetStackFrame's own part.
LEMMA GotFrame ==
  ASSUME TypeOK, FramesConserved, NEW f, NEW m, NEW jit, GetStackFrame(f, m, jit)
  PROVE  /\ f \in Frames /\ f \in ToSet(cached_frames) \cup free_frames
         /\ cached_frames' \in Seq(Frames) /\ IsInjective(cached_frames')
         /\ free_frames' \subseteq free_frames /\ stored' = stored
         /\ f \notin ToSet(cached_frames') \cup free_frames'
         /\ ToSet(cached_frames') \cap free_frames' = {}
         /\ ToSet(cached_frames') \cup free_frames' \cup {f} = ToSet(cached_frames) \cup free_frames
         /\ \A i \in Interps : f \notin ToSet(Held(i))
<1>1. PICK s \in Filled : f = Last(s) /\ cached_frames' = Front(s) /\ free_frames' = free_frames \ ToSet(s)
  BY DEF GetStackFrame
<1>2. stored' = stored
  BY DEF GetStackFrame
<1>3. /\ s \in Seq(Frames) /\ s # <<>> /\ IsInjective(s)
      /\ ToSet(cached_frames) \subseteq ToSet(s)
      /\ ToSet(s) \subseteq ToSet(cached_frames) \cup free_frames
  BY FilledFrames
<1>4. Front(s) \in Seq(Frames) /\ f \in Frames /\ s = Append(Front(s), f)
  BY <1>1, <1>3, Popped
<1>5. ToSet(s) = ToSet(cached_frames') \cup {f} /\ IsInjective(cached_frames') /\ f \notin ToSet(cached_frames')
  <2> DEFINE q == Front(s)
  <2>1. q \in Seq(Frames) /\ f \in Frames
    BY <1>4
  <2>2. /\ ToSet(Append(q, f)) = ToSet(q) \cup {f}
        /\ IsInjective(Append(q, f)) <=> (IsInjective(q) /\ f \notin ToSet(q))
    <3> HIDE DEF q
    <3> QED
      BY ONLY <2>1, Pushed
  <2>3. Append(q, f) = s /\ q = cached_frames' /\ IsInjective(s)
    BY <1>1, <1>3, <1>4
  <2> HIDE DEF q
  <2> QED
    BY ONLY <2>2, <2>3
<1>6. \A i \in Interps : ToSet(Held(i)) \cap (ToSet(cached_frames) \cup free_frames) = {}
  BY DEF FramesConserved
<1> HIDE DEF FramesConserved
<1> QED
  BY <1>1, <1>2, <1>3, <1>4, <1>5, <1>6

LEMMA GotConserves ==
  ASSUME TypeOK, FramesConserved, FreeZero, Interpreting, NEW i \in Interps,
         NEW f, NEW m, NEW jit, GetStackFrame(f, m, jit),
         Held(i)' = Append(Held(i), f), \A j \in Interps \ {i} : Held(j)' = Held(j)
  PROVE  FramesConserved' /\ FreeZero'
<1>1. /\ f \in Frames /\ f \in ToSet(cached_frames) \cup free_frames
      /\ IsInjective(cached_frames')
      /\ free_frames' \subseteq free_frames /\ stored' = stored
      /\ f \notin ToSet(cached_frames') \cup free_frames'
      /\ ToSet(cached_frames') \cap free_frames' = {}
      /\ ToSet(cached_frames') \cup free_frames' \cup {f} = ToSet(cached_frames) \cup free_frames
      /\ \A j \in Interps : f \notin ToSet(Held(j))
  BY GotFrame
<1>2. Held(i) \in Seq(Frames)
  BY HeldType
<1>3. /\ \A j \in Interps : IsInjective(Held(j))
      /\ \A j, k \in Interps : j # k => ToSet(Held(j)) \cap ToSet(Held(k)) = {}
      /\ \A j \in Interps : ToSet(Held(j)) \cap (ToSet(cached_frames) \cup free_frames) = {}
      /\ \A e \in Frames : e \in ToSet(cached_frames) \cup free_frames \/ \E j \in Interps : e \in ToSet(Held(j))
  BY DEF FramesConserved
<1>4. ToSet(Held(i)') = ToSet(Held(i)) \cup {f} /\ IsInjective(Held(i)')
  BY <1>1, <1>2, <1>3, Pushed
<1>5. \A e \in ToSet(cached_frames') \cup free_frames' : "low" \notin stored[e]
  BY <1>1 DEF FramesConserved, FreeZero
<1>6. \A j \in Interps \ {i} : ToSet(Held(j)') = ToSet(Held(j)) /\ IsInjective(Held(j)')
  BY <1>3
<1>8. FreeZero'
  BY <1>1 DEF FreeZero
<1> DEFINE H == [j \in Interps |-> ToSet(Held(j))]
           G == [j \in Interps |-> ToSet(Held(j)')]
           C == ToSet(cached_frames)
           D == ToSet(cached_frames')
<1>7. /\ \A j \in Interps \ {i} : G[j] = H[j]
      /\ G[i] = H[i] \cup {f}
      /\ \A j, k \in Interps : j # k => H[j] \cap H[k] = {}
      /\ \A j \in Interps : f \notin H[j] /\ H[j] \cap (C \cup free_frames) = {}
      /\ f \notin D \cup free_frames' /\ D \cup free_frames' \cup {f} = C \cup free_frames
      /\ i \in Interps
      /\ \A e \in Frames : e \in C \cup free_frames \/ \E j \in Interps : e \in H[j]
  BY <1>1, <1>3, <1>4, <1>6
<1>9. /\ \A j, k \in Interps : j # k => G[j] \cap G[k] = {}
      /\ \A j \in Interps : G[j] \cap (D \cup free_frames') = {}
      /\ \A e \in Frames : e \in D \cup free_frames' \/ \E j \in Interps : e \in G[j]
  <2> HIDE DEF H, G, C, D
  <2>1. \A j, k \in Interps : j # k => G[j] \cap G[k] = {}
    BY ONLY <1>7
  <2>2. \A j \in Interps : G[j] \cap (D \cup free_frames') = {}
    BY ONLY <1>7
  <2>3. \A e \in Frames : e \in D \cup free_frames' \/ \E j \in Interps : e \in G[j]
    BY ONLY <1>7
  <2> QED
    BY <2>1, <2>2, <2>3
<1>10. /\ \A j, k \in Interps : j # k => ToSet(Held(j)') \cap ToSet(Held(k)') = {}
       /\ \A j \in Interps : ToSet(Held(j)') \cap (ToSet(cached_frames') \cup free_frames') = {}
       /\ \A e \in Frames : \/ e \in ToSet(cached_frames') \cup free_frames'
                           \/ \E j \in Interps : e \in ToSet(Held(j)')
  BY <1>9
<1>12. \A j \in Interps : IsInjective(Held(j)')
  BY <1>4, <1>6
<1> QED
  BY <1>1, <1>5, <1>8, <1>10, <1>12 DEF FramesConserved

LEMMA DroppedConserves ==
  ASSUME TypeOK, FramesConserved, FreeZero, NEW i \in Interps,
         NEW f \in Frames, ReleaseStackFrame(f), Held(i)' \in Seq(Frames),
         Held(i) = Append(Held(i)', f), \A j \in Interps \ {i} : Held(j)' = Held(j)
  PROVE  FramesConserved' /\ FreeZero'
<1>1. /\ \A j \in Interps : IsInjective(Held(j))
      /\ \A j, k \in Interps : j # k => ToSet(Held(j)) \cap ToSet(Held(k)) = {}
      /\ \A j \in Interps : ToSet(Held(j)) \cap (ToSet(cached_frames) \cup free_frames) = {}
      /\ \A e \in Frames : e \in ToSet(cached_frames) \cup free_frames \/ \E j \in Interps : e \in ToSet(Held(j))
      /\ IsInjective(cached_frames) /\ ToSet(cached_frames) \cap free_frames = {}
      /\ \A e \in ToSet(cached_frames) : "low" \notin stored[e]
  BY DEF FramesConserved
<1>2. ToSet(Held(i)) = ToSet(Held(i)') \cup {f} /\ IsInjective(Held(i)') /\ f \notin ToSet(Held(i)')
  <2> DEFINE q == Held(i)'
  <2>1. q \in Seq(Frames) /\ f \in Frames
    OBVIOUS
  <2>2. /\ ToSet(Append(q, f)) = ToSet(q) \cup {f}
        /\ IsInjective(Append(q, f)) <=> (IsInjective(q) /\ f \notin ToSet(q))
    <3> HIDE DEF q
    <3> QED
      BY ONLY <2>1, Pushed
  <2>3. Append(q, f) = Held(i) /\ q = Held(i)' /\ IsInjective(Held(i))
    BY <1>1
  <2> HIDE DEF q
  <2> QED
    BY ONLY <2>2, <2>3
<1>3. f \notin ToSet(cached_frames) \cup free_frames
  BY <1>1, <1>2
<1>4. /\ IsInjective(cached_frames')
      /\ ToSet(cached_frames') \cup free_frames' = ToSet(cached_frames) \cup free_frames \cup {f}
      /\ ToSet(cached_frames') \cap free_frames' = {}
      /\ \A e \in ToSet(cached_frames') : "low" \notin stored'[e]
      /\ \A e \in free_frames' : stored'[e] = {}
  <2>0. free_frames \subseteq Frames /\ stored \in [Frames -> SUBSET {"low", "high"}]
        /\ cached_frames \in Seq(Frames) /\ ToSet(cached_frames) \subseteq Frames
    BY DEF TypeOK, ToSet
  <2>1. CASE Len(cached_frames) > CACHE_MAX
    <3>1. free_frames' = free_frames \cup {f} /\ stored' = [stored EXCEPT ![f] = {}] /\ cached_frames' = cached_frames
      BY <2>1 DEF ReleaseStackFrame
    <3> QED
      BY <1>1, <1>3, <2>0, <3>1 DEF FreeZero
  <2>2. CASE ~ (Len(cached_frames) > CACHE_MAX)
    <3>1. free_frames' = free_frames /\ stored' = [stored EXCEPT ![f] = @ \ {"low"}]
          /\ cached_frames' = Append(cached_frames, f)
      BY <2>2 DEF ReleaseStackFrame
    <3>2. ToSet(cached_frames') = ToSet(cached_frames) \cup {f} /\ IsInjective(cached_frames')
      BY <1>1, <1>3, <2>0, <3>1, Pushed
    <3>3. \A e \in Frames : stored'[e] = IF e = f THEN stored[f] \ {"low"} ELSE stored[e]
      BY <2>0, <3>1
    <3> QED
      BY <1>1, <1>3, <2>0, <3>1, <3>2, <3>3 DEF FreeZero
  <2> QED
    BY <2>1, <2>2
<1> DEFINE H == [j \in Interps |-> ToSet(Held(j))]
           G == [j \in Interps |-> ToSet(Held(j)')]
           C == ToSet(cached_frames)
           D == ToSet(cached_frames')
<1>7. /\ \A j \in Interps \ {i} : G[j] = H[j]
      /\ H[i] = G[i] \cup {f} /\ f \notin G[i]
      /\ \A j, k \in Interps : j # k => H[j] \cap H[k] = {}
      /\ \A j \in Interps : H[j] \cap (C \cup free_frames) = {}
      /\ D \cup free_frames' = C \cup free_frames \cup {f}
      /\ i \in Interps
      /\ \A e \in Frames : e \in C \cup free_frames \/ \E j \in Interps : e \in H[j]
  BY <1>1, <1>2, <1>4
<1>9. /\ \A j, k \in Interps : j # k => G[j] \cap G[k] = {}
      /\ \A j \in Interps : G[j] \cap (D \cup free_frames') = {}
      /\ \A e \in Frames : e \in D \cup free_frames' \/ \E j \in Interps : e \in G[j]
  <2> HIDE DEF H, G, C, D
  <2>1. \A j, k \in Interps : j # k => G[j] \cap G[k] = {}
    BY ONLY <1>7
  <2>2. \A j \in Interps : G[j] \cap (D \cup free_frames') = {}
    BY ONLY <1>7
  <2>3. \A e \in Frames : e \in D \cup free_frames' \/ \E j \in Interps : e \in G[j]
    BY ONLY <1>7
  <2> QED
    BY <2>1, <2>2, <2>3
<1>10. /\ \A j, k \in Interps : j # k => ToSet(Held(j)') \cap ToSet(Held(k)') = {}
       /\ \A j \in Interps : ToSet(Held(j)') \cap (ToSet(cached_frames') \cup free_frames') = {}
       /\ \A e \in Frames : \/ e \in ToSet(cached_frames') \cup free_frames'
                           \/ \E j \in Interps : e \in ToSet(Held(j)')
  BY <1>9
<1>11. \A j \in Interps : IsInjective(Held(j)')
  BY <1>1, <1>2
<1> QED
  BY <1>4, <1>10, <1>11 DEF FramesConserved, FreeZero

LEMMA KeptConserves ==
  ASSUME FramesConserved, FreeZero, UNCHANGED <<cached_frames, free_frames>>,
         \A f \in ToSet(cached_frames) \cup free_frames : stored'[f] = stored[f],
         \A j \in Interps : Held(j)' = Held(j)
  PROVE  FramesConserved' /\ FreeZero'
<1>1. FreeZero'
  BY DEF FreeZero
<1>2. FramesConserved'
  BY DEF FramesConserved
<1> QED
  BY <1>1, <1>2

(***************************************************************************)
(* C stacks.                                                               *)
(***************************************************************************)
Executes == {"new", "run", "jit", "return", "leave"}

\* Nothing is pushed or popped: only the top e of one stack may change.
Stays(t, e) ==
  /\ c_stack[t] # <<>> /\ e = Last(c_stack[t]) /\ c_stack' = c_stack /\ pda_monitors' = pda_monitors
  /\ \A i \in Interps \ {e} : at'[i] = at[i]
  /\ e \in Interps => at'[e] \in Executes
  /\ \A a \in Natives \ {e} : native'[a] = native[a]
  /\ e \in Natives => InCode(native'[e].method, native'[e].ip)

LEMMA StackStays ==
  ASSUME TypeOK, StacksApart, Waiting, NEW t \in Threads, NEW e, Stays(t, e)
  PROVE  Waiting' /\ StacksApart'
<1> USE DEF Stays
<1>1. StacksApart'
  BY DEF StacksApart
<1>2. /\ Len(c_stack[t]) \in DOMAIN c_stack[t] /\ e = c_stack[t][Len(c_stack[t])]
      /\ \A u \in Threads : DOMAIN c_stack[u] = 1 .. Len(c_stack[u]) /\ Len(c_stack[u]) \in Nat
  <2>1. \A u \in Threads : c_stack[u] \in Seq(Interps \cup Natives)
    BY DEF TypeOK
  <2>2. \A u \in Threads : DOMAIN c_stack[u] = 1 .. Len(c_stack[u]) /\ Len(c_stack[u]) \in Nat
    BY <2>1
  <2>3. Len(c_stack[t]) \in Nat \ {0} /\ Last(c_stack[t]) = c_stack[t][Len(c_stack[t])]
    BY <2>1, Popped
  <2> QED
    BY <2>2, <2>3
<1>3. ASSUME NEW u \in Threads, NEW n \in DOMAIN c_stack[u]
      PROVE  /\ n = 1 => c_stack[u][n] \in Interps
             /\ c_stack[u][n] \in Interps =>
                  /\ c_stack[u][n] \in pda_monitors'
                  /\ at'[c_stack[u][n]] \in
                       IF n = Len(c_stack[u]) THEN {"new", "run", "jit", "return", "leave"}
                       ELSE IF c_stack[u][n + 1] \in Natives THEN {"native"} ELSE {"dll"}
             /\ c_stack[u][n] \in Natives =>
                  /\ InCode(native'[c_stack[u][n]].method, native'[c_stack[u][n]].ip)
                  /\ n < Len(c_stack[u]) =>
                       c_stack[u][n + 1] \in Interps /\ NativeInstr(c_stack[u][n])'.op = "MTHD_CALL"
  <2>1. CASE c_stack[u][n] = e
    <3>1. u = t /\ n = Len(c_stack[t])
      BY <1>2, <2>1 DEF StacksApart
    <3> QED
      BY <1>2, <2>1, <3>1 DEF Waiting, Executes
  <2>2. CASE c_stack[u][n] # e
    <3>1. c_stack[u][n] \in Natives => native'[c_stack[u][n]] = native[c_stack[u][n]]
      BY <2>2
    <3>2. c_stack[u][n] \in Interps => at'[c_stack[u][n]] = at[c_stack[u][n]]
      BY <2>2
    <3>3. c_stack[u][n] \in Natives => NativeInstr(c_stack[u][n])' = NativeInstr(c_stack[u][n])
      BY <3>1 DEF NativeInstr
    <3> QED
      BY <3>1, <3>2, <3>3 DEF Waiting
  <2> QED
    BY <2>1, <2>2
<1>4. Waiting'
  BY <1>3 DEF Waiting
<1> QED
  BY <1>1, <1>4

\* Thread t calls: e comes on top of its stack, where d was.
Grows(t, e, d) ==
  /\ c_stack' = [c_stack EXCEPT ![t] = Append(@, e)]
  /\ \A u \in Threads : \A n \in DOMAIN c_stack[u] : c_stack[u][n] # e
  /\ pda_monitors \subseteq pda_monitors'
  /\ e \in Interps => e \in pda_monitors' /\ at'[e] \in Executes
  /\ e \in Natives => InCode(native'[e].method, native'[e].ip) /\ c_stack[t] # <<>>
  /\ c_stack[t] # <<>> =>
       /\ d = Last(c_stack[t])
       /\ d \in Interps => at'[d] = IF e \in Natives THEN "native" ELSE "dll"
       /\ d \in Natives => e \in Interps /\ NativeInstr(d).op = "MTHD_CALL"
  /\ \A i \in Interps : i # e /\ (c_stack[t] # <<>> => i # d) => at'[i] = at[i]
  /\ \A a \in Natives \ {e} : native'[a] = native[a]

LEMMA StackGrows ==
  ASSUME TypeOK, StacksApart, Waiting, NEW t \in Threads, NEW e \in Interps \cup Natives, NEW d,
         Grows(t, e, d)
  PROVE  Waiting' /\ StacksApart'
<1>0. Interps \cap Natives = {}
  BY NameAssumption
<1> USE <1>0 DEF Grows
<1> DEFINE L(u) == Len(c_stack[u])
<1>1. \A u \in Threads : /\ DOMAIN c_stack[u] = 1 .. L(u) /\ L(u) \in Nat
                         /\ c_stack[u] \in Seq(Interps \cup Natives)
                         /\ \A n \in 1 .. L(u) : c_stack[u][n] \in Interps \cup Natives
  <2>1. \A u \in Threads : c_stack[u] \in Seq(Interps \cup Natives)
    BY DEF TypeOK
  <2> QED
    BY <2>1
<1>2. /\ \A u \in Threads \ {t} : c_stack'[u] = c_stack[u]
      /\ c_stack'[t] = Append(c_stack[t], e)
  BY DEF TypeOK
<1>3. /\ Len(c_stack'[t]) = L(t) + 1 /\ DOMAIN c_stack'[t] = 1 .. L(t) + 1 /\ c_stack'[t][L(t) + 1] = e
      /\ \A n \in 1 .. L(t) : c_stack'[t][n] = c_stack[t][n]
  <2>1. c_stack[t] \in Seq(Interps \cup Natives)
    BY <1>1
  <2> QED
    BY <1>1, <1>2, <2>1, Pushed
<1>4. c_stack[t] # <<>> <=> L(t) # 0
  BY <1>1, EmptyStack
<1>5. c_stack[t] # <<>> => d = c_stack[t][L(t)]
  BY DEF Last
<1> HIDE DEF L
\* Where an entry of the new stacks was.
<1>6. ASSUME NEW u \in Threads, NEW n \in DOMAIN c_stack'[u]
      PROVE  \/ u = t /\ n = L(t) + 1 /\ c_stack'[u][n] = e
             \/ n \in DOMAIN c_stack[u] /\ c_stack'[u][n] = c_stack[u][n] /\ c_stack[u][n] # e
  <2>1. CASE u = t
    BY <1>1, <1>3, <2>1
  <2>2. CASE u # t
    BY <1>2, <2>2
  <2> QED
    BY <2>1, <2>2
<1>7. StacksApart'
  <2> SUFFICES ASSUME NEW u \in Threads, NEW v \in Threads,
                      NEW m \in DOMAIN c_stack'[u], NEW n \in DOMAIN c_stack'[v],
                      c_stack'[u][m] = c_stack'[v][n]
               PROVE  u = v /\ m = n
    BY DEF StacksApart
  <2> QED
    BY <1>6 DEF StacksApart
<1>8. ASSUME NEW u \in Threads, NEW n \in DOMAIN c_stack'[u], NEW x, x = c_stack'[u][n]
      PROVE  /\ n = 1 => x \in Interps
             /\ x \in Interps =>
                  /\ x \in pda_monitors'
                  /\ at'[x] \in
                       IF n = Len(c_stack'[u]) THEN {"new", "run", "jit", "return", "leave"}
                       ELSE IF c_stack'[u][n + 1] \in Natives THEN {"native"} ELSE {"dll"}
             /\ x \in Natives =>
                  /\ InCode(native'[x].method, native'[x].ip)
                  /\ n < Len(c_stack'[u]) =>
                       c_stack'[u][n + 1] \in Interps /\ NativeInstr(x)'.op = "MTHD_CALL"
  <2>1. CASE u = t /\ n = L(t) + 1 /\ x = e
    <3>1. n = 1 => e \in Interps
      BY <1>1, <1>4, <2>1
    <3> QED
      BY <1>3, <2>1, <3>1 DEF Executes
  <2>2. CASE n \in DOMAIN c_stack[u] /\ x = c_stack[u][n] /\ x # e
    <3>0. /\ x \in Natives => native'[x] = native[x] /\ NativeInstr(x)' = NativeInstr(x)
          /\ n = 1 => x \in Interps
          /\ x \in Natives => InCode(native[x].method, native[x].ip)
          /\ x \in Interps => x \in pda_monitors
      <4>1. x \in Natives => native'[x] = native[x]
        BY <2>2
      <4>2. x \in Natives => NativeInstr(x)' = NativeInstr(x)
        BY <4>1 DEF NativeInstr
      <4>3. /\ n = 1 => x \in Interps
            /\ x \in Natives => InCode(native[x].method, native[x].ip)
            /\ x \in Interps => x \in pda_monitors
        BY <2>2 DEF Waiting
      <4> QED
        BY <4>1, <4>2, <4>3
    <3>1. CASE u = t /\ n = L(t)
      <4>1. x = d /\ c_stack[t] # <<>> /\ Len(c_stack'[u]) = n + 1 /\ c_stack'[u][n + 1] = e /\ n \in Nat
        BY <1>1, <1>3, <1>4, <1>5, <2>2, <3>1
      <4>2. x \in Interps => at'[x] = IF e \in Natives THEN "native" ELSE "dll"
        BY <4>1
      <4>3. x \in Natives => e \in Interps /\ NativeInstr(x).op = "MTHD_CALL"
        BY <4>1
      <4> QED
        BY <3>0, <4>1, <4>2, <4>3
    <3>2. CASE ~ (u = t /\ n = L(t))
      <4>1. c_stack[t] # <<>> => x # d
        BY <1>1, <1>4, <1>5, <2>2, <3>2 DEF StacksApart
      <4>2. x \in Interps => at'[x] = at[x]
        BY <2>2, <4>1
      <4>3. /\ n = Len(c_stack'[u]) <=> n = Len(c_stack[u])
            /\ n < Len(c_stack'[u]) <=> n < Len(c_stack[u])
            /\ n < Len(c_stack[u]) => c_stack'[u][n + 1] = c_stack[u][n + 1]
            /\ n <= Len(c_stack[u]) /\ n \in Nat /\ Len(c_stack[u]) \in Nat
        BY <1>1, <1>2, <1>3, <2>2, <3>2 DEF L
      <4>4. /\ x \in Interps => at[x] \in
                       IF n = Len(c_stack[u]) THEN {"new", "run", "jit", "return", "leave"}
                       ELSE IF c_stack[u][n + 1] \in Natives THEN {"native"} ELSE {"dll"}
            /\ x \in Natives /\ n < Len(c_stack[u]) =>
                       c_stack[u][n + 1] \in Interps /\ NativeInstr(x).op = "MTHD_CALL"
        BY <2>2 DEF Waiting
      <4>5. x \in Interps => at'[x] \in
                       IF n = Len(c_stack'[u]) THEN {"new", "run", "jit", "return", "leave"}
                       ELSE IF c_stack'[u][n + 1] \in Natives THEN {"native"} ELSE {"dll"}
        BY <4>2, <4>3, <4>4
      <4> QED
        BY <3>0, <4>3, <4>4, <4>5
    <3> QED
      BY <3>1, <3>2
  <2> QED
    BY <1>6, <1>8, <2>1, <2>2
<1>9. Waiting'
  BY <1>8, ZenonT(40) DEF Waiting
<1> QED
  BY <1>7, <1>9

\* The top entry e of thread t returns to d below it.
Shrinks(t, e, d) ==
  /\ c_stack[t] # <<>> /\ e = Last(c_stack[t])
  /\ c_stack' = [c_stack EXCEPT ![t] = Front(@)]
  /\ pda_monitors \ {e} \subseteq pda_monitors'
  /\ Front(c_stack[t]) # <<>> =>
       /\ d = Last(Front(c_stack[t]))
       /\ d \in Interps => at'[d] \in Executes
       /\ d \in Natives => InCode(native'[d].method, native'[d].ip)
  /\ \A i \in Interps \ {e} : (Front(c_stack[t]) # <<>> => i # d) => at'[i] = at[i]
  /\ \A a \in Natives \ {e} : (Front(c_stack[t]) # <<>> => a # d) => native'[a] = native[a]

LEMMA StackShrinks ==
  ASSUME TypeOK, StacksApart, Waiting, NEW t \in Threads, NEW e, NEW d, Shrinks(t, e, d)
  PROVE  Waiting' /\ StacksApart'
<1> USE DEF Shrinks
<1> DEFINE L(u) == Len(c_stack[u])
<1>1. \A u \in Threads : /\ DOMAIN c_stack[u] = 1 .. L(u) /\ L(u) \in Nat
                         /\ c_stack[u] \in Seq(Interps \cup Natives)
  <2>1. \A u \in Threads : c_stack[u] \in Seq(Interps \cup Natives)
    BY DEF TypeOK
  <2> QED
    BY <2>1
<1>2. /\ \A u \in Threads \ {t} : c_stack'[u] = c_stack[u]
      /\ c_stack'[t] = Front(c_stack[t])
  BY DEF TypeOK
<1>3. /\ L(t) \in Nat \ {0} /\ e = c_stack[t][L(t)]
      /\ Len(c_stack'[t]) = L(t) - 1 /\ DOMAIN c_stack'[t] = 1 .. L(t) - 1
      /\ \A n \in 1 .. L(t) - 1 : c_stack'[t][n] = c_stack[t][n]
      /\ Front(c_stack[t]) \in Seq(Interps \cup Natives)
  <2>1. c_stack[t] \in Seq(Interps \cup Natives)
    BY <1>1
  <2> QED
    BY <1>2, <2>1, Popped
<1>4. /\ Front(c_stack[t]) # <<>> <=> L(t) # 1
      /\ Front(c_stack[t]) # <<>> => d = c_stack[t][L(t) - 1]
  <2>1. Front(c_stack[t]) # <<>> => L(t) - 1 # 0 /\ d = Front(c_stack[t])[L(t) - 1]
    <3> DEFINE q == Front(c_stack[t])
    <3>1. q \in Seq(Interps \cup Natives) /\ Len(q) = L(t) - 1
      BY <1>2, <1>3
    <3> HIDE DEF q
    <3>2. q # <<>> => Len(q) \in Nat \ {0} /\ Last(q) = q[Len(q)]
      BY <3>1, Popped
    <3> QED
      BY <3>1, <3>2 DEF q
  <2>2. Front(c_stack[t]) = <<>> => L(t) - 1 = 0
    BY <1>2, <1>3, EmptyStack
  <2> QED
    BY <1>2, <1>3, <2>1, <2>2
<1> HIDE DEF L
<1>5. ASSUME NEW u \in Threads, NEW n \in DOMAIN c_stack'[u]
      PROVE  /\ n \in DOMAIN c_stack[u] /\ c_stack'[u][n] = c_stack[u][n] /\ c_stack[u][n] # e
             /\ u = t => n < L(t)
  <2>1. L(t) \in DOMAIN c_stack[t]
    BY <1>1, <1>3
  <2>2. CASE u = t
    <3>1. n \in 1 .. L(t) - 1 /\ n \in DOMAIN c_stack[t] /\ n # L(t) /\ n < L(t)
      BY <1>1, <1>3, <2>2
    <3>2. c_stack'[u][n] = c_stack[u][n]
      BY <1>3, <2>2, <3>1
    <3>3. c_stack[u][n] # e
      BY <1>3, <2>1, <2>2, <3>1 DEF StacksApart
    <3> QED
      BY <2>2, <3>1, <3>2, <3>3
  <2>3. CASE u # t
    <3>1. c_stack'[u] = c_stack[u]
      BY <1>2, <2>3
    <3>2. c_stack[u][n] # e
      BY <1>3, <2>1, <2>3, <3>1 DEF StacksApart
    <3> QED
      BY <2>3, <3>1, <3>2
  <2> QED
    BY <2>2, <2>3
<1>6. StacksApart'
  BY <1>5 DEF StacksApart
<1>7. ASSUME NEW u \in Threads, NEW n \in DOMAIN c_stack'[u], NEW x, x = c_stack'[u][n]
      PROVE  /\ n = 1 => x \in Interps
             /\ x \in Interps =>
                  /\ x \in pda_monitors'
                  /\ at'[x] \in
                       IF n = Len(c_stack'[u]) THEN {"new", "run", "jit", "return", "leave"}
                       ELSE IF c_stack'[u][n + 1] \in Natives THEN {"native"} ELSE {"dll"}
             /\ x \in Natives =>
                  /\ InCode(native'[x].method, native'[x].ip)
                  /\ n < Len(c_stack'[u]) =>
                       c_stack'[u][n + 1] \in Interps /\ NativeInstr(x)'.op = "MTHD_CALL"
  <2>1. n \in DOMAIN c_stack[u] /\ x = c_stack[u][n] /\ x # e /\ (u = t => n < L(t))
    BY <1>5, <1>7
  <2>2. /\ n = 1 => x \in Interps
        /\ x \in Natives => InCode(native[x].method, native[x].ip)
        /\ x \in Interps => x \in pda_monitors'
    BY <2>1 DEF Waiting
  <2>3. CASE u = t /\ n = L(t) - 1
    <3>1. x = d /\ Front(c_stack[t]) # <<>> /\ n = Len(c_stack'[u]) /\ ~ (n < Len(c_stack'[u]))
      BY <1>1, <1>3, <1>4, <2>1, <2>3
    <3> QED
      BY <2>2, <3>1 DEF Executes
  <2>4. CASE ~ (u = t /\ n = L(t) - 1)
    <3>1. Front(c_stack[t]) # <<>> => x # d
      BY <1>1, <1>3, <1>4, <2>1, <2>4 DEF StacksApart
    <3>2. x \in Interps => at'[x] = at[x]
      BY <2>1, <3>1
    <3>3. x \in Natives => native'[x] = native[x]
      BY <2>1, <3>1
    <3>4. x \in Natives => NativeInstr(x)' = NativeInstr(x)
      BY <3>3 DEF NativeInstr
    <3>5. /\ n = Len(c_stack'[u]) <=> n = Len(c_stack[u])
          /\ n < Len(c_stack'[u]) <=> n < Len(c_stack[u])
          /\ n < Len(c_stack[u]) => c_stack'[u][n + 1] = c_stack[u][n + 1]
          /\ n <= Len(c_stack[u]) /\ n \in Nat /\ Len(c_stack[u]) \in Nat
      BY <1>1, <1>2, <1>3, <2>1, <2>4 DEF L
    <3>6. /\ x \in Interps => at[x] \in
                     IF n = Len(c_stack[u]) THEN {"new", "run", "jit", "return", "leave"}
                     ELSE IF c_stack[u][n + 1] \in Natives THEN {"native"} ELSE {"dll"}
          /\ x \in Natives /\ n < Len(c_stack[u]) =>
                     c_stack[u][n + 1] \in Interps /\ NativeInstr(x).op = "MTHD_CALL"
      BY <2>1 DEF Waiting
    <3>7. x \in Interps => at'[x] \in
                     IF n = Len(c_stack'[u]) THEN {"new", "run", "jit", "return", "leave"}
                     ELSE IF c_stack'[u][n + 1] \in Natives THEN {"native"} ELSE {"dll"}
      BY <3>2, <3>5, <3>6
    <3> QED
      BY <2>2, <3>3, <3>4, <3>5, <3>6, <3>7
  <2> QED
    BY <2>3, <2>4
<1>8. Waiting'
  BY <1>7 DEF Waiting
<1> QED
  BY <1>6, <1>8

(***************************************************************************)
(* Instructions, and the parts of the types.                               *)
(***************************************************************************)
LEMMA Instructions ==
  ASSUME NEW m, NEW n, InCode(m, n)
  PROVE  /\ n \in Nat /\ m \in Methods /\ InCode(m, 1)
         /\ Code[m][n].op # "RTRN" => InCode(m, n + 1)
         /\ Code[m][n].op = "JMP" => InCode(m, Code[m][n].to)
         /\ Code[m][n].op \in {"MTHD_CALL", "DLL_FUNC_CALL"} => Code[m][n].callees \subseteq Methods
         /\ Code[m][n].op = "STOR" => Code[m][n].vars \subseteq {"low", "high"}
<1>1. /\ m \in Methods /\ n \in 1 .. Len(Code[m]) /\ Code[m] \in Seq(Instrs) /\ Code[m] # <<>>
      /\ Last(Code[m]).op = "RTRN"
  BY CodeAssumption DEF InCode
<1>2. Len(Code[m]) \in Nat \ {0} /\ Code[m][n] \in Instrs /\ Code[m][Len(Code[m])].op = "RTRN"
  BY <1>1 DEF Last
<1>3. Code[m][n].op = "JMP" => Code[m][n].to \in 1 .. Len(Code[m])
  BY <1>1, CodeAssumption
<1>4. /\ Code[m][n].op \in {"MTHD_CALL", "DLL_FUNC_CALL"} => Code[m][n].callees \subseteq Methods
      /\ Code[m][n].op = "STOR" => Code[m][n].vars \subseteq {"low", "high"}
  BY <1>2 DEF Instrs
<1> QED
  BY <1>1, <1>2, <1>3, <1>4 DEF InCode

LEMMA FirstInstruction ==
  ASSUME NEW m \in Methods
  PROVE  InCode(m, 1)
<1>1. Code[m] \in Seq(Instrs) /\ Code[m] # <<>>
  BY CodeAssumption
<1>2. Len(Code[m]) \in Nat \ {0}
  BY <1>1
<1> QED
  BY <1>2 DEF InCode

FrameTypes ==
  /\ method \in [Frames -> Methods \cup {None}] /\ saved_ip \in [Frames -> Nat]
  /\ jit_called \in [Frames -> BOOLEAN] /\ stored \in [Frames -> SUBSET {"low", "high"}]
  /\ cached_frames \in Seq(Frames) /\ free_frames \subseteq Frames

InterpTypes ==
  /\ at \in [Interps -> Places]
  /\ call_stack \in [Interps -> Seq(Frames)]
  /\ \A i \in Interps : Len(call_stack[i]) <= CALL_STACK_SIZE
  /\ frame \in [Interps -> Frames \cup {None}]
  /\ instrs \in [Interps -> Methods \cup {None}] /\ ip \in [Interps -> Nat]
  /\ jit_arg \in [Interps -> BOOLEAN]

OtherTypes ==
  /\ entry \in Entries
  /\ native \in [Natives -> [method : Methods \cup {None}, ip : Nat]]
  /\ c_stack \in [Threads -> Seq(Interps \cup Natives)]
  /\ pda_monitors \subseteq Interps /\ native_code \subseteq Compilable
  /\ exited \in BOOLEAN

LEMMA TypeParts == TypeOK <=> FrameTypes /\ InterpTypes /\ OtherTypes
BY DEF TypeOK, FrameTypes, InterpTypes, OtherTypes

Safe == /\ FrameTypes /\ InterpTypes /\ OtherTypes
        /\ FramesConserved /\ FreeZero /\ Interpreting /\ StacksApart /\ Waiting

LEMMA FrameTypesGot ==
  ASSUME Safe, NEW f, NEW m \in Methods, NEW jit \in BOOLEAN, GetStackFrame(f, m, jit),
         saved_ip' \in [Frames -> Nat]
  PROVE  FrameTypes'
<1>1. f \in Frames /\ cached_frames' \in Seq(Frames) /\ free_frames' \subseteq free_frames /\ stored' = stored
  BY GotFrame, TypeParts DEF Safe
<1>2. method' = [method EXCEPT ![f] = m] /\ jit_called' = [jit_called EXCEPT ![f] = jit]
  BY DEF GetStackFrame
<1> QED
  BY <1>1, <1>2 DEF Safe, FrameTypes

LEMMA FrameTypesReleased ==
  ASSUME Safe, NEW f \in Frames, ReleaseStackFrame(f), saved_ip' = saved_ip
  PROVE  FrameTypes'
<1>1. method' = [method EXCEPT ![f] = None] /\ jit_called' = [jit_called EXCEPT ![f] = FALSE]
  BY DEF ReleaseStackFrame
<1>2. cached_frames \in Seq(Frames)
  BY DEF Safe, FrameTypes
<1>3. Append(cached_frames, f) \in Seq(Frames)
  BY <1>2
<1>4. cached_frames' \in Seq(Frames) /\ free_frames' \subseteq Frames
  BY <1>2, <1>3 DEF ReleaseStackFrame, Safe, FrameTypes
<1>5. stored' \in [Frames -> SUBSET {"low", "high"}]
  BY DEF ReleaseStackFrame, Safe, FrameTypes
<1> QED
  BY <1>1, <1>4, <1>5 DEF Safe, FrameTypes

(***************************************************************************)
(* An interpreter that takes no part in a step.                            *)
(***************************************************************************)
LEMMA HeldFrames ==
  ASSUME Safe, NEW i \in Interps
  PROVE  /\ Held(i) \in Seq(Frames) /\ call_stack[i] \in Seq(Frames)
         /\ at[i] \notin {"run", "dll"} => Held(i) = call_stack[i]
         /\ at[i] \in {"run", "dll"} =>
              Held(i) = Append(call_stack[i], frame[i]) /\ frame[i] \in Frames /\ frame[i] \in ToSet(Held(i))
         /\ \A k \in DOMAIN call_stack[i] : call_stack[i][k] \in ToSet(Held(i))
         /\ IsInjective(Held(i)) /\ ToSet(Held(i)) \cap (ToSet(cached_frames) \cup free_frames) = {}
         /\ \A j \in Interps \ {i} : ToSet(Held(i)) \cap ToSet(Held(j)) = {}
<1>1. /\ Held(i) \in Seq(Frames) /\ call_stack[i] \in Seq(Frames)
      /\ at[i] \notin {"run", "dll"} => Held(i) = call_stack[i]
  BY HeldType, TypeParts DEF Safe
<1>2. \A k \in DOMAIN call_stack[i] : call_stack[i][k] \in ToSet(call_stack[i])
  BY DEF ToSet
<1>3. at[i] \in {"run", "dll"} => Held(i) = Append(call_stack[i], frame[i]) /\ frame[i] \in Frames
  BY DEF Held, Safe, Interpreting, Sound
<1>4. at[i] \in {"run", "dll"} => ToSet(Held(i)) = ToSet(call_stack[i]) \cup {frame[i]}
  <2> SUFFICES ASSUME at[i] \in {"run", "dll"}
               PROVE  ToSet(Held(i)) = ToSet(call_stack[i]) \cup {frame[i]}
    OBVIOUS
  <2> DEFINE s == call_stack[i]
             f == frame[i]
  <2>1. s \in Seq(Frames) /\ f \in Frames /\ Held(i) = Append(s, f)
    BY <1>1, <1>3
  <2> HIDE DEF s, f
  <2>2. ToSet(Append(s, f)) = ToSet(s) \cup {f}
    BY ONLY <2>1, Pushed
  <2> QED
    BY <2>1, <2>2 DEF s, f
<1>5. /\ IsInjective(Held(i)) /\ ToSet(Held(i)) \cap (ToSet(cached_frames) \cup free_frames) = {}
      /\ \A j \in Interps \ {i} : ToSet(Held(i)) \cap ToSet(Held(j)) = {}
  BY DEF Safe, FramesConserved
<1> QED
  BY <1>1, <1>2, <1>3, <1>4, <1>5

LEMMA Aside ==
  ASSUME Safe, NEW i \in Interps,
         at'[i] = at[i], call_stack'[i] = call_stack[i], frame'[i] = frame[i],
         instrs'[i] = instrs[i], ip'[i] = ip[i],
         \A f \in ToSet(Held(i)) :
           method'[f] = method[f] /\ saved_ip'[f] = saved_ip[f] /\ jit_called'[f] = jit_called[f]
  PROVE  Sound(i)' /\ Held(i)' = Held(i)
<1>1. Held(i)' = Held(i) /\ Instr(i)' = Instr(i)
  BY DEF Held, Instr
<1>2. Sound(i)
  BY DEF Safe, Interpreting
<1>3. /\ at[i] \in {"run", "dll"} => method'[frame[i]] = method[frame[i]]
      /\ \A k \in DOMAIN call_stack[i] :
           /\ method'[call_stack[i][k]] = method[call_stack[i][k]]
           /\ saved_ip'[call_stack[i][k]] = saved_ip[call_stack[i][k]]
  BY HeldFrames
<1>4. \A k \in DOMAIN Held(i) : jit_called'[Held(i)[k]] = jit_called[Held(i)[k]]
  BY DEF ToSet
<1> QED
  BY <1>1, <1>2, <1>3, <1>4 DEF Sound

(***************************************************************************)
(* The actions.  Each step is one of an interpreter or a native activation  *)
(* at the top of a thread's C stack.                                       *)
(***************************************************************************)
\* The top of a stack, and what waits below it.
LEMMA TopOfStack ==
  ASSUME Safe, NEW t \in Threads, c_stack[t] # <<>>, NEW e, e = Last(c_stack[t])
  PROVE  /\ e \in Interps => at[e] \in Executes /\ e \in pda_monitors
         /\ e \in Natives =>
              /\ InCode(native[e].method, native[e].ip) /\ Front(c_stack[t]) # <<>>
              /\ Last(Front(c_stack[t])) \in Interps /\ at[Last(Front(c_stack[t]))] = "native"
         /\ e \in Interps /\ Front(c_stack[t]) # <<>> =>
              LET d == Last(Front(c_stack[t])) IN
              /\ d # e /\ d \in Interps \cup Natives
              /\ d \in Interps => at[d] = "dll"
              /\ d \in Natives => InCode(native[d].method, native[d].ip) /\ NativeInstr(d).op = "MTHD_CALL"
<1> DEFINE s == c_stack[t]
           n == Len(s)
           d == Last(Front(s))
<1>1. s \in Seq(Interps \cup Natives) /\ s # <<>>
  BY DEF Safe, OtherTypes
<1>2. /\ n \in Nat \ {0} /\ n \in DOMAIN s /\ e = s[n] /\ e \in Interps \cup Natives
      /\ Front(s) \in Seq(Interps \cup Natives) /\ Len(Front(s)) = n - 1
      /\ \A k \in 1 .. n - 1 : Front(s)[k] = s[k] /\ k \in DOMAIN s
  <2>1. e = Last(s)
    OBVIOUS
  <2> HIDE DEF s
  <2>2. /\ n \in Nat \ {0} /\ DOMAIN s = 1 .. n /\ Last(s) = s[n] /\ Last(s) \in Interps \cup Natives
        /\ Front(s) \in Seq(Interps \cup Natives) /\ Len(Front(s)) = n - 1
        /\ \A k \in 1 .. n - 1 : Front(s)[k] = s[k]
    BY ONLY <1>1, Popped
  <2> QED
    BY <2>1, <2>2
<1>3. /\ Front(s) # <<>> <=> n # 1
      /\ Front(s) # <<>> => d = s[n - 1] /\ n - 1 \in DOMAIN s /\ d \in Interps \cup Natives
  <2> DEFINE q == Front(s)
  <2>1. q \in Seq(Interps \cup Natives) /\ Len(q) = n - 1
    BY <1>2
  <2> HIDE DEF q, s
  <2>2. q # <<>> => Len(q) \in Nat \ {0} /\ Last(q) = q[Len(q)] /\ Last(q) \in Interps \cup Natives
    BY <2>1, Popped
  <2>3. q = <<>> => n - 1 = 0
    BY <2>1, EmptyStack
  <2> QED
    BY <1>2, <2>1, <2>2, <2>3 DEF q
<1>4. Interps \cap Natives = {} /\ Waiting /\ StacksApart
  BY NameAssumption DEF Safe
<1>5. /\ n = 1 => e \in Interps
      /\ e \in Interps => e \in pda_monitors /\ at[e] \in Executes
      /\ e \in Natives => InCode(native[e].method, native[e].ip)
  BY <1>2, <1>4 DEF Waiting, Executes
<1>6. ASSUME n # 1
      PROVE  /\ d # e
             /\ d \in Interps => at[d] = IF e \in Natives THEN "native" ELSE "dll"
             /\ d \in Natives => e \in Interps /\ InCode(native[d].method, native[d].ip)
                                 /\ NativeInstr(d).op = "MTHD_CALL"
  <2>1. d = s[n - 1] /\ n - 1 \in DOMAIN s /\ (n - 1) + 1 = n /\ n - 1 < n /\ n - 1 # n
    BY <1>2, <1>3, <1>6
  <2>2. d # e
    BY <1>2, <1>4, <2>1 DEF StacksApart
  <2>3. /\ d \in Interps => at[d] \in IF e \in Natives THEN {"native"} ELSE {"dll"}
        /\ d \in Natives => /\ InCode(native[d].method, native[d].ip)
                            /\ e \in Interps /\ NativeInstr(d).op = "MTHD_CALL"
    <3> HIDE DEF d, n
    <3> QED
      BY <1>2, <1>4, <2>1 DEF Waiting, n
  <2> QED
    BY <2>2, <2>3
<1> QED
  <2> HIDE DEF d, n
  <2> QED
    BY <1>2, <1>3, <1>4, <1>5, <1>6 DEF d

\* What is not made is on no stack.
LEMMA OffStack ==
  ASSUME Safe, NEW i \in Interps, at[i] = "off"
  PROVE  \A u \in Threads : \A n \in DOMAIN c_stack[u] : c_stack[u][n] # i
BY DEF Safe, Waiting

LEMMA ConstructSafe ==
  ASSUME Safe, NEW t \in Threads, NEW i \in Interps, NEW m, NEW n, NEW jit \in BOOLEAN,
         InCode(m, n), Construct(t, i, m, n, jit),
         UNCHANGED <<entry, frameVars, native, native_code, exited>>,
         c_stack[t] # <<>> => Last(c_stack[t]) \in Natives /\ NativeInstr(Last(c_stack[t])).op = "MTHD_CALL"
  PROVE  Safe'
<1> USE DEF Construct
<1>1. /\ at[i] = "off" /\ at'[i] = "new" /\ call_stack'[i] = <<>> /\ instrs'[i] = m /\ ip'[i] = n
      /\ \A j \in Interps \ {i} :
           /\ at'[j] = at[j] /\ call_stack'[j] = call_stack[j] /\ frame'[j] = frame[j]
           /\ instrs'[j] = instrs[j] /\ ip'[j] = ip[j]
  BY DEF Safe, InterpTypes
<1>2. FrameTypes'
  BY DEF Safe, FrameTypes, frameVars
<1>3. InterpTypes'
  <2>1. <<>> \in Seq(Frames) /\ Len(<<>>) = 0
    BY EmptyStack
  <2>2. m \in Methods /\ n \in Nat
    BY Instructions
  <2>3. call_stack' \in [Interps -> Seq(Frames)]
    BY <2>1 DEF Safe, InterpTypes
  <2>4. \A j \in Interps : Len(call_stack'[j]) <= CALL_STACK_SIZE
    BY <1>1, <2>1, SizeAssumption DEF Safe, InterpTypes
  <2> QED
    BY <2>2, <2>3, <2>4 DEF Safe, InterpTypes, Places
<1>4. OtherTypes'
  <2>1. c_stack[t] \in Seq(Interps \cup Natives) /\ i \in Interps \cup Natives
    BY DEF Safe, OtherTypes
  <2>2. Append(c_stack[t], i) \in Seq(Interps \cup Natives)
    BY <2>1
  <2>3. c_stack' \in [Threads -> Seq(Interps \cup Natives)]
    BY <2>2 DEF Safe, OtherTypes
  <2> QED
    BY <2>3 DEF Safe, OtherTypes
<1>5. \A j \in Interps \ {i} : Sound(j)' /\ Held(j)' = Held(j)
  BY <1>1, Aside DEF frameVars
<1>6. Held(i)' = <<>> /\ Held(i) = <<>>
  BY <1>1 DEF Held
<1>7. Sound(i)'
  <2>1. DOMAIN Held(i)' = {} /\ DOMAIN call_stack'[i] = {}
    BY <1>1, <1>6, EmptyStack
  <2> QED
    BY <1>1, <2>1 DEF Sound
<1>8. FramesConserved' /\ FreeZero'
  BY <1>5, <1>6, KeptConserves DEF Safe, frameVars
<1>9. Waiting' /\ StacksApart'
  <2>1. \A u \in Threads : \A k \in DOMAIN c_stack[u] : c_stack[u][k] # i
    BY <1>1, OffStack
  <2>2. PICK d : d = Last(c_stack[t])
    OBVIOUS
  <2>3. c_stack[t] # <<>> => d \notin Interps /\ d # i
    BY <2>2, NameAssumption
  <2>4. i \notin Natives /\ "new" \in Executes /\ pda_monitors \subseteq pda_monitors' /\ i \in pda_monitors'
    BY NameAssumption DEF Executes
  <2>5. \A a \in Natives : native'[a] = native[a]
    OBVIOUS
  <2>6. TypeOK /\ StacksApart /\ Waiting
    BY TypeParts DEF Safe
  <2>7. c_stack' = [c_stack EXCEPT ![t] = Append(@, i)]
    OBVIOUS
  <2> HIDE DEF Construct
  <2>8. Grows(t, i, d)
    BY <1>1, <2>1, <2>2, <2>3, <2>4, <2>5, <2>7 DEF Grows
  <2> QED
    BY <2>6, <2>8, StackGrows
<1> QED
  BY <1>2, <1>3, <1>4, <1>5, <1>7, <1>8, <1>9 DEF Safe, Interpreting

LEMMA StartSafe ==
  ASSUME Safe, NEW t \in Threads, NEW i \in Interps, Start(t, i), entry' = entry
  PROVE  Safe'
<1>1. entry[t] \in Methods
  <2>1. entry \in [Threads -> Methods \cup {None}] /\ entry[t] # None
    BY CodeAssumption DEF Safe, OtherTypes, Start
  <2> QED
    BY <2>1
<1>2. InCode(entry[t], 1)
  BY <1>1, FirstInstruction
<1> QED
  BY <1>2, ConstructSafe DEF Start

LEMMA StackCallbackSafe ==
  ASSUME Safe, NEW t \in Threads, NEW a \in Natives, NEW i \in Interps, StackCallback(t, a, i),
         entry' = entry
  PROVE  Safe'
<1>1. InCode(native[a].method, native[a].ip)
  BY TopOfStack DEF StackCallback, RunsNative
<1> QED
  BY <1>1, ConstructSafe DEF StackCallback, RunsNative

LEMMA CallBackSafe ==
  ASSUME Safe, NEW t \in Threads, NEW i \in Interps, NEW j \in Interps, CallBack(t, i, j),
         entry' = entry
  PROVE  Safe'
<1> USE DEF CallBack, Runs
<1>1. PICK m \in Instr(i).callees :
        instrs' = [instrs EXCEPT ![j] = m] /\ ip' = [ip EXCEPT ![j] = 1]
  OBVIOUS
<1>2. i # j /\ c_stack[t] # <<>> /\ i = Last(c_stack[t]) /\ at[i] = "run" /\ at[j] = "off"
  OBVIOUS
<1>3. /\ at'[i] = "dll" /\ at'[j] = "new" /\ call_stack'[j] = <<>> /\ instrs'[j] = m /\ ip'[j] = 1
      /\ call_stack'[i] = call_stack[i] /\ frame'[i] = frame[i] /\ instrs'[i] = instrs[i] /\ ip'[i] = ip[i]
      /\ \A k \in Interps \ {i, j} :
           /\ at'[k] = at[k] /\ call_stack'[k] = call_stack[k] /\ frame'[k] = frame[k]
           /\ instrs'[k] = instrs[k] /\ ip'[k] = ip[k]
  BY <1>1, <1>2 DEF Safe, InterpTypes
<1>4. Sound(i)
  BY DEF Safe, Interpreting
<1>5. m \in Methods /\ InCode(m, 1)
  <2>1. InCode(instrs[i], ip[i]) /\ Instr(i).op = "DLL_FUNC_CALL"
    BY <1>2, <1>4 DEF Sound
  <2>2. m \in Methods
    BY <1>1, <2>1, Instructions DEF Instr
  <2> QED
    BY <2>2, FirstInstruction
<1>6. FrameTypes'
  BY DEF Safe, FrameTypes, frameVars
<1>7. InterpTypes'
  <2>1. <<>> \in Seq(Frames) /\ Len(<<>>) = 0
    BY EmptyStack
  <2>2. call_stack' \in [Interps -> Seq(Frames)]
    BY <2>1 DEF Safe, InterpTypes
  <2>3. \A k \in Interps : Len(call_stack'[k]) <= CALL_STACK_SIZE
    BY <1>3, <2>1, SizeAssumption DEF Safe, InterpTypes
  <2>4. instrs' \in [Interps -> Methods \cup {None}] /\ ip' \in [Interps -> Nat]
    BY <1>1, <1>5 DEF Safe, InterpTypes
  <2> QED
    BY <2>2, <2>3, <2>4 DEF Safe, InterpTypes, Places
<1>8. OtherTypes'
  <2>1. c_stack[t] \in Seq(Interps \cup Natives) /\ j \in Interps \cup Natives
    BY DEF Safe, OtherTypes
  <2>2. Append(c_stack[t], j) \in Seq(Interps \cup Natives)
    BY <2>1
  <2>3. c_stack' \in [Threads -> Seq(Interps \cup Natives)]
    BY <2>2 DEF Safe, OtherTypes
  <2> QED
    BY <2>3 DEF Safe, OtherTypes
<1>9. \A k \in Interps \ {i, j} : Sound(k)' /\ Held(k)' = Held(k)
  BY <1>3, Aside DEF frameVars
<1>10. Held(j)' = <<>> /\ Held(j) = <<>> /\ Held(i)' = Held(i)
  <2> HIDE DEF CallBack, Runs
  <2>1. Held(j)' = <<>>
    BY <1>3 DEF Held
  <2>2. Held(j) = <<>>
    BY <1>2 DEF Held
  <2>3. Held(i)' = Held(i)
    BY <1>2, <1>3 DEF Held
  <2> QED
    BY <2>1, <2>2, <2>3
<1>11. Sound(j)'
  <2>1. DOMAIN Held(j)' = {} /\ DOMAIN call_stack'[j] = {}
    BY <1>3, <1>10, EmptyStack
  <2> QED
    BY <1>3, <1>5, <2>1 DEF Sound
<1>12. Sound(i)'
  <2>1. Instr(i)' = Instr(i) /\ Instr(i).op = "DLL_FUNC_CALL"
    BY <1>3 DEF Instr
  <2> QED
    BY <1>2, <1>3, <1>4, <1>10, <2>1 DEF Sound, frameVars
<1>13. FramesConserved' /\ FreeZero'
  <2>1. \A k \in Interps : Held(k)' = Held(k)
    BY <1>9, <1>10
  <2> QED
    BY <2>1, KeptConserves DEF Safe, frameVars
<1>14. Waiting' /\ StacksApart'
  <2>1. \A u \in Threads : \A k \in DOMAIN c_stack[u] : c_stack[u][k] # j
    BY <1>2, OffStack
  <2>2. j \notin Natives /\ i \notin Natives /\ "new" \in Executes
        /\ pda_monitors \subseteq pda_monitors' /\ j \in pda_monitors'
    BY NameAssumption DEF Executes
  <2>3. \A a \in Natives : native'[a] = native[a]
    OBVIOUS
  <2>4. TypeOK /\ StacksApart /\ Waiting /\ c_stack' = [c_stack EXCEPT ![t] = Append(@, j)]
    BY TypeParts DEF Safe
  <2> HIDE DEF CallBack, Runs
  <2>5. Grows(t, j, i)
    BY <1>2, <1>3, <2>1, <2>2, <2>3, <2>4 DEF Grows
  <2> QED
    BY <2>4, <2>5, StackGrows
<1> QED
  BY <1>6, <1>7, <1>8, <1>9, <1>11, <1>12, <1>13, <1>14 DEF Safe, Interpreting

\* The interpreter at the top goes from place to place.
LEMMA TopMoves ==
  ASSUME Safe, NEW t \in Threads, NEW i \in Interps, c_stack[t] # <<>>, i = Last(c_stack[t]),
         c_stack' = c_stack, pda_monitors' = pda_monitors, native' = native,
         at'[i] \in Executes, \A j \in Interps \ {i} : at'[j] = at[j]
  PROVE  Waiting' /\ StacksApart'
<1>1. i \notin Natives
  BY NameAssumption
<1>2. Stays(t, i)
  BY <1>1 DEF Stays
<1>3. TypeOK /\ StacksApart /\ Waiting
  BY TypeParts DEF Safe
<1> QED
  BY <1>2, <1>3, StackStays

\* An interpreter begins to execute m in a new frame.
LEMMA Enters ==
  ASSUME Safe, NEW i \in Interps, NEW f, NEW m \in Methods, NEW jit \in BOOLEAN,
         GetStackFrame(f, m, jit), jit => Held(i) = <<>>,
         at'[i] = "run", frame'[i] = f, instrs'[i] = m, InCode(m, ip'[i]),
         call_stack'[i] = Held(i),
         \A k \in DOMAIN Held(i) : InCode(method[Held(i)[k]], saved_ip'[Held(i)[k]]),
         \A j \in Interps \ {i} :
           /\ at'[j] = at[j] /\ call_stack'[j] = call_stack[j] /\ frame'[j] = frame[j]
           /\ instrs'[j] = instrs[j] /\ ip'[j] = ip[j]
           /\ \A g \in ToSet(Held(j)) : saved_ip'[g] = saved_ip[g]
  PROVE  Interpreting' /\ FramesConserved' /\ FreeZero'
<1>1. TypeOK /\ FramesConserved /\ FreeZero /\ Interpreting
  BY TypeParts DEF Safe
<1>2. f \in Frames /\ \A j \in Interps : f \notin ToSet(Held(j))
  BY <1>1, GotFrame
<1>3. /\ \A g \in Frames : g # f => method'[g] = method[g] /\ jit_called'[g] = jit_called[g]
      /\ method'[f] = m /\ jit_called'[f] = jit
  BY <1>2 DEF GetStackFrame, Safe, FrameTypes
<1>4. Held(i)' = Append(Held(i), f)
  BY DEF Held
<1>5. \A j \in Interps : Held(j) \in Seq(Frames) /\ \A g \in ToSet(Held(j)) : g \in Frames /\ g # f
  <2>1. \A j \in Interps : Held(j) \in Seq(Frames)
    BY HeldFrames
  <2>2. \A j \in Interps : ToSet(Held(j)) \subseteq Frames
    BY <2>1 DEF ToSet
  <2> QED
    BY <1>2, <2>1, <2>2
<1>6. \A j \in Interps \ {i} : Sound(j)' /\ Held(j)' = Held(j)
  BY <1>3, <1>5, Aside
<1>7. FramesConserved' /\ FreeZero'
  BY <1>1, <1>4, <1>6, GotConserves
<1> DEFINE h == Held(i)
           n == Len(h)
<1>8. /\ h \in Seq(Frames) /\ n \in Nat /\ DOMAIN h = 1 .. n
      /\ \A k \in DOMAIN h : h[k] \in Frames /\ h[k] # f
      /\ DOMAIN Append(h, f) = 1 .. n + 1 /\ Append(h, f)[n + 1] = f
      /\ \A k \in DOMAIN h : Append(h, f)[k] = h[k]
      /\ \A k \in DOMAIN Append(h, f) : k \in DOMAIN h \/ k = n + 1
  <2>1. h \in Seq(Frames)
    BY <1>5
  <2>2. \A k \in DOMAIN h : h[k] \in ToSet(h)
    BY DEF ToSet
  <2> HIDE DEF h
  <2> QED
    BY <1>2, <1>5, <2>1, <2>2, Pushed DEF h
<1>9. \A k \in DOMAIN h : jit_called[h[k]] => k = 1
  BY DEF Safe, Interpreting, Sound
<1>10. jit => n = 0
  BY EmptyStack
<1>11. \A k \in DOMAIN Held(i)' : jit_called'[Held(i)'[k]] => k = 1
  <2> SUFFICES ASSUME NEW k \in DOMAIN Append(h, f), jit_called'[Append(h, f)[k]] PROVE k = 1
    BY <1>4
  <2> HIDE DEF h, n
  <2> QED
    BY <1>3, <1>8, <1>9, <1>10
<1>12. \A k \in DOMAIN call_stack'[i] : InCode(method'[call_stack'[i][k]], saved_ip'[call_stack'[i][k]])
  BY <1>3, <1>8
<1>13. Sound(i)'
  BY <1>2, <1>3, <1>11, <1>12 DEF Sound
<1> QED
  BY <1>6, <1>7, <1>13 DEF Interpreting

LEMMA ExecuteSafe ==
  ASSUME Safe, NEW t \in Threads, NEW i \in Interps, Execute(t, i), entry' = entry
  PROVE  Safe'
<1> USE DEF Execute, Runs
<1>1. PICK f \in Frames : GetStackFrame(f, instrs[i], jit_arg[i]) /\ frame' = [frame EXCEPT ![i] = f]
  OBVIOUS
<1>2. Sound(i)
  BY DEF Safe, Interpreting
<1>3. /\ InCode(instrs[i], ip[i]) /\ instrs[i] \in Methods /\ jit_arg[i] \in BOOLEAN
      /\ call_stack[i] = <<>> /\ Held(i) = <<>>
  BY <1>2, Instructions DEF Sound, Held, Safe, InterpTypes
<1>4. /\ at'[i] = "run" /\ frame'[i] = f /\ call_stack'[i] = Held(i)
      /\ \A j \in Interps \ {i} :
           at'[j] = at[j] /\ call_stack'[j] = call_stack[j] /\ frame'[j] = frame[j]
  BY <1>1, <1>3 DEF Safe, InterpTypes
<1>5. FrameTypes'
  <2>1. saved_ip' \in [Frames -> Nat] /\ jit_arg[i] \in BOOLEAN /\ instrs[i] \in Methods
    BY <1>3 DEF Safe, FrameTypes
  <2>2. GetStackFrame(f, instrs[i], jit_arg[i])
    BY <1>1
  <2> HIDE DEF Execute, Runs
  <2> QED
    BY <2>1, <2>2, FrameTypesGot
<1>6. InterpTypes'
  BY <1>1 DEF Safe, InterpTypes, Places
<1>7. OtherTypes'
  BY DEF Safe, OtherTypes
<1>8. Interpreting' /\ FramesConserved' /\ FreeZero'
  <2>1. DOMAIN Held(i) = {}
    BY <1>3, EmptyStack
  <2> QED
    BY <1>1, <1>3, <1>4, <2>1, Enters
<1>9. Waiting' /\ StacksApart'
  BY <1>4, TopMoves DEF Executes
<1> QED
  BY <1>5, <1>6, <1>7, <1>8, <1>9 DEF Safe

LEMMA ProcessInterpretedMethodCallSafe ==
  ASSUME Safe, NEW t \in Threads, NEW i \in Interps, ProcessInterpretedMethodCall(t, i), entry' = entry
  PROVE  Safe'
<1> USE DEF ProcessInterpretedMethodCall, Runs
<1>1. PICK f \in Frames : GetStackFrame(f, instrs[i], FALSE) /\ frame' = [frame EXCEPT ![i] = f]
  OBVIOUS
<1>2. Sound(i)
  BY DEF Safe, Interpreting
<1>3. /\ InCode(instrs[i], ip[i]) /\ instrs[i] \in Methods /\ Held(i) = call_stack[i]
      /\ \A k \in DOMAIN call_stack[i] : InCode(method[call_stack[i][k]], saved_ip[call_stack[i][k]])
  BY <1>2, Instructions DEF Sound, Held
<1>4. /\ at'[i] = "run" /\ frame'[i] = f /\ call_stack'[i] = Held(i)
      /\ \A j \in Interps \ {i} :
           at'[j] = at[j] /\ call_stack'[j] = call_stack[j] /\ frame'[j] = frame[j]
  BY <1>1, <1>3 DEF Safe, InterpTypes
<1>5. FrameTypes'
  <2>1. saved_ip' \in [Frames -> Nat] /\ FALSE \in BOOLEAN /\ instrs[i] \in Methods
    BY <1>3 DEF Safe, FrameTypes
  <2>2. GetStackFrame(f, instrs[i], FALSE)
    BY <1>1
  <2> HIDE DEF ProcessInterpretedMethodCall, Runs
  <2> QED
    BY <2>1, <2>2, FrameTypesGot
<1>6. InterpTypes'
  BY <1>1 DEF Safe, InterpTypes, Places
<1>7. OtherTypes'
  BY DEF Safe, OtherTypes
<1>8. Interpreting' /\ FramesConserved' /\ FreeZero'
  BY <1>1, <1>3, <1>4, Enters
<1>9. Waiting' /\ StacksApart'
  BY <1>4, TopMoves DEF Executes
<1> QED
  BY <1>5, <1>6, <1>7, <1>8, <1>9 DEF Safe

\* A step of the top interpreter that gets and drops no frame.
LEMMA StoreSafe ==
  ASSUME Safe, NEW t \in Threads, NEW i \in Interps, Store(t, i), entry' = entry
  PROVE  Safe'
<1> USE DEF Store, Runs
<1>1. Sound(i)
  BY DEF Safe, Interpreting
<1>2. /\ at[i] = "run" /\ InCode(instrs[i], ip[i]) /\ Instr(i).op = "STOR" /\ frame[i] \in Frames
      /\ frame[i] \in ToSet(Held(i))
  BY <1>1, HeldFrames DEF Sound
<1>3. InCode(instrs[i], ip[i] + 1) /\ ip[i] \in Nat /\ Instr(i).vars \subseteq {"low", "high"}
  BY <1>2, Instructions DEF Instr
<1>4. ip'[i] = ip[i] + 1 /\ \A j \in Interps \ {i} : ip'[j] = ip[j]
  BY DEF Safe, InterpTypes
<1>5. FrameTypes'
  BY <1>2, <1>3 DEF Safe, FrameTypes
<1>6. InterpTypes'
  BY <1>3 DEF Safe, InterpTypes
<1>7. OtherTypes'
  BY DEF Safe, OtherTypes
<1>8. \A j \in Interps \ {i} : Sound(j)' /\ Held(j)' = Held(j)
  BY <1>4, Aside
<1>9. Sound(i)' /\ Held(i)' = Held(i)
  BY <1>1, <1>2, <1>3, <1>4 DEF Sound, Held
<1>10. FramesConserved' /\ FreeZero'
  <2>1. frame[i] \notin ToSet(cached_frames) \cup free_frames
    BY <1>2, HeldFrames
  <2>2. ToSet(cached_frames) \cup free_frames \subseteq Frames
    BY DEF Safe, FrameTypes, ToSet
  <2>3. \A f \in ToSet(cached_frames) \cup free_frames : stored'[f] = stored[f]
    BY <2>1, <2>2 DEF Safe, FrameTypes
  <2>4. \A j \in Interps : Held(j)' = Held(j)
    BY <1>8, <1>9
  <2>5. FramesConserved /\ FreeZero /\ UNCHANGED <<cached_frames, free_frames>>
    BY DEF Safe
  <2> QED
    BY <2>3, <2>4, <2>5, KeptConserves
<1>11. Waiting' /\ StacksApart'
  BY <1>2, TopMoves DEF Executes
<1> QED
  BY <1>5, <1>6, <1>7, <1>8, <1>9, <1>10, <1>11 DEF Safe, Interpreting

LEMMA JumpSafe ==
  ASSUME Safe, NEW t \in Threads, NEW i \in Interps, Jump(t, i), entry' = entry
  PROVE  Safe'
<1> USE DEF Jump, Runs
<1>1. Sound(i)
  BY DEF Safe, Interpreting
<1>2. at[i] = "run" /\ InCode(instrs[i], ip[i]) /\ Instr(i).op = "JMP"
  BY <1>1 DEF Sound
<1>3. InCode(instrs[i], ip[i] + 1) /\ InCode(instrs[i], Instr(i).to)
  BY <1>2, Instructions DEF Instr
<1>4. PICK n \in {ip[i] + 1, Instr(i).to} : ip' = [ip EXCEPT ![i] = n]
  OBVIOUS
<1>5. InCode(instrs[i], n) /\ n \in Nat
  <2>1. InCode(instrs[i], n)
    BY <1>3, <1>4
  <2> QED
    BY <2>1 DEF InCode
<1>6. ip'[i] = n /\ \A j \in Interps \ {i} : ip'[j] = ip[j]
  BY <1>4 DEF Safe, InterpTypes
<1>7. FrameTypes' /\ OtherTypes'
  BY DEF Safe, FrameTypes, OtherTypes, frameVars
<1>8. InterpTypes'
  BY <1>4, <1>5 DEF Safe, InterpTypes
<1>9. \A j \in Interps \ {i} : Sound(j)' /\ Held(j)' = Held(j)
  BY <1>6, Aside DEF frameVars
<1>10. Held(i)' = Held(i)
  BY DEF Held
<1>11. Sound(i)'
  BY <1>1, <1>2, <1>5, <1>6, <1>10 DEF Sound, frameVars
<1>12. FramesConserved' /\ FreeZero'
  BY <1>9, <1>10, KeptConserves DEF Safe, frameVars
<1>13. Waiting' /\ StacksApart'
  BY <1>2, TopMoves DEF Executes
<1> QED
  BY <1>7, <1>8, <1>9, <1>11, <1>12, <1>13 DEF Safe, Interpreting

LEMMA CompileSafe ==
  ASSUME Safe, NEW t \in Threads, NEW i \in Interps, Compile(t, i), entry' = entry
  PROVE  Safe'
<1> USE DEF Compile, Runs
<1>1. FrameTypes' /\ InterpTypes' /\ OtherTypes'
  BY DEF Safe, FrameTypes, InterpTypes, OtherTypes, frameVars, interpVars
<1>2. \A j \in Interps : Sound(j)' /\ Held(j)' = Held(j)
  BY Aside DEF frameVars, interpVars
<1>3. FramesConserved' /\ FreeZero'
  BY <1>2, KeptConserves DEF Safe, frameVars
<1>4. Waiting' /\ StacksApart'
  BY TopMoves DEF Executes, interpVars
<1> QED
  BY <1>1, <1>2, <1>3, <1>4 DEF Safe, Interpreting

\* A call: the caller's frame, pushed, says where it goes on.
LEMMA CallMethodSafe ==
  ASSUME Safe, NEW t \in Threads, NEW i \in Interps, CallMethod(t, i), entry' = entry
  PROVE  Safe'
<1> USE DEF CallMethod, Runs
<1> DEFINE g == frame[i]
<1>1. Sound(i)
  BY DEF Safe, Interpreting
<1>2. /\ at[i] = "run" /\ InCode(instrs[i], ip[i]) /\ Instr(i).op = "MTHD_CALL" /\ g \in Frames
      /\ method[g] = instrs[i] /\ g \in ToSet(Held(i)) /\ Held(i) = Append(call_stack[i], g)
  BY <1>1, HeldFrames DEF Sound
<1>3. InCode(instrs[i], ip[i] + 1) /\ ip[i] \in Nat /\ Instr(i).callees \subseteq Methods
  BY <1>2, Instructions DEF Instr
<1>4. /\ saved_ip' \in [Frames -> Nat] /\ saved_ip'[g] = ip[i] + 1
      /\ \A f \in Frames \ {g} : saved_ip'[f] = saved_ip[f]
  BY <1>2, <1>3 DEF Safe, FrameTypes
\* Its saved_ip is of no other frame that is held.
<1>5. /\ \A j \in Interps \ {i} : \A f \in ToSet(Held(j)) : f \in Frames /\ f # g /\ saved_ip'[f] = saved_ip[f]
      /\ call_stack[i] \in Seq(Frames) /\ IsInjective(Held(i)) /\ Held(i) \in Seq(Frames)
  <2>1. \A j \in Interps : Held(j) \in Seq(Frames)
    BY HeldFrames
  <2>2. \A j \in Interps : ToSet(Held(j)) \subseteq Frames
    BY <2>1 DEF ToSet
  <2>3. \A j \in Interps \ {i} : ToSet(Held(i)) \cap ToSet(Held(j)) = {}
    BY HeldFrames
  <2>4. call_stack[i] \in Seq(Frames) /\ IsInjective(Held(i)) /\ Held(i) \in Seq(Frames)
    BY HeldFrames
  <2> QED
    BY <1>2, <1>4, <2>2, <2>3, <2>4
<1>6. /\ \A k \in DOMAIN Held(i) : InCode(method[Held(i)[k]], saved_ip'[Held(i)[k]])
      /\ \A k \in DOMAIN call_stack[i] : InCode(method[call_stack[i][k]], saved_ip'[call_stack[i][k]])
      /\ Len(Held(i)) = Len(call_stack[i]) + 1 /\ Len(call_stack[i]) \in Nat
      /\ Last(Held(i)) = g /\ Held(i) # <<>>
  <2> DEFINE c == call_stack[i]
  <2>1. /\ c \in Seq(Frames) /\ g \in Frames /\ Held(i) = Append(c, g) /\ IsInjective(Append(c, g))
    BY <1>2, <1>5
  <2>2. /\ \A k \in DOMAIN c : Append(c, g)[k] = c[k] /\ c[k] \in Frames
        /\ Append(c, g)[Len(c) + 1] = g
        /\ \A k \in DOMAIN Append(c, g) : k \in DOMAIN c \/ k = Len(c) + 1
        /\ g \notin ToSet(c) /\ Len(Append(c, g)) = Len(c) + 1 /\ Len(c) \in Nat
    <3> HIDE DEF c, g
    <3> QED
      BY ONLY <2>1, Pushed
  <2>3. \A k \in DOMAIN c : c[k] # g /\ InCode(method[c[k]], saved_ip[c[k]])
    BY <1>1, <2>2 DEF Sound, ToSet
  <2>4. Last(Append(c, g)) = g
    <3> HIDE DEF c, g
    <3> QED
      BY ONLY <2>2 DEF Last
  <2>5. Append(c, g) # <<>>
    <3> HIDE DEF c, g
    <3> QED
      BY ONLY <2>2, EmptyStack
  <2>6. \A k \in DOMAIN c : InCode(method[c[k]], saved_ip'[c[k]])
    <3> HIDE DEF c, g
    <3> QED
      BY <1>4, <2>2, <2>3
  <2>7. \A k \in DOMAIN Append(c, g) : InCode(method[Append(c, g)[k]], saved_ip'[Append(c, g)[k]])
    <3> HIDE DEF c
    <3> QED
      BY <1>2, <1>3, <1>4, <2>2, <2>6
  <2> QED
    BY <2>1, <2>2, <2>4, <2>5, <2>6, <2>7
<1>7. OtherTypes'
  BY DEF Safe, OtherTypes, PushFrame
<1>8. CASE exited'
  <2>1. /\ UNCHANGED <<call_stack, at, frame, instrs, ip, method, jit_called>>
        /\ UNCHANGED <<stored, cached_frames, free_frames, jit_arg>>
    BY <1>8 DEF PushFrame
  <2>2. FrameTypes'
    BY <1>4, <2>1 DEF Safe, FrameTypes
  <2>3. InterpTypes'
    BY <2>1 DEF Safe, InterpTypes
  <2>4. \A j \in Interps \ {i} : Sound(j)' /\ Held(j)' = Held(j)
    BY <1>5, <2>1, Aside
  <2>5. Held(i)' = Held(i)
    BY <2>1 DEF Held
  <2>6. Sound(i)'
    BY <1>1, <1>2, <1>6, <2>1, <2>5 DEF Sound
  <2>7. FramesConserved' /\ FreeZero'
    BY <2>1, <2>4, <2>5, KeptConserves DEF Safe
  <2>8. Waiting' /\ StacksApart'
    BY <1>2, <2>1, TopMoves DEF Executes
  <2> QED
    BY <1>7, <2>2, <2>3, <2>4, <2>6, <2>7, <2>8 DEF Safe, Interpreting
<1>9. CASE ~ exited'
  <2>1. PICK m \in Instr(i).callees :
          /\ instrs' = [instrs EXCEPT ![i] = m] /\ ip' = [ip EXCEPT ![i] = 1]
          /\ IF Instr(i).native
             THEN /\ at' = [at EXCEPT ![i] = "jit"]
                  /\ UNCHANGED <<frame, method, jit_called, stored, cached_frames, free_frames>>
             ELSE /\ \E f \in Frames :
                       GetStackFrame(f, m, FALSE) /\ frame' = [frame EXCEPT ![i] = f]
                  /\ UNCHANGED at
    BY <1>9
  <2>2. m \in Methods /\ InCode(m, 1)
    BY <1>3, <2>1, FirstInstruction
  <2>3. call_stack' = [call_stack EXCEPT ![i] = Append(@, g)] /\ ~ (Len(call_stack[i]) >= CALL_STACK_SIZE)
    BY <1>9 DEF PushFrame
  <2>4. /\ call_stack'[i] = Held(i) /\ instrs'[i] = m /\ ip'[i] = 1
        /\ \A j \in Interps \ {i} :
             call_stack'[j] = call_stack[j] /\ instrs'[j] = instrs[j] /\ ip'[j] = ip[j]
    BY <1>2, <2>1, <2>3 DEF Safe, InterpTypes
  <2>5. call_stack' \in [Interps -> Seq(Frames)] /\ \A j \in Interps : Len(call_stack'[j]) <= CALL_STACK_SIZE
    <3>1. call_stack' = [call_stack EXCEPT ![i] = Held(i)]
      BY <1>2, <2>3
    <3>2. Len(Held(i)) <= CALL_STACK_SIZE
      BY <1>6, <2>3, SizeAssumption
    <3> QED
      BY <1>5, <2>4, <3>1, <3>2 DEF Safe, InterpTypes
  <2>6. CASE Instr(i).native
    <3>1. /\ at' = [at EXCEPT ![i] = "jit"]
          /\ UNCHANGED <<frame, method, jit_called, stored, cached_frames, free_frames, jit_arg>>
      BY <2>1, <2>6
    <3>2. at'[i] = "jit" /\ \A j \in Interps \ {i} : at'[j] = at[j]
      BY <3>1 DEF Safe, InterpTypes
    <3>3. FrameTypes'
      BY <1>4, <3>1 DEF Safe, FrameTypes
    <3>4. InterpTypes'
      <4>1. at' \in [Interps -> Places] /\ instrs' \in [Interps -> Methods \cup {None}] /\ ip' \in [Interps -> Nat]
        BY <2>1, <2>2, <3>1 DEF Safe, InterpTypes, Places
      <4> QED
        BY <2>5, <3>1, <4>1 DEF Safe, InterpTypes
    <3>5. \A j \in Interps \ {i} : Sound(j)' /\ Held(j)' = Held(j)
      BY <1>5, <2>4, <3>1, <3>2, Aside
    <3>6. Held(i)' = Held(i)
      BY <2>4, <3>2 DEF Held
    <3>7. Sound(i)'
      <4> HIDE DEF CallMethod, Runs
      <4> QED
        BY <1>1, <1>6, <2>2, <2>4, <3>1, <3>2, <3>6 DEF Sound
    <3>8. FramesConserved' /\ FreeZero'
      BY <3>1, <3>5, <3>6, KeptConserves DEF Safe
    <3>9. Waiting' /\ StacksApart'
      BY <3>2, TopMoves DEF Executes
    <3> QED
      BY <1>7, <3>3, <3>4, <3>5, <3>7, <3>8, <3>9 DEF Safe, Interpreting
  <2>7. CASE ~ Instr(i).native
    <3>1. PICK f \in Frames : GetStackFrame(f, m, FALSE) /\ frame' = [frame EXCEPT ![i] = f]
      BY <2>1, <2>7
    <3>2. at' = at
      BY <2>1, <2>7
    <3>3. frame'[i] = f /\ at'[i] = "run" /\ \A j \in Interps \ {i} : at'[j] = at[j] /\ frame'[j] = frame[j]
      BY <1>2, <3>1, <3>2 DEF Safe, InterpTypes
    <3>4. FrameTypes'
      <4>1. saved_ip' \in [Frames -> Nat] /\ FALSE \in BOOLEAN
        BY <1>4
      <4> HIDE DEF CallMethod, Runs
      <4> QED
        BY <2>2, <3>1, <4>1, FrameTypesGot
    <3>5. InterpTypes'
      <4>1. frame' \in [Interps -> Frames \cup {None}]
            /\ instrs' \in [Interps -> Methods \cup {None}] /\ ip' \in [Interps -> Nat]
        BY <2>1, <2>2, <3>1 DEF Safe, InterpTypes
      <4> QED
        BY <2>5, <3>2, <4>1 DEF Safe, InterpTypes
    <3>6. Interpreting' /\ FramesConserved' /\ FreeZero'
      <4>1. GetStackFrame(f, m, FALSE) /\ FALSE \in BOOLEAN
        BY <3>1
      <4>2. /\ at'[i] = "run" /\ frame'[i] = f /\ instrs'[i] = m /\ InCode(m, ip'[i])
            /\ call_stack'[i] = Held(i)
            /\ \A k \in DOMAIN Held(i) : InCode(method[Held(i)[k]], saved_ip'[Held(i)[k]])
        BY <1>6, <2>2, <2>4, <3>3
      <4>3. \A j \in Interps \ {i} :
              /\ at'[j] = at[j] /\ call_stack'[j] = call_stack[j] /\ frame'[j] = frame[j]
              /\ instrs'[j] = instrs[j] /\ ip'[j] = ip[j]
              /\ \A e \in ToSet(Held(j)) : saved_ip'[e] = saved_ip[e]
        BY <1>5, <2>4, <3>3
      <4> HIDE DEF CallMethod, Runs, g
      <4> QED
        BY <2>2, <4>1, <4>2, <4>3, Enters
    <3>7. Waiting' /\ StacksApart'
      BY <3>3, TopMoves DEF Executes
    <3> QED
      BY <1>7, <3>4, <3>5, <3>6, <3>7 DEF Safe
  <2> QED
    BY <2>6, <2>7
<1> QED
  BY <1>8, <1>9

LEMMA ExecuteMachineCodeSafe ==
  ASSUME Safe, NEW t \in Threads, NEW i \in Interps, NEW a \in Natives, ExecuteMachineCode(t, i, a),
         entry' = entry
  PROVE  Safe'
<1> USE DEF ExecuteMachineCode, Runs
<1>1. Sound(i)
  BY DEF Safe, Interpreting
<1>2. /\ at[i] = "jit" /\ at'[i] = "native" /\ InCode(instrs[i], 1) /\ instrs[i] \in Methods
      /\ \A j \in Interps \ {i} : at'[j] = at[j]
  BY <1>1, Instructions DEF Sound, Safe, InterpTypes
<1>3. FrameTypes'
  BY DEF Safe, FrameTypes, frameVars
<1>4. InterpTypes'
  BY DEF Safe, InterpTypes, Places
<1>5. native'[a] = [method |-> instrs[i], ip |-> 1] /\ \A b \in Natives \ {a} : native'[b] = native[b]
  BY DEF Safe, OtherTypes
<1>6. OtherTypes'
  <2>1. c_stack[t] \in Seq(Interps \cup Natives) /\ a \in Interps \cup Natives
    BY DEF Safe, OtherTypes
  <2>2. Append(c_stack[t], a) \in Seq(Interps \cup Natives)
    BY <2>1
  <2>3. c_stack' \in [Threads -> Seq(Interps \cup Natives)]
    BY <2>2 DEF Safe, OtherTypes
  <2>4. native' \in [Natives -> [method : Methods \cup {None}, ip : Nat]]
    BY <1>2 DEF Safe, OtherTypes
  <2> QED
    BY <2>3, <2>4 DEF Safe, OtherTypes
<1>7. \A j \in Interps \ {i} : Sound(j)' /\ Held(j)' = Held(j)
  BY <1>2, Aside DEF frameVars
<1>8. Held(i)' = Held(i)
  BY <1>2 DEF Held
<1>9. Sound(i)'
  BY <1>1, <1>2, <1>8 DEF Sound, frameVars
<1>10. FramesConserved' /\ FreeZero'
  BY <1>7, <1>8, KeptConserves DEF Safe, frameVars
<1>11. Waiting' /\ StacksApart'
  <2>1. \A u \in Threads : \A n \in DOMAIN c_stack[u] : c_stack[u][n] # a
    BY DEF ToSet
  <2>2. a \notin Interps /\ i \notin Natives
    BY NameAssumption
  <2>3. InCode(native'[a].method, native'[a].ip)
    BY <1>2, <1>5
  <2>4. /\ TypeOK /\ StacksApart /\ Waiting /\ c_stack' = [c_stack EXCEPT ![t] = Append(@, a)]
        /\ pda_monitors' = pda_monitors /\ c_stack[t] # <<>> /\ i = Last(c_stack[t])
    BY TypeParts DEF Safe
  <2> HIDE DEF ExecuteMachineCode, Runs
  <2>5. Grows(t, a, i)
    BY <1>2, <1>5, <2>1, <2>2, <2>3, <2>4 DEF Grows
  <2> QED
    BY <2>4, <2>5, StackGrows
<1> QED
  BY <1>3, <1>4, <1>6, <1>7, <1>9, <1>10, <1>11 DEF Safe, Interpreting

\* A frame that is released was not held by another interpreter.
LEMMA OthersAside ==
  ASSUME Safe, NEW i \in Interps, NEW f \in ToSet(Held(i)), ReleaseStackFrame(f), saved_ip' = saved_ip,
         \A j \in Interps \ {i} :
           /\ at'[j] = at[j] /\ call_stack'[j] = call_stack[j] /\ frame'[j] = frame[j]
           /\ instrs'[j] = instrs[j] /\ ip'[j] = ip[j]
  PROVE  \A j \in Interps \ {i} : Sound(j)' /\ Held(j)' = Held(j)
<1>1. /\ \A j \in Interps : Held(j) \in Seq(Frames)
      /\ \A j \in Interps \ {i} : ToSet(Held(i)) \cap ToSet(Held(j)) = {}
  BY HeldFrames
<1>2. \A j \in Interps : ToSet(Held(j)) \subseteq Frames
  BY <1>1 DEF ToSet
<1>3. \A j \in Interps \ {i} : \A e \in ToSet(Held(j)) : e \in Frames /\ e # f
  BY <1>1, <1>2
<1>4. \A e \in Frames : e # f => method'[e] = method[e] /\ jit_called'[e] = jit_called[e]
  BY DEF ReleaseStackFrame, Safe, FrameTypes
<1> QED
  BY <1>3, <1>4, Aside

LEMMA ReleaseReturningSafe ==
  ASSUME Safe, NEW t \in Threads, NEW i \in Interps, ReleaseReturning(t, i), entry' = entry
  PROVE  Safe'
<1> USE DEF ReleaseReturning, Runs
<1> DEFINE f == frame[i]
<1>1. Sound(i)
  BY DEF Safe, Interpreting
<1>2. /\ at[i] = "run" /\ f \in Frames /\ Held(i) = Append(call_stack[i], f) /\ f \in ToSet(Held(i))
      /\ call_stack[i] \in Seq(Frames)
  BY HeldFrames
<1>3. /\ at'[i] = "return" /\ Held(i)' = call_stack[i]
      /\ \A j \in Interps \ {i} : at'[j] = at[j]
  BY DEF Safe, InterpTypes, Held
<1>4. FrameTypes'
  BY <1>2, FrameTypesReleased
<1>5. InterpTypes' /\ OtherTypes'
  BY DEF Safe, InterpTypes, OtherTypes, Places
<1>6. \A j \in Interps \ {i} : Sound(j)' /\ Held(j)' = Held(j)
  BY <1>2, <1>3, OthersAside
<1>7. FramesConserved' /\ FreeZero'
  BY <1>2, <1>3, <1>6, DroppedConserves, TypeParts DEF Safe
\* What was below the frame is still there.
<1>8. Sound(i)'
  <2> DEFINE c == call_stack[i]
  <2>1. /\ c \in Seq(Frames) /\ f \in Frames /\ Held(i) = Append(c, f) /\ IsInjective(Held(i))
    BY <1>2, HeldFrames
  <2>2. /\ \A k \in DOMAIN c : Append(c, f)[k] = c[k] /\ k \in DOMAIN Append(c, f) /\ c[k] \in Frames
        /\ f \notin ToSet(c)
    <3> HIDE DEF c, f
    <3> QED
      BY ONLY <2>1, Pushed
  <2>3. \A k \in DOMAIN c : c[k] # f
    BY <2>2 DEF ToSet
  <2>4. \A k \in DOMAIN c : method'[c[k]] = method[c[k]] /\ jit_called'[c[k]] = jit_called[c[k]]
    BY <2>2, <2>3 DEF ReleaseStackFrame, Safe, FrameTypes
  <2>5. \A k \in DOMAIN c : InCode(method[c[k]], saved_ip[c[k]]) /\ (jit_called[c[k]] => k = 1)
    BY <1>1, <2>1, <2>2 DEF Sound
  <2>6. call_stack'[i] = c /\ saved_ip' = saved_ip
    OBVIOUS
  <2> HIDE DEF c, f, ReleaseReturning, Runs
  <2> QED
    BY <1>3, <2>4, <2>5, <2>6 DEF Sound, c
<1>9. Waiting' /\ StacksApart'
  BY <1>3, TopMoves DEF Executes
<1> QED
  BY <1>4, <1>5, <1>6, <1>7, <1>8, <1>9 DEF Safe, Interpreting

\* A caller is resumed, or the interpreter native code made ends.
LEMMA ResumeSafe ==
  ASSUME Safe, NEW i \in Interps, Resume(i), call_stack[i] # <<>>, at[i] \in {"return", "native"},
         saved_ip' = saved_ip, jit_arg' = jit_arg
  PROVE  /\ FrameTypes' /\ InterpTypes' /\ Interpreting' /\ FramesConserved' /\ FreeZero'
         /\ at'[i] \in {"run", "leave"} /\ \A j \in Interps \ {i} : at'[j] = at[j]
<1>1. PICK f, q : f = Last(call_stack[i]) /\ q = Front(call_stack[i])
  OBVIOUS
<1>2. Sound(i) /\ call_stack[i] \in Seq(Frames) /\ Held(i) = call_stack[i]
  BY HeldFrames DEF Safe, Interpreting
<1>3. /\ q \in Seq(Frames) /\ f \in Frames /\ call_stack[i] = Append(q, f)
      /\ Len(call_stack[i]) \in Nat \ {0} /\ Len(q) = Len(call_stack[i]) - 1 /\ Len(q) \in Nat
      /\ DOMAIN q = 1 .. Len(q) /\ f = call_stack[i][Len(q) + 1] /\ Len(q) + 1 \in DOMAIN call_stack[i]
      /\ \A k \in DOMAIN q : q[k] = call_stack[i][k] /\ k \in DOMAIN call_stack[i]
  <2> DEFINE c == call_stack[i]
  <2>1. c \in Seq(Frames) /\ c # <<>> /\ f = Last(c) /\ q = Front(c)
    BY <1>1, <1>2
  <2> HIDE DEF c
  <2>2. /\ q \in Seq(Frames) /\ f \in Frames /\ c = Append(q, f)
        /\ Len(c) \in Nat \ {0} /\ Len(q) = Len(c) - 1 /\ DOMAIN c = 1 .. Len(c)
        /\ DOMAIN q = 1 .. Len(c) - 1 /\ f = c[Len(c)] /\ \A k \in 1 .. Len(c) - 1 : q[k] = c[k]
    BY ONLY <2>1, Popped
  <2>3. /\ Len(q) \in Nat /\ DOMAIN q = 1 .. Len(q) /\ f = c[Len(q) + 1] /\ Len(q) + 1 \in DOMAIN c
        /\ \A k \in DOMAIN q : q[k] = c[k] /\ k \in DOMAIN c
    BY ONLY <2>2
  <2> QED
    BY <2>2, <2>3 DEF c
<1>4. /\ InCode(method[f], saved_ip[f]) /\ method[f] \in Methods /\ saved_ip[f] \in Nat
      /\ \A k \in DOMAIN q : InCode(method[q[k]], saved_ip[q[k]]) /\ (jit_called[q[k]] => k = 1)
      /\ jit_called[f] => q = <<>>
  <2>1. \A k \in DOMAIN call_stack[i] :
          /\ InCode(method[call_stack[i][k]], saved_ip[call_stack[i][k]])
          /\ jit_called[call_stack[i][k]] => k = 1
    BY <1>2 DEF Sound
  <2>2. InCode(method[f], saved_ip[f]) /\ (jit_called[f] => Len(q) + 1 = 1)
    BY <1>3, <2>1
  <2>3. jit_called[f] => q = <<>>
    <3>1. jit_called[f] => Len(q) = 0
      BY <1>3, <2>2
    <3> QED
      BY <1>3, <3>1
  <2> QED
    BY <1>3, <2>1, <2>2, <2>3 DEF InCode
<1>5. /\ frame' = [frame EXCEPT ![i] = f] /\ call_stack' = [call_stack EXCEPT ![i] = q]
      /\ instrs' = [instrs EXCEPT ![i] = method[f]] /\ ip' = [ip EXCEPT ![i] = saved_ip[f]]
      /\ IF jit_called[f]
         THEN at' = [at EXCEPT ![i] = "leave"] /\ ReleaseStackFrame(f)
         ELSE /\ at' = [at EXCEPT ![i] = "run"]
              /\ UNCHANGED <<cached_frames, free_frames, stored, method, jit_called>>
  BY <1>1 DEF Resume
<1>6. /\ frame'[i] = f /\ call_stack'[i] = q /\ instrs'[i] = method[f] /\ ip'[i] = saved_ip[f]
      /\ at'[i] = IF jit_called[f] THEN "leave" ELSE "run"
      /\ \A j \in Interps \ {i} :
           /\ at'[j] = at[j] /\ call_stack'[j] = call_stack[j] /\ frame'[j] = frame[j]
           /\ instrs'[j] = instrs[j] /\ ip'[j] = ip[j]
  BY <1>5 DEF Safe, InterpTypes
<1>7. InterpTypes'
  <2>1. call_stack' \in [Interps -> Seq(Frames)] /\ frame' \in [Interps -> Frames \cup {None}]
    BY <1>3, <1>5 DEF Safe, InterpTypes
  <2>2. \A j \in Interps : Len(call_stack'[j]) <= CALL_STACK_SIZE
    BY <1>3, <1>6, SizeAssumption DEF Safe, InterpTypes
  <2>3. instrs' \in [Interps -> Methods \cup {None}] /\ ip' \in [Interps -> Nat]
    BY <1>4, <1>5 DEF Safe, InterpTypes
  <2>4. at' \in [Interps -> Places]
    BY <1>5 DEF Safe, InterpTypes, Places
  <2> QED
    BY <2>1, <2>2, <2>3, <2>4 DEF Safe, InterpTypes
<1>8. f \in ToSet(Held(i))
  BY <1>2, <1>3 DEF ToSet
<1>9. CASE jit_called[f]
  <2>1. at'[i] = "leave" /\ ReleaseStackFrame(f) /\ q = <<>>
    BY <1>4, <1>5, <1>6, <1>9
  <2>2. FrameTypes'
    BY <1>3, <2>1, FrameTypesReleased
  <2>3. \A j \in Interps \ {i} : Sound(j)' /\ Held(j)' = Held(j)
    BY <1>6, <1>8, <2>1, OthersAside
  <2>4. Held(i)' = <<>>
    BY <2>1 DEF Held
  <2>5. Sound(i)'
    <3>1. DOMAIN Held(i)' = {} /\ DOMAIN call_stack'[i] = {}
      BY <1>6, <2>1, <2>4, EmptyStack
    <3> QED
      BY <1>6, <2>1, <3>1 DEF Sound
  <2>6. Held(i) = Append(Held(i)', f) /\ Held(i)' \in Seq(Frames)
    BY <1>2, <1>3, <2>1, <2>4
  <2>7. FramesConserved' /\ FreeZero'
    BY <1>3, <2>1, <2>3, <2>6, DroppedConserves, TypeParts DEF Safe
  <2> QED
    BY <1>6, <1>7, <2>1, <2>2, <2>3, <2>5, <2>7 DEF Interpreting
<1>10. CASE ~ jit_called[f]
  <2>1. at'[i] = "run" /\ UNCHANGED <<cached_frames, free_frames, stored, method, jit_called>>
    BY <1>5, <1>6, <1>10
  <2>2. FrameTypes'
    BY <2>1 DEF Safe, FrameTypes
  <2>3. \A j \in Interps \ {i} : Sound(j)' /\ Held(j)' = Held(j)
    BY <1>6, <2>1, Aside
  <2>4. Held(i)' = Held(i)
    BY <1>2, <1>3, <1>6, <2>1 DEF Held
  <2>5. Sound(i)'
    <3>1. \A k \in DOMAIN Held(i) : jit_called[Held(i)[k]] => k = 1
      BY <1>2 DEF Sound
    <3> QED
      BY <1>3, <1>4, <1>6, <2>1, <2>4, <3>1 DEF Sound
  <2>6. FramesConserved' /\ FreeZero'
    BY <2>1, <2>3, <2>4, KeptConserves DEF Safe
  <2> QED
    BY <1>6, <1>7, <2>1, <2>2, <2>3, <2>5, <2>6 DEF Interpreting
<1> QED
  BY <1>9, <1>10

LEMMA ReturnSafe ==
  ASSUME Safe, NEW t \in Threads, NEW i \in Interps, Return(t, i), entry' = entry
  PROVE  Safe'
<1> USE DEF Return, Runs
<1>1. OtherTypes'
  BY DEF Safe, OtherTypes
<1>2. CASE call_stack[i] # <<>>
  <2>1. /\ FrameTypes' /\ InterpTypes' /\ Interpreting' /\ FramesConserved' /\ FreeZero'
        /\ at'[i] \in {"run", "leave"} /\ \A j \in Interps \ {i} : at'[j] = at[j]
    BY <1>2, ResumeSafe
  <2>2. Waiting' /\ StacksApart'
    BY <2>1, TopMoves DEF Executes
  <2> QED
    BY <1>1, <2>1, <2>2 DEF Safe
<1>3. CASE call_stack[i] = <<>>
  <2>1. /\ frame' = [frame EXCEPT ![i] = None] /\ at' = [at EXCEPT ![i] = "leave"]
        /\ UNCHANGED <<call_stack, instrs, ip, method, jit_called, cached_frames, free_frames, stored>>
    BY <1>3
  <2>2. FrameTypes'
    BY <2>1 DEF Safe, FrameTypes
  <2>3. InterpTypes'
    BY <2>1 DEF Safe, InterpTypes, Places
  <2>4. at'[i] = "leave" /\ \A j \in Interps \ {i} : at'[j] = at[j] /\ frame'[j] = frame[j]
    BY <2>1 DEF Safe, InterpTypes
  <2>5. \A j \in Interps \ {i} : Sound(j)' /\ Held(j)' = Held(j)
    BY <2>1, <2>4, Aside
  <2>6. Held(i)' = <<>> /\ Held(i) = <<>>
    BY <1>3, <2>4 DEF Held
  <2>7. Sound(i)'
    <3>1. DOMAIN Held(i)' = {} /\ DOMAIN call_stack'[i] = {}
      BY <1>3, <2>1, <2>6, EmptyStack
    <3> QED
      BY <1>3, <2>1, <2>4, <3>1 DEF Sound
  <2>8. FramesConserved' /\ FreeZero'
    BY <2>1, <2>5, <2>6, KeptConserves DEF Safe
  <2>9. Waiting' /\ StacksApart'
    BY <2>4, TopMoves DEF Executes
  <2> QED
    BY <1>1, <2>2, <2>3, <2>5, <2>7, <2>8, <2>9 DEF Safe, Interpreting
<1> QED
  BY <1>2, <1>3

\* The interpreter that was made for a call is gone, and the call is over.
LEMMA DestroySafe ==
  ASSUME Safe, NEW t \in Threads, NEW i \in Interps, Destroy(t, i), entry' = entry
  PROVE  Safe'
<1> DEFINE below == Front(c_stack[t])
           Waits(j) == below # <<>> /\ j = Last(below)
<1>1. PICK d : d = Last(below)
  OBVIOUS
<1>2. /\ ~ exited /\ c_stack[t] # <<>> /\ i = Last(c_stack[t]) /\ at[i] = "leave"
      /\ pda_monitors' = pda_monitors \ {i} /\ c_stack' = [c_stack EXCEPT ![t] = below]
      /\ native' = [a \in Natives |-> IF Waits(a) THEN [native[a] EXCEPT !.ip = @ + 1] ELSE native[a]]
      /\ at' = [j \in Interps |-> IF j = i THEN "off" ELSE IF Waits(j) THEN "run" ELSE at[j]]
      /\ ip' = [j \in Interps |-> IF j = i THEN 1 ELSE IF Waits(j) THEN ip[j] + 1 ELSE ip[j]]
      /\ call_stack' = [call_stack EXCEPT ![i] = <<>>] /\ frame' = [frame EXCEPT ![i] = None]
      /\ instrs' = [instrs EXCEPT ![i] = None] /\ jit_arg' = [jit_arg EXCEPT ![i] = FALSE]
      /\ UNCHANGED <<frameVars, native_code, exited>>
  BY DEF Destroy, Runs
<1>3. below # <<>> =>
        /\ d # i /\ d \in Interps \cup Natives
        /\ d \in Interps => at[d] = "dll"
        /\ d \in Natives => InCode(native[d].method, native[d].ip) /\ NativeInstr(d).op = "MTHD_CALL"
  BY <1>1, <1>2, TopOfStack
<1>4. \A j : Waits(j) <=> below # <<>> /\ j = d
  BY <1>1
<1> HIDE DEF Waits
<1>5. /\ at'[i] = "off" /\ ip'[i] = 1 /\ call_stack'[i] = <<>> /\ frame'[i] = None /\ instrs'[i] = None
      /\ \A j \in Interps \ {i} :
           /\ call_stack'[j] = call_stack[j] /\ frame'[j] = frame[j] /\ instrs'[j] = instrs[j]
           /\ ~ Waits(j) => at'[j] = at[j] /\ ip'[j] = ip[j]
           /\ Waits(j) => at'[j] = "run" /\ ip'[j] = ip[j] + 1
      /\ \A a \in Natives : ~ Waits(a) => native'[a] = native[a]
  BY <1>2 DEF Safe, InterpTypes
\* The instruction after the call.
<1>6. ASSUME NEW a \in Natives, Waits(a)
      PROVE  /\ native'[a] = [native[a] EXCEPT !.ip = @ + 1]
             /\ native'[a].method = native[a].method /\ native'[a].ip = native[a].ip + 1
             /\ InCode(native'[a].method, native'[a].ip)
  <2>1. native[a] \in [method : Methods \cup {None}, ip : Nat]
    BY DEF Safe, OtherTypes
  <2>2. native'[a] = [native[a] EXCEPT !.ip = @ + 1]
    BY <1>2, <1>6
  <2>3. native'[a].method = native[a].method /\ native'[a].ip = native[a].ip + 1
    BY <2>1, <2>2
  <2>4. InCode(native[a].method, native[a].ip) /\ Code[native[a].method][native[a].ip].op = "MTHD_CALL"
    BY <1>3, <1>4, <1>6 DEF NativeInstr
  <2>5. InCode(native[a].method, native[a].ip + 1)
    BY <2>4, Instructions
  <2> QED
    BY <2>2, <2>3, <2>5
<1>7. FrameTypes'
  BY <1>2 DEF Safe, FrameTypes, frameVars
<1>8. InterpTypes'
  <2>1. <<>> \in Seq(Frames) /\ Len(<<>>) = 0
    BY EmptyStack
  <2>2. call_stack' \in [Interps -> Seq(Frames)]
    BY <1>2, <2>1 DEF Safe, InterpTypes
  <2>3. \A j \in Interps : Len(call_stack'[j]) <= CALL_STACK_SIZE
    BY <1>5, <2>1, SizeAssumption DEF Safe, InterpTypes
  <2>4. at' \in [Interps -> Places] /\ ip' \in [Interps -> Nat]
    BY <1>2 DEF Safe, InterpTypes, Places
  <2>5. frame' \in [Interps -> Frames \cup {None}] /\ instrs' \in [Interps -> Methods \cup {None}]
        /\ jit_arg' \in [Interps -> BOOLEAN]
    BY <1>2 DEF Safe, InterpTypes
  <2> QED
    BY <2>2, <2>3, <2>4, <2>5 DEF InterpTypes
<1>9. OtherTypes'
  <2>1. below \in Seq(Interps \cup Natives)
    <3>1. c_stack[t] \in Seq(Interps \cup Natives)
      BY DEF Safe, OtherTypes
    <3> QED
      BY <1>2, <3>1, Popped
  <2>2. c_stack' \in [Threads -> Seq(Interps \cup Natives)]
    BY <1>2, <2>1 DEF Safe, OtherTypes
  <2>3. native' \in [Natives -> [method : Methods \cup {None}, ip : Nat]]
    <3>1. native \in [Natives -> [method : Methods \cup {None}, ip : Nat]]
      BY DEF Safe, OtherTypes
    <3>2. \A a \in Natives : [native[a] EXCEPT !.ip = @ + 1] \in [method : Methods \cup {None}, ip : Nat]
      BY <3>1
    <3> QED
      BY <1>2, <3>1, <3>2
  <2> QED
    BY <1>2, <2>2, <2>3 DEF Safe, OtherTypes
<1>10. Held(i)' = <<>> /\ Held(i) = <<>>
  BY <1>2, <1>5 DEF Held
<1>11. Sound(i)'
  <2>1. DOMAIN Held(i)' = {} /\ DOMAIN call_stack'[i] = {}
    BY <1>5, <1>10, EmptyStack
  <2> QED
    BY <1>5, <2>1 DEF Sound
<1>12. ASSUME NEW j \in Interps \ {i} PROVE Sound(j)' /\ Held(j)' = Held(j)
  <2>1. CASE ~ Waits(j)
    BY <1>2, <1>5, <2>1, Aside DEF frameVars
  <2>2. CASE Waits(j)
    <3>1. at[j] = "dll" /\ at'[j] = "run" /\ ip'[j] = ip[j] + 1 /\ Sound(j)
      BY <1>3, <1>4, <1>5, <2>2 DEF Safe, Interpreting
    <3>2. Held(j)' = Held(j)
      BY <1>5, <3>1 DEF Held
    <3>3. InCode(instrs[j], ip[j]) /\ Code[instrs[j]][ip[j]].op = "DLL_FUNC_CALL"
      BY <3>1 DEF Sound, Instr
    <3>4. InCode(instrs[j], ip[j] + 1)
      BY <3>3, Instructions
    <3>5. Sound(j)'
      BY <1>2, <1>5, <3>1, <3>2, <3>4 DEF Sound, frameVars
    <3> QED
      BY <3>2, <3>5
  <2> QED
    BY <2>1, <2>2
<1>13. FramesConserved' /\ FreeZero'
  BY <1>2, <1>10, <1>12, KeptConserves DEF Safe, frameVars
<1>14. Waiting' /\ StacksApart'
  <2>1. below # <<>> => /\ d \in Interps => at'[d] \in Executes
                        /\ d \in Natives => InCode(native'[d].method, native'[d].ip)
    BY <1>3, <1>4, <1>5, <1>6 DEF Executes
  <2>2. Shrinks(t, i, d)
    BY <1>1, <1>2, <1>4, <1>5, <2>1 DEF Shrinks
  <2>3. TypeOK /\ StacksApart /\ Waiting
    BY TypeParts DEF Safe
  <2> HIDE DEF below
  <2> QED
    BY <2>2, <2>3, StackShrinks
<1> QED
  BY <1>7, <1>8, <1>9, <1>11, <1>12, <1>13, <1>14 DEF Safe, Interpreting

LEMMA NativeStepSafe ==
  ASSUME Safe, NEW t \in Threads, NEW a \in Natives, NativeStep(t, a), entry' = entry
  PROVE  Safe'
<1> USE DEF NativeStep, RunsNative
<1>1. InCode(native[a].method, native[a].ip)
  BY TopOfStack
<1>2. PICK n \in {native[a].ip + 1} \cup (IF NativeInstr(a).op = "JMP" THEN {NativeInstr(a).to} ELSE {}) :
        native' = [native EXCEPT ![a].ip = n]
  OBVIOUS
<1>3. InCode(native[a].method, n) /\ n \in Nat
  <2>1. Code[native[a].method][native[a].ip].op \in {"STOR", "JMP"}
    BY DEF NativeInstr
  <2>2. /\ InCode(native[a].method, native[a].ip + 1)
        /\ Code[native[a].method][native[a].ip].op = "JMP" =>
             InCode(native[a].method, Code[native[a].method][native[a].ip].to)
    BY <1>1, <2>1, Instructions
  <2>3. InCode(native[a].method, n)
    BY <1>2, <2>2 DEF NativeInstr
  <2> QED
    BY <2>3 DEF InCode
<1>4. /\ native \in [Natives -> [method : Methods \cup {None}, ip : Nat]]
      /\ native' \in [Natives -> [method : Methods \cup {None}, ip : Nat]]
      /\ native'[a].method = native[a].method /\ native'[a].ip = n
      /\ \A b \in Natives \ {a} : native'[b] = native[b]
  BY <1>2, <1>3 DEF Safe, OtherTypes
<1>5. FrameTypes' /\ InterpTypes' /\ OtherTypes'
  BY <1>4 DEF Safe, FrameTypes, InterpTypes, OtherTypes, frameVars, interpVars
<1>6. \A j \in Interps : Sound(j)' /\ Held(j)' = Held(j)
  BY Aside DEF frameVars, interpVars
<1>7. FramesConserved' /\ FreeZero'
  BY <1>6, KeptConserves DEF Safe, frameVars
<1>8. Waiting' /\ StacksApart'
  <2>1. a \notin Interps
    BY NameAssumption
  <2>2. Stays(t, a)
    BY <1>3, <1>4, <2>1 DEF Stays, interpVars
  <2>3. TypeOK /\ StacksApart /\ Waiting
    BY TypeParts DEF Safe
  <2> QED
    BY <2>2, <2>3, StackStays
<1> QED
  BY <1>5, <1>6, <1>7, <1>8 DEF Safe, Interpreting

\* What changes no variable of the stacks and frames keeps the invariant.
LEMMA UnchangedSafe ==
  ASSUME Safe, UNCHANGED <<entry, frameVars, interpVars, native, c_stack, pda_monitors, native_code>>,
         exited' \in BOOLEAN
  PROVE  Safe'
<1> USE DEF frameVars, interpVars
<1>1. FrameTypes' /\ InterpTypes' /\ OtherTypes'
  BY DEF Safe, FrameTypes, InterpTypes, OtherTypes
<1>2. \A j \in Interps : Sound(j)' /\ Held(j)' = Held(j)
  BY Aside
<1>3. FramesConserved' /\ FreeZero'
  BY <1>2, KeptConserves DEF Safe
<1>4. \A a \in Natives : NativeInstr(a)' = NativeInstr(a)
  BY DEF NativeInstr
<1>5. StacksApart' /\ Waiting'
  BY <1>4 DEF Safe, StacksApart, Waiting
<1> QED
  BY <1>1, <1>2, <1>3, <1>5 DEF Safe, Interpreting

LEMMA NativeReturnSafe ==
  ASSUME Safe, NEW t \in Threads, NEW a \in Natives, NativeReturn(t, a), entry' = entry
  PROVE  Safe'
<1> USE DEF RunsNative
<1>1. PICK i : i = Last(Front(c_stack[t]))
  OBVIOUS
<1>2. /\ c_stack[t] # <<>> /\ a = Last(c_stack[t]) /\ Resume(i)
      /\ c_stack' = [c_stack EXCEPT ![t] = Front(@)]
      /\ native' = [native EXCEPT ![a] = [method |-> None, ip |-> 1]]
      /\ UNCHANGED <<saved_ip, jit_arg, pda_monitors, native_code, exited>>
  BY <1>1 DEF NativeReturn
<1>3. i \in Interps /\ at[i] = "native" /\ Front(c_stack[t]) # <<>>
  BY <1>1, <1>2, TopOfStack
<1>4. call_stack[i] # <<>>
  BY <1>3 DEF Safe, Interpreting, Sound
<1>5. /\ FrameTypes' /\ InterpTypes' /\ Interpreting' /\ FramesConserved' /\ FreeZero'
      /\ at'[i] \in {"run", "leave"} /\ \A j \in Interps \ {i} : at'[j] = at[j]
  BY <1>2, <1>3, <1>4, ResumeSafe
<1>6. OtherTypes'
  <2>1. c_stack[t] \in Seq(Interps \cup Natives)
    BY DEF Safe, OtherTypes
  <2>2. Front(c_stack[t]) \in Seq(Interps \cup Natives)
    BY <1>2, <2>1, Popped
  <2>3. c_stack' \in [Threads -> Seq(Interps \cup Natives)]
    BY <1>2, <2>2 DEF Safe, OtherTypes
  <2>4. native' \in [Natives -> [method : Methods \cup {None}, ip : Nat]]
    BY <1>2 DEF Safe, OtherTypes
  <2> QED
    BY <1>2, <2>3, <2>4 DEF Safe, OtherTypes
<1>7. Waiting' /\ StacksApart'
  <2>1. i \notin Natives
    BY <1>3, NameAssumption
  <2>2. \A b \in Natives \ {a} : native'[b] = native[b]
    BY <1>2 DEF Safe, OtherTypes
  <2>3. Shrinks(t, a, i)
    BY <1>1, <1>2, <1>3, <1>5, <2>1, <2>2 DEF Shrinks, Executes
  <2>4. TypeOK /\ StacksApart /\ Waiting
    BY TypeParts DEF Safe
  <2> QED
    BY <2>3, <2>4, StackShrinks
<1> QED
  BY <1>5, <1>6, <1>7 DEF Safe

(***************************************************************************)
(* The theorems.                                                           *)
(***************************************************************************)
\* Initialize fills the cache; no interpreter is made.
LEMMA InitSafe ==
  ASSUME Init
  PROVE  Safe
<1> USE DEF Init
<1>1. PICK s \in [1 .. CACHED -> Frames] : IsInjective(s) /\ cached_frames = s
  BY SizeAssumption
<1>2. cached_frames \in Seq(Frames) /\ IsInjective(cached_frames) /\ ToSet(cached_frames) \subseteq Frames
  <2>1. s \in Seq(Frames)
    BY SizeAssumption
  <2> QED
    BY <1>1, <2>1 DEF ToSet
<1>3. <<>> \in Seq(Frames) /\ <<>> \in Seq(Interps \cup Natives) /\ Len(<<>>) = 0 /\ DOMAIN <<>> = {}
      /\ ToSet(<<>>) = {} /\ IsInjective(<<>>)
  BY EmptyStack
<1>4. FrameTypes
  BY <1>2 DEF FrameTypes
<1>5. InterpTypes
  BY <1>3, SizeAssumption DEF InterpTypes, Places
<1>6. OtherTypes
  BY <1>3 DEF OtherTypes
<1>7. \A i \in Interps : Held(i) = <<>>
  BY DEF Held
<1>8. Interpreting
  BY <1>3, <1>7 DEF Interpreting, Sound
<1>9. StacksApart /\ Waiting
  BY <1>3 DEF StacksApart, Waiting
<1>10. FramesConserved /\ FreeZero
  BY <1>2, <1>3, <1>7 DEF FramesConserved, FreeZero
<1> QED
  BY <1>4, <1>5, <1>6, <1>8, <1>9, <1>10 DEF Safe

LEMMA NextSafe ==
  ASSUME Safe, [Next]_vars
  PROVE  Safe'
<1>1. ASSUME NEW t \in Threads, NEW i \in Interps, InterpStep(t, i), entry' = entry
      PROVE  Safe'
  <2>1. CASE Start(t, i)
    BY <1>1, <2>1, StartSafe
  <2>2. CASE Execute(t, i)
    BY <1>1, <2>2, ExecuteSafe
  <2>3. CASE Store(t, i)
    BY <1>1, <2>3, StoreSafe
  <2>4. CASE Jump(t, i)
    BY <1>1, <2>4, JumpSafe
  <2>5. CASE CallMethod(t, i)
    BY <1>1, <2>5, CallMethodSafe
  <2>6. CASE Compile(t, i)
    BY <1>1, <2>6, CompileSafe
  <2>7. CASE ProcessInterpretedMethodCall(t, i)
    BY <1>1, <2>7, ProcessInterpretedMethodCallSafe
  <2>8. CASE \E a \in Natives : ExecuteMachineCode(t, i, a)
    BY <1>1, <2>8, ExecuteMachineCodeSafe
  <2>9. CASE \E j \in Interps : CallBack(t, i, j)
    BY <1>1, <2>9, CallBackSafe
  <2>10. CASE ReleaseReturning(t, i)
    BY <1>1, <2>10, ReleaseReturningSafe
  <2>11. CASE Return(t, i)
    BY <1>1, <2>11, ReturnSafe
  <2>12. CASE Destroy(t, i)
    BY <1>1, <2>12, DestroySafe
  <2> QED
    BY <1>1, <2>1, <2>2, <2>3, <2>4, <2>5, <2>6, <2>7, <2>8, <2>9, <2>10, <2>11, <2>12 DEF InterpStep
<1>2. ASSUME NEW t \in Threads, NEW a \in Natives, NativeStepOf(t, a), entry' = entry
      PROVE  Safe'
  <2>1. CASE NativeStep(t, a)
    BY <1>2, <2>1, NativeStepSafe
  <2>2. CASE \E i \in Interps : StackCallback(t, a, i)
    BY <1>2, <2>2, StackCallbackSafe
  <2>3. CASE NativeReturn(t, a)
    BY <1>2, <2>3, NativeReturnSafe
  <2>4. CASE NativeError(t, a)
    BY <1>2, <2>4, UnchangedSafe DEF NativeError
  <2> QED
    BY <1>2, <2>1, <2>2, <2>3, <2>4 DEF NativeStepOf
<1>3. CASE UNCHANGED vars
  BY <1>3, UnchangedSafe DEF vars, Safe, OtherTypes
<1> QED
  BY <1>1, <1>2, <1>3 DEF Next

THEOREM AlwaysSafe == Spec => []Safe
<1>1. Init => Safe
  BY InitSafe
<1>2. Safe /\ [Next]_vars => Safe'
  BY NextSafe
<1> QED
  BY <1>1, <1>2, PTL DEF Spec

\* A call stack holds at most CALL_STACK_SIZE frames, and every variable has its
\* type: PushFrame ends the program before it writes past the array, nobody pops
\* an empty stack, and an instruction pointer a frame has saved is of its method.
THEOREM CallTypes == Spec => []TypeOK
<1>1. Safe => TypeOK
  BY TypeParts DEF Safe
<1> QED
  BY <1>1, AlwaysSafe, PTL

\* However calls between interpreted code, native code and C functions nest, and
\* whichever threads make them, a frame of the shared cache is in one place: no
\* return or callback releases one twice, loses one, or leaves the low variables
\* of a cached frame set.
THEOREM FramesAreConserved == Spec => []FramesConserved
<1>1. Safe => FramesConserved
  BY DEF Safe
<1> QED
  BY <1>1, AlwaysSafe, PTL

\* When a thread can ask for a collection, the monitors of the interpreters on its
\* C stack are registered, and what CheckPdaRoots reads through each is what the
\* interpreter holds: no frame in use is missed, and none that was given back is
\* scanned.
THEOREM ScanFindsFrames == Spec => []ScanIsExact
<1>1. ASSUME Safe PROVE ScanIsExact
  <2> SUFFICES ASSUME NEW t \in Threads, MayCollect(t), NEW i \in ToSet(c_stack[t]) \cap Interps
               PROVE  i \in pda_monitors /\ Scanned(i) = ToSet(Held(i))
    BY DEF ScanIsExact
  <2>1. c_stack[t] \in Seq(Interps \cup Natives) /\ c_stack[t] # <<>>
    BY <1>1 DEF Safe, OtherTypes, MayCollect
  <2> DEFINE n == Len(c_stack[t])
  <2>2. n \in Nat \ {0} /\ DOMAIN c_stack[t] = 1 .. n /\ Last(c_stack[t]) = c_stack[t][n]
    BY <2>1, Popped
  <2>3. PICK k \in DOMAIN c_stack[t] : c_stack[t][k] = i
    BY DEF ToSet
  <2>4. /\ i \in pda_monitors
        /\ k = n => at[i] = "run"
        /\ k # n => at[i] \in {"native", "dll"}
    <3>1. i \in pda_monitors
      BY <1>1, <2>3 DEF Safe, Waiting
    <3>2. k = n => at[i] = "run"
      BY <2>2, <2>3, NameAssumption DEF MayCollect
    <3>3. k # n => at[i] \in IF c_stack[t][k + 1] \in Natives THEN {"native"} ELSE {"dll"}
      BY <1>1, <2>3 DEF Safe, Waiting
    <3> QED
      BY <3>1, <3>2, <3>3
  <2>5. Sound(i) /\ call_stack[i] \in Seq(Frames)
    BY <1>1 DEF Safe, Interpreting, InterpTypes
  <2>6. CASE at[i] \in {"run", "dll"}
    <3>1. frame[i] \in Frames /\ Held(i) = Append(call_stack[i], frame[i])
      BY <2>5, <2>6 DEF Sound, Held
    <3>2. ToSet(Append(call_stack[i], frame[i])) = ToSet(call_stack[i]) \cup {frame[i]}
      BY <2>5, <3>1, Pushed
    <3> QED
      BY <2>4, <3>1, <3>2 DEF Scanned
  <2>7. CASE at[i] = "native"
    <3>1. Held(i) = call_stack[i] /\ call_stack[i] # <<>> /\ frame[i] = Last(call_stack[i])
      BY <2>5, <2>7 DEF Sound, Held
    <3>2. Last(call_stack[i]) = call_stack[i][Len(call_stack[i])] /\ Len(call_stack[i]) \in DOMAIN call_stack[i]
      <4> DEFINE c == call_stack[i]
      <4>1. c \in Seq(Frames) /\ c # <<>>
        BY <2>5, <3>1
      <4> HIDE DEF c
      <4>2. Last(c) = c[Len(c)] /\ Len(c) \in Nat \ {0} /\ DOMAIN c = 1 .. Len(c)
        BY ONLY <4>1, Popped
      <4> QED
        BY <4>2 DEF c
    <3>3. frame[i] \in ToSet(call_stack[i])
      BY <3>1, <3>2 DEF ToSet
    <3> QED
      BY <2>4, <3>1, <3>3 DEF Scanned
  <2> QED
    BY <2>4, <2>6, <2>7
<1> QED
  BY <1>1, AlwaysSafe, PTL

-----------------------------------------------------------------------------
(***************************************************************************)
(* The activations of a thread, from the outermost entry of its C stack on. *)
(***************************************************************************)
Activations == [method : Methods \cup {None}, ip : Int]

\* The activations of the first k entries.
Upto(t, k) == FlattenSeq([n \in 1 .. k |-> Part(t, n)])

Stack == [t \in Threads |-> FlattenSeq([n \in 1 .. Len(c_stack[t]) |-> Part(t, n)])]

\* Those of an interpreter, as functions of what they are read from.
CallersIn(q, m, s) == [k \in 1 .. Len(q) |-> Activation(m[q[k]], s[q[k]] - 1)]
VisibleIn(jit, q, m, s) == IF jit /\ q # <<>> THEN Tail(CallersIn(q, m, s)) ELSE CallersIn(q, m, s)

LEMMA VisibleIs ==
  \A i \in Interps : Visible(i) = VisibleIn(jit_arg[i], call_stack[i], method, saved_ip)
BY DEF Visible, VisibleIn, Callers, CallersIn

LEMMA VisibleType ==
  ASSUME NEW jit, NEW q, q \in Seq(Frames), NEW m, m \in [Frames -> Methods \cup {None}],
         NEW s, s \in [Frames -> Nat]
  PROVE  /\ CallersIn(q, m, s) \in Seq(Activations) /\ Len(CallersIn(q, m, s)) = Len(q)
         /\ VisibleIn(jit, q, m, s) \in Seq(Activations)
<1> DEFINE c == CallersIn(q, m, s)
<1>1. Len(q) \in Nat /\ \A k \in 1 .. Len(q) : q[k] \in Frames
  OBVIOUS
<1>2. \A k \in 1 .. Len(q) : Activation(m[q[k]], s[q[k]] - 1) \in Activations
  BY <1>1 DEF Activation, Activations
<1>3. c \in Seq(Activations) /\ Len(c) = Len(q)
  BY <1>1, <1>2 DEF CallersIn
<1>4. q # <<>> => Tail(c) \in Seq(Activations)
  <2> SUFFICES ASSUME q # <<>> PROVE Tail(c) \in Seq(Activations)
    OBVIOUS
  <2>1. Len(q) # 0
    BY <1>1
  <2> HIDE DEF c
  <2>2. c # <<>>
    BY <1>3, <2>1
  <2> QED
    BY ONLY <1>3, <2>2, HeadTailProperties
<1> QED
  BY <1>3, <1>4 DEF VisibleIn

\* A frame on top of q adds the activation it says.  The lowest one an interpreter
\* made by native code has is not seen.
Deepens(q, f, jit, m, m2, s, s2) ==
  /\ jit /\ q = <<>> => VisibleIn(jit, Append(q, f), m2, s2) = <<>>
  /\ ~ (jit /\ q = <<>>) =>
       VisibleIn(jit, Append(q, f), m2, s2) = Append(VisibleIn(jit, q, m, s), Activation(m2[f], s2[f] - 1))

LEMMA Deeper ==
  ASSUME NEW q, q \in Seq(Frames), NEW f, f \in Frames, NEW jit,
         NEW m, m \in [Frames -> Methods \cup {None}], NEW m2, m2 \in [Frames -> Methods \cup {None}],
         NEW s, s \in [Frames -> Nat], NEW s2, s2 \in [Frames -> Nat],
         \A k \in DOMAIN q : m2[q[k]] = m[q[k]] /\ s2[q[k]] = s[q[k]]
  PROVE  Deepens(q, f, jit, m, m2, s, s2)
<1> DEFINE a == Activation(m2[f], s2[f] - 1)
           r == Append(q, f)
           c == CallersIn(q, m, s)
           d == CallersIn(r, m2, s2)
<1>1. /\ r \in Seq(Frames) /\ Len(r) = Len(q) + 1 /\ Len(q) \in Nat /\ DOMAIN q = 1 .. Len(q)
      /\ \A k \in 1 .. Len(q) : r[k] = q[k]
      /\ r[Len(q) + 1] = f
  OBVIOUS
<1> HIDE DEF r
<1>2. c \in Seq(Activations) /\ Len(c) = Len(q)
  BY VisibleType
<1>3. d \in Seq(Activations) /\ Len(d) = Len(q) + 1
  BY <1>1, VisibleType
<1>4. a \in Activations
  BY DEF Activation, Activations
<1>5. ASSUME NEW k \in 1 .. Len(q) PROVE d[k] = c[k]
  <2>0. k \in DOMAIN q
    BY <1>1
  <2>1. r[k] = q[k] /\ m2[q[k]] = m[q[k]] /\ s2[q[k]] = s[q[k]] /\ k \in 1 .. Len(q) + 1
    <3>1. m2[q[k]] = m[q[k]] /\ s2[q[k]] = s[q[k]]
      BY <2>0
    <3> QED
      BY <1>1, <3>1
  <2>2. d[k] = Activation(m2[r[k]], s2[r[k]] - 1)
    BY <1>1, <2>1 DEF CallersIn
  <2>3. c[k] = Activation(m[q[k]], s[q[k]] - 1)
    BY DEF CallersIn
  <2> QED
    BY <2>1, <2>2, <2>3
<1>6. d[Len(q) + 1] = a
  BY <1>1 DEF CallersIn
<1>7. d = Append(c, a)
  <2> HIDE DEF a, c, d
  <2>1. /\ Append(c, a) \in Seq(Activations) /\ Len(Append(c, a)) = Len(q) + 1
        /\ \A k \in 1 .. Len(q) : Append(c, a)[k] = c[k]
        /\ Append(c, a)[Len(q) + 1] = a
    <3>1. /\ Append(c, a) \in Seq(Activations) /\ Len(Append(c, a)) = Len(c) + 1 /\ DOMAIN c = 1 .. Len(c)
          /\ \A k \in DOMAIN c : Append(c, a)[k] = c[k]
          /\ Append(c, a)[Len(c) + 1] = a
      BY ONLY <1>2, <1>4, Pushed
    <3> QED
      BY ONLY <1>2, <3>1
  <2>2. \A k \in 1 .. Len(d) : d[k] = Append(c, a)[k]
    BY <1>1, <1>3, <1>5, <1>6, <2>1, SMTT(30)
  <2>3. Len(d) = Len(Append(c, a))
    BY <1>3, <2>1
  <2> QED
    BY <1>3, <2>1, <2>2, <2>3, SeqEqual
<1>8. r # <<>>
  BY <1>1, EmptyStack
<1>9. c = <<>> <=> q = <<>>
  <2> HIDE DEF c
  <2>1. c = <<>> <=> Len(c) = 0
    BY <1>2
  <2>2. q = <<>> <=> Len(q) = 0
    OBVIOUS
  <2> QED
    BY <1>2, <2>1, <2>2
<1>10. Tail(d) = IF c = <<>> THEN <<>> ELSE Append(Tail(c), a)
  <2> HIDE DEF a, c, d
  <2>1. Tail(Append(c, a)) = IF c = <<>> THEN <<>> ELSE Append(Tail(c), a)
    BY ONLY <1>2, HeadTailAppend
  <2> QED
    BY <1>7, <2>1
<1> HIDE DEF a, c, d
<1> QED
  BY <1>7, <1>8, <1>9, <1>10 DEF VisibleIn, a, c, d, r, Deepens

(***************************************************************************)
(* What an entry of a C stack shows.                                       *)
(***************************************************************************)
\* Interpreter i shows the activation it executes, on top of those it has called
\* from; not where native code called from, which shows it itself.
Shows(i) == ~ (at[i] = "leave" \/ (jit_arg[i] /\ call_stack[i] = <<>> /\ at[i] \in {"new", "run"}))
Place(t, n, k) == IF Over(t, n) THEN k + 1 ELSE k

Forms ==
  \A t \in Threads : \A n \in DOMAIN c_stack[t] :
    /\ c_stack[t][n] \in Natives =>
         Part(t, n) = <<Activation(native[c_stack[t][n]].method, Place(t, n, native[c_stack[t][n]].ip))>>
    /\ c_stack[t][n] \in Interps =>
         /\ ~ Shows(c_stack[t][n]) => Part(t, n) = <<>>
         /\ Shows(c_stack[t][n]) /\ at[c_stack[t][n]] = "native" => Part(t, n) = Visible(c_stack[t][n])
         /\ Shows(c_stack[t][n]) /\ at[c_stack[t][n]] # "native" =>
              Part(t, n) = Append(Visible(c_stack[t][n]),
                                  Activation(instrs[c_stack[t][n]], Place(t, n, ip[c_stack[t][n]])))

Typed ==
  /\ \A i \in Interps : Visible(i) \in Seq(Activations)
  /\ \A t \in Threads : \A n \in DOMAIN c_stack[t] : Part(t, n) \in Seq(Activations)

LEMMA FormsHold == Safe => Forms /\ Typed
<1> SUFFICES ASSUME Safe PROVE Forms /\ Typed
  OBVIOUS
<1>1. ASSUME NEW i \in Interps PROVE Visible(i) \in Seq(Activations)
  <2>1. call_stack[i] \in Seq(Frames) /\ method \in [Frames -> Methods \cup {None}] /\ saved_ip \in [Frames -> Nat]
    BY DEF Safe, InterpTypes, FrameTypes
  <2>2. VisibleIn(jit_arg[i], call_stack[i], method, saved_ip) \in Seq(Activations)
    BY <2>1, VisibleType
  <2> QED
    BY <2>2, VisibleIs
<1>2. ASSUME NEW t \in Threads, NEW n \in DOMAIN c_stack[t], NEW e, e = c_stack[t][n]
      PROVE  /\ e \in Natives => Part(t, n) = <<Activation(native[e].method, Place(t, n, native[e].ip))>>
             /\ e \in Interps =>
                  /\ ~ Shows(e) => Part(t, n) = <<>>
                  /\ Shows(e) /\ at[e] = "native" => Part(t, n) = Visible(e)
                  /\ Shows(e) /\ at[e] # "native" =>
                       Part(t, n) = Append(Visible(e), Activation(instrs[e], Place(t, n, ip[e])))
             /\ Part(t, n) \in Seq(Activations)
  <2>1. e \in Interps \cup Natives /\ n \in Nat
    BY <1>2 DEF Safe, OtherTypes
  <2>2. CASE e \in Natives
    <3>1. Part(t, n) = <<Activation(native[e].method, Place(t, n, native[e].ip))>>
      BY <1>2, <2>2 DEF Part, Place
    <3>2. native[e].method \in Methods \cup {None} /\ native[e].ip \in Nat
      BY <2>2 DEF Safe, OtherTypes
    <3>3. Place(t, n, native[e].ip) \in Int
      BY <3>2 DEF Place
    <3>4. Activation(native[e].method, Place(t, n, native[e].ip)) \in Activations
      BY <3>2, <3>3 DEF Activation, Activations
    <3>5. e \notin Interps
      BY <2>2, NameAssumption
    <3> QED
      BY <3>1, <3>4, <3>5
  <2>3. CASE e \in Interps
    <3>1. e \notin Natives /\ Visible(e) \in Seq(Activations)
      BY <1>1, <2>3, NameAssumption
    <3>2. instrs[e] \in Methods \cup {None} /\ ip[e] \in Nat
      BY <2>3 DEF Safe, InterpTypes
    <3>3. Place(t, n, ip[e]) \in Int
      BY <3>2 DEF Place
    <3> DEFINE a == Activation(instrs[e], Place(t, n, ip[e]))
    <3>4. a \in Activations
      BY <3>2, <3>3 DEF Activation, Activations
    <3>5. CASE ~ Shows(e)
      <4>1. Part(t, n) = <<>>
        BY <1>2, <3>1, <3>5 DEF Part, Shows
      <4> QED
        BY <3>1, <3>5, <4>1, EmptyStack
    <3>6. CASE Shows(e)
      <4>1. Part(t, n) = Visible(e) \o (IF at[e] = "native" THEN <<>> ELSE <<a>>)
        BY <1>2, <3>1, <3>6 DEF Part, Shows, Place
      <4> HIDE DEF a
      <4>2. Visible(e) \o <<>> = Visible(e)
        BY ONLY <3>1, ConcatEmptySeq
      <4>3. Append(Visible(e), a) = Visible(e) \o <<a>> /\ Append(Visible(e), a) \in Seq(Activations)
        BY ONLY <3>1, <3>4, AppendIsConcat, AppendProperties
      <4> QED
        BY <3>1, <3>6, <4>1, <4>2, <4>3 DEF a
    <3> QED
      BY <3>5, <3>6
  <2> QED
    BY <2>1, <2>2, <2>3
<1> QED
  BY <1>1, <1>2 DEF Forms, Typed

LEMMA FormsHoldNext == Safe' => Forms' /\ Typed'
BY FormsHold, PTL

\* One entry after the other.
Stacked ==
  \A t \in Threads :
    /\ Upto(t, 0) = <<>> /\ Stack[t] = Upto(t, Len(c_stack[t])) /\ Len(c_stack[t]) \in Nat
    /\ \A k \in 0 .. Len(c_stack[t]) : Upto(t, k) \in Seq(Activations)
    /\ \A k \in 1 .. Len(c_stack[t]) : Upto(t, k) = Upto(t, k - 1) \o Part(t, k)

LEMMA StackedHolds == Safe => Stacked
<1> SUFFICES ASSUME Safe, NEW t \in Threads
             PROVE  /\ Upto(t, 0) = <<>> /\ Stack[t] = Upto(t, Len(c_stack[t])) /\ Len(c_stack[t]) \in Nat
                    /\ \A k \in 0 .. Len(c_stack[t]) : Upto(t, k) \in Seq(Activations)
                    /\ \A k \in 1 .. Len(c_stack[t]) : Upto(t, k) = Upto(t, k - 1) \o Part(t, k)
  BY DEF Stacked
<1> DEFINE L == Len(c_stack[t])
           P(k) == [n \in 1 .. k |-> Part(t, n)]
<1>1. L \in Nat /\ DOMAIN c_stack[t] = 1 .. L
  BY DEF Safe, OtherTypes
<1>2. \A n \in 1 .. L : Part(t, n) \in Seq(Activations)
  BY <1>1, FormsHold DEF Typed
<1> HIDE DEF L
<1>3. ASSUME NEW k \in 0 .. L
      PROVE  P(k) \in Seq(Seq(Activations)) /\ Len(P(k)) = k /\ \A n \in 1 .. k : P(k)[n] = Part(t, n)
  <2>1. k \in Nat /\ \A n \in 1 .. k : Part(t, n) \in Seq(Activations)
    BY <1>1, <1>2
  <2> QED
    BY <2>1
<1>4. ASSUME NEW k \in 1 .. L PROVE P(k) = Append(P(k - 1), Part(t, k))
  <2> DEFINE p == Part(t, k)
             q == P(k - 1)
             r == P(k)
  <2>1. /\ k \in 0 .. L /\ k - 1 \in 0 .. L /\ k \in Nat /\ p \in Seq(Activations)
        /\ \A n \in 1 .. k : n \in 1 .. k - 1 \/ n = k
    BY <1>1, <1>2
  <2>2. q \in Seq(Seq(Activations)) /\ Len(q) = k - 1 /\ \A n \in 1 .. k - 1 : q[n] = Part(t, n)
    BY <1>3, <2>1
  <2>3. r \in Seq(Seq(Activations)) /\ Len(r) = k /\ \A n \in 1 .. k : r[n] = Part(t, n)
    BY <1>3, <2>1
  <2> HIDE DEF q, r, P
  <2>4. /\ Append(q, p) \in Seq(Seq(Activations)) /\ Len(Append(q, p)) = (k - 1) + 1
        /\ \A n \in 1 .. k - 1 : Append(q, p)[n] = q[n]
        /\ Append(q, p)[(k - 1) + 1] = p
    <3> HIDE DEF p
    <3> QED
      BY <2>1, <2>2
  <2>5. \A n \in 1 .. Len(r) : r[n] = Append(q, p)[n]
    BY <2>1, <2>2, <2>3, <2>4
  <2>6. Len(r) = Len(Append(q, p))
    BY <2>1, <2>3, <2>4
  <2>7. r = Append(q, p)
    <3> HIDE DEF p
    <3> QED
      BY ONLY <2>3, <2>4, <2>5, <2>6, SeqEqual
  <2> QED
    BY <2>7 DEF q, r
<1>5. \A k \in 0 .. L : Upto(t, k) = FlattenSeq(P(k))
  BY DEF Upto
<1>6. Stack[t] = FlattenSeq(P(L))
  BY DEF Stack, L
<1>7. P(0) = <<>>
  OBVIOUS
<1> HIDE DEF P
<1>8. ASSUME NEW k \in 0 .. L PROVE Upto(t, k) \in Seq(Activations)
  <2>1. P(k) \in Seq(Seq(Activations)) /\ <<>> \in Seq(Activations)
    BY <1>3
  <2>2. FlattenSeq(P(k)) \in Seq(Activations)
    BY ONLY <2>1, FlattenedOnce
  <2> QED
    BY <1>5, <2>2
<1>9. ASSUME NEW k \in 1 .. L PROVE Upto(t, k) = Upto(t, k - 1) \o Part(t, k)
  <2>1. k - 1 \in 0 .. L /\ k \in 0 .. L
    BY <1>1
  <2>2. P(k - 1) \in Seq(Seq(Activations)) /\ Part(t, k) \in Seq(Activations)
    BY <1>2, <1>3, <2>1
  <2>3. FlattenSeq(Append(P(k - 1), Part(t, k))) = FlattenSeq(P(k - 1)) \o Part(t, k)
    BY ONLY <2>2, FlattenedOnce
  <2> QED
    BY <1>4, <1>5, <2>1, <2>3
<1>10. FlattenSeq(<<>>) = <<>>
  BY DEF FlattenSeq
<1> QED
  BY <1>1, <1>5, <1>6, <1>7, <1>8, <1>9, <1>10 DEF L

LEMMA StackedHoldsNext == Safe' => Stacked'
BY StackedHolds, PTL

(***************************************************************************)
(* What a step leaves alone.                                               *)
(***************************************************************************)
\* A step changes nothing of what entry e of a C stack shows.
Kept(e) ==
  /\ e \in Interps =>
       /\ at'[e] = at[e] /\ call_stack'[e] = call_stack[e] /\ instrs'[e] = instrs[e]
       /\ ip'[e] = ip[e] /\ jit_arg'[e] = jit_arg[e]
       /\ \A k \in DOMAIN call_stack[e] :
            /\ method'[call_stack[e][k]] = method[call_stack[e][k]]
            /\ saved_ip'[call_stack[e][k]] = saved_ip[call_stack[e][k]]
  /\ e \in Natives => native'[e] = native[e]

LEMMA KeptPart ==
  ASSUME Safe, Safe', NEW t \in Threads, NEW n, n \in DOMAIN c_stack[t], n \in DOMAIN c_stack'[t],
         NEW e, e = c_stack[t][n], c_stack'[t][n] = e, Kept(e), Over(t, n)' <=> Over(t, n)
  PROVE  Part(t, n)' = Part(t, n)
<1>1. e \in Interps \cup Natives
  BY DEF Safe, OtherTypes
<1>2. Forms /\ Forms'
  BY FormsHold, FormsHoldNext
<1>3. CASE e \in Natives
  <2>1. Part(t, n) = <<Activation(native[e].method, IF Over(t, n) THEN native[e].ip + 1 ELSE native[e].ip)>>
    BY <1>2, <1>3 DEF Forms, Place
  <2>2. Part(t, n)' = <<Activation(native'[e].method, IF Over(t, n)' THEN native'[e].ip + 1 ELSE native'[e].ip)>>
    BY <1>2, <1>3 DEF Forms, Place
  <2>3. native'[e] = native[e]
    BY <1>3 DEF Kept
  <2> QED
    BY <2>1, <2>2, <2>3
<1>4. CASE e \in Interps
  <2>1. /\ at'[e] = at[e] /\ call_stack'[e] = call_stack[e] /\ instrs'[e] = instrs[e]
        /\ ip'[e] = ip[e] /\ jit_arg'[e] = jit_arg[e]
    BY <1>4 DEF Kept
  <2>2. call_stack[e] \in Seq(Frames)
    BY <1>4 DEF Safe, InterpTypes
  <2>3. \A k \in 1 .. Len(call_stack[e]) :
          /\ method'[call_stack[e][k]] = method[call_stack[e][k]]
          /\ saved_ip'[call_stack[e][k]] = saved_ip[call_stack[e][k]]
    BY <1>4, <2>2 DEF Kept
  <2>4. CallersIn(call_stack'[e], method', saved_ip') = CallersIn(call_stack[e], method, saved_ip)
    BY <2>1, <2>3 DEF CallersIn
  <2>5. Visible(e)' = Visible(e)
    BY <2>1, <2>4 DEF Visible, Callers, CallersIn
  <2>6. Shows(e)' <=> Shows(e)
    BY <2>1 DEF Shows
  <2>7. Place(t, n, ip[e])' = Place(t, n, ip[e])
    BY <2>1 DEF Place
  <2>8. /\ ~ Shows(e) => Part(t, n) = <<>>
        /\ Shows(e) /\ at[e] = "native" => Part(t, n) = Visible(e)
        /\ Shows(e) /\ at[e] # "native" =>
             Part(t, n) = Append(Visible(e), Activation(instrs[e], Place(t, n, ip[e])))
    BY <1>2, <1>4 DEF Forms
  <2>9. /\ ~ Shows(e)' => Part(t, n)' = <<>>
        /\ Shows(e)' /\ at'[e] = "native" => Part(t, n)' = Visible(e)'
        /\ Shows(e)' /\ at'[e] # "native" =>
             Part(t, n)' = Append(Visible(e)', Activation(instrs'[e], Place(t, n, ip[e])'))
    BY <1>2, <1>4 DEF Forms
  <2> QED
    BY <2>1, <2>5, <2>6, <2>7, <2>8, <2>9
<1> QED
  BY <1>1, <1>3, <1>4

LEMMA KeptUpto ==
  ASSUME Safe, Safe', NEW t \in Threads, NEW k \in 0 .. Len(c_stack[t]), k <= Len(c_stack'[t]),
         \A n \in 1 .. k : c_stack'[t][n] = c_stack[t][n] /\ Kept(c_stack[t][n]),
         k # 0 => (Over(t, k)' <=> Over(t, k))
  PROVE  Upto(t, k)' = Upto(t, k)
<1>1. /\ Len(c_stack[t]) \in Nat /\ DOMAIN c_stack[t] = 1 .. Len(c_stack[t])
      /\ Len(c_stack'[t]) \in Nat /\ DOMAIN c_stack'[t] = 1 .. Len(c_stack'[t])
      /\ \A n \in DOMAIN c_stack[t] : c_stack[t][n] \in Interps \cup Natives
  BY DEF Safe, OtherTypes
<1>2. ASSUME NEW n \in 1 .. k PROVE Part(t, n)' = Part(t, n)
  <2>1. n \in DOMAIN c_stack[t] /\ n \in DOMAIN c_stack'[t]
    BY <1>1
  <2>2. Over(t, n)' <=> Over(t, n)
    <3>1. CASE n = k
      BY <3>1
    <3>2. CASE n # k
      <4>1. n + 1 \in 1 .. k /\ n < Len(c_stack[t]) /\ n < Len(c_stack'[t])
        BY <1>1, <3>2
      <4>2. c_stack'[t][n + 1] = c_stack[t][n + 1] /\ Kept(c_stack[t][n + 1])
        BY <4>1
      <4>3. c_stack[t][n + 1] \in Interps => at'[c_stack[t][n + 1]] = at[c_stack[t][n + 1]]
        BY <4>2 DEF Kept
      <4> QED
        BY <4>1, <4>2, <4>3 DEF Over
    <3> QED
      BY <3>1, <3>2
  <2>3. c_stack'[t][n] = c_stack[t][n] /\ Kept(c_stack[t][n])
    OBVIOUS
  <2> HIDE DEF Kept
  <2> QED
    BY <2>1, <2>2, <2>3, KeptPart
<1>3. [n \in 1 .. k |-> Part(t, n)]' = [n \in 1 .. k |-> Part(t, n)]
  BY <1>2
<1> QED
  BY <1>3 DEF Upto

\* Another thread's stack.
LEMMA KeptStack ==
  ASSUME Safe, Safe', NEW t \in Threads, c_stack'[t] = c_stack[t],
         \A n \in DOMAIN c_stack[t] : Kept(c_stack[t][n])
  PROVE  Stack'[t] = Stack[t]
<1>1. Len(c_stack[t]) \in Nat /\ DOMAIN c_stack[t] = 1 .. Len(c_stack[t])
  BY DEF Safe, OtherTypes
<1>2. ~ Over(t, Len(c_stack[t])) /\ ~ Over(t, Len(c_stack[t]))'
  BY <1>1 DEF Over
<1>3. Len(c_stack[t]) \in 0 .. Len(c_stack[t]) /\ Len(c_stack'[t]) = Len(c_stack[t])
  BY <1>1
<1>4. Upto(t, Len(c_stack[t]))' = Upto(t, Len(c_stack[t]))
  <2>1. PICK k : k = Len(c_stack[t])
    OBVIOUS
  <2>2. ~ Over(t, k)
    BY <1>2, <2>1
  <2>3. ~ Over(t, k)'
    BY <1>1, <2>1 DEF Over
  <2>4. k \in 0 .. Len(c_stack[t]) /\ k <= Len(c_stack'[t])
    BY <1>1, <2>1
  <2>5. \A n \in 1 .. k : c_stack'[t][n] = c_stack[t][n] /\ Kept(c_stack[t][n])
    BY <1>1, <2>1
  <2>6. Upto(t, k)' = Upto(t, k)
    BY <2>2, <2>3, <2>4, <2>5, KeptUpto
  <2> QED
    BY <2>1, <2>6
<1> QED
  BY <1>4, StackedHolds, StackedHoldsNext DEF Stacked

LEMMA KeptAside ==
  ASSUME Safe, NEW e,
         e \in Interps =>
           /\ at'[e] = at[e] /\ call_stack'[e] = call_stack[e] /\ instrs'[e] = instrs[e]
           /\ ip'[e] = ip[e] /\ jit_arg'[e] = jit_arg[e]
           /\ \A f \in ToSet(Held(e)) : method'[f] = method[f] /\ saved_ip'[f] = saved_ip[f],
         e \in Natives => native'[e] = native[e]
  PROVE  Kept(e)
<1>1. e \in Interps => \A k \in DOMAIN call_stack[e] : call_stack[e][k] \in ToSet(Held(e))
  BY HeldFrames
<1> QED
  BY <1>1 DEF Kept

(***************************************************************************)
(* Steps of MethodCalls, said of the top of a thread's stack.              *)
(***************************************************************************)
LEMMA TopActivation ==
  ASSUME NEW low, low \in Seq(Activations), NEW a, a \in Activations
  PROVE  /\ Append(low, a) # <<>> /\ Last(Append(low, a)) = a /\ Front(Append(low, a)) = low
         /\ Append(low, a) \in Seq(Activations)
<1> DEFINE s == Append(low, a)
<1>1. s \in Seq(Activations) /\ Len(s) = Len(low) + 1 /\ Len(low) \in Nat /\ s[Len(low) + 1] = a
      /\ \A k \in 1 .. Len(low) : s[k] = low[k]
  OBVIOUS
<1> HIDE DEF s
<1>2. s # <<>> /\ Last(s) = a
  BY <1>1 DEF Last
<1>3. /\ Front(s) \in Seq(Activations) /\ Len(Front(s)) = Len(low)
      /\ \A k \in 1 .. Len(low) : Front(s)[k] = low[k]
  <2>1. /\ Front(s) \in Seq(Activations) /\ Len(Front(s)) = Len(s) - 1
        /\ \A k \in 1 .. Len(s) - 1 : Front(s)[k] = s[k]
    BY <1>1, <1>2, Popped
  <2> QED
    BY <1>1, <2>1
<1>4. Front(s) = low
  BY <1>3, SeqEqual
<1> QED
  BY <1>1, <1>2, <1>4 DEF s

\* The stack of thread t becomes s and nothing else changes.
Becomes(t, s) == Stack' = [Stack EXCEPT ![t] = s]

\* MethodCalls, of Stack.
LEMMA CallsOf ==
  ASSUME NEW t \in Threads
  PROVE  /\ Calls!Active(t) <=> Stack[t] # <<>>
         /\ Calls!Top(t) = Last(Stack[t])
         /\ Calls!Instr(t) = Code[Last(Stack[t]).method][Last(Stack[t]).ip]
         /\ Calls!Begin(t) <=> /\ ~ Calls!Active(t) /\ entry[t] # None
                              /\ Stack' = [Stack EXCEPT ![t] = <<Calls!First(entry[t])>>]
         /\ Calls!Step(t) <=>
              /\ Calls!Active(t) /\ Calls!Instr(t).op \in {"STOR", "JMP"}
              /\ \E i \in {Calls!Top(t).ip + 1}
                          \cup (IF Calls!Instr(t).op = "JMP" THEN {Calls!Instr(t).to} ELSE {}) :
                   Stack' = [Stack EXCEPT ![t] = Append(Front(@), Calls!At(Calls!Top(t), i))]
         /\ Calls!Call(t) <=>
              /\ Calls!Active(t) /\ Calls!Instr(t).op \in {"MTHD_CALL", "DLL_FUNC_CALL"}
              /\ \E m \in Calls!Instr(t).callees : Stack' = [Stack EXCEPT ![t] = Append(@, Calls!First(m))]
         /\ Calls!Return(t) <=>
              /\ Calls!Active(t) /\ Calls!Instr(t).op = "RTRN"
              /\ LET callers == Front(Stack[t]) IN
                 Stack' = [Stack EXCEPT ![t] =
                             IF callers = <<>> THEN <<>>
                             ELSE Append(Front(callers), Calls!At(Last(callers), Last(callers).ip + 1))]
<1>1. Calls!Active(t) <=> Stack[t] # <<>>
  BY DEF Calls!Active, Stack
<1>2. Calls!Top(t) = Last(Stack[t])
  BY DEF Calls!Top, Stack, Calls!Last, Last
<1>3. Calls!Instr(t) = Code[Calls!Top(t).method][Calls!Top(t).ip]
  BY DEF Calls!Instr
<1>4. Calls!Begin(t) <=> /\ ~ Calls!Active(t) /\ entry[t] # None
                         /\ Stack' = [Stack EXCEPT ![t] = <<Calls!First(entry[t])>>]
  BY DEF Calls!Begin, Stack
<1>5. Calls!Step(t) <=>
        /\ Calls!Active(t) /\ Calls!Instr(t).op \in {"STOR", "JMP"}
        /\ \E i \in {Calls!Top(t).ip + 1}
                    \cup (IF Calls!Instr(t).op = "JMP" THEN {Calls!Instr(t).to} ELSE {}) :
             Stack' = [Stack EXCEPT ![t] = Append(Front(@), Calls!At(Calls!Top(t), i))]
  BY DEF Calls!Step, Stack, Calls!Front, Front
<1>6. Calls!Call(t) <=>
        /\ Calls!Active(t) /\ Calls!Instr(t).op \in {"MTHD_CALL", "DLL_FUNC_CALL"}
        /\ \E m \in Calls!Instr(t).callees : Stack' = [Stack EXCEPT ![t] = Append(@, Calls!First(m))]
  BY DEF Calls!Call, Stack
<1>7. Calls!Return(t) <=>
        /\ Calls!Active(t) /\ Calls!Instr(t).op = "RTRN"
        /\ LET callers == Front(Stack[t]) IN
           Stack' = [Stack EXCEPT ![t] =
                       IF callers = <<>> THEN <<>>
                       ELSE Append(Front(callers), Calls!At(Last(callers), Last(callers).ip + 1))]
  BY DEF Calls!Return, Stack, Calls!Front, Front, Calls!Last, Last
<1> QED
  BY <1>1, <1>2, <1>3, <1>4, <1>5, <1>6, <1>7

LEMMA IsBegin ==
  ASSUME NEW t \in Threads, entry[t] # None, Stack[t] = <<>>, entry' = entry,
         Becomes(t, <<Activation(entry[t], 1)>>)
  PROVE  Calls!Next
<1>1. Calls!First(entry[t]) = Activation(entry[t], 1)
  BY DEF Calls!First, Activation
<1>2. Calls!Begin(t)
  BY <1>1, CallsOf DEF Becomes
<1> QED
  BY <1>2 DEF Calls!Next

LEMMA IsStep ==
  ASSUME NEW t \in Threads, NEW low, low \in Seq(Activations), NEW a, a \in Activations,
         Stack[t] = Append(low, a), Code[a.method][a.ip].op \in {"STOR", "JMP"},
         NEW n, n = a.ip + 1 \/ (Code[a.method][a.ip].op = "JMP" /\ n = Code[a.method][a.ip].to),
         Becomes(t, Append(low, Activation(a.method, n))), entry' = entry
  PROVE  Calls!Next
<1>1. Stack[t] # <<>> /\ Last(Stack[t]) = a /\ Front(Stack[t]) = low
  BY TopActivation
<1>2. [a EXCEPT !.ip = n] = Activation(a.method, n)
  BY DEF Activation, Activations
<1>3. Calls!Active(t) /\ Calls!Top(t) = a /\ Calls!Instr(t) = Code[a.method][a.ip]
  BY <1>1, CallsOf
<1>4. Calls!At(a, n) = Activation(a.method, n)
  BY <1>2 DEF Calls!At
<1>5. Stack' = [Stack EXCEPT ![t] = Append(Front(@), Calls!At(Calls!Top(t), n))]
  BY <1>1, <1>3, <1>4 DEF Becomes
<1>6. n \in {Calls!Top(t).ip + 1} \cup (IF Calls!Instr(t).op = "JMP" THEN {Calls!Instr(t).to} ELSE {})
  BY <1>3
<1>7. Calls!Step(t)
  BY <1>3, <1>5, <1>6, CallsOf
<1> QED
  BY <1>7 DEF Calls!Next

LEMMA IsCall ==
  ASSUME NEW t \in Threads, NEW low, low \in Seq(Activations), NEW a, a \in Activations,
         Stack[t] = Append(low, a), Code[a.method][a.ip].op \in {"MTHD_CALL", "DLL_FUNC_CALL"},
         NEW m, m \in Code[a.method][a.ip].callees,
         Becomes(t, Append(Append(low, a), Activation(m, 1))), entry' = entry
  PROVE  Calls!Next
<1>1. Stack[t] # <<>> /\ Last(Stack[t]) = a
  BY TopActivation
<1>2. Calls!Active(t) /\ Calls!Instr(t) = Code[a.method][a.ip]
  BY <1>1, CallsOf
<1>3. Calls!First(m) = Activation(m, 1)
  BY DEF Calls!First, Activation
<1>4. Stack' = [Stack EXCEPT ![t] = Append(@, Calls!First(m))]
  BY <1>3 DEF Becomes
<1>5. Calls!Call(t)
  BY <1>2, <1>4, CallsOf
<1> QED
  BY <1>5 DEF Calls!Next

LEMMA IsReturn ==
  ASSUME NEW t \in Threads, NEW low, low \in Seq(Activations), NEW a, a \in Activations,
         Stack[t] = Append(low, a), Code[a.method][a.ip].op = "RTRN", entry' = entry,
         \/ low = <<>> /\ Becomes(t, <<>>)
         \/ \E lower \in Seq(Activations), b \in Activations :
              /\ low = Append(lower, b)
              /\ Becomes(t, Append(lower, Activation(b.method, b.ip + 1)))
  PROVE  Calls!Next
<1>1. Stack[t] # <<>> /\ Last(Stack[t]) = a /\ Front(Stack[t]) = low
  BY TopActivation
<1>2. Calls!Active(t) /\ Calls!Instr(t) = Code[a.method][a.ip]
  BY <1>1, CallsOf
<1> DEFINE after(s) == IF s = <<>> THEN <<>> ELSE Append(Front(s), Calls!At(Last(s), Last(s).ip + 1))
<1>3. Stack' = [Stack EXCEPT ![t] = after(low)]
  <2>1. CASE low = <<>> /\ Becomes(t, <<>>)
    BY <2>1 DEF Becomes
  <2>2. ASSUME NEW lower \in Seq(Activations), NEW b \in Activations, low = Append(lower, b),
               Becomes(t, Append(lower, Activation(b.method, b.ip + 1)))
        PROVE  Stack' = [Stack EXCEPT ![t] = after(low)]
    <3>1. low # <<>> /\ Last(low) = b /\ Front(low) = lower
      BY <2>2, TopActivation
    <3>2. Calls!At(b, b.ip + 1) = Activation(b.method, b.ip + 1)
      BY DEF Calls!At, Activation, Activations
    <3> QED
      BY <2>2, <3>1, <3>2 DEF Becomes
  <2> QED
    BY <2>1, <2>2
<1>4. Stack' = [Stack EXCEPT ![t] = after(Front(Stack[t]))]
  BY <1>1, <1>3
<1>5. Calls!Return(t)
  BY <1>2, <1>4, CallsOf
<1> QED
  BY <1>5 DEF Calls!Next

(***************************************************************************)
(* What else holds of interpreters in every state.                         *)
(***************************************************************************)
\* A return is at a RTRN, a callee begins at its first instruction, and just the
\* first frame of an interpreter that native code made is one native code calls from.
Settled(i) ==
  /\ at[i] = "jit" => ip[i] = 1
  /\ at[i] = "return" => InCode(instrs[i], ip[i]) /\ Instr(i).op = "RTRN"
  /\ at[i] \in {"dll", "return"} /\ jit_arg[i] => call_stack[i] # <<>>
  /\ \A k \in DOMAIN Held(i) : jit_called[Held(i)[k]] <=> (jit_arg[i] /\ k = 1)

\* Interpreters that native code made are on top of native code and, before they call,
\* at its call.
MadeByNative(t, n) ==
  c_stack[t][n] \in Interps =>
    /\ jit_arg[c_stack[t][n]] <=> (n > 1 /\ c_stack[t][n - 1] \in Natives)
    /\ /\ jit_arg[c_stack[t][n]] /\ call_stack[c_stack[t][n]] = <<>>
       /\ at[c_stack[t][n]] \in {"new", "run"}
       => native[c_stack[t][n - 1]] = Activation(instrs[c_stack[t][n]], ip[c_stack[t][n]])

Linked == \A t \in Threads : \A n \in DOMAIN c_stack[t] : MadeByNative(t, n)

Sane == Safe /\ (\A i \in Interps : Settled(i)) /\ Linked

(***************************************************************************)
(* The top of a C stack.                                                   *)
(***************************************************************************)
LEMMA Tops ==
  ASSUME Safe, NEW t \in Threads, c_stack[t] # <<>>, NEW e, e = Last(c_stack[t]),
         NEW L, L = Len(c_stack[t])
  PROVE  /\ L \in Nat \ {0} /\ L \in DOMAIN c_stack[t] /\ DOMAIN c_stack[t] = 1 .. L
         /\ e = c_stack[t][L] /\ e \in Interps \cup Natives
         /\ \A n \in 1 .. L - 1 : c_stack[t][n] # e /\ c_stack[t][n] \in Interps \cup Natives
         /\ \A u \in Threads \ {t} : \A n \in DOMAIN c_stack[u] :
              c_stack[u][n] # e /\ c_stack[u][n] \in Interps \cup Natives
<1>1. /\ c_stack[t] \in Seq(Interps \cup Natives)
      /\ \A u \in Threads : \A n \in DOMAIN c_stack[u] : c_stack[u][n] \in Interps \cup Natives
  BY DEF Safe, OtherTypes
<1>2. /\ L \in Nat \ {0} /\ L \in DOMAIN c_stack[t] /\ DOMAIN c_stack[t] = 1 .. L
      /\ e = c_stack[t][L]
  <2>1. /\ Len(c_stack[t]) \in Nat \ {0} /\ DOMAIN c_stack[t] = 1 .. Len(c_stack[t])
        /\ Last(c_stack[t]) = c_stack[t][Len(c_stack[t])]
    BY <1>1, Popped
  <2> QED
    BY <2>1
<1>3. \A n \in 1 .. L - 1 : n \in DOMAIN c_stack[t] /\ n # L
  BY <1>2
<1> QED
  BY <1>1, <1>2, <1>3, SMTT(30) DEF Safe, StacksApart

\* What it shows.
TopShows ==
  \A t \in Threads : \A n \in DOMAIN c_stack[t] : n = Len(c_stack[t]) =>
    /\ ~ Over(t, n)
    /\ c_stack[t][n] \in Natives =>
         Part(t, n) = <<Activation(native[c_stack[t][n]].method, native[c_stack[t][n]].ip)>>
    /\ c_stack[t][n] \in Interps =>
         /\ at[c_stack[t][n]] \in {"new", "run", "jit", "return", "leave"}
         /\ ~ Shows(c_stack[t][n]) => Part(t, n) = <<>>
         /\ Shows(c_stack[t][n]) =>
              Part(t, n) = Append(Visible(c_stack[t][n]),
                                  Activation(instrs[c_stack[t][n]], ip[c_stack[t][n]]))

LEMMA TopShowsHolds == Safe => TopShows
<1> SUFFICES ASSUME Safe, NEW t \in Threads, NEW n \in DOMAIN c_stack[t], n = Len(c_stack[t]),
                    NEW e, e = c_stack[t][n]
             PROVE  /\ ~ Over(t, n)
                    /\ e \in Natives => Part(t, n) = <<Activation(native[e].method, native[e].ip)>>
                    /\ e \in Interps =>
                         /\ at[e] \in {"new", "run", "jit", "return", "leave"}
                         /\ ~ Shows(e) => Part(t, n) = <<>>
                         /\ Shows(e) => Part(t, n) = Append(Visible(e), Activation(instrs[e], ip[e]))
  BY DEF TopShows
<1>1. Len(c_stack[t]) \in Nat
  BY DEF Safe, OtherTypes
<1>2. ~ Over(t, n)
  BY <1>1 DEF Over
<1>3. \A k : Place(t, n, k) = k
  BY <1>2 DEF Place
<1>4. Forms
  BY FormsHold
<1>5. e \in Natives => Part(t, n) = <<Activation(native[e].method, native[e].ip)>>
  BY <1>3, <1>4 DEF Forms
<1>6. e \in Interps => at[e] \in {"new", "run", "jit", "return", "leave"}
  BY DEF Safe, Waiting
<1>7. ASSUME e \in Interps
      PROVE  /\ ~ Shows(e) => Part(t, n) = <<>>
             /\ Shows(e) => Part(t, n) = Append(Visible(e), Activation(instrs[e], ip[e]))
  <2>1. /\ ~ Shows(e) => Part(t, n) = <<>>
        /\ Shows(e) /\ at[e] # "native" =>
             Part(t, n) = Append(Visible(e), Activation(instrs[e], Place(t, n, ip[e])))
    BY <1>4, <1>7 DEF Forms
  <2> QED
    BY <1>3, <1>6, <1>7, <2>1
<1> QED
  BY <1>2, <1>5, <1>6, <1>7

LEMMA TopShowsNext == Safe' => TopShows'
BY TopShowsHolds, PTL

\* A step of a thread leaves the others' stacks.
LEMMA OthersStay ==
  ASSUME Safe, Safe', NEW t \in Threads,
         \A u \in Threads \ {t} : /\ c_stack'[u] = c_stack[u]
                                 /\ \A n \in DOMAIN c_stack[u] : Kept(c_stack[u][n]),
         NEW s, Stack'[t] = s
  PROVE  Becomes(t, s)
<1>1. \A u \in Threads \ {t} : Stack'[u] = Stack[u]
  <2> HIDE DEF Kept
  <2> QED
    BY KeptStack
<1>2. Stack = [u \in Threads |-> Stack[u]]
  BY DEF Stack
<1>3. Stack' = [u \in Threads |-> Stack'[u]]
  BY DEF Stack
<1> HIDE DEF Stack
<1>4. \A u \in Threads : Stack'[u] = IF u = t THEN s ELSE Stack[u]
  BY <1>1
<1>5. [Stack EXCEPT ![t] = s] = [u \in Threads |-> IF u = t THEN s ELSE Stack[u]]
  BY <1>2
<1> QED
  BY <1>3, <1>4, <1>5 DEF Becomes

\* Nor what lies below the top.
LEMMA TopOnly ==
  ASSUME Safe, Safe', NEW t \in Threads, c_stack[t] # <<>>, NEW e, e = Last(c_stack[t]),
         NEW L, L = Len(c_stack[t]),
         c_stack' = c_stack, \A x \in (Interps \cup Natives) \ {e} : Kept(x),
         e \in Interps => (at'[e] = "leave" <=> at[e] = "leave"),
         NEW p, p = Part(t, L)'
  PROVE  /\ Stack[t] = Upto(t, L - 1) \o Part(t, L) /\ Upto(t, L - 1) \in Seq(Activations)
         /\ Becomes(t, Upto(t, L - 1) \o p)
<1>1. /\ L \in Nat \ {0} /\ L \in DOMAIN c_stack[t] /\ DOMAIN c_stack[t] = 1 .. L
      /\ e = c_stack[t][L] /\ e \in Interps \cup Natives
      /\ \A n \in 1 .. L - 1 : c_stack[t][n] # e /\ c_stack[t][n] \in Interps \cup Natives
      /\ \A u \in Threads \ {t} : \A n \in DOMAIN c_stack[u] :
           c_stack[u][n] # e /\ c_stack[u][n] \in Interps \cup Natives
  BY Tops
<1>2. Stacked /\ Stacked'
  BY StackedHolds, StackedHoldsNext
<1>3. /\ Stack[t] = Upto(t, L) /\ Upto(t, L) = Upto(t, L - 1) \o Part(t, L)
      /\ Upto(t, L - 1) \in Seq(Activations)
  <2>1. L \in 1 .. L /\ L - 1 \in 0 .. L
    BY <1>1
  <2> QED
    BY <1>2, <2>1 DEF Stacked
<1>4. L = Len(c_stack'[t])
  OBVIOUS
<1>5. /\ Stack'[t] = Upto(t, L)' /\ Upto(t, L)' = Upto(t, L - 1)' \o p
  BY <1>1, <1>2, <1>4 DEF Stacked
<1>6. Upto(t, L - 1)' = Upto(t, L - 1)
  <2>1. PICK k : k = L - 1
    OBVIOUS
  <2>2. k \in 0 .. Len(c_stack[t]) /\ k <= Len(c_stack'[t])
    BY <1>1, <2>1
  <2>3. \A n \in 1 .. k : c_stack'[t][n] = c_stack[t][n] /\ Kept(c_stack[t][n])
    <3> HIDE DEF Kept
    <3> QED
      BY <1>1, <2>1
  <2>4. k # 0 => (Over(t, k)' <=> Over(t, k))
    BY <1>1, <2>1 DEF Over
  <2>5. Upto(t, k)' = Upto(t, k)
    <3> HIDE DEF Kept
    <3> QED
      BY <2>2, <2>3, <2>4, KeptUpto
  <2> QED
    BY <2>1, <2>5
<1>7. Stack'[t] = Upto(t, L - 1) \o p
  BY <1>5, <1>6
<1>8. \A u \in Threads \ {t} : /\ c_stack'[u] = c_stack[u]
                              /\ \A n \in DOMAIN c_stack[u] : Kept(c_stack[u][n])
  <2> HIDE DEF Kept
  <2> QED
    BY <1>1
<1>9. Becomes(t, Upto(t, L - 1) \o p)
  <2> HIDE DEF Kept
  <2> QED
    BY <1>7, <1>8, OthersStay
<1> QED
  BY <1>3, <1>9

(***************************************************************************)
(* An interpreter a step has nothing to do with.                           *)
(***************************************************************************)
Untouched(j) ==
  /\ at'[j] = at[j] /\ call_stack'[j] = call_stack[j] /\ frame'[j] = frame[j]
  /\ instrs'[j] = instrs[j] /\ ip'[j] = ip[j] /\ jit_arg'[j] = jit_arg[j]
  /\ \A g \in ToSet(Held(j)) :
       method'[g] = method[g] /\ saved_ip'[g] = saved_ip[g] /\ jit_called'[g] = jit_called[g]

LEMMA UntouchedAside ==
  ASSUME Safe, NEW j \in Interps, Untouched(j)
  PROVE  Kept(j) /\ (Settled(j) => Settled(j)') /\ Held(j)' = Held(j)
<1> USE DEF Untouched
<1>1. Kept(j)
  BY NameAssumption, KeptAside
<1>2. Held(j)' = Held(j) /\ Instr(j)' = Instr(j)
  BY DEF Held, Instr
<1>3. \A k \in DOMAIN Held(j) : Held(j)[k] \in ToSet(Held(j))
  BY DEF ToSet
<1>4. ASSUME Settled(j) PROVE Settled(j)'
  BY <1>2, <1>3, <1>4 DEF Settled, InCode
<1> QED
  BY <1>1, <1>2, <1>4

LEMMA GotAside ==
  ASSUME Safe, NEW i \in Interps, NEW f, NEW m, NEW jit, GetStackFrame(f, m, jit),
         \A g \in Frames \ ToSet(Held(i)) : saved_ip'[g] = saved_ip[g]
  PROVE  /\ f \in Frames /\ method'[f] = m /\ jit_called'[f] = jit
         /\ \A j \in Interps : f \notin ToSet(Held(j))
         /\ \A j \in Interps : \A g \in ToSet(Held(j)) :
              g \in Frames /\ method'[g] = method[g] /\ jit_called'[g] = jit_called[g]
         /\ \A j \in Interps \ {i} : \A g \in ToSet(Held(j)) : saved_ip'[g] = saved_ip[g]
<1>1. f \in Frames /\ \A j \in Interps : f \notin ToSet(Held(j))
  BY GotFrame, TypeParts DEF Safe
<1>2. method' = [method EXCEPT ![f] = m] /\ jit_called' = [jit_called EXCEPT ![f] = jit]
  BY DEF GetStackFrame
<1>3. /\ \A j \in Interps : Held(j) \in Seq(Frames)
      /\ \A j \in Interps \ {i} : ToSet(Held(i)) \cap ToSet(Held(j)) = {}
  BY HeldFrames
<1>4. \A j \in Interps : ToSet(Held(j)) \subseteq Frames
  BY <1>3 DEF ToSet
<1>5. /\ method'[f] = m /\ jit_called'[f] = jit
      /\ \A g \in Frames \ {f} : method'[g] = method[g] /\ jit_called'[g] = jit_called[g]
  BY <1>1, <1>2 DEF Safe, FrameTypes
<1> QED
  BY <1>1, <1>3, <1>4, <1>5

LEMMA ReleasedAside ==
  ASSUME Safe, NEW i \in Interps, NEW f \in ToSet(Held(i)), ReleaseStackFrame(f), saved_ip' = saved_ip
  PROVE  /\ \A g \in Frames \ {f} : method'[g] = method[g] /\ jit_called'[g] = jit_called[g]
         /\ \A j \in Interps \ {i} : \A g \in ToSet(Held(j)) :
              /\ method'[g] = method[g] /\ saved_ip'[g] = saved_ip[g]
              /\ jit_called'[g] = jit_called[g]
<1>1. /\ \A j \in Interps : Held(j) \in Seq(Frames)
      /\ \A j \in Interps \ {i} : ToSet(Held(i)) \cap ToSet(Held(j)) = {}
  BY HeldFrames
<1>2. \A j \in Interps : ToSet(Held(j)) \subseteq Frames
  BY <1>1 DEF ToSet
<1>3. \A g \in Frames \ {f} : method'[g] = method[g] /\ jit_called'[g] = jit_called[g]
  BY <1>2 DEF ReleaseStackFrame, Safe, FrameTypes
<1> QED
  BY <1>1, <1>2, <1>3

\* What is linked stays so when only the top of a stack moves.
LEMMA LinkedStays ==
  ASSUME Safe, Linked, NEW t \in Threads, c_stack[t] # <<>>, NEW e, e = Last(c_stack[t]),
         c_stack' = c_stack, jit_arg' = jit_arg,
         \A j \in Interps \ {e} : /\ at'[j] = at[j] /\ call_stack'[j] = call_stack[j]
                                /\ instrs'[j] = instrs[j] /\ ip'[j] = ip[j],
         \A b \in Natives \ {e} : native'[b] = native[b],
         /\ e \in Interps /\ jit_arg[e] /\ call_stack'[e] = <<>> /\ at'[e] \in {"new", "run"}
         => /\ call_stack[e] = <<>> /\ at[e] \in {"new", "run"}
            /\ instrs'[e] = instrs[e] /\ ip'[e] = ip[e]
  PROVE  Linked'
<1> SUFFICES ASSUME NEW u \in Threads, NEW n \in DOMAIN c_stack[u] PROVE MadeByNative(u, n)'
  BY DEF Linked
<1>1. PICK d, b : d = c_stack[u][n] /\ b = c_stack[u][n - 1]
  OBVIOUS
<1>2. CASE d \in Interps
  <2>1. /\ jit_arg[d] <=> (n > 1 /\ b \in Natives)
        /\ jit_arg[d] /\ call_stack[d] = <<>> /\ at[d] \in {"new", "run"} =>
             native[b] = Activation(instrs[d], ip[d])
    BY <1>1, <1>2 DEF Linked, MadeByNative
  <2>2. ASSUME jit_arg[d] PROVE b # e
    <3>1. n > 1 /\ n - 1 \in DOMAIN c_stack[u] /\ n - 1 # Len(c_stack[u])
      <4>1. DOMAIN c_stack[u] = 1 .. Len(c_stack[u]) /\ Len(c_stack[u]) \in Nat
        BY DEF Safe, OtherTypes
      <4> QED
        BY <2>1, <2>2, <4>1
    <3>2. /\ \A k \in 1 .. Len(c_stack[t]) - 1 : c_stack[t][k] # e
          /\ \A v \in Threads \ {t} : \A k \in DOMAIN c_stack[v] : c_stack[v][k] # e
          /\ DOMAIN c_stack[t] = 1 .. Len(c_stack[t]) /\ Len(c_stack[t]) \in Nat
      <4>1. PICK L : L = Len(c_stack[t])
        OBVIOUS
      <4>2. /\ L \in Nat \ {0} /\ DOMAIN c_stack[t] = 1 .. L
            /\ \A k \in 1 .. L - 1 : c_stack[t][k] # e
            /\ \A v \in Threads \ {t} : \A k \in DOMAIN c_stack[v] : c_stack[v][k] # e
        BY <4>1, Tops
      <4> QED
        BY <4>1, <4>2
    <3>3. CASE u = t
      BY <1>1, <3>1, <3>2, <3>3
    <3>4. CASE u # t
      BY <1>1, <3>1, <3>2, <3>4
    <3> QED
      BY <3>3, <3>4
  <2>3. jit_arg[d] => native'[b] = native[b]
    BY <2>1, <2>2
  <2>4. jit_arg[d] /\ call_stack'[d] = <<>> /\ at'[d] \in {"new", "run"} =>
          native'[b] = Activation(instrs'[d], ip'[d])
    <3>1. CASE d = e
      BY <1>2, <2>1, <2>3, <3>1
    <3>2. CASE d # e
      BY <1>2, <2>1, <2>3, <3>2
    <3> QED
      BY <3>1, <3>2
  <2> QED
    BY <1>1, <2>1, <2>4 DEF MadeByNative
<1>3. CASE d \notin Interps
  BY <1>1, <1>3 DEF MadeByNative
<1> QED
  BY <1>2, <1>3

(***************************************************************************)
(* Steps the program does not see.                                         *)
(***************************************************************************)
LEMMA Quiet ==
  ASSUME Sane, Safe', NEW t \in Threads, NEW i \in Interps, c_stack[t] # <<>>, i = Last(c_stack[t]),
         c_stack' = c_stack, jit_arg' = jit_arg, native' = native,
         \A j \in Interps \ {i} : Untouched(j),
         call_stack'[i] = call_stack[i], instrs'[i] = instrs[i], ip'[i] = ip[i],
         \A k \in DOMAIN call_stack[i] : /\ method'[call_stack[i][k]] = method[call_stack[i][k]]
                                       /\ saved_ip'[call_stack[i][k]] = saved_ip[call_stack[i][k]],
         Shows(i)' <=> Shows(i), at[i] # "leave", at'[i] # "leave", Settled(i)'
  PROVE  Stack' = Stack /\ Sane'
<1>0. Safe /\ Linked /\ \A j \in Interps : Settled(j)
  BY DEF Sane
<1>1. \A j \in Interps \ {i} : Kept(j) /\ Settled(j)'
  BY <1>0, UntouchedAside
<1>2. \A x \in (Interps \cup Natives) \ {i} : Kept(x)
  BY <1>1, NameAssumption DEF Kept
<1>3. Linked'
  <2>1. jit_arg[i] /\ call_stack'[i] = <<>> /\ at'[i] \in {"new", "run"} => at[i] \in {"new", "run"}
    BY DEF Shows
  <2> QED
    BY <1>0, <2>1, LinkedStays DEF Untouched
<1>4. Visible(i)' = Visible(i)
  <2>1. call_stack[i] \in Seq(Frames)
    BY <1>0 DEF Safe, InterpTypes
  <2>2. \A k \in 1 .. Len(call_stack[i]) : /\ method'[call_stack[i][k]] = method[call_stack[i][k]]
                                         /\ saved_ip'[call_stack[i][k]] = saved_ip[call_stack[i][k]]
    BY <2>1
  <2>3. CallersIn(call_stack'[i], method', saved_ip') = CallersIn(call_stack[i], method, saved_ip)
    BY <2>2 DEF CallersIn
  <2> QED
    BY <2>3 DEF Visible, Callers, CallersIn
<1>5. PICK L : L = Len(c_stack[t])
  OBVIOUS
<1>6. L \in DOMAIN c_stack[t] /\ c_stack[t][L] = i /\ L \in 1 .. L
  BY <1>0, <1>5, Tops
<1>7. TopShows /\ TopShows'
  BY <1>0, TopShowsHolds, TopShowsNext
<1>8. Part(t, L)' = Part(t, L)
  <2>1. /\ ~ Shows(i) => Part(t, L) = <<>>
        /\ Shows(i) => Part(t, L) = Append(Visible(i), Activation(instrs[i], ip[i]))
    BY <1>5, <1>6, <1>7 DEF TopShows
  <2>2. /\ ~ Shows(i)' => Part(t, L)' = <<>>
        /\ Shows(i)' => Part(t, L)' = Append(Visible(i)', Activation(instrs'[i], ip'[i]))
    BY <1>5, <1>6, <1>7 DEF TopShows
  <2> QED
    BY <1>4, <2>1, <2>2
<1>9. PICK p : p = Part(t, L)'
  OBVIOUS
<1>10. Stack[t] = Upto(t, L - 1) \o Part(t, L) /\ Becomes(t, Upto(t, L - 1) \o p)
  <2>1. i \in Interps => (at'[i] = "leave" <=> at[i] = "leave")
    OBVIOUS
  <2>2. Safe /\ Safe' /\ t \in Threads /\ c_stack[t] # <<>> /\ i = Last(c_stack[t]) /\ c_stack' = c_stack
    BY <1>0
  <2> HIDE DEF Kept
  <2> QED
    BY ONLY <1>2, <1>5, <1>9, <2>1, <2>2, TopOnly
<1>11. Becomes(t, Stack[t])
  BY <1>8, <1>9, <1>10
<1>12. Stack' = Stack
  <2>1. Stack = [u \in Threads |-> Stack[u]]
    BY DEF Stack
  <2> HIDE DEF Stack
  <2> QED
    BY <1>11, <2>1 DEF Becomes
<1> QED
  BY <1>1, <1>3, <1>12 DEF Sane

LEMMA UnchangedQuiet ==
  ASSUME Sane, Safe', UNCHANGED <<frameVars, interpVars, native, c_stack>>
  PROVE  Stack' = Stack /\ Sane'
<1> USE DEF frameVars, interpVars
<1>1. \A i \in Interps : Untouched(i)
  BY DEF Untouched
<1>2. \A i \in Interps : Settled(i)'
  BY <1>1, UntouchedAside DEF Sane
<1>3. Linked'
  BY DEF Sane, Linked, MadeByNative
<1>4. Stack' = Stack
  BY DEF Stack, Part, Over, Visible, Callers
<1> QED
  BY <1>2, <1>3, <1>4 DEF Sane

LEMMA ExecuteQuiet ==
  ASSUME Sane, NEW t \in Threads, NEW i \in Interps, Execute(t, i), entry' = entry
  PROVE  Stack' = Stack /\ Sane'
<1> USE DEF Execute, Runs
<1>1. PICK f \in Frames : GetStackFrame(f, instrs[i], jit_arg[i]) /\ frame' = [frame EXCEPT ![i] = f]
  OBVIOUS
<1>2. Safe /\ Settled(i) /\ Sound(i) /\ Safe'
  BY ExecuteSafe DEF Sane, Safe, Interpreting
<1>3. /\ call_stack[i] = <<>> /\ jit_arg[i] \in BOOLEAN /\ at[i] = "new"
  BY <1>2 DEF Sound, Safe, InterpTypes
<1>4. /\ at'[i] = "run" /\ frame'[i] = f
      /\ \A j \in Interps \ {i} : at'[j] = at[j] /\ frame'[j] = frame[j]
  BY <1>1, <1>2 DEF Safe, InterpTypes
<1>5. /\ f \in Frames /\ jit_called'[f] = jit_arg[i]
      /\ \A j \in Interps : \A g \in ToSet(Held(j)) : method'[g] = method[g] /\ jit_called'[g] = jit_called[g]
  BY <1>1, <1>2, GotAside
<1>6. \A j \in Interps \ {i} : Untouched(j)
  BY <1>4, <1>5 DEF Untouched
<1>7. Held(i)' = <<f>>
  <2>1. Held(i)' = Append(<<>>, f)
    BY <1>3, <1>4 DEF Held
  <2> QED
    BY <2>1
<1>8. Settled(i)'
  <2>1. DOMAIN Held(i)' = {1} /\ Held(i)'[1] = f
    BY <1>7
  <2> HIDE DEF Execute
  <2>2. \A k \in DOMAIN Held(i)' : jit_called'[Held(i)'[k]] <=> (jit_arg'[i] /\ k = 1)
    BY <1>5, <2>1 DEF Execute
  <2> QED
    BY <1>4, <2>2 DEF Settled
<1>9. Shows(i)' <=> Shows(i)
  BY <1>3, <1>4 DEF Shows
<1>10. c_stack[t] # <<>> /\ i = Last(c_stack[t])
  OBVIOUS
<1>11. /\ c_stack' = c_stack /\ jit_arg' = jit_arg /\ native' = native
       /\ call_stack'[i] = call_stack[i] /\ instrs'[i] = instrs[i] /\ ip'[i] = ip[i]
  OBVIOUS
<1>12. \A k \in DOMAIN call_stack[i] : /\ method'[call_stack[i][k]] = method[call_stack[i][k]]
                                     /\ saved_ip'[call_stack[i][k]] = saved_ip[call_stack[i][k]]
  BY <1>3
<1>13. at[i] # "leave" /\ at'[i] # "leave"
  BY <1>3, <1>4
<1> QED
  BY ONLY Sane, <1>2, <1>6, <1>8, <1>9, <1>10, <1>11, <1>12, <1>13, Quiet

LEMMA ProcessInterpretedQuiet ==
  ASSUME Sane, NEW t \in Threads, NEW i \in Interps, ProcessInterpretedMethodCall(t, i), entry' = entry
  PROVE  Stack' = Stack /\ Sane'
<1> USE DEF ProcessInterpretedMethodCall, Runs
<1>1. PICK f \in Frames : GetStackFrame(f, instrs[i], FALSE) /\ frame' = [frame EXCEPT ![i] = f]
  OBVIOUS
<1>2. Safe /\ Settled(i) /\ Sound(i) /\ Safe'
  BY ProcessInterpretedMethodCallSafe DEF Sane, Safe, Interpreting
<1>3. /\ call_stack[i] # <<>> /\ jit_arg[i] \in BOOLEAN /\ at[i] = "jit" /\ call_stack[i] \in Seq(Frames)
      /\ Held(i) = call_stack[i]
  BY <1>2 DEF Sound, Safe, InterpTypes, Held
<1>4. /\ at'[i] = "run" /\ frame'[i] = f
      /\ \A j \in Interps \ {i} : at'[j] = at[j] /\ frame'[j] = frame[j]
  BY <1>1, <1>2 DEF Safe, InterpTypes
<1>5. /\ f \in Frames /\ jit_called'[f] = FALSE
      /\ \A j \in Interps : \A g \in ToSet(Held(j)) : method'[g] = method[g] /\ jit_called'[g] = jit_called[g]
  <2>1. PICK b : b = FALSE
    OBVIOUS
  <2>2. GetStackFrame(f, instrs[i], b) /\ \A g \in Frames \ ToSet(Held(i)) : saved_ip'[g] = saved_ip[g]
    BY <1>1, <2>1
  <2>3. /\ f \in Frames /\ jit_called'[f] = b
        /\ \A j \in Interps : \A g \in ToSet(Held(j)) : method'[g] = method[g] /\ jit_called'[g] = jit_called[g]
    BY <1>2, <2>2, GotAside
  <2> QED
    BY <2>1, <2>3
<1>6. \A j \in Interps \ {i} : Untouched(j)
  BY <1>4, <1>5 DEF Untouched
<1>7. \A k \in DOMAIN call_stack[i] : call_stack[i][k] \in ToSet(Held(i))
  BY <1>3 DEF ToSet
<1>8. Settled(i)'
  <2>1. Held(i)' = Append(call_stack[i], f)
    BY <1>4 DEF Held
  <2>2. /\ \A k \in DOMAIN call_stack[i] : Append(call_stack[i], f)[k] = call_stack[i][k]
        /\ Append(call_stack[i], f)[Len(call_stack[i]) + 1] = f
        /\ \A k \in DOMAIN Append(call_stack[i], f) : k \in DOMAIN call_stack[i] \/ k = Len(call_stack[i]) + 1
    BY <1>3, <1>5, Pushed
  <2>3. Len(call_stack[i]) + 1 # 1
    <3>1. Len(call_stack[i]) \in Nat \ {0}
      BY <1>3
    <3> QED
      BY <3>1
  <2>4. \A k \in DOMAIN call_stack[i] : jit_called[call_stack[i][k]] <=> (jit_arg[i] /\ k = 1)
    BY <1>2, <1>3 DEF Settled
  <2>5. \A k \in DOMAIN Held(i)' : jit_called'[Held(i)'[k]] <=> (jit_arg'[i] /\ k = 1)
    BY <1>5, <1>7, <2>1, <2>2, <2>3, <2>4
  <2> QED
    BY <1>4, <2>5 DEF Settled
<1>9. Shows(i)' <=> Shows(i)
  BY <1>3, <1>4 DEF Shows
<1>10. c_stack[t] # <<>> /\ i = Last(c_stack[t])
  OBVIOUS
<1>11. /\ c_stack' = c_stack /\ jit_arg' = jit_arg /\ native' = native
       /\ call_stack'[i] = call_stack[i] /\ instrs'[i] = instrs[i] /\ ip'[i] = ip[i]
  OBVIOUS
<1>12. \A k \in DOMAIN call_stack[i] : /\ method'[call_stack[i][k]] = method[call_stack[i][k]]
                                     /\ saved_ip'[call_stack[i][k]] = saved_ip[call_stack[i][k]]
  BY <1>5, <1>7
<1>13. at[i] # "leave" /\ at'[i] # "leave"
  BY <1>3, <1>4
<1> QED
  BY ONLY Sane, <1>2, <1>6, <1>8, <1>9, <1>10, <1>11, <1>12, <1>13, Quiet

\* An interpreter that native code made calls first.
LEMMA CallsFirst ==
  ASSUME Sane, NEW t \in Threads, NEW i \in Interps, Runs(t, i, "run"), ~ Shows(i)
  PROVE  /\ Instr(i).op = "MTHD_CALL" /\ jit_arg[i] /\ call_stack[i] = <<>>
         /\ Len(c_stack[t]) > 1 /\ c_stack[t][Len(c_stack[t]) - 1] \in Natives
         /\ native[c_stack[t][Len(c_stack[t]) - 1]] = Activation(instrs[i], ip[i])
<1> USE DEF Runs
<1>1. jit_arg[i] /\ call_stack[i] = <<>>
  BY DEF Shows
<1>2. PICK L : L = Len(c_stack[t])
  OBVIOUS
<1>3. L \in Nat /\ L \in DOMAIN c_stack[t] /\ DOMAIN c_stack[t] = 1 .. L /\ c_stack[t][L] = i
  BY <1>2, Tops DEF Sane
<1>4. PICK b : b = c_stack[t][L - 1]
  OBVIOUS
<1>5. L > 1 /\ b \in Natives /\ native[b] = Activation(instrs[i], ip[i])
  BY <1>1, <1>3, <1>4 DEF Sane, Linked, MadeByNative
<1>6. L - 1 \in DOMAIN c_stack[t] /\ L - 1 < Len(c_stack[t])
  BY <1>2, <1>3, <1>5
<1>7. NativeInstr(b).op = "MTHD_CALL"
  BY <1>4, <1>5, <1>6 DEF Sane, Safe, Waiting
<1>8. NativeInstr(b) = Instr(i)
  BY <1>5 DEF NativeInstr, Instr, Activation
<1> QED
  BY <1>1, <1>2, <1>4, <1>5, <1>7, <1>8

LEMMA ReleaseReturningQuiet ==
  ASSUME Sane, NEW t \in Threads, NEW i \in Interps, ReleaseReturning(t, i), entry' = entry
  PROVE  Stack' = Stack /\ Sane'
<1> USE DEF ReleaseReturning, Runs
<1>1. Safe /\ Settled(i) /\ Sound(i) /\ Safe'
  BY ReleaseReturningSafe DEF Sane, Safe, Interpreting
<1>2. PICK f : f = frame[i]
  OBVIOUS
<1>3. /\ at[i] = "run" /\ f \in Frames /\ Held(i) = Append(call_stack[i], f) /\ f \in ToSet(Held(i))
      /\ call_stack[i] \in Seq(Frames) /\ IsInjective(Held(i))
  BY <1>1, <1>2, HeldFrames
<1>4. at'[i] = "return" /\ \A j \in Interps \ {i} : at'[j] = at[j]
  BY <1>1 DEF Safe, InterpTypes
<1>5. /\ \A g \in Frames \ {f} : method'[g] = method[g] /\ jit_called'[g] = jit_called[g]
      /\ \A j \in Interps \ {i} : \A g \in ToSet(Held(j)) :
           /\ method'[g] = method[g] /\ saved_ip'[g] = saved_ip[g] /\ jit_called'[g] = jit_called[g]
  BY <1>1, <1>2, <1>3, ReleasedAside
<1>6. \A j \in Interps \ {i} : Untouched(j)
  BY <1>4, <1>5 DEF Untouched
<1>7. \A k \in DOMAIN call_stack[i] : call_stack[i][k] \in Frames \ {f}
  <2>1. f \notin ToSet(call_stack[i])
    BY <1>3, Pushed
  <2> QED
    BY <1>3, <2>1 DEF ToSet
<1>8. Shows(i)
  BY CallsFirst
<1>9. Settled(i)'
  <2>1. Held(i)' = call_stack[i]
    BY <1>4 DEF Held
  <2>2. \A k \in DOMAIN call_stack[i] : k \in DOMAIN Held(i) /\ Held(i)[k] = call_stack[i][k]
    BY <1>3, Pushed
  <2>3. \A k \in DOMAIN call_stack[i] : jit_called[call_stack[i][k]] <=> (jit_arg[i] /\ k = 1)
    BY <1>1, <2>2 DEF Settled
  <2>4. \A k \in DOMAIN Held(i)' : jit_called'[Held(i)'[k]] <=> (jit_arg'[i] /\ k = 1)
    BY <1>5, <1>7, <2>1, <2>3
  <2>5. InCode(instrs[i], ip[i]) /\ Instr(i)' = Instr(i)
    BY <1>1, <1>3 DEF Sound, Instr
  <2>6. jit_arg[i] => call_stack[i] # <<>>
    BY <1>3, <1>8 DEF Shows
  <2> QED
    BY <1>4, <2>4, <2>5, <2>6 DEF Settled, InCode
<1>10. Shows(i)' <=> Shows(i)
  BY <1>3, <1>4, <1>8 DEF Shows
<1>11. c_stack[t] # <<>> /\ i = Last(c_stack[t])
  OBVIOUS
<1>12. /\ c_stack' = c_stack /\ jit_arg' = jit_arg /\ native' = native
       /\ call_stack'[i] = call_stack[i] /\ instrs'[i] = instrs[i] /\ ip'[i] = ip[i]
  OBVIOUS
<1>13. \A k \in DOMAIN call_stack[i] : /\ method'[call_stack[i][k]] = method[call_stack[i][k]]
                                     /\ saved_ip'[call_stack[i][k]] = saved_ip[call_stack[i][k]]
  BY <1>5, <1>7
<1>14. at[i] # "leave" /\ at'[i] # "leave"
  BY <1>3, <1>4
<1> QED
  BY ONLY Sane, <1>1, <1>6, <1>9, <1>10, <1>11, <1>12, <1>13, <1>14, Quiet

LEMMA CompileQuiet ==
  ASSUME Sane, NEW t \in Threads, NEW i \in Interps, Compile(t, i), entry' = entry
  PROVE  Stack' = Stack /\ Sane'
<1>1. Safe'
  BY CompileSafe DEF Sane
<1>2. UNCHANGED <<frameVars, interpVars, native, c_stack>>
  BY DEF Compile
<1> QED
  BY <1>1, <1>2, UnchangedQuiet

LEMMA NativeErrorQuiet ==
  ASSUME Sane, NEW t \in Threads, NEW a \in Natives, NativeError(t, a), entry' = entry
  PROVE  Stack' = Stack /\ Sane'
<1>1. UNCHANGED <<entry, frameVars, interpVars, native, c_stack, pda_monitors, native_code>> /\ exited' \in BOOLEAN
  BY DEF NativeError
<1>2. Safe'
  BY <1>1, UnchangedSafe DEF Sane
<1>3. UNCHANGED <<frameVars, interpVars, native, c_stack>>
  BY <1>1
<1> QED
  BY <1>2, <1>3, UnchangedQuiet

(***************************************************************************)
(* A C stack with one more entry.                                          *)
(***************************************************************************)
Added(t, d) ==
  /\ c_stack' = [c_stack EXCEPT ![t] = Append(@, d)] /\ d \in Interps \cup Natives
  /\ \A u \in Threads : \A n \in DOMAIN c_stack[u] : c_stack[u][n] # d

LEMMA AddedEntry ==
  ASSUME Safe, NEW t \in Threads, NEW d, Added(t, d), NEW L, L = Len(c_stack[t])
  PROVE  /\ L \in Nat /\ DOMAIN c_stack[t] = 1 .. L /\ Len(c_stack'[t]) = L + 1
         /\ DOMAIN c_stack'[t] = 1 .. L + 1 /\ c_stack'[t][L + 1] = d
         /\ \A n \in 1 .. L : c_stack'[t][n] = c_stack[t][n] /\ c_stack[t][n] # d
         /\ \A u \in Threads \ {t} : c_stack'[u] = c_stack[u]
<1>1. /\ c_stack[t] \in Seq(Interps \cup Natives) /\ d \in Interps \cup Natives
      /\ c_stack'[t] = Append(c_stack[t], d) /\ \A u \in Threads \ {t} : c_stack'[u] = c_stack[u]
  BY DEF Added, Safe, OtherTypes
<1>2. PICK s : s = c_stack[t]
  OBVIOUS
<1>3. /\ s \in Seq(Interps \cup Natives) /\ Len(s) = L
  BY <1>1, <1>2
<1>4. /\ Len(Append(s, d)) = Len(s) + 1 /\ Len(s) \in Nat
      /\ DOMAIN Append(s, d) = 1 .. Len(s) + 1 /\ DOMAIN s = 1 .. Len(s)
      /\ \A k \in DOMAIN s : Append(s, d)[k] = s[k]
      /\ Append(s, d)[Len(s) + 1] = d
  BY <1>1, <1>3, Pushed
<1> QED
  BY <1>1, <1>2, <1>3, <1>4 DEF Added

LEMMA GrownStack ==
  ASSUME Safe, Safe', NEW t \in Threads, NEW d, Added(t, d), NEW L, L = Len(c_stack[t]),
         \A u \in Threads \ {t} : \A n \in DOMAIN c_stack[u] : Kept(c_stack[u][n]),
         \A n \in 1 .. L - 1 : Kept(c_stack[t][n]),
         NEW e, e = c_stack[t][L],
         L # 0 /\ e \in Interps => at[e] # "leave" /\ at'[e] # "leave",
         d \in Interps => at'[d] # "leave",
         NEW p, p = Part(t, L)', NEW q, q = Part(t, L + 1)'
  PROVE  /\ L = 0 => Stack[t] = <<>> /\ Becomes(t, q)
         /\ L # 0 => /\ Stack[t] = Upto(t, L - 1) \o Part(t, L) /\ Upto(t, L - 1) \in Seq(Activations)
                     /\ Becomes(t, (Upto(t, L - 1) \o p) \o q)
         /\ q \in Seq(Activations) /\ (L # 0 => p \in Seq(Activations) /\ Part(t, L) \in Seq(Activations))
         /\ ~ Over(t, L)' /\ ~ Over(t, L)
<1>1. /\ L \in Nat /\ DOMAIN c_stack[t] = 1 .. L /\ Len(c_stack'[t]) = L + 1
      /\ DOMAIN c_stack'[t] = 1 .. L + 1 /\ c_stack'[t][L + 1] = d
      /\ \A n \in 1 .. L : c_stack'[t][n] = c_stack[t][n] /\ c_stack[t][n] # d
      /\ \A u \in Threads \ {t} : c_stack'[u] = c_stack[u]
  BY AddedEntry
<1>2. Stacked /\ Stacked' /\ Typed /\ Typed'
  BY StackedHolds, StackedHoldsNext, FormsHold, FormsHoldNext
<1>3. ~ Over(t, L)' /\ ~ Over(t, L)
  BY <1>1 DEF Over
<1>4. q \in Seq(Activations) /\ (L # 0 => p \in Seq(Activations) /\ Part(t, L) \in Seq(Activations))
  <2>1. L + 1 \in DOMAIN c_stack'[t] /\ (L # 0 => L \in DOMAIN c_stack'[t] /\ L \in DOMAIN c_stack[t])
    BY <1>1
  <2> QED
    BY <1>2, <2>1 DEF Typed
<1>5. /\ Stack'[t] = Upto(t, L + 1)' /\ Upto(t, L + 1)' = Upto(t, L)' \o q
      /\ Upto(t, L)' \in Seq(Activations) /\ Upto(t, 0)' = <<>>
  <2>1. PICK M : M = L + 1
    OBVIOUS
  <2>2. M \in 1 .. M /\ L \in 0 .. M /\ M - 1 = L /\ M = Len(c_stack'[t])
    BY <1>1, <2>1
  <2>3. Stack'[t] = Upto(t, M)' /\ Upto(t, M)' = Upto(t, M - 1)' \o Part(t, M)'
    BY <1>2, <2>2 DEF Stacked
  <2>4. Upto(t, L)' \in Seq(Activations) /\ Upto(t, 0)' = <<>>
    BY <1>2, <2>2 DEF Stacked
  <2> QED
    BY <2>1, <2>2, <2>3, <2>4
<1>6. \A u \in Threads \ {t} : /\ c_stack'[u] = c_stack[u]
                               /\ \A n \in DOMAIN c_stack[u] : Kept(c_stack[u][n])
  BY <1>1
<1>7. CASE L = 0
  <2>1. Stack[t] = <<>>
    BY <1>2, <1>7 DEF Stacked
  <2>2. Stack'[t] = <<>> \o q
    BY <1>5, <1>7
  <2>3. <<>> \o q = q
    BY ONLY <1>4, ConcatEmptySeq
  <2>4. Stack'[t] = q
    BY <2>2, <2>3
  <2>5. Becomes(t, q)
    <3> HIDE DEF Kept
    <3> QED
      BY <1>6, <2>4, OthersStay
  <2> QED
    BY <1>3, <1>4, <1>7, <2>1, <2>5
<1>8. CASE L # 0
  <2>1. /\ L \in 1 .. L /\ L - 1 \in 0 .. L /\ L \in 1 .. L + 1 /\ L - 1 \in 0 .. Len(c_stack[t])
        /\ L - 1 <= Len(c_stack'[t])
    BY <1>1, <1>8
  <2>2. /\ Stack[t] = Upto(t, L) /\ Upto(t, L) = Upto(t, L - 1) \o Part(t, L)
        /\ Upto(t, L - 1) \in Seq(Activations)
    BY <1>2, <2>1 DEF Stacked
  <2>3. Upto(t, L)' = Upto(t, L - 1)' \o p
    BY <1>1, <1>2, <2>1 DEF Stacked
  <2>4. Upto(t, L - 1)' = Upto(t, L - 1)
    <3>1. PICK k : k = L - 1
      OBVIOUS
    <3>2. k \in 0 .. Len(c_stack[t]) /\ k <= Len(c_stack'[t])
      BY <2>1, <3>1
    <3>3. \A n \in 1 .. k : c_stack'[t][n] = c_stack[t][n] /\ Kept(c_stack[t][n])
      <4> HIDE DEF Kept
      <4> QED
        BY <1>1, <3>1
    <3>4. k # 0 => (Over(t, k)' <=> Over(t, k))
      <4>1. c_stack'[t][k + 1] = e /\ c_stack[t][k + 1] = e
        BY <1>1, <2>1, <3>1
      <4>2. ~ Over(t, k)' /\ ~ Over(t, k)
        BY <1>8, <4>1 DEF Over
      <4> QED
        BY <4>2
    <3>5. Upto(t, k)' = Upto(t, k)
      <4> HIDE DEF Kept
      <4> QED
        BY <3>2, <3>3, <3>4, KeptUpto
    <3> QED
      BY <3>1, <3>5
  <2>5. Stack'[t] = (Upto(t, L - 1) \o p) \o q
    BY <1>5, <2>3, <2>4
  <2>6. Becomes(t, (Upto(t, L - 1) \o p) \o q)
    <3> HIDE DEF Kept
    <3> QED
      BY <1>6, <2>5, OthersStay
  <2> QED
    BY <1>3, <1>4, <1>8, <2>2, <2>6
<1> QED
  BY <1>7, <1>8

\* As far as MadeByNative is concerned, j goes nowhere.
StaysLinked(j) ==
  /\ jit_arg'[j] = jit_arg[j] /\ call_stack'[j] = call_stack[j]
  /\ instrs'[j] = instrs[j] /\ ip'[j] = ip[j]
  /\ at'[j] \in {"new", "run"} => at[j] \in {"new", "run"}

LEMMA LinkedGrows ==
  ASSUME Safe, Linked, NEW t \in Threads, NEW d, Added(t, d), NEW L, L = Len(c_stack[t]),
         \A j \in Interps \ {d} : StaysLinked(j),
         \A b \in Natives \ {d} : native'[b] = native[b],
         d \in Interps => /\ jit_arg'[d] <=> (L # 0 /\ c_stack[t][L] \in Natives)
                          /\ jit_arg'[d] => native[c_stack[t][L]] = Activation(instrs'[d], ip'[d])
  PROVE  Linked'
<1> SUFFICES ASSUME NEW u \in Threads, NEW n \in DOMAIN c_stack'[u] PROVE MadeByNative(u, n)'
  BY DEF Linked
<1>1. /\ L \in Nat /\ DOMAIN c_stack[t] = 1 .. L /\ Len(c_stack'[t]) = L + 1
      /\ DOMAIN c_stack'[t] = 1 .. L + 1 /\ c_stack'[t][L + 1] = d
      /\ \A k \in 1 .. L : c_stack'[t][k] = c_stack[t][k] /\ c_stack[t][k] # d
      /\ \A v \in Threads \ {t} : c_stack'[v] = c_stack[v]
  BY AddedEntry
<1>2. CASE u = t /\ n = L + 1
  <2>1. c_stack'[u][n] = d /\ (n > 1 <=> L # 0) /\ (L # 0 => c_stack'[u][n - 1] = c_stack[t][L])
    BY <1>1, <1>2
  <2>2. PICK b : b = c_stack[t][L]
    OBVIOUS
  <2>3. b \in Natives /\ L # 0 => native'[b] = native[b]
    <3>1. L # 0 => b # d
      BY <1>1, <2>2
    <3> QED
      BY <3>1
  <2> QED
    BY <2>1, <2>2, <2>3 DEF MadeByNative
<1>3. CASE ~ (u = t /\ n = L + 1)
  <2>1. n \in DOMAIN c_stack[u] /\ c_stack'[u][n] = c_stack[u][n]
    BY <1>1, <1>3
  <2>2. n > 1 => n - 1 \in DOMAIN c_stack[u] /\ c_stack'[u][n - 1] = c_stack[u][n - 1]
    <3>1. DOMAIN c_stack[u] = 1 .. Len(c_stack[u]) /\ Len(c_stack[u]) \in Nat
      BY DEF Safe, OtherTypes
    <3>2. n > 1 => n - 1 \in DOMAIN c_stack[u]
      BY <2>1, <3>1
    <3> QED
      BY <1>1, <3>2
  <2>3. PICK x, b : x = c_stack[u][n] /\ b = c_stack[u][n - 1]
    OBVIOUS
  <2>4. x # d /\ (n > 1 => b # d)
    BY <2>1, <2>2, <2>3 DEF Added
  <2>5. CASE x \in Interps
    <3>1. /\ jit_arg[x] <=> (n > 1 /\ b \in Natives)
          /\ jit_arg[x] /\ call_stack[x] = <<>> /\ at[x] \in {"new", "run"} =>
               native[b] = Activation(instrs[x], ip[x])
      BY <2>1, <2>3, <2>5 DEF Linked, MadeByNative
    <3>2. /\ jit_arg'[x] = jit_arg[x] /\ call_stack'[x] = call_stack[x]
          /\ instrs'[x] = instrs[x] /\ ip'[x] = ip[x]
          /\ at'[x] \in {"new", "run"} => at[x] \in {"new", "run"}
      <4>1. StaysLinked(x)
        BY <2>4, <2>5
      <4> QED
        BY <4>1 DEF StaysLinked
    <3>3. jit_arg[x] => native'[b] = native[b] /\ c_stack'[u][n - 1] = b
      BY <2>2, <2>3, <2>4, <3>1
    <3>4. jit_arg'[x] <=> (n > 1 /\ c_stack'[u][n - 1] \in Natives)
      BY <2>2, <2>3, <3>1, <3>2
    <3> QED
      BY <2>1, <2>3, <3>1, <3>2, <3>3, <3>4 DEF MadeByNative
  <2>6. CASE x \notin Interps
    BY <2>1, <2>3, <2>6 DEF MadeByNative
  <2> QED
    BY <2>5, <2>6
<1> QED
  BY <1>2, <1>3

(***************************************************************************)
(* Putting activations on top.                                             *)
(***************************************************************************)
LEMMA OnTop ==
  ASSUME NEW low, low \in Seq(Activations), NEW v, v \in Seq(Activations), NEW a, a \in Activations
  PROVE  /\ low \o Append(v, a) = Append(low \o v, a) /\ low \o v \in Seq(Activations)
         /\ low \o <<a>> = Append(low, a) /\ Append(low, a) \in Seq(Activations)
         /\ <<a>> \in Seq(Activations) /\ Append(<<>>, a) = <<a>>
         /\ low \o <<>> = low /\ <<>> \o low = low /\ Append(low, a) # <<>>
<1>1. /\ <<a>> \in Seq(Activations) /\ Append(<<>>, a) = <<a>> /\ low \o v \in Seq(Activations)
      /\ Append(low, a) \in Seq(Activations)
  OBVIOUS
<1>2. Append(v, a) = v \o <<a>> /\ Append(low \o v, a) = (low \o v) \o <<a>> /\ Append(low, a) = low \o <<a>>
  BY <1>1, AppendIsConcat
<1>3. low \o (v \o <<a>>) = (low \o v) \o <<a>>
  BY ONLY low \in Seq(Activations), v \in Seq(Activations), <1>1, ConcatAssociative
<1>4. low \o <<>> = low /\ <<>> \o low = low
  BY ONLY low \in Seq(Activations), ConcatEmptySeq
<1>5. Append(low, a) # <<>>
  BY TopActivation
<1> QED
  BY <1>1, <1>2, <1>3, <1>4, <1>5

LEMMA ActivationType == \A m \in Methods \cup {None}, n \in Int : Activation(m, n) \in Activations
BY DEF Activation, Activations

LEMMA ActivationOf ==
  ASSUME NEW m, NEW n, InCode(m, n)
  PROVE  Activation(m, n) \in Activations
<1>0. m \in Methods /\ n \in Nat
  BY Instructions
<1>1. m \in Methods \cup {None} /\ n \in Int
  BY <1>0
<1> QED
  BY <1>1, ActivationType

LEMMA BecomesSame ==
  ASSUME NEW t \in Threads, Becomes(t, Stack[t])
  PROVE  Stack' = Stack
<1>1. Stack = [u \in Threads |-> Stack[u]]
  BY DEF Stack
<1> HIDE DEF Stack
<1> QED
  BY <1>1 DEF Becomes

LEMMA VisibleSame ==
  ASSUME Safe, NEW i \in Interps, call_stack'[i] = call_stack[i], jit_arg'[i] = jit_arg[i],
         \A k \in DOMAIN call_stack[i] : /\ method'[call_stack[i][k]] = method[call_stack[i][k]]
                                         /\ saved_ip'[call_stack[i][k]] = saved_ip[call_stack[i][k]]
  PROVE  Visible(i)' = Visible(i)
<1>1. call_stack[i] \in Seq(Frames)
  BY DEF Safe, InterpTypes
<1>2. \A k \in 1 .. Len(call_stack[i]) : /\ method'[call_stack[i][k]] = method[call_stack[i][k]]
                                         /\ saved_ip'[call_stack[i][k]] = saved_ip[call_stack[i][k]]
  BY <1>1
<1>3. CallersIn(call_stack'[i], method', saved_ip') = CallersIn(call_stack[i], method, saved_ip)
  BY <1>2 DEF CallersIn
<1> QED
  BY <1>3 DEF Visible, Callers, CallersIn

\* A new interpreter has no frames.
LEMMA NewInterpreter ==
  ASSUME NEW i \in Interps, at'[i] = "new", call_stack'[i] = <<>>
  PROVE  Settled(i)' /\ Visible(i)' = <<>> /\ (Shows(i)' <=> ~ jit_arg'[i])
<1>1. Held(i)' = <<>> /\ Len(<<>>) = 0
  BY DEF Held
<1>2. Settled(i)'
  BY <1>1 DEF Settled
<1>3. Callers(i)' = <<>>
  BY <1>1 DEF Callers
<1>4. Visible(i)' = <<>>
  BY <1>3 DEF Visible
<1>5. Shows(i)' <=> ~ jit_arg'[i]
  BY DEF Shows
<1> QED
  BY <1>2, <1>4, <1>5

\* Construct, as far as it is the same whoever makes the interpreter.
LEMMA Constructed ==
  ASSUME Sane, Safe', NEW t \in Threads, NEW i \in Interps, NEW m, NEW n, NEW jit \in BOOLEAN,
         Construct(t, i, m, n, jit), UNCHANGED <<frameVars, native>>,
         NEW L, L = Len(c_stack[t]), jit <=> (L # 0 /\ c_stack[t][L] \in Natives),
         jit => native[c_stack[t][L]] = Activation(m, n),
         NEW q, q = Part(t, L + 1)'
  PROVE  /\ Added(t, i) /\ \A x \in (Interps \cup Natives) \ {i} : Kept(x)
         /\ Sane' /\ q = IF jit THEN <<>> ELSE <<Activation(m, n)>>
<1> USE DEF Construct, frameVars
<1>1. Safe /\ Linked /\ \A j \in Interps : Settled(j)
  BY DEF Sane
<1>2. /\ at[i] = "off" /\ at'[i] = "new" /\ call_stack'[i] = <<>> /\ instrs'[i] = m /\ ip'[i] = n
      /\ jit_arg'[i] = jit
      /\ \A j \in Interps \ {i} : Untouched(j)
  BY <1>1 DEF Safe, InterpTypes, Untouched
<1>3. Added(t, i)
  BY <1>1, OffStack DEF Added
<1>4. \A j \in Interps \ {i} : Kept(j) /\ Settled(j)'
  BY <1>1, <1>2, UntouchedAside
<1>5. \A x \in (Interps \cup Natives) \ {i} : Kept(x)
  BY <1>4, NameAssumption DEF Kept
<1>6. Settled(i)' /\ Visible(i)' = <<>> /\ (Shows(i)' <=> ~ jit)
  BY <1>2, NewInterpreter
<1>7. Linked'
  <2>1. \A j \in Interps \ {i} : StaysLinked(j)
    BY <1>2 DEF Untouched, StaysLinked
  <2>2. \A b \in Natives \ {i} : native'[b] = native[b]
    OBVIOUS
  <2>3. i \in Interps => /\ jit_arg'[i] <=> (L # 0 /\ c_stack[t][L] \in Natives)
                         /\ jit_arg'[i] => native[c_stack[t][L]] = Activation(instrs'[i], ip'[i])
    BY <1>2
  <2> QED
    BY ONLY <1>1, <1>3, <2>1, <2>2, <2>3, L = Len(c_stack[t]), t \in Threads, LinkedGrows
<1>8. q = IF jit THEN <<>> ELSE <<Activation(m, n)>>
  <2>1. PICK M : M = L + 1
    OBVIOUS
  <2>2. M = Len(c_stack'[t]) /\ M \in DOMAIN c_stack'[t] /\ c_stack'[t][M] = i
    <3>1. L \in Nat /\ Len(c_stack'[t]) = L + 1 /\ DOMAIN c_stack'[t] = 1 .. L + 1 /\ c_stack'[t][L + 1] = i
      BY <1>1, <1>3, AddedEntry
    <3> QED
      BY <2>1, <3>1
  <2>3. /\ ~ Shows(i)' => Part(t, M)' = <<>>
        /\ Shows(i)' => Part(t, M)' = Append(Visible(i)', Activation(instrs'[i], ip'[i]))
    BY <2>2, TopShowsNext DEF TopShows
  <2>4. Append(<<>>, Activation(m, n)) = <<Activation(m, n)>>
    OBVIOUS
  <2> QED
    BY <1>2, <1>6, <2>1, <2>3, <2>4
<1>9. Sane'
  BY <1>4, <1>6, <1>7 DEF Sane
<1> QED
  BY <1>3, <1>5, <1>8, <1>9

LEMMA StartBegins ==
  ASSUME Sane, NEW t \in Threads, NEW i \in Interps, Start(t, i), entry' = entry
  PROVE  Calls!Next /\ Sane'
<1>1. /\ Construct(t, i, entry[t], 1, FALSE) /\ UNCHANGED <<frameVars, native>>
      /\ c_stack[t] = <<>> /\ entry[t] # None
  BY DEF Start
<1>2. Safe /\ Safe'
  BY StartSafe DEF Sane
<1>3. PICK L, q, m, n, jit : L = Len(c_stack[t]) /\ q = Part(t, L + 1)' /\ m = entry[t] /\ n = 1 /\ jit = FALSE
  OBVIOUS
<1>4. L = 0
  BY <1>1, <1>3
<1>5. /\ Added(t, i) /\ \A x \in (Interps \cup Natives) \ {i} : Kept(x)
      /\ Sane' /\ q = IF jit THEN <<>> ELSE <<Activation(m, n)>>
  <2>1. /\ Construct(t, i, m, n, jit) /\ UNCHANGED <<frameVars, native>> /\ jit \in BOOLEAN
        /\ jit <=> (L # 0 /\ c_stack[t][L] \in Natives)
        /\ jit => native[c_stack[t][L]] = Activation(m, n)
    BY <1>1, <1>3, <1>4
  <2> HIDE DEF Kept
  <2> QED
    BY ONLY Sane, <1>2, <1>3, <2>1, t \in Threads, i \in Interps, Constructed
<1>6. Stack[t] = <<>> /\ Becomes(t, q)
  <2>1. PICK e, p : e = c_stack[t][L] /\ p = Part(t, L)'
    OBVIOUS
  <2>2. /\ \A u \in Threads \ {t} : \A k \in DOMAIN c_stack[u] : Kept(c_stack[u][k])
        /\ \A k \in 1 .. L - 1 : Kept(c_stack[t][k])
    <3>1. \A u \in Threads : \A k \in DOMAIN c_stack[u] : c_stack[u][k] \in (Interps \cup Natives) \ {i}
      BY <1>2, <1>5 DEF Added, Safe, OtherTypes
    <3> HIDE DEF Kept
    <3> QED
      BY <1>4, <1>5, <3>1
  <2>3. i \in Interps => at'[i] # "leave"
    BY <1>1, <1>2 DEF Construct, Safe, InterpTypes
  <2>4. L # 0 /\ e \in Interps => at[e] # "leave" /\ at'[e] # "leave"
    BY <1>4
  <2> HIDE DEF Kept
  <2>5. L = 0 => Stack[t] = <<>> /\ Becomes(t, q)
    BY ONLY <1>2, <1>3, <1>5, <2>1, <2>2, <2>3, <2>4, t \in Threads, GrownStack
  <2> QED
    BY <1>4, <2>5
<1>7. q = <<Activation(entry[t], 1)>>
  BY <1>3, <1>5
<1>8. Calls!Next
  BY <1>1, <1>6, <1>7, IsBegin
<1> QED
  BY <1>5, <1>8

LEMMA StackCallbackQuiet ==
  ASSUME Sane, NEW t \in Threads, NEW a \in Natives, NEW i \in Interps, StackCallback(t, a, i),
         entry' = entry
  PROVE  Stack' = Stack /\ Sane'
<1>1. /\ Construct(t, i, native[a].method, native[a].ip, TRUE) /\ UNCHANGED <<frameVars, native>>
      /\ c_stack[t] # <<>> /\ a = Last(c_stack[t])
  BY DEF StackCallback, RunsNative
<1>2. Safe /\ Safe'
  BY StackCallbackSafe DEF Sane
<1>3. PICK L, q, p, m, n, jit : /\ L = Len(c_stack[t]) /\ q = Part(t, L + 1)' /\ p = Part(t, L)'
                                /\ m = native[a].method /\ n = native[a].ip /\ jit = TRUE
  OBVIOUS
<1>4. L \in Nat \ {0} /\ L \in DOMAIN c_stack[t] /\ c_stack[t][L] = a
  BY <1>1, <1>2, <1>3, Tops
<1>5. /\ Added(t, i) /\ \A x \in (Interps \cup Natives) \ {i} : Kept(x)
      /\ Sane' /\ q = IF jit THEN <<>> ELSE <<Activation(m, n)>>
  <2>1. native[a] = Activation(m, n)
    BY <1>2, <1>3 DEF Safe, OtherTypes, Activation
  <2>2. /\ Construct(t, i, m, n, jit) /\ UNCHANGED <<frameVars, native>> /\ jit \in BOOLEAN
        /\ jit <=> (L # 0 /\ c_stack[t][L] \in Natives)
        /\ jit => native[c_stack[t][L]] = Activation(m, n)
    BY <1>1, <1>3, <1>4, <2>1
  <2>3. L = Len(c_stack[t]) /\ q = Part(t, L + 1)'
    BY <1>3
  <2> HIDE DEF Kept
  <2> QED
    BY ONLY Sane, <1>2, <2>2, <2>3, t \in Threads, i \in Interps, Constructed
<1>6. \A u \in Threads : \A k \in DOMAIN c_stack[u] : Kept(c_stack[u][k])
  <2>1. \A u \in Threads : \A k \in DOMAIN c_stack[u] : c_stack[u][k] \in (Interps \cup Natives) \ {i}
    BY <1>2, <1>5 DEF Added, Safe, OtherTypes
  <2> HIDE DEF Kept
  <2> QED
    BY <1>5, <2>1
<1>7. /\ Stack[t] = Upto(t, L - 1) \o Part(t, L) /\ Upto(t, L - 1) \in Seq(Activations)
      /\ Becomes(t, (Upto(t, L - 1) \o p) \o q) /\ p \in Seq(Activations)
      /\ ~ Over(t, L)' /\ ~ Over(t, L)
  <2>1. PICK e : e = c_stack[t][L]
    OBVIOUS
  <2>2. /\ \A u \in Threads \ {t} : \A k \in DOMAIN c_stack[u] : Kept(c_stack[u][k])
        /\ \A k \in 1 .. L - 1 : Kept(c_stack[t][k])
    <3>1. \A k \in 1 .. L - 1 : k \in DOMAIN c_stack[t]
      BY <1>2, <1>3, <1>4 DEF Safe, OtherTypes
    <3> HIDE DEF Kept
    <3> QED
      BY <1>6, <3>1
  <2>3. i \in Interps => at'[i] # "leave"
    BY <1>1, <1>2 DEF Construct, Safe, InterpTypes
  <2>4. L # 0 /\ e \in Interps => at[e] # "leave" /\ at'[e] # "leave"
    BY <1>4, <2>1, NameAssumption
  <2>6. L = Len(c_stack[t]) /\ q = Part(t, L + 1)' /\ p = Part(t, L)' /\ Added(t, i)
    BY <1>3, <1>5
  <2> HIDE DEF Kept
  <2>5. L # 0 => /\ Stack[t] = Upto(t, L - 1) \o Part(t, L) /\ Upto(t, L - 1) \in Seq(Activations)
                 /\ Becomes(t, (Upto(t, L - 1) \o p) \o q)
    BY ONLY <1>2, <2>1, <2>2, <2>3, <2>4, <2>6, t \in Threads, GrownStack
  <2>7. L # 0 => p \in Seq(Activations)
    BY ONLY <1>2, <2>1, <2>2, <2>3, <2>4, <2>6, t \in Threads, GrownStack, SMTT(30)
  <2>8. ~ Over(t, L)' /\ ~ Over(t, L)
    BY ONLY <1>2, <2>1, <2>2, <2>3, <2>4, <2>6, t \in Threads, GrownStack
  <2> QED
    BY <1>4, <2>5, <2>7, <2>8
<1>8. p = Part(t, L)
  <2>1. L \in DOMAIN c_stack'[t] /\ c_stack'[t][L] = a
    <3>1. L \in Nat /\ DOMAIN c_stack'[t] = 1 .. L + 1 /\ \A k \in 1 .. L : c_stack'[t][k] = c_stack[t][k]
      BY <1>2, <1>3, <1>5, AddedEntry
    <3> QED
      BY <1>4, <3>1
  <2>2. Kept(a)
    BY <1>4, <1>6
  <2>3. Part(t, L)' = Part(t, L)
    <3> HIDE DEF Kept
    <3> QED
      BY ONLY <1>2, <1>4, <1>7, <2>1, <2>2, t \in Threads, KeptPart
  <2> QED
    BY <1>3, <2>3
<1>9. (Upto(t, L - 1) \o p) \o q = Stack[t]
  <2>1. q = <<>>
    BY <1>3, <1>5
  <2>2. PICK s : s = Upto(t, L - 1) \o p
    OBVIOUS
  <2>3. s \in Seq(Activations)
    BY <1>7, <2>2
  <2>4. s \o <<>> = s
    BY ONLY <2>3, ConcatEmptySeq
  <2> QED
    BY <1>7, <1>8, <2>1, <2>2, <2>4
<1>10. Becomes(t, Stack[t])
  BY <1>7, <1>9
<1> QED
  BY <1>5, <1>10, BecomesSame

LEMMA StackTop ==
  ASSUME Safe, NEW t \in Threads, c_stack[t] # <<>>, NEW L, L = Len(c_stack[t])
  PROVE  /\ Stack[t] = Upto(t, L - 1) \o Part(t, L) /\ Upto(t, L - 1) \in Seq(Activations)
         /\ Part(t, L) \in Seq(Activations) /\ L \in Nat \ {0} /\ L \in DOMAIN c_stack[t]
         /\ Last(c_stack[t]) = c_stack[t][L]
<1>1. PICK e : e = Last(c_stack[t])
  OBVIOUS
<1>2. L \in Nat \ {0} /\ L \in DOMAIN c_stack[t] /\ e = c_stack[t][L]
  BY <1>1, Tops
<1>3. L \in 1 .. L /\ L - 1 \in 0 .. L
  BY <1>2
<1> QED
  BY <1>1, <1>2, <1>3, StackedHolds, FormsHold DEF Stacked, Typed

\* The entry below one that a step adds, if it is not about to leave.
LEMMA GrownTop ==
  ASSUME Safe, Safe', NEW t \in Threads, NEW d, Added(t, d), c_stack[t] # <<>>,
         NEW e, e = Last(c_stack[t]), NEW L, L = Len(c_stack[t]),
         \A x \in (Interps \cup Natives) \ {d, e} : Kept(x),
         e \in Interps => at[e] # "leave" /\ at'[e] # "leave",
         d \in Interps => at'[d] # "leave",
         NEW p, p = Part(t, L)', NEW q, q = Part(t, L + 1)'
  PROVE  /\ Becomes(t, (Upto(t, L - 1) \o p) \o q) /\ p \in Seq(Activations) /\ q \in Seq(Activations)
         /\ \A k : Place(t, L, k)' = k
<1>1. /\ L \in Nat \ {0} /\ e = c_stack[t][L] /\ DOMAIN c_stack[t] = 1 .. L
      /\ \A n \in 1 .. L - 1 : c_stack[t][n] # e /\ c_stack[t][n] \in Interps \cup Natives
      /\ \A u \in Threads \ {t} : \A n \in DOMAIN c_stack[u] :
           c_stack[u][n] # e /\ c_stack[u][n] \in Interps \cup Natives
  BY Tops
<1>2. /\ DOMAIN c_stack'[t] = 1 .. L + 1
      /\ \A n \in 1 .. L : c_stack'[t][n] = c_stack[t][n] /\ c_stack[t][n] # d
  BY AddedEntry
<1>3. L \in DOMAIN c_stack'[t] /\ c_stack'[t][L] = e
  BY <1>1, <1>2
<1>4. \A u \in Threads : \A n \in DOMAIN c_stack[u] : c_stack[u][n] # d
  BY DEF Added
<1> HIDE DEF Kept
<1>5. \A u \in Threads \ {t} : \A n \in DOMAIN c_stack[u] : Kept(c_stack[u][n])
  BY <1>1, <1>4
<1>6. \A n \in 1 .. L - 1 : Kept(c_stack[t][n])
  BY <1>1, <1>2
<1>7. L # 0 /\ e \in Interps => at[e] # "leave" /\ at'[e] # "leave"
  OBVIOUS
<1>8. /\ Safe /\ Safe' /\ t \in Threads /\ Added(t, d) /\ L = Len(c_stack[t]) /\ e = c_stack[t][L]
      /\ p = Part(t, L)' /\ q = Part(t, L + 1)' /\ (d \in Interps => at'[d] # "leave")
  BY <1>1
<1>9. L # 0 => /\ Stack[t] = Upto(t, L - 1) \o Part(t, L) /\ Upto(t, L - 1) \in Seq(Activations)
               /\ Becomes(t, (Upto(t, L - 1) \o p) \o q)
  BY ONLY <1>5, <1>6, <1>7, <1>8, GrownStack
<1>10. q \in Seq(Activations) /\ (L # 0 => p \in Seq(Activations))
  BY ONLY <1>5, <1>6, <1>7, <1>8, GrownStack
<1>11. ~ Over(t, L)'
  BY ONLY <1>5, <1>6, <1>7, <1>8, GrownStack
<1>12. \A k : Place(t, L, k)' = k
  BY <1>11 DEF Place
<1> QED
  BY <1>1, <1>3, <1>9, <1>10, <1>12

LEMMA ExecuteMachineCodeQuiet ==
  ASSUME Sane, NEW t \in Threads, NEW i \in Interps, NEW a \in Natives, ExecuteMachineCode(t, i, a),
         entry' = entry
  PROVE  Stack' = Stack /\ Sane'
<1> USE DEF ExecuteMachineCode, Runs, frameVars
<1>1. Safe /\ Safe' /\ Settled(i) /\ Linked
  BY ExecuteMachineCodeSafe DEF Sane
<1>2. /\ at[i] = "jit" /\ at'[i] = "native" /\ ip[i] = 1 /\ instrs[i] \in Methods
      /\ native'[a] = Activation(instrs[i], 1) /\ i \notin Natives /\ a \notin Interps
      /\ \A j \in Interps \ {i} : at'[j] = at[j]
  <2>1. InCode(instrs[i], ip[i])
    BY <1>1 DEF Safe, Interpreting, Sound
  <2>2. native'[a] = Activation(instrs[i], 1)
    BY <1>1 DEF Safe, OtherTypes, Activation
  <2> QED
    BY <1>1, <2>1, <2>2, NameAssumption DEF Settled, InCode, Safe, InterpTypes
<1>3. \A j \in Interps \ {i} : Untouched(j)
  BY <1>2 DEF Untouched
<1>4. \A j \in Interps \ {i} : Kept(j) /\ Settled(j)'
  BY <1>1, <1>3, UntouchedAside DEF Sane
<1>5. \A b \in Natives \ {a} : native'[b] = native[b]
  BY <1>1 DEF Safe, OtherTypes
<1>6. \A x \in (Interps \cup Natives) \ {a, i} : Kept(x)
  BY <1>4, <1>5, NameAssumption DEF Kept
<1>7. Added(t, a)
  BY <1>1 DEF Added, ToSet
<1>8. PICK L, p, q : L = Len(c_stack[t]) /\ p = Part(t, L)' /\ q = Part(t, L + 1)'
  OBVIOUS
<1>9. Linked'
  <2>1. \A j \in Interps \ {a} : StaysLinked(j)
    BY <1>2 DEF StaysLinked
  <2>2. a \in Interps => /\ jit_arg'[a] <=> (L # 0 /\ c_stack[t][L] \in Natives)
                         /\ jit_arg'[a] => native[c_stack[t][L]] = Activation(instrs'[a], ip'[a])
    BY <1>2
  <2>3. L = Len(c_stack[t])
    BY <1>8
  <2> QED
    BY ONLY <1>1, <1>5, <1>7, <2>1, <2>2, <2>3, t \in Threads, LinkedGrows
<1>10. Settled(i)'
  BY <1>1, <1>2 DEF Settled, Held
<1>11. /\ L \in Nat \ {0} /\ i = c_stack[t][L] /\ L \in DOMAIN c_stack'[t] /\ c_stack'[t][L] = i
       /\ Stack[t] = Upto(t, L - 1) \o Part(t, L) /\ Upto(t, L - 1) \in Seq(Activations)
       /\ Becomes(t, (Upto(t, L - 1) \o p) \o q) /\ p \in Seq(Activations)
       /\ \A k : Place(t, L, k)' = k
  <2>1. /\ c_stack[t] # <<>> /\ i = Last(c_stack[t])
        /\ i \in Interps => at[i] # "leave" /\ at'[i] # "leave"
        /\ a \in Interps => at'[a] # "leave"
    BY <1>2
  <2> HIDE DEF ExecuteMachineCode, Runs, frameVars, Kept
  <2>2. /\ Stack[t] = Upto(t, L - 1) \o Part(t, L) /\ Upto(t, L - 1) \in Seq(Activations)
        /\ L \in Nat \ {0} /\ i = c_stack[t][L]
    BY ONLY <1>1, <1>8, <2>1, t \in Threads, StackTop
  <2>5. L \in DOMAIN c_stack'[t] /\ c_stack'[t][L] = i
    <3>1. /\ DOMAIN c_stack'[t] = 1 .. L + 1
          /\ \A n \in 1 .. L : c_stack'[t][n] = c_stack[t][n]
      BY ONLY <1>1, <1>7, <1>8, t \in Threads, AddedEntry
    <3> QED
      BY <2>2, <3>1, SMTT(30)
  <2>3. Becomes(t, (Upto(t, L - 1) \o p) \o q) /\ p \in Seq(Activations)
    BY ONLY <1>1, <1>6, <1>7, <1>8, <2>1, t \in Threads, GrownTop
  <2>4. \A k : Place(t, L, k)' = k
    BY ONLY <1>1, <1>6, <1>7, <1>8, <2>1, t \in Threads, GrownTop
  <2> QED
    BY <2>2, <2>3, <2>4, <2>5
<1>12. Visible(i)' = Visible(i)
  BY <1>1, VisibleSame
<1>13. Shows(i) /\ Shows(i)'
  BY <1>2 DEF Shows
<1>14. Part(t, L) = Append(Visible(i), Activation(instrs[i], 1))
  <2>1. L \in DOMAIN c_stack[t]
    BY <1>1, <1>8, <1>11 DEF Safe, OtherTypes
  <2> QED
    BY <1>1, <1>2, <1>8, <1>11, <1>13, <2>1, TopShowsHolds, SMTT(30) DEF TopShows
<1>15. p = Visible(i)
  <2>1. Shows(i)' /\ at'[i] = "native" => Part(t, L)' = Visible(i)'
    BY <1>1, <1>11, FormsHoldNext DEF Forms
  <2> QED
    BY <1>2, <1>8, <1>12, <1>13, <2>1
<1>16. q = <<Activation(instrs[i], 1)>>
  <2>1. PICK M : M = L + 1
    OBVIOUS
  <2>2. M = Len(c_stack'[t]) /\ M \in DOMAIN c_stack'[t] /\ c_stack'[t][M] = a
    <3>1. L \in Nat /\ Len(c_stack'[t]) = L + 1 /\ DOMAIN c_stack'[t] = 1 .. L + 1 /\ c_stack'[t][L + 1] = a
      BY <1>1, <1>7, <1>8, AddedEntry
    <3> QED
      BY <2>1, <3>1
  <2>3. Part(t, M)' = <<Activation(native'[a].method, native'[a].ip)>>
    BY <1>1, <2>2, TopShowsNext DEF TopShows
  <2> QED
    BY <1>2, <1>8, <2>1, <2>3 DEF Activation
<1>17. (Upto(t, L - 1) \o p) \o q = Stack[t]
  <2>1. PICK low, v, x : low = Upto(t, L - 1) /\ v = Visible(i) /\ x = Activation(instrs[i], 1)
    OBVIOUS
  <2>2. low \in Seq(Activations) /\ v \in Seq(Activations) /\ x \in Activations
    <3>1. v \in Seq(Activations)
      BY <1>1, <2>1, FormsHold DEF Typed
    <3>2. x \in Activations
      BY <1>2, <2>1, ActivationType
    <3> QED
      BY <1>11, <2>1, <3>1, <3>2
  <2>3. /\ low \o Append(v, x) = Append(low \o v, x) /\ low \o v \in Seq(Activations)
    BY ONLY <2>2, OnTop
  <2>4. (low \o v) \o <<x>> = Append(low \o v, x)
    <3>1. PICK w : w = low \o v
      OBVIOUS
    <3>2. w \in Seq(Activations)
      BY <2>3, <3>1
    <3>3. w \o <<x>> = Append(w, x)
      BY ONLY <2>2, <3>2, OnTop
    <3> QED
      BY <3>1, <3>3
  <2> QED
    BY <1>11, <1>14, <1>15, <1>16, <2>1, <2>3, <2>4
<1>18. Becomes(t, Stack[t])
  BY <1>11, <1>17
<1> QED
  BY <1>1, <1>4, <1>9, <1>10, <1>18, BecomesSame DEF Sane

(***************************************************************************)
(* Calls.                                                                  *)
(***************************************************************************)
LEMMA CallBackCalls ==
  ASSUME Sane, NEW t \in Threads, NEW i \in Interps, NEW j \in Interps, CallBack(t, i, j), entry' = entry
  PROVE  Calls!Next /\ Sane'
<1> USE DEF CallBack, Runs, frameVars
<1>1. Safe /\ Safe' /\ Settled(i) /\ Linked /\ Sound(i)
  BY CallBackSafe DEF Sane, Safe, Interpreting
<1>2. PICK m \in Instr(i).callees : instrs' = [instrs EXCEPT ![j] = m] /\ ip' = [ip EXCEPT ![j] = 1]
  OBVIOUS
<1>3. /\ at[i] = "run" /\ at'[i] = "dll" /\ at[j] = "off" /\ at'[j] = "new" /\ i # j /\ jit_arg'[j] = FALSE
      /\ call_stack'[j] = <<>> /\ instrs'[j] = m /\ ip'[j] = 1 /\ i \notin Natives /\ j \notin Natives
      /\ \A k \in Interps \ {i, j} : at'[k] = at[k]
      /\ \A k \in Interps \ {j} :
           /\ jit_arg'[k] = jit_arg[k] /\ call_stack'[k] = call_stack[k] /\ instrs'[k] = instrs[k]
           /\ ip'[k] = ip[k] /\ frame'[k] = frame[k]
  BY <1>1, <1>2, NameAssumption DEF Safe, InterpTypes
<1>4. \A k \in Interps \ {i, j} : Untouched(k)
  BY <1>3 DEF Untouched
<1>5. \A k \in Interps \ {i, j} : Kept(k) /\ Settled(k)'
  BY <1>1, <1>4, UntouchedAside DEF Sane
<1>6. \A x \in (Interps \cup Natives) \ {j, i} : Kept(x)
  BY <1>5, NameAssumption DEF Kept
<1>7. Added(t, j)
  BY <1>1, OffStack DEF Added
<1>8. PICK L, p, q : L = Len(c_stack[t]) /\ p = Part(t, L)' /\ q = Part(t, L + 1)'
  OBVIOUS
<1>9. c_stack[t] # <<>> /\ i = Last(c_stack[t]) /\ Shows(i)
  BY CallsFirst
<1>10. /\ Stack[t] = Upto(t, L - 1) \o Part(t, L) /\ Upto(t, L - 1) \in Seq(Activations)
       /\ L \in Nat \ {0} /\ L \in DOMAIN c_stack[t] /\ i = c_stack[t][L]
  BY ONLY <1>1, <1>8, <1>9, t \in Threads, StackTop
<1>11. L \in DOMAIN c_stack'[t] /\ c_stack'[t][L] = i /\ L + 1 = Len(c_stack'[t])
       /\ L + 1 \in DOMAIN c_stack'[t] /\ c_stack'[t][L + 1] = j
  <2>1. /\ DOMAIN c_stack'[t] = 1 .. L + 1 /\ Len(c_stack'[t]) = L + 1 /\ c_stack'[t][L + 1] = j
        /\ \A n \in 1 .. L : c_stack'[t][n] = c_stack[t][n]
    BY ONLY <1>1, <1>7, <1>8, t \in Threads, AddedEntry
  <2> QED
    BY <1>10, <2>1
<1>12. Linked'
  <2>1. \A k \in Interps \ {j} : StaysLinked(k)
    BY <1>3 DEF StaysLinked
  <2>2. j \in Interps => /\ jit_arg'[j] <=> (L # 0 /\ c_stack[t][L] \in Natives)
                         /\ jit_arg'[j] => native[c_stack[t][L]] = Activation(instrs'[j], ip'[j])
    BY <1>3, <1>10
  <2>3. L = Len(c_stack[t]) /\ \A b \in Natives \ {j} : native'[b] = native[b]
    BY <1>8
  <2> QED
    BY ONLY <1>1, <1>7, <2>1, <2>2, <2>3, t \in Threads, LinkedGrows
<1>13. Settled(i)'
  <2>1. Held(i)' = Held(i)
    <3>1. frame'[i] = frame[i] /\ call_stack'[i] = call_stack[i] /\ at[i] = "run" /\ at'[i] = "dll"
      BY <1>3
    <3> QED
      BY ONLY <3>1 DEF Held
  <2>2. jit_arg[i] => call_stack[i] # <<>>
    BY <1>3, <1>9 DEF Shows
  <2> QED
    BY <1>1, <1>3, <2>1, <2>2 DEF Settled
<1>14. Settled(j)' /\ Visible(j)' = <<>> /\ Shows(j)'
  BY <1>3, NewInterpreter
<1>15. Sane'
  BY <1>1, <1>5, <1>12, <1>13, <1>14 DEF Sane
<1>16. Becomes(t, (Upto(t, L - 1) \o p) \o q) /\ \A k : Place(t, L, k)' = k
  <2>1. /\ i \in Interps => at[i] # "leave" /\ at'[i] # "leave"
        /\ j \in Interps => at'[j] # "leave"
    BY <1>3
  <2> HIDE DEF CallBack, Runs, frameVars, Kept
  <2>2. Becomes(t, (Upto(t, L - 1) \o p) \o q)
    BY ONLY <1>1, <1>6, <1>7, <1>8, <1>9, <2>1, t \in Threads, GrownTop
  <2>3. \A k : Place(t, L, k)' = k
    BY ONLY <1>1, <1>6, <1>7, <1>8, <1>9, <2>1, t \in Threads, GrownTop
  <2> QED
    BY <2>2, <2>3
<1>17. PICK low, v, x, y : /\ low = Upto(t, L - 1) /\ v = Visible(i) /\ x = Activation(instrs[i], ip[i])
                           /\ y = Activation(m, 1)
  OBVIOUS
<1>18. Part(t, L) = Append(v, x)
  BY <1>1, <1>8, <1>9, <1>10, <1>17, TopShowsHolds, SMTT(30) DEF TopShows
<1>19. p = Append(v, x)
  <2>1. Visible(i)' = Visible(i)
    BY <1>1, <1>3, VisibleSame
  <2>2. Shows(i)' /\ at'[i] # "native" => Part(t, L)' = Append(Visible(i)', Activation(instrs'[i], Place(t, L, ip[i])'))
    BY <1>1, <1>11, FormsHoldNext DEF Forms
  <2>3. Shows(i)' /\ at'[i] # "native"
    BY <1>3 DEF Shows
  <2>4. Place(t, L, ip[i])' = ip[i]
    <3>1. PICK n : n = ip'[i]
      OBVIOUS
    <3>2. Place(t, L, n)' = n
      BY <1>16
    <3> QED
      BY <1>3, <3>1, <3>2 DEF Place
  <2> QED
    BY <1>3, <1>8, <1>17, <2>1, <2>2, <2>3, <2>4
<1>20. q = <<y>>
  <2>1. PICK M : M = L + 1
    OBVIOUS
  <2>2. Shows(j)' => Part(t, M)' = Append(Visible(j)', Activation(instrs'[j], ip'[j]))
    BY <1>1, <1>11, <2>1, TopShowsNext DEF TopShows
  <2> QED
    BY <1>3, <1>8, <1>14, <1>17, <2>1, <2>2
<1>21. low \in Seq(Activations) /\ v \in Seq(Activations) /\ x \in Activations /\ y \in Activations
  <2>1. v \in Seq(Activations)
    BY <1>1, <1>17, FormsHold DEF Typed
  <2>2. InCode(instrs[i], ip[i]) /\ m \in Methods
    <3>1. InCode(instrs[i], ip[i])
      BY <1>1, <1>3 DEF Sound
    <3> QED
      BY <1>2, <3>1, Instructions DEF Instr
  <2>3. x \in Activations /\ y \in Activations
    BY <1>17, <2>2, FirstInstruction, ActivationOf
  <2> QED
    BY <1>10, <1>17, <2>1, <2>3
<1>22. PICK w : w = low \o v
  OBVIOUS
<1>23. w \in Seq(Activations) /\ low \o Append(v, x) = Append(w, x)
  BY ONLY <1>21, <1>22, OnTop
<1>24. Append(w, x) \in Seq(Activations) /\ Append(w, x) \o <<y>> = Append(Append(w, x), y)
  <2>1. PICK z : z = Append(w, x)
    OBVIOUS
  <2>2. z \in Seq(Activations)
    BY <1>21, <1>23, <2>1
  <2>3. z \o <<y>> = Append(z, y)
    BY ONLY <1>21, <2>2, OnTop
  <2> QED
    BY <2>1, <2>2, <2>3
<1>25. Stack[t] = Append(w, x) /\ Becomes(t, Append(Append(w, x), Activation(m, 1)))
  BY <1>10, <1>16, <1>17, <1>18, <1>19, <1>20, <1>23, <1>24
<1>26. Code[x.method][x.ip].op \in {"MTHD_CALL", "DLL_FUNC_CALL"} /\ m \in Code[x.method][x.ip].callees
  BY <1>2, <1>17 DEF Instr, Activation
<1>27. t \in Threads /\ entry' = entry
  OBVIOUS
<1>28. Calls!Next
  BY ONLY <1>21, <1>23, <1>25, <1>26, <1>27, IsCall
<1> QED
  BY <1>15, <1>28

(***************************************************************************)
(* Steps within a method.                                                  *)
(***************************************************************************)
LEMMA Within ==
  ASSUME Sane, Safe', NEW t \in Threads, NEW i \in Interps, Runs(t, i, "run"),
         Instr(i).op \in {"STOR", "JMP"},
         NEW n, n = ip[i] + 1 \/ (Instr(i).op = "JMP" /\ n = Instr(i).to), ip' = [ip EXCEPT ![i] = n],
         UNCHANGED <<entry, method, saved_ip, jit_called, at, call_stack, frame, instrs, jit_arg, native, c_stack>>
  PROVE  Calls!Next /\ Sane'
<1> USE DEF Runs
<1>1. Safe /\ Settled(i) /\ Linked /\ Sound(i) /\ i \notin Natives
  BY NameAssumption DEF Sane, Safe, Interpreting
<1>2. at[i] = "run" /\ c_stack[t] # <<>> /\ i = Last(c_stack[t]) /\ Shows(i)
  BY CallsFirst
<1>3. ip'[i] = n /\ \A j \in Interps \ {i} : ip'[j] = ip[j]
  BY <1>1 DEF Safe, InterpTypes
<1>4. \A j \in Interps \ {i} : Untouched(j)
  BY <1>3 DEF Untouched
<1>5. \A j \in Interps \ {i} : Kept(j) /\ Settled(j)'
  BY <1>1, <1>4, UntouchedAside DEF Sane
<1>6. \A x \in (Interps \cup Natives) \ {i} : Kept(x)
  BY <1>5, NameAssumption DEF Kept
<1>7. Settled(i)'
  BY <1>1, <1>2 DEF Settled, Held
<1>8. Linked'
  <2>1. /\ \A j \in Interps \ {i} : /\ at'[j] = at[j] /\ call_stack'[j] = call_stack[j]
                                   /\ instrs'[j] = instrs[j] /\ ip'[j] = ip[j]
        /\ \A b \in Natives \ {i} : native'[b] = native[b]
    BY <1>3
  <2>2. /\ i \in Interps /\ jit_arg[i] /\ call_stack'[i] = <<>> /\ at'[i] \in {"new", "run"}
        => /\ call_stack[i] = <<>> /\ at[i] \in {"new", "run"}
           /\ instrs'[i] = instrs[i] /\ ip'[i] = ip[i]
    BY <1>2 DEF Shows
  <2>3. c_stack' = c_stack /\ jit_arg' = jit_arg
    OBVIOUS
  <2> QED
    BY ONLY <1>1, <1>2, <2>1, <2>2, <2>3, t \in Threads, LinkedStays
<1>9. PICK L, p, low, v, x : /\ L = Len(c_stack[t]) /\ p = Part(t, L)' /\ low = Upto(t, L - 1)
                             /\ v = Visible(i) /\ x = Activation(instrs[i], ip[i])
  OBVIOUS
<1>10. /\ Stack[t] = Upto(t, L - 1) \o Part(t, L) /\ Upto(t, L - 1) \in Seq(Activations)
       /\ L \in Nat \ {0} /\ L \in DOMAIN c_stack[t] /\ i = c_stack[t][L]
  BY ONLY <1>1, <1>2, <1>9, t \in Threads, StackTop
<1>11. Becomes(t, Upto(t, L - 1) \o p)
  <2>1. c_stack' = c_stack /\ (i \in Interps => (at'[i] = "leave" <=> at[i] = "leave")) /\ Safe'
    OBVIOUS
  <2> HIDE DEF Kept, Runs
  <2> QED
    BY ONLY <1>1, <1>2, <1>6, <1>9, <2>1, t \in Threads, TopOnly
<1>12. Part(t, L) = Append(v, x)
  BY <1>1, <1>2, <1>9, <1>10, TopShowsHolds DEF TopShows
<1>13. p = Append(v, Activation(instrs[i], n))
  <2>1. Visible(i)' = Visible(i)
    BY <1>1, VisibleSame
  <2>2. Shows(i)'
    BY <1>2 DEF Shows
  <2>3. Shows(i)' => Part(t, L)' = Append(Visible(i)', Activation(instrs'[i], ip'[i]))
    BY <1>9, <1>10, TopShowsNext, SMTT(30) DEF TopShows
  <2> QED
    BY <1>3, <1>9, <2>1, <2>2, <2>3
<1>14. InCode(instrs[i], ip[i]) /\ InCode(instrs[i], n)
  BY <1>1, <1>2, Instructions DEF Sound, Instr
<1>15. PICK y : y = Activation(instrs[i], n)
  OBVIOUS
<1>16. low \in Seq(Activations) /\ v \in Seq(Activations) /\ x \in Activations /\ y \in Activations
  <2>1. v \in Seq(Activations)
    BY <1>1, <1>9, FormsHold DEF Typed
  <2>2. x \in Activations /\ y \in Activations
    BY <1>9, <1>14, <1>15, ActivationOf
  <2> QED
    BY <1>9, <1>10, <2>1, <2>2
<1>17. PICK w : w = low \o v
  OBVIOUS
<1>18. w \in Seq(Activations) /\ low \o Append(v, x) = Append(w, x)
  BY ONLY <1>16, <1>17, OnTop
<1>19. low \o Append(v, y) = Append(w, y)
  BY ONLY <1>16, <1>17, OnTop
<1>20. x.method = instrs[i] /\ x.ip = ip[i]
  BY <1>9 DEF Activation
<1>21. Stack[t] = Append(w, x) /\ Becomes(t, Append(w, Activation(x.method, n)))
  BY <1>9, <1>10, <1>11, <1>12, <1>13, <1>15, <1>18, <1>19, <1>20
<1>22. /\ Code[x.method][x.ip].op \in {"STOR", "JMP"}
       /\ n = x.ip + 1 \/ (Code[x.method][x.ip].op = "JMP" /\ n = Code[x.method][x.ip].to)
  BY <1>20 DEF Instr
<1>23. t \in Threads /\ entry' = entry
  OBVIOUS
<1>24. Calls!Next
  BY ONLY <1>16, <1>18, <1>21, <1>22, <1>23, IsStep
<1> QED
  BY <1>5, <1>7, <1>8, <1>24 DEF Sane

LEMMA StoreSteps ==
  ASSUME Sane, NEW t \in Threads, NEW i \in Interps, Store(t, i), entry' = entry
  PROVE  Calls!Next /\ Sane'
<1>1. Safe'
  BY StoreSafe DEF Sane
<1>2. PICK n : n = ip[i] + 1
  OBVIOUS
<1>3. /\ Runs(t, i, "run") /\ Instr(i).op \in {"STOR", "JMP"} /\ ip' = [ip EXCEPT ![i] = n]
      /\ UNCHANGED <<entry, method, saved_ip, jit_called, at, call_stack, frame, instrs, jit_arg, native, c_stack>>
  BY <1>2 DEF Store
<1> QED
  BY <1>1, <1>2, <1>3, Within

LEMMA JumpSteps ==
  ASSUME Sane, NEW t \in Threads, NEW i \in Interps, Jump(t, i), entry' = entry
  PROVE  Calls!Next /\ Sane'
<1>1. Safe'
  BY JumpSafe DEF Sane
<1>2. PICK n \in {ip[i] + 1, Instr(i).to} : ip' = [ip EXCEPT ![i] = n]
  BY DEF Jump
<1>3. /\ Runs(t, i, "run") /\ Instr(i).op \in {"STOR", "JMP"} /\ Instr(i).op = "JMP"
      /\ UNCHANGED <<entry, method, saved_ip, jit_called, at, call_stack, frame, instrs, jit_arg, native, c_stack>>
  BY DEF Jump, frameVars
<1>4. n = ip[i] + 1 \/ (Instr(i).op = "JMP" /\ n = Instr(i).to)
  BY <1>2, <1>3
<1> QED
  BY <1>1, <1>2, <1>3, <1>4, Within

LEMMA NativeStepSteps ==
  ASSUME Sane, NEW t \in Threads, NEW a \in Natives, NativeStep(t, a), entry' = entry
  PROVE  Calls!Next /\ Sane'
<1> USE DEF NativeStep, RunsNative, frameVars, interpVars
<1>1. Safe /\ Safe' /\ Linked /\ a \notin Interps
  BY NativeStepSafe, NameAssumption DEF Sane
<1>2. PICK n \in {native[a].ip + 1} \cup (IF NativeInstr(a).op = "JMP" THEN {NativeInstr(a).to} ELSE {}) :
        native' = [native EXCEPT ![a].ip = n]
  OBVIOUS
<1>3. c_stack[t] # <<>> /\ a = Last(c_stack[t]) /\ NativeInstr(a).op \in {"STOR", "JMP"}
  OBVIOUS
<1>4. InCode(native[a].method, native[a].ip) /\ InCode(native[a].method, n)
  <2>1. InCode(native[a].method, native[a].ip)
    BY <1>1, <1>3, TopOfStack
  <2>2. Code[native[a].method][native[a].ip].op \in {"STOR", "JMP"}
    BY <1>3 DEF NativeInstr
  <2>3. /\ InCode(native[a].method, native[a].ip + 1)
        /\ Code[native[a].method][native[a].ip].op = "JMP" =>
             InCode(native[a].method, Code[native[a].method][native[a].ip].to)
    BY <2>1, <2>2, Instructions
  <2>4. InCode(native[a].method, n)
    BY <1>2, <2>3 DEF NativeInstr
  <2> QED
    BY <2>1, <2>4
<1>5. /\ native'[a].method = native[a].method /\ native'[a].ip = n
      /\ \A b \in Natives \ {a} : native'[b] = native[b]
  BY <1>1, <1>2 DEF Safe, OtherTypes
<1>6. \A j \in Interps : Untouched(j)
  BY DEF Untouched
<1>7. \A j \in Interps : Kept(j) /\ Settled(j)'
  BY <1>1, <1>6, UntouchedAside DEF Sane
<1>8. \A x \in (Interps \cup Natives) \ {a} : Kept(x)
  BY <1>5, <1>7, NameAssumption DEF Kept
<1>9. Linked'
  <2>1. /\ \A j \in Interps \ {a} : /\ at'[j] = at[j] /\ call_stack'[j] = call_stack[j]
                                    /\ instrs'[j] = instrs[j] /\ ip'[j] = ip[j]
        /\ \A b \in Natives \ {a} : native'[b] = native[b]
        /\ c_stack' = c_stack /\ jit_arg' = jit_arg
    BY <1>5
  <2>2. /\ a \in Interps /\ jit_arg[a] /\ call_stack'[a] = <<>> /\ at'[a] \in {"new", "run"}
        => /\ call_stack[a] = <<>> /\ at[a] \in {"new", "run"}
           /\ instrs'[a] = instrs[a] /\ ip'[a] = ip[a]
    BY <1>1
  <2> QED
    BY ONLY <1>1, <1>3, <2>1, <2>2, t \in Threads, LinkedStays
<1>10. PICK L, p, low, x, y : /\ L = Len(c_stack[t]) /\ p = Part(t, L)' /\ low = Upto(t, L - 1)
                              /\ x = Activation(native[a].method, native[a].ip)
                              /\ y = Activation(native[a].method, n)
  OBVIOUS
<1>11. /\ Stack[t] = Upto(t, L - 1) \o Part(t, L) /\ Upto(t, L - 1) \in Seq(Activations)
       /\ L \in Nat \ {0} /\ L \in DOMAIN c_stack[t] /\ a = c_stack[t][L]
  BY ONLY <1>1, <1>3, <1>10, t \in Threads, StackTop
<1>12. Becomes(t, Upto(t, L - 1) \o p)
  <2>1. c_stack' = c_stack /\ (a \in Interps => (at'[a] = "leave" <=> at[a] = "leave")) /\ Safe'
    BY <1>1
  <2> HIDE DEF Kept, RunsNative
  <2> QED
    BY ONLY <1>1, <1>3, <1>8, <1>10, <2>1, t \in Threads, TopOnly
<1>13. Part(t, L) = <<x>>
  BY <1>1, <1>10, <1>11, TopShowsHolds DEF TopShows
<1>14. p = <<y>>
  <2>1. Part(t, L)' = <<Activation(native'[a].method, native'[a].ip)>>
    <3>1. TopShows'
      BY ONLY <1>1, TopShowsNext
    <3>2. c_stack' = c_stack
      OBVIOUS
    <3>3. L \in DOMAIN c_stack'[t] /\ L = Len(c_stack'[t]) /\ c_stack'[t][L] = a
      BY ONLY <1>10, <1>11, <3>2
    <3> QED
      BY ONLY <3>1, <3>3, t \in Threads, a \in Natives DEF TopShows
  <2> QED
    BY <1>5, <1>10, <2>1
<1>15. low \in Seq(Activations) /\ x \in Activations /\ y \in Activations
  BY <1>4, <1>10, <1>11, ActivationOf
<1>16. low \o <<x>> = Append(low, x)
  BY ONLY <1>15, OnTop
<1>17. low \o <<y>> = Append(low, y)
  BY ONLY <1>15, OnTop
<1>18. x.method = native[a].method /\ x.ip = native[a].ip
  BY <1>10 DEF Activation
<1>19. Stack[t] = Append(low, x) /\ Becomes(t, Append(low, Activation(x.method, n)))
  BY <1>10, <1>11, <1>12, <1>13, <1>14, <1>16, <1>17, <1>18
<1>20. /\ Code[x.method][x.ip].op \in {"STOR", "JMP"}
       /\ n = x.ip + 1 \/ (Code[x.method][x.ip].op = "JMP" /\ n = Code[x.method][x.ip].to)
  BY <1>2, <1>3, <1>18 DEF NativeInstr
<1>21. t \in Threads /\ entry' = entry
  OBVIOUS
<1>22. Calls!Next
  BY ONLY <1>15, <1>19, <1>20, <1>21, IsStep
<1> QED
  BY <1>1, <1>7, <1>9, <1>22 DEF Sane

(***************************************************************************)
(* The call instruction.                                                   *)
(***************************************************************************)
CallersKeep(i, g) ==
  \A k \in DOMAIN call_stack[i] : /\ call_stack[i][k] \in Frames \ {g}
                                   /\ call_stack[i][k] \in ToSet(Held(i))
                                   /\ saved_ip'[call_stack[i][k]] = saved_ip[call_stack[i][k]]

\* What it does to the frames: the caller's says where to go on and is pushed.
LEMMA CallerSaved ==
  ASSUME Safe, NEW i \in Interps, at[i] = "run", NEW g, g = frame[i],
         saved_ip' = [saved_ip EXCEPT ![g] = ip[i] + 1]
  PROVE  /\ g \in Frames /\ g \in ToSet(Held(i)) /\ Held(i) = Append(call_stack[i], g)
         /\ call_stack[i] \in Seq(Frames) /\ method[g] = instrs[i]
         /\ ip[i] \in Nat /\ InCode(instrs[i], ip[i])
         /\ saved_ip'[g] = ip[i] + 1 /\ \A f \in Frames \ ToSet(Held(i)) : saved_ip'[f] = saved_ip[f]
         /\ CallersKeep(i, g)
         /\ \A j \in Interps \ {i} : \A f \in ToSet(Held(j)) : saved_ip'[f] = saved_ip[f]
<1>1. Sound(i) /\ InCode(instrs[i], ip[i]) /\ ip[i] \in Nat /\ method[g] = instrs[i]
  BY Instructions DEF Safe, Interpreting, Sound
<1>2. /\ g \in Frames /\ g \in ToSet(Held(i)) /\ Held(i) = Append(call_stack[i], g)
      /\ call_stack[i] \in Seq(Frames) /\ IsInjective(Held(i))
      /\ \A j \in Interps \ {i} : ToSet(Held(i)) \cap ToSet(Held(j)) = {}
      /\ \A k \in DOMAIN call_stack[i] : call_stack[i][k] \in ToSet(Held(i))
  BY HeldFrames
<1>3. \A j \in Interps : Held(j) \in Seq(Frames)
  BY HeldFrames
<1>4. \A j \in Interps : ToSet(Held(j)) \subseteq Frames
  BY <1>3 DEF ToSet
<1>5. saved_ip'[g] = ip[i] + 1 /\ \A f \in Frames \ {g} : saved_ip'[f] = saved_ip[f]
  BY <1>2 DEF Safe, FrameTypes
<1>6. g \notin ToSet(call_stack[i])
  BY <1>2, Pushed
<1>7. \A k \in DOMAIN call_stack[i] : call_stack[i][k] \in Frames \ {g}
  BY <1>2, <1>6 DEF ToSet
<1> QED
  BY <1>1, <1>2, <1>4, <1>5, <1>7 DEF CallersKeep

LEMMA CallMethodExits ==
  ASSUME Sane, NEW t \in Threads, NEW i \in Interps, CallMethod(t, i), exited', entry' = entry
  PROVE  Stack' = Stack /\ Sane'
<1> USE DEF CallMethod, Runs
<1>1. Safe /\ Safe' /\ Settled(i)
  BY CallMethodSafe DEF Sane
<1>2. PICK g : g = frame[i]
  OBVIOUS
<1>3. /\ at[i] = "run" /\ c_stack[t] # <<>> /\ i = Last(c_stack[t])
      /\ saved_ip' = [saved_ip EXCEPT ![g] = ip[i] + 1] /\ ~ exited
  BY <1>2
<1>4. /\ \A k \in DOMAIN call_stack[i] : saved_ip'[call_stack[i][k]] = saved_ip[call_stack[i][k]]
      /\ \A j \in Interps \ {i} : \A f \in ToSet(Held(j)) : saved_ip'[f] = saved_ip[f]
  <2> HIDE DEF CallMethod, Runs
  <2>1. /\ g \in Frames
        /\ CallersKeep(i, g)
    BY ONLY <1>1, <1>2, <1>3, i \in Interps, CallerSaved
  <2>2. g \in Frames /\ \A j \in Interps \ {i} : \A f \in ToSet(Held(j)) : saved_ip'[f] = saved_ip[f]
    BY ONLY <1>1, <1>2, <1>3, i \in Interps, CallerSaved
  <2> QED
    BY <2>1, <2>2 DEF CallersKeep
<1>5. /\ UNCHANGED <<at, frame, instrs, ip, method, jit_called, call_stack>>
      /\ UNCHANGED <<jit_arg, native, c_stack>>
  BY <1>3 DEF PushFrame
<1> HIDE DEF CallMethod, Runs
<1>6. \A j \in Interps \ {i} : Untouched(j)
  BY <1>4, <1>5 DEF Untouched
<1>7. Settled(i)'
  BY <1>1, <1>3, <1>5 DEF Settled, Held
<1>8. Shows(i)' <=> Shows(i)
  BY <1>5 DEF Shows
<1>9. /\ c_stack' = c_stack /\ jit_arg' = jit_arg /\ native' = native
      /\ call_stack'[i] = call_stack[i] /\ instrs'[i] = instrs[i] /\ ip'[i] = ip[i]
      /\ at[i] # "leave" /\ at'[i] # "leave"
      /\ \A k \in DOMAIN call_stack[i] : /\ method'[call_stack[i][k]] = method[call_stack[i][k]]
                                         /\ saved_ip'[call_stack[i][k]] = saved_ip[call_stack[i][k]]
  BY <1>3, <1>4, <1>5
<1> QED
  BY ONLY Sane, <1>1, <1>3, <1>6, <1>7, <1>8, <1>9, t \in Threads, i \in Interps, Quiet

\* What the call makes of interpreter i, frame g of its caller and method m.
Called(i, g, m) ==
  /\ m \in Instr(i).callees /\ call_stack'[i] = Append(call_stack[i], g) /\ instrs'[i] = m /\ ip'[i] = 1
  /\ c_stack' = c_stack /\ jit_arg' = jit_arg /\ native' = native
  /\ \A f \in ToSet(Held(i)) : method'[f] = method[f]
  /\ \A j \in Interps \ {i} : Untouched(j)
  /\ at'[i] \in {"jit", "run"} /\ Settled(i)'

LEMMA CallMethodMoves ==
  ASSUME Sane, NEW t \in Threads, NEW i \in Interps, CallMethod(t, i), ~ exited', entry' = entry,
         NEW g, g = frame[i]
  PROVE  \E m : Called(i, g, m)
<1>1. Safe /\ Safe' /\ Settled(i) /\ jit_arg[i] \in BOOLEAN
  BY CallMethodSafe DEF Sane, Safe, InterpTypes
<1>2. /\ at[i] = "run" /\ saved_ip' = [saved_ip EXCEPT ![g] = ip[i] + 1] /\ PushFrame(i)
      /\ c_stack' = c_stack /\ jit_arg' = jit_arg /\ native' = native
  BY DEF CallMethod, Runs
<1>3. PICK m \in Instr(i).callees :
        /\ instrs' = [instrs EXCEPT ![i] = m] /\ ip' = [ip EXCEPT ![i] = 1]
        /\ IF Instr(i).native
           THEN /\ at' = [at EXCEPT ![i] = "jit"]
                /\ UNCHANGED <<frame, method, jit_called, stored, cached_frames, free_frames>>
           ELSE /\ \E f \in Frames :
                     GetStackFrame(f, m, FALSE) /\ frame' = [frame EXCEPT ![i] = f]
                /\ UNCHANGED at
  BY DEF CallMethod
<1>4. /\ g \in Frames /\ g \in ToSet(Held(i)) /\ Held(i) = Append(call_stack[i], g)
      /\ call_stack[i] \in Seq(Frames) /\ \A f \in Frames \ ToSet(Held(i)) : saved_ip'[f] = saved_ip[f]
  BY ONLY <1>1, <1>2, i \in Interps, g = frame[i], CallerSaved
<1>5. g \in Frames /\ \A j \in Interps \ {i} : \A f \in ToSet(Held(j)) : saved_ip'[f] = saved_ip[f]
  BY ONLY <1>1, <1>2, i \in Interps, g = frame[i], CallerSaved
<1>6. call_stack' = [call_stack EXCEPT ![i] = Append(@, g)]
  BY <1>2 DEF PushFrame
<1>7. /\ call_stack'[i] = Append(call_stack[i], g) /\ instrs'[i] = m /\ ip'[i] = 1
      /\ \A j \in Interps \ {i} : call_stack'[j] = call_stack[j] /\ instrs'[j] = instrs[j] /\ ip'[j] = ip[j]
  BY <1>1, <1>3, <1>6 DEF Safe, InterpTypes
<1>8. \A k \in DOMAIN Held(i) : /\ Held(i)[k] \in ToSet(Held(i))
                                /\ jit_called[Held(i)[k]] <=> (jit_arg[i] /\ k = 1)
  BY <1>1 DEF Settled, ToSet
<1>9. CASE Instr(i).native
  <2>1. at' = [at EXCEPT ![i] = "jit"] /\ frame' = frame /\ method' = method /\ jit_called' = jit_called
    BY <1>3, <1>9
  <2>2. at'[i] = "jit" /\ \A j \in Interps \ {i} : at'[j] = at[j]
    BY <1>1, <2>1 DEF Safe, InterpTypes
  <2>3. \A j \in Interps \ {i} : Untouched(j)
    BY <1>2, <1>5, <1>7, <2>1, <2>2 DEF Untouched
  <2>4. Held(i)' = Held(i)
    BY <1>4, <1>7, <2>2 DEF Held
  <2>5. Settled(i)'
    BY <1>2, <1>7, <1>8, <2>1, <2>2, <2>4 DEF Settled
  <2> QED
    BY <1>2, <1>3, <1>7, <2>1, <2>2, <2>3, <2>5 DEF Called
<1>10. CASE ~ Instr(i).native
  <2>1. PICK f \in Frames : GetStackFrame(f, m, FALSE) /\ frame' = [frame EXCEPT ![i] = f]
    BY <1>3, <1>10
  <2>2. at' = at
    BY <1>3, <1>10
  <2>3. at'[i] = "run" /\ frame'[i] = f /\ \A j \in Interps \ {i} : at'[j] = at[j] /\ frame'[j] = frame[j]
    BY <1>1, <1>2, <2>1, <2>2 DEF Safe, InterpTypes
  <2>4. /\ jit_called'[f] = FALSE
        /\ \A j \in Interps : \A h \in ToSet(Held(j)) :
             h \in Frames /\ method'[h] = method[h] /\ jit_called'[h] = jit_called[h]
    <3>1. PICK b : b = FALSE
      OBVIOUS
    <3>2. GetStackFrame(f, m, b) /\ \A h \in Frames \ ToSet(Held(i)) : saved_ip'[h] = saved_ip[h]
      BY <1>4, <2>1, <3>1
    <3>3. /\ f \in Frames /\ jit_called'[f] = b
          /\ \A j \in Interps : \A h \in ToSet(Held(j)) :
               h \in Frames /\ method'[h] = method[h] /\ jit_called'[h] = jit_called[h]
      BY <1>1, <3>2, GotAside
    <3> QED
      BY <3>1, <3>3
  <2>5. \A j \in Interps \ {i} : Untouched(j)
    BY <1>2, <1>5, <1>7, <2>3, <2>4 DEF Untouched
  <2>6. PICK h : h = Held(i)
    OBVIOUS
  <2>7. Held(i)' = Append(h, f) /\ h \in Seq(Frames) /\ h # <<>>
    BY <1>1, <1>4, <1>7, <2>3, <2>6, HeldFrames DEF Held, ToSet
  <2>8. /\ \A k \in DOMAIN h : Append(h, f)[k] = h[k]
        /\ Append(h, f)[Len(h) + 1] = f
        /\ \A k \in DOMAIN Append(h, f) : k \in DOMAIN h \/ k = Len(h) + 1
    BY ONLY <2>7, f \in Frames, Pushed
  <2>9. Len(h) + 1 # 1
    <3>1. Len(h) \in Nat \ {0}
      BY <2>7
    <3> QED
      BY <3>1
  <2>10. \A k \in DOMAIN h : h[k] \in ToSet(Held(i)) /\ (jit_called[h[k]] <=> (jit_arg[i] /\ k = 1))
    BY <1>8, <2>6
  <2>11. \A k \in DOMAIN h : jit_called'[h[k]] <=> (jit_arg[i] /\ k = 1)
    BY <2>4, <2>10
  <2>12. \A k \in DOMAIN Held(i)' : jit_called'[Held(i)'[k]] <=> (jit_arg'[i] /\ k = 1)
    BY <1>2, <2>4, <2>7, <2>8, <2>9, <2>11
  <2>13. Settled(i)'
    BY <2>3, <2>12 DEF Settled
  <2> QED
    BY <1>2, <1>3, <1>7, <2>3, <2>4, <2>5, <2>13 DEF Called
<1> QED
  BY <1>9, <1>10

\* The caller is among the activations below the callee.
LEMMA CallerBelow ==
  ASSUME Safe, Safe', NEW i \in Interps, at[i] = "run", NEW g, g = frame[i],
         saved_ip' = [saved_ip EXCEPT ![g] = ip[i] + 1], NEW m, Called(i, g, m)
  PROVE  /\ ~ Shows(i) => Visible(i)' = <<>>
         /\ Shows(i) => Visible(i)' = Append(Visible(i), Activation(instrs[i], ip[i]))
<1>1. /\ g \in Frames /\ g \in ToSet(Held(i)) /\ call_stack[i] \in Seq(Frames) /\ method[g] = instrs[i]
      /\ ip[i] \in Nat /\ saved_ip'[g] = ip[i] + 1
  <2>1. g \in Frames /\ g \in ToSet(Held(i)) /\ call_stack[i] \in Seq(Frames)
    BY ONLY Safe, i \in Interps, at[i] = "run", g = frame[i], saved_ip' = [saved_ip EXCEPT ![g] = ip[i] + 1],
           CallerSaved
  <2>2. method[g] = instrs[i] /\ ip[i] \in Nat
    <3>1. Sound(i) /\ ip[i] \in Nat
      BY DEF Safe, Interpreting, InterpTypes
    <3> QED
      BY <3>1 DEF Sound
  <2>3. saved_ip'[g] = ip[i] + 1
    BY <2>1 DEF Safe, FrameTypes
  <2> QED
    BY <2>1, <2>2, <2>3
<1>2. g \in Frames /\ CallersKeep(i, g)
  BY CallerSaved
<1>3. PICK q, r, jit, m2, s2 : /\ q = call_stack[i] /\ r = Append(q, g) /\ jit = jit_arg[i] /\ m2 = method'
                               /\ s2 = saved_ip'
  OBVIOUS
<1>4. /\ q \in Seq(Frames) /\ method \in [Frames -> Methods \cup {None}]
      /\ m2 \in [Frames -> Methods \cup {None}] /\ saved_ip \in [Frames -> Nat] /\ s2 \in [Frames -> Nat]
  BY <1>1, <1>3 DEF Safe, FrameTypes
<1>5. \A k \in DOMAIN q : m2[q[k]] = method[q[k]] /\ s2[q[k]] = saved_ip[q[k]]
  BY <1>2, <1>3 DEF CallersKeep, Called
<1>6. Visible(i) = VisibleIn(jit, q, method, saved_ip)
  BY <1>3, VisibleIs
<1>7. PICK v, x : v = VisibleIn(jit, q, method, saved_ip) /\ x = Activation(m2[g], s2[g] - 1)
  OBVIOUS
<1>8. Visible(i)' = VisibleIn(jit, r, m2, s2)
  BY <1>3 DEF Called, Visible, VisibleIn, Callers, CallersIn
<1>9. /\ jit /\ q = <<>> => VisibleIn(jit, r, m2, s2) = <<>>
      /\ ~ (jit /\ q = <<>>) => VisibleIn(jit, r, m2, s2) = Append(v, x)
  <2>1. Deepens(q, g, jit, method, m2, saved_ip, s2)
    BY ONLY <1>1, <1>4, <1>5, Deeper
  <2> QED
    BY <1>3, <1>7, <2>1 DEF Deepens
<1>10. x = Activation(instrs[i], ip[i])
  <2>1. m2[g] = instrs[i] /\ s2[g] - 1 = ip[i]
    BY <1>1, <1>3 DEF Called
  <2> QED
    BY <1>7, <2>1
<1>11. Shows(i) <=> ~ (jit /\ q = <<>>)
  BY <1>3 DEF Shows
<1> QED
  BY <1>6, <1>7, <1>8, <1>9, <1>10, <1>11

\* Native code that waits for an interpreter at the top shows its call.
LEMMA NativeBelow ==
  ASSUME Safe, NEW t \in Threads, c_stack[t] # <<>>, NEW L, L = Len(c_stack[t]), L > 1,
         NEW b, b = c_stack[t][L - 1], b \in Natives, at[c_stack[t][L]] # "leave"
  PROVE  /\ Upto(t, L - 2) \in Seq(Activations)
         /\ Upto(t, L - 1) = Upto(t, L - 2) \o <<Activation(native[b].method, native[b].ip)>>
<1>1. PICK k : k = L - 1
  OBVIOUS
<1>2. L \in Nat /\ DOMAIN c_stack[t] = 1 .. L
  BY DEF Safe, OtherTypes
<1>3. k \in DOMAIN c_stack[t] /\ k \in 1 .. Len(c_stack[t]) /\ k - 1 \in 0 .. Len(c_stack[t]) /\ k - 1 = L - 2
      /\ k + 1 = L
  BY <1>1, <1>2
<1>4. ~ Over(t, k)
  BY <1>3 DEF Over
<1>5. Place(t, k, native[b].ip) = native[b].ip
  BY <1>4 DEF Place
<1>6. Part(t, k) = <<Activation(native[b].method, native[b].ip)>>
  BY <1>1, <1>3, <1>5, FormsHold DEF Forms
<1>7. Upto(t, k) = Upto(t, k - 1) \o Part(t, k) /\ Upto(t, k - 1) \in Seq(Activations)
  BY <1>3, StackedHolds DEF Stacked
<1> QED
  BY <1>1, <1>3, <1>6, <1>7

LEMMA CallMethodCalls ==
  ASSUME Sane, NEW t \in Threads, NEW i \in Interps, CallMethod(t, i), ~ exited', entry' = entry
  PROVE  Calls!Next /\ Sane'
<1>1. Safe /\ Safe' /\ Linked /\ Sound(i) /\ i \notin Natives
  BY CallMethodSafe, NameAssumption DEF Sane, Safe, Interpreting
<1>2. PICK g : g = frame[i]
  OBVIOUS
<1>3. /\ at[i] = "run" /\ saved_ip' = [saved_ip EXCEPT ![g] = ip[i] + 1] /\ Runs(t, i, "run")
      /\ c_stack[t] # <<>> /\ i = Last(c_stack[t]) /\ Instr(i).op = "MTHD_CALL"
  BY <1>2 DEF CallMethod, Runs
<1>4. PICK m : Called(i, g, m)
  BY <1>2, CallMethodMoves
<1>5. /\ ~ Shows(i) => Visible(i)' = <<>>
      /\ Shows(i) => Visible(i)' = Append(Visible(i), Activation(instrs[i], ip[i]))
  BY ONLY <1>1, <1>2, <1>3, <1>4, i \in Interps, CallerBelow
<1>6. /\ c_stack' = c_stack /\ jit_arg' = jit_arg /\ native' = native /\ Settled(i)'
      /\ m \in Instr(i).callees /\ instrs'[i] = m /\ ip'[i] = 1 /\ at'[i] \in {"jit", "run"}
      /\ call_stack'[i] # <<>>
  <2>1. PICK q : q = call_stack[i]
    OBVIOUS
  <2>2. q \in Seq(Frames) /\ g \in Frames
    BY <1>1, <1>2, <1>3, <2>1, HeldFrames
  <2>3. Append(q, g) # <<>>
    <3>1. Len(Append(q, g)) = Len(q) + 1 /\ Len(q) \in Nat
      BY <2>2
    <3> QED
      BY <3>1
  <2> QED
    BY <1>4, <2>1, <2>3 DEF Called
<1>7. \A j \in Interps \ {i} : Untouched(j)
  BY <1>4 DEF Called
<1>8. \A j \in Interps \ {i} : Kept(j) /\ Settled(j)'
  BY <1>1, <1>7, UntouchedAside DEF Sane
<1>9. \A x \in (Interps \cup Natives) \ {i} : Kept(x)
  BY <1>6, <1>8, NameAssumption DEF Kept
<1>10. Linked'
  <2>1. /\ \A j \in Interps \ {i} : /\ at'[j] = at[j] /\ call_stack'[j] = call_stack[j]
                                   /\ instrs'[j] = instrs[j] /\ ip'[j] = ip[j]
        /\ \A b \in Natives \ {i} : native'[b] = native[b]
    BY <1>6, <1>7 DEF Untouched
  <2>2. /\ i \in Interps /\ jit_arg[i] /\ call_stack'[i] = <<>> /\ at'[i] \in {"new", "run"}
        => /\ call_stack[i] = <<>> /\ at[i] \in {"new", "run"}
           /\ instrs'[i] = instrs[i] /\ ip'[i] = ip[i]
    BY <1>6
  <2> QED
    BY ONLY <1>1, <1>3, <1>6, <2>1, <2>2, t \in Threads, LinkedStays
<1>11. Sane'
  BY <1>1, <1>6, <1>8, <1>10 DEF Sane
<1>12. PICK L, p, low, v, x, y : /\ L = Len(c_stack[t]) /\ p = Part(t, L)' /\ low = Upto(t, L - 1)
                                 /\ v = Visible(i) /\ x = Activation(instrs[i], ip[i])
                                 /\ y = Activation(m, 1)
  OBVIOUS
<1>13. /\ Stack[t] = Upto(t, L - 1) \o Part(t, L) /\ Upto(t, L - 1) \in Seq(Activations)
       /\ L \in Nat \ {0} /\ L \in DOMAIN c_stack[t] /\ i = c_stack[t][L]
  BY ONLY <1>1, <1>3, <1>12, t \in Threads, StackTop
<1>14. Becomes(t, Upto(t, L - 1) \o p)
  <2>1. i \in Interps => (at'[i] = "leave" <=> at[i] = "leave")
    BY <1>3, <1>6
  <2> HIDE DEF Kept
  <2> QED
    BY ONLY <1>1, <1>3, <1>6, <1>9, <1>12, <2>1, t \in Threads, TopOnly
<1>15. p = Append(Visible(i)', y)
  <2>1. Shows(i)'
    BY <1>6 DEF Shows
  <2>2. Shows(i)' => Part(t, L)' = Append(Visible(i)', Activation(instrs'[i], ip'[i]))
    BY <1>1, <1>6, <1>12, <1>13, TopShowsNext DEF TopShows
  <2> QED
    BY <1>6, <1>12, <2>1, <2>2
<1>16. low \in Seq(Activations) /\ v \in Seq(Activations) /\ x \in Activations /\ y \in Activations
  <2>1. v \in Seq(Activations)
    BY <1>1, <1>12, FormsHold DEF Typed
  <2>2. InCode(instrs[i], ip[i])
    BY <1>1, <1>3 DEF Sound
  <2>3. m \in Methods
    BY <1>3, <1>6, <2>2, Instructions DEF Instr
  <2>4. x \in Activations /\ y \in Activations
    BY <1>12, <2>2, <2>3, FirstInstruction, ActivationOf
  <2> QED
    BY <1>12, <1>13, <2>1, <2>4
<1>17. /\ x.method = instrs[i] /\ x.ip = ip[i] /\ Code[x.method][x.ip].op \in {"MTHD_CALL", "DLL_FUNC_CALL"}
       /\ m \in Code[x.method][x.ip].callees
  BY <1>3, <1>6, <1>12 DEF Instr, Activation
<1>18. t \in Threads /\ entry' = entry
  OBVIOUS
<1>19. CASE Shows(i)
  <2>1. Part(t, L) = Append(v, x)
    BY <1>1, <1>12, <1>13, <1>19, TopShowsHolds DEF TopShows
  <2>2. p = Append(Append(v, x), y)
    BY <1>5, <1>12, <1>15, <1>19
  <2>3. PICK w, u : w = low \o v /\ u = Append(v, x)
    OBVIOUS
  <2>4. w \in Seq(Activations) /\ low \o u = Append(w, x) /\ u \in Seq(Activations)
    <3>1. w \in Seq(Activations) /\ low \o Append(v, x) = Append(w, x)
      BY ONLY <1>16, <2>3, OnTop
    <3>2. Append(v, x) \in Seq(Activations)
      BY ONLY <1>16, TopActivation
    <3> QED
      BY <2>3, <3>1, <3>2
  <2>5. low \o Append(u, y) = Append(low \o u, y)
    BY ONLY <1>16, <2>4, OnTop
  <2>6. Stack[t] = Append(w, x) /\ Becomes(t, Append(Append(w, x), Activation(m, 1)))
    BY <1>12, <1>13, <1>14, <2>1, <2>2, <2>3, <2>4, <2>5
  <2> QED
    BY ONLY <1>11, <1>16, <1>17, <1>18, <2>4, <2>6, IsCall
<1>20. CASE ~ Shows(i)
  <2>1. PICK b, u : b = c_stack[t][L - 1] /\ u = Upto(t, L - 2)
    OBVIOUS
  <2>2. L > 1 /\ b \in Natives /\ native[b] = x
    BY <1>3, <1>12, <1>20, <2>1, CallsFirst
  <2>3. Part(t, L) = <<>> /\ p = Append(<<>>, y)
    BY <1>1, <1>5, <1>12, <1>13, <1>15, <1>20, TopShowsHolds DEF TopShows
  <2>4. /\ Upto(t, L - 2) \in Seq(Activations)
        /\ Upto(t, L - 1) = Upto(t, L - 2) \o <<Activation(native[b].method, native[b].ip)>>
    <3>1. at[c_stack[t][L]] # "leave"
      BY <1>3, <1>13
    <3> QED
      BY ONLY <1>1, <1>3, <1>12, <2>1, <2>2, <3>1, t \in Threads, NativeBelow
  <2>5. Activation(native[b].method, native[b].ip) = x
    BY <1>17, <1>12, <2>2
  <2>6. u \in Seq(Activations) /\ low = Append(u, x)
    <3>1. u \in Seq(Activations)
      BY <2>1, <2>4
    <3>2. u \o <<x>> = Append(u, x)
      BY ONLY <1>16, <3>1, OnTop
    <3> QED
      BY <1>12, <2>1, <2>4, <2>5, <3>1, <3>2
  <2>7. /\ low \o <<>> = low /\ low \o <<y>> = Append(low, y) /\ Append(<<>>, y) = <<y>>
    <3>1. low \o <<>> = low
      BY ONLY <1>16, OnTop
    <3>2. low \o <<y>> = Append(low, y)
      BY ONLY <1>16, OnTop
    <3> QED
      BY <3>1, <3>2
  <2>8. Stack[t] = Append(u, x) /\ Becomes(t, Append(Append(u, x), Activation(m, 1)))
    BY <1>12, <1>13, <1>14, <2>3, <2>6, <2>7
  <2> QED
    BY ONLY <1>11, <1>16, <1>17, <1>18, <2>6, <2>8, IsCall
<1> QED
  BY <1>19, <1>20

(***************************************************************************)
(* Returns.                                                                *)
(***************************************************************************)
\* What lies below an interpreter that leaves goes on after its call.
GoesOn(t, p) ==
  \/ Upto(t, p - 1) = <<>> /\ Upto(t, p - 1)' = <<>>
  \/ \E lower \in Seq(Activations), b \in Activations :
       Upto(t, p - 1) = Append(lower, b) /\ Upto(t, p - 1)' = Append(lower, Activation(b.method, b.ip + 1))

LEMMA CallerGoesOn ==
  ASSUME Safe, Safe', NEW t \in Threads, NEW p, p \in 1 .. Len(c_stack[t]), p <= Len(c_stack'[t]),
         \A n \in 1 .. p : c_stack'[t][n] = c_stack[t][n], \A n \in 1 .. p - 1 : Kept(c_stack[t][n]),
         NEW i \in Interps, i = c_stack[t][p], at[i] # "leave", at'[i] = "leave"
  PROVE  GoesOn(t, p)
<1>1. /\ Len(c_stack[t]) \in Nat /\ DOMAIN c_stack[t] = 1 .. Len(c_stack[t]) /\ Len(c_stack'[t]) \in Nat
      /\ DOMAIN c_stack'[t] = 1 .. Len(c_stack'[t]) /\ p \in Nat \ {0}
      /\ \A n \in DOMAIN c_stack[t] : c_stack[t][n] \in Interps \cup Natives
  BY DEF Safe, OtherTypes
<1>2. Stacked /\ Stacked' /\ Forms /\ Forms' /\ Typed
  BY StackedHolds, StackedHoldsNext, FormsHold, FormsHoldNext
<1>3. CASE p = 1
  <2>1. p - 1 = 0
    BY <1>3
  <2> QED
    BY <1>2, <2>1 DEF GoesOn, Stacked
<1>4. CASE p # 1
  <2>1. PICK k, e : k = p - 1 /\ e = c_stack[t][k]
    OBVIOUS
  <2>2. /\ k \in Nat \ {0} /\ k + 1 = p /\ k \in 1 .. Len(c_stack[t]) /\ k \in 1 .. Len(c_stack'[t])
        /\ k - 1 \in 0 .. Len(c_stack[t]) /\ k - 1 \in 0 .. Len(c_stack'[t])
        /\ k < Len(c_stack[t]) /\ k < Len(c_stack'[t]) /\ k \in DOMAIN c_stack[t] /\ k \in DOMAIN c_stack'[t]
    BY <1>1, <1>4, <2>1
  <2>3. c_stack'[t][k] = e /\ Kept(e) /\ c_stack'[t][k + 1] = i /\ c_stack[t][k + 1] = i
    <3>1. k \in 1 .. p /\ k \in 1 .. p - 1 /\ p \in 1 .. p
      BY <1>1, <2>1, <2>2
    <3> QED
      BY <2>1, <2>2, <3>1
  <2>4. Over(t, k)' /\ ~ Over(t, k)
    BY <2>2, <2>3 DEF Over
  <2>5. PICK lower : lower = Upto(t, k - 1)
    OBVIOUS
  <2>6. /\ Upto(t, k) = lower \o Part(t, k) /\ lower \in Seq(Activations)
        /\ Upto(t, k)' = Upto(t, k - 1)' \o Part(t, k)'
    BY <1>2, <2>2, <2>5 DEF Stacked
  <2>7. Upto(t, k - 1)' = lower
    <3>1. PICK n : n = k - 1
      OBVIOUS
    <3>2. n \in 0 .. Len(c_stack[t]) /\ n <= Len(c_stack'[t])
      BY <1>1, <2>2, <3>1
    <3>3. \A l \in 1 .. n : c_stack'[t][l] = c_stack[t][l] /\ Kept(c_stack[t][l])
      <4>1. \A l \in 1 .. n : l \in 1 .. p /\ l \in 1 .. p - 1
        BY <1>1, <2>1, <2>2, <3>1
      <4> HIDE DEF Kept
      <4> QED
        BY <4>1
    <3>4. n # 0 => (Over(t, n)' <=> Over(t, n))
      <4>1. n + 1 = k /\ n < Len(c_stack[t]) /\ n < Len(c_stack'[t])
        BY <1>1, <2>2, <3>1
      <4>2. c_stack'[t][n + 1] = e /\ c_stack[t][n + 1] = e
        BY <2>1, <2>3, <4>1
      <4>3. e \in Interps => at'[e] = at[e]
        BY <2>3 DEF Kept
      <4> QED
        BY <4>1, <4>2, <4>3 DEF Over
    <3>5. Upto(t, n)' = Upto(t, n)
      <4> HIDE DEF Kept
      <4> QED
        BY ONLY Safe, Safe', t \in Threads, <3>2, <3>3, <3>4, KeptUpto
    <3> QED
      BY <2>5, <3>1, <3>5
  <2>8. ASSUME NEW v, v \in Seq(Activations), NEW b, b \in Activations,
               Part(t, k) = Append(v, b), Part(t, k)' = Append(v, Activation(b.method, b.ip + 1))
        PROVE  GoesOn(t, p)
    <3>1. PICK y, w : y = Activation(b.method, b.ip + 1) /\ w = lower \o v
      OBVIOUS
    <3>2. y \in Activations
      BY <2>8, <3>1 DEF Activation, Activations
    <3>3. lower \in Seq(Activations) /\ v \in Seq(Activations) /\ b \in Activations /\ y \in Activations
      BY <2>6, <2>8, <3>2
    <3>4. lower \o Append(v, b) = Append(w, b) /\ w \in Seq(Activations)
      BY ONLY <3>1, <3>3, OnTop
    <3>5. lower \o Append(v, y) = Append(w, y)
      BY ONLY <3>1, <3>3, OnTop
    <3>6. Upto(t, k) = Append(w, b) /\ Upto(t, k)' = Append(w, Activation(b.method, b.ip + 1))
      BY <2>6, <2>7, <2>8, <3>1, <3>4, <3>5
    <3> QED
      BY <2>1, <3>3, <3>4, <3>6 DEF GoesOn
  <2>9. CASE e \in Natives
    <3>1. PICK b, v : b = Activation(native[e].method, native[e].ip) /\ v = <<>>
      OBVIOUS
    <3>2. InCode(native[e].method, native[e].ip)
      BY <2>1, <2>2, <2>9 DEF Safe, Waiting
    <3>3. b \in Activations /\ v \in Seq(Activations) /\ b.method = native[e].method /\ b.ip = native[e].ip
      BY <3>1, <3>2, ActivationOf DEF Activation
    <3>4. Part(t, k) = <<b>>
      BY <1>2, <2>1, <2>2, <2>4, <2>9, <3>1 DEF Forms, Place
    <3>5. Part(t, k)' = <<Activation(b.method, b.ip + 1)>>
      <4>1. native'[e] = native[e]
        BY <2>3, <2>9 DEF Kept
      <4>2. Part(t, k)' = <<Activation(native'[e].method, IF Over(t, k)' THEN native'[e].ip + 1 ELSE native'[e].ip)>>
        BY <1>2, <2>2, <2>3, <2>9 DEF Forms, Place
      <4> QED
        BY <2>4, <3>3, <4>1, <4>2
    <3>6. Part(t, k) = Append(v, b) /\ Part(t, k)' = Append(v, Activation(b.method, b.ip + 1))
      BY <3>1, <3>4, <3>5
    <3> QED
      BY <2>8, <3>3, <3>6
  <2>10. CASE e \in Interps
    <3>1. PICK b, v : b = Activation(instrs[e], ip[e]) /\ v = Visible(e)
      OBVIOUS
    <3>2. at[e] = "dll"
      <4>1. i \notin Natives
        BY NameAssumption
      <4> QED
        BY <2>1, <2>2, <2>3, <2>10, <4>1 DEF Safe, Waiting
    <3>3. /\ at'[e] = at[e] /\ call_stack'[e] = call_stack[e] /\ instrs'[e] = instrs[e]
          /\ ip'[e] = ip[e] /\ jit_arg'[e] = jit_arg[e]
          /\ \A n \in DOMAIN call_stack[e] : /\ method'[call_stack[e][n]] = method[call_stack[e][n]]
                                            /\ saved_ip'[call_stack[e][n]] = saved_ip[call_stack[e][n]]
      BY <2>3, <2>10 DEF Kept
    <3>4. InCode(instrs[e], ip[e])
      BY <2>10, <3>2 DEF Safe, Interpreting, Sound
    <3>5. b \in Activations /\ v \in Seq(Activations) /\ b.method = instrs[e] /\ b.ip = ip[e]
      <4>1. v \in Seq(Activations)
        BY <1>2, <2>10, <3>1 DEF Typed
      <4> QED
        BY <3>1, <3>4, <4>1, ActivationOf DEF Activation
    <3>6. Shows(e) /\ Shows(e)'
      BY <3>2, <3>3 DEF Shows
    <3>7. Part(t, k) = Append(v, b)
      BY <1>2, <2>1, <2>2, <2>4, <2>10, <3>1, <3>2, <3>6 DEF Forms, Place
    <3>8. Visible(e)' = v
      BY <2>10, <3>1, <3>3, VisibleSame
    <3>9. Part(t, k)' = Append(v, Activation(b.method, b.ip + 1))
      <4>1. Part(t, k)' = Append(Visible(e)', Activation(instrs'[e], Place(t, k, ip[e])'))
        BY <1>2, <2>2, <2>3, <2>10, <3>2, <3>3, <3>6 DEF Forms
      <4>2. Place(t, k, ip[e])' = ip'[e] + 1
        BY <2>4 DEF Place
      <4> QED
        BY <3>3, <3>5, <3>8, <4>1, <4>2
    <3> QED
      BY <2>8, <3>5, <3>7, <3>9
  <2> QED
    BY <1>1, <2>1, <2>2, <2>9, <2>10
<1> QED
  BY <1>3, <1>4

\* What Resume makes of interpreter i: it is back in the caller b, after the call,
\* or it leaves and showed nothing but the method it returns from.
Resumed(i) ==
  /\ \A j \in Interps \ {i} : Untouched(j)
  /\ Settled(i)' /\ (jit_arg[i] /\ call_stack'[i] = <<>> => at'[i] = "leave")
  /\ \/ at'[i] = "leave" /\ Visible(i) = <<>>
     \/ /\ at'[i] = "run" /\ Shows(i)'
        /\ \E b \in Activations :
             Visible(i) = Append(Visible(i)', b) /\ instrs'[i] = b.method /\ ip'[i] = b.ip + 1

LEMMA ResumeGoesOn ==
  ASSUME Safe, Safe', NEW i \in Interps, Settled(i), Resume(i), call_stack[i] # <<>>,
         at[i] \in {"return", "native"}, saved_ip' = saved_ip, jit_arg' = jit_arg
  PROVE  Resumed(i)
<1>1. PICK f, q : f = Last(call_stack[i]) /\ q = Front(call_stack[i])
  OBVIOUS
<1>2. Sound(i) /\ call_stack[i] \in Seq(Frames) /\ Held(i) = call_stack[i] /\ jit_arg[i] \in BOOLEAN
  BY HeldFrames DEF Safe, Interpreting, InterpTypes
<1>3. /\ q \in Seq(Frames) /\ f \in Frames /\ call_stack[i] = Append(q, f)
  BY <1>1, <1>2, Popped
<1>4. /\ Len(q) \in Nat /\ DOMAIN q = 1 .. Len(q) /\ f = call_stack[i][Len(q) + 1]
      /\ Len(q) + 1 \in DOMAIN call_stack[i]
      /\ \A k \in DOMAIN q : q[k] = call_stack[i][k] /\ k \in DOMAIN call_stack[i]
      /\ f \in ToSet(Held(i))
  <2>1. PICK c : c = call_stack[i]
    OBVIOUS
  <2>2. /\ Len(q) \in Nat /\ DOMAIN q = 1 .. Len(q) /\ f = c[Len(q) + 1]
        /\ DOMAIN c = 1 .. Len(q) + 1 /\ \A k \in DOMAIN q : q[k] = c[k] /\ k \in DOMAIN c
    <3>1. q \in Seq(Frames) /\ f \in Frames /\ c = Append(q, f)
      BY <1>3, <2>1
    <3> QED
      BY ONLY <3>1, Pushed
  <2>3. Len(q) + 1 \in DOMAIN c /\ f \in ToSet(c)
    BY <2>2 DEF ToSet
  <2> QED
    BY <1>2, <2>1, <2>2, <2>3
<1>5. /\ frame' = [frame EXCEPT ![i] = f] /\ call_stack' = [call_stack EXCEPT ![i] = q]
      /\ instrs' = [instrs EXCEPT ![i] = method[f]] /\ ip' = [ip EXCEPT ![i] = saved_ip[f]]
      /\ IF jit_called[f]
         THEN at' = [at EXCEPT ![i] = "leave"] /\ ReleaseStackFrame(f)
         ELSE /\ at' = [at EXCEPT ![i] = "run"]
              /\ UNCHANGED <<cached_frames, free_frames, stored, method, jit_called>>
  BY <1>1 DEF Resume
<1>6. /\ frame'[i] = f /\ call_stack'[i] = q /\ instrs'[i] = method[f] /\ ip'[i] = saved_ip[f]
      /\ at'[i] = IF jit_called[f] THEN "leave" ELSE "run"
      /\ \A j \in Interps \ {i} :
           /\ at'[j] = at[j] /\ call_stack'[j] = call_stack[j] /\ frame'[j] = frame[j]
           /\ instrs'[j] = instrs[j] /\ ip'[j] = ip[j]
  BY <1>5 DEF Safe, InterpTypes
<1>7. /\ jit_called[f] <=> (jit_arg[i] /\ q = <<>>)
      /\ \A k \in DOMAIN q : jit_called[q[k]] <=> (jit_arg[i] /\ k = 1)
  <2>1. \A k \in DOMAIN call_stack[i] : jit_called[call_stack[i][k]] <=> (jit_arg[i] /\ k = 1)
    BY <1>2 DEF Settled
  <2>2. jit_called[f] <=> (jit_arg[i] /\ Len(q) + 1 = 1)
    BY <1>4, <2>1
  <2>3. Len(q) + 1 = 1 <=> q = <<>>
    BY <1>3, <1>4
  <2> QED
    BY <1>4, <2>1, <2>2, <2>3
<1>8. Deepens(q, f, jit_arg[i], method, method, saved_ip, saved_ip)
  <2>1. method \in [Frames -> Methods \cup {None}] /\ saved_ip \in [Frames -> Nat]
    BY DEF Safe, FrameTypes
  <2> QED
    BY ONLY <1>3, <2>1, Deeper
<1>9. Visible(i) = VisibleIn(jit_arg[i], Append(q, f), method, saved_ip)
  BY <1>3, VisibleIs
<1>10. CASE jit_called[f]
  <2>1. at'[i] = "leave" /\ ReleaseStackFrame(f) /\ jit_arg[i] /\ q = <<>>
    BY <1>5, <1>6, <1>7, <1>10
  <2>2. Visible(i) = <<>>
    BY <1>8, <1>9, <2>1 DEF Deepens
  <2>3. \A j \in Interps \ {i} : \A g \in ToSet(Held(j)) :
          method'[g] = method[g] /\ saved_ip'[g] = saved_ip[g] /\ jit_called'[g] = jit_called[g]
    BY <1>4, <2>1, ReleasedAside
  <2>4. \A j \in Interps \ {i} : Untouched(j)
    BY <1>6, <2>3 DEF Untouched
  <2>5. Settled(i)'
    <3>1. Held(i)' = <<>> /\ DOMAIN <<>> = {}
      BY <2>1, EmptyStack DEF Held
    <3> QED
      BY <2>1, <3>1 DEF Settled
  <2> QED
    BY <2>1, <2>2, <2>4, <2>5 DEF Resumed
<1>11. CASE ~ jit_called[f]
  <2>1. at'[i] = "run" /\ UNCHANGED <<method, jit_called>> /\ ~ (jit_arg[i] /\ q = <<>>)
    BY <1>5, <1>6, <1>7, <1>11
  <2>2. PICK b : b = Activation(method[f], saved_ip[f] - 1)
    OBVIOUS
  <2>3. b \in Activations /\ instrs'[i] = b.method /\ ip'[i] = b.ip + 1
    <3>1. InCode(method[f], saved_ip[f])
      BY <1>2, <1>4 DEF Sound
    <3>2. method[f] \in Methods \cup {None} /\ saved_ip[f] - 1 \in Int /\ (saved_ip[f] - 1) + 1 = saved_ip[f]
      BY <1>3 DEF Safe, FrameTypes
    <3> QED
      BY <1>6, <2>2, <3>2, ActivationType DEF Activation
  <2>4. Visible(i)' = VisibleIn(jit_arg[i], q, method, saved_ip)
    BY <1>6, <2>1 DEF Visible, VisibleIn, Callers, CallersIn
  <2>5. Visible(i) = Append(Visible(i)', b)
    BY <1>8, <1>9, <2>1, <2>2, <2>4 DEF Deepens
  <2>6. Shows(i)'
    BY <1>6, <2>1 DEF Shows
  <2>7. \A j \in Interps \ {i} : Untouched(j)
    BY <1>6, <2>1 DEF Untouched
  <2>8. Settled(i)'
    <3>1. Held(i)' = call_stack[i]
      BY <1>3, <1>6, <2>1 DEF Held
    <3>2. \A k \in DOMAIN Held(i)' : jit_called'[Held(i)'[k]] <=> (jit_arg'[i] /\ k = 1)
      BY <1>2, <2>1, <3>1 DEF Settled
    <3> QED
      BY <2>1, <3>2 DEF Settled
  <2>9. jit_arg[i] /\ call_stack'[i] = <<>> => at'[i] = "leave"
    BY <1>6, <2>1
  <2> QED
    BY <2>1, <2>3, <2>5, <2>6, <2>7, <2>8, <2>9 DEF Resumed
<1> QED
  BY <1>10, <1>11

\* Interpreter i, the p-th entry of the C stack of thread t and then its top, returns
\* from activation x.
Returning(t, p, i, x) ==
  /\ p \in 1 .. Len(c_stack[t]) /\ Len(c_stack'[t]) = p /\ i = c_stack[t][p] /\ at[i] # "leave"
  /\ \A n \in 1 .. p : c_stack'[t][n] = c_stack[t][n]
  /\ \A n \in 1 .. p - 1 : Kept(c_stack[t][n])
  /\ \A u \in Threads \ {t} : /\ c_stack'[u] = c_stack[u]
                              /\ \A n \in DOMAIN c_stack[u] : Kept(c_stack[u][n])
  /\ x \in Activations /\ Code[x.method][x.ip].op = "RTRN"
  /\ Upto(t, p - 1) \o Visible(i) \in Seq(Activations)
  /\ Stack[t] = Append(Upto(t, p - 1) \o Visible(i), x)

LEMMA Returns ==
  ASSUME Safe, Safe', NEW t \in Threads, NEW p, NEW i \in Interps, NEW x, Returning(t, p, i, x),
         Resumed(i), entry' = entry
  PROVE  Calls!Next
<1>1. /\ p \in 1 .. Len(c_stack[t]) /\ Len(c_stack'[t]) = p /\ i = c_stack[t][p] /\ at[i] # "leave"
      /\ \A n \in 1 .. p : c_stack'[t][n] = c_stack[t][n]
      /\ x \in Activations /\ Code[x.method][x.ip].op = "RTRN"
      /\ Stack[t] = Append(Upto(t, p - 1) \o Visible(i), x)
  BY DEF Returning
<1>2. \A n \in 1 .. p - 1 : Kept(c_stack[t][n])
  BY DEF Returning
<1>3. \A u \in Threads \ {t} : c_stack'[u] = c_stack[u] /\ \A n \in DOMAIN c_stack[u] : Kept(c_stack[u][n])
  BY DEF Returning
<1>4. /\ Len(c_stack[t]) \in Nat /\ p \in Nat \ {0} /\ DOMAIN c_stack'[t] = 1 .. p
      /\ \A n \in 1 .. Len(c_stack[t]) : n \in DOMAIN c_stack[t]
  BY <1>1 DEF Safe, OtherTypes
<1>5. Stacked /\ Stacked' /\ TopShows'
  BY StackedHolds, StackedHoldsNext, TopShowsNext
<1>6. PICK low, z : low = Upto(t, p - 1) /\ z = Part(t, p)'
  OBVIOUS
<1>7. low \in Seq(Activations)
  <2>1. p - 1 \in 0 .. Len(c_stack[t])
    BY <1>1, <1>4
  <2> QED
    BY <1>5, <1>6, <2>1 DEF Stacked
<1>8. Stack'[t] = Upto(t, p - 1)' \o z /\ Upto(t, p - 1)' \in Seq(Activations)
  <2>1. p \in 1 .. Len(c_stack'[t]) /\ p - 1 \in 0 .. Len(c_stack'[t]) /\ p = Len(c_stack'[t])
    BY <1>1, <1>4
  <2> QED
    BY <1>5, <1>6, <2>1 DEF Stacked
<1>9. /\ ~ Shows(i)' => z = <<>>
      /\ Shows(i)' => z = Append(Visible(i)', Activation(instrs'[i], ip'[i]))
  <2>1. p \in DOMAIN c_stack'[t] /\ c_stack'[t][p] = i /\ p = Len(c_stack'[t])
    BY <1>1, <1>4
  <2> QED
    BY <1>5, <1>6, <2>1 DEF TopShows
<1>10. ASSUME NEW s, Stack'[t] = s PROVE Becomes(t, s)
  <2> HIDE DEF Kept
  <2> QED
    BY ONLY Safe, Safe', t \in Threads, <1>3, <1>10, OthersStay
<1>11. t \in Threads /\ entry' = entry
  OBVIOUS
<1>12. CASE at'[i] = "leave" /\ Visible(i) = <<>>
  <2>1. Stack[t] = Append(low, x)
    <3>1. low \o <<>> = low
      BY ONLY <1>1, <1>7, OnTop
    <3> QED
      BY <1>1, <1>6, <1>12, <3>1
  <2>2. Stack'[t] = Upto(t, p - 1)'
    <3>1. PICK s : s = Upto(t, p - 1)'
      OBVIOUS
    <3>2. s \in Seq(Activations)
      BY <1>8, <3>1
    <3>3. s \o <<>> = s
      BY ONLY <3>2, ConcatEmptySeq
    <3>4. z = <<>>
      BY <1>9, <1>12 DEF Shows
    <3> QED
      BY <1>8, <3>1, <3>3, <3>4
  <2>3. GoesOn(t, p)
    <3>1. /\ p \in 1 .. Len(c_stack[t]) /\ p <= Len(c_stack'[t]) /\ i = c_stack[t][p] /\ at[i] # "leave"
          /\ at'[i] = "leave" /\ \A n \in 1 .. p : c_stack'[t][n] = c_stack[t][n]
      BY <1>1, <1>4, <1>12
    <3> HIDE DEF Kept
    <3> QED
      BY ONLY Safe, Safe', t \in Threads, i \in Interps, <1>2, <3>1, CallerGoesOn
  <2>4. \/ low = <<>> /\ Becomes(t, <<>>)
        \/ \E lower \in Seq(Activations), b \in Activations :
             low = Append(lower, b) /\ Becomes(t, Append(lower, Activation(b.method, b.ip + 1)))
    <3>1. CASE Upto(t, p - 1) = <<>> /\ Upto(t, p - 1)' = <<>>
      BY <1>6, <1>10, <2>2, <3>1
    <3>2. ASSUME NEW lower \in Seq(Activations), NEW b \in Activations, Upto(t, p - 1) = Append(lower, b),
                 Upto(t, p - 1)' = Append(lower, Activation(b.method, b.ip + 1))
          PROVE  low = Append(lower, b) /\ Becomes(t, Append(lower, Activation(b.method, b.ip + 1)))
      BY <1>6, <1>10, <2>2, <3>2
    <3> QED
      BY <2>3, <3>1, <3>2 DEF GoesOn
  <2> QED
    BY ONLY <1>1, <1>7, <1>11, <2>1, <2>4, IsReturn
<1>13. ASSUME Shows(i)', NEW b \in Activations, Visible(i) = Append(Visible(i)', b), instrs'[i] = b.method,
              ip'[i] = b.ip + 1, at'[i] = "run"
       PROVE  Calls!Next
  <2>1. PICK v, y, w : v = Visible(i)' /\ y = Activation(b.method, b.ip + 1) /\ w = low \o v
    OBVIOUS
  <2>2. low \in Seq(Activations) /\ v \in Seq(Activations) /\ b \in Activations /\ y \in Activations
    <3>1. v \in Seq(Activations)
      BY <2>1, FormsHoldNext DEF Typed
    <3>2. y \in Activations
      BY <1>13, <2>1 DEF Activation, Activations
    <3> QED
      BY <1>7, <3>1, <3>2
  <2>3. w \in Seq(Activations) /\ low \o Append(v, b) = Append(w, b)
    BY ONLY <2>1, <2>2, OnTop
  <2>4. low \o Append(v, y) = Append(w, y)
    BY ONLY <2>1, <2>2, OnTop
  <2>5. Upto(t, p - 1)' = low
    <3>1. PICK k : k = p - 1
      OBVIOUS
    <3>2. k \in 0 .. Len(c_stack[t]) /\ k <= Len(c_stack'[t])
      BY <1>1, <1>4, <3>1
    <3>3. \A l \in 1 .. k : c_stack'[t][l] = c_stack[t][l] /\ Kept(c_stack[t][l])
      <4>1. \A l \in 1 .. k : l \in 1 .. p /\ l \in 1 .. p - 1
        BY <1>4, <3>1
      <4> HIDE DEF Kept
      <4> QED
        BY <1>1, <1>2, <4>1
    <3>4. k # 0 => (Over(t, k)' <=> Over(t, k))
      <4>1. k + 1 = p /\ p \in 1 .. p
        BY <1>4, <3>1
      <4>2. c_stack'[t][k + 1] = i /\ c_stack[t][k + 1] = i
        BY <1>1, <4>1
      <4> QED
        BY <1>1, <1>13, <4>2 DEF Over
    <3>5. Upto(t, k)' = Upto(t, k)
      <4> HIDE DEF Kept
      <4> QED
        BY ONLY Safe, Safe', t \in Threads, <3>2, <3>3, <3>4, KeptUpto
    <3> QED
      BY <1>6, <3>1, <3>5
  <2>6. z = Append(v, y)
    BY <1>9, <1>13, <2>1
  <2>7. Stack'[t] = Append(w, y)
    BY <1>8, <2>4, <2>5, <2>6
  <2>8. Becomes(t, Append(w, Activation(b.method, b.ip + 1)))
    BY <1>10, <2>1, <2>7
  <2>9. PICK u : u = Append(w, b)
    OBVIOUS
  <2>10. u \in Seq(Activations) /\ Stack[t] = Append(u, x)
    <3>1. Append(w, b) \in Seq(Activations)
      BY ONLY <2>2, <2>3, TopActivation
    <3> QED
      BY <1>1, <1>6, <1>13, <2>1, <2>3, <2>9, <3>1
  <2>11. \/ u = <<>> /\ Becomes(t, <<>>)
         \/ \E lower \in Seq(Activations), c \in Activations :
              u = Append(lower, c) /\ Becomes(t, Append(lower, Activation(c.method, c.ip + 1)))
    BY <2>2, <2>3, <2>8, <2>9
  <2> QED
    BY ONLY <1>1, <1>11, <2>10, <2>11, IsReturn
<1> QED
  BY <1>12, <1>13 DEF Resumed

LEMMA ReturnReturns ==
  ASSUME Sane, NEW t \in Threads, NEW i \in Interps, Return(t, i), entry' = entry
  PROVE  Calls!Next /\ Sane'
<1>1. Safe /\ Safe' /\ Linked /\ Settled(i) /\ i \notin Natives
  BY ReturnSafe, NameAssumption DEF Sane
<1>2. /\ c_stack[t] # <<>> /\ i = Last(c_stack[t]) /\ at[i] = "return"
      /\ UNCHANGED <<saved_ip, jit_arg, native, c_stack>>
      /\ call_stack[i] # <<>> => Resume(i)
      /\ call_stack[i] = <<>> =>
           /\ frame' = [frame EXCEPT ![i] = None] /\ at' = [at EXCEPT ![i] = "leave"]
           /\ UNCHANGED <<call_stack, instrs, ip, method, jit_called>>
  BY DEF Return, Runs
<1>3. Resumed(i)
  <2>1. CASE call_stack[i] # <<>>
    BY <1>1, <1>2, <2>1, ResumeGoesOn
  <2>2. CASE call_stack[i] = <<>>
    <3>1. /\ at'[i] = "leave" /\ ~ jit_arg[i]
          /\ \A j \in Interps \ {i} : at'[j] = at[j] /\ frame'[j] = frame[j]
      BY <1>1, <1>2, <2>2 DEF Settled, Safe, InterpTypes
    <3>2. \A j \in Interps \ {i} : Untouched(j)
      BY <1>2, <2>2, <3>1 DEF Untouched
    <3>3. Settled(i)'
      <4>1. Held(i)' = <<>> /\ DOMAIN <<>> = {}
        BY <3>1, EmptyStack DEF Held
      <4> QED
        BY <3>1, <4>1 DEF Settled
    <3>4. Visible(i) = <<>>
      <4>1. Len(<<>>) = 0
        BY EmptyStack
      <4>2. Callers(i) = <<>>
        BY <2>2, <4>1 DEF Callers
      <4> QED
        BY <2>2, <4>2 DEF Visible
    <3> QED
      BY <3>1, <3>2, <3>3, <3>4 DEF Resumed
  <2> QED
    BY <2>1, <2>2
<1>4. \A j \in Interps \ {i} : Untouched(j)
  BY <1>3 DEF Resumed
<1>5. \A j \in Interps \ {i} : Kept(j) /\ Settled(j)'
  BY <1>1, <1>4, UntouchedAside DEF Sane
<1>6. \A x \in (Interps \cup Natives) \ {i} : Kept(x)
  BY <1>2, <1>5, NameAssumption DEF Kept
<1>7. Linked'
  <2>1. /\ \A j \in Interps \ {i} : /\ at'[j] = at[j] /\ call_stack'[j] = call_stack[j]
                                   /\ instrs'[j] = instrs[j] /\ ip'[j] = ip[j]
        /\ \A b \in Natives \ {i} : native'[b] = native[b]
    BY <1>2, <1>4 DEF Untouched
  <2>2. /\ i \in Interps /\ jit_arg[i] /\ call_stack'[i] = <<>> /\ at'[i] \in {"new", "run"}
        => /\ call_stack[i] = <<>> /\ at[i] \in {"new", "run"}
           /\ instrs'[i] = instrs[i] /\ ip'[i] = ip[i]
    BY <1>3 DEF Resumed
  <2> QED
    BY ONLY <1>1, <1>2, <2>1, <2>2, t \in Threads, LinkedStays
<1>8. Sane'
  BY <1>1, <1>3, <1>5, <1>7 DEF Sane, Resumed
<1>9. PICK L, x, low, v : /\ L = Len(c_stack[t]) /\ x = Activation(instrs[i], ip[i])
                          /\ low = Upto(t, L - 1) /\ v = Visible(i)
  OBVIOUS
<1>10. /\ Stack[t] = Upto(t, L - 1) \o Part(t, L) /\ Upto(t, L - 1) \in Seq(Activations)
       /\ L \in Nat \ {0} /\ L \in DOMAIN c_stack[t] /\ i = c_stack[t][L]
  BY ONLY <1>1, <1>2, <1>9, t \in Threads, StackTop
<1>11. low \in Seq(Activations) /\ v \in Seq(Activations) /\ x \in Activations
       /\ Code[x.method][x.ip].op = "RTRN"
  <2>1. v \in Seq(Activations)
    BY <1>1, <1>9, FormsHold DEF Typed
  <2>2. InCode(instrs[i], ip[i]) /\ Instr(i).op = "RTRN"
    BY <1>1, <1>2 DEF Settled
  <2>3. x \in Activations /\ x.method = instrs[i] /\ x.ip = ip[i]
    BY <1>9, <2>2, ActivationOf DEF Activation
  <2> QED
    BY <1>9, <1>10, <2>1, <2>2, <2>3 DEF Instr
<1>12. low \o v \in Seq(Activations) /\ Stack[t] = Append(low \o v, x)
  <2>1. Shows(i)
    BY <1>2 DEF Shows
  <2>2. Part(t, L) = Append(v, x)
    BY <1>1, <1>9, <1>10, <2>1, TopShowsHolds DEF TopShows
  <2>3. low \o v \in Seq(Activations) /\ low \o Append(v, x) = Append(low \o v, x)
    BY ONLY <1>11, OnTop
  <2> QED
    BY <1>9, <1>10, <2>2, <2>3
<1>13. Returning(t, L, i, x)
  <2>1. \A u \in Threads : \A n \in DOMAIN c_stack[u] : c_stack[u][n] \in Interps \cup Natives
    BY <1>1 DEF Safe, OtherTypes
  <2>2. /\ \A n \in 1 .. L - 1 : c_stack[t][n] # i /\ c_stack[t][n] \in Interps \cup Natives
        /\ \A u \in Threads \ {t} : \A n \in DOMAIN c_stack[u] : c_stack[u][n] # i
    BY ONLY <1>1, <1>2, <1>9, t \in Threads, Tops
  <2>3. /\ \A n \in 1 .. L - 1 : Kept(c_stack[t][n])
        /\ \A u \in Threads \ {t} : /\ c_stack'[u] = c_stack[u]
                                   /\ \A n \in DOMAIN c_stack[u] : Kept(c_stack[u][n])
    <3> HIDE DEF Kept
    <3> QED
      BY <1>2, <1>6, <2>1, <2>2
  <2>4. /\ L \in 1 .. Len(c_stack[t]) /\ Len(c_stack'[t]) = L /\ i = c_stack[t][L] /\ at[i] # "leave"
        /\ \A n \in 1 .. L : c_stack'[t][n] = c_stack[t][n]
    BY <1>2, <1>9, <1>10
  <2> QED
    BY <1>9, <1>11, <1>12, <2>3, <2>4 DEF Returning
<1>14. t \in Threads /\ i \in Interps /\ entry' = entry
  OBVIOUS
<1>15. Calls!Next
  BY ONLY <1>1, <1>3, <1>13, <1>14, Returns
<1> QED
  BY <1>8, <1>15

\* The top of a C stack goes; nothing else moves but the entry d below it.
Dropped(t) == c_stack' = [c_stack EXCEPT ![t] = Front(@)]
StayLinked(e, d) == /\ \A j \in Interps \ {e, d} : StaysLinked(j)
                    /\ \A b \in Natives \ {e, d} : native'[b] = native[b]

LEMMA LinkedShrinks ==
  ASSUME Safe, Linked, NEW t \in Threads, c_stack[t] # <<>>, NEW e, e = Last(c_stack[t]),
         NEW L, L = Len(c_stack[t]), NEW d, L > 1 => d = c_stack[t][L - 1], L = 1 => d = e,
         Dropped(t), StayLinked(e, d),
         L > 1 /\ d \in Interps =>
           jit_arg'[d] = jit_arg[d] /\ ~ (jit_arg'[d] /\ call_stack'[d] = <<>> /\ at'[d] \in {"new", "run"})
  PROVE  Linked'
<1> SUFFICES ASSUME NEW u \in Threads, NEW n \in DOMAIN c_stack'[u] PROVE MadeByNative(u, n)'
  BY DEF Linked
<1>1. /\ L \in Nat \ {0} /\ e = c_stack[t][L] /\ DOMAIN c_stack[t] = 1 .. L
      /\ \A k \in 1 .. L - 1 : c_stack[t][k] # e
      /\ \A v \in Threads \ {t} : \A k \in DOMAIN c_stack[v] : c_stack[v][k] # e
  BY Tops
<1>2. /\ DOMAIN c_stack'[t] = 1 .. L - 1
      /\ \A k \in 1 .. L - 1 : c_stack'[t][k] = c_stack[t][k]
      /\ \A v \in Threads \ {t} : c_stack'[v] = c_stack[v]
  <2>1. c_stack[t] \in Seq(Interps \cup Natives)
    BY DEF Safe, OtherTypes
  <2>2. /\ DOMAIN Front(c_stack[t]) = 1 .. L - 1
        /\ \A k \in 1 .. L - 1 : Front(c_stack[t])[k] = c_stack[t][k]
    BY <2>1, Popped
  <2>3. c_stack'[t] = Front(c_stack[t]) /\ \A v \in Threads \ {t} : c_stack'[v] = c_stack[v]
    BY DEF Safe, OtherTypes, Dropped
  <2> QED
    BY <2>2, <2>3
<1>3. n \in DOMAIN c_stack[u] /\ (u = t => n \in 1 .. L - 1) /\ c_stack'[u][n] = c_stack[u][n]
      /\ n \in Nat \ {0}
  <2>1. DOMAIN c_stack[u] = 1 .. Len(c_stack[u]) /\ Len(c_stack[u]) \in Nat
    BY DEF Safe, OtherTypes
  <2>2. CASE u = t
    BY <1>1, <1>2, <2>2, SMTT(30)
  <2>3. CASE u # t
    BY <1>2, <2>1, <2>3
  <2> QED
    BY <2>2, <2>3
<1>4. n > 1 => /\ n - 1 \in DOMAIN c_stack[u] /\ (u = t => n - 1 \in 1 .. L - 1 /\ n - 1 # L - 1)
               /\ c_stack'[u][n - 1] = c_stack[u][n - 1]
  <2>1. DOMAIN c_stack[u] = 1 .. Len(c_stack[u]) /\ Len(c_stack[u]) \in Nat
    BY DEF Safe, OtherTypes
  <2>2. n > 1 => n - 1 \in DOMAIN c_stack[u] /\ (u = t => n - 1 \in 1 .. L - 1 /\ n - 1 # L - 1)
    BY <1>1, <1>3, <2>1
  <2> QED
    BY <1>2, <2>2
<1>5. PICK x, b : x = c_stack[u][n] /\ b = c_stack[u][n - 1]
  OBVIOUS
<1>6. x # e /\ (n > 1 => b # e)
  BY <1>1, <1>3, <1>4, <1>5
<1>7. n > 1 /\ L > 1 => b # d
  <2>1. SUFFICES ASSUME n > 1, L > 1, b = d PROVE FALSE
    OBVIOUS
  <2>2. L - 1 \in DOMAIN c_stack[t] /\ d = c_stack[t][L - 1]
    BY <1>1, <2>1
  <2>3. PICK k, l : k = n - 1 /\ l = L - 1
    OBVIOUS
  <2>4. k \in DOMAIN c_stack[u] /\ l \in DOMAIN c_stack[t] /\ c_stack[u][k] = c_stack[t][l]
    BY <1>4, <1>5, <2>1, <2>2, <2>3
  <2>5. u = t /\ k = l
    BY <2>4 DEF Safe, StacksApart
  <2> QED
    BY <1>4, <2>1, <2>3, <2>5
<1>8. L > 1 \/ d = e
  <2>1. L \in Nat \ {0}
    BY <1>1
  <2>2. L > 1 \/ L = 1
    BY ONLY <2>1
  <2>3. L = 1 => d = e
    OBVIOUS
  <2> QED
    BY ONLY <2>2, <2>3
<1>9. CASE x \in Interps
  <2>1. /\ jit_arg[x] <=> (n > 1 /\ b \in Natives)
        /\ jit_arg[x] /\ call_stack[x] = <<>> /\ at[x] \in {"new", "run"} =>
             native[b] = Activation(instrs[x], ip[x])
    BY <1>3, <1>5, <1>9 DEF Linked, MadeByNative
  <2>2. jit_arg[x] => native'[b] = native[b]
    <3>1. jit_arg[x] => b \in Natives \ {e, d}
      BY <1>6, <1>7, <1>8, <2>1
    <3> QED
      BY <3>1 DEF StayLinked
  <2>3. /\ jit_arg'[x] = jit_arg[x]
        /\ jit_arg'[x] /\ call_stack'[x] = <<>> /\ at'[x] \in {"new", "run"} =>
             /\ call_stack[x] = <<>> /\ at[x] \in {"new", "run"}
             /\ instrs'[x] = instrs[x] /\ ip'[x] = ip[x]
    <3>1. CASE L > 1 /\ x = d
      BY <1>9, <3>1
    <3>2. CASE ~ (L > 1 /\ x = d)
      <4>1. StaysLinked(x)
        BY <1>6, <1>9, <1>8, <3>2 DEF StayLinked
      <4> QED
        BY <4>1 DEF StaysLinked
    <3> QED
      BY <3>1, <3>2
  <2>4. /\ jit_arg'[x] <=> (n > 1 /\ b \in Natives)
        /\ jit_arg'[x] /\ call_stack'[x] = <<>> /\ at'[x] \in {"new", "run"} =>
             native'[b] = Activation(instrs'[x], ip'[x])
    BY <2>1, <2>2, <2>3
  <2>5. c_stack'[u][n] = x /\ (n > 1 => c_stack'[u][n - 1] = b)
    BY <1>3, <1>4, <1>5
  <2> QED
    BY <2>1, <2>3, <2>4, <2>5 DEF MadeByNative
<1>10. CASE x \notin Interps
  BY <1>3, <1>5, <1>10 DEF MadeByNative
<1> QED
  BY <1>9, <1>10

LEMMA Lowered ==
  ASSUME Safe, NEW t \in Threads, c_stack[t] # <<>>, NEW L, L = Len(c_stack[t]), Dropped(t)
  PROVE  /\ Len(c_stack'[t]) = L - 1 /\ DOMAIN c_stack'[t] = 1 .. L - 1
         /\ \A k \in 1 .. L - 1 : c_stack'[t][k] = c_stack[t][k]
         /\ \A v \in Threads \ {t} : c_stack'[v] = c_stack[v]
         /\ Front(c_stack[t]) # <<>> <=> L > 1
         /\ L > 1 => Last(Front(c_stack[t])) = c_stack[t][L - 1]
<1>1. c_stack[t] \in Seq(Interps \cup Natives)
  BY DEF Safe, OtherTypes
<1>2. PICK s, q : s = c_stack[t] /\ q = Front(s)
  OBVIOUS
<1>3. /\ q \in Seq(Interps \cup Natives) /\ Len(q) = L - 1 /\ DOMAIN q = 1 .. L - 1 /\ L \in Nat \ {0}
      /\ \A k \in 1 .. L - 1 : q[k] = s[k]
  <2>1. s \in Seq(Interps \cup Natives) /\ s # <<>> /\ L = Len(s)
    BY <1>1, <1>2
  <2> QED
    BY ONLY <1>2, <2>1, Popped
<1>4. c_stack'[t] = q /\ \A v \in Threads \ {t} : c_stack'[v] = c_stack[v]
  BY <1>2 DEF Safe, OtherTypes, Dropped
<1>5. q # <<>> <=> L > 1
  <2>1. PICK S : S = Interps \cup Natives
    OBVIOUS
  <2>2. q \in Seq(S)
    BY <1>3, <2>1
  <2>3. q = <<>> <=> Len(q) = 0
    BY ONLY <2>2
  <2> QED
    BY <1>3, <2>3
<1>6. L > 1 => Last(q) = s[L - 1]
  BY <1>3 DEF Last
<1> QED
  BY <1>2, <1>3, <1>4, <1>5, <1>6

LEMMA NativeReturnReturns ==
  ASSUME Sane, NEW t \in Threads, NEW a \in Natives, NativeReturn(t, a), entry' = entry
  PROVE  Calls!Next /\ Sane'
<1>1. Safe /\ Safe' /\ Linked
  BY NativeReturnSafe DEF Sane
<1>2. PICK L, i : L = Len(c_stack[t]) /\ i = Last(Front(c_stack[t]))
  OBVIOUS
<1>3. /\ c_stack[t] # <<>> /\ a = Last(c_stack[t]) /\ NativeInstr(a).op = "RTRN" /\ Resume(i)
      /\ Dropped(t) /\ saved_ip' = saved_ip /\ jit_arg' = jit_arg
      /\ native' = [native EXCEPT ![a] = [method |-> None, ip |-> 1]]
  BY <1>2 DEF NativeReturn, RunsNative, Dropped
<1>4. /\ i \in Interps /\ at[i] = "native" /\ Front(c_stack[t]) # <<>>
      /\ InCode(native[a].method, native[a].ip) /\ a \notin Interps /\ i \notin Natives
  BY <1>1, <1>2, <1>3, TopOfStack, NameAssumption
<1>5. /\ Len(c_stack'[t]) = L - 1 /\ DOMAIN c_stack'[t] = 1 .. L - 1
      /\ \A k \in 1 .. L - 1 : c_stack'[t][k] = c_stack[t][k]
      /\ \A v \in Threads \ {t} : c_stack'[v] = c_stack[v]
      /\ L > 1 /\ i = c_stack[t][L - 1]
  BY <1>1, <1>2, <1>3, <1>4, Lowered
<1>6. /\ L \in Nat \ {0} /\ L \in DOMAIN c_stack[t] /\ DOMAIN c_stack[t] = 1 .. L /\ a = c_stack[t][L]
      /\ \A n \in 1 .. L - 1 : c_stack[t][n] # a /\ c_stack[t][n] \in Interps \cup Natives
      /\ \A u \in Threads \ {t} : \A n \in DOMAIN c_stack[u] :
           c_stack[u][n] # a /\ c_stack[u][n] \in Interps \cup Natives
  BY ONLY <1>1, <1>2, <1>3, t \in Threads, Tops
<1>7. Settled(i) /\ call_stack[i] # <<>>
  BY <1>4 DEF Sane, Safe, Interpreting, Sound
<1>8. Resumed(i)
  <2>1. at[i] \in {"return", "native"}
    BY <1>4
  <2> QED
    BY ONLY <1>1, <1>3, <1>4, <1>7, <2>1, ResumeGoesOn
<1>9. \A j \in Interps \ {i} : Untouched(j)
  BY <1>8 DEF Resumed
<1>10. \A j \in Interps \ {i} : Kept(j) /\ Settled(j)'
  BY <1>1, <1>9, UntouchedAside DEF Sane
<1>11. \A b \in Natives \ {a} : native'[b] = native[b]
  BY <1>1, <1>3 DEF Safe, OtherTypes
<1>12. \A x \in (Interps \cup Natives) \ {a, i} : Kept(x)
  BY <1>10, <1>11, NameAssumption DEF Kept
<1>13. Linked'
  <2>1. \A j \in Interps \ {i} : StaysLinked(j)
    BY <1>9 DEF Untouched, StaysLinked
  <2>2. StayLinked(a, i)
    BY <1>11, <2>1 DEF StayLinked
  <2>3. L > 1 /\ i \in Interps =>
          jit_arg'[i] = jit_arg[i] /\ ~ (jit_arg'[i] /\ call_stack'[i] = <<>> /\ at'[i] \in {"new", "run"})
    BY <1>3, <1>8 DEF Resumed
  <2>4. (L > 1 => i = c_stack[t][L - 1]) /\ (L = 1 => i = a)
    BY <1>5
  <2> QED
    BY ONLY <1>1, <1>2, <1>3, <2>2, <2>3, <2>4, t \in Threads, LinkedShrinks
<1>14. Sane'
  BY <1>1, <1>8, <1>10, <1>13 DEF Sane, Resumed
<1>15. PICK p, x, low, v : /\ p = L - 1 /\ x = Activation(native[a].method, native[a].ip)
                           /\ low = Upto(t, p - 1) /\ v = Visible(i)
  OBVIOUS
<1>16. /\ p \in Nat \ {0} /\ p \in 1 .. Len(c_stack[t]) /\ p \in DOMAIN c_stack[t] /\ p < L
       /\ p - 1 \in 0 .. Len(c_stack[t])
  BY <1>2, <1>5, <1>6, <1>15
<1>17. low \in Seq(Activations) /\ v \in Seq(Activations) /\ x \in Activations
       /\ Code[x.method][x.ip].op = "RTRN"
  <2>1. v \in Seq(Activations)
    BY <1>1, <1>4, <1>15, FormsHold DEF Typed
  <2>2. x \in Activations /\ x.method = native[a].method /\ x.ip = native[a].ip
    BY <1>4, <1>15, ActivationOf DEF Activation
  <2>3. low \in Seq(Activations)
    BY <1>1, <1>15, <1>16, StackedHolds DEF Stacked
  <2> QED
    BY <1>3, <2>1, <2>2, <2>3 DEF NativeInstr
<1>18. low \o v \in Seq(Activations) /\ Stack[t] = Append(low \o v, x)
  <2>1. Stack[t] = Upto(t, L - 1) \o Part(t, L)
    BY ONLY <1>1, <1>2, <1>3, t \in Threads, StackTop
  <2>2. Part(t, L) = <<x>>
    BY <1>1, <1>2, <1>6, <1>15, TopShowsHolds DEF TopShows
  <2>3. Part(t, p) = v
    <3>1. Shows(i)
      BY <1>4 DEF Shows
    <3> QED
      BY <1>1, <1>4, <1>5, <1>15, <1>16, <3>1, FormsHold DEF Forms
  <2>4. Upto(t, p) = low \o v
    BY <1>1, <1>15, <1>16, <2>3, StackedHolds DEF Stacked
  <2>5. PICK w : w = low \o v
    OBVIOUS
  <2>6. w \in Seq(Activations)
    BY ONLY <1>17, <2>5, OnTop
  <2>7. w \o <<x>> = Append(w, x)
    BY ONLY <1>17, <2>6, OnTop
  <2> QED
    BY <1>15, <2>1, <2>2, <2>4, <2>5, <2>6, <2>7
<1>19. Returning(t, p, i, x)
  <2>1. /\ \A n \in 1 .. p - 1 : c_stack[t][n] # i
        /\ \A u \in Threads \ {t} : \A n \in DOMAIN c_stack[u] : c_stack[u][n] # i
    <3>1. \A n \in 1 .. p - 1 : n \in DOMAIN c_stack[t] /\ n # p
      BY <1>6, <1>16
    <3> QED
      BY <1>1, <1>5, <1>15, <1>16, <3>1 DEF Safe, StacksApart
  <2>2. \A n \in 1 .. p - 1 : n \in 1 .. L - 1
    BY <1>6, <1>15, <1>16
  <2>3. /\ \A n \in 1 .. p - 1 : Kept(c_stack[t][n])
        /\ \A u \in Threads \ {t} : /\ c_stack'[u] = c_stack[u]
                                   /\ \A n \in DOMAIN c_stack[u] : Kept(c_stack[u][n])
    <3> HIDE DEF Kept
    <3> QED
      BY <1>5, <1>6, <1>12, <2>1, <2>2
  <2>4. /\ p \in 1 .. Len(c_stack[t]) /\ Len(c_stack'[t]) = p /\ i = c_stack[t][p] /\ at[i] # "leave"
        /\ \A n \in 1 .. p : c_stack'[t][n] = c_stack[t][n]
    BY <1>4, <1>5, <1>15, <1>16
  <2> QED
    BY <1>15, <1>17, <1>18, <2>3, <2>4 DEF Returning
<1>20. t \in Threads /\ entry' = entry
  OBVIOUS
<1>21. Calls!Next
  BY ONLY <1>1, <1>4, <1>8, <1>19, <1>20, Returns
<1> QED
  BY <1>14, <1>21

\* An interpreter that leaves shows nothing: whoever made it has been shown after the
\* call since it was about to leave.
LEMMA DestroyQuiet ==
  ASSUME Sane, NEW t \in Threads, NEW i \in Interps, Destroy(t, i), entry' = entry
  PROVE  Stack' = Stack /\ Sane'
<1>1. Safe /\ Safe' /\ Linked /\ i \notin Natives
  BY DestroySafe, NameAssumption DEF Sane
<1>2. PICK L, d : L = Len(c_stack[t]) /\ d = IF L > 1 THEN c_stack[t][L - 1] ELSE i
  OBVIOUS
<1>3. /\ Dropped(t) /\ c_stack[t] # <<>> /\ i = Last(c_stack[t]) /\ at[i] = "leave"
  BY DEF Destroy, Runs, Dropped
<1>4. /\ Len(c_stack'[t]) = L - 1 /\ DOMAIN c_stack'[t] = 1 .. L - 1
      /\ \A k \in 1 .. L - 1 : c_stack'[t][k] = c_stack[t][k]
      /\ \A v \in Threads \ {t} : c_stack'[v] = c_stack[v]
      /\ Front(c_stack[t]) # <<>> <=> L > 1
      /\ L > 1 => Last(Front(c_stack[t])) = c_stack[t][L - 1]
  BY ONLY <1>1, <1>2, <1>3, t \in Threads, Lowered
<1>5. /\ L \in Nat \ {0} /\ L \in DOMAIN c_stack[t] /\ DOMAIN c_stack[t] = 1 .. L /\ i = c_stack[t][L]
      /\ \A n \in 1 .. L - 1 : c_stack[t][n] # i /\ c_stack[t][n] \in Interps \cup Natives
      /\ \A u \in Threads \ {t} : \A n \in DOMAIN c_stack[u] :
           c_stack[u][n] # i /\ c_stack[u][n] \in Interps \cup Natives
  BY ONLY <1>1, <1>2, <1>3, t \in Threads, Tops
<1>6. /\ L > 1 => /\ d # i /\ d \in Interps \cup Natives /\ d = c_stack[t][L - 1]
                  /\ d \in Interps => at[d] = "dll"
                  /\ d \in Natives => InCode(native[d].method, native[d].ip)
      /\ L = 1 => d = i
  <2>1. PICK b : b = Last(Front(c_stack[t]))
    OBVIOUS
  <2>2. L > 1 => d = b /\ Front(c_stack[t]) # <<>> /\ d = c_stack[t][L - 1]
    BY <1>2, <1>4, <2>1
  <2>3. Front(c_stack[t]) # <<>> =>
          /\ b # i /\ b \in Interps \cup Natives
          /\ b \in Interps => at[b] = "dll"
          /\ b \in Natives => InCode(native[b].method, native[b].ip)
    BY <1>1, <1>3, <2>1, TopOfStack
  <2>4. L = 1 => d = i
    BY <1>2
  <2> QED
    BY <2>2, <2>3, <2>4
<1>7. \A j : (Front(c_stack[t]) # <<>> /\ j = Last(Front(c_stack[t]))) <=> (L > 1 /\ j = d)
  BY <1>2, <1>4
<1>8. /\ native' = [a \in Natives |-> IF L > 1 /\ a = d THEN [native[a] EXCEPT !.ip = @ + 1] ELSE native[a]]
      /\ at' = [j \in Interps |-> IF j = i THEN "off" ELSE IF L > 1 /\ j = d THEN "run" ELSE at[j]]
      /\ ip' = [j \in Interps |-> IF j = i THEN 1 ELSE IF L > 1 /\ j = d THEN ip[j] + 1 ELSE ip[j]]
      /\ call_stack' = [call_stack EXCEPT ![i] = <<>>] /\ frame' = [frame EXCEPT ![i] = None]
      /\ instrs' = [instrs EXCEPT ![i] = None] /\ jit_arg' = [jit_arg EXCEPT ![i] = FALSE]
      /\ UNCHANGED frameVars
  BY <1>7 DEF Destroy
<1>9. /\ at'[i] = "off"
      /\ \A j \in Interps \ {i, d} : Untouched(j)
      /\ \A b \in Natives \ {i, d} : native'[b] = native[b]
  BY <1>1, <1>6, <1>8 DEF Safe, InterpTypes, OtherTypes, Untouched, frameVars
<1>10. ASSUME L > 1, d \in Interps
       PROVE  /\ at[d] = "dll" /\ at'[d] = "run" /\ ip'[d] = ip[d] + 1 /\ instrs'[d] = instrs[d]
              /\ jit_arg'[d] = jit_arg[d] /\ call_stack'[d] = call_stack[d] /\ frame'[d] = frame[d]
              /\ jit_arg[d] => call_stack[d] # <<>>
  <2>1. Settled(d)
    BY <1>10 DEF Sane
  <2>2. at[d] = "dll" /\ d # i
    BY <1>6, <1>10
  <2>3. jit_arg[d] => call_stack[d] # <<>>
    BY <2>1, <2>2 DEF Settled
  <2> QED
    BY <1>1, <1>8, <1>10, <2>2, <2>3 DEF Safe, InterpTypes
<1>11. \A j \in Interps \ {i, d} : Kept(j) /\ Settled(j)'
  BY <1>1, <1>9, UntouchedAside DEF Sane
<1>12. \A x \in (Interps \cup Natives) \ {i, d} : Kept(x)
  BY <1>9, <1>11, NameAssumption DEF Kept
<1>13. Settled(i)'
  <2>1. Held(i)' = <<>> /\ DOMAIN <<>> = {}
    BY <1>9, EmptyStack DEF Held
  <2> QED
    BY <1>9, <2>1 DEF Settled
<1>14. d \in Interps => Settled(d)'
  <2>1. CASE L > 1
    <3> SUFFICES ASSUME d \in Interps PROVE Settled(d)'
      OBVIOUS
    <3>1. Held(d)' = Held(d)
      BY <1>10, <2>1 DEF Held
    <3>2. Settled(d) /\ jit_called' = jit_called
      BY <1>8 DEF Sane, frameVars
    <3>3. \A k \in DOMAIN Held(d) : jit_called[Held(d)[k]] <=> (jit_arg[d] /\ k = 1)
      BY <3>2 DEF Settled
    <3>4. \A k \in DOMAIN Held(d)' : jit_called'[Held(d)'[k]] <=> (jit_arg'[d] /\ k = 1)
      BY <1>10, <2>1, <3>1, <3>2, <3>3
    <3> QED
      BY <1>10, <2>1, <3>4 DEF Settled
  <2>2. CASE ~ (L > 1)
    BY <1>2, <1>13, <2>2
  <2> QED
    BY <2>1, <2>2
<1>15. Linked'
  <2>1. StayLinked(i, d)
    BY <1>9 DEF Untouched, StaysLinked, StayLinked
  <2>2. L > 1 /\ d \in Interps =>
          jit_arg'[d] = jit_arg[d] /\ ~ (jit_arg'[d] /\ call_stack'[d] = <<>> /\ at'[d] \in {"new", "run"})
    BY <1>10
  <2>3. (L > 1 => d = c_stack[t][L - 1]) /\ (L = 1 => d = i)
    BY <1>6
  <2> QED
    BY ONLY <1>1, <1>2, <1>3, <2>1, <2>2, <2>3, t \in Threads, LinkedShrinks
<1>16. Sane'
  BY <1>1, <1>11, <1>13, <1>14, <1>15 DEF Sane
<1>17. \A u \in Threads \ {t} : /\ c_stack'[u] = c_stack[u]
                               /\ \A n \in DOMAIN c_stack[u] : Kept(c_stack[u][n])
  <2>1. L > 1 => L - 1 \in DOMAIN c_stack[t]
    BY <1>5
  <2>2. \A u \in Threads \ {t} : \A n \in DOMAIN c_stack[u] : c_stack[u][n] # d
    BY <1>1, <1>2, <1>5, <2>1 DEF Safe, StacksApart
  <2> HIDE DEF Kept
  <2> QED
    BY <1>4, <1>5, <1>12, <2>2
<1>18. Stacked /\ Stacked' /\ Forms /\ TopShows'
  BY <1>1, StackedHolds, StackedHoldsNext, FormsHold, TopShowsNext
<1>19. PICK k : k = L - 1
  OBVIOUS
<1>20. k \in Nat /\ k \in 0 .. Len(c_stack[t]) /\ k = Len(c_stack'[t]) /\ k + 1 = L
  BY <1>2, <1>4, <1>5, <1>19
<1>21. Stack[t] = Upto(t, k)
  <2>1. Stack[t] = Upto(t, L - 1) \o Part(t, L) /\ Upto(t, L - 1) \in Seq(Activations)
    BY ONLY <1>1, <1>2, <1>3, t \in Threads, StackTop
  <2>2. Part(t, L) = <<>>
    BY <1>3, <1>5, <1>18 DEF Forms, Shows
  <2>3. PICK s : s = Upto(t, L - 1)
    OBVIOUS
  <2>4. s \in Seq(Activations)
    BY <2>1, <2>3
  <2>5. s \o <<>> = s
    BY ONLY <2>4, ConcatEmptySeq
  <2> QED
    BY <1>19, <2>1, <2>2, <2>3, <2>5
<1>22. Stack'[t] = Upto(t, k)'
  BY <1>18, <1>20 DEF Stacked
<1>23. Upto(t, k)' = Upto(t, k)
  <2>1. CASE k = 0
    BY <1>18, <2>1 DEF Stacked
  <2>2. CASE k # 0
    <3>1. /\ L > 1 /\ k \in 1 .. Len(c_stack[t]) /\ k \in 1 .. Len(c_stack'[t]) /\ k \in DOMAIN c_stack[t]
          /\ k \in DOMAIN c_stack'[t] /\ c_stack[t][k] = d /\ c_stack'[t][k] = d /\ k < Len(c_stack[t])
      <4>1. L \in Nat \ {0}
        BY <1>5
      <4>2. L > 1 /\ k \in 1 .. L /\ k \in 1 .. L - 1 /\ k < L
        BY ONLY <1>19, <2>2, <4>1
      <4>3. Len(c_stack[t]) = L /\ Len(c_stack'[t]) = L - 1
        BY <1>2, <1>4
      <4>4. c_stack[t][k] = d /\ c_stack'[t][k] = c_stack[t][k]
        BY <1>4, <1>6, <1>19, <4>2
      <4> QED
        BY <1>4, <1>5, <4>2, <4>3, <4>4
    <3>2. PICK l : l = k - 1
      OBVIOUS
    <3>3. /\ l \in 0 .. Len(c_stack[t]) /\ l <= Len(c_stack'[t]) /\ l + 1 = k
          /\ \A n \in 1 .. l : n \in 1 .. L - 1 /\ n \in DOMAIN c_stack[t] /\ n # k
      <4>1. L \in Nat \ {0}
        BY <1>5
      <4>2. l \in 0 .. L /\ l <= L - 1 /\ l + 1 = k /\ \A n \in 1 .. l : n \in 1 .. L - 1 /\ n \in 1 .. L /\ n # k
        BY ONLY <1>19, <2>2, <3>2, <4>1
      <4> QED
        BY <1>2, <1>4, <1>5, <4>2
    <3>4. Upto(t, l)' = Upto(t, l)
      <4>1. \A n \in 1 .. l : c_stack[t][n] # d
        BY <1>1, <3>1, <3>3 DEF Safe, StacksApart
      <4>2. \A n \in 1 .. l : c_stack'[t][n] = c_stack[t][n] /\ Kept(c_stack[t][n])
        <5> HIDE DEF Kept
        <5> QED
          BY <1>4, <1>5, <1>12, <3>3, <4>1
      <4>3. ~ Over(t, l) /\ ~ Over(t, l)'
        BY <1>10, <3>1, <3>3 DEF Over
      <4>4. l # 0 => (Over(t, l)' <=> Over(t, l))
        BY <4>3
      <4> HIDE DEF Kept
      <4> QED
        BY ONLY <1>1, <3>3, <4>2, <4>4, t \in Threads, KeptUpto
    <3>5. Over(t, k)
      BY <1>3, <1>5, <1>20, <3>1 DEF Over
    <3>6. Part(t, k)' = Part(t, k)
      <4>1. CASE d \in Natives
        <5>1. Part(t, k) = <<Activation(native[d].method, native[d].ip + 1)>>
          BY <1>18, <3>1, <3>5, <4>1 DEF Forms, Place
        <5>2. Part(t, k)' = <<Activation(native'[d].method, native'[d].ip)>>
          BY <1>18, <1>20, <3>1, <4>1 DEF TopShows
        <5>3. native[d] \in [method : Methods \cup {None}, ip : Nat]
          BY <1>1, <4>1 DEF Safe, OtherTypes
        <5>4. native'[d] = [native[d] EXCEPT !.ip = @ + 1]
          BY <1>8, <3>1, <4>1
        <5> QED
          BY <5>1, <5>2, <5>3, <5>4
      <4>2. CASE d \in Interps
        <5>1. Shows(d) /\ Shows(d)' /\ at[d] # "native"
          BY <1>10, <3>1, <4>2 DEF Shows
        <5>2. Part(t, k) = Append(Visible(d), Activation(instrs[d], ip[d] + 1))
          BY <1>18, <3>1, <3>5, <4>2, <5>1 DEF Forms, Place
        <5>3. Part(t, k)' = Append(Visible(d)', Activation(instrs'[d], ip'[d]))
          BY <1>18, <1>20, <3>1, <4>2, <5>1 DEF TopShows
        <5>4. method' = method /\ saved_ip' = saved_ip
          BY <1>8 DEF frameVars
        <5>5. Visible(d)' = Visible(d)
          BY <1>1, <1>10, <3>1, <4>2, <5>4, VisibleSame
        <5> QED
          BY <1>10, <3>1, <4>2, <5>2, <5>3, <5>5
      <4> QED
        BY <1>6, <3>1, <4>1, <4>2
    <3>7. Upto(t, k) = Upto(t, l) \o Part(t, k)
      BY <1>18, <3>1, <3>2 DEF Stacked
    <3>8. Upto(t, k)' = Upto(t, l)' \o Part(t, k)'
      BY <1>18, <3>1, <3>2 DEF Stacked
    <3> QED
      BY <3>4, <3>6, <3>7, <3>8
  <2> QED
    BY <2>1, <2>2
<1>24. Becomes(t, Stack[t])
  <2>1. PICK s : s = Stack[t]
    OBVIOUS
  <2>2. Stack'[t] = s
    BY <1>21, <1>22, <1>23, <2>1
  <2>3. Becomes(t, s)
    <3> HIDE DEF Kept
    <3> QED
      BY ONLY <1>1, <1>17, <2>2, t \in Threads, OthersStay
  <2> QED
    BY <2>1, <2>3
<1> QED
  BY <1>16, <1>24, BecomesSame

(***************************************************************************)
(* The theorem.                                                            *)
(***************************************************************************)
\* What a step of CallStack is for MethodCalls.
Seen == Calls!Next \/ (Stack' = Stack /\ entry' = entry)

LEMMA NextSane ==
  ASSUME Sane, [Next]_vars
  PROVE  Sane' /\ Seen
<1>1. ASSUME NEW t \in Threads, NEW i \in Interps, InterpStep(t, i), entry' = entry
      PROVE  Sane' /\ Seen
  <2>1. CASE Start(t, i)
    BY <1>1, <2>1, StartBegins DEF Seen
  <2>2. CASE Execute(t, i)
    BY <1>1, <2>2, ExecuteQuiet DEF Seen
  <2>3. CASE Store(t, i)
    BY <1>1, <2>3, StoreSteps DEF Seen
  <2>4. CASE Jump(t, i)
    BY <1>1, <2>4, JumpSteps DEF Seen
  <2>5. CASE CallMethod(t, i) /\ exited'
    BY <1>1, <2>5, CallMethodExits DEF Seen
  <2>6. CASE CallMethod(t, i) /\ ~ exited'
    BY <1>1, <2>6, CallMethodCalls DEF Seen
  <2>7. CASE Compile(t, i)
    BY <1>1, <2>7, CompileQuiet DEF Seen
  <2>8. CASE ProcessInterpretedMethodCall(t, i)
    BY <1>1, <2>8, ProcessInterpretedQuiet DEF Seen
  <2>9. CASE \E a \in Natives : ExecuteMachineCode(t, i, a)
    BY <1>1, <2>9, ExecuteMachineCodeQuiet DEF Seen
  <2>10. CASE \E j \in Interps : CallBack(t, i, j)
    BY <1>1, <2>10, CallBackCalls DEF Seen
  <2>11. CASE ReleaseReturning(t, i)
    BY <1>1, <2>11, ReleaseReturningQuiet DEF Seen
  <2>12. CASE Return(t, i)
    BY <1>1, <2>12, ReturnReturns DEF Seen
  <2>13. CASE Destroy(t, i)
    BY <1>1, <2>13, DestroyQuiet DEF Seen
  <2> QED
    BY <1>1, <2>1, <2>2, <2>3, <2>4, <2>5, <2>6, <2>7, <2>8, <2>9, <2>10, <2>11, <2>12, <2>13
       DEF InterpStep
<1>2. ASSUME NEW t \in Threads, NEW a \in Natives, NativeStepOf(t, a), entry' = entry
      PROVE  Sane' /\ Seen
  <2>1. CASE NativeStep(t, a)
    BY <1>2, <2>1, NativeStepSteps DEF Seen
  <2>2. CASE \E i \in Interps : StackCallback(t, a, i)
    BY <1>2, <2>2, StackCallbackQuiet DEF Seen
  <2>3. CASE NativeReturn(t, a)
    BY <1>2, <2>3, NativeReturnReturns DEF Seen
  <2>4. CASE NativeError(t, a)
    BY <1>2, <2>4, NativeErrorQuiet DEF Seen
  <2> QED
    BY <1>2, <2>1, <2>2, <2>3, <2>4 DEF NativeStepOf
<1>3. CASE UNCHANGED vars
  <2>1. Safe'
    BY <1>3, NextSafe DEF Sane
  <2>2. UNCHANGED <<frameVars, interpVars, native, c_stack>> /\ entry' = entry
    BY <1>3 DEF vars
  <2> QED
    BY <2>1, <2>2, UnchangedQuiet DEF Seen
<1> QED
  BY <1>1, <1>2, <1>3 DEF Next

LEMMA InitSane ==
  ASSUME Init
  PROVE  Sane /\ Stack = [t \in Threads |-> <<>>]
<1>1. Safe
  BY InitSafe
<1>2. Len(<<>>) = 0 /\ DOMAIN <<>> = {}
  BY EmptyStack
<1>3. ASSUME NEW i \in Interps PROVE Settled(i)
  <2>1. at[i] = "off"
    BY DEF Init
  <2>2. Held(i) = <<>>
    BY <2>1 DEF Held
  <2> QED
    BY <1>2, <2>1, <2>2 DEF Settled
<1>4. Linked
  BY <1>2 DEF Linked, Init
<1>5. \A t \in Threads : Stack[t] = <<>>
  BY <1>1, <1>2, StackedHolds DEF Stacked, Init
<1>6. Stack = [t \in Threads |-> Stack[t]]
  BY DEF Stack
<1> HIDE DEF Stack
<1> QED
  BY <1>1, <1>3, <1>4, <1>5, <1>6 DEF Sane

\* Interpreters inside native code inside interpreters, and C functions that call back,
\* are one stack of method activations for each thread: a call begins at the first
\* instruction of its callee and is returned from once, to the instruction after it,
\* whatever the mode of either method and wherever the JIT failed to compile.
THEOREM CallsReturn == Spec => ReturnsToCaller
<1>1. Init => Sane /\ Calls!Init
  BY InitSane DEF Calls!Init, Stack
<1>2. Sane /\ [Next]_vars => Sane'
  BY NextSane
<1>3. Sane /\ [Next]_vars =>
        Calls!Next \/ UNCHANGED <<entry, [t \in Threads |-> FlattenSeq([n \in 1 .. Len(c_stack[t]) |-> Part(t, n)])]>>
  BY NextSane DEF Seen, Stack
<1> QED
  BY <1>1, <1>2, <1>3, PTL DEF Spec, ReturnsToCaller, Calls!Spec
====
