------------------------ MODULE NativeCompilerProofs ------------------------
(***************************************************************************)
(* The register allocator of the native compiler: whatever method is       *)
(* translated, no register is free and in use, free twice, or two items'.    *)
(***************************************************************************)
EXTENDS NativeCompiler, SequenceTheorems, Inductions

-----------------------------------------------------------------------------
(* Sequences whose elements differ. *)
IsSeq(s) == s \in Seq(Range(s))

LEMMA SequenceOf ==
  ASSUME NEW S, NEW s \in Seq(S)
  PROVE  IsSeq(s)
BY DEF IsSeq, Range

LEMMA AppendDistinct ==
  ASSUME NEW s, IsSeq(s), IsInjective(s), NEW e, e \notin Range(s)
  PROVE  /\ IsSeq(Append(s, e)) /\ IsInjective(Append(s, e))
         /\ Range(Append(s, e)) = Range(s) \cup {e}
<1> DEFINE S == Range(s) \cup {e}
           t == Append(s, e)
<1>1. s \in Seq(S) /\ e \in S
  BY DEF IsSeq
<1>2. t \in Seq(S) /\ Len(t) = Len(s) + 1 /\ Len(s) \in Nat
  BY <1>1
<1>3. /\ DOMAIN s = 1 .. Len(s) /\ DOMAIN t = 1 .. Len(s) + 1
      /\ \A n \in 1 .. Len(s) : t[n] = s[n]
      /\ t[Len(s) + 1] = e
  BY <1>1, <1>2
<1>4. \A n \in 1 .. Len(s) : s[n] \in Range(s)
  BY <1>3 DEF Range
<1> HIDE DEF t
<1>5. IsInjective(t)
  BY <1>2, <1>3, <1>4 DEF IsInjective
<1>6. Range(t) = Range(s) \cup {e}
  BY <1>2, <1>3 DEF Range
<1> QED
  BY <1>2, <1>5, <1>6, SequenceOf DEF t

LEMMA FrontDistinct ==
  ASSUME NEW s, IsSeq(s), IsInjective(s), s # <<>>
  PROVE  /\ IsSeq(Front(s)) /\ IsInjective(Front(s))
         /\ Last(s) \in Range(s) /\ Range(Front(s)) = Range(s) \ {Last(s)}
<1> DEFINE S == Range(s)
           t == Front(s)
<1>1. s \in Seq(S) /\ Len(s) \in Nat \ {0} /\ DOMAIN s = 1 .. Len(s)
  BY DEF IsSeq
<1>2. t \in Seq(S) /\ Len(t) = Len(s) - 1 /\ \A n \in 1 .. Len(s) - 1 : t[n] = s[n]
  BY <1>1 DEF Front
<1>3. DOMAIN t = 1 .. Len(s) - 1
  BY <1>2
<1>4. Last(s) = s[Len(s)] /\ Last(s) \in Range(s)
  BY <1>1 DEF Last, Range
<1> HIDE DEF t
<1>5. IsInjective(t)
  BY <1>1, <1>2, <1>3 DEF IsInjective
<1>6. Range(t) = Range(s) \ {s[Len(s)]}
  <2>1. \A n \in 1 .. Len(s) - 1 : s[n] # s[Len(s)]
    BY <1>1 DEF IsInjective
  <2>2. \A x \in Range(s) : x # s[Len(s)] => \E n \in 1 .. Len(s) - 1 : s[n] = x
    BY <1>1 DEF Range
  <2>3. ASSUME NEW x \in Range(t) PROVE x \in Range(s) /\ x # s[Len(s)]
    <3>1. PICK n \in 1 .. Len(s) - 1 : x = t[n]
      BY <1>3 DEF Range
    <3>2. n \in DOMAIN s
      BY <1>1
    <3> QED
      BY <1>2, <2>1, <3>1, <3>2 DEF Range
  <2>4. ASSUME NEW x \in Range(s), x # s[Len(s)] PROVE x \in Range(t)
    BY <1>2, <1>3, <2>2, <2>4 DEF Range
  <2> QED
    BY <2>3, <2>4
<1> QED
  BY <1>2, <1>4, <1>5, <1>6, SequenceOf DEF t

-----------------------------------------------------------------------------
(* The registers of the items of a stack. *)
RegsOf(item) == IF InReg(item) THEN {item.v} ELSE {}
StackRegs(s) == UNION {RegsOf(s[n]) : n \in DOMAIN s}
Apart(s) == \A m, n \in DOMAIN s : m # n => RegsOf(s[m]) \cap RegsOf(s[n]) = {}

LEMMA PushApart ==
  ASSUME NEW s, IsSeq(s), Apart(s), NEW item, RegsOf(item) \cap StackRegs(s) = {}
  PROVE  LET t == <<item>> \o s
         IN  IsSeq(t) /\ Apart(t) /\ StackRegs(t) = StackRegs(s) \cup RegsOf(item)
<1> DEFINE S == Range(s) \cup {item}
           t == <<item>> \o s
<1>1. s \in Seq(S) /\ <<item>> \in Seq(S) /\ Len(s) \in Nat
  BY DEF IsSeq
<1>2. t \in Seq(S) /\ Len(t) = Len(s) + 1
  BY <1>1
<1>3. DOMAIN s = 1 .. Len(s) /\ DOMAIN t = 1 .. Len(s) + 1
  BY <1>1, <1>2
<1>4. t[1] = item /\ \A n \in 2 .. Len(s) + 1 : n - 1 \in 1 .. Len(s) /\ t[n] = s[n - 1]
  BY <1>1
<1> HIDE DEF t
<1>5. \A n \in 1 .. Len(s) : RegsOf(s[n]) \subseteq StackRegs(s)
  BY <1>3 DEF StackRegs
<1>6. Apart(t)
  <2> SUFFICES ASSUME NEW m \in 1 .. Len(s) + 1, NEW n \in 1 .. Len(s) + 1, m # n
               PROVE  RegsOf(t[m]) \cap RegsOf(t[n]) = {}
    BY <1>3 DEF Apart
  <2>1. CASE m = 1
    BY <1>4, <1>5, <2>1
  <2>2. CASE n = 1
    BY <1>4, <1>5, <2>2
  <2>3. CASE m # 1 /\ n # 1
    <3>1. m - 1 \in DOMAIN s /\ n - 1 \in DOMAIN s /\ m - 1 # n - 1
      BY <1>3, <2>3, <1>1
    <3> QED
      BY <1>1, <1>4, <2>3, <3>1 DEF Apart
  <2> QED
    BY <2>1, <2>2, <2>3
<1>7. StackRegs(t) = StackRegs(s) \cup RegsOf(item)
  <2>1. \A n \in 1 .. Len(s) : n + 1 \in 2 .. Len(s) + 1 /\ t[n + 1] = s[n]
    BY <1>1, <1>4
  <2>2. ASSUME NEW r \in StackRegs(t) PROVE r \in StackRegs(s) \cup RegsOf(item)
    <3>1. PICK n \in 1 .. Len(s) + 1 : r \in RegsOf(t[n])
      BY <1>3 DEF StackRegs
    <3> QED
      BY <1>1, <1>4, <1>5, <3>1
  <2>3. ASSUME NEW r \in StackRegs(s) PROVE r \in StackRegs(t)
    <3>1. PICK n \in 1 .. Len(s) : r \in RegsOf(s[n])
      BY <1>3 DEF StackRegs
    <3> QED
      BY <1>1, <1>3, <2>1, <3>1 DEF StackRegs
  <2>4. RegsOf(item) \subseteq StackRegs(t)
    BY <1>1, <1>3, <1>4 DEF StackRegs
  <2> QED
    BY <2>2, <2>3, <2>4
<1> QED
  BY <1>2, <1>6, <1>7, SequenceOf DEF t

(* The first n items and the others. *)
LEMMA SplitApart ==
  ASSUME NEW s, IsSeq(s), Apart(s), NEW n \in 0 .. Len(s)
  PROVE  LET front == SubSeq(s, 1, n)
             back == SubSeq(s, n + 1, Len(s))
         IN  /\ IsSeq(front) /\ Apart(front) /\ Len(front) = n
             /\ IsSeq(back) /\ Apart(back) /\ Len(back) = Len(s) - n
             /\ StackRegs(s) = StackRegs(front) \cup StackRegs(back)
             /\ StackRegs(front) \cap StackRegs(back) = {}
<1> DEFINE S == Range(s)
           front == SubSeq(s, 1, n)
           back == SubSeq(s, n + 1, Len(s))
<1>1. s \in Seq(S) /\ Len(s) \in Nat /\ DOMAIN s = 1 .. Len(s) /\ n \in Nat /\ n <= Len(s)
  BY DEF IsSeq
<1>2. front \in Seq(S) /\ Len(front) = n /\ DOMAIN front = 1 .. n /\ \A m \in 1 .. n : front[m] = s[m]
  <2>1. front = [m \in 1 .. n |-> s[m]]
    BY <1>1
  <2> QED
    BY <1>1, <2>1
<1>3. /\ back \in Seq(S) /\ Len(back) = Len(s) - n /\ DOMAIN back = 1 .. Len(s) - n
      /\ \A m \in 1 .. Len(s) - n : back[m] = s[m + n]
  <2>1. back \in Seq(S) /\ Len(back) = Len(s) - n
    <3>1. n + 1 \in Int /\ Len(s) \in Int /\ \A i \in n + 1 .. Len(s) : s[i] \in S
      BY <1>1
    <3>2. back \in Seq(S) /\ Len(back) = IF n + 1 <= Len(s) THEN Len(s) - (n + 1) + 1 ELSE 0
      BY <3>1, SubSeqProperties
    <3> HIDE DEF back
    <3>3. CASE n < Len(s)
      <4>1. n + 1 <= Len(s) /\ Len(s) - (n + 1) + 1 = Len(s) - n
        BY <1>1, <3>3
      <4> QED
        BY <3>2, <4>1, Zenon
    <3>4. CASE n = Len(s)
      <4>1. ~(n + 1 <= Len(s)) /\ 0 = Len(s) - n
        BY <1>1, <3>4
      <4> QED
        BY <3>2, <4>1, Zenon
    <3>5. n < Len(s) \/ n = Len(s)
      <4> DEFINE N == Len(s)
      <4>1. N \in Nat /\ n \in Nat /\ n <= N
        BY <1>1
      <4> HIDE DEF N
      <4>2. n < N \/ n = N
        BY <4>1
      <4> QED
        BY <4>2 DEF N
    <3> QED
      BY <3>3, <3>4, <3>5, Zenon
  <2>2. back = [m \in 1 .. Len(s) - n |-> s[m + n]]
    BY <1>1
  <2> HIDE DEF back
  <2>3. DOMAIN back = 1 .. Len(s) - n
    BY <2>2
  <2>4. \A m \in 1 .. Len(s) - n : back[m] = s[m + n]
    BY <2>2
  <2> QED
    BY <2>1, <2>3, <2>4
<1> HIDE DEF front, back
<1>4. Apart(front)
  BY <1>1, <1>2 DEF Apart
<1>5. Apart(back)
  <2> SUFFICES ASSUME NEW k \in DOMAIN back, NEW m \in DOMAIN back, k # m
               PROVE  RegsOf(back[k]) \cap RegsOf(back[m]) = {}
    BY DEF Apart
  <2>1. k + n \in DOMAIN s /\ m + n \in DOMAIN s /\ k + n # m + n
    BY <1>1, <1>3
  <2> QED
    BY <1>3, <2>1 DEF Apart
<1>6. StackRegs(front) \cup StackRegs(back) \subseteq StackRegs(s)
  <2>1. ASSUME NEW r \in StackRegs(front) PROVE r \in StackRegs(s)
    BY <1>1, <1>2 DEF StackRegs
  <2>2. ASSUME NEW r \in StackRegs(back) PROVE r \in StackRegs(s)
    <3>1. PICK m \in 1 .. Len(s) - n : r \in RegsOf(back[m])
      BY <1>3 DEF StackRegs
    <3>2. m + n \in DOMAIN s
      BY <1>1
    <3> QED
      BY <1>3, <3>1, <3>2 DEF StackRegs
  <2> QED
    BY <2>1, <2>2
<1>7. StackRegs(s) \subseteq StackRegs(front) \cup StackRegs(back)
  <2> SUFFICES ASSUME NEW m \in DOMAIN s, NEW r \in RegsOf(s[m])
               PROVE  r \in StackRegs(front) \cup StackRegs(back)
    BY DEF StackRegs
  <2>1. CASE m <= n
    BY <1>1, <1>2, <2>1 DEF StackRegs
  <2>2. CASE m > n
    <3>1. m - n \in DOMAIN back /\ back[m - n] = s[m]
      <4>1. m - n \in 1 .. Len(s) - n /\ (m - n) + n = m
        BY <1>1, <2>2
      <4> QED
        BY <1>3, <4>1
    <3> QED
      BY <3>1 DEF StackRegs
  <2> QED
    BY <1>1, <2>1, <2>2
<1>8. StackRegs(front) \cap StackRegs(back) = {}
  <2> SUFFICES ASSUME NEW k \in DOMAIN front, NEW m \in DOMAIN back
               PROVE  RegsOf(front[k]) \cap RegsOf(back[m]) = {}
    BY DEF StackRegs
  <2>1. k \in DOMAIN s /\ m + n \in DOMAIN s /\ k # m + n
    BY <1>1, <1>2, <1>3
  <2> QED
    BY <1>2, <1>3, <2>1 DEF Apart
<1> QED
  BY <1>2, <1>3, <1>4, <1>5, <1>6, <1>7, <1>8, SequenceOf DEF front, back
-----------------------------------------------------------------------------
(* What a translation owns: H is what is held besides the items' registers. *)
Parts == {"instrs", "params", "sigs", "index", "stack", "aval", "aux", "xmms", "code", "offsets", "joins", "skip_jump",
          "success", "got"}
IsTranslation(j) == j = [p \in Parts |-> j[p]]

Free(j, used) ==
  /\ IsSeq(j.aval) /\ IsSeq(j.aux) /\ IsSeq(j.xmms)
  /\ IsInjective(j.aval) /\ IsInjective(j.aux) /\ IsInjective(j.xmms)
  /\ Range(j.aval) \cap Range(j.aux) = {}
  /\ (Range(j.aval) \cup Range(j.aux)) \cap Range(j.xmms) = {}
  /\ (Range(j.aval) \cup Range(j.aux) \cup Range(j.xmms)) \cap used = {}

Owns(j, H) ==
  /\ IsTranslation(j)
  /\ j.success =>
       /\ IsSeq(j.stack) /\ Apart(j.stack) /\ StackRegs(j.stack) \cap H = {}
       /\ Free(j, StackRegs(j.stack) \cup H)

(* S is held, too, and is nothing of H. *)
With(j, H, S) == Owns(j, H \cup S) /\ (j.success => H \cap S = {})

(* What a step on registers leaves of the state. *)
Keeps(j, k) == IsTranslation(k) /\ k.stack = j.stack /\ (k.success => j.success)

LEMMA SameOwns ==
  ASSUME NEW j, NEW k, NEW H, Owns(j, H), Keeps(j, k), k.aval = j.aval, k.aux = j.aux, k.xmms = j.xmms
  PROVE  Owns(k, H)
BY DEF Owns, Keeps, Free

LEMMA KeepsOn ==
  ASSUME NEW j, NEW k, NEW l, Keeps(j, k), Keeps(k, l)
  PROVE  Keeps(j, l)
BY DEF Keeps

LEMMA Emits ==
  ASSUME NEW j, NEW H, Owns(j, H), NEW ops
  PROVE  LET k == AddCode(j, ops)
         IN  Owns(k, H) /\ Keeps(j, k) /\ k.got = j.got
<1> DEFINE k == AddCode(j, ops)
<1>1. k = [p \in Parts |-> IF p = "code" THEN j.code \o ops ELSE j[p]]
  BY DEF AddCode, Owns, IsTranslation, Parts
<1> HIDE DEF k
<1>2. IsTranslation(k)
  BY <1>1 DEF IsTranslation
<1>3. k.aval = j.aval /\ k.aux = j.aux /\ k.xmms = j.xmms /\ k.stack = j.stack /\ k.success = j.success /\ k.got = j.got
  BY <1>1 DEF Parts
<1>4. Keeps(j, k)
  BY <1>2, <1>3 DEF Keeps
<1> QED
  BY <1>3, <1>4, SameOwns DEF k

LEMMA Gets ==
  ASSUME NEW j, NEW H, Owns(j, H), NEW r
  PROVE  LET k == [j EXCEPT !.got = r]
         IN  Owns(k, H) /\ Keeps(j, k) /\ k.got = r
<1> DEFINE k == [j EXCEPT !.got = r]
<1>1. k = [p \in Parts |-> IF p = "got" THEN r ELSE j[p]]
  BY DEF Owns, IsTranslation, Parts
<1> HIDE DEF k
<1>2. IsTranslation(k)
  BY <1>1 DEF IsTranslation
<1>3. k.aval = j.aval /\ k.aux = j.aux /\ k.xmms = j.xmms /\ k.stack = j.stack /\ k.success = j.success /\ k.got = r
  BY <1>1 DEF Parts
<1>4. Keeps(j, k)
  BY <1>2, <1>3 DEF Keeps
<1> QED
  BY <1>3, <1>4, SameOwns DEF k

LEMMA TakesRegister ==
  ASSUME NEW j, NEW H, Owns(j, H), NEW use_aux
  PROVE  LET k == GetRegister(j, use_aux)
         IN  With(k, H, {k.got}) /\ Keeps(j, k)
<1> DEFINE k == GetRegister(j, use_aux)
<1>1. CASE j.aval # <<>>
  <2>1. k = [p \in Parts |-> IF p = "aval" THEN Front(j.aval) ELSE IF p = "got" THEN Last(j.aval) ELSE j[p]]
    BY <1>1 DEF GetRegister, Owns, IsTranslation, Parts
  <2> HIDE DEF k
  <2>2. IsTranslation(k)
    BY <2>1 DEF IsTranslation
  <2>3. /\ k.aval = Front(j.aval) /\ k.aux = j.aux /\ k.xmms = j.xmms
        /\ k.stack = j.stack /\ k.success = j.success /\ k.got = Last(j.aval)
    BY <2>1 DEF Parts
  <2>4. ASSUME j.success
        PROVE  /\ IsSeq(k.aval) /\ IsInjective(k.aval)
               /\ k.got \in Range(j.aval) /\ Range(k.aval) = Range(j.aval) \ {k.got}
    BY <1>1, <2>3, <2>4, FrontDistinct DEF Owns, Free
  <2> QED
    BY <2>2, <2>3, <2>4 DEF Owns, Free, With, Keeps, k
<1>2. CASE j.aval = <<>> /\ use_aux /\ j.aux # <<>>
  <2>1. k = [p \in Parts |-> IF p = "aux" THEN Front(j.aux) ELSE IF p = "got" THEN Last(j.aux) ELSE j[p]]
    BY <1>2 DEF GetRegister, Owns, IsTranslation, Parts
  <2> HIDE DEF k
  <2>2. IsTranslation(k)
    BY <2>1 DEF IsTranslation
  <2>3. /\ k.aval = j.aval /\ k.aux = Front(j.aux) /\ k.xmms = j.xmms
        /\ k.stack = j.stack /\ k.success = j.success /\ k.got = Last(j.aux)
    BY <2>1 DEF Parts
  <2>4. ASSUME j.success
        PROVE  /\ IsSeq(k.aux) /\ IsInjective(k.aux)
               /\ k.got \in Range(j.aux) /\ Range(k.aux) = Range(j.aux) \ {k.got}
    BY <1>2, <2>3, <2>4, FrontDistinct DEF Owns, Free
  <2> QED
    BY <2>2, <2>3, <2>4 DEF Owns, Free, With, Keeps, k
<1>3. CASE j.aval = <<>> /\ ~(use_aux /\ j.aux # <<>>)
  <2>1. k = [p \in Parts |-> IF p = "success" THEN FALSE ELSE IF p = "got" THEN "RAX" ELSE j[p]]
    BY <1>3 DEF GetRegister, Owns, IsTranslation, Parts
  <2> HIDE DEF k
  <2>2. IsTranslation(k)
    BY <2>1 DEF IsTranslation
  <2>3. k.stack = j.stack /\ ~k.success
    BY <2>1 DEF Parts
  <2> QED
    BY <2>2, <2>3 DEF Owns, With, Keeps, k
<1> QED
  BY <1>1, <1>2, <1>3

LEMMA TakesXmmRegister ==
  ASSUME NEW j, NEW H, Owns(j, H)
  PROVE  LET k == GetXmmRegister(j)
         IN  With(k, H, {k.got}) /\ Keeps(j, k)
<1> DEFINE k == GetXmmRegister(j)
<1>1. CASE j.xmms # <<>>
  <2>1. k = [p \in Parts |-> IF p = "xmms" THEN Front(j.xmms) ELSE IF p = "got" THEN Last(j.xmms) ELSE j[p]]
    BY <1>1 DEF GetXmmRegister, Owns, IsTranslation, Parts
  <2> HIDE DEF k
  <2>2. IsTranslation(k)
    BY <2>1 DEF IsTranslation
  <2>3. /\ k.aval = j.aval /\ k.aux = j.aux /\ k.xmms = Front(j.xmms)
        /\ k.stack = j.stack /\ k.success = j.success /\ k.got = Last(j.xmms)
    BY <2>1 DEF Parts
  <2>4. ASSUME j.success
        PROVE  /\ IsSeq(k.xmms) /\ IsInjective(k.xmms)
               /\ k.got \in Range(j.xmms) /\ Range(k.xmms) = Range(j.xmms) \ {k.got}
    BY <1>1, <2>3, <2>4, FrontDistinct DEF Owns, Free
  <2> QED
    BY <2>2, <2>3, <2>4 DEF Owns, Free, With, Keeps, k
<1>2. CASE j.xmms = <<>>
  <2>1. k = [p \in Parts |-> IF p = "success" THEN FALSE ELSE IF p = "got" THEN "XMM0" ELSE j[p]]
    BY <1>2 DEF GetXmmRegister, Owns, IsTranslation, Parts
  <2> HIDE DEF k
  <2>2. IsTranslation(k)
    BY <2>1 DEF IsTranslation
  <2>3. k.stack = j.stack /\ ~k.success
    BY <2>1 DEF Parts
  <2> QED
    BY <2>2, <2>3 DEF Owns, With, Keeps, k
<1> QED
  BY <1>1, <1>2

LEMMA ReturnsRegister ==
  ASSUME NEW j, NEW H, NEW r, With(j, H, {r})
  PROVE  LET k == ReleaseRegister(j, r)
         IN  Owns(k, H) /\ Keeps(j, k) /\ k.got = j.got
<1> DEFINE k == ReleaseRegister(j, r)
<1>1. k = [p \in Parts |-> IF p = "aval" THEN Append(j.aval, r) ELSE j[p]]
  BY DEF ReleaseRegister, Owns, With, IsTranslation, Parts
<1> HIDE DEF k
<1>2. IsTranslation(k)
  BY <1>1 DEF IsTranslation
<1>3. /\ k.aval = Append(j.aval, r) /\ k.aux = j.aux /\ k.xmms = j.xmms
      /\ k.stack = j.stack /\ k.success = j.success /\ k.got = j.got
  BY <1>1 DEF Parts
<1>4. ASSUME j.success
      PROVE  /\ IsSeq(k.aval) /\ IsInjective(k.aval) /\ Range(k.aval) = Range(j.aval) \cup {r}
  <2>1. r \notin Range(j.aval) /\ IsSeq(j.aval) /\ IsInjective(j.aval)
    BY <1>4 DEF With, Owns, Free
  <2> QED
    BY <1>3, <2>1, AppendDistinct
<1> QED
  BY <1>2, <1>3, <1>4 DEF Owns, Free, With, Keeps, k

LEMMA ReturnsXmmRegister ==
  ASSUME NEW j, NEW H, NEW r, With(j, H, {r})
  PROVE  LET k == ReleaseXmmRegister(j, r)
         IN  Owns(k, H) /\ Keeps(j, k) /\ k.got = j.got
<1> DEFINE k == ReleaseXmmRegister(j, r)
<1>1. k = [p \in Parts |-> IF p = "xmms" THEN Append(j.xmms, r) ELSE j[p]]
  BY DEF ReleaseXmmRegister, Owns, With, IsTranslation, Parts
<1> HIDE DEF k
<1>2. IsTranslation(k)
  BY <1>1 DEF IsTranslation
<1>3. /\ k.aval = j.aval /\ k.aux = j.aux /\ k.xmms = Append(j.xmms, r)
      /\ k.stack = j.stack /\ k.success = j.success /\ k.got = j.got
  BY <1>1 DEF Parts
<1>4. ASSUME j.success
      PROVE  /\ IsSeq(k.xmms) /\ IsInjective(k.xmms) /\ Range(k.xmms) = Range(j.xmms) \cup {r}
  <2>1. r \notin Range(j.xmms) /\ IsSeq(j.xmms) /\ IsInjective(j.xmms)
    BY <1>4 DEF With, Owns, Free
  <2> QED
    BY <1>3, <2>1, AppendDistinct
<1> QED
  BY <1>2, <1>3, <1>4 DEF Owns, Free, With, Keeps, k

LEMMA ReturnsItem ==
  ASSUME NEW j, NEW H, NEW item, With(j, H, RegsOf(item))
  PROVE  LET k == Release(j, item)
         IN  Owns(k, H) /\ Keeps(j, k) /\ k.got = j.got
<1>1. CASE item.type = "REG_INT"
  <2>1. RegsOf(item) = {item.v} /\ Release(j, item) = ReleaseRegister(j, item.v)
    BY <1>1 DEF RegsOf, InReg, Release
  <2> QED
    BY <2>1, ReturnsRegister
<1>2. CASE item.type = "REG_FLOAT"
  <2>1. RegsOf(item) = {item.v} /\ Release(j, item) = ReleaseXmmRegister(j, item.v)
    BY <1>2 DEF RegsOf, InReg, Release
  <2> QED
    BY <2>1, ReturnsXmmRegister
<1>3. CASE item.type # "REG_INT" /\ item.type # "REG_FLOAT"
  <2>1. RegsOf(item) = {} /\ Release(j, item) = j
    BY <1>3 DEF RegsOf, InReg, Release
  <2> QED
    BY <2>1 DEF With, Owns, Keeps
<1> QED
  BY <1>1, <1>2, <1>3

LEMMA Pushes ==
  ASSUME NEW j, NEW H, NEW item, With(j, H, RegsOf(item))
  PROVE  LET k == PushItem(j, item)
         IN  Owns(k, H) /\ k.success = j.success /\ k.got = j.got /\ k.stack = <<item>> \o j.stack
<1> DEFINE k == PushItem(j, item)
<1>1. k = [p \in Parts |-> IF p = "stack" THEN <<item>> \o j.stack ELSE j[p]]
  BY DEF PushItem, Owns, With, IsTranslation, Parts
<1> HIDE DEF k
<1>2. IsTranslation(k)
  BY <1>1 DEF IsTranslation
<1>3. /\ k.aval = j.aval /\ k.aux = j.aux /\ k.xmms = j.xmms
      /\ k.stack = <<item>> \o j.stack /\ k.success = j.success /\ k.got = j.got
  BY <1>1 DEF Parts
<1>4. ASSUME j.success
      PROVE  /\ IsSeq(k.stack) /\ Apart(k.stack) /\ StackRegs(k.stack) = StackRegs(j.stack) \cup RegsOf(item)
  <2>1. IsSeq(j.stack) /\ Apart(j.stack) /\ RegsOf(item) \cap StackRegs(j.stack) = {}
    BY <1>4 DEF With, Owns
  <2> QED
    BY <1>3, <2>1, PushApart
<1> QED
  BY <1>2, <1>3, <1>4 DEF Owns, Free, With, k

LEMMA Drops ==
  ASSUME NEW j, NEW H, Owns(j, H), NEW n, j.success => n \in 0 .. Len(j.stack)
  PROVE  LET k == DropItems(j, n)
             items == SubSeq(j.stack, 1, n)
         IN  /\ With(k, H, StackRegs(items)) /\ k.success = j.success /\ k.got = j.got
             /\ k.stack = SubSeq(j.stack, n + 1, Len(j.stack))
             /\ j.success => /\ IsSeq(items) /\ Apart(items) /\ Len(items) = n
                             /\ IsSeq(k.stack) /\ Len(k.stack) = Len(j.stack) - n
<1> DEFINE k == DropItems(j, n)
           items == SubSeq(j.stack, 1, n)
           left == SubSeq(j.stack, n + 1, Len(j.stack))
<1>1. k = [p \in Parts |-> IF p = "stack" THEN left ELSE j[p]]
  BY DEF DropItems, Owns, IsTranslation, Parts
<1> HIDE DEF k
<1>2. IsTranslation(k)
  BY <1>1 DEF IsTranslation
<1>3. /\ k.aval = j.aval /\ k.aux = j.aux /\ k.xmms = j.xmms
      /\ k.stack = left /\ k.success = j.success /\ k.got = j.got
  BY <1>1 DEF Parts
<1>4. ASSUME j.success
      PROVE  /\ IsSeq(items) /\ Apart(items) /\ Len(items) = n
             /\ IsSeq(left) /\ Apart(left) /\ Len(left) = Len(j.stack) - n
             /\ StackRegs(j.stack) = StackRegs(items) \cup StackRegs(left)
             /\ StackRegs(items) \cap StackRegs(left) = {}
  <2>1. IsSeq(j.stack) /\ Apart(j.stack)
    BY <1>4 DEF Owns
  <2> QED
    BY <1>4, <2>1, SplitApart
<1> HIDE DEF items, left
<1>5. With(k, H, StackRegs(items))
  BY <1>2, <1>3, <1>4 DEF Owns, Free, With
<1> QED
  BY <1>3, <1>4, <1>5 DEF k, items, left

LEMMA FirstItems ==
  ASSUME NEW s, IsSeq(s), Apart(s)
  PROVE  /\ Len(s) \in Nat
         /\ Len(s) >= 1 => StackRegs(SubSeq(s, 1, 1)) = RegsOf(s[1]) /\ Head(s) = s[1]
         /\ Len(s) >= 2 => /\ StackRegs(SubSeq(s, 1, 2)) = RegsOf(s[1]) \cup RegsOf(s[2])
                           /\ RegsOf(s[1]) \cap RegsOf(s[2]) = {}
<1>1. s \in Seq(Range(s)) /\ Len(s) \in Nat /\ DOMAIN s = 1 .. Len(s)
  BY DEF IsSeq
<1>2. ASSUME Len(s) >= 1 PROVE StackRegs(SubSeq(s, 1, 1)) = RegsOf(s[1]) /\ Head(s) = s[1]
  <2> DEFINE t == SubSeq(s, 1, 1)
  <2>1. t = [m \in 1 .. 1 |-> s[m]]
    BY <1>1, <1>2
  <2> HIDE DEF t
  <2>2. DOMAIN t = {1} /\ t[1] = s[1]
    BY <2>1
  <2> QED
    BY <1>1, <1>2, <2>2 DEF StackRegs, t
<1>3. ASSUME Len(s) >= 2
      PROVE  /\ StackRegs(SubSeq(s, 1, 2)) = RegsOf(s[1]) \cup RegsOf(s[2])
             /\ RegsOf(s[1]) \cap RegsOf(s[2]) = {}
  <2> DEFINE t == SubSeq(s, 1, 2)
  <2>1. t = [m \in 1 .. 2 |-> s[m]]
    BY <1>1, <1>3
  <2> HIDE DEF t
  <2>2. DOMAIN t = {1, 2} /\ t[1] = s[1] /\ t[2] = s[2]
    BY <2>1
  <2>3. StackRegs(t) = RegsOf(s[1]) \cup RegsOf(s[2])
    BY <2>2 DEF StackRegs
  <2>4. 1 \in DOMAIN s /\ 2 \in DOMAIN s /\ 1 # 2
    BY <1>1, <1>3
  <2> QED
    BY <2>3, <2>4, Zenon DEF Apart, t
<1> QED
  BY <1>1, <1>2, <1>3

(* The first item, or the first two, in hand. *)
LEMMA DropsOne ==
  ASSUME NEW j, NEW H, Owns(j, H), j.success => Len(j.stack) >= 1
  PROVE  LET k == DropItems(j, 1)
         IN  /\ With(k, H, RegsOf(FirstItem(j))) /\ k.success = j.success /\ k.got = j.got
             /\ k.stack = SubSeq(j.stack, 2, Len(j.stack))
             /\ j.success => Len(k.stack) = Len(j.stack) - 1
<1> DEFINE n == 1
           k == DropItems(j, n)
           items == SubSeq(j.stack, 1, n)
<1>1. ASSUME j.success PROVE n \in 0 .. Len(j.stack) /\ StackRegs(items) = RegsOf(FirstItem(j))
  <2>1. IsSeq(j.stack) /\ Apart(j.stack)
    BY <1>1 DEF Owns
  <2>2. Len(j.stack) \in Nat /\ StackRegs(items) = RegsOf(FirstItem(j))
    BY <1>1, <2>1, FirstItems DEF FirstItem
  <2> QED
    BY <1>1, <2>2
<1>2. n + 1 = 2
  OBVIOUS
<1> HIDE DEF n, k, items
<1>3. /\ With(k, H, StackRegs(items)) /\ k.success = j.success /\ k.got = j.got
      /\ k.stack = SubSeq(j.stack, n + 1, Len(j.stack))
      /\ j.success => Len(k.stack) = Len(j.stack) - n
  BY <1>1, Drops DEF k, items
<1>4. With(k, H, RegsOf(FirstItem(j)))
  BY <1>1, <1>3 DEF With, Owns
<1> QED
  BY <1>2, <1>3, <1>4 DEF k, n

LEMMA DropsTwo ==
  ASSUME NEW j, NEW H, Owns(j, H), j.success => Len(j.stack) >= 2
  PROVE  LET k == DropItems(j, 2)
             one == RegsOf(FirstItem(j))
             other == RegsOf(SecondItem(j))
         IN  /\ With(k, H, one \cup other) /\ k.success = j.success /\ k.got = j.got
             /\ k.stack = SubSeq(j.stack, 3, Len(j.stack))
             /\ j.success => Len(k.stack) = Len(j.stack) - 2 /\ one \cap other = {}
<1> DEFINE n == 2
           k == DropItems(j, n)
           items == SubSeq(j.stack, 1, n)
           one == RegsOf(FirstItem(j))
           other == RegsOf(SecondItem(j))
<1>1. ASSUME j.success
      PROVE  n \in 0 .. Len(j.stack) /\ StackRegs(items) = one \cup other /\ one \cap other = {}
  <2>1. IsSeq(j.stack) /\ Apart(j.stack)
    BY <1>1 DEF Owns
  <2>2. /\ Len(j.stack) \in Nat /\ Head(j.stack) = j.stack[1]
        /\ StackRegs(items) = RegsOf(j.stack[1]) \cup RegsOf(j.stack[2])
        /\ RegsOf(j.stack[1]) \cap RegsOf(j.stack[2]) = {}
    <3>1. Len(j.stack) \in Nat
      BY <2>1, FirstItems
    <3>2. Len(j.stack) >= 1 /\ Len(j.stack) >= 2
      BY <1>1, <3>1
    <3> QED
      BY <2>1, <3>1, <3>2, FirstItems, Zenon
  <2>3. FirstItem(j) = j.stack[1] /\ SecondItem(j) = j.stack[2]
    BY <2>2, Zenon DEF FirstItem, SecondItem
  <2> QED
    BY <1>1, <2>2, <2>3
<1>2. n + 1 = 3
  OBVIOUS
<1> HIDE DEF n, k, items
<1>3. /\ With(k, H, StackRegs(items)) /\ k.success = j.success /\ k.got = j.got
      /\ k.stack = SubSeq(j.stack, n + 1, Len(j.stack))
      /\ j.success => Len(k.stack) = Len(j.stack) - n
  BY <1>1, Drops DEF k, items
<1>4. With(k, H, one \cup other)
  BY <1>1, <1>3 DEF With, Owns
<1> QED
  BY <1>1, <1>2, <1>3, <1>4 DEF k, n
-----------------------------------------------------------------------------
(* Held sets put together and taken apart. *)
LEMMA None ==
  ASSUME NEW j, NEW H
  PROVE  Owns(j, H) <=> With(j, H, {})
<1>1. H \cup {} = H
  OBVIOUS
<1> QED
  BY <1>1 DEF With

LEMMA Still ==
  ASSUME NEW j, NEW k, NEW H, NEW S, With(j, H, S), Keeps(j, k), Owns(k, H \cup S)
  PROVE  With(k, H, S)
BY DEF With, Keeps

LEMMA Splits ==
  ASSUME NEW j, NEW H, NEW S, NEW T, With(j, H, S \cup T), j.success => S \cap T = {}
  PROVE  With(j, H \cup S, T) /\ With(j, H \cup T, S)
<1>1. (H \cup S) \cup T = H \cup (S \cup T) /\ (H \cup T) \cup S = H \cup (S \cup T)
  OBVIOUS
<1>2. Owns(j, (H \cup S) \cup T) /\ Owns(j, (H \cup T) \cup S)
  BY <1>1, Zenon DEF With
<1>3. j.success => (H \cup S) \cap T = {} /\ (H \cup T) \cap S = {}
  BY DEF With
<1> QED
  BY <1>2, <1>3, Zenon DEF With

LEMMA Unites ==
  ASSUME NEW j, NEW H, NEW S, NEW T, With(j, H \cup S, T), j.success => H \cap S = {}
  PROVE  With(j, H, S \cup T) /\ (j.success => S \cap T = {})
<1>1. (H \cup S) \cup T = H \cup (S \cup T)
  OBVIOUS
<1>2. Owns(j, H \cup (S \cup T))
  BY <1>1, Zenon DEF With
<1>3. j.success => H \cap (S \cup T) = {} /\ S \cap T = {}
  BY DEF With
<1> QED
  BY <1>2, <1>3, Zenon DEF With

(* What is held by turns. *)
LEMMA Swaps ==
  ASSUME NEW j, NEW H, NEW S, NEW T, With(j, H \cup S, T), j.success => H \cap S = {}
  PROVE  With(j, H \cup T, S)
BY Unites, Splits

(* Parts that are not about registers. *)
Others == {"instrs", "params", "sigs", "index", "code", "offsets", "joins", "skip_jump"}
LEMMA Changes ==
  ASSUME NEW j, NEW H, Owns(j, H), NEW S \in SUBSET Others, NEW v, NEW k, k = [p \in Parts |-> IF p \in S THEN v[p] ELSE j[p]]
  PROVE  Owns(k, H) /\ Keeps(j, k) /\ k.got = j.got
<1>1. IsTranslation(k)
  BY DEF IsTranslation
<1>2. k.aval = j.aval /\ k.aux = j.aux /\ k.xmms = j.xmms /\ k.stack = j.stack /\ k.success = j.success /\ k.got = j.got
  BY DEF Parts, Others
<1>3. Keeps(j, k)
  BY <1>1, <1>2 DEF Keeps
<1> QED
  BY <1>2, <1>3, SameOwns

LEMMA Joins ==
  ASSUME NEW j, NEW H, Owns(j, H), NEW label
  PROVE  LET k == Joined(j, label)
         IN  Owns(k, H) /\ Keeps(j, k) /\ k.got = j.got
<1> DEFINE k == Joined(j, label)
           S == {"joins"}
           v == [p \in S |-> j.joins \cup {[label |-> label, stack |-> j.stack]}]
<1>1. k = [p \in Parts |-> IF p \in S THEN v[p] ELSE j[p]]
  BY DEF Joined, Owns, IsTranslation, Parts
<1>2. S \in SUBSET Others
  BY DEF Others
<1> HIDE DEF k, S, v
<1> QED
  BY <1>1, <1>2, Changes DEF k

LEMMA Skips ==
  ASSUME NEW j, NEW H, Owns(j, H), NEW b
  PROVE  LET k == [j EXCEPT !.skip_jump = b]
         IN  Owns(k, H) /\ Keeps(j, k) /\ k.got = j.got
<1> DEFINE k == [j EXCEPT !.skip_jump = b]
           S == {"skip_jump"}
           v == [p \in S |-> b]
<1>1. k = [p \in Parts |-> IF p \in S THEN v[p] ELSE j[p]]
  BY DEF Owns, IsTranslation, Parts
<1>2. S \in SUBSET Others
  BY DEF Others
<1> HIDE DEF k, S, v
<1>3. Owns(k, H) /\ Keeps(j, k) /\ k.got = j.got
  BY <1>1, <1>2, Changes
<1> QED
  BY <1>3 DEF k

LEMMA Advances ==
  ASSUME NEW j, NEW H, Owns(j, H), NEW index, NEW offsets
  PROVE  LET k == [j EXCEPT !.index = index, !.offsets = offsets]
         IN  Owns(k, H) /\ Keeps(j, k) /\ k.got = j.got
<1> DEFINE k == [j EXCEPT !.index = index, !.offsets = offsets]
           S == {"index", "offsets"}
           v == [p \in S |-> IF p = "index" THEN index ELSE offsets]
<1>1. k = [p \in Parts |-> IF p \in S THEN v[p] ELSE j[p]]
  BY DEF Owns, IsTranslation, Parts
<1>2. S \in SUBSET Others
  BY DEF Others
<1> HIDE DEF k, S, v
<1>3. Owns(k, H) /\ Keeps(j, k) /\ k.got = j.got
  BY <1>1, <1>2, Changes
<1> QED
  BY <1>3 DEF k

LEMMA AdvancesOver ==
  ASSUME NEW j, NEW H, Owns(j, H), NEW index, NEW params, NEW offsets
  PROVE  Owns([j EXCEPT !.index = index, !.params = params, !.offsets = offsets], H)
<1> DEFINE k == [j EXCEPT !.index = index, !.params = params, !.offsets = offsets]
           S == {"index", "params", "offsets"}
           v == [p \in S |-> IF p = "index" THEN index ELSE IF p = "params" THEN params ELSE offsets]
<1>1. k = [p \in Parts |-> IF p \in S THEN v[p] ELSE j[p]]
  BY DEF Owns, IsTranslation, Parts
<1>2. S \in SUBSET Others
  BY DEF Others
<1> HIDE DEF k, S, v
<1>3. Owns(k, H)
  BY <1>1, <1>2, Changes
<1> QED
  BY <1>3 DEF k

-----------------------------------------------------------------------------
(* An item in a register: its own, or one that is held from then on. *)
LEMMA Loads ==
  ASSUME NEW j, NEW H, NEW item, With(j, H, RegsOf(item)), NEW use_aux
  PROVE  LET k == Loaded(j, item, use_aux)
         IN  With(k, H, {k.got}) /\ Keeps(j, k)
<1> DEFINE k == Loaded(j, item, use_aux)
<1>1. CASE InReg(item)
  <2>1. RegsOf(item) = {item.v} /\ k = [j EXCEPT !.got = item.v]
    BY <1>1 DEF RegsOf, InReg, Loaded
  <2>2. Owns(j, H \cup {item.v}) /\ With(j, H, {item.v})
    BY <2>1 DEF With
  <2> HIDE DEF k
  <2>3. Owns(k, H \cup {item.v}) /\ Keeps(j, k) /\ k.got = item.v
    BY <2>1, <2>2, Gets
  <2> QED
    BY <2>2, <2>3, Still DEF k
<1>2. CASE ~InReg(item)
  <2>1. Owns(j, H)
    <3>1. RegsOf(item) = {}
      BY <1>2 DEF RegsOf
    <3> QED
      BY <3>1, None
  <2>2. ASSUME NEW k1, Keeps(j, k1), With(k1, H, {k1.got}), k = LoadedTo(k1, item)
        PROVE  With(k, H, {k.got}) /\ Keeps(j, k)
    <3> HIDE DEF k
    <3>1. Owns(k1, H \cup {k1.got})
      BY <2>2 DEF With
    <3>2. Owns(k, H \cup {k1.got}) /\ Keeps(k1, k) /\ k.got = k1.got
      BY <2>2, <3>1, Emits DEF LoadedTo
    <3> QED
      BY <2>2, <3>2, Still, KeepsOn
  <2>3. CASE item.type \in {"IMM_INT", "MEM_INT"}
    <3> DEFINE k1 == GetRegister(j, use_aux)
    <3>1. k = LoadedTo(k1, item)
      BY <1>2, <2>3 DEF Loaded, InReg
    <3>2. With(k1, H, {k1.got}) /\ Keeps(j, k1)
      BY <2>1, TakesRegister
    <3> HIDE DEF k, k1
    <3> QED
      BY <3>1, <3>2, <2>2 DEF k
  <2>4. CASE item.type = "MEM_FLOAT"
    <3> DEFINE k1 == GetXmmRegister(j)
    <3>1. k = LoadedTo(k1, item)
      BY <1>2, <2>4 DEF Loaded, InReg
    <3>2. With(k1, H, {k1.got}) /\ Keeps(j, k1)
      BY <2>1, TakesXmmRegister
    <3> HIDE DEF k, k1
    <3> QED
      BY <3>1, <3>2, <2>2 DEF k
  <2>5. CASE item.type \notin {"IMM_INT", "MEM_INT"} /\ item.type # "MEM_FLOAT"
    <3> DEFINE k1 == GetXmmRegister(j)
               k2 == GetRegister(k1, TRUE)
               k3 == ReleaseRegister(k2, k2.got)
               k4 == [k3 EXCEPT !.got = k1.got]
    <3>1. k = LoadedTo(k4, item)
      BY <1>2, <2>5 DEF Loaded, Passing
    <3>2. With(k1, H, {k1.got}) /\ Keeps(j, k1)
      BY <2>1, TakesXmmRegister
    <3> HIDE DEF k, k1
    <3>3. Owns(k1, H \cup {k1.got})
      BY <3>2 DEF With
    <3>4. With(k2, H \cup {k1.got}, {k2.got}) /\ Keeps(k1, k2)
      BY <3>3, TakesRegister
    <3> HIDE DEF k2
    <3>5. Owns(k3, H \cup {k1.got}) /\ Keeps(k2, k3)
      BY <3>4, ReturnsRegister
    <3> HIDE DEF k3
    <3>6. Owns(k4, H \cup {k1.got}) /\ Keeps(k3, k4) /\ k4.got = k1.got
      BY <3>5, Gets
    <3> HIDE DEF k4
    <3>7. Keeps(k1, k4) /\ Keeps(j, k4)
      BY <3>2, <3>4, <3>5, <3>6, KeepsOn
    <3>8. With(k4, H, {k4.got})
      BY <3>2, <3>6, <3>7, Still
    <3> QED
      BY <3>1, <3>7, <3>8, <2>2 DEF k
  <2> QED
    BY <2>3, <2>4, <2>5
<1> QED
  BY <1>1, <1>2

LEMMA InRegisterRegs ==
  ASSUME NEW item, NEW r
  PROVE  RegsOf(InRegister(item, r)) = {r}
BY DEF RegsOf, InReg, InRegister, Item

LEMMA Moves ==
  ASSUME NEW j, NEW H, NEW item, With(j, H, RegsOf(item)), NEW to
  PROVE  LET k == Moved(j, item, to)
         IN  Owns(k, H) /\ Keeps(j, k)
<1> DEFINE k == Moved(j, item, to)
<1>1. CASE item.type = "IMM_INT"
  <2>1. RegsOf(item) = {} /\ k = AddCode(j, <<Mov(to, Operand(item))>>)
    BY <1>1 DEF RegsOf, InReg, Moved
  <2>2. Owns(j, H)
    BY <2>1, None
  <2> QED
    BY <2>1, <2>2, Emits
<1>2. CASE item.type # "IMM_INT"
  <2> DEFINE k1 == Loaded(j, item, TRUE)
             k2 == AddCode(k1, <<Mov(to, Reg(k1.got))>>)
             one == InRegister(item, k1.got)
  <2>1. k = Release(k2, one)
    BY <1>2 DEF Moved
  <2>2. With(k1, H, {k1.got}) /\ Keeps(j, k1)
    BY Loads
  <2>3. Owns(k1, H \cup {k1.got})
    BY <2>2 DEF With
  <2> HIDE DEF k, k1
  <2>4. Owns(k2, H \cup {k1.got}) /\ Keeps(k1, k2)
    BY <2>3, Emits
  <2> HIDE DEF k2
  <2>5. With(k2, H, {k1.got})
    BY <2>2, <2>4, Still
  <2>6. With(k2, H, RegsOf(one))
    BY <2>5, InRegisterRegs
  <2> HIDE DEF one
  <2>7. Owns(k, H) /\ Keeps(k2, k)
    BY <2>1, <2>6, ReturnsItem
  <2> QED
    BY <2>2, <2>4, <2>7, KeepsOn DEF k
<1> QED
  BY <1>1, <1>2
-----------------------------------------------------------------------------
(* Two registers held. *)
Pair(j, H, one, other) == With(j, H \cup {one}, {other}) /\ (j.success => H \cap {one} = {})

LEMMA PairOwns ==
  ASSUME NEW j, NEW H, NEW one, NEW other, Pair(j, H, one, other)
  PROVE  Owns(j, (H \cup {one}) \cup {other})
BY DEF Pair, With

LEMMA PairStill ==
  ASSUME NEW j, NEW k, NEW H, NEW one, NEW other, Pair(j, H, one, other), Keeps(j, k), Owns(k, (H \cup {one}) \cup {other})
  PROVE  Pair(k, H, one, other)
<1>1. With(k, H \cup {one}, {other})
  BY Still DEF Pair
<1>2. k.success => j.success
  BY DEF Keeps
<1> QED
  BY <1>1, <1>2, Zenon DEF Pair

LEMMA PairSwaps ==
  ASSUME NEW j, NEW H, NEW one, NEW other, Pair(j, H, one, other)
  PROVE  Pair(j, H, other, one)
<1>1. With(j, H \cup {other}, {one})
  BY Swaps DEF Pair
<1>2. j.success => H \cap {other} = {}
  BY DEF Pair, With
<1> QED
  BY <1>1, <1>2, Zenon DEF Pair

(* Others are held, too. *)
LEMMA PairBeside ==
  ASSUME NEW j, NEW k, NEW H, NEW one, NEW other, NEW S, Pair(j, H, one, other), Keeps(j, k),
         With(k, (H \cup {one}) \cup {other}, S)
  PROVE  Pair(k, H \cup S, one, other) /\ (k.success => H \cap S = {})
<1>1. k.success => (H \cup {one}) \cap {other} = {} /\ H \cap {one} = {} /\ ((H \cup {one}) \cup {other}) \cap S = {}
  BY Zenon DEF Keeps, Pair, With
<1>2. With(k, (H \cup {one}) \cup S, {other})
  BY <1>1, Swaps
<1>3. (H \cup {one}) \cup S = (H \cup S) \cup {one}
  OBVIOUS
<1>4. With(k, (H \cup S) \cup {one}, {other})
  BY <1>2, <1>3, Zenon
<1>5. k.success => (H \cup S) \cap {one} = {} /\ H \cap S = {}
  BY <1>1
<1> QED
  BY <1>4, <1>5, Zenon DEF Pair

LEMMA TakesTwo ==
  ASSUME NEW j, NEW H, Owns(j, H)
  PROVE  LET t == TwoRegisters(j)
         IN  Pair(t.j, H, t.first, t.j.got) /\ Keeps(j, t.j)
<1> DEFINE k == GetRegister(j, TRUE)
           l == GetRegister(k, TRUE)
           t == TwoRegisters(j)
<1>1. t.j = l /\ t.first = k.got
  BY DEF TwoRegisters
<1>2. With(k, H, {k.got}) /\ Keeps(j, k)
  BY TakesRegister
<1> HIDE DEF k, t
<1>3. Owns(k, H \cup {k.got})
  BY <1>2 DEF With
<1>4. With(l, H \cup {k.got}, {l.got}) /\ Keeps(k, l)
  BY <1>3, TakesRegister
<1> HIDE DEF l
<1>5. l.success => H \cap {k.got} = {}
  BY <1>2, <1>4, Zenon DEF Keeps, With
<1>6. Pair(l, H, k.got, l.got) /\ Keeps(j, l)
  BY <1>2, <1>4, <1>5, KeepsOn, Zenon DEF Pair
<1> QED
  BY <1>1, <1>6 DEF t

LEMMA ReturnsTwo ==
  ASSUME NEW j, NEW H, NEW one, NEW other, Pair(j, H, one, other)
  PROVE  LET k == ReturnedTwo(j, one, other)
         IN  Owns(k, H) /\ Keeps(j, k) /\ k.got = j.got
<1> DEFINE k1 == ReleaseRegister(j, one)
           k == ReleaseRegister(k1, other)
<1>1. With(j, H \cup {other}, {one}) /\ (j.success => H \cap {other} = {})
  BY PairSwaps DEF Pair
<1>2. Owns(k1, H \cup {other}) /\ Keeps(j, k1) /\ k1.got = j.got
  BY <1>1, ReturnsRegister
<1> HIDE DEF k1
<1>3. With(k1, H, {other})
  BY <1>1, <1>2, Zenon DEF With, Keeps
<1>4. Owns(k, H) /\ Keeps(k1, k) /\ k.got = k1.got
  BY <1>3, ReturnsRegister
<1> HIDE DEF k
<1>5. k = ReturnedTwo(j, one, other)
  BY DEF ReturnedTwo, k, k1
<1> QED
  BY <1>2, <1>4, <1>5, KeepsOn

LEMMA CallsRoot ==
  ASSUME NEW j, NEW H, Owns(j, H)
  PROVE  LET k == CallRoot(j)
         IN  Owns(k, H) /\ Keeps(j, k)
<1> DEFINE t == TwoRegisters(j)
           k1 == ReturnedTwo(t.j, t.first, t.j.got)
           k == AddCode(k1, <<Mach("CALL", NoOperand, NoOperand, 0)>>)
<1>1. Pair(t.j, H, t.first, t.j.got) /\ Keeps(j, t.j)
  BY TakesTwo
<1> HIDE DEF t
<1>2. Owns(k1, H) /\ Keeps(t.j, k1)
  BY <1>1, ReturnsTwo
<1> HIDE DEF k1
<1>3. Owns(k, H) /\ Keeps(k1, k)
  BY <1>2, Emits
<1> HIDE DEF k
<1>4. k = CallRoot(j)
  BY DEF CallRoot, k, k1, t
<1> QED
  BY <1>1, <1>2, <1>3, <1>4, KeepsOn

(* A register that holds nothing but what is wanted next. *)
LEMMA Dropped ==
  ASSUME NEW j, NEW H, NEW ops, Owns(j, H)
  PROVE  LET k == GetRegister(j, TRUE)
             l == ReleaseRegister(AddCode(k, ops), k.got)
         IN  Owns(l, H) /\ Keeps(j, l)
<1> DEFINE k == GetRegister(j, TRUE)
           k1 == AddCode(k, ops)
           l == ReleaseRegister(k1, k.got)
<1>1. With(k, H, {k.got}) /\ Keeps(j, k)
  BY TakesRegister
<1> HIDE DEF k
<1>2. Owns(k, H \cup {k.got})
  BY <1>1 DEF With
<1>3. Owns(k1, H \cup {k.got}) /\ Keeps(k, k1)
  BY <1>2, Emits
<1> HIDE DEF k1
<1>4. With(k1, H, {k.got})
  BY <1>1, <1>3, Still
<1>5. Owns(l, H) /\ Keeps(k1, l)
  BY <1>4, ReturnsRegister
<1> HIDE DEF l
<1>6. Keeps(j, l)
  BY <1>1, <1>3, <1>5, KeepsOn
<1> QED
  BY <1>5, <1>6 DEF l, k1, k

(* The result of a call, pushed. *)
LEMMA PopsInt ==
  ASSUME NEW j, NEW H, Owns(j, H)
  PROVE  Owns(ProcessIntCallParameter(j), H)
<1> DEFINE t == TwoRegisters(j)
           k1 == AddCode(t.j, Append(Trash(<<t.j.got>>), PopTo(t.first)))
           k2 == ReleaseRegister(k1, t.j.got)
           item == Item("REG_INT", t.first)
           k == PushItem(k2, item)
<1>1. Pair(t.j, H, t.first, t.j.got) /\ Keeps(j, t.j)
  BY TakesTwo
<1> HIDE DEF t
<1>2. Owns(t.j, (H \cup {t.first}) \cup {t.j.got})
  BY <1>1, PairOwns
<1>3. Owns(k1, (H \cup {t.first}) \cup {t.j.got}) /\ Keeps(t.j, k1)
  BY <1>2, Emits
<1> HIDE DEF k1
<1>4. Pair(k1, H, t.first, t.j.got)
  BY <1>1, <1>3, PairStill
<1>5. Owns(k2, H \cup {t.first}) /\ Keeps(k1, k2)
  BY <1>4, ReturnsRegister DEF Pair
<1> HIDE DEF k2
<1>6. With(k2, H, {t.first})
  BY <1>4, <1>5, Zenon DEF Pair, Keeps, With
<1>7. RegsOf(item) = {t.first}
  BY DEF RegsOf, InReg, Item
<1> HIDE DEF item
<1>8. Owns(k, H)
  BY <1>6, <1>7, Pushes
<1> HIDE DEF k
<1>9. k = ProcessIntCallParameter(j)
  BY DEF ProcessIntCallParameter, k, item, k2, k1, t
<1> QED
  BY <1>8, <1>9

LEMMA PopsFloat ==
  ASSUME NEW j, NEW H, Owns(j, H)
  PROVE  Owns(ProcessFloatCallParameter(j), H)
<1> DEFINE t == TwoRegisters(j)
           k1 == GetXmmRegister(t.j)
           k2 == AddCode(k1, Append(Trash(<<t.first, t.j.got>>), PopTo(k1.got)))
           k3 == ReturnedTwo(k2, t.first, t.j.got)
           item == Item("REG_FLOAT", k1.got)
           k == PushItem(k3, item)
<1>1. Pair(t.j, H, t.first, t.j.got) /\ Keeps(j, t.j)
  BY TakesTwo
<1> HIDE DEF t
<1>2. Owns(t.j, (H \cup {t.first}) \cup {t.j.got})
  BY <1>1, PairOwns
<1>3. With(k1, (H \cup {t.first}) \cup {t.j.got}, {k1.got}) /\ Keeps(t.j, k1)
  BY <1>2, TakesXmmRegister
<1> HIDE DEF k1
<1>4. Pair(k1, H \cup {k1.got}, t.first, t.j.got) /\ (k1.success => H \cap {k1.got} = {})
  BY <1>1, <1>3, PairBeside
<1>5. Owns(k1, ((H \cup {k1.got}) \cup {t.first}) \cup {t.j.got})
  BY <1>4, PairOwns
<1>6. Owns(k2, ((H \cup {k1.got}) \cup {t.first}) \cup {t.j.got}) /\ Keeps(k1, k2)
  BY <1>5, Emits
<1> HIDE DEF k2
<1>7. Pair(k2, H \cup {k1.got}, t.first, t.j.got)
  BY <1>4, <1>6, PairStill
<1>8. Owns(k3, H \cup {k1.got}) /\ Keeps(k2, k3)
  BY <1>7, ReturnsTwo
<1> HIDE DEF k3
<1>9. With(k3, H, {k1.got})
  BY <1>4, <1>6, <1>8, Zenon DEF Keeps, With
<1>10. RegsOf(item) = {k1.got}
  BY DEF RegsOf, InReg, Item
<1> HIDE DEF item
<1>11. Owns(k, H)
  BY <1>9, <1>10, Pushes
<1> HIDE DEF k
<1>12. k = ProcessFloatCallParameter(j)
  BY DEF ProcessFloatCallParameter, k, item, k3, k2, k1, t
<1> QED
  BY <1>11, <1>12

LEMMA PopsResult ==
  ASSUME NEW j, NEW H, Owns(j, H), NEW type
  PROVE  Owns(ProcessReturnParameters(j, type), H)
<1>1. CASE type = "INT"
  BY <1>1, PopsInt DEF ProcessReturnParameters
<1>2. CASE type = "FLOAT"
  BY <1>2, PopsFloat DEF ProcessReturnParameters
<1>3. CASE type # "INT" /\ type # "FLOAT"
  BY <1>3 DEF ProcessReturnParameters
<1> QED
  BY <1>1, <1>2, <1>3
-----------------------------------------------------------------------------
(* Calculations. *)
LEMMA Cmoves ==
  ASSUME NEW j, NEW H, Owns(j, H), NEW r, NEW cond
  PROVE  Owns(Cmov(j, r, cond), H) /\ Keeps(j, Cmov(j, r, cond))
BY Dropped DEF Cmov

LEMMA Compares ==
  ASSUME NEW j, NEW H, Owns(j, H), NEW r, NEW from, NEW cond
  PROVE  LET k == Compared(j, r, from, cond)
         IN  Owns(k, H) /\ Keeps(j, k)
<1> DEFINE k == Compared(j, r, from, cond)
           k1 == AddCode(j, <<Mach("CMP", Reg(r), from, 0)>>)
<1>1. Owns(k1, H) /\ Keeps(j, k1)
  BY Emits
<1>2. CASE Fuses(j)
  <2> DEFINE next == j.instrs[j.index]
             jump == Mach("JCC", NoOperand, NoOperand, [cond |-> cond, sense |-> next.m = "true", label |-> next.n])
             k2 == AddCode(k1, <<jump>>)
             k3 == [k2 EXCEPT !.skip_jump = TRUE]
  <2>1. k = k3
    BY <1>2 DEF Compared
  <2> HIDE DEF k, k1, jump
  <2>2. Owns(k2, H) /\ Keeps(k1, k2)
    BY <1>1, Emits
  <2> HIDE DEF k2
  <2>3. Owns(k3, H) /\ Keeps(k2, k3)
    BY <2>2, Skips
  <2> HIDE DEF k3
  <2>4. Owns(k, H) /\ Keeps(j, k)
    BY <1>1, <2>1, <2>2, <2>3, KeepsOn
  <2> QED
    BY <2>4 DEF k
<1>3. CASE ~Fuses(j)
  <2>1. k = Cmov(k1, r, cond)
    BY <1>3 DEF Compared
  <2> HIDE DEF k, k1
  <2>2. Owns(k, H) /\ Keeps(k1, k)
    BY <1>1, <2>1, Cmoves
  <2> QED
    BY <1>1, <2>2, KeepsOn DEF k
<1> QED
  BY <1>2, <1>3

DirectMath(j, op, source, r) ==
  IF op \in {"DIV", "MOD"} THEN Divide(j, op, source, r) ELSE AddCode(j, <<Mach("ALU", Reg(r), source, op)>>)

LEMMA CalculatesDirect ==
  ASSUME NEW j, NEW H, Owns(j, H), NEW op, NEW source, NEW r
  PROVE  LET k == DirectMath(j, op, source, r)
         IN  Owns(k, H) /\ Keeps(j, k)
<1>1. \A ops : Owns(AddCode(j, ops), H) /\ Keeps(j, AddCode(j, ops))
  BY Emits
<1>2. CASE op \in {"DIV", "MOD"}
  BY <1>1, <1>2, Zenon DEF DirectMath, Divide
<1>3. CASE op \notin {"DIV", "MOD"}
  BY <1>1, <1>3 DEF DirectMath
<1> QED
  BY <1>2, <1>3

LEMMA Calculates ==
  ASSUME NEW j, NEW H, Owns(j, H), NEW op, NEW from, NEW r
  PROVE  LET k == Math(j, op, from, r)
         IN  Owns(k, H) /\ Keeps(j, k)
<1> DEFINE k == Math(j, op, from, r)
           through == from.at = (IF op \in {"DIV", "MOD"} THEN "IMM" ELSE IF op \in {"SHL", "SHR"} THEN "MEM" ELSE "")
<1>1. CASE op \in Comparisons
  <2>1. k = Compared(j, r, from, op)
    BY <1>1 DEF Math
  <2> QED
    BY <2>1, Compares
<1>2. CASE op \notin Comparisons /\ through
  <2> DEFINE k1 == GetRegister(j, TRUE)
             k2 == AddCode(k1, <<Mov(Reg(k1.got), from)>>)
             k3 == DirectMath(k2, op, Reg(k1.got), r)
  <2>1. k = ReleaseRegister(k3, k1.got)
    BY <1>2 DEF Math, DirectMath
  <2>2. With(k1, H, {k1.got}) /\ Keeps(j, k1)
    BY TakesRegister
  <2> HIDE DEF k, through, k1
  <2>3. Owns(k2, H \cup {k1.got}) /\ Keeps(k1, k2)
    BY <2>2, Emits DEF With
  <2> HIDE DEF k2
  <2>4. Owns(k3, H \cup {k1.got}) /\ Keeps(k2, k3)
    BY <2>3, CalculatesDirect
  <2> HIDE DEF k3
  <2>5. Keeps(k1, k3)
    BY <2>3, <2>4, KeepsOn
  <2>6. With(k3, H, {k1.got})
    BY <2>2, <2>4, <2>5, Still
  <2>7. Owns(k, H) /\ Keeps(k3, k)
    BY <2>1, <2>6, ReturnsRegister
  <2>8. Keeps(j, k)
    BY <2>2, <2>5, <2>7, KeepsOn
  <2> QED
    BY <2>7, <2>8 DEF k
<1>3. CASE op \notin Comparisons /\ ~through
  <2>1. k = DirectMath(j, op, from, r)
    BY <1>3 DEF Math, DirectMath
  <2> QED
    BY <2>1, CalculatesDirect
<1> QED
  BY <1>1, <1>2, <1>3

Onto(k, op, source) == Release(PushItem(Math(k, op, Operand(source), k.got), Item("REG_INT", k.got)), source)

LEMMA CalculatesOnto ==
  ASSUME NEW j, NEW H, NEW left, NEW source, NEW op,
         With(j, H \cup RegsOf(source), RegsOf(left)), j.success => H \cap RegsOf(source) = {}
  PROVE  Owns(Onto(Loaded(j, left, TRUE), op, source), H)
<1> DEFINE G == H \cup RegsOf(source)
           k1 == Loaded(j, left, TRUE)
           k2 == Math(k1, op, Operand(source), k1.got)
           item == Item("REG_INT", k1.got)
           k3 == PushItem(k2, item)
           k4 == Release(k3, source)
<1>1. With(k1, G, {k1.got}) /\ Keeps(j, k1)
  BY Loads
<1> HIDE DEF k1, G
<1>2. Owns(k2, G \cup {k1.got}) /\ Keeps(k1, k2)
  BY <1>1, Calculates DEF With
<1> HIDE DEF k2
<1>3. With(k2, G, {k1.got})
  BY <1>1, <1>2, Still
<1>4. RegsOf(item) = {k1.got}
  BY DEF RegsOf, InReg, Item
<1> HIDE DEF item
<1>5. Owns(k3, G) /\ k3.success = k2.success
  BY <1>3, <1>4, Pushes
<1> HIDE DEF k3
<1>6. With(k3, H, RegsOf(source))
  BY <1>1, <1>2, <1>5, Zenon DEF Keeps, With, G
<1>7. Owns(k4, H)
  BY <1>6, ReturnsItem
<1> QED
  BY <1>7 DEF Onto, k4, k3, item, k2, k1

LEMMA CalculatesInt ==
  ASSUME NEW j, NEW H, Owns(j, H), j.success => Len(j.stack) >= 2, NEW op
  PROVE  Owns(ProcessIntCalculation(j, op), H)
<1> DEFINE left == FirstItem(j)
           right == SecondItem(j)
           d == DropItems(j, 2)
<1>1. With(d, H, RegsOf(left) \cup RegsOf(right)) /\ (d.success => RegsOf(left) \cap RegsOf(right) = {})
  BY DropsTwo
<1> HIDE DEF left, right, d
<1>2. /\ With(d, H \cup RegsOf(left), RegsOf(right)) /\ With(d, H \cup RegsOf(right), RegsOf(left))
      /\ d.success => H \cap RegsOf(left) = {} /\ H \cap RegsOf(right) = {}
  <2>1. d.success => H \cap RegsOf(left) = {} /\ H \cap RegsOf(right) = {}
    BY <1>1 DEF With
  <2> QED
    BY <1>1, <2>1, Splits
<1>3. CASE left.type = "IMM_INT" /\ right.type = "IMM_INT"
  <2> DEFINE item == Item("IMM_INT", ProcessIntFold(op, left.v, right.v))
  <2>1. ProcessIntCalculation(j, op) = PushItem(d, item)
    BY <1>3 DEF ProcessIntCalculation, left, right, d
  <2>2. RegsOf(left) \cup RegsOf(right) = {} /\ RegsOf(item) = {}
    BY <1>3 DEF RegsOf, InReg, Item
  <2> HIDE DEF item
  <2>3. With(d, H, RegsOf(item))
    BY <1>1, <2>2
  <2> QED
    BY <2>1, <2>3, Pushes
<1>4. CASE right.type = "MEM_INT" /\ left.type # "MEM_INT"
  <2> DEFINE k1 == Loaded(d, right, TRUE)
             source == Item("REG_INT", k1.got)
  <2>1. ProcessIntCalculation(j, op) = Onto(Loaded(k1, left, TRUE), op, source)
    BY <1>4 DEF ProcessIntCalculation, Onto, left, right, d
  <2>2. With(k1, H \cup RegsOf(left), {k1.got}) /\ Keeps(d, k1)
    BY <1>2, Loads
  <2>3. RegsOf(source) = {k1.got}
    BY DEF RegsOf, InReg, Item
  <2> HIDE DEF k1, source
  <2>4. k1.success => H \cap RegsOf(left) = {}
    BY <1>2, <2>2, Zenon DEF Keeps
  <2>5. With(k1, H \cup {k1.got}, RegsOf(left))
    BY <2>2, <2>4, Swaps
  <2>6. k1.success => H \cap {k1.got} = {}
    BY <2>2 DEF With
  <2>7. With(k1, H \cup RegsOf(source), RegsOf(left)) /\ (k1.success => H \cap RegsOf(source) = {})
    BY <2>3, <2>5, <2>6
  <2>8. Owns(Onto(Loaded(k1, left, TRUE), op, source), H)
    BY <2>7, CalculatesOnto
  <2> QED
    BY <2>1, <2>8, Zenon
<1>5. CASE ~(left.type = "IMM_INT" /\ right.type = "IMM_INT") /\ ~(right.type = "MEM_INT" /\ left.type # "MEM_INT")
  <2>1. ProcessIntCalculation(j, op) = Onto(Loaded(d, left, TRUE), op, right)
    BY <1>5 DEF ProcessIntCalculation, Onto, left, right, d
  <2>2. Owns(Onto(Loaded(d, left, TRUE), op, right), H)
    BY <1>2, CalculatesOnto
  <2> QED
    BY <2>1, <2>2, Zenon
<1> QED
  BY <1>3, <1>4, <1>5

LEMMA FloatResults ==
  ASSUME NEW j, NEW H, NEW op, NEW dest, NEW source, Pair(j, H, dest, source)
  PROVE  Owns(FloatResult(j, op, dest, source), H)
<1>1. CASE op \in Comparisons
  <2> DEFINE cond == CASE op = "LES" -> "GTR" [] op = "LES_EQL" -> "GTR_EQL" [] OTHER -> op
             k1 == Compared(j, dest, Reg(source), cond)
             k2 == ReleaseXmmRegister(k1, source)
             k3 == ReleaseXmmRegister(k2, dest)
             k4 == GetRegister(k3, TRUE)
             k5 == Cmov(k4, k4.got, cond)
             item == Item("REG_INT", k4.got)
             k == PushItem(k5, item)
  <2>1. FloatResult(j, op, dest, source) = k
    BY <1>1 DEF FloatResult
  <2> HIDE DEF cond
  <2>2. Owns(k1, (H \cup {dest}) \cup {source}) /\ Keeps(j, k1)
    BY PairOwns, Compares
  <2> HIDE DEF k1
  <2>3. Pair(k1, H, dest, source)
    BY <2>2, PairStill
  <2>4. Owns(k2, H \cup {dest}) /\ Keeps(k1, k2)
    BY <2>3, ReturnsXmmRegister DEF Pair
  <2> HIDE DEF k2
  <2>5. With(k2, H, {dest})
    BY <2>3, <2>4, Zenon DEF Pair, Keeps, With
  <2>6. Owns(k3, H)
    BY <2>5, ReturnsXmmRegister
  <2> HIDE DEF k3
  <2>7. With(k4, H, {k4.got})
    BY <2>6, TakesRegister
  <2> HIDE DEF k4
  <2>8. Owns(k5, H \cup {k4.got}) /\ Keeps(k4, k5)
    BY <2>7, Cmoves DEF With
  <2> HIDE DEF k5
  <2>9. With(k5, H, {k4.got})
    BY <2>7, <2>8, Still
  <2>10. RegsOf(item) = {k4.got}
    BY DEF RegsOf, InReg, Item
  <2> HIDE DEF item
  <2>11. Owns(k, H)
    BY <2>9, <2>10, Pushes
  <2> QED
    BY <2>1, <2>11
<1>2. CASE op \notin Comparisons
  <2> DEFINE k1 == AddCode(j, <<Mach("FALU", Reg(dest), Reg(source), op)>>)
             k2 == ReleaseXmmRegister(k1, source)
             item == Item("REG_FLOAT", dest)
             k == PushItem(k2, item)
  <2>1. FloatResult(j, op, dest, source) = k
    BY <1>2 DEF FloatResult
  <2>2. Owns(k1, (H \cup {dest}) \cup {source}) /\ Keeps(j, k1)
    BY PairOwns, Emits
  <2> HIDE DEF k1
  <2>3. Pair(k1, H, dest, source)
    BY <2>2, PairStill
  <2>4. Owns(k2, H \cup {dest}) /\ Keeps(k1, k2)
    BY <2>3, ReturnsXmmRegister DEF Pair
  <2> HIDE DEF k2
  <2>5. With(k2, H, {dest})
    BY <2>3, <2>4, Zenon DEF Pair, Keeps, With
  <2>6. RegsOf(item) = {dest}
    BY DEF RegsOf, InReg, Item
  <2> HIDE DEF item
  <2>7. Owns(k, H)
    BY <2>5, <2>6, Pushes
  <2> QED
    BY <2>1, <2>7
<1> QED
  BY <1>1, <1>2

LEMMA CalculatesFloat ==
  ASSUME NEW j, NEW H, Owns(j, H), j.success => Len(j.stack) >= 2, NEW op
  PROVE  Owns(ProcessFloatCalculation(j, op), H)
<1> DEFINE left == FirstItem(j)
           right == SecondItem(j)
           d == DropItems(j, 2)
           right_first == left.type = "IMM_FLOAT" /\ right.type = "MEM_FLOAT"
           one == IF right_first THEN right ELSE left
           other == IF right_first THEN left ELSE right
           swapped == right_first # (op \in {"LES", "LES_EQL"})
           k1 == Loaded(d, one, TRUE)
           k2 == Loaded(k1, other, TRUE)
           dest == IF swapped THEN k2.got ELSE k1.got
           source == IF swapped THEN k1.got ELSE k2.got
<1>1. ProcessFloatCalculation(j, op) = FloatResult(k2, op, dest, source)
  BY DEF ProcessFloatCalculation
<1>2. With(d, H, RegsOf(left) \cup RegsOf(right)) /\ (d.success => RegsOf(left) \cap RegsOf(right) = {})
  BY DropsTwo
<1> HIDE DEF left, right, d
<1>3. /\ With(d, H \cup RegsOf(left), RegsOf(right)) /\ With(d, H \cup RegsOf(right), RegsOf(left))
      /\ d.success => H \cap RegsOf(left) = {} /\ H \cap RegsOf(right) = {}
  <2>1. d.success => H \cap RegsOf(left) = {} /\ H \cap RegsOf(right) = {}
    BY <1>2 DEF With
  <2> QED
    BY <1>2, <2>1, Splits
<1>4. With(d, H \cup RegsOf(other), RegsOf(one)) /\ (d.success => H \cap RegsOf(other) = {})
  BY <1>3, Zenon
<1> HIDE DEF right_first, one, other, swapped
<1>5. With(k1, H \cup RegsOf(other), {k1.got}) /\ Keeps(d, k1)
  BY <1>4, Loads
<1> HIDE DEF k1
<1>6. k1.success => H \cap RegsOf(other) = {}
  BY <1>4, <1>5, Zenon DEF Keeps
<1>7. With(k1, H \cup {k1.got}, RegsOf(other)) /\ (k1.success => H \cap {k1.got} = {})
  BY <1>5, <1>6, Swaps DEF With
<1>8. With(k2, H \cup {k1.got}, {k2.got}) /\ Keeps(k1, k2)
  BY <1>7, Loads
<1> HIDE DEF k2
<1>9. Pair(k2, H, k1.got, k2.got)
  BY <1>7, <1>8, Zenon DEF Pair, Keeps
<1>10. Pair(k2, H, dest, source)
  BY <1>9, PairSwaps
<1> HIDE DEF dest, source
<1> QED
  BY <1>1, <1>10, FloatResults
-----------------------------------------------------------------------------
(* Variables, fields and conversions. *)
LEMMA Weakens ==
  ASSUME NEW j, NEW H, NEW G \in SUBSET H, Owns(j, H)
  PROVE  Owns(j, G)
BY DEF Owns, Free

LEMMA Forgets ==
  ASSUME NEW j, NEW H, NEW S, With(j, H, S)
  PROVE  Owns(j, H)
BY Weakens DEF With

(* What is in a register is followed by what another gets from there. *)
LEMMA Replaces ==
  ASSUME NEW j, NEW H, NEW r, With(j, H, {r}), NEW k, Keeps(j, k), With(k, H \cup {r}, {k.got}),
         NEW ops, NEW item, RegsOf(item) = {k.got}
  PROVE  Owns(PushItem(ReleaseRegister(AddCode(k, ops), r), item), H)
<1> DEFINE k1 == AddCode(k, ops)
           k2 == ReleaseRegister(k1, r)
<1>1. k.success => H \cap {r} = {}
  BY DEF Keeps, With
<1>2. With(k, H \cup {k.got}, {r}) /\ (k.success => H \cap {k.got} = {})
  BY <1>1, Swaps DEF With
<1>3. Owns(k1, (H \cup {k.got}) \cup {r}) /\ Keeps(k, k1)
  BY <1>2, Emits DEF With
<1> HIDE DEF k1
<1>4. With(k1, H \cup {k.got}, {r})
  BY <1>2, <1>3, Still
<1>5. Owns(k2, H \cup {k.got}) /\ Keeps(k1, k2)
  BY <1>4, ReturnsRegister
<1> HIDE DEF k2
<1>6. With(k2, H, {k.got})
  BY <1>2, <1>3, <1>5, Zenon DEF Keeps, With
<1>7. Owns(PushItem(k2, item), H)
  BY <1>6, Pushes
<1> QED
  BY <1>7 DEF k2, k1

LEMMA ChecksNil ==
  ASSUME NEW j, NEW H, Owns(j, H), NEW r
  PROVE  LET k == CheckNil(j, r)
         IN  Owns(k, H) /\ Keeps(j, k) /\ k.got = j.got
BY Emits DEF CheckNil

LEMMA LoadsVariable ==
  ASSUME NEW j, NEW H, Owns(j, H), NEW instr, j.success /\ instr.m # "LOCL" => Len(j.stack) >= 1
  PROVE  Owns(ProcessLoad(j, instr), H)
<1>1. CASE instr.m = "LOCL"
  <2>1. ProcessLoad(j, instr) = PushItem(j, VarItem(instr))
    BY <1>1 DEF ProcessLoad
  <2>2. RegsOf(VarItem(instr)) = {}
    BY DEF RegsOf, InReg, Item, VarItem
  <2>3. With(j, H, RegsOf(VarItem(instr)))
    BY <2>2, None
  <2> QED
    BY <2>1, <2>3, Pushes
<1>2. CASE instr.m # "LOCL"
  <2> DEFINE d == DropItems(j, 1)
             k1 == Loaded(d, FirstItem(j), TRUE)
             k2 == CheckNil(k1, k1.got)
  <2>1. With(d, H, RegsOf(FirstItem(j)))
    BY <1>2, DropsOne
  <2> HIDE DEF d
  <2>2. With(k1, H, {k1.got})
    BY <2>1, Loads
  <2> HIDE DEF k1
  <2>3. Owns(k2, H \cup {k1.got}) /\ Keeps(k1, k2)
    BY <2>2, ChecksNil DEF With
  <2> HIDE DEF k2
  <2>4. With(k2, H, {k1.got})
    BY <2>2, <2>3, Still
  <2>5. CASE instr.op = "LOAD_INT_VAR"
    <3> DEFINE k3 == AddCode(k2, <<Mov(Reg(k1.got), Field(k1.got, instr.n))>>)
               item == Item("REG_INT", k1.got)
    <3>1. ProcessLoad(j, instr) = PushItem(k3, item)
      BY <1>2, <2>5 DEF ProcessLoad, k2, k1, d
    <3>2. Owns(k3, H \cup {k1.got}) /\ Keeps(k2, k3)
      BY <2>3, Emits
    <3> HIDE DEF k3
    <3>3. With(k3, H, {k1.got}) /\ RegsOf(item) = {k1.got}
      BY <2>4, <3>2, Still DEF RegsOf, InReg, Item
    <3> HIDE DEF item
    <3>4. Owns(PushItem(k3, item), H)
      BY <3>3, Pushes
    <3> QED
      BY <3>1, <3>4
  <2>6. CASE instr.op # "LOAD_INT_VAR"
    <3> DEFINE x == GetXmmRegister(k2)
               ops == <<Mov(Reg(x.got), Field(k1.got, instr.n))>>
               item == Item("REG_FLOAT", x.got)
    <3>1. ProcessLoad(j, instr) = PushItem(ReleaseRegister(AddCode(x, ops), k1.got), item)
      BY <1>2, <2>6 DEF ProcessLoad, k2, k1, d
    <3>2. With(x, H \cup {k1.got}, {x.got}) /\ Keeps(k2, x)
      BY <2>3, TakesXmmRegister
    <3>3. RegsOf(item) = {x.got}
      BY DEF RegsOf, InReg, Item
    <3> HIDE DEF x, ops, item
    <3>4. Owns(PushItem(ReleaseRegister(AddCode(x, ops), k1.got), item), H)
      BY <2>4, <3>2, <3>3, Replaces
    <3> QED
      BY <3>1, <3>4
  <2> QED
    BY <2>5, <2>6
<1> QED
  BY <1>1, <1>2

LEMMA StoresVariable ==
  ASSUME NEW j, NEW H, Owns(j, H), NEW instr, j.success => Len(j.stack) >= IF instr.m = "LOCL" THEN 1 ELSE 2
  PROVE  LET k == ProcessStore(j, instr)
         IN  Owns(k, H) /\ (k.success => j.success)
<1> DEFINE k == ProcessStore(j, instr)
<1>1. ASSUME NEW l, NEW G, Owns(l, G), l.success => Len(l.stack) >= 1, NEW to
      PROVE  LET m == Moved(DropItems(l, 1), FirstItem(l), to)
             IN  Owns(m, G) /\ (m.success => l.success)
  <2> DEFINE d == DropItems(l, 1)
             m == Moved(d, FirstItem(l), to)
  <2>1. With(d, G, RegsOf(FirstItem(l))) /\ d.success = l.success
    BY <1>1, DropsOne
  <2> HIDE DEF d
  <2>2. Owns(m, G) /\ Keeps(d, m)
    BY <2>1, Moves
  <2> HIDE DEF m
  <2>3. Owns(m, G) /\ (m.success => l.success)
    BY <2>1, <2>2 DEF Keeps
  <2> QED
    BY <2>3 DEF m, d
<1>2. CASE instr.m = "LOCL"
  <2>1. k = Moved(DropItems(j, 1), FirstItem(j), Mem(instr.n))
    BY <1>2 DEF ProcessStore
  <2>2. j.success => Len(j.stack) >= 1
    BY <1>2
  <2> HIDE DEF k
  <2>3. Owns(k, H) /\ (k.success => j.success)
    BY <1>1, <2>1, <2>2
  <2> QED
    BY <2>3 DEF k
<1>3. CASE instr.m # "LOCL"
  <2> DEFINE d == DropItems(j, 1)
             k1 == Loaded(d, FirstItem(j), TRUE)
             k2 == CheckNil(k1, k1.got)
             to == Field(k1.got, instr.n)
             k3 == Moved(DropItems(k2, 1), FirstItem(k2), to)
  <2>1. k = ReleaseRegister(k3, k1.got)
    BY <1>3 DEF ProcessStore
  <2>2. j.success => Len(j.stack) \in Nat /\ Len(j.stack) >= 2
    BY <1>3 DEF Owns, IsSeq
  <2>3. /\ With(d, H, RegsOf(FirstItem(j))) /\ d.success = j.success
        /\ j.success => Len(d.stack) = Len(j.stack) - 1
    BY <2>2, DropsOne
  <2> HIDE DEF d, k
  <2>4. With(k1, H, {k1.got}) /\ Keeps(d, k1)
    BY <2>3, Loads
  <2> HIDE DEF k1
  <2>5. Owns(k2, H \cup {k1.got}) /\ Keeps(k1, k2)
    BY <2>4, ChecksNil DEF With
  <2> HIDE DEF k2
  <2>6. k2.success => j.success /\ Len(k2.stack) >= 1
    <3>1. k2.success => j.success /\ Len(k2.stack) = Len(j.stack) - 1
      BY <2>3, <2>4, <2>5 DEF Keeps
    <3> QED
      BY <3>1, <2>2
  <2>7. Owns(k3, H \cup {k1.got}) /\ (k3.success => k2.success)
    BY <1>1, <2>5, <2>6
  <2> HIDE DEF k3
  <2>8. With(k3, H, {k1.got})
    BY <2>4, <2>5, <2>7, Zenon DEF Keeps, With
  <2>9. Owns(k, H) /\ Keeps(k3, k)
    BY <2>1, <2>8, ReturnsRegister
  <2>10. k.success => j.success
    BY <2>6, <2>7, <2>9 DEF Keeps
  <2> QED
    BY <2>9, <2>10 DEF k
<1> QED
  BY <1>2, <1>3

LEMMA CopiesVariable ==
  ASSUME NEW j, NEW H, Owns(j, H), NEW instr, j.success => Len(j.stack) >= 1
  PROVE  Owns(ProcessCopy(j, instr), H)
<1> DEFINE d == DropItems(j, 1)
           k1 == Loaded(d, FirstItem(j), TRUE)
           k2 == AddCode(k1, <<Mov(Mem(instr.n), Reg(k1.got))>>)
           item == InRegister(FirstItem(j), k1.got)
<1>1. ProcessCopy(j, instr) = PushItem(k2, item)
  BY DEF ProcessCopy
<1>2. With(d, H, RegsOf(FirstItem(j)))
  BY DropsOne
<1> HIDE DEF d
<1>3. With(k1, H, {k1.got})
  BY <1>2, Loads
<1>4. RegsOf(item) = {k1.got}
  BY InRegisterRegs
<1> HIDE DEF k1, item
<1>5. Owns(k2, H \cup {k1.got}) /\ Keeps(k1, k2)
  BY <1>3, Emits DEF With
<1> HIDE DEF k2
<1>6. With(k2, H, RegsOf(item))
  BY <1>3, <1>4, <1>5, Still
<1>7. Owns(PushItem(k2, item), H)
  BY <1>6, Pushes
<1> QED
  BY <1>1, <1>7

LEMMA Converts ==
  ASSUME NEW j, NEW H, Owns(j, H), NEW op, j.success => Len(j.stack) >= 1
  PROVE  Owns(ProcessConversion(j, op), H)
<1> DEFINE d == DropItems(j, 1)
           item == FirstItem(j)
           k1 == IF op = "F2I" THEN GetRegister(d, TRUE) ELSE GetXmmRegister(d)
           result == Item(IF op = "F2I" THEN "REG_INT" ELSE "REG_FLOAT", k1.got)
           literal == item.type \in {"IMM_INT", "IMM_FLOAT"}
           k2 == GetRegister(k1, TRUE)
           code == <<Mach("CVT", Reg(k1.got), Operand(item), op)>>
           k3 == IF literal THEN ReleaseRegister(AddCode(k2, code), k2.got) ELSE Release(AddCode(k1, code), item)
<1>1. ProcessConversion(j, op) = PushItem(k3, result)
  BY Zenon DEF ProcessConversion
<1>2. With(d, H, RegsOf(item)) /\ Owns(d, H \cup RegsOf(item))
  BY DropsOne DEF With
<1> HIDE DEF d
<1>3. With(k1, H \cup RegsOf(item), {k1.got}) /\ Keeps(d, k1)
  <2>1. LET k == GetRegister(d, TRUE) IN With(k, H \cup RegsOf(item), {k.got}) /\ Keeps(d, k)
    BY <1>2, TakesRegister
  <2>2. LET k == GetXmmRegister(d) IN With(k, H \cup RegsOf(item), {k.got}) /\ Keeps(d, k)
    BY <1>2, TakesXmmRegister
  <2> QED
    BY <2>1, <2>2, Zenon
<1> HIDE DEF k1
<1>4. k1.success => H \cap RegsOf(item) = {}
  BY <1>2, <1>3, Zenon DEF With, Keeps
<1>5. With(k1, H \cup {k1.got}, RegsOf(item)) /\ (k1.success => H \cap {k1.got} = {})
  BY <1>3, <1>4, Swaps DEF With
<1>6. Owns(k3, H \cup {k1.got}) /\ Keeps(k1, k3)
  <2>1. CASE literal
    <3>1. RegsOf(item) = {} /\ k3 = ReleaseRegister(AddCode(k2, code), k2.got)
      BY <2>1 DEF RegsOf, InReg
    <3>2. Owns(k1, H \cup {k1.got})
      BY <1>5, <3>1, None
    <3> HIDE DEF k3, code
    <3> QED
      BY <3>1, <3>2, Dropped
  <2>2. CASE ~literal
    <3> DEFINE l == AddCode(k1, code)
    <3>1. k3 = Release(l, item)
      BY <2>2
    <3> HIDE DEF k3
    <3>2. Owns(l, (H \cup {k1.got}) \cup RegsOf(item)) /\ Keeps(k1, l)
      BY <1>5, Emits DEF With
    <3> HIDE DEF l
    <3>3. With(l, H \cup {k1.got}, RegsOf(item))
      BY <1>5, <3>2, Still
    <3>4. Owns(k3, H \cup {k1.got}) /\ Keeps(l, k3)
      BY <3>1, <3>3, ReturnsItem
    <3> QED
      BY <3>2, <3>4, KeepsOn
  <2> QED
    BY <2>1, <2>2
<1>7. RegsOf(result) = {k1.got}
  BY DEF RegsOf, InReg, Item
<1> HIDE DEF k3, result
<1>8. With(k3, H, RegsOf(result))
  BY <1>5, <1>6, <1>7, Zenon DEF With, Keeps
<1>9. Owns(PushItem(k3, result), H)
  BY <1>8, Pushes
<1> QED
  BY <1>1, <1>9
(* A parameter, stored in a local, while two registers are held. *)
LEMMA StoresParameter ==
  ASSUME NEW j, NEW H, Owns(j, H), j.instrs[j.index].m = "LOCL"
  PROVE  Owns(ProcessParameter(j), H)
<1> DEFINE t == TwoRegisters(j)
           instr == j.instrs[j.index]
           float == instr.op = "STOR_FLOAT_VAR"
           x == IF float THEN GetXmmRegister(t.j) ELSE GetRegister(t.j, TRUE)
           regs == <<t.j.got, t.first>>
           item == Item(IF float THEN "REG_FLOAT" ELSE "REG_INT", x.got)
           k1 == AddCode(x, Append(Trash(regs), PopTo(x.got)))
           k2 == PushItem(k1, item)
           k3 == ProcessStore(k2, instr)
           k4 == ReturnedTwo(k3, regs[2], regs[1])
           k == [k4 EXCEPT !.index = @ + 1, !.params = @ - 1, !.offsets = Append(@, Len(j.code) + 1)]
           G == (H \cup {t.first}) \cup {t.j.got}
<1>1. ProcessParameter(j) = k
  BY Zenon DEF ProcessParameter
<1>2. Pair(t.j, H, t.first, t.j.got)
  BY TakesTwo
<1> HIDE DEF t
<1>3. With(x, G, {x.got}) /\ Keeps(t.j, x)
  <2>1. Owns(t.j, G)
    BY <1>2, PairOwns
  <2>2. LET y == GetRegister(t.j, TRUE) IN With(y, G, {y.got}) /\ Keeps(t.j, y)
    BY <2>1, TakesRegister
  <2>3. LET y == GetXmmRegister(t.j) IN With(y, G, {y.got}) /\ Keeps(t.j, y)
    BY <2>1, TakesXmmRegister
  <2> QED
    BY <2>2, <2>3, Zenon
<1> HIDE DEF x, float
<1>4. Owns(k1, G \cup {x.got}) /\ Keeps(x, k1)
  BY <1>3, Emits DEF With
<1> HIDE DEF k1
<1>5. With(k1, G, RegsOf(item))
  <2>1. RegsOf(item) = {x.got}
    BY DEF RegsOf, InReg, Item
  <2> QED
    BY <1>3, <1>4, <2>1, Still
<1> HIDE DEF item
<1>6. Owns(k2, G) /\ (k2.success => t.j.success /\ Len(k2.stack) >= 1)
  <2>1. Owns(k2, G) /\ k2.success = k1.success /\ k2.stack = <<item>> \o k1.stack
    BY <1>5, Pushes
  <2>2. k2.success => IsSeq(k1.stack)
    BY <1>5, <2>1 DEF With, Owns
  <2> HIDE DEF k2
  <2>3. k2.success => Len(k2.stack) >= 1
    <3> SUFFICES ASSUME k2.success PROVE Len(k2.stack) >= 1
      OBVIOUS
    <3> DEFINE S == Range(k1.stack) \cup {item}
    <3>1. k1.stack \in Seq(S) /\ <<item>> \in Seq(S) /\ Len(k1.stack) \in Nat
      BY <2>2 DEF IsSeq
    <3>2. Len(k2.stack) = 1 + Len(k1.stack)
      BY <2>1, <3>1
    <3> QED
      BY <3>1, <3>2
  <2> QED
    BY <1>3, <1>4, <2>1, <2>3 DEF Keeps
<1> HIDE DEF k2
<1>7. Owns(k3, G) /\ (k3.success => k2.success)
  <2>1. k2.success => Len(k2.stack) >= IF instr.m = "LOCL" THEN 1 ELSE 2
    BY <1>6
  <2> QED
    BY <1>6, <2>1, StoresVariable
<1> HIDE DEF k3
<1>8. Pair(k3, H, t.first, t.j.got)
  BY <1>2, <1>6, <1>7, Zenon DEF Pair, With, G
<1>9. Owns(k4, H)
  <2>1. regs[2] = t.first /\ regs[1] = t.j.got
    OBVIOUS
  <2> QED
    BY <1>8, <2>1, ReturnsTwo
<1> HIDE DEF k4
<1>10. Owns(k, H)
  BY <1>9, AdvancesOver
<1> QED
  BY <1>1, <1>10

-----------------------------------------------------------------------------
(* Elements: each further index is dropped. *)
Times(k, array, index, n) ==
  DropItems(AddCode(k, <<Mach("ALU", Reg(index), Dim(array, n), "MUL"),
                         Mach("ALU", Reg(index), Operand(FirstItem(k)), "ADD")>>), 1)

LEMMA FurtherIs ==
  ASSUME NEW j, NEW array, NEW index, NEW dims \in Nat \ {0}
  PROVE  \E f : /\ f = [n \in 1 .. dims |-> IF n = 1 THEN j ELSE Times(f[n - 1], array, index, n)]
                /\ IndexedFurther(j, array, index, dims) = f[dims]
<1> DEFINE Defines(f, m) == f = [n \in 1 .. m + 1 |-> IF n = 1 THEN j ELSE Times(f[n - 1], array, index, n)]
           H == {m \in 0 .. dims - 1 : \E f : Defines(f, m)}
<1>1. 0 \in H
  <2> DEFINE f == [n \in 1 .. 0 + 1 |-> j]
  <2>1. Defines(f, 0)
    OBVIOUS
  <2> HIDE DEF Defines, f
  <2> QED
    BY <2>1
<1>2. ASSUME NEW m \in 1 .. dims - 1, m - 1 \in H PROVE m \in H
  <2>1. PICK f : Defines(f, m - 1)
    BY <1>2
  <2>2. DOMAIN f = 1 .. m /\ \A n \in 1 .. m : f[n] = IF n = 1 THEN j ELSE Times(f[n - 1], array, index, n)
    <3>1. (m - 1) + 1 = m
      OBVIOUS
    <3> QED
      BY <2>1, <3>1
  <2> HIDE DEF Defines
  <2> DEFINE g == [n \in 1 .. m + 1 |-> IF n <= m THEN f[n] ELSE Times(f[m], array, index, n)]
  <2>3. DOMAIN g = 1 .. m + 1 /\ (\A n \in 1 .. m : g[n] = f[n]) /\ g[m + 1] = Times(f[m], array, index, m + 1)
    OBVIOUS
  <2>4. g = [n \in 1 .. m + 1 |-> g[n]]
    BY <2>3
  <2> HIDE DEF g
  <2>5. ASSUME NEW n \in 1 .. m + 1 PROVE g[n] = IF n = 1 THEN j ELSE Times(g[n - 1], array, index, n)
    <3>1. CASE n = 1
      BY <2>2, <2>3, <3>1
    <3>2. CASE n # 1 /\ n <= m
      <4>1. n - 1 \in 1 .. m /\ n \in 1 .. m
        BY <3>2
      <4> QED
        BY <2>2, <2>3, <3>2, <4>1
    <3>3. CASE n = m + 1
      <4>1. n # 1 /\ n - 1 = m /\ m \in 1 .. m
        BY <3>3
      <4> QED
        BY <2>2, <2>3, <3>3, <4>1
    <3> QED
      BY <3>1, <3>2, <3>3
  <2>6. Defines(g, m)
    BY <2>4, <2>5 DEF Defines
  <2> QED
    BY <2>6
<1> HIDE DEF Defines
<1>3. H = 0 .. dims - 1
  <2>1. dims - 1 \in Nat /\ H \in SUBSET (0 .. dims - 1)
    OBVIOUS
  <2> HIDE DEF H
  <2> QED
    BY <1>1, <1>2, <2>1, UpTo
<1>4. PICK f : Defines(f, dims - 1)
  <2>1. dims - 1 \in H
    <3> HIDE DEF H
    <3> QED
      BY <1>3
  <2> QED
    BY <2>1
<1> DEFINE Of(f1) == f1 = [n \in 1 .. dims |-> IF n = 1 THEN j ELSE Times(f1[n - 1], array, index, n)]
           e == CHOOSE f1 : Of(f1)
<1>5. Of(f)
  <2>1. (dims - 1) + 1 = dims
    OBVIOUS
  <2> QED
    BY <1>4, <2>1 DEF Defines
<1>6. IndexedFurther(j, array, index, dims) = e[dims]
  BY Zenon DEF IndexedFurther, Times
<1> HIDE DEF Of
<1>7. Of(e)
  BY <1>5
<1> HIDE DEF e
<1> QED
  BY <1>6, <1>7 DEF Of
LEMMA IndexesOnce ==
  ASSUME NEW j, NEW H, Owns(j, H), j.success => Len(j.stack) >= 1, NEW array, NEW index, NEW n
  PROVE  LET k == Times(j, array, index, n)
         IN  Owns(k, H) /\ k.success = j.success /\ (j.success => Len(k.stack) = Len(j.stack) - 1)
<1> DEFINE code == <<Mach("ALU", Reg(index), Dim(array, n), "MUL"), Mach("ALU", Reg(index), Operand(FirstItem(j)), "ADD")>>
           k1 == AddCode(j, code)
           k == DropItems(k1, 1)
<1> HIDE DEF code
<1>1. Owns(k1, H) /\ k1.stack = j.stack /\ k1.success = j.success
  <2>1. Owns(k1, H) /\ Keeps(j, k1)
    BY Emits
  <2>2. k1.success = j.success
    BY DEF AddCode, Owns, IsTranslation, Parts
  <2> QED
    BY <2>1, <2>2 DEF Keeps
<1> HIDE DEF k1
<1>2. /\ With(k, H, RegsOf(FirstItem(k1))) /\ k.success = k1.success
      /\ k1.success => Len(k.stack) = Len(k1.stack) - 1
  BY <1>1, DropsOne
<1> HIDE DEF k
<1>3. Owns(k, H)
  BY <1>2, Forgets
<1>4. k.success = j.success /\ (j.success => Len(k.stack) = Len(j.stack) - 1)
  BY <1>1, <1>2
<1> QED
  BY <1>3, <1>4 DEF Times, k, k1, code

LEMMA IndexesFurther ==
  ASSUME NEW j, NEW H, Owns(j, H), NEW dims \in Nat \ {0}, j.success => Len(j.stack) >= dims - 1, NEW array, NEW index
  PROVE  LET k == IndexedFurther(j, array, index, dims)
         IN  Owns(k, H) /\ (k.success => j.success /\ Len(k.stack) = Len(j.stack) - (dims - 1))
<1>1. PICK f : /\ f = [n \in 1 .. dims |-> IF n = 1 THEN j ELSE Times(f[n - 1], array, index, n)]
               /\ IndexedFurther(j, array, index, dims) = f[dims]
  BY FurtherIs
<1> DEFINE Good(m) == Owns(f[m + 1], H) /\ (f[m + 1].success => j.success /\ Len(f[m + 1].stack) = Len(j.stack) - m)
           G == {m \in 0 .. dims - 1 : Good(m)}
<1>2. j.success => Len(j.stack) \in Nat
  BY DEF Owns, IsSeq
<1>3. f[0 + 1] = j /\ \A m \in 1 .. dims - 1 : f[m + 1] = Times(f[m], array, index, m + 1)
  <2>1. 0 + 1 \in 1 .. dims /\ 0 + 1 = 1
    OBVIOUS
  <2>2. \A m \in 1 .. dims - 1 : m + 1 \in 1 .. dims /\ m + 1 # 1 /\ (m + 1) - 1 = m
    OBVIOUS
  <2>3. \A n \in 1 .. dims : f[n] = IF n = 1 THEN j ELSE Times(f[n - 1], array, index, n)
    BY <1>1
  <2>4. f[0 + 1] = j
    BY <2>1, <2>3
  <2>5. ASSUME NEW m \in 1 .. dims - 1 PROVE f[m + 1] = Times(f[m], array, index, m + 1)
    BY <2>2, <2>3
  <2> QED
    BY <2>4, <2>5
<1>4. 0 \in G
  <2>1. Good(0)
    BY <1>2, <1>3
  <2> QED
    BY <2>1
<1>5. ASSUME NEW m \in 1 .. dims - 1, m - 1 \in G PROVE m \in G
  <2>1. Owns(f[m], H) /\ (f[m].success => j.success /\ Len(f[m].stack) = Len(j.stack) - (m - 1))
    <3>1. (m - 1) + 1 = m
      OBVIOUS
    <3> QED
      BY <1>5, <3>1
  <2>2. f[m].success => Len(f[m].stack) >= 1
    <3> SUFFICES ASSUME f[m].success PROVE Len(f[m].stack) >= 1
      OBVIOUS
    <3>1. Len(f[m].stack) = Len(j.stack) - (m - 1) /\ Len(j.stack) >= dims - 1 /\ Len(j.stack) \in Nat
      BY <1>2, <2>1
    <3> DEFINE N == Len(j.stack)
               M == Len(f[m].stack)
    <3> HIDE DEF N, M
    <3>2. M = N - (m - 1) /\ N >= dims - 1 /\ N \in Nat
      BY <3>1 DEF N, M
    <3>3. M >= 1
      BY <3>2
    <3> QED
      BY <3>3 DEF M
  <2> DEFINE k == f[m]
             l == Times(k, array, index, m + 1)
  <2>3. f[m + 1] = l
    BY <1>3
  <2> HIDE DEF k
  <2>4. Owns(l, H) /\ l.success = k.success /\ (k.success => Len(l.stack) = Len(k.stack) - 1)
    BY <2>1, <2>2, IndexesOnce DEF k
  <2> HIDE DEF l
  <2>5. l.success => j.success /\ Len(l.stack) = Len(j.stack) - m
    <3> SUFFICES ASSUME l.success PROVE j.success /\ Len(l.stack) = Len(j.stack) - m
      OBVIOUS
    <3>1. j.success /\ Len(k.stack) = Len(j.stack) - (m - 1) /\ Len(l.stack) = Len(k.stack) - 1 /\ Len(j.stack) \in Nat
      BY <1>2, <2>1, <2>4 DEF k
    <3> DEFINE N == Len(j.stack)
               M == Len(k.stack)
               L == Len(l.stack)
    <3> HIDE DEF N, M, L
    <3>2. M = N - (m - 1) /\ L = M - 1 /\ N \in Nat
      BY <3>1 DEF N, M, L
    <3>3. L = N - m
      BY <3>2
    <3> QED
      BY <3>1, <3>3 DEF L, N
  <2>6. Good(m)
    BY <2>3, <2>4, <2>5
  <2> QED
    BY <2>6
<1> HIDE DEF Good
<1>6. G = 0 .. dims - 1
  <2>1. dims - 1 \in Nat /\ G \in SUBSET (0 .. dims - 1)
    OBVIOUS
  <2> HIDE DEF G
  <2> QED
    BY <1>4, <1>5, <2>1, UpTo
<1>7. Good(dims - 1)
  <2>1. dims - 1 \in G
    <3> HIDE DEF G
    <3> QED
      BY <1>6
  <2> QED
    BY <2>1
<1>8. f[(dims - 1) + 1] = f[dims]
  <2>1. (dims - 1) + 1 = dims
    OBVIOUS
  <2> QED
    BY <2>1
<1>9. Owns(f[dims], H) /\ (f[dims].success => j.success /\ Len(f[dims].stack) = Len(j.stack) - (dims - 1))
  BY <1>7, <1>8 DEF Good
<1> QED
  BY <1>1, <1>9

LEMMA Addresses ==
  ASSUME NEW j, NEW H, Owns(j, H), NEW dims \in Nat \ {0}, j.success => Len(j.stack) >= dims + 1
  PROVE  LET k == ElementAddress(j, dims)
         IN  With(k, H, {k.got}) /\ (k.success => j.success /\ Len(k.stack) = Len(j.stack) - (dims + 1))
<1> DEFINE one == FirstItem(j)
           other == SecondItem(j)
           d == DropItems(j, 2)
           k1 == Loaded(d, one, TRUE)
           array == k1.got
           k2 == CheckNil(k1, array)
           k3 == Loaded(k2, other, TRUE)
           index == k3.got
           k4 == IndexedFurther(k3, array, index, dims)
           k5 == Bounded(k4, array, index)
           k6 == AddCode(k5, <<Mach("ELEM", Reg(array), Reg(index), 0)>>)
           k7 == ReleaseRegister(k6, index)
           k == [k7 EXCEPT !.got = array]
<1>1. ElementAddress(j, dims) = k
  BY Zenon DEF ElementAddress
<1>2. j.success => Len(j.stack) \in Nat /\ Len(j.stack) >= 2
  <2> SUFFICES ASSUME j.success PROVE Len(j.stack) \in Nat /\ Len(j.stack) >= 2
    OBVIOUS
  <2>1. Len(j.stack) \in Nat
    BY DEF Owns, IsSeq
  <2> QED
    BY <2>1
<1>3. /\ With(d, H, RegsOf(one) \cup RegsOf(other)) /\ d.success = j.success
      /\ j.success => Len(d.stack) = Len(j.stack) - 2 /\ RegsOf(one) \cap RegsOf(other) = {}
  BY <1>2, DropsTwo
<1> HIDE DEF one, other, d
<1>4. With(d, H \cup RegsOf(other), RegsOf(one)) /\ (d.success => H \cap RegsOf(other) = {})
  BY <1>3, Splits DEF With
<1>5. With(k1, H \cup RegsOf(other), {array}) /\ Keeps(d, k1)
  BY <1>4, Loads
<1> HIDE DEF k1, array
<1>6. k1.success => H \cap RegsOf(other) = {}
  BY <1>4, <1>5 DEF Keeps
<1>7. With(k1, H \cup {array}, RegsOf(other)) /\ (k1.success => H \cap {array} = {})
  BY <1>5, <1>6, Swaps DEF With
<1>8. Owns(k2, (H \cup {array}) \cup RegsOf(other)) /\ Keeps(k1, k2)
  BY <1>7, ChecksNil DEF With
<1> HIDE DEF k2
<1>9. With(k2, H \cup {array}, RegsOf(other))
  BY <1>7, <1>8, Still
<1>10. With(k3, H \cup {array}, {index}) /\ Keeps(k2, k3)
  BY <1>9, Loads
<1> HIDE DEF k3, index
<1>11. k3.success => j.success /\ Len(k3.stack) = Len(j.stack) - 2
  BY <1>3, <1>5, <1>8, <1>10 DEF Keeps
<1>12. /\ Owns(k4, (H \cup {array}) \cup {index})
       /\ k4.success => k3.success /\ Len(k4.stack) = Len(k3.stack) - (dims - 1)
  <2>1. k3.success => Len(k3.stack) >= dims - 1
    <3> SUFFICES ASSUME k3.success PROVE Len(k3.stack) >= dims - 1
      OBVIOUS
    <3> DEFINE N == Len(j.stack)
               M == Len(k3.stack)
    <3>1. M = N - 2 /\ N \in Nat /\ N >= dims + 1
      BY <1>2, <1>11
    <3> HIDE DEF N, M
    <3>2. M >= dims - 1
      BY <3>1
    <3> QED
      BY <3>2 DEF M
  <2>2. Owns(k3, (H \cup {array}) \cup {index})
    BY <1>10 DEF With
  <2> QED
    BY <2>1, <2>2, IndexesFurther
<1> HIDE DEF k4
<1>13. k4.success => j.success /\ Len(k4.stack) = Len(j.stack) - (dims + 1)
  <2> SUFFICES ASSUME k4.success PROVE j.success /\ Len(k4.stack) = Len(j.stack) - (dims + 1)
    OBVIOUS
  <2>1. k3.success /\ j.success
    BY <1>11, <1>12
  <2> DEFINE N == Len(j.stack)
             M == Len(k3.stack)
             L == Len(k4.stack)
  <2>2. M = N - 2 /\ N \in Nat /\ L = M - (dims - 1)
    BY <1>2, <1>11, <1>12, <2>1
  <2> HIDE DEF N, M, L
  <2>3. L = N - (dims + 1)
    BY <2>2
  <2> QED
    BY <2>1, <2>3 DEF L, N
<1>14. Owns(k5, (H \cup {array}) \cup {index}) /\ Keeps(k4, k5)
  BY <1>12, Dropped DEF Bounded
<1> HIDE DEF k5
<1>15. Owns(k6, (H \cup {array}) \cup {index}) /\ Keeps(k5, k6)
  BY <1>14, Emits
<1> HIDE DEF k6
<1>16. k6.success => k4.success /\ k3.success /\ k1.success
  BY <1>8, <1>10, <1>12, <1>14, <1>15 DEF Keeps
<1>17. With(k6, H \cup {array}, {index})
  BY <1>10, <1>15, <1>16, Zenon DEF With
<1>18. Owns(k7, H \cup {array}) /\ Keeps(k6, k7)
  BY <1>17, ReturnsRegister
<1> HIDE DEF k7
<1>19. Owns(k, H \cup {array}) /\ Keeps(k7, k) /\ k.got = array
  BY <1>18, Gets
<1> HIDE DEF k
<1>20. Keeps(k4, k)
  BY <1>14, <1>15, <1>18, <1>19, KeepsOn
<1>21. k.success => j.success /\ Len(k.stack) = Len(j.stack) - (dims + 1)
  BY <1>13, <1>20 DEF Keeps
<1>22. k.success => H \cap {array} = {}
  BY <1>7, <1>16, <1>18, <1>19 DEF Keeps
<1>23. With(k, H, {k.got})
  BY <1>19, <1>22, Zenon DEF With
<1> QED
  BY <1>1, <1>21, <1>23, Zenon
LEMMA LoadsElement ==
  ASSUME NEW j, NEW H, Owns(j, H), NEW instr, instr.n \in Nat \ {0}, j.success => Len(j.stack) >= instr.n + 1
  PROVE  Owns(ProcessLoadElement(j, instr), H)
<1> DEFINE e == ElementAddress(j, instr.n)
<1>1. With(e, H, {e.got}) /\ Owns(e, H \cup {e.got})
  BY Addresses DEF With
<1>2. CASE instr.op = "LOAD_INT_ARY_ELM"
  <2> DEFINE k == AddCode(e, <<Mov(Reg(e.got), Elem(e.got, Size(instr.op)))>>)
             item == Item("REG_INT", e.got)
  <2>1. ProcessLoadElement(j, instr) = PushItem(k, item)
    BY <1>2 DEF ProcessLoadElement
  <2> HIDE DEF e
  <2>2. Owns(k, H \cup {e.got}) /\ Keeps(e, k)
    BY <1>1, Emits
  <2> HIDE DEF k
  <2>3. With(k, H, {e.got}) /\ RegsOf(item) = {e.got}
    BY <1>1, <2>2, Still DEF RegsOf, InReg, Item
  <2> HIDE DEF item
  <2>4. Owns(PushItem(k, item), H)
    BY <2>3, Pushes
  <2> QED
    BY <2>1, <2>4
<1>3. CASE instr.op # "LOAD_INT_ARY_ELM"
  <2> DEFINE byte == instr.op = "LOAD_BYTE_ARY_ELM"
             x == IF byte THEN GetRegister(e, TRUE) ELSE GetXmmRegister(e)
             ops == <<Mov(Reg(x.got), Elem(e.got, Size(instr.op)))>>
             item == Item(IF byte THEN "REG_INT" ELSE "REG_FLOAT", x.got)
             k == PushItem(ReleaseRegister(AddCode(x, ops), e.got), item)
  <2>1. ProcessLoadElement(j, instr) = k
    BY <1>3, Zenon DEF ProcessLoadElement
  <2> HIDE DEF e
  <2>2. With(x, H \cup {e.got}, {x.got}) /\ Keeps(e, x)
    <3>1. LET y == GetRegister(e, TRUE) IN With(y, H \cup {e.got}, {y.got}) /\ Keeps(e, y)
      BY <1>1, TakesRegister
    <3>2. LET y == GetXmmRegister(e) IN With(y, H \cup {e.got}, {y.got}) /\ Keeps(e, y)
      BY <1>1, TakesXmmRegister
    <3> QED
      BY <3>1, <3>2, Zenon
  <2> HIDE DEF x, byte
  <2>3. RegsOf(item) = {x.got}
    BY DEF RegsOf, InReg, Item
  <2> HIDE DEF item, ops
  <2>4. Owns(k, H)
    BY <1>1, <2>2, <2>3, Replaces
  <2> QED
    BY <2>1, <2>4, Zenon
<1> QED
  BY <1>2, <1>3

LEMMA StoresElement ==
  ASSUME NEW j, NEW H, Owns(j, H), NEW instr, instr.n \in Nat \ {0}, j.success => Len(j.stack) >= instr.n + 2
  PROVE  Owns(ProcessStoreElement(j, instr), H)
<1> DEFINE e == ElementAddress(j, instr.n)
           item == FirstItem(e)
           to == Elem(e.got, Size(instr.op))
           d == DropItems(e, 1)
           byte == instr.op = "STOR_BYTE_ARY_ELM" /\ item.type = "MEM_INT"
           k1 == Loaded(d, item, FALSE)
           k == IF byte THEN ReleaseRegister(AddCode(k1, <<Mov(to, Reg(k1.got))>>), k1.got) ELSE Moved(d, item, to)
<1>1. ProcessStoreElement(j, instr) = ReleaseRegister(k, e.got)
  BY Zenon DEF ProcessStoreElement
<1>2. j.success => Len(j.stack) \in Nat /\ Len(j.stack) >= instr.n + 1
  <2> SUFFICES ASSUME j.success PROVE Len(j.stack) \in Nat /\ Len(j.stack) >= instr.n + 1
    OBVIOUS
  <2>1. Len(j.stack) \in Nat
    BY DEF Owns, IsSeq
  <2> QED
    BY <2>1
<1>3. With(e, H, {e.got}) /\ (e.success => j.success /\ Len(e.stack) = Len(j.stack) - (instr.n + 1))
  BY <1>2, Addresses
<1> HIDE DEF e
<1>4. e.success => Len(e.stack) >= 1
  <2> SUFFICES ASSUME e.success PROVE Len(e.stack) >= 1
    OBVIOUS
  <2> DEFINE N == Len(j.stack)
             M == Len(e.stack)
             n == instr.n
  <2>1. N \in Nat /\ N >= n + 2 /\ M = N - (n + 1) /\ n \in Nat
    BY <1>2, <1>3
  <2> HIDE DEF N, M, n
  <2>2. M >= 1
    BY <2>1
  <2> QED
    BY <2>2 DEF M
<1>5. With(d, H \cup {e.got}, RegsOf(item)) /\ d.success = e.success
  BY <1>3, <1>4, DropsOne DEF With
<1> HIDE DEF d, item, to
<1>6. Owns(k, H \cup {e.got}) /\ Keeps(d, k)
  <2>1. CASE byte
    <3> DEFINE k2 == AddCode(k1, <<Mov(to, Reg(k1.got))>>)
    <3>1. k = ReleaseRegister(k2, k1.got)
      BY <2>1
    <3>2. With(k1, H \cup {e.got}, {k1.got}) /\ Keeps(d, k1)
      BY <1>5, Loads
    <3> HIDE DEF k, k1
    <3>3. Owns(k2, (H \cup {e.got}) \cup {k1.got}) /\ Keeps(k1, k2)
      BY <3>2, Emits DEF With
    <3> HIDE DEF k2
    <3>4. With(k2, H \cup {e.got}, {k1.got})
      BY <3>2, <3>3, Still
    <3>5. Owns(k, H \cup {e.got}) /\ Keeps(k2, k)
      BY <3>1, <3>4, ReturnsRegister
    <3> QED
      BY <3>2, <3>3, <3>5, KeepsOn
  <2>2. CASE ~byte
    <3>1. k = Moved(d, item, to)
      BY <2>2
    <3> HIDE DEF k
    <3> QED
      BY <1>5, <3>1, Moves
  <2> QED
    BY <2>1, <2>2
<1> HIDE DEF k
<1>7. With(k, H, {e.got})
  BY <1>3, <1>5, <1>6, Zenon DEF With, Keeps
<1>8. Owns(ReleaseRegister(k, e.got), H)
  BY <1>7, ReturnsRegister
<1> QED
  BY <1>1, <1>8

-----------------------------------------------------------------------------
(* Items that leave the stack after their registers have been returned. *)
LEMMA DropsIs ==
  ASSUME NEW j, IsTranslation(j), NEW n
  PROVE  DropItems(j, n) = [p \in Parts |-> IF p = "stack" THEN SubSeq(j.stack, n + 1, Len(j.stack)) ELSE j[p]]
BY DEF DropItems, IsTranslation, Parts

LEMMA Remains ==
  ASSUME NEW j, IsTranslation(j), NEW k, NEW p \in Parts \ {"stack"}, NEW v, k = [q \in Parts |-> IF q = p THEN v ELSE j[q]], NEW n
  PROVE  /\ IsTranslation(k)
         /\ DropItems(k, n) = [q \in Parts |-> IF q = p THEN v ELSE DropItems(j, n)[q]]
<1>1. IsTranslation(k)
  BY DEF IsTranslation
<1>2. k.stack = j.stack
  BY DEF Parts
<1> DEFINE left == SubSeq(j.stack, n + 1, Len(j.stack))
<1>3. /\ DropItems(j, n) = [q \in Parts |-> IF q = "stack" THEN left ELSE j[q]]
      /\ DropItems(k, n) = [q \in Parts |-> IF q = "stack" THEN left ELSE k[q]]
  BY <1>1, <1>2, DropsIs
<1> HIDE DEF left
<1>4. DropItems(k, n) = [q \in Parts |-> IF q = p THEN v ELSE DropItems(j, n)[q]]
  BY <1>3
<1> QED
  BY <1>1, <1>4

LEMMA ReleasesLater ==
  ASSUME NEW j, IsTranslation(j), NEW item, NEW n
  PROVE  LET k == Release(j, item)
         IN  IsTranslation(k) /\ DropItems(k, n) = Release(DropItems(j, n), item)
<1> DEFINE k == Release(j, item)
           d == DropItems(j, n)
           left == SubSeq(j.stack, n + 1, Len(j.stack))
<1>1. d = [p \in Parts |-> IF p = "stack" THEN left ELSE j[p]]
  BY DropsIs
<1> HIDE DEF d, left
<1>2. d.aval = j.aval /\ d.xmms = j.xmms /\ IsTranslation(d)
  BY <1>1 DEF Parts, IsTranslation
<1>3. CASE item.type = "REG_INT"
  <2> DEFINE v == Append(j.aval, item.v)
  <2>1. k = [p \in Parts |-> IF p = "aval" THEN v ELSE j[p]]
    BY <1>3 DEF Release, ReleaseRegister, IsTranslation, Parts
  <2>2. Release(d, item) = [p \in Parts |-> IF p = "aval" THEN v ELSE d[p]]
    BY <1>2, <1>3 DEF Release, ReleaseRegister, IsTranslation, Parts
  <2>3. "aval" \in Parts \ {"stack"}
    BY DEF Parts
  <2> HIDE DEF k, v
  <2>4. IsTranslation(k) /\ DropItems(k, n) = [p \in Parts |-> IF p = "aval" THEN v ELSE d[p]]
    BY <2>1, <2>3, Remains DEF d
  <2>5. IsTranslation(k) /\ DropItems(k, n) = Release(d, item)
    BY <2>2, <2>4
  <2> QED
    BY <2>5 DEF k, d
<1>4. CASE item.type = "REG_FLOAT"
  <2> DEFINE v == Append(j.xmms, item.v)
  <2>1. k = [p \in Parts |-> IF p = "xmms" THEN v ELSE j[p]]
    BY <1>4 DEF Release, ReleaseXmmRegister, IsTranslation, Parts
  <2>2. Release(d, item) = [p \in Parts |-> IF p = "xmms" THEN v ELSE d[p]]
    BY <1>2, <1>4 DEF Release, ReleaseXmmRegister, IsTranslation, Parts
  <2>3. "xmms" \in Parts \ {"stack"}
    BY DEF Parts
  <2> HIDE DEF k, v
  <2>4. IsTranslation(k) /\ DropItems(k, n) = [p \in Parts |-> IF p = "xmms" THEN v ELSE d[p]]
    BY <2>1, <2>3, Remains DEF d
  <2>5. IsTranslation(k) /\ DropItems(k, n) = Release(d, item)
    BY <2>2, <2>4
  <2> QED
    BY <2>5 DEF k, d
<1>5. CASE item.type # "REG_INT" /\ item.type # "REG_FLOAT"
  <2>1. k = j /\ Release(d, item) = d
    BY <1>5 DEF Release
  <2> QED
    BY <2>1 DEF d, k
<1> QED
  BY <1>3, <1>4, <1>5

LEMMA DropsReleased ==
  ASSUME NEW j, NEW H, Owns(j, H), j.success => Len(j.stack) >= 1, NEW item, RegsOf(item) = RegsOf(FirstItem(j))
  PROVE  Owns(DropItems(Release(j, item), 1), H)
<1> DEFINE d == DropItems(j, 1)
<1>1. With(d, H, RegsOf(item))
  BY DropsOne
<1> HIDE DEF d
<1>2. Owns(Release(d, item), H)
  BY <1>1, ReturnsItem
<1>3. IsTranslation(j)
  BY DEF Owns
<1>4. DropItems(Release(j, item), 1) = Release(d, item)
  BY <1>3, ReleasesLater DEF d
<1> QED
  BY <1>2, <1>4

LEMMA PopsItem ==
  ASSUME NEW j, NEW H, Owns(j, H), IsSeq(j.stack), j.stack # <<>>
  PROVE  Owns(DropItems(Release(j, FirstItem(j)), 1), H)
<1>1. Len(j.stack) >= 1
  BY DEF IsSeq
<1> QED
  BY <1>1, DropsReleased

LEMMA SwapsItems ==
  ASSUME NEW j, NEW H, Owns(j, H), j.success => Len(j.stack) >= 2
  PROVE  Owns(PushItem(PushItem(DropItems(j, 2), FirstItem(j)), SecondItem(j)), H)
<1> DEFINE one == FirstItem(j)
           other == SecondItem(j)
           d == DropItems(j, 2)
           k1 == PushItem(d, one)
           k == PushItem(k1, other)
<1>1. With(d, H, RegsOf(one) \cup RegsOf(other)) /\ (d.success => RegsOf(one) \cap RegsOf(other) = {})
  BY DropsTwo
<1> HIDE DEF one, other, d
<1>2. With(d, H \cup RegsOf(other), RegsOf(one)) /\ (d.success => H \cap RegsOf(other) = {})
  BY <1>1, Splits DEF With
<1>3. Owns(k1, H \cup RegsOf(other)) /\ k1.success = d.success
  BY <1>2, Pushes
<1> HIDE DEF k1
<1>4. With(k1, H, RegsOf(other))
  BY <1>2, <1>3, Zenon DEF With
<1>5. Owns(k, H)
  BY <1>4, Pushes
<1> QED
  BY <1>5 DEF k, k1, d, one, other

LEMMA TestsJump ==
  ASSUME NEW j, NEW H, Owns(j, H), j.success => Len(j.stack) >= 1, NEW instr
  PROVE  Owns(JumpTested(j, instr), H)
<1> DEFINE item == FirstItem(j)
           k1 == Loaded(j, item, TRUE)
           jump == Mach("JCC", NoOperand, NoOperand, [cond |-> "EQL", sense |-> TRUE, label |-> instr.n])
           value == Imm("IMM_INT", IF instr.m = "true" THEN 1 ELSE 0)
           k2 == AddCode(k1, <<Mach("CMP", Reg(k1.got), value, 0), jump>>)
           k3 == ReleaseRegister(k2, k1.got)
           k == DropItems(k3, 1)
<1>1. JumpTested(j, instr) = Joined(k, instr.n)
  BY Zenon DEF JumpTested
<1> HIDE DEF jump, value
<1>2. Owns(k, H)
  <2>1. CASE InReg(item)
    <3> DEFINE one == Item("REG_INT", item.v)
    <3>1. k1 = [j EXCEPT !.got = item.v]
      BY <2>1 DEF Loaded, InReg
    <3> HIDE DEF item, k1
    <3>2. Owns(k1, H) /\ Keeps(j, k1) /\ k1.got = item.v
      BY <3>1, Gets
    <3>3. Owns(k2, H) /\ Keeps(k1, k2)
      BY <3>2, Emits
    <3> HIDE DEF k2
    <3>4. k3 = Release(k2, one)
      BY <3>2 DEF Release, Item
    <3> HIDE DEF k3
    <3>5. RegsOf(one) = RegsOf(FirstItem(k2)) /\ (k2.success => Len(k2.stack) >= 1)
      <4>1. RegsOf(one) = {item.v} /\ RegsOf(item) = {item.v}
        BY <2>1 DEF RegsOf, InReg, Item
      <4>2. k2.stack = j.stack /\ (k2.success => j.success)
        BY <3>2, <3>3 DEF Keeps
      <4> QED
        BY <4>1, <4>2 DEF FirstItem, item
    <3> HIDE DEF one
    <3> QED
      BY <3>3, <3>4, <3>5, DropsReleased
  <2>2. CASE ~InReg(item)
    <3>1. With(j, H, RegsOf(item))
      <4>1. RegsOf(item) = {}
        BY <2>2 DEF RegsOf
      <4> QED
        BY <4>1, None
    <3> HIDE DEF item
    <3>2. With(k1, H, {k1.got}) /\ Keeps(j, k1)
      BY <3>1, Loads
    <3> HIDE DEF k1
    <3>3. Owns(k2, H \cup {k1.got}) /\ Keeps(k1, k2)
      BY <3>2, Emits DEF With
    <3> HIDE DEF k2
    <3>4. With(k2, H, {k1.got})
      BY <3>2, <3>3, Still
    <3>5. Owns(k3, H) /\ Keeps(k2, k3)
      BY <3>4, ReturnsRegister
    <3> HIDE DEF k3
    <3>6. k3.success => Len(k3.stack) >= 1
      BY <3>2, <3>3, <3>5 DEF Keeps
    <3>7. With(k, H, RegsOf(FirstItem(k3)))
      BY <3>5, <3>6, DropsOne
    <3> QED
      BY <3>7, Forgets
  <2> QED
    BY <2>1, <2>2
<1> HIDE DEF k
<1>3. Owns(Joined(k, instr.n), H)
  BY <1>2, Joins
<1> QED
  BY <1>1, <1>3

LEMMA Jumps ==
  ASSUME NEW j, NEW H, Owns(j, H), NEW instr, j.success /\ ~(instr.m = "always" /\ ~j.skip_jump) => Len(j.stack) >= 1
  PROVE  Owns(ProcessJump(j, instr), H)
<1>1. CASE j.skip_jump
  <2> DEFINE r == Release(j, FirstItem(j))
             k == [r EXCEPT !.skip_jump = FALSE]
             n == 1
             d == DropItems(r, n)
             l == [d EXCEPT !.skip_jump = FALSE]
  <2>1. ProcessJump(j, instr) = Joined(DropItems(k, 1), instr.n)
    BY <1>1 DEF ProcessJump
  <2>2. Owns(d, H)
    BY <1>1, DropsReleased
  <2>3. IsTranslation(r)
    BY ReleasesLater DEF Owns
  <2> HIDE DEF r, n
  <2>4. DropItems(k, n) = l
    <3> DEFINE p == "skip_jump"
               v == FALSE
    <3>1. k = [q \in Parts |-> IF q = p THEN v ELSE r[q]]
      BY <2>3 DEF IsTranslation, Parts
    <3>2. p \in Parts \ {"stack"}
      BY DEF Parts
    <3>3. IsTranslation(d)
      BY <2>2 DEF Owns
    <3> HIDE DEF d
    <3>4. l = [q \in Parts |-> IF q = p THEN v ELSE d[q]]
      BY <3>3 DEF IsTranslation, Parts
    <3> HIDE DEF k, l, p, v
    <3>5. DropItems(k, n) = [q \in Parts |-> IF q = p THEN v ELSE d[q]]
      BY <2>3, <3>1, <3>2, Remains DEF d
    <3> QED
      BY <3>4, <3>5
  <2> HIDE DEF d
  <2>5. Owns(l, H)
    BY <2>2, Skips
  <2> HIDE DEF k, l
  <2>6. Owns(Joined(l, instr.n), H)
    BY <2>5, Joins
  <2> QED
    BY <2>1, <2>4, <2>6 DEF n
<1>2. CASE ~j.skip_jump /\ instr.m = "always"
  <2> DEFINE k == AddCode(j, <<Mach("JMP", NoOperand, NoOperand, instr.n)>>)
  <2>1. ProcessJump(j, instr) = Joined(k, instr.n)
    BY <1>2 DEF ProcessJump
  <2>2. Owns(k, H)
    BY Emits
  <2> HIDE DEF k
  <2>3. Owns(Joined(k, instr.n), H)
    BY <2>2, Joins
  <2> QED
    BY <2>1, <2>3
<1>3. CASE ~j.skip_jump /\ instr.m # "always"
  <2>1. ProcessJump(j, instr) = JumpTested(j, instr)
    BY <1>3 DEF ProcessJump
  <2> QED
    BY <1>3, <2>1, TestsJump
<1> QED
  BY <1>1, <1>2, <1>3

-----------------------------------------------------------------------------
(* Items on their way to the operand stack: all are pushed, then their      *)
(* registers returned.                                                     *)
LEMMA PushesOut ==
  ASSUME NEW j, NEW H, Owns(j, H), NEW item
  PROVE  LET k == Pushed(j, item)
         IN  Owns(k, H) /\ Keeps(j, k)
<1> DEFINE k == Pushed(j, item)
<1>1. CASE item.type \in {"IMM_INT", "REG_INT", "REG_FLOAT"}
  <2>1. k = AddCode(j, <<Mach("PUSH", NoOperand, Operand(item), 0)>>)
    BY <1>1 DEF Pushed
  <2> QED
    BY <2>1, Emits
<1>2. CASE item.type \notin {"IMM_INT", "REG_INT", "REG_FLOAT"}
  <2> DEFINE k1 == Loaded(j, item, TRUE)
             k2 == AddCode(k1, <<Mach("PUSH", NoOperand, Reg(k1.got), 0)>>)
             one == InRegister(item, k1.got)
  <2>1. k = Release(k2, one)
    BY <1>2 DEF Pushed
  <2>2. With(j, H, RegsOf(item))
    <3>1. RegsOf(item) = {}
      BY <1>2 DEF RegsOf, InReg
    <3> QED
      BY <3>1, None
  <2>3. With(k1, H, {k1.got}) /\ Keeps(j, k1)
    BY <2>2, Loads
  <2>4. RegsOf(one) = {k1.got}
    BY InRegisterRegs
  <2> HIDE DEF k, k1, one
  <2>5. Owns(k2, H \cup {k1.got}) /\ Keeps(k1, k2)
    BY <2>3, Emits DEF With
  <2> HIDE DEF k2
  <2>6. With(k2, H, RegsOf(one))
    BY <2>3, <2>4, <2>5, Still
  <2>7. Owns(k, H) /\ Keeps(k2, k)
    BY <2>1, <2>6, ReturnsItem
  <2>8. Keeps(j, k)
    BY <2>3, <2>5, <2>7, KeepsOn
  <2> QED
    BY <2>7, <2>8 DEF k
<1> QED
  BY <1>1, <1>2

LEMMA PushedIs ==
  ASSUME NEW j, NEW items, Len(items) \in Nat
  PROVE  \E f : /\ f = [n \in 0 .. Len(items) |-> IF n = 0 THEN j ELSE Pushed(f[n - 1], items[Len(items) + 1 - n])]
                /\ AllPushed(j, items) = f[Len(items)]
<1> DEFINE N == Len(items)
           Defines(f, m) == f = [n \in 0 .. m |-> IF n = 0 THEN j ELSE Pushed(f[n - 1], items[Len(items) + 1 - n])]
           H == {m \in 0 .. N : \E f : Defines(f, m)}
<1>1. 0 \in H
  <2> DEFINE f == [n \in 0 .. 0 |-> j]
  <2>1. Defines(f, 0)
    OBVIOUS
  <2> HIDE DEF Defines, f
  <2> QED
    BY <2>1
<1>2. ASSUME NEW m \in 1 .. N, m - 1 \in H PROVE m \in H
  <2>1. PICK f : Defines(f, m - 1)
    BY <1>2
  <2>2. DOMAIN f = 0 .. m - 1 /\ \A n \in 0 .. m - 1 : f[n] = IF n = 0 THEN j ELSE Pushed(f[n - 1], items[Len(items) + 1 - n])
    BY <2>1
  <2> HIDE DEF Defines
  <2> DEFINE g == [n \in 0 .. m |-> IF n < m THEN f[n] ELSE Pushed(f[m - 1], items[Len(items) + 1 - n])]
  <2>3. DOMAIN g = 0 .. m /\ (\A n \in 0 .. m - 1 : g[n] = f[n]) /\ g[m] = Pushed(f[m - 1], items[Len(items) + 1 - m])
    OBVIOUS
  <2>4. g = [n \in 0 .. m |-> g[n]]
    BY <2>3
  <2> HIDE DEF g
  <2>5. ASSUME NEW n \in 0 .. m PROVE g[n] = IF n = 0 THEN j ELSE Pushed(g[n - 1], items[Len(items) + 1 - n])
    <3>1. CASE n = 0
      BY <2>2, <2>3, <3>1
    <3>2. CASE n # 0 /\ n < m
      <4>1. n - 1 \in 0 .. m - 1 /\ n \in 0 .. m - 1
        BY <3>2
      <4> QED
        BY <2>2, <2>3, <3>2, <4>1
    <3>3. CASE n = m
      <4>1. n # 0 /\ n - 1 = m - 1 /\ m - 1 \in 0 .. m - 1
        BY <3>3
      <4> QED
        BY <2>2, <2>3, <3>3, <4>1
    <3> QED
      BY <3>1, <3>2, <3>3
  <2>6. Defines(g, m)
    BY <2>4, <2>5 DEF Defines
  <2> QED
    BY <2>6
<1> HIDE DEF Defines
<1>3. H = 0 .. N
  <2>1. H \in SUBSET (0 .. N)
    OBVIOUS
  <2> HIDE DEF H
  <2> QED
    BY <1>1, <1>2, <2>1, UpTo
<1>4. PICK f : Defines(f, N)
  <2>1. N \in H
    <3> HIDE DEF H
    <3> QED
      BY <1>3
  <2> QED
    BY <2>1
<1> DEFINE e == CHOOSE f1 : Defines(f1, N)
<1>5. AllPushed(j, items) = e[N]
  BY Zenon DEF AllPushed, Defines
<1>6. Defines(e, N)
  BY <1>4
<1> HIDE DEF e
<1> QED
  BY <1>5, <1>6 DEF Defines

LEMMA PushesAllOut ==
  ASSUME NEW j, NEW H, Owns(j, H), NEW items, Len(items) \in Nat
  PROVE  LET k == AllPushed(j, items)
         IN  Owns(k, H) /\ Keeps(j, k)
<1> DEFINE N == Len(items)
<1>1. PICK f : /\ f = [n \in 0 .. Len(items) |-> IF n = 0 THEN j ELSE Pushed(f[n - 1], items[Len(items) + 1 - n])]
               /\ AllPushed(j, items) = f[Len(items)]
  BY PushedIs
<1> DEFINE Good(m) == Owns(f[m], H) /\ Keeps(j, f[m])
           G == {m \in 0 .. N : Good(m)}
<1>2. f[0] = j /\ \A m \in 1 .. N : f[m] = Pushed(f[m - 1], items[N + 1 - m])
  <2>1. \A n \in 0 .. N : f[n] = IF n = 0 THEN j ELSE Pushed(f[n - 1], items[N + 1 - n])
    BY <1>1, Zenon
  <2>2. 0 \in 0 .. N /\ \A m \in 1 .. N : m \in 0 .. N /\ m # 0
    OBVIOUS
  <2> HIDE DEF N
  <2> QED
    BY <2>1, <2>2
<1> HIDE DEF N
<1>3. 0 \in G
  <2>1. Good(0)
    BY <1>2 DEF Keeps, Owns
  <2> QED
    BY <2>1 DEF N
<1>4. ASSUME NEW m \in 1 .. N, m - 1 \in G PROVE m \in G
  <2> DEFINE k == f[m - 1]
             l == Pushed(k, items[N + 1 - m])
  <2>1. Owns(k, H) /\ Keeps(j, k) /\ f[m] = l
    BY <1>2, <1>4
  <2> HIDE DEF k
  <2>2. Owns(l, H) /\ Keeps(k, l)
    BY <2>1, PushesOut
  <2> HIDE DEF l
  <2>3. Good(m)
    BY <2>1, <2>2, KeepsOn
  <2> QED
    BY <2>3
<1> HIDE DEF Good
<1>5. N \in Nat
  BY DEF N
<1>6. G = 0 .. N
  <2>1. G \in SUBSET (0 .. N)
    OBVIOUS
  <2> HIDE DEF G
  <2> QED
    BY <1>3, <1>4, <1>5, <2>1, UpTo
<1>7. Good(N)
  <2>1. N \in G
    <3> HIDE DEF G
    <3> QED
      BY <1>5, <1>6
  <2> QED
    BY <2>1
<1> QED
  BY <1>1, <1>7 DEF Good, N

LEMMA ReleasedIs ==
  ASSUME NEW j, NEW items, Len(items) \in Nat
  PROVE  \E f : /\ f = [n \in 0 .. Len(items) |-> IF n = 0 THEN j ELSE Release(f[n - 1], items[n])]
                /\ AllReleased(j, items) = f[Len(items)]
<1> DEFINE N == Len(items)
           Defines(f, m) == f = [n \in 0 .. m |-> IF n = 0 THEN j ELSE Release(f[n - 1], items[n])]
           H == {m \in 0 .. N : \E f : Defines(f, m)}
<1>1. 0 \in H
  <2> DEFINE f == [n \in 0 .. 0 |-> j]
  <2>1. Defines(f, 0)
    OBVIOUS
  <2> HIDE DEF Defines, f
  <2> QED
    BY <2>1
<1>2. ASSUME NEW m \in 1 .. N, m - 1 \in H PROVE m \in H
  <2>1. PICK f : Defines(f, m - 1)
    BY <1>2
  <2>2. DOMAIN f = 0 .. m - 1 /\ \A n \in 0 .. m - 1 : f[n] = IF n = 0 THEN j ELSE Release(f[n - 1], items[n])
    BY <2>1
  <2> HIDE DEF Defines
  <2> DEFINE g == [n \in 0 .. m |-> IF n < m THEN f[n] ELSE Release(f[m - 1], items[n])]
  <2>3. DOMAIN g = 0 .. m /\ (\A n \in 0 .. m - 1 : g[n] = f[n]) /\ g[m] = Release(f[m - 1], items[m])
    OBVIOUS
  <2>4. g = [n \in 0 .. m |-> g[n]]
    BY <2>3
  <2> HIDE DEF g
  <2>5. ASSUME NEW n \in 0 .. m PROVE g[n] = IF n = 0 THEN j ELSE Release(g[n - 1], items[n])
    <3>1. CASE n = 0
      BY <2>2, <2>3, <3>1
    <3>2. CASE n # 0 /\ n < m
      <4>1. n - 1 \in 0 .. m - 1 /\ n \in 0 .. m - 1
        BY <3>2
      <4> QED
        BY <2>2, <2>3, <3>2, <4>1
    <3>3. CASE n = m
      <4>1. n # 0 /\ n - 1 = m - 1 /\ m - 1 \in 0 .. m - 1
        BY <3>3
      <4> QED
        BY <2>2, <2>3, <3>3, <4>1
    <3> QED
      BY <3>1, <3>2, <3>3
  <2>6. Defines(g, m)
    BY <2>4, <2>5 DEF Defines
  <2> QED
    BY <2>6
<1> HIDE DEF Defines
<1>3. H = 0 .. N
  <2>1. H \in SUBSET (0 .. N)
    OBVIOUS
  <2> HIDE DEF H
  <2> QED
    BY <1>1, <1>2, <2>1, UpTo
<1>4. PICK f : Defines(f, N)
  <2>1. N \in H
    <3> HIDE DEF H
    <3> QED
      BY <1>3
  <2> QED
    BY <2>1
<1> DEFINE e == CHOOSE f1 : Defines(f1, N)
<1>5. AllReleased(j, items) = e[N]
  BY Zenon DEF AllReleased, Defines
<1>6. Defines(e, N)
  BY <1>4
<1> HIDE DEF e
<1> QED
  BY <1>5, <1>6 DEF Defines

(* The items' registers are held until they have been returned one by one. *)
LEMMA ReleasesAll ==
  ASSUME NEW j, IsTranslation(j), NEW H, NEW items, IsSeq(items), Apart(items), NEW n,
         With(DropItems(j, n), H, StackRegs(items))
  PROVE  Owns(DropItems(AllReleased(j, items), n), H)
<1> DEFINE N == Len(items)
           Left(m) == UNION {RegsOf(items[i]) : i \in m + 1 .. N}
<1>1. N \in Nat /\ DOMAIN items = 1 .. N
  BY DEF IsSeq
<1>2. PICK f : /\ f = [i \in 0 .. N |-> IF i = 0 THEN j ELSE Release(f[i - 1], items[i])]
               /\ AllReleased(j, items) = f[N]
  BY <1>1, ReleasedIs
<1>3. f[0] = j /\ \A m \in 1 .. N : f[m] = Release(f[m - 1], items[m])
  <2>1. \A i \in 0 .. N : f[i] = IF i = 0 THEN j ELSE Release(f[i - 1], items[i])
    BY <1>2, Zenon
  <2>2. 0 \in 0 .. N /\ \A m \in 1 .. N : m \in 0 .. N /\ m # 0
    BY <1>1
  <2> HIDE DEF N
  <2> QED
    BY <2>1, <2>2
<1>4. Left(0) = StackRegs(items) /\ Left(N) = {}
  <2>1. 0 + 1 .. N = DOMAIN items /\ N + 1 .. N = {}
    BY <1>1
  <2> HIDE DEF N
  <2> QED
    BY <2>1 DEF StackRegs
<1>5. ASSUME NEW m \in 1 .. N
      PROVE  Left(m - 1) = Left(m) \cup RegsOf(items[m]) /\ Left(m) \cap RegsOf(items[m]) = {}
  <2>1. (m - 1) + 1 .. N = (m + 1 .. N) \cup {m}
    BY <1>1
  <2>2. \A i \in m + 1 .. N : i \in DOMAIN items /\ m \in DOMAIN items /\ i # m
    BY <1>1
  <2> HIDE DEF N
  <2>3. Left(m - 1) = Left(m) \cup RegsOf(items[m])
    BY <2>1
  <2>4. \A i \in m + 1 .. N : RegsOf(items[i]) \cap RegsOf(items[m]) = {}
    BY <2>2 DEF Apart
  <2>5. Left(m) \cap RegsOf(items[m]) = {}
    BY <2>4
  <2> QED
    BY <2>3, <2>5
<1> HIDE DEF N, Left
<1> DEFINE Good(m) == IsTranslation(f[m]) /\ With(DropItems(f[m], n), H, Left(m))
           G == {m \in 0 .. N : Good(m)}
<1>6. 0 \in G
  <2>1. Good(0)
    BY <1>3, <1>4
  <2> QED
    BY <1>1, <2>1
<1>7. ASSUME NEW m \in 1 .. N, m - 1 \in G PROVE m \in G
  <2> DEFINE k == f[m - 1]
             item == items[m]
             l == Release(k, item)
             d == DropItems(k, n)
             e == Release(d, item)
  <2>1. IsTranslation(k) /\ With(d, H, Left(m - 1)) /\ f[m] = l
    BY <1>3, <1>7
  <2>2. Left(m - 1) = Left(m) \cup RegsOf(item) /\ Left(m) \cap RegsOf(item) = {}
    BY <1>5
  <2> HIDE DEF k, item
  <2>3. IsTranslation(l) /\ DropItems(l, n) = e
    BY <2>1, ReleasesLater
  <2> HIDE DEF l, d
  <2>4. With(d, H \cup Left(m), RegsOf(item)) /\ (d.success => H \cap Left(m) = {})
    <3>1. With(d, H, Left(m) \cup RegsOf(item))
      BY <2>1, <2>2
    <3>2. d.success => H \cap (Left(m) \cup RegsOf(item)) = {}
      BY <3>1 DEF With
    <3>3. With(d, H \cup Left(m), RegsOf(item))
      BY <2>2, <3>1, Splits
    <3> QED
      BY <3>2, <3>3
  <2>5. Owns(e, H \cup Left(m)) /\ Keeps(d, e)
    BY <2>4, ReturnsItem
  <2> HIDE DEF e
  <2>6. With(e, H, Left(m))
    BY <2>4, <2>5, Zenon DEF With, Keeps
  <2>7. Good(m)
    BY <2>1, <2>3, <2>6
  <2> QED
    BY <2>7
<1> HIDE DEF Good
<1>8. G = 0 .. N
  <2>1. G \in SUBSET (0 .. N)
    OBVIOUS
  <2> HIDE DEF G
  <2> QED
    BY <1>1, <1>6, <1>7, <2>1, UpTo
<1>9. Good(N)
  <2>1. N \in G
    <3> HIDE DEF G
    <3> QED
      BY <1>1, <1>8
  <2> QED
    BY <2>1
<1>10. With(DropItems(f[N], n), H, {})
  BY <1>4, <1>9 DEF Good
<1> QED
  BY <1>2, <1>10, None

LEMMA Returns ==
  ASSUME NEW j, NEW H, Owns(j, H), j.success, NEW n \in 0 .. Len(j.stack)
  PROVE  Owns(ProcessReturn(j, n), H)
<1>1. CASE j.stack = <<>>
  BY <1>1 DEF ProcessReturn
<1>2. CASE j.stack # <<>>
  <2> DEFINE items == SubSeq(j.stack, 1, n)
             t == TwoRegisters(j)
             k1 == AddCode(t.j, Trash(<<t.first, t.j.got>>))
             k2 == AllPushed(k1, items)
             k3 == ReturnedTwo(k2, t.first, t.j.got)
  <2>1. ProcessReturn(j, n) = DropItems(AllReleased(k3, items), n)
    BY <1>2 DEF ProcessReturn
  <2>2. IsSeq(items) /\ Apart(items) /\ Len(items) \in Nat
    <3>1. IsSeq(j.stack) /\ Apart(j.stack)
      BY DEF Owns
    <3>2. IsSeq(items) /\ Apart(items)
      BY <3>1, SplitApart
    <3> HIDE DEF items
    <3> QED
      BY <3>2 DEF IsSeq
  <2>3. Pair(t.j, H, t.first, t.j.got) /\ Keeps(j, t.j)
    BY TakesTwo
  <2> HIDE DEF t, items
  <2> DEFINE G == (H \cup {t.first}) \cup {t.j.got}
  <2>4. Owns(k1, G) /\ Keeps(t.j, k1)
    BY <2>3, PairOwns, Emits
  <2> HIDE DEF k1, G
  <2>5. Owns(k2, G) /\ Keeps(k1, k2)
    BY <2>2, <2>4, PushesAllOut
  <2> HIDE DEF k2
  <2>6. Pair(k2, H, t.first, t.j.got)
    BY <2>3, <2>4, <2>5, KeepsOn, PairStill DEF G
  <2>7. Owns(k3, H) /\ Keeps(k2, k3)
    BY <2>6, ReturnsTwo
  <2> HIDE DEF k3
  <2>8. k3.stack = j.stack
    BY <2>3, <2>4, <2>5, <2>7 DEF Keeps
  <2>9. With(DropItems(k3, n), H, StackRegs(items))
    BY <2>7, <2>8, Drops DEF items
  <2>10. Owns(DropItems(AllReleased(k3, items), n), H)
    BY <2>2, <2>7, <2>9, ReleasesAll DEF Owns
  <2> QED
    BY <2>1, <2>10
<1> QED
  BY <1>1, <1>2

LEMMA Succeeds ==
  ASSUME NEW j, NEW H, Owns(j, H), NEW b \in BOOLEAN, b => j.success
  PROVE  Owns([j EXCEPT !.success = b], H)
<1> DEFINE k == [j EXCEPT !.success = b]
<1>1. k = [p \in Parts |-> IF p = "success" THEN b ELSE j[p]]
  BY DEF Owns, IsTranslation, Parts
<1> HIDE DEF k
<1>2. IsTranslation(k)
  BY <1>1 DEF IsTranslation
<1>3. k.aval = j.aval /\ k.aux = j.aux /\ k.xmms = j.xmms /\ k.stack = j.stack /\ (k.success => j.success)
  BY <1>1 DEF Parts
<1>4. Keeps(j, k)
  BY <1>2, <1>3 DEF Keeps
<1>5. Owns(k, H)
  BY <1>3, <1>4, SameOwns
<1> QED
  BY <1>5 DEF k

LEMMA CallsBack ==
  ASSUME NEW j, NEW H, Owns(j, H), j.success, NEW params \in 0 .. Len(j.stack), NEW instr
  PROVE  Owns(ProcessStackCallback(j, instr, params), H)
<1> DEFINE kept(float) == SelectSeq(Reverse(SubSeq(j.stack, params + 1, Len(j.stack))), LAMBDA i : InReg(i) /\ IsFloat(i) = float)
           moves(items, places) == [n \in DOMAIN items |-> Mov(Mem(places[n - 1]), Reg(items[n].v))]
           restored(saved) == [n \in DOMAIN saved |-> Mov(saved[n].from, saved[n].to)]
           saved == moves(kept(FALSE), TMP_REG) \o moves(kept(TRUE), TMP_XMM)
           code == <<Mach("CALLBACK", NoOperand, NoOperand, instr)>> \o restored(saved)
           fits == Len(kept(FALSE)) <= SavedRegs /\ Len(kept(TRUE)) <= SavedXmms
           k1 == AddCode(j, saved)
           k2 == ProcessReturn(k1, params)
           k3 == GetRegister(k2, TRUE)
           k4 == ReleaseRegister(AddCode(k3, code), k3.got)
           b == k4.success /\ Len(kept(FALSE)) <= SavedRegs /\ Len(kept(TRUE)) <= SavedXmms
           k == [k4 EXCEPT !.success = b]
<1>1. ProcessStackCallback(j, instr, params) = k
  BY Zenon DEF ProcessStackCallback
<1>2. b \in BOOLEAN /\ (b => k4.success)
  OBVIOUS
<1> HIDE DEF kept, saved, code, b
<1>3. Owns(k1, H) /\ k1.success /\ k1.stack = j.stack
  <2>1. Owns(k1, H) /\ Keeps(j, k1)
    BY Emits
  <2>2. k1.success = j.success
    BY DEF AddCode, Owns, IsTranslation, Parts
  <2> QED
    BY <2>1, <2>2 DEF Keeps
<1> HIDE DEF k1
<1>4. Owns(k2, H)
  BY <1>3, Returns
<1> HIDE DEF k2
<1>5. Owns(k4, H)
  BY <1>4, Dropped
<1> HIDE DEF k4
<1>6. Owns(k, H)
  BY <1>2, <1>5, Succeeds
<1> QED
  BY <1>1, <1>6

-----------------------------------------------------------------------------
(* One instruction. *)
Calculations == {"ADD_INT", "SUB_INT", "MUL_INT", "DIV_INT", "MOD_INT", "SHL_INT", "SHR_INT", "BIT_AND_INT", "BIT_OR_INT", "BIT_XOR_INT",
                 "EQL_INT", "NEQL_INT", "LES_INT", "GTR_INT", "LES_EQL_INT", "GTR_EQL_INT"}
FloatCalculations == {"ADD_FLOAT", "SUB_FLOAT", "MUL_FLOAT", "DIV_FLOAT", "EQL_FLOAT", "NEQL_FLOAT", "LES_FLOAT", "GTR_FLOAT",
                      "LES_EQL_FLOAT", "GTR_EQL_FLOAT"}

LEMMA Operations ==
  DOMAIN IntOperations = Calculations /\ DOMAIN FloatOperations = FloatCalculations
BY DEF IntOperations, FloatOperations, Calculations, FloatCalculations

LEMMA Instructs ==
  ASSUME NEW j, NEW H, Owns(j, H), j.success, NEW instr, Taken(j, instr) \in 0 .. Len(j.stack),
         instr.op \in ElementLoads \cup ElementStores => instr.n \in Nat \ {0}
  PROVE  Owns(ProcessInstruction(j, instr), H)
<1> DEFINE op == instr.op
           k == ProcessInstruction(j, instr)
<1>1. IsSeq(j.stack) /\ Len(j.stack) \in Nat
  BY DEF Owns, IsSeq
<1> USE Operations DEF Calculations, FloatCalculations, ElementLoads, ElementStores, NewArrays
<1>2. ASSUME NEW type, NEW v, ~InReg(Item(type, v)) PROVE Owns(PushItem(j, Item(type, v)), H)
  <2>1. RegsOf(Item(type, v)) = {}
    BY <1>2 DEF RegsOf
  <2>2. With(j, H, RegsOf(Item(type, v)))
    BY <2>1, None
  <2> QED
    BY <2>2, Pushes
<1>3. CASE op = "LOAD_INT_LIT"
  <2>1. k = PushItem(j, Item("IMM_INT", instr.n))
    BY <1>3 DEF ProcessInstruction
  <2> QED
    BY <2>1, <1>2 DEF InReg, Item
<1>4. CASE op = "LOAD_FLOAT_LIT"
  <2>1. k = PushItem(j, Item("IMM_FLOAT", instr.n))
    BY <1>4 DEF ProcessInstruction
  <2> QED
    BY <2>1, <1>2 DEF InReg, Item
<1>5. CASE op = "LOAD_INST_MEM"
  <2>1. k = PushItem(j, Item("MEM_INT", INSTANCE_MEM))
    BY <1>5 DEF ProcessInstruction
  <2> QED
    BY <2>1, <1>2 DEF InReg, Item
<1>6. CASE op \in {"LOAD_INT_VAR", "LOAD_FLOAT_VAR"}
  <2>1. k = ProcessLoad(j, instr)
    BY <1>6 DEF ProcessInstruction
  <2>2. Taken(j, instr) = IF instr.m = "LOCL" THEN 0 ELSE 1
    BY <1>6 DEF Taken
  <2>3. instr.m # "LOCL" => Len(j.stack) >= 1
    BY <1>1, <2>2
  <2> QED
    BY <2>1, <2>3, LoadsVariable
<1>7. CASE op \in {"STOR_INT_VAR", "STOR_FLOAT_VAR"}
  <2>1. k = ProcessStore(j, instr)
    BY <1>7 DEF ProcessInstruction
  <2>2. Taken(j, instr) = IF instr.m = "LOCL" THEN 1 ELSE 2
    BY <1>7 DEF Taken
  <2>3. Len(j.stack) >= IF instr.m = "LOCL" THEN 1 ELSE 2
    BY <1>1, <2>2
  <2> QED
    BY <2>1, <2>3, StoresVariable
<1>8. CASE op \in {"COPY_INT_VAR", "COPY_FLOAT_VAR"}
  <2>1. k = ProcessCopy(j, instr)
    BY <1>8 DEF ProcessInstruction
  <2>2. Taken(j, instr) = 1
    BY <1>8 DEF Taken
  <2>3. Len(j.stack) >= 1
    BY <1>1, <2>2
  <2> QED
    BY <2>1, <2>3, CopiesVariable
<1>9. CASE op \in Calculations
  <2>1. k = ProcessIntCalculation(j, IntOperations[op])
    BY <1>9 DEF ProcessInstruction
  <2>2. Taken(j, instr) = 2
    BY <1>9 DEF Taken
  <2>3. Len(j.stack) >= 2
    BY <1>1, <2>2
  <2> QED
    BY <2>1, <2>3, CalculatesInt
<1>10. CASE op \in FloatCalculations
  <2>1. k = ProcessFloatCalculation(j, FloatOperations[op])
    BY <1>10 DEF ProcessInstruction
  <2>2. Taken(j, instr) = 2
    BY <1>10 DEF Taken
  <2>3. Len(j.stack) >= 2
    BY <1>1, <2>2
  <2> QED
    BY <2>1, <2>3, CalculatesFloat
<1>11. CASE op \in {"F2I", "I2F"}
  <2>1. k = ProcessConversion(j, op)
    BY <1>11 DEF ProcessInstruction
  <2>2. Taken(j, instr) = 1
    BY <1>11 DEF Taken
  <2>3. Len(j.stack) >= 1
    BY <1>1, <2>2
  <2> QED
    BY <2>1, <2>3, Converts
<1>12. CASE op \in ElementLoads
  <2>1. k = ProcessLoadElement(j, instr)
    BY <1>12 DEF ProcessInstruction
  <2>2. Len(j.stack) >= instr.n + 1 /\ instr.n \in Nat \ {0}
    BY <1>1, <1>12 DEF Taken
  <2> QED
    BY <2>1, <2>2, LoadsElement
<1>13. CASE op \in ElementStores
  <2>1. k = ProcessStoreElement(j, instr)
    BY <1>13 DEF ProcessInstruction
  <2>2. Len(j.stack) >= instr.n + 2 /\ instr.n \in Nat \ {0}
    BY <1>1, <1>13 DEF Taken
  <2> QED
    BY <2>1, <2>2, StoresElement
<1>14. CASE op = "NEW_OBJ_INST"
  <2> DEFINE l == ProcessStackCallback(j, instr, 0)
  <2>1. k = ProcessReturnParameters(l, "INT")
    BY <1>14 DEF ProcessInstruction
  <2>2. Owns(l, H)
    <3>1. 0 \in 0 .. Len(j.stack)
      BY <1>1
    <3> QED
      BY <3>1, CallsBack
  <2> HIDE DEF l
  <2> QED
    BY <2>1, <2>2, PopsResult
<1>15. CASE op \in NewArrays
  <2> DEFINE l == ProcessStackCallback(j, instr, instr.n)
  <2>1. k = ProcessReturnParameters(l, "INT")
    BY <1>15 DEF ProcessInstruction
  <2>2. Owns(l, H)
    <3>1. instr.n \in 0 .. Len(j.stack)
      BY <1>15 DEF Taken
    <3> QED
      BY <3>1, CallsBack
  <2> HIDE DEF l
  <2> QED
    BY <2>1, <2>2, PopsResult
<1>16. CASE op = "MTHD_CALL"
  <2> DEFINE l == ProcessStackCallback(j, instr, j.sigs[instr.n].params + 1)
  <2>1. k = ProcessReturnParameters(l, j.sigs[instr.n].type)
    BY <1>16 DEF ProcessInstruction
  <2>2. Owns(l, H)
    <3>1. j.sigs[instr.n].params + 1 \in 0 .. Len(j.stack)
      BY <1>16 DEF Taken
    <3> QED
      BY <3>1, CallsBack
  <2> HIDE DEF l
  <2> QED
    BY <2>1, <2>2, PopsResult
<1>17. CASE op \in {"POP_INT", "POP_FLOAT"}
  <2>1. k = IF j.stack = <<>> THEN j ELSE DropItems(Release(j, FirstItem(j)), 1)
    BY <1>17 DEF ProcessInstruction
  <2> QED
    BY <1>1, <2>1, PopsItem
<1>18. CASE op = "SWAP_INT"
  <2>1. k = PushItem(PushItem(DropItems(j, 2), FirstItem(j)), SecondItem(j))
    BY <1>18 DEF ProcessInstruction
  <2>2. Taken(j, instr) = 2
    BY <1>18 DEF Taken
  <2>3. Len(j.stack) >= 2
    BY <1>1, <2>2
  <2> QED
    BY <2>1, <2>3, SwapsItems
<1>19. CASE op = "RTRN"
  <2> DEFINE k1 == ProcessReturn(j, Len(j.stack))
             k2 == CallRoot(k1)
             k3 == AddCode(k2, <<Mach("RET", NoOperand, NoOperand, 0)>>)
  <2>1. k = k3
    BY <1>19 DEF ProcessInstruction
  <2>2. Owns(k1, H)
    <3>1. Len(j.stack) \in 0 .. Len(j.stack)
      BY <1>1
    <3> QED
      BY <3>1, Returns
  <2> HIDE DEF k1
  <2>3. Owns(k2, H)
    BY <2>2, CallsRoot
  <2> HIDE DEF k2
  <2>4. Owns(k3, H)
    BY <2>3, Emits
  <2> QED
    BY <2>1, <2>4
<1>20. CASE op = "JMP"
  <2>1. k = ProcessJump(j, instr)
    BY <1>20 DEF ProcessInstruction
  <2>2. ~(instr.m = "always" /\ ~j.skip_jump) => Len(j.stack) >= 1
    BY <1>1, <1>20 DEF Taken
  <2> QED
    BY <2>1, <2>2, Jumps
<1>21. CASE op = "LBL"
  <2>1. k = Joined(j, instr.n)
    BY <1>21 DEF ProcessInstruction
  <2> QED
    BY <2>1, Joins
<1>22. \/ op \in {"LOAD_INT_LIT", "LOAD_FLOAT_LIT", "LOAD_INST_MEM", "LOAD_INT_VAR", "LOAD_FLOAT_VAR", "STOR_INT_VAR", "STOR_FLOAT_VAR",
                  "COPY_INT_VAR", "COPY_FLOAT_VAR", "F2I", "I2F", "NEW_OBJ_INST", "MTHD_CALL", "POP_INT", "POP_FLOAT", "SWAP_INT",
                  "RTRN", "JMP", "LBL"}
       \/ op \in Calculations \cup FloatCalculations \cup ElementLoads \cup ElementStores \cup NewArrays
  <2> SUFFICES ASSUME ~(\/ op \in {"LOAD_INT_LIT", "LOAD_FLOAT_LIT", "LOAD_INST_MEM", "LOAD_INT_VAR", "LOAD_FLOAT_VAR", "STOR_INT_VAR",
                                   "STOR_FLOAT_VAR", "COPY_INT_VAR", "COPY_FLOAT_VAR", "F2I", "I2F", "NEW_OBJ_INST", "MTHD_CALL",
                                   "POP_INT", "POP_FLOAT", "SWAP_INT", "RTRN", "JMP", "LBL"}
                        \/ op \in Calculations \cup FloatCalculations \cup ElementLoads \cup ElementStores \cup NewArrays)
               PROVE  FALSE
    OBVIOUS
  <2>1. Taken(j, instr) = -1
    BY DEF Taken
  <2> QED
    BY <1>1, <2>1
<1> HIDE DEF k
<1> QED
  BY <1>3, <1>4, <1>5, <1>6, <1>7, <1>8, <1>9, <1>10, <1>11, <1>12, <1>13, <1>14, <1>15, <1>16, <1>17, <1>18, <1>19, <1>20, <1>21, <1>22
     DEF k

-----------------------------------------------------------------------------
(* A translation. *)
LEMMA ConcatDistinct ==
  ASSUME NEW s, NEW t, IsSeq(s), IsSeq(t), IsInjective(s), IsInjective(t), Range(s) \cap Range(t) = {}
  PROVE  IsSeq(s \o t) /\ IsInjective(s \o t) /\ Range(s \o t) = Range(s) \cup Range(t)
<1> DEFINE S == Range(s) \cup Range(t)
           u == s \o t
           M == Len(s)
           N == Len(t)
<1>1. s \in Seq(S) /\ t \in Seq(S) /\ M \in Nat /\ N \in Nat /\ DOMAIN s = 1 .. M /\ DOMAIN t = 1 .. N
  BY DEF IsSeq
<1>2. u \in Seq(S) /\ Len(u) = M + N
  BY <1>1
<1>3. /\ DOMAIN u = 1 .. M + N
      /\ \A n \in 1 .. M : n \in 1 .. M + N /\ u[n] = s[n]
      /\ \A n \in M + 1 .. M + N : n - M \in 1 .. N /\ u[n] = t[n - M]
      /\ \A n \in 1 .. N : n + M \in 1 .. M + N /\ u[n + M] = t[n]
  <2>1. DOMAIN u = 1 .. M + N
    BY <1>1, <1>2
  <2>2. \A n \in 1 .. M : n \in 1 .. M + N /\ u[n] = s[n]
    BY <1>1
  <2>3. \A n \in M + 1 .. M + N : n - M \in 1 .. N /\ u[n] = t[n - M]
    BY <1>1
  <2>4. ASSUME NEW n \in 1 .. N PROVE n + M \in 1 .. M + N /\ u[n + M] = t[n]
    <3>1. n + M \in M + 1 .. M + N /\ (n + M) - M = n /\ n + M \in 1 .. M + N
      BY <1>1
    <3> QED
      BY <2>3, <3>1
  <2> QED
    BY <2>1, <2>2, <2>3, <2>4
<1> HIDE DEF u, M, N
<1>4. \A m \in 1 .. M, n \in 1 .. N : s[m] # t[n]
  <2>1. (\A m \in 1 .. M : s[m] \in Range(s)) /\ (\A n \in 1 .. N : t[n] \in Range(t))
    BY <1>1 DEF Range
  <2> QED
    BY <2>1
<1>5. IsInjective(u)
  <2> SUFFICES ASSUME NEW m \in 1 .. M + N, NEW n \in 1 .. M + N, u[m] = u[n] PROVE m = n
    BY <1>3 DEF IsInjective
  <2>1. CASE m <= M /\ n <= M
    <3>1. m \in 1 .. M /\ n \in 1 .. M
      BY <1>1, <2>1
    <3> QED
      BY <1>1, <1>3, <3>1 DEF IsInjective
  <2>2. CASE m > M /\ n > M
    <3>1. m \in M + 1 .. M + N /\ n \in M + 1 .. M + N
      BY <1>1, <2>2
    <3>2. m - M \in 1 .. N /\ n - M \in 1 .. N /\ t[m - M] = t[n - M]
      BY <1>3, <3>1
    <3>3. m - M = n - M
      BY <1>1, <3>2 DEF IsInjective
    <3> QED
      BY <1>1, <3>3
  <2>3. CASE m <= M /\ n > M
    <3>1. m \in 1 .. M /\ n \in M + 1 .. M + N
      BY <1>1, <2>3
    <3> QED
      BY <1>3, <1>4, <3>1
  <2>4. CASE m > M /\ n <= M
    <3>1. n \in 1 .. M /\ m \in M + 1 .. M + N
      BY <1>1, <2>4
    <3> QED
      BY <1>3, <1>4, <3>1
  <2> QED
    BY <1>1, <2>1, <2>2, <2>3, <2>4
<1>6. Range(u) = Range(s) \cup Range(t)
  <2>1. ASSUME NEW x \in Range(u) PROVE x \in Range(s) \cup Range(t)
    <3>1. PICK n \in 1 .. M + N : x = u[n]
      BY <1>3 DEF Range
    <3>2. n \in 1 .. M \/ n \in M + 1 .. M + N
      BY <1>1
    <3> QED
      BY <1>1, <1>3, <3>1, <3>2 DEF Range
  <2>2. ASSUME NEW x \in Range(s) PROVE x \in Range(u)
    BY <1>1, <1>3, <2>2 DEF Range
  <2>3. ASSUME NEW x \in Range(t) PROVE x \in Range(u)
    <3>1. PICK n \in 1 .. N : x = t[n]
      BY <1>1, <2>3 DEF Range
    <3> QED
      BY <1>3, <3>1 DEF Range
  <2> QED
    BY <2>1, <2>2, <2>3
<1> QED
  BY <1>2, <1>5, <1>6, SequenceOf DEF u

LEMMA Starts ==
  ASSUME NEW instrs, NEW params, NEW sigs
  PROVE  Owns(Prolog(instrs, params, sigs), {})
<1> DEFINE j == Fresh(instrs, params, sigs)
           aval == <<"RBX", "RAX">>
           aux == <<"R15", "R14", "R13", "R11", "R10", "R8">>
<1>1. IsTranslation(j) /\ j.aval = aval /\ j.aux = aux /\ j.xmms = XmmRegs /\ j.stack = <<>>
  BY DEF Fresh, IsTranslation, Parts
<1> HIDE DEF j
<1>2. IsSeq(aval) /\ IsInjective(aval) /\ Range(aval) = {"RBX", "RAX"}
  <2>1. aval \in Seq({"RBX", "RAX"}) /\ DOMAIN aval = 1 .. 2 /\ aval[1] = "RBX" /\ aval[2] = "RAX"
    OBVIOUS
  <2> HIDE DEF aval
  <2> QED
    BY <2>1, SequenceOf DEF IsInjective, Range
<1>3. IsSeq(aux) /\ IsInjective(aux) /\ Range(aux) = {"R15", "R14", "R13", "R11", "R10", "R8"}
  <2>1. /\ aux \in Seq({"R15", "R14", "R13", "R11", "R10", "R8"}) /\ DOMAIN aux = 1 .. 6
        /\ aux[1] = "R15" /\ aux[2] = "R14" /\ aux[3] = "R13" /\ aux[4] = "R11" /\ aux[5] = "R10" /\ aux[6] = "R8"
    OBVIOUS
  <2> HIDE DEF aux
  <2> QED
    BY <2>1, SequenceOf DEF IsInjective, Range
<1>4. IsSeq(XmmRegs) /\ IsInjective(XmmRegs) /\ Range(XmmRegs) = {"XMM15", "XMM14", "XMM13", "XMM12", "XMM11", "XMM10"}
  <2>1. /\ XmmRegs \in Seq({"XMM15", "XMM14", "XMM13", "XMM12", "XMM11", "XMM10"}) /\ DOMAIN XmmRegs = 1 .. 6
        /\ XmmRegs[1] = "XMM15" /\ XmmRegs[2] = "XMM14" /\ XmmRegs[3] = "XMM13"
        /\ XmmRegs[4] = "XMM12" /\ XmmRegs[5] = "XMM11" /\ XmmRegs[6] = "XMM10"
    BY DEF XmmRegs
  <2> QED
    BY <2>1, SequenceOf DEF IsInjective, Range
<1>5. IsSeq(<<>>) /\ Apart(<<>>) /\ StackRegs(<<>>) = {}
  BY DEF IsSeq, Apart, StackRegs
<1>6. Owns(j, {})
  BY <1>1, <1>2, <1>3, <1>4, <1>5 DEF Owns, Free
<1>7. Owns(CallRoot(j), {})
  BY <1>6, CallsRoot
<1> QED
  BY <1>7 DEF Prolog, j

LEMMA Translates ==
  ASSUME NEW j, NEW H, Owns(j, H), Fed(j), Translating(j)
  PROVE  Owns(Translated(j), H)
<1> DEFINE instr == j.instrs[j.index]
<1>1. j.success
  BY DEF Translating
<1>2. CASE j.params > 0
  <2>1. Translated(j) = ProcessParameter(j) /\ instr.m = "LOCL"
    BY <1>2 DEF Translated, Fed
  <2> QED
    BY <2>1, StoresParameter
<1>3. CASE ~(j.params > 0)
  <2> DEFINE index == j.index + 1
             offsets == Append(j.offsets, Len(j.code) + 1)
             k == [j EXCEPT !.index = index, !.offsets = offsets]
  <2>1. Translated(j) = ProcessInstruction(k, instr)
    BY <1>3, Zenon DEF Translated
  <2>2. Taken(j, instr) \in 0 .. Len(j.stack) /\ (instr.op \in ElementLoads \cup ElementStores => instr.n \in Nat \ {0})
    BY <1>3, Zenon DEF Fed
  <2> HIDE DEF instr, index, offsets
  <2>3. Owns(k, H) /\ Keeps(j, k)
    BY Advances
  <2>4. k.success = j.success /\ k.sigs = j.sigs /\ k.skip_jump = j.skip_jump /\ k.stack = j.stack
    BY DEF Owns, IsTranslation, Parts
  <2> HIDE DEF k
  <2>5. Taken(k, instr) = Taken(j, instr)
    BY <2>4, Zenon DEF Taken
  <2>6. Owns(ProcessInstruction(k, instr), H)
    <3>1. Taken(k, instr) \in 0 .. Len(k.stack) /\ k.success
      BY <1>1, <2>2, <2>3, <2>4, <2>5, Zenon
    <3> QED
      BY <2>2, <2>3, <3>1, Instructs
  <2> QED
    BY <2>1, <2>6, Zenon
<1> QED
  BY <1>2, <1>3

-----------------------------------------------------------------------------
(* A translation owns what it is to: the items' registers and the free ones  *)
(* are all different.                                                       *)
Allocated == jit # NoTranslation => Owns(jit, {})

LEMMA AllocatedInductive ==
  Allocated /\ [CompileNext]_jit => Allocated'
<1> SUFFICES ASSUME Allocated, [CompileNext]_jit PROVE Allocated'
  OBVIOUS
<1>1. ASSUME NEW instrs, NEW params, NEW sigs, StartCompiling(instrs, params, sigs) PROVE Allocated'
  BY <1>1, Starts DEF StartCompiling, Allocated
<1>2. CASE Fed(jit) /\ CompileInstruction
  <2>1. Owns(jit, {}) /\ jit' = Translated(jit) /\ Translating(jit)
    BY <1>2 DEF CompileInstruction, Allocated
  <2>2. Owns(Translated(jit), {})
    BY <1>2, <2>1, Translates
  <2> QED
    BY <2>1, <2>2 DEF Allocated
<1>3. CASE StopCompiling
  BY <1>3 DEF StopCompiling, Allocated
<1>4. CASE UNCHANGED jit
  BY <1>4 DEF Allocated
<1> QED
  BY <1>1, <1>2, <1>3, <1>4 DEF CompileNext

LEMMA AllocatedApart ==
  Allocated => NoAlias
<1> SUFFICES ASSUME Owns(jit, {}), jit.success PROVE NoAlias
  BY DEF Allocated, NoAlias
<1> DEFINE general == jit.aval \o jit.aux
           free == general \o jit.xmms
           used == {n \in DOMAIN jit.stack : InReg(jit.stack[n])}
<1>1. Free(jit, StackRegs(jit.stack))
  <2>1. StackRegs(jit.stack) \cup {} = StackRegs(jit.stack)
    OBVIOUS
  <2> QED
    BY <2>1 DEF Owns
<1>2. IsSeq(general) /\ IsInjective(general) /\ Range(general) = Range(jit.aval) \cup Range(jit.aux)
  BY <1>1, ConcatDistinct DEF Free
<1> HIDE DEF general
<1>3. IsSeq(free) /\ IsInjective(free) /\ Range(free) = Range(general) \cup Range(jit.xmms)
  BY <1>1, <1>2, ConcatDistinct DEF Free
<1> HIDE DEF free
<1>4. ASSUME NEW n \in used, NEW r \in DOMAIN free PROVE free[r] # jit.stack[n].v
  <2>1. free[r] \in Range(free)
    BY DEF Range
  <2>2. jit.stack[n].v \in StackRegs(jit.stack)
    BY DEF StackRegs, RegsOf
  <2>3. Range(free) \cap StackRegs(jit.stack) = {}
    BY <1>1, <1>2, <1>3 DEF Free
  <2> QED
    BY <2>1, <2>2, <2>3
<1>5. ASSUME NEW m \in used, NEW n \in used, jit.stack[m].v = jit.stack[n].v PROVE m = n
  <2>1. Apart(jit.stack)
    BY DEF Owns
  <2> QED
    BY <1>5, <2>1 DEF Apart, RegsOf
<1> HIDE DEF used
<1>6. /\ IsInjective(free)
      /\ \A n \in used : \A r \in DOMAIN free : free[r] # jit.stack[n].v
      /\ \A m, n \in used : jit.stack[m].v = jit.stack[n].v => m = n
  BY <1>3, <1>4, <1>5
<1> QED
  BY <1>6 DEF NoAlias, free, general, used

(* No register is both free and in use, free twice, or what two items are   *)
(* in, whatever code the native compiler translates, as long as its         *)
(* instructions find what they take on the stack (GetRegister and           *)
(* ReleaseRegister, jit_amd_lp64.h:825).                                    *)
THEOREM RegistersApart == CompileSpec => []NoAlias
<1>1. jit = NoTranslation => Allocated
  BY DEF Allocated
<1> QED
  BY <1>1, AllocatedInductive, AllocatedApart, PTL DEF CompileSpec
=============================================================================
