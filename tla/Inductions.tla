----------------------------- MODULE Inductions -----------------------------
(***************************************************************************)
(* Induction over the natural numbers and recursion, stated with sets and   *)
(* functions where the library's theorems take operators; and what joining   *)
(* a sequence of sequences makes of it.                                      *)
(***************************************************************************)
EXTENDS Integers, SequencesExt, FiniteSets, FiniteSetTheorems, WellFoundedInduction, TLAPS

(* A set of natural numbers that is not empty has a least element: what     *)
(* fails for some number fails first for one.                              *)
LEMMA LeastNatural ==
  ASSUME NEW T \in SUBSET Nat, T # {}
  PROVE  \E n \in T : \A m \in T : n <= m
<1> DEFINE R == OpToRel(<, Nat)
<1>1. IsWellFoundedOn(R, Nat)
  BY NatLessThanWellFounded
<1>2. \A x, y \in Nat : y < x => <<y, x>> \in R
  BY DEF OpToRel
<1> HIDE DEF R
<1>3. PICK n \in T : \A m \in T : ~ (<<m, n>> \in R)
  BY <1>1, WFMin
<1>4. ASSUME NEW m \in T PROVE n <= m
  <2>1. n \in Nat /\ m \in Nat
    OBVIOUS
  <2>2. ~ (m < n)
    BY <1>2, <1>3, <2>1
  <2> QED
    BY <2>1, <2>2
<1> QED
  BY <1>3, <1>4

(* What holds of 0 and goes over from each number to the next holds up to n. *)
LEMMA UpTo ==
  ASSUME NEW n \in Nat, NEW H \in SUBSET (0 .. n), 0 \in H,
         \A i \in 1 .. n : i - 1 \in H => i \in H
  PROVE  H = 0 .. n
<1> DEFINE T == {i \in 0 .. n : i \notin H}
<1>1. SUFFICES ASSUME T # {} PROVE FALSE
  OBVIOUS
<1>2. T \in SUBSET Nat
  OBVIOUS
<1>3. PICK i \in T : \A j \in T : i <= j
  BY <1>1, <1>2, LeastNatural
<1>4. i \in 1 .. n /\ i - 1 \in 0 .. n
  OBVIOUS
<1>5. i - 1 \notin T
  BY <1>3, <1>4
<1> QED
  BY <1>4, <1>5

(* A function on 0 .. n is defined by its value at 0 and a step from each   *)
(* number to the next.                                                     *)
LEMMA Recursion ==
  ASSUME NEW S, NEW c \in S, NEW n \in Nat, NEW step \in [S \X (1 .. n) -> S]
  PROVE  \E g \in [0 .. n -> S] : g[0] = c /\ \A i \in 1 .. n : g[i] = step[<<g[i - 1], i>>]
<1> DEFINE Good(m) == \E g \in [0 .. m -> S] : g[0] = c /\ \A i \in 1 .. m : g[i] = step[<<g[i - 1], i>>]
           H == {m \in 0 .. n : Good(m)}
<1>1. 0 \in H
  <2>1. [i \in 0 .. 0 |-> c] \in [0 .. 0 -> S] /\ [i \in 0 .. 0 |-> c][0] = c
    OBVIOUS
  <2>2. Good(0)
    <3> DEFINE z == [i \in 0 .. 0 |-> c]
    <3>1. \A i \in 1 .. 0 : z[i] = step[<<z[i - 1], i>>]
      OBVIOUS
    <3> HIDE DEF z
    <3> QED
      BY <2>1, <3>1 DEF z
  <2> QED
    BY <2>2
<1>2. ASSUME NEW m \in 1 .. n, m - 1 \in H PROVE m \in H
  <2>1. PICK g \in [0 .. m - 1 -> S] : g[0] = c /\ \A i \in 1 .. m - 1 : g[i] = step[<<g[i - 1], i>>]
    BY <1>2
  <2> DEFINE h == [i \in 0 .. m |-> IF i < m THEN g[i] ELSE step[<<g[m - 1], m>>]]
  <2>2. step[<<g[m - 1], m>>] \in S
    OBVIOUS
  <2>3. h \in [0 .. m -> S] /\ h[0] = c
    BY <2>1, <2>2
  <2>4. \A i \in 1 .. m : h[i] = step[<<h[i - 1], i>>]
    BY <2>1
  <2>5. Good(m)
    <3> HIDE DEF h
    <3> QED BY <2>3, <2>4
  <2> QED
    BY <2>5
<1>3. H = 0 .. n
  <2> HIDE DEF Good
  <2>1. H \in SUBSET (0 .. n)
    OBVIOUS
  <2>2. \A m \in 1 .. n : m - 1 \in H => m \in H
    BY <1>2
  <2> HIDE DEF H
  <2> QED
    BY <1>1, <2>1, <2>2, UpTo
<1>4. n \in H
  <2> HIDE DEF H
  <2> QED
    BY <1>3
<1> QED
  BY <1>4

-----------------------------------------------------------------------------
(* What FlattenSeq makes of a sequence that is one longer.                 *)
LEMMA Flattened ==
  ASSUME NEW A, NEW s, s \in Seq(Seq(A)), s # <<>>
  PROVE  \E f \in [1 .. Len(s) -> Seq(A)] :
           /\ f[1] = s[1] /\ \A i \in 2 .. Len(s) : f[i] = f[i - 1] \o s[i]
           /\ FlattenSeq(s) = f[Len(s)]
<1> DEFINE n == Len(s)
           F(f) == [i \in 1 .. n |-> IF i = 1 THEN s[i] ELSE f[i - 1] \o s[i]]
           step == [w \in Seq(A) \X (1 .. n) |-> IF w[2] = 1 THEN s[1] ELSE w[1] \o s[w[2]]]
<1>1. n \in Nat \ {0} /\ \A i \in 1 .. n : s[i] \in Seq(A)
  OBVIOUS
<1>2. \A v, w \in Seq(A) : v \o w \in Seq(A)
  OBVIOUS
<1>3. step \in [Seq(A) \X (1 .. n) -> Seq(A)]
  <2> HIDE DEF n
  <2> QED
    BY <1>1, <1>2
<1>4. PICK g \in [0 .. n -> Seq(A)] : \A i \in 1 .. n : g[i] = step[<<g[i - 1], i>>]
  <2> DEFINE V == Seq(A)
             c == <<>>
  <2>1. n \in Nat /\ c \in V /\ step \in [V \X (1 .. n) -> V]
    BY <1>1, <1>3
  <2> HIDE DEF step, n, V, c, F
  <2>2. \E g \in [0 .. n -> V] : g[0] = c /\ \A i \in 1 .. n : g[i] = step[<<g[i - 1], i>>]
    BY ONLY <2>1, Recursion
  <2> QED
    BY <2>2 DEF V, c
<1> DEFINE h == [i \in 1 .. n |-> g[i]]
<1>5. h = F(h)
  <2>1. ASSUME NEW i \in 1 .. n PROVE h[i] = IF i = 1 THEN s[i] ELSE h[i - 1] \o s[i]
    <3> HIDE DEF n
    <3>1. i - 1 \in 0 .. n /\ g[i - 1] \in Seq(A) /\ i \in Int /\ (i # 1 => i - 1 \in 1 .. n)
      BY <1>1, <1>4
    <3>2. g[i] = IF i = 1 THEN s[1] ELSE g[i - 1] \o s[i]
      BY <1>4, <3>1
    <3> QED
      BY <3>1, <3>2
  <2> HIDE DEF n
  <2> QED
    BY <2>1
<1> DEFINE f == CHOOSE q : q = F(q)
<1>6. f = F(f)
  <2> HIDE DEF F, h
  <2> QED
    BY <1>5
<1>7. FlattenSeq(s) = f[n]
  BY <1>1 DEF FlattenSeq
<1>8. /\ f[1] = s[1] /\ \A i \in 2 .. n : f[i] = f[i - 1] \o s[i]
      /\ DOMAIN f = 1 .. n
  <2> HIDE DEF f, n, step, h
  <2>1. \A i \in 1 .. n : F(f)[i] = IF i = 1 THEN s[i] ELSE f[i - 1] \o s[i]
    OBVIOUS
  <2>2. DOMAIN F(f) = 1 .. n
    OBVIOUS
  <2> HIDE DEF F
  <2>3. \A i \in 1 .. n : f[i] = IF i = 1 THEN s[i] ELSE f[i - 1] \o s[i]
    BY <1>6, <2>1
  <2>4. DOMAIN f = 1 .. n
    BY <1>6, <2>2
  <2>5. 1 \in 1 .. n /\ \A i \in 2 .. n : i \in 1 .. n /\ i # 1
    BY <1>1
  <2> QED
    BY <2>3, <2>4, <2>5
<1> HIDE DEF f, F, step, h
<1>9. \A i \in 1 .. n : f[i] \in Seq(A)
  <2> DEFINE H == {i \in 0 .. n : i = 0 \/ f[i] \in Seq(A)}
  <2>1. n \in Nat /\ H \in SUBSET (0 .. n) /\ 0 \in H
    BY <1>1
  <2>2. ASSUME NEW i \in 1 .. n, i - 1 \in H PROVE i \in H
    <3> HIDE DEF n
    <3>0. i \in 0 .. n
      BY <1>1
    <3>1. CASE i = 1
      BY <1>1, <1>8, <3>0, <3>1
    <3>2. CASE i # 1
      <4>1. i \in 2 .. n /\ f[i - 1] \in Seq(A) /\ s[i] \in Seq(A)
        BY <1>1, <2>2, <3>2
      <4>2. f[i] \in Seq(A)
        BY <1>2, <1>8, <4>1
      <4> QED
        BY <3>0, <4>2
    <3> QED
      BY <3>1, <3>2
  <2>3. H = 0 .. n
    <3> HIDE DEF H, n
    <3> QED
      BY <2>1, <2>2, UpTo
  <2>4. \A i \in 1 .. n : i \in H /\ i # 0
    <3> HIDE DEF n, H
    <3> QED
      BY <1>1, <2>3
  <2> HIDE DEF n
  <2> QED
    BY <2>4
<1>10. f \in [1 .. n -> Seq(A)]
  <2> HIDE DEF n
  <2>1. F(f) = [i \in 1 .. n |-> F(f)[i]]
    BY DEF F
  <2>2. f = [i \in 1 .. n |-> f[i]]
    BY <1>6, <2>1
  <2> QED
    BY <1>9, <2>2
<1> QED
  BY <1>7, <1>8, <1>10

LEMMA FlattenedOnce ==
  ASSUME NEW A, NEW s \in Seq(Seq(A)), NEW p \in Seq(A)
  PROVE  /\ FlattenSeq(s) \in Seq(A) /\ FlattenSeq(Append(s, p)) = FlattenSeq(s) \o p
         /\ FlattenSeq(<<>>) = <<>>
<1> DEFINE a == Append(s, p)
           n == Len(s)
<1>1. FlattenSeq(<<>>) = <<>>
  BY DEF FlattenSeq
<1>2. /\ a \in Seq(Seq(A)) /\ Len(a) = n + 1 /\ n \in Nat
      /\ \A i \in 1 .. n : a[i] = s[i]
      /\ a[n + 1] = p
  OBVIOUS
<1>3. a # <<>>
  <2> HIDE DEF a
  <2> QED
    BY <1>2
<1>4. PICK g \in [1 .. n + 1 -> Seq(A)] :
        /\ g[1] = a[1] /\ \A i \in 2 .. n + 1 : g[i] = g[i - 1] \o a[i]
        /\ FlattenSeq(a) = g[n + 1]
  <2> HIDE DEF a
  <2>1. a \in Seq(Seq(A)) /\ a # <<>> /\ Len(a) = n + 1
    BY <1>2, <1>3
  <2>2. \E g \in [1 .. Len(a) -> Seq(A)] :
           /\ g[1] = a[1] /\ \A i \in 2 .. Len(a) : g[i] = g[i - 1] \o a[i]
           /\ FlattenSeq(a) = g[Len(a)]
    BY ONLY <2>1, Flattened
  <2> QED
    BY <2>1, <2>2
<1>5. CASE s = <<>>
  <2>1. n = 0 /\ FlattenSeq(s) = <<>>
    BY <1>1, <1>5
  <2>2. FlattenSeq(a) = p
    <3> HIDE DEF a
    <3> QED
      BY <1>2, <1>4, <2>1
  <2> QED
    BY <1>1, <2>1, <2>2
<1>6. CASE s # <<>>
  <2>1. PICK f \in [1 .. n -> Seq(A)] :
          /\ f[1] = s[1] /\ \A i \in 2 .. n : f[i] = f[i - 1] \o s[i]
          /\ FlattenSeq(s) = f[n]
    BY <1>6, Flattened
  <2>2. n \in Nat \ {0}
    BY <1>6
  <2> DEFINE H == {i \in 0 .. n : i = 0 \/ f[i] = g[i]}
  <2>3. n \in Nat /\ H \in SUBSET (0 .. n) /\ 0 \in H
    BY <2>2
  <2>4. ASSUME NEW i \in 1 .. n, i - 1 \in H PROVE i \in H
    <3> HIDE DEF a, n
    <3>0. i \in 0 .. n /\ a[i] = s[i]
      BY <1>2
    <3>1. CASE i = 1
      BY <1>4, <2>1, <3>0, <3>1
    <3>2. CASE i # 1
      <4>1. i \in 2 .. n /\ i \in 2 .. n + 1 /\ f[i - 1] = g[i - 1]
        BY <1>2, <2>4, <3>2
      <4>2. f[i] = g[i]
        BY <1>4, <2>1, <3>0, <4>1
      <4> QED
        BY <3>0, <4>2
    <3> QED
      BY <3>1, <3>2
  <2>5. H = 0 .. n
    <3> HIDE DEF H, n
    <3> QED
      BY <2>3, <2>4, UpTo
  <2>6. f[n] = g[n]
    <3>1. n \in H /\ n # 0
      <4> HIDE DEF H, n
      <4> QED
        BY <2>2, <2>5
    <3> QED
      BY <3>1
  <2>7. g[n + 1] = g[n] \o p
    <3> HIDE DEF a, n
    <3>1. n + 1 \in 2 .. n + 1 /\ (n + 1) - 1 = n
      BY <2>2
    <3> QED
      BY <1>2, <1>4, <3>1
  <2>8. f[n] \in Seq(A)
    <3> HIDE DEF n
    <3> QED
      BY <2>1, <2>2
  <2> HIDE DEF a, n
  <2> QED
    BY <1>1, <1>4, <2>1, <2>6, <2>7, <2>8 DEF a
<1> QED
  BY <1>5, <1>6
====
