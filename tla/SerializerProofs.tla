-------------------------- MODULE SerializerProofs --------------------------
(***************************************************************************)
(* The Serializer: the numbers tell objects apart, for every memory and     *)
(* every program; and reads keep in step with writes.                      *)
(***************************************************************************)
EXTENDS Serializer, SequenceTheorems, Inductions

-----------------------------------------------------------------------------
(* Texts: sequences of whatever. *)
IsText(s) == \E S : s \in Seq(S)
IsTexts(s) == \E S : s \in Seq(Seq(S))

LEMMA TextIs ==
  ASSUME NEW s, IsText(s)
  PROVE  Len(s) \in Nat /\ DOMAIN s = 1 .. Len(s) /\ s = [i \in 1 .. Len(s) |-> s[i]]
BY DEF IsText

LEMMA TextOf ==
  ASSUME NEW s, NEW n \in Nat, s = [i \in 1 .. n |-> s[i]]
  PROVE  IsText(s) /\ Len(s) = n
<1> DEFINE S == {s[i] : i \in 1 .. n}
           f == [i \in 1 .. n |-> s[i]]
<1>1. f \in [1 .. n -> S] /\ s = f
  OBVIOUS
<1> HIDE DEF f
<1> HIDE DEF S
<1>2. s \in Seq(S) /\ Len(s) = n
  BY <1>1
<1> QED
  BY <1>2 DEF IsText

LEMMA Joined ==
  ASSUME NEW s, NEW t, IsText(s), IsText(t)
  PROVE  /\ IsText(s \o t) /\ Len(s \o t) = Len(s) + Len(t)
         /\ \A i \in 1 .. Len(s) : (s \o t)[i] = s[i]
         /\ \A i \in 1 .. Len(t) : (s \o t)[Len(s) + i] = t[i]
<1>1. PICK S : s \in Seq(S)
  BY DEF IsText
<1>2. PICK T : t \in Seq(T)
  BY DEF IsText
<1> DEFINE U == S \cup T
<1>3. s \in Seq(U) /\ t \in Seq(U)
  BY <1>1, <1>2
<1> HIDE DEF U
<1>4. s \o t \in Seq(U) /\ Len(s \o t) = Len(s) + Len(t) /\ Len(s) \in Nat /\ Len(t) \in Nat
  BY <1>3
<1>5. \A i \in 1 .. Len(s) + Len(t) : (s \o t)[i] = IF i <= Len(s) THEN s[i] ELSE t[i - Len(s)]
  BY <1>3, ConcatProperties
<1> QED
  BY <1>4, <1>5 DEF IsText

LEMMA JoinedLength ==
  ASSUME NEW s, NEW t, IsText(s), IsText(t)
  PROVE  IsText(s \o t) /\ Len(s \o t) = Len(s) + Len(t)
BY Joined

LEMMA JoinedTwice ==
  \A s, t, u : IsText(s) /\ IsText(t) /\ IsText(u) => (s \o t) \o u = s \o (t \o u)
<1> SUFFICES ASSUME NEW s, NEW t, NEW u, IsText(s), IsText(t), IsText(u)
             PROVE  (s \o t) \o u = s \o (t \o u)
  OBVIOUS
<1>1. PICK S : s \in Seq(S)
  BY DEF IsText
<1>2. PICK T : t \in Seq(T)
  BY DEF IsText
<1>3. PICK U : u \in Seq(U)
  BY DEF IsText
<1> DEFINE V == S \cup T \cup U
<1>4. s \in Seq(V) /\ t \in Seq(V) /\ u \in Seq(V)
  BY <1>1, <1>2, <1>3
<1> HIDE DEF V
<1> QED
  BY <1>4, ConcatAssociative

(* The same of an operator the provers know nothing else of.                *)
Cat(s, t) == s \o t

LEMMA CatTwice ==
  ASSUME NEW s, NEW t, NEW u, IsText(s), IsText(t), IsText(u)
  PROVE  Cat(Cat(s, t), u) = Cat(s, Cat(t, u)) /\ IsText(Cat(s, t)) /\ IsText(Cat(t, u))
<1>1. (s \o t) \o u = s \o (t \o u)
  BY JoinedTwice, SMTT(20)
<1>2. IsText(s \o t) /\ IsText(t \o u)
  BY JoinedLength
<1> QED
  BY <1>1, <1>2 DEF Cat

LEMMA CatThrice ==
  ASSUME NEW s, NEW t, NEW u, NEW w, IsText(s), IsText(t), IsText(u), IsText(w)
  PROVE  Cat(Cat(Cat(s, t), u), w) = Cat(s, Cat(t, Cat(u, w)))
<1>1. IsText(Cat(s, t)) /\ IsText(Cat(u, w))
  BY CatTwice
<1>2. Cat(Cat(Cat(s, t), u), w) = Cat(Cat(s, t), Cat(u, w))
  BY <1>1, CatTwice
<1>3. Cat(Cat(s, t), Cat(u, w)) = Cat(s, Cat(t, Cat(u, w)))
  BY <1>1, CatTwice
<1> QED
  BY <1>2, <1>3

LEMMA EmptyText ==
  /\ IsText(<<>>) /\ Len(<<>>) = 0
  /\ \A s : IsText(s) => (Len(s) = 0 <=> s = <<>>) /\ s \o <<>> = s /\ <<>> \o s = s
<1>1. IsText(<<>>) /\ Len(<<>>) = 0
  <2>1. <<>> \in Seq({})
    OBVIOUS
  <2> QED
    BY <2>1 DEF IsText
<1>2. ASSUME NEW s, IsText(s) PROVE (Len(s) = 0 <=> s = <<>>) /\ s \o <<>> = s /\ <<>> \o s = s
  <2>1. PICK S : s \in Seq(S)
    BY <1>2 DEF IsText
  <2> QED
    BY <2>1, ConcatEmptySeq
<1> QED
  BY <1>1, <1>2

LEMMA ManyTexts ==
  ASSUME NEW s, IsText(s), \A i \in 1 .. Len(s) : IsText(s[i])
  PROVE  IsTexts(s)
<1>1. PICK S : s \in Seq(S)
  BY DEF IsText
<1> DEFINE E(i) == CHOOSE T : s[i] \in Seq(T)
           U == UNION {E(i) : i \in 1 .. Len(s)}
<1>2. Len(s) \in Nat
  BY <1>1
<1>3. \A i \in 1 .. Len(s) : s[i] \in Seq(U)
  <2> SUFFICES ASSUME NEW i \in 1 .. Len(s) PROVE s[i] \in Seq(U)
    OBVIOUS
  <2>1. PICK T : s[i] \in Seq(T)
    BY DEF IsText
  <2>2. s[i] \in Seq(E(i))
    BY <2>1
  <2>3. E(i) \subseteq U
    OBVIOUS
  <2> HIDE DEF E, U
  <2> QED
    BY <2>2, <2>3
<1> HIDE DEF U
<1>4. s \in Seq(Seq(U))
  BY <1>1, <1>3
<1> QED
  BY <1>4 DEF IsTexts

(* What FlattenSeq makes of a sequence of texts. *)
LEMMA FlattenedText ==
  ASSUME NEW s, IsTexts(s)
  PROVE  IsText(FlattenSeq(s)) /\ IsText(s) /\ \A i \in 1 .. Len(s) : IsText(s[i])
<1>1. PICK S : s \in Seq(Seq(S))
  BY DEF IsTexts
<1>2. FlattenSeq(s) \in Seq(S)
  <2>1. <<>> \in Seq(S)
    OBVIOUS
  <2> QED
    BY <1>1, <2>1, FlattenedOnce
<1>3. \A i \in 1 .. Len(s) : s[i] \in Seq(S)
  BY <1>1
<1> QED
  BY <1>1, <1>2, <1>3 DEF IsText

LEMMA FlattenedNone == FlattenSeq(<<>>) = <<>>
<1>1. <<>> \in Seq(Seq({})) /\ <<>> \in Seq({})
  OBVIOUS
<1> QED
  BY <1>1, FlattenedOnce

LEMMA FlattenedFirst ==
  ASSUME NEW x, IsText(x), NEW s, IsTexts(s)
  PROVE  IsTexts(<<x>> \o s) /\ FlattenSeq(<<x>> \o s) = x \o FlattenSeq(s)
<1>1. PICK S : s \in Seq(Seq(S))
  BY DEF IsTexts
<1>2. PICK T : x \in Seq(T)
  BY DEF IsText
<1> DEFINE A == S \cup T
           n == Len(s)
           part(k) == SubSeq(s, 1, k)
           H == {k \in 0 .. n : FlattenSeq(<<x>> \o part(k)) = x \o FlattenSeq(part(k))}
<1>3. s \in Seq(Seq(A)) /\ x \in Seq(A)
  <2>1. Seq(S) \subseteq Seq(A)
    OBVIOUS
  <2> HIDE DEF A
  <2>2. s \in Seq(Seq(A))
    BY <1>1, <2>1
  <2> QED
    BY <1>2, <2>2 DEF A
<1> HIDE DEF A
<1>4. n \in Nat
  BY <1>3
<1>5. \A k \in 0 .. n : part(k) \in Seq(Seq(A)) /\ Len(part(k)) = k
  BY <1>3, SubSeqProperties
<1>6. 0 \in H
  <2>1. part(0) = <<>>
    BY <1>4, <1>5
  <2>2. <<x>> = Append(<<>>, x) /\ <<>> \in Seq(Seq(A))
    BY <1>3
  <2>3. FlattenSeq(<<x>>) = FlattenSeq(<<>>) \o x
    BY <1>3, <2>2, FlattenedOnce
  <2>4. <<>> \o x = x /\ x \o <<>> = x /\ <<x>> \o <<>> = <<x>>
    BY <1>3, ConcatEmptySeq
  <2>5. FlattenSeq(<<x>>) = x
    BY <2>3, <2>4, FlattenedNone
  <2>6. FlattenSeq(<<x>> \o part(0)) = x \o FlattenSeq(part(0))
    BY <2>1, <2>4, <2>5, FlattenedNone
  <2> QED
    BY <1>4, <2>6
<1>7. ASSUME NEW k \in 1 .. n, k - 1 \in H PROVE k \in H
  <2>1. k - 1 \in 0 .. n /\ k \in 0 .. n
    BY <1>4
  <2>2. part(k) = Append(part(k - 1), s[k])
    BY <1>3, <2>1, SubSeqRecursiveSecond
  <2>3. s[k] \in Seq(A) /\ part(k - 1) \in Seq(Seq(A))
    BY <1>3, <1>5, <2>1
  <2>4. <<x>> \o Append(part(k - 1), s[k]) = Append(<<x>> \o part(k - 1), s[k])
    <3> DEFINE u == part(k - 1)
    <3> HIDE DEF u
    <3> QED
      BY <1>3, <2>3
  <2>5. <<x>> \o part(k - 1) \in Seq(Seq(A))
    BY <1>3, <2>3
  <2> DEFINE u == part(k - 1)
             v == <<x>> \o u
             e == s[k]
  <2>6. FlattenSeq(v) = x \o FlattenSeq(u)
    BY <1>7
  <2> HIDE DEF u, v, e
  <2>7. u \in Seq(Seq(A)) /\ v \in Seq(Seq(A)) /\ e \in Seq(A)
    BY <2>3, <2>5 DEF u, v, e
  <2>8. FlattenSeq(Append(v, e)) = FlattenSeq(v) \o e /\ FlattenSeq(Append(u, e)) = FlattenSeq(u) \o e /\ FlattenSeq(u) \in Seq(A)
    BY <2>7, FlattenedOnce
  <2>9. (x \o FlattenSeq(u)) \o e = x \o (FlattenSeq(u) \o e)
    <3>1. \A a, b, c \in Seq(A) : (a \o b) \o c = a \o (b \o c)
      BY ConcatAssociative
    <3> QED
      BY <1>3, <2>7, <2>8, <3>1
  <2> QED
    BY <2>1, <2>2, <2>4, <2>6, <2>8, <2>9 DEF u, v, e
<1> HIDE DEF H
<1>8. H = 0 .. n
  <2>1. H \in SUBSET (0 .. n)
    BY DEF H
  <2> HIDE DEF n
  <2> QED
    BY <1>4, <1>6, <1>7, <2>1, UpTo
<1>9. FlattenSeq(<<x>> \o part(n)) = x \o FlattenSeq(part(n))
  <2>1. n \in H
    BY <1>4, <1>8
  <2> QED
    BY <2>1 DEF H
<1>10. part(n) = s
  BY <1>3, SubSeqFull
<1>11. <<x>> \o s \in Seq(Seq(A))
  BY <1>3
<1> QED
  BY <1>9, <1>10, <1>11 DEF IsTexts

-----------------------------------------------------------------------------
(* What lies at a place of the bytes: an INT_VALUE that keeps its value, a  *)
(* byte; and two stretches of the same bytes.                              *)
Holds(s, k, n) == Fits(n) /\ k + IntBytes <= Len(s) /\ Part(s, k, IntBytes) = SerializeInt(n)
ByteIs(s, k, b) == k + 1 <= Len(s) /\ s[k + 1] = b
Alike(s, k, t, l, n) == k + n <= Len(s) /\ l + n <= Len(t) /\ \A i \in 1 .. n : s[k + i] = t[l + i]

LEMMA Widths == IntBytes \in Nat \ {0} /\ LongBytes \in Nat \ {0} /\ FloatBytes \in Nat \ {0}
BY SizesAssumption

LEMMA EncodeText ==
  ASSUME NEW n, NEW width \in Nat
  PROVE  IsText(Encode(n, width)) /\ Len(Encode(n, width)) = width
<1> DEFINE f == Encode(n, width)
<1>1. f = [i \in 1 .. width |-> f[i]]
  BY DEF Encode
<1> HIDE DEF f
<1> QED
  BY <1>1, TextOf DEF f

LEMMA IntText ==
  ASSUME NEW n
  PROVE  IsText(SerializeInt(n)) /\ Len(SerializeInt(n)) = IntBytes
BY EncodeText, Widths DEF SerializeInt

LEMMA ByteText ==
  ASSUME NEW b
  PROVE  IsText(SerializeByte(b)) /\ Len(SerializeByte(b)) = 1 /\ SerializeByte(b)[1] = b
<1>1. <<b>> \in Seq({b})
  OBVIOUS
<1> QED
  BY <1>1 DEF SerializeByte, IsText

LEMMA PartText ==
  ASSUME NEW s, NEW k, NEW n \in Nat
  PROVE  IsText(Part(s, k, n)) /\ Len(Part(s, k, n)) = n
<1> DEFINE f == Part(s, k, n)
<1>1. f = [i \in 1 .. n |-> f[i]]
  BY DEF Part
<1> HIDE DEF f
<1> QED
  BY <1>1, TextOf DEF f

LEMMA HoldsAlike ==
  ASSUME NEW s, NEW t, IsText(s), IsText(t), NEW k \in Nat, NEW l \in Nat, NEW m \in Nat, Alike(s, k, t, l, m),
         NEW i \in Nat, i + IntBytes <= m, NEW n, Holds(s, k + i, n)
  PROVE  Holds(t, l + i, n)
<1>1. /\ Len(s) \in Nat /\ Len(t) \in Nat /\ DOMAIN s = 1 .. Len(s) /\ DOMAIN t = 1 .. Len(t) /\ IntBytes \in Nat
      /\ k + m <= Len(s) /\ l + m <= Len(t)
  BY TextIs, Widths DEF Alike
<1>2. ASSUME NEW j \in 1 .. IntBytes
      PROVE  (k + i) + j \in DOMAIN s /\ (l + i) + j \in DOMAIN t /\ s[(k + i) + j] = t[(l + i) + j]
  <2>1. i + j \in 1 .. m /\ (k + i) + j = k + (i + j) /\ (l + i) + j = l + (i + j)
    BY <1>1
  <2> QED
    BY <1>1, <2>1 DEF Alike
<1>3. Part(s, k + i, IntBytes) = Part(t, l + i, IntBytes)
  BY <1>2 DEF Part
<1> QED
  BY <1>1, <1>3 DEF Holds

LEMMA ByteAlike ==
  ASSUME NEW s, NEW t, IsText(s), IsText(t), NEW k \in Nat, NEW l \in Nat, NEW m \in Nat, Alike(s, k, t, l, m),
         NEW i \in Nat, i + 1 <= m, NEW b, ByteIs(s, k + i, b)
  PROVE  ByteIs(t, l + i, b)
<1>1. Len(s) \in Nat /\ Len(t) \in Nat
  BY TextIs
<1>2. i + 1 \in 1 .. m /\ (k + i) + 1 = k + (i + 1) /\ (l + i) + 1 = l + (i + 1)
  OBVIOUS
<1>3. s[(k + i) + 1] = b /\ s[k + (i + 1)] = t[l + (i + 1)]
  BY <1>2 DEF ByteIs, Alike
<1>4. (l + i) + 1 <= Len(t)
  BY <1>1, <1>2 DEF Alike
<1> QED
  BY <1>2, <1>3, <1>4 DEF ByteIs

LEMMA FewerAlike ==
  ASSUME NEW s, NEW t, IsText(s), IsText(t), NEW k \in Nat, NEW l \in Nat, NEW m \in Nat, Alike(s, k, t, l, m),
         NEW n \in 0 .. m
  PROVE  Alike(s, k, t, l, n)
<1>1. Len(s) \in Nat /\ Len(t) \in Nat
  BY TextIs
<1>2. n \in Nat /\ n <= m /\ \A i \in 1 .. n : i \in 1 .. m
  OBVIOUS
<1>3. k + m <= Len(s) /\ l + m <= Len(t) /\ \A i \in 1 .. m : s[k + i] = t[l + i]
  BY DEF Alike
<1>4. k + n <= Len(s) /\ l + n <= Len(t)
  BY <1>1, <1>2, <1>3
<1> QED
  BY <1>2, <1>3, <1>4 DEF Alike

(* A text and a longer one that begins with it. *)
LEMMA LongerAlike ==
  ASSUME NEW s, NEW t, IsText(s), IsText(t), NEW k \in Nat, NEW n \in Nat, k + n <= Len(s)
  PROVE  Alike(s, k, s \o t, k, n)
<1>1. Len(s) \in Nat /\ Len(t) \in Nat /\ Len(s \o t) = Len(s) + Len(t) /\ \A i \in 1 .. Len(s) : (s \o t)[i] = s[i]
  BY Joined, TextIs
<1>2. \A i \in 1 .. n : k + i \in 1 .. Len(s)
  BY <1>1
<1> QED
  BY <1>1, <1>2 DEF Alike

(* A text and one that ends with it. *)
LEMMA LaterAlike ==
  ASSUME NEW s, NEW t, IsText(s), IsText(t)
  PROVE  Alike(t, 0, s \o t, Len(s), Len(t))
<1>1. Len(s) \in Nat /\ Len(t) \in Nat /\ Len(s \o t) = Len(s) + Len(t) /\ \A i \in 1 .. Len(t) : (s \o t)[Len(s) + i] = t[i]
  BY Joined, TextIs
<1> QED
  BY <1>1 DEF Alike

LEMMA HoldsNow ==
  ASSUME NEW s, IsText(s), NEW n, Fits(n)
  PROVE  Holds(s \o SerializeInt(n), Len(s), n)
<1> DEFINE e == SerializeInt(n)
<1>1. IsText(e) /\ Len(e) = IntBytes /\ Len(s) \in Nat /\ IntBytes \in Nat
  BY IntText, TextIs, Widths
<1>2. e = [i \in 1 .. IntBytes |-> e[i]]
  BY <1>1, TextIs
<1> HIDE DEF e
<1>3. IsText(s \o e) /\ Len(s \o e) = Len(s) + IntBytes /\ \A i \in 1 .. IntBytes : (s \o e)[Len(s) + i] = e[i]
  BY <1>1, Joined
<1>4. DOMAIN (s \o e) = 1 .. Len(s) + IntBytes
  BY <1>3, TextIs
<1>5. \A i \in 1 .. IntBytes : Len(s) + i \in DOMAIN (s \o e)
  BY <1>1, <1>4
<1>6. Part(s \o e, Len(s), IntBytes) = e
  BY <1>2, <1>3, <1>5 DEF Part
<1> QED
  BY <1>1, <1>3, <1>6 DEF Holds, e

LEMMA ByteNow ==
  ASSUME NEW s, IsText(s), NEW b
  PROVE  ByteIs(s \o SerializeByte(b), Len(s), b)
<1>1. /\ Len(s \o SerializeByte(b)) = Len(s) + 1 /\ Len(s) \in Nat
      /\ \A i \in 1 .. 1 : (s \o SerializeByte(b))[Len(s) + i] = SerializeByte(b)[i]
      /\ SerializeByte(b)[1] = b
  BY ByteText, Joined, TextIs
<1> QED
  BY <1>1 DEF ByteIs

LEMMA HoldsOn ==
  ASSUME NEW s, NEW t, IsText(s), IsText(t), NEW k \in Nat, NEW n, Holds(s, k, n)
  PROVE  Holds(s \o t, k, n)
<1>1. Alike(s, k, s \o t, k, IntBytes) /\ IsText(s \o t) /\ IntBytes \in Nat
  BY LongerAlike, Joined, Widths DEF Holds
<1>2. k = k + 0
  OBVIOUS
<1> QED
  BY <1>1, <1>2, HoldsAlike

LEMMA ByteOn ==
  ASSUME NEW s, NEW t, IsText(s), IsText(t), NEW k \in Nat, NEW b, ByteIs(s, k, b)
  PROVE  ByteIs(s \o t, k, b)
<1>1. Alike(s, k, s \o t, k, 1) /\ IsText(s \o t)
  BY LongerAlike, Joined DEF ByteIs
<1>2. k = k + 0 /\ 0 + 1 <= 1 /\ 0 \in Nat /\ 1 \in Nat
  OBVIOUS
<1>3. ByteIs(s, k + 0, b)
  BY <1>2
<1>4. ByteIs(s \o t, k + 0, b)
  BY <1>1, <1>2, <1>3, ByteAlike
<1> QED
  BY <1>2, <1>4

-----------------------------------------------------------------------------
(* What is written of a graph, as one who reads it can tell: [stack, next,  *)
(* pos], the objects under way with the field each is at, the last number   *)
(* given, and how many bytes there are.  Which objects they are does not    *)
(* matter.                                                                 *)
State(stack, next, pos) == [stack |-> stack, next |-> next, pos |-> pos]
IsState(a) == a = State(a.stack, a.next, a.pos) /\ IsText(a.stack) /\ a.next \in Nat /\ a.pos \in Nat
Over(stack) == [stack EXCEPT ![Len(stack)].dclr = @ + 1]

Unit(type) == CASE type = "INT_ARY" -> IntBytes [] type = "FLOAT_ARY" -> FloatBytes [] OTHER -> 1
ValueSize(type, s, k, n) ==
  \/ type = "CHAR" /\ \E c \in Nat : Holds(s, k, c) /\ n = IntBytes + c
  \/ type = "INT" /\ n = IntBytes
  \/ type = "FLOAT" /\ n = FloatBytes
ArraySize(type, s, k, n) == \E c \in Nat : Holds(s, k, c) /\ n = 3 * IntBytes + c * Unit(type)

(* Bytes of s from place k on take a walk from state a to state b. *)
NothingStep(s, k, a, b) == ByteIs(s, k, 0) /\ b = State(Over(a.stack), a.next, a.pos + 1)
ObjectStep(p, s, k, a, b) ==
  \/ NothingStep(s, k, a, b)
  \/ \E cls \in DOMAIN p.classes :
       /\ ByteIs(s, k, 1) /\ Holds(s, k + 1, cls)
       /\ \/ \E id \in 1 .. a.next :
               Holds(s, k + 1 + IntBytes, id) /\ b = State(Over(a.stack), a.next, a.pos + 1 + 2 * IntBytes)
          \/ /\ Holds(s, k + 1 + IntBytes, -(a.next + 1))
             /\ b = State(Append(Over(a.stack), [cls |-> cls, dclr |-> 1]), a.next + 1, a.pos + 1 + 2 * IntBytes)
ArrayStep(type, s, k, a, b) ==
  \/ NothingStep(s, k, a, b)
  \/ /\ ByteIs(s, k, 1)
     /\ \/ \E id \in 1 .. a.next : Holds(s, k + 1, id) /\ b = State(Over(a.stack), a.next, a.pos + 1 + IntBytes)
        \/ /\ Holds(s, k + 1, -(a.next + 1))
           /\ \E n \in Nat : /\ ArraySize(type, s, k + 1 + IntBytes, n)
                             /\ b = State(Over(a.stack), a.next + 1, a.pos + 1 + IntBytes + n)
ValueStep(type, s, k, a, b) ==
  \E n \in Nat : ValueSize(type, s, k, n) /\ b = State(Over(a.stack), a.next, a.pos + n)
FieldStep(p, type, s, k, a, b) ==
  \/ type \in {"CHAR", "INT", "FLOAT"} /\ ValueStep(type, s, k, a, b)
  \/ type \in ArrayTypes /\ ArrayStep(type, s, k, a, b)
  \/ type = "OBJ" /\ ObjectStep(p, s, k, a, b)
  \/ type = "OBJ_ARY" /\ b = State(Over(a.stack), a.next, a.pos)
WalkStep(p, s, k, a, b) ==
  IF a.stack = <<>> THEN a.pos = 0 /\ ObjectStep(p, s, k, a, b)
  ELSE LET class == p.classes[Last(a.stack).cls]
           dclr == Last(a.stack).dclr
       IN  IF dclr <= Len(class) THEN FieldStep(p, class[dclr], s, k, a, b)
           ELSE b = State(Front(a.stack), a.next, a.pos)

(* The n steps of a walk over the bytes from place k on. *)
Walk(p, s, k, n, t) ==
  /\ n \in Nat
  /\ t[0] = State(<<>>, 0, 0)
  /\ k + t[n].pos <= Len(s)
  /\ \A i \in 0 .. n : IsState(t[i]) /\ t[i].pos <= t[n].pos
  /\ \A i \in 1 .. n : t[i].pos > 0 /\ WalkStep(p, s, k + t[i - 1].pos, t[i - 1], t[i])

LEMMA UnitIs ==
  ASSUME NEW type, NEW c \in Nat
  PROVE  Unit(type) \in Nat /\ c * Unit(type) \in Nat
<1>1. Unit(type) \in {IntBytes, FloatBytes, 1}
  BY DEF Unit
<1>2. \A u \in Nat : c * u \in Nat
  OBVIOUS
<1>3. Unit(type) \in Nat
  BY <1>1, Widths
<1> HIDE DEF Unit
<1> QED
  BY <1>2, <1>3

LEMMA ValueSizeAlike ==
  ASSUME NEW s, NEW t, IsText(s), IsText(t), NEW k \in Nat, NEW l \in Nat, NEW m \in Nat, Alike(s, k, t, l, m),
         NEW i \in Nat, NEW n \in Nat, i + n <= m, NEW type, ValueSize(type, s, k + i, n)
  PROVE  ValueSize(type, t, l + i, n)
<1>1. CASE type = "CHAR"
  <2>1. PICK c \in Nat : Holds(s, k + i, c) /\ n = IntBytes + c
    BY <1>1 DEF ValueSize
  <2>2. i + IntBytes <= m
    BY <2>1, Widths
  <2>3. Holds(t, l + i, c)
    BY <2>1, <2>2, HoldsAlike
  <2> QED
    BY <1>1, <2>1, <2>3 DEF ValueSize
<1> QED
  BY <1>1 DEF ValueSize

LEMMA ArraySizeAlike ==
  ASSUME NEW s, NEW t, IsText(s), IsText(t), NEW k \in Nat, NEW l \in Nat, NEW m \in Nat, Alike(s, k, t, l, m),
         NEW i \in Nat, NEW n \in Nat, i + n <= m, NEW type, ArraySize(type, s, k + i, n)
  PROVE  ArraySize(type, t, l + i, n)
<1>1. PICK c \in Nat : Holds(s, k + i, c) /\ n = 3 * IntBytes + c * Unit(type)
  BY DEF ArraySize
<1>2. c * Unit(type) \in Nat
  BY UnitIs
<1>3. i + IntBytes <= m
  BY <1>1, <1>2, Widths
<1>4. Holds(t, l + i, c)
  BY <1>1, <1>3, HoldsAlike
<1> QED
  BY <1>1, <1>4 DEF ArraySize

LEMMA NothingAlike ==
  ASSUME NEW s, NEW t, IsText(s), IsText(t), NEW k \in Nat, NEW l \in Nat, NEW m \in Nat, Alike(s, k, t, l, m),
         NEW a, IsState(a), NEW b, b.pos <= m, NothingStep(s, k + a.pos, a, b)
  PROVE  NothingStep(t, l + a.pos, a, b)
<1>1. a.pos \in Nat /\ b = State(Over(a.stack), a.next, a.pos + 1) /\ b.pos = a.pos + 1
  BY DEF IsState, NothingStep, State
<1>2. a.pos + 1 <= m
  BY <1>1
<1>3. ByteIs(t, l + a.pos, 0)
  BY <1>1, <1>2, ByteAlike DEF NothingStep
<1> QED
  BY <1>1, <1>3 DEF NothingStep

LEMMA ObjectAlike ==
  ASSUME NEW s, NEW t, IsText(s), IsText(t), NEW k \in Nat, NEW l \in Nat, NEW m \in Nat, Alike(s, k, t, l, m),
         NEW p, NEW a, IsState(a), NEW b, b.pos <= m, ObjectStep(p, s, k + a.pos, a, b)
  PROVE  ObjectStep(p, t, l + a.pos, a, b)
<1>1. CASE NothingStep(s, k + a.pos, a, b)
  BY <1>1, NothingAlike DEF ObjectStep
<1>2. CASE ~NothingStep(s, k + a.pos, a, b)
  <2> DEFINE q == a.pos
  <2>1. q \in Nat
    BY DEF IsState
  <2>2. PICK cls \in DOMAIN p.classes :
          /\ ByteIs(s, k + q, 1) /\ Holds(s, k + q + 1, cls)
          /\ \/ \E id \in 1 .. a.next :
                  Holds(s, k + q + 1 + IntBytes, id) /\ b = State(Over(a.stack), a.next, q + 1 + 2 * IntBytes)
             \/ /\ Holds(s, k + q + 1 + IntBytes, -(a.next + 1))
                /\ b = State(Append(Over(a.stack), [cls |-> cls, dclr |-> 1]), a.next + 1, q + 1 + 2 * IntBytes)
    BY <1>2 DEF ObjectStep
  <2>3. b.pos = q + 1 + 2 * IntBytes
    BY <2>2 DEF State
  <2> HIDE DEF q
  <2>4. /\ q + 1 <= m /\ (q + 1) + IntBytes <= m /\ (q + 1 + IntBytes) + IntBytes <= m
        /\ q + 1 \in Nat /\ q + 1 + IntBytes \in Nat
        /\ k + q + 1 = k + (q + 1) /\ k + q + 1 + IntBytes = k + (q + 1 + IntBytes)
        /\ l + q + 1 = l + (q + 1) /\ l + q + 1 + IntBytes = l + (q + 1 + IntBytes)
    BY <2>1, <2>3, Widths
  <2>5. ByteIs(t, l + q, 1)
    BY <2>1, <2>2, <2>4, ByteAlike
  <2>6. Holds(t, l + (q + 1), cls)
    BY <2>2, <2>4, HoldsAlike
  <2>7. \A id : Holds(s, k + (q + 1 + IntBytes), id) => Holds(t, l + (q + 1 + IntBytes), id)
    BY <2>4, HoldsAlike
  <2> QED
    BY <2>2, <2>4, <2>5, <2>6, <2>7 DEF ObjectStep, q
<1> QED
  BY <1>1, <1>2

LEMMA ArrayAlike ==
  ASSUME NEW s, NEW t, IsText(s), IsText(t), NEW k \in Nat, NEW l \in Nat, NEW m \in Nat, Alike(s, k, t, l, m),
         NEW type, NEW a, IsState(a), NEW b, b.pos <= m, ArrayStep(type, s, k + a.pos, a, b)
  PROVE  ArrayStep(type, t, l + a.pos, a, b)
<1> DEFINE q == a.pos
<1>1. q \in Nat
  BY DEF IsState
<1>2. CASE NothingStep(s, k + q, a, b)
  BY <1>2, NothingAlike DEF ArrayStep
<1>3. CASE /\ ByteIs(s, k + q, 1)
           /\ \E id \in 1 .. a.next : Holds(s, k + q + 1, id) /\ b = State(Over(a.stack), a.next, q + 1 + IntBytes)
  <2>1. PICK id \in 1 .. a.next : Holds(s, k + q + 1, id) /\ b = State(Over(a.stack), a.next, q + 1 + IntBytes)
    BY <1>3
  <2>2. b.pos = q + 1 + IntBytes
    BY <2>1 DEF State
  <2> HIDE DEF q
  <2>3. q + 1 <= m /\ (q + 1) + IntBytes <= m /\ q + 1 \in Nat /\ k + q + 1 = k + (q + 1) /\ l + q + 1 = l + (q + 1)
    BY <1>1, <2>2, Widths
  <2>4. ByteIs(t, l + q, 1)
    BY <1>1, <1>3, <2>3, ByteAlike
  <2>5. Holds(t, l + q + 1, id)
    BY <2>1, <2>3, HoldsAlike
  <2> QED
    BY <2>1, <2>4, <2>5 DEF ArrayStep, q
<1>4. CASE /\ ByteIs(s, k + q, 1) /\ Holds(s, k + q + 1, -(a.next + 1))
           /\ \E n \in Nat : /\ ArraySize(type, s, k + q + 1 + IntBytes, n)
                             /\ b = State(Over(a.stack), a.next + 1, q + 1 + IntBytes + n)
  <2>1. PICK n \in Nat : /\ ArraySize(type, s, k + q + 1 + IntBytes, n)
                         /\ b = State(Over(a.stack), a.next + 1, q + 1 + IntBytes + n)
    BY <1>4
  <2>2. b.pos = q + 1 + IntBytes + n
    BY <2>1 DEF State
  <2> HIDE DEF q
  <2>3. /\ q + 1 <= m /\ (q + 1) + IntBytes <= m /\ (q + 1 + IntBytes) + n <= m
        /\ q + 1 \in Nat /\ q + 1 + IntBytes \in Nat
        /\ k + q + 1 = k + (q + 1) /\ k + q + 1 + IntBytes = k + (q + 1 + IntBytes)
        /\ l + q + 1 = l + (q + 1) /\ l + q + 1 + IntBytes = l + (q + 1 + IntBytes)
    BY <1>1, <2>2, Widths
  <2>4. ByteIs(t, l + q, 1)
    BY <1>1, <1>4, <2>3, ByteAlike
  <2>5. Holds(t, l + (q + 1), -(a.next + 1))
    BY <1>4, <2>3, HoldsAlike
  <2>6. ArraySize(type, t, l + (q + 1 + IntBytes), n)
    <3> DEFINE i == q + 1 + IntBytes
    <3>1. i \in Nat /\ i + n <= m /\ ArraySize(type, s, k + i, n)
      BY <2>1, <2>3
    <3> HIDE DEF i
    <3>2. ArraySize(type, t, l + i, n)
      BY <3>1, ArraySizeAlike
    <3> QED
      BY <3>2 DEF i
  <2> QED
    BY <2>1, <2>3, <2>4, <2>5, <2>6 DEF ArrayStep, q
<1> QED
  BY <1>2, <1>3, <1>4 DEF ArrayStep

LEMMA ValueAlike ==
  ASSUME NEW s, NEW t, IsText(s), IsText(t), NEW k \in Nat, NEW l \in Nat, NEW m \in Nat, Alike(s, k, t, l, m),
         NEW type, NEW a, IsState(a), NEW b, b.pos <= m, ValueStep(type, s, k + a.pos, a, b)
  PROVE  ValueStep(type, t, l + a.pos, a, b)
<1>1. PICK n \in Nat : ValueSize(type, s, k + a.pos, n) /\ b = State(Over(a.stack), a.next, a.pos + n)
  BY DEF ValueStep
<1>2. a.pos \in Nat /\ a.pos + n <= m
  BY <1>1 DEF IsState, State
<1>3. ValueSize(type, t, l + a.pos, n)
  BY <1>1, <1>2, ValueSizeAlike
<1> QED
  BY <1>1, <1>3 DEF ValueStep

LEMMA StepAlike ==
  ASSUME NEW s, NEW t, IsText(s), IsText(t), NEW k \in Nat, NEW l \in Nat, NEW m \in Nat, Alike(s, k, t, l, m),
         NEW p, NEW a, IsState(a), NEW b, b.pos <= m, WalkStep(p, s, k + a.pos, a, b)
  PROVE  WalkStep(p, t, l + a.pos, a, b)
<1>1. ObjectStep(p, s, k + a.pos, a, b) => ObjectStep(p, t, l + a.pos, a, b)
  BY ObjectAlike
<1>2. \A type : FieldStep(p, type, s, k + a.pos, a, b) => FieldStep(p, type, t, l + a.pos, a, b)
  <2>1. \A type : ValueStep(type, s, k + a.pos, a, b) => ValueStep(type, t, l + a.pos, a, b)
    BY ValueAlike
  <2>2. \A type : ArrayStep(type, s, k + a.pos, a, b) => ArrayStep(type, t, l + a.pos, a, b)
    BY ArrayAlike
  <2> QED
    BY <1>1, <2>1, <2>2 DEF FieldStep
<1> QED
  BY <1>1, <1>2 DEF WalkStep

(* A walk is one over the same bytes elsewhere. *)
LEMMA WalkMoves ==
  ASSUME NEW s, NEW u, IsText(s), IsText(u), NEW k \in Nat, NEW l \in Nat, NEW p, NEW n, NEW t,
         Walk(p, s, k, n, t), Alike(s, k, u, l, t[n].pos)
  PROVE  Walk(p, u, l, n, t)
<1>1. /\ n \in Nat /\ n \in 0 .. n
      /\ \A i \in 0 .. n : IsState(t[i]) /\ t[i].pos \in Nat /\ t[i].pos <= t[n].pos
  BY DEF Walk, IsState
<1>2. ASSUME NEW i \in 1 .. n PROVE WalkStep(p, u, l + t[i - 1].pos, t[i - 1], t[i])
  <2>1. i - 1 \in 0 .. n /\ i \in 0 .. n
    BY <1>1
  <2> DEFINE a == t[i - 1]
             b == t[i]
             m == t[n].pos
  <2>2. WalkStep(p, s, k + a.pos, a, b) /\ IsState(a) /\ b.pos <= m /\ m \in Nat /\ Alike(s, k, u, l, m)
    BY <1>1, <2>1 DEF Walk
  <2> HIDE DEF a, b, m
  <2>3. WalkStep(p, u, l + a.pos, a, b)
    BY <2>2, StepAlike
  <2> QED
    BY <2>3 DEF a, b
<1>3. l + t[n].pos <= Len(u)
  BY DEF Alike
<1> QED
  BY <1>2, <1>3 DEF Walk

Longer(n, t, b) == [i \in 0 .. n + 1 |-> IF i = n + 1 THEN b ELSE t[i]]

(* One step more, over bytes that go on. *)
LEMMA WalkGoesOn ==
  ASSUME NEW s, NEW w, IsText(s), IsText(w), NEW k \in Nat, NEW p, NEW n, NEW t, Walk(p, s, k, n, t),
         NEW b, IsState(b), b.pos > 0, t[n].pos <= b.pos, k + b.pos <= Len(s \o w),
         WalkStep(p, s \o w, k + t[n].pos, t[n], b)
  PROVE  Walk(p, s \o w, k, n + 1, Longer(n, t, b))
<1> DEFINE u == s \o w
           g == Longer(n, t, b)
<1>1. /\ n \in Nat /\ n \in 0 .. n
      /\ \A i \in 0 .. n : IsState(t[i]) /\ t[i].pos \in Nat /\ t[i].pos <= t[n].pos
      /\ k + t[n].pos <= Len(s)
  BY DEF Walk, IsState
<1>2. IsText(u) /\ Alike(s, k, u, k, t[n].pos)
  BY <1>1, Joined, LongerAlike
<1>3. \A i \in 1 .. n : t[i].pos > 0 /\ WalkStep(p, u, k + t[i - 1].pos, t[i - 1], t[i])
  <2> HIDE DEF u
  <2>1. Walk(p, u, k, n, t)
    BY <1>2, WalkMoves
  <2> QED
    BY <2>1 DEF Walk
<1>4. g[n + 1] = b /\ \A i \in 0 .. n : g[i] = t[i]
  BY <1>1 DEF Longer
<1> HIDE DEF g
<1>9. b.pos \in Nat /\ t[n].pos \in Nat
  BY <1>1 DEF IsState
<1>5. n + 1 \in Nat /\ g[0] = State(<<>>, 0, 0)
  <2>1. 0 \in 0 .. n
    BY <1>1
  <2>2. g[0] = t[0]
    BY <1>4, <2>1
  <2> QED
    BY <1>1, <2>2 DEF Walk
<1>6. ASSUME NEW i \in 0 .. n + 1 PROVE IsState(g[i]) /\ g[i].pos <= g[n + 1].pos
  <2>1. CASE i = n + 1
    BY <1>4, <1>9, <2>1
  <2>2. CASE i \in 0 .. n
    <3>1. g[i] = t[i] /\ g[n + 1] = b /\ IsState(t[i]) /\ t[i].pos \in Nat /\ t[i].pos <= t[n].pos
      BY <1>1, <1>4, <2>2
    <3> QED
      BY <1>9, <3>1
  <2> QED
    BY <1>1, <2>1, <2>2
<1>7. ASSUME NEW i \in 1 .. n + 1 PROVE g[i].pos > 0 /\ WalkStep(p, u, k + g[i - 1].pos, g[i - 1], g[i])
  <2>1. CASE i = n + 1
    <3>1. i - 1 = n
      BY <1>1, <2>1
    <3>2. g[n] = t[n] /\ g[i] = b
      BY <1>1, <1>4, <2>1
    <3> QED
      BY <3>1, <3>2
  <2>2. CASE i \in 1 .. n
    <3>1. i \in 0 .. n /\ i - 1 \in 0 .. n
      BY <1>1, <2>2
    <3>2. t[i].pos > 0 /\ WalkStep(p, u, k + t[i - 1].pos, t[i - 1], t[i])
      BY <1>3, <2>2
    <3>3. g[i] = t[i] /\ g[i - 1] = t[i - 1]
      BY <1>4, <3>1
    <3> QED
      BY <3>2, <3>3
  <2> QED
    BY <1>1, <2>1, <2>2
<1>8. k + g[n + 1].pos <= Len(u)
  BY <1>4
<1> QED
  BY <1>4, <1>5, <1>6, <1>7, <1>8 DEF Walk, g

-----------------------------------------------------------------------------
(* What lies at a place of a text lies there when others come before. *)
LEMMA HoldsLater ==
  ASSUME NEW s, NEW w, IsText(s), IsText(w), NEW i \in Nat, NEW n, Holds(w, i, n)
  PROVE  Holds(s \o w, Len(s) + i, n)
<1>1. Len(s) \in Nat /\ Len(w) \in Nat /\ IsText(s \o w) /\ Alike(w, 0, s \o w, Len(s), Len(w))
  BY Joined, LaterAlike, TextIs
<1>2. i + IntBytes <= Len(w) /\ 0 + i = i
  BY DEF Holds
<1>3. Holds(w, 0 + i, n)
  BY <1>2
<1> QED
  BY <1>1, <1>2, <1>3, HoldsAlike

LEMMA ByteLater ==
  ASSUME NEW s, NEW w, IsText(s), IsText(w), NEW i \in Nat, NEW b, ByteIs(w, i, b)
  PROVE  ByteIs(s \o w, Len(s) + i, b)
<1>1. Len(s) \in Nat /\ Len(w) \in Nat /\ IsText(s \o w) /\ Alike(w, 0, s \o w, Len(s), Len(w))
  BY Joined, LaterAlike, TextIs
<1>2. i + 1 <= Len(w) /\ 0 + i = i
  BY DEF ByteIs
<1>3. ByteIs(w, 0 + i, b)
  BY <1>2
<1> QED
  BY <1>1, <1>2, <1>3, ByteAlike

LEMMA ArraySizeLater ==
  ASSUME NEW s, NEW w, IsText(s), IsText(w), NEW i \in Nat, NEW n, NEW type, ArraySize(type, w, i, n)
  PROVE  ArraySize(type, s \o w, Len(s) + i, n)
<1>1. PICK c \in Nat : Holds(w, i, c) /\ n = 3 * IntBytes + c * Unit(type)
  BY DEF ArraySize
<1>2. Holds(s \o w, Len(s) + i, c)
  BY <1>1, HoldsLater
<1> QED
  BY <1>1, <1>2 DEF ArraySize

LEMMA ValueSizeLater ==
  ASSUME NEW s, NEW w, IsText(s), IsText(w), NEW i \in Nat, NEW n, NEW type, ValueSize(type, w, i, n)
  PROVE  ValueSize(type, s \o w, Len(s) + i, n)
<1>1. \A c : Holds(w, i, c) => Holds(s \o w, Len(s) + i, c)
  BY HoldsLater
<1> QED
  BY <1>1 DEF ValueSize

LEMMA HoldsFirst ==
  ASSUME NEW n, Fits(n), NEW w, IsText(w)
  PROVE  /\ IsText(SerializeInt(n) \o w) /\ Len(SerializeInt(n) \o w) = IntBytes + Len(w)
         /\ Holds(SerializeInt(n), 0, n) /\ Holds(SerializeInt(n) \o w, 0, n)
<1> DEFINE e == SerializeInt(n)
<1>1. IsText(e) /\ Len(e) = IntBytes
  BY IntText
<1>2. Holds(<<>> \o e, Len(<<>>), n)
  BY EmptyText, HoldsNow
<1>3. Holds(e, 0, n)
  BY <1>1, <1>2, EmptyText
<1> HIDE DEF e
<1>4. Holds(e \o w, 0, n)
  BY <1>1, <1>3, HoldsOn
<1> QED
  BY <1>1, <1>3, <1>4, Joined DEF e

LEMMA ByteFirst ==
  ASSUME NEW b, NEW w, IsText(w)
  PROVE  /\ IsText(SerializeByte(b) \o w) /\ Len(SerializeByte(b) \o w) = 1 + Len(w)
         /\ ByteIs(SerializeByte(b), 0, b) /\ ByteIs(SerializeByte(b) \o w, 0, b)
<1> DEFINE e == SerializeByte(b)
<1>1. IsText(e) /\ Len(e) = 1
  BY ByteText
<1>2. ByteIs(<<>> \o e, Len(<<>>), b)
  BY EmptyText, ByteNow
<1>3. ByteIs(e, 0, b)
  BY <1>1, <1>2, EmptyText
<1> HIDE DEF e
<1>4. ByteIs(e \o w, 0, b)
  BY <1>1, <1>3, ByteOn
<1>5. IsText(e \o w) /\ Len(e \o w) = 1 + Len(w)
  BY <1>1, Joined
<1> QED
  BY <1>3, <1>4, <1>5 DEF e

-----------------------------------------------------------------------------
(* Pieces of texts. *)
LEMMA OneText ==
  ASSUME NEW x, IsText(x)
  PROVE  IsTexts(<<x>>) /\ FlattenSeq(<<x>>) = x
<1>1. IsTexts(<<>>)
  <2>1. <<>> \in Seq(Seq({}))
    OBVIOUS
  <2> QED
    BY <2>1 DEF IsTexts
<1>2. IsTexts(<<x>> \o <<>>) /\ FlattenSeq(<<x>> \o <<>>) = x \o FlattenSeq(<<>>)
  BY <1>1, FlattenedFirst
<1>3. <<x>> \o <<>> = <<x>> /\ x \o <<>> = x
  <2>1. <<x>> \in Seq({x})
    OBVIOUS
  <2> QED
    BY <2>1, EmptyText DEF IsText
<1> QED
  BY <1>2, <1>3, FlattenedNone

LEMMA PairOf ==
  ASSUME NEW x, NEW y
  PROVE  <<x, y>> = <<x>> \o <<y>>
<1> DEFINE U == {x, y}
<1>1. x \in U /\ y \in U
  OBVIOUS
<1> HIDE DEF U
<1>2. <<x>> \in Seq(U)
  BY <1>1
<1>3. Append(<<x>>, y) = <<x>> \o <<y>>
  BY <1>1, <1>2, AppendIsConcat
<1>4. Append(<<x>>, y) = <<x, y>>
  <2> DEFINE one == Append(<<x>>, y)
             two == <<x, y>>
  <2>1. one \in Seq(U) /\ Len(one) = 2 /\ one[1] = x /\ one[2] = y
    BY <1>1, <1>2, AppendProperties
  <2>2. two \in Seq(U) /\ Len(two) = 2 /\ two[1] = x /\ two[2] = y
    BY <1>1
  <2>3. \A i \in 1 .. 2 : i = 1 \/ i = 2
    OBVIOUS
  <2> HIDE DEF one, two
  <2>4. \A i \in 1 .. Len(one) : one[i] = two[i]
    BY <2>1, <2>2, <2>3
  <2>5. one = two
    BY <2>1, <2>2, <2>4, SeqEqual
  <2> QED
    BY <2>5 DEF one, two
<1> QED
  BY <1>3, <1>4

LEMMA TwoTexts ==
  ASSUME NEW x, NEW y, IsText(x), IsText(y)
  PROVE  IsTexts(<<x, y>>) /\ FlattenSeq(<<x, y>>) = x \o y
<1> DEFINE ys == <<y>>
<1>1. IsTexts(ys) /\ FlattenSeq(ys) = y /\ <<x, y>> = <<x>> \o ys
  BY OneText, PairOf
<1> HIDE DEF ys
<1>2. IsTexts(<<x>> \o ys) /\ FlattenSeq(<<x>> \o ys) = x \o FlattenSeq(ys)
  BY <1>1, FlattenedFirst
<1> QED
  BY <1>1, <1>2

Led(x, y, z, s) == <<x, y, z>> \o s

LEMMA ThreeTexts ==
  ASSUME NEW x, NEW y, NEW z, NEW s, IsText(x), IsText(y), IsText(z), IsTexts(s)
  PROVE  IsTexts(Led(x, y, z, s)) /\ FlattenSeq(Led(x, y, z, s)) = x \o (y \o (z \o FlattenSeq(s)))
<1>1. PICK S : s \in Seq(Seq(S))
  BY DEF IsTexts
<1>2. <<x, y, z>> \o s = <<x>> \o (<<y>> \o (<<z>> \o s))
  <2> DEFINE U == Seq(S) \cup {x, y, z}
  <2>1. s \in Seq(U) /\ x \in U /\ y \in U /\ z \in U
    BY <1>1
  <2> HIDE DEF U
  <2>2. <<y, z>> \o s = <<y>> \o (<<z>> \o s)
    <3>1. <<y, z>> = <<y>> \o <<z>> /\ <<y>> \in Seq(U) /\ <<z>> \in Seq(U)
      BY <2>1, PairOf
    <3> QED
      BY <2>1, <3>1, ConcatAssociative
  <2>3. <<x, y, z>> = <<x>> \o <<y, z>> /\ <<x>> \in Seq(U) /\ <<y, z>> \in Seq(U)
    BY <2>1
  <2> DEFINE xs == <<x>>
             yz == <<y, z>>
  <2> HIDE DEF xs, yz
  <2>4. xs \in Seq(U) /\ yz \in Seq(U)
    BY <2>3 DEF xs, yz
  <2>5. (xs \o yz) \o s = xs \o (yz \o s)
    BY <2>1, <2>4, ConcatAssociative
  <2> QED
    BY <2>2, <2>3, <2>5 DEF xs, yz
<1>3. IsTexts(<<z>> \o s) /\ FlattenSeq(<<z>> \o s) = z \o FlattenSeq(s)
  BY FlattenedFirst
<1> DEFINE zs == <<z>> \o s
<1>4. IsTexts(<<y>> \o zs) /\ FlattenSeq(<<y>> \o zs) = y \o FlattenSeq(zs)
  BY <1>3, FlattenedFirst
<1> DEFINE yzs == <<y>> \o zs
<1>5. IsTexts(<<x>> \o yzs) /\ FlattenSeq(<<x>> \o yzs) = x \o FlattenSeq(yzs)
  <2> HIDE DEF yzs
  <2> QED
    BY <1>4, FlattenedFirst DEF yzs
<1> QED
  BY <1>2, <1>3, <1>4, <1>5 DEF Led

(* So many texts of the same length. *)
LEMMA EqualTexts ==
  ASSUME NEW n \in Nat, NEW L \in Nat, NEW s, IsTexts(s), Len(s) = n,
         \A i \in 1 .. n : Len(s[i]) = L
  PROVE  IsText(FlattenSeq(s)) /\ Len(FlattenSeq(s)) = n * L
<1>1. PICK S : s \in Seq(Seq(S))
  BY DEF IsTexts
<1> DEFINE part(k) == SubSeq(s, 1, k)
           H == {k \in 0 .. n : Len(FlattenSeq(part(k))) = k * L}
<1>2. \A k \in 0 .. n : part(k) \in Seq(Seq(S)) /\ Len(part(k)) = k
  BY <1>1, SubSeqProperties
<1>3. 0 \in H
  <2>1. part(0) = <<>> /\ 0 * L = 0
    BY <1>2
  <2>2. Len(FlattenSeq(part(0))) = 0 * L
    BY <2>1, EmptyText, FlattenedNone
  <2> QED
    BY <2>2
<1>4. ASSUME NEW k \in 1 .. n, k - 1 \in H PROVE k \in H
  <2>1. k - 1 \in 0 .. n /\ k \in 0 .. n
    OBVIOUS
  <2>2. part(k) = Append(part(k - 1), s[k])
    BY <1>1, <2>1, SubSeqRecursiveSecond
  <2> DEFINE u == part(k - 1)
             e == s[k]
  <2>3. u \in Seq(Seq(S)) /\ e \in Seq(S) /\ Len(e) = L /\ Len(FlattenSeq(u)) = (k - 1) * L
    BY <1>1, <1>2, <1>4, <2>1
  <2> HIDE DEF u, e
  <2>4. FlattenSeq(Append(u, e)) = FlattenSeq(u) \o e /\ FlattenSeq(u) \in Seq(S)
    BY <2>3, FlattenedOnce
  <2>5. Len(FlattenSeq(u) \o e) = (k - 1) * L + L
    <3> DEFINE v == FlattenSeq(u)
    <3> HIDE DEF v
    <3>1. v \in Seq(S) /\ e \in Seq(S)
      BY <2>3, <2>4 DEF v
    <3>2. Len(v \o e) = Len(v) + Len(e)
      BY <3>1, ConcatProperties
    <3> QED
      BY <2>3, <3>2 DEF v
  <2>6. (k - 1) * L + L = k * L
    <3>1. \A a \in Nat : a * L + L = (a + 1) * L
      OBVIOUS
    <3>2. k - 1 \in Nat /\ (k - 1) + 1 = k
      OBVIOUS
    <3> QED
      BY <3>1, <3>2
  <2> QED
    BY <2>1, <2>2, <2>4, <2>5, <2>6 DEF u, e
<1> HIDE DEF H
<1>5. H = 0 .. n
  <2>1. H \in SUBSET (0 .. n)
    BY DEF H
  <2> QED
    BY <1>3, <1>4, <2>1, UpTo
<1>6. part(n) = s
  BY <1>1, SubSeqFull
<1>7. n \in H
  BY <1>5
<1> QED
  BY <1>6, <1>7, FlattenedText DEF H

-----------------------------------------------------------------------------
(* What values and arrays are written as. *)
LEMMA CharacterText == \A c : IsText(CharacterToBytes(c))
<1> TAKE c
<1>1. ASSUME NEW x, NEW y PROVE IsText(<<x, y>>) /\ IsText(<<x>>)
  <2> DEFINE S == {x, y}
  <2>1. x \in S /\ y \in S
    OBVIOUS
  <2> HIDE DEF S
  <2>2. <<x, y>> \in Seq(S)
    BY <2>1
  <2>3. <<x>> \in Seq(S)
    BY <2>1
  <2>4. \A s : s \in Seq(S) => IsText(s)
    BY DEF IsText
  <2> QED
    BY <2>2, <2>3, <2>4
<1> QED
  BY <1>1, EmptyText DEF CharacterToBytes

LEMMA UnicodeText ==
  ASSUME NEW s \in Seq(Int)
  PROVE  IsText(UnicodeToBytes(s)) /\ Len(UnicodeToBytes(s)) \in Nat
<1>1. CString(s) \in Seq(Int)
  <2>1. CASE Contains(s, 0)
    <3> DEFINE I == {i \in 1 .. Len(s) : s[i] = 0}
    <3>1. I \in SUBSET Nat /\ I # {}
      BY <2>1 DEF Contains
    <3>2. PICK n \in I : \A m \in I : n <= m
      BY <3>1, LeastNatural
    <3>3. Min(I) \in I
      BY <3>2 DEF Min
    <3>4. SelectInSeq(s, LAMBDA c : c = 0) = Min(I)
      BY <3>1 DEF SelectInSeq
    <3> DEFINE m == Min(I)
    <3>5. CString(s) = SubSeq(s, 1, m - 1)
      BY <2>1, <3>4 DEF CString
    <3>6. m \in 1 .. Len(s)
      BY <3>3
    <3> HIDE DEF m, I
    <3> QED
      BY <3>5, <3>6, SubSeqProperties
  <2>2. CASE ~Contains(s, 0)
    BY <2>2 DEF CString
  <2> QED
    BY <2>1, <2>2
<1> DEFINE d == DOMAIN CString(s)
           r == [i \in d |-> CharacterToBytes(s[i])]
<1>2. d = 1 .. Len(CString(s)) /\ Len(CString(s)) \in Nat
  BY <1>1
<1>3. IsText(r) /\ \A i \in 1 .. Len(r) : IsText(r[i])
  <2> DEFINE n == Len(CString(s))
  <2> HIDE DEF n
  <2>1. r = [i \in 1 .. n |-> CharacterToBytes(s[i])] /\ n \in Nat
    BY <1>2 DEF n
  <2> HIDE DEF r
  <2>2. r = [i \in 1 .. n |-> r[i]] /\ \A i \in 1 .. n : r[i] = CharacterToBytes(s[i])
    BY <2>1
  <2>3. IsText(r) /\ Len(r) = n
    BY <2>1, <2>2, TextOf
  <2> QED
    BY <2>2, <2>3, CharacterText
<1> HIDE DEF r
<1>4. IsText(FlattenSeq(r))
  BY <1>3, ManyTexts, FlattenedText
<1> QED
  BY <1>4, TextIs DEF UnicodeToBytes, r, d

LEMMA MetadataText ==
  ASSUME NEW c, Fits(c), NEW d, NEW e, NEW s, IsTexts(s)
  PROVE  LET w == <<SerializeInt(c), SerializeInt(d), SerializeInt(e)>> \o s
         IN  IsTexts(w) /\ IsText(FlattenSeq(w)) /\ Holds(FlattenSeq(w), 0, c) /\ Len(FlattenSeq(w)) = 3 * IntBytes + Len(FlattenSeq(s))
<1> DEFINE x == SerializeInt(c)
           y == SerializeInt(d)
           z == SerializeInt(e)
           f == FlattenSeq(s)
           w == <<x, y, z>> \o s
<1>1. IsText(x) /\ IsText(y) /\ IsText(z) /\ IsText(f) /\ Len(x) = IntBytes /\ Len(y) = IntBytes /\ Len(z) = IntBytes
  BY IntText, FlattenedText
<1> HIDE DEF y, z, f
<1>2. IsText(z \o f) /\ Len(z \o f) = IntBytes + Len(f)
  BY <1>1, Joined
<1> DEFINE zf == z \o f
           yzf == y \o zf
<1> HIDE DEF zf
<1>3. IsText(yzf) /\ Len(yzf) = IntBytes + (IntBytes + Len(f))
  BY <1>1, <1>2, Joined, SMTT(20) DEF zf
<1> HIDE DEF yzf
<1>4. IsText(x \o yzf) /\ Len(x \o yzf) = IntBytes + (IntBytes + (IntBytes + Len(f))) /\ Holds(x \o yzf, 0, c)
  BY <1>3, HoldsFirst
<1> HIDE DEF x
<1>5. IsTexts(w) /\ FlattenSeq(w) = x \o yzf
  <2>1. w = Led(x, y, z, s)
    BY DEF Led
  <2> HIDE DEF w
  <2>2. IsTexts(Led(x, y, z, s)) /\ FlattenSeq(Led(x, y, z, s)) = x \o (y \o (z \o FlattenSeq(s)))
    BY <1>1, ThreeTexts, SMTT(20) DEF f
  <2> QED
    BY <2>1, <2>2 DEF f, zf, yzf
<1>6. Len(f) \in Nat /\ IntBytes \in Nat
  BY <1>1, TextIs, Widths
<1>7. IntBytes + (IntBytes + (IntBytes + Len(f))) = 3 * IntBytes + Len(f)
  BY <1>6
<1> QED
  BY <1>4, <1>5, <1>7 DEF x, y, z, f

(* An array of so many bytes, in one piece. *)
LEMMA BytesText ==
  ASSUME NEW type, NEW a, NEW n \in Nat, Fits(n), NEW d, NEW e, NEW w, IsText(w), Len(w) = n * Unit(type)
  PROVE  LET x == <<SerializeInt(n), SerializeInt(d), SerializeInt(e)>> \o <<w>>
         IN  IsTexts(x) /\ IsText(FlattenSeq(x)) /\ ArraySize(type, FlattenSeq(x), 0, Len(FlattenSeq(x)))
<1>1. IsTexts(<<w>>) /\ FlattenSeq(<<w>>) = w
  BY OneText
<1> DEFINE x == <<SerializeInt(n), SerializeInt(d), SerializeInt(e)>> \o <<w>>
<1>2. IsTexts(x) /\ IsText(FlattenSeq(x)) /\ Holds(FlattenSeq(x), 0, n) /\ Len(FlattenSeq(x)) = 3 * IntBytes + n * Unit(type)
  BY <1>1, MetadataText
<1> HIDE DEF x
<1> QED
  BY <1>2 DEF ArraySize, x

LEMMA ArrayText ==
  ASSUME NEW p, NEW type \in ArrayTypes, NEW v, ArrayIn(p, type, v)
  PROVE  LET x == SerializeArray(type, p.memory[v])
         IN  IsTexts(x) /\ IsText(FlattenSeq(x)) /\ ArraySize(type, FlattenSeq(x), 0, Len(FlattenSeq(x)))
<1> DEFINE a == p.memory[v]
           n == a.head[1]
           bytes == UnicodeToBytes(a.mem)
<1>1. a.mem \in Seq(Int) /\ n \in Nat /\ Fits(IF type = "CHAR_ARY" THEN Len(bytes) ELSE n)
  BY DEF ArrayIn
<1>2. CASE type = "CHAR_ARY"
  <2>1. IsText(bytes) /\ Len(bytes) \in Nat /\ Fits(Len(bytes)) /\ Len(bytes) = Len(bytes) * Unit(type)
    <3>1. Unit(type) = 1
      BY <1>2 DEF Unit
    <3> QED
      BY <1>1, <1>2, <3>1, UnicodeText
  <2>2. SerializeArray(type, a) = <<SerializeInt(Len(bytes)), SerializeInt(a.head[2]), SerializeInt(Len(bytes))>> \o <<bytes>>
    BY <1>2 DEF SerializeArray, SerializeText, TextMetadata
  <2> HIDE DEF bytes
  <2> QED
    BY <2>1, <2>2, BytesText
<1>3. CASE type # "CHAR_ARY"
  <2> DEFINE m == IF type = "BYTE_ARY" THEN n ELSE IF type = "INT_ARY" THEN n * IntBytes ELSE n * FloatBytes
             w == Content(type, a, m)
  <2>1. m = n * Unit(type) /\ m \in Nat
    <3>1. type \in {"BYTE_ARY", "INT_ARY", "FLOAT_ARY"}
      BY <1>3 DEF ArrayTypes
    <3>2. n * Unit(type) \in Nat
      BY <1>1, UnitIs
    <3>3. m = n * Unit(type)
      BY <1>1, <3>1 DEF Unit
    <3> QED
      BY <3>2, <3>3
  <2>2. SerializeArray(type, a) = <<SerializeInt(n), SerializeInt(a.head[2]), SerializeInt(a.head[3])>> \o <<w>>
    BY <1>3 DEF SerializeArray, Metadata, ArrayTypes
  <2> HIDE DEF m
  <2>3. IsText(w) /\ Len(w) = n * Unit(type)
    BY <2>1, PartText DEF Content
  <2> HIDE DEF w
  <2> QED
    BY <1>1, <1>3, <2>2, <2>3, BytesText
<1> QED
  BY <1>2, <1>3

LEMMA ArrayInObjectText ==
  ASSUME NEW p, NEW type \in ArrayTypes, NEW v, ArrayIn(p, type, v)
  PROVE  LET x == ArrayInObject(type, p.memory[v])
         IN  IsTexts(x) /\ IsText(FlattenSeq(x)) /\ ArraySize(type, FlattenSeq(x), 0, Len(FlattenSeq(x)))
<1>1. CASE type # "INT_ARY"
  BY <1>1, ArrayText DEF ArrayInObject
<1>2. CASE type = "INT_ARY"
  <2> DEFINE a == p.memory[v]
             n == a.head[1]
             r == [i \in 1 .. n |-> SerializeInt(Words(a)[i])]
             f == FlattenSeq(r)
             x == <<SerializeInt(n), SerializeInt(a.head[2]), SerializeInt(a.head[3])>> \o r
  <2>1. n \in Nat /\ Fits(n) /\ Unit(type) = IntBytes /\ IntBytes \in Nat
    BY <1>2, Widths DEF ArrayIn, Unit
  <2> HIDE DEF n
  <2>2. IsTexts(r) /\ IsText(f) /\ Len(f) = n * IntBytes
    <3> HIDE DEF r
    <3>1. r = [i \in 1 .. n |-> r[i]] /\ \A i \in 1 .. n : r[i] = SerializeInt(Words(a)[i])
      BY DEF r
    <3>2. IsText(r) /\ Len(r) = n
      BY <2>1, <3>1, TextOf
    <3>3. \A i \in 1 .. n : IsText(r[i]) /\ Len(r[i]) = IntBytes
      BY <3>1, IntText
    <3>4. IsTexts(r)
      BY <3>2, <3>3, ManyTexts
    <3> QED
      BY <2>1, <3>2, <3>3, <3>4, EqualTexts
  <2> HIDE DEF r
  <2>3. IsTexts(x) /\ IsText(FlattenSeq(x)) /\ Holds(FlattenSeq(x), 0, n) /\ Len(FlattenSeq(x)) = 3 * IntBytes + Len(f)
    BY <2>1, <2>2, MetadataText
  <2>4. ArrayInObject(type, a) = x
    BY <1>2 DEF ArrayInObject, Metadata, n, r
  <2> HIDE DEF x, f
  <2>5. ArraySize(type, FlattenSeq(x), 0, Len(FlattenSeq(x)))
    BY <2>1, <2>2, <2>3 DEF ArraySize
  <2> QED
    BY <2>3, <2>4, <2>5
<1> QED
  BY <1>1, <1>2

LEMMA ValueText ==
  ASSUME NEW p, NEW type \in {"CHAR", "INT", "FLOAT"}, NEW v, IsWord(p, type, v)
  PROVE  LET x == Pieces(type, v)
         IN  IsTexts(x) /\ IsText(FlattenSeq(x)) /\ ValueSize(type, FlattenSeq(x), 0, Len(FlattenSeq(x)))
<1>1. CASE type = "CHAR"
  <2> DEFINE bytes == CharacterToBytes(v)
  <2>1. IsText(bytes) /\ Fits(Len(bytes))
    BY <1>1, CharacterText DEF IsWord
  <2>2. Pieces(type, v) = <<SerializeInt(Len(bytes)), bytes>>
    BY <1>1 DEF Pieces, SerializeChar, ArrayTypes
  <2> HIDE DEF bytes
  <2> DEFINE n == Len(bytes)
             e == SerializeInt(n)
  <2>3. IsText(e)
    BY IntText
  <2>4. IsText(e \o bytes) /\ Len(e \o bytes) = IntBytes + Len(bytes) /\ Holds(e \o bytes, 0, n)
    BY <2>1, HoldsFirst
  <2>5. n \in Nat
    BY <2>1, TextIs
  <2> HIDE DEF e, n
  <2>6. IsTexts(<<e, bytes>>) /\ FlattenSeq(<<e, bytes>>) = e \o bytes
    BY <2>1, <2>3, TwoTexts
  <2>7. ValueSize(type, e \o bytes, 0, Len(e \o bytes))
    BY <1>1, <2>4, <2>5 DEF ValueSize, n
  <2> QED
    BY <2>2, <2>4, <2>6, <2>7 DEF e, n
<1>2. CASE type = "INT"
  <2>1. IsText(SerializeInt(v)) /\ Len(SerializeInt(v)) = IntBytes
    BY IntText
  <2>2. Pieces(type, v) = <<SerializeInt(v)>>
    BY <1>2 DEF Pieces, ArrayTypes
  <2>3. IsTexts(<<SerializeInt(v)>>) /\ FlattenSeq(<<SerializeInt(v)>>) = SerializeInt(v)
    BY <2>1, OneText
  <2> QED
    BY <1>2, <2>1, <2>2, <2>3 DEF ValueSize
<1>3. CASE type = "FLOAT"
  <2>1. IsText(SerializeFloat(v)) /\ Len(SerializeFloat(v)) = FloatBytes
    BY EncodeText, Widths DEF SerializeFloat
  <2>2. Pieces(type, v) = <<SerializeFloat(v)>>
    BY <1>3 DEF Pieces, ArrayTypes
  <2>3. IsTexts(<<SerializeFloat(v)>>) /\ FlattenSeq(<<SerializeFloat(v)>>) = SerializeFloat(v)
    BY <2>1, OneText
  <2> QED
    BY <1>3, <2>1, <2>2, <2>3 DEF ValueSize
<1> QED
  BY <1>1, <1>2, <1>3

(* The bytes of one call: of a value, of an array, or of a whole graph.     *)
BareSize(type, s, k, n) ==
  \/ type \in {"CHAR", "INT", "FLOAT"} /\ ValueSize(type, s, k, n)
  \/ type \in ArrayTypes /\ ByteIs(s, k, 0) /\ n = 1
  \/ type \in ArrayTypes \ {"CHAR_ARY"} /\ ByteIs(s, k, 1) /\ \E c \in Nat : ArraySize(type, s, k + 1, c) /\ n = 1 + c
GraphSize(p, s, k, n) ==
  \E m \in Nat \ {0} : \E t : Walk(p, s, k, m, t) /\ t[m].stack = <<>> /\ t[m].pos = n
CallSize(p, type, s, k, n) ==
  /\ k + n <= Len(s)
  /\ IF type = "OBJ" THEN GraphSize(p, s, k, n)
     ELSE Holds(s, k, Tag(type)) /\ \E c \in Nat : BareSize(type, s, k + IntBytes, c) /\ n = IntBytes + c

LEMMA BareText ==
  ASSUME WellFormed(case), NEW n \in DOMAIN case.calls, case.calls[n].type # "OBJ"
  PROVE  LET type == case.calls[n].type
             x == <<SerializeInt(Tag(type))>> \o Pieces(type, case.calls[n].v)
         IN  IsTexts(x) /\ IsText(FlattenSeq(x)) /\ CallSize(case, type, FlattenSeq(x), 0, Len(FlattenSeq(x)))
<1> DEFINE type == case.calls[n].type
           v == case.calls[n].v
           y == Pieces(type, v)
           g == FlattenSeq(y)
           c == Len(g)
<1>1. /\ type \in ArrayTypes \cup {"CHAR", "INT", "FLOAT"} /\ Fits(Tag(type)) /\ IsWord(case, type, v)
      /\ type = "CHAR_ARY" => v = Nil
  BY DEF WellFormed
<1> HIDE DEF type, v
<1>2. IsTexts(y) /\ IsText(g) /\ BareSize(type, g, 0, c)
  <2>1. CASE type \in {"CHAR", "INT", "FLOAT"}
    BY <1>1, <2>1, ValueText DEF BareSize
  <2>2. CASE type \in ArrayTypes /\ v = Nil
    <3>1. y = <<SerializeByte(0)>>
      BY <2>2 DEF Pieces, ArrayTypes
    <3>2. IsText(SerializeByte(0)) /\ Len(SerializeByte(0)) = 1 /\ ByteIs(SerializeByte(0), 0, 0)
      BY ByteText, ByteFirst, EmptyText
    <3>3. IsTexts(<<SerializeByte(0)>>) /\ FlattenSeq(<<SerializeByte(0)>>) = SerializeByte(0)
      BY <3>2, OneText
    <3> QED
      BY <2>2, <3>1, <3>2, <3>3 DEF BareSize
  <2>3. CASE type \in ArrayTypes /\ v # Nil
    <3> DEFINE b == SerializeByte(1)
               z == SerializeArray(type, memory[v])
               h == FlattenSeq(z)
    <3>1. ArrayIn(case, type, v) /\ type # "CHAR_ARY"
      BY <1>1, <2>3 DEF IsWord
    <3>2. IsTexts(z) /\ IsText(h) /\ ArraySize(type, h, 0, Len(h))
      BY <2>3, <3>1, ArrayText DEF memory
    <3>3. y = <<b>> \o z
      BY <2>3 DEF Pieces, ArrayTypes
    <3> HIDE DEF z, h
    <3>4. IsText(b) /\ Len(b) = 1
      BY ByteText
    <3>5. IsText(b \o h) /\ Len(b \o h) = 1 + Len(h) /\ ByteIs(b \o h, 0, 1)
      BY <3>2, ByteFirst
    <3> HIDE DEF b
    <3>6. IsTexts(<<b>> \o z) /\ FlattenSeq(<<b>> \o z) = b \o h
      BY <3>2, <3>4, FlattenedFirst DEF h
    <3>7. ArraySize(type, b \o h, 1, Len(h))
      <4>1. ArraySize(type, b \o h, Len(b) + 0, Len(h))
        BY <3>2, <3>4, ArraySizeLater
      <4> QED
        BY <3>4, <4>1
    <3>8. Len(h) \in Nat
      BY <3>2, TextIs
    <3>9. BareSize(type, b \o h, 0, Len(b \o h))
      BY <2>3, <3>1, <3>5, <3>7, <3>8 DEF BareSize
    <3> QED
      BY <3>3, <3>5, <3>6, <3>9
  <2> QED
    BY <1>1, <2>1, <2>2, <2>3
<1> DEFINE e == SerializeInt(Tag(type))
           f == e \o g
<1>3. IsText(e) /\ Len(e) = IntBytes
  BY IntText
<1>4. IsText(f) /\ Len(f) = IntBytes + c /\ Holds(f, 0, Tag(type))
  BY <1>1, <1>2, HoldsFirst
<1> HIDE DEF e, g
<1>5. IsTexts(<<e>> \o y) /\ FlattenSeq(<<e>> \o y) = f
  BY <1>2, <1>3, FlattenedFirst DEF g
<1>6. c \in Nat /\ IntBytes \in Nat
  BY <1>2, TextIs, Widths
<1>7. BareSize(type, f, 0 + IntBytes, c)
  <2>1. \A b : ByteIs(g, 0, b) => ByteIs(f, IntBytes + 0, b)
    BY <1>2, <1>3, ByteLater
  <2>2. ValueSize(type, g, 0, c) => ValueSize(type, f, IntBytes + 0, c)
    BY <1>2, <1>3, ValueSizeLater
  <2>3. \A d : ArraySize(type, g, 1, d) => ArraySize(type, f, IntBytes + 1, d)
    BY <1>2, <1>3, ArraySizeLater
  <2>4. 0 + IntBytes = IntBytes /\ IntBytes + 0 = IntBytes /\ 0 + 1 = 1
    BY <1>6
  <2> HIDE DEF f, c
  <2> QED
    BY <1>2, <2>1, <2>2, <2>3, <2>4 DEF BareSize
<1>8. CallSize(case, type, f, 0, Len(f))
  <2>1. type # "OBJ" /\ 0 + Len(f) <= Len(f)
    BY <1>4, <1>6 DEF type
  <2> HIDE DEF f, c
  <2> QED
    BY <1>4, <1>6, <1>7, <2>1 DEF CallSize
<1> QED
  BY <1>4, <1>5, <1>8 DEF e, type, v

LEMMA CallMoves ==
  ASSUME NEW s, NEW u, IsText(s), IsText(u), NEW k \in Nat, NEW l \in Nat, NEW n \in Nat, Alike(s, k, u, l, n),
         NEW p, NEW type, CallSize(p, type, s, k, n)
  PROVE  CallSize(p, type, u, l, n)
<1>1. l + n <= Len(u)
  BY DEF Alike
<1>2. CASE type = "OBJ"
  BY <1>1, <1>2, WalkMoves DEF CallSize, GraphSize
<1>3. CASE type # "OBJ"
  <2>1. PICK c \in Nat : Holds(s, k, Tag(type)) /\ BareSize(type, s, k + IntBytes, c) /\ n = IntBytes + c
    BY <1>3 DEF CallSize
  <2>2. IntBytes \in Nat /\ k + 0 = k /\ l + 0 = l
    BY Widths
  <2>3. Holds(u, l, Tag(type))
    <3>1. Holds(s, k + 0, Tag(type)) /\ 0 + IntBytes <= n
      BY <2>1, <2>2
    <3>2. Holds(u, l + 0, Tag(type))
      BY <3>1, HoldsAlike
    <3> QED
      BY <2>2, <3>2
  <2>4. BareSize(type, u, l + IntBytes, c)
    <3>1. ValueSize(type, s, k + IntBytes, c) => ValueSize(type, u, l + IntBytes, c)
      BY <2>1, <2>2, ValueSizeAlike
    <3>2. \A b : ByteIs(s, k + IntBytes, b) /\ c >= 1 => ByteIs(u, l + IntBytes, b)
      BY <2>1, <2>2, ByteAlike
    <3>3. \A d \in Nat : ArraySize(type, s, k + IntBytes + 1, d) /\ c = 1 + d => ArraySize(type, u, l + IntBytes + 1, d)
      <4> SUFFICES ASSUME NEW d \in Nat, ArraySize(type, s, k + IntBytes + 1, d), c = 1 + d
                   PROVE  ArraySize(type, u, l + IntBytes + 1, d)
        OBVIOUS
      <4> DEFINE i == IntBytes + 1
      <4>1. i \in Nat /\ i + d <= n /\ ArraySize(type, s, k + i, d) /\ l + IntBytes + 1 = l + i
        BY <2>1, <2>2
      <4> HIDE DEF i
      <4>2. ArraySize(type, u, l + i, d)
        BY <4>1, ArraySizeAlike
      <4> QED
        BY <4>1, <4>2
    <3>4. c = 1 => c >= 1
      OBVIOUS
    <3>5. \A d \in Nat : c = 1 + d => c >= 1
      OBVIOUS
    <3> QED
      BY <2>1, <3>1, <3>2, <3>3, <3>4, <3>5 DEF BareSize
  <2> QED
    BY <1>1, <1>3, <2>1, <2>3, <2>4 DEF CallSize
<1> QED
  BY <1>2, <1>3

-----------------------------------------------------------------------------
(* The objects under way: their frames, and what of them a walk sees.       *)
Shape(objects, fs) == [i \in 1 .. Len(fs) |-> [cls |-> objects[fs[i].at].cls, dclr |-> fs[i].dclr]]
FrameSet == [at : Nat, dclr : Nat \ {0}, pos : Int]
Passed(fs, width) == [fs EXCEPT ![Len(fs)].dclr = @ + 1, ![Len(fs)].pos = @ + width]

LEMMA ShapeIs ==
  ASSUME NEW objects, NEW fs \in Seq(FrameSet)
  PROVE  /\ IsText(Shape(objects, fs)) /\ Len(Shape(objects, fs)) = Len(fs)
         /\ Shape(objects, fs) = <<>> <=> fs = <<>>
         /\ fs # <<>> => Last(Shape(objects, fs)) = [cls |-> objects[Last(fs).at].cls, dclr |-> Last(fs).dclr]
<1> DEFINE n == Len(fs)
           h == Shape(objects, fs)
<1>1. n \in Nat /\ h = [i \in 1 .. n |-> [cls |-> objects[fs[i].at].cls, dclr |-> fs[i].dclr]]
  BY DEF Shape
<1> HIDE DEF h
<1>2. h = [i \in 1 .. n |-> h[i]]
  BY <1>1
<1>3. IsText(h) /\ Len(h) = n
  BY <1>1, <1>2, TextOf
<1>4. h = <<>> <=> fs = <<>>
  BY <1>3, EmptyText
<1>5. ASSUME fs # <<>> PROVE Last(h) = [cls |-> objects[Last(fs).at].cls, dclr |-> Last(fs).dclr]
  <2>1. n \in 1 .. n
    BY <1>5
  <2> QED
    BY <1>1, <1>3, <2>1 DEF Last
<1> QED
  BY <1>3, <1>4, <1>5 DEF h

LEMMA PassedIs ==
  ASSUME NEW fs \in Seq(FrameSet), fs # <<>>, NEW width \in Int
  PROVE  /\ Passed(fs, width) \in Seq(FrameSet) /\ Len(Passed(fs, width)) = Len(fs)
         /\ \A i \in 1 .. Len(fs) - 1 : Passed(fs, width)[i] = fs[i]
         /\ Last(Passed(fs, width)) = [at |-> Last(fs).at, dclr |-> Last(fs).dclr + 1, pos |-> Last(fs).pos + width]
<1> DEFINE n == Len(fs)
           one == fs[n]
           other == [at |-> one.at, dclr |-> one.dclr + 1, pos |-> one.pos + width]
<1>1. n \in 1 .. n /\ one \in FrameSet
  OBVIOUS
<1>2. other \in FrameSet
  BY <1>1 DEF FrameSet
<1>3. Passed(fs, width) = [fs EXCEPT ![n] = other]
  <2>1. PICK a \in Nat, d \in Nat \ {0}, p \in Int : one = [at |-> a, dclr |-> d, pos |-> p]
    BY <1>1 DEF FrameSet
  <2>2. [[one EXCEPT !.dclr = @ + 1] EXCEPT !.pos = @ + width] = other
    <3>1. one.at = a /\ one.dclr = d /\ one.pos = p
      BY <2>1
    <3> HIDE DEF one
    <3> DEFINE more == [one EXCEPT !.dclr = @ + 1]
    <3>2. more = [at |-> a, dclr |-> d + 1, pos |-> p]
      BY <2>1
    <3> HIDE DEF more
    <3>3. [more EXCEPT !.pos = @ + width] = [at |-> a, dclr |-> d + 1, pos |-> p + width]
      BY <3>2
    <3> QED
      BY <3>1, <3>3 DEF more
  <2> HIDE DEF other
  <2>3. Passed(fs, width) = [fs EXCEPT ![n] = [[one EXCEPT !.dclr = @ + 1] EXCEPT !.pos = @ + width]]
    BY <1>1 DEF Passed
  <2> QED
    BY <2>2, <2>3
<1> HIDE DEF other
<1>4. [fs EXCEPT ![n] = other] \in Seq(FrameSet) /\ Len([fs EXCEPT ![n] = other]) = n
  BY <1>1, <1>2
<1>5. [fs EXCEPT ![n] = other][n] = other /\ \A i \in 1 .. n - 1 : [fs EXCEPT ![n] = other][i] = fs[i]
  BY <1>1
<1> QED
  BY <1>3, <1>4, <1>5 DEF Last, other

(* A step without a field changes the field and not the word. *)
LEMMA PassedNothing ==
  ASSUME NEW fs \in Seq(FrameSet), fs # <<>>
  PROVE  [fs EXCEPT ![Len(fs)].dclr = @ + 1] = Passed(fs, 0)
<1> DEFINE n == Len(fs)
           one == fs[n]
<1>1. n \in 1 .. n /\ one \in FrameSet
  OBVIOUS
<1>2. [[one EXCEPT !.dclr = @ + 1] EXCEPT !.pos = @ + 0] = [one EXCEPT !.dclr = @ + 1]
  <2>1. PICK x \in Nat, y \in Nat \ {0}, z \in Int : one = [at |-> x, dclr |-> y, pos |-> z]
    BY <1>1 DEF FrameSet
  <2> HIDE DEF one
  <2> DEFINE more == [one EXCEPT !.dclr = @ + 1]
  <2>2. more = [at |-> x, dclr |-> y + 1, pos |-> z]
    BY <2>1
  <2> HIDE DEF more
  <2>3. [more EXCEPT !.pos = @ + 0] = more
    BY <2>2
  <2> QED
    BY <2>3 DEF more
<1>3. Passed(fs, 0) = [fs EXCEPT ![n] = [[one EXCEPT !.dclr = @ + 1] EXCEPT !.pos = @ + 0]]
  BY <1>1 DEF Passed
<1>4. [fs EXCEPT ![n].dclr = @ + 1] = [fs EXCEPT ![n] = [one EXCEPT !.dclr = @ + 1]]
  BY <1>1
<1> HIDE DEF one
<1> QED
  BY <1>2, <1>3, <1>4

LEMMA ShapePassed ==
  ASSUME NEW objects, NEW fs \in Seq(FrameSet), fs # <<>>, NEW width \in Int
  PROVE  Shape(objects, Passed(fs, width)) = Over(Shape(objects, fs))
<1> DEFINE n == Len(fs)
           gs == Passed(fs, width)
           h == Shape(objects, fs)
           item(i) == [cls |-> objects[fs[i].at].cls, dclr |-> fs[i].dclr]
<1>1. n \in Nat /\ n \in 1 .. n /\ Len(h) = n /\ h = [i \in 1 .. n |-> item(i)]
  BY ShapeIs DEF Shape
<1>2. /\ gs \in Seq(FrameSet) /\ Len(gs) = n /\ \A i \in 1 .. n - 1 : gs[i] = fs[i]
      /\ gs[n] = [at |-> fs[n].at, dclr |-> fs[n].dclr + 1, pos |-> fs[n].pos + width]
  BY PassedIs DEF Last
<1> HIDE DEF gs
<1>3. Shape(objects, gs) = [i \in 1 .. n |-> [cls |-> objects[gs[i].at].cls, dclr |-> gs[i].dclr]]
  BY <1>2 DEF Shape
<1> HIDE DEF h
<1>4. Over(h) = [i \in 1 .. n |-> IF i = n THEN [h[i] EXCEPT !.dclr = @ + 1] ELSE h[i]]
  BY <1>1 DEF Over
<1>5. ASSUME NEW i \in 1 .. n
      PROVE  [cls |-> objects[gs[i].at].cls, dclr |-> gs[i].dclr] = IF i = n THEN [h[i] EXCEPT !.dclr = @ + 1] ELSE h[i]
  <2>1. h[i] = item(i)
    BY <1>1
  <2>2. CASE i = n
    BY <1>2, <2>1, <2>2
  <2>3. CASE i # n
    <3>1. i \in 1 .. n - 1
      <4>1. n \in Nat /\ i \in 1 .. n
        BY <1>1
      <4> HIDE DEF n
      <4> QED
        BY <2>3, <4>1 DEF n
    <3> QED
      BY <1>2, <2>1, <2>3, <3>1
  <2> QED
    BY <2>2, <2>3
<1> QED
  BY <1>3, <1>4, <1>5 DEF gs, h

LEMMA ShapeFront ==
  ASSUME NEW objects, NEW fs \in Seq(FrameSet), fs # <<>>
  PROVE  Front(fs) \in Seq(FrameSet) /\ Shape(objects, Front(fs)) = Front(Shape(objects, fs))
<1> DEFINE n == Len(fs)
           h == Shape(objects, fs)
           item(i) == [cls |-> objects[fs[i].at].cls, dclr |-> fs[i].dclr]
<1>1. n \in Nat /\ n \in 1 .. n /\ Len(h) = n /\ h = [i \in 1 .. n |-> item(i)]
  BY ShapeIs DEF Shape
<1>2. Front(fs) \in Seq(FrameSet) /\ Len(Front(fs)) = n - 1 /\ \A i \in 1 .. n - 1 : Front(fs)[i] = fs[i]
  BY <1>1, SubSeqProperties DEF Front
<1>3. Shape(objects, Front(fs)) = [i \in 1 .. n - 1 |-> item(i)]
  BY <1>2 DEF Shape
<1>4. Front(h) = [i \in 1 .. n - 1 |-> item(i)]
  <2> HIDE DEF h
  <2>1. Front(h) = [i \in 1 .. n - 1 |-> h[i]]
    BY <1>1 DEF Front
  <2>2. \A i \in 1 .. n - 1 : h[i] = item(i)
    BY <1>1
  <2> QED
    BY <2>1, <2>2
<1> QED
  BY <1>2, <1>3, <1>4

LEMMA ShapeAppend ==
  ASSUME NEW objects, NEW fs \in Seq(FrameSet), NEW f \in FrameSet
  PROVE  Append(fs, f) \in Seq(FrameSet) /\ Shape(objects, Append(fs, f)) = Append(Shape(objects, fs), [cls |-> objects[f.at].cls, dclr |-> f.dclr])
<1> DEFINE n == Len(fs)
           gs == Append(fs, f)
           h == Shape(objects, fs)
           e == [cls |-> objects[f.at].cls, dclr |-> f.dclr]
           item(i) == [cls |-> objects[gs[i].at].cls, dclr |-> gs[i].dclr]
<1>1. n \in Nat /\ Len(h) = n /\ IsText(h)
  BY ShapeIs
<1>2. gs \in Seq(FrameSet) /\ Len(gs) = n + 1 /\ gs[n + 1] = f /\ \A i \in 1 .. n : gs[i] = fs[i]
  BY <1>1, AppendProperties
<1>3. \A i \in 1 .. n : h[i] = item(i)
  BY <1>2 DEF Shape
<1>4. e = item(n + 1)
  BY <1>2
<1> HIDE DEF h, e
<1>5. Append(h, e) = [i \in 1 .. n + 1 |-> IF i = n + 1 THEN e ELSE h[i]]
  <2>1. PICK S : h \in Seq(S)
    BY <1>1 DEF IsText
  <2> DEFINE U == S \cup {e}
             g == Append(h, e)
  <2>2. h \in Seq(U) /\ e \in U
    BY <2>1
  <2> HIDE DEF U, g
  <2>3. g \in Seq(U) /\ Len(g) = n + 1 /\ g[n + 1] = e /\ \A i \in 1 .. n : g[i] = h[i]
    BY <1>1, <2>2, AppendProperties DEF g
  <2>4. g = [i \in 1 .. n + 1 |-> g[i]]
    BY <2>3
  <2>5. \A i \in 1 .. n + 1 : g[i] = IF i = n + 1 THEN e ELSE h[i]
    BY <1>1, <2>3
  <2> QED
    BY <2>4, <2>5 DEF g
<1>6. \A i \in 1 .. n + 1 : i = n + 1 \/ i \in 1 .. n
  BY <1>1
<1>7. Append(h, e) = [i \in 1 .. n + 1 |-> item(i)]
  BY <1>3, <1>4, <1>5, <1>6
<1> QED
  BY <1>2, <1>7 DEF Shape, h, e

LEMMA OverNothing == Over(<<>>) = <<>>
BY DEF Over

(* The place of a word goes over from a field to the next.                  *)
LEMMA PlaceStep ==
  ASSUME NEW class, NEW d \in Nat \ {0}
  PROVE  /\ Place(class, d) \in Int /\ Place(class, 1) = 1
         /\ Place(class, d + 1) = Place(class, d) + (IF class[d] = "FLOAT" THEN 2 ELSE IF class[d] = "OBJ_ARY" THEN 0 ELSE 1)
<1> DEFINE Of(type, n) == {e \in 1 .. n - 1 : class[e] = type}
<1>1. ASSUME NEW type
      PROVE  /\ IsFiniteSet(Of(type, d)) /\ Cardinality(Of(type, d)) \in Nat /\ Cardinality(Of(type, 1)) = 0
             /\ Cardinality(Of(type, d + 1)) = Cardinality(Of(type, d)) + (IF class[d] = type THEN 1 ELSE 0)
  <2>1. IsFiniteSet(Of(type, d))
    <3>1. IsFiniteSet(1 .. d - 1) /\ Of(type, d) \in SUBSET (1 .. d - 1)
      BY FS_Interval
    <3> QED
      BY <3>1, FS_Subset
  <2>2. Of(type, 1) = {}
    OBVIOUS
  <2>3. Of(type, d + 1) = IF class[d] = type THEN Of(type, d) \cup {d} ELSE Of(type, d)
    OBVIOUS
  <2>4. d \notin Of(type, d)
    OBVIOUS
  <2> DEFINE S == Of(type, d)
  <2> HIDE DEF Of
  <2>5. Cardinality(S \cup {d}) = Cardinality(S) + 1 /\ Cardinality(S) \in Nat
    BY <2>1, <2>4, FS_AddElement, FS_CardinalityType
  <2> QED
    BY <2>1, <2>2, <2>3, <2>5, FS_EmptySet
<1>2. \A n : Place(class, n) = n + Cardinality(Of("FLOAT", n)) - Cardinality(Of("OBJ_ARY", n))
  BY DEF Place
<1> HIDE DEF Of
<1> DEFINE f == Cardinality(Of("FLOAT", d))
           o == Cardinality(Of("OBJ_ARY", d))
<1>3. /\ f \in Nat /\ o \in Nat
      /\ Cardinality(Of("FLOAT", 1)) = 0 /\ Cardinality(Of("OBJ_ARY", 1)) = 0
      /\ Cardinality(Of("FLOAT", d + 1)) = f + (IF class[d] = "FLOAT" THEN 1 ELSE 0)
      /\ Cardinality(Of("OBJ_ARY", d + 1)) = o + (IF class[d] = "OBJ_ARY" THEN 1 ELSE 0)
  BY <1>1
<1>4. Place(class, d) = d + f - o /\ Place(class, 1) = 1 + 0 - 0
  BY <1>2, <1>3
<1>5. Place(class, d + 1) = (d + 1) + Cardinality(Of("FLOAT", d + 1)) - Cardinality(Of("OBJ_ARY", d + 1))
  BY <1>2
<1> HIDE DEF f, o
<1> QED
  BY <1>3, <1>4, <1>5

-----------------------------------------------------------------------------
(* The inductive invariant: besides, the numbers are a function's values.   *)
NumbersInv ==
  /\ next_id \in Nat
  /\ serial_ids = [x \in DOMAIN serial_ids |-> serial_ids[x]]
  /\ NumbersDistinct

LEMMA NoNumbers ==
  ASSUME serial_ids = <<>>, next_id = 0
  PROVE  NumbersInv
BY DEF NumbersInv, NumbersDistinct, IsInjective, Range

(* What is numbered now was not, and gets a number no object has. *)
LEMMA NumberedDistinct ==
  ASSUME NumbersInv, NEW a, Numbered(a)
  PROVE  NumbersInv'
<1>1. CASE WasSerialized(a)
  BY <1>1 DEF NumbersInv, NumbersDistinct, Numbered, WasSerialized, IsInjective, Range
<1>2. CASE ~WasSerialized(a)
  <2>1. /\ a \notin DOMAIN serial_ids
        /\ serial_ids' = [x \in DOMAIN serial_ids \cup {a} |-> IF x = a THEN next_id + 1 ELSE serial_ids[x]]
        /\ next_id' = next_id + 1
    BY <1>2 DEF Numbered, WasSerialized
  <2>2. \A x \in DOMAIN serial_ids : serial_ids[x] \in 1 .. next_id
    BY DEF NumbersInv, NumbersDistinct, Range
  <2>3. next_id \in Nat /\ next_id' \in Nat
    BY <2>1 DEF NumbersInv
  <2>4. IsInjective(serial_ids')
    BY <2>1, <2>2, <2>3 DEF NumbersInv, NumbersDistinct, IsInjective
  <2>5. Range(serial_ids') = 1 .. next_id'
    <3>1. Range(serial_ids') = Range(serial_ids) \cup {next_id + 1}
      BY <2>1 DEF Range
    <3>2. Range(serial_ids) = 1 .. next_id
      BY DEF NumbersInv, NumbersDistinct
    <3>3. (1 .. next_id) \cup {next_id + 1} = 1 .. next_id + 1
      BY <2>3
    <3> QED
      BY <2>1, <3>1, <3>2, <3>3
  <2> QED
    BY <2>1, <2>3, <2>4, <2>5 DEF NumbersInv, NumbersDistinct
<1> QED
  BY <1>1, <1>2

LEMMA SameNumbers ==
  ASSUME NumbersInv, UNCHANGED <<serial_ids, next_id>>
  PROVE  NumbersInv'
BY DEF NumbersInv, NumbersDistinct, IsInjective, Range

LEMMA CheckObjectDistinct ==
  ASSUME NumbersInv, NEW a, NEW over, CheckObject(a, over)
  PROVE  NumbersInv'
<1>1. CASE a = Nil
  BY <1>1, SameNumbers DEF CheckObject
<1>2. CASE a # Nil
  BY <1>2, NumberedDistinct DEF CheckObject
<1> QED
  BY <1>1, <1>2

LEMMA NextDistinct ==
  ASSUME NumbersInv, [Next]_vars
  PROVE  NumbersInv'
<1>1. CASE SerializeObject
  BY <1>1, CheckObjectDistinct DEF SerializeObject
<1>2. CASE SerializeObjectField
  BY <1>2, CheckObjectDistinct DEF SerializeObjectField
<1>3. CASE SerializeArrayField
  BY <1>3, SameNumbers, NumberedDistinct DEF SerializeArrayField
<1>4. CASE ObjectWritten
  <2>1. serial_ids' = <<>> /\ next_id' = 0
    BY <1>4 DEF ObjectWritten
  <2> QED
    BY <2>1 DEF NumbersInv, NumbersDistinct, IsInjective, Range
<1>5. CASE Write \/ ExpandSerialBuffer \/ WriteSerializedBytes
  BY <1>5, SameNumbers DEF Write, ExpandSerialBuffer, WriteSerializedBytes, Copied, serializerVars
<1>6. CASE SerializeValue \/ SkipField \/ ObjectDone
  BY <1>6, SameNumbers DEF SerializeValue, SkipField, ObjectDone
<1>7. CASE ReadValue \/ DeserializeArray \/ ReadObject \/ DeserializeObject \/ DeserializeField
  BY <1>7, SameNumbers DEF ReadValue, DeserializeArray, ReadObject, DeserializeObject, DeserializeField, serializerVars
<1>8. CASE NoArrayField \/ KnownArrayField \/ NewArrayField \/ ObjectField \/ PassField \/ ReturnInstance
  BY <1>8, SameNumbers DEF NoArrayField, KnownArrayField, NewArrayField, ObjectField, PassField, ReturnInstance, serializerVars
<1>9. CASE Done \/ UNCHANGED vars
  BY <1>9, SameNumbers DEF Done, vars, serializerVars
<1> QED
  BY <1>1, <1>2, <1>3, <1>4, <1>5, <1>6, <1>7, <1>8, <1>9 DEF Next

(* No two objects of a call have the same number and none is skipped        *)
(* (ObjectSerializer::WasSerialized), whatever the memory.                  *)
THEOREM NumbersAreDistinct == Spec => []NumbersDistinct
<1>1. Init => NumbersInv
  BY NoNumbers DEF Init
<1>2. NumbersInv /\ [Next]_vars => NumbersInv'
  BY NextDistinct
<1>3. NumbersInv => NumbersDistinct
  BY DEF NumbersInv
<1> QED
  BY <1>1, <1>2, <1>3, PTL DEF Spec

(* There are as many numbers as objects that have one, which all exist.     *)
IdsInv ==
  /\ NumbersInv
  /\ DOMAIN serial_ids \subseteq DOMAIN memory
  /\ IsFiniteSet(DOMAIN serial_ids) /\ Cardinality(DOMAIN serial_ids) = next_id

LEMMA NoIds ==
  ASSUME serial_ids = <<>>, next_id = 0
  PROVE  IdsInv
<1>1. DOMAIN serial_ids = {}
  OBVIOUS
<1> QED
  BY <1>1, NoNumbers, FS_EmptySet DEF IdsInv

LEMMA NumberedFits ==
  ASSUME WellFormed(case), case' = case, IdsInv, NEW a \in DOMAIN memory, Numbered(a)
  PROVE  /\ IdsInv' /\ Fits(IdOf(a)) /\ next_id \in Nat
         /\ WasSerialized(a) => IdOf(a) \in 1 .. next_id /\ next_id' = next_id
         /\ ~WasSerialized(a) => IdOf(a) = -(next_id + 1) /\ next_id' = next_id + 1
<1> DEFINE n == Len(memory)
           D == DOMAIN serial_ids
<1>1. n \in Nat /\ DOMAIN memory = 1 .. n /\ \A i \in 1 .. n : Fits(i) /\ Fits(-i)
  <2>1. memory \in Seq(ToSet(memory)) /\ \A i \in DOMAIN memory : Fits(i) /\ Fits(-i)
    BY Zenon DEF WellFormed, memory
  <2>2. n \in Nat /\ DOMAIN memory = 1 .. n
    BY <2>1
  <2> QED
    BY <2>1, <2>2
<1>2. NumbersInv' /\ memory' = memory
  BY NumberedDistinct DEF IdsInv, memory
<1>3. next_id \in Nat /\ IsFiniteSet(D) /\ Cardinality(D) = next_id /\ D \subseteq 1 .. n
  BY <1>1 DEF IdsInv, NumbersInv
<1> HIDE DEF n, D
<1>4. IsFiniteSet(1 .. n) /\ Cardinality(1 .. n) = n
  BY <1>1, FS_Interval
<1>5. next_id <= n
  BY <1>3, <1>4, FS_Subset
<1>6. CASE WasSerialized(a)
  <2>1. serial_ids' = serial_ids /\ next_id' = next_id
    BY <1>6 DEF Numbered
  <2>2. IdOf(a) \in 1 .. next_id
    BY <1>6 DEF IdsInv, NumbersInv, NumbersDistinct, Range, IdOf, WasSerialized
  <2>3. IdOf(a) \in 1 .. n
    BY <1>1, <1>3, <1>5, <2>2
  <2>4. IdsInv'
    BY <1>2, <2>1 DEF IdsInv
  <2> QED
    BY <1>1, <1>3, <1>6, <2>1, <2>2, <2>3, <2>4
<1>7. CASE ~WasSerialized(a)
  <2>1. DOMAIN serial_ids' = D \cup {a} /\ next_id' = next_id + 1 /\ a \notin D
    BY <1>7 DEF Numbered, WasSerialized, D
  <2>2. IsFiniteSet(D \cup {a}) /\ Cardinality(D \cup {a}) = next_id + 1
    BY <1>3, <2>1, FS_AddElement
  <2>3. D \cup {a} \subseteq 1 .. n
    BY <1>1, <1>3
  <2>4. next_id + 1 <= n
    BY <1>4, <2>2, <2>3, FS_Subset
  <2>5. next_id + 1 \in 1 .. n
    BY <1>1, <1>3, <2>4
  <2>6. IdsInv'
    BY <1>1, <1>2, <2>1, <2>2, <2>3 DEF IdsInv
  <2> QED
    BY <1>1, <1>3, <1>7, <2>1, <2>5, <2>6 DEF IdOf
<1> QED
  BY <1>6, <1>7

-----------------------------------------------------------------------------
(* Writing an object: every step of the serializer is one of a walk over    *)
(* the bytes it leaves.                                                    *)
Reached(p, s, m, b) == \E t : Walk(p, s, 0, m, t) /\ t[m] = b

LEMMA StateIs ==
  ASSUME NEW stack, NEW next, NEW pos
  PROVE  /\ State(stack, next, pos).stack = stack /\ State(stack, next, pos).next = next /\ State(stack, next, pos).pos = pos
         /\ IsText(stack) /\ next \in Nat /\ pos \in Nat => IsState(State(stack, next, pos))
BY DEF State, IsState

LEMMA ReachedFirst == \A p : Reached(p, <<>>, 0, State(<<>>, 0, 0))
<1> TAKE p
<1> DEFINE a == State(<<>>, 0, 0)
           t == [i \in 0 .. 0 |-> a]
<1>1. IsState(a) /\ a.pos = 0
  BY StateIs, EmptyText
<1>2. t[0] = a /\ \A i \in 0 .. 0 : t[i] = a
  OBVIOUS
<1>3. Len(<<>>) = 0
  OBVIOUS
<1> HIDE DEF t
<1>4. Walk(p, <<>>, 0, 0, t)
  <2>1. 0 + t[0].pos <= Len(<<>>) /\ t[0].pos <= t[0].pos
    BY <1>1, <1>2, <1>3
  <2>2. \A i \in 0 .. 0 : IsState(t[i]) /\ t[i].pos <= t[0].pos
    BY <1>1, <1>2
  <2>3. \A i \in 1 .. 0 : FALSE
    OBVIOUS
  <2> HIDE DEF a
  <2> QED
    BY <1>2, <2>1, <2>2, <2>3 DEF Walk, a
<1> QED
  BY <1>2, <1>4 DEF Reached

LEMMA ReachedNext ==
  ASSUME NEW p, NEW s, NEW w, IsText(s), IsText(w), NEW m \in Nat, NEW a, Reached(p, s, m, a), a.pos = Len(s),
         NEW b, IsState(b), b.pos = Len(s \o w), b.pos > 0, WalkStep(p, s \o w, Len(s), a, b)
  PROVE  Reached(p, s \o w, m + 1, b)
<1>1. PICK t : Walk(p, s, 0, m, t) /\ t[m] = a
  BY DEF Reached
<1>2. Len(s) \in Nat /\ Len(w) \in Nat /\ Len(s \o w) = Len(s) + Len(w)
  BY Joined, TextIs
<1>3. t[m].pos <= b.pos /\ 0 + b.pos <= Len(s \o w) /\ 0 + t[m].pos = Len(s)
  BY <1>1, <1>2
<1>4. Walk(p, s \o w, 0, m + 1, Longer(m, t, b))
  BY <1>1, <1>3, WalkGoesOn
<1>5. Longer(m, t, b)[m + 1] = b
  BY DEF Longer
<1> QED
  BY <1>4, <1>5 DEF Reached

LEMMA CheckObjectStep ==
  ASSUME WellFormed(case), case' = case, IdsInv, IsText(values), NEW a, a = Nil \/ ObjectIn(case, a),
         NEW over \in Seq(FrameSet), NEW st, Shape(memory, over) = Over(st), CheckObject(a, over)
  PROVE  /\ IdsInv'
         /\ work' = over \/ (ObjectIn(case, a) /\ work' = Append(over, Frame(a)))
         /\ \E w : /\ IsText(w) /\ values' = values \o w /\ Len(w) > 0
                   /\ ObjectStep(case, values \o w, Len(values), State(st, next_id, Len(values)),
                                 State(Shape(memory, work'), next_id', Len(values \o w)))
<1> DEFINE k == Len(values)
           from == State(st, next_id, k)
<1>1. k \in Nat /\ from.stack = st /\ from.next = next_id /\ from.pos = k
  BY TextIs, StateIs
<1>2. CASE a = Nil
  <2> DEFINE w == SerializeByte(0)
  <2>1. IsText(w) /\ Len(w) = 1 /\ ByteIs(values \o w, k, 0)
    BY ByteText, ByteNow
  <2>2. Len(values \o w) = k + 1
    <3> HIDE DEF w
    <3> QED
      BY <2>1, JoinedLength
  <2>3. values' = values \o w /\ work' = over /\ serial_ids' = serial_ids /\ next_id' = next_id
    BY <1>2 DEF CheckObject
  <2>4. IdsInv'
    BY <2>3, SameNumbers DEF IdsInv, memory
  <2> HIDE DEF w
  <2>5. ObjectStep(case, values \o w, k, from, State(Shape(memory, work'), next_id', Len(values \o w)))
    BY <1>1, <2>1, <2>2, <2>3 DEF ObjectStep, NothingStep
  <2>6. Len(w) > 0
    BY <2>1
  <2> QED
    BY <2>1, <2>3, <2>4, <2>5, <2>6
<1>3. CASE a # Nil
  <2> DEFINE cls == memory[a].cls
             id == IdOf(a)
             b == SerializeByte(1)
             c == SerializeInt(cls)
             i == SerializeInt(id)
             w == b \o (c \o i)
             s == values \o w
  <2>1. ObjectIn(case, a) /\ a \in DOMAIN memory /\ cls \in DOMAIN case.classes /\ Fits(cls)
    <3>1. \A n \in DOMAIN case.classes : Fits(n)
      BY Zenon DEF WellFormed
    <3> QED
      BY <1>3, <3>1 DEF ObjectIn, memory
  <2>2. /\ values' = values \o b \o c \o i
        /\ work' = IF WasSerialized(a) THEN over ELSE Append(over, Frame(a))
        /\ Numbered(a)
    BY <1>3 DEF CheckObject
  <2>3. /\ IdsInv' /\ Fits(id) /\ next_id \in Nat
        /\ WasSerialized(a) => id \in 1 .. next_id /\ next_id' = next_id
        /\ ~WasSerialized(a) => id = -(next_id + 1) /\ next_id' = next_id + 1
    BY <2>1, <2>2, NumberedFits
  <2>4. IsText(b) /\ Len(b) = 1 /\ IsText(c) /\ Len(c) = IntBytes /\ IsText(i) /\ Len(i) = IntBytes /\ IntBytes \in Nat
    BY ByteText, IntText, Widths
  <2>5. IsText(c \o i) /\ Len(c \o i) = IntBytes + IntBytes /\ Holds(c \o i, 0, cls) /\ Holds(c \o i, IntBytes + 0, id)
    <3>1. Holds(i, 0, id)
      BY <2>3, HoldsFirst, EmptyText
    <3>2. Holds(c \o i, 0, cls)
      BY <2>1, <2>4, HoldsFirst
    <3> HIDE DEF c, i
    <3>3. IsText(c \o i) /\ Len(c \o i) = IntBytes + IntBytes
      BY <2>4, JoinedLength
    <3>4. Holds(c \o i, Len(c) + 0, id)
      BY <2>4, <3>1, HoldsLater
    <3> QED
      BY <2>4, <3>2, <3>3, <3>4
  <2> DEFINE ci == c \o i
  <2>6. IsText(ci) /\ Len(ci) = 2 * IntBytes /\ Holds(ci, 0, cls) /\ Holds(ci, IntBytes, id)
    BY <2>4, <2>5
  <2>7. values' = values \o w
    <3> HIDE DEF b, c, i
    <3>1. Cat(Cat(Cat(values, b), c), i) = Cat(values, Cat(b, Cat(c, i)))
      BY <2>4, CatThrice
    <3> QED
      BY <2>2, <3>1 DEF Cat
  <2>8. w = b \o ci
    OBVIOUS
  <2> HIDE DEF ci, w
  <2>9. IsText(w) /\ Len(w) = 1 + 2 * IntBytes /\ ByteIs(w, 0, 1)
    BY <2>6, <2>8, ByteFirst
  <2> HIDE DEF b
  <2>10. Holds(w, 1 + 0, cls) /\ Holds(w, 1 + IntBytes, id)
    BY <2>4, <2>6, <2>8, HoldsLater
  <2>11. Len(s) = k + (1 + 2 * IntBytes) /\ IsText(s)
    BY <2>9, JoinedLength
  <2>12. ByteIs(s, k + 0, 1) /\ Holds(s, k + (1 + 0), cls) /\ Holds(s, k + (1 + IntBytes), id)
    BY <2>4, <2>9, <2>10, ByteLater, HoldsLater
  <2>13. k + 0 = k /\ k + (1 + 0) = k + 1 /\ k + (1 + IntBytes) = k + 1 + IntBytes /\ k + (1 + 2 * IntBytes) = k + 1 + 2 * IntBytes
    BY <1>1, <2>4
  <2>14. ByteIs(s, k, 1) /\ Holds(s, k + 1, cls) /\ Holds(s, k + 1 + IntBytes, id) /\ Len(s) = k + 1 + 2 * IntBytes
    BY <2>11, <2>12, <2>13
  <2>15. Len(w) > 0
    BY <2>4, <2>9
  <2>16. CASE WasSerialized(a)
    <3>1. ObjectStep(case, s, k, from, State(Shape(memory, work'), next_id', Len(s)))
      <4> HIDE DEF s, k, from, id, cls
      <4> QED
        BY <1>1, <2>1, <2>2, <2>3, <2>14, <2>16 DEF ObjectStep
    <3> QED
      BY <2>2, <2>3, <2>7, <2>9, <2>15, <2>16, <3>1
  <2>17. CASE ~WasSerialized(a)
    <3>1. Frame(a) \in FrameSet /\ Frame(a).at = a /\ Frame(a).dclr = 1
      <4>1. a \in Nat
        <5>1. memory \in Seq(ToSet(memory))
          BY Zenon DEF WellFormed, memory
        <5> QED
          BY <2>1, <5>1
      <4> QED
        BY <4>1 DEF Frame, FrameSet
    <3>2. Shape(memory, work') = Append(Over(st), [cls |-> cls, dclr |-> 1])
      BY <2>2, <2>17, <3>1, ShapeAppend
    <3>3. ObjectStep(case, s, k, from, State(Shape(memory, work'), next_id', Len(s)))
      <4> HIDE DEF s, k, from, id, cls
      <4> QED
        BY <1>1, <2>1, <2>3, <2>14, <2>17, <3>2 DEF ObjectStep
    <3> QED
      BY <2>1, <2>2, <2>3, <2>7, <2>9, <2>15, <2>17, <3>3
  <2> QED
    BY <2>16, <2>17
<1> QED
  BY <1>2, <1>3

(* Frames are at the places of their fields' words. *)
WorkInv(fs) ==
  /\ fs \in Seq(FrameSet)
  /\ \A i \in 1 .. Len(fs) : ObjectIn(case, fs[i].at) /\ fs[i].pos = Place(Class(memory[fs[i].at]), fs[i].dclr)

LEMMA TopPlace ==
  ASSUME WorkInv(work), work # <<>>
  PROVE  Top \in FrameSet /\ Top.dclr \in Nat \ {0} /\ ObjectIn(case, Top.at) /\ Top.pos = Place(Declared, Top.dclr)
<1> DEFINE n == Len(work)
<1>1. work \in Seq(FrameSet) /\ n \in 1 .. n
  BY DEF WorkInv
<1>2. \A i \in 1 .. n : ObjectIn(case, work[i].at) /\ work[i].pos = Place(Class(memory[work[i].at]), work[i].dclr)
  BY DEF WorkInv
<1>3. Top = work[n]
  BY DEF Top, Last
<1>4. Top \in FrameSet /\ Top.dclr \in Nat \ {0}
  <2>1. Top \in FrameSet
    BY <1>1, <1>3, ElementOfSeq
  <2>2. \A f \in FrameSet : f.dclr \in Nat \ {0}
    BY DEF FrameSet
  <2> QED
    BY <2>1, <2>2
<1> HIDE DEF n
<1> QED
  BY <1>1, <1>2, <1>3, <1>4 DEF Declared

LEMMA TopIs ==
  ASSUME WellFormed(case), WorkInv(work), work # <<>>
  PROVE  /\ Top \in FrameSet /\ ObjectIn(case, Top.at) /\ Top.pos = Place(Declared, Top.dclr)
         /\ Last(Shape(memory, work)) = [cls |-> memory[Top.at].cls, dclr |-> Top.dclr]
         /\ Shape(memory, work) # <<>>
         /\ InObject => /\ Field \in ArrayTypes \cup {"CHAR", "INT", "FLOAT", "OBJ", "OBJ_ARY"}
                        /\ Field # "OBJ_ARY" => IsWord(case, Field, Word)
<1>1. work \in Seq(FrameSet) /\ Len(work) \in 1 .. Len(work)
  BY DEF WorkInv
<1>2. Top \in FrameSet /\ Top.dclr \in Nat \ {0}
  BY TopPlace
<1>3. ObjectIn(case, Top.at) /\ Top.pos = Place(Declared, Top.dclr)
  BY TopPlace
<1>4. Last(Shape(memory, work)) = [cls |-> memory[Top.at].cls, dclr |-> Top.dclr] /\ Shape(memory, work) # <<>>
  BY <1>1, ShapeIs DEF Top
<1>5. ASSUME InObject PROVE Field \in ArrayTypes \cup {"CHAR", "INT", "FLOAT", "OBJ", "OBJ_ARY"}
                            /\ (Field # "OBJ_ARY" => IsWord(case, Field, Word))
  <2> DEFINE types == ArrayTypes \cup {"CHAR", "INT", "FLOAT", "OBJ", "OBJ_ARY"}
             cls == memory[Top.at].cls
  <2>1. /\ case.classes \in Seq(Seq(types))
        /\ \A v \in DOMAIN memory : ObjectIn(case, v) => IsInstance(case.classes[memory[v].cls], case, memory[v].mem)
    BY Zenon DEF WellFormed, memory
  <2> HIDE DEF types
  <2>2. cls \in DOMAIN case.classes /\ Top.at \in DOMAIN memory
    BY <1>3 DEF ObjectIn, memory
  <2>3. Declared \in Seq(types) /\ Declared = case.classes[cls]
    BY <2>1, <2>2 DEF Declared, Class
  <2>4. IsInstance(Declared, case, memory[Top.at].mem)
    BY <1>3, <2>1, <2>2, <2>3
  <2>5. Top.dclr \in 1 .. Len(Declared)
    BY <1>2, <1>5, <2>3 DEF InObject
  <2>6. Field \in types
    BY <2>3, <2>5 DEF Field
  <2>7. Field # "OBJ_ARY" => IsWord(case, Field, Word)
    BY <1>3, <2>4, <2>5 DEF IsInstance, Field, Word
  <2> QED
    BY <2>6, <2>7 DEF types
<1> QED
  BY <1>2, <1>3, <1>4, <1>5

LEMMA WorkPassed ==
  ASSUME WorkInv(work), work # <<>>,
         NEW width, width = IF Field = "FLOAT" THEN 2 ELSE IF Field = "OBJ_ARY" THEN 0 ELSE 1
  PROVE  WorkInv(Passed(work, width)) /\ Shape(memory, Passed(work, width)) = Over(Shape(memory, work))
<1> DEFINE n == Len(work)
           gs == Passed(work, width)
<1>1. work \in Seq(FrameSet) /\ n \in Nat /\ n \in 1 .. n /\ width \in Int
  BY DEF WorkInv
<1>2. /\ gs \in Seq(FrameSet) /\ Len(gs) = n /\ \A i \in 1 .. n - 1 : gs[i] = work[i]
      /\ gs[n] = [at |-> Top.at, dclr |-> Top.dclr + 1, pos |-> Top.pos + width]
  BY <1>1, PassedIs DEF Last, Top
<1>3. Shape(memory, gs) = Over(Shape(memory, work))
  BY <1>1, ShapePassed
<1>4. Top \in FrameSet /\ ObjectIn(case, Top.at) /\ Top.pos = Place(Declared, Top.dclr) /\ Top.dclr \in Nat \ {0}
  BY TopPlace
<1>5. Place(Declared, Top.dclr + 1) = Top.pos + width
  BY <1>4, PlaceStep DEF Field
<1> HIDE DEF gs
<1>6. ASSUME NEW i \in 1 .. n PROVE ObjectIn(case, gs[i].at) /\ gs[i].pos = Place(Class(memory[gs[i].at]), gs[i].dclr)
  <2>1. CASE i = n
    BY <1>2, <1>4, <1>5, <2>1 DEF Declared
  <2>2. CASE i # n
    <3>1. i \in 1 .. n - 1
      <4> HIDE DEF n
      <4> QED
        BY <1>1, <2>2
    <3>2. gs[i] = work[i]
      BY <1>2, <3>1
    <3> QED
      BY <3>2 DEF WorkInv
  <2> QED
    BY <2>1, <2>2
<1> QED
  BY <1>2, <1>3, <1>6 DEF WorkInv, gs

LEMMA WorkFront ==
  ASSUME WorkInv(work), work # <<>>
  PROVE  WorkInv(Front(work)) /\ Shape(memory, Front(work)) = Front(Shape(memory, work))
<1>1. work \in Seq(FrameSet) /\ Len(work) \in Nat
  BY DEF WorkInv
<1>2. Front(work) \in Seq(FrameSet) /\ Len(Front(work)) = Len(work) - 1 /\ \A i \in 1 .. Len(work) - 1 : Front(work)[i] = work[i]
  BY <1>1, SubSeqProperties DEF Front
<1>3. Shape(memory, Front(work)) = Front(Shape(memory, work))
  BY <1>1, ShapeFront
<1>4. \A i \in 1 .. Len(work) - 1 : i \in 1 .. Len(work)
  BY <1>1
<1> QED
  BY <1>2, <1>3, <1>4 DEF WorkInv

LEMMA WorkAppend ==
  ASSUME WellFormed(case), NEW fs, WorkInv(fs), NEW a, ObjectIn(case, a)
  PROVE  WorkInv(Append(fs, Frame(a)))
<1> DEFINE gs == Append(fs, Frame(a))
           n == Len(fs)
<1>1. a \in Nat
  <2>1. memory \in Seq(ToSet(memory)) /\ a \in DOMAIN memory
    BY Zenon DEF WellFormed, memory, ObjectIn
  <2> QED
    BY <2>1
<1>2. Frame(a) \in FrameSet /\ Frame(a).at = a /\ Frame(a).dclr = 1 /\ Frame(a).pos = 1
  BY <1>1 DEF Frame, FrameSet
<1>3. fs \in Seq(FrameSet) /\ n \in Nat
  BY DEF WorkInv
<1>4. gs \in Seq(FrameSet) /\ Len(gs) = n + 1 /\ gs[n + 1] = Frame(a) /\ \A i \in 1 .. n : gs[i] = fs[i]
  BY <1>2, <1>3, AppendProperties
<1>5. 1 = Place(Class(memory[a]), 1)
  BY PlaceStep
<1> HIDE DEF gs
<1>6. \A i \in 1 .. n + 1 : i = n + 1 \/ i \in 1 .. n
  BY <1>3
<1> QED
  BY <1>2, <1>4, <1>5, <1>6 DEF WorkInv, gs

LEMMA FieldWalks ==
  ASSUME WellFormed(case), WorkInv(work), InObject, NEW s, NEW k, NEW next, NEW pos, NEW b,
         FieldStep(case, Field, s, k, State(Shape(memory, work), next, pos), b)
  PROVE  WalkStep(case, s, k, State(Shape(memory, work), next, pos), b)
<1> DEFINE a == State(Shape(memory, work), next, pos)
<1>1. work # <<>> /\ Top.dclr <= Len(Declared)
  BY DEF InObject
<1>2. a.stack # <<>> /\ Last(a.stack) = [cls |-> memory[Top.at].cls, dclr |-> Top.dclr]
  BY <1>1, TopIs, StateIs
<1>3. Declared = case.classes[memory[Top.at].cls] /\ Field = Declared[Top.dclr]
  BY DEF Declared, Class, Field
<1> HIDE DEF a
<1> QED
  BY <1>1, <1>2, <1>3, SMTT(20) DEF WalkStep, a

(* What an ObjectSerializer under way has collected is a walk. *)
Walking ==
  /\ WorkInv(work) /\ IdsInv /\ IsText(values) /\ values # <<>>
  /\ \E m \in Nat \ {0} : Reached(case, values, m, State(Shape(memory, work), next_id, Len(values)))

LEMMA WalkExtends ==
  ASSUME case' = case, IsText(values), NEW st, NEW m \in Nat, Reached(case, values, m, State(st, next_id, Len(values))),
         NEW w, IsText(w), values' = values \o w, Len(values) + Len(w) > 0, WorkInv(work'), IdsInv',
         WalkStep(case, values \o w, Len(values), State(st, next_id, Len(values)),
                  State(Shape(memory, work'), next_id', Len(values \o w)))
  PROVE  Walking'
<1> DEFINE s == values \o w
           a == State(st, next_id, Len(values))
           b == State(Shape(memory, work'), next_id', Len(s))
<1>1. IsText(s) /\ Len(s) = Len(values) + Len(w) /\ Len(s) \in Nat
  BY JoinedLength, TextIs
<1>2. IsText(Shape(memory, work')) /\ next_id' \in Nat
  BY ShapeIs DEF WorkInv, IdsInv, NumbersInv
<1>3. a.pos = Len(values) /\ IsState(b) /\ b.pos = Len(s) /\ b.pos > 0
  BY <1>1, <1>2, StateIs
<1>4. Reached(case, s, m + 1, b)
  <2> HIDE DEF a, b
  <2> QED
    BY <1>3, ReachedNext DEF a, b
<1>5. memory' = memory
  BY DEF memory
<1>6. s # <<>>
  BY <1>1, EmptyText
<1>7. Reached(case', values', m + 1, State(Shape(memory', work'), next_id', Len(values')))
  BY <1>4, <1>5
<1>8. WorkInv(work)'
  BY <1>5 DEF WorkInv, Class
<1>9. m + 1 \in Nat \ {0}
  OBVIOUS
<1> QED
  BY <1>1, <1>6, <1>7, <1>8, <1>9 DEF Walking

(* A step that leaves the buffer and the program alone. *)
LEMMA SerializeObjectWalks ==
  ASSUME WellFormed(case), values = <<>>, work = <<>>, serial_ids = <<>>, next_id = 0, Writing, called \in Nat, SerializeObject
  PROVE  Walking'
<1> DEFINE a == case.calls[called + 1].v
<1>1. case' = case /\ CheckObject(a, <<>>)
  BY DEF SerializeObject, Next1
<1>2. a = Nil \/ ObjectIn(case, a)
  <2>1. case.calls \in Seq(ToSet(case.calls)) /\ \A n \in DOMAIN case.calls : IsWord(case, case.calls[n].type, case.calls[n].v)
    BY Zenon DEF WellFormed
  <2>2. called + 1 \in DOMAIN case.calls
    BY <2>1 DEF Writing
  <2>3. case.calls[called + 1].type = "OBJ"
    BY DEF SerializeObject, Next1
  <2> QED
    BY <2>1, <2>2, <2>3 DEF IsWord
<1>3. <<>> \in Seq(FrameSet) /\ IsText(values) /\ IdsInv
  BY NoIds, EmptyText
<1>4. Shape(memory, <<>>) = Over(<<>>)
  BY <1>3, ShapeIs, OverNothing
<1> HIDE DEF a
<1>5. /\ IdsInv'
      /\ work' = <<>> \/ (ObjectIn(case, a) /\ work' = Append(<<>>, Frame(a)))
      /\ \E w : /\ IsText(w) /\ values' = values \o w /\ Len(w) > 0
                /\ ObjectStep(case, values \o w, Len(values), State(<<>>, next_id, Len(values)),
                              State(Shape(memory, work'), next_id', Len(values \o w)))
  BY <1>1, <1>2, <1>3, <1>4, CheckObjectStep
<1>6. WorkInv(work')
  <2>1. WorkInv(<<>>)
    BY <1>3 DEF WorkInv
  <2> QED
    BY <1>5, <2>1, WorkAppend
<1>7. PICK w : /\ IsText(w) /\ values' = values \o w /\ Len(w) > 0
               /\ ObjectStep(case, values \o w, Len(values), State(<<>>, next_id, Len(values)),
                             State(Shape(memory, work'), next_id', Len(values \o w)))
  BY <1>5
<1>8. Len(values) = 0
  BY EmptyText
<1>9. Reached(case, values, 0, State(<<>>, next_id, Len(values)))
  BY <1>8, ReachedFirst
<1>10. WalkStep(case, values \o w, Len(values), State(<<>>, next_id, Len(values)), State(Shape(memory, work'), next_id', Len(values \o w)))
  BY <1>7, <1>8, StateIs DEF WalkStep
<1>11. Len(values) + Len(w) > 0 /\ 0 \in Nat
  BY <1>7, <1>8, TextIs
<1> QED
  BY <1>1, <1>3, <1>5, <1>6, <1>7, <1>9, <1>10, <1>11, WalkExtends

(* One that goes on from where there are bytes already. *)
LEMMA WalkingOn ==
  ASSUME case' = case, Walking, NEW w, IsText(w), values' = values \o w, WorkInv(work'), IdsInv',
         WalkStep(case, values \o w, Len(values), State(Shape(memory, work), next_id, Len(values)),
                  State(Shape(memory, work'), next_id', Len(values \o w)))
  PROVE  Walking'
<1>1. PICK m \in Nat \ {0} : Reached(case, values, m, State(Shape(memory, work), next_id, Len(values)))
  BY DEF Walking
<1>2. IsText(values) /\ Len(values) + Len(w) > 0
  BY EmptyText, TextIs DEF Walking
<1> QED
  BY <1>1, <1>2, WalkExtends

LEMMA SerializeValueWalks ==
  ASSUME WellFormed(case), Walking, SerializeValue
  PROVE  Walking'
<1> DEFINE width == IF Field = "FLOAT" THEN 2 ELSE 1
           w == FlattenSeq(Pieces(Field, Word))
           k == Len(values)
           s == values \o w
<1>1. /\ case' = case /\ InObject /\ Field \in {"CHAR", "INT", "FLOAT"} /\ values' = s /\ work' = Passed(work, width)
      /\ serial_ids' = serial_ids /\ next_id' = next_id
  BY DEF SerializeValue, Advanced, Passed
<1>2. WorkInv(work) /\ work # <<>> /\ IsText(values) /\ IdsInv /\ k \in Nat
  BY <1>1, TextIs DEF Walking, InObject
<1>3. IsWord(case, Field, Word)
  BY <1>1, <1>2, TopIs
<1>4. IsText(w) /\ ValueSize(Field, w, 0, Len(w)) /\ Len(w) \in Nat
  BY <1>1, <1>3, ValueText, TextIs
<1>5. WorkInv(work') /\ Shape(memory, work') = Over(Shape(memory, work))
  BY <1>1, <1>2, WorkPassed
<1>6. IdsInv'
  BY <1>1, <1>2, SameNumbers DEF IdsInv, memory
<1> HIDE DEF w
<1>7. ValueSize(Field, s, k, Len(w)) /\ Len(s) = k + Len(w)
  <2>1. ValueSize(Field, s, k + 0, Len(w)) /\ k + 0 = k
    BY <1>2, <1>4, ValueSizeLater
  <2> QED
    BY <1>2, <1>4, <2>1, JoinedLength
<1>8. FieldStep(case, Field, s, k, State(Shape(memory, work), next_id, k), State(Shape(memory, work'), next_id', Len(s)))
  <2> HIDE DEF s, k
  <2> QED
    BY <1>1, <1>4, <1>5, <1>7, StateIs DEF FieldStep, ValueStep
<1>9. WalkStep(case, s, k, State(Shape(memory, work), next_id, k), State(Shape(memory, work'), next_id', Len(s)))
  BY <1>1, <1>2, <1>8, FieldWalks
<1> QED
  BY <1>1, <1>4, <1>5, <1>6, <1>9, WalkingOn

LEMMA SerializeObjectFieldWalks ==
  ASSUME WellFormed(case), Walking, SerializeObjectField
  PROVE  Walking'
<1> DEFINE over == Passed(work, 1)
           st == Shape(memory, work)
           k == Len(values)
<1>1. case' = case /\ InObject /\ Field = "OBJ" /\ CheckObject(Word, over)
  BY DEF SerializeObjectField, Advanced, Passed
<1>2. WorkInv(work) /\ work # <<>> /\ IsText(values) /\ IdsInv
  BY <1>1 DEF Walking, InObject
<1>3. Word = Nil \/ ObjectIn(case, Word)
  BY <1>1, <1>2, TopIs DEF IsWord
<1>4. WorkInv(over) /\ Shape(memory, over) = Over(st)
  BY <1>1, <1>2, WorkPassed
<1>5. over \in Seq(FrameSet)
  BY <1>4 DEF WorkInv
<1> HIDE DEF over, st
<1>6. /\ IdsInv'
      /\ work' = over \/ (ObjectIn(case, Word) /\ work' = Append(over, Frame(Word)))
      /\ \E w : /\ IsText(w) /\ values' = values \o w /\ Len(w) > 0
                /\ ObjectStep(case, values \o w, Len(values), State(st, next_id, Len(values)),
                              State(Shape(memory, work'), next_id', Len(values \o w)))
  BY <1>1, <1>2, <1>3, <1>4, <1>5, CheckObjectStep
<1>7. WorkInv(work')
  BY <1>4, <1>6, WorkAppend
<1>8. PICK w : /\ IsText(w) /\ values' = values \o w /\ Len(w) > 0
               /\ ObjectStep(case, values \o w, Len(values), State(st, next_id, Len(values)),
                             State(Shape(memory, work'), next_id', Len(values \o w)))
  BY <1>6
<1>9. WalkStep(case, values \o w, Len(values), State(st, next_id, Len(values)), State(Shape(memory, work'), next_id', Len(values \o w)))
  <2>1. FieldStep(case, Field, values \o w, Len(values), State(st, next_id, Len(values)), State(Shape(memory, work'), next_id', Len(values \o w)))
    BY <1>1, <1>8 DEF FieldStep
  <2> QED
    BY <1>1, <1>2, <2>1, FieldWalks DEF st
<1> QED
  BY <1>1, <1>6, <1>7, <1>8, <1>9, WalkingOn DEF st

LEMMA ArrayWalks ==
  ASSUME WellFormed(case), Walking, case' = case, InObject, Field \in ArrayTypes, work' = Passed(work, 1),
         IdsInv', NEW w, IsText(w), values' = values \o w,
         ArrayStep(Field, values \o w, Len(values), State(Shape(memory, work), next_id, Len(values)),
                   State(Over(Shape(memory, work)), next_id', Len(values \o w)))
  PROVE  Walking'
<1> DEFINE st == Shape(memory, work)
           a == State(st, next_id, Len(values))
           b == State(Over(st), next_id', Len(values \o w))
<1>1. WorkInv(work) /\ work # <<>> /\ Field # "FLOAT" /\ Field # "OBJ_ARY"
  BY DEF Walking, InObject, ArrayTypes
<1>2. WorkInv(work') /\ Shape(memory, work') = Over(st)
  BY <1>1, WorkPassed
<1>3. FieldStep(case, Field, values \o w, Len(values), a, b)
  BY DEF FieldStep
<1>4. WalkStep(case, values \o w, Len(values), a, b)
  <2> HIDE DEF b
  <2> QED
    BY <1>1, <1>3, FieldWalks
<1> QED
  BY <1>2, <1>4, WalkingOn

LEMMA SerializeArrayFieldWalks ==
  ASSUME WellFormed(case), Walking, SerializeArrayField
  PROVE  Walking'
<1> DEFINE st == Shape(memory, work)
           k == Len(values)
           a == State(st, next_id, k)
<1>1. case' = case /\ InObject /\ Field \in ArrayTypes /\ work' = Passed(work, 1) /\ work # <<>>
  BY DEF SerializeArrayField, Advanced, Passed, InObject
<1>2. WorkInv(work) /\ IsText(values) /\ IdsInv /\ k \in Nat
  BY TextIs DEF Walking
<1>3. Word # Nil => ArrayIn(case, Field, Word)
  <2>1. Field # "OBJ_ARY"
    BY <1>1 DEF ArrayTypes
  <2>2. IsWord(case, Field, Word)
    BY <1>1, <1>2, <2>1, TopIs
  <2> QED
    BY <1>1, <2>2 DEF IsWord
<1>4. a.stack = st /\ a.next = next_id /\ a.pos = k
  BY StateIs
<1>5. CASE Word = Nil
  <2> DEFINE w == SerializeByte(0)
  <2>1. values' = values \o w /\ serial_ids' = serial_ids /\ next_id' = next_id
    BY <1>5 DEF SerializeArrayField
  <2>2. IdsInv'
    BY <1>1, <1>2, <2>1, SameNumbers DEF IdsInv, memory
  <2>3. IsText(w) /\ Len(w) = 1 /\ ByteIs(values \o w, k, 0)
    BY <1>2, ByteText, ByteNow
  <2> HIDE DEF w
  <2>4. Len(values \o w) = k + 1
    BY <1>2, <2>3, JoinedLength
  <2> HIDE DEF st, k, a
  <2>5. ArrayStep(Field, values \o w, k, a, State(Over(st), next_id', Len(values \o w)))
    BY <1>4, <2>1, <2>3, <2>4 DEF ArrayStep, NothingStep
  <2> QED
    BY <1>1, <2>1, <2>2, <2>3, <2>5, ArrayWalks DEF st, k, a
<1>6. CASE Word # Nil
  <2> DEFINE id == IdOf(Word)
             b == SerializeByte(1)
             c == SerializeInt(id)
             x == FlattenSeq(ArrayInObject(Field, memory[Word]))
             d == IF WasSerialized(Word) THEN <<>> ELSE x
             cd == c \o d
             w == b \o cd
             s == values \o w
  <2>1. ArrayIn(case, Field, Word) /\ Word \in DOMAIN memory
    BY <1>3, <1>6 DEF ArrayIn, memory
  <2>2. values' = values \o (b \o c \o d) /\ Numbered(Word)
    BY <1>6 DEF SerializeArrayField
  <2>3. /\ IdsInv' /\ Fits(id) /\ next_id \in Nat
        /\ WasSerialized(Word) => id \in 1 .. next_id /\ next_id' = next_id
        /\ ~WasSerialized(Word) => id = -(next_id + 1) /\ next_id' = next_id + 1
    BY <1>1, <1>2, <2>1, <2>2, NumberedFits
  <2>4. IsText(b) /\ Len(b) = 1 /\ IsText(c) /\ Len(c) = IntBytes /\ IntBytes \in Nat
    BY ByteText, IntText, Widths
  <2>5. IsText(x) /\ ArraySize(Field, x, 0, Len(x)) /\ Len(x) \in Nat
    <3> DEFINE y == ArrayInObject(Field, case.memory[Word])
    <3>1. IsText(FlattenSeq(y)) /\ ArraySize(Field, FlattenSeq(y), 0, Len(FlattenSeq(y)))
      BY <1>1, <2>1, ArrayInObjectText
    <3>2. x = FlattenSeq(y)
      BY DEF memory
    <3> QED
      BY <3>1, <3>2, TextIs
  <2> HIDE DEF x
  <2>6. IsText(d) /\ Len(d) \in Nat
    BY <2>5, EmptyText
  <2> HIDE DEF d
  <2>7. IsText(cd) /\ Len(cd) = IntBytes + Len(d) /\ Holds(cd, 0, id)
    BY <2>3, <2>6, HoldsFirst
  <2>8. b \o c \o d = w
    <3>1. Cat(Cat(b, c), d) = Cat(b, Cat(c, d))
      BY <2>4, <2>6, CatTwice
    <3> QED
      BY <3>1 DEF Cat
  <2>9. IsText(w) /\ Len(w) = 1 + Len(cd) /\ ByteIs(w, 0, 1)
    <3> HIDE DEF cd
    <3> QED
      BY <2>7, ByteFirst
  <2>10. Holds(w, 1 + 0, id)
    <3> HIDE DEF b, cd
    <3> QED
      BY <2>4, <2>7, HoldsLater
  <2> HIDE DEF id
  <2>11. IsText(s) /\ Len(s) = k + (1 + (IntBytes + Len(d))) /\ ByteIs(s, k + 0, 1) /\ Holds(s, k + (1 + 0), id)
    <3> HIDE DEF w
    <3>1. IsText(s) /\ Len(s) = k + Len(w)
      BY <1>2, <2>9, JoinedLength
    <3>2. ByteIs(s, k + 0, 1)
      BY <1>2, <2>9, ByteLater
    <3>3. Holds(s, k + (1 + 0), id)
      BY <1>2, <2>9, <2>10, HoldsLater
    <3> QED
      BY <2>7, <2>9, <3>1, <3>2, <3>3
  <2>12. k + 0 = k /\ k + (1 + 0) = k + 1 /\ k + (1 + (IntBytes + Len(d))) = k + 1 + IntBytes + Len(d)
    BY <1>2, <2>4, <2>6
  <2>13. Len(s) = k + 1 + IntBytes + Len(d) /\ ByteIs(s, k, 1) /\ Holds(s, k + 1, id)
    BY <2>11, <2>12
  <2>14. values' = s
    BY <2>2, <2>8
  <2>15. CASE WasSerialized(Word)
    <3>1. Len(d) = 0
      BY <2>15, EmptyText DEF d
    <3>2. Len(s) = k + 1 + IntBytes
      BY <1>2, <2>4, <2>13, <3>1
    <3>3. ArrayStep(Field, s, k, a, State(Over(st), next_id', Len(s)))
      <4> HIDE DEF s, k, a, st
      <4> QED
        BY <1>4, <2>3, <2>13, <2>15, <3>2 DEF ArrayStep
    <3> HIDE DEF w
    <3> QED
      BY <1>1, <2>3, <2>9, <2>14, <3>3, ArrayWalks
  <2>16. CASE ~WasSerialized(Word)
    <3>1. d = x
      BY <2>16 DEF d
    <3>2. ArraySize(Field, s, k + 1 + IntBytes, Len(x))
      <4>1. ArraySize(Field, c \o x, IntBytes + 0, Len(x))
        <5> HIDE DEF c
        <5> QED
          BY <2>4, <2>5, ArraySizeLater
      <4>2. ArraySize(Field, cd, IntBytes, Len(x))
        BY <2>4, <3>1, <4>1
      <4>3. ArraySize(Field, w, 1 + IntBytes, Len(x))
        <5> HIDE DEF b, cd
        <5> QED
          BY <2>4, <2>7, <4>2, ArraySizeLater
      <4>4. ArraySize(Field, s, k + (1 + IntBytes), Len(x))
        <5> HIDE DEF w
        <5> QED
          BY <1>2, <2>4, <2>9, <4>3, ArraySizeLater
      <4>5. k + (1 + IntBytes) = k + 1 + IntBytes
        BY <1>2, <2>4
      <4> QED
        BY <4>4, <4>5
    <3>3. Len(s) = k + 1 + IntBytes + Len(x)
      BY <2>13, <3>1
    <3>4. ArrayStep(Field, s, k, a, State(Over(st), next_id', Len(s)))
      <4> HIDE DEF s, k, a, st
      <4> QED
        BY <1>4, <2>3, <2>5, <2>13, <2>16, <3>2, <3>3 DEF ArrayStep
    <3> HIDE DEF w
    <3> QED
      BY <1>1, <2>3, <2>9, <2>14, <3>4, ArrayWalks
  <2> QED
    BY <2>15, <2>16
<1> QED
  BY <1>5, <1>6

(* A step that writes nothing. *)
LEMMA WalkingSilently ==
  ASSUME case' = case, Walking, values' = values, serial_ids' = serial_ids, next_id' = next_id, WorkInv(work'),
         WalkStep(case, values, Len(values), State(Shape(memory, work), next_id, Len(values)),
                  State(Shape(memory, work'), next_id, Len(values)))
  PROVE  Walking'
<1>1. IsText(<<>>) /\ values \o <<>> = values
  BY EmptyText DEF Walking
<1>2. IdsInv'
  BY SameNumbers DEF Walking, IdsInv, memory
<1>3. WalkStep(case, values \o <<>>, Len(values), State(Shape(memory, work), next_id, Len(values)),
               State(Shape(memory, work'), next_id', Len(values \o <<>>)))
  BY <1>1
<1> QED
  BY <1>1, <1>2, <1>3, WalkingOn

LEMMA SkipFieldWalks ==
  ASSUME WellFormed(case), Walking, SkipField
  PROVE  Walking'
<1> DEFINE st == Shape(memory, work)
<1>1. /\ case' = case /\ InObject /\ Field = "OBJ_ARY" /\ values' = values /\ serial_ids' = serial_ids /\ next_id' = next_id
      /\ work' = [work EXCEPT ![Len(work)].dclr = @ + 1] /\ work # <<>>
  BY DEF SkipField, InObject
<1>2. WorkInv(work) /\ work \in Seq(FrameSet)
  BY DEF Walking, WorkInv
<1>3. work' = Passed(work, 0)
  BY <1>1, <1>2, PassedNothing
<1>4. WorkInv(work') /\ Shape(memory, work') = Over(st)
  BY <1>1, <1>2, <1>3, WorkPassed
<1>5. FieldStep(case, Field, values, Len(values), State(st, next_id, Len(values)), State(Over(st), next_id, Len(values)))
  BY <1>1, StateIs DEF FieldStep
<1>6. WalkStep(case, values, Len(values), State(st, next_id, Len(values)), State(Over(st), next_id, Len(values)))
  BY <1>1, <1>2, <1>5, FieldWalks
<1> QED
  BY <1>1, <1>4, <1>6, WalkingSilently

LEMMA ObjectDoneWalks ==
  ASSUME WellFormed(case), Walking, ObjectDone
  PROVE  Walking'
<1> DEFINE st == Shape(memory, work)
           a == State(st, next_id, Len(values))
<1>1. /\ case' = case /\ ~InObject /\ values' = values /\ serial_ids' = serial_ids /\ next_id' = next_id
      /\ work' = Front(work) /\ work # <<>>
  BY DEF ObjectDone
<1>2. WorkInv(work)
  BY DEF Walking
<1>3. WorkInv(work') /\ Shape(memory, work') = Front(st)
  BY <1>1, <1>2, WorkFront
<1>4. a.stack = st /\ a.next = next_id /\ a.pos = Len(values) /\ st # <<>> /\ Last(st) = [cls |-> memory[Top.at].cls, dclr |-> Top.dclr]
  BY <1>1, <1>2, TopIs, StateIs
<1>5. ~(Top.dclr <= Len(case.classes[memory[Top.at].cls]))
  BY <1>1 DEF InObject, Declared, Class
<1>6. WalkStep(case, values, Len(values), a, State(Front(st), next_id, Len(values)))
  <2> HIDE DEF st, a
  <2> QED
    BY <1>4, <1>5 DEF WalkStep
<1> QED
  BY <1>1, <1>3, <1>6, WalkingSilently

-----------------------------------------------------------------------------
(* Marks delimit what calls have written; the buffer never outgrows its     *)
(* array.  A call is not begun before the one before has been copied, so    *)
(* either nothing is under way, or what is left to copy completes the call,  *)
(* or the ObjectSerializer is on its walk.                                 *)
Mark(n) == IF n = 0 THEN 0 ELSE marks[n]
Segment(n) == Mark(n - 1) <= Mark(n) /\ Mark(n) <= Len(buffer) /\ CallSize(case, case.calls[n].type, buffer, Mark(n - 1), Mark(n) - Mark(n - 1))
BufferInv ==
  /\ WellFormed(case)
  /\ IsText(buffer) /\ size \in Nat /\ Len(buffer) <= size
  /\ marks \in Seq(Nat) /\ called \in Nat /\ called <= Len(case.calls)
  /\ \A n \in 1 .. Len(marks) : Segment(n)
NothingCollected == values = <<>> /\ work = <<>> /\ serial_ids = <<>> /\ next_id = 0
Resting == chunks = <<>> /\ NothingCollected /\ called = Len(marks) /\ Len(buffer) = Mark(Len(marks))
Whole == buffer \o FlattenSeq(chunks)
Copying ==
  /\ chunks # <<>> /\ IsTexts(chunks) /\ NothingCollected /\ called = Len(marks) + 1
  /\ Mark(Len(marks)) <= Len(buffer)
  /\ CallSize(case, case.calls[called].type, Whole, Mark(Len(marks)), Len(Whole) - Mark(Len(marks)))
Collecting ==
  /\ chunks = <<>> /\ Walking /\ called = Len(marks) + 1 /\ case.calls[called].type = "OBJ"
  /\ Len(buffer) = Mark(Len(marks))
WriterInv == BufferInv /\ (Resting \/ Copying \/ Collecting)

LEMMA MarksIs ==
  ASSUME BufferInv
  PROVE  Len(marks) \in Nat /\ Mark(Len(marks)) \in Nat /\ \A n \in 1 .. Len(marks) : Mark(n - 1) \in Nat /\ Mark(n) \in Nat
<1> DEFINE n == Len(marks)
<1>1. marks \in Seq(Nat) /\ n \in Nat
  BY DEF BufferInv
<1>2. \A i \in 1 .. n : marks[i] \in Nat
  BY <1>1
<1> HIDE DEF n
<1>3. \A i \in 0 .. n : Mark(i) \in Nat
  <2> TAKE i \in 0 .. n
  <2>1. i = 0 \/ i \in 1 .. n
    BY <1>1
  <2> QED
    BY <1>2, <2>1 DEF Mark
<1>4. n \in 0 .. n /\ \A i \in 1 .. n : i \in 0 .. n /\ i - 1 \in 0 .. n
  BY <1>1
<1> QED
  BY <1>1, <1>3, <1>4 DEF n

LEMMA SameBuffer ==
  ASSUME BufferInv, UNCHANGED <<case, buffer, marks>>, size' \in Nat, size <= size', called' \in Nat, called' <= Len(case.calls)
  PROVE  BufferInv'
<1>1. Len(buffer) \in Nat
  BY TextIs DEF BufferInv
<1> QED
  BY <1>1 DEF BufferInv, Segment, Mark

(* What is written behind the marks changes none of what is before them. *)
LEMMA LongerBuffer ==
  ASSUME BufferInv, NEW w, IsText(w), buffer' = buffer \o w, case' = case, NEW n \in 1 .. Len(marks), marks'[n] = marks[n],
         n = 1 \/ marks'[n - 1] = marks[n - 1]
  PROVE  Segment(n)'
<1> DEFINE k == Mark(n - 1)
           l == Mark(n)
           type == case.calls[n].type
<1>1. k \in Nat /\ l \in Nat
  BY MarksIs
<1>2. k <= l /\ l <= Len(buffer) /\ CallSize(case, type, buffer, k, l - k) /\ IsText(buffer)
  BY DEF BufferInv, Segment
<1>3. Mark(n)' = l /\ Mark(n - 1)' = k
  BY MarksIs DEF Mark
<1> HIDE DEF k, l, type
<1>4. Len(buffer) \in Nat /\ IsText(buffer \o w) /\ Len(buffer \o w) = Len(buffer) + Len(w) /\ Len(w) \in Nat
  BY <1>2, JoinedLength, TextIs
<1>5. l - k \in Nat /\ k + (l - k) <= Len(buffer)
  BY <1>1, <1>2, <1>4
<1>6. Alike(buffer, k, buffer \o w, k, l - k)
  BY <1>1, <1>2, <1>5, LongerAlike
<1>7. CallSize(case, type, buffer \o w, k, l - k)
  BY <1>1, <1>2, <1>4, <1>5, <1>6, CallMoves
<1>8. l <= Len(buffer \o w)
  BY <1>1, <1>2, <1>4
<1> QED
  BY <1>2, <1>3, <1>7, <1>8 DEF Segment, type

(* A call whose bytes wait behind the buffer. *)
LEMMA CallWaits ==
  ASSUME BufferInv, NEW w, IsText(w), NEW type, CallSize(case, type, w, 0, Len(w)), Len(buffer) = Mark(Len(marks))
  PROVE  CallSize(case, type, buffer \o w, Mark(Len(marks)), Len(buffer \o w) - Mark(Len(marks)))
<1>1. IsText(buffer) /\ Len(buffer) \in Nat /\ Len(w) \in Nat /\ IsText(buffer \o w) /\ Len(buffer \o w) = Len(buffer) + Len(w)
  BY JoinedLength, TextIs DEF BufferInv
<1>2. Alike(w, 0, buffer \o w, Len(buffer), Len(w))
  BY <1>1, LaterAlike
<1>3. CallSize(case, type, buffer \o w, Len(buffer), Len(w))
  BY <1>1, <1>2, CallMoves
<1>4. Len(buffer \o w) - Len(buffer) = Len(w)
  BY <1>1
<1> QED
  BY <1>3, <1>4

LEMMA WriteKeeps ==
  ASSUME WriterInv, Write
  PROVE  BufferInv' /\ Copying'
<1> DEFINE type == Next1.type
           x == <<SerializeInt(Tag(type))>> \o Pieces(type, Next1.v)
           f == FlattenSeq(x)
<1>1. /\ UNCHANGED <<case, buffer, size, marks, values, serial_ids, next_id, work>> /\ chunks' = x /\ called' = called + 1
      /\ chunks = <<>> /\ values = <<>> /\ called < Len(case.calls) /\ type # "OBJ"
  BY DEF Write, Writing, serializerVars
<1>2. BufferInv /\ Resting
  BY <1>1 DEF WriterInv, Copying, Collecting, Walking
<1>3. called \in Nat /\ Len(case.calls) \in Nat /\ called + 1 \in DOMAIN case.calls /\ WellFormed(case)
  <2>1. case.calls \in Seq(ToSet(case.calls)) /\ WellFormed(case)
    BY <1>2, Zenon DEF WellFormed, BufferInv
  <2>2. called \in Nat
    BY <1>2 DEF BufferInv
  <2> QED
    BY <1>1, <2>1, <2>2
<1>4. BufferInv'
  <2>1. size \in Nat /\ size <= size
    BY <1>2 DEF BufferInv
  <2> QED
    BY <1>1, <1>2, <1>3, <2>1, SameBuffer
<1>5. IsTexts(x) /\ IsText(f) /\ CallSize(case, type, f, 0, Len(f))
  BY <1>1, <1>3, BareText DEF Next1
<1>6. x # <<>>
  <2>1. Holds(f, 0, Tag(type))
    BY <1>1, <1>5 DEF CallSize
  <2>2. Len(f) # 0
    BY <2>1, Widths DEF Holds
  <2> QED
    BY <2>2, EmptyText, FlattenedNone
<1> HIDE DEF x
<1>7. CallSize(case, type, buffer \o f, Mark(Len(marks)), Len(buffer \o f) - Mark(Len(marks)))
  <2> HIDE DEF f
  <2> QED
    BY <1>2, <1>5, CallWaits DEF Resting
<1>8. Whole' = buffer \o f /\ Mark(Len(marks))' = Mark(Len(marks)) /\ type = case.calls'[called'].type /\ case'.calls = case.calls
  BY <1>1 DEF Whole, Mark, Next1
<1>9. Mark(Len(marks)) <= Len(buffer)
  BY <1>2, MarksIs DEF Resting
<1> QED
  BY <1>1, <1>2, <1>4, <1>5, <1>6, <1>7, <1>8, <1>9 DEF Copying, Resting, NothingCollected

LEMMA ExpandKeeps ==
  ASSUME WriterInv, ExpandSerialBuffer
  PROVE  BufferInv' /\ Copying'
<1>1. /\ UNCHANGED <<case, called, chunks, buffer, marks, values, serial_ids, next_id, work>> /\ chunks # <<>>
      /\ size' = size + Offset \div 2
  BY DEF ExpandSerialBuffer, serializerVars
<1>2. BufferInv /\ Copying
  BY <1>1 DEF WriterInv, Resting, Collecting
<1>3. Offset \in Nat
  <2>1. IsText(chunks) /\ \A i \in 1 .. Len(chunks) : IsText(chunks[i])
    BY <1>2, FlattenedText DEF Copying
  <2>2. 1 \in 1 .. Len(chunks)
    BY <1>1, <2>1, EmptyText, TextIs
  <2>3. Len(Head(chunks)) \in Nat
    <3>1. IsText(chunks[1])
      BY <2>1, <2>2
    <3>2. Head(chunks) = chunks[1]
      BY <1>1, <2>1 DEF IsText
    <3> QED
      BY <3>1, <3>2, TextIs
  <2> QED
    BY <1>2, <2>3, TextIs DEF Offset, BufferInv
<1>4. size' \in Nat /\ size <= size' /\ called' = called
  BY <1>1, <1>2, <1>3 DEF BufferInv
<1>5. BufferInv'
  BY <1>1, <1>2, <1>4, SameBuffer DEF BufferInv
<1> QED
  BY <1>1, <1>2, <1>5 DEF Copying, NothingCollected, Whole, Mark

LEMMA FirstOf ==
  ASSUME NEW s, IsTexts(s), s # <<>>
  PROVE  /\ IsText(Head(s)) /\ IsTexts(Tail(s)) /\ FlattenSeq(s) = Head(s) \o FlattenSeq(Tail(s))
         /\ Len(s) \in Nat \ {0} /\ (Len(s) = 1 <=> Tail(s) = <<>>)
<1>1. PICK S : s \in Seq(Seq(S))
  BY DEF IsTexts
<1> DEFINE h == Head(s)
           r == Tail(s)
<1>2. h \in Seq(S) /\ r \in Seq(Seq(S)) /\ Len(s) \in Nat \ {0} /\ Len(r) = Len(s) - 1
  BY <1>1
<1>3. s = <<h>> \o r
  <2>1. <<h>> \in Seq(Seq(S)) /\ Len(<<h>>) = 1 /\ <<h>>[1] = h
    BY <1>2
  <2> DEFINE one == <<h>>
             u == one \o r
  <2> HIDE DEF one
  <2>2. u \in Seq(Seq(S)) /\ Len(u) = Len(s) /\ \A i \in 1 .. Len(s) : u[i] = IF i <= 1 THEN one[i] ELSE r[i - 1]
    BY <1>2, <2>1, ConcatProperties DEF one
  <2>3. ASSUME NEW i \in 1 .. Len(s) PROVE u[i] = s[i]
    <3>1. CASE i = 1
      BY <1>1, <1>2, <2>1, <2>2, <3>1 DEF one
    <3>2. CASE i # 1
      <4>1. i - 1 \in 1 .. Len(r) /\ ~(i <= 1)
        BY <1>2, <3>2
      <4>2. r[i - 1] = s[i]
        BY <1>1, <1>2, <4>1
      <4> HIDE DEF r, u
      <4> QED
        BY <2>2, <4>1, <4>2
    <3> QED
      BY <3>1, <3>2
  <2> HIDE DEF u
  <2>4. u = s
    BY <1>1, <2>2, <2>3, SeqEqual
  <2> QED
    BY <2>4 DEF u, one
<1>4. IsText(h) /\ IsTexts(r)
  BY <1>2 DEF IsText, IsTexts
<1>5. FlattenSeq(<<h>> \o r) = h \o FlattenSeq(r)
  <2> HIDE DEF h, r
  <2> QED
    BY <1>4, FlattenedFirst
<1>6. Len(s) = 1 <=> r = <<>>
  <2>1. IsText(r) /\ Len(r) = Len(s) - 1
    BY <1>2 DEF IsText
  <2> HIDE DEF r
  <2>2. Len(r) = 0 <=> r = <<>>
    BY <2>1, EmptyText
  <2> QED
    BY <1>2, <2>1, <2>2
<1> QED
  BY <1>2, <1>3, <1>4, <1>5, <1>6

LEMMA CopyKeeps ==
  ASSUME WriterInv, WriteSerializedBytes
  PROVE  BufferInv' /\ (Resting' \/ Copying')
<1> DEFINE h == Head(chunks)
           r == Tail(chunks)
           b == buffer \o h
           f == FlattenSeq(r)
           type == case.calls[called].type
<1>1. /\ UNCHANGED <<case, called, size, values, serial_ids, next_id, work>> /\ chunks # <<>>
      /\ buffer' = b /\ chunks' = r /\ Len(buffer) + Len(h) < size
      /\ marks' = IF Len(chunks) = 1 THEN Append(marks, Len(b)) ELSE marks
  BY DEF WriteSerializedBytes, Copied, serializerVars, Offset
<1>2. BufferInv /\ Copying
  BY <1>1 DEF WriterInv, Resting, Collecting
<1>3. IsText(h) /\ IsTexts(r) /\ FlattenSeq(chunks) = h \o FlattenSeq(r) /\ (Len(chunks) = 1 <=> r = <<>>)
  BY <1>2, FirstOf DEF Copying
<1>4. IsText(f)
  BY <1>3, FlattenedText
<1>n. PICK n \in Nat : n = Len(marks)
  BY <1>2, MarksIs
<1>k. PICK k \in Nat : k = Mark(n)
  BY <1>2, <1>n, MarksIs
<1>5. /\ IsText(buffer) /\ size \in Nat /\ marks \in Seq(Nat) /\ k <= Len(buffer)
      /\ called = n + 1 /\ CallSize(case, type, Whole, k, Len(Whole) - k) /\ Len(buffer) \in Nat /\ Len(h) \in Nat
  BY <1>2, <1>3, <1>n, <1>k, TextIs DEF BufferInv, Copying
<1> HIDE DEF h, r, f
<1>6. IsText(b) /\ Len(b) = Len(buffer) + Len(h) /\ Len(b) \in Nat /\ Len(b) < size
  BY <1>1, <1>3, <1>5, JoinedLength
<1>7. Whole = b \o f
  <2>1. Cat(Cat(buffer, h), f) = Cat(buffer, Cat(h, f))
    BY <1>3, <1>4, <1>5, CatTwice
  <2> QED
    BY <1>3, <2>1 DEF Whole, Cat, f
<1>8. ASSUME NEW i \in 1 .. n, \A j \in 1 .. n : marks'[j] = marks[j] PROVE Segment(i)'
  <2>1. i = 1 \/ i - 1 \in 1 .. n
    OBVIOUS
  <2> QED
    BY <1>1, <1>2, <1>3, <1>8, <1>n, <2>1, LongerBuffer
<1>9. NothingCollected /\ WellFormed(case) /\ called \in Nat /\ called <= Len(case.calls)
  BY <1>2 DEF Copying, BufferInv
<1>10. NothingCollected'
  BY <1>1, <1>9 DEF NothingCollected
<1>11. CASE Len(chunks) = 1
  <2>1. marks' = Append(marks, Len(b)) /\ chunks' = <<>> /\ f = <<>>
    BY <1>1, <1>3, <1>11, FlattenedNone DEF f
  <2>2. marks' \in Seq(Nat) /\ Len(marks') = n + 1 /\ marks'[n + 1] = Len(b) /\ \A j \in 1 .. n : marks'[j] = marks[j]
    BY <1>5, <1>6, <1>n, <2>1, AppendProperties
  <2>3. Whole = b
    BY <1>6, <1>7, <2>1, EmptyText
  <2>4. Mark(n + 1)' = Len(b) /\ Mark(n)' = k /\ n + 1 # 0
    <3>1. n + 1 # 0 /\ (n # 0 => n \in 1 .. n)
      OBVIOUS
    <3> HIDE DEF b
    <3> QED
      BY <1>k, <2>2, <3>1 DEF Mark
  <2>5. Segment(n + 1)'
    <3>1. (n + 1) - 1 = n /\ k <= Len(b)
      BY <1>5, <1>6
    <3>2. case'.calls[n + 1].type = type /\ case' = case /\ buffer' = b
      BY <1>1, <1>5
    <3>3. CallSize(case, type, b, k, Len(b) - k)
      BY <1>5, <2>3
    <3>5. PICK l \in Nat : l = Len(b)
      BY <1>6
    <3> HIDE DEF b, type
    <3> QED
      BY <2>4, <3>1, <3>2, <3>3, <3>5 DEF Segment
  <2>6. \A i \in 1 .. n + 1 : i = n + 1 \/ i \in 1 .. n
    OBVIOUS
  <2>7. \A i \in 1 .. n + 1 : Segment(i)'
    <3>1. \A i \in 1 .. n : Segment(i)'
      BY <1>8, <2>2
    <3> QED
      BY <2>5, <2>6, <3>1
  <2>8. Len(b) <= size
    BY <1>5, <1>6
  <2>9. BufferInv'
    <3> HIDE DEF b
    <3> QED
      BY <1>1, <1>5, <1>6, <1>9, <2>2, <2>7, <2>8 DEF BufferInv
  <2>10. Mark(Len(marks))' = Len(b) /\ called' = Len(marks') /\ Len(buffer') = Len(b)
    <3> HIDE DEF b
    <3> QED
      BY <1>1, <1>5, <2>2, <2>4
  <2>11. Resting'
    <3> HIDE DEF b
    <3> QED
      BY <1>10, <2>1, <2>10 DEF Resting
  <2> QED
    BY <2>9, <2>11
<1>12. CASE Len(chunks) # 1
  <2>1. marks' = marks /\ chunks' # <<>>
    BY <1>1, <1>3, <1>12
  <2>2. \A i \in 1 .. n : Segment(i)'
    BY <1>8, <2>1
  <2>3. Len(b) <= size /\ k <= Len(b)
    BY <1>5, <1>6
  <2>4. BufferInv'
    <3> HIDE DEF b
    <3> QED
      BY <1>1, <1>5, <1>6, <1>9, <1>n, <2>1, <2>2, <2>3 DEF BufferInv
  <2>5. Whole' = Whole /\ Mark(Len(marks))' = k /\ Len(marks)' = n
    BY <1>1, <1>7, <1>n, <1>k, <2>1 DEF Whole, f, Mark
  <2>6. Copying'
    <3> HIDE DEF b
    <3> QED
      BY <1>1, <1>3, <1>5, <1>10, <2>1, <2>3, <2>5 DEF Copying
  <2> QED
    BY <2>4, <2>6
<1> QED
  BY <1>11, <1>12

LEMMA SerializeObjectKeeps ==
  ASSUME WriterInv, SerializeObject
  PROVE  BufferInv' /\ Collecting'
<1>1. /\ UNCHANGED <<case, chunks, buffer, size, marks>> /\ called' = called + 1 /\ Writing
      /\ chunks = <<>> /\ values = <<>> /\ called < Len(case.calls) /\ Next1.type = "OBJ"
  BY DEF SerializeObject, Writing, bufferVars
<1>2. BufferInv /\ Resting
  BY <1>1 DEF WriterInv, Copying, Collecting, Walking
<1>3. called \in Nat /\ Len(case.calls) \in Nat /\ WellFormed(case) /\ size \in Nat
  <2>1. case.calls \in Seq(ToSet(case.calls)) /\ WellFormed(case)
    BY <1>2, Zenon DEF WellFormed, BufferInv
  <2> QED
    BY <1>2, <2>1 DEF BufferInv
<1>4. BufferInv'
  BY <1>1, <1>2, <1>3, SameBuffer
<1>5. Walking'
  BY <1>1, <1>2, <1>3, SerializeObjectWalks DEF Resting, NothingCollected
<1> QED
  BY <1>1, <1>2, <1>4, <1>5 DEF Collecting, Resting, Next1, Mark

LEMMA CollectingKeeps ==
  ASSUME WriterInv, SerializeValue \/ SerializeArrayField \/ SerializeObjectField \/ SkipField \/ ObjectDone
  PROVE  BufferInv' /\ Collecting'
<1>1. UNCHANGED <<case, called, chunks, buffer, size, marks>> /\ work # <<>>
  BY DEF SerializeValue, SerializeArrayField, SerializeObjectField, SkipField, ObjectDone, InObject, bufferVars
<1>2. BufferInv /\ Collecting
  BY <1>1 DEF WriterInv, Resting, Copying, NothingCollected
<1>3. WellFormed(case) /\ Walking
  BY <1>2 DEF BufferInv, Collecting
<1>4. Walking'
  BY <1>3, SerializeValueWalks, SerializeArrayFieldWalks, SerializeObjectFieldWalks, SkipFieldWalks, ObjectDoneWalks
<1>5. BufferInv'
  BY <1>1, <1>2, SameBuffer DEF BufferInv
<1> QED
  BY <1>1, <1>2, <1>4, <1>5 DEF Collecting, Mark

LEMMA ObjectWrittenKeeps ==
  ASSUME WriterInv, ObjectWritten
  PROVE  BufferInv' /\ Copying'
<1>1. /\ UNCHANGED <<case, called, buffer, size, marks>> /\ values # <<>> /\ work = <<>> /\ work' = <<>>
      /\ chunks' = <<values>> /\ values' = <<>> /\ serial_ids' = <<>> /\ next_id' = 0
  BY DEF ObjectWritten
<1>2. BufferInv /\ Collecting
  BY <1>1 DEF WriterInv, Resting, Copying, NothingCollected
<1>3. WellFormed(case) /\ Walking
  BY <1>2 DEF BufferInv, Collecting
<1>4. BufferInv'
  BY <1>1, <1>2, SameBuffer DEF BufferInv
<1>5. IsText(values) /\ work \in Seq(FrameSet)
  BY <1>3 DEF Walking, WorkInv
<1>6. Shape(memory, work) = <<>>
  BY <1>1, <1>5, ShapeIs
<1>7. CallSize(case, "OBJ", values, 0, Len(values))
  <2>1. PICK m \in Nat \ {0} : Reached(case, values, m, State(<<>>, next_id, Len(values)))
    BY <1>3, <1>6 DEF Walking
  <2>2. PICK t : Walk(case, values, 0, m, t) /\ t[m] = State(<<>>, next_id, Len(values))
    BY <2>1 DEF Reached
  <2>3. t[m].stack = <<>> /\ t[m].pos = Len(values)
    BY <2>2, StateIs
  <2>4. 0 + Len(values) <= Len(values)
    BY <1>5, TextIs
  <2>5. GraphSize(case, values, 0, Len(values))
    BY <2>1, <2>2, <2>3 DEF GraphSize
  <2> QED
    BY <2>4, <2>5 DEF CallSize
<1>8. IsTexts(<<values>>) /\ FlattenSeq(<<values>>) = values
  BY <1>5, OneText
<1>9. CallSize(case, "OBJ", buffer \o values, Mark(Len(marks)), Len(buffer \o values) - Mark(Len(marks)))
  BY <1>2, <1>5, <1>7, CallWaits DEF Collecting
<1>10. Whole' = buffer \o values /\ Mark(Len(marks))' = Mark(Len(marks)) /\ <<values>> # <<>>
  BY <1>1, <1>8 DEF Whole, Mark
<1>11. Mark(Len(marks)) <= Len(buffer) /\ called' = Len(marks') + 1 /\ case'.calls[called'].type = "OBJ"
  BY <1>1, <1>2, MarksIs DEF Collecting
<1> QED
  BY <1>1, <1>4, <1>8, <1>9, <1>10, <1>11 DEF Copying, NothingCollected

(* A reader changes none of this. *)
LEMMA WriterRests ==
  ASSUME WriterInv, UNCHANGED <<case, called, bufferVars, serializerVars>>
  PROVE  WriterInv'
<1>1. UNCHANGED <<case, called, chunks, buffer, size, marks, values, serial_ids, next_id, work>>
  BY DEF bufferVars, serializerVars
<1>2. BufferInv'
  BY <1>1 DEF WriterInv, BufferInv, Segment, Mark
<1>3. IdsInv => IdsInv'
  BY <1>1, SameNumbers DEF IdsInv, memory
<1>4. Walking => Walking'
  BY <1>1, <1>3 DEF Walking, WorkInv, memory, Class
<1> QED
  BY <1>1, <1>2, <1>4 DEF WriterInv, Resting, Copying, Collecting, NothingCollected, Whole, Mark

ReaderStep ==
  \/ ReadValue \/ DeserializeArray
  \/ ReadObject \/ DeserializeObject \/ DeserializeField \/ NoArrayField \/ KnownArrayField \/ NewArrayField \/ ObjectField \/ PassField
  \/ ReturnInstance

LEMMA ReaderOnly == ReaderStep => UNCHANGED <<case, called, bufferVars, serializerVars>>
BY DEF ReaderStep, ReadValue, DeserializeArray, ReadObject, DeserializeObject, DeserializeField, NoArrayField, KnownArrayField,
       NewArrayField, ObjectField, PassField, ReturnInstance

LEMMA WriterNext ==
  ASSUME WriterInv, [Next]_vars
  PROVE  WriterInv'
<1>1. CASE Write
  BY <1>1, WriteKeeps DEF WriterInv
<1>2. CASE ExpandSerialBuffer
  BY <1>2, ExpandKeeps DEF WriterInv
<1>3. CASE WriteSerializedBytes
  BY <1>3, CopyKeeps DEF WriterInv
<1>4. CASE SerializeObject
  BY <1>4, SerializeObjectKeeps DEF WriterInv
<1>5. CASE SerializeValue \/ SerializeArrayField \/ SerializeObjectField \/ SkipField \/ ObjectDone
  BY <1>5, CollectingKeeps DEF WriterInv
<1>6. CASE ObjectWritten
  BY <1>6, ObjectWrittenKeeps DEF WriterInv
<1>7. CASE ReaderStep
  BY <1>7, ReaderOnly, WriterRests
<1>8. CASE UNCHANGED vars
  BY <1>8, WriterRests DEF vars
<1> QED
  BY <1>1, <1>2, <1>3, <1>4, <1>5, <1>6, <1>7, <1>8 DEF Next, Done, ReaderStep

LEMMA WriterInit ==
  ASSUME Init, WellFormed(case)
  PROVE  WriterInv
<1>1. case.calls \in Seq(ToSet(case.calls))
  BY Zenon DEF WellFormed
<1>2. /\ called = 0 /\ chunks = <<>> /\ buffer = <<>> /\ size = InitialSize /\ marks = <<>>
      /\ NothingCollected
  BY DEF Init, NothingCollected
<1>3. IsText(buffer) /\ Len(buffer) = 0 /\ Len(marks) = 0 /\ size \in Nat /\ Len(buffer) <= size
  BY <1>2, SizesAssumption, EmptyText
<1>4. marks \in Seq(Nat) /\ 0 <= Len(case.calls) /\ 0 \in Nat
  BY <1>1, <1>2
<1>5. \A n \in 1 .. Len(marks) : Segment(n)
  BY <1>3
<1>6. BufferInv
  BY <1>2, <1>3, <1>4, <1>5 DEF BufferInv
<1> QED
  BY <1>2, <1>3, <1>6 DEF WriterInv, Resting, Mark

-----------------------------------------------------------------------------
(* What a reader finds at a place. *)
LEMMA IntIs ==
  ASSUME NEW k, NEW n, Holds(buffer, k, n)
  PROVE  IntAt(k) = n
BY DEF Holds, IntAt, Fits

LEMMA ByteAtIs ==
  ASSUME IsText(buffer), NEW k \in Nat, NEW b, ByteIs(buffer, k, b)
  PROVE  ByteAt(k) = b
<1>1. k + 1 \in DOMAIN buffer /\ buffer[k + 1] = b
  BY TextIs DEF ByteIs
<1>2. 1 \in 1 .. 1
  OBVIOUS
<1> QED
  BY <1>1, <1>2 DEF ByteAt, Part

(* Frames that differ in places of words only look the same. *)
LEMMA ShapeSame ==
  ASSUME NEW some, NEW other, NEW fs \in Seq(FrameSet), NEW gs \in Seq(FrameSet), Len(fs) = Len(gs),
         \A j \in 1 .. Len(fs) : other[gs[j].at].cls = some[fs[j].at].cls /\ gs[j].dclr = fs[j].dclr
  PROVE  Shape(other, gs) = Shape(some, fs)
BY DEF Shape

-----------------------------------------------------------------------------
(* The reader takes the walk of the writer: it is at the beginning of a     *)
(* call, or at a state of the call's walk, or has just read the byte of an   *)
(* object that comes next.                                                 *)
IsObject(o) == o = [cls |-> o.cls, head |-> o.head, mem |-> o.mem]
CopyInv == IsText(copy) /\ \A a \in 1 .. Len(copy) : IsObject(copy[a])
FramesInv(fs) == fs \in Seq(FrameSet) /\ \A j \in 1 .. Len(fs) : fs[j].at \in 1 .. Len(copy)
Beginning == Mark(Len(got))
Idle == frames = <<>> /\ ~entering /\ offset = Beginning
Follows(m, t) ==
  /\ Len(got) < Len(marks) /\ case.calls[Len(got) + 1].type = "OBJ"
  /\ start = Beginning + 1
  /\ m \in Nat \ {0} /\ Walk(case, buffer, Beginning, m, t) /\ t[m].stack = <<>> /\ Beginning + t[m].pos = Mark(Len(got) + 1)
At(a, b) ==
  /\ DOMAIN mem_cache = 1 .. a.next
  /\ IF entering THEN /\ Shape(copy, frames) = Over(a.stack) /\ offset = Beginning + a.pos + 1
                      /\ ByteIs(buffer, Beginning + a.pos, 1) /\ ObjectStep(case, buffer, Beginning + a.pos, a, b)
     ELSE frames # <<>> /\ Shape(copy, frames) = a.stack /\ offset = Beginning + a.pos
UnderWay == \E m, t : Follows(m, t) /\ \E i \in 0 .. m - 1 : At(t[i], t[i + 1])
ReaderInv ==
  /\ CopyInv /\ FramesInv(frames) /\ entering \in BOOLEAN
  /\ IsText(got) /\ Len(got) <= Len(marks) /\ (~Serialized => got = <<>>)
  /\ Idle \/ (Serialized /\ UnderWay)

(* What a reader at a state of a walk knows of the step from there. *)
LEMMA FollowsStep ==
  ASSUME WriterInv, ReaderInv, NEW m, NEW t, Follows(m, t), NEW i \in 0 .. m - 1
  PROVE  /\ m \in Nat \ {0} /\ i \in Nat /\ i + 1 \in 1 .. m /\ Beginning \in Nat /\ IsState(t[i]) /\ IsState(t[i + 1])
         /\ WalkStep(case, buffer, Beginning + t[i].pos, t[i], t[i + 1])
         /\ Beginning + t[i + 1].pos <= Mark(Len(got) + 1) /\ Mark(Len(got) + 1) <= Len(buffer)
         /\ Beginning + t[i].pos <= Mark(Len(got) + 1)
<1>1. m \in Nat \ {0} /\ i \in Nat /\ i + 1 \in 1 .. m /\ (i + 1) - 1 = i /\ i \in 0 .. m /\ i + 1 \in 0 .. m
  BY DEF Follows
<1>2. BufferInv
  BY DEF WriterInv
<1>3. Len(got) \in Nat /\ Len(got) + 1 \in 1 .. Len(marks) /\ (Len(got) + 1) - 1 = Len(got)
  <2>1. Len(marks) \in Nat
    BY <1>2, MarksIs
  <2>2. Len(got) \in Nat
    BY TextIs DEF ReaderInv
  <2>3. Len(got) < Len(marks)
    BY DEF Follows
  <2> QED
    BY <2>1, <2>2, <2>3
<1>4. Beginning \in Nat /\ Mark(Len(got) + 1) \in Nat /\ Segment(Len(got) + 1)
  BY <1>2, <1>3, MarksIs DEF Beginning, BufferInv
<1>5. IsState(t[i]) /\ IsState(t[i + 1]) /\ t[i].pos <= t[m].pos /\ t[i + 1].pos <= t[m].pos
  BY <1>1 DEF Follows, Walk
<1>6. WalkStep(case, buffer, Beginning + t[i].pos, t[i], t[i + 1])
  BY <1>1 DEF Follows, Walk
<1>7. t[i].pos \in Nat /\ t[i + 1].pos \in Nat /\ Beginning + t[m].pos = Mark(Len(got) + 1)
  BY <1>5 DEF IsState, Follows
<1>9. m \in 0 .. m
  BY <1>1
<1>10. t[m].pos \in Nat
  BY <1>9 DEF Follows, Walk, IsState
<1>8. Mark(Len(got) + 1) <= Len(buffer)
  BY <1>4 DEF Segment
<1>11. Beginning + t[i + 1].pos <= Mark(Len(got) + 1) /\ Beginning + t[i].pos <= Mark(Len(got) + 1)
  BY <1>4, <1>5, <1>7, <1>10, SMTT(20)
<1> QED
  BY <1>1, <1>4, <1>5, <1>6, <1>8, <1>11

(* Where a step leaves a reader: at the next state, at the end of the call,  *)
(* or in front of an object.                                               *)
LEMMA GoesOn ==
  ASSUME ReaderInv, Serialized, UNCHANGED <<case, called, bufferVars, serializerVars, start, got>>, NEW m, NEW t, Follows(m, t),
         NEW i \in 0 .. m - 1, CopyInv', FramesInv(frames)', frames' # <<>>, entering' = FALSE,
         DOMAIN mem_cache' = 1 .. t[i + 1].next, Shape(copy', frames') = t[i + 1].stack, offset' = Beginning + t[i + 1].pos
  PROVE  ReaderInv'
<1>1. UNCHANGED <<case, called, chunks, buffer, marks, values, got, start>>
  BY DEF bufferVars, serializerVars
<1>2. Serialized' /\ Beginning' = Beginning /\ Mark(Len(got) + 1)' = Mark(Len(got) + 1)
  BY <1>1 DEF Serialized, Beginning, Mark
<1>3. Follows(m, t)'
  BY <1>1, <1>2 DEF Follows
<1>4. m \in Nat \ {0} /\ t[m].stack = <<>>
  BY DEF Follows
<1>5. t[i + 1].stack # <<>>
  BY ShapeIs DEF FramesInv
<1>6. i + 1 \in 0 .. m - 1
  <2>1. i + 1 # m
    BY <1>4, <1>5
  <2> QED
    BY <1>4, <2>1
<1>7. At(t[i + 1], t[(i + 1) + 1])'
  BY <1>2 DEF At
<1>8. UnderWay'
  BY <1>3, <1>6, <1>7 DEF UnderWay
<1> QED
  BY <1>1, <1>2, <1>8 DEF ReaderInv

LEMMA Received ==
  ASSUME WriterInv, ReaderInv, Serialized, UNCHANGED <<case, called, bufferVars, serializerVars>>, Len(got) < Len(marks),
         CopyInv', frames' = <<>>, entering' = FALSE, offset' = Mark(Len(got) + 1), NEW v, got' = Append(got, v)
  PROVE  ReaderInv'
<1>1. UNCHANGED <<case, called, chunks, buffer, marks, values>>
  BY DEF bufferVars, serializerVars
<1>2. IsText(got) /\ Len(got) \in Nat /\ Len(marks) \in Nat
  <2>1. IsText(got)
    BY DEF ReaderInv
  <2>2. Len(marks) \in Nat
    BY MarksIs DEF WriterInv
  <2> QED
    BY <2>1, <2>2, TextIs
<1>3. IsText(got') /\ Len(got') = Len(got) + 1
  <2>1. PICK S : got \in Seq(S)
    BY <1>2 DEF IsText
  <2>2. got \in Seq(S \cup {v}) /\ v \in S \cup {v}
    BY <2>1
  <2>3. got' \in Seq(S \cup {v}) /\ Len(got') = Len(got) + 1
    BY <2>2, AppendProperties
  <2> QED
    BY <2>3 DEF IsText
<1>4. Beginning' = Mark(Len(got) + 1)
  BY <1>1, <1>3 DEF Beginning, Mark
<1>5. Idle' /\ Len(got') <= Len(marks') /\ FramesInv(frames)' /\ Serialized'
  <2>1. frames' \in Seq(FrameSet) /\ Len(frames') = 0
    OBVIOUS
  <2>2. FramesInv(frames)'
    BY <2>1 DEF FramesInv
  <2> QED
    BY <1>1, <1>2, <1>3, <1>4, <2>2 DEF Idle, Serialized
<1> QED
  BY <1>3, <1>5 DEF ReaderInv

LEMMA Arrives ==
  ASSUME WriterInv, ReaderInv, Serialized, UNCHANGED <<case, called, bufferVars, serializerVars>>, NEW m, NEW t, Follows(m, t),
         NEW i \in 1 .. m, t[i].stack = <<>>, CopyInv', frames' = <<>>, entering' = FALSE,
         offset' = Beginning + t[i].pos, NEW v, got' = Append(got, v)
  PROVE  ReaderInv'
<1>1. m \in Nat \ {0} /\ Walk(case, buffer, Beginning, m, t) /\ Len(got) < Len(marks)
  BY DEF Follows
<1>2. ASSUME i # m PROVE FALSE
  <2>1. i + 1 \in 1 .. m /\ (i + 1) - 1 = i
    BY <1>1, <1>2
  <2>2. t[i].pos > 0 /\ WalkStep(case, buffer, Beginning + t[i].pos, t[i], t[i + 1])
    BY <1>1, <2>1 DEF Walk
  <2>3. t[i].pos = 0
    BY <2>2 DEF WalkStep
  <2> QED
    BY <2>2, <2>3
<1>3. offset' = Mark(Len(got) + 1)
  BY <1>2 DEF Follows
<1> QED
  BY <1>1, <1>3, Received

LEMMA Enters ==
  ASSUME ReaderInv, Serialized, UNCHANGED <<case, called, bufferVars, serializerVars, got>>, NEW m, NEW t, Follows(m, t)',
         NEW i \in 0 .. m - 1, CopyInv', FramesInv(frames)', entering' = TRUE,
         DOMAIN mem_cache' = 1 .. t[i].next, Shape(copy', frames') = Over(t[i].stack), offset' = Beginning + t[i].pos + 1,
         ByteIs(buffer, Beginning + t[i].pos, 1), ObjectStep(case, buffer, Beginning + t[i].pos, t[i], t[i + 1])
  PROVE  ReaderInv'
<1>1. UNCHANGED <<case, called, chunks, buffer, marks, values, got>>
  BY DEF bufferVars, serializerVars
<1>2. Serialized' /\ Beginning' = Beginning
  BY <1>1 DEF Serialized, Beginning, Mark
<1>3. At(t[i], t[i + 1])'
  BY <1>1, <1>2 DEF At
<1>4. UnderWay'
  BY <1>3 DEF UnderWay
<1> QED
  BY <1>1, <1>2, <1>4 DEF ReaderInv

-----------------------------------------------------------------------------
(* A word that is filled in changes no class. *)
WithWords(a, x) == [copy EXCEPT ![a].mem = x]

LEMMA SameClasses ==
  ASSUME CopyInv, NEW a \in 1 .. Len(copy), NEW x
  PROVE  /\ IsText(WithWords(a, x)) /\ Len(WithWords(a, x)) = Len(copy)
         /\ \A y \in 1 .. Len(copy) : IsObject(WithWords(a, x)[y]) /\ WithWords(a, x)[y].cls = copy[y].cls
<1> DEFINE n == Len(copy)
           new == WithWords(a, x)
<1>1. n \in Nat /\ DOMAIN copy = 1 .. n /\ copy = [y \in 1 .. n |-> copy[y]] /\ \A y \in 1 .. n : IsObject(copy[y])
  BY TextIs DEF CopyInv
<1>2. new = [y \in 1 .. n |-> IF y = a THEN [copy[a] EXCEPT !.mem = x] ELSE copy[y]]
  BY <1>1 DEF WithWords
<1>3. new = [y \in 1 .. n |-> new[y]]
  BY <1>2
<1> HIDE DEF n, new
<1>4. IsText(new) /\ Len(new) = n
  BY <1>1, <1>3, TextOf
<1>5. ASSUME NEW y \in 1 .. n PROVE IsObject(new[y]) /\ new[y].cls = copy[y].cls
  <2>1. CASE y # a
    BY <1>1, <1>2, <2>1
  <2>2. CASE y = a
    <3> DEFINE o == copy[a]
    <3>1. new[y] = [o EXCEPT !.mem = x] /\ o = [cls |-> o.cls, head |-> o.head, mem |-> o.mem]
      BY <1>1, <1>2, <2>2 DEF IsObject
    <3> HIDE DEF o
    <3>2. new[y] = [cls |-> o.cls, head |-> o.head, mem |-> x]
      BY <3>1
    <3> QED
      BY <2>2, <3>2 DEF IsObject, o
  <2> QED
    BY <2>1, <2>2
<1> QED
  BY <1>4, <1>5 DEF n, new

(* Frames whose innermost has its place moved on. *)
LEMMA MovedOn ==
  ASSUME NEW fs \in Seq(FrameSet), fs # <<>>, NEW width \in Int, NEW gs, gs = [fs EXCEPT ![Len(fs)].pos = @ + width]
  PROVE  gs \in Seq(FrameSet) /\ Len(gs) = Len(fs) /\ \A j \in 1 .. Len(fs) : gs[j].at = fs[j].at /\ gs[j].dclr = fs[j].dclr
<1> DEFINE n == Len(fs)
           one == fs[n]
<1>1. n \in 1 .. n /\ one \in FrameSet
  OBVIOUS
<1>2. PICK u \in Nat, v \in Nat \ {0}, z \in Int : one = [at |-> u, dclr |-> v, pos |-> z]
  BY <1>1 DEF FrameSet
<1> DEFINE more == [one EXCEPT !.pos = @ + width]
<1>3. gs = [fs EXCEPT ![n] = more]
  BY <1>1
<1>4. more = [at |-> u, dclr |-> v, pos |-> z + width]
  <2> HIDE DEF one
  <2> QED
    BY <1>2
<1>5. more \in FrameSet
  <2> HIDE DEF more
  <2> QED
    BY <1>4 DEF FrameSet
<1>6. more.at = one.at /\ more.dclr = one.dclr
  <2> HIDE DEF one, more
  <2> QED
    BY <1>2, <1>4
<1> HIDE DEF more
<1> QED
  BY <1>1, <1>3, <1>5, <1>6, SMTT(20)

LEMMA FilledIs ==
  ASSUME CopyInv, NEW fs, FramesInv(fs), fs # <<>>, NEW words, NEW width \in Int, Filled(fs, words, width)
  PROVE  CopyInv' /\ FramesInv(frames)' /\ frames' # <<>> /\ Shape(copy', frames') = Shape(copy, fs) /\ got' = got
<1> DEFINE n == Len(fs)
           a == Last(fs).at
           one == fs[n]
           gs == [fs EXCEPT ![n].pos = @ + width]
           x == ReplaceAt(ReplaceAt(copy[a].mem, Last(fs).pos, words[1]), Last(fs).pos + width - 1, words[width])
           new == WithWords(a, x)
<1>1. fs \in Seq(FrameSet) /\ n \in Nat /\ n \in 1 .. n /\ one = Last(fs) /\ one \in FrameSet /\ \A j \in 1 .. n : fs[j].at \in 1 .. Len(copy)
  BY DEF FramesInv, Last
<1>2. a \in 1 .. Len(copy)
  BY <1>1
<1>3. got' = got /\ frames' = gs
  BY DEF Filled
<1>4. copy' = new
  <2>1. DOMAIN copy = 1 .. Len(copy)
    BY TextIs DEF CopyInv
  <2>2. copy' = [copy EXCEPT ![a].mem = ReplaceAt(ReplaceAt(@, Last(fs).pos, words[1]), Last(fs).pos + width - 1, words[width])]
    BY DEF Filled
  <2> QED
    BY <1>2, <2>1, <2>2 DEF WithWords
<1> HIDE DEF a, x
<1>5. IsText(new) /\ Len(new) = Len(copy) /\ \A y \in 1 .. Len(copy) : IsObject(new[y]) /\ new[y].cls = copy[y].cls
  BY <1>2, SameClasses
<1>6. gs \in Seq(FrameSet) /\ Len(gs) = n /\ \A j \in 1 .. n : gs[j].at = fs[j].at /\ gs[j].dclr = fs[j].dclr
  <2>1. gs = [fs EXCEPT ![Len(fs)].pos = @ + width]
    OBVIOUS
  <2> HIDE DEF gs
  <2> QED
    BY <1>1, <2>1, MovedOn
<1> HIDE DEF gs, new, one
<1>7. CopyInv'
  BY <1>4, <1>5 DEF CopyInv
<1>8. FramesInv(frames)' /\ frames' # <<>>
  <2>1. \A j \in 1 .. n : gs[j].at \in 1 .. Len(new)
    BY <1>1, <1>5, <1>6
  <2>2. FramesInv(frames)'
    BY <1>3, <1>4, <1>6, <2>1 DEF FramesInv
  <2> QED
    BY <1>1, <1>3, <1>6, <2>2
<1>9. Shape(new, gs) = Shape(copy, fs)
  <2>1. \A j \in 1 .. n : new[gs[j].at].cls = copy[fs[j].at].cls /\ gs[j].dclr = fs[j].dclr
    BY <1>1, <1>5, <1>6
  <2> QED
    BY <1>1, <1>6, <2>1, ShapeSame, ZenonT(30)
<1> QED
  BY <1>3, <1>4, <1>7, <1>8, <1>9

LEMMA NextFieldIs ==
  ASSUME CopyInv, FramesInv(frames), frames # <<>>
  PROVE  FramesInv(NextField) /\ NextField # <<>> /\ Shape(copy, NextField) = Over(Shape(copy, frames)) /\ Len(NextField) = Len(frames)
<1> DEFINE n == Len(frames)
           gs == Passed(frames, 0)
<1>1. frames \in Seq(FrameSet) /\ n \in Nat \ {0} /\ \A j \in 1 .. n : frames[j].at \in 1 .. Len(copy)
  BY DEF FramesInv
<1>2. NextField = gs
  BY <1>1, PassedNothing DEF NextField
<1>3. gs \in Seq(FrameSet) /\ Len(gs) = n /\ (\A j \in 1 .. n - 1 : gs[j] = frames[j]) /\ Last(gs).at = Last(frames).at
  BY <1>1, PassedIs
<1>4. Shape(copy, gs) = Over(Shape(copy, frames))
  BY <1>1, ShapePassed
<1> HIDE DEF gs
<1>5. \A j \in 1 .. n : gs[j].at = frames[j].at
  <2>1. Last(gs) = gs[n] /\ Last(frames) = frames[n]
    BY <1>1, <1>3 DEF Last
  <2>2. \A j \in 1 .. n : j = n \/ j \in 1 .. n - 1
    BY <1>1
  <2> QED
    BY <1>3, <2>1, <2>2
<1> QED
  BY <1>1, <1>2, <1>3, <1>4, <1>5 DEF FramesInv

(* An object more is read into. *)
LEMMA CopyGrows ==
  ASSUME NEW objects, IsText(objects), \A y \in 1 .. Len(objects) : IsObject(objects[y]), NEW o, IsObject(o),
         NEW fs \in Seq(FrameSet), \A j \in 1 .. Len(fs) : fs[j].at \in 1 .. Len(objects)
  PROVE  /\ IsText(Append(objects, o)) /\ Len(Append(objects, o)) = Len(objects) + 1 /\ Append(objects, o)[Len(objects) + 1] = o
         /\ \A y \in 1 .. Len(Append(objects, o)) : IsObject(Append(objects, o)[y])
         /\ \A j \in 1 .. Len(fs) : fs[j].at \in 1 .. Len(Append(objects, o))
         /\ Shape(Append(objects, o), fs) = Shape(objects, fs)
<1> DEFINE n == Len(objects)
           new == Append(objects, o)
<1>1. n \in Nat
  BY TextIs
<1>2. PICK S : objects \in Seq(S) /\ o \in S
  <2>1. PICK S : objects \in Seq(S)
    BY DEF IsText
  <2>2. objects \in Seq(S \cup {o}) /\ o \in S \cup {o}
    BY <2>1
  <2> QED
    BY <2>2
<1>3. new \in Seq(S) /\ Len(new) = n + 1 /\ new[n + 1] = o /\ \A y \in 1 .. n : new[y] = objects[y]
  BY <1>2, AppendProperties
<1> HIDE DEF new
<1>4. IsText(new)
  BY <1>3 DEF IsText
<1>5. \A y \in 1 .. n + 1 : y = n + 1 \/ y \in 1 .. n
  BY <1>1
<1>6. \A y \in 1 .. n + 1 : IsObject(new[y])
  BY <1>3, <1>5
<1>7. \A j \in 1 .. Len(fs) : fs[j].at \in 1 .. n + 1
  BY <1>1
<1>8. Shape(new, fs) = Shape(objects, fs)
  BY <1>3, ShapeSame
<1> QED
  BY <1>3, <1>4, <1>6, <1>7, <1>8 DEF new

-----------------------------------------------------------------------------
(* A reader under way reads what the step of the walk from there wrote. *)
OnTheWay(m, t, i, a, b) == Follows(m, t) /\ i \in 0 .. m - 1 /\ a = t[i] /\ b = t[i + 1] /\ At(a, b)

LEMMA Ahead ==
  ASSUME WriterInv, ReaderInv, NEW m, NEW t, NEW i, NEW a, NEW b, OnTheWay(m, t, i, a, b)
  PROVE  /\ i + 1 \in 1 .. m /\ Beginning \in Nat /\ IsState(a) /\ IsState(b) /\ a.pos \in Nat /\ a.next \in Nat
         /\ Beginning + a.pos <= Len(buffer) /\ start = Beginning + 1 /\ Len(buffer) \in Nat
         /\ WalkStep(case, buffer, Beginning + a.pos, a, b)
         /\ DOMAIN mem_cache = 1 .. a.next
<1>1. Follows(m, t) /\ i \in 0 .. m - 1 /\ a = t[i] /\ b = t[i + 1] /\ At(a, b)
  BY DEF OnTheWay
<1>2. /\ i + 1 \in 1 .. m /\ Beginning \in Nat /\ IsState(a) /\ IsState(b)
      /\ WalkStep(case, buffer, Beginning + a.pos, a, b)
      /\ Beginning + a.pos <= Mark(Len(got) + 1) /\ Mark(Len(got) + 1) <= Len(buffer)
  BY <1>1, FollowsStep
<1>3. DOMAIN mem_cache = 1 .. a.next /\ start = Beginning + 1
  BY <1>1 DEF At, Follows
<1>4. a.pos \in Nat /\ a.next \in Nat
  BY <1>2 DEF IsState
<1>5. Len(buffer) \in Nat /\ Mark(Len(got) + 1) \in Nat
  <2>1. IsText(buffer) /\ BufferInv
    BY DEF WriterInv, BufferInv
  <2>2. IsText(got) /\ Len(got) < Len(marks)
    BY <1>1 DEF ReaderInv, Follows
  <2>3. Len(got) + 1 \in 1 .. Len(marks)
    <3>1. Len(got) \in Nat /\ Len(marks) \in Nat
      BY <2>1, <2>2, TextIs, MarksIs
    <3> QED
      BY <2>2, <3>1
  <2> QED
    BY <2>1, <2>3, TextIs, MarksIs
<1>6. Beginning + a.pos <= Len(buffer)
  BY <1>2, <1>4, <1>5
<1> QED
  BY <1>2, <1>3, <1>4, <1>5, <1>6

LEMMA FieldAhead ==
  ASSUME WriterInv, ReaderInv, NEW m, NEW t, NEW i, NEW a, NEW b, OnTheWay(m, t, i, a, b), entering = FALSE
  PROVE  /\ frames # <<>> /\ Inner.at \in 1 .. Len(copy) /\ Shape(copy, frames) = a.stack
         /\ offset \in Nat /\ offset = Beginning + a.pos
         /\ InFields => FieldStep(case, Coming, buffer, offset, a, b)
         /\ ~InFields => b = State(Front(a.stack), a.next, a.pos)
<1>1. frames # <<>> /\ Shape(copy, frames) = a.stack /\ offset = Beginning + a.pos
  BY DEF OnTheWay, At
<1>2. /\ Beginning \in Nat /\ a.pos \in Nat /\ Beginning + a.pos <= Len(buffer) /\ start = Beginning + 1 /\ Len(buffer) \in Nat
      /\ WalkStep(case, buffer, Beginning + a.pos, a, b)
  BY Ahead
<1>3. frames \in Seq(FrameSet) /\ Inner.at \in 1 .. Len(copy)
  <2>1. frames \in Seq(FrameSet) /\ \A j \in 1 .. Len(frames) : frames[j].at \in 1 .. Len(copy)
    BY DEF FramesInv, ReaderInv
  <2>2. Len(frames) \in 1 .. Len(frames)
    BY <1>1, <2>1
  <2> QED
    BY <2>1, <2>2 DEF Inner, Last
<1>4. a.stack # <<>> /\ Last(a.stack) = [cls |-> copy[Inner.at].cls, dclr |-> Inner.dclr]
  BY <1>1, <1>3, ShapeIs DEF Inner
<1>5. offset \in Nat /\ offset - start < Len(buffer)
  BY <1>1, <1>2
<1>6. InFields <=> Inner.dclr <= Len(Expected)
  BY <1>1, <1>5 DEF InFields
<1>7. Expected = case.classes[Last(a.stack).cls] /\ Inner.dclr = Last(a.stack).dclr
  BY <1>4 DEF Expected, Class
<1>8. InFields => FieldStep(case, Coming, buffer, offset, a, b)
  BY <1>1, <1>2, <1>4, <1>6, <1>7 DEF WalkStep, Coming
<1>9. ~InFields => b = State(Front(a.stack), a.next, a.pos)
  BY <1>2, <1>4, <1>6, <1>7 DEF WalkStep
<1> QED
  BY <1>1, <1>3, <1>5, <1>8, <1>9

LEMMA FieldRead ==
  ASSUME ReaderInv, Serialized, NEW m, NEW t, NEW i, NEW a, NEW b, OnTheWay(m, t, i, a, b),
         UNCHANGED <<case, called, bufferVars, serializerVars, start, got>>, entering' = FALSE,
         CopyInv', FramesInv(frames)', frames' # <<>>, Shape(copy', frames') = Over(a.stack),
         NEW next, NEW pos, b = State(Over(a.stack), next, pos),
         DOMAIN mem_cache' = 1 .. next, offset' = Beginning + pos
  PROVE  ReaderInv'
<1>1. b.stack = Over(a.stack) /\ b.next = next /\ b.pos = pos
  BY StateIs
<1>2. Follows(m, t) /\ i \in 0 .. m - 1 /\ b = t[i + 1]
  BY DEF OnTheWay
<1> QED
  BY <1>1, <1>2, GoesOn

LEMMA FieldFilled ==
  ASSUME WriterInv, ReaderInv, Serialized, NEW m, NEW t, NEW i, NEW a, NEW b, OnTheWay(m, t, i, a, b), InFields,
         UNCHANGED <<case, called, bufferVars, serializerVars, start, mem_cache, entering>>,
         NEW words, NEW width \in Int, Filled(NextField, words, width),
         NEW pos, b = State(Over(a.stack), a.next, pos), offset' = Beginning + pos
  PROVE  ReaderInv'
<1>1. entering = FALSE
  BY DEF InFields, ReaderInv
<1>2. frames # <<>> /\ Shape(copy, frames) = a.stack /\ DOMAIN mem_cache = 1 .. a.next
  BY <1>1, Ahead, FieldAhead
<1>3. CopyInv /\ FramesInv(frames)
  BY DEF ReaderInv
<1>4. FramesInv(NextField) /\ NextField # <<>> /\ Shape(copy, NextField) = Over(a.stack)
  BY <1>2, <1>3, NextFieldIs
<1>5. CopyInv' /\ FramesInv(frames)' /\ frames' # <<>> /\ Shape(copy', frames') = Shape(copy, NextField) /\ got' = got
  BY <1>3, <1>4, FilledIs
<1>6. entering' = FALSE /\ DOMAIN mem_cache' = 1 .. a.next /\ UNCHANGED <<case, called, bufferVars, serializerVars, start, got>>
  BY <1>1, <1>2, <1>5
<1>7. Shape(copy', frames') = Over(a.stack)
  BY <1>4, <1>5
<1> QED
  BY <1>5, <1>6, <1>7, FieldRead

LEMMA SomewhereOn ==
  ASSUME ReaderInv, frames # <<>> \/ entering
  PROVE  Serialized /\ \E m, t, i, a, b : OnTheWay(m, t, i, a, b)
<1>1. Serialized /\ UnderWay
  BY DEF ReaderInv, Idle
<1>2. PICK m, t : Follows(m, t) /\ \E i \in 0 .. m - 1 : At(t[i], t[i + 1])
  BY <1>1 DEF UnderWay
<1>3. PICK i \in 0 .. m - 1 : At(t[i], t[i + 1])
  BY <1>2
<1>4. OnTheWay(m, t, i, t[i], t[i + 1])
  BY <1>2, <1>3 DEF OnTheWay
<1> QED
  BY <1>1, <1>4

LEMMA ReadIs == \A v, next : Read(v, next).next = next /\ Read(v, next).v = v
BY DEF Read

LEMMA FieldValueIs ==
  ASSUME NEW type \in {"CHAR", "INT", "FLOAT"}, NEW k \in Nat, NEW n, ValueSize(type, buffer, k, n)
  PROVE  FieldValue(type, k).next = k + n
<1>1. CASE type = "CHAR"
  <2>1. PICK c \in Nat : Holds(buffer, k, c) /\ n = IntBytes + c
    BY <1>1 DEF ValueSize
  <2>2. FieldValue(type, k) = CharAt(k + IntBytes, c)
    BY <1>1, <2>1, IntIs DEF FieldValue
  <2>3. CharAt(k + IntBytes, c).next = k + IntBytes + c
    BY ReadIs DEF CharAt
  <2> QED
    BY <2>1, <2>2, <2>3, Widths
<1>2. CASE type = "INT"
  BY <1>2, ReadIs DEF FieldValue, ValueSize
<1>3. CASE type = "FLOAT"
  BY <1>3, ReadIs DEF FieldValue, ValueSize
<1> QED
  BY <1>1, <1>2, <1>3

LEMMA DeserializeFieldKeeps ==
  ASSUME WriterInv, ReaderInv, DeserializeField
  PROVE  ReaderInv'
<1>1. /\ InFields /\ Coming \in {"CHAR", "INT", "FLOAT"}
      /\ UNCHANGED <<case, called, bufferVars, serializerVars, start, mem_cache, entering>>
  BY DEF DeserializeField
<1>2. PICK read \in {FieldValue(Coming, offset)} :
        /\ Filled(NextField, <<read.v, 0>>, IF Coming = "FLOAT" THEN 2 ELSE 1)
        /\ offset' = read.next
  BY DEF DeserializeField
<1>3. Serialized /\ entering = FALSE
  BY <1>1, SomewhereOn DEF InFields, ReaderInv
<1>4. PICK m, t, i, a, b : OnTheWay(m, t, i, a, b)
  BY <1>1, SomewhereOn DEF InFields
<1>5. /\ FieldStep(case, Coming, buffer, offset, a, b)
      /\ offset = Beginning + a.pos /\ offset \in Nat /\ Beginning \in Nat /\ a.pos \in Nat
  BY <1>1, <1>3, <1>4, Ahead, FieldAhead
<1>6. PICK n \in Nat : ValueSize(Coming, buffer, offset, n) /\ b = State(Over(a.stack), a.next, a.pos + n)
  BY <1>1, <1>5 DEF FieldStep, ValueStep, ArrayTypes
<1>7. offset' = offset + n
  BY <1>1, <1>2, <1>5, <1>6, FieldValueIs
<1>8. offset' = Beginning + (a.pos + n)
  BY <1>5, <1>7
<1> DEFINE words == <<read.v, 0>>
           width == IF Coming = "FLOAT" THEN 2 ELSE 1
<1>9. width \in Int /\ Filled(NextField, words, width)
  BY <1>2
<1> HIDE DEF words, width
<1> QED
  BY <1>1, <1>3, <1>4, <1>6, <1>8, <1>9, FieldFilled

(* Of an object or an array comes first whether there is one. *)
LEMMA NothingRead ==
  ASSUME WriterInv, ReaderInv, NEW m, NEW t, NEW i, NEW a, NEW b, OnTheWay(m, t, i, a, b), InFields, Coming \in ArrayTypes \cup {"OBJ"}
  PROVE  /\ ByteAt(offset) = 0 => NothingStep(buffer, offset, a, b)
         /\ ByteAt(offset) # 0 => ByteIs(buffer, offset, 1) /\ ~NothingStep(buffer, offset, a, b)
         /\ Coming = "OBJ" => ObjectStep(case, buffer, offset, a, b)
         /\ Coming \in ArrayTypes => ArrayStep(Coming, buffer, offset, a, b)
         /\ offset = Beginning + a.pos /\ offset \in Nat /\ Beginning \in Nat /\ a.pos \in Nat
<1>1. entering = FALSE
  BY DEF InFields, ReaderInv
<1>2. FieldStep(case, Coming, buffer, offset, a, b) /\ offset = Beginning + a.pos /\ offset \in Nat /\ Beginning \in Nat /\ a.pos \in Nat
  BY <1>1, Ahead, FieldAhead
<1>3. /\ Coming = "OBJ" => ObjectStep(case, buffer, offset, a, b)
      /\ Coming \in ArrayTypes => ArrayStep(Coming, buffer, offset, a, b)
  BY <1>2 DEF FieldStep, ArrayTypes
<1>4. NothingStep(buffer, offset, a, b) \/ ByteIs(buffer, offset, 1)
  BY <1>3 DEF ObjectStep, ArrayStep
<1>5. IsText(buffer)
  BY DEF WriterInv, BufferInv
<1>6. ByteIs(buffer, offset, 1) => ByteAt(offset) = 1
  BY <1>2, <1>5, ByteAtIs
<1>7. NothingStep(buffer, offset, a, b) => ByteAt(offset) = 0
  BY <1>2, <1>5, ByteAtIs DEF NothingStep
<1> QED
  BY <1>2, <1>3, <1>4, <1>6, <1>7

LEMMA NoArrayFieldKeeps ==
  ASSUME WriterInv, ReaderInv, NoArrayField
  PROVE  ReaderInv'
<1>1. /\ InFields /\ Coming \in ArrayTypes \cup {"OBJ"} /\ ByteAt(offset) = 0 /\ offset' = offset + 1
      /\ Filled(NextField, <<Nil>>, 1)
      /\ UNCHANGED <<case, called, bufferVars, serializerVars, start, mem_cache, entering>>
  BY DEF NoArrayField
<1>3. Serialized
  BY <1>1, SomewhereOn DEF InFields
<1>4. PICK m, t, i, a, b : OnTheWay(m, t, i, a, b)
  BY <1>1, SomewhereOn DEF InFields
<1>5. NothingStep(buffer, offset, a, b) /\ offset = Beginning + a.pos /\ Beginning \in Nat /\ a.pos \in Nat
  BY <1>1, <1>4, NothingRead
<1>6. b = State(Over(a.stack), a.next, a.pos + 1) /\ offset' = Beginning + (a.pos + 1)
  BY <1>1, <1>5 DEF NothingStep
<1>7. 1 \in Int
  OBVIOUS
<1> QED
  BY <1>1, <1>3, <1>4, <1>6, <1>7, FieldFilled

LEMMA PassFieldKeeps ==
  ASSUME WriterInv, ReaderInv, PassField
  PROVE  ReaderInv'
<1>1. /\ InFields /\ Coming = "OBJ_ARY" /\ frames' = NextField /\ frames # <<>>
      /\ UNCHANGED <<case, called, bufferVars, serializerVars, offset, start, mem_cache, entering, copy, got>>
  BY DEF PassField, InFields
<1>2. Serialized /\ entering = FALSE
  BY <1>1, SomewhereOn DEF InFields, ReaderInv
<1>3. PICK m, t, i, a, b : OnTheWay(m, t, i, a, b)
  BY <1>1, SomewhereOn
<1>4. FieldStep(case, Coming, buffer, offset, a, b) /\ offset = Beginning + a.pos /\ Shape(copy, frames) = a.stack
  BY <1>1, <1>2, <1>3, FieldAhead
<1>5. b = State(Over(a.stack), a.next, a.pos) /\ DOMAIN mem_cache = 1 .. a.next
  BY <1>1, <1>3, <1>4, Ahead DEF FieldStep, ArrayTypes
<1>6. CopyInv /\ FramesInv(frames)
  BY DEF ReaderInv
<1>7. FramesInv(NextField) /\ NextField # <<>> /\ Shape(copy, NextField) = Over(a.stack)
  BY <1>1, <1>4, <1>6, NextFieldIs
<1>8. CopyInv' /\ FramesInv(frames)' /\ frames' # <<>> /\ Shape(copy', frames') = Over(a.stack)
  BY <1>1, <1>6, <1>7 DEF CopyInv, FramesInv
<1>9. entering' = FALSE /\ DOMAIN mem_cache' = 1 .. a.next /\ offset' = Beginning + a.pos
      /\ UNCHANGED <<case, called, bufferVars, serializerVars, start, got>>
  BY <1>1, <1>2, <1>4, <1>5
<1> QED
  BY <1>2, <1>3, <1>5, <1>8, <1>9, FieldRead

LEMMA ObjectFieldKeeps ==
  ASSUME WriterInv, ReaderInv, ObjectField
  PROVE  ReaderInv'
<1>1. /\ InFields /\ Coming = "OBJ" /\ ByteAt(offset) # 0 /\ offset' = offset + 1 /\ frames' = NextField /\ entering' = TRUE /\ frames # <<>>
      /\ UNCHANGED <<case, called, bufferVars, serializerVars, start, mem_cache, copy, got>>
  BY DEF ObjectField, InFields
<1>2. Serialized /\ entering = FALSE
  BY <1>1, SomewhereOn DEF InFields, ReaderInv
<1>3. PICK m, t, i, a, b : OnTheWay(m, t, i, a, b)
  BY <1>1, SomewhereOn
<1>4. /\ ByteIs(buffer, offset, 1) /\ ObjectStep(case, buffer, offset, a, b) /\ offset = Beginning + a.pos
      /\ Beginning \in Nat /\ a.pos \in Nat
  BY <1>1, <1>3, NothingRead
<1>5. Shape(copy, frames) = a.stack /\ DOMAIN mem_cache = 1 .. a.next
  BY <1>1, <1>2, <1>3, Ahead, FieldAhead
<1>6. CopyInv /\ FramesInv(frames)
  BY DEF ReaderInv
<1>7. FramesInv(NextField) /\ NextField # <<>> /\ Shape(copy, NextField) = Over(a.stack)
  BY <1>1, <1>5, <1>6, NextFieldIs
<1>8. CopyInv' /\ FramesInv(frames)' /\ Shape(copy', frames') = Over(a.stack)
  BY <1>1, <1>6, <1>7 DEF CopyInv, FramesInv
<1>9. Follows(m, t)' /\ i \in 0 .. m - 1 /\ a = t[i] /\ b = t[i + 1]
  BY <1>1, <1>3 DEF OnTheWay, Follows, Beginning, Mark, bufferVars
<1>10. /\ DOMAIN mem_cache' = 1 .. a.next /\ offset' = Beginning + a.pos + 1
       /\ ByteIs(buffer, Beginning + a.pos, 1) /\ ObjectStep(case, buffer, Beginning + a.pos, a, b)
       /\ UNCHANGED <<case, called, bufferVars, serializerVars, got>>
  BY <1>1, <1>4, <1>5
<1> QED
  BY <1>1, <1>2, <1>8, <1>9, <1>10, Enters

(* An array that has a number already, and one that has none. *)
LEMMA ArrayRead ==
  ASSUME WriterInv, ReaderInv, NEW m, NEW t, NEW i, NEW a, NEW b, OnTheWay(m, t, i, a, b), InFields, Coming \in ArrayTypes, ByteAt(offset) # 0
  PROVE  \/ \E id \in 1 .. a.next : IntAt(offset + 1) = id /\ b = State(Over(a.stack), a.next, a.pos + 1 + IntBytes)
         \/ /\ IntAt(offset + 1) = -(a.next + 1)
            /\ \E n \in Nat : /\ ArraySize(Coming, buffer, offset + 1 + IntBytes, n)
                              /\ b = State(Over(a.stack), a.next + 1, a.pos + 1 + IntBytes + n)
<1>1. ~NothingStep(buffer, offset, a, b) /\ ArrayStep(Coming, buffer, offset, a, b)
  BY NothingRead
<1>2. CASE \E id \in 1 .. a.next : Holds(buffer, offset + 1, id) /\ b = State(Over(a.stack), a.next, a.pos + 1 + IntBytes)
  BY <1>2, IntIs
<1>3. CASE /\ Holds(buffer, offset + 1, -(a.next + 1))
           /\ \E n \in Nat : /\ ArraySize(Coming, buffer, offset + 1 + IntBytes, n)
                             /\ b = State(Over(a.stack), a.next + 1, a.pos + 1 + IntBytes + n)
  BY <1>3, IntIs
<1> QED
  BY <1>1, <1>2, <1>3 DEF ArrayStep

LEMMA KnownArrayFieldKeeps ==
  ASSUME WriterInv, ReaderInv, KnownArrayField
  PROVE  ReaderInv'
<1>1. /\ InFields /\ Coming \in ArrayTypes /\ ByteAt(offset) # 0 /\ IntAt(offset + 1) >= 0 /\ offset' = offset + 1 + IntBytes
      /\ IF IntAt(offset + 1) \in DOMAIN mem_cache
         THEN Filled(NextField, <<mem_cache[IntAt(offset + 1)]>>, 1)
         ELSE Given(Front(frames), Nil)
      /\ UNCHANGED <<case, called, bufferVars, serializerVars, start, mem_cache, entering>>
  BY DEF KnownArrayField
<1>2. Serialized
  BY <1>1, SomewhereOn DEF InFields
<1>3. PICK m, t, i, a, b : OnTheWay(m, t, i, a, b)
  BY <1>1, SomewhereOn DEF InFields
<1>4. offset = Beginning + a.pos /\ Beginning \in Nat /\ a.pos \in Nat /\ a.next \in Nat /\ DOMAIN mem_cache = 1 .. a.next
  BY <1>1, <1>3, NothingRead, Ahead
<1>5. IntAt(offset + 1) # -(a.next + 1)
  BY <1>1, <1>4
<1>6. IntAt(offset + 1) \in 1 .. a.next /\ b = State(Over(a.stack), a.next, a.pos + 1 + IntBytes)
  BY <1>1, <1>3, <1>5, ArrayRead
<1>7. Filled(NextField, <<mem_cache[IntAt(offset + 1)]>>, 1) /\ 1 \in Int
  BY <1>1, <1>4, <1>6
<1>8. offset' = Beginning + (a.pos + 1 + IntBytes)
  <2>1. offset' = offset + 1 + IntBytes
    BY <1>1
  <2>2. IntBytes \in Nat /\ Beginning \in Nat /\ a.pos \in Nat /\ offset = Beginning + a.pos
    BY <1>4, Widths
  <2> QED
    BY <2>1, <2>2
<1> QED
  BY <1>1, <1>2, <1>3, <1>6, <1>7, <1>8, FieldFilled

LEMMA HeadIs ==
  ASSUME NEW k, NEW type, NEW n, ArraySize(type, buffer, k, n)
  PROVE  \E c \in Nat : HeadAt(k)[1] = c /\ n = 3 * IntBytes + c * Unit(type)
<1>1. PICK c \in Nat : Holds(buffer, k, c) /\ n = 3 * IntBytes + c * Unit(type)
  BY DEF ArraySize
<1>2. HeadAt(k)[1] = c
  BY <1>1, IntIs DEF HeadAt
<1> QED
  BY <1>1, <1>2

LEMMA FieldArrayIs ==
  ASSUME NEW type \in ArrayTypes, NEW k \in Nat, NEW n, ArraySize(type, buffer, k, n)
  PROVE  LET read == FieldArray(type, HeadAt(k), k + 3 * IntBytes)
         IN  IsObject(read.v) /\ read.next = k + n
<1>1. PICK c \in Nat : HeadAt(k)[1] = c /\ n = 3 * IntBytes + c * Unit(type)
  BY HeadIs
<1>2. c * Unit(type) \in Nat
  BY UnitIs
<1> DEFINE head == HeadAt(k)
           j == k + 3 * IntBytes
           read == FieldArray(type, head, j)
<1>3. head[1] = c
  BY <1>1
<1> HIDE DEF head
<1>4. CASE type = "CHAR_ARY"
  <2>1. read = Read(NewText(BytesToUnicode(Part(buffer, j, head[1])), head[2]), j + c)
    BY <1>3, <1>4 DEF FieldArray
  <2>2. c * Unit(type) = c
    BY <1>1, <1>4 DEF Unit
  <2>3. IsObject(read.v) /\ read.next = j + c
    BY <2>1, ReadIs DEF NewText, IsObject
  <2> QED
    BY <1>1, <2>2, <2>3, Widths DEF head
<1>5. CASE type = "INT_ARY"
  <2>1. PICK bytes : read = Read(NewArray(type, head, bytes), j + c * IntBytes)
    BY <1>3, <1>5 DEF FieldArray
  <2>2. c * Unit(type) = c * IntBytes
    BY <1>1, <1>5 DEF Unit
  <2>3. IsObject(read.v) /\ read.next = j + c * IntBytes
    BY <2>1, ReadIs DEF NewArray, IsObject
  <2>4. c * IntBytes \in Nat
    BY <1>2, <2>2
  <2> QED
    BY <1>1, <2>2, <2>3, <2>4, Widths DEF head
<1>6. CASE type \notin {"CHAR_ARY", "INT_ARY"}
  <2>1. PICK bytes : read = Read(NewArray(type, head, bytes), j + c * Width(type))
    BY <1>3, <1>6 DEF FieldArray
  <2>2. c * Unit(type) = c * Width(type)
    BY <1>6 DEF Unit, Width, ArrayTypes
  <2>3. IsObject(read.v) /\ read.next = j + c * Width(type)
    BY <2>1, ReadIs DEF NewArray, IsObject
  <2>4. c * Width(type) \in Nat
    BY <1>2, <2>2
  <2> QED
    BY <1>1, <2>2, <2>3, <2>4, Widths DEF head
<1> QED
  BY <1>4, <1>5, <1>6

LEMMA CachedMore ==
  ASSUME NEW n \in Nat, DOMAIN mem_cache = 1 .. n, NEW a
  PROVE  DOMAIN Cached(n + 1, a) = 1 .. n + 1
BY DEF Cached

LEMMA NewArrayFieldKeeps ==
  ASSUME WriterInv, ReaderInv, NewArrayField
  PROVE  ReaderInv'
<1> DEFINE k == offset + 1 + IntBytes
           full == WithWords(Inner.at, [copy[Inner.at].mem EXCEPT ![Inner.pos] = Len(copy) + 1])
           gs == NextField
<1>1. /\ InFields /\ Coming \in ArrayTypes /\ ByteAt(offset) # 0 /\ IntAt(offset + 1) < 0 /\ frames # <<>>
      /\ mem_cache' = Cached(-IntAt(offset + 1), Len(copy')) /\ frames' = [gs EXCEPT ![Len(frames)].pos = @ + 1]
      /\ UNCHANGED <<case, called, bufferVars, serializerVars, start, entering, got>>
  BY DEF NewArrayField, InFields
<1>2. Serialized /\ entering = FALSE
  BY <1>1, SomewhereOn DEF InFields, ReaderInv
<1>3. PICK m, t, i, a, b : OnTheWay(m, t, i, a, b)
  BY <1>1, SomewhereOn
<1>4. /\ offset = Beginning + a.pos /\ offset \in Nat /\ Beginning \in Nat /\ a.pos \in Nat /\ a.next \in Nat /\ DOMAIN mem_cache = 1 .. a.next
      /\ Inner.at \in 1 .. Len(copy) /\ Shape(copy, frames) = a.stack
  BY <1>1, <1>2, <1>3, NothingRead, Ahead, FieldAhead
<1>5. IntAt(offset + 1) \notin 1 .. a.next
  BY <1>1, <1>4
<1>6. PICK n \in Nat : /\ IntAt(offset + 1) = -(a.next + 1) /\ ArraySize(Coming, buffer, k, n)
                       /\ b = State(Over(a.stack), a.next + 1, a.pos + 1 + IntBytes + n)
  BY <1>1, <1>3, <1>5, ArrayRead
<1>7. k \in Nat /\ k + 3 * IntBytes = offset + 1 + 4 * IntBytes
  <2>1. IntBytes \in Nat /\ offset \in Nat
    BY <1>4, Widths
  <2> QED
    BY <2>1
<1>8. PICK read : /\ IsObject(read.v) /\ read.next = k + n
                  /\ copy' = Append([copy EXCEPT ![Inner.at].mem[Inner.pos] = Len(copy) + 1], read.v) /\ offset' = read.next
  <2>1. PICK read \in {FieldArray(Coming, HeadAt(k), offset + 1 + 4 * IntBytes)} :
           copy' = Append([copy EXCEPT ![Inner.at].mem[Inner.pos] = Len(copy) + 1], read.v) /\ offset' = read.next
    BY DEF NewArrayField
  <2>2. read = FieldArray(Coming, HeadAt(k), k + 3 * IntBytes)
    BY <1>7, <2>1
  <2> HIDE DEF k
  <2>3. IsObject(read.v) /\ read.next = k + n
    BY <1>1, <1>6, <1>7, <2>2, FieldArrayIs
  <2> QED
    BY <2>1, <2>3
<1>9. CopyInv /\ FramesInv(frames)
  BY DEF ReaderInv
<1>10. FramesInv(gs) /\ gs # <<>> /\ Shape(copy, gs) = Over(a.stack) /\ Len(gs) = Len(frames)
  BY <1>1, <1>4, <1>9, NextFieldIs
<1> HIDE DEF gs
<1>11. copy' = Append(full, read.v)
  <2>1. DOMAIN copy = 1 .. Len(copy)
    BY <1>9, TextIs DEF CopyInv
  <2>2. full = [copy EXCEPT ![Inner.at].mem[Inner.pos] = Len(copy) + 1]
    BY <1>4, <2>1 DEF WithWords
  <2> QED
    BY <1>8, <2>2
<1>12. IsText(full) /\ Len(full) = Len(copy) /\ \A y \in 1 .. Len(copy) : IsObject(full[y]) /\ full[y].cls = copy[y].cls
  BY <1>4, <1>9, SameClasses
<1> HIDE DEF full
<1>13. /\ frames' \in Seq(FrameSet) /\ Len(frames') = Len(gs) /\ gs \in Seq(FrameSet)
       /\ \A j \in 1 .. Len(gs) : frames'[j].at = gs[j].at /\ frames'[j].dclr = gs[j].dclr /\ gs[j].at \in 1 .. Len(copy)
  <2>1. gs \in Seq(FrameSet) /\ \A j \in 1 .. Len(gs) : gs[j].at \in 1 .. Len(copy)
    BY <1>10 DEF FramesInv
  <2>2. frames' = [gs EXCEPT ![Len(gs)].pos = @ + 1] /\ 1 \in Int
    BY <1>1, <1>10
  <2>3. PICK hs : hs = frames'
    OBVIOUS
  <2>4. hs \in Seq(FrameSet) /\ Len(hs) = Len(gs) /\ \A j \in 1 .. Len(gs) : hs[j].at = gs[j].at /\ hs[j].dclr = gs[j].dclr
    <3>1. PICK w \in Int : w = 1
      OBVIOUS
    <3>2. hs = [gs EXCEPT ![Len(gs)].pos = @ + w] /\ gs # <<>> /\ gs \in Seq(FrameSet)
      BY <1>10, <2>1, <2>2, <2>3, <3>1
    <3> QED
      BY ONLY <3>2, MovedOn
  <2>5. hs \in Seq(FrameSet) /\ Len(hs) = Len(gs) /\ gs \in Seq(FrameSet)
    BY <2>1, <2>4
  <2>6. \A j \in 1 .. Len(gs) : hs[j].at = gs[j].at /\ hs[j].dclr = gs[j].dclr /\ gs[j].at \in 1 .. Len(copy)
    BY <2>1, <2>4, Zenon
  <2> QED
    BY <2>3, <2>5, <2>6, Zenon
<1>14. /\ IsText(copy') /\ Len(copy') = Len(copy) + 1 /\ (\A y \in 1 .. Len(copy') : IsObject(copy'[y]))
       /\ (\A j \in 1 .. Len(frames') : frames'[j].at \in 1 .. Len(copy')) /\ Shape(copy', frames') = Shape(full, frames')
  <2>1. \A j \in 1 .. Len(frames') : frames'[j].at \in 1 .. Len(full)
    BY <1>12, <1>13
  <2>2. \A y \in 1 .. Len(full) : IsObject(full[y])
    BY <1>12
  <2>3. IsObject(read.v) /\ IsText(full) /\ frames' \in Seq(FrameSet)
    BY <1>8, <1>12, <1>13
  <2> QED
    BY <1>11, <1>12, <2>1, <2>2, <2>3, CopyGrows
<1>15. Shape(full, frames') = Shape(copy, gs)
  <2>1. \A j \in 1 .. Len(gs) : full[frames'[j].at].cls = copy[gs[j].at].cls /\ frames'[j].dclr = gs[j].dclr
    BY <1>12, <1>13
  <2> QED
    BY <1>13, <2>1, ShapeSame, ZenonT(30)
<1>16. CopyInv' /\ FramesInv(frames)' /\ frames' # <<>> /\ Shape(copy', frames') = Over(a.stack)
  <2>1. CopyInv'
    BY <1>14 DEF CopyInv
  <2>2. FramesInv(frames)'
    BY <1>13, <1>14 DEF FramesInv
  <2>3. frames' # <<>>
    <3>1. Len(frames') # 0
      BY <1>10, <1>13
    <3> QED
      BY <3>1
  <2> QED
    BY <1>10, <1>14, <1>15, <2>1, <2>2, <2>3
<1>17. DOMAIN mem_cache' = 1 .. a.next + 1
  <2>1. -IntAt(offset + 1) = a.next + 1
    BY <1>4, <1>6
  <2>2. mem_cache' = Cached(a.next + 1, Len(copy'))
    BY <1>1, <2>1
  <2> QED
    BY <1>4, <2>2, CachedMore
<1>18. offset' = Beginning + (a.pos + 1 + IntBytes + n)
  <2>1. offset' = k + n
    BY <1>8
  <2>2. IntBytes \in Nat /\ Beginning \in Nat /\ a.pos \in Nat /\ offset = Beginning + a.pos
    BY <1>4, Widths
  <2> QED
    BY <2>1, <2>2
<1>19. UNCHANGED <<case, called, bufferVars, serializerVars, start, got>> /\ entering' = FALSE
  BY <1>1, <1>2
<1> QED
  BY <1>2, <1>3, <1>6, <1>16, <1>17, <1>18, <1>19, FieldRead

LEMMA GivenKeeps ==
  ASSUME WriterInv, ReaderInv, Serialized, NEW m, NEW t, NEW i, NEW a, NEW b, OnTheWay(m, t, i, a, b),
         UNCHANGED <<case, called, bufferVars, serializerVars, start>>, entering' = FALSE,
         NEW fs, FramesInv(fs), Shape(copy, fs) = b.stack, NEW v, Given(fs, v),
         DOMAIN mem_cache' = 1 .. b.next, offset' = Beginning + b.pos
  PROVE  ReaderInv'
<1>1. Follows(m, t) /\ i \in 0 .. m - 1 /\ b = t[i + 1] /\ i + 1 \in 1 .. m
  BY Ahead DEF OnTheWay
<1>2. CopyInv
  BY DEF ReaderInv
<1>3. CASE fs = <<>>
  <2>1. frames' = <<>> /\ got' = Append(got, v) /\ copy' = copy
    BY <1>3 DEF Given
  <2>2. b.stack = <<>>
    BY <1>3, ShapeIs DEF FramesInv
  <2>3. CopyInv'
    BY <1>2, <2>1 DEF CopyInv
  <2>4. UNCHANGED <<case, called, bufferVars, serializerVars>> /\ t[i + 1].stack = <<>> /\ offset' = Beginning + t[i + 1].pos
    BY <1>1, <2>2
  <2> QED
    BY <1>1, <2>1, <2>3, <2>4, Arrives
<1>4. CASE fs # <<>>
  <2>1. Filled(fs, <<v>>, 1) /\ 1 \in Int
    BY <1>4 DEF Given
  <2>2. CopyInv' /\ FramesInv(frames)' /\ frames' # <<>> /\ Shape(copy', frames') = Shape(copy, fs) /\ got' = got
    BY <1>2, <1>4, <2>1, FilledIs
  <2>3. /\ DOMAIN mem_cache' = 1 .. t[i + 1].next /\ Shape(copy', frames') = t[i + 1].stack /\ offset' = Beginning + t[i + 1].pos
        /\ UNCHANGED <<case, called, bufferVars, serializerVars, start, got>>
    BY <1>1, <2>2
  <2> QED
    BY <1>1, <2>2, <2>3, GoesOn
<1> QED
  BY <1>3, <1>4

LEMMA ReturnInstanceKeeps ==
  ASSUME WriterInv, ReaderInv, ReturnInstance
  PROVE  ReaderInv'
<1> DEFINE fs == Front(frames)
<1>1. /\ frames # <<>> /\ entering = FALSE /\ ~InFields /\ Given(fs, Inner.at)
      /\ UNCHANGED <<case, called, bufferVars, serializerVars, offset, start, mem_cache, entering>>
  BY DEF ReturnInstance, ReaderInv
<1>2. Serialized
  BY <1>1, SomewhereOn
<1>3. PICK m, t, i, a, b : OnTheWay(m, t, i, a, b)
  BY <1>1, SomewhereOn
<1>4. b = State(Front(a.stack), a.next, a.pos) /\ Shape(copy, frames) = a.stack /\ offset = Beginning + a.pos /\ DOMAIN mem_cache = 1 .. a.next
  BY <1>1, <1>3, Ahead, FieldAhead
<1>5. b.stack = Front(a.stack) /\ b.next = a.next /\ b.pos = a.pos
  BY <1>4, StateIs
<1>6. frames \in Seq(FrameSet) /\ \A j \in 1 .. Len(frames) : frames[j].at \in 1 .. Len(copy)
  BY DEF ReaderInv, FramesInv
<1>7. fs \in Seq(FrameSet) /\ Shape(copy, fs) = Front(Shape(copy, frames))
  BY <1>1, <1>6, ShapeFront
<1>8. \A j \in 1 .. Len(fs) : j \in 1 .. Len(frames) /\ fs[j] = frames[j]
  <2>1. Len(frames) \in Nat \ {0}
    BY <1>1, <1>6
  <2>2. PICK n \in Nat : n = Len(frames) - 1
    BY <2>1
  <2>3. n <= Len(frames) /\ n \in 0 .. Len(frames)
    BY <2>1, <2>2
  <2>4. Len(SubSeq(frames, 1, n)) = n /\ \A j \in 1 .. n : SubSeq(frames, 1, n)[j] = frames[j]
    <3>1. \A j \in 1 .. n : frames[j] \in FrameSet
      BY <1>6, <2>1, <2>2
    <3> DEFINE front == SubSeq(frames, 1, n)
    <3>2. Len(front) = (IF 1 <= n THEN n - 1 + 1 ELSE 0) /\ \A j \in 1 .. n - 1 + 1 : front[j] = frames[1 + j - 1]
      BY <3>1, SubSeqProperties
    <3> HIDE DEF front
    <3>3. Len(front) = n /\ \A j \in 1 .. n : front[j] = frames[j]
      BY <3>2
    <3> QED
      BY <3>3 DEF front
  <2>5. fs = SubSeq(frames, 1, n)
    BY <2>2 DEF Front
  <2>6. \A j \in 1 .. n : j \in 1 .. Len(frames)
    BY <2>1, <2>2
  <2> QED
    BY <2>4, <2>5, <2>6
<1>9. FramesInv(fs)
  <2> HIDE DEF fs
  <2> QED
    BY <1>6, <1>7, <1>8 DEF FramesInv
<1>10. Shape(copy, fs) = b.stack
  BY <1>4, <1>5, <1>7
<1>11. /\ UNCHANGED <<case, called, bufferVars, serializerVars, start>> /\ entering' = FALSE /\ Given(fs, Inner.at)
       /\ DOMAIN mem_cache' = 1 .. b.next /\ offset' = Beginning + b.pos
  BY <1>1, <1>4, <1>5
<1> HIDE DEF fs
<1> QED
  BY <1>2, <1>3, <1>9, <1>10, <1>11, GivenKeeps

LEMMA DeserializeObjectKeeps ==
  ASSUME WriterInv, ReaderInv, DeserializeObject
  PROVE  ReaderInv'
<1> DEFINE cls == IntAt(offset)
           id == IntAt(offset + IntBytes)
<1>1. /\ entering = TRUE /\ entering' = FALSE /\ UNCHANGED <<case, called, bufferVars, serializerVars, start>>
      /\ cls \in DOMAIN case.classes =>
           /\ offset' = offset + 2 * IntBytes
           /\ IF id < 0 THEN EnterObject(cls, id) ELSE Given(frames, FromCache(id)) /\ mem_cache' = mem_cache
  BY DEF DeserializeObject, ReaderInv
<1>2. Serialized
  BY <1>1, SomewhereOn
<1>3. PICK m, t, i, a, b : OnTheWay(m, t, i, a, b)
  BY <1>1, SomewhereOn
<1>4. /\ Shape(copy, frames) = Over(a.stack) /\ offset = Beginning + a.pos + 1
      /\ ByteIs(buffer, Beginning + a.pos, 1) /\ ObjectStep(case, buffer, Beginning + a.pos, a, b)
  BY <1>1, <1>3 DEF OnTheWay, At
<1>5. Beginning \in Nat /\ a.pos \in Nat /\ a.next \in Nat /\ DOMAIN mem_cache = 1 .. a.next /\ IntBytes \in Nat /\ offset \in Nat
  <2>1. Beginning \in Nat /\ a.pos \in Nat /\ a.next \in Nat /\ DOMAIN mem_cache = 1 .. a.next /\ IntBytes \in Nat
    BY <1>3, Ahead, Widths
  <2> QED
    BY <1>4, <2>1
<1>6. ~NothingStep(buffer, Beginning + a.pos, a, b)
  BY <1>4 DEF NothingStep, ByteIs
<1>7. PICK c \in DOMAIN case.classes :
        /\ Holds(buffer, Beginning + a.pos + 1, c)
        /\ \/ \E n \in 1 .. a.next :
                Holds(buffer, Beginning + a.pos + 1 + IntBytes, n) /\ b = State(Over(a.stack), a.next, a.pos + 1 + 2 * IntBytes)
           \/ /\ Holds(buffer, Beginning + a.pos + 1 + IntBytes, -(a.next + 1))
              /\ b = State(Append(Over(a.stack), [cls |-> c, dclr |-> 1]), a.next + 1, a.pos + 1 + 2 * IntBytes)
  BY <1>4, <1>6 DEF ObjectStep
<1>8. cls = c /\ cls \in DOMAIN case.classes
  BY <1>4, <1>7, IntIs
<1>9. offset' = offset + 2 * IntBytes /\ (IF id < 0 THEN EnterObject(cls, id) ELSE Given(frames, FromCache(id)) /\ mem_cache' = mem_cache)
  BY <1>1, <1>8
<1>10. CopyInv /\ FramesInv(frames) /\ frames \in Seq(FrameSet) /\ \A j \in 1 .. Len(frames) : frames[j].at \in 1 .. Len(copy)
  BY DEF ReaderInv, FramesInv
<1>11. offset' = Beginning + (a.pos + 1 + 2 * IntBytes)
  <2>1. offset' = offset + 2 * IntBytes
    BY <1>9
  <2>2. IntBytes \in Nat /\ Beginning \in Nat /\ a.pos \in Nat /\ offset = Beginning + a.pos + 1
    BY <1>4, <1>5
  <2> QED
    BY <2>1, <2>2
<1> HIDE DEF cls
<1>12. CASE \E n \in 1 .. a.next : Holds(buffer, Beginning + a.pos + 1 + IntBytes, n) /\ b = State(Over(a.stack), a.next, a.pos + 1 + 2 * IntBytes)
  <2>1. PICK n \in 1 .. a.next : Holds(buffer, offset + IntBytes, n) /\ b = State(Over(a.stack), a.next, a.pos + 1 + 2 * IntBytes)
    BY <1>4, <1>12
  <2>2. id = n /\ ~(id < 0)
    BY <2>1, IntIs
  <2> HIDE DEF id
  <2>3. Given(frames, FromCache(id)) /\ mem_cache' = mem_cache
    BY <1>9, <2>2
  <2>4. b.stack = Over(a.stack) /\ b.next = a.next /\ b.pos = a.pos + 1 + 2 * IntBytes
    BY <2>1, StateIs
  <2>5. DOMAIN mem_cache' = 1 .. b.next /\ offset' = Beginning + b.pos /\ Shape(copy, frames) = b.stack
    BY <1>4, <1>5, <1>11, <2>3, <2>4
  <2> QED
    BY <1>1, <1>2, <1>3, <1>10, <2>3, <2>5, GivenKeeps
<1>13. CASE /\ Holds(buffer, Beginning + a.pos + 1 + IntBytes, -(a.next + 1))
            /\ b = State(Append(Over(a.stack), [cls |-> c, dclr |-> 1]), a.next + 1, a.pos + 1 + 2 * IntBytes)
  <2>1. id = -(a.next + 1) /\ id < 0 /\ -id = a.next + 1
    <3>1. id = -(a.next + 1)
      BY <1>4, <1>13, IntIs
    <3> HIDE DEF id
    <3> QED
      BY <1>5, <3>1
  <2> HIDE DEF id
  <2>2. /\ copy' = Append(copy, Blank(c)) /\ mem_cache' = Cached(a.next + 1, Len(copy'))
        /\ frames' = Append(frames, Frame(Len(copy'))) /\ got' = got
    BY <1>8, <1>9, <2>1 DEF EnterObject
  <2>3. IsObject(Blank(c)) /\ Blank(c).cls = c
    BY DEF IsObject, Blank
  <2>4. IsText(copy) /\ \A y \in 1 .. Len(copy) : IsObject(copy[y])
    BY <1>10 DEF CopyInv
  <2>5. /\ IsText(copy') /\ Len(copy') = Len(copy) + 1 /\ copy'[Len(copy) + 1] = Blank(c)
        /\ (\A y \in 1 .. Len(copy') : IsObject(copy'[y])) /\ (\A j \in 1 .. Len(frames) : frames[j].at \in 1 .. Len(copy'))
        /\ Shape(copy', frames) = Shape(copy, frames)
    BY <1>10, <2>2, <2>3, <2>4, CopyGrows
  <2>6. PICK n \in Nat : n = Len(copy') /\ n \in 1 .. n /\ copy'[n] = Blank(c)
    <3>1. Len(copy) \in Nat
      BY <2>4, TextIs
    <3> QED
      BY <2>5, <3>1
  <2>7. Frame(n) \in FrameSet /\ Frame(n).at = n /\ Frame(n).dclr = 1
    BY <2>6 DEF Frame, FrameSet
  <2>8. PICK gs : gs = Append(frames, Frame(n))
    OBVIOUS
  <2>9. gs \in Seq(FrameSet) /\ Shape(copy', gs) = Append(Shape(copy', frames), [cls |-> copy'[n].cls, dclr |-> 1])
    BY <1>10, <2>7, <2>8, ShapeAppend
  <2>10. Len(gs) = Len(frames) + 1 /\ gs[Len(frames) + 1] = Frame(n) /\ (\A j \in 1 .. Len(frames) : gs[j] = frames[j]) /\ Len(frames) \in Nat
    BY <1>10, <2>7, <2>8, AppendProperties
  <2>11. frames' = gs
    BY <2>2, <2>6, <2>8
  <2>12. \A j \in 1 .. Len(gs) : gs[j].at \in 1 .. n
    <3>1. \A j \in 1 .. Len(frames) + 1 : j = Len(frames) + 1 \/ j \in 1 .. Len(frames)
      BY <2>10
    <3> QED
      BY <2>5, <2>6, <2>7, <2>10, <3>1
  <2>13. CopyInv' /\ FramesInv(frames)' /\ frames' # <<>>
    <3>1. CopyInv'
      BY <2>5 DEF CopyInv
    <3>2. FramesInv(frames)'
      BY <2>6, <2>9, <2>11, <2>12 DEF FramesInv
    <3>3. Len(frames') # 0
      BY <2>10, <2>11
    <3> QED
      BY <3>1, <3>2, <3>3
  <2>14. b.stack = Append(Over(a.stack), [cls |-> c, dclr |-> 1]) /\ b.next = a.next + 1 /\ b.pos = a.pos + 1 + 2 * IntBytes
    <3> DEFINE stack == Append(Over(a.stack), [cls |-> c, dclr |-> 1])
               next == a.next + 1
               pos == a.pos + 1 + 2 * IntBytes
    <3>1. b = State(stack, next, pos)
      BY <1>13
    <3> HIDE DEF stack, next, pos
    <3>2. b.stack = stack /\ b.next = next /\ b.pos = pos
      BY <3>1, StateIs
    <3> QED
      BY <3>2 DEF stack, next, pos
  <2>15. Shape(copy', frames') = b.stack
    BY <1>4, <2>3, <2>5, <2>6, <2>9, <2>11, <2>14
  <2>16. DOMAIN mem_cache' = 1 .. b.next
    BY <1>5, <2>2, <2>14, CachedMore
  <2>17. Follows(m, t) /\ i \in 0 .. m - 1 /\ b = t[i + 1]
    BY <1>3 DEF OnTheWay
  <2>18. /\ UNCHANGED <<case, called, bufferVars, serializerVars, start, got>> /\ DOMAIN mem_cache' = 1 .. t[i + 1].next
         /\ Shape(copy', frames') = t[i + 1].stack /\ offset' = Beginning + t[i + 1].pos
    BY <1>1, <1>11, <2>2, <2>14, <2>15, <2>16, <2>17
  <2> QED
    BY <1>1, <1>2, <2>13, <2>17, <2>18, GoesOn
<1> QED
  BY <1>7, <1>12, <1>13

-----------------------------------------------------------------------------
(* A reader between two calls. *)
LEMMA SerializedRests ==
  ASSUME WriterInv, Serialized
  PROVE  Resting /\ Len(marks) = Len(case.calls) /\ called = Len(marks)
BY DEF WriterInv, Serialized, Resting, Copying, Collecting, Walking

LEMMA CallAhead ==
  ASSUME WriterInv, ReaderInv, Reading
  PROVE  /\ Serialized /\ frames = <<>> /\ entering = FALSE /\ Len(got) < Len(marks) /\ IsText(buffer) /\ CopyInv
         /\ offset \in Nat /\ offset = Beginning
         /\ \E n \in Nat : /\ Mark(Len(got) + 1) = offset + n /\ offset + n <= Len(buffer)
                           /\ CallSize(case, Wanted, buffer, offset, n)
<1>1. Serialized /\ frames = <<>> /\ entering = FALSE /\ Len(got) < Len(case.calls)
  BY DEF Reading, ReaderInv
<1>2. Len(got) < Len(marks)
  BY <1>1, SerializedRests
<1>3. offset = Beginning
  BY <1>1 DEF ReaderInv, Idle, UnderWay, At
<1>4. BufferInv /\ IsText(buffer) /\ CopyInv /\ IsText(got)
  BY DEF WriterInv, BufferInv, ReaderInv
<1>5. PICK k \in Nat : k = Len(got)
  BY <1>4, TextIs
<1>6. k + 1 \in 1 .. Len(marks) /\ (k + 1) - 1 = k
  <2>1. Len(marks) \in Nat
    BY <1>4, MarksIs
  <2> QED
    BY <1>2, <1>5, <2>1
<1>7. Mark(k) \in Nat /\ Mark(k + 1) \in Nat /\ Segment(k + 1)
  BY <1>4, <1>6, MarksIs DEF BufferInv
<1>8. /\ Mark(k) <= Mark(k + 1) /\ Mark(k + 1) <= Len(buffer)
      /\ CallSize(case, case.calls[k + 1].type, buffer, Mark(k), Mark(k + 1) - Mark(k))
  BY <1>6, <1>7 DEF Segment
<1>9. PICK n \in Nat : n = Mark(k + 1) - Mark(k)
  BY <1>7, <1>8
<1>10. offset = Mark(k) /\ Wanted = case.calls[k + 1].type
  BY <1>3, <1>5 DEF Beginning, Wanted
<1>11. Mark(k + 1) = offset + n
  BY <1>7, <1>9, <1>10
<1>12. offset \in Nat /\ offset + n <= Len(buffer) /\ CallSize(case, Wanted, buffer, offset, n)
  BY <1>7, <1>8, <1>9, <1>10, <1>11
<1> QED
  BY <1>1, <1>2, <1>3, <1>4, <1>5, <1>11, <1>12

(* The type of a bare value, and how long the value is. *)
LEMMA BareAhead ==
  ASSUME WriterInv, ReaderInv, Reading, Wanted # "OBJ"
  PROVE  /\ Tagged /\ AfterTag \in Nat
         /\ \E n \in Nat : /\ Mark(Len(got) + 1) = AfterTag + n /\ AfterTag + n <= Len(buffer)
                           /\ BareSize(Wanted, buffer, AfterTag, n)
<1>1. PICK c \in Nat : /\ Mark(Len(got) + 1) = offset + c /\ offset + c <= Len(buffer)
                       /\ CallSize(case, Wanted, buffer, offset, c)
  BY CallAhead
<1>2. offset \in Nat
  BY CallAhead
<1>3. Holds(buffer, offset, Tag(Wanted)) /\ \E n \in Nat : BareSize(Wanted, buffer, offset + IntBytes, n) /\ c = IntBytes + n
  BY <1>1 DEF CallSize
<1>4. PICK n \in Nat : BareSize(Wanted, buffer, offset + IntBytes, n) /\ c = IntBytes + n
  BY <1>3
<1>5. Tagged
  BY <1>3, IntIs DEF Tagged
<1>6. AfterTag \in Nat /\ offset + c = AfterTag + n
  BY <1>2, <1>4, Widths DEF AfterTag
<1> QED
  BY <1>1, <1>4, <1>5, <1>6 DEF AfterTag

LEMMA ReadValueKeeps ==
  ASSUME WriterInv, ReaderInv, ReadValue
  PROVE  ReaderInv'
<1>1. /\ Reading /\ Wanted \in {"CHAR", "INT", "FLOAT"}
      /\ UNCHANGED <<case, called, bufferVars, serializerVars, frames, entering, copy>>
  BY DEF ReadValue
<1>2. Tagged /\ AfterTag \in Nat /\ Wanted # "OBJ" /\ Wanted \notin ArrayTypes
  BY <1>1, BareAhead DEF ArrayTypes
<1>3. PICK n \in Nat : /\ Mark(Len(got) + 1) = AfterTag + n /\ AfterTag + n <= Len(buffer)
                       /\ BareSize(Wanted, buffer, AfterTag, n)
  BY <1>1, <1>2, BareAhead
<1>4. ValueSize(Wanted, buffer, AfterTag, n)
  BY <1>2, <1>3 DEF BareSize
<1>5. PICK read : read = DeserializeValue(Wanted, AfterTag) /\ got' = Append(got, read.v) /\ offset' = read.next
  BY <1>2 DEF ReadValue
<1>6. IsText(buffer) /\ Len(buffer) \in Nat /\ IntBytes \in Nat \ {0} /\ FloatBytes \in Nat \ {0}
  BY <1>1, CallAhead, TextIs, Widths
<1>7. offset' = AfterTag + n
  <2>1. CASE Wanted = "CHAR"
    <3>1. PICK c \in Nat : Holds(buffer, AfterTag, c) /\ n = IntBytes + c
      BY <1>4, <2>1 DEF ValueSize
    <3>2. read = Before(AfterTag + IntBytes, CharAt(AfterTag + IntBytes, c))
      BY <1>5, <2>1, <3>1, IntIs DEF DeserializeValue, DeserializeChar
    <3>3. CASE AfterTag + IntBytes < Len(buffer)
      <4>1. read.next = AfterTag + IntBytes + c
        BY <3>2, <3>3, ReadIs DEF Before, CharAt
      <4> QED
        BY <1>2, <1>5, <1>6, <3>1, <4>1
    <3>4. CASE ~(AfterTag + IntBytes < Len(buffer))
      <4>1. read.next = AfterTag + IntBytes
        BY <3>2, <3>4, ReadIs DEF Before
      <4>2. c = 0
        BY <1>2, <1>3, <1>6, <3>1, <3>4
      <4> QED
        BY <1>2, <1>5, <1>6, <3>1, <4>1, <4>2
    <3> QED
      BY <3>3, <3>4
  <2>2. CASE Wanted = "INT"
    <3>1. n = IntBytes /\ AfterTag < Len(buffer)
      <4>1. n = IntBytes
        BY <1>4, <2>2 DEF ValueSize
      <4> QED
        BY <1>2, <1>3, <1>6, <4>1
    <3>2. read = Before(AfterTag, Read(IntAt(AfterTag), AfterTag + IntBytes))
      BY <1>5, <2>2 DEF DeserializeValue
    <3>3. read.next = AfterTag + IntBytes
      BY <3>1, <3>2, ReadIs DEF Before
    <3> QED
      BY <1>5, <3>1, <3>3
  <2>3. CASE Wanted = "FLOAT"
    <3>1. n = FloatBytes /\ AfterTag < Len(buffer)
      <4>1. n = FloatBytes
        BY <1>4, <2>3 DEF ValueSize
      <4> QED
        BY <1>2, <1>3, <1>6, <4>1
    <3>2. read = Before(AfterTag, Read(FloatAt(AfterTag), AfterTag + FloatBytes))
      BY <1>5, <2>3 DEF DeserializeValue
    <3>3. read.next = AfterTag + FloatBytes
      BY <3>1, <3>2, ReadIs DEF Before
    <3> QED
      BY <1>5, <3>1, <3>3
  <2> QED
    BY <1>1, <2>1, <2>2, <2>3
<1>8. CopyInv' /\ frames' = <<>> /\ entering' = FALSE /\ Serialized /\ Len(got) < Len(marks)
  BY <1>1, CallAhead DEF CopyInv
<1>9. offset' = Mark(Len(got) + 1) /\ UNCHANGED <<case, called, bufferVars, serializerVars>>
  BY <1>1, <1>3, <1>7
<1> QED
  BY <1>5, <1>8, <1>9, Received

LEMMA ReadSerializedBytesIs ==
  ASSUME NEW type \in ArrayTypes \ {"CHAR_ARY"}, NEW k \in Nat, NEW n, ArraySize(type, buffer, k, n)
  PROVE  LET read == ReadSerializedBytes(type, HeadAt(k), k + 3 * IntBytes)
         IN  IsObject(read.v) /\ read.next = k + n
<1>1. PICK c \in Nat : HeadAt(k)[1] = c /\ n = 3 * IntBytes + c * Unit(type)
  BY HeadIs
<1>2. c * Unit(type) \in Nat
  BY UnitIs
<1> DEFINE head == HeadAt(k)
           j == k + 3 * IntBytes
           read == ReadSerializedBytes(type, head, j)
<1>3. head[1] = c
  BY <1>1
<1> HIDE DEF head
<1>4. PICK bytes, d : read = Read(NewArray(type, head, bytes), j + d) /\ d = c * Unit(type)
  <2>1. CASE type = "BYTE_ARY"
    <3>1. read = Read(NewArray(type, head, Part(buffer, j, head[1])), j + c)
      BY <1>3, <2>1 DEF ReadSerializedBytes
    <3>2. c = c * Unit(type)
      BY <2>1 DEF Unit
    <3> QED
      BY <3>1, <3>2
  <2>2. CASE type = "INT_ARY"
    BY <1>3, <2>2 DEF ReadSerializedBytes, Unit
  <2>3. CASE type = "FLOAT_ARY"
    BY <1>3, <2>3 DEF ReadSerializedBytes, Unit
  <2> QED
    BY <2>1, <2>2, <2>3 DEF ArrayTypes
<1>5. IsObject(read.v) /\ read.next = j + d
  BY <1>4, ReadIs DEF NewArray, IsObject
<1>6. read.next = k + n
  <2> HIDE DEF read
  <2> QED
    BY <1>1, <1>2, <1>4, <1>5, Widths
<1> QED
  BY <1>5, <1>6 DEF head

LEMMA DeserializeArrayKeeps ==
  ASSUME WriterInv, ReaderInv, DeserializeArray
  PROVE  ReaderInv'
<1> DEFINE some == ByteAt(AfterTag) # 0 /\ AfterTag + 1 < Len(buffer)
<1>1. /\ Reading /\ Wanted \in ArrayTypes
      /\ UNCHANGED <<case, called, bufferVars, serializerVars, frames, entering>>
  BY DEF DeserializeArray
<1>2. Tagged /\ AfterTag \in Nat /\ Wanted # "OBJ" /\ Wanted \notin {"CHAR", "INT", "FLOAT"}
  BY <1>1, BareAhead DEF ArrayTypes
<1>3. PICK n \in Nat : /\ Mark(Len(got) + 1) = AfterTag + n /\ AfterTag + n <= Len(buffer)
                       /\ BareSize(Wanted, buffer, AfterTag, n)
  BY <1>1, <1>2, BareAhead
<1>4. /\ some => \E read \in {ReadSerializedBytes(Wanted, HeadAt(AfterTag + 1), AfterTag + 1 + 3 * IntBytes)} :
                   copy' = Append(copy, read.v) /\ got' = Append(got, Len(copy')) /\ offset' = read.next
      /\ ~some => got' = Append(got, Nil) /\ offset' = AfterTag + 1 /\ copy' = copy
  BY <1>2 DEF DeserializeArray
<1>5. IsText(buffer) /\ Len(buffer) \in Nat /\ IntBytes \in Nat \ {0} /\ Serialized /\ Len(got) < Len(marks) /\ CopyInv
      /\ frames' = <<>> /\ entering' = FALSE
  BY <1>1, CallAhead, TextIs, Widths
<1>6. CASE ByteIs(buffer, AfterTag, 0) /\ n = 1
  <2>1. ~some
    BY <1>2, <1>5, <1>6, ByteAtIs
  <2>2. got' = Append(got, Nil) /\ offset' = Mark(Len(got) + 1) /\ copy' = copy
    BY <1>3, <1>4, <1>6, <2>1
  <2>3. CopyInv'
    BY <1>5, <2>2 DEF CopyInv
  <2> QED
    BY <1>1, <1>5, <2>2, <2>3, Received
<1>7. CASE Wanted # "CHAR_ARY" /\ ByteIs(buffer, AfterTag, 1) /\ \E c \in Nat : ArraySize(Wanted, buffer, AfterTag + 1, c) /\ n = 1 + c
  <2>1. PICK c \in Nat : ArraySize(Wanted, buffer, AfterTag + 1, c) /\ n = 1 + c
    BY <1>7
  <2>2. c > 0
    <3>1. PICK d \in Nat : c = 3 * IntBytes + d * Unit(Wanted)
      BY <2>1 DEF ArraySize
    <3>2. d * Unit(Wanted) \in Nat
      BY UnitIs
    <3> QED
      BY <1>5, <3>1, <3>2
  <2>3. some
    <3>1. ByteAt(AfterTag) = 1
      BY <1>2, <1>5, <1>7, ByteAtIs
    <3>2. AfterTag + 1 < Len(buffer)
      BY <1>2, <1>3, <1>5, <2>1, <2>2
    <3> QED
      BY <3>1, <3>2
  <2>4. PICK read : /\ read = ReadSerializedBytes(Wanted, HeadAt(AfterTag + 1), AfterTag + 1 + 3 * IntBytes)
                    /\ copy' = Append(copy, read.v) /\ got' = Append(got, Len(copy')) /\ offset' = read.next
    BY <1>4, <2>3
  <2>5. AfterTag + 1 \in Nat /\ Wanted \in ArrayTypes \ {"CHAR_ARY"}
    BY <1>1, <1>2, <1>7
  <2>6. IsObject(read.v) /\ read.next = AfterTag + 1 + c
    BY <2>1, <2>4, <2>5, ReadSerializedBytesIs
  <2>7. offset' = Mark(Len(got) + 1)
    BY <1>2, <1>3, <2>1, <2>4, <2>6
  <2>8. CopyInv'
    <3>1. <<>> \in Seq(FrameSet) /\ \A j \in 1 .. Len(<<>>) : <<>>[j].at \in 1 .. Len(copy)
      OBVIOUS
    <3>2. IsText(copy) /\ \A y \in 1 .. Len(copy) : IsObject(copy[y])
      BY <1>5 DEF CopyInv
    <3>3. IsText(copy') /\ \A y \in 1 .. Len(copy') : IsObject(copy'[y])
      BY <2>4, <2>6, <3>1, <3>2, CopyGrows
    <3> QED
      BY <3>3 DEF CopyInv
  <2>9. PICK v : got' = Append(got, v)
    BY <2>4
  <2> QED
    BY <1>1, <1>5, <2>7, <2>8, <2>9, Received
<1>8. \/ ByteIs(buffer, AfterTag, 0) /\ n = 1
      \/ Wanted # "CHAR_ARY" /\ ByteIs(buffer, AfterTag, 1) /\ \E c \in Nat : ArraySize(Wanted, buffer, AfterTag + 1, c) /\ n = 1 + c
  BY <1>2, <1>3 DEF BareSize
<1> QED
  BY <1>6, <1>7, <1>8

LEMMA ReadObjectKeeps ==
  ASSUME WriterInv, ReaderInv, ReadObject
  PROVE  ReaderInv'
<1>1. /\ Reading /\ Wanted = "OBJ" /\ offset' = offset + 1 /\ start' = offset + 1 /\ mem_cache' = <<>>
      /\ entering' = (ByteAt(offset) # 0) /\ got' = (IF entering' THEN got ELSE Append(got, Nil))
      /\ UNCHANGED <<case, called, bufferVars, serializerVars, frames, copy>>
  BY DEF ReadObject
<1>2. /\ Serialized /\ frames = <<>> /\ entering = FALSE /\ Len(got) < Len(marks) /\ IsText(buffer) /\ CopyInv
      /\ offset \in Nat /\ offset = Beginning
  BY <1>1, CallAhead
<1>3. PICK n \in Nat : /\ Mark(Len(got) + 1) = offset + n /\ offset + n <= Len(buffer)
                       /\ CallSize(case, Wanted, buffer, offset, n)
  BY <1>1, CallAhead
<1>4. PICK m, t : m \in Nat \ {0} /\ Walk(case, buffer, offset, m, t) /\ t[m].stack = <<>> /\ t[m].pos = n
  BY <1>1, <1>3 DEF CallSize, GraphSize
<1>5. 0 \in 0 .. m - 1 /\ 1 \in 1 .. m /\ 1 - 1 = 0 /\ 0 + 1 = 1
  BY <1>4
<1>6. PICK a, b : a = t[0] /\ b = t[1]
  OBVIOUS
<1>7. a = State(<<>>, 0, 0) /\ WalkStep(case, buffer, offset + a.pos, a, b)
  BY <1>4, <1>5, <1>6 DEF Walk
<1>8. a.stack = <<>> /\ a.next = 0 /\ a.pos = 0
  BY <1>7, StateIs
<1>9. ObjectStep(case, buffer, offset, a, b) /\ offset + a.pos = offset
  <2>1. offset + a.pos = offset
    BY <1>2, <1>8
  <2> QED
    BY <1>7, <1>8, <2>1 DEF WalkStep
<1>10. CopyInv'
  BY <1>1, <1>2 DEF CopyInv
<1>11. CASE NothingStep(buffer, offset, a, b)
  <2>1. ByteAt(offset) = 0
    BY <1>2, <1>11, ByteAtIs DEF NothingStep
  <2>2. entering' = FALSE /\ got' = Append(got, Nil)
    BY <1>1, <2>1
  <2>3. b = State(Over(<<>>), 0, 0 + 1)
    BY <1>8, <1>11 DEF NothingStep
  <2>4. b.stack = <<>> /\ b.pos = 1
    BY <2>3, StateIs, OverNothing
  <2>5. ASSUME m # 1 PROVE FALSE
    <3>1. 2 \in 1 .. m /\ 2 - 1 = 1
      BY <1>4, <2>5
    <3>2. WalkStep(case, buffer, offset + t[1].pos, t[1], t[2])
      BY <1>4, <3>1 DEF Walk
    <3>3. t[1].pos = 0
      BY <1>6, <2>4, <3>2 DEF WalkStep
    <3> QED
      BY <1>6, <2>4, <3>3
  <2>6. offset' = Mark(Len(got) + 1) /\ frames' = <<>> /\ UNCHANGED <<case, called, bufferVars, serializerVars>>
    BY <1>1, <1>2, <1>3, <1>4, <1>6, <2>4, <2>5
  <2> QED
    BY <1>2, <1>10, <2>2, <2>6, Received
<1>12. CASE ~NothingStep(buffer, offset, a, b)
  <2>1. ByteIs(buffer, offset, 1)
    BY <1>9, <1>12 DEF ObjectStep
  <2>2. ByteAt(offset) = 1
    BY <1>2, <2>1, ByteAtIs
  <2>3. entering' = TRUE /\ got' = got
    <3>1. (ByteAt(offset) # 0) = TRUE
      BY <2>2
    <3>2. entering' = TRUE
      BY <1>1, <3>1
    <3> QED
      BY <1>1, <3>2
  <2>4. Beginning' = Beginning /\ Mark(Len(got) + 1)' = Mark(Len(got) + 1)
    BY <1>1, <2>3 DEF Beginning, Mark, bufferVars
  <2>5. Follows(m, t)'
    <3>1. UNCHANGED <<case, buffer, marks, got>> /\ start' = Beginning + 1
      BY <1>1, <1>2, <2>3 DEF bufferVars
    <3>2. case.calls[Len(got) + 1].type = "OBJ"
      BY <1>1 DEF Wanted
    <3> QED
      BY <1>2, <1>3, <1>4, <2>4, <3>1, <3>2 DEF Follows
  <2>6. DOMAIN mem_cache' = 1 .. a.next
    <3>1. DOMAIN mem_cache' = {} /\ 1 .. 0 = {}
      BY <1>1
    <3> QED
      BY <1>8, <3>1
  <2>7. FramesInv(frames)' /\ Shape(copy', frames') = Over(a.stack)
    <3>1. frames' = <<>> /\ <<>> \in Seq(FrameSet) /\ Len(<<>>) = 0
      BY <1>1, <1>2
    <3>2. Shape(copy', <<>>) = <<>>
      BY <3>1, ShapeIs
    <3> QED
      BY <1>8, <3>1, <3>2, OverNothing DEF FramesInv
  <2>8. /\ offset' = Beginning + a.pos + 1 /\ ByteIs(buffer, Beginning + a.pos, 1) /\ ObjectStep(case, buffer, Beginning + a.pos, a, b)
        /\ UNCHANGED <<case, called, bufferVars, serializerVars, got>>
    BY <1>1, <1>2, <1>9, <2>1, <2>3
  <2>9. a = t[0] /\ b = t[0 + 1] /\ 0 \in 0 .. m - 1
    BY <1>5, <1>6
  <2> QED
    BY <1>2, <1>10, <2>3, <2>5, <2>6, <2>7, <2>8, <2>9, Enters
<1> QED
  BY <1>11, <1>12

-----------------------------------------------------------------------------
(* Reads keep in step with writes. *)
LEMMA ReaderInit ==
  ASSUME Init
  PROVE  ReaderInv
<1>1. /\ offset = 0 /\ frames = <<>> /\ entering = FALSE /\ copy = <<>> /\ got = <<>> /\ marks = <<>>
  BY DEF Init
<1>2. IsText(copy) /\ Len(copy) = 0 /\ IsText(got) /\ Len(got) = 0 /\ Len(marks) = 0
  BY <1>1, EmptyText
<1>3. frames \in Seq(FrameSet) /\ Len(frames) = 0
  BY <1>1
<1>4. CopyInv /\ FramesInv(frames)
  BY <1>2, <1>3 DEF CopyInv, FramesInv
<1>5. Beginning = 0 /\ Len(got) <= Len(marks)
  BY <1>2 DEF Beginning, Mark
<1>6. Idle
  BY <1>1, <1>5 DEF Idle
<1>7. entering \in BOOLEAN
  BY <1>1
<1> QED
  BY <1>1, <1>2, <1>4, <1>5, <1>6, <1>7 DEF ReaderInv

WriterStep ==
  \/ Write \/ ExpandSerialBuffer \/ WriteSerializedBytes
  \/ SerializeObject \/ SerializeValue \/ SerializeArrayField \/ SerializeObjectField \/ SkipField \/ ObjectDone \/ ObjectWritten

(* The writer's last step comes before the reader's first. *)
LEMMA StillWriting ==
  ASSUME WriterInv, WriterStep
  PROVE  ~Serialized
<1>1. CASE Write \/ SerializeObject
  <2>1. called < Len(case.calls)
    BY <1>1 DEF Write, SerializeObject, Writing
  <2>2. called \in Nat
    BY DEF WriterInv, BufferInv
  <2> QED
    BY <2>1, <2>2 DEF Serialized
<1>2. CASE ExpandSerialBuffer \/ WriteSerializedBytes
  BY <1>2 DEF ExpandSerialBuffer, WriteSerializedBytes, Serialized
<1>3. CASE SerializeValue \/ SerializeArrayField \/ SerializeObjectField \/ SkipField \/ ObjectDone \/ ObjectWritten
  <2>1. work # <<>> \/ values # <<>>
    BY <1>3 DEF SerializeValue, SerializeArrayField, SerializeObjectField, SkipField, ObjectDone, ObjectWritten, InObject
  <2>2. Serialized => work = <<>> /\ values = <<>>
    BY SerializedRests DEF Resting, NothingCollected
  <2> QED
    BY <2>1, <2>2
<1> QED
  BY <1>1, <1>2, <1>3 DEF WriterStep

LEMMA WriterOnly == WriterStep => UNCHANGED <<case, readerVars>>
BY DEF WriterStep, Write, ExpandSerialBuffer, WriteSerializedBytes, Copied, SerializeObject, SerializeValue, SerializeArrayField,
       SerializeObjectField, SkipField, ObjectDone, ObjectWritten

LEMMA ReaderWaits ==
  ASSUME WriterInv, WriterInv', ReaderInv, WriterStep
  PROVE  ReaderInv'
<1>1. UNCHANGED <<offset, frames, entering, copy, got>>
  BY WriterOnly DEF readerVars
<1>2. ~Serialized
  BY StillWriting
<1>3. got = <<>> /\ Idle /\ CopyInv /\ FramesInv(frames) /\ entering \in BOOLEAN /\ IsText(got)
  BY <1>2 DEF ReaderInv
<1>4. Len(got) = 0 /\ Len(marks') \in Nat
  <2>1. BufferInv'
    BY DEF WriterInv
  <2>2. marks' \in Seq(Nat)
    BY <2>1 DEF BufferInv
  <2> QED
    BY <1>3, <2>2
<1>5. Idle'
  BY <1>1, <1>3, <1>4 DEF Idle, Beginning, Mark
<1>6. CopyInv' /\ FramesInv(frames)'
  BY <1>1, <1>3 DEF CopyInv, FramesInv
<1> QED
  BY <1>1, <1>3, <1>4, <1>5, <1>6 DEF ReaderInv

LEMMA ReaderRests ==
  ASSUME ReaderInv, UNCHANGED vars
  PROVE  ReaderInv'
<1>1. UNCHANGED <<case, called, chunks, buffer, marks, values, offset, start, frames, mem_cache, entering, copy, got>>
  BY DEF vars, bufferVars, serializerVars, readerVars
<1>2. UnderWay => UnderWay'
  BY <1>1 DEF UnderWay, Follows, At, Beginning, Mark
<1> QED
  BY <1>1, <1>2 DEF ReaderInv, Idle, Serialized, Beginning, Mark, CopyInv, FramesInv

LEMMA ReaderNext ==
  ASSUME WriterInv, WriterInv', ReaderInv, [Next]_vars
  PROVE  ReaderInv'
<1>1. CASE WriterStep
  BY <1>1, ReaderWaits
<1>2. CASE ReaderStep
  BY <1>2, ReadValueKeeps, DeserializeArrayKeeps, ReadObjectKeeps, DeserializeObjectKeeps, DeserializeFieldKeeps, NoArrayFieldKeeps,
     KnownArrayFieldKeeps, NewArrayFieldKeeps, ObjectFieldKeeps, PassFieldKeeps, ReturnInstanceKeeps DEF ReaderStep
<1>3. CASE UNCHANGED vars
  BY <1>3, ReaderRests
<1> QED
  BY <1>1, <1>2, <1>3 DEF Next, Done, ReaderStep, WriterStep

LEMMA InvStep ==
  ASSUME WriterInv, ReaderInv
  PROVE  InStep
<1>1. Len(buffer) <= size
  BY DEF WriterInv, BufferInv
<1>2. BufferInv /\ IsText(got)
  BY DEF WriterInv, ReaderInv
<1>3. PICK k \in Nat : k = Len(got)
  BY <1>2, TextIs
<1>4. got = <<>> <=> k = 0
  BY <1>2, <1>3, EmptyText
<1>5. ASSUME Serialized, frames = <<>>, ~entering PROVE offset = (IF got = <<>> THEN 0 ELSE marks[Len(got)])
  <2>1. offset = Beginning
    BY <1>5 DEF ReaderInv, Idle, UnderWay, At
  <2> QED
    BY <1>3, <1>4, <2>1 DEF Beginning, Mark
<1>6. ASSUME Serialized, Len(got) < Len(marks) PROVE offset <= marks[Len(got) + 1]
  <2>1. k + 1 \in 1 .. Len(marks) /\ (k + 1) - 1 = k /\ k + 1 # 0
    <3>1. Len(marks) \in Nat
      BY <1>2, MarksIs
    <3> QED
      BY <1>3, <1>6, <3>1
  <2>2. Mark(k) \in Nat /\ Mark(k + 1) \in Nat /\ Mark(k) <= Mark(k + 1)
    BY <1>2, <2>1, MarksIs DEF BufferInv, Segment
  <2>3. Mark(k + 1) = marks[Len(got) + 1]
    BY <1>3, <2>1 DEF Mark
  <2>4. CASE Idle
    BY <1>3, <2>2, <2>3, <2>4 DEF Idle, Beginning
  <2>5. CASE UnderWay
    <3>1. PICK m, t : Follows(m, t) /\ \E i \in 0 .. m - 1 : At(t[i], t[i + 1])
      BY <2>5 DEF UnderWay
    <3>2. PICK i \in 0 .. m - 1 : At(t[i], t[i + 1])
      BY <3>1
    <3>3. PICK a, b : a = t[i] /\ b = t[i + 1]
      OBVIOUS
    <3>4. /\ Beginning + a.pos <= Mark(k + 1) /\ Beginning + b.pos <= Mark(k + 1) /\ Beginning \in Nat
          /\ IsState(a) /\ IsState(b)
      BY <1>3, <3>1, <3>3, FollowsStep
    <3>5. a.pos \in Nat /\ b.pos \in Nat
      BY <3>4 DEF IsState
    <3>6. CASE entering
      <4>1. offset = Beginning + a.pos + 1 /\ ObjectStep(case, buffer, Beginning + a.pos, a, b)
        BY <3>2, <3>3, <3>6 DEF At
      <4>2. \E stack, next : b = State(stack, next, a.pos + 1) \/ b = State(stack, next, a.pos + 1 + 2 * IntBytes)
        BY <4>1, Zenon DEF ObjectStep, NothingStep
      <4>3. PICK stack, next, pos : b = State(stack, next, pos) /\ (pos = a.pos + 1 \/ pos = a.pos + 1 + 2 * IntBytes)
        BY <4>2
      <4>4. b.pos = pos
        BY <4>3, StateIs
      <4>5. a.pos + 1 <= b.pos
        BY <3>5, <4>3, <4>4, Widths
      <4>6. PICK l \in Nat : l = Mark(k + 1)
        BY <2>2
      <4>7. Beginning + a.pos + 1 <= l
        BY <3>4, <3>5, <4>5, <4>6
      <4> QED
        BY <2>3, <4>1, <4>6, <4>7
    <3>7. CASE ~entering
      <4>1. offset = Beginning + a.pos
        BY <3>2, <3>3, <3>7 DEF At
      <4> QED
        BY <2>3, <3>4, <4>1
    <3> QED
      BY <3>6, <3>7
  <2> QED
    BY <2>4, <2>5 DEF ReaderInv
<1> QED
  BY <1>1, <1>5, <1>6 DEF InStep

(* InStep: what a program writes fits the buffer, however often it has to   *)
(* be enlarged; and a read ends where the write of the same value ended, an  *)
(* object's and all it leads to included (common.h:1727 to 2010,            *)
(* common.cpp:1097).                                                       *)
THEOREM ReadsInStep == Spec => []InStep
<1>1. Init => WriterInv /\ ReaderInv
  <2> SUFFICES ASSUME Init PROVE WriterInv /\ ReaderInv
    OBVIOUS
  <2>1. WellFormed(case)
    BY CasesAssumption DEF Init
  <2> QED
    BY <2>1, WriterInit, ReaderInit
<1>2. WriterInv /\ ReaderInv /\ [Next]_vars => WriterInv' /\ ReaderInv'
  BY WriterNext, ReaderNext
<1>3. WriterInv /\ ReaderInv => InStep
  BY InvStep
<1> QED
  BY <1>1, <1>2, <1>3, PTL DEF Spec
=============================================================================
