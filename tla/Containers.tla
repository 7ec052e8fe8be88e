----------------------------- MODULE Containers -----------------------------
(***************************************************************************)
(* What the class library promises (docs/guide/objeck_lang.tex, the         *)
(* comments of lib_src): a vector, a stack or a String is a sequence, a     *)
(* list a sequence with a place in it, a map or a set a function of its     *)
(* keys, a hash gives each key a sequence of values.                       *)
(*                                                                         *)
(* Each Promise relates the contents before a call <<name, arguments ...>>, *)
(* the contents after it and its answer.  0 is the answer for nothing.      *)
(***************************************************************************)
EXTENDS Integers, Sequences, FiniteSets, SequencesExt

Total(numbers) == FoldLeft(LAMBDA total, x : total + x, 0, numbers)
Ascends(s) == \A i \in 1 .. Len(s) - 1 : s[i] <= s[i + 1]
Times(s, x) == Cardinality({i \in DOMAIN s : s[i] = x})
SameMembers(s, t) == \A x \in ToSet(s) \cup ToSet(t) : Times(s, x) = Times(t, x)
Places(s, x) == {i - 1 : i \in {j \in DOMAIN s : s[j] = x}}
FirstOf(places) == IF places = {} THEN -1 ELSE CHOOSE i \in places : \A j \in places : i <= j
LastOf(places) == IF places = {} THEN -1 ELSE CHOOSE i \in places : \A j \in places : i >= j

(***************************************************************************)
(* Vectors and stacks.                                                     *)
(***************************************************************************)
Quotient(total, n) == IF total < 0 THEN -((-total) \div n) ELSE total \div n

VectorAnswers(s, call, answer, f(_), g(_)) ==
  LET m == call[1]
      x == call[2]
  IN  CASE m = "Get" -> answer = IF x + 1 \in DOMAIN s THEN s[x + 1] ELSE 0
        [] m = "Top" -> answer = IF s = <<>> THEN 0 ELSE Last(s)
        [] m = "Size" -> answer = Len(s)
        [] m = "IsEmpty" -> answer = (s = <<>>)
        [] m = "ToArray" -> answer = s
        [] m = "Average" -> answer = IF s = <<>> THEN 0 ELSE Quotient(Total(s), Len(s))
        [] m = "Min" -> IF s = <<>> THEN answer = 0 ELSE answer \in ToSet(s) /\ \A i \in DOMAIN s : answer <= s[i]
        [] m = "Max" -> IF s = <<>> THEN answer = 0 ELSE answer \in ToSet(s) /\ \A i \in DOMAIN s : answer >= s[i]
        [] m = "Find" -> answer = FirstOf(Places(s, x))
        [] m = "BinarySearch" -> IF Places(s, x) = {} THEN answer = -1 ELSE answer \in Places(s, x)
        [] m = "Has" -> answer = (x \in ToSet(s))
        [] m = "Filter" -> answer = SelectSeq(s, f)
        [] m = "Apply" -> answer = [i \in DOMAIN s |-> g(s[i])]

VectorPromise(s, call, t, answer, f(_), g(_)) ==
  LET m == call[1]
      x == call[2]
  IN  CASE m \in {"AddBack", "Push"} -> t = Append(s, x)
        [] m = "AddBackAll" -> t = s \o x
        [] m \in {"RemoveBack", "Pop"} -> IF s = <<>> THEN t = s /\ answer = 0 ELSE t = Front(s) /\ answer = Last(s)
        [] m = "Remove" -> IF x + 1 \in DOMAIN s THEN t = RemoveAt(s, x + 1) /\ answer = s[x + 1]
                           ELSE t = s /\ answer = 0
        [] m = "Set" -> /\ answer = (call[3] + 1 \in DOMAIN s)
                        /\ t = IF answer THEN [s EXCEPT ![call[3] + 1] = x] ELSE s
        [] m = "Empty" -> t = <<>>
        [] m = "Sort" -> Ascends(t) /\ SameMembers(s, t)
        [] OTHER -> t = s /\ VectorAnswers(s, call, answer, f, g)

(***************************************************************************)
(* Lists and queues: [items, at], at 0 where the cursor is nowhere.         *)
(***************************************************************************)
ListOf(items, at) == [items |-> items, at |-> IF at \in DOMAIN items THEN at ELSE 0]

ListPromise(c, call, d, answer) ==
  LET m == call[1]
      x == call[2]
      s == c.items
      at == c.at
  IN  CASE m \in {"AddBack", "Add"} -> d = ListOf(Append(s, x), IF s = <<>> THEN 1 ELSE at)
        [] m = "AddFront" -> d = ListOf(<<x>> \o s, 1)
        [] m = "Insert" -> IF s = <<>> THEN d = ListOf(<<x>>, 1) /\ answer
                           ELSE IF at = 0 THEN d = c /\ ~answer
                           ELSE d = ListOf(InsertAt(s, at + 1, x), at) /\ answer
        [] m = "Remove" -> d = IF at = 0 THEN c ELSE ListOf(RemoveAt(s, at), at)
        [] m = "RemoveBack" -> d = IF s = <<>> THEN c ELSE ListOf(Front(s), 0)
        [] m = "RemoveFront" -> d = IF s = <<>> THEN c ELSE ListOf(Tail(s), 1)
        [] m = "Dequeue" -> IF s = <<>> THEN d = c /\ answer = 0 ELSE d = ListOf(Tail(s), 1) /\ answer = s[1]
        [] m = "Empty" -> d = ListOf(<<>>, 0)
        [] m = "Rewind" -> d = ListOf(s, 1)
        [] m = "Forward" -> d = ListOf(s, Len(s))
        [] m = "Next" -> d = IF at = 0 THEN c ELSE ListOf(s, at + 1)
        [] m = "Previous" -> d = IF at = 0 THEN c ELSE ListOf(s, at - 1)
        [] m \in {"Find", "FindNumber"} ->
             /\ d = ListOf(s, FirstOf(Places(s, x)) + 1)
             /\ answer = IF m = "Find" THEN IF x \in ToSet(s) THEN x ELSE 0 ELSE x \in ToSet(s)
        [] OTHER ->
             /\ d = c
             /\ answer = CASE m = "IsFront" -> at = IF s = <<>> THEN 0 ELSE 1
                           [] m = "IsBack" -> at = Len(s)
                           [] m = "More" -> at # 0
                           [] m \in {"Get", "GetNumber"} -> IF at = 0 THEN 0 ELSE s[at]
                           [] m \in {"Front", "Head"} -> IF s = <<>> THEN 0 ELSE s[1]
                           [] m = "Back" -> IF s = <<>> THEN 0 ELSE Last(s)
                           [] m = "Has" -> x \in ToSet(s)
                           [] m = "IsEmpty" -> s = <<>>
                           [] m = "Size" -> Len(s)

(***************************************************************************)
(* Maps and sets, whose keys come in their order; hashes, whose keys come    *)
(* in any order.                                                           *)
(***************************************************************************)
InOrder(keys) == SetToSortSeq(keys, LAMBDA a, b : a < b)
Having(c, key, value) == [k \in DOMAIN c \cup {key} |-> IF k \in DOMAIN c THEN c[k] ELSE value]

MapPromise(c, call, d, answer, plain) ==
  LET m == call[1]
      key == call[2]
      keys == InOrder(DOMAIN c)
  IN  CASE m = "Insert" -> d = Having(c, key, call[3])
        [] m = "Add" -> d = Having(c, key, plain)
        [] m = "Remove" -> d = [k \in DOMAIN c \ {key} |-> c[k]]
        [] m = "Empty" -> d = << >>
        [] OTHER ->
             /\ d = c
             /\ answer = CASE m = "Find" -> IF key \in DOMAIN c THEN c[key] ELSE 0
                           [] m = "Has" -> key \in DOMAIN c
                           [] m \in {"GetKeys", "GetNumbers"} -> keys
                           [] m = "GetValues" -> [i \in DOMAIN keys |-> c[keys[i]]]
                           [] m = "IsEmpty" -> DOMAIN c = {}
                           [] m = "Size" -> Cardinality(DOMAIN c)

HashPromise(c, call, d, answer) ==
  LET m == call[1]
      key == call[2]
      values == c[key]
  IN  CASE m = "Insert" -> d = [c EXCEPT ![key] = Append(@, call[3])]
        [] m = "Remove" -> /\ answer = (values # <<>>)
                           /\ d = IF answer THEN [c EXCEPT ![key] = Tail(@)] ELSE c
        [] m = "Empty" -> d = [k \in DOMAIN c |-> <<>>]
        [] m = "Find" -> d = c /\ answer = IF values = <<>> THEN 0 ELSE values[1]
        [] m = "Has" -> d = c /\ answer = (values # <<>>)
        [] m = "GetKeys" -> d = c /\ \A k \in DOMAIN c : Times(answer, k) = Len(c[k])
        [] m = "GetValues" -> d = c /\ SameMembers(answer, FlattenSeq([i \in 1 .. Cardinality(DOMAIN c) |->
                                                             c[InOrder(DOMAIN c)[i]]]))
        [] m = "Size" -> d = c /\ answer = Total([i \in 1 .. Cardinality(DOMAIN c) |-> Len(c[InOrder(DOMAIN c)[i]])])

(***************************************************************************)
(* Numbers as they are written.                                            *)
(***************************************************************************)
Digit0 == 48
Minus == 45
HexDigits == [c \in (48 .. 57) \cup (65 .. 70) \cup (97 .. 102) |->
                IF c <= 57 THEN c - 48 ELSE IF c <= 70 THEN c - 55 ELSE c - 87]
AllIn(s, chars) == \A i \in DOMAIN s : s[i] \in chars
InBase(digits, base) ==
  Total([i \in DOMAIN digits |-> HexDigits[digits[i]] * base ^ (Len(digits) - i)])
Denoted(s) ==
  IF Len(s) > 1 /\ SubSeq(s, 1, 2) = <<48, 120>>
  THEN LET digits == SubSeq(s, 3, Len(s)) IN IF AllIn(digits, DOMAIN HexDigits) THEN InBase(digits, 16) ELSE 0
  ELSE LET negative == s # <<>> /\ s[1] = Minus
           digits == IF negative THEN Tail(s) ELSE s
       IN  IF ~AllIn(digits, 48 .. 57) THEN 0 ELSE IF negative THEN -InBase(digits, 10) ELSE InBase(digits, 10)
(* Without a zero in front. *)
Writes(s, n) ==
  /\ Denoted(s) = n
  /\ s # <<>> /\ (s[1] = Minus) = (n < 0)
  /\ LET digits == IF n < 0 THEN Tail(s) ELSE s IN AllIn(digits, 48 .. 57) /\ (digits[1] = Digit0 => Len(digits) = 1)

(***************************************************************************)
(* Strings.                                                                *)
(***************************************************************************)
Matched(s, find) == {i \in 0 .. Len(s) - Len(find) : SubSeq(s, i + 1, i + Len(find)) = find}
Precedes(s, t) ==
  \E i \in 1 .. Len(t) : /\ \A j \in 1 .. i - 1 : j \in DOMAIN s /\ s[j] = t[j]
                         /\ i \in DOMAIN s => s[i] < t[i]
Stripped(s, blanks) ==
  LET kept == {i \in DOMAIN s : s[i] \notin blanks}
  IN  IF kept = {} THEN <<>> ELSE SubSeq(s, FirstOf(kept), LastOf(kept))

RECURSIVE Replaced(_, _, _), Joined(_, _)
Replaced(s, find, replace) ==
  LET i == FirstOf(Matched(s, find))
  IN  IF i = -1 THEN s
      ELSE SubSeq(s, 1, i) \o replace \o Replaced(SubSeq(s, i + Len(find) + 1, Len(s)), find, replace)
Joined(parts, delim) ==
  IF Len(parts) = 1 THEN parts[1] ELSE parts[1] \o delim \o Joined(Tail(parts), delim)

StringAnswers(s, call, answer, blanks) ==
  LET m == call[1]
      x == call[2]
      y == call[3]
      first == FirstOf(Matched(s, x))
  IN  CASE m = "Get" -> answer = IF x + 1 \in DOMAIN s THEN s[x + 1] ELSE 0
        [] m = "Size" -> answer = Len(s)
        [] m = "IsEmpty" -> answer = (s = <<>>)
        [] m = "ToCharArray" -> answer = s
        [] m = "FindChar" -> answer = IF x < 0 THEN -1 ELSE FirstOf({i \in Places(s, y) : i >= x})
        [] m = "FindLast" -> answer = LastOf({i \in Places(s, y) : i >= x})
        [] m = "Find" -> answer = FirstOf({i \in Matched(s, x) : i >= y})
        [] m = "StartsWith" -> answer = (0 \in Matched(s, x))
        [] m = "StartsWithChar" -> answer = (s # <<>> /\ s[1] = x)
        [] m = "EndsWith" -> answer = (Len(s) - Len(x) \in Matched(s, x))
        [] m = "Compare" -> answer = IF s = x THEN 0 ELSE IF Precedes(s, x) THEN -1 ELSE 1
        [] m = "Equals" -> answer = (s = x)
        [] m = "ToInt" -> answer = Denoted(s)
        [] m = "SubString" -> answer = IF x \in 0 .. Len(s) /\ x + y \in 0 .. Len(s) THEN SubSeq(s, x + 1, x + y) ELSE 0
        [] m = "Replace" -> answer = IF first = -1 THEN s
                                     ELSE SubSeq(s, 1, first) \o y \o SubSeq(s, first + Len(x) + 1, Len(s))
        [] m = "ReplaceAll" -> answer = Replaced(s, x, y)
        [] m = "Reverse" -> answer = Reverse(s)
        [] m = "Trim" -> answer = Stripped(s, blanks)
        [] m = "Split" -> answer # <<>> /\ Joined(answer, x) = s /\ \A i \in DOMAIN answer : Matched(answer[i], x) = {}
        [] m = "ToUpper" -> answer = [i \in DOMAIN s |-> IF s[i] \in 97 .. 122 THEN s[i] - 32 ELSE s[i]]
        [] m = "ToLower" -> answer = [i \in DOMAIN s |-> IF s[i] \in 65 .. 90 THEN s[i] + 32 ELSE s[i]]

StringPromise(s, call, t, answer, blanks) ==
  LET m == call[1]
      x == call[2]
  IN  CASE m = "Append" -> t = s \o x
        [] m = "AppendPart" -> t = IF call[3] < 0 THEN s ELSE s \o SubSeq(x, call[3] + 1, call[3] + call[4])
        [] m = "AppendChar" -> t = Append(s, x)
        [] m = "AppendInt" -> IsPrefix(s, t) /\ Writes(SubSeq(t, Len(s) + 1, Len(t)), x)
        [] m = "Pop" -> IF s = <<>> THEN t = s /\ answer = 0 ELSE t = Front(s) /\ answer = Last(s)
        [] OTHER -> t = s /\ StringAnswers(s, call, answer, blanks)
====
