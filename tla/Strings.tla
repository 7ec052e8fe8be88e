------------------------------ MODULE Strings ------------------------------
(***************************************************************************)
(* class String and the conversions of numbers (lib_src/lang.obs), and      *)
(* UrlUtility (lib_src/collect.obs).                                       *)
(*                                                                         *)
(* A String is [string, pos]: the array, whose length is @max, and how much *)
(* of it is used.  Characters are their codes; an argument or an answer     *)
(* that is a String is the sequence of its characters, 0 where it is Nil.   *)
(***************************************************************************)
EXTENDS Integers, Sequences

LOCAL S == INSTANCE SequencesExt

CONSTANTS
  Room, Fail,   \* of Vectors
  Digits,       \* the digits IntToString has room for: 16 in the library
  Patience      \* a ReplaceAll that goes on after so many replacements never returns

V == INSTANCE Vectors

Gives(object, answer) == V!Gives(object, answer)
Fails == V!Fails
Done(object) == V!Done(object)

ToCharArray(s) == SubSeq(s.string, 1, s.pos)

(***************************************************************************)
(* Appending.  A '\0' ends what is appended from an array.                  *)
(***************************************************************************)
(* Fault: the larger array replaces the old one and nothing is copied. *)
Larger_Forgets(s, max) == [s EXCEPT !.string = V!Zeros(max)]
Larger(s, max) == [s EXCEPT !.string = V!Copy(V!Zeros(max), 0, @, 0, Len(@))]

Max(s) == Len(s.string)

UpToZero(array) ==
  LET end == CHOOSE n \in 0 .. Len(array) : (n = Len(array) \/ array[n + 1] = 0) /\ \A i \in 1 .. n : array[i] # 0
  IN  SubSeq(array, 1, end)
Written(s, chars) ==
  [string |-> [i \in DOMAIN s.string |-> IF i \in s.pos + 1 .. s.pos + Len(chars) THEN chars[i - s.pos] ELSE s.string[i]],
   pos |-> s.pos + Len(chars)]

WithRoom(s, n) == IF s.pos + n >= Max(s) THEN Larger(s, (Max(s) + n) * 2) ELSE s
AppendArray(s, array) == Written(WithRoom(s, Len(array)), UpToZero(array))

(* From offset to the end of max, or to a '\0' before it; else the array    *)
(* is read past its end.                                                   *)
AppendPart(s, array, offset, max) ==
  LET from == SubSeq(array, offset + 1, Len(array))
      chars == UpToZero(SubSeq(from, 1, IF max < Len(from) THEN max ELSE Len(from)))
  IN  IF offset < 0 THEN Done(s)
      ELSE IF max > Len(from) /\ Len(chars) = Len(from) THEN Fails
      ELSE Done(Written(WithRoom(s, max), chars))

AppendChar(s, c) == Written(IF s.pos >= Max(s) THEN Larger(s, Max(s) * 2) ELSE s, <<c>>)

AppendAll(s, chars) == S!FoldLeft(AppendChar, s, chars)

NewString == [string |-> V!Zeros(Room), pos |-> 0]
Sized(array) == [string |-> V!Zeros(IF Len(array) < Room THEN Room ELSE Len(array)), pos |-> 0]
NewStringOf(array) == AppendArray(Sized(array), array)
NewStringPart(array, offset, max) == AppendPart(Sized(array), array, offset, max)
NewStringFrom(chars) == AppendArray(NewString, chars)
Chars(array) == ToCharArray(NewStringOf(array))

(***************************************************************************)
(* Numbers.  The values are the digits, the last first; one too many is     *)
(* stored past the end of the array.                                       *)
(***************************************************************************)
RECURSIVE Values(_, _, _)
Values(n, base, i) == IF n >= base /\ i < Digits THEN <<n % base>> \o Values(n \div base, base, i + 1) ELSE <<n>>

Digit(n) == n + IF n > 9 THEN 55 ELSE 48
Minus == 45
Number(n, base) ==
  LET values == Values(IF n < 0 THEN -n ELSE n, base, 0)
      digits == [i \in DOMAIN values |-> Digit(values[Len(values) + 1 - i])]
  IN  IF Len(values) > Digits THEN Fail ELSE IF n < 0 THEN <<Minus>> \o digits ELSE digits
IntToString(n) == Number(n, 10)
IntToHexString(n) == Number(n, 16)

AppendInt(s, n) == IF IntToString(n) = Fail THEN Fails ELSE Done(AppendArray(s, IntToString(n)))

HexValue(c) ==
  IF c \in 48 .. 57 THEN c - 48 ELSE IF c \in 65 .. 70 THEN c - 55 ELSE IF c \in 97 .. 102 THEN c - 87 ELSE Fail
Value(digits, base) == S!FoldLeft(LAMBDA val, digit : val * base + digit, 0, digits)

Hex == <<48, 120>>   \* "0x"
ToInt(s) ==
  LET is_hex == s.pos > 1 /\ SubSeq(s.string, 1, 2) = Hex
      is_neg == s.string[1] = Minus
      chars == SubSeq(s.string, IF is_hex THEN 3 ELSE IF is_neg THEN 2 ELSE 1, s.pos)
      values == [i \in DOMAIN chars |-> IF is_hex \/ chars[i] \in 48 .. 57 THEN HexValue(chars[i]) ELSE Fail]
      val == Value(values, IF is_hex THEN 16 ELSE 10)
  IN  IF \E i \in DOMAIN values : values[i] = Fail THEN 0
      ELSE IF is_neg /\ ~is_hex THEN -val ELSE val

(***************************************************************************)
(* Searches.  FindLast looks at the whole string whatever the offset; Find  *)
(* of a String with an offset begins at the first character like that of    *)
(* the String at the offset.                                               *)
(***************************************************************************)
Least(set) == IF set = {} THEN -1 ELSE CHOOSE i \in set : \A j \in set : i <= j
Greatest(set) == IF set = {} THEN -1 ELSE CHOOSE i \in set : \A j \in set : i >= j

Get(s, index) == IF index < s.pos THEN IF index < 0 THEN Fail ELSE s.string[index + 1] ELSE 0
Within(s, offset) == offset < s.pos /\ offset > -1
FindChar(s, offset, c) == IF Within(s, offset) THEN Least({i \in offset .. s.pos - 1 : s.string[i + 1] = c}) ELSE -1
FindLast(s, offset, c) == IF Within(s, offset) THEN Greatest({i \in 0 .. s.pos - 1 : s.string[i + 1] = c}) ELSE -1

Matches(s, find, index) == index + Len(find) <= s.pos /\ \A i \in DOMAIN find : s.string[index + i] = find[i]

RECURSIVE FoundFrom(_, _, _)
FoundFrom(s, find, index) ==
  IF index = -1 \/ Matches(s, find, index) THEN index
  ELSE FoundFrom(s, find, FindChar(s, index + 1, find[1]))
Find(s, find, offset) ==
  IF Len(find) > 0 /\ offset < Len(find) THEN FoundFrom(s, find, FindChar(s, 0, find[offset + 1])) ELSE -1

SubString(s, offset, length) ==
  IF offset < 0 \/ offset > s.pos \/ length + offset < 0 \/ length + offset > s.pos THEN 0
  ELSE Chars(SubSeq(s.string, offset + 1, offset + length))

(* The String itself when there is nothing to replace. *)
Replace(s, find, replace) ==
  LET index == Find(s, find, 0)
      after == index + Len(find)
  IN  IF index < 0 THEN s
      ELSE AppendArray(AppendArray(NewStringFrom(SubString(s, 0, index)), replace), SubString(s, after, s.pos - after))

RECURSIVE ReplaceFor(_, _, _, _)
ReplaceFor(s, find, replace, times) ==
  IF Find(s, find, 0) < 0 THEN ToCharArray(s)
  ELSE IF times = 0 THEN Fail ELSE ReplaceFor(Replace(s, find, replace), find, replace, times - 1)
ReplaceAll(s, find, replace) == ReplaceFor(s, find, replace, Patience)

StartsWith(s, t) == Len(t) <= s.pos /\ SubSeq(s.string, 1, Len(t)) = t
StartsWithChar(s, c) == Get(s, 0) # 0 /\ c = Get(s, 0)
EndsWith(s, t) == Len(t) <= s.pos /\ SubSeq(s.string, s.pos - Len(t) + 1, s.pos) = t

(***************************************************************************)
(* New Strings.                                                            *)
(***************************************************************************)
Reverse(s) == Chars(S!Reverse(ToCharArray(s)) \o V!Zeros(Max(s) - s.pos))

Blanks == {32, 9, 10}
(* The character after the last is read when all are blank.  From the end,  *)
(* the first character that is kept decides how far to go.                  *)
Trim(s) ==
  LET i == CHOOSE n \in 0 .. s.pos : (n = s.pos \/ s.string[n + 1] \notin Blanks) /\ \A m \in 1 .. n : s.string[m] \in Blanks
      j == IF s.string[s.pos] \in Blanks THEN s.pos - 1 ELSE s.pos
  IN  IF s.pos = 0 THEN <<>> ELSE IF i = Max(s) THEN Fail
      ELSE ToCharArray(AppendAll(NewString, SubSeq(s.string, i + 1, j)))

(* A delimiter is noticed at the character after it.                        *)
Scanned(s, delim, p, i) ==
  LET found == IF p.found = -1 /\ delim[1] = s.string[i + 1] THEN i ELSE p.found
  IN  IF found = -1 THEN p
      ELSE IF p.matched < Len(delim) /\ delim[p.matched + 1] = s.string[i + 1]
           THEN [p EXCEPT !.found = found, !.matched = @ + 1]
      ELSE IF p.matched = Len(delim)
           THEN [parts |-> Append(p.parts, SubString(s, p.start, found - p.start)),
                 start |-> found + Len(delim), found |-> -1, matched |-> 0]
      ELSE [p EXCEPT !.found = -1, !.matched = 0]
Split(s, delim) ==
  LET p == S!FoldLeft(LAMBDA q, i : Scanned(s, delim, q, i),
                      [parts |-> <<>>, start |-> 0, found |-> -1, matched |-> 0], [i \in 1 .. s.pos |-> i - 1])
  IN  IF Len(delim) = 0 \/ s.pos = 0 THEN 0
      ELSE IF p.start # 0 THEN p.parts \o <<SubString(s, p.start, s.pos - p.start)>> ELSE p.parts

Upper(c) == IF c > 96 /\ c < 123 THEN c - 32 ELSE c
Lower(c) == IF c > 64 /\ c < 91 THEN c + 32 ELSE c
ToUpper(s) == Chars([i \in 1 .. s.pos |-> Upper(s.string[i])])
ToLower(s) == Chars([i \in 1 .. s.pos |-> Lower(s.string[i])])

Pop(s) == IF s.pos > 0 THEN V!Gives([string |-> [s.string EXCEPT ![s.pos] = 0], pos |-> s.pos - 1], s.string[s.pos])
          ELSE Done(s)

(***************************************************************************)
(* Comparison.  Past its end a String reads '\0'.                           *)
(***************************************************************************)
Compare(s, t) ==
  LET At(i) == IF i <= Len(t) THEN t[i] ELSE 0
      differ == Least({i \in 1 .. s.pos : s.string[i] # At(i)})
  IN  IF differ # -1 THEN IF s.string[differ] > At(differ) THEN 1 ELSE -1
      ELSE IF s.pos > Len(t) THEN 1 ELSE IF s.pos < Len(t) THEN -1 ELSE 0
Equals(s, t) == Compare(s, t) = 0

(***************************************************************************)
(* UrlUtility: '$' and '&' are given each other's code.                     *)
(***************************************************************************)
Percent == 37
Plus == 43
Space == 32
Escaped == {34, 35, 36, 37, 38, 43, 44, 47, 58, 59, 60, 61, 62, 63, 64, 91, 92, 93, 94, 96, 123, 124, 125, 126}
CodeOf(c) == IF c = 36 THEN 38 ELSE IF c = 38 THEN 36 ELSE c
Encoded(c) ==
  IF c = Space THEN <<Plus>>
  ELSE IF c \in Escaped THEN <<Percent, Digit(CodeOf(c) \div 16), Digit(CodeOf(c) % 16)>> ELSE <<c>>
Encode(s) == S!FoldLeft(LAMBDA buffer, c : buffer \o Encoded(c), <<>>, ToCharArray(s))

RECURSIVE DecodeFrom(_, _)
DecodeFrom(s, i) ==
  IF i >= s.pos THEN <<>>
  ELSE IF Get(s, i) = Plus THEN <<Space>> \o DecodeFrom(s, i + 1)
  ELSE IF Get(s, i) = Percent /\ i + 2 < s.pos
       THEN <<ToInt(NewStringOf(Hex \o <<Get(s, i + 1), Get(s, i + 2)>>))>> \o DecodeFrom(s, i + 3)
  ELSE <<Get(s, i)>> \o DecodeFrom(s, i + 1)
Decode(s) == DecodeFrom(s, 0)

(***************************************************************************)
(* The method of a call <<name, arguments ...>>.                           *)
(***************************************************************************)
Answered(s, answer) == IF answer = Fail THEN Fails ELSE Gives(s, answer)

CallString(s, call) ==
  LET m == call[1]
      x == call[2]
      y == call[3]
  IN  CASE m = "Append" -> Done(AppendArray(s, x))
        [] m = "AppendPart" -> AppendPart(s, x, y, call[4])
        [] m = "AppendChar" -> Done(AppendChar(s, x))
        [] m = "AppendInt" -> AppendInt(s, x)
        [] m = "Pop" -> Pop(s)
        [] m = "Get" -> Answered(s, Get(s, x))
        [] m = "Size" -> Gives(s, s.pos)
        [] m = "IsEmpty" -> Gives(s, s.pos = 0)
        [] m = "FindChar" -> Gives(s, FindChar(s, x, y))
        [] m = "FindLast" -> Gives(s, FindLast(s, x, y))
        [] m = "Find" -> Gives(s, Find(s, x, y))
        [] m = "StartsWith" -> Gives(s, StartsWith(s, x))
        [] m = "StartsWithChar" -> Gives(s, StartsWithChar(s, x))
        [] m = "EndsWith" -> Gives(s, EndsWith(s, x))
        [] m = "Compare" -> Gives(s, Compare(s, x))
        [] m = "Equals" -> Gives(s, Equals(s, x))
        [] m = "ToInt" -> Gives(s, ToInt(s))
        [] m = "ToCharArray" -> Gives(s, ToCharArray(s))
        [] m = "SubString" -> Gives(s, SubString(s, x, y))
        [] m = "Replace" -> Gives(s, ToCharArray(Replace(s, x, y)))
        [] m = "ReplaceAll" -> Answered(s, ReplaceAll(s, x, y))
        [] m = "Reverse" -> Gives(s, Reverse(s))
        [] m = "Trim" -> Answered(s, Trim(s))
        [] m = "Split" -> Gives(s, Split(s, x))
        [] m = "ToUpper" -> Gives(s, ToUpper(s))
        [] m = "ToLower" -> Gives(s, ToLower(s))
====
