------------------------------ MODULE Vectors ------------------------------
(***************************************************************************)
(* The growing arrays of the class library and what is built on them:       *)
(* IntVector, FloatVector, CompareVector, Vector and the three stacks       *)
(* (src/compiler/lib_src/collect.obs), and the sorts of Byte[], Char[],     *)
(* Int[] and Float[] (lang.obs).                                           *)
(*                                                                         *)
(* A vector is [values, size], the array and how much of it is used.  0     *)
(* stands for 0, 0.0 and Nil.  Indexes count from 0, sequences from 1.      *)
(* A method gives [object, answer], the vector afterwards and what it       *)
(* returns; Fail is the end of the program by an error message.            *)
(***************************************************************************)
EXTENDS Integers, Sequences

LOCAL S == INSTANCE SequencesExt

CONSTANTS
  Room,   \* the array of a new vector or String: 8 in the library
  Fail    \* the program has ended with an error

Gives(object, answer) == [object |-> object, answer |-> answer]
Fails == Gives(Fail, Fail)
Done(object) == IF object = Fail THEN Fails ELSE Gives(object, 0)

Zeros(n) == [i \in 1 .. n |-> 0]

(* CPY_INT_ARY and the like: nothing is copied unless all of it fits. *)
Copy(dest, dest_offset, src, src_offset, length) ==
  IF length > 0 /\ src_offset + length <= Len(src) /\ dest_offset + length <= Len(dest)
  THEN [i \in DOMAIN dest |-> IF i \in dest_offset + 1 .. dest_offset + length
                              THEN src[i - dest_offset + src_offset] ELSE dest[i]]
  ELSE dest

NewVector == [values |-> Zeros(Room), size |-> 0]
NewVectorOf(array) ==
  LET n == Len(array) IN [values |-> Copy(Zeros(n + n \div 2), 0, array, 0, n), size |-> n]
ToArray(v) == Copy(Zeros(v.size), 0, v.values, 0, v.size)
NewVectorFrom(v) == [values |-> ToArray(v), size |-> v.size]

Used(v, i) == i > -1 /\ i < v.size
Resized(v, n) == [v EXCEPT !.values = Copy(Zeros(n), 0, v.values, 0, v.size)]
Expand(v) == IF v.size >= Len(v.values) THEN Resized(v, v.size * 2) ELSE v

AddBack(v, value) ==
  LET e == Expand(v)
  IN  IF e.size < Len(e.values) THEN Done([values |-> [e.values EXCEPT ![e.size + 1] = value], size |-> e.size + 1])
      ELSE Fails

AddBackAll(v, w) ==
  LET max == w.size + v.size
      e == IF max >= Len(v.values) THEN Resized(v, max + max \div 2) ELSE v
  IN  Done([values |-> Copy(e.values, e.size, ToArray(w), 0, w.size), size |-> max])

RemoveBack(v) == IF v.size > 0 THEN Gives([v EXCEPT !.size = @ - 1], v.values[v.size]) ELSE Done(v)

Remove(v, i) ==
  IF Used(v, i)
  THEN LET kept == Copy(Zeros(Len(v.values)), 0, v.values, 0, i)
       IN  Gives([values |-> Copy(kept, i, v.values, i + 1, v.size - i - 1), size |-> v.size - 1], v.values[i + 1])
  ELSE Done(v)

Get(v, i) == IF Used(v, i) THEN v.values[i + 1] ELSE 0
Set(v, value, i) ==
  IF Used(v, i) THEN Gives([v EXCEPT !.values[i + 1] = value], TRUE) ELSE Gives(v, FALSE)

(***************************************************************************)
(* The numbers of a vector.                                                *)
(***************************************************************************)
Toward0(a, b) == IF a < 0 THEN -((-a) \div b) ELSE a \div b

Folded(op(_, _), base, v) == S!FoldLeft(op, base, SubSeq(v.values, 1, v.size))

Average(v) == IF v.size <= 0 THEN 0 ELSE Toward0(Folded(LAMBDA total, x : total + x, 0, v), v.size)
Min(v) == IF v.size <= 0 THEN 0 ELSE Folded(LAMBDA min, x : IF x < min THEN x ELSE min, v.values[1], v)
Max(v) == IF v.size <= 0 THEN 0 ELSE Folded(LAMBDA max, x : IF x > max THEN x ELSE max, v.values[1], v)

(***************************************************************************)
(* The merge sort: a is sorted between low and hi through the array b.      *)
(***************************************************************************)
RECURSIVE Merging(_, _, _, _, _, _), MergeSort(_, _, _)

Merging(a, b, i, mid, j, hi) ==
  LET k == i + j - mid - 1   \* the next place of a
      From(n, i2, j2) == Merging([a EXCEPT ![k + 1] = b[n + 1]], b, i2, mid, j2, hi)
  IN  IF i > mid THEN a
      ELSE IF j > hi \/ b[i + 1] <= b[j + 1] THEN From(i, i + 1, j) ELSE From(j, i, j + 1)

Merge(low, mid, hi, a) == Merging(a, a, low, mid, mid + 1, hi)

MergeSort(low, hi, a) ==
  IF low < hi
  THEN LET mid == (low + hi) \div 2
       IN  Merge(low, mid, hi, MergeSort(mid + 1, hi, MergeSort(low, mid, a)))
  ELSE a

Sort(v) == Done([v EXCEPT !.values = MergeSort(0, v.size - 1, v.values)])

(***************************************************************************)
(* Searches.                                                               *)
(***************************************************************************)
RECURSIVE FindFrom(_, _, _), SearchBetween(_, _, _, _)
FindFrom(v, value, i) ==
  IF i >= v.size THEN -1 ELSE IF v.values[i + 1] = value THEN i ELSE FindFrom(v, value, i + 1)
Find(v, value) == FindFrom(v, value, 0)
Has(v, value) == \E i \in 1 .. v.size : v.values[i] = value

SearchBetween(v, value, low, high) ==
  LET mid == (low + high) \div 2
  IN  IF low > high THEN -1
      ELSE IF v.values[mid + 1] > value THEN SearchBetween(v, value, low, mid - 1)
      ELSE IF v.values[mid + 1] < value THEN SearchBetween(v, value, mid + 1, high)
      ELSE mid
BinarySearch(v, value) == SearchBetween(v, value, 0, v.size - 1)

Filter(v, f(_)) ==
  Folded(LAMBDA filtered, x : IF f(x) THEN AddBack(filtered, x).object ELSE filtered, NewVector, v)
Apply(v, f(_)) == NewVectorOf([i \in 1 .. v.size |-> f(v.values[i])])

(***************************************************************************)
(* The quick sort of an array's own Sort: a copy of it is parted about the   *)
(* value in its middle, then each part.                                    *)
(***************************************************************************)
RECURSIVE Part(_, _, _, _), QuickSort(_, _, _)
Part(array, pivot, i, j) ==
  LET up == CHOOSE n \in i .. Len(array) :
              /\ n = Len(array) \/ array[n + 1] >= pivot
              /\ \A m \in i .. n - 1 : array[m + 1] < pivot
      down == CHOOSE n \in -1 .. j :
                /\ n = -1 \/ array[n + 1] <= pivot
                /\ \A m \in n + 1 .. j : array[m + 1] > pivot
      Swapped == [array EXCEPT ![up + 1] = array[down + 1], ![down + 1] = array[up + 1]]
  IN  IF i > j THEN [array |-> array, i |-> i, j |-> j]
      ELSE IF up = Len(array) \/ down = -1 THEN [array |-> Fail, i |-> 0, j |-> 0]
      ELSE IF up <= down THEN Part(Swapped, pivot, up + 1, down - 1)
      ELSE [array |-> array, i |-> up, j |-> down]

QuickSort(array, low, high) ==
  LET p == Part(array, array[low + (high - low) \div 2 + 1], low, high)
      left == IF low < p.j THEN QuickSort(p.array, low, p.j) ELSE p.array
  IN  IF p.array = Fail \/ left = Fail THEN Fail ELSE IF p.i < high THEN QuickSort(left, p.i, high) ELSE left

SortArray(array) ==
  IF Len(array) <= 1 THEN array
  ELSE QuickSort(Copy(Zeros(Len(array)), 0, array, 0, Len(array)), 0, Len(array) - 1)

(***************************************************************************)
(* The stacks.                                                             *)
(***************************************************************************)
Push(v, value) == AddBack(v, value)
Top(v) == IF v.size > 0 THEN Get(v, v.size - 1) ELSE 0
Pop(v) == IF v.size > 0 THEN Gives(RemoveBack(v).object, Top(v)) ELSE Done(v)

(***************************************************************************)
(* The methods each class has.                                             *)
(***************************************************************************)
Store == {"AddBack", "AddBackAll", "RemoveBack", "Remove", "Get", "Set", "Size", "Empty", "ToArray"}

IntVector == Store \cup {"IsEmpty", "Average", "Min", "Max", "Sort", "Find", "BinarySearch", "Has", "Filter", "Apply"}
FloatStore == Store
FloatNumbers == {"Average", "Min", "Max", "Sort", "Find", "BinarySearch", "Has", "Filter", "Apply"}
CompareStore == Store \cup {"IsEmpty"}
CompareSearches == {"Sort", "Find", "BinarySearch", "Has", "Filter"}
Vector == Store \cup {"IsEmpty"}
Stacked == {"Push", "Pop", "Top", "Size", "IsEmpty", "Empty"}
IntStack == Stacked
FloatStack == Stacked
Stack == Stacked

VectorMethods ==
  [IntVector |-> IntVector, FloatVector |-> FloatStore \cup FloatNumbers,
   CompareVector |-> CompareStore \cup CompareSearches, Vector |-> Vector,
   IntStack |-> IntStack, FloatStack |-> FloatStack, Stack |-> Stack]

(* The method of a call <<name, arguments ...>>. *)
CallVector(v, call, f(_), g(_)) ==
  LET m == call[1]
      x == call[2]
  IN  CASE m = "AddBack" -> AddBack(v, x)
        [] m = "AddBackAll" -> AddBackAll(v, NewVectorOf(x))
        [] m = "RemoveBack" -> RemoveBack(v)
        [] m = "Remove" -> Remove(v, x)
        [] m = "Set" -> Set(v, x, call[3])
        [] m = "Empty" -> Done(NewVector)
        [] m = "Sort" -> Sort(v)
        [] m = "Push" -> Push(v, x)
        [] m = "Pop" -> Pop(v)
        [] m = "Get" -> Gives(v, Get(v, x))
        [] m = "Top" -> Gives(v, Top(v))
        [] m = "Size" -> Gives(v, v.size)
        [] m = "IsEmpty" -> Gives(v, v.size = 0)
        [] m = "ToArray" -> Gives(v, ToArray(v))
        [] m = "Average" -> Gives(v, Average(v))
        [] m = "Min" -> Gives(v, Min(v))
        [] m = "Max" -> Gives(v, Max(v))
        [] m = "Find" -> Gives(v, Find(v, x))
        [] m = "BinarySearch" -> Gives(v, BinarySearch(v, x))
        [] m = "Has" -> Gives(v, Has(v, x))
        [] m = "Filter" -> Gives(v, ToArray(Filter(v, f)))
        [] m = "Apply" -> Gives(v, ToArray(Apply(v, g)))
====
