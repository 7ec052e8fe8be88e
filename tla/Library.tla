------------------------------ MODULE Library ------------------------------
(***************************************************************************)
(* A program and one object of the class library: any constructor, then     *)
(* any calls of the methods of its class, whatever they do.                *)
(*                                                                         *)
(* Where Vectors, Lists, Tables and Strings are the code, Containers is     *)
(* what it promises.  A call is held to the promise in every state that     *)
(* has what the call needs: the operators named Needs below say where the    *)
(* code does not do what its name and the guide say, and no more.          *)
(***************************************************************************)
EXTENDS Integers, Sequences, FiniteSets

CONSTANTS
  Room, Fail, Nodes, Buckets, HashID, Digits, Patience,  \* of the classes
  Classes,      \* the classes an object may be of
  Elements,     \* what vectors, lists and stacks hold
  Keys, Held,   \* what maps and hashes hold
  HashKeys,     \* the keys of hashes
  Arrays,       \* arrays of values
  Literals,                \* what Strings are made of
  Texts, Letters, Numbers,   \* arguments of the methods of String
  Longest,      \* bound: elements of a vector
  Length,       \* bound: characters of a String
  MostPairs     \* bound: pairs of a hash

ASSUME LibraryAssumption ==
  /\ Room \in Nat \ {0} /\ Digits \in Nat \ {0} /\ Patience \in Nat
  /\ Nodes \subseteq Nat \ {0} /\ Buckets \in Nat \ {0}
  /\ HashKeys \subseteq DOMAIN HashID

VARIABLES
  class,    \* the class of the object
  object,   \* the object, Fail when the program has ended with an error
  kept      \* of a list or a hash: every call so far had what it needs

vars == <<class, object, kept>>

V == INSTANCE Vectors
L == INSTANCE Lists
T == INSTANCE Tables
Str == INSTANCE Strings
C == INSTANCE Containers

(***************************************************************************)
(* Calls.                                                                  *)
(***************************************************************************)
VectorClasses == DOMAIN V!VectorMethods
ListClasses == DOMAIN L!ListMethods
MapClasses == DOMAIN T!MapMethods
HashClasses == DOMAIN T!HashMethods

Some(x) == x # 2
Opposite(x) == 1 - x

Call(o, call) ==
  CASE class \in VectorClasses -> V!CallVector(o, call, Some, Opposite)
    [] class \in ListClasses -> L!CallList(o, call)
    [] class \in MapClasses -> T!CallMap(o, call)
    [] class \in HashClasses -> T!CallHash(o, call)
    [] OTHER -> Str!CallString(o, call)

Places == -1 .. Longest
VectorCalls(methods) ==
  LET placed == {"Remove", "Get"}
      valued == {"AddBack", "Push", "Find", "BinarySearch", "Has"}
  IN  {<<m>> : m \in methods \ (placed \cup valued \cup {"AddBackAll", "Set"})}
      \cup ((methods \cap placed) \X Places) \cup ((methods \cap valued) \X Elements)
      \cup ((methods \cap {"AddBackAll"}) \X Arrays) \cup ((methods \cap {"Set"}) \X Elements \X Places)

ListCalls(methods) ==
  LET taking == {"AddBack", "AddFront", "Insert", "Add", "Find", "FindNumber", "Has"}
  IN  {<<m>> : m \in methods \ taking} \cup ((methods \cap taking) \X Elements)

TableCalls(methods, keys) ==
  LET taking == {"Add", "Remove", "Find", "Has"}
  IN  {<<m>> : m \in methods \ (taking \cup {"Insert"})} \cup ((methods \cap taking) \X keys)
      \cup ((methods \cap {"Insert"}) \X keys \X Held)

StringCalls ==
  {<<m>> : m \in {"Pop", "Size", "IsEmpty", "ToInt", "ToCharArray", "Reverse", "Trim", "ToUpper", "ToLower"}}
  \cup ({"AppendChar", "StartsWithChar"} \X Letters)
  \cup ({"Append", "StartsWith", "EndsWith", "Compare", "Equals", "Split"} \X Texts)
  \cup ({"AppendInt"} \X Numbers)
  \cup ({"Get"} \X Places)
  \cup ({"FindChar", "FindLast"} \X Places \X Letters)
  \cup ({"Find"} \X Texts \X {0, 1})
  \cup {call \in {"SubString"} \X Places \X Places : call[3] >= 0}
  \cup ({"Replace", "ReplaceAll"} \X Texts \X Texts)
  \cup ({"AppendPart"} \X Texts \X {-1, 0, 1} \X {0, 1, 2})

Calls ==
  CASE class \in VectorClasses -> VectorCalls(V!VectorMethods[class])
    [] class \in ListClasses -> ListCalls(L!ListMethods[class])
    [] class \in MapClasses -> TableCalls(T!MapMethods[class], Keys)
    [] class \in HashClasses -> TableCalls(T!HashMethods[class], HashKeys)
    [] OTHER -> StringCalls

(***************************************************************************)
(* What an object holds.                                                   *)
(***************************************************************************)
RECURSIVE ChainFrom(_, _, _)
ChainFrom(l, n, seen) == IF n = L!NoNode \/ n \in seen THEN <<>> ELSE <<n>> \o ChainFrom(l, L!Next(l, n), seen \cup {n})
Chain(l) == ChainFrom(l, l.head, {})
Items(l) == LET chain == Chain(l) IN [i \in DOMAIN chain |-> L!ValueAt(l, chain[i])]
Strayed == -1
ListContents(l) ==
  LET chain == Chain(l)
      places == {i \in DOMAIN chain : chain[i] = l.cursor}
  IN  [items |-> Items(l),
       at |-> IF l.cursor = L!NoNode THEN 0 ELSE IF places = {} THEN Strayed ELSE CHOOSE i \in places : TRUE]

MapContents(m) == [k \in {key \in Keys : T!FindIn(key, m.root) # 0} |-> T!FindIn(k, m.root)]
InKeyOrder(m) == LET keys == T!KeysOf(m.root) IN \A i \in 1 .. Len(keys) - 1 : keys[i] < keys[i + 1]
BucketItems(h, i) == IF h.buckets[i] = T!NoList THEN <<>> ELSE Items(h.buckets[i])
AllItems(h) == C!FlattenSeq([i \in 1 .. Buckets |-> BucketItems(h, i - 1)])
HashContents(h) ==
  [k \in HashKeys |-> LET pairs == SelectSeq(BucketItems(h, T!Bucket(k)), LAMBDA pair : pair[1] = k)
                  IN  [i \in DOMAIN pairs |-> pairs[i][2]]]

(***************************************************************************)
(* Bounds: the elements of an object, and no more calls of a list whose      *)
(* cursor is on a removed node, of a map whose keys have lost their order or *)
(* of a hash that has lost a pair: nothing is promised of them.             *)
(***************************************************************************)
HasRoom(o, call) ==
  CASE class \in VectorClasses -> call[1] \in {"AddBack", "Push"} => o.size < Longest
    [] class \in ListClasses ->
         /\ ListContents(o).at # Strayed
         /\ call[1] \in {"AddBack", "AddFront", "Insert", "Add"} => L!Free(o) # {}
    [] class \in MapClasses -> InKeyOrder(o)
    [] class \in HashClasses ->
         LET list == o.buckets[T!Bucket(call[2])]
         IN  kept /\ (call[1] = "Insert" => Len(AllItems(o)) < MostPairs /\ (list # T!NoList => L!Free(list) # {}))
    [] OTHER -> TRUE

WithinBounds(o) ==
  CASE o = Fail -> TRUE
    [] class \in VectorClasses -> o.size <= Longest
    [] class \in ListClasses -> o.size >= 0
    [] class \in HashClasses -> o.size >= 0
    [] class = "String" -> o.pos <= Length
    [] OTHER -> TRUE

(***************************************************************************)
(* What a call of a vector needs: an array made from nothing never grows.   *)
(***************************************************************************)
NeedsOfVector(v, call) ==
  /\ call[1] \in {"AddBack", "Push"} => v.values # <<>>
  /\ call[1] = "BinarySearch" => C!Ascends(SubSeq(v.values, 1, v.size))

(***************************************************************************)
(* What a call of a list needs.  Remove joins its neighbours in one         *)
(* direction only and, at the end of a longer list, forgets the tail.       *)
(***************************************************************************)
Before(l, n) == LET chain == Chain(l) i == CHOOSE j \in DOMAIN chain : chain[j] = n IN IF i = 1 THEN L!NoNode ELSE chain[i - 1]
Joined(l, n) == n # L!NoNode => n = l.head \/ L!Previous(l, n) = Before(l, n)
AtEnd(l, n) == n = L!NoNode \/ L!Previous(l, n) = Before(l, n)
TailKnown(l) == l.tail = IF Chain(l) = <<>> THEN L!NoNode ELSE Chain(l)[Len(Chain(l))]

NeedsOfList(l, call) ==
  LET m == call[1]
  IN  /\ m \in {"AddBack", "Insert", "Forward", "Back", "IsBack", "RemoveBack", "Has"} => TailKnown(l)
      /\ m = "Remove" => Joined(l, l.cursor)
      /\ m = "RemoveBack" => Joined(l, l.tail)
      /\ m = "Previous" => AtEnd(l, l.cursor)
      /\ m = "Has" => \A i \in DOMAIN Chain(l) : AtEnd(l, Chain(l)[i])
      /\ m = "GetNumber" => l.cursor # L!NoNode
      /\ m \in {"Size", "IsEmpty"} => kept

(***************************************************************************)
(* What a call of a map needs.  Removing a key with subtrees puts the first  *)
(* key of the left one, or the last of the right one, in its place, and     *)
(* leaves the value.                                                       *)
(***************************************************************************)
RECURSIVE NodeOf(_, _)
NodeOf(key, node) ==
  IF node = T!Leaf \/ node.key = key THEN node ELSE NodeOf(key, IF key < node.key THEN node.left ELSE node.right)
Single(node) == Len(T!KeysOf(node)) = 1
Replaces(node, other) == Single(other) /\ other.value = node.value

NeedsOfMap(m, call) ==
  LET name == call[1]
      node == NodeOf(call[2], m.root)
  IN  /\ name = "Remove" => \/ node = T!Leaf \/ (node.left = T!Leaf /\ node.right = T!Leaf)
                            \/ node.left # T!Leaf /\ Replaces(node, node.left)
                            \/ node.left = T!Leaf /\ Replaces(node, node.right)
      /\ name = "GetNumbers" => m.root = T!Leaf

NeedsOfHash(h, call) ==
  LET list == T!Sought(h, call[2])
      kept_list == h.buckets[T!Bucket(call[2])]
  IN  /\ call[1] = "Insert" => kept_list = T!NoList \/ TailKnown(kept_list)
      /\ call[1] = "Remove" /\ T!Holds(list) => Joined(list, list.cursor)

(***************************************************************************)
(* What a call of a String needs.                                          *)
(***************************************************************************)
NoZero(s) == \A i \in DOMAIN s : s[i] # 0
Shares(s, t) == \E i \in DOMAIN s, j \in DOMAIN t : s[i] = t[j]

(* A delimiter is found, none begins where another was expected to begin or  *)
(* right after another, and none is last.                                  *)
Separated(s, delim) ==
  LET found == C!Matched(s, delim)
  IN  /\ delim # <<>> /\ found # {}
      /\ C!Places(s, delim[1]) = found
      /\ \A i \in found : i + Len(delim) \in 0 .. Len(s) - 1 \ found

NeedsOfString(s, call) ==
  LET m == call[1]
      chars == Str!ToCharArray(s)
  IN  /\ m = "Append" => NoZero(call[2])
      /\ m = "AppendPart" => NoZero(call[2]) /\ call[3] <= Len(call[2]) - call[4]
      /\ m = "AppendInt" => LET magnitude == IF call[2] < 0 THEN -call[2] ELSE call[2] IN magnitude < 10 ^ Digits
      /\ m = "Get" => call[2] >= 0
      /\ m = "StartsWithChar" => call[2] # 0
      /\ m = "FindLast" => call[2] = 0
      /\ m = "Find" => call[3] = 0 /\ call[2] # <<>>
      /\ m \in {"SubString", "Replace", "ReplaceAll", "Reverse", "Split", "ToUpper", "ToLower"} => NoZero(chars)
      /\ m \in {"Replace", "ReplaceAll"} => call[2] # <<>> /\ NoZero(call[3])
      /\ m = "ReplaceAll" => ~Shares(call[2], call[3]) /\ (call[3] = <<>> => Len(call[2]) = 1)
      /\ m = "Trim" => LET trailing == {i \in 1 .. s.pos : C!AllIn(SubSeq(chars, i, s.pos), Str!Blanks)}
                       IN  Cardinality(trailing) <= 1 \/ (1 \in trailing /\ s.pos < Str!Max(s))
      /\ m = "Split" => Separated(chars, call[2])

(***************************************************************************)
(* The program.                                                            *)
(***************************************************************************)
Needs(o, call) ==
  CASE class \in VectorClasses -> NeedsOfVector(o, call)
    [] class \in ListClasses -> NeedsOfList(o, call)
    [] class \in MapClasses -> NeedsOfMap(o, call)
    [] class \in HashClasses -> NeedsOfHash(o, call)
    [] OTHER -> NeedsOfString(o, call)

NewObjects(c) ==
  CASE c \in {"IntStack", "FloatStack", "Stack"} -> {V!NewVector}
    [] c \in VectorClasses -> {V!NewVector} \cup {V!NewVectorOf(array) : array \in Arrays}
                              \cup {V!NewVectorFrom(V!NewVectorOf(array)) : array \in Arrays}
    [] c \in ListClasses -> {L!NewList}
    [] c \in MapClasses -> {T!NewMap}
    [] c \in HashClasses -> {T!NewHash}
    [] OTHER -> {Str!NewString} \cup {Str!NewStringOf(text) : text \in Literals}
                \cup {Str!NewStringFrom(text) : text \in Literals}
                \cup {Str!NewStringPart(text, offset, 1).object : text \in Literals, offset \in {-1, 0, 1}}

Init ==
  /\ class \in Classes
  /\ object \in NewObjects(class)
  /\ kept = TRUE

Next ==
  /\ object # Fail
  /\ \E call \in Calls :
       /\ HasRoom(object, call)
       /\ object' = Call(object, call).object
       /\ WithinBounds(object')
       /\ kept' = (kept /\ (class \in ListClasses \cup HashClasses => Needs(object, call)))
  /\ UNCHANGED class

Spec == Init /\ [][Next]_vars

(***************************************************************************)
(* Properties.                                                             *)
(***************************************************************************)
Contents(v) == SubSeq(v.values, 1, v.size)

Promised(o, call, result) ==
  CASE class \in VectorClasses ->
         C!VectorPromise(Contents(o), call, Contents(result.object), result.answer, Some, Opposite)
    [] class \in ListClasses -> C!ListPromise(ListContents(o), call, ListContents(result.object), result.answer)
    [] class \in MapClasses -> C!MapPromise(MapContents(o), call, MapContents(result.object), result.answer, T!Plain)
    [] class \in HashClasses -> C!HashPromise(HashContents(o), call, HashContents(result.object), result.answer)
    [] OTHER -> C!StringPromise(Str!ToCharArray(o), call, Str!ToCharArray(result.object), result.answer, Str!Blanks)

Kept(o, call) ==
  LET result == Call(o, call)
  IN  HasRoom(o, call) /\ Needs(o, call) => result.object # Fail /\ Promised(o, call, result)

(* In whatever state earlier calls have left a vector, a stack, a list, a    *)
(* queue, a map, a set or a hash, a call that has what it needs ends, and    *)
(* what the object then holds and the answer are what the container         *)
(* promises: no growth, removal or rotation loses, doubles or disorders an   *)
(* element.  The sort of an array gives its elements in order.              *)
CollectionsAgree ==
  object # Fail /\ class # "String" =>
    /\ \A call \in Calls : Kept(object, call)
    /\ class \in VectorClasses =>
         LET sorted == V!SortArray(Contents(object))
         IN  sorted # Fail /\ C!Ascends(sorted) /\ C!SameMembers(sorted, Contents(object))

(* The same of a String, however its array has grown and been emptied; and   *)
(* what UrlUtility decodes is what it encoded, unless '$' or '&' is in it,    *)
(* and what IntToHexString writes after "0x" is read back by ToInt.          *)
StringsAgree ==
  object # Fail /\ class = "String" =>
    LET chars == Str!ToCharArray(object)
    IN  /\ \A call \in Calls : Kept(object, call)
        /\ NoZero(chars) /\ {36, 38} \cap {chars[i] : i \in DOMAIN chars} = {} =>
             Str!Decode(Str!NewStringOf(Str!Encode(object))) = chars
        /\ \A n \in Numbers : n >= 0 /\ n < 16 ^ Digits =>
             Str!ToInt(Str!NewStringOf(Str!Hex \o Str!IntToHexString(n))) = n
====
