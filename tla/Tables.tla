------------------------------- MODULE Tables -------------------------------
(***************************************************************************)
(* Map, the tree of Andersson, with IntMap, FloatMap, StringMap and the     *)
(* sets; and Hash, StringHash over lists (src/compiler/lib_src/collect.obs).*)
(*                                                                         *)
(* A tree is Leaf or [key, value, level, left, right]; a map [root, size].  *)
(* A hash is [buckets, size], a bucket NoList until something falls in it;   *)
(* the elements of its lists are pairs <<key, value>>.  0 stands for Nil.   *)
(***************************************************************************)
EXTENDS Integers, Sequences

CONSTANTS
  Nodes, Fail,   \* of Lists
  Buckets,       \* how many buckets a hash has: 337 in the library
  HashID         \* the HashID of a key: a function

L == INSTANCE Lists
LOCAL S == INSTANCE SequencesExt

Gives(object, answer) == [object |-> object, answer |-> answer]
Fails == Gives(Fail, Fail)
Done(object) == Gives(object, 0)

(***************************************************************************)
(* The tree.                                                               *)
(***************************************************************************)
Leaf == [level |-> 0]
NewTreeNode(key, value, level) == [key |-> key, value |-> value, level |-> level, left |-> Leaf, right |-> Leaf]

(* Fault: what was right of the left child is lost. *)
Skew_Drops(node) ==
  IF node = Leaf \/ node.left = Leaf THEN node
  ELSE IF node.left.level = node.level THEN [node.left EXCEPT !.right = [node EXCEPT !.left = Leaf]]
       ELSE node

Skew(node) ==
  IF node = Leaf \/ node.left = Leaf THEN node
  ELSE IF node.left.level = node.level
       THEN [node.left EXCEPT !.right = [node EXCEPT !.left = node.left.right]]
       ELSE node

Split(node) ==
  IF node = Leaf \/ node.right = Leaf \/ node.right.right = Leaf THEN node
  ELSE IF node.right.right.level = node.level
       THEN [node.right EXCEPT !.left = [node EXCEPT !.right = node.right.left], !.level = @ + 1]
       ELSE node

RECURSIVE FindIn(_, _), KeysOf(_), ValuesOf(_), InsertIn(_, _, _), RemoveIn(_, _), Found(_, _), Leftmost(_), Rightmost(_)

FindIn(key, node) ==
  IF node = Leaf THEN 0
  ELSE IF key < node.key THEN FindIn(key, node.left)
  ELSE IF key > node.key THEN FindIn(key, node.right)
  ELSE node.value

KeysOf(node) == IF node = Leaf THEN <<>> ELSE KeysOf(node.left) \o <<node.key>> \o KeysOf(node.right)
ValuesOf(node) == IF node = Leaf THEN <<>> ELSE ValuesOf(node.left) \o <<node.value>> \o ValuesOf(node.right)

(* A key that is there keeps its value. *)
InsertIn(key, value, node) ==
  IF node = Leaf THEN NewTreeNode(key, value, 1)
  ELSE IF key < node.key THEN Split(Skew([node EXCEPT !.left = InsertIn(key, value, @)]))
  ELSE IF key > node.key THEN Split(Skew([node EXCEPT !.right = InsertIn(key, value, @)]))
  ELSE node

(* What the code calls the predecessor is the leftmost of the left, the     *)
(* successor the rightmost of the right.                                   *)
Leftmost(node) == IF node.left = Leaf THEN node.key ELSE Leftmost(node.left)
Rightmost(node) == IF node.right = Leaf THEN node.key ELSE Rightmost(node.right)
Predecessor(node) == IF node.left # Leaf THEN Leftmost(node.left) ELSE node.key
Successor(node) == IF node.right # Leaf THEN Rightmost(node.right) ELSE node.key

DecreaseLevel(node) ==
  LET value == IF node.left.level < node.right.level THEN node.left.level ELSE node.right.level
  IN  IF node.left # Leaf /\ node.right # Leaf /\ value < node.level
      THEN [node EXCEPT !.level = value,
                        !.right = IF value < node.right.level THEN [@ EXCEPT !.level = value] ELSE @]
      ELSE node

Rebalanced(node) ==
  LET skewed == LET n == Skew(DecreaseLevel(node)) IN [n EXCEPT !.right = Skew(@)]
      deeper == IF skewed.right # Leaf /\ skewed.right.right # Leaf
                THEN [skewed EXCEPT !.right.right = Skew(@)] ELSE skewed
      parted == Split(deeper)
  IN  [parted EXCEPT !.right = Split(@)]

RemoveIn(key, node) ==
  IF node = Leaf THEN Leaf
  ELSE IF key < node.key THEN Rebalanced([node EXCEPT !.left = RemoveIn(key, @)])
  ELSE IF key > node.key THEN Rebalanced([node EXCEPT !.right = RemoveIn(key, @)])
  ELSE IF node.left = Leaf /\ node.right = Leaf THEN Leaf
  ELSE IF node.left = Leaf
       THEN Rebalanced([node EXCEPT !.right = RemoveIn(Successor(node), @), !.key = Successor(node)])
       ELSE Rebalanced([node EXCEPT !.left = RemoveIn(Predecessor(node), @), !.key = Predecessor(node)])

(* @found: the removal has come to no end of the tree. *)
Found(key, node) ==
  IF node = Leaf THEN FALSE
  ELSE IF key < node.key THEN Found(key, node.left)
  ELSE IF key > node.key THEN Found(key, node.right)
  ELSE IF node.left = Leaf /\ node.right = Leaf THEN TRUE
  ELSE IF node.left = Leaf THEN Found(Successor(node), node.right) ELSE Found(Predecessor(node), node.left)

(***************************************************************************)
(* Map.                                                                    *)
(***************************************************************************)
NewMap == [root |-> Leaf, size |-> 0]
Inserted(m, key, value) ==
  LET root == InsertIn(key, value, m.root)
  IN  [root |-> root, size |-> m.size + Len(KeysOf(root)) - Len(KeysOf(m.root))]
Removed(m, key) ==
  [root |-> RemoveIn(key, m.root), size |-> IF Found(key, m.root) THEN m.size - 1 ELSE m.size]

Map == {"Insert", "Remove", "Find", "Has", "GetKeys", "GetValues", "Empty", "IsEmpty", "Size"}

(* The keys that are numbers are kept in holders; GetKeys goes through the  *)
(* vector it is to fill, which is empty.                                   *)
IntMap == (Map \ {"GetKeys"}) \cup {"GetNumbers"}
FloatMap == (Map \ {"GetKeys"}) \cup {"GetNumbers"}
StringMap == Map

(* The value of a key of a set is a new Base. *)
Plain == 1
FloatSet == {"Add", "Remove", "Has", "GetNumbers", "GetValues", "Empty", "IsEmpty", "Size"}
StringSet == {"Add", "Remove", "Has", "GetKeys", "Empty", "IsEmpty", "Size"}
Set == {"Add", "Remove", "Has", "GetKeys", "Empty", "IsEmpty", "Size"}

MapMethods ==
  [Map |-> Map, IntMap |-> IntMap, FloatMap |-> FloatMap, StringMap |-> StringMap,
   FloatSet |-> FloatSet, StringSet |-> StringSet, Set |-> Set]

CallMap(m, call) ==
  LET name == call[1]
      key == call[2]
  IN  CASE name = "Insert" -> Done(Inserted(m, key, call[3]))
        [] name = "Add" -> Done(Inserted(m, key, Plain))
        [] name = "Remove" -> Done(Removed(m, key))
        [] name = "Empty" -> Done(NewMap)
        [] name = "Find" -> Gives(m, FindIn(key, m.root))
        [] name = "Has" -> Gives(m, FindIn(key, m.root) # 0)
        [] name = "GetKeys" -> Gives(m, KeysOf(m.root))
        [] name = "GetNumbers" -> Gives(m, <<>>)
        [] name = "GetValues" -> Gives(m, ValuesOf(m.root))
        [] name = "IsEmpty" -> Gives(m, m.size = 0)
        [] name = "Size" -> Gives(m, m.size)

(***************************************************************************)
(* Hash.  A key may be in its bucket several times.                         *)
(***************************************************************************)
NoList == [size |-> -1]
NewHash == [buckets |-> [i \in 0 .. Buckets - 1 |-> NoList], size |-> 0]

Magnitude(n) == IF n < 0 THEN -n ELSE n
Bucket(key) == Magnitude(HashID[key]) % Buckets

InsertPair(h, key, value) ==
  LET list == IF h.buckets[Bucket(key)] = NoList THEN L!NewList ELSE h.buckets[Bucket(key)]
      longer == L!AddBack(list, <<key, value>>).object
  IN  IF longer = Fail THEN Fails
      ELSE Done([buckets |-> [h.buckets EXCEPT ![Bucket(key)] = longer], size |-> h.size + 1])

(* The cursor at the first pair with the key, or past the last. *)
RECURSIVE Seek(_, _)
Seek(list, key) ==
  IF list.cursor = L!NoNode \/ L!Get(list)[1] = key THEN list ELSE Seek(L!MoveNext(list), key)
Sought(h, key) == LET list == h.buckets[Bucket(key)] IN IF list = NoList THEN list ELSE Seek(L!Rewind(list), key)
Holds(list) == list # NoList /\ list.cursor # L!NoNode
With(h, key, list) == [h EXCEPT !.buckets[Bucket(key)] = list]

FindPair(h, key) ==
  LET list == Sought(h, key)
  IN  Gives(With(h, key, list), IF Holds(list) THEN L!Get(list)[2] ELSE 0)

RemovePair(h, key) ==
  LET list == Sought(h, key)
  IN  IF Holds(list) THEN Gives([With(h, key, L!Remove(list)) EXCEPT !.size = @ - 1], TRUE)
      ELSE Gives(With(h, key, list), FALSE)

(* The pairs of a list from its head on. *)
RECURSIVE PairsFrom(_)
PairsFrom(list) == IF list.cursor = L!NoNode THEN <<>> ELSE <<L!Get(list)>> \o PairsFrom(L!MoveNext(list))
Pairs(h, i) == IF h.buckets[i] = NoList THEN <<>> ELSE PairsFrom(L!Rewind(h.buckets[i]))
AllPairs(h) == S!FlattenSeq([i \in 1 .. Buckets |-> Pairs(h, i - 1)])
(* GetKeys and GetValues leave every cursor past the last pair. *)
Passed(h) ==
  [h EXCEPT !.buckets = [i \in DOMAIN @ |-> IF @[i] = NoList THEN NoList ELSE [@[i] EXCEPT !.cursor = L!NoNode]]]
KeysOfHash(h) == LET pairs == AllPairs(h) IN Gives(Passed(h), [i \in DOMAIN pairs |-> pairs[i][1]])
ValuesOfHash(h) == LET pairs == AllPairs(h) IN Gives(Passed(h), [i \in DOMAIN pairs |-> pairs[i][2]])

Hash == {"Insert", "Remove", "Find", "Has", "GetKeys", "GetValues", "Empty", "Size"}
StringHash == Hash
HashMethods == [Hash |-> Hash, StringHash |-> StringHash]

CallHash(h, call) ==
  LET name == call[1]
      key == call[2]
  IN  CASE name = "Insert" -> InsertPair(h, key, call[3])
        [] name = "Remove" -> RemovePair(h, key)
        [] name = "Find" -> FindPair(h, key)
        [] name = "Has" -> Gives(FindPair(h, key).object, FindPair(h, key).answer # 0)
        [] name = "GetKeys" -> KeysOfHash(h)
        [] name = "GetValues" -> ValuesOfHash(h)
        [] name = "Empty" -> Done(NewHash)
        [] name = "Size" -> Gives(h, h.size)
====
