------------------------------- MODULE Lists -------------------------------
(***************************************************************************)
(* The doubly linked List of the class library with its cursor, and what    *)
(* is built on it: IntList, FloatList, the three queues and the buckets of  *)
(* Hash and StringHash (src/compiler/lib_src/collect.obs).                 *)
(*                                                                         *)
(* A list is [head, tail, cursor, size, nodes]; a node [value, next,        *)
(* previous].  Nodes are numbers, NoNode is Nil.  The nodes no reference    *)
(* leads to are the collector's, and their numbers are given out again.    *)
(***************************************************************************)
EXTENDS Integers, Sequences

CONSTANTS
  Nodes,    \* the numbers of the nodes of one list
  Fail      \* the program has ended with an error

NoNode == 0

Gives(object, answer) == [object |-> object, answer |-> answer]
Fails == Gives(Fail, Fail)
Done(object) == Gives(object, 0)

NewList == [head |-> NoNode, tail |-> NoNode, cursor |-> NoNode, size |-> 0, nodes |-> << >>]

(***************************************************************************)
(* Nodes.                                                                  *)
(***************************************************************************)
Next(l, n) == l.nodes[n].next
Previous(l, n) == l.nodes[n].previous
SetNext(l, n, next) == [l EXCEPT !.nodes[n].next = next]
SetPrevious(l, n, previous) == [l EXCEPT !.nodes[n].previous = previous]

RECURSIVE Reach(_, _)
Reach(l, found) ==
  LET more == found \cup (UNION {{Next(l, n), Previous(l, n)} : n \in found} \ {NoNode})
  IN  IF more = found THEN found ELSE Reach(l, more)
Reachable(l) == Reach(l, {l.head, l.tail, l.cursor} \ {NoNode})
Collected(l) == [l EXCEPT !.nodes = [n \in Reachable(l) |-> l.nodes[n]]]

Free(l) == Nodes \ Reachable(l)
NewNode(l) == CHOOSE n \in Free(l) : \A m \in Free(l) : n <= m
WithNode(l, value) ==
  LET c == Collected(l) node == NewNode(l)
  IN  [c EXCEPT !.nodes = [n \in DOMAIN c.nodes \cup {node} |->
                             IF n = node THEN [value |-> value, next |-> NoNode, previous |-> NoNode] ELSE c.nodes[n]]]

(***************************************************************************)
(* Additions.                                                              *)
(***************************************************************************)
First(l, node) == [l EXCEPT !.head = node, !.tail = node, !.cursor = node]
Longer(l) == [l EXCEPT !.size = @ + 1]
AfterNode(l, n, node) == SetPrevious(SetNext(l, n, node), node, n)

AddBack(l, value) ==
  LET node == NewNode(l) w == Longer(WithNode(l, value))
  IN  IF l.head = NoNode THEN Done(First(w, node))
      ELSE IF l.tail = NoNode THEN Fails
      ELSE Done([AfterNode(w, w.tail, node) EXCEPT !.tail = node])

AddFront(l, value) ==
  LET node == NewNode(l) w == Longer(WithNode(l, value))
  IN  IF l.head = NoNode THEN Done(First(w, node))
      ELSE Done([AfterNode(w, node, l.head) EXCEPT !.head = node, !.cursor = node])

(* After the cursor. *)
Insert(l, value) ==
  LET node == NewNode(l) w == Longer(WithNode(l, value)) next == Next(l, l.cursor)
  IN  IF l.cursor # NoNode /\ l.head # NoNode /\ l.tail # NoNode
      THEN IF l.cursor = l.tail THEN Gives([AfterNode(w, w.tail, node) EXCEPT !.tail = node], TRUE)
           ELSE IF next = NoNode THEN Fails
           ELSE Gives(AfterNode(AfterNode(w, node, next), l.cursor, node), TRUE)
      ELSE IF l.head = NoNode /\ l.tail = NoNode THEN Gives(AddBack(l, value).object, TRUE)
      ELSE Gives(l, FALSE)

(***************************************************************************)
(* The cursor.                                                             *)
(***************************************************************************)
Rewind(l) == [l EXCEPT !.cursor = l.head]
Forward(l) == [l EXCEPT !.cursor = l.tail]
MoveNext(l) == IF l.cursor # NoNode THEN [l EXCEPT !.cursor = Next(l, @)] ELSE l
MovePrevious(l) == IF l.cursor # NoNode THEN [l EXCEPT !.cursor = Previous(l, @)] ELSE l
ValueAt(l, n) == IF n # NoNode THEN l.nodes[n].value ELSE 0
Get(l) == ValueAt(l, l.cursor)
Front(l) == ValueAt(l, l.head)
Back(l) == ValueAt(l, l.tail)

(***************************************************************************)
(* Removals.  What follows the cursor is joined to what precedes it in one   *)
(* direction only.                                                         *)
(***************************************************************************)
Remove(l) ==
  LET before == Previous(l, l.cursor)
      next == Next(l, l.cursor)
      joined == IF before # NoNode THEN SetNext(l, before, next) ELSE l
      after == Next(joined, l.cursor)
  IN  IF l.cursor = NoNode THEN l
      ELSE Collected([joined EXCEPT !.cursor = after, !.size = @ - 1,
                                    !.head = IF l.cursor = l.head THEN after ELSE @,
                                    !.tail = IF l.cursor = l.tail THEN after ELSE @])

RemoveBack(l) == Remove(Forward(l))
RemoveFront(l) == Remove(Rewind(l))

(***************************************************************************)
(* Searches: Has from both ends at once, Find with the cursor.             *)
(***************************************************************************)
RECURSIVE HasBetween(_, _, _, _), FindFrom(_, _)
HasBetween(l, value, start, end) ==
  IF start = end THEN start # NoNode /\ ValueAt(l, start) = value
  ELSE IF start = NoNode THEN Fail
  ELSE IF ValueAt(l, start) = value THEN TRUE
  ELSE IF end = NoNode THEN Fail
  ELSE IF ValueAt(l, end) = value THEN TRUE
  ELSE HasBetween(l, value, Next(l, start), Previous(l, end))
Has(l, value) == HasBetween(l, value, l.head, l.tail)

FindFrom(l, value) ==
  IF l.cursor = NoNode THEN Gives(l, 0)
  ELSE IF ValueAt(l, l.cursor) = value THEN Gives(l, value) ELSE FindFrom(MoveNext(l), value)
Find(l, value) == FindFrom(Rewind(l), value)

(***************************************************************************)
(* The lists of numbers keep holders: Get of no node ends the program.      *)
(***************************************************************************)
Moves == {"Rewind", "Forward", "Next", "Previous", "IsFront", "IsBack", "More"}
Changes == {"AddBack", "AddFront", "Insert", "Remove", "RemoveBack", "RemoveFront", "Empty"}
List == Changes \cup Moves \cup {"Get", "Front", "Back", "Find", "Has", "IsEmpty", "Size"}
IntList == Changes \cup Moves \cup {"GetNumber", "Front", "Back", "FindNumber", "IsEmpty", "Size"}
FloatList == IntList

(***************************************************************************)
(* The queues.                                                             *)
(***************************************************************************)
Dequeue(l) == IF l.size > 0 THEN Gives(RemoveFront(l), Front(l)) ELSE Done(l)
Foremost(l) == IF l.size > 0 THEN Front(l) ELSE 0
FloatQueue == {"Add", "Dequeue", "Head", "Empty", "IsEmpty", "Size"}
IntQueue == {"Add", "Dequeue", "Head", "Empty", "IsEmpty", "Size"}
Queue == {"Add", "Dequeue", "Head", "Empty", "IsEmpty", "Size"}

ListMethods ==
  [List |-> List, IntList |-> IntList, FloatList |-> FloatList,
   FloatQueue |-> FloatQueue, IntQueue |-> IntQueue, Queue |-> Queue]

(* The method of a call <<name, arguments ...>>. *)
CallList(l, call) ==
  LET m == call[1]
      x == call[2]
  IN  CASE m = "AddBack" -> AddBack(l, x)
        [] m = "AddFront" -> AddFront(l, x)
        [] m = "Insert" -> Insert(l, x)
        [] m = "Remove" -> Done(Remove(l))
        [] m = "RemoveBack" -> Done(RemoveBack(l))
        [] m = "RemoveFront" -> Done(RemoveFront(l))
        [] m = "Empty" -> Done(NewList)
        [] m = "Rewind" -> Done(Rewind(l))
        [] m = "Forward" -> Done(Forward(l))
        [] m = "Next" -> Done(MoveNext(l))
        [] m = "Previous" -> Done(MovePrevious(l))
        [] m = "IsFront" -> Gives(l, l.cursor = l.head)
        [] m = "IsBack" -> Gives(l, l.cursor = l.tail)
        [] m = "More" -> Gives(l, l.cursor # NoNode)
        [] m = "Get" -> Gives(l, Get(l))
        [] m = "GetNumber" -> IF l.cursor = NoNode THEN Fails ELSE Gives(l, Get(l))
        [] m = "Front" -> Gives(l, Front(l))
        [] m = "Back" -> Gives(l, Back(l))
        [] m = "Find" -> Find(l, x)
        [] m = "FindNumber" -> Gives(Find(l, x).object, Find(l, x).answer # 0)
        [] m = "Has" -> IF Has(l, x) = Fail THEN Fails ELSE Gives(l, Has(l, x))
        [] m = "IsEmpty" -> Gives(l, l.size = 0)
        [] m = "Size" -> Gives(l, l.size)
        [] m = "Add" -> AddBack(l, x)
        [] m = "Dequeue" -> Dequeue(l)
        [] m = "Head" -> Gives(l, Foremost(l))
====
