--------------------------- MODULE ReclaimedHeap ---------------------------
(***************************************************************************)
(* What an Objeck program may rely on: memory is reclaimed behind its back *)
(* and only when it can no longer be reached.  The heap is a graph; blocks *)
(* the program can reach stay, with the references they hold, and nothing  *)
(* that was given up comes back.                                           *)
(***************************************************************************)
EXTENDS Integers

CONSTANT Blocks

VARIABLES
  heap,       \* the blocks that have not been reclaimed
  roots,      \* the blocks the program's variables refer to
  points      \* [heap -> SUBSET Blocks]: the blocks each block refers to

vars == <<heap, roots, points>>

Init == heap = {} /\ roots = {} /\ points = [b \in heap |-> {}]

Closed(C) == roots \subseteq C /\ \A b \in C : points[b] \subseteq C

Reachable == {b \in heap : \A C \in SUBSET heap : Closed(C) => b \in C}

\* The program allocates or moves references it has.
Run ==
  LET known == Reachable \cup (heap' \ heap) IN
  /\ heap \subseteq heap' /\ heap' \subseteq Blocks
  /\ roots' \subseteq known
  /\ \A b \in heap' : points'[b] \subseteq known \cup (IF b \in heap THEN points[b] ELSE {})

\* A collection: what stays is closed and contains the roots.
Reclaim ==
  \E C \in SUBSET heap :
    /\ Closed(C)
    /\ heap' = C /\ roots' = roots /\ points' = [b \in C |-> points[b]]

Next == Run \/ Reclaim

Spec == Init /\ [][Next]_vars
====
