-------------------------- MODULE MCMemoryManager --------------------------
(* Instances of MemoryManager for TLC. *)
EXTENDS MemoryManager, TLC

\* Every block counts for one unit.
MCSize == [k \in Kinds |-> 1]

\* No cache pool serves the sizes the program asks for: all blocks come from
\* calloc and go back to free.
NoPools == [k \in Kinds |-> None]
NoHome == [p \in Pools |-> {}]

\* One pool, of two blocks; the third comes from calloc when it is empty.
MCPoolOf == [k \in Kinds |-> CHOOSE p \in Pools : TRUE]
MCHome == LET b1 == CHOOSE b \in Blocks : TRUE
              b2 == CHOOSE b \in Blocks \ {b1} : TRUE
          IN  [p \in Pools |-> {b1, b2}]

PooledSymmetry == Permutations(UNION {MCHome[p] : p \in Pools})
BlockSymmetry == Permutations(Blocks)
====
