-------------------------- MODULE MCPriorityQueue --------------------------
(* Small instances of PriorityQueue for TLC. *)
EXTENDS PriorityQueue, TLC

CONSTANTS t1, t2, b1

MCThreads == {t1, t2}
MCOneThread == {t1}
MCPriorities == {-1, 0}
MCOneBlock == {b1}
Symmetry == Permutations(MCThreads)
=============================================================================
