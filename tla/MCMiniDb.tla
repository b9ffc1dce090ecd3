------------------------------ MODULE MCMiniDb ------------------------------
(* Instances of MiniDb for TLC.                                             *)
EXTENDS MiniDb, TLC

CONSTANTS p1, p2, c1, c2, c3

MCPages        == 0 .. 1
MCOneProcess    == [c \in Conn |-> p1]
MCTwoProcesses == [c \in Conn |-> IF c = c2 THEN p2 ELSE p1]

(* A direct write is not undone: no kill in the middle of one.              *)
MCKillSteps == Steps \ {"direct"}

MCSymmetry == Permutations({c1, c3})
=============================================================================
