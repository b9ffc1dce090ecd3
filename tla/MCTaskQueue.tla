---------------------------- MODULE MCTaskQueue ----------------------------
(* Small instances of TaskQueue. *)
EXTENDS TaskQueue

CONSTANTS t1, t2, t3

\* t2 is more urgent than the others
PrioMC == [t \in Tasks |-> IF t = t2 THEN -1 ELSE 0]
=============================================================================
