---------------------------- MODULE SortedQueue ----------------------------
(***************************************************************************)
(* What memory::PriorityQueue<Value> promises to its users (the task       *)
(* queues): push and pop are atomic, nothing is lost or duplicated, pop    *)
(* takes the least priority, equal priorities leave in FIFO order except   *)
(* that an insertFirst entry overtakes all of its class.                   *)
(***************************************************************************)
EXTENDS PrioritySeq

CONSTANTS Priorities,  \* the priorities in use, a set of integers
          MaxPush      \* bound on the number of pushes

\* what the theorems assume of them
Parameters == Priorities \subseteq Int /\ MaxPush \in Nat

VARIABLES q,      \* the queued entries, next to pop first
          pushes  \* number of pushes so far: the stamp of the latest entry

Entry == [prio : Priorities, first : BOOLEAN, stamp : 1..MaxPush]

Init == q = <<>> /\ pushes = 0

Push(p, first) ==
  /\ pushes < MaxPush
  /\ pushes' = pushes + 1
  /\ IsPushOf(q', q, [prio |-> p, first |-> first, stamp |-> pushes + 1])

Pop ==
  /\ q # <<>>
  /\ q' = Tail(q)
  /\ UNCHANGED pushes

Next == Pop \/ \E p \in Priorities, first \in BOOLEAN : Push(p, first)

vars == <<q, pushes>>
Spec == Init /\ [][Next]_vars

-----------------------------------------------------------------------------
(* Types, and no entry is stamped in the future. *)
TypeOK ==
  /\ pushes \in 0..MaxPush
  /\ q \in Seq(Entry)
  /\ \A i \in 1..Len(q) : q[i].stamp <= pushes

(* Whatever was pushed and popped before, the entries leave by priority, in  *)
(* FIFO order within a priority, except that an insertFirst entry overtakes  *)
(* its whole class: the two comparison ladders of pushNode (< and <=) have   *)
(* to agree on this for every place an entry can take.                       *)
Ordered == \A i, j \in 1..Len(q) : i < j => Before(q[i], q[j])
=============================================================================
