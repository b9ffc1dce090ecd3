---------------------------- MODULE PrioritySeq ----------------------------
(***************************************************************************)
(* The order that stappler's memory::PriorityQueue promises, on sequences. *)
(*                                                                         *)
(* An entry is a record with at least the fields prio (int32_t in the      *)
(* code) and first (the insertFirst argument of push).  pushNode walks the *)
(* list until it meets an entry the new one must precede:                  *)
(*   - insertFirst: the first entry whose priority is not smaller;         *)
(*   - otherwise:   the first entry whose priority is greater.             *)
(* The empty-list, front and back branches of the code are the cases       *)
(* k = 0 and k = Len(q) of the same position.                              *)
(***************************************************************************)
EXTENDS Integers, Sequences, SequencesExt

\* does the new entry e go behind the queued entry x?
GoesBehind(e, x) == IF e.first THEN x.prio < e.prio ELSE x.prio <= e.prio

\* k entries of q stay in front of e, all the others follow it
IsPlaceFor(q, e, k) ==
  /\ \A i \in 1..k : GoesBehind(e, q[i])
  /\ \A i \in (k + 1)..Len(q) : ~ GoesBehind(e, q[i])

\* q2 is q with e inserted where pushNode puts it
IsPushOf(q2, q, e) ==
  \E k \in 0..Len(q) : IsPlaceFor(q, e, k) /\ q2 = InsertAt(q, k + 1, e)

-----------------------------------------------------------------------------
(***************************************************************************)
(* The order a user of the queue relies on; stamp is the moment of a push. *)
(***************************************************************************)
\* x leaves the queue before y: the smaller priority; within a priority the
\* insertFirst entries, latest first, and then the others, earliest first
Before(x, y) ==
  \/ x.prio < y.prio
  \/ x.prio = y.prio /\ x.first /\ ~ y.first
  \/ x.prio = y.prio /\ x.first /\ y.first /\ x.stamp > y.stamp
  \/ x.prio = y.prio /\ ~ x.first /\ ~ y.first /\ x.stamp < y.stamp
=============================================================================
