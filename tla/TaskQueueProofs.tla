-------------------------- MODULE TaskQueueProofs --------------------------
(***************************************************************************)
(* TaskQueue for every number of workers, every set of producers and       *)
(* tasks, and every combination of flags.                                  *)
(***************************************************************************)
EXTENDS TaskQueue, SequenceTheorems, FiniteSetTheorems, TLAPS

(* What was behind the place of an insertion moves by one.                  *)
LEMMA InsertAtTail ==
  ASSUME NEW S, NEW s \in Seq(S), NEW e \in S, NEW k \in 0..Len(s),
         NEW i \in (k + 1)..Len(s)
  PROVE  InsertAt(s, k + 1, e)[i + 1] = s[i]
<1> DEFINE front == SubSeq(s, 1, k)
           back == SubSeq(s, k + 1, Len(s))
           ahead == front \o <<e>>
<1>1. front \in Seq(S) /\ Len(front) = k
  OBVIOUS
<1>2. /\ back \in Seq(S) /\ Len(back) = Len(s) - k
      /\ \A j \in 1..(Len(s) - k) : back[j] = s[k + j]
  OBVIOUS
<1>3. InsertAt(s, k + 1, e) = ahead \o back
  <2>1. (k + 1) - 1 = k
    OBVIOUS
  <2> QED
    BY <2>1, Zenon DEF InsertAt
<1>4. <<e>> \in Seq(S) /\ Len(<<e>>) = 1
  OBVIOUS
<1> HIDE DEF front, back
<1>5. ahead \in Seq(S) /\ Len(ahead) = k + 1
  BY <1>1, <1>4, ConcatProperties
<1> HIDE DEF ahead
<1>6. i - k \in 1..(Len(s) - k) /\ (i + 1) - (k + 1) = i - k /\ k + (i - k) = i
  OBVIOUS
<1>7. (ahead \o back)[i + 1] = back[(i + 1) - (k + 1)]
  BY <1>2, <1>5, ConcatProperties
<1>8. back[i - k] = s[i]
  BY <1>2, <1>6
<1> QED
  BY <1>3, <1>6, <1>7, <1>8

(* What InsertAt returns: the entries before the place, the new one, the    *)
(* entries behind it moved up by one.                                       *)
LEMMA InsertAtElements ==
  ASSUME NEW S, NEW s \in Seq(S), NEW e \in S, NEW k \in 0..Len(s),
         NEW r, r = InsertAt(s, k + 1, e)
  PROVE  /\ r \in Seq(S) /\ Len(r) = Len(s) + 1
         /\ \A i \in 1..k : r[i] = s[i]
         /\ r[k + 1] = e
         /\ \A i \in (k + 1)..Len(s) : r[i + 1] = s[i]
<1> DEFINE front == SubSeq(s, 1, k)
           back == SubSeq(s, k + 1, Len(s))
           ahead == front \o <<e>>
<1>0. Len(s) \in Nat /\ k \in Nat /\ k <= Len(s)
  OBVIOUS
<1>1. front \in Seq(S) /\ Len(front) = k /\ \A i \in 1..k : front[i] = s[i]
  OBVIOUS
<1>2. /\ back \in Seq(S) /\ Len(back) = Len(s) - k
      /\ \A i \in 1..(Len(s) - k) : back[i] = s[k + i]
  OBVIOUS
<1>3. r = ahead \o back
  <2>1. (k + 1) - 1 = k
    OBVIOUS
  <2> QED
    BY <2>1, Zenon DEF InsertAt
<1>4. <<e>> \in Seq(S) /\ Len(<<e>>) = 1 /\ <<e>>[1] = e
  OBVIOUS
<1> HIDE DEF front, back
<1>5. ahead \in Seq(S) /\ Len(ahead) = k + 1
  BY <1>1, <1>4, ConcatProperties
<1>6. \A i \in 1..k : ahead[i] = s[i]
  BY <1>1, <1>4, ConcatProperties
<1>7. ahead[k + 1] = e
  BY <1>0, <1>1, <1>4, ConcatProperties
<1> HIDE DEF ahead
<1>8. r \in Seq(S) /\ Len(r) = Len(s) + 1
  <2>1. r \in Seq(S)
    BY <1>2, <1>3, <1>5, ConcatProperties
  <2>2. Len(r) = Len(ahead) + Len(back)
    BY <1>2, <1>3, <1>5, ConcatProperties
  <2>3. Len(ahead) + Len(back) = Len(s) + 1
    BY <1>0, <1>2, <1>5
  <2> QED
    BY <2>1, <2>2, <2>3, Zenon
<1>9. \A i \in 1..(k + 1) : r[i] = ahead[i]
  BY <1>0, <1>2, <1>3, <1>5, ConcatProperties
<1>10. ASSUME NEW i \in (k + 1)..Len(s) PROVE r[i + 1] = s[i]
  BY InsertAtTail
<1>11. \A i \in 1..k : r[i] = s[i]
  BY <1>0, <1>6, <1>9
<1>12. r[k + 1] = e
  BY <1>0, <1>7, <1>9
<1> QED
  BY <1>8, <1>10, <1>11, <1>12, Zenon

-----------------------------------------------------------------------------
(* What the insertions do to the types of the queues.                       *)
LEMMA EntryType ==
  ASSUME NEW t \in Tasks, NEW b \in BOOLEAN
  PROVE  Entry(t, b) \in QEntry
BY TaskQueueAssumption DEF Entry, QEntry

(* A popped task is a task.                                                 *)
LEMMA HeadTask ==
  ASSUME NEW s \in Seq(QEntry), s # <<>>
  PROVE  Head(s).task \in Tasks /\ Tail(s) \in Seq(QEntry) /\ Len(Tail(s)) = Len(s) - 1
<1>1. Head(s) \in QEntry
  OBVIOUS
<1>2. Head(s).task \in Tasks
  BY <1>1 DEF QEntry
<1> QED
  BY <1>2, HeadTailProperties

(* The number of places whose value is in B, when one of them changes.      *)
LEMMA CountChange ==
  ASSUME NEW S, IsFiniteSet(S), NEW V, NEW f \in [S -> V], NEW x \in S,
         NEW from, f[x] = from, NEW to, NEW g, g = [f EXCEPT ![x] = to], NEW B,
         NEW F, F = {y \in S : f[y] \in B}, NEW G, G = {y \in S : g[y] \in B}
  PROVE  /\ from \notin B /\ to \in B => Cardinality(G) = Cardinality(F) + 1
         /\ from \in B /\ to \notin B => Cardinality(G) = Cardinality(F) - 1
         /\ (from \in B <=> to \in B) => Cardinality(G) = Cardinality(F)
<1>1. IsFiniteSet(F) /\ IsFiniteSet(G)
  BY FS_Subset
<1>2. ASSUME from \notin B, to \in B PROVE Cardinality(G) = Cardinality(F) + 1
  <2>1. G = F \cup {x} /\ x \notin F
    BY <1>2
  <2> QED
    BY <1>1, <2>1, FS_AddElement
<1>3. ASSUME from \in B, to \notin B PROVE Cardinality(G) = Cardinality(F) - 1
  <2>1. G = F \ {x} /\ x \in F
    BY <1>3
  <2> QED
    BY <1>1, <2>1, FS_RemoveElement
<1>4. ASSUME from \in B <=> to \in B PROVE Cardinality(G) = Cardinality(F)
  <2>1. G = F
    BY <1>4
  <2> QED
    BY <2>1
<1> QED
  BY <1>2, <1>3, <1>4

-----------------------------------------------------------------------------
(* Groups of variables an action leaves alone.                              *)
LEMMA WorkersFrame ==
  ASSUME WorkersOK, UNCHANGED <<workers, context>>
  PROVE  WorkersOK'
BY DEF WorkersOK, workers

LEMMA ProducersFrame ==
  ASSUME ProducersOK, UNCHANGED producers
  PROVE  ProducersOK'
BY DEF ProducersOK, producers

LEMMA QueuesFrame ==
  ASSUME QueuesOK, UNCHANGED queues
  PROVE  QueuesOK'
BY DEF QueuesOK, queues

LEMMA OwnerFrame ==
  ASSUME OwnerOK, UNCHANGED <<owner, done, fault>>
  PROVE  OwnerOK'
BY DEF OwnerOK, owner, done

(* Waking workers moves them back into their loop.                          *)
LEMMA WokenWorkers ==
  ASSUME WorkersOK, NEW W \in SUBSET Sleeping, wpc' = Woken(W),
         UNCHANGED <<wtask, shouldQuit, context>>
  PROVE  WorkersOK'
<1>1. AfterWait \in {"null", "check"}
  BY DEF AfterWait
<1>2. context = "none" => W = {}
  BY DEF WorkersOK, Sleeping
<1> QED
  BY <1>1, <1>2 DEF WorkersOK, Woken

(* Taking a task of a call of perform.                                      *)
LEMMA TakeType ==
  ASSUME TypeOK, NEW p \in Producers, NEW t \in Tasks,
         NEW from \in {"idle", "map"}, NEW accepted \in {"push", "mapPush"},
         accepted = "mapPush" => pkey[p] \in Workers,
         Take(p, t, from, accepted)
  PROVE  TypeOK'
<1> USE NullAssumption
<1>1. ProducersOK'
  BY DEF TypeOK, ProducersOK, Take, Carries, At
<1>2. QueuesOK'
  BY DEF TypeOK, QueuesOK, Take
<1>3. WorkersOK'
  BY WorkersFrame DEF TypeOK, Take, owner
<1>4. OwnerOK'
  BY OwnerFrame DEF TypeOK, Take
<1> QED
  BY <1>1, <1>2, <1>3, <1>4 DEF TypeOK

LEMMA ProducerType ==
  ASSUME TypeOK, NEW p \in Producers, ProducerStep(p)
  PROVE  TypeOK'
<1> USE NullAssumption
<1>1. CASE Perform(p)
  BY <1>1, TakeType DEF Perform
<1>2. CASE Push(p)
  <2>1. ppc[p] = "push" /\ ptask[p] \in Tasks
    BY <1>2 DEF Push, At, TypeOK, ProducersOK
  <2>2. ProducersOK'
    BY <1>2, <2>1 DEF Push, At, Carries, TypeOK, ProducersOK
  <2>3. QueuesOK'
    <3>1. PICK e \in QEntry : IsPushOf(input', input, e)
      <4>1. Entry(ptask[p], ptask[p] \in Urgent) \in QEntry
        <5>1. (ptask[p] \in Urgent) \in BOOLEAN
          OBVIOUS
        <5> QED
          BY <2>1, <5>1, EntryType, Zenon
      <4> QED
        BY <1>2, <4>1, Zenon DEF Push
    <3>2. PICK k \in 0..Len(input) : input' = InsertAt(input, k + 1, e)
      BY <3>1 DEF IsPushOf
    <3>3. input' \in Seq(QEntry)
      BY <3>2, InsertAtElements DEF TypeOK, QueuesOK
    <3> QED
      BY <1>2, <3>3 DEF Push, TypeOK, QueuesOK
  <2>4. WorkersOK'
    BY <1>2, WorkersFrame DEF TypeOK, Push, owner
  <2>5. OwnerOK'
    BY <1>2, OwnerFrame DEF TypeOK, Push
  <2> QED
    BY <2>2, <2>3, <2>4, <2>5 DEF TypeOK
<1>3. CASE PushNotify(p)
  <2>1. ProducersOK'
    BY <1>3 DEF PushNotify, At, TypeOK, ProducersOK
  <2>2. WorkersOK'
    <3>1. CASE UNCHANGED wpc
      BY <1>3, <3>1, WorkersFrame DEF TypeOK, PushNotify, owner, workers
    <3>2. CASE \E w \in Sleeping : wpc' = Woken({w})
      BY <1>3, <3>2, WokenWorkers DEF TypeOK, PushNotify, owner
    <3> QED
      BY <1>3, <3>1, <3>2 DEF PushNotify, Notify
  <2> QED
    BY <1>3, <2>1, <2>2, QueuesFrame, OwnerFrame DEF TypeOK, PushNotify
<1>4. CASE MapTake(p)
  BY <1>4, TakeType DEF MapTake
<1>5. CASE MapPush(p)
  <2>1. ppc[p] = "mapPush" /\ ptask[p] \in Tasks /\ pkey[p] \in Workers
    BY <1>5 DEF MapPush, At, TypeOK, ProducersOK
  <2>2. ProducersOK'
    BY <1>5, <2>1 DEF MapPush, At, Carries, TypeOK, ProducersOK
  <2>3. QueuesOK'
    <3> DEFINE w == pkey[p]
               e == Entry(ptask[p], FALSE)
    <3>1. local[w] \in Seq(QEntry) /\ e \in QEntry
      BY <2>1, EntryType DEF TypeOK, QueuesOK
    <3>2. PICK k \in 0..Len(local[w]) : local' = [local EXCEPT ![w] = InsertAt(local[w], k + 1, e)]
      BY <1>5 DEF MapPush, PushLocal
    <3> HIDE DEF e
    <3>3. InsertAt(local[w], k + 1, e) \in Seq(QEntry)
      BY <3>1, InsertAtElements
    <3>4. local' \in [Workers -> Seq(QEntry)]
      BY <3>2, <3>3 DEF TypeOK, QueuesOK
    <3> QED
      BY <1>5, <3>4 DEF MapPush, TypeOK, QueuesOK
  <2>4. WorkersOK'
    BY <1>5, WorkersFrame DEF TypeOK, MapPush, owner
  <2>5. OwnerOK'
    BY <1>5, OwnerFrame DEF TypeOK, MapPush
  <2> QED
    BY <2>2, <2>3, <2>4, <2>5 DEF TypeOK
<1>6. CASE MapEnd(p)
  <2>1. ProducersOK'
    BY <1>6 DEF MapEnd, At, TypeOK, ProducersOK
  <2>2. WorkersOK'
    BY <1>6, WokenWorkers DEF TypeOK, MapEnd, NotifyAll, owner
  <2> QED
    BY <1>6, <2>1, <2>2, QueuesFrame, OwnerFrame DEF TypeOK, MapEnd
<1>7. ASSUME NEW k \in MapKeys, MapKey(p, k) PROVE TypeOK'
  <2>1. ProducersOK'
    BY <1>7 DEF MapKey, At, TypeOK, ProducersOK
  <2> QED
    BY <1>7, <2>1, QueuesFrame, OwnerFrame, WorkersFrame DEF TypeOK, MapKey, owner
<1>8. CASE OnMainThread(p)
  <2>1. ppc[p] = "refused" /\ ptask[p] \in Tasks
    BY <1>8 DEF OnMainThread, At, TypeOK, ProducersOK
  <2>2. ProducersOK'
    BY <1>8, <2>1 DEF OnMainThread, At, Carries, TypeOK, ProducersOK
  <2>3. QueuesOK'
    BY <1>8, <2>1 DEF OnMainThread, TypeOK, QueuesOK
  <2> QED
    BY <1>8, <2>2, <2>3, OwnerFrame, WorkersFrame DEF TypeOK, OnMainThread, owner
<1>9. CASE RefusedNotify(p)
  <2>1. ProducersOK'
    BY <1>9 DEF RefusedNotify, At, TypeOK, ProducersOK
  <2>2. OwnerOK'
    BY <1>9 DEF RefusedNotify, WakeOwner, NotifyOwner, TypeOK, OwnerOK, done
  <2> QED
    BY <1>9, <2>1, <2>2, QueuesFrame, WorkersFrame DEF TypeOK, RefusedNotify, WakeOwner
<1> QED
  BY <1>1, <1>2, <1>3, <1>4, <1>5, <1>6, <1>7, <1>8, <1>9 DEF ProducerStep
LEMMA WorkerType ==
  ASSUME TypeOK, NEW w \in Workers, WorkerStep(w) \/ SpuriousWakeup(w)
  PROVE  TypeOK'
<1> USE NullAssumption
<1>1. CASE ThreadInit(w) \/ CheckQuit(w)
  <2>1. WorkersOK'
    BY <1>1 DEF ThreadInit, CheckQuit, WorkerAt, TestAndSet, TypeOK, WorkersOK, owner
  <2> QED
    BY <1>1, <2>1, ProducersFrame, QueuesFrame, OwnerFrame DEF TypeOK, ThreadInit, CheckQuit
<1>2. CASE PopLocal(w)
  <2>1. local[w] \in Seq(QEntry)
    BY DEF TypeOK, QueuesOK
  <2>2. CASE local[w] = <<>>
    <3>1. WorkersOK'
      BY <1>2, <2>2 DEF PopLocal, PopFrom, WorkerAt, TypeOK, WorkersOK, owner
    <3>2. QueuesOK'
      BY <1>2, <2>2 DEF PopLocal, TypeOK, QueuesOK
    <3> QED
      BY <1>2, <3>1, <3>2, ProducersFrame, OwnerFrame DEF TypeOK, PopLocal
  <2>3. CASE local[w] # <<>>
    <3>1. Head(local[w]).task \in Tasks /\ Tail(local[w]) \in Seq(QEntry)
      BY <2>1, <2>3, HeadTask
    <3>2. WorkersOK'
      BY <1>2, <2>3, <3>1 DEF PopLocal, PopFrom, WorkerAt, Holds, TypeOK, WorkersOK, owner
    <3>3. QueuesOK'
      BY <1>2, <2>3, <3>1 DEF PopLocal, TypeOK, QueuesOK
    <3> QED
      BY <1>2, <3>2, <3>3, ProducersFrame, OwnerFrame DEF TypeOK, PopLocal
  <2> QED
    BY <2>2, <2>3
<1>3. CASE PopTask(w)
  <2>1. CASE input = <<>>
    <3>1. WorkersOK'
      BY <1>3, <2>1 DEF PopTask, PopFrom, WorkerAt, TypeOK, WorkersOK, owner
    <3>2. QueuesOK'
      BY <1>3, <2>1 DEF PopTask, TypeOK, QueuesOK
    <3> QED
      BY <1>3, <3>1, <3>2, ProducersFrame, OwnerFrame DEF TypeOK, PopTask
  <2>2. CASE input # <<>>
    <3>1. Head(input).task \in Tasks /\ Tail(input) \in Seq(QEntry)
      BY <2>2, HeadTask DEF TypeOK, QueuesOK
    <3>2. WorkersOK'
      BY <1>3, <2>2, <3>1 DEF PopTask, PopFrom, WorkerAt, Holds, TypeOK, WorkersOK, owner
    <3>3. QueuesOK'
      BY <1>3, <2>2, <3>1 DEF PopTask, TypeOK, QueuesOK
    <3> QED
      BY <1>3, <3>2, <3>3, ProducersFrame, OwnerFrame DEF TypeOK, PopTask
  <2> QED
    BY <2>1, <2>2
<1>4. CASE Lock(w) \/ Wait(w) \/ SpuriousWakeup(w)
  <2>1. PICK from \in {"lock", "locked", "waiting"},
             to \in {"check", "null", "locked", "waiting"} : Moves(w, from, to)
    BY <1>4 DEF Lock, Wait, SpuriousWakeup, AfterWait
  <2>2. WorkersOK'
    BY <2>1 DEF Moves, WorkerAt, TypeOK, WorkersOK, owner
  <2> QED
    BY <2>1, <2>2, ProducersFrame, QueuesFrame, OwnerFrame DEF TypeOK, Moves
<1>5. CASE Execute(w)
  <2>1. WorkersOK'
    BY <1>5 DEF Execute, WorkerAt, TypeOK, WorkersOK, owner
  <2>2. OwnerOK'
    BY <1>5 DEF Execute, WorkerAt, TypeOK, WorkersOK, OwnerOK, owner
  <2> QED
    BY <1>5, <2>1, <2>2, ProducersFrame, QueuesFrame DEF TypeOK, Execute
<1>6. CASE Output(w)
  <2>1. WorkersOK'
    BY <1>6 DEF Output, WorkerAt, Holds, TypeOK, WorkersOK, owner
  <2>2. QueuesOK'
    BY <1>6 DEF Output, WorkerAt, TypeOK, WorkersOK, QueuesOK
  <2> QED
    BY <1>6, <2>1, <2>2, ProducersFrame, OwnerFrame DEF TypeOK, Output
<1>7. CASE NotifyWait(w)
  <2>1. WorkersOK'
    BY <1>7 DEF NotifyWait, WorkerAt, TypeOK, WorkersOK
  <2>2. OwnerOK'
    BY <1>7 DEF NotifyWait, NotifyOwner, TypeOK, OwnerOK, done
  <2> QED
    BY <1>7, <2>1, <2>2, ProducersFrame, QueuesFrame DEF TypeOK, NotifyWait
<1>8. CASE CountDown(w)
  <2>1. WorkersOK'
    BY <1>8 DEF CountDown, WorkerAt, Holds, TypeOK, WorkersOK, owner
  <2>2. QueuesOK'
    BY <1>8 DEF CountDown, TypeOK, QueuesOK
  <2> QED
    BY <1>8, <2>1, <2>2, ProducersFrame, OwnerFrame DEF TypeOK, CountDown
<1>9. CASE WorkerFault(w)
  <2>1. OwnerOK'
    BY <1>9 DEF WorkerFault, Crash, TypeOK, OwnerOK, owner, done
  <2> QED
    BY <1>9, <2>1, ProducersFrame, QueuesFrame, WorkersFrame DEF TypeOK, WorkerFault, Crash, owner
<1> QED
  BY <1>1, <1>2, <1>3, <1>4, <1>5, <1>6, <1>7, <1>8, <1>9 DEF WorkerStep
LEMMA AsyncType ==
  ASSUME TypeOK, AsyncStep \/ ProducerFault
  PROVE  TypeOK'
<1>1. ASSUME NEW t \in Async, PerformAsync(t) PROVE TypeOK'
  <2>1. ProducersOK' /\ QueuesOK'
    BY <1>1 DEF PerformAsync, TypeOK, ProducersOK, QueuesOK
  <2> QED
    BY <1>1, <2>1, OwnerFrame, WorkersFrame DEF TypeOK, PerformAsync, owner
<1>2. ASSUME NEW t \in Async, AsyncRun(t) PROVE TypeOK'
  <2>1. t \in Tasks
    BY <1>2 DEF AsyncRun, TypeOK, QueuesOK
  <2>2. QueuesOK'
    <3>1. out' = out \/ out' = Append(out, t)
      BY <1>2 DEF AsyncRun
    <3>2. out \in Seq(Tasks)
      BY DEF TypeOK, QueuesOK
    <3>3. out' \in Seq(Tasks)
      BY <2>1, <3>1, <3>2
    <3>4. async' \subseteq Tasks /\ counter' = counter /\ input' = input /\ local' = local
      BY <1>2 DEF AsyncRun, TypeOK, QueuesOK
    <3> QED
      BY <3>3, <3>4 DEF TypeOK, QueuesOK
  <2>3. OwnerOK' /\ context' = context
    BY <1>2, <2>1 DEF AsyncRun, WakeOwner, NotifyOwner, TypeOK, OwnerOK, owner
  <2> QED
    BY <1>2, <2>2, <2>3, ProducersFrame, WorkersFrame DEF TypeOK, AsyncRun
<1>3. CASE ProducerFault
  <2>1. OwnerOK'
    BY <1>3 DEF ProducerFault, Crash, TypeOK, OwnerOK, owner, done
  <2> QED
    BY <1>3, <2>1, ProducersFrame, QueuesFrame, WorkersFrame
    DEF TypeOK, ProducerFault, Crash, owner
<1> QED
  BY <1>1, <1>2, <1>3 DEF AsyncStep

(* What the steps of the owner that update, or only move on, have in common. *)
LEMMA CollectsType ==
  ASSUME TypeOK, NEW from, NEW to \in {"idle", "checkCounter"}, Collects(from, to)
  PROVE  TypeOK'
<1>1. \A i \in 1..Len(out) : out[i] \in Tasks
  BY DEF TypeOK, QueuesOK
<1>2. Range(out) \subseteq Tasks
  BY <1>1 DEF TypeOK, QueuesOK, Range
<1>3. QueuesOK'
  BY DEF Collects, TypeOK, QueuesOK
<1>4. OwnerOK'
  BY <1>2 DEF Collects, OwnerAt, TypeOK, OwnerOK
<1> QED
  BY <1>3, <1>4, ProducersFrame, WorkersFrame DEF TypeOK, Collects

LEMMA GoesType ==
  ASSUME TypeOK, NEW from, NEW to \in {"idle", "waitExit", "wait"}, Goes(from, to)
  PROVE  TypeOK'
<1>1. OwnerOK'
  BY DEF Goes, OwnerAt, TypeOK, OwnerOK, done
<1> QED
  BY <1>1, ProducersFrame, QueuesFrame, WorkersFrame DEF TypeOK, Goes

LEMMA OwnerNotifiesType ==
  ASSUME TypeOK, NEW from, NEW to \in {"idle", "join"}, OwnerNotifies(from, to),
         toJoin' \subseteq Workers
  PROVE  TypeOK'
<1>1. WorkersOK'
  BY WokenWorkers DEF TypeOK, OwnerNotifies, NotifyAll
<1>2. OwnerOK'
  BY DEF OwnerNotifies, OwnerAt, TypeOK, OwnerOK, done
<1> QED
  BY <1>1, <1>2, ProducersFrame, QueuesFrame DEF TypeOK, OwnerNotifies

LEMMA OwnerStepType ==
  ASSUME TypeOK, OwnerStep
  PROVE  TypeOK'
<1>1. CASE CheckCounter
  BY <1>1, GoesType DEF CheckCounter
<1>2. CASE WaitExit \/ WaitReturns
  BY <1>2, CollectsType DEF WaitExit, WaitReturns
<1>3. CASE FinalizeNotify \/ CancelNotify
  <2>1. CASE FinalizeNotify
    BY <2>1, OwnerNotifiesType DEF FinalizeNotify, TypeOK, OwnerOK
  <2>2. CASE CancelNotify
    BY <2>2, OwnerNotifiesType DEF CancelNotify
  <2> QED
    BY <1>3, <2>1, <2>2
<1>4. CASE CancelReturns
  <2>1. WorkersOK' /\ OwnerOK'
    BY <1>4 DEF CancelReturns, OwnerAt, TypeOK, WorkersOK, OwnerOK, workers, done
  <2> QED
    BY <1>4, <2>1, ProducersFrame, QueuesFrame DEF TypeOK, CancelReturns
<1>5. ASSUME NEW w \in Workers, ReleaseWorker(w) PROVE TypeOK'
  <2>1. WorkersOK' /\ OwnerOK'
    BY <1>5 DEF ReleaseWorker, TypeOK, WorkersOK, OwnerOK, done
  <2> QED
    BY <1>5, <2>1, ProducersFrame, QueuesFrame DEF TypeOK, ReleaseWorker
<1>6. ASSUME NEW w \in Workers, Join(w) PROVE TypeOK'
  <2>1. WorkersOK'
    BY <1>6 DEF Join, WorkerAt, TypeOK, WorkersOK
  <2>2. OwnerOK'
    BY <1>6 DEF Join, TypeOK, OwnerOK, done
  <2> QED
    BY <1>6, <2>1, <2>2, ProducersFrame, QueuesFrame DEF TypeOK, Join
<1> QED
  BY <1>1, <1>2, <1>3, <1>4, <1>5, <1>6 DEF OwnerStep

LEMMA OwnerCallType ==
  ASSUME TypeOK, OwnerCall
  PROVE  TypeOK'
<1>1. CASE Spawn
  <2>1. WorkersOK' /\ OwnerOK'
    BY <1>1 DEF Spawn, OwnerAt, TypeOK, WorkersOK, OwnerOK, done
  <2> QED
    BY <1>1, <2>1, ProducersFrame, QueuesFrame DEF TypeOK, Spawn
<1>2. CASE Update \/ WaitForAll
  BY <1>2, CollectsType DEF Update, WaitForAll
<1>3. CASE WaitOutput
  BY <1>3, GoesType DEF WaitOutput
<1>4. CASE Finalize \/ Cancel
  <2>1. OwnerOK'
    BY <1>4 DEF Finalize, Cancel, OwnerAt, TypeOK, OwnerOK, done
  <2> QED
    BY <1>4, <2>1, ProducersFrame, QueuesFrame, WorkersFrame DEF TypeOK, Finalize, Cancel
<1>5. CASE OwnerFault
  <2>1. OwnerOK'
    BY <1>5 DEF OwnerFault, Crash, TypeOK, OwnerOK, owner, done
  <2> QED
    BY <1>5, <2>1, ProducersFrame, QueuesFrame, WorkersFrame DEF TypeOK, OwnerFault, Crash, owner
<1>6. CASE Destroy
  <2>1. Range(out) \subseteq Tasks
    <3>1. \A i \in 1..Len(out) : out[i] \in Tasks
      BY DEF TypeOK, QueuesOK
    <3> QED
      BY <3>1 DEF TypeOK, QueuesOK, Range
  <2>2. {input[i].task : i \in DOMAIN input} \subseteq Tasks
    <3>1. \A i \in DOMAIN input : input[i] \in QEntry
      BY DEF TypeOK, QueuesOK
    <3> QED
      BY <3>1 DEF QEntry
  <2>3. OwnerOK'
    BY <1>6, <2>1, <2>2 DEF Destroy, OwnerAt, TypeOK, OwnerOK
  <2>4. QueuesOK'
    BY <1>6 DEF Destroy, TypeOK, QueuesOK
  <2> QED
    BY <1>6, <2>3, <2>4, ProducersFrame, WorkersFrame DEF TypeOK, Destroy
<1> QED
  BY <1>1, <1>2, <1>3, <1>4, <1>5, <1>6 DEF OwnerCall

LEMMA TypeInit == Init => TypeOK
<1>1. Init => ProducersOK
  BY NullAssumption DEF Init, ProducersOK
<1>2. Init => QueuesOK
  BY DEF Init, QueuesOK
<1>3. Init => WorkersOK /\ OwnerOK
  BY DEF Init, WorkersOK, OwnerOK
<1> QED
  BY <1>1, <1>2, <1>3 DEF TypeOK

LEMMA TypeStep == TypeOK /\ [Next]_vars => TypeOK'
<1> SUFFICES ASSUME TypeOK, [Next]_vars PROVE TypeOK'
  OBVIOUS
<1>1. CASE Next
  BY <1>1, ProducerType, WorkerType, AsyncType, OwnerStepType, OwnerCallType DEF Next
<1>2. CASE UNCHANGED vars
  BY <1>2, ProducersFrame, QueuesFrame, WorkersFrame, OwnerFrame DEF TypeOK, vars, owner
<1> QED
  BY <1>1, <1>2

(* Types: whatever the owner, the producers and the workers do, each of    *)
(* them holds the task it is about to pass on, and no worker outruns the   *)
(* life of the context it was started in.                                  *)
THEOREM TypeCorrect == Spec => []TypeOK
BY TypeInit, TypeStep, PTL DEF Spec

-----------------------------------------------------------------------------
(***************************************************************************)
(* The counter.  Each of the four terms of InFlight changes by at most one *)
(* in a step, and the counter by their sum.                                *)
(***************************************************************************)
PushingPlaces == {"push", "mapPush"}
BusyPlaces == {"execute", "output", "notifyWait", "count"}

LEMMA WorkersFinite == IsFiniteSet(Workers)
BY FS_Interval, TaskQueueAssumption DEF Workers

LEMMA CardinalTypes ==
  ASSUME TypeOK
  PROVE  Cardinality(Pushing) \in Nat /\ Cardinality(Busy) \in Nat /\ Len(input) \in Nat
<1>1. IsFiniteSet(Pushing) /\ IsFiniteSet(Busy)
  BY FS_Subset, WorkersFinite, TaskQueueAssumption DEF Pushing, Busy
<1> QED
  BY <1>1, FS_CardinalityType DEF TypeOK, QueuesOK

LEMMA PushingChange ==
  ASSUME ProducersOK, NEW p \in Producers, NEW from, NEW to, At(p, from, to)
  PROVE  /\ from \notin PushingPlaces /\ to \in PushingPlaces
              => Cardinality(Pushing') = Cardinality(Pushing) + 1
         /\ from \in PushingPlaces /\ to \notin PushingPlaces
              => Cardinality(Pushing') = Cardinality(Pushing) - 1
         /\ (from \in PushingPlaces <=> to \in PushingPlaces)
              => Cardinality(Pushing') = Cardinality(Pushing)
<1>1. \A q \in Producers : ppc'[q] = IF q = p THEN to ELSE ppc[q]
  BY DEF At, ProducersOK
<1>2. ppc[p] = from
  BY DEF At
<1>3. \A q \in Producers : /\ q \in Pushing <=> ppc[q] \in PushingPlaces
                           /\ q \in Pushing' <=> ppc'[q] \in PushingPlaces
  BY DEF Pushing, PushingPlaces
<1>4. Pushing \subseteq Producers /\ Pushing' \subseteq Producers
  BY DEF Pushing
<1>5. IsFiniteSet(Pushing)
  BY <1>4, FS_Subset, TaskQueueAssumption
<1>6. ASSUME from \notin PushingPlaces, to \in PushingPlaces
      PROVE  Cardinality(Pushing') = Cardinality(Pushing) + 1
  <2>1. Pushing' = Pushing \cup {p} /\ p \notin Pushing
    BY <1>1, <1>2, <1>3, <1>4, <1>6
  <2> QED
    BY <1>5, <2>1, FS_AddElement
<1>7. ASSUME from \in PushingPlaces, to \notin PushingPlaces
      PROVE  Cardinality(Pushing') = Cardinality(Pushing) - 1
  <2>1. Pushing' = Pushing \ {p} /\ p \in Pushing
    BY <1>1, <1>2, <1>3, <1>4, <1>7
  <2> QED
    BY <1>5, <2>1, FS_RemoveElement
<1>8. ASSUME from \in PushingPlaces <=> to \in PushingPlaces
      PROVE  Cardinality(Pushing') = Cardinality(Pushing)
  <2>1. Pushing' = Pushing
    BY <1>1, <1>2, <1>3, <1>4, <1>8
  <2> QED
    BY <2>1
<1> QED
  BY <1>6, <1>7, <1>8

LEMMA BusyChange ==
  ASSUME WorkersOK, NEW w \in Workers, NEW from, NEW to, WorkerAt(w, from, to)
  PROVE  /\ from \notin BusyPlaces /\ to \in BusyPlaces
              => Cardinality(Busy') = Cardinality(Busy) + 1
         /\ from \in BusyPlaces /\ to \notin BusyPlaces
              => Cardinality(Busy') = Cardinality(Busy) - 1
         /\ (from \in BusyPlaces <=> to \in BusyPlaces)
              => Cardinality(Busy') = Cardinality(Busy)
<1>1. PICK V : wpc \in [Workers -> V]
  BY DEF WorkersOK
<1>2. wpc[w] = from /\ wpc' = [wpc EXCEPT ![w] = to]
  BY DEF WorkerAt
<1>3. Busy = {y \in Workers : wpc[y] \in BusyPlaces}
  BY DEF Busy, BusyPlaces
<1>4. Busy' = {y \in Workers : wpc'[y] \in BusyPlaces}
  BY DEF Busy, BusyPlaces
<1> QED
  BY <1>1, <1>2, <1>3, <1>4, WorkersFinite, CountChange

LEMMA BusyWoken ==
  ASSUME NEW W \in SUBSET Sleeping, wpc' = Woken(W)
  PROVE  Busy' = Busy
BY DEF Sleeping, Woken, AfterWait, Busy

(* One queue of a family of queues grows or shrinks by one.                 *)
SlotsOf(f) == UNION {{u} \X DOMAIN f[u] : u \in Workers}

LEMMA OneLonger ==
  ASSUME NEW f \in [Workers -> Seq(QEntry)], NEW w \in Workers, NEW r \in Seq(QEntry),
         Len(r) = Len(f[w]) + 1, NEW g, g = [f EXCEPT ![w] = r], IsFiniteSet(SlotsOf(f))
  PROVE  IsFiniteSet(SlotsOf(g)) /\ Cardinality(SlotsOf(g)) = Cardinality(SlotsOf(f)) + 1
<1> DEFINE F == SlotsOf(f)
           G == SlotsOf(g)
<1> DEFINE new == <<w, Len(f[w]) + 1>>
<1>1. \A u \in Workers : DOMAIN f[u] = 1..Len(f[u]) /\ Len(f[u]) \in Nat
  OBVIOUS
<1>2. DOMAIN r = 1..(Len(f[w]) + 1)
  OBVIOUS
<1>3. 1..(Len(f[w]) + 1) = 1..Len(f[w]) \cup {Len(f[w]) + 1} /\ Len(f[w]) + 1 \notin 1..Len(f[w])
  BY <1>1
<1>4. DOMAIN g[w] = DOMAIN f[w] \cup {Len(f[w]) + 1} /\ Len(f[w]) + 1 \notin DOMAIN f[w]
  BY <1>1, <1>2, <1>3
<1>5. \A u \in Workers \ {w} : g[u] = f[u]
  OBVIOUS
<1>6. new \notin F
  BY <1>4 DEF SlotsOf
<1>7. ASSUME NEW a PROVE a \in G <=> a \in F \cup {new}
  <2>1. ASSUME a \in G PROVE a \in F \cup {new}
    <3>1. PICK u \in Workers : a \in {u} \X DOMAIN g[u]
      BY <2>1 DEF SlotsOf
    <3>2. CASE u = w
      BY <1>4, <3>1, <3>2 DEF SlotsOf
    <3>3. CASE u # w
      BY <1>5, <3>1, <3>3 DEF SlotsOf
    <3> QED
      BY <3>2, <3>3
  <2>2. ASSUME a \in F PROVE a \in G
    <3>1. PICK u \in Workers : a \in {u} \X DOMAIN f[u]
      BY <2>2 DEF SlotsOf
    <3>2. DOMAIN f[u] \subseteq DOMAIN g[u]
      BY <1>4, <1>5
    <3> QED
      BY <3>1, <3>2 DEF SlotsOf
  <2>3. new \in G
    BY <1>4 DEF SlotsOf
  <2> QED
    BY <2>1, <2>2, <2>3
<1> HIDE DEF new
<1>8. G = F \cup {new}
  <2>1. G \subseteq F \cup {new} /\ F \cup {new} \subseteq G
    BY <1>7
  <2> QED
    BY <2>1
<1>9. IsFiniteSet(F \cup {new}) /\ Cardinality(F \cup {new}) = Cardinality(F) + 1
  BY <1>6, FS_AddElement
<1> QED
  BY <1>8, <1>9

LEMMA AssignedLonger ==
  ASSUME local \in [Workers -> Seq(QEntry)], NEW w \in Workers, NEW r \in Seq(QEntry),
         Len(r) = Len(local[w]) + 1, local' = [local EXCEPT ![w] = r],
         IsFiniteSet(Assigned)
  PROVE  IsFiniteSet(Assigned') /\ Cardinality(Assigned') = Cardinality(Assigned) + 1
<1>1. Assigned = SlotsOf(local) /\ Assigned' = SlotsOf(local')
  BY DEF Assigned, SlotsOf
<1> QED
  BY <1>1, OneLonger

LEMMA AssignedShorter ==
  ASSUME local \in [Workers -> Seq(QEntry)], NEW w \in Workers, local[w] # <<>>,
         local' = [local EXCEPT ![w] = Tail(local[w])], IsFiniteSet(Assigned)
  PROVE  IsFiniteSet(Assigned') /\ Cardinality(Assigned') = Cardinality(Assigned) - 1
<1> DEFINE r == local[w]
<1>1. r \in Seq(QEntry) /\ r # <<>>
  OBVIOUS
<1>2. Tail(r) \in Seq(QEntry) /\ Len(Tail(r)) = Len(r) - 1 /\ Len(r) \in Nat
  BY <1>1, HeadTask
<1>3. local' \in [Workers -> Seq(QEntry)]
  BY <1>2
<1>4. local'[w] = Tail(r) /\ Len(r) = Len(local'[w]) + 1
  BY <1>2
<1>5. local = [local' EXCEPT ![w] = r]
  OBVIOUS
<1>6. IsFiniteSet(Assigned')
  <2>1. \A u \in Workers : DOMAIN local'[u] \subseteq DOMAIN local[u]
    BY <1>2, <1>4
  <2>2. Assigned' \subseteq Assigned
    BY <2>1 DEF Assigned
  <2> QED
    BY <2>2, FS_Subset
<1>7. Assigned = SlotsOf(local) /\ Assigned' = SlotsOf(local')
  BY DEF Assigned, SlotsOf
<1> HIDE DEF r
<1>9. Cardinality(Assigned) = Cardinality(Assigned') + 1
  BY <1>1, <1>3, <1>4, <1>5, <1>6, <1>7, OneLonger
<1>8. Cardinality(Assigned') \in Nat
  BY <1>6, FS_CardinalityType
<1> QED
  BY <1>6, <1>8, <1>9

(* The inductive invariant.  Assigned is a union over the workers: that it  *)
(* is finite is carried along.                                              *)
CounterInv == TypeOK /\ IsFiniteSet(Assigned) /\ CounterExact

LEMMA Frames ==
  /\ UNCHANGED ppc => Pushing' = Pushing
  /\ UNCHANGED wpc => Busy' = Busy
  /\ UNCHANGED local => Assigned' = Assigned
BY DEF Pushing, Busy, Assigned

(* A step that changes no term, and not the counter.                        *)
LEMMA CounterFrame ==
  ASSUME CounterInv, mpc # "destroyed", UNCHANGED <<counter, input, local>>,
         Cardinality(Pushing') = Cardinality(Pushing),
         Cardinality(Busy') = Cardinality(Busy)
  PROVE  IsFiniteSet(Assigned') /\ CounterExact'
BY Frames DEF CounterInv, CounterExact, InFlight

LEMMA TakeCounts ==
  ASSUME CounterInv, mpc # "destroyed", NEW p \in Producers, NEW t \in Tasks,
         NEW from \in {"idle", "map"}, NEW accepted \in {"push", "mapPush"},
         Take(p, t, from, accepted)
  PROVE  IsFiniteSet(Assigned') /\ CounterExact'
<1>1. Busy' = Busy /\ Assigned' = Assigned /\ input' = input
  BY Frames DEF Take, workers
<1>2. CASE t \in Refused
  <2>1. At(p, from, "refused") /\ counter' = counter
    BY <1>2 DEF Take
  <2>2. Cardinality(Pushing') = Cardinality(Pushing)
    BY <2>1, PushingChange DEF CounterInv, TypeOK, PushingPlaces
  <2> QED
    BY <1>1, <2>1, <2>2 DEF CounterInv, CounterExact, InFlight
<1>3. CASE t \notin Refused
  <2>1. At(p, from, accepted) /\ counter' = counter + 1
    BY <1>3 DEF Take
  <2>2. Cardinality(Pushing') = Cardinality(Pushing) + 1
    BY <2>1, PushingChange DEF CounterInv, TypeOK, PushingPlaces
  <2>3. Cardinality(Assigned) \in Nat
    BY FS_CardinalityType DEF CounterInv
  <2> QED
    BY <1>1, <2>1, <2>2, <2>3, CardinalTypes DEF CounterInv, CounterExact, InFlight
<1> QED
  BY <1>2, <1>3

LEMMA ProducerCounts ==
  ASSUME CounterInv, mpc # "destroyed", NEW p \in Producers, ProducerStep(p)
  PROVE  IsFiniteSet(Assigned') /\ CounterExact'
<1>0. Cardinality(Assigned) \in Nat /\ TypeOK /\ ProducersOK
  BY FS_CardinalityType DEF CounterInv, TypeOK
<1>1. CASE Perform(p) \/ MapTake(p)
  BY <1>1, TakeCounts DEF Perform, MapTake
<1>2. CASE Push(p)
  <2>1. ppc[p] = "push" /\ ptask[p] \in Tasks
    BY <1>0, <1>2 DEF Push, At, TypeOK, ProducersOK
  <2>2. Len(input') = Len(input) + 1
    <3>1. Entry(ptask[p], ptask[p] \in Urgent) \in QEntry
      <4>1. (ptask[p] \in Urgent) \in BOOLEAN
        OBVIOUS
      <4> QED
        BY <2>1, <4>1, EntryType, Zenon
    <3>2. PICK e \in QEntry : IsPushOf(input', input, e)
      BY <1>2, <3>1, Zenon DEF Push
    <3>3. PICK k \in 0..Len(input) : input' = InsertAt(input, k + 1, e)
      BY <3>2 DEF IsPushOf
    <3> QED
      BY <1>0, <3>3, InsertAtElements DEF TypeOK, QueuesOK
  <2>3. Cardinality(Pushing') = Cardinality(Pushing) - 1
    <3>1. At(p, "push", "notify")
      BY <1>2 DEF Push
    <3> QED
      BY <1>0, <3>1, PushingChange DEF PushingPlaces
  <2>4. Busy' = Busy /\ Assigned' = Assigned /\ counter' = counter
    BY <1>2, Frames DEF Push, workers
  <2> QED
    BY <1>0, <2>2, <2>3, <2>4, CardinalTypes DEF CounterInv, CounterExact, InFlight
<1>3. CASE PushNotify(p)
  <2>1. Busy' = Busy
    BY <1>3, BusyWoken, Frames DEF PushNotify, Notify
  <2>2. Cardinality(Pushing') = Cardinality(Pushing)
    <3>1. At(p, "notify", "idle")
      BY <1>3 DEF PushNotify
    <3> QED
      BY <1>0, <3>1, PushingChange DEF PushingPlaces
  <2> QED
    BY <1>3, <2>1, <2>2, CounterFrame DEF PushNotify, queues
<1>4. CASE MapPush(p)
  <2>1. ppc[p] = "mapPush" /\ ptask[p] \in Tasks /\ pkey[p] \in Workers
    BY <1>0, <1>4 DEF MapPush, At, TypeOK, ProducersOK
  <2>2. IsFiniteSet(Assigned') /\ Cardinality(Assigned') = Cardinality(Assigned) + 1
    <3> DEFINE w == pkey[p]
               e == Entry(ptask[p], FALSE)
    <3>1. local \in [Workers -> Seq(QEntry)] /\ local[w] \in Seq(QEntry) /\ e \in QEntry
      BY <1>0, <2>1, EntryType DEF TypeOK, QueuesOK
    <3>2. PICK k \in 0..Len(local[w]) : local' = [local EXCEPT ![w] = InsertAt(local[w], k + 1, e)]
      BY <1>4 DEF MapPush, PushLocal
    <3> HIDE DEF e
    <3>3. PICK r : r = InsertAt(local[w], k + 1, e)
      OBVIOUS
    <3>4. r \in Seq(QEntry) /\ Len(r) = Len(local[w]) + 1
      BY <3>1, <3>3, InsertAtElements
    <3>5. local' = [local EXCEPT ![w] = r]
      BY <3>2, <3>3
    <3> QED
      BY <2>1, <3>1, <3>4, <3>5, AssignedLonger DEF CounterInv
  <2>3. Cardinality(Pushing') = Cardinality(Pushing) - 1
    <3>1. At(p, "mapPush", "map")
      BY <1>4 DEF MapPush
    <3> QED
      BY <1>0, <3>1, PushingChange DEF PushingPlaces
  <2>4. Busy' = Busy /\ input' = input /\ counter' = counter
    BY <1>4, Frames DEF MapPush, workers
  <2> QED
    BY <1>0, <2>2, <2>3, <2>4, CardinalTypes DEF CounterInv, CounterExact, InFlight
<1>5. CASE MapEnd(p)
  <2>1. Busy' = Busy
    BY <1>5, BusyWoken DEF MapEnd, NotifyAll
  <2>2. Cardinality(Pushing') = Cardinality(Pushing)
    <3>1. At(p, "map", "idle")
      BY <1>5 DEF MapEnd
    <3> QED
      BY <1>0, <3>1, PushingChange DEF PushingPlaces
  <2> QED
    BY <1>5, <2>1, <2>2, CounterFrame DEF MapEnd, queues
<1>6. ASSUME NEW from, NEW to, {from, to} \cap PushingPlaces = {}, At(p, from, to),
             UNCHANGED <<counter, input, local, wpc>>
      PROVE  IsFiniteSet(Assigned') /\ CounterExact'
  <2>1. Cardinality(Pushing') = Cardinality(Pushing)
    BY <1>0, <1>6, PushingChange
  <2> QED
    BY <1>6, <2>1, Frames, CounterFrame
<1>7. ASSUME NEW k \in MapKeys, MapKey(p, k) PROVE IsFiniteSet(Assigned') /\ CounterExact'
  BY <1>6, <1>7 DEF MapKey, PushingPlaces, queues, workers
<1>8. CASE OnMainThread(p)
  BY <1>6, <1>8 DEF OnMainThread, PushingPlaces, workers
<1>9. CASE RefusedNotify(p)
  BY <1>6, <1>9 DEF RefusedNotify, PushingPlaces, workers, queues
<1> QED
  BY <1>1, <1>2, <1>3, <1>4, <1>5, <1>7, <1>8, <1>9 DEF ProducerStep
LEMMA WorkerCounts ==
  ASSUME CounterInv, mpc # "destroyed", NEW w \in Workers,
         WorkerStep(w) \/ SpuriousWakeup(w)
  PROVE  IsFiniteSet(Assigned') /\ CounterExact'
<1>0. Cardinality(Assigned) \in Nat /\ TypeOK /\ WorkersOK
  BY FS_CardinalityType DEF CounterInv, TypeOK
<1>1. ASSUME NEW from, NEW to, WorkerAt(w, from, to),
             from \in BusyPlaces <=> to \in BusyPlaces,
             UNCHANGED <<counter, input, local, ppc>>
      PROVE  IsFiniteSet(Assigned') /\ CounterExact'
  <2>1. Cardinality(Busy') = Cardinality(Busy)
    BY <1>0, <1>1, BusyChange
  <2> QED
    BY <1>1, <2>1, Frames, CounterFrame
<1>2. CASE ThreadInit(w) \/ CheckQuit(w)
  BY <1>1, <1>2 DEF ThreadInit, CheckQuit, BusyPlaces, queues, producers
<1>3. CASE Lock(w) \/ Wait(w) \/ SpuriousWakeup(w)
  BY <1>1, <1>3 DEF Lock, Wait, SpuriousWakeup, AfterWait, Moves, BusyPlaces, queues, producers
<1>4. CASE Execute(w) \/ Output(w) \/ NotifyWait(w)
  BY <1>1, <1>4 DEF Execute, Output, NotifyWait, BusyPlaces, queues, producers
<1>5. CASE PopLocal(w)
  <2>1. CASE local[w] = <<>>
    <3>1. local' = local
      BY <1>0, <1>5, <2>1 DEF PopLocal, TypeOK, QueuesOK
    <3>2. WorkerAt(w, "popLocal", "pop") /\ UNCHANGED <<counter, input, ppc>>
      BY <1>5, <2>1 DEF PopLocal, PopFrom, producers
    <3> QED
      BY <1>1, <3>1, <3>2 DEF BusyPlaces
  <2>2. CASE local[w] # <<>>
    <3>1. local' = [local EXCEPT ![w] = Tail(local[w])]
      BY <1>5, <2>2 DEF PopLocal
    <3>2. IsFiniteSet(Assigned') /\ Cardinality(Assigned') = Cardinality(Assigned) - 1
      BY <1>0, <2>2, <3>1, AssignedShorter DEF CounterInv, TypeOK, QueuesOK
    <3>3. Cardinality(Busy') = Cardinality(Busy) + 1
      <4>1. WorkerAt(w, "popLocal", "execute")
        BY <1>5, <2>2 DEF PopLocal, PopFrom
      <4> QED
        BY <1>0, <4>1, BusyChange DEF BusyPlaces
    <3>4. Pushing' = Pushing /\ input' = input /\ counter' = counter
      BY <1>5, Frames DEF PopLocal, producers
    <3> QED
      BY <1>0, <3>2, <3>3, <3>4, CardinalTypes DEF CounterInv, CounterExact, InFlight
  <2> QED
    BY <2>1, <2>2
<1>6. CASE PopTask(w)
  <2>1. CASE input = <<>>
    <3>1. input' = input /\ WorkerAt(w, "pop", "lock") /\ UNCHANGED <<counter, local, ppc>>
      BY <1>6, <2>1 DEF PopTask, PopFrom, producers
    <3> QED
      BY <1>1, <3>1 DEF BusyPlaces
  <2>2. CASE input # <<>>
    <3>1. Len(input') = Len(input) - 1
      BY <1>0, <1>6, <2>2, HeadTask DEF PopTask, TypeOK, QueuesOK
    <3>2. Cardinality(Busy') = Cardinality(Busy) + 1
      <4>1. WorkerAt(w, "pop", "execute")
        BY <1>6, <2>2 DEF PopTask, PopFrom
      <4> QED
        BY <1>0, <4>1, BusyChange DEF BusyPlaces
    <3>3. Pushing' = Pushing /\ Assigned' = Assigned /\ counter' = counter
      BY <1>6, Frames DEF PopTask, producers
    <3> QED
      BY <1>0, <3>1, <3>2, <3>3, CardinalTypes DEF CounterInv, CounterExact, InFlight
  <2> QED
    BY <2>1, <2>2
<1>7. CASE CountDown(w)
  <2>1. Cardinality(Busy') = Cardinality(Busy) - 1
    <3>1. PICK to \in {"notifyExit", "check"} : WorkerAt(w, "count", to)
      BY <1>7 DEF CountDown
    <3> QED
      BY <1>0, <3>1, BusyChange DEF BusyPlaces
  <2>2. Pushing' = Pushing /\ Assigned' = Assigned /\ input' = input
    BY <1>7, Frames DEF CountDown, producers
  <2>3. counter' = counter - 1
    BY <1>7 DEF CountDown
  <2> QED
    BY <1>0, <2>1, <2>2, <2>3, CardinalTypes DEF CounterInv, CounterExact, InFlight
<1>8. CASE WorkerFault(w)
  BY <1>8, Frames, CounterFrame DEF WorkerFault, Crash, producers, queues, workers
<1> QED
  BY <1>2, <1>3, <1>4, <1>5, <1>6, <1>7, <1>8 DEF WorkerStep

LEMMA OwnerCounts ==
  ASSUME CounterInv, mpc # "destroyed",
         AsyncStep \/ ProducerFault \/ OwnerStep \/ OwnerCall
  PROVE  IsFiniteSet(Assigned') /\ CounterExact'
<1>1. CASE Destroy
  BY <1>1, Frames DEF Destroy, OwnerAt, CounterInv, CounterExact
<1>2. CASE Spawn
  <2>1. Busy' = Busy
    BY <1>2 DEF Spawn, Busy, CounterInv, TypeOK, WorkersOK
  <2> QED
    BY <1>2, <2>1, Frames, CounterFrame DEF Spawn, queues, producers
<1>3. CASE FinalizeNotify \/ CancelNotify
  BY <1>3, BusyWoken, Frames, CounterFrame
  DEF FinalizeNotify, CancelNotify, OwnerNotifies, NotifyAll, queues, producers
<1>4. ASSUME NEW w \in Workers, Join(w) PROVE IsFiniteSet(Assigned') /\ CounterExact'
  <2>1. Cardinality(Busy') = Cardinality(Busy)
    BY <1>4, BusyChange DEF Join, CounterInv, TypeOK, BusyPlaces
  <2> QED
    BY <1>4, <2>1, Frames, CounterFrame DEF Join, queues, producers
<1>5. CASE UNCHANGED <<counter, input, local, ppc, wpc>>
  BY <1>5, Frames, CounterFrame
<1>6. CASE AsyncStep \/ ProducerFault
  <2>1. UNCHANGED <<counter, input, local, ppc, wpc>>
    BY <1>6 DEF AsyncStep, PerformAsync, AsyncRun, ProducerFault, Crash, producers, queues, workers
  <2> QED
    BY <1>5, <2>1
<1>7. CASE CheckCounter \/ WaitExit \/ WaitReturns \/ CancelReturns
           \/ \E w \in Workers : ReleaseWorker(w)
  <2>1. UNCHANGED <<counter, input, local, ppc, wpc>>
    BY <1>7 DEF CheckCounter, WaitExit, WaitReturns, CancelReturns, ReleaseWorker, Goes,
                Collects, producers, queues, workers
  <2> QED
    BY <1>5, <2>1
<1>8. CASE Update \/ WaitForAll \/ WaitOutput \/ Finalize \/ Cancel \/ OwnerFault
  <2>1. UNCHANGED <<counter, input, local, ppc, wpc>>
    BY <1>8 DEF Update, WaitForAll, WaitOutput, Finalize, Cancel, OwnerFault, Crash, Goes,
                Collects, producers, queues, workers
  <2> QED
    BY <1>5, <2>1
<1> QED
  BY <1>1, <1>2, <1>3, <1>4, <1>6, <1>7, <1>8 DEF OwnerStep, OwnerCall

LEMMA CounterInvariant == Spec => []CounterInv
<1>1. Init => CounterInv
  <2> SUFFICES ASSUME Init PROVE IsFiniteSet(Assigned) /\ CounterExact
    BY TypeInit DEF CounterInv
  <2>1. Pushing = {} /\ Busy = {} /\ Len(input) = 0
    BY DEF Init, Pushing, Busy
  <2>2. Assigned = {}
    BY DEF Init, Assigned
  <2> QED
    BY <2>1, <2>2, FS_EmptySet DEF Init, CounterExact, InFlight
<1>2. CounterInv /\ [Next]_vars => CounterInv'
  <2> SUFFICES ASSUME CounterInv, [Next]_vars PROVE IsFiniteSet(Assigned') /\ CounterExact'
    BY TypeStep DEF CounterInv
  <2>1. CASE Next
    BY <2>1, ProducerCounts, WorkerCounts, OwnerCounts DEF Next
  <2>2. CASE UNCHANGED vars
    BY <2>2, Frames DEF vars, producers, queues, workers, owner, CounterInv, CounterExact, InFlight
  <2> QED
    BY <2>1, <2>2
<1> QED
  BY <1>1, <1>2, PTL DEF Spec

(* The tasks counter is exact in every state, for every number of threads: *)
(* whatever is between an increment and its decrement is in one of the four *)
(* places, so the counter cannot wrap, or be zero while a task is pending.  *)
THEOREM CounterCorrect == Spec => []CounterExact
<1>1. CounterInv => CounterExact
  BY DEF CounterInv
<1> QED
  BY <1>1, CounterInvariant, PTL
-----------------------------------------------------------------------------
(***************************************************************************)
(* waitForAll.  A performed task that was not executed is somewhere between *)
(* perform and execute, so it is one of those the counter counts.          *)
(***************************************************************************)
InProducer(t) == \E p \in Producers : ptask[p] = t /\ ppc[p] \in PushingPlaces
Has(s, t) == \E i \in DOMAIN s : s[i].task = t
InInput(t) == Has(input, t)
InLocal(t) == \E w \in Workers : Has(local[w], t)
InWorker(t) == \E w \in Workers : wtask[w] = t /\ wpc[w] = "execute"

Pending(t) == InProducer(t) \/ InInput(t) \/ InLocal(t) \/ InWorker(t)
Settled(t) == t \in fresh \cup executed \cup Refused \cup Async

LocatedInv ==
  TypeOK /\ (mpc # "destroyed" => \A t \in Tasks : Settled(t) \/ Pending(t))

(* What an insertion and a pop do to the tasks of a queue.                  *)
LEMMA InsertedTasks ==
  ASSUME NEW s \in Seq(QEntry), NEW e \in QEntry, NEW k \in 0..Len(s),
         NEW t, Has(s, t) \/ e.task = t
  PROVE  Has(InsertAt(s, k + 1, e), t)
<1> PICK r : r = InsertAt(s, k + 1, e)
  OBVIOUS
<1>1. r \in Seq(QEntry) /\ Len(r) = Len(s) + 1 /\ r[k + 1] = e
  BY InsertAtElements
<1>2. \A i \in 1..k : r[i] = s[i]
  BY InsertAtElements
<1>3. ASSUME NEW i \in (k + 1)..Len(s) PROVE r[i + 1] = s[i]
  BY InsertAtTail
<1>4. DOMAIN s = 1..Len(s) /\ DOMAIN r = 1..(Len(s) + 1) /\ Len(s) \in Nat
  BY <1>1
<1>5. ASSUME NEW i \in DOMAIN s, s[i].task = t PROVE \E j \in DOMAIN r : r[j].task = t
  <2>1. CASE i \in 1..k
    BY <1>2, <1>4, <1>5, <2>1
  <2>2. CASE i \in (k + 1)..Len(s)
    <3>1. i + 1 \in DOMAIN r /\ r[i + 1].task = t
      BY <1>3, <1>4, <1>5, <2>2
    <3> QED
      BY <3>1
  <2> QED
    BY <1>4, <2>1, <2>2
<1>6. k + 1 \in DOMAIN r
  BY <1>4
<1> QED
  BY <1>1, <1>5, <1>6 DEF Has

LEMMA PoppedTasks ==
  ASSUME NEW s \in Seq(QEntry), s # <<>>, NEW t, Has(s, t), Head(s).task # t
  PROVE  Has(Tail(s), t)
<1> PICK i \in DOMAIN s : s[i].task = t
  BY DEF Has
<1>1. i \in 2..Len(s) /\ Len(s) \in Nat
  <2>1. Head(s) = s[1] /\ DOMAIN s = 1..Len(s) /\ Len(s) \in Nat
    OBVIOUS
  <2> QED
    BY <2>1
<1>2. Len(Tail(s)) = Len(s) - 1 /\ Tail(s)[i - 1] = s[i]
  BY <1>1
<1>3. i - 1 \in DOMAIN Tail(s)
  BY <1>1, <1>2
<1> QED
  BY <1>2, <1>3 DEF Has

(* What leaves a task where it is.                                          *)
LEMMA SettledStays ==
  ASSUME NEW t, Settled(t), UNCHANGED fresh,
         executed \subseteq executed'
  PROVE  Settled(t)'
BY DEF Settled

LEMMA ProducerKeeps ==
  ASSUME ProducersOK, NEW t, InProducer(t), NEW p \in Producers, NEW from, NEW to,
         from \notin PushingPlaces \/ ptask[p] # t, At(p, from, to),
         \A q \in Producers \ {p} : ptask'[q] = ptask[q]
  PROVE  InProducer(t)'
<1>1. PICK q \in Producers : ptask[q] = t /\ ppc[q] \in PushingPlaces
  BY DEF InProducer
<1>2. q # p
  BY <1>1 DEF At
<1>3. ppc'[q] = ppc[q]
  BY <1>2 DEF At, ProducersOK
<1> QED
  BY <1>1, <1>2, <1>3 DEF InProducer

LEMMA WorkerKeeps ==
  ASSUME WorkersOK, NEW t, InWorker(t), NEW w \in Workers, NEW from, NEW to,
         from # "execute", WorkerAt(w, from, to),
         \A v \in Workers \ {w} : wtask'[v] = wtask[v]
  PROVE  InWorker(t)'
<1>1. PICK v \in Workers : wtask[v] = t /\ wpc[v] = "execute"
  BY DEF InWorker
<1>2. v # w
  BY <1>1 DEF WorkerAt
<1>3. wpc'[v] = wpc[v]
  BY <1>2 DEF WorkerAt, WorkersOK
<1> QED
  BY <1>1, <1>2, <1>3 DEF InWorker

LEMMA WokenKeeps ==
  ASSUME NEW t, InWorker(t), NEW W \in SUBSET Sleeping, wpc' = Woken(W), wtask' = wtask
  PROVE  InWorker(t)'
BY DEF InWorker, Sleeping, Woken

LEMMA PlaceFrames ==
  ASSUME NEW t
  PROVE  /\ UNCHANGED <<ppc, ptask>> => InProducer(t)' = InProducer(t)
         /\ UNCHANGED input => InInput(t)' = InInput(t)
         /\ UNCHANGED local => InLocal(t)' = InLocal(t)
         /\ UNCHANGED <<wpc, wtask>> => InWorker(t)' = InWorker(t)
BY DEF InProducer, InInput, InLocal, InWorker

LEMMA TakeLocates ==
  ASSUME LocatedInv, mpc # "destroyed", NEW t \in Tasks, NEW p \in Producers, NEW u \in Tasks,
         NEW from \in {"idle", "map"}, NEW accepted \in {"push", "mapPush"},
         Take(p, u, from, accepted)
  PROVE  Settled(t)' \/ Pending(t)'
<1>1. CASE t = u
  <2>1. CASE t \in Refused
    BY <2>1 DEF Settled
  <2>2. CASE t \notin Refused
    <3>1. ptask'[p] = t /\ ppc'[p] = accepted
      BY <1>1, <2>2 DEF Take, Carries, At, LocatedInv, TypeOK, ProducersOK
    <3> QED
      BY <3>1 DEF Pending, InProducer, PushingPlaces
  <2> QED
    BY <2>1, <2>2
<1>2. CASE t # u
  <2>1. Settled(t) => Settled(t)'
    BY <1>2 DEF Take, Settled, done
  <2>2. InProducer(t) => InProducer(t)'
    <3>1. PICK to : At(p, from, to)
      BY DEF Take
    <3>2. \A q \in Producers \ {p} : ptask'[q] = ptask[q]
      BY DEF Take, Carries, LocatedInv, TypeOK, ProducersOK
    <3> QED
      BY <3>1, <3>2, ProducerKeeps DEF PushingPlaces, LocatedInv, TypeOK
  <2>3. UNCHANGED <<input, local, wpc, wtask>>
    BY DEF Take, workers
  <2> QED
    BY <2>1, <2>2, <2>3, PlaceFrames DEF LocatedInv, Pending
<1> QED
  BY <1>1, <1>2

LEMMA ProducerLocates ==
  ASSUME LocatedInv, mpc # "destroyed", NEW t \in Tasks, NEW p \in Producers, ProducerStep(p)
  PROVE  Settled(t)' \/ Pending(t)'
<1>0. TypeOK /\ ProducersOK /\ QueuesOK /\ (Settled(t) \/ Pending(t))
  BY DEF LocatedInv, TypeOK
<1>1. CASE Perform(p) \/ MapTake(p)
  BY <1>1, TakeLocates DEF Perform, MapTake
<1>2. CASE Push(p)
  <2>1. ppc[p] = "push" /\ ptask[p] \in Tasks
    BY <1>0, <1>2 DEF Push, At, TypeOK, ProducersOK
  <2>2. Entry(ptask[p], ptask[p] \in Urgent) \in QEntry
    <3>1. (ptask[p] \in Urgent) \in BOOLEAN
      OBVIOUS
    <3> QED
      BY <2>1, <3>1, EntryType, Zenon
  <2>3. PICK e \in QEntry : e.task = ptask[p] /\ IsPushOf(input', input, e)
    <3>1. Entry(ptask[p], ptask[p] \in Urgent).task = ptask[p]
      BY DEF Entry
    <3> QED
      BY <1>2, <2>2, <3>1, Zenon DEF Push
  <2>4. PICK k \in 0..Len(input) : input' = InsertAt(input, k + 1, e)
    BY <2>3 DEF IsPushOf
  <2>5. (InInput(t) => InInput(t)') /\ (ptask[p] = t => InInput(t)')
    <3>1. input \in Seq(QEntry)
      BY <1>0 DEF QueuesOK
    <3>2. Has(input, t) => Has(input', t)
      BY <2>4, <3>1, InsertedTasks, Zenon
    <3>3. e.task = t => Has(input', t)
      BY <2>4, <3>1, InsertedTasks, Zenon
    <3> QED
      BY <2>3, <3>2, <3>3 DEF InInput
  <2>6. InProducer(t) /\ ptask[p] # t => InProducer(t)'
    <3>1. At(p, "push", "notify") /\ \A q \in Producers \ {p} : ptask'[q] = ptask[q]
      BY <1>0, <1>2 DEF Push, Carries, ProducersOK
    <3> QED
      BY <1>0, <3>1, ProducerKeeps
  <2>7. UNCHANGED <<fresh, executed, local, wpc, wtask>>
    BY <1>2 DEF Push, workers, done
  <2> QED
    BY <1>0, <2>5, <2>6, <2>7, PlaceFrames, SettledStays DEF Pending
<1>3. CASE MapPush(p)
  <2>1. ppc[p] = "mapPush" /\ ptask[p] \in Tasks /\ pkey[p] \in Workers
    BY <1>0, <1>3 DEF MapPush, At, TypeOK, ProducersOK
  <2> DEFINE w == pkey[p]
             e == Entry(ptask[p], FALSE)
  <2>2. local \in [Workers -> Seq(QEntry)] /\ local[w] \in Seq(QEntry) /\ e \in QEntry
    BY <1>0, <2>1, EntryType DEF TypeOK, QueuesOK
  <2>3. e.task = ptask[p]
    BY DEF Entry
  <2>4. PICK k \in 0..Len(local[w]) : local' = [local EXCEPT ![w] = InsertAt(local[w], k + 1, e)]
    BY <1>3 DEF MapPush, PushLocal
  <2> HIDE DEF e
  <2>5. PICK s \in Seq(QEntry) : s = local[w]
    BY <2>2
  <2>6. e \in QEntry /\ k \in 0..Len(s)
    BY <2>2, <2>4, <2>5
  <2>7. Has(s, t) \/ e.task = t => Has(InsertAt(s, k + 1, e), t)
    BY <2>6, InsertedTasks, Zenon
  <2>8. /\ InLocal(t) => InLocal(t)'
        /\ ptask[p] = t => InLocal(t)'
    <3>1. local'[w] = InsertAt(s, k + 1, e) /\ \A v \in Workers \ {w} : local'[v] = local[v]
      BY <2>1, <2>2, <2>4, <2>5
    <3> QED
      BY <2>1, <2>3, <2>5, <2>7, <3>1 DEF InLocal
  <2>9. InProducer(t) /\ ptask[p] # t => InProducer(t)'
    <3>1. At(p, "mapPush", "map") /\ \A q \in Producers \ {p} : ptask'[q] = ptask[q]
      BY <1>0, <1>3 DEF MapPush, Carries, ProducersOK
    <3> QED
      BY <1>0, <3>1, ProducerKeeps
  <2>10. UNCHANGED <<fresh, executed, input, wpc, wtask>>
    BY <1>3 DEF MapPush, workers, done
  <2> QED
    BY <1>0, <2>8, <2>9, <2>10, PlaceFrames, SettledStays DEF Pending
<1>4. ASSUME NEW from, NEW to, from \notin PushingPlaces, At(p, from, to),
             \A q \in Producers \ {p} : ptask'[q] = ptask[q],
             InWorker(t) => InWorker(t)',
             UNCHANGED <<fresh, executed, input, local>>
      PROVE  Settled(t)' \/ Pending(t)'
  <2>1. InProducer(t) => InProducer(t)'
    BY <1>0, <1>4, ProducerKeeps
  <2> QED
    BY <1>0, <1>4, <2>1, PlaceFrames, SettledStays DEF Pending
<1>5. CASE PushNotify(p) \/ MapEnd(p)
  <2>1. InWorker(t) => InWorker(t)'
    BY <1>5, WokenKeeps, PlaceFrames DEF PushNotify, MapEnd, Notify, NotifyAll
  <2> QED
    BY <1>4, <1>5, <2>1 DEF PushNotify, MapEnd, PushingPlaces, queues, done
<1>6. CASE OnMainThread(p) \/ RefusedNotify(p) \/ \E k \in MapKeys : MapKey(p, k)
  <2>1. UNCHANGED <<fresh, executed, input, local, wpc, wtask>>
    BY <1>6 DEF OnMainThread, RefusedNotify, MapKey, queues, workers, done
  <2>2. \A q \in Producers \ {p} : ptask'[q] = ptask[q]
    BY <1>0, <1>6 DEF OnMainThread, RefusedNotify, MapKey, Carries, ProducersOK
  <2>3. \E from, to : from \notin PushingPlaces /\ At(p, from, to)
    BY <1>6 DEF OnMainThread, RefusedNotify, MapKey, PushingPlaces
  <2> QED
    BY <1>4, <2>1, <2>2, <2>3, PlaceFrames
<1> QED
  BY <1>1, <1>2, <1>3, <1>5, <1>6 DEF ProducerStep

LEMMA WorkerLocates ==
  ASSUME LocatedInv, mpc # "destroyed", NEW t \in Tasks, NEW w \in Workers,
         WorkerStep(w) \/ SpuriousWakeup(w)
  PROVE  Settled(t)' \/ Pending(t)'
<1>0. TypeOK /\ WorkersOK /\ QueuesOK /\ (Settled(t) \/ Pending(t))
  BY DEF LocatedInv, TypeOK
<1>1. ASSUME NEW from, NEW to, from # "execute", WorkerAt(w, from, to),
             \A v \in Workers \ {w} : wtask'[v] = wtask[v],
             UNCHANGED <<fresh, executed, ppc, ptask, input, local>>
      PROVE  Settled(t)' \/ Pending(t)'
  <2>1. InWorker(t) => InWorker(t)'
    BY <1>0, <1>1, WorkerKeeps
  <2> QED
    BY <1>0, <1>1, <2>1, PlaceFrames, SettledStays DEF Pending
<1>2. CASE ThreadInit(w) \/ CheckQuit(w) \/ NotifyWait(w)
  BY <1>1, <1>2 DEF ThreadInit, CheckQuit, NotifyWait, queues, producers, done
<1>3. CASE Lock(w) \/ Wait(w) \/ SpuriousWakeup(w)
  BY <1>1, <1>3 DEF Lock, Wait, SpuriousWakeup, Moves, queues, producers, done
<1>4. CASE Output(w) \/ CountDown(w)
  <2>1. \A v \in Workers \ {w} : wtask'[v] = wtask[v]
    BY <1>0, <1>4 DEF Output, CountDown, Holds, WorkersOK
  <2> QED
    BY <1>1, <1>4, <2>1 DEF Output, CountDown, producers, done
<1>5. CASE Execute(w)
  <2>1. CASE wtask[w] = t
    BY <1>5, <2>1 DEF Execute, Settled
  <2>2. CASE wtask[w] # t
    <3>1. InWorker(t) => InWorker(t)'
      <4>1. \A v \in Workers \ {w} : wpc'[v] = wpc[v] /\ wtask'[v] = wtask[v]
        BY <1>0, <1>5 DEF Execute, WorkerAt, WorkersOK
      <4> QED
        BY <2>2, <4>1 DEF InWorker
    <3>2. executed \subseteq executed' /\ UNCHANGED <<fresh, ppc, ptask, input, local>>
      BY <1>5 DEF Execute, producers, queues
    <3> QED
      BY <1>0, <3>1, <3>2, PlaceFrames, SettledStays DEF Pending
  <2> QED
    BY <2>1, <2>2
<1>6. ASSUME NEW from, from # "execute", NEW s \in Seq(QEntry), s # <<>>,
             WorkerAt(w, from, "execute"), Holds(w, Head(s).task)
      PROVE  /\ Has(s, t) => Has(Tail(s), t) \/ InWorker(t)'
             /\ InWorker(t) => InWorker(t)'
  <2>1. CASE Head(s).task = t
    <3>1. wpc'[w] = "execute" /\ wtask'[w] = t
      BY <1>0, <1>6, <2>1 DEF WorkerAt, Holds, WorkersOK
    <3> QED
      BY <3>1 DEF InWorker
  <2>2. CASE Head(s).task # t
    <3>1. \A v \in Workers \ {w} : wtask'[v] = wtask[v]
      BY <1>0, <1>6 DEF Holds, WorkersOK
    <3>2. InWorker(t) => InWorker(t)'
      BY <1>0, <1>6, <3>1, WorkerKeeps
    <3> QED
      BY <1>6, <2>2, <3>2, PoppedTasks, Zenon
  <2> QED
    BY <2>1, <2>2
<1>7. CASE PopLocal(w)
  <2>1. UNCHANGED <<fresh, executed, ppc, ptask, input>>
    BY <1>7 DEF PopLocal, producers, done
  <2>2. CASE local[w] = <<>>
    <3>1. local' = local
      BY <1>0, <1>7, <2>2 DEF PopLocal, QueuesOK
    <3>2. WorkerAt(w, "popLocal", "pop") /\ UNCHANGED wtask
      BY <1>7, <2>2 DEF PopLocal, PopFrom
    <3> QED
      BY <1>1, <2>1, <3>1, <3>2
  <2>3. CASE local[w] # <<>>
    <3>1. WorkerAt(w, "popLocal", "execute") /\ Holds(w, Head(local[w]).task)
      BY <1>7, <2>3 DEF PopLocal, PopFrom
    <3>2. PICK s \in Seq(QEntry) : s = local[w]
      BY <1>0 DEF QueuesOK
    <3>3. Has(s, t) => Has(Tail(s), t) \/ InWorker(t)'
      BY <1>6, <2>3, <3>1, <3>2
    <3>4. InWorker(t) => InWorker(t)'
      BY <1>6, <2>3, <3>1, <3>2
    <3>5. local'[w] = Tail(s) /\ \A v \in Workers \ {w} : local'[v] = local[v]
      BY <1>0, <1>7, <2>3, <3>2 DEF PopLocal, QueuesOK
    <3>6. InLocal(t) => InLocal(t)' \/ InWorker(t)'
      BY <3>2, <3>3, <3>5 DEF InLocal
    <3> QED
      BY <1>0, <2>1, <3>4, <3>6, PlaceFrames, SettledStays DEF Pending
  <2> QED
    BY <2>2, <2>3
<1>8. CASE PopTask(w)
  <2>1. UNCHANGED <<fresh, executed, ppc, ptask, local>>
    BY <1>8 DEF PopTask, producers, done
  <2>2. CASE input = <<>>
    <3>1. input' = input /\ WorkerAt(w, "pop", "lock") /\ UNCHANGED wtask
      BY <1>8, <2>2 DEF PopTask, PopFrom
    <3> QED
      BY <1>1, <2>1, <3>1
  <2>3. CASE input # <<>>
    <3>1. WorkerAt(w, "pop", "execute") /\ Holds(w, Head(input).task)
      BY <1>8, <2>3 DEF PopTask, PopFrom
    <3>2. input' = Tail(input)
      BY <1>8, <2>3 DEF PopTask
    <3>3. PICK s \in Seq(QEntry) : s = input
      BY <1>0 DEF QueuesOK
    <3>4. Has(s, t) => Has(Tail(s), t) \/ InWorker(t)'
      BY <1>6, <2>3, <3>1, <3>3
    <3>5. InWorker(t) => InWorker(t)'
      BY <1>6, <2>3, <3>1, <3>3
    <3>6. InInput(t) => InInput(t)' \/ InWorker(t)'
      BY <3>2, <3>3, <3>4 DEF InInput
    <3> QED
      BY <1>0, <2>1, <3>5, <3>6, PlaceFrames, SettledStays DEF Pending
  <2> QED
    BY <2>2, <2>3
<1>9. CASE WorkerFault(w)
  BY <1>0, <1>9, PlaceFrames, SettledStays
  DEF WorkerFault, Crash, producers, queues, workers, done, Pending
<1> QED
  BY <1>2, <1>3, <1>4, <1>5, <1>7, <1>8, <1>9 DEF WorkerStep

LEMMA OwnerLocates ==
  ASSUME LocatedInv, mpc # "destroyed", mpc' # "destroyed", NEW t \in Tasks,
         AsyncStep \/ ProducerFault \/ OwnerStep \/ OwnerCall
  PROVE  Settled(t)' \/ Pending(t)'
<1>0. TypeOK /\ WorkersOK /\ (Settled(t) \/ Pending(t))
  BY DEF LocatedInv, TypeOK
<1>1. ASSUME UNCHANGED <<fresh, ppc, ptask, input, local>>, executed \subseteq executed',
             InWorker(t) => InWorker(t)'
      PROVE  Settled(t)' \/ Pending(t)'
  BY <1>0, <1>1, PlaceFrames, SettledStays DEF Pending
<1>2. CASE AsyncStep
  <2>1. PICK u \in Async : PerformAsync(u) \/ AsyncRun(u)
    BY <1>2 DEF AsyncStep
  <2>2. UNCHANGED <<ppc, ptask, input, local, wpc, wtask>>
    BY <2>1 DEF PerformAsync, AsyncRun, producers, workers
  <2>3. Settled(t) => Settled(t)'
    BY <2>1 DEF PerformAsync, AsyncRun, producers, done, Settled
  <2> QED
    BY <1>0, <2>2, <2>3, PlaceFrames DEF Pending
<1>3. CASE Spawn
  <2>1. ~ InWorker(t)
    BY <1>0, <1>3 DEF Spawn, WorkersOK, InWorker
  <2> QED
    BY <1>1, <1>3, <2>1 DEF Spawn, producers, queues, done
<1>4. CASE FinalizeNotify \/ CancelNotify
  <2>1. InWorker(t) => InWorker(t)'
    BY <1>4, WokenKeeps DEF FinalizeNotify, CancelNotify, OwnerNotifies, NotifyAll
  <2> QED
    BY <1>1, <1>4, <2>1 DEF FinalizeNotify, CancelNotify, OwnerNotifies, producers, queues, done
<1>5. ASSUME NEW w \in Workers, Join(w) PROVE Settled(t)' \/ Pending(t)'
  <2>1. InWorker(t) => InWorker(t)'
    BY <1>0, <1>5, WorkerKeeps DEF Join
  <2> QED
    BY <1>1, <1>5, <2>1 DEF Join, producers, queues, done
<1>6. ASSUME UNCHANGED <<fresh, ppc, ptask, input, local, wpc, wtask, executed>>
      PROVE  Settled(t)' \/ Pending(t)'
  BY <1>0, <1>6, PlaceFrames, SettledStays DEF Pending
<1>7. CASE CheckCounter \/ WaitExit \/ WaitReturns \/ Update \/ WaitForAll \/ WaitOutput
  BY <1>6, <1>7 DEF CheckCounter, WaitExit, WaitReturns, Update, WaitForAll, WaitOutput,
     Collects, Goes, producers, queues, workers, done
<1>8. CASE ProducerFault \/ OwnerFault
  BY <1>6, <1>8 DEF ProducerFault, OwnerFault, Crash, producers, queues, workers, done
<1>9. CASE Finalize \/ Cancel \/ CancelReturns \/ \E w \in Workers : ReleaseWorker(w)
  BY <1>6, <1>9 DEF Finalize, Cancel, CancelReturns, ReleaseWorker,
     producers, queues, workers, done
<1>10. ~ Destroy
  BY DEF Destroy, OwnerAt
<1> QED
  BY <1>2, <1>3, <1>4, <1>5, <1>7, <1>8, <1>9, <1>10 DEF OwnerStep, OwnerCall

LEMMA LocatedInvariant == Spec => []LocatedInv
<1>1. Init => LocatedInv
  BY TypeInit DEF Init, LocatedInv, Settled
<1>2. LocatedInv /\ [Next]_vars => LocatedInv'
  <2> SUFFICES ASSUME LocatedInv, [Next]_vars, mpc' # "destroyed", NEW t \in Tasks
               PROVE  Settled(t)' \/ Pending(t)'
    BY TypeStep DEF LocatedInv
  <2>1. CASE Next
    BY <2>1, ProducerLocates, WorkerLocates, OwnerLocates DEF Next
  <2>2. CASE UNCHANGED vars
    BY <2>2, PlaceFrames, SettledStays
    DEF vars, producers, queues, workers, owner, done, LocatedInv, Pending
  <2> QED
    BY <2>1, <2>2
<1> QED
  BY <1>1, <1>2, PTL DEF Spec

(* Nothing is pending while the counter is zero.                            *)
LEMMA NothingPending ==
  ASSUME CounterInv, counter = 0, mpc # "destroyed", NEW t \in Tasks
  PROVE  ~ Pending(t)
<1>1. /\ Cardinality(Pushing) = 0 /\ Len(input) = 0
      /\ Cardinality(Assigned) = 0 /\ Cardinality(Busy) = 0
  <2>1. Cardinality(Assigned) \in Nat
    BY FS_CardinalityType DEF CounterInv
  <2> QED
    BY <2>1, CardinalTypes DEF CounterInv, CounterExact, InFlight
<1>2. Pushing = {} /\ Assigned = {} /\ Busy = {}
  <2>1. IsFiniteSet(Pushing) /\ IsFiniteSet(Busy)
    BY WorkersFinite, TaskQueueAssumption, FS_Subset DEF Pushing, Busy
  <2> QED
    BY <1>1, <2>1, FS_EmptySet DEF CounterInv
<1>3. ~ InProducer(t) /\ ~ InWorker(t)
  BY <1>2 DEF Pushing, Busy, InProducer, InWorker, PushingPlaces
<1>4. ~ InInput(t)
  BY <1>1 DEF InInput, Has, CounterInv, TypeOK, QueuesOK
<1>5. ~ InLocal(t)
  <2>1. ASSUME NEW w \in Workers, NEW i \in DOMAIN local[w] PROVE FALSE
    <3>1. <<w, i>> \in {w} \X DOMAIN local[w]
      OBVIOUS
    <3> QED
      BY <1>2, <3>1 DEF Assigned
  <2> QED
    BY <2>1 DEF InLocal, Has
<1> QED
  BY <1>3, <1>4, <1>5 DEF Pending

(* When waitForAll returns, every task that was performed has been          *)
(* executed, for every number of producers, workers and tasks.  The counter *)
(* is read under no mutex: that it is exact in every state, with a task not *)
(* executed in one of the places it counts, is what makes 0 mean idle.      *)
THEOREM WaitForAllCorrect == Spec => WaitForAllDrains
<1>1. CounterInv /\ LocatedInv /\ [Next]_vars =>
        [mpc = "checkCounter" /\ mpc' = "idle" =>
           \A t \in Tasks : t \in fresh \/ t \in executed \/ t \in Refused \/ t \in Async]_vars
  <2> SUFFICES ASSUME CounterInv, LocatedInv, Next, mpc = "checkCounter", mpc' = "idle",
                      NEW t \in Tasks
               PROVE  t \in fresh \/ t \in executed \/ t \in Refused \/ t \in Async
    OBVIOUS
  <2>1. counter = 0
    <3>1. CASE \E p \in Producers : ProducerStep(p)
      BY <3>1 DEF ProducerStep, Perform, Take, Push, PushNotify, MapTake, MapPush, MapEnd,
         MapKey, OnMainThread, RefusedNotify, WakeOwner, NotifyOwner, owner
    <3>2. CASE AsyncStep \/ ProducerFault
      BY <3>2 DEF AsyncStep, PerformAsync, AsyncRun, WakeOwner, NotifyOwner, ProducerFault,
         Crash, owner
    <3>3. CASE \E w \in Workers : WorkerStep(w) \/ SpuriousWakeup(w)
      BY <3>3 DEF WorkerStep, ThreadInit, CheckQuit, PopLocal, PopTask, Lock, Wait, Moves,
         Execute, Output, NotifyWait, NotifyOwner, CountDown, WorkerFault, Crash,
         SpuriousWakeup, owner
    <3>4. CASE OwnerStep
      BY <3>4 DEF OwnerStep, CheckCounter, WaitExit, WaitReturns, Collects, Goes, OwnerAt,
         FinalizeNotify, CancelNotify, OwnerNotifies, CancelReturns, ReleaseWorker, Join
    <3>5. CASE OwnerCall
      BY <3>5 DEF OwnerCall, Spawn, Update, WaitForAll, WaitOutput, Finalize, Cancel,
         Collects, Goes, OwnerAt, OwnerFault, Crash, Destroy, owner
    <3> QED
      BY <3>1, <3>2, <3>3, <3>4, <3>5 DEF Next
  <2> QED
    BY <2>1, NothingPending DEF LocatedInv, Settled
<1> QED
  BY <1>1, CounterInvariant, LocatedInvariant, PTL DEF Spec, WaitForAllDrains

-----------------------------------------------------------------------------
(***************************************************************************)
(* Local queues: who sleeps has been left nothing.                         *)
(***************************************************************************)
\* Tasks get into a local queue from perform(Map), which is a call in progress
\* while it has a key, and never while its worker is about to sleep.
LocalInv ==
  /\ \A w \in Workers : wpc[w] = "locked" => local[w] = <<>>
  /\ LocalNotMissed
  /\ ~ LocalQueue => /\ \A w \in Workers : local[w] = <<>>
                     /\ \A p \in Producers : ppc[p] \notin {"map", "mapPush"} /\ pkey[p] = NoWorker

(* A step that leaves the local queues alone, and no call of perform(Map),  *)
(* is right about workers that it puts to sleep only from their lock.       *)
LEMMA LocalFrame ==
  ASSUME TypeOK, LocalInv, UNCHANGED <<local, pkey>>,
         \A p \in Producers : ppc'[p] \in {"map", "mapPush"} => ppc[p] \in {"map", "mapPush"} \/ pkey[p] # NoWorker,
         \A w \in Workers : /\ wpc'[w] = "locked" => wpc[w] = "locked"
                            /\ wpc'[w] = "waiting" => wpc[w] \in {"locked", "waiting"}
  PROVE  LocalInv'
BY DEF LocalInv, LocalNotMissed

LEMMA LocalProducer ==
  ASSUME TypeOK, LocalInv, NEW p \in Producers, ProducerStep(p)
  PROVE  LocalInv'
<1>0. /\ wpc \in [Workers -> {"none", "init", "check", "popLocal", "pop", "lock", "locked", "waiting", "null",
                              "execute", "output", "notifyWait", "count", "notifyExit", "exited"}]
      /\ ppc \in [Producers -> {"idle", "push", "notify", "map", "mapPush", "refused", "refusedNotify"}]
      /\ pkey \in [Producers -> MapKeys \cup {NoWorker}] /\ MapKeys \subseteq Int
      /\ local \in [Workers -> Seq(QEntry)] /\ Workers \subseteq Int /\ NoWorker \notin Int
  BY TaskQueueAssumption, NullAssumption DEF TypeOK, ProducersOK, WorkersOK, QueuesOK, Workers
<1>1. ASSUME NEW from, NEW to, At(p, from, to), UNCHANGED <<local, pkey, wpc>>,
             to \in {"map", "mapPush"} => from \in {"map", "mapPush"} \/ pkey[p] # NoWorker
      PROVE  LocalInv'
  BY <1>0, <1>1, LocalFrame DEF At
<1>2. CASE Perform(p) \/ Push(p) \/ OnMainThread(p) \/ RefusedNotify(p) \/ MapTake(p)
  <2>1. CASE Perform(p) \/ MapTake(p)
    BY <2>1, <1>1, Zenon DEF Perform, MapTake, Take, workers
  <2>2. CASE Push(p) \/ OnMainThread(p)
    BY <2>2, <1>1 DEF Push, OnMainThread, workers
  <2>3. CASE RefusedNotify(p)
    BY <2>3, <1>1 DEF RefusedNotify, workers, queues
  <2> QED
    BY <1>2, <2>1, <2>2, <2>3
<1>3. CASE PushNotify(p)
  <2>1. \A w \in Workers : wpc'[w] \in {wpc[w], "null", "check"}
    BY <1>3, <1>0 DEF PushNotify, Notify, Woken, AfterWait
  <2>2. UNCHANGED <<local, pkey>> /\ \A q \in Producers : ppc'[q] \in {ppc[q], "idle"}
    BY <1>3, <1>0 DEF PushNotify, At, queues
  <2> QED
    BY <2>1, <2>2, LocalFrame
<1>4. ASSUME NEW k \in MapKeys, MapKey(p, k) PROVE LocalInv'
  <2>1. LocalQueue
    BY <1>4, <1>0 DEF MapKey, At, LocalInv
  <2>2. UNCHANGED <<local, wpc>> /\ pkey' = [pkey EXCEPT ![p] = k] /\ k # NoWorker
    BY <1>4, <1>0 DEF MapKey, queues, workers
  <2>3. \A q \in Producers : pkey[q] # NoWorker => pkey'[q] # NoWorker
    BY <2>2, <1>0
  <2> QED
    BY <2>1, <2>2, <2>3 DEF LocalInv, LocalNotMissed
<1>5. CASE MapPush(p)
  <2>1. /\ ppc[p] = "mapPush" /\ LocalQueue /\ UNCHANGED <<pkey, wpc>> /\ PushLocal(pkey[p], Entry(ptask[p], FALSE))
        /\ pkey[p] \in Workers
    BY <1>5, <1>0 DEF MapPush, At, LocalInv, workers, TypeOK, ProducersOK
  <2>2. wpc[pkey[p]] # "locked" /\ \A w \in Workers : w # pkey[p] => local'[w] = local[w]
    BY <2>1, <1>0 DEF PushLocal, LocalFree
  <2>3. pkey[p] # NoWorker
    BY <2>1, <1>0
  <2> QED
    BY <2>1, <2>2, <2>3 DEF LocalInv, LocalNotMissed
<1>6. CASE MapEnd(p)
  <2>1. LocalQueue /\ UNCHANGED local
    BY <1>6 DEF MapEnd, At, LocalInv, queues
  <2>2. \A w \in Workers : wpc'[w] # "waiting" /\ (wpc'[w] = "locked" => wpc[w] = "locked")
    BY <1>6, <1>0 DEF MapEnd, NotifyAll, Woken, Sleeping, AfterWait
  <2> QED
    BY <2>1, <2>2 DEF LocalInv, LocalNotMissed
<1> QED
  BY <1>2, <1>3, <1>4, <1>5, <1>6 DEF ProducerStep

LEMMA LocalWorker ==
  ASSUME TypeOK, LocalInv, NEW w \in Workers, WorkerStep(w) \/ SpuriousWakeup(w)
  PROVE  LocalInv'
<1>0. /\ wpc \in [Workers -> {"none", "init", "check", "popLocal", "pop", "lock", "locked", "waiting", "null",
                              "execute", "output", "notifyWait", "count", "notifyExit", "exited"}]
      /\ local \in [Workers -> Seq(QEntry)]
  BY DEF TypeOK, WorkersOK, QueuesOK
<1>1. UNCHANGED <<pkey, ppc>>
  BY DEF WorkerStep, SpuriousWakeup, ThreadInit, CheckQuit, PopLocal, PopTask, Lock, Wait, Execute, Output,
         NotifyWait, CountDown, WorkerFault, Crash, Moves, producers
<1>2. CASE PopLocal(w)
  <2>1. /\ local' = [local EXCEPT ![w] = IF @ = <<>> THEN @ ELSE Tail(@)]
        /\ \E to \in {"pop", "execute"} : WorkerAt(w, "popLocal", to)
    BY <1>2 DEF PopLocal, PopFrom
  <2>2. \A u \in Workers : u # w => local'[u] = local[u] /\ wpc'[u] = wpc[u]
    BY <2>1, <1>0 DEF WorkerAt
  <2>3. wpc'[w] \notin {"locked", "waiting"} /\ (local[w] = <<>> => local'[w] = <<>>)
    BY <2>1, <1>0 DEF WorkerAt
  <2> QED
    BY <1>1, <2>2, <2>3 DEF LocalInv, LocalNotMissed
<1>3. CASE Lock(w)
  <2>1. UNCHANGED local /\ \A u \in Workers : u # w => wpc'[u] = wpc[u]
    BY <1>3, <1>0 DEF Lock, Moves, WorkerAt, queues
  <2>2. wpc'[w] = "locked" => local[w] = <<>>
    <3>1. CASE LocalQueue /\ local[w] # <<>>
      BY <3>1, <1>3, <1>0 DEF Lock, Moves, WorkerAt
    <3>2. CASE ~ (LocalQueue /\ local[w] # <<>>)
      BY <3>2 DEF LocalInv
    <3> QED
      BY <3>1, <3>2
  <2>3. wpc'[w] # "waiting"
    BY <1>3, <1>0 DEF Lock, Moves, WorkerAt, AfterWait
  <2> QED
    BY <1>1, <2>1, <2>2, <2>3 DEF LocalInv, LocalNotMissed
<1>4. CASE Wait(w)
  <2>1. UNCHANGED local /\ wpc[w] = "locked" /\ \A u \in Workers : wpc'[u] = IF u = w THEN "waiting" ELSE wpc[u]
    BY <1>4, <1>0 DEF Wait, Moves, WorkerAt, queues
  <2> QED
    BY <1>1, <2>1, LocalFrame
<1>5. CASE ~ (PopLocal(w) \/ Lock(w) \/ Wait(w))
  <2>1. UNCHANGED local
    BY <1>5 DEF WorkerStep, SpuriousWakeup, ThreadInit, CheckQuit, PopTask, Execute, Output,
       NotifyWait, CountDown, WorkerFault, Crash, Moves, queues
  <2>2. \/ UNCHANGED wpc
        \/ \E to \in {"check", "exited", "popLocal", "pop", "lock", "execute", "output", "notifyWait", "count",
                      "notifyExit", "null"} : wpc' = [wpc EXCEPT ![w] = to]
    <3>1. CASE ThreadInit(w) \/ CheckQuit(w) \/ SpuriousWakeup(w) \/ WorkerFault(w)
      BY <3>1 DEF ThreadInit, CheckQuit, SpuriousWakeup, WorkerFault, Crash, Moves, WorkerAt, AfterWait, workers
    <3>2. CASE PopTask(w)
      BY <3>2 DEF PopTask, PopFrom, WorkerAt
    <3>3. CASE Execute(w) \/ Output(w) \/ NotifyWait(w) \/ CountDown(w)
      BY <3>3 DEF Execute, Output, NotifyWait, CountDown, WorkerAt
    <3> QED
      BY <1>5, <3>1, <3>2, <3>3 DEF WorkerStep
  <2>3. \A u \in Workers : wpc'[u] \in {"locked", "waiting"} => wpc'[u] = wpc[u]
    BY <2>2, <1>0
  <2> QED
    BY <1>1, <2>1, <2>3, LocalFrame
<1> QED
  BY <1>2, <1>3, <1>4, <1>5

LEMMA LocalOther ==
  ASSUME TypeOK, LocalInv, AsyncStep \/ ProducerFault \/ OwnerStep \/ OwnerCall
  PROVE  LocalInv'
<1>0. wpc \in [Workers -> {"none", "init", "check", "popLocal", "pop", "lock", "locked", "waiting", "null",
                           "execute", "output", "notifyWait", "count", "notifyExit", "exited"}]
  BY DEF TypeOK, WorkersOK
<1>1. CASE AsyncStep \/ ProducerFault
  <2>1. UNCHANGED <<local, pkey, ppc, wpc>>
    BY <1>1 DEF AsyncStep, PerformAsync, AsyncRun, ProducerFault, Crash, producers, workers, queues
  <2> QED
    BY <2>1, LocalFrame
<1>2. CASE OwnerStep \/ OwnerCall
  <2>1. UNCHANGED <<local, pkey, ppc>>
    BY <1>2 DEF OwnerStep, OwnerCall, CheckCounter, WaitExit, WaitReturns, FinalizeNotify, CancelNotify,
       CancelReturns, ReleaseWorker, Join, Spawn, Update, WaitForAll, WaitOutput, Finalize, Cancel, OwnerFault,
       Destroy, Collects, Goes, OwnerNotifies, Crash, producers, queues
  <2>2. \A u \in Workers : wpc'[u] \in {"locked", "waiting"} => wpc'[u] = wpc[u]
    <3>1. CASE Spawn \/ FinalizeNotify \/ CancelNotify \/ \E w \in Workers : Join(w)
      BY <3>1, <1>0 DEF Spawn, FinalizeNotify, CancelNotify, OwnerNotifies, NotifyAll, Woken, Sleeping, AfterWait,
         Join, WorkerAt
    <3>2. CASE ~ (Spawn \/ FinalizeNotify \/ CancelNotify \/ \E w \in Workers : Join(w))
      BY <3>2, <1>2 DEF OwnerStep, OwnerCall, CheckCounter, WaitExit, WaitReturns,
         CancelReturns, ReleaseWorker, Update, WaitForAll, WaitOutput, Finalize, Cancel, OwnerFault,
         Destroy, Collects, Goes, Crash, workers
    <3> QED
      BY <3>1, <3>2
  <2> QED
    BY <2>1, <2>2, LocalFrame
<1> QED
  BY <1>1, <1>2

LEMMA LocalInvariant == Spec => []LocalInv
<1>1. Init => LocalInv
  BY DEF Init, LocalInv, LocalNotMissed
<1>2. TypeOK /\ LocalInv /\ [Next]_vars => LocalInv'
  <2> SUFFICES ASSUME TypeOK, LocalInv, [Next]_vars PROVE LocalInv'
    OBVIOUS
  <2>1. CASE Next
    BY <2>1, LocalProducer, LocalWorker, LocalOther DEF Next
  <2>2. CASE UNCHANGED vars
    BY <2>2, LocalFrame DEF vars, producers, queues, workers
  <2> QED
    BY <2>1, <2>2
<1> QED
  BY <1>1, <1>2, TypeCorrect, PTL DEF Spec

(* No worker sleeps on tasks of its own once the perform(Map) that gave     *)
(* them to it has returned (worker, Worker::perform): the mutex is held     *)
(* from the second look at the local queue to the wait, and perform         *)
(* notifies all after its pushes.                                           *)
THEOREM LocalCorrect == Spec => []LocalNotMissed
<1>1. LocalInv => LocalNotMissed
  BY DEF LocalInv
<1> QED
  BY <1>1, LocalInvariant, PTL

-----------------------------------------------------------------------------
(***************************************************************************)
(* The end of the context, whatever the owner and the producers do.        *)
(***************************************************************************)
\* Places of a worker in which it may have a task in hand.
Handling == {"execute", "output", "notifyWait", "count"}

\* Those that are joined are gone, and so are all when the context is; no
\* notification brings one back.
EndInv ==
  /\ \A w \in Workers : wpc[w] \notin Handling => wtask[w] = NoTask
  /\ mpc \in {"release", "join"} => context = "live"
  /\ mpc = "join" => \A w \in Workers \ toJoin : wpc[w] = "none"
  /\ context = "freed" => \A w \in Workers : wpc[w] = "none"

\* What a step that notifies, or none, does to the workers.
LEMMA EndNotified ==
  ASSUME TypeOK, EndInv, UNCHANGED wtask,
         UNCHANGED wpc \/ \E W \in SUBSET Sleeping : wpc' = Woken(W)
  PROVE  /\ \A w \in Workers : wpc[w] = "none" => wpc'[w] = "none"
         /\ \A w \in Workers : wpc'[w] \notin Handling => wtask'[w] = NoTask
<1>1. AfterWait \notin Handling /\ "waiting" \notin Handling
  BY DEF AfterWait, Handling
<1>2. CASE UNCHANGED wpc
  BY <1>2 DEF EndInv
<1>3. ASSUME NEW W \in SUBSET Sleeping, wpc' = Woken(W)
      PROVE  /\ \A w \in Workers : wpc[w] = "none" => wpc'[w] = "none"
             /\ \A w \in Workers : wpc'[w] \notin Handling => wtask'[w] = NoTask
  <2>1. \A w \in Workers : wpc'[w] = IF w \in W THEN AfterWait ELSE wpc[w]
    BY <1>3 DEF Woken
  <2>2. \A w \in W : wpc[w] = "waiting"
    BY DEF Sleeping
  <2> QED
    BY <1>1, <2>1, <2>2 DEF EndInv
<1> QED
  BY <1>2, <1>3

LEMMA EndProducer ==
  ASSUME TypeOK, EndInv, (\E p \in Producers : ProducerStep(p)) \/ AsyncStep
  PROVE  EndInv'
<1>1. UNCHANGED <<context, toJoin, wtask>> /\ mpc' \in {mpc, "woken"}
  <2>1. CASE AsyncStep
    BY <2>1 DEF AsyncStep, PerformAsync, AsyncRun, WakeOwner, NotifyOwner, owner, workers
  <2>2. CASE \E p \in Producers : ProducerStep(p)
    BY <2>2 DEF ProducerStep, Perform, Push, PushNotify, MapTake, MapPush, MapEnd, MapKey, OnMainThread,
         RefusedNotify, Take, owner, workers, WakeOwner, NotifyOwner
  <2> QED
    BY <2>1, <2>2
<1>2. UNCHANGED wpc \/ \E W \in SUBSET Sleeping : wpc' = Woken(W)
  <2>1. CASE AsyncStep
    BY <2>1 DEF AsyncStep, PerformAsync, AsyncRun, workers
  <2>2. CASE \E p \in Producers : ProducerStep(p)
    <3>1. UNCHANGED wpc \/ Notify \/ NotifyAll
      BY <2>2 DEF ProducerStep, Perform, Push, PushNotify, MapTake, MapPush, MapEnd, MapKey, OnMainThread,
           RefusedNotify, Take, workers
    <3> QED
      BY <3>1 DEF Notify, NotifyAll
  <2> QED
    BY <2>1, <2>2
<1>3. /\ \A w \in Workers : wpc[w] = "none" => wpc'[w] = "none"
      /\ \A w \in Workers : wpc'[w] \notin Handling => wtask'[w] = NoTask
  BY <1>1, <1>2, EndNotified
<1> QED
  BY <1>1, <1>3 DEF EndInv

LEMMA EndWorker ==
  ASSUME TypeOK, EndInv, NEW w \in Workers, WorkerStep(w) \/ SpuriousWakeup(w)
  PROVE  EndInv'
<1>0. /\ DOMAIN wpc = Workers /\ DOMAIN wtask = Workers
  BY DEF TypeOK, WorkersOK
<1>1. CASE WorkerFault(w)
  BY <1>1 DEF WorkerFault, Crash, workers, owner, EndInv
<1>2. CASE ~ WorkerFault(w)
  <2>1. UNCHANGED <<context, toJoin>> /\ mpc' \in {mpc, "woken"}
    BY <1>2 DEF WorkerStep, SpuriousWakeup, ThreadInit, CheckQuit, PopLocal, PopTask, Lock, Wait, Execute,
         Output, NotifyWait, CountDown, Moves, owner, NotifyOwner
  <2>2. AfterWait \notin Handling
    BY DEF AfterWait, Handling
  <2>3. \E from, to : /\ WorkerAt(w, from, to) /\ from # "none"
                      /\ \/ UNCHANGED wtask /\ (to \in Handling \/ from \notin Handling)
                         \/ to \in Handling /\ \E t : Holds(w, t)
                         \/ Holds(w, NoTask)
                         \/ from = "notifyExit" /\ UNCHANGED wtask
    <3>1. CASE ThreadInit(w) \/ CheckQuit(w) \/ SpuriousWakeup(w) \/ Lock(w) \/ Wait(w)
      BY <2>2, <3>1 DEF ThreadInit, CheckQuit, SpuriousWakeup, Lock, Wait, Moves, Handling
    <3>2. CASE PopTask(w) \/ PopLocal(w)
      BY <3>2 DEF PopTask, PopLocal, PopFrom, Handling
    <3>3. CASE Execute(w) \/ Output(w) \/ NotifyWait(w) \/ CountDown(w)
      BY <3>3 DEF Execute, Output, NotifyWait, CountDown, Handling
    <3> QED
      BY <1>2, <3>1, <3>2, <3>3 DEF WorkerStep
  <2>4. /\ wpc[w] # "none" /\ \A u \in Workers : u # w => wpc'[u] = wpc[u] /\ wtask'[u] = wtask[u]
    BY <1>0, <2>3 DEF WorkerAt, Holds
  <2>5. wpc'[w] \notin Handling => wtask'[w] = NoTask
    BY <1>0, <2>3 DEF WorkerAt, Holds, EndInv, Handling
  <2> QED
    BY <2>1, <2>4, <2>5 DEF EndInv
<1> QED
  BY <1>1, <1>2

LEMMA EndOwner ==
  ASSUME TypeOK, EndInv, ProducerFault \/ OwnerStep \/ OwnerCall
  PROVE  EndInv'
<1>0. DOMAIN wpc = Workers /\ toJoin \subseteq Workers
  BY DEF TypeOK, WorkersOK, OwnerOK
<1>1. CASE ProducerFault \/ OwnerFault
  BY <1>1 DEF ProducerFault, OwnerFault, Crash, workers, owner, EndInv
<1>2. CASE CheckCounter \/ WaitExit \/ WaitReturns \/ Update \/ WaitForAll \/ WaitOutput \/ Finalize \/ Destroy
  <2>1. UNCHANGED <<wpc, wtask, context>> /\ mpc' \notin {"release", "join"}
    BY <1>2 DEF CheckCounter, WaitExit, WaitReturns, Update, WaitForAll, WaitOutput, Finalize, Destroy, Collects,
       Goes, OwnerAt, workers
  <2> QED
    BY <2>1 DEF EndInv
<1>3. CASE Spawn
  <2>1. UNCHANGED <<mpc, wtask>> /\ mpc = "idle" /\ context = "none" /\ context' = "live"
    BY <1>3 DEF Spawn, OwnerAt
  <2>2. \A w \in Workers : wpc[w] = "none"
    BY <2>1 DEF TypeOK, WorkersOK
  <2>3. \A w \in Workers : wtask[w] = NoTask
    BY <2>2 DEF EndInv, Handling
  <2> QED
    BY <2>1, <2>3 DEF EndInv
<1>4. CASE FinalizeNotify \/ CancelNotify
  <2>1. UNCHANGED <<context, wtask>> /\ wpc' = Woken(Sleeping)
    BY <1>4 DEF FinalizeNotify, CancelNotify, OwnerNotifies, NotifyAll
  <2>2. mpc' = "idle" \/ (mpc = "release" /\ mpc' = "join" /\ toJoin' = Workers)
    BY <1>4 DEF FinalizeNotify, CancelNotify, OwnerNotifies, OwnerAt
  <2>3. /\ \A w \in Workers : wpc[w] = "none" => wpc'[w] = "none"
        /\ \A w \in Workers : wpc'[w] \notin Handling => wtask'[w] = NoTask
    BY <2>1, EndNotified
  <2> QED
    BY <2>1, <2>2, <2>3 DEF EndInv
<1>5. CASE Cancel
  <2>1. UNCHANGED <<wpc, wtask, context>> /\ mpc' = "release" /\ context = "live"
    BY <1>5 DEF Cancel, Calls, OwnerAt, workers
  <2> QED
    BY <2>1 DEF EndInv
<1>6. ASSUME NEW w \in Workers, ReleaseWorker(w) PROVE EndInv'
  BY <1>6 DEF ReleaseWorker, EndInv
<1>7. ASSUME NEW w \in Workers, Join(w) PROVE EndInv'
  <2>1. UNCHANGED <<context, mpc, wtask>> /\ toJoin' = toJoin \ {w} /\ WorkerAt(w, "exited", "none")
    BY <1>7 DEF Join
  <2>2. \A u \in Workers : wpc'[u] = IF u = w THEN "none" ELSE wpc[u]
    BY <2>1, <1>0 DEF WorkerAt
  <2>3. wtask[w] = NoTask
    BY <2>1 DEF WorkerAt, EndInv, Handling
  <2> QED
    BY <2>1, <2>2, <2>3 DEF EndInv
<1>8. CASE CancelReturns
  <2>1. UNCHANGED <<wpc, wtask>> /\ mpc = "join" /\ mpc' = "idle" /\ toJoin = {} /\ context' = "freed"
    BY <1>8 DEF CancelReturns, OwnerAt, workers
  <2> QED
    BY <2>1 DEF EndInv
<1> QED
  BY <1>1, <1>2, <1>3, <1>4, <1>5, <1>6, <1>7, <1>8 DEF OwnerStep, OwnerCall

(* cancelWorkers deletes the context only when every worker has ended, with *)
(* no task in its hands (cancelWorkers, WorkerContext::cancel, worker): for *)
(* any number of threads and tasks, both kinds of queues, and owners and    *)
(* producers that go on as they like.                                       *)
THEOREM WorkersEndFirst == Spec => []WorkersEnd
<1>1. Init => EndInv
  BY DEF Init, EndInv
<1>2. TypeOK /\ EndInv /\ [Next]_vars => EndInv'
  <2> SUFFICES ASSUME TypeOK, EndInv, [Next]_vars PROVE EndInv'
    OBVIOUS
  <2>1. CASE Next
    BY <2>1, EndProducer, EndWorker, EndOwner DEF Next
  <2>2. CASE UNCHANGED vars
    BY <2>2 DEF vars, workers, owner, EndInv
  <2> QED
    BY <2>1, <2>2
<1>3. EndInv => WorkersEnd
  BY DEF EndInv, WorkersEnd, Handling
<1> QED
  BY <1>1, <1>2, <1>3, TypeCorrect, PTL DEF Spec

-----------------------------------------------------------------------------
(***************************************************************************)
(* The refinement of TaskPool.  Its queues are in order, and every task is *)
(* in the one seat its history calls for.                                  *)
(***************************************************************************)
Carried(t) == \E p \in Producers : ptask[p] = t
Leaving(t) == \E w \in Workers : wtask[w] = t /\ wpc[w] = "output"
Out(t) == \E i \in DOMAIN out : out[i] = t

\* an ordered queue of tasks, each of them once
Ordered(s) ==
  /\ \A i, j \in DOMAIN s : s[i].task = s[j].task => i = j
  /\ \A i, j \in DOMAIN s : i < j => s[i].prio <= s[j].prio
  /\ \A i \in DOMAIN s : s[i].prio = Prio[s[i].task]

\* What a push does to an ordered queue that does not have the task.
LEMMA OrderedPush ==
  ASSUME NEW s \in Seq(QEntry), Ordered(s), NEW e \in QEntry, e.prio = Prio[e.task], ~ Has(s, e.task),
         NEW k \in 0..Len(s), IsPlaceFor(s, e, k), NEW r, r = InsertAt(s, k + 1, e)
  PROVE  Ordered(r) /\ \A t : Has(r, t) <=> Has(s, t) \/ t = e.task
<1>1. /\ r \in Seq(QEntry) /\ Len(r) = Len(s) + 1
      /\ \A i \in 1..k : r[i] = s[i]
      /\ r[k + 1] = e
      /\ \A i \in (k + 1)..Len(s) : r[i + 1] = s[i]
  <2>1. r \in Seq(QEntry) /\ Len(r) = Len(s) + 1 /\ r[k + 1] = e
    BY InsertAtElements
  <2>3. \A i \in 1..k : r[i] = s[i]
    BY InsertAtElements
  <2>2. ASSUME NEW i \in (k + 1)..Len(s) PROVE r[i + 1] = s[i]
    BY InsertAtTail
  <2> QED
    BY <2>1, <2>2, <2>3
<1>0. \A x \in QEntry : x.task \in Tasks /\ x.prio \in Int
  BY DEF QEntry
<1>2. DOMAIN s = 1..Len(s) /\ DOMAIN r = 1..(Len(s) + 1) /\ Len(s) \in Nat
  BY <1>1
<1>3. \A j \in DOMAIN r : \/ j \in 1..k /\ j \in DOMAIN s /\ r[j] = s[j]
                          \/ j = k + 1 /\ r[j] = e
                          \/ j \in (k + 2)..(Len(s) + 1) /\ j - 1 \in DOMAIN s /\ r[j] = s[j - 1]
  <2> TAKE j \in DOMAIN r
  <2>1. CASE j \in 1..k
    BY <1>1, <1>2, <2>1
  <2>2. CASE j = k + 1
    BY <1>1, <2>2
  <2>3. CASE j \in (k + 2)..(Len(s) + 1)
    <3>1. PICK i \in (k + 1)..Len(s) : i = j - 1
      BY <1>2, <2>3
    <3>2. i \in DOMAIN s /\ i + 1 = j /\ r[i + 1] = s[i]
      BY <1>1, <1>2, <2>3, <3>1
    <3>3. r[j] = s[j - 1] /\ j - 1 \in DOMAIN s
      BY <3>1, <3>2
    <3> QED
      BY <2>3, <3>3
  <2> QED
    BY <1>2, <2>1, <2>2, <2>3
<1>4. \A i \in DOMAIN s : /\ s[i] \in QEntry /\ s[i].prio \in Int
                          /\ s[i].task # e.task
                          /\ i <= k => s[i].prio <= e.prio
                          /\ i > k => e.prio <= s[i].prio
  <2> TAKE i \in DOMAIN s
  <2>1. s[i] \in QEntry /\ s[i].prio \in Int /\ e.prio \in Int
    BY <1>0, <1>2
  <2>2. s[i].task # e.task
    BY DEF Has
  <2>3. i <= k => GoesBehind(e, s[i])
    BY <1>2 DEF IsPlaceFor
  <2>4. i > k => ~ GoesBehind(e, s[i])
    BY <1>2 DEF IsPlaceFor
  <2> QED
    BY <2>1, <2>2, <2>3, <2>4 DEF GoesBehind
<1>5. Ordered(r)
  <2>1. ASSUME NEW i \in DOMAIN r, NEW j \in DOMAIN r, r[i].task = r[j].task PROVE i = j
    BY <1>2, <1>3, <1>4, <2>1 DEF Ordered
  <2>2. ASSUME NEW i \in DOMAIN r, NEW j \in DOMAIN r, i < j PROVE r[i].prio <= r[j].prio
    <3>0. i \in Int /\ j \in Int /\ k \in Int
      BY <1>2
    <3>1. CASE i \in 1..k /\ r[i] = s[i] /\ i \in DOMAIN s
      BY <1>2, <1>3, <1>4, <2>2, <3>0, <3>1 DEF Ordered
    <3>2. CASE i = k + 1 /\ r[i] = e
      BY <1>2, <1>3, <1>4, <2>2, <3>0, <3>2 DEF Ordered
    <3>3. CASE i \in (k + 2)..(Len(s) + 1) /\ i - 1 \in DOMAIN s /\ r[i] = s[i - 1]
      BY <1>2, <1>3, <1>4, <2>2, <3>0, <3>3 DEF Ordered
    <3> QED
      BY <1>3, <3>1, <3>2, <3>3
  <2>3. ASSUME NEW i \in DOMAIN r PROVE r[i].prio = Prio[r[i].task]
    BY <1>3 DEF Ordered
  <2> QED
    BY <2>1, <2>2, <2>3 DEF Ordered
<1>6. ASSUME NEW t PROVE Has(r, t) <=> Has(s, t) \/ t = e.task
  <2>1. Has(s, t) \/ t = e.task => Has(r, t)
    BY InsertedTasks
  <2>2. Has(r, t) => Has(s, t) \/ t = e.task
    BY <1>3 DEF Has
  <2> QED
    BY <2>1, <2>2
<1> QED
  BY <1>5, <1>6

\* What a pop does to an ordered queue.
LEMMA OrderedPop ==
  ASSUME NEW s \in Seq(QEntry), s # <<>>, Ordered(s)
  PROVE  /\ Ordered(Tail(s))
         /\ Head(s).task \in Tasks /\ Has(s, Head(s).task)
         /\ \A t : Has(Tail(s), t) <=> Has(s, t) /\ t # Head(s).task
         /\ \A t : Has(s, t) => Prio[Head(s).task] <= Prio[t]
<1>1. /\ Head(s) = s[1] /\ DOMAIN s = 1..Len(s) /\ Len(s) \in Nat /\ 1 \in DOMAIN s
      /\ Tail(s) \in Seq(QEntry) /\ Len(Tail(s)) = Len(s) - 1
      /\ DOMAIN Tail(s) = 1..(Len(s) - 1)
  OBVIOUS
<1>2. \A j \in DOMAIN Tail(s) : j + 1 \in DOMAIN s /\ j + 1 # 1 /\ Tail(s)[j] = s[j + 1]
  BY <1>1
<1>0. \A x \in QEntry : x.task \in Tasks /\ x.prio \in Int
  BY DEF QEntry
<1>3. \A i \in DOMAIN s : s[i] \in QEntry /\ s[i].task \in Tasks /\ s[i].prio \in Int
  BY <1>0, <1>1
<1>4. Ordered(Tail(s))
  <2>1. ASSUME NEW i \in DOMAIN Tail(s), NEW j \in DOMAIN Tail(s), Tail(s)[i].task = Tail(s)[j].task
        PROVE  i = j
    <3>1. i + 1 = j + 1
      BY <1>2, <2>1 DEF Ordered
    <3> QED
      BY <1>1, <3>1
  <2>2. ASSUME NEW i \in DOMAIN Tail(s), NEW j \in DOMAIN Tail(s), i < j
        PROVE  Tail(s)[i].prio <= Tail(s)[j].prio
    <3>1. i + 1 < j + 1
      BY <1>1, <2>2
    <3> QED
      BY <1>2, <3>1 DEF Ordered
  <2>3. ASSUME NEW i \in DOMAIN Tail(s) PROVE Tail(s)[i].prio = Prio[Tail(s)[i].task]
    BY <1>2 DEF Ordered
  <2> QED
    BY <2>1, <2>2, <2>3 DEF Ordered
<1>5. Head(s).task \in Tasks /\ Has(s, Head(s).task)
  BY <1>1, <1>3 DEF Has
<1>6. ASSUME NEW t PROVE Has(Tail(s), t) <=> Has(s, t) /\ t # Head(s).task
  <2>1. Has(s, t) /\ t # Head(s).task => Has(Tail(s), t)
    BY PoppedTasks
  <2>2. ASSUME NEW j \in DOMAIN Tail(s), Tail(s)[j].task = t PROVE Has(s, t) /\ t # Head(s).task
    BY <1>1, <1>2, <2>2 DEF Has, Ordered
  <2> QED
    BY <2>1, <2>2 DEF Has
<1>7. ASSUME NEW t, Has(s, t) PROVE Prio[Head(s).task] <= Prio[t]
  <2>1. PICK i \in DOMAIN s : s[i].task = t
    BY <1>7 DEF Has
  <2>2. s[1].prio <= s[i].prio
    <3>1. CASE i = 1
      BY <1>3, <3>1
    <3>2. CASE i # 1
      <4>1. 1 < i
        BY <1>1, <3>2
      <4> QED
        BY <1>1, <4>1 DEF Ordered
    <3> QED
      BY <3>1, <3>2
  <2> QED
    BY <1>1, <2>1, <2>2 DEF Ordered
<1> QED
  BY <1>4, <1>5, <1>6, <1>7

\* What an output does.
LEMMA AppendOnce ==
  ASSUME NEW s \in Seq(Tasks), NEW t \in Tasks,
         \A i, j \in DOMAIN s : s[i] = s[j] => i = j, \A i \in DOMAIN s : s[i] # t,
         NEW r, r = Append(s, t)
  PROVE  /\ \A i, j \in DOMAIN r : r[i] = r[j] => i = j
         /\ \A u : (\E i \in DOMAIN r : r[i] = u) <=> (\E i \in DOMAIN s : s[i] = u) \/ u = t
<1>1. /\ r \in Seq(Tasks) /\ DOMAIN r = 1..(Len(s) + 1) /\ DOMAIN s = 1..Len(s) /\ Len(s) \in Nat
      /\ r[Len(s) + 1] = t /\ \A i \in DOMAIN s : r[i] = s[i]
  OBVIOUS
<1> QED
  BY <1>1

-----------------------------------------------------------------------------
\* Of producers, workers, queues and output, no two have the same task, and
\* none has it twice.
ProducerSeats ==
  /\ \A p, q \in Producers : ptask[p] = ptask[q] /\ ptask[p] # NoTask => p = q
  /\ \A p \in Producers : ptask[p] # NoTask => /\ ppc[p] = "refused" <=> ptask[p] \in Refused
                                               /\ ptask[p] \notin Async

InHand == {"execute", "output"}
WorkerSeats ==
  \A w, v \in Workers : wpc[w] \in InHand /\ wpc[v] \in InHand /\ wtask[w] = wtask[v] => w = v

LocalSeats ==
  /\ \A w \in Workers : Ordered(local[w])
  /\ \A w, v \in Workers, t \in Tasks : Has(local[w], t) /\ Has(local[v], t) => w = v

OutSeats == \A i, j \in DOMAIN out : out[i] = out[j] => i = j

Seated(t) == Carried(t) \/ InInput(t) \/ InLocal(t) \/ InWorker(t) \/ Leaving(t) \/ Out(t)

\* a task has one seat at most
Alone(t) ==
  /\ Carried(t) => ~ (InInput(t) \/ InLocal(t) \/ InWorker(t) \/ Leaving(t) \/ Out(t))
  /\ InInput(t) => ~ (InLocal(t) \/ InWorker(t) \/ Leaving(t) \/ Out(t))
  /\ InLocal(t) => ~ (InWorker(t) \/ Leaving(t) \/ Out(t))
  /\ InWorker(t) => ~ (Leaving(t) \/ Out(t))
  /\ Leaving(t) => ~ Out(t)

\* the seats its history leaves open to it, and those that it must have
Life(t) ==
  /\ t \in fresh \cup async \cup completed => ~ Seated(t)
  /\ t \in fresh => t \notin async \cup executed \cup completed
  /\ t \in async => t \in Async /\ t \notin executed \cup completed
  /\ InInput(t) \/ InLocal(t) \/ InWorker(t) => t \notin Refused \cup Async
  /\ Carried(t) \/ InInput(t) \/ InLocal(t) \/ InWorker(t) => t \notin executed
  /\ Leaving(t) => t \in executed \cap HasComplete
  /\ Out(t) \/ (t \in completed /\ mpc # "destroyed") => t \in (executed \cap HasComplete) \cup (Refused \ Async)
  /\ t \in executed => t \notin Refused \ Async

Found(t) ==
  /\ t \in fresh \cup async \cup completed \cup executed \/ Seated(t)
  /\ t \in executed \cap HasComplete => Leaving(t) \/ Out(t) \/ t \in completed

TaskInv(t) == Alone(t) /\ Life(t) /\ Found(t)

PoolInv ==
  /\ TypeOK
  /\ ProducerSeats /\ WorkerSeats /\ Ordered(input) /\ LocalSeats /\ OutSeats
  /\ \A t \in Tasks : TaskInv(t)

\* the phase of a task, from its seat
PhaseAt(t) ==
  IF t \in fresh THEN "new"
  ELSE IF t \in completed THEN "completed"
  ELSE IF t \in executed THEN (IF t \in HasComplete THEN "executed" ELSE "retired")
  ELSE IF t \in async THEN "detached"
  ELSE IF t \in Refused \ Async THEN "refused"
  ELSE IF Carried(t) THEN "accepted"
  ELSE IF InInput(t) THEN "queued"
  ELSE IF InLocal(t) THEN "assigned" ELSE "running"

\* A task of a local queue, as Assigned has it.
LEMMA AssignedLocal ==
  ASSUME NEW t
  PROVE  (\E a \in Assigned : local[a[1]][a[2]].task = t) <=> InLocal(t)
<1>1. ASSUME NEW a \in Assigned, local[a[1]][a[2]].task = t PROVE InLocal(t)
  <2>1. a[1] \in Workers /\ a[2] \in DOMAIN local[a[1]]
    BY DEF Assigned
  <2> QED
    BY <1>1, <2>1 DEF InLocal, Has
<1>2. ASSUME NEW w \in Workers, NEW i \in DOMAIN local[w], local[w][i].task = t
      PROVE  \E a \in Assigned : local[a[1]][a[2]].task = t
  <2>1. <<w, i>> \in Assigned
    BY DEF Assigned
  <2>2. local[<<w, i>>[1]][<<w, i>>[2]].task = t
    BY <1>2
  <2> QED
    BY <2>1, <2>2
<1> QED
  BY <1>1, <1>2 DEF InLocal, Has

LEMMA PhaseIsAt ==
  ASSUME NEW t \in Tasks, Carried(t) => t \notin Async
  PROVE  TaskInv(t) => PhaseOf(t) = PhaseAt(t)
<1> SUFFICES ASSUME TaskInv(t) PROVE PhaseOf(t) = PhaseAt(t)
  OBVIOUS
<1>1. /\ (\E p \in Producers : ptask[p] = t) <=> Carried(t)
      /\ (\E i \in DOMAIN input : input[i].task = t) <=> InInput(t)
      /\ (\E a \in Assigned : local[a[1]][a[2]].task = t) <=> InLocal(t)
  BY AssignedLocal DEF InInput, Has, Carried
<1> QED
  BY <1>1 DEF PhaseOf, PhaseAt, TaskInv, Alone, Life, Seated

\* The seat of a task is one.
LEMMA SeatIsOne ==
  ASSUME PoolInv, NEW t \in Tasks
  PROVE  OneSeat(t)
<1> DEFINE P == {p \in Producers : ptask[p] = t}
           I == {i \in DOMAIN input : input[i].task = t}
           L == {a \in Assigned : local[a[1]][a[2]].task = t}
           R == {w \in Workers : wtask[w] = t /\ wpc[w] = "execute"}
           V == {w \in Workers : wtask[w] = t /\ wpc[w] = "output"}
           O == {i \in DOMAIN out : out[i] = t}
<1>0. Alone(t) /\ Life(t)
  BY DEF PoolInv, TaskInv
<1>1. /\ P # {} <=> Carried(t)
      /\ I # {} <=> InInput(t)
      /\ R # {} <=> InWorker(t)
      /\ V # {} <=> Leaving(t)
      /\ O # {} <=> Out(t)
  BY DEF Carried, InInput, Has, InWorker, Leaving, Out
<1>2. L # {} <=> InLocal(t)
  BY AssignedLocal
<1>3. /\ \A a, b \in P : a = b
      /\ \A a, b \in I : a = b
      /\ \A a, b \in R : a = b
      /\ \A a, b \in V : a = b
      /\ \A a, b \in O : a = b
  <2>1. \A a, b \in P : a = b
    BY NullAssumption DEF PoolInv, ProducerSeats
  <2>2. \A a, b \in I : a = b
    BY DEF PoolInv, Ordered
  <2>3. (\A a, b \in R : a = b) /\ (\A a, b \in V : a = b)
    BY DEF PoolInv, WorkerSeats, InHand
  <2>4. \A a, b \in O : a = b
    BY DEF PoolInv, OutSeats
  <2> QED
    BY <2>1, <2>2, <2>3, <2>4
<1>4. \A a, b \in L : a = b
  <2> SUFFICES ASSUME NEW a \in L, NEW b \in L PROVE a = b
    OBVIOUS
  <2>1. /\ a \in Assigned /\ local[a[1]][a[2]].task = t
        /\ b \in Assigned /\ local[b[1]][b[2]].task = t
    OBVIOUS
  <2>2. /\ a[1] \in Workers /\ a[2] \in DOMAIN local[a[1]] /\ a = <<a[1], a[2]>>
        /\ b[1] \in Workers /\ b[2] \in DOMAIN local[b[1]] /\ b = <<b[1], b[2]>>
    BY <2>1 DEF Assigned
  <2>3. Has(local[a[1]], t) /\ Has(local[b[1]], t)
    BY <2>1, <2>2 DEF Has
  <2>4. a[1] = b[1]
    BY <2>2, <2>3 DEF PoolInv, LocalSeats
  <2>5. a[2] = b[2]
    BY <2>1, <2>2, <2>4 DEF PoolInv, LocalSeats, Ordered
  <2> QED
    BY <2>2, <2>4, <2>5
<1>5. Seats(t) = ({"producer"} \X P) \cup ({"input"} \X I) \cup ({"local"} \X L)
                   \cup ({"running"} \X R) \cup ({"leaving"} \X V) \cup ({"out"} \X O)
  BY DEF Seats
<1> HIDE DEF P, I, L, R, V, O
<1>6. \A a \in Seats(t) : /\ a = <<a[1], a[2]>>
                          /\ \/ a[1] = "producer" /\ a[2] \in P /\ Carried(t)
                             \/ a[1] = "input" /\ a[2] \in I /\ InInput(t)
                             \/ a[1] = "local" /\ a[2] \in L /\ InLocal(t)
                             \/ a[1] = "running" /\ a[2] \in R /\ InWorker(t)
                             \/ a[1] = "leaving" /\ a[2] \in V /\ Leaving(t)
                             \/ a[1] = "out" /\ a[2] \in O /\ Out(t)
  BY <1>1, <1>2, <1>5
<1>7. \A a, b \in Seats(t) : a = b
  <2> SUFFICES ASSUME NEW a \in Seats(t), NEW b \in Seats(t) PROVE a[1] = b[1] /\ a[2] = b[2]
    BY <1>6
  <2> QED
    BY <1>0, <1>3, <1>4, <1>6 DEF Alone
<1>8. t \in fresh \cup async \cup completed => Seats(t) = {}
  BY <1>0, <1>6 DEF Life, Seated
<1>9. t \in executed => \A a \in Seats(t) : a[1] \in {"leaving", "out"}
  BY <1>0, <1>6 DEF Life
<1> QED
  BY <1>7, <1>8, <1>9 DEF OneSeat

-----------------------------------------------------------------------------
\* What is where it was.
SeatsStay ==
  \A t \in Tasks : /\ Carried(t)' <=> Carried(t)
                   /\ InInput(t)' <=> InInput(t)
                   /\ InLocal(t)' <=> InLocal(t)
                   /\ InWorker(t)' <=> InWorker(t)
                   /\ Leaving(t)' <=> Leaving(t)
                   /\ Out(t)' <=> Out(t)

\* no worker gets or gives up a task
HandsStay ==
  \A w \in Workers : /\ wpc'[w] = "execute" <=> wpc[w] = "execute"
                     /\ wpc'[w] = "output" <=> wpc[w] = "output"
                     /\ wpc[w] \in InHand => wtask'[w] = wtask[w]

LEMMA CarriedStays ==
  ASSUME ProducerSeats, UNCHANGED ptask,
         \A p \in Producers : ppc'[p] = "refused" <=> ppc[p] = "refused"
  PROVE  ProducerSeats' /\ \A t \in Tasks : Carried(t)' <=> Carried(t)
BY DEF ProducerSeats, Carried

LEMMA HeldStays ==
  ASSUME WorkerSeats, HandsStay
  PROVE  /\ WorkerSeats'
         /\ \A t : InWorker(t)' <=> InWorker(t)
         /\ \A t : Leaving(t)' <=> Leaving(t)
BY DEF WorkerSeats, HandsStay, InHand, InWorker, Leaving

LEMMA InputStays ==
  ASSUME Ordered(input), UNCHANGED input
  PROVE  Ordered(input)' /\ \A t : InInput(t)' <=> InInput(t)
BY DEF Ordered, InInput, Has

LEMMA LocalStays ==
  ASSUME LocalSeats, UNCHANGED local
  PROVE  LocalSeats' /\ \A t : InLocal(t)' <=> InLocal(t)
BY DEF LocalSeats, Ordered, InLocal, Has

LEMMA OutStays ==
  ASSUME OutSeats, UNCHANGED out
  PROVE  OutSeats' /\ \A t : Out(t)' <=> Out(t)
BY DEF OutSeats, Out

\* A producer takes a task in hand, or passes it on.
LEMMA CarriedChange ==
  ASSUME TypeOK, ProducerSeats, NEW p \in Producers, NEW t0 \in Tasks, NEW from, NEW to, At(p, from, to)
  PROVE  /\ /\ ptask[p] = NoTask /\ Carries(p, t0) /\ ~ Carried(t0)
            /\ t0 \notin Async /\ (to = "refused" <=> t0 \in Refused)
            => ProducerSeats' /\ \A t \in Tasks : Carried(t)' <=> Carried(t) \/ t = t0
         /\ ptask[p] = t0 /\ Carries(p, NoTask)
            => ProducerSeats' /\ \A t \in Tasks : Carried(t)' <=> Carried(t) /\ t # t0
<1>0. /\ ppc \in [Producers -> {"idle", "push", "notify", "map", "mapPush", "refused", "refusedNotify"}]
      /\ ptask \in [Producers -> Tasks \cup {NoTask}]
  BY DEF TypeOK, ProducersOK
<1>1. ASSUME ptask[p] = NoTask, Carries(p, t0), ~ Carried(t0), t0 \notin Async, to = "refused" <=> t0 \in Refused
      PROVE  ProducerSeats' /\ \A t \in Tasks : Carried(t)' <=> Carried(t) \/ t = t0
  <2>1. /\ ptask'[p] = t0 /\ ppc'[p] = to
        /\ \A q \in Producers \ {p} : ptask'[q] = ptask[q] /\ ppc'[q] = ppc[q]
    BY <1>0, <1>1 DEF At, Carries
  <2>2. ProducerSeats'
    BY <1>1, <2>1 DEF ProducerSeats, Carried
  <2>3. ASSUME NEW t \in Tasks PROVE Carried(t)' <=> Carried(t) \/ t = t0
    BY <1>1, <2>1, NullAssumption DEF Carried
  <2> QED
    BY <2>2, <2>3
<1>2. ASSUME ptask[p] = t0, Carries(p, NoTask)
      PROVE  ProducerSeats' /\ \A t \in Tasks : Carried(t)' <=> Carried(t) /\ t # t0
  <2>1. /\ ptask'[p] = NoTask
        /\ \A q \in Producers \ {p} : ptask'[q] = ptask[q] /\ ppc'[q] = ppc[q]
    BY <1>0, <1>2 DEF At, Carries
  <2>2. ProducerSeats'
    BY <2>1 DEF ProducerSeats
  <2>3. ASSUME NEW t \in Tasks PROVE Carried(t)' <=> Carried(t) /\ t # t0
    BY <1>2, <2>1, NullAssumption DEF Carried, ProducerSeats
  <2> QED
    BY <2>2, <2>3
<1> QED
  BY <1>1, <1>2

\* A worker takes a task, finishes it, or outputs it.
LEMMA HeldChange ==
  ASSUME TypeOK, WorkerSeats, NEW w \in Workers, NEW t0 \in Tasks, NEW from, NEW to, WorkerAt(w, from, to)
  PROVE  /\ from \notin InHand /\ to = "execute" /\ Holds(w, t0) /\ ~ InWorker(t0) /\ ~ Leaving(t0)
            => WorkerSeats' /\ \A t : (InWorker(t)' <=> InWorker(t) \/ t = t0) /\ (Leaving(t)' <=> Leaving(t))
         /\ from = "execute" /\ wtask[w] = t0 /\ to = "output" /\ UNCHANGED wtask
            => WorkerSeats' /\ \A t : (InWorker(t)' <=> InWorker(t) /\ t # t0) /\ (Leaving(t)' <=> Leaving(t) \/ t = t0)
         /\ from = "execute" /\ wtask[w] = t0 /\ to \notin InHand /\ UNCHANGED wtask
            => WorkerSeats' /\ \A t : (InWorker(t)' <=> InWorker(t) /\ t # t0) /\ (Leaving(t)' <=> Leaving(t))
         /\ from = "output" /\ wtask[w] = t0 /\ to \notin InHand /\ Holds(w, NoTask)
            => WorkerSeats' /\ \A t : (InWorker(t)' <=> InWorker(t)) /\ (Leaving(t)' <=> Leaving(t) /\ t # t0)
<1>0. /\ wpc[w] = from /\ wpc'[w] = to
      /\ \A v \in Workers \ {w} : wpc'[v] = wpc[v]
  BY DEF WorkerAt, TypeOK, WorkersOK
<1>1. ASSUME NEW x, Holds(w, x) PROVE wtask'[w] = x /\ \A v \in Workers \ {w} : wtask'[v] = wtask[v]
  BY <1>1 DEF Holds, TypeOK, WorkersOK
<1>2. ASSUME from \notin InHand, to = "execute", Holds(w, t0), ~ InWorker(t0), ~ Leaving(t0)
      PROVE  WorkerSeats' /\ \A t : (InWorker(t)' <=> InWorker(t) \/ t = t0) /\ (Leaving(t)' <=> Leaving(t))
  BY <1>0, <1>1, <1>2 DEF WorkerSeats, InWorker, Leaving, InHand
<1>3. ASSUME from = "execute", wtask[w] = t0, to = "output", UNCHANGED wtask
      PROVE  WorkerSeats' /\ \A t : (InWorker(t)' <=> InWorker(t) /\ t # t0) /\ (Leaving(t)' <=> Leaving(t) \/ t = t0)
  BY <1>0, <1>3 DEF WorkerSeats, InWorker, Leaving, InHand
<1>4. ASSUME from = "execute", wtask[w] = t0, to \notin InHand, UNCHANGED wtask
      PROVE  WorkerSeats' /\ \A t : (InWorker(t)' <=> InWorker(t) /\ t # t0) /\ (Leaving(t)' <=> Leaving(t))
  BY <1>0, <1>4 DEF WorkerSeats, InWorker, Leaving, InHand
<1>5. ASSUME from = "output", wtask[w] = t0, to \notin InHand, Holds(w, NoTask)
      PROVE  WorkerSeats' /\ \A t : (InWorker(t)' <=> InWorker(t)) /\ (Leaving(t)' <=> Leaving(t) /\ t # t0)
  BY <1>0, <1>1, <1>5 DEF WorkerSeats, InWorker, Leaving, InHand
<1> QED
  BY <1>2, <1>3, <1>4, <1>5

\* A local queue gets a task, or loses one.
LEMMA LocalGain ==
  ASSUME TypeOK, LocalSeats, NEW w \in Workers, NEW t0 \in Tasks, NEW r, Ordered(r),
         local' = [local EXCEPT ![w] = r], ~ InLocal(t0),
         \A t : Has(r, t) <=> Has(local[w], t) \/ t = t0
  PROVE  LocalSeats' /\ \A t : InLocal(t)' <=> InLocal(t) \/ t = t0
<1>0. local'[w] = r /\ \A v \in Workers \ {w} : local'[v] = local[v]
  BY DEF TypeOK, QueuesOK
<1>1. \A v \in Workers : Ordered(local'[v])
  BY <1>0 DEF LocalSeats
<1>2. \A t : InLocal(t) <=> \E v \in Workers : Has(local[v], t)
  BY DEF InLocal
<1>3. \A t : InLocal(t)' <=> \E v \in Workers : Has(local'[v], t)
  BY DEF InLocal, Has
<1>4. LocalSeats' <=> \A v, u \in Workers, t \in Tasks : Has(local'[v], t) /\ Has(local'[u], t) => v = u
  BY <1>1 DEF LocalSeats, Ordered, Has
<1>5. \A v, u \in Workers, t \in Tasks : Has(local[v], t) /\ Has(local[u], t) => v = u
  BY DEF LocalSeats
<1> QED
  BY <1>0, <1>2, <1>3, <1>4, <1>5

LEMMA LocalLoss ==
  ASSUME TypeOK, LocalSeats, NEW w \in Workers, NEW t0 \in Tasks, NEW r, Ordered(r),
         local' = [local EXCEPT ![w] = r], Has(local[w], t0),
         \A t : Has(r, t) <=> Has(local[w], t) /\ t # t0
  PROVE  LocalSeats' /\ \A t \in Tasks : InLocal(t)' <=> InLocal(t) /\ t # t0
<1>0. local'[w] = r /\ \A v \in Workers \ {w} : local'[v] = local[v]
  BY DEF TypeOK, QueuesOK
<1>1. \A v \in Workers : Ordered(local'[v])
  BY <1>0 DEF LocalSeats
<1>2. \A t : InLocal(t) <=> \E v \in Workers : Has(local[v], t)
  BY DEF InLocal
<1>3. \A t : InLocal(t)' <=> \E v \in Workers : Has(local'[v], t)
  BY DEF InLocal, Has
<1>4. LocalSeats' <=> \A v, u \in Workers, t \in Tasks : Has(local'[v], t) /\ Has(local'[u], t) => v = u
  BY <1>1 DEF LocalSeats, Ordered, Has
<1>5. \A v, u \in Workers, t \in Tasks : Has(local[v], t) /\ Has(local[u], t) => v = u
  BY DEF LocalSeats
<1> QED
  BY <1>0, <1>2, <1>3, <1>4, <1>5

\* The step that takes the tasks of S, and no others, to a phase.
Moved(S, to) == \A t \in Tasks : PhaseAt(t)' = IF t \in S THEN to ELSE PhaseAt(t)

\* A step that leaves the tasks, and what has them, alone.
LEMMA NothingMoves ==
  ASSUME PoolInv, mpc # "destroyed", TypeOK', UNCHANGED <<fresh, ptask, input, local, out, async, executed, completed>>,
         HandsStay, \A p \in Producers : ppc'[p] = "refused" <=> ppc[p] = "refused"
  PROVE  PoolInv' /\ Moved({}, "new")
<1>1. ProducerSeats' /\ \A t \in Tasks : Carried(t)' <=> Carried(t)
  BY CarriedStays DEF PoolInv
<1>2. /\ WorkerSeats'
      /\ \A t : InWorker(t)' <=> InWorker(t)
      /\ \A t : Leaving(t)' <=> Leaving(t)
  BY HeldStays DEF PoolInv
<1>3. Ordered(input)' /\ \A t : InInput(t)' <=> InInput(t)
  BY InputStays DEF PoolInv
<1>4. LocalSeats' /\ \A t : InLocal(t)' <=> InLocal(t)
  BY LocalStays DEF PoolInv
<1>5. OutSeats' /\ \A t : Out(t)' <=> Out(t)
  BY OutStays DEF PoolInv
<1>6. ASSUME NEW t \in Tasks PROVE TaskInv(t)' /\ PhaseAt(t)' = PhaseAt(t)
  <2>1. TaskInv(t)
    BY DEF PoolInv
  <2> QED
    BY <2>1, <1>1, <1>2, <1>3, <1>4, <1>5 DEF TaskInv, Alone, Life, Found, Seated, PhaseAt
<1> QED
  BY <1>1, <1>2, <1>3, <1>4, <1>5, <1>6 DEF PoolInv, Moved

\* perform, or an element of perform(Map)
LEMMA TakeMoves ==
  ASSUME PoolInv, mpc # "destroyed", TypeOK', NEW p \in Producers, NEW t0 \in Tasks, NEW from \in {"idle", "map"},
         NEW accepted \in {"push", "mapPush"}, Take(p, t0, from, accepted)
  PROVE  /\ PoolInv' /\ PhaseAt(t0) = "new"
         /\ Moved({t0}, IF t0 \in Refused THEN "refused" ELSE "accepted")
<1>0. TypeOK /\ t0 \in fresh \ Async /\ fresh' = fresh \ {t0} /\ Carries(p, t0)
  BY DEF Take, PoolInv
<1>1. PICK to : At(p, from, to) /\ (to = "refused" <=> t0 \in Refused)
  BY DEF Take
<1>2. ptask[p] = NoTask
  BY <1>0, <1>1 DEF TypeOK, ProducersOK, At
<1>3. TaskInv(t0) /\ ~ Seated(t0)
  BY <1>0 DEF PoolInv, TaskInv, Life
<1>4. ProducerSeats' /\ \A t \in Tasks : Carried(t)' <=> Carried(t) \/ t = t0
  <2>1. ~ Carried(t0)
    BY <1>3 DEF Seated
  <2> QED
    BY <1>0, <1>1, <1>2, <2>1, CarriedChange DEF PoolInv
<1>5. UNCHANGED <<input, local, out, async, executed, completed, wpc, wtask>>
  BY DEF Take, workers, done
<1>6. /\ WorkerSeats'
      /\ \A t : InWorker(t)' <=> InWorker(t)
      /\ \A t : Leaving(t)' <=> Leaving(t)
  BY <1>5, HeldStays DEF PoolInv, HandsStay
<1>7. Ordered(input)' /\ \A t : InInput(t)' <=> InInput(t)
  BY <1>5, InputStays DEF PoolInv
<1>8. LocalSeats' /\ \A t : InLocal(t)' <=> InLocal(t)
  BY <1>5, LocalStays DEF PoolInv
<1>9. OutSeats' /\ \A t : Out(t)' <=> Out(t)
  BY <1>5, OutStays DEF PoolInv
<1>10. ASSUME NEW t \in Tasks PROVE TaskInv(t)' /\ (t # t0 => PhaseAt(t)' = PhaseAt(t))
  <2>1. TaskInv(t)
    BY DEF PoolInv
  <2>2. CASE t = t0
    BY <1>0, <1>3, <1>4, <1>5, <1>6, <1>7, <1>8, <1>9, <2>2
    DEF TaskInv, Alone, Life, Found, Seated
  <2>3. CASE t # t0
    BY <1>0, <1>4, <1>5, <1>6, <1>7, <1>8, <1>9, <2>1, <2>3
    DEF TaskInv, Alone, Life, Found, Seated, PhaseAt
  <2> QED
    BY <2>2, <2>3
<1>11. PhaseAt(t0) = "new" /\ PhaseAt(t0)' = IF t0 \in Refused THEN "refused" ELSE "accepted"
  <2>1. t0 \notin fresh' \cup async' \cup executed' \cup completed'
    BY <1>0, <1>3, <1>5 DEF TaskInv, Life
  <2>2. Carried(t0)' /\ t0 \notin Async
    BY <1>0, <1>4
  <2>3. PhaseAt(t0)' = IF t0 \in Refused THEN "refused" ELSE "accepted"
    BY <2>1, <2>2 DEF PhaseAt
  <2>4. PhaseAt(t0) = "new"
    BY <1>0 DEF PhaseAt
  <2> QED
    BY <2>3, <2>4
<1> QED
  BY <1>4, <1>6, <1>7, <1>8, <1>9, <1>10, <1>11 DEF PoolInv, Moved

\* Into the shared queue, or into that of a worker.
LEMMA PushMoves ==
  ASSUME PoolInv, mpc # "destroyed", TypeOK', NEW p \in Producers, NEW t0, t0 = ptask[p],
         Push(p) \/ MapPush(p)
  PROVE  /\ PoolInv' /\ t0 \in Tasks /\ PhaseAt(t0) = "accepted"
         /\ Moved({t0}, "queued") \/ Moved({t0}, "assigned")
<1>0. /\ ppc[p] \in {"push", "mapPush"} /\ Carries(p, NoTask) /\ TypeOK
      /\ \E from, to : At(p, from, to)
  BY DEF Push, MapPush, At, PoolInv
<1>1. t0 \in Tasks /\ Carried(t0) /\ t0 \notin Refused \cup Async /\ t0 # NoTask
  BY <1>0, NullAssumption DEF TypeOK, ProducersOK, Carried, PoolInv, ProducerSeats
<1>2. TaskInv(t0)
  BY <1>1 DEF PoolInv
<1>3. ~ InInput(t0) /\ ~ InLocal(t0) /\ t0 \notin fresh \cup async \cup executed \cup completed
  BY <1>1, <1>2 DEF TaskInv, Alone, Life, Seated
<1>4. ProducerSeats' /\ \A t \in Tasks : Carried(t)' <=> Carried(t) /\ t # t0
  BY <1>0, <1>1, CarriedChange DEF PoolInv
<1>5. UNCHANGED <<out, async, executed, completed, fresh, wpc, wtask, mpc>>
  BY DEF Push, MapPush, workers, done, owner
<1>6. /\ WorkerSeats'
      /\ \A t : InWorker(t)' <=> InWorker(t)
      /\ \A t : Leaving(t)' <=> Leaving(t)
  BY <1>5, HeldStays DEF PoolInv, HandsStay
<1>7. OutSeats' /\ \A t : Out(t)' <=> Out(t)
  BY <1>5, OutStays DEF PoolInv
<1>8. CASE Push(p)
  <2>1. Ordered(input)' /\ \A t : InInput(t)' <=> InInput(t) \/ t = t0
    <3>1. PICK e \in QEntry : IsPushOf(input', input, e) /\ e.task = t0 /\ e.prio = Prio[t0]
      <4> DEFINE x == Entry(t0, t0 \in Urgent)
      <4>1. x \in QEntry
        <5>1. (t0 \in Urgent) \in BOOLEAN
          OBVIOUS
        <5> QED
          BY <1>1, <5>1, EntryType, Zenon
      <4>2. x.task = t0 /\ x.prio = Prio[t0]
        BY DEF Entry
      <4>3. IsPushOf(input', input, x)
        BY <1>8 DEF Push
      <4> HIDE DEF x
      <4> QED
        BY <4>1, <4>2, <4>3
    <3>3. PICK k \in 0..Len(input) : IsPlaceFor(input, e, k) /\ input' = InsertAt(input, k + 1, e)
      BY <3>1 DEF IsPushOf
    <3>4. input \in Seq(QEntry) /\ Ordered(input)
      BY DEF PoolInv, TypeOK, QueuesOK
    <3>5. Ordered(input') /\ \A t : Has(input', t) <=> Has(input, t) \/ t = t0
      BY <1>3, <3>1, <3>3, <3>4, OrderedPush DEF InInput
    <3> QED
      BY <3>5 DEF InInput, Ordered, Has
  <2>2. LocalSeats' /\ \A t : InLocal(t)' <=> InLocal(t)
    BY <1>8, LocalStays DEF PoolInv, Push
  <2>3. ASSUME NEW t \in Tasks PROVE TaskInv(t)' /\ PhaseAt(t)' = IF t = t0 THEN "queued" ELSE PhaseAt(t)
    <3>1. TaskInv(t)
      BY DEF PoolInv
    <3>2. CASE t = t0
      BY <1>1, <1>2, <1>3, <1>4, <1>5, <1>6, <1>7, <2>1, <2>2, <3>2
      DEF TaskInv, Alone, Life, Found, Seated, PhaseAt
    <3>3. CASE t # t0
      BY <1>4, <1>5, <1>6, <1>7, <2>1, <2>2, <3>1, <3>3
      DEF TaskInv, Alone, Life, Found, Seated, PhaseAt
    <3> QED
      BY <3>2, <3>3
  <2> QED
    BY <1>1, <1>3, <1>4, <1>6, <1>7, <2>1, <2>2, <2>3 DEF PoolInv, Moved, PhaseAt
<1>9. CASE MapPush(p)
  <2>1. Ordered(input)' /\ \A t : InInput(t)' <=> InInput(t)
    BY <1>9, InputStays DEF PoolInv, MapPush
  <2>2. LocalSeats' /\ \A t : InLocal(t)' <=> InLocal(t) \/ t = t0
    <3>0. pkey[p] \in Workers
      BY <1>0, <1>9 DEF MapPush, At, TypeOK, ProducersOK
    <3>1. PICK w \in Workers : w = pkey[p]
      BY <3>0
    <3>2. PICK e \in QEntry : e = Entry(t0, FALSE) /\ e.task = t0 /\ e.prio = Prio[t0]
      BY <1>1, EntryType DEF Entry
    <3>3. PICK k \in 0..Len(local[w]) :
            /\ IsPlaceFor(local[w], e, k)
            /\ local' = [local EXCEPT ![w] = InsertAt(local[w], k + 1, e)]
      BY <1>9, <3>1, <3>2 DEF MapPush, PushLocal
    <3>4. PICK q \in Seq(QEntry) : q = local[w]
      BY DEF PoolInv, TypeOK, QueuesOK
    <3>5. Ordered(q) /\ ~ Has(q, e.task) /\ k \in 0..Len(q) /\ IsPlaceFor(q, e, k) /\ e.prio = Prio[e.task]
      BY <1>3, <3>2, <3>3, <3>4 DEF PoolInv, LocalSeats, InLocal
    <3>6. PICK r : r = InsertAt(q, k + 1, e)
      OBVIOUS
    <3>7. Ordered(r) /\ \A t : Has(r, t) <=> Has(q, t) \/ t = e.task
      BY <3>5, <3>6, OrderedPush
    <3>8. \A t : Has(r, t) <=> Has(local[w], t) \/ t = t0
      BY <3>2, <3>4, <3>7
    <3>9. local' = [local EXCEPT ![w] = r]
      BY <3>3, <3>4, <3>6
    <3>10. TypeOK /\ LocalSeats
      BY DEF PoolInv
    <3> QED
      BY <1>1, <1>3, <3>7, <3>8, <3>9, <3>10, LocalGain
  <2>3. ASSUME NEW t \in Tasks PROVE TaskInv(t)' /\ PhaseAt(t)' = IF t = t0 THEN "assigned" ELSE PhaseAt(t)
    <3>1. TaskInv(t)
      BY DEF PoolInv
    <3>2. CASE t = t0
      BY <1>1, <1>2, <1>3, <1>4, <1>5, <1>6, <1>7, <2>1, <2>2, <3>2
      DEF TaskInv, Alone, Life, Found, Seated, PhaseAt
    <3>3. CASE t # t0
      BY <1>4, <1>5, <1>6, <1>7, <2>1, <2>2, <3>1, <3>3
      DEF TaskInv, Alone, Life, Found, Seated, PhaseAt
    <3> QED
      BY <3>2, <3>3
  <2> QED
    BY <1>1, <1>3, <1>4, <1>6, <1>7, <2>1, <2>2, <2>3 DEF PoolInv, Moved, PhaseAt
<1> QED
  BY <1>8, <1>9

\* A refused task goes to the output.
LEMMA RefusedMoves ==
  ASSUME PoolInv, mpc # "destroyed", TypeOK', NEW p \in Producers, OnMainThread(p)
  PROVE  PoolInv' /\ Moved({}, "new")
<1> DEFINE t0 == ptask[p]
<1>0. ppc[p] = "refused" /\ Carries(p, NoTask) /\ TypeOK /\ \E from, to : At(p, from, to)
  BY DEF OnMainThread, At, PoolInv
<1>1. t0 \in Tasks /\ Carried(t0) /\ t0 \in Refused \ Async /\ t0 # NoTask
  BY <1>0, NullAssumption DEF TypeOK, ProducersOK, Carried, PoolInv, ProducerSeats
<1> HIDE DEF t0
<1>2. TaskInv(t0)
  BY <1>1 DEF PoolInv
<1>3. ~ Out(t0) /\ ~ Leaving(t0) /\ t0 \notin fresh \cup async \cup executed \cup completed
  BY <1>1, <1>2 DEF TaskInv, Alone, Life, Seated
<1>4. ProducerSeats' /\ \A t \in Tasks : Carried(t)' <=> Carried(t) /\ t # t0
  BY <1>0, <1>1, CarriedChange DEF PoolInv, t0
<1>5. UNCHANGED <<input, local, async, executed, completed, fresh, wpc, wtask, mpc>>
  BY DEF OnMainThread, workers, done, owner
<1>6. /\ WorkerSeats'
      /\ \A t : InWorker(t)' <=> InWorker(t)
      /\ \A t : Leaving(t)' <=> Leaving(t)
  BY <1>5, HeldStays DEF PoolInv, HandsStay
<1>7. OutSeats' /\ \A t : Out(t)' <=> Out(t) \/ t = t0
  <2>1. out' = Append(out, t0)
    BY DEF OnMainThread, t0
  <2>2. out \in Seq(Tasks) /\ (\A i, j \in DOMAIN out : out[i] = out[j] => i = j) /\ \A i \in DOMAIN out : out[i] # t0
    BY <1>3 DEF PoolInv, TypeOK, QueuesOK, OutSeats, Out
  <2>3. /\ \A i, j \in DOMAIN out' : out'[i] = out'[j] => i = j
        /\ \A u : (\E i \in DOMAIN out' : out'[i] = u) <=> (\E i \in DOMAIN out : out[i] = u) \/ u = t0
    BY <1>1, <2>1, <2>2, AppendOnce
  <2> QED
    BY <2>3 DEF OutSeats, Out
<1>8. Ordered(input)' /\ \A t : InInput(t)' <=> InInput(t)
  BY <1>5, InputStays DEF PoolInv
<1>9. LocalSeats' /\ \A t : InLocal(t)' <=> InLocal(t)
  BY <1>5, LocalStays DEF PoolInv
<1>10. ASSUME NEW t \in Tasks PROVE TaskInv(t)' /\ PhaseAt(t)' = PhaseAt(t)
  <2>1. TaskInv(t)
    BY DEF PoolInv
  <2>2. CASE t = t0
    BY <1>1, <1>2, <1>3, <1>4, <1>5, <1>6, <1>7, <1>8, <1>9, <2>2
    DEF TaskInv, Alone, Life, Found, Seated, PhaseAt
  <2>3. CASE t # t0
    BY <1>4, <1>5, <1>6, <1>7, <1>8, <1>9, <2>1, <2>3
    DEF TaskInv, Alone, Life, Found, Seated, PhaseAt
  <2> QED
    BY <2>2, <2>3
<1> QED
  BY <1>4, <1>6, <1>7, <1>8, <1>9, <1>10 DEF PoolInv, Moved

\* What stays when producers and workers hold what they held.
LEMMA ThreadsStay ==
  ASSUME PoolInv, UNCHANGED <<ppc, ptask>>, HandsStay
  PROVE  /\ ProducerSeats' /\ WorkerSeats'
         /\ \A t \in Tasks : /\ Carried(t)' <=> Carried(t)
                             /\ InWorker(t)' <=> InWorker(t)
                             /\ Leaving(t)' <=> Leaving(t)
BY CarriedStays, HeldStays DEF PoolInv

LEMMA QueuesStay ==
  ASSUME PoolInv, UNCHANGED <<input, local>>
  PROVE  /\ Ordered(input)' /\ LocalSeats'
         /\ \A t \in Tasks : /\ InInput(t)' <=> InInput(t)
                             /\ InLocal(t)' <=> InLocal(t)
BY InputStays, LocalStays DEF PoolInv

\* performAsync, and its thread
LEMMA DetachMoves ==
  ASSUME PoolInv, mpc # "destroyed", TypeOK', NEW t0 \in Tasks, PerformAsync(t0)
  PROVE  PoolInv' /\ PhaseAt(t0) = "new" /\ Moved({t0}, "detached")
<1>0. /\ t0 \in fresh \cap Async /\ fresh' = fresh \ {t0} /\ async' = async \cup {t0}
      /\ UNCHANGED <<ppc, ptask, input, local, out, wpc, wtask, executed, completed, mpc>>
  BY DEF PerformAsync, workers, done, owner
<1>1. /\ ProducerSeats' /\ WorkerSeats'
      /\ \A t \in Tasks : (Carried(t)' <=> Carried(t)) /\ (InWorker(t)' <=> InWorker(t)) /\ (Leaving(t)' <=> Leaving(t))
  BY <1>0, ThreadsStay DEF HandsStay
<1>2. /\ Ordered(input)' /\ LocalSeats'
      /\ \A t \in Tasks : (InInput(t)' <=> InInput(t)) /\ (InLocal(t)' <=> InLocal(t))
  BY <1>0, QueuesStay
<1>3. OutSeats' /\ \A t : Out(t)' <=> Out(t)
  BY <1>0, OutStays DEF PoolInv
<1>4. ASSUME NEW t \in Tasks PROVE TaskInv(t)' /\ PhaseAt(t)' = IF t = t0 THEN "detached" ELSE PhaseAt(t)
  <2>1. TaskInv(t)
    BY DEF PoolInv
  <2>2. CASE t = t0
    BY <1>0, <1>1, <1>2, <1>3, <2>1, <2>2 DEF TaskInv, Alone, Life, Found, Seated, PhaseAt
  <2>3. CASE t # t0
    BY <1>0, <1>1, <1>2, <1>3, <2>1, <2>3 DEF TaskInv, Alone, Life, Found, Seated, PhaseAt
  <2> QED
    BY <2>2, <2>3
<1> QED
  BY <1>0, <1>1, <1>2, <1>3, <1>4 DEF PoolInv, Moved, PhaseAt

\* Of a task that ran, with and without complete functions.
Ran(t) == IF t \in HasComplete THEN "executed" ELSE "retired"

LEMMA AsyncMoves ==
  ASSUME PoolInv, mpc # "destroyed", TypeOK', NEW t0 \in Tasks, AsyncRun(t0)
  PROVE  PoolInv' /\ PhaseAt(t0) = "detached" /\ Moved({t0}, Ran(t0))
<1>0. /\ t0 \in async /\ async' = async \ {t0} /\ executed' = executed \cup {t0}
      /\ UNCHANGED <<fresh, ppc, ptask, input, local, wpc, wtask, completed>>
      /\ mpc' # "destroyed"
  BY DEF AsyncRun, producers, workers, owner, WakeOwner, NotifyOwner
<1>1. /\ ProducerSeats' /\ WorkerSeats'
      /\ \A t \in Tasks : (Carried(t)' <=> Carried(t)) /\ (InWorker(t)' <=> InWorker(t)) /\ (Leaving(t)' <=> Leaving(t))
  BY <1>0, ThreadsStay DEF HandsStay
<1>2. /\ Ordered(input)' /\ LocalSeats'
      /\ \A t \in Tasks : (InInput(t)' <=> InInput(t)) /\ (InLocal(t)' <=> InLocal(t))
  BY <1>0, QueuesStay
<1>3. TaskInv(t0)
  BY DEF PoolInv
<1>4. t0 \notin fresh \cup executed \cup completed /\ t0 \in Async /\ ~ Seated(t0)
  BY <1>0, <1>3 DEF TaskInv, Life
<1>5. OutSeats' /\ \A t \in Tasks : Out(t)' <=> Out(t) \/ (t = t0 /\ t0 \in HasComplete)
  <2>1. CASE t0 \in HasComplete
    <3>1. out' = Append(out, t0)
      BY <2>1 DEF AsyncRun
    <3>2. out \in Seq(Tasks) /\ (\A i, j \in DOMAIN out : out[i] = out[j] => i = j) /\ \A i \in DOMAIN out : out[i] # t0
      BY <1>4 DEF PoolInv, TypeOK, QueuesOK, OutSeats, Out, Seated
    <3>3. /\ \A i, j \in DOMAIN out' : out'[i] = out'[j] => i = j
          /\ \A u : (\E i \in DOMAIN out' : out'[i] = u) <=> (\E i \in DOMAIN out : out[i] = u) \/ u = t0
      BY <3>1, <3>2, AppendOnce
    <3> QED
      BY <2>1, <3>3 DEF OutSeats, Out
  <2>2. CASE t0 \notin HasComplete
    <3>1. UNCHANGED out
      BY <2>2 DEF AsyncRun
    <3> QED
      BY <2>2, <3>1, OutStays DEF PoolInv
  <2> QED
    BY <2>1, <2>2
<1>6. ASSUME NEW t \in Tasks PROVE TaskInv(t)' /\ PhaseAt(t)' = IF t = t0 THEN Ran(t0) ELSE PhaseAt(t)
  <2>1. TaskInv(t)
    BY DEF PoolInv
  <2>2. CASE t = t0
    BY <1>0, <1>1, <1>2, <1>3, <1>4, <1>5, <2>2 DEF TaskInv, Alone, Life, Found, Seated, PhaseAt, Ran
  <2>3. CASE t # t0
    <3>1. /\ Carried(t)' <=> Carried(t)
          /\ InInput(t)' <=> InInput(t)
          /\ InLocal(t)' <=> InLocal(t)
          /\ InWorker(t)' <=> InWorker(t)
          /\ Leaving(t)' <=> Leaving(t)
          /\ Out(t)' <=> Out(t)
      BY <1>1, <1>2, <1>5, <2>3
    <3>2. /\ t \in async' <=> t \in async
          /\ t \in executed' <=> t \in executed
      BY <1>0, <2>3
    <3> QED
      BY <1>0, <2>1, <2>3, <3>1, <3>2 DEF TaskInv, Alone, Life, Found, Seated, PhaseAt
  <2> QED
    BY <2>2, <2>3
<1> QED
  BY <1>0, <1>1, <1>2, <1>4, <1>5, <1>6 DEF PoolInv, Moved, PhaseAt

\* Out of the shared queue, or of the worker's own, into its hands.
LEMMA PopMoves ==
  ASSUME PoolInv, mpc # "destroyed", TypeOK', NEW w \in Workers,
         (PopLocal(w) /\ local[w] # <<>>) \/ (PopTask(w) /\ input # <<>>)
  PROVE  \E t0 \in Tasks :
           /\ PoolInv' /\ Moved({t0}, "running")
           /\ \/ PhaseAt(t0) = "queued" /\ \A t \in Tasks : PhaseAt(t) = "queued" => Prio[t0] <= Prio[t]
              \/ PhaseAt(t0) = "assigned"
<1>0. UNCHANGED <<fresh, ppc, ptask, out, async, executed, completed, mpc>> /\ TypeOK
  BY DEF PopLocal, PopTask, producers, done, owner, PoolInv
<1>1. ProducerSeats' /\ \A t \in Tasks : Carried(t)' <=> Carried(t)
  BY <1>0, CarriedStays DEF PoolInv
<1>2. OutSeats' /\ \A t : Out(t)' <=> Out(t)
  BY <1>0, OutStays DEF PoolInv
<1>3. CASE PopTask(w) /\ input # <<>>
  <2>1. PICK s \in Seq(QEntry) : s = input
    BY DEF PoolInv, TypeOK, QueuesOK
  <2>2. s # <<>> /\ Ordered(s) /\ input' = Tail(s)
    BY <1>3, <2>1 DEF PoolInv, PopTask
  <2>3. PICK t0 \in Tasks : t0 = Head(s).task
    BY <2>2, OrderedPop
  <2>4. /\ Ordered(Tail(s)) /\ Has(s, t0)
        /\ \A t : Has(Tail(s), t) <=> Has(s, t) /\ t # t0
        /\ \A t : Has(s, t) => Prio[t0] <= Prio[t]
    BY <2>2, <2>3, OrderedPop
  <2>5. Ordered(input)' /\ \A t : InInput(t)' <=> InInput(t) /\ t # t0
    BY <2>1, <2>2, <2>4 DEF Ordered, InInput, Has
  <2>6. InInput(t0) /\ TaskInv(t0)
    BY <2>1, <2>4 DEF InInput, PoolInv
  <2>7. LocalSeats' /\ \A t : InLocal(t)' <=> InLocal(t)
    BY <1>3, LocalStays DEF PoolInv, PopTask
  <2>8. WorkerSeats' /\ \A t : (InWorker(t)' <=> InWorker(t) \/ t = t0) /\ (Leaving(t)' <=> Leaving(t))
    <3>1. WorkerAt(w, "pop", "execute") /\ Holds(w, t0)
      BY <1>3, <2>1, <2>3 DEF PopTask, PopFrom
    <3>2. ~ InWorker(t0) /\ ~ Leaving(t0)
      BY <2>6 DEF TaskInv, Alone
    <3>3. WorkerSeats
      BY DEF PoolInv
    <3> QED
      BY <1>0, <3>1, <3>2, <3>3, HeldChange DEF InHand
  <2>9. ASSUME NEW t \in Tasks PROVE TaskInv(t)' /\ PhaseAt(t)' = IF t = t0 THEN "running" ELSE PhaseAt(t)
    <3>1. TaskInv(t)
      BY DEF PoolInv
    <3>2. CASE t = t0
      BY <1>0, <1>1, <1>2, <2>5, <2>6, <2>7, <2>8, <3>2
      DEF TaskInv, Alone, Life, Found, Seated, PhaseAt
    <3>3. CASE t # t0
      BY <1>0, <1>1, <1>2, <2>5, <2>7, <2>8, <3>1, <3>3
      DEF TaskInv, Alone, Life, Found, Seated, PhaseAt
    <3> QED
      BY <3>2, <3>3
  <2>10. PhaseAt(t0) = "queued"
    BY <2>6 DEF TaskInv, Alone, Life, Seated, PhaseAt
  <2>11. ASSUME NEW t \in Tasks, PhaseAt(t) = "queued" PROVE Prio[t0] <= Prio[t]
    <3>1. InInput(t)
      BY <2>11 DEF PhaseAt
    <3> QED
      BY <2>1, <2>4, <3>1 DEF InInput
  <2> QED
    BY <1>1, <1>2, <2>5, <2>7, <2>8, <2>9, <2>10, <2>11 DEF PoolInv, Moved
<1>4. CASE PopLocal(w) /\ local[w] # <<>>
  <2>1. PICK s \in Seq(QEntry) : s = local[w]
    BY DEF PoolInv, TypeOK, QueuesOK
  <2>2. s # <<>> /\ Ordered(s) /\ local' = [local EXCEPT ![w] = Tail(s)]
    BY <1>4, <2>1 DEF PoolInv, LocalSeats, PopLocal
  <2>3. PICK t0 \in Tasks : t0 = Head(s).task
    BY <2>2, OrderedPop
  <2>4. /\ Ordered(Tail(s)) /\ Has(s, t0)
        /\ \A t : Has(Tail(s), t) <=> Has(s, t) /\ t # t0
    BY <2>2, <2>3, OrderedPop
  <2>5. LocalSeats' /\ \A t \in Tasks : InLocal(t)' <=> InLocal(t) /\ t # t0
    <3>1. PICK r : r = Tail(s)
      OBVIOUS
    <3>2. Ordered(r) /\ local' = [local EXCEPT ![w] = r] /\ Has(local[w], t0)
      BY <2>1, <2>2, <2>4, <3>1
    <3>3. \A t : Has(r, t) <=> Has(local[w], t) /\ t # t0
      BY <2>1, <2>4, <3>1
    <3>4. LocalSeats
      BY DEF PoolInv
    <3> QED
      BY <1>0, <3>2, <3>3, <3>4, LocalLoss
  <2>6. InLocal(t0) /\ TaskInv(t0)
    BY <2>1, <2>4 DEF InLocal, PoolInv
  <2>7. Ordered(input)' /\ \A t : InInput(t)' <=> InInput(t)
    BY <1>4, InputStays DEF PoolInv, PopLocal
  <2>8. WorkerSeats' /\ \A t : (InWorker(t)' <=> InWorker(t) \/ t = t0) /\ (Leaving(t)' <=> Leaving(t))
    <3>1. WorkerAt(w, "popLocal", "execute") /\ Holds(w, t0)
      BY <1>4, <2>1, <2>3 DEF PopLocal, PopFrom
    <3>2. ~ InWorker(t0) /\ ~ Leaving(t0)
      BY <2>6 DEF TaskInv, Alone
    <3>3. WorkerSeats
      BY DEF PoolInv
    <3> QED
      BY <1>0, <3>1, <3>2, <3>3, HeldChange DEF InHand
  <2>9. ASSUME NEW t \in Tasks PROVE TaskInv(t)' /\ PhaseAt(t)' = IF t = t0 THEN "running" ELSE PhaseAt(t)
    <3>1. TaskInv(t)
      BY DEF PoolInv
    <3>2. CASE t = t0
      BY <1>0, <1>1, <1>2, <2>5, <2>6, <2>7, <2>8, <3>2
      DEF TaskInv, Alone, Life, Found, Seated, PhaseAt
    <3>3. CASE t # t0
      BY <1>0, <1>1, <1>2, <2>5, <2>7, <2>8, <3>1, <3>3
      DEF TaskInv, Alone, Life, Found, Seated, PhaseAt
    <3> QED
      BY <3>2, <3>3
  <2>10. PhaseAt(t0) = "assigned"
    BY <2>6 DEF TaskInv, Alone, Life, Seated, PhaseAt
  <2> QED
    BY <1>1, <1>2, <2>5, <2>7, <2>8, <2>9, <2>10 DEF PoolInv, Moved
<1> QED
  BY <1>3, <1>4

\* A task that its worker executes.
LEMMA ExecuteMoves ==
  ASSUME PoolInv, mpc # "destroyed", TypeOK', NEW w \in Workers, Execute(w)
  PROVE  \E t0 \in Tasks : PoolInv' /\ PhaseAt(t0) = "running" /\ Moved({t0}, Ran(t0))
<1>0. /\ wpc[w] = "execute" /\ executed' = executed \cup {wtask[w]} /\ TypeOK
      /\ UNCHANGED <<fresh, ppc, ptask, input, local, out, async, wtask, completed, mpc>>
  BY DEF Execute, WorkerAt, producers, queues, owner, PoolInv
<1>1. PICK t0 \in Tasks : t0 = wtask[w]
  BY <1>0 DEF TypeOK, WorkersOK
<1>2. InWorker(t0) /\ TaskInv(t0)
  BY <1>0, <1>1 DEF InWorker, PoolInv
<1>3. ProducerSeats' /\ \A t \in Tasks : Carried(t)' <=> Carried(t)
  BY <1>0, CarriedStays DEF PoolInv
<1>4. /\ Ordered(input)' /\ LocalSeats'
      /\ \A t \in Tasks : (InInput(t)' <=> InInput(t)) /\ (InLocal(t)' <=> InLocal(t))
  BY <1>0, QueuesStay
<1>5. OutSeats' /\ \A t : Out(t)' <=> Out(t)
  BY <1>0, OutStays DEF PoolInv
<1>6. /\ WorkerSeats'
      /\ \A t : InWorker(t)' <=> InWorker(t) /\ t # t0
      /\ \A t : Leaving(t)' <=> Leaving(t) \/ (t = t0 /\ t0 \in HasComplete)
  <2>0. WorkerSeats
    BY DEF PoolInv
  <2>1. CASE t0 \in HasComplete
    <3>1. WorkerAt(w, "execute", "output")
      BY <1>1, <2>1 DEF Execute
    <3> QED
      BY <1>0, <1>1, <2>0, <2>1, <3>1, HeldChange
  <2>2. CASE t0 \notin HasComplete
    <3>1. PICK to \in {"notifyWait", "count"} : WorkerAt(w, "execute", to)
      BY <1>1, <2>2 DEF Execute
    <3>2. to \notin InHand
      BY DEF InHand
    <3> QED
      BY <1>0, <1>1, <2>0, <2>2, <3>1, <3>2, HeldChange
  <2> QED
    BY <2>1, <2>2
<1>7. t0 \notin fresh \cup executed \cup completed \cup async \cup Refused
  BY <1>2 DEF TaskInv, Life, Seated
<1>8. ASSUME NEW t \in Tasks PROVE TaskInv(t)' /\ PhaseAt(t)' = IF t = t0 THEN Ran(t0) ELSE PhaseAt(t)
  <2>1. TaskInv(t)
    BY DEF PoolInv
  <2>2. CASE t = t0
    BY <1>0, <1>1, <1>2, <1>3, <1>4, <1>5, <1>6, <1>7, <2>2 DEF TaskInv, Alone, Life, Found, Seated, PhaseAt, Ran
  <2>3. CASE t # t0
    <3>1. t \in executed' <=> t \in executed
      BY <1>0, <1>1, <2>3
    <3> QED
      BY <1>0, <1>3, <1>4, <1>5, <1>6, <2>1, <2>3, <3>1 DEF TaskInv, Alone, Life, Found, Seated, PhaseAt
  <2> QED
    BY <2>2, <2>3
<1>9. PhaseAt(t0) = "running"
  BY <1>2, <1>7 DEF TaskInv, Alone, PhaseAt
<1> QED
  BY <1>3, <1>4, <1>5, <1>6, <1>8, <1>9 DEF PoolInv, Moved

\* An executed task goes to the output.
LEMMA OutputMoves ==
  ASSUME PoolInv, mpc # "destroyed", TypeOK', NEW w \in Workers, Output(w)
  PROVE  PoolInv' /\ Moved({}, "new")
<1>0. /\ wpc[w] = "output" /\ Holds(w, NoTask) /\ TypeOK
      /\ UNCHANGED <<fresh, ppc, ptask, input, local, async, executed, completed, mpc>>
  BY DEF Output, WorkerAt, producers, done, owner, PoolInv
<1>1. PICK t0 \in Tasks : t0 = wtask[w]
  BY <1>0 DEF TypeOK, WorkersOK
<1>2. Leaving(t0) /\ TaskInv(t0)
  BY <1>0, <1>1 DEF Leaving, PoolInv
<1>3. ProducerSeats' /\ \A t \in Tasks : Carried(t)' <=> Carried(t)
  BY <1>0, CarriedStays DEF PoolInv
<1>4. /\ Ordered(input)' /\ LocalSeats'
      /\ \A t \in Tasks : (InInput(t)' <=> InInput(t)) /\ (InLocal(t)' <=> InLocal(t))
  BY <1>0, QueuesStay
<1>5. OutSeats' /\ \A t : Out(t)' <=> Out(t) \/ t = t0
  <2>1. out' = Append(out, t0)
    BY <1>1 DEF Output
  <2>2. ~ Out(t0)
    BY <1>2 DEF TaskInv, Alone
  <2>3. out \in Seq(Tasks) /\ (\A i, j \in DOMAIN out : out[i] = out[j] => i = j) /\ \A i \in DOMAIN out : out[i] # t0
    BY <2>2 DEF PoolInv, TypeOK, QueuesOK, OutSeats, Out
  <2>4. /\ \A i, j \in DOMAIN out' : out'[i] = out'[j] => i = j
        /\ \A u : (\E i \in DOMAIN out' : out'[i] = u) <=> (\E i \in DOMAIN out : out[i] = u) \/ u = t0
    BY <2>1, <2>3, AppendOnce
  <2> QED
    BY <2>4 DEF OutSeats, Out
<1>6. WorkerSeats' /\ \A t : (InWorker(t)' <=> InWorker(t)) /\ (Leaving(t)' <=> Leaving(t) /\ t # t0)
  <2>1. PICK to \in {"notifyWait", "count"} : WorkerAt(w, "output", to)
    BY DEF Output
  <2>2. to \notin InHand
    BY DEF InHand
  <2>3. WorkerSeats
    BY DEF PoolInv
  <2> QED
    BY <1>0, <1>1, <2>1, <2>2, <2>3, HeldChange
<1>7. ASSUME NEW t \in Tasks PROVE TaskInv(t)' /\ PhaseAt(t)' = PhaseAt(t)
  <2>1. TaskInv(t)
    BY DEF PoolInv
  <2>2. CASE t = t0
    BY <1>0, <1>2, <1>3, <1>4, <1>5, <1>6, <2>2 DEF TaskInv, Alone, Life, Found, Seated, PhaseAt
  <2>3. CASE t # t0
    BY <1>0, <1>3, <1>4, <1>5, <1>6, <2>1, <2>3 DEF TaskInv, Alone, Life, Found, Seated, PhaseAt
  <2> QED
    BY <2>2, <2>3
<1> QED
  BY <1>3, <1>4, <1>5, <1>6, <1>7 DEF PoolInv, Moved

\* update(), alone or in a wait
LEMMA CollectMoves ==
  ASSUME PoolInv, mpc # "destroyed", TypeOK', NEW from, NEW to, Collects(from, to)
  PROVE  /\ PoolInv' /\ Moved({t \in Tasks : Out(t)}, "completed")
         /\ \A t \in Tasks : Out(t) => PhaseAt(t) \in {"executed", "refused"}
<1>0. /\ out' = <<>> /\ TypeOK
      /\ UNCHANGED <<fresh, ppc, ptask, input, local, async, wpc, wtask, executed>>
  BY DEF Collects, producers, workers, PoolInv
<1>1. \A t : t \in completed' <=> t \in completed \/ Out(t)
  BY DEF Collects, Range, Out
<1>2. /\ ProducerSeats' /\ WorkerSeats'
      /\ \A t \in Tasks : (Carried(t)' <=> Carried(t)) /\ (InWorker(t)' <=> InWorker(t)) /\ (Leaving(t)' <=> Leaving(t))
  BY <1>0, ThreadsStay DEF HandsStay
<1>3. /\ Ordered(input)' /\ LocalSeats'
      /\ \A t \in Tasks : (InInput(t)' <=> InInput(t)) /\ (InLocal(t)' <=> InLocal(t))
  BY <1>0, QueuesStay
<1>4. OutSeats' /\ \A t : ~ Out(t)'
  BY <1>0 DEF OutSeats, Out
<1>5. ASSUME NEW t \in Tasks
      PROVE  /\ TaskInv(t)' /\ PhaseAt(t)' = IF Out(t) THEN "completed" ELSE PhaseAt(t)
             /\ Out(t) => PhaseAt(t) \in {"executed", "refused"}
  <2>1. TaskInv(t)
    BY DEF PoolInv
  <2>2. CASE Out(t)
    BY <1>0, <1>1, <1>2, <1>3, <1>4, <2>1, <2>2 DEF TaskInv, Alone, Life, Found, Seated, PhaseAt
  <2>3. CASE ~ Out(t)
    BY <1>0, <1>1, <1>2, <1>3, <1>4, <2>1, <2>3 DEF TaskInv, Alone, Life, Found, Seated, PhaseAt
  <2> QED
    BY <2>2, <2>3
<1> QED
  BY <1>2, <1>3, <1>4, <1>5 DEF PoolInv, Moved

\* ~TaskQueue without a context
LEMMA DestroyMoves ==
  ASSUME PoolInv, mpc # "destroyed", TypeOK', Destroy
  PROVE  /\ PoolInv' /\ \A t \in Tasks : PhaseAt(t) \notin {"accepted", "running"}
         /\ Moved({t \in Tasks : PhaseAt(t) \in {"queued", "executed", "refused"}}, "completed")
<1>0. /\ out' = <<>> /\ input' = <<>> /\ mpc' = "destroyed" /\ TypeOK
      /\ UNCHANGED <<fresh, ppc, ptask, local, async, wpc, wtask, executed>>
  BY DEF Destroy, OwnerAt, producers, workers, PoolInv
<1>1. \A t : t \in completed' <=> t \in completed \/ Out(t) \/ InInput(t)
  BY DEF Destroy, Range, Out, InInput, Has
<1>2. /\ ProducerSeats' /\ WorkerSeats'
      /\ \A t \in Tasks : (Carried(t)' <=> Carried(t)) /\ (InWorker(t)' <=> InWorker(t)) /\ (Leaving(t)' <=> Leaving(t))
  BY <1>0, ThreadsStay DEF HandsStay
<1>3. LocalSeats' /\ \A t : InLocal(t)' <=> InLocal(t)
  BY <1>0, LocalStays DEF PoolInv
<1>4. OutSeats' /\ Ordered(input)' /\ \A t : ~ Out(t)' /\ ~ InInput(t)'
  BY <1>0 DEF OutSeats, Out, Ordered, InInput, Has
<1>5. \A t \in Tasks : ~ Carried(t)
  BY NullAssumption DEF Destroy, ProducersDone, PoolInv, TypeOK, ProducersOK, Carried
<1>6. \A t : ~ InWorker(t) /\ ~ Leaving(t)
  BY <1>0 DEF Destroy, TypeOK, WorkersOK, InWorker, Leaving
<1>7. ASSUME NEW t \in Tasks
      PROVE  /\ TaskInv(t)' /\ PhaseAt(t) \notin {"accepted", "running"}
             /\ PhaseAt(t)' = IF PhaseAt(t) \in {"queued", "executed", "refused"} THEN "completed" ELSE PhaseAt(t)
  <2>1. TaskInv(t)
    BY DEF PoolInv
  <2>2. TaskInv(t)'
    BY <1>0, <1>1, <1>2, <1>3, <1>4, <1>5, <1>6, <2>1 DEF TaskInv, Alone, Life, Found, Seated
  <2>3. PhaseAt(t) \notin {"accepted", "running"}
    BY <1>5, <1>6, <2>1 DEF TaskInv, Alone, Life, Found, Seated, PhaseAt
  <2>4. Out(t) \/ InInput(t) <=> PhaseAt(t) \in {"queued", "executed", "refused"}
    BY <1>5, <1>6, <2>1 DEF TaskInv, Alone, Life, Found, Seated, PhaseAt
  <2>5. CASE Out(t) \/ InInput(t)
    <3>1. t \in completed' /\ t \notin fresh'
      BY <1>0, <1>1, <2>1, <2>5 DEF TaskInv, Life, Seated
    <3> QED
      BY <2>2, <2>3, <2>4, <2>5, <3>1 DEF PhaseAt
  <2>6. CASE ~ (Out(t) \/ InInput(t))
    BY <1>0, <1>1, <1>2, <1>3, <1>4, <2>2, <2>3, <2>4, <2>6 DEF PhaseAt
  <2> QED
    BY <2>5, <2>6
<1> QED
  BY <1>2, <1>3, <1>4, <1>7 DEF PoolInv, Moved

\* Workers outside of their tasks.
LEMMA HandsOf ==
  ASSUME TypeOK, NEW w \in Workers, NEW from, NEW to, WorkerAt(w, from, to),
         from \notin InHand, to \notin InHand, UNCHANGED wtask \/ Holds(w, NoTask)
  PROVE  HandsStay
BY DEF TypeOK, WorkersOK, WorkerAt, InHand, Holds, HandsStay

LEMMA HandsWoken ==
  ASSUME TypeOK, UNCHANGED wtask, UNCHANGED wpc \/ Notify \/ NotifyAll
  PROVE  HandsStay
<1>0. AfterWait \in {"null", "check"}
  BY DEF AfterWait
<1>1. CASE UNCHANGED wpc
  BY <1>1 DEF HandsStay
<1>2. ASSUME NEW W \in SUBSET Sleeping, wpc' = Woken(W) PROVE HandsStay
  BY <1>0, <1>2 DEF HandsStay, Woken, Sleeping, InHand
<1>3. \A w \in Sleeping : {w} \in SUBSET Sleeping
  OBVIOUS
<1> QED
  BY <1>1, <1>2, <1>3 DEF Notify, NotifyAll

LEMMA ProducerNothing ==
  ASSUME PoolInv, mpc # "destroyed", TypeOK', NEW p \in Producers,
         PushNotify(p) \/ MapEnd(p) \/ RefusedNotify(p) \/ \E k \in MapKeys : MapKey(p, k)
  PROVE  PoolInv' /\ Moved({}, "new")
<1>0. TypeOK
  BY DEF PoolInv
<1>1. UNCHANGED <<fresh, ptask, input, local, out, async, executed, completed, wtask>>
  BY DEF PushNotify, MapEnd, RefusedNotify, MapKey, queues, workers, done
<1>2. UNCHANGED wpc \/ Notify \/ NotifyAll
  BY DEF PushNotify, MapEnd, RefusedNotify, MapKey, workers
<1>3. HandsStay
  BY <1>0, <1>1, <1>2, HandsWoken
<1>4. \E from, to : At(p, from, to) /\ from # "refused" /\ to # "refused"
  BY DEF PushNotify, MapEnd, RefusedNotify, MapKey
<1>5. \A q \in Producers : ppc'[q] = "refused" <=> ppc[q] = "refused"
  BY <1>0, <1>4 DEF At, TypeOK, ProducersOK
<1> QED
  BY <1>1, <1>3, <1>5, NothingMoves

LEMMA WorkerNothing ==
  ASSUME PoolInv, mpc # "destroyed", TypeOK', NEW w \in Workers,
         \/ ThreadInit(w) \/ CheckQuit(w) \/ Lock(w) \/ Wait(w) \/ SpuriousWakeup(w)
         \/ NotifyWait(w) \/ CountDown(w)
         \/ PopLocal(w) /\ local[w] = <<>>
         \/ PopTask(w) /\ input = <<>>
  PROVE  PoolInv' /\ Moved({}, "new")
<1>0. TypeOK
  BY DEF PoolInv
<1>1. /\ UNCHANGED <<fresh, ppc, ptask, input, local, out, async, executed, completed>>
      /\ UNCHANGED wtask \/ Holds(w, NoTask)
      /\ \E from, to : WorkerAt(w, from, to) /\ from \notin InHand /\ to \notin InHand
  <2>0. AfterWait \in {"null", "check"}
    BY DEF AfterWait
  <2>1. CASE ThreadInit(w) \/ CheckQuit(w)
    BY <2>1 DEF ThreadInit, CheckQuit, producers, queues, done, InHand
  <2>2. CASE Lock(w) \/ Wait(w) \/ SpuriousWakeup(w)
    BY <2>0, <2>2 DEF Lock, Wait, SpuriousWakeup, Moves, producers, queues, done, InHand
  <2>3. CASE NotifyWait(w) \/ CountDown(w)
    BY <2>3 DEF NotifyWait, CountDown, producers, queues, done, InHand
  <2>4. CASE PopLocal(w) /\ local[w] = <<>>
    <3>1. local' = local
      BY <1>0, <2>4 DEF PopLocal, TypeOK, QueuesOK
    <3> QED
      BY <2>4, <3>1 DEF PopLocal, PopFrom, producers, done, InHand
  <2>5. CASE PopTask(w) /\ input = <<>>
    BY <2>5 DEF PopTask, PopFrom, producers, done, InHand
  <2> QED
    BY <2>1, <2>2, <2>3, <2>4, <2>5
<1>2. HandsStay
  BY <1>0, <1>1, HandsOf
<1> QED
  BY <1>1, <1>2, NothingMoves

LEMMA OwnerNothing ==
  ASSUME PoolInv, mpc # "destroyed", TypeOK',
         \/ ProducerFault \/ (\E w \in Workers : WorkerFault(w)) \/ OwnerFault
         \/ Spawn \/ WaitOutput \/ CheckCounter \/ Finalize \/ FinalizeNotify
         \/ Cancel \/ CancelNotify \/ CancelReturns
         \/ \E w \in Workers : ReleaseWorker(w) \/ Join(w)
  PROVE  PoolInv' /\ Moved({}, "new")
<1>0. TypeOK
  BY DEF PoolInv
<1>1. UNCHANGED <<fresh, ppc, ptask, input, local, out, async, executed, completed>> /\ HandsStay
  <2>1. CASE ProducerFault \/ (\E w \in Workers : WorkerFault(w)) \/ OwnerFault
    BY <2>1 DEF ProducerFault, WorkerFault, OwnerFault, Crash, producers, queues, workers, done, HandsStay
  <2>2. CASE WaitOutput \/ CheckCounter \/ Finalize \/ Cancel \/ CancelReturns
    BY <2>2 DEF WaitOutput, CheckCounter, Goes, Finalize, Cancel, CancelReturns, producers, queues, workers, done, HandsStay
  <2>3. CASE FinalizeNotify \/ CancelNotify
    <3>1. NotifyAll /\ UNCHANGED <<fresh, ppc, ptask, input, local, out, async, executed, completed, wtask>>
      BY <2>3 DEF FinalizeNotify, CancelNotify, OwnerNotifies, producers, queues, done
    <3> QED
      BY <1>0, <3>1, HandsWoken
  <2>4. CASE Spawn
    <3>1. \A w \in Workers : wpc[w] = "none" /\ wpc'[w] = "init"
      BY <1>0, <2>4 DEF Spawn, TypeOK, WorkersOK
    <3> QED
      BY <2>4, <3>1 DEF Spawn, producers, queues, done, HandsStay, InHand
  <2>5. ASSUME NEW w \in Workers, ReleaseWorker(w)
        PROVE  UNCHANGED <<fresh, ppc, ptask, input, local, out, async, executed, completed>> /\ HandsStay
    BY <2>5 DEF ReleaseWorker, producers, queues, done, HandsStay
  <2>6. ASSUME NEW w \in Workers, Join(w)
        PROVE  UNCHANGED <<fresh, ppc, ptask, input, local, out, async, executed, completed>> /\ HandsStay
    <3>1. WorkerAt(w, "exited", "none") /\ UNCHANGED wtask
      BY <2>6 DEF Join
    <3>2. HandsStay
      BY <1>0, <3>1, HandsOf DEF InHand
    <3> QED
      BY <2>6, <3>2 DEF Join, producers, queues, done
  <2> QED
    BY <2>1, <2>2, <2>3, <2>4, <2>5, <2>6
<1> QED
  BY <1>1, NothingMoves

-----------------------------------------------------------------------------
\* The phases of TaskPool are those of the seats.
Mapped == \A t \in Tasks : PhaseOf(t) = PhaseAt(t)

\* the step of TaskPool a step is, if any
PoolStep == Pool!Next \/ \A t \in Tasks : PhaseAt(t)' = PhaseAt(t)

LEMMA MappedMove ==
  ASSUME Mapped, Mapped', NEW S, NEW to, Moved(S, to)
  PROVE  Pool!Move(S, to)
BY DEF Mapped, Moved, Pool!Move

LEMMA MappedIn ==
  ASSUME Mapped, NEW t \in Tasks, NEW ph
  PROVE  t \in Pool!In(ph) <=> PhaseAt(t) = ph
BY DEF Mapped, Pool!In

LEMMA ProducerRefines ==
  ASSUME PoolInv, mpc # "destroyed", TypeOK', Mapped, Mapped',
         (\E p \in Producers : ProducerStep(p)) \/ AsyncStep
  PROVE  PoolStep
<1>1. ASSUME NEW p \in Producers, Perform(p) \/ MapTake(p) PROVE PoolStep
  <2>1. PICK t \in Tasks, from \in {"idle", "map"}, accepted \in {"push", "mapPush"} : Take(p, t, from, accepted)
    BY <1>1 DEF Perform, MapTake
  <2>2. PhaseAt(t) = "new" /\ Moved({t}, IF t \in Refused THEN "refused" ELSE "accepted")
    BY <2>1, TakeMoves
  <2>3. Pool!Move({t}, IF t \in Refused THEN "refused" ELSE "accepted") /\ t \in Pool!In("new")
    BY <2>2, MappedMove, MappedIn
  <2>4. Pool!Accept(t) \/ Pool!Refuse(t)
    BY <2>3 DEF Pool!Accept, Pool!Refuse
  <2> QED
    BY <2>4 DEF Pool!Next, PoolStep
<1>2. ASSUME NEW p \in Producers, Push(p) \/ MapPush(p) PROVE PoolStep
  <2>1. PICK t \in Tasks : PhaseAt(t) = "accepted" /\ (Moved({t}, "queued") \/ Moved({t}, "assigned"))
    BY <1>2, PushMoves
  <2>2. t \in Pool!In("accepted") /\ (Pool!Move({t}, "queued") \/ Pool!Move({t}, "assigned"))
    BY <2>1, MappedMove, MappedIn
  <2>3. Pool!Enqueue(t) \/ Pool!Assign(t)
    BY <2>2 DEF Pool!Enqueue, Pool!Assign
  <2> QED
    BY <2>3 DEF Pool!Next, PoolStep
<1>3. ASSUME NEW p \in Producers, OnMainThread(p) \/ PushNotify(p) \/ MapEnd(p) \/ RefusedNotify(p) \/ \E k \in MapKeys : MapKey(p, k)
      PROVE  PoolStep
  BY <1>3, RefusedMoves, ProducerNothing DEF Moved, PoolStep
<1>4. ASSUME NEW t \in Tasks, PerformAsync(t) PROVE PoolStep
  <2>1. PhaseAt(t) = "new" /\ Moved({t}, "detached")
    BY <1>4, DetachMoves
  <2>2. Pool!Detach(t)
    BY <2>1, MappedMove, MappedIn DEF Pool!Detach
  <2> QED
    BY <2>2 DEF Pool!Next, PoolStep
<1>5. ASSUME NEW t \in Tasks, AsyncRun(t) PROVE PoolStep
  <2>1. PhaseAt(t) = "detached" /\ Moved({t}, Ran(t))
    BY <1>5, AsyncMoves
  <2>2. t \in Pool!In("detached") /\ Pool!Move({t}, Ran(t))
    BY <2>1, MappedMove, MappedIn
  <2>3. Pool!Run(t)
    BY <2>2 DEF Pool!Run, Ran
  <2> QED
    BY <2>3 DEF Pool!Next, PoolStep
<1>6. ASSUME NEW t \in Async, PerformAsync(t) \/ AsyncRun(t) PROVE t \in Tasks
  BY <1>6 DEF PerformAsync, AsyncRun, PoolInv, TypeOK, QueuesOK, ProducersOK
<1> QED
  BY <1>1, <1>2, <1>3, <1>4, <1>5, <1>6 DEF ProducerStep, AsyncStep

LEMMA WorkerRefines ==
  ASSUME PoolInv, mpc # "destroyed", TypeOK', Mapped, Mapped', NEW w \in Workers,
         WorkerStep(w) \/ SpuriousWakeup(w)
  PROVE  PoolStep
<1>1. CASE (PopLocal(w) /\ local[w] # <<>>) \/ (PopTask(w) /\ input # <<>>)
  <2>1. PICK t \in Tasks :
          /\ Moved({t}, "running")
          /\ \/ PhaseAt(t) = "queued" /\ \A u \in Tasks : PhaseAt(u) = "queued" => Prio[t] <= Prio[u]
             \/ PhaseAt(t) = "assigned"
    BY <1>1, PopMoves
  <2>2. Pool!Move({t}, "running")
    BY <2>1, MappedMove
  <2>3. \A u : u \in Pool!In("queued") => u \in Tasks
    BY DEF Pool!In
  <2>4. \/ t \in Pool!In("queued") /\ \A u \in Pool!In("queued") : Prio[t] <= Prio[u]
        \/ t \in Pool!In("assigned")
    BY <2>1, <2>3, MappedIn
  <2>5. Pool!Take(t)
    BY <2>2, <2>4 DEF Pool!Take
  <2> QED
    BY <2>5 DEF Pool!Next, PoolStep
<1>2. CASE Execute(w)
  <2>1. PICK t \in Tasks : PhaseAt(t) = "running" /\ Moved({t}, Ran(t))
    BY <1>2, ExecuteMoves
  <2>2. t \in Pool!In("running") /\ Pool!Move({t}, Ran(t))
    BY <2>1, MappedMove, MappedIn
  <2>3. Pool!Run(t)
    BY <2>2 DEF Pool!Run, Ran
  <2> QED
    BY <2>3 DEF Pool!Next, PoolStep
<1>3. CASE Output(w)
  BY <1>3, OutputMoves DEF Moved, PoolStep
<1>4. CASE WorkerFault(w)
  BY <1>4, OwnerNothing DEF Moved, PoolStep
<1>5. CASE \/ ThreadInit(w) \/ CheckQuit(w) \/ Lock(w) \/ Wait(w) \/ SpuriousWakeup(w)
           \/ NotifyWait(w) \/ CountDown(w)
           \/ PopLocal(w) /\ local[w] = <<>>
           \/ PopTask(w) /\ input = <<>>
  BY <1>5, WorkerNothing DEF Moved, PoolStep
<1> QED
  BY <1>1, <1>2, <1>3, <1>4, <1>5 DEF WorkerStep

LEMMA OwnerRefines ==
  ASSUME PoolInv, mpc # "destroyed", TypeOK', Mapped, Mapped', OwnerStep \/ OwnerCall \/ ProducerFault
  PROVE  PoolStep
<1>1. ASSUME NEW from, NEW to, Collects(from, to) PROVE PoolStep
  <2> DEFINE S == {t \in Tasks : Out(t)}
  <2>1. Moved(S, "completed") /\ \A t \in S : PhaseAt(t) \in {"executed", "refused"}
    BY <1>1, CollectMoves
  <2>2. S \in SUBSET Tasks
    OBVIOUS
  <2> HIDE DEF S
  <2>3. Pool!Move(S, "completed") /\ S \subseteq Pool!In("executed") \cup Pool!In("refused")
    BY <2>1, <2>2, MappedMove, MappedIn
  <2>4. Pool!Complete(S)
    BY <2>3 DEF Pool!Complete
  <2> QED
    BY <2>2, <2>4 DEF Pool!Next, PoolStep
<1>2. CASE Destroy
  <2> DEFINE S == {t \in Tasks : PhaseAt(t) \in {"queued", "executed", "refused"}}
             P == Pool!In("queued") \cup Pool!In("executed") \cup Pool!In("refused")
  <2>1. Moved(S, "completed") /\ \A t \in Tasks : PhaseAt(t) \notin {"accepted", "running"}
    BY <1>2, DestroyMoves
  <2>2. S = P
    BY DEF Mapped, Pool!In
  <2>3. Pool!Move(P, "completed")
    BY <2>1, <2>2, MappedMove
  <2>4. Pool!In("accepted") \cup Pool!In("running") = {}
    BY <2>1 DEF Mapped, Pool!In
  <2>5. Pool!Close
    BY <2>3, <2>4 DEF Pool!Close
  <2> QED
    BY <2>5 DEF Pool!Next, PoolStep
<1>3. CASE WaitExit \/ WaitReturns \/ Update \/ WaitForAll
  BY <1>1, <1>3 DEF WaitExit, WaitReturns, Update, WaitForAll
<1>4. CASE \/ ProducerFault \/ OwnerFault
           \/ Spawn \/ WaitOutput \/ CheckCounter \/ Finalize \/ FinalizeNotify
           \/ Cancel \/ CancelNotify \/ CancelReturns
           \/ \E w \in Workers : ReleaseWorker(w) \/ Join(w)
  BY <1>4, OwnerNothing DEF Moved, PoolStep
<1> QED
  BY <1>2, <1>3, <1>4 DEF OwnerStep, OwnerCall

\* Every step keeps the tasks in their seats.
LEMMA PoolKept ==
  ASSUME PoolInv, Next
  PROVE  PoolInv'
<1>0. TypeOK' /\ mpc # "destroyed"
  BY TypeStep DEF PoolInv, Next
<1>1. ASSUME NEW p \in Producers, ProducerStep(p) PROVE PoolInv'
  <2>1. CASE Perform(p) \/ MapTake(p)
    <3>1. PICK t \in Tasks, from \in {"idle", "map"}, accepted \in {"push", "mapPush"} : Take(p, t, from, accepted)
      BY <2>1 DEF Perform, MapTake
    <3> QED
      BY <1>0, <3>1, TakeMoves
  <2>2. CASE Push(p) \/ MapPush(p)
    BY <1>0, <2>2, PushMoves
  <2>3. CASE OnMainThread(p)
    BY <1>0, <2>3, RefusedMoves
  <2>4. CASE PushNotify(p) \/ MapEnd(p) \/ RefusedNotify(p) \/ \E k \in MapKeys : MapKey(p, k)
    BY <1>0, <2>4, ProducerNothing
  <2> QED
    BY <1>1, <2>1, <2>2, <2>3, <2>4 DEF ProducerStep
<1>2. CASE AsyncStep
  <2>1. PICK t \in Async : PerformAsync(t) \/ AsyncRun(t)
    BY <1>2 DEF AsyncStep
  <2>2. t \in Tasks
    BY <2>1 DEF PerformAsync, AsyncRun, PoolInv, TypeOK, QueuesOK, ProducersOK
  <2> QED
    BY <1>0, <2>1, <2>2, DetachMoves, AsyncMoves
<1>3. ASSUME NEW w \in Workers, WorkerStep(w) \/ SpuriousWakeup(w) PROVE PoolInv'
  <2>1. CASE (PopLocal(w) /\ local[w] # <<>>) \/ (PopTask(w) /\ input # <<>>)
    BY <1>0, <2>1, PopMoves
  <2>2. CASE Execute(w)
    BY <1>0, <2>2, ExecuteMoves
  <2>3. CASE Output(w)
    BY <1>0, <2>3, OutputMoves
  <2>4. CASE WorkerFault(w)
    BY <1>0, <2>4, OwnerNothing
  <2>5. CASE \/ ThreadInit(w) \/ CheckQuit(w) \/ Lock(w) \/ Wait(w) \/ SpuriousWakeup(w)
             \/ NotifyWait(w) \/ CountDown(w)
             \/ PopLocal(w) /\ local[w] = <<>>
             \/ PopTask(w) /\ input = <<>>
    BY <1>0, <2>5, WorkerNothing
  <2> QED
    BY <1>3, <2>1, <2>2, <2>3, <2>4, <2>5 DEF WorkerStep
<1>4. CASE OwnerStep \/ OwnerCall \/ ProducerFault
  <2>1. CASE WaitExit \/ WaitReturns \/ Update \/ WaitForAll
    <3>1. \E from, to : Collects(from, to)
      BY <2>1 DEF WaitExit, WaitReturns, Update, WaitForAll
    <3> QED
      BY <1>0, <3>1, CollectMoves
  <2>2. CASE Destroy
    BY <1>0, <2>2, DestroyMoves
  <2>3. CASE \/ ProducerFault \/ OwnerFault
             \/ Spawn \/ WaitOutput \/ CheckCounter \/ Finalize \/ FinalizeNotify
             \/ Cancel \/ CancelNotify \/ CancelReturns
             \/ \E w \in Workers : ReleaseWorker(w) \/ Join(w)
    BY <1>0, <2>3, OwnerNothing
  <2> QED
    BY <1>4, <2>1, <2>2, <2>3 DEF OwnerStep, OwnerCall
<1> QED
  BY <1>1, <1>2, <1>3, <1>4 DEF Next

LEMMA PoolInit == Init => PoolInv
<1> SUFFICES ASSUME Init PROVE PoolInv
  OBVIOUS
<1>1. TypeOK
  BY TypeInit
<1>2. ProducerSeats /\ WorkerSeats /\ Ordered(input) /\ LocalSeats /\ OutSeats
  BY DEF Init, ProducerSeats, WorkerSeats, InHand, LocalSeats, OutSeats, Ordered, Has
<1>3. ASSUME NEW t \in Tasks PROVE TaskInv(t)
  <2>1. ~ Seated(t)
    BY NullAssumption DEF Init, Seated, Carried, InInput, InLocal, InWorker, Leaving, Out, Has
  <2> QED
    BY <2>1 DEF Init, TaskInv, Alone, Life, Found, Seated
<1> QED
  BY <1>1, <1>2, <1>3 DEF PoolInv

LEMMA PoolInvariant == Spec => []PoolInv
<1>2. PoolInv /\ [Next]_vars => PoolInv'
  <2> SUFFICES ASSUME PoolInv, [Next]_vars PROVE PoolInv'
    OBVIOUS
  <2>1. CASE Next
    BY <2>1, PoolKept
  <2>2. CASE UNCHANGED vars
    BY <2>2 DEF vars, producers, queues, workers, owner, done, PoolInv, TypeOK, ProducersOK, QueuesOK, WorkersOK,
       OwnerOK, ProducerSeats, WorkerSeats, LocalSeats, OutSeats, Ordered, Has, TaskInv, Alone, Life, Found, Seated,
       Carried, InInput, InLocal, InWorker, Leaving, Out
  <2> QED
    BY <2>1, <2>2
<1> QED
  BY <1>2, PoolInit, PTL DEF Spec

(* A task has one seat at most in every state: no thread gets a second copy *)
(* of a task, and no task is queued or output again once it was executed.   *)
LEMMA OneSeatEach == Spec => [](\A t \in Tasks : OneSeat(t))
<1>1. PoolInv => \A t \in Tasks : OneSeat(t)
  BY SeatIsOne
<1> QED
  BY <1>1, PoolInvariant, PTL

(* Every step of every interleaving is a step of TaskPool, or none: for     *)
(* every number of producers, workers and tasks, every priority and every   *)
(* combination of flags, a task is prepared once, executed at most once, in *)
(* the order of the shared queue, and completed after that.                 *)
THEOREM PoolCorrect == Spec => ImplementsTaskPool
<1>1. PoolInv => Mapped
  <2> SUFFICES ASSUME PoolInv, NEW t \in Tasks PROVE PhaseOf(t) = PhaseAt(t)
    BY DEF Mapped
  <2>1. Carried(t) => t \notin Async
    BY NullAssumption DEF PoolInv, ProducerSeats, Carried
  <2> QED
    BY <2>1, PhaseIsAt DEF PoolInv
<1>2. Init => Pool!Init
  <2> SUFFICES ASSUME Init, NEW t \in Tasks PROVE PhaseOf(t) = "new"
    BY DEF Pool!Init
  <2>1. PhaseOf(t) = PhaseAt(t)
    BY <1>1, PoolInit DEF Mapped
  <2> QED
    BY <2>1 DEF Init, PhaseAt
<1>3. PoolInv /\ Mapped /\ Mapped' /\ [Next]_vars => [Pool!Next]_([t \in Tasks |-> PhaseOf(t)])
  <2> SUFFICES ASSUME PoolInv, Mapped, Mapped', [Next]_vars
               PROVE  Pool!Next \/ \A t \in Tasks : PhaseOf(t)' = PhaseOf(t)
    OBVIOUS
  <2>1. CASE Next
    <3>1. TypeOK' /\ mpc # "destroyed"
      BY <2>1, TypeStep DEF PoolInv, Next
    <3>2. PoolStep
      BY <2>1, <3>1, ProducerRefines, WorkerRefines, OwnerRefines DEF Next
    <3> QED
      BY <3>2 DEF PoolStep, Mapped
  <2>2. CASE UNCHANGED vars
    BY <2>2 DEF vars, producers, queues, workers, owner, done, PhaseOf, Assigned
  <2> QED
    BY <2>1, <2>2
<1> QED
  BY <1>1, <1>2, <1>3, PoolInvariant, OneSeatEach, PTL DEF Spec, ImplementsTaskPool, Pool!Spec

=============================================================================
