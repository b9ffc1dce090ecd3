----------------------- MODULE ConnectionQueueProofs -----------------------
(* Proofs about ConnectionQueue, for any number of workers and tasks: the   *)
(* event descriptor has as many events as the deque has tasks, the counter  *)
(* counts every task that is not completed, groups wait for all of theirs,  *)
(* and events wake workers.                                                 *)
EXTENDS ConnectionQueue, FiniteSetTheorems, SequenceTheorems, TLAPS

(* Where a worker is, and what it holds there.                              *)
Places == {"start", "poll", "events", "pop", "forward", "run", "wait", "notify", "count", "close", "end"}

Holding == {"forward", "run", "wait", "notify", "count"}

Roles ==
    /\ pc[Main] \in {"start", "loop", "join", "end"}
    /\ \A w \in Worker :
         /\ pc[w] \in Places
         /\ task[w] # None <=> pc[w] \in Holding
         /\ pc[w] \in {"pop", "forward"} => value[w] > 0
         /\ stage[w] # "none" => pc[w] = "run"
    /\ \A p \in Thread : pushing[p] # None <=> stage[p] # "none"

(* A task in the deque has an event in the descriptor, in the hands of a    *)
(* worker that has read it, or still to be written by who pushed the task.  *)
Held(w)  == IF pc[w] = "pop" THEN value[w] ELSE IF pc[w] = "forward" THEN value[w] - 1 ELSE 0
Tickets  == {x \in Worker \X Nat : 1 <= x[2] /\ x[2] <= Held(x[1])}
Unsent   == {p \in Thread : stage[p] \in {"count", "write"}}
EventForEach ==
    /\ IsFiniteSet(Tickets)
    /\ Len(taskDeque) = eventFd + Cardinality(Tickets) + Cardinality(Unsent)

QueueInv == TypeOK /\ Roles /\ EventForEach

(* The counter counts what is in the deque and what workers hold, except    *)
(* what is pushed and not counted yet.                                      *)
Uncounted == {p \in Thread : stage[p] = "count"}
Taken     == {w \in Worker : task[w] # None}
Counted   == taskCounter = Len(taskDeque) + Cardinality(Taken) - Cardinality(Uncounted)

(* The state of a task where it is found, and where one that is not         *)
(* completed is found.                                                      *)
In(s, x)   == \E i \in 1..Len(s) : s[i] = x
Once(s)    == \A i, j \in 1..Len(s) : s[i] = s[j] => i = j
InDeque(t) == In(taskDeque, t)
Follows(t) == In(followed, t)
Pushed(t)  == \E p \in Thread : stage[p] = "push" /\ pushing[p] = t

StateOfPlace ==
    /\ \A t \in Task : /\ InDeque(t) \/ Pushed(t) => state[t] = "pushed"
                       /\ Follows(t) \/ t \in scheduled => state[t] = "kept"
    /\ \A w \in Worker : /\ pc[w] = "forward" => state[task[w]] = "pushed"
                         /\ pc[w] \in {"run", "wait"} => state[task[w]] = "running"
                         /\ pc[w] \in {"notify", "count"} => state[task[w]] \in {"executed", "done"}
    /\ \A g \in Task : \A t \in performed[g] : state[t] = "executed" /\ group[t] = g

PlaceOfState ==
    \A t \in Task :
        /\ state[t] = "pushed" => InDeque(t) \/ Pushed(t) \/ \E w \in Worker : task[w] = t
        /\ state[t] = "running" => \E w \in Worker : task[w] = t
        /\ state[t] = "executed" => group[t] # None /\ t \in performed[group[t]]
        /\ state[t] \in {"new", "kept"} => group[t] = None

(* No task is in two places.                                                *)
OnePlace ==
    /\ Once(taskDeque) /\ Once(followed)
    /\ \A t \in Task : ~(Follows(t) /\ t \in scheduled) /\ ~(Pushed(t) /\ InDeque(t))
    /\ \A p, q \in Thread : stage[p] = "push" /\ stage[q] = "push" /\ pushing[p] = pushing[q] => p = q
    /\ \A w, v \in Worker : task[w] # None /\ task[w] = task[v] => w = v
    /\ \A w \in Worker : task[w] # None => ~InDeque(task[w]) /\ ~Pushed(task[w])

PlacesInv == StateOfPlace /\ PlaceOfState /\ OnePlace

(* A group counts its tasks, and lives until they are back.                 *)
Members(g)  == {t \in Task : group[t] = g}
Finished(g) == {t \in Task : group[t] = g /\ state[t] = "done"}
GroupsCount ==
    \A g \in Task : added[g] = Cardinality(Members(g)) /\ completed[g] = Cardinality(Finished(g))
GroupsLive ==
    \A t \in Task : group[t] # None /\ state[t] # "done" =>
        \E w \in Worker : task[w] = group[t] /\ pc[w] \in {"run", "wait"}

GroupsInv == GroupsCount /\ GroupsLive /\ WaitsForAll

(* An event has listed a worker that waits, or all that live.               *)
Live  == {w \in Worker : pc[w] \notin {"start", "end"}}
Alert == eventFd > 0 =>
            \/ \E w \in Worker : pc[w] = "events" \/ (pc[w] = "poll" /\ w \in ready)
            \/ Live \subseteq ready
NoErrno == eintr = {} /\ Alert

-----------------------------------------------------------------------------
(* Counting: what one element more or less makes, and the events of one     *)
(* worker.                                                                  *)
LEMMA OneMoves ==
  ASSUME NEW S, NEW T, NEW x, IsFiniteSet(S), S \ {x} = T \ {x}
  PROVE  /\ IsFiniteSet(T) /\ Cardinality(S) \in Nat /\ Cardinality(T) \in Nat
         /\ Cardinality(T) = Cardinality(S) + (IF x \in T THEN 1 ELSE 0) - (IF x \in S THEN 1 ELSE 0)
  <1> DEFINE R == S \ {x}
  <1>1. IsFiniteSet(R) /\ Cardinality(R) = Cardinality(S) - (IF x \in S THEN 1 ELSE 0)
    BY FS_RemoveElement, FS_CardinalityType
  <1>2. x \notin R /\ Cardinality(R) \in Nat /\ Cardinality(S) \in Nat
    BY <1>1, FS_CardinalityType
  <1>3. CASE x \in T
    <2>1. T = R \cup {x}
      BY <1>3
    <2> QED BY <1>1, <1>2, <1>3, <2>1, FS_AddElement, FS_CardinalityType
  <1>4. CASE x \notin T
    <2>1. T = R
      BY <1>4
    <2> QED BY <1>1, <1>2, <1>4, <2>1
  <1> QED BY <1>3, <1>4

LEMMA OfOne ==
  ASSUME NEW w, NEW n \in Nat
  PROVE  IsFiniteSet({w} \X (1..n)) /\ Cardinality({w} \X (1..n)) = n
  <1> DEFINE f == [i \in 1..n |-> <<w, i>>]
  <1>1. f \in Bijection(1..n, {w} \X (1..n))
    <2>1. f \in [1..n -> {w} \X (1..n)]
      OBVIOUS
    <2>2. \A i, j \in 1..n : f[i] = f[j] => i = j
      OBVIOUS
    <2>3. \A y \in {w} \X (1..n) : \E i \in 1..n : f[i] = y
      <3> SUFFICES ASSUME NEW y \in {w} \X (1..n) PROVE \E i \in 1..n : f[i] = y
        OBVIOUS
      <3>1. y[2] \in 1..n /\ f[y[2]] = y
        OBVIOUS
      <3> QED BY <3>1
    <2> HIDE DEF f
    <2> QED BY <2>1, <2>2, <2>3, Zenon DEF Bijection, Injection, Surjection, IsInjective
  <1>2. IsFiniteSet(1..n) /\ Cardinality(1..n) = n
    BY FS_Interval
  <1>3. ExistsBijection(1..n, {w} \X (1..n))
    BY <1>1 DEF ExistsBijection
  <1> QED BY <1>2, <1>3, FS_Bijection

LEMMA Apart ==
  ASSUME NEW S, NEW T, IsFiniteSet(S), IsFiniteSet(T), S \cap T = {}
  PROVE  IsFiniteSet(S \cup T) /\ Cardinality(S \cup T) = Cardinality(S) + Cardinality(T)
  <1>1. /\ IsFiniteSet(S \cup T)
        /\ Cardinality(S \cup T) = Cardinality(S) + Cardinality(T) - Cardinality(S \cap T)
    BY FS_Union
  <1>2. Cardinality(S \cap T) = 0
    BY FS_EmptySet
  <1>3. Cardinality(S) \in Nat /\ Cardinality(T) \in Nat
    BY FS_CardinalityType
  <1> QED BY <1>1, <1>2, <1>3

LEMMA HeldChanges ==
  ASSUME NEW w \in Worker, IsFiniteSet(Tickets), \A v \in Worker : Held(v) \in Nat,
         Held(w)' \in Nat, \A v \in Worker \ {w} : Held(v)' = Held(v)
  PROVE  /\ IsFiniteSet(Tickets') /\ Cardinality(Tickets) \in Nat /\ Cardinality(Tickets') \in Nat
         /\ Cardinality(Tickets') = Cardinality(Tickets) + Held(w)' - Held(w)
  <1> DEFINE Rest == {x \in Tickets : x[1] # w}
             A == {w} \X (1..Held(w))
             B == {w} \X (1..(Held(w)'))
  <1>1. IsFiniteSet(Rest) /\ Cardinality(Rest) \in Nat
    BY FS_Subset, FS_CardinalityType
  <1>2. IsFiniteSet(A) /\ Cardinality(A) = Held(w)
    BY OfOne
  <1>3. IsFiniteSet(B) /\ Cardinality(B) = Held(w)'
    BY OfOne
  <1>4. Tickets = Rest \cup A /\ Rest \cap A = {}
    <2>1. Rest \cap A = {}
      OBVIOUS
    <2>2. ASSUME NEW x PROVE x \in Tickets <=> x \in Rest \cup A
      BY DEF Tickets
    <2> QED BY <2>1, <2>2
  <1>5. Tickets' = Rest \cup B /\ Rest \cap B = {}
    <2>1. Rest \cap B = {}
      OBVIOUS
    <2>2. ASSUME NEW x PROVE x \in Tickets' <=> x \in Rest \cup B
      BY DEF Tickets
    <2> QED BY <2>1, <2>2
  <1> HIDE DEF Rest, A, B
  <1>6. Cardinality(Tickets) = Cardinality(Rest) + Held(w)
    BY <1>1, <1>2, <1>4, Apart
  <1>7. IsFiniteSet(Tickets') /\ Cardinality(Tickets') = Cardinality(Rest) + Held(w)'
    BY <1>1, <1>3, <1>5, Apart
  <1> QED BY <1>1, <1>6, <1>7

(* Threads are finitely many, and a worker has whole events.                *)
LEMMA ThreadsFinite == IsFiniteSet(Thread)
  BY QueueParameters, FS_AddElement DEF Thread

LEMMA HeldType == ASSUME TypeOK, Roles, NEW w \in Worker PROVE Held(w) \in Nat
  BY DEF TypeOK, Roles, Held

LEMMA StageMoves ==
  ASSUME NEW p \in Thread, \A q \in Thread \ {p} : stage'[q] = stage[q]
  PROVE  /\ Cardinality(Unsent) \in Nat /\ Cardinality(Uncounted) \in Nat
         /\ Cardinality(Unsent') = Cardinality(Unsent)
              + (IF stage'[p] \in {"count", "write"} THEN 1 ELSE 0)
              - (IF stage[p] \in {"count", "write"} THEN 1 ELSE 0)
         /\ Cardinality(Uncounted') = Cardinality(Uncounted)
              + (IF stage'[p] = "count" THEN 1 ELSE 0) - (IF stage[p] = "count" THEN 1 ELSE 0)
  <1>1. IsFiniteSet(Unsent) /\ IsFiniteSet(Uncounted)
    BY ThreadsFinite, FS_Subset DEF Unsent, Uncounted
  <1>2. Unsent \ {p} = Unsent' \ {p} /\ Uncounted \ {p} = Uncounted' \ {p}
    BY DEF Unsent, Uncounted
  <1>3. (p \in Unsent <=> stage[p] \in {"count", "write"}) /\ (p \in Unsent' <=> stage'[p] \in {"count", "write"})
        /\ (p \in Uncounted <=> stage[p] = "count") /\ (p \in Uncounted' <=> stage'[p] = "count")
    BY DEF Unsent, Uncounted
  <1> QED BY <1>1, <1>2, <1>3, OneMoves

(* What neither moves events nor tasks.                                     *)
LEMMA EventsFrame ==
  ASSUME TypeOK, Roles, EventForEach, Len(taskDeque') = Len(taskDeque), eventFd' = eventFd,
         \A w \in Worker : Held(w)' = Held(w),
         \A p \in Thread : stage'[p] \in {"count", "write"} <=> stage[p] \in {"count", "write"}
  PROVE  EventForEach'
  <1>1. Tickets' = Tickets /\ Unsent' = Unsent
    BY DEF Tickets, Unsent
  <1> QED BY <1>1 DEF EventForEach

-----------------------------------------------------------------------------
(* The events match the tasks.  A worker with an event finds a task.        *)
LEMMA HasTask ==
  ASSUME QueueInv, NEW w \in Worker, Held(w) > 0
  PROVE  taskDeque # <<>>
  <1>1. <<w, 1>> \in Tickets
    <2>1. Held(w) \in Nat
      BY HeldType DEF QueueInv
    <2> QED BY <2>1 DEF Tickets
  <1>2. Cardinality(Tickets) \in Nat /\ Cardinality(Tickets) # 0
    BY <1>1, FS_EmptySet, FS_CardinalityType DEF QueueInv, EventForEach
  <1>3. Cardinality(Unsent) \in Nat
    BY ThreadsFinite, FS_Subset, FS_CardinalityType DEF Unsent
  <1>4. Len(taskDeque) # 0
    BY <1>2, <1>3 DEF QueueInv, EventForEach, TypeOK
  <1> QED BY <1>4

LEMMA WriteType ==
  ASSUME TypeOK, NEW n \in Nat, Write(n)
  PROVE  eventFd' \in Nat /\ ready' \subseteq Worker /\ eventFd' = eventFd + n
  BY DEF TypeOK, Write

LEMMA PushesQueue == ASSUME QueueInv, NEW p \in Thread, Pushes(p) PROVE QueueInv'
  <1> USE DEF Pushes
  <1>1. /\ stage[p] = "push" /\ stage' = [stage EXCEPT ![p] = "count"] /\ pushing[p] \in Task
        /\ UNCHANGED <<taskCounter, eventFd, ended, ready, eintr, value, closing, task, pc, pushing,
                       followed, scheduled, shouldClose, locked, group, added, completed, performed, state>>
    BY DEF QueueInv, TypeOK, Roles, workers, root, groups
  <1>2. taskDeque' \in Seq(Task) /\ Len(taskDeque') = Len(taskDeque) + 1
    BY <1>1 DEF QueueInv, TypeOK
  <1>3. TypeOK'
    BY <1>1, <1>2 DEF QueueInv, TypeOK
  <1>4. Roles'
    BY <1>1 DEF QueueInv, TypeOK, Roles, Holding
  <1>5. stage'[p] = "count" /\ \A q \in Thread \ {p} : stage'[q] = stage[q]
    BY <1>1 DEF QueueInv, TypeOK
  <1>6. Tickets' = Tickets
    BY <1>1 DEF Tickets, Held
  <1>7. Cardinality(Unsent') = Cardinality(Unsent) + 1 /\ Cardinality(Unsent) \in Nat
    BY <1>1, <1>5, StageMoves
  <1>8. Cardinality(Tickets) \in Nat
    BY FS_CardinalityType DEF QueueInv, EventForEach
  <1>9. EventForEach'
    BY <1>1, <1>2, <1>6, <1>7, <1>8 DEF QueueInv, TypeOK, EventForEach
  <1> QED BY <1>3, <1>4, <1>9 DEF QueueInv

LEMMA CountsQueue == ASSUME QueueInv, NEW p \in Thread, Counts(p) PROVE QueueInv'
  <1> USE DEF Counts
  <1>1. /\ stage[p] = "count" /\ stage' = [stage EXCEPT ![p] = "write"] /\ taskCounter' = taskCounter + 1
        /\ UNCHANGED <<taskDeque, eventFd, ended, ready, eintr, value, closing, task, pc, pushing,
                       followed, scheduled, shouldClose, locked, group, added, completed, performed, state>>
    BY DEF workers, root, groups
  <1>2. TypeOK' /\ Roles'
    BY <1>1 DEF QueueInv, TypeOK, Roles, Holding
  <1>3. EventForEach'
    BY <1>1, EventsFrame DEF QueueInv, TypeOK, Held
  <1> QED BY <1>2, <1>3 DEF QueueInv

LEMMA NotifiesQueue == ASSUME QueueInv, NEW p \in Thread, Notifies(p) PROVE QueueInv'
  <1> USE DEF Notifies
  <1>1. /\ stage[p] = "write" /\ stage' = [stage EXCEPT ![p] = "none"]
        /\ pushing' = [pushing EXCEPT ![p] = None] /\ locked' = (locked /\ p # Main)
        /\ UNCHANGED <<taskDeque, taskCounter, ended, eintr, value, closing, task, pc,
                       followed, scheduled, shouldClose, group, added, completed, performed, state>>
    BY DEF workers, groups
  <1>2. eventFd' = eventFd + 1 /\ eventFd' \in Nat /\ ready' \subseteq Worker
    BY WriteType DEF QueueInv
  <1>3. locked' \in BOOLEAN
    BY <1>1
  <1>4. TypeOK'
    BY <1>1, <1>2, <1>3 DEF QueueInv, TypeOK
  <1>5. Roles'
    BY <1>1 DEF QueueInv, TypeOK, Roles, Holding
  <1>6. stage'[p] = "none" /\ \A q \in Thread \ {p} : stage'[q] = stage[q]
    BY <1>1 DEF QueueInv, TypeOK
  <1>7. Tickets' = Tickets
    BY <1>1 DEF Tickets, Held
  <1>8. Cardinality(Unsent') = Cardinality(Unsent) - 1 /\ Cardinality(Unsent) \in Nat
    BY <1>1, <1>6, StageMoves
  <1>9. Cardinality(Tickets) \in Nat
    BY FS_CardinalityType DEF QueueInv, EventForEach
  <1>10. EventForEach'
    BY <1>1, <1>2, <1>7, <1>8, <1>9 DEF QueueInv, TypeOK, EventForEach
  <1> QED BY <1>4, <1>5, <1>10 DEF QueueInv

(* What a thread asks for.                                                  *)
LEMMA FinitePerformed ==
  ASSUME TypeOK, NEW g \in Task PROVE IsFiniteSet(performed[g]) /\ Cardinality(performed[g]) \in Nat
  <1>1. IsFiniteSet(Task)
    BY QueueParameters, FS_Interval DEF Task
  <1> QED BY <1>1, FS_Subset, FS_CardinalityType DEF TypeOK

LEMMA UpdateType ==
  ASSUME TypeOK, NEW g \in Task, update(g)
  PROVE  completed' \in [Task -> Nat] /\ performed' \in [Task -> SUBSET Task] /\ Done(g) \in [Task -> {"new", "kept", "pushed", "running", "executed", "done"}]
  BY FinitePerformed DEF TypeOK, update, Done

LEMMA BeginRoles ==
  ASSUME QueueInv, NEW p \in Thread, NEW t \in Task, Begin(p, t), stage[p] = "none",
         p \in Worker => pc[p] = "run", UNCHANGED <<queue, workers, pc>>
  PROVE  /\ Roles' /\ EventForEach' /\ stage'[p] = "push" /\ pushing'[p] = t
         /\ stage' \in [Thread -> {"none", "push", "count", "write"}]
         /\ pushing' \in [Thread -> Task \cup {None}]
         /\ \A q \in Thread \ {p} : stage'[q] = stage[q] /\ pushing'[q] = pushing[q]
  <1>1. /\ stage' = [stage EXCEPT ![p] = "push"] /\ pushing' = [pushing EXCEPT ![p] = t] /\ t # None
        /\ UNCHANGED <<taskDeque, eventFd, value, task, pc>>
    BY QueueParameters DEF Begin, queue, workers, Task, None
  <1>2. Roles'
    BY <1>1 DEF QueueInv, TypeOK, Roles, Holding
  <1>3. EventForEach'
    BY <1>1, EventsFrame DEF QueueInv, TypeOK, Held
  <1> QED BY <1>1, <1>2, <1>3 DEF QueueInv, TypeOK

LEMMA MainNoWorker == Main \notin Worker /\ Main \in Thread /\ Worker \subseteq Thread /\ None \notin Task
  BY QueueParameters DEF Thread, Task, None

LEMMA GroupType ==
  ASSUME TypeOK, NEW p \in Thread, NEW g \in Groups(p), p # Main => task[p] \in Task
  PROVE  g \in Task \cup {None} /\ (g # None /\ g = Own(p) => g \in Task)
  BY DEF TypeOK, Groups, Own, Thread

LEMMA PerformQueue ==
  ASSUME QueueInv, NEW p \in Thread, NEW t \in Task, performTask(p, t) PROVE QueueInv'
  <1> USE DEF performTask
  <1>1. /\ stage[p] = "none" /\ (p \in Worker => pc[p] = "run") /\ Begin(p, t)
        /\ UNCHANGED <<queue, workers, pc, followed, scheduled, shouldClose, locked>>
    BY MainNoWorker DEF Asks, Busy, root
  <1>2. p # Main => task[p] \in Task
    BY <1>1, MainNoWorker DEF QueueInv, TypeOK, Roles, Holding, Thread
  <1>3. PICK g \in Groups(p) :
          /\ group' = [group EXCEPT ![t] = g] /\ added' = onAdded(g)
          /\ \/ /\ UNCHANGED <<completed, performed>>
                /\ state' = [state EXCEPT ![t] = "pushed"]
             \/ /\ g # None /\ g = Own(p) /\ update(g)
                /\ state' = [Done(g) EXCEPT ![t] = "pushed"]
    OBVIOUS
  <1>4. g \in Task \cup {None} /\ (g # None /\ g = Own(p) => g \in Task)
    BY <1>2, GroupType DEF QueueInv
  <1>5. group' \in [Task -> Task \cup {None}] /\ added' \in [Task -> Nat]
    BY <1>3, <1>4 DEF QueueInv, TypeOK, onAdded
  <1>6. /\ completed' \in [Task -> Nat] /\ performed' \in [Task -> SUBSET Task]
        /\ state' \in [Task -> {"new", "kept", "pushed", "running", "executed", "done"}]
    <2>1. CASE UNCHANGED <<completed, performed>> /\ state' = [state EXCEPT ![t] = "pushed"]
      BY <2>1 DEF QueueInv, TypeOK
    <2>2. CASE g \in Task /\ update(g) /\ state' = [Done(g) EXCEPT ![t] = "pushed"]
      BY <2>2, UpdateType DEF QueueInv
    <2> QED BY <1>3, <1>4, <2>1, <2>2
  <1>7. TypeOK'
    <2>1. stage' \in [Thread -> {"none", "push", "count", "write"}] /\ pushing' \in [Thread -> Task \cup {None}]
      BY <1>1, BeginRoles
    <2> HIDE DEF performTask
    <2> QED BY <1>1, <1>5, <1>6, <2>1 DEF QueueInv, TypeOK, queue, workers
  <1> QED BY <1>1, <1>7, BeginRoles DEF QueueInv

LEMMA FollowQueue ==
  ASSUME QueueInv, NEW p \in Thread, NEW t \in Task, runFollowedTask(p, t) PROVE QueueInv'
  <1> USE DEF runFollowedTask
  <1>1. /\ stage[p] = "none" /\ (p \in Worker => pc[p] = "run")
        /\ UNCHANGED <<queue, workers, pc, scheduled, shouldClose, locked, groups>>
    BY MainNoWorker DEF Asks, Busy
  <1>2. CASE hasTasks
    <2>1. /\ UNCHANGED push /\ state' = [state EXCEPT ![t] = "kept"] /\ followed' = Append(followed, t)
      BY <1>2
    <2>2. TypeOK' /\ Roles'
      BY <1>1, <2>1 DEF QueueInv, TypeOK, Roles, queue, workers, push, groups
    <2>3. EventForEach'
      BY <1>1, <2>1, EventsFrame DEF QueueInv, TypeOK, Held, queue, workers, push
    <2> QED BY <2>2, <2>3 DEF QueueInv
  <1>3. CASE ~hasTasks
    <2>1. Begin(p, t) /\ UNCHANGED followed /\ state' = [state EXCEPT ![t] = "pushed"]
      BY <1>3
    <2>2. TypeOK'
      BY <1>1, <2>1, BeginRoles DEF QueueInv, TypeOK, queue, workers, groups
    <2> QED BY <1>1, <2>1, <2>2, BeginRoles DEF QueueInv
  <1> QED BY <1>2, <1>3

LEMMA ScheduleQueue ==
  ASSUME QueueInv, NEW p \in Thread, NEW t \in Task, scheduleTask(p, t) PROVE QueueInv'
  <1> USE DEF scheduleTask
  <1>1. TypeOK' /\ Roles'
    BY DEF QueueInv, TypeOK, Roles, queue, workers, push, groups
  <1>2. EventForEach'
    BY EventsFrame DEF QueueInv, TypeOK, Held, queue, workers, push
  <1> QED BY <1>1, <1>2 DEF QueueInv

LEMMA CancelQueue == ASSUME QueueInv, NEW p \in Thread, scheduleCancel(p) PROVE QueueInv'
  <1> USE DEF scheduleCancel
  <1>1. TypeOK' /\ Roles'
    BY DEF QueueInv, TypeOK, Roles, queue, workers, push, groups
  <1>2. EventForEach'
    BY EventsFrame DEF QueueInv, TypeOK, Held, queue, workers, push
  <1> QED BY <1>1, <1>2 DEF QueueInv

(* The main thread.                                                         *)
LEMMA RunQueue == ASSUME QueueInv, Run PROVE QueueInv'
  <1>1. TypeOK' /\ Roles'
    BY MainNoWorker DEF QueueInv, TypeOK, Roles, Run, Goto, queue, workers, push, root, groups
  <1>2. \A w \in Worker : pc'[w] = pc[w]
    BY MainNoWorker DEF QueueInv, TypeOK, Run, Goto
  <1>3. EventForEach'
    BY <1>2, EventsFrame DEF QueueInv, Held, Run, queue, workers, push
  <1> QED BY <1>1, <1>3 DEF QueueInv

LEMMA KeptQueue ==
  ASSUME QueueInv, NEW t \in Task, PerformKept(t), stage[Main] = "none",
         followed' \in Seq(Task), scheduled' \subseteq Task
  PROVE  QueueInv'
  <1> USE DEF PerformKept
  <1>1. Begin(Main, t) /\ Main \in Thread /\ (Main \in Worker => pc[Main] = "run")
        /\ UNCHANGED <<queue, workers, pc>>
    BY MainNoWorker
  <1>2. TypeOK'
    BY <1>1, BeginRoles DEF QueueInv, TypeOK, queue, workers, groups
  <1> QED BY <1>1, <1>2, BeginRoles DEF QueueInv

LEMMA HeartBeatQueue == ASSUME QueueInv, onHeartBeat PROVE QueueInv'
  <1>1. PICK t \in scheduled : scheduled' = scheduled \ {t} /\ PerformKept(t)
    BY DEF onHeartBeat
  <1> QED BY <1>1, KeptQueue DEF onHeartBeat, Busy, QueueInv, TypeOK

LEMMA FollowedQueue == ASSUME QueueInv, PerformFollowed PROVE QueueInv'
  <1>1. Head(followed) \in Task /\ Tail(followed) \in Seq(Task)
    BY DEF PerformFollowed, QueueInv, TypeOK
  <1> QED BY <1>1, KeptQueue DEF PerformFollowed, Busy, QueueInv, TypeOK

LEMMA FinalizeQueue == ASSUME QueueInv, finalize PROVE QueueInv'
  <1>1. TypeOK' /\ Roles'
    BY MainNoWorker DEF QueueInv, TypeOK, Roles, finalize, Goto, workers, push, root, groups
  <1>2. \A w \in Worker : pc'[w] = pc[w]
    BY MainNoWorker DEF QueueInv, TypeOK, finalize, Goto
  <1>3. EventForEach'
    BY <1>2, EventsFrame DEF QueueInv, Held, finalize, workers, push
  <1> QED BY <1>1, <1>3 DEF QueueInv

LEMMA JoinedQueue == ASSUME QueueInv, Joined PROVE QueueInv'
  <1>1. TypeOK' /\ Roles'
    BY MainNoWorker DEF QueueInv, TypeOK, Roles, Joined, Goto, queue, workers, push, root, groups
  <1>2. \A w \in Worker : pc'[w] = pc[w]
    BY MainNoWorker DEF QueueInv, TypeOK, Joined, Goto
  <1>3. EventForEach'
    BY <1>2, EventsFrame DEF QueueInv, Held, Joined, queue, workers, push
  <1> QED BY <1>1, <1>3 DEF QueueInv

(* Workers where no event moves.                                            *)
LEMMA StartQueue == ASSUME QueueInv, NEW w \in Worker, Start(w) PROVE QueueInv'
  <1>1. TypeOK' /\ Roles'
    BY MainNoWorker DEF QueueInv, TypeOK, Roles, Places, Holding, Start, Goto, workers, push, root, groups
  <1>2. EventForEach'
    BY MainNoWorker, EventsFrame DEF QueueInv, TypeOK, Held, Start, Goto, workers, push
  <1> QED BY <1>1, <1>2 DEF QueueInv

LEMMA EpollWaitQueue == ASSUME QueueInv, NEW w \in Worker, EpollWait(w) PROVE QueueInv'
  <1>1. /\ pc[w] = "poll" /\ ready' = ready \ {w} /\ ended' = ended \ {w}
        /\ UNCHANGED <<taskDeque, taskCounter, eventFd, value, task, push, root, groups, state>>
        /\ eintr' \subseteq Worker /\ closing' \subseteq Worker
        /\ pc' = pc \/ (\E where \in {"events", "close"} : pc' = [pc EXCEPT ![w] = where])
    BY DEF EpollWait, Goto, QueueInv, TypeOK
  <1>2. TypeOK'
    <2>1. pc' \in [Thread -> {"start", "poll", "events", "pop", "forward", "run", "wait",
                             "notify", "count", "close", "end", "loop", "join"}]
      BY <1>1 DEF QueueInv, TypeOK
    <2>2. ready' \subseteq Worker /\ ended' \subseteq Worker
      BY <1>1 DEF QueueInv, TypeOK
    <2> QED BY <1>1, <2>1, <2>2, Zenon DEF QueueInv, TypeOK, push, root, groups
  <1>3. Roles'
    BY <1>1, MainNoWorker DEF QueueInv, TypeOK, Roles, Places, Holding, push
  <1>4. EventForEach'
    BY <1>1, MainNoWorker, EventsFrame DEF QueueInv, TypeOK, Held, push
  <1> QED BY <1>2, <1>3, <1>4 DEF QueueInv

LEMMA WaitQueue == ASSUME QueueInv, NEW w \in Worker, waitForAll(w) PROVE QueueInv'
  <1>1. /\ pc[w] \in {"run", "wait"} /\ (pc[w] = "run" => stage[w] = "none")
        /\ update(task[w]) /\ state' = Done(task[w])
        /\ \E where \in {"run", "wait"} : pc' = [pc EXCEPT ![w] = where]
        /\ UNCHANGED <<queue, workers, push, root, group, added>>
    BY DEF waitForAll, Goto, Busy
  <1>2. task[w] \in Task
    BY <1>1 DEF QueueInv, TypeOK, Roles, Holding
  <1>3. TypeOK'
    <2>1. /\ completed' \in [Task -> Nat] /\ performed' \in [Task -> SUBSET Task]
          /\ state' \in [Task -> {"new", "kept", "pushed", "running", "executed", "done"}]
      BY <1>1, <1>2, UpdateType DEF QueueInv
    <2>2. PICK where \in {"run", "wait"} : pc' = [pc EXCEPT ![w] = where]
      BY <1>1
    <2> QED BY <1>1, <2>1, <2>2 DEF QueueInv, TypeOK, queue, workers, push, root
  <1>4. stage[w] = "none"
    BY <1>1, MainNoWorker DEF QueueInv, TypeOK, Roles, Holding
  <1>5. Roles'
    BY <1>1, <1>4, MainNoWorker DEF QueueInv, TypeOK, Roles, Places, Holding, queue, workers, push
  <1>6. EventForEach'
    BY <1>1, MainNoWorker, EventsFrame DEF QueueInv, TypeOK, Held, queue, workers, push
  <1> QED BY <1>3, <1>5, <1>6 DEF QueueInv

LEMMA ReleaseQueue == ASSUME QueueInv, NEW w \in Worker, releaseTask(w) PROVE QueueInv'
  <1>1. /\ pc[w] = "run" /\ stage[w] = "none"
        /\ \E where \in {"notify", "count"} : pc' = [pc EXCEPT ![w] = where]
        /\ eintr' \subseteq Worker
        /\ UNCHANGED <<queue, value, closing, task, push, root, group, added, completed>>
    BY DEF releaseTask, Goto, Busy, QueueInv, TypeOK
  <1>2. task[w] \in Task
    BY <1>1 DEF QueueInv, TypeOK, Roles, Holding
  <1>3. /\ state' \in [Task -> {"new", "kept", "pushed", "running", "executed", "done"}]
        /\ performed' \in [Task -> SUBSET Task]
    <2>1. CASE group[task[w]] = None
      BY <1>2, <2>1 DEF releaseTask, QueueInv, TypeOK
    <2>2. CASE group[task[w]] # None
      <3>1. group[task[w]] \in Task
        BY <1>2, <2>2 DEF QueueInv, TypeOK
      <3>2. /\ performed' = [performed EXCEPT ![group[task[w]]] = @ \cup {task[w]}]
            /\ state' = [state EXCEPT ![task[w]] = "executed"]
        BY <2>2 DEF releaseTask
      <3> QED BY <1>2, <3>1, <3>2 DEF QueueInv, TypeOK
    <2> QED BY <2>1, <2>2
  <1>4. TypeOK'
    BY <1>1, <1>3, MainNoWorker DEF QueueInv, TypeOK, queue, push, root
  <1>5. Roles'
    BY <1>1, MainNoWorker DEF QueueInv, TypeOK, Roles, Places, Holding, queue, push
  <1>6. EventForEach'
    BY <1>1, MainNoWorker, EventsFrame DEF QueueInv, TypeOK, Held, queue, push
  <1> QED BY <1>4, <1>5, <1>6 DEF QueueInv

LEMMA NotifyQueue == ASSUME QueueInv, NEW w \in Worker, Notify(w) PROVE QueueInv'
  <1>1. stage[w] = "none"
    BY MainNoWorker DEF Notify, QueueInv, TypeOK, Roles, Holding
  <1>2. TypeOK' /\ Roles'
    BY <1>1, MainNoWorker DEF QueueInv, TypeOK, Roles, Places, Holding, Notify, Goto, queue, workers, push, root, groups
  <1>3. EventForEach'
    BY MainNoWorker, EventsFrame DEF QueueInv, TypeOK, Held, Notify, Goto, queue, workers, push
  <1> QED BY <1>2, <1>3 DEF QueueInv

LEMMA ReleasedQueue == ASSUME QueueInv, NEW w \in Worker, Released(w) PROVE QueueInv'
  <1>1. stage[w] = "none"
    BY MainNoWorker DEF Released, QueueInv, TypeOK, Roles, Holding
  <1>2. TypeOK' /\ Roles'
    BY <1>1, MainNoWorker DEF QueueInv, TypeOK, Roles, Places, Holding, Released, Goto, push, root, groups
  <1>3. EventForEach'
    BY MainNoWorker, EventsFrame DEF QueueInv, TypeOK, Held, Released, Goto, push
  <1> QED BY <1>2, <1>3 DEF QueueInv

LEMMA CloseQueue == ASSUME QueueInv, NEW w \in Worker, Close(w) PROVE QueueInv'
  <1>1. stage[w] = "none"
    BY MainNoWorker DEF Close, QueueInv, TypeOK, Roles, Holding
  <1>2. TypeOK' /\ Roles'
    BY <1>1, MainNoWorker DEF QueueInv, TypeOK, Roles, Places, Holding, Close, Goto, queue, workers, push, root, groups
  <1>3. EventForEach'
    BY MainNoWorker, EventsFrame DEF QueueInv, TypeOK, Held, Close, Goto, queue, workers, push
  <1> QED BY <1>2, <1>3 DEF QueueInv

(* A worker reads the events, takes a task for one, and forwards the rest.  *)
LEMMA ReadEventQueue == ASSUME QueueInv, NEW w \in Worker, ReadEvent(w) PROVE QueueInv'
  <1>1. /\ pc[w] = "events" /\ value' = [value EXCEPT ![w] = eventFd] /\ eventFd' = 0
        /\ pc' = [pc EXCEPT ![w] = IF eventFd > 0 THEN "pop" ELSE "close"]
        /\ UNCHANGED <<taskDeque, taskCounter, ended, ready, eintr, closing, task, push, root, groups, state>>
    BY DEF ReadEvent, Goto
  <1>2. stage[w] = "none" /\ eventFd \in Nat
    BY <1>1, MainNoWorker DEF QueueInv, TypeOK, Roles, Holding
  <1>3. TypeOK'
    BY <1>1, <1>2, MainNoWorker DEF QueueInv, TypeOK, push, root, groups
  <1>4. Roles'
    BY <1>1, <1>2, MainNoWorker DEF QueueInv, TypeOK, Roles, Places, Holding, push
  <1>5. /\ Held(w) = 0 /\ Held(w)' = eventFd
        /\ \A v \in Worker \ {w} : Held(v)' = Held(v)
    BY <1>1, <1>2, MainNoWorker DEF QueueInv, TypeOK, Held
  <1>6. /\ IsFiniteSet(Tickets') /\ Cardinality(Tickets) \in Nat /\ Cardinality(Tickets') \in Nat
        /\ Cardinality(Tickets') = Cardinality(Tickets) + eventFd
    BY <1>2, <1>5, HeldType, HeldChanges DEF QueueInv, EventForEach
  <1>7. Unsent' = Unsent /\ Cardinality(Unsent) \in Nat
    BY <1>1, ThreadsFinite, FS_Subset, FS_CardinalityType DEF Unsent, push
  <1>8. EventForEach'
    BY <1>1, <1>2, <1>6, <1>7 DEF QueueInv, EventForEach
  <1> QED BY <1>3, <1>4, <1>8 DEF QueueInv

LEMMA PopQueue == ASSUME QueueInv, NEW w \in Worker, popTask(w) PROVE QueueInv'
  <1>1. pc[w] = "pop" /\ value[w] \in Nat /\ value[w] > 0
    BY DEF popTask, QueueInv, TypeOK, Roles, Holding
  <1>2. taskDeque # <<>>
    BY <1>1, HasTask DEF Held
  <1>3. /\ task' = [task EXCEPT ![w] = Head(taskDeque)] /\ taskDeque' = Tail(taskDeque)
        /\ pc' = [pc EXCEPT ![w] = "forward"]
        /\ UNCHANGED <<taskCounter, eventFd, ended, ready, eintr, value, closing, push, root, groups, state>>
    BY <1>2 DEF popTask, Goto
  <1>4. /\ Head(taskDeque) \in Task /\ Tail(taskDeque) \in Seq(Task)
        /\ Len(Tail(taskDeque)) = Len(taskDeque) - 1
    BY <1>2 DEF QueueInv, TypeOK
  <1>5. stage[w] = "none"
    BY <1>1, MainNoWorker DEF QueueInv, TypeOK, Roles, Holding
  <1>6. TypeOK'
    BY <1>3, <1>4, MainNoWorker DEF QueueInv, TypeOK, push, root, groups
  <1>7. Roles'
    BY <1>1, <1>3, <1>4, <1>5, MainNoWorker DEF QueueInv, TypeOK, Roles, Places, Holding, push
  <1>8. /\ Held(w) = value[w] /\ Held(w)' = value[w] - 1
        /\ \A v \in Worker \ {w} : Held(v)' = Held(v)
    BY <1>1, <1>3, MainNoWorker DEF QueueInv, TypeOK, Held
  <1>9. /\ IsFiniteSet(Tickets') /\ Cardinality(Tickets) \in Nat /\ Cardinality(Tickets') \in Nat
        /\ Cardinality(Tickets') = Cardinality(Tickets) - 1
    BY <1>1, <1>8, HeldType, HeldChanges DEF QueueInv, EventForEach
  <1>10. Unsent' = Unsent /\ Cardinality(Unsent) \in Nat
    BY <1>3, ThreadsFinite, FS_Subset, FS_CardinalityType DEF Unsent, push
  <1>11. EventForEach'
    BY <1>3, <1>4, <1>9, <1>10 DEF QueueInv, TypeOK, EventForEach
  <1> QED BY <1>6, <1>7, <1>11 DEF QueueInv

LEMMA ForwardQueue == ASSUME QueueInv, NEW w \in Worker, Forward(w) PROVE QueueInv'
  <1>1. /\ pc[w] = "forward" /\ value' = [value EXCEPT ![w] = 0] /\ pc' = [pc EXCEPT ![w] = "run"]
        /\ state' = [state EXCEPT ![task[w]] = "running"]
        /\ UNCHANGED <<taskDeque, taskCounter, ended, eintr, closing, task, push, root, groups>>
    BY DEF Forward, Goto
  <1>2. stage[w] = "none" /\ value[w] \in Nat /\ value[w] > 0 /\ eventFd \in Nat
    BY <1>1, MainNoWorker DEF QueueInv, TypeOK, Roles, Holding
  <1>3. eventFd' = eventFd + (value[w] - 1) /\ eventFd' \in Nat /\ ready' \subseteq Worker
    <2>1. CASE value[w] > 1
      BY <1>2, <2>1, WriteType DEF Forward, QueueInv
    <2>2. CASE ~(value[w] > 1)
      BY <1>2, <2>2 DEF Forward, QueueInv, TypeOK
    <2> QED BY <2>1, <2>2
  <1>4. TypeOK'
    BY <1>1, <1>3, MainNoWorker DEF QueueInv, TypeOK, push, root, groups
  <1>5. Roles'
    BY <1>1, <1>2, MainNoWorker DEF QueueInv, TypeOK, Roles, Places, Holding, push
  <1>6. /\ Held(w) = value[w] - 1 /\ Held(w)' = 0
        /\ \A v \in Worker \ {w} : Held(v)' = Held(v)
    BY <1>1, MainNoWorker DEF QueueInv, TypeOK, Held
  <1>7. /\ IsFiniteSet(Tickets') /\ Cardinality(Tickets) \in Nat /\ Cardinality(Tickets') \in Nat
        /\ Cardinality(Tickets') = Cardinality(Tickets) - (value[w] - 1)
    BY <1>2, <1>6, HeldType, HeldChanges DEF QueueInv, EventForEach
  <1>8. Unsent' = Unsent /\ Cardinality(Unsent) \in Nat
    BY <1>1, ThreadsFinite, FS_Subset, FS_CardinalityType DEF Unsent, push
  <1>9. EventForEach'
    BY <1>1, <1>2, <1>3, <1>7, <1>8 DEF QueueInv, EventForEach
  <1> QED BY <1>4, <1>5, <1>9 DEF QueueInv

LEMMA InitQueue == Init => QueueInv
  <1> SUFFICES ASSUME Init PROVE QueueInv
    OBVIOUS
  <1>1. ended \subseteq Worker /\ shouldClose \in BOOLEAN /\ locked \in BOOLEAN
    BY DEF Init
  <1>2. TypeOK
    BY <1>1 DEF Init, TypeOK
  <1>3. Roles
    BY MainNoWorker DEF Init, Roles, Places, Holding
  <1>4. Tickets = {} /\ Unsent = {}
    BY MainNoWorker DEF Init, Tickets, Held, Unsent
  <1>5. EventForEach
    BY <1>4, FS_EmptySet DEF Init, EventForEach
  <1> QED BY <1>2, <1>3, <1>5 DEF QueueInv

LEMMA AskQueue == ASSUME QueueInv, NEW p \in Thread, Ask(p) PROVE QueueInv'
  BY PerformQueue, FollowQueue, ScheduleQueue, CancelQueue DEF Ask

LEMMA StepQueue == QueueInv /\ [Next]_vars => QueueInv'
  <1> SUFFICES ASSUME QueueInv, [Next]_vars PROVE QueueInv'
    OBVIOUS
  <1>1. CASE UNCHANGED vars
    BY <1>1 DEF vars, queue, workers, push, root, groups, QueueInv, TypeOK, Roles, EventForEach, Tickets, Held, Unsent
  <1>2. CASE MainStep
    BY <1>2, MainNoWorker, RunQueue, PushesQueue, CountsQueue, NotifiesQueue, HeartBeatQueue, FollowedQueue,
       FinalizeQueue, JoinedQueue DEF MainStep, pushTask
  <1>3. CASE AskFirst
    BY <1>3, MainNoWorker, AskQueue DEF AskFirst
  <1>4. ASSUME NEW w \in Worker, WorkerStep(w) PROVE QueueInv'
    BY <1>4, MainNoWorker, PushesQueue, CountsQueue, NotifiesQueue, StartQueue, EpollWaitQueue, ReadEventQueue,
       PopQueue, ForwardQueue, WaitQueue, NotifyQueue, ReleasedQueue, CloseQueue DEF WorkerStep, pushTask
  <1>5. ASSUME NEW w \in Worker, releaseTask(w) \/ Ask(w) PROVE QueueInv'
    BY <1>5, MainNoWorker, ReleaseQueue, AskQueue
  <1> QED BY <1>1, <1>2, <1>3, <1>4, <1>5 DEF Next

LEMMA SpecQueue == Spec => []QueueInv
  BY InitQueue, StepQueue, PTL DEF Spec

(* Every variable keeps its type, and no worker ever finds the deque empty  *)
(* that has read an event: front() of it is defined (STRootWorker.cc:314).  *)
THEOREM TypeCorrect == Spec => []TypeOK
  <1>1. QueueInv => TypeOK
    BY DEF QueueInv
  <1> QED BY <1>1, SpecQueue, PTL

-----------------------------------------------------------------------------
(* Events wake workers.  A write lists a worker that waits, or all.         *)
LEMMA WriteAlerts ==
  ASSUME QueueInv, NEW n \in Nat, Write(n),
         \A w \in Worker : pc'[w] = pc[w] \/ (pc[w] = "forward" /\ pc'[w] = "run")
  PROVE  Alert'
  <1>1. PICK to \in SUBSET Live : /\ to = Live \/ to \cap {w \in Live : pc[w] = "poll"} # {}
                                  /\ ready' = ready \cup to
    BY DEF Write, Live
  <1>2. Live' = Live
    BY DEF Live
  <1>3. CASE to = Live
    BY <1>1, <1>2, <1>3 DEF Alert
  <1>4. CASE to \cap {w \in Live : pc[w] = "poll"} # {}
    <2>1. PICK w \in Worker : w \in to /\ pc[w] = "poll"
      BY <1>4 DEF Live
    <2> QED BY <1>1, <2>1 DEF Alert
  <1> QED BY <1>1, <1>3, <1>4

(* Where workers go who neither wait nor read changes nothing.              *)
LEMMA AlertFrame ==
  ASSUME Alert, eventFd' = eventFd, ready' = ready,
         \A w \in Worker : \/ pc'[w] = pc[w]
                           \/ pc[w] \notin {"start", "poll", "events", "end"} /\ pc'[w] # "start"
  PROVE  Alert'
  <1>1. Live' \subseteq Live
    BY DEF Live
  <1> QED BY <1>1 DEF Alert

LEMMA NotWorkers ==
  ASSUME TypeOK, NEW where, pc' = [pc EXCEPT ![Main] = where], NEW w \in Worker
  PROVE  pc'[w] = pc[w]
  BY MainNoWorker DEF TypeOK

LEMMA Elsewhere ==
  ASSUME TypeOK, NEW v \in Worker, NEW where, pc' = [pc EXCEPT ![v] = where], NEW w \in Worker
  PROVE  pc'[w] = IF w = v THEN where ELSE pc[w]
  BY MainNoWorker DEF TypeOK

LEMMA MainAlert == ASSUME QueueInv, NoErrno, MainStep PROVE NoErrno'
  <1>1. ASSUME \/ Pushes(Main) \/ Counts(Main) \/ onHeartBeat \/ PerformFollowed
        PROVE  UNCHANGED <<eventFd, ready, eintr, pc>>
    BY <1>1 DEF Pushes, Counts, onHeartBeat, PerformFollowed, PerformKept, queue, workers
  <1>2. ASSUME Run \/ finalize \/ Joined
        PROVE  UNCHANGED <<eventFd, ready, eintr>> /\ \A w \in Worker : pc'[w] = pc[w]
    BY <1>2, NotWorkers DEF Run, finalize, Joined, Goto, queue, workers, QueueInv
  <1>3. ASSUME Notifies(Main)
        PROVE  NoErrno'
    BY <1>3, WriteAlerts DEF Notifies, workers, NoErrno
  <1> QED BY <1>1, <1>2, <1>3, AlertFrame DEF MainStep, pushTask, NoErrno

LEMMA AskAlert == ASSUME NoErrno, NEW p \in Thread, Ask(p) PROVE NoErrno'
  <1>1. UNCHANGED <<eventFd, ready, eintr, pc>>
    BY DEF Ask, scheduleCancel, performTask, runFollowedTask, scheduleTask, queue, workers
  <1> QED BY <1>1, AlertFrame DEF NoErrno

LEMMA WorkerAlert == ASSUME ~Interrupts, QueueInv, NoErrno, NEW w \in Worker, WorkerStep(w) \/ releaseTask(w) PROVE NoErrno'
  <1>1. ASSUME Pushes(w) \/ Counts(w)
        PROVE  NoErrno'
    <2>1. UNCHANGED <<eventFd, ready, eintr, pc>>
      BY <1>1 DEF Pushes, Counts, workers
    <2> QED BY <2>1, AlertFrame DEF NoErrno
  <1>2. ASSUME Notifies(w)
        PROVE  NoErrno'
    BY <1>2, WriteAlerts DEF Notifies, workers, NoErrno
  <1>3. ASSUME Start(w)
        PROVE  NoErrno'
    <2>1. /\ pc[w] = "start" /\ pc' = [pc EXCEPT ![w] = "poll"] /\ UNCHANGED <<eventFd, eintr>>
          /\ ready' = IF eventFd > 0 THEN ready \cup {w} ELSE ready
      BY <1>3 DEF Start, Goto, workers
    <2>2. pc'[w] = "poll"
      BY <2>1, Elsewhere DEF QueueInv
    <2> QED BY <2>1, <2>2 DEF NoErrno, Alert
  <1>4. ASSUME EpollWait(w)
        PROVE  NoErrno'
    <2> DEFINE event == w \in ready /\ eventFd > 0
    <2>1. /\ pc[w] = "poll" /\ ready' = ready \ {w} /\ UNCHANGED <<eventFd, eintr>>
          /\ pc' = [pc EXCEPT ![w] = IF event THEN "events" ELSE "close"]
      BY <1>4 DEF EpollWait, Goto, NoErrno
    <2>2. \A v \in Worker : pc'[v] = IF v = w THEN IF event THEN "events" ELSE "close" ELSE pc[v]
      BY <2>1, Elsewhere DEF QueueInv
    <2>3. CASE event
      BY <2>1, <2>2, <2>3 DEF NoErrno, Alert
    <2>4. CASE ~event
      <3>1. eventFd > 0 => \E v \in Worker \ {w} : pc[v] = "events" \/ (pc[v] = "poll" /\ v \in ready)
        BY <2>1, <2>4 DEF NoErrno, Alert, Live
      <3> QED BY <2>1, <2>2, <3>1 DEF NoErrno, Alert
    <2> QED BY <2>3, <2>4
  <1>5. ASSUME ReadEvent(w)
        PROVE  NoErrno'
    BY <1>5 DEF ReadEvent, NoErrno, Alert
  <1>6. ASSUME Forward(w)
        PROVE  NoErrno'
    <2>1. /\ pc[w] = "forward" /\ pc' = [pc EXCEPT ![w] = "run"] /\ eintr' = eintr
      BY <1>6 DEF Forward, Goto
    <2>2. \A v \in Worker : pc'[v] = IF v = w THEN "run" ELSE pc[v]
      BY <2>1, Elsewhere DEF QueueInv
    <2>3. CASE value[w] > 1
      <3>1. value[w] - 1 \in Nat /\ Write(value[w] - 1)
        BY <1>6, <2>3 DEF Forward, QueueInv, TypeOK
      <3> QED BY <2>1, <2>2, <3>1, WriteAlerts DEF NoErrno
    <2>4. CASE ~(value[w] > 1)
      <3>1. UNCHANGED <<eventFd, ready>>
        BY <1>6, <2>4 DEF Forward
      <3> QED BY <2>1, <2>2, <3>1, AlertFrame DEF NoErrno
    <2> QED BY <2>3, <2>4
  <1>7. ASSUME popTask(w) \/ waitForAll(w) \/ Notify(w) \/ Released(w) \/ Close(w) \/ releaseTask(w)
        PROVE  NoErrno'
    <2>1. /\ UNCHANGED <<eventFd, ready, eintr>> /\ pc[w] \in {"pop", "run", "wait", "notify", "count", "close"}
          /\ \E where \in {"fault", "forward", "run", "wait", "notify", "count", "close", "end", "poll"} : pc' = [pc EXCEPT ![w] = where]
      BY <1>7 DEF popTask, waitForAll, Notify, Released, Close, releaseTask, Busy, Goto, queue, workers
    <2>2. \A v \in Worker \ {w} : pc'[v] = pc[v]
      BY <2>1, Elsewhere DEF QueueInv
    <2>3. pc'[w] # "start"
      BY <2>1, Elsewhere DEF QueueInv
    <2> QED BY <2>1, <2>2, <2>3, AlertFrame DEF NoErrno
  <1> QED BY <1>1, <1>2, <1>3, <1>4, <1>5, <1>6, <1>7 DEF WorkerStep, pushTask

(* An event in the descriptor never waits for a busy worker while another   *)
(* sleeps, for any number of workers: edges are neither lost nor spent on a *)
(* worker that does not read, if tasks leave no EINTR in errno.             *)
THEOREM WokenCorrect == ~Interrupts /\ Spec => []WokenForTasks
  <1>1. ASSUME ~Interrupts PROVE Spec => []WokenForTasks
    <2>1. Init => NoErrno
      BY DEF Init, NoErrno, Alert
    <2>2. QueueInv /\ NoErrno /\ [Next]_vars => NoErrno'
      <3> SUFFICES ASSUME QueueInv, NoErrno, [Next]_vars PROVE NoErrno'
        OBVIOUS
      <3>1. CASE UNCHANGED vars
        BY <3>1, AlertFrame DEF vars, queue, workers, NoErrno
      <3>2. CASE Next
        BY <1>1, <3>2, MainNoWorker, MainAlert, AskAlert, WorkerAlert DEF Next, AskFirst
      <3> QED BY <3>1, <3>2
    <2>3. NoErrno => WokenForTasks
      BY DEF NoErrno, Alert, WokenForTasks, Live
    <2> QED BY <2>1, <2>2, <2>3, SpecQueue, PTL DEF Spec
  <1> QED BY <1>1

-----------------------------------------------------------------------------
(* Where tasks are: what Append and Tail do to membership.                  *)
LEMMA AppendIn ==
  ASSUME NEW S, NEW s \in Seq(S), NEW e \in S
  PROVE  /\ \A x : In(Append(s, e), x) <=> In(s, x) \/ x = e
         /\ Once(s) /\ ~In(s, e) => Once(Append(s, e))
  BY DEF In, Once

LEMMA TailIn ==
  ASSUME NEW S, NEW s \in Seq(S), s # <<>>, Once(s)
  PROVE  /\ \A x : In(Tail(s), x) <=> In(s, x) /\ x # Head(s)
         /\ Once(Tail(s)) /\ Head(s) \in S /\ In(s, Head(s))
  <1>1. /\ Len(s) \in Nat /\ Len(s) > 0 /\ Head(s) = s[1] /\ Tail(s) \in Seq(S) /\ Len(Tail(s)) = Len(s) - 1
        /\ \A i \in 1..(Len(s) - 1) : Tail(s)[i] = s[i + 1]
    OBVIOUS
  <1>2. Once(Tail(s))
    BY <1>1 DEF Once
  <1>3. ASSUME NEW x PROVE In(Tail(s), x) <=> In(s, x) /\ x # Head(s)
    <2>1. ASSUME In(Tail(s), x) PROVE In(s, x) /\ x # Head(s)
      <3>1. PICK i \in 1..(Len(s) - 1) : s[i + 1] = x
        BY <1>1, <2>1 DEF In
      <3> QED BY <1>1, <3>1 DEF In, Once
    <2>2. ASSUME In(s, x), x # Head(s) PROVE In(Tail(s), x)
      <3>1. PICK i \in 1..Len(s) : s[i] = x
        BY <2>2 DEF In
      <3>2. i - 1 \in 1..(Len(s) - 1) /\ Tail(s)[i - 1] = x
        BY <1>1, <2>2, <3>1
      <3> QED BY <1>1, <3>2 DEF In
    <2> QED BY <2>1, <2>2
  <1>4. In(s, Head(s)) /\ Head(s) \in S
    BY <1>1 DEF In
  <1> QED BY <1>2, <1>3, <1>4

(* What moves no task.                                                      *)
LEMMA PlacesFrame ==
  ASSUME PlacesInv,
         UNCHANGED <<taskDeque, followed, scheduled, state, group, performed, task>>,
         \A p \in Thread : /\ stage'[p] = "push" <=> stage[p] = "push"
                           /\ stage[p] = "push" => pushing'[p] = pushing[p],
         \A w \in Worker : pc'[w] = pc[w] \/ (pc[w] \notin Holding /\ pc'[w] \notin Holding)
  PROVE  PlacesInv'
  <1>1. \A t : (InDeque(t)' <=> InDeque(t)) /\ (Follows(t)' <=> Follows(t)) /\ (Pushed(t)' <=> Pushed(t))
    BY DEF InDeque, Follows, In, Pushed
  <1>2. StateOfPlace'
    <2>1. \A w \in Worker : /\ pc'[w] = "forward" => state[task[w]] = "pushed"
                            /\ pc'[w] \in {"run", "wait"} => state[task[w]] = "running"
                            /\ pc'[w] \in {"notify", "count"} => state[task[w]] \in {"executed", "done"}
      BY DEF PlacesInv, StateOfPlace, Holding
    <2> QED BY <1>1, <2>1 DEF PlacesInv, StateOfPlace
  <1>3. PlaceOfState'
    BY <1>1 DEF PlacesInv, PlaceOfState
  <1>4. OnePlace'
    BY <1>1 DEF PlacesInv, OnePlace, Once
  <1> QED BY <1>2, <1>3, <1>4 DEF PlacesInv

(* The task that is pushed goes to the deque.                               *)
LEMMA PushesPlaces == ASSUME QueueInv, PlacesInv, NEW p \in Thread, Pushes(p) PROVE PlacesInv'
  <1> DEFINE u == pushing[p]
  <1>1. /\ stage[p] = "push" /\ stage' = [stage EXCEPT ![p] = "count"] /\ u \in Task
        /\ taskDeque' = Append(taskDeque, u)
        /\ UNCHANGED <<followed, scheduled, state, group, performed, task, pc, pushing>>
    BY DEF QueueInv, TypeOK, Roles, Pushes, workers, root, groups
  <1>2. /\ stage'[p] = "count" /\ \A q \in Thread \ {p} : stage'[q] = stage[q]
        /\ Pushed(u) /\ ~InDeque(u) /\ state[u] = "pushed"
        /\ \A w \in Worker : task[w] # None => task[w] # u
    BY <1>1 DEF QueueInv, TypeOK, PlacesInv, OnePlace, StateOfPlace, Pushed
  <1>3. \A t : InDeque(t)' <=> InDeque(t) \/ t = u
    BY <1>1, AppendIn DEF InDeque, QueueInv, TypeOK
  <1>4. \A t : Follows(t)' <=> Follows(t)
    BY <1>1 DEF Follows
  <1>5. \A t : Pushed(t)' <=> Pushed(t) /\ t # u
    BY <1>1, <1>2 DEF Pushed, PlacesInv, OnePlace
  <1>6. Once(taskDeque') /\ Once(followed')
    BY <1>1, <1>2, AppendIn DEF InDeque, QueueInv, TypeOK, PlacesInv, OnePlace
  <1>7. StateOfPlace'
    <2>1. \A t \in Task : /\ InDeque(t)' \/ Pushed(t)' => state[t] = "pushed"
                          /\ Follows(t)' \/ t \in scheduled => state[t] = "kept"
      BY <1>2, <1>3, <1>4, <1>5 DEF PlacesInv, StateOfPlace
    <2> QED BY <1>1, <2>1 DEF PlacesInv, StateOfPlace
  <1>8. PlaceOfState'
    BY <1>1, <1>2, <1>3, <1>5 DEF PlacesInv, PlaceOfState
  <1>9. OnePlace'
    BY <1>1, <1>2, <1>3, <1>4, <1>5, <1>6 DEF PlacesInv, OnePlace
  <1> QED BY <1>7, <1>8, <1>9 DEF PlacesInv

(* A task that nobody has begins to be pushed.                              *)
LEMMA BeginPlaces ==
  ASSUME QueueInv, PlacesInv, NEW p \in Thread, NEW t \in Task, Begin(p, t), stage[p] = "none",
         state[t] \in {"new", "kept"}, state'[t] = "pushed",
         \A u \in Task \ {t} :
             /\ state'[u] = state[u] \/ (state[u] = "executed" /\ state'[u] = "done")
             /\ group'[u] = group[u],
         \A g \in Task : performed'[g] = performed[g] \cap {u \in Task : state'[u] = "executed"},
         UNCHANGED <<taskDeque, task, pc>>,
         \A u \in Task : (Follows(u)' <=> Follows(u) /\ u # t),
         Once(followed'), scheduled' = scheduled \ {t}
  PROVE  PlacesInv'
  <1>1. /\ stage'[p] = "push" /\ pushing'[p] = t
        /\ \A q \in Thread \ {p} : stage'[q] = stage[q] /\ pushing'[q] = pushing[q]
    BY DEF Begin, QueueInv, TypeOK
  <1>2. \A u : Pushed(u)' <=> Pushed(u) \/ u = t
    BY <1>1 DEF Pushed
  <1>3. \A u : InDeque(u)' <=> InDeque(u)
    BY DEF InDeque
  <1>4. /\ ~InDeque(t) /\ ~Pushed(t)
        /\ \A w \in Worker : pc[w] \in Holding => task[w] # t
        /\ \A g \in Task : t \notin performed[g]
    BY DEF PlacesInv, StateOfPlace, Holding
  <1>5. \A w \in Worker : task[w] # None => task[w] \in Task /\ task[w] # t
    BY <1>4 DEF QueueInv, TypeOK, Roles, Holding
  <1>6. StateOfPlace'
    <2>1. \A w \in Worker : /\ pc'[w] = "forward" => state'[task'[w]] = "pushed"
                            /\ pc'[w] \in {"run", "wait"} => state'[task'[w]] = "running"
                            /\ pc'[w] \in {"notify", "count"} => state'[task'[w]] \in {"executed", "done"}
      BY <1>5 DEF PlacesInv, StateOfPlace, QueueInv, Roles, Holding
    <2>2. \A g \in Task : \A u \in performed'[g] : state'[u] = "executed" /\ group'[u] = g
      BY <1>4 DEF PlacesInv, StateOfPlace
    <2>3. \A u \in Task : /\ InDeque(u)' \/ Pushed(u)' => state'[u] = "pushed"
                          /\ Follows(u)' \/ u \in scheduled' => state'[u] = "kept"
      BY <1>2, <1>3 DEF PlacesInv, StateOfPlace
    <2> QED BY <2>1, <2>2, <2>3 DEF StateOfPlace
  <1>7. PlaceOfState'
    <2> SUFFICES ASSUME NEW u \in Task
                 PROVE  /\ state'[u] = "pushed" => InDeque(u)' \/ Pushed(u)' \/ \E w \in Worker : task'[w] = u
                        /\ state'[u] = "running" => \E w \in Worker : task'[w] = u
                        /\ state'[u] = "executed" => group'[u] # None /\ u \in performed'[group'[u]]
                        /\ state'[u] \in {"new", "kept"} => group'[u] = None
      BY DEF PlaceOfState
    <2>1. CASE u = t
      BY <1>2, <2>1
    <2>2. CASE u # t
      <3>1. group[u] \in Task \cup {None}
        BY DEF QueueInv, TypeOK
      <3> QED BY <1>2, <1>3, <2>2, <3>1 DEF PlacesInv, PlaceOfState
    <2> QED BY <2>1, <2>2
  <1>8. OnePlace'
    <2>1. /\ Once(taskDeque') /\ Once(followed')
          /\ \A u \in Task : ~(Follows(u)' /\ u \in scheduled') /\ ~(Pushed(u)' /\ InDeque(u)')
      BY <1>2, <1>3, <1>4 DEF PlacesInv, OnePlace
    <2>2. \A q, r \in Thread : stage'[q] = "push" /\ stage'[r] = "push" /\ pushing'[q] = pushing'[r] => q = r
      BY <1>1, <1>4 DEF PlacesInv, OnePlace, Pushed
    <2>3. \A w \in Worker : task'[w] # None => ~InDeque(task[w])' /\ ~Pushed(task[w])'
      BY <1>2, <1>3, <1>5 DEF PlacesInv, OnePlace, InDeque, Pushed
    <2> QED BY <2>1, <2>2, <2>3 DEF PlacesInv, OnePlace
  <1> QED BY <1>6, <1>7, <1>8 DEF PlacesInv

(* A group completes what it has back.                                      *)
LEMMA UpdatePlaces ==
  ASSUME QueueInv, PlacesInv, NEW g \in Task, update(g)
  PROVE  /\ \A u \in Task : Done(g)[u] = IF u \in performed[g] THEN "done" ELSE state[u]
         /\ \A u \in performed[g] : state[u] = "executed" /\ group[u] = g
         /\ \A h \in Task : performed'[h] = performed[h] \cap {u \in Task : Done(g)[u] = "executed"}
  <1>1. performed' = [performed EXCEPT ![g] = {}]
    BY DEF update
  <1>2. \A u \in Task : Done(g)[u] = IF u \in performed[g] THEN "done" ELSE state[u]
    BY DEF Done
  <1>3. \A h \in Task : \A u \in performed[h] : u \in Task /\ state[u] = "executed" /\ group[u] = h
    BY DEF PlacesInv, StateOfPlace, QueueInv, TypeOK
  <1>4. ASSUME NEW h \in Task PROVE performed'[h] = performed[h] \cap {u \in Task : Done(g)[u] = "executed"}
    <2>1. CASE h = g
      BY <1>1, <1>2, <1>3, <2>1 DEF QueueInv, TypeOK
    <2>2. CASE h # g
      BY <1>1, <1>2, <1>3, <2>2 DEF QueueInv, TypeOK
    <2> QED BY <2>1, <2>2
  <1> QED BY <1>2, <1>3, <1>4

LEMMA PerformPlaces ==
  ASSUME QueueInv, PlacesInv, NEW p \in Thread, NEW t \in Task, performTask(p, t) PROVE PlacesInv'
  <1> USE DEF performTask
  <1>1. /\ stage[p] = "none" /\ Begin(p, t) /\ state[t] = "new"
        /\ UNCHANGED <<taskDeque, task, pc, followed, scheduled>>
    BY DEF Asks, Busy, New, queue, workers, root
  <1>2. p # Main => task[p] \in Task
    BY MainNoWorker DEF Asks, Busy, QueueInv, TypeOK, Roles, Holding, Thread
  <1>3. PICK g \in Groups(p) :
          /\ group' = [group EXCEPT ![t] = g]
          /\ \/ /\ UNCHANGED performed
                /\ state' = [state EXCEPT ![t] = "pushed"]
             \/ /\ g # None /\ g = Own(p) /\ update(g)
                /\ state' = [Done(g) EXCEPT ![t] = "pushed"]
    OBVIOUS
  <1>4. g # None /\ g = Own(p) => g \in Task
    BY <1>2, GroupType DEF QueueInv
  <1>5. \A u \in Task \ {t} : group'[u] = group[u]
    BY <1>3 DEF QueueInv, TypeOK
  <1>6. ~Follows(t) /\ t \notin scheduled /\ \A h \in Task : t \notin performed[h]
    BY <1>1 DEF PlacesInv, StateOfPlace
  <1>7. (\A u : Follows(u)' <=> Follows(u)) /\ Once(followed')
    BY <1>1 DEF Follows, PlacesInv, OnePlace
  <1>8. /\ state'[t] = "pushed"
        /\ \A u \in Task \ {t} : state'[u] = state[u] \/ (state[u] = "executed" /\ state'[u] = "done")
        /\ \A h \in Task : performed'[h] = performed[h] \cap {u \in Task : state'[u] = "executed"}
    <2>1. CASE UNCHANGED performed /\ state' = [state EXCEPT ![t] = "pushed"]
      <3>1. \A u \in Task : state'[u] = IF u = t THEN "pushed" ELSE state[u]
        BY <2>1 DEF QueueInv, TypeOK
      <3>2. \A h \in Task : \A u \in performed[h] : u \in Task /\ state'[u] = "executed"
        BY <1>6, <3>1 DEF PlacesInv, StateOfPlace, QueueInv, TypeOK
      <3> QED BY <2>1, <3>1, <3>2
    <2>2. CASE g \in Task /\ update(g) /\ state' = [Done(g) EXCEPT ![t] = "pushed"]
      <3>1. /\ \A u \in Task : Done(g)[u] = IF u \in performed[g] THEN "done" ELSE state[u]
            /\ \A u \in performed[g] : state[u] = "executed"
            /\ \A h \in Task : performed'[h] = performed[h] \cap {u \in Task : Done(g)[u] = "executed"}
        BY <2>2, UpdatePlaces
      <3>2. \A u \in Task : state'[u] = IF u = t THEN "pushed" ELSE Done(g)[u]
        BY <2>2 DEF Done
      <3> QED BY <1>6, <3>1, <3>2
    <2> QED BY <1>3, <1>4, <2>1, <2>2
  <1> QED BY <1>1, <1>5, <1>6, <1>7, <1>8, BeginPlaces

(* What is kept is followed or scheduled; what is due begins.               *)
LEMMA KeepPlaces ==
  ASSUME QueueInv, PlacesInv, NEW t \in Task, New(t), state' = [state EXCEPT ![t] = "kept"],
         UNCHANGED <<taskDeque, task, pc, push, group, performed>>,
         \/ followed' = Append(followed, t) /\ scheduled' = scheduled
         \/ followed' = followed /\ scheduled' = scheduled \cup {t}
  PROVE  PlacesInv'
  <1>1. \A u \in Task : state'[u] = IF u = t THEN "kept" ELSE state[u]
    BY DEF QueueInv, TypeOK
  <1>2. /\ state[t] = "new" /\ ~InDeque(t) /\ ~Pushed(t) /\ ~Follows(t) /\ t \notin scheduled
        /\ \A w \in Worker : pc[w] \in Holding => task[w] # t
        /\ \A g \in Task : t \notin performed[g]
    BY DEF New, PlacesInv, StateOfPlace, Holding
  <1>3. \A u : (InDeque(u)' <=> InDeque(u)) /\ (Pushed(u)' <=> Pushed(u))
    BY DEF InDeque, Pushed, push
  <1>4. /\ Once(followed') /\ \A u \in Task : ~(Follows(u)' /\ u \in scheduled')
        /\ \A u \in Task : Follows(u)' \/ u \in scheduled' <=> Follows(u) \/ u \in scheduled \/ u = t
    <2>1. CASE followed' = Append(followed, t) /\ scheduled' = scheduled
      <3>1. Once(followed') /\ \A u : Follows(u)' <=> Follows(u) \/ u = t
        BY <1>2, <2>1, AppendIn DEF Follows, QueueInv, TypeOK, PlacesInv, OnePlace
      <3> QED BY <1>2, <2>1, <3>1 DEF PlacesInv, OnePlace
    <2>2. CASE followed' = followed /\ scheduled' = scheduled \cup {t}
      BY <1>2, <2>2 DEF Follows, PlacesInv, OnePlace
    <2> QED BY <2>1, <2>2
  <1>5. \A w \in Worker : task[w] # None => task[w] \in Task /\ task[w] # t
    BY <1>2 DEF QueueInv, TypeOK, Roles
  <1>6. StateOfPlace'
    <2>1. \A w \in Worker : /\ pc[w] = "forward" => state'[task[w]] = "pushed"
                            /\ pc[w] \in {"run", "wait"} => state'[task[w]] = "running"
                            /\ pc[w] \in {"notify", "count"} => state'[task[w]] \in {"executed", "done"}
      BY <1>1, <1>5 DEF PlacesInv, StateOfPlace, QueueInv, Roles, Holding
    <2>2. \A g \in Task : \A u \in performed[g] : state'[u] = "executed" /\ group[u] = g
      BY <1>1, <1>2 DEF PlacesInv, StateOfPlace, QueueInv, TypeOK
    <2>3. \A u \in Task : /\ InDeque(u)' \/ Pushed(u)' => state'[u] = "pushed"
                          /\ Follows(u)' \/ u \in scheduled' => state'[u] = "kept"
      BY <1>1, <1>2, <1>3, <1>4 DEF PlacesInv, StateOfPlace
    <2> QED BY <2>1, <2>2, <2>3 DEF StateOfPlace
  <1>7. PlaceOfState'
    BY <1>1, <1>2, <1>3 DEF PlacesInv, PlaceOfState
  <1>8. OnePlace'
    BY <1>3, <1>4, <1>5 DEF PlacesInv, OnePlace, push
  <1> QED BY <1>6, <1>7, <1>8 DEF PlacesInv

LEMMA KeptPlaces ==
  ASSUME QueueInv, PlacesInv, NEW t \in Task, state[t] \in {"new", "kept"}, NEW p \in Thread,
         stage[p] = "none", Begin(p, t), state' = [state EXCEPT ![t] = "pushed"],
         UNCHANGED <<taskDeque, task, pc, group, performed>>,
         \A u \in Task : (Follows(u)' <=> Follows(u) /\ u # t),
         Once(followed'), scheduled' = scheduled \ {t}
  PROVE  PlacesInv'
  <1>1. \A u \in Task : state'[u] = IF u = t THEN "pushed" ELSE state[u]
    BY DEF QueueInv, TypeOK
  <1>2. \A g \in Task : \A u \in performed[g] : u \in Task /\ state[u] = "executed"
    BY DEF PlacesInv, StateOfPlace, QueueInv, TypeOK
  <1>3. \A g \in Task : performed'[g] = performed[g] \cap {u \in Task : state'[u] = "executed"}
    BY <1>1, <1>2
  <1> QED BY <1>1, <1>3, BeginPlaces

LEMMA FollowPlaces ==
  ASSUME QueueInv, PlacesInv, NEW p \in Thread, NEW t \in Task, runFollowedTask(p, t) PROVE PlacesInv'
  <1> USE DEF runFollowedTask
  <1>1. /\ stage[p] = "none" /\ New(t) /\ state[t] = "new"
        /\ UNCHANGED <<taskDeque, task, pc, scheduled, group, performed>>
    BY DEF Asks, Busy, New, queue, workers, groups
  <1>2. CASE hasTasks
    BY <1>1, <1>2, KeepPlaces
  <1>3. CASE ~hasTasks
    <2>1. Begin(p, t) /\ UNCHANGED followed /\ state' = [state EXCEPT ![t] = "pushed"]
      BY <1>3
    <2>2. ~Follows(t) /\ t \notin scheduled /\ Once(followed)
      BY <1>1 DEF PlacesInv, StateOfPlace, OnePlace
    <2>3. \A u : Follows(u)' <=> Follows(u)
      BY <2>1 DEF Follows
    <2> QED BY <1>1, <2>1, <2>2, <2>3, KeptPlaces
  <1> QED BY <1>2, <1>3

LEMMA SchedulePlaces ==
  ASSUME QueueInv, PlacesInv, NEW p \in Thread, NEW t \in Task, scheduleTask(p, t) PROVE PlacesInv'
  BY KeepPlaces DEF scheduleTask, queue, workers, groups

LEMMA HeartBeatPlaces == ASSUME QueueInv, PlacesInv, onHeartBeat PROVE PlacesInv'
  <1>1. PICK t \in scheduled : scheduled' = scheduled \ {t} /\ PerformKept(t)
    BY DEF onHeartBeat
  <1>2. t \in Task /\ state[t] = "kept" /\ ~Follows(t) /\ Once(followed)
    BY DEF PlacesInv, StateOfPlace, OnePlace, QueueInv, TypeOK
  <1>3. /\ stage[Main] = "none" /\ Begin(Main, t) /\ state' = [state EXCEPT ![t] = "pushed"]
        /\ UNCHANGED <<taskDeque, task, pc, group, performed, followed>>
    BY <1>1 DEF onHeartBeat, Busy, PerformKept, queue, workers, groups
  <1>4. \A u : Follows(u)' <=> Follows(u)
    BY <1>3 DEF Follows
  <1> QED BY <1>1, <1>2, <1>3, <1>4, KeptPlaces, MainNoWorker

LEMMA FollowedPlaces == ASSUME QueueInv, PlacesInv, PerformFollowed PROVE PlacesInv'
  <1> DEFINE t == Head(followed)
  <1>1. /\ stage[Main] = "none" /\ Begin(Main, t) /\ state' = [state EXCEPT ![t] = "pushed"]
        /\ followed # <<>> /\ followed' = Tail(followed)
        /\ UNCHANGED <<taskDeque, task, pc, group, performed, scheduled>>
    BY DEF PerformFollowed, Busy, PerformKept, queue, workers, groups
  <1>2. t \in Task /\ Follows(t) /\ Once(followed') /\ \A u : Follows(u)' <=> Follows(u) /\ u # t
    BY <1>1, TailIn DEF Follows, PlacesInv, OnePlace, QueueInv, TypeOK
  <1>3. state[t] = "kept" /\ t \notin scheduled
    BY <1>2 DEF PlacesInv, StateOfPlace, OnePlace
  <1> HIDE DEF t
  <1> QED BY <1>1, <1>2, <1>3, KeptPlaces, MainNoWorker

(* A worker takes the first task of the deque.                              *)
LEMMA PopPlaces == ASSUME QueueInv, PlacesInv, NEW w \in Worker, popTask(w) PROVE PlacesInv'
  <1> DEFINE u == Head(taskDeque)
  <1>1. pc[w] = "pop" /\ value[w] \in Nat /\ value[w] > 0 /\ task[w] = None
    BY DEF popTask, QueueInv, TypeOK, Roles, Holding
  <1>2. taskDeque # <<>>
    BY <1>1, HasTask DEF Held
  <1>3. /\ task' = [task EXCEPT ![w] = u] /\ taskDeque' = Tail(taskDeque)
        /\ pc' = [pc EXCEPT ![w] = "forward"]
        /\ UNCHANGED <<push, root, groups, state>>
    BY <1>2 DEF popTask, Goto
  <1>4. /\ u \in Task /\ InDeque(u) /\ Once(taskDeque') /\ \A t : InDeque(t)' <=> InDeque(t) /\ t # u
    BY <1>2, <1>3, TailIn DEF InDeque, PlacesInv, OnePlace, QueueInv, TypeOK
  <1> HIDE DEF u
  <1>5. /\ state[u] = "pushed" /\ ~Pushed(u) /\ u # None
        /\ \A v \in Worker : task[v] # u
    BY <1>4, MainNoWorker DEF PlacesInv, StateOfPlace, OnePlace
  <1>6. \A t : (Pushed(t)' <=> Pushed(t)) /\ (Follows(t)' <=> Follows(t))
    BY <1>3 DEF Pushed, Follows, push, root
  <1>7. \A v \in Worker : /\ task'[v] = IF v = w THEN u ELSE task[v]
                          /\ pc'[v] = IF v = w THEN "forward" ELSE pc[v]
    BY <1>3, Elsewhere DEF QueueInv, TypeOK
  <1>8. StateOfPlace'
    <2>1. \A v \in Worker : /\ pc'[v] = "forward" => state[task'[v]] = "pushed"
                            /\ pc'[v] \in {"run", "wait"} => state[task'[v]] = "running"
                            /\ pc'[v] \in {"notify", "count"} => state[task'[v]] \in {"executed", "done"}
      BY <1>5, <1>7 DEF PlacesInv, StateOfPlace
    <2> QED BY <1>3, <1>4, <1>6, <2>1 DEF PlacesInv, StateOfPlace, root, groups
  <1>9. PlaceOfState'
    <2> SUFFICES ASSUME NEW t \in Task
                 PROVE  /\ state[t] = "pushed" => InDeque(t)' \/ Pushed(t)' \/ \E v \in Worker : task'[v] = t
                        /\ state[t] = "running" => \E v \in Worker : task'[v] = t
                        /\ state[t] = "executed" => group[t] # None /\ t \in performed[group[t]]
                        /\ state[t] \in {"new", "kept"} => group[t] = None
      BY <1>3 DEF PlaceOfState, groups
    <2>1. CASE t = u
      BY <1>5, <1>7, <2>1
    <2>2. CASE t # u
      <3>1. \A v \in Worker : task[v] = t => task'[v] = t
        BY <1>1, <1>7, MainNoWorker
      <3> QED BY <1>4, <1>6, <2>2, <3>1 DEF PlacesInv, PlaceOfState
    <2> QED BY <2>1, <2>2
  <1>10. OnePlace'
    <2>1. Once(followed') /\ \A t \in Task : ~(Follows(t)' /\ t \in scheduled') /\ ~(Pushed(t)' /\ InDeque(t)')
      BY <1>3, <1>4, <1>6 DEF PlacesInv, OnePlace, root
    <2>2. \A v \in Worker : task'[v] # None => ~InDeque(task[v])' /\ ~Pushed(task[v])'
      BY <1>4, <1>5, <1>6, <1>7 DEF PlacesInv, OnePlace, InDeque, Pushed
    <2> QED BY <1>3, <1>4, <1>5, <1>7, <2>1, <2>2 DEF PlacesInv, OnePlace, push
  <1> QED BY <1>8, <1>9, <1>10 DEF PlacesInv

(* A worker's task changes its state, or the worker lets it go.             *)
LEMMA StatePlaces ==
  ASSUME QueueInv, PlacesInv, NEW w \in Worker, task[w] \in Task,
         UNCHANGED <<taskDeque, followed, scheduled, push, task, group>>,
         \A u \in Task \ {task[w]} : state'[u] = state[u] \/ (state[u] = "executed" /\ state'[u] = "done"),
         \A v \in Worker \ {w} : pc'[v] = pc[v],
         pc'[w] = "forward" => state'[task[w]] = "pushed",
         pc'[w] \in {"run", "wait"} => state'[task[w]] = "running",
         pc'[w] \in {"notify", "count"} => state'[task[w]] \in {"executed", "done"},
         state'[task[w]] \in {"pushed", "running", "executed", "done"},
         \A g \in Task : \A u \in performed'[g] : state'[u] = "executed" /\ group[u] = g,
         \A u \in Task : state'[u] = "executed" => group[u] # None /\ u \in performed'[group[u]]
  PROVE  PlacesInv'
  <1>1. \A t : (InDeque(t)' <=> InDeque(t)) /\ (Pushed(t)' <=> Pushed(t)) /\ (Follows(t)' <=> Follows(t))
    BY DEF InDeque, Pushed, Follows, push
  <1>2. ~InDeque(task[w]) /\ ~Pushed(task[w]) /\ ~Follows(task[w]) /\ task[w] \notin scheduled
    <2>1. pc[w] \in Holding /\ state[task[w]] # "kept"
      BY MainNoWorker DEF QueueInv, Roles, PlacesInv, StateOfPlace, Holding
    <2> QED BY <2>1, MainNoWorker DEF PlacesInv, OnePlace, StateOfPlace
  <1>3. \A v \in Worker \ {w} : task[v] # None => task[v] \in Task /\ task[v] # task[w]
    BY DEF QueueInv, TypeOK, PlacesInv, OnePlace
  <1>4. StateOfPlace'
    <2>1. ASSUME NEW v \in Worker
          PROVE  /\ pc'[v] = "forward" => state'[task[v]] = "pushed"
                 /\ pc'[v] \in {"run", "wait"} => state'[task[v]] = "running"
                 /\ pc'[v] \in {"notify", "count"} => state'[task[v]] \in {"executed", "done"}
      <3>1. CASE v = w
        BY <3>1
      <3>2. CASE v # w
        <4>1. pc[v] \in Holding => task[v] \in Task /\ task[v] # task[w]
          BY <1>3, <3>2 DEF QueueInv, Roles
        <4>2. pc'[v] = pc[v]
          BY <3>2
        <4> QED BY <4>1, <4>2 DEF PlacesInv, StateOfPlace, Holding
      <3> QED BY <3>1, <3>2
    <2>2. \A t \in Task : /\ InDeque(t)' \/ Pushed(t)' => state'[t] = "pushed"
                          /\ Follows(t)' \/ t \in scheduled' => state'[t] = "kept"
      BY <1>1, <1>2 DEF PlacesInv, StateOfPlace
    <2> QED BY <2>1, <2>2 DEF StateOfPlace
  <1>5. PlaceOfState'
    <2> SUFFICES ASSUME NEW t \in Task
                 PROVE  /\ state'[t] = "pushed" => InDeque(t)' \/ Pushed(t)' \/ \E v \in Worker : task[v] = t
                        /\ state'[t] = "running" => \E v \in Worker : task[v] = t
                        /\ state'[t] = "executed" => group[t] # None /\ t \in performed'[group[t]]
                        /\ state'[t] \in {"new", "kept"} => group[t] = None
      BY DEF PlaceOfState
    <2>1. CASE t = task[w]
      BY <2>1
    <2>2. CASE t # task[w]
      BY <1>1, <2>2 DEF PlacesInv, PlaceOfState
    <2> QED BY <2>1, <2>2
  <1>6. OnePlace'
    BY <1>1 DEF PlacesInv, OnePlace, push
  <1> QED BY <1>4, <1>5, <1>6 DEF PlacesInv

LEMMA ForwardPlaces == ASSUME QueueInv, PlacesInv, NEW w \in Worker, Forward(w) PROVE PlacesInv'
  <1>1. /\ pc[w] = "forward" /\ pc' = [pc EXCEPT ![w] = "run"] /\ task[w] \in Task
        /\ state' = [state EXCEPT ![task[w]] = "running"]
        /\ UNCHANGED <<taskDeque, task, push, root, groups>>
    BY DEF Forward, Goto, QueueInv, TypeOK, Roles, Holding
  <1>2. state[task[w]] = "pushed"
    BY <1>1 DEF PlacesInv, StateOfPlace
  <1>3. \A v \in Worker : pc'[v] = IF v = w THEN "run" ELSE pc[v]
    BY <1>1, Elsewhere DEF QueueInv
  <1>4. \A u \in Task : state'[u] = IF u = task[w] THEN "running" ELSE state[u]
    BY <1>1 DEF QueueInv, TypeOK
  <1>5. /\ \A g \in Task : \A u \in performed'[g] : state'[u] = "executed" /\ group[u] = g
        /\ \A u \in Task : state'[u] = "executed" => group[u] # None /\ u \in performed'[group[u]]
    BY <1>1, <1>2, <1>4 DEF PlacesInv, StateOfPlace, PlaceOfState, QueueInv, TypeOK, groups
  <1> QED BY <1>1, <1>3, <1>4, <1>5, StatePlaces DEF root, groups

LEMMA WaitPlaces == ASSUME QueueInv, PlacesInv, NEW w \in Worker, waitForAll(w) PROVE PlacesInv'
  <1> DEFINE g == task[w]
  <1>1. /\ pc[w] \in {"run", "wait"} /\ update(g) /\ state' = Done(g)
        /\ \E where \in {"run", "wait"} : pc' = [pc EXCEPT ![w] = where]
        /\ UNCHANGED <<taskDeque, task, push, root, group>>
    BY DEF waitForAll, Goto, Busy, queue, workers
  <1>2. g \in Task /\ state[g] = "running"
    BY <1>1 DEF QueueInv, TypeOK, Roles, Holding, PlacesInv, StateOfPlace
  <1>3. pc'[w] \in {"run", "wait"} /\ \A v \in Worker \ {w} : pc'[v] = pc[v]
    BY <1>1, Elsewhere DEF QueueInv
  <1>4. /\ \A u \in Task : state'[u] = IF u \in performed[g] THEN "done" ELSE state[u]
        /\ \A u \in performed[g] : state[u] = "executed" /\ group[u] = g
        /\ \A h \in Task : performed'[h] = performed[h] \cap {u \in Task : state'[u] = "executed"}
    BY <1>1, <1>2, UpdatePlaces
  <1>5. state'[g] = "running"
    BY <1>2, <1>4
  <1>6. \A u \in Task : state'[u] = "executed" => group[u] \in Task /\ u \in performed'[group[u]]
    BY <1>4 DEF PlacesInv, PlaceOfState, QueueInv, TypeOK
  <1>7. \A h \in Task : \A u \in performed'[h] : state'[u] = "executed" /\ group[u] = h
    BY <1>4 DEF PlacesInv, StateOfPlace
  <1> HIDE DEF g
  <1>8. g = task[w]
    BY DEF g
  <1> QED BY <1>1, <1>2, <1>3, <1>4, <1>5, <1>6, <1>7, <1>8, MainNoWorker, StatePlaces DEF root

LEMMA ReleasePlaces == ASSUME QueueInv, PlacesInv, NEW w \in Worker, releaseTask(w) PROVE PlacesInv'
  <1> DEFINE t == task[w]
  <1>1. /\ pc[w] = "run" /\ \E where \in {"notify", "count"} : pc' = [pc EXCEPT ![w] = where]
        /\ UNCHANGED <<taskDeque, task, push, root, group>>
    BY DEF releaseTask, Goto, Busy, queue
  <1>2. t \in Task /\ state[t] = "running"
    BY <1>1 DEF QueueInv, TypeOK, Roles, Holding, PlacesInv, StateOfPlace
  <1>3. pc'[w] \in {"notify", "count"} /\ \A v \in Worker \ {w} : pc'[v] = pc[v]
    BY <1>1, Elsewhere DEF QueueInv
  <1>4. \A g \in Task : t \notin performed[g]
    BY <1>2 DEF PlacesInv, StateOfPlace
  <1>5. /\ state'[t] \in {"executed", "done"} /\ \A u \in Task \ {t} : state'[u] = state[u]
        /\ \A g \in Task : \A u \in performed'[g] : state'[u] = "executed" /\ group[u] = g
        /\ \A u \in Task : state'[u] = "executed" => group[u] # None /\ u \in performed'[group[u]]
    <2>1. CASE group[t] = None
      <3>1. /\ \A u \in Task : state'[u] = IF u = t THEN "done" ELSE state[u]
            /\ performed' = performed
        BY <2>1 DEF releaseTask, QueueInv, TypeOK
      <3> QED BY <1>2, <1>4, <3>1 DEF PlacesInv, StateOfPlace, PlaceOfState, QueueInv, TypeOK
    <2>2. CASE group[t] # None
      <3>1. group[t] \in Task
        BY <1>2, <2>2 DEF QueueInv, TypeOK
      <3>2. /\ state' = [state EXCEPT ![t] = "executed"]
            /\ performed' = [performed EXCEPT ![group[t]] = @ \cup {t}]
        BY <2>2 DEF releaseTask
      <3>3. \A u \in Task : state'[u] = IF u = t THEN "executed" ELSE state[u]
        BY <3>2 DEF QueueInv, TypeOK
      <3>4. \A g \in Task : performed'[g] = IF g = group[t] THEN performed[g] \cup {t} ELSE performed[g]
        BY <3>2 DEF QueueInv, TypeOK
      <3>5. \A g \in Task : \A u \in performed'[g] : state'[u] = "executed" /\ group[u] = g
        <4> SUFFICES ASSUME NEW g \in Task, NEW u \in performed'[g] PROVE state'[u] = "executed" /\ group[u] = g
          OBVIOUS
        <4>1. CASE u = t
          <5>1. g = group[t]
            BY <1>4, <3>4, <4>1
          <5> QED BY <1>2, <3>3, <4>1, <5>1
        <4>2. CASE u # t
          <5>0. u \in performed[g]
            <6>1. CASE g = group[t]
              <7>1. performed'[g] = performed[g] \cup {t}
                BY <3>4, <6>1
              <7> QED BY <4>2, <7>1
            <6>2. CASE g # group[t]
              BY <3>4, <6>2
            <6> QED BY <6>1, <6>2
          <5>1. u \in performed[g] /\ u \in Task
            BY <5>0 DEF QueueInv, TypeOK
          <5>2. state[u] = "executed" /\ group[u] = g
            BY <5>1 DEF PlacesInv, StateOfPlace
          <5> QED BY <3>3, <4>2, <5>1, <5>2
        <4> QED BY <4>1, <4>2
      <3>6. \A u \in Task : state'[u] = "executed" => group[u] \in Task /\ u \in performed'[group[u]]
        <4> SUFFICES ASSUME NEW u \in Task, state'[u] = "executed" PROVE group[u] \in Task /\ u \in performed'[group[u]]
          OBVIOUS
        <4>1. CASE u = t
          BY <3>1, <3>4, <4>1
        <4>2. CASE u # t
          <5>1. state[u] = "executed"
            BY <3>3, <4>2
          <5>2. group[u] \in Task /\ u \in performed[group[u]]
            BY <5>1 DEF PlacesInv, PlaceOfState, QueueInv, TypeOK
          <5> QED BY <3>4, <5>2
        <4> QED BY <4>1, <4>2
      <3> QED BY <1>2, <3>3, <3>5, <3>6, MainNoWorker
    <2> QED BY <2>1, <2>2
  <1> HIDE DEF t
  <1>6. t = task[w]
    BY DEF t
  <1> QED BY <1>1, <1>2, <1>3, <1>5, <1>6, StatePlaces DEF root

LEMMA NotifyPlaces == ASSUME QueueInv, PlacesInv, NEW w \in Worker, Notify(w) PROVE PlacesInv'
  <1>1. /\ pc[w] = "notify" /\ pc' = [pc EXCEPT ![w] = "count"] /\ task[w] \in Task
        /\ UNCHANGED <<taskDeque, task, push, root, groups, state>>
    BY DEF Notify, Goto, queue, workers, QueueInv, TypeOK, Roles, Holding
  <1>2. state[task[w]] \in {"executed", "done"}
    BY <1>1 DEF PlacesInv, StateOfPlace
  <1>3. \A v \in Worker : pc'[v] = IF v = w THEN "count" ELSE pc[v]
    BY <1>1, Elsewhere DEF QueueInv
  <1>4. /\ \A g \in Task : \A u \in performed'[g] : state'[u] = "executed" /\ group[u] = g
        /\ \A u \in Task : state'[u] = "executed" => group[u] # None /\ u \in performed'[group[u]]
    BY <1>1 DEF PlacesInv, StateOfPlace, PlaceOfState, groups
  <1> QED BY <1>1, <1>2, <1>3, <1>4, StatePlaces DEF root, groups

LEMMA ReleasedPlaces == ASSUME QueueInv, PlacesInv, NEW w \in Worker, Released(w) PROVE PlacesInv'
  <1>1. /\ pc[w] = "count" /\ pc' = [pc EXCEPT ![w] = "close"] /\ task' = [task EXCEPT ![w] = None]
        /\ UNCHANGED <<taskDeque, push, root, groups, state>>
    BY DEF Released, Goto
  <1>2. \A v \in Worker : /\ task'[v] = IF v = w THEN None ELSE task[v]
                          /\ pc'[v] = IF v = w THEN "close" ELSE pc[v]
    BY <1>1, Elsewhere DEF QueueInv, TypeOK
  <1>3. \A t : (InDeque(t)' <=> InDeque(t)) /\ (Pushed(t)' <=> Pushed(t)) /\ (Follows(t)' <=> Follows(t))
    BY <1>1 DEF InDeque, Pushed, Follows, push, root
  <1>4. state[task[w]] \in {"executed", "done"}
    BY <1>1 DEF PlacesInv, StateOfPlace
  <1>5. StateOfPlace'
    <2>1. \A v \in Worker : /\ pc'[v] = "forward" => state[task'[v]] = "pushed"
                            /\ pc'[v] \in {"run", "wait"} => state[task'[v]] = "running"
                            /\ pc'[v] \in {"notify", "count"} => state[task'[v]] \in {"executed", "done"}
      BY <1>2 DEF PlacesInv, StateOfPlace
    <2> QED BY <1>1, <1>3, <2>1 DEF PlacesInv, StateOfPlace, root, groups
  <1>6. PlaceOfState'
    BY <1>1, <1>2, <1>3, <1>4 DEF PlacesInv, PlaceOfState, groups
  <1>7. OnePlace'
    <2>1. \A v \in Worker : task'[v] # None => ~InDeque(task[v])' /\ ~Pushed(task[v])'
      BY <1>2, <1>3 DEF PlacesInv, OnePlace, InDeque, Pushed
    <2> QED BY <1>1, <1>2, <1>3, <2>1 DEF PlacesInv, OnePlace, push, root
  <1> QED BY <1>5, <1>6, <1>7 DEF PlacesInv

LEMMA InitPlaces == Init => PlacesInv
  BY QueueParameters, MainNoWorker DEF Init, PlacesInv, StateOfPlace, PlaceOfState, OnePlace, In, Once, InDeque, Follows, Pushed

LEMMA AskPlaces == ASSUME QueueInv, PlacesInv, NEW p \in Thread, Ask(p) PROVE PlacesInv'
  <1>1. ASSUME scheduleCancel(p) PROVE PlacesInv'
    BY <1>1, PlacesFrame DEF scheduleCancel, queue, workers, push, groups
  <1> QED BY <1>1, PerformPlaces, FollowPlaces, SchedulePlaces DEF Ask

LEMMA PushPlaces == ASSUME QueueInv, PlacesInv, NEW p \in Thread, pushTask(p) PROVE PlacesInv'
  <1>1. ASSUME Counts(p) PROVE PlacesInv'
    BY <1>1, PlacesFrame DEF Counts, QueueInv, TypeOK, queue, workers, root, groups
  <1>2. ASSUME Notifies(p) PROVE PlacesInv'
    BY <1>2, PlacesFrame DEF Notifies, QueueInv, TypeOK, workers, groups
  <1> QED BY <1>1, <1>2, PushesPlaces DEF pushTask

LEMMA StepPlaces == QueueInv /\ PlacesInv /\ [Next]_vars => PlacesInv'
  <1> SUFFICES ASSUME QueueInv, PlacesInv, [Next]_vars PROVE PlacesInv'
    OBVIOUS
  <1>1. CASE UNCHANGED vars
    BY <1>1, PlacesFrame DEF vars, queue, workers, push, root, groups
  <1>2. CASE MainStep
    <2>1. ASSUME Run \/ finalize \/ Joined PROVE PlacesInv'
      <3>1. \A w \in Worker : pc'[w] = pc[w]
        BY <2>1, NotWorkers DEF Run, finalize, Joined, Goto, QueueInv
      <3> QED BY <2>1, <3>1, PlacesFrame DEF Run, finalize, Joined, queue, workers, push, root, groups
    <2> QED BY <1>2, <2>1, MainNoWorker, PushPlaces, HeartBeatPlaces, FollowedPlaces DEF MainStep
  <1>3. CASE AskFirst
    BY <1>3, MainNoWorker, AskPlaces DEF AskFirst
  <1>4. ASSUME NEW w \in Worker, WorkerStep(w) PROVE PlacesInv'
    <2>1. ASSUME Start(w) \/ EpollWait(w) \/ ReadEvent(w) \/ Close(w) PROVE PlacesInv'
      <3>1. /\ UNCHANGED <<taskDeque, followed, scheduled, state, group, performed, task, push>>
            /\ pc[w] \notin Holding
            /\ pc' = pc \/ \E where \in {"poll", "events", "close", "pop", "end"} : pc' = [pc EXCEPT ![w] = where]
        BY <2>1 DEF Start, EpollWait, ReadEvent, Close, Goto, Holding, queue, workers, root, groups
      <3>2. \A v \in Worker : pc'[v] = pc[v] \/ (pc[v] \notin Holding /\ pc'[v] \notin Holding)
        BY <3>1, Elsewhere DEF Holding, QueueInv
      <3> QED BY <3>1, <3>2, PlacesFrame DEF push
    <2> QED BY <1>4, <2>1, MainNoWorker, PushPlaces, PopPlaces, ForwardPlaces, WaitPlaces, NotifyPlaces, ReleasedPlaces
        DEF WorkerStep
  <1>5. ASSUME NEW w \in Worker, releaseTask(w) \/ Ask(w) PROVE PlacesInv'
    BY <1>5, MainNoWorker, ReleasePlaces, AskPlaces
  <1> QED BY <1>1, <1>2, <1>3, <1>4, <1>5 DEF Next

LEMMA SpecPlaces == Spec => [](QueueInv /\ PlacesInv)
  BY InitQueue, StepQueue, InitPlaces, StepPlaces, PTL DEF Spec

-----------------------------------------------------------------------------
(* The counter.  What moves no task in or out changes nothing.              *)
LEMMA CountedFrame ==
  ASSUME Counted, taskCounter' = taskCounter, Len(taskDeque') = Len(taskDeque),
         \A w \in Worker : task'[w] # None <=> task[w] # None,
         \A p \in Thread : stage'[p] = "count" <=> stage[p] = "count"
  PROVE  Counted'
  <1>1. Taken' = Taken /\ Uncounted' = Uncounted
    BY DEF Taken, Uncounted
  <1> QED BY <1>1 DEF Counted

(* What a thread pushes is in the deque first, and counted next.            *)
LEMMA PushCounted == ASSUME QueueInv, Counted, NEW p \in Thread, pushTask(p) PROVE Counted'
  <1>1. Cardinality(Taken) \in Nat
    BY QueueParameters, FS_Subset, FS_CardinalityType DEF Taken
  <1>2. ASSUME Pushes(p) PROVE Counted'
    <2>1. /\ stage[p] = "push" /\ stage' = [stage EXCEPT ![p] = "count"] /\ pushing[p] \in Task
          /\ taskDeque' = Append(taskDeque, pushing[p]) /\ UNCHANGED <<taskCounter, task>>
      BY <1>2 DEF Pushes, QueueInv, TypeOK, Roles, workers
    <2>2. Len(taskDeque') = Len(taskDeque) + 1 /\ Len(taskDeque) \in Nat
      BY <2>1 DEF QueueInv, TypeOK
    <2>3. stage'[p] = "count" /\ \A q \in Thread \ {p} : stage'[q] = stage[q]
      BY <2>1 DEF QueueInv, TypeOK
    <2>4. Cardinality(Uncounted') = Cardinality(Uncounted) + 1 /\ Cardinality(Uncounted) \in Nat
      BY <2>1, <2>3, StageMoves
    <2>5. Taken' = Taken
      BY <2>1 DEF Taken
    <2> QED BY <1>1, <2>1, <2>2, <2>4, <2>5 DEF Counted
  <1>3. ASSUME Counts(p) PROVE Counted'
    <2>1. /\ stage[p] = "count" /\ stage' = [stage EXCEPT ![p] = "write"]
          /\ taskCounter' = taskCounter + 1 /\ UNCHANGED <<taskDeque, task>>
      BY <1>3 DEF Counts, workers
    <2>2. stage'[p] = "write" /\ \A q \in Thread \ {p} : stage'[q] = stage[q]
      BY <2>1 DEF QueueInv, TypeOK
    <2>3. Cardinality(Uncounted') = Cardinality(Uncounted) - 1 /\ Cardinality(Uncounted) \in Nat
      BY <2>1, <2>2, StageMoves
    <2>4. Taken' = Taken /\ Len(taskDeque) \in Nat
      BY <2>1 DEF Taken, QueueInv, TypeOK
    <2> QED BY <1>1, <2>1, <2>3, <2>4 DEF Counted
  <1>4. ASSUME Notifies(p) PROVE Counted'
    BY <1>4, CountedFrame DEF Notifies, QueueInv, TypeOK, workers
  <1> QED BY <1>2, <1>3, <1>4 DEF pushTask

(* A worker takes a counted task, and takes it off the count last.          *)
LEMMA PopCounted == ASSUME QueueInv, Counted, NEW w \in Worker, popTask(w) PROVE Counted'
  <1>1. pc[w] = "pop" /\ value[w] \in Nat /\ value[w] > 0 /\ task[w] = None
    BY DEF popTask, QueueInv, TypeOK, Roles, Holding
  <1>2. taskDeque # <<>>
    BY <1>1, HasTask DEF Held
  <1>3. /\ task' = [task EXCEPT ![w] = Head(taskDeque)] /\ taskDeque' = Tail(taskDeque)
        /\ UNCHANGED <<taskCounter, stage>>
    BY <1>2 DEF popTask, push
  <1>4. Head(taskDeque) \in Task /\ Len(taskDeque') = Len(taskDeque) - 1 /\ Len(taskDeque) \in Nat
    BY <1>2, <1>3 DEF QueueInv, TypeOK
  <1>5. IsFiniteSet(Taken) /\ Taken \ {w} = Taken' \ {w} /\ w \notin Taken /\ w \in Taken'
    <2>1. IsFiniteSet(Taken)
      BY QueueParameters, FS_Subset DEF Taken
    <2>2. \A v \in Worker : task'[v] = IF v = w THEN Head(taskDeque) ELSE task[v]
      BY <1>3 DEF QueueInv, TypeOK
    <2> QED BY <1>1, <1>4, <2>1, <2>2, MainNoWorker DEF Taken
  <1>6. Cardinality(Taken') = Cardinality(Taken) + 1 /\ Cardinality(Taken) \in Nat
    BY <1>5, OneMoves
  <1>7. Uncounted' = Uncounted /\ Cardinality(Uncounted) \in Nat
    BY <1>3, ThreadsFinite, FS_Subset, FS_CardinalityType DEF Uncounted
  <1> QED BY <1>3, <1>4, <1>6, <1>7 DEF Counted

LEMMA ReleasedCounted == ASSUME QueueInv, Counted, NEW w \in Worker, Released(w) PROVE Counted'
  <1>1. /\ task' = [task EXCEPT ![w] = None] /\ taskCounter' = taskCounter - 1
        /\ UNCHANGED <<taskDeque, stage>> /\ task[w] # None
    BY DEF Released, push, QueueInv, Roles, Holding
  <1>2. IsFiniteSet(Taken) /\ Taken \ {w} = Taken' \ {w} /\ w \in Taken /\ w \notin Taken'
    <2>1. IsFiniteSet(Taken)
      BY QueueParameters, FS_Subset DEF Taken
    <2>2. \A v \in Worker : task'[v] = IF v = w THEN None ELSE task[v]
      BY <1>1 DEF QueueInv, TypeOK
    <2> QED BY <1>1, <2>1, <2>2 DEF Taken
  <1>3. Cardinality(Taken') = Cardinality(Taken) - 1 /\ Cardinality(Taken) \in Nat
    BY <1>2, OneMoves
  <1>4. Uncounted' = Uncounted /\ Cardinality(Uncounted) \in Nat
    BY <1>1, ThreadsFinite, FS_Subset, FS_CardinalityType DEF Uncounted
  <1>5. Len(taskDeque) \in Nat /\ taskCounter \in Int
    BY DEF QueueInv, TypeOK
  <1> QED BY <1>1, <1>3, <1>4, <1>5 DEF Counted

(* What is asked for and what the main thread begins is not in the deque.   *)
LEMMA BeginCounted ==
  ASSUME QueueInv, Counted, NEW p \in Thread, NEW t, stage[p] = "none", Begin(p, t),
         UNCHANGED <<taskDeque, taskCounter, task>>
  PROVE  Counted'
  BY CountedFrame DEF Begin, QueueInv, TypeOK

LEMMA AskCounted == ASSUME QueueInv, Counted, NEW p \in Thread, Ask(p) PROVE Counted'
  <1>1. ASSUME NEW t \in Task, performTask(p, t) PROVE Counted'
    BY <1>1, BeginCounted DEF performTask, Asks, Busy, queue, workers
  <1>2. ASSUME NEW t \in Task, runFollowedTask(p, t) PROVE Counted'
    BY <1>2, BeginCounted, CountedFrame DEF runFollowedTask, Asks, Busy, queue, workers, push
  <1>3. ASSUME NEW t \in Task, scheduleTask(p, t) PROVE Counted'
    BY <1>3, CountedFrame DEF scheduleTask, queue, workers, push
  <1>4. ASSUME scheduleCancel(p) PROVE Counted'
    BY <1>4, CountedFrame DEF scheduleCancel, queue, workers, push
  <1> QED BY <1>1, <1>2, <1>3, <1>4 DEF Ask

LEMMA StepCounted == QueueInv /\ Counted /\ [Next]_vars => Counted'
  <1> SUFFICES ASSUME QueueInv, Counted, [Next]_vars PROVE Counted'
    OBVIOUS
  <1>1. ASSUME UNCHANGED vars \/ Run \/ finalize \/ Joined PROVE Counted'
    BY <1>1, CountedFrame DEF vars, Run, finalize, Joined, queue, workers, push
  <1>2. ASSUME onHeartBeat \/ PerformFollowed PROVE Counted'
    BY <1>2, MainNoWorker, BeginCounted DEF onHeartBeat, PerformFollowed, PerformKept, Busy, queue, workers
  <1>3. ASSUME NEW w \in Worker,
               Start(w) \/ EpollWait(w) \/ ReadEvent(w) \/ Forward(w) \/ waitForAll(w) \/ Notify(w)
               \/ Close(w) \/ releaseTask(w)
        PROVE  Counted'
    BY <1>3, CountedFrame DEF Start, EpollWait, ReadEvent, Forward, waitForAll, Notify, Close, releaseTask, queue, workers, push
  <1> QED BY <1>1, <1>2, <1>3, MainNoWorker, AskCounted, PushCounted, PopCounted, ReleasedCounted
      DEF Next, MainStep, AskFirst, WorkerStep

-----------------------------------------------------------------------------
(* Groups.  What completes no task of a group, adds none and lets no worker *)
(* that runs a task go changes nothing.                                     *)
LEMMA TasksFinite == \A S \in SUBSET Task : IsFiniteSet(S) /\ Cardinality(S) \in Nat
  <1>1. IsFiniteSet(Task)
    BY QueueParameters, FS_Interval DEF Task
  <1> QED BY <1>1, FS_Subset, FS_CardinalityType

LEMMA GroupsFrame ==
  ASSUME GroupsInv, UNCHANGED <<group, added, completed>>,
         \A t \in Task : state'[t] = "done" <=> state[t] = "done",
         \A w \in Worker :
             /\ pc[w] \in {"run", "wait"} => pc'[w] \in {"run", "wait"} /\ task'[w] = task[w]
             /\ pc'[w] \in {"notify", "count", "close"} /\ task'[w] # None =>
                    pc[w] \in {"notify", "count", "close"} /\ task'[w] = task[w]
  PROVE  GroupsInv'
  <1>1. \A g \in Task : Members(g)' = Members(g) /\ Finished(g)' = Finished(g)
    BY DEF Members, Finished
  <1>2. GroupsCount'
    BY <1>1 DEF GroupsInv, GroupsCount
  <1>3. GroupsLive'
    <2> SUFFICES ASSUME NEW t \in Task, group'[t] # None, state'[t] # "done"
                 PROVE  \E w \in Worker : task'[w] = group'[t] /\ pc'[w] \in {"run", "wait"}
      BY DEF GroupsLive
    <2>1. PICK w \in Worker : task[w] = group[t] /\ pc[w] \in {"run", "wait"}
      BY DEF GroupsInv, GroupsLive
    <2> QED BY <2>1
  <1>4. WaitsForAll'
    BY DEF GroupsInv, WaitsForAll
  <1> QED BY <1>2, <1>3, <1>4 DEF GroupsInv

(* What update() completes had not been counted: the sum is right.          *)
LEMMA UpdateFinished ==
  ASSUME QueueInv, PlacesInv, GroupsInv, NEW g \in Task, update(g),
         \A u \in Task : state'[u] = "done" <=> state[u] = "done" \/ u \in performed[g],
         \A u \in Task : group'[u] = group[u] \/ state[u] = "new"
  PROVE  \A h \in Task : completed'[h] = Cardinality(Finished(h)')
  <1>1. completed' = [completed EXCEPT ![g] = @ + Cardinality(performed[g])]
    BY DEF update
  <1>2. \A u \in performed[g] : u \in Task /\ state[u] = "executed" /\ group[u] = g
    BY DEF PlacesInv, StateOfPlace, QueueInv, TypeOK
  <1> SUFFICES ASSUME NEW h \in Task PROVE completed'[h] = Cardinality(Finished(h)')
    OBVIOUS
  <1>3. completed[h] = Cardinality(Finished(h))
    BY DEF GroupsInv, GroupsCount
  <1>4. CASE h = g
    <2>1. Finished(g)' = Finished(g) \cup performed[g] /\ Finished(g) \cap performed[g] = {}
      BY <1>2 DEF Finished
    <2>2. IsFiniteSet(Finished(g)) /\ IsFiniteSet(performed[g])
      BY TasksFinite DEF Finished, QueueInv, TypeOK
    <2>3. Cardinality(Finished(g)') = Cardinality(Finished(g)) + Cardinality(performed[g])
      BY <2>1, <2>2, Apart
    <2> QED BY <1>1, <1>3, <1>4, <2>3 DEF QueueInv, TypeOK
  <1>5. CASE h # g
    <2>1. Finished(h)' = Finished(h)
      BY <1>2, <1>5 DEF Finished
    <2> QED BY <1>1, <1>3, <1>5, <2>1 DEF QueueInv, TypeOK
  <1> QED BY <1>4, <1>5

(* A task that is added to a group that it can name finds it alive: the     *)
(* group's owner is the one that asks, or waits for the one that asks.      *)
LEMMA GroupAlive ==
  ASSUME QueueInv, PlacesInv, GroupsInv, NEW p \in Thread, Asks(p), NEW g \in Groups(p), g # None
  PROVE  /\ g \in Task /\ \E w \in Worker : task[w] = g /\ pc[w] \in {"run", "wait"}
         /\ \A w \in Worker : pc[w] \in {"notify", "count", "close"} => task[w] # g
  <1>1. p \in Worker /\ pc[p] = "run" /\ task[p] \in Task /\ (g = group[task[p]] \/ g = task[p])
    BY MainNoWorker DEF Groups, Own, MayOwn, Asks, Busy, Thread, QueueInv, TypeOK, Roles, Holding
  <1>2. state[task[p]] = "running"
    BY <1>1 DEF PlacesInv, StateOfPlace
  <1>3. g \in Task
    BY <1>1 DEF QueueInv, TypeOK
  <1>4. CASE g = task[p]
    BY <1>1, <1>3, <1>4, MainNoWorker DEF PlacesInv, OnePlace
  <1>5. CASE g = group[task[p]]
    <2>1. \E w \in Worker : task[w] = g /\ pc[w] \in {"run", "wait"}
      BY <1>1, <1>2, <1>5 DEF GroupsInv, GroupsLive
    <2>2. \A w \in Worker : pc[w] \in {"notify", "count", "close"} => task[w] # g
      BY <1>1, <1>2, <1>3, <1>5, MainNoWorker DEF GroupsInv, WaitsForAll
    <2> QED BY <1>3, <2>1, <2>2
  <1> QED BY <1>1, <1>4, <1>5

LEMMA PerformGroups ==
  ASSUME QueueInv, PlacesInv, GroupsInv, NEW p \in Thread, NEW t \in Task, performTask(p, t)
  PROVE  GroupsInv'
  <1> USE DEF performTask
  <1>1. state[t] = "new" /\ group[t] = None /\ Asks(p) /\ UNCHANGED <<task, pc>>
    BY DEF New, workers, PlacesInv, PlaceOfState
  <1>2. PICK g \in Groups(p) :
          /\ group' = [group EXCEPT ![t] = g] /\ added' = onAdded(g)
          /\ \/ /\ UNCHANGED <<completed, performed>>
                /\ state' = [state EXCEPT ![t] = "pushed"]
             \/ /\ g # None /\ g = Own(p) /\ update(g)
                /\ state' = [Done(g) EXCEPT ![t] = "pushed"]
    OBVIOUS
  <1>3. g # None => /\ g \in Task /\ \E w \in Worker : task[w] = g /\ pc[w] \in {"run", "wait"}
                    /\ \A w \in Worker : pc[w] \in {"notify", "count", "close"} => task[w] # g
    BY <1>1, GroupAlive
  <1>4. \A u \in Task : group'[u] = IF u = t THEN g ELSE group[u]
    BY <1>2 DEF QueueInv, TypeOK
  <1>5. /\ \A u \in Task : state[u] = "done" => state'[u] = "done"
        /\ state'[t] = "pushed"
        /\ \A h \in Task : completed'[h] = Cardinality(Finished(h)')
    <2>1. CASE UNCHANGED <<completed, performed>> /\ state' = [state EXCEPT ![t] = "pushed"]
      <3>1. \A u \in Task : state'[u] = IF u = t THEN "pushed" ELSE state[u]
        BY <2>1 DEF QueueInv, TypeOK
      <3>2. \A h \in Task : Finished(h)' = Finished(h)
        BY <1>1, <1>4, <3>1 DEF Finished
      <3> QED BY <1>1, <2>1, <3>1, <3>2 DEF GroupsInv, GroupsCount
    <2>2. CASE g # None /\ update(g) /\ state' = [Done(g) EXCEPT ![t] = "pushed"]
      <3>1. \A u \in performed[g] : u # t
        BY <1>1, <1>3, <2>2 DEF PlacesInv, StateOfPlace
      <3>2. \A u \in Task : state'[u] = IF u = t THEN "pushed" ELSE IF u \in performed[g] THEN "done" ELSE state[u]
        BY <2>2 DEF Done
      <3>3. \A u \in Task : state'[u] = "done" <=> state[u] = "done" \/ u \in performed[g]
        BY <1>1, <3>1, <3>2
      <3> QED BY <1>1, <1>3, <1>4, <2>2, <3>2, <3>3, UpdateFinished
    <2> QED BY <1>2, <2>1, <2>2
  <1>6. \A h \in Task : added'[h] = Cardinality(Members(h)')
    <2> SUFFICES ASSUME NEW h \in Task PROVE added'[h] = Cardinality(Members(h)')
      OBVIOUS
    <2>1. added[h] = Cardinality(Members(h)) /\ IsFiniteSet(Members(h)) /\ t \notin Members(h)
      BY <1>1, TasksFinite, MainNoWorker DEF GroupsInv, GroupsCount, Members
    <2>2. CASE h = g
      <3>1. Members(h)' = Members(h) \cup {t}
        BY <1>4, <2>2 DEF Members
      <3>2. added'[h] = added[h] + 1
        BY <1>2, <2>2, MainNoWorker DEF onAdded, QueueInv, TypeOK
      <3> QED BY <2>1, <3>1, <3>2, FS_AddElement
    <2>3. CASE h # g
      <3>1. Members(h)' = Members(h)
        BY <1>1, <1>4, <2>1, <2>3 DEF Members
      <3>2. added'[h] = added[h]
        BY <1>2, <1>3, <2>3 DEF onAdded, QueueInv, TypeOK
      <3> QED BY <2>1, <3>1, <3>2
    <2> QED BY <2>2, <2>3
  <1>7. GroupsCount'
    BY <1>5, <1>6 DEF GroupsCount
  <1>8. GroupsLive'
    BY <1>1, <1>3, <1>4, <1>5 DEF GroupsInv, GroupsLive
  <1>9. WaitsForAll'
    BY <1>1, <1>3, <1>4, <1>5 DEF GroupsInv, WaitsForAll
  <1> QED BY <1>7, <1>8, <1>9 DEF GroupsInv

LEMMA WaitGroups ==
  ASSUME QueueInv, PlacesInv, GroupsInv, NEW w \in Worker, waitForAll(w) PROVE GroupsInv'
  <1> DEFINE g == task[w]
  <1>1. /\ pc[w] \in {"run", "wait"} /\ update(g) /\ state' = Done(g)
        /\ \E where \in {"run", "wait"} : pc' = [pc EXCEPT ![w] = where]
        /\ UNCHANGED <<task, group, added>>
    BY DEF waitForAll, Goto, Busy, workers
  <1>2. g \in Task
    BY <1>1 DEF QueueInv, TypeOK, Roles, Holding
  <1>3. pc'[w] \in {"run", "wait"} /\ \A v \in Worker \ {w} : pc'[v] = pc[v]
    BY <1>1, Elsewhere DEF QueueInv
  <1>4. \A u \in Task : state'[u] = "done" <=> state[u] = "done" \/ u \in performed[g]
    BY <1>1 DEF Done
  <1>5. GroupsCount'
    <2>1. \A h \in Task : completed'[h] = Cardinality(Finished(h)')
      BY <1>1, <1>2, <1>4, UpdateFinished
    <2>2. \A h \in Task : Members(h)' = Members(h)
      BY <1>1 DEF Members
    <2> QED BY <1>1, <2>1, <2>2 DEF GroupsInv, GroupsCount
  <1>6. GroupsLive'
    <2> SUFFICES ASSUME NEW t \in Task, group[t] # None, state'[t] # "done"
                 PROVE  \E v \in Worker : task[v] = group[t] /\ pc'[v] \in {"run", "wait"}
      BY <1>1 DEF GroupsLive
    <2>1. PICK v \in Worker : task[v] = group[t] /\ pc[v] \in {"run", "wait"}
      BY <1>4 DEF GroupsInv, GroupsLive
    <2> QED BY <1>3, <2>1
  <1>7. WaitsForAll'
    BY <1>1, <1>3, <1>4 DEF GroupsInv, WaitsForAll
  <1> QED BY <1>5, <1>6, <1>7 DEF GroupsInv

(* A task is let go when its group has counted all its tasks back.          *)
LEMMA ReleaseGroups ==
  ASSUME QueueInv, PlacesInv, GroupsInv, NEW w \in Worker, releaseTask(w) PROVE GroupsInv'
  <1> DEFINE t == task[w]
  <1>1. /\ pc[w] = "run" /\ \E where \in {"notify", "count"} : pc' = [pc EXCEPT ![w] = where]
        /\ added[t] = completed[t]
        /\ UNCHANGED <<task, group, added, completed>>
    BY DEF releaseTask, Goto, Busy
  <1>2. t \in Task /\ state[t] = "running"
    BY <1>1 DEF QueueInv, TypeOK, Roles, Holding, PlacesInv, StateOfPlace
  <1>3. pc'[w] \in {"notify", "count"} /\ \A v \in Worker \ {w} : pc'[v] = pc[v]
    BY <1>1, Elsewhere DEF QueueInv
  <1>4. \A u \in Task : group[u] = t => state[u] = "done"
    <2>1. Finished(t) \in SUBSET Members(t) /\ IsFiniteSet(Members(t))
      BY TasksFinite DEF Members, Finished
    <2>2. Cardinality(Members(t)) = Cardinality(Finished(t))
      BY <1>1, <1>2 DEF GroupsInv, GroupsCount
    <2>3. Members(t) = Finished(t)
      BY <2>1, <2>2, FS_Subset
    <2> QED BY <2>3 DEF Members, Finished
  <1>5. \A u \in Task : /\ state[u] = "done" => state'[u] = "done"
                        /\ group[u] # None /\ state'[u] = "done" => state[u] = "done"
    BY <1>2 DEF releaseTask, QueueInv, TypeOK
  <1> HIDE DEF t
  <1>6. t = task[w]
    BY DEF t
  <1>7. \A g \in Task : Members(g)' = Members(g) /\ Finished(g)' = Finished(g)
    BY <1>1, <1>5, MainNoWorker DEF Members, Finished
  <1>8. GroupsCount'
    BY <1>1, <1>7 DEF GroupsInv, GroupsCount
  <1>9. GroupsLive'
    <2> SUFFICES ASSUME NEW u \in Task, group[u] # None, state'[u] # "done"
                 PROVE  \E v \in Worker : task[v] = group[u] /\ pc'[v] \in {"run", "wait"}
      BY <1>1 DEF GroupsLive
    <2>1. PICK v \in Worker : task[v] = group[u] /\ pc[v] \in {"run", "wait"}
      BY <1>5 DEF GroupsInv, GroupsLive
    <2>2. v # w
      BY <1>4, <1>5, <1>6, <2>1
    <2> QED BY <1>3, <2>1, <2>2
  <1>10. WaitsForAll'
    BY <1>1, <1>3, <1>4, <1>5, <1>6 DEF GroupsInv, WaitsForAll
  <1> QED BY <1>8, <1>9, <1>10 DEF GroupsInv

LEMMA AskGroups ==
  ASSUME QueueInv, PlacesInv, GroupsInv, NEW p \in Thread, Ask(p) PROVE GroupsInv'
  <1>1. ASSUME NEW t \in Task, runFollowedTask(p, t) \/ scheduleTask(p, t) PROVE GroupsInv'
    <2>1. /\ UNCHANGED <<group, added, completed, pc, task>> /\ state[t] = "new"
          /\ state' = [state EXCEPT ![t] = "kept"] \/ state' = [state EXCEPT ![t] = "pushed"]
      BY <1>1 DEF runFollowedTask, scheduleTask, New, workers, groups
    <2>2. \A u \in Task : state'[u] = "done" <=> state[u] = "done"
      BY <2>1 DEF QueueInv, TypeOK
    <2> QED BY <2>1, <2>2, GroupsFrame
  <1>2. ASSUME scheduleCancel(p) PROVE GroupsInv'
    BY <1>2, GroupsFrame DEF scheduleCancel, workers, groups
  <1> QED BY <1>1, <1>2, PerformGroups DEF Ask

LEMMA MainGroups == ASSUME QueueInv, PlacesInv, GroupsInv, MainStep PROVE GroupsInv'
  <1>1. ASSUME NEW t \in Task, PerformKept(t), state[t] = "kept" PROVE GroupsInv'
    <2>1. UNCHANGED <<group, added, completed, pc, task>> /\ state' = [state EXCEPT ![t] = "pushed"]
      BY <1>1 DEF PerformKept, workers, groups
    <2>2. \A u \in Task : state'[u] = "done" <=> state[u] = "done"
      BY <1>1, <2>1 DEF QueueInv, TypeOK
    <2> QED BY <2>1, <2>2, GroupsFrame
  <1>2. ASSUME onHeartBeat PROVE GroupsInv'
    <2>1. PICK t \in scheduled : PerformKept(t)
      BY <1>2 DEF onHeartBeat
    <2> QED BY <1>1, <2>1 DEF PlacesInv, StateOfPlace, QueueInv, TypeOK
  <1>3. ASSUME PerformFollowed PROVE GroupsInv'
    <2>1. followed # <<>> /\ PerformKept(Head(followed))
      BY <1>3 DEF PerformFollowed
    <2>2. Head(followed) \in Task /\ Follows(Head(followed))
      BY <2>1, TailIn DEF Follows, QueueInv, TypeOK, PlacesInv, OnePlace
    <2> QED BY <1>1, <2>1, <2>2 DEF PlacesInv, StateOfPlace
  <1>4. ASSUME Run \/ finalize \/ Joined PROVE GroupsInv'
    <2>1. \A w \in Worker : pc'[w] = pc[w]
      BY <1>4, NotWorkers DEF Run, finalize, Joined, Goto, QueueInv
    <2> QED BY <1>4, <2>1, GroupsFrame DEF Run, finalize, Joined, workers, groups
  <1>5. ASSUME pushTask(Main) PROVE GroupsInv'
    BY <1>5, GroupsFrame DEF pushTask, Pushes, Counts, Notifies, workers, groups
  <1> QED BY <1>2, <1>3, <1>4, <1>5 DEF MainStep

LEMMA WorkerGroups ==
  ASSUME QueueInv, PlacesInv, GroupsInv, NEW w \in Worker, WorkerStep(w) PROVE GroupsInv'
  <1>1. ASSUME pushTask(w) PROVE GroupsInv'
    BY <1>1, GroupsFrame DEF pushTask, Pushes, Counts, Notifies, workers, groups
  <1>2. ASSUME Start(w) \/ EpollWait(w) \/ ReadEvent(w) \/ Close(w) PROVE GroupsInv'
    <2>1. /\ UNCHANGED <<group, added, completed, state, task>> /\ pc[w] \in {"start", "poll", "events", "close"}
          /\ pc' = pc \/ \E where \in {"poll", "events", "close", "pop", "end"} : pc' = [pc EXCEPT ![w] = where]
      BY <1>2 DEF Start, EpollWait, ReadEvent, Close, Goto, workers, groups
    <2>2. \A v \in Worker \ {w} : pc'[v] = pc[v]
      BY <2>1, Elsewhere DEF QueueInv
    <2>3. task[w] = None
      BY <2>1 DEF QueueInv, Roles, Holding
    <2> QED BY <2>1, <2>2, <2>3, GroupsFrame
  <1>3. ASSUME popTask(w) \/ Released(w) PROVE GroupsInv'
    <2>1. /\ UNCHANGED <<group, added, completed, state>> /\ pc[w] \in {"pop", "count"}
          /\ \E where \in {"fault", "forward", "close"} : pc' = [pc EXCEPT ![w] = where] /\ (where = "close" => task' = [task EXCEPT ![w] = None])
          /\ \A v \in Worker \ {w} : task'[v] = task[v]
      BY <1>3 DEF popTask, Released, Goto, groups, QueueInv, TypeOK
    <2>2. \A v \in Worker \ {w} : pc'[v] = pc[v]
      BY <2>1, Elsewhere DEF QueueInv
    <2>3. pc'[w] \in {"fault", "forward"} \/ (pc'[w] = "close" /\ task'[w] = None)
      BY <2>1, Elsewhere DEF QueueInv, TypeOK
    <2> QED BY <2>1, <2>2, <2>3, GroupsFrame
  <1>4. ASSUME Notify(w) PROVE GroupsInv'
    <2>1. /\ UNCHANGED <<group, added, completed, state, task>> /\ pc[w] = "notify"
          /\ pc' = [pc EXCEPT ![w] = "count"]
      BY <1>4 DEF Notify, Goto, workers, groups
    <2>2. \A v \in Worker : pc'[v] = IF v = w THEN "count" ELSE pc[v]
      BY <2>1, Elsewhere DEF QueueInv
    <2> QED BY <2>1, <2>2, GroupsFrame
  <1>5. ASSUME Forward(w) PROVE GroupsInv'
    <2>1. /\ UNCHANGED <<group, added, completed, task>> /\ pc[w] = "forward"
          /\ pc' = [pc EXCEPT ![w] = "run"] /\ state' = [state EXCEPT ![task[w]] = "running"]
      BY <1>5 DEF Forward, Goto, groups
    <2>2. \A v \in Worker : pc'[v] = IF v = w THEN "run" ELSE pc[v]
      BY <2>1, Elsewhere DEF QueueInv
    <2>3. state[task[w]] = "pushed"
      BY <2>1 DEF PlacesInv, StateOfPlace
    <2>4. \A u \in Task : state'[u] = "done" <=> state[u] = "done"
      BY <2>1, <2>3 DEF QueueInv, TypeOK
    <2> QED BY <2>1, <2>2, <2>4, GroupsFrame
  <1> QED BY <1>1, <1>2, <1>3, <1>4, <1>5, WaitGroups DEF WorkerStep

LEMMA InitGroups == Init => GroupsInv /\ Counted
  <1> SUFFICES ASSUME Init PROVE GroupsInv /\ Counted
    OBVIOUS
  <1>1. \A g \in Task : Members(g) = {} /\ Finished(g) = {}
    BY MainNoWorker DEF Init, Members, Finished
  <1>2. Taken = {} /\ Uncounted = {}
    BY MainNoWorker DEF Init, Taken, Uncounted
  <1>3. Cardinality({}) = 0 /\ Len(taskDeque) = 0
    BY FS_EmptySet DEF Init
  <1>4. GroupsCount
    BY <1>1, <1>3 DEF Init, GroupsCount
  <1>5. Counted
    BY <1>2, <1>3 DEF Init, Counted
  <1>6. GroupsLive /\ WaitsForAll
    BY MainNoWorker DEF Init, GroupsLive, WaitsForAll
  <1> QED BY <1>4, <1>5, <1>6 DEF GroupsInv

LEMMA StepGroups == QueueInv /\ PlacesInv /\ GroupsInv /\ [Next]_vars => GroupsInv'
  <1> SUFFICES ASSUME QueueInv, PlacesInv, GroupsInv, [Next]_vars PROVE GroupsInv'
    OBVIOUS
  <1>1. CASE UNCHANGED vars
    BY <1>1, GroupsFrame DEF vars, workers, groups
  <1> QED BY <1>1, MainNoWorker, MainGroups, WorkerGroups, ReleaseGroups, AskGroups DEF Next, AskFirst

(* A group is let go only when all its tasks are back, those included that  *)
(* its tasks have added to it while it waited: it counts each task once as  *)
(* added and once as completed, and whoever may add to it is one of them or *)
(* its owner (TaskGroup, STTask.cc).                                        *)
THEOREM WaitsCorrect == Spec => []WaitsForAll
  <1>1. GroupsInv => WaitsForAll
    BY DEF GroupsInv
  <1> QED BY <1>1, SpecPlaces, InitGroups, StepGroups, PTL DEF Spec

(* Without a count no worker has a task, so none is pushing and nothing is  *)
(* left uncounted: the deque is empty, and no group waits for a task.       *)
LEMMA IdleHolds ==
  ASSUME QueueInv, PlacesInv, GroupsInv, Counted PROVE IdleIsIdle
  <1> SUFFICES ASSUME taskCounter = 0, stage[Main] = "none" PROVE Unfinished = {}
    BY DEF IdleIsIdle, hasTasks
  <1>1. /\ IsFiniteSet(Taken) /\ Cardinality(Taken) \in Nat
        /\ IsFiniteSet(Unsent) /\ Cardinality(Unsent) \in Nat
        /\ Cardinality(Tickets) \in Nat /\ eventFd \in Nat /\ Len(taskDeque) \in Nat
    BY QueueParameters, ThreadsFinite, FS_Subset, FS_CardinalityType
       DEF Taken, Unsent, QueueInv, TypeOK, EventForEach
  <1>2. Cardinality(Uncounted) <= Cardinality(Unsent) /\ Cardinality(Uncounted) \in Nat
    <2>1. Uncounted \in SUBSET Unsent
      BY DEF Uncounted, Unsent
    <2> QED BY <1>1, <2>1, FS_Subset, FS_CardinalityType
  <1>3. Cardinality(Taken) = 0
    BY <1>1, <1>2 DEF QueueInv, EventForEach, Counted
  <1>4. \A w \in Worker : task[w] = None
    BY <1>1, <1>3, FS_EmptySet DEF Taken
  <1>5. \A p \in Thread : stage[p] = "none"
    BY <1>4 DEF Thread, QueueInv, Roles, Holding
  <1>6. Uncounted = {}
    BY <1>5 DEF Uncounted
  <1>7. Len(taskDeque) = 0
    BY <1>1, <1>3, <1>6, FS_EmptySet DEF Counted
  <1>8. ASSUME NEW t \in Task PROVE state[t] \notin {"pushed", "running", "executed"}
    <2>1. ~InDeque(t) /\ ~Pushed(t) /\ \A w \in Worker : task[w] # t
      BY <1>4, <1>5, <1>7, MainNoWorker DEF InDeque, In, Pushed
    <2>2. state[t] # "executed"
      BY <1>4 DEF PlacesInv, PlaceOfState, GroupsInv, GroupsLive
    <2> QED BY <2>1, <2>2 DEF PlacesInv, PlaceOfState
  <1> QED BY <1>8 DEF Unfinished

(* hasTasks() false means that nothing is unfinished, unless the main       *)
(* thread is still pushing: Root may perform the next followed task, or     *)
(* close its queue (STRoot.cpp).                                            *)
THEOREM IdleCorrect == Spec => []IdleIsIdle
  <1>1. Spec => []GroupsInv
    BY SpecPlaces, InitGroups, StepGroups, PTL DEF Spec
  <1>2. Spec => []Counted
    BY SpecQueue, InitGroups, StepCounted, PTL DEF Spec
  <1>3. QueueInv /\ PlacesInv /\ GroupsInv /\ Counted => IdleIsIdle
    BY IdleHolds
  <1> QED BY <1>1, <1>2, <1>3, SpecPlaces, PTL

=============================================================================
