-------------------------- MODULE ConnectionQueue ---------------------------
(* The tasks of the stellator server: Root hands them to the workers of a   *)
(* ConnectionQueue through a deque under a mutex, a counter and an event    *)
(* descriptor; TaskGroup lets a task wait for the tasks it has added.  The  *)
(* main thread feeds followed tasks one by one and closes the queue when it *)
(* is told to and nothing is left.                                          *)
EXTENDS Integers, Sequences, FiniteSets

CONSTANTS Worker, Main,     \* threads
          MaxTasks,         \* bound: tasks made in all
          MaxFirst,         \* bound: tasks made before the workers start
          Spare,            \* workers that tasks leave for others when they wait
          Interrupts        \* a task may leave EINTR in errno

ASSUME QueueParameters ==
    /\ Main \notin Worker /\ IsFiniteSet(Worker)
    /\ MaxTasks \in Nat /\ MaxFirst \in 1..MaxTasks /\ Spare \in Nat
    /\ Interrupts \in BOOLEAN

Task   == 1..MaxTasks
None   == 0
Thread == Worker \cup {Main}

VARIABLES
    taskDeque, taskCounter,
    eventFd,            \* the count of the event descriptor
    ended,              \* workers whose epoll lists the pipe, with END! in it
    ready,              \* workers whose epoll lists the event descriptor
    eintr,              \* workers whose errno is EINTR
    pc,                 \* of each worker in poll(), and of the main thread
    value,              \* what a worker has read from the event descriptor
    closing,            \* workers whose epoll_wait has returned the pipe
    task,               \* the task a worker runs
    pushing, stage,     \* of each thread, the task in pushTask and where it is
    followed, scheduled, shouldClose,
    locked,             \* Root's mutex, while the main thread pushes a task
    group,              \* of each task, the task whose TaskGroup it belongs to
    added, completed, performed,        \* of each task's group
    state               \* of each task, for the properties

queue   == <<taskDeque, taskCounter, eventFd, ended, ready>>
workers == <<eintr, value, closing, task>>
push    == <<pushing, stage>>
root    == <<followed, scheduled, shouldClose, locked>>
groups  == <<group, added, completed, performed>>
vars    == <<queue, workers, pc, push, root, groups, state>>

(* The types of the state; a worker that finds the deque empty is at        *)
(* "fault", which it never is: front() of an empty deque is undefined.      *)
TypeOK ==
    /\ taskDeque \in Seq(Task) /\ taskCounter \in Int /\ eventFd \in Nat
    /\ ended \subseteq Worker /\ ready \subseteq Worker /\ eintr \subseteq Worker
    /\ pc \in [Thread -> {"start", "poll", "events", "pop", "forward", "run", "wait",
                          "notify", "count", "close", "end", "loop", "join"}]
    /\ value \in [Worker -> Nat] /\ closing \subseteq Worker
    /\ task \in [Worker -> Task \cup {None}] /\ pushing \in [Thread -> Task \cup {None}]
    /\ stage \in [Thread -> {"none", "push", "count", "write"}]
    /\ followed \in Seq(Task) /\ scheduled \subseteq Task
    /\ shouldClose \in BOOLEAN /\ locked \in BOOLEAN
    /\ group \in [Task -> Task \cup {None}]
    /\ added \in [Task -> Nat] /\ completed \in [Task -> Nat]
    /\ performed \in [Task -> SUBSET Task]
    /\ state \in [Task -> {"new", "kept", "pushed", "running", "executed", "done"}]

Init ==
    /\ taskDeque = <<>> /\ taskCounter = 0 /\ eventFd = 0 /\ ended = {} /\ ready = {}
    /\ eintr = {} /\ pc = [p \in Thread |-> "start"] /\ value = [w \in Worker |-> 0]
    /\ closing = {} /\ task = [w \in Worker |-> None]
    /\ pushing = [p \in Thread |-> None] /\ stage = [p \in Thread |-> "none"]
    /\ followed = <<>> /\ scheduled = {} /\ shouldClose = FALSE /\ locked = FALSE
    /\ group = [t \in Task |-> None] /\ performed = [t \in Task |-> {}]
    /\ added = [t \in Task |-> 0] /\ completed = [t \in Task |-> 0]
    /\ state = [t \in Task |-> "new"]

Goto(p, where) == pc' = [pc EXCEPT ![p] = where]
Busy(p, where) == pc[p] = where /\ stage[p] = "none"

-----------------------------------------------------------------------------
(* The event descriptor in the workers' epolls, edge triggered and          *)
(* exclusive: a write puts it into the lists of busy workers it passes, and *)
(* stops at one that waits, if any does.                                    *)
Write(n) ==
    /\ eventFd' = eventFd + n
    /\ LET live == {w \in Worker : pc[w] \notin {"start", "end"}}
           idle == {w \in live : pc[w] = "poll"}
       IN \E to \in SUBSET live : (to = live \/ to \cap idle # {}) /\ ready' = ready \cup to

(* TaskGroup: a task is counted when it is pushed; update() completes what  *)
(* has been performed.                                                      *)
onAdded(g) == IF g = None THEN added ELSE [added EXCEPT ![g] = @ + 1]

(* Mistake: the performed tasks are copied and not swapped out.             *)
update_Copied(g) ==
    /\ completed' = [completed EXCEPT ![g] = @ + Cardinality(performed[g])]
    /\ UNCHANGED performed

update(g) ==
    /\ completed' = [completed EXCEPT ![g] = @ + Cardinality(performed[g])]
    /\ performed' = [performed EXCEPT ![g] = {}]

Done(g) == [t \in Task |-> IF t \in performed[g] THEN "done" ELSE state[t]]

(* pushTask, step by step, after onAdded.                                   *)
Begin(p, t) ==
    /\ pushing' = [pushing EXCEPT ![p] = t]
    /\ stage' = [stage EXCEPT ![p] = "push"]

Pushes(p) ==
    /\ stage[p] = "push" /\ stage' = [stage EXCEPT ![p] = "count"]
    /\ taskDeque' = Append(taskDeque, pushing[p])
    /\ UNCHANGED <<taskCounter, eventFd, ended, ready, workers, pc, pushing, root, groups, state>>

Counts(p) ==
    /\ stage[p] = "count" /\ stage' = [stage EXCEPT ![p] = "write"]
    /\ taskCounter' = taskCounter + 1
    /\ UNCHANGED <<taskDeque, eventFd, ended, ready, workers, pc, pushing, root, groups, state>>

Notifies(p) ==
    /\ stage[p] = "write" /\ stage' = [stage EXCEPT ![p] = "none"]
    /\ Write(1)
    /\ pushing' = [pushing EXCEPT ![p] = None]
    /\ locked' = (locked /\ p # Main)
    /\ UNCHANGED <<taskDeque, taskCounter, ended, workers, pc, followed, scheduled, shouldClose, groups, state>>

(* Mistake: the event before the count.                                     *)
pushTask_CountsLast(p) ==
    \/ /\ Pushes(p)
    \/ /\ stage[p] = "count" /\ stage' = [stage EXCEPT ![p] = "write"]
       /\ Write(1)
       /\ UNCHANGED <<taskDeque, taskCounter, ended, workers, pc, pushing, root, groups, state>>
    \/ /\ stage[p] = "write" /\ stage' = [stage EXCEPT ![p] = "none"]
       /\ taskCounter' = taskCounter + 1
       /\ pushing' = [pushing EXCEPT ![p] = None] /\ locked' = (locked /\ p # Main)
       /\ UNCHANGED <<taskDeque, eventFd, ended, ready, workers, pc, followed, scheduled, shouldClose, groups, state>>

pushTask(p) == Pushes(p) \/ Counts(p) \/ Notifies(p)

-----------------------------------------------------------------------------

(* What the code that a thread runs may ask for: the server's start in the  *)
(* main thread, or a task.  Tasks are made in order.                        *)
hasTasks == taskCounter # 0

New(t)  == state[t] = "new" /\ \A u \in 1..(t - 1) : state[u] # "new"
Asks(p) == Busy(p, IF p = Main THEN "start" ELSE "run")

Own(p)     == IF p = Main THEN None ELSE task[p]
Owners     == {w \in Worker : task[w] # None /\ added[task[w]] # completed[task[w]]}
MayOwn(p)  == p # Main /\ Cardinality(Owners \ {p}) < Cardinality(Worker) - Spare
Groups(p)  == {None} \cup (IF p = Main THEN {} ELSE {group[task[p]]}) \cup {g \in {Own(p)} : MayOwn(p)}

(* performTask, in no group, in the group of the task that asks, or in one  *)
(* of its own, whose tasks it may then complete.                            *)
performTask(p, t) ==
    /\ Asks(p) /\ New(t)
    /\ \E g \in Groups(p) :
         /\ group' = [group EXCEPT ![t] = g] /\ added' = onAdded(g)
         /\ \/ /\ UNCHANGED <<completed, performed>>
               /\ state' = [state EXCEPT ![t] = "pushed"]
            \/ /\ g # None /\ g = Own(p) /\ update(g)
               /\ state' = [Done(g) EXCEPT ![t] = "pushed"]
    /\ Begin(p, t)
    /\ UNCHANGED <<queue, workers, pc, root>>

runFollowedTask(p, t) ==
    /\ Asks(p) /\ New(t)
    /\ IF hasTasks
       THEN /\ ~locked /\ followed' = Append(followed, t)
            /\ state' = [state EXCEPT ![t] = "kept"]
            /\ UNCHANGED push
       ELSE /\ Begin(p, t) /\ UNCHANGED followed
            /\ state' = [state EXCEPT ![t] = "pushed"]
    /\ UNCHANGED <<queue, workers, pc, scheduled, shouldClose, locked, groups>>

scheduleTask(p, t) ==
    /\ Asks(p) /\ New(t) /\ ~locked
    /\ scheduled' = scheduled \cup {t}
    /\ state' = [state EXCEPT ![t] = "kept"]
    /\ UNCHANGED <<queue, workers, pc, push, followed, shouldClose, locked, groups>>

scheduleCancel(p) ==
    /\ Asks(p) /\ ~locked /\ ~shouldClose
    /\ shouldClose' = TRUE
    /\ UNCHANGED <<queue, workers, pc, push, followed, scheduled, locked, groups, state>>

-----------------------------------------------------------------------------
(* The main thread, Root::run: the server's start, then the loop.           *)
Run ==
    /\ Busy(Main, "start") /\ Goto(Main, "loop")
    /\ UNCHANGED <<queue, workers, push, root, groups, state>>

(* A task that is due, or the next followed one, under the mutex, which     *)
(* performTask keeps.                                                       *)
PerformKept(t) ==
    /\ Begin(Main, t) /\ locked' = TRUE
    /\ state' = [state EXCEPT ![t] = "pushed"]
    /\ UNCHANGED <<queue, workers, pc, shouldClose, groups>>

onHeartBeat ==
    /\ Busy(Main, "loop") /\ ~locked
    /\ \E t \in scheduled : scheduled' = scheduled \ {t} /\ PerformKept(t)
    /\ UNCHANGED followed

PerformFollowed ==
    /\ Busy(Main, "loop") /\ ~locked /\ ~hasTasks /\ followed # <<>>
    /\ followed' = Tail(followed) /\ PerformKept(Head(followed))
    /\ UNCHANGED scheduled

(* Mistake: followed tasks are not waited for.                              *)
finalize_Hasty ==
    /\ Busy(Main, "loop") /\ ~locked /\ ~hasTasks /\ shouldClose
    /\ ended' = Worker /\ Goto(Main, "join")
    /\ UNCHANGED <<taskDeque, taskCounter, eventFd, ready, workers, push, root, groups, state>>

(* finalize: END! for all the workers, which are then joined.               *)
finalize ==
    /\ Busy(Main, "loop") /\ ~locked /\ ~hasTasks /\ followed = <<>> /\ shouldClose
    /\ ended' = Worker /\ Goto(Main, "join")
    /\ UNCHANGED <<taskDeque, taskCounter, eventFd, ready, workers, push, root, groups, state>>

Joined ==
    /\ pc[Main] = "join" /\ \A w \in Worker : pc[w] = "end"
    /\ Goto(Main, "end")
    /\ UNCHANGED <<queue, workers, push, root, groups, state>>

-----------------------------------------------------------------------------
(* A worker: ConnectionWorker::worker and poll.  The thread adds the        *)
(* descriptors to its epoll; what is readable then is listed at once.       *)
Start(w) ==
    /\ pc[w] = "start" /\ pc[Main] # "start"
    /\ Goto(w, "poll")
    /\ ready' = IF eventFd > 0 THEN ready \cup {w} ELSE ready
    /\ UNCHANGED <<taskDeque, taskCounter, eventFd, ended, workers, push, root, groups, state>>

(* epoll_wait returns.  With EINTR in errno poll() returns and drops what   *)
(* it was given, of the event descriptor and of the pipe: both are edge     *)
(* triggered, and not listed again for it.                                  *)
EpollWait(w) ==
    LET event == w \in ready /\ eventFd > 0 IN
    /\ pc[w] = "poll" /\ (event \/ w \in ended)
    /\ ready' = ready \ {w} /\ ended' = ended \ {w}
    /\ IF w \in eintr
       THEN /\ eintr' = eintr \ {w}
            /\ UNCHANGED <<closing, pc>>
       ELSE /\ closing' = closing \cup ({w} \cap ended)
            /\ Goto(w, IF event THEN "events" ELSE "close")
            /\ UNCHANGED eintr
    /\ UNCHANGED <<taskDeque, taskCounter, eventFd, value, task, push, root, groups, state>>

(* Mistake: one event is read, as from a semaphore, and the rest is left.   *)
ReadEvent_One(w) ==
    /\ pc[w] = "events"
    /\ LET one == IF eventFd > 0 THEN 1 ELSE 0 IN
         value' = [value EXCEPT ![w] = one] /\ eventFd' = eventFd - one
    /\ Goto(w, IF eventFd > 0 THEN "pop" ELSE "close")
    /\ UNCHANGED <<taskDeque, taskCounter, ended, ready, eintr, closing, task, push, root, groups, state>>

ReadEvent(w) ==
    /\ pc[w] = "events"
    /\ value' = [value EXCEPT ![w] = eventFd] /\ eventFd' = 0
    /\ Goto(w, IF eventFd > 0 THEN "pop" ELSE "close")
    /\ UNCHANGED <<taskDeque, taskCounter, ended, ready, eintr, closing, task, push, root, groups, state>>

popTask(w) ==
    /\ pc[w] = "pop"
    /\ IF taskDeque = <<>>
       THEN Goto(w, "fault") /\ UNCHANGED <<taskDeque, task>>
       ELSE /\ task' = [task EXCEPT ![w] = Head(taskDeque)] /\ taskDeque' = Tail(taskDeque)
            /\ Goto(w, "forward")
    /\ UNCHANGED <<taskCounter, eventFd, ended, ready, eintr, value, closing, push, root, groups, state>>

(* A mistake: nothing is forwarded.                                         *)
Forward_Nothing(w) ==
    /\ pc[w] = "forward"
    /\ value' = [value EXCEPT ![w] = 0]
    /\ Goto(w, "run")
    /\ state' = [state EXCEPT ![task[w]] = "running"]
    /\ UNCHANGED <<queue, eintr, closing, task, push, root, groups>>

(* What else the descriptor held is for another worker.                     *)
Forward(w) ==
    /\ pc[w] = "forward"
    /\ IF value[w] > 1 THEN Write(value[w] - 1) ELSE UNCHANGED <<eventFd, ready>>
    /\ value' = [value EXCEPT ![w] = 0]
    /\ Goto(w, "run")
    /\ state' = [state EXCEPT ![task[w]] = "running"]
    /\ UNCHANGED <<taskDeque, taskCounter, ended, eintr, closing, task, push, root, groups>>

(* A task waits for the tasks it has added to its own group: waitForAll     *)
(* wakes up every 50 ms whether it was notified or not.                     *)
waitForAll(w) ==
    LET g == task[w] IN
    /\ (Busy(w, "run") /\ added[g] # completed[g]) \/ pc[w] = "wait"
    /\ update(g) /\ state' = Done(g)
    /\ Goto(w, IF added[g] = completed'[g] THEN "run" ELSE "wait")
    /\ UNCHANGED <<queue, workers, push, root, group, added>>

(* The task has been executed.  Its group gets it, and is notified next, or *)
(* it completes here; either way the counter goes down last.  It leaves no  *)
(* group of its own behind.                                                 *)
releaseTask(w) ==
    LET t == task[w] IN
    /\ Busy(w, "run") /\ added[t] = completed[t]
    /\ IF group[t] = None
       THEN state' = [state EXCEPT ![t] = "done"] /\ UNCHANGED performed
       ELSE /\ performed' = [performed EXCEPT ![group[t]] = @ \cup {t}]
            /\ state' = [state EXCEPT ![t] = "executed"]
    /\ Goto(w, IF group[t] = None THEN "count" ELSE "notify")
    /\ \/ UNCHANGED eintr
       \/ Interrupts /\ eintr' = eintr \cup {w}
    /\ UNCHANGED <<queue, value, closing, task, push, root, group, added, completed>>

(* The rest of onPerformed, without the group's mutex: its function and its *)
(* condition.  Nobody's step depends on either, as waiters wake up anyway.  *)
Notify(w) ==
    /\ pc[w] = "notify" /\ Goto(w, "count")
    /\ UNCHANGED <<queue, workers, push, root, groups, state>>

Released(w) ==
    /\ pc[w] = "count"
    /\ taskCounter' = taskCounter - 1 /\ task' = [task EXCEPT ![w] = None]
    /\ Goto(w, "close")
    /\ UNCHANGED <<taskDeque, eventFd, ended, ready, eintr, value, closing, push, root, groups, state>>

Close(w) ==
    /\ pc[w] = "close"
    /\ Goto(w, IF w \in closing THEN "end" ELSE "poll")
    /\ UNCHANGED <<queue, workers, push, root, groups, state>>

-----------------------------------------------------------------------------
MainStep == Run \/ pushTask(Main) \/ onHeartBeat \/ PerformFollowed \/ finalize \/ Joined

WorkerStep(w) ==
    \/ pushTask(w) \/ Start(w) \/ EpollWait(w) \/ ReadEvent(w) \/ popTask(w) \/ Forward(w)
    \/ waitForAll(w) \/ Notify(w) \/ Released(w) \/ Close(w)

Ask(p) ==
    \/ scheduleCancel(p)
    \/ \E t \in Task : performTask(p, t) \/ runFollowedTask(p, t) \/ scheduleTask(p, t)

(* Before the workers start no more than MaxFirst tasks are made.           *)
AskFirst == state[MaxFirst] = "new" /\ Ask(Main)

Next ==
    \/ MainStep \/ AskFirst
    \/ \E w \in Worker : WorkerStep(w) \/ releaseTask(w) \/ Ask(w)

Spec == Init /\ [][Next]_vars

(* Threads run, and a task that does not wait ends.                         *)
FairSpec == Spec /\ WF_vars(MainStep)
                 /\ \A w \in Worker : WF_vars(WorkerStep(w)) /\ WF_vars(releaseTask(w))

-----------------------------------------------------------------------------
Unfinished == {t \in Task : state[t] \in {"pushed", "running", "executed"}}

(* An event in the descriptor never waits for a worker that runs a task     *)
(* while another worker sleeps: forwarded events reach another worker.      *)
WokenForTasks ==
    (eventFd > 0 /\ \E w \in Worker : pc[w] = "poll")
        => \E w \in Worker : pc[w] = "events" \/ (pc[w] = "poll" /\ w \in ready)

(* hasTasks() is false only when no task is in the deque, runs, or waits to *)
(* be completed by its group, although a task may be popped and released    *)
(* before the thread that pushed it counts it.                              *)
IdleIsIdle == (hasTasks \/ stage[Main] # "none") \/ Unfinished = {}

(* Only a group that has all its tasks back is let go: the tasks its tasks  *)
(* have added to it included.                                               *)
WaitsForAll ==
    \A w \in Worker : pc[w] \in {"notify", "count", "close"} /\ task[w] # None =>
        \A t \in Task : group[t] = task[w] => state[t] = "done"

(* A group that a worker still has to notify has not been let go of by its  *)
(* owner.  The code does not see to it: the owner may wake up, complete the *)
(* task and return between the two halves of onPerformed.                   *)
GroupOutlives ==
    \A w \in Worker : pc[w] = "notify" => state[group[task[w]]] = "running"

(* A server that was told to close finishes all that was pushed or follows, *)
(* then joins its workers.                                                  *)
CloseFinishes ==
    shouldClose ~> (pc[Main] = "end" /\ \A t \in Task : state[t] \in {"new", "done"} \/ t \in scheduled)

(* A task that was pushed is executed, and completed.                       *)
EveryTaskDone == \A t \in Task : state[t] = "pushed" ~> state[t] = "done"
=============================================================================
