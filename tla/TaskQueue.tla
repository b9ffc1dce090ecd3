----------------------------- MODULE TaskQueue -----------------------------
(***************************************************************************)
(* thread::TaskQueue (utils/threads/SPThreadTaskQueue.cc): producers push  *)
(* tasks into a priority queue, workers pop and execute them, and the      *)
(* owner (the "main" thread) collects the executed ones with update, waits *)
(* for them, and cancels the workers.                                      *)
(*                                                                         *)
(* One step is one critical section or one atomic operation of one thread. *)
(* The input queues are the sequences of PrioritySeq; PriorityQueue models *)
(* the nodes under them.  A task is in exactly one place: not yet          *)
(* performed, in a thread's hands, queued, output, or done.  Undefined     *)
(* behaviour (the freed context dereferenced, a null task executed) sets   *)
(* fault and ends the behaviour.                                           *)
(***************************************************************************)
EXTENDS PrioritySeq, FiniteSets

CONSTANTS
  Tasks, Producers,
  NWorkers,      \* threadCount of spawnWorkers
  LocalQueue, Cancelable, Waitable,  \* the Flags passed to spawnWorkers
  Prio,          \* Task::getPriority
  Urgent,        \* tasks performed with first = true
  Refused,       \* tasks whose prepare() returns false
  HasComplete,   \* tasks with complete functions
  Async,         \* tasks given to performAsync
  MapKeys,       \* worker ids used as keys of perform(Map)
  OwnerCalls,    \* the functions the owner calls
  Batch,         \* TRUE: the owner spawns when everything is performed
  Careful        \* TRUE: the owner cancels when everything is performed, and
                 \* calls nothing but the destructor after that

Workers == 0..(NWorkers - 1)

ASSUME TaskQueueAssumption ==
  /\ NWorkers \in Nat
  /\ {LocalQueue, Cancelable, Waitable, Batch, Careful} \subseteq BOOLEAN
  /\ Prio \in [Tasks -> Int]
  /\ MapKeys \subseteq 0..NWorkers
  /\ IsFiniteSet(Tasks) /\ IsFiniteSet(Producers)

CONSTANTS NoTask, NoWorker
ASSUME NullAssumption == NoTask \notin Tasks /\ NoWorker \notin Int

VARIABLES
  fresh,      \* tasks not performed yet
  ppc, ptask, \* per producer: place in perform, the task it carries
  pkey,       \* per producer: the worker it fills in perform(Map)
  input,      \* _inputQueue
  local,      \* per worker: Worker::_local->queue
  counter,    \* _tasksCounter
  out,        \* _outputQueue; _outputCounter is its length
  async,      \* tasks in the detached threads of performAsync
  context,    \* _context: "none" (null), "live" or "freed"
  finalized,  \* WorkerContext::finalized
  wpc, wtask, \* per worker: place in the worker loop, the task it holds
  shouldQuit, \* per worker: Worker::_shouldQuit
  mpc,        \* the owner's place in the call it makes
  toJoin,     \* the workers the owner has yet to release, or to join
  executed,   \* tasks executed
  completed,  \* tasks whose onComplete was called
  fault       \* undefined behaviour happened

queues == <<input, local, counter, out, async>>
workers == <<wpc, wtask, shouldQuit>>
owner == <<context, finalized, mpc, toJoin>>
producers == <<fresh, ppc, ptask, pkey>>
done == <<executed, completed>>
vars == <<producers, queues, workers, owner, done, fault>>

\* mutant: the priority of the task is not used
Entry_Default(t, first) == [task |-> t, prio |-> 0, first |-> first]

\* what push is given: the task, its priority, insertFirst
Entry(t, first) == [task |-> t, prio |-> Prio[t], first |-> first]

Init ==
  /\ fresh = Tasks
  /\ ppc = [p \in Producers |-> "idle"]
  /\ ptask = [p \in Producers |-> NoTask]
  /\ pkey = [p \in Producers |-> NoWorker]
  /\ input = <<>> /\ local = [w \in Workers |-> <<>>]
  /\ counter = 0 /\ out = <<>> /\ async = {}
  /\ context = "none" /\ finalized = FALSE
  /\ wpc = [w \in Workers |-> "none"]
  /\ wtask = [w \in Workers |-> NoTask]
  /\ shouldQuit = [w \in Workers |-> FALSE]
  /\ mpc = "idle" /\ toJoin = {}
  /\ executed = {} /\ completed = {}
  /\ fault = FALSE
-----------------------------------------------------------------------------
(***************************************************************************)
(* The context: mutexes and condition variables.                           *)
(***************************************************************************)
\* _inputMutexQueue: only a worker about to wait holds it over a step
InputFree == LocalQueue \/ \A w \in Workers : wpc[w] # "locked"
\* the mutexQueue of w's local queue
LocalFree(w) == wpc[w] # "locked"

Sleeping == {w \in Workers : wpc[w] = "waiting"}

\* what follows wait(): back to the loop, or, with a local queue, on to
\* execute(task) with the task still null
AfterWait == IF LocalQueue THEN "null" ELSE "check"
Woken(W) == [w \in Workers |-> IF w \in W THEN AfterWait ELSE wpc[w]]

\* notify(): notify_one on the workers' condition variable
Notify ==
  \/ context = "none" /\ UNCHANGED wpc
  \/ context = "live" /\ Sleeping = {} /\ UNCHANGED wpc
  \/ context = "live" /\ \E w \in Sleeping : wpc' = Woken({w})

\* notifyAll()
NotifyAll == wpc' = Woken(Sleeping)

\* notifyWait() and notifyExit(): the owner, in wait(), is woken; its timed
\* waits can end at any moment and need no notification
NotifyOwner == mpc' = IF mpc = "wait" THEN "woken" ELSE mpc

Crash ==
  /\ fault' = TRUE
  /\ UNCHANGED <<producers, queues, workers, owner, done>>
-----------------------------------------------------------------------------
(***************************************************************************)
(* Producers: perform, perform(Map), performAsync, onMainThread.           *)
(***************************************************************************)
ProducersDone ==
  fresh = {} /\ async = {} /\ \A p \in Producers : ppc[p] = "idle"

At(p, from, to) == ppc[p] = from /\ ppc' = [ppc EXCEPT ![p] = to]
Carries(p, t) == ptask' = [ptask EXCEPT ![p] = t]

\* mutant: a refused task is counted
Take_CountsRefused(p, t, from, accepted) ==
  /\ t \in fresh \ Async
  /\ fresh' = fresh \ {t}
  /\ Carries(p, t)
  /\ At(p, from, IF t \in Refused THEN "refused" ELSE accepted)
  /\ counter' = counter + 1
  /\ UNCHANGED <<pkey, input, local, out, async, workers, owner, done, fault>>

\* perform, or an element of perform(Map): prepare the task and count it
Take(p, t, from, accepted) ==
  /\ t \in fresh \ Async
  /\ fresh' = fresh \ {t}
  /\ Carries(p, t)
  /\ IF t \in Refused
     THEN At(p, from, "refused") /\ UNCHANGED counter
     ELSE At(p, from, accepted) /\ counter' = counter + 1
  /\ UNCHANGED <<pkey, input, local, out, async, workers, owner, done, fault>>

Perform(p) == \E t \in Tasks : Take(p, t, "idle", "push")

\* mutant: the task is copied into the queue, not moved
Push_Copies(p) ==
  /\ InputFree
  /\ At(p, "push", "notify")
  /\ IsPushOf(input', input, Entry(ptask[p], ptask[p] \in Urgent))
  /\ UNCHANGED <<fresh, ptask, pkey, local, counter, out, async, workers, owner, done, fault>>

Push(p) ==
  /\ InputFree
  /\ At(p, "push", "notify")
  /\ Carries(p, NoTask)
  /\ IsPushOf(input', input, Entry(ptask[p], ptask[p] \in Urgent))
  /\ UNCHANGED <<fresh, pkey, local, counter, out, async, workers, owner, done, fault>>

PushNotify(p) ==
  /\ context # "freed"
  /\ At(p, "notify", "idle")
  /\ Notify
  /\ UNCHANGED <<fresh, ptask, pkey, queues, wtask, shouldQuit, owner, done, fault>>

\* perform(Map): returns false unless there is a context with local queues;
\* the keys ascend, and one past the last worker is let through
MapKey(p, k) ==
  /\ \/ At(p, "idle", "map") /\ context = "live" /\ LocalQueue /\ fresh # {}
     \/ At(p, "map", "map") /\ k > pkey[p]
  /\ pkey' = [pkey EXCEPT ![p] = k]
  /\ UNCHANGED <<fresh, ptask, queues, workers, owner, done, fault>>

MapTake(p) == pkey[p] \in Workers /\ \E t \in Tasks : Take(p, t, "map", "mapPush")

\* Worker::perform
PushLocal(w, e) ==
  /\ LocalFree(w)
  /\ \E k \in 0..Len(local[w]) :
       /\ IsPlaceFor(local[w], e, k)
       /\ local' = [local EXCEPT ![w] = InsertAt(@, k + 1, e)]

\* mutant: the caller goes on using the task it moved into the queue
MapPush_Keeps(p) ==
  /\ At(p, "mapPush", "map")
  /\ PushLocal(pkey[p], Entry(ptask[p], FALSE))
  /\ UNCHANGED <<fresh, ptask, pkey, input, counter, out, async, workers, owner, done, fault>>

MapPush(p) ==
  /\ At(p, "mapPush", "map")
  /\ PushLocal(pkey[p], Entry(ptask[p], FALSE))
  /\ Carries(p, NoTask)
  /\ UNCHANGED <<fresh, pkey, input, counter, out, async, workers, owner, done, fault>>

MapEnd(p) ==
  /\ context = "live"
  /\ At(p, "map", "idle")
  /\ pkey' = [pkey EXCEPT ![p] = NoWorker]
  /\ NotifyAll
  /\ UNCHANGED <<fresh, ptask, queues, wtask, shouldQuit, owner, done, fault>>

\* onMainThread(task), here for a task whose prepare failed, and its second
\* half: wake the owner out of wait() or waitForAll()
OnMainThread(p) ==
  /\ At(p, "refused", "refusedNotify")
  /\ Carries(p, NoTask)
  /\ out' = Append(out, ptask[p])
  /\ UNCHANGED <<fresh, pkey, input, local, counter, async, workers, owner, done, fault>>

WakeOwner ==
  /\ context # "freed"
  /\ IF context = "live" /\ (Waitable \/ counter = 0) THEN NotifyOwner ELSE UNCHANGED mpc
  /\ UNCHANGED <<context, finalized, toJoin>>

RefusedNotify(p) ==
  /\ At(p, "refusedNotify", IF pkey[p] = NoWorker THEN "idle" ELSE "map")
  /\ WakeOwner
  /\ UNCHANGED <<fresh, ptask, pkey, queues, workers, done, fault>>

\* performAsync: a detached thread for one task, neither prepared nor counted
PerformAsync(t) ==
  /\ t \in fresh \cap Async
  /\ fresh' = fresh \ {t} /\ async' = async \cup {t}
  /\ UNCHANGED <<ppc, ptask, pkey, input, local, counter, out, workers, owner, done, fault>>

\* _SingleTaskWorker::worker; the thread dereferences the context if the task
\* has complete functions
AsyncRun(t) ==
  /\ t \in async
  /\ async' = async \ {t}
  /\ executed' = executed \cup {t}
  /\ IF t \in HasComplete THEN out' = Append(out, t) /\ WakeOwner
     ELSE UNCHANGED <<out, owner>>
  /\ UNCHANGED <<producers, input, local, counter, workers, completed, fault>>

\* workers[size] is read, or the context that cancelWorkers deleted
ProducerFault ==
  /\ \/ \E p \in Producers : ppc[p] = "map" /\ pkey[p] = NWorkers
     \/ /\ context = "freed"
        /\ \/ \E p \in Producers : ppc[p] \in {"notify", "refusedNotify", "map"}
           \/ async \cap HasComplete # {}
  /\ Crash
-----------------------------------------------------------------------------
(***************************************************************************)
(* Workers: threadInit, then worker() until it returns false.              *)
(***************************************************************************)
WorkerAt(w, from, to) == wpc[w] = from /\ wpc' = [wpc EXCEPT ![w] = to]
Holds(w, t) == wtask' = [wtask EXCEPT ![w] = t]
TestAndSet(w) == shouldQuit' = [shouldQuit EXCEPT ![w] = TRUE]

ThreadInit(w) ==
  /\ WorkerAt(w, "init", "check")
  /\ TestAndSet(w)
  /\ UNCHANGED <<producers, queues, wtask, owner, done, fault>>

\* worker(): a cleared flag ends the thread
CheckQuit(w) ==
  /\ WorkerAt(w, "check", IF ~ shouldQuit[w] THEN "exited"
                          ELSE IF LocalQueue THEN "popLocal" ELSE "pop")
  /\ TestAndSet(w)
  /\ UNCHANGED <<producers, queues, wtask, owner, done, fault>>

\* pop_direct on a queue: its first task to execute, or the next place to look
PopFrom(w, queue, from, otherwise) ==
  IF queue = <<>> THEN WorkerAt(w, from, otherwise) /\ UNCHANGED wtask
  ELSE WorkerAt(w, from, "execute") /\ Holds(w, Head(queue).task)

PopLocal(w) ==
  /\ PopFrom(w, local[w], "popLocal", "pop")
  /\ local' = [local EXCEPT ![w] = IF @ = <<>> THEN @ ELSE Tail(@)]
  /\ UNCHANGED <<producers, input, counter, out, async, shouldQuit, owner, done, fault>>

\* popTask
PopTask(w) ==
  /\ InputFree
  /\ PopFrom(w, input, "pop", "lock")
  /\ input' = IF input = <<>> THEN input ELSE Tail(input)
  /\ UNCHANGED <<producers, local, counter, out, async, shouldQuit, owner, done, fault>>

Moves(w, from, to) ==
  /\ WorkerAt(w, from, to)
  /\ UNCHANGED <<producers, queues, wtask, shouldQuit, owner, done, fault>>

\* mutant: the local queue is not looked at again
Lock_NoRecheck(w) ==
  /\ InputFree
  /\ Moves(w, "lock", IF finalized THEN AfterWait ELSE "locked")

\* nothing to do: take the mutex of the queue; a local queue, and only a local
\* queue, is looked at again; wait() returns at once when finalized
Lock(w) ==
  /\ InputFree
  /\ Moves(w, "lock", IF LocalQueue /\ local[w] # <<>> THEN "check"
                      ELSE IF finalized THEN AfterWait ELSE "locked")

\* condition.wait(lock) releases the mutex and sleeps; it may also wake without
\* a notification
Wait(w) == Moves(w, "locked", "waiting")
SpuriousWakeup(w) == Moves(w, "waiting", AfterWait)

Execute(w) ==
  /\ WorkerAt(w, "execute", IF wtask[w] \in HasComplete THEN "output"
                            ELSE IF Waitable THEN "notifyWait" ELSE "count")
  /\ executed' = executed \cup {wtask[w]}
  /\ UNCHANGED <<producers, queues, wtask, shouldQuit, owner, completed, fault>>

\* onMainThreadWorker: a task with complete functions goes to the owner
Output(w) ==
  /\ WorkerAt(w, "output", IF Waitable THEN "notifyWait" ELSE "count")
  /\ Holds(w, NoTask)
  /\ out' = Append(out, wtask[w])
  /\ UNCHANGED <<producers, input, local, counter, async, shouldQuit, owner, done, fault>>

NotifyWait(w) ==
  /\ \/ WorkerAt(w, "notifyWait", "count")
     \/ WorkerAt(w, "notifyExit", "check")
  /\ NotifyOwner
  /\ UNCHANGED <<producers, queues, wtask, shouldQuit, context, finalized, toJoin, done, fault>>

\* _tasksCounter.fetch_sub(1) == 1
CountDown(w) ==
  /\ WorkerAt(w, "count", IF counter = 1 /\ ~ Waitable THEN "notifyExit" ELSE "check")
  /\ Holds(w, NoTask)
  /\ counter' = counter - 1
  /\ UNCHANGED <<producers, input, local, out, async, shouldQuit, owner, done, fault>>

\* execute(task) with a null task, or a step of a worker after its context
WorkerFault(w) ==
  /\ \/ wpc[w] = "null"
     \/ context = "freed" /\ wpc[w] \notin {"none", "exited"}
  /\ Crash
-----------------------------------------------------------------------------
(***************************************************************************)
(* The owner.                                                              *)
(***************************************************************************)
OwnerAt(from, to) == mpc = from /\ mpc' = to
Calls(f) == f \in OwnerCalls /\ context = "live"

\* spawnWorkers: refused while there is a context, even a freed one
Spawn ==
  /\ "spawn" \in OwnerCalls /\ OwnerAt("idle", "idle") /\ context = "none"
  /\ Batch => ProducersDone
  /\ context' = "live"
  /\ wpc' = [w \in Workers |-> "init"]
  /\ UNCHANGED <<producers, queues, wtask, shouldQuit, finalized, toJoin, done, fault>>

\* update(), alone or in a wait: take the output under its mutex, complete it
Collects(from, to) ==
  /\ OwnerAt(from, to)
  /\ out' = <<>>
  /\ completed' = completed \cup Range(out)
  /\ UNCHANGED <<producers, input, local, counter, async, workers, context, finalized,
                 toJoin, executed, fault>>

Goes(from, to) ==
  /\ OwnerAt(from, to)
  /\ UNCHANGED <<producers, queues, workers, context, finalized, toJoin, done, fault>>

Update == "update" \in OwnerCalls /\ Collects("idle", "idle")

\* mutant: an empty input queue is taken for an idle one
CheckCounter_InputEmpty == Goes("checkCounter", IF input = <<>> THEN "idle" ELSE "waitExit")

\* waitForAll: update, check the counter, and while it is not 0 waitExit: a
\* timed wait, which can end at any moment, and an update
WaitForAll == Calls("waitForAll") /\ Cancelable /\ Collects("idle", "checkCounter")
CheckCounter == Goes("checkCounter", IF counter = 0 THEN "idle" ELSE "waitExit")
WaitExit == Collects("waitExit", "checkCounter")

\* wait(): sleep without a predicate, then update; wait(TimeInterval) is an
\* Update when there is output, and nothing otherwise
WaitOutput == Calls("wait") /\ Waitable /\ Goes("idle", "wait")
WaitReturns == Collects("woken", "idle")

\* finalize(): the flag and its notification, under no mutex
Finalize ==
  /\ Calls("finalize")
  /\ OwnerAt("idle", "finalize")
  /\ finalized' = TRUE
  /\ UNCHANGED <<producers, queues, workers, context, toJoin, done, fault>>

OwnerNotifies(from, to) ==
  /\ OwnerAt(from, to)
  /\ NotifyAll
  /\ UNCHANGED <<producers, queues, wtask, shouldQuit, context, finalized, done, fault>>

FinalizeNotify == OwnerNotifies("finalize", "idle") /\ UNCHANGED toJoin

\* cancelWorkers: release every worker, notify, join and delete every worker,
\* delete the context, keep the pointer to it
Cancel ==
  /\ Calls("cancel")
  /\ Careful => ProducersDone
  /\ OwnerAt("idle", "release") /\ toJoin' = Workers
  /\ UNCHANGED <<producers, queues, workers, context, finalized, done, fault>>

\* Worker::release: the last reference clears _shouldQuit
ReleaseWorker(w) ==
  /\ mpc = "release" /\ w \in toJoin
  /\ toJoin' = toJoin \ {w}
  /\ shouldQuit' = [shouldQuit EXCEPT ![w] = FALSE]
  /\ UNCHANGED <<producers, queues, wpc, wtask, context, finalized, mpc, done, fault>>

CancelNotify == toJoin = {} /\ OwnerNotifies("release", "join") /\ toJoin' = Workers

Join(w) ==
  /\ mpc = "join" /\ w \in toJoin
  /\ WorkerAt(w, "exited", "none")
  /\ toJoin' = toJoin \ {w}
  /\ UNCHANGED <<producers, queues, wtask, shouldQuit, context, finalized, mpc, done, fault>>

\* mutant: the workers are not joined
CancelReturns_NoJoin ==
  /\ OwnerAt("join", "idle") /\ context' = "freed"
  /\ UNCHANGED <<producers, queues, workers, finalized, toJoin, done, fault>>

CancelReturns ==
  /\ toJoin = {}
  /\ OwnerAt("join", "idle") /\ context' = "freed"
  /\ UNCHANGED <<producers, queues, workers, finalized, toJoin, done, fault>>

\* a call after cancelWorkers dereferences the freed context; the destructor
\* always makes one, to cancelWorkers
OwnerFault ==
  /\ context = "freed" /\ mpc = "idle"
  /\ \/ "destroy" \in OwnerCalls
     \/ ~ Careful /\ OwnerCalls \cap {"waitForAll", "wait", "finalize", "cancel"} # {}
  /\ Crash

\* ~TaskQueue without a context: the workers retain the queue, so a live one
\* excludes it.  What is queued is completed unsuccessfully, then update()
Destroy ==
  /\ "destroy" \in OwnerCalls /\ context = "none" /\ ProducersDone
  /\ OwnerAt("idle", "destroyed")
  /\ input' = <<>> /\ out' = <<>>
  /\ completed' = completed \cup Range(out) \cup {input[i].task : i \in DOMAIN input}
  /\ UNCHANGED <<producers, local, counter, async, workers, context, finalized, toJoin,
                 executed, fault>>
-----------------------------------------------------------------------------
ProducerStep(p) ==
  \/ Perform(p) \/ Push(p) \/ PushNotify(p)
  \/ MapTake(p) \/ MapPush(p) \/ MapEnd(p) \/ \E k \in MapKeys : MapKey(p, k)
  \/ OnMainThread(p) \/ RefusedNotify(p)

AsyncStep == \E t \in Async : PerformAsync(t) \/ AsyncRun(t)

WorkerStep(w) ==
  \/ ThreadInit(w) \/ CheckQuit(w)
  \/ PopLocal(w) \/ PopTask(w) \/ Lock(w) \/ Wait(w)
  \/ Execute(w) \/ Output(w) \/ NotifyWait(w) \/ CountDown(w)
  \/ WorkerFault(w)

\* the steps of a call in progress: the owner does not stop in the middle
OwnerStep ==
  \/ CheckCounter \/ WaitExit \/ WaitReturns
  \/ FinalizeNotify
  \/ CancelNotify \/ CancelReturns
  \/ \E w \in Workers : ReleaseWorker(w) \/ Join(w)

OwnerCall ==
  \/ Spawn \/ Update \/ WaitForAll \/ WaitOutput \/ Finalize \/ Cancel
  \/ OwnerFault \/ Destroy

Next ==
  /\ ~ fault
  /\ mpc # "destroyed"
  /\ \/ \E p \in Producers : ProducerStep(p)
     \/ AsyncStep \/ ProducerFault
     \/ \E w \in Workers : WorkerStep(w) \/ SpuriousWakeup(w)
     \/ OwnerStep \/ OwnerCall

Spec == Init /\ [][Next]_vars

\* Every started thread is scheduled, and producers perform the tasks they have;
\* the owner has to call nothing, and no condition variable wakes on its own.
Scheduling ==
  /\ \A p \in Producers : WF_vars(~ fault /\ ProducerStep(p))
  /\ \A w \in Workers : WF_vars(~ fault /\ WorkerStep(w))
  /\ WF_vars(~ fault /\ OwnerStep)

FairSpec == Spec /\ Scheduling
-----------------------------------------------------------------------------
QEntry == [task : Tasks, prio : Int, first : BOOLEAN]

ProducersOK ==
  /\ fresh \subseteq Tasks
  /\ ppc \in [Producers -> {"idle", "push", "notify", "map", "mapPush",
                            "refused", "refusedNotify"}]
  /\ ptask \in [Producers -> Tasks \cup {NoTask}]
  /\ pkey \in [Producers -> MapKeys \cup {NoWorker}]
  /\ \A p \in Producers :
       /\ ppc[p] \in {"push", "mapPush", "refused"} <=> ptask[p] # NoTask
       /\ ppc[p] = "mapPush" => pkey[p] \in Workers

QueuesOK ==
  /\ input \in Seq(QEntry) /\ local \in [Workers -> Seq(QEntry)]
  /\ counter \in Int /\ out \in Seq(Tasks) /\ async \subseteq Tasks

WorkersOK ==
  /\ wpc \in [Workers -> {"none", "init", "check", "popLocal", "pop", "lock",
                          "locked", "waiting", "null", "execute", "output",
                          "notifyWait", "count", "notifyExit", "exited"}]
  /\ wtask \in [Workers -> Tasks \cup {NoTask}]
  /\ shouldQuit \in [Workers -> BOOLEAN]
  /\ \A w \in Workers : /\ wpc[w] \in {"execute", "output"} => wtask[w] # NoTask
                        /\ context = "none" => wpc[w] = "none"

OwnerOK ==
  /\ context \in {"none", "live", "freed"} /\ finalized \in BOOLEAN
  /\ mpc \in {"idle", "checkCounter", "waitExit", "wait", "woken", "finalize",
              "release", "join", "destroyed"}
  /\ toJoin \subseteq Workers
  /\ executed \subseteq Tasks /\ completed \subseteq Tasks
  /\ fault \in BOOLEAN

(* Types; a producer between two critical sections, and a worker from the   *)
(* pop to the output, hold exactly the task they are about to pass on; no   *)
(* worker runs without a context.                                           *)
TypeOK == ProducersOK /\ QueuesOK /\ WorkersOK /\ OwnerOK

\* The parties to the counter: a task counted by perform and not yet pushed,
\* queued, or in the hands of a worker that has not counted it down.
Pushing == {p \in Producers : ppc[p] \in {"push", "mapPush"}}
Assigned == UNION {{w} \X DOMAIN local[w] : w \in Workers}
Busy == {w \in Workers : wpc[w] \in {"execute", "output", "notifyWait", "count"}}
InFlight == Cardinality(Pushing) + Len(input) + Cardinality(Assigned)
              + Cardinality(Busy)

(* _tasksCounter, incremented by producers before they push and decremented *)
(* by workers after the output, in no common critical section, is at every  *)
(* moment the number of tasks in flight: it neither wraps below zero nor    *)
(* reaches zero early, whatever the interleaving and the queue.             *)
CounterExact == mpc # "destroyed" => counter = InFlight

(* waitForAll returns only when every task whose perform had begun was      *)
(* executed: nothing is in a producer's hands, queued or executing, though  *)
(* the counter is read outside of every mutex.                              *)
WaitForAllDrains ==
  [][mpc = "checkCounter" /\ mpc' = "idle" =>
       \A t \in Tasks : t \in fresh \/ t \in executed \/ t \in Refused \/ t \in Async]_vars

(* The mutex held from the second look at a local queue to the wait, and    *)
(* the notification after the pushes of perform(Map): no worker sleeps on   *)
(* tasks of its own once the call that gave them to it has returned.        *)
LocalNotMissed ==
  \A w \in Workers :
    wpc[w] \in {"locked", "waiting"} /\ local[w] # <<>> =>
      \E p \in Producers : pkey[p] # NoWorker

(* No thread dereferences a deleted context, or executes a null task.       *)
NoFault == ~ fault

(* cancelWorkers deletes the context only when every worker has ended, with *)
(* no task in its hands, whatever is performed and notified meanwhile; what *)
(* uses the context after that is the owner, or a producer.                 *)
WorkersEnd ==
  context = "freed" => \A w \in Workers : wpc[w] = "none" /\ wtask[w] = NoTask

(* Tasks performed before spawnWorkers are all executed: workers that have  *)
(* not seen the queue empty do not sleep.                                   *)
BatchExecuted ==
  \A t \in Tasks \ Refused : context = "live" ~> t \in executed

(* waitForAll returns, although its notification may come before its wait.  *)
WaitForAllReturns == mpc = "checkCounter" ~> mpc = "idle"

(* The use that performAll makes of a queue, spawning the workers when the  *)
(* tasks are there and waiting for all, comes to its end.                   *)
BatchEnds == BatchExecuted /\ WaitForAllReturns

(* A performed task is executed. *)
PerformedIsExecuted ==
  \A t \in Tasks : (\E i \in DOMAIN input : input[i].task = t) ~> t \in executed

(* cancelWorkers returns. *)
CancelTerminates == mpc = "release" ~> context = "freed"

(* wait() returns once there is output to wait for. *)
WaitWakes == mpc = "wait" /\ out # <<>> ~> mpc = "idle"

\* the seats of a task: where the code has it in hand, queued or output
Seats(t) ==
  ({"producer"} \X {p \in Producers : ptask[p] = t})
    \cup ({"input"} \X {i \in DOMAIN input : input[i].task = t})
    \cup ({"local"} \X {a \in Assigned : local[a[1]][a[2]].task = t})
    \cup ({"running"} \X {w \in Workers : wtask[w] = t /\ wpc[w] = "execute"})
    \cup ({"leaving"} \X {w \in Workers : wtask[w] = t /\ wpc[w] = "output"})
    \cup ({"out"} \X {i \in DOMAIN out : out[i] = t})

\* it has one at most, none before perform or after its completion, and once
\* executed it is on its way out
OneSeat(t) ==
  /\ \A a, b \in Seats(t) : a = b
  /\ t \in fresh \cup async \cup completed => Seats(t) = {}
  /\ t \in executed => \A a \in Seats(t) : a[1] \in {"leaving", "out"}

\* the phase of a task, for TaskPool
PhaseOf(t) ==
  CASE t \in fresh -> "new"
    [] t \in completed -> "completed"
    [] t \in executed \ completed -> IF t \in HasComplete THEN "executed" ELSE "retired"
    [] t \in async -> "detached"
    [] t \in Refused \ (Async \cup fresh \cup completed) -> "refused"
    [] t \notin Refused /\ \E p \in Producers : ptask[p] = t -> "accepted"
    [] \E i \in DOMAIN input : input[i].task = t -> "queued"
    [] \E a \in Assigned : local[a[1]][a[2]].task = t -> "assigned"
    [] OTHER -> "running"

Pool == INSTANCE TaskPool WITH phase <- [t \in Tasks |-> PhaseOf(t)]

(* Every step is a step of TaskPool on the tasks, or none: a task is        *)
(* executed by one worker and completed by the owner at most once, in this  *)
(* order, and leaves the shared queue before the less urgent ones, whatever *)
(* the workers, the producers and the owner interleave; the phases hide no  *)
(* second copy of a task.                                                   *)
ImplementsTaskPool == Pool!Spec /\ [](\A t \in Tasks : OneSeat(t))
=============================================================================
