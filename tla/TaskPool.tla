------------------------------ MODULE TaskPool ------------------------------
(***************************************************************************)
(* What thread::TaskQueue promises about a task, whatever threads, queues, *)
(* conditions and counters it is made of: it is prepared once, executed at *)
(* most once, by one worker, after every more urgent task of the shared    *)
(* queue, and its complete functions run at most once, after its execution *)
(* or its refusal.                                                         *)
(***************************************************************************)
EXTENDS Integers

CONSTANTS Tasks,
          Prio,         \* priority of a task: the lesser, the sooner
          HasComplete   \* tasks with complete functions

VARIABLE phase  \* of every task

Phases == {"new", "accepted", "refused", "queued", "assigned", "detached",
           "running", "executed", "completed", "retired"}

In(p) == {t \in Tasks : phase[t] = p}
Move(S, to) == phase' = [t \in Tasks |-> IF t \in S THEN to ELSE phase[t]]

Init == phase = [t \in Tasks |-> "new"]

\* perform, with a prepare that accepts the task or refuses it; performAsync
Accept(t) == t \in In("new") /\ Move({t}, "accepted")
Refuse(t) == t \in In("new") /\ Move({t}, "refused")
Detach(t) == t \in In("new") /\ Move({t}, "detached")

\* to the shared queue, or to the queue of one worker
Enqueue(t) == t \in In("accepted") /\ Move({t}, "queued")
Assign(t) == t \in In("accepted") /\ Move({t}, "assigned")

\* a worker takes the most urgent task of the shared queue, or its own
Take(t) ==
  /\ \/ t \in In("queued") /\ \A u \in In("queued") : Prio[t] <= Prio[u]
     \/ t \in In("assigned")
  /\ Move({t}, "running")

Run(t) ==
  /\ t \in In("running") \cup In("detached")
  /\ Move({t}, IF t \in HasComplete THEN "executed" ELSE "retired")

\* update: the complete functions of what came out so far
Complete(S) ==
  /\ S \subseteq In("executed") \cup In("refused")
  /\ Move(S, "completed")

\* the queue is destroyed: what it still holds is completed without execution
Close ==
  /\ In("accepted") \cup In("running") = {}
  /\ Move(In("queued") \cup In("executed") \cup In("refused"), "completed")

Next ==
  \/ \E t \in Tasks : \/ Accept(t) \/ Refuse(t) \/ Detach(t)
                      \/ Enqueue(t) \/ Assign(t) \/ Take(t) \/ Run(t)
  \/ \E S \in SUBSET Tasks : Complete(S)
  \/ Close

Spec == Init /\ [][Next]_phase
=============================================================================
