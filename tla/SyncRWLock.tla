----------------------------- MODULE SyncRWLock -----------------------------
(* The read-write lock of the main thread: nobody blocks, a request that    *)
(* cannot be granted is queued with the function to call when it is.  That  *)
(* function may release the lock again, so the calls nest: `stack' holds    *)
(* what the main thread still has to do, the innermost call first.          *)
(* The reference counts of the objects are left out.                        *)
EXTENDS Naturals, Sequences, SequencesExt

CONSTANTS Request,    \* the users of the lock, each with one request at a time
          Kind,       \* of each request, "Read" or "Write"
          Key,        \* the LockPtr it is made with
          Brief,      \* requests whose function releases the lock itself
          Repeated    \* requests that are made again after their release

ASSUME LockParameters ==
    /\ Kind \in [Request -> {"Read", "Write"}]
    /\ Brief \subseteq Request /\ Repeated \subseteq Request

VARIABLES lock,       \* SyncRWLock::_lock
          lockers,    \* the keys it is held with
          readQueue, writeQueue,
          stack,      \* calls in progress
          status      \* of each request: "idle", "queued", "calling", "held", "done"

lockVars == <<lock, lockers, readQueue, writeQueue, stack, status>>

Call(r)     == [op |-> "call", request |-> r]
Release(r)  == [op |-> "release", request |-> r]
Finish      == [op |-> "finish"]
PopWriter   == [op |-> "popWriter"]
Readers(i)  == [op |-> "readers", next |-> i]

Reader == {r \in Request : Kind[r] = "Read"}
Writer == Request \ Reader

(* The types of the lock's state; a reader never waits among the writers.   *)
LockTypeOK ==
    /\ lock \in {"None", "Read", "Write"}
    /\ lockers \in Seq({Key[r] : r \in Request})
    /\ readQueue \in Seq(Reader) /\ writeQueue \in Seq(Writer)
    /\ status \in [Request -> {"idle", "queued", "calling", "held", "done"}]

LockInit ==
    /\ lock = "None" /\ lockers = <<>>
    /\ readQueue = <<>> /\ writeQueue = <<>>
    /\ stack = <<>>
    /\ status = [r \in Request |-> "idle"]

LockReset ==
    /\ lock' = "None" /\ lockers' = <<>>
    /\ readQueue' = <<>> /\ writeQueue' = <<>>
    /\ stack' = <<>>
    /\ status' = [r \in Request |-> "idle"]

-----------------------------------------------------------------------------
Idle == stack = <<>>
Innermost(op) == stack # <<>> /\ Head(stack).op = op

(* Mistakes: readers let in beside a writer, a writer let in beside readers.*)
Grantable_Shared(kind)    == lock = "None" \/ kind = "Read"
Grantable_UnderRead(kind) == lock # "Write"

Grantable(kind) == lock = "None" \/ (kind = "Read" /\ lock = "Read")

(* retainLock, and then the call of the function on top of `rest'.          *)
Grant(r, rest) ==
    /\ lock'    = Kind[r]
    /\ lockers' = Append(lockers, Key[r])
    /\ status'  = [status EXCEPT ![r] = "calling"]
    /\ stack'   = <<Call(r)>> \o rest

(* A mistake: one queue for both kinds.                                     *)
Enqueue_OneQueue(r) ==
    /\ readQueue' = Append(readQueue, r) /\ UNCHANGED writeQueue
    /\ status' = [status EXCEPT ![r] = "queued"]

Enqueue(r) ==
    /\ IF Kind[r] = "Read"
       THEN readQueue' = Append(readQueue, r) /\ UNCHANGED writeQueue
       ELSE writeQueue' = Append(writeQueue, r) /\ UNCHANGED readQueue
    /\ status' = [status EXCEPT ![r] = "queued"]

(* retainReadLock and retainWriteLock.                                      *)
Retain(r) ==
    /\ Idle /\ status[r] = "idle"
    /\ IF Grantable(Kind[r])
       THEN Grant(r, <<>>) /\ UNCHANGED <<readQueue, writeQueue>>
       ELSE Enqueue(r) /\ UNCHANGED <<lock, lockers, stack>>

(* tryReadLock never waits and calls nothing.                               *)
TryRead(r) ==
    /\ Idle /\ status[r] = "idle" /\ Kind[r] = "Read" /\ Grantable("Read")
    /\ lock'    = "Read"
    /\ lockers' = Append(lockers, Key[r])
    /\ status'  = [status EXCEPT ![r] = "held"]
    /\ UNCHANGED <<readQueue, writeQueue, stack>>

(* The function of a request that was granted runs.                         *)
Calls(r) ==
    /\ Innermost("call") /\ Head(stack).request = r
    /\ status' = [status EXCEPT ![r] = "held"]
    /\ stack'  = (IF r \in Brief THEN <<Release(r)>> ELSE <<>>) \o Tail(stack)
    /\ UNCHANGED <<lock, lockers, readQueue, writeQueue>>

(* A holder calls releaseReadLock or releaseWriteLock, and then does `rest'.*)
Releases(r, rest) ==
    /\ Idle /\ status[r] = "held"
    /\ stack' = <<Release(r)>> \o rest
    /\ UNCHANGED <<lock, lockers, readQueue, writeQueue, status>>

FirstOf(k) == CHOOSE i \in DOMAIN lockers :
    lockers[i] = k /\ \A j \in 1 .. (i - 1) : lockers[j] # k

(* A mistake: the last holder leaves without onLockFinished.                *)
ReleaseLock_NoFinish ==
    /\ Innermost("release")
    /\ LET r == Head(stack).request IN
       /\ lockers' = RemoveAt(lockers, FirstOf(Key[r]))
       /\ status'  = [status EXCEPT ![r] = IF r \in Repeated THEN "idle" ELSE "done"]
    /\ stack' = Tail(stack)
    /\ UNCHANGED <<lock, readQueue, writeQueue>>

(* releaseLock erases the first locker with that key, whatever it holds.    *)
ReleaseLock ==
    /\ Innermost("release")
    /\ LET r    == Head(stack).request
           rest == RemoveAt(lockers, FirstOf(Key[r]))
       IN  /\ lockers' = rest
           /\ status'  = [status EXCEPT ![r] = IF r \in Repeated THEN "idle" ELSE "done"]
           /\ stack'   = (IF rest = <<>> THEN <<Finish>> ELSE <<>>) \o Tail(stack)
    /\ UNCHANGED <<lock, readQueue, writeQueue>>

(* A mistake: only writers are waited for.                                  *)
OnLockFinished_NoReaders ==
    /\ Innermost("finish")
    /\ IF writeQueue # <<>>
       THEN Grant(Head(writeQueue), <<PopWriter>> \o Tail(stack))
       ELSE lock' = "None" /\ stack' = Tail(stack) /\ UNCHANGED <<lockers, status>>
    /\ UNCHANGED <<readQueue, writeQueue>>

(* onLockFinished: the first writer, or else every reader, and the queue is *)
(* cleared only after their functions have returned.                        *)
OnLockFinished ==
    /\ Innermost("finish")
    /\ IF writeQueue # <<>>
       THEN Grant(Head(writeQueue), <<PopWriter>> \o Tail(stack))
       ELSE /\ lock'  = "None"
            /\ stack' = (IF readQueue # <<>> THEN <<Readers(1)>> ELSE <<>>) \o Tail(stack)
            /\ UNCHANGED <<lockers, status>>
    /\ UNCHANGED <<readQueue, writeQueue>>

PopsWriter ==
    /\ Innermost("popWriter")
    /\ writeQueue' = Tail(writeQueue)
    /\ stack' = Tail(stack)
    /\ UNCHANGED <<lock, lockers, readQueue, status>>

GrantsReader ==
    /\ Innermost("readers")
    /\ LET i == Head(stack).next IN
       IF i <= Len(readQueue)
       THEN Grant(readQueue[i], <<Readers(i + 1)>> \o Tail(stack)) /\ UNCHANGED readQueue
       ELSE readQueue' = <<>> /\ stack' = Tail(stack) /\ UNCHANGED <<lock, lockers, status>>
    /\ UNCHANGED writeQueue

-----------------------------------------------------------------------------
Holding(r) == status[r] \in {"calling", "held"}

(* A writer has the lock alone (retainLock, releaseLock): neither a second  *)
(* writer nor a reader is ever let in beside it.                            *)
WriterExcludes ==
    \A r, s \in Request : Holding(r) /\ Holding(s) /\ Kind[r] = "Write" => r = s

(* A lock that is free has nobody waiting for it, and whoever is queued is  *)
(* in a queue, once: onLockFinished neither forgets nor repeats a request.  *)
NobodyForgotten ==
    Idle => /\ lock = "None" => readQueue = <<>> /\ writeQueue = <<>>
            /\ IsInjective(readQueue) /\ IsInjective(writeQueue)
            /\ Range(readQueue) \cup Range(writeQueue) = {r \in Request : status[r] = "queued"}
=============================================================================
