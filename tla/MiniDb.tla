------------------------------- MODULE MiniDb -------------------------------
(* The file protocol of a minidb storage: the locks of Transaction::open,   *)
(* the page cache, and the write-ahead log that PageCache::clear writes and *)
(* Storage::applyWal replays.  A transaction is an action per call; a       *)
(* commit is one action per effect on the file system, so that the process  *)
(* can be killed between any two of them.  What a page holds is the number  *)
(* of the commit that wrote it last.                                        *)
EXTENDS Integers, FiniteSets

CONSTANTS Process,            \* processes that have the storage open
          Conn,               \* File descriptors: one per Transaction object
          Home,               \* process of each Conn
          Page,               \* page numbers; 0 holds the StorageHeader
          MaxTx,              \* bound on the number of commits
          CrashAt,            \* steps at which a process may be killed
          WalFaults,          \* calls of makeWal that may fail: "open", "size"
          Careful,            \* do processes spare the log a killed one left?
          FreshTransaction    \* is a Transaction object used once?

Steps == {"closed", "found", "upgrade", "read", "write", "create", "fill", "activate", "apply", "direct"}

ASSUME Parameters ==
    /\ Home \in [Conn -> Process]
    /\ Page \subseteq Nat /\ 0 \in Page
    /\ MaxTx \in Nat
    /\ CrashAt \subseteq Steps
    /\ WalFaults \subseteq {"open", "size"}
    /\ Careful \in BOOLEAN /\ FreshTransaction \in BOOLEAN

VARIABLES file,      \* the pages of the storage file
          wal,       \* the log beside it: state, pages it holds, their commit
          lock,      \* flock of each descriptor: "none", "SH" or "EX"
          pc,        \* where each Transaction (or Storage constructor) is
          after,     \* why it applies a log: "open", "ctor", "commit", "close"
          view,      \* PageCache::_pages: version of each cached page
          dirty,     \* cached pages opened for writing
          job,       \* pages still to be copied into the file, their commit
          success,   \* Transaction::_success
          ready,     \* the process has constructed its Storage
          fault      \* a null pointer was dereferenced

vars == <<file, wal, lock, pc, after, view, dirty, job, success, ready, fault>>

Header  == 0
Unread  == -1
Version == 0 .. MaxTx
Nothing == [p \in Page |-> Unread]
NoWal   == [state |-> "none", pages |-> {}, tx |-> 0]
NoJob   == [pages |-> {}, tx |-> 0]

TypeOK ==
    /\ file \in [Page -> Version]
    /\ wal \in [state : {"none", "empty", "invalid", "valid"}, pages : SUBSET Page, tx : Version]
    /\ lock \in [Conn -> {"none", "SH", "EX"}]
    /\ pc \in [Conn -> Steps]
    /\ after \in [Conn -> {"open", "ctor", "commit", "close"}]
    /\ view \in [Conn -> [Page -> Version \cup {Unread}]]
    /\ dirty \in [Conn -> SUBSET Page]
    /\ \A c \in Conn : \A p \in dirty[c] : view[c][p] # Unread
    /\ job \in [Conn -> [pages : SUBSET Page, tx : Version]]
    /\ success \in [Conn -> BOOLEAN]
    /\ ready \in [Process -> BOOLEAN]
    /\ fault \in BOOLEAN

Init ==
    /\ file    = [p \in Page |-> 0]
    /\ wal     = NoWal
    /\ lock    = [c \in Conn |-> "none"]
    /\ pc      = [c \in Conn |-> "closed"]
    /\ after   = [c \in Conn |-> "close"]
    /\ view    = [c \in Conn |-> Nothing]
    /\ dirty   = [c \in Conn |-> {}]
    /\ job     = [c \in Conn |-> NoJob]
    /\ success = [c \in Conn |-> TRUE]
    /\ ready   = [q \in Process |-> FALSE]
    /\ fault   = FALSE

-----------------------------------------------------------------------------
(* flock grants a shared lock beside shared ones, an exclusive one alone.   *)
CanShare(c) == \A d \in Conn \ {c} : lock[d] # "EX"
CanOwn_AsShared(c) == \A d \in Conn \ {c} : lock[d] # "EX"
CanOwn(c) == \A d \in Conn \ {c} : lock[d] = "none"

Constructing(c) == pc[c] \in {"found", "upgrade"} \/ (pc[c] = "apply" /\ after[c] = "ctor")
Building(q) == \E c \in Conn : Home[c] = q /\ Constructing(c)

Goto(c, step) == pc' = [pc EXCEPT ![c] = step]
Take(c, kind) == lock' = [lock EXCEPT ![c] = kind]

(* The header a new page cache reads from the file.                         *)
ReadHeader(c) == view' = [view EXCEPT ![c] = [Nothing EXCEPT ![Header] = file[Header]]]

Leave(c) ==
    /\ Goto(c, "closed") /\ Take(c, "none")
    /\ view'    = [view EXCEPT ![c] = Nothing]
    /\ dirty'   = [dirty EXCEPT ![c] = {}]
    /\ success' = [success EXCEPT ![c] = FreshTransaction \/ @]

(* The process ends: its locks and caches are gone, the files stay.         *)
Gone(q) ==
    LET Keep(c, value, blank) == IF Home[c] = q THEN blank ELSE value IN
    /\ lock'    = [c \in Conn |-> Keep(c, lock[c], "none")]
    /\ pc'      = [c \in Conn |-> Keep(c, pc[c], "closed")]
    /\ view'    = [c \in Conn |-> Keep(c, view[c], Nothing)]
    /\ dirty'   = [c \in Conn |-> Keep(c, dirty[c], {})]
    /\ job'     = [c \in Conn |-> Keep(c, job[c], NoJob)]
    /\ success' = [c \in Conn |-> Keep(c, success[c], TRUE)]
    /\ ready'   = [ready EXCEPT ![q] = FALSE]

-----------------------------------------------------------------------------
(* What users must do for what the code leaves open: while there is a log,  *)
(* construct no Storage beside another process, and open nothing for read.  *)
LogLeft == wal.state = "valid"
Alone(q) == \A other \in Process \ {q} : ~ready[other] /\ ~Building(other)

CanConstruct(c) ==
    /\ pc[c] = "closed" /\ ~ready[Home[c]] /\ ~Building(Home[c])
    /\ CanShare(c)
    /\ Careful /\ LogLeft => Alone(Home[c])

(* The Storage constructor on a file that exists: there is no log.          *)
Construct(c) ==
    /\ CanConstruct(c) /\ wal.state = "none"
    /\ ready' = [ready EXCEPT ![Home[c]] = TRUE]
    /\ UNCHANGED <<file, wal, lock, pc, after, view, dirty, job, success, fault>>

(* There is one, that is still to be opened; the lock is a shared one.      *)
ConstructFinds(c) ==
    /\ CanConstruct(c) /\ wal.state # "none"
    /\ Take(c, "SH") /\ Goto(c, "found")
    /\ UNCHANGED <<file, wal, after, view, dirty, job, success, ready, fault>>

(* An invalid log is removed, if another constructor has not removed it     *)
(* since this one has opened it.                                            *)
ConstructDrops(c) ==
    /\ pc[c] = "found" /\ wal.state \in {"none", "invalid"}
    /\ wal' = NoWal
    /\ Take(c, "none") /\ Goto(c, "closed")
    /\ ready' = [ready EXCEPT ![Home[c]] = TRUE]
    /\ UNCHANGED <<file, after, view, dirty, job, success, fault>>

(* A valid log is mapped under the shared lock, which is given up before    *)
(* the exclusive one is taken.                                              *)
ConstructMaps(c) ==
    /\ pc[c] = "found" /\ wal.state = "valid"
    /\ job'   = [job EXCEPT ![c] = [pages |-> wal.pages, tx |-> wal.tx]]
    /\ after' = [after EXCEPT ![c] = "ctor"]
    /\ Take(c, "none") /\ Goto(c, "upgrade")
    /\ UNCHANGED <<file, wal, view, dirty, success, ready, fault>>

ConstructLocks(c) ==
    /\ pc[c] = "upgrade" /\ CanOwn(c)
    /\ Take(c, "EX") /\ Goto(c, "apply")
    /\ UNCHANGED <<file, wal, after, view, dirty, job, success, ready, fault>>

-----------------------------------------------------------------------------
(* Transaction::open.  Only a writer looks for a log.                       *)
CanOpen(c) == pc[c] = "closed" /\ ready[Home[c]]

OpenRead(c) ==
    /\ CanOpen(c) /\ CanShare(c)
    /\ ~(Careful /\ LogLeft)
    /\ Take(c, "SH") /\ Goto(c, "read") /\ ReadHeader(c)
    /\ UNCHANGED <<file, wal, after, dirty, job, success, ready, fault>>

OpenWrite(c) ==
    /\ CanOpen(c) /\ CanOwn(c) /\ wal.state \in {"none", "invalid"}
    /\ wal' = NoWal
    /\ Take(c, "EX") /\ Goto(c, "write") /\ ReadHeader(c)
    /\ UNCHANGED <<file, after, dirty, job, success, ready, fault>>

OpenReplays(c) ==
    /\ CanOpen(c) /\ CanOwn(c) /\ wal.state = "valid"
    /\ Take(c, "EX") /\ Goto(c, "apply")
    /\ job'   = [job EXCEPT ![c] = [pages |-> wal.pages, tx |-> wal.tx]]
    /\ after' = [after EXCEPT ![c] = "open"]
    /\ UNCHANGED <<file, wal, view, dirty, success, ready, fault>>

(* applyWal of a constructor or a writer maps a log of no length, or one    *)
(* that another constructor has removed before this one has opened it: the  *)
(* mapping fails and the null pointer is read.                              *)
ReplayEmpty(c) ==
    /\ \/ pc[c] = "found" /\ wal.state \in {"none", "empty"}
       \/ CanOpen(c) /\ CanOwn(c) /\ wal.state = "empty"
    /\ fault' = TRUE
    /\ Gone(Home[c])
    /\ UNCHANGED <<file, wal, after>>

-----------------------------------------------------------------------------
(* PageCache::openPage: a page that is not cached is mapped from the file;  *)
(* pages nobody refers to are dropped when the cache is full.               *)
Cached(c, p) == IF view[c][p] = Unread THEN file[p] ELSE view[c][p]

ReadPage(c, p) ==
    /\ pc[c] \in {"read", "write"}
    /\ view' = [view EXCEPT ![c][p] = Cached(c, p)]
    /\ UNCHANGED <<file, wal, lock, pc, after, dirty, job, success, ready, fault>>

EvictPage_Dirty(c, p) ==
    /\ pc[c] \in {"read", "write"} /\ p # Header
    /\ view' = [view EXCEPT ![c][p] = Unread]
    /\ UNCHANGED <<file, wal, lock, pc, after, dirty, job, success, ready, fault>>

EvictPage(c, p) ==
    /\ pc[c] \in {"read", "write"} /\ p # Header /\ p \notin dirty[c]
    /\ view' = [view EXCEPT ![c][p] = Unread]
    /\ UNCHANGED <<file, wal, lock, pc, after, dirty, job, success, ready, fault>>

WritePage(c, p) ==
    /\ pc[c] = "write" /\ view[c][Header] < MaxTx
    /\ view'  = [view EXCEPT ![c][p] = Cached(c, p)]
    /\ dirty' = [dirty EXCEPT ![c] = @ \cup {p}]
    /\ UNCHANGED <<file, wal, lock, pc, after, job, success, ready, fault>>

Invalidate(c) ==
    /\ pc[c] \in {"read", "write"}
    /\ success' = [success EXCEPT ![c] = FALSE]
    /\ UNCHANGED <<file, wal, lock, pc, after, view, dirty, job, ready, fault>>

-----------------------------------------------------------------------------
(* Transaction::close with nothing to commit.                               *)
Close(c) ==
    /\ \/ pc[c] = "read"
       \/ /\ pc[c] = "write"
          /\ dirty[c] = {} \/ ~success[c]
    /\ Leave(c)
    /\ UNCHANGED <<file, wal, after, job, ready, fault>>

Outcome(call) == IF call \in WalFaults THEN BOOLEAN ELSE {TRUE}

(* The commit a transaction prepares: the one after the header it read.     *)
NextTx(c) == view[c][Header] + 1

(* clear() drops the pages from the cache to copy them into the file, from  *)
(* the log or directly; the new header stays.                               *)
HandOver(c, pages, step) ==
    /\ job'   = [job EXCEPT ![c] = [pages |-> pages, tx |-> NextTx(c)]]
    /\ dirty' = [dirty EXCEPT ![c] = {}]
    /\ view'  = [view EXCEPT ![c] = [Nothing EXCEPT ![Header] = NextTx(c)]]
    /\ Goto(c, step)

StartCommit_NoHeader(c, then) ==
    /\ pc[c] = "write" /\ success[c] /\ dirty[c] # {}
    /\ wal.state = "none"
    /\ after' = [after EXCEPT ![c] = then]
    /\ wal' = [NoWal EXCEPT !.state = "empty"]
    /\ Goto(c, "create")
    /\ UNCHANGED <<file, lock, view, dirty, job, success, ready, fault>>

(* Transaction::commit or close: clear() puts the header among the pages,   *)
(* and makeWal creates the file of the log unless there is one.  No page is *)
(* referred to any more: clear() leaves those that are out.                 *)
StartCommit(c, then) ==
    /\ pc[c] = "write" /\ success[c] /\ dirty[c] # {}
    /\ after' = [after EXCEPT ![c] = then]
    /\ \E opened \in Outcome("open") :
        IF opened /\ wal.state = "none"
        THEN /\ wal' = [NoWal EXCEPT !.state = "empty"]
             /\ dirty' = [dirty EXCEPT ![c] = @ \cup {Header}]
             /\ Goto(c, "create")
             /\ UNCHANGED <<view, job>>
        ELSE HandOver(c, dirty[c] \cup {Header}, "direct") /\ UNCHANGED wal
    /\ UNCHANGED <<file, lock, success, ready, fault>>

(* The log gets its length.  If that fails it stays behind with none.       *)
SizeWal(c) ==
    /\ pc[c] = "create"
    /\ \E sized \in Outcome("size") :
        IF sized
        THEN /\ wal' = [NoWal EXCEPT !.state = "invalid"]
             /\ Goto(c, "fill")
             /\ UNCHANGED <<view, dirty, job>>
        ELSE HandOver(c, dirty[c], "direct") /\ UNCHANGED wal
    /\ UNCHANGED <<file, lock, after, success, ready, fault>>

(* Header of version 0, page map and pages, then msync.                     *)
FillWal(c) ==
    /\ pc[c] = "fill"
    /\ wal' = [state |-> "invalid", pages |-> dirty[c], tx |-> NextTx(c)]
    /\ Goto(c, "activate")
    /\ UNCHANGED <<file, lock, after, view, dirty, job, success, ready, fault>>

(* The header is written again with its version; clear() then drops the     *)
(* cached pages and has applyWal map the log.                               *)
ActivateWal(c) ==
    /\ pc[c] = "activate"
    /\ wal' = [wal EXCEPT !.state = "valid"]
    /\ HandOver(c, dirty[c], "apply")
    /\ UNCHANGED <<file, lock, after, success, ready, fault>>

(* writePageTarget: pages go to the file in the order of their numbers.     *)
CopyPage(c) ==
    /\ pc[c] \in {"apply", "direct"}
    /\ \E p \in job[c].pages :
        /\ \A q \in job[c].pages : p <= q
        /\ file' = [file EXCEPT ![p] = job[c].tx]
        /\ job'  = [job EXCEPT ![c].pages = @ \ {p}]
    /\ UNCHANGED <<wal, lock, pc, after, view, dirty, success, ready, fault>>

(* applyWal removes the log by its name; clear() removes it once more.      *)
RemoveWal(c) == wal' = IF pc[c] = "apply" THEN NoWal ELSE wal

CopyDone(c) == pc[c] \in {"apply", "direct"} /\ job[c].pages = {}

OpenDone(c) ==
    /\ CopyDone(c) /\ after[c] = "open"
    /\ RemoveWal(c)
    /\ Goto(c, "write") /\ ReadHeader(c)
    /\ UNCHANGED <<file, lock, after, dirty, job, success, ready, fault>>

(* commit() does not reset _headerDirty: if the header had been changed,    *)
(* the next commit writes it again.                                         *)
CommitDone(c) ==
    /\ CopyDone(c) /\ after[c] = "commit"
    /\ RemoveWal(c)
    /\ Goto(c, "write")
    /\ \E again \in IF view[c][Header] < MaxTx THEN {{}, {Header}} ELSE {{}} :
        dirty' = [dirty EXCEPT ![c] = again]
    /\ UNCHANGED <<file, lock, after, view, job, success, ready, fault>>

CloseDone(c) ==
    /\ CopyDone(c) /\ after[c] = "close"
    /\ RemoveWal(c)
    /\ Leave(c)
    /\ UNCHANGED <<file, after, job, ready, fault>>

ConstructDone(c) ==
    /\ CopyDone(c) /\ after[c] = "ctor"
    /\ RemoveWal(c)
    /\ Goto(c, "closed") /\ Take(c, "none")
    /\ ready' = [ready EXCEPT ![Home[c]] = TRUE]
    /\ UNCHANGED <<file, after, view, dirty, job, success, fault>>

-----------------------------------------------------------------------------
Crash(q) ==
    /\ ready[q] \/ Building(q)
    /\ \A c \in Conn : Home[c] = q => pc[c] \in CrashAt
    /\ Gone(q)
    /\ UNCHANGED <<file, wal, after, fault>>

Next ==
    \/ \E c \in Conn :
        \/ Construct(c) \/ ConstructFinds(c) \/ ConstructDrops(c)
        \/ ConstructMaps(c) \/ ConstructLocks(c) \/ ConstructDone(c)
        \/ OpenRead(c) \/ OpenWrite(c) \/ OpenReplays(c) \/ OpenDone(c) \/ ReplayEmpty(c)
        \/ \E p \in Page : ReadPage(c, p) \/ EvictPage(c, p) \/ WritePage(c, p)
        \/ Invalidate(c) \/ Close(c)
        \/ \E then \in {"commit", "close"} : StartCommit(c, then)
        \/ SizeWal(c) \/ FillWal(c) \/ ActivateWal(c)
        \/ CopyPage(c) \/ CommitDone(c) \/ CloseDone(c)
    \/ \E q \in Process : Crash(q)

Spec == Init /\ [][Next]_vars

-----------------------------------------------------------------------------
(* What has been committed: the file as a valid log, or the rest of a       *)
(* direct write, completes it.                                              *)
Pending(p) == {c \in Conn : pc[c] = "direct" /\ p \in job[c].pages}

Content ==
    [p \in Page |->
        IF wal.state = "valid" /\ p \in wal.pages THEN wal.tx
        ELSE IF Pending(p) # {} THEN job[CHOOSE c \in Pending(p) : TRUE].tx
        ELSE file[p]]

(* A write transaction, from its lock to the end of its commit, excludes    *)
(* every other transaction of every process (MDBTransaction.h:34-40).       *)
InTransaction(c) == pc[c] \notin {"closed", "found", "upgrade"}
Writing(c) == InTransaction(c) /\ pc[c] # "read"
WriterAlone == \A c, d \in Conn : Writing(c) /\ InTransaction(d) => c = d

(* No page of the storage ever goes back to an earlier commit.              *)
NeverGoesBack == [][\A p \in Page : Content'[p] >= Content[p]]_vars

(* No log that a killed process leaves makes another one dereference null.  *)
NoFault == ~fault

(* Commits are atomic, isolated and survive a crash: the file and its log   *)
(* implement an AtomicStorage whose commit point is the activation.         *)
Mode(c) ==
    IF pc[c] \in {"closed", "found", "upgrade"} THEN "closed"
    ELSE IF pc[c] = "apply" /\ after[c] \in {"open", "ctor"} THEN "closed"
    ELSE IF pc[c] = "read" THEN "read" ELSE "write"

(* The header joins the changed pages only when the commit starts.          *)
Abstract == INSTANCE AtomicStorage WITH
    committed <- Content,
    mode      <- [c \in Conn |-> Mode(c)],
    failed    <- [c \in Conn |-> ~success[c]]

ImplementsAtomicStorage == Abstract!Spec
=============================================================================
