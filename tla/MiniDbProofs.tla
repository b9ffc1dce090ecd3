---------------------------- MODULE MiniDbProofs ----------------------------
(* Proofs about MiniDb, for all processes, descriptors, pages, kills and    *)
(* faults: its types, that a write transaction excludes every other one,    *)
(* and that a commit through the log is one atomic step.                    *)
EXTENDS MiniDb, TLAPS

(* A descriptor is locked exactly while its transaction is open or its      *)
(* constructor has found or replays a log, shared for a reader and for a    *)
(* constructor that has not mapped its log.                                 *)
LockedInside ==
    \A c \in Conn :
        /\ lock[c] = "none" <=> pc[c] \in {"closed", "upgrade"}
        /\ lock[c] = "SH" <=> pc[c] \in {"found", "read"}

ExclusiveAlone == \A c, d \in Conn : lock[c] = "EX" /\ c # d => lock[d] = "none"

(* The header is cached from the opening to the close; only a write         *)
(* transaction has changed pages, and no commit passes the bound.           *)
HeaderCached(c) ==
    \/ pc[c] \in {"closed", "found", "upgrade"}
    \/ pc[c] = "apply" /\ after[c] \in {"open", "ctor"}
    \/ view[c][Header] # Unread
ChangesBounded(c) == dirty[c] # {} => view[c][Header] < MaxTx
ChangesInside(c) ==
    /\ pc[c] \in {"closed", "found", "upgrade", "read", "apply", "direct"} => dirty[c] = {}
    /\ pc[c] \in {"create", "fill", "activate"} => dirty[c] # {}
    /\ pc[c] = "upgrade" => after[c] = "ctor"
CacheInv == \A c \in Conn : HeaderCached(c) /\ ChangesBounded(c) /\ ChangesInside(c)

Inv == TypeOK /\ LockedInside /\ ExclusiveAlone /\ CacheInv

(* A formatted file that nobody has open.                                   *)
LEMMA InitInv == Init => Inv
  <1> SUFFICES ASSUME Init PROVE Inv
    OBVIOUS
  <1>1. wal \in [state : {"none", "empty", "invalid", "valid"}, pages : SUBSET Page, tx : Version]
    BY Parameters DEF Init, NoWal, Version
  <1>2. NoJob \in [pages : SUBSET Page, tx : Version]
    BY Parameters DEF NoJob, Version
  <1>3. job \in [Conn -> [pages : SUBSET Page, tx : Version]]
    BY <1>2 DEF Init
  <1>4. file \in [Page -> Version]
    BY Parameters DEF Init, Version
  <1>5. view \in [Conn -> [Page -> Version \cup {Unread}]]
    BY DEF Init, Nothing
  <1>6. success \in [Conn -> BOOLEAN] /\ ready \in [Process -> BOOLEAN] /\ fault \in BOOLEAN
    BY Zenon DEF Init
  <1>7. /\ lock \in [Conn -> {"none", "SH", "EX"}] /\ pc \in [Conn -> Steps]
        /\ after \in [Conn -> {"open", "ctor", "commit", "close"}]
    BY DEF Init, Steps
  <1>8. dirty \in [Conn -> SUBSET Page] /\ \A c \in Conn : dirty[c] = {}
    BY DEF Init
  <1>9. TypeOK
    BY <1>1, <1>3, <1>4, <1>5, <1>6, <1>7, <1>8, Zenon DEF TypeOK
  <1>10. LockedInside /\ ExclusiveAlone /\ CacheInv
    BY DEF Init, LockedInside, ExclusiveAlone, CacheInv, HeaderCached, ChangesBounded, ChangesInside
  <1> QED BY <1>9, <1>10 DEF Inv

(* The next commit is within the bound as long as there are changes.        *)
LEMMA NextTxVersion ==
  ASSUME NEW c \in Conn, Inv, pc[c] \in {"write", "create", "fill", "activate"}, dirty[c] # {}
  PROVE  NextTx(c) \in Version
  <1>1. view[c][Header] \in Version
    <2>1. Header \in Page /\ view[c] \in [Page -> Version \cup {Unread}]
      BY Parameters DEF Inv, TypeOK, Header
    <2>2. view[c][Header] # Unread
      BY DEF Inv, CacheInv, HeaderCached
    <2> QED BY <2>1, <2>2
  <1>2. view[c][Header] < MaxTx
    BY DEF Inv, CacheInv, ChangesBounded
  <1> QED BY <1>1, <1>2, Parameters DEF NextTx, Version

(* What clear() leaves when it hands the changed pages over.                *)
LEMMA HandOverInv ==
  ASSUME NEW c \in Conn, NEW pages \in SUBSET Page, NEW step \in {"apply", "direct"}, Inv,
         pc[c] \in {"write", "create", "activate"}, dirty[c] # {}, HandOver(c, pages, step)
  PROVE  /\ job' \in [Conn -> [pages : SUBSET Page, tx : Version]]
         /\ dirty' \in [Conn -> SUBSET Page]
         /\ view' \in [Conn -> [Page -> Version \cup {Unread}]]
         /\ pc' = [pc EXCEPT ![c] = step]
         /\ \A d \in Conn : \A r \in dirty'[d] : view'[d][r] # Unread
         /\ dirty'[c] = {} /\ view'[c][Header] # Unread
         /\ \A d \in Conn \ {c} : dirty'[d] = dirty[d] /\ view'[d] = view[d]
  <1> DEFINE fresh == [Nothing EXCEPT ![Header] = NextTx(c)]
             todo  == [pages |-> pages, tx |-> NextTx(c)]
  <1>1. NextTx(c) \in Version
    BY NextTxVersion
  <1>2. fresh \in [Page -> Version \cup {Unread}] /\ fresh[Header] # Unread
    BY <1>1, Parameters DEF Nothing, Header, Unread, Version
  <1>3. todo \in [pages : SUBSET Page, tx : Version]
    BY <1>1
  <1>4. /\ job' = [job EXCEPT ![c] = todo] /\ dirty' = [dirty EXCEPT ![c] = {}]
        /\ view' = [view EXCEPT ![c] = fresh] /\ pc' = [pc EXCEPT ![c] = step]
    BY DEF HandOver, Goto
  <1> HIDE DEF fresh, todo
  <1> QED BY <1>2, <1>3, <1>4 DEF Inv, TypeOK

(* The constructor finds no log and gives its lock back.                    *)
LEMMA ConstructInv == ASSUME NEW c \in Conn, Inv, Construct(c) PROVE Inv'
  <1>1. TypeOK'
    <2>1. ready' \in [Process -> BOOLEAN]
      BY Zenon DEF Inv, TypeOK, Construct
    <2>2. UNCHANGED <<file, wal, lock, pc, after, view, dirty, job, success, fault>>
      BY DEF Construct
    <2> QED BY <2>1, <2>2 DEF Inv, TypeOK
  <1>2. LockedInside'
    BY SMTT(60) DEF Inv, TypeOK, LockedInside, Construct, CanConstruct, Steps
  <1>3. ExclusiveAlone'
    BY SMTT(60) DEF Inv, TypeOK, ExclusiveAlone, LockedInside, Construct, CanConstruct, Steps
  <1>4. CacheInv'
    BY SMTT(60) DEF Inv, TypeOK, CacheInv, HeaderCached, ChangesBounded, ChangesInside,
       Construct, CanConstruct, Steps
  <1> QED BY <1>1, <1>2, <1>3, <1>4 DEF Inv

(* The constructor has its shared lock beside readers at most.              *)
LEMMA ConstructFindsInv == ASSUME NEW c \in Conn, Inv, ConstructFinds(c) PROVE Inv'
  <1>1. TypeOK'
    <2>1. lock' \in [Conn -> {"none", "SH", "EX"}] /\ pc' \in [Conn -> Steps]
      BY DEF Inv, TypeOK, ConstructFinds, Goto, Take, Steps
    <2>2. UNCHANGED <<file, wal, after, view, dirty, job, success, ready, fault>>
      BY DEF ConstructFinds
    <2> QED BY <2>1, <2>2 DEF Inv, TypeOK
  <1>2. LockedInside'
    BY SMTT(60) DEF Inv, TypeOK, LockedInside, ConstructFinds, CanConstruct, CanShare, Take, Goto, Steps
  <1>3. ExclusiveAlone'
    BY SMTT(60) DEF Inv, TypeOK, ExclusiveAlone, LockedInside, ConstructFinds, CanConstruct, CanShare, Take, Goto, Steps
  <1>4. CacheInv'
    BY SMTT(60) DEF Inv, TypeOK, CacheInv, HeaderCached, ChangesBounded, ChangesInside,
       ConstructFinds, CanConstruct, CanShare, Take, Goto, Steps
  <1> QED BY <1>1, <1>2, <1>3, <1>4 DEF Inv

(* The log was invalid, and the constructor gives its lock back.            *)
LEMMA ConstructDropsInv == ASSUME NEW c \in Conn, Inv, ConstructDrops(c) PROVE Inv'
  <1>1. TypeOK'
    <2>1. ready' \in [Process -> BOOLEAN]
      BY Zenon DEF Inv, TypeOK, ConstructDrops
    <2>2. wal' \in [state : {"none", "empty", "invalid", "valid"}, pages : SUBSET Page, tx : Version]
      BY Parameters DEF ConstructDrops, NoWal, Version
    <2>3. lock' \in [Conn -> {"none", "SH", "EX"}] /\ pc' \in [Conn -> Steps]
      BY DEF Inv, TypeOK, ConstructDrops, Goto, Take, Steps
    <2>4. UNCHANGED <<file, after, view, dirty, job, success, fault>>
      BY DEF ConstructDrops
    <2> QED BY <2>1, <2>2, <2>3, <2>4 DEF Inv, TypeOK
  <1>2. LockedInside'
    BY SMTT(60) DEF Inv, TypeOK, LockedInside, ConstructDrops, Take, Goto, Steps
  <1>3. ExclusiveAlone'
    BY SMTT(60) DEF Inv, TypeOK, ExclusiveAlone, LockedInside, ConstructDrops, Take, Goto, Steps
  <1>4. CacheInv'
    BY SMTT(60) DEF Inv, TypeOK, CacheInv, HeaderCached, ChangesBounded, ChangesInside,
       ConstructDrops, Take, Goto, Steps
  <1> QED BY <1>1, <1>2, <1>3, <1>4 DEF Inv

(* The constructor has mapped a log and waits without a lock.               *)
LEMMA ConstructMapsInv == ASSUME NEW c \in Conn, Inv, ConstructMaps(c) PROVE Inv'
  <1>1. TypeOK'
    <2>1. lock' \in [Conn -> {"none", "SH", "EX"}] /\ pc' \in [Conn -> Steps]
      BY DEF Inv, TypeOK, ConstructMaps, Goto, Take, Steps
    <2>2. job' \in [Conn -> [pages : SUBSET Page, tx : Version]]
      BY DEF Inv, TypeOK, ConstructMaps
    <2>3. after' \in [Conn -> {"open", "ctor", "commit", "close"}]
      BY DEF Inv, TypeOK, ConstructMaps
    <2>4. UNCHANGED <<file, wal, view, dirty, success, ready, fault>>
      BY DEF ConstructMaps
    <2> QED BY <2>1, <2>2, <2>3, <2>4 DEF Inv, TypeOK
  <1>2. LockedInside'
    BY SMTT(60) DEF Inv, TypeOK, LockedInside, ConstructMaps, Take, Goto, Steps
  <1>3. ExclusiveAlone'
    BY SMTT(60) DEF Inv, TypeOK, ExclusiveAlone, LockedInside, ConstructMaps, Take, Goto, Steps
  <1>4. CacheInv'
    BY SMTT(60) DEF Inv, TypeOK, CacheInv, HeaderCached, ChangesBounded, ChangesInside,
       ConstructMaps, Take, Goto, Steps
  <1> QED BY <1>1, <1>2, <1>3, <1>4 DEF Inv

(* The constructor owns the file alone and replays the log it mapped.       *)
LEMMA ConstructLocksInv == ASSUME NEW c \in Conn, Inv, ConstructLocks(c) PROVE Inv'
  <1>1. TypeOK'
    BY Parameters, SMTT(60) DEF Inv, TypeOK, CacheInv, HeaderCached, ChangesBounded, ChangesInside,
       ConstructLocks, CanOwn, Take, Goto, Steps, NoWal, NoJob, Nothing, Version, Header, Unread
  <1>2. LockedInside'
    BY SMTT(60) DEF Inv, TypeOK, LockedInside, ConstructLocks, CanOwn, Take, Goto, Steps
  <1>3. ExclusiveAlone'
    BY SMTT(60) DEF Inv, TypeOK, ExclusiveAlone, LockedInside, ConstructLocks, CanOwn, Take, Goto, Steps
  <1>4. CacheInv'
    BY Parameters, SMTT(60) DEF Inv, TypeOK, CacheInv, HeaderCached, ChangesBounded, ChangesInside,
       ConstructLocks, CanOwn, Take, Goto, Steps, NoWal, NoJob, Nothing, Version, Header, Unread
  <1> QED BY <1>1, <1>2, <1>3, <1>4 DEF Inv

(* The replay of a constructor ends and the lock goes with it.              *)
LEMMA ConstructDoneInv == ASSUME NEW c \in Conn, Inv, ConstructDone(c) PROVE Inv'
  <1>1. TypeOK'
    <2>1. ready' \in [Process -> BOOLEAN]
      BY Zenon DEF Inv, TypeOK, ConstructDone
    <2>2. wal' \in [state : {"none", "empty", "invalid", "valid"}, pages : SUBSET Page, tx : Version]
      BY Parameters DEF Inv, TypeOK, ConstructDone, RemoveWal, NoWal, Version
    <2>3. lock' \in [Conn -> {"none", "SH", "EX"}] /\ pc' \in [Conn -> Steps]
      BY DEF Inv, TypeOK, ConstructDone, Goto, Take, Steps
    <2>4. UNCHANGED <<file, after, view, dirty, job, success, fault>>
      BY DEF ConstructDone
    <2> QED BY <2>1, <2>2, <2>3, <2>4 DEF Inv, TypeOK
  <1>2. LockedInside'
    BY SMTT(60) DEF Inv, TypeOK, LockedInside, ConstructDone, CopyDone, RemoveWal, Goto, Take, Steps
  <1>3. ExclusiveAlone'
    BY SMTT(60) DEF Inv, TypeOK, ExclusiveAlone, LockedInside, ConstructDone, CopyDone, RemoveWal, Goto, Take, Steps
  <1>4. CacheInv'
    BY Parameters, SMTT(60) DEF Inv, TypeOK, CacheInv, HeaderCached, ChangesBounded, ChangesInside,
       ConstructDone, CopyDone, RemoveWal, Goto, Take, Steps, NoWal, NoJob, Nothing, Version, Header, Unread
  <1> QED BY <1>1, <1>2, <1>3, <1>4 DEF Inv

(* A reader joins readers only, and caches the header.                      *)
LEMMA OpenReadInv == ASSUME NEW c \in Conn, Inv, OpenRead(c) PROVE Inv'
  <1>1. TypeOK'
    BY Parameters, SMTT(60) DEF Inv, TypeOK, CacheInv, HeaderCached, ChangesBounded, ChangesInside,
       OpenRead, CanOpen, CanShare, Take, Goto, ReadHeader, Steps, NoWal, NoJob, Nothing, Version, Header, Unread
  <1>2. LockedInside'
    BY SMTT(60) DEF Inv, TypeOK, LockedInside, OpenRead, CanOpen, CanShare, Take, Goto, ReadHeader, Steps
  <1>3. ExclusiveAlone'
    BY SMTT(60) DEF Inv, TypeOK, ExclusiveAlone, LockedInside, OpenRead, CanOpen, CanShare, Take, Goto, ReadHeader, Steps
  <1>4. CacheInv'
    BY Parameters, SMTT(60) DEF Inv, TypeOK, CacheInv, HeaderCached, ChangesBounded, ChangesInside,
       OpenRead, CanOpen, CanShare, Take, Goto, ReadHeader, Steps, NoWal, NoJob, Nothing, Version, Header, Unread
  <1> QED BY <1>1, <1>2, <1>3, <1>4 DEF Inv

(* A writer is granted its lock when nobody else has one.                   *)
LEMMA OpenWriteInv == ASSUME NEW c \in Conn, Inv, OpenWrite(c) PROVE Inv'
  <1>1. TypeOK'
    BY Parameters, SMTT(60) DEF Inv, TypeOK, CacheInv, HeaderCached, ChangesBounded, ChangesInside,
       OpenWrite, CanOpen, CanOwn, Take, Goto, ReadHeader, Steps, NoWal, NoJob, Nothing, Version, Header, Unread
  <1>2. LockedInside'
    BY SMTT(60) DEF Inv, TypeOK, LockedInside, OpenWrite, CanOpen, CanOwn, Take, Goto, ReadHeader, Steps
  <1>3. ExclusiveAlone'
    BY SMTT(60) DEF Inv, TypeOK, ExclusiveAlone, LockedInside, OpenWrite, CanOpen, CanOwn, Take, Goto, ReadHeader, Steps
  <1>4. CacheInv'
    BY Parameters, SMTT(60) DEF Inv, TypeOK, CacheInv, HeaderCached, ChangesBounded, ChangesInside,
       OpenWrite, CanOpen, CanOwn, Take, Goto, ReadHeader, Steps, NoWal, NoJob, Nothing, Version, Header, Unread
  <1> QED BY <1>1, <1>2, <1>3, <1>4 DEF Inv

(* A writer that finds a log has its lock before it replays.                *)
LEMMA OpenReplaysInv == ASSUME NEW c \in Conn, Inv, OpenReplays(c) PROVE Inv'
  <1>1. TypeOK'
    BY Parameters, SMTT(60) DEF Inv, TypeOK, CacheInv, HeaderCached, ChangesBounded, ChangesInside,
       OpenReplays, CanOpen, CanOwn, Take, Goto, Steps, NoWal, NoJob, Nothing, Version, Header, Unread
  <1>2. LockedInside'
    BY SMTT(60) DEF Inv, TypeOK, LockedInside, OpenReplays, CanOpen, CanOwn, Take, Goto, Steps
  <1>3. ExclusiveAlone'
    BY SMTT(60) DEF Inv, TypeOK, ExclusiveAlone, LockedInside, OpenReplays, CanOpen, CanOwn, Take, Goto, Steps
  <1>4. CacheInv'
    BY Parameters, SMTT(60) DEF Inv, TypeOK, CacheInv, HeaderCached, ChangesBounded, ChangesInside,
       OpenReplays, CanOpen, CanOwn, Take, Goto, Steps, NoWal, NoJob, Nothing, Version, Header, Unread
  <1> QED BY <1>1, <1>2, <1>3, <1>4 DEF Inv

(* After the replay the writer caches the header, under the same lock.      *)
LEMMA OpenDoneInv == ASSUME NEW c \in Conn, Inv, OpenDone(c) PROVE Inv'
  <1>1. TypeOK'
    BY Parameters, SMTT(60) DEF Inv, TypeOK, CacheInv, HeaderCached, ChangesBounded, ChangesInside,
       OpenDone, CopyDone, RemoveWal, Goto, ReadHeader, Steps, NoWal, NoJob, Nothing, Version, Header, Unread
  <1>2. LockedInside'
    BY SMTT(60) DEF Inv, TypeOK, LockedInside, OpenDone, CopyDone, RemoveWal, Goto, ReadHeader, Steps
  <1>3. ExclusiveAlone'
    BY SMTT(60) DEF Inv, TypeOK, ExclusiveAlone, LockedInside, OpenDone, CopyDone, RemoveWal, Goto, ReadHeader, Steps
  <1>4. CacheInv'
    BY Parameters, SMTT(60) DEF Inv, TypeOK, CacheInv, HeaderCached, ChangesBounded, ChangesInside,
       OpenDone, CopyDone, RemoveWal, Goto, ReadHeader, Steps, NoWal, NoJob, Nothing, Version, Header, Unread
  <1> QED BY <1>1, <1>2, <1>3, <1>4 DEF Inv



(* An invalidated transaction keeps its lock until it is closed.            *)
LEMMA InvalidateInv == ASSUME NEW c \in Conn, Inv, Invalidate(c) PROVE Inv'
  <1>1. TypeOK'
    BY Parameters, SMTT(60) DEF Inv, TypeOK, CacheInv, HeaderCached, ChangesBounded, ChangesInside,
       Invalidate, Steps, NoWal, NoJob, Nothing, Version, Header, Unread
  <1>2. LockedInside'
    BY SMTT(60) DEF Inv, TypeOK, LockedInside, Invalidate, Steps
  <1>3. ExclusiveAlone'
    BY SMTT(60) DEF Inv, TypeOK, ExclusiveAlone, LockedInside, Invalidate, Steps
  <1>4. CacheInv'
    BY Parameters, SMTT(60) DEF Inv, TypeOK, CacheInv, HeaderCached, ChangesBounded, ChangesInside,
       Invalidate, Steps, NoWal, NoJob, Nothing, Version, Header, Unread
  <1> QED BY <1>1, <1>2, <1>3, <1>4 DEF Inv

(* Closing without a commit drops the cache and the lock together.          *)
LEMMA CloseInv == ASSUME NEW c \in Conn, Inv, Close(c) PROVE Inv'
  <1>1. TypeOK'
    BY Parameters, SMTT(60) DEF Inv, TypeOK, CacheInv, HeaderCached, ChangesBounded, ChangesInside,
       Close, Leave, Goto, Take, Steps, NoWal, NoJob, Nothing, Version, Header, Unread
  <1>2. LockedInside'
    BY SMTT(60) DEF Inv, TypeOK, LockedInside, Close, Leave, Goto, Take, Steps
  <1>3. ExclusiveAlone'
    BY SMTT(60) DEF Inv, TypeOK, ExclusiveAlone, LockedInside, Close, Leave, Goto, Take, Steps
  <1>4. CacheInv'
    BY Parameters, SMTT(60) DEF Inv, TypeOK, CacheInv, HeaderCached, ChangesBounded, ChangesInside,
       Close, Leave, Goto, Take, Steps, NoWal, NoJob, Nothing, Version, Header, Unread
  <1> QED BY <1>1, <1>2, <1>3, <1>4 DEF Inv

(* The log is created, or makeWal fails and the pages go to the file.       *)
LEMMA SizeWalInv == ASSUME NEW c \in Conn, Inv, SizeWal(c) PROVE Inv'
  <1>a. pc[c] = "create" /\ dirty[c] # {} /\ dirty[c] \in SUBSET Page
    BY DEF Inv, TypeOK, CacheInv, ChangesInside, SizeWal
  <1>b. \/ /\ wal' = [NoWal EXCEPT !.state = "invalid"] /\ pc' = [pc EXCEPT ![c] = "fill"]
           /\ UNCHANGED <<view, dirty, job>>
        \/ HandOver(c, dirty[c], "direct") /\ UNCHANGED wal
    BY DEF SizeWal, Goto
  <1>c. UNCHANGED <<file, lock, after, success, ready, fault>>
    BY DEF SizeWal
  <1>1. CASE /\ wal' = [NoWal EXCEPT !.state = "invalid"] /\ pc' = [pc EXCEPT ![c] = "fill"]
             /\ UNCHANGED <<view, dirty, job>>
    <2>0. wal' \in [state : {"none", "empty", "invalid", "valid"}, pages : SUBSET Page, tx : Version]
      BY <1>1, Parameters DEF NoWal, Version
    <2>1. TypeOK'
      BY <1>c, <1>1, <2>0 DEF Inv, TypeOK, Steps
    <2>2. LockedInside'
      BY <1>a, <1>c, <1>1, SMTT(60) DEF Inv, TypeOK, LockedInside, Steps
    <2>3. ExclusiveAlone'
      BY <1>a, <1>c, <1>1, SMTT(60) DEF Inv, TypeOK, ExclusiveAlone, LockedInside, Steps
    <2>4. CacheInv'
      BY <1>a, <1>c, <1>1, Parameters, SMTT(60) DEF Inv, TypeOK, CacheInv, HeaderCached, ChangesBounded, ChangesInside,
         Steps
    <2> QED BY <2>1, <2>2, <2>3, <2>4 DEF Inv
  <1>2. CASE HandOver(c, dirty[c], "direct") /\ UNCHANGED wal
    <2>0. /\ job' \in [Conn -> [pages : SUBSET Page, tx : Version]]
          /\ dirty' \in [Conn -> SUBSET Page]
          /\ view' \in [Conn -> [Page -> Version \cup {Unread}]]
          /\ pc' = [pc EXCEPT ![c] = "direct"]
          /\ \A d \in Conn : \A r \in dirty'[d] : view'[d][r] # Unread
          /\ dirty'[c] = {} /\ view'[c][Header] # Unread
          /\ \A d \in Conn \ {c} : dirty'[d] = dirty[d] /\ view'[d] = view[d]
      BY <1>a, <1>2, HandOverInv
    <2>1. TypeOK'
      BY <1>2, <1>c, <2>0 DEF Inv, TypeOK, Steps
    <2>2. LockedInside'
      BY <1>a, <1>c, <2>0, SMTT(60) DEF Inv, TypeOK, LockedInside, Steps
    <2>3. ExclusiveAlone'
      BY <1>a, <1>c, <2>0, SMTT(60) DEF Inv, TypeOK, ExclusiveAlone, LockedInside, Steps
    <2>4. CacheInv'
      BY <1>a, <1>c, <2>0, Parameters, SMTT(60) DEF Inv, TypeOK, CacheInv, HeaderCached, ChangesBounded, ChangesInside,
         Steps
    <2> QED BY <2>1, <2>2, <2>3, <2>4 DEF Inv
  <1> QED BY <1>b, <1>1, <1>2

(* The log is written under the lock of the transaction.                    *)
LEMMA FillWalInv == ASSUME NEW c \in Conn, Inv, FillWal(c) PROVE Inv'
  <1>1. TypeOK'
    BY Parameters, SMTT(60) DEF Inv, TypeOK, CacheInv, HeaderCached, ChangesBounded, ChangesInside,
       FillWal, NextTx, Goto, Steps, NoWal, NoJob, Nothing, Version, Header, Unread
  <1>2. LockedInside'
    BY SMTT(60) DEF Inv, TypeOK, LockedInside, FillWal, NextTx, Goto, Steps
  <1>3. ExclusiveAlone'
    BY SMTT(60) DEF Inv, TypeOK, ExclusiveAlone, LockedInside, FillWal, NextTx, Goto, Steps
  <1>4. CacheInv'
    BY Parameters, SMTT(60) DEF Inv, TypeOK, CacheInv, HeaderCached, ChangesBounded, ChangesInside,
       FillWal, NextTx, Goto, Steps, NoWal, NoJob, Nothing, Version, Header, Unread
  <1> QED BY <1>1, <1>2, <1>3, <1>4 DEF Inv

(* The commit point: the changed pages become the job of the copy.          *)
LEMMA ActivateWalInv == ASSUME NEW c \in Conn, Inv, ActivateWal(c) PROVE Inv'
  <1> USE DEF ActivateWal
  <1>a. pc[c] = "activate" /\ dirty[c] # {} /\ dirty[c] \in SUBSET Page
    BY DEF Inv, TypeOK, CacheInv, ChangesInside
  <1>b. HandOver(c, dirty[c], "apply")
    OBVIOUS
  <1>c. /\ job' \in [Conn -> [pages : SUBSET Page, tx : Version]]
        /\ dirty' \in [Conn -> SUBSET Page]
        /\ view' \in [Conn -> [Page -> Version \cup {Unread}]]
        /\ pc' = [pc EXCEPT ![c] = "apply"]
        /\ \A d \in Conn : \A r \in dirty'[d] : view'[d][r] # Unread
        /\ dirty'[c] = {} /\ view'[c][Header] # Unread
        /\ \A d \in Conn \ {c} : dirty'[d] = dirty[d] /\ view'[d] = view[d]
    BY <1>a, <1>b, HandOverInv
  <1>d. wal' \in [state : {"none", "empty", "invalid", "valid"}, pages : SUBSET Page, tx : Version]
    BY DEF Inv, TypeOK
  <1>1. TypeOK'
    BY <1>c, <1>d DEF Inv, TypeOK, Steps
  <1>2. LockedInside'
    BY <1>a, <1>c, SMTT(60) DEF Inv, TypeOK, LockedInside, Steps
  <1>3. ExclusiveAlone'
    BY <1>a, <1>c, SMTT(60) DEF Inv, TypeOK, ExclusiveAlone, LockedInside, Steps
  <1>4. CacheInv'
    BY <1>a, <1>c, Parameters, SMTT(60) DEF Inv, TypeOK, CacheInv, HeaderCached, ChangesBounded, ChangesInside,
       Steps
  <1> QED BY <1>1, <1>2, <1>3, <1>4 DEF Inv

(* A page is copied into the file.                                          *)
LEMMA CopyPageInv == ASSUME NEW c \in Conn, Inv, CopyPage(c) PROVE Inv'
  <1>1. TypeOK'
    <2>1. job' \in [Conn -> [pages : SUBSET Page, tx : Version]]
      <3>1. PICK p : job' = [job EXCEPT ![c].pages = job[c].pages \ {p}]
        BY DEF CopyPage
      <3>2. job \in [Conn -> [pages : SUBSET Page, tx : Version]]
        BY DEF Inv, TypeOK
      <3>3. [job[c] EXCEPT !.pages = job[c].pages \ {p}] \in [pages : SUBSET Page, tx : Version]
        BY <3>2
      <3> QED BY <3>1, <3>2, <3>3
    <2>2. file' \in [Page -> Version]
      BY DEF Inv, TypeOK, CopyPage
    <2>3. UNCHANGED <<wal, lock, pc, after, view, dirty, success, ready, fault>>
      BY DEF CopyPage
    <2> QED BY <2>1, <2>2, <2>3 DEF Inv, TypeOK
  <1>2. LockedInside'
    BY SMTT(60) DEF Inv, TypeOK, LockedInside, CopyPage, Steps
  <1>3. ExclusiveAlone'
    BY SMTT(60) DEF Inv, TypeOK, ExclusiveAlone, LockedInside, CopyPage, Steps
  <1>4. CacheInv'
    BY Parameters, SMTT(60) DEF Inv, TypeOK, CacheInv, HeaderCached, ChangesBounded, ChangesInside,
       CopyPage, Steps, NoWal, NoJob, Nothing, Version, Header, Unread
  <1> QED BY <1>1, <1>2, <1>3, <1>4 DEF Inv

(* After a commit the transaction goes on, with its lock.                   *)
LEMMA CommitDoneInv == ASSUME NEW c \in Conn, Inv, CommitDone(c) PROVE Inv'
  <1>a. /\ pc[c] \in {"apply", "direct"} /\ pc' = [pc EXCEPT ![c] = "write"]
        /\ after[c] = "commit"
        /\ UNCHANGED <<file, lock, after, view, job, success, ready, fault>>
    BY DEF CommitDone, CopyDone, Goto
  <1>b. wal' \in [state : {"none", "empty", "invalid", "valid"}, pages : SUBSET Page, tx : Version]
    BY Parameters DEF Inv, TypeOK, CommitDone, RemoveWal, NoWal, Version
  <1>c. PICK again \in {{}, {Header}} : dirty' = [dirty EXCEPT ![c] = again]
    BY DEF CommitDone
  <1>d. dirty' \in [Conn -> SUBSET Page]
    BY <1>c, Parameters DEF Inv, TypeOK, Header
  <1>e. \A d \in Conn : \A p \in dirty'[d] : view'[d][p] # Unread
    <2>1. view[c][Header] # Unread
      BY <1>a DEF Inv, CacheInv, HeaderCached
    <2>2. \A p \in dirty'[c] : view[c][p] # Unread
      BY <1>c, <2>1 DEF Inv, TypeOK
    <2>3. \A d \in Conn \ {c} : dirty'[d] = dirty[d]
      BY <1>c DEF Inv, TypeOK
    <2> QED BY <1>a, <2>2, <2>3 DEF Inv, TypeOK
  <1>1. TypeOK'
    BY <1>a, <1>b, <1>d, <1>e DEF Inv, TypeOK, Steps
  <1>2. LockedInside'
    BY SMTT(60) DEF Inv, TypeOK, LockedInside, CommitDone, CopyDone, RemoveWal, Goto, Steps
  <1>3. ExclusiveAlone'
    BY SMTT(60) DEF Inv, TypeOK, ExclusiveAlone, LockedInside, CommitDone, CopyDone, RemoveWal, Goto, Steps
  <1>4. CacheInv'
    BY Parameters, SMTT(60) DEF Inv, TypeOK, CacheInv, HeaderCached, ChangesBounded, ChangesInside,
       CommitDone, CopyDone, RemoveWal, Goto, Steps, NoWal, NoJob, Nothing, Version, Header, Unread
  <1> QED BY <1>1, <1>2, <1>3, <1>4 DEF Inv

(* After the last commit the lock is given back.                            *)
LEMMA CloseDoneInv == ASSUME NEW c \in Conn, Inv, CloseDone(c) PROVE Inv'
  <1>1. TypeOK'
    BY Parameters, SMTT(60) DEF Inv, TypeOK, CacheInv, HeaderCached, ChangesBounded, ChangesInside,
       CloseDone, CopyDone, RemoveWal, Leave, Goto, Take, Steps, NoWal, NoJob, Nothing, Version, Header, Unread
  <1>2. LockedInside'
    BY SMTT(60) DEF Inv, TypeOK, LockedInside, CloseDone, CopyDone, RemoveWal, Leave, Goto, Take, Steps
  <1>3. ExclusiveAlone'
    BY SMTT(60) DEF Inv, TypeOK, ExclusiveAlone, LockedInside, CloseDone, CopyDone, RemoveWal, Leave, Goto, Take, Steps
  <1>4. CacheInv'
    BY Parameters, SMTT(60) DEF Inv, TypeOK, CacheInv, HeaderCached, ChangesBounded, ChangesInside,
       CloseDone, CopyDone, RemoveWal, Leave, Goto, Take, Steps, NoWal, NoJob, Nothing, Version, Header, Unread
  <1> QED BY <1>1, <1>2, <1>3, <1>4 DEF Inv

(* A page enters the cache.                                                 *)
LEMMA ReadPageInv == ASSUME NEW c \in Conn, NEW p \in Page, Inv, ReadPage(c, p) PROVE Inv'
  <1>1. TypeOK'
    BY Parameters, SMTT(60) DEF Inv, TypeOK, CacheInv, HeaderCached, ChangesBounded, ChangesInside,
       ReadPage, Cached, Steps, NoWal, NoJob, Nothing, Version, Header, Unread
  <1>2. LockedInside'
    BY SMTT(60) DEF Inv, TypeOK, LockedInside, ReadPage, Cached, Steps
  <1>3. ExclusiveAlone'
    BY SMTT(60) DEF Inv, TypeOK, ExclusiveAlone, LockedInside, ReadPage, Cached, Steps
  <1>4. CacheInv'
    BY Parameters, SMTT(60) DEF Inv, TypeOK, CacheInv, HeaderCached, ChangesBounded, ChangesInside,
       ReadPage, Cached, Steps, NoWal, NoJob, Nothing, Version, Header, Unread
  <1> QED BY <1>1, <1>2, <1>3, <1>4 DEF Inv

(* Only a clean page leaves the cache, and never the header.                *)
LEMMA EvictPageInv == ASSUME NEW c \in Conn, NEW p \in Page, Inv, EvictPage(c, p) PROVE Inv'
  <1>1. TypeOK'
    BY Parameters, SMTT(60) DEF Inv, TypeOK, CacheInv, HeaderCached, ChangesBounded, ChangesInside,
       EvictPage, Steps, NoWal, NoJob, Nothing, Version, Header, Unread
  <1>2. LockedInside'
    BY SMTT(60) DEF Inv, TypeOK, LockedInside, EvictPage, Steps
  <1>3. ExclusiveAlone'
    BY SMTT(60) DEF Inv, TypeOK, ExclusiveAlone, LockedInside, EvictPage, Steps
  <1>4. CacheInv'
    BY Parameters, SMTT(60) DEF Inv, TypeOK, CacheInv, HeaderCached, ChangesBounded, ChangesInside,
       EvictPage, Steps, NoWal, NoJob, Nothing, Version, Header, Unread
  <1> QED BY <1>1, <1>2, <1>3, <1>4 DEF Inv

(* Only a writer changes a page, and it has cached it.                      *)
LEMMA WritePageInv == ASSUME NEW c \in Conn, NEW p \in Page, Inv, WritePage(c, p) PROVE Inv'
  <1>1. TypeOK'
    BY Parameters, SMTT(60) DEF Inv, TypeOK, CacheInv, HeaderCached, ChangesBounded, ChangesInside,
       WritePage, Cached, Steps, NoWal, NoJob, Nothing, Version, Header, Unread
  <1>2. LockedInside'
    BY SMTT(60) DEF Inv, TypeOK, LockedInside, WritePage, Cached, Steps
  <1>3. ExclusiveAlone'
    BY SMTT(60) DEF Inv, TypeOK, ExclusiveAlone, LockedInside, WritePage, Cached, Steps
  <1>4. CacheInv'
    BY Parameters, SMTT(60) DEF Inv, TypeOK, CacheInv, HeaderCached, ChangesBounded, ChangesInside,
       WritePage, Cached, Steps, NoWal, NoJob, Nothing, Version, Header, Unread
  <1> QED BY <1>1, <1>2, <1>3, <1>4 DEF Inv

(* A commit starts only from a write transaction that changed a page.       *)
LEMMA StartCommitInv ==
  ASSUME NEW c \in Conn, NEW then \in {"commit", "close"}, Inv, StartCommit(c, then) PROVE Inv'
  <1>a. pc[c] = "write" /\ dirty[c] # {} /\ dirty[c] \cup {Header} \in SUBSET Page
    BY Parameters DEF Inv, TypeOK, StartCommit, Header
  <1>b. \/ /\ wal' = [NoWal EXCEPT !.state = "empty"] /\ pc' = [pc EXCEPT ![c] = "create"]
           /\ dirty' = [dirty EXCEPT ![c] = @ \cup {Header}]
           /\ UNCHANGED <<view, job>>
        \/ HandOver(c, dirty[c] \cup {Header}, "direct") /\ UNCHANGED wal
    BY DEF StartCommit, Goto
  <1>c. after' = [after EXCEPT ![c] = then] /\ UNCHANGED <<file, lock, success, ready, fault>>
    BY DEF StartCommit
  <1>1. CASE /\ wal' = [NoWal EXCEPT !.state = "empty"] /\ pc' = [pc EXCEPT ![c] = "create"]
             /\ dirty' = [dirty EXCEPT ![c] = @ \cup {Header}]
             /\ UNCHANGED <<view, job>>
    <2>0. wal' \in [state : {"none", "empty", "invalid", "valid"}, pages : SUBSET Page, tx : Version]
      BY <1>1, Parameters DEF NoWal, Version
    <2>a. view[c][Header] # Unread
      BY <1>a DEF Inv, CacheInv, HeaderCached
    <2>b. dirty' \in [Conn -> SUBSET Page]
      BY <1>1, <1>a DEF Inv, TypeOK
    <2>c. \A d \in Conn : \A r \in dirty'[d] : view'[d][r] # Unread
      BY <1>1, <1>a, <2>a DEF Inv, TypeOK
    <2>1. TypeOK'
      BY <1>c, <1>1, <2>0, <2>b, <2>c DEF Inv, TypeOK, Steps
    <2>2. LockedInside'
      BY <1>a, <1>c, <1>1, <2>a, SMTT(60) DEF Inv, TypeOK, LockedInside, Steps
    <2>3. ExclusiveAlone'
      BY <1>a, <1>c, <1>1, <2>a, SMTT(60) DEF Inv, TypeOK, ExclusiveAlone, LockedInside, Steps
    <2>4. CacheInv'
      BY <1>a, <1>c, <1>1, <2>a, Parameters, SMTT(60) DEF Inv, TypeOK, CacheInv, HeaderCached, ChangesBounded, ChangesInside,
         Steps
    <2> QED BY <2>1, <2>2, <2>3, <2>4 DEF Inv
  <1>2. CASE HandOver(c, dirty[c] \cup {Header}, "direct") /\ UNCHANGED wal
    <2>0. /\ job' \in [Conn -> [pages : SUBSET Page, tx : Version]]
          /\ dirty' \in [Conn -> SUBSET Page]
          /\ view' \in [Conn -> [Page -> Version \cup {Unread}]]
          /\ pc' = [pc EXCEPT ![c] = "direct"]
          /\ \A d \in Conn : \A r \in dirty'[d] : view'[d][r] # Unread
          /\ dirty'[c] = {} /\ view'[c][Header] # Unread
          /\ \A d \in Conn \ {c} : dirty'[d] = dirty[d] /\ view'[d] = view[d]
      BY <1>a, <1>2, HandOverInv
    <2>1. TypeOK'
      BY <1>2, <1>c, <2>0 DEF Inv, TypeOK, Steps
    <2>2. LockedInside'
      BY <1>a, <1>c, <2>0, SMTT(60) DEF Inv, TypeOK, LockedInside, Steps
    <2>3. ExclusiveAlone'
      BY <1>a, <1>c, <2>0, SMTT(60) DEF Inv, TypeOK, ExclusiveAlone, LockedInside, Steps
    <2>4. CacheInv'
      BY <1>a, <1>c, <2>0, Parameters, SMTT(60) DEF Inv, TypeOK, CacheInv, HeaderCached, ChangesBounded, ChangesInside,
         Steps
    <2> QED BY <2>1, <2>2, <2>3, <2>4 DEF Inv
  <1> QED BY <1>b, <1>1, <1>2

(* The end of a process keeps the invariant whatever its steps were.        *)
LEMMA GoneInv ==
  ASSUME NEW q \in Process, Inv, Gone(q), fault' \in BOOLEAN, UNCHANGED <<file, wal, after>>
  PROVE  Inv'
  <1>1. NoJob \in [pages : SUBSET Page, tx : Version]
    BY Parameters DEF NoJob, Version
  <1>2. Nothing \in [Page -> Version \cup {Unread}]
    BY DEF Nothing
  <1>3. lock' \in [Conn -> {"none", "SH", "EX"}] /\ pc' \in [Conn -> Steps]
    BY DEF Gone, Inv, TypeOK, Steps
  <1>4. view' \in [Conn -> [Page -> Version \cup {Unread}]]
    BY <1>2, Zenon DEF Gone, Inv, TypeOK
  <1>5. dirty' \in [Conn -> SUBSET Page]
    BY DEF Gone, Inv, TypeOK
  <1>6. job' \in [Conn -> [pages : SUBSET Page, tx : Version]]
    BY <1>1, Zenon DEF Gone, Inv, TypeOK
  <1>7. success' \in [Conn -> BOOLEAN] /\ ready' \in [Process -> BOOLEAN]
    BY Zenon DEF Gone, Inv, TypeOK
  <1>8. \A c \in Conn : Home[c] = q => /\ lock'[c] = "none" /\ pc'[c] = "closed" /\ dirty'[c] = {}
    BY DEF Gone
  <1>9. \A c \in Conn : Home[c] # q => /\ lock'[c] = lock[c] /\ pc'[c] = pc[c]
                                       /\ dirty'[c] = dirty[c] /\ view'[c] = view[c]
    BY DEF Gone
  <1>10. \A c \in Conn : \A r \in dirty'[c] : view'[c][r] # Unread
    <2> SUFFICES ASSUME NEW c \in Conn, NEW r \in dirty'[c] PROVE view'[c][r] # Unread
      OBVIOUS
    <2>1. dirty'[c] = dirty[c] /\ view'[c] = view[c]
      BY <1>8, <1>9
    <2> QED BY <2>1 DEF Inv, TypeOK
  <1>11. TypeOK'
    BY <1>3, <1>4, <1>5, <1>6, <1>7, <1>10 DEF Inv, TypeOK
  <1>12. LockedInside'
    BY <1>8, <1>9 DEF Inv, LockedInside
  <1>13. ExclusiveAlone'
    BY <1>8, <1>9 DEF Inv, ExclusiveAlone
  <1>14. CacheInv'
    BY <1>8, <1>9 DEF Inv, CacheInv, HeaderCached, ChangesBounded, ChangesInside
  <1> QED BY <1>11, <1>12, <1>13, <1>14 DEF Inv

(* An empty log stops the program with the lock as it was.                  *)
LEMMA ReplayEmptyInv == ASSUME NEW c \in Conn, Inv, ReplayEmpty(c) PROVE Inv'
  BY GoneInv, Parameters DEF ReplayEmpty

(* A process is killed.                                                     *)
LEMMA CrashInv == ASSUME NEW q \in Process, Inv, Crash(q) PROVE Inv'
  <1>1. fault' \in BOOLEAN
    BY DEF Crash, Inv, TypeOK
  <1> QED BY <1>1, GoneInv DEF Crash

(* A step of any kind keeps the invariant.                                  *)
LEMMA StepInv == Inv /\ [Next]_vars => Inv'
  <1> SUFFICES ASSUME Inv, [Next]_vars PROVE Inv'
    OBVIOUS
  <1>1. CASE \E c \in Conn : \/ Construct(c) \/ ConstructFinds(c) \/ ConstructDrops(c)
                               \/ ConstructMaps(c) \/ ConstructLocks(c) \/ ConstructDone(c)
    BY <1>1, ConstructInv, ConstructFindsInv, ConstructDropsInv, ConstructMapsInv, ConstructLocksInv,
       ConstructDoneInv
  <1>2. CASE \E c \in Conn : OpenRead(c) \/ OpenWrite(c) \/ OpenReplays(c) \/ OpenDone(c) \/ ReplayEmpty(c)
    BY <1>2, OpenReadInv, OpenWriteInv, OpenReplaysInv, OpenDoneInv, ReplayEmptyInv
  <1>3. CASE \E c \in Conn : \E p \in Page : ReadPage(c, p) \/ EvictPage(c, p) \/ WritePage(c, p)
    BY <1>3, ReadPageInv, EvictPageInv, WritePageInv
  <1>4. CASE \E c \in Conn : Invalidate(c) \/ Close(c)
    BY <1>4, InvalidateInv, CloseInv
  <1>5. CASE \E c \in Conn : \E then \in {"commit", "close"} : StartCommit(c, then)
    BY <1>5, StartCommitInv
  <1>6. CASE \E c \in Conn : SizeWal(c) \/ FillWal(c) \/ ActivateWal(c)
    BY <1>6, SizeWalInv, FillWalInv, ActivateWalInv
  <1>7. CASE \E c \in Conn : CopyPage(c) \/ CommitDone(c) \/ CloseDone(c)
    BY <1>7, CopyPageInv, CommitDoneInv, CloseDoneInv
  <1>8. CASE \E q \in Process : Crash(q)
    BY <1>8, CrashInv
  <1>9. CASE UNCHANGED vars
    BY <1>9 DEF vars, Inv, TypeOK, LockedInside, ExclusiveAlone, CacheInv, HeaderCached,
       ChangesBounded, ChangesInside
  <1> QED BY <1>1, <1>2, <1>3, <1>4, <1>5, <1>6, <1>7, <1>8, <1>9 DEF Next

(* The invariant from which both theorems follow.                           *)
LEMMA SpecInv == Spec => []Inv
  BY InitInv, StepInv, PTL DEF Spec

(* Every variable keeps its type, and no page is changed that is not cached *)
(* (PageCache::clear writes nothing else).                                  *)
THEOREM TypeCorrect == Spec => []TypeOK
  <1>1. Inv => TypeOK
    BY DEF Inv
  <1> QED BY <1>1, SpecInv, PTL

(* A write transaction excludes every other, from the lock Transaction::open*)
(* takes to the end of the commit, whoever is killed in between.            *)
THEOREM WriterAloneCorrect == Spec => []WriterAlone
  <1>1. Inv => WriterAlone
    <2> SUFFICES ASSUME Inv, NEW c \in Conn, NEW d \in Conn, Writing(c), InTransaction(d), c # d
                 PROVE  FALSE
      BY DEF WriterAlone
    <2>1. lock[c] \notin {"none", "SH"} /\ lock[d] # "none"
      BY DEF Inv, LockedInside, Writing, InTransaction
    <2>2. lock[c] = "EX"
      BY <2>1 DEF Inv, TypeOK
    <2> QED BY <2>1, <2>2 DEF Inv, ExclusiveAlone
  <1> QED BY <1>1, SpecInv, PTL

-----------------------------------------------------------------------------
(* The refinement: MiniDb implements AtomicStorage, whatever the processes, *)
(* transactions, pages, commits, failing calls of makeWal and steps of a    *)
(* commit to a log at which a process is killed.                            *)

(* While a log is valid, transactions are closed or copy it: none reads the *)
(* file or changes it in another way.                                       *)
LogAlone == wal.state = "valid" => \A c \in Conn : pc[c] \in {"closed", "found", "upgrade", "apply"}

(* A log is replayed from what was mapped of it, which is still what it     *)
(* holds, and what was copied is in the file.                               *)
Replays(c) ==
    pc[c] \in {"upgrade", "apply"} =>
        /\ wal.state = "valid" /\ job[c].tx = wal.tx /\ job[c].pages \subseteq wal.pages
        /\ pc[c] = "upgrade" => job[c].pages = wal.pages
        /\ \A p \in wal.pages \ job[c].pages : file[p] = wal.tx

(* A constructor that has found a valid log is alone, also without a lock.  *)
BuiltAlone ==
    \A c \in Conn : Constructing(c) /\ (pc[c] = "found" => wal.state = "valid") =>
        /\ \A d \in Conn \ {c} : pc[d] = "closed"
        /\ \A q \in Process : ~ready[q]
Started == \A c \in Conn : pc[c] # "closed" => ready[Home[c]] \/ Constructing(c)

(* A transaction that is not open has nothing cached.                       *)
Fresh(c) == Mode(c) = "closed" => view[c] = Nothing /\ dirty[c] = {} /\ success[c]

(* What a commit has prepared at each of its steps.                         *)
Prepares(c) ==
    /\ pc[c] \in {"create", "fill", "activate"} => success[c] /\ Header \in dirty[c]
    /\ pc[c] = "create" => wal.state = "empty"
    /\ pc[c] = "fill" => wal.state = "invalid"
    /\ pc[c] = "activate" => wal = [state |-> "invalid", pages |-> dirty[c], tx |-> NextTx(c)]
    /\ pc[c] \in {"create", "fill", "activate", "direct"} => after[c] \in {"commit", "close"}

(* After the commit point the cache holds the new header.                   *)
Hands(c) ==
    pc[c] = "direct" \/ (pc[c] = "apply" /\ after[c] \in {"commit", "close"}) =>
        view[c] = [Nothing EXCEPT ![Header] = job[c].tx] /\ success[c]

(* What a transaction has cached is what has been committed.                *)
ViewsCurrent == \A c \in Conn : \A p \in Page : view[c][p] \in {Unread, Content[p]}

Local(c) == Replays(c) /\ Fresh(c) /\ Prepares(c) /\ Hands(c)
Shared   == LogAlone /\ BuiltAlone /\ Started
RefInv   == Inv /\ Shared /\ ViewsCurrent /\ \A c \in Conn : Local(c)

(* What the theorem needs of the constants: section 6 of the README.        *)
Recoverable == Careful /\ FreshTransaction /\ "direct" \notin CrashAt

(* Readers, and constructors that have not mapped a log, keep a shared lock.*)
Passive == {"closed", "found", "read"}

(* Whoever holds the file exclusively, or is about to replay, is alone.     *)
LEMMA Lonely ==
  ASSUME RefInv, NEW c \in Conn, pc[c] \notin Passive, NEW d \in Conn \ {c}
  PROVE  pc[d] = "closed"
  <1>1. CASE pc[c] = "upgrade"
    BY <1>1 DEF RefInv, Shared, BuiltAlone, Constructing
  <1>2. CASE pc[c] # "upgrade"
    <2>1. lock[c] = "EX"
      BY <1>2 DEF Passive, RefInv, Inv, LockedInside, TypeOK
    <2>2. lock[d] = "none"
      BY <2>1 DEF RefInv, Inv, ExclusiveAlone
    <2>3. pc[d] \in {"closed", "upgrade"}
      BY <2>2 DEF RefInv, Inv, LockedInside
    <2>4. pc[d] # "upgrade"
      BY DEF Passive, RefInv, Shared, BuiltAlone, Constructing
    <2> QED BY <2>3, <2>4
  <1> QED BY <1>1, <1>2

(* What has been committed, in the three situations of the files.           *)
LEMMA ContentValid ==
  ASSUME wal.state = "valid", \A c \in Conn : pc[c] # "direct", NEW p \in Page
  PROVE  Content[p] = IF p \in wal.pages THEN wal.tx ELSE file[p]
  <1>1. Pending(p) = {}
    BY DEF Pending
  <1> QED BY <1>1 DEF Content

(* Without a valid log, and with nobody writing directly, it is the file.   *)
LEMMA ContentFile ==
  ASSUME wal.state # "valid", \A c \in Conn : pc[c] # "direct", NEW p \in Page
  PROVE  Content[p] = file[p]
  <1>1. Pending(p) = {}
    BY DEF Pending
  <1> QED BY <1>1 DEF Content

(* The same of the state after a step.                                      *)
LEMMA ContentFileNext ==
  ASSUME wal'.state # "valid", \A c \in Conn : pc'[c] # "direct", NEW p \in Page
  PROVE  Content'[p] = file'[p]
  <1>1. Pending(p)' = {}
    BY DEF Pending
  <1> QED BY <1>1 DEF Content

(* With direct writes it is what the writer is about to have written.       *)
LEMMA ContentDirect ==
  ASSUME wal.state # "valid", NEW c \in Conn, pc[c] = "direct",
         \A d \in Conn \ {c} : pc[d] # "direct", NEW p \in Page
  PROVE  Content[p] = IF p \in job[c].pages THEN job[c].tx ELSE file[p]
  <1>1. CASE p \in job[c].pages
    <2>1. Pending(p) = {c}
      BY <1>1 DEF Pending
    <2> QED BY <1>1, <2>1 DEF Content
  <1>2. CASE p \notin job[c].pages
    <2>1. Pending(p) = {}
      BY <1>2 DEF Pending
    <2> QED BY <1>2, <2>1 DEF Content
  <1> QED BY <1>1, <1>2

(* What leaves the files and the direct writes alone commits nothing.       *)
LEMMA SameContent ==
  ASSUME UNCHANGED <<file, wal>>,
         \A d \in Conn : pc'[d] = "direct" <=> pc[d] = "direct",
         \A d \in Conn : pc[d] = "direct" => job'[d] = job[d],
         \A d, e \in Conn : pc[d] = "direct" /\ pc[e] = "direct" => d = e
  PROVE  Content' = Content
  <1> SUFFICES ASSUME NEW p \in Page PROVE Content'[p] = Content[p]
    BY DEF Content
  <1>1. Pending(p)' = Pending(p)
    BY DEF Pending
  <1>2. CASE Pending(p) = {}
    BY <1>1, <1>2 DEF Content
  <1>3. CASE Pending(p) # {}
    <2>1. PICK c \in Conn : c \in Pending(p)
      BY <1>3 DEF Pending
    <2>2. Pending(p) = {c}
      BY <2>1 DEF Pending
    <2>3. Pending(p)' = {c}
      BY <1>1, <2>2
    <2>4. job'[c] = job[c]
      BY <2>1 DEF Pending
    <2> QED BY <2>2, <2>3, <2>4 DEF Content
  <1> QED BY <1>2, <1>3

(* Without a log nobody waits to replay it, and beside a shared lock there  *)
(* are shared locks.                                                        *)
LEMMA NoLog ==
  ASSUME RefInv, wal.state # "valid", NEW c \in Conn, pc[c] \in Passive,
         \A d \in Conn \ {c} : lock[d] # "EX"
  PROVE  \A d \in Conn : pc[d] \in Passive
  <1> SUFFICES ASSUME NEW d \in Conn, d # c PROVE pc[d] \in Passive
    OBVIOUS
  <1>1. lock[d] \in {"none", "SH"}
    BY DEF RefInv, Inv, TypeOK
  <1>2. pc[d] \in {"closed", "found", "read", "upgrade"}
    BY <1>1 DEF RefInv, Inv, LockedInside
  <1>3. pc[d] # "upgrade"
    BY DEF RefInv, Local, Replays
  <1> QED BY <1>2, <1>3 DEF Passive

(* A reader finds the file as the last commit left it.                      *)
LEMMA OpenReadRefines ==
  ASSUME Recoverable, RefInv, NEW c \in Conn, OpenRead(c)
  PROVE  RefInv' /\ Abstract!Open(c, "read")
  <1> USE DEF OpenRead, CanOpen, CanShare, Take, Goto
  <1>1. wal.state # "valid"
    BY DEF Recoverable, LogLeft
  <1>2. \A d \in Conn : pc[d] \in Passive
    BY <1>1, NoLog DEF Passive
  <1>3. \A p \in Page : Content[p] = file[p]
    BY <1>1, <1>2, ContentFile DEF Passive
  <1>4. Content' = Content
    BY <1>2, SameContent DEF Passive, RefInv, Inv, TypeOK
  <1>5. \A d \in Conn : Mode(d)' = IF d = c THEN "read" ELSE Mode(d)
    BY DEF Mode, RefInv, Inv, TypeOK
  <1>6. view[c] = Nothing /\ dirty[c] = {} /\ Mode(c) = "closed"
    BY DEF RefInv, Local, Fresh, Mode
  <1>7. Shared'
    BY <1>1, <1>2 DEF Passive, Shared, RefInv, Inv, TypeOK, LogAlone, BuiltAlone, Started, Constructing
  <1>8. \A d \in Conn : Local(d)'
    <2> SUFFICES ASSUME NEW d \in Conn PROVE Local(d)'
      OBVIOUS
    <2>0. Local(d)
      BY DEF RefInv
    <2>1. pc'[d] \in Passive
      BY <1>2 DEF Passive, RefInv, Inv, TypeOK
    <2>2. Replays(d)' /\ Prepares(d)' /\ Hands(d)'
      BY <2>1 DEF Passive, Replays, Prepares, Hands
    <2>3. Fresh(d)'
      <3>1. CASE d = c
        BY <1>5, <3>1 DEF Fresh
      <3>2. CASE d # c
        <4>1. view'[d] = view[d] /\ Mode(d)' = Mode(d) /\ dirty'[d] = dirty[d] /\ success' = success
          BY <1>5, <3>2 DEF ReadHeader
        <4> QED BY <2>0, <4>1, Zenon DEF Local, Fresh
      <3> QED BY <3>1, <3>2
    <2> QED BY <2>2, <2>3 DEF Local
  <1>9. ViewsCurrent'
    BY <1>3, <1>4, <1>6 DEF ViewsCurrent, RefInv, Inv, TypeOK, ReadHeader
  <1>10. Abstract!Open(c, "read")
    <2>1. view' = [view EXCEPT ![c][Header] = Content[Header]]
      BY <1>3, <1>6, Parameters DEF ReadHeader, Header, RefInv, Inv, TypeOK
    <2>2. \A d \in Conn : Mode(d) # "write"
      BY <1>2 DEF Passive, Mode
    <2> QED BY <1>4, <1>5, <1>6, <2>1, <2>2 DEF Abstract!Open, Abstract!Header, Header
  <1> QED BY <1>7, <1>8, <1>9, <1>10, OpenReadInv DEF RefInv

(* Beside a transaction that is open there are readers at most.             *)
LEMMA OthersIdle ==
  ASSUME RefInv, NEW c \in Conn, pc[c] # "closed", NEW d \in Conn \ {c}
  PROVE  pc[d] \in Passive /\ (pc[c] \notin Passive => pc[d] = "closed")
  <1>1. CASE pc[c] \notin Passive
    BY <1>1, Lonely DEF Passive
  <1>2. CASE pc[c] \in Passive
    <2>1. pc[d] \in Passive \/ pc[c] = "closed"
      BY Lonely DEF Passive
    <2> QED BY <1>2, <2>1 DEF Passive
  <1> QED BY <1>1, <1>2

(* Who has a shared lock or none, and does nothing, is as it should be.     *)
LEMMA IdleKeeps ==
  ASSUME NEW d \in Conn, Local(d), pc[d] \in Passive, pc'[d] = pc[d],
         view'[d] = view[d], dirty'[d] = dirty[d], success'[d] = success[d]
  PROVE  Local(d)' /\ Mode(d)' = Mode(d)
  <1>1. Replays(d)' /\ Prepares(d)' /\ Hands(d)'
    BY DEF Passive, Replays, Prepares, Hands
  <1>2. Mode(d)' = Mode(d)
    BY DEF Passive, Mode
  <1>3. Fresh(d)'
    BY <1>2, Zenon DEF Local, Fresh
  <1> QED BY <1>1, <1>2, <1>3 DEF Local

(* Nothing that AtomicStorage sees has changed.                             *)
LEMMA Stutters ==
  ASSUME Content' = Content, \A d \in Conn : Mode(d)' = Mode(d), UNCHANGED <<view, dirty, success>>
  PROVE  [Abstract!Next]_(Abstract!vars)
  BY DEF Abstract!vars

(* A constructor without a log changes nothing.                             *)
LEMMA ConstructRefines ==
  ASSUME Recoverable, RefInv, NEW c \in Conn, Construct(c)
  PROVE  RefInv' /\ [Abstract!Next]_(Abstract!vars)
  <1> USE DEF Construct, CanConstruct, CanShare
  <1>1. wal.state # "valid"
    OBVIOUS
  <1>2. \A d \in Conn : pc[d] \in Passive
    BY <1>1, NoLog DEF Passive
  <1>3. Content' = Content
    BY <1>2, SameContent DEF Passive
  <1>4. \A d \in Conn : Local(d)' /\ Mode(d)' = Mode(d)
    BY <1>2, IdleKeeps DEF Passive, RefInv
  <1>5. \A q \in Process : ready[q] => ready'[q]
    BY DEF RefInv, Inv, TypeOK
  <1>6. Shared'
    BY <1>1, <1>2, <1>5, Parameters
    DEF Passive, Shared, RefInv, LogAlone, BuiltAlone, Started, Constructing
  <1>7. ViewsCurrent'
    BY <1>3 DEF ViewsCurrent, RefInv
  <1> QED BY <1>3, <1>4, <1>6, <1>7, ConstructInv, Stutters DEF RefInv

(* A constructor that finds a valid log is alone with it.                   *)
LEMMA ConstructFindsRefines ==
  ASSUME Recoverable, RefInv, NEW c \in Conn, ConstructFinds(c)
  PROVE  RefInv' /\ [Abstract!Next]_(Abstract!vars)
  <1> USE DEF ConstructFinds, CanConstruct, CanShare
  <1>1. pc' = [pc EXCEPT ![c] = "found"] /\ pc'[c] = "found"
    BY DEF Goto, RefInv, Inv, TypeOK
  <1>2. wal.state = "valid" =>
          (\A q \in Process : ~ready[q] /\ ~Building(q)) /\ \A d \in Conn : pc[d] = "closed"
    <2> SUFFICES ASSUME wal.state = "valid"
                 PROVE  (\A q \in Process : ~ready[q] /\ ~Building(q)) /\ \A d \in Conn : pc[d] = "closed"
      OBVIOUS
    <2>1. \A q \in Process : ~ready[q] /\ ~Building(q)
      BY DEF Recoverable, LogLeft, Alone
    <2> QED BY <2>1, Parameters DEF RefInv, Shared, Started, Building
  <1>3. \A d \in Conn : pc[d] \in Passive
    BY <1>2, NoLog DEF Passive
  <1>4. Content' = Content
    BY <1>1, <1>3, SameContent DEF Passive, RefInv, Inv, TypeOK
  <1>5. \A d \in Conn \ {c} : Local(d)' /\ Mode(d)' = Mode(d)
    BY <1>1, <1>3, IdleKeeps DEF Passive, RefInv, Inv, TypeOK
  <1>6. Mode(c)' = Mode(c) /\ Mode(c) = "closed"
    BY <1>1 DEF Mode
  <1>7. Local(c)'
    <2>1. Replays(c)' /\ Prepares(c)' /\ Hands(c)'
      BY <1>1 DEF Replays, Prepares, Hands
    <2>2. Fresh(c)'
      BY <1>6, Zenon DEF RefInv, Local, Fresh
    <2> QED BY <2>1, <2>2 DEF Local
  <1>8. Shared'
    <2>1. LogAlone'
      BY <1>1, <1>2 DEF LogAlone, RefInv, Inv, TypeOK
    <2>2. BuiltAlone'
      <3> SUFFICES ASSUME NEW d \in Conn, Constructing(d)', pc'[d] = "found" => wal.state = "valid"
                   PROVE  (\A e \in Conn \ {d} : pc'[e] = "closed") /\ \A q \in Process : ~ready'[q]
        BY DEF BuiltAlone
      <3>1. pc'[d] = "found"
        BY <1>1, <1>3 DEF Constructing, Passive, RefInv, Inv, TypeOK
      <3>2. d = c
        BY <1>1, <1>2, <3>1 DEF RefInv, Inv, TypeOK
      <3> QED BY <1>1, <1>2, <3>1, <3>2 DEF RefInv, Inv, TypeOK
    <2>3. Started'
      BY <1>1 DEF Started, Constructing, Shared, RefInv, Inv, TypeOK
    <2> QED BY <2>1, <2>2, <2>3 DEF Shared
  <1>9. ViewsCurrent'
    BY <1>4 DEF ViewsCurrent, RefInv
  <1> QED BY <1>4, <1>5, <1>6, <1>7, <1>8, <1>9, ConstructFindsInv, Stutters DEF RefInv

(* An invalid log is nothing that was committed.                            *)
LEMMA ConstructDropsRefines ==
  ASSUME Recoverable, RefInv, NEW c \in Conn, ConstructDrops(c)
  PROVE  RefInv' /\ [Abstract!Next]_(Abstract!vars)
  <1> USE DEF ConstructDrops
  <1>1. wal.state # "valid" /\ wal'.state # "valid"
    BY DEF NoWal
  <1>2. \A d \in Conn : pc[d] \in Passive
    <2>1. lock[c] = "SH"
      BY DEF RefInv, Inv, LockedInside
    <2>2. \A d \in Conn \ {c} : lock[d] # "EX"
      BY <2>1 DEF RefInv, Inv, ExclusiveAlone
    <2> QED BY <1>1, <2>2, NoLog DEF Passive
  <1>3. pc' = [pc EXCEPT ![c] = "closed"] /\ pc'[c] = "closed"
    BY DEF Goto, RefInv, Inv, TypeOK
  <1>4. \A d \in Conn : pc'[d] # "direct" /\ pc[d] # "direct"
    BY <1>2, <1>3 DEF Passive, RefInv, Inv, TypeOK
  <1>5. \A p \in Page : Content'[p] = Content[p]
    BY <1>1, <1>4, ContentFile, ContentFileNext
  <1>6. Content' = Content
    BY <1>5 DEF Content
  <1>7. \A d \in Conn \ {c} : Local(d)' /\ Mode(d)' = Mode(d)
    BY <1>2, <1>3, IdleKeeps DEF Passive, RefInv, Inv, TypeOK
  <1>8. Mode(c)' = Mode(c) /\ Mode(c) = "closed"
    BY <1>3 DEF Mode
  <1>9. Local(c)'
    <2>1. Replays(c)' /\ Prepares(c)' /\ Hands(c)'
      BY <1>3 DEF Replays, Prepares, Hands
    <2>2. Fresh(c)'
      BY <1>8, Zenon DEF RefInv, Local, Fresh
    <2> QED BY <2>1, <2>2 DEF Local
  <1>10. \A q \in Process : ready[q] => ready'[q]
    BY DEF RefInv, Inv, TypeOK
  <1>11. Shared'
    BY <1>1, <1>2, <1>3, <1>10, Parameters
    DEF Passive, Shared, RefInv, Inv, TypeOK, LogAlone, BuiltAlone, Started, Constructing
  <1>12. ViewsCurrent'
    BY <1>6 DEF ViewsCurrent, RefInv
  <1> QED BY <1>6, <1>7, <1>8, <1>9, <1>11, <1>12, ConstructDropsInv, Stutters DEF RefInv

(* A constructor maps the log, with nobody beside it.                       *)
LEMMA ConstructMapsRefines ==
  ASSUME Recoverable, RefInv, NEW c \in Conn, ConstructMaps(c)
  PROVE  RefInv' /\ [Abstract!Next]_(Abstract!vars)
  <1> USE DEF ConstructMaps
  <1>1. (\A q \in Process : ~ready[q]) /\ \A d \in Conn \ {c} : pc[d] = "closed"
    BY DEF RefInv, Shared, BuiltAlone, Constructing
  <1>2. pc' = [pc EXCEPT ![c] = "upgrade"] /\ after'[c] = "ctor" /\ pc'[c] = "upgrade"
        /\ job'[c] = [pages |-> wal.pages, tx |-> wal.tx]
    BY DEF Goto, RefInv, Inv, TypeOK
  <1>3. Content' = Content
    BY <1>1, <1>2, SameContent DEF RefInv, Inv, TypeOK
  <1>4. \A d \in Conn \ {c} : Local(d)' /\ Mode(d)' = Mode(d)
    BY <1>1, <1>2, IdleKeeps DEF Passive, RefInv, Inv, TypeOK
  <1>5. Mode(c)' = Mode(c)
    BY <1>2 DEF Mode, RefInv, Inv, TypeOK
  <1>6. Local(c)'
    <2>1. Replays(c)' /\ Prepares(c)' /\ Hands(c)'
      BY <1>2 DEF Replays, Prepares, Hands
    <2>2. Fresh(c)'
      BY <1>5, Zenon DEF RefInv, Local, Fresh
    <2> QED BY <2>1, <2>2 DEF Local
  <1>7. Shared'
    BY <1>1, <1>2, Parameters
    DEF Shared, RefInv, Inv, TypeOK, LogAlone, BuiltAlone, Started, Constructing
  <1>8. ViewsCurrent'
    BY <1>3 DEF ViewsCurrent, RefInv
  <1> QED BY <1>3, <1>4, <1>5, <1>6, <1>7, <1>8, ConstructMapsInv, Stutters DEF RefInv

(* It waits for the lock, and starts to copy.                               *)
LEMMA ConstructLocksRefines ==
  ASSUME Recoverable, RefInv, NEW c \in Conn, ConstructLocks(c)
  PROVE  RefInv' /\ [Abstract!Next]_(Abstract!vars)
  <1> USE DEF ConstructLocks
  <1>1. \A d \in Conn \ {c} : pc[d] = "closed"
    BY Lonely DEF Passive
  <1>2. pc' = [pc EXCEPT ![c] = "apply"] /\ pc'[c] = "apply" /\ after[c] = "ctor"
    BY DEF Goto, RefInv, Inv, TypeOK, CacheInv, ChangesInside
  <1>3. Content' = Content
    BY <1>1, <1>2, SameContent DEF RefInv, Inv, TypeOK
  <1>4. \A d \in Conn \ {c} : Local(d)' /\ Mode(d)' = Mode(d)
    BY <1>1, <1>2, IdleKeeps DEF Passive, RefInv, Inv, TypeOK
  <1>5. Mode(c)' = Mode(c)
    BY <1>2 DEF Mode
  <1>6. Local(c)'
    <2>1. Replays(c)' /\ Prepares(c)' /\ Hands(c)'
      BY <1>2 DEF RefInv, Local, Replays, Prepares, Hands
    <2>2. Fresh(c)'
      BY <1>5, Zenon DEF RefInv, Local, Fresh
    <2> QED BY <2>1, <2>2 DEF Local
  <1>7. Shared'
    BY <1>1, <1>2 DEF Shared, RefInv, Inv, TypeOK, LogAlone, BuiltAlone, Started, Constructing
  <1>8. ViewsCurrent'
    BY <1>3 DEF ViewsCurrent, RefInv
  <1> QED BY <1>3, <1>4, <1>5, <1>6, <1>7, <1>8, ConstructLocksInv, Stutters DEF RefInv

(* The end of a replay: the file holds what the log held.                   *)
LEMMA ReplayEnds ==
  ASSUME RefInv, NEW c \in Conn, pc[c] = "apply", job[c].pages = {}, RemoveWal(c),
         pc'[c] \notin {"apply", "direct"}, \A d \in Conn \ {c} : pc'[d] = pc[d], file' = file
  PROVE  /\ Content' = Content /\ \A p \in Page : Content[p] = file[p]
         /\ wal' = NoWal /\ \A d \in Conn \ {c} : pc[d] = "closed"
  <1>1. \A d \in Conn \ {c} : pc[d] = "closed"
    BY Lonely DEF Passive
  <1>2. wal.state = "valid" /\ \A p \in wal.pages : file[p] = wal.tx
    BY DEF RefInv, Local, Replays
  <1>3. \A p \in Page : Content[p] = file[p]
    BY <1>1, <1>2, ContentValid
  <1>4. wal' = NoWal
    BY DEF RemoveWal
  <1>5. \A p \in Page : Content'[p] = file'[p]
    BY <1>1, <1>4, ContentFileNext DEF NoWal
  <1>6. Content' = Content
    BY <1>3, <1>5 DEF Content
  <1> QED BY <1>1, <1>3, <1>4, <1>6

(* The constructor has replayed its log.                                    *)
LEMMA ConstructDoneRefines ==
  ASSUME Recoverable, RefInv, NEW c \in Conn, ConstructDone(c)
  PROVE  RefInv' /\ [Abstract!Next]_(Abstract!vars)
  <1> USE DEF ConstructDone, CopyDone
  <1>1. pc[c] = "apply"
    BY DEF RefInv, Local, Prepares
  <1>2. pc' = [pc EXCEPT ![c] = "closed"] /\ pc'[c] = "closed"
    BY DEF Goto, RefInv, Inv, TypeOK
  <1>3. /\ Content' = Content /\ wal' = NoWal
        /\ \A d \in Conn \ {c} : pc[d] = "closed"
    BY <1>1, <1>2, ReplayEnds
  <1>4. \A d \in Conn \ {c} : Local(d)' /\ Mode(d)' = Mode(d)
    BY <1>2, <1>3, IdleKeeps DEF Passive, RefInv, Inv, TypeOK
  <1>5. Mode(c)' = Mode(c)
    BY <1>1, <1>2 DEF Mode
  <1>6. Local(c)'
    <2>1. Replays(c)' /\ Prepares(c)' /\ Hands(c)'
      BY <1>2 DEF Replays, Prepares, Hands
    <2>2. Fresh(c)'
      BY <1>5, Zenon DEF RefInv, Local, Fresh
    <2> QED BY <2>1, <2>2 DEF Local
  <1>7. Shared'
    BY <1>2, <1>3 DEF Shared, RefInv, Inv, TypeOK, LogAlone, BuiltAlone, Started, Constructing, NoWal
  <1>8. ViewsCurrent'
    BY <1>3 DEF ViewsCurrent, RefInv
  <1> QED BY <1>3, <1>4, <1>5, <1>6, <1>7, <1>8, ConstructDoneInv, Stutters DEF RefInv

(* What AtomicStorage sees of an opened transaction.                        *)
LEMMA Opens ==
  ASSUME RefInv, NEW c \in Conn, NEW m \in {"read", "write"}, Mode(c) = "closed", view[c] = Nothing,
         \A d \in Conn \ {c} : Mode(d) # "write" /\ (m = "write" => Mode(d) = "closed"),
         \A d \in Conn \ {c} : Mode(d)' = Mode(d), Mode(c)' = m,
         Content' = Content, Content[Header] = file[Header], ReadHeader(c),
         UNCHANGED <<dirty, success>>
  PROVE  Abstract!Open(c, m) /\ (ViewsCurrent')
  <1>1. view' = [view EXCEPT ![c][Header] = Content[Header]]
    BY DEF ReadHeader, Header, RefInv, Inv, TypeOK
  <1>2. Abstract!Open(c, m)
    BY <1>1 DEF Abstract!Open, Abstract!Header, Header
  <1>3. ViewsCurrent'
    BY DEF ViewsCurrent, RefInv, Inv, TypeOK, ReadHeader, Nothing
  <1> QED BY <1>2, <1>3

(* A writer finds no log: the file is what was committed last.              *)
LEMMA OpenWriteRefines ==
  ASSUME Recoverable, RefInv, NEW c \in Conn, OpenWrite(c)
  PROVE  RefInv' /\ [Abstract!Next]_(Abstract!vars)
  <1> USE DEF OpenWrite, CanOpen, CanOwn
  <1>1. wal.state # "valid" /\ wal'.state # "valid"
    BY DEF NoWal
  <1>2. \A d \in Conn : pc[d] = "closed"
    <2> SUFFICES ASSUME NEW d \in Conn, d # c PROVE pc[d] = "closed"
      OBVIOUS
    <2>1. pc[d] \in {"closed", "upgrade"}
      BY DEF RefInv, Inv, LockedInside, TypeOK
    <2>2. pc[d] # "upgrade"
      BY <1>1 DEF RefInv, Local, Replays
    <2> QED BY <2>1, <2>2
  <1>3. pc' = [pc EXCEPT ![c] = "write"] /\ pc'[c] = "write"
    BY DEF Goto, RefInv, Inv, TypeOK
  <1>4. \A p \in Page : Content[p] = file[p] /\ Content'[p] = file[p]
    <2>1. \A d \in Conn : pc'[d] # "direct"
      BY <1>2, <1>3 DEF RefInv, Inv, TypeOK
    <2> QED BY <1>1, <1>2, <2>1, ContentFile, ContentFileNext
  <1>5. Content' = Content
    BY <1>4 DEF Content
  <1>6. \A d \in Conn \ {c} : Local(d)' /\ Mode(d)' = Mode(d)
    BY <1>2, <1>3, IdleKeeps DEF Passive, RefInv, Inv, TypeOK, ReadHeader
  <1>7. Mode(c)' = "write" /\ \A d \in Conn : Mode(d) = "closed"
    BY <1>2, <1>3 DEF Mode
  <1>8. Local(c)'
    BY <1>3, <1>7 DEF Local, Replays, Prepares, Hands, Fresh
  <1>9. Shared'
    BY <1>1, <1>2, <1>3 DEF Shared, RefInv, Inv, TypeOK, LogAlone, BuiltAlone, Started, Constructing
  <1>10. Abstract!Open(c, "write") /\ ViewsCurrent'
    BY <1>4, <1>5, <1>6, <1>7, Opens, Parameters DEF RefInv, Local, Fresh, Header
  <1> QED BY <1>6, <1>8, <1>9, <1>10, OpenWriteInv DEF RefInv, Abstract!Next

(* A writer finds a log and maps it.                                        *)
LEMMA OpenReplaysRefines ==
  ASSUME Recoverable, RefInv, NEW c \in Conn, OpenReplays(c)
  PROVE  RefInv' /\ [Abstract!Next]_(Abstract!vars)
  <1> USE DEF OpenReplays, CanOpen, CanOwn
  <1>1. \A d \in Conn : pc[d] = "closed"
    <2> SUFFICES ASSUME NEW d \in Conn, d # c PROVE pc[d] = "closed"
      OBVIOUS
    <2>1. pc[d] \in {"closed", "upgrade"}
      BY DEF RefInv, Inv, LockedInside, TypeOK
    <2>2. pc[d] # "upgrade"
      BY Parameters DEF RefInv, Shared, BuiltAlone, Constructing
    <2> QED BY <2>1, <2>2
  <1>2. pc' = [pc EXCEPT ![c] = "apply"] /\ pc'[c] = "apply" /\ after'[c] = "open"
        /\ job'[c] = [pages |-> wal.pages, tx |-> wal.tx]
    BY DEF Goto, RefInv, Inv, TypeOK
  <1>3. Content' = Content
    BY <1>1, <1>2, SameContent DEF RefInv, Inv, TypeOK
  <1>4. \A d \in Conn \ {c} : Local(d)' /\ Mode(d)' = Mode(d)
    BY <1>1, <1>2, IdleKeeps DEF Passive, RefInv, Inv, TypeOK
  <1>5. Mode(c)' = Mode(c)
    BY <1>1, <1>2 DEF Mode
  <1>6. Local(c)'
    <2>1. Replays(c)' /\ Prepares(c)' /\ Hands(c)'
      BY <1>2 DEF Replays, Prepares, Hands
    <2>2. Fresh(c)'
      BY <1>5, Zenon DEF RefInv, Local, Fresh
    <2> QED BY <2>1, <2>2 DEF Local
  <1>7. Shared'
    BY <1>1, <1>2 DEF Shared, RefInv, Inv, TypeOK, LogAlone, BuiltAlone, Started, Constructing
  <1>8. ViewsCurrent'
    BY <1>3 DEF ViewsCurrent, RefInv
  <1> QED BY <1>3, <1>4, <1>5, <1>6, <1>7, <1>8, OpenReplaysInv, Stutters DEF RefInv

(* It has copied all of it, and opens.                                      *)
LEMMA OpenDoneRefines ==
  ASSUME Recoverable, RefInv, NEW c \in Conn, OpenDone(c)
  PROVE  RefInv' /\ [Abstract!Next]_(Abstract!vars)
  <1> USE DEF OpenDone, CopyDone
  <1>1. pc[c] = "apply"
    BY DEF RefInv, Local, Prepares
  <1>2. pc' = [pc EXCEPT ![c] = "write"] /\ pc'[c] = "write"
    BY DEF Goto, RefInv, Inv, TypeOK
  <1>3. /\ Content' = Content /\ wal' = NoWal
        /\ \A p \in Page : Content[p] = file[p]
        /\ \A d \in Conn \ {c} : pc[d] = "closed"
    BY <1>1, <1>2, ReplayEnds
  <1>4. \A d \in Conn \ {c} : Local(d)' /\ Mode(d)' = Mode(d)
    BY <1>2, <1>3, IdleKeeps DEF Passive, RefInv, Inv, TypeOK, ReadHeader
  <1>5. Mode(c)' = "write" /\ \A d \in Conn : Mode(d) = "closed"
    BY <1>1, <1>2, <1>3 DEF Mode
  <1>6. Local(c)'
    BY <1>2, <1>5 DEF Local, Replays, Prepares, Hands, Fresh
  <1>7. Shared'
    BY <1>1, <1>2, <1>3 DEF Shared, RefInv, Inv, TypeOK, LogAlone, BuiltAlone, Started, Constructing, NoWal
  <1>8. Abstract!Open(c, "write") /\ ViewsCurrent'
    BY <1>3, <1>4, <1>5, Opens, Parameters DEF RefInv, Local, Fresh, Header
  <1> QED BY <1>4, <1>6, <1>7, <1>8, OpenDoneInv DEF RefInv, Abstract!Next

(* A transaction that reads or changes pages does so on the file, which is  *)
(* what was committed last.                                                 *)
LEMMA ReadsFile ==
  ASSUME RefInv, NEW c \in Conn, pc[c] \in {"read", "write", "create", "fill", "activate"}
  PROVE  /\ wal.state # "valid" /\ \A d \in Conn : pc[d] # "direct"
         /\ \A p \in Page : Content[p] = file[p]
         /\ \A d \in Conn \ {c} : pc[d] \in Passive
  <1>1. wal.state # "valid"
    BY DEF RefInv, Shared, LogAlone
  <1>2. \A d \in Conn \ {c} : pc[d] \in Passive
    BY OthersIdle
  <1>3. \A d \in Conn : pc[d] # "direct"
    BY <1>2 DEF Passive
  <1> QED BY <1>1, <1>2, <1>3, ContentFile

(* Nobody comes or goes: who was idle or opened for pages is as it was.     *)
LEMMA PageStep ==
  ASSUME RefInv, NEW c \in Conn, pc[c] \in {"read", "write"},
         UNCHANGED <<file, wal, lock, pc, after, job, ready, fault>>,
         \A d \in Conn \ {c} : view'[d] = view[d] /\ dirty'[d] = dirty[d] /\ success'[d] = success[d]
  PROVE  /\ Content' = Content /\ Shared' /\ \A d \in Conn : Local(d)' /\ Mode(d)' = Mode(d)
         /\ Mode(c) = pc[c]
  <1>1. Content' = Content
    BY ReadsFile, SameContent
  <1>2. Shared'
    BY DEF RefInv, Shared, LogAlone, BuiltAlone, Started, Constructing
  <1>3. \A d \in Conn \ {c} : Local(d)' /\ Mode(d)' = Mode(d)
    BY ReadsFile, IdleKeeps DEF Passive, RefInv
  <1>4. Mode(c)' = Mode(c) /\ Mode(c) = pc[c]
    BY DEF Mode
  <1>5. Local(c)'
    BY <1>4 DEF Local, Replays, Prepares, Hands, Fresh
  <1> QED BY <1>1, <1>2, <1>3, <1>4, <1>5

(* A page that is read is that of the last commit.                          *)
LEMMA ReadPageRefines ==
  ASSUME RefInv, NEW c \in Conn, NEW p \in Page, ReadPage(c, p)
  PROVE  RefInv' /\ [Abstract!Next]_(Abstract!vars)
  <1> USE DEF ReadPage
  <1>1. /\ Content' = Content /\ Shared' /\ \A d \in Conn : Local(d)' /\ Mode(d)' = Mode(d)
        /\ Mode(c) # "closed"
    BY PageStep DEF RefInv, Inv, TypeOK
  <1>2. view' = [view EXCEPT ![c][p] = Content[p]]
    BY ReadsFile DEF RefInv, ViewsCurrent, Cached
  <1>3. ViewsCurrent'
    BY <1>1, <1>2 DEF ViewsCurrent, RefInv, Inv, TypeOK
  <1>4. Abstract!Read(c, p)
    BY <1>1, <1>2 DEF Abstract!Read
  <1> QED BY <1>1, <1>3, <1>4, ReadPageInv DEF RefInv, Abstract!Next

(* A page leaves the cache.                                                 *)
LEMMA EvictPageRefines ==
  ASSUME RefInv, NEW c \in Conn, NEW p \in Page, EvictPage(c, p)
  PROVE  RefInv' /\ [Abstract!Next]_(Abstract!vars)
  <1> USE DEF EvictPage
  <1>1. Content' = Content /\ Shared' /\ \A d \in Conn : Local(d)' /\ Mode(d)' = Mode(d)
    BY PageStep DEF RefInv, Inv, TypeOK
  <1>2. ViewsCurrent'
    BY <1>1 DEF ViewsCurrent, RefInv, Inv, TypeOK
  <1>3. Abstract!Forget(c, p)
    BY <1>1 DEF Abstract!Forget, Abstract!Unread, Unread
  <1> QED BY <1>1, <1>2, <1>3, EvictPageInv DEF RefInv, Abstract!Next

(* A page that is changed starts from the last commit.                      *)
LEMMA WritePageRefines ==
  ASSUME RefInv, NEW c \in Conn, NEW p \in Page, WritePage(c, p)
  PROVE  RefInv' /\ [Abstract!Next]_(Abstract!vars)
  <1> USE DEF WritePage
  <1>1. /\ Content' = Content /\ Shared' /\ \A d \in Conn : Local(d)' /\ Mode(d)' = Mode(d)
        /\ Mode(c) = "write"
    BY PageStep DEF RefInv, Inv, TypeOK
  <1>2. view' = [view EXCEPT ![c][p] = Content[p]]
    BY ReadsFile DEF RefInv, ViewsCurrent, Cached
  <1>3. ViewsCurrent'
    BY <1>1, <1>2 DEF ViewsCurrent, RefInv, Inv, TypeOK
  <1>4. Abstract!Write(c, p)
    BY <1>1, <1>2 DEF Abstract!Write
  <1> QED BY <1>1, <1>3, <1>4, WritePageInv DEF RefInv, Abstract!Next

(* A transaction is invalidated.                                            *)
LEMMA InvalidateRefines ==
  ASSUME RefInv, NEW c \in Conn, Invalidate(c)
  PROVE  RefInv' /\ [Abstract!Next]_(Abstract!vars)
  <1> USE DEF Invalidate
  <1>1. /\ Content' = Content /\ Shared' /\ \A d \in Conn : Local(d)' /\ Mode(d)' = Mode(d)
        /\ Mode(c) # "closed"
    BY PageStep DEF RefInv, Inv, TypeOK
  <1>2. ViewsCurrent'
    BY <1>1 DEF ViewsCurrent, RefInv
  <1>3. [d \in Conn |-> ~success'[d]] = [[d \in Conn |-> ~success[d]] EXCEPT ![c] = TRUE]
    BY DEF RefInv, Inv, TypeOK
  <1>4. Abstract!Invalidate(c)
    BY <1>1, <1>3 DEF Abstract!Invalidate
  <1> QED BY <1>1, <1>2, <1>4, InvalidateInv DEF RefInv, Abstract!Next

(* What a transaction that leaves gives up.                                 *)
LEMMA Leaves ==
  ASSUME Recoverable, RefInv, NEW c \in Conn, Leave(c), Mode(c) # "closed", ~success[c] \/ dirty[c] = {},
         Content' = Content, \A d \in Conn \ {c} : Mode(d)' = Mode(d)
  PROVE  Abstract!Close(c) /\ (ViewsCurrent') /\ (Local(c)')
  <1> USE DEF Leave
  <1>1. pc'[c] = "closed" /\ Mode(c)' = "closed"
    BY DEF Goto, Mode, RefInv, Inv, TypeOK
  <1>2. view'[c] = Nothing /\ dirty'[c] = {}
    BY DEF RefInv, Inv, TypeOK
  <1>3. success' = [success EXCEPT ![c] = TRUE]
    BY DEF Recoverable
  <1>4. [d \in Conn |-> ~success'[d]] = [d \in Conn |-> IF d \in {c} THEN FALSE ELSE ~success[d]]
    BY <1>3 DEF RefInv, Inv, TypeOK
  <1>5. Abstract!Closed({c})
    <2>1. view' = [d \in Conn |-> IF d \in {c} THEN Abstract!Nothing ELSE view[d]]
      BY DEF RefInv, Inv, TypeOK, Nothing, Abstract!Nothing, Unread, Abstract!Unread
    <2>2. dirty' = [d \in Conn |-> IF d \in {c} THEN {} ELSE dirty[d]]
      BY DEF RefInv, Inv, TypeOK
    <2> QED BY <1>1, <1>4, <2>1, <2>2 DEF Abstract!Closed
  <1>6. Abstract!Close(c)
    BY <1>5 DEF Abstract!Close
  <1>7. ViewsCurrent'
    BY <1>2 DEF ViewsCurrent, RefInv, Inv, TypeOK, Nothing
  <1>8. success'[c]
    BY <1>3, Zenon DEF RefInv, Inv, TypeOK
  <1>9. Local(c)'
    BY <1>1, <1>2, <1>8 DEF Local, Replays, Prepares, Hands, Fresh
  <1> QED BY <1>6, <1>7, <1>9

(* A transaction without changes, or an invalidated one, is closed.         *)
LEMMA CloseRefines ==
  ASSUME Recoverable, RefInv, NEW c \in Conn, Close(c)
  PROVE  RefInv' /\ [Abstract!Next]_(Abstract!vars)
  <1>1. /\ pc[c] \in {"read", "write"} /\ Leave(c) /\ Mode(c) # "closed"
        /\ ~success[c] \/ dirty[c] = {}
        /\ UNCHANGED <<file, wal, after, job, ready, fault>>
    BY DEF Close, Mode, RefInv, Inv, CacheInv, ChangesInside
  <1>2. pc' = [pc EXCEPT ![c] = "closed"] /\ \A d \in Conn \ {c} : pc[d] \in Passive
    BY <1>1, ReadsFile DEF Leave, Goto
  <1>3. Content' = Content
    BY <1>1, <1>2, ReadsFile, SameContent DEF RefInv, Inv, TypeOK
  <1>4. \A d \in Conn \ {c} : Local(d)' /\ Mode(d)' = Mode(d)
    BY <1>1, <1>2, IdleKeeps DEF Passive, RefInv, Inv, TypeOK, Leave
  <1>5. Shared'
    BY <1>1, <1>2 DEF RefInv, Inv, TypeOK, Shared, LogAlone, BuiltAlone, Started, Constructing
  <1>6. Abstract!Close(c) /\ ViewsCurrent' /\ Local(c)'
    BY <1>1, <1>3, <1>4, Leaves
  <1> QED BY <1>4, <1>5, <1>6, CloseInv DEF RefInv, Abstract!Next

(* The commit point: all pages the transaction has changed, and the header, *)
(* take the next number at once.                                            *)
LEMMA Commits ==
  ASSUME RefInv, NEW c \in Conn, pc[c] \in {"write", "create", "activate"}, success[c],
         dirty[c] # {}, NEW step \in {"apply", "direct"}, HandOver(c, dirty[c] \cup {Header}, step),
         after'[c] \in {"commit", "close"}, \A d \in Conn \ {c} : after'[d] = after[d],
         UNCHANGED success,
         \A p \in Page : Content'[p] = IF p \in dirty[c] \cup {Header} THEN NextTx(c) ELSE Content[p]
  PROVE  /\ Abstract!Commit(c) /\ ViewsCurrent'
         /\ Fresh(c)' /\ Prepares(c)' /\ Hands(c)' /\ \A d \in Conn \ {c} : Local(d)'
  <1>1. \A d \in Conn \ {c} : pc[d] = "closed"
    BY Lonely DEF Passive
  <1>2. /\ pc' = [pc EXCEPT ![c] = step] /\ pc'[c] = step
        /\ view' = [view EXCEPT ![c] = [Nothing EXCEPT ![Header] = NextTx(c)]]
        /\ dirty' = [dirty EXCEPT ![c] = {}]
        /\ job'[c] = [pages |-> dirty[c] \cup {Header}, tx |-> NextTx(c)]
    BY DEF HandOver, Goto, RefInv, Inv, TypeOK
  <1>3. Mode(c) = "write" /\ Mode(c)' = "write"
    BY <1>2 DEF Mode
  <1>4. \A d \in Conn \ {c} : Local(d)' /\ Mode(d)' = Mode(d)
    BY <1>1, <1>2, IdleKeeps DEF Passive, RefInv, Inv, TypeOK
  <1>5. Header \in Page /\ view[c][Header] = Content[Header]
    BY Parameters DEF RefInv, Inv, CacheInv, HeaderCached, ViewsCurrent, Header
  <1>6. Content' = [p \in Page |-> IF p \in dirty[c] \cup {Header} THEN NextTx(c) ELSE Content[p]]
    BY DEF Content
  <1>7. Abstract!Commit(c)
    <2>1. view' = [view EXCEPT ![c] = [Abstract!Nothing EXCEPT ![Abstract!Header] = NextTx(c)]]
      BY <1>2 DEF Nothing, Abstract!Nothing, Unread, Abstract!Unread, Header, Abstract!Header
    <2>2. NextTx(c) = Content[Abstract!Header] + 1
      BY <1>5 DEF NextTx, Header, Abstract!Header
    <2>3. [d \in Conn |-> Mode(d)]' = [d \in Conn |-> Mode(d)]
      BY <1>3, <1>4
    <2>4. ~[d \in Conn |-> ~success[d]][c]
      OBVIOUS
    <2> QED BY <1>2, <1>3, <1>6, <2>1, <2>2, <2>3, <2>4 DEF Abstract!Commit, Header, Abstract!Header
  <1>8. ViewsCurrent'
    <2> SUFFICES ASSUME NEW d \in Conn, NEW p \in Page PROVE view'[d][p] \in {Unread, Content'[p]}
      BY DEF ViewsCurrent
    <2>1. CASE d = c
      BY <1>2, <1>6, <2>1 DEF Nothing, RefInv, Inv, TypeOK
    <2>2. CASE d # c
      <3>1. Mode(d) = "closed"
        BY <1>1, <2>2 DEF Mode
      <3>2. view[d] = Nothing
        BY <3>1, Zenon DEF RefInv, Local, Fresh
      <3>3. view'[d] = view[d]
        BY <1>2, <2>2 DEF RefInv, Inv, TypeOK
      <3> QED BY <3>2, <3>3 DEF Nothing
    <2> QED BY <2>1, <2>2
  <1>9. Fresh(c)' /\ Prepares(c)'
    BY <1>2, <1>3 DEF Fresh, Prepares
  <1>10. Hands(c)'
    <2>1. view'[c] = [Nothing EXCEPT ![Header] = job'[c].tx]
      BY <1>2 DEF RefInv, Inv, TypeOK
    <2> QED BY <2>1, Zenon DEF Hands
  <1> QED BY <1>4, <1>7, <1>8, <1>9, <1>10

(* Without a log the commit point is the start of the direct write.         *)
LEMMA CommitsDirect ==
  ASSUME Recoverable, RefInv, NEW c \in Conn, pc[c] \in {"write", "create"}, success[c], dirty[c] # {},
         HandOver(c, dirty[c] \cup {Header}, "direct"), UNCHANGED <<file, wal, lock, success, ready, fault>>,
         after'[c] \in {"commit", "close"}, \A d \in Conn \ {c} : after'[d] = after[d]
  PROVE  Shared' /\ ViewsCurrent' /\ (\A d \in Conn : Local(d)') /\ Abstract!Commit(c)
  <1>1. /\ \A d \in Conn \ {c} : pc[d] = "closed"
        /\ wal.state # "valid" /\ \A p \in Page : Content[p] = file[p]
    BY Lonely, ReadsFile DEF Passive
  <1>2. /\ pc' = [pc EXCEPT ![c] = "direct"] /\ pc'[c] = "direct"
        /\ job'[c] = [pages |-> dirty[c] \cup {Header}, tx |-> NextTx(c)]
    BY DEF HandOver, Goto, RefInv, Inv, TypeOK
  <1>3. ASSUME NEW p \in Page
        PROVE  Content'[p] = IF p \in dirty[c] \cup {Header} THEN NextTx(c) ELSE Content[p]
    <2>1. Pending(p)' = IF p \in dirty[c] \cup {Header} THEN {c} ELSE {}
      BY <1>1, <1>2 DEF Pending, RefInv, Inv, TypeOK
    <2>2. CASE p \in dirty[c] \cup {Header}
      BY <1>1, <1>2, <2>1, <2>2 DEF Content
    <2>3. CASE p \notin dirty[c] \cup {Header}
      BY <1>1, <2>1, <2>3 DEF Content
    <2> QED BY <2>2, <2>3
  <1>4. /\ Abstract!Commit(c) /\ ViewsCurrent'
        /\ Fresh(c)' /\ Prepares(c)' /\ Hands(c)' /\ \A d \in Conn \ {c} : Local(d)'
    BY <1>3, Commits
  <1>5. Shared'
    BY <1>1, <1>2 DEF RefInv, Inv, TypeOK, Shared, LogAlone, BuiltAlone, Started, Constructing
  <1>6. Local(c)'
    BY <1>2, <1>4 DEF Local, Replays
  <1> QED BY <1>4, <1>5, <1>6

(* A commit starts with a log, or without.                                  *)
LEMMA StartCommitRefines ==
  ASSUME Recoverable, RefInv, NEW c \in Conn, NEW then \in {"commit", "close"}, StartCommit(c, then)
  PROVE  RefInv' /\ [Abstract!Next]_(Abstract!vars)
  <1>1. /\ pc[c] = "write" /\ success[c] /\ dirty[c] # {}
        /\ after' = [after EXCEPT ![c] = then] /\ UNCHANGED <<file, lock, success, ready, fault>>
    BY DEF StartCommit
  <1>2. after'[c] \in {"commit", "close"} /\ \A d \in Conn \ {c} : after'[d] = after[d]
    BY <1>1 DEF RefInv, Inv, TypeOK
  <1>3. CASE HandOver(c, dirty[c] \cup {Header}, "direct") /\ UNCHANGED wal
    BY <1>1, <1>2, <1>3, CommitsDirect, StartCommitInv DEF RefInv, Abstract!Next
  <1>4. CASE /\ wal' = [NoWal EXCEPT !.state = "empty"] /\ pc' = [pc EXCEPT ![c] = "create"]
             /\ dirty' = [dirty EXCEPT ![c] = @ \cup {Header}]
             /\ UNCHANGED <<view, job>>
    <2>1. /\ \A d \in Conn \ {c} : pc[d] = "closed"
          /\ wal.state # "valid" /\ \A p \in Page : Content[p] = file[p]
      BY <1>1, Lonely, ReadsFile DEF Passive
    <2>2. pc'[c] = "create" /\ wal'.state = "empty" /\ Header \in dirty'[c]
      BY <1>4 DEF RefInv, Inv, TypeOK, NoWal
    <2>3. \A p \in Page : Content'[p] = file'[p]
      <3>1. \A d \in Conn : pc'[d] # "direct"
        BY <1>4, <2>1, <2>2 DEF RefInv, Inv, TypeOK
      <3> QED BY <2>2, <3>1, ContentFileNext
    <2>4. Content' = Content
      BY <1>1, <2>1, <2>3 DEF Content
    <2>5. \A d \in Conn \ {c} : Local(d)' /\ Mode(d)' = Mode(d)
      BY <1>1, <1>4, <2>1, IdleKeeps DEF Passive, RefInv, Inv, TypeOK
    <2>6. Mode(c) = "write" /\ Mode(c)' = "write"
      BY <1>1, <2>2 DEF Mode
    <2>7. Local(c)'
      <3>1. Replays(c)' /\ Fresh(c)' /\ Hands(c)'
        BY <2>2, <2>6 DEF Replays, Fresh, Hands
      <3>2. success'[c]
        BY <1>1, Zenon
      <3>3. Prepares(c)'
        BY <1>2, <2>2, <3>2 DEF Prepares
      <3> QED BY <3>1, <3>3 DEF Local
    <2>8. Shared'
      BY <1>1, <1>4, <2>1, <2>2 DEF RefInv, Inv, TypeOK, Shared, LogAlone, BuiltAlone, Started, Constructing
    <2>9. ViewsCurrent'
      BY <1>4, <2>4 DEF ViewsCurrent, RefInv
    <2>10. Abstract!Write(c, Header)
      <3>1. Header \in Page /\ view[c][Header] = Content[Header]
        BY <1>1, Parameters DEF RefInv, Inv, CacheInv, HeaderCached, ViewsCurrent, Header
      <3>2. view' = [view EXCEPT ![c][Header] = Content[Header]]
        BY <1>4, <3>1 DEF RefInv, Inv, TypeOK
      <3> QED BY <1>1, <1>4, <2>4, <2>5, <2>6, <3>2 DEF Abstract!Write
    <2> QED BY <2>5, <2>7, <2>8, <2>9, <2>10, StartCommitInv, Parameters DEF RefInv, Abstract!Next, Header
  <1> QED BY <1>3, <1>4 DEF StartCommit, Goto

(* The log gets its length, or the pages go to the file without it.         *)
LEMMA SizeWalRefines ==
  ASSUME Recoverable, RefInv, NEW c \in Conn, SizeWal(c)
  PROVE  RefInv' /\ [Abstract!Next]_(Abstract!vars)
  <1>1. /\ pc[c] = "create" /\ success[c] /\ Header \in dirty[c] /\ after[c] \in {"commit", "close"}
        /\ UNCHANGED <<file, lock, after, success, ready, fault>>
    BY DEF SizeWal, RefInv, Local, Prepares
  <1>2. CASE HandOver(c, dirty[c], "direct") /\ UNCHANGED wal
    <2>1. dirty[c] = dirty[c] \cup {Header}
      BY <1>1
    <2> QED BY <1>1, <1>2, <2>1, CommitsDirect, SizeWalInv DEF RefInv, Abstract!Next
  <1>3. CASE /\ wal' = [NoWal EXCEPT !.state = "invalid"] /\ pc' = [pc EXCEPT ![c] = "fill"]
             /\ UNCHANGED <<view, dirty, job>>
    <2>1. /\ \A d \in Conn \ {c} : pc[d] = "closed"
          /\ wal.state # "valid" /\ \A p \in Page : Content[p] = file[p]
      BY <1>1, Lonely, ReadsFile DEF Passive
    <2>2. pc'[c] = "fill" /\ wal'.state = "invalid"
      BY <1>3 DEF RefInv, Inv, TypeOK, NoWal
    <2>3. \A p \in Page : Content'[p] = file'[p]
      <3>1. \A d \in Conn : pc'[d] # "direct"
        BY <1>3, <2>1, <2>2 DEF RefInv, Inv, TypeOK
      <3> QED BY <2>2, <3>1, ContentFileNext
    <2>4. Content' = Content
      BY <1>1, <2>1, <2>3 DEF Content
    <2>5. \A d \in Conn \ {c} : Local(d)' /\ Mode(d)' = Mode(d)
      BY <1>1, <1>3, <2>1, IdleKeeps DEF Passive, RefInv, Inv, TypeOK
    <2>6. Mode(c) = "write" /\ Mode(c)' = "write"
      BY <1>1, <2>2 DEF Mode
    <2>7. Local(c)'
      <3>1. Replays(c)' /\ Fresh(c)' /\ Hands(c)'
        BY <2>2, <2>6 DEF Replays, Fresh, Hands
      <3>2. success'[c]
        BY <1>1, Zenon
      <3>3. Prepares(c)'
        BY <1>1, <1>3, <2>2, <3>2 DEF Prepares
      <3> QED BY <3>1, <3>3 DEF Local
    <2>8. Shared'
      BY <1>1, <1>3, <2>1, <2>2 DEF RefInv, Inv, TypeOK, Shared, LogAlone, BuiltAlone, Started, Constructing
    <2>9. ViewsCurrent'
      BY <1>3, <2>4 DEF ViewsCurrent, RefInv
    <2> QED BY <1>1, <1>3, <2>4, <2>5, <2>6, <2>7, <2>8, <2>9, Stutters, SizeWalInv DEF RefInv
  <1> QED BY <1>2, <1>3 DEF SizeWal, Goto

(* The log is filled: it holds the commit, and counts for nothing yet.      *)
LEMMA FillWalRefines ==
  ASSUME Recoverable, RefInv, NEW c \in Conn, FillWal(c)
  PROVE  RefInv' /\ [Abstract!Next]_(Abstract!vars)
  <1>1. /\ pc[c] = "fill" /\ success[c] /\ Header \in dirty[c] /\ after[c] \in {"commit", "close"}
        /\ wal' = [state |-> "invalid", pages |-> dirty[c], tx |-> NextTx(c)]
        /\ pc' = [pc EXCEPT ![c] = "activate"]
        /\ UNCHANGED <<file, lock, after, view, dirty, job, success, ready, fault>>
    BY DEF FillWal, Goto, RefInv, Local, Prepares
  <1>2. /\ \A d \in Conn \ {c} : pc[d] = "closed"
        /\ wal.state # "valid" /\ \A p \in Page : Content[p] = file[p]
    BY <1>1, Lonely, ReadsFile DEF Passive
  <1>3. pc'[c] = "activate" /\ wal'.state = "invalid" /\ NextTx(c)' = NextTx(c)
    BY <1>1 DEF RefInv, Inv, TypeOK, NextTx
  <1>4. \A p \in Page : Content'[p] = file'[p]
    <2>1. \A d \in Conn : pc'[d] # "direct"
      BY <1>1, <1>2, <1>3 DEF RefInv, Inv, TypeOK
    <2> QED BY <1>3, <2>1, ContentFileNext
  <1>5. Content' = Content
    BY <1>1, <1>2, <1>4 DEF Content
  <1>6. \A d \in Conn \ {c} : Local(d)' /\ Mode(d)' = Mode(d)
    BY <1>1, <1>2, IdleKeeps DEF Passive, RefInv, Inv, TypeOK
  <1>7. Mode(c) = "write" /\ Mode(c)' = "write"
    BY <1>1, <1>3 DEF Mode
  <1>8. Local(c)'
    <2>1. Replays(c)' /\ Fresh(c)' /\ Hands(c)'
      BY <1>3, <1>7 DEF Replays, Fresh, Hands
    <2>2. success'[c]
      BY <1>1, Zenon
    <2>3. Prepares(c)'
      BY <1>1, <1>3, <2>2 DEF Prepares
    <2> QED BY <2>1, <2>3 DEF Local
  <1>9. Shared'
    BY <1>1, <1>2, <1>3 DEF RefInv, Inv, TypeOK, Shared, LogAlone, BuiltAlone, Started, Constructing
  <1>10. ViewsCurrent'
    BY <1>1, <1>5 DEF ViewsCurrent, RefInv
  <1> QED BY <1>1, <1>5, <1>6, <1>7, <1>8, <1>9, <1>10, Stutters, FillWalInv DEF RefInv

(* The commit point: the log becomes valid.                                 *)
LEMMA ActivateWalRefines ==
  ASSUME Recoverable, RefInv, NEW c \in Conn, ActivateWal(c)
  PROVE  RefInv' /\ [Abstract!Next]_(Abstract!vars)
  <1>1. /\ pc[c] = "activate" /\ success[c] /\ Header \in dirty[c] /\ after[c] \in {"commit", "close"}
        /\ wal = [state |-> "invalid", pages |-> dirty[c], tx |-> NextTx(c)]
        /\ wal' = [wal EXCEPT !.state = "valid"] /\ HandOver(c, dirty[c] \cup {Header}, "apply")
        /\ UNCHANGED <<file, lock, after, success, ready, fault>>
    <2>1. dirty[c] = dirty[c] \cup {Header} /\ pc[c] = "activate"
      BY DEF ActivateWal, RefInv, Local, Prepares
    <2> QED BY <2>1 DEF ActivateWal, RefInv, Local, Prepares
  <1>2. /\ \A d \in Conn \ {c} : pc[d] = "closed"
        /\ wal.state # "valid" /\ \A p \in Page : Content[p] = file[p]
    BY <1>1, Lonely, ReadsFile DEF Passive
  <1>3. /\ pc' = [pc EXCEPT ![c] = "apply"] /\ pc'[c] = "apply"
        /\ job'[c] = [pages |-> dirty[c] \cup {Header}, tx |-> NextTx(c)]
    BY <1>1 DEF HandOver, Goto, RefInv, Inv, TypeOK
  <1>4. wal'.state = "valid" /\ wal'.tx = NextTx(c) /\ wal'.pages = dirty[c] \cup {Header}
    BY <1>1
  <1>5. ASSUME NEW p \in Page
        PROVE  Content'[p] = IF p \in dirty[c] \cup {Header} THEN NextTx(c) ELSE Content[p]
    <2>1. Pending(p)' = {}
      BY <1>2, <1>3 DEF Pending, RefInv, Inv, TypeOK
    <2> QED BY <1>1, <1>2, <1>4, <2>1 DEF Content
  <1>6. /\ Abstract!Commit(c) /\ ViewsCurrent'
        /\ Fresh(c)' /\ Prepares(c)' /\ Hands(c)' /\ \A d \in Conn \ {c} : Local(d)'
    BY <1>1, <1>5, Commits
  <1>7. Shared'
    BY <1>1, <1>2, <1>3 DEF RefInv, Inv, TypeOK, Shared, LogAlone, BuiltAlone, Started, Constructing
  <1>8. Local(c)'
    BY <1>3, <1>4, <1>6 DEF Local, Replays
  <1> QED BY <1>6, <1>7, <1>8, ActivateWalInv DEF RefInv, Abstract!Next

(* A page is copied into the file: what was committed stays the same.       *)
LEMMA CopyPageRefines ==
  ASSUME Recoverable, RefInv, NEW c \in Conn, CopyPage(c)
  PROVE  RefInv' /\ [Abstract!Next]_(Abstract!vars)
  <1>1. /\ pc[c] \in {"apply", "direct"}
        /\ UNCHANGED <<wal, lock, pc, after, view, dirty, success, ready, fault>>
    BY DEF CopyPage
  <1>2. PICK p \in job[c].pages : /\ file' = [file EXCEPT ![p] = job[c].tx]
                                  /\ job'  = [job EXCEPT ![c].pages = @ \ {p}]
    BY DEF CopyPage
  <1>3. /\ p \in Page /\ file'[p] = job[c].tx /\ \A r \in Page \ {p} : file'[r] = file[r]
        /\ job'[c].pages = job[c].pages \ {p} /\ job'[c].tx = job[c].tx
        /\ \A d \in Conn \ {c} : job'[d] = job[d]
    BY <1>2 DEF RefInv, Inv, TypeOK
  <1>4. \A d \in Conn \ {c} : pc[d] = "closed"
    BY <1>1, Lonely DEF Passive
  <1>5. Mode(c)' = Mode(c)
    BY <1>1 DEF Mode
  <1>6. \A d \in Conn \ {c} : Local(d)' /\ Mode(d)' = Mode(d)
    BY <1>1, <1>3, <1>4, IdleKeeps DEF Passive, RefInv
  <1>7. ASSUME NEW r \in Page PROVE Content'[r] = Content[r]
    <2>1. CASE pc[c] = "apply"
      <3>1. /\ wal.state = "valid" /\ job[c].tx = wal.tx /\ job[c].pages \subseteq wal.pages
        BY <2>1 DEF RefInv, Local, Replays
      <3>2. Pending(r)' = {}
        BY <1>1, <1>4, <2>1 DEF Pending
      <3>3. Content[r] = IF r \in wal.pages THEN wal.tx ELSE file[r]
        BY <1>4, <2>1, <3>1, ContentValid
      <3> QED BY <1>1, <1>3, <3>1, <3>2, <3>3 DEF Content
    <2>2. CASE pc[c] = "direct"
      <3>1. wal.state # "valid"
        BY <2>2 DEF RefInv, Shared, LogAlone
      <3>2. Content[r] = IF r \in job[c].pages THEN job[c].tx ELSE file[r]
        BY <1>4, <2>2, <3>1, ContentDirect
      <3>3. Pending(r)' = IF r \in job[c].pages \ {p} THEN {c} ELSE {}
        BY <1>1, <1>3, <1>4, <2>2 DEF Pending
      <3>4. CASE r \in job[c].pages \ {p}
        BY <1>1, <1>3, <3>1, <3>2, <3>3, <3>4 DEF Content
      <3>5. CASE r \notin job[c].pages \ {p}
        BY <1>1, <1>3, <3>1, <3>2, <3>3, <3>5 DEF Content
      <3> QED BY <3>4, <3>5
    <2> QED BY <1>1, <2>1, <2>2
  <1>8. Content' = Content
    BY <1>7 DEF Content
  <1>9. Local(c)'
    <2>1. Replays(c)'
      BY <1>1, <1>3 DEF RefInv, Inv, TypeOK, Local, Replays
    <2>2. Fresh(c)'
      BY <1>1, <1>5, Zenon DEF RefInv, Local, Fresh
    <2>3. Prepares(c)'
      BY <1>1 DEF RefInv, Local, Prepares
    <2>4. Hands(c)'
      BY <1>1, <1>3, Zenon DEF RefInv, Local, Hands
    <2> QED BY <2>1, <2>2, <2>3, <2>4 DEF Local
  <1>10. Shared'
    BY <1>1 DEF RefInv, Shared, LogAlone, BuiltAlone, Started, Constructing
  <1>11. ViewsCurrent'
    BY <1>1, <1>8 DEF ViewsCurrent, RefInv
  <1> QED BY <1>1, <1>5, <1>6, <1>8, <1>9, <1>10, <1>11, CopyPageInv, Stutters DEF RefInv

(* All pages are in the file, and the log, if there was one, is removed.    *)
LEMMA CopyEnds ==
  ASSUME RefInv, NEW c \in Conn, CopyDone(c), RemoveWal(c),
         pc'[c] \in {"closed", "write"}, \A d \in Conn \ {c} : pc'[d] = pc[d], file' = file
  PROVE  /\ Content' = Content /\ wal'.state # "valid" /\ \A d \in Conn \ {c} : pc[d] = "closed"
  <1>1. CASE pc[c] = "apply"
    BY <1>1, ReplayEnds DEF CopyDone, NoWal
  <1>2. CASE pc[c] = "direct"
    <2>1. wal.state # "valid" /\ wal' = wal
      BY <1>2 DEF RefInv, Shared, LogAlone, RemoveWal
    <2>2. \A d \in Conn \ {c} : pc[d] = "closed"
      BY <1>2, Lonely DEF Passive
    <2>3. ASSUME NEW p \in Page PROVE Content'[p] = Content[p]
      BY <1>2, <2>1, <2>2, ContentDirect, ContentFileNext DEF CopyDone
    <2>4. Content' = Content
      BY <2>3 DEF Content
    <2> QED BY <2>1, <2>2, <2>4
  <1> QED BY <1>1, <1>2 DEF CopyDone

(* A commit ends, and the transaction goes on, maybe with its header marked.*)
LEMMA CommitDoneRefines ==
  ASSUME Recoverable, RefInv, NEW c \in Conn, CommitDone(c)
  PROVE  RefInv' /\ [Abstract!Next]_(Abstract!vars)
  <1>1. /\ pc[c] \in {"apply", "direct"} /\ after[c] = "commit" /\ CopyDone(c) /\ RemoveWal(c)
        /\ UNCHANGED <<file, lock, after, view, job, success, ready, fault>>
        /\ pc' = [pc EXCEPT ![c] = "write"]
    BY DEF CommitDone, CopyDone, Goto
  <1>2. PICK again \in {{}, {Header}} : dirty' = [dirty EXCEPT ![c] = again]
    BY DEF CommitDone
  <1>3. pc'[c] = "write" /\ \A d \in Conn \ {c} : pc'[d] = pc[d] /\ dirty'[d] = dirty[d]
    BY <1>1, <1>2 DEF RefInv, Inv, TypeOK
  <1>4. Content' = Content /\ wal'.state # "valid" /\ \A d \in Conn \ {c} : pc[d] = "closed"
    BY <1>1, <1>3, CopyEnds
  <1>5. \A d \in Conn \ {c} : Local(d)' /\ Mode(d)' = Mode(d)
    BY <1>1, <1>3, <1>4, IdleKeeps DEF Passive, RefInv
  <1>6. Mode(c) = "write" /\ Mode(c)' = "write"
    BY <1>1, <1>3 DEF Mode
  <1>7. Local(c)'
    BY <1>3, <1>6 DEF Local, Replays, Fresh, Prepares, Hands
  <1>8. Shared'
    BY <1>1, <1>3, <1>4 DEF RefInv, Shared, LogAlone, BuiltAlone, Started, Constructing
  <1>9. ViewsCurrent'
    BY <1>1, <1>4 DEF ViewsCurrent, RefInv
  <1>10. RefInv'
    BY <1>5, <1>7, <1>8, <1>9, CommitDoneInv DEF RefInv
  <1>11. dirty[c] = {} /\ dirty \in [Conn -> SUBSET Page]
    BY <1>1 DEF RefInv, Inv, TypeOK, CacheInv, ChangesInside
  <1>12. CASE again = {}
    <2>1. dirty' = dirty
      BY <1>2, <1>11, <1>12
    <2> QED BY <1>1, <1>4, <1>5, <1>6, <1>10, <2>1, Stutters
  <1>13. CASE again = {Header}
    <2>1. Header \in Page /\ view[c][Header] = Content[Header]
      BY <1>1, Parameters DEF RefInv, Inv, TypeOK, Local, Hands, Nothing, ViewsCurrent, Header, CacheInv,
         HeaderCached
    <2>2. view' = [view EXCEPT ![c][Header] = Content[Header]]
      BY <1>1, <2>1 DEF RefInv, Inv, TypeOK
    <2>3. dirty' = [dirty EXCEPT ![c] = @ \cup {Header}]
      BY <1>2, <1>11, <1>13
    <2>4. Abstract!Write(c, Header)
      BY <1>1, <1>4, <1>5, <1>6, <2>2, <2>3 DEF Abstract!Write
    <2> QED BY <1>10, <2>1, <2>4 DEF Abstract!Next
  <1> QED BY <1>12, <1>13

(* A commit ends, and with it its transaction.                              *)
LEMMA CloseDoneRefines ==
  ASSUME Recoverable, RefInv, NEW c \in Conn, CloseDone(c)
  PROVE  RefInv' /\ [Abstract!Next]_(Abstract!vars)
  <1>1. /\ pc[c] \in {"apply", "direct"} /\ after[c] = "close" /\ CopyDone(c) /\ RemoveWal(c)
        /\ Leave(c) /\ UNCHANGED <<file, after, job, ready, fault>>
    BY DEF CloseDone, CopyDone
  <1>2. pc' = [pc EXCEPT ![c] = "closed"] /\ pc'[c] = "closed"
    BY <1>1 DEF Leave, Goto, RefInv, Inv, TypeOK
  <1>3. Content' = Content /\ wal'.state # "valid" /\ \A d \in Conn \ {c} : pc[d] = "closed"
    BY <1>1, <1>2, CopyEnds DEF RefInv, Inv, TypeOK
  <1>4. \A d \in Conn \ {c} : Local(d)' /\ Mode(d)' = Mode(d)
    BY <1>1, <1>2, <1>3, IdleKeeps DEF Passive, RefInv, Inv, TypeOK, Leave
  <1>5. Mode(c) # "closed" /\ dirty[c] = {}
    BY <1>1 DEF Mode, RefInv, Inv, CacheInv, ChangesInside
  <1>6. Abstract!Close(c) /\ ViewsCurrent' /\ Local(c)'
    BY <1>1, <1>3, <1>4, <1>5, Leaves
  <1>7. Shared'
    BY <1>1, <1>2, <1>3 DEF RefInv, Inv, TypeOK, Shared, LogAlone, BuiltAlone, Started, Constructing
  <1> QED BY <1>4, <1>6, <1>7, CloseDoneInv DEF RefInv, Abstract!Next

(* A process ends that copies nothing into the file without a log: to       *)
(* AtomicStorage its transactions are closed at once.                       *)
LEMMA GoneRefines ==
  ASSUME RefInv, NEW q \in Process, Gone(q), UNCHANGED <<file, wal, after>>, fault' \in BOOLEAN,
         \A c \in Conn : Home[c] = q => pc[c] # "direct"
  PROVE  RefInv' /\ [Abstract!Next]_(Abstract!vars)
  <1> DEFINE S == {c \in Conn : Home[c] = q}
  <1>1. ASSUME NEW d \in S
        PROVE  /\ pc'[d] = "closed" /\ view'[d] = Nothing /\ dirty'[d] = {} /\ Mode(d)' = "closed"
               /\ lock'[d] = "none"
    BY DEF Gone, Mode
  <1>2. \A d \in S : success'[d]
    BY Zenon DEF Gone
  <1>3. ASSUME NEW d \in Conn \ S
        PROVE  /\ pc'[d] = pc[d] /\ view'[d] = view[d] /\ dirty'[d] = dirty[d] /\ job'[d] = job[d]
               /\ lock'[d] = lock[d] /\ Mode(d)' = Mode(d)
    BY DEF Gone, Mode
  <1>4. \A d \in Conn \ S : success'[d] = success[d]
    BY Zenon DEF Gone
  <1>5. ready'[q] = FALSE /\ \A o \in Process \ {q} : ready'[o] = ready[o]
    BY DEF Gone, RefInv, Inv, TypeOK
  <1>6. Content' = Content
    <2>1. \A d \in Conn : pc'[d] = "direct" <=> pc[d] = "direct"
      BY <1>1, <1>3
    <2>2. \A d \in Conn : pc[d] = "direct" => job'[d] = job[d]
      BY <1>3
    <2>3. \A d, e \in Conn : pc[d] = "direct" /\ pc[e] = "direct" => d = e
      BY Lonely DEF Passive
    <2> QED BY <2>1, <2>2, <2>3, SameContent
  <1>7. ASSUME NEW d \in Conn PROVE Local(d)'
    <2>1. CASE d \in S
      BY <1>1, <1>2, <2>1 DEF Local, Replays, Fresh, Prepares, Hands
    <2>2. CASE d \notin S
      <3>1. /\ pc'[d] = pc[d] /\ view'[d] = view[d] /\ dirty'[d] = dirty[d] /\ job'[d] = job[d]
            /\ Mode(d)' = Mode(d)
        BY <1>3, <2>2
      <3>2. success'[d] = success[d]
        BY <1>4, <2>2
      <3>3. Local(d)
        BY DEF RefInv
      <3>4. Replays(d)'
        BY <3>1, <3>3 DEF Local, Replays
      <3>5. Fresh(d)'
        BY <3>1, <3>2, <3>3, Zenon DEF Local, Fresh
      <3>6. Prepares(d)'
        <4>1. pc[d] \in {"create", "fill", "activate"} => success'[d] /\ Header \in dirty'[d]
          BY <3>1, <3>2, <3>3, Zenon DEF Local, Prepares
        <4>2. NextTx(d)' = NextTx(d)
          BY <3>1 DEF NextTx
        <4> QED BY <3>1, <3>3, <4>1, <4>2 DEF Local, Prepares
      <3>7. Hands(d)'
        BY <3>1, <3>2, <3>3, Zenon DEF Local, Hands
      <3> QED BY <3>4, <3>5, <3>6, <3>7 DEF Local
    <2> QED BY <2>1, <2>2
  <1>8. Shared'
    <2>1. LogAlone'
      BY <1>1, <1>3 DEF RefInv, Shared, LogAlone
    <2>2. ASSUME NEW c \in Conn, Constructing(c)', pc'[c] = "found" => wal'.state = "valid"
          PROVE  (\A d \in Conn \ {c} : pc'[d] = "closed") /\ \A o \in Process : ~ready'[o]
      <3>1. c \notin S /\ Constructing(c) /\ (pc[c] = "found" => wal.state = "valid")
        BY <1>1, <1>3, <2>2 DEF Constructing
      <3>2. (\A d \in Conn \ {c} : pc[d] = "closed") /\ \A o \in Process : ~ready[o]
        BY <3>1 DEF RefInv, Shared, BuiltAlone
      <3> QED BY <1>1, <1>3, <1>5, <3>2
    <2>3. ASSUME NEW c \in Conn, pc'[c] # "closed"
          PROVE  ready'[Home[c]] \/ Constructing(c)'
      <3>1. c \notin S /\ Home[c] \in Process \ {q} /\ pc[c] # "closed"
        BY <1>1, <1>3, <2>3, Parameters
      <3>2. ready[Home[c]] \/ Constructing(c)
        BY <3>1 DEF RefInv, Shared, Started
      <3> QED BY <1>3, <1>5, <3>1, <3>2 DEF Constructing
    <2>4. BuiltAlone'
      BY <2>2 DEF BuiltAlone
    <2>5. Started'
      BY <2>3 DEF Started
    <2> QED BY <2>1, <2>4, <2>5 DEF Shared
  <1>9. ViewsCurrent'
    <2> SUFFICES ASSUME NEW d \in Conn, NEW p \in Page PROVE view'[d][p] \in {Unread, Content'[p]}
      BY DEF ViewsCurrent
    <2>1. CASE d \in S
      BY <1>1, <2>1 DEF Nothing
    <2>2. CASE d \notin S
      BY <1>3, <1>6, <2>2 DEF RefInv, ViewsCurrent
    <2> QED BY <2>1, <2>2
  <1>10. Abstract!Closed(S)
    <2>1. [d \in Conn |-> Mode(d)]' = [d \in Conn |-> IF d \in S THEN "closed" ELSE [e \in Conn |-> Mode(e)][d]]
      BY <1>1, <1>3
    <2>2. view' = [d \in Conn |-> IF d \in S THEN Abstract!Nothing ELSE view[d]]
      BY DEF Gone, Nothing, Abstract!Nothing, Unread, Abstract!Unread
    <2>3. dirty' = [d \in Conn |-> IF d \in S THEN {} ELSE dirty[d]]
      BY DEF Gone
    <2>4. success' = [d \in Conn |-> IF d \in S THEN TRUE ELSE success[d]]
      BY DEF Gone
    <2>5. [d \in Conn |-> ~success'[d]] = [d \in Conn |-> IF d \in S THEN FALSE ELSE ~success[d]]
      BY <2>4 DEF RefInv, Inv, TypeOK
    <2> QED BY <1>6, <2>1, <2>2, <2>3, <2>5 DEF Abstract!Closed
  <1>11. Abstract!Next
    BY <1>10 DEF Abstract!Next, Abstract!Crash
  <1> QED BY <1>7, <1>8, <1>9, <1>11, GoneInv DEF RefInv

(* A process that maps a log of no length has no transaction open.          *)
LEMMA ReplayEmptyRefines ==
  ASSUME Recoverable, RefInv, NEW c \in Conn, ReplayEmpty(c)
  PROVE  RefInv' /\ [Abstract!Next]_(Abstract!vars)
  <1>1. /\ pc[c] = "found" \/ (CanOpen(c) /\ CanOwn(c))
        /\ Gone(Home[c]) /\ fault' \in BOOLEAN /\ UNCHANGED <<file, wal, after>>
    BY DEF ReplayEmpty
  <1>2. ASSUME NEW d \in Conn, pc[d] = "direct"
        PROVE  FALSE
    <2>1. CASE pc[c] = "found"
      BY <1>2, <2>1, Lonely DEF Passive
    <2>2. CASE CanOpen(c) /\ CanOwn(c)
      BY <1>2, <2>2 DEF CanOpen, CanOwn, RefInv, Inv, LockedInside
    <2> QED BY <1>1, <2>1, <2>2
  <1> QED BY <1>1, <1>2, GoneRefines, Parameters

(* A process is killed.                                                     *)
LEMMA CrashRefines ==
  ASSUME Recoverable, RefInv, NEW q \in Process, Crash(q)
  PROVE  RefInv' /\ [Abstract!Next]_(Abstract!vars)
  <1>1. fault' \in BOOLEAN
    BY DEF Crash, RefInv, Inv, TypeOK
  <1> QED BY <1>1, GoneRefines DEF Crash, Recoverable

(* A formatted file is an empty storage.                                    *)
LEMMA InitRefines == Init => RefInv /\ Abstract!Init
  <1> SUFFICES ASSUME Init PROVE RefInv /\ Abstract!Init
    OBVIOUS
  <1>1. \A c \in Conn : pc[c] = "closed" /\ view[c] = Nothing /\ dirty[c] = {} /\ Mode(c) = "closed"
    BY DEF Init, Mode
  <1>2. \A c \in Conn : success[c]
    BY Zenon DEF Init
  <1>3. wal = NoWal /\ file = [p \in Page |-> 0]
    BY DEF Init
  <1>4. Content = [p \in Page |-> 0]
    <2>1. \A p \in Page : Content[p] = file[p]
      BY <1>1, <1>3, ContentFile DEF NoWal
    <2> QED BY <1>3, <2>1 DEF Content
  <1>5. \A c \in Conn : Local(c)
    BY <1>1, <1>2 DEF Local, Replays, Fresh, Prepares, Hands
  <1>6. Shared
    BY <1>1, <1>3 DEF Shared, LogAlone, BuiltAlone, Started, Constructing, NoWal
  <1>7. ViewsCurrent
    BY <1>1 DEF ViewsCurrent, Nothing
  <1>8. [c \in Conn |-> ~success[c]] = [c \in Conn |-> FALSE]
    BY <1>2
  <1>9. [c \in Conn |-> Mode(c)] = [c \in Conn |-> "closed"]
    BY <1>1
  <1>10. Abstract!Init
    BY <1>4, <1>8, <1>9 DEF Abstract!Init, Init, Nothing, Abstract!Nothing, Unread, Abstract!Unread
  <1> QED BY <1>5, <1>6, <1>7, <1>10, InitInv DEF RefInv

(* Every step of the file protocol is one of AtomicStorage, or none.        *)
LEMMA StepRefines ==
  ASSUME Recoverable, RefInv, [Next]_vars
  PROVE  RefInv' /\ [Abstract!Next]_(Abstract!vars)
  <1>1. CASE UNCHANGED vars
    <2>1. Content' = Content /\ \A c \in Conn : Mode(c)' = Mode(c)
      BY <1>1 DEF vars, Content, Pending, Mode
    <2>2. Inv'
      BY <1>1, StepInv DEF RefInv
    <2>3. Shared'
      BY <1>1 DEF vars, RefInv, Shared, LogAlone, BuiltAlone, Started, Constructing
    <2>4. ViewsCurrent'
      BY <1>1, <2>1 DEF vars, RefInv, ViewsCurrent
    <2>5. ASSUME NEW c \in Conn PROVE Local(c)'
      BY <1>1, <2>1 DEF vars, RefInv, Local, Replays, Fresh, Prepares, Hands, NextTx
    <2> QED BY <1>1, <2>1, <2>2, <2>3, <2>4, <2>5, Stutters DEF vars, RefInv
  <1>2. ASSUME NEW c \in Conn, \/ Construct(c) \/ ConstructFinds(c) \/ ConstructDrops(c)
                               \/ ConstructMaps(c) \/ ConstructLocks(c) \/ ConstructDone(c)
        PROVE  RefInv' /\ [Abstract!Next]_(Abstract!vars)
    BY <1>2, ConstructRefines, ConstructFindsRefines, ConstructDropsRefines, ConstructMapsRefines,
       ConstructLocksRefines, ConstructDoneRefines
  <1>3. ASSUME NEW c \in Conn, OpenRead(c) \/ OpenWrite(c) \/ OpenReplays(c) \/ OpenDone(c) \/ ReplayEmpty(c)
        PROVE  RefInv' /\ [Abstract!Next]_(Abstract!vars)
    BY <1>3, OpenReadRefines, OpenWriteRefines, OpenReplaysRefines, OpenDoneRefines, ReplayEmptyRefines
    DEF Abstract!Next
  <1>4. ASSUME NEW c \in Conn, NEW p \in Page, ReadPage(c, p) \/ EvictPage(c, p) \/ WritePage(c, p)
        PROVE  RefInv' /\ [Abstract!Next]_(Abstract!vars)
    BY <1>4, ReadPageRefines, EvictPageRefines, WritePageRefines
  <1>5. ASSUME NEW c \in Conn, NEW then \in {"commit", "close"}, StartCommit(c, then)
        PROVE  RefInv' /\ [Abstract!Next]_(Abstract!vars)
    BY <1>5, StartCommitRefines
  <1>6. ASSUME NEW c \in Conn, \/ Invalidate(c) \/ Close(c) \/ SizeWal(c) \/ FillWal(c) \/ ActivateWal(c)
                               \/ CopyPage(c) \/ CommitDone(c) \/ CloseDone(c)
        PROVE  RefInv' /\ [Abstract!Next]_(Abstract!vars)
    BY <1>6, InvalidateRefines, CloseRefines, SizeWalRefines, FillWalRefines, ActivateWalRefines,
       CopyPageRefines, CommitDoneRefines, CloseDoneRefines
  <1>7. ASSUME NEW q \in Process, Crash(q)
        PROVE  RefInv' /\ [Abstract!Next]_(Abstract!vars)
    BY <1>7, CrashRefines
  <1> QED BY <1>1, <1>2, <1>3, <1>4, <1>5, <1>6, <1>7 DEF Next

(* Commits are atomic, isolated and survive a crash for any number of       *)
(* processes, transactions, pages and commits, if processes spare a log     *)
(* that a killed one left, transaction objects are used once, and no        *)
(* process dies while it writes without a log: the promise of Transaction   *)
(* and of the write-ahead log of PageCache::clear.                          *)
THEOREM AtomicCorrect == Recoverable /\ Spec => ImplementsAtomicStorage
  <1>1. ASSUME Recoverable PROVE Spec => ImplementsAtomicStorage
    <2>1. RefInv /\ [Next]_vars => RefInv' /\ [Abstract!Next]_(Abstract!vars)
      BY <1>1, StepRefines
    <2> QED BY <2>1, InitRefines, PTL DEF Spec, ImplementsAtomicStorage, Abstract!Spec
  <1> QED BY <1>1

(* The header is the newest page, and what was committed has versions.      *)
NewestHeader == \A p \in Page : Content[p] \in Version /\ Content[p] <= Content[Header]


(* A step of AtomicStorage either commits nothing or makes pages as new as  *)
(* the header.                                                              *)
LEMMA StepIsNewer ==
  ASSUME NewestHeader, TypeOK', [Abstract!Next]_(Abstract!vars)
  PROVE  NewestHeader' /\ \A p \in Page : Content'[p] >= Content[p]
  <1> USE Parameters DEF Header, Version
  <1>1. ASSUME NEW p \in Page PROVE Content'[p] \in Version
    <2>1. CASE Pending(p)' = {}
      BY <2>1 DEF Content, TypeOK
    <2>2. CASE Pending(p)' # {}
      <3>1. (CHOOSE c \in Pending(p)' : TRUE) \in Conn
        BY <2>2 DEF Pending
      <3> QED BY <2>2, <3>1 DEF Content, TypeOK
    <2> QED BY <2>1, <2>2
  <1>2. CASE Content' = Content
    BY <1>2 DEF NewestHeader
  <1>3. CASE \E c \in Conn : Abstract!Commit(c)
    <2>1. PICK S \in SUBSET Page :
            Content' = [p \in Page |-> IF p \in S \cup {Header} THEN Content[Header] + 1 ELSE Content[p]]
      <3>1. PICK c \in Conn : Abstract!Commit(c)
        BY <1>3
      <3>2. Content' = [p \in Page |-> IF p \in (dirty[c] \cap Page) \cup {Header} THEN Content[Header] + 1 ELSE Content[p]]
        BY <3>1 DEF Abstract!Commit, Abstract!Header
      <3> QED BY <3>2
    <2> QED BY <1>1, <2>1 DEF NewestHeader
  <1> QED BY <1>2, <1>3 DEF Abstract!Next, Abstract!vars, Abstract!Crash, Abstract!Closed, Abstract!Open,
      Abstract!Close, Abstract!Invalidate, Abstract!Read, Abstract!Forget, Abstract!Write

(* No page of the storage goes back to an earlier commit, whatever process  *)
(* is killed at whatever step of a commit to a log.                         *)
THEOREM NeverGoesBackCorrect == Recoverable /\ Spec => NeverGoesBack
  <1>1. ASSUME Recoverable PROVE Spec => NeverGoesBack
    <2> DEFINE I == RefInv /\ NewestHeader
    <2>1. Init => I
      <3>1. Init => RefInv /\ Abstract!Init
        BY InitRefines
      <3>2. Abstract!Init => NewestHeader
        BY Parameters DEF Abstract!Init, NewestHeader, Version, Header
      <3> QED BY <3>1, <3>2
    <2>2. I /\ [Next]_vars => I' /\ [\A p \in Page : Content'[p] >= Content[p]]_vars
      <3> SUFFICES ASSUME I, [Next]_vars
                   PROVE  I' /\ \A p \in Page : Content'[p] >= Content[p]
        OBVIOUS
      <3>1. RefInv' /\ [Abstract!Next]_(Abstract!vars)
        BY <1>1, StepRefines
      <3>2. TypeOK'
        BY <3>1 DEF RefInv, Inv
      <3> QED BY <3>1, <3>2, StepIsNewer
    <2> QED BY <2>1, <2>2, PTL DEF Spec, NeverGoesBack
  <1> QED BY <1>1

=============================================================================
