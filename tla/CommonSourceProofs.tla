------------------------- MODULE CommonSourceProofs -------------------------
(* Proofs about CommonSource over its asset, for all requests, versions and *)
(* external assets: whoever holds the asset has a reason to, a load finds   *)
(* its file, an actual source shows the file of the asset, and the version  *)
(* that is shown stays while a page of it is drawn.                         *)
(*                                                                          *)
(* The first rests on one small invariant and no assumption (HolderInv, at  *)
(* the end).  For the others the users ask before they act: to the asset a  *)
(* step of the source is then one more user step (UserStep), so that the    *)
(* invariants of AssetProofs hold here too.  On them rests SourceInv: where *)
(* the requests are (PlacesInv), what the loads have in common (LoadInv),   *)
(* who is called (CallInv), the versions of the file and of the document    *)
(* (ShowInv), a page that is drawn (DrawInv), and a document that is old    *)
(* (OldInv).                                                                *)
EXTENDS CommonSource, AssetProofs

(* What is assumed of the users, beside the functions of the requests: they *)
(* ask the asset before they download or clear, and the source before they  *)
(* draw.                                                                    *)
Discipline == ClearOnly /\ Polite /\ Patient

AssetAll == AssetInv /\ QueuesInv /\ DataInv /\ TempInv /\ VersionInv /\ ClaimsInv

In(s, x)   == \E i \in DOMAIN s : s[i] = x
Once(s, x) == \A i, j \in DOMAIN s : s[i] = x /\ s[j] = x => i = j

(* Where a request is that has the lock: to be done on the texture thread,  *)
(* done there, or, a load, waiting for external assets.                     *)
Message(r) == IF r \in Load THEN Loaded(r) ELSE Drawn(r)
InJobs(r)  == In(jobs, r)
InCalls(r) == In(calls, Message(r))
InWait(r)  == In(waiting, r)

PlacesInv ==
    /\ \A r \in Reader : OnItsWay(r) => Kept(r)
    /\ \A r \in Reader : Once(jobs, r) /\ Once(calls, Message(r)) /\ Once(waiting, r)
    /\ \A r \in Reader : InJobs(r) => ~InCalls(r) /\ ~InWait(r)
    /\ \A r \in Reader : InCalls(r) => ~InWait(r)

(* The loads that are done but for showing their document.                  *)
Showing == {stack[k] : k \in {j \in DOMAIN stack : stack[j].op = "shown"}}

(* As long as a load keeps the lock the file stays, and all loads open and  *)
(* show the version it has.                                                 *)
LoadInv ==
    /\ \A l \in Load : Kept(l) => Exists(file) /\ loaded \in {0, mtime}
    /\ \A l \in Load : InCalls(l) => opened[l] \in {0, mtime}
    /\ \A l \in Load : InWait(l) => opened[l] = mtime
    /\ \A f \in Showing :
           f.request \in Load /\ ~Kept(f.request) /\ opened[f.request] = mtime /\ loaded \in {0, mtime}

(* Nobody waits to read, and a page is called for only while it is wanted.  *)
CallInv ==
    /\ readQueue = <<>>
    /\ \A l \in Load : status[l] # "calling"
    /\ \A d \in Draw : status[d] = "calling" => isActual /\ d \notin drawn

(* The version of the file, of what is loaded and of the document.          *)
ShowInv ==
    /\ Exists(file) /\ Moving = {} => file[2] = mtime
    /\ \A w \in Swap : Back(w) => Exists(file) /\ file[2] = version[w]
    /\ loaded <= mtime /\ document <= mtime
    /\ document # 0 /\ ~loading /\ Showing = {} /\ loaded # 0 => document = loaded

(* A page is drawn of the version that every load would show, or of one     *)
(* whose file is gone, and then nothing is loaded.                          *)
DrawInv ==
    \A d \in Draw : Holding(d) => document = mtime \/ (~Exists(file) /\ Showing = {})

(* A document that is older than its file is not one that the asset says is *)
(* not up to date; nothing is shown before the source hears of its asset.   *)
OldInv ==
    /\ document \notin {0, mtime} /\ fileExisted /\ Moving = {} => ~unupdated /\ ~downloadInProgress
    /\ \A i \in DOMAIN calls : calls[i].what = "opened" => document \in {0, mtime}
    /\ ~attached => document = 0 /\ Showing = {} /\ \A r \in Reader : ~Holding(r)

SourceInv ==
    /\ SourceTypeOK /\ PlacesInv /\ LoadInv /\ CallInv
    /\ ShowInv /\ DrawInv /\ OldInv

(* The places of a request, by name.                                        *)
LEMMA Places == \A r : OnItsWay(r) <=> InJobs(r) \/ InCalls(r) \/ InWait(r)
  BY DEF OnItsWay, InJobs, InCalls, InWait, In, Message

LEMMA PlacesNext == \A r : OnItsWay(r)' <=> InJobs(r)' \/ InCalls(r)' \/ InWait(r)'
  BY DEF OnItsWay, InJobs, InCalls, InWait, In, Message

-----------------------------------------------------------------------------
(* The asset in the hands of a source.                                      *)

(* What a step of the source does with the lock, the functions of the main  *)
(* thread and the download.                                                 *)
SourceLock ==
    \/ UNCHANGED lockVars
    \/ \E r \in Reader : Retain(r) \/ TryRead(r) \/ Calls(r)
    \/ \E r \in Reader, rest \in Afterwards : rest # <<OnFile>> /\ Releases(r, rest)
    \/ PopsFile

Messages == [what : {"loaded", "drawn"}, request : Request]

UserStep ==
    /\ SourceLock
    /\ \/ UNCHANGED calls
       \/ \E what \in {"loaded", "drawn"} : Dequeue(what)
       \/ \E c \in Messages : Post(c)
    /\ \/ UNCHANGED <<flags, download, saves>>
       \/ ~downloadInProgress /\ ~waitFileSwap /\ StartDownload
    /\ UNCHANGED <<server, disk, work, version, kills>>

(* A step of the source on the lock is one of the lock's moves, and none of *)
(* a file that is put in place.                                             *)
LEMMA SourceLockMove ==
    ASSUME AssetParameters, SourceLock
    PROVE  LockMove /\ Aside
  <1>1. \A r \in Reader : r \in Request /\ r \notin Swap
    BY DEF AssetParameters, Reader, Writer
  <1>2. CASE UNCHANGED lockVars
    BY <1>2 DEF LockMove, Aside
  <1>3. CASE \E r \in Reader : Retain(r) \/ TryRead(r) \/ Calls(r)
    BY <1>1, <1>3 DEF LockMove, Aside, Asks
  <1>4. CASE \E r \in Reader, rest \in Afterwards : rest # <<OnFile>> /\ Releases(r, rest)
    BY <1>1, <1>4 DEF LockMove, Aside
  <1>5. CASE PopsFile
    BY <1>5 DEF LockMove, Aside
  <1> QED BY <1>2, <1>3, <1>4, <1>5 DEF SourceLock

(* The two kinds of calls that the source posts to the main thread.         *)
LEMMA MessagesMade ==
    /\ \A c \in Messages : c \in Called /\ c.what \in {"loaded", "drawn"}
    /\ \A r \in Request : Loaded(r) \in Messages /\ Drawn(r) \in Messages
    /\ \A r : /\ Loaded(r).what = "loaded" /\ Drawn(r).what = "drawn"
              /\ Loaded(r).request = r /\ Drawn(r).request = r
  BY DEF Messages, Called, Loaded, Drawn

(* The calls after a user step.                                             *)
LEMMA UserCalls ==
    ASSUME AssetInv, UserStep
    PROVE  /\ QuietStep /\ Moving' = Moving
           /\ calls' \in Seq(Called)
           /\ \/ UNCHANGED calls
              \/ \E what : what # "swapped" /\ Dequeue(what)
              \/ \E c \in Called : c.what \notin {"completed", "swapped"} /\ Post(c)
  <1>0. Types /\ calls \in Seq(Called)
    BY DEF AssetInv, Types, ThreadsOK
  <1>1. \/ UNCHANGED calls
        \/ \E what : what # "swapped" /\ Dequeue(what)
        \/ \E c \in Called : c.what \notin {"completed", "swapped"} /\ Post(c)
    BY MessagesMade DEF UserStep
  <1>2. UNCHANGED work
    BY DEF UserStep
  <1>3. QuietStep
    BY <1>1, <1>2 DEF QuietStep, Dequeue, Post
  <1>4. calls' \in Seq(Called)
    BY <1>0, <1>3, Appended DEF QuietStep
  <1>5. Moving' = Moving
    BY <1>0, <1>1, <1>2, SameMoving
  <1> QED BY <1>1, <1>3, <1>4, <1>5

(* The types of the asset hold after a step of the source.                  *)
LEMMA UserTypes ==
    ASSUME AssetParameters, AssetInv, LockTypeOK', UserStep
    PROVE  Types'
  <1>0. Types /\ calls' \in Seq(Called)
    BY UserCalls DEF AssetInv
  <1>1. CASE UNCHANGED <<flags, download, saves>>
    BY <1>0, <1>1 DEF UserStep, Types, TypeOK, ThreadsOK, disk, flags
  <1>2. CASE StartDownload
    <2>1. mtime \in 0 .. MaxVersion /\ 0 \in 0 .. MaxVersion /\ Row(mtime, TRUE) \in Rows
      BY <1>0, ValuesMade DEF Types, TypeOK
    <2>2. saves' = Append(saves, Row(mtime, TRUE)) /\ saves \in Seq(Rows)
      BY <1>0, <1>2 DEF StartDownload, Save, Types, ThreadsOK
    <2>3. saves' \in Seq(Rows)
      <3> HIDE DEF Rows
      <3> QED BY <2>1, <2>2, Appended
    <2>4. /\ download' \in [state : {"none", "asked", "receiving", "answered"},
                            known : 0 .. MaxVersion, version : 0 .. MaxVersion]
          /\ download'.state = "asked"
      BY <1>2, <2>1 DEF StartDownload, Asked
    <2>5. UNCHANGED <<fileExisted, waitFileSwap, fileUpdate, mtime, server, disk, work, version>>
      BY <1>2 DEF StartDownload, UserStep
    <2>6. downloadInProgress' = TRUE /\ unupdated' = (unupdated \/ ~fileExisted)
      BY <1>2 DEF StartDownload
    <2>7. {fileExisted, unupdated, waitFileSwap, downloadInProgress, fileUpdate}' \subseteq BOOLEAN
      BY <1>0, <2>5, <2>6 DEF Types, TypeOK
    <2> QED BY <1>0, <2>3, <2>4, <2>5, <2>7 DEF Types, TypeOK, ThreadsOK, disk
  <1> QED BY <1>1, <1>2 DEF UserStep

(* What a user step does to the calls of the other threads.                 *)
LEMMA UserPhase ==
    ASSUME AssetInv, PhaseInv, UserStep
    PROVE  /\ \A i, j \in DOMAIN calls' : calls'[i].what = "completed" /\ calls'[j].what = "completed" => i = j
           /\ Answered' <=> Answered
           /\ \A i \in DOMAIN calls' : calls'[i].what = "opened" => i = 1 /\ ~waitFileSwap
  <1>0. Types
    BY DEF AssetInv
  <1>1. CASE UNCHANGED calls
    BY <1>1 DEF PhaseInv, Answered
  <1>2. ASSUME NEW what \in {"loaded", "drawn"}, Dequeue(what)
        PROVE  /\ \A i, j \in DOMAIN calls' : calls'[i].what = "completed" /\ calls'[j].what = "completed" => i = j
               /\ Answered' <=> Answered
               /\ \A i \in DOMAIN calls' : calls'[i].what = "opened" => i = 1 /\ ~waitFileSwap
    <2>1. /\ calls[1].what = what /\ 1 \in DOMAIN calls
          /\ \A i \in DOMAIN calls' : calls'[i] = calls[i + 1] /\ i + 1 \in DOMAIN calls /\ i + 1 # 1 /\ i \in Nat
          /\ \A i \in DOMAIN calls : i = 1 \/ (i - 1 \in DOMAIN calls' /\ calls'[i - 1] = calls[i])
      BY <1>0, <1>2, Dequeued
    <2>2. Answered' <=> Answered
      BY <1>2, <2>1 DEF Answered
    <2>3. \A i \in DOMAIN calls' : calls'[i].what # "opened"
      BY <2>1 DEF PhaseInv
    <2>4. \A i, j \in DOMAIN calls' : calls'[i].what = "completed" /\ calls'[j].what = "completed" => i + 1 = j + 1
      BY <2>1 DEF PhaseInv
    <2> QED BY <2>1, <2>2, <2>3, <2>4
  <1>3. ASSUME NEW c \in Messages, Post(c)
        PROVE  /\ \A i, j \in DOMAIN calls' : calls'[i].what = "completed" /\ calls'[j].what = "completed" => i = j
               /\ Answered' <=> Answered
               /\ \A i \in DOMAIN calls' : calls'[i].what = "opened" => i = 1 /\ ~waitFileSwap
    <2>1. c \in Called /\ c.what \in {"loaded", "drawn"}
      BY MessagesMade
    <2>2. /\ \A i \in DOMAIN calls : i \in DOMAIN calls' /\ calls'[i] = calls[i]
          /\ \A i \in DOMAIN calls' : i \in DOMAIN calls \/ (i = Len(calls) + 1 /\ calls'[i] = c)
      BY <1>0, <1>3, <2>1, Posted
    <2> QED BY <2>1, <2>2 DEF PhaseInv, Answered
  <1> QED BY <1>1, <1>2, <1>3 DEF UserStep

(* So do the phase of the download and the flags of the asset.              *)
LEMMA SourceData ==
    ASSUME LockParameters, AssetParameters, ClearOnly, AssetInv, WritersInv, DataInv, UserStep
    PROVE  DataInv'
  <1>1. (\A w \in Swap : Stays(w)) /\ (FilePending' => FilePending)
    BY SourceLockMove, AsideKeeps DEF UserStep, AssetInv
  <1>2. Moving' = Moving /\ UNCHANGED file
    BY UserCalls DEF UserStep, disk
  <1>3. PhaseInv /\ FlagsInv
    BY DEF DataInv
  <1>4. /\ \A i, j \in DOMAIN calls' : calls'[i].what = "completed" /\ calls'[j].what = "completed" => i = j
        /\ Answered' <=> Answered
        /\ \A i \in DOMAIN calls' : calls'[i].what = "opened" => i = 1 /\ ~waitFileSwap
    BY <1>3, UserPhase
  <1>5. CASE UNCHANGED <<flags, download, saves>>
    <2>1. PhaseInv'
      BY <1>1, <1>3, <1>4, <1>5 DEF PhaseInv, flags
    <2>2. FlagsInv'
      BY <1>1, <1>2, <1>3, <1>5, FlagsSame DEF flags, FlagsInv, Exists
    <2> QED BY <2>1, <2>2 DEF DataInv
  <1>6. CASE ~downloadInProgress /\ ~waitFileSwap /\ StartDownload
    <2>0. UNCHANGED <<waitFileSwap, fileUpdate, fileExisted>> /\ downloadInProgress' = TRUE /\ download'.state = "asked"
      BY <1>6 DEF StartDownload, Asked
    <2>1. ~Answered
      BY <1>3, <1>6 DEF PhaseInv
    <2>2. PhaseInv'
      BY <1>1, <1>3, <1>4, <1>6, <2>0, <2>1 DEF PhaseInv
    <2>3. FlagsInv'
      BY <1>1, <1>2, <1>3, <2>0, FlagsSame DEF FlagsInv, Exists
    <2> QED BY <2>2, <2>3 DEF DataInv
  <1> QED BY <1>5, <1>6 DEF UserStep

(* And no step of the source claims a version that is not there.            *)
LEMMA UserClaims ==
    ASSUME AssetParameters, AssetInv, ClaimsInv, UserStep
    PROVE  ClaimsInv'
  <1>0. Types
    BY DEF AssetInv
  <1>1. UNCHANGED <<server, file, temp, row, mtime, version>>
    BY DEF UserStep, disk, flags, StartDownload
  <1>2. UNCHANGED saves \/ Save(mtime, TRUE)
    BY DEF UserStep, StartDownload
  <1>3. mtime \in Claims /\ row.mtime \in Claims /\ mtime \in 0 .. MaxVersion
    BY <1>0, ClaimsAre DEF Types, TypeOK
  <1>4. \A i \in DOMAIN saves' : saves'[i].mtime \in Claims
    BY <1>0, <1>2, <1>3, RowsKeep
  <1>5. \A w \in Swap : Back(w)' => Back(w)
    BY <1>0, UserCalls, BackKeeps
  <1>6. \A w \in Swap : Back(w)' => version'[w] \in Claims
    BY <1>0, <1>1, <1>5, ClaimsAre
  <1>7. Claims' \subseteq Claims
    BY <1>1, <1>3, <1>4, <1>6, ClaimsKeep
  <1>8. UNCHANGED download \/ download'.state # "receiving"
    <2>1. CASE StartDownload
      <3>1. download'.state = "asked"
        BY <2>1 DEF StartDownload, Asked
      <3> QED BY <3>1
    <2> QED BY <2>1 DEF UserStep
  <1> QED BY <1>1, <1>7, <1>8, ClaimsSame

(* To the asset the source is a user like any other.                        *)
LEMMA UserAsset ==
    ASSUME Discipline, AssetAll, UserStep
    PROVE  AssetAll'
  <1>0. /\ LockParameters /\ AssetParameters /\ ClearOnly /\ AssetInv /\ LockInv /\ Types /\ SwapInv
        /\ CallingInv /\ WritersInv /\ WaitingInv
    BY LockParameters, AssetParameters DEF Discipline, AssetAll, AssetInv, QueuesInv
  <1>1. LockMove /\ Aside
    BY <1>0, SourceLockMove DEF UserStep
  <1>2. LockInv' /\ LockTypeOK'
    BY <1>0, <1>1, LockKept DEF LockInv
  <1>3. Types'
    BY <1>0, <1>2, UserTypes
  <1>4. SwapInv'
    <2>1. \A w \in Moving : status'[w] = "held" /\ ~Leaving(w)'
      <3> SUFFICES ASSUME NEW w \in Moving PROVE status'[w] = "held" /\ ~Leaving(w)'
        OBVIOUS
      <3>1. w \in Swap /\ Kept(w)
        BY <1>0 DEF Moving, SwapInv, Kept
      <3>2. Stays(w)
        BY <1>0, <1>1, <3>1, AsideKeeps
      <3> QED BY <3>1, <3>2 DEF Stays, Kept
    <2> QED BY <1>0, <2>1, UserCalls, QuietInv
  <1>5. AssetInv'
    BY <1>2, <1>3, <1>4 DEF AssetInv
  <1>6. QueuesInv'
    BY <1>0, <1>1, CallingKept, WritersKept, WaitingKept DEF QueuesInv
  <1>7. DataInv'
    BY <1>0, SourceData DEF AssetAll
  <1>8. UNCHANGED <<server, temp, work, version>> /\ (UNCHANGED download \/ download'.state # "receiving")
    <2>1. UNCHANGED <<server, temp, work, version>>
      BY DEF UserStep, disk
    <2>2. CASE UNCHANGED download
      BY <2>1, <2>2
    <2>3. CASE StartDownload
      <3>1. download'.state = "asked"
        BY <2>3 DEF StartDownload, Asked
      <3> QED BY <2>1, <3>1
    <2> QED BY <2>2, <2>3 DEF UserStep
  <1>9. \/ UNCHANGED calls
        \/ \E what : Dequeue(what)
        \/ \E c \in Called : c.what # "completed" /\ Post(c)
    BY <1>0, UserCalls
  <1>10. TempInv'
    BY <1>0, <1>1, <1>8, <1>9, TempAside DEF AssetAll
  <1>11. VersionInv'
    BY <1>0, <1>1, <1>8, <1>9, VersionAside DEF AssetAll
  <1>12. ClaimsInv'
    BY <1>0, UserClaims DEF AssetAll
  <1> QED BY <1>5, <1>6, <1>7, <1>10, <1>11, <1>12 DEF AssetAll

-----------------------------------------------------------------------------
(* Where a value is in a sequence that grows at the end or loses its head.  *)
LEMMA AppendedIn ==
    ASSUME NEW S, NEW s \in Seq(S), NEW x \in S
    PROVE  /\ Append(s, x) \in Seq(S) /\ Append(s, x) # <<>>
           /\ \A y : In(Append(s, x), y) <=> In(s, y) \/ y = x
           /\ \A y : Once(s, y) /\ (y = x => ~In(s, y)) => Once(Append(s, x), y)
  <1> DEFINE t == Append(s, x)
  <1>1. /\ t \in Seq(S) /\ DOMAIN t = 1..Len(s) + 1 /\ DOMAIN s = 1..Len(s) /\ Len(s) \in Nat
        /\ \A i \in 1..Len(s) + 1 : t[i] = IF i = Len(s) + 1 THEN x ELSE s[i]
    BY Appended, Sequence
  <1>2. t # <<>>
    OBVIOUS
  <1>3. \A i \in DOMAIN s : i \in DOMAIN t /\ t[i] = s[i]
    BY <1>1
  <1>4. \A i \in DOMAIN t : (i \in DOMAIN s /\ t[i] = s[i]) \/ (i = Len(s) + 1 /\ t[i] = x)
    BY <1>1
  <1>5. Len(s) + 1 \in DOMAIN t /\ t[Len(s) + 1] = x
    BY <1>1
  <1> HIDE DEF t
  <1>6. \A y : In(t, y) <=> In(s, y) \/ y = x
    BY <1>3, <1>4, <1>5 DEF In
  <1>7. \A y : Once(s, y) /\ (y = x => ~In(s, y)) => Once(t, y)
    BY <1>3, <1>4 DEF In, Once
  <1> QED BY <1>1, <1>2, <1>6, <1>7 DEF t

(* The same when the head leaves.                                           *)
LEMMA TailIn ==
    ASSUME NEW S, NEW s \in Seq(S), s # <<>>
    PROVE  /\ Tail(s) \in Seq(S) /\ Head(s) \in S
           /\ \A y : In(s, y) <=> In(Tail(s), y) \/ y = Head(s)
           /\ \A y : Once(s, y) => Once(Tail(s), y) /\ (y = Head(s) => ~In(Tail(s), y))
  <1> DEFINE t == Tail(s)
  <1>1. /\ t \in Seq(S) /\ DOMAIN t = 1..Len(s) - 1 /\ DOMAIN s = 1..Len(s) /\ Len(s) \in Nat /\ Len(s) > 0
        /\ \A i \in 1..Len(s) - 1 : t[i] = s[i + 1]
        /\ Head(s) = s[1] /\ Head(s) \in S
    OBVIOUS
  <1>2. \A i \in DOMAIN t : i + 1 \in DOMAIN s /\ i + 1 # 1 /\ t[i] = s[i + 1] /\ i \in Nat
    BY <1>1
  <1>3. \A i \in DOMAIN s : i = 1 \/ (i - 1 \in DOMAIN t /\ t[i - 1] = s[i])
    <2> SUFFICES ASSUME NEW i \in DOMAIN s, i # 1 PROVE i - 1 \in DOMAIN t /\ t[i - 1] = s[i]
      OBVIOUS
    <2>1. i - 1 \in 1..Len(s) - 1 /\ (i - 1) + 1 = i
      BY <1>1
    <2> QED BY <1>1, <2>1
  <1>4. 1 \in DOMAIN s
    BY <1>1
  <1>5. Head(s) = s[1] /\ t \in Seq(S) /\ Head(s) \in S
    BY <1>1
  <1> HIDE DEF t
  <1>6. \A y : In(s, y) <=> In(t, y) \/ y = Head(s)
    BY <1>2, <1>3, <1>4, <1>5 DEF In
  <1>7. \A y : Once(s, y) => Once(t, y) /\ (y = Head(s) => ~In(t, y))
    <2> SUFFICES ASSUME NEW y, Once(s, y) PROVE Once(t, y) /\ (y = Head(s) => ~In(t, y))
      OBVIOUS
    <2>1. \A i, j \in DOMAIN t : t[i] = y /\ t[j] = y => i + 1 = j + 1
      BY <1>2 DEF Once
    <2>2. Once(t, y)
      BY <1>2, <2>1 DEF Once
    <2>3. y = Head(s) => ~In(t, y)
      BY <1>2, <1>4, <1>5 DEF Once, In
    <2> QED BY <2>2, <2>3
  <1> QED BY <1>5, <1>6, <1>7 DEF t

-----------------------------------------------------------------------------
(* What a step of the lock leaves to the source: its requests and what its  *)
(* functions are still to do.                                               *)
ReadersKept ==
    /\ \A r \in Reader : /\ Kept(r)' <=> Kept(r)
                         /\ Holding(r)' => Holding(r)
                         /\ status'[r] = "calling" => status[r] = "calling"
    /\ UNCHANGED readQueue
FramesSame == Showing' = Showing
Idling     == Idle => Showing = {} /\ \A r \in Request : ~Leaving(r) /\ (CallingInv => status[r] # "calling")

(* When no callback runs, none is left to do anything.                      *)
LEMMA IdleFrames == Idling
  BY DEF Idling, Idle, Showing, Leaving, Top, CallingInv

(* What comes after a release stays until its turn.                         *)
LEMMA FramesKept ==
    ASSUME LockInv, Inner \/ \E r \in Request : Calls(r)
    PROVE  FramesSame
  <1>0. stack # <<>> /\ stack[1] \in Frames /\ Head(stack) = stack[1] /\ 1 \in DOMAIN stack /\ stack \in Seq(Frames)
    <2>1. stack \in Seq(Frames)
      BY DEF LockInv
    <2>2. stack # <<>>
      BY DEF Inner, ReleaseLock, OnLockFinished, PopsWriter, GrantsReader, Calls, Innermost
    <2>3. Len(stack) > 0 /\ DOMAIN stack = 1..Len(stack) /\ Len(stack) \in Nat
      BY <2>1, <2>2, Sequence
    <2> QED BY <2>1, <2>2, <2>3, Sequence
  <1>1. stack[1].op \notin {"onFile", "shown"}
    BY <1>0 DEF Inner, ReleaseLock, OnLockFinished, PopsWriter, GrantsReader, Calls, Innermost
  <1> DEFINE After(f) == f.op \in {"onFile", "shown"}
             Same == /\ \A k \in DOMAIN stack : After(stack[k]) => \E j \in DOMAIN stack' : stack'[j] = stack[k]
                     /\ \A j \in DOMAIN stack' : After(stack'[j]) => \E k \in DOMAIN stack : stack'[j] = stack[k]
  <1>2. ASSUME stack' = Tail(stack) \/ stack' = <<>> \o Tail(stack) PROVE Same
    <2>1. /\ \A k \in DOMAIN stack' : k + 1 \in DOMAIN stack /\ stack'[k] = stack[k + 1]
          /\ \A k \in DOMAIN stack : k # 1 => k - 1 \in DOMAIN stack' /\ stack'[k - 1] = stack[k]
      BY <1>0, <1>2, PoppedFrames
    <2> QED BY <1>1, <2>1
  <1>3. ASSUME NEW a \in Frames, ~After(a), stack' = <<a>> \o Tail(stack) PROVE Same
    <2>1. /\ stack'[1] = a /\ DOMAIN stack' = DOMAIN stack /\ 1 \in DOMAIN stack
          /\ \A k \in DOMAIN stack : k # 1 => stack'[k] = stack[k]
      BY <1>0, <1>3, ReplacedFrames
    <2> QED BY <1>1, <1>3, <2>1
  <1>4. ASSUME NEW a \in Frames, NEW b \in Frames, ~After(a), ~After(b), stack' = <<a>> \o (<<b>> \o Tail(stack))
        PROVE  Same
    <2>1. /\ stack'[1] = a /\ stack'[2] = b
          /\ \A k \in DOMAIN stack' : k \in {1, 2} \/ (k - 1 \in DOMAIN stack /\ k - 1 # 1 /\ stack'[k] = stack[k - 1])
          /\ \A k \in DOMAIN stack : k # 1 => k + 1 \in DOMAIN stack' /\ stack'[k + 1] = stack[k]
      BY <1>0, <1>4, PushedFrames
    <2> QED BY <1>1, <1>4, <2>1
  <1>5. /\ \A r \in Request : /\ Call(r) \in Frames /\ ~After(Call(r))
                              /\ Release(r) \in Frames /\ ~After(Release(r))
        /\ Finish \in Frames /\ ~After(Finish) /\ PopWriter \in Frames /\ ~After(PopWriter)
        /\ \A i \in Nat \ {0} : Readers(i) \in Frames /\ ~After(Readers(i))
    BY FramesMade
  <1>6. Same
    <2> HIDE DEF Same, After
    <2>1. CASE ReleaseLock
      <3>1. stack' = (IF lockers' = <<>> THEN <<Finish>> ELSE <<>>) \o Tail(stack)
        BY <2>1 DEF ReleaseLock
      <3> QED BY <1>2, <1>3, <1>5, <3>1
    <2>2. CASE OnLockFinished
      <3>1. CASE writeQueue # <<>>
        <4>1. Head(writeQueue) \in Request
          <5>1. writeQueue \in Seq(Writer)
            BY DEF LockInv, LockTypeOK
          <5> QED BY <3>1, <5>1 DEF Writer
        <4>2. stack' = <<Call(Head(writeQueue))>> \o (<<PopWriter>> \o Tail(stack))
          BY <2>2, <3>1 DEF OnLockFinished, Grant
        <4> QED BY <1>4, <1>5, <4>1, <4>2
      <3>2. CASE writeQueue = <<>>
        <4>1. stack' = <<Readers(1)>> \o Tail(stack) \/ stack' = <<>> \o Tail(stack)
          BY <2>2, <3>2 DEF OnLockFinished
        <4> QED BY <1>2, <1>3, <1>5, <4>1
      <3> QED BY <3>1, <3>2
    <2>3. CASE PopsWriter
      BY <1>2, <2>3 DEF PopsWriter
    <2>4. CASE GrantsReader
      <3> DEFINE i == Head(stack).next
      <3>1. i \in Nat \ {0}
        BY <1>0, <2>4, FrameFields DEF GrantsReader, Innermost
      <3>2. CASE i <= Len(readQueue)
        <4>1. readQueue[i] \in Request
          <5>1. readQueue \in Seq(Reader)
            BY DEF LockInv, LockTypeOK
          <5>2. i \in 1..Len(readQueue)
            BY <3>1, <3>2, <5>1
          <5> QED BY <5>1, <5>2, Sequence DEF Reader
        <4>2. stack' = <<Call(readQueue[i])>> \o (<<Readers(i + 1)>> \o Tail(stack))
          BY <2>4, <3>2 DEF GrantsReader, Grant
        <4>3. i + 1 \in Nat \ {0}
          BY <3>1
        <4> HIDE DEF i
        <4> QED BY <1>4, <1>5, <4>1, <4>2, <4>3
      <3>3. CASE ~(i <= Len(readQueue))
        BY <1>2, <2>4, <3>3 DEF GrantsReader
      <3> QED BY <3>2, <3>3
    <2>5. CASE \E r \in Request : Calls(r)
      <3>1. PICK r \in Request : stack' = (IF r \in Brief THEN <<Release(r)>> ELSE <<>>) \o Tail(stack)
        BY <2>5 DEF Calls
      <3> QED BY <1>2, <1>3, <1>5, <3>1
    <2> QED BY <2>1, <2>2, <2>3, <2>4, <2>5 DEF Inner
  <1> QED BY <1>6 DEF Showing, FramesSame

(* The steps inside the lock leave the readers as they are.                 *)
LEMMA InnerReaders ==
    ASSUME LockParameters, AssetParameters, ClearOnly, LockInv, WritersInv, readQueue = <<>>, Inner
    PROVE  ReadersKept
  <1>0. /\ status \in [Request -> {"idle", "queued", "calling", "held", "done"}]
        /\ Reader \subseteq Request /\ writeQueue \in Seq(Swap) /\ \A x \in Swap : x \in Request /\ x \notin Reader
    BY DEF LockInv, LockTypeOK, AssetParameters, Writer, Reader, WritersInv
  <1>1. CASE ReleaseLock
    <2> DEFINE q == stack[1].request
    <2>1. /\ Top("release") /\ status[q] = "held" /\ q \in Request /\ ~Top("release")' /\ UNCHANGED readQueue
          /\ \E s \in {"idle", "done"} : status' = [status EXCEPT ![q] = s]
      BY <1>1, ReleaseEffect
    <2>2. \A r : Leaving(r) <=> r = q
      BY <2>1 DEF Leaving
    <2>3. \A r : ~Leaving(r)'
      BY <2>1 DEF Leaving
    <2> HIDE DEF q
    <2> QED BY <1>0, <2>1, <2>2, <2>3 DEF ReadersKept, Kept, Holding
  <1>2. CASE OnLockFinished
    <2>1. Top("finish") /\ UNCHANGED <<readQueue, writeQueue>>
      BY <1>2, FinishEffect
    <2>2. \A r : ~Leaving(r)
      BY <2>1 DEF Leaving, Top
    <2>3. CASE writeQueue # <<>>
      <3>1. status' = [status EXCEPT ![writeQueue[1]] = "calling"] /\ Top("call")'
        BY <1>2, <2>3, FinishEffect
      <3>2. writeQueue[1] \in Swap
        BY <1>0, <2>3
      <3>3. \A r : ~Leaving(r)'
        BY <3>1 DEF Leaving, Top
      <3>4. \A r \in Reader : status'[r] = status[r]
        BY <1>0, <3>1, <3>2
      <3> QED BY <2>1, <2>2, <3>3, <3>4 DEF ReadersKept, Kept, Holding
    <2>4. CASE writeQueue = <<>>
      <3>1. UNCHANGED status /\ ~Top("release")'
        BY <1>2, <2>4, FinishEffect
      <3> QED BY <2>1, <2>2, <3>1 DEF ReadersKept, Kept, Holding, Leaving
    <2> QED BY <2>3, <2>4
  <1>3. CASE PopsWriter
    <2>1. Top("popWriter") /\ UNCHANGED <<readQueue, status>> /\ ~Top("release")'
      BY <1>3, PopsEffect
    <2> QED BY <2>1 DEF ReadersKept, Kept, Holding, Leaving, Top
  <1>4. CASE GrantsReader
    <2>1. stack[1].next \notin DOMAIN readQueue
      OBVIOUS
    <2>2. Top("readers") /\ readQueue' = <<>> /\ UNCHANGED status /\ ~Top("release")'
      BY <1>4, <2>1, LoopEffect
    <2> QED BY <2>2 DEF ReadersKept, Kept, Holding, Leaving, Top
  <1> QED BY <1>1, <1>2, <1>3, <1>4 DEF Inner

(* So do the requests and the release of a writer.                          *)
LEMMA WriterReaders ==
    ASSUME LockParameters, LockInv, NEW w \in Writer,
           Retain(w) \/ Calls(w) \/ \E rest \in Afterwards : Releases(w, rest)
    PROVE  ReadersKept
  <1>0. /\ status \in [Request -> {"idle", "queued", "calling", "held", "done"}]
        /\ w \in Request /\ w \notin Reader /\ Kind[w] # "Read" /\ Reader \subseteq Request
    BY DEF LockInv, LockTypeOK, Writer, Reader
  <1>1. \A r \in Reader : Stays(r)
    BY <1>0, StaysAsk, StaysCalls, StaysReleases
  <1>2. UNCHANGED readQueue /\ \E s \in {"queued", "calling", "held"} : status' = status \/ status' = [status EXCEPT ![w] = s]
    BY <1>0 DEF Retain, Grant, Enqueue, Calls, Releases
  <1>3. \A r \in Reader : status'[r] = status[r]
    BY <1>0, <1>2
  <1> QED BY <1>1, <1>2, <1>3 DEF ReadersKept, Stays, Holding

(* And whatever leaves the lock alone.                                      *)
LEMMA SameReaders ==
    ASSUME UNCHANGED lockVars
    PROVE  ReadersKept /\ FramesSame
  <1>1. UNCHANGED <<lock, lockers, readQueue, writeQueue, stack, status>>
    BY DEF lockVars
  <1>2. ReadersKept
    BY <1>1 DEF ReadersKept, Kept, Holding, Leaving, Top
  <1>3. FramesSame
    BY <1>1 DEF FramesSame, Showing
  <1> QED BY <1>2, <1>3

(* A callback that is done leaves the readers alone; what was below it on   *)
(* the stack is still to be done.                                           *)
LEMMA PopsReaders ==
    ASSUME LockInv, PopsFile
    PROVE  /\ ReadersKept
           /\ Innermost("onFile") => Showing' = Showing
           /\ Innermost("shown") => Head(stack) \in Showing /\ Showing' \subseteq Showing
  <1>0. /\ stack # <<>> /\ Head(stack) = stack[1] /\ 1 \in DOMAIN stack /\ stack' = Tail(stack)
        /\ stack[1].op \in {"onFile", "shown"}
    <2>1. stack \in Seq(Frames) /\ stack # <<>>
      BY DEF LockInv, PopsFile, Innermost
    <2>2. Len(stack) > 0 /\ DOMAIN stack = 1..Len(stack) /\ Len(stack) \in Nat
      BY <2>1, Sequence
    <2> QED BY <2>1, <2>2, Sequence DEF PopsFile, Innermost
  <1>1. UNCHANGED <<readQueue, status>> /\ ~Top("release")' /\ ~Top("release")
    BY FileEffect
  <1>2. ReadersKept
    BY <1>1 DEF ReadersKept, Kept, Holding, Leaving, Top
  <1>3. /\ \A k \in DOMAIN stack' : k + 1 \in DOMAIN stack /\ k + 1 # 1 /\ stack'[k] = stack[k + 1]
        /\ \A k \in DOMAIN stack : k # 1 => k - 1 \in DOMAIN stack' /\ stack'[k - 1] = stack[k]
    BY <1>0, PoppedFrames
  <1>4. ASSUME Innermost("onFile") PROVE Showing' = Showing
    BY <1>0, <1>3, <1>4 DEF Showing, Innermost
  <1>5. ASSUME Innermost("shown") PROVE Head(stack) \in Showing /\ Showing' \subseteq Showing
    <2>1. stack[1].op = "shown"
      BY <1>0, <1>5 DEF Innermost
    <2>2. Head(stack) \in Showing
      BY <1>0, <2>1 DEF Showing
    <2>3. Showing' \subseteq Showing
      BY <1>3 DEF Showing
    <2> QED BY <2>2, <2>3
  <1> QED BY <1>2, <1>4, <1>5

-----------------------------------------------------------------------------
(* The steps of the asset, as the source sees them.                         *)
AssetStep == (AssetCalls \/ AssetUsers \/ Progress \/ Network \/ AssetThreads \/ Saves) /\ Rest

AssetLock ==
    \/ UNCHANGED lockVars
    \/ \E w \in Swap : Retain(w) \/ Calls(w) \/ Releases(w, <<OnFile>>)
    \/ (lock = "None" /\ Retain(Clear)) \/ Calls(Clear)
    \/ Innermost("onFile") /\ PopsFile
    \/ Inner

AssetLockSteps ==
    \/ UNCHANGED calls
    \/ \E what \in {"opened", "completed", "swapped"} : Dequeue(what)
    \/ \E c \in Called : c.what \in {"completed", "swapped"} /\ Post(c)

ReadHeld == \E r \in Reader : Holding(r)

(* While the lock is read the file stays; the functions of a lock do not    *)
(* change what is known of the versions.                                    *)
AssetEffect ==
    /\ AssetLock /\ AssetLockSteps
    /\ heard' \subseteq heard \cup {"file", "failed", "other"}
    /\ ReadHeld => UNCHANGED <<file, mtime>>
    /\ ~Idle => UNCHANGED <<mtime, unupdated>>

(* What the source sees of the lock when the asset moves it: its own        *)
(* requests and frames stay.                                                *)
LEMMA AssetLockView ==
    ASSUME LockParameters, AssetParameters, ClearOnly, LockInv, WritersInv, readQueue = <<>>, AssetLock
    PROVE  ReadersKept /\ Showing' = Showing
  <1>1. CASE UNCHANGED lockVars
    BY <1>1, SameReaders DEF FramesSame
  <1>2. ASSUME NEW w \in Writer, Retain(w)
        PROVE  ReadersKept /\ Showing' = Showing
    <2>1. w \in Request
      BY DEF Writer
    <2>2. ReadersKept
      BY <1>2, <2>1, WriterReaders
    <2>3. stack = <<>> /\ (UNCHANGED stack \/ (DOMAIN stack' = {1} /\ stack'[1].op = "call"))
      BY <1>2, <2>1, AskEffect
    <2>4. Showing' = Showing
      BY <2>3 DEF Showing
    <2> QED BY <2>2, <2>4
  <1>3. ASSUME NEW w \in Writer, Calls(w)
        PROVE  ReadersKept /\ Showing' = Showing
    BY <1>3, WriterReaders, FramesKept DEF Writer, FramesSame
  <1>4. ASSUME NEW w \in Writer, Releases(w, <<OnFile>>)
        PROVE  ReadersKept /\ Showing' = Showing
    <2>1. ReadersKept
      BY <1>4, WriterReaders, AfterwardsMade
    <2>2. stack' = <<Release(w)>> \o <<OnFile>> /\ stack = <<>>
      BY <1>4 DEF Releases, Idle
    <2>3. DOMAIN stack' = {1, 2} /\ stack'[1] = Release(w) /\ stack'[2] = OnFile
      <3>1. Release(w) \in Frames /\ OnFile \in Frames
        BY FramesMade DEF Writer
      <3> HIDE DEF Frames
      <3>2. stack' \in Seq(Frames) /\ Len(stack') = 2 /\ stack'[1] = Release(w) /\ stack'[2] = OnFile
        BY <2>2, <3>1, Put
      <3> QED BY <3>2
    <2>4. Showing' = Showing
      BY <2>2, <2>3 DEF Showing, Release, OnFile
    <2> QED BY <2>1, <2>4
  <1>5. CASE Innermost("onFile") /\ PopsFile
    BY <1>5, PopsReaders
  <1>6. CASE Inner
    BY <1>6, InnerReaders, FramesKept DEF FramesSame
  <1>7. Clear \in Writer /\ \A w \in Swap : w \in Writer
    BY DEF AssetParameters
  <1> QED BY <1>1, <1>2, <1>3, <1>4, <1>5, <1>6, <1>7 DEF AssetLock

(* Nobody writes beside a reader.                                           *)
LEMMA ReadAlone ==
    ASSUME LockParameters, AssetParameters, AssetInv, ReadHeld
    PROVE  Moving = {} /\ \A w \in Writer : ~Holding(w)
  <1>1. PICK r \in Reader : Holding(r)
    BY DEF ReadHeld
  <1>2. \A w \in Writer : w \in Request /\ Kind[w] = "Write" /\ w # r
    BY LockParameters DEF Writer, Reader, LockParameters
  <1>3. WriterExcludes /\ r \in Request
    BY DEF AssetInv, LockInv, HoldersInv, Reader
  <1>4. \A w \in Writer : ~Holding(w)
    BY <1>1, <1>2, <1>3 DEF WriterExcludes
  <1>5. \A w \in Moving : w \in Writer /\ Holding(w)
    BY DEF AssetInv, SwapInv, Holding, Moving, AssetParameters
  <1> QED BY <1>4, <1>5

(* Messages of the source among the calls.                                  *)
LEMMA MessagesKept ==
    ASSUME Types, AssetLockSteps, NEW r \in Request
    PROVE  (InCalls(r)' <=> InCalls(r)) /\ (Once(calls, Message(r)) => Once(calls, Message(r))')
  <1> DEFINE m == Message(r)
  <1>1. m.what \in {"loaded", "drawn"} /\ m' = m
    BY MessagesMade DEF Message
  <1>2. calls \in Seq(Called)
    BY DEF Types, ThreadsOK
  <1> SUFFICES (In(calls', m) <=> In(calls, m)) /\ (Once(calls, m) => Once(calls', m))
    BY <1>1 DEF InCalls, Once, In
  <1> HIDE DEF m, Called
  <1>3. CASE UNCHANGED calls
    BY <1>3
  <1>4. ASSUME NEW what \in {"opened", "completed", "swapped"}, Dequeue(what)
        PROVE  (In(calls', m) <=> In(calls, m)) /\ (Once(calls, m) => Once(calls', m))
    <2>1. calls # <<>> /\ Head(calls).what = what /\ calls' = Tail(calls)
      BY <1>4 DEF Dequeue
    <2>2. m # Head(calls)
      BY <1>1, <2>1
    <2> QED BY <1>2, <2>1, <2>2, TailIn
  <1>5. ASSUME NEW c \in Called, c.what \in {"completed", "swapped"}, Post(c)
        PROVE  (In(calls', m) <=> In(calls, m)) /\ (Once(calls, m) => Once(calls', m))
    <2>1. calls' = Append(calls, c)
      BY <1>5 DEF Post
    <2>2. m # c
      BY <1>1, <1>5
    <2> QED BY <1>2, <2>1, <2>2, AppendedIn
  <1> QED BY <1>3, <1>4, <1>5 DEF AssetLockSteps

(* What is heard of a step.                                                 *)
LEMMA News ==
    ASSUME NEW news, Hears(news)
    PROVE  heard' \subseteq heard \cup news \cup {"other"}
  BY DEF Hears, LockNews

(* What the source sees of any step of the asset.                           *)
LEMMA AssetEffects ==
    ASSUME Discipline, AssetAll, AssetStep
    PROVE  AssetEffect
  <1>0. /\ LockParameters /\ AssetParameters /\ ClearOnly /\ Polite /\ AssetInv /\ LockInv /\ Types /\ SwapInv /\ FlagsInv
        /\ Clear \in Writer /\ \A w \in Swap : w \in Writer
    BY LockParameters, AssetParameters DEF Discipline, AssetAll, AssetInv, DataInv, AssetParameters
  <1> USE <1>0
  <1>1. CASE OnOpened /\ Hears({})
    <2>1. UNCHANGED <<lockVars, file>> /\ Dequeue("opened") /\ Idle
      BY <1>1 DEF OnOpened, disk, Dequeue
    <2>2. mtime' = mtime
      BY <1>1 DEF OnOpened, StartDownload, flags
    <2> QED BY <1>1, <2>1, <2>2, News DEF AssetEffect, AssetLock, AssetLockSteps
  <1>2. CASE OnCompleted /\ Hears(IF Head(calls).success THEN {"other"} ELSE {"failed"})
    <2>1. Dequeue("completed") /\ Idle /\ UNCHANGED <<file, mtime>>
      BY <1>2 DEF OnCompleted, Dequeue
    <2>2. UNCHANGED lockVars \/ \E w \in Swap : Retain(w)
      BY <1>2 DEF OnCompleted
    <2>3. heard' \subseteq heard \cup {"file", "failed", "other"}
      <3> DEFINE news == IF Head(calls).success THEN {"other"} ELSE {"failed"}
      <3>1. news \in SUBSET {"other", "failed"} /\ Hears(news)
        BY <1>2
      <3> HIDE DEF news
      <3> QED BY <3>1, News
    <2> QED BY <2>1, <2>2, <2>3 DEF AssetEffect, AssetLock, AssetLockSteps
  <1>3. CASE OnFileCalled /\ Hears({"file"})
    <2>1. Innermost("onFile") /\ PopsFile /\ UNCHANGED <<calls, file, mtime, unupdated>>
      BY <1>3 DEF OnFileCalled, PopsFile, disk, threads
    <2> QED BY <1>3, <2>1, News DEF AssetEffect, AssetLock, AssetLockSteps
  <1>4. CASE ClearCalled /\ Hears({"file"})
    <2>1. Calls(Clear) /\ UNCHANGED <<calls, mtime, unupdated>>
      BY <1>4 DEF ClearCalled, threads
    <2>2. Holding(Clear)
      BY <2>1, CallEffect DEF Writer, Holding
    <2>3. ~ReadHeld
      BY <2>2, ReadAlone
    <2> QED BY <1>4, <2>1, <2>3, News DEF AssetEffect, AssetLock, AssetLockSteps
  <1>5. ASSUME NEW w \in Swap, SwapCalled(w), Hears({}) PROVE AssetEffect
    <2>1. Calls(w) /\ UNCHANGED <<calls, mtime, unupdated, file>>
      BY <1>5 DEF SwapCalled, disk
    <2> QED BY <1>5, <2>1, News DEF AssetEffect, AssetLock, AssetLockSteps
  <1>6. ASSUME NEW w \in Swap, OnSwapped(w), Hears({}) PROVE AssetEffect
    <2>1. Dequeue("swapped") /\ Releases(w, <<OnFile>>) /\ UNCHANGED file /\ Idle
      BY <1>6 DEF OnSwapped, disk, Dequeue
    <2>2. Holding(w)
      BY <2>1 DEF Releases, Holding
    <2>3. ~ReadHeld
      BY <2>2, ReadAlone
    <2> QED BY <1>6, <2>1, <2>3, News DEF AssetEffect, AssetLock, AssetLockSteps
  <1>7. CASE (LockStep \/ ClearFile) /\ Hears({})
    <2>1. UNCHANGED <<calls, mtime, unupdated, file>> /\ (Inner \/ (lock = "None" /\ Retain(Clear)))
      BY <1>7 DEF LockStep, ClearFile, Inner, Others, disk, flags, threads
    <2> QED BY <1>7, <2>1, News DEF AssetEffect, AssetLock, AssetLockSteps
  <1>8. CASE CheckFile /\ Hears(IF fileExisted' # fileExisted THEN {"file"} ELSE {})
    <2>1. UNCHANGED <<lockVars, calls, mtime, unupdated, file>> /\ fileExisted' = Exists(file)
      BY <1>8 DEF CheckFile, disk, threads
    <2> DEFINE news == IF fileExisted' # fileExisted THEN {"file"} ELSE {}
    <2>2. news \subseteq {"file"} /\ Hears(news)
      BY <1>8
    <2> HIDE DEF news
    <2> QED BY <2>1, <2>2, News DEF AssetEffect, AssetLock, AssetLockSteps
  <1>9. CASE Progress
    <2>1. UNCHANGED <<lockVars, calls, mtime, unupdated, file>> /\ Hears({"other"})
      BY <1>9 DEF Progress, vars, disk, threads, flags
    <2> QED BY <2>1, News DEF AssetEffect, AssetLock, AssetLockSteps
  <1>10. CASE Network
    <2>1. UNCHANGED <<lockVars, mtime, unupdated, file>> /\ Hears({})
      BY <1>10 DEF Network, Refused, Failed, Responded, Received, Answer, flags
    <2>2. UNCHANGED calls \/ \E c \in Called : c.what = "completed" /\ Post(c)
      <3>1. CASE Responded
        BY <3>1 DEF Responded
      <3>2. CASE Refused \/ Failed \/ Received
        <4>1. /\ \A s, t \in BOOLEAN, v \in 0..MaxVersion :
                     Completed(s, t, v) \in Called /\ Completed(s, t, v).what = "completed"
              /\ 0 \in 0..MaxVersion /\ download.version \in 0..MaxVersion
          BY CalledMade, ValuesMade DEF Completed, Types, ThreadsOK
        <4>2. \E s, t \in BOOLEAN, v \in 0..MaxVersion : Post(Completed(s, t, v))
          BY <3>2, <4>1 DEF Refused, Failed, Received, Answer
        <4> HIDE DEF Called
        <4> QED BY <4>1, <4>2
      <3> QED BY <1>10, <3>1, <3>2 DEF Network
    <2> QED BY <2>1, <2>2, News DEF AssetEffect, AssetLock, AssetLockSteps
  <1>11. CASE AssetThreads
    <2>1. UNCHANGED <<lockVars, mtime, unupdated>> /\ Hears({})
      BY <1>11 DEF AssetThreads, Publish, RemoveOriginal, MoveTemp, flags
    <2>2. UNCHANGED calls \/ \E c \in Called : c.what = "swapped" /\ Post(c)
      <3>1. CASE Publish \/ RemoveOriginal
        BY <3>1 DEF Publish, RemoveOriginal, threads
      <3>2. CASE MoveTemp
        <4>1. Head(work).swap \in Swap
          BY <3>2, StorageMoving
        <4>2. Swapped(Head(work).swap) \in Called /\ Swapped(Head(work).swap).what = "swapped"
          BY <4>1, CalledMade DEF Swapped
        <4>3. Post(Swapped(Head(work).swap))
          BY <3>2 DEF MoveTemp
        <4> HIDE DEF Called
        <4> QED BY <4>2, <4>3
      <3> QED BY <1>11, <3>1, <3>2 DEF AssetThreads
    <2>3. ReadHeld => UNCHANGED file
      <3>1. CASE Publish
        BY <3>1 DEF Publish, disk
      <3>2. CASE RemoveOriginal \/ MoveTemp
        BY <3>2, StorageMoving, ReadAlone
      <3> QED BY <1>11, <3>1, <3>2 DEF AssetThreads
    <2> QED BY <2>1, <2>2, <2>3, News DEF AssetEffect, AssetLock, AssetLockSteps
  <1>12. CASE Saves
    <2>1. UNCHANGED <<lockVars, calls, mtime, unupdated, file>> /\ Hears({})
      BY <1>12 DEF Saves, SaveRow, flags
    <2> QED BY <2>1, News DEF AssetEffect, AssetLock, AssetLockSteps
  <1> QED
    BY <1>1, <1>2, <1>3, <1>4, <1>5, <1>6, <1>7, <1>8, <1>9, <1>10, <1>11, <1>12
    DEF AssetStep, AssetCalls, AssetUsers

(* The parts of the invariant that a step of the asset leaves alone.        *)
LEMMA AssetKeeps ==
    ASSUME Discipline, AssetAll, SourceInv, AssetStep
    PROVE  SourceTypeOK' /\ PlacesInv' /\ LoadInv' /\ CallInv' /\ DrawInv'
  <1>0. /\ LockParameters /\ AssetParameters /\ ClearOnly /\ AssetInv /\ LockInv /\ Types /\ CallingInv /\ WritersInv
        /\ SourceTypeOK /\ PlacesInv /\ LoadInv /\ CallInv /\ DrawInv
        /\ Load \subseteq Reader /\ Draw \subseteq Reader /\ Reader \subseteq Request
    BY LockParameters, AssetParameters, SourceParameters
    DEF Discipline, AssetAll, AssetInv, QueuesInv, SourceInv, SourceParameters, Reader
  <1>1. AssetEffect
    BY <1>0, AssetEffects
  <1>2. /\ UNCHANGED <<attached, enabled, loaded, loading, document, retry, asking, known, waiting>>
        /\ UNCHANGED <<path, jobs, opened, drawn>>
    BY DEF AssetStep, Rest, source, externals, texture
  <1>3. ReadersKept /\ Showing' = Showing
    BY <1>0, <1>1, AssetLockView DEF AssetEffect, CallInv
  <1>4. \A r \in Reader : /\ InCalls(r)' <=> InCalls(r)
                          /\ Once(calls, Message(r)) => Once(calls, Message(r))'
    BY <1>0, <1>1, MessagesKept DEF AssetEffect
  <1>5. \A r : (InJobs(r)' <=> InJobs(r)) /\ (InWait(r)' <=> InWait(r))
    BY <1>2 DEF InJobs, InWait, In
  <1>6. \A r \in Reader : OnItsWay(r)' <=> OnItsWay(r)
    BY <1>4, <1>5, PlacesNext, Places
  <1>7. SourceTypeOK'
    BY <1>0, <1>1, <1>2 DEF SourceTypeOK, AssetEffect
  <1>8. PlacesInv'
    <2>1. \A r \in Reader : OnItsWay(r)' => Kept(r)'
      BY <1>0, <1>3, <1>6 DEF ReadersKept, PlacesInv
    <2>2. \A r \in Reader : Once(jobs, r)' /\ Once(waiting, r)'
      BY <1>0, <1>2 DEF PlacesInv, Once
    <2>3. \A r \in Reader : Once(calls, Message(r))'
      BY <1>0, <1>4 DEF PlacesInv
    <2> QED BY <1>0, <1>4, <1>5, <2>1, <2>2, <2>3 DEF PlacesInv
  <1>9. \A r \in Reader : Kept(r) \/ Holding(r) => UNCHANGED <<file, mtime>>
    BY <1>1 DEF AssetEffect, ReadHeld, Kept, Holding
  <1>10. \A r \in Reader : InCalls(r) \/ InWait(r) => Kept(r)
    BY <1>0, Places DEF PlacesInv
  <1>11. LoadInv'
    <2>1. ASSUME NEW l \in Load, Kept(l)' PROVE Exists(file)' /\ loaded' \in {0, mtime'}
      <3>1. Kept(l)
        BY <1>0, <1>3, <2>1 DEF ReadersKept
      <3> QED BY <1>0, <1>2, <1>9, <3>1 DEF LoadInv, Exists
    <2>2. \A l \in Load : InCalls(l)' => opened'[l] \in {0, mtime'}
      BY <1>0, <1>2, <1>4, <1>9, <1>10 DEF LoadInv
    <2>3. \A l \in Load : InWait(l)' => opened'[l] = mtime'
      BY <1>0, <1>2, <1>5, <1>9, <1>10 DEF LoadInv
    <2>4. ASSUME NEW f \in Showing'
          PROVE  f.request \in Load /\ ~Kept(f.request)' /\ opened'[f.request] = mtime' /\ loaded' \in {0, mtime'}
      <3>1. f \in Showing /\ ~Idle
        BY <1>3, IdleFrames DEF Idling
      <3>2. UNCHANGED mtime
        BY <1>1, <3>1 DEF AssetEffect
      <3> QED BY <1>0, <1>2, <1>3, <3>1, <3>2 DEF LoadInv, ReadersKept
    <2> QED BY <2>1, <2>2, <2>3, <2>4 DEF LoadInv
  <1>12. CallInv'
    <2>1. \A r \in Reader : status'[r] = "calling" => status[r] = "calling" /\ ~Idle
      BY <1>0, <1>3 DEF ReadersKept, CallingInv, Top, Idle
    <2>2. ~Idle => (isActual' <=> isActual)
      BY <1>1, <1>2 DEF AssetEffect, isActual
    <2> QED BY <1>0, <1>2, <1>3, <2>1, <2>2 DEF CallInv, ReadersKept
  <1>13. DrawInv'
    <2> SUFFICES ASSUME NEW d \in Draw, Holding(d)'
                 PROVE  document' = mtime' \/ (~Exists(file)' /\ Showing' = {})
      BY DEF DrawInv
    <2>1. Holding(d)
      BY <1>0, <1>3 DEF ReadersKept
    <2> QED BY <1>0, <1>2, <1>3, <1>9, <2>1 DEF DrawInv, Exists
  <1> QED BY <1>7, <1>8, <1>11, <1>12, <1>13

(* Its own invariants a step of the asset keeps as in Asset.                *)
LEMMA AssetAsset ==
    ASSUME Discipline, AssetAll, AssetStep
    PROVE  AssetAll'
  <1>0. /\ LockParameters /\ AssetParameters /\ ClearOnly /\ Polite
        /\ AssetInv /\ QueuesInv /\ DataInv /\ TempInv /\ VersionInv /\ ClaimsInv
    BY LockParameters, AssetParameters DEF Discipline, AssetAll
  <1>1. [Next]_vars
    BY DEF AssetStep, AssetCalls, AssetUsers, Progress, Network, AssetThreads, Saves, Next
  <1>2. AssetInv'
    BY <1>0, <1>1, NextInv
  <1>3. QueuesInv'
    BY <1>0, <1>1, NextQueues
  <1>4. DataInv'
    BY <1>0, <1>1, NextData
  <1>5. TempInv'
    BY <1>0, <1>1, NextTemp
  <1>6. VersionInv'
    BY <1>0, <1>1, <1>5, NextVersion
  <1>7. ClaimsInv'
    BY <1>0, <1>1, NextClaims
  <1> QED BY <1>2, <1>3, <1>4, <1>5, <1>6, <1>7 DEF AssetAll

(* Steps that leave the file and what is known of it alone.                 *)
Plain ==
    /\ UNCHANGED <<file, mtime>> /\ Moving' = Moving
    /\ \A w \in Swap : Back(w)' => Back(w) /\ version'[w] = version[w]
    /\ fileExisted' # fileExisted => Moving # {}
    /\ UNCHANGED <<unupdated, downloadInProgress>> \/ document \in {0, mtime} \/ downloadInProgress

PlainStep ==
    \/ OnOpened \/ OnCompleted \/ LockStep \/ ClearFile \/ CheckFile \/ OnFileCalled \/ UNCHANGED vars
    \/ Refused \/ Failed \/ Responded \/ Received \/ Publish \/ SaveRow

(* The steps of the asset that put no file in place.                        *)
LEMMA PlainSteps ==
    ASSUME Discipline, AssetAll, OldInv, PlainStep
    PROVE  Plain
  <1>0. /\ LockParameters /\ AssetParameters /\ ClearOnly /\ AssetInv /\ LockInv /\ Types /\ SwapInv
        /\ PhaseInv /\ FlagsInv
    BY LockParameters, AssetParameters DEF Discipline, AssetAll, AssetInv, DataInv
  <1> USE <1>0
  <1> DEFINE Same == /\ UNCHANGED <<file, mtime, version, work>>
                     /\ \/ UNCHANGED calls
                        \/ \E what : what # "swapped" /\ Dequeue(what)
                        \/ \E c \in Called : c.what # "swapped" /\ Post(c)
             Rest1 == /\ UNCHANGED <<file, mtime>> /\ Moving' = Moving
                      /\ \A w \in Swap : Back(w)' => Back(w) /\ version'[w] = version[w]
  <1>1. Same => Rest1
    <2>1. ASSUME Same PROVE Rest1
      <3>1. Moving' = Moving
        BY <2>1, SameMoving
      <3>2. \A w \in Swap : Back(w)' => Back(w)
        BY <2>1, BackKeeps
      <3> QED BY <2>1, <3>1, <3>2
    <2> QED BY <2>1
  <1>4. CASE OnOpened
    <2>1. Dequeue("opened") /\ Idle /\ UNCHANGED <<file, mtime, version, work, fileExisted>>
      BY <1>4 DEF OnOpened, Dequeue, StartDownload, disk, flags
    <2>2. Rest1
      BY <1>1, <2>1
    <2>3. document \in {0, mtime}
      BY <2>1, Dequeued DEF OldInv
    <2> QED BY <2>1, <2>2, <2>3 DEF Plain
  <1>5. CASE OnCompleted
    <2>1. Dequeue("completed") /\ Idle /\ UNCHANGED <<file, mtime, fileExisted, work>>
      BY <1>5 DEF OnCompleted, Dequeue
    <2>2. Moving' = Moving
      BY <2>1, SameMoving
    <2>3. \A w \in Swap : Back(w)' => Back(w)
      BY <2>1, BackKeeps
    <2>4. Answered
      BY <2>1, Dequeued DEF Answered
    <2>5. downloadInProgress /\ ~waitFileSwap
      BY <2>4 DEF PhaseInv
    <2>6. \A w \in Swap : ~Back(w)
      BY <2>5, NotPending DEF Back, Moving
    <2> QED BY <2>1, <2>2, <2>3, <2>5, <2>6 DEF Plain
  <1>7. CASE CheckFile \/ OnFileCalled
    <2>1. /\ UNCHANGED <<file, mtime, version, work, calls, unupdated, downloadInProgress>>
          /\ fileExisted' = Exists(file)
      BY <1>7 DEF CheckFile, OnFileCalled, disk, threads
    <2>2. Rest1
      BY <1>1, <2>1
    <2>4. fileExisted' # fileExisted => Moving # {}
      <3>1. fileExisted \in BOOLEAN /\ Exists(file) \in BOOLEAN
        BY DEF Types, TypeOK, Exists
      <3> QED BY <2>1, <3>1 DEF FlagsInv
    <2> QED BY <2>1, <2>2, <2>4 DEF Plain
  <1>8. CASE LockStep \/ ClearFile \/ UNCHANGED vars
    <2>1. UNCHANGED <<file, mtime, version, work, calls, unupdated, downloadInProgress, fileExisted>>
      BY <1>8 DEF LockStep, ClearFile, Others, vars, disk, threads, flags
    <2>2. Rest1
      BY <1>1, <2>1
    <2> QED BY <2>1, <2>2 DEF Plain
  <1>9. CASE Refused \/ Failed \/ Responded \/ Received
    <2>1. UNCHANGED <<lockVars, file, mtime, version, work, unupdated, downloadInProgress, fileExisted>>
      BY <1>9 DEF Refused, Failed, Responded, Received, Answer, flags
    <2>2. UNCHANGED calls \/ \E c \in Called : c.what = "completed" /\ Post(c)
      <3>1. CASE Responded
        BY <3>1 DEF Responded
      <3>2. CASE Refused \/ Failed \/ Received
        <4>1. /\ \A s, t \in BOOLEAN, v \in 0..MaxVersion :
                     Completed(s, t, v) \in Called /\ Completed(s, t, v).what = "completed"
              /\ 0 \in 0..MaxVersion /\ download.version \in 0..MaxVersion
          BY CalledMade, ValuesMade DEF Completed, Types, ThreadsOK
        <4>2. \E s, t \in BOOLEAN, v \in 0..MaxVersion : Post(Completed(s, t, v))
          BY <3>2, <4>1 DEF Refused, Failed, Received, Answer
        <4> HIDE DEF Called
        <4> QED BY <4>1, <4>2
      <3> QED BY <1>9, <3>1, <3>2
    <2>3. Rest1
      BY <1>1, <2>1, <2>2
    <2> QED BY <2>1, <2>3 DEF Plain
  <1>10. CASE Publish \/ SaveRow
    <2>1. UNCHANGED <<lockVars, file, mtime, version, work, calls, unupdated, downloadInProgress, fileExisted>>
      BY <1>10 DEF Publish, SaveRow, disk, threads, flags
    <2>2. Rest1
      BY <1>1, <2>1
    <2> QED BY <2>1, <2>2 DEF Plain
  <1> QED BY <1>4, <1>5, <1>7, <1>8, <1>9, <1>10 DEF PlainStep

(* An asset that has just been opened, heard of among the calls.            *)
LEMMA OpenedKept ==
    ASSUME Types, AssetLockSteps
    PROVE  \A i \in DOMAIN calls' : calls'[i].what = "opened" => \E j \in DOMAIN calls : calls[j].what = "opened"
  <1>1. CASE UNCHANGED calls
    BY <1>1
  <1>2. CASE \E what \in {"opened", "completed", "swapped"} : Dequeue(what)
    BY <1>2, Dequeued
  <1>3. CASE \E c \in Called : c.what \in {"completed", "swapped"} /\ Post(c)
    BY <1>3, Posted
  <1> QED BY <1>1, <1>2, <1>3 DEF AssetLockSteps

(* What the source knows of the versions, after a step of the asset.        *)
LEMMA AssetNews ==
    ASSUME Discipline, AssetAll, SourceInv, AssetStep
    PROVE  ShowInv' /\ OldInv'
  <1>0. /\ LockParameters /\ AssetParameters /\ ClearOnly /\ AssetInv /\ LockInv /\ Types /\ SwapInv
        /\ WritersInv /\ PhaseInv /\ FlagsInv
        /\ SourceTypeOK /\ CallInv /\ ShowInv /\ OldInv /\ Reader \subseteq Request
        /\ Clear \in Writer /\ Clear \in Request /\ \A w \in Swap : w \in Writer /\ w \in Request
    BY LockParameters, AssetParameters
    DEF Discipline, AssetAll, AssetInv, QueuesInv, DataInv, SourceInv, AssetParameters, Writer, Reader
  <1>1. AssetEffect /\ AssetAll' /\ FlagsInv'
    BY <1>0, AssetEffects, AssetAsset DEF AssetAll, DataInv
  <1>2. UNCHANGED <<attached, enabled, loaded, loading, document>>
    BY DEF AssetStep, Rest, source
  <1>3. ReadersKept /\ Showing' = Showing
    BY <1>0, <1>1, AssetLockView DEF AssetEffect, CallInv
  <1>4. loaded \in Nat /\ document \in Nat /\ mtime \in Nat /\ mtime' \in Nat
    BY <1>0, <1>1 DEF SourceTypeOK, Types, TypeOK, AssetAll, AssetInv, AssetParameters
  <1>5. document' # 0 /\ ~loading' /\ Showing' = {} /\ loaded' # 0 => document' = loaded'
    BY <1>0, <1>2, <1>3 DEF ShowInv
  <1>6. ~attached' => document' = 0 /\ Showing' = {} /\ \A r \in Reader : ~Holding(r)'
    BY <1>0, <1>2, <1>3 DEF OldInv, ReadersKept
  <1>7. UNCHANGED mtime => loaded' <= mtime' /\ document' <= mtime'
    BY <1>0, <1>2 DEF ShowInv
  <1>8. UNCHANGED mtime => \A i \in DOMAIN calls' : calls'[i].what = "opened" => document' \in {0, mtime'}
    BY <1>0, <1>1, <1>2, OpenedKept DEF OldInv, AssetEffect
  <1>9. \A w \in Swap : Back(w) => w \in Moving
    BY DEF Back, Moving
  <1>10. CASE PlainStep
    <2>1. Plain
      BY <1>0, <1>10, PlainSteps
    <2>2. UNCHANGED mtime
      BY <2>1 DEF Plain
    <2>3. /\ Exists(file)' /\ Moving' = {} => file'[2] = mtime'
          /\ \A w \in Swap : Back(w)' => Exists(file)' /\ file'[2] = version'[w]
      BY <1>0, <2>1 DEF Plain, ShowInv, Exists
    <2>4. document' \notin {0, mtime'} /\ fileExisted' /\ Moving' = {} => ~unupdated' /\ ~downloadInProgress'
      BY <1>0, <1>2, <2>1 DEF Plain, OldInv
    <2> QED BY <1>5, <1>6, <1>7, <1>8, <2>2, <2>3, <2>4 DEF ShowInv, OldInv
  <1>11. CASE ClearCalled /\ Hears({"file"})
    <2>1. /\ Calls(Clear) /\ file' = Missing /\ fileExisted' = FALSE
          /\ UNCHANGED <<mtime, version, work, calls, unupdated, downloadInProgress>>
      BY <1>11 DEF ClearCalled, threads
    <2>2. status[Clear] = "calling"
      BY <1>0, <2>1, CallEffect
    <2>3. \A w \in Swap : ~Back(w)
      BY <1>0, <1>9, <2>2, MovingAlone DEF Holding, ClearOnly, AssetParameters
    <2>4. \A w \in Swap : ~Back(w)'
      BY <2>1, <2>3 DEF Back
    <2>5. ~Exists(file)'
      BY <2>1 DEF Exists
    <2> QED BY <1>5, <1>6, <1>7, <1>8, <2>1, <2>4, <2>5 DEF ShowInv, OldInv
  <1>12. ASSUME NEW w \in Swap, SwapCalled(w) PROVE ShowInv' /\ OldInv'
    <2>1. fileUpdate' = TRUE /\ UNCHANGED <<file, mtime, version, calls>>
      BY <1>12 DEF SwapCalled, disk
    <2>2. Moving' # {}
      BY <1>1, <2>1 DEF FlagsInv
    <2>3. \A v \in Swap : Back(v)' <=> Back(v)
      BY <2>1 DEF Back
    <2> QED BY <1>0, <1>5, <1>6, <1>7, <1>8, <2>1, <2>2, <2>3 DEF ShowInv, OldInv, Exists
  <1>13. ASSUME NEW w \in Swap, OnSwapped(w) PROVE ShowInv' /\ OldInv'
    <2>1. /\ Dequeue("swapped") /\ Head(calls).swap = w /\ Releases(w, <<OnFile>>)
          /\ unupdated' = FALSE /\ mtime' = version[w]
          /\ UNCHANGED <<file, version, downloadInProgress>>
      BY <1>13 DEF OnSwapped, disk
    <2>2. /\ 1 \in DOMAIN calls /\ calls[1].what = "swapped" /\ calls[1] = Swapped(w)
          /\ \A i \in DOMAIN calls' : calls'[i] = calls[i + 1] /\ i + 1 \in DOMAIN calls /\ i + 1 # 1
      BY <1>0, <2>1, Dequeued, CalledMade
    <2>3. Back(w)
      BY <2>2 DEF Back
    <2>4. Exists(file) /\ file[2] = version[w]
      BY <1>0, <2>3 DEF ShowInv
    <2>5. \A v \in Swap : ~Back(v)'
      BY <1>0, <2>2 DEF Back, SwapInv, Swapped
    <2>6. mtime <= mtime'
      <3>1. mtime \in Claims /\ ClaimsInv
        BY <1>0, ClaimsAre DEF AssetAll
      <3> QED BY <2>1, <2>4, <3>1 DEF ClaimsInv, Cover
    <2>7. loaded' <= mtime' /\ document' <= mtime'
      BY <1>0, <1>2, <1>4, <2>6 DEF ShowInv
    <2>8. ShowInv'
      BY <1>5, <2>1, <2>4, <2>5, <2>7 DEF ShowInv, Exists
    <2>10. ~downloadInProgress
      <3>1. Kept(w)
        BY <1>0, <1>9, <2>3 DEF SwapInv, Kept
      <3>2. waitFileSwap
        BY <1>0, <3>1 DEF FlagsInv, Active
      <3> QED BY <1>0, <3>2 DEF PhaseInv
    <2>11. \A i \in DOMAIN calls' : calls'[i].what # "opened"
      BY <1>0, <2>2 DEF PhaseInv
    <2> QED BY <1>6, <2>1, <2>8, <2>10, <2>11 DEF OldInv
  <1>14. CASE RemoveOriginal \/ MoveTemp
    <2> DEFINE h == Head(work).swap
    <2>1. Moving = {h} /\ Moving' = {h} /\ h \in Swap /\ work # <<>> /\ Head(work) = work[1] /\ 1 \in DOMAIN work
      BY <1>0, <1>14, StorageMoving
    <2>2. UNCHANGED <<mtime, version>>
      BY <1>14 DEF RemoveOriginal, MoveTemp, flags
    <2>3. \A w \in Swap : ~Back(w)
      BY <1>0, <2>1 DEF Back, SwapInv, Swapped
    <2>4. \A w \in Swap : Back(w)' => Exists(file)' /\ file'[2] = version'[w]
      <3>1. CASE RemoveOriginal
        BY <2>3, <3>1 DEF RemoveOriginal, Back
      <3>2. CASE MoveTemp
        <4>1. Working(h)
          BY <2>1 DEF Working
        <4>2. Complete(temp) /\ version[h] = temp[2]
          BY <2>1, <4>1 DEF AssetAll, TempInv, VersionInv, Ahead
        <4>3. Exists(temp)
          BY <1>0, <4>2, CompleteExists
        <4>4. file' = temp
          BY <3>2, <4>3 DEF MoveTemp
        <4>5. \A w \in Swap : Back(w)' => w = h
          <5>1. \A w \in Swap : Back(w)' => w \in Moving'
            BY DEF Back, Moving
          <5> QED BY <2>1, <5>1
        <4> QED BY <2>2, <4>2, <4>3, <4>4, <4>5 DEF Exists
      <3> QED BY <1>14, <3>1, <3>2
    <2>5. Moving' # {}
      BY <2>1
    <2> HIDE DEF h
    <2> QED BY <1>5, <1>6, <1>7, <1>8, <2>2, <2>4, <2>5 DEF ShowInv, OldInv
  <1>15. \/ PlainStep
         \/ ClearCalled /\ Hears({"file"})
         \/ \E w \in Swap : SwapCalled(w) \/ OnSwapped(w)
         \/ RemoveOriginal \/ MoveTemp
    BY DEF AssetStep, AssetCalls, AssetUsers, Progress, Network, AssetThreads, Saves, PlainStep
  <1> QED BY <1>10, <1>11, <1>12, <1>13, <1>14, <1>15

(* The invariant after every step of the asset.                             *)
LEMMA AssetStepInv ==
    ASSUME Discipline, AssetAll, SourceInv, AssetStep
    PROVE  AssetAll' /\ SourceInv'
  BY AssetAsset, AssetKeeps, AssetNews DEF SourceInv

-----------------------------------------------------------------------------
(* The steps in which the source looks at the asset: attached to it, told   *)
(* to by the user, or at a frame.                                           *)

(* A file that can be read is there, whole, and of the version noted.       *)
LEMMA Readable ==
    ASSUME AssetAll, ShowInv, isReadAvailable
    PROVE  Moving = {} /\ Exists(file) /\ file[2] = mtime
  <1>1. FlagsInv
    BY DEF AssetAll, DataInv
  <1>2. Moving = {}
    BY <1>1 DEF isReadAvailable, FlagsInv
  <1>3. Exists(file)
    BY <1>1, <1>2 DEF isReadAvailable, FlagsInv
  <1> QED BY <1>2, <1>3 DEF ShowInv

Looks ==
    /\ Idle /\ attached'
    /\ UNCHANGED <<document, externals, opened, drawn, server, disk, calls, kills>>
    /\ {enabled', retry'} \subseteq BOOLEAN /\ heard' \subseteq heard \cup {"other"}
    /\ \/ NoDownloadYet
       \/ /\ ~downloadInProgress /\ ~waitFileSwap /\ StartDownload
          /\ isDownloadAvailable \/ ~attached
    /\ \/ UNCHANGED loaded /\ NoLoad
       \/ \E had \in {0, loaded} : TryLoad(had)

(* The four calls in which the source looks whether to load are one kind of *)
(* step.                                                                    *)
LEMMA LooksAt ==
    ASSUME Discipline, AssetAll, SourceInv, Attach \/ Refresh \/ Enable \/ Frame
    PROVE  Looks
  <1>0. SourceTypeOK /\ Polite
    BY DEF Discipline, SourceInv
  <1>1. LockNews \subseteq {"other"}
    BY DEF LockNews
  <1>3. enabled \in BOOLEAN /\ retry \in BOOLEAN
    BY <1>0 DEF SourceTypeOK
  <1> DEFINE Loads == \/ UNCHANGED loaded /\ NoLoad
                      \/ \E had \in {0, loaded} : TryLoad(had)
             Downloads == \/ NoDownloadYet
                          \/ /\ ~downloadInProgress /\ ~waitFileSwap /\ StartDownload
                             /\ isDownloadAvailable \/ ~attached
  <1>4. ASSUME NEW news, OnDocumentAssetUpdated(news), enabled' \in BOOLEAN
        PROVE  /\ Downloads /\ Loads /\ retry' \in BOOLEAN
               /\ UNCHANGED <<document, externals, opened, drawn, server, disk, calls, kills, attached>>
    <2>1. Downloads
      BY <1>4 DEF OnDocumentAssetUpdated, isDownloadAvailable
    <2>2. retry' \in BOOLEAN
      BY <1>3, <1>4 DEF OnDocumentAssetUpdated
    <2>3. UNCHANGED <<document, externals, opened, drawn, server, disk, calls, kills, attached>>
      BY <1>4 DEF OnDocumentAssetUpdated
    <2>4. Loads
      BY <1>4 DEF OnDocumentAssetUpdated
    <2> QED BY <2>1, <2>2, <2>3, <2>4
  <1>5. CASE Attach
    <2>1. /\ Idle /\ ~attached /\ ~waitFileSwap /\ attached' = TRUE /\ heard' = {"other"} /\ TryLoad(0)
          /\ UNCHANGED <<enabled, document, retry, externals, opened, drawn, server, disk, calls, kills>>
          /\ IF enabled /\ ~downloadInProgress THEN StartDownload ELSE NoDownloadYet
      BY <1>0, <1>5 DEF Attach
    <2>3. Loads
      BY <2>1
    <2>4. Downloads
      BY <2>1
    <2> HIDE DEF Loads, Downloads
    <2> QED BY <1>3, <2>1, <2>3, <2>4 DEF Looks, Loads, Downloads
  <1>6. CASE Refresh
    <2>1. /\ Idle /\ attached /\ attached' = attached /\ TryLoad(0) /\ Hears({})
          /\ UNCHANGED <<server, disk, flags, threads, kills, enabled, document, retry, externals, opened, drawn>>
      BY <1>0, <1>6 DEF Refresh, Act, Others
    <2>2. heard' \subseteq heard \cup {"other"}
      BY <2>1, News
    <2>3. Loads
      BY <2>1
    <2>4. Downloads /\ UNCHANGED calls
      BY <2>1 DEF NoDownloadYet, threads
    <2> HIDE DEF Loads, Downloads
    <2> QED BY <1>3, <2>1, <2>2, <2>3, <2>4 DEF Looks, Loads, Downloads
  <1>7. CASE Enable
    <2>1. Idle /\ attached /\ enabled' = TRUE /\ OnDocumentAssetUpdated({"other"}) /\ Hears({})
      BY <1>7 DEF Enable, Act
    <2>2. heard' \subseteq heard \cup {"other"}
      BY <2>1, News
    <2>3. /\ Downloads /\ Loads /\ retry' \in BOOLEAN
          /\ UNCHANGED <<document, externals, opened, drawn, server, disk, calls, kills, attached>>
      BY <1>4, <2>1
    <2> HIDE DEF Loads, Downloads
    <2> QED BY <2>1, <2>2, <2>3 DEF Looks, Loads, Downloads
  <1>8. CASE Frame
    <2>1. Idle /\ attached /\ OnDocumentAssetUpdated(heard) /\ heard' = LockNews /\ UNCHANGED enabled
      BY <1>8 DEF Frame
    <2>2. /\ Downloads /\ Loads /\ retry' \in BOOLEAN
          /\ UNCHANGED <<document, externals, opened, drawn, server, disk, calls, kills, attached>>
      BY <1>3, <1>4, <2>1
    <2> HIDE DEF Loads, Downloads
    <2> QED BY <1>1, <1>3, <2>1, <2>2 DEF Looks, Loads, Downloads
  <1> QED BY <1>5, <1>6, <1>7, <1>8

(* A look starts a load or leaves the lock alone.                           *)
LoadsFile(l) ==
    /\ TryRead(l) /\ jobs' = Append(jobs, l) /\ path' = TRUE /\ loading' = TRUE /\ loaded' = mtime
    /\ isReadAvailable
LoadsNone == UNCHANGED <<lockVars, jobs, path, loading>> /\ loaded' \in {0, loaded}

(* At most one load is begun by it,                                         *)
LEMMA LooksLoad ==
    ASSUME Looks
    PROVE  LoadsNone \/ \E l \in Load : LoadsFile(l)
  <1>1. CASE UNCHANGED loaded /\ NoLoad
    BY <1>1 DEF LoadsNone, NoLoad
  <1>2. ASSUME NEW had \in {0, loaded}, TryLoad(had)
        PROVE  LoadsNone \/ \E l \in Load : LoadsFile(l)
    <2>1. CASE CanLoad(had)
      <3>1. loaded' = mtime /\ StartLoad /\ isReadAvailable
        BY <1>2, <2>1 DEF TryLoad, CanLoad
      <3> QED BY <1>2, <2>1, <3>1 DEF StartLoad, LoadsFile
    <2>2. CASE ~CanLoad(had)
      BY <1>2, <2>2 DEF TryLoad, NoLoad, LoadsNone
    <2> QED BY <2>1, <2>2
  <1> QED BY <1>1, <1>2 DEF Looks

(* to the asset it is a user's step,                                        *)
LEMMA LooksUser ==
    ASSUME Looks
    PROVE  UserStep
  <1>1. SourceLock
    BY LooksLoad, SourceParameters DEF LoadsNone, LoadsFile, SourceLock, SourceParameters
  <1>2. CASE NoDownloadYet
    BY <1>1, <1>2 DEF Looks, NoDownloadYet, UserStep, flags
  <1>3. CASE ~downloadInProgress /\ ~waitFileSwap /\ StartDownload
    BY <1>1, <1>3 DEF Looks, StartDownload, UserStep
  <1> QED BY <1>2, <1>3 DEF Looks

(* An old document is not one that has a download begun for it.             *)
LEMMA LooksOld ==
    ASSUME Discipline, AssetAll, SourceInv, Looks
    PROVE  OldInv'
  <1>0. OldInv /\ Types /\ UNCHANGED <<calls, document>> /\ attached'
    BY DEF SourceInv, AssetAll, AssetInv, Looks
  <1>1. UNCHANGED <<mtime, fileExisted, work>>
    BY DEF Looks, NoDownloadYet, StartDownload, flags
  <1>2. Moving' = Moving
    BY <1>0, <1>1, SameMoving
  <1>3. document' \notin {0, mtime'} /\ fileExisted' /\ Moving' = {} => ~unupdated' /\ ~downloadInProgress'
    <2> SUFFICES ASSUME document \notin {0, mtime}, fileExisted, Moving = {}
                 PROVE  ~unupdated' /\ ~downloadInProgress'
      BY <1>0, <1>1, <1>2
    <2>1. ~unupdated /\ ~downloadInProgress /\ attached
      BY <1>0 DEF OldInv
    <2>2. ~isDownloadAvailable
      BY <2>1 DEF isDownloadAvailable
    <2>3. NoDownloadYet
      BY <2>1, <2>2 DEF Looks
    <2>4. UNCHANGED <<unupdated, downloadInProgress>>
      BY <2>3 DEF NoDownloadYet, flags
    <2> QED BY <2>1, <2>4
  <1>4. \A i \in DOMAIN calls' : calls'[i].what = "opened" => document' \in {0, mtime'}
    BY <1>0, <1>1 DEF OldInv
  <1> QED BY <1>0, <1>3, <1>4 DEF OldInv

(* A request that is granted the lock at once is held.                      *)
LEMMA TryReadView ==
    ASSUME LockInv, CallingInv, NEW l \in Reader, TryRead(l)
    PROVE  /\ Idle /\ Kept(l)' /\ ~Kept(l) /\ ~Holding(l) /\ status'[l] = "held"
           /\ \A r \in Reader : r # l => (Kept(r)' <=> Kept(r)) /\ (Holding(r)' <=> Holding(r))
           /\ \A r \in Reader : status'[r] # "calling"
           /\ UNCHANGED <<readQueue, stack>>
  <1>0. /\ status \in [Request -> {"idle", "queued", "calling", "held", "done"}] /\ Reader \subseteq Request
        /\ Idle /\ status[l] = "idle" /\ status' = [status EXCEPT ![l] = "held"] /\ UNCHANGED <<readQueue, stack>>
    BY DEF LockInv, LockTypeOK, Reader, TryRead
  <1>1. \A r \in Request : ~Leaving(r) /\ status[r] # "calling"
    BY <1>0, IdleFrames DEF Idling
  <1>2. \A r : ~Leaving(r)'
    BY <1>0 DEF Leaving, Top, Idle
  <1>3. status'[l] = "held" /\ \A r \in Reader : r # l => status'[r] = status[r]
    BY <1>0
  <1> QED BY <1>0, <1>1, <1>2, <1>3 DEF Kept, Holding

(* A user step leaves the versions of the files.                            *)
LEMMA UserShow ==
    ASSUME AssetAll, ShowInv, UserStep, SourceTypeOK, loaded' \in {0, mtime, loaded}
    PROVE  /\ Exists(file)' /\ Moving' = {} => file'[2] = mtime'
           /\ \A w \in Swap : Back(w)' => Exists(file)' /\ file'[2] = version'[w]
           /\ loaded' <= mtime'
           /\ UNCHANGED <<file, mtime>> /\ Moving' = Moving
  <1>0. AssetInv /\ Types /\ loaded \in Nat /\ mtime \in Nat
    BY AssetParameters DEF AssetAll, AssetInv, SourceTypeOK, Types, TypeOK, AssetParameters
  <1>1. Moving' = Moving /\ \A w \in Swap : Back(w)' => Back(w)
    BY <1>0, UserCalls, BackKeeps
  <1>2. UNCHANGED <<file, version, mtime>>
    BY DEF UserStep, disk, flags, StartDownload
  <1>3. loaded <= mtime /\ 0 <= mtime
    BY <1>0 DEF ShowInv
  <1>4. loaded' <= mtime'
    BY <1>0, <1>2, <1>3
  <1> QED BY <1>1, <1>2, <1>4 DEF ShowInv, Exists

(* Where a request is depends on jobs, calls and waiting.                   *)
LEMMA SamePlaces ==
    ASSUME NEW r
    PROVE  /\ UNCHANGED jobs => (InJobs(r)' <=> InJobs(r)) /\ (Once(jobs, r)' <=> Once(jobs, r))
           /\ UNCHANGED calls => (InCalls(r)' <=> InCalls(r)) /\ (Once(calls, Message(r))' <=> Once(calls, Message(r)))
           /\ UNCHANGED waiting => (InWait(r)' <=> InWait(r)) /\ (Once(waiting, r)' <=> Once(waiting, r))
  BY DEF InJobs, InCalls, InWait, In, Once, Message, Loaded, Drawn

(* and the invariant holds after it.                                        *)
LEMMA LooksKeep ==
    ASSUME Discipline, AssetAll, SourceInv, Looks
    PROVE  AssetAll' /\ SourceInv'
  <1>0. /\ LockParameters /\ AssetParameters /\ AssetInv /\ LockInv /\ CallingInv
        /\ SourceTypeOK /\ PlacesInv /\ LoadInv /\ CallInv /\ ShowInv /\ DrawInv
        /\ Load \subseteq Reader /\ Draw \subseteq Reader /\ Load \cap Draw = {} /\ Reader \subseteq Request
        /\ loaded \in 0 .. MaxVersion /\ mtime \in 0 .. MaxVersion
    BY LockParameters, AssetParameters, SourceParameters
    DEF AssetAll, AssetInv, QueuesInv, SourceInv, SourceParameters, Reader, SourceTypeOK, Types, TypeOK
  <1>1. UserStep /\ AssetAll' /\ OldInv'
    BY <1>0, LooksUser, UserAsset, LooksOld
  <1>2. /\ Idle /\ attached' /\ UNCHANGED <<document, asking, known, waiting, opened, drawn, calls>>
        /\ {enabled', retry'} \subseteq BOOLEAN /\ heard' \subseteq heard \cup {"other"}
    BY DEF Looks, externals
  <1>3. loaded' \in {0, mtime, loaded}
    BY LooksLoad DEF LoadsFile, LoadsNone
  <1>4. /\ Exists(file)' /\ Moving' = {} => file'[2] = mtime'
        /\ \A w \in Swap : Back(w)' => Exists(file)' /\ file'[2] = version'[w]
        /\ loaded' <= mtime' /\ document' <= mtime'
        /\ UNCHANGED <<file, mtime>>
    BY <1>0, <1>1, <1>2, <1>3, UserShow DEF ShowInv
  <1>5. Showing = {} /\ \A r \in Request : ~Leaving(r) /\ status[r] # "calling"
    BY <1>0, <1>2, IdleFrames DEF Idling
  <1>6. \A r : /\ (InCalls(r)' <=> InCalls(r)) /\ (InWait(r)' <=> InWait(r))
               /\ (Once(calls, Message(r))' <=> Once(calls, Message(r))) /\ (Once(waiting, r)' <=> Once(waiting, r))
    BY <1>2, SamePlaces
  <1>7. CASE LoadsNone
    <2>1. ReadersKept /\ FramesSame /\ UNCHANGED <<jobs, path, loading, status>>
      BY <1>7, SameReaders DEF LoadsNone, lockVars
    <2>2. \A r : (InJobs(r)' <=> InJobs(r)) /\ (Once(jobs, r)' <=> Once(jobs, r))
      BY <2>1, SamePlaces
    <2>3. SourceTypeOK'
      BY <1>0, <1>2, <1>3, <2>1 DEF SourceTypeOK
    <2>4. \A r : OnItsWay(r)' <=> OnItsWay(r)
      BY <1>6, <2>2, Places, PlacesNext
    <2>5. PlacesInv'
      BY <1>0, <1>6, <2>1, <2>2, <2>4 DEF PlacesInv, ReadersKept
    <2>6. Showing' = {} /\ loaded' \in {0, loaded}
      BY <1>5, <1>7, <2>1 DEF FramesSame, LoadsNone
    <2>7. LoadInv'
      <3>1. \A l \in Load : Kept(l)' => Exists(file)' /\ loaded' \in {0, mtime'}
        BY <1>0, <1>4, <2>1, <2>6 DEF LoadInv, ReadersKept, Exists
      <3>2. /\ \A l \in Load : InCalls(l)' => opened'[l] \in {0, mtime'}
            /\ \A l \in Load : InWait(l)' => opened'[l] = mtime'
        BY <1>0, <1>2, <1>4, <1>6 DEF LoadInv
      <3> QED BY <2>6, <3>1, <3>2 DEF LoadInv
    <2>8. CallInv'
      BY <1>0, <1>5, <2>1 DEF CallInv, ReadersKept
    <2>9. ShowInv'
      BY <1>0, <1>2, <1>4, <1>5, <2>1, <2>6 DEF ShowInv
    <2>10. DrawInv'
      BY <1>0, <1>2, <1>4, <2>1, <2>6 DEF DrawInv, ReadersKept, Exists
    <2> QED BY <1>1, <2>3, <2>5, <2>7, <2>8, <2>9, <2>10 DEF SourceInv
  <1>8. ASSUME NEW l \in Load, LoadsFile(l) PROVE SourceInv'
    <2>0. /\ TryRead(l) /\ jobs' = Append(jobs, l) /\ path' = TRUE /\ loading' = TRUE /\ loaded' = mtime
          /\ isReadAvailable
      BY <1>8 DEF LoadsFile
    <2>1. /\ Kept(l)' /\ ~Kept(l)
          /\ \A r \in Reader : r # l => (Kept(r)' <=> Kept(r)) /\ (Holding(r)' <=> Holding(r))
          /\ \A r \in Reader : status'[r] # "calling"
          /\ UNCHANGED <<readQueue, stack>>
      BY <1>0, <2>0, TryReadView
    <2>2. ~InJobs(l) /\ ~InCalls(l) /\ ~InWait(l)
      BY <1>0, <2>1, Places DEF PlacesInv
    <2>3. /\ jobs' \in Seq(Reader)
          /\ \A r : InJobs(r)' <=> InJobs(r) \/ r = l
          /\ \A r \in Reader : Once(jobs, r)'
      <3>1. jobs \in Seq(Reader) /\ l \in Reader
        BY <1>0 DEF SourceTypeOK
      <3>2. \A r \in Reader : Once(jobs, r)
        BY <1>0 DEF PlacesInv
      <3>3. /\ jobs' \in Seq(Reader) /\ \A r : In(jobs', r) <=> In(jobs, r) \/ r = l
            /\ \A r \in Reader : Once(jobs', r)
        BY <2>0, <2>2, <3>1, <3>2, AppendedIn DEF InJobs
      <3> QED BY <3>3 DEF InJobs, In, Once
    <2>4. \A r \in Reader : OnItsWay(r)' <=> OnItsWay(r) \/ r = l
      BY <1>6, <2>3, Places, PlacesNext
    <2>5. SourceTypeOK'
      BY <1>0, <1>2, <2>0, <2>3 DEF SourceTypeOK
    <2>6. PlacesInv'
      BY <1>0, <1>6, <2>1, <2>2, <2>3, <2>4 DEF PlacesInv
    <2>7. Showing' = {}
      BY <1>5, <2>1 DEF Showing
    <2>8. Exists(file)'
      BY <1>0, <1>4, <2>0, Readable DEF Exists
    <2>9. LoadInv'
      BY <1>0, <1>2, <1>4, <1>6, <2>0, <2>7, <2>8 DEF LoadInv
    <2>10. CallInv'
      BY <1>0, <2>1 DEF CallInv
    <2>11. ShowInv'
      BY <1>4, <2>0 DEF ShowInv
    <2>12. DrawInv'
      BY <1>0, <1>2, <1>4, <2>1, <2>7 DEF DrawInv, Exists
    <2> QED BY <1>1, <2>5, <2>6, <2>9, <2>10, <2>11, <2>12 DEF SourceInv
  <1> QED BY <1>1, <1>7, <1>8, LooksLoad

-----------------------------------------------------------------------------
(* The other steps of the source.                                           *)

(* Which documents are old, when no file is put in place.                   *)
LEMMA OldStay ==
    ASSUME AssetAll, OldInv, UserStep, UNCHANGED <<attached, document>>,
           document \notin {0, mtime} /\ fileExisted /\ Moving = {} => UNCHANGED <<unupdated, downloadInProgress>>,
           attached \/ Showing' \subseteq Showing,
           \A r \in Reader : Holding(r)' => Holding(r) \/ attached
    PROVE  OldInv'
  <1>1. Types /\ Moving' = Moving
    BY UserCalls DEF AssetAll, AssetInv
  <1>2. UNCHANGED <<mtime, fileExisted>>
    BY DEF UserStep, flags, StartDownload
  <1>3. ASSUME NEW i \in DOMAIN calls', calls'[i].what = "opened"
        PROVE  \E j \in DOMAIN calls : calls[j].what = "opened"
    <2>1. CASE UNCHANGED calls
      BY <1>3, <2>1
    <2>2. CASE \E what \in {"loaded", "drawn"} : Dequeue(what)
      BY <1>1, <1>3, <2>2, Dequeued
    <2>3. CASE \E c \in Messages : Post(c)
      BY <1>1, <1>3, <2>3, Posted, MessagesMade
    <2> QED BY <2>1, <2>2, <2>3 DEF UserStep
  <1>4. \A i \in DOMAIN calls' : calls'[i].what = "opened" => document' \in {0, mtime'}
    BY <1>2, <1>3 DEF OldInv
  <1>5. document' \notin {0, mtime'} /\ fileExisted' /\ Moving' = {} => ~unupdated' /\ ~downloadInProgress'
    BY <1>1, <1>2 DEF OldInv
  <1>6. ~attached' => document' = 0 /\ Showing' = {} /\ \A r \in Reader : ~Holding(r)'
    BY DEF OldInv
  <1> QED BY <1>4, <1>5, <1>6 DEF OldInv

(* The versions, while the document stays.                                  *)
LEMMA ShowStay ==
    ASSUME AssetAll, SourceTypeOK, ShowInv, UserStep, UNCHANGED <<loaded, document>>,
           ~loading' /\ Showing' = {} => ~loading /\ Showing = {}
    PROVE  ShowInv'
  BY UserShow DEF ShowInv

(* An actual source that is granted the lock to read shows the version of   *)
(* the file, if there is one.                                               *)
LEMMA ActualShows ==
    ASSUME Discipline, AssetAll, SourceInv, Idle, isActual, Grantable("Read")
    PROVE  document = mtime \/ (~Exists(file) /\ Showing = {})
  <1>0. /\ ShowInv /\ OldInv /\ FlagsInv /\ SwapInv /\ HoldersInv
        /\ \A w \in Swap : w \in Request /\ Kind[w] # "Read"
        /\ loaded \in Nat /\ document \in Nat /\ mtime \in Nat
    BY AssetParameters
    DEF SourceInv, SourceTypeOK, AssetAll, DataInv, AssetInv, LockInv, Types, TypeOK, AssetParameters, Writer, Reader
  <1>1. Moving = {}
    <2> SUFFICES ASSUME NEW w \in Moving PROVE FALSE
      OBVIOUS
    <2>1. w \in Swap /\ w \in Holders
      BY <1>0 DEF Moving, SwapInv, Holders, Holding
    <2>2. lock # "Read" /\ lock # "None"
      BY <1>0, <2>1, LockParameters DEF HoldersInv, LockParameters
    <2> QED BY <2>2 DEF Grantable
  <1>2. Showing = {}
    BY IdleFrames DEF Idling
  <1>3. Exists(file) => fileExisted
    BY <1>0, <1>1 DEF FlagsInv
  <1>4. CASE unupdated
    BY <1>0, <1>1, <1>2, <1>3, <1>4 DEF OldInv, isActual
  <1>5. CASE loaded >= mtime
    <2>1. loaded = mtime /\ document # 0 /\ ~loading /\ document <= mtime
      BY <1>0, <1>5 DEF ShowInv, isActual
    <2>2. loaded # 0
      BY <1>0, <2>1
    <2> QED BY <1>0, <1>2, <2>1, <2>2 DEF ShowInv
  <1> QED BY <1>4, <1>5 DEF isActual

(* Steps that move no load and no page: users disable the source, a retry   *)
(* is due, an external asset is there, or a page asks for the lock.         *)
Stands ==
    /\ UserStep
    /\ UNCHANGED <<calls, attached, loaded, loading, document, known, waiting, path, jobs, opened, drawn>>
    /\ {enabled', retry'} \subseteq BOOLEAN /\ asking' \subseteq asking
    /\ heard' \subseteq heard \cup {"other"}
    /\ UNCHANGED flags \/ (isDownloadAvailable /\ StartDownload)
    /\ FramesSame /\ UNCHANGED readQueue
    /\ \A r \in Reader :
           /\ Kept(r)' <=> Kept(r)
           /\ Holding(r)' => Holding(r) \/ (Idle /\ attached /\ isActual /\ Grantable("Read"))
           /\ status'[r] = "calling" => status[r] = "calling" \/ (r \in Draw /\ isActual /\ r \notin drawn)

(* A step that neither begins nor ends a request keeps the invariant.       *)
LEMMA StandsKeep ==
    ASSUME Discipline, AssetAll, SourceInv, Stands
    PROVE  AssetAll' /\ SourceInv'
  <1>0. /\ SourceTypeOK /\ PlacesInv /\ LoadInv /\ CallInv /\ ShowInv /\ DrawInv /\ OldInv
        /\ Load \subseteq Reader /\ Draw \subseteq Reader /\ Load \cap Draw = {}
        /\ AssetInv
    BY SourceParameters DEF SourceInv, SourceParameters, AssetAll
  <1>1. /\ UserStep
        /\ UNCHANGED <<calls, attached, loaded, loading, document, known, waiting, path, jobs, opened, drawn, readQueue>>
        /\ {enabled', retry'} \subseteq BOOLEAN /\ asking' \subseteq asking
        /\ heard' \subseteq heard \cup {"other"}
        /\ Showing' = Showing
    BY DEF Stands, FramesSame
  <1>2. AssetAll'
    BY <1>1, UserAsset
  <1>3. UNCHANGED <<file, mtime, fileExisted>>
    BY <1>1 DEF UserStep, disk, flags, StartDownload
  <1>4. isActual => isActual'
    <2>1. unupdated => unupdated'
      BY DEF Stands, flags, StartDownload
    <2> QED BY <1>1, <1>3, <2>1 DEF isActual
  <1>5. \A r \in Reader :
            /\ Kept(r)' <=> Kept(r)
            /\ Holding(r)' => Holding(r) \/ (Idle /\ attached /\ isActual /\ Grantable("Read"))
            /\ status'[r] = "calling" => status[r] = "calling" \/ (r \in Draw /\ isActual /\ r \notin drawn)
    BY DEF Stands
  <1>6. \A r : /\ InJobs(r)' <=> InJobs(r)
               /\ InCalls(r)' <=> InCalls(r)
               /\ InWait(r)' <=> InWait(r)
               /\ Once(jobs, r)' <=> Once(jobs, r)
               /\ Once(calls, Message(r))' <=> Once(calls, Message(r))
               /\ Once(waiting, r)' <=> Once(waiting, r)
    BY <1>1, SamePlaces
  <1>7. \A r : OnItsWay(r)' <=> OnItsWay(r)
    BY <1>6, Places, PlacesNext
  <1>8. SourceTypeOK'
    BY <1>0, <1>1 DEF SourceTypeOK
  <1>9. PlacesInv'
    BY <1>0, <1>5, <1>6, <1>7 DEF PlacesInv
  <1>10. LoadInv'
    BY <1>0, <1>1, <1>3, <1>5, <1>6 DEF LoadInv, Exists
  <1>11. CallInv'
    BY <1>0, <1>1, <1>4, <1>5 DEF CallInv
  <1>12. ShowInv'
    BY <1>0, <1>1, ShowStay
  <1>13. DrawInv'
    <2> SUFFICES ASSUME NEW d \in Draw, Holding(d)'
                 PROVE  document = mtime \/ (~Exists(file) /\ Showing = {})
      BY <1>1, <1>3 DEF DrawInv, Exists
    <2> QED BY <1>0, <1>5, ActualShows DEF DrawInv
  <1>14. OldInv'
    <2>1. document \notin {0, mtime} /\ fileExisted /\ Moving = {} => UNCHANGED <<unupdated, downloadInProgress>>
      <3>1. document \notin {0, mtime} /\ fileExisted /\ Moving = {} => ~isDownloadAvailable
        BY <1>0 DEF OldInv, isDownloadAvailable
      <3> QED BY <3>1 DEF Stands, flags
    <2> QED BY <1>0, <1>1, <1>5, <2>1, OldStay
  <1> QED BY <1>2, <1>8, <1>9, <1>10, <1>11, <1>12, <1>13, <1>14 DEF SourceInv

(* To disable the source is such a step,                                    *)
LEMMA DisableStands == ASSUME SourceTypeOK, Disable PROVE Stands
  <1>1. /\ enabled' = FALSE /\ enabled /\ retry \in BOOLEAN /\ UNCHANGED <<lockVars, server, disk, flags, threads, kills>>
        /\ UNCHANGED <<attached, loaded, loading, document, retry, externals, heard, path, texture>>
    BY DEF Disable, vars, SourceTypeOK
  <1>2. UserStep
    BY <1>1 DEF UserStep, SourceLock, threads
  <1>3. ReadersKept /\ FramesSame
    BY <1>1, SameReaders
  <1> QED BY <1>1, <1>2, <1>3 DEF Stands, ReadersKept, externals, texture, threads

(* so is an answer of the library for an external asset,                    *)
LEMMA ExternalStands == ASSUME SourceTypeOK, NEW e \in External, OnExternal(e) PROVE Stands
  <1>1. /\ asking' \subseteq asking /\ UNCHANGED <<lockVars, server, disk, flags, threads, kills>>
        /\ UNCHANGED <<attached, enabled, loaded, loading, document, retry, known, waiting, heard, path, texture>>
        /\ {enabled, retry} \subseteq BOOLEAN
    BY DEF OnExternal, vars, source, SourceTypeOK
  <1>2. UserStep
    BY <1>1 DEF UserStep, SourceLock, threads
  <1>3. ReadersKept /\ FramesSame
    BY <1>1, SameReaders
  <1> QED BY <1>1, <1>2, <1>3 DEF Stands, ReadersKept, texture, threads

(* trying again,                                                            *)
LEMMA RetryStands == ASSUME AssetAll, SourceTypeOK, Retry PROVE Stands
  <1>1. /\ retry' = FALSE /\ enabled \in BOOLEAN
        /\ UNCHANGED <<lockVars, server, disk, calls, kills, attached, enabled, loaded, loading,
                       document, externals, heard, path, texture>>
        /\ NoDownloadYet \/ (isDownloadAvailable /\ ~downloadInProgress /\ StartDownload)
    BY DEF Retry, SourceTypeOK
  <1>2. SourceLock
    BY <1>1 DEF SourceLock
  <1>3. UserStep
    <2>1. CASE NoDownloadYet
      BY <1>1, <1>2, <2>1 DEF UserStep, NoDownloadYet, flags
    <2>2. CASE isDownloadAvailable /\ ~downloadInProgress /\ StartDownload
      <3>1. ~waitFileSwap /\ UNCHANGED <<work, version>>
        BY <2>2 DEF isDownloadAvailable, StartDownload
      <3> QED BY <1>1, <1>2, <2>2, <3>1 DEF UserStep
    <2> QED BY <1>1, <2>1, <2>2
  <1>4. ReadersKept /\ FramesSame
    BY <1>1, SameReaders
  <1>5. UNCHANGED flags \/ (isDownloadAvailable /\ StartDownload)
    BY <1>1 DEF NoDownloadYet
  <1> QED BY <1>1, <1>3, <1>4, <1>5 DEF Stands, ReadersKept, externals, texture

(* and so is a drawing request that is run.                                 *)
LEMMA RunStands ==
    ASSUME Discipline, AssetAll, SourceInv, NEW d \in Draw, Run(d)
    PROVE  Stands
  <1>0. /\ LockInv /\ SourceTypeOK /\ d \in Reader /\ d \in Request /\ d \in Draw /\ Kind[d] = "Read"
        /\ status \in [Request -> {"idle", "queued", "calling", "held", "done"}]
        /\ \A r \in Reader : r \in Request
    BY SourceParameters DEF AssetAll, AssetInv, LockInv, LockTypeOK, SourceInv, SourceParameters, Reader
  <1>1. /\ d \notin drawn /\ isActual /\ Grantable("Read")
        /\ attached /\ Retain(d) /\ Hears({})
        /\ UNCHANGED <<server, disk, flags, threads, kills>>
        /\ UNCHANGED <<attached, enabled, loaded, loading, document, retry, externals, path, texture>>
    BY DEF Run, Discipline, Others, source
  <1>2. heard' \subseteq heard \cup {"other"}
    BY <1>1, News
  <1>3. UserStep
    <2>1. SourceLock
      BY <1>0, <1>1 DEF SourceLock
    <2> QED BY <1>1, <2>1 DEF UserStep, threads
  <1>4. /\ stack = <<>> /\ status[d] = "idle" /\ status' = [status EXCEPT ![d] = "calling"]
        /\ DOMAIN stack' = {1} /\ stack'[1].op = "call" /\ UNCHANGED readQueue
    BY <1>0, <1>1, AskEffect
  <1>5. FramesSame
    <2>1. Showing = {} /\ Showing' = {}
      BY <1>4 DEF Showing
    <2> QED BY <2>1 DEF FramesSame
  <1>6. ASSUME NEW r \in Reader
        PROVE  /\ Kept(r)' <=> Kept(r)
               /\ Holding(r)' => Holding(r) \/ (Idle /\ attached /\ isActual /\ Grantable("Read"))
               /\ status'[r] = "calling" => status[r] = "calling" \/ (r \in Draw /\ isActual /\ r \notin drawn)
    <2>1. r = d => ~Kept(r) /\ ~Kept(r)'
      BY <1>0, <1>1, StaysAsk
    <2>2. r # d => (Kept(r)' <=> Kept(r))
      BY <1>0, <1>1, StaysAsk DEF Stays
    <2>3. r # d => status'[r] = status[r]
      BY <1>0, <1>4
    <2>4. Kept(r)' <=> Kept(r)
      BY <2>1, <2>2
    <2>5. Idle /\ attached /\ isActual /\ Grantable("Read")
      BY <1>1, <1>4 DEF Idle
    <2>6. Holding(r)' => Holding(r) \/ (Idle /\ attached /\ isActual /\ Grantable("Read"))
      BY <2>5
    <2>7. status'[r] = "calling" => status[r] = "calling" \/ (r \in Draw /\ isActual /\ r \notin drawn)
      BY <1>0, <1>1, <2>3
    <2> QED BY <2>4, <2>6, <2>7
  <1>7. {enabled', retry'} \subseteq BOOLEAN
    BY <1>0, <1>1 DEF SourceTypeOK
  <1> QED BY <1>1, <1>2, <1>3, <1>4, <1>5, <1>6, <1>7 DEF Stands, externals, texture, threads

(* The messages of different requests differ.                               *)
LEMMA MessageOf ==
    /\ \A r \in Reader : Message(r) \in Messages /\ Message(r) \in Called
    /\ \A q, r \in Reader : Message(q) = Message(r) => q = r
    /\ \A l \in Load : Message(l) = Loaded(l)
    /\ \A d \in Draw : Message(d) = Drawn(d)
    /\ \A r : Message(r)' = Message(r)
  <1>1. \A d \in Draw : d \notin Load
    BY SourceParameters DEF SourceParameters
  <1>2. \A r \in Reader : r \in Request
    BY DEF Reader
  <1> QED BY <1>1, <1>2, MessagesMade DEF Message, Loaded, Drawn

(* The request whose message is the next call is done with it.              *)
LEMMA MessageTaken ==
    ASSUME Types, PlacesInv, NEW r \in Reader, calls # <<>>, calls' = Tail(calls), Head(calls) = Message(r)
    PROVE  /\ InCalls(r) /\ ~InCalls(r)'
           /\ \A q \in Reader : q # r => (InCalls(q)' <=> InCalls(q))
           /\ \A q \in Reader : Once(calls, Message(q))'
  <1> DEFINE m(q) == Message(q)
  <1>1. calls \in Seq(Called)
    BY DEF Types, ThreadsOK
  <1>2. \A q \in Reader : q # r => m(q) # Head(calls)
    BY MessageOf
  <1>3. /\ \A y : In(calls, y) <=> In(calls', y) \/ y = Head(calls)
        /\ \A y : Once(calls, y) => Once(calls', y) /\ (y = Head(calls) => ~In(calls', y))
    <2> HIDE DEF Called
    <2> QED BY <1>1, TailIn
  <1>4. \A q \in Reader : Once(calls, m(q))
    BY DEF PlacesInv
  <1>5. In(calls, m(r)) /\ ~In(calls', m(r))
    BY <1>3, <1>4
  <1>6. \A q \in Reader : q # r => (In(calls', m(q)) <=> In(calls, m(q)))
    BY <1>2, <1>3
  <1>7. \A q \in Reader : Once(calls', m(q))
    BY <1>3, <1>4
  <1>8. \A q \in Reader : /\ InCalls(q) <=> In(calls, m(q))
                          /\ InCalls(q)' <=> In(calls', m(q))
                          /\ Once(calls, Message(q))' <=> Once(calls', m(q))
    BY MessageOf DEF InCalls, In, Once
  <1> HIDE DEF m
  <1> QED BY <1>5, <1>6, <1>7, <1>8

(* The message of a request that had none is posted.                        *)
LEMMA MessagePosted ==
    ASSUME Types, PlacesInv, NEW r \in Reader, ~InCalls(r), Post(Message(r))
    PROVE  /\ InCalls(r)'
           /\ \A q \in Reader : q # r => (InCalls(q)' <=> InCalls(q))
           /\ \A q \in Reader : Once(calls, Message(q))'
  <1> DEFINE m(q) == Message(q)
  <1>1. calls \in Seq(Called) /\ m(r) \in Called /\ calls' = Append(calls, m(r))
    BY MessageOf DEF Types, ThreadsOK, Post
  <1>2. \A q \in Reader : q # r => m(q) # m(r)
    BY MessageOf
  <1>8. \A q \in Reader : /\ InCalls(q) <=> In(calls, m(q))
                          /\ InCalls(q)' <=> In(calls', m(q))
                          /\ Once(calls, Message(q))' <=> Once(calls', m(q))
    BY MessageOf DEF InCalls, In, Once
  <1>4. \A q \in Reader : Once(calls, m(q))
    BY DEF PlacesInv
  <1> HIDE DEF m, Called
  <1>3. /\ \A y : In(calls', y) <=> In(calls, y) \/ y = m(r)
        /\ \A y : Once(calls, y) /\ (y = m(r) => ~In(calls, y)) => Once(calls', y)
    BY <1>1, AppendedIn
  <1>5. In(calls', m(r)) /\ ~In(calls, m(r))
    BY <1>3, <1>8
  <1>6. \A q \in Reader : q # r => (In(calls', m(q)) <=> In(calls, m(q)))
    BY <1>2, <1>3
  <1>7. \A q \in Reader : Once(calls', m(q))
    BY <1>3, <1>4, <1>5
  <1> QED BY <1>5, <1>6, <1>7, <1>8

(* The texture thread takes its next task, or is given one.                 *)
LEMMA JobTaken ==
    ASSUME SourceTypeOK, PlacesInv, jobs # <<>>, NEW h, h = Head(jobs), jobs' = Tail(jobs)
    PROVE  /\ h \in Reader /\ jobs' \in Seq(Reader)
           /\ InJobs(h) /\ ~InJobs(h)'
           /\ \A q \in Reader : q # h => (InJobs(q)' <=> InJobs(q))
           /\ \A q \in Reader : Once(jobs, q)'
  <1>1. jobs \in Seq(Reader)
    BY DEF SourceTypeOK
  <1>2. /\ Tail(jobs) \in Seq(Reader) /\ h \in Reader
        /\ \A y : In(jobs, y) <=> In(jobs', y) \/ y = h
        /\ \A y : Once(jobs, y) => Once(jobs', y) /\ (y = h => ~In(jobs', y))
    BY <1>1, TailIn
  <1>3. \A q \in Reader : Once(jobs, q)
    BY DEF PlacesInv
  <1>4. \A q : InJobs(q) <=> In(jobs, q)
    BY DEF InJobs
  <1>5. \A q : (InJobs(q)' <=> In(jobs', q)) /\ (Once(jobs, q)' <=> Once(jobs', q))
    BY DEF InJobs, In, Once
  <1> QED BY <1>2, <1>3, <1>4, <1>5

(* A request whose job is given to the texture thread is there once.        *)
LEMMA JobGiven ==
    ASSUME SourceTypeOK, PlacesInv, NEW r \in Reader, ~InJobs(r), jobs' = Append(jobs, r)
    PROVE  /\ jobs' \in Seq(Reader) /\ InJobs(r)'
           /\ \A q \in Reader : q # r => (InJobs(q)' <=> InJobs(q))
           /\ \A q \in Reader : Once(jobs, q)'
  <1>1. jobs \in Seq(Reader)
    BY DEF SourceTypeOK
  <1>2. /\ jobs' \in Seq(Reader)
        /\ \A y : In(jobs', y) <=> In(jobs, y) \/ y = r
        /\ \A y : Once(jobs, y) /\ (y = r => ~In(jobs, y)) => Once(jobs', y)
    BY <1>1, AppendedIn
  <1>3. \A q \in Reader : Once(jobs, q)
    BY DEF PlacesInv
  <1>4. \A q : InJobs(q) <=> In(jobs, q)
    BY DEF InJobs
  <1>5. \A q : (InJobs(q)' <=> In(jobs', q)) /\ (Once(jobs, q)' <=> Once(jobs', q))
    BY DEF InJobs, In, Once
  <1> QED BY <1>2, <1>3, <1>4, <1>5

(* What most of these steps leave alone, and what follows from it.          *)
Ordinary ==
    /\ UserStep
    /\ UNCHANGED <<attached, enabled, loaded, retry>>
    /\ UNCHANGED flags
    /\ heard' \subseteq heard \cup {"other"}
    /\ readQueue' = <<>>
    /\ \A r \in Reader : Holding(r)' => Holding(r)

(* What an ordinary step, of the texture thread or of a callback, leaves to *)
(* be shown of each.                                                        *)
LEMMA OrdinaryKeeps ==
    ASSUME Discipline, AssetAll, SourceInv, Ordinary
    PROVE  /\ AssetAll'
           /\ UNCHANGED document /\ (attached \/ Showing' \subseteq Showing) => OldInv'
           /\ UNCHANGED <<attached, enabled, loaded, retry, file, mtime, unupdated>>
           /\ heard' \subseteq heard \cup {"other"}
           /\ \A r \in Reader : Holding(r)' => Holding(r)
  <1>1. UserStep /\ OldInv
    BY DEF Ordinary, SourceInv
  <1>2. AssetAll'
    BY <1>1, UserAsset
  <1>3. UNCHANGED document /\ (attached \/ Showing' \subseteq Showing) => OldInv'
    BY <1>1, OldStay DEF Ordinary, flags
  <1>4. UNCHANGED <<file, mtime, unupdated>>
    BY DEF Ordinary, UserStep, disk, flags
  <1> QED BY <1>2, <1>3, <1>4 DEF Ordinary

(* A page gets the lock, and is drawn.                                      *)
LEMMA CapturedKeeps ==
    ASSUME Discipline, AssetAll, SourceInv, NEW d \in Draw, OnAssetCaptured(d)
    PROVE  AssetAll' /\ SourceInv'
  <1>0. /\ LockParameters /\ AssetParameters /\ ClearOnly /\ AssetInv /\ LockInv /\ CallingInv /\ Types
        /\ SourceTypeOK /\ PlacesInv /\ LoadInv /\ CallInv /\ ShowInv /\ DrawInv
        /\ Load \subseteq Reader /\ Draw \subseteq Reader /\ Reader \subseteq Request /\ d \in Reader /\ d \in Request
        /\ d \notin Load /\ d \notin Brief
        /\ status \in [Request -> {"idle", "queued", "calling", "held", "done"}]
    BY LockParameters, AssetParameters, SourceParameters
    DEF Discipline, ClearOnly, AssetAll, AssetInv, QueuesInv, LockInv, LockTypeOK, SourceInv, SourceParameters, Reader
  <1>1. /\ Innermost("call") /\ Head(stack).request = d /\ status' = [status EXCEPT ![d] = "held"]
        /\ UNCHANGED <<lock, lockers, readQueue, writeQueue>>
        /\ UNCHANGED <<server, disk, flags, threads, kills>>
        /\ UNCHANGED <<attached, enabled, loaded, loading, document, retry, asking, known, waiting, heard, path, opened>>
    BY DEF OnAssetCaptured, Others, source, externals
  <1>2. status[d] = "calling"
    <2>1. Top("call") /\ stack[1].request = d
      <3>1. stack \in Seq(Frames) /\ stack # <<>>
        BY <1>0, <1>1 DEF LockInv, Innermost
      <3> QED BY <1>1, <3>1, Sequence DEF Innermost, Top
    <2> QED BY <1>0, <2>1 DEF LockInv, TopInv
  <1>3. isActual /\ d \notin drawn
    BY <1>0, <1>2 DEF CallInv
  <1>4. stack' = Tail(stack) /\ jobs' = Append(jobs, d) /\ UNCHANGED drawn
    BY <1>3 DEF OnAssetCaptured
  <1>5. Calls(d)
    <2>1. stack' = <<>> \o Tail(stack)
      <3>1. stack \in Seq(Frames) /\ stack # <<>>
        BY <1>0, <1>1 DEF LockInv, Innermost
      <3> HIDE DEF Frames
      <3> QED BY <1>4, <3>1, Popped
    <2> QED BY <1>0, <1>1, <2>1 DEF Calls
  <1>6. /\ ~Kept(d) /\ Kept(d)'
        /\ \A r \in Reader : r # d => (Kept(r)' <=> Kept(r))
    BY <1>0, <1>5, StaysCalls DEF Stays
  <1>7. \A r \in Reader : /\ Holding(r)' <=> Holding(r)
                          /\ status'[r] = "calling" => status[r] = "calling"
    BY <1>0, <1>1, <1>2 DEF Holding
  <1>8. FramesSame
    BY <1>0, <1>5, FramesKept
  <1>9. Ordinary
    <2>1. UserStep
      BY <1>0, <1>1, <1>5 DEF UserStep, SourceLock, threads
    <2> QED BY <1>0, <1>1, <1>7, <1>8, <2>1 DEF Ordinary, FramesSame, CallInv
  <1>10. AssetAll' /\ OldInv' /\ UNCHANGED <<file, mtime, unupdated>>
    BY <1>1, <1>8, <1>9, OrdinaryKeeps DEF FramesSame
  <1>11. UNCHANGED calls
    BY <1>1 DEF threads
  <1>12. ~InJobs(d) /\ ~InCalls(d) /\ ~InWait(d)
    BY <1>0, <1>6, Places DEF PlacesInv
  <1>13. /\ jobs' \in Seq(Reader) /\ InJobs(d)'
         /\ \A q \in Reader : q # d => (InJobs(q)' <=> InJobs(q))
         /\ \A q \in Reader : Once(jobs, q)'
    BY <1>0, <1>4, <1>12, JobGiven
  <1>14. \A r : /\ InCalls(r)' <=> InCalls(r)
                /\ InWait(r)' <=> InWait(r)
                /\ Once(calls, Message(r))' <=> Once(calls, Message(r))
                /\ Once(waiting, r)' <=> Once(waiting, r)
    BY <1>1, <1>11, SamePlaces
  <1>15. \A r \in Reader : OnItsWay(r)' <=> OnItsWay(r) \/ r = d
    BY <1>13, <1>14, Places, PlacesNext
  <1>16. PlacesInv'
    BY <1>0, <1>6, <1>12, <1>13, <1>14, <1>15 DEF PlacesInv
  <1>17. SourceTypeOK'
    BY <1>0, <1>1, <1>4, <1>13 DEF SourceTypeOK
  <1>19. LoadInv'
    <2>1. \A l \in Load : (Kept(l)' <=> Kept(l)) /\ (InCalls(l)' <=> InCalls(l)) /\ (InWait(l)' <=> InWait(l))
      BY <1>0, <1>6, <1>14
    <2>2. Showing' = Showing
      BY <1>8 DEF FramesSame
    <2> QED BY <1>0, <1>1, <1>10, <2>1, <2>2 DEF LoadInv, Exists
  <1>20. CallInv'
    <2>1. isActual' <=> isActual
      BY <1>1, <1>10 DEF isActual
    <2> QED BY <1>0, <1>1, <1>4, <1>7, <2>1 DEF CallInv
  <1>21. ShowInv'
    BY <1>0, <1>1, <1>8, <1>9, ShowStay DEF Ordinary, FramesSame
  <1>22. DrawInv'
    BY <1>0, <1>1, <1>7, <1>8, <1>10 DEF DrawInv, FramesSame, Exists
  <1> QED BY <1>10, <1>16, <1>17, <1>19, <1>20, <1>21, <1>22 DEF SourceInv

(* The texture thread: a document is opened, of the version of the file, or *)
(* a page is drawn.                                                         *)
LEMMA TextureKeeps ==
    ASSUME Discipline, AssetAll, SourceInv, OpenDocument \/ MakeTexture
    PROVE  AssetAll' /\ SourceInv'
  <1>0. /\ LockParameters /\ AssetParameters /\ AssetInv /\ LockInv /\ Types /\ AssetAll
        /\ SourceTypeOK /\ PlacesInv /\ LoadInv /\ CallInv /\ ShowInv /\ DrawInv
        /\ Load \subseteq Reader /\ Draw \subseteq Reader /\ Load \cap Draw = {}
    BY LockParameters, AssetParameters, SourceParameters
    DEF Discipline, AssetAll, AssetInv, SourceInv, SourceParameters
  <1>1. /\ jobs # <<>> /\ jobs' = Tail(jobs) /\ Post(Message(Head(jobs)))
        /\ UNCHANGED <<lockVars, server, disk, flags, download, work, saves, version, kills>>
        /\ UNCHANGED <<attached, enabled, loaded, loading, document, retry, asking, known, waiting, heard, path, drawn>>
    <2>1. CASE OpenDocument
      BY <2>1 DEF OpenDocument, source, externals, Message
    <2>2. CASE MakeTexture
      <3>1. Head(jobs) \notin Load
        BY <1>0, <2>2 DEF MakeTexture
      <3> QED BY <2>2, <3>1 DEF MakeTexture, source, externals, Message
    <2> QED BY <2>1, <2>2
  <1>2. PICK h : h = Head(jobs)
    OBVIOUS
  <1>3. /\ h \in Reader /\ jobs' \in Seq(Reader) /\ InJobs(h) /\ ~InJobs(h)'
        /\ \A q \in Reader : q # h => (InJobs(q)' <=> InJobs(q))
        /\ \A q \in Reader : Once(jobs, q)'
    BY <1>0, <1>1, <1>2, JobTaken
  <1>4. ~InCalls(h) /\ ~InWait(h) /\ Kept(h)
    BY <1>0, <1>3, Places DEF PlacesInv
  <1>5. /\ InCalls(h)'
        /\ \A q \in Reader : q # h => (InCalls(q)' <=> InCalls(q))
        /\ \A q \in Reader : Once(calls, Message(q))'
    BY <1>0, <1>1, <1>2, <1>3, <1>4, MessagePosted
  <1>6. \A r : (InWait(r)' <=> InWait(r)) /\ (Once(waiting, r)' <=> Once(waiting, r))
    BY <1>1, SamePlaces
  <1>7. \A r \in Reader : OnItsWay(r)' <=> OnItsWay(r)
    BY <1>3, <1>4, <1>5, <1>6, Places, PlacesNext
  <1>8. ReadersKept /\ FramesSame /\ UNCHANGED status
    BY <1>1, SameReaders DEF lockVars
  <1>9. Ordinary
    <2>1. UserStep
      <3>1. Message(h) \in Messages
        BY <1>3, MessageOf
      <3>2. \E c \in Messages : Post(c)
        BY <1>1, <1>2, <3>1
      <3> QED BY <1>1, <3>2 DEF UserStep, SourceLock
    <2> QED BY <1>0, <1>1, <1>8, <2>1 DEF Ordinary, FramesSame, ReadersKept, CallInv
  <1>10. AssetAll' /\ OldInv' /\ UNCHANGED <<file, mtime, unupdated>>
    BY <1>1, <1>8, <1>9, OrdinaryKeeps DEF FramesSame
  <1>11. /\ opened' \in [Load -> 0 .. MaxVersion]
         /\ \A l \in Load : l # h => opened'[l] = opened[l]
         /\ h \in Load => opened'[h] \in {0, mtime}
    <2>1. opened \in [Load -> 0 .. MaxVersion]
      BY <1>0 DEF SourceTypeOK
    <2>2. CASE h \in Load
      <3>1. OpenDocument
        BY <1>0, <1>2, <2>2 DEF MakeTexture
      <3>2. ReadHeld
        BY <1>3, <1>4 DEF ReadHeld, Kept, Holding
      <3>3. Moving = {}
        BY <1>0, <3>2, ReadAlone
      <3>4. Exists(file) => file[2] = mtime
        BY <1>0, <3>3 DEF ShowInv
      <3>5. mtime \in 0 .. MaxVersion /\ 0 \in 0 .. MaxVersion
        BY <1>0 DEF Types, TypeOK, AssetParameters
      <3>6. \E v \in {0, mtime} : opened' = [opened EXCEPT ![h] = v]
        BY <1>2, <3>1, <3>4 DEF OpenDocument
      <3> QED BY <2>1, <2>2, <3>5, <3>6
    <2>3. CASE h \notin Load
      <3>1. opened' = opened
        BY <1>2, <2>3 DEF OpenDocument, MakeTexture
      <3> QED BY <2>1, <2>3, <3>1
    <2> QED BY <2>2, <2>3
  <1>12. SourceTypeOK'
    BY <1>0, <1>1, <1>3, <1>11 DEF SourceTypeOK
  <1>13. PlacesInv'
    <2>1. \A r \in Reader : OnItsWay(r)' => Kept(r)'
      BY <1>0, <1>7, <1>8 DEF PlacesInv, ReadersKept
    <2>2. \A r \in Reader : InJobs(r)' => ~InCalls(r)' /\ ~InWait(r)'
      BY <1>0, <1>3, <1>5, <1>6 DEF PlacesInv
    <2>3. \A r \in Reader : InCalls(r)' => ~InWait(r)'
      BY <1>0, <1>4, <1>5, <1>6 DEF PlacesInv
    <2>4. \A r \in Reader : Once(waiting, r)'
      BY <1>0, <1>6 DEF PlacesInv
    <2> QED BY <1>3, <1>5, <2>1, <2>2, <2>3, <2>4 DEF PlacesInv
  <1>14. LoadInv'
    <2>1. \A l \in Load : Kept(l)' => Exists(file)' /\ loaded' \in {0, mtime'}
      BY <1>0, <1>1, <1>8, <1>10 DEF LoadInv, ReadersKept, Exists
    <2>2. \A l \in Load : InCalls(l)' => opened'[l] \in {0, mtime'}
      BY <1>0, <1>5, <1>10, <1>11 DEF LoadInv
    <2>3. \A l \in Load : InWait(l)' => opened'[l] = mtime'
      BY <1>0, <1>4, <1>6, <1>10, <1>11 DEF LoadInv
    <2>4. ASSUME NEW f \in Showing'
          PROVE  f.request \in Load /\ ~Kept(f.request)' /\ opened'[f.request] = mtime' /\ loaded' \in {0, mtime'}
      <3>1. f.request \in Load /\ ~Kept(f.request) /\ opened[f.request] = mtime /\ loaded \in {0, mtime}
        BY <1>0, <1>8 DEF LoadInv, FramesSame
      <3> QED BY <1>0, <1>1, <1>4, <1>8, <1>10, <1>11, <3>1 DEF ReadersKept
    <2> QED BY <2>1, <2>2, <2>3, <2>4 DEF LoadInv
  <1>15. CallInv'
    <2>1. isActual' <=> isActual
      BY <1>1, <1>10 DEF isActual
    <2> QED BY <1>0, <1>1, <1>8, <2>1 DEF CallInv, ReadersKept
  <1>16. ShowInv'
    BY <1>0, <1>1, <1>8, <1>9, ShowStay DEF Ordinary, FramesSame
  <1>17. DrawInv'
    BY <1>0, <1>1, <1>8, <1>10 DEF DrawInv, FramesSame, ReadersKept, Exists
  <1> QED BY <1>10, <1>12, <1>13, <1>14, <1>15, <1>16, <1>17 DEF SourceInv

(* A holder of its own lets go.                                             *)
After(r) == IF r \in Load THEN <<ShownFrame(r)>> ELSE <<>>

(* What the source sees of the lock when a reader of its own releases it.   *)
LEMMA ReleaseView ==
    ASSUME LockInv, NEW r \in Reader, Releases(r, After(r))
    PROVE  /\ SourceLock /\ Idle
           /\ Kept(r) /\ ~Kept(r)'
           /\ \A q \in Reader : q # r => (Kept(q)' <=> Kept(q))
           /\ UNCHANGED <<status, readQueue>>
           /\ Showing = {}
           /\ r \in Load => Showing' = {ShownFrame(r)}
           /\ r \notin Load => Showing' = {}
  <1>1. r \in Request /\ After(r) \in Afterwards /\ After(r) # <<OnFile>>
    BY AfterwardsMade DEF After, Reader
  <1>2. SourceLock
    BY <1>1 DEF SourceLock
  <1>3. Kept(r) /\ ~Kept(r)'
    BY <1>1, StaysReleases
  <1>4. \A q \in Reader : q # r => (Kept(q)' <=> Kept(q))
    BY <1>1, StaysReleases DEF Stays, Reader
  <1>5. UNCHANGED <<status, readQueue>> /\ Idle
    BY DEF Releases
  <1>6. Showing = {}
    BY <1>5, IdleFrames DEF Idling
  <1>7. stack' = <<Release(r)>> \o After(r) /\ Release(r) \in Frames /\ Release(r).op = "release"
        /\ ShownFrame(r) \in Frames /\ ShownFrame(r).op = "shown"
    BY <1>1, FramesMade DEF Releases
  <1>8. r \in Load => Showing' = {ShownFrame(r)}
    <2> SUFFICES ASSUME r \in Load PROVE Showing' = {ShownFrame(r)}
      OBVIOUS
    <2> HIDE DEF Frames
    <2>1. Len(stack') = 2 /\ stack' \in Seq(Frames) /\ stack'[1] = Release(r) /\ stack'[2] = ShownFrame(r)
      <3>1. stack' = <<Release(r)>> \o <<ShownFrame(r)>> /\ <<ShownFrame(r)>> \in Seq(Frames)
        BY <1>7 DEF After
      <3>2. <<ShownFrame(r)>>[1] = ShownFrame(r) /\ Len(<<ShownFrame(r)>>) = 1
        OBVIOUS
      <3>3. Release(r) \in Frames /\ ShownFrame(r) \in Frames
        BY <1>7
      <3> QED BY <3>1, <3>2, <3>3, Put
    <2>2. DOMAIN stack' = {1, 2}
      BY <2>1
    <2> QED BY <1>7, <2>1, <2>2 DEF Showing
  <1>9. r \notin Load => Showing' = {}
    <2> SUFFICES ASSUME r \notin Load PROVE Showing' = {}
      OBVIOUS
    <2> HIDE DEF Frames
    <2>1. Len(stack') = 1 /\ stack' \in Seq(Frames) /\ stack'[1] = Release(r)
      <3>1. stack' = <<Release(r)>> \o <<>>
        BY <1>7 DEF After
      <3>2. <<>> \in Seq(Frames) /\ Len(<<>>) = 0
        OBVIOUS
      <3>3. Release(r) \in Frames /\ ShownFrame(r) \in Frames
        BY <1>7
      <3> QED BY <3>1, <3>2, <3>3, Put
    <2>2. DOMAIN stack' = {1}
      BY <2>1
    <2> QED BY <1>7, <2>1, <2>2 DEF Showing
  <1> QED BY <1>2, <1>3, <1>4, <1>5, <1>6, <1>8, <1>9

(* A load or a page is done with.                                           *)
Ends(r) ==
    /\ Ordinary /\ Releases(r, After(r))
    /\ UNCHANGED <<document, path, opened>>
    /\ loading' = (loading /\ r \notin Load)
    /\ r \in Load => InWait(r)
    /\ ~InJobs(r)' /\ ~InCalls(r)' /\ ~InWait(r)'
    /\ \A q \in Reader : q # r => /\ InJobs(q)' <=> InJobs(q)
                                  /\ InCalls(q)' <=> InCalls(q)
                                  /\ InWait(q)' <=> InWait(q)
    /\ \A q \in Reader : Once(jobs, q)' /\ Once(calls, Message(q))' /\ Once(waiting, q)'

(* The invariant holds after the end of a load and of a drawing.            *)
LEMMA EndsKeep ==
    ASSUME Discipline, AssetAll, SourceInv, SourceTypeOK', NEW r \in Reader, Ends(r)
    PROVE  AssetAll' /\ SourceInv'
  <1>0. /\ LockInv /\ CallingInv /\ SourceTypeOK /\ PlacesInv /\ LoadInv /\ CallInv /\ ShowInv /\ DrawInv /\ OldInv
        /\ Load \subseteq Reader /\ Draw \subseteq Reader /\ Reader \subseteq Request
    BY SourceParameters DEF AssetAll, AssetInv, QueuesInv, SourceInv, SourceParameters, Reader
  <1>1. /\ Idle /\ Kept(r) /\ ~Kept(r)'
        /\ \A q \in Reader : q # r => (Kept(q)' <=> Kept(q))
        /\ UNCHANGED <<status, readQueue>>
        /\ Showing = {}
        /\ r \in Load => Showing' = {ShownFrame(r)}
        /\ r \notin Load => Showing' = {}
    BY <1>0, ReleaseView DEF Ends
  <1>2. Ordinary /\ UNCHANGED <<document, path, opened>> /\ loading' = (loading /\ r \notin Load)
    BY DEF Ends
  <1>3. attached
    <2>1. Holding(r)
      BY <1>1 DEF Kept, Holding
    <2> QED BY <1>0, <2>1 DEF OldInv
  <1>4. AssetAll' /\ OldInv' /\ UNCHANGED <<loaded, file, mtime>>
    BY <1>2, <1>3, OrdinaryKeeps
  <1>5. /\ ~InJobs(r)' /\ ~InCalls(r)' /\ ~InWait(r)' /\ (r \in Load => InWait(r))
        /\ \A q \in Reader : q # r => /\ InJobs(q)' <=> InJobs(q)
                                      /\ InCalls(q)' <=> InCalls(q)
                                      /\ InWait(q)' <=> InWait(q)
        /\ \A q \in Reader : Once(jobs, q)' /\ Once(calls, Message(q))' /\ Once(waiting, q)'
    BY DEF Ends
  <1>6. \A q \in Reader : OnItsWay(q)' => OnItsWay(q) /\ q # r
    BY <1>5, Places, PlacesNext
  <1>7. PlacesInv'
    BY <1>0, <1>1, <1>5, <1>6 DEF PlacesInv
  <1>8. LoadInv'
    <2>1. /\ \A l \in Load : Kept(l)' => Exists(file)' /\ loaded' \in {0, mtime'}
          /\ \A l \in Load : InCalls(l)' => opened'[l] \in {0, mtime'}
          /\ \A l \in Load : InWait(l)' => opened'[l] = mtime'
      BY <1>0, <1>1, <1>2, <1>4, <1>5 DEF LoadInv, Exists
    <2>2. ASSUME NEW f \in Showing'
          PROVE  f.request \in Load /\ ~Kept(f.request)' /\ opened'[f.request] = mtime' /\ loaded' \in {0, mtime'}
      <3>1. r \in Load /\ f.request = r
        BY <1>1 DEF ShownFrame
      <3>2. opened[r] = mtime /\ loaded \in {0, mtime}
        BY <1>0, <1>1, <1>5, <3>1 DEF LoadInv
      <3> QED BY <1>1, <1>2, <1>4, <3>1, <3>2
    <2> QED BY <2>1, <2>2 DEF LoadInv
  <1>9. CallInv'
    <2>1. \A q \in Request : status[q] # "calling"
      BY <1>0, <1>1, IdleFrames DEF Idling
    <2> QED BY <1>0, <1>1, <2>1 DEF CallInv
  <1>10. ShowInv'
    <2>1. ~loading' /\ Showing' = {} => ~loading /\ Showing = {}
      BY <1>1, <1>2
    <2> QED BY <1>0, <1>2, <1>4, <2>1, ShowStay DEF Ordinary
  <1>11. DrawInv'
    <2>1. \A q \in Reader : Holding(q)' <=> Holding(q)
      BY <1>1 DEF Holding
    <2>2. r \in Load => Exists(file)
      BY <1>0, <1>1 DEF LoadInv
    <2>3. r \notin Load => Showing' = Showing
      BY <1>1
    <2> QED BY <1>0, <1>2, <1>4, <2>1, <2>2, <2>3 DEF DrawInv, Exists
  <1> QED BY <1>4, <1>7, <1>8, <1>9, <1>10, <1>11 DEF SourceInv

(* What the next message is, by its request.                                *)
LEMMA NextMessage ==
    ASSUME Types, NEW what \in {"loaded", "drawn"}, Dequeue(what)
    PROVE  /\ calls # <<>> /\ calls' = Tail(calls) /\ Idle
           /\ \A l \in Load : what = "loaded" /\ Head(calls).request = l => Head(calls) = Message(l)
           /\ \A d \in Draw : what = "drawn" /\ Head(calls).request = d => Head(calls) = Message(d)
  <1>1. calls # <<>> /\ calls' = Tail(calls) /\ Idle /\ Head(calls).what = what
    BY DEF Dequeue
  <1>2. Head(calls) \in Called
    <2>1. calls \in Seq(Called)
      BY DEF Types, ThreadsOK
    <2> HIDE DEF Called
    <2> QED BY <1>1, <2>1
  <1>3. Head(calls) \in [what : {"loaded", "drawn"}, request : Request]
    BY <1>1, <1>2 DEF Called
  <1>4. Head(calls) = [what |-> what, request |-> Head(calls).request]
    BY <1>1, <1>3
  <1> QED BY <1>1, <1>4, MessageOf DEF Loaded, Drawn

(* A page has been drawn.                                                   *)
LEMMA DrawnKeeps ==
    ASSUME Discipline, AssetAll, SourceInv, NEW d \in Draw, OnDrawn(d)
    PROVE  AssetAll' /\ SourceInv'
  <1>0. /\ LockInv /\ Types /\ SourceTypeOK /\ PlacesInv /\ CallInv
        /\ d \in Reader /\ d \notin Load
    BY SourceParameters DEF AssetAll, AssetInv, SourceInv, SourceParameters
  <1>1. /\ Dequeue("drawn") /\ Head(calls).request = d /\ Releases(d, After(d))
        /\ drawn' = drawn \cup {d} /\ Hears({})
        /\ UNCHANGED <<server, disk, flags, download, work, saves, version, kills>>
        /\ UNCHANGED <<attached, enabled, loaded, loading, document, retry, asking, known, waiting,
                       path, jobs, opened>>
    BY <1>0 DEF OnDrawn, After, source, externals
  <1>2. calls # <<>> /\ calls' = Tail(calls) /\ Head(calls) = Message(d)
    BY <1>0, <1>1, NextMessage
  <1>3. /\ InCalls(d) /\ ~InCalls(d)'
        /\ \A q \in Reader : q # d => (InCalls(q)' <=> InCalls(q))
        /\ \A q \in Reader : Once(calls, Message(q))'
    BY <1>0, <1>2, MessageTaken
  <1>4. \A q : /\ (InJobs(q)' <=> InJobs(q)) /\ (InWait(q)' <=> InWait(q))
               /\ (Once(jobs, q)' <=> Once(jobs, q)) /\ (Once(waiting, q)' <=> Once(waiting, q))
    BY <1>1, SamePlaces
  <1>5. ~InJobs(d)' /\ ~InWait(d)'
    BY <1>0, <1>3, <1>4 DEF PlacesInv
  <1>6. SourceLock /\ UNCHANGED <<status, readQueue>>
    BY <1>0, <1>1, ReleaseView
  <1>7. heard' \subseteq heard \cup {"other"}
    BY <1>1, News
  <1>8. Ordinary
    <2>1. UserStep
      BY <1>1, <1>6 DEF UserStep
    <2>2. \A q \in Reader : Holding(q)' => Holding(q)
      BY <1>6 DEF Holding
    <2> QED BY <1>0, <1>1, <1>6, <1>7, <2>1, <2>2 DEF Ordinary, CallInv
  <1>9. SourceTypeOK'
    BY <1>0, <1>1, <1>7 DEF SourceTypeOK
  <1>10. \A q \in Reader : Once(jobs, q)' /\ Once(waiting, q)'
    BY <1>0, <1>4 DEF PlacesInv
  <1>11. loading' = (loading /\ d \notin Load)
    BY <1>0, <1>1 DEF SourceTypeOK
  <1>12. Ends(d)
    BY <1>0, <1>1, <1>3, <1>4, <1>5, <1>8, <1>10, <1>11 DEF Ends
  <1> QED BY <1>0, <1>9, <1>12, EndsKeep

(* A load whose document is open waits for its external assets, if only for *)
(* a moment; one that opened nothing is forgotten.                          *)
LEMMA LoadedKeeps ==
    ASSUME Discipline, AssetAll, SourceInv, NEW l \in Load, OnLoaded(l)
    PROVE  AssetAll' /\ SourceInv'
  <1>0. /\ LockInv /\ Types /\ SourceTypeOK /\ PlacesInv /\ LoadInv /\ CallInv /\ ShowInv /\ DrawInv
        /\ l \in Reader /\ Load \subseteq Reader /\ Draw \subseteq Reader
        /\ Refers \in [Version -> SUBSET External]
    BY SourceParameters DEF AssetAll, AssetInv, SourceInv, SourceParameters
  <1>1. /\ Dequeue("loaded") /\ Head(calls).request = l /\ Hears({})
        /\ UNCHANGED <<lockVars, server, disk, flags, download, work, saves, version, kills>>
        /\ UNCHANGED <<attached, enabled, loaded, loading, document, retry, path, jobs, opened, drawn>>
    BY DEF OnLoaded, source, texture
  <1>2. calls # <<>> /\ calls' = Tail(calls) /\ Head(calls) = Message(l) /\ Idle
    BY <1>0, <1>1, NextMessage
  <1>3. /\ InCalls(l) /\ ~InCalls(l)'
        /\ \A q \in Reader : q # l => (InCalls(q)' <=> InCalls(q))
        /\ \A q \in Reader : Once(calls, Message(q))'
    BY <1>0, <1>2, MessageTaken
  <1>4. \A q : (InJobs(q)' <=> InJobs(q)) /\ (Once(jobs, q)' <=> Once(jobs, q))
    BY <1>1, SamePlaces
  <1>5. ~InJobs(l) /\ ~InWait(l) /\ Kept(l) /\ opened[l] \in {0, mtime}
    BY <1>0, <1>3, Places DEF PlacesInv, LoadInv
  <1>6. heard' \subseteq heard \cup {"other"}
    BY <1>1, News
  <1>7. ReadersKept /\ FramesSame
    BY <1>1, SameReaders DEF lockVars
  <1>8. Ordinary
    <2>1. UserStep
      <3>1. Dequeue("loaded") /\ "loaded" \in {"loaded", "drawn"}
        BY <1>1
      <3> QED BY <1>1, <3>1 DEF UserStep, SourceLock
    <2> QED BY <1>0, <1>1, <1>6, <1>7, <2>1 DEF Ordinary, CallInv, ReadersKept, FramesSame
  <1>9. AssetAll' /\ OldInv' /\ UNCHANGED <<file, mtime, unupdated>>
    BY <1>1, <1>7, <1>8, OrdinaryKeeps DEF FramesSame
  <1>10. /\ asking' \subseteq known' /\ known' \subseteq External
         /\ waiting' \in Seq(Load) /\ (asking' # {} => waiting' # <<>>)
         /\ InWait(l)' => opened[l] = mtime
         /\ \A q \in Reader : q # l => (InWait(q)' <=> InWait(q))
         /\ \A q \in Reader : Once(waiting, q)'
    <2>1. /\ asking \subseteq known /\ known \subseteq External /\ waiting \in Seq(Load)
          /\ asking # {} => waiting # <<>>
      BY <1>0 DEF SourceTypeOK
    <2>2. CASE opened[l] = 0
      <3>1. UNCHANGED <<asking, known, waiting>>
        BY <2>2 DEF OnLoaded, externals
      <3>2. \A q : (InWait(q)' <=> InWait(q)) /\ (Once(waiting, q)' <=> Once(waiting, q))
        BY <3>1, SamePlaces
      <3> QED BY <1>0, <1>5, <2>1, <3>1, <3>2 DEF PlacesInv
    <2>3. CASE opened[l] # 0
      <3>1. /\ known' = known \cup Refers[opened[l]]
            /\ \E late \in SUBSET (known' \ known) : asking' = asking \cup late
            /\ waiting' = Append(waiting, l)
        BY <2>3 DEF OnLoaded
      <3>2. opened[l] \in Version
        BY <1>0, <2>3, AssetParameters DEF SourceTypeOK, AssetParameters, Version
      <3>3. asking' \subseteq known' /\ known' \subseteq External
        <4>1. Refers[opened[l]] \subseteq External
          BY <1>0, <3>2
        <4> QED BY <2>1, <3>1, <4>1
      <3>4. /\ waiting' \in Seq(Load) /\ waiting' # <<>>
            /\ \A y : In(waiting', y) <=> In(waiting, y) \/ y = l
            /\ \A y : Once(waiting, y) /\ (y = l => ~In(waiting, y)) => Once(waiting', y)
        BY <2>1, <3>1, AppendedIn
      <3>5. \A q \in Reader : Once(waiting, q)
        BY <1>0 DEF PlacesInv
      <3>6. \A q : InWait(q) <=> In(waiting, q)
        BY DEF InWait
      <3>7. \A q : (InWait(q)' <=> In(waiting', q)) /\ (Once(waiting, q)' <=> Once(waiting', q))
        BY DEF InWait, In, Once
      <3> QED BY <1>5, <2>3, <3>3, <3>4, <3>5, <3>6, <3>7
    <2> QED BY <2>2, <2>3
  <1>11. \A q \in Reader : OnItsWay(q)' => q = l \/ OnItsWay(q)
    BY <1>3, <1>4, <1>10, Places, PlacesNext
  <1>12. SourceTypeOK'
    BY <1>0, <1>1, <1>6, <1>10 DEF SourceTypeOK
  <1>13. PlacesInv'
    <2>1. \A r \in Reader : OnItsWay(r)' => Kept(r)'
      BY <1>0, <1>5, <1>7, <1>11 DEF PlacesInv, ReadersKept
    <2>2. \A r \in Reader : InJobs(r)' => ~InCalls(r)' /\ ~InWait(r)'
      BY <1>0, <1>3, <1>4, <1>5, <1>10 DEF PlacesInv
    <2>3. \A r \in Reader : InCalls(r)' => ~InWait(r)'
      BY <1>0, <1>3, <1>10 DEF PlacesInv
    <2>4. \A r \in Reader : Once(jobs, r)'
      BY <1>0, <1>4 DEF PlacesInv
    <2> QED BY <1>3, <1>10, <2>1, <2>2, <2>3, <2>4 DEF PlacesInv
  <1>14. LoadInv'
    <2>1. /\ \A m \in Load : Kept(m)' => Exists(file)' /\ loaded' \in {0, mtime'}
          /\ \A m \in Load : InCalls(m)' => opened'[m] \in {0, mtime'}
      BY <1>0, <1>1, <1>3, <1>7, <1>9 DEF LoadInv, ReadersKept, Exists
    <2>2. \A m \in Load : InWait(m)' => opened'[m] = mtime'
      BY <1>0, <1>1, <1>9, <1>10 DEF LoadInv
    <2>3. \A f \in Showing' :
              f.request \in Load /\ ~Kept(f.request)' /\ opened'[f.request] = mtime' /\ loaded' \in {0, mtime'}
      BY <1>0, <1>1, <1>7, <1>9 DEF LoadInv, ReadersKept, FramesSame
    <2> QED BY <2>1, <2>2, <2>3 DEF LoadInv
  <1>15. CallInv'
    <2>1. isActual' <=> isActual
      BY <1>1, <1>9 DEF isActual
    <2> QED BY <1>0, <1>1, <1>7, <2>1 DEF CallInv, ReadersKept
  <1>16. ShowInv'
    BY <1>0, <1>1, <1>7, <1>8, ShowStay DEF Ordinary, FramesSame
  <1>17. DrawInv'
    BY <1>0, <1>1, <1>7, <1>9 DEF DrawInv, FramesSame, ReadersKept, Exists
  <1> QED BY <1>9, <1>12, <1>13, <1>14, <1>15, <1>16, <1>17 DEF SourceInv

(* The last part of a load.                                                 *)
LEMMA FinishKeeps ==
    ASSUME Discipline, AssetAll, SourceInv, NEW l \in Load, FinishLoad(l)
    PROVE  AssetAll' /\ SourceInv'
  <1>0. /\ LockInv /\ SourceTypeOK /\ PlacesInv /\ CallInv
        /\ l \in Reader /\ Load \subseteq Reader
    BY SourceParameters DEF AssetAll, AssetInv, SourceInv, SourceParameters
  <1>1. /\ asking = {} /\ waiting # <<>> /\ l = Head(waiting) /\ waiting' = Tail(waiting)
        /\ loading' = FALSE /\ Releases(l, After(l)) /\ Hears({})
        /\ UNCHANGED <<server, disk, flags, threads, kills>>
        /\ UNCHANGED <<attached, enabled, loaded, document, retry, asking, known, path, jobs, opened, drawn>>
    BY DEF FinishLoad, Finishing, After, Shown, ShownFrame, Others, texture
  <1>2. UNCHANGED <<calls, download, work, saves, version>>
    BY <1>1 DEF threads
  <1>3. /\ waiting' \in Seq(Load) /\ InWait(l) /\ ~InWait(l)'
        /\ \A q \in Reader : q # l => (InWait(q)' <=> InWait(q))
        /\ \A q \in Reader : Once(waiting, q)'
    <2>1. waiting \in Seq(Load)
      BY <1>0 DEF SourceTypeOK
    <2>2. /\ waiting' \in Seq(Load)
          /\ \A y : In(waiting, y) <=> In(waiting', y) \/ y = l
          /\ \A y : Once(waiting, y) => Once(waiting', y) /\ (y = l => ~In(waiting', y))
      BY <1>1, <2>1, TailIn
    <2>3. \A q \in Reader : Once(waiting, q)
      BY <1>0 DEF PlacesInv
    <2>4. \A q : InWait(q) <=> In(waiting, q)
      BY DEF InWait
    <2>5. \A q : (InWait(q)' <=> In(waiting', q)) /\ (Once(waiting, q)' <=> Once(waiting', q))
      BY DEF InWait, In, Once
    <2> QED BY <1>0, <2>2, <2>3, <2>4, <2>5
  <1>4. \A q : /\ (InJobs(q)' <=> InJobs(q)) /\ (Once(jobs, q)' <=> Once(jobs, q))
               /\ (InCalls(q)' <=> InCalls(q)) /\ (Once(calls, Message(q))' <=> Once(calls, Message(q)))
    BY <1>1, <1>2, SamePlaces
  <1>5. ~InJobs(l) /\ ~InCalls(l)
    BY <1>0, <1>3 DEF PlacesInv
  <1>6. SourceLock /\ UNCHANGED <<status, readQueue>>
    BY <1>0, <1>1, ReleaseView
  <1>7. heard' \subseteq heard \cup {"other"}
    BY <1>1, News
  <1>8. Ordinary
    <2>1. UserStep
      BY <1>1, <1>2, <1>6 DEF UserStep
    <2>2. \A q \in Reader : Holding(q)' => Holding(q)
      BY <1>6 DEF Holding
    <2> QED BY <1>0, <1>1, <1>6, <1>7, <2>1, <2>2 DEF Ordinary, CallInv
  <1>9. SourceTypeOK'
    BY <1>0, <1>1, <1>3, <1>7 DEF SourceTypeOK
  <1>10. \A q \in Reader : Once(jobs, q)' /\ Once(calls, Message(q))'
    BY <1>0, <1>4 DEF PlacesInv
  <1>11. Ends(l)
    BY <1>1, <1>3, <1>4, <1>5, <1>8, <1>10 DEF Ends
  <1> QED BY <1>0, <1>9, <1>11, EndsKeep

(* The document of a load that has let go of the asset is shown, and it is  *)
(* the one of which the pages are drawn that are drawn meanwhile.           *)
LEMMA DocumentKeeps ==
    ASSUME Discipline, AssetAll, SourceInv, OnDocumentLoaded
    PROVE  /\ AssetAll' /\ SourceInv'
           /\ \A d \in Draw : Holding(d) => document' = document
  <1>0. /\ LockInv /\ Types /\ SourceTypeOK /\ PlacesInv /\ LoadInv /\ CallInv /\ ShowInv /\ DrawInv /\ OldInv
        /\ Load \subseteq Reader /\ Draw \subseteq Reader /\ mtime \in 0 .. MaxVersion
    BY SourceParameters DEF AssetAll, AssetInv, SourceInv, SourceParameters, Types, TypeOK
  <1>1. /\ Innermost("shown") /\ stack' = Tail(stack)
        /\ path' = FALSE /\ document' = opened[Head(stack).request]
        /\ UNCHANGED <<lock, lockers, readQueue, writeQueue, status>>
        /\ UNCHANGED <<server, disk, flags, threads, kills>>
        /\ UNCHANGED <<attached, enabled, loaded, loading, retry, asking, known, waiting, heard,
                       jobs, opened, drawn>>
    BY DEF OnDocumentLoaded, Others, externals, texture
  <1>2. UNCHANGED <<calls, download, work, saves, version>>
    BY <1>1 DEF threads
  <1>3. PopsFile
    BY <1>1 DEF PopsFile
  <1>4. ReadersKept /\ Head(stack) \in Showing /\ Showing' \subseteq Showing
    BY <1>0, <1>1, <1>3, PopsReaders
  <1>5. /\ document' = mtime /\ loaded \in {0, mtime}
        /\ \A d \in Draw : Holding(d) => document = mtime
    BY <1>0, <1>1, <1>4 DEF LoadInv, DrawInv
  <1>6. Ordinary
    <2>1. UserStep
      BY <1>1, <1>2, <1>3 DEF UserStep, SourceLock
    <2> QED BY <1>0, <1>1, <1>4, <2>1 DEF Ordinary, CallInv, ReadersKept
  <1>7. AssetAll' /\ UNCHANGED <<file, mtime, unupdated>>
    BY <1>6, OrdinaryKeeps
  <1>8. \A q : /\ (InJobs(q)' <=> InJobs(q)) /\ (Once(jobs, q)' <=> Once(jobs, q))
               /\ (InCalls(q)' <=> InCalls(q)) /\ (Once(calls, Message(q))' <=> Once(calls, Message(q)))
               /\ (InWait(q)' <=> InWait(q)) /\ (Once(waiting, q)' <=> Once(waiting, q))
    BY <1>1, <1>2, SamePlaces
  <1>9. \A q : OnItsWay(q)' <=> OnItsWay(q)
    BY <1>8, Places, PlacesNext
  <1>10. SourceTypeOK'
    BY <1>0, <1>1, <1>5 DEF SourceTypeOK
  <1>11. PlacesInv'
    BY <1>0, <1>4, <1>8, <1>9 DEF PlacesInv, ReadersKept
  <1>12. LoadInv'
    <2>1. /\ \A l \in Load : Kept(l)' => Exists(file)' /\ loaded' \in {0, mtime'}
          /\ \A l \in Load : InCalls(l)' => opened'[l] \in {0, mtime'}
          /\ \A l \in Load : InWait(l)' => opened'[l] = mtime'
      BY <1>0, <1>1, <1>4, <1>7, <1>8 DEF LoadInv, ReadersKept, Exists
    <2>2. \A f \in Showing' :
              f.request \in Load /\ ~Kept(f.request)' /\ opened'[f.request] = mtime' /\ loaded' \in {0, mtime'}
      BY <1>0, <1>1, <1>4, <1>7 DEF LoadInv, ReadersKept
    <2> QED BY <2>1, <2>2 DEF LoadInv
  <1>13. CallInv'
    <2>1. \A r \in Request : status[r] # "calling"
      <3>1. ~Top("call")
        <4>1. stack \in Seq(Frames) /\ stack # <<>>
          BY <1>0, <1>1 DEF LockInv, Innermost
        <4>2. Head(stack) = stack[1]
          BY <4>1, Sequence
        <4> QED BY <1>1, <4>2 DEF Top, Innermost
      <3> QED BY <3>1 DEF AssetAll, QueuesInv, CallingInv
    <2> QED BY <1>0, <1>1, <2>1 DEF CallInv, Reader, SourceParameters
  <1>14. ShowInv'
    <2>1. loaded' \in {0, mtime, loaded}
      BY <1>1
    <2>2. /\ Exists(file)' /\ Moving' = {} => file'[2] = mtime'
          /\ \A w \in Swap : Back(w)' => Exists(file)' /\ file'[2] = version'[w]
          /\ loaded' <= mtime'
      BY <1>0, <1>6, <2>1, UserShow DEF Ordinary
    <2>3. document' <= mtime'
      BY <1>0, <1>5, <1>7
    <2> QED BY <1>1, <1>5, <2>2, <2>3 DEF ShowInv
  <1>15. DrawInv'
    BY <1>5, <1>7 DEF DrawInv
  <1>16. OldInv'
    <2>1. attached /\ attached'
      BY <1>0, <1>1, <1>4 DEF OldInv
    <2> QED BY <1>5, <1>7, <2>1 DEF OldInv
  <1> QED BY <1>5, <1>7, <1>10, <1>11, <1>12, <1>13, <1>14, <1>15, <1>16 DEF SourceInv

-----------------------------------------------------------------------------
(* Every step, and the beginning.                                           *)
LEMMA SourceStep ==
    ASSUME Discipline, AssetAll, SourceInv, [SourceNext]_sourceVars
    PROVE  AssetAll' /\ SourceInv'
  <1>0. SourceTypeOK
    BY DEF SourceInv
  <1>1. CASE Attach \/ Refresh \/ Enable \/ Frame
    BY <1>1, LooksAt, LooksKeep
  <1>2. CASE Disable \/ Retry
    BY <1>0, <1>2, DisableStands, RetryStands, StandsKeep
  <1>3. ASSUME NEW d \in Draw, Run(d) PROVE AssetAll' /\ SourceInv'
    BY <1>3, RunStands, StandsKeep
  <1>4. CASE OpenDocument \/ MakeTexture
    BY <1>4, TextureKeeps
  <1>5. ASSUME NEW e \in External, OnExternal(e) PROVE AssetAll' /\ SourceInv'
    BY <1>0, <1>5, ExternalStands, StandsKeep
  <1>6. CASE OnDocumentLoaded
    BY <1>6, DocumentKeeps
  <1>7. ASSUME NEW l \in Load, OnLoaded(l) PROVE AssetAll' /\ SourceInv'
    BY <1>7, LoadedKeeps
  <1>8. ASSUME NEW d \in Draw, OnAssetCaptured(d) \/ OnDrawn(d) PROVE AssetAll' /\ SourceInv'
    BY <1>8, CapturedKeeps, DrawnKeeps
  <1>9. CASE AssetStep
    BY <1>9, AssetStepInv
  <1>10. CASE UNCHANGED sourceVars
    <2>1. /\ UNCHANGED <<lockVars, server, disk, flags, download, work, calls, saves, version, kills>>
          /\ UNCHANGED <<attached, enabled, loaded, loading, document, retry, asking, known, waiting,
                         heard, path, jobs, opened, drawn>>
      BY <1>10 DEF sourceVars, vars, threads, source, externals, texture
    <2>2. UserStep
      BY <2>1 DEF UserStep, SourceLock
    <2>3. ReadersKept /\ FramesSame
      BY <2>1, SameReaders
    <2>4. {enabled', retry'} \subseteq BOOLEAN
      BY <1>0, <2>1 DEF SourceTypeOK
    <2>5. Stands
      BY <2>1, <2>2, <2>3, <2>4 DEF Stands, ReadersKept
    <2> QED BY <2>5, StandsKeep
  <1>11. ASSUME NEW l \in Load, FinishLoad(l) PROVE AssetAll' /\ SourceInv'
    BY <1>11, FinishKeeps
  <1>12. CASE SourceUsers
    BY <1>1, <1>2, <1>3, <1>9, <1>12 DEF SourceUsers, AssetStep
  <1>13. CASE SourceCalls
    BY <1>6, <1>7, <1>8, <1>9, <1>11, <1>13 DEF SourceCalls, AssetStep
  <1> QED BY <1>1, <1>4, <1>5, <1>9, <1>10, <1>12, <1>13 DEF SourceNext, AssetStep

(* The invariant holds at the beginning.                                    *)
LEMMA SourceBegins ==
    ASSUME Discipline, SourceInit
    PROVE  AssetAll /\ SourceInv
  <1>0. /\ LockParameters /\ AssetParameters /\ 1 \in 0 .. MaxVersion /\ 0 \in 0 .. MaxVersion /\ 1 \in Version
        /\ Clear \in Request /\ \A w \in Swap : w \in Request
        /\ \A r \in Reader : r \in Request
        /\ Load \subseteq Reader /\ Draw \subseteq Reader
    BY LockParameters, AssetParameters, SourceParameters
    DEF AssetParameters, SourceParameters, Writer, Reader, Version
  <1>1. /\ lock = "None" /\ stack = <<>> /\ DOMAIN stack = {} /\ status = [r \in Request |-> "idle"]
        /\ writeQueue = <<>> /\ readQueue = <<>> /\ DOMAIN writeQueue = {}
        /\ DOMAIN work = {} /\ work = <<>> /\ DOMAIN saves = {} /\ saves = <<>>
        /\ server = 1 /\ temp = Missing /\ download = NoDownload
        /\ version = [w \in Swap |-> 0]
        /\ unupdated = FALSE /\ waitFileSwap = FALSE /\ downloadInProgress = FALSE /\ fileUpdate = FALSE
    BY DEF SourceInit, LockInit
  <1>2. PICK had \in BOOLEAN :
            /\ file = IF had THEN <<1, 1>> ELSE Missing
            /\ mtime = (IF had THEN 1 ELSE 0) /\ row = Row(mtime, FALSE)
            /\ fileExisted = had
            /\ calls = IF had THEN <<Opened>> ELSE <<>>
    BY DEF SourceInit
  <1>3. /\ mtime \in {0, 1} /\ mtime \in 0 .. MaxVersion
        /\ file \in Contents /\ (Exists(file) => file[1] = 1 /\ file[2] = 1)
        /\ Exists(file) <=> had
        /\ mtime = 1 <=> had
    <2>1. <<1, 1>> \in Contents /\ Missing \in Contents /\ <<1, 1>> # Missing
      BY <1>0 DEF Contents, Missing
    <2> QED BY <1>0, <1>2, <2>1 DEF Exists
  <1>4. /\ calls \in Seq(Called) /\ \A i \in DOMAIN calls : i = 1 /\ calls[i] = Opened
        /\ Opened.what = "opened"
    <2>1. Opened \in Called /\ Opened.what = "opened"
      BY <1>0, CalledMade DEF Opened
    <2> HIDE DEF Called
    <2>2. CASE had
      BY <1>2, <2>1, <2>2
    <2>3. CASE ~had
      BY <1>2, <2>1, <2>3
    <2> QED BY <2>2, <2>3
  <1>5. LockInv
    BY <1>0, InitLock DEF SourceInit
  <1>6. Types
    <2>1. LockTypeOK
      BY <1>5 DEF LockInv
    <2>2. server \in Version /\ temp \in Contents
      BY <1>0, <1>1, ValuesMade
    <2>3. row \in Rows
      BY <1>2, <1>3 DEF Row, Rows
    <2>4. download.state = "none" /\ download \in [state : {"none", "asked", "receiving", "answered"},
                     known : 0 .. MaxVersion, version : 0 .. MaxVersion]
      BY <1>0, <1>1 DEF NoDownload
    <2>5. work \in Seq(Works) /\ version \in [Swap -> 0..MaxVersion] /\ saves \in Seq(Rows)
      BY <1>0, <1>1
    <2>6. {fileExisted, unupdated, waitFileSwap, downloadInProgress, fileUpdate} \subseteq BOOLEAN
      BY <1>1, <1>2
    <2> QED BY <1>3, <1>4, <2>1, <2>2, <2>3, <2>4, <2>5, <2>6 DEF Types, TypeOK, ThreadsOK, Rows, Works
  <1>7. Moving = {} /\ \A w \in Swap : ~Back(w)
    BY <1>1, <1>4 DEF Moving, Back, Swapped, Opened
  <1>8. SwapInv
    BY <1>1, <1>4, <1>7 DEF SwapInv
  <1>9. \A r \in Request : status[r] = "idle" /\ ~Holding(r) /\ ~Kept(r) /\ ~Waiting(r)
    BY <1>1 DEF Holding, Kept, Waiting
  <1>10. AssetInv
    BY <1>5, <1>6, <1>8 DEF AssetInv
  <1>11. QueuesInv
    BY <1>1, <1>9 DEF QueuesInv, CallingInv, WritersInv, WaitingInv, PopPending
  <1>12. DataInv
    BY <1>0, <1>1, <1>2, <1>3, <1>4, <1>7, <1>9
    DEF DataInv, PhaseInv, FlagsInv, Active, Answered, FilePending, NoDownload, Kept, Waiting
  <1>13. TempInv /\ VersionInv
    <2>1. \A w \in Swap : ~Ahead(w)
      BY <1>0, <1>1, <1>9 DEF Ahead, Working
    <2>2. \A i \in DOMAIN calls : ~Brings(calls[i])
      BY <1>4 DEF Brings
    <2>3. download.state # "receiving" /\ ~Exists(temp)
      BY <1>1 DEF NoDownload, Exists
    <2> QED BY <2>1, <2>2, <2>3 DEF TempInv, VersionInv
  <1>14. ClaimsInv
    <2>1. row.mtime = mtime
      BY <1>2 DEF Row
    <2>2. Claims = {mtime}
      BY <1>1, <1>7, <2>1 DEF Claims
    <2>3. \A v \in {1} : Cover(v)
      BY <1>3, <2>2 DEF Cover
    <2>4. ~Complete(temp) /\ download.state # "receiving"
      BY <1>1 DEF Complete, Missing, NoDownload
    <2> QED BY <1>1, <1>3, <2>3, <2>4 DEF ClaimsInv
  <1>15. AssetAll
    BY <1>10, <1>11, <1>12, <1>13, <1>14 DEF AssetAll
  <1>16. /\ attached = FALSE /\ enabled \in BOOLEAN /\ loaded = 0 /\ loading = FALSE /\ document = 0
         /\ asking = {} /\ known = {} /\ waiting = <<>> /\ DOMAIN waiting = {}
         /\ retry = FALSE /\ heard = {} /\ path = FALSE
         /\ jobs = <<>> /\ DOMAIN jobs = {} /\ opened = [l \in Load |-> 0] /\ drawn = {}
    BY DEF SourceInit
  <1>17. SourceTypeOK
    <2>1. waiting \in Seq(Load) /\ jobs \in Seq(Reader)
      BY <1>16
    <2>2. {attached, enabled, loading, retry, path} \subseteq BOOLEAN
      BY <1>16
    <2>3. opened \in [Load -> 0 .. MaxVersion] /\ {loaded, document} \subseteq 0 .. MaxVersion
      BY <1>0, <1>16
    <2> QED BY <1>16, <2>1, <2>2, <2>3 DEF SourceTypeOK
  <1>18. \A r : ~InJobs(r) /\ ~InWait(r) /\ ~InCalls(r)
    <2>1. \A r : Message(r).what # "opened"
      BY MessagesMade DEF Message
    <2> QED BY <1>4, <1>16, <2>1 DEF InJobs, InWait, InCalls, In
  <1>19. \A r : ~OnItsWay(r)
    BY <1>18, Places
  <1>20. PlacesInv
    BY <1>0, <1>4, <1>9, <1>16, <1>18, <1>19 DEF PlacesInv, Once
  <1>21. Showing = {}
    BY <1>1 DEF Showing
  <1>22. LoadInv
    BY <1>0, <1>9, <1>18, <1>21 DEF LoadInv
  <1>23. CallInv
    BY <1>0, <1>1, <1>9 DEF CallInv
  <1>24. ShowInv
    BY <1>0, <1>3, <1>7, <1>16 DEF ShowInv
  <1>25. DrawInv
    BY <1>0, <1>9 DEF DrawInv
  <1>26. OldInv
    BY <1>0, <1>9, <1>16, <1>21 DEF OldInv
  <1> QED BY <1>15, <1>17, <1>20, <1>22, <1>23, <1>24, <1>25, <1>26 DEF SourceInv

(* The invariant holds always.                                              *)
LEMMA SourceInductive == ASSUME Discipline PROVE SourceSpec => [](AssetAll /\ SourceInv)
  <1>1. SourceInit => AssetAll /\ SourceInv
    BY SourceBegins
  <1>2. AssetAll /\ SourceInv /\ [SourceNext]_sourceVars => (AssetAll /\ SourceInv)'
    BY SourceStep
  <1>3. SourceSpec => SourceInit /\ [][SourceNext]_sourceVars
    BY PTL DEF SourceSpec
  <1> QED BY <1>1, <1>2, <1>3, PTL

-----------------------------------------------------------------------------
(* The types of the source hold, and those of its asset with them.          *)
THEOREM SourceTypesHold == ASSUME Discipline PROVE SourceSpec => [](TypeOK /\ SourceTypeOK)
  <1>1. AssetAll /\ SourceInv => TypeOK /\ SourceTypeOK
    BY DEF AssetAll, AssetInv, Types, SourceInv
  <1> QED BY <1>1, SourceInductive, PTL

(* A load that waits for the texture thread finds the file of the asset     *)
(* (tryLoadDocument, openDocument in RTSourceAsset.cc), and of the version  *)
(* that was noted last, while other loads, refreshes and announcements come *)
(* in between.  That it finds the path as well does not hold.               *)
THEOREM LoadFindsFile == ASSUME Discipline PROVE SourceSpec => []OpensItsFile
  <1>1. AssetAll /\ SourceInv => OpensItsFile
    <2> SUFFICES ASSUME AssetAll, SourceInv, NEW i \in DOMAIN jobs, jobs[i] \in Load
                 PROVE  Exists(file) /\ loaded \in {0, file[2]}
      BY DEF OpensItsFile
    <2>0. jobs[i] \in Reader /\ LoadInv /\ ShowInv /\ PlacesInv /\ AssetInv
      BY SourceParameters DEF SourceInv, AssetAll, SourceParameters
    <2>1. Kept(jobs[i])
      BY <2>0, Places DEF PlacesInv, InJobs, In
    <2>2. Moving = {}
      <3>1. ReadHeld
        BY <2>0, <2>1 DEF ReadHeld, Kept, Holding
      <3> QED BY <2>0, <3>1, ReadAlone, LockParameters, AssetParameters
    <2> QED BY <2>0, <2>1, <2>2 DEF LoadInv, ShowInv
  <1> QED BY <1>1, SourceInductive, PTL

(* A source that says it is actual shows the version that is on the disk    *)
(* (isActual, tryLoadDocument, the order of the swap), unless its asset     *)
(* says itself that it is not up to date.                                   *)
THEOREM ActualShown == ASSUME Discipline PROVE SourceSpec => []ActualIsShown
  <1>1. AssetAll /\ SourceInv => ActualIsShown
    <2> SUFFICES ASSUME AssetAll, SourceInv, Idle, isActual, isReadAvailable, ~unupdated
                 PROVE  document = file[2]
      BY DEF ActualIsShown
    <2>1. /\ ShowInv /\ loaded \in Nat /\ mtime \in Nat /\ document \in Nat
          /\ loaded <= mtime /\ document <= mtime
      BY AssetParameters
      DEF SourceInv, ShowInv, SourceTypeOK, AssetAll, AssetInv, Types, TypeOK, AssetParameters
    <2>2. file[2] = mtime
      BY <2>1, Readable
    <2>3. document # 0 /\ ~loading /\ loaded >= mtime
      BY DEF isActual
    <2>4. loaded = mtime /\ loaded # 0
      BY <2>1, <2>3
    <2>5. Showing = {}
      BY IdleFrames DEF Idling
    <2> QED BY <2>1, <2>2, <2>3, <2>4, <2>5 DEF ShowInv
  <1> QED BY <1>1, SourceInductive, PTL

(* The version that is shown stays while a page of it is drawn              *)
(* (onDocumentLoaded, Request::onAssetCaptured), for any number of loads    *)
(* and pages in any order.                                                  *)
THEOREM DocumentStable == ASSUME Discipline PROVE SourceSpec => DrawStable
  <1>1. AssetAll /\ SourceInv /\ [SourceNext]_sourceVars =>
            [\A d \in Draw : Holding(d) /\ Holding(d)' /\ d \notin drawn' => document' = document]_sourceVars
    <2> SUFFICES ASSUME AssetAll, SourceInv, SourceNext, NEW d \in Draw, Holding(d)
                 PROVE  document' = document
      OBVIOUS
    <2>1. CASE OnDocumentLoaded
      BY <2>1, DocumentKeeps
    <2>2. CASE Attach \/ Refresh \/ Enable \/ Frame
      BY <2>2, LooksAt DEF Looks
    <2>3. CASE Rest
      BY <2>3 DEF Rest, source
    <2>4. CASE SourceUsers
      BY <2>2, <2>3, <2>4 DEF SourceUsers, Disable, Retry, Run, source
    <2>5. CASE SourceCalls
      BY <2>1, <2>3, <2>5 DEF SourceCalls, FinishLoad, OnLoaded, OnAssetCaptured, OnDrawn, source
    <2>6. CASE OpenDocument \/ MakeTexture \/ \E e \in External : OnExternal(e)
      BY <2>6 DEF OpenDocument, MakeTexture, OnExternal, source
    <2> QED BY <2>2, <2>3, <2>4, <2>5, <2>6 DEF SourceNext
  <1>2. SourceSpec => [][SourceNext]_sourceVars
    BY PTL DEF SourceSpec
  <1> QED BY <1>1, <1>2, SourceInductive, PTL DEF DrawStable

-----------------------------------------------------------------------------
(* Nobody holds the asset without a reason, whatever its users do.          *)
IsSeq(s)  == \E S : s \in Seq(S)
Reason(r) == OnItsWay(r) \/ (r \in Load /\ opened[r] = 0) \/ r \in drawn

Shapes ==
    /\ DOMAIN status = Request /\ DOMAIN opened = Load
    /\ IsSeq(stack) /\ IsSeq(calls) /\ IsSeq(jobs) /\ IsSeq(waiting)

(* A holder that is not about to let go of the lock has a reason, and one   *)
(* whose function is to be called will be called.                           *)
HolderInv ==
    /\ Shapes
    /\ \A r \in Reader : status[r] = "held" => Reason(r) \/ In(stack, Release(r))
    /\ \A r \in Reader : status[r] = "calling" => In(stack, Call(r))

LEMMA PlainAppended ==
    ASSUME NEW s, IsSeq(s), NEW x
    PROVE  IsSeq(Append(s, x)) /\ \A y : In(Append(s, x), y) <=> In(s, y) \/ y = x
  <1>1. PICK S : s \in Seq(S)
    BY DEF IsSeq
  <1>2. s \in Seq(S \cup {x}) /\ x \in S \cup {x}
    <2>1. \A i \in 1..Len(s) : s[i] \in S
      BY <1>1
    <2> QED BY <1>1, <2>1, SeqDef
  <1> QED BY <1>2, AppendedIn DEF IsSeq

LEMMA PlainTail ==
    ASSUME NEW s, IsSeq(s), s # <<>>
    PROVE  IsSeq(Tail(s)) /\ \A y : In(s, y) <=> In(Tail(s), y) \/ y = Head(s)
  <1>1. PICK S : s \in Seq(S)
    BY DEF IsSeq
  <1> QED BY <1>1, TailIn DEF IsSeq

LEMMA PlainPushed ==
    ASSUME NEW s, IsSeq(s), NEW x
    PROVE  /\ IsSeq(<<x>> \o s) /\ \A y : In(<<x>> \o s, y) <=> In(s, y) \/ y = x
           /\ <<>> \o s = s
  <1>1. PICK S : s \in Seq(S)
    BY DEF IsSeq
  <1> DEFINE t == <<x>> \o s
  <1>2. s \in Seq(S \cup {x}) /\ <<x>> \in Seq(S \cup {x}) /\ Len(<<x>>) = 1 /\ <<x>>[1] = x
    <2>1. \A i \in 1..Len(s) : s[i] \in S
      BY <1>1
    <2> QED BY <1>1, <2>1, SeqDef
  <1>3. /\ t \in Seq(S \cup {x}) /\ Len(s) \in Nat /\ DOMAIN s = 1..Len(s)
        /\ DOMAIN t = 1..Len(s) + 1
        /\ \A i \in 1..Len(s) + 1 : t[i] = IF i = 1 THEN x ELSE s[i - 1]
    BY <1>2
  <1>4. IsSeq(t)
    <2> HIDE DEF t
    <2> QED BY <1>3 DEF IsSeq
  <1>5. \A i \in DOMAIN t : t[i] = x \/ (i - 1 \in DOMAIN s /\ t[i] = s[i - 1])
    BY <1>3
  <1>6. \A i \in DOMAIN s : i + 1 \in DOMAIN t /\ t[i + 1] = s[i]
    <2> SUFFICES ASSUME NEW i \in DOMAIN s PROVE i + 1 \in DOMAIN t /\ t[i + 1] = s[i]
      OBVIOUS
    <2>1. i \in Nat /\ i # 0 /\ i + 1 \in 1..Len(s) + 1 /\ (i + 1) - 1 = i /\ i + 1 # 1
      BY <1>3
    <2> QED BY <1>3, <2>1
  <1>7. 1 \in DOMAIN t /\ t[1] = x
    BY <1>3
  <1>8. <<>> \o s = s
    BY <1>1
  <1> HIDE DEF t
  <1>9. \A y : In(t, y) <=> In(s, y) \/ y = x
    BY <1>5, <1>6, <1>7 DEF In
  <1> QED BY <1>4, <1>8, <1>9 DEF t

LEMMA PlainEmpty == IsSeq(<<>>) /\ \A y : ~In(<<>>, y)
  <1>1. <<>> \in Seq({})
    OBVIOUS
  <1> QED BY <1>1 DEF IsSeq, In

(* The calls in progress are told apart by what they do and for whom.       *)
LEMMA FramesDiffer ==
    \A r : /\ Release(r).op = "release" /\ Release(r).request = r
           /\ Call(r).op = "call" /\ Call(r).request = r
  BY DEF Release, Call

(* What the lock does for the asset and its writers leaves the readers who  *)
(* hold it, and calls those who get it.                                     *)
Carries ==
    /\ DOMAIN status' = Request /\ IsSeq(stack')
    /\ \A r \in Reader :
           /\ status'[r] = "held" =>
                  status[r] = "held" /\ (In(stack, Release(r)) => In(stack', Release(r)))
           /\ status'[r] = "calling" =>
                  \/ In(stack', Call(r))
                  \/ status[r] = "calling" /\ (In(stack, Call(r)) => In(stack', Call(r)))

TopTaken(op) == Innermost(op) /\ stack' = Tail(stack) /\ UNCHANGED status

LEMMA GrantCarries ==
    ASSUME Shapes, NEW r, NEW rest, IsSeq(rest), Grant(r, rest),
           \A s : (In(stack, Release(s)) => In(rest, Release(s)))
                  /\ (In(stack, Call(s)) => In(rest, Call(s)))
    PROVE  Carries
  <1>1. status' = [status EXCEPT ![r] = "calling"] /\ stack' = <<Call(r)>> \o rest /\ DOMAIN status = Request
    BY DEF Grant, Shapes
  <1>2. IsSeq(stack') /\ \A y : In(stack', y) <=> In(rest, y) \/ y = Call(r)
    BY <1>1, PlainPushed
  <1>3. DOMAIN status' = Request /\ \A s \in Request : s # r => status'[s] = status[s]
    BY <1>1
  <1>4. r \in Request => status'[r] = "calling"
    BY <1>1
  <1> QED BY <1>2, <1>3, <1>4 DEF Carries, Reader

LEMMA RetainCarries ==
    ASSUME Shapes, NEW r \in Request, Retain(r)
    PROVE  Carries
  <1>1. CASE Grant(r, <<>>)
    BY <1>1, PlainEmpty, GrantCarries DEF Retain, Idle
  <1>2. CASE Enqueue(r) /\ UNCHANGED stack
    <2>1. DOMAIN status' = Request /\ \A s \in Request : status'[s] = IF s = r THEN "queued" ELSE status[s]
      BY <1>2 DEF Enqueue, Shapes
    <2> QED BY <1>2, <2>1 DEF Carries, Shapes, Reader
  <1> QED BY <1>1, <1>2 DEF Retain

LEMMA PoppedCarries ==
    ASSUME Shapes, NEW op, op \notin {"release", "call"}, TopTaken(op)
    PROVE  Carries
  <1>1. stack # <<>> /\ Head(stack).op = op /\ stack' = Tail(stack) /\ status' = status
    BY DEF TopTaken, Innermost
  <1>2. IsSeq(stack') /\ \A y : In(stack, y) => In(stack', y) \/ y = Head(stack)
    BY <1>1, PlainTail DEF Shapes
  <1> QED BY <1>1, <1>2, FramesDiffer DEF Carries, Shapes

LEMMA CallsCarries ==
    ASSUME Shapes, NEW w \in Request, w \notin Reader, Calls(w)
    PROVE  Carries
  <1>1. /\ stack # <<>> /\ Head(stack).op = "call" /\ Head(stack).request = w
        /\ status' = [status EXCEPT ![w] = "held"]
        /\ stack' = (IF w \in Brief THEN <<Release(w)>> ELSE <<>>) \o Tail(stack)
    BY DEF Calls, Innermost
  <1>2. IsSeq(Tail(stack)) /\ \A y : In(stack, y) => In(Tail(stack), y) \/ y = Head(stack)
    BY <1>1, PlainTail DEF Shapes
  <1>3. IsSeq(stack') /\ \A y : In(Tail(stack), y) => In(stack', y)
    <2>1. CASE w \in Brief
      BY <1>1, <1>2, <2>1, PlainPushed
    <2>2. CASE w \notin Brief
      BY <1>1, <1>2, <2>2, PlainPushed
    <2> QED BY <2>1, <2>2
  <1>4. DOMAIN status' = Request /\ \A r \in Reader : status'[r] = status[r]
    BY <1>1 DEF Shapes, Reader
  <1> QED BY <1>1, <1>2, <1>3, <1>4, FramesDiffer DEF Carries

LEMMA ReleaseCarries ==
    ASSUME Shapes, ReleaseLock
    PROVE  Carries
  <1>1. PICK f : f = Head(stack)
    OBVIOUS
  <1>2. /\ stack # <<>> /\ f.op = "release"
        /\ status' = [status EXCEPT ![f.request] = IF f.request \in Repeated THEN "idle" ELSE "done"]
        /\ stack' = Tail(stack) \/ stack' = <<Finish>> \o Tail(stack)
    <2>1. \/ stack' = <<>> \o Tail(stack)
          \/ stack' = <<Finish>> \o Tail(stack)
      BY DEF ReleaseLock
    <2>2. stack # <<>> /\ f.op = "release"
      BY <1>1 DEF ReleaseLock, Innermost
    <2>3. <<>> \o Tail(stack) = Tail(stack)
      BY <2>2, PlainTail, PlainPushed DEF Shapes
    <2> QED BY <1>1, <2>1, <2>2, <2>3 DEF ReleaseLock
  <1>3. IsSeq(Tail(stack)) /\ \A y : In(stack, y) => In(Tail(stack), y) \/ y = f
    BY <1>1, <1>2, PlainTail DEF Shapes
  <1>4. IsSeq(stack') /\ \A y : In(Tail(stack), y) => In(stack', y)
    <2>1. IsSeq(<<Finish>> \o Tail(stack)) /\ \A y : In(Tail(stack), y) => In(<<Finish>> \o Tail(stack), y)
      BY <1>3, PlainPushed
    <2> QED BY <1>2, <1>3, <2>1
  <1>5. /\ DOMAIN status' = Request
        /\ \A r \in Request : IF r = f.request THEN status'[r] \notin {"held", "calling"} ELSE status'[r] = status[r]
    BY <1>2 DEF Shapes
  <1> QED BY <1>2, <1>3, <1>4, <1>5, FramesDiffer DEF Carries, Reader

LEMMA FinishedCarries ==
    ASSUME Shapes, OnLockFinished \/ GrantsReader
    PROVE  Carries
  <1>1. PICK f : f = Head(stack)
    OBVIOUS
  <1>2. stack # <<>> /\ f.op \in {"finish", "readers"}
    BY <1>1 DEF OnLockFinished, GrantsReader, Innermost
  <1>3. IsSeq(Tail(stack)) /\ \A y : In(stack, y) => In(Tail(stack), y) \/ y = f
    BY <1>1, <1>2, PlainTail DEF Shapes
  <1>4. /\ \A s : (In(stack, Release(s)) => In(Tail(stack), Release(s)))
        /\ \A s : (In(stack, Call(s)) => In(Tail(stack), Call(s)))
    BY <1>2, <1>3, FramesDiffer
  <1>5. ASSUME NEW r, NEW x, Grant(r, <<x>> \o Tail(stack)) PROVE Carries
    <2>1. IsSeq(<<x>> \o Tail(stack)) /\ \A y : In(Tail(stack), y) => In(<<x>> \o Tail(stack), y)
      BY <1>3, PlainPushed
    <2> QED BY <1>4, <1>5, <2>1, GrantCarries
  <1>6. ASSUME NEW x, stack' = <<x>> \o Tail(stack) \/ stack' = Tail(stack), UNCHANGED status PROVE Carries
    <2>1. IsSeq(stack') /\ \A y : In(Tail(stack), y) => In(stack', y)
      <3>1. IsSeq(<<x>> \o Tail(stack)) /\ \A y : In(Tail(stack), y) => In(<<x>> \o Tail(stack), y)
        BY <1>3, PlainPushed
      <3> QED BY <1>3, <1>6, <3>1
    <2> QED BY <1>4, <1>6, <2>1 DEF Carries, Shapes
  <1>7. <<>> \o Tail(stack) = Tail(stack)
    BY <1>3, PlainPushed
  <1>8. CASE OnLockFinished
    <2>1. \/ Grant(Head(writeQueue), <<PopWriter>> \o Tail(stack))
          \/ (stack' = <<Readers(1)>> \o Tail(stack) \/ stack' = <<>> \o Tail(stack)) /\ UNCHANGED status
      BY <1>8 DEF OnLockFinished
    <2> QED BY <1>5, <1>6, <1>7, <2>1
  <1>9. CASE GrantsReader
    <2>1. \/ Grant(readQueue[f.next], <<Readers(f.next + 1)>> \o Tail(stack))
          \/ stack' = Tail(stack) /\ UNCHANGED status
      BY <1>1, <1>9 DEF GrantsReader
    <2> QED BY <1>5, <1>6, <2>1
  <1> QED BY <1>8, <1>9

LEMMA SameCarries == ASSUME Shapes, UNCHANGED <<stack, status>> PROVE Carries
  BY DEF Shapes, Carries

LEMMA ReleasesCarries ==
    ASSUME Shapes, NEW r, NEW rest, IsSeq(rest), Releases(r, rest)
    PROVE  Carries /\ In(stack', Release(r)) /\ \A y : ~In(stack, y)
  <1>1. stack = <<>> /\ stack' = <<Release(r)>> \o rest /\ UNCHANGED status
    BY DEF Releases, Idle
  <1>2. IsSeq(stack') /\ In(stack', Release(r))
    BY <1>1, PlainPushed
  <1>3. \A y : ~In(stack, y)
    BY <1>1, PlainEmpty
  <1> QED BY <1>1, <1>2, <1>3 DEF Carries, Shapes

LEMMA HolderKept ==
    ASSUME HolderInv, Shapes', Carries, \A r \in Reader : Reason(r) => Reason(r)'
    PROVE  HolderInv'
  BY DEF HolderInv, Carries

(* No message of the source is lost by the others who use the calls.        *)
CallsKept == IsSeq(calls') /\ \A r \in Reader : In(calls, Message(r)) => In(calls', Message(r))

LEMMA OthersCall ==
    ASSUME Shapes, \/ UNCHANGED calls
                   \/ \E what : what \notin {"loaded", "drawn"} /\ Dequeue(what)
                   \/ \E c : Post(c)
    PROVE  CallsKept
  <1>1. CASE UNCHANGED calls
    BY <1>1 DEF CallsKept, Shapes
  <1>2. ASSUME NEW what, what \notin {"loaded", "drawn"}, Dequeue(what) PROVE CallsKept
    <2>1. calls # <<>> /\ calls' = Tail(calls) /\ Head(calls).what = what
      BY <1>2 DEF Dequeue
    <2>2. IsSeq(calls') /\ \A y : In(calls, y) => In(calls', y) \/ y = Head(calls)
      BY <2>1, PlainTail DEF Shapes
    <2>3. \A r : Message(r).what \in {"loaded", "drawn"}
      BY MessagesMade DEF Message
    <2> QED BY <1>2, <2>1, <2>2, <2>3 DEF CallsKept
  <1>3. ASSUME NEW c, Post(c) PROVE CallsKept
    BY <1>3, PlainAppended DEF Post, Shapes, CallsKept
  <1> QED BY <1>1, <1>2, <1>3

(* The asset, its lock and its threads.                                     *)
LEMMA AssetCarries ==
    ASSUME Shapes, AssetStep
    PROVE  Carries /\ CallsKept
  <1>0. /\ Clear \in Request /\ Clear \notin Reader
        /\ \A w \in Swap : w \in Request /\ w \notin Reader
    BY AssetParameters DEF AssetParameters, Writer
  <1>1. ASSUME UNCHANGED lockVars PROVE Carries
    BY <1>1, SameCarries DEF lockVars
  <1>2. CASE OnOpened
    <2>1. UNCHANGED lockVars /\ Dequeue("opened")
      BY <1>2 DEF OnOpened
    <2> QED BY <1>1, <2>1, OthersCall
  <1>3. CASE OnCompleted
    <2>1. Dequeue("completed") /\ (UNCHANGED lockVars \/ \E w \in Swap : Retain(w))
      BY <1>3 DEF OnCompleted
    <2> QED BY <1>0, <1>1, <2>1, OthersCall, RetainCarries
  <1>4. CASE OnFileCalled
    BY <1>4, PoppedCarries, OthersCall DEF OnFileCalled, TopTaken, threads
  <1>5. CASE ClearCalled
    BY <1>0, <1>5, CallsCarries, OthersCall DEF ClearCalled, threads
  <1>6. ASSUME NEW w \in Swap, SwapCalled(w) PROVE Carries /\ CallsKept
    BY <1>0, <1>6, CallsCarries, OthersCall DEF SwapCalled
  <1>7. ASSUME NEW w \in Swap, OnSwapped(w) PROVE Carries /\ CallsKept
    <2>1. IsSeq(<<OnFile>>)
      <3>1. <<OnFile>> \in Seq({OnFile})
        OBVIOUS
      <3> QED BY <3>1 DEF IsSeq
    <2>2. Dequeue("swapped") /\ Releases(w, <<OnFile>>)
      BY <1>7 DEF OnSwapped
    <2> QED BY <2>1, <2>2, ReleasesCarries, OthersCall
  <1>8. CASE LockStep
    <2>1. CallsKept
      BY <1>8, OthersCall DEF LockStep, Others, threads
    <2>2. CASE PopsWriter
      BY <2>1, <2>2, PoppedCarries DEF PopsWriter, TopTaken
    <2> QED BY <1>8, <2>1, <2>2, ReleaseCarries, FinishedCarries DEF LockStep
  <1>9. CASE AssetUsers \/ Progress
    <2>1. CallsKept
      BY <1>9, OthersCall DEF AssetUsers, Progress, ClearFile, CheckFile, Others, vars, threads
    <2>2. UNCHANGED lockVars \/ Retain(Clear)
      BY <1>9 DEF AssetUsers, Progress, ClearFile, CheckFile, vars
    <2> QED BY <1>0, <1>1, <2>1, <2>2, RetainCarries
  <1>10. CASE Network
    <2>1. UNCHANGED lockVars /\ (UNCHANGED calls \/ \E c : Post(c))
      BY <1>10 DEF Network, Refused, Failed, Responded, Received, Answer
    <2> QED BY <1>1, <2>1, OthersCall
  <1>11. CASE AssetThreads \/ Saves
    <2>1. UNCHANGED lockVars /\ (UNCHANGED calls \/ \E c : Post(c))
      BY <1>11 DEF AssetThreads, Saves, Publish, RemoveOriginal, MoveTemp, SaveRow, threads
    <2> QED BY <1>1, <2>1, OthersCall
  <1> QED BY <1>2, <1>3, <1>4, <1>5, <1>6, <1>7, <1>8, <1>9, <1>10, <1>11 DEF AssetStep, AssetCalls

LEMMA AssetHolders == ASSUME HolderInv, AssetStep PROVE HolderInv'
  <1>1. Carries /\ CallsKept
    BY AssetCarries DEF HolderInv
  <1>2. UNCHANGED <<jobs, waiting, opened, drawn>>
    BY DEF AssetStep, Rest, texture, externals
  <1>3. Shapes'
    BY <1>1, <1>2 DEF HolderInv, Shapes, Carries, CallsKept
  <1>4. \A r \in Reader : Reason(r) => Reason(r)'
    <2>1. \A r : (InJobs(r)' <=> InJobs(r)) /\ (InWait(r)' <=> InWait(r))
      BY <1>2 DEF InJobs, InWait, In
    <2>2. \A r \in Reader : InCalls(r) => InCalls(r)'
      <3>1. \A r \in Reader : In(calls, Message(r)) => In(calls', Message(r))
        BY <1>1 DEF CallsKept
      <3> QED BY <3>1 DEF InCalls, Message, In, Loaded, Drawn
    <2> QED BY <1>2, <2>1, <2>2, Places, PlacesNext DEF Reason
  <1> QED BY <1>1, <1>3, <1>4, HolderKept

(* The source looks whether to load, is disabled, or is told that an        *)
(* external asset is there.                                                 *)
LEMMA LooksHolders ==
    ASSUME HolderInv, UNCHANGED <<calls, waiting, opened, drawn>>,
           \/ UNCHANGED <<lockVars, jobs>>
           \/ \E l \in Load : TryRead(l) /\ jobs' = Append(jobs, l)
    PROVE  HolderInv'
  <1>0. Shapes /\ Load \subseteq Reader
    BY SourceParameters DEF HolderInv, SourceParameters
  <1>1. CASE UNCHANGED <<lockVars, jobs>>
    BY <1>1 DEF HolderInv, Shapes, Reason, OnItsWay, lockVars, In
  <1>2. ASSUME NEW l \in Load, TryRead(l), jobs' = Append(jobs, l) PROVE HolderInv'
    <2>1. status' = [status EXCEPT ![l] = "held"] /\ UNCHANGED stack /\ l \in Reader /\ l \in Request
      BY <1>0, <1>2 DEF TryRead, Reader
    <2>2. DOMAIN status' = Request /\ \A r \in Request : r # l => status'[r] = status[r]
      BY <1>0, <2>1 DEF Shapes
    <2>3. IsSeq(jobs') /\ \A y : In(jobs', y) <=> In(jobs, y) \/ y = l
      BY <1>0, <1>2, PlainAppended DEF Shapes
    <2>4. Shapes'
      BY <1>0, <2>1, <2>2, <2>3 DEF Shapes
    <2>5. \A r : Reason(r) => Reason(r)'
      <3>1. \A r : (InJobs(r) => InJobs(r)') /\ (InWait(r)' <=> InWait(r)) /\ (InCalls(r)' <=> InCalls(r))
        BY <2>3 DEF InJobs, InWait, InCalls, In, Message
      <3> QED BY <3>1, Places, PlacesNext DEF Reason
    <2>6. Reason(l)'
      <3>1. InJobs(l)'
        BY <2>3 DEF InJobs, In
      <3> QED BY <3>1, PlacesNext DEF Reason
    <2>7. /\ status'[l] = "held"
          /\ \A y : In(stack', y) <=> In(stack, y)
      BY <1>0, <2>1 DEF Shapes
    <2> QED BY <2>2, <2>4, <2>5, <2>6, <2>7 DEF HolderInv, Reader
  <1> QED BY <1>1, <1>2

(* A load that has waited lets go of the asset,                             *)
LEMMA FinishHolders == ASSUME HolderInv, NEW l \in Load, FinishLoad(l) PROVE HolderInv'
  <1>0. Shapes /\ Load \subseteq Reader /\ stack = <<>>
    BY SourceParameters DEF HolderInv, SourceParameters, FinishLoad, Finishing, Idle
  <1>1. /\ waiting # <<>> /\ l = Head(waiting) /\ waiting' = Tail(waiting)
        /\ Releases(l, <<Shown(l)>>) /\ UNCHANGED <<calls, jobs, opened, drawn>>
    BY DEF FinishLoad, Finishing, Others, threads, texture
  <1>2. IsSeq(<<Shown(l)>>)
    <2>1. <<Shown(l)>> \in Seq({Shown(l)})
      OBVIOUS
    <2> QED BY <2>1 DEF IsSeq
  <1>3. Carries /\ In(stack', Release(l)) /\ \A y : ~In(stack, y)
    BY <1>0, <1>1, <1>2, ReleasesCarries
  <1>4. IsSeq(waiting') /\ \A y : In(waiting, y) <=> In(waiting', y) \/ y = l
    BY <1>0, <1>1, PlainTail DEF Shapes
  <1>5. Shapes'
    BY <1>0, <1>1, <1>3, <1>4 DEF Shapes, Carries
  <1>6. \A r : r # l /\ Reason(r) => Reason(r)'
    <2>1. \A r : (InJobs(r)' <=> InJobs(r)) /\ (InCalls(r)' <=> InCalls(r)) /\ (r # l /\ InWait(r) => InWait(r)')
      BY <1>1, <1>4 DEF InJobs, InWait, InCalls, In, Message
    <2> QED BY <1>1, <2>1, Places, PlacesNext DEF Reason
  <1> QED BY <1>3, <1>5, <1>6 DEF HolderInv, Carries

(* and its document is shown.                                               *)
LEMMA ShownHolders == ASSUME HolderInv, OnDocumentLoaded PROVE HolderInv'
  <1>1. TopTaken("shown") /\ UNCHANGED <<calls, jobs, waiting, opened, drawn>>
    BY DEF OnDocumentLoaded, TopTaken, Others, threads, externals, texture
  <1>2. Carries
    BY <1>1, PoppedCarries DEF HolderInv
  <1>3. Shapes'
    BY <1>1, <1>2 DEF HolderInv, Shapes, Carries
  <1>4. \A r : Reason(r) => Reason(r)'
    BY <1>1 DEF Reason, OnItsWay
  <1> QED BY <1>2, <1>3, <1>4, HolderKept

(* A page asks for the lock,                                                *)
LEMMA RunHolders == ASSUME HolderInv, NEW d \in Draw, Run(d) PROVE HolderInv'
  <1>1. d \in Request /\ Retain(d) /\ UNCHANGED <<calls, jobs, waiting, opened, drawn>>
    BY SourceParameters DEF SourceParameters, Reader, Run, Others, threads, externals, texture
  <1>2. Carries
    BY <1>1, RetainCarries DEF HolderInv
  <1>3. Shapes'
    BY <1>1, <1>2 DEF HolderInv, Shapes, Carries
  <1>4. \A r : Reason(r) => Reason(r)'
    BY <1>1 DEF Reason, OnItsWay
  <1> QED BY <1>2, <1>3, <1>4, HolderKept

(* gets it, and is given to the texture thread or done,                     *)
LEMMA CapturedHolders == ASSUME HolderInv, NEW d \in Draw, OnAssetCaptured(d) PROVE HolderInv'
  <1>0. /\ Shapes /\ d \in Reader /\ d \in Request /\ d \notin Load
        /\ stack # <<>> /\ Head(stack).op = "call" /\ Head(stack).request = d
    BY SourceParameters DEF HolderInv, SourceParameters, Reader, OnAssetCaptured, Innermost
  <1>1. /\ status' = [status EXCEPT ![d] = "held"]
        /\ UNCHANGED <<calls, waiting, opened>>
        /\ \/ d \in drawn /\ stack' = Tail(stack) /\ UNCHANGED <<jobs, drawn>>
           \/ stack' = Tail(stack) /\ jobs' = Append(jobs, d) /\ UNCHANGED drawn
           \/ stack' = <<Release(d)>> \o Tail(stack) /\ drawn' = drawn \cup {d} /\ UNCHANGED jobs
    BY DEF OnAssetCaptured, Others, threads, externals
  <1>2. IsSeq(Tail(stack)) /\ \A y : In(stack, y) => In(Tail(stack), y) \/ y = Head(stack)
    BY <1>0, PlainTail DEF Shapes
  <1>3. IsSeq(stack') /\ \A y : In(stack, y) => In(stack', y) \/ y = Head(stack)
    <2>1. IsSeq(<<Release(d)>> \o Tail(stack)) /\ \A y : In(Tail(stack), y) => In(<<Release(d)>> \o Tail(stack), y)
      BY <1>2, PlainPushed
    <2> QED BY <1>1, <1>2, <2>1
  <1>4. IsSeq(Append(jobs, d)) /\ \A y : In(Append(jobs, d), y) <=> In(jobs, y) \/ y = d
    BY <1>0, PlainAppended DEF Shapes
  <1>5. IsSeq(jobs') /\ \A y : In(jobs, y) => In(jobs', y)
    BY <1>0, <1>1, <1>4 DEF Shapes
  <1>6. DOMAIN status' = Request /\ status'[d] = "held" /\ \A r \in Request : r # d => status'[r] = status[r]
    BY <1>0, <1>1 DEF Shapes
  <1>7. Shapes'
    BY <1>0, <1>1, <1>3, <1>5, <1>6 DEF Shapes
  <1>8. \A r : Reason(r) => Reason(r)'
    <2>1. \A r : (InJobs(r) => InJobs(r)') /\ (InWait(r)' <=> InWait(r)) /\ (InCalls(r)' <=> InCalls(r))
      BY <1>1, <1>5 DEF InJobs, InWait, InCalls, In, Message
    <2> QED BY <1>1, <2>1, Places, PlacesNext DEF Reason
  <1>9. Reason(d)'
    <2>1. In(jobs', d) \/ d \in drawn'
      BY <1>1, <1>4
    <2> QED BY <2>1, PlacesNext DEF Reason, InJobs, In
  <1>10. \A r \in Reader : r # d => /\ In(stack, Release(r)) => In(stack', Release(r))
                                    /\ In(stack, Call(r)) => In(stack', Call(r))
    BY <1>0, <1>3, FramesDiffer
  <1> QED BY <1>6, <1>7, <1>8, <1>9, <1>10 DEF HolderInv, Reader

(* and is drawn.                                                            *)
LEMMA DrawnHolders == ASSUME HolderInv, NEW d \in Draw, OnDrawn(d) PROVE HolderInv'
  <1>0. Shapes /\ Load \cap Draw = {} /\ stack = <<>>
    BY SourceParameters DEF HolderInv, SourceParameters, OnDrawn, Dequeue, Idle
  <1>1. /\ calls # <<>> /\ calls' = Tail(calls) /\ Head(calls).what = "drawn" /\ Head(calls).request = d
        /\ Releases(d, <<>>) /\ drawn' = drawn \cup {d} /\ UNCHANGED <<jobs, waiting, opened>>
    BY DEF OnDrawn, Dequeue, externals
  <1>2. Carries /\ \A y : ~In(stack, y)
    BY <1>0, <1>1, PlainEmpty, ReleasesCarries
  <1>3. IsSeq(calls') /\ \A y : In(calls, y) => In(calls', y) \/ y = Head(calls)
    BY <1>0, <1>1, PlainTail DEF Shapes
  <1>4. Shapes'
    BY <1>0, <1>1, <1>2, <1>3 DEF Shapes, Carries
  <1>5. \A r : Reason(r) => Reason(r)'
    <2>1. \A r : (InJobs(r)' <=> InJobs(r)) /\ (InWait(r)' <=> InWait(r))
      BY <1>1 DEF InJobs, InWait, In
    <2>2. \A r : Message(r).request = r
      BY MessagesMade DEF Message
    <2>3. \A r : r # d /\ In(calls, Message(r)) => In(calls', Message(r))
      BY <1>1, <1>3, <2>2
    <2>4. \A r : r # d /\ InCalls(r) => InCalls(r)'
      BY <2>3 DEF InCalls, Message, In, Loaded, Drawn
    <2> QED BY <1>1, <2>1, <2>4, Places, PlacesNext DEF Reason
  <1> QED BY <1>2, <1>4, <1>5, HolderKept

(* The completion of a load makes it wait, or it has opened nothing.        *)
LEMMA LoadedHolders == ASSUME HolderInv, NEW l \in Load, OnLoaded(l) PROVE HolderInv'
  <1>0. Shapes
    BY DEF HolderInv
  <1>1. /\ calls # <<>> /\ calls' = Tail(calls) /\ Head(calls).what = "loaded" /\ Head(calls).request = l
        /\ UNCHANGED <<lockVars, jobs, opened, drawn>>
        /\ \/ opened[l] = 0 /\ UNCHANGED waiting
           \/ waiting' = Append(waiting, l)
    BY DEF OnLoaded, Dequeue, externals, texture
  <1>2. Carries
    BY <1>0, <1>1, SameCarries DEF lockVars
  <1>3. IsSeq(calls') /\ \A y : In(calls, y) => In(calls', y) \/ y = Head(calls)
    BY <1>0, <1>1, PlainTail DEF Shapes
  <1>4. IsSeq(Append(waiting, l)) /\ \A y : In(Append(waiting, l), y) <=> In(waiting, y) \/ y = l
    BY <1>0, PlainAppended DEF Shapes
  <1>5. IsSeq(waiting') /\ (\A y : In(waiting, y) => In(waiting', y)) /\ (opened[l] = 0 \/ In(waiting', l))
    BY <1>0, <1>1, <1>4 DEF Shapes
  <1>6. Shapes'
    BY <1>0, <1>1, <1>2, <1>3, <1>5 DEF Shapes, Carries
  <1>7. \A r : Reason(r) => Reason(r)'
    <2>1. \A r : (InJobs(r)' <=> InJobs(r)) /\ (InWait(r) => InWait(r)')
      BY <1>1, <1>5 DEF InJobs, InWait, In
    <2>2. \A r : Message(r).request = r
      BY MessagesMade DEF Message
    <2>3. \A r : r # l /\ In(calls, Message(r)) => In(calls', Message(r))
      BY <1>1, <1>3, <2>2
    <2>4. \A r : r # l /\ InCalls(r) => InCalls(r)'
      BY <2>3 DEF InCalls, Message, In, Loaded, Drawn
    <2>5. Reason(l)'
      <3>1. opened'[l] = 0 \/ InWait(l)'
        BY <1>1, <1>5 DEF InWait, In
      <3> QED BY <3>1, PlacesNext DEF Reason
    <2> QED BY <1>1, <2>1, <2>4, <2>5, Places, PlacesNext DEF Reason
  <1> QED BY <1>2, <1>6, <1>7, HolderKept

(* The texture thread passes its requests on to the main thread.            *)
LEMMA TextureHolders == ASSUME HolderInv, OpenDocument \/ MakeTexture PROVE HolderInv'
  <1>0. Shapes /\ Load \cap Draw = {}
    BY SourceParameters DEF HolderInv, SourceParameters
  <1>1. PICK x : x = Head(jobs)
    OBVIOUS
  <1>2. /\ jobs # <<>> /\ jobs' = Tail(jobs) /\ UNCHANGED <<lockVars, waiting, drawn>>
        /\ calls' = Append(calls, Message(x))
        /\ DOMAIN opened' = Load
        /\ \A l \in Load : l # x => opened'[l] = opened[l]
    <2>1. CASE OpenDocument
      BY <1>0, <1>1, <2>1 DEF OpenDocument, Post, externals, Message, Shapes
    <2>2. CASE MakeTexture
      BY <1>0, <1>1, <2>2 DEF MakeTexture, Post, externals, Message, Shapes
    <2> QED BY <2>1, <2>2
  <1>3. Carries
    BY <1>0, <1>2, SameCarries DEF lockVars
  <1>4. IsSeq(jobs') /\ \A y : In(jobs, y) => In(jobs', y) \/ y = x
    BY <1>0, <1>1, <1>2, PlainTail DEF Shapes
  <1>5. IsSeq(calls') /\ \A y : In(calls', y) <=> In(calls, y) \/ y = Message(x)
    BY <1>0, <1>2, PlainAppended DEF Shapes
  <1>6. Shapes'
    BY <1>0, <1>2, <1>3, <1>4, <1>5 DEF Shapes, Carries
  <1>7. \A r : Reason(r) => Reason(r)'
    <2>1. \A r : /\ r # x /\ InJobs(r) => InJobs(r)'
                 /\ InWait(r)' <=> InWait(r)
                 /\ InCalls(r)' <=> InCalls(r) \/ Message(r) = Message(x)
      BY <1>2, <1>4, <1>5 DEF InJobs, InWait, InCalls, In, Message, Loaded, Drawn
    <2>2. InCalls(x)'
      BY <2>1
    <2> QED BY <1>2, <2>1, <2>2, Places, PlacesNext DEF Reason
  <1> QED BY <1>3, <1>6, <1>7, HolderKept

LEMMA HolderBegins == SourceInit => HolderInv
  <1> SUFFICES ASSUME SourceInit PROVE HolderInv
    OBVIOUS
  <1>1. /\ status = [r \in Request |-> "idle"] /\ opened = [l \in Load |-> 0]
        /\ stack = <<>> /\ jobs = <<>> /\ waiting = <<>>
        /\ calls = <<>> \/ calls = <<Opened>>
    BY DEF SourceInit, LockInit
  <1>2. IsSeq(calls)
    <2>1. <<Opened>> \in Seq({Opened})
      OBVIOUS
    <2>2. IsSeq(<<Opened>>)
      BY <2>1 DEF IsSeq
    <2> QED BY <1>1, <2>2, PlainEmpty
  <1>3. Shapes
    BY <1>1, <1>2, PlainEmpty DEF Shapes
  <1> QED BY <1>1, <1>3 DEF HolderInv, Reader

LEMMA HolderStep == HolderInv /\ [SourceNext]_sourceVars => HolderInv'
  <1> SUFFICES ASSUME HolderInv, [SourceNext]_sourceVars PROVE HolderInv'
    OBVIOUS
  <1>1. ASSUME NEW had, TryLoad(had)
        PROVE  \/ UNCHANGED <<lockVars, jobs>>
               \/ \E l \in Load : TryRead(l) /\ jobs' = Append(jobs, l)
    BY <1>1 DEF TryLoad, StartLoad, NoLoad
  <1>2. CASE Attach \/ Refresh \/ Enable \/ Frame
    <2>1. UNCHANGED <<calls, waiting, opened, drawn>>
      BY <1>2 DEF Attach, Refresh, Enable, Frame, OnDocumentAssetUpdated, Others, threads, externals
    <2>2. (\E had : TryLoad(had)) \/ NoLoad
      BY <1>2 DEF Attach, Refresh, Enable, Frame, OnDocumentAssetUpdated
    <2> QED BY <1>1, <2>1, <2>2, LooksHolders DEF NoLoad
  <1>3. CASE Disable \/ Retry \/ (\E e \in External : OnExternal(e)) \/ UNCHANGED sourceVars
    BY <1>3, LooksHolders DEF Disable, Retry, OnExternal, sourceVars, vars, threads, externals, texture
  <1>4. CASE AssetStep
    BY <1>4, AssetHolders
  <1>5. CASE SourceUsers
    BY <1>2, <1>3, <1>4, <1>5, RunHolders DEF SourceUsers, AssetStep
  <1>6. CASE SourceCalls
    BY <1>4, <1>6, FinishHolders, ShownHolders, LoadedHolders, CapturedHolders, DrawnHolders
    DEF SourceCalls, AssetStep
  <1> QED BY <1>2, <1>3, <1>4, <1>5, <1>6, TextureHolders DEF SourceNext, AssetStep

(* Between two events the source holds its asset only for a load or a page  *)
(* that the threads still have (Request::run, loadDocument, releaseDocument,*)
(* the queue of readers), but for a load that opened nothing and a page     *)
(* that was granted the lock once more: no other hold is leaked, which      *)
(* would keep every later file from being put in place.  Nothing is assumed *)
(* of the users, of the versions or of the order of the answers.            *)
THEOREM HoldersOnTheirWay == SourceSpec => []HeldForAReason
  <1>1. HolderInv => HeldForAReason
    <2> SUFFICES ASSUME HolderInv, Idle, NEW r \in Reader, Holding(r)
                 PROVE  OnItsWay(r) \/ (r \in Load /\ opened[r] = 0) \/ r \in drawn
      BY DEF HeldForAReason
    <2>1. \A y : ~In(stack, y)
      BY PlainEmpty DEF Idle
    <2> QED BY <2>1 DEF HolderInv, Holding, Reason
  <1>2. SourceSpec => SourceInit /\ [][SourceNext]_sourceVars
    BY PTL DEF SourceSpec
  <1> QED BY <1>1, <1>2, HolderBegins, HolderStep, PTL

=============================================================================
