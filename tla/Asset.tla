------------------------------- MODULE Asset --------------------------------
(* A file that is downloaded, updated and read: Asset, AssetDownload and    *)
(* the row AssetLibrary keeps for it.  The network thread writes a new      *)
(* version beside the old one, the storage thread puts it in place under    *)
(* the write lock, readers on the main thread hold the read lock, and the   *)
(* process may die and start again at any step.                             *)
EXTENDS SyncRWLock

CONSTANTS Swap,         \* write requests of swapFiles
          Clear,        \* the write request of clear()
          MaxVersion,   \* bound: versions the server publishes
          MaxKills,     \* bound: deaths of the process
          MaxSaves,     \* bound: rows not written yet when a user downloads
          Polite        \* users ask isDownloadAvailable() and isLocked() first

ASSUME AssetParameters ==
    /\ Swap \subseteq Writer /\ Clear \in Brief \cap Writer
    /\ MaxVersion \in Nat \ {0} /\ MaxKills \in Nat /\ MaxSaves \in Nat
    /\ Polite \in BOOLEAN

VARIABLES
    server,             \* the version the server has
    file, temp, row,    \* on the disk: _path, _path.tmp, the database row
    fileExisted, unupdated, waitFileSwap, downloadInProgress, fileUpdate, mtime,
    download,           \* the AssetDownload of the asset, if any
    work,               \* swaps posted to the storage thread
    calls,              \* functions posted to the main thread, in order
    saves,              \* rows posted to the database thread
    version,            \* of each swap, the version it brings
    kills

disk   == <<file, temp, row>>
flags  == <<fileExisted, unupdated, waitFileSwap, downloadInProgress, fileUpdate, mtime>>
threads == <<download, work, calls, saves, version>>
vars   == <<lockVars, server, disk, flags, threads, kills>>

(* A file is the versions its two halves come from, 0 when missing.  They   *)
(* differ when a download is resumed after the server has changed.          *)
Version   == 1 .. MaxVersion
Missing   == <<0, 0>>
Half(v)   == <<v, 0>>
Complete(f) == f[2] # 0
Exists(f) == f # Missing

NoDownload   == [state |-> "none", known |-> 0, version |-> 0]
Asked(known) == [state |-> "asked", known |-> known, version |-> 0]
Row(m, d)    == [mtime |-> m, download |-> d]
Opened       == [what |-> "opened"]
Completed(success, isFile, v) == [what |-> "completed", success |-> success, isFile |-> isFile, version |-> v]
Swapped(w)   == [what |-> "swapped", swap |-> w]
OnFile       == [op |-> "onFile"]

Contents == (0 .. MaxVersion) \X (0 .. MaxVersion)

(* The types of the state of the asset, its files and its lock.             *)
TypeOK ==
    /\ LockTypeOK
    /\ server \in Version /\ file \in Contents /\ temp \in Contents
    /\ row \in [mtime : 0 .. MaxVersion, download : BOOLEAN]
    /\ {fileExisted, unupdated, waitFileSwap, downloadInProgress, fileUpdate} \subseteq BOOLEAN
    /\ mtime \in 0 .. MaxVersion
    /\ download.state \in {"none", "asked", "receiving", "answered"}
    /\ work \in Seq([swap : Swap, stage : {"remove", "move"}])
    /\ version \in [Swap -> 0 .. MaxVersion]

Init ==
    /\ LockInit
    /\ server = 1 /\ file = Missing /\ temp = Missing /\ row = Row(0, FALSE)
    /\ fileExisted = FALSE /\ unupdated = FALSE /\ waitFileSwap = FALSE
    /\ downloadInProgress = FALSE /\ fileUpdate = FALSE /\ mtime = 0
    /\ download = NoDownload /\ work = <<>> /\ calls = <<>> /\ saves = <<>>
    /\ version = [w \in Swap |-> 0] /\ kills = 0

-----------------------------------------------------------------------------
(* The main thread: users of the asset.                                     *)

(* A mistake: the pending swap is forgotten.                                *)
isDownloadAvailable_DuringSwap == (~fileExisted \/ unupdated) /\ ~fileUpdate

isDownloadAvailable == (~fileExisted \/ unupdated) /\ ~fileUpdate /\ ~waitFileSwap
isReadAvailable     == fileExisted /\ ~fileUpdate

(* saveAsset posts what the members say; a download counts while it is in   *)
(* the library's list.                                                      *)
Save(m, downloads) == saves' = Append(saves, Row(m, downloads))

(* The next function of the main thread's queue.                            *)
Dequeue(what) == Idle /\ calls # <<>> /\ Head(calls).what = what /\ calls' = Tail(calls)
Post(call)  == calls' = Append(calls, call)

StartDownload ==
    /\ download' = Asked(IF fileExisted THEN mtime ELSE 0)
    /\ downloadInProgress' = TRUE
    /\ unupdated' = (unupdated \/ ~fileExisted)
    /\ Save(mtime, TRUE)
    /\ UNCHANGED <<fileExisted, waitFileSwap, fileUpdate, mtime, work, version>>

Download ==
    /\ Len(saves) <= MaxSaves
    /\ Idle /\ ~downloadInProgress /\ (Polite => isDownloadAvailable)
    /\ StartDownload
    /\ UNCHANGED <<lockVars, server, disk, calls, kills>>

(* What the constructor of Asset leaves for the main thread.                *)
OnOpened ==
    /\ Dequeue("opened")
    /\ IF fileExisted /\ ~downloadInProgress
       THEN StartDownload
       ELSE UNCHANGED <<flags, download, work, saves, version>>
    /\ UNCHANGED <<lockVars, server, disk, kills>>

Others == <<server, disk, flags, threads, kills>>

ReadRetain(r)  == r \in Reader /\ Retain(r) /\ UNCHANGED Others
ReadTry(r)     == TryRead(r) /\ UNCHANGED Others
ReadCalled(r)  == r \in Reader /\ Calls(r) /\ UNCHANGED Others
ReadRelease(r) == r \in Reader /\ Releases(r, <<>>) /\ UNCHANGED Others

ClearCalled ==
    /\ Calls(Clear)
    /\ file' = Missing /\ fileExisted' = FALSE
    /\ UNCHANGED <<server, temp, row, unupdated, waitFileSwap, downloadInProgress,
                   fileUpdate, mtime, threads, kills>>

ClearFile == (Polite => lock = "None") /\ Retain(Clear) /\ UNCHANGED Others

CheckFile ==
    /\ Idle
    /\ fileExisted' = Exists(file)
    /\ UNCHANGED <<lockVars, server, disk, unupdated, waitFileSwap, downloadInProgress,
                   fileUpdate, mtime, threads, kills>>
-----------------------------------------------------------------------------
(* The main thread: results of the other threads.                           *)

(* onCompleted, after the library has dropped the download.  A file that is *)
(* there is put in place by swapFiles, under the write lock.                *)
OnCompleted ==
    /\ Dequeue("completed")
    /\ download' = NoDownload /\ downloadInProgress' = FALSE
    /\ LET c == Head(calls) IN
       IF c.success /\ c.isFile
       THEN /\ IF Exists(temp)
               THEN /\ waitFileSwap' = TRUE
                    /\ \E w \in Swap : Retain(w) /\ version' = [version EXCEPT ![w] = c.version]
               ELSE UNCHANGED <<lockVars, waitFileSwap, version>>
            /\ UNCHANGED <<unupdated, temp, saves>>
       ELSE /\ unupdated' = ~c.success
            /\ temp' = IF c.isFile THEN Missing ELSE temp
            /\ Save(mtime, FALSE)
            /\ UNCHANGED <<lockVars, waitFileSwap, version>>
    /\ UNCHANGED <<server, file, row, fileExisted, fileUpdate, mtime, work, kills>>

(* Mistakes: the new mtime before the new file, and no fileUpdate flag.     *)
SwapCalled_EarlyVersion(w) ==
    /\ Calls(w)
    /\ fileUpdate' = TRUE /\ mtime' = version[w]
    /\ work' = Append(work, [swap |-> w, stage |-> "remove"])
    /\ UNCHANGED <<server, disk, fileExisted, unupdated, waitFileSwap, downloadInProgress,
                   download, calls, saves, version, kills>>

SwapCalled_NoFlag(w) ==
    /\ Calls(w)
    /\ work' = Append(work, [swap |-> w, stage |-> "remove"])
    /\ UNCHANGED <<server, disk, flags, download, calls, saves, version, kills>>

(* The write lock is granted: the function of swapFiles.                    *)
SwapCalled(w) ==
    /\ Calls(w)
    /\ fileUpdate' = TRUE
    /\ work' = Append(work, [swap |-> w, stage |-> "remove"])
    /\ UNCHANGED <<server, disk, fileExisted, unupdated, waitFileSwap, downloadInProgress,
                   mtime, download, calls, saves, version, kills>>

(* The completion of the task of swapFiles, up to releaseWriteLock.         *)
OnSwapped(w) ==
    /\ Dequeue("swapped") /\ Head(calls).swap = w
    /\ Releases(w, <<OnFile>>)
    /\ fileUpdate' = FALSE /\ unupdated' = FALSE /\ waitFileSwap' = FALSE
    /\ fileExisted' = Exists(file)
    /\ mtime' = version[w]
    /\ Save(version[w], download # NoDownload)
    /\ UNCHANGED <<server, disk, downloadInProgress, download, work, version, kills>>

OnFileCalled ==
    /\ Innermost("onFile")
    /\ stack' = Tail(stack)
    /\ fileExisted' = Exists(file) /\ fileUpdate' = FALSE
    /\ UNCHANGED <<lock, lockers, readQueue, writeQueue, status, server, disk, unupdated,
                   waitFileSwap, downloadInProgress, mtime, threads, kills>>

LockStep == (ReleaseLock \/ OnLockFinished \/ PopsWriter \/ GrantsReader) /\ UNCHANGED Others
-----------------------------------------------------------------------------
(* The network thread: AssetDownload::execute and the receiving of a file.  *)

Answer(call) ==
    /\ download' = [download EXCEPT !.state = "answered"]
    /\ Post(call)
    /\ UNCHANGED <<lockVars, server, file, row, flags, work, saves, version, kills>>

(* 304 when the version is known, 416 when the temporary file has all of    *)
(* it, or any other refusal: the temporary file is removed and the call     *)
(* counts as successful, without a file.                                    *)
Refused ==
    /\ download.state = "asked"
    /\ temp' = Missing
    /\ Answer(Completed(TRUE, FALSE, 0))

Failed ==
    /\ download.state \in {"asked", "receiving"}
    /\ temp' = Missing
    /\ Answer(Completed(FALSE, TRUE, 0))

(* The answer has something to add to the temporary file, or begins it.     *)
Responded ==
    /\ download.state = "asked" /\ download.known # server
    /\ ~(Complete(temp) /\ temp[1] = server)
    /\ download' = [download EXCEPT !.state = "receiving", !.version = server]
    /\ temp' = IF Exists(temp) THEN Half(temp[1]) ELSE Half(server)
    /\ UNCHANGED <<lockVars, server, file, row, flags, work, calls, saves, version, kills>>

Received ==
    /\ download.state = "receiving"
    /\ temp' = <<temp[1], download.version>>
    /\ Answer(Completed(TRUE, TRUE, download.version))

Publish ==
    /\ server < MaxVersion
    /\ server' = server + 1
    /\ UNCHANGED <<lockVars, disk, flags, threads, kills>>
-----------------------------------------------------------------------------
(* The storage threads: the task of swapFiles, and the rows.                *)

RemoveOriginal ==
    /\ work # <<>> /\ Head(work).stage = "remove"
    /\ file' = Missing
    /\ work' = <<[Head(work) EXCEPT !.stage = "move"]>> \o Tail(work)
    /\ UNCHANGED <<lockVars, server, temp, row, flags, download, calls, saves, version, kills>>

MoveTemp ==
    /\ work # <<>> /\ Head(work).stage = "move"
    /\ file' = IF Exists(temp) THEN temp ELSE file
    /\ temp' = Missing
    /\ work' = Tail(work)
    /\ Post(Swapped(Head(work).swap))
    /\ UNCHANGED <<lockVars, server, row, flags, download, saves, version, kills>>

SaveRow ==
    /\ saves # <<>>
    /\ row' = Head(saves) /\ saves' = Tail(saves)
    /\ UNCHANGED <<lockVars, server, file, temp, flags, download, work, calls, version, kills>>

(* The process dies and starts again: a row that says so has its download   *)
(* restored (and is saved again without it), any other asset is opened.     *)
Restart ==
    /\ kills < MaxKills /\ kills' = kills + 1
    /\ LockReset
    /\ fileExisted' = Exists(file) /\ mtime' = row.mtime
    /\ unupdated' = FALSE /\ waitFileSwap' = FALSE /\ fileUpdate' = FALSE
    /\ downloadInProgress' = row.download
    /\ download' = IF row.download
                   THEN Asked(IF Exists(file) THEN row.mtime ELSE 0) ELSE NoDownload
    /\ row' = [row EXCEPT !.download = FALSE]
    /\ calls' = <<Opened>> /\ work' = <<>> /\ saves' = <<>>
    /\ UNCHANGED <<server, file, temp, version>>

-----------------------------------------------------------------------------
MainThread ==
    \/ OnOpened \/ OnCompleted \/ OnFileCalled \/ LockStep \/ ClearCalled
    \/ \E w \in Swap : SwapCalled(w) \/ OnSwapped(w)
    \/ \E r \in Reader : ReadCalled(r)
StorageThread  == RemoveOriginal \/ MoveTemp

Next ==
    \/ Download \/ OnOpened \/ OnCompleted \/ ClearFile \/ ClearCalled \/ CheckFile
    \/ \E r \in Request : ReadRetain(r) \/ ReadTry(r) \/ ReadCalled(r) \/ ReadRelease(r)
    \/ \E w \in Swap : SwapCalled(w) \/ OnSwapped(w)
    \/ OnFileCalled \/ LockStep
    \/ Refused \/ Failed \/ Responded \/ Received \/ Publish
    \/ RemoveOriginal \/ MoveTemp \/ SaveRow \/ Restart

Spec == Init /\ [][Next]_vars

FairSpec ==
    /\ Spec
    /\ WF_vars(MainThread) /\ WF_vars(StorageThread)
    /\ \A r \in Reader : WF_vars(ReadRelease(r))

-----------------------------------------------------------------------------
(* The file does not change under a reader that holds the lock              *)
(* (SPTextureCache.cc:325, RTSourceAsset.cc:159): not in a swap that runs   *)
(* on the storage thread, nor in clear().                                   *)
ReadStable ==
    [][\A r \in Reader : Holding(r) /\ Holding(r)' => file' = file]_vars

(* A swap that waits for its lock or for the storage thread still finds the *)
(* temporary file, complete: no other download of the asset has touched it. *)
SwapHasFile ==
    \A w \in Swap :
        \/ status[w] \in {"queued", "calling"}
        \/ \E i \in DOMAIN work : work[i].swap = w
        => Complete(temp)

(* The answer that completed the file is never older than the mtime that is *)
(* sent to the server with the next request, now or after a restart: an     *)
(* asset that claimed more than it was given would be answered 304 and stay *)
(* old.                                                                     *)
NeverClaimsMore == Exists(file) => mtime <= file[2] /\ row.mtime <= file[2]

(* The file in place is of one version.  The code does not see to it: what  *)
(* an earlier download has left is appended to without If-Range.            *)
OneVersion == Exists(file) => file[1] = file[2]

(* Between two events the flags agree with the swaps and with the disk.     *)
FlagsAgree ==
    Idle => /\ waitFileSwap <=> \E w \in Swap : status[w] \notin {"idle", "done"}
            /\ fileUpdate <=> \E w \in Swap : Holding(w)
            /\ isReadAvailable <=> Exists(file) /\ ~\E w \in Swap : Holding(w)

(* A downloaded file is put in place once the readers have let go of it.    *)
SwapFinishes == waitFileSwap ~> ~waitFileSwap
=============================================================================
