---------------------------- MODULE CommonSource ----------------------------
(* A rich text source over an asset: CommonSource and SourceNetworkAsset.   *)
(* A new file is opened as a document on the texture thread under the read  *)
(* lock of the asset, and pages of the document are drawn there under read  *)
(* locks of their own.  The asset goes on as in Asset; what it announces is *)
(* heard by the source at the next frame.                                   *)
EXTENDS Asset

CONSTANTS Load, Draw,   \* read requests: loads of the document, pages to draw
          External,     \* assets a document refers to
          Refers,       \* of each version, the external assets of its document
          Broken,       \* versions that cannot be opened
          MaxActs,      \* bound: refreshes, retries, changes of `enabled'
          Patient       \* pages are asked for of an actual source, with the lock free to read

ASSUME SourceParameters ==
    /\ Load \cup Draw = Reader /\ Load \cap Draw = {}
    /\ Refers \in [Version -> SUBSET External] /\ Broken \subseteq Version
    /\ MaxActs \in Nat /\ Patient \in BOOLEAN

VARIABLES
    attached, enabled, loaded, loading, document,   \* CommonSource
    asking, known, waiting,   \* external assets: requested, had; loads that wait
    retry,                    \* _retryUpdate is set
    heard,                    \* the listener's flags at the next frame
    path,                     \* SourceNetworkAsset::_savedFilePath is set
    jobs,                     \* tasks of the texture thread
    opened,                   \* of each load, the version it has opened, or 0
    drawn,                    \* pages whose callback has been called
    acts

source     == <<attached, enabled, loaded, loading, document, retry>>
externals  == <<asking, known, waiting>>
texture    == <<jobs, opened, drawn>>
sourceVars == <<vars, source, externals, heard, path, texture, acts>>

Loaded(l) == [what |-> "loaded", request |-> l]
Drawn(d)  == [what |-> "drawn", request |-> d]
Shown(l)  == [op |-> "shown", request |-> l]

(* The types of the source's own state; whenever an external asset is       *)
(* requested (hasAssetRequests) a load waits for it.                        *)
SourceTypeOK ==
    /\ {attached, enabled, loading, retry, path} \subseteq BOOLEAN
    /\ {loaded, document} \subseteq 0 .. MaxVersion
    /\ asking \subseteq known /\ known \subseteq External
    /\ waiting \in Seq(Load) /\ (asking # {} => waiting # <<>>)
    /\ jobs \in Seq(Reader)
    /\ heard \subseteq {"file", "failed", "other"}
    /\ opened \in [Load -> 0 .. MaxVersion] /\ drawn \subseteq Draw

(* The asset is new, or it was downloaded in an earlier life.               *)
SourceInit ==
    /\ LockInit
    /\ server = 1 /\ temp = Missing
    /\ \E had \in BOOLEAN :
           /\ file = IF had THEN <<1, 1>> ELSE Missing
           /\ mtime = (IF had THEN 1 ELSE 0) /\ row = Row(mtime, FALSE)
           /\ fileExisted = had
           /\ calls = IF had THEN <<Opened>> ELSE <<>>
    /\ unupdated = FALSE /\ waitFileSwap = FALSE
    /\ downloadInProgress = FALSE /\ fileUpdate = FALSE
    /\ download = NoDownload /\ work = <<>> /\ saves = <<>>
    /\ version = [w \in Swap |-> 0] /\ kills = 0
    /\ attached = FALSE /\ enabled \in BOOLEAN
    /\ loaded = 0 /\ loading = FALSE /\ document = 0
    /\ asking = {} /\ known = {} /\ waiting = <<>>
    /\ retry = FALSE /\ heard = {} /\ path = FALSE
    /\ jobs = <<>> /\ opened = [l \in Load |-> 0] /\ drawn = {} /\ acts = 0

-----------------------------------------------------------------------------
(* What a step announces, the changes of the lock included (onLocked), to a *)
(* source that listens.                                                     *)
LockNews    == IF lock' # lock \/ Innermost("finish") THEN {"other"} ELSE {}
Hears(news) == heard' = IF attached THEN heard \cup news \cup LockNews ELSE {}

(* A mistake: a document that is still being opened counts.                 *)
isActual_Early == document # 0 /\ (loaded >= mtime \/ unupdated)

isActual == document # 0 /\ ~loading /\ (loaded >= mtime \/ unupdated)

(* A mistake: the lock alone, whether there is a file or not.               *)
CanLoad_Unread(had) ==
    /\ enabled' /\ Grantable("Read")
    /\ had = 0 \/ (mtime > had /\ ~downloadInProgress')

(* tryLockDocument, after what the same step has changed before.            *)
CanLoad(had) ==
    /\ enabled' /\ isReadAvailable /\ Grantable("Read")
    /\ had = 0 \/ (mtime > had /\ ~downloadInProgress')

StartLoad ==
    /\ \E l \in Load : TryRead(l) /\ jobs' = Append(jobs, l)
    /\ path' = TRUE /\ loading' = TRUE

NoLoad == UNCHANGED <<lockVars, jobs, path, loading>>

(* A mistake: a version is noted when nothing is loaded.                    *)
TryLoad_Presumes(had) == loaded' = mtime /\ IF CanLoad(had) THEN StartLoad ELSE NoLoad

(* tryLoadDocument with _loadedAssetMTime = had.                            *)
TryLoad(had) ==
    IF CanLoad(had) THEN loaded' = mtime /\ StartLoad ELSE loaded' = had /\ NoLoad

NoDownloadYet == UNCHANGED <<flags, download, work, saves, version>>

(* A mistake: the file is looked at only when it is announced.              *)
OnDocumentAssetUpdated_FileOnly(news) ==
    /\ IF isDownloadAvailable /\ ~downloadInProgress
       THEN IF "failed" \in news THEN retry' = TRUE /\ NoDownloadYet
            ELSE UNCHANGED retry /\ IF enabled' THEN StartDownload ELSE NoDownloadYet
       ELSE UNCHANGED retry /\ NoDownloadYet
    /\ IF "file" \in news THEN TryLoad(0) ELSE UNCHANGED loaded /\ NoLoad
    /\ UNCHANGED <<server, disk, calls, kills, attached, document, externals, opened, drawn>>

(* onDocumentAssetUpdated.  That something is heard for the first time      *)
(* (initial) makes a difference for an mtime of 0 only, and then there is   *)
(* no file to load.                                                         *)
OnDocumentAssetUpdated(news) ==
    /\ IF isDownloadAvailable /\ ~downloadInProgress
       THEN IF "failed" \in news THEN retry' = TRUE /\ NoDownloadYet
            ELSE UNCHANGED retry /\ IF enabled' THEN StartDownload ELSE NoDownloadYet
       ELSE UNCHANGED retry /\ NoDownloadYet
    /\ IF loaded < mtime THEN TryLoad(loaded)
       ELSE IF "file" \in news THEN TryLoad(0) ELSE UNCHANGED loaded /\ NoLoad
    /\ UNCHANGED <<server, disk, calls, kills, attached, document, externals, opened, drawn>>

(* Nothing is asked for any more: the main thread does the last part of     *)
(* every load that waits, before anything else.                             *)
Finishing == Idle /\ asking = {} /\ waiting # <<>>

(* The listener, at a frame.                                                *)
Frame ==
    /\ Idle /\ ~Finishing /\ attached /\ heard # {}
    /\ UNCHANGED <<enabled, acts>>
    /\ OnDocumentAssetUpdated(heard)
    /\ heard' = LockNews

(* onDocumentAsset: this download does not ask whether one is possible.     *)
Attach ==
    /\ Idle /\ ~attached /\ (Polite => ~waitFileSwap)
    /\ attached' = TRUE
    /\ UNCHANGED <<enabled, document, retry, externals, opened, drawn, acts,
                   server, disk, calls, kills>>
    /\ IF enabled /\ ~downloadInProgress THEN StartDownload ELSE NoDownloadYet
    /\ TryLoad(0)
    /\ heard' = {"other"}

Act == Idle /\ attached /\ acts < MaxActs /\ acts' = acts + 1

(* refresh() and updateDocument().                                          *)
Refresh ==
    /\ Act
    /\ UNCHANGED <<Others, attached, enabled, document, retry, externals, opened, drawn>>
    /\ TryLoad(0)
    /\ Hears({})

Enable ==
    /\ Act /\ ~enabled /\ enabled' = TRUE
    /\ OnDocumentAssetUpdated({"other"})
    /\ Hears({})

Disable ==
    /\ Act /\ enabled /\ enabled' = FALSE
    /\ UNCHANGED <<vars, attached, loaded, loading, document, retry, externals,
                   heard, path, texture>>

(* update(): the time of a retry has come.                                  *)
Retry ==
    /\ Idle /\ retry /\ retry' = FALSE
    /\ acts < MaxActs /\ acts' = acts + 1
    /\ IF enabled /\ isDownloadAvailable /\ ~downloadInProgress
       THEN StartDownload ELSE NoDownloadYet
    /\ UNCHANGED <<lockVars, server, disk, calls, kills, attached, enabled, loaded, loading,
                   document, externals, heard, path, texture>>

-----------------------------------------------------------------------------
(* The texture thread, whose one worker takes the tasks in order.  A        *)
(* document is known by the answer that completed its file.                 *)
OpenDocument ==
    /\ jobs # <<>> /\ Head(jobs) \in Load
    /\ jobs' = Tail(jobs)
    /\ opened' = [opened EXCEPT ![Head(jobs)] =
                     IF path /\ Exists(file) /\ file[2] \notin Broken THEN file[2] ELSE 0]
    /\ Post(Loaded(Head(jobs)))
    /\ UNCHANGED <<lockVars, server, disk, flags, download, work, saves, version, kills,
                   source, externals, heard, path, drawn, acts>>

MakeTexture ==
    /\ jobs # <<>> /\ Head(jobs) \in Draw
    /\ jobs' = Tail(jobs)
    /\ Post(Drawn(Head(jobs)))
    /\ UNCHANGED <<lockVars, server, disk, flags, download, work, saves, version, kills,
                   source, externals, heard, path, opened, drawn, acts>>

(* A mistake: nothing to do for a version that is shown already.            *)
OnLoaded_Same(l) ==
    /\ Dequeue("loaded") /\ Head(calls).request = l
    /\ IF opened[l] \in {0, document}
       THEN UNCHANGED externals
       ELSE /\ known' = known \cup Refers[opened[l]]
            /\ \E late \in SUBSET (known' \ known) : asking' = asking \cup late
            /\ waiting' = Append(waiting, l)
    /\ UNCHANGED lockVars /\ Hears({})
    /\ UNCHANGED <<server, disk, flags, download, work, saves, version, kills,
                   source, path, texture, acts>>

(* The completion of a load: it waits for external assets, those that are   *)
(* new and not in the library's memory among them, if there are any.  A     *)
(* document that was not opened keeps its lock.                             *)
OnLoaded(l) ==
    /\ Dequeue("loaded") /\ Head(calls).request = l
    /\ IF opened[l] = 0
       THEN UNCHANGED externals
       ELSE /\ known' = known \cup Refers[opened[l]]
            /\ \E late \in SUBSET (known' \ known) : asking' = asking \cup late
            /\ waiting' = Append(waiting, l)
    /\ UNCHANGED lockVars /\ Hears({})
    /\ UNCHANGED <<server, disk, flags, download, work, saves, version, kills,
                   source, path, texture, acts>>

(* removeAssetRequest, when the library has answered.                       *)
OnExternal(e) ==
    /\ Idle /\ e \in asking /\ asking' = asking \ {e}
    /\ UNCHANGED <<vars, source, known, waiting, heard, path, texture, acts>>

(* The last part of a load: the lock is released, which may grant it to     *)
(* others, before the document is shown.                                    *)
FinishLoad(l) ==
    /\ Finishing /\ l = Head(waiting) /\ waiting' = Tail(waiting)
    /\ loading' = FALSE
    /\ Releases(l, <<Shown(l)>>) /\ Hears({})
    /\ UNCHANGED <<Others, attached, enabled, loaded, document, retry, asking, known, path,
                   texture, acts>>

(* The rest of releaseDocument, and onDocumentLoaded.                       *)
OnDocumentLoaded ==
    /\ Innermost("shown")
    /\ stack' = Tail(stack)
    /\ path' = FALSE /\ document' = opened[Head(stack).request]
    /\ UNCHANGED <<lock, lockers, readQueue, writeQueue, status, Others, attached, enabled,
                   loaded, loading, retry, externals, heard, texture, acts>>

-----------------------------------------------------------------------------
(* A page to draw: Request::run.                                            *)
Run(d) ==
    /\ d \notin drawn /\ (Patient => isActual /\ Grantable("Read"))
    /\ attached /\ Retain(d) /\ Hears({})
    /\ UNCHANGED <<Others, source, externals, path, texture, acts>>

(* onAssetCaptured.  A request that was queued and has released is granted  *)
(* the lock again, but its function is not called again.                    *)
OnAssetCaptured(d) ==
    /\ Innermost("call") /\ Head(stack).request = d
    /\ status' = [status EXCEPT ![d] = "held"]
    /\ IF d \in drawn THEN stack' = Tail(stack) /\ UNCHANGED <<jobs, drawn>>
       ELSE IF isActual THEN stack' = Tail(stack) /\ jobs' = Append(jobs, d) /\ UNCHANGED drawn
       ELSE stack' = <<Release(d)>> \o Tail(stack) /\ drawn' = drawn \cup {d} /\ UNCHANGED jobs
    /\ UNCHANGED <<lock, lockers, readQueue, writeQueue, Others, source, externals, heard,
                   path, opened, acts>>

OnDrawn(d) ==
    /\ Dequeue("drawn") /\ Head(calls).request = d
    /\ Releases(d, <<>>) /\ drawn' = drawn \cup {d} /\ Hears({})
    /\ UNCHANGED <<server, disk, flags, download, work, saves, version, kills, source,
                   externals, path, jobs, opened, acts>>

-----------------------------------------------------------------------------
(* The asset, and what its steps announce.                                  *)
AssetCalls ==
    \/ OnOpened /\ Hears({})
    \/ OnCompleted /\ Hears(IF Head(calls).success THEN {"other"} ELSE {"failed"})
    \/ OnFileCalled /\ Hears({"file"})
    \/ ClearCalled /\ Hears({"file"})
    \/ \E w \in Swap : (SwapCalled(w) \/ OnSwapped(w)) /\ Hears({})
    \/ LockStep /\ Hears({})

AssetUsers ==
    \/ ClearFile /\ Hears({})
    \/ CheckFile /\ Hears(IF fileExisted' # fileExisted THEN {"file"} ELSE {})

Progress == download.state # "none" /\ UNCHANGED vars /\ Hears({"other"})
Network  == (Refused \/ Failed \/ Responded \/ Received) /\ Hears({})
AssetThreads == (Publish \/ RemoveOriginal \/ MoveTemp) /\ Hears({})

(* Rows matter to a restart, which is left out here: they are written at    *)
(* once.                                                                    *)
Saved == saves = <<>>
Saves == SaveRow /\ Hears({})

Rest == UNCHANGED <<source, externals, path, texture, acts>>

SourceCalls ==
    \/ \E l \in Load : FinishLoad(l)
    \/ /\ ~Finishing
       /\ \/ OnDocumentLoaded
          \/ \E l \in Load : OnLoaded(l)
          \/ \E d \in Draw : OnAssetCaptured(d) \/ OnDrawn(d)
          \/ AssetCalls /\ Rest

SourceUsers ==
    /\ ~Finishing
    /\ \/ Attach \/ Refresh \/ Enable \/ Disable \/ Retry
       \/ \E d \in Draw : Run(d)
       \/ (AssetUsers \/ Progress) /\ Rest

SourceNext ==
    \/ /\ Saved
       /\ \/ SourceUsers \/ Frame \/ SourceCalls \/ OpenDocument \/ MakeTexture
          \/ \E e \in External : OnExternal(e)
          \/ (Network \/ AssetThreads) /\ Rest
    \/ Saves /\ Rest

SourceSpec ==
    /\ SourceInit /\ [][SourceNext]_sourceVars
    /\ WF_sourceVars(Saves /\ Rest)
    /\ WF_sourceVars(Saved /\ Frame) /\ WF_sourceVars(Saved /\ SourceCalls)
    /\ WF_sourceVars(Saved /\ (OpenDocument \/ MakeTexture))
    /\ WF_sourceVars(Saved /\ (RemoveOriginal \/ MoveTemp) /\ Hears({}) /\ Rest)
    /\ WF_sourceVars(Saved /\ Network /\ Rest)
    /\ \A e \in External : WF_sourceVars(Saved /\ OnExternal(e))

-----------------------------------------------------------------------------
(* A load that waits for the texture thread finds the file of its asset     *)
(* there, and of the version that was noted for it, whatever other loads,   *)
(* refreshes and swaps have come after it.                                  *)
OpensItsFile ==
    \A i \in DOMAIN jobs : jobs[i] \in Load => Exists(file) /\ loaded \in {0, file[2]}

(* A request whose lock the texture thread or the main thread will release. *)
OnItsWay(r) ==
    \/ \E i \in DOMAIN jobs : jobs[i] = r
    \/ \E i \in DOMAIN waiting : waiting[i] = r
    \/ \E i \in DOMAIN calls : calls[i] = IF r \in Load THEN Loaded(r) ELSE Drawn(r)

(* The source holds the asset only for a load or a page that is on its way, *)
(* but for two: a load that opened nothing, and a page that was finished    *)
(* before it was granted the lock once more.  Any other would keep new      *)
(* files from the asset for ever.                                           *)
HeldForAReason ==
    Idle => \A r \in Reader : Holding(r) =>
                OnItsWay(r) \/ (r \in Load /\ opened[r] = 0) \/ r \in drawn

(* What does not hold: that the saved path is left to the load that took it,*)
(* and that whoever holds the asset will release it.                        *)
PathKept    == \A i \in DOMAIN jobs : jobs[i] \in Load => path
NobodyStuck == Idle => \A r \in Reader : Holding(r) => OnItsWay(r)

(* An actual source shows what the asset has on the disk, unless the asset  *)
(* itself says that it is not up to date.                                   *)
ActualIsShown ==
    Idle /\ isActual /\ isReadAvailable /\ ~unupdated => document = file[2]

(* The version that is shown does not change while a page of it is drawn.   *)
DrawStable ==
    [][\A d \in Draw : Holding(d) /\ Holding(d)' /\ d \notin drawn' => document' = document]_sourceVars

(* A new file is shown, as long as the source is enabled.                   *)
NewFileShown ==
    document < mtime ~> (document = mtime \/ ~enabled \/ ~attached \/ ~fileExisted)
=============================================================================
