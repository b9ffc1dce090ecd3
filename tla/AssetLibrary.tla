---------------------------- MODULE AssetLibrary -----------------------------
(* The directory of assets: AssetLibrary finds the live Asset of an id, or  *)
(* has the storage thread read its row and make one, and gives it to        *)
(* everyone who asked.  Requests made before the library has loaded wait    *)
(* until the downloads of the last run are restored.  Asset models what     *)
(* happens inside one asset.                                                *)
EXTENDS Integers, Sequences, FiniteSets

CONSTANTS Id,           \* assets, by the hash of url and path
          Call,         \* calls of getAsset and getAssets
          MaxSize       \* bound: assets asked for by one call

ASSUME LibraryParameters ==
    Id # {} /\ MaxSize \in Nat /\ IsFiniteSet(Id) /\ IsFiniteSet(Call)

VARIABLES
    loaded, tmpRequests, tmpMultiRequest,
    assets,             \* of each id, which of its objects is live, or 0
    downloads,          \* the objects that have an AssetDownload
    callbacks,          \* of each id, who waits for its asset to be made
    objects,            \* of each id, the reference counts of the Assets made
    jobs, performed,    \* tasks of the storage thread; how many were executed
    now,                \* what the main thread has left of a completion
    inside,             \* its last step called functions of users
    ask,                \* what each call asked for
    retVec,             \* of each getAssets, its vector while it is collected
    given, vecGiven,    \* how often its callbacks were called
    held,               \* assets that the receivers of a call still retain
    rows,               \* the database: of each id, what its row says, or {}
    fault

library == <<loaded, tmpRequests, tmpMultiRequest, assets, downloads, callbacks>>
threads == <<jobs, performed, now, inside>>
clients == <<ask, retVec, given, vecGiven, held>>
vars    == <<library, objects, threads, clients, rows, fault>>

(* A request of a vector is a pair of a call and an id; a call asks for an  *)
(* id at most once.  own: its requests have callbacks; all: the call has    *)
(* an AssetVecCallback.                                                     *)
Shape    == [ids : SUBSET Id, own : BOOLEAN, all : BOOLEAN]
NotAsked == [ids |-> {}, own |-> FALSE, all |-> FALSE]
Asked(c) == ask[c] # NotAsked

Nothing == [kind |-> "none", call |-> {}, ids |-> {}]
NoVec   == [kept |-> FALSE, got |-> {}, size |-> 0]
InitJob       == [Nothing EXCEPT !.kind = "init"]
One(i)        == [Nothing EXCEPT !.kind = "one", !.ids = {i}]
Many(cb, ids) == [Nothing EXCEPT !.kind = "many", !.call = cb, !.ids = ids]

(* A row may say that a download is on its way, and be expired: not touched *)
(* for longer than its time to live allows.                                 *)
Row == {row \in SUBSET {"row", "download", "expired"} : row # {} => "row" \in row}

Jobs == [kind : {"none", "init", "multi", "one", "many"}, call : SUBSET Call, ids : SUBSET Id]

(* The types of the state.                                                  *)
TypeOK ==
    /\ loaded \in BOOLEAN /\ tmpRequests \subseteq Call \X Id
    /\ tmpMultiRequest \in Seq(Call)
    /\ assets \in [Id -> Nat] /\ downloads \subseteq Id \X Nat
    /\ callbacks \in [Id -> SUBSET (Call \X {"own", "all"})]
    /\ objects \in [Id -> Seq(Int)]
    /\ jobs \in Seq(Jobs) /\ performed \in 0 .. Len(jobs)
    /\ now \in Jobs /\ inside \in BOOLEAN
    /\ ask \in [Call -> Shape]
    /\ retVec \in [Call -> [kept : BOOLEAN, got : SUBSET Id, size : Nat]]
    /\ given \in [Call -> [Id -> Nat]] /\ vecGiven \in [Call -> Nat]
    /\ held \subseteq Call \X Id
    /\ rows \in [Id -> Row]
    /\ fault \in BOOLEAN

(* The process starts with the rows that earlier runs have left, wherever   *)
(* they died; nothing else outlives a run.                                  *)
Init ==
    /\ loaded = FALSE /\ tmpRequests = {} /\ tmpMultiRequest = <<>>
    /\ assets = [i \in Id |-> 0] /\ downloads = {} /\ callbacks = [i \in Id |-> {}]
    /\ objects = [i \in Id |-> <<>>]
    /\ jobs = <<InitJob>> /\ performed = 0 /\ now = Nothing /\ inside = FALSE
    /\ ask = [c \in Call |-> NotAsked]
    /\ retVec = [c \in Call |-> NoVec]
    /\ given = [c \in Call |-> [i \in Id |-> 0]] /\ vecGiven = [c \in Call |-> 0]
    /\ held = {} /\ fault = FALSE
    /\ rows \in [Id -> Row]

-----------------------------------------------------------------------------
(* Functions of users are called: own, pairs of a call and an id whose      *)
(* callback gets the asset, and the AssetVecCallbacks of the calls vecs.    *)
(* Each of them retains what it gets.                                       *)
Give(a, own, vecs) ==
    /\ given' = [c \in Call |-> [i \in Id |-> given[c][i] + (IF <<c, i>> \in own THEN 1 ELSE 0)]]
    /\ vecGiven' = [c \in Call |-> vecGiven[c] + (IF c \in vecs THEN 1 ELSE 0)]
    /\ held' = held \cup own \cup {p \in vecs \X Id : p[2] \in a[p[1]].ids}

(* The counts of the live assets, once the receivers have retained them.    *)
Retained(live) ==
    [i \in Id |-> IF live[i] = 0 THEN objects[i]
                  ELSE [objects[i] EXCEPT ![live[i]] =
                            @ + Cardinality({c \in Call : <<c, i>> \in held' \ held})]]

(* An asset is put into the vectors of the calls to.                        *)
Pushed(to, i) ==
    [c \in Call |-> IF c \in to /\ retVec[c].kept
                    THEN [kept |-> TRUE, got |-> retVec[c].got \cup {i}, size |-> retVec[c].size + 1]
                    ELSE retVec[c]]

(* A request for an asset that is being made joins those who wait for it.   *)
(* Mistakes: it does not look for them; it leaves out the vector.           *)
Waiting_Forgotten(i) == FALSE
Waiting(i)           == callbacks[i] # {}

Lambdas_Forgotten(cb, joined, i) == {}
Lambdas(cb, joined, i)           == {<<c, "all">> : c \in {d \in cb : <<d, i>> \in joined}}

Deleted(vec, which) == [c \in Call |-> IF c \in which THEN [vec[c] EXCEPT !.kept = FALSE] ELSE vec[c]]

(* Mistake: off by one.                                                     *)
Full_Early(a, vec, c) == vec[c].size + 1 >= Cardinality(a[c].ids)
Full(a, vec, c)       == vec[c].size = Cardinality(a[c].ids)

(* The body of getAssets for the requests of V; cb is the call with an      *)
(* AssetVecCallback, if any; a is what was asked.                           *)
Requested(a, V, cb) ==
    LET ready  == {v \in V : assets[v[2]] # 0}
        joined == {v \in V \ ready : Waiting(v[2])}
        new    == {v[2] : v \in V \ (ready \cup joined)}
        vec    == [c \in Call |->
                     IF c \in cb THEN [kept |-> TRUE, got |-> {v[2] : v \in ready}, size |-> Cardinality(ready)]
                     ELSE retVec[c]]
        full   == {c \in cb : new = {} /\ Full(a, vec, c)}
    IN /\ callbacks' = [i \in Id |-> callbacks[i]
                            \cup {<<v[1], "own">> : v \in {w \in V \ ready : w[2] = i}}
                            \cup Lambdas(cb, joined, i)]
       /\ retVec' = Deleted(vec, full)
       /\ Give(a, {v \in ready : a[v[1]].own}, full)
       /\ objects' = Retained(assets)
       /\ jobs' = IF new = {} THEN jobs ELSE Append(jobs, Many(cb, new))

-----------------------------------------------------------------------------
(* The main thread: users.  They call between two functions of the main     *)
(* thread, or from a callback.                                              *)
MayCall == now = Nothing \/ inside

getAssets(c, shape) ==
    LET a == [ask EXCEPT ![c] = shape]
        V == {c} \X shape.ids
        cb == IF shape.all THEN {c} ELSE {}
    IN /\ MayCall /\ ~Asked(c) /\ shape # NotAsked
       /\ ask' = a
       /\ IF loaded
          THEN /\ Requested(a, V, cb)
               /\ UNCHANGED <<tmpRequests, tmpMultiRequest>>
          ELSE /\ tmpRequests' = IF shape.all THEN tmpRequests ELSE tmpRequests \cup V
               /\ tmpMultiRequest' = IF shape.all THEN Append(tmpMultiRequest, c) ELSE tmpMultiRequest
               /\ UNCHANGED <<callbacks, objects, jobs, retVec, given, vecGiven, held>>
       /\ UNCHANGED <<loaded, assets, downloads, performed, now, inside, rows, fault>>

(* getAsset, which no caller gives a null callback.                         *)
getAsset(c, i) ==
    LET a == [ask EXCEPT ![c] = [ids |-> {i}, own |-> TRUE, all |-> FALSE]]
    IN /\ MayCall /\ ~Asked(c)
       /\ ask' = a
       /\ tmpRequests' = IF loaded THEN tmpRequests ELSE tmpRequests \cup {<<c, i>>}
       /\ Give(a, IF loaded /\ assets[i] # 0 THEN {<<c, i>>} ELSE {}, {})
       /\ objects' = Retained(assets)
       /\ IF loaded /\ assets[i] = 0
          THEN /\ callbacks' = [callbacks EXCEPT ![i] = @ \cup {<<c, "own">>}]
               /\ jobs' = IF Waiting(i) THEN jobs ELSE Append(jobs, One(i))
          ELSE UNCHANGED <<callbacks, jobs>>
       /\ UNCHANGED <<loaded, tmpMultiRequest, assets, downloads, performed, now, inside,
                      retVec, rows, fault>>

(* A receiver releases its asset.  removeAsset runs when the count is 0.    *)
Release(i, n) ==
    /\ objects' = [objects EXCEPT ![i][n] = @ - 1]
    /\ assets' = IF objects[i][n] = 1 THEN [assets EXCEPT ![i] = 0] ELSE assets

Drop(c, i) ==
    /\ MayCall /\ <<c, i>> \in held
    /\ held' = held \ {<<c, i>>}
    /\ Release(i, assets[i])
    /\ UNCHANGED <<loaded, tmpRequests, tmpMultiRequest, downloads, callbacks, threads,
                   ask, retVec, given, vecGiven, rows, fault>>

-----------------------------------------------------------------------------
(* The main thread: the downloads of the assets.  A restored asset already  *)
(* has one, though the library learns of it when it has loaded.             *)
Restoring(i) == jobs # <<>> /\ Head(jobs).kind = "init" /\ i \in Head(jobs).ids

downloadAsset(i, n) ==
    /\ MayCall /\ objects[i][n] > 0 /\ ~Restoring(i) /\ <<i, n>> \notin downloads
    /\ downloads' = downloads \cup {<<i, n>>}
    /\ objects' = [objects EXCEPT ![i][n] = @ + 1]
    /\ UNCHANGED <<loaded, tmpRequests, tmpMultiRequest, assets, callbacks, threads,
                   clients, rows, fault>>

removeDownload(i, n) ==
    /\ now = Nothing /\ <<i, n>> \in downloads
    /\ downloads' = downloads \ {<<i, n>>}
    /\ Release(i, n)
    /\ UNCHANGED <<loaded, tmpRequests, tmpMultiRequest, callbacks, threads, clients,
                   rows, fault>>

-----------------------------------------------------------------------------
(* The storage thread executes its tasks in order.                          *)
Make(ids, count) ==
    objects' = [i \in Id |-> IF i \in ids THEN Append(objects[i], count) ELSE objects[i]]

Task(kind) ==
    /\ performed < Len(jobs) /\ jobs[performed + 1].kind \in kind
    /\ performed' = performed + 1
    /\ UNCHANGED <<library, now, inside, clients, fault>>

(* A row as touchAsset saves it: the download is not in the library yet.    *)
(* Mistake: it is saved with the time it had.                               *)
Touched_Not(row) == row \ {"download"}
Touched(row)     == row \ {"download", "expired"}

Downloading(row) == "download" \in row
Expired(row)     == "expired" \in row /\ ~Downloading(row)

(* The task of init: restoreDownloads makes an Asset, which it touches and  *)
(* so saves, and an AssetDownload for each row that says so; cleanup, when  *)
(* there is a network, drops the rows of assets nobody has used for long.   *)
Restore(online) ==
    LET ids   == {i \in Id : Downloading(rows[i])}
        saved == [i \in Id |-> IF i \in ids THEN Touched(rows[i]) ELSE rows[i]]
    IN /\ Task({"init"})
       /\ jobs' = [jobs EXCEPT ![performed + 1].ids = ids]
       /\ Make(ids, 2)
       /\ rows' = [i \in Id |-> IF online /\ Expired(saved[i]) THEN {} ELSE saved[i]]

(* The tasks of getAsset and of getAssets (performGetAssets).               *)
performGetAssets ==
    LET ids == jobs[performed + 1].ids IN
    /\ Task({"one", "many"})
    /\ Make(ids, 1)
    /\ rows' = [i \in Id |-> IF i \in ids /\ rows[i] = {} THEN {"row"} ELSE rows[i]]
    /\ UNCHANGED jobs

-----------------------------------------------------------------------------

(* The main thread: completions of the tasks, in order.                    *)
Completion(kind) ==
    /\ now = Nothing /\ performed > 0 /\ Head(jobs).kind \in kind
    /\ performed' = performed - 1

Inside == inside' = (now' # Nothing /\ (given' # given \/ vecGiven' # vecGiven))

Resumed(ids)           == {<<i, Len(objects[i])>> : i \in ids}

(* The completion of init.  It then serves the requests that have waited:   *)
(* those without an AssetVecCallback at once, the others one by one.        *)
Loaded ==
    LET ids == Head(jobs).ids IN
    /\ Completion({"init"})
    /\ loaded' = TRUE
    /\ assets' = [i \in Id |-> IF i \in ids THEN Len(objects[i]) ELSE assets[i]]
    /\ downloads' = downloads \cup Resumed(ids)
    /\ jobs' = Tail(jobs) /\ now' = Head(jobs)
    /\ UNCHANGED <<tmpRequests, tmpMultiRequest, callbacks, objects, inside, clients, rows, fault>>

Served == UNCHANGED <<loaded, tmpRequests, assets, downloads, performed, ask, rows, fault>>

ServeRequests ==
    /\ now.kind = "init"
    /\ Requested(ask, tmpRequests, {})
    /\ now' = IF tmpMultiRequest = <<>> THEN Nothing ELSE [now EXCEPT !.kind = "multi"]
    /\ Inside /\ UNCHANGED tmpMultiRequest /\ Served

ServeMulti ==
    LET c == Head(tmpMultiRequest) IN
    /\ now.kind = "multi"
    /\ Requested(ask, {c} \X ask[c].ids, {c})
    /\ tmpMultiRequest' = Tail(tmpMultiRequest)
    /\ now' = IF Len(tmpMultiRequest) = 1 THEN Nothing ELSE now
    /\ Inside /\ Served

Completed ==
    /\ Completion({"one", "many"})
    /\ now' = Head(jobs)
    /\ jobs' = Tail(jobs) /\ inside' = FALSE
    /\ UNCHANGED <<library, objects, clients, rows, fault>>

(* One asset of the completion: it goes into the vector of the call that    *)
(* had the task, and onAssetCreated calls everyone who waits for it.        *)
onAssetCreated(i) ==
    LET lambdas == {c \in Call : <<c, "all">> \in callbacks[i]}
        vec  == Pushed(now.call \cup lambdas, i)
        full == {c \in lambdas : retVec[c].kept /\ Full(ask, vec, c)}
        live == IF assets[i] = 0 THEN [assets EXCEPT ![i] = Len(objects[i])] ELSE assets
    IN /\ now.kind \in {"one", "many"} /\ i \in now.ids
       /\ assets' = live
       /\ callbacks' = [callbacks EXCEPT ![i] = {}]
       /\ retVec' = Deleted(vec, full)
       /\ Give(ask, {v \in Call \X {i} : ask[v[1]].own /\ <<v[1], "own">> \in callbacks[i]}, full)
       /\ objects' = Retained(live)
       /\ fault' = (fault \/ \E c \in now.call \cup lambdas : ~retVec[c].kept)
       /\ now' = IF now.call = {} /\ now.ids = {i} THEN Nothing ELSE [now EXCEPT !.ids = @ \ {i}]
       /\ Inside
       /\ UNCHANGED <<loaded, tmpRequests, tmpMultiRequest, downloads, jobs, performed, ask,
                      rows>>

(* The end of the completion of getAssets.                                  *)
Collected ==
    LET full == {c \in now.call : Full(ask, retVec, c)} IN
    /\ now.kind = "many" /\ now.ids = {}
    /\ fault' = (fault \/ \E c \in now.call : ~retVec[c].kept)
    /\ retVec' = Deleted(retVec, full)
    /\ Give(ask, {}, full)
    /\ objects' = Retained(assets)
    /\ now' = Nothing /\ inside' = FALSE
    /\ UNCHANGED <<library, jobs, performed, ask, rows>>

-----------------------------------------------------------------------------
MainThread    == Loaded \/ ServeRequests \/ ServeMulti \/ Completed \/ Collected \/ \E i \in Id : onAssetCreated(i)
StorageThread == performGetAssets \/ \E online \in BOOLEAN : Restore(online)

Users ==
    \/ \E c \in Call, shape \in Shape : Cardinality(shape.ids) <= MaxSize /\ getAssets(c, shape)
    \/ \E c \in Call, i \in Id : getAsset(c, i) \/ Drop(c, i)

Assets ==
    \E i \in Id : \E n \in DOMAIN objects[i] :
        downloadAsset(i, n) \/ removeDownload(i, n)

Next == MainThread \/ StorageThread \/ Users \/ Assets

Spec == Init /\ [][Next]_vars

FairSpec == Spec /\ WF_vars(MainThread) /\ WF_vars(StorageThread)

-----------------------------------------------------------------------------
(* There is one living Asset of an id, whoever asks for it and whenever:    *)
(* before the library has loaded, while the row is read, or after.  A       *)
(* second one would lock and download the same file on its own.             *)
OneAsset ==
    \A i \in Id : \A m, n \in DOMAIN objects[i] : objects[i][m] > 0 /\ objects[i][n] > 0 => m = n

(* Nobody is called twice, and an AssetVecCallback gets every asset that    *)
(* was asked for, each once; its vector is not used after that.             *)
AnsweredOnce ==
    /\ ~fault
    /\ \A c \in Call :
          /\ \A i \in Id : given[c][i] <= (IF ask[c].own /\ i \in ask[c].ids THEN 1 ELSE 0)
          /\ vecGiven[c] <= (IF ask[c].all THEN 1 ELSE 0)
          /\ vecGiven[c] = 1 => retVec[c].got = ask[c].ids /\ ~retVec[c].kept

(* An asset has a row to be found by at the next start: cleanup never drops *)
(* that of an asset it has just restored.                                   *)
RowKept == \A i \in Id : objects[i] # <<>> => rows[i] # {}

(* An id stands for one Asset, in this life of the process and in the next. *)
OneLasting == OneAsset /\ RowKept

Answered(c) ==
    /\ ask[c].own => \A i \in ask[c].ids : given[c][i] = 1
    /\ ask[c].all => vecGiven[c] = 1

(* Every request is answered, if the process lives long enough.             *)
EveryoneAnswered == \A c \in Call : Asked(c) ~> Answered(c)

(* An asset that nobody retains does not stay: "new asset is autoreleased"  *)
(* (SPAssetLibrary.h:76).                                                   *)
Autoreleased ==
    \A i \in Id : assets[i] # 0 /\ now = Nothing =>
        \/ \E c \in Call : <<c, i>> \in held
        \/ <<i, assets[i]>> \in downloads
=============================================================================
