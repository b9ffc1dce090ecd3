------------------------- MODULE AssetLibraryProofs -------------------------
(* AssetLibrary for every set of assets and every number of calls.          *)
EXTENDS AssetLibrary, FiniteSetTheorems, SequenceTheorems, TLAPS

-----------------------------------------------------------------------------
(* The invariant.                                                           *)

Creation == {"one", "many"}

\* what a completion has left to give out
NowIds == IF now.kind \in Creation THEN now.ids ELSE {}
NowCall == IF now.kind \in Creation THEN now.call ELSE {}

\* an asset that is being made: from the request to onAssetCreated
InJob(i) == \E k \in DOMAIN jobs : jobs[k].kind \in Creation /\ i \in jobs[k].ids
Pending(i) == InJob(i) \/ i \in NowIds

Made(i) == objects[i] # <<>>
Holders(i) == {c \in Call : <<c, i>> \in held}
Waits(c) == \E k \in DOMAIN tmpMultiRequest : tmpMultiRequest[k] = c

\* Until the library has loaded there is one task, that of init.
StartInv ==
    /\ ~loaded => /\ Len(jobs) = 1 /\ jobs[1].kind = "init" /\ now = Nothing
                  /\ performed = 0 => jobs[1].ids = {} /\ \A i \in Id : ~Made(i)
                  /\ performed = 1 => \A i \in Id : Made(i) <=> i \in jobs[1].ids
                  /\ downloads = {} /\ held = {}
    /\ loaded => \A k \in DOMAIN jobs : jobs[k].kind \in Creation
    /\ tmpMultiRequest # <<>> => ~loaded \/ now.kind \in {"init", "multi"}
    /\ now.kind = "multi" => tmpMultiRequest # <<>>

\* An asset is made by one task, for which those wait who have a callback in
\* callbacks; its object is there once the task is performed.
JobsInv ==
    /\ \A k \in DOMAIN jobs : jobs[k].kind \in Creation => jobs[k].ids # {}
    /\ \A i \in Id, k, l \in DOMAIN jobs : i \in jobs[k].ids /\ i \in jobs[l].ids => k = l
    /\ \A k \in DOMAIN jobs : jobs[k].ids \cap NowIds = {}
    /\ \A c \in Call, k, l \in DOMAIN jobs : c \in jobs[k].call /\ c \in jobs[l].call => k = l
    /\ \A k \in DOMAIN jobs : jobs[k].call \cap NowCall = {} /\ (jobs[k].kind = "init" => jobs[k].call = {})
    /\ \A i \in Id : callbacks[i] # {} <=> Pending(i)
    /\ \A i \in Id, k \in DOMAIN jobs :
            jobs[k].kind \in Creation /\ i \in jobs[k].ids => (Made(i) <=> k <= performed)
    /\ \A i \in Id : i \in NowIds => Made(i)

\* The references of an object: those of its receivers, one of its download,
\* and the one it was made with, which nobody releases.
ObjectInv(i) ==
    /\ Made(i) => /\ Len(objects[i]) = 1
                  /\ objects[i][1] = 1 + Cardinality(Holders(i))
                                       + (IF <<i, 1>> \in downloads \/ ~loaded THEN 1 ELSE 0)
                  /\ rows[i] # {}
    /\ assets[i] = IF loaded /\ Made(i) /\ ~Pending(i) THEN 1 ELSE 0
    /\ \A d \in downloads : d[1] = i => d[2] = 1 /\ Made(i)
    /\ Holders(i) # {} => assets[i] = 1

\* what is still to come into the vector of a call
Joined(c) == {i \in Id : <<c, "all">> \in callbacks[i]}
Ordered(c) == {i \in Id : \E k \in DOMAIN jobs : c \in jobs[k].call /\ i \in jobs[k].ids}
Coming(c) == IF c \in NowCall THEN NowIds ELSE {}
Missing(c) == Joined(c) \cup Ordered(c) \cup Coming(c)
Working(c) == c \in NowCall \/ \E k \in DOMAIN jobs : c \in jobs[k].call

\* The vector of a call is kept until nothing is missing; the call is then
\* answered, by the last of those it joined or at the end of its own task.
VectorInv(c) ==
    /\ Joined(c) \cap (Ordered(c) \cup Coming(c)) = {}
    /\ retVec[c].kept => /\ ask[c].all /\ vecGiven[c] = 0
                         /\ retVec[c].got \cap Missing(c) = {}
                         /\ retVec[c].got \cup Missing(c) = ask[c].ids
                         /\ retVec[c].size = Cardinality(retVec[c].got)
                         /\ \A i \in retVec[c].got : assets[i] = 1
                         /\ Missing(c) = {} => c \in NowCall
    /\ ~retVec[c].kept => Missing(c) = {} /\ ~Working(c)
    /\ vecGiven[c] <= 1
    /\ vecGiven[c] = 1 => ask[c].all /\ ~retVec[c].kept /\ retVec[c].got = ask[c].ids

\* nothing was done for a call yet
Untouched(c) ==
    /\ vecGiven[c] = 0 /\ ~retVec[c].kept
    /\ \A i \in Id : given[c][i] = 0 /\ <<c, "own">> \notin callbacks[i] /\ <<c, "all">> \notin callbacks[i]

\* A callback is called once: it waits in tmpRequests, in callbacks, or nowhere.
CallInv(c) ==
    /\ ~Asked(c) \/ Waits(c) => Untouched(c)
    /\ Waits(c) => ask[c].all
    /\ \A i \in Id :
        /\ given[c][i] <= (IF ask[c].own /\ i \in ask[c].ids THEN 1 ELSE 0)
        /\ <<c, "own">> \in callbacks[i] => given[c][i] = 0 /\ i \in ask[c].ids
        /\ <<c, i>> \in tmpRequests /\ (~loaded \/ now.kind = "init") =>
                given[c][i] = 0 /\ <<c, "own">> \notin callbacks[i] /\ i \in ask[c].ids /\ ~Waits(c)

OnceInv == \A k, l \in DOMAIN tmpMultiRequest : tmpMultiRequest[k] = tmpMultiRequest[l] => k = l

LibraryInv ==
    /\ TypeOK /\ ~fault /\ StartInv /\ JobsInv /\ OnceInv
    /\ \A i \in Id : ObjectInv(i)
    /\ \A c \in Call : VectorInv(c)
    /\ \A c \in Call : CallInv(c)

-----------------------------------------------------------------------------
(* Sequences and sets.                                                      *)

(* A count in a sequence is changed.                                        *)
LEMMA SeqBump ==
    ASSUME NEW s \in Seq(Int), NEW n, NEW e \in Int
    PROVE  /\ [s EXCEPT ![n] = e] \in Seq(Int)
           /\ Len([s EXCEPT ![n] = e]) = Len(s)
           /\ DOMAIN [s EXCEPT ![n] = e] = DOMAIN s
           /\ n \in DOMAIN s => [s EXCEPT ![n] = e][n] = e
           /\ \A m \in DOMAIN s : m # n => [s EXCEPT ![n] = e][m] = s[m]
  <1> DEFINE t == [s EXCEPT ![n] = e]
  <1>1. s \in [1 .. Len(s) -> Int] /\ Len(s) \in Nat /\ DOMAIN s = 1 .. Len(s)
    OBVIOUS
  <1>2. t \in [1 .. Len(s) -> Int] /\ DOMAIN t = DOMAIN s
    BY <1>1
  <1>3. t \in Seq(Int) /\ Len(t) = Len(s)
    BY <1>1, <1>2
  <1> QED BY <1>2, <1>3

(* A function of one place is a sequence.                                   *)
LEMMA OneLong ==
    ASSUME NEW S, NEW s \in [1 .. 1 -> S]
    PROVE  s \in Seq(S) /\ DOMAIN s = {1} /\ Len(s) = 1
  <1>1. 1 \in Nat /\ 1 .. 1 = {1} /\ DOMAIN s = 1 .. 1
    OBVIOUS
  <1>2. s \in Seq(S)
    BY <1>1, SeqDef
  <1>3. Len(s) = 1
    BY <1>1, <1>2
  <1> QED BY <1>1, <1>2, <1>3

(* A row that is touched is not expired, and it stays.                      *)
LEMMA TouchedStays ==
    ASSUME NEW row \in Row, Downloading(row)
    PROVE  Touched(row) \in Row /\ Touched(row) # {} /\ ~Expired(Touched(row))
  BY DEF Row, Touched, Expired, Downloading

(* Counts of calls and of ids are numbers.                                  *)
LEMMA FiniteCalls ==
    ASSUME NEW S, S \subseteq Call
    PROVE  IsFiniteSet(S) /\ Cardinality(S) \in Nat
  BY LibraryParameters, FS_Subset, FS_CardinalityType

(* The same for ids.                                                        *)
LEMMA FiniteIds ==
    ASSUME NEW S, S \subseteq Id
    PROVE  IsFiniteSet(S) /\ Cardinality(S) \in Nat
  BY LibraryParameters, FS_Subset, FS_CardinalityType

(* A set of ids that fills what was asked for is all of it.                 *)
LEMMA FillsAll ==
    ASSUME NEW S, NEW T, S \subseteq T, T \subseteq Id
    PROVE  Cardinality(S) = Cardinality(T) <=> S = T
  BY FiniteIds, FS_Subset

(* Disjoint sets of calls count together.                                   *)
LEMMA CountsAdd ==
    ASSUME NEW S, NEW T, S \subseteq Call, T \subseteq Call, S \cap T = {}
    PROVE  Cardinality(S \cup T) = Cardinality(S) + Cardinality(T)
  <1>1. IsFiniteSet(S) /\ IsFiniteSet(T) /\ IsFiniteSet(S \cap T)
    BY FiniteCalls
  <1>2. Cardinality(S \cup T) = Cardinality(S) + Cardinality(T) - Cardinality(S \cap T)
    BY <1>1, FS_Union
  <1>3. Cardinality(S \cap T) = 0
    BY FS_EmptySet
  <1> QED BY <1>2, <1>3, FiniteCalls

(* The requests of one call are as many as their ids.                       *)
LEMMA PairsCount ==
    ASSUME NEW c, NEW S, S \subseteq Id
    PROVE  Cardinality({c} \X S) = Cardinality(S)
  <1> DEFINE f == [x \in S |-> <<c, x>>]
  <1>1. f \in Bijection(S, {c} \X S)
    <2>1. f \in [S -> {c} \X S] /\ \A x, y \in S : f[x] = f[y] => x = y
      OBVIOUS
    <2>2. \A p \in {c} \X S : \E x \in S : f[x] = p
      OBVIOUS
    <2> QED BY <2>1, <2>2 DEF Bijection, Injection, Surjection, IsInjective
  <1>2. ExistsBijection(S, {c} \X S)
    BY <1>1 DEF ExistsBijection
  <1> QED BY <1>2, FiniteIds, FS_Bijection

(* A set of pairs of a call and an id, as tmpRequests is, is finite.        *)
LEMMA PairsFinite ==
    ASSUME NEW V, V \subseteq Call \X Id
    PROVE  IsFiniteSet(V) /\ Cardinality(V) \in Nat
  <1>1. IsFiniteSet(Call \X Id)
    BY LibraryParameters, FS_Product
  <1> QED BY <1>1, FS_Subset, FS_CardinalityType

-----------------------------------------------------------------------------
(* What keeps a part of the invariant.                                      *)

(* A step that touches neither tasks nor waiting callbacks, and makes no    *)
(* object, keeps what the invariant says of them.                           *)
LEMMA JobsKept ==
    ASSUME JobsInv, UNCHANGED <<jobs, performed, now, callbacks>>, \A i \in Id : Made(i)' <=> Made(i)
    PROVE  JobsInv'
  <1>1. NowIds' = NowIds /\ NowCall' = NowCall
    BY DEF NowIds, NowCall
  <1>2. \A i \in Id : Pending(i)' <=> Pending(i)
    BY <1>1 DEF Pending, InJob
  <1> QED BY <1>1, <1>2 DEF JobsInv

(* Reference counts and downloads do not matter to the vectors.             *)
LEMMA VectorKept ==
    ASSUME NEW c \in Call, VectorInv(c),
           UNCHANGED <<jobs, now, callbacks, retVec, ask, vecGiven, assets>>
    PROVE  VectorInv(c)'
  BY DEF VectorInv, Missing, Working, Joined, Ordered, Coming, NowIds, NowCall

(* Nor to who waits where.                                                  *)
LEMMA CallKept ==
    ASSUME NEW c \in Call, CallInv(c),
           UNCHANGED <<loaded, now, tmpRequests, tmpMultiRequest, callbacks, retVec, ask, given, vecGiven>>
    PROVE  CallInv(c)'
  BY DEF CallInv, Untouched, Waits, Asked

(* Which assets are being made depends on tasks and completions only.       *)
LEMMA PendingKept ==
    ASSUME UNCHANGED <<jobs, now>>
    PROVE  \A i \in Id : Pending(i)' <=> Pending(i)
  BY DEF Pending, InJob, NowIds

-----------------------------------------------------------------------------
(* The invariant holds at the start.                                        *)
LEMMA InitStep ==
    ASSUME Init
    PROVE  LibraryInv
  <1> USE DEF Init
  <1>1. Len(jobs) = 1 /\ jobs[1] = InitJob /\ DOMAIN jobs = {1}
    OBVIOUS
  <1>2. InitJob \in Jobs /\ InitJob.kind = "init" /\ InitJob.ids = {} /\ InitJob.call = {}
    BY DEF InitJob, Nothing, Jobs
  <1>3. TypeOK
    <2>1. jobs \in Seq(Jobs) /\ performed \in 0 .. Len(jobs)
      BY <1>1, <1>2
    <2>2. now \in Jobs
      BY DEF Nothing, Jobs
    <2>3. ask \in [Call -> Shape] /\ retVec \in [Call -> [kept : BOOLEAN, got : SUBSET Id, size : Nat]]
      BY DEF Shape, NotAsked, NoVec
    <2>4. callbacks \in [Id -> SUBSET (Call \X {"own", "all"})] /\ objects \in [Id -> Seq(Int)]
      OBVIOUS
    <2>5. given \in [Call -> [Id -> Nat]] /\ vecGiven \in [Call -> Nat]
      OBVIOUS
    <2>6. tmpMultiRequest \in Seq(Call)
      OBVIOUS
    <2> QED BY <2>1, <2>2, <2>3, <2>4, <2>5, <2>6 DEF TypeOK
  <1>4. NowIds = {} /\ NowCall = {} /\ \A i \in Id : ~Made(i) /\ ~Pending(i)
    BY <1>1, <1>2 DEF NowIds, NowCall, Nothing, Creation, Made, Pending, InJob
  <1>5. StartInv
    BY <1>1, <1>2, <1>4 DEF StartInv, Nothing
  <1>6. JobsInv
    BY <1>1, <1>2, <1>4 DEF JobsInv, Creation
  <1>7. \A i \in Id : ObjectInv(i)
    BY <1>4 DEF ObjectInv, Holders
  <1>8. \A c \in Call : Missing(c) = {} /\ ~Working(c) /\ ~Waits(c) /\ Untouched(c)
    BY <1>1, <1>2, <1>4 DEF Missing, Working, Joined, Ordered, Coming, Waits, Untouched, NoVec
  <1>9. \A c \in Call : VectorInv(c)
    BY <1>8 DEF VectorInv, Missing, Untouched
  <1>10. \A c \in Call : CallInv(c)
    BY <1>8 DEF CallInv, Untouched
  <1> QED BY <1>3, <1>5, <1>6, <1>7, <1>9, <1>10 DEF LibraryInv, OnceInv

-----------------------------------------------------------------------------
(* References come and go.                                                  *)

(* There is one object of an asset that has been made.                      *)
LEMMA OneObject ==
    ASSUME TypeOK, NEW i \in Id, ObjectInv(i), Made(i)
    PROVE  /\ DOMAIN objects[i] = {1}
           /\ objects[i] \in Seq(Int) /\ objects[i][1] \in Int
           /\ Len(objects[i]) = 1
  <1>1. objects[i] \in Seq(Int) /\ Len(objects[i]) = 1
    BY DEF TypeOK, ObjectInv
  <1>2. DOMAIN objects[i] = 1 .. 1
    BY <1>1
  <1> QED BY <1>1, <1>2

(* An object has finitely many receivers.                                   *)
LEMMA HoldersFinite ==
    ASSUME NEW i \in Id
    PROVE  IsFiniteSet(Holders(i)) /\ Cardinality(Holders(i)) \in Nat
  BY FiniteCalls DEF Holders

(* When only the count of one object changes, and with it who holds it or   *)
(* whether it has a download, the invariant is as good as for that object.  *)
LEMMA CountStep ==
    ASSUME LibraryInv, NEW j \in Id, Made(j), NEW e \in Int,
           objects' = [objects EXCEPT ![j][1] = e],
           held' \subseteq held, downloads' \subseteq downloads \cup {<<j, 1>>},
           \A i \in Id : i # j => /\ Holders(i)' = Holders(i)
                                  /\ <<i, 1>> \in downloads' <=> <<i, 1>> \in downloads,
           ~loaded => downloads' = {},
           e = 1 + Cardinality(Holders(j)') + (IF <<j, 1>> \in downloads' \/ ~loaded THEN 1 ELSE 0),
           UNCHANGED <<loaded, tmpRequests, tmpMultiRequest, assets, callbacks, threads,
                       ask, retVec, given, vecGiven, rows, fault>>
    PROVE  LibraryInv'
  <1> USE DEF LibraryInv, threads
  <1>0. TypeOK /\ ObjectInv(j)
    OBVIOUS
  <1>1. /\ objects[j] \in Seq(Int) /\ DOMAIN objects[j] = {1} /\ Len(objects[j]) = 1
    BY <1>0, OneObject
  <1>2. /\ objects'[j] \in Seq(Int) /\ Len(objects'[j]) = 1 /\ objects'[j][1] = e
        /\ \A i \in Id : i # j => objects'[i] = objects[i]
        /\ objects' \in [Id -> Seq(Int)]
    <2>1. objects \in [Id -> Seq(Int)]
      BY <1>0 DEF TypeOK
    <2>2. objects'[j] = [objects[j] EXCEPT ![1] = e] /\ \A i \in Id : i # j => objects'[i] = objects[i]
      BY <2>1
    <2>3. objects'[j] \in Seq(Int) /\ Len(objects'[j]) = 1 /\ objects'[j][1] = e
      BY <1>1, <2>2, SeqBump
    <2>4. objects' \in [Id -> Seq(Int)]
      BY <2>1, <2>2, <2>3
    <2> QED BY <2>2, <2>3, <2>4
  <1>3. \A i \in Id : Made(i)' <=> Made(i)
    BY <1>1, <1>2 DEF Made
  <1>4. TypeOK'
    <2>1. held \subseteq Call \X Id /\ downloads \subseteq Id \X Nat
      BY <1>0 DEF TypeOK
    <2>2. held' \subseteq Call \X Id /\ downloads' \subseteq Id \X Nat
      BY <2>1
    <2> QED BY <1>0, <1>2, <2>2 DEF TypeOK
  <1>5. StartInv'
    <2>1. ~loaded => held' = {} /\ downloads' = {}
      BY DEF StartInv
    <2> QED BY <1>3, <2>1 DEF StartInv
  <1>6. JobsInv'
    BY <1>3, JobsKept
  <1>7. ASSUME NEW i \in Id PROVE ObjectInv(i)'
    <2>0. Pending(i)' <=> Pending(i)
      BY PendingKept
    <2>1. CASE i = j
      <3>1. Holders(i)' \subseteq Holders(i)
        BY DEF Holders
      <3>2. \A d \in downloads' : d[1] = i => d[2] = 1
        <4>1. \A d \in downloads : d[1] = i => d[2] = 1
          BY DEF ObjectInv
        <4> QED BY <4>1
      <3> QED BY <2>0, <2>1, <1>2, <1>3, <3>1, <3>2 DEF ObjectInv
    <2>2. CASE i # j
      <3>1. \A d \in downloads' : d[1] = i => d[2] = 1 /\ Made(i)'
        <4>1. \A d \in downloads : d[1] = i => d[2] = 1 /\ Made(i)
          BY DEF ObjectInv
        <4> QED BY <4>1, <2>2, <1>3
      <3>2. Holders(i)' = Holders(i) /\ (<<i, 1>> \in downloads' <=> <<i, 1>> \in downloads)
        BY <2>2
      <3>3. objects'[i] = objects[i]
        BY <2>2, <1>2
      <3> QED BY <2>0, <1>3, <3>1, <3>2, <3>3 DEF ObjectInv
    <2> QED BY <2>1, <2>2
  <1>8. \A c \in Call : VectorInv(c)' /\ CallInv(c)'
    BY VectorKept, CallKept
  <1>9. OnceInv'
    BY DEF OnceInv
  <1> QED BY <1>4, <1>5, <1>6, <1>7, <1>8, <1>9

(* A count that is at least 2 is released without the end of the asset.     *)
LEMMA ReleaseOne ==
    ASSUME LibraryInv, NEW i \in Id, Made(i), objects[i][1] > 1, Release(i, 1)
    PROVE  objects' = [objects EXCEPT ![i][1] = objects[i][1] - 1] /\ UNCHANGED assets
  BY DEF Release

(* A receiver lets go: the library's own reference is left, so the object   *)
(* stays.                                                                   *)
LEMMA DropStep ==
    ASSUME LibraryInv, NEW c \in Call, NEW i \in Id, Drop(c, i)
    PROVE  LibraryInv'
  <1> USE DEF Drop
  <1>1. TypeOK /\ ObjectInv(i) /\ StartInv
    BY DEF LibraryInv
  <1>2. c \in Holders(i) /\ assets[i] = 1 /\ Made(i) /\ loaded
    BY <1>1 DEF Holders, ObjectInv
  <1>3. objects[i][1] \in Int
    BY <1>1, <1>2, OneObject
  <1>4. /\ Holders(i)' = Holders(i) \ {c}
        /\ \A j \in Id : j # i => Holders(j)' = Holders(j)
    BY DEF Holders
  <1>5. Cardinality(Holders(i)') = Cardinality(Holders(i)) - 1 /\ Cardinality(Holders(i)') \in Nat
    BY <1>2, <1>4, HoldersFinite, FS_RemoveElement, FS_CardinalityType
  <1>6. objects[i][1] = 1 + Cardinality(Holders(i)) + (IF <<i, 1>> \in downloads THEN 1 ELSE 0)
    BY <1>1, <1>2 DEF ObjectInv
  <1>7. objects[i][1] > 1
    BY <1>3, <1>5, <1>6, HoldersFinite
  <1>8. objects' = [objects EXCEPT ![i][1] = objects[i][1] - 1] /\ UNCHANGED assets
    BY <1>2, <1>7, ReleaseOne
  <1> DEFINE e == objects[i][1] - 1
  <1>9. e \in Int /\ e = 1 + Cardinality(Holders(i)') + (IF <<i, 1>> \in downloads' \/ ~loaded THEN 1 ELSE 0)
    BY <1>2, <1>3, <1>5, <1>6, HoldersFinite
  <1>10. UNCHANGED <<loaded, tmpRequests, tmpMultiRequest, assets, callbacks, threads,
                       ask, retVec, given, vecGiven, rows, fault>>
    BY <1>8
  <1> QED BY <1>2, <1>4, <1>8, <1>9, <1>10, CountStep

(* A download starts and takes a reference.                                 *)
LEMMA DownloadStep ==
    ASSUME LibraryInv, NEW i \in Id, NEW n \in DOMAIN objects[i], downloadAsset(i, n)
    PROVE  LibraryInv'
  <1> USE DEF downloadAsset
  <1>1. TypeOK /\ ObjectInv(i) /\ StartInv
    BY DEF LibraryInv
  <1>2. Made(i) /\ n = 1
    <2>1. Made(i)
      BY DEF Made
    <2> QED BY <1>1, <2>1, OneObject
  <1>3. loaded
    <2>1. SUFFICES ASSUME ~loaded PROVE FALSE
      BY <1>1 DEF TypeOK
    <2>2. Len(jobs) = 1 /\ jobs[1].kind = "init" /\ i \in jobs[1].ids
      <3>1. Len(jobs) = 1 /\ jobs[1].kind = "init" /\ performed \in 0 .. Len(jobs)
        BY <1>1, <2>1 DEF StartInv, TypeOK
      <3>2. performed # 0
        BY <1>1, <1>2, <2>1 DEF StartInv
      <3>3. performed = 1
        BY <3>1, <3>2
      <3> QED BY <1>1, <1>2, <2>1, <3>1, <3>3 DEF StartInv
    <2>3. jobs # <<>> /\ Head(jobs) = jobs[1]
      <3>1. jobs \in Seq(Jobs)
        BY <1>1 DEF TypeOK
      <3> QED BY <2>2, <3>1
    <2> QED BY <2>2, <2>3 DEF Restoring
  <1>4. objects[i][1] \in Int
    BY <1>1, <1>2, OneObject
  <1>5. \A j \in Id : Holders(j)' = Holders(j)
    BY DEF Holders, clients
  <1>6. objects[i][1] = 1 + Cardinality(Holders(i))
    BY <1>1, <1>2, <1>3, HoldersFinite DEF ObjectInv
  <1> DEFINE e == objects[i][1] + 1
  <1>7. e \in Int /\ e = 1 + Cardinality(Holders(i)') + (IF <<i, 1>> \in downloads' \/ ~loaded THEN 1 ELSE 0)
    BY <1>2, <1>4, <1>5, <1>6, HoldersFinite
  <1>8. objects' = [objects EXCEPT ![i][1] = e]
    BY <1>2
  <1>9. UNCHANGED <<loaded, tmpRequests, tmpMultiRequest, assets, callbacks, threads,
                       ask, retVec, given, vecGiven, rows, fault>> /\ held' = held
    BY DEF clients
  <1> QED BY <1>2, <1>3, <1>5, <1>7, <1>8, <1>9, CountStep

(* A download ends and gives its reference back.                            *)
LEMMA RemoveStep ==
    ASSUME LibraryInv, NEW i \in Id, NEW n \in DOMAIN objects[i], removeDownload(i, n)
    PROVE  LibraryInv'
  <1> USE DEF removeDownload
  <1>1. TypeOK /\ ObjectInv(i) /\ StartInv
    BY DEF LibraryInv
  <1>2. Made(i) /\ n = 1 /\ loaded
    <2>1. Made(i)
      BY DEF Made
    <2>2. loaded
      BY <1>1 DEF StartInv
    <2> QED BY <1>1, <2>1, <2>2, OneObject
  <1>4. objects[i][1] \in Int
    BY <1>1, <1>2, OneObject
  <1>5. \A j \in Id : Holders(j)' = Holders(j)
    BY DEF Holders, clients
  <1>6. objects[i][1] = 2 + Cardinality(Holders(i))
    BY <1>1, <1>2, HoldersFinite DEF ObjectInv
  <1> DEFINE e == objects[i][1] - 1
  <1>7. e \in Int /\ e = 1 + Cardinality(Holders(i)') + (IF <<i, 1>> \in downloads' \/ ~loaded THEN 1 ELSE 0)
    BY <1>2, <1>4, <1>5, <1>6, HoldersFinite
  <1>8. objects' = [objects EXCEPT ![i][1] = e] /\ UNCHANGED assets
    BY <1>2, <1>4, <1>6, HoldersFinite, ReleaseOne
  <1>9. UNCHANGED <<loaded, tmpRequests, tmpMultiRequest, assets, callbacks, threads,
                       ask, retVec, given, vecGiven, rows, fault>> /\ held' = held
    BY <1>8 DEF clients
  <1> QED BY <1>2, <1>5, <1>7, <1>8, <1>9, CountStep

-----------------------------------------------------------------------------
(* The storage thread.                                                      *)

(* Where nothing was, Make leaves one object with the count given.          *)
LEMMA MakeObjects ==
    ASSUME TypeOK, NEW ids, ids \subseteq Id, NEW count \in Nat, Make(ids, count),
           \A i \in ids : ~Made(i)
    PROVE  /\ objects' \in [Id -> Seq(Int)]
           /\ \A i \in ids : Made(i)' /\ Len(objects'[i]) = 1 /\ objects'[i][1] = count
           /\ \A i \in Id : i \notin ids => objects'[i] = objects[i] /\ (Made(i)' <=> Made(i))
  <1>1. \A i \in Id : objects[i] \in Seq(Int)
    BY DEF TypeOK
  <1>2. \A i \in ids : objects[i] = <<>>
    BY DEF Made
  <1>3. \A i \in Id : objects'[i] = IF i \in ids THEN Append(objects[i], count) ELSE objects[i]
    BY DEF Make
  <1> DEFINE s == Append(<<>>, count)
  <1>4. \A i \in ids : objects'[i] = s
    BY <1>2, <1>3
  <1>5. s \in Seq(Int) /\ Len(s) = 1 /\ s[1] = count /\ s # <<>>
    OBVIOUS
  <1> HIDE DEF s
  <1>6. \A i \in ids : objects'[i] \in Seq(Int) /\ Len(objects'[i]) = 1 /\ objects'[i][1] = count /\ objects'[i] # <<>>
    BY <1>4, <1>5
  <1>7. \A i \in Id : objects'[i] \in Seq(Int)
    BY <1>1, <1>3, <1>6
  <1>8. objects' \in [Id -> Seq(Int)]
    BY <1>7 DEF Make
  <1> QED BY <1>3, <1>6, <1>8 DEF Made

(* What the tasks of the storage thread leave to the calls.                 *)
LEMMA TaskCalls ==
    ASSUME LibraryInv, UNCHANGED <<library, now, inside, clients, fault>>,
           \A c \in Call : Ordered(c)' = Ordered(c) /\ (Working(c)' <=> Working(c))
    PROVE  \A c \in Call : VectorInv(c)' /\ CallInv(c)'
  <1> USE DEF library, clients
  <1>1. SUFFICES ASSUME NEW c \in Call PROVE VectorInv(c)' /\ CallInv(c)'
    OBVIOUS
  <1>2. VectorInv(c) /\ CallInv(c)
    BY DEF LibraryInv
  <1>3. Joined(c)' = Joined(c) /\ Coming(c)' = Coming(c) /\ NowCall' = NowCall
    BY DEF Joined, Coming, NowCall, NowIds
  <1>4. Missing(c)' = Missing(c) /\ Ordered(c)' = Ordered(c) /\ (Working(c)' <=> Working(c))
    BY <1>3 DEF Missing
  <1>5. VectorInv(c)'
    BY <1>2, <1>3, <1>4 DEF VectorInv
  <1>6. CallInv(c)'
    BY <1>2, CallKept
  <1> QED BY <1>5, <1>6

(* The rows are read: an object for each download, with the references of   *)
(* the library and of the download, and cleanup drops none of their rows.   *)
LEMMA RestoreStep ==
    ASSUME LibraryInv, NEW online \in BOOLEAN, Restore(online)
    PROVE  LibraryInv'
  <1> DEFINE ids == {i \in Id : Downloading(rows[i])}
  <1> USE DEF library, clients
  <1>0. UNCHANGED <<library, now, inside, clients, fault>> /\ performed' = performed + 1
    BY DEF Restore, Task
  <1>1. TypeOK /\ StartInv /\ JobsInv
    BY DEF LibraryInv
  <1>2. /\ ~loaded /\ performed = 0 /\ Len(jobs) = 1 /\ jobs[1].kind = "init"
        /\ now = Nothing /\ downloads = {} /\ held = {}
        /\ jobs[1].ids = {} /\ \A i \in Id : ~Made(i)
    <2>1. performed < Len(jobs) /\ jobs[performed + 1].kind = "init"
      BY DEF Restore, Task
    <2>2. jobs \in Seq(Jobs) /\ performed \in 0 .. Len(jobs) /\ Len(jobs) \in Nat
      BY <1>1 DEF TypeOK
    <2>3. performed + 1 \in DOMAIN jobs
      BY <2>1, <2>2
    <2>4. ~loaded
      BY <1>1, <2>1, <2>3 DEF StartInv, Creation
    <2>5. Len(jobs) = 1 /\ performed = 0
      <3>1. Len(jobs) = 1
        BY <1>1, <2>4 DEF StartInv
      <3> QED BY <2>1, <2>2, <3>1
    <2> QED BY <1>1, <2>1, <2>4, <2>5 DEF StartInv
  <1>3. jobs \in Seq(Jobs) /\ DOMAIN jobs = {1} /\ jobs[1] \in Jobs
    <2>1. jobs \in Seq(Jobs)
      BY <1>1 DEF TypeOK
    <2>2. DOMAIN jobs = 1 .. 1
      BY <1>2, <2>1
    <2> QED BY <2>1, <2>2
  <1>4. jobs' = [jobs EXCEPT ![1] = [jobs[1] EXCEPT !.ids = ids]] /\ performed' = 1
    BY <1>0, <1>2 DEF Restore
  <1>5. /\ jobs'[1] \in Jobs /\ jobs'[1].kind = "init" /\ jobs'[1].ids = ids
        /\ jobs'[1].call = jobs[1].call
    BY <1>2, <1>3, <1>4 DEF Jobs
  <1>6. jobs' \in Seq(Jobs) /\ DOMAIN jobs' = {1} /\ Len(jobs') = 1
    <2>1. jobs \in [1 .. 1 -> Jobs]
      BY <1>2, <1>3
    <2>2. jobs' \in [1 .. 1 -> Jobs]
      BY <1>3, <1>4, <1>5, <2>1
    <2> QED BY <2>2, OneLong
  <1>7. /\ objects' \in [Id -> Seq(Int)]
        /\ \A i \in ids : Made(i)' /\ Len(objects'[i]) = 1 /\ objects'[i][1] = 2
        /\ \A i \in Id : i \notin ids => objects'[i] = objects[i] /\ ~Made(i)'
    <2>1. Make(ids, 2)
      BY DEF Restore
    <2>2. ids \subseteq Id /\ \A i \in ids : ~Made(i)
      BY <1>2
    <2> HIDE DEF ids
    <2>3. /\ objects' \in [Id -> Seq(Int)]
          /\ \A i \in ids : Made(i)' /\ Len(objects'[i]) = 1 /\ objects'[i][1] = 2
          /\ \A i \in Id : i \notin ids => objects'[i] = objects[i] /\ (Made(i)' <=> Made(i))
      BY <1>1, <2>1, <2>2, MakeObjects
    <2> QED BY <1>2, <2>3
  <1>8. rows' \in [Id -> Row] /\ \A i \in ids : rows'[i] # {}
    <2> DEFINE saved == [i \in Id |-> IF i \in ids THEN Touched(rows[i]) ELSE rows[i]]
    <2>1. rows' = [i \in Id |-> IF online /\ Expired(saved[i]) THEN {} ELSE saved[i]]
      BY DEF Restore
    <2>2. \A i \in Id : rows[i] \in Row
      BY <1>1 DEF TypeOK
    <2>3. \A i \in ids : saved[i] \in Row /\ saved[i] # {} /\ ~Expired(saved[i])
      <3> TAKE i \in ids
      <3>1. saved[i] = Touched(rows[i]) /\ Downloading(rows[i]) /\ rows[i] \in Row
        BY <2>2
      <3>2. Touched(rows[i]) \in Row /\ Touched(rows[i]) # {} /\ ~Expired(Touched(rows[i]))
        BY <3>1, TouchedStays
      <3> QED BY <3>1, <3>2
    <2>4. \A i \in Id \ ids : saved[i] \in Row
      BY <2>2
    <2>5. {} \in Row
      BY DEF Row
    <2> QED BY <2>1, <2>3, <2>4, <2>5
  <1>9. TypeOK'
    BY <1>0, <1>1, <1>4, <1>6, <1>7, <1>8 DEF TypeOK
  <1>10. NowIds = {} /\ NowIds' = {} /\ NowCall = {} /\ NowCall' = {} /\ now' = Nothing
    BY <1>0, <1>2 DEF NowIds, NowCall, Nothing, Creation
  <1>11. StartInv'
    <2>1. \A i \in Id : Made(i)' <=> i \in ids
      BY <1>7
    <2> QED BY <1>0, <1>2, <1>4, <1>5, <1>6, <2>1 DEF StartInv, Nothing
  <1>12. \A i \in Id : ~Pending(i) /\ ~Pending(i)'
    BY <1>2, <1>3, <1>5, <1>6, <1>10 DEF Pending, InJob, Creation
  <1>13. JobsInv'
    <2>1. callbacks' = callbacks /\ jobs[1].call = {}
      BY <1>0, <1>1, <1>2, <1>3 DEF JobsInv
    <2>2. \A i \in Id : callbacks'[i] # {} <=> Pending(i)'
      BY <1>1, <1>12, <2>1 DEF JobsInv
    <2> QED BY <1>5, <1>6, <1>10, <2>1, <2>2 DEF JobsInv, Creation
  <1>14. ASSUME NEW i \in Id PROVE ObjectInv(i)'
    <2>1. Holders(i) = {} /\ Holders(i)' = {} /\ downloads' = {} /\ assets[i] = 0
      <3>1. held' = {} /\ downloads' = {} /\ ObjectInv(i)
        BY <1>0, <1>2 DEF LibraryInv
      <3> QED BY <1>2, <3>1 DEF Holders, ObjectInv
    <2>2. Cardinality(Holders(i)') = 0
      BY <2>1, FS_EmptySet
    <2>3. assets'[i] = 0 /\ ~loaded'
      BY <1>0, <1>2, <2>1
    <2>4. Made(i)' => i \in ids
      BY <1>7
    <2> QED BY <1>7, <1>8, <2>1, <2>2, <2>3, <2>4 DEF ObjectInv
  <1>15. \A c \in Call : Ordered(c) = {} /\ Ordered(c)' = {} /\ (Working(c)' <=> Working(c))
    <2>1. jobs[1].call = {}
      BY <1>1, <1>2, <1>3 DEF JobsInv
    <2> QED BY <1>3, <1>5, <1>6, <1>10, <2>1 DEF Ordered, Working
  <1>16. \A c \in Call : VectorInv(c)' /\ CallInv(c)'
    BY <1>0, <1>15, TaskCalls
  <1>17. OnceInv' /\ ~fault'
    BY <1>0 DEF LibraryInv, OnceInv
  <1> QED BY <1>9, <1>11, <1>13, <1>14, <1>16, <1>17 DEF LibraryInv

(* The storage thread makes the assets of the next task, of which there is  *)
(* none yet.                                                                *)
LEMMA PerformStep ==
    ASSUME LibraryInv, performGetAssets
    PROVE  LibraryInv'
  <1> DEFINE k == performed + 1
             ids == jobs[k].ids
  <1> USE DEF library, clients
  <1>0. /\ UNCHANGED <<library, now, inside, clients, fault, jobs>> /\ performed' = k
        /\ performed < Len(jobs) /\ jobs[k].kind \in Creation
    BY DEF performGetAssets, Task, Creation
  <1>1. TypeOK /\ StartInv /\ JobsInv
    BY DEF LibraryInv
  <1>2. jobs \in Seq(Jobs) /\ performed \in 0 .. Len(jobs) /\ Len(jobs) \in Nat /\ DOMAIN jobs = 1 .. Len(jobs)
    BY <1>1 DEF TypeOK
  <1>3. k \in DOMAIN jobs /\ jobs[k] \in Jobs /\ ids \subseteq Id /\ performed' \in 0 .. Len(jobs)
    <2>1. k \in DOMAIN jobs /\ performed' \in 0 .. Len(jobs)
      BY <1>0, <1>2
    <2>2. jobs[k] \in Jobs
      BY <1>2, <2>1
    <2> QED BY <2>1, <2>2 DEF Jobs
  <1>4. loaded
    <2>1. SUFFICES ASSUME ~loaded PROVE FALSE
      OBVIOUS
    <2>2. Len(jobs) = 1 /\ jobs[1].kind = "init"
      BY <1>1, <2>1 DEF StartInv
    <2> QED BY <1>0, <1>2, <2>2 DEF Creation
  <1>5. \A i \in ids : ~Made(i)
    <2>1. \A i \in ids : Made(i) <=> k <= performed
      BY <1>0, <1>1, <1>3 DEF JobsInv
    <2> QED BY <1>2, <2>1
  <1>6. /\ objects' \in [Id -> Seq(Int)]
        /\ \A i \in ids : Made(i)' /\ Len(objects'[i]) = 1 /\ objects'[i][1] = 1
        /\ \A i \in Id : i \notin ids => objects'[i] = objects[i] /\ (Made(i)' <=> Made(i))
    <2>1. Make(ids, 1)
      BY DEF performGetAssets
    <2> HIDE DEF ids
    <2> QED BY <1>1, <1>3, <1>5, <2>1, MakeObjects
  <1>7. /\ rows' \in [Id -> Row] /\ \A i \in ids : rows'[i] # {}
        /\ \A i \in Id : rows[i] # {} => rows'[i] # {}
    <2>1. rows' = [i \in Id |-> IF i \in ids /\ rows[i] = {} THEN {"row"} ELSE rows[i]]
      BY DEF performGetAssets
    <2>2. {"row"} \in Row
      BY DEF Row
    <2>3. \A i \in Id : rows[i] \in Row
      BY <1>1 DEF TypeOK
    <2> QED BY <1>3, <2>1, <2>2, <2>3
  <1>8. TypeOK'
    BY <1>0, <1>1, <1>3, <1>6, <1>7 DEF TypeOK
  <1>9. StartInv'
    BY <1>0, <1>1, <1>4 DEF StartInv
  <1>10. NowIds' = NowIds /\ NowCall' = NowCall /\ \A i \in Id : Pending(i)' <=> Pending(i)
    BY <1>0, PendingKept DEF NowIds, NowCall
  <1>11. JobsInv'
    <2>1. \A i \in Id : i \in NowIds' => Made(i)'
      BY <1>1, <1>6, <1>10 DEF JobsInv
    <2>2. ASSUME NEW i \in Id, NEW l \in DOMAIN jobs, jobs[l].kind \in Creation, i \in jobs[l].ids
          PROVE  Made(i)' <=> l <= performed'
      <3>1. CASE l = k
        BY <1>0, <1>2, <1>3, <1>6, <2>2, <3>1
      <3>2. CASE l # k
        <4>1. i \notin ids
          BY <1>1, <1>3, <2>2, <3>2 DEF JobsInv
        <4>2. Made(i)' <=> l <= performed
          BY <1>1, <1>6, <2>2, <4>1 DEF JobsInv
        <4> QED BY <1>0, <1>2, <2>2, <3>2, <4>2
      <3> QED BY <3>1, <3>2
    <2>3. UNCHANGED <<jobs, callbacks>>
      BY <1>0
    <2> QED BY <1>1, <1>10, <2>1, <2>2, <2>3 DEF JobsInv
  <1>12. ASSUME NEW i \in Id PROVE ObjectInv(i)'
    <2>0. ObjectInv(i) /\ UNCHANGED <<held, downloads, assets, loaded>> /\ Holders(i)' = Holders(i)
      BY <1>0 DEF LibraryInv, Holders
    <2>1. CASE i \in ids
      <3>1. ~Made(i) /\ Pending(i)
        BY <1>0, <1>3, <1>5, <2>1 DEF Pending, InJob
      <3>2. assets[i] = 0 /\ Holders(i) = {} /\ \A d \in downloads : d[1] # i
        BY <2>0, <3>1 DEF ObjectInv
      <3>3. Cardinality(Holders(i)') = 0 /\ <<i, 1>> \notin downloads
        BY <2>0, <3>2, FS_EmptySet
      <3> QED BY <1>4, <1>6, <1>7, <1>10, <2>0, <2>1, <3>1, <3>2, <3>3 DEF ObjectInv
    <2>2. CASE i \notin ids
      <3>1. objects'[i] = objects[i] /\ (Made(i)' <=> Made(i))
        BY <1>6, <2>2
      <3> QED BY <1>7, <1>10, <2>0, <3>1 DEF ObjectInv
    <2> QED BY <2>1, <2>2
  <1>13. \A c \in Call : Ordered(c)' = Ordered(c) /\ (Working(c)' <=> Working(c))
    BY <1>0, <1>10 DEF Ordered, Working
  <1>14. \A c \in Call : VectorInv(c)' /\ CallInv(c)'
    BY <1>0, <1>13, TaskCalls
  <1>15. OnceInv' /\ ~fault'
    BY <1>0 DEF LibraryInv, OnceInv
  <1> QED BY <1>8, <1>9, <1>11, <1>12, <1>14, <1>15 DEF LibraryInv

-----------------------------------------------------------------------------
(* The main thread takes a completion.                                      *)

(* The main thread takes a completion: what a task was to make passes from  *)
(* jobs to now.                                                             *)
LEMMA CompletedStep ==
    ASSUME LibraryInv, Completed
    PROVE  LibraryInv'
  <1> DEFINE head == jobs[1]
  <1> USE DEF library, clients
  <1>0. /\ UNCHANGED <<library, objects, clients, rows, fault>> /\ performed' = performed - 1
        /\ now = Nothing /\ performed > 0
    BY DEF Completed, Completion
  <1>1. TypeOK /\ StartInv /\ JobsInv
    BY DEF LibraryInv
  <1>2. jobs \in Seq(Jobs) /\ performed \in 0 .. Len(jobs) /\ Len(jobs) \in Nat /\ DOMAIN jobs = 1 .. Len(jobs)
    BY <1>1 DEF TypeOK
  <1>3. /\ 1 \in DOMAIN jobs /\ jobs # <<>> /\ Head(jobs) = head /\ head \in Jobs
        /\ now' = head /\ head.kind \in Creation
    <2>1. 1 \in DOMAIN jobs /\ jobs # <<>>
      BY <1>0, <1>2
    <2>2. Head(jobs) = head /\ head \in Jobs
      BY <1>2, <2>1
    <2> QED BY <2>1, <2>2 DEF Completed, Completion, Creation
  <1>4. /\ jobs' \in Seq(Jobs) /\ Len(jobs') = Len(jobs) - 1
        /\ DOMAIN jobs' = 1 .. Len(jobs) - 1
        /\ \A k \in DOMAIN jobs' : k + 1 \in DOMAIN jobs /\ k + 1 # 1 /\ jobs'[k] = jobs[k + 1]
        /\ performed' \in 0 .. Len(jobs')
    <2>1. jobs' = Tail(jobs)
      BY DEF Completed
    <2>2. jobs' \in Seq(Jobs) /\ Len(jobs') = Len(jobs) - 1
      BY <1>2, <1>3, <2>1
    <2>3. DOMAIN jobs' = 1 .. Len(jobs) - 1
      BY <1>2, <2>2
    <2>4. \A k \in DOMAIN jobs' : k + 1 \in DOMAIN jobs /\ k + 1 # 1
      BY <1>2, <2>3
    <2>5. \A k \in DOMAIN jobs' : jobs'[k] = jobs[k + 1]
      BY <1>2, <1>3, <2>1, <2>3
    <2>6. performed' \in 0 .. Len(jobs')
      BY <1>0, <1>2, <2>2
    <2> QED BY <2>2, <2>3, <2>4, <2>5, <2>6
  <1>5. \A k \in DOMAIN jobs : k = 1 \/ (k - 1 \in DOMAIN jobs' /\ jobs[k] = jobs'[k - 1])
    <2>1. SUFFICES ASSUME NEW k \in DOMAIN jobs, k # 1
                   PROVE  k - 1 \in DOMAIN jobs' /\ jobs[k] = jobs'[k - 1]
      OBVIOUS
    <2>2. k - 1 \in DOMAIN jobs' /\ (k - 1) + 1 = k
      BY <1>2, <1>4, <2>1
    <2> QED BY <1>4, <2>2
  <1>6. loaded
    <2>1. SUFFICES ASSUME ~loaded PROVE FALSE
      OBVIOUS
    <2> QED BY <1>1, <1>3, <2>1 DEF StartInv, Creation
  <1>7. NowIds = {} /\ NowCall = {} /\ NowIds' = head.ids /\ NowCall' = head.call
    BY <1>0, <1>3 DEF NowIds, NowCall, Nothing, Creation
  <1>8. TypeOK'
    <2>1. inside' = FALSE
      BY DEF Completed
    <2> QED BY <1>0, <1>1, <1>3, <1>4, <2>1 DEF TypeOK
  <1>9. \A k \in DOMAIN jobs : jobs[k].kind \in Creation
    BY <1>1, <1>6 DEF StartInv
  <1>10. StartInv'
    <2>1. tmpMultiRequest' = <<>> /\ loaded'
      BY <1>0, <1>1, <1>6 DEF StartInv, Nothing
    <2> QED BY <1>3, <1>4, <1>9, <2>1 DEF StartInv, Creation
  <1>11. \A i \in Id : (Pending(i)' <=> Pending(i)) /\ (Made(i)' <=> Made(i))
    <2>1. SUFFICES ASSUME NEW i \in Id PROVE Pending(i)' <=> Pending(i)
      BY <1>0 DEF Made
    <2>2. ASSUME Pending(i) PROVE Pending(i)'
      <3>1. PICK k \in DOMAIN jobs : jobs[k].kind \in Creation /\ i \in jobs[k].ids
        BY <2>2, <1>7 DEF Pending, InJob
      <3> QED BY <3>1, <1>5, <1>7 DEF Pending, InJob
    <2>3. ASSUME Pending(i)' PROVE Pending(i)
      BY <2>3, <1>3, <1>4, <1>7 DEF Pending, InJob
    <2> QED BY <2>2, <2>3
  <1>12. JobsInv'
    <2>1. \A i \in Id, k, l \in DOMAIN jobs' : i \in jobs'[k].ids /\ i \in jobs'[l].ids => k = l
      <3>1. SUFFICES ASSUME NEW i \in Id, NEW k \in DOMAIN jobs', NEW l \in DOMAIN jobs',
                            i \in jobs'[k].ids, i \in jobs'[l].ids
                     PROVE  k = l
        OBVIOUS
      <3>2. k + 1 = l + 1
        BY <1>1, <1>4, <3>1 DEF JobsInv
      <3> QED BY <1>4, <3>2
    <2>2. \A c \in Call, k, l \in DOMAIN jobs' : c \in jobs'[k].call /\ c \in jobs'[l].call => k = l
      <3>1. SUFFICES ASSUME NEW c \in Call, NEW k \in DOMAIN jobs', NEW l \in DOMAIN jobs',
                            c \in jobs'[k].call, c \in jobs'[l].call
                     PROVE  k = l
        OBVIOUS
      <3>2. k + 1 = l + 1
        BY <1>1, <1>4, <3>1 DEF JobsInv
      <3> QED BY <1>4, <3>2
    <2>3. ASSUME NEW k \in DOMAIN jobs'
          PROVE  jobs'[k].ids \cap NowIds' = {} /\ jobs'[k].call \cap NowCall' = {}
      <3>1. jobs'[k] = jobs[k + 1] /\ k + 1 \in DOMAIN jobs /\ k + 1 # 1 /\ jobs[k + 1] \in Jobs
        BY <1>2, <1>4
      <3>2. jobs[k + 1].ids \subseteq Id /\ jobs[k + 1].call \subseteq Call
        BY <3>1 DEF Jobs
      <3>3. \A i \in Id : ~(i \in jobs[k + 1].ids /\ i \in head.ids)
        BY <1>1, <1>3, <3>1 DEF JobsInv
      <3>4. \A c \in Call : ~(c \in jobs[k + 1].call /\ c \in head.call)
        BY <1>1, <1>3, <3>1 DEF JobsInv
      <3> QED BY <1>7, <3>1, <3>2, <3>3, <3>4
    <2>4. \A k \in DOMAIN jobs' : /\ jobs'[k].kind \in Creation => jobs'[k].ids # {}
                                  /\ jobs'[k].kind = "init" => jobs'[k].call = {}
      BY <1>1, <1>4 DEF JobsInv
    <2>5. \A i \in Id : callbacks'[i] # {} <=> Pending(i)'
      BY <1>0, <1>1, <1>11 DEF JobsInv
    <2>6. \A i \in Id, k \in DOMAIN jobs' : i \in jobs'[k].ids => (Made(i)' <=> k <= performed')
      <3>1. SUFFICES ASSUME NEW i \in Id, NEW k \in DOMAIN jobs', i \in jobs'[k].ids
                     PROVE  Made(i)' <=> k <= performed'
        OBVIOUS
      <3>2. Made(i) <=> k + 1 <= performed
        BY <1>1, <1>4, <1>9, <3>1 DEF JobsInv
      <3> QED BY <1>0, <1>2, <1>4, <1>11, <3>2
    <2>7. \A i \in Id : i \in NowIds' => Made(i)'
      <3>1. \A i \in Id : i \in head.ids => (Made(i) <=> 1 <= performed)
        BY <1>1, <1>3 DEF JobsInv
      <3> QED BY <1>0, <1>2, <1>7, <1>11, <3>1
    <2> QED BY <2>1, <2>2, <2>3, <2>4, <2>5, <2>6, <2>7 DEF JobsInv
  <1>13. \A i \in Id : ObjectInv(i)'
    <2>1. \A i \in Id : Holders(i)' = Holders(i)
      BY <1>0 DEF Holders
    <2>2. UNCHANGED <<objects, downloads, loaded, assets, rows>>
      BY <1>0
    <2> QED BY <1>11, <2>1, <2>2 DEF ObjectInv, LibraryInv
  <1>14. ASSUME NEW c \in Call PROVE VectorInv(c)'
    <2>1. Joined(c)' = Joined(c)
      BY <1>0 DEF Joined
    <2>2. Ordered(c)' \cup Coming(c)' = Ordered(c) \cup Coming(c) /\ (Working(c)' <=> Working(c))
          /\ (c \in NowCall => c \in NowCall')
      <3>1. Coming(c) = {}
        BY <1>7 DEF Coming
      <3>2. CASE c \in head.call
        <4>1. \A k \in DOMAIN jobs : c \in jobs[k].call => k = 1
          BY <1>1, <1>3, <3>2 DEF JobsInv
        <4>2. Ordered(c) = {i \in Id : i \in head.ids} /\ Working(c)
          BY <4>1, <1>3, <3>2 DEF Ordered, Working
        <4>3. Ordered(c)' = {}
          BY <4>1, <1>4 DEF Ordered
        <4>4. Coming(c)' = head.ids /\ Working(c)' /\ head.ids \subseteq Id
          BY <1>3, <1>7, <3>2 DEF Coming, Working, Jobs
        <4> QED BY <1>7, <3>1, <4>2, <4>3, <4>4
      <3>3. CASE c \notin head.call
        <4>1. Coming(c)' = {}
          BY <1>7, <3>3 DEF Coming
        <4>2. Ordered(c)' \subseteq Ordered(c) /\ (Working(c)' => Working(c))
          BY <1>4, <1>7, <3>3 DEF Ordered, Working
        <4>3. Ordered(c) \subseteq Ordered(c)' /\ (Working(c) => Working(c)')
          BY <1>5, <1>7, <3>3 DEF Ordered, Working
        <4> QED BY <1>7, <3>1, <4>1, <4>2, <4>3
      <3> QED BY <3>2, <3>3
    <2>3. Missing(c)' = Missing(c)
      BY <2>1, <2>2 DEF Missing
    <2>4. UNCHANGED <<retVec, ask, vecGiven, assets>> /\ VectorInv(c)
      BY <1>0 DEF LibraryInv
    <2> QED BY <2>1, <2>2, <2>3, <2>4 DEF VectorInv
  <1>15. \A c \in Call : CallInv(c)'
    <2>1. SUFFICES ASSUME NEW c \in Call PROVE CallInv(c)'
      OBVIOUS
    <2>2. CallInv(c) /\ UNCHANGED <<loaded, tmpRequests, tmpMultiRequest, callbacks, retVec, ask, given, vecGiven>>
      BY <1>0 DEF LibraryInv
    <2>3. loaded' /\ now'.kind # "init"
      BY <1>0, <1>3, <1>6 DEF Creation
    <2>4. (Waits(c)' <=> Waits(c)) /\ (Asked(c)' <=> Asked(c)) /\ (Untouched(c)' <=> Untouched(c))
      BY <2>2 DEF Waits, Asked, Untouched
    <2> QED BY <2>2, <2>3, <2>4 DEF CallInv
  <1>16. OnceInv' /\ ~fault'
    BY <1>0 DEF LibraryInv, OnceInv
  <1> QED BY <1>8, <1>10, <1>12, <1>13, <1>14, <1>15, <1>16 DEF LibraryInv

(* The library has loaded: the restored objects get into assets.            *)
LEMMA LoadedStep ==
    ASSUME LibraryInv, Loaded
    PROVE  LibraryInv'
  <1> DEFINE head == jobs[1]
             ids == head.ids
  <1> USE DEF clients
  <1>1. TypeOK /\ StartInv /\ JobsInv
    BY DEF LibraryInv
  <1>2. jobs \in Seq(Jobs) /\ performed \in 0 .. Len(jobs) /\ Len(jobs) \in Nat /\ DOMAIN jobs = 1 .. Len(jobs)
    BY <1>1 DEF TypeOK
  <1>3. now = Nothing /\ performed > 0 /\ performed' = performed - 1 /\ Head(jobs).kind = "init"
    BY DEF Loaded, Completion
  <1>4. 1 \in DOMAIN jobs /\ jobs # <<>> /\ Head(jobs) = head /\ head \in Jobs /\ head.kind = "init"
    <2>1. 1 \in DOMAIN jobs /\ jobs # <<>>
      BY <1>2, <1>3
    <2>2. Head(jobs) = head /\ head \in Jobs
      BY <1>2, <2>1
    <2> QED BY <1>3, <2>1, <2>2
  <1>5. ~loaded
    BY <1>1, <1>4 DEF StartInv, Creation
  <1>6. Len(jobs) = 1 /\ performed = 1 /\ DOMAIN jobs = {1}
    <2>1. Len(jobs) = 1
      BY <1>1, <1>5 DEF StartInv
    <2> QED BY <1>2, <1>3, <2>1
  <1>7. /\ \A i \in Id : Made(i) <=> i \in ids
        /\ downloads = {} /\ held = {}
    BY <1>1, <1>5, <1>6 DEF StartInv
  <1>8. /\ UNCHANGED <<tmpRequests, tmpMultiRequest, callbacks, objects, inside, clients, rows, fault>>
        /\ loaded' = TRUE /\ now' = head
        /\ assets' = [i \in Id |-> IF i \in ids THEN Len(objects[i]) ELSE assets[i]]
        /\ downloads' = Resumed(ids)
    BY <1>4, <1>7 DEF Loaded
  <1>9. jobs' = <<>> /\ performed' = 0 /\ jobs' \in Seq(Jobs) /\ Len(jobs') = 0 /\ DOMAIN jobs' = {}
    <2>1. jobs' = Tail(jobs)
      BY DEF Loaded
    <2>2. Tail(jobs) \in Seq(Jobs) /\ Len(Tail(jobs)) = 0
      BY <1>2, <1>4, <1>6
    <2>3. Tail(jobs) = <<>>
      BY <2>2, EmptySeq
    <2>4. performed' = 0 /\ DOMAIN jobs' = {}
      BY <1>3, <1>6, <2>1, <2>3
    <2> QED BY <2>1, <2>2, <2>3, <2>4
  <1>10. ids \subseteq Id /\ head.call = {}
    BY <1>1, <1>4 DEF Jobs, JobsInv
  <1>11. \A i \in ids : Len(objects[i]) = 1
    BY <1>7, <1>10 DEF LibraryInv, ObjectInv
  <1>12. downloads' = {<<i, 1>> : i \in ids}
    BY <1>8, <1>11 DEF Resumed
  <1>13. NowIds = {} /\ NowCall = {} /\ NowIds' = {} /\ NowCall' = {}
    BY <1>3, <1>4, <1>8 DEF NowIds, NowCall, Nothing, Creation
  <1>14. \A i \in Id : ~Pending(i) /\ ~Pending(i)' /\ (Made(i)' <=> Made(i)) /\ assets[i] = 0
    <2>1. SUFFICES ASSUME NEW i \in Id PROVE ~Pending(i) /\ ~Pending(i)' /\ (Made(i)' <=> Made(i)) /\ assets[i] = 0
      OBVIOUS
    <2>2. ~Pending(i) /\ ~Pending(i)'
      BY <1>4, <1>6, <1>9, <1>13 DEF Pending, InJob, Creation
    <2>3. assets[i] = 0
      BY <1>5 DEF LibraryInv, ObjectInv
    <2> QED BY <2>2, <2>3, <1>8 DEF Made
  <1>15. \A i \in Id : assets'[i] = IF Made(i) THEN 1 ELSE 0
    BY <1>7, <1>8, <1>11, <1>14
  <1>16. TypeOK'
    <2>1. assets' \in [Id -> Nat]
      BY <1>1, <1>8, <1>11 DEF TypeOK
    <2>2. downloads' \subseteq Id \X Nat
      BY <1>10, <1>12
    <2>3. performed' \in 0 .. Len(jobs') /\ now' \in Jobs /\ loaded' \in BOOLEAN /\ jobs' \in Seq(Jobs)
      BY <1>4, <1>8, <1>9
    <2> QED BY <1>1, <1>8, <2>1, <2>2, <2>3 DEF TypeOK
  <1>17. StartInv'
    BY <1>4, <1>8, <1>9 DEF StartInv
  <1>18. JobsInv'
    <2>1. \A i \in Id : callbacks'[i] # {} <=> Pending(i)'
      BY <1>1, <1>8, <1>14 DEF JobsInv
    <2> QED BY <1>9, <1>13, <2>1 DEF JobsInv
  <1>19. ASSUME NEW i \in Id PROVE ObjectInv(i)'
    <2>1. ObjectInv(i) /\ UNCHANGED <<held, objects, rows>> /\ Holders(i)' = Holders(i) /\ Holders(i) = {}
      BY <1>7, <1>8 DEF LibraryInv, Holders
    <2>2. <<i, 1>> \in downloads' <=> Made(i)
      BY <1>7, <1>12
    <2>3. \A d \in downloads' : d[1] = i => d[2] = 1 /\ Made(i)
      BY <1>7, <1>12
    <2> QED BY <1>5, <1>8, <1>14, <1>15, <2>1, <2>2, <2>3 DEF ObjectInv
  <1>20. ASSUME NEW c \in Call PROVE VectorInv(c)'
    <2>1. Joined(c)' = Joined(c)
      BY <1>8 DEF Joined
    <2>2. Coming(c) = {} /\ Ordered(c) = {} /\ Coming(c)' = {} /\ Ordered(c)' = {} /\ ~Working(c) /\ ~Working(c)'
      BY <1>4, <1>6, <1>9, <1>10, <1>13 DEF Coming, Ordered, Working
    <2>3. Missing(c)' = Missing(c)
      BY <2>1, <2>2 DEF Missing
    <2>4. UNCHANGED <<retVec, ask, vecGiven>> /\ VectorInv(c)
      BY <1>8 DEF LibraryInv
    <2>5. ~retVec[c].kept
      <3>1. SUFFICES ASSUME retVec[c].kept PROVE FALSE
        OBVIOUS
      <3>2. retVec[c].got = {}
        <4>1. retVec[c].got \subseteq Id
          BY <1>1 DEF TypeOK
        <4> QED BY <1>14, <2>4, <3>1, <4>1 DEF VectorInv
      <3>3. Joined(c) = {}
        BY <1>1, <1>14 DEF Joined, JobsInv
      <3> QED BY <1>13, <2>2, <2>4, <3>1, <3>3 DEF VectorInv, Missing
    <2> QED BY <1>13, <2>1, <2>2, <2>3, <2>4, <2>5 DEF VectorInv
  <1>21. \A c \in Call : CallInv(c)'
    <2>1. SUFFICES ASSUME NEW c \in Call PROVE CallInv(c)'
      OBVIOUS
    <2>2. CallInv(c) /\ UNCHANGED <<tmpRequests, tmpMultiRequest, callbacks, retVec, ask, given, vecGiven>>
      BY <1>8 DEF LibraryInv
    <2>3. (Waits(c)' <=> Waits(c)) /\ (Asked(c)' <=> Asked(c)) /\ (Untouched(c)' <=> Untouched(c))
      BY <2>2 DEF Waits, Asked, Untouched
    <2> QED BY <1>5, <2>2, <2>3 DEF CallInv
  <1>22. OnceInv' /\ ~fault'
    BY <1>8 DEF LibraryInv, OnceInv
  <1> QED BY <1>16, <1>17, <1>18, <1>19, <1>20, <1>21, <1>22 DEF LibraryInv

-----------------------------------------------------------------------------
(* Functions of users are called.                                           *)

(* Receivers retain live assets only, each once more.                       *)
LEMMA RetainStep ==
    ASSUME TypeOK, \A i \in Id : ObjectInv(i),
           objects' = Retained(assets'), held \subseteq held', held' \subseteq Call \X Id,
           \A c \in Call, i \in Id : <<c, i>> \in held' => <<c, i>> \in held \/ assets'[i] = 1,
           UNCHANGED <<downloads, loaded, rows>>,
           \A i \in Id : assets'[i] = IF loaded /\ Made(i) /\ ~Pending(i)' THEN 1 ELSE 0,
           \A i \in Id : assets[i] = 1 => assets'[i] = 1
    PROVE  /\ objects' \in [Id -> Seq(Int)]
           /\ \A i \in Id : (Made(i)' <=> Made(i)) /\ ObjectInv(i)'
  <1> DEFINE New(i) == {c \in Call : <<c, i>> \in held' \ held}
  <1>1. \A i \in Id : objects'[i] = IF assets'[i] = 0 THEN objects[i]
                                    ELSE [objects[i] EXCEPT ![assets'[i]] = @ + Cardinality(New(i))]
    BY DEF Retained
  <1>2. ASSUME NEW i \in Id
        PROVE  /\ objects'[i] \in Seq(Int) /\ (Made(i)' <=> Made(i)) /\ ObjectInv(i)'
    <2>0. ObjectInv(i) /\ objects[i] \in Seq(Int)
      BY DEF TypeOK
    <2>1. Holders(i)' = Holders(i) \cup New(i) /\ Holders(i) \cap New(i) = {}
          /\ New(i) \subseteq Call /\ Holders(i) \subseteq Call
      BY DEF Holders
    <2>2. Cardinality(Holders(i)') = Cardinality(Holders(i)) + Cardinality(New(i))
          /\ Cardinality(Holders(i)) \in Nat /\ Cardinality(New(i)) \in Nat
      BY <2>1, CountsAdd, FiniteCalls
    <2>3. New(i) # {} => assets'[i] = 1
      OBVIOUS
    <2>4. Holders(i)' # {} => assets'[i] = 1
      BY <2>0, <2>1, <2>3 DEF ObjectInv
    <2>5. CASE assets'[i] = 1
      <3>1. Made(i) /\ loaded
        BY <2>5
      <3>2. DOMAIN objects[i] = {1} /\ objects[i][1] \in Int /\ Len(objects[i]) = 1
        BY <2>0, <3>1, OneObject
      <3> DEFINE e == objects[i][1] + Cardinality(New(i))
      <3>3. objects'[i] = [objects[i] EXCEPT ![1] = e] /\ e \in Int
        <4>1. objects'[i] = [objects[i] EXCEPT ![assets'[i]] = @ + Cardinality(New(i))]
          BY <1>1, <2>5
        <4>2. objects'[i] = [objects[i] EXCEPT ![1] = @ + Cardinality(New(i))]
          BY <4>1, <2>5
        <4> HIDE DEF New
        <4> QED BY <2>2, <3>2, <4>2
      <3>4. objects'[i] \in Seq(Int) /\ Len(objects'[i]) = 1 /\ objects'[i][1] = e
        BY <2>0, <3>2, <3>3, SeqBump
      <3>5. Made(i)'
        BY <3>4 DEF Made
      <3>6. e = 1 + Cardinality(Holders(i)') + (IF <<i, 1>> \in downloads \/ ~loaded THEN 1 ELSE 0)
        BY <2>0, <2>2, <3>1, <3>2 DEF ObjectInv
      <3>7. ObjectInv(i)'
        BY <2>0, <2>4, <2>5, <3>1, <3>4, <3>5, <3>6 DEF ObjectInv
      <3> QED BY <3>1, <3>4, <3>5, <3>7
    <2>6. CASE assets'[i] # 1
      <3>1. objects'[i] = objects[i] /\ assets'[i] = 0
        BY <1>1, <2>6
      <3>2. Made(i)' <=> Made(i)
        BY <3>1 DEF Made
      <3>3. Holders(i)' = Holders(i)
        BY <2>1, <2>3, <3>1
      <3>4. ObjectInv(i)'
        BY <2>0, <2>4, <3>1, <3>2, <3>3 DEF ObjectInv
      <3> QED BY <2>0, <3>1, <3>2, <3>4
    <2> QED BY <2>5, <2>6
  <1>3. objects' = [i \in Id |-> objects'[i]]
    BY DEF Retained
  <1> QED BY <1>2, <1>3

(* The callbacks that Give calls.                                           *)
LEMMA GiveStep ==
    ASSUME TypeOK, NEW a, NEW own, NEW vecs, own \subseteq Call \X Id, vecs \subseteq Call, Give(a, own, vecs)
    PROVE  /\ given' \in [Call -> [Id -> Nat]] /\ vecGiven' \in [Call -> Nat]
           /\ held \subseteq held' /\ held' \subseteq Call \X Id
           /\ \A c \in Call, i \in Id :
                  given'[c][i] = IF <<c, i>> \in own THEN given[c][i] + 1 ELSE given[c][i]
           /\ \A c \in Call : vecGiven'[c] = IF c \in vecs THEN vecGiven[c] + 1 ELSE vecGiven[c]
           /\ \A c \in Call, i \in Id :
                  <<c, i>> \in held' => <<c, i>> \in held \/ <<c, i>> \in own \/ (c \in vecs /\ i \in a[c].ids)
  <1>1. given \in [Call -> [Id -> Nat]] /\ vecGiven \in [Call -> Nat] /\ held \subseteq Call \X Id
    BY DEF TypeOK
  <1>2. \A c \in Call, i \in Id :
            given'[c][i] = IF <<c, i>> \in own THEN given[c][i] + 1 ELSE given[c][i]
    <2>1. \A c \in Call, i \in Id : given'[c][i] = given[c][i] + (IF <<c, i>> \in own THEN 1 ELSE 0)
      BY DEF Give
    <2>2. ASSUME NEW c \in Call, NEW i \in Id
          PROVE  given'[c][i] = IF <<c, i>> \in own THEN given[c][i] + 1 ELSE given[c][i]
      <3>1. given[c][i] \in Nat
        BY <1>1
      <3>2. given'[c][i] = given[c][i] + (IF <<c, i>> \in own THEN 1 ELSE 0)
        BY <2>1
      <3>3. CASE <<c, i>> \in own
        BY <3>2, <3>3
      <3>4. CASE <<c, i>> \notin own
        BY <3>1, <3>2, <3>4
      <3> QED BY <3>3, <3>4
    <2> QED BY <2>2
  <1>3. \A c \in Call : vecGiven'[c] = IF c \in vecs THEN vecGiven[c] + 1 ELSE vecGiven[c]
    BY <1>1 DEF Give
  <1>4. vecGiven' \in [Call -> Nat]
    BY <1>1, <1>3 DEF Give
  <1>5. given' \in [Call -> [Id -> Nat]]
    BY <1>1 DEF Give
  <1>6. held \subseteq held' /\ held' \subseteq Call \X Id
    BY <1>1 DEF Give
  <1>7. \A c \in Call, i \in Id :
            <<c, i>> \in held' => <<c, i>> \in held \/ <<c, i>> \in own \/ (c \in vecs /\ i \in a[c].ids)
    BY DEF Give
  <1> QED BY <1>2, <1>3, <1>4, <1>5, <1>6, <1>7

(* A vector is full when nothing is missing.                                *)
LEMMA FullMeans ==
    ASSUME NEW got, NEW missing, NEW ids, ids \subseteq Id,
           got \cap missing = {}, got \cup missing = ids
    PROVE  /\ Cardinality(got) = Cardinality(ids) <=> missing = {}
           /\ missing = {} => got = ids
  <1>1. got \subseteq ids
    OBVIOUS
  <1>2. Cardinality(got) = Cardinality(ids) <=> got = ids
    BY <1>1, FillsAll
  <1> QED BY <1>2

(* Types of what is kept of one call.                                       *)
LEMMA CallTypes ==
    ASSUME TypeOK, NEW c \in Call
    PROVE  /\ ask[c].ids \subseteq Id /\ ask[c].own \in BOOLEAN /\ ask[c].all \in BOOLEAN
           /\ retVec[c].got \subseteq Id /\ retVec[c].kept \in BOOLEAN /\ retVec[c].size \in Nat
           /\ retVec[c] \in [kept : BOOLEAN, got : SUBSET Id, size : Nat]
           /\ vecGiven[c] \in Nat
  <1>1. ask[c] \in Shape /\ retVec[c] \in [kept : BOOLEAN, got : SUBSET Id, size : Nat] /\ vecGiven[c] \in Nat
    BY DEF TypeOK
  <1> QED BY <1>1 DEF Shape

(* Vectors that are given are not kept.                                     *)
LEMMA DeletedVectors ==
    ASSUME NEW vec \in [Call -> [kept : BOOLEAN, got : SUBSET Id, size : Nat]], NEW which,
           retVec' = Deleted(vec, which)
    PROVE  /\ retVec' \in [Call -> [kept : BOOLEAN, got : SUBSET Id, size : Nat]]
           /\ \A c \in Call : /\ retVec'[c].got = vec[c].got /\ retVec'[c].size = vec[c].size
                              /\ retVec'[c].kept = (vec[c].kept /\ c \notin which)
  <1>1. \A c \in Call : retVec'[c] = IF c \in which THEN [vec[c] EXCEPT !.kept = FALSE] ELSE vec[c]
    BY DEF Deleted
  <1>2. ASSUME NEW c \in Call
        PROVE  /\ retVec'[c] \in [kept : BOOLEAN, got : SUBSET Id, size : Nat]
               /\ retVec'[c].got = vec[c].got /\ retVec'[c].size = vec[c].size
               /\ retVec'[c].kept = (vec[c].kept /\ c \notin which)
    <2>1. vec[c] \in [kept : BOOLEAN, got : SUBSET Id, size : Nat]
      OBVIOUS
    <2>2. CASE c \in which
      BY <1>1, <2>1, <2>2
    <2>3. CASE c \notin which
      <3>1. retVec'[c] = vec[c]
        BY <1>1, <2>3
      <3> QED BY <2>1, <2>3, <3>1
    <2> QED BY <2>2, <2>3
  <1>3. retVec' = [c \in Call |-> retVec'[c]]
    BY DEF Deleted
  <1> QED BY <1>2, <1>3

(* An asset is put into the vectors of those who wait for it.               *)
LEMMA PushedVectors ==
    ASSUME TypeOK, NEW to, NEW i \in Id
    PROVE  /\ Pushed(to, i) \in [Call -> [kept : BOOLEAN, got : SUBSET Id, size : Nat]]
           /\ \A c \in Call : Pushed(to, i)[c].kept = retVec[c].kept
           /\ \A c \in Call : c \in to /\ retVec[c].kept =>
                  /\ Pushed(to, i)[c].got = retVec[c].got \cup {i}
                  /\ Pushed(to, i)[c].size = retVec[c].size + 1
           /\ \A c \in Call : ~(c \in to /\ retVec[c].kept) => Pushed(to, i)[c] = retVec[c]
  <1> DEFINE vec == Pushed(to, i)
  <1>1. \A c \in Call : vec[c] = IF c \in to /\ retVec[c].kept
                                 THEN [kept |-> TRUE, got |-> retVec[c].got \cup {i}, size |-> retVec[c].size + 1]
                                 ELSE retVec[c]
    BY DEF Pushed
  <1>2. ASSUME NEW c \in Call
        PROVE  /\ vec[c] \in [kept : BOOLEAN, got : SUBSET Id, size : Nat] /\ vec[c].kept = retVec[c].kept
               /\ c \in to /\ retVec[c].kept =>
                      vec[c].got = retVec[c].got \cup {i} /\ vec[c].size = retVec[c].size + 1
               /\ ~(c \in to /\ retVec[c].kept) => vec[c] = retVec[c]
    <2>1. /\ retVec[c] \in [kept : BOOLEAN, got : SUBSET Id, size : Nat]
          /\ retVec[c].got \subseteq Id /\ retVec[c].size \in Nat /\ retVec[c].kept \in BOOLEAN
      BY CallTypes
    <2>2. CASE c \in to /\ retVec[c].kept
      <3>1. vec[c] = [kept |-> TRUE, got |-> retVec[c].got \cup {i}, size |-> retVec[c].size + 1]
        BY <1>1, <2>2
      <3> QED BY <2>1, <2>2, <3>1
    <2>3. CASE ~(c \in to /\ retVec[c].kept)
      <3>1. vec[c] = retVec[c]
        BY <1>1, <2>3
      <3> QED BY <2>1, <2>3, <3>1
    <2> QED BY <2>2, <2>3
  <1>3. vec = [c \in Call |-> vec[c]]
    BY DEF Pushed
  <1> HIDE DEF vec
  <1>4. vec \in [Call -> [kept : BOOLEAN, got : SUBSET Id, size : Nat]]
    BY <1>2, <1>3
  <1> QED BY <1>2, <1>4 DEF vec

(* The end of a completion of getAssets: full vectors are given, and        *)
(* nothing is missing from them.                                            *)
LEMMA CollectedStep ==
    ASSUME LibraryInv, Collected
    PROVE  LibraryInv'
  <1> DEFINE full == {c \in now.call : Full(ask, retVec, c)}
  <1> USE DEF library
  <1>1. TypeOK /\ StartInv /\ JobsInv /\ ~fault
    BY DEF LibraryInv
  <1>2. /\ now.kind = "many" /\ now.ids = {} /\ now' = Nothing /\ inside' = FALSE
        /\ UNCHANGED <<library, jobs, performed, ask, rows>>
        /\ retVec' = Deleted(retVec, full) /\ Give(ask, {}, full) /\ objects' = Retained(assets')
    BY DEF Collected
  <1>3. NowIds = {} /\ NowCall = now.call /\ NowIds' = {} /\ NowCall' = {}
    BY <1>2 DEF NowIds, NowCall, Nothing, Creation
  <1>4. now.call \subseteq Call /\ full \subseteq now.call /\ now' \in Jobs
    BY <1>1, <1>2 DEF TypeOK, Jobs, Nothing
  <1>5. \A c \in now.call : retVec[c].kept
    BY <1>3, <1>4 DEF LibraryInv, VectorInv, Working
  <1>6. loaded /\ tmpMultiRequest = <<>>
    <2>1. now # Nothing
      BY <1>2 DEF Nothing
    <2> QED BY <1>1, <1>2, <2>1 DEF StartInv
  <1>7. ASSUME NEW c \in Call, retVec[c].kept
        PROVE  (Full(ask, retVec, c) <=> Missing(c) = {}) /\ (Missing(c) = {} => retVec[c].got = ask[c].ids)
    <2>1. /\ retVec[c].got \cap Missing(c) = {} /\ retVec[c].got \cup Missing(c) = ask[c].ids
          /\ retVec[c].size = Cardinality(retVec[c].got) /\ ask[c].ids \subseteq Id
      BY <1>1, <1>7, CallTypes DEF LibraryInv, VectorInv
    <2> QED BY <2>1, FullMeans DEF Full
  <1>8. \A c \in full : Missing(c) = {} /\ retVec[c].got = ask[c].ids /\ retVec[c].kept /\ c \in Call
    BY <1>4, <1>5, <1>7
  <1>9. /\ given' \in [Call -> [Id -> Nat]] /\ vecGiven' \in [Call -> Nat]
        /\ held \subseteq held' /\ held' \subseteq Call \X Id
        /\ \A c \in Call, i \in Id : given'[c][i] = given[c][i]
        /\ \A c \in Call : vecGiven'[c] = IF c \in full THEN vecGiven[c] + 1 ELSE vecGiven[c]
        /\ \A c \in Call, i \in Id : <<c, i>> \in held' => <<c, i>> \in held \/ (c \in full /\ i \in ask[c].ids)
    <2> DEFINE none == {}
    <2>1. full \subseteq Call /\ none \subseteq Call \X Id /\ \A x : x \notin none
      BY <1>4
    <2>2. Give(ask, none, full)
      BY <1>2
    <2> HIDE DEF full, none
    <2>3. /\ given' \in [Call -> [Id -> Nat]] /\ vecGiven' \in [Call -> Nat]
          /\ held \subseteq held' /\ held' \subseteq Call \X Id
          /\ \A c \in Call, i \in Id :
                 given'[c][i] = IF <<c, i>> \in none THEN given[c][i] + 1 ELSE given[c][i]
          /\ \A c \in Call : vecGiven'[c] = IF c \in full THEN vecGiven[c] + 1 ELSE vecGiven[c]
          /\ \A c \in Call, i \in Id :
                 <<c, i>> \in held' => <<c, i>> \in held \/ <<c, i>> \in none \/ (c \in full /\ i \in ask[c].ids)
      BY <1>1, <2>1, <2>2, GiveStep
    <2> QED BY <2>1, <2>3
  <1>10. \A i \in Id : Pending(i)' <=> Pending(i)
    BY <1>2, <1>3 DEF Pending, InJob
  <1>11. objects' \in [Id -> Seq(Int)] /\ \A i \in Id : (Made(i)' <=> Made(i)) /\ ObjectInv(i)'
    <2>1. \A i \in Id : ObjectInv(i)
      BY DEF LibraryInv
    <2>2. \A c \in Call, i \in Id : <<c, i>> \in held' => <<c, i>> \in held \/ assets'[i] = 1
      <3>1. SUFFICES ASSUME NEW c \in Call, NEW i \in Id, c \in full, i \in ask[c].ids PROVE assets[i] = 1
        BY <1>2, <1>9
      <3> QED BY <1>8, <3>1 DEF LibraryInv, VectorInv
    <2>3. \A i \in Id : assets'[i] = IF loaded /\ Made(i) /\ ~Pending(i)' THEN 1 ELSE 0
      BY <1>2, <1>10, <2>1 DEF ObjectInv
    <2>4. UNCHANGED <<downloads, loaded, rows, assets>> /\ objects' = Retained(assets')
      BY <1>2
    <2> QED BY <1>1, <1>9, <2>1, <2>2, <2>3, <2>4, RetainStep
  <1>12. retVec' \in [Call -> [kept : BOOLEAN, got : SUBSET Id, size : Nat]]
         /\ \A c \in Call : /\ retVec'[c].got = retVec[c].got /\ retVec'[c].size = retVec[c].size
                            /\ retVec'[c].kept = (retVec[c].kept /\ c \notin full)
    <2>1. retVec \in [Call -> [kept : BOOLEAN, got : SUBSET Id, size : Nat]] /\ retVec' = Deleted(retVec, full)
      BY <1>1, <1>2 DEF TypeOK
    <2> HIDE DEF full
    <2> QED BY <2>1, DeletedVectors
  <1>13. fault' = FALSE
    BY <1>1, <1>5 DEF Collected, TypeOK
  <1>14. TypeOK'
    BY <1>1, <1>2, <1>4, <1>9, <1>11, <1>12, <1>13 DEF TypeOK
  <1>15. StartInv'
    BY <1>1, <1>2, <1>6 DEF StartInv, Nothing
  <1>16. JobsInv'
    BY <1>1, <1>2, <1>3, <1>10, <1>11 DEF JobsInv
  <1>17. ASSUME NEW c \in Call PROVE VectorInv(c)'
    <2>1. Joined(c)' = Joined(c) /\ Ordered(c)' = Ordered(c) /\ Coming(c) = {} /\ Coming(c)' = {}
      BY <1>2, <1>3 DEF Joined, Ordered, Coming
    <2>2. Missing(c)' = Missing(c) /\ (Working(c)' => Working(c))
      BY <1>2, <1>3, <2>1 DEF Missing, Working
    <2>3. VectorInv(c) /\ UNCHANGED <<ask, assets>>
      BY <1>2 DEF LibraryInv
    <2>4. /\ retVec'[c].got = retVec[c].got /\ retVec'[c].size = retVec[c].size
          /\ retVec'[c].kept = (retVec[c].kept /\ c \notin full)
      BY <1>12
    <2>5. CASE c \in full
      <3>1. ~Working(c)'
        <4>1. \A k \in DOMAIN jobs : c \notin jobs[k].call
          BY <1>1, <1>3, <1>4, <2>5 DEF JobsInv
        <4> QED BY <1>2, <1>3, <4>1 DEF Working
      <3>2. vecGiven[c] = 0 /\ ask[c].all
        BY <1>8, <2>3, <2>5 DEF VectorInv
      <3>3. vecGiven'[c] = 1
        BY <1>9, <2>5, <3>2
      <3>4. ~retVec'[c].kept /\ Missing(c)' = {} /\ retVec'[c].got = ask'[c].ids
        BY <1>8, <2>2, <2>3, <2>4, <2>5
      <3> HIDE DEF full
      <3> QED BY <2>1, <2>3, <3>1, <3>2, <3>3, <3>4 DEF VectorInv
    <2>6. CASE c \notin full
      <3>1. vecGiven'[c] = vecGiven[c]
        BY <1>9, <2>6
      <3>2. retVec'[c].kept = retVec[c].kept
        BY <1>1, <2>4, <2>6, CallTypes
      <3>3. retVec[c].kept /\ Missing(c) = {} => c \in NowCall /\ Full(ask, retVec, c)
        BY <1>7, <2>3 DEF VectorInv
      <3>4. retVec[c].kept => Missing(c) # {}
        BY <1>3, <2>6, <3>3
      <3> HIDE DEF full
      <3> QED BY <2>1, <2>2, <2>3, <2>4, <3>1, <3>2, <3>4 DEF VectorInv
    <2> QED BY <2>5, <2>6
  <1>18. ASSUME NEW c \in Call PROVE CallInv(c)'
    <2>1. CallInv(c) /\ UNCHANGED <<loaded, tmpRequests, tmpMultiRequest, callbacks, ask>>
      BY <1>2 DEF LibraryInv
    <2>2. (Waits(c)' <=> Waits(c)) /\ (Asked(c)' <=> Asked(c)) /\ loaded' /\ now'.kind # "init"
      BY <1>2, <1>6, <2>1 DEF Waits, Asked, Nothing
    <2>3. \A i \in Id : given'[c][i] = given[c][i]
      BY <1>9
    <2>4. Untouched(c) => Untouched(c)'
      <3>1. SUFFICES ASSUME Untouched(c) PROVE Untouched(c)'
        OBVIOUS
      <3>2. c \notin full /\ vecGiven[c] = 0
        BY <1>8, <3>1 DEF Untouched
      <3>3. vecGiven'[c] = 0 /\ ~retVec'[c].kept
        BY <1>9, <1>12, <3>1, <3>2 DEF Untouched
      <3> HIDE DEF full
      <3> QED BY <2>1, <2>3, <3>1, <3>3 DEF Untouched
    <2> QED BY <2>1, <2>2, <2>3, <2>4 DEF CallInv
  <1>19. OnceInv'
    BY <1>2 DEF LibraryInv, OnceInv
  <1> QED BY <1>11, <1>13, <1>14, <1>15, <1>16, <1>17, <1>18, <1>19 DEF LibraryInv

(* onAssetCreated serves who waits for one asset: own callbacks, and the    *)
(* vectors of other calls, which it gives when they are full.               *)
LEMMA CreatedStep ==
    ASSUME LibraryInv, NEW i \in Id, onAssetCreated(i)
    PROVE  LibraryInv'
  <1> DEFINE lambdas == {c \in Call : <<c, "all">> \in callbacks[i]}
             to      == now.call \cup lambdas
             vec     == Pushed(to, i)
             full    == {c \in lambdas : retVec[c].kept /\ Full(ask, vec, c)}
             live    == IF assets[i] = 0 THEN [assets EXCEPT ![i] = Len(objects[i])] ELSE assets
             own     == {v \in Call \X {i} : ask[v[1]].own /\ <<v[1], "own">> \in callbacks[i]}
  <1>1. TypeOK /\ StartInv /\ JobsInv /\ ~fault /\ \A j \in Id : ObjectInv(j)
    BY DEF LibraryInv
  <1>2. /\ now.kind \in Creation /\ i \in now.ids
        /\ UNCHANGED <<loaded, tmpRequests, tmpMultiRequest, downloads, jobs, performed, ask, rows>>
        /\ callbacks' = [callbacks EXCEPT ![i] = {}]
        /\ now' = IF now.call = {} /\ now.ids = {i} THEN Nothing ELSE [now EXCEPT !.ids = @ \ {i}]
    BY DEF onAssetCreated, Creation
  <1>3. assets' = live /\ objects' = Retained(live) /\ retVec' = Deleted(vec, full) /\ Give(ask, own, full)
    BY DEF onAssetCreated
  <1>4. now \in Jobs /\ now.call \subseteq Call /\ now.ids \subseteq Id
    BY <1>1 DEF TypeOK, Jobs
  <1>5. loaded /\ tmpMultiRequest = <<>> /\ \A k \in DOMAIN jobs : jobs[k].kind \in Creation
    <2>1. now # Nothing
      BY <1>2 DEF Nothing, Creation
    <2> QED BY <1>1, <1>2, <2>1 DEF StartInv, Creation
  <1>6. NowIds = now.ids /\ NowCall = now.call
    BY <1>2 DEF NowIds, NowCall
  <1>7. NowIds' = now.ids \ {i} /\ NowCall' = now.call /\ now' \in Jobs /\ now'.kind # "init"
        /\ (now'.kind \in Creation \/ now' = Nothing)
    <2>1. CASE now.call = {} /\ now.ids = {i}
      <3>1. now' = Nothing
        BY <1>2, <2>1
      <3> QED BY <2>1, <3>1 DEF NowIds, NowCall, Nothing, Creation, Jobs
    <2>2. CASE ~(now.call = {} /\ now.ids = {i})
      <3>1. now' = [now EXCEPT !.ids = @ \ {i}]
        BY <1>2, <2>2
      <3>2. now'.kind = now.kind /\ now'.call = now.call /\ now'.ids = now.ids \ {i} /\ now' \in Jobs
        BY <1>4, <3>1 DEF Jobs
      <3> QED BY <1>2, <3>2 DEF NowIds, NowCall, Creation
    <2> QED BY <2>1, <2>2
  <1>8. \A k \in DOMAIN jobs : i \notin jobs[k].ids
    BY <1>1, <1>2, <1>6 DEF JobsInv
  <1>9. Pending(i) /\ Made(i) /\ assets[i] = 0 /\ Len(objects[i]) = 1
    <2>1. Pending(i) /\ Made(i)
      BY <1>1, <1>2, <1>6 DEF Pending, JobsInv
    <2> QED BY <1>1, <2>1 DEF ObjectInv
  <1>10. \A j \in Id : Pending(j)' <=> Pending(j) /\ j # i
    BY <1>2, <1>6, <1>7, <1>8 DEF Pending, InJob
  <1>11. assets' \in [Id -> Nat] /\ \A j \in Id : assets'[j] = IF j = i THEN 1 ELSE assets[j]
    <2>1. assets \in [Id -> Nat]
      BY <1>1 DEF TypeOK
    <2> QED BY <1>3, <1>9, <2>1
  <1>12. callbacks' \in [Id -> SUBSET (Call \X {"own", "all"})]
         /\ \A j \in Id : callbacks'[j] = IF j = i THEN {} ELSE callbacks[j]
    <2>1. callbacks \in [Id -> SUBSET (Call \X {"own", "all"})]
      BY <1>1 DEF TypeOK
    <2> QED BY <1>2, <2>1
  <1>13. ASSUME NEW c \in Call
         PROVE  /\ Joined(c)' = Joined(c) \ {i} /\ Ordered(c)' = Ordered(c) /\ i \notin Ordered(c)
                /\ Coming(c)' = Coming(c) \ {i} /\ Missing(c)' = Missing(c) \ {i}
                /\ i \in Missing(c) <=> c \in to
                /\ Working(c)' <=> Working(c)
    <2>1. Joined(c)' = Joined(c) \ {i}
      BY <1>12 DEF Joined
    <2>2. Ordered(c)' = Ordered(c) /\ i \notin Ordered(c)
      BY <1>2, <1>8 DEF Ordered
    <2>3. Coming(c)' = Coming(c) \ {i}
      BY <1>6, <1>7 DEF Coming
    <2>4. i \in Missing(c) <=> c \in to
      BY <1>2, <1>6, <2>2 DEF Missing, Joined, Coming
    <2>5. Working(c)' <=> Working(c)
      BY <1>2, <1>6, <1>7 DEF Working
    <2>6. Missing(c)' = Missing(c) \ {i}
      BY <2>1, <2>2, <2>3 DEF Missing
    <2> QED BY <2>1, <2>2, <2>3, <2>4, <2>5, <2>6
  <1>14. to \subseteq Call /\ full \subseteq Call /\ own \subseteq Call \X Id
    BY <1>4
  <1>15. \A c \in to : retVec[c].kept
    <2>1. ASSUME NEW c \in to, ~retVec[c].kept PROVE FALSE
      <3>1. i \in Missing(c) /\ VectorInv(c)
        BY <1>13, <1>14, <2>1 DEF LibraryInv
      <3> QED BY <2>1, <3>1 DEF VectorInv
    <2> QED BY <2>1
  <1>16. /\ vec \in [Call -> [kept : BOOLEAN, got : SUBSET Id, size : Nat]]
         /\ \A c \in Call : vec[c].kept = retVec[c].kept
         /\ \A c \in to : vec[c].got = retVec[c].got \cup {i} /\ vec[c].size = retVec[c].size + 1
         /\ \A c \in Call : c \notin to => vec[c] = retVec[c]
    <2> HIDE DEF to
    <2> QED BY <1>1, <1>14, <1>15, PushedVectors
  <1>17. ASSUME NEW c \in Call, retVec[c].kept
         PROVE  /\ vec[c].got \cap Missing(c)' = {} /\ vec[c].got \cup Missing(c)' = ask[c].ids
                /\ vec[c].size = Cardinality(vec[c].got)
                /\ \A j \in vec[c].got : assets'[j] = 1
                /\ Full(ask, vec, c) <=> Missing(c)' = {}
                /\ Missing(c)' = {} => vec[c].got = ask[c].ids
    <2>1. /\ retVec[c].got \cap Missing(c) = {} /\ retVec[c].got \cup Missing(c) = ask[c].ids
          /\ retVec[c].size = Cardinality(retVec[c].got) /\ \A j \in retVec[c].got : assets[j] = 1
          /\ ask[c].ids \subseteq Id /\ retVec[c].got \subseteq Id
      BY <1>1, <1>17, CallTypes DEF LibraryInv, VectorInv
    <2>2. vec[c].got \cap Missing(c)' = {} /\ vec[c].got \cup Missing(c)' = ask[c].ids
      <3>1. CASE c \in to
        <4>1. vec[c].got = retVec[c].got \cup {i} /\ i \in Missing(c)
          BY <1>13, <1>16, <3>1
        <4>2. Missing(c)' = Missing(c) \ {i}
          BY <1>13
        <4> QED BY <2>1, <4>1, <4>2
      <3>2. CASE c \notin to
        <4>1. vec[c] = retVec[c] /\ i \notin Missing(c)
          BY <1>13, <1>16, <3>2
        <4>2. Missing(c)' = Missing(c) \ {i}
          BY <1>13
        <4> QED BY <2>1, <4>1, <4>2
      <3> QED BY <3>1, <3>2
    <2>3. vec[c].size = Cardinality(vec[c].got)
      <3>1. CASE c \in to
        <4>1. vec[c].got = retVec[c].got \cup {i} /\ vec[c].size = retVec[c].size + 1 /\ i \notin retVec[c].got
          BY <1>13, <1>16, <2>1, <3>1
        <4>2. IsFiniteSet(retVec[c].got)
          BY <2>1, FiniteIds
        <4> QED BY <2>1, <4>1, <4>2, FS_AddElement
      <3>2. CASE c \notin to
        BY <1>16, <2>1, <3>2
      <3> QED BY <3>1, <3>2
    <2>4. \A j \in vec[c].got : assets'[j] = 1
      <3>1. vec[c].got \subseteq retVec[c].got \cup {i}
        BY <1>16
      <3> QED BY <1>11, <2>1, <3>1
    <2>5. Full(ask, vec, c) <=> Missing(c)' = {}
      BY <2>1, <2>2, <2>3, FullMeans DEF Full
    <2> QED BY <2>1, <2>2, <2>3, <2>4, <2>5, FullMeans
  <1>18. ASSUME NEW c \in full
         PROVE  c \in Call /\ retVec[c].kept /\ Missing(c)' = {} /\ vec[c].got = ask[c].ids /\ c \in to
    BY <1>17
  <1>19. /\ given' \in [Call -> [Id -> Nat]] /\ vecGiven' \in [Call -> Nat]
         /\ held \subseteq held' /\ held' \subseteq Call \X Id
         /\ \A c \in Call, j \in Id :
                given'[c][j] = IF <<c, j>> \in own THEN given[c][j] + 1 ELSE given[c][j]
         /\ \A c \in Call : vecGiven'[c] = IF c \in full THEN vecGiven[c] + 1 ELSE vecGiven[c]
         /\ \A c \in Call, j \in Id :
                <<c, j>> \in held' => <<c, j>> \in held \/ <<c, j>> \in own \/ (c \in full /\ j \in ask[c].ids)
    <2> HIDE DEF own, full
    <2> QED BY <1>1, <1>3, <1>14, GiveStep
  <1>20. objects' \in [Id -> Seq(Int)] /\ \A j \in Id : (Made(j)' <=> Made(j)) /\ ObjectInv(j)'
    <2>1. objects' = Retained(assets')
      BY <1>3
    <2>2. \A c \in Call, j \in Id : <<c, j>> \in held' => <<c, j>> \in held \/ assets'[j] = 1
      <3>1. SUFFICES ASSUME NEW c \in Call, NEW j \in Id, <<c, j>> \in own \/ (c \in full /\ j \in ask[c].ids)
                     PROVE  assets'[j] = 1
        BY <1>19
      <3>2. CASE <<c, j>> \in own
        BY <1>11, <3>2
      <3>3. CASE c \in full /\ j \in ask[c].ids
        BY <1>17, <1>18, <3>3
      <3> QED BY <3>1, <3>2, <3>3
    <2>3. \A j \in Id : assets'[j] = IF loaded /\ Made(j) /\ ~Pending(j)' THEN 1 ELSE 0
      <3>1. \A j \in Id : assets[j] = IF loaded /\ Made(j) /\ ~Pending(j) THEN 1 ELSE 0
        BY <1>1 DEF ObjectInv
      <3> QED BY <1>5, <1>9, <1>10, <1>11, <3>1
    <2>4. \A j \in Id : assets[j] = 1 => assets'[j] = 1
      BY <1>11
    <2>5. UNCHANGED <<downloads, loaded, rows>>
      BY <1>2
    <2> QED BY <1>1, <1>19, <2>1, <2>2, <2>3, <2>4, <2>5, RetainStep
  <1>21. retVec' \in [Call -> [kept : BOOLEAN, got : SUBSET Id, size : Nat]]
         /\ \A c \in Call : /\ retVec'[c].got = vec[c].got /\ retVec'[c].size = vec[c].size
                            /\ retVec'[c].kept = (retVec[c].kept /\ c \notin full)
    <2>1. retVec' = Deleted(vec, full)
      BY <1>3
    <2> HIDE DEF vec, full
    <2> QED BY <1>16, <2>1, DeletedVectors
  <1>22. fault' = FALSE
    <2>1. fault' = (fault \/ \E c \in to : ~retVec[c].kept)
      BY DEF onAssetCreated
    <2> QED BY <1>1, <1>15, <2>1
  <1>23. inside' \in BOOLEAN
    BY DEF onAssetCreated, Inside
  <1> HIDE DEF lambdas, to, vec, full, live, own
  <1>24. TypeOK'
    BY <1>1, <1>2, <1>7, <1>11, <1>12, <1>19, <1>20, <1>21, <1>22, <1>23 DEF TypeOK
  <1>25. StartInv'
    BY <1>2, <1>5, <1>7 DEF StartInv, Creation, Nothing
  <1>26. JobsInv'
    <2>1. NowIds' \subseteq NowIds /\ NowCall' = NowCall
      BY <1>6, <1>7
    <2>2. \A j \in Id : callbacks'[j] # {} <=> Pending(j)'
      BY <1>1, <1>10, <1>12 DEF JobsInv
    <2>3. UNCHANGED <<jobs, performed>>
      BY <1>2
    <2> QED BY <1>1, <1>20, <2>1, <2>2, <2>3 DEF JobsInv
  <1>27. ASSUME NEW c \in Call PROVE VectorInv(c)'
    <2>0. VectorInv(c) /\ ask' = ask
      BY <1>2 DEF LibraryInv
    <2>1. Joined(c)' \cap (Ordered(c)' \cup Coming(c)') = {}
      <3>1. Joined(c) \cap (Ordered(c) \cup Coming(c)) = {}
        BY <2>0 DEF VectorInv
      <3> QED BY <1>13, <3>1
    <2>2. /\ retVec'[c].got = vec[c].got /\ retVec'[c].size = vec[c].size
          /\ retVec'[c].kept = (retVec[c].kept /\ c \notin full)
          /\ vecGiven'[c] = IF c \in full THEN vecGiven[c] + 1 ELSE vecGiven[c]
      BY <1>19, <1>21
    <2>3. CASE c \in full
      <3>1. vecGiven[c] = 0 /\ ask[c].all /\ retVec[c].kept
        BY <1>18, <2>0, <2>3 DEF VectorInv
      <3>2. c \notin NowCall
        <4>1. i \in Joined(c)
          BY <2>3 DEF full, lambdas, Joined
        <4>2. i \notin Coming(c)
          BY <2>0, <4>1 DEF VectorInv
        <4> QED BY <1>2, <1>6, <4>2 DEF Coming
      <3>3. ~Working(c)'
        <4>1. ASSUME NEW k \in DOMAIN jobs, c \in jobs[k].call PROVE FALSE
          <5>1. jobs[k].ids # {} /\ jobs[k].ids \subseteq Id
            <6>1. jobs[k] \in Jobs
              BY <1>1, <4>1 DEF TypeOK
            <6> QED BY <1>1, <1>5, <6>1 DEF JobsInv, Jobs
          <5>2. Ordered(c) # {}
            BY <4>1, <5>1 DEF Ordered
          <5>3. Ordered(c)' = {}
            BY <1>18, <2>3 DEF Missing
          <5> QED BY <1>13, <5>2, <5>3
        <4> QED BY <1>13, <3>2, <4>1 DEF Working
      <3>4. vecGiven'[c] = 1 /\ ~retVec'[c].kept /\ Missing(c)' = {}
        <4>1. vecGiven'[c] = 1
          BY <2>2, <2>3, <3>1
        <4>2. ~retVec'[c].kept
          BY <2>2, <2>3
        <4> QED BY <1>18, <2>3, <4>1, <4>2
      <3>5. retVec'[c].got = ask'[c].ids /\ ask'[c].all
        BY <1>18, <2>0, <2>2, <2>3, <3>1
      <3> QED BY <2>1, <3>3, <3>4, <3>5 DEF VectorInv
    <2>4. CASE c \notin full
      <3>1. vecGiven'[c] = vecGiven[c] /\ retVec'[c].kept = retVec[c].kept
        BY <1>1, <2>2, <2>4, CallTypes
      <3>2. CASE retVec[c].kept
        <4>1. Missing(c)' = {} => c \in NowCall'
          <5>1. SUFFICES ASSUME Missing(c)' = {} PROVE c \in NowCall'
            OBVIOUS
          <5>2. Full(ask, vec, c)
            BY <1>17, <3>2, <5>1
          <5>3. c \notin lambdas
            BY <2>4, <3>2, <5>2 DEF full
          <5>4. CASE c \in to
            BY <1>7, <5>3, <5>4 DEF to
          <5>5. CASE c \notin to
            <6>1. Missing(c) = {}
              BY <1>13, <5>1, <5>5
            <6> QED BY <1>6, <1>7, <2>0, <3>2, <6>1 DEF VectorInv
          <5> QED BY <5>4, <5>5
        <4>2. retVec'[c].kept /\ ask'[c].all /\ vecGiven'[c] = 0
          BY <2>0, <3>1, <3>2 DEF VectorInv
        <4>3. /\ retVec'[c].got \cap Missing(c)' = {} /\ retVec'[c].got \cup Missing(c)' = ask'[c].ids
              /\ retVec'[c].size = Cardinality(retVec'[c].got)
              /\ \A j \in retVec'[c].got : assets'[j] = 1
          BY <1>17, <2>0, <2>2, <3>2
        <4> QED BY <2>1, <4>1, <4>2, <4>3 DEF VectorInv
      <3>3. CASE ~retVec[c].kept
        <4>1. Missing(c) = {} /\ ~Working(c) /\ c \notin to
          BY <1>15, <2>0, <3>3 DEF VectorInv
        <4>2. retVec'[c].got = retVec[c].got
          BY <1>16, <2>2, <4>1
        <4>3. Missing(c)' = {} /\ ~Working(c)'
          BY <1>13, <4>1
        <4> QED BY <2>0, <2>1, <3>1, <3>3, <4>2, <4>3 DEF VectorInv
      <3> QED BY <3>2, <3>3
    <2> QED BY <2>3, <2>4
  <1>28. ASSUME NEW c \in Call PROVE CallInv(c)'
    <2>1. CallInv(c) /\ UNCHANGED <<loaded, tmpRequests, tmpMultiRequest, ask>>
      BY <1>2 DEF LibraryInv
    <2>2. (Waits(c)' <=> Waits(c)) /\ (Asked(c)' <=> Asked(c)) /\ loaded' /\ now'.kind # "init"
      BY <1>5, <1>7, <2>1 DEF Waits, Asked
    <2>3. Untouched(c) => Untouched(c)'
      <3>1. SUFFICES ASSUME Untouched(c) PROVE Untouched(c)'
        OBVIOUS
      <3>2. c \notin full /\ \A j \in Id : <<c, j>> \notin own
        <4>1. c \notin full
          BY <1>18, <3>1 DEF Untouched
        <4>2. <<c, "own">> \notin callbacks[i]
          BY <3>1 DEF Untouched
        <4> QED BY <4>1, <4>2 DEF own
      <3>3. vecGiven'[c] = 0 /\ ~retVec'[c].kept /\ \A j \in Id : given'[c][j] = 0
        BY <1>19, <1>21, <3>1, <3>2 DEF Untouched
      <3>4. \A j \in Id : callbacks'[j] \subseteq callbacks[j]
        BY <1>12
      <3> QED BY <3>1, <3>3, <3>4 DEF Untouched
    <2>4. ASSUME NEW j \in Id
          PROVE  /\ given'[c][j] <= (IF ask[c].own /\ j \in ask[c].ids THEN 1 ELSE 0)
                 /\ <<c, "own">> \in callbacks'[j] => given'[c][j] = 0 /\ j \in ask[c].ids
      <3>1. CASE <<c, j>> \in own
        <4>1. j = i /\ ask[c].own /\ <<c, "own">> \in callbacks[i]
          BY <3>1 DEF own
        <4>2. given[c][i] = 0 /\ i \in ask[c].ids
          BY <2>1, <4>1 DEF CallInv
        <4>3. given'[c][j] = 1
          BY <1>19, <3>1, <4>1, <4>2
        <4> QED BY <1>12, <4>1, <4>2, <4>3
      <3>2. CASE <<c, j>> \notin own
        <4>1. given'[c][j] = given[c][j]
          BY <1>19, <3>2
        <4>2. callbacks'[j] \subseteq callbacks[j]
          BY <1>12
        <4> QED BY <2>1, <4>1, <4>2 DEF CallInv
      <3> QED BY <3>1, <3>2
    <2> QED BY <2>1, <2>2, <2>3, <2>4 DEF CallInv
  <1>29. OnceInv'
    BY <1>2 DEF LibraryInv, OnceInv
  <1> QED BY <1>20, <1>22, <1>24, <1>25, <1>26, <1>27, <1>28, <1>29 DEF LibraryInv

-----------------------------------------------------------------------------
(* Requests are served.                                                     *)

(* A task is appended when there is something to make.                      *)
LEMMA AppendedJob ==
    ASSUME TypeOK, NEW new, NEW job \in Jobs,
           jobs' = IF new = {} THEN jobs ELSE Append(jobs, job)
    PROVE  /\ jobs' \in Seq(Jobs) /\ performed \in 0 .. Len(jobs')
           /\ \A k \in DOMAIN jobs : k \in DOMAIN jobs' /\ jobs'[k] = jobs[k]
           /\ \A k \in DOMAIN jobs' : k \in DOMAIN jobs \/ (new # {} /\ k = Len(jobs) + 1 /\ jobs'[k] = job)
           /\ new # {} => Len(jobs) + 1 \in DOMAIN jobs' /\ jobs'[Len(jobs) + 1] = job
           /\ \A k \in DOMAIN jobs : k # Len(jobs) + 1
  <1>1. jobs \in Seq(Jobs) /\ performed \in 0 .. Len(jobs) /\ Len(jobs) \in Nat /\ DOMAIN jobs = 1 .. Len(jobs)
    BY DEF TypeOK
  <1>2. CASE new = {}
    BY <1>1, <1>2
  <1>3. CASE new # {}
    <2>1. jobs' = Append(jobs, job)
      BY <1>3
    <2>2. jobs' \in Seq(Jobs) /\ Len(jobs') = Len(jobs) + 1
      BY <1>1, <2>1
    <2>3. DOMAIN jobs' = 1 .. Len(jobs) + 1
      BY <1>1, <2>2
    <2>4. jobs'[Len(jobs) + 1] = job /\ \A k \in DOMAIN jobs : jobs'[k] = jobs[k]
      BY <1>1, <2>1
    <2> QED BY <1>1, <1>3, <2>2, <2>3, <2>4
  <1> QED BY <1>2, <1>3

(* What serving the requests of V does, one call and one id at a time: the  *)
(* receivers of live assets are called, the others join those who wait, and *)
(* assets that nobody waits for get a task.                                 *)
Serves(a, V, cb, own, full, new, job) ==
    /\ a \in [Call -> Shape] /\ ask' = a
    /\ V \subseteq Call \X Id /\ cb \subseteq Call /\ own \subseteq Call \X Id /\ full \subseteq Call
    /\ \A c \in Call : a[c] = ask[c] \/ Untouched(c)
    /\ \A c \in Call, i \in Id : <<c, i>> \in V =>
           given[c][i] = 0 /\ <<c, "own">> \notin callbacks[i] /\ i \in a[c].ids
    /\ \A c \in cb : Untouched(c) /\ a[c].all /\ V = {c} \X a[c].ids
    /\ \A c \in Call, i \in Id : <<c, i>> \in own <=> <<c, i>> \in V /\ assets[i] # 0 /\ a[c].own
    /\ \A c \in Call : c \in full <=> c \in cb /\ \A i \in a[c].ids : assets[i] # 0
    /\ \A i \in Id : i \in new <=>
           assets[i] = 0 /\ callbacks[i] = {} /\ \E c \in Call : <<c, i>> \in V
    /\ job \in Jobs /\ job.kind \in Creation /\ job.call = cb /\ job.ids = new
    /\ callbacks' \in [Id -> SUBSET (Call \X {"own", "all"})]
    /\ \A c \in Call, i \in Id :
           /\ <<c, "own">> \in callbacks'[i] <=>
                  <<c, "own">> \in callbacks[i] \/ (<<c, i>> \in V /\ assets[i] = 0)
           /\ <<c, "all">> \in callbacks'[i] <=>
                  \/ <<c, "all">> \in callbacks[i]
                  \/ c \in cb /\ <<c, i>> \in V /\ assets[i] = 0 /\ callbacks[i] # {}
    /\ retVec' \in [Call -> [kept : BOOLEAN, got : SUBSET Id, size : Nat]]
    /\ \A c \in Call : c \notin cb => retVec'[c] = retVec[c]
    /\ \A c \in cb : /\ retVec'[c].got = {i \in a[c].ids : assets[i] # 0}
                     /\ retVec'[c].size = Cardinality(retVec'[c].got)
                     /\ retVec'[c].kept <=> c \notin full
    /\ Give(a, own, full)
    /\ objects' = Retained(assets') /\ assets' = assets
    /\ jobs' = IF new = {} THEN jobs ELSE Append(jobs, job)
    /\ NowIds' = NowIds /\ NowCall' = NowCall
    /\ UNCHANGED <<loaded, downloads, performed, rows, fault>>

(* What this leaves of the invariant.                                       *)
ServedInv(V, cb) ==
    /\ jobs' \in Seq(Jobs) /\ performed' \in 0 .. Len(jobs')
    /\ \A k \in DOMAIN jobs' : k \in DOMAIN jobs \/ jobs'[k].kind \in Creation
    /\ \A k \in DOMAIN jobs : jobs'[k] = jobs[k]
    /\ given' \in [Call -> [Id -> Nat]] /\ vecGiven' \in [Call -> Nat] /\ held' \subseteq Call \X Id
    /\ objects' \in [Id -> Seq(Int)]
    /\ JobsInv' /\ (\A i \in Id : ObjectInv(i)') /\ (\A c \in Call : VectorInv(c)')
    /\ \A c \in Call : Untouched(c) /\ c \notin cb /\ (\A i \in Id : <<c, i>> \notin V) => Untouched(c)'
    /\ \A c \in Call, i \in Id :
           /\ given'[c][i] <= (IF ask'[c].own /\ i \in ask'[c].ids THEN 1 ELSE 0)
           /\ <<c, "own">> \in callbacks'[i] => given'[c][i] = 0 /\ i \in ask'[c].ids
           /\ <<c, i>> \notin V => /\ given'[c][i] = given[c][i]
                                   /\ <<c, "own">> \in callbacks'[i] <=> <<c, "own">> \in callbacks[i]

(* A request is served, whichever it is: what exists is given at once, what *)
(* is being made is joined, and the rest goes into a task.                  *)
LEMMA ServeStep ==
    ASSUME LibraryInv, loaded, NEW a, NEW V, NEW cb, NEW own, NEW full, NEW new, NEW job,
           Serves(a, V, cb, own, full, new, job)
    PROVE  ServedInv(V, cb)
  <1>1. TypeOK /\ StartInv /\ JobsInv /\ ~fault /\ \A j \in Id : ObjectInv(j)
    BY DEF LibraryInv
  <1>2. \A i \in Id : assets[i] = (IF Made(i) /\ ~Pending(i) THEN 1 ELSE 0) /\ (callbacks[i] # {} <=> Pending(i))
    BY <1>1 DEF ObjectInv, JobsInv
  <1>3. \A i \in Id : i \in new => ~Pending(i) /\ ~Made(i)
    <2>1. \A i \in Id : i \in new => assets[i] = 0 /\ callbacks[i] = {}
      BY DEF Serves
    <2> QED BY <1>2, <2>1
  <1>4. new \subseteq Id
    BY DEF Serves, Jobs
  <1>5. /\ jobs' \in Seq(Jobs) /\ performed \in 0 .. Len(jobs')
        /\ \A k \in DOMAIN jobs : k \in DOMAIN jobs' /\ jobs'[k] = jobs[k]
        /\ \A k \in DOMAIN jobs' : k \in DOMAIN jobs \/ (new # {} /\ k = Len(jobs) + 1 /\ jobs'[k] = job)
        /\ new # {} => Len(jobs) + 1 \in DOMAIN jobs' /\ jobs'[Len(jobs) + 1] = job
        /\ \A k \in DOMAIN jobs : k # Len(jobs) + 1
    <2>1. job \in Jobs /\ jobs' = IF new = {} THEN jobs ELSE Append(jobs, job)
      BY DEF Serves
    <2> QED BY <1>1, <2>1, AppendedJob
  <1>6. job.kind \in Creation /\ job.call = cb /\ job.ids = new /\ cb \subseteq Call
    BY DEF Serves
  <1>7. NowIds' = NowIds /\ NowCall' = NowCall
    BY DEF Serves
  <1>8. \A i \in Id : Pending(i)' <=> Pending(i) \/ i \in new
    <2>1. ASSUME NEW i \in Id PROVE InJob(i)' <=> InJob(i) \/ i \in new
      <3>1. InJob(i) => InJob(i)'
        BY <1>5 DEF InJob
      <3>2. i \in new => InJob(i)'
        BY <1>5, <1>6 DEF InJob
      <3>3. InJob(i)' => InJob(i) \/ i \in new
        BY <1>5, <1>6 DEF InJob
      <3> QED BY <3>1, <3>2, <3>3
    <2> QED BY <1>7, <2>1 DEF Pending
  <1>9. /\ given' \in [Call -> [Id -> Nat]] /\ vecGiven' \in [Call -> Nat]
        /\ held \subseteq held' /\ held' \subseteq Call \X Id
        /\ \A c \in Call, i \in Id :
               given'[c][i] = IF <<c, i>> \in own THEN given[c][i] + 1 ELSE given[c][i]
        /\ \A c \in Call : vecGiven'[c] = IF c \in full THEN vecGiven[c] + 1 ELSE vecGiven[c]
        /\ \A c \in Call, i \in Id :
               <<c, i>> \in held' => <<c, i>> \in held \/ <<c, i>> \in own \/ (c \in full /\ i \in a[c].ids)
    <2>1. own \subseteq Call \X Id /\ full \subseteq Call /\ Give(a, own, full)
      BY DEF Serves
    <2> QED BY <1>1, <2>1, GiveStep
  <1>10. objects' \in [Id -> Seq(Int)] /\ \A i \in Id : (Made(i)' <=> Made(i)) /\ ObjectInv(i)'
    <2>1. objects' = Retained(assets') /\ assets' = assets /\ UNCHANGED <<downloads, loaded, rows>>
      BY DEF Serves
    <2>2. \A c \in Call, i \in Id : <<c, i>> \in held' => <<c, i>> \in held \/ assets'[i] = 1
      <3>1. SUFFICES ASSUME NEW c \in Call, NEW i \in Id, <<c, i>> \in own \/ (c \in full /\ i \in a[c].ids)
                     PROVE  assets[i] # 0
        BY <1>2, <1>9, <2>1
      <3> QED BY <3>1 DEF Serves
    <2>3. \A i \in Id : assets'[i] = IF loaded /\ Made(i) /\ ~Pending(i)' THEN 1 ELSE 0
      BY <1>2, <1>3, <1>8, <2>1
    <2>4. \A i \in Id : assets[i] = 1 => assets'[i] = 1
      BY <2>1
    <2> QED BY <1>1, <1>9, <2>1, <2>2, <2>3, <2>4, RetainStep
  <1>11. JobsInv'
    <2>1. \A i \in Id : callbacks'[i] # {} <=> Pending(i)'
      <3>1. SUFFICES ASSUME NEW i \in Id PROVE callbacks'[i] # {} <=> Pending(i) \/ i \in new
        BY <1>8
      <3>2. callbacks[i] \subseteq Call \X {"own", "all"} /\ callbacks'[i] \subseteq Call \X {"own", "all"}
        BY <1>1 DEF TypeOK, Serves
      <3>3. ASSUME Pending(i) PROVE callbacks'[i] # {}
        <4>1. PICK c \in Call : <<c, "own">> \in callbacks[i] \/ <<c, "all">> \in callbacks[i]
          BY <1>2, <3>2, <3>3
        <4> QED BY <4>1 DEF Serves
      <3>4. ASSUME i \in new PROVE callbacks'[i] # {}
        <4>1. PICK c \in Call : <<c, i>> \in V /\ assets[i] = 0
          BY <3>4 DEF Serves
        <4> QED BY <4>1 DEF Serves
      <3>5. ASSUME callbacks'[i] # {}, ~Pending(i) PROVE i \in new
        <4>1. PICK c \in Call : <<c, "own">> \in callbacks'[i] \/ <<c, "all">> \in callbacks'[i]
          BY <3>2, <3>5
        <4>2. callbacks[i] = {}
          BY <1>2, <3>5
        <4>3. <<c, i>> \in V /\ assets[i] = 0
          BY <4>1, <4>2 DEF Serves
        <4> QED BY <4>2, <4>3 DEF Serves
      <3> QED BY <3>3, <3>4, <3>5
    <2>2. \A k \in DOMAIN jobs' : /\ jobs'[k].kind \in Creation => jobs'[k].ids # {}
                                  /\ jobs'[k].kind = "init" => jobs'[k].call = {}
      BY <1>1, <1>5, <1>6 DEF JobsInv, Creation
    <2>3. \A i \in Id : i \in new => i \notin NowIds /\ \A k \in DOMAIN jobs : i \notin jobs[k].ids
      <3>1. \A k \in DOMAIN jobs : jobs[k].kind \in Creation
        BY <1>1 DEF StartInv
      <3> QED BY <1>3, <3>1 DEF Pending, InJob
    <2>4. \A c \in cb : c \notin NowCall /\ \A k \in DOMAIN jobs : c \notin jobs[k].call
      <3>1. SUFFICES ASSUME NEW c \in cb PROVE ~Working(c)
        BY DEF Working
      <3>2. VectorInv(c) /\ ~retVec[c].kept
        BY <1>6 DEF Serves, Untouched, LibraryInv
      <3> QED BY <3>2 DEF VectorInv
    <2>5. \A i \in Id, k, l \in DOMAIN jobs' : i \in jobs'[k].ids /\ i \in jobs'[l].ids => k = l
      <3>1. SUFFICES ASSUME NEW i \in Id, NEW k \in DOMAIN jobs', NEW l \in DOMAIN jobs',
                            i \in jobs'[k].ids, i \in jobs'[l].ids
                     PROVE  k = l
        OBVIOUS
      <3>2. CASE k \in DOMAIN jobs /\ l \in DOMAIN jobs
        BY <1>1, <1>5, <3>1, <3>2 DEF JobsInv
      <3>3. CASE ~(k \in DOMAIN jobs /\ l \in DOMAIN jobs)
        BY <1>5, <1>6, <2>3, <3>1, <3>3
      <3> QED BY <3>2, <3>3
    <2>6. \A c \in Call, k, l \in DOMAIN jobs' : c \in jobs'[k].call /\ c \in jobs'[l].call => k = l
      <3>1. SUFFICES ASSUME NEW c \in Call, NEW k \in DOMAIN jobs', NEW l \in DOMAIN jobs',
                            c \in jobs'[k].call, c \in jobs'[l].call
                     PROVE  k = l
        OBVIOUS
      <3>2. CASE k \in DOMAIN jobs /\ l \in DOMAIN jobs
        BY <1>1, <1>5, <3>1, <3>2 DEF JobsInv
      <3>3. CASE ~(k \in DOMAIN jobs /\ l \in DOMAIN jobs)
        BY <1>5, <1>6, <2>4, <3>1, <3>3
      <3> QED BY <3>2, <3>3
    <2>7. \A k \in DOMAIN jobs' : jobs'[k].ids \cap NowIds' = {} /\ jobs'[k].call \cap NowCall' = {}
      <3>1. SUFFICES ASSUME NEW k \in DOMAIN jobs'
                     PROVE  jobs'[k].ids \cap NowIds = {} /\ jobs'[k].call \cap NowCall = {}
        BY <1>7
      <3>2. CASE k \in DOMAIN jobs
        BY <1>1, <1>5, <3>2 DEF JobsInv
      <3>3. CASE k \notin DOMAIN jobs
        BY <1>4, <1>5, <1>6, <2>3, <2>4, <3>3
      <3> QED BY <3>2, <3>3
    <2>8. \A i \in Id, k \in DOMAIN jobs' : jobs'[k].kind \in Creation /\ i \in jobs'[k].ids => (Made(i)' <=> k <= performed')
      <3>1. SUFFICES ASSUME NEW i \in Id, NEW k \in DOMAIN jobs', jobs'[k].kind \in Creation, i \in jobs'[k].ids
                     PROVE  Made(i)' <=> k <= performed
        BY DEF Serves
      <3>2. CASE k \in DOMAIN jobs
        <4>1. Made(i) <=> k <= performed
          BY <1>1, <1>5, <3>1, <3>2 DEF JobsInv
        <4> QED BY <1>10, <4>1
      <3>3. CASE k \notin DOMAIN jobs
        <4>1. i \in new /\ k = Len(jobs) + 1
          BY <1>5, <1>6, <3>1, <3>3
        <4>2. performed \in 0 .. Len(jobs) /\ Len(jobs) \in Nat
          BY <1>1 DEF TypeOK
        <4> QED BY <1>3, <1>10, <4>1, <4>2
      <3> QED BY <3>2, <3>3
    <2>9. \A i \in Id : i \in NowIds' => Made(i)'
      BY <1>1, <1>7, <1>10 DEF JobsInv
    <2> QED BY <2>1, <2>2, <2>5, <2>6, <2>7, <2>8, <2>9 DEF JobsInv
  <1>12. ASSUME NEW c \in Call, c \notin cb PROVE VectorInv(c)'
    <2>1. Joined(c)' = Joined(c)
      BY <1>12 DEF Joined, Serves
    <2>2. Ordered(c)' = Ordered(c) /\ (Working(c)' <=> Working(c))
      <3>1. \A k \in DOMAIN jobs' : c \in jobs'[k].call => k \in DOMAIN jobs
        BY <1>5, <1>6, <1>12
      <3> QED BY <1>5, <1>7, <3>1 DEF Ordered, Working
    <2>3. Coming(c)' = Coming(c)
      BY <1>7 DEF Coming
    <2>4. Missing(c)' = Missing(c)
      BY <2>1, <2>2, <2>3 DEF Missing
    <2>5. VectorInv(c) /\ retVec'[c] = retVec[c] /\ assets' = assets /\ (ask'[c] = ask[c] \/ Untouched(c))
      BY <1>12 DEF LibraryInv, Serves
    <2>6. vecGiven'[c] = vecGiven[c]
      <3>1. c \notin full
        BY <1>12 DEF Serves
      <3> QED BY <1>9, <3>1
    <2>7. CASE ask'[c] = ask[c]
      BY <1>7, <2>1, <2>2, <2>3, <2>4, <2>5, <2>6, <2>7 DEF VectorInv
    <2>8. CASE Untouched(c)
      <3>1. ~retVec'[c].kept /\ vecGiven'[c] = 0
        BY <2>5, <2>6, <2>8 DEF Untouched
      <3> QED BY <2>1, <2>2, <2>3, <2>4, <2>5, <3>1 DEF VectorInv
    <2> QED BY <2>5, <2>7, <2>8
  <1>13. ASSUME NEW c \in cb PROVE VectorInv(c)'
    <2>0. /\ c \in Call /\ Untouched(c) /\ a[c].all /\ ask' = a /\ assets' = assets
          /\ V = {c} \X a[c].ids
          /\ retVec'[c].got = {i \in a[c].ids : assets[i] # 0}
          /\ retVec'[c].size = Cardinality(retVec'[c].got)
          /\ retVec'[c].kept <=> c \notin full
          /\ c \in full <=> \A i \in a[c].ids : assets[i] # 0
      BY <1>6 DEF Serves
    <2>1. a[c].ids \subseteq Id
      BY <2>0 DEF Serves, Shape
    <2>2. Joined(c)' = {i \in a[c].ids : assets[i] = 0 /\ callbacks[i] # {}}
      <3>1. \A i \in Id : <<c, "all">> \in callbacks'[i] <=> i \in a[c].ids /\ assets[i] = 0 /\ callbacks[i] # {}
        BY <2>0 DEF Serves, Untouched
      <3> QED BY <2>1, <3>1 DEF Joined
    <2>3. Joined(c) = {} /\ ~Working(c) /\ vecGiven[c] = 0
      <3>1. ~retVec[c].kept /\ VectorInv(c) /\ vecGiven[c] = 0
        BY <2>0 DEF LibraryInv, Untouched
      <3> QED BY <3>1 DEF VectorInv, Missing
    <2>4. Coming(c)' = {} /\ c \notin NowCall'
      BY <1>7, <2>3 DEF Coming, Working
    <2>5. Ordered(c)' = new
      <3>1. \A k \in DOMAIN jobs' : c \in jobs'[k].call => jobs'[k].ids = new
        BY <1>5, <1>6, <2>3 DEF Working
      <3>2. new # {} => \E k \in DOMAIN jobs' : c \in jobs'[k].call /\ jobs'[k].ids = new
        BY <1>5, <1>6
      <3> QED BY <1>4, <3>1, <3>2 DEF Ordered
    <2>6. \A i \in a[c].ids : assets[i] = 0 /\ callbacks[i] = {} => i \in new
      BY <2>0, <2>1 DEF Serves
    <2>7. \A i \in Id : i \in new => assets[i] = 0 /\ callbacks[i] = {}
      BY DEF Serves
    <2>8. CASE c \in full
      <3>1. Joined(c)' = {}
        BY <2>0, <2>2, <2>8
      <3>2. new = {}
        <4>1. \A i \in new : i \in a[c].ids
          BY <1>4, <2>0 DEF Serves
        <4> QED BY <1>4, <2>0, <2>7, <2>8, <4>1
      <3>3. Missing(c)' = {}
        BY <2>4, <2>5, <3>1, <3>2 DEF Missing
      <3>4. ~Working(c)'
        BY <1>5, <1>7, <2>3, <3>2 DEF Working
      <3>5. vecGiven'[c] = 1
        BY <1>9, <2>0, <2>3, <2>8
      <3>6. retVec'[c].got = ask'[c].ids /\ ~retVec'[c].kept /\ ask'[c].all
        BY <2>0, <2>8
      <3> QED BY <3>1, <3>3, <3>4, <3>5, <3>6 DEF VectorInv
    <2>9. CASE c \notin full
      <3>1. vecGiven'[c] = 0
        BY <1>9, <2>0, <2>3, <2>9
      <3>2. retVec'[c].kept /\ ask'[c].all
        BY <2>0, <2>9
      <3>3. Joined(c)' \cap (Ordered(c)' \cup Coming(c)') = {}
        BY <2>1, <2>2, <2>4, <2>5, <2>7
      <3>4. new \subseteq a[c].ids
        BY <1>4, <2>0 DEF Serves
      <3>5. Missing(c)' = {i \in a[c].ids : assets[i] = 0}
        <4>1. Missing(c)' = Joined(c)' \cup new
          BY <2>4, <2>5 DEF Missing
        <4>2. \A i \in new : i \in a[c].ids /\ assets[i] = 0
          BY <1>4, <2>7, <3>4
        <4>3. \A i \in a[c].ids : assets[i] = 0 => i \in Joined(c)' \/ i \in new
          BY <2>2, <2>6
        <4> QED BY <2>2, <4>1, <4>2, <4>3
      <3>6. retVec'[c].got \cap Missing(c)' = {} /\ retVec'[c].got \cup Missing(c)' = ask'[c].ids
        BY <2>0, <3>5
      <3>7. Missing(c)' # {}
        BY <2>0, <2>9, <3>5
      <3>8. \A i \in retVec'[c].got : assets'[i] = 1
        BY <1>2, <2>0, <2>1
      <3> QED BY <2>0, <3>1, <3>2, <3>3, <3>6, <3>7, <3>8 DEF VectorInv
    <2> QED BY <2>8, <2>9
  <1>14. ASSUME NEW c \in Call, Untouched(c), c \notin cb, \A i \in Id : <<c, i>> \notin V
         PROVE  Untouched(c)'
    <2>1. c \notin full /\ \A i \in Id : <<c, i>> \notin own
      BY <1>14 DEF Serves
    <2>2. vecGiven'[c] = 0 /\ \A i \in Id : given'[c][i] = 0
      BY <1>9, <1>14, <2>1 DEF Untouched
    <2>3. retVec'[c] = retVec[c]
      BY <1>14 DEF Serves
    <2>4. \A i \in Id : <<c, "own">> \notin callbacks'[i] /\ <<c, "all">> \notin callbacks'[i]
      BY <1>14 DEF Serves, Untouched
    <2> QED BY <1>14, <2>2, <2>3, <2>4 DEF Untouched
  <1>15. ASSUME NEW c \in Call, NEW i \in Id
         PROVE  /\ given'[c][i] <= (IF ask'[c].own /\ i \in ask'[c].ids THEN 1 ELSE 0)
                /\ <<c, "own">> \in callbacks'[i] => given'[c][i] = 0 /\ i \in ask'[c].ids
                /\ <<c, i>> \notin V => /\ given'[c][i] = given[c][i]
                                        /\ <<c, "own">> \in callbacks'[i] <=> <<c, "own">> \in callbacks[i]
    <2>1. /\ given[c][i] <= (IF ask[c].own /\ i \in ask[c].ids THEN 1 ELSE 0)
          /\ <<c, "own">> \in callbacks[i] => given[c][i] = 0 /\ i \in ask[c].ids
      BY DEF LibraryInv, CallInv
    <2>2. /\ <<c, i>> \in V => given[c][i] = 0 /\ <<c, "own">> \notin callbacks[i] /\ i \in a[c].ids
          /\ <<c, i>> \in own <=> <<c, i>> \in V /\ assets[i] # 0 /\ a[c].own
          /\ <<c, "own">> \in callbacks'[i] <=> <<c, "own">> \in callbacks[i] \/ (<<c, i>> \in V /\ assets[i] = 0)
          /\ (a[c] = ask[c] \/ Untouched(c)) /\ ask' = a
      BY DEF Serves
    <2>3. given'[c][i] = IF <<c, i>> \in own THEN given[c][i] + 1 ELSE given[c][i]
      BY <1>9
    <2>4. given'[c][i] <= (IF ask'[c].own /\ i \in ask'[c].ids THEN 1 ELSE 0)
      <3>1. CASE <<c, i>> \in own
        BY <2>2, <2>3, <3>1
      <3>2. CASE <<c, i>> \notin own /\ a[c] = ask[c]
        BY <2>1, <2>2, <2>3, <3>2
      <3>3. CASE <<c, i>> \notin own /\ Untouched(c)
        <4>1. given'[c][i] = 0
          BY <2>3, <3>3 DEF Untouched
        <4> QED BY <4>1
      <3> QED BY <2>2, <3>1, <3>2, <3>3
    <2>5. <<c, "own">> \in callbacks'[i] => given'[c][i] = 0 /\ i \in ask'[c].ids
      <3>1. SUFFICES ASSUME <<c, "own">> \in callbacks'[i] PROVE given'[c][i] = 0 /\ i \in a[c].ids
        BY <2>2
      <3>2. CASE <<c, i>> \in V /\ assets[i] = 0
        BY <2>2, <2>3, <3>2
      <3>3. CASE <<c, "own">> \in callbacks[i]
        <4>1. a[c] = ask[c]
          BY <2>2, <3>3 DEF Untouched
        <4> QED BY <2>1, <2>2, <2>3, <3>3, <4>1
      <3> QED BY <2>2, <3>1, <3>2, <3>3
    <2> QED BY <2>2, <2>3, <2>4, <2>5
  <1>16. \A k \in DOMAIN jobs' : k \in DOMAIN jobs \/ jobs'[k].kind \in Creation
    BY <1>5, <1>6
  <1>17. performed' = performed
    BY DEF Serves
  <1>18. \A c \in Call : VectorInv(c)'
    BY <1>12, <1>13
  <1> QED BY <1>5, <1>9, <1>10, <1>11, <1>14, <1>15, <1>16, <1>17, <1>18 DEF ServedInv

(* The requests of V may be served, cb is the call whose vector they fill.  *)
Servable(a, V, cb) ==
    /\ a \in [Call -> Shape] /\ ask' = a /\ V \subseteq Call \X Id /\ cb \subseteq Call
    /\ \A c \in Call : a[c] = ask[c] \/ Untouched(c)
    /\ \A c \in Call, i \in Id : <<c, i>> \in V =>
           given[c][i] = 0 /\ <<c, "own">> \notin callbacks[i] /\ i \in a[c].ids
    /\ \A c \in cb : Untouched(c) /\ a[c].all /\ V = {c} \X a[c].ids

(* The body of getAssets serves its requests.                               *)
LEMMA RequestedStep ==
    ASSUME LibraryInv, loaded, NEW a, NEW V, NEW cb, Servable(a, V, cb), Requested(a, V, cb),
           NowIds' = NowIds, NowCall' = NowCall,
           UNCHANGED <<assets, loaded, downloads, performed, rows, fault>>
    PROVE  /\ ServedInv(V, cb)
           /\ callbacks' \in [Id -> SUBSET (Call \X {"own", "all"})]
           /\ retVec' \in [Call -> [kept : BOOLEAN, got : SUBSET Id, size : Nat]]
  <1> DEFINE ready  == {v \in V : assets[v[2]] # 0}
             joined == {v \in V \ ready : Waiting(v[2])}
             new    == {v[2] : v \in V \ (ready \cup joined)}
             vec    == [c \in Call |->
                          IF c \in cb THEN [kept |-> TRUE, got |-> {v[2] : v \in ready}, size |-> Cardinality(ready)]
                          ELSE retVec[c]]
             full   == {c \in cb : new = {} /\ Full(a, vec, c)}
             own    == {v \in ready : a[v[1]].own}
             job    == Many(cb, new)
  <1>1. TypeOK
    BY DEF LibraryInv
  <1>0. /\ a \in [Call -> Shape] /\ ask' = a /\ V \subseteq Call \X Id /\ cb \subseteq Call
        /\ \A c \in Call : a[c] = ask[c] \/ Untouched(c)
        /\ \A c \in Call, i \in Id : <<c, i>> \in V =>
               given[c][i] = 0 /\ <<c, "own">> \notin callbacks[i] /\ i \in a[c].ids
        /\ \A c \in cb : Untouched(c) /\ a[c].all /\ V = {c} \X a[c].ids
    BY DEF Servable
  <1> USE <1>0
  <1>2. /\ callbacks' = [i \in Id |-> callbacks[i]
                            \cup {<<v[1], "own">> : v \in {w \in V \ ready : w[2] = i}}
                            \cup Lambdas(cb, joined, i)]
        /\ retVec' = Deleted(vec, full)
        /\ Give(a, own, full)
        /\ objects' = Retained(assets)
        /\ jobs' = IF new = {} THEN jobs ELSE Append(jobs, job)
    BY DEF Requested
  <1>3. new \subseteq Id /\ full \subseteq Call /\ own \subseteq Call \X Id
    OBVIOUS
  <1>4. job \in Jobs /\ job.kind \in Creation /\ job.call = cb /\ job.ids = new
    BY <1>3 DEF Many, Nothing, Jobs, Creation
  <1>5. \A c \in Call, i \in Id : <<c, i>> \in own <=> <<c, i>> \in V /\ assets[i] # 0 /\ a[c].own
    OBVIOUS
  <1>6. \A i \in Id : i \in new <=>
           assets[i] = 0 /\ callbacks[i] = {} /\ \E c \in Call : <<c, i>> \in V
    <2>1. SUFFICES ASSUME NEW i \in Id
                   PROVE  i \in new <=> assets[i] = 0 /\ callbacks[i] = {} /\ \E c \in Call : <<c, i>> \in V
      OBVIOUS
    <2>2. i \in new => assets[i] = 0 /\ callbacks[i] = {} /\ \E c \in Call : <<c, i>> \in V
      BY DEF Waiting
    <2>3. ASSUME NEW c \in Call, <<c, i>> \in V, assets[i] = 0, callbacks[i] = {} PROVE i \in new
      <3>1. <<c, i>> \in V \ (ready \cup joined)
        BY <2>3 DEF Waiting
      <3> QED BY <3>1
    <2> QED BY <2>2, <2>3
  <1>7. ASSUME NEW c \in Call, NEW i \in Id
        PROVE  /\ <<c, "own">> \in callbacks'[i] <=>
                      <<c, "own">> \in callbacks[i] \/ (<<c, i>> \in V /\ assets[i] = 0)
               /\ <<c, "all">> \in callbacks'[i] <=>
                      \/ <<c, "all">> \in callbacks[i]
                      \/ c \in cb /\ <<c, i>> \in V /\ assets[i] = 0 /\ callbacks[i] # {}
    <2> DEFINE mine == {<<v[1], "own">> : v \in {w \in V \ ready : w[2] = i}}
    <2>1. callbacks'[i] = callbacks[i] \cup mine \cup Lambdas(cb, joined, i)
      BY <1>2
    <2>2. <<c, "own">> \in mine <=> <<c, i>> \in V /\ assets[i] = 0
      <3>1. <<c, "own">> \in mine => <<c, i>> \in V /\ assets[i] = 0
        OBVIOUS
      <3>2. <<c, i>> \in V /\ assets[i] = 0 => <<c, i>> \in {w \in V \ ready : w[2] = i}
        OBVIOUS
      <3> QED BY <3>1, <3>2
    <2>3. <<c, "all">> \notin mine
      OBVIOUS
    <2>4. <<c, "own">> \notin Lambdas(cb, joined, i)
      BY DEF Lambdas
    <2>5. <<c, "all">> \in Lambdas(cb, joined, i) <=> c \in cb /\ <<c, i>> \in joined
      BY DEF Lambdas
    <2>6. <<c, i>> \in joined <=> <<c, i>> \in V /\ assets[i] = 0 /\ callbacks[i] # {}
      BY DEF Waiting
    <2> HIDE DEF mine, joined
    <2> QED BY <2>1, <2>2, <2>3, <2>4, <2>5, <2>6
  <1>8. callbacks' \in [Id -> SUBSET (Call \X {"own", "all"})]
    <2>1. callbacks \in [Id -> SUBSET (Call \X {"own", "all"})]
      BY <1>1 DEF TypeOK
    <2>2. ASSUME NEW i \in Id PROVE callbacks'[i] \subseteq Call \X {"own", "all"}
      <3>1. Lambdas(cb, joined, i) \subseteq Call \X {"own", "all"}
        <4> HIDE DEF joined
        <4>1. \A x \in Lambdas(cb, joined, i) : \E d \in cb : x = <<d, "all">>
          BY DEF Lambdas
        <4> QED BY <4>1
      <3>2. {<<v[1], "own">> : v \in {w \in V \ ready : w[2] = i}} \subseteq Call \X {"own", "all"}
        OBVIOUS
      <3> QED BY <1>2, <2>1, <3>1, <3>2
    <2>3. callbacks' = [i \in Id |-> callbacks'[i]]
      BY <1>2
    <2> QED BY <2>2, <2>3
  <1>9. Cardinality(ready) \in Nat /\ {v[2] : v \in ready} \subseteq Id
    <2>1. ready \subseteq Call \X Id
      OBVIOUS
    <2> QED BY <2>1, PairsFinite
  <1>10. vec \in [Call -> [kept : BOOLEAN, got : SUBSET Id, size : Nat]]
    <2>1. \A c \in Call : vec[c] \in [kept : BOOLEAN, got : SUBSET Id, size : Nat]
      BY <1>1, <1>9 DEF TypeOK
    <2> QED BY <2>1
  <1>11. /\ retVec' \in [Call -> [kept : BOOLEAN, got : SUBSET Id, size : Nat]]
         /\ \A c \in Call : /\ retVec'[c].got = vec[c].got /\ retVec'[c].size = vec[c].size
                            /\ retVec'[c].kept = (vec[c].kept /\ c \notin full)
    <2> HIDE DEF vec, full
    <2> QED BY <1>2, <1>10, DeletedVectors
  <1>12. \A c \in Call : c \notin cb => retVec'[c] = retVec[c]
    <2>1. \A c \in Call : c \notin cb => retVec'[c] = vec[c]
      BY <1>2 DEF Deleted
    <2> QED BY <2>1
  <1>13. ASSUME NEW c \in cb
         PROVE  /\ retVec'[c].got = {i \in a[c].ids : assets[i] # 0}
                /\ retVec'[c].size = Cardinality(retVec'[c].got)
                /\ retVec'[c].kept <=> c \notin full
                /\ c \in full <=> \A i \in a[c].ids : assets[i] # 0
    <2> DEFINE R == {i \in a[c].ids : assets[i] # 0}
    <2>1. V = {c} \X a[c].ids /\ a[c].ids \subseteq Id
      BY DEF Shape
    <2>2. ready = {c} \X R
      BY <2>1
    <2>3. {v[2] : v \in ready} = R
      <3>1. \A x \in R : <<c, x>> \in ready /\ <<c, x>>[2] = x
        BY <2>2
      <3>2. \A v \in ready : v[2] \in R
        BY <2>2
      <3> HIDE DEF ready, R
      <3>3. ASSUME NEW x \in R PROVE x \in {v[2] : v \in ready}
        <4>1. PICK v \in ready : v[2] = x
          BY <3>1, <3>3
        <4> QED BY <4>1
      <3>4. ASSUME NEW x \in {v[2] : v \in ready} PROVE x \in R
        BY <3>2, <3>4
      <3> QED BY <3>3, <3>4
    <2>4. Cardinality(ready) = Cardinality(R)
      <3>1. R \subseteq Id
        BY <2>1
      <3> HIDE DEF R, ready
      <3> QED BY <2>2, <3>1, PairsCount
    <2>5. vec[c] = [kept |-> TRUE, got |-> R, size |-> Cardinality(R)]
      BY <2>3, <2>4
    <2>6. Full(a, vec, c) <=> R = a[c].ids
      <3>1. R \subseteq a[c].ids
        OBVIOUS
      <3>2. vec[c].size = Cardinality(R)
        BY <2>5
      <3> HIDE DEF R, vec
      <3> QED BY <2>1, <3>1, <3>2, FillsAll DEF Full
    <2>7. R = a[c].ids => new = {}
      BY <2>1, <2>2
    <2>8. R = a[c].ids <=> \A i \in a[c].ids : assets[i] # 0
      OBVIOUS
    <2>9. c \in full <=> R = a[c].ids
      <3> HIDE DEF R, vec, new
      <3> QED BY <2>6, <2>7
    <2>10. vec[c].got = R /\ vec[c].size = Cardinality(R) /\ vec[c].kept = TRUE
      BY <2>5
    <2> HIDE DEF vec, full
    <2> QED BY <1>11, <2>8, <2>9, <2>10
  <1>14. \A c \in Call : c \in full <=> c \in cb /\ \A i \in a[c].ids : assets[i] # 0
    <2>1. \A c \in full : c \in cb
      OBVIOUS
    <2> HIDE DEF full
    <2> QED BY <1>13, <2>1
  <1>15. objects' = Retained(assets')
    BY <1>2
  <1> HIDE DEF ready, joined, new, vec, full, own, job
  <1>16. Serves(a, V, cb, own, full, new, job)
    BY <1>2, <1>3, <1>4, <1>5, <1>6, <1>7, <1>8, <1>11, <1>12, <1>13, <1>14, <1>15 DEF Serves
  <1> QED BY <1>8, <1>11, <1>16, ServeStep

(* Requests that were made before the library has loaded.                   *)
LEMMA RequestsStep ==
    ASSUME LibraryInv, ServeRequests
    PROVE  LibraryInv'
  <1> DEFINE none == {}
  <1>1. TypeOK /\ StartInv /\ JobsInv /\ ~fault /\ \A c \in Call : CallInv(c)
    BY DEF LibraryInv
  <1>2. /\ now.kind = "init" /\ Requested(ask, tmpRequests, none)
        /\ now' = IF tmpMultiRequest = <<>> THEN Nothing ELSE [now EXCEPT !.kind = "multi"]
        /\ UNCHANGED <<tmpMultiRequest, loaded, tmpRequests, assets, downloads, performed, ask, rows, fault>>
        /\ inside' \in BOOLEAN
    BY DEF ServeRequests, Served, Inside
  <1>3. loaded
    <2>1. now # Nothing
      BY <1>2 DEF Nothing
    <2> QED BY <1>1, <2>1 DEF StartInv
  <1>4. /\ now' \in Jobs /\ now'.kind # "init"
        /\ NowIds = {} /\ NowIds' = {} /\ NowCall = {} /\ NowCall' = {}
        /\ now'.kind = "multi" <=> tmpMultiRequest # <<>>
    <2>1. now \in Jobs
      BY <1>1 DEF TypeOK
    <2>2. CASE tmpMultiRequest = <<>>
      <3>1. now' = Nothing
        BY <1>2, <2>2
      <3> QED BY <1>2, <2>2, <3>1 DEF NowIds, NowCall, Nothing, Creation, Jobs
    <2>3. CASE tmpMultiRequest # <<>>
      <3>1. now' = [now EXCEPT !.kind = "multi"]
        BY <1>2, <2>3
      <3>2. now' \in Jobs /\ now'.kind = "multi"
        BY <2>1, <3>1 DEF Jobs
      <3> QED BY <1>2, <2>3, <3>2 DEF NowIds, NowCall, Creation
    <2> QED BY <2>2, <2>3
  <1>5. \A c \in Call, i \in Id : <<c, i>> \in tmpRequests =>
             /\ given[c][i] = 0 /\ <<c, "own">> \notin callbacks[i] /\ i \in ask[c].ids
             /\ ~Waits(c) /\ Asked(c)
    <2>1. \A c \in Call, i \in Id : <<c, i>> \in tmpRequests =>
             given[c][i] = 0 /\ <<c, "own">> \notin callbacks[i] /\ i \in ask[c].ids /\ ~Waits(c)
      BY <1>1, <1>2 DEF CallInv
    <2>2. \A c \in Call, i \in Id : i \in ask[c].ids => Asked(c)
      BY DEF Asked, NotAsked
    <2> QED BY <2>1, <2>2
  <1>6. ServedInv(tmpRequests, none) /\ callbacks' \in [Id -> SUBSET (Call \X {"own", "all"})]
        /\ retVec' \in [Call -> [kept : BOOLEAN, got : SUBSET Id, size : Nat]]
    <2> DEFINE a == ask
    <2>1. /\ a \in [Call -> Shape] /\ ask' = a /\ tmpRequests \subseteq Call \X Id
          /\ Requested(a, tmpRequests, none) /\ \A c \in Call : a[c] = ask[c] \/ Untouched(c)
      BY <1>1, <1>2 DEF TypeOK
    <2>2. none \subseteq Call /\ \A c \in none : Untouched(c) /\ a[c].all /\ tmpRequests = {c} \X a[c].ids
      OBVIOUS
    <2>3. NowIds' = NowIds /\ NowCall' = NowCall
      BY <1>4
    <2>4. UNCHANGED <<assets, loaded, downloads, performed, rows, fault>>
      BY <1>2
    <2>5. \A c \in Call, i \in Id : <<c, i>> \in tmpRequests =>
             given[c][i] = 0 /\ <<c, "own">> \notin callbacks[i] /\ i \in a[c].ids
      BY <1>5
    <2> HIDE DEF none, a
    <2>6. Servable(a, tmpRequests, none)
      BY <2>1, <2>2, <2>5 DEF Servable
    <2> QED BY <1>3, <2>1, <2>3, <2>4, <2>6, RequestedStep
  <1>7. TypeOK'
    BY <1>1, <1>2, <1>4, <1>6 DEF TypeOK, ServedInv
  <1>8. StartInv'
    BY <1>1, <1>2, <1>3, <1>4, <1>6 DEF StartInv, ServedInv
  <1>9. ASSUME NEW c \in Call PROVE CallInv(c)'
    <2>1. CallInv(c) /\ UNCHANGED <<tmpMultiRequest, ask>> /\ loaded' /\ now'.kind # "init"
      BY <1>1, <1>2, <1>3, <1>4
    <2>2. (Waits(c)' <=> Waits(c)) /\ (Asked(c)' <=> Asked(c))
      BY <2>1 DEF Waits, Asked
    <2>3. ~Asked(c) \/ Waits(c) => Untouched(c)'
      BY <1>5, <1>6, <2>1 DEF ServedInv, CallInv
    <2> QED BY <1>6, <2>1, <2>2, <2>3 DEF CallInv, ServedInv
  <1>10. OnceInv'
    BY <1>2 DEF LibraryInv, OnceInv
  <1> QED BY <1>1, <1>2, <1>6, <1>7, <1>8, <1>9, <1>10 DEF LibraryInv, ServedInv

(* The first request for several assets from before the load is served.     *)
LEMMA MultiStep ==
    ASSUME LibraryInv, ServeMulti
    PROVE  LibraryInv'
  <1> DEFINE c == tmpMultiRequest[1]
             V == {c} \X ask[c].ids
             cb == {c}
  <1>1. TypeOK /\ StartInv /\ JobsInv /\ ~fault /\ OnceInv /\ \A d \in Call : CallInv(d)
    BY DEF LibraryInv
  <1>2. tmpMultiRequest \in Seq(Call) /\ Len(tmpMultiRequest) \in Nat /\ tmpMultiRequest # <<>> /\ now.kind = "multi"
    BY <1>1 DEF TypeOK, StartInv, ServeMulti
  <1>3. /\ 1 \in DOMAIN tmpMultiRequest /\ Head(tmpMultiRequest) = c /\ c \in Call
        /\ Tail(tmpMultiRequest) \in Seq(Call) /\ Len(Tail(tmpMultiRequest)) = Len(tmpMultiRequest) - 1
        /\ \A k \in DOMAIN Tail(tmpMultiRequest) :
               k + 1 \in DOMAIN tmpMultiRequest /\ k + 1 # 1 /\ Tail(tmpMultiRequest)[k] = tmpMultiRequest[k + 1]
    <2> DEFINE s == tmpMultiRequest
    <2>1. s \in Seq(Call) /\ s # <<>> /\ Len(s) \in Nat /\ Len(s) > 0 /\ DOMAIN s = 1 .. Len(s)
      BY <1>2
    <2> HIDE DEF s
    <2>2. Head(s) = s[1] /\ s[1] \in Call /\ Tail(s) \in Seq(Call) /\ Len(Tail(s)) = Len(s) - 1
      BY <2>1
    <2>3. DOMAIN Tail(s) = 1 .. Len(s) - 1
      BY <2>1, <2>2
    <2>4. \A k \in DOMAIN Tail(s) : k + 1 \in DOMAIN s /\ k + 1 # 1
      BY <2>1, <2>3
    <2>5. \A k \in DOMAIN Tail(s) : Tail(s)[k] = s[k + 1]
      BY <2>1, <2>3
    <2> QED BY <2>1, <2>2, <2>4, <2>5 DEF s
  <1>4. /\ Requested(ask, V, cb)
        /\ tmpMultiRequest' = Tail(tmpMultiRequest)
        /\ now' = IF Len(tmpMultiRequest) = 1 THEN Nothing ELSE now
        /\ UNCHANGED <<loaded, tmpRequests, assets, downloads, performed, ask, rows, fault>>
        /\ inside' \in BOOLEAN
    BY <1>3 DEF ServeMulti, Served, Inside
  <1>5. loaded
    <2>1. now # Nothing
      BY <1>2 DEF Nothing
    <2> QED BY <1>1, <2>1 DEF StartInv
  <1>6. /\ now' \in Jobs /\ now'.kind # "init"
        /\ NowIds = {} /\ NowIds' = {} /\ NowCall = {} /\ NowCall' = {}
        /\ now'.kind = "multi" <=> Len(tmpMultiRequest) # 1
    <2>1. now \in Jobs
      BY <1>1 DEF TypeOK
    <2>2. CASE Len(tmpMultiRequest) = 1
      <3>1. now' = Nothing
        BY <1>4, <2>2
      <3> QED BY <1>2, <2>2, <3>1 DEF NowIds, NowCall, Nothing, Creation, Jobs
    <2>3. CASE Len(tmpMultiRequest) # 1
      <3>1. now' = now
        BY <1>4, <2>3
      <3> QED BY <1>2, <2>1, <2>3, <3>1 DEF NowIds, NowCall, Creation
    <2> QED BY <2>2, <2>3
  <1>7. Waits(c) /\ Untouched(c) /\ ask[c].all
    <2>1. Waits(c)
      BY <1>3 DEF Waits
    <2> HIDE DEF c
    <2> QED BY <1>1, <1>3, <2>1 DEF CallInv
  <1>8. ServedInv(V, cb) /\ callbacks' \in [Id -> SUBSET (Call \X {"own", "all"})]
        /\ retVec' \in [Call -> [kept : BOOLEAN, got : SUBSET Id, size : Nat]]
    <2> DEFINE a == ask
    <2>1. /\ a \in [Call -> Shape] /\ ask' = a
          /\ Requested(a, V, cb) /\ \A d \in Call : a[d] = ask[d] \/ Untouched(d)
      BY <1>1, <1>4 DEF TypeOK
    <2>2. V \subseteq Call \X Id /\ cb \subseteq Call
      <3>1. ask[c].ids \subseteq Id
        BY <1>3, <2>1 DEF Shape
      <3> QED BY <1>3, <3>1
    <2>3. \A d \in cb : Untouched(d) /\ a[d].all /\ V = {d} \X a[d].ids
      BY <1>7
    <2>4. NowIds' = NowIds /\ NowCall' = NowCall
      BY <1>6
    <2>5. UNCHANGED <<assets, loaded, downloads, performed, rows, fault>>
      BY <1>4
    <2>6. \A d \in Call, i \in Id : <<d, i>> \in V =>
               given[d][i] = 0 /\ <<d, "own">> \notin callbacks[i] /\ i \in a[d].ids
      <3>1. \A i \in Id : given[c][i] = 0 /\ <<c, "own">> \notin callbacks[i]
        BY <1>7 DEF Untouched
      <3> QED BY <3>1
    <2> HIDE DEF V, cb, a
    <2>7. Servable(a, V, cb)
      BY <2>1, <2>2, <2>3, <2>6 DEF Servable
    <2> QED BY <1>5, <2>1, <2>4, <2>5, <2>7, RequestedStep
  <1>9. TypeOK'
    BY <1>1, <1>3, <1>4, <1>6, <1>8 DEF TypeOK, ServedInv
  <1>10. StartInv'
    <2>1. tmpMultiRequest' # <<>> <=> Len(tmpMultiRequest) # 1
      <3>1. Tail(tmpMultiRequest) # <<>> <=> Len(Tail(tmpMultiRequest)) # 0
        BY <1>3, EmptySeq
      <3> QED BY <1>2, <1>3, <1>4, <3>1
    <2> QED BY <1>1, <1>4, <1>5, <1>6, <1>8, <2>1 DEF StartInv, ServedInv
  <1>11. \A d \in Call : Waits(d)' => Waits(d) /\ d # c
    <2>1. SUFFICES ASSUME NEW d \in Call, NEW k \in DOMAIN Tail(tmpMultiRequest), Tail(tmpMultiRequest)[k] = d
                   PROVE  Waits(d) /\ d # c
      BY <1>4 DEF Waits
    <2>2. k + 1 \in DOMAIN tmpMultiRequest /\ k + 1 # 1 /\ tmpMultiRequest[k + 1] = d
      BY <1>3, <2>1
    <2> QED BY <1>1, <1>3, <2>2 DEF Waits, OnceInv
  <1>12. ASSUME NEW d \in Call PROVE CallInv(d)'
    <2>1. CallInv(d) /\ ask' = ask /\ loaded' /\ now'.kind # "init"
      BY <1>1, <1>4, <1>5, <1>6
    <2>2. Asked(d)' <=> Asked(d)
      BY <2>1 DEF Asked
    <2>3. Asked(c)
      BY <1>7 DEF Asked, NotAsked
    <2>4. (~Asked(d) \/ Waits(d)') => Untouched(d)'
      <3>1. ~Asked(d) \/ Waits(d)' => d # c /\ Untouched(d)
        BY <1>11, <2>1, <2>3 DEF CallInv
      <3>2. d # c => d \notin cb /\ \A i \in Id : <<d, i>> \notin V
        OBVIOUS
      <3> HIDE DEF c, V, cb
      <3> QED BY <1>8, <3>1, <3>2 DEF ServedInv
    <2>5. Waits(d)' => ask'[d].all
      BY <1>11, <2>1 DEF CallInv
    <2> HIDE DEF c, V, cb
    <2> QED BY <1>8, <2>1, <2>2, <2>4, <2>5 DEF CallInv, ServedInv
  <1>13. OnceInv'
    <2>1. SUFFICES ASSUME NEW k \in DOMAIN Tail(tmpMultiRequest), NEW l \in DOMAIN Tail(tmpMultiRequest),
                          Tail(tmpMultiRequest)[k] = Tail(tmpMultiRequest)[l]
                   PROVE  k = l
      BY <1>4 DEF OnceInv
    <2>2. k + 1 = l + 1
      BY <1>1, <1>3, <2>1 DEF OnceInv
    <2>3. k \in Int /\ l \in Int
      BY <1>3
    <2> QED BY <2>2, <2>3
  <1> HIDE DEF c, V, cb
  <1> QED BY <1>1, <1>4, <1>8, <1>9, <1>10, <1>12, <1>13 DEF LibraryInv, ServedInv

(* A call that asks now was not heard of before.                            *)
LEMMA NotHeardOf ==
    ASSUME LibraryInv, NEW c \in Call, ~Asked(c)
    PROVE  /\ Untouched(c) /\ ~Waits(c) /\ ask[c].ids = {}
           /\ \A i \in Id : <<c, i>> \in tmpRequests => loaded /\ now.kind # "init"
  <1>1. CallInv(c) /\ ask[c] = NotAsked
    BY DEF LibraryInv, Asked
  <1>2. ask[c].ids = {} /\ ask[c].all = FALSE
    BY <1>1 DEF NotAsked
  <1> QED BY <1>1, <1>2 DEF CallInv

(* The requests of a call that asks now are served at once.                 *)
LEMMA AskedStep ==
    ASSUME LibraryInv, loaded, NEW c \in Call, ~Asked(c), NEW shape \in Shape, shape # NotAsked,
           ask' = [ask EXCEPT ![c] = shape], NEW V, V = {c} \X shape.ids, NEW cb, cb \subseteq {c},
           ServedInv(V, cb), callbacks' \in [Id -> SUBSET (Call \X {"own", "all"})],
           retVec' \in [Call -> [kept : BOOLEAN, got : SUBSET Id, size : Nat]],
           UNCHANGED <<loaded, tmpRequests, tmpMultiRequest, assets, downloads, performed, now,
                       inside, rows, fault>>
    PROVE  LibraryInv'
  <1>1. TypeOK /\ StartInv /\ JobsInv /\ ~fault /\ OnceInv /\ \A d \in Call : CallInv(d)
    BY DEF LibraryInv
  <1>2. ask' \in [Call -> Shape] /\ ask'[c] = shape /\ \A d \in Call : d # c => ask'[d] = ask[d]
    BY <1>1 DEF TypeOK
  <1>3. TypeOK'
    BY <1>1, <1>2 DEF TypeOK, ServedInv
  <1>4. StartInv'
    BY <1>1 DEF StartInv, ServedInv
  <1>5. ASSUME NEW d \in Call PROVE CallInv(d)'
    <2>1. CallInv(d) /\ (Waits(d)' <=> Waits(d))
      BY <1>1 DEF Waits
    <2>2. CASE d = c
      <3>1. Asked(d)' /\ ~Waits(d)' /\ \A i \in Id : <<c, i>> \in tmpRequests => loaded /\ now.kind # "init"
        BY <1>2, <2>1, <2>2, NotHeardOf DEF Asked
      <3> QED BY <2>2, <3>1 DEF CallInv, ServedInv
    <2>3. CASE d # c
      <3>1. d \notin cb /\ ask'[d] = ask[d] /\ \A i \in Id : <<d, i>> \notin V
        BY <1>2, <2>3
      <3>2. (Asked(d)' <=> Asked(d)) /\ (Untouched(d) => Untouched(d)')
        BY <3>1 DEF Asked, ServedInv
      <3>3. \A i \in Id :
               /\ given'[d][i] = given[d][i]
               /\ <<d, "own">> \in callbacks'[i] <=> <<d, "own">> \in callbacks[i]
        BY <3>1 DEF ServedInv
      <3>4. UNCHANGED <<loaded, now, tmpRequests>>
        OBVIOUS
      <3> QED BY <2>1, <3>1, <3>2, <3>3, <3>4 DEF CallInv
    <2> QED BY <2>2, <2>3
  <1>6. OnceInv'
    BY <1>1 DEF OnceInv
  <1> QED BY <1>1, <1>3, <1>4, <1>5, <1>6 DEF LibraryInv, ServedInv

(* They wait until the library has loaded.                                  *)
LEMMA LaterStep ==
    ASSUME LibraryInv, ~loaded, NEW c \in Call, ~Asked(c), NEW shape \in Shape, shape # NotAsked,
           ask' = [ask EXCEPT ![c] = shape],
           tmpRequests' = IF shape.all THEN tmpRequests ELSE tmpRequests \cup ({c} \X shape.ids),
           tmpMultiRequest' = IF shape.all THEN Append(tmpMultiRequest, c) ELSE tmpMultiRequest,
           UNCHANGED <<loaded, assets, downloads, callbacks, objects, threads, retVec, given,
                       vecGiven, held, rows, fault>>
    PROVE  LibraryInv'
  <1> USE DEF threads
  <1>1. /\ TypeOK /\ StartInv /\ JobsInv /\ ~fault /\ OnceInv /\ \A d \in Call : CallInv(d)
        /\ \A d \in Call : VectorInv(d)
    BY DEF LibraryInv
  <1>2. ask' \in [Call -> Shape] /\ ask'[c] = shape /\ \A d \in Call : d # c => ask'[d] = ask[d]
    BY <1>1 DEF TypeOK
  <1>3. Untouched(c) /\ ~Waits(c) /\ now = Nothing
    BY <1>1, NotHeardOf DEF StartInv
  <1>4. tmpMultiRequest \in Seq(Call) /\ Len(tmpMultiRequest) \in Nat
    BY <1>1 DEF TypeOK
  <1>5. /\ tmpMultiRequest' \in Seq(Call)
        /\ \A k \in DOMAIN tmpMultiRequest' :
              \/ k \in DOMAIN tmpMultiRequest /\ tmpMultiRequest'[k] = tmpMultiRequest[k]
              \/ shape.all /\ k = Len(tmpMultiRequest) + 1 /\ tmpMultiRequest'[k] = c
    <2>1. CASE shape.all
      <3> DEFINE s == tmpMultiRequest
                 t == Append(s, c)
      <3>1. s \in Seq(Call) /\ Len(s) \in Nat /\ DOMAIN s = 1 .. Len(s) /\ tmpMultiRequest' = t
        BY <1>4, <2>1
      <3> HIDE DEF s
      <3>2. t \in Seq(Call) /\ Len(t) = Len(s) + 1
        BY <3>1
      <3>3. DOMAIN t = 1 .. Len(s) + 1
        BY <3>1, <3>2
      <3>4. t[Len(s) + 1] = c /\ \A k \in DOMAIN s : t[k] = s[k]
        BY <3>1
      <3>5. \A k \in DOMAIN t : k \in DOMAIN s \/ k = Len(s) + 1
        BY <3>1, <3>3
      <3> HIDE DEF t
      <3> QED BY <2>1, <3>1, <3>2, <3>4, <3>5 DEF s
    <2>2. CASE ~shape.all
      BY <1>4, <2>2
    <2> QED BY <2>1, <2>2
  <1>6. shape.ids \subseteq Id /\ tmpRequests' \subseteq Call \X Id
    <2>1. shape.ids \subseteq Id
      BY DEF Shape
    <2> QED BY <1>1, <2>1 DEF TypeOK
  <1>7. TypeOK'
    BY <1>1, <1>2, <1>5, <1>6 DEF TypeOK
  <1>8. StartInv'
    <2>1. \A i \in Id : Made(i)' <=> Made(i)
      BY DEF Made
    <2> QED BY <1>1, <1>3, <2>1 DEF StartInv, Nothing
  <1>9. JobsInv'
    BY <1>1, JobsKept DEF Made
  <1>10. \A i \in Id : ObjectInv(i)'
    <2>1. \A i \in Id : (Pending(i)' <=> Pending(i)) /\ (Made(i)' <=> Made(i)) /\ Holders(i)' = Holders(i)
      BY PendingKept DEF Made, Holders
    <2> QED BY <2>1 DEF LibraryInv, ObjectInv
  <1>11. ASSUME NEW d \in Call PROVE VectorInv(d)'
    <2>1. /\ Joined(d)' = Joined(d) /\ Ordered(d)' = Ordered(d) /\ Coming(d)' = Coming(d)
          /\ (Working(d)' <=> Working(d)) /\ NowCall' = NowCall
      BY DEF Joined, Ordered, Coming, Working, NowCall, NowIds
    <2>2. Missing(d)' = Missing(d)
      BY <2>1 DEF Missing
    <2>3. VectorInv(d) /\ UNCHANGED <<retVec, vecGiven, assets>>
      BY <1>1
    <2>4. CASE d = c
      <3>1. ~retVec[d].kept /\ vecGiven[d] = 0
        BY <1>3, <2>4 DEF Untouched
      <3> QED BY <2>1, <2>2, <2>3, <3>1 DEF VectorInv
    <2>5. CASE d # c
      BY <1>2, <2>1, <2>2, <2>3, <2>5 DEF VectorInv
    <2> QED BY <2>4, <2>5
  <1>12. \A d \in Call : Waits(d)' => Waits(d) \/ (d = c /\ shape.all)
    BY <1>5 DEF Waits
  <1>13. ASSUME NEW d \in Call PROVE CallInv(d)'
    <2>1. CallInv(d) /\ (Untouched(d)' <=> Untouched(d)) /\ UNCHANGED <<given, callbacks, loaded, now>>
      BY <1>1 DEF Untouched
    <2>2. CASE d = c
      <3>1. Untouched(d)' /\ (Waits(d)' => ask'[d].all)
        BY <1>2, <1>3, <1>12, <2>1, <2>2
      <3>2. \A i \in Id : given'[d][i] = 0 /\ <<d, "own">> \notin callbacks'[i]
        BY <3>1 DEF Untouched
      <3>3. \A i \in Id : <<d, i>> \in tmpRequests' => i \in ask'[d].ids /\ ~Waits(d)'
        <4>1. \A i \in Id : <<c, i>> \notin tmpRequests
          BY NotHeardOf
        <4> QED BY <1>2, <1>3, <1>12, <2>2, <4>1
      <3>4. \A i \in Id : given'[d][i] <= (IF ask'[d].own /\ i \in ask'[d].ids THEN 1 ELSE 0)
        BY <3>2
      <3> QED BY <3>1, <3>2, <3>3, <3>4 DEF CallInv
    <2>3. CASE d # c
      <3>1. ask'[d] = ask[d] /\ (Asked(d)' <=> Asked(d)) /\ (Waits(d)' => Waits(d))
        BY <1>2, <1>12, <2>3 DEF Asked
      <3>2. \A i \in Id : <<d, i>> \in tmpRequests' => <<d, i>> \in tmpRequests
        BY <2>3
      <3> QED BY <2>1, <3>1, <3>2 DEF CallInv
    <2> QED BY <2>2, <2>3
  <1>14. OnceInv'
    <2>1. SUFFICES ASSUME NEW k \in DOMAIN tmpMultiRequest', NEW l \in DOMAIN tmpMultiRequest',
                          tmpMultiRequest'[k] = tmpMultiRequest'[l]
                   PROVE  k = l
      BY DEF OnceInv
    <2>2. \A m \in DOMAIN tmpMultiRequest : tmpMultiRequest[m] # c
      BY <1>3 DEF Waits
    <2> QED BY <1>1, <1>5, <2>1, <2>2 DEF OnceInv
  <1> QED BY <1>1, <1>7, <1>8, <1>9, <1>10, <1>11, <1>13, <1>14 DEF LibraryInv

(* A call of getAssets: it is served, or put aside until the library has    *)
(* loaded.                                                                  *)
LEMMA GetAssetsStep ==
    ASSUME LibraryInv, NEW c \in Call, NEW shape \in Shape, getAssets(c, shape)
    PROVE  LibraryInv'
  <1> DEFINE a == [ask EXCEPT ![c] = shape]
             V == {c} \X shape.ids
             cb == IF shape.all THEN {c} ELSE {}
  <1>1. /\ ~Asked(c) /\ shape # NotAsked /\ ask' = a
        /\ UNCHANGED <<loaded, assets, downloads, performed, now, inside, rows, fault>>
    BY DEF getAssets
  <1>2. CASE ~loaded
    <2>1. /\ tmpRequests' = IF shape.all THEN tmpRequests ELSE tmpRequests \cup ({c} \X shape.ids)
          /\ tmpMultiRequest' = IF shape.all THEN Append(tmpMultiRequest, c) ELSE tmpMultiRequest
          /\ UNCHANGED <<callbacks, objects, jobs, retVec, given, vecGiven, held>>
      BY <1>2 DEF getAssets
    <2> QED BY <1>1, <1>2, <2>1, LaterStep DEF threads
  <1>3. CASE loaded
    <2>1. Requested(a, V, cb) /\ UNCHANGED <<tmpRequests, tmpMultiRequest>>
      BY <1>3 DEF getAssets
    <2>2. Untouched(c)
      BY <1>1, NotHeardOf
    <2>3. /\ a \in [Call -> Shape] /\ a[c] = shape /\ \A d \in Call : d # c => a[d] = ask[d]
      BY DEF LibraryInv, TypeOK
    <2>4. shape.ids \subseteq Id
      BY DEF Shape
    <2>5. Servable(a, V, cb)
      <3>1. V \subseteq Call \X Id /\ cb \subseteq Call
        BY <2>4
      <3>2. \A d \in Call : a[d] = ask[d] \/ Untouched(d)
        BY <2>2, <2>3
      <3>3. \A d \in Call, i \in Id : <<d, i>> \in V =>
               given[d][i] = 0 /\ <<d, "own">> \notin callbacks[i] /\ i \in a[d].ids
        BY <2>2, <2>3 DEF Untouched
      <3>4. \A d \in cb : Untouched(d) /\ a[d].all /\ V = {d} \X a[d].ids
        BY <2>2, <2>3
      <3> HIDE DEF a, V, cb
      <3> QED BY <1>1, <2>3, <3>1, <3>2, <3>3, <3>4 DEF Servable
    <2>6. NowIds' = NowIds /\ NowCall' = NowCall
      BY <1>1 DEF NowIds, NowCall
    <2>7. UNCHANGED <<assets, loaded, downloads, performed, rows, fault>>
      BY <1>1
    <2>8. cb \subseteq {c} /\ V = {c} \X shape.ids /\ ask' = [ask EXCEPT ![c] = shape]
      BY <1>1
    <2> HIDE DEF a, V, cb
    <2>9. /\ ServedInv(V, cb)
          /\ callbacks' \in [Id -> SUBSET (Call \X {"own", "all"})]
          /\ retVec' \in [Call -> [kept : BOOLEAN, got : SUBSET Id, size : Nat]]
      BY <1>3, <2>1, <2>5, <2>6, <2>7, RequestedStep
    <2>10. UNCHANGED <<loaded, tmpRequests, tmpMultiRequest, assets, downloads, performed, now,
                       inside, rows, fault>>
      BY <1>1, <2>1
    <2> QED BY <1>1, <1>3, <2>8, <2>9, <2>10, AskedStep
  <1> QED BY <1>2, <1>3

(* Nobody is called when nothing is given.                                  *)
LEMMA NothingGiven ==
    ASSUME TypeOK, NEW a, Give(a, {}, {}), objects' = Retained(assets)
    PROVE  UNCHANGED <<given, vecGiven, held, objects>>
  <1>1. given \in [Call -> [Id -> Nat]] /\ vecGiven \in [Call -> Nat] /\ objects \in [Id -> Seq(Int)]
    BY DEF TypeOK
  <1>2. held' = held
    BY DEF Give
  <1>3. vecGiven' = vecGiven
    <2>1. vecGiven' = [c \in Call |-> vecGiven[c]]
      <3>1. \A c \in Call : vecGiven[c] + 0 = vecGiven[c]
        BY <1>1
      <3>2. vecGiven' = [c \in Call |-> vecGiven[c] + 0]
        BY DEF Give
      <3> QED BY <3>1, <3>2
    <2> QED BY <1>1, <2>1
  <1>4. given' = given
    <2>1. given' = [c \in Call |-> [i \in Id |-> given[c][i] + 0]]
      BY DEF Give
    <2>2. \A c \in Call : given'[c] = given[c]
      <3>1. SUFFICES ASSUME NEW c \in Call PROVE [i \in Id |-> given[c][i] + 0] = given[c]
        BY <2>1
      <3>2. given[c] \in [Id -> Nat]
        BY <1>1
      <3>3. \A i \in Id : given[c][i] + 0 = given[c][i]
        BY <3>2
      <3> QED BY <3>2, <3>3
    <2> QED BY <1>1, <2>1, <2>2
  <1>5. objects' = objects
    <2>1. ASSUME NEW i \in Id PROVE objects'[i] = objects[i]
      <3>1. CASE assets[i] = 0
        BY <3>1 DEF Retained
      <3>2. CASE assets[i] # 0
        <4>1. {c \in Call : <<c, i>> \in held' \ held} = {}
          BY <1>2
        <4>2. objects'[i] = [objects[i] EXCEPT ![assets[i]] = @ + Cardinality({})]
          BY <3>2, <4>1 DEF Retained
        <4>3. objects'[i] = [objects[i] EXCEPT ![assets[i]] = @ + 0]
          BY <4>2, FS_EmptySet
        <4>4. objects[i] \in [1 .. Len(objects[i]) -> Int]
          BY <1>1
        <4> DEFINE o == objects[i]
                   n == assets[i]
        <4>5. o \in [1 .. Len(o) -> Int] /\ objects'[i] = [o EXCEPT ![n] = @ + 0]
          BY <4>3, <4>4
        <4> HIDE DEF o, n
        <4>6. \A k \in 1 .. Len(o) : o[k] + 0 = o[k]
          BY <4>5
        <4>7. objects'[i] = o
          BY <4>5, <4>6
        <4> QED BY <4>7 DEF o
      <3> QED BY <3>1, <3>2
    <2>2. objects' = [i \in Id |-> objects'[i]]
      BY DEF Retained
    <2> QED BY <1>1, <2>1, <2>2
  <1> QED BY <1>2, <1>3, <1>4, <1>5

(* A call of getAsset.                                                      *)
LEMMA GetAssetStep ==
    ASSUME LibraryInv, NEW c \in Call, NEW i \in Id, getAsset(c, i)
    PROVE  LibraryInv'
  <1> DEFINE shape == [ids |-> {i}, own |-> TRUE, all |-> FALSE]
             a == [ask EXCEPT ![c] = shape]
             V == {<<c, i>>}
             cb == {}
             own == IF loaded /\ assets[i] # 0 THEN {<<c, i>>} ELSE {}
             full == {}
             new == IF assets[i] = 0 /\ callbacks[i] = {} THEN {i} ELSE {}
             job == IF assets[i] = 0 /\ callbacks[i] = {} THEN One(i)
                    ELSE [kind |-> "one", call |-> {}, ids |-> {}]
  <1>1. /\ ~Asked(c) /\ ask' = a
        /\ UNCHANGED <<loaded, tmpMultiRequest, assets, downloads, performed, now, inside, retVec, rows, fault>>
        /\ tmpRequests' = IF loaded THEN tmpRequests ELSE tmpRequests \cup {<<c, i>>}
        /\ Give(a, own, {}) /\ objects' = Retained(assets)
        /\ loaded /\ assets[i] = 0 =>
              /\ callbacks' = [callbacks EXCEPT ![i] = @ \cup {<<c, "own">>}]
              /\ jobs' = IF Waiting(i) THEN jobs ELSE Append(jobs, One(i))
        /\ ~(loaded /\ assets[i] = 0) => UNCHANGED <<callbacks, jobs>>
    BY DEF getAsset
  <1>2. shape \in Shape /\ shape # NotAsked /\ TypeOK
    BY DEF Shape, NotAsked, LibraryInv
  <1>3. CASE ~loaded
    <2>1. UNCHANGED <<given, vecGiven, held, objects>>
      <3>1. Give(a, {}, {})
        BY <1>1, <1>3
      <3> HIDE DEF a
      <3> QED BY <1>1, <1>2, <3>1, NothingGiven
    <2>2. /\ tmpRequests' = IF shape.all THEN tmpRequests ELSE tmpRequests \cup ({c} \X shape.ids)
          /\ tmpMultiRequest' = IF shape.all THEN Append(tmpMultiRequest, c) ELSE tmpMultiRequest
      <3>1. {c} \X {i} = {<<c, i>>}
        OBVIOUS
      <3> QED BY <1>1, <1>3, <3>1
    <2>3. UNCHANGED <<loaded, assets, downloads, callbacks, objects, threads, retVec, given,
                       vecGiven, held, rows, fault>>
      BY <1>1, <1>3, <2>1 DEF threads
    <2>4. ask' = [ask EXCEPT ![c] = shape]
      BY <1>1
    <2> HIDE DEF shape
    <2> QED BY <1>1, <1>2, <1>3, <2>2, <2>3, <2>4, LaterStep
  <1>4. CASE loaded
    <2>2. Untouched(c)
      BY <1>1, NotHeardOf
    <2>3. a \in [Call -> Shape] /\ a[c] = shape /\ \A d \in Call : d # c => a[d] = ask[d]
      BY <1>2 DEF TypeOK
    <2>4. new \subseteq Id /\ job \in Jobs /\ job.kind \in Creation /\ job.call = cb /\ job.ids = new
      <3>1. One(i) \in Jobs /\ One(i).kind = "one" /\ One(i).call = {} /\ One(i).ids = {i}
        BY DEF One, Nothing, Jobs
      <3>2. CASE assets[i] = 0 /\ callbacks[i] = {}
        BY <3>1, <3>2 DEF Creation
      <3>3. CASE ~(assets[i] = 0 /\ callbacks[i] = {})
        BY <3>3 DEF Jobs, Creation
      <3> QED BY <3>2, <3>3
    <2>5. callbacks \in [Id -> SUBSET (Call \X {"own", "all"})] /\ retVec \in [Call -> [kept : BOOLEAN, got : SUBSET Id, size : Nat]]
      BY <1>2 DEF TypeOK
    <2>6. callbacks' \in [Id -> SUBSET (Call \X {"own", "all"})]
          /\ \A j \in Id : callbacks'[j] = IF j = i /\ assets[i] = 0 THEN callbacks[j] \cup {<<c, "own">>} ELSE callbacks[j]
      <3>1. CASE assets[i] = 0
        <4>1. callbacks' = [callbacks EXCEPT ![i] = callbacks[i] \cup {<<c, "own">>}]
          BY <1>1, <1>4, <3>1
        <4>2. callbacks[i] \cup {<<c, "own">>} \in SUBSET (Call \X {"own", "all"})
          BY <2>5
        <4> QED BY <2>5, <3>1, <4>1, <4>2
      <3>2. CASE assets[i] # 0
        BY <1>1, <2>5, <3>2
      <3> QED BY <3>1, <3>2
    <2>7. jobs' = IF new = {} THEN jobs ELSE Append(jobs, job)
      <3>1. CASE assets[i] = 0 /\ callbacks[i] = {}
        <4>1. new = {i} /\ job = One(i)
          BY <3>1
        <4> QED BY <1>1, <1>4, <3>1, <4>1 DEF Waiting
      <3>2. CASE ~(assets[i] = 0 /\ callbacks[i] = {})
        <4>1. new = {}
          BY <3>2
        <4> QED BY <1>1, <1>4, <3>2, <4>1 DEF Waiting
      <3> QED BY <3>1, <3>2
    <2>8. \A d \in Call, j \in Id : <<d, j>> \in own <=> <<d, j>> \in V /\ assets[j] # 0 /\ a[d].own
      BY <1>4, <2>3
    <2>9. \A d \in Call, j \in Id : <<d, j>> \in V =>
               given[d][j] = 0 /\ <<d, "own">> \notin callbacks[j] /\ j \in a[d].ids
      BY <2>2, <2>3 DEF Untouched
    <2>10. \A j \in Id : j \in new <=> assets[j] = 0 /\ callbacks[j] = {} /\ \E d \in Call : <<d, j>> \in V
      OBVIOUS
    <2>11. \A d \in Call : a[d] = ask[d] \/ Untouched(d)
      BY <2>2, <2>3
    <2>12. V \subseteq Call \X Id /\ cb \subseteq Call /\ own \subseteq Call \X Id /\ full \subseteq Call
      OBVIOUS
    <2>13. \A d \in Call, j \in Id :
              /\ <<d, "own">> \in callbacks'[j] <=>
                     <<d, "own">> \in callbacks[j] \/ (<<d, j>> \in V /\ assets[j] = 0)
              /\ <<d, "all">> \in callbacks'[j] <=> <<d, "all">> \in callbacks[j]
      BY <2>6
    <2>14. NowIds' = NowIds /\ NowCall' = NowCall
      BY <1>1 DEF NowIds, NowCall
    <2>15. cb = {} /\ full = {} /\ cb \subseteq {c}
      OBVIOUS
    <2>16. V = {c} \X shape.ids /\ ask' = [ask EXCEPT ![c] = shape]
      BY <1>1
    <2>17. objects' = Retained(assets') /\ Give(a, own, full)
      BY <1>1
    <2> HIDE DEF a, V, cb, own, full, new, job, shape
    <2>18. Serves(a, V, cb, own, full, new, job)
      BY <1>1, <2>3, <2>4, <2>5, <2>6, <2>7, <2>8, <2>9, <2>10, <2>11, <2>12, <2>13, <2>14, <2>15, <2>17 DEF Serves
    <2>19. ServedInv(V, cb)
      BY <1>4, <2>18, ServeStep
    <2>20. UNCHANGED <<loaded, tmpRequests, tmpMultiRequest, assets, downloads, performed, now,
                       inside, rows, fault>>
      BY <1>1, <1>4
    <2>21. retVec' \in [Call -> [kept : BOOLEAN, got : SUBSET Id, size : Nat]]
      BY <1>1, <2>5
    <2> QED BY <1>1, <1>2, <1>4, <2>6, <2>15, <2>16, <2>19, <2>20, <2>21, AskedStep
  <1> QED BY <1>3, <1>4

-----------------------------------------------------------------------------
(* The theorems.                                                            *)

(* Every step keeps the invariant.                                          *)
LEMMA NextStep ==
    ASSUME LibraryInv, [Next]_vars
    PROVE  LibraryInv'
  <1>1. CASE Loaded
    BY <1>1, LoadedStep
  <1>2. CASE ServeRequests
    BY <1>2, RequestsStep
  <1>3. CASE ServeMulti
    BY <1>3, MultiStep
  <1>4. CASE Completed
    BY <1>4, CompletedStep
  <1>5. CASE Collected
    BY <1>5, CollectedStep
  <1>6. ASSUME NEW i \in Id, onAssetCreated(i) PROVE LibraryInv'
    BY <1>6, CreatedStep
  <1>7. CASE performGetAssets
    BY <1>7, PerformStep
  <1>8. ASSUME NEW online \in BOOLEAN, Restore(online) PROVE LibraryInv'
    BY <1>8, RestoreStep
  <1>9. ASSUME NEW c \in Call, NEW shape \in Shape, getAssets(c, shape) PROVE LibraryInv'
    BY <1>9, GetAssetsStep
  <1>10. ASSUME NEW c \in Call, NEW i \in Id, getAsset(c, i) PROVE LibraryInv'
    BY <1>10, GetAssetStep
  <1>11. ASSUME NEW c \in Call, NEW i \in Id, Drop(c, i) PROVE LibraryInv'
    BY <1>11, DropStep
  <1>12. ASSUME NEW i \in Id, NEW n \in DOMAIN objects[i], downloadAsset(i, n) PROVE LibraryInv'
    BY <1>12, DownloadStep
  <1>13. ASSUME NEW i \in Id, NEW n \in DOMAIN objects[i], removeDownload(i, n) PROVE LibraryInv'
    BY <1>13, RemoveStep
  <1>14. CASE UNCHANGED vars
    <2> USE <1>14 DEF vars, library, threads, clients
    <2>1. /\ \A i \in Id : (Pending(i)' <=> Pending(i)) /\ (Made(i)' <=> Made(i)) /\ Holders(i)' = Holders(i)
      BY PendingKept DEF Made, Holders
    <2>2. TypeOK' /\ StartInv' /\ OnceInv' /\ ~fault'
      BY <2>1 DEF LibraryInv, TypeOK, StartInv, OnceInv
    <2>3. JobsInv'
      BY <2>1, JobsKept DEF LibraryInv
    <2>4. \A i \in Id : ObjectInv(i)'
      BY <2>1 DEF LibraryInv, ObjectInv
    <2>5. \A c \in Call : VectorInv(c)' /\ CallInv(c)'
      BY VectorKept, CallKept DEF LibraryInv
    <2> QED BY <2>2, <2>3, <2>4, <2>5 DEF LibraryInv
  <1> QED BY <1>1, <1>2, <1>3, <1>4, <1>5, <1>6, <1>7, <1>8, <1>9, <1>10, <1>11, <1>12, <1>13, <1>14
       DEF Next, MainThread, StorageThread, Users, Assets

(* The invariant holds in every reachable state: nothing is made twice,     *)
(* released too often or written after its deletion, however getAsset,      *)
(* getAssets, releases and completions follow one another or nest.          *)
THEOREM InvCorrect == Spec => []LibraryInv
  BY InitStep, NextStep, PTL DEF Spec

(* For every set of assets and every number of calls: an id stands for one  *)
(* living Asset, whoever asks for it and whenever, which cleanup leaves its *)
(* row (AssetLibrary::getAsset, getAssets, restoreDownloads, cleanup).      *)
THEOREM OneLastingCorrect == Spec => []OneLasting
  <1>1. LibraryInv => OneLasting
    <2>1. SUFFICES ASSUME LibraryInv PROVE OneAsset /\ RowKept
      BY DEF OneLasting
    <2>2. OneAsset
      <3>1. SUFFICES ASSUME NEW i \in Id, NEW m \in DOMAIN objects[i], NEW n \in DOMAIN objects[i] PROVE m = n
        BY DEF OneAsset
      <3>2. DOMAIN objects[i] = {1}
        BY <2>1, <3>1, OneObject DEF LibraryInv, Made
      <3> QED BY <3>1, <3>2
    <2>3. RowKept
      BY <2>1 DEF RowKept, LibraryInv, ObjectInv, Made
    <2> QED BY <2>2, <2>3
  <1> QED BY <1>1, InvCorrect, PTL

(* For every set of assets and every number of calls: no callback is called *)
(* twice, an AssetVecCallback gets each asset of its call once, and its     *)
(* vector is not used after that (AssetLibrary::getAssets, onAssetCreated). *)
THEOREM AnsweredOnceCorrect == Spec => []AnsweredOnce
  <1>1. LibraryInv => AnsweredOnce
    <2>1. SUFFICES ASSUME LibraryInv, NEW c \in Call
                   PROVE  /\ \A i \in Id : given[c][i] <= (IF ask[c].own /\ i \in ask[c].ids THEN 1 ELSE 0)
                          /\ vecGiven[c] <= (IF ask[c].all THEN 1 ELSE 0)
                          /\ vecGiven[c] = 1 => retVec[c].got = ask[c].ids /\ ~retVec[c].kept
      BY DEF AnsweredOnce, LibraryInv
    <2>2. CallInv(c) /\ VectorInv(c) /\ vecGiven[c] \in Nat
      BY <2>1, CallTypes DEF LibraryInv
    <2>3. vecGiven[c] <= 1 /\ (vecGiven[c] = 1 => ask[c].all /\ retVec[c].got = ask[c].ids /\ ~retVec[c].kept)
      BY <2>2 DEF VectorInv
    <2>4. vecGiven[c] <= (IF ask[c].all THEN 1 ELSE 0)
      BY <2>2, <2>3
    <2> QED BY <2>2, <2>3, <2>4 DEF CallInv
  <1> QED BY <1>1, InvCorrect, PTL

=============================================================================
