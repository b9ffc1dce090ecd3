----------------------------- MODULE AssetProofs -----------------------------
(* Proofs about Asset and its lock, for all requests, versions and kills:   *)
(* a writer has the lock alone, and no reader sees the file change; and,    *)
(* when users ask before they act (Polite), no request of the lock is       *)
(* forgotten, the flags agree with the swaps and the disk, a swap finds its *)
(* temporary file, and the asset claims no version newer than its file.     *)
(*                                                                          *)
(* The invariants, each on those before it: AssetInv (the lock, its stack   *)
(* of calls and the swap that has it), QueuesInv (who waits), DataInv (the  *)
(* phases of a download and the flags), TempInv (the temporary file),       *)
(* VersionInv (what is ahead of it) and ClaimsInv (what has been claimed).  *)
EXTENDS Asset, SequenceTheorems, WellFoundedInduction, TLAPS

(* What is assumed of the requests: the function of a reader keeps the lock *)
(* (SPTextureCache.cc:325), and so does that of swapFiles.                  *)
ClearOnly == Brief \cap (Reader \cup Swap) = {}

(* The frames of the lock, and of the functions that release it: onFile of  *)
(* the asset, and what a source of documents does with a request of its own *)
(* (CommonSource).                                                          *)
Frames ==
    [op : {"call", "release"}, request : Request]
    \cup [op : {"finish", "popWriter", "onFile"}]
    \cup [op : {"shown"}, request : Request]
    \cup [op : {"readers"}, next : Nat \ {0}]

ShownFrame(r) == [op |-> "shown", request |-> r]

(* What follows a release in the function that releases the lock.           *)
Afterwards == {<<>>, <<OnFile>>} \cup {<<ShownFrame(r)>> : r \in Request}

Holders == {r \in Request : Holding(r)}

Top(op) == stack # <<>> /\ stack[1].op = op

(* Each holder has one of the lockers, of its own key, and all of them are  *)
(* of the kind of the lock.                                                 *)
Lockers(f) ==
    /\ f \in [DOMAIN lockers -> Holders]
    /\ \A i, j \in DOMAIN lockers : f[i] = f[j] => i = j
    /\ \A r \in Holders : \E i \in DOMAIN lockers : f[i] = r
    /\ \A i \in DOMAIN lockers : lockers[i] = Key[f[i]]

HoldersInv ==
    /\ \E f : Lockers(f)
    /\ \A r \in Holders : Kind[r] = lock
    /\ WriterExcludes

(* What the innermost call says about its request.                          *)
TopInv ==
    /\ Top("call")    => status[stack[1].request] = "calling"
    /\ Top("release") => status[stack[1].request] = "held"
    /\ Top("finish")  => Holders = {}

(* Only the innermost frame is about to change who holds the lock.          *)
BelowInv ==
    \A k \in DOMAIN stack : k # 1 => stack[k].op \in {"popWriter", "readers", "onFile", "shown"}

(* A loop over the readers stands alone above the frames of others, with at *)
(* most the call of a reader on top.                                        *)
LoopInv ==
    \A k \in DOMAIN stack : stack[k].op = "readers" =>
        /\ k = 1 \/ (k = 2 /\ stack[1].op = "call" /\ stack[1].request \in Reader)
        /\ lock # "Write"
        /\ \A j \in DOMAIN stack : stack[j].op # "popWriter"

(* A front writer waits to be removed from its queue.  With anything on top *)
(* of it but its call it is one that releases in its own function.          *)
FrontInv ==
    \A k \in DOMAIN stack : stack[k].op = "popWriter" =>
        /\ writeQueue # <<>>
        /\ stack[1].op \in {"call", "release"} => stack[1].request = writeQueue[1]
        /\ k # 1 => stack[1].op \in {"call", "release", "finish"}
        /\ k > 2 \/ stack[1].op \in {"release", "finish"} => writeQueue[1] \in Brief

(* Readers are queued once, and those the loop has not come to still are.   *)
ToCome(i) == \A k \in DOMAIN stack : stack[k].op = "readers" => stack[k].next <= i

ReadersInv ==
    /\ \A i, j \in DOMAIN readQueue : readQueue[i] = readQueue[j] => i = j
    /\ \A i \in DOMAIN readQueue : ToCome(i) => status[readQueue[i]] = "queued"

LockInv ==
    /\ LockTypeOK /\ stack \in Seq(Frames)
    /\ HoldersInv /\ TopInv /\ BelowInv /\ LoopInv /\ FrontInv /\ ReadersInv

(* The lock is about to be released for w.                                  *)
Leaving(w) == Top("release") /\ stack[1].request = w

(* A swap whose file is being moved, or has been moved, holds the lock and  *)
(* is not on its way out.                                                   *)
Moving ==
    {w \in Swap : \/ \E i \in DOMAIN work : work[i].swap = w
                  \/ \E i \in DOMAIN calls : calls[i] = Swapped(w)}

SwapInv ==
    /\ \A w \in Moving : status[w] = "held" /\ ~Leaving(w)
    /\ \A i, j \in DOMAIN work : i = j
    /\ \A i, j \in DOMAIN calls : calls[i].what = "swapped" /\ calls[j].what = "swapped" => i = j
    /\ \A i \in DOMAIN calls : calls[i].what = "swapped" => work = <<>>

(* The types TypeOK leaves open; a source posts functions of its own.       *)
Called ==
    [what : {"opened"}]
    \cup [what : {"completed"}, success : BOOLEAN, isFile : BOOLEAN, version : 0 .. MaxVersion]
    \cup [what : {"swapped"}, swap : Swap]
    \cup [what : {"loaded", "drawn"}, request : Request]

Rows == [mtime : 0 .. MaxVersion, download : BOOLEAN]
Works == [swap : Swap, stage : {"remove", "move"}]

ThreadsOK ==
    /\ download \in [state : {"none", "asked", "receiving", "answered"},
                     known : 0 .. MaxVersion, version : 0 .. MaxVersion]
    /\ calls \in Seq(Called) /\ saves \in Seq(Rows)

Types == TypeOK /\ ThreadsOK

AssetInv == LockInv /\ Types /\ SwapInv
-----------------------------------------------------------------------------
(* Numbers and sequences.                                                   *)
Less == {p \in Nat \X Nat : p[1] < p[2]}

LEMMA LessIsWellFounded == IsWellFoundedOn(Less, Nat)
  BY NatLessThanWellFounded DEF OpToRel, Less

LEMMA Least ==
    ASSUME NEW T \in SUBSET Nat, T # {}
    PROVE  \E m \in T : \A n \in T : m <= n
  <1>1. PICK m \in T : \A n \in T : ~(<<n, m>> \in Less)
    BY LessIsWellFounded, WFMin
  <1>2. \A n \in T : ~(n < m)
    BY <1>1 DEF Less
  <1> QED BY <1>2

LEMMA Replaced ==
    ASSUME NEW S, NEW s \in Seq(S), s # <<>>, NEW a \in S
    PROVE  LET t == <<a>> \o Tail(s) IN
           /\ t \in Seq(S) /\ Len(t) = Len(s) /\ t[1] = a
           /\ \A k \in 2..Len(s) : t[k] = s[k]
  OBVIOUS

LEMMA Pushed ==
    ASSUME NEW S, NEW s \in Seq(S), s # <<>>, NEW a \in S, NEW b \in S
    PROVE  LET t == <<a>> \o (<<b>> \o Tail(s)) IN
           /\ t \in Seq(S) /\ Len(t) = Len(s) + 1 /\ t[1] = a /\ t[2] = b
           /\ \A k \in 3..Len(s) + 1 : t[k] = s[k - 1]
  OBVIOUS

LEMMA Popped ==
    ASSUME NEW S, NEW s \in Seq(S), s # <<>>
    PROVE  LET t == <<>> \o Tail(s) IN
           /\ t = Tail(s) /\ t \in Seq(S) /\ Len(t) = Len(s) - 1
           /\ \A k \in 1..Len(s) - 1 : t[k] = s[k + 1]
  OBVIOUS

LEMMA NoneLeft ==
    ASSUME NEW S, NEW s \in Seq(S)
    PROVE  s = <<>> <=> Len(s) = 0
  OBVIOUS

LEMMA Removed ==
    ASSUME NEW S, NEW s \in Seq(S), NEW p \in 1..Len(s)
    PROVE  /\ RemoveAt(s, p) \in Seq(S) /\ Len(RemoveAt(s, p)) = Len(s) - 1
           /\ \A i \in 1..Len(s) - 1 : RemoveAt(s, p)[i] = IF i < p THEN s[i] ELSE s[i + 1]
  <1> DEFINE a == SubSeq(s, 1, p - 1)
             b == SubSeq(s, p + 1, Len(s))
  <1>1. a \in Seq(S) /\ Len(a) = p - 1 /\ \A i \in 1..p - 1 : a[i] = s[i]
    OBVIOUS
  <1>2. b \in Seq(S) /\ Len(b) = Len(s) - p /\ \A i \in 1..Len(s) - p : b[i] = s[p + i]
    OBVIOUS
  <1>3. RemoveAt(s, p) = a \o b
    BY DEF RemoveAt
  <1> HIDE DEF a, b
  <1>4. /\ a \o b \in Seq(S) /\ Len(a \o b) = Len(a) + Len(b)
        /\ \A i \in 1..Len(a) + Len(b) : (a \o b)[i] = IF i <= Len(a) THEN a[i] ELSE b[i - Len(a)]
    BY <1>1, <1>2, ConcatProperties
  <1>5. Len(a) + Len(b) = Len(s) - 1
    BY <1>1, <1>2
  <1>6. \A i \in 1..Len(s) - 1 : (a \o b)[i] = IF i < p THEN s[i] ELSE s[i + 1]
    BY <1>1, <1>2, <1>4, <1>5
  <1> QED BY <1>3, <1>4, <1>5, <1>6

-----------------------------------------------------------------------------
(* A locker to erase is found.                                              *)
LEMMA FirstOfKey ==
    ASSUME LockTypeOK, NEW k, NEW j \in DOMAIN lockers, lockers[j] = k
    PROVE  FirstOf(k) \in DOMAIN lockers /\ lockers[FirstOf(k)] = k
  <1> DEFINE T == {i \in DOMAIN lockers : lockers[i] = k}
  <1>1. DOMAIN lockers \subseteq Nat
    BY DEF LockTypeOK
  <1>2. PICK i \in T : \A n \in T : i <= n
    BY <1>1, Least
  <1>3. \A n \in 1..(i - 1) : lockers[n] # k
    BY <1>1, <1>2 DEF LockTypeOK
  <1> QED BY <1>2, <1>3 DEF FirstOf

(* A request that is granted the lock, to itself or beside other readers.   *)
LEMMA GrantedHolders ==
    ASSUME LockParameters, LockTypeOK, HoldersInv, NEW r \in Request, ~Holding(r),
           Holders = {} \/ (Kind[r] = "Read" /\ lock # "Write"),
           NEW s \in {"calling", "held"},
           lock' = Kind[r], lockers' = Append(lockers, Key[r]), status' = [status EXCEPT ![r] = s]
    PROVE  HoldersInv'
  <1>1. Holders' = Holders \cup {r} /\ r \notin Holders
    BY DEF Holders, Holding, LockTypeOK
  <1>2. \A h \in Holders : Kind[h] = Kind[r] /\ Kind[h] = "Read"
    BY DEF HoldersInv, LockTypeOK, Holders, LockParameters
  <1>3. (\A h \in Holders : Kind[h] = lock)'
    BY <1>1, <1>2
  <1>4. WriterExcludes'
    <2>1. \A h, g \in Holders' : Kind[h] = "Write" => h = g
      BY <1>1, <1>2
    <2> QED BY <2>1 DEF WriterExcludes, Holders
  <1>5. PICK f : Lockers(f)
    BY DEF HoldersInv
  <1> DEFINE n == Len(lockers) + 1
             g == [i \in 1..n |-> IF i = n THEN r ELSE f[i]]
  <1>6. /\ DOMAIN lockers = 1..Len(lockers) /\ Len(lockers) \in Nat
        /\ DOMAIN lockers' = 1..n
        /\ \A i \in 1..n : lockers'[i] = IF i = n THEN Key[r] ELSE lockers[i]
    BY DEF LockTypeOK
  <1>7. \A i \in 1..n : i = n \/ (i \in DOMAIN lockers /\ g[i] = f[i] /\ f[i] \in Holders)
    BY <1>5, <1>6 DEF Lockers
  <1>8. g \in [1..n -> Holders'] /\ g[n] = r
    BY <1>1, <1>6, <1>7
  <1>9. \A i, j \in 1..n : g[i] = g[j] => i = j
    BY <1>1, <1>5, <1>7, <1>8 DEF Lockers
  <1>10. \A h \in Holders' : \E i \in 1..n : g[i] = h
    <2>1. n \in 1..n /\ DOMAIN lockers \subseteq 1..n
      BY <1>6
    <2>2. \A i \in DOMAIN lockers : g[i] = f[i]
      BY <1>6
    <2> QED BY <1>1, <1>5, <1>8, <2>1, <2>2 DEF Lockers
  <1>11. \A i \in 1..n : lockers'[i] = Key[g[i]]
    BY <1>5, <1>6, <1>7, <1>8 DEF Lockers
  <1>12. PICK h : h = g
    OBVIOUS
  <1>13. Lockers(h)'
    BY <1>6, <1>8, <1>9, <1>10, <1>11, <1>12 DEF Lockers
  <1> QED BY <1>3, <1>4, <1>13 DEF HoldersInv

(* A holder leaves, and takes with it a locker that may be another's, of    *)
(* the same key.                                                            *)
LEMMA ReleasedHolders ==
    ASSUME LockTypeOK, HoldersInv, NEW r \in Holders, NEW s, s \notin {"calling", "held"},
           lockers' = RemoveAt(lockers, FirstOf(Key[r])),
           status' = [status EXCEPT ![r] = s], UNCHANGED lock
    PROVE  HoldersInv' /\ Holders' = Holders \ {r} /\ (lockers' = <<>> <=> Holders' = {})
  <1>1. Holders' = Holders \ {r} /\ Holders \subseteq Request
    BY DEF Holders, Holding, LockTypeOK
  <1>2. PICK f : Lockers(f)
    BY DEF HoldersInv
  <1>3. PICK j \in DOMAIN lockers : f[j] = r
    BY <1>2 DEF Lockers
  <1> DEFINE p == FirstOf(Key[r])
  <1>4. p \in DOMAIN lockers /\ lockers[p] = Key[r]
    BY <1>2, <1>3, FirstOfKey DEF Lockers
  <1> HIDE DEF p
  <1> DEFINE n == Len(lockers) - 1
             Of(i) == IF i < p THEN i ELSE i + 1
             g == [i \in 1..n |-> IF Of(i) = j THEN f[p] ELSE f[Of(i)]]
  <1>5. /\ DOMAIN lockers = 1..n + 1 /\ n \in Nat /\ lockers' \in Seq({Key[q] : q \in Request})
        /\ DOMAIN lockers' = 1..n /\ Len(lockers') = n
        /\ \A i \in 1..n : lockers'[i] = lockers[Of(i)]
    <2>1. Len(lockers) \in Nat /\ DOMAIN lockers = 1..Len(lockers)
      BY DEF LockTypeOK
    <2>2. lockers' = RemoveAt(lockers, p)
      BY DEF p
    <2>3. lockers \in Seq({Key[q] : q \in Request}) /\ p \in 1..Len(lockers)
      BY <1>4, <2>1 DEF LockTypeOK
    <2>4. /\ lockers' \in Seq({Key[q] : q \in Request}) /\ Len(lockers') = n
          /\ \A i \in 1..n : lockers'[i] = lockers[Of(i)]
      BY <2>2, <2>3, Removed
    <2> QED BY <2>1, <2>3, <2>4
  <1>6. /\ \A i \in 1..n : Of(i) \in DOMAIN lockers /\ Of(i) # p
        /\ \A i, k \in 1..n : Of(i) = Of(k) => i = k
        /\ \A k \in DOMAIN lockers : k # p => \E i \in 1..n : Of(i) = k
    <2>1. \A k \in DOMAIN lockers : k # p => IF k < p THEN k \in 1..n /\ Of(k) = k ELSE k - 1 \in 1..n /\ Of(k - 1) = k
      BY <1>4, <1>5
    <2> QED BY <1>4, <1>5, <2>1
  <1> HIDE DEF Of
  <1>7. \A i \in 1..n : g[i] \in Holders /\ g[i] # r
    BY <1>2, <1>3, <1>4, <1>6 DEF Lockers
  <1>8. \A i, k \in 1..n : g[i] = g[k] => i = k
    BY <1>2, <1>3, <1>4, <1>6 DEF Lockers
  <1>9. \A h \in Holders' : \E i \in 1..n : g[i] = h
    <2> SUFFICES ASSUME NEW h \in Holders, h # r PROVE \E i \in 1..n : g[i] = h
      BY <1>1
    <2>1. PICK k \in DOMAIN lockers : f[k] = h
      BY <1>2 DEF Lockers
    <2>2. CASE k = p
      <3>1. j # p /\ \E i \in 1..n : Of(i) = j
        BY <1>3, <1>6, <2>1, <2>2
      <3> QED BY <2>1, <2>2, <3>1
    <2>3. CASE k # p
      <3>1. PICK i \in 1..n : Of(i) = k
        BY <1>6, <2>3
      <3> QED BY <1>3, <2>1, <3>1
    <2> QED BY <2>2, <2>3
  <1>10. \A i \in 1..n : lockers'[i] = Key[g[i]]
    <2>1. \A i \in 1..n : lockers'[i] = lockers[Of(i)] /\ Of(i) \in DOMAIN lockers
      BY <1>5, <1>6
    <2>2. \A k \in DOMAIN lockers : lockers[k] = Key[f[k]]
      BY <1>2 DEF Lockers
    <2> QED BY <1>3, <1>4, <2>1, <2>2
  <1>11. \E h : Lockers(h)'
    <2>1. PICK h : h = g
      OBVIOUS
    <2>2. h \in [1..n -> Holders']
      BY <1>1, <1>7, <2>1
    <2>3. /\ \A i, k \in DOMAIN lockers' : h[i] = h[k] => i = k
          /\ \A i \in DOMAIN lockers' : lockers'[i] = Key[h[i]]
      BY <1>5, <1>8, <1>10, <2>1
    <2>4. \A q \in Holders' : \E i \in DOMAIN lockers' : h[i] = q
      BY <1>5, <1>9, <2>1
    <2>5. h \in [DOMAIN lockers' -> Holders']
      BY <1>5, <2>2
    <2> QED BY <2>3, <2>4, <2>5 DEF Lockers
  <1>12. (\A h \in Holders : Kind[h] = lock)' /\ WriterExcludes'
    <2>1. \A h, q \in Request : (Holding(h))' => Holding(h)
      BY <1>1 DEF Holders
    <2> QED BY <1>1, <2>1 DEF HoldersInv, WriterExcludes
  <1>13. lockers' = <<>> <=> Holders' = {}
    <2> DEFINE K == {Key[q] : q \in Request}
    <2>0. lockers' \in Seq(K) /\ Len(lockers') = n
      BY <1>5
    <2> HIDE DEF K, n
    <2>1. lockers' = <<>> <=> n = 0
      BY <2>0, NoneLeft
    <2>2. n = 0 => Holders' = {}
      BY <1>9
    <2>3. n # 0 => 1 \in 1..n
      BY <1>5
    <2> QED BY <1>1, <1>7, <2>1, <2>2, <2>3
  <1> QED BY <1>1, <1>11, <1>12, <1>13 DEF HoldersInv

-----------------------------------------------------------------------------
(* Frames, and the stack as a sequence of them.                             *)
LEMMA FrameFields ==
    ASSUME NEW x \in Frames
    PROVE  /\ x.op \in {"call", "release", "finish", "popWriter", "onFile", "shown", "readers"}
           /\ x.op \in {"call", "release", "shown"} => x.request \in Request
           /\ x.op = "readers" => x.next \in Nat \ {0}
  BY DEF Frames

LEMMA FramesMade ==
    /\ \A r \in Request : /\ Call(r) \in Frames /\ Call(r).op = "call" /\ Call(r).request = r
                          /\ Release(r) \in Frames /\ Release(r).op = "release" /\ Release(r).request = r
    /\ Finish \in Frames /\ Finish.op = "finish"
    /\ PopWriter \in Frames /\ PopWriter.op = "popWriter"
    /\ OnFile \in Frames /\ OnFile.op = "onFile"
    /\ \A r \in Request : ShownFrame(r) \in Frames /\ ShownFrame(r).op = "shown" /\ ShownFrame(r).request = r
    /\ \A i \in Nat \ {0} : Readers(i) \in Frames /\ Readers(i).op = "readers" /\ Readers(i).next = i
  BY DEF Frames, Call, Release, Finish, PopWriter, OnFile, ShownFrame, Readers

LEMMA AfterwardsMade ==
    /\ <<>> \in Afterwards /\ <<OnFile>> \in Afterwards /\ <<>> # <<OnFile>>
    /\ \A r \in Request : <<ShownFrame(r)>> \in Afterwards /\ <<ShownFrame(r)>> # <<OnFile>>
    /\ \A rest \in Afterwards :
           /\ rest \in Seq(Frames)
           /\ \A k \in 1..Len(rest) : rest[k].op \in {"onFile", "shown"}
           /\ rest # <<OnFile>> => \A k \in 1..Len(rest) : rest[k].op = "shown"
  <1>1. ASSUME NEW a \in Frames PROVE <<a>> \in Seq(Frames) /\ Len(<<a>>) = 1 /\ <<a>>[1] = a
    OBVIOUS
  <1>2. <<>> \in Seq(Frames) /\ Len(<<>>) = 0 /\ <<>> # <<OnFile>>
    OBVIOUS
  <1>3. ASSUME NEW rest \in Afterwards
        PROVE  /\ rest \in Seq(Frames)
               /\ \A k \in 1..Len(rest) : rest[k].op \in {"onFile", "shown"}
               /\ rest # <<OnFile>> => \A k \in 1..Len(rest) : rest[k].op = "shown"
    <2>1. CASE rest = <<>>
      BY <1>2, <2>1
    <2>2. CASE rest = <<OnFile>>
      <3>1. rest \in Seq(Frames) /\ Len(rest) = 1 /\ rest[1].op = "onFile"
        BY <1>1, <2>2, FramesMade
      <3> QED BY <2>2, <3>1
    <2>3. ASSUME NEW r \in Request, rest = <<ShownFrame(r)>>
          PROVE  rest \in Seq(Frames) /\ \A k \in 1..Len(rest) : rest[k].op = "shown"
      <3>1. rest \in Seq(Frames) /\ Len(rest) = 1 /\ rest[1].op = "shown"
        BY <1>1, <2>3, FramesMade
      <3> QED BY <3>1
    <2> QED BY <2>1, <2>2, <2>3 DEF Afterwards
  <1>4. \A r \in Request : <<ShownFrame(r)>> # <<OnFile>>
    <2>1. \A r \in Request : <<ShownFrame(r)>>[1].op = "shown" /\ <<OnFile>>[1].op = "onFile"
      BY <1>1, FramesMade
    <2> QED BY <2>1
  <1> QED BY <1>2, <1>3, <1>4 DEF Afterwards

LEMMA Sequence ==
    ASSUME NEW S, NEW s \in Seq(S)
    PROVE  /\ Len(s) \in Nat /\ DOMAIN s = 1..Len(s) /\ (s # <<>> <=> Len(s) > 0)
           /\ \A k \in 1..Len(s) : s[k] \in S
           /\ s # <<>> => Head(s) = s[1] /\ Tail(s) \in Seq(S)
  OBVIOUS

LEMMA Appended ==
    ASSUME NEW S, NEW s \in Seq(S), NEW a \in S
    PROVE  /\ Append(s, a) \in Seq(S) /\ DOMAIN Append(s, a) = 1..Len(s) + 1
           /\ \A i \in 1..Len(s) + 1 : Append(s, a)[i] = IF i = Len(s) + 1 THEN a ELSE s[i]
  OBVIOUS

LEMMA Put ==
    ASSUME NEW S, NEW a \in S, NEW s \in Seq(S)
    PROVE  LET t == <<a>> \o s IN
           /\ t \in Seq(S) /\ Len(t) = Len(s) + 1 /\ t[1] = a
           /\ \A k \in 2..Len(s) + 1 : t[k] = s[k - 1]
  OBVIOUS

(* Without holders, or among readers, a request may be granted.             *)
LEMMA FreeLock ==
    ASSUME LockParameters, LockTypeOK, HoldersInv
    PROVE  lock = "None" => Holders = {}
  BY DEF HoldersInv, Holders, LockParameters

LEMMA LockersType ==
    ASSUME LockTypeOK, NEW r \in Request
    PROVE  Append(lockers, Key[r]) \in Seq({Key[q] : q \in Request})
  BY DEF LockTypeOK

(* The step leaves alone what says who holds the lock.                      *)
LEMMA SameHolders ==
    ASSUME HoldersInv, UNCHANGED <<lock, lockers>>, \A r \in Request : Holding(r)' = Holding(r)
    PROVE  HoldersInv' /\ Holders' = Holders
  <1>1. Holders' = Holders
    BY DEF Holders
  <1>2. PICK f : Lockers(f)
    BY DEF HoldersInv
  <1>3. Lockers(f)'
    BY <1>1, <1>2 DEF Lockers
  <1>4. WriterExcludes'
    BY DEF HoldersInv, WriterExcludes
  <1> QED BY <1>1, <1>3, <1>4 DEF HoldersInv

LEMMA InitLock == ASSUME LockParameters, LockInit PROVE LockInv
  <1>1. LockTypeOK /\ stack \in Seq(Frames) /\ DOMAIN stack = {} /\ DOMAIN readQueue = {} /\ stack = <<>>
    BY DEF LockInit, LockTypeOK
  <1>2. Holders = {}
    BY DEF LockInit, Holders, Holding
  <1>3. HoldersInv
    <2>1. DOMAIN lockers = {}
      BY DEF LockInit
    <2>2. PICK f : f = [i \in {} |-> i]
      OBVIOUS
    <2>3. Lockers(f)
      BY <1>2, <2>1, <2>2 DEF Lockers
    <2> QED BY <1>2, <2>3 DEF HoldersInv, WriterExcludes, Holders
  <1> QED BY <1>1, <1>3 DEF LockInv, TopInv, Top, BelowInv, LoopInv, FrontInv, ReadersInv

LEMMA ResetLock == ASSUME LockParameters, LockReset PROVE LockInv'
  <1>1. (LockTypeOK /\ stack \in Seq(Frames) /\ DOMAIN stack = {} /\ DOMAIN readQueue = {} /\ stack = <<>>)'
    BY DEF LockReset, LockTypeOK
  <1>2. Holders' = {}
    BY DEF LockReset, Holders, Holding
  <1>3. HoldersInv'
    <2>1. DOMAIN lockers' = {}
      BY DEF LockReset
    <2>2. PICK f : f = [i \in {} |-> i]
      OBVIOUS
    <2>3. Lockers(f)'
      BY <1>2, <2>1, <2>2 DEF Lockers
    <2> QED BY <1>2, <2>3 DEF HoldersInv, WriterExcludes, Holders
  <1> QED BY <1>1, <1>3 DEF LockInv, TopInv, Top, BelowInv, LoopInv, FrontInv, ReadersInv

-----------------------------------------------------------------------------
(* Requests are made when nothing is in progress.                           *)
LEMMA RetainInv ==
    ASSUME LockParameters, LockInv, NEW r \in Request, Retain(r)
    PROVE  LockInv'
  <1>1. stack = <<>> /\ status[r] = "idle" /\ LockTypeOK /\ HoldersInv /\ stack \in Seq(Frames)
    BY DEF Retain, Idle, LockInv
  <1>2. \A i \in DOMAIN readQueue : status[readQueue[i]] = "queued" /\ readQueue[i] # r
    BY <1>1 DEF LockInv, ReadersInv, ToCome
  <1>3. ~Holding(r)
    BY <1>1 DEF Holding
  <1>4. CASE Grantable(Kind[r])
    <2>1. /\ lock' = Kind[r] /\ lockers' = Append(lockers, Key[r])
          /\ status' = [status EXCEPT ![r] = "calling"] /\ stack' = <<Call(r)>>
          /\ UNCHANGED <<readQueue, writeQueue>>
      BY <1>4, FramesMade DEF Retain, Grant
    <2>2. LockTypeOK'
      BY <1>1, <2>1, LockersType DEF LockTypeOK, LockParameters
    <2>3. HoldersInv'
      BY <1>1, <1>3, <1>4, <2>1, GrantedHolders, FreeLock DEF Grantable
    <2>4. /\ stack' \in Seq(Frames) /\ DOMAIN stack' = {1}
          /\ stack'[1].op = "call" /\ stack'[1].request = r
      BY <2>1, FramesMade
    <2>5. ReadersInv'
      BY <1>1, <1>2, <2>1 DEF LockInv, ReadersInv, LockTypeOK
    <2> QED BY <1>1, <2>1, <2>2, <2>3, <2>4, <2>5
            DEF LockInv, TopInv, Top, BelowInv, LoopInv, FrontInv, LockTypeOK
  <1>5. CASE ~Grantable(Kind[r])
    <2>1. UNCHANGED <<lock, lockers, stack>> /\ status' = [status EXCEPT ![r] = "queued"]
      BY <1>5 DEF Retain, Enqueue
    <2>2. HoldersInv'
      BY <1>1, <1>3, <2>1, SameHolders DEF Holding, LockTypeOK
    <2>3. CASE Kind[r] = "Read"
      <3>1. r \in Reader /\ readQueue \in Seq(Reader) /\ readQueue' = Append(readQueue, r) /\ UNCHANGED writeQueue
        BY <1>1, <1>5, <2>3 DEF Retain, Enqueue, Reader, LockTypeOK
      <3>2. /\ readQueue' \in Seq(Reader) /\ DOMAIN readQueue' = 1..Len(readQueue) + 1
            /\ \A i \in 1..Len(readQueue) + 1 : readQueue'[i] = IF i = Len(readQueue) + 1 THEN r ELSE readQueue[i]
        BY <3>1, Appended
      <3>3. DOMAIN readQueue = 1..Len(readQueue) /\ Len(readQueue) \in Nat
        BY <3>1
      <3>4. LockTypeOK'
        BY <1>1, <2>1, <3>1, <3>2 DEF LockTypeOK
      <3>5. ReadersInv'
        <4>1. \A i \in DOMAIN readQueue' : i = Len(readQueue) + 1 \/ i \in DOMAIN readQueue
          BY <3>2, <3>3
        <4>2. \A i \in DOMAIN readQueue' : readQueue'[i] = r <=> i = Len(readQueue) + 1
          BY <1>2, <3>2, <4>1
        <4>3. \A i, j \in DOMAIN readQueue' : readQueue'[i] = readQueue'[j] => i = j
          BY <3>2, <4>1, <4>2 DEF LockInv, ReadersInv
        <4>4. \A i \in DOMAIN readQueue' : status'[readQueue'[i]] = "queued"
          <5>1. status' = [status EXCEPT ![r] = "queued"] /\ r \in DOMAIN status
            BY <1>1, <2>1 DEF LockTypeOK
          <5>2. \A i \in DOMAIN readQueue' : i # Len(readQueue) + 1 =>
                   readQueue'[i] = readQueue[i] /\ readQueue[i] \in DOMAIN status
            BY <1>1, <3>1, <3>2, <3>3 DEF LockTypeOK, Reader
          <5> QED BY <1>2, <3>2, <4>1, <5>1, <5>2
        <4> QED BY <4>3, <4>4 DEF ReadersInv
      <3> QED BY <1>1, <2>1, <2>2, <3>4, <3>5 DEF LockInv, TopInv, Top, BelowInv, LoopInv, FrontInv
    <2>4. CASE Kind[r] # "Read"
      <3>1. r \in Writer /\ writeQueue' = Append(writeQueue, r) /\ UNCHANGED readQueue
        BY <1>5, <2>4 DEF Retain, Enqueue, Writer, Reader
      <3>2. LockTypeOK'
        BY <1>1, <2>1, <3>1 DEF LockTypeOK
      <3>3. ReadersInv'
        BY <1>1, <1>2, <2>1, <3>1 DEF LockInv, ReadersInv, LockTypeOK
      <3> QED BY <1>1, <2>1, <2>2, <3>2, <3>3 DEF LockInv, TopInv, Top, BelowInv, LoopInv, FrontInv
    <2> QED BY <2>3, <2>4
  <1> QED BY <1>4, <1>5

LEMMA TryReadInv ==
    ASSUME LockParameters, LockInv, NEW r \in Request, TryRead(r)
    PROVE  LockInv'
  <1>1. stack = <<>> /\ status[r] = "idle" /\ LockTypeOK /\ HoldersInv /\ stack \in Seq(Frames)
    BY DEF TryRead, Idle, LockInv
  <1>2. /\ lock' = Kind[r] /\ lockers' = Append(lockers, Key[r]) /\ Kind[r] = "Read"
        /\ status' = [status EXCEPT ![r] = "held"] /\ UNCHANGED <<stack, readQueue, writeQueue>>
    BY DEF TryRead
  <1>3. ~Holding(r)
    BY <1>1 DEF Holding
  <1>4. \A i \in DOMAIN readQueue : status[readQueue[i]] = "queued" /\ readQueue[i] # r
    BY <1>1 DEF LockInv, ReadersInv, ToCome
  <1>5. LockTypeOK'
    BY <1>1, <1>2, LockersType DEF LockTypeOK
  <1>6. lock # "Write"
    BY DEF TryRead, Grantable
  <1>7. HoldersInv'
    BY <1>1, <1>2, <1>3, <1>6, GrantedHolders
  <1>8. ReadersInv'
    BY <1>1, <1>2, <1>4 DEF LockInv, ReadersInv, LockTypeOK
  <1> QED BY <1>1, <1>2, <1>5, <1>7, <1>8 DEF LockInv, TopInv, Top, BelowInv, LoopInv, FrontInv

LEMMA ReleasesInv ==
    ASSUME LockInv, NEW r \in Request, NEW rest \in Afterwards, Releases(r, rest)
    PROVE  LockInv'
  <1>1. /\ stack = <<>> /\ status[r] = "held" /\ stack' = <<Release(r)>> \o rest
        /\ UNCHANGED <<lock, lockers, readQueue, writeQueue, status>>
    BY DEF Releases, Idle
  <1>2. rest \in Seq(Frames) /\ \A k \in 1..Len(rest) : rest[k].op \in {"onFile", "shown"}
    BY AfterwardsMade
  <1>3. /\ stack' \in Seq(Frames) /\ stack'[1].op = "release" /\ stack'[1].request = r /\ stack' # <<>>
        /\ \A k \in DOMAIN stack' : k = 1 \/ stack'[k].op \in {"onFile", "shown"}
    <2>1. Release(r) \in Frames /\ Release(r).op = "release" /\ Release(r).request = r
      BY FramesMade
    <2>2. /\ stack' \in Seq(Frames) /\ Len(stack') = Len(rest) + 1 /\ stack'[1] = Release(r)
          /\ \A k \in 2..Len(rest) + 1 : stack'[k] = rest[k - 1]
      BY <1>1, <1>2, <2>1, Put
    <2>3. Len(rest) \in Nat /\ DOMAIN stack' = 1..Len(rest) + 1
      BY <1>2, <2>2
    <2>4. \A k \in DOMAIN stack' : k # 1 => k - 1 \in 1..Len(rest) /\ stack'[k] = rest[k - 1]
      BY <2>2, <2>3
    <2> QED BY <1>2, <2>1, <2>2, <2>3, <2>4
  <1>4. LockTypeOK' /\ HoldersInv'
    <2>1. \A q \in Request : Holding(q)' = Holding(q)
      BY <1>1 DEF Holding
    <2> QED BY <1>1, <2>1, SameHolders DEF LockInv, LockTypeOK
  <1>5. ReadersInv'
    BY <1>1 DEF LockInv, ReadersInv, ToCome
  <1> QED BY <1>1, <1>3, <1>4, <1>5 DEF LockInv, TopInv, Top, BelowInv, LoopInv, FrontInv

-----------------------------------------------------------------------------
(* The steps of the calls in progress.                                      *)
LEMMA CallsInv ==
    ASSUME LockParameters, ClearOnly, LockInv, NEW r \in Request, Calls(r)
    PROVE  LockInv' /\ Holders' = Holders
  <1>1. /\ stack # <<>> /\ stack[1].op = "call" /\ stack[1].request = r
        /\ status' = [status EXCEPT ![r] = "held"]
        /\ UNCHANGED <<lock, lockers, readQueue, writeQueue>>
        /\ stack \in Seq(Frames) /\ LockTypeOK /\ HoldersInv /\ status[r] = "calling"
    BY DEF Calls, Innermost, LockInv, TopInv, Top
  <1>2. HoldersInv' /\ Holders' = Holders
    <2>1. \A q \in Request : Holding(q)' = Holding(q)
      BY <1>1 DEF Holding, LockTypeOK
    <2> QED BY <1>1, <2>1, SameHolders
  <1>3. LockTypeOK'
    BY <1>1 DEF LockTypeOK
  <1>4. Len(stack) \in Nat /\ DOMAIN stack = 1..Len(stack) /\ Len(stack) >= 1
    BY <1>1
  <1>5. \A i \in DOMAIN readQueue : readQueue[i] \in Request /\ (ToCome(i) => readQueue[i] # r)
    BY <1>1 DEF LockInv, ReadersInv, LockTypeOK, Reader
  <1>6. (\A i \in DOMAIN readQueue : ToCome(i)' => ToCome(i)) => ReadersInv'
    BY <1>1, <1>5 DEF LockInv, ReadersInv, LockTypeOK
  <1>7. CASE r \in Brief
    <2>1. Release(r) \in Frames /\ Release(r).op = "release" /\ Release(r).request = r
      BY FramesMade
    <2>2. /\ stack' \in Seq(Frames) /\ Len(stack') = Len(stack) /\ stack'[1] = Release(r)
          /\ \A k \in 2..Len(stack) : stack'[k] = stack[k]
      BY <1>1, <1>7, <2>1, Replaced DEF Calls
    <2>3. /\ stack' # <<>> /\ DOMAIN stack' = 1..Len(stack)
          /\ \A k \in DOMAIN stack' : k # 1 => stack'[k] = stack[k] /\ k \in DOMAIN stack
      BY <1>4, <2>2
    <2>4. \A k \in DOMAIN stack : stack[k].op # "readers"
      BY <1>1, <1>7 DEF ClearOnly, LockInv, LoopInv
    <2>5. TopInv' /\ BelowInv' /\ LoopInv'
      BY <1>1, <2>1, <2>2, <2>3, <2>4 DEF LockInv, TopInv, Top, BelowInv, LoopInv, LockTypeOK
    <2>6. FrontInv'
      BY <1>1, <1>7, <2>1, <2>2, <2>3 DEF LockInv, FrontInv
    <2>7. ReadersInv'
      BY <1>6, <2>4 DEF ToCome
    <2> QED BY <1>2, <1>3, <2>2, <2>5, <2>6, <2>7 DEF LockInv
  <1>8. CASE r \notin Brief
    <2>2. /\ stack' \in Seq(Frames) /\ Len(stack') = Len(stack) - 1
          /\ \A k \in 1..Len(stack) - 1 : stack'[k] = stack[k + 1]
      BY <1>1, <1>8, Popped DEF Calls
    <2>3. /\ DOMAIN stack' = 1..Len(stack) - 1 /\ (stack' # <<>> => 1 \in DOMAIN stack')
          /\ \A k \in DOMAIN stack' : stack'[k] = stack[k + 1] /\ k + 1 \in DOMAIN stack /\ k + 1 # 1 /\ k \in Nat
      BY <1>4, <2>2
    <2>4. \A k \in DOMAIN stack' : stack'[k].op \in {"popWriter", "readers", "onFile", "shown"}
      BY <2>3 DEF LockInv, BelowInv
    <2>5. TopInv' /\ BelowInv'
      BY <2>3, <2>4 DEF TopInv, Top, BelowInv
    <2>6. LoopInv'
      <3>1. \A k \in DOMAIN stack' : stack'[k].op = "readers" => k + 1 = 2 /\ lock # "Write"
        BY <2>3 DEF LockInv, LoopInv
      <3>2. \A k \in DOMAIN stack' : stack'[k].op = "readers" => k = 1
        BY <2>3, <3>1
      <3>3. \A k, j \in DOMAIN stack' : stack'[k].op = "readers" => stack'[j].op # "popWriter"
        BY <2>3 DEF LockInv, LoopInv
      <3> QED BY <1>1, <3>1, <3>2, <3>3 DEF LoopInv
    <2>7. FrontInv'
      <3>1. \A k \in DOMAIN stack' : stack'[k].op = "popWriter" => ~(k + 1 > 2) /\ writeQueue # <<>>
        BY <1>1, <1>8, <2>3 DEF LockInv, FrontInv
      <3>2. \A k \in DOMAIN stack' : stack'[k].op = "popWriter" => k = 1 /\ ~(k > 2)
        BY <2>3, <3>1
      <3>3. DOMAIN stack' # {} => stack'[1].op \in {"popWriter", "readers", "onFile", "shown"}
        BY <2>4, <3>2, <2>3
      <3> QED BY <1>1, <3>1, <3>2, <3>3 DEF FrontInv
    <2>8. ReadersInv'
      <3>1. \A k \in DOMAIN stack : k # 1 => k - 1 \in DOMAIN stack' /\ stack'[k - 1] = stack[k]
        BY <1>4, <2>2, <2>3
      <3>2. \A i \in DOMAIN readQueue : ToCome(i)' => ToCome(i)
        BY <1>1, <3>1 DEF ToCome
      <3> QED BY <1>6, <3>2
    <2> QED BY <1>2, <1>3, <2>2, <2>5, <2>6, <2>7, <2>8 DEF LockInv
  <1> QED BY <1>2, <1>7, <1>8

(* Only the call of a reader is ever on top of the loop.                    *)
LEMMA NoLoop ==
    ASSUME LoopInv, NEW op \in {"release", "finish", "popWriter", "onFile", "shown"}, Top(op)
    PROVE  \A k \in DOMAIN stack : stack[k].op # "readers"
  BY DEF LoopInv, Top

(* What is left of the stack when its top is taken off, and no loop or      *)
(* front writer was beneath.                                                *)
LEMMA PopInv ==
    ASSUME LockInv, stack # <<>>, stack' = Tail(stack),
           \A k \in DOMAIN stack : k # 1 => stack[k].op \notin {"readers", "popWriter"}
    PROVE  /\ (stack \in Seq(Frames))' /\ TopInv' /\ BelowInv' /\ LoopInv' /\ FrontInv'
           /\ \A k \in DOMAIN stack' : stack'[k].op # "readers"
  <1>1. stack \in Seq(Frames)
    BY DEF LockInv
  <1>2. /\ stack' \in Seq(Frames) /\ Len(stack') = Len(stack) - 1 /\ Len(stack) \in Nat
        /\ \A k \in 1..Len(stack) - 1 : stack'[k] = stack[k + 1]
    BY <1>1
  <1>3. /\ DOMAIN stack' = 1..Len(stack) - 1 /\ (stack' # <<>> => 1 \in DOMAIN stack')
        /\ \A k \in DOMAIN stack' : stack'[k] = stack[k + 1] /\ k + 1 \in DOMAIN stack /\ k + 1 # 1
    BY <1>1, <1>2
  <1>4. \A k \in DOMAIN stack' : stack'[k].op \in {"onFile", "shown"}
    BY <1>3 DEF LockInv, BelowInv
  <1> QED BY <1>2, <1>3, <1>4 DEF TopInv, Top, BelowInv, LoopInv, FrontInv

LEMMA ReleaseLockInv ==
    ASSUME LockParameters, LockInv, ReleaseLock
    PROVE  LockInv' /\ Holders' = Holders \ {stack[1].request}
  <1> DEFINE r == stack[1].request
  <1>1. /\ stack # <<>> /\ stack[1].op = "release" /\ r \in Request /\ status[r] = "held"
        /\ LockTypeOK /\ HoldersInv /\ stack \in Seq(Frames) /\ r \in Holders
    <2>1. stack # <<>> /\ stack[1].op = "release" /\ stack \in Seq(Frames)
      BY DEF ReleaseLock, Innermost, LockInv
    <2>2. stack[1] \in Frames
      BY <2>1
    <2> QED BY <2>1, <2>2, FrameFields DEF LockInv, TopInv, Top, Holders, Holding
  <1>2. PICK s \in {"idle", "done"} :
            /\ lockers' = RemoveAt(lockers, FirstOf(Key[r]))
            /\ status' = [status EXCEPT ![r] = s]
            /\ stack' = (IF lockers' = <<>> THEN <<Finish>> ELSE <<>>) \o Tail(stack)
            /\ UNCHANGED <<lock, readQueue, writeQueue>>
    <2>1. Head(stack).request = r
      BY <1>1
    <2>2. CASE r \in Repeated
      BY <2>1, <2>2 DEF ReleaseLock
    <2>3. CASE r \notin Repeated
      BY <2>1, <2>3 DEF ReleaseLock
    <2> QED BY <2>2, <2>3
  <1> HIDE DEF r
  <1>3. HoldersInv' /\ Holders' = Holders \ {r} /\ (lockers' = <<>> <=> Holders' = {})
    <2>1. s \notin {"calling", "held"}
      OBVIOUS
    <2> QED BY <1>1, <1>2, <2>1, ReleasedHolders
  <1>4. LockTypeOK'
    <2>1. lockers' \in Seq({Key[q] : q \in Request})
      <3>1. PICK f : Lockers(f)
        BY <1>1 DEF HoldersInv
      <3>2. FirstOf(Key[r]) \in DOMAIN lockers
        BY <1>1, <3>1, FirstOfKey DEF Lockers
      <3>3. lockers \in Seq({Key[q] : q \in Request}) /\ DOMAIN lockers = 1..Len(lockers)
        BY <1>1 DEF LockTypeOK
      <3> QED BY <1>2, <3>2, <3>3, Removed
    <2> QED BY <1>1, <1>2, <2>1 DEF LockTypeOK
  <1>5. \A k \in DOMAIN stack : stack[k].op # "readers"
    BY <1>1, NoLoop DEF LockInv, Top
  <1>6. ReadersInv'
    <2>1. \A i \in DOMAIN readQueue : status[readQueue[i]] = "queued" /\ readQueue[i] # r
      BY <1>1, <1>5 DEF LockInv, ReadersInv, ToCome
    <2> QED BY <1>1, <1>2, <2>1 DEF LockInv, ReadersInv, LockTypeOK
  <1>7. CASE lockers' = <<>>
    <2>1. /\ stack' \in Seq(Frames) /\ Len(stack') = Len(stack) /\ stack'[1] = Finish
          /\ \A k \in 2..Len(stack) : stack'[k] = stack[k]
      BY <1>1, <1>2, <1>7, FramesMade, Replaced
    <2>2. /\ stack' # <<>> /\ DOMAIN stack' = 1..Len(stack) /\ Finish.op = "finish"
          /\ \A k \in DOMAIN stack' : k # 1 => stack'[k] = stack[k] /\ k \in DOMAIN stack
      BY <1>1, <2>1, FramesMade
    <2>3. TopInv' /\ BelowInv' /\ LoopInv'
      BY <1>3, <1>5, <1>7, <2>1, <2>2 DEF LockInv, TopInv, Top, BelowInv, LoopInv
    <2>4. FrontInv'
      BY <1>1, <1>2, <2>1, <2>2 DEF LockInv, FrontInv
    <2> QED BY <1>3, <1>4, <1>6, <2>1, <2>3, <2>4 DEF LockInv, r
  <1>8. CASE lockers' # <<>>
    <2>1. \A k \in DOMAIN stack : stack[k].op # "popWriter"
      <3> SUFFICES ASSUME NEW k \in DOMAIN stack, stack[k].op = "popWriter" PROVE FALSE
        OBVIOUS
      <3>1. writeQueue # <<>> /\ r = writeQueue[1]
        BY <1>1 DEF LockInv, FrontInv, r
      <3>2. Kind[r] = "Write"
        <4>1. writeQueue[1] \in Writer
          BY <1>1, <3>1 DEF LockTypeOK
        <4> QED BY <3>1, <4>1 DEF Writer, Reader, LockParameters
      <3>3. \A q \in Holders : q = r
        BY <1>1, <3>2 DEF HoldersInv, WriterExcludes, Holders
      <3> QED BY <1>3, <1>8, <3>3
    <2>2. stack' = Tail(stack)
      BY <1>1, <1>2, <1>8, Popped
    <2>3. (stack \in Seq(Frames))' /\ TopInv' /\ BelowInv' /\ LoopInv' /\ FrontInv'
      BY <1>1, <1>5, <2>1, <2>2, PopInv
    <2> QED BY <1>3, <1>4, <1>6, <2>3 DEF LockInv, r
  <1> QED BY <1>7, <1>8

LEMMA OnLockFinishedInv ==
    ASSUME LockParameters, LockInv, OnLockFinished
    PROVE  LockInv'
  <1>1. /\ stack # <<>> /\ stack[1].op = "finish" /\ Holders = {} /\ stack \in Seq(Frames)
        /\ LockTypeOK /\ HoldersInv /\ UNCHANGED <<readQueue, writeQueue>>
    BY DEF OnLockFinished, Innermost, LockInv, TopInv, Top
  <1>2. \A k \in DOMAIN stack : stack[k].op # "readers"
    BY <1>1, NoLoop DEF LockInv, Top
  <1>3. \A i \in DOMAIN readQueue : status[readQueue[i]] = "queued"
    BY <1>1, <1>2 DEF LockInv, ReadersInv, ToCome
  <1>4. Len(stack) \in Nat /\ DOMAIN stack = 1..Len(stack) /\ Len(stack) >= 1
    BY <1>1
  <1>5. CASE writeQueue # <<>>
    <2> DEFINE w == writeQueue[1]
    <2>1. /\ w \in Writer /\ w \in Request /\ ~Holding(w)
          /\ lock' = Kind[w] /\ lockers' = Append(lockers, Key[w])
          /\ status' = [status EXCEPT ![w] = "calling"]
          /\ stack' = <<Call(w)>> \o (<<PopWriter>> \o Tail(stack))
      <3>1. w \in Writer /\ Head(writeQueue) = w
        BY <1>1, <1>5 DEF LockTypeOK
      <3> QED BY <1>1, <1>5, <3>1 DEF OnLockFinished, Grant, Writer, Holders
    <2>2. HoldersInv'
      BY <1>1, <2>1, GrantedHolders
    <2>3. LockTypeOK'
      BY <1>1, <2>1, LockersType DEF LockTypeOK, LockParameters
    <2>4. /\ stack' \in Seq(Frames) /\ Len(stack') = Len(stack) + 1 /\ stack'[1] = Call(w) /\ stack'[2] = PopWriter
          /\ \A k \in 3..Len(stack) + 1 : stack'[k] = stack[k - 1]
      BY <1>1, <2>1, FramesMade, Pushed
    <2>5. /\ stack' # <<>> /\ DOMAIN stack' = 1..Len(stack) + 1
          /\ stack'[1].op = "call" /\ stack'[1].request = w /\ stack'[2].op = "popWriter"
          /\ \A k \in DOMAIN stack' : k \in Nat /\ (k \notin {1, 2} =>
                 stack'[k] = stack[k - 1] /\ k - 1 \in DOMAIN stack /\ k - 1 # 1 /\ k > 2)
      BY <1>4, <2>1, <2>4, FramesMade
    <2>6. TopInv' /\ BelowInv' /\ LoopInv'
      <3>1. status'[w] = "calling"
        BY <1>1, <2>1 DEF LockTypeOK
      <3>2. \A k \in DOMAIN stack' : k \notin {1, 2} => stack'[k].op \in {"popWriter", "onFile", "shown"}
        BY <1>2, <2>5 DEF LockInv, BelowInv
      <3>3. TopInv'
        BY <2>5, <3>1 DEF TopInv, Top
      <3>4. BelowInv' /\ LoopInv'
        BY <2>5, <3>2 DEF BelowInv, LoopInv
      <3> QED BY <3>3, <3>4
    <2>7. FrontInv'
      <3>1. \A k \in DOMAIN stack' : stack'[k].op = "popWriter" => k = 2 \/ writeQueue[1] \in Brief
        BY <1>1, <2>5 DEF LockInv, FrontInv
      <3> QED BY <1>1, <1>5, <2>5, <3>1 DEF FrontInv
    <2>8. ReadersInv'
      <3>1. \A i \in DOMAIN readQueue : readQueue[i] # w
        BY <1>1, <2>1 DEF LockTypeOK, Writer
      <3> QED BY <1>1, <1>3, <2>1, <3>1 DEF LockInv, ReadersInv, LockTypeOK
    <2> QED BY <2>2, <2>3, <2>4, <2>6, <2>7, <2>8 DEF LockInv
  <1>6. CASE writeQueue = <<>>
    <2>1. /\ lock' = "None" /\ UNCHANGED <<lockers, status>>
          /\ stack' = (IF readQueue # <<>> THEN <<Readers(1)>> ELSE <<>>) \o Tail(stack)
      BY <1>6 DEF OnLockFinished
    <2>2. HoldersInv'
      <3>1. Holders' = {}
        BY <1>1, <2>1 DEF Holders, Holding
      <3>2. PICK f : Lockers(f)
        BY <1>1 DEF HoldersInv
      <3>3. Lockers(f)'
        BY <1>1, <2>1, <3>1, <3>2 DEF Lockers
      <3> QED BY <3>1, <3>3 DEF HoldersInv, WriterExcludes, Holders
    <2>3. LockTypeOK'
      BY <1>1, <2>1 DEF LockTypeOK
    <2>4. \A k \in DOMAIN stack : stack[k].op # "popWriter"
      BY <1>6 DEF LockInv, FrontInv
    <2>5. ReadersInv'
      BY <1>1, <1>3, <2>1 DEF LockInv, ReadersInv
    <2>6. CASE readQueue # <<>>
      <3>0. Readers(1) \in Frames /\ Readers(1).op = "readers"
        BY FramesMade
      <3>1. /\ stack' \in Seq(Frames) /\ Len(stack') = Len(stack) /\ stack'[1] = Readers(1)
            /\ \A k \in 2..Len(stack) : stack'[k] = stack[k]
        BY <1>1, <2>1, <2>6, <3>0, Replaced
      <3>2. /\ stack' # <<>> /\ DOMAIN stack' = 1..Len(stack) /\ stack'[1].op = "readers"
            /\ \A k \in DOMAIN stack' : k # 1 => stack'[k] = stack[k] /\ k \in DOMAIN stack
        BY <1>4, <3>0, <3>1
      <3>3. \A k \in DOMAIN stack' : k # 1 => stack'[k].op \in {"onFile", "shown"}
        BY <1>2, <2>4, <3>2 DEF LockInv, BelowInv
      <3>4. TopInv' /\ BelowInv'
        BY <3>2, <3>3 DEF TopInv, Top, BelowInv
      <3>5. LoopInv' /\ FrontInv'
        BY <2>1, <3>2, <3>3 DEF LoopInv, FrontInv
      <3> QED BY <2>2, <2>3, <2>5, <3>1, <3>4, <3>5 DEF LockInv
    <2>7. CASE readQueue = <<>>
      <3>1. stack' = Tail(stack)
        BY <1>1, <2>1, <2>7, Popped
      <3>2. (stack \in Seq(Frames))' /\ TopInv' /\ BelowInv' /\ LoopInv' /\ FrontInv'
        BY <1>1, <1>2, <2>4, <3>1, PopInv
      <3> QED BY <2>2, <2>3, <2>5, <3>2 DEF LockInv
    <2> QED BY <2>6, <2>7
  <1> QED BY <1>5, <1>6

LEMMA PopsWriterInv ==
    ASSUME LockInv, PopsWriter
    PROVE  LockInv' /\ Holders' = Holders
  <1>1. /\ stack # <<>> /\ stack[1].op = "popWriter" /\ stack' = Tail(stack) /\ stack \in Seq(Frames)
        /\ writeQueue' = Tail(writeQueue) /\ UNCHANGED <<lock, lockers, readQueue, status>>
        /\ LockTypeOK /\ HoldersInv
    BY DEF PopsWriter, Innermost, LockInv
  <1>2. HoldersInv' /\ Holders' = Holders
    BY <1>1, SameHolders DEF Holding
  <1>3. LockTypeOK'
    <2>1. writeQueue # <<>>
      <3>1. 1 \in DOMAIN stack
        BY <1>1
      <3> QED BY <1>1, <3>1 DEF LockInv, FrontInv
    <2> QED BY <1>1, <2>1 DEF LockTypeOK
  <1>4. \A k \in DOMAIN stack : stack[k].op # "readers"
    BY <1>1, NoLoop DEF LockInv, Top
  <1>5. \A k \in DOMAIN stack : k # 1 => stack[k].op # "popWriter"
    BY <1>1 DEF LockInv, FrontInv
  <1>6. (stack \in Seq(Frames))' /\ TopInv' /\ BelowInv' /\ LoopInv' /\ FrontInv'
    BY <1>1, <1>4, <1>5, PopInv
  <1>7. ReadersInv'
    BY <1>1, <1>4 DEF LockInv, ReadersInv, ToCome
  <1> QED BY <1>2, <1>3, <1>6, <1>7 DEF LockInv

LEMMA GrantsReaderInv ==
    ASSUME LockParameters, LockInv, GrantsReader
    PROVE  LockInv'
  <1> DEFINE n == stack[1].next
  <1>1. /\ stack # <<>> /\ stack[1].op = "readers" /\ stack \in Seq(Frames) /\ LockTypeOK /\ HoldersInv
        /\ UNCHANGED writeQueue /\ 1 \in DOMAIN stack /\ n \in Nat \ {0} /\ Head(stack).next = n
    <2>1. stack # <<>> /\ stack[1].op = "readers" /\ stack \in Seq(Frames) /\ 1 \in DOMAIN stack /\ Head(stack) = stack[1]
      BY DEF GrantsReader, Innermost, LockInv
    <2>2. stack[1] \in Frames
      BY <2>1
    <2> QED BY <2>1, <2>2, FrameFields DEF LockInv, GrantsReader
  <1> HIDE DEF n
  <1>2. /\ \A k \in DOMAIN stack : k # 1 => stack[k].op # "readers"
        /\ \A k \in DOMAIN stack : stack[k].op # "popWriter"
        /\ lock # "Write"
    BY <1>1 DEF LockInv, LoopInv
  <1>3. Len(stack) \in Nat /\ DOMAIN stack = 1..Len(stack) /\ Len(stack) >= 1
    BY <1>1
  <1>4. DOMAIN readQueue = 1..Len(readQueue) /\ Len(readQueue) \in Nat
    BY <1>1 DEF LockTypeOK
  <1>5. CASE n <= Len(readQueue)
    <2> DEFINE r == readQueue[n]
    <2>1. /\ r \in Reader /\ r \in Request /\ Kind[r] = "Read" /\ n \in DOMAIN readQueue
      BY <1>1, <1>4, <1>5 DEF LockTypeOK, Reader
    <2>2. /\ lock' = "Read" /\ lockers' = Append(lockers, Key[r])
          /\ status' = [status EXCEPT ![r] = "calling"] /\ UNCHANGED readQueue
          /\ stack' = <<Call(r)>> \o (<<Readers(n + 1)>> \o Tail(stack))
      BY <1>1, <1>5, <2>1 DEF GrantsReader, Grant
    <2>3. status[r] = "queued" /\ ~Holding(r)
      <3>1. n <= n
        BY <1>1
      <3>2. ToCome(n)
        BY <1>2, <3>1 DEF ToCome, n
      <3> QED BY <2>1, <3>2 DEF LockInv, ReadersInv, Holding
    <2>4. HoldersInv'
      BY <1>1, <1>2, <2>1, <2>2, <2>3, GrantedHolders
    <2>5. LockTypeOK'
      BY <1>1, <2>1, <2>2, LockersType DEF LockTypeOK
    <2>6. /\ Call(r) \in Frames /\ Call(r).op = "call" /\ Call(r).request = r /\ n + 1 \in Nat \ {0}
          /\ Readers(n + 1) \in Frames /\ Readers(n + 1).op = "readers" /\ Readers(n + 1).next = n + 1
      <3>1. n + 1 \in Nat \ {0}
        BY <1>1
      <3> QED BY <2>1, <3>1, FramesMade
    <2>7. /\ stack' \in Seq(Frames) /\ Len(stack') = Len(stack) + 1
          /\ stack'[1] = Call(r) /\ stack'[2] = Readers(n + 1)
          /\ \A k \in 3..Len(stack) + 1 : stack'[k] = stack[k - 1]
      BY <1>1, <2>2, <2>6, Pushed
    <2>8. /\ stack' # <<>> /\ DOMAIN stack' = 1..Len(stack) + 1
          /\ \A k \in DOMAIN stack' : k \notin {1, 2} =>
                 stack'[k] = stack[k - 1] /\ k - 1 \in DOMAIN stack /\ k - 1 # 1
      BY <1>3, <2>7
    <2>9. \A k \in DOMAIN stack' : k \notin {1, 2} => stack'[k].op \in {"onFile", "shown"}
      BY <1>2, <2>8 DEF LockInv, BelowInv
    <2>10. TopInv' /\ BelowInv' /\ LoopInv' /\ FrontInv'
      <3>1. /\ stack'[1].op = "call" /\ stack'[1].request = r /\ stack'[2].op = "readers" /\ status'[r] = "calling"
            /\ r \in Reader
        BY <1>1, <2>1, <2>2, <2>6, <2>7 DEF LockTypeOK
      <3>2. TopInv' /\ BelowInv'
        BY <2>9, <3>1 DEF TopInv, Top, BelowInv
      <3>3. LoopInv' /\ FrontInv'
        BY <2>2, <2>9, <3>1 DEF LoopInv, FrontInv
      <3> QED BY <3>2, <3>3
    <2>11. ReadersInv'
      <3>1. \A m \in DOMAIN readQueue : ToCome(m)' => m >= n + 1
        BY <1>3, <2>6, <2>7, <2>8 DEF ToCome
      <3>2. \A m \in DOMAIN readQueue : m >= n + 1 => ToCome(m) /\ m # n
        BY <1>1, <1>2, <1>4 DEF ToCome, n
      <3>3. \A m \in DOMAIN readQueue : m >= n + 1 => status[readQueue[m]] = "queued" /\ readQueue[m] # r
        BY <2>1, <3>2 DEF LockInv, ReadersInv
      <3> QED BY <1>1, <2>1, <2>2, <3>1, <3>3 DEF LockInv, ReadersInv, LockTypeOK
    <2> QED BY <2>4, <2>5, <2>7, <2>10, <2>11 DEF LockInv
  <1>6. CASE ~(n <= Len(readQueue))
    <2>1. readQueue' = <<>> /\ stack' = Tail(stack) /\ UNCHANGED <<lock, lockers, status>>
      BY <1>1, <1>6 DEF GrantsReader
    <2>2. HoldersInv'
      BY <1>1, <2>1, SameHolders DEF Holding
    <2>3. LockTypeOK' /\ ReadersInv'
      BY <1>1, <2>1 DEF LockTypeOK, ReadersInv
    <2>4. (stack \in Seq(Frames))' /\ TopInv' /\ BelowInv' /\ LoopInv' /\ FrontInv'
      BY <1>1, <1>2, <2>1, PopInv
    <2> QED BY <2>2, <2>3, <2>4 DEF LockInv
  <1> QED BY <1>5, <1>6

LEMMA OnFileInv ==
    ASSUME LockInv, Innermost("onFile") \/ Innermost("shown"), stack' = Tail(stack),
           UNCHANGED <<lock, lockers, readQueue, writeQueue, status>>
    PROVE  LockInv' /\ Holders' = Holders
  <1>1. stack # <<>> /\ stack[1].op \in {"onFile", "shown"} /\ LockTypeOK /\ HoldersInv
    BY DEF Innermost, LockInv
  <1>2. HoldersInv' /\ Holders' = Holders /\ LockTypeOK'
    BY <1>1, SameHolders DEF Holding, LockTypeOK
  <1>3. \A k \in DOMAIN stack : stack[k].op # "readers"
    BY <1>1, NoLoop DEF LockInv, Top
  <1>4. \A k \in DOMAIN stack : k # 1 => stack[k].op # "popWriter"
    BY <1>1 DEF LockInv, FrontInv
  <1>5. (stack \in Seq(Frames))' /\ TopInv' /\ BelowInv' /\ LoopInv' /\ FrontInv'
    BY <1>1, <1>3, <1>4, PopInv
  <1>6. ReadersInv'
    BY <1>3 DEF LockInv, ReadersInv, ToCome
  <1> QED BY <1>2, <1>5, <1>6 DEF LockInv

LEMMA SameLock == ASSUME LockInv, UNCHANGED lockVars PROVE LockInv' /\ Holders' = Holders
  <1>1. UNCHANGED <<lock, lockers, readQueue, writeQueue, stack, status>>
    BY DEF lockVars
  <1>2. HoldersInv' /\ Holders' = Holders
    BY <1>1, SameHolders DEF Holding, LockInv
  <1> QED BY <1>1, <1>2 DEF LockInv, LockTypeOK, TopInv, Top, BelowInv, LoopInv, FrontInv, ReadersInv, ToCome
-----------------------------------------------------------------------------
(* What a step of the lock does to a swap that has it.                      *)
LEMMA Beneath ==
    ASSUME LockInv, stack # <<>>, stack' = Tail(stack)
    PROVE  ~Top("release")'
  <1>1. stack \in Seq(Frames)
    BY DEF LockInv
  <1>2. stack' # <<>> => 2 \in DOMAIN stack /\ stack'[1] = stack[2]
    BY <1>1
  <1> QED BY <1>2 DEF LockInv, BelowInv, Top

LEMMA OnTop ==
    ASSUME LockInv, stack # <<>>, NEW a \in Frames, NEW b \in Frames,
           \/ stack' = <<a>> \o Tail(stack)
           \/ stack' = <<a>> \o (<<b>> \o Tail(stack))
    PROVE  stack' # <<>> /\ stack'[1] = a
  <1>1. stack \in Seq(Frames)
    BY DEF LockInv
  <1>2. CASE stack' = <<a>> \o Tail(stack)
    <2>1. stack' \in Seq(Frames) /\ Len(stack') = Len(stack) /\ stack'[1] = a /\ Len(stack) # 0
      BY <1>1, <1>2, Replaced
    <2> QED BY <2>1
  <1>3. CASE stack' = <<a>> \o (<<b>> \o Tail(stack))
    <2>1. stack' \in Seq(Frames) /\ Len(stack') = Len(stack) + 1 /\ stack'[1] = a /\ Len(stack) \in Nat
      BY <1>1, <1>3, Pushed
    <2> QED BY <2>1
  <1> QED BY <1>2, <1>3

LEMMA LockStepKeeps ==
    ASSUME LockParameters, LockInv, ReleaseLock \/ OnLockFinished \/ PopsWriter \/ GrantsReader,
           NEW w \in Writer
    PROVE  ~Leaving(w)' /\ (status[w] = "held" => status'[w] = "held" \/ Leaving(w))
  <1>0. stack # <<>> /\ stack \in Seq(Frames) /\ LockTypeOK /\ w \in Request
    BY DEF ReleaseLock, OnLockFinished, PopsWriter, GrantsReader, Innermost, LockInv, Writer
  <1>1. CASE ReleaseLock
    <2>1. /\ stack' = (IF lockers' = <<>> THEN <<Finish>> ELSE <<>>) \o Tail(stack)
          /\ \A q \in Request : q # stack[1].request => status'[q] = status[q]
      BY <1>0, <1>1 DEF ReleaseLock, LockTypeOK
    <2>2. ~Top("release")'
      <3>1. CASE lockers' = <<>>
        <4>1. stack' = <<Finish>> \o Tail(stack)
          BY <2>1, <3>1
        <4> QED BY <1>0, <4>1, FramesMade, OnTop DEF Top
      <3>2. CASE lockers' # <<>>
        BY <1>0, <2>1, <3>2, Popped, Beneath
      <3> QED BY <3>1, <3>2
    <2>3. stack[1].op = "release"
      BY <1>0, <1>1 DEF ReleaseLock, Innermost
    <2> QED BY <1>0, <2>1, <2>2, <2>3 DEF Leaving, Top
  <1>2. CASE OnLockFinished
    <2>1. status[w] # "held"
      BY <1>0, <1>2 DEF OnLockFinished, Innermost, LockInv, TopInv, Top, Holders, Holding
    <2>2. ~Top("release")'
      <3>1. CASE writeQueue # <<>>
        <4>1. Head(writeQueue) \in Request
          BY <1>0, <3>1 DEF LockTypeOK, Writer
        <4>2. stack' = <<Call(Head(writeQueue))>> \o (<<PopWriter>> \o Tail(stack))
          BY <1>2, <3>1 DEF OnLockFinished, Grant
        <4> QED BY <1>0, <4>1, <4>2, FramesMade, OnTop DEF Top
      <3>2. CASE writeQueue = <<>> /\ readQueue # <<>>
        <4>1. stack' = <<Readers(1)>> \o Tail(stack) /\ Readers(1) \in Frames /\ Readers(1).op = "readers"
          BY <1>2, <3>2, FramesMade DEF OnLockFinished
        <4> QED BY <1>0, <4>1, OnTop DEF Top
      <3>3. CASE writeQueue = <<>> /\ readQueue = <<>>
        <4>1. stack' = <<>> \o Tail(stack)
          BY <1>2, <3>3 DEF OnLockFinished
        <4> QED BY <1>0, <4>1, Popped, Beneath
      <3> QED BY <3>1, <3>2, <3>3
    <2> QED BY <2>1, <2>2 DEF Leaving, Top
  <1>3. CASE PopsWriter
    <2>1. stack' = Tail(stack) /\ UNCHANGED status
      BY <1>3 DEF PopsWriter
    <2> QED BY <1>0, <2>1, Beneath DEF Leaving, Top
  <1>4. CASE GrantsReader
    <2> DEFINE n == Head(stack).next
    <2>0. n \in Nat \ {0}
      <3>1. Head(stack) \in Frames /\ Head(stack).op = "readers"
        BY <1>0, <1>4 DEF GrantsReader, Innermost
      <3> QED BY <3>1, FrameFields
    <2> HIDE DEF n
    <2>1. CASE n <= Len(readQueue)
      <3> DEFINE r == readQueue[n]
      <3>1. r \in Reader /\ r \in Request /\ w # r
        BY <1>0, <2>0, <2>1 DEF LockTypeOK, Reader, Writer
      <3>2. /\ stack' = <<Call(r)>> \o (<<Readers(n + 1)>> \o Tail(stack))
            /\ status' = [status EXCEPT ![r] = "calling"]
        BY <1>4, <2>1 DEF GrantsReader, Grant, n
      <3>3. Readers(n + 1) \in Frames /\ Call(r) \in Frames /\ Call(r).op = "call"
        <4>1. n + 1 \in Nat \ {0}
          BY <2>0
        <4> QED BY <3>1, <4>1, FramesMade
      <3>4. ~Top("release")'
        BY <1>0, <3>2, <3>3, OnTop DEF Top
      <3> QED BY <1>0, <3>1, <3>2, <3>4 DEF Leaving, Top, LockTypeOK
    <2>2. CASE ~(n <= Len(readQueue))
      <3>1. stack' = Tail(stack) /\ UNCHANGED status
        BY <1>4, <2>2 DEF GrantsReader, n
      <3> QED BY <1>0, <3>1, Beneath DEF Leaving, Top
    <2> QED BY <2>1, <2>2
  <1> QED BY <1>1, <1>2, <1>3, <1>4

LEMMA CallsKeeps ==
    ASSUME LockInv, NEW r \in Request, Calls(r), NEW w \in Request
    PROVE  /\ status[w] = "held" \/ w = r => status'[w] = "held"
           /\ Leaving(w)' => w = r /\ r \in Brief
           /\ status[r] = "calling"
  <1>1. /\ stack # <<>> /\ stack[1].op = "call" /\ stack[1].request = r
        /\ status' = [status EXCEPT ![r] = "held"]
        /\ stack \in Seq(Frames) /\ LockTypeOK /\ status[r] = "calling"
    BY DEF Calls, Innermost, LockInv, TopInv, Top
  <1>2. CASE r \in Brief
    <2>1. stack' = <<Release(r)>> \o Tail(stack) /\ Release(r) \in Frames /\ Release(r).request = r
      BY <1>2, FramesMade DEF Calls
    <2>2. stack'[1] = Release(r)
      BY <1>1, <2>1, OnTop
    <2> QED BY <1>1, <1>2, <2>1, <2>2 DEF Leaving, Top, LockTypeOK
  <1>3. CASE r \notin Brief
    <2>1. stack' = <<>> \o Tail(stack)
      BY <1>3 DEF Calls
    <2>2. ~Top("release")'
      BY <1>1, <2>1, Popped, Beneath
    <2> QED BY <1>1, <2>2 DEF Leaving, Top, LockTypeOK
  <1> QED BY <1>2, <1>3

LEMMA RetainKeeps ==
    ASSUME LockInv, NEW r \in Request, Retain(r), NEW w \in Request
    PROVE  /\ status[w] = "held" => status'[w] = "held"
           /\ ~Leaving(w)'
  <1>1. stack = <<>> /\ status[r] = "idle" /\ status \in [Request -> {"idle", "queued", "calling", "held", "done"}]
    BY DEF Retain, Idle, LockInv, LockTypeOK
  <1>2. \E s : status' = [status EXCEPT ![r] = s]
    BY DEF Retain, Grant, Enqueue
  <1>3. stack' = <<>> \/ stack'[1].op = "call"
    <2>1. stack' = <<>> \/ stack' = <<Call(r)>> \o <<>>
      BY <1>1 DEF Retain, Grant
    <2>2. Call(r) \in Frames /\ Call(r).op = "call" /\ <<>> \in Seq(Frames)
      BY FramesMade
    <2>3. stack' = <<Call(r)>> \o <<>> => stack'[1] = Call(r)
      BY <2>2, Put
    <2> QED BY <2>1, <2>2, <2>3
  <1> QED BY <1>1, <1>2, <1>3 DEF Leaving, Top
-----------------------------------------------------------------------------
(* The types of the asset.                                                  *)

LEMMA CalledMade ==
    ASSUME AssetParameters
    PROVE  /\ Opened \in Called
           /\ \A s, t \in BOOLEAN, v \in 0..MaxVersion : Completed(s, t, v) \in Called
           /\ \A w \in Swap : Swapped(w) \in Called
           /\ \A c \in Called : /\ c.what = "swapped" => c.swap \in Swap /\ c = Swapped(c.swap)
                                /\ c.what = "completed" => /\ c.success \in BOOLEAN /\ c.isFile \in BOOLEAN
                                                           /\ c.version \in 0..MaxVersion
  BY DEF Called, Opened, Completed, Swapped

LEMMA ValuesMade ==
    ASSUME AssetParameters
    PROVE  /\ 0 \in 0..MaxVersion /\ Missing \in Contents
           /\ \A u, v \in 0..MaxVersion : <<u, v>> \in Contents
           /\ \A v \in 0..MaxVersion : Half(v) \in Contents
           /\ \A f : Exists(f) \in BOOLEAN
           /\ \A v \in 0..MaxVersion, d \in BOOLEAN : Row(v, d) \in Rows
           /\ \A c \in Contents : c[1] \in 0..MaxVersion /\ c[2] \in 0..MaxVersion
  BY DEF AssetParameters, Contents, Missing, Half, Exists, Row, Rows

LEMMA InitTypes == ASSUME LockParameters, AssetParameters, Init PROVE Types
  <1>1. LockTypeOK
    BY DEF Init, LockInit, LockTypeOK
  <1>2. server \in Version /\ file \in Contents /\ temp \in Contents /\ mtime \in 0..MaxVersion
    BY ValuesMade DEF Init, AssetParameters, Version
  <1>3. row \in Rows
    <2>1. 0 \in 0..MaxVersion /\ FALSE \in BOOLEAN
      BY ValuesMade
    <2> QED BY <2>1, ValuesMade DEF Init
  <1>4. {fileExisted, unupdated, waitFileSwap, downloadInProgress, fileUpdate} \subseteq BOOLEAN
    BY DEF Init
  <1>5. download.state = "none" /\ ThreadsOK
    BY ValuesMade DEF Init, ThreadsOK, NoDownload
  <1>6. work \in Seq(Works) /\ version \in [Swap -> 0..MaxVersion]
    BY ValuesMade DEF Init
  <1> QED BY <1>1, <1>2, <1>3, <1>4, <1>5, <1>6 DEF Types, TypeOK, Rows, Works

LEMMA DownloadTypes ==
    ASSUME AssetParameters, Types, LockTypeOK',
           StartDownload \/ UNCHANGED <<flags, download, work, saves, version>>,
           calls' = calls \/ (calls # <<>> /\ calls' = Tail(calls)), UNCHANGED <<server, disk>>
    PROVE  Types'
  <1>0. calls' \in Seq(Called)
    <2>1. calls \in Seq(Called)
      BY DEF Types, ThreadsOK
    <2> QED BY <2>1
  <1>1. CASE StartDownload
    <2>1. Row(mtime, TRUE) \in Rows /\ mtime \in 0..MaxVersion
      BY ValuesMade DEF Types, TypeOK
    <2>2. saves' \in Seq(Rows)
      <3>1. saves' = Append(saves, Row(mtime, TRUE)) /\ saves \in Seq(Rows)
        BY <1>1 DEF StartDownload, Save, Types, ThreadsOK
      <3> QED BY <2>1, <3>1, Appended
    <2>3. download' \in [state : {"none", "asked", "receiving", "answered"},
                         known : 0 .. MaxVersion, version : 0 .. MaxVersion]
      BY <1>1, <2>1, ValuesMade DEF StartDownload, Asked
    <2>4. {fileExisted, unupdated, waitFileSwap, downloadInProgress, fileUpdate}' \subseteq BOOLEAN
      <3>1. {fileExisted, unupdated, waitFileSwap, fileUpdate} \subseteq BOOLEAN
        BY DEF Types, TypeOK
      <3> QED BY <1>1, <3>1 DEF StartDownload
    <2>5. UNCHANGED <<mtime, work, version, server, file, temp, row>>
      BY <1>1 DEF StartDownload, disk
    <2> QED BY <1>0, <2>2, <2>3, <2>4, <2>5 DEF Types, TypeOK, ThreadsOK
  <1>2. CASE UNCHANGED <<flags, download, work, saves, version>>
    BY <1>0, <1>2 DEF Types, TypeOK, ThreadsOK, flags, disk
  <1> QED BY <1>1, <1>2

LEMMA CompletedTypes ==
    ASSUME AssetParameters, Types, LockTypeOK', OnCompleted
    PROVE  Types'
  <1> DEFINE c == Head(calls)
  <1>1. c \in Called /\ c.what = "completed" /\ calls' \in Seq(Called)
    BY DEF OnCompleted, Dequeue, Types, ThreadsOK
  <1>2. c.success \in BOOLEAN /\ c.isFile \in BOOLEAN /\ c.version \in 0..MaxVersion
    BY <1>1, CalledMade
  <1>3. /\ download' = NoDownload /\ downloadInProgress' = FALSE
        /\ UNCHANGED <<server, file, row, fileExisted, fileUpdate, mtime, work>>
    BY DEF OnCompleted
  <1>4. download' \in [state : {"none", "asked", "receiving", "answered"},
                       known : 0 .. MaxVersion, version : 0 .. MaxVersion]
    BY <1>3, ValuesMade DEF NoDownload
  <1>5. version' \in [Swap -> 0..MaxVersion] /\ waitFileSwap' \in BOOLEAN
    BY <1>2 DEF OnCompleted, Types, TypeOK
  <1>6. temp' \in Contents /\ saves' \in Seq(Rows) /\ unupdated' \in BOOLEAN
    <2>1. Row(mtime, FALSE) \in Rows
      BY ValuesMade DEF Types, TypeOK
    <2>2. CASE c.success /\ c.isFile
      BY <2>2 DEF OnCompleted, Types, TypeOK, ThreadsOK
    <2>3. CASE ~(c.success /\ c.isFile)
      <3>1. unupdated' \in BOOLEAN
        BY <1>2, <2>3 DEF OnCompleted
      <3>2. temp' \in {temp, Missing} /\ saves' = Append(saves, Row(mtime, FALSE))
        BY <2>3 DEF OnCompleted, Save
      <3>3. temp \in Contents /\ saves \in Seq(Rows) /\ Missing \in Contents
        BY ValuesMade DEF Types, TypeOK, ThreadsOK
      <3>4. saves' \in Seq(Rows)
        BY <2>1, <3>2, <3>3, Appended
      <3> QED BY <3>1, <3>2, <3>3, <3>4
    <2> QED BY <2>2, <2>3
  <1>7. {fileExisted, unupdated, waitFileSwap, downloadInProgress, fileUpdate}' \subseteq BOOLEAN
    <2>1. {fileExisted, fileUpdate} \subseteq BOOLEAN
      BY DEF Types, TypeOK
    <2> QED BY <1>3, <1>5, <1>6, <2>1
  <1> QED BY <1>1, <1>3, <1>4, <1>5, <1>6, <1>7 DEF Types, TypeOK, ThreadsOK

LEMMA SwapTypes ==
    ASSUME AssetParameters, Types, LockTypeOK', NEW w \in Swap, SwapCalled(w) \/ OnSwapped(w)
    PROVE  Types'
  <1>1. CASE SwapCalled(w)
    <2>1. work' \in Seq(Works)
      BY <1>1 DEF SwapCalled, Types, TypeOK, Works
    <2>2. {fileExisted, unupdated, waitFileSwap, downloadInProgress, fileUpdate}' \subseteq BOOLEAN
      <3>1. {fileExisted, unupdated, waitFileSwap, downloadInProgress} \subseteq BOOLEAN
        BY DEF Types, TypeOK
      <3> QED BY <1>1, <3>1 DEF SwapCalled
    <2> QED BY <1>1, <2>1, <2>2 DEF SwapCalled, Types, TypeOK, ThreadsOK, Works, disk
  <1>2. CASE OnSwapped(w)
    <2>1. version[w] \in 0..MaxVersion /\ (download # NoDownload) \in BOOLEAN
      BY DEF Types, TypeOK
    <2>2. saves' \in Seq(Rows) /\ calls' \in Seq(Called)
      <3>1. Row(version[w], download # NoDownload) \in Rows
        BY <2>1, ValuesMade
      <3> QED BY <1>2, <3>1 DEF OnSwapped, Dequeue, Save, Types, ThreadsOK
    <2>3. {fileExisted, unupdated, waitFileSwap, downloadInProgress, fileUpdate}' \subseteq BOOLEAN
      <3>1. downloadInProgress \in BOOLEAN /\ Exists(file) \in BOOLEAN
        BY ValuesMade DEF Types, TypeOK
      <3> QED BY <1>2, <3>1 DEF OnSwapped
    <2> QED BY <1>2, <2>1, <2>2, <2>3 DEF OnSwapped, Types, TypeOK, ThreadsOK, disk
  <1> QED BY <1>1, <1>2

(* Functions that only look at the file again.                              *)
LEMMA FileTypes ==
    ASSUME AssetParameters, Types, LockTypeOK',
           fileExisted' \in BOOLEAN, fileUpdate' \in BOOLEAN, file' \in Contents,
           UNCHANGED <<server, temp, row, unupdated, waitFileSwap, downloadInProgress, mtime, threads>>
    PROVE  Types'
  <1>1. {fileExisted, unupdated, waitFileSwap, downloadInProgress, fileUpdate}' \subseteq BOOLEAN
    <2>1. {unupdated, waitFileSwap, downloadInProgress} \subseteq BOOLEAN
      BY DEF Types, TypeOK
    <2> QED BY <2>1
  <1> QED BY <1>1 DEF Types, TypeOK, ThreadsOK, threads

LEMMA NetworkTypes ==
    ASSUME AssetParameters, Types, LockTypeOK', Refused \/ Failed \/ Responded \/ Received
    PROVE  Types'
  <1>1. server \in 0..MaxVersion /\ download.version \in 0..MaxVersion /\ temp \in Contents
    BY DEF Types, TypeOK, ThreadsOK, Version
  <1>2. temp' \in Contents
    <2>1. temp[1] \in 0..MaxVersion
      BY <1>1, ValuesMade
    <2> QED BY <1>1, <2>1, ValuesMade DEF Refused, Failed, Responded, Received
  <1>3. download' \in [state : {"none", "asked", "receiving", "answered"},
                       known : 0 .. MaxVersion, version : 0 .. MaxVersion]
    BY <1>1 DEF Refused, Failed, Responded, Received, Answer, Types, ThreadsOK
  <1>4. calls' \in Seq(Called)
    <2>1. Completed(TRUE, FALSE, 0) \in Called /\ Completed(FALSE, TRUE, 0) \in Called
          /\ Completed(TRUE, TRUE, download.version) \in Called
      BY <1>1, CalledMade, ValuesMade
    <2>2. calls \in Seq(Called) /\ (calls' = calls \/ \E c \in Called : calls' = Append(calls, c))
      BY <2>1 DEF Refused, Failed, Responded, Received, Answer, Post, Types, ThreadsOK
    <2> QED BY <2>2
  <1>5. UNCHANGED <<server, file, row, flags, work, saves, version>>
    BY DEF Refused, Failed, Responded, Received, Answer
  <1> QED BY <1>2, <1>3, <1>4, <1>5 DEF Types, TypeOK, ThreadsOK, flags

LEMMA StorageTypes ==
    ASSUME AssetParameters, Types, LockTypeOK', RemoveOriginal \/ MoveTemp \/ SaveRow
    PROVE  Types'
  <1>0. work \in Seq(Works)
    BY DEF Types, TypeOK, Works
  <1>1. CASE RemoveOriginal
    <2>1. work' \in Seq(Works)
      <3>1. [Head(work) EXCEPT !.stage = "move"] \in Works /\ work # <<>>
        <4>1. Head(work) \in Works /\ work # <<>>
          BY <1>0, <1>1 DEF RemoveOriginal
        <4> QED BY <4>1 DEF Works
      <3> HIDE DEF Works
      <3> QED BY <1>0, <1>1, <3>1, Replaced DEF RemoveOriginal
    <2> QED BY <1>1, <2>1, ValuesMade DEF RemoveOriginal, Types, TypeOK, ThreadsOK, flags, Works
  <1>2. CASE MoveTemp
    <2>1. work' \in Seq(Works) /\ Head(work).swap \in Swap
      <3>1. Head(work) \in Works /\ work # <<>> /\ work' = Tail(work)
        BY <1>0, <1>2 DEF MoveTemp
      <3>2. Head(work).swap \in Swap
        BY <3>1 DEF Works
      <3> HIDE DEF Works
      <3> QED BY <1>0, <3>1, <3>2
    <2>2. calls' \in Seq(Called)
      BY <1>2, <2>1, CalledMade DEF MoveTemp, Post, Types, ThreadsOK
    <2> QED BY <1>2, <2>1, <2>2, ValuesMade DEF MoveTemp, Types, TypeOK, ThreadsOK, flags, Works
  <1>3. CASE SaveRow
    <2>1. row' \in Rows /\ saves' \in Seq(Rows)
      BY <1>3 DEF SaveRow, Types, ThreadsOK
    <2> QED BY <1>3, <2>1 DEF SaveRow, Types, TypeOK, ThreadsOK, flags, Rows
  <1> QED BY <1>1, <1>2, <1>3

LEMMA RestartTypes ==
    ASSUME AssetParameters, Types, LockTypeOK', Restart
    PROVE  Types'
  <1>1. row.mtime \in 0..MaxVersion /\ row.download \in BOOLEAN /\ row' \in Rows /\ Exists(file) \in BOOLEAN
    BY ValuesMade DEF Types, TypeOK, Restart, Rows
  <1>2. download' \in [state : {"none", "asked", "receiving", "answered"},
                       known : 0 .. MaxVersion, version : 0 .. MaxVersion]
    BY <1>1, ValuesMade DEF Restart, Asked, NoDownload
  <1>3. {fileExisted, unupdated, waitFileSwap, downloadInProgress, fileUpdate}' \subseteq BOOLEAN
    BY <1>1 DEF Restart
  <1>4. calls' \in Seq(Called) /\ work' \in Seq(Works) /\ saves' \in Seq(Rows)
    BY CalledMade DEF Restart
  <1> QED BY <1>1, <1>2, <1>3, <1>4 DEF Restart, Types, TypeOK, ThreadsOK, Rows, Works

LEMMA SameTypes ==
    ASSUME Types, LockTypeOK', UNCHANGED <<server, disk, flags, threads>>
    PROVE  Types'
  BY DEF Types, TypeOK, ThreadsOK, disk, flags, threads
-----------------------------------------------------------------------------
(* Swaps that have the lock.                                                *)
LEMMA MovingAlone ==
    ASSUME LockParameters, AssetParameters, LockInv, SwapInv, NEW w \in Moving
    PROVE  w \in Swap /\ w \in Writer /\ w \in Request /\ \A r \in Request : Holding(r) => r = w
  <1>1. w \in Swap /\ w \in Writer /\ w \in Request
    BY DEF Moving, AssetParameters, Writer
  <1>2. status[w] = "held" /\ Kind[w] = "Write"
    BY <1>1 DEF SwapInv, LockParameters, Writer, Reader
  <1> QED BY <1>1, <1>2 DEF LockInv, HoldersInv, WriterExcludes, Holding

(* No swap begins or ends while the functions of the main thread change so. *)
QuietStep ==
    /\ work' = work
    /\ \/ calls' = calls
       \/ calls # <<>> /\ calls' = Tail(calls)
       \/ \E c \in Called : c.what # "swapped" /\ calls' = Append(calls, c)

LEMMA QuietMoving ==
    ASSUME Types, QuietStep
    PROVE  Moving' \subseteq Moving
  <1>1. calls \in Seq(Called) /\ UNCHANGED work
    BY DEF Types, ThreadsOK, QuietStep
  <1>2. \A i \in DOMAIN calls' : calls'[i].what = "swapped" => \E j \in DOMAIN calls : calls'[i] = calls[j]
    <2>1. CASE calls # <<>> /\ calls' = Tail(calls)
      BY <1>1, <2>1
    <2>2. CASE \E c \in Called : c.what # "swapped" /\ calls' = Append(calls, c)
      <3>1. PICK c \in Called : c.what # "swapped" /\ calls' = Append(calls, c)
        BY <2>2
      <3> QED BY <1>1, <3>1, Appended, Sequence
    <2> QED BY <2>1, <2>2 DEF QuietStep
  <1>3. \A w : Swapped(w).what = "swapped"
    BY DEF Swapped
  <1>4. \A w \in Moving' : w \in Moving
    BY <1>1, <1>2, <1>3 DEF Moving
  <1> QED BY <1>4

LEMMA QuietInv ==
    ASSUME Types, SwapInv, QuietStep,
           \A w \in Moving : status'[w] = "held" /\ ~Leaving(w)'
    PROVE  SwapInv'
  <1>1. calls \in Seq(Called) /\ UNCHANGED work
    BY DEF Types, ThreadsOK, QuietStep
  <1>2. \A w \in Moving' : status'[w] = "held" /\ ~Leaving(w)'
    BY QuietMoving
  <1>3. CASE calls # <<>> /\ calls' = Tail(calls)
    <2>1. \A i \in DOMAIN calls' : calls'[i] = calls[i + 1] /\ i + 1 \in DOMAIN calls /\ i \in Nat
      BY <1>1, <1>3
    <2>2. \A i, j \in DOMAIN calls' : i + 1 = j + 1 => i = j
      BY <2>1
    <2> QED BY <1>1, <1>2, <2>1, <2>2 DEF SwapInv
  <1>4. CASE \E c \in Called : c.what # "swapped" /\ calls' = Append(calls, c)
    <2>1. PICK c \in Called : c.what # "swapped" /\ calls' = Append(calls, c)
      BY <1>4
    <2>2. \A i \in DOMAIN calls' : calls'[i].what = "swapped" => calls'[i] = calls[i] /\ i \in DOMAIN calls
      BY <1>1, <2>1, Appended, Sequence
    <2> QED BY <1>1, <1>2, <2>2 DEF SwapInv
  <1>5. CASE calls' = calls
    BY <1>1, <1>2, <1>5 DEF SwapInv
  <1> QED BY <1>3, <1>4, <1>5 DEF QuietStep

LEMMA SameSwaps ==
    ASSUME Types, SwapInv, QuietStep, UNCHANGED <<stack, status>>
    PROVE  SwapInv'
  BY QuietInv DEF SwapInv, Leaving, Top

LEMMA RetainSwaps ==
    ASSUME AssetParameters, LockInv, Types, SwapInv, QuietStep, NEW r \in Request, Retain(r)
    PROVE  SwapInv'
  <1>1. \A w \in Moving : w \in Request /\ status[w] = "held"
    BY DEF SwapInv, Moving, AssetParameters, Writer
  <1> QED BY <1>1, RetainKeeps, QuietInv

LEMMA CallsSwaps ==
    ASSUME AssetParameters, ClearOnly, LockInv, Types, SwapInv, QuietStep, NEW r \in Request, Calls(r)
    PROVE  SwapInv'
  <1>1. \A w \in Moving : w \in Request /\ w \in Swap /\ w \notin Brief /\ status[w] = "held"
    BY DEF SwapInv, Moving, AssetParameters, Writer, ClearOnly
  <1> QED BY <1>1, CallsKeeps, QuietInv

LEMMA LockSwaps ==
    ASSUME LockParameters, AssetParameters, LockInv, Types, SwapInv, LockStep
    PROVE  SwapInv'
  <1>1. QuietStep
    BY DEF LockStep, Others, threads, QuietStep
  <1>2. \A w \in Moving : w \in Writer /\ status[w] = "held" /\ ~Leaving(w)
    BY DEF SwapInv, Moving, AssetParameters
  <1>3. ReleaseLock \/ OnLockFinished \/ PopsWriter \/ GrantsReader
    BY DEF LockStep
  <1> QED BY <1>1, <1>2, <1>3, LockStepKeeps, QuietInv

(* A release makes only its own request leave.                              *)
LEMMA ReleasesKeeps ==
    ASSUME NEW r \in Request, NEW rest \in Afterwards, Releases(r, rest)
    PROVE  UNCHANGED status /\ status[r] = "held" /\ \A w : Leaving(w)' => w = r
  <1>1. rest \in Seq(Frames) /\ Release(r) \in Frames /\ Release(r).request = r
    BY FramesMade, AfterwardsMade
  <1>2. stack' = <<Release(r)>> \o rest
    BY DEF Releases
  <1>3. stack'[1] = Release(r)
    BY <1>1, <1>2, Put
  <1> QED BY <1>1, <1>3 DEF Leaving, Releases

LEMMA SwapCalledInv ==
    ASSUME LockParameters, AssetParameters, ClearOnly, LockInv, Types, SwapInv,
           NEW w \in Swap, SwapCalled(w)
    PROVE  SwapInv'
  <1>1. w \in Request /\ w \in Writer /\ w \notin Brief /\ Calls(w)
    BY DEF AssetParameters, Writer, ClearOnly, SwapCalled
  <1>2. status[w] = "calling" /\ status'[w] = "held" /\ ~Leaving(w)'
    BY <1>1, CallsKeeps
  <1>3. Moving = {}
    <2>1. \A x \in Moving : x = w
      BY <1>1, <1>2, MovingAlone DEF Holding
    <2>2. \A x \in Moving : status[x] = "held"
      BY DEF SwapInv
    <2> QED BY <1>2, <2>1, <2>2
  <1>4. work = <<>> /\ \A i \in DOMAIN calls : calls[i].what # "swapped"
    <2>1. work \in Seq(Works) /\ calls \in Seq(Called)
      BY DEF Types, TypeOK, ThreadsOK, Works
    <2>2. work = <<>>
      <3>1. work # <<>> => 1 \in DOMAIN work /\ work[1] \in Works
        BY <2>1
      <3> QED BY <1>3, <3>1 DEF Moving, Works
    <2>3. \A i \in DOMAIN calls : calls[i] \in Called
      BY <2>1
    <2>4. \A i \in DOMAIN calls : calls[i].what = "swapped" => calls[i].swap \in Moving
      BY <2>3, CalledMade DEF Moving
    <2> QED BY <1>3, <2>2, <2>4
  <1>5. work' = <<[swap |-> w, stage |-> "remove"]>> /\ UNCHANGED calls
    BY <1>4 DEF SwapCalled
  <1>6. DOMAIN work' = {1} /\ work'[1].swap = w
    BY <1>5
  <1>7. \A x \in Moving' : x = w
    <2>1. \A x : Swapped(x).what = "swapped"
      BY DEF Swapped
    <2> QED BY <1>4, <1>5, <1>6, <2>1 DEF Moving
  <1> QED BY <1>2, <1>4, <1>5, <1>6, <1>7 DEF SwapInv

LEMMA OnSwappedInv ==
    ASSUME LockParameters, AssetParameters, LockInv, Types, SwapInv, NEW w \in Swap, OnSwapped(w)
    PROVE  SwapInv'
  <1>1. /\ w \in Request /\ Releases(w, <<OnFile>>) /\ UNCHANGED work
        /\ calls # <<>> /\ calls' = Tail(calls) /\ Head(calls).what = "swapped" /\ Head(calls).swap = w
    BY DEF AssetParameters, Writer, OnSwapped, Dequeue
  <1>2. calls \in Seq(Called)
    BY DEF Types, ThreadsOK
  <1>3. calls[1].what = "swapped" /\ calls[1] \in Called /\ 1 \in DOMAIN calls
    BY <1>1, <1>2
  <1>4. work = <<>> /\ \A i \in DOMAIN calls : calls[i].what = "swapped" => i = 1
    BY <1>3 DEF SwapInv
  <1>5. \A i \in DOMAIN calls' : calls'[i] = calls[i + 1] /\ i + 1 \in DOMAIN calls /\ i + 1 # 1
    BY <1>1, <1>2
  <1>6. \A i \in DOMAIN calls' : calls'[i].what # "swapped"
    BY <1>4, <1>5
  <1>7. Moving' = {}
    <2>1. \A x : Swapped(x).what = "swapped"
      BY DEF Swapped
    <2>2. DOMAIN work' = {}
      BY <1>1, <1>4
    <2> QED BY <1>6, <2>1, <2>2 DEF Moving
  <1> QED BY <1>1, <1>4, <1>6, <1>7 DEF SwapInv

LEMMA StorageInv ==
    ASSUME LockParameters, AssetParameters, LockInv, Types, SwapInv, RemoveOriginal \/ MoveTemp
    PROVE  SwapInv' /\ Head(work).swap \in Moving
  <1>1. work # <<>> /\ work \in Seq(Works) /\ calls \in Seq(Called) /\ UNCHANGED <<stack, status>>
    BY DEF RemoveOriginal, MoveTemp, Types, TypeOK, ThreadsOK, Works, lockVars
  <1>0. PICK w : w = work[1].swap
    OBVIOUS
  <1>2. /\ 1 \in DOMAIN work /\ Head(work) = work[1] /\ work[1] \in Works /\ w \in Swap
        /\ Len(work) \in Nat /\ DOMAIN work = 1..Len(work)
    <2>1. /\ 1 \in DOMAIN work /\ Head(work) = work[1] /\ work[1] \in Works
          /\ Len(work) \in Nat /\ DOMAIN work = 1..Len(work)
      BY <1>1
    <2> QED BY <1>0, <2>1 DEF Works
  <1>3. Len(work) = 1 /\ Tail(work) = <<>>
    <2>1. \A i \in DOMAIN work : i = 1
      BY <1>2 DEF SwapInv
    <2>2. Len(work) = 1
      <3>1. Len(work) >= 1 /\ Len(work) \in DOMAIN work
        BY <1>2
      <3> QED BY <2>1, <3>1
    <2>3. Tail(work) \in Seq(Works) /\ Len(Tail(work)) = 0
      BY <1>1, <2>2
    <2> QED BY <2>2, <2>3, NoneLeft
  <1>4. w \in Moving /\ Head(work).swap = w
    BY <1>0, <1>2 DEF Moving
  <1>5. status'[w] = "held" /\ ~Leaving(w)'
    BY <1>1, <1>4 DEF SwapInv, Leaving, Top
  <1>6. \A i \in DOMAIN calls : calls[i].what # "swapped"
    BY <1>1 DEF SwapInv
  <1>7. \A x : Swapped(x).what = "swapped" /\ (\A y : Swapped(x) = Swapped(y) => x = y)
    <2>1. \A x : Swapped(x).what = "swapped" /\ Swapped(x).swap = x
      BY DEF Swapped
    <2> QED BY <2>1
  <1>8. CASE RemoveOriginal
    <2>1. work' = <<[Head(work) EXCEPT !.stage = "move"]>> \o <<>> /\ UNCHANGED calls
      BY <1>3, <1>8 DEF RemoveOriginal
    <2>2. [Head(work) EXCEPT !.stage = "move"].swap = w /\ [Head(work) EXCEPT !.stage = "move"] \in Works
      BY <1>0, <1>2 DEF Works
    <2>3. DOMAIN work' = {1} /\ work'[1].swap = w
      <3> HIDE DEF Works
      <3>1. <<>> \in Seq(Works) /\ Len(<<>>) = 0
        OBVIOUS
      <3>2. work' \in Seq(Works) /\ Len(work') = 1 /\ work'[1] = [Head(work) EXCEPT !.stage = "move"]
        BY <2>1, <2>2, <3>1, Put
      <3> QED BY <2>2, <3>2
    <2>4. \A x \in Moving' : x = w
      BY <1>6, <1>7, <2>1, <2>3 DEF Moving
    <2>5. \A i, j \in DOMAIN work' : i = j
      BY <2>3
    <2>6. UNCHANGED calls
      BY <2>1
    <2>7. \A x \in Moving' : status'[x] = "held" /\ ~Leaving(x)'
      BY <1>5, <2>4 DEF Leaving, Top
    <2> QED BY <1>4, <1>6, <2>5, <2>6, <2>7 DEF SwapInv
  <1>9. CASE MoveTemp
    <2>1. DOMAIN work' = {} /\ work' = <<>> /\ calls' = Append(calls, Swapped(w)) /\ Swapped(w) \in Called
      BY <1>0, <1>2, <1>3, <1>9, CalledMade DEF MoveTemp, Post
    <2>2. /\ DOMAIN calls' = 1..Len(calls) + 1 /\ DOMAIN calls = 1..Len(calls) /\ Len(calls) \in Nat
          /\ \A i \in 1..Len(calls) + 1 : calls'[i] = IF i = Len(calls) + 1 THEN Swapped(w) ELSE calls[i]
      BY <1>1, <2>1, Appended, Sequence
    <2>3. \A i \in DOMAIN calls' : calls'[i].what = "swapped" => i = Len(calls) + 1 /\ calls'[i] = Swapped(w)
      BY <1>6, <2>2
    <2>4. \A x \in Moving' : x = w
      BY <1>7, <2>1, <2>3 DEF Moving
    <2>5. \A i, j \in DOMAIN work' : i = j
      BY <2>1
    <2>6. work' = <<>>
      BY <2>1
    <2>7. \A x \in Moving' : status'[x] = "held" /\ ~Leaving(x)'
      BY <1>5, <2>4 DEF Leaving, Top
    <2>8. \A i, j \in DOMAIN calls' : calls'[i].what = "swapped" /\ calls'[j].what = "swapped" => i = j
      BY <2>3
    <2> QED BY <1>4, <2>5, <2>6, <2>7, <2>8 DEF SwapInv
  <1> QED BY <1>8, <1>9

LEMMA FreshSwaps ==
    ASSUME \/ work = <<>> /\ calls = <<>> /\ UNCHANGED <<work, calls>>
           \/ Restart
    PROVE  SwapInv'
  <1>1. work' = <<>> /\ \A i \in DOMAIN calls' : calls'[i].what # "swapped" /\ i = 1
    BY DEF Restart, Opened
  <1>2. Moving' = {}
    BY <1>1 DEF Moving, Swapped
  <1> QED BY <1>1, <1>2 DEF SwapInv
-----------------------------------------------------------------------------
(* Together.                                                                *)
LEMMA InitInv == ASSUME LockParameters, AssetParameters, Init PROVE AssetInv
  <1>1. LockInv
    BY InitLock DEF Init
  <1>2. Types
    BY InitTypes
  <1>3. SwapInv
    <2>1. DOMAIN work = {} /\ DOMAIN calls = {}
      BY DEF Init
    <2> QED BY <2>1 DEF SwapInv, Moving
  <1> QED BY <1>1, <1>2, <1>3 DEF AssetInv

(* Steps of the main thread that ask for the lock, or leave it alone.       *)
LEMMA MainStep ==
    ASSUME LockParameters, AssetParameters, AssetInv,
           Download \/ OnOpened \/ OnCompleted \/ ClearFile \/ CheckFile
    PROVE  AssetInv'
  <1>0. LockInv /\ Types /\ SwapInv /\ LockTypeOK /\ Clear \in Request
    BY DEF AssetInv, LockInv, AssetParameters, Writer
  <1>1. CASE Download \/ OnOpened
    <2>1. LockInv'
      BY <1>0, <1>1, SameLock DEF Download, OnOpened
    <2>2. QuietStep /\ UNCHANGED <<stack, status>>
      BY <1>1 DEF Download, OnOpened, StartDownload, Dequeue, QuietStep, lockVars
    <2>3. SwapInv'
      BY <1>0, <2>2, SameSwaps
    <2>4. Types'
      BY <1>0, <1>1, <2>1, DownloadTypes DEF Download, OnOpened, Dequeue, LockInv
    <2> QED BY <2>1, <2>3, <2>4 DEF AssetInv
  <1>2. CASE OnCompleted
    <2>1. UNCHANGED lockVars \/ \E w \in Swap : Retain(w)
      BY <1>2 DEF OnCompleted
    <2>2. QuietStep
      BY <1>2 DEF OnCompleted, Dequeue, QuietStep
    <2>3. \A w \in Swap : w \in Request
      BY DEF AssetParameters, Writer
    <2>4. LockInv'
      BY <1>0, <2>1, <2>3, SameLock, RetainInv
    <2>5. SwapInv'
      <3>1. CASE UNCHANGED lockVars
        BY <1>0, <2>2, <3>1, SameSwaps DEF lockVars
      <3>2. CASE \E w \in Swap : Retain(w)
        BY <1>0, <2>2, <2>3, <3>2, RetainSwaps
      <3> QED BY <2>1, <3>1, <3>2
    <2>6. Types'
      BY <1>0, <1>2, <2>4, CompletedTypes DEF LockInv
    <2> QED BY <2>4, <2>5, <2>6 DEF AssetInv
  <1>3. CASE ClearFile
    <2>1. LockInv'
      BY <1>0, <1>3, RetainInv DEF ClearFile
    <2>2. SwapInv'
      BY <1>0, <1>3, RetainSwaps DEF ClearFile, Others, threads, QuietStep
    <2>3. Types'
      BY <1>0, <1>3, <2>1, SameTypes DEF ClearFile, Others, LockInv
    <2> QED BY <2>1, <2>2, <2>3 DEF AssetInv
  <1>4. CASE CheckFile
    <2>1. LockInv'
      BY <1>0, <1>4, SameLock DEF CheckFile
    <2>2. SwapInv'
      BY <1>0, <1>4, SameSwaps DEF CheckFile, threads, QuietStep, lockVars
    <2>3. Types'
      <3>1. UNCHANGED <<server, file, temp, row, fileUpdate, unupdated, waitFileSwap, downloadInProgress, mtime, threads>>
            /\ fileExisted' = Exists(file)
        BY <1>4 DEF CheckFile, disk
      <3>2. fileExisted' \in BOOLEAN /\ fileUpdate' \in BOOLEAN /\ file' \in Contents
        BY <1>0, <3>1, ValuesMade DEF Types, TypeOK
      <3> QED BY <1>0, <2>1, <3>1, <3>2, FileTypes DEF LockInv
    <2> QED BY <2>1, <2>2, <2>3 DEF AssetInv
  <1> QED BY <1>1, <1>2, <1>3, <1>4

LEMMA ReaderStep ==
    ASSUME LockParameters, AssetParameters, ClearOnly, AssetInv, NEW r \in Request,
           ReadRetain(r) \/ ReadTry(r) \/ ReadCalled(r) \/ ReadRelease(r)
    PROVE  AssetInv'
  <1>0. LockInv /\ Types /\ SwapInv /\ LockTypeOK
    BY DEF AssetInv, LockInv
  <1>1. QuietStep /\ UNCHANGED Others
    BY DEF ReadRetain, ReadTry, ReadCalled, ReadRelease, Others, threads, QuietStep
  <1>2. LockInv'
    BY <1>0, RetainInv, TryReadInv, CallsInv, ReleasesInv, AfterwardsMade DEF ReadRetain, ReadTry, ReadCalled, ReadRelease
  <1>3. Types'
    BY <1>0, <1>1, <1>2, SameTypes DEF Others, LockInv
  <1>4. SwapInv'
    <2>1. CASE ReadRetain(r)
      BY <1>0, <1>1, <2>1, RetainSwaps DEF ReadRetain
    <2>2. CASE ReadCalled(r)
      BY <1>0, <1>1, <2>2, CallsSwaps DEF ReadCalled
    <2>3. CASE ReadTry(r)
      <3>1. stack' = <<>> /\ status[r] = "idle" /\ status' = [status EXCEPT ![r] = "held"]
        BY <2>3 DEF ReadTry, TryRead, Idle
      <3>2. \A w \in Moving : w \in Request /\ status[w] = "held"
        BY <1>0 DEF SwapInv, Moving, AssetParameters, Writer
      <3>3. \A w \in Moving : status'[w] = "held" /\ ~Leaving(w)'
        BY <1>0, <3>1, <3>2 DEF Leaving, Top, LockTypeOK
      <3> QED BY <1>0, <1>1, <3>3, QuietInv
    <2>4. CASE ReadRelease(r)
      <3>1. r \in Reader /\ Releases(r, <<>>)
        BY <2>4 DEF ReadRelease
      <3>2. \A w \in Moving : w # r /\ status[w] = "held"
        BY <1>0, <3>1 DEF SwapInv, Moving, AssetParameters, Writer
      <3>3. \A w \in Moving : status'[w] = "held" /\ ~Leaving(w)'
        BY <3>1, <3>2, ReleasesKeeps, AfterwardsMade
      <3> QED BY <1>0, <1>1, <3>3, QuietInv
    <2> QED BY <2>1, <2>2, <2>3, <2>4
  <1> QED BY <1>2, <1>3, <1>4 DEF AssetInv

LEMMA WriterStep ==
    ASSUME LockParameters, AssetParameters, ClearOnly, AssetInv,
           ClearCalled \/ OnFileCalled \/ LockStep \/ \E w \in Swap : SwapCalled(w) \/ OnSwapped(w)
    PROVE  AssetInv'
  <1>0. LockInv /\ Types /\ SwapInv /\ LockTypeOK /\ Clear \in Request
    BY DEF AssetInv, LockInv, AssetParameters, Writer
  <1>1. CASE ClearCalled
    <2>1. LockInv'
      BY <1>0, <1>1, CallsInv DEF ClearCalled
    <2>2. SwapInv'
      BY <1>0, <1>1, CallsSwaps DEF ClearCalled, threads, QuietStep
    <2>3. Types'
      <3>1. fileUpdate \in BOOLEAN /\ Missing \in Contents
        BY <1>0, ValuesMade DEF Types, TypeOK
      <3> QED BY <1>0, <1>1, <2>1, <3>1, FileTypes DEF ClearCalled, LockInv
    <2> QED BY <2>1, <2>2, <2>3 DEF AssetInv
  <1>2. CASE OnFileCalled
    <2>1. LockInv'
      BY <1>0, <1>2, OnFileInv DEF OnFileCalled
    <2>2. SwapInv'
      <3>1. ~Top("release")' /\ UNCHANGED status /\ QuietStep
        BY <1>0, <1>2, Beneath DEF OnFileCalled, Innermost, threads, QuietStep
      <3> QED BY <1>0, <3>1, QuietInv DEF SwapInv, Leaving, Top
    <2>3. Types'
      <3>1. UNCHANGED <<server, file, temp, row, unupdated, waitFileSwap, downloadInProgress, mtime, threads>>
            /\ fileExisted' = Exists(file) /\ fileUpdate' = FALSE
        BY <1>2 DEF OnFileCalled, disk
      <3>2. fileExisted' \in BOOLEAN /\ fileUpdate' \in BOOLEAN /\ file' \in Contents
        BY <1>0, <3>1, ValuesMade DEF Types, TypeOK
      <3> QED BY <1>0, <2>1, <3>1, <3>2, FileTypes DEF LockInv
    <2> QED BY <2>1, <2>2, <2>3 DEF AssetInv
  <1>3. CASE LockStep
    <2>1. LockInv'
      BY <1>0, <1>3, ReleaseLockInv, OnLockFinishedInv, PopsWriterInv, GrantsReaderInv DEF LockStep
    <2>2. SwapInv'
      BY <1>0, <1>3, LockSwaps
    <2>3. Types'
      BY <1>0, <1>3, <2>1, SameTypes DEF LockStep, Others, LockInv
    <2> QED BY <2>1, <2>2, <2>3 DEF AssetInv
  <1>4. ASSUME NEW w \in Swap, SwapCalled(w) \/ OnSwapped(w)
        PROVE  AssetInv'
    <2>0. w \in Request
      BY DEF AssetParameters, Writer
    <2>1. LockInv'
      BY <1>0, <1>4, <2>0, CallsInv, ReleasesInv, AfterwardsMade DEF SwapCalled, OnSwapped
    <2>2. SwapInv'
      BY <1>0, <1>4, SwapCalledInv, OnSwappedInv
    <2>3. Types'
      BY <1>0, <1>4, <2>1, SwapTypes DEF LockInv
    <2> QED BY <2>1, <2>2, <2>3 DEF AssetInv
  <1> QED BY <1>1, <1>2, <1>3, <1>4

(* The other threads, the server, and the death of the process.             *)
LEMMA OtherStep ==
    ASSUME LockParameters, AssetParameters, AssetInv,
           \/ Refused \/ Failed \/ Responded \/ Received \/ Publish
           \/ RemoveOriginal \/ MoveTemp \/ SaveRow \/ Restart
           \/ UNCHANGED vars
    PROVE  AssetInv'
  <1>0. LockInv /\ Types /\ SwapInv
    BY DEF AssetInv
  <1>1. CASE Refused \/ Failed \/ Responded \/ Received
    <2>1. LockInv' /\ UNCHANGED <<stack, status>>
      BY <1>0, <1>1, SameLock DEF Refused, Failed, Responded, Received, Answer, lockVars
    <2>2. QuietStep
      <3>1. \A s, t \in BOOLEAN, v \in 0..MaxVersion : Completed(s, t, v).what = "completed"
        BY DEF Completed
      <3>2. download.version \in 0..MaxVersion /\ 0 \in 0..MaxVersion
        BY <1>0, ValuesMade DEF Types, ThreadsOK
      <3>3. work' = work /\ (calls' = calls \/ \E c \in Called : c.what # "swapped" /\ calls' = Append(calls, c))
        BY <1>1, <3>1, <3>2, CalledMade DEF Refused, Failed, Responded, Received, Answer, Post
      <3> QED BY <3>3 DEF QuietStep
    <2>3. SwapInv'
      BY <1>0, <2>1, <2>2, SameSwaps
    <2>4. Types'
      BY <1>0, <1>1, <2>1, NetworkTypes DEF LockInv
    <2> QED BY <2>1, <2>3, <2>4 DEF AssetInv
  <1>2. CASE Publish \/ UNCHANGED vars
    <2>1. LockInv' /\ UNCHANGED <<stack, status>>
      BY <1>0, <1>2, SameLock DEF Publish, vars, lockVars
    <2>2. SwapInv'
      BY <1>0, <1>2, <2>1, SameSwaps DEF Publish, vars, threads, QuietStep
    <2>3. Types'
      <3>1. server' \in Version /\ UNCHANGED <<disk, flags, threads>>
        BY <1>0, <1>2 DEF Publish, vars, Types, TypeOK, Version, AssetParameters
      <3> QED BY <1>0, <2>1, <3>1 DEF Types, TypeOK, ThreadsOK, disk, flags, threads, LockInv
    <2> QED BY <2>1, <2>2, <2>3 DEF AssetInv
  <1>3. CASE RemoveOriginal \/ MoveTemp \/ SaveRow
    <2>1. LockInv' /\ UNCHANGED <<stack, status>>
      BY <1>0, <1>3, SameLock DEF RemoveOriginal, MoveTemp, SaveRow, lockVars
    <2>2. SwapInv'
      <3>1. CASE SaveRow
        BY <1>0, <2>1, <3>1, SameSwaps DEF SaveRow, QuietStep
      <3> QED BY <1>0, <1>3, <3>1, StorageInv
    <2>3. Types'
      BY <1>0, <1>3, <2>1, StorageTypes DEF LockInv
    <2> QED BY <2>1, <2>2, <2>3 DEF AssetInv
  <1>4. CASE Restart
    <2>1. LockInv'
      BY <1>4, ResetLock DEF Restart
    <2>2. SwapInv' /\ Types'
      BY <1>0, <1>4, <2>1, FreshSwaps, RestartTypes DEF LockInv
    <2> QED BY <2>1, <2>2 DEF AssetInv
  <1> QED BY <1>1, <1>2, <1>3, <1>4

LEMMA NextInv ==
    ASSUME LockParameters, AssetParameters, ClearOnly, AssetInv, [Next]_vars
    PROVE  AssetInv'
  BY MainStep, ReaderStep, WriterStep, OtherStep DEF Next

LEMMA Inductive == ASSUME ClearOnly PROVE Spec => []AssetInv
  <1>1. Init => AssetInv
    BY InitInv, LockParameters, AssetParameters
  <1>2. AssetInv /\ [Next]_vars => AssetInv'
    BY NextInv, LockParameters, AssetParameters
  <1> QED BY <1>1, <1>2, PTL DEF Spec

(* The state of the asset, its files and its lock has the types it should:  *)
(* in particular only readers wait among the readers (SPSyncRWLock.cpp).    *)
THEOREM TypesHold == ASSUME ClearOnly PROVE Spec => []TypeOK
  <1>1. AssetInv => TypeOK
    BY DEF AssetInv, Types
  <1> QED BY <1>1, Inductive, PTL

(* A writer has the lock alone: neither a second writer nor a reader is let *)
(* in beside it, whatever the functions that are called do with the lock.   *)
THEOREM WriterAlone == ASSUME ClearOnly PROVE Spec => []WriterExcludes
  <1>1. AssetInv => WriterExcludes
    BY DEF AssetInv, LockInv, HoldersInv
  <1> QED BY <1>1, Inductive, PTL

(* The file does not change under a reader that holds the lock: a swap of   *)
(* the storage thread, and clear(), have it to themselves.                  *)
THEOREM FileStable == ASSUME ClearOnly PROVE Spec => ReadStable
  <1>1. AssetInv /\ [Next]_vars => [\A r \in Reader : Holding(r) /\ Holding(r)' => file' = file]_vars
    <2> SUFFICES ASSUME AssetInv, Next, NEW r \in Reader, Holding(r), file' # file PROVE FALSE
      OBVIOUS
    <2>0. /\ LockInv /\ Types /\ SwapInv /\ r \in Request /\ r \notin Writer
          /\ Clear \in Request /\ Clear \in Writer /\ Kind[Clear] = "Write"
      BY AssetParameters, LockParameters DEF AssetInv, Writer, Reader
    <2>1. ClearCalled \/ RemoveOriginal \/ MoveTemp
      BY DEF Next, Download, OnOpened, OnCompleted, ClearFile, CheckFile, ReadRetain, ReadTry, ReadCalled,
             ReadRelease, SwapCalled, OnSwapped, OnFileCalled, LockStep, Refused, Failed, Responded, Received,
             Answer, Publish, SaveRow, Restart, Others, disk
    <2>2. CASE ClearCalled
      <3>1. status[Clear] = "calling"
        BY <2>0, <2>2, CallsKeeps DEF ClearCalled
      <3> QED BY <2>0, <3>1 DEF LockInv, HoldersInv, WriterExcludes, Holding
    <2>3. CASE RemoveOriginal \/ MoveTemp
      BY <2>0, <2>3, StorageInv, MovingAlone, AssetParameters, LockParameters
    <2> QED BY <2>1, <2>2, <2>3
  <1> QED BY <1>1, Inductive, PTL DEF ReadStable, Spec

-----------------------------------------------------------------------------
(* The queues, when users of the asset are polite: clear() never waits, so  *)
(* only swaps are queued to write, and their functions keep the lock.       *)
PopPending  == \E k \in DOMAIN stack : stack[k].op = "popWriter"
LoopPending == \E k \in DOMAIN stack : stack[k].op = "readers"

(* Who calls is on top of the stack, and nowhere else.                      *)
CallingInv ==
    \A r \in Request : status[r] = "calling" => Top("call") /\ stack[1].request = r

(* Writers are queued once.  All of them wait, but the front one while it   *)
(* is to be removed from its queue.                                         *)
WritersInv ==
    /\ writeQueue \in Seq(Swap)
    /\ \A i, j \in DOMAIN writeQueue : writeQueue[i] = writeQueue[j] => i = j
    /\ \A i \in DOMAIN writeQueue : status[writeQueue[i]] = "queued" \/ (i = 1 /\ PopPending)
    /\ PopPending => status[writeQueue[1]] \in {"calling", "held"}

(* Whoever waits is in a queue, and the loop will come to it.               *)
Served(r) ==
    \/ \E i \in DOMAIN writeQueue : writeQueue[i] = r
    \/ \E i \in DOMAIN readQueue : readQueue[i] = r /\ ToCome(i)

WaitingInv ==
    /\ \A r \in Request : status[r] = "queued" => Served(r)
    /\ lock = "None" => writeQueue = <<>> /\ (readQueue = <<>> \/ LoopPending)

QueuesInv == CallingInv /\ WritersInv /\ WaitingInv

(* What a step does with the lock.                                          *)
Asks(r) ==
    /\ Retain(r) /\ r \in Request
    /\ r \in Reader \/ r \in Swap \/ lock = "None"

Inner == ReleaseLock \/ OnLockFinished \/ PopsWriter \/ GrantsReader

PopsFile ==
    /\ Innermost("onFile") \/ Innermost("shown")
    /\ stack' = Tail(stack)
    /\ UNCHANGED <<lock, lockers, readQueue, writeQueue, status>>

LockMove ==
    \/ UNCHANGED lockVars
    \/ LockReset
    \/ \E r \in Request : Asks(r) \/ TryRead(r) \/ Calls(r)
    \/ \E r \in Request, rest \in Afterwards : Releases(r, rest)
    \/ PopsFile
    \/ Inner

LEMMA NextLock ==
    ASSUME LockParameters, AssetParameters, Polite, [Next]_vars
    PROVE  LockMove
  <1>0. Clear \in Request /\ \A w \in Swap : w \in Request
    BY AssetParameters DEF AssetParameters, Writer
  <1>1. CASE Next
    <2>1. CASE OnCompleted
      BY <1>0, <2>1 DEF OnCompleted, LockMove, Asks
    <2>2. CASE ClearFile \/ ClearCalled
      BY <1>0, <2>2 DEF ClearFile, ClearCalled, LockMove, Asks
    <2>3. CASE \E r \in Request : ReadRetain(r) \/ ReadTry(r) \/ ReadCalled(r) \/ ReadRelease(r)
      BY <2>3, AfterwardsMade DEF ReadRetain, ReadTry, ReadCalled, ReadRelease, LockMove, Asks
    <2>4. CASE \E w \in Swap : SwapCalled(w) \/ OnSwapped(w)
      BY <1>0, <2>4, AfterwardsMade DEF SwapCalled, OnSwapped, LockMove
    <2>5. CASE OnFileCalled \/ LockStep \/ Restart
      BY <2>5 DEF OnFileCalled, LockStep, Restart, LockMove, PopsFile, Inner
    <2>6. CASE \/ Download \/ OnOpened \/ CheckFile \/ Refused \/ Failed \/ Responded \/ Received \/ Publish
               \/ RemoveOriginal \/ MoveTemp \/ SaveRow
      BY <2>6 DEF Download, OnOpened, CheckFile, Refused, Failed, Responded, Received, Answer, Publish,
                  RemoveOriginal, MoveTemp, SaveRow, LockMove
    <2> QED BY <1>1, <2>1, <2>2, <2>3, <2>4, <2>5, <2>6 DEF Next
  <1>2. CASE UNCHANGED vars
    BY <1>2 DEF vars, LockMove
  <1> QED BY <1>1, <1>2

(* The lock's own invariant, over every such move.                          *)
LEMMA LockKept ==
    ASSUME LockParameters, ClearOnly, LockInv, LockMove
    PROVE  LockInv'
  <1>1. CASE UNCHANGED lockVars
    BY <1>1, SameLock
  <1>2. CASE LockReset
    BY <1>2, ResetLock
  <1>3. CASE \E r \in Request : Asks(r) \/ TryRead(r) \/ Calls(r)
    BY <1>3, RetainInv, TryReadInv, CallsInv DEF Asks
  <1>4. CASE \E r \in Request, rest \in Afterwards : Releases(r, rest)
    BY <1>4, ReleasesInv
  <1>5. CASE PopsFile
    BY <1>5, OnFileInv DEF PopsFile
  <1>6. CASE Inner
    BY <1>6, ReleaseLockInv, OnLockFinishedInv, PopsWriterInv, GrantsReaderInv DEF Inner
  <1> QED BY <1>1, <1>2, <1>3, <1>4, <1>5, <1>6 DEF LockMove

(* The frames beneath the top one stay where they are, or move up.          *)
LEMMA ReplacedFrames ==
    ASSUME LockInv, stack # <<>>, NEW a \in Frames, stack' = <<a>> \o Tail(stack)
    PROVE  /\ stack' # <<>> /\ stack'[1] = a /\ DOMAIN stack' = DOMAIN stack /\ 1 \in DOMAIN stack
           /\ \A k \in DOMAIN stack : k # 1 => stack'[k] = stack[k]
  <1>1. stack \in Seq(Frames)
    BY DEF LockInv
  <1>2. /\ stack' \in Seq(Frames) /\ Len(stack') = Len(stack) /\ stack'[1] = a
        /\ \A k \in 2..Len(stack) : stack'[k] = stack[k]
    BY <1>1, Replaced
  <1>3. DOMAIN stack' = 1..Len(stack) /\ DOMAIN stack = 1..Len(stack) /\ Len(stack) \in Nat /\ Len(stack) > 0
    BY <1>1, <1>2, Sequence
  <1>4. \A k \in 1..Len(stack) : k # 1 => k \in 2..Len(stack)
    BY <1>3
  <1>5. 1 \in 1..Len(stack) /\ stack' # <<>>
    BY <1>2, <1>3
  <1> QED BY <1>2, <1>3, <1>4, <1>5

LEMMA PushedFrames ==
    ASSUME LockInv, stack # <<>>, NEW a \in Frames, NEW b \in Frames,
           stack' = <<a>> \o (<<b>> \o Tail(stack))
    PROVE  /\ stack' # <<>> /\ stack'[1] = a /\ stack'[2] = b /\ {1, 2} \subseteq DOMAIN stack'
           /\ \A k \in DOMAIN stack' : k \in {1, 2} \/ (k - 1 \in DOMAIN stack /\ k - 1 # 1 /\ stack'[k] = stack[k - 1])
           /\ \A k \in DOMAIN stack : k # 1 => k + 1 \in DOMAIN stack' /\ stack'[k + 1] = stack[k]
  <1>1. stack \in Seq(Frames)
    BY DEF LockInv
  <1>2. /\ stack' \in Seq(Frames) /\ Len(stack') = Len(stack) + 1 /\ stack'[1] = a /\ stack'[2] = b
        /\ \A k \in 3..Len(stack) + 1 : stack'[k] = stack[k - 1]
    BY <1>1, Pushed
  <1>3. DOMAIN stack' = 1..Len(stack) + 1 /\ DOMAIN stack = 1..Len(stack) /\ Len(stack) \in Nat /\ Len(stack) > 0
    BY <1>1, <1>2, Sequence
  <1>4. \A k \in DOMAIN stack' : k \in {1, 2} \/ (k \in 3..Len(stack) + 1 /\ k - 1 \in DOMAIN stack /\ k - 1 # 1)
    BY <1>3
  <1>5. \A k \in DOMAIN stack : k # 1 => k + 1 \in 3..Len(stack) + 1 /\ k + 1 \in DOMAIN stack' /\ (k + 1) - 1 = k
    BY <1>3
  <1>6. {1, 2} \subseteq DOMAIN stack' /\ stack' # <<>>
    BY <1>2, <1>3
  <1> QED BY <1>2, <1>4, <1>5, <1>6

LEMMA PoppedFrames ==
    ASSUME LockInv, stack # <<>>, stack' = Tail(stack) \/ stack' = <<>> \o Tail(stack)
    PROVE  /\ \A k \in DOMAIN stack' : k + 1 \in DOMAIN stack /\ k + 1 # 1 /\ stack'[k] = stack[k + 1]
           /\ \A k \in DOMAIN stack : k # 1 => k - 1 \in DOMAIN stack' /\ stack'[k - 1] = stack[k]
           /\ stack' # <<>> => 1 \in DOMAIN stack'
  <1>1. stack \in Seq(Frames)
    BY DEF LockInv
  <1>2. /\ stack' \in Seq(Frames) /\ Len(stack') = Len(stack) - 1
        /\ \A k \in 1..Len(stack) - 1 : stack'[k] = stack[k + 1]
    BY <1>1, Popped
  <1>3. DOMAIN stack' = 1..Len(stack) - 1 /\ DOMAIN stack = 1..Len(stack) /\ Len(stack) \in Nat /\ Len(stack) > 0
    BY <1>1, <1>2, Sequence
  <1>4. \A k \in DOMAIN stack' : k \in 1..Len(stack) - 1 /\ k + 1 \in DOMAIN stack /\ k + 1 # 1
    BY <1>3
  <1>5. \A k \in DOMAIN stack : k # 1 => k - 1 \in 1..Len(stack) - 1 /\ (k - 1) + 1 = k
    BY <1>3
  <1>6. stack' # <<>> => 1 \in DOMAIN stack'
    BY <1>2, <1>3
  <1> QED BY <1>2, <1>3, <1>4, <1>5, <1>6

(* What each step of the lock does, to its frames and to who waits.         *)
LEMMA AskEffect ==
    ASSUME LockInv, NEW r \in Request, Retain(r)
    PROVE  /\ stack = <<>> /\ status[r] = "idle"
           /\ \/ /\ Grantable(Kind[r]) /\ lock' = Kind[r] /\ status' = [status EXCEPT ![r] = "calling"]
                 /\ DOMAIN stack' = {1} /\ stack' # <<>> /\ stack'[1].op = "call" /\ stack'[1].request = r
                 /\ UNCHANGED <<readQueue, writeQueue>>
              \/ ~Grantable(Kind[r]) /\ Enqueue(r) /\ UNCHANGED <<lock, stack>>
  <1>1. stack = <<>> /\ status[r] = "idle"
    BY DEF Retain, Idle
  <1>2. CASE Grantable(Kind[r])
    <2>1. lock' = Kind[r] /\ status' = [status EXCEPT ![r] = "calling"] /\ stack' = <<Call(r)>>
          /\ UNCHANGED <<readQueue, writeQueue>>
      BY <1>2, FramesMade DEF Retain, Grant
    <2>2. DOMAIN stack' = {1} /\ stack' # <<>> /\ stack'[1] = Call(r)
      BY <2>1, FramesMade
    <2> QED BY <1>1, <1>2, <2>1, <2>2, FramesMade
  <1> QED BY <1>1, <1>2 DEF Retain

LEMMA CallEffect ==
    ASSUME LockInv, NEW r \in Request, Calls(r)
    PROVE  /\ stack # <<>> /\ stack[1].op = "call" /\ stack[1].request = r /\ status[r] = "calling"
           /\ status' = [status EXCEPT ![r] = "held"]
           /\ UNCHANGED <<lock, readQueue, writeQueue>>
           /\ PopPending' <=> PopPending
           /\ LoopPending' <=> LoopPending
           /\ \A i : ToCome(i)' <=> ToCome(i)
           /\ ~Top("call")'
  <1>1. /\ stack # <<>> /\ stack[1].op = "call" /\ stack[1].request = r /\ status[r] = "calling"
        /\ status' = [status EXCEPT ![r] = "held"] /\ UNCHANGED <<lock, readQueue, writeQueue>>
    BY DEF Calls, Innermost, LockInv, TopInv, Top
  <1>2. CASE r \in Brief
    <2>1. Release(r) \in Frames /\ Release(r).op = "release"
      BY FramesMade
    <2>2. stack' = <<Release(r)>> \o Tail(stack)
      BY <1>2 DEF Calls
    <2>3. /\ stack' # <<>> /\ stack'[1] = Release(r) /\ DOMAIN stack' = DOMAIN stack /\ 1 \in DOMAIN stack
          /\ \A k \in DOMAIN stack : k # 1 => stack'[k] = stack[k]
      BY <1>1, <2>1, <2>2, ReplacedFrames
    <2>4. \A k \in DOMAIN stack : stack'[k].op \in {"popWriter", "readers"} \/ stack[k].op \in {"popWriter", "readers"}
              => stack'[k] = stack[k]
      BY <1>1, <2>1, <2>3
    <2>5. ~Top("call")'
      BY <2>1, <2>3 DEF Top
    <2> QED BY <1>1, <2>3, <2>4, <2>5 DEF PopPending, LoopPending, ToCome
  <1>3. CASE r \notin Brief
    <2>1. stack' = <<>> \o Tail(stack)
      BY <1>3 DEF Calls
    <2>2. /\ \A k \in DOMAIN stack' : k + 1 \in DOMAIN stack /\ k + 1 # 1 /\ stack'[k] = stack[k + 1]
          /\ \A k \in DOMAIN stack : k # 1 => k - 1 \in DOMAIN stack' /\ stack'[k - 1] = stack[k]
          /\ stack' # <<>> => 1 \in DOMAIN stack'
      BY <1>1, <2>1, PoppedFrames
    <2>3. \A k \in DOMAIN stack : stack[k].op \in {"popWriter", "readers"} => k # 1
      BY <1>1
    <2>4. ~Top("call")'
      <3> SUFFICES ASSUME stack' # <<>>, stack'[1].op = "call" PROVE FALSE
        BY DEF Top
      <3>1. \E j \in DOMAIN stack : j # 1 /\ stack[j].op = "call"
        BY <2>2
      <3> QED BY <3>1 DEF LockInv, BelowInv
    <2>5. PopPending' <=> PopPending
      BY <2>2, <2>3 DEF PopPending
    <2>6. LoopPending' <=> LoopPending
      BY <2>2, <2>3 DEF LoopPending
    <2>7. \A i : ToCome(i)' <=> ToCome(i)
      BY <2>2, <2>3 DEF ToCome
    <2> QED BY <1>1, <2>4, <2>5, <2>6, <2>7
  <1> QED BY <1>2, <1>3

LEMMA ReleasesEffect ==
    ASSUME LockInv, NEW r \in Request, NEW rest \in Afterwards, Releases(r, rest)
    PROVE  /\ stack = <<>> /\ status[r] = "held" /\ Leaving(r)'
           /\ UNCHANGED <<lock, readQueue, writeQueue, status>>
           /\ \A k \in DOMAIN stack' : stack'[k].op \in {"release", "onFile", "shown"}
           /\ rest # <<OnFile>> => \A k \in DOMAIN stack' : stack'[k].op # "onFile"
  <1>1. stack = <<>> /\ status[r] = "held" /\ stack' = <<Release(r)>> \o rest
        /\ UNCHANGED <<lock, readQueue, writeQueue, status>>
    BY DEF Releases, Idle
  <1>2. /\ rest \in Seq(Frames) /\ \A k \in 1..Len(rest) : rest[k].op \in {"onFile", "shown"}
        /\ rest # <<OnFile>> => \A k \in 1..Len(rest) : rest[k].op = "shown"
    BY AfterwardsMade
  <1>3. Release(r) \in Frames /\ Release(r).op = "release" /\ Release(r).request = r
    BY FramesMade
  <1>4. /\ stack' \in Seq(Frames) /\ Len(stack') = Len(rest) + 1 /\ stack'[1] = Release(r)
        /\ \A k \in 2..Len(rest) + 1 : stack'[k] = rest[k - 1]
    BY <1>1, <1>2, <1>3, Put
  <1>5. Len(rest) \in Nat /\ DOMAIN stack' = 1..Len(rest) + 1 /\ stack' # <<>>
    BY <1>2, <1>4
  <1>6. \A k \in DOMAIN stack' : k # 1 => k - 1 \in 1..Len(rest) /\ stack'[k] = rest[k - 1]
    BY <1>4, <1>5
  <1>7. Leaving(r)'
    BY <1>3, <1>4, <1>5 DEF Leaving, Top
  <1> QED BY <1>1, <1>2, <1>3, <1>4, <1>5, <1>6, <1>7

(* The frame that comes to the top neither calls nor releases.              *)
LEMMA PopEffect ==
    ASSUME LockInv, stack # <<>>, stack' = Tail(stack) \/ stack' = <<>> \o Tail(stack)
    PROVE  /\ ~Top("call")' /\ ~Top("release")'
           /\ PopPending' => \E k \in DOMAIN stack : k # 1 /\ stack[k].op = "popWriter"
           /\ LoopPending' => \E k \in DOMAIN stack : k # 1 /\ stack[k].op = "readers"
           /\ PopPending => Top("popWriter") \/ PopPending'
  <1>1. /\ \A k \in DOMAIN stack' : k + 1 \in DOMAIN stack /\ k + 1 # 1 /\ stack'[k] = stack[k + 1]
        /\ \A k \in DOMAIN stack : k # 1 => k - 1 \in DOMAIN stack' /\ stack'[k - 1] = stack[k]
        /\ stack' # <<>> => 1 \in DOMAIN stack'
    BY PoppedFrames
  <1>2. \A k \in DOMAIN stack' : stack'[k].op \notin {"call", "release"}
    BY <1>1 DEF LockInv, BelowInv
  <1>3. ~Top("call")' /\ ~Top("release")'
    BY <1>1, <1>2 DEF Top
  <1>4. \A op : (\E k \in DOMAIN stack' : stack'[k].op = op) => \E k \in DOMAIN stack : k # 1 /\ stack[k].op = op
    BY <1>1
  <1>5. PopPending => Top("popWriter") \/ PopPending'
    BY <1>1 DEF PopPending, Top
  <1> QED BY <1>3, <1>4, <1>5 DEF PopPending, LoopPending

LEMMA NoPop ==
    ASSUME LockInv, PopPending, Top("release") \/ Top("finish")
    PROVE  writeQueue # <<>> /\ writeQueue[1] \in Brief
  BY DEF LockInv, FrontInv, PopPending, Top

LEMMA ReleaseEffect ==
    ASSUME LockInv, ReleaseLock
    PROVE  /\ Top("release") /\ stack[1].request \in Request /\ status[stack[1].request] = "held"
           /\ \E s \in {"idle", "done"} : status' = [status EXCEPT ![stack[1].request] = s]
           /\ UNCHANGED <<lock, readQueue, writeQueue>>
           /\ ~Top("call")' /\ ~Top("release")'
           /\ ~LoopPending /\ ~LoopPending'
           /\ PopPending' => PopPending
           /\ PopPending => PopPending' /\ writeQueue # <<>> /\ writeQueue[1] \in Brief
  <1>1. Top("release") /\ stack # <<>> /\ stack \in Seq(Frames)
    BY DEF ReleaseLock, Innermost, Top, LockInv
  <1>2. stack[1].request \in Request /\ status[stack[1].request] = "held" /\ stack[1].op = "release"
    <2>1. stack[1] \in Frames /\ stack[1].op = "release"
      BY <1>1 DEF Top
    <2> QED BY <1>1, <2>1, FrameFields DEF LockInv, TopInv
  <1>3. \E s \in {"idle", "done"} : status' = [status EXCEPT ![stack[1].request] = s]
    <2>1. Head(stack) = stack[1]
      BY <1>1
    <2>2. CASE stack[1].request \in Repeated
      BY <2>1, <2>2 DEF ReleaseLock
    <2>3. CASE stack[1].request \notin Repeated
      BY <2>1, <2>3 DEF ReleaseLock
    <2> QED BY <2>2, <2>3
  <1>4. ~LoopPending
    BY <1>1, NoLoop DEF LockInv, LoopPending
  <1>5. PopPending => writeQueue # <<>> /\ writeQueue[1] \in Brief
    BY <1>1, NoPop
  <1>6. stack' = (IF lockers' = <<>> THEN <<Finish>> ELSE <<>>) \o Tail(stack) /\ UNCHANGED <<lock, readQueue, writeQueue>>
    BY DEF ReleaseLock
  <1>7. CASE lockers' = <<>>
    <2>1. stack' = <<Finish>> \o Tail(stack) /\ Finish \in Frames /\ Finish.op = "finish"
      BY <1>6, <1>7, FramesMade
    <2>2. /\ stack' # <<>> /\ stack'[1] = Finish /\ DOMAIN stack' = DOMAIN stack /\ 1 \in DOMAIN stack
          /\ \A k \in DOMAIN stack : k # 1 => stack'[k] = stack[k]
      BY <1>1, <2>1, ReplacedFrames DEF LockInv
    <2>3. PopPending' <=> PopPending
      BY <1>2, <2>1, <2>2 DEF PopPending
    <2>4. ~LoopPending'
      BY <1>4, <2>1, <2>2 DEF LoopPending
    <2>5. ~Top("call")' /\ ~Top("release")'
      BY <2>1, <2>2 DEF Top
    <2> QED BY <1>1, <1>2, <1>3, <1>4, <1>5, <1>6, <2>3, <2>4, <2>5
  <1>8. CASE lockers' # <<>>
    <2>1. stack' = <<>> \o Tail(stack)
      BY <1>6, <1>8
    <2>2. /\ ~Top("call")' /\ ~Top("release")'
          /\ PopPending' => \E k \in DOMAIN stack : k # 1 /\ stack[k].op = "popWriter"
          /\ LoopPending' => \E k \in DOMAIN stack : k # 1 /\ stack[k].op = "readers"
          /\ PopPending => Top("popWriter") \/ PopPending'
      BY <1>1, <2>1, PopEffect DEF LockInv
    <2>3. ~Top("popWriter")
      BY <1>2 DEF Top
    <2>4. PopPending' => PopPending
      BY <2>2 DEF PopPending
    <2>5. ~LoopPending'
      BY <1>4, <2>2 DEF LoopPending
    <2> QED BY <1>1, <1>2, <1>3, <1>4, <1>5, <1>6, <2>2, <2>3, <2>4, <2>5
  <1> QED BY <1>7, <1>8

LEMMA FinishEffect ==
    ASSUME LockParameters, LockInv, OnLockFinished
    PROVE  /\ Top("finish") /\ Holders = {} /\ ~LoopPending /\ UNCHANGED <<readQueue, writeQueue>>
           /\ PopPending => writeQueue # <<>> /\ writeQueue[1] \in Brief
           /\ \/ /\ writeQueue # <<>> /\ writeQueue[1] \in Request
                 /\ status' = [status EXCEPT ![writeQueue[1]] = "calling"]
                 /\ Top("call")' /\ stack'[1].request = writeQueue[1]
                 /\ PopPending' /\ ~LoopPending' /\ lock' # "None"
              \/ /\ writeQueue = <<>> /\ UNCHANGED status
                 /\ ~Top("call")' /\ ~Top("release")'
                 /\ ~PopPending /\ ~PopPending'
                 /\ readQueue # <<>> => LoopPending' /\ \A i \in Nat \ {0} : ToCome(i)'
  <1>1. Top("finish") /\ Holders = {} /\ stack # <<>> /\ UNCHANGED <<readQueue, writeQueue>> /\ stack[1].op = "finish"
    BY DEF OnLockFinished, Innermost, Top, LockInv, TopInv
  <1>2. ~LoopPending
    BY <1>1, NoLoop DEF LockInv, LoopPending
  <1>3. PopPending => writeQueue # <<>> /\ writeQueue[1] \in Brief
    BY <1>1, NoPop
  <1>4. CASE writeQueue # <<>>
    <2> DEFINE w == writeQueue[1]
    <2>1. w \in Request /\ Head(writeQueue) = w
      BY <1>4 DEF LockInv, LockTypeOK, Writer
    <2>2. /\ lock' = Kind[w] /\ status' = [status EXCEPT ![w] = "calling"]
          /\ stack' = <<Call(w)>> \o (<<PopWriter>> \o Tail(stack))
      BY <1>4, <2>1 DEF OnLockFinished, Grant
    <2>3. /\ Call(w) \in Frames /\ Call(w).op = "call" /\ Call(w).request = w
          /\ PopWriter \in Frames /\ PopWriter.op = "popWriter"
      BY <2>1, FramesMade
    <2>4. /\ stack' # <<>> /\ stack'[1] = Call(w) /\ stack'[2] = PopWriter /\ {1, 2} \subseteq DOMAIN stack'
          /\ \A k \in DOMAIN stack' : k \in {1, 2} \/ (k - 1 \in DOMAIN stack /\ k - 1 # 1 /\ stack'[k] = stack[k - 1])
      BY <1>1, <2>2, <2>3, PushedFrames
    <2>5. PopPending' /\ Top("call")' /\ stack'[1].request = w
      BY <2>3, <2>4 DEF PopPending, Top
    <2>6. ~LoopPending'
      BY <1>2, <2>3, <2>4 DEF LoopPending
    <2>7. lock' # "None"
      BY <2>1, <2>2 DEF LockParameters
    <2> QED BY <1>1, <1>2, <1>3, <1>4, <2>1, <2>2, <2>5, <2>6, <2>7
  <1>5. CASE writeQueue = <<>>
    <2>1. ~PopPending /\ UNCHANGED status
      BY <1>3, <1>5 DEF OnLockFinished
    <2>2. CASE readQueue # <<>>
      <3>1. stack' = <<Readers(1)>> \o Tail(stack) /\ Readers(1) \in Frames /\ Readers(1).op = "readers" /\ Readers(1).next = 1
        BY <1>5, <2>2, FramesMade DEF OnLockFinished
      <3>2. /\ stack' # <<>> /\ stack'[1] = Readers(1) /\ DOMAIN stack' = DOMAIN stack /\ 1 \in DOMAIN stack
            /\ \A k \in DOMAIN stack : k # 1 => stack'[k] = stack[k]
        BY <1>1, <3>1, ReplacedFrames
      <3>3. LoopPending' /\ ~Top("call")' /\ ~Top("release")'
        BY <3>1, <3>2 DEF LoopPending, Top
      <3>4. ~PopPending'
        BY <2>1, <3>1, <3>2 DEF PopPending
      <3>5. \A k \in DOMAIN stack' : stack'[k].op = "readers" => stack'[k].next = 1
        BY <1>2, <3>1, <3>2 DEF LoopPending
      <3>6. \A i \in Nat \ {0} : ToCome(i)'
        BY <3>5 DEF ToCome
      <3> QED BY <1>1, <1>2, <1>3, <1>5, <2>1, <3>3, <3>4, <3>6
    <2>3. CASE readQueue = <<>>
      <3>1. stack' = <<>> \o Tail(stack)
        BY <1>5, <2>3 DEF OnLockFinished
      <3>2. ~Top("call")' /\ ~Top("release")' /\ ~PopPending'
        BY <1>1, <2>1, <3>1, PopEffect DEF PopPending
      <3> QED BY <1>1, <1>2, <1>3, <1>5, <2>1, <2>3, <3>2
    <2> QED BY <2>2, <2>3
  <1> QED BY <1>4, <1>5

LEMMA PopsEffect ==
    ASSUME LockInv, PopsWriter
    PROVE  /\ Top("popWriter") /\ PopPending /\ writeQueue # <<>> /\ writeQueue' = Tail(writeQueue)
           /\ UNCHANGED <<lock, readQueue, status>>
           /\ ~Top("call")' /\ ~Top("release")'
           /\ ~LoopPending /\ ~LoopPending' /\ ~PopPending'
  <1>1. stack # <<>> /\ stack[1].op = "popWriter" /\ stack' = Tail(stack) /\ 1 \in DOMAIN stack
        /\ writeQueue' = Tail(writeQueue) /\ UNCHANGED <<lock, readQueue, status>>
    <2>1. stack \in Seq(Frames)
      BY DEF LockInv
    <2> QED BY <2>1 DEF PopsWriter, Innermost
  <1>2. PopPending /\ Top("popWriter") /\ writeQueue # <<>>
    BY <1>1 DEF PopPending, Top, LockInv, FrontInv
  <1>3. ~LoopPending
    BY <1>2, NoLoop DEF LockInv, LoopPending
  <1>4. /\ ~Top("call")' /\ ~Top("release")'
        /\ PopPending' => \E k \in DOMAIN stack : k # 1 /\ stack[k].op = "popWriter"
        /\ LoopPending' => \E k \in DOMAIN stack : k # 1 /\ stack[k].op = "readers"
    BY <1>1, PopEffect
  <1>5. ~LoopPending'
    BY <1>3, <1>4 DEF LoopPending
  <1>6. ~PopPending'
    BY <1>1, <1>4 DEF LockInv, FrontInv
  <1> QED BY <1>1, <1>2, <1>3, <1>4, <1>5, <1>6

LEMMA FileEffect ==
    ASSUME LockInv, PopsFile
    PROVE  /\ UNCHANGED <<lock, readQueue, writeQueue, status>>
           /\ ~Top("call")' /\ ~Top("release")' /\ ~Top("call") /\ ~Top("release")
           /\ ~LoopPending /\ ~LoopPending' /\ ~PopPending /\ ~PopPending'
  <1>1. stack # <<>> /\ stack[1].op \in {"onFile", "shown"} /\ stack' = Tail(stack)
        /\ UNCHANGED <<lock, readQueue, writeQueue, status>>
    <2>1. stack \in Seq(Frames)
      BY DEF LockInv
    <2> QED BY <2>1 DEF PopsFile, Innermost
  <1>2. ~PopPending
    BY <1>1 DEF LockInv, FrontInv, PopPending
  <1>3. ~LoopPending
    BY <1>1, NoLoop DEF LockInv, LoopPending, Top
  <1>4. /\ ~Top("call")' /\ ~Top("release")'
        /\ PopPending' => \E k \in DOMAIN stack : k # 1 /\ stack[k].op = "popWriter"
        /\ LoopPending' => \E k \in DOMAIN stack : k # 1 /\ stack[k].op = "readers"
    BY <1>1, PopEffect
  <1>5. ~LoopPending' /\ ~PopPending'
    BY <1>2, <1>3, <1>4 DEF LoopPending, PopPending
  <1>6. ~Top("call") /\ ~Top("release")
    BY <1>1 DEF Top
  <1> QED BY <1>1, <1>2, <1>3, <1>4, <1>5, <1>6

LEMMA LoopEffect ==
    ASSUME LockParameters, LockInv, GrantsReader
    PROVE  /\ Top("readers") /\ LoopPending /\ ~PopPending /\ ~PopPending' /\ UNCHANGED writeQueue
           /\ stack[1].next \in Nat \ {0} /\ \A i : ToCome(i) <=> stack[1].next <= i
           /\ \/ /\ stack[1].next \in DOMAIN readQueue /\ readQueue[stack[1].next] \in Reader
                 /\ status' = [status EXCEPT ![readQueue[stack[1].next]] = "calling"]
                 /\ Top("call")' /\ stack'[1].request = readQueue[stack[1].next]
                 /\ LoopPending' /\ lock' # "None" /\ UNCHANGED readQueue
                 /\ \A i : ToCome(i)' <=> stack[1].next + 1 <= i
              \/ /\ \A i \in DOMAIN readQueue : ~ToCome(i)
                 /\ readQueue' = <<>> /\ UNCHANGED <<lock, status>>
                 /\ ~Top("call")' /\ ~Top("release")' /\ ~LoopPending'
  <1> DEFINE n == stack[1].next
  <1>1. stack # <<>> /\ stack[1].op = "readers" /\ 1 \in DOMAIN stack /\ Head(stack) = stack[1] /\ stack[1] \in Frames
    <2>1. stack \in Seq(Frames)
      BY DEF LockInv
    <2> QED BY <2>1 DEF GrantsReader, Innermost
  <1>2. n \in Nat \ {0}
    BY <1>1, FrameFields
  <1>3. Top("readers") /\ LoopPending /\ UNCHANGED writeQueue
    BY <1>1 DEF Top, LoopPending, GrantsReader
  <1>4. ~PopPending
    BY <1>1 DEF LockInv, LoopInv, PopPending
  <1>5. \A k \in DOMAIN stack : stack[k].op = "readers" => k = 1
    BY <1>1 DEF LockInv, LoopInv
  <1>6. \A i : ToCome(i) <=> n <= i
    BY <1>1, <1>5 DEF ToCome
  <1>0. readQueue \in Seq(Reader)
    BY DEF LockInv, LockTypeOK
  <1> HIDE DEF n
  <1>7. CASE n <= Len(readQueue)
    <2> DEFINE r == readQueue[n]
    <2>1. n \in DOMAIN readQueue /\ r \in Reader /\ r \in Request /\ n + 1 \in Nat \ {0}
      BY <1>0, <1>2, <1>7 DEF Reader
    <2>2. /\ lock' = Kind[r] /\ status' = [status EXCEPT ![r] = "calling"] /\ UNCHANGED readQueue
          /\ stack' = <<Call(r)>> \o (<<Readers(n + 1)>> \o Tail(stack))
      BY <1>1, <1>7 DEF GrantsReader, Grant, n
    <2>3. /\ Call(r) \in Frames /\ Call(r).op = "call" /\ Call(r).request = r
          /\ Readers(n + 1) \in Frames /\ Readers(n + 1).op = "readers" /\ Readers(n + 1).next = n + 1
      BY <2>1, FramesMade
    <2>4. /\ stack' # <<>> /\ stack'[1] = Call(r) /\ stack'[2] = Readers(n + 1) /\ {1, 2} \subseteq DOMAIN stack'
          /\ \A k \in DOMAIN stack' : k \in {1, 2} \/ (k - 1 \in DOMAIN stack /\ k - 1 # 1 /\ stack'[k] = stack[k - 1])
      BY <1>1, <2>2, <2>3, PushedFrames
    <2>5. LoopPending' /\ Top("call")' /\ stack'[1].request = r
      BY <2>3, <2>4 DEF LoopPending, Top
    <2>6. ~PopPending'
      BY <1>4, <2>3, <2>4 DEF PopPending
    <2>7. \A k \in DOMAIN stack' : stack'[k].op = "readers" => stack'[k].next = n + 1
      BY <1>5, <2>3, <2>4
    <2>8. \A i : ToCome(i)' <=> n + 1 <= i
      BY <2>3, <2>4, <2>7 DEF ToCome
    <2>9. lock' # "None"
      BY <2>1, <2>2 DEF LockParameters
    <2> QED BY <1>2, <1>3, <1>4, <1>6, <2>1, <2>2, <2>5, <2>6, <2>8, <2>9 DEF n
  <1>8. CASE ~(n <= Len(readQueue))
    <2>1. stack' = Tail(stack) /\ readQueue' = <<>> /\ UNCHANGED <<lock, status>>
      BY <1>1, <1>8 DEF GrantsReader, n
    <2>2. /\ ~Top("call")' /\ ~Top("release")'
          /\ PopPending' => \E k \in DOMAIN stack : k # 1 /\ stack[k].op = "popWriter"
          /\ LoopPending' => \E k \in DOMAIN stack : k # 1 /\ stack[k].op = "readers"
      BY <1>1, <2>1, PopEffect
    <2>3. ~LoopPending' /\ ~PopPending'
      BY <1>4, <1>5, <2>2 DEF PopPending
    <2>4. \A i \in DOMAIN readQueue : ~(n <= i)
      BY <1>0, <1>2, <1>8
    <2> QED BY <1>2, <1>3, <1>4, <1>6, <2>1, <2>2, <2>3, <2>4 DEF n
  <1> QED BY <1>7, <1>8

-----------------------------------------------------------------------------
LEMMA CallingKept ==
    ASSUME LockParameters, LockInv, CallingInv, LockMove
    PROVE  CallingInv'
  <1>0. status \in [Request -> {"idle", "queued", "calling", "held", "done"}]
    BY DEF LockInv, LockTypeOK
  <1>1. CASE UNCHANGED lockVars
    BY <1>1 DEF lockVars, CallingInv, Top
  <1>2. CASE LockReset
    BY <1>2 DEF LockReset, CallingInv
  <1>3. ASSUME NEW r \in Request, Asks(r) PROVE CallingInv'
    <2>1. /\ stack = <<>>
          /\ \/ status' = [status EXCEPT ![r] = "calling"] /\ stack' # <<>> /\ stack'[1].op = "call" /\ stack'[1].request = r
             \/ status' = [status EXCEPT ![r] = "queued"]
      BY <1>3, AskEffect DEF Asks, Enqueue
    <2>2. \A q \in Request : status[q] # "calling"
      BY <2>1 DEF CallingInv, Top
    <2> QED BY <1>0, <2>1, <2>2 DEF CallingInv, Top
  <1>4. ASSUME NEW r \in Request, TryRead(r) PROVE CallingInv'
    <2>1. stack = <<>> /\ status' = [status EXCEPT ![r] = "held"]
      BY <1>4 DEF TryRead, Idle
    <2> QED BY <1>0, <2>1 DEF CallingInv, Top
  <1>5. ASSUME NEW r \in Request, Calls(r) PROVE CallingInv'
    <2>1. stack[1].request = r /\ status' = [status EXCEPT ![r] = "held"]
      BY <1>5, CallEffect
    <2>2. \A q \in Request : q # r => status[q] # "calling"
      BY <2>1 DEF CallingInv
    <2> QED BY <1>0, <2>1, <2>2 DEF CallingInv
  <1>6. ASSUME NEW r \in Request, NEW rest \in Afterwards, Releases(r, rest) PROVE CallingInv'
    <2>1. stack = <<>> /\ UNCHANGED status
      BY <1>6, ReleasesEffect
    <2> QED BY <2>1 DEF CallingInv, Top
  <1>7. CASE PopsFile
    <2>1. ~Top("call") /\ UNCHANGED status
      BY <1>7, FileEffect
    <2> QED BY <2>1 DEF CallingInv
  <1>8. CASE Inner
    <2>1. ~Top("call") /\ (UNCHANGED status
            \/ (\E r \in Request : status' = [status EXCEPT ![r] = "calling"] /\ Top("call")' /\ stack'[1].request = r)
            \/ \E r \in Request, s \in {"idle", "done"} : status' = [status EXCEPT ![r] = s])
      <3>1. CASE ReleaseLock
        BY <3>1, ReleaseEffect DEF Top
      <3>2. CASE OnLockFinished
        BY <3>2, FinishEffect DEF Top
      <3>3. CASE PopsWriter
        BY <3>3, PopsEffect DEF Top
      <3>4. CASE GrantsReader
        BY <3>4, LoopEffect DEF Top, Reader
      <3> QED BY <1>8, <3>1, <3>2, <3>3, <3>4 DEF Inner
    <2>2. \A q \in Request : status[q] # "calling"
      BY <2>1 DEF CallingInv
    <2> QED BY <1>0, <2>1, <2>2 DEF CallingInv
  <1> QED BY <1>1, <1>2, <1>3, <1>4, <1>5, <1>6, <1>7, <1>8 DEF LockMove

LEMMA WritersKept ==
    ASSUME LockParameters, AssetParameters, ClearOnly, LockInv, CallingInv, WritersInv, LockMove
    PROVE  WritersInv'
  <1>0. /\ status \in [Request -> {"idle", "queued", "calling", "held", "done"}] /\ writeQueue \in Seq(Swap)
        /\ \A w \in Swap : w \in Request /\ w \in Writer /\ w \notin Reader /\ w \notin Brief
    BY DEF LockInv, LockTypeOK, WritersInv, AssetParameters, Writer, ClearOnly
  <1>q. /\ Len(writeQueue) \in Nat /\ DOMAIN writeQueue = 1..Len(writeQueue)
        /\ \A i \in DOMAIN writeQueue : writeQueue[i] \in Swap /\ writeQueue[i] \in Request
        /\ writeQueue # <<>> => 1 \in DOMAIN writeQueue
    <2>1. \A i \in DOMAIN writeQueue : writeQueue[i] \in Swap
      BY <1>0
    <2> QED BY <1>0, <2>1
  <1>f. PopPending => writeQueue # <<>> /\ writeQueue[1] \in Swap
    BY <1>q DEF PopPending, LockInv, FrontInv
  <1>s. ASSUME UNCHANGED <<writeQueue, status>>, PopPending' <=> PopPending PROVE WritersInv'
    BY <1>s DEF WritersInv
  <1>1. CASE UNCHANGED lockVars
    BY <1>1, <1>s DEF lockVars, PopPending
  <1>2. CASE LockReset
    <2>1. writeQueue' = <<>> /\ DOMAIN writeQueue' = {} /\ DOMAIN stack' = {}
      BY <1>2 DEF LockReset
    <2> QED BY <2>1 DEF WritersInv, PopPending
  <1>3. ASSUME NEW r \in Request, Asks(r) PROVE WritersInv'
    <2>1. stack = <<>> /\ status[r] = "idle"
      BY <1>3, AskEffect DEF Asks
    <2>2. ~PopPending
      BY <2>1 DEF PopPending
    <2>3. \A i \in DOMAIN writeQueue : status[writeQueue[i]] = "queued" /\ writeQueue[i] # r
      BY <2>1, <2>2 DEF WritersInv
    <2>4. CASE Grantable(Kind[r])
      <3>1. status' = [status EXCEPT ![r] = "calling"] /\ DOMAIN stack' = {1} /\ stack'[1].op = "call" /\ UNCHANGED writeQueue
        BY <1>3, <2>4, AskEffect DEF Asks
      <3>2. ~PopPending'
        BY <3>1 DEF PopPending
      <3>3. \A i \in DOMAIN writeQueue : status'[writeQueue[i]] = "queued"
        BY <1>0, <1>q, <2>3, <3>1
      <3> QED BY <3>1, <3>2, <3>3 DEF WritersInv
    <2>5. CASE ~Grantable(Kind[r])
      <3>1. Enqueue(r) /\ UNCHANGED stack /\ lock # "None"
        BY <1>3, <2>5, AskEffect DEF Asks, Grantable
      <3>2. ~PopPending'
        BY <2>2, <3>1 DEF PopPending
      <3>3. status' = [status EXCEPT ![r] = "queued"]
        BY <3>1 DEF Enqueue
      <3>4. \A i \in DOMAIN writeQueue : status'[writeQueue[i]] = "queued"
        BY <1>0, <1>q, <2>3, <3>3
      <3>5. CASE Kind[r] = "Read"
        BY <3>1, <3>2, <3>4, <3>5 DEF WritersInv, Enqueue
      <3>6. CASE Kind[r] # "Read"
        <4>1. r \in Swap /\ writeQueue' = Append(writeQueue, r)
          BY <1>3, <3>1, <3>6 DEF Asks, Reader, Enqueue
        <4>2. /\ writeQueue' \in Seq(Swap) /\ DOMAIN writeQueue' = 1..Len(writeQueue) + 1
              /\ \A i \in 1..Len(writeQueue) + 1 : writeQueue'[i] = IF i = Len(writeQueue) + 1 THEN r ELSE writeQueue[i]
          BY <1>0, <4>1, Appended
        <4>3. \A i \in DOMAIN writeQueue' : i = Len(writeQueue) + 1 \/ (i \in DOMAIN writeQueue /\ writeQueue'[i] = writeQueue[i])
          BY <1>q, <4>2
        <4>4. \A i \in DOMAIN writeQueue' : status'[writeQueue'[i]] = "queued"
          BY <1>0, <3>3, <3>4, <4>2, <4>3
        <4>5. \A i \in DOMAIN writeQueue' : writeQueue'[i] = r <=> i = Len(writeQueue) + 1
          BY <2>3, <4>2, <4>3
        <4>6. \A i, j \in DOMAIN writeQueue' : writeQueue'[i] = writeQueue'[j] => i = j
          BY <4>3, <4>5 DEF WritersInv
        <4> QED BY <3>2, <4>2, <4>4, <4>6 DEF WritersInv
      <3> QED BY <3>5, <3>6
    <2> QED BY <2>4, <2>5
  <1>4. ASSUME NEW r \in Request, TryRead(r) PROVE WritersInv'
    <2>1. stack = <<>> /\ status' = [status EXCEPT ![r] = "held"] /\ status[r] = "idle" /\ UNCHANGED <<stack, writeQueue>>
      BY <1>4 DEF TryRead, Idle
    <2>2. ~PopPending /\ ~PopPending'
      BY <2>1 DEF PopPending
    <2>3. \A i \in DOMAIN writeQueue : status'[writeQueue[i]] = "queued"
      BY <1>0, <1>q, <2>1, <2>2 DEF WritersInv
    <2> QED BY <2>1, <2>2, <2>3 DEF WritersInv
  <1>5. ASSUME NEW r \in Request, Calls(r) PROVE WritersInv'
    <2>1. /\ status[r] = "calling" /\ status' = [status EXCEPT ![r] = "held"]
          /\ UNCHANGED writeQueue /\ (PopPending' <=> PopPending)
      BY <1>5, CallEffect
    <2>2. \A i \in DOMAIN writeQueue : status'[writeQueue[i]] = "queued" \/ (i = 1 /\ PopPending')
      BY <1>0, <1>q, <2>1 DEF WritersInv
    <2>3. PopPending => status'[writeQueue[1]] \in {"calling", "held"}
      BY <1>0, <1>f, <2>1 DEF WritersInv
    <2> QED BY <2>1, <2>2, <2>3 DEF WritersInv
  <1>6. ASSUME NEW r \in Request, NEW rest \in Afterwards, Releases(r, rest) PROVE WritersInv'
    <2>1. stack = <<>> /\ UNCHANGED <<status, writeQueue>> /\ \A k \in DOMAIN stack' : stack'[k].op \in {"release", "onFile", "shown"}
      BY <1>6, ReleasesEffect
    <2>2. ~PopPending /\ ~PopPending'
      BY <2>1 DEF PopPending
    <2> QED BY <1>s, <2>1, <2>2
  <1>7. CASE PopsFile
    BY <1>7, <1>s, FileEffect
  <1>8. CASE ReleaseLock
    <2> DEFINE r == stack[1].request
    <2>1. /\ status[r] = "held" /\ r \in Request /\ UNCHANGED writeQueue
          /\ \E s \in {"idle", "done"} : status' = [status EXCEPT ![r] = s]
          /\ PopPending' => PopPending
          /\ PopPending => writeQueue[1] \in Brief
      BY <1>8, ReleaseEffect
    <2>2. ~PopPending /\ ~PopPending'
      BY <1>0, <1>f, <2>1
    <2> HIDE DEF r
    <2>3. \A i \in DOMAIN writeQueue : status'[writeQueue[i]] = "queued"
      BY <1>0, <1>q, <2>1, <2>2 DEF WritersInv
    <2> QED BY <2>1, <2>2, <2>3 DEF WritersInv
  <1>9. CASE OnLockFinished
    <2>1. ~PopPending /\ UNCHANGED writeQueue
      BY <1>0, <1>9, <1>f, FinishEffect
    <2>2. \A i \in DOMAIN writeQueue : status[writeQueue[i]] = "queued"
      BY <2>1 DEF WritersInv
    <2>3. CASE writeQueue # <<>>
      <3>1. status' = [status EXCEPT ![writeQueue[1]] = "calling"] /\ PopPending'
        BY <1>9, <2>3, FinishEffect
      <3>2. status'[writeQueue[1]] = "calling"
        BY <1>0, <1>q, <2>3, <3>1
      <3>3. \A i \in DOMAIN writeQueue : i # 1 => writeQueue[i] # writeQueue[1]
        BY <1>q, <2>3 DEF WritersInv
      <3>4. \A i \in DOMAIN writeQueue : i # 1 => status'[writeQueue[i]] = "queued"
        BY <1>0, <1>q, <2>2, <3>1, <3>3
      <3> QED BY <2>1, <3>1, <3>2, <3>4 DEF WritersInv
    <2>4. CASE writeQueue = <<>>
      BY <1>9, <1>s, <2>1, <2>4, FinishEffect
    <2> QED BY <2>3, <2>4
  <1>10. CASE PopsWriter
    <2>1. writeQueue # <<>> /\ writeQueue' = Tail(writeQueue) /\ UNCHANGED status /\ ~PopPending'
      BY <1>10, PopsEffect
    <2>2. /\ writeQueue' \in Seq(Swap)
          /\ \A i \in DOMAIN writeQueue' : /\ writeQueue'[i] = writeQueue[i + 1] /\ i + 1 \in DOMAIN writeQueue
                                           /\ i + 1 # 1 /\ i \in Nat
      BY <1>0, <2>1
    <2>3. \A i \in DOMAIN writeQueue' : status'[writeQueue'[i]] = "queued"
      BY <2>1, <2>2 DEF WritersInv
    <2>4. \A i, j \in DOMAIN writeQueue' : writeQueue'[i] = writeQueue'[j] => i + 1 = j + 1
      BY <2>2 DEF WritersInv
    <2>5. \A i, j \in DOMAIN writeQueue' : writeQueue'[i] = writeQueue'[j] => i = j
      BY <2>2, <2>4
    <2> QED BY <2>1, <2>2, <2>3, <2>5 DEF WritersInv
  <1>11. CASE GrantsReader
    <2>1. ~PopPending /\ ~PopPending' /\ UNCHANGED writeQueue
      BY <1>11, LoopEffect
    <2>2. UNCHANGED status \/ \E r \in Reader : status' = [status EXCEPT ![r] = "calling"]
      BY <1>11, LoopEffect
    <2>3. \A w \in Swap : status'[w] = status[w]
      BY <1>0, <2>2
    <2>4. \A i \in DOMAIN writeQueue : status'[writeQueue[i]] = "queued"
      BY <1>q, <2>1, <2>3 DEF WritersInv
    <2> QED BY <2>1, <2>4 DEF WritersInv
  <1> QED BY <1>1, <1>2, <1>3, <1>4, <1>5, <1>6, <1>7, <1>8, <1>9, <1>10, <1>11 DEF LockMove, Inner

LEMMA WaitingKept ==
    ASSUME LockParameters, AssetParameters, ClearOnly, LockInv, CallingInv, WritersInv, WaitingInv, LockMove
    PROVE  WaitingInv'
  <1>0. /\ status \in [Request -> {"idle", "queued", "calling", "held", "done"}]
        /\ writeQueue \in Seq(Swap) /\ readQueue \in Seq(Reader)
        /\ \A w \in Swap : w \in Request /\ w \in Writer /\ w \notin Reader /\ w \notin Brief
    BY DEF LockInv, LockTypeOK, WritersInv, AssetParameters, Writer, ClearOnly
  <1>h. \A r \in Request : status[r] \in {"calling", "held"} => lock # "None"
    BY DEF LockInv, HoldersInv, Holders, Holding, LockParameters
  <1>s. ASSUME UNCHANGED <<writeQueue, readQueue>>, \A i : ToCome(i)' <=> ToCome(i)
        PROVE  \A r : Served(r)' <=> Served(r)
    BY <1>s DEF Served
  <1>1. CASE UNCHANGED lockVars
    BY <1>1 DEF lockVars, WaitingInv, Served, ToCome, LoopPending
  <1>2. CASE LockReset
    BY <1>2 DEF LockReset, WaitingInv
  <1>3. ASSUME NEW r \in Request, Asks(r) PROVE WaitingInv'
    <2>1. stack = <<>> /\ status[r] = "idle"
      BY <1>3, AskEffect DEF Asks
    <2>2. CASE Grantable(Kind[r])
      <3>1. /\ status' = [status EXCEPT ![r] = "calling"] /\ DOMAIN stack' = {1} /\ stack'[1].op = "call"
            /\ UNCHANGED <<readQueue, writeQueue>> /\ lock' = Kind[r]
        BY <1>3, <2>2, AskEffect DEF Asks
      <3>2. \A i : ToCome(i)' /\ ToCome(i)
        BY <2>1, <3>1 DEF ToCome
      <3>3. lock' # "None"
        BY <3>1 DEF LockParameters
      <3> QED BY <1>0, <1>s, <3>1, <3>2, <3>3 DEF WaitingInv
    <2>3. CASE ~Grantable(Kind[r])
      <3>1. Enqueue(r) /\ UNCHANGED <<stack, lock>> /\ lock # "None"
        BY <1>3, <2>3, AskEffect DEF Asks, Grantable
      <3>2. status' = [status EXCEPT ![r] = "queued"]
        BY <3>1 DEF Enqueue
      <3>3. \A i : ToCome(i)' /\ ToCome(i)
        BY <2>1, <3>1 DEF ToCome
      <3>4. CASE Kind[r] = "Read"
        <4>1. readQueue' = Append(readQueue, r) /\ r \in Reader /\ UNCHANGED writeQueue
          BY <3>1, <3>4 DEF Enqueue, Reader
        <4>2. /\ DOMAIN readQueue' = 1..Len(readQueue) + 1 /\ DOMAIN readQueue = 1..Len(readQueue) /\ Len(readQueue) \in Nat
              /\ \A i \in 1..Len(readQueue) + 1 : readQueue'[i] = IF i = Len(readQueue) + 1 THEN r ELSE readQueue[i]
          BY <1>0, <4>1, Appended
        <4>3. Len(readQueue) + 1 \in DOMAIN readQueue' /\ \A i \in DOMAIN readQueue : i \in DOMAIN readQueue' /\ readQueue'[i] = readQueue[i]
          BY <4>2
        <4>4. Served(r)' /\ \A q : Served(q) => Served(q)'
          BY <3>3, <4>1, <4>2, <4>3 DEF Served
        <4> QED BY <1>0, <3>1, <3>2, <4>4 DEF WaitingInv
      <3>5. CASE Kind[r] # "Read"
        <4>1. r \in Swap /\ writeQueue' = Append(writeQueue, r) /\ UNCHANGED readQueue
          BY <1>3, <3>1, <3>5 DEF Asks, Reader, Enqueue
        <4>2. /\ DOMAIN writeQueue' = 1..Len(writeQueue) + 1 /\ DOMAIN writeQueue = 1..Len(writeQueue) /\ Len(writeQueue) \in Nat
              /\ \A i \in 1..Len(writeQueue) + 1 : writeQueue'[i] = IF i = Len(writeQueue) + 1 THEN r ELSE writeQueue[i]
          BY <1>0, <4>1, Appended
        <4>3. Len(writeQueue) + 1 \in DOMAIN writeQueue' /\ \A i \in DOMAIN writeQueue : i \in DOMAIN writeQueue' /\ writeQueue'[i] = writeQueue[i]
          BY <4>2
        <4>4. Served(r)' /\ \A q : Served(q) => Served(q)'
          BY <3>3, <4>1, <4>2, <4>3 DEF Served
        <4> QED BY <1>0, <3>1, <3>2, <4>4 DEF WaitingInv
      <3> QED BY <3>4, <3>5
    <2> QED BY <2>2, <2>3
  <1>4. ASSUME NEW r \in Request, TryRead(r) PROVE WaitingInv'
    <2>1. status' = [status EXCEPT ![r] = "held"] /\ lock' = "Read" /\ UNCHANGED <<stack, readQueue, writeQueue>>
      BY <1>4 DEF TryRead
    <2>2. \A i : ToCome(i)' <=> ToCome(i)
      BY <2>1 DEF ToCome
    <2> QED BY <1>0, <1>s, <2>1, <2>2 DEF WaitingInv
  <1>5. ASSUME NEW r \in Request, Calls(r) PROVE WaitingInv'
    <2>1. /\ status[r] = "calling" /\ status' = [status EXCEPT ![r] = "held"]
          /\ UNCHANGED <<lock, writeQueue, readQueue>> /\ \A i : ToCome(i)' <=> ToCome(i)
      BY <1>5, CallEffect
    <2> QED BY <1>0, <1>h, <1>s, <2>1 DEF WaitingInv
  <1>6. ASSUME NEW r \in Request, NEW rest \in Afterwards, Releases(r, rest) PROVE WaitingInv'
    <2>1. /\ stack = <<>> /\ UNCHANGED <<lock, status, writeQueue, readQueue>>
          /\ status[r] = "held" /\ \A k \in DOMAIN stack' : stack'[k].op \in {"release", "onFile", "shown"}
      BY <1>6, ReleasesEffect
    <2>2. \A i : ToCome(i) /\ ToCome(i)'
      BY <2>1 DEF ToCome
    <2> QED BY <1>h, <1>s, <2>1, <2>2 DEF WaitingInv
  <1>7. CASE PopsFile
    <2>1. UNCHANGED <<lock, readQueue, writeQueue, status>> /\ ~LoopPending /\ ~LoopPending'
      BY <1>7, FileEffect
    <2>2. \A i : ToCome(i) /\ ToCome(i)'
      BY <2>1 DEF ToCome, LoopPending
    <2> QED BY <1>s, <2>1, <2>2 DEF WaitingInv
  <1>8. CASE ReleaseLock
    <2> DEFINE r == stack[1].request
    <2>1. /\ status[r] = "held" /\ r \in Request /\ UNCHANGED <<lock, readQueue, writeQueue>>
          /\ \E s \in {"idle", "done"} : status' = [status EXCEPT ![r] = s]
          /\ ~LoopPending /\ ~LoopPending'
      BY <1>8, ReleaseEffect
    <2>2. \A i : ToCome(i) /\ ToCome(i)'
      BY <2>1 DEF ToCome, LoopPending
    <2> HIDE DEF r
    <2>3. lock' # "None"
      BY <1>h, <2>1
    <2>4. \A q \in Request : status'[q] = "queued" => status[q] = "queued"
      BY <1>0, <2>1
    <2> QED BY <1>s, <2>1, <2>2, <2>3, <2>4 DEF WaitingInv
  <1>9. CASE OnLockFinished
    <2>1. UNCHANGED <<readQueue, writeQueue>> /\ ~LoopPending
      BY <1>9, FinishEffect
    <2>2. \A i : ToCome(i)
      BY <2>1 DEF ToCome, LoopPending
    <2>3. CASE writeQueue # <<>>
      <3>1. writeQueue[1] \in Request /\ status' = [status EXCEPT ![writeQueue[1]] = "calling"] /\ ~LoopPending' /\ lock' # "None"
        BY <1>9, <2>3, FinishEffect
      <3>2. \A i : ToCome(i)'
        BY <3>1 DEF ToCome, LoopPending
      <3>3. \A q \in Request : status'[q] = "queued" => status[q] = "queued"
        BY <1>0, <3>1
      <3> QED BY <1>s, <2>1, <2>2, <3>1, <3>2, <3>3 DEF WaitingInv
    <2>4. CASE writeQueue = <<>>
      <3>1. UNCHANGED status /\ (readQueue # <<>> => LoopPending' /\ \A i \in Nat \ {0} : ToCome(i)')
        BY <1>9, <2>4, FinishEffect
      <3>2. \A i \in DOMAIN readQueue : i \in Nat \ {0} /\ readQueue # <<>>
        BY <1>0
      <3>3. \A q : Served(q) => Served(q)'
        BY <2>1, <3>1, <3>2 DEF Served
      <3> QED BY <2>1, <2>4, <3>1, <3>3 DEF WaitingInv
    <2> QED BY <2>3, <2>4
  <1>10. CASE PopsWriter
    <2>1. /\ writeQueue # <<>> /\ writeQueue' = Tail(writeQueue) /\ UNCHANGED <<lock, readQueue, status>>
          /\ PopPending /\ ~LoopPending /\ ~LoopPending'
      BY <1>10, PopsEffect
    <2>2. \A i : ToCome(i) /\ ToCome(i)'
      BY <2>1 DEF ToCome, LoopPending
    <2>3. status[writeQueue[1]] # "queued"
      BY <2>1 DEF WritersInv
    <2>4. \A i \in DOMAIN writeQueue : i # 1 => i - 1 \in DOMAIN writeQueue' /\ writeQueue'[i - 1] = writeQueue[i]
      BY <1>0, <2>1
    <2>5. \A q : Served(q) /\ q # writeQueue[1] => Served(q)'
      BY <2>1, <2>2, <2>4 DEF Served
    <2> QED BY <2>1, <2>3, <2>5 DEF WaitingInv
  <1>11. CASE GrantsReader
    <2> DEFINE n == stack[1].next
    <2>0. UNCHANGED writeQueue /\ n \in Nat \ {0} /\ \A i : ToCome(i) <=> n <= i
      BY <1>11, LoopEffect
    <2> HIDE DEF n
    <2>1. CASE /\ n \in DOMAIN readQueue /\ status' = [status EXCEPT ![readQueue[n]] = "calling"]
               /\ lock' # "None" /\ UNCHANGED readQueue /\ \A i : ToCome(i)' <=> n + 1 <= i
      <3>1. readQueue[n] \in Request
        BY <1>0, <2>1 DEF Reader
      <3>2. \A i \in DOMAIN readQueue : ToCome(i) => i = n \/ ToCome(i)'
        BY <1>0, <2>0, <2>1
      <3>3. \A q : Served(q) => q = readQueue[n] \/ Served(q)'
        BY <2>0, <2>1, <3>2 DEF Served
      <3>4. \A q \in Request : status'[q] = "queued" => status[q] = "queued" /\ q # readQueue[n]
        BY <1>0, <2>1, <3>1
      <3> QED BY <2>1, <3>3, <3>4 DEF WaitingInv
    <2>2. CASE (\A i \in DOMAIN readQueue : ~ToCome(i)) /\ readQueue' = <<>> /\ UNCHANGED <<lock, status>>
      <3>1. \A q : Served(q) => Served(q)'
        BY <2>0, <2>2 DEF Served
      <3> QED BY <2>0, <2>2, <3>1 DEF WaitingInv
    <2> QED BY <1>11, <2>1, <2>2, LoopEffect DEF n
  <1> QED BY <1>1, <1>2, <1>3, <1>4, <1>5, <1>6, <1>7, <1>8, <1>9, <1>10, <1>11 DEF LockMove, Inner

(* The queues, over every step of the asset.                                *)
LEMMA NextQueues ==
    ASSUME ClearOnly, Polite, AssetInv, QueuesInv, [Next]_vars
    PROVE  QueuesInv'
  BY NextLock, CallingKept, WritersKept, WaitingKept, LockParameters, AssetParameters DEF QueuesInv, AssetInv

LEMMA QueuesInductive == ASSUME ClearOnly, Polite PROVE Spec => []QueuesInv
  <1>1. Init => QueuesInv
    <2> SUFFICES ASSUME Init PROVE QueuesInv
      OBVIOUS
    <2>1. /\ stack = <<>> /\ writeQueue = <<>> /\ readQueue = <<>> /\ status = [r \in Request |-> "idle"]
          /\ DOMAIN stack = {} /\ DOMAIN writeQueue = {}
      BY DEF Init, LockInit
    <2> QED BY <2>1 DEF QueuesInv, CallingInv, WritersInv, WaitingInv, PopPending
  <1>2. AssetInv /\ QueuesInv /\ [Next]_vars => QueuesInv'
    BY NextQueues
  <1> QED BY <1>1, <1>2, Inductive, PTL DEF Spec

(* Between two events a lock that is free has nobody waiting for it, and    *)
(* whoever is queued is in a queue, once: onLockFinished passes the lock to *)
(* the next writer, or to every reader, and removes exactly those.          *)
THEOREM NoneForgotten == ASSUME ClearOnly, Polite PROVE Spec => []NobodyForgotten
  <1>1. AssetInv /\ QueuesInv => NobodyForgotten
    <2> SUFFICES ASSUME AssetInv, QueuesInv, stack = <<>>
                 PROVE  /\ lock = "None" => readQueue = <<>> /\ writeQueue = <<>>
                        /\ IsInjective(readQueue) /\ IsInjective(writeQueue)
                        /\ Range(readQueue) \cup Range(writeQueue) = {r \in Request : status[r] = "queued"}
      BY DEF NobodyForgotten, Idle
    <2>1. ~PopPending /\ ~LoopPending /\ \A i : ToCome(i)
      BY DEF PopPending, LoopPending, ToCome
    <2>2. lock = "None" => readQueue = <<>> /\ writeQueue = <<>>
      BY <2>1 DEF QueuesInv, WaitingInv
    <2>3. IsInjective(readQueue) /\ IsInjective(writeQueue)
      BY DEF QueuesInv, WritersInv, AssetInv, LockInv, ReadersInv, IsInjective
    <2>4. /\ \A i \in DOMAIN readQueue : readQueue[i] \in Request /\ status[readQueue[i]] = "queued"
          /\ \A i \in DOMAIN writeQueue : writeQueue[i] \in Request /\ status[writeQueue[i]] = "queued"
      <3>1. readQueue \in Seq(Reader) /\ writeQueue \in Seq(Writer)
        BY DEF AssetInv, LockInv, LockTypeOK
      <3>2. (\A i \in DOMAIN readQueue : readQueue[i] \in Reader) /\ (\A i \in DOMAIN writeQueue : writeQueue[i] \in Writer)
        BY <3>1
      <3> QED BY <2>1, <3>2 DEF Reader, Writer, AssetInv, LockInv, ReadersInv, QueuesInv, WritersInv
    <2>5. \A r \in Request : status[r] = "queued" => r \in Range(readQueue) \cup Range(writeQueue)
      BY DEF QueuesInv, WaitingInv, Served, Range
    <2>6. Range(readQueue) \cup Range(writeQueue) = {r \in Request : status[r] = "queued"}
      BY <2>4, <2>5 DEF Range
    <2> QED BY <2>2, <2>3, <2>6
  <1> QED BY <1>1, QueuesInductive, Inductive, PTL

-----------------------------------------------------------------------------
(* What a swap does while the asset waits for it: it waits for its lock,    *)
(* and then keeps it until its file has been moved.                         *)
Waiting(w) == status[w] \in {"queued", "calling"}
Kept(w)    == status[w] = "held" /\ ~Leaving(w)
Active(w)  == Waiting(w) \/ Kept(w)

Stays(w) == (Waiting(w)' <=> Waiting(w)) /\ (Kept(w)' <=> Kept(w))

FilePending == \E k \in DOMAIN stack : stack[k].op = "onFile"
Answered    == \E i \in DOMAIN calls : calls[i].what = "completed"

(* A download, its answer and its swap come one after another, and the      *)
(* asset is not opened while a swap is pending.                             *)
PhaseInv ==
    /\ downloadInProgress <=> download.state # "none"
    /\ waitFileSwap => download.state = "none"
    /\ download.state = "answered" <=> Answered
    /\ \A i, j \in DOMAIN calls : calls[i].what = "completed" /\ calls[j].what = "completed" => i = j
    /\ \A i \in DOMAIN calls : calls[i].what = "opened" => i = 1 /\ ~waitFileSwap
    /\ FilePending => ~waitFileSwap

(* The flags of the asset are about the only swap there is.                 *)
FlagsInv ==
    /\ waitFileSwap <=> \E w \in Swap : Active(w)
    /\ \A w, v \in Swap : Active(w) /\ Active(v) => w = v
    /\ \A w \in Swap : Kept(w) => w \in Moving
    /\ fileUpdate <=> Moving # {}
    /\ Moving = {} => (fileExisted <=> Exists(file))

DataInv == PhaseInv /\ FlagsInv

-----------------------------------------------------------------------------
(* What a step does with a swap.                                            *)
LEMMA StaysAsk ==
    ASSUME LockInv, NEW r \in Request, Retain(r), NEW w \in Request
    PROVE  /\ w # r => Stays(w)
           /\ ~Waiting(r) /\ ~Kept(r) /\ Waiting(r)' /\ ~Kept(r)'
           /\ ~FilePending /\ ~FilePending'
  <1>0. status \in [Request -> {"idle", "queued", "calling", "held", "done"}]
    BY DEF LockInv, LockTypeOK
  <1>1. /\ stack = <<>> /\ status[r] = "idle"
        /\ \/ status' = [status EXCEPT ![r] = "calling"] /\ DOMAIN stack' = {1} /\ stack'[1].op = "call"
           \/ status' = [status EXCEPT ![r] = "queued"] /\ UNCHANGED stack
    BY AskEffect DEF Enqueue
  <1>2. ~Top("release") /\ ~Top("release")' /\ ~FilePending /\ ~FilePending'
    BY <1>1 DEF Top, FilePending
  <1> QED BY <1>0, <1>1, <1>2 DEF Stays, Waiting, Kept, Leaving

LEMMA StaysTry ==
    ASSUME LockInv, NEW r \in Request, TryRead(r), NEW w \in Request, w # r
    PROVE  Stays(w) /\ ~FilePending'
  <1>0. status \in [Request -> {"idle", "queued", "calling", "held", "done"}]
    BY DEF LockInv, LockTypeOK
  <1>1. stack = <<>> /\ UNCHANGED stack /\ status' = [status EXCEPT ![r] = "held"]
    BY DEF TryRead, Idle
  <1> QED BY <1>0, <1>1 DEF Stays, Waiting, Kept, Leaving, Top, FilePending

LEMMA StaysCalls ==
    ASSUME LockInv, NEW r \in Request, Calls(r), NEW w \in Request
    PROVE  /\ w # r => Stays(w)
           /\ Waiting(r) /\ ~Kept(r) /\ ~Waiting(r)' /\ (r \notin Brief => Kept(r)')
           /\ FilePending' => FilePending
  <1>0. status \in [Request -> {"idle", "queued", "calling", "held", "done"}]
    BY DEF LockInv, LockTypeOK
  <1>1. /\ stack # <<>> /\ stack[1].op = "call" /\ status[r] = "calling"
        /\ status' = [status EXCEPT ![r] = "held"]
    BY CallEffect
  <1>2. \A q \in Request : ~Leaving(q) /\ (Leaving(q)' => q = r /\ r \in Brief)
    BY <1>1, CallsKeeps DEF Leaving, Top
  <1>3. FilePending' => FilePending
    <2>1. CASE r \in Brief
      <3>1. Release(r) \in Frames /\ Release(r).op = "release" /\ stack' = <<Release(r)>> \o Tail(stack)
        BY <2>1, FramesMade DEF Calls
      <3> QED BY <1>1, <3>1, ReplacedFrames DEF FilePending
    <2>2. CASE r \notin Brief
      <3>1. stack' = <<>> \o Tail(stack)
        BY <2>2 DEF Calls
      <3> QED BY <1>1, <3>1, PoppedFrames DEF FilePending
    <2> QED BY <2>1, <2>2
  <1> QED BY <1>0, <1>1, <1>2, <1>3 DEF Stays, Waiting, Kept

LEMMA StaysReleases ==
    ASSUME LockInv, NEW r \in Request, NEW rest \in Afterwards, Releases(r, rest), NEW w \in Request
    PROVE  /\ w # r => Stays(w)
           /\ ~Waiting(r) /\ Kept(r) /\ ~Waiting(r)' /\ ~Kept(r)'
           /\ rest # <<OnFile>> => ~FilePending'
  <1>1. /\ stack = <<>> /\ status[r] = "held" /\ Leaving(r)' /\ UNCHANGED status
        /\ rest # <<OnFile>> => \A k \in DOMAIN stack' : stack'[k].op # "onFile"
    BY ReleasesEffect
  <1>2. \A q : ~Leaving(q) /\ (Leaving(q)' => q = r)
    BY <1>1, ReleasesKeeps DEF Leaving, Top
  <1> QED BY <1>1, <1>2 DEF Stays, Waiting, Kept, FilePending

LEMMA StaysFile ==
    ASSUME LockInv, PopsFile, NEW w \in Request
    PROVE  Stays(w)
  BY FileEffect DEF Stays, Waiting, Kept, Leaving, Top

LEMMA StaysInner ==
    ASSUME LockParameters, AssetParameters, ClearOnly, LockInv, WritersInv, Inner, NEW w \in Swap
    PROVE  Stays(w)
  <1>0. /\ status \in [Request -> {"idle", "queued", "calling", "held", "done"}]
        /\ w \in Request /\ w \notin Reader /\ writeQueue \in Seq(Swap)
        /\ \A x \in Swap : x \notin Brief
    BY DEF LockInv, LockTypeOK, AssetParameters, Writer, ClearOnly, WritersInv
  <1>1. CASE ReleaseLock
    <2> DEFINE r == stack[1].request
    <2>1. /\ Top("release") /\ status[r] = "held" /\ r \in Request /\ ~Top("release")'
          /\ \E s \in {"idle", "done"} : status' = [status EXCEPT ![r] = s]
      BY <1>1, ReleaseEffect
    <2>2. Leaving(w) <=> w = r
      BY <2>1 DEF Leaving
    <2>3. ~Leaving(w)'
      BY <2>1 DEF Leaving
    <2> HIDE DEF r
    <2> QED BY <1>0, <2>1, <2>2, <2>3 DEF Stays, Waiting, Kept
  <1>2. CASE OnLockFinished
    <2>1. Top("finish") /\ UNCHANGED writeQueue /\ (PopPending => writeQueue # <<>> /\ writeQueue[1] \in Brief)
      BY <1>2, FinishEffect
    <2>2. ~Leaving(w)
      BY <2>1 DEF Leaving, Top
    <2>3. CASE writeQueue # <<>>
      <3>1. status' = [status EXCEPT ![writeQueue[1]] = "calling"] /\ Top("call")'
        BY <1>2, <2>3, FinishEffect
      <3>2. writeQueue[1] \in Swap /\ 1 \in DOMAIN writeQueue
        BY <1>0, <2>3
      <3>3. status[writeQueue[1]] = "queued"
        BY <1>0, <2>1, <3>2 DEF WritersInv
      <3>4. ~Leaving(w)'
        BY <3>1 DEF Leaving, Top
      <3> QED BY <1>0, <2>2, <3>1, <3>3, <3>4 DEF Stays, Waiting, Kept
    <2>4. CASE writeQueue = <<>>
      <3>1. UNCHANGED status /\ ~Top("release")'
        BY <1>2, <2>4, FinishEffect
      <3> QED BY <2>2, <3>1 DEF Stays, Waiting, Kept, Leaving
    <2> QED BY <2>3, <2>4
  <1>3. CASE PopsWriter
    <2>1. Top("popWriter") /\ UNCHANGED status /\ ~Top("release")'
      BY <1>3, PopsEffect
    <2> QED BY <2>1 DEF Stays, Waiting, Kept, Leaving, Top
  <1>4. CASE GrantsReader
    <2>1. Top("readers") /\ (\/ UNCHANGED status /\ ~Top("release")'
                             \/ \E r \in Reader : status' = [status EXCEPT ![r] = "calling"] /\ Top("call")')
      BY <1>4, LoopEffect
    <2>2. status'[w] = status[w]
      BY <1>0, <2>1
    <2>3. ~Leaving(w) /\ ~Leaving(w)'
      BY <2>1 DEF Leaving, Top
    <2> QED BY <2>2, <2>3 DEF Stays, Waiting, Kept
  <1> QED BY <1>1, <1>2, <1>3, <1>4 DEF Inner

LEMMA InnerFile ==
    ASSUME LockInv, Inner \/ PopsFile
    PROVE  FilePending' => FilePending
  <1>0. stack # <<>> /\ stack[1] \in Frames /\ Head(stack) = stack[1]
    <2>1. stack \in Seq(Frames)
      BY DEF LockInv
    <2>2. stack # <<>>
      BY DEF Inner, ReleaseLock, OnLockFinished, PopsWriter, GrantsReader, PopsFile, Innermost
    <2> QED BY <2>1, <2>2, Sequence
  <1>1. ASSUME stack' = Tail(stack) \/ stack' = <<>> \o Tail(stack) PROVE FilePending' => FilePending
    BY <1>0, <1>1, PoppedFrames DEF FilePending
  <1>2. ASSUME NEW a \in Frames, a.op # "onFile", stack' = <<a>> \o Tail(stack) PROVE FilePending' => FilePending
    BY <1>0, <1>2, ReplacedFrames DEF FilePending
  <1>3. ASSUME NEW a \in Frames, NEW b \in Frames, a.op # "onFile", b.op # "onFile",
               stack' = <<a>> \o (<<b>> \o Tail(stack))
        PROVE  FilePending' => FilePending
    <2>1. /\ stack'[1] = a /\ stack'[2] = b
          /\ \A k \in DOMAIN stack' : k \in {1, 2} \/ (k - 1 \in DOMAIN stack /\ k - 1 # 1 /\ stack'[k] = stack[k - 1])
      BY <1>0, <1>3, PushedFrames
    <2> QED BY <1>3, <2>1 DEF FilePending
  <1>4. /\ \A r \in Request : Call(r) \in Frames /\ Call(r).op = "call"
        /\ Finish \in Frames /\ Finish.op = "finish" /\ PopWriter \in Frames /\ PopWriter.op = "popWriter"
        /\ \A i \in Nat \ {0} : Readers(i) \in Frames /\ Readers(i).op = "readers"
    BY FramesMade
  <1>5. CASE ReleaseLock
    <2>1. stack' = <<Finish>> \o Tail(stack) \/ stack' = <<>> \o Tail(stack)
      <3>1. stack' = (IF lockers' = <<>> THEN <<Finish>> ELSE <<>>) \o Tail(stack)
        BY <1>5 DEF ReleaseLock
      <3> QED BY <3>1
    <2> QED BY <1>1, <1>2, <1>4, <2>1
  <1>6. CASE OnLockFinished
    <2>1. CASE writeQueue # <<>>
      <3>1. Head(writeQueue) \in Request
        <4>1. writeQueue \in Seq(Writer)
          BY DEF LockInv, LockTypeOK
        <4> QED BY <2>1, <4>1 DEF Writer
      <3>2. stack' = <<Call(Head(writeQueue))>> \o (<<PopWriter>> \o Tail(stack))
        BY <1>6, <2>1 DEF OnLockFinished, Grant
      <3> QED BY <1>3, <1>4, <3>1, <3>2
    <2>2. CASE writeQueue = <<>>
      <3>1. stack' = <<Readers(1)>> \o Tail(stack) \/ stack' = <<>> \o Tail(stack)
        BY <1>6, <2>2 DEF OnLockFinished
      <3> QED BY <1>1, <1>2, <1>4, <3>1
    <2> QED BY <2>1, <2>2
  <1>7. CASE PopsWriter \/ PopsFile
    BY <1>1, <1>7 DEF PopsWriter, PopsFile
  <1>8. CASE GrantsReader
    <2> DEFINE n == stack[1].next
    <2>1. n \in Nat \ {0} /\ n + 1 \in Nat \ {0}
      <3>1. stack[1].op = "readers"
        BY <1>0, <1>8 DEF GrantsReader, Innermost
      <3>2. n \in Nat \ {0}
        BY <1>0, <3>1, FrameFields
      <3> QED BY <3>2
    <2> HIDE DEF n
    <2>2. CASE n <= Len(readQueue)
      <3>1. readQueue[n] \in Request
        <4>1. readQueue \in Seq(Reader)
          BY DEF LockInv, LockTypeOK
        <4> QED BY <2>1, <2>2, <4>1 DEF Reader
      <3>2. stack' = <<Call(readQueue[n])>> \o (<<Readers(n + 1)>> \o Tail(stack))
        BY <1>0, <1>8, <2>2 DEF GrantsReader, Grant, n
      <3> QED BY <1>3, <1>4, <2>1, <3>1, <3>2
    <2>3. CASE ~(n <= Len(readQueue))
      BY <1>0, <1>1, <1>8, <2>3 DEF GrantsReader, n
    <2> QED BY <2>2, <2>3
  <1> QED BY <1>5, <1>6, <1>7, <1>8 DEF Inner

(* A step that asks, calls or releases for no swap leaves them alone.       *)
Aside ==
    \/ UNCHANGED lockVars
    \/ \E r \in Request : r \notin Swap /\ (Retain(r) \/ TryRead(r) \/ Calls(r))
    \/ \E r \in Request, rest \in Afterwards : r \notin Swap /\ rest # <<OnFile>> /\ Releases(r, rest)
    \/ PopsFile
    \/ Inner

LEMMA AsideKeeps ==
    ASSUME LockParameters, AssetParameters, ClearOnly, LockInv, WritersInv, Aside
    PROVE  (\A w \in Swap : Stays(w)) /\ (FilePending' => FilePending)
  <1>0. \A w \in Swap : w \in Request
    BY DEF AssetParameters, Writer
  <1>1. CASE UNCHANGED lockVars
    BY <1>1 DEF lockVars, Stays, Waiting, Kept, Leaving, Top, FilePending
  <1>2. ASSUME NEW r \in Request, r \notin Swap, Retain(r) \/ TryRead(r) \/ Calls(r)
        PROVE  (\A w \in Swap : Stays(w)) /\ (FilePending' => FilePending)
    <2>1. \A w \in Swap : w \in Request /\ w # r
      BY <1>0, <1>2
    <2>2. CASE Retain(r)
      BY <2>1, <2>2, StaysAsk
    <2>3. CASE TryRead(r)
      <3>1. \A w \in Swap : Stays(w)
        BY <2>1, <2>3, StaysTry
      <3>2. FilePending' => FilePending
        BY <2>3 DEF TryRead, FilePending
      <3> QED BY <3>1, <3>2
    <2>4. CASE Calls(r)
      <3>1. \A w \in Swap : Stays(w)
        BY <2>1, <2>4, StaysCalls
      <3>2. FilePending' => FilePending
        BY <2>4, StaysCalls
      <3> QED BY <3>1, <3>2
    <2> QED BY <1>2, <2>2, <2>3, <2>4
  <1>4. ASSUME NEW r \in Request, NEW rest \in Afterwards, r \notin Swap, rest # <<OnFile>>, Releases(r, rest)
        PROVE  (\A w \in Swap : Stays(w)) /\ (FilePending' => FilePending)
    <2>1. \A w \in Swap : w \in Request /\ w # r
      BY <1>0, <1>4
    <2>2. \A w \in Swap : Stays(w)
      BY <1>4, <2>1, StaysReleases
    <2>3. ~FilePending'
      BY <1>4, StaysReleases
    <2> QED BY <2>2, <2>3
  <1>3. CASE PopsFile \/ Inner
    BY <1>0, <1>3, StaysFile, StaysInner, InnerFile
  <1> QED BY <1>1, <1>2, <1>3, <1>4 DEF Aside

LEMMA Dequeued ==
    ASSUME Types, NEW what, Dequeue(what)
    PROVE  /\ stack = <<>> /\ 1 \in DOMAIN calls /\ Head(calls) = calls[1] /\ calls[1].what = what /\ calls[1] \in Called
           /\ \A i \in DOMAIN calls' : calls'[i] = calls[i + 1] /\ i + 1 \in DOMAIN calls /\ i + 1 # 1 /\ i \in Nat
           /\ \A i \in DOMAIN calls : i = 1 \/ (i - 1 \in DOMAIN calls' /\ calls'[i - 1] = calls[i])
  <1>1. calls \in Seq(Called) /\ calls # <<>> /\ calls' = Tail(calls) /\ stack = <<>> /\ Head(calls).what = what
    BY DEF Types, ThreadsOK, Dequeue, Idle
  <1>2. 1 \in DOMAIN calls /\ Head(calls) = calls[1] /\ calls[1] \in Called
    BY <1>1
  <1>3. \A i \in DOMAIN calls' : calls'[i] = calls[i + 1] /\ i + 1 \in DOMAIN calls /\ i + 1 # 1 /\ i \in Nat
    BY <1>1
  <1>4. \A i \in DOMAIN calls : i = 1 \/ (i - 1 \in DOMAIN calls' /\ calls'[i - 1] = calls[i])
    BY <1>1
  <1> QED BY <1>1, <1>2, <1>3, <1>4

LEMMA Posted ==
    ASSUME Types, NEW c \in Called, Post(c)
    PROVE  /\ \A i \in DOMAIN calls : i \in DOMAIN calls' /\ calls'[i] = calls[i]
           /\ \A i \in DOMAIN calls' : i \in DOMAIN calls \/ (i = Len(calls) + 1 /\ calls'[i] = c)
           /\ Len(calls) + 1 \in DOMAIN calls' /\ calls'[Len(calls) + 1] = c
  <1>1. calls \in Seq(Called) /\ calls' = Append(calls, c)
    BY DEF Types, ThreadsOK, Post
  <1>2. /\ DOMAIN calls' = 1..Len(calls) + 1 /\ DOMAIN calls = 1..Len(calls) /\ Len(calls) \in Nat
        /\ \A i \in 1..Len(calls) + 1 : calls'[i] = IF i = Len(calls) + 1 THEN c ELSE calls[i]
    BY <1>1, Appended, Sequence
  <1> QED BY <1>2

LEMMA SameMoving ==
    ASSUME Types, UNCHANGED work,
           \/ UNCHANGED calls
           \/ \E what : what # "swapped" /\ Dequeue(what)
           \/ \E c \in Called : c.what # "swapped" /\ Post(c)
    PROVE  Moving' = Moving
  <1>0. \A w : Swapped(w).what = "swapped"
    BY DEF Swapped
  <1>1. CASE UNCHANGED calls
    BY <1>1 DEF Moving
  <1>2. ASSUME NEW what, what # "swapped", Dequeue(what) PROVE Moving' = Moving
    <2>1. \A w : (\E i \in DOMAIN calls : calls[i] = Swapped(w)) <=> (\E i \in DOMAIN calls' : calls'[i] = Swapped(w))
      BY <1>0, <1>2, Dequeued
    <2> QED BY <2>1 DEF Moving
  <1>3. ASSUME NEW c \in Called, c.what # "swapped", Post(c) PROVE Moving' = Moving
    <2>1. /\ \A i \in DOMAIN calls : i \in DOMAIN calls' /\ calls'[i] = calls[i]
          /\ \A i \in DOMAIN calls' : i \in DOMAIN calls \/ calls'[i] = c
      BY <1>3, Posted
    <2>2. \A w : (\E i \in DOMAIN calls : calls[i] = Swapped(w)) <=> (\E i \in DOMAIN calls' : calls'[i] = Swapped(w))
      BY <1>0, <1>3, <2>1
    <2> QED BY <2>2 DEF Moving
  <1> QED BY <1>1, <1>2, <1>3

LEMMA PhaseSame ==
    ASSUME PhaseInv, FilePending' => FilePending, UNCHANGED <<downloadInProgress, waitFileSwap, download, calls>>
    PROVE  PhaseInv'
  BY DEF PhaseInv, Answered

LEMMA FlagsSame ==
    ASSUME FlagsInv, \A w \in Swap : Stays(w), Moving' = Moving, UNCHANGED <<waitFileSwap, fileUpdate>>,
           Moving = {} => (fileExisted' <=> Exists(file)')
    PROVE  FlagsInv'
  <1>1. \A w \in Swap : Active(w)' <=> Active(w)
    BY DEF Stays, Active
  <1> QED BY <1>1 DEF FlagsInv, Stays

(* While no swap is pending none has the lock.                              *)
LEMMA NotPending ==
    ASSUME AssetInv, FlagsInv, ~waitFileSwap
    PROVE  Moving = {} /\ \A w \in Swap : ~Waiting(w) /\ ~Kept(w)
  <1>1. \A w \in Swap : ~Waiting(w) /\ ~Kept(w)
    BY DEF FlagsInv, Active
  <1>2. \A w \in Moving : w \in Swap /\ Kept(w)
    BY DEF AssetInv, SwapInv, Kept, Moving
  <1> QED BY <1>1, <1>2

(* Readers, clear() and the lock: at most the file goes, with its flag.     *)
LEMMA AsideData ==
    ASSUME LockParameters, AssetParameters, ClearOnly, AssetInv, WritersInv, DataInv, Aside,
           UNCHANGED <<waitFileSwap, downloadInProgress, fileUpdate, download, work, calls>>,
           \/ UNCHANGED <<file, fileExisted>>
           \/ fileExisted' = Exists(file)'
    PROVE  DataInv'
  <1>1. (\A w \in Swap : Stays(w)) /\ (FilePending' => FilePending)
    BY AsideKeeps DEF AssetInv
  <1>2. Moving' = Moving
    BY SameMoving DEF AssetInv
  <1>3. PhaseInv'
    BY <1>1, PhaseSame DEF DataInv
  <1>4. Moving = {} => (fileExisted' <=> Exists(file)')
    BY DEF DataInv, FlagsInv, Exists
  <1>5. FlagsInv'
    BY <1>1, <1>2, <1>4, FlagsSame DEF DataInv
  <1> QED BY <1>3, <1>5 DEF DataInv

LEMMA UserData ==
    ASSUME LockParameters, AssetParameters, ClearOnly, AssetInv, WritersInv, DataInv, NEW r \in Request,
           ReadRetain(r) \/ ReadTry(r) \/ ReadCalled(r) \/ ReadRelease(r)
    PROVE  DataInv'
  <1>1. r \notin Swap
    BY DEF ReadRetain, ReadTry, ReadCalled, ReadRelease, TryRead, AssetParameters, Writer, Reader
  <1>2. Aside
    BY <1>1, AfterwardsMade DEF ReadRetain, ReadTry, ReadCalled, ReadRelease, Aside
  <1>3. UNCHANGED <<file, fileExisted, waitFileSwap, downloadInProgress, fileUpdate, download, work, calls>>
    BY DEF ReadRetain, ReadTry, ReadCalled, ReadRelease, Others, disk, flags, threads
  <1> QED BY <1>2, <1>3, AsideData

LEMMA OwnerData ==
    ASSUME LockParameters, AssetParameters, ClearOnly, AssetInv, WritersInv, DataInv,
           ClearFile \/ ClearCalled \/ CheckFile \/ LockStep \/ Publish \/ SaveRow \/ UNCHANGED vars
    PROVE  DataInv'
  <1>0. Clear \in Request /\ Clear \notin Swap
    BY DEF AssetParameters, Writer, ClearOnly
  <1>1. Aside
    <2>1. CASE ClearFile \/ ClearCalled
      BY <1>0, <2>1 DEF ClearFile, ClearCalled, Aside
    <2>2. CASE CheckFile \/ Publish \/ SaveRow \/ UNCHANGED vars
      BY <2>2 DEF CheckFile, Publish, SaveRow, vars, Aside
    <2>3. CASE LockStep
      BY <2>3 DEF LockStep, Aside, Inner
    <2> QED BY <2>1, <2>2, <2>3
  <1>2. UNCHANGED <<waitFileSwap, downloadInProgress, fileUpdate, download, work, calls>>
    BY DEF ClearFile, ClearCalled, CheckFile, LockStep, Publish, SaveRow, vars, Others, disk, flags, threads
  <1>3. UNCHANGED <<file, fileExisted>> \/ fileExisted' = Exists(file)'
    <2>1. CASE ClearCalled
      BY <2>1 DEF ClearCalled, Exists
    <2>2. CASE CheckFile
      BY <2>2 DEF CheckFile, disk, Exists
    <2>3. CASE ClearFile \/ LockStep \/ Publish \/ SaveRow \/ UNCHANGED vars
      BY <2>3 DEF ClearFile, LockStep, Publish, SaveRow, vars, Others, disk, flags
    <2> QED BY <2>1, <2>2, <2>3
  <1> QED BY <1>1, <1>2, <1>3, AsideData

(* onFile of a swap comes when no other is pending.                         *)
LEMMA FileData ==
    ASSUME LockParameters, AssetParameters, ClearOnly, AssetInv, WritersInv, DataInv, OnFileCalled
    PROVE  DataInv'
  <1>0. PopsFile /\ UNCHANGED <<waitFileSwap, downloadInProgress, download, work, calls, file>>
        /\ fileExisted' = Exists(file) /\ fileUpdate' = FALSE
    BY DEF OnFileCalled, PopsFile, threads, disk
  <1>1. (\A w \in Swap : Stays(w)) /\ (FilePending' => FilePending)
    BY <1>0, AsideKeeps DEF AssetInv, Aside
  <1>2. Moving' = Moving
    BY <1>0, SameMoving DEF AssetInv
  <1>3. PhaseInv'
    BY <1>0, <1>1, PhaseSame DEF DataInv
  <1>4. FilePending
    <2>1. stack \in Seq(Frames) /\ stack # <<>> /\ Head(stack).op = "onFile"
      BY DEF AssetInv, LockInv, OnFileCalled, Innermost
    <2>2. 1 \in DOMAIN stack /\ stack[1].op = "onFile"
      BY <2>1
    <2> QED BY <2>2 DEF FilePending
  <1>5. Moving = {}
    BY <1>4, NotPending DEF DataInv, PhaseInv
  <1>6. fileUpdate' <=> Moving # {}
    BY <1>0, <1>5
  <1>7. fileExisted' <=> Exists(file)'
    BY <1>0 DEF Exists
  <1>8. \A w \in Swap : Active(w)' <=> Active(w)
    BY <1>1 DEF Stays, Active
  <1>9. FlagsInv'
    BY <1>0, <1>1, <1>2, <1>6, <1>7, <1>8 DEF DataInv, FlagsInv, Stays
  <1> QED BY <1>3, <1>9 DEF DataInv

(* A download begins when there is none and no swap is pending.             *)
LEMMA DownloadData ==
    ASSUME LockParameters, AssetParameters, ClearOnly, Polite, AssetInv, WritersInv, DataInv, Download \/ OnOpened
    PROVE  DataInv'
  <1>0. UNCHANGED <<lockVars, disk, waitFileSwap, fileExisted, fileUpdate, work>>
    BY DEF Download, OnOpened, StartDownload, flags
  <1>1. (\A w \in Swap : Stays(w)) /\ (FilePending' => FilePending)
    BY <1>0, AsideKeeps DEF AssetInv, Aside
  <1>2. UNCHANGED calls \/ Dequeue("opened")
    BY DEF Download, OnOpened
  <1>3. Moving' = Moving
    BY <1>0, <1>2, SameMoving DEF AssetInv
  <1>4. FlagsInv'
    BY <1>0, <1>1, <1>3, FlagsSame DEF DataInv, FlagsInv, disk, Exists
  <1>5. /\ \A i, j \in DOMAIN calls' : calls'[i].what = "completed" /\ calls'[j].what = "completed" => i = j
        /\ Answered' <=> Answered
        /\ \A i \in DOMAIN calls' : calls'[i].what = "opened" => i = 1 /\ ~waitFileSwap'
    <2>1. CASE UNCHANGED calls
      BY <1>0, <2>1 DEF DataInv, PhaseInv, Answered
    <2>2. CASE Dequeue("opened")
      <3>1. /\ calls[1].what = "opened" /\ 1 \in DOMAIN calls
            /\ \A i \in DOMAIN calls' : calls'[i] = calls[i + 1] /\ i + 1 \in DOMAIN calls /\ i + 1 # 1 /\ i \in Nat
            /\ \A i \in DOMAIN calls : i = 1 \/ (i - 1 \in DOMAIN calls' /\ calls'[i - 1] = calls[i])
        BY <2>2, Dequeued DEF AssetInv
      <3>2. Answered' <=> Answered
        BY <3>1 DEF Answered
      <3>3. \A i \in DOMAIN calls' : calls'[i].what # "opened"
        BY <3>1 DEF DataInv, PhaseInv
      <3>4. \A i, j \in DOMAIN calls' : calls'[i].what = "completed" /\ calls'[j].what = "completed" => i + 1 = j + 1
        BY <3>1 DEF DataInv, PhaseInv
      <3> QED BY <3>1, <3>2, <3>3, <3>4
    <2> QED BY <1>2, <2>1, <2>2
  <1>6. CASE UNCHANGED <<downloadInProgress, download>>
    BY <1>0, <1>1, <1>4, <1>5, <1>6 DEF DataInv, PhaseInv
  <1>7. CASE StartDownload
    <2>1. downloadInProgress' = TRUE /\ download'.state = "asked"
      BY <1>7 DEF StartDownload, Asked
    <2>2. ~downloadInProgress /\ ~waitFileSwap
      <3>1. CASE Download
        BY <3>1 DEF Download, isDownloadAvailable
      <3>2. CASE OnOpened
        <4>1. ~downloadInProgress
          <5>1. CASE fileExisted /\ ~downloadInProgress
            BY <5>1
          <5>2. CASE ~(fileExisted /\ ~downloadInProgress)
            <6>1. UNCHANGED <<downloadInProgress>>
              BY <3>2, <5>2 DEF OnOpened, flags
            <6>2. UNCHANGED saves
              BY <3>2, <5>2 DEF OnOpened
            <6>3. saves' = Append(saves, Row(mtime, TRUE)) /\ saves \in Seq(Rows)
              BY <1>7 DEF StartDownload, Save, AssetInv, Types, ThreadsOK
            <6> QED BY <6>2, <6>3
          <5> QED BY <5>1, <5>2
        <4>2. calls[1].what = "opened" /\ 1 \in DOMAIN calls
          BY <3>2, Dequeued DEF OnOpened, AssetInv
        <4> QED BY <4>1, <4>2 DEF DataInv, PhaseInv
      <3> QED BY <3>1, <3>2
    <2>3. ~Answered
      BY <2>2 DEF DataInv, PhaseInv
    <2> QED BY <1>0, <1>1, <1>4, <1>5, <2>1, <2>2, <2>3 DEF DataInv, PhaseInv
  <1> QED BY <1>6, <1>7 DEF Download, OnOpened, flags

LEMMA NetworkData ==
    ASSUME LockParameters, AssetParameters, ClearOnly, AssetInv, WritersInv, DataInv,
           Refused \/ Failed \/ Responded \/ Received
    PROVE  DataInv'
  <1>0. UNCHANGED <<lockVars, file, flags, work>> /\ download.state \in {"asked", "receiving"}
    BY DEF Refused, Failed, Responded, Received, Answer
  <1>1. (\A w \in Swap : Stays(w)) /\ (FilePending' => FilePending)
    BY <1>0, AsideKeeps DEF AssetInv, Aside
  <1>2. ~Answered
    BY <1>0 DEF DataInv, PhaseInv
  <1>d. download \in [state : {"none", "asked", "receiving", "answered"}, known : 0 .. MaxVersion, version : 0 .. MaxVersion]
    BY DEF AssetInv, Types, ThreadsOK
  <1>3. \/ UNCHANGED calls /\ download'.state = "receiving"
        \/ \E c \in Called : c.what = "completed" /\ Post(c) /\ download'.state = "answered"
    <2>1. \A s, t \in BOOLEAN, v \in 0..MaxVersion : Completed(s, t, v).what = "completed" /\ Completed(s, t, v) \in Called
      BY CalledMade DEF Completed
    <2>2. download.version \in 0..MaxVersion /\ 0 \in 0..MaxVersion
      BY <1>d, ValuesMade
    <2>3. CASE Refused \/ Failed \/ Received
      <3>1. \E c \in Called : c.what = "completed" /\ Answer(c)
        BY <2>1, <2>2, <2>3 DEF Refused, Failed, Received
      <3>2. ASSUME NEW c \in Called, Answer(c) PROVE Post(c) /\ download'.state = "answered"
        BY <1>d, <3>2 DEF Answer
      <3> QED BY <3>1, <3>2
    <2>4. CASE Responded
      BY <1>d, <2>4 DEF Responded
    <2> QED BY <2>3, <2>4
  <1>4. Moving' = Moving
    BY <1>0, <1>3, SameMoving DEF AssetInv
  <1>5. FlagsInv'
    BY <1>0, <1>1, <1>4, FlagsSame DEF DataInv, FlagsInv, flags, Exists
  <1>6. PhaseInv'
    <2>1. CASE UNCHANGED calls /\ download'.state = "receiving"
      BY <1>0, <1>1, <1>2, <2>1 DEF DataInv, PhaseInv, flags, Answered
    <2>2. ASSUME NEW c \in Called, c.what = "completed", Post(c), download'.state = "answered"
          PROVE  PhaseInv'
      <3>1. /\ \A i \in DOMAIN calls' : (i \in DOMAIN calls /\ calls'[i] = calls[i]) \/ (i = Len(calls) + 1 /\ calls'[i] = c)
            /\ Len(calls) + 1 \in DOMAIN calls' /\ calls'[Len(calls) + 1] = c
        BY <2>2, Posted DEF AssetInv
      <3>2. Answered'
        BY <2>2, <3>1 DEF Answered
      <3>3. \A i \in DOMAIN calls' : calls'[i].what = "completed" => i = Len(calls) + 1
        BY <1>2, <3>1 DEF Answered
      <3>4. \A i \in DOMAIN calls' : calls'[i].what = "opened" => i = 1 /\ ~waitFileSwap
        BY <2>2, <3>1 DEF DataInv, PhaseInv
      <3> QED BY <1>0, <1>1, <2>2, <3>2, <3>3, <3>4 DEF DataInv, PhaseInv, flags
    <2> QED BY <1>3, <2>1, <2>2
  <1> QED BY <1>5, <1>6 DEF DataInv

(* The swap that is moved is the only one.                                  *)
LEMMA StorageMoving ==
    ASSUME LockParameters, AssetParameters, AssetInv, RemoveOriginal \/ MoveTemp
    PROVE  /\ Moving' = {Head(work).swap} /\ Moving = {Head(work).swap}
           /\ Head(work).swap \in Swap /\ work # <<>> /\ Head(work) = work[1] /\ 1 \in DOMAIN work
  <1>0. PICK w : w = Head(work).swap
    OBVIOUS
  <1>1. LockInv /\ Types /\ SwapInv /\ work \in Seq(Works) /\ work # <<>> /\ UNCHANGED status
    BY DEF AssetInv, Types, TypeOK, Works, RemoveOriginal, MoveTemp, lockVars
  <1>2. w \in Moving /\ SwapInv'
    BY <1>0, <1>1, StorageInv
  <1>3. w \in Swap /\ \A r \in Request : Holding(r) => r = w
    BY <1>1, <1>2, MovingAlone
  <1>4. \A x \in Moving : x = w
    BY <1>1, <1>3 DEF SwapInv, Moving, AssetParameters, Writer, Holding
  <1>5. \A x \in Moving' : x = w
    <2>1. \A x \in Moving' : x \in Request /\ status'[x] = "held"
      BY <1>2 DEF SwapInv, Moving, AssetParameters, Writer
    <2> QED BY <1>1, <1>3, <2>1 DEF Holding
  <1>6. Head(work) = work[1] /\ 1 \in DOMAIN work /\ work[1] \in Works
    BY <1>1
  <1>7. w \in Moving'
    <2>1. CASE RemoveOriginal
      <3>1. [Head(work) EXCEPT !.stage = "move"] \in Works /\ [Head(work) EXCEPT !.stage = "move"].swap = w
        BY <1>0, <1>6 DEF Works
      <3>2. work' = <<[Head(work) EXCEPT !.stage = "move"]>> \o Tail(work)
        BY <2>1 DEF RemoveOriginal
      <3> HIDE DEF Works
      <3>3. work' \in Seq(Works) /\ Len(work') = Len(work) /\ work'[1] = [Head(work) EXCEPT !.stage = "move"]
        BY <1>1, <3>1, <3>2, Replaced
      <3>4. 1 \in DOMAIN work'
        BY <1>1, <3>3
      <3> QED BY <1>3, <3>1, <3>3, <3>4 DEF Moving
    <2>2. CASE MoveTemp
      <3>1. Post(Swapped(w)) /\ Swapped(w) \in Called
        BY <1>0, <1>3, <2>2, CalledMade DEF MoveTemp
      <3>2. Len(calls) + 1 \in DOMAIN calls' /\ calls'[Len(calls) + 1] = Swapped(w)
        BY <1>1, <3>1, Posted
      <3> QED BY <1>3, <3>2 DEF Moving
    <2> QED BY <2>1, <2>2
  <1>8. Moving' = {w} /\ Moving = {w}
    BY <1>2, <1>4, <1>5, <1>7
  <1> QED BY <1>0, <1>1, <1>3, <1>6, <1>8

LEMMA StorageData ==
    ASSUME LockParameters, AssetParameters, ClearOnly, AssetInv, WritersInv, DataInv, RemoveOriginal \/ MoveTemp
    PROVE  DataInv'
  <1>0. UNCHANGED <<lockVars, flags, download>>
    BY DEF RemoveOriginal, MoveTemp
  <1>1. (\A w \in Swap : Stays(w)) /\ (FilePending' => FilePending)
    BY <1>0, AsideKeeps DEF AssetInv, Aside
  <1>2. Moving' = Moving /\ Moving # {} /\ Head(work).swap \in Swap
    BY StorageMoving
  <1>3. FlagsInv'
    BY <1>0, <1>1, <1>2, FlagsSame DEF DataInv, flags
  <1>4. PhaseInv'
    <2>1. CASE RemoveOriginal
      BY <1>0, <1>1, <2>1, PhaseSame DEF RemoveOriginal, DataInv, flags
    <2>2. CASE MoveTemp
      <3>1. PICK c : c = Swapped(Head(work).swap)
        OBVIOUS
      <3>2. Post(c) /\ c \in Called /\ c.what = "swapped"
        BY <1>2, <2>2, <3>1, CalledMade DEF MoveTemp, Swapped
      <3>3. /\ \A i \in DOMAIN calls : i \in DOMAIN calls' /\ calls'[i] = calls[i]
            /\ \A i \in DOMAIN calls' : i \in DOMAIN calls \/ calls'[i] = c
        BY <3>2, Posted DEF AssetInv
      <3>4. Answered' <=> Answered
        BY <3>2, <3>3 DEF Answered
      <3>5. \A i \in DOMAIN calls' : calls'[i].what \in {"completed", "opened"} => i \in DOMAIN calls /\ calls'[i] = calls[i]
        BY <3>2, <3>3
      <3> QED BY <1>0, <1>1, <3>4, <3>5 DEF DataInv, PhaseInv, flags
    <2> QED BY <2>1, <2>2
  <1> QED BY <1>3, <1>4 DEF DataInv

(* The swap of an answer is the only one.                                   *)
LEMMA CompletedData ==
    ASSUME LockParameters, AssetParameters, ClearOnly, AssetInv, WritersInv, DataInv, OnCompleted
    PROVE  DataInv'
  <1>0. /\ Dequeue("completed") /\ download' = NoDownload /\ downloadInProgress' = FALSE
        /\ UNCHANGED <<file, fileExisted, fileUpdate, work>>
        /\ \/ UNCHANGED <<lockVars, waitFileSwap>>
           \/ waitFileSwap' = TRUE /\ \E w \in Swap : Retain(w)
    BY DEF OnCompleted
  <1>1. /\ calls[1].what = "completed" /\ 1 \in DOMAIN calls
        /\ \A i \in DOMAIN calls' : calls'[i] = calls[i + 1] /\ i + 1 \in DOMAIN calls /\ i + 1 # 1 /\ i \in Nat
    BY <1>0, Dequeued DEF AssetInv
  <1>2. Answered /\ ~waitFileSwap
    <2>1. Answered
      BY <1>1 DEF Answered
    <2> QED BY <2>1 DEF DataInv, PhaseInv
  <1>3. Moving' = Moving /\ Moving = {} /\ \A w \in Swap : ~Waiting(w) /\ ~Kept(w)
    BY <1>0, <1>2, SameMoving, NotPending DEF AssetInv, DataInv
  <1>4. \A i \in DOMAIN calls' : calls'[i].what \notin {"completed", "opened"}
    BY <1>1 DEF DataInv, PhaseInv
  <1>5. ~Answered' /\ download'.state = "none"
    BY <1>0, <1>4 DEF Answered, NoDownload
  <1>6. CASE UNCHANGED <<lockVars, waitFileSwap>>
    <2>1. (\A w \in Swap : Stays(w)) /\ (FilePending' => FilePending)
      BY <1>6, AsideKeeps DEF AssetInv, Aside
    <2>2. FlagsInv'
      BY <1>0, <1>3, <1>6, <2>1, FlagsSame DEF DataInv, FlagsInv, Exists
    <2>3. PhaseInv'
      BY <1>0, <1>2, <1>4, <1>5, <1>6 DEF PhaseInv
    <2> QED BY <2>2, <2>3 DEF DataInv
  <1>7. ASSUME waitFileSwap' = TRUE, NEW w \in Swap, Retain(w) PROVE DataInv'
    <2>0. \A x \in Swap : x \in Request
      BY DEF AssetParameters, Writer
    <2>1. /\ \A x \in Swap : x # w => Stays(x)
          /\ Waiting(w)' /\ ~Kept(w)' /\ ~FilePending'
      BY <1>7, <2>0, StaysAsk DEF AssetInv
    <2>2. \A x \in Swap : ~Kept(x)' /\ (Active(x)' <=> x = w)
      BY <1>3, <2>1 DEF Stays, Active
    <2>3. FlagsInv'
      BY <1>0, <1>3, <1>7, <2>2 DEF DataInv, FlagsInv, Exists
    <2>4. PhaseInv'
      BY <1>0, <1>4, <1>5, <2>1 DEF PhaseInv
    <2> QED BY <2>3, <2>4 DEF DataInv
  <1> QED BY <1>0, <1>6, <1>7

LEMMA SwapCalledData ==
    ASSUME LockParameters, AssetParameters, ClearOnly, AssetInv, WritersInv, DataInv, NEW w \in Swap, SwapCalled(w)
    PROVE  DataInv'
  <1>0. /\ Calls(w) /\ fileUpdate' = TRUE /\ work' = Append(work, [swap |-> w, stage |-> "remove"])
        /\ UNCHANGED <<downloadInProgress, waitFileSwap, download, calls>>
        /\ \A x \in Swap : x \in Request /\ x \notin Brief
    BY DEF SwapCalled, AssetParameters, Writer, ClearOnly
  <1>1. /\ \A x \in Swap : x # w => Stays(x)
        /\ Waiting(w) /\ Kept(w)' /\ ~Waiting(w)'
        /\ FilePending' => FilePending
    BY <1>0, StaysCalls DEF AssetInv
  <1>2. \A x \in Swap : Active(x) <=> x = w
    BY <1>1 DEF DataInv, FlagsInv, Active
  <1>3. \A x \in Swap : (Active(x)' <=> x = w) /\ (Kept(x)' => x = w)
    BY <1>1, <1>2 DEF Stays, Active
  <1>4. w \in Moving'
    <2>1. work \in Seq(Works) /\ [swap |-> w, stage |-> "remove"] \in Works
      BY DEF AssetInv, Types, TypeOK, Works
    <2>2. Len(work) + 1 \in DOMAIN work' /\ work'[Len(work) + 1] = [swap |-> w, stage |-> "remove"]
      BY <1>0, <2>1
    <2>3. work'[Len(work) + 1].swap = w
      BY <2>2
    <2> QED BY <2>2, <2>3 DEF Moving
  <1>5. FlagsInv'
    BY <1>0, <1>2, <1>3, <1>4 DEF DataInv, FlagsInv
  <1>6. PhaseInv'
    BY <1>0, <1>1, PhaseSame DEF DataInv
  <1> QED BY <1>5, <1>6 DEF DataInv

LEMMA OnSwappedData ==
    ASSUME LockParameters, AssetParameters, ClearOnly, AssetInv, WritersInv, DataInv, NEW w \in Swap, OnSwapped(w)
    PROVE  DataInv'
  <1>0. /\ Dequeue("swapped") /\ Head(calls).swap = w /\ Releases(w, <<OnFile>>)
        /\ fileUpdate' = FALSE /\ waitFileSwap' = FALSE /\ fileExisted' = Exists(file)
        /\ UNCHANGED <<file, downloadInProgress, download, work>>
        /\ \A x \in Swap : x \in Request
    BY DEF OnSwapped, AssetParameters, Writer, disk
  <1>1. /\ calls[1].what = "swapped" /\ 1 \in DOMAIN calls
        /\ \A i \in DOMAIN calls' : calls'[i] = calls[i + 1] /\ i + 1 \in DOMAIN calls /\ i + 1 # 1 /\ i \in Nat
        /\ \A i \in DOMAIN calls : i = 1 \/ (i - 1 \in DOMAIN calls' /\ calls'[i - 1] = calls[i])
    BY <1>0, Dequeued DEF AssetInv
  <1>2. /\ \A x \in Swap : x # w => Stays(x)
        /\ Kept(w) /\ ~Waiting(w)' /\ ~Kept(w)'
    BY <1>0, StaysReleases, AfterwardsMade DEF AssetInv
  <1>3. \A x \in Swap : Active(x) <=> x = w
    BY <1>2 DEF DataInv, FlagsInv, Active
  <1>4. \A x \in Swap : ~Active(x)'
    BY <1>2, <1>3 DEF Stays, Active
  <1>5. Moving' = {}
    <2>1. SwapInv'
      BY OnSwappedInv DEF AssetInv
    <2>2. \A x \in Moving' : x \in Swap /\ Kept(x)'
      BY <2>1 DEF SwapInv, Kept, Moving
    <2> QED BY <1>4, <2>2 DEF Active
  <1>6. FlagsInv'
    BY <1>0, <1>4, <1>5 DEF FlagsInv, Active, Exists
  <1>7. Answered' <=> Answered
    BY <1>1 DEF Answered
  <1>8. \A i \in DOMAIN calls' : calls'[i].what # "opened"
    BY <1>1 DEF DataInv, PhaseInv
  <1>9. \A i, j \in DOMAIN calls' : calls'[i].what = "completed" /\ calls'[j].what = "completed" => i = j
    <2>1. \A i, j \in DOMAIN calls' : calls'[i].what = "completed" /\ calls'[j].what = "completed" => i + 1 = j + 1
      BY <1>1 DEF DataInv, PhaseInv
    <2> QED BY <1>1, <2>1
  <1>10. PhaseInv'
    BY <1>0, <1>7, <1>8, <1>9 DEF DataInv, PhaseInv
  <1> QED BY <1>6, <1>10 DEF DataInv

LEMMA RestartData ==
    ASSUME LockParameters, AssetParameters, AssetInv, Restart
    PROVE  DataInv'
  <1>1. /\ stack' = <<>> /\ DOMAIN stack' = {} /\ status' = [r \in Request |-> "idle"] /\ \A w \in Swap : w \in Request
        /\ fileExisted' = Exists(file) /\ UNCHANGED file /\ waitFileSwap' = FALSE /\ fileUpdate' = FALSE
        /\ downloadInProgress' = row.download
        /\ download' = IF row.download THEN Asked(IF Exists(file) THEN row.mtime ELSE 0) ELSE NoDownload
        /\ calls' = <<Opened>> /\ work' = <<>>
    BY DEF Restart, LockReset, AssetParameters, Writer
  <1>2. \A w \in Swap : ~Waiting(w)' /\ ~Kept(w)'
    BY <1>1 DEF Waiting, Kept
  <1>3. DOMAIN calls' = {1} /\ calls'[1].what = "opened" /\ DOMAIN work' = {}
    BY <1>1 DEF Opened
  <1>4. Moving' = {}
    BY <1>3 DEF Moving, Swapped
  <1>5. FlagsInv'
    BY <1>1, <1>2, <1>4 DEF FlagsInv, Active, Exists
  <1>6. download'.state \in {"none", "asked"} /\ (downloadInProgress' <=> download'.state # "none")
    <2>1. row.download \in BOOLEAN
      BY DEF AssetInv, Types, TypeOK
    <2>2. CASE row.download = TRUE
      BY <1>1, <2>2 DEF Asked
    <2>3. CASE row.download = FALSE
      BY <1>1, <2>3 DEF NoDownload
    <2> QED BY <2>1, <2>2, <2>3
  <1>7. PhaseInv'
    BY <1>1, <1>3, <1>6 DEF PhaseInv, Answered, FilePending
  <1> QED BY <1>5, <1>7 DEF DataInv

(* The phases and the flags, over every step of the asset.                  *)
LEMMA NextData ==
    ASSUME ClearOnly, Polite, AssetInv, QueuesInv, DataInv, [Next]_vars
    PROVE  DataInv'
  <1>0. WritersInv
    BY DEF QueuesInv
  <1>1. CASE Download \/ OnOpened \/ OnCompleted \/ OnFileCalled
    BY <1>0, <1>1, DownloadData, CompletedData, FileData, LockParameters, AssetParameters
  <1>2. CASE ClearFile \/ ClearCalled \/ CheckFile \/ LockStep \/ Publish \/ SaveRow \/ UNCHANGED vars
    BY <1>0, <1>2, OwnerData, LockParameters, AssetParameters
  <1>3. CASE \E r \in Request : ReadRetain(r) \/ ReadTry(r) \/ ReadCalled(r) \/ ReadRelease(r)
    BY <1>0, <1>3, UserData, LockParameters, AssetParameters
  <1>4. CASE \E w \in Swap : SwapCalled(w) \/ OnSwapped(w)
    BY <1>0, <1>4, SwapCalledData, OnSwappedData, LockParameters, AssetParameters
  <1>5. CASE \/ Refused \/ Failed \/ Responded \/ Received \/ RemoveOriginal \/ MoveTemp \/ Restart
    BY <1>0, <1>5, NetworkData, StorageData, RestartData, LockParameters, AssetParameters
  <1> QED BY <1>1, <1>2, <1>3, <1>4, <1>5 DEF Next

LEMMA DataInductive == ASSUME ClearOnly, Polite PROVE Spec => []DataInv
  <1>1. Init => DataInv
    <2> SUFFICES ASSUME Init PROVE DataInv
      OBVIOUS
    <2>1. /\ stack = <<>> /\ DOMAIN stack = {} /\ status = [r \in Request |-> "idle"] /\ \A w \in Swap : w \in Request
          /\ fileExisted = FALSE /\ file = Missing /\ waitFileSwap = FALSE /\ fileUpdate = FALSE
          /\ downloadInProgress = FALSE /\ download = NoDownload /\ DOMAIN calls = {} /\ DOMAIN work = {}
      BY AssetParameters DEF Init, LockInit, AssetParameters, Writer
    <2>2. \A w \in Swap : ~Waiting(w) /\ ~Kept(w)
      BY <2>1 DEF Waiting, Kept
    <2>3. Moving = {}
      BY <2>1 DEF Moving
    <2> QED BY <2>1, <2>2, <2>3 DEF DataInv, PhaseInv, FlagsInv, Active, Answered, FilePending, NoDownload, Exists
  <1>2. AssetInv /\ QueuesInv /\ DataInv /\ [Next]_vars => DataInv'
    BY NextData
  <1> QED BY <1>1, <1>2, Inductive, QueuesInductive, PTL DEF Spec

(* Between two events the flags of the asset agree with the swaps, with the *)
(* lock and with the disk, so that a user who asks them is answered right   *)
(* (isReadAvailable, isDownloadAvailable).                                  *)
THEOREM FlagsCorrect == ASSUME ClearOnly, Polite PROVE Spec => []FlagsAgree
  <1>1. AssetInv /\ QueuesInv /\ DataInv => FlagsAgree
    <2> SUFFICES ASSUME AssetInv, QueuesInv, DataInv, stack = <<>>
                 PROVE  /\ waitFileSwap <=> \E w \in Swap : status[w] \notin {"idle", "done"}
                        /\ fileUpdate <=> \E w \in Swap : Holding(w)
                        /\ isReadAvailable <=> Exists(file) /\ ~\E w \in Swap : Holding(w)
      BY DEF FlagsAgree, Idle
    <2>0. /\ \A w \in Swap : w \in Request /\ status[w] \in {"idle", "queued", "calling", "held", "done"}
          /\ \A w : ~Leaving(w)
      BY AssetParameters DEF AssetParameters, Writer, AssetInv, LockInv, LockTypeOK, Leaving, Top
    <2>1. \A w \in Swap : Active(w) <=> status[w] \notin {"idle", "done"}
      BY <2>0 DEF Active, Waiting, Kept
    <2>2. waitFileSwap <=> \E w \in Swap : status[w] \notin {"idle", "done"}
      BY <2>1 DEF DataInv, FlagsInv
    <2>3. \A w \in Swap : Holding(w) <=> status[w] = "held"
      BY <2>0 DEF Holding, QueuesInv, CallingInv, Top
    <2>4. \A w \in Swap : Holding(w) <=> w \in Moving
      BY <2>0, <2>3 DEF Kept, DataInv, FlagsInv, AssetInv, SwapInv
    <2>5. Moving # {} <=> \E w \in Swap : Holding(w)
      BY <2>4 DEF Moving
    <2>6. fileUpdate <=> \E w \in Swap : Holding(w)
      BY <2>5 DEF DataInv, FlagsInv
    <2>7. isReadAvailable <=> Exists(file) /\ ~\E w \in Swap : Holding(w)
      BY <2>5, <2>6 DEF isReadAvailable, DataInv, FlagsInv
    <2> QED BY <2>2, <2>6, <2>7
  <1> QED BY <1>1, DataInductive, QueuesInductive, Inductive, PTL

-----------------------------------------------------------------------------
(* The temporary file is complete from the answer until it is moved.        *)
Working(w) == \E i \in DOMAIN work : work[i].swap = w
Ahead(w)   == Waiting(w) \/ Working(w)
Brings(c)  == c.what = "completed" /\ c.success /\ c.isFile

TempInv ==
    /\ \A w \in Swap : Ahead(w) => Complete(temp)
    /\ \A i \in DOMAIN calls : Brings(calls[i]) => Complete(temp)
    /\ download.state = "receiving" => download.version # 0

(* No swap has the temporary file before it while a download is answered.   *)
LEMMA NoneAhead ==
    ASSUME AssetInv, DataInv, ~waitFileSwap
    PROVE  \A w \in Swap : ~Ahead(w)
  <1>1. Moving = {} /\ \A w \in Swap : ~Waiting(w)
    BY NotPending DEF DataInv
  <1> QED BY <1>1 DEF Ahead, Working, Moving

(* What a step may not touch, for the swaps that need the temporary file.   *)
LEMMA TempSame ==
    ASSUME TempInv, UNCHANGED temp, UNCHANGED download \/ download'.state # "receiving",
           \A w \in Swap : (Waiting(w)' => Waiting(w)) /\ (Working(w)' => Ahead(w)),
           \A i \in DOMAIN calls' : Brings(calls'[i]) => \E j \in DOMAIN calls : calls'[i] = calls[j]
    PROVE  TempInv'
  <1>1. \A w \in Swap : Ahead(w)' => Ahead(w)
    BY DEF Ahead
  <1>2. \A i \in DOMAIN calls' : Brings(calls'[i]) => Complete(temp)
    BY DEF TempInv
  <1>3. \A i \in DOMAIN calls' : Brings(calls[i])' <=> Brings(calls'[i])
    BY DEF Brings
  <1> QED BY <1>1, <1>2, <1>3 DEF TempInv, Complete

LEMMA AddedCall ==
    ASSUME Types,
           \/ UNCHANGED calls
           \/ \E what : Dequeue(what)
           \/ \E c \in Called : c.what # "completed" /\ Post(c)
    PROVE  \A i \in DOMAIN calls' : Brings(calls'[i]) => \E j \in DOMAIN calls : calls'[i] = calls[j]
  <1>1. CASE \E what : Dequeue(what)
    BY <1>1, Dequeued
  <1>2. ASSUME NEW c \in Called, c.what # "completed", Post(c)
        PROVE  \A i \in DOMAIN calls' : Brings(calls'[i]) => \E j \in DOMAIN calls : calls'[i] = calls[j]
    <2>1. \A i \in DOMAIN calls' : (i \in DOMAIN calls /\ calls'[i] = calls[i]) \/ calls'[i] = c
      BY <1>2, Posted
    <2> QED BY <1>2, <2>1 DEF Brings
  <1> QED BY <1>1, <1>2

LEMMA TempAside ==
    ASSUME LockParameters, AssetParameters, ClearOnly, AssetInv, WritersInv, TempInv, Aside,
           UNCHANGED <<temp, work>>, UNCHANGED download \/ download'.state # "receiving",
           \/ UNCHANGED calls
           \/ \E what : Dequeue(what)
           \/ \E c \in Called : c.what # "completed" /\ Post(c)
    PROVE  TempInv'
  <1>1. \A w \in Swap : (Waiting(w)' => Waiting(w)) /\ (Working(w)' => Ahead(w))
    BY AsideKeeps DEF AssetInv, Stays, Ahead, Working
  <1>2. \A i \in DOMAIN calls' : Brings(calls'[i]) => \E j \in DOMAIN calls : calls'[i] = calls[j]
    BY AddedCall DEF AssetInv
  <1> QED BY <1>1, <1>2, TempSame

LEMMA TempCompleted ==
    ASSUME LockParameters, AssetParameters, ClearOnly, AssetInv, WritersInv, DataInv, TempInv, OnCompleted
    PROVE  TempInv'
  <1>1. /\ calls[1].what = "completed" /\ 1 \in DOMAIN calls /\ Head(calls) = calls[1]
        /\ \A i \in DOMAIN calls' : calls'[i] = calls[i + 1] /\ i + 1 \in DOMAIN calls /\ i + 1 # 1
    BY Dequeued DEF AssetInv, OnCompleted
  <1>2. \A i \in DOMAIN calls' : calls'[i].what # "completed"
    BY <1>1 DEF DataInv, PhaseInv
  <1>3. Answered
    BY <1>1 DEF Answered
  <1>4. \A w \in Swap : ~Ahead(w)
    BY <1>3, NoneAhead DEF DataInv, PhaseInv
  <1>5. download'.state = "none" /\ UNCHANGED work
    BY DEF OnCompleted, NoDownload
  <1>6. CASE UNCHANGED lockVars
    <2>1. \A w \in Swap : Waiting(w)' => Waiting(w)
      BY <1>6, AsideKeeps DEF AssetInv, Aside, Stays
    <2> QED BY <1>2, <1>4, <1>5, <2>1 DEF TempInv, Ahead, Working, Brings
  <1>7. CASE ~UNCHANGED lockVars
    <2>1. Head(calls).success /\ Head(calls).isFile /\ UNCHANGED temp
      BY <1>7 DEF OnCompleted
    <2>2. Complete(temp)
      BY <1>1, <2>1 DEF TempInv, Brings
    <2> QED BY <1>2, <1>5, <2>1, <2>2 DEF TempInv, Brings, Complete
  <1> QED BY <1>6, <1>7

LEMMA TempNetwork ==
    ASSUME LockParameters, AssetParameters, ClearOnly, AssetInv, WritersInv, DataInv, TempInv,
           Refused \/ Failed \/ Responded \/ Received
    PROVE  TempInv'
  <1>0. UNCHANGED <<lockVars, work>> /\ download.state \in {"asked", "receiving"}
    BY DEF Refused, Failed, Responded, Received, Answer
  <1>1. ~Answered /\ \A w \in Swap : ~Ahead(w)
    BY <1>0, NoneAhead DEF DataInv, PhaseInv
  <1>2. \A w \in Swap : ~Ahead(w)'
    BY <1>0, <1>1, AsideKeeps DEF AssetInv, Aside, Stays, Ahead, Working
  <1>3. \A i \in DOMAIN calls : ~Brings(calls[i])
    BY <1>1 DEF Answered, Brings
  <1>d. download \in [state : {"none", "asked", "receiving", "answered"}, known : 0 .. MaxVersion, version : 0 .. MaxVersion]
    BY DEF AssetInv, Types, ThreadsOK
  <1>4. ASSUME NEW c \in Called, Answer(c), Brings(c) => Complete(temp)' PROVE TempInv'
    <2>1. download'.state = "answered" /\ Post(c)
      BY <1>4, <1>d DEF Answer
    <2>2. \A i \in DOMAIN calls' : (i \in DOMAIN calls /\ calls'[i] = calls[i]) \/ calls'[i] = c
      BY <2>1, Posted DEF AssetInv
    <2>3. \A i \in DOMAIN calls' : Brings(calls'[i]) => Complete(temp)'
      BY <1>3, <1>4, <2>2
    <2> QED BY <1>2, <2>1, <2>3 DEF TempInv, Brings
  <1>5. /\ \A s, t \in BOOLEAN, v \in 0..MaxVersion :
               /\ Completed(s, t, v) \in Called /\ Completed(s, t, v).success = s /\ Completed(s, t, v).isFile = t
        /\ download.version \in 0..MaxVersion /\ 0 \in 0..MaxVersion
    BY <1>d, CalledMade, ValuesMade DEF Completed
  <1>6. CASE Refused
    BY <1>4, <1>5, <1>6 DEF Refused, Brings
  <1>7. CASE Failed
    BY <1>4, <1>5, <1>7 DEF Failed, Brings
  <1>8. CASE Received
    <2>1. Complete(temp)'
      BY <1>8 DEF Received, TempInv, Complete
    <2> QED BY <1>4, <1>5, <1>8, <2>1 DEF Received
  <1>9. CASE Responded
    <2>1. UNCHANGED calls /\ download'.version # 0
      BY <1>9, <1>d DEF Responded, AssetInv, Types, TypeOK, Version
    <2> QED BY <1>2, <1>3, <2>1 DEF TempInv, Brings
  <1> QED BY <1>6, <1>7, <1>8, <1>9

LEMMA TempSwapCalled ==
    ASSUME LockParameters, AssetParameters, ClearOnly, AssetInv, WritersInv, DataInv, TempInv,
           NEW w \in Swap, SwapCalled(w)
    PROVE  TempInv'
  <1>0. /\ Calls(w) /\ work' = Append(work, [swap |-> w, stage |-> "remove"])
        /\ UNCHANGED <<temp, download, calls>> /\ \A x \in Swap : x \in Request
    BY DEF SwapCalled, AssetParameters, Writer, disk
  <1>1. Waiting(w) /\ \A x \in Swap : Waiting(x)' => Waiting(x)
    BY <1>0, StaysCalls DEF AssetInv, Stays
  <1>2. \A x \in Swap : Working(x)' => Ahead(x)
    <2>1. work \in Seq(Works) /\ [swap |-> w, stage |-> "remove"] \in Works /\ [swap |-> w, stage |-> "remove"].swap = w
      BY DEF AssetInv, Types, TypeOK, Works
    <2> HIDE DEF Works
    <2>2. \A i \in DOMAIN work' : (i \in DOMAIN work /\ work'[i] = work[i]) \/ work'[i] = [swap |-> w, stage |-> "remove"]
      BY <1>0, <2>1, Appended, Sequence
    <2> QED BY <1>1, <2>1, <2>2 DEF Working, Ahead
  <1> QED BY <1>0, <1>1, <1>2, TempSame

LEMMA TempStorage ==
    ASSUME LockParameters, AssetParameters, ClearOnly, AssetInv, WritersInv, DataInv, TempInv,
           RemoveOriginal \/ MoveTemp
    PROVE  TempInv' /\ Working(Head(work).swap)
  <1>0. PICK h : h = Head(work).swap
    OBVIOUS
  <1>1. Moving' = {h} /\ Moving = {h} /\ h \in Swap /\ Working(h) /\ UNCHANGED <<lockVars, download>>
    BY <1>0, StorageMoving DEF Working, RemoveOriginal, MoveTemp
  <1>2. \A w \in Swap : Stays(w)
    BY <1>1, AsideKeeps DEF AssetInv, Aside
  <1>3. \A w \in Swap : Working(w)' => w = h
    BY <1>1 DEF Working, Moving
  <1>4. CASE RemoveOriginal
    <2>1. UNCHANGED <<temp, calls>>
      BY <1>4 DEF RemoveOriginal
    <2>2. \A w \in Swap : (Waiting(w)' => Waiting(w)) /\ (Working(w)' => Ahead(w))
      BY <1>1, <1>2, <1>3 DEF Stays, Ahead
    <2>3. TempInv'
      BY <1>1, <2>1, <2>2, TempSame
    <2> QED BY <1>0, <1>1, <2>3
  <1>5. CASE MoveTemp
    <2>1. Kept(h) /\ ~Waiting(h)
      BY <1>1 DEF AssetInv, SwapInv, Kept, Waiting
    <2>2. waitFileSwap /\ \A w \in Swap : ~Waiting(w)
      BY <1>1, <2>1 DEF DataInv, FlagsInv, Active
    <2>3. download.state = "none" /\ ~Answered
      BY <2>2 DEF DataInv, PhaseInv
    <2>4. \A w \in Swap : ~Ahead(w)'
      <3>1. work' = Tail(work) /\ work \in Seq(Works) /\ work # <<>> /\ \A i, j \in DOMAIN work : i = j
        BY <1>5 DEF MoveTemp, AssetInv, SwapInv, Types, TypeOK, Works
      <3> HIDE DEF Works
      <3>2. \A i \in DOMAIN work' : i + 1 \in DOMAIN work /\ 1 \in DOMAIN work /\ i + 1 # 1
        BY <3>1
      <3>3. DOMAIN work' = {}
        BY <3>1, <3>2
      <3> QED BY <1>2, <2>2, <3>3 DEF Stays, Ahead, Working
    <2>5. \A i \in DOMAIN calls' : ~Brings(calls'[i])
      <3>1. Post(Swapped(h)) /\ Swapped(h) \in Called /\ Swapped(h).what = "swapped"
        BY <1>0, <1>1, <1>5, CalledMade DEF MoveTemp, Swapped
      <3>2. \A i \in DOMAIN calls' : (i \in DOMAIN calls /\ calls'[i] = calls[i]) \/ calls'[i] = Swapped(h)
        BY <3>1, Posted DEF AssetInv
      <3> QED BY <2>3, <3>1, <3>2 DEF Brings, Answered
    <2>6. TempInv'
      BY <1>1, <2>3, <2>4, <2>5 DEF TempInv, Brings
    <2> QED BY <1>0, <1>1, <2>6
  <1> QED BY <1>4, <1>5

LEMMA TempOther ==
    ASSUME LockParameters, AssetParameters, ClearOnly, AssetInv, WritersInv, TempInv,
           \/ Download \/ OnOpened \/ ClearFile \/ ClearCalled \/ CheckFile \/ OnFileCalled \/ LockStep
           \/ Publish \/ SaveRow \/ Restart \/ UNCHANGED vars
           \/ \E r \in Request : ReadRetain(r) \/ ReadTry(r) \/ ReadCalled(r) \/ ReadRelease(r)
           \/ \E w \in Swap : OnSwapped(w)
    PROVE  TempInv'
  <1>0. Clear \in Request /\ Clear \notin Swap /\ \A w \in Swap : w \in Request
    BY DEF AssetParameters, Writer, ClearOnly
  <1>1. CASE Download \/ OnOpened
    <2>0. \A k : Asked(k).state = "asked"
      BY DEF Asked
    <2>1. UNCHANGED <<lockVars, temp, work>> /\ (UNCHANGED download \/ download'.state # "receiving")
      <3>1. CASE StartDownload
        BY <1>1, <2>0, <3>1 DEF Download, OnOpened, StartDownload, disk
      <3>2. CASE ~StartDownload
        BY <1>1, <3>2 DEF Download, OnOpened, disk
      <3> QED BY <3>1, <3>2
    <2> QED BY <1>1, <2>1, TempAside DEF Download, OnOpened, Aside
  <1>2. CASE ClearFile \/ ClearCalled \/ CheckFile \/ OnFileCalled \/ LockStep \/ Publish \/ SaveRow \/ UNCHANGED vars
    <2>1. Aside
      <3>1. CASE ClearFile \/ ClearCalled
        BY <1>0, <3>1 DEF ClearFile, ClearCalled, Aside
      <3>2. CASE CheckFile \/ Publish \/ SaveRow \/ UNCHANGED vars
        BY <3>2 DEF CheckFile, Publish, SaveRow, vars, Aside
      <3>3. CASE LockStep \/ OnFileCalled
        BY <3>3 DEF LockStep, OnFileCalled, PopsFile, Aside, Inner
      <3> QED BY <1>2, <3>1, <3>2, <3>3
    <2>2. UNCHANGED <<temp, work, download, calls>>
      BY <1>2 DEF ClearFile, ClearCalled, CheckFile, OnFileCalled, LockStep, Publish, SaveRow, vars, Others, disk, threads
    <2> QED BY <2>1, <2>2, TempAside
  <1>3. CASE \E r \in Request : ReadRetain(r) \/ ReadTry(r) \/ ReadCalled(r) \/ ReadRelease(r)
    <2>1. PICK r \in Request : ReadRetain(r) \/ ReadTry(r) \/ ReadCalled(r) \/ ReadRelease(r)
      BY <1>3
    <2>2. r \notin Swap
      BY <2>1 DEF ReadRetain, ReadTry, ReadCalled, ReadRelease, TryRead, AssetParameters, Writer, Reader
    <2>3. Aside /\ UNCHANGED <<temp, work, download, calls>>
      BY <2>1, <2>2, AfterwardsMade DEF ReadRetain, ReadTry, ReadCalled, ReadRelease, Aside, Others, disk, threads
    <2> QED BY <2>3, TempAside
  <1>4. ASSUME NEW w \in Swap, OnSwapped(w) PROVE TempInv'
    <2>1. Releases(w, <<OnFile>>) /\ UNCHANGED <<temp, work, download>> /\ Dequeue("swapped")
      BY <1>4 DEF OnSwapped, disk
    <2>2. \A x \in Swap : (Waiting(x)' => Waiting(x)) /\ (Working(x)' => Ahead(x))
      BY <1>0, <2>1, StaysReleases, AfterwardsMade DEF AssetInv, Stays, Ahead, Working
    <2>3. \A i \in DOMAIN calls' : \E j \in DOMAIN calls : calls'[i] = calls[j]
      BY <2>1, Dequeued DEF AssetInv
    <2> QED BY <2>1, <2>2, <2>3, TempSame
  <1>5. CASE Restart
    <2>1. /\ status' = [r \in Request |-> "idle"] /\ work' = <<>> /\ calls' = <<Opened>> /\ UNCHANGED temp
          /\ download'.state \in {"asked", "none"}
      BY <1>5 DEF Restart, LockReset, Asked, NoDownload
    <2>2. \A w \in Swap : ~Ahead(w)'
      BY <1>0, <2>1 DEF Ahead, Waiting, Working
    <2>3. \A i \in DOMAIN calls' : ~Brings(calls'[i])
      BY <2>1 DEF Brings, Opened
    <2> QED BY <2>1, <2>2, <2>3 DEF TempInv, Brings
  <1> QED BY <1>1, <1>2, <1>3, <1>4, <1>5

(* The temporary file, over every step of the asset.                        *)
LEMMA NextTemp ==
    ASSUME ClearOnly, Polite, AssetInv, QueuesInv, DataInv, TempInv, [Next]_vars
    PROVE  TempInv'
  <1>0. WritersInv
    BY DEF QueuesInv
  <1>1. CASE \/ OnCompleted \/ Refused \/ Failed \/ Responded \/ Received \/ RemoveOriginal \/ MoveTemp
             \/ \E w \in Swap : SwapCalled(w)
    BY <1>0, <1>1, TempCompleted, TempNetwork, TempStorage, TempSwapCalled, LockParameters, AssetParameters
  <1>2. CASE \/ Download \/ OnOpened \/ ClearFile \/ ClearCalled \/ CheckFile \/ OnFileCalled \/ LockStep
             \/ Publish \/ SaveRow \/ Restart \/ UNCHANGED vars
             \/ \E r \in Request : ReadRetain(r) \/ ReadTry(r) \/ ReadCalled(r) \/ ReadRelease(r)
             \/ \E w \in Swap : OnSwapped(w)
    BY <1>0, <1>2, TempOther, LockParameters, AssetParameters
  <1> QED BY <1>1, <1>2 DEF Next

LEMMA TempInductive == ASSUME ClearOnly, Polite PROVE Spec => []TempInv
  <1>1. Init => TempInv
    <2> SUFFICES ASSUME Init PROVE TempInv
      OBVIOUS
    <2>1. /\ status = [r \in Request |-> "idle"] /\ \A w \in Swap : w \in Request
          /\ download = NoDownload /\ DOMAIN calls = {} /\ DOMAIN work = {}
      BY AssetParameters DEF Init, LockInit, AssetParameters, Writer
    <2> QED BY <2>1 DEF TempInv, Ahead, Waiting, Working, NoDownload
  <1>2. AssetInv /\ QueuesInv /\ DataInv /\ TempInv /\ [Next]_vars => TempInv'
    BY NextTemp
  <1> QED BY <1>1, <1>2, Inductive, QueuesInductive, DataInductive, PTL DEF Spec

(* A swap that waits for its lock, or for the storage thread, still finds   *)
(* the temporary file complete: no other download of the asset touches it   *)
(* in between.                                                              *)
LEMMA SwapFinds == ASSUME ClearOnly, Polite PROVE Spec => []SwapHasFile
  <1>1. TempInv => SwapHasFile
    BY DEF TempInv, SwapHasFile, Ahead, Waiting, Working
  <1> QED BY <1>1, TempInductive, PTL

-----------------------------------------------------------------------------
(* A swap brings the version of the answer that completed the temporary     *)
(* file.                                                                    *)
VersionInv ==
    /\ \A w \in Swap : Ahead(w) => version[w] = temp[2]
    /\ \A i \in DOMAIN calls : Brings(calls[i]) => calls[i].version = temp[2]

(* What the asset claims to have, now or once an event is handled.          *)
Back(w) == \E i \in DOMAIN calls : calls[i] = Swapped(w)

Claims ==
    {mtime, row.mtime}
    \cup {saves[i].mtime : i \in DOMAIN saves}
    \cup {version[w] : w \in {v \in Swap : Back(v)}}

\* no claim is newer than v
Cover(v) == \A m \in Claims : m <= v

\* The claims are covered by the file, and by all that may become the file;
\* what is to be claimed is covered by the server.
ClaimsInv ==
    /\ Cover(server)
    /\ Exists(file) => Cover(file[2])
    /\ Complete(temp) => Cover(temp[2]) /\ temp[2] <= server
    /\ download.state = "receiving" => Cover(download.version) /\ download.version <= server

LEMMA CompleteExists ==
    ASSUME AssetParameters, Types
    PROVE  /\ temp \in Contents /\ (Complete(temp) => Exists(temp))
           /\ server \in Nat \ {0} /\ server \in 0..MaxVersion
           /\ Exists(temp) => temp = <<temp[1], temp[2]>>
           /\ \A a, b : <<a, b>>[1] = a /\ <<a, b>>[2] = b
           /\ ~Exists(Missing) /\ ~Complete(Missing)
  <1>1. temp \in Contents /\ server \in 1..MaxVersion /\ MaxVersion \in Nat
    BY DEF Types, TypeOK, AssetParameters, Version
  <1>2. temp = <<temp[1], temp[2]>>
    BY <1>1 DEF Contents
  <1> QED BY <1>1, <1>2 DEF Complete, Exists, Missing

LEMMA VersionSame ==
    ASSUME VersionInv, UNCHANGED <<temp, version>>,
           \A w \in Swap : Ahead(w)' => Ahead(w),
           \A i \in DOMAIN calls' : Brings(calls'[i]) => \E j \in DOMAIN calls : calls'[i] = calls[j]
    PROVE  VersionInv'
  <1>1. \A i \in DOMAIN calls' : Brings(calls'[i]) => calls'[i].version = temp[2]
    BY DEF VersionInv
  <1>2. \A i \in DOMAIN calls' : Brings(calls[i])' <=> Brings(calls'[i])
    BY DEF Brings
  <1>3. \A w \in Swap : Ahead(w)' => version'[w] = temp'[2]
    BY DEF VersionInv
  <1> QED BY <1>1, <1>2, <1>3 DEF VersionInv

(* Without a temporary file nothing is ahead of it.                         *)
LEMMA VersionGone ==
    ASSUME AssetParameters, Types, TempInv', temp' = Missing
    PROVE  VersionInv'
  <1>1. ~Complete(temp)'
    BY CompleteExists DEF Complete
  <1> QED BY <1>1 DEF VersionInv, TempInv

LEMMA VersionAside ==
    ASSUME LockParameters, AssetParameters, ClearOnly, AssetInv, WritersInv, VersionInv, Aside,
           UNCHANGED <<temp, work, version>>,
           \/ UNCHANGED calls
           \/ \E what : Dequeue(what)
           \/ \E c \in Called : c.what # "completed" /\ Post(c)
    PROVE  VersionInv'
  <1>1. \A w \in Swap : Ahead(w)' => Ahead(w)
    BY AsideKeeps DEF AssetInv, Stays, Ahead, Working
  <1>2. \A i \in DOMAIN calls' : Brings(calls'[i]) => \E j \in DOMAIN calls : calls'[i] = calls[j]
    BY AddedCall DEF AssetInv
  <1> QED BY <1>1, <1>2, VersionSame

LEMMA VersionCompleted ==
    ASSUME LockParameters, AssetParameters, ClearOnly, AssetInv, WritersInv, DataInv, VersionInv, OnCompleted
    PROVE  VersionInv'
  <1>1. /\ calls[1].what = "completed" /\ 1 \in DOMAIN calls /\ Head(calls) = calls[1]
        /\ \A i \in DOMAIN calls' : calls'[i] = calls[i + 1] /\ i + 1 \in DOMAIN calls /\ i + 1 # 1
    BY Dequeued DEF AssetInv, OnCompleted
  <1>2. \A i \in DOMAIN calls' : ~Brings(calls[i])'
    <2>1. \A i \in DOMAIN calls' : calls'[i].what # "completed"
      BY <1>1 DEF DataInv, PhaseInv
    <2> QED BY <2>1 DEF Brings
  <1>3. Answered
    BY <1>1 DEF Answered
  <1>4. ~waitFileSwap /\ \A w \in Swap : ~Ahead(w) /\ ~Waiting(w)
    BY <1>3, NoneAhead DEF DataInv, PhaseInv, Ahead
  <1>5. UNCHANGED work
    BY DEF OnCompleted
  <1>6. Brings(calls[1]) => UNCHANGED temp
    BY <1>1 DEF OnCompleted, Brings
  <1>7. CASE UNCHANGED lockVars
    <2>1. \A w \in Swap : ~Ahead(w)'
      BY <1>4, <1>5, <1>7, AsideKeeps DEF AssetInv, Aside, Stays, Ahead, Working
    <2> QED BY <1>2, <2>1 DEF VersionInv
  <1>8. ASSUME NEW w \in Swap, Retain(w), version' = [version EXCEPT ![w] = calls[1].version], Brings(calls[1])
        PROVE  VersionInv'
    <2>1. \A x \in Swap : x # w => ~Ahead(x)'
      <3>1. \A x \in Swap : x \in Request
        BY DEF AssetParameters, Writer
      <3> QED BY <1>4, <1>5, <1>8, <3>1, StaysAsk DEF AssetInv, Stays, Ahead, Working
    <2>2. version'[w] = temp'[2]
      BY <1>1, <1>6, <1>8 DEF VersionInv, AssetInv, Types, TypeOK
    <2> QED BY <1>2, <2>1, <2>2 DEF VersionInv
  <1>9. UNCHANGED lockVars \/ \E w \in Swap : Retain(w) /\ version' = [version EXCEPT ![w] = calls[1].version] /\ Brings(calls[1])
    BY <1>1 DEF OnCompleted, Brings
  <1> QED BY <1>7, <1>8, <1>9

LEMMA VersionNetwork ==
    ASSUME LockParameters, AssetParameters, ClearOnly, AssetInv, WritersInv, DataInv, TempInv', VersionInv,
           Refused \/ Failed \/ Responded \/ Received
    PROVE  VersionInv'
  <1>0. UNCHANGED <<lockVars, work, version>> /\ download.state \in {"asked", "receiving"}
    BY DEF Refused, Failed, Responded, Received, Answer
  <1>1. ~Answered /\ \A w \in Swap : ~Ahead(w)
    BY <1>0, NoneAhead DEF DataInv, PhaseInv
  <1>2. \A w \in Swap : ~Ahead(w)'
    BY <1>0, <1>1, AsideKeeps DEF AssetInv, Aside, Stays, Ahead, Working
  <1>d. download \in [state : {"none", "asked", "receiving", "answered"}, known : 0 .. MaxVersion, version : 0 .. MaxVersion]
    BY DEF AssetInv, Types, ThreadsOK
  <1>3. CASE Refused \/ Failed
    BY <1>3, VersionGone DEF Refused, Failed, AssetInv
  <1>4. CASE Responded
    <2>1. UNCHANGED calls /\ \A i \in DOMAIN calls : ~Brings(calls[i])
      BY <1>1, <1>4 DEF Responded, Answered, Brings
    <2> QED BY <1>2, <2>1 DEF VersionInv, Brings
  <1>5. CASE Received
    <2>1. PICK v : v = download.version
      OBVIOUS
    <2>2. temp' = <<temp[1], v>> /\ v \in 0 .. MaxVersion
      BY <1>5, <1>d, <2>1 DEF Received
    <2>3. PICK c : c = Completed(TRUE, TRUE, v)
      OBVIOUS
    <2>4. c \in Called /\ c.version = v
      BY <2>2, <2>3, CalledMade DEF Completed
    <2>5. Answer(c)
      BY <1>5, <2>1, <2>3 DEF Received
    <2>6. Post(c)
      BY <2>5 DEF Answer
    <2>7. \A i \in DOMAIN calls' : (i \in DOMAIN calls /\ calls'[i] = calls[i]) \/ calls'[i] = c
      BY <2>4, <2>6, Posted DEF AssetInv
    <2>8. \A i \in DOMAIN calls' : Brings(calls[i])' => calls'[i].version = v
      BY <1>1, <2>4, <2>7 DEF Answered, Brings
    <2> QED BY <1>2, <2>2, <2>8 DEF VersionInv
  <1> QED BY <1>3, <1>4, <1>5

LEMMA VersionSwaps ==
    ASSUME LockParameters, AssetParameters, ClearOnly, AssetInv, WritersInv, VersionInv,
           NEW w \in Swap, SwapCalled(w) \/ OnSwapped(w)
    PROVE  VersionInv'
  <1>0. UNCHANGED <<temp, version>> /\ \A x \in Swap : x \in Request
    BY DEF SwapCalled, OnSwapped, AssetParameters, Writer, disk
  <1>1. CASE SwapCalled(w)
    <2>0. Calls(w) /\ work' = Append(work, [swap |-> w, stage |-> "remove"]) /\ UNCHANGED calls
      BY <1>1 DEF SwapCalled
    <2>1. Waiting(w) /\ \A x \in Swap : Waiting(x)' => Waiting(x)
      BY <1>0, <2>0, StaysCalls DEF AssetInv, Stays
    <2>2. \A x \in Swap : Working(x)' => Ahead(x)
      <3>1. work \in Seq(Works) /\ [swap |-> w, stage |-> "remove"] \in Works /\ [swap |-> w, stage |-> "remove"].swap = w
        BY DEF AssetInv, Types, TypeOK, Works
      <3> HIDE DEF Works
      <3>2. \A i \in DOMAIN work' : (i \in DOMAIN work /\ work'[i] = work[i]) \/ work'[i] = [swap |-> w, stage |-> "remove"]
        BY <2>0, <3>1, Appended, Sequence
      <3> QED BY <2>1, <3>1, <3>2 DEF Working, Ahead
    <2>3. \A x \in Swap : Ahead(x)' => Ahead(x)
      BY <2>1, <2>2 DEF Ahead
    <2> QED BY <1>0, <2>0, <2>3, VersionSame
  <1>2. CASE OnSwapped(w)
    <2>1. Releases(w, <<OnFile>>) /\ UNCHANGED work /\ Dequeue("swapped")
      BY <1>2 DEF OnSwapped
    <2>2. \A x \in Swap : Ahead(x)' => Ahead(x)
      BY <1>0, <2>1, StaysReleases, AfterwardsMade DEF AssetInv, Stays, Ahead, Working
    <2>3. \A i \in DOMAIN calls' : \E j \in DOMAIN calls : calls'[i] = calls[j]
      BY <2>1, Dequeued DEF AssetInv
    <2> QED BY <1>0, <2>2, <2>3, VersionSame
  <1> QED BY <1>1, <1>2

LEMMA VersionStorage ==
    ASSUME LockParameters, AssetParameters, ClearOnly, AssetInv, WritersInv, DataInv, TempInv', VersionInv,
           RemoveOriginal \/ MoveTemp
    PROVE  VersionInv'
  <1>0. PICK h : h = Head(work).swap
    OBVIOUS
  <1>1. Moving' = {h} /\ Moving = {h} /\ h \in Swap /\ Working(h) /\ UNCHANGED <<lockVars, version>>
    BY <1>0, StorageMoving DEF Working, RemoveOriginal, MoveTemp
  <1>2. CASE RemoveOriginal
    <2>1. UNCHANGED <<temp, calls>>
      BY <1>2 DEF RemoveOriginal
    <2>2. \A w \in Swap : Stays(w)
      BY <1>1, AsideKeeps DEF AssetInv, Aside
    <2>3. \A w \in Swap : Working(w)' => w = h
      BY <1>1 DEF Working, Moving
    <2>4. \A w \in Swap : Ahead(w)' => Ahead(w)
      BY <1>1, <2>2, <2>3 DEF Stays, Ahead
    <2> QED BY <1>1, <2>1, <2>4, VersionSame
  <1>3. CASE MoveTemp
    BY <1>3, VersionGone DEF MoveTemp, AssetInv
  <1> QED BY <1>2, <1>3

LEMMA VersionOther ==
    ASSUME LockParameters, AssetParameters, ClearOnly, AssetInv, WritersInv, VersionInv,
           \/ Download \/ OnOpened \/ ClearFile \/ ClearCalled \/ CheckFile \/ OnFileCalled \/ LockStep
           \/ SaveRow \/ Restart \/ Publish \/ UNCHANGED vars
           \/ \E r \in Request : ReadRetain(r) \/ ReadTry(r) \/ ReadCalled(r) \/ ReadRelease(r)
    PROVE  VersionInv'
  <1>0. Clear \in Request /\ Clear \notin Swap /\ \A w \in Swap : w \in Request
    BY DEF AssetParameters, Writer, ClearOnly
  <1>1. CASE Download \/ OnOpened
    <2>1. UNCHANGED <<lockVars, temp, work, version>>
      <3>1. CASE StartDownload
        BY <1>1, <3>1 DEF Download, OnOpened, StartDownload, disk
      <3>2. CASE ~StartDownload
        BY <1>1, <3>2 DEF Download, OnOpened, disk
      <3> QED BY <3>1, <3>2
    <2> QED BY <1>1, <2>1, VersionAside DEF Download, OnOpened, Aside
  <1>2. CASE ClearFile \/ ClearCalled \/ CheckFile \/ OnFileCalled \/ LockStep \/ SaveRow \/ Publish \/ UNCHANGED vars
    <2>1. Aside
      <3>1. CASE ClearFile \/ ClearCalled
        BY <1>0, <3>1 DEF ClearFile, ClearCalled, Aside
      <3>2. CASE CheckFile \/ SaveRow \/ Publish \/ UNCHANGED vars
        BY <3>2 DEF CheckFile, SaveRow, Publish, vars, Aside
      <3>3. CASE LockStep \/ OnFileCalled
        BY <3>3 DEF LockStep, OnFileCalled, PopsFile, Aside, Inner
      <3> QED BY <1>2, <3>1, <3>2, <3>3
    <2>2. UNCHANGED <<temp, work, version, calls>>
      BY <1>2 DEF ClearFile, ClearCalled, CheckFile, OnFileCalled, LockStep, SaveRow, Publish, vars, Others, disk, threads
    <2> QED BY <2>1, <2>2, VersionAside
  <1>3. CASE \E r \in Request : ReadRetain(r) \/ ReadTry(r) \/ ReadCalled(r) \/ ReadRelease(r)
    <2>1. PICK r \in Request : ReadRetain(r) \/ ReadTry(r) \/ ReadCalled(r) \/ ReadRelease(r)
      BY <1>3
    <2>2. r \notin Swap
      BY <2>1 DEF ReadRetain, ReadTry, ReadCalled, ReadRelease, TryRead, AssetParameters, Writer, Reader
    <2>3. Aside /\ UNCHANGED <<temp, work, version, calls>>
      BY <2>1, <2>2, AfterwardsMade DEF ReadRetain, ReadTry, ReadCalled, ReadRelease, Aside, Others, disk, threads
    <2> QED BY <2>3, VersionAside
  <1>4. CASE Restart
    <2>1. status' = [r \in Request |-> "idle"] /\ work' = <<>> /\ calls' = <<Opened>>
      BY <1>4 DEF Restart, LockReset
    <2>2. \A w \in Swap : ~Ahead(w)'
      BY <1>0, <2>1 DEF Ahead, Waiting, Working
    <2>3. \A i \in DOMAIN calls' : ~Brings(calls[i])'
      BY <2>1 DEF Brings, Opened
    <2> QED BY <2>2, <2>3 DEF VersionInv
  <1> QED BY <1>1, <1>2, <1>3, <1>4

(* Its version, over every step of the asset.                               *)
LEMMA NextVersion ==
    ASSUME ClearOnly, Polite, AssetInv, QueuesInv, DataInv, TempInv, TempInv', VersionInv, [Next]_vars
    PROVE  VersionInv'
  <1>0. WritersInv
    BY DEF QueuesInv
  <1>1. CASE \/ OnCompleted \/ Refused \/ Failed \/ Responded \/ Received \/ RemoveOriginal \/ MoveTemp
             \/ \E w \in Swap : SwapCalled(w) \/ OnSwapped(w)
    BY <1>0, <1>1, VersionCompleted, VersionNetwork, VersionStorage, VersionSwaps,
       LockParameters, AssetParameters
  <1>2. CASE \/ Download \/ OnOpened \/ ClearFile \/ ClearCalled \/ CheckFile \/ OnFileCalled \/ LockStep
             \/ SaveRow \/ Restart \/ Publish \/ UNCHANGED vars
             \/ \E r \in Request : ReadRetain(r) \/ ReadTry(r) \/ ReadCalled(r) \/ ReadRelease(r)
    BY <1>0, <1>2, VersionOther, LockParameters, AssetParameters
  <1> QED BY <1>1, <1>2 DEF Next

LEMMA VersionInductive == ASSUME ClearOnly, Polite PROVE Spec => []VersionInv
  <1>1. Init => VersionInv
    <2> SUFFICES ASSUME Init PROVE VersionInv
      OBVIOUS
    <2>1. /\ status = [r \in Request |-> "idle"] /\ \A w \in Swap : w \in Request
          /\ download = NoDownload /\ DOMAIN calls = {} /\ DOMAIN work = {} /\ temp = Missing
      BY AssetParameters DEF Init, LockInit, AssetParameters, Writer
    <2> QED BY <2>1 DEF VersionInv, Ahead, Waiting, Working
  <1>2. AssetInv /\ QueuesInv /\ DataInv /\ TempInv /\ TempInv' /\ VersionInv /\ [Next]_vars => VersionInv'
    BY NextVersion
  <1> QED BY <1>1, <1>2, Inductive, QueuesInductive, DataInductive, TempInductive, PTL DEF Spec

-----------------------------------------------------------------------------
(* The claims are versions, each of them one of those it is made from.      *)
LEMMA ClaimsAre ==
    ASSUME AssetParameters, Types
    PROVE  /\ Claims \subseteq Nat /\ mtime \in Claims /\ row.mtime \in Claims
           /\ \A i \in DOMAIN saves : saves[i].mtime \in Claims
           /\ \A w \in Swap : Back(w) => version[w] \in Claims
  <1>1. mtime \in Nat /\ row.mtime \in Nat /\ \A w \in Swap : version[w] \in Nat
    BY DEF Types, TypeOK, AssetParameters
  <1>2. \A i \in DOMAIN saves : saves[i].mtime \in Nat
    <2>1. saves \in Seq(Rows) /\ \A s \in Rows : s.mtime \in Nat
      BY DEF Types, ThreadsOK, Rows, AssetParameters
    <2> HIDE DEF Rows
    <2> QED BY <2>1
  <1> QED BY <1>1, <1>2 DEF Claims

LEMMA ClaimsKeep ==
    ASSUME mtime' \in Claims, row'.mtime \in Claims, \A i \in DOMAIN saves' : saves'[i].mtime \in Claims,
           \A w \in Swap : Back(w)' => version'[w] \in Claims
    PROVE  Claims' \subseteq Claims
  <1>1. \A m \in Claims' : \/ m \in {mtime', row'.mtime}
                           \/ \E i \in DOMAIN saves' : m = saves'[i].mtime
                           \/ \E w \in Swap : Back(w)' /\ m = version'[w]
    BY DEF Claims
  <1> QED BY <1>1

(* No swap comes back but from the storage thread.                          *)
LEMMA BackKeeps ==
    ASSUME Types,
           \/ UNCHANGED calls
           \/ \E what : Dequeue(what)
           \/ \E c \in Called : c.what # "swapped" /\ Post(c)
    PROVE  \A w \in Swap : Back(w)' => Back(w)
  <1>0. \A w : Swapped(w).what = "swapped"
    BY DEF Swapped
  <1>1. CASE UNCHANGED calls
    BY <1>1 DEF Back
  <1>2. ASSUME NEW what, Dequeue(what) PROVE \A w \in Swap : Back(w)' => Back(w)
    BY <1>2, Dequeued DEF Back
  <1>3. ASSUME NEW c \in Called, c.what # "swapped", Post(c) PROVE \A w \in Swap : Back(w)' => Back(w)
    <2>1. \A i \in DOMAIN calls' : (i \in DOMAIN calls /\ calls'[i] = calls[i]) \/ calls'[i] = c
      BY <1>3, Posted
    <2> QED BY <1>0, <1>3, <2>1 DEF Back
  <1> QED BY <1>1, <1>2, <1>3

(* The rows that wait to be written, with one more or one less.             *)
LEMMA RowsKeep ==
    ASSUME AssetParameters, Types,
           \/ UNCHANGED saves
           \/ \E m \in 0 .. MaxVersion, d \in BOOLEAN : m \in Claims /\ Save(m, d)
           \/ saves # <<>> /\ saves' = Tail(saves)
    PROVE  \A i \in DOMAIN saves' : saves'[i].mtime \in Claims
  <1>0. saves \in Seq(Rows) /\ \A i \in DOMAIN saves : saves[i].mtime \in Claims
    BY ClaimsAre DEF Types, ThreadsOK
  <1>1. CASE UNCHANGED saves
    BY <1>0, <1>1
  <1>2. ASSUME NEW m \in 0 .. MaxVersion, NEW d \in BOOLEAN, m \in Claims, Save(m, d)
        PROVE  \A i \in DOMAIN saves' : saves'[i].mtime \in Claims
    <2>1. Row(m, d) \in Rows /\ Row(m, d).mtime = m /\ saves' = Append(saves, Row(m, d))
      BY <1>2 DEF Row, Rows, Save
    <2> HIDE DEF Rows
    <2>2. \A i \in DOMAIN saves' : (i \in DOMAIN saves /\ saves'[i] = saves[i]) \/ saves'[i] = Row(m, d)
      BY <1>0, <2>1, Appended, Sequence
    <2> QED BY <1>0, <1>2, <2>1, <2>2
  <1>3. CASE saves # <<>> /\ saves' = Tail(saves)
    <2> HIDE DEF Rows
    <2>1. \A i \in DOMAIN saves' : i + 1 \in DOMAIN saves /\ saves'[i] = saves[i + 1]
      BY <1>0, <1>3
    <2> QED BY <1>0, <2>1
  <1> QED BY <1>1, <1>2, <1>3

(* A step that claims nothing new, and at most takes the file away.         *)
LEMMA ClaimsSame ==
    ASSUME AssetParameters, AssetInv, ClaimsInv, Claims' \subseteq Claims,
           server' = server \/ server' = server + 1, UNCHANGED file \/ file' = Missing,
           UNCHANGED temp \/ ~Complete(temp)', UNCHANGED download \/ download'.state # "receiving"
    PROVE  ClaimsInv'
  <1>1. /\ server \in Nat /\ Claims \subseteq Nat /\ server' \in Nat /\ server <= server'
        /\ temp[2] \in Nat /\ download.version \in Nat
    <2>1. temp \in Contents /\ download.version \in 0 .. MaxVersion /\ MaxVersion \in Nat
      BY DEF AssetInv, Types, TypeOK, ThreadsOK, AssetParameters
    <2>2. temp[2] \in Nat
      BY <2>1 DEF Contents
    <2> QED BY <2>1, <2>2, CompleteExists, ClaimsAre DEF AssetInv
  <1>2. Cover(server)' /\ \A v \in Nat : Cover(v) => \A m \in Claims' : m <= v
    BY <1>1 DEF ClaimsInv, Cover
  <1>3. Exists(file)' => Cover(file[2])'
    <2>1. Exists(file)' => file' = file /\ Exists(file)
      BY DEF Exists
    <2> QED BY <2>1 DEF ClaimsInv, Cover
  <1>4. Complete(temp)' => Cover(temp[2])' /\ temp'[2] <= server'
    <2>1. Complete(temp)' => temp' = temp /\ Complete(temp)
      BY DEF Complete
    <2> QED BY <1>1, <2>1 DEF ClaimsInv, Cover
  <1>5. download'.state = "receiving" => Cover(download.version)' /\ download'.version <= server'
    BY <1>1 DEF ClaimsInv, Cover
  <1> QED BY <1>2, <1>3, <1>4, <1>5 DEF ClaimsInv

LEMMA ClaimsOpened ==
    ASSUME AssetParameters, AssetInv, ClaimsInv, Download \/ OnOpened
    PROVE  ClaimsInv'
  <1>1. /\ UNCHANGED <<server, file, temp, row, mtime, version>> /\ (UNCHANGED calls \/ Dequeue("opened"))
        /\ UNCHANGED download \/ download'.state # "receiving"
    <2>0. \A k : Asked(k).state = "asked"
      BY DEF Asked
    <2>1. CASE StartDownload
      BY <2>0, <2>1 DEF Download, OnOpened, StartDownload, disk, flags
    <2>2. CASE ~StartDownload
      BY <2>2 DEF Download, OnOpened, disk, flags
    <2> QED BY <2>1, <2>2
  <1>2. UNCHANGED saves \/ Save(mtime, TRUE)
    BY DEF Download, OnOpened, StartDownload
  <1>3. mtime \in Claims /\ row.mtime \in Claims /\ mtime \in 0 .. MaxVersion
    BY ClaimsAre DEF AssetInv, Types, TypeOK
  <1>4. \A i \in DOMAIN saves' : saves'[i].mtime \in Claims
    BY <1>2, <1>3, RowsKeep DEF AssetInv
  <1>5. \A w \in Swap : Back(w)' => version'[w] \in Claims
    BY <1>1, BackKeeps, ClaimsAre DEF AssetInv
  <1>6. Claims' \subseteq Claims
    BY <1>1, <1>3, <1>4, <1>5, ClaimsKeep
  <1> QED BY <1>1, <1>6, ClaimsSame

(* The version of an answer is not claimed before its swap has come back.   *)
LEMMA ClaimsCompleted ==
    ASSUME LockParameters, AssetParameters, AssetInv, DataInv, ClaimsInv, OnCompleted
    PROVE  ClaimsInv'
  <1>1. /\ UNCHANGED <<server, file, row, mtime>> /\ Dequeue("completed")
        /\ UNCHANGED temp \/ temp' = Missing
        /\ download'.state = "none"
    BY DEF OnCompleted, NoDownload
  <1>8. UNCHANGED temp \/ ~Complete(temp)'
    BY <1>1, CompleteExists DEF Complete, AssetInv
  <1>2. UNCHANGED saves \/ Save(mtime, FALSE)
    BY DEF OnCompleted
  <1>3. mtime \in Claims /\ row.mtime \in Claims /\ mtime \in 0 .. MaxVersion
    BY ClaimsAre DEF AssetInv, Types, TypeOK
  <1>4. \A i \in DOMAIN saves' : saves'[i].mtime \in Claims
    BY <1>2, <1>3, RowsKeep DEF AssetInv
  <1>5. \A w \in Swap : ~Back(w)
    <2>1. Answered
      BY <1>1, Dequeued DEF AssetInv, Answered
    <2>2. Moving = {}
      BY <2>1, NotPending DEF DataInv, PhaseInv
    <2> QED BY <2>2 DEF Moving, Back
  <1>6. \A w \in Swap : ~Back(w)'
    BY <1>1, <1>5, BackKeeps DEF AssetInv
  <1>7. Claims' \subseteq Claims
    BY <1>1, <1>3, <1>4, <1>6, ClaimsKeep
  <1> QED BY <1>1, <1>7, <1>8, ClaimsSame

LEMMA ClaimsSwapped ==
    ASSUME AssetParameters, AssetInv, ClaimsInv, NEW w \in Swap, OnSwapped(w)
    PROVE  ClaimsInv'
  <1>1. /\ UNCHANGED <<server, file, temp, row, download, version>> /\ Dequeue("swapped") /\ Head(calls).swap = w
        /\ mtime' = version[w]
    BY DEF OnSwapped, disk
  <1>2. version[w] \in Claims
    <2>1. 1 \in DOMAIN calls /\ calls[1] \in Called /\ calls[1].what = "swapped" /\ calls[1].swap = w
      BY <1>1, Dequeued DEF AssetInv
    <2>2. calls[1] = Swapped(w)
      BY <2>1, CalledMade
    <2> QED BY <2>1, <2>2, ClaimsAre DEF AssetInv, Back
  <1>3. row.mtime \in Claims /\ version[w] \in 0 .. MaxVersion
    BY ClaimsAre DEF AssetInv, Types, TypeOK
  <1>4. \A i \in DOMAIN saves' : saves'[i].mtime \in Claims
    <2>1. PICK d \in BOOLEAN : d = (download # NoDownload)
      OBVIOUS
    <2>2. Save(version[w], d)
      BY <2>1 DEF OnSwapped
    <2> QED BY <1>2, <1>3, <2>2, RowsKeep DEF AssetInv
  <1>5. \A v \in Swap : Back(v)' => version'[v] \in Claims
    BY <1>1, BackKeeps, ClaimsAre DEF AssetInv
  <1>6. Claims' \subseteq Claims
    BY <1>1, <1>2, <1>3, <1>4, <1>5, ClaimsKeep
  <1> QED BY <1>1, <1>6, ClaimsSame

(* What was claimed on the disk is claimed again after a restart.           *)
LEMMA ClaimsSaved ==
    ASSUME AssetParameters, AssetInv, ClaimsInv, SaveRow \/ Restart
    PROVE  ClaimsInv'
  <1>1. UNCHANGED <<server, file, temp, version>> /\ (UNCHANGED download \/ download'.state # "receiving")
    BY DEF SaveRow, Restart, Asked, NoDownload
  <1>2. mtime \in Claims /\ row.mtime \in Claims /\ row \in Rows
    BY ClaimsAre DEF AssetInv, Types, TypeOK, Rows
  <1>3. CASE SaveRow
    <2>1. UNCHANGED <<mtime, calls>> /\ saves # <<>> /\ saves' = Tail(saves) /\ row' = Head(saves)
      BY <1>3 DEF SaveRow, flags
    <2>2. row' = saves[1] /\ 1 \in DOMAIN saves
      BY <2>1 DEF AssetInv, Types, ThreadsOK
    <2>3. row'.mtime \in Claims
      BY <2>2, ClaimsAre DEF AssetInv
    <2>4. \A i \in DOMAIN saves' : saves'[i].mtime \in Claims
      BY <2>1, RowsKeep DEF AssetInv
    <2>5. \A w \in Swap : Back(w)' => version'[w] \in Claims
      BY <1>1, <2>1, BackKeeps, ClaimsAre DEF AssetInv
    <2>6. Claims' \subseteq Claims
      BY <1>2, <2>1, <2>3, <2>4, <2>5, ClaimsKeep
    <2> QED BY <1>1, <2>6, ClaimsSame
  <1>4. CASE Restart
    <2>1. mtime' = row.mtime /\ row' = [row EXCEPT !.download = FALSE] /\ calls' = <<Opened>> /\ saves' = <<>>
      BY <1>4 DEF Restart
    <2>2. row'.mtime = row.mtime
      BY <1>2, <2>1 DEF Rows
    <2>3. \A w \in Swap : ~Back(w)'
      BY <2>1 DEF Back, Opened, Swapped
    <2>4. Claims' \subseteq Claims
      BY <1>2, <2>1, <2>2, <2>3, ClaimsKeep
    <2> QED BY <1>1, <2>4, ClaimsSame
  <1> QED BY <1>3, <1>4

(* The file that is put in place is the newest, and so may be claimed.      *)
LEMMA ClaimsMoved ==
    ASSUME LockParameters, AssetParameters, ClearOnly, AssetInv, WritersInv, DataInv, TempInv, VersionInv,
           ClaimsInv, RemoveOriginal \/ MoveTemp
    PROVE  ClaimsInv'
  <1>1. UNCHANGED <<server, row, mtime, saves, download, version>>
    BY DEF RemoveOriginal, MoveTemp, flags
  <1>2. CASE RemoveOriginal
    <2>1. UNCHANGED <<temp, calls>> /\ file' = Missing
      BY <1>2 DEF RemoveOriginal
    <2>2. Claims' \subseteq Claims
      BY <1>1, <2>1, BackKeeps, ClaimsAre, ClaimsKeep DEF AssetInv
    <2> QED BY <1>1, <2>1, <2>2, ClaimsSame
  <1>3. CASE MoveTemp
    <2>0. PICK h : h = Head(work).swap
      OBVIOUS
    <2>1. h \in Swap /\ Ahead(h)
      BY <2>0, StorageMoving, TempStorage DEF Ahead
    <2>2. Complete(temp) /\ version[h] = temp[2] /\ Exists(temp)
      BY <2>1, CompleteExists DEF TempInv, VersionInv, AssetInv
    <2>3. file' = temp /\ temp' = Missing
      BY <1>3, <2>2 DEF MoveTemp
    <2>4. download.state = "none"
      <3>1. Moving = {h} /\ h \in Swap
        BY <2>0, StorageMoving
      <3>2. Kept(h)
        BY <3>1 DEF AssetInv, SwapInv, Kept
      <3>3. Active(h)
        BY <3>2 DEF Active
      <3>4. waitFileSwap
        BY <3>1, <3>3 DEF DataInv, FlagsInv
      <3> QED BY <3>4 DEF DataInv, PhaseInv
    <2>5. \A m \in Claims' : m \in Claims \/ m = temp[2]
      <3>1. Post(Swapped(h)) /\ Swapped(h) \in Called
        BY <1>3, <2>0, <2>1, CalledMade DEF MoveTemp
      <3>2. \A i \in DOMAIN calls' : (i \in DOMAIN calls /\ calls'[i] = calls[i]) \/ calls'[i] = Swapped(h)
        BY <3>1, Posted DEF AssetInv
      <3>3. \A w : Swapped(w).swap = w
        BY DEF Swapped
      <3>4. \A w \in Swap : Back(w)' => w = h \/ Back(w)
        BY <3>2, <3>3 DEF Back
      <3> QED BY <1>1, <2>2, <3>4 DEF Claims
    <2>6. temp[2] \in Nat /\ temp[2] <= server /\ Cover(temp[2]) /\ Cover(server)
      <3>1. temp \in Contents /\ MaxVersion \in Nat
        BY CompleteExists DEF AssetInv, AssetParameters
      <3> QED BY <2>2, <3>1 DEF ClaimsInv, Contents
    <2>7. (\A m \in Claims' : m <= temp[2]) /\ Cover(server)'
      BY <1>1, <2>5, <2>6 DEF Cover
    <2>8. ~Complete(temp)'
      BY <2>3, CompleteExists DEF Complete, AssetInv
    <2> QED BY <1>1, <2>3, <2>4, <2>7, <2>8 DEF ClaimsInv, Cover
  <1> QED BY <1>2, <1>3

(* What is received completes the temporary file with the version it had    *)
(* when it was asked for, which is at least what is claimed.                *)
LEMMA ClaimsReceived ==
    ASSUME AssetParameters, AssetInv, TempInv, ClaimsInv, Responded \/ Received
    PROVE  ClaimsInv'
  <1>0. download \in [state : {"none", "asked", "receiving", "answered"}, known : 0 .. MaxVersion, version : 0 .. MaxVersion]
    BY DEF AssetInv, Types, ThreadsOK
  <1>1. UNCHANGED <<server, file, row, mtime, saves, version>>
    BY DEF Responded, Received, Answer, flags
  <1>2. UNCHANGED calls \/ \E c \in Called : c.what # "swapped" /\ Post(c)
    <2>1. CASE Responded
      BY <2>1 DEF Responded
    <2>2. CASE Received
      <3>1. Completed(TRUE, TRUE, download.version) \in Called /\ Completed(TRUE, TRUE, download.version).what = "completed"
        BY <1>0, CalledMade DEF Completed
      <3> QED BY <2>2, <3>1 DEF Received, Answer
    <2> QED BY <2>1, <2>2
  <1>3. Claims' \subseteq Claims
    BY <1>1, <1>2, BackKeeps, ClaimsAre, ClaimsKeep DEF AssetInv
  <1>4. Cover(server)' /\ (Exists(file)' => Cover(file[2])')
    BY <1>1, <1>3 DEF ClaimsInv, Cover, Exists
  <1>5. CASE Responded
    <2>1. download'.state = "receiving" /\ download'.version = server
      BY <1>0, <1>5 DEF Responded
    <2>2. temp' = Half(temp[1]) \/ temp' = Half(server)
      BY <1>5 DEF Responded
    <2>3. ~Complete(temp)'
      BY <2>2 DEF Half, Complete
    <2>4. server \in Nat /\ Cover(server) /\ \A m \in Claims' : m <= server
      BY <1>3, CompleteExists DEF ClaimsInv, Cover, AssetInv
    <2> QED BY <1>1, <1>4, <2>1, <2>3, <2>4 DEF ClaimsInv, Cover
  <1>6. CASE Received
    <2>1. PICK v : v = download.version
      OBVIOUS
    <2>2. temp' = <<temp[1], v>> /\ download'.state = "answered"
      BY <1>0, <1>6, <2>1 DEF Received, Answer
    <2>3. temp'[2] = v
      BY <2>2
    <2>4. v <= server /\ \A m \in Claims' : m <= v
      BY <1>3, <1>6, <2>1 DEF ClaimsInv, Cover, Received
    <2> QED BY <1>1, <1>4, <2>2, <2>3, <2>4 DEF ClaimsInv, Cover
  <1> QED BY <1>5, <1>6

LEMMA ClaimsOther ==
    ASSUME AssetParameters, AssetInv, ClaimsInv,
           \/ ClearFile \/ ClearCalled \/ CheckFile \/ OnFileCalled \/ LockStep \/ Publish \/ UNCHANGED vars
           \/ Refused \/ Failed
           \/ \E r \in Request : ReadRetain(r) \/ ReadTry(r) \/ ReadCalled(r) \/ ReadRelease(r)
           \/ \E w \in Swap : SwapCalled(w)
    PROVE  ClaimsInv'
  <1>1. /\ UNCHANGED <<row, mtime, saves, version>>
        /\ server' = server \/ server' = server + 1
        /\ UNCHANGED file \/ file' = Missing
        /\ UNCHANGED temp \/ temp' = Missing
        /\ UNCHANGED download \/ download'.state # "receiving"
    <2>1. CASE ClearFile \/ ClearCalled \/ CheckFile \/ OnFileCalled \/ LockStep \/ Publish \/ UNCHANGED vars
      BY <2>1 DEF ClearFile, ClearCalled, CheckFile, OnFileCalled, LockStep, Publish, vars, Others, disk, flags, threads
    <2>2. CASE Refused \/ Failed
      <3>1. download \in [state : {"none", "asked", "receiving", "answered"}, known : 0 .. MaxVersion, version : 0 .. MaxVersion]
        BY DEF AssetInv, Types, ThreadsOK
      <3> QED BY <2>2, <3>1 DEF Refused, Failed, Answer, flags
    <2>3. CASE \E r \in Request : ReadRetain(r) \/ ReadTry(r) \/ ReadCalled(r) \/ ReadRelease(r)
      BY <2>3 DEF ReadRetain, ReadTry, ReadCalled, ReadRelease, Others, disk, flags, threads
    <2>4. CASE \E w \in Swap : SwapCalled(w)
      BY <2>4 DEF SwapCalled, disk
    <2> QED BY <2>1, <2>2, <2>3, <2>4
  <1>2. UNCHANGED calls \/ \E c \in Called : c.what # "swapped" /\ Post(c)
    <2>1. CASE ClearFile \/ ClearCalled \/ CheckFile \/ OnFileCalled \/ LockStep \/ Publish \/ UNCHANGED vars
      BY <2>1 DEF ClearFile, ClearCalled, CheckFile, OnFileCalled, LockStep, Publish, vars, Others, threads
    <2>2. CASE Refused \/ Failed
      <3>1. \A s, t \in BOOLEAN, v \in 0 .. MaxVersion : Completed(s, t, v) \in Called /\ Completed(s, t, v).what # "swapped"
        BY CalledMade DEF Completed
      <3>2. 0 \in 0 .. MaxVersion
        BY DEF AssetParameters
      <3> QED BY <2>2, <3>1, <3>2 DEF Refused, Failed, Answer
    <2>3. CASE \E r \in Request : ReadRetain(r) \/ ReadTry(r) \/ ReadCalled(r) \/ ReadRelease(r)
      BY <2>3 DEF ReadRetain, ReadTry, ReadCalled, ReadRelease, Others, threads
    <2>4. CASE \E w \in Swap : SwapCalled(w)
      BY <2>4 DEF SwapCalled
    <2> QED BY <2>1, <2>2, <2>3, <2>4
  <1>3. \A w \in Swap : Back(w)' => Back(w)
    BY <1>2, BackKeeps DEF AssetInv
  <1>4. Claims' \subseteq Claims
    BY <1>1, <1>3, ClaimsAre, ClaimsKeep DEF AssetInv
  <1>5. UNCHANGED temp \/ ~Complete(temp)'
    BY <1>1, CompleteExists DEF Complete, AssetInv
  <1> QED BY <1>1, <1>4, <1>5, ClaimsSame

(* The claims, over every step of the asset.                                *)
LEMMA NextClaims ==
    ASSUME ClearOnly, Polite, AssetInv, QueuesInv, DataInv, TempInv, VersionInv, ClaimsInv, [Next]_vars
    PROVE  ClaimsInv'
  <1>0. WritersInv
    BY DEF QueuesInv
  <1>1. CASE \/ Download \/ OnOpened \/ OnCompleted \/ SaveRow \/ Restart \/ RemoveOriginal \/ MoveTemp
             \/ \E w \in Swap : OnSwapped(w)
    BY <1>0, <1>1, ClaimsOpened, ClaimsCompleted, ClaimsSaved, ClaimsMoved, ClaimsSwapped,
       LockParameters, AssetParameters
  <1>2. CASE \/ ClearFile \/ ClearCalled \/ CheckFile \/ OnFileCalled \/ LockStep \/ Publish \/ UNCHANGED vars
             \/ Refused \/ Failed
             \/ \E r \in Request : ReadRetain(r) \/ ReadTry(r) \/ ReadCalled(r) \/ ReadRelease(r)
             \/ \E w \in Swap : SwapCalled(w)
    BY <1>2, ClaimsOther, AssetParameters
  <1>3. CASE Responded \/ Received
    BY <1>3, ClaimsReceived, AssetParameters
  <1> QED BY <1>1, <1>2, <1>3 DEF Next

LEMMA ClaimsInductive == ASSUME ClearOnly, Polite PROVE Spec => []ClaimsInv
  <1>1. Init => ClaimsInv
    <2> SUFFICES ASSUME Init PROVE ClaimsInv
      OBVIOUS
    <2>1. /\ server = 1 /\ ~Exists(file) /\ ~Complete(temp) /\ download.state = "none" /\ mtime = 0 /\ row.mtime = 0
          /\ DOMAIN saves = {} /\ DOMAIN calls = {}
      BY DEF Init, Row, Exists, Complete, Missing, NoDownload
    <2>2. Claims = {0}
      BY <2>1 DEF Claims, Back
    <2> QED BY <2>1, <2>2 DEF ClaimsInv, Cover
  <1>2. AssetInv /\ QueuesInv /\ DataInv /\ TempInv /\ VersionInv /\ ClaimsInv /\ [Next]_vars => ClaimsInv'
    BY NextClaims
  <1> QED BY <1>1, <1>2, Inductive, QueuesInductive, DataInductive, TempInductive, VersionInductive, PTL DEF Spec

(* The asset never claims, in memory or in the database, a newer version    *)
(* than the answer that completed its file (mtime, the request of           *)
(* AssetDownload), if users ask before they download.                       *)
THEOREM ClaimsCorrect == ASSUME ClearOnly, Polite PROVE Spec => []NeverClaimsMore
  <1>1. Types /\ ClaimsInv => NeverClaimsMore
    BY ClaimsAre, AssetParameters DEF ClaimsInv, Cover, NeverClaimsMore
  <1>2. AssetInv => Types
    BY DEF AssetInv
  <1> QED BY <1>1, <1>2, ClaimsInductive, Inductive, PTL

=============================================================================
