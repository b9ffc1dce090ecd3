-------------------------- MODULE PriorityQueueProofs --------------------------
(***************************************************************************)
(* The node lists of PriorityQueue for every number of threads, nodes and  *)
(* pushes: where every node is, and that the lists are the sorted queue.   *)
(***************************************************************************)
EXTENDS PriorityQueue, SequenceTheorems, FiniteSetTheorems, WellFoundedInduction, TLAPS

(* The queue is used as long as its preallocated nodes last; if it needs a  *)
(* block, then once, before anything is popped, and not to the last node;   *)
(* and its owner clears it before it is destroyed.                          *)
OneBurst == ~Reuse /\ ClearFirst /\ MaxPending <= PreallocatedNodes + StorageNodes - 2

Values == [stamp : 0..MaxPush, first : BOOLEAN]
Place  == Node \cup {NULL}

Heaps == [next : [Node -> Place], prio : [Node -> Int], value : [Node -> Values],
          live : SUBSET Blocks, used : [Blocks -> Int], capacity : Int,
          first : Place, last : Place, ffirst : Place, flast : Place, fault : BOOLEAN]

(* The nodes s, linked in order from a on.                                  *)
Links(next, a, s) ==
  /\ s \in Seq(Node) /\ \A i, j \in 1..Len(s) : s[i] = s[j] => i = j
  /\ a = IF Len(s) = 0 THEN NULL ELSE s[1]
  /\ \A i \in 1..Len(s) : next[s[i]] = IF i = Len(s) THEN NULL ELSE s[i + 1]

(* The two lists of a heap: the queue is sorted, and knows its end.         *)
Lists(h, qs, fs) ==
  /\ h \in Heaps /\ ~h.fault
  /\ Links(h.next, h.first, qs) /\ Links(h.next, h.ffirst, fs)
  /\ h.last = IF Len(qs) = 0 THEN NULL ELSE qs[Len(qs)]
  /\ \A i, j \in 1..Len(qs) : i < j => h.prio[qs[i]] <= h.prio[qs[j]]

(* Every node there is, is in one place: a list, a thread that is filling   *)
(* it, or one that disposes of it.                                          *)
Usable(h, n) == n \in Preallocated \/ n[1] \in h.live

Places(h, qs, fs, filling, freeing) ==
  /\ filling \subseteq Node /\ freeing \subseteq Node
  /\ IsFiniteSet(filling) /\ IsFiniteSet(freeing) /\ filling \cap freeing = {}
  /\ \A n \in Node : Usable(h, n) <=> Contains(qs, n) \/ Contains(fs, n) \/ n \in filling \cup freeing
  /\ \A n \in Node : ~(Contains(qs, n) /\ Contains(fs, n))
  /\ \A n \in filling \cup freeing : ~Contains(qs, n) /\ ~Contains(fs, n)
  /\ \A n \in Node : h.value[n] # NoValue <=> Contains(qs, n) \/ n \in freeing

(* There is at most one block, in use and with two free nodes, which are    *)
(* behind the preallocated ones.                                            *)
InUse(b, qs, hands) == {n \in BlockNodes(b) : Contains(qs, n) \/ n \in hands}

End(s) == IF Len(s) >= 2 THEN s[Len(s)] ELSE NULL

FreeList(h, qs, fs, hands, pop) ==
  /\ Len(fs) + Len(qs) + Cardinality(hands) = h.capacity
  /\ h.capacity = PreallocatedNodes + StorageNodes * Cardinality(h.live)
  /\ \A b, c \in h.live : b = c
  /\ \A b \in h.live :
        /\ h.used[b] = Cardinality(InUse(b, qs, hands)) /\ h.used[b] > 0
        /\ Len(fs) >= 2
        /\ \A i, j \in 1..Len(fs) : i < j /\ fs[j] \in Preallocated => fs[i] \in Preallocated
  /\ ~pop \/ h.live # {} => h.flast = End(fs)

HeapInv(h, qs, fs, filling, freeing, pop) ==
  /\ Lists(h, qs, fs)
  /\ Places(h, qs, fs, filling, freeing)
  /\ FreeList(h, qs, fs, filling \cup freeing, pop)

(* The threads, and the nodes they carry.                                   *)
Carried(p, h, what) == {h[t] : t \in {t \in Threads : p[t] = what}}
Doing(p, what) == {t \in Threads : p[t] = what}
Busy == {"push", "free"}

HandsInv(p, h) ==
  /\ p \in [Threads -> {"idle", "push", "free", "clear", "destroy"}]
  /\ h \in [Threads -> Place]
  /\ \A t \in Threads : p[t] \in Busy <=> h[t] # NULL
  /\ \A t, u \in Threads : h[t] # NULL /\ h[t] = h[u] => t = u

ThreadsInv ==
  /\ HandsInv(pc, hand)
  /\ pushes \in Nat /\ pushes + Cardinality(Doing(pc, "push")) <= MaxPush
  /\ popped \in BOOLEAN /\ \A t \in Threads : pc[t] = "free" => popped

QueueInv ==
  /\ ThreadsInv
  /\ HeapInv(heap, Queued, Free, Carried(pc, hand, "push"), Carried(pc, hand, "free"), popped)
  /\ Pending <= MaxPending

-----------------------------------------------------------------------------
Less == {p \in Nat \X Nat : p[1] < p[2]}

(* A set of numbers that is not empty has a least one.                      *)
LEMMA Least ==
  ASSUME NEW T \in SUBSET Nat, T # {}
  PROVE  \E m \in T : \A n \in T : m <= n
<1>1. IsWellFoundedOn(Less, Nat)
  BY NatLessThanWellFounded DEF OpToRel, Less
<1>2. PICK m \in T : \A n \in T : ~(<<n, m>> \in Less)
  BY <1>1, WFMin
<1>3. \A n \in T : ~(n < m)
  BY <1>2 DEF Less
<1> QED
  BY <1>3

(* The constants that are numbers.                                          *)
LEMMA Numbers ==
  /\ PreallocatedNodes \in Nat /\ PreallocatedNodes >= 2
  /\ StorageNodes \in Nat /\ StorageNodes >= 3
  /\ MaxPush \in Nat /\ MaxPending \in Nat
BY PriorityQueueAssumption

(* What node a value is.                                                    *)
LEMMA NodeFacts ==
  /\ NULL \notin Node
  /\ \A n \in Node : /\ n \in Preallocated <=> n[1] = "pre"
                     /\ n \notin Preallocated => n[1] \in Blocks
  /\ \A n \in Node, b \in Blocks : n \in BlockNodes(b) <=> n[1] = b
  /\ \A b \in Blocks : b # "pre" /\ BlockNodes(b) \subseteq Node
  /\ Preallocated \subseteq Node
<1>1. "pre" \notin Blocks
  BY PriorityQueueAssumption
<1>2. NULL \notin Node
  BY DEF NULL, Node, Preallocated, BlockNodes
<1>3. \A n \in Preallocated : n[1] = "pre"
  BY DEF Preallocated
<1>4. \A b \in Blocks : \A n \in BlockNodes(b) : n[1] = b
  BY DEF BlockNodes
<1>5. \A n \in Node : n \in Preallocated \/ \E b \in Blocks : n \in BlockNodes(b)
  BY DEF Node
<1>6. \A b \in Blocks : b # "pre" /\ BlockNodes(b) \subseteq Node
  BY <1>1 DEF Node
<1>7. Preallocated \subseteq Node
  BY DEF Node
<1> QED
  BY <1>1, <1>2, <1>3, <1>4, <1>5, <1>6, <1>7

(* The nodes of an array of n.                                              *)
LEMMA ArrayNodes ==
  ASSUME NEW a, NEW n \in Nat
  PROVE  LET T == {<<a, i>> : i \in 1..n} IN IsFiniteSet(T) /\ Cardinality(T) = n
<1> DEFINE T == {<<a, i>> : i \in 1..n}
           f == [i \in 1..n |-> <<a, i>>]
<1>1. f \in Bijection(1..n, T)
  BY DEF Bijection, Injection, Surjection, IsInjective
<1>2. IsFiniteSet(1..n) /\ Cardinality(1..n) = n
  BY FS_Interval
<1> QED
  BY <1>1, <1>2, FS_Bijection DEF ExistsBijection

(* There are finitely many nodes, and how many of each kind.                *)
LEMMA NodesFinite ==
  /\ IsFiniteSet(Node) /\ IsFiniteSet(Preallocated) /\ Cardinality(Preallocated) = PreallocatedNodes
  /\ \A b \in Blocks : IsFiniteSet(BlockNodes(b)) /\ Cardinality(BlockNodes(b)) = StorageNodes
<1>1. IsFiniteSet(Preallocated) /\ Cardinality(Preallocated) = PreallocatedNodes
  BY ArrayNodes, Numbers DEF Preallocated
<1>2. \A b \in Blocks : IsFiniteSet(BlockNodes(b)) /\ Cardinality(BlockNodes(b)) = StorageNodes
  BY ArrayNodes, Numbers DEF BlockNodes
<1> DEFINE T == {BlockNodes(b) : b \in Blocks}
<1>3. IsFiniteSet(T)
  <2> DEFINE f == [b \in Blocks |-> BlockNodes(b)]
  <2>1. f \in Surjection(Blocks, T)
    BY DEF Surjection
  <2> QED
    BY <2>1, FS_Surjection, PriorityQueueAssumption
<1>4. IsFiniteSet(UNION T)
  <2>1. \A S \in T : IsFiniteSet(S)
    BY <1>2
  <2> HIDE DEF T
  <2> QED
    BY <1>3, <2>1, FS_UNION
<1>5. IsFiniteSet(Node)
  BY <1>1, <1>4, FS_Union DEF Node
<1> QED
  BY <1>1, <1>2, <1>5

(* Small sets.                                                              *)
LEMMA OneMore ==
  ASSUME NEW S, IsFiniteSet(S), NEW x, x \notin S, NEW T, T = S \cup {x}
  PROVE  IsFiniteSet(T) /\ Cardinality(T) = Cardinality(S) + 1 /\ Cardinality(S) \in Nat
BY FS_AddElement, FS_CardinalityType

(* A finite set without one of its elements.                                *)
LEMMA OneLess ==
  ASSUME NEW S, IsFiniteSet(S), NEW x \in S, NEW T, T = S \ {x}
  PROVE  /\ IsFiniteSet(T) /\ Cardinality(T) = Cardinality(S) - 1
         /\ Cardinality(S) \in Nat /\ Cardinality(T) \in Nat
BY FS_RemoveElement, FS_CardinalityType

(* A sequence without repetition is as long as the set of its elements.     *)
LEMMA InjectiveLength ==
  ASSUME NEW S, NEW s \in Seq(S), \A i, j \in 1..Len(s) : s[i] = s[j] => i = j,
         NEW T, \A x : x \in T <=> \E i \in 1..Len(s) : s[i] = x
  PROVE  IsFiniteSet(T) /\ Cardinality(T) = Len(s)
<1>1. Len(s) \in Nat /\ DOMAIN s = 1..Len(s)
  OBVIOUS
<1>2. s \in [1..Len(s) -> T]
  <2>1. s \in [1..Len(s) -> S]
    OBVIOUS
  <2> QED
    BY <2>1
<1>3. s \in Bijection(1..Len(s), T)
  BY <1>1, <1>2 DEF Bijection, Injection, Surjection, IsInjective
<1>4. IsFiniteSet(1..Len(s)) /\ Cardinality(1..Len(s)) = Len(s)
  BY <1>1, FS_Interval
<1> QED
  BY <1>3, <1>4, FS_Bijection DEF ExistsBijection

-----------------------------------------------------------------------------
(* What was behind the place of an insertion moves by one.                  *)
LEMMA InsertAtTail ==
  ASSUME NEW S, NEW s \in Seq(S), NEW e \in S, NEW k \in 0..Len(s),
         NEW i \in (k + 1)..Len(s)
  PROVE  InsertAt(s, k + 1, e)[i + 1] = s[i]
<1> DEFINE front == SubSeq(s, 1, k)
           back == SubSeq(s, k + 1, Len(s))
           ahead == front \o <<e>>
<1>1. front \in Seq(S) /\ Len(front) = k
  OBVIOUS
<1>2. /\ back \in Seq(S) /\ Len(back) = Len(s) - k
      /\ \A j \in 1..(Len(s) - k) : back[j] = s[k + j]
  OBVIOUS
<1>3. InsertAt(s, k + 1, e) = ahead \o back
  <2>1. (k + 1) - 1 = k
    OBVIOUS
  <2> QED
    BY <2>1, Zenon DEF InsertAt
<1>4. <<e>> \in Seq(S) /\ Len(<<e>>) = 1
  OBVIOUS
<1> HIDE DEF front, back
<1>5. ahead \in Seq(S) /\ Len(ahead) = k + 1
  BY <1>1, <1>4, ConcatProperties
<1> HIDE DEF ahead
<1>6. i - k \in 1..(Len(s) - k) /\ (i + 1) - (k + 1) = i - k /\ k + (i - k) = i
  OBVIOUS
<1>7. (ahead \o back)[i + 1] = back[(i + 1) - (k + 1)]
  BY <1>2, <1>5, ConcatProperties
<1>8. back[i - k] = s[i]
  BY <1>2, <1>6
<1> QED
  BY <1>3, <1>6, <1>7, <1>8

(* The sequence s with e behind its first k elements.                       *)
Inserted(S, r, s, k, e) ==
  /\ r \in Seq(S) /\ Len(r) = Len(s) + 1
  /\ \A i \in 1..k : r[i] = s[i]
  /\ r[k + 1] = e
  /\ \A i \in (k + 1)..Len(s) : r[i + 1] = s[i]

(* What InsertAt returns: the entries before the place, the new one, the    *)
(* entries behind it moved up by one.                                       *)
LEMMA InsertAtElements ==
  ASSUME NEW S, NEW s \in Seq(S), NEW e \in S, NEW k \in 0..Len(s),
         NEW r, r = InsertAt(s, k + 1, e)
  PROVE  Inserted(S, r, s, k, e)
<1> DEFINE front == SubSeq(s, 1, k)
           back == SubSeq(s, k + 1, Len(s))
           ahead == front \o <<e>>
<1>0. Len(s) \in Nat /\ k \in Nat /\ k <= Len(s)
  OBVIOUS
<1>1. front \in Seq(S) /\ Len(front) = k /\ \A i \in 1..k : front[i] = s[i]
  OBVIOUS
<1>2. /\ back \in Seq(S) /\ Len(back) = Len(s) - k
      /\ \A i \in 1..(Len(s) - k) : back[i] = s[k + i]
  OBVIOUS
<1>3. r = ahead \o back
  <2>1. (k + 1) - 1 = k
    OBVIOUS
  <2> QED
    BY <2>1, Zenon DEF InsertAt
<1>4. <<e>> \in Seq(S) /\ Len(<<e>>) = 1 /\ <<e>>[1] = e
  OBVIOUS
<1> HIDE DEF front, back
<1>5. ahead \in Seq(S) /\ Len(ahead) = k + 1
  BY <1>1, <1>4, ConcatProperties
<1>6. \A i \in 1..k : ahead[i] = s[i]
  BY <1>1, <1>4, ConcatProperties
<1>7. ahead[k + 1] = e
  BY <1>0, <1>1, <1>4, ConcatProperties
<1> HIDE DEF ahead
<1>8. r \in Seq(S) /\ Len(r) = Len(s) + 1
  <2>1. r \in Seq(S)
    BY <1>2, <1>3, <1>5, ConcatProperties
  <2>2. Len(r) = Len(ahead) + Len(back)
    BY <1>2, <1>3, <1>5, ConcatProperties
  <2>3. Len(ahead) + Len(back) = Len(s) + 1
    BY <1>0, <1>2, <1>5
  <2> QED
    BY <2>1, <2>2, <2>3, Zenon
<1>9. \A i \in 1..(k + 1) : r[i] = ahead[i]
  BY <1>0, <1>2, <1>3, <1>5, ConcatProperties
<1>10. ASSUME NEW i \in (k + 1)..Len(s) PROVE r[i + 1] = s[i]
  BY InsertAtTail
<1>11. \A i \in 1..k : r[i] = s[i]
  BY <1>0, <1>6, <1>9
<1>12. r[k + 1] = e
  BY <1>0, <1>7, <1>9
<1> QED
  BY <1>8, <1>10, <1>11, <1>12, Zenon DEF Inserted

(* And nothing else is an insertion.                                        *)
LEMMA InsertAtIs ==
  ASSUME NEW S, NEW s \in Seq(S), NEW e \in S, NEW k \in 0..Len(s)
  PROVE  \A r \in Seq(S) :
           /\ Len(r) = Len(s) + 1
           /\ \A i \in 1..k : r[i] = s[i]
           /\ r[k + 1] = e
           /\ \A i \in (k + 1)..Len(s) : r[i + 1] = s[i]
           => r = InsertAt(s, k + 1, e)
<1>1. PICK t \in Seq(S) :
        /\ t = InsertAt(s, k + 1, e) /\ Len(t) = Len(s) + 1
        /\ \A i \in 1..k : t[i] = s[i]
        /\ t[k + 1] = e
        /\ \A i \in (k + 1)..Len(s) : t[i + 1] = s[i]
  <2>0. PICK t : t = InsertAt(s, k + 1, e)
    OBVIOUS
  <2>1. Inserted(S, t, s, k, e)
    BY <2>0, InsertAtElements
  <2> QED
    BY <2>0, <2>1, Zenon DEF Inserted
<1>2. SUFFICES ASSUME NEW r \in Seq(S), Len(r) = Len(s) + 1,
                      \A i \in 1..k : r[i] = s[i], r[k + 1] = e,
                      \A i \in (k + 1)..Len(s) : r[i + 1] = s[i]
               PROVE  r = t
  BY <1>1
<1>3. ASSUME NEW i \in 1..Len(r) PROVE r[i] = t[i]
  <2>1. Len(s) \in Nat /\ k \in Nat
    OBVIOUS
  <2>2. i \in 1..k \/ i = k + 1 \/ (i - 1 \in (k + 1)..Len(s) /\ (i - 1) + 1 = i)
    BY <1>2, <2>1
  <2> QED
    BY <1>1, <1>2, <2>2
<1> QED
  BY <1>1, <1>2, <1>3, SeqEqual

(* Which values an insertion and a tail have.                               *)
LEMMA InsertAtContains ==
  ASSUME NEW S, NEW s \in Seq(S), NEW e \in S, NEW k \in 0..Len(s),
         NEW r, r = InsertAt(s, k + 1, e)
  PROVE  \A x : Contains(r, x) <=> Contains(s, x) \/ x = e
<1>1. /\ r \in Seq(S) /\ Len(r) = Len(s) + 1
      /\ \A i \in 1..k : r[i] = s[i]
      /\ r[k + 1] = e
      /\ \A i \in (k + 1)..Len(s) : r[i + 1] = s[i]
  <2>1. Inserted(S, r, s, k, e)
    BY InsertAtElements
  <2> QED
    BY <2>1, Zenon DEF Inserted
<1>2. Len(s) \in Nat /\ k \in Nat
  OBVIOUS
<1>3. ASSUME NEW x, Contains(r, x) PROVE Contains(s, x) \/ x = e
  <2>1. PICK i \in 1..Len(r) : r[i] = x
    BY <1>3 DEF Contains
  <2>2. i \in 1..k \/ i = k + 1 \/ (i - 1 \in (k + 1)..Len(s) /\ (i - 1) + 1 = i)
    BY <1>1, <1>2
  <2>3. i \in 1..k => i \in 1..Len(s)
    BY <1>2
  <2>4. i - 1 \in (k + 1)..Len(s) => i - 1 \in 1..Len(s)
    BY <1>2
  <2> QED
    BY <1>1, <2>1, <2>2, <2>3, <2>4 DEF Contains
<1>4. ASSUME NEW x, NEW i \in 1..Len(s), s[i] = x PROVE Contains(r, x)
  <2>1. i \in 1..k \/ i \in (k + 1)..Len(s)
    BY <1>2
  <2>2. i \in 1..Len(r) /\ i + 1 \in 1..Len(r)
    BY <1>1, <1>2
  <2> QED
    BY <1>1, <1>4, <2>1, <2>2 DEF Contains
<1>5. Contains(r, e)
  <2>1. k + 1 \in 1..Len(r)
    BY <1>1, <1>2
  <2> QED
    BY <1>1, <2>1 DEF Contains
<1> QED
  BY <1>3, <1>4, <1>5 DEF Contains

(* What a pop leaves of a list: everything but its first node.              *)
LEMMA TailElements ==
  ASSUME NEW S, NEW s \in Seq(S), Len(s) > 0
  PROVE  /\ Tail(s) \in Seq(S) /\ Len(Tail(s)) = Len(s) - 1 /\ s # <<>>
         /\ \A i \in 1..Len(s) - 1 : Tail(s)[i] = s[i + 1]
         /\ \A x : Contains(s, x) <=> Contains(Tail(s), x) \/ x = s[1]
<1>1. /\ Tail(s) \in Seq(S) /\ Len(Tail(s)) = Len(s) - 1 /\ s # <<>>
      /\ \A i \in 1..Len(s) - 1 : Tail(s)[i] = s[i + 1]
  OBVIOUS
<1>2. ASSUME NEW x, NEW i \in 1..Len(s), s[i] = x, x # s[1] PROVE Contains(Tail(s), x)
  <2>1. i - 1 \in 1..Len(s) - 1 /\ (i - 1) + 1 = i
    BY <1>2
  <2> QED
    BY <1>1, <1>2, <2>1 DEF Contains
<1>3. ASSUME NEW x, Contains(Tail(s), x) PROVE Contains(s, x)
  <2>1. PICK i \in 1..Len(s) - 1 : Tail(s)[i] = x
    BY <1>1, <1>3 DEF Contains
  <2>2. i + 1 \in 1..Len(s)
    OBVIOUS
  <2> QED
    BY <1>1, <2>1, <2>2 DEF Contains
<1>4. 1 \in 1..Len(s)
  OBVIOUS
<1> QED
  BY <1>1, <1>2, <1>3, <1>4 DEF Contains

-----------------------------------------------------------------------------
(* Walk is what its recursion says.                                         *)
WalkTo(h, n, g, m) == g = [i \in 0..m |-> IF i = 0 THEN n ELSE Follow(h, g[i - 1])]

(* A walk of any number of steps exists.                                    *)
LEMMA WalksExist ==
  ASSUME NEW h, NEW n, NEW m \in Nat
  PROVE  \E g : WalkTo(h, n, g, m)
<1> DEFINE T == {k \in Nat : ~\E g : WalkTo(h, n, g, k)}
<1>1. CASE T = {}
  BY <1>1
<1>2. CASE T # {}
  <2>1. T \subseteq Nat
    OBVIOUS
  <2>2. PICK k \in T : \A j \in T : k <= j
    BY <1>2, <2>1, Least
  <2>3. CASE k = 0
    <3> DEFINE g == [i \in 0..0 |-> n]
    <3>1. WalkTo(h, n, g, 0)
      BY DEF WalkTo
    <3> QED
      BY <2>3, <3>1
  <2>4. CASE k # 0
    <3>1. k \in Nat /\ k - 1 \in Nat /\ k - 1 \notin T
      BY <2>2, <2>4
    <3>2. PICK g : WalkTo(h, n, g, k - 1)
      BY <3>1
    <3> DEFINE f == [i \in 0..k |-> IF i = k THEN Follow(h, g[k - 1]) ELSE g[i]]
    <3>3. g = [i \in 0..k - 1 |-> IF i = 0 THEN n ELSE Follow(h, g[i - 1])]
      BY <3>2 DEF WalkTo
    <3>4. \A i \in 0..k : f[i] = IF i = 0 THEN n ELSE Follow(h, f[i - 1])
      <4> SUFFICES ASSUME NEW i \in 0..k PROVE f[i] = IF i = 0 THEN n ELSE Follow(h, f[i - 1])
        OBVIOUS
      <4>1. CASE i = 0
        <5>1. g[0] = n /\ i # k
          BY <2>4, <3>1, <3>3, <4>1
        <5> QED
          BY <4>1, <5>1
      <4>2. CASE i = k
        <5>1. k - 1 \in 0..k /\ k - 1 # k /\ i # 0
          BY <2>4, <3>1, <4>2
        <5>2. f[k - 1] = g[k - 1]
          BY <5>1
        <5> QED
          BY <4>2, <5>1, <5>2
      <4>3. CASE i # 0 /\ i # k
        <5>1. i \in 0..k - 1 /\ i - 1 \in 0..k /\ i - 1 # k
          BY <3>1, <4>3
        <5>2. g[i] = Follow(h, g[i - 1])
          BY <3>3, <4>3, <5>1
        <5>3. f[i - 1] = g[i - 1] /\ f[i] = g[i]
          BY <4>3, <5>1
        <5> QED
          BY <4>3, <5>2, <5>3
      <4> QED
        BY <4>1, <4>2, <4>3
    <3>5. WalkTo(h, n, f, k)
      BY <3>4 DEF WalkTo
    <3> HIDE DEF f
    <3> QED
      BY <2>2, <3>5
  <2> QED
    BY <2>3, <2>4
<1> QED
  BY <1>1, <1>2

(* So Walk is one: it starts at n and follows the links.                    *)
LEMMA WalkIs ==
  ASSUME NEW h, NEW n
  PROVE  /\ Cardinality(Node) \in Nat /\ DOMAIN Walk(h, n) = 0..Cardinality(Node)
         /\ Walk(h, n)[0] = n
         /\ \A i \in 1..Cardinality(Node) : Walk(h, n)[i] = Follow(h, Walk(h, n)[i - 1])
<1> DEFINE m == Cardinality(Node)
           w == Walk(h, n)
<1>1. m \in Nat
  BY NodesFinite, FS_CardinalityType
<1>2. w = CHOOSE g : g = [i \in 0..m |-> IF i = 0 THEN n ELSE Follow(h, g[i - 1])]
  BY Zenon DEF Walk
<1>3. \E g : g = [i \in 0..m |-> IF i = 0 THEN n ELSE Follow(h, g[i - 1])]
  <2>1. \E g : WalkTo(h, n, g, m)
    BY <1>1, WalksExist
  <2> HIDE DEF m
  <2> QED
    BY <2>1, Zenon DEF WalkTo
<1>4. w = [i \in 0..m |-> IF i = 0 THEN n ELSE Follow(h, w[i - 1])]
  <2> HIDE DEF m, w
  <2> QED
    BY <1>2, <1>3, Zenon
<1> HIDE DEF m, w
<1>5. DOMAIN w = 0..m /\ w[0] = n
  BY <1>1, <1>4
<1>6. \A i \in 1..m : w[i] = Follow(h, w[i - 1])
  <2> SUFFICES ASSUME NEW i \in 1..m PROVE w[i] = Follow(h, w[i - 1])
    OBVIOUS
  <2>1. i \in 0..m /\ i # 0
    BY <1>1
  <2> QED
    BY <1>4, <2>1
<1> QED
  BY <1>1, <1>5, <1>6 DEF m, w

-----------------------------------------------------------------------------
(* The nodes that are linked from a on are what Chain finds there.          *)
LEMMA ChainIs ==
  ASSUME NEW h, NEW a, NEW s, Links(h.next, a, s)
  PROVE  Chain(h, a) = s
<1> DEFINE m == Cardinality(Node)
           w == Walk(h, a)
           n == Len(s)
<1>1. /\ s \in Seq(Node) /\ \A i, j \in 1..n : s[i] = s[j] => i = j
      /\ a = IF n = 0 THEN NULL ELSE s[1]
      /\ \A i \in 1..n : h.next[s[i]] = IF i = n THEN NULL ELSE s[i + 1]
  BY DEF Links
<1>2. n \in Nat /\ \A i \in 1..n : s[i] \in Node /\ s[i] # NULL
  BY <1>1, NodeFacts
<1>3. n <= m
  <2> DEFINE T == {x \in Node : \E i \in 1..n : s[i] = x}
  <2>1. \A x : x \in T <=> \E i \in 1..n : s[i] = x
    BY <1>2
  <2>2. IsFiniteSet(T) /\ Cardinality(T) = n
    <3> HIDE DEF T
    <3> QED
      BY <1>1, <2>1, InjectiveLength
  <2>3. T \in SUBSET Node
    OBVIOUS
  <2> HIDE DEF T
  <2>4. Cardinality(T) <= Cardinality(Node)
    BY <2>3, NodesFinite, FS_Subset
  <2> QED
    BY <2>2, <2>4
<1>4. m \in Nat /\ DOMAIN w = 0..m /\ w[0] = a /\ \A i \in 1..m : w[i] = Follow(h, w[i - 1])
  BY WalkIs
<1> HIDE DEF m, w, n
<1>5. \A i \in 0..n - 1 : w[i] = s[i + 1]
  <2> DEFINE T == {i \in Nat : i < n /\ w[i] # s[i + 1]}
  <2>1. SUFFICES ASSUME T # {} PROVE FALSE
    BY <1>2
  <2>2. T \subseteq Nat
    OBVIOUS
  <2>3. PICK k \in T : \A j \in T : k <= j
    BY <2>1, <2>2, Least
  <2>4. k \in Nat /\ k < n /\ w[k] # s[k + 1]
    BY <2>3
  <2>5. k # 0
    BY <1>1, <1>2, <1>4, <2>4
  <2>6. k - 1 \in Nat /\ k - 1 \notin T /\ k \in 1..m /\ k \in 1..n /\ k # n
    BY <1>2, <1>3, <1>4, <2>3, <2>4, <2>5
  <2>7. w[k - 1] = s[k]
    BY <1>2, <2>4, <2>6
  <2>8. w[k] = h.next[s[k]]
    BY <1>2, <1>4, <2>6, <2>7 DEF Follow
  <2> QED
    BY <1>1, <2>4, <2>6, <2>8
<1>6. w[n] = NULL
  <2>1. CASE n = 0
    BY <1>1, <1>4, <2>1
  <2>2. CASE n # 0
    <3>1. n \in 1..n /\ n \in 1..m /\ n - 1 \in 0..n - 1 /\ (n - 1) + 1 = n
      BY <1>2, <1>3, <1>4, <2>2
    <3>2. w[n - 1] = s[n]
      BY <1>5, <3>1
    <3>3. w[n] = h.next[s[n]]
      BY <1>2, <1>4, <3>1, <3>2 DEF Follow
    <3> QED
      BY <1>1, <3>1, <3>3
  <2> QED
    BY <2>1, <2>2
<1>7. \A i \in n..m : w[i] = NULL
  <2> DEFINE T == {i \in Nat : n <= i /\ i <= m /\ w[i] # NULL}
  <2>1. SUFFICES ASSUME T # {} PROVE FALSE
    BY <1>2, <1>4
  <2>2. T \subseteq Nat
    OBVIOUS
  <2>3. PICK k \in T : \A j \in T : k <= j
    BY <2>1, <2>2, Least
  <2>4. k \in Nat /\ n <= k /\ k <= m /\ w[k] # NULL
    BY <2>3
  <2>5. k # n
    BY <1>6, <2>4
  <2>6. k - 1 \in Nat /\ k - 1 \notin T /\ k \in 1..m /\ n <= k - 1 /\ k - 1 <= m
    BY <1>2, <1>4, <2>3, <2>4, <2>5
  <2>7. w[k - 1] = NULL
    BY <2>6
  <2> QED
    BY <1>4, <2>4, <2>6, <2>7 DEF Follow
<1>8. Cardinality({j \in DOMAIN w : w[j] # NULL}) = n
  <2>1. \A j \in 0..m : w[j] # NULL <=> j \in 0..n - 1
    <3>1. ASSUME NEW j \in 0..n - 1 PROVE w[j] # NULL
      <4>1. j + 1 \in 1..n
        BY <1>2
      <4> QED
        BY <1>2, <1>5, <4>1
    <3>2. ASSUME NEW j \in 0..m, j \notin 0..n - 1 PROVE w[j] = NULL
      <4>1. j \in n..m
        BY <1>2, <1>4, <3>2
      <4> QED
        BY <1>7, <4>1
    <3> QED
      BY <3>1, <3>2
  <2>2. 0..n - 1 \subseteq 0..m
    BY <1>2, <1>3, <1>4
  <2>3. {j \in DOMAIN w : w[j] # NULL} = 0..n - 1
    BY <1>4, <2>1, <2>2
  <2>4. Cardinality(0..n - 1) = n
    BY <1>2, FS_Interval
  <2> QED
    BY <2>3, <2>4
<1>9. Chain(h, a) = [i \in 1..n |-> w[i - 1]]
  BY <1>8, Zenon DEF Chain, w
<1>10. \A i \in 1..n : w[i - 1] = s[i]
  <2> SUFFICES ASSUME NEW i \in 1..n PROVE w[i - 1] = s[i]
    OBVIOUS
  <2>1. i - 1 \in 0..n - 1 /\ (i - 1) + 1 = i
    BY <1>2
  <2> QED
    BY <1>5, <2>1
<1>11. s = [i \in 1..n |-> s[i]]
  BY <1>1 DEF n
<1> QED
  BY <1>9, <1>10, <1>11

(* Lists whose nodes are not written stay.                                  *)
LEMMA LinksKept ==
  ASSUME NEW next, NEW a, NEW s, Links(next, a, s),
         NEW g, \A n \in Node : Contains(s, n) => g[n] = next[n]
  PROVE  Links(g, a, s)
<1>1. s \in Seq(Node) /\ \A i \in 1..Len(s) : s[i] \in Node /\ Contains(s, s[i])
  BY DEF Links, Contains
<1> QED
  BY <1>1 DEF Links

(* The first node leaves.                                                   *)
LEMMA LinksTail ==
  ASSUME NEW next, NEW a, NEW s, Links(next, a, s), a # NULL
  PROVE  /\ Len(s) > 0 /\ a = s[1] /\ a \in Node /\ Contains(s, a) /\ ~Contains(Tail(s), a)
         /\ next[a] = IF Len(s) = 1 THEN NULL ELSE s[2]
         /\ Links(next, next[a], Tail(s))
<1>1. /\ s \in Seq(Node) /\ \A i, j \in 1..Len(s) : s[i] = s[j] => i = j
      /\ a = IF Len(s) = 0 THEN NULL ELSE s[1]
      /\ \A i \in 1..Len(s) : next[s[i]] = IF i = Len(s) THEN NULL ELSE s[i + 1]
      /\ Len(s) \in Nat
  BY DEF Links
<1>2. Len(s) > 0 /\ a = s[1] /\ 1 \in 1..Len(s) /\ a \in Node
  BY <1>1
<1>3. next[a] = IF Len(s) = 1 THEN NULL ELSE s[2]
  <2>1. next[s[1]] = IF 1 = Len(s) THEN NULL ELSE s[1 + 1]
    BY <1>1, <1>2
  <2> QED
    BY <1>2, <2>1
<1>4. PICK t : t = Tail(s)
  OBVIOUS
<1>5. t \in Seq(Node) /\ Len(t) = Len(s) - 1 /\ \A i \in 1..Len(t) : t[i] = s[i + 1]
  BY <1>1, <1>2, <1>4, TailElements
<1>6. \A i \in 1..Len(t) : i + 1 \in 1..Len(s) /\ i + 1 # 1
  BY <1>1, <1>5
<1>7. \A i, j \in 1..Len(t) : t[i] = t[j] => i = j
  <2> SUFFICES ASSUME NEW i \in 1..Len(t), NEW j \in 1..Len(t), t[i] = t[j] PROVE i + 1 = j + 1
    BY <1>5
  <2> QED
    BY <1>1, <1>5, <1>6
<1>8. next[a] = IF Len(t) = 0 THEN NULL ELSE t[1]
  BY <1>1, <1>2, <1>3, <1>5
<1>9. ASSUME NEW i \in 1..Len(t) PROVE next[t[i]] = IF i = Len(t) THEN NULL ELSE t[i + 1]
  <2>1. t[i] = s[i + 1] /\ i + 1 \in 1..Len(s)
    BY <1>5, <1>6
  <2>2. next[t[i]] = IF i + 1 = Len(s) THEN NULL ELSE s[(i + 1) + 1]
    BY <1>1, <2>1
  <2>3. i # Len(t) => i + 1 \in 1..Len(t)
    BY <1>1, <1>5
  <2> QED
    BY <1>1, <1>5, <2>2, <2>3
<1>10. Links(next, next[a], t)
  BY <1>5, <1>7, <1>8, <1>9 DEF Links
<1>11. Contains(s, a) /\ ~Contains(t, a)
  BY <1>1, <1>2, <1>5, <1>6 DEF Contains
<1> QED
  BY <1>2, <1>3, <1>4, <1>10, <1>11

(* A node is put in front,                                                  *)
LEMMA LinksFront ==
  ASSUME NEW next \in [Node -> Place], NEW a, NEW s, Links(next, a, s),
         NEW n \in Node, ~Contains(s, n), NEW g, g = [next EXCEPT ![n] = a]
  PROVE  Links(g, n, InsertAt(s, 1, n))
<1>0. s \in Seq(Node)
  BY DEF Links
<1>1. /\ s \in Seq(Node) /\ \A i, j \in 1..Len(s) : s[i] = s[j] => i = j
      /\ a = IF Len(s) = 0 THEN NULL ELSE s[1]
      /\ \A i \in 1..Len(s) : next[s[i]] = IF i = Len(s) THEN NULL ELSE s[i + 1]
      /\ Len(s) \in Nat
  BY DEF Links
<1>2. \A i \in 1..Len(s) : s[i] \in Node /\ s[i] # n
  BY <1>1 DEF Contains
<1>3. PICK r : r = InsertAt(s, 0 + 1, n)
  OBVIOUS
<1>4. 0 \in 0..Len(s)
  BY <1>1
<1>5. /\ r \in Seq(Node) /\ Len(r) = Len(s) + 1 /\ r[0 + 1] = n
      /\ \A i \in (0 + 1)..Len(s) : r[i + 1] = s[i]
  <2>1. Inserted(Node, r, s, 0, n)
    BY <1>0, <1>3, <1>4, InsertAtElements
  <2> QED
    BY <2>1, Zenon DEF Inserted
<1>6. \A i \in 1..Len(s) : r[i + 1] = s[i]
  BY <1>5
<1>7. r[1] = n
  BY <1>5
<1>8. \A i \in 1..Len(r) : i = 1 \/ (i - 1 \in 1..Len(s) /\ r[i] = s[i - 1] /\ r[i] # n)
  <2> SUFFICES ASSUME NEW i \in 1..Len(r), i # 1 PROVE i - 1 \in 1..Len(s) /\ r[i] = s[i - 1] /\ r[i] # n
    OBVIOUS
  <2>1. i - 1 \in 1..Len(s) /\ (i - 1) + 1 = i
    BY <1>1, <1>5
  <2> QED
    BY <1>2, <1>6, <2>1
<1>9. \A i, j \in 1..Len(r) : r[i] = r[j] => i = j
  <2> SUFFICES ASSUME NEW i \in 1..Len(r), NEW j \in 1..Len(r), r[i] = r[j] PROVE i = j
    OBVIOUS
  <2>1. CASE i = 1 \/ j = 1
    BY <1>7, <1>8, <2>1
  <2>2. CASE i # 1 /\ j # 1
    <3>1. i - 1 = j - 1
      BY <1>1, <1>8, <2>2
    <3> QED
      BY <1>5, <3>1
  <2> QED
    BY <2>1, <2>2
<1>10. ASSUME NEW i \in 1..Len(r) PROVE g[r[i]] = IF i = Len(r) THEN NULL ELSE r[i + 1]
  <2>1. CASE i = 1
    <3>1. g[r[i]] = a
      BY <1>7, <2>1
    <3>2. Len(s) # 0 => 1 \in 1..Len(s) /\ r[1 + 1] = s[1]
      BY <1>1, <1>6
    <3> QED
      BY <1>1, <1>5, <2>1, <3>1, <3>2
  <2>2. CASE i # 1
    <3>1. i - 1 \in 1..Len(s) /\ r[i] = s[i - 1] /\ r[i] # n /\ r[i] \in Node
      BY <1>2, <1>8, <2>2
    <3>2. g[r[i]] = next[s[i - 1]]
      BY <3>1
    <3>3. next[s[i - 1]] = IF i - 1 = Len(s) THEN NULL ELSE s[(i - 1) + 1]
      BY <1>1, <3>1
    <3>4. i # Len(r) => i \in 1..Len(s) /\ r[i + 1] = s[i]
      BY <1>1, <1>5, <1>6, <2>2
    <3> QED
      BY <1>1, <1>5, <3>2, <3>3, <3>4
  <2> QED
    BY <2>1, <2>2
<1>11. n = IF Len(r) = 0 THEN NULL ELSE r[1]
  BY <1>1, <1>5, <1>7
<1>12. Links(g, n, r)
  BY <1>5, <1>9, <1>10, <1>11 DEF Links
<1> QED
  BY <1>3, <1>12

(* or behind another.                                                       *)
LEMMA LinksBehind ==
  ASSUME NEW next \in [Node -> Place], NEW a, NEW s, Links(next, a, s),
         NEW n \in Node, ~Contains(s, n), NEW k \in 1..Len(s),
         NEW g, g = [next EXCEPT ![n] = next[s[k]], ![s[k]] = n]
  PROVE  Links(g, a, InsertAt(s, k + 1, n))
<1>0. s \in Seq(Node)
  BY DEF Links
<1>1. /\ s \in Seq(Node) /\ \A i, j \in 1..Len(s) : s[i] = s[j] => i = j
      /\ a = IF Len(s) = 0 THEN NULL ELSE s[1]
      /\ \A i \in 1..Len(s) : next[s[i]] = IF i = Len(s) THEN NULL ELSE s[i + 1]
      /\ Len(s) \in Nat
  BY DEF Links
<1>2. \A i \in 1..Len(s) : s[i] \in Node /\ s[i] # n
  BY <1>1 DEF Contains
<1>3. PICK r : r = InsertAt(s, k + 1, n)
  OBVIOUS
<1>4. k \in 0..Len(s) /\ k \in Nat
  BY <1>1
<1>in. Inserted(Node, r, s, k, n)
  BY <1>0, <1>3, <1>4, InsertAtElements
<1>5. r \in Seq(Node) /\ Len(r) = Len(s) + 1
  BY <1>in, Zenon DEF Inserted
<1>6. \A i \in (k + 1)..Len(s) : r[i + 1] = s[i]
  BY <1>in, Zenon DEF Inserted
<1>7. r[k + 1] = n
  BY <1>in, Zenon DEF Inserted
<1>8. \A i \in 1..k : r[i] = s[i] /\ i \in 1..Len(s)
  <2>1. \A i \in 1..k : r[i] = s[i]
    BY <1>in, Zenon DEF Inserted
  <2> QED
    BY <1>1, <1>4, <2>1
<1> DEFINE From(i) == IF i <= k THEN i ELSE i - 1
<1>9. \A i \in 1..Len(r) : i = k + 1 \/ (From(i) \in 1..Len(s) /\ r[i] = s[From(i)] /\ r[i] # n)
  <2> SUFFICES ASSUME NEW i \in 1..Len(r), i # k + 1 PROVE From(i) \in 1..Len(s) /\ r[i] = s[From(i)] /\ r[i] # n
    OBVIOUS
  <2>1. CASE i <= k
    <3>1. i \in 1..k
      BY <1>4, <2>1
    <3> QED
      BY <1>2, <1>8, <2>1, <3>1
  <2>2. CASE ~(i <= k)
    <3>1. i - 1 \in (k + 1)..Len(s) /\ (i - 1) + 1 = i /\ i - 1 \in 1..Len(s)
      BY <1>1, <1>4, <1>5, <2>2
    <3> QED
      BY <1>2, <1>6, <2>2, <3>1
  <2> QED
    BY <2>1, <2>2
<1>10. \A i, j \in 1..Len(r) : r[i] = r[j] => i = j
  <2> SUFFICES ASSUME NEW i \in 1..Len(r), NEW j \in 1..Len(r), r[i] = r[j] PROVE i = j
    OBVIOUS
  <2>1. CASE i = k + 1 \/ j = k + 1
    BY <1>7, <1>9, <2>1
  <2>2. CASE i # k + 1 /\ j # k + 1
    <3>1. From(i) = From(j)
      BY <1>1, <1>9, <2>2
    <3> QED
      BY <1>4, <1>5, <2>2, <3>1
  <2> QED
    BY <2>1, <2>2
<1>11. /\ g[n] = next[s[k]] /\ g[s[k]] = n
       /\ \A i \in 1..Len(s) : i # k => g[s[i]] = next[s[i]]
  BY <1>1, <1>2
<1>12. ASSUME NEW i \in 1..Len(r) PROVE g[r[i]] = IF i = Len(r) THEN NULL ELSE r[i + 1]
  <2>1. CASE i = k + 1
    <3>1. g[r[i]] = IF k = Len(s) THEN NULL ELSE s[k + 1]
      BY <1>1, <1>7, <1>11, <2>1
    <3>2. k # Len(s) => k + 1 \in (k + 1)..Len(s) /\ r[(k + 1) + 1] = s[k + 1]
      BY <1>1, <1>4, <1>6
    <3> QED
      BY <1>1, <1>5, <2>1, <3>1, <3>2
  <2>2. CASE i = k
    <3>0. k \in 1..k
      BY <1>4
    <3>1. g[r[i]] = n
      BY <1>8, <1>11, <2>2, <3>0
    <3> QED
      BY <1>5, <1>7, <2>2, <3>1
  <2>3. CASE i # k /\ i # k + 1
    <3>1. From(i) \in 1..Len(s) /\ r[i] = s[From(i)] /\ From(i) # k
      BY <1>4, <1>9, <2>3
    <3>2. g[r[i]] = IF From(i) = Len(s) THEN NULL ELSE s[From(i) + 1]
      BY <1>1, <1>11, <3>1
    <3>3. i = Len(r) <=> From(i) = Len(s)
      BY <1>1, <1>4, <1>5, <2>3
    <3>4. i # Len(r) => i + 1 \in 1..Len(r) /\ i + 1 # k + 1 /\ From(i + 1) = From(i) + 1
      BY <1>1, <1>4, <1>5, <2>3
    <3>5. i # Len(r) => r[i + 1] = s[From(i) + 1]
      BY <1>9, <3>4
    <3> QED
      BY <3>2, <3>3, <3>5
  <2> QED
    BY <2>1, <2>2, <2>3
<1>13. a = IF Len(r) = 0 THEN NULL ELSE r[1]
  <2>1. 1 \in 1..k
    BY <1>4
  <2> QED
    BY <1>1, <1>5, <1>8, <2>1
<1>14. Links(g, a, r)
  BY <1>5, <1>10, <1>12, <1>13 DEF Links
<1> QED
  BY <1>3, <1>14

-----------------------------------------------------------------------------
(* The fields of a heap.                                                    *)
LEMMA HeapFields ==
  ASSUME NEW h \in Heaps
  PROVE  /\ h.next \in [Node -> Place] /\ h.prio \in [Node -> Int] /\ h.value \in [Node -> Values]
         /\ h.live \subseteq Blocks /\ h.used \in [Blocks -> Int] /\ h.capacity \in Int
         /\ h.first \in Place /\ h.last \in Place /\ h.ffirst \in Place /\ h.flast \in Place
         /\ h.fault \in BOOLEAN
BY DEF Heaps

(* A node that is somewhere is not in a dead block.                         *)
LEMMA AliveNodes ==
  ASSUME NEW h, NEW n \in Node, Usable(h, n)
  PROVE  ~Dead(h, n)
BY NodeFacts DEF Usable, Dead, InBlock

(* An empty list and one that is not.                                       *)
LEMMA Emptiness ==
  ASSUME NEW next, NEW a, NEW s, Links(next, a, s)
  PROVE  /\ Len(s) \in Nat /\ s \in Seq(Node)
         /\ a = NULL <=> Len(s) = 0
         /\ a # NULL => a \in Node /\ Contains(s, a)
<1>1. s \in Seq(Node) /\ Len(s) \in Nat /\ a = IF Len(s) = 0 THEN NULL ELSE s[1]
  BY DEF Links
<1>2. CASE Len(s) = 0
  BY <1>1, <1>2
<1>3. CASE Len(s) # 0
  <2>1. 1 \in 1..Len(s) /\ s[1] \in Node
    BY <1>1, <1>3
  <2> QED
    BY <1>1, <1>3, <2>1, NodeFacts DEF Contains
<1> QED
  BY <1>2, <1>3

(* popNode.                                                                 *)
LEMMA PopFields ==
  ASSUME NEW h \in Heaps, ~h.fault, h.first \in Node, ~Dead(h, h.first), NEW g, g = PopNode(h)
  PROVE  /\ g \in Heaps /\ ~g.fault /\ g.first = h.next[h.first]
         /\ g.last = (IF h.first = h.last THEN NULL ELSE h.last)
         /\ g.next = h.next /\ g.prio = h.prio /\ g.value = h.value /\ g.live = h.live
         /\ g.used = h.used /\ g.capacity = h.capacity /\ g.ffirst = h.ffirst /\ g.flast = h.flast
<1>1. h.next[h.first] \in Place /\ NULL \in Place
  BY HeapFields DEF Place
<1> QED
  BY <1>1 DEF Heaps, PopNode

(* popNode: the first node of the queue is in the hands of a thread, with   *)
(* its value, and the queue goes on behind it.                              *)
LEMMA HeapPop ==
  ASSUME NEW h, NEW qs, NEW fs, NEW filling, NEW freeing, NEW pop, HeapInv(h, qs, fs, filling, freeing, pop),
         h.first # NULL, NEW g, g = PopNode(h)
  PROVE  /\ Len(qs) > 0 /\ h.first = qs[1] /\ h.first \in Node
         /\ HeapInv(g, Tail(qs), fs, filling, freeing \cup {h.first}, TRUE)
         /\ g.prio = h.prio /\ g.value = h.value
<1> DEFINE n == h.first
           hands == filling \cup freeing
           later == filling \cup (freeing \cup {n})
<1>0. Lists(h, qs, fs) /\ Places(h, qs, fs, filling, freeing) /\ FreeList(h, qs, fs, hands, pop)
  BY DEF HeapInv
<1>1. h \in Heaps /\ ~h.fault /\ Links(h.next, h.first, qs) /\ Links(h.next, h.ffirst, fs)
  BY <1>0 DEF Lists
<1>2. /\ Len(qs) > 0 /\ n = qs[1] /\ n \in Node /\ Contains(qs, n) /\ ~Contains(Tail(qs), n)
      /\ h.next[n] = (IF Len(qs) = 1 THEN NULL ELSE qs[2])
      /\ Links(h.next, h.next[n], Tail(qs))
  BY <1>1, LinksTail
<1>3. Usable(h, n)
  BY <1>0, <1>2 DEF Places
<1>4. /\ g \in Heaps /\ ~g.fault /\ g.first = h.next[h.first]
      /\ g.last = (IF h.first = h.last THEN NULL ELSE h.last)
      /\ g.next = h.next /\ g.prio = h.prio /\ g.value = h.value /\ g.live = h.live
      /\ g.used = h.used /\ g.capacity = h.capacity /\ g.ffirst = h.ffirst /\ g.flast = h.flast
  BY <1>1, <1>2, <1>3, AliveNodes, PopFields
<1>5. PICK t : t = Tail(qs)
  OBVIOUS
<1>6. qs \in Seq(Node) /\ Len(qs) \in Nat
  BY <1>1, Emptiness
<1>7. t \in Seq(Node) /\ Len(t) = Len(qs) - 1 /\ \A i \in 1..Len(t) : t[i] = qs[i + 1] /\ i + 1 \in 1..Len(qs)
  BY <1>2, <1>5, <1>6, TailElements
<1>8. \A x : Contains(qs, x) <=> Contains(t, x) \/ x = n
  BY <1>2, <1>5, <1>6, TailElements
<1>9. Lists(g, t, fs)
  <2>1. g.last = IF Len(t) = 0 THEN NULL ELSE t[Len(t)]
    <3>1. h.last = qs[Len(qs)] /\ \A i, j \in 1..Len(qs) : qs[i] = qs[j] => i = j
      BY <1>0, <1>1, <1>2 DEF Lists, Links
    <3>2. n = h.last <=> Len(qs) = 1
      <4>1. 1 \in 1..Len(qs) /\ Len(qs) \in 1..Len(qs)
        BY <1>2, <1>6
      <4> QED
        BY <1>2, <3>1, <4>1
    <3>3. Len(t) # 0 => t[Len(t)] = qs[Len(qs)]
      <4>1. Len(t) # 0 => Len(t) \in 1..Len(t) /\ Len(t) + 1 = Len(qs)
        BY <1>6, <1>7
      <4> QED
        BY <1>7, <4>1
    <3> QED
      BY <1>4, <1>6, <1>7, <3>1, <3>2, <3>3
  <2>2. \A i, j \in 1..Len(t) : i < j => g.prio[t[i]] <= g.prio[t[j]]
    <3> SUFFICES ASSUME NEW i \in 1..Len(t), NEW j \in 1..Len(t), i < j PROVE g.prio[t[i]] <= g.prio[t[j]]
      OBVIOUS
    <3>1. i + 1 < j + 1 /\ t[i] = qs[i + 1] /\ t[j] = qs[j + 1] /\ i + 1 \in 1..Len(qs) /\ j + 1 \in 1..Len(qs)
      BY <1>7
    <3> QED
      BY <1>0, <1>4, <3>1 DEF Lists
  <2> QED
    BY <1>1, <1>2, <1>4, <1>5, <2>1, <2>2 DEF Lists
<1>10. later = hands \cup {n} /\ n \notin hands /\ IsFiniteSet(freeing \cup {n}) /\ IsFiniteSet(hands)
  <2>1. n \notin hands /\ IsFiniteSet(freeing) /\ IsFiniteSet(filling)
    BY <1>0, <1>2 DEF Places
  <2> QED
    BY <2>1, FS_AddElement, FS_Union
<1>11. Places(g, t, fs, filling, freeing \cup {n})
  <2>1. freeing \cup {n} \subseteq Node /\ filling \cap (freeing \cup {n}) = {} /\ filling \subseteq Node /\ IsFiniteSet(filling)
    BY <1>0, <1>2, <1>10 DEF Places
  <2>2. \A x \in Node : Usable(g, x) <=> Contains(t, x) \/ Contains(fs, x) \/ x \in later
    BY <1>0, <1>4, <1>8, <1>10 DEF Places, Usable
  <2>3. \A x \in Node : ~(Contains(t, x) /\ Contains(fs, x))
    BY <1>0, <1>8 DEF Places
  <2>4. \A x \in later : ~Contains(t, x) /\ ~Contains(fs, x)
    BY <1>0, <1>2, <1>5, <1>8, <1>10 DEF Places
  <2>5. \A x \in Node : g.value[x] # NoValue <=> Contains(t, x) \/ x \in freeing \cup {n}
    BY <1>0, <1>4, <1>8 DEF Places
  <2> QED
    BY <1>10, <2>1, <2>2, <2>3, <2>4, <2>5 DEF Places
<1>12. FreeList(g, t, fs, later, TRUE)
  <2>1. Cardinality(later) = Cardinality(hands) + 1 /\ Cardinality(hands) \in Nat
    BY <1>10, OneMore
  <2>2. \A b : InUse(b, t, later) = InUse(b, qs, hands)
    BY <1>8, <1>10 DEF InUse
  <2>3. Len(fs) + Len(t) + Cardinality(later) = g.capacity
    <3>1. Len(fs) \in Nat
      BY <1>1, Emptiness
    <3> QED
      BY <1>0, <1>4, <1>6, <1>7, <2>1, <3>1 DEF FreeList
  <2>4. g.capacity = PreallocatedNodes + StorageNodes * Cardinality(g.live)
    BY <1>0, <1>4, Zenon DEF FreeList
  <2>5. /\ \A b, c \in g.live : b = c
        /\ \A b \in g.live :
             /\ g.used[b] = Cardinality(InUse(b, t, later)) /\ g.used[b] > 0
             /\ Len(fs) >= 2
             /\ \A i, j \in 1..Len(fs) : i < j /\ fs[j] \in Preallocated => fs[i] \in Preallocated
        /\ ~TRUE \/ g.live # {} => g.flast = End(fs)
    <3> HIDE DEF hands, later, n
    <3>1. \A b, c \in g.live : b = c
      BY <1>0, <1>4 DEF FreeList
    <3>2. \A b \in g.live :
             /\ g.used[b] = Cardinality(InUse(b, t, later)) /\ g.used[b] > 0
             /\ Len(fs) >= 2
             /\ \A i, j \in 1..Len(fs) : i < j /\ fs[j] \in Preallocated => fs[i] \in Preallocated
      BY <1>0, <1>4, <2>2, Zenon DEF FreeList
    <3>3. g.live # {} => g.flast = End(fs)
      BY <1>0, <1>4 DEF FreeList
    <3> QED
      BY <3>1, <3>2, <3>3, Zenon
  <2> QED
    BY <2>3, <2>4, <2>5, Zenon DEF FreeList
<1> QED
  BY <1>2, <1>4, <1>5, <1>9, <1>11, <1>12 DEF HeapInv

-----------------------------------------------------------------------------
(* One block and what is in use of it.                                      *)
LEMMA OneBlock ==
  ASSUME NEW live, \A b, c \in live : b = c, NEW b \in live
  PROVE  live = {b} /\ Cardinality(live) = 1
<1>1. live = {b}
  OBVIOUS
<1> QED
  BY <1>1, FS_Singleton

(* The nodes of a block that are in use can be counted.                     *)
LEMMA InUseFinite ==
  ASSUME NEW b \in Blocks, NEW qs, NEW hands
  PROVE  IsFiniteSet(InUse(b, qs, hands)) /\ Cardinality(InUse(b, qs, hands)) \in Nat
<1>1. InUse(b, qs, hands) \in SUBSET BlockNodes(b)
  BY DEF InUse
<1> QED
  BY <1>1, NodesFinite, FS_Subset, FS_CardinalityType

(* One more of its nodes, or one less.                                      *)
LEMMA InUseMore ==
  ASSUME NEW b \in Blocks, NEW n \in Node, NEW qs, NEW hands, NEW q, NEW later,
         \A x \in Node : (Contains(q, x) \/ x \in later) <=> (Contains(qs, x) \/ x \in hands) \/ x = n,
         ~Contains(qs, n), n \notin hands
  PROVE  Cardinality(InUse(b, q, later)) = Cardinality(InUse(b, qs, hands)) + IF n[1] = b THEN 1 ELSE 0
<1> DEFINE S == InUse(b, qs, hands)
           T == InUse(b, q, later)
<1>0. \A x \in BlockNodes(b) : x \in Node
  BY NodeFacts
<1>1. CASE n[1] = b
  <2>1. n \in BlockNodes(b)
    BY <1>1, NodeFacts
  <2>2. T = S \cup {n} /\ n \notin S
    BY <1>0, <2>1 DEF InUse
  <2> HIDE DEF S, T
  <2>3. IsFiniteSet(S)
    BY InUseFinite DEF S
  <2>4. Cardinality(T) = Cardinality(S) + 1
    BY <2>2, <2>3, OneMore
  <2> QED
    BY <1>1, <2>4 DEF S, T
<1>2. CASE n[1] # b
  <2>1. n \notin BlockNodes(b)
    BY <1>2, NodeFacts
  <2>2. T = S
    BY <1>0, <2>1 DEF InUse
  <2>3. Cardinality(S) \in Nat
    BY InUseFinite
  <2> HIDE DEF S, T
  <2>4. Cardinality(T) = Cardinality(S) + 0
    BY <2>2, <2>3
  <2> QED
    BY <1>2, <2>4 DEF S, T
<1> QED
  BY <1>1, <1>2

(* allocateNode from the free list.                                         *)
LEMMA TakeFields ==
  ASSUME NEW h \in Heaps, ~h.fault, h.ffirst \in Node, ~Dead(h, h.ffirst), NEW g, g = TakeFree(h)
  PROVE  /\ g \in Heaps /\ ~g.fault /\ g.ffirst = h.next[h.ffirst]
         /\ g.flast = (IF h.next[h.ffirst] = h.flast THEN NULL ELSE h.flast)
         /\ g.next = h.next /\ g.prio = h.prio /\ g.value = h.value /\ g.live = h.live
         /\ g.used = [b \in Blocks |-> h.used[b] + IF h.ffirst[1] = b THEN 1 ELSE 0]
         /\ g.capacity = h.capacity /\ g.first = h.first /\ g.last = h.last
<1>1. h.next[h.ffirst] \in Place /\ NULL \in Place
  BY HeapFields DEF Place
<1>2. [b \in Blocks |-> h.used[b] + IF h.ffirst[1] = b THEN 1 ELSE 0] \in [Blocks -> Int]
  BY HeapFields
<1> QED
  BY <1>1, <1>2 DEF Heaps, TakeFree

(* allocateNode: the first node of the free list is in the hands of a       *)
(* thread. As long as two free nodes stay, the end of the list is known.    *)
LEMMA HeapTake ==
  ASSUME OneBurst, NEW h, NEW qs, NEW fs, NEW filling, NEW freeing, NEW pop,
         HeapInv(h, qs, fs, filling, freeing, pop),
         h.ffirst # NULL, Len(qs) + Cardinality(filling \cup freeing) < MaxPending,
         NEW g, g = TakeFree(h)
  PROVE  /\ h.ffirst \in Node /\ h.ffirst \notin filling \cup freeing
         /\ HeapInv(g, qs, Tail(fs), filling \cup {h.ffirst}, freeing, pop)
         /\ g.prio = h.prio /\ g.value = h.value
<1> DEFINE n == h.ffirst
           hands == filling \cup freeing
           later == (filling \cup {n}) \cup freeing
<1>0. /\ Lists(h, qs, fs) /\ Places(h, qs, fs, filling, freeing) /\ FreeList(h, qs, fs, hands, pop)
      /\ Len(qs) + Cardinality(hands) < MaxPending
  BY DEF HeapInv
<1>1. h \in Heaps /\ ~h.fault /\ Links(h.next, h.first, qs) /\ Links(h.next, h.ffirst, fs)
  BY <1>0 DEF Lists
<1>2. /\ Len(fs) > 0 /\ n = fs[1] /\ n \in Node /\ Contains(fs, n) /\ ~Contains(Tail(fs), n)
      /\ h.next[n] = (IF Len(fs) = 1 THEN NULL ELSE fs[2])
      /\ Links(h.next, h.next[n], Tail(fs))
  BY <1>1, LinksTail
<1>3. Usable(h, n)
  BY <1>0, <1>2 DEF Places
<1>4. /\ g \in Heaps /\ ~g.fault /\ g.ffirst = h.next[h.ffirst]
      /\ g.flast = (IF h.next[h.ffirst] = h.flast THEN NULL ELSE h.flast)
      /\ g.next = h.next /\ g.prio = h.prio /\ g.value = h.value /\ g.live = h.live
      /\ g.used = [b \in Blocks |-> h.used[b] + IF h.ffirst[1] = b THEN 1 ELSE 0]
      /\ g.capacity = h.capacity /\ g.first = h.first /\ g.last = h.last
  BY <1>1, <1>2, <1>3, AliveNodes, TakeFields
<1>5. PICK t : t = Tail(fs)
  OBVIOUS
<1>6. fs \in Seq(Node) /\ Len(fs) \in Nat /\ Len(qs) \in Nat
  BY <1>1, Emptiness
<1>7. t \in Seq(Node) /\ Len(t) = Len(fs) - 1 /\ \A i \in 1..Len(t) : t[i] = fs[i + 1] /\ i + 1 \in 1..Len(fs)
  BY <1>2, <1>5, <1>6, TailElements
<1>8. \A x : Contains(fs, x) <=> Contains(t, x) \/ x = n
  BY <1>2, <1>5, <1>6, TailElements
<1>9. Lists(g, qs, t)
  BY <1>0, <1>1, <1>2, <1>4, <1>5 DEF Lists
<1>10. later = hands \cup {n} /\ n \notin hands /\ IsFiniteSet(filling \cup {n}) /\ IsFiniteSet(hands)
  <2>1. n \notin hands /\ IsFiniteSet(freeing) /\ IsFiniteSet(filling)
    BY <1>0, <1>2 DEF Places
  <2> QED
    BY <2>1, FS_AddElement, FS_Union
<1>11. Places(g, qs, t, filling \cup {n}, freeing)
  <2>1. filling \cup {n} \subseteq Node /\ (filling \cup {n}) \cap freeing = {} /\ freeing \subseteq Node /\ IsFiniteSet(freeing)
    BY <1>0, <1>2, <1>10 DEF Places
  <2>2. \A x \in Node : Usable(g, x) <=> Contains(qs, x) \/ Contains(t, x) \/ x \in later
    BY <1>0, <1>4, <1>8, <1>10 DEF Places, Usable
  <2>3. \A x \in Node : ~(Contains(qs, x) /\ Contains(t, x))
    BY <1>0, <1>8 DEF Places
  <2>4. \A x \in later : ~Contains(qs, x) /\ ~Contains(t, x)
    BY <1>0, <1>2, <1>5, <1>8, <1>10 DEF Places
  <2>5. \A x \in Node : g.value[x] # NoValue <=> Contains(qs, x) \/ x \in freeing
    BY <1>0, <1>4 DEF Places
  <2> QED
    BY <1>10, <2>1, <2>2, <2>3, <2>4, <2>5 DEF Places
<1>12. FreeList(g, qs, t, later, pop)
  <2>1. Cardinality(later) = Cardinality(hands) + 1 /\ Cardinality(hands) \in Nat
    BY <1>10, OneMore
  <2>2. ~Contains(qs, n)
    BY <1>0, <1>2 DEF Places
  <2>3. \A b \in Blocks : Cardinality(InUse(b, qs, later)) = Cardinality(InUse(b, qs, hands)) + IF n[1] = b THEN 1 ELSE 0
    BY <1>2, <1>10, <2>2, InUseMore
  <2>4. \A i \in 1..Len(fs) : fs[i] \in Node
    BY <1>6
  <2> HIDE DEF hands, later, n
  <2>5. Len(t) + Len(qs) + Cardinality(later) = g.capacity
    BY <1>0, <1>4, <1>6, <1>7, <2>1 DEF FreeList
  <2>6. g.capacity = PreallocatedNodes + StorageNodes * Cardinality(g.live)
    BY <1>0, <1>4, Zenon DEF FreeList
  <2>7. \A b, c \in g.live : b = c
    BY <1>0, <1>4 DEF FreeList
  <2>8. ASSUME NEW b \in g.live
        PROVE  /\ g.used[b] = Cardinality(InUse(b, qs, later)) /\ g.used[b] > 0
               /\ Len(t) >= 2
               /\ \A i, j \in 1..Len(t) : i < j /\ t[j] \in Preallocated => t[i] \in Preallocated
    <3>1. b \in h.live /\ b \in Blocks
      BY <1>1, <1>4, <2>8, HeapFields
    <3>2. /\ h.used[b] = Cardinality(InUse(b, qs, hands)) /\ h.used[b] > 0
          /\ \A i, j \in 1..Len(fs) : i < j /\ fs[j] \in Preallocated => fs[i] \in Preallocated
      BY <1>0, <3>1 DEF FreeList
    <3>3. h.used[b] \in Int /\ h.used \in [Blocks -> Int] /\ Cardinality(InUse(b, qs, hands)) \in Nat
      BY <1>1, <3>1, HeapFields, InUseFinite
    <3>5. g.used[b] = h.used[b] + IF n[1] = b THEN 1 ELSE 0
      BY <1>4, <3>1, <3>3 DEF n
    <3>6. g.used[b] = Cardinality(InUse(b, qs, later)) /\ g.used[b] > 0
      BY <2>3, <3>1, <3>2, <3>3, <3>5
    <3>7. Len(t) >= 2
      <4>1. Cardinality(h.live) = 1
        BY <1>0, <3>1, OneBlock DEF FreeList
      <4>2. h.capacity = PreallocatedNodes + StorageNodes
        BY <1>0, <4>1, Numbers DEF FreeList
      <4>3. Len(fs) + Len(qs) + Cardinality(hands) = h.capacity
        BY <1>0 DEF FreeList
      <4> QED
        BY <1>0, <1>6, <1>7, <2>1, <4>2, <4>3, Numbers DEF OneBurst
    <3>8. \A i, j \in 1..Len(t) : i < j /\ t[j] \in Preallocated => t[i] \in Preallocated
      <4> SUFFICES ASSUME NEW i \in 1..Len(t), NEW j \in 1..Len(t), i < j, t[j] \in Preallocated PROVE t[i] \in Preallocated
        OBVIOUS
      <4>1. i + 1 < j + 1 /\ i + 1 \in 1..Len(fs) /\ j + 1 \in 1..Len(fs) /\ t[i] = fs[i + 1] /\ t[j] = fs[j + 1]
        BY <1>7
      <4> QED
        BY <3>2, <4>1
    <3> QED
      BY <3>6, <3>7, <3>8
  <2>9. ASSUME ~pop \/ g.live # {} PROVE g.flast = End(t)
    <3>1. h.flast = End(fs)
      BY <1>0, <1>4, <2>9 DEF FreeList
    <3>2. \A i, j \in 1..Len(fs) : fs[i] = fs[j] => i = j
      BY <1>1 DEF Links
    <3>3. g.flast = (IF h.next[n] = h.flast THEN NULL ELSE h.flast)
      BY <1>4 DEF n
    <3>4. CASE Len(fs) = 1
      BY <1>2, <1>6, <1>7, <3>1, <3>3, <3>4 DEF End
    <3>5. CASE Len(fs) = 2
      BY <1>2, <1>6, <1>7, <3>1, <3>3, <3>5 DEF End
    <3>6. CASE Len(fs) > 2
      <4>1. 2 \in 1..Len(fs) /\ Len(fs) \in 1..Len(fs) /\ Len(t) \in 1..Len(t) /\ Len(t) >= 2 /\ Len(t) + 1 = Len(fs)
        BY <1>6, <1>7, <3>6
      <4>2. h.flast = fs[Len(fs)] /\ h.next[n] = fs[2] /\ fs[2] # fs[Len(fs)]
        BY <1>2, <1>6, <3>1, <3>2, <3>6, <4>1 DEF End
      <4>3. t[Len(t)] = fs[Len(fs)]
        BY <1>7, <4>1
      <4> QED
        BY <3>3, <4>1, <4>2, <4>3 DEF End
    <3>7. Len(fs) = 1 \/ Len(fs) = 2 \/ Len(fs) > 2
      <4>1. Len(fs) > 0 /\ Len(fs) \in Nat
        BY <1>2, <1>6, Zenon
      <4>2. \A m \in Nat : m > 0 => m = 1 \/ m = 2 \/ m > 2
        OBVIOUS
      <4> QED
        BY <4>1, <4>2, Zenon
    <3> QED
      BY <3>4, <3>5, <3>6, <3>7, Zenon
  <2> QED
    BY <2>5, <2>6, <2>7, <2>8, <2>9 DEF FreeList
<1> QED
  BY <1>2, <1>4, <1>5, <1>9, <1>10, <1>11, <1>12 DEF HeapInv

-----------------------------------------------------------------------------
(* The nodes of a block, linked in order.                                   *)
LEMMA BlockNode ==
  ASSUME NEW b \in Blocks
  PROVE  /\ \A i \in 1..StorageNodes : <<b, i>> \in Node /\ <<b, i>> \in BlockNodes(b) /\ <<b, i>> \notin Preallocated
         /\ \A x \in Node : x[1] = b => \E i \in 1..StorageNodes : x = <<b, i>>
<1>1. \A i \in 1..StorageNodes : <<b, i>> \in BlockNodes(b) /\ <<b, i>>[1] = b
  BY DEF BlockNodes
<1>2. \A x \in Node : x[1] = b => x \in BlockNodes(b)
  BY NodeFacts
<1> QED
  BY <1>1, <1>2, NodeFacts DEF BlockNodes

(* initNodes: the nodes of a block, linked in order.                        *)
LEMMA BlockLinks ==
  ASSUME NEW h \in Heaps, NEW b \in Blocks, NEW l, l = Linked(h, b, StorageNodes)
  PROVE  /\ l \in [Node -> Place]
         /\ \A x \in Node : x[1] # b => l[x] = h.next[x]
         /\ \A i \in 1..StorageNodes : l[<<b, i>>] = IF i < StorageNodes THEN <<b, i + 1>> ELSE NULL
<1>1. \A x \in Node : l[x] = IF x[1] # b THEN h.next[x]
                             ELSE IF x[2] < StorageNodes THEN <<b, x[2] + 1>> ELSE NULL
  BY DEF Linked
<1>2. ASSUME NEW i \in 1..StorageNodes
      PROVE  l[<<b, i>>] = (IF i < StorageNodes THEN <<b, i + 1>> ELSE NULL) /\ l[<<b, i>>] \in Place
  <2>1. <<b, i>> \in Node /\ <<b, i>>[1] = b /\ <<b, i>>[2] = i
    BY BlockNode
  <2>2. l[<<b, i>>] = IF i < StorageNodes THEN <<b, i + 1>> ELSE NULL
    BY <1>1, <2>1
  <2>3. i < StorageNodes => <<b, i + 1>> \in Node
    <3>1. i < StorageNodes => i + 1 \in 1..StorageNodes
      BY Numbers
    <3> QED
      BY <3>1, BlockNode
  <2> QED
    BY <2>2, <2>3 DEF Place
<1>3. \A x \in Node : l[x] \in Place
  <2> SUFFICES ASSUME NEW x \in Node PROVE l[x] \in Place
    OBVIOUS
  <2>1. CASE x[1] # b
    BY <1>1, <2>1, HeapFields
  <2>2. CASE x[1] = b
    BY <1>2, <2>2, BlockNode
  <2> QED
    BY <2>1, <2>2
<1>4. l \in [Node -> Place]
  <2>1. l = [x \in Node |-> l[x]]
    BY DEF Linked
  <2> QED
    BY <1>3, <2>1
<1> QED
  BY <1>1, <1>2, <1>4

(* allocateNode from a new block, when there is no free list to append to.  *)
LEMMA BlockFields ==
  ASSUME NEW h \in Heaps, h.flast = NULL, NEW b \in Blocks, NEW g, g = TakeFromBlock(h, b)
  PROVE  /\ g \in Heaps /\ g.fault = h.fault /\ g.next = Linked(h, b, StorageNodes)
         /\ g.prio = h.prio /\ g.value = h.value /\ g.live = h.live \cup {b}
         /\ g.used = [h.used EXCEPT ![b] = 1] /\ g.capacity = h.capacity + StorageNodes
         /\ g.first = h.first /\ g.last = h.last /\ g.ffirst = <<b, 2>> /\ g.flast = <<b, StorageNodes>>
<1> DEFINE l == Linked(h, b, StorageNodes)
           fresh == [h EXCEPT !.next = l, !.live = @ \cup {b}, !.used[b] = 1, !.capacity = @ + StorageNodes]
<1>1. l \in [Node -> Place]
  BY BlockLinks
<1>2. <<b, 2>> \in Place /\ <<b, StorageNodes>> \in Place
  <2>1. 2 \in 1..StorageNodes /\ StorageNodes \in 1..StorageNodes
    BY Numbers
  <2> QED
    BY <2>1, BlockNode DEF Place
<1>3. h.used \in [Blocks -> Int] /\ h.live \subseteq Blocks /\ h.capacity + StorageNodes \in Int /\ [h.used EXCEPT ![b] = 1] \in [Blocks -> Int]
  BY HeapFields, Numbers
<1> HIDE DEF l
<1>4. /\ fresh \in Heaps /\ fresh.fault = h.fault /\ fresh.next = l
      /\ fresh.prio = h.prio /\ fresh.value = h.value /\ fresh.live = h.live \cup {b}
      /\ fresh.used = [h.used EXCEPT ![b] = 1] /\ fresh.capacity = h.capacity + StorageNodes
      /\ fresh.first = h.first /\ fresh.last = h.last /\ fresh.ffirst = h.ffirst /\ fresh.flast = h.flast
  BY <1>1, <1>3 DEF Heaps
<1>5. g = [fresh EXCEPT !.ffirst = <<b, 2>>, !.flast = <<b, StorageNodes>>]
  <2>1. g = [[fresh EXCEPT !.ffirst = <<b, 2>>] EXCEPT !.flast = <<b, StorageNodes>>]
    BY Zenon DEF TakeFromBlock, l
  <2> HIDE DEF fresh
  <2> QED
    BY <1>4, <2>1 DEF Heaps
<1> HIDE DEF fresh
<1>6. /\ g \in Heaps /\ g.fault = fresh.fault /\ g.next = fresh.next
      /\ g.prio = fresh.prio /\ g.value = fresh.value /\ g.live = fresh.live
      /\ g.used = fresh.used /\ g.capacity = fresh.capacity
      /\ g.first = fresh.first /\ g.last = fresh.last /\ g.ffirst = <<b, 2>> /\ g.flast = <<b, StorageNodes>>
  BY <1>2, <1>4, <1>5 DEF Heaps
<1> QED
  BY <1>4, <1>6 DEF l

(* allocateNode with an empty free list: the first node of a new block is   *)
(* in the hands of a thread, and the others are the free list.              *)
LEMMA HeapBlock ==
  ASSUME NEW h, NEW qs, NEW fs, NEW filling, NEW freeing, HeapInv(h, qs, fs, filling, freeing, FALSE),
         h.ffirst = NULL, NEW b \in Blocks \ h.live, NEW g, g = TakeFromBlock(h, b)
  PROVE  /\ <<b, 1>> \in Node /\ <<b, 1>> \notin filling \cup freeing
         /\ \E s : HeapInv(g, qs, s, filling \cup {<<b, 1>>}, freeing, FALSE)
         /\ g.prio = h.prio /\ g.value = h.value
<1> DEFINE n == <<b, 1>>
           hands == filling \cup freeing
           later == (filling \cup {n}) \cup freeing
           l == Linked(h, b, StorageNodes)
<1>0. /\ Lists(h, qs, fs) /\ Places(h, qs, fs, filling, freeing) /\ FreeList(h, qs, fs, hands, FALSE)
  BY DEF HeapInv
<1>1. h \in Heaps /\ ~h.fault /\ Links(h.next, h.first, qs) /\ Links(h.next, h.ffirst, fs)
  BY <1>0 DEF Lists
<1>2. Len(fs) = 0 /\ fs \in Seq(Node) /\ qs \in Seq(Node) /\ Len(qs) \in Nat
  BY <1>1, Emptiness
<1>3. h.live = {}
  <2>1. \A c \in h.live : Len(fs) >= 2
    BY <1>0 DEF FreeList
  <2> QED
    BY <1>2, <2>1
<1>4. h.flast = NULL
  BY <1>0, <1>2 DEF FreeList, End
<1>5. /\ g \in Heaps /\ ~g.fault /\ g.next = l
      /\ g.prio = h.prio /\ g.value = h.value /\ g.live = {b}
      /\ g.used[b] = 1 /\ g.capacity = h.capacity + StorageNodes
      /\ g.first = h.first /\ g.last = h.last /\ g.ffirst = <<b, 2>> /\ g.flast = <<b, StorageNodes>>
  <2>1. /\ g \in Heaps /\ g.fault = h.fault /\ g.next = l
        /\ g.prio = h.prio /\ g.value = h.value /\ g.live = h.live \cup {b}
        /\ g.used = [h.used EXCEPT ![b] = 1] /\ g.capacity = h.capacity + StorageNodes
        /\ g.first = h.first /\ g.last = h.last /\ g.ffirst = <<b, 2>> /\ g.flast = <<b, StorageNodes>>
    <3>1. b \in Blocks
      OBVIOUS
    <3> QED
      BY <1>1, <1>4, <3>1, BlockFields
  <2>2. h.used \in [Blocks -> Int]
    BY <1>1, HeapFields
  <2> HIDE DEF l
  <2>3. g.used[b] = 1
    BY <2>1, <2>2
  <2> QED
    BY <1>1, <1>3, <2>1, <2>3
<1>6. PICK s : s = [i \in 1..StorageNodes - 1 |-> <<b, i + 1>>]
  OBVIOUS
<1>7. /\ s \in Seq(Node) /\ Len(s) = StorageNodes - 1 /\ Len(s) >= 2 /\ Len(s) \in Nat
      /\ \A i \in 1..Len(s) : s[i] = <<b, i + 1>> /\ i + 1 \in 1..StorageNodes
  <2>1. \A i \in 1..StorageNodes - 1 : i + 1 \in 1..StorageNodes
    BY Numbers
  <2>2. s \in Seq(Node)
    BY <1>6, <2>1, BlockNode, Numbers
  <2>3. Len(s) = StorageNodes - 1
    BY <1>6, Numbers
  <2> QED
    BY <1>6, <2>1, <2>2, <2>3, Numbers
<1>8. n \in Node /\ n \notin Preallocated /\ n \in BlockNodes(b) /\ ~Usable(h, n) /\ n \notin hands /\ ~Contains(qs, n)
  <2>1. 1 \in 1..StorageNodes
    BY Numbers
  <2>2. n \in Node /\ n \notin Preallocated /\ n \in BlockNodes(b)
    BY <2>1, BlockNode
  <2>3. ~Usable(h, n)
    BY <1>3, <2>2 DEF Usable
  <2> QED
    BY <1>0, <2>2, <2>3 DEF Places
<1>9. \A x \in Node : x[1] = b => ~Usable(h, x) /\ ~Contains(qs, x) /\ x \notin hands /\ x \notin Preallocated
  BY <1>0, <1>3, NodeFacts DEF Places, Usable
<1>10. \A x \in Node : x[1] = b <=> x = n \/ Contains(s, x)
  <2>1. ASSUME NEW x \in Node, x[1] = b, x # n PROVE Contains(s, x)
    <3>1. PICK i \in 1..StorageNodes : x = <<b, i>>
      BY <2>1, BlockNode
    <3>2. i - 1 \in 1..Len(s) /\ (i - 1) + 1 = i
      BY <1>7, <2>1, <3>1, Numbers
    <3> QED
      BY <1>7, <3>1, <3>2 DEF Contains
  <2>2. \A x \in Node : Contains(s, x) => x[1] = b
    BY <1>7 DEF Contains
  <2> QED
    BY <2>1, <2>2
<1>11. ~Contains(s, n)
  BY <1>7 DEF Contains
<1>12. \A x : Contains(s, x) => x \in Node
  BY <1>7 DEF Contains
<1>13. \A x \in Node : ~Contains(fs, x)
  BY <1>2 DEF Contains
<1> HIDE DEF hands, later, l, n
<1>14. Lists(g, qs, s)
  <2>1. \A x \in Node : Contains(qs, x) => g.next[x] = h.next[x]
    BY <1>1, <1>5, <1>9, BlockLinks DEF l
  <2>2. Links(g.next, g.first, qs)
    BY <1>1, <1>5, <2>1, LinksKept
  <2>3. Links(g.next, g.ffirst, s)
    <3>1. \A i, j \in 1..Len(s) : s[i] = s[j] => i = j
      BY <1>7
    <3>2. g.ffirst = s[1] /\ Len(s) # 0
      <4>1. 1 \in 1..Len(s)
        BY <1>7
      <4> QED
        BY <1>5, <1>7, <4>1
    <3>3. ASSUME NEW i \in 1..Len(s) PROVE g.next[s[i]] = IF i = Len(s) THEN NULL ELSE s[i + 1]
      <4>1. i + 1 \in 1..StorageNodes /\ s[i] = <<b, i + 1>>
        BY <1>7
      <4>2. g.next[s[i]] = IF i + 1 < StorageNodes THEN <<b, (i + 1) + 1>> ELSE NULL
        BY <1>1, <1>5, <4>1, BlockLinks DEF l
      <4>3. CASE i = Len(s)
        BY <1>7, <4>2, <4>3, Numbers
      <4>4. CASE i # Len(s)
        <5>1. i + 1 \in 1..Len(s) /\ i + 1 < StorageNodes
          BY <1>7, <4>4, Numbers
        <5>2. s[i + 1] = <<b, (i + 1) + 1>>
          BY <1>7, <5>1
        <5> QED
          BY <4>2, <4>4, <5>1, <5>2
      <4> QED
        BY <4>3, <4>4
    <3> QED
      BY <1>7, <3>1, <3>2, <3>3 DEF Links
  <2>4. g.last = IF Len(qs) = 0 THEN NULL ELSE qs[Len(qs)]
    BY <1>0, <1>5 DEF Lists
  <2>5. \A i, j \in 1..Len(qs) : i < j => g.prio[qs[i]] <= g.prio[qs[j]]
    BY <1>0, <1>5 DEF Lists
  <2> QED
    BY <1>5, <2>2, <2>3, <2>4, <2>5 DEF Lists
<1>15. later = hands \cup {n} /\ IsFiniteSet(filling \cup {n}) /\ IsFiniteSet(hands)
  <2>1. IsFiniteSet(freeing) /\ IsFiniteSet(filling)
    BY <1>0 DEF Places
  <2> QED
    BY <2>1, FS_AddElement, FS_Union DEF later, hands
<1>16. Places(g, qs, s, filling \cup {n}, freeing)
  <2>1. filling \cup {n} \subseteq Node /\ (filling \cup {n}) \cap freeing = {} /\ freeing \subseteq Node /\ IsFiniteSet(freeing)
    BY <1>0, <1>8 DEF Places, hands
  <2>2. \A x \in Node : Usable(g, x) <=> Contains(qs, x) \/ Contains(s, x) \/ x \in later
    <3>1. \A x \in Node : Usable(g, x) <=> Usable(h, x) \/ x[1] = b
      BY <1>3, <1>5 DEF Usable
    <3>2. \A x \in Node : Usable(h, x) <=> Contains(qs, x) \/ x \in hands
      BY <1>0, <1>13 DEF Places, hands
    <3> QED
      BY <1>10, <1>15, <3>1, <3>2
  <2>3. \A x \in Node : ~(Contains(qs, x) /\ Contains(s, x))
    BY <1>9, <1>10
  <2>4. \A x \in later : ~Contains(qs, x) /\ ~Contains(s, x)
    <3>1. \A x \in hands : x \in Node /\ ~Contains(qs, x)
      BY <1>0 DEF Places, hands
    <3> QED
      BY <1>8, <1>9, <1>10, <1>11, <1>15, <3>1
  <2>5. \A x \in Node : g.value[x] # NoValue <=> Contains(qs, x) \/ x \in freeing
    BY <1>0, <1>5 DEF Places
  <2> QED
    BY <1>15, <2>1, <2>2, <2>3, <2>4, <2>5 DEF Places, later
<1>17. FreeList(g, qs, s, later, FALSE)
  <2>1. Cardinality(later) = Cardinality(hands) + 1 /\ Cardinality(hands) \in Nat
    BY <1>8, <1>15, OneMore
  <2>2. h.capacity = PreallocatedNodes
    <3>1. Cardinality(h.live) = 0
      BY <1>3, FS_EmptySet
    <3> QED
      BY <1>0, <3>1, Numbers DEF FreeList
  <2>3. Len(s) + Len(qs) + Cardinality(later) = g.capacity
    <3>1. Len(fs) + Len(qs) + Cardinality(hands) = h.capacity
      BY <1>0, Zenon DEF FreeList
    <3>2. Len(qs) + Cardinality(hands) = PreallocatedNodes /\ Len(s) = StorageNodes - 1
      BY <1>2, <1>7, <2>1, <2>2, <3>1, Numbers
    <3>3. g.capacity = PreallocatedNodes + StorageNodes
      BY <1>5, <2>2
    <3> QED
      BY <1>2, <2>1, <3>2, <3>3, Numbers
  <2>4. g.capacity = PreallocatedNodes + StorageNodes * Cardinality(g.live)
    <3>1. Cardinality(g.live) = 1
      BY <1>5, FS_Singleton
    <3> QED
      BY <1>5, <2>2, <3>1, Numbers
  <2>5. \A c, d \in g.live : c = d
    BY <1>5
  <2>6. g.used[b] = Cardinality(InUse(b, qs, later)) /\ g.used[b] > 0
    <3>1. InUse(b, qs, later) = {n}
      <4>1. \A x \in BlockNodes(b) : x \in Node /\ x[1] = b
        BY NodeFacts
      <4> QED
        BY <1>8, <1>9, <1>15, <4>1 DEF InUse
    <3>2. Cardinality(InUse(b, qs, later)) = 1
      BY <3>1, FS_Singleton
    <3> QED
      BY <1>5, <3>2
  <2>7. \A i \in 1..Len(s) : s[i] \notin Preallocated
    BY <1>7, BlockNode
  <2>8. g.flast = End(s)
    <3>1. Len(s) \in 1..Len(s) /\ Len(s) + 1 = StorageNodes
      BY <1>7, Numbers
    <3>2. s[Len(s)] = <<b, StorageNodes>>
      BY <1>7, <3>1
    <3> QED
      BY <1>5, <1>7, <3>2 DEF End
  <2>9. \A c \in g.live : c = b
    BY <1>5
  <2>10. ASSUME NEW c \in g.live
         PROVE  /\ g.used[c] = Cardinality(InUse(c, qs, later)) /\ g.used[c] > 0
                /\ Len(s) >= 2
                /\ \A i, j \in 1..Len(s) : i < j /\ s[j] \in Preallocated => s[i] \in Preallocated
    BY <1>7, <2>6, <2>7, <2>9
  <2> QED
    BY <2>3, <2>4, <2>5, <2>8, <2>10 DEF FreeList
<1> QED
  BY <1>5, <1>8, <1>14, <1>16, <1>17, Zenon DEF HeapInv, hands, later, n

-----------------------------------------------------------------------------
(* Writing a next pointer.                                                  *)
LEMMA SetNextIs ==
  ASSUME NEW h \in Heaps, ~h.fault, NEW n \in Node, ~Dead(h, n), NEW to \in Place, NEW g, g = SetNext(h, n, to)
  PROVE  /\ g \in Heaps /\ ~g.fault /\ g.next = [h.next EXCEPT ![n] = to]
         /\ g.prio = h.prio /\ g.value = h.value /\ g.live = h.live /\ g.used = h.used /\ g.capacity = h.capacity
         /\ g.first = h.first /\ g.last = h.last /\ g.ffirst = h.ffirst /\ g.flast = h.flast
         /\ \A x : Dead(g, x) <=> Dead(h, x)
<1>1. [h.next EXCEPT ![n] = to] \in [Node -> Place]
  BY HeapFields
<1>2. g = [h EXCEPT !.next = [h.next EXCEPT ![n] = to], !.fault = h.fault \/ Dead(h, n)]
  BY DEF SetNext, Heaps
<1>3. h.fault = FALSE /\ Dead(h, n) = FALSE
  BY HeapFields DEF Dead
<1>4. /\ g \in Heaps /\ ~g.fault /\ g.next = [h.next EXCEPT ![n] = to]
      /\ g.prio = h.prio /\ g.value = h.value /\ g.live = h.live /\ g.used = h.used /\ g.capacity = h.capacity
      /\ g.first = h.first /\ g.last = h.last /\ g.ffirst = h.ffirst /\ g.flast = h.flast
  BY <1>1, <1>2, <1>3 DEF Heaps
<1>5. \A x : Dead(g, x) <=> Dead(h, x)
  BY <1>4 DEF Dead
<1> QED
  BY <1>4, <1>5

(* Where a node of priority p goes: the nodes that stay ahead of it are the *)
(* first k of a sorted queue.                                               *)
Sorted(h, qs) == \A i, j \in 1..Len(qs) : i < j => h.prio[qs[i]] <= h.prio[qs[j]]

PlaceFor(h, qs, p, first, k) ==
  /\ \A i \in 1..k : StaysAhead(h, qs[i], p, first)
  /\ \A i \in (k + 1)..Len(qs) : ~StaysAhead(h, qs[i], p, first)
  /\ Cardinality({i \in 1..Len(qs) : \A j \in 1..i : StaysAhead(h, qs[j], p, first)}) = k

(* The walk of pushNode ends at the place of the new node, whatever the     *)
(* sorted queue.                                                            *)
LEMMA PushPlace ==
  ASSUME NEW h \in Heaps, NEW qs \in Seq(Node), Sorted(h, qs), NEW p \in Int, NEW first \in BOOLEAN
  PROVE  \E k \in 0..Len(qs) : PlaceFor(h, qs, p, first, k)
<1> DEFINE Ahead(i) == StaysAhead(h, qs[i], p, first)
           m == Len(qs)
           T == {i \in 1..m : ~Ahead(i)}
           passed == {i \in 1..m : \A j \in 1..i : Ahead(j)}
<1>1. m \in Nat
  OBVIOUS
<1>2. \A i, j \in 1..m : i < j /\ Ahead(j) => Ahead(i)
  <2>1. \A i \in 1..m : h.prio[qs[i]] \in Int
    BY HeapFields
  <2> QED
    BY <2>1 DEF StaysAhead, Sorted
<1> HIDE DEF Ahead, m
<1>3. \E k \in 0..m : (\A i \in 1..k : Ahead(i)) /\ (\A i \in (k + 1)..m : ~Ahead(i))
  <2>1. CASE T = {}
    <3>1. \A i \in 1..m : Ahead(i)
      BY <2>1
    <3>2. m \in 0..m /\ \A i \in (m + 1)..m : FALSE
      BY <1>1
    <3> QED
      BY <3>1, <3>2
  <2>2. CASE T # {}
    <3>1. T \in SUBSET Nat
      OBVIOUS
    <3>2. PICK k \in T : \A i \in T : k <= i
      BY <2>2, <3>1, Least
    <3>3. k - 1 \in 0..m /\ (k - 1) + 1 = k
      BY <1>1, <3>2
    <3>4. \A i \in 1..k - 1 : Ahead(i)
      BY <1>1, <3>2
    <3>5. \A i \in k..m : ~Ahead(i)
      <4> SUFFICES ASSUME NEW i \in k..m, Ahead(i) PROVE FALSE
        OBVIOUS
      <4>1. i \in 1..m /\ k \in 1..m /\ ~Ahead(k) /\ k <= i
        BY <1>1, <3>2
      <4> QED
        BY <1>2, <4>1
    <3> QED
      BY <3>3, <3>4, <3>5
  <2> QED
    BY <2>1, <2>2
<1>4. PICK k \in 0..m : (\A i \in 1..k : Ahead(i)) /\ (\A i \in (k + 1)..m : ~Ahead(i))
  BY <1>3
<1>5. passed = 1..k
  <2>1. \A i \in 1..k : i \in passed
    BY <1>1, <1>4
  <2>2. ASSUME NEW i \in passed PROVE i \in 1..k
    <3>1. i \in 1..m /\ Ahead(i)
      BY <1>1
    <3> QED
      BY <1>1, <1>4, <3>1
  <2> QED
    BY <2>1, <2>2
<1>6. Cardinality(passed) = k
  <2> HIDE DEF passed
  <2>1. k \in Nat
    BY <1>1
  <2>2. Cardinality(1..k) = k
    BY <2>1, FS_Interval
  <2> QED
    BY <1>5, <2>2
<1> QED
  BY <1>4, <1>6 DEF Ahead, m, PlaceFor

(* The queue with n behind its first k nodes; nothing else changes.         *)
Enqueued(g, h, qs, k, n) ==
  /\ g \in Heaps /\ ~g.fault /\ Links(g.next, g.first, InsertAt(qs, k + 1, n))
  /\ g.last = IF k = Len(qs) THEN n ELSE h.last
  /\ \A x \in Node : x # n /\ ~Contains(qs, x) => g.next[x] = h.next[x]
  /\ g.prio = h.prio /\ g.value = h.value /\ g.live = h.live /\ g.used = h.used /\ g.capacity = h.capacity
  /\ g.ffirst = h.ffirst /\ g.flast = h.flast

(* The branches of pushNode that put the node in front.                     *)
LEMMA EnqueueFront ==
  ASSUME NEW h \in Heaps, ~h.fault, NEW qs, Links(h.next, h.first, qs),
         NEW n \in Node, ~Contains(qs, n), ~Dead(h, n),
         NEW g, \/ h.first = NULL /\ g = [SetNext(h, n, NULL) EXCEPT !.first = n, !.last = n]
                \/ h.first # NULL /\ g = [SetNext(h, n, h.first) EXCEPT !.first = n]
  PROVE  Enqueued(g, h, qs, 0, n)
<1>1. Len(qs) \in Nat /\ (h.first = NULL <=> Len(qs) = 0)
  BY Emptiness
<1>2. PICK f : f = SetNext(h, n, h.first)
  OBVIOUS
<1>3. /\ f \in Heaps /\ ~f.fault /\ f.next = [h.next EXCEPT ![n] = h.first]
      /\ f.prio = h.prio /\ f.value = h.value /\ f.live = h.live /\ f.used = h.used /\ f.capacity = h.capacity
      /\ f.first = h.first /\ f.last = h.last /\ f.ffirst = h.ffirst /\ f.flast = h.flast
  BY <1>2, HeapFields, SetNextIs
<1>4. \/ h.first = NULL /\ g = [f EXCEPT !.first = n, !.last = n]
      \/ h.first # NULL /\ g = [f EXCEPT !.first = n]
  BY <1>2
<1>5. /\ g \in Heaps /\ ~g.fault /\ g.next = f.next /\ g.first = n
      /\ g.prio = f.prio /\ g.value = f.value /\ g.live = f.live /\ g.used = f.used /\ g.capacity = f.capacity
      /\ g.ffirst = f.ffirst /\ g.flast = f.flast /\ g.last = IF h.first = NULL THEN n ELSE f.last
  BY <1>3, <1>4 DEF Heaps, Place
<1>6. Links(g.next, n, InsertAt(qs, 1, n))
  BY <1>3, <1>5, LinksFront, HeapFields
<1>7. \A x \in Node : x # n => g.next[x] = h.next[x]
  BY <1>3, <1>5, HeapFields
<1>8. g.last = IF 0 = Len(qs) THEN n ELSE h.last
  BY <1>1, <1>3, <1>5
<1>9. Links(g.next, g.first, InsertAt(qs, 0 + 1, n))
  BY <1>5, <1>6
<1> QED
  BY <1>3, <1>5, <1>7, <1>8, <1>9, Zenon DEF Enqueued

(* The branches of pushNode that put the node behind a queued one.          *)
LEMMA EnqueueBehind ==
  ASSUME NEW h \in Heaps, ~h.fault, NEW qs, Links(h.next, h.first, qs),
         NEW n \in Node, ~Contains(qs, n), ~Dead(h, n),
         NEW k \in 1..Len(qs), ~Dead(h, qs[k]),
         NEW l, l = SetNext(SetNext(h, n, h.next[qs[k]]), qs[k], n),
         NEW g, \/ k = Len(qs) /\ g = [l EXCEPT !.last = n]
                \/ k # Len(qs) /\ g = l
  PROVE  Enqueued(g, h, qs, k, n)
<1>1. qs \in Seq(Node) /\ qs[k] \in Node
  <2>1. qs \in Seq(Node)
    BY DEF Links
  <2> QED
    BY <2>1
<1>2. PICK f : f = SetNext(h, n, h.next[qs[k]])
  OBVIOUS
<1>3. /\ f \in Heaps /\ ~f.fault /\ f.next = [h.next EXCEPT ![n] = h.next[qs[k]]]
      /\ f.prio = h.prio /\ f.value = h.value /\ f.live = h.live /\ f.used = h.used /\ f.capacity = h.capacity
      /\ f.first = h.first /\ f.last = h.last /\ f.ffirst = h.ffirst /\ f.flast = h.flast
      /\ \A x : Dead(f, x) <=> Dead(h, x)
  <2>1. h.next[qs[k]] \in Place
    BY <1>1, HeapFields
  <2> QED
    BY <1>2, <2>1, SetNextIs
<1>4. /\ l \in Heaps /\ ~l.fault /\ l.next = [f.next EXCEPT ![qs[k]] = n]
      /\ l.prio = f.prio /\ l.value = f.value /\ l.live = f.live /\ l.used = f.used /\ l.capacity = f.capacity
      /\ l.first = f.first /\ l.last = f.last /\ l.ffirst = f.ffirst /\ l.flast = f.flast
  <2>1. l = SetNext(f, qs[k], n) /\ n \in Place /\ ~Dead(f, qs[k])
    BY <1>2, <1>3 DEF Place
  <2> QED
    BY <1>1, <1>3, <2>1, SetNextIs
<1>5. /\ g \in Heaps /\ ~g.fault /\ g.next = l.next /\ g.first = l.first
      /\ g.prio = l.prio /\ g.value = l.value /\ g.live = l.live /\ g.used = l.used /\ g.capacity = l.capacity
      /\ g.ffirst = l.ffirst /\ g.flast = l.flast /\ g.last = IF k = Len(qs) THEN n ELSE l.last
  BY <1>4 DEF Heaps, Place
<1>6. g.next = [h.next EXCEPT ![n] = h.next[qs[k]], ![qs[k]] = n]
  BY <1>3, <1>4, <1>5
<1>7. Links(g.next, h.first, InsertAt(qs, k + 1, n))
  BY <1>6, LinksBehind, HeapFields
<1>8. \A x \in Node : x # n /\ ~Contains(qs, x) => g.next[x] = h.next[x]
  <2>1. Contains(qs, qs[k])
    BY DEF Contains
  <2> QED
    BY <1>6, <2>1, HeapFields
<1>9. g.last = (IF k = Len(qs) THEN n ELSE h.last) /\ g.first = h.first
  BY <1>3, <1>4, <1>5
<1> QED
  BY <1>3, <1>4, <1>5, <1>7, <1>8, <1>9, Zenon DEF Enqueued

(* pushNode, whichever branch it takes.                                     *)
LEMMA EnqueueAt ==
  ASSUME NEW h \in Heaps, ~h.fault, NEW qs, Links(h.next, h.first, qs),
         h.last = (IF Len(qs) = 0 THEN NULL ELSE qs[Len(qs)]),
         NEW n \in Node, ~Contains(qs, n), ~Dead(h, n), \A x \in Node : Contains(qs, x) => ~Dead(h, x),
         NEW p, NEW first, NEW k \in 0..Len(qs), PlaceFor(h, qs, p, first, k),
         NEW g, g = Enqueue(h, n, p, first)
  PROVE  Enqueued(g, h, qs, k, n)
<1> DEFINE Ahead(x) == StaysAhead(h, x, p, first)
<1>1. /\ qs \in Seq(Node) /\ Len(qs) \in Nat
      /\ h.first = NULL <=> Len(qs) = 0
      /\ h.first = IF Len(qs) = 0 THEN NULL ELSE qs[1]
      /\ \A i \in 1..Len(qs) : h.next[qs[i]] = IF i = Len(qs) THEN NULL ELSE qs[i + 1]
  BY Emptiness DEF Links
<1>2. \A i \in 1..Len(qs) : ~Dead(h, qs[i])
  BY <1>1 DEF Contains
<1>3. g = IF h.first = NULL
          THEN [SetNext(h, n, NULL) EXCEPT !.first = n, !.last = n]
          ELSE IF ~Ahead(h.first) THEN [SetNext(h, n, h.first) EXCEPT !.first = n]
          ELSE IF Ahead(h.last) THEN [SetNext(SetNext(h, n, NULL), h.last, n) EXCEPT !.last = n]
          ELSE SetNext(SetNext(h, n, h.next[WalkEnd(h, p, first)]), WalkEnd(h, p, first), n)
  BY Zenon DEF Enqueue
<1>4. WalkEnd(h, p, first) = qs[k]
  <2>1. Chain(h, h.first) = qs
    BY ChainIs
  <2> QED
    BY <2>1, Zenon DEF WalkEnd, PlaceFor
<1>5. /\ \A i \in 1..k : Ahead(qs[i])
      /\ \A i \in (k + 1)..Len(qs) : ~Ahead(qs[i])
  BY DEF PlaceFor
<1> HIDE DEF Ahead
<1>6. CASE h.first = NULL
  <2>1. k = 0
    BY <1>1, <1>6
  <2>2. g = [SetNext(h, n, NULL) EXCEPT !.first = n, !.last = n]
    BY <1>3, <1>6, Zenon
  <2>3. Enqueued(g, h, qs, 0, n)
    BY <1>6, <2>2, EnqueueFront
  <2> QED
    BY <2>1, <2>3
<1>7. CASE h.first # NULL /\ ~Ahead(h.first)
  <2>1. k = 0
    <3>1. h.first = qs[1] /\ 1 \in 1..Len(qs)
      BY <1>1, <1>7
    <3> QED
      BY <1>1, <1>5, <1>7, <3>1
  <2>2. g = [SetNext(h, n, h.first) EXCEPT !.first = n]
    BY <1>3, <1>7, Zenon
  <2>3. Enqueued(g, h, qs, 0, n)
    BY <1>7, <2>2, EnqueueFront
  <2> QED
    BY <2>1, <2>3
<1>8. CASE h.first # NULL /\ Ahead(h.first) /\ Ahead(h.last)
  <2>1. Len(qs) \in 1..Len(qs) /\ h.last = qs[Len(qs)]
    BY <1>1, <1>8
  <2>2. k = Len(qs)
    BY <1>1, <1>5, <1>8, <2>1
  <2>3. h.next[qs[k]] = NULL
    BY <1>1, <2>1, <2>2
  <2>4. g = [SetNext(SetNext(h, n, NULL), h.last, n) EXCEPT !.last = n]
    BY <1>3, <1>8, Zenon
  <2>5. k \in 1..Len(qs) /\ ~Dead(h, qs[k]) /\ g = [SetNext(SetNext(h, n, h.next[qs[k]]), qs[k], n) EXCEPT !.last = n]
    BY <1>2, <2>1, <2>2, <2>3, <2>4
  <2> QED
    BY <2>2, <2>5, EnqueueBehind
<1>9. CASE h.first # NULL /\ Ahead(h.first) /\ ~Ahead(h.last)
  <2>1. Len(qs) \in 1..Len(qs) /\ 1 \in 1..Len(qs) /\ h.last = qs[Len(qs)] /\ h.first = qs[1]
    BY <1>1, <1>9
  <2>2. k # Len(qs) /\ k # 0 /\ k \in 1..Len(qs)
    BY <1>1, <1>5, <1>9, <2>1
  <2>3. g = SetNext(SetNext(h, n, h.next[qs[k]]), qs[k], n)
    BY <1>3, <1>4, <1>9, Zenon
  <2>4. ~Dead(h, qs[k])
    BY <1>2, <2>2
  <2> QED
    BY <2>2, <2>3, <2>4, EnqueueBehind
<1> QED
  BY <1>6, <1>7, <1>8, <1>9

(* push: the node n that was being filled joins the queue.                  *)
Filled(h, n, p, v) == [h EXCEPT !.prio[n] = p, !.value[n] = v, !.fault = @ \/ Dead(h, n)]

Fills(g, h, n, p, v) ==
  /\ g \in Heaps /\ ~g.fault /\ g.next = h.next
  /\ g.prio = [h.prio EXCEPT ![n] = p] /\ g.value = [h.value EXCEPT ![n] = v]
  /\ g.live = h.live /\ g.used = h.used /\ g.capacity = h.capacity
  /\ g.first = h.first /\ g.last = h.last /\ g.ffirst = h.ffirst /\ g.flast = h.flast

(* Filling a node changes its priority and value, and no list.              *)
LEMMA PushFields ==
  ASSUME NEW h \in Heaps, ~h.fault, NEW n \in Node, ~Dead(h, n), NEW p \in Int, NEW v \in Values,
         NEW g, g = Filled(h, n, p, v)
  PROVE  Fills(g, h, n, p, v)
<1>1. [h.prio EXCEPT ![n] = p] \in [Node -> Int] /\ [h.value EXCEPT ![n] = v] \in [Node -> Values]
  BY HeapFields
<1>2. h.fault = FALSE /\ Dead(h, n) = FALSE
  BY HeapFields DEF Dead
<1>3. g = [h EXCEPT !.prio = [h.prio EXCEPT ![n] = p], !.value = [h.value EXCEPT ![n] = v], !.fault = h.fault \/ Dead(h, n)]
  BY DEF Heaps, Filled
<1> QED
  BY <1>1, <1>2, <1>3 DEF Heaps, Fills

Pushed(g, h, qs, fs, filling, freeing, pop, n, p, first, stamp) ==
  \E k \in 0..Len(qs) :
     /\ HeapInv(g, InsertAt(qs, k + 1, n), fs, filling \ {n}, freeing, pop)
     /\ PlaceFor(h, qs, p, first, k)
     /\ g.prio = [h.prio EXCEPT ![n] = p]
     /\ g.value = [h.value EXCEPT ![n] = [stamp |-> stamp, first |-> first]]

(* push: pushNode puts it where its priority belongs.                       *)
LEMMA HeapPush ==
  ASSUME NEW h, NEW qs, NEW fs, NEW filling, NEW freeing, NEW pop, HeapInv(h, qs, fs, filling, freeing, pop),
         NEW n \in filling, NEW p \in Int, NEW first \in BOOLEAN, NEW stamp \in 1..MaxPush,
         NEW g, g = PushNode(h, n, p, first, stamp)
  PROVE  Pushed(g, h, qs, fs, filling, freeing, pop, n, p, first, stamp)
<1> DEFINE v == [stamp |-> stamp, first |-> first]
           hands == filling \cup freeing
           later == (filling \ {n}) \cup freeing
<1>0. /\ Lists(h, qs, fs) /\ Places(h, qs, fs, filling, freeing) /\ FreeList(h, qs, fs, hands, pop)
  BY DEF HeapInv
<1>1. h \in Heaps /\ ~h.fault /\ Links(h.next, h.first, qs) /\ Links(h.next, h.ffirst, fs)
  BY <1>0 DEF Lists
<1>2. fs \in Seq(Node) /\ Len(fs) \in Nat /\ qs \in Seq(Node) /\ Len(qs) \in Nat
  BY <1>1, Emptiness
<1>3. n \in Node /\ ~Contains(qs, n) /\ ~Contains(fs, n) /\ n \notin freeing /\ Usable(h, n)
  BY <1>0 DEF Places
<1>4. v \in Values /\ v # NoValue
  BY Numbers DEF Values, NoValue
<1>5. PICK e : e = Filled(h, n, p, v)
  OBVIOUS
<1>6. /\ e \in Heaps /\ ~e.fault /\ e.next = h.next
      /\ e.prio = [h.prio EXCEPT ![n] = p] /\ e.value = [h.value EXCEPT ![n] = v]
      /\ e.live = h.live /\ e.used = h.used /\ e.capacity = h.capacity
      /\ e.first = h.first /\ e.last = h.last /\ e.ffirst = h.ffirst /\ e.flast = h.flast
  <2> HIDE DEF v
  <2>1. ~Dead(h, n)
    BY <1>3, AliveNodes
  <2>2. h \in Heaps /\ ~h.fault /\ n \in Node /\ v \in Values
    BY <1>1, <1>3, <1>4
  <2> QED
    <3>1. Fills(e, h, n, p, v)
      BY <1>5, <2>1, <2>2, PushFields
    <3> QED
      BY <3>1, Zenon DEF Fills
<1>7. g = Enqueue(e, n, p, first)
  BY <1>5, Zenon DEF PushNode, Filled
<1> HIDE DEF v, hands, later
<1>8. \A i, j \in 1..Len(qs) : i < j => h.prio[qs[i]] <= h.prio[qs[j]]
  BY <1>0 DEF Lists
<1>9. PICK k \in 0..Len(qs) : PlaceFor(h, qs, p, first, k)
  BY <1>1, <1>2, <1>8, PushPlace DEF Sorted
<1>10. \A i \in 1..Len(qs) : qs[i] \in Node /\ Contains(qs, qs[i]) /\ qs[i] # n /\ e.prio[qs[i]] = h.prio[qs[i]]
  <2>1. \A i \in 1..Len(qs) : qs[i] \in Node /\ Contains(qs, qs[i])
    BY <1>2 DEF Contains
  <2>2. \A i \in 1..Len(qs) : qs[i] # n
    BY <1>3, <2>1
  <2>3. h.prio \in [Node -> Int]
    BY <1>1, HeapFields
  <2> QED
    BY <1>6, <2>1, <2>2, <2>3
<1>11. \A i \in 1..Len(qs) : StaysAhead(e, qs[i], p, first) <=> StaysAhead(h, qs[i], p, first)
  BY <1>10 DEF StaysAhead
<1>12. Enqueued(g, e, qs, k, n)
  <2>1. \A i \in 1..k : StaysAhead(e, qs[i], p, first)
    BY <1>2, <1>9, <1>11 DEF PlaceFor
  <2>2. \A i \in (k + 1)..Len(qs) : ~StaysAhead(e, qs[i], p, first)
    BY <1>2, <1>9, <1>11 DEF PlaceFor
  <2>3. {i \in 1..Len(qs) : \A j \in 1..i : StaysAhead(e, qs[j], p, first)}
          = {i \in 1..Len(qs) : \A j \in 1..i : StaysAhead(h, qs[j], p, first)}
    <3>1. \A i \in 1..Len(qs) : \A j \in 1..i : j \in 1..Len(qs)
      BY <1>2
    <3> QED
      BY <1>11, <3>1
  <2>4. Cardinality({i \in 1..Len(qs) : \A j \in 1..i : StaysAhead(e, qs[j], p, first)}) = k
    BY <1>9, <2>3, Zenon DEF PlaceFor
  <2>5. ~Dead(e, n) /\ \A x \in Node : Contains(qs, x) => ~Dead(e, x)
    <3>1. \A x \in Node : Contains(qs, x) \/ x = n => Usable(h, x)
      BY <1>0, <1>3 DEF Places
    <3>2. \A x \in Node : Contains(qs, x) \/ x = n => Usable(e, x)
      BY <1>6, <3>1 DEF Usable
    <3> QED
      BY <1>3, <3>2, AliveNodes
  <2>6. Links(e.next, e.first, qs) /\ e.last = IF Len(qs) = 0 THEN NULL ELSE qs[Len(qs)]
    BY <1>0, <1>1, <1>6 DEF Lists
  <2> QED
    <3>1. PlaceFor(e, qs, p, first, k)
      BY <2>1, <2>2, <2>4, Zenon DEF PlaceFor
    <3> QED
      BY <1>3, <1>6, <1>7, <2>5, <2>6, <3>1, EnqueueAt
<1>13. /\ g \in Heaps /\ ~g.fault /\ Links(g.next, g.first, InsertAt(qs, k + 1, n))
       /\ g.last = IF k = Len(qs) THEN n ELSE h.last
       /\ \A x \in Node : x # n /\ ~Contains(qs, x) => g.next[x] = h.next[x]
       /\ g.prio = e.prio /\ g.value = e.value /\ g.live = h.live /\ g.used = h.used /\ g.capacity = h.capacity
       /\ g.ffirst = h.ffirst /\ g.flast = h.flast
  BY <1>6, <1>12 DEF Enqueued
<1>14. PICK r : r = InsertAt(qs, k + 1, n)
  OBVIOUS
<1>15. /\ r \in Seq(Node) /\ Len(r) = Len(qs) + 1
       /\ \A i \in 1..k : r[i] = qs[i]
       /\ r[k + 1] = n
       /\ \A i \in (k + 1)..Len(qs) : r[i + 1] = qs[i]
  <2>1. qs \in Seq(Node) /\ n \in Node /\ k \in 0..Len(qs) /\ r = InsertAt(qs, k + 1, n)
    BY <1>2, <1>3, <1>14
  <2>2. Inserted(Node, r, qs, k, n)
    BY <2>1, InsertAtElements
  <2> QED
    BY <2>2, Zenon DEF Inserted
<1>16. \A x : Contains(r, x) <=> Contains(qs, x) \/ x = n
  BY <1>2, <1>3, <1>14, InsertAtContains
<1>17. Lists(g, r, fs)
  <2>1. Links(g.next, g.ffirst, fs)
    <3>1. \A x \in Node : Contains(fs, x) => x # n /\ ~Contains(qs, x)
      BY <1>0, <1>3 DEF Places
    <3>2. \A x \in Node : Contains(fs, x) => g.next[x] = h.next[x]
      BY <1>13, <3>1
    <3> QED
      BY <1>1, <1>13, <3>2, LinksKept
  <2>2. g.last = IF Len(r) = 0 THEN NULL ELSE r[Len(r)]
    <3>1. Len(r) # 0
      BY <1>2, <1>15
    <3>2. CASE k = Len(qs)
      BY <1>13, <1>15, <3>1, <3>2
    <3>3. CASE k # Len(qs)
      <4>1. Len(qs) \in (k + 1)..Len(qs) /\ Len(qs) # 0
        BY <1>2, <3>3
      <4>2. h.last = qs[Len(qs)] /\ r[Len(qs) + 1] = qs[Len(qs)]
        BY <1>0, <1>15, <4>1 DEF Lists
      <4> QED
        BY <1>13, <1>15, <3>1, <3>3, <4>2
    <3> QED
      BY <3>2, <3>3
  <2>3. \A i, j \in 1..Len(r) : i < j => g.prio[r[i]] <= g.prio[r[j]]
    <3> SUFFICES ASSUME NEW i \in 1..Len(r), NEW j \in 1..Len(r), i < j PROVE g.prio[r[i]] <= g.prio[r[j]]
      OBVIOUS
    <3> DEFINE from(x) == IF x <= k THEN x ELSE x - 1
    <3>1. \A x \in 1..Len(r) : x # k + 1 => from(x) \in 1..Len(qs) /\ r[x] = qs[from(x)]
      <4> SUFFICES ASSUME NEW x \in 1..Len(r), x # k + 1 PROVE from(x) \in 1..Len(qs) /\ r[x] = qs[from(x)]
        OBVIOUS
      <4>1. CASE x <= k
        <5>1. x \in 1..k /\ x \in 1..Len(qs)
          BY <1>2, <1>15, <4>1
        <5> QED
          BY <1>15, <4>1, <5>1
      <4>2. CASE ~(x <= k)
        <5>1. x - 1 \in (k + 1)..Len(qs) /\ (x - 1) + 1 = x /\ x - 1 \in 1..Len(qs)
          BY <1>2, <1>15, <4>2
        <5>2. r[(x - 1) + 1] = qs[x - 1]
          BY <1>15, <5>1
        <5> QED
          BY <4>2, <5>1, <5>2
      <4> QED
        BY <4>1, <4>2
    <3>2. h.prio \in [Node -> Int] /\ g.prio[n] = p
      BY <1>1, <1>3, <1>6, <1>13, HeapFields
    <3>3. \A x \in 1..Len(qs) : h.prio[qs[x]] \in Int /\ g.prio[qs[x]] = h.prio[qs[x]]
      BY <1>10, <1>13, <3>2
    <3>4. \A x \in 1..Len(qs) : (x <= k => h.prio[qs[x]] <= p) /\ (x > k => p <= h.prio[qs[x]])
      <4> SUFFICES ASSUME NEW x \in 1..Len(qs) PROVE (x <= k => h.prio[qs[x]] <= p) /\ (x > k => p <= h.prio[qs[x]])
        OBVIOUS
      <4>1. CASE x <= k
        <5>1. x \in 1..k
          BY <1>2, <4>1
        <5>2. StaysAhead(h, qs[x], p, first)
          BY <1>9, <5>1 DEF PlaceFor
        <5> QED
          BY <3>3, <4>1, <5>2 DEF StaysAhead
      <4>2. CASE ~(x <= k)
        <5>1. x \in (k + 1)..Len(qs)
          BY <1>2, <4>2
        <5>2. ~StaysAhead(h, qs[x], p, first)
          BY <1>9, <5>1 DEF PlaceFor
        <5> QED
          BY <3>3, <4>2, <5>2 DEF StaysAhead
      <4> QED
        BY <4>1, <4>2
    <3>5. CASE i # k + 1 /\ j # k + 1
      <4>1. from(i) \in 1..Len(qs) /\ from(j) \in 1..Len(qs) /\ from(i) < from(j)
        BY <1>2, <3>1, <3>5
      <4>2. r[i] = qs[from(i)] /\ r[j] = qs[from(j)]
        BY <3>1, <3>5
      <4> HIDE DEF from
      <4>3. h.prio[qs[from(i)]] <= h.prio[qs[from(j)]]
        BY <1>8, <4>1
      <4> QED
        BY <3>3, <4>1, <4>2, <4>3
    <3>6. CASE i = k + 1 /\ j # k + 1
      <4>1. from(j) \in 1..Len(qs) /\ from(j) > k /\ r[j] = qs[from(j)]
        BY <1>2, <3>1, <3>6
      <4> HIDE DEF from
      <4> QED
        BY <1>15, <3>2, <3>3, <3>4, <3>6, <4>1
    <3>7. CASE i # k + 1 /\ j = k + 1
      <4>1. from(i) \in 1..Len(qs) /\ from(i) <= k /\ r[i] = qs[from(i)]
        BY <1>2, <3>1, <3>7
      <4> HIDE DEF from
      <4> QED
        BY <1>15, <3>2, <3>3, <3>4, <3>7, <4>1
    <3> QED
      BY <3>5, <3>6, <3>7
  <2> QED
    BY <1>13, <1>14, <2>1, <2>2, <2>3 DEF Lists
<1>18. hands = later \cup {n} /\ n \notin later /\ IsFiniteSet(filling \ {n}) /\ IsFiniteSet(later)
  <2>1. IsFiniteSet(freeing) /\ IsFiniteSet(filling)
    BY <1>0 DEF Places
  <2> QED
    BY <1>3, <2>1, FS_RemoveElement, FS_Union DEF later, hands
<1>19. Places(g, r, fs, filling \ {n}, freeing)
  <2>1. filling \ {n} \subseteq Node /\ (filling \ {n}) \cap freeing = {} /\ freeing \subseteq Node /\ IsFiniteSet(freeing)
    BY <1>0 DEF Places
  <2>2. \A x \in Node : Usable(g, x) <=> Contains(r, x) \/ Contains(fs, x) \/ x \in later
    BY <1>0, <1>13, <1>16, <1>18 DEF Places, Usable, hands
  <2>3. \A x \in Node : ~(Contains(r, x) /\ Contains(fs, x))
    BY <1>0, <1>3, <1>16 DEF Places
  <2>4. \A x \in later : ~Contains(r, x) /\ ~Contains(fs, x)
    BY <1>0, <1>16, <1>18 DEF Places, hands
  <2>5. \A x \in Node : g.value[x] # NoValue <=> Contains(r, x) \/ x \in freeing
    <3>1. h.value \in [Node -> Values] /\ g.value = [h.value EXCEPT ![n] = v]
      BY <1>1, <1>6, <1>13, HeapFields
    <3> QED
      BY <1>0, <1>3, <1>4, <1>16, <3>1 DEF Places
  <2> QED
    BY <1>18, <2>1, <2>2, <2>3, <2>4, <2>5 DEF Places, later
<1>20. FreeList(g, r, fs, later, pop)
  <2>1. Cardinality(hands) = Cardinality(later) + 1 /\ Cardinality(later) \in Nat
    BY <1>18, OneMore
  <2>2. \A b : InUse(b, r, later) = InUse(b, qs, hands)
    BY <1>16, <1>18 DEF InUse
  <2>3. Len(fs) + Len(r) + Cardinality(later) = g.capacity
    <3>1. Len(fs) + Len(qs) + Cardinality(hands) = h.capacity
      BY <1>0, Zenon DEF FreeList
    <3> QED
      BY <1>2, <1>13, <1>15, <2>1, <3>1
  <2>4. g.capacity = PreallocatedNodes + StorageNodes * Cardinality(g.live)
    BY <1>0, <1>13, Zenon DEF FreeList
  <2>5. \A b, c \in g.live : b = c
    BY <1>0, <1>13 DEF FreeList
  <2>6. \A b \in g.live :
          /\ g.used[b] = Cardinality(InUse(b, r, later)) /\ g.used[b] > 0
          /\ Len(fs) >= 2
          /\ \A i, j \in 1..Len(fs) : i < j /\ fs[j] \in Preallocated => fs[i] \in Preallocated
    <3>1. g.live = h.live /\ g.used = h.used
      BY <1>13
    <3> QED
      BY <1>0, <2>2, <3>1, Zenon DEF FreeList
  <2>7. ~pop \/ g.live # {} => g.flast = End(fs)
    BY <1>0, <1>13 DEF FreeList
  <2> QED
    BY <2>3, <2>4, <2>5, <2>6, <2>7, Zenon DEF FreeList
<1>21. HeapInv(g, r, fs, filling \ {n}, freeing, pop)
  BY <1>17, <1>19, <1>20 DEF HeapInv, later
<1>22. \E j \in 0..Len(qs) :
         /\ HeapInv(g, InsertAt(qs, j + 1, n), fs, filling \ {n}, freeing, pop)
         /\ PlaceFor(h, qs, p, first, j)
         /\ g.prio = [h.prio EXCEPT ![n] = p]
         /\ g.value = [h.value EXCEPT ![n] = [stamp |-> stamp, first |-> first]]
  BY <1>6, <1>9, <1>13, <1>14, <1>21 DEF v
<1> QED
  BY <1>22, Zenon DEF Pushed

-----------------------------------------------------------------------------
(* Destroying the value in a node.                                          *)
Emptied(h, n) == [h EXCEPT !.value[n] = NoValue, !.fault = @ \/ h.value[n] = NoValue]

(* Destroying the value of a node changes no list.                          *)
LEMMA EmptiedIs ==
  ASSUME NEW h \in Heaps, ~h.fault, NEW n \in Node, h.value[n] # NoValue, NEW e, e = Emptied(h, n)
  PROVE  /\ e \in Heaps /\ ~e.fault /\ e.next = h.next /\ e.prio = h.prio
         /\ e.value = [h.value EXCEPT ![n] = NoValue]
         /\ e.live = h.live /\ e.used = h.used /\ e.capacity = h.capacity
         /\ e.first = h.first /\ e.last = h.last /\ e.ffirst = h.ffirst /\ e.flast = h.flast
         /\ \A x : Dead(e, x) <=> Dead(h, x)
<1>1. [h.value EXCEPT ![n] = NoValue] \in [Node -> Values]
  <2>1. NoValue \in Values
    BY Numbers DEF NoValue, Values
  <2> QED
    BY <2>1, HeapFields
<1>2. h.fault = FALSE /\ (h.value[n] = NoValue) = FALSE
  BY HeapFields
<1>3. e = [h EXCEPT !.value = [h.value EXCEPT ![n] = NoValue], !.fault = h.fault \/ h.value[n] = NoValue]
  BY DEF Heaps, Emptied
<1>4. /\ e \in Heaps /\ ~e.fault /\ e.next = h.next /\ e.prio = h.prio
      /\ e.value = [h.value EXCEPT ![n] = NoValue]
      /\ e.live = h.live /\ e.used = h.used /\ e.capacity = h.capacity
      /\ e.first = h.first /\ e.last = h.last /\ e.ffirst = h.ffirst /\ e.flast = h.flast
  BY <1>1, <1>2, <1>3 DEF Heaps
<1>5. \A x : Dead(e, x) <=> Dead(h, x)
  BY <1>4 DEF Dead
<1> QED
  BY <1>4, <1>5

(* A heap whose free list has grown by n, at place k + 1.                   *)
Freed(g, h, fs, k, n) ==
  /\ g \in Heaps /\ ~g.fault /\ Links(g.next, g.ffirst, InsertAt(fs, k + 1, n))
  /\ \A x \in Node : x # n /\ ~Contains(fs, x) => g.next[x] = h.next[x]
  /\ g.prio = h.prio /\ g.value = h.value /\ g.live = h.live /\ g.capacity = h.capacity
  /\ g.first = h.first /\ g.last = h.last

(* freeNode of a preallocated node.                                         *)
LEMMA FrontFreed ==
  ASSUME NEW h \in Heaps, ~h.fault, NEW fs, Links(h.next, h.ffirst, fs),
         NEW n \in Node, ~Contains(fs, n), ~Dead(h, n), NEW g, g = FreeToFront(h, n)
  PROVE  /\ Freed(g, h, fs, 0, n) /\ g.used = h.used
         /\ g.flast = IF h.flast = NULL THEN n ELSE h.flast
<1>1. PICK f : f = SetNext(h, n, h.ffirst)
  OBVIOUS
<1>2. /\ f \in Heaps /\ ~f.fault /\ f.next = [h.next EXCEPT ![n] = h.ffirst]
      /\ f.prio = h.prio /\ f.value = h.value /\ f.live = h.live /\ f.used = h.used /\ f.capacity = h.capacity
      /\ f.first = h.first /\ f.last = h.last /\ f.ffirst = h.ffirst /\ f.flast = h.flast
  BY <1>1, HeapFields, SetNextIs
<1>3. g = [f EXCEPT !.ffirst = n, !.flast = IF @ = NULL THEN n ELSE @]
  BY <1>1, Zenon DEF FreeToFront
<1>4. /\ g \in Heaps /\ ~g.fault /\ g.next = f.next /\ g.ffirst = n
      /\ g.prio = f.prio /\ g.value = f.value /\ g.live = f.live /\ g.used = f.used /\ g.capacity = f.capacity
      /\ g.first = f.first /\ g.last = f.last /\ g.flast = IF h.flast = NULL THEN n ELSE h.flast
  BY <1>2, <1>3 DEF Heaps, Place
<1>5. Links(g.next, n, InsertAt(fs, 1, n))
  BY <1>2, <1>4, LinksFront, HeapFields
<1>6. \A x \in Node : x # n => g.next[x] = h.next[x]
  BY <1>2, <1>4, HeapFields
<1>7. Links(g.next, g.ffirst, InsertAt(fs, 0 + 1, n))
  BY <1>4, <1>5
<1> QED
  BY <1>2, <1>4, <1>6, <1>7, Zenon DEF Freed

(* freeNode of a block node, before the block is looked at.                 *)
Appended(h, n) ==
  [[SetNext(SetNext(h, n, NULL), h.flast, n) EXCEPT !.flast = n] EXCEPT !.used[n[1]] = @ - 1]

FreedBack(g, h, fs, n) ==
  /\ Freed(g, h, fs, Len(fs), n) /\ g.flast = n
  /\ g.used = [h.used EXCEPT ![n[1]] = h.used[n[1]] - 1]

(* freeNode appends the node of a block, which is live, to the free list.   *)
LEMMA BackFreed ==
  ASSUME NEW h \in Heaps, ~h.fault, NEW fs, Links(h.next, h.ffirst, fs), Len(fs) >= 1, h.flast = fs[Len(fs)],
         NEW n \in Node, n[1] \in Blocks, ~Contains(fs, n), ~Dead(h, n), ~Dead(h, h.flast),
         NEW g, g = Appended(h, n)
  PROVE  FreedBack(g, h, fs, n)
<1>1. /\ fs \in Seq(Node) /\ Len(fs) \in Nat /\ Len(fs) \in 1..Len(fs) /\ fs[Len(fs)] \in Node
      /\ h.next[fs[Len(fs)]] = NULL
  <2>1. fs \in Seq(Node) /\ Len(fs) \in Nat
    BY Emptiness
  <2>2. Len(fs) \in 1..Len(fs)
    BY <2>1
  <2>3. h.next[fs[Len(fs)]] = NULL
    BY <2>2 DEF Links
  <2> QED
    BY <2>1, <2>2, <2>3
<1>2. PICK f : f = SetNext(h, n, NULL)
  OBVIOUS
<1>3. /\ f \in Heaps /\ ~f.fault /\ f.next = [h.next EXCEPT ![n] = NULL]
      /\ f.prio = h.prio /\ f.value = h.value /\ f.live = h.live /\ f.used = h.used /\ f.capacity = h.capacity
      /\ f.first = h.first /\ f.last = h.last /\ f.ffirst = h.ffirst /\ f.flast = h.flast
      /\ \A x : Dead(f, x) <=> Dead(h, x)
  <2>1. NULL \in Place
    BY DEF Place
  <2> QED
    BY <1>2, <2>1, SetNextIs
<1>4. PICK l : l = SetNext(f, h.flast, n)
  OBVIOUS
<1>5. /\ l \in Heaps /\ ~l.fault /\ l.next = [f.next EXCEPT ![h.flast] = n]
      /\ l.prio = f.prio /\ l.value = f.value /\ l.live = f.live /\ l.used = f.used /\ l.capacity = f.capacity
      /\ l.first = f.first /\ l.last = f.last /\ l.ffirst = f.ffirst /\ l.flast = f.flast
  <2>1. n \in Place /\ ~Dead(f, h.flast) /\ h.flast \in Node
    BY <1>1, <1>3 DEF Place
  <2> QED
    BY <1>3, <1>4, <2>1, SetNextIs
<1>6. g = [[l EXCEPT !.flast = n] EXCEPT !.used[n[1]] = @ - 1]
  BY <1>2, <1>4, Zenon DEF Appended
<1>7. l.used \in [Blocks -> Int] /\ [l.used EXCEPT ![n[1]] = l.used[n[1]] - 1] \in [Blocks -> Int] /\ n \in Place
  BY <1>5, HeapFields DEF Place
<1>8. g = [l EXCEPT !.flast = n, !.used = [l.used EXCEPT ![n[1]] = l.used[n[1]] - 1]]
  BY <1>5, <1>6 DEF Heaps
<1>9. /\ g \in Heaps /\ ~g.fault /\ g.next = l.next /\ g.ffirst = l.ffirst
      /\ g.prio = l.prio /\ g.value = l.value /\ g.live = l.live /\ g.capacity = l.capacity
      /\ g.first = l.first /\ g.last = l.last /\ g.flast = n
      /\ g.used = [l.used EXCEPT ![n[1]] = l.used[n[1]] - 1]
  BY <1>5, <1>7, <1>8 DEF Heaps
<1>10. g.next = [h.next EXCEPT ![n] = h.next[fs[Len(fs)]], ![fs[Len(fs)]] = n]
  BY <1>1, <1>3, <1>5, <1>9
<1>11. Links(g.next, h.ffirst, InsertAt(fs, Len(fs) + 1, n))
  BY <1>1, <1>10, LinksBehind, HeapFields
<1>12. \A x \in Node : x # n /\ ~Contains(fs, x) => g.next[x] = h.next[x]
  <2>1. Contains(fs, fs[Len(fs)])
    BY <1>1 DEF Contains
  <2> QED
    BY <1>1, <1>10, <2>1, HeapFields
<1>13. /\ g.prio = h.prio /\ g.value = h.value /\ g.live = h.live /\ g.capacity = h.capacity
       /\ g.first = h.first /\ g.last = h.last /\ g.ffirst = h.ffirst
       /\ g.used = [h.used EXCEPT ![n[1]] = h.used[n[1]] - 1]
  BY <1>3, <1>5, <1>9
<1>14. Links(g.next, g.ffirst, InsertAt(fs, Len(fs) + 1, n))
  BY <1>11, <1>13
<1> QED
  BY <1>9, <1>12, <1>13, <1>14, Zenon DEF Freed, FreedBack

(* freeNode of a block node, in two parts: the node is appended, and if it  *)
(* was the last one in use the block goes.                                  *)
LEMMA FreeToBackIs ==
  ASSUME NEW h, h.flast # NULL, NEW n, NEW f, f = Appended(h, n)
  PROVE  FreeToBack(h, n) = IF f.used[n[1]] = 0 THEN DropBlock(f, n[1]) ELSE f
<1> DEFINE ended == SetNext(h, n, NULL)
           alone == [ended EXCEPT !.flast = n, !.ffirst = n]
           behind == [SetNext(ended, h.flast, n) EXCEPT !.flast = n]
           appended == IF h.flast # NULL THEN behind ELSE alone
           freed(a) == [a EXCEPT !.used[n[1]] = @ - 1]
           rest(a) == IF a.used[n[1]] = 0 THEN DropBlock(a, n[1]) ELSE a
<1>1. FreeToBack(h, n) = rest(freed(appended))
  BY DEF FreeToBack, LastOfBlock
<1>2. appended = behind
  OBVIOUS
<1>3. freed(behind) = f
  BY DEF Appended
<1> HIDE DEF appended, behind, freed
<1>4. FreeToBack(h, n) = rest(f)
  BY <1>1, <1>2, <1>3, Zenon
<1> QED
  BY <1>4

(* The least element of a set.                                              *)
LEMMA MinIs ==
  ASSUME NEW T \in SUBSET Int, NEW x \in T, \A y \in T : x <= y
  PROVE  Min(T) = x
<1>1. Min(T) \in T /\ \A y \in T : Min(T) <= y
  BY DEF Min
<1>2. PICK m \in Int : m = Min(T)
  BY <1>1
<1>3. m <= x /\ x <= m
  BY <1>1, <1>2
<1> QED
  BY <1>2, <1>3

Cut(g, h, s, t) ==
  /\ g \in Heaps /\ g.fault = h.fault /\ Links(g.next, g.ffirst, t)
  /\ \A x \in Node : ~Contains(s, x) => g.next[x] = h.next[x]
  /\ g.prio = h.prio /\ g.value = h.value /\ g.live = h.live /\ g.used = h.used /\ g.capacity = h.capacity
  /\ g.first = h.first /\ g.last = h.last

(* The loop that takes the nodes of a block out of the free list, when they *)
(* are all behind the others.                                               *)
LEMMA WithoutBlockIs ==
  ASSUME NEW h \in Heaps, NEW s, Links(h.next, h.ffirst, s), NEW b, NEW m \in 0..Len(s),
         \A i \in 1..m : s[i][1] # b, \A i \in (m + 1)..Len(s) : s[i][1] = b,
         NEW t, t = SubSeq(s, 1, m), NEW g, g = WithoutBlock(h, b)
  PROVE  Cut(g, h, s, t)
<1> DEFINE kept == {i \in DOMAIN s : s[i][1] # b}
           From(i) == IF \E j \in kept : j >= i THEN s[Min({j \in kept : j >= i})] ELSE NULL
           next == [n \in Node |-> IF \E i \in kept : s[i] = n
                                   THEN From(1 + CHOOSE i \in kept : s[i] = n) ELSE h.next[n]]
<1>1. /\ s \in Seq(Node) /\ Len(s) \in Nat /\ \A i, j \in 1..Len(s) : s[i] = s[j] => i = j
  BY Emptiness DEF Links
<1>2. Chain(h, h.ffirst) = s
  BY ChainIs
<1>3. g = [h EXCEPT !.ffirst = From(1), !.next = next]
  <2>1. g = LET chain == s
                of  == {i \in DOMAIN chain : chain[i][1] # b}
                Fr(i) == IF \E j \in of : j >= i THEN chain[Min({j \in of : j >= i})] ELSE NULL
            IN [h EXCEPT !.ffirst = Fr(1),
                         !.next = [n \in Node |-> IF \E i \in of : chain[i] = n
                                                  THEN Fr(1 + CHOOSE i \in of : chain[i] = n) ELSE @[n]]]
    BY <1>2, Zenon DEF WithoutBlock
  <2> QED
    BY <2>1, Zenon
<1>4. kept = 1..m /\ m \in Nat /\ m <= Len(s)
  <2>1. DOMAIN s = 1..Len(s) /\ m \in Nat /\ m <= Len(s)
    BY <1>1
  <2>2. \A i \in 1..Len(s) : i \in 1..m \/ i \in (m + 1)..Len(s)
    BY <2>1
  <2>3. \A i \in 1..m : i \in 1..Len(s)
    BY <2>1
  <2> QED
    BY <2>1, <2>2, <2>3
<1> HIDE DEF kept
<1>5. \A i \in Nat \ {0} : From(i) = IF i <= m THEN s[i] ELSE NULL
  <2> SUFFICES ASSUME NEW i \in Nat \ {0} PROVE From(i) = IF i <= m THEN s[i] ELSE NULL
    OBVIOUS
  <2>1. CASE i <= m
    <3> DEFINE T == {j \in kept : j >= i}
    <3>1. i \in T /\ T \in SUBSET Int /\ \A y \in T : i <= y
      BY <1>4, <2>1
    <3> HIDE DEF T
    <3>2. Min(T) = i
      BY <3>1, MinIs
    <3>3. \E j \in kept : j >= i
      BY <1>4, <2>1
    <3>4. From(i) = s[Min(T)]
      BY <3>3 DEF T
    <3> QED
      BY <2>1, <3>2, <3>4
  <2>2. CASE ~(i <= m)
    <3>1. ~\E j \in kept : j >= i
      BY <1>4, <2>2
    <3> QED
      BY <2>2, <3>1
  <2> QED
    BY <2>1, <2>2
<1>6. \A i \in 1..m : i \in 1..Len(s) /\ s[i] \in Node
  BY <1>1, <1>4
<1> HIDE DEF From
<1>7. \A i \in 1..m : next[s[i]] = IF i < m THEN s[i + 1] ELSE NULL
  <2> SUFFICES ASSUME NEW i \in 1..m PROVE next[s[i]] = IF i < m THEN s[i + 1] ELSE NULL
    OBVIOUS
  <2>1. PICK c : c = CHOOSE j \in kept : s[j] = s[i]
    OBVIOUS
  <2>2. c \in kept /\ s[c] = s[i]
    BY <1>4, <2>1
  <2>3. c = i
    BY <1>1, <1>4, <1>6, <2>2
  <2>4. next[s[i]] = From(1 + i)
    <3>1. \E j \in kept : s[j] = s[i]
      BY <2>2
    <3>2. s[i] \in Node
      BY <1>6
    <3>3. next[s[i]] = From(1 + CHOOSE j \in kept : s[j] = s[i])
      BY <3>1, <3>2
    <3> QED
      BY <2>1, <2>3, <3>3
  <2>5. 1 + i \in Nat \ {0} /\ 1 + i = i + 1 /\ (i + 1 <= m <=> i < m)
    BY <1>4
  <2> QED
    BY <1>5, <2>4, <2>5
<1>8. \A x \in Node : ~(\E i \in 1..m : s[i] = x) => next[x] = h.next[x]
  BY <1>4
<1>9. next \in [Node -> Place]
  <2>1. \A x \in Node : next[x] \in Place
    <3> SUFFICES ASSUME NEW x \in Node PROVE next[x] \in Place
      OBVIOUS
    <3>1. CASE \E i \in 1..m : s[i] = x
      <4>1. PICK i \in 1..m : s[i] = x
        BY <3>1
      <4>2. next[x] = IF i < m THEN s[i + 1] ELSE NULL
        BY <1>7, <4>1
      <4>3. i < m => s[i + 1] \in Node
        <5>1. i < m => i + 1 \in 1..m
          BY <1>4
        <5> QED
          BY <1>6, <5>1
      <4> QED
        BY <4>2, <4>3 DEF Place
    <3>2. CASE ~\E i \in 1..m : s[i] = x
      <4>1. next[x] = h.next[x]
        BY <1>8, <3>2
      <4>2. h.next[x] \in Place
        BY HeapFields
      <4> QED
        BY <4>1, <4>2
    <3> QED
      BY <3>1, <3>2
  <2>2. next = [x \in Node |-> next[x]]
    OBVIOUS
  <2> HIDE DEF next
  <2> QED
    BY <2>1, <2>2
<1>10. From(1) \in Place
  <2>1. From(1) = IF 1 <= m THEN s[1] ELSE NULL
    BY <1>5
  <2>2. 1 <= m => s[1] \in Node
    <3>1. 1 <= m => 1 \in 1..m
      BY <1>4
    <3> QED
      BY <1>6, <3>1
  <2> QED
    BY <2>1, <2>2 DEF Place
<1> HIDE DEF next
<1>11. /\ g \in Heaps /\ g.fault = h.fault /\ g.next = next /\ g.ffirst = From(1)
       /\ g.prio = h.prio /\ g.value = h.value /\ g.live = h.live /\ g.used = h.used /\ g.capacity = h.capacity
       /\ g.first = h.first /\ g.last = h.last
  BY <1>3, <1>9, <1>10 DEF Heaps
<1>12. t \in Seq(Node) /\ Len(t) = m /\ \A i \in 1..m : t[i] = s[i]
  BY <1>1, <1>4
<1>13. Links(g.next, g.ffirst, t)
  <2>1. \A i, j \in 1..Len(t) : t[i] = t[j] => i = j
    BY <1>1, <1>6, <1>12
  <2>2. g.ffirst = IF Len(t) = 0 THEN NULL ELSE t[1]
    <3>1. g.ffirst = IF 1 <= m THEN s[1] ELSE NULL
      BY <1>5, <1>11
    <3>2. 1 <= m => t[1] = s[1]
      BY <1>4, <1>12
    <3>3. 1 <= m <=> Len(t) # 0
      BY <1>4, <1>12
    <3> QED
      BY <3>1, <3>2, <3>3
  <2>3. ASSUME NEW i \in 1..Len(t) PROVE g.next[t[i]] = IF i = Len(t) THEN NULL ELSE t[i + 1]
    <3>1. g.next[t[i]] = IF i < m THEN s[i + 1] ELSE NULL
      BY <1>7, <1>11, <1>12
    <3>2. i < m => t[i + 1] = s[i + 1]
      <4>1. i < m => i + 1 \in 1..m
        BY <1>4
      <4> QED
        BY <1>12, <4>1
    <3>3. i < m <=> i # Len(t)
      BY <1>4, <1>12
    <3> QED
      BY <3>1, <3>2, <3>3
  <2> QED
    BY <1>12, <2>1, <2>2, <2>3 DEF Links
<1>14. \A x \in Node : ~Contains(s, x) => g.next[x] = h.next[x]
  <2>1. \A x \in Node : ~Contains(s, x) => ~\E i \in 1..m : s[i] = x
    BY <1>6 DEF Contains
  <2> QED
    BY <1>8, <1>11, <2>1
<1> QED
  BY <1>11, <1>13, <1>14, Zenon DEF Cut

Dropped(g, l, b) ==
  /\ g \in Heaps /\ g.fault = l.fault /\ g.next = l.next /\ g.prio = l.prio /\ g.value = l.value
  /\ g.live = l.live \ {b} /\ g.capacity = l.capacity - StorageNodes
  /\ g.first = l.first /\ g.last = l.last /\ g.ffirst = l.ffirst

(* deallocateBlock.                                                         *)
LEMMA DropFields ==
  ASSUME NEW l \in Heaps, NEW b, NEW h, l = WithoutBlock(h, b), NEW g, g = DropBlock(h, b)
  PROVE  Dropped(g, l, b)
<1>1. g = [l EXCEPT !.live = @ \ {b}, !.capacity = @ - StorageNodes]
  BY Zenon DEF DropBlock
<1>2. l.live \ {b} \subseteq Blocks /\ l.capacity - StorageNodes \in Int
  BY HeapFields, Numbers
<1> QED
  BY <1>1, <1>2 DEF Heaps, Dropped

Handed(g, h, qs, r, filling, freeing, n, later) ==
  /\ Lists(g, qs, r) /\ Places(g, qs, r, filling, freeing \ {n})
  /\ Len(r) + Len(qs) + Cardinality(later) = g.capacity
  /\ g.capacity = PreallocatedNodes + StorageNodes * Cardinality(g.live)
  /\ g.prio = h.prio /\ \A x \in Node : x # n => g.value[x] = h.value[x]
  /\ \A b \in Blocks : Cardinality(InUse(b, qs, filling \cup freeing))
                         = Cardinality(InUse(b, qs, later)) + IF n[1] = b THEN 1 ELSE 0

(* What a freed node leaves true, wherever in the free list it went.        *)
LEMMA HandedBack ==
  ASSUME NEW h, NEW qs, NEW fs, NEW filling, NEW freeing, HeapInv(h, qs, fs, filling, freeing, TRUE),
         NEW n \in freeing, NEW e, e = Emptied(h, n), NEW k \in 0..Len(fs), NEW g, Freed(g, e, fs, k, n),
         NEW r, r = InsertAt(fs, k + 1, n), NEW later, later = filling \cup (freeing \ {n})
  PROVE  Handed(g, h, qs, r, filling, freeing, n, later)
<1> DEFINE hands == filling \cup freeing
<1>0. /\ Lists(h, qs, fs) /\ Places(h, qs, fs, filling, freeing) /\ FreeList(h, qs, fs, hands, TRUE)
  BY DEF HeapInv
<1>1. h \in Heaps /\ ~h.fault /\ Links(h.next, h.first, qs) /\ Links(h.next, h.ffirst, fs)
  BY <1>0 DEF Lists
<1>2. fs \in Seq(Node) /\ Len(fs) \in Nat /\ qs \in Seq(Node) /\ Len(qs) \in Nat
  BY <1>1, Emptiness
<1>3. n \in Node /\ ~Contains(qs, n) /\ ~Contains(fs, n) /\ n \notin filling /\ Usable(h, n) /\ h.value[n] # NoValue
  BY <1>0 DEF Places
<1>4. /\ e.next = h.next /\ e.prio = h.prio /\ e.value = [h.value EXCEPT ![n] = NoValue]
      /\ e.live = h.live /\ e.capacity = h.capacity /\ e.first = h.first /\ e.last = h.last
  BY <1>1, <1>3, EmptiedIs
<1>5. /\ g \in Heaps /\ ~g.fault /\ Links(g.next, g.ffirst, r)
      /\ \A x \in Node : x # n /\ ~Contains(fs, x) => g.next[x] = h.next[x]
      /\ g.prio = h.prio /\ g.value = [h.value EXCEPT ![n] = NoValue] /\ g.live = h.live /\ g.capacity = h.capacity
      /\ g.first = h.first /\ g.last = h.last
  BY <1>4 DEF Freed
<1>6. Len(r) = Len(fs) + 1
  <2>1. fs \in Seq(Node) /\ n \in Node /\ k \in 0..Len(fs) /\ r = InsertAt(fs, k + 1, n)
    BY <1>2, <1>3
  <2>2. Inserted(Node, r, fs, k, n)
    BY <2>1, InsertAtElements
  <2> QED
    BY <2>2, Zenon DEF Inserted
<1>7. \A x : Contains(r, x) <=> Contains(fs, x) \/ x = n
  BY <1>2, <1>3, InsertAtContains
<1>8. hands = later \cup {n} /\ n \notin later /\ IsFiniteSet(freeing \ {n}) /\ IsFiniteSet(later)
  <2>1. IsFiniteSet(freeing) /\ IsFiniteSet(filling)
    BY <1>0 DEF Places
  <2>2. IsFiniteSet(freeing \ {n})
    BY <2>1, FS_RemoveElement
  <2>3. IsFiniteSet(later)
    BY <2>1, <2>2, FS_Union
  <2> QED
    BY <1>3, <2>2, <2>3
<1> HIDE DEF hands
<1>9. Lists(g, qs, r)
  <2>1. \A x \in Node : Contains(qs, x) => g.next[x] = h.next[x]
    BY <1>0, <1>3, <1>5 DEF Places
  <2>2. Links(g.next, g.first, qs)
    BY <1>1, <1>5, <2>1, LinksKept
  <2>3. /\ g.last = IF Len(qs) = 0 THEN NULL ELSE qs[Len(qs)]
        /\ \A i, j \in 1..Len(qs) : i < j => g.prio[qs[i]] <= g.prio[qs[j]]
    BY <1>0, <1>5 DEF Lists
  <2> QED
    BY <1>5, <2>2, <2>3 DEF Lists
<1>10. Places(g, qs, r, filling, freeing \ {n})
  <2>1. filling \subseteq Node /\ freeing \ {n} \subseteq Node /\ IsFiniteSet(filling) /\ filling \cap (freeing \ {n}) = {}
    BY <1>0 DEF Places
  <2>2. \A x \in Node : Usable(g, x) <=> Contains(qs, x) \/ Contains(r, x) \/ x \in later
    BY <1>0, <1>5, <1>7, <1>8 DEF Places, Usable, hands
  <2>3. \A x \in Node : ~(Contains(qs, x) /\ Contains(r, x))
    BY <1>0, <1>3, <1>7 DEF Places
  <2>4. \A x \in later : ~Contains(qs, x) /\ ~Contains(r, x)
    BY <1>0, <1>7, <1>8 DEF Places, hands
  <2>5. \A x \in Node : g.value[x] # NoValue <=> Contains(qs, x) \/ x \in freeing \ {n}
    <3>1. h.value \in [Node -> Values] /\ g.value = [h.value EXCEPT ![n] = NoValue]
      BY <1>1, <1>5, HeapFields
    <3> QED
      BY <1>0, <1>3, <3>1 DEF Places
  <2> QED
    BY <1>8, <2>1, <2>2, <2>3, <2>4, <2>5 DEF Places
<1>11. Len(r) + Len(qs) + Cardinality(later) = g.capacity
  <2>1. Cardinality(hands) = Cardinality(later) + 1 /\ Cardinality(later) \in Nat
    BY <1>8, OneMore
  <2>2. Len(fs) + Len(qs) + Cardinality(hands) = h.capacity
    BY <1>0, Zenon DEF FreeList
  <2>3. g.capacity = h.capacity
    BY <1>5
  <2> QED
    BY <1>2, <1>6, <2>1, <2>2, <2>3
<1>12. g.capacity = PreallocatedNodes + StorageNodes * Cardinality(g.live)
  <2>1. g.live = h.live /\ g.capacity = h.capacity
    BY <1>5
  <2> QED
    BY <1>0, <2>1, Zenon DEF FreeList
<1>13. \A x \in Node : x # n => g.value[x] = h.value[x]
  BY <1>1, <1>5, HeapFields
<1>14. ASSUME NEW b \in Blocks
       PROVE  Cardinality(InUse(b, qs, hands)) = Cardinality(InUse(b, qs, later)) + IF n[1] = b THEN 1 ELSE 0
  <2>1. \A x \in Node : (Contains(qs, x) \/ x \in hands) <=> (Contains(qs, x) \/ x \in later) \/ x = n
    BY <1>8
  <2> QED
    BY <1>3, <1>8, <2>1, InUseMore
<1> QED
  BY <1>5, <1>9, <1>10, <1>11, <1>12, <1>13, <1>14, Zenon DEF hands, Handed

(* The node n is back in the free list.                                    *)
FreedInto(g, h, qs, filling, freeing, n) ==
  /\ \E s : HeapInv(g, qs, s, filling, freeing \ {n}, TRUE)
  /\ g.prio = h.prio /\ \A x \in Node : x # n => g.value[x] = h.value[x]

(* A preallocated node.                                                     *)
LEMMA HeapFreeFront ==
  ASSUME NEW h, NEW qs, NEW fs, NEW filling, NEW freeing, HeapInv(h, qs, fs, filling, freeing, TRUE),
         NEW n \in freeing, n \in Preallocated, NEW g, g = DisposeAndFree(h, n)
  PROVE  FreedInto(g, h, qs, filling, freeing, n)
<1> DEFINE hands == filling \cup freeing
<1>0. /\ Lists(h, qs, fs) /\ Places(h, qs, fs, filling, freeing) /\ FreeList(h, qs, fs, hands, TRUE)
  BY DEF HeapInv
<1>1. h \in Heaps /\ ~h.fault /\ Links(h.next, h.first, qs) /\ Links(h.next, h.ffirst, fs)
  BY <1>0 DEF Lists
<1>2. fs \in Seq(Node) /\ Len(fs) \in Nat
  BY <1>1, Emptiness
<1>3. n \in Node /\ ~Contains(fs, n) /\ Usable(h, n) /\ h.value[n] # NoValue
  BY <1>0 DEF Places
<1>4. PICK e : e = Emptied(h, n)
  OBVIOUS
<1>5. /\ e \in Heaps /\ ~e.fault /\ Links(e.next, e.ffirst, fs) /\ ~Dead(e, n)
      /\ e.live = h.live /\ e.used = h.used /\ e.flast = h.flast
  BY <1>1, <1>3, <1>4, EmptiedIs, AliveNodes
<1>6. g = FreeToFront(e, n)
  BY <1>4, Zenon DEF DisposeAndFree, FreeNode, InBlock, Emptied
<1>7. /\ Freed(g, e, fs, 0, n) /\ g.used = h.used
      /\ g.flast = IF h.flast = NULL THEN n ELSE h.flast
  BY <1>3, <1>5, <1>6, FrontFreed
<1>8. PICK r : r = InsertAt(fs, 0 + 1, n)
  OBVIOUS
<1>9. PICK later : later = filling \cup (freeing \ {n})
  OBVIOUS
<1>10. 0 \in 0..Len(fs)
  BY <1>2
<1>11. /\ Lists(g, qs, r) /\ Places(g, qs, r, filling, freeing \ {n})
       /\ Len(r) + Len(qs) + Cardinality(later) = g.capacity
       /\ g.capacity = PreallocatedNodes + StorageNodes * Cardinality(g.live)
       /\ g.prio = h.prio /\ \A x \in Node : x # n => g.value[x] = h.value[x]
       /\ \A b \in Blocks : Cardinality(InUse(b, qs, hands))
                              = Cardinality(InUse(b, qs, later)) + IF n[1] = b THEN 1 ELSE 0
  <2>1. PICK k \in 0..Len(fs) : k = 0
    BY <1>10
  <2>2. Freed(g, e, fs, k, n) /\ r = InsertAt(fs, k + 1, n)
    BY <1>7, <1>8, <2>1, Zenon
  <2>3. Handed(g, h, qs, r, filling, freeing, n, later)
    BY <1>4, <1>9, <2>2, HandedBack
  <2> QED
    BY <2>3, Zenon DEF Handed
<1> HIDE DEF hands
<1>12. g.live = h.live
  BY <1>5, <1>7 DEF Freed
<1>13. /\ Len(r) = Len(fs) + 1 /\ r[1] = n
       /\ \A i \in 1..Len(fs) : r[i + 1] = fs[i]
  <2>1. Inserted(Node, r, fs, 0, n)
    BY <1>2, <1>3, <1>8, <1>10, InsertAtElements
  <2>2. Len(r) = Len(fs) + 1 /\ r[0 + 1] = n /\ \A i \in (0 + 1)..Len(fs) : r[i + 1] = fs[i]
    BY <2>1, Zenon DEF Inserted
  <2> QED
    BY <2>2
<1>14. ASSUME NEW b \in g.live
       PROVE  /\ g.used[b] = Cardinality(InUse(b, qs, later)) /\ g.used[b] > 0
              /\ Len(r) >= 2
              /\ \A i, j \in 1..Len(r) : i < j /\ r[j] \in Preallocated => r[i] \in Preallocated
              /\ g.flast = End(r)
  <2>1. b \in h.live /\ b \in Blocks
    BY <1>1, <1>12, <1>14, HeapFields
  <2>2. /\ h.used[b] = Cardinality(InUse(b, qs, hands)) /\ h.used[b] > 0 /\ Len(fs) >= 2
        /\ \A i, j \in 1..Len(fs) : i < j /\ fs[j] \in Preallocated => fs[i] \in Preallocated
        /\ h.flast = End(fs)
    BY <1>0, <2>1 DEF FreeList
  <2>3. n[1] # b
    BY <1>3, <2>1, NodeFacts
  <2>4. Cardinality(InUse(b, qs, later)) \in Nat
    BY <2>1, InUseFinite
  <2>5. g.used[b] = Cardinality(InUse(b, qs, later)) /\ g.used[b] > 0
    BY <1>7, <1>11, <2>1, <2>2, <2>3, <2>4
  <2>6. Len(r) >= 2
    BY <1>2, <1>13, <2>2
  <2>7. ASSUME NEW i \in 1..Len(r), NEW j \in 1..Len(r), i < j, r[j] \in Preallocated PROVE r[i] \in Preallocated
    <3>1. CASE i = 1
      BY <1>13, <3>1
    <3>2. CASE i # 1
      <4>1. i - 1 \in 1..Len(fs) /\ j - 1 \in 1..Len(fs) /\ i - 1 < j - 1 /\ (i - 1) + 1 = i /\ (j - 1) + 1 = j
        BY <1>2, <1>13, <2>7, <3>2
      <4>2. r[i] = fs[i - 1] /\ r[j] = fs[j - 1]
        BY <1>13, <4>1
      <4> QED
        BY <2>2, <2>7, <4>1, <4>2
    <3> QED
      BY <3>1, <3>2
  <2>8. g.flast = End(r)
    <3>1. Len(fs) \in 1..Len(fs) /\ fs[Len(fs)] \in Node
      BY <1>2, <2>2
    <3>2. h.flast = fs[Len(fs)] /\ h.flast # NULL
      BY <2>2, <3>1, NodeFacts DEF End
    <3>3. r[Len(r)] = fs[Len(fs)]
      BY <1>13, <3>1
    <3> QED
      BY <1>7, <2>6, <3>2, <3>3 DEF End
  <2> QED
    BY <2>5, <2>6, <2>7, <2>8
<1>15. \A b, c \in g.live : b = c
  BY <1>0, <1>12 DEF FreeList
<1>16. FreeList(g, qs, r, later, TRUE)
  <2>1. g.live # {} => g.flast = End(r)
    BY <1>14
  <2>2. \A b \in g.live :
          /\ g.used[b] = Cardinality(InUse(b, qs, later)) /\ g.used[b] > 0
          /\ Len(r) >= 2
          /\ \A i, j \in 1..Len(r) : i < j /\ r[j] \in Preallocated => r[i] \in Preallocated
    BY <1>14
  <2> QED
    BY <1>11, <1>15, <2>1, <2>2, Zenon DEF FreeList
<1> QED
  BY <1>9, <1>11, <1>16 DEF HeapInv, FreedInto

(* The last node of the block was freed: the block goes.                    *)
BlockGone(g, f, qs, filling, freeing) ==
  /\ \E s : HeapInv(g, qs, s, filling, freeing, TRUE)
  /\ g.prio = f.prio /\ g.value = f.value

(* deallocateBlock: the free list without the nodes of the block is linked  *)
(* right, and the preallocated nodes are all that is left.                  *)
LEMMA HeapDrop ==
  ASSUME NEW f, NEW qs, NEW r, NEW filling, NEW freeing, NEW later, later = filling \cup freeing,
         Lists(f, qs, r), Places(f, qs, r, filling, freeing),
         Len(r) + Len(qs) + Cardinality(later) = f.capacity,
         f.capacity = PreallocatedNodes + StorageNodes * Cardinality(f.live),
         NEW b \in Blocks, f.live = {b}, Cardinality(InUse(b, qs, later)) = 0,
         \A i, j \in 1..Len(r) : i < j /\ r[j] \in Preallocated => r[i] \in Preallocated,
         NEW g, g = DropBlock(f, b)
  PROVE  BlockGone(g, f, qs, filling, freeing)
<1>1. f \in Heaps /\ ~f.fault /\ Links(f.next, f.first, qs) /\ Links(f.next, f.ffirst, r)
  BY DEF Lists
<1>2. /\ r \in Seq(Node) /\ Len(r) \in Nat /\ qs \in Seq(Node) /\ Len(qs) \in Nat
      /\ \A i, j \in 1..Len(r) : r[i] = r[j] => i = j
  BY <1>1, Emptiness DEF Links
<1>3. \A i \in 1..Len(r) : r[i] \in Node /\ Contains(r, r[i])
  BY <1>2 DEF Contains
<1>4. \A x \in BlockNodes(b) : x \in Node /\ ~Contains(qs, x) /\ x \notin later /\ x \notin Preallocated /\ x[1] = b
  <2>1. InUse(b, qs, later) = {}
    BY InUseFinite, FS_EmptySet
  <2>2. \A x \in BlockNodes(b) : x \in Node /\ x \notin Preallocated /\ x[1] = b
    BY NodeFacts
  <2> QED
    BY <2>1, <2>2 DEF InUse
<1>5. \A x \in BlockNodes(b) : Contains(r, x)
  <2>1. \A x \in BlockNodes(b) : Usable(f, x)
    BY <1>4 DEF Usable
  <2> QED
    BY <1>4, <2>1 DEF Places
<1>6. \A x \in Node : Usable(f, x) => x \in Preallocated \/ x \in BlockNodes(b)
  BY NodeFacts DEF Usable
<1>7. \A x \in Node : x[1] = b <=> x \in BlockNodes(b)
  BY NodeFacts
<1>8. \A i \in 1..Len(r) : r[i] \in Preallocated <=> r[i][1] # b
  <2> SUFFICES ASSUME NEW i \in 1..Len(r) PROVE r[i] \in Preallocated <=> r[i][1] # b
    OBVIOUS
  <2>1. r[i] \in Node /\ Usable(f, r[i])
    BY <1>3 DEF Places
  <2> QED
    BY <1>4, <1>6, <1>7, <2>1
<1>9. PICK m \in 0..Len(r) : (\A i \in 1..m : r[i][1] # b) /\ (\A i \in (m + 1)..Len(r) : r[i][1] = b)
  <2> DEFINE T == {i \in 1..Len(r) : r[i][1] = b}
  <2>1. CASE T = {}
    <3>1. \A i \in 1..Len(r) : r[i][1] # b
      BY <2>1
    <3>2. Len(r) \in 0..Len(r) /\ \A i \in (Len(r) + 1)..Len(r) : FALSE
      BY <1>2
    <3> QED
      BY <3>1, <3>2
  <2>2. CASE T # {}
    <3>1. T \in SUBSET Nat
      OBVIOUS
    <3>2. PICK k \in T : \A i \in T : k <= i
      BY <2>2, <3>1, Least
    <3>3. k \in 1..Len(r) /\ k - 1 \in 0..Len(r) /\ (k - 1) + 1 = k
      BY <1>2, <3>2
    <3>4. \A i \in 1..k - 1 : r[i][1] # b
      BY <1>2, <3>2, <3>3
    <3>5. \A i \in k..Len(r) : r[i][1] = b
      <4> SUFFICES ASSUME NEW i \in k..Len(r), r[i][1] # b PROVE FALSE
        OBVIOUS
      <4>1. i \in 1..Len(r) /\ i # k /\ k < i /\ r[i] \in Preallocated
        BY <1>2, <1>8, <3>2, <3>3
      <4>2. r[k] \in Preallocated
        BY <3>3, <4>1
      <4> QED
        BY <1>8, <3>2, <3>3, <4>2
    <3> QED
      BY <3>3, <3>4, <3>5
  <2> QED
    BY <2>1, <2>2
<1>10. PICK t : t = SubSeq(r, 1, m)
  OBVIOUS
<1>11. PICK l : l = WithoutBlock(f, b)
  OBVIOUS
<1>12. /\ l \in Heaps /\ l.fault = f.fault /\ Links(l.next, l.ffirst, t)
       /\ \A x \in Node : ~Contains(r, x) => l.next[x] = f.next[x]
       /\ l.prio = f.prio /\ l.value = f.value /\ l.live = f.live /\ l.used = f.used /\ l.capacity = f.capacity
       /\ l.first = f.first /\ l.last = f.last
  <2>1. Cut(l, f, r, t)
    BY <1>1, <1>9, <1>10, <1>11, WithoutBlockIs
  <2> QED
    BY <2>1, Zenon DEF Cut
<1>13. /\ g \in Heaps /\ g.fault = l.fault /\ g.next = l.next /\ g.prio = l.prio /\ g.value = l.value
       /\ g.live = l.live \ {b} /\ g.capacity = l.capacity - StorageNodes
       /\ g.first = l.first /\ g.last = l.last /\ g.ffirst = l.ffirst
  <2>1. Dropped(g, l, b)
    BY <1>11, <1>12, DropFields
  <2> QED
    BY <2>1, Zenon DEF Dropped
<1>14. t \in Seq(Node) /\ Len(t) = m /\ m \in Nat /\ m <= Len(r) /\ \A i \in 1..m : t[i] = r[i]
  BY <1>2, <1>9, <1>10
<1>15. \A x \in Node : Contains(t, x) <=> Contains(r, x) /\ x \in Preallocated
  <2>1. ASSUME NEW x \in Node, NEW i \in 1..Len(t), t[i] = x PROVE Contains(r, x) /\ x \in Preallocated
    <3>1. i \in 1..m /\ i \in 1..Len(r) /\ r[i] = x
      BY <1>14, <2>1
    <3> QED
      BY <1>3, <1>8, <1>9, <3>1
  <2>2. ASSUME NEW x \in Node, NEW i \in 1..Len(r), r[i] = x, x \in Preallocated PROVE Contains(t, x)
    <3>1. r[i][1] # b
      BY <1>8, <2>2
    <3>2. i \in 1..m
      BY <1>2, <1>9, <3>1
    <3> QED
      BY <1>14, <2>2, <3>2 DEF Contains
  <2> QED
    BY <2>1, <2>2 DEF Contains
<1>16. Lists(g, qs, t)
  <2>1. \A x \in Node : Contains(qs, x) => l.next[x] = f.next[x]
    BY <1>12 DEF Places
  <2>2. Links(g.next, g.first, qs)
    BY <1>1, <1>12, <1>13, <2>1, LinksKept
  <2>3. /\ g.last = IF Len(qs) = 0 THEN NULL ELSE qs[Len(qs)]
        /\ \A i, j \in 1..Len(qs) : i < j => g.prio[qs[i]] <= g.prio[qs[j]]
    BY <1>12, <1>13 DEF Lists
  <2>4. g \in Heaps /\ ~g.fault /\ Links(g.next, g.ffirst, t)
    BY <1>1, <1>12, <1>13
  <2> QED
    BY <2>2, <2>3, <2>4 DEF Lists
<1>17. g.live = {}
  BY <1>12, <1>13
<1>18. Places(g, qs, t, filling, freeing)
  <2>1. \A x \in Node : Usable(g, x) <=> x \in Preallocated
    BY <1>17 DEF Usable
  <2>2. \A x \in Node : Usable(g, x) <=> Contains(qs, x) \/ Contains(t, x) \/ x \in filling \cup freeing
    <3>1. \A x \in Node : Contains(qs, x) \/ x \in filling \cup freeing => x \in Preallocated
      BY <1>4, <1>6 DEF Places
    <3>2. \A x \in Node : x \in Preallocated => Contains(qs, x) \/ Contains(r, x) \/ x \in filling \cup freeing
      BY DEF Places, Usable
    <3> QED
      BY <1>15, <2>1, <3>1, <3>2
  <2>3. /\ \A x \in Node : ~(Contains(qs, x) /\ Contains(t, x))
        /\ \A x \in filling \cup freeing : ~Contains(qs, x) /\ ~Contains(t, x)
    BY <1>15 DEF Places
  <2>4. \A x \in Node : g.value[x] # NoValue <=> Contains(qs, x) \/ x \in freeing
    BY <1>12, <1>13 DEF Places
  <2>5. filling \subseteq Node /\ freeing \subseteq Node /\ IsFiniteSet(filling) /\ IsFiniteSet(freeing) /\ filling \cap freeing = {}
    BY DEF Places
  <2> QED
    BY <2>2, <2>3, <2>4, <2>5 DEF Places
<1>19. Len(r) = Len(t) + StorageNodes
  <2> DEFINE A == {x \in Node : Contains(t, x)}
             B == BlockNodes(b)
             T == {x \in Node : Contains(r, x)}
  <2>1. IsFiniteSet(A) /\ Cardinality(A) = Len(t)
    <3>1. \A i, j \in 1..Len(t) : t[i] = t[j] => i = j
      BY <1>12 DEF Links
    <3>2. \A x : x \in A <=> \E i \in 1..Len(t) : t[i] = x
      BY <1>14 DEF Contains
    <3> HIDE DEF A
    <3> QED
      BY <1>14, <3>1, <3>2, InjectiveLength
  <2>2. IsFiniteSet(T) /\ Cardinality(T) = Len(r)
    <3>1. \A x : x \in T <=> \E i \in 1..Len(r) : r[i] = x
      BY <1>3 DEF Contains
    <3> HIDE DEF T
    <3> QED
      BY <1>2, <3>1, InjectiveLength
  <2>3. IsFiniteSet(B) /\ Cardinality(B) = StorageNodes
    BY NodesFinite
  <2>4. T = A \cup B
    <3>1. \A x \in T : x \in A \/ x \in B
      <4> SUFFICES ASSUME NEW x \in T PROVE x \in A \/ x \in B
        OBVIOUS
      <4>1. x \in Node /\ Contains(r, x)
        OBVIOUS
      <4>2. Usable(f, x)
        BY <4>1 DEF Places
      <4> QED
        BY <1>6, <1>15, <4>1, <4>2
    <3>2. \A x \in A : x \in T
      BY <1>15
    <3>3. \A x \in B : x \in T
      BY <1>4, <1>5
    <3> QED
      BY <3>1, <3>2, <3>3
  <2>5. A \cap B = {}
    BY <1>4, <1>15
  <2> HIDE DEF A, B, T
  <2>6. Cardinality(A \cup B) = Cardinality(A) + Cardinality(B) - Cardinality(A \cap B)
    BY <2>1, <2>3, FS_Union
  <2>7. Cardinality(A \cap B) = 0
    BY <2>5, FS_EmptySet
  <2> QED
    BY <1>14, <2>1, <2>2, <2>3, <2>4, <2>6, <2>7, Numbers
<1>20. FreeList(g, qs, t, later, TRUE)
  <2>1. f.capacity = PreallocatedNodes + StorageNodes
    <3>1. Cardinality(f.live) = 1
      BY FS_Singleton
    <3> QED
      BY <3>1, Numbers
  <2>2. g.capacity = PreallocatedNodes
    <3>1. g.capacity = f.capacity - StorageNodes
      BY <1>12, <1>13
    <3> QED
      BY <2>1, <3>1, Numbers
  <2>3. g.capacity = PreallocatedNodes + StorageNodes * Cardinality(g.live)
    <3>1. Cardinality(g.live) = 0
      BY <1>17, FS_EmptySet
    <3> QED
      BY <2>2, <3>1, Numbers
  <2>4. Len(t) + Len(qs) + Cardinality(later) = g.capacity
    <3>1. IsFiniteSet(later)
      BY FS_Union DEF Places
    <3>2. Cardinality(later) \in Nat
      BY <3>1, FS_CardinalityType
    <3> QED
      BY <1>2, <1>14, <1>19, <2>1, <2>2, <3>2, Numbers
  <2> QED
    BY <1>17, <2>3, <2>4, Zenon DEF FreeList
<1>21. HeapInv(g, qs, t, filling, freeing, TRUE)
  BY <1>16, <1>18, <1>20 DEF HeapInv
<1> QED
  BY <1>12, <1>13, <1>21 DEF BlockGone

(* A node of the block.                                                     *)
LEMMA HeapFreeBack ==
  ASSUME NEW h, NEW qs, NEW fs, NEW filling, NEW freeing, HeapInv(h, qs, fs, filling, freeing, TRUE),
         NEW n \in freeing, n \notin Preallocated, NEW g, g = DisposeAndFree(h, n)
  PROVE  FreedInto(g, h, qs, filling, freeing, n)
<1> DEFINE hands == filling \cup freeing
<1>0. /\ Lists(h, qs, fs) /\ Places(h, qs, fs, filling, freeing) /\ FreeList(h, qs, fs, hands, TRUE)
  BY DEF HeapInv
<1>1. h \in Heaps /\ ~h.fault /\ Links(h.next, h.first, qs) /\ Links(h.next, h.ffirst, fs)
  BY <1>0 DEF Lists
<1>2. fs \in Seq(Node) /\ Len(fs) \in Nat
  BY <1>1, Emptiness
<1>3. n \in Node /\ ~Contains(fs, n) /\ Usable(h, n) /\ h.value[n] # NoValue
  BY <1>0 DEF Places
<1>4. PICK b : b = n[1]
  OBVIOUS
<1>5. b \in Blocks /\ b \in h.live
  BY <1>3, <1>4, NodeFacts DEF Usable
<1>6. /\ h.used[b] = Cardinality(InUse(b, qs, hands)) /\ Len(fs) >= 2
      /\ \A i, j \in 1..Len(fs) : i < j /\ fs[j] \in Preallocated => fs[i] \in Preallocated
  BY <1>0, <1>5 DEF FreeList
<1>7. Len(fs) \in 1..Len(fs) /\ fs[Len(fs)] \in Node /\ h.flast = fs[Len(fs)] /\ h.flast # NULL
  <2>1. Len(fs) \in 1..Len(fs) /\ fs[Len(fs)] \in Node
    BY <1>2, <1>6
  <2>2. h.flast = End(fs)
    BY <1>0, <1>5 DEF FreeList
  <2> QED
    BY <1>6, <2>1, <2>2, NodeFacts DEF End
<1> HIDE DEF hands
<1>8. PICK e : e = Emptied(h, n)
  OBVIOUS
<1>9. /\ e \in Heaps /\ ~e.fault /\ Links(e.next, e.ffirst, fs) /\ ~Dead(e, n) /\ ~Dead(e, e.flast)
      /\ e.live = h.live /\ e.used = h.used /\ e.flast = h.flast
  <2>1. ~Dead(h, n)
    BY <1>3, AliveNodes
  <2>2. ~Dead(h, h.flast)
    <3>1. Contains(fs, h.flast)
      BY <1>7 DEF Contains
    <3>2. Usable(h, h.flast)
      BY <1>0, <1>7, <3>1 DEF Places
    <3> QED
      BY <1>7, <3>2, AliveNodes
  <2> QED
    BY <1>1, <1>3, <1>8, <2>1, <2>2, EmptiedIs
<1>10. PICK f : f = Appended(e, n)
  OBVIOUS
<1>11. /\ Freed(f, e, fs, Len(fs), n) /\ f.flast = n
       /\ f.used = [h.used EXCEPT ![b] = h.used[b] - 1]
  <2>1. Len(fs) >= 1 /\ e.flast = fs[Len(fs)] /\ n[1] \in Blocks
    BY <1>2, <1>4, <1>5, <1>6, <1>7, <1>9
  <2>2. /\ Freed(f, e, fs, Len(fs), n) /\ f.flast = n
        /\ f.used = [e.used EXCEPT ![n[1]] = e.used[n[1]] - 1]
    <3>1. FreedBack(f, e, fs, n)
      BY <1>3, <1>9, <1>10, <2>1, BackFreed
    <3> QED
      BY <3>1, Zenon DEF FreedBack
  <2> QED
    BY <1>4, <1>9, <2>2
<1>12. g = IF f.used[b] = 0 THEN DropBlock(f, b) ELSE f
  <2>1. g = FreeToBack(e, n)
    BY <1>8, Zenon DEF DisposeAndFree, FreeNode, InBlock, Emptied
  <2>2. e.flast # NULL
    BY <1>7, <1>9
  <2>3. FreeToBack(e, n) = IF f.used[n[1]] = 0 THEN DropBlock(f, n[1]) ELSE f
    BY <1>10, <2>2, FreeToBackIs
  <2> QED
    BY <1>4, <2>1, <2>3
<1>13. PICK r : r = InsertAt(fs, Len(fs) + 1, n)
  OBVIOUS
<1>14. PICK later : later = filling \cup (freeing \ {n})
  OBVIOUS
<1>15. Handed(f, h, qs, r, filling, freeing, n, later)
  <2>1. Len(fs) \in 0..Len(fs)
    BY <1>2
  <2> QED
    BY <1>8, <1>11, <1>13, <1>14, <2>1, HandedBack
<1>16. /\ Lists(f, qs, r) /\ Places(f, qs, r, filling, freeing \ {n})
       /\ Len(r) + Len(qs) + Cardinality(later) = f.capacity
       /\ f.capacity = PreallocatedNodes + StorageNodes * Cardinality(f.live)
       /\ f.prio = h.prio /\ \A x \in Node : x # n => f.value[x] = h.value[x]
       /\ Cardinality(InUse(b, qs, hands)) = Cardinality(InUse(b, qs, later)) + 1
  <2>1. /\ Lists(f, qs, r) /\ Places(f, qs, r, filling, freeing \ {n})
        /\ Len(r) + Len(qs) + Cardinality(later) = f.capacity
        /\ f.capacity = PreallocatedNodes + StorageNodes * Cardinality(f.live)
        /\ f.prio = h.prio /\ \A x \in Node : x # n => f.value[x] = h.value[x]
    BY <1>15, Zenon DEF Handed
  <2>2. Cardinality(InUse(b, qs, hands)) = Cardinality(InUse(b, qs, later)) + IF n[1] = b THEN 1 ELSE 0
    BY <1>5, <1>15, Zenon DEF Handed, hands
  <2>3. Cardinality(InUse(b, qs, hands)) = Cardinality(InUse(b, qs, later)) + 1
    BY <1>4, <2>2
  <2> QED
    BY <2>1, <2>3
<1>17. Cardinality(InUse(b, qs, later)) \in Nat /\ f.used[b] = Cardinality(InUse(b, qs, later))
  <2>1. Cardinality(InUse(b, qs, later)) \in Nat
    BY <1>5, InUseFinite
  <2>2. h.used \in [Blocks -> Int]
    BY <1>1, HeapFields
  <2>3. f.used[b] = h.used[b] - 1
    BY <1>5, <1>11, <2>2
  <2> QED
    BY <1>6, <1>16, <2>1, <2>3
<1>18. f.live = {b}
  <2>1. f.live = h.live
    BY <1>9, <1>11 DEF Freed
  <2>2. h.live = {b}
    BY <1>0, <1>5, OneBlock DEF FreeList
  <2> QED
    BY <2>1, <2>2
<1>19. Len(r) = Len(fs) + 1 /\ r[Len(fs) + 1] = n /\ \A i \in 1..Len(fs) : r[i] = fs[i]
  <2>1. fs \in Seq(Node) /\ n \in Node /\ Len(fs) \in 0..Len(fs) /\ r = InsertAt(fs, Len(fs) + 1, n)
    BY <1>2, <1>3, <1>13
  <2>2. Inserted(Node, r, fs, Len(fs), n)
    BY <2>1, InsertAtElements
  <2> QED
    BY <2>2, Zenon DEF Inserted
<1>20. ASSUME NEW i \in 1..Len(r), NEW j \in 1..Len(r), i < j, r[j] \in Preallocated PROVE r[i] \in Preallocated
  <2>1. j # Len(fs) + 1
    BY <1>19, <1>20
  <2>2. i \in 1..Len(fs) /\ j \in 1..Len(fs)
    BY <1>2, <1>19, <1>20, <2>1
  <2> QED
    BY <1>6, <1>19, <1>20, <2>2
<1>21. CASE f.used[b] = 0
  <2>1. g = DropBlock(f, b)
    BY <1>12, <1>21
  <2>2. Cardinality(InUse(b, qs, later)) = 0
    BY <1>17, <1>21
  <2>3. PICK fr : fr = freeing \ {n}
    OBVIOUS
  <2>4. later = filling \cup fr /\ Places(f, qs, r, filling, fr) /\ Lists(f, qs, r)
    BY <1>14, <1>16, <2>3
  <2>5. BlockGone(g, f, qs, filling, fr)
    BY <1>5, <1>16, <1>18, <1>20, <2>1, <2>2, <2>4, HeapDrop
  <2> QED
    BY <1>16, <2>3, <2>5 DEF BlockGone, FreedInto
<1>22. CASE f.used[b] # 0
  <2>1. g = f
    BY <1>12, <1>22
  <2>2. \A c \in f.live :
          /\ f.used[c] = Cardinality(InUse(c, qs, later)) /\ f.used[c] > 0
          /\ Len(r) >= 2
          /\ \A i, j \in 1..Len(r) : i < j /\ r[j] \in Preallocated => r[i] \in Preallocated
    <3>1. Len(r) >= 2 /\ f.used[b] > 0
      BY <1>2, <1>6, <1>17, <1>19, <1>22
    <3>2. ASSUME NEW c \in f.live PROVE c = b
      BY <1>18
    <3> QED
      BY <1>17, <1>20, <3>1, <3>2
  <2>3. f.flast = End(r)
    <3>1. Len(r) >= 2 /\ r[Len(r)] = n
      BY <1>2, <1>6, <1>19
    <3> QED
      BY <1>11, <3>1 DEF End
  <2>4. \A c, d \in f.live : c = d
    BY <1>18
  <2>5. FreeList(f, qs, r, later, TRUE)
    BY <1>16, <2>2, <2>3, <2>4, Zenon DEF FreeList
  <2>6. HeapInv(f, qs, r, filling, freeing \ {n}, TRUE)
    BY <1>14, <1>16, <2>5, Zenon DEF HeapInv
  <2> QED
    BY <1>16, <2>1, <2>6 DEF FreedInto
<1> QED
  BY <1>21, <1>22

(* DisposeAndFree.                                                          *)
LEMMA HeapFree ==
  ASSUME NEW h, NEW qs, NEW fs, NEW filling, NEW freeing, HeapInv(h, qs, fs, filling, freeing, TRUE),
         NEW n \in freeing, NEW g, g = DisposeAndFree(h, n)
  PROVE  FreedInto(g, h, qs, filling, freeing, n)
<1>1. CASE n \in Preallocated
  BY <1>1, HeapFreeFront
<1>2. CASE n \notin Preallocated
  BY <1>2, HeapFreeBack
<1> QED
  BY <1>1, <1>2

-----------------------------------------------------------------------------
(* The lists the invariant speaks of are the lists of the heap.             *)
LEMMA Known ==
  ASSUME NEW h, NEW qs, NEW fs, NEW filling, NEW freeing, NEW pop, HeapInv(h, qs, fs, filling, freeing, pop)
  PROVE  Chain(h, h.first) = qs /\ Chain(h, h.ffirst) = fs
<1>1. Links(h.next, h.first, qs) /\ Links(h.next, h.ffirst, fs)
  BY DEF HeapInv, Lists
<1> QED
  BY <1>1, ChainIs

(* The heap of a new queue.                                                 *)
LEMMA InitialHeapInv ==
  \E s : HeapInv(InitialHeap, <<>>, s, {}, {}, FALSE)
<1> DEFINE P == PreallocatedNodes
           s == [i \in 1..P |-> <<"pre", i>>]
           bare == [next |-> [n \in Node |-> NULL]]
           l == Linked(bare, "pre", P)
<1>1. PICK h : h = InitialHeap
  OBVIOUS
<1>2. /\ h = [next |-> l, prio |-> [n \in Node |-> 0], value |-> [n \in Node |-> NoValue],
              live |-> {}, used |-> [b \in Blocks |-> 0], capacity |-> P,
              first |-> NULL, last |-> NULL, ffirst |-> <<"pre", 1>>, flast |-> <<"pre", P>>, fault |-> FALSE]
  BY <1>1, Zenon DEF InitialHeap
<1>3. \A i \in 1..P : <<"pre", i>> \in Preallocated /\ <<"pre", i>> \in Node
  BY NodeFacts DEF Preallocated
<1>4. \A x \in Node : x[1] = "pre" => \E i \in 1..P : x = <<"pre", i>>
  BY NodeFacts DEF Preallocated
<1>5. P \in Nat /\ P >= 2 /\ 1 \in 1..P /\ P \in 1..P
  BY Numbers
<1>6. \A x \in Node : l[x] = IF x[1] # "pre" THEN NULL ELSE IF x[2] < P THEN <<"pre", x[2] + 1>> ELSE NULL
  BY DEF Linked
<1>7. ASSUME NEW i \in 1..P
      PROVE  l[<<"pre", i>>] = (IF i < P THEN <<"pre", i + 1>> ELSE NULL) /\ l[<<"pre", i>>] \in Place
  <2>1. <<"pre", i>> \in Node /\ <<"pre", i>>[1] = "pre" /\ <<"pre", i>>[2] = i
    BY <1>3
  <2>2. l[<<"pre", i>>] = IF i < P THEN <<"pre", i + 1>> ELSE NULL
    BY <1>6, <2>1
  <2>3. i < P => <<"pre", i + 1>> \in Node
    <3>1. i < P => i + 1 \in 1..P
      BY <1>5
    <3> QED
      BY <1>3, <3>1
  <2> QED
    BY <2>2, <2>3 DEF Place
<1>8. l \in [Node -> Place]
  <2>1. \A x \in Node : l[x] \in Place
    <3> SUFFICES ASSUME NEW x \in Node PROVE l[x] \in Place
      OBVIOUS
    <3>1. CASE x[1] # "pre"
      BY <1>6, <3>1 DEF Place
    <3>2. CASE x[1] = "pre"
      BY <1>4, <1>7, <3>2
    <3> QED
      BY <3>1, <3>2
  <2>2. l = [x \in Node |-> l[x]]
    BY DEF Linked
  <2> HIDE DEF l
  <2> QED
    BY <2>1, <2>2
<1> HIDE DEF l, P
<1>9. /\ s \in Seq(Node) /\ Len(s) = P /\ \A i \in 1..P : s[i] = <<"pre", i>>
  BY <1>3, <1>5
<1>10. \A x \in Node : Contains(s, x) <=> x \in Preallocated
  <2>1. \A x \in Node : x \in Preallocated => Contains(s, x)
    BY <1>4, <1>9, NodeFacts DEF Contains
  <2>2. \A x \in Node : Contains(s, x) => x \in Preallocated
    BY <1>3, <1>9 DEF Contains
  <2> QED
    BY <2>1, <2>2
<1> HIDE DEF s
<1>11. h \in Heaps
  <2>1. NoValue \in Values /\ NULL \in Place /\ <<"pre", 1>> \in Place /\ <<"pre", P>> \in Place
    BY <1>3, <1>5, Numbers DEF NoValue, Values, Place
  <2> QED
    BY <1>2, <1>5, <1>8, <2>1 DEF Heaps
<1>12. ~h.fault /\ h.first = NULL /\ h.last = NULL /\ h.next = l /\ h.ffirst = <<"pre", 1>> /\ h.flast = <<"pre", P>>
       /\ h.live = {} /\ h.capacity = P /\ h.value = [n \in Node |-> NoValue]
  BY <1>2
<1>13. <<>> \in Seq(Node) /\ Len(<<>>) = 0 /\ \A x : ~Contains(<<>>, x)
  BY DEF Contains
<1>14. Lists(h, <<>>, s)
  <2>1. Links(h.next, h.first, <<>>)
    BY <1>12, <1>13 DEF Links
  <2>2. Links(h.next, h.ffirst, s)
    <3>1. \A i, j \in 1..Len(s) : s[i] = s[j] => i = j
      BY <1>9
    <3>2. h.ffirst = IF Len(s) = 0 THEN NULL ELSE s[1]
      BY <1>5, <1>9, <1>12
    <3>3. ASSUME NEW i \in 1..Len(s) PROVE h.next[s[i]] = IF i = Len(s) THEN NULL ELSE s[i + 1]
      <4>1. h.next[s[i]] = IF i < P THEN <<"pre", i + 1>> ELSE NULL
        <5>1. i \in 1..P /\ s[i] = <<"pre", i>>
          BY <1>9
        <5> QED
          BY <1>7, <1>12, <5>1
      <4>2. i < P => s[i + 1] = <<"pre", i + 1>>
        <5>1. i < P => i + 1 \in 1..P
          BY <1>5, <1>9
        <5> QED
          BY <1>9, <5>1
      <4>3. i < P <=> i # Len(s)
        BY <1>5, <1>9
      <4> QED
        BY <4>1, <4>2, <4>3
    <3> QED
      BY <1>9, <3>1, <3>2, <3>3 DEF Links
  <2> QED
    BY <1>11, <1>12, <1>13, <2>1, <2>2 DEF Lists
<1>15. Places(h, <<>>, s, {}, {})
  <2>1. \A x \in Node : Usable(h, x) <=> x \in Preallocated
    BY <1>12 DEF Usable
  <2>2. IsFiniteSet({})
    BY FS_EmptySet
  <2> QED
    BY <1>10, <1>12, <1>13, <2>1, <2>2 DEF Places
<1>16. FreeList(h, <<>>, s, {} \cup {}, FALSE)
  <2>1. Cardinality({} \cup {}) = 0 /\ Cardinality(h.live) = 0
    BY <1>12, FS_EmptySet
  <2>2. h.capacity = PreallocatedNodes + StorageNodes * Cardinality(h.live)
    BY <1>12, <2>1, Numbers DEF P
  <2>3. Len(s) + Len(<<>>) + Cardinality({} \cup {}) = h.capacity
    BY <1>5, <1>9, <1>12, <1>13, <2>1
  <2>4. h.flast = End(s)
    BY <1>5, <1>9, <1>12 DEF End
  <2> QED
    BY <1>12, <2>2, <2>3, <2>4, Zenon DEF FreeList
<1> QED
  BY <1>1, <1>14, <1>15, <1>16 DEF HeapInv

-----------------------------------------------------------------------------
(* What threads carry is a set of as many nodes.                            *)
LEMMA HandsCount ==
  ASSUME NEW p, NEW h, HandsInv(p, h)
  PROVE  /\ {h[t] : t \in {t \in Threads : p[t] \in Busy}} = Carried(p, h, "push") \cup Carried(p, h, "free")
         /\ IsFiniteSet({t \in Threads : p[t] \in Busy})
         /\ Cardinality({t \in Threads : p[t] \in Busy}) = Cardinality(Carried(p, h, "push") \cup Carried(p, h, "free"))
<1> DEFINE T == {t \in Threads : p[t] \in Busy}
           S == {h[t] : t \in T}
           f == [t \in T |-> h[t]]
<1>1. S = Carried(p, h, "push") \cup Carried(p, h, "free")
  BY DEF Carried, Busy
<1>2. f \in Bijection(T, S)
  <2>1. \A t, u \in T : f[t] = f[u] => t = u
    BY DEF HandsInv
  <2>2. f \in [T -> S] /\ \A x \in S : \E t \in T : f[t] = x
    OBVIOUS
  <2> HIDE DEF T, S, f
  <2> QED
    BY <2>1, <2>2 DEF Bijection, Injection, Surjection, IsInjective
<1>3. IsFiniteSet(T)
  BY PriorityQueueAssumption, FS_Subset
<1>4. Cardinality(T) = Cardinality(S)
  <2> HIDE DEF T, S, f
  <2> QED
    BY <1>2, <1>3, FS_Bijection DEF ExistsBijection
<1> QED
  BY <1>1, <1>3, <1>4, Zenon

(* The threads in a push can be counted.                                    *)
LEMMA PushersFinite ==
  ASSUME NEW p
  PROVE  IsFiniteSet(Doing(p, "push")) /\ Cardinality(Doing(p, "push")) \in Nat
<1>1. Doing(p, "push") \in SUBSET Threads
  BY DEF Doing
<1> QED
  BY <1>1, PriorityQueueAssumption, FS_Subset, FS_CardinalityType

(* A thread takes a node.                                                   *)
Took(p, h, q, g, what, n) ==
  /\ HandsInv(q, g)
  /\ \A w \in Busy : Carried(q, g, w) = IF w = what THEN Carried(p, h, w) \cup {n} ELSE Carried(p, h, w)

(* A thread that carries nothing takes a node nobody carries.               *)
LEMMA HandsTake ==
  ASSUME NEW p, NEW h, HandsInv(p, h), NEW t \in Threads, p[t] \notin Busy, NEW what \in Busy,
         NEW n \in Node, n \notin Carried(p, h, "push") \cup Carried(p, h, "free"),
         NEW q, q = [p EXCEPT ![t] = what], NEW g, g = [h EXCEPT ![t] = n]
  PROVE  Took(p, h, q, g, what, n)
<1>1. h[t] = NULL /\ n # NULL /\ p \in [Threads -> {"idle", "push", "free", "clear", "destroy"}] /\ h \in [Threads -> Place]
  BY NodeFacts DEF HandsInv
<1>2. \A u \in Threads : h[u] # n
  <2>1. \A u \in Threads : h[u] = n => p[u] \in Busy
    BY <1>1 DEF HandsInv
  <2> QED
    BY <2>1 DEF Carried, Busy
<1>3. \A u \in Threads : q[u] = (IF u = t THEN what ELSE p[u]) /\ g[u] = IF u = t THEN n ELSE h[u]
  BY <1>1
<1>4. q \in [Threads -> {"idle", "push", "free", "clear", "destroy"}] /\ g \in [Threads -> Place]
  BY <1>1 DEF Busy, Place
<1>5. HandsInv(q, g)
  <2>1. \A u \in Threads : q[u] \in Busy <=> g[u] # NULL
    BY <1>1, <1>3 DEF HandsInv
  <2>2. \A u, v \in Threads : g[u] # NULL /\ g[u] = g[v] => u = v
    BY <1>1, <1>2, <1>3 DEF HandsInv
  <2> QED
    BY <1>4, <2>1, <2>2 DEF HandsInv
<1>6. ASSUME NEW w \in Busy
      PROVE  Carried(q, g, w) = IF w = what THEN Carried(p, h, w) \cup {n} ELSE Carried(p, h, w)
  <2>1. \A x : x \in Carried(q, g, w) <=> \E u \in Threads : q[u] = w /\ g[u] = x
    BY DEF Carried
  <2>2. \A x : x \in Carried(p, h, w) <=> \E u \in Threads : p[u] = w /\ h[u] = x
    BY DEF Carried
  <2>3. p[t] # w
    OBVIOUS
  <2>4. CASE w = what
    <3>1. ASSUME NEW x, x \in Carried(q, g, w) PROVE x = n \/ x \in Carried(p, h, w)
      <4>1. PICK u \in Threads : q[u] = w /\ g[u] = x
        BY <2>1, <3>1
      <4> QED
        BY <1>3, <2>2, <4>1
    <3>2. ASSUME NEW x, x \in Carried(p, h, w) PROVE x \in Carried(q, g, w)
      <4>1. PICK u \in Threads : p[u] = w /\ h[u] = x
        BY <2>2, <3>2
      <4> QED
        BY <1>3, <2>1, <2>3, <4>1
    <3>3. n \in Carried(q, g, w)
      BY <1>3, <2>1, <2>4
    <3> QED
      BY <2>4, <3>1, <3>2, <3>3
  <2>5. CASE w # what
    <3>2. \A u \in Threads : p[u] = w <=> q[u] = w
      BY <1>3, <2>3, <2>5
    <3>3. \A u \in Threads : p[u] = w => g[u] = h[u]
      BY <1>3, <2>3
    <3> QED
      BY <2>5, <3>2, <3>3 DEF Carried
  <2> QED
    BY <2>4, <2>5
<1> QED
  BY <1>5, <1>6 DEF Took

(* A thread is done with its node.                                          *)
Gave(p, h, q, g, t) ==
  /\ HandsInv(q, g) /\ h[t] \in Carried(p, h, p[t])
  /\ \A w \in Busy : Carried(q, g, w) = IF w = p[t] THEN Carried(p, h, w) \ {h[t]} ELSE Carried(p, h, w)

(* A thread gives away the node it carries.                                 *)
LEMMA HandsEmptied ==
  ASSUME NEW p, NEW h, HandsInv(p, h), NEW t \in Threads, p[t] \in Busy,
         NEW q, q = [p EXCEPT ![t] = "idle"], NEW g, g = [h EXCEPT ![t] = NULL]
  PROVE  Gave(p, h, q, g, t)
<1>1. h[t] # NULL /\ p \in [Threads -> {"idle", "push", "free", "clear", "destroy"}] /\ h \in [Threads -> Place]
  BY DEF HandsInv
<1>2. \A u \in Threads : h[u] = h[t] => u = t
  BY <1>1 DEF HandsInv
<1>3. \A u \in Threads : q[u] = (IF u = t THEN "idle" ELSE p[u]) /\ g[u] = IF u = t THEN NULL ELSE h[u]
  BY <1>1
<1>4. q \in [Threads -> {"idle", "push", "free", "clear", "destroy"}] /\ g \in [Threads -> Place]
  BY <1>1 DEF Place
<1>5. HandsInv(q, g)
  <2>1. \A u \in Threads : q[u] \in Busy <=> g[u] # NULL
    BY <1>1, <1>3 DEF HandsInv, Busy
  <2>2. \A u, v \in Threads : g[u] # NULL /\ g[u] = g[v] => u = v
    BY <1>1, <1>3 DEF HandsInv
  <2> QED
    BY <1>4, <2>1, <2>2 DEF HandsInv
<1>6. ASSUME NEW w \in Busy
      PROVE  Carried(q, g, w) = IF w = p[t] THEN Carried(p, h, w) \ {h[t]} ELSE Carried(p, h, w)
  <2>1. \A x : x \in Carried(q, g, w) <=> \E u \in Threads : q[u] = w /\ g[u] = x
    BY DEF Carried
  <2>2. \A x : x \in Carried(p, h, w) <=> \E u \in Threads : p[u] = w /\ h[u] = x
    BY DEF Carried
  <2>3. w # "idle"
    BY DEF Busy
  <2>4. CASE w = p[t]
    <3>1. ASSUME NEW x, x \in Carried(q, g, w) PROVE x # h[t] /\ x \in Carried(p, h, w)
      <4>1. PICK u \in Threads : q[u] = w /\ g[u] = x
        BY <2>1, <3>1
      <4> QED
        BY <1>2, <1>3, <2>2, <2>3, <4>1
    <3>2. ASSUME NEW x, x \in Carried(p, h, w), x # h[t] PROVE x \in Carried(q, g, w)
      <4>1. PICK u \in Threads : p[u] = w /\ h[u] = x
        BY <2>2, <3>2
      <4> QED
        BY <1>3, <2>1, <3>2, <4>1
    <3> QED
      BY <2>4, <3>1, <3>2
  <2>5. CASE w # p[t]
    <3>1. \A u \in Threads : p[u] = w <=> q[u] = w
      BY <1>3, <2>3, <2>5
    <3>2. \A u \in Threads : p[u] = w => g[u] = h[u]
      BY <1>3, <2>5
    <3> QED
      BY <2>5, <3>1, <3>2 DEF Carried
  <2> QED
    BY <2>4, <2>5
<1>7. h[t] \in Carried(p, h, p[t])
  BY DEF Carried
<1> QED
  BY <1>5, <1>6, <1>7 DEF Gave

(* What the threads' work leaves that carries nothing.                      *)
Kept(p, q, h) == HandsInv(q, h) /\ \A w \in Busy : Carried(q, h, w) = Carried(p, h, w)

(* A thread clears or destroys the queue, or has done so.                   *)
LEMMA HandsKept ==
  ASSUME NEW p, NEW h, HandsInv(p, h), NEW t \in Threads, p[t] \notin Busy,
         NEW what \in {"idle", "clear", "destroy"}, NEW q, q = [p EXCEPT ![t] = what]
  PROVE  Kept(p, q, h)
<1>1. h[t] = NULL /\ p \in [Threads -> {"idle", "push", "free", "clear", "destroy"}] /\ h \in [Threads -> Place]
  BY DEF HandsInv
<1>2. \A u \in Threads : q[u] = (IF u = t THEN what ELSE p[u])
  BY <1>1
<1>3. what \notin Busy
  BY DEF Busy
<1>4. HandsInv(q, h)
  <2>1. q \in [Threads -> {"idle", "push", "free", "clear", "destroy"}]
    BY <1>1
  <2>2. \A u \in Threads : q[u] \in Busy <=> h[u] # NULL
    BY <1>1, <1>2, <1>3 DEF HandsInv
  <2> QED
    BY <2>1, <2>2 DEF HandsInv
<1>5. ASSUME NEW w \in Busy PROVE Carried(q, h, w) = Carried(p, h, w)
  <2>1. \A u \in Threads : q[u] = w <=> p[u] = w
    BY <1>2, <1>3
  <2> QED
    BY <2>1 DEF Carried
<1> QED
  BY <1>4, <1>5, Zenon DEF Kept

-----------------------------------------------------------------------------
(* What the queue's users see of it.                                        *)
Entries(h, qs) ==
  [i \in 1..Len(qs) |->
     [prio |-> h.prio[qs[i]], first |-> h.value[qs[i]].first, stamp |-> h.value[qs[i]].stamp]]

Seen == [prio : Int, first : BOOLEAN, stamp : 0..MaxPush]

(* The entries of a list of nodes, one by one.                              *)
LEMMA EntriesAre ==
  ASSUME NEW h \in Heaps, NEW qs \in Seq(Node)
  PROVE  /\ Entries(h, qs) \in Seq(Seen) /\ Len(Entries(h, qs)) = Len(qs)
         /\ \A i \in 1..Len(qs) : Entries(h, qs)[i] =
              [prio |-> h.prio[qs[i]], first |-> h.value[qs[i]].first, stamp |-> h.value[qs[i]].stamp]
<1>1. \A i \in 1..Len(qs) : qs[i] \in Node
  OBVIOUS
<1>2. \A x \in Node : h.prio[x] \in Int /\ h.value[x] \in Values
  BY HeapFields
<1>3. \A x \in Node : [prio |-> h.prio[x], first |-> h.value[x].first, stamp |-> h.value[x].stamp] \in Seen
  BY <1>2 DEF Values, Seen
<1>4. Len(qs) \in Nat
  OBVIOUS
<1>5. Entries(h, qs) \in Seq(Seen) /\ Len(Entries(h, qs)) = Len(qs)
  <2>1. \A i \in 1..Len(qs) : [prio |-> h.prio[qs[i]], first |-> h.value[qs[i]].first, stamp |-> h.value[qs[i]].stamp] \in Seen
    BY <1>1, <1>3
  <2>2. Entries(h, qs) \in [1..Len(qs) -> Seen]
    BY <2>1 DEF Entries
  <2> QED
    BY <1>4, <2>2
<1> QED
  BY <1>5 DEF Entries

(* The entries depend on nothing but the queued nodes.                      *)
LEMMA EntriesSame ==
  ASSUME NEW h, NEW g, NEW qs \in Seq(Node),
         \A x \in Node : Contains(qs, x) => g.prio[x] = h.prio[x] /\ g.value[x] = h.value[x]
  PROVE  Entries(g, qs) = Entries(h, qs)
<1>1. \A i \in 1..Len(qs) : qs[i] \in Node /\ Contains(qs, qs[i])
  BY DEF Contains
<1>2. \A i \in 1..Len(qs) : g.prio[qs[i]] = h.prio[qs[i]] /\ g.value[qs[i]] = h.value[qs[i]]
  BY <1>1
<1> QED
  BY <1>2 DEF Entries

(* A popped node is a popped entry.                                         *)
LEMMA EntriesTail ==
  ASSUME NEW h \in Heaps, NEW qs \in Seq(Node), Len(qs) > 0
  PROVE  Entries(h, Tail(qs)) = Tail(Entries(h, qs)) /\ Entries(h, qs) # <<>>
<1> DEFINE E(x) == [prio |-> h.prio[x], first |-> h.value[x].first, stamp |-> h.value[x].stamp]
<1>1. PICK t : t = Tail(qs)
  OBVIOUS
<1>2. t \in Seq(Node) /\ Len(t) = Len(qs) - 1 /\ \A i \in 1..Len(qs) - 1 : t[i] = qs[i + 1]
  BY <1>1, TailElements
<1>3. PICK e : e = Entries(h, qs)
  OBVIOUS
<1>4. e \in Seq(Seen) /\ Len(e) = Len(qs) /\ \A i \in 1..Len(qs) : e[i] = E(qs[i])
  BY <1>3, EntriesAre
<1>5. PICK d : d = Entries(h, t)
  OBVIOUS
<1>6. d \in Seq(Seen) /\ Len(d) = Len(t) /\ \A i \in 1..Len(t) : d[i] = E(t[i])
  BY <1>2, <1>5, EntriesAre
<1> HIDE DEF E
<1>7. /\ Tail(e) \in Seq(Seen) /\ Len(Tail(e)) = Len(qs) - 1 /\ e # <<>>
      /\ \A i \in 1..Len(qs) - 1 : Tail(e)[i] = e[i + 1]
  BY <1>4, TailElements
<1>8. \A i \in 1..Len(qs) - 1 : d[i] = Tail(e)[i]
  <2> SUFFICES ASSUME NEW i \in 1..Len(qs) - 1 PROVE d[i] = Tail(e)[i]
    OBVIOUS
  <2>1. i \in 1..Len(t) /\ i + 1 \in 1..Len(qs)
    BY <1>2
  <2> QED
    BY <1>2, <1>4, <1>6, <1>7, <2>1
<1>9. d = Tail(e)
  BY <1>2, <1>6, <1>7, <1>8
<1> QED
  BY <1>1, <1>3, <1>5, <1>7, <1>9

(* A node enqueued at its place is an entry pushed.                         *)
LEMMA EntriesPush ==
  ASSUME NEW h \in Heaps, NEW g \in Heaps, NEW qs \in Seq(Node), NEW n \in Node, ~Contains(qs, n),
         NEW k \in 0..Len(qs), NEW p \in Int, NEW first \in BOOLEAN, NEW stamp \in 1..MaxPush, PlaceFor(h, qs, p, first, k),
         g.prio = [h.prio EXCEPT ![n] = p], g.value = [h.value EXCEPT ![n] = [stamp |-> stamp, first |-> first]],
         NEW r, r = InsertAt(qs, k + 1, n)
  PROVE  IsPushOf(Entries(g, r), Entries(h, qs), [prio |-> p, first |-> first, stamp |-> stamp])
<1> DEFINE E(x) == [prio |-> h.prio[x], first |-> h.value[x].first, stamp |-> h.value[x].stamp]
           F(x) == [prio |-> g.prio[x], first |-> g.value[x].first, stamp |-> g.value[x].stamp]
<1>1. /\ r \in Seq(Node) /\ Len(r) = Len(qs) + 1
      /\ \A i \in 1..k : r[i] = qs[i]
      /\ r[k + 1] = n
      /\ \A i \in (k + 1)..Len(qs) : r[i + 1] = qs[i]
  <2>1. Inserted(Node, r, qs, k, n)
    BY InsertAtElements
  <2> QED
    BY <2>1, Zenon DEF Inserted
<1>2. PICK d : d = Entries(h, qs)
  OBVIOUS
<1>3. PICK e : e = Entries(g, r)
  OBVIOUS
<1>4. PICK v : v = [prio |-> p, first |-> first, stamp |-> stamp]
  OBVIOUS
<1>5. d \in Seq(Seen) /\ Len(d) = Len(qs) /\ \A i \in 1..Len(qs) : d[i] = E(qs[i])
  BY <1>2, EntriesAre
<1>6. e \in Seq(Seen) /\ Len(e) = Len(r) /\ \A i \in 1..Len(r) : e[i] = F(r[i])
  <2>1. r \in Seq(Node)
    BY <1>1
  <2>2. e \in Seq(Seen) /\ Len(e) = Len(r)
    BY <1>3, <2>1, EntriesAre
  <2>3. \A i \in 1..Len(r) : e[i] = F(r[i])
    BY <1>3 DEF Entries
  <2> QED
    BY <2>2, <2>3
<1>7. \A x \in Node : x # n => g.prio[x] = h.prio[x] /\ g.value[x] = h.value[x]
  BY HeapFields
<1>8. F(n) = v
  <2>1. g.prio[n] = p /\ g.value[n] = [stamp |-> stamp, first |-> first]
    BY HeapFields
  <2> QED
    BY <1>4, <2>1
<1>9. \A i \in 1..Len(qs) : qs[i] \in Node /\ qs[i] # n
  BY DEF Contains
<1>10. \A i \in 1..Len(qs) : F(qs[i]) = E(qs[i])
  BY <1>7, <1>9
<1>11. v \in Seen
  BY <1>4, Numbers DEF Seen
<1>12. IsPlaceFor(d, v, k)
  <2>1. \A i \in 1..Len(qs) : GoesBehind(v, d[i]) <=> StaysAhead(h, qs[i], p, first)
    <3> SUFFICES ASSUME NEW i \in 1..Len(qs) PROVE GoesBehind(v, d[i]) <=> StaysAhead(h, qs[i], p, first)
      OBVIOUS
    <3>1. v.prio = p /\ v.first = first
      BY <1>4
    <3>2. d[i].prio = h.prio[qs[i]]
      BY <1>2 DEF Entries
    <3> QED
      BY <3>1, <3>2 DEF GoesBehind, StaysAhead
  <2>2. ASSUME NEW i \in 1..k PROVE GoesBehind(v, d[i])
    <3>1. i \in 1..Len(qs)
      OBVIOUS
    <3> QED
      BY <2>1, <3>1 DEF PlaceFor
  <2>3. ASSUME NEW i \in (k + 1)..Len(d) PROVE ~GoesBehind(v, d[i])
    <3>1. i \in 1..Len(qs) /\ i \in (k + 1)..Len(qs)
      BY <1>5
    <3> QED
      BY <2>1, <3>1 DEF PlaceFor
  <2> QED
    BY <2>2, <2>3 DEF IsPlaceFor
<1> HIDE DEF E, F
<1>13. e = InsertAt(d, k + 1, v)
  <2>1. Len(e) = Len(d) + 1
    BY <1>1, <1>5, <1>6
  <2>2. ASSUME NEW i \in 1..k PROVE e[i] = d[i]
    <3>1. i \in 1..Len(qs) /\ i \in 1..Len(r)
      BY <1>1
    <3> QED
      BY <1>1, <1>5, <1>6, <1>10, <3>1
  <2>3. e[k + 1] = v
    <3>1. k + 1 \in 1..Len(r)
      BY <1>1
    <3> QED
      BY <1>1, <1>6, <1>8, <3>1
  <2>4. ASSUME NEW i \in (k + 1)..Len(d) PROVE e[i + 1] = d[i]
    <3>1. i \in 1..Len(qs) /\ i \in (k + 1)..Len(qs) /\ i + 1 \in 1..Len(r)
      BY <1>1, <1>5
    <3>2. r[i + 1] = qs[i]
      BY <1>1, <3>1
    <3>3. e[i + 1] = F(r[i + 1])
      BY <1>6, <3>1
    <3>4. F(qs[i]) = d[i]
      BY <1>5, <1>10, <3>1
    <3> QED
      BY <3>2, <3>3, <3>4
  <2>5. k \in 0..Len(d)
    BY <1>5
  <2> QED
    BY <1>5, <1>6, <1>11, <2>1, <2>2, <2>3, <2>4, <2>5, InsertAtIs
<1> QED
  <2>1. k \in 0..Len(d)
    BY <1>5
  <2>2. IsPushOf(e, d, v)
    BY <1>12, <1>13, <2>1 DEF IsPushOf
  <2> QED
    BY <1>2, <1>3, <1>4, <2>2, Zenon

-----------------------------------------------------------------------------
(* The invariant, read: the lists, what is carried, and how much that is.   *)
LEMMA QueueNow ==
  ASSUME QueueInv
  PROVE  /\ HeapInv(heap, Queued, Free, Carried(pc, hand, "push"), Carried(pc, hand, "free"), popped)
         /\ HandsInv(pc, hand) /\ heap \in Heaps /\ Queued \in Seq(Node) /\ Len(Queued) \in Nat
         /\ Pending = Len(Queued) + Cardinality(Carried(pc, hand, "push") \cup Carried(pc, hand, "free"))
         /\ Cardinality(Carried(pc, hand, "push") \cup Carried(pc, hand, "free")) \in Nat
         /\ Pending <= MaxPending /\ pushes \in Nat /\ pushes + Cardinality(Doing(pc, "push")) <= MaxPush
         /\ popped \in BOOLEAN /\ (\A t \in Threads : pc[t] = "free" => popped)
         /\ QueuedEntries = Entries(heap, Queued)
<1>1. HeapInv(heap, Queued, Free, Carried(pc, hand, "push"), Carried(pc, hand, "free"), popped) /\ HandsInv(pc, hand)
  BY DEF QueueInv, ThreadsInv
<1>2. heap \in Heaps /\ Links(heap.next, heap.first, Queued)
  BY <1>1 DEF HeapInv, Lists
<1>3. Queued \in Seq(Node) /\ Len(Queued) \in Nat
  BY <1>2, Emptiness
<1>4. /\ IsFiniteSet({t \in Threads : pc[t] \in Busy})
      /\ Cardinality({t \in Threads : pc[t] \in Busy}) = Cardinality(Carried(pc, hand, "push") \cup Carried(pc, hand, "free"))
  BY <1>1, HandsCount
<1>5. Pending = Len(Queued) + Cardinality({t \in Threads : pc[t] \in Busy})
  BY Zenon DEF Pending, Busy
<1>6. Cardinality({t \in Threads : pc[t] \in Busy}) \in Nat
  BY <1>4, FS_CardinalityType
<1>7. QueuedEntries = Entries(heap, Queued)
  BY Zenon DEF QueuedEntries, Entries
<1>8. /\ Pending <= MaxPending /\ pushes \in Nat /\ pushes + Cardinality(Doing(pc, "push")) <= MaxPush
      /\ popped \in BOOLEAN /\ (\A t \in Threads : pc[t] = "free" => popped)
  BY DEF QueueInv, ThreadsInv
<1> QED
  BY <1>1, <1>2, <1>3, <1>4, <1>5, <1>6, <1>7, <1>8, Zenon

(* The state of the threads after a step.                                   *)
Reached(p, h, qs, filling, freeing) ==
  /\ HandsInv(p, h) /\ Carried(p, h, "push") = filling /\ Carried(p, h, "free") = freeing
  /\ Len(qs) + Cardinality(filling \cup freeing) <= MaxPending

(* The invariant of the next state, from its lists and its threads.         *)
LEMMA QueueNext ==
  ASSUME NEW qs, NEW fs, NEW filling, NEW freeing,
         HeapInv(heap', qs, fs, filling, freeing, popped'), Reached(pc', hand', qs, filling, freeing),
         pushes' \in Nat, pushes' + Cardinality(Doing(pc', "push")) <= MaxPush,
         popped' \in BOOLEAN, \A t \in Threads : pc'[t] = "free" => popped'
  PROVE  QueueInv' /\ QueuedEntries' = Entries(heap', qs)
<1>1. Queued' = qs /\ Free' = fs
  <2>1. Chain(heap', heap'.first) = qs /\ Chain(heap', heap'.ffirst) = fs
    BY Known
  <2> QED
    BY <2>1 DEF Queued, Free
<1>2. HandsInv(pc', hand') /\ Carried(pc', hand', "push") = filling /\ Carried(pc', hand', "free") = freeing
  BY DEF Reached
<1>3. ThreadsInv'
  BY <1>2 DEF ThreadsInv
<1>4. HeapInv(heap', Queued', Free', Carried(pc', hand', "push"), Carried(pc', hand', "free"), popped')
  BY <1>1, <1>2
<1>5. Pending' <= MaxPending
  <2>1. Cardinality({t \in Threads : pc'[t] \in Busy}) = Cardinality(filling \cup freeing)
    BY <1>2, HandsCount
  <2>2. Pending' = Len(Queued') + Cardinality({t \in Threads : pc'[t] \in Busy})
    BY Zenon DEF Pending, Busy
  <2> QED
    BY <1>1, <2>1, <2>2 DEF Reached
<1>6. QueuedEntries' = Entries(heap', Queued')
  BY Zenon DEF QueuedEntries, Entries
<1> QED
  BY <1>1, <1>3, <1>4, <1>5, <1>6 DEF QueueInv

(* What a thread does with its node changes the number of pushes under way. *)
LEMMA PushersMore ==
  ASSUME NEW p, NEW t \in Threads, p[t] # "push", NEW q, \A u \in Threads : q[u] = IF u = t THEN "push" ELSE p[u]
  PROVE  Cardinality(Doing(q, "push")) = Cardinality(Doing(p, "push")) + 1
<1>1. Doing(q, "push") = Doing(p, "push") \cup {t} /\ t \notin Doing(p, "push")
  BY DEF Doing
<1> QED
  BY <1>1, PushersFinite, OneMore

(* A push is over.                                                          *)
LEMMA PushersLess ==
  ASSUME NEW p, NEW t \in Threads, p[t] = "push", NEW q, \A u \in Threads : q[u] = IF u = t THEN "idle" ELSE p[u]
  PROVE  Cardinality(Doing(q, "push")) = Cardinality(Doing(p, "push")) - 1
<1>1. Doing(q, "push") = Doing(p, "push") \ {t} /\ t \in Doing(p, "push")
  BY DEF Doing
<1> QED
  BY <1>1, PushersFinite, OneLess

(* A thread does something else than a push.                                *)
LEMMA PushersSame ==
  ASSUME NEW p, NEW t \in Threads, p[t] # "push", NEW q, NEW what, what # "push",
         \A u \in Threads : q[u] = IF u = t THEN what ELSE p[u]
  PROVE  Doing(q, "push") = Doing(p, "push")
BY DEF Doing

-----------------------------------------------------------------------------
(* The steps.                                                               *)
LEMMA AllocateStep ==
  ASSUME OneBurst, QueueInv, NEW t \in Threads, Allocate(t)
  PROVE  QueueInv' /\ UNCHANGED <<QueuedEntries, pushes>>
<1>1. PICK qs, fs, filling, freeing, h :
        qs = Queued /\ fs = Free /\ filling = Carried(pc, hand, "push") /\ freeing = Carried(pc, hand, "free") /\ h = heap
  OBVIOUS
<1>2. /\ HeapInv(h, qs, fs, filling, freeing, popped) /\ HandsInv(pc, hand)
      /\ h \in Heaps /\ qs \in Seq(Node) /\ Len(qs) \in Nat
      /\ Pending = Len(qs) + Cardinality(filling \cup freeing) /\ Cardinality(filling \cup freeing) \in Nat
      /\ pushes \in Nat /\ popped \in BOOLEAN /\ (\A u \in Threads : pc[u] = "free" => popped)
      /\ QueuedEntries = Entries(h, qs)
  BY <1>1, QueueNow
<1>3. /\ pc[t] = "idle" /\ Pending < MaxPending /\ pushes + Cardinality(Doing(pc, "push")) < MaxPush
      /\ pc' = [pc EXCEPT ![t] = "push"] /\ UNCHANGED <<pushes, popped, alive>>
  BY Zenon DEF Allocate, Doing
<1>4. \E n, s : /\ n \in Node /\ n \notin filling \cup freeing /\ HeapInv(heap', qs, s, filling \cup {n}, freeing, popped)
                /\ hand' = [hand EXCEPT ![t] = n] /\ heap'.prio = h.prio /\ heap'.value = h.value
  <2>1. CASE heap.ffirst # NULL /\ hand' = [hand EXCEPT ![t] = heap.ffirst] /\ heap' = TakeFree(heap)
    <3>1. h.ffirst # NULL /\ Len(qs) + Cardinality(filling \cup freeing) < MaxPending /\ heap' = TakeFree(h)
      BY <1>1, <1>2, <1>3, <2>1
    <3>2. PICK g : g = heap'
      OBVIOUS
    <3>3. /\ h.ffirst \in Node /\ h.ffirst \notin filling \cup freeing
          /\ HeapInv(g, qs, Tail(fs), filling \cup {h.ffirst}, freeing, popped)
          /\ g.prio = h.prio /\ g.value = h.value
      BY <1>2, <3>1, <3>2, HeapTake
    <3> QED
      BY <1>1, <2>1, <3>2, <3>3
  <2>2. CASE /\ heap.ffirst = NULL /\ (Reuse \/ ~ popped)
             /\ \E b \in Blocks \ heap.live : hand' = [hand EXCEPT ![t] = <<b, 1>>] /\ heap' = TakeFromBlock(heap, b)
    <3>1. popped = FALSE
      BY <1>2, <2>2 DEF OneBurst
    <3>2. PICK b \in Blocks \ h.live : hand' = [hand EXCEPT ![t] = <<b, 1>>] /\ heap' = TakeFromBlock(h, b)
      BY <1>1, <2>2
    <3>3. PICK g : g = heap'
      OBVIOUS
    <3>4. HeapInv(h, qs, fs, filling, freeing, FALSE) /\ h.ffirst = NULL /\ g = TakeFromBlock(h, b)
      BY <1>1, <1>2, <2>2, <3>1, <3>2, <3>3
    <3>5. /\ <<b, 1>> \in Node /\ <<b, 1>> \notin filling \cup freeing
          /\ \E s : HeapInv(g, qs, s, filling \cup {<<b, 1>>}, freeing, FALSE)
          /\ g.prio = h.prio /\ g.value = h.value
      BY <3>4, HeapBlock
    <3> QED
      BY <3>1, <3>2, <3>3, <3>5
  <2> QED
    BY <2>1, <2>2 DEF Allocate
<1>5. PICK n, s : /\ n \in Node /\ n \notin filling \cup freeing /\ HeapInv(heap', qs, s, filling \cup {n}, freeing, popped)
                  /\ hand' = [hand EXCEPT ![t] = n] /\ heap'.prio = h.prio /\ heap'.value = h.value
  BY <1>4
<1>6. pc[t] \notin Busy /\ "push" \in Busy /\ "free" \in Busy
  BY <1>3 DEF Busy
<1>7. /\ HandsInv(pc', hand')
      /\ Carried(pc', hand', "push") = filling \cup {n} /\ Carried(pc', hand', "free") = freeing
  <2>1. PICK q, g : q = pc' /\ g = hand'
    OBVIOUS
  <2>2. n \notin Carried(pc, hand, "push") \cup Carried(pc, hand, "free")
    BY <1>1, <1>5
  <2>3. Took(pc, hand, q, g, "push", n)
    BY <1>2, <1>3, <1>5, <1>6, <2>1, <2>2, HandsTake
  <2> QED
    BY <1>1, <1>6, <2>1, <2>3 DEF Took
<1>8. Len(qs) + Cardinality((filling \cup {n}) \cup freeing) <= MaxPending
  <2>1. IsFiniteSet(filling \cup freeing)
    BY <1>2, FS_Union DEF HeapInv, Places
  <2>2. Cardinality((filling \cup {n}) \cup freeing) = Cardinality(filling \cup freeing) + 1
    BY <1>5, <2>1, OneMore
  <2> QED
    BY <1>2, <1>3, <2>2, Numbers
<1>9. pushes' + Cardinality(Doing(pc', "push")) <= MaxPush
  <2>1. \A u \in Threads : pc'[u] = IF u = t THEN "push" ELSE pc[u]
    BY <1>2, <1>3 DEF HandsInv
  <2>2. Cardinality(Doing(pc', "push")) = Cardinality(Doing(pc, "push")) + 1 /\ Cardinality(Doing(pc, "push")) \in Nat
    BY <1>3, <2>1, PushersMore, PushersFinite
  <2> QED
    BY <1>2, <1>3, <2>2, Numbers
<1>10. \A u \in Threads : pc'[u] = "free" => popped'
  BY <1>2, <1>3 DEF HandsInv
<1>11. QueueInv' /\ QueuedEntries' = Entries(heap', qs)
  <2>1. Reached(pc', hand', qs, filling \cup {n}, freeing)
    BY <1>7, <1>8 DEF Reached
  <2>2. HeapInv(heap', qs, s, filling \cup {n}, freeing, popped')
    BY <1>3, <1>5
  <2> QED
    BY <1>2, <1>3, <1>9, <1>10, <2>1, <2>2, QueueNext
<1>12. Entries(heap', qs) = Entries(h, qs)
  BY <1>2, <1>5, EntriesSame
<1> QED
  BY <1>2, <1>3, <1>11, <1>12

(* Push: the node the thread carries is queued at the place of its          *)
(* priority, as a push of the sorted queue.                                 *)
LEMMA PushStep ==
  ASSUME QueueInv, NEW t \in Threads, Push(t)
  PROVE  /\ QueueInv' /\ pushes < MaxPush /\ pushes' = pushes + 1
         /\ \E p \in Priorities, first \in BOOLEAN :
              IsPushOf(QueuedEntries', QueuedEntries, [prio |-> p, first |-> first, stamp |-> pushes + 1])
<1>1. PICK qs, fs, filling, freeing, h, n :
        /\ qs = Queued /\ fs = Free /\ filling = Carried(pc, hand, "push") /\ freeing = Carried(pc, hand, "free") /\ h = heap
        /\ n = hand[t]
  OBVIOUS
<1>2. /\ HeapInv(h, qs, fs, filling, freeing, popped) /\ HandsInv(pc, hand)
      /\ h \in Heaps /\ qs \in Seq(Node) /\ Len(qs) \in Nat
      /\ Pending = Len(qs) + Cardinality(filling \cup freeing) /\ Cardinality(filling \cup freeing) \in Nat
      /\ Pending <= MaxPending /\ pushes + Cardinality(Doing(pc, "push")) <= MaxPush
      /\ pushes \in Nat /\ popped \in BOOLEAN /\ (\A u \in Threads : pc[u] = "free" => popped)
      /\ QueuedEntries = Entries(h, qs)
  BY <1>1, QueueNow
<1>3. /\ pc[t] = "push" /\ pushes' = pushes + 1
      /\ pc' = [pc EXCEPT ![t] = "idle"] /\ hand' = [hand EXCEPT ![t] = NULL] /\ UNCHANGED <<popped, alive>>
  BY Zenon DEF Push
<1>4. PICK p \in Priorities, first \in BOOLEAN : heap' = PushNode(heap, hand[t], p, first, pushes + 1)
  BY Zenon DEF Push
<1>5. pc[t] \in Busy /\ "push" \in Busy /\ "free" \in Busy /\ "push" # "free"
  BY <1>3 DEF Busy
<1>6. /\ HandsInv(pc', hand') /\ n \in filling
      /\ Carried(pc', hand', "push") = filling \ {n} /\ Carried(pc', hand', "free") = freeing
  <2>1. PICK q, g : q = pc' /\ g = hand'
    OBVIOUS
  <2>2. Gave(pc, hand, q, g, t)
    BY <1>2, <1>3, <1>5, <2>1, HandsEmptied
  <2> QED
    BY <1>1, <1>3, <1>5, <2>1, <2>2 DEF Gave
<1>7. Cardinality(Doing(pc', "push")) = Cardinality(Doing(pc, "push")) - 1 /\ Cardinality(Doing(pc', "push")) \in Nat
  <2>1. \A u \in Threads : pc'[u] = IF u = t THEN "idle" ELSE pc[u]
    BY <1>2, <1>3 DEF HandsInv
  <2> QED
    BY <1>3, <2>1, PushersLess, PushersFinite
<1>8. Cardinality(Doing(pc, "push")) \in Nat
  BY PushersFinite
<1>9. pushes < MaxPush /\ pushes' + Cardinality(Doing(pc', "push")) <= MaxPush
  BY <1>2, <1>3, <1>7, <1>8, Numbers
<1>10. PICK stamp \in 1..MaxPush : stamp = pushes + 1
  BY <1>2, <1>9, Numbers
<1>11. p \in Int
  BY PriorityQueueAssumption
<1>12. PICK g : g = heap'
  OBVIOUS
<1>13. g = PushNode(h, n, p, first, stamp)
  BY <1>1, <1>4, <1>10, <1>12
<1>14. PICK k \in 0..Len(qs) :
         /\ HeapInv(g, InsertAt(qs, k + 1, n), fs, filling \ {n}, freeing, popped)
         /\ PlaceFor(h, qs, p, first, k)
         /\ g.prio = [h.prio EXCEPT ![n] = p]
         /\ g.value = [h.value EXCEPT ![n] = [stamp |-> stamp, first |-> first]]
  <2>1. n \in filling /\ p \in Int /\ first \in BOOLEAN /\ stamp \in 1..MaxPush
    BY <1>4, <1>6, <1>10, <1>11
  <2>2. Pushed(g, h, qs, fs, filling, freeing, popped, n, p, first, stamp)
    BY <1>2, <1>13, <2>1, HeapPush
  <2> QED
    BY <2>2, Zenon DEF Pushed
<1>15. PICK r : r = InsertAt(qs, k + 1, n)
  OBVIOUS
<1>16. n \in Node /\ ~Contains(qs, n)
  BY <1>2, <1>6 DEF HeapInv, Places
<1>17. Len(r) = Len(qs) + 1
  <2>1. Inserted(Node, r, qs, k, n)
    BY <1>2, <1>15, <1>16, InsertAtElements
  <2> QED
    BY <2>1, Zenon DEF Inserted
<1>18. Len(r) + Cardinality((filling \ {n}) \cup freeing) <= MaxPending
  <2>1. IsFiniteSet(filling \cup freeing) /\ n \notin freeing
    BY <1>2, <1>6, FS_Union DEF HeapInv, Places
  <2>2. (filling \ {n}) \cup freeing = (filling \cup freeing) \ {n} /\ n \in filling \cup freeing
    BY <1>6, <2>1
  <2>3. Cardinality((filling \ {n}) \cup freeing) = Cardinality(filling \cup freeing) - 1
    BY <2>1, <2>2, OneLess
  <2> QED
    BY <1>2, <1>17, <2>3, Numbers
<1>19. QueueInv' /\ QueuedEntries' = Entries(heap', r)
  <2>1. Reached(pc', hand', r, filling \ {n}, freeing)
    BY <1>6, <1>18 DEF Reached
  <2>2. HeapInv(heap', r, fs, filling \ {n}, freeing, popped')
    BY <1>3, <1>12, <1>14, <1>15
  <2>3. pushes' \in Nat /\ popped' \in BOOLEAN /\ \A u \in Threads : pc'[u] = "free" => popped'
    BY <1>2, <1>3 DEF HandsInv
  <2> QED
    BY <1>9, <2>1, <2>2, <2>3, QueueNext
<1>20. IsPushOf(Entries(g, r), Entries(h, qs), [prio |-> p, first |-> first, stamp |-> stamp])
  <2>1. g \in Heaps
    BY <1>14 DEF HeapInv, Lists
  <2> QED
    BY <1>2, <1>11, <1>14, <1>15, <1>16, <2>1, EntriesPush
<1>21. IsPushOf(QueuedEntries', QueuedEntries, [prio |-> p, first |-> first, stamp |-> pushes + 1])
  BY <1>2, <1>10, <1>12, <1>19, <1>20
<1> QED
  BY <1>3, <1>9, <1>19, <1>21

(* Pop: the first node is in the thread's hands, as a pop of the sorted     *)
(* queue.                                                                   *)
LEMMA PopStep ==
  ASSUME QueueInv, NEW t \in Threads, Pop(t)
  PROVE  QueueInv' /\ QueuedEntries # <<>> /\ QueuedEntries' = Tail(QueuedEntries) /\ UNCHANGED pushes
<1>1. PICK qs, fs, filling, freeing, h, n :
        /\ qs = Queued /\ fs = Free /\ filling = Carried(pc, hand, "push") /\ freeing = Carried(pc, hand, "free") /\ h = heap
        /\ n = heap.first
  OBVIOUS
<1>2. /\ HeapInv(h, qs, fs, filling, freeing, popped) /\ HandsInv(pc, hand)
      /\ h \in Heaps /\ qs \in Seq(Node) /\ Len(qs) \in Nat
      /\ Pending = Len(qs) + Cardinality(filling \cup freeing) /\ Cardinality(filling \cup freeing) \in Nat
      /\ Pending <= MaxPending /\ pushes + Cardinality(Doing(pc, "push")) <= MaxPush
      /\ pushes \in Nat /\ QueuedEntries = Entries(h, qs)
  BY <1>1, QueueNow
<1>3. /\ pc[t] = "idle" /\ heap.first # NULL /\ hand' = [hand EXCEPT ![t] = heap.first] /\ heap' = PopNode(heap)
      /\ popped' = TRUE /\ pc' = [pc EXCEPT ![t] = "free"] /\ UNCHANGED <<pushes, alive>>
  BY Zenon DEF Pop
<1>4. PICK g : g = heap'
  OBVIOUS
<1>5. h.first # NULL /\ g = PopNode(h)
  BY <1>1, <1>3, <1>4
<1>6. /\ Len(qs) > 0 /\ h.first = qs[1] /\ h.first \in Node
      /\ HeapInv(g, Tail(qs), fs, filling, freeing \cup {h.first}, TRUE)
      /\ g.prio = h.prio /\ g.value = h.value
  BY <1>2, <1>5, HeapPop
<1>7. PICK r : r = Tail(qs)
  OBVIOUS
<1>8. n \in Node /\ n \notin filling \cup freeing /\ h.first = n
  <2>1. Contains(qs, n)
    BY <1>1, <1>2, <1>6 DEF Contains
  <2> QED
    BY <1>1, <1>2, <1>6, <2>1 DEF HeapInv, Places
<1>9. pc[t] \notin Busy /\ "push" \in Busy /\ "free" \in Busy /\ "push" # "free"
  BY <1>3 DEF Busy
<1>10. /\ HandsInv(pc', hand')
       /\ Carried(pc', hand', "push") = filling /\ Carried(pc', hand', "free") = freeing \cup {n}
  <2>1. PICK q, d : q = pc' /\ d = hand'
    OBVIOUS
  <2>2. Took(pc, hand, q, d, "free", n)
    BY <1>1, <1>2, <1>3, <1>8, <1>9, <2>1, HandsTake
  <2> QED
    BY <1>1, <1>9, <2>1, <2>2 DEF Took
<1>11. Len(r) = Len(qs) - 1
  BY <1>2, <1>6, <1>7, TailElements
<1>12. Len(r) + Cardinality(filling \cup (freeing \cup {n})) <= MaxPending
  <2>1. IsFiniteSet(filling \cup freeing)
    BY <1>2, FS_Union DEF HeapInv, Places
  <2>2. Cardinality(filling \cup (freeing \cup {n})) = Cardinality(filling \cup freeing) + 1
    BY <1>8, <2>1, OneMore
  <2> QED
    BY <1>2, <1>11, <2>2, Numbers
<1>13. pushes' + Cardinality(Doing(pc', "push")) <= MaxPush
  <2>1. \A u \in Threads : pc'[u] = IF u = t THEN "free" ELSE pc[u]
    BY <1>2, <1>3 DEF HandsInv
  <2>2. Doing(pc', "push") = Doing(pc, "push")
    <3>1. pc[t] # "push" /\ "free" # "push"
      BY <1>3
    <3>2. PICK q, what : q = pc' /\ what = "free"
      OBVIOUS
    <3>3. what # "push" /\ \A u \in Threads : q[u] = IF u = t THEN what ELSE pc[u]
      BY <2>1, <3>1, <3>2
    <3>4. Doing(q, "push") = Doing(pc, "push")
      BY <3>1, <3>3, PushersSame
    <3> QED
      BY <3>2, <3>4
  <2> QED
    BY <1>2, <1>3, <2>2
<1>14. QueueInv' /\ QueuedEntries' = Entries(heap', r)
  <2>1. Reached(pc', hand', r, filling, freeing \cup {n})
    BY <1>10, <1>12 DEF Reached
  <2>2. HeapInv(heap', r, fs, filling, freeing \cup {n}, popped')
    BY <1>3, <1>4, <1>6, <1>7, <1>8
  <2>3. pushes' \in Nat /\ popped' \in BOOLEAN /\ \A u \in Threads : pc'[u] = "free" => popped'
    BY <1>2, <1>3
  <2> QED
    BY <1>13, <2>1, <2>2, <2>3, QueueNext
<1>15. Entries(h, r) = Tail(Entries(h, qs)) /\ Entries(h, qs) # <<>>
  BY <1>2, <1>6, <1>7, EntriesTail
<1>16. Entries(g, r) = Entries(h, r)
  BY <1>6 DEF Entries
<1> QED
  BY <1>2, <1>3, <1>4, <1>14, <1>15, <1>16

(* What a disposal leaves: the same queue, and some free list.              *)
Disposed(g, h, qs, filling, freeing) ==
  /\ \E s : HeapInv(g, qs, s, filling, freeing, TRUE)
  /\ Entries(g, qs) = Entries(h, qs)

(* A step that frees the node n, which a thread carries or has just popped, *)
(* leaves the queue as it is.                                               *)
LEMMA Disposal ==
  ASSUME NEW h, NEW qs, NEW fs, NEW filling, NEW freeing, HeapInv(h, qs, fs, filling, freeing, TRUE),
         NEW n \in freeing, NEW g, g = DisposeAndFree(h, n)
  PROVE  Disposed(g, h, qs, filling, freeing \ {n})
<1>1. FreedInto(g, h, qs, filling, freeing, n)
  BY HeapFree
<1>2. /\ \E s : HeapInv(g, qs, s, filling, freeing \ {n}, TRUE)
      /\ g.prio = h.prio /\ \A x \in Node : x # n => g.value[x] = h.value[x]
  BY <1>1, Zenon DEF FreedInto
<1>3. qs \in Seq(Node)
  BY DEF HeapInv, Lists, Links
<1>4. ~Contains(qs, n)
  BY DEF HeapInv, Places
<1>5. \A x \in Node : Contains(qs, x) => g.prio[x] = h.prio[x] /\ g.value[x] = h.value[x]
  BY <1>2, <1>4
<1>6. Entries(g, qs) = Entries(h, qs)
  BY <1>3, <1>5, EntriesSame
<1> QED
  BY <1>2, <1>6, Zenon DEF Disposed

(* Release: the popped node goes back, and the queue stays.                 *)
LEMMA ReleaseStep ==
  ASSUME QueueInv, NEW t \in Threads, Release(t)
  PROVE  QueueInv' /\ UNCHANGED <<QueuedEntries, pushes>>
<1>1. PICK qs, fs, filling, freeing, h, n :
        /\ qs = Queued /\ fs = Free /\ filling = Carried(pc, hand, "push") /\ freeing = Carried(pc, hand, "free") /\ h = heap
        /\ n = hand[t]
  OBVIOUS
<1>2. /\ HeapInv(h, qs, fs, filling, freeing, popped) /\ HandsInv(pc, hand)
      /\ qs \in Seq(Node) /\ Len(qs) \in Nat
      /\ Pending = Len(qs) + Cardinality(filling \cup freeing) /\ Cardinality(filling \cup freeing) \in Nat
      /\ Pending <= MaxPending /\ pushes + Cardinality(Doing(pc, "push")) <= MaxPush
      /\ pushes \in Nat /\ popped \in BOOLEAN /\ (\A u \in Threads : pc[u] = "free" => popped)
      /\ QueuedEntries = Entries(h, qs)
  BY <1>1, QueueNow
<1>3. /\ pc[t] = "free" /\ heap' = DisposeAndFree(heap, hand[t])
      /\ pc' = [pc EXCEPT ![t] = "idle"] /\ hand' = [hand EXCEPT ![t] = NULL] /\ UNCHANGED <<pushes, popped, alive>>
  BY Zenon DEF Release
<1>4. popped = TRUE
  BY <1>2, <1>3
<1>5. pc[t] \in Busy /\ "push" \in Busy /\ "free" \in Busy /\ "push" # "free"
  BY <1>3 DEF Busy
<1>6. /\ HandsInv(pc', hand') /\ n \in freeing
      /\ Carried(pc', hand', "push") = filling /\ Carried(pc', hand', "free") = freeing \ {n}
  <2>1. PICK q, g : q = pc' /\ g = hand'
    OBVIOUS
  <2>2. Gave(pc, hand, q, g, t)
    BY <1>2, <1>3, <1>5, <2>1, HandsEmptied
  <2> QED
    BY <1>1, <1>3, <1>5, <2>1, <2>2 DEF Gave
<1>7. Doing(pc', "push") = Doing(pc, "push")
  <2>1. \A u \in Threads : pc'[u] = IF u = t THEN "idle" ELSE pc[u]
    BY <1>2, <1>3 DEF HandsInv
  <2>2. PICK q, what : q = pc' /\ what = "idle"
    OBVIOUS
  <2>3. pc[t] # "push" /\ what # "push" /\ \A u \in Threads : q[u] = IF u = t THEN what ELSE pc[u]
    BY <1>3, <2>1, <2>2
  <2>4. Doing(q, "push") = Doing(pc, "push")
    BY <2>3, PushersSame
  <2> QED
    BY <2>2, <2>4
<1>8. PICK g : g = heap'
  OBVIOUS
<1>9. (\E s : HeapInv(g, qs, s, filling, freeing \ {n}, TRUE)) /\ Entries(g, qs) = Entries(h, qs)
  <2>1. HeapInv(h, qs, fs, filling, freeing, TRUE) /\ n \in freeing /\ g = DisposeAndFree(h, n)
    BY <1>1, <1>2, <1>3, <1>4, <1>6, <1>8
  <2>2. Disposed(g, h, qs, filling, freeing \ {n})
    BY <2>1, Disposal
  <2> QED
    BY <2>2, Zenon DEF Disposed
<1>10. PICK s : HeapInv(heap', qs, s, filling, freeing \ {n}, popped')
  BY <1>3, <1>4, <1>8, <1>9
<1>11. Len(qs) + Cardinality(filling \cup (freeing \ {n})) <= MaxPending
  <2>1. IsFiniteSet(filling \cup freeing) /\ n \notin filling
    BY <1>2, <1>6, FS_Union DEF HeapInv, Places
  <2>2. filling \cup (freeing \ {n}) = (filling \cup freeing) \ {n} /\ n \in filling \cup freeing
    BY <1>6, <2>1
  <2>3. Cardinality(filling \cup (freeing \ {n})) = Cardinality(filling \cup freeing) - 1
    BY <2>1, <2>2, OneLess
  <2> QED
    BY <1>2, <2>3, Numbers
<1>12. QueueInv' /\ QueuedEntries' = Entries(heap', qs)
  <2>1. Reached(pc', hand', qs, filling, freeing \ {n})
    BY <1>6, <1>11 DEF Reached
  <2>2. pushes' \in Nat /\ pushes' + Cardinality(Doing(pc', "push")) <= MaxPush
    BY <1>2, <1>3, <1>7
  <2>3. popped' \in BOOLEAN /\ \A u \in Threads : pc'[u] = "free" => popped'
    BY <1>3, <1>4
  <2> QED
    BY <1>10, <2>1, <2>2, <2>3, QueueNext
<1> QED
  BY <1>2, <1>3, <1>8, <1>9, <1>12

(* A thread that carries nothing begins or ends a clear or the destructor,  *)
(* while the lists stay.                                                    *)
LEMMA IdleStep ==
  ASSUME QueueInv, NEW t \in Threads, pc[t] \notin Busy, NEW what \in {"idle", "clear", "destroy"},
         pc' = [pc EXCEPT ![t] = what], UNCHANGED <<heap, hand, pushes, popped>>
  PROVE  QueueInv' /\ UNCHANGED <<QueuedEntries, pushes>>
<1>1. PICK qs, fs, filling, freeing, h :
        qs = Queued /\ fs = Free /\ filling = Carried(pc, hand, "push") /\ freeing = Carried(pc, hand, "free") /\ h = heap
  OBVIOUS
<1>2. /\ HeapInv(h, qs, fs, filling, freeing, popped) /\ HandsInv(pc, hand)
      /\ Pending = Len(qs) + Cardinality(filling \cup freeing)
      /\ Pending <= MaxPending /\ pushes + Cardinality(Doing(pc, "push")) <= MaxPush
      /\ pushes \in Nat /\ popped \in BOOLEAN /\ (\A u \in Threads : pc[u] = "free" => popped)
      /\ QueuedEntries = Entries(h, qs)
  BY <1>1, QueueNow
<1>3. pc[t] # "push" /\ what # "push" /\ what # "free" /\ "push" \in Busy /\ "free" \in Busy
  BY DEF Busy
<1>4. \A u \in Threads : pc'[u] = IF u = t THEN what ELSE pc[u]
  BY <1>2 DEF HandsInv
<1>5. PICK q : q = pc'
  OBVIOUS
<1>6. HandsInv(q, hand) /\ \A w \in Busy : Carried(q, hand, w) = Carried(pc, hand, w)
  <2>1. q = [pc EXCEPT ![t] = what]
    BY <1>5
  <2>2. Kept(pc, q, hand)
    BY <1>2, <2>1, HandsKept
  <2> QED
    BY <2>2, Zenon DEF Kept
<1>7. Doing(q, "push") = Doing(pc, "push")
  <2>1. \A u \in Threads : q[u] = IF u = t THEN what ELSE pc[u]
    BY <1>4, <1>5
  <2>2. pc[t] # "push" /\ what # "push"
    BY <1>3
  <2> QED
    BY <2>1, <2>2, PushersSame
<1>8. Reached(pc', hand', qs, filling, freeing)
  BY <1>1, <1>2, <1>3, <1>5, <1>6 DEF Reached
<1>9. HeapInv(heap', qs, fs, filling, freeing, popped')
  BY <1>1, <1>2
<1>10. /\ pushes' \in Nat /\ pushes' + Cardinality(Doing(pc', "push")) <= MaxPush
       /\ popped' \in BOOLEAN /\ \A u \in Threads : pc'[u] = "free" => popped'
  BY <1>2, <1>3, <1>4, <1>5, <1>7
<1>11. QueueInv' /\ QueuedEntries' = Entries(heap', qs)
  BY <1>8, <1>9, <1>10, QueueNext
<1> QED
  BY <1>1, <1>2, <1>11

(* clear: a step pops the first entry and frees its node.                   *)
LEMMA ClearedOne ==
  ASSUME QueueInv, NEW t \in Threads, pc[t] = "clear", heap.first # NULL,
         heap' = DisposeAndFree(PopNode(heap), heap.first), popped' = TRUE, UNCHANGED <<pc, hand, pushes>>
  PROVE  QueueInv' /\ QueuedEntries # <<>> /\ QueuedEntries' = Tail(QueuedEntries)
<1>1. PICK qs, fs, filling, freeing, h, n :
        /\ qs = Queued /\ fs = Free /\ filling = Carried(pc, hand, "push") /\ freeing = Carried(pc, hand, "free") /\ h = heap
        /\ n = heap.first
  OBVIOUS
<1>2. /\ HeapInv(h, qs, fs, filling, freeing, popped) /\ HandsInv(pc, hand)
      /\ h \in Heaps /\ qs \in Seq(Node) /\ Len(qs) \in Nat
      /\ Pending = Len(qs) + Cardinality(filling \cup freeing) /\ Cardinality(filling \cup freeing) \in Nat
      /\ Pending <= MaxPending /\ pushes + Cardinality(Doing(pc, "push")) <= MaxPush
      /\ pushes \in Nat /\ QueuedEntries = Entries(h, qs)
  BY <1>1, QueueNow
<1>3. PICK e, g : e = PopNode(h) /\ g = DisposeAndFree(e, n) /\ g = heap'
  BY <1>1
<1>4. h.first # NULL /\ h.first = n
  BY <1>1
<1>5. /\ Len(qs) > 0 /\ h.first = qs[1] /\ h.first \in Node
      /\ HeapInv(e, Tail(qs), fs, filling, freeing \cup {h.first}, TRUE)
      /\ e.prio = h.prio /\ e.value = h.value
  BY <1>2, <1>3, <1>4, HeapPop
<1>6. PICK r : r = Tail(qs)
  OBVIOUS
<1>7. n \notin freeing
  <2>1. Contains(qs, n) /\ n \in Node
    BY <1>2, <1>4, <1>5 DEF Contains
  <2> QED
    BY <1>2, <2>1 DEF HeapInv, Places
<1>8. HeapInv(e, r, fs, filling, freeing \cup {n}, TRUE) /\ n \in freeing \cup {n} /\ (freeing \cup {n}) \ {n} = freeing
  BY <1>4, <1>5, <1>6, <1>7
<1>9. (\E s : HeapInv(g, r, s, filling, freeing, TRUE)) /\ Entries(g, r) = Entries(e, r)
  <2>1. PICK more : more = freeing \cup {n}
    OBVIOUS
  <2>2. HeapInv(e, r, fs, filling, more, TRUE) /\ n \in more /\ more \ {n} = freeing
    BY <1>8, <2>1
  <2>3. g = DisposeAndFree(e, n)
    BY <1>3
  <2>4. Disposed(g, e, r, filling, more \ {n})
    BY <2>2, <2>3, Disposal
  <2>5. Disposed(g, e, r, filling, freeing)
    BY <2>2, <2>4
  <2> QED
    BY <2>5, Zenon DEF Disposed
<1>10. Entries(h, r) = Tail(Entries(h, qs)) /\ Entries(h, qs) # <<>>
  BY <1>2, <1>5, <1>6, EntriesTail
<1>11. Entries(e, r) = Entries(h, r)
  BY <1>5 DEF Entries
<1>12. PICK s : HeapInv(heap', r, s, filling, freeing, popped')
  BY <1>3, <1>9
<1>13. Len(r) + Cardinality(filling \cup freeing) <= MaxPending
  <2>1. Len(r) = Len(qs) - 1
    BY <1>2, <1>5, <1>6, TailElements
  <2> QED
    BY <1>2, <2>1, Numbers
<1>14. QueueInv' /\ QueuedEntries' = Entries(heap', r)
  <2>1. Reached(pc', hand', r, filling, freeing)
    BY <1>1, <1>2, <1>13 DEF Reached
  <2>2. /\ pushes' \in Nat /\ pushes' + Cardinality(Doing(pc', "push")) <= MaxPush
        /\ popped' \in BOOLEAN /\ \A u \in Threads : pc'[u] = "free" => popped'
    BY <1>2
  <2> QED
    BY <1>12, <2>1, <2>2, QueueNext
<1> QED
  BY <1>2, <1>3, <1>9, <1>10, <1>11, <1>14

(* ClearBegin: its caller now has the queue to itself.                      *)
LEMMA ClearBeginStep ==
  ASSUME QueueInv, NEW t \in Threads, ClearBegin(t)
  PROVE  QueueInv' /\ UNCHANGED <<QueuedEntries, pushes>>
<1>1. pc[t] \notin Busy
  BY DEF ClearBegin, Alone, Busy
<1>2. pc' = [pc EXCEPT ![t] = "clear"] /\ UNCHANGED <<heap, hand, pushes, popped>>
  BY DEF ClearBegin
<1> QED
  BY <1>1, <1>2, IdleStep

(* ClearStep: the first entry leaves, or the loop is over.                  *)
LEMMA ClearStepStep ==
  ASSUME QueueInv, NEW t \in Threads, ClearStep(t)
  PROVE  /\ QueueInv' /\ UNCHANGED pushes
         /\ UNCHANGED QueuedEntries \/ (QueuedEntries # <<>> /\ QueuedEntries' = Tail(QueuedEntries))
<1>1. pc[t] = "clear" /\ UNCHANGED <<hand, pushes>>
  BY DEF ClearStep
<1>2. CASE heap.first # NULL
  <2>1. heap' = DisposeAndFree(PopNode(heap), heap.first) /\ popped' = TRUE /\ UNCHANGED pc
    BY <1>2, Zenon DEF ClearStep
  <2> QED
    BY <1>1, <1>2, <2>1, ClearedOne
<1>3. CASE heap.first = NULL
  <2>1. pc' = [pc EXCEPT ![t] = "idle"] /\ UNCHANGED <<heap, popped>>
    BY <1>3, Zenon DEF ClearStep
  <2>2. pc[t] \notin Busy
    BY <1>1 DEF Busy
  <2> QED
    BY <1>1, <2>1, <2>2, IdleStep
<1> QED
  BY <1>2, <1>3

(* DestroyBegin: the queue is empty by then, so there is nothing to take.   *)
LEMMA DestroyBeginStep ==
  ASSUME OneBurst, QueueInv, NEW t \in Threads, DestroyBegin(t)
  PROVE  QueueInv' /\ UNCHANGED <<QueuedEntries, pushes>>
<1>1. pc[t] \notin Busy /\ heap.first = NULL
  BY DEF DestroyBegin, Alone, Busy, OneBurst
<1>2. pc' = [pc EXCEPT ![t] = "destroy"] /\ hand' = [hand EXCEPT ![t] = NULL] /\ UNCHANGED <<heap, pushes, popped>>
  BY <1>1 DEF DestroyBegin
<1>3. hand' = hand
  <2>1. hand \in [Threads -> Place] /\ hand[t] = NULL
    BY <1>1 DEF QueueInv, ThreadsInv, HandsInv
  <2> QED
    BY <1>2, <2>1
<1> QED
  BY <1>1, <1>2, <1>3, IdleStep

(* DestroyStep: with nothing in its hands the destructor is done.           *)
LEMMA DestroyStepStep ==
  ASSUME QueueInv, NEW t \in Threads, DestroyStep(t)
  PROVE  QueueInv' /\ UNCHANGED <<QueuedEntries, pushes>>
<1>1. pc[t] = "destroy" /\ UNCHANGED <<pushes, popped>>
  BY DEF DestroyStep
<1>2. pc[t] \notin Busy
  BY <1>1 DEF Busy
<1>3. hand[t] = NULL
  BY <1>2 DEF QueueInv, ThreadsInv, HandsInv
<1>4. pc' = [pc EXCEPT ![t] = "idle"] /\ UNCHANGED <<heap, hand>>
  BY <1>3, Zenon DEF DestroyStep
<1> QED
  BY <1>1, <1>2, <1>4, IdleStep

(* The initial state.                                                       *)
LEMMA QueueInit ==
  ASSUME Init
  PROVE  QueueInv /\ QueuedEntries = <<>> /\ pushes = 0
<1>1. /\ heap = InitialHeap /\ pc = [t \in Threads |-> "idle"] /\ hand = [t \in Threads |-> NULL]
      /\ pushes = 0 /\ popped = FALSE
  BY DEF Init
<1>2. PICK s : HeapInv(heap, <<>>, s, {}, {}, popped)
  BY <1>1, InitialHeapInv
<1>3. Queued = <<>> /\ Free = s
  BY <1>2, Known DEF Queued, Free
<1>4. \A t \in Threads : pc[t] = "idle" /\ hand[t] = NULL
  BY <1>1
<1>5. Carried(pc, hand, "push") = {} /\ Carried(pc, hand, "free") = {} /\ Doing(pc, "push") = {}
  BY <1>4 DEF Carried, Doing
<1>6. HandsInv(pc, hand)
  <2>1. pc \in [Threads -> {"idle", "push", "free", "clear", "destroy"}] /\ hand \in [Threads -> Place]
    BY <1>1 DEF Place
  <2> QED
    BY <1>4, <2>1 DEF HandsInv, Busy
<1>7. Cardinality({}) = 0
  BY FS_EmptySet
<1>8. pushes \in Nat /\ pushes + Cardinality(Doing(pc, "push")) <= MaxPush
  BY <1>1, <1>5, <1>7, PriorityQueueAssumption
<1>9. Pending = 0
  <2>1. {t \in Threads : pc[t] \in {"push", "free"}} = {}
    BY <1>4
  <2>2. Len(Queued) = 0
    BY <1>3
  <2>3. Pending = Len(Queued) + Cardinality({})
    BY <2>1, Zenon DEF Pending
  <2> QED
    BY <1>7, <2>2, <2>3
<1>10. Pending <= MaxPending
  BY <1>9, PriorityQueueAssumption
<1>11. ThreadsInv
  BY <1>1, <1>4, <1>6, <1>8 DEF ThreadsInv
<1>12. QueueInv
  BY <1>2, <1>3, <1>5, <1>10, <1>11, Zenon DEF QueueInv
<1>13. QueuedEntries = <<>>
  BY <1>3 DEF QueuedEntries
<1> QED
  BY <1>1, <1>12, <1>13

(* The abstract queue means the same by a push.                             *)
LEMMA SamePush ==
  ASSUME NEW ACTION r, NEW STATE s, NEW STATE e, IsPushOf(r, s, e)
  PROVE  Abstract!IsPushOf(r, s, e)
<1>1. PICK k \in 0..Len(s) : IsPlaceFor(s, e, k) /\ r = InsertAt(s, k + 1, e)
  BY DEF IsPushOf
<1>2. r = Abstract!InsertAt(s, k + 1, e)
  BY <1>1, Zenon DEF InsertAt, Abstract!InsertAt
<1>3. Abstract!IsPlaceFor(s, e, k)
  BY <1>1, Zenon DEF IsPlaceFor, Abstract!IsPlaceFor, GoesBehind, Abstract!GoesBehind
<1> QED
  BY <1>2, <1>3 DEF Abstract!IsPushOf

(* Every step keeps the invariant, and is a push, a pop or nothing for the  *)
(* users of the queue.                                                      *)
LEMMA Step ==
  ASSUME OneBurst, QueueInv, [Next]_vars
  PROVE  QueueInv' /\ [Abstract!Next]_(Abstract!vars)
<1> DEFINE Same == UNCHANGED <<QueuedEntries, pushes>>
           Popped == QueuedEntries # <<>> /\ QueuedEntries' = Tail(QueuedEntries) /\ UNCHANGED pushes
<1>1. Same => [Abstract!Next]_(Abstract!vars)
  BY DEF Abstract!vars
<1>2. Popped => [Abstract!Next]_(Abstract!vars)
  BY DEF Abstract!Next, Abstract!Pop
<1>3. CASE UNCHANGED vars
  <2>1. UNCHANGED <<heap, pc, hand, pushes, popped>>
    BY <1>3 DEF vars
  <2>2. Queued' = Queued /\ Free' = Free
    BY <2>1 DEF Queued, Free
  <2>3. QueuedEntries' = QueuedEntries
    BY <2>1, <2>2 DEF QueuedEntries
  <2>4. Pending' = Pending
    BY <2>1, <2>2 DEF Pending
  <2>5. ThreadsInv'
    BY <2>1 DEF QueueInv, ThreadsInv
  <2>6. QueueInv'
    BY <2>1, <2>2, <2>4, <2>5 DEF QueueInv
  <2> QED
    BY <1>1, <2>1, <2>3, <2>6
<1>4. ASSUME NEW t \in Threads, Allocate(t) PROVE QueueInv' /\ [Abstract!Next]_(Abstract!vars)
  BY <1>1, <1>4, AllocateStep
<1>5. ASSUME NEW t \in Threads, Push(t) PROVE QueueInv' /\ [Abstract!Next]_(Abstract!vars)
  <2>1. PICK p \in Priorities, first \in BOOLEAN :
          IsPushOf(QueuedEntries', QueuedEntries, [prio |-> p, first |-> first, stamp |-> pushes + 1])
    BY <1>5, PushStep
  <2>2. QueueInv' /\ pushes < MaxPush /\ pushes' = pushes + 1
    BY <1>5, PushStep
  <2>3. Abstract!Push(p, first)
    <3>1. Abstract!IsPushOf(QueuedEntries', QueuedEntries, [prio |-> p, first |-> first, stamp |-> pushes + 1])
      BY <2>1, SamePush
    <3> QED
      BY <2>2, <3>1 DEF Abstract!Push
  <2> QED
    BY <2>2, <2>3 DEF Abstract!Next
<1>6. ASSUME NEW t \in Threads, Pop(t) PROVE QueueInv' /\ [Abstract!Next]_(Abstract!vars)
  BY <1>2, <1>6, PopStep
<1>7. ASSUME NEW t \in Threads, Release(t) PROVE QueueInv' /\ [Abstract!Next]_(Abstract!vars)
  BY <1>1, <1>7, ReleaseStep
<1>8. ASSUME NEW t \in Threads, ClearBegin(t) PROVE QueueInv' /\ [Abstract!Next]_(Abstract!vars)
  BY <1>1, <1>8, ClearBeginStep
<1>9. ASSUME NEW t \in Threads, ClearStep(t) PROVE QueueInv' /\ [Abstract!Next]_(Abstract!vars)
  BY <1>1, <1>2, <1>9, ClearStepStep
<1>10. ASSUME NEW t \in Threads, DestroyBegin(t) PROVE QueueInv' /\ [Abstract!Next]_(Abstract!vars)
  BY <1>1, <1>10, DestroyBeginStep
<1>11. ASSUME NEW t \in Threads, DestroyStep(t) PROVE QueueInv' /\ [Abstract!Next]_(Abstract!vars)
  BY <1>1, <1>11, DestroyStepStep
<1> QED
  BY <1>3, <1>4, <1>5, <1>6, <1>7, <1>8, <1>9, <1>10, <1>11 DEF Next

-----------------------------------------------------------------------------
(* What the invariant says.  First, the elements of a list.                 *)
LEMMA Contents ==
  ASSUME NEW s \in Seq(Node)
  PROVE  DOMAIN s = 1..Len(s) /\ \A x : x \in ToSet(s) <=> Contains(s, x)
<1>1. DOMAIN s = 1..Len(s)
  OBVIOUS
<1>2. \A x : x \in ToSet(s) <=> Contains(s, x)
  BY <1>1 DEF ToSet, Contains
<1> QED
  BY <1>1, <1>2

(* With nothing queued and no node carried no block can be live, as a live  *)
(* one has a node in use: the free list is the preallocated nodes.          *)
LEMMA QueueInvDrains ==
  ASSUME QueueInv
  PROVE  DrainRestores
<1>1. PICK qs, fs, filling, freeing, h :
        qs = Queued /\ fs = Free /\ filling = Carried(pc, hand, "push") /\ freeing = Carried(pc, hand, "free") /\ h = heap
  OBVIOUS
<1>2. /\ HeapInv(h, qs, fs, filling, freeing, popped) /\ qs \in Seq(Node) /\ Len(qs) \in Nat
      /\ Pending = Len(qs) + Cardinality(filling \cup freeing) /\ Cardinality(filling \cup freeing) \in Nat
  BY <1>1, QueueNow
<1>3. Lists(h, qs, fs) /\ Places(h, qs, fs, filling, freeing) /\ FreeList(h, qs, fs, filling \cup freeing, popped)
  BY <1>2 DEF HeapInv
<1>4. fs \in Seq(Node) /\ h \in Heaps
  BY <1>3 DEF Lists, Links
<1> SUFFICES ASSUME Pending = 0 PROVE h.live = {} /\ ToSet(fs) = Preallocated
  BY <1>1, Zenon DEF DrainRestores
<1>5. Len(qs) = 0 /\ Cardinality(filling \cup freeing) = 0
  BY <1>2
<1>6. filling \cup freeing = {}
  <2>1. IsFiniteSet(filling \cup freeing)
    BY <1>3, FS_Union DEF Places
  <2> QED
    BY <1>5, <2>1, FS_EmptySet
<1>7. \A n : ~Contains(qs, n)
  BY <1>5 DEF Contains
<1>8. h.live = {}
  <2> SUFFICES ASSUME NEW b \in h.live PROVE FALSE
    OBVIOUS
  <2>1. h.used[b] = Cardinality(InUse(b, qs, filling \cup freeing)) /\ h.used[b] > 0
    BY <1>3, Zenon DEF FreeList
  <2>2. InUse(b, qs, filling \cup freeing) = {}
    BY <1>6, <1>7 DEF InUse
  <2> QED
    BY <2>1, <2>2, FS_EmptySet
<1>9. \A n \in Node : n \in Preallocated <=> Contains(fs, n)
  BY <1>3, <1>6, <1>7, <1>8 DEF Places, Usable
<1>10. ToSet(fs) \subseteq Node /\ Preallocated \subseteq Node
  BY <1>4, Contents DEF Node, ToSet
<1> QED
  BY <1>4, <1>8, <1>9, <1>10, Contents

(* The invariant says where every node is.                                  *)
LEMMA QueueInvLifecycle ==
  ASSUME QueueInv
  PROVE  NodeLifecycle
<1>1. PICK qs, fs, filling, freeing, h :
        qs = Queued /\ fs = Free /\ filling = Carried(pc, hand, "push") /\ freeing = Carried(pc, hand, "free") /\ h = heap
  OBVIOUS
<1>2. /\ HeapInv(h, qs, fs, filling, freeing, popped) /\ qs \in Seq(Node) /\ Len(qs) \in Nat /\ HandsInv(pc, hand)
      /\ Pending = Len(qs) + Cardinality(filling \cup freeing) /\ Cardinality(filling \cup freeing) \in Nat
  BY <1>1, QueueNow
<1>3. Lists(h, qs, fs) /\ Places(h, qs, fs, filling, freeing) /\ FreeList(h, qs, fs, filling \cup freeing, popped)
  BY <1>2 DEF HeapInv
<1>4. fs \in Seq(Node) /\ h \in Heaps /\ ~h.fault /\ Len(fs) \in Nat
  BY <1>3, Emptiness DEF Lists, Links
<1>5. IsInjective(qs) /\ IsInjective(fs)
  BY <1>2, <1>3, <1>4, Contents DEF Lists, Links, IsInjective
<1>6. Disjoint(qs, fs)
  <2> SUFFICES ASSUME NEW n \in ToSet(qs), n \in ToSet(fs) PROVE FALSE
    BY DEF Disjoint
  <2>1. Contains(qs, n) /\ Contains(fs, n)
    BY <1>2, <1>4, Contents
  <2>2. n \in Node
    BY <1>2, <2>1 DEF Contains
  <2> QED
    BY <1>3, <2>1, <2>2 DEF Places
<1>7. InHand = filling \cup freeing
  BY <1>1, <1>2, HandsCount, Zenon DEF InHand, Busy
<1>8. InHand \cap (ToSet(qs) \cup ToSet(fs)) = {}
  BY <1>2, <1>3, <1>4, <1>7, Contents DEF Places
<1>9. \A t, u \in Threads : (pc[t] \in {"push", "free"} /\ hand[t] = hand[u]) => t = u
  BY <1>2 DEF HandsInv, Busy
<1>10. Len(fs) = h.capacity - Pending
  <2>1. Len(fs) + Len(qs) + Cardinality(filling \cup freeing) = h.capacity
    BY <1>3, Zenon DEF FreeList
  <2> QED
    BY <1>2, <1>4, <2>1
<1>11. \A n \in Node : h.value[n] # NoValue <=> Contains(qs, n) \/ \E t \in Threads : pc[t] = "free" /\ hand[t] = n
  BY <1>1, <1>3 DEF Places, Carried
<1> QED
  BY <1>1, <1>4, <1>5, <1>6, <1>8, <1>9, <1>10, <1>11, QueueInvDrains, Zenon DEF NodeLifecycle

(* The invariant holds the types.                                           *)
LEMMA QueueInvTypes ==
  ASSUME QueueInv
  PROVE  TypeOK
<1>1. /\ HeapInv(heap, Queued, Free, Carried(pc, hand, "push"), Carried(pc, hand, "free"), popped)
      /\ HandsInv(pc, hand) /\ heap \in Heaps
      /\ pushes \in Nat /\ pushes + Cardinality(Doing(pc, "push")) <= MaxPush
  BY QueueNow
<1>2. /\ heap.next \in [Node -> Node \cup {NULL}] /\ heap.value \in [Node -> [stamp : 0..MaxPush, first : BOOLEAN]]
      /\ heap.live \subseteq Blocks
  BY <1>1 DEF Heaps, Values, Place
<1>3. heap.capacity = PreallocatedNodes + StorageNodes * Cardinality(heap.live)
  BY <1>1, Zenon DEF HeapInv, FreeList
<1>4. pc \in [Threads -> {"idle", "push", "free", "clear", "destroy"}] /\ hand \in [Threads -> Node \cup {NULL}]
  BY <1>1 DEF HandsInv, Place
<1>5. pushes \in 0..MaxPush
  <2>1. Cardinality(Doing(pc, "push")) \in Nat
    BY PushersFinite
  <2> QED
    BY <1>1, <2>1, PriorityQueueAssumption
<1> QED
  BY <1>2, <1>3, <1>4, <1>5 DEF TypeOK

(* The inductive invariant.                                                 *)
LEMMA QueueInvAlways ==
  ASSUME OneBurst
  PROVE  Spec => []QueueInv
<1>1. Init => QueueInv
  BY QueueInit
<1>2. QueueInv /\ [Next]_vars => QueueInv'
  BY Step
<1> QED
  BY <1>1, <1>2, PTL DEF Spec

(* Types, and the capacity is that of the preallocated nodes and the        *)
(* blocks.                                                                  *)
THEOREM QueueTypes == ASSUME OneBurst PROVE Spec => []TypeOK
BY QueueInvAlways, QueueInvTypes, PTL

(* A node is in one place, none is lost, a value lives from its push until  *)
(* it is disposed of, and the block is deleted in the end, for every number *)
(* of threads, nodes and pushes.                                            *)
THEOREM NodesKeepTheirPlace == ASSUME OneBurst PROVE Spec => []NodeLifecycle
BY QueueInvAlways, QueueInvLifecycle, PTL

(* The two lists implement the sorted queue.                                *)
THEOREM ListsImplementQueue == ASSUME OneBurst PROVE Spec => ImplementsSortedQueue
<1>1. Init => Abstract!Init
  BY QueueInit DEF Abstract!Init
<1>2. QueueInv /\ [Next]_vars => [Abstract!Next]_(Abstract!vars)
  BY Step
<1> QED
  BY <1>1, <1>2, QueueInvAlways, PTL DEF Spec, ImplementsSortedQueue, Abstract!Spec

-----------------------------------------------------------------------------
(* The order of the sorted queue, which the lists inherit.                  *)
Entry == [prio : Priorities, first : BOOLEAN, stamp : 1..MaxPush]

(* No entry of s is stamped after the push m, and s is in the promised      *)
(* order.                                                                   *)
InOrder(s, m) ==
  /\ s \in Seq(Entry) /\ \A i \in 1..Len(s) : s[i].stamp <= m
  /\ \A i, j \in 1..Len(s) : i < j => Before(s[i], s[j])

(* Fields of an entry.                                                      *)
LEMMA EntryFields ==
  ASSUME NEW e \in Entry
  PROVE  e.stamp \in Int /\ e.prio \in Int /\ e.first \in BOOLEAN
<1>1. e.stamp \in 1..MaxPush /\ e.prio \in Priorities /\ e.first \in BOOLEAN
  BY DEF Entry
<1>2. e.stamp \in Int
  BY <1>1
<1>3. e.prio \in Int
  BY <1>1, PriorityQueueAssumption
<1> QED
  BY <1>1, <1>2, <1>3

(* Where an index of the new queue comes from.                              *)
LEMMA PushedIndex ==
  ASSUME NEW n \in Nat, NEW k \in 0..n, NEW i \in 1..(n + 1)
  PROVE  i \in 1..k \/ i = k + 1 \/ (i - 1 \in (k + 1)..n /\ (i - 1) + 1 = i)
OBVIOUS

(* The place pushNode finds keeps the order: by cases on which side of it   *)
(* the two compared entries lie.                                            *)
LEMMA PushKeepsOrder ==
  ASSUME NEW s, NEW m \in Nat, InOrder(s, m), NEW e \in Entry, e.stamp = m + 1, NEW r, IsPushOf(r, s, e)
  PROVE  InOrder(r, m + 1)
<1>1. PICK k \in 0..Len(s) : IsPlaceFor(s, e, k) /\ r = InsertAt(s, k + 1, e)
  BY DEF IsPushOf
<1>2. /\ s \in Seq(Entry) /\ Len(s) \in Nat /\ \A i \in 1..Len(s) : s[i] \in Entry
      /\ \A i \in 1..Len(s) : s[i].stamp \in Int /\ s[i].stamp <= m
  BY EntryFields DEF InOrder
<1>3. /\ r \in Seq(Entry) /\ Len(r) = Len(s) + 1
      /\ \A i \in 1..k : r[i] = s[i]
      /\ r[k + 1] = e
      /\ \A i \in (k + 1)..Len(s) : r[i + 1] = s[i]
  <2>1. Inserted(Entry, r, s, k, e)
    BY <1>1, <1>2, InsertAtElements
  <2> QED
    BY <2>1, Zenon DEF Inserted
<1>4. \A i \in (k + 1)..Len(s) : r[i + 1] = s[i]
  BY <1>3
<1>5. ASSUME NEW i \in 1..k PROVE Before(s[i], e)
  <2>1. i \in 1..Len(s) /\ GoesBehind(e, s[i])
    BY <1>1, <1>2 DEF IsPlaceFor
  <2>2. s[i] \in Entry /\ s[i].stamp < e.stamp
    BY <1>2, <2>1
  <2> QED
    BY <2>1, <2>2, EntryFields DEF Before, GoesBehind
<1>6. ASSUME NEW i \in (k + 1)..Len(s) PROVE Before(e, s[i])
  <2>1. i \in 1..Len(s) /\ ~ GoesBehind(e, s[i])
    BY <1>1, <1>2 DEF IsPlaceFor
  <2>2. s[i] \in Entry /\ s[i].stamp < e.stamp
    BY <1>2, <2>1
  <2> QED
    BY <2>1, <2>2, EntryFields DEF Before, GoesBehind
<1> DEFINE Low(x) == x \in 1..k
           High(x) == x - 1 \in (k + 1)..Len(s) /\ (x - 1) + 1 = x
<1>7. \A i \in 1..Len(r) : Low(i) \/ i = k + 1 \/ High(i)
  BY <1>2, <1>3, PushedIndex
<1>8. \A i \in 1..Len(r) : High(i) => i - 1 \in 1..Len(s) /\ r[i] = s[i - 1]
  BY <1>2, <1>4
<1>9. \A i \in 1..Len(r) : Low(i) => i \in 1..Len(s) /\ r[i] = s[i]
  BY <1>2, <1>3
<1>10. ASSUME NEW i \in 1..Len(r) PROVE r[i].stamp <= m + 1
  <2>1. CASE Low(i)
    BY <1>2, <1>9, <2>1
  <2>2. CASE i = k + 1
    BY <1>3, <2>2
  <2>3. CASE High(i)
    <3>1. i - 1 \in 1..Len(s) /\ r[i] = s[i - 1]
      BY <1>8, <2>3
    <3> QED
      BY <1>2, <3>1
  <2> HIDE DEF Low, High
  <2> QED
    BY <1>7, <2>1, <2>2, <2>3
<1>11. ASSUME NEW i \in 1..Len(r), NEW j \in 1..Len(r), i < j PROVE Before(r[i], r[j])
  <2>1. CASE Low(i) /\ Low(j)
    BY <1>9, <1>11, <2>1 DEF InOrder
  <2>2. CASE Low(i) /\ j = k + 1
    BY <1>3, <1>5, <2>2
  <2>3. CASE Low(i) /\ High(j)
    <3>1. i < j - 1
      BY <1>1, <1>2, <2>3
    <3> QED
      BY <1>8, <1>9, <2>3, <3>1 DEF InOrder
  <2>4. CASE i = k + 1 /\ High(j)
    BY <1>3, <1>6, <1>8, <2>4
  <2>5. CASE High(i) /\ High(j)
    <3>1. i - 1 < j - 1
      BY <1>11, <2>5
    <3> QED
      BY <1>8, <2>5, <3>1 DEF InOrder
  <2>6. ~ (i = k + 1 /\ Low(j)) /\ ~ (i = k + 1 /\ j = k + 1) /\ ~ (High(i) /\ Low(j)) /\ ~ (High(i) /\ j = k + 1)
    BY <1>1, <1>2, <1>11
  <2> HIDE DEF Low, High
  <2> QED
    BY <1>7, <2>1, <2>2, <2>3, <2>4, <2>5, <2>6
<1> QED
  BY <1>3, <1>10, <1>11 DEF InOrder

(* A pop keeps it.                                                          *)
LEMMA PopKeepsOrder ==
  ASSUME NEW s, NEW m, InOrder(s, m), s # <<>>
  PROVE  InOrder(Tail(s), m)
<1>1. s \in Seq(Entry) /\ Len(s) \in Nat /\ Len(s) > 0
  BY DEF InOrder
<1>2. PICK r : r = Tail(s)
  OBVIOUS
<1>3. r \in Seq(Entry) /\ Len(r) = Len(s) - 1
  BY <1>1, <1>2
<1>4. \A i \in 1..Len(r) : i + 1 \in 1..Len(s) /\ r[i] = s[i + 1]
  BY <1>1, <1>2, <1>3
<1>5. \A i \in 1..Len(r) : r[i].stamp <= m
  BY <1>4 DEF InOrder
<1>6. ASSUME NEW i \in 1..Len(r), NEW j \in 1..Len(r), i < j PROVE Before(r[i], r[j])
  <2>1. i + 1 < j + 1
    BY <1>1, <1>3, <1>6
  <2> QED
    BY <1>4, <2>1 DEF InOrder
<1> QED
  BY <1>2, <1>3, <1>5, <1>6 DEF InOrder

EntriesInv == pushes \in 0..MaxPush /\ InOrder(QueuedEntries, pushes)

(* Every step keeps the order of the entries.                               *)
LEMMA EntriesStep ==
  ASSUME OneBurst, QueueInv, EntriesInv, [Next]_vars
  PROVE  EntriesInv'
<1>1. [Abstract!Next]_(Abstract!vars)
  BY Step
<1>2. MaxPush \in Nat
  BY PriorityQueueAssumption
<1>3. CASE UNCHANGED <<QueuedEntries, pushes>>
  BY <1>3 DEF EntriesInv
<1>4. CASE QueuedEntries # <<>> /\ QueuedEntries' = Tail(QueuedEntries) /\ UNCHANGED pushes
  <2>1. InOrder(Tail(QueuedEntries), pushes)
    BY <1>4, PopKeepsOrder DEF EntriesInv
  <2> QED
    BY <1>4, <2>1 DEF EntriesInv
<1>5. ASSUME NEW p \in Priorities, NEW first \in BOOLEAN, Abstract!Push(p, first) PROVE EntriesInv'
  <2>1. PICK s, r, m, e : s = QueuedEntries /\ r = QueuedEntries' /\ m = pushes
                          /\ e = [prio |-> p, first |-> first, stamp |-> pushes + 1]
    OBVIOUS
  <2>2. pushes < MaxPush /\ pushes' = pushes + 1 /\ Abstract!IsPushOf(r, s, e)
    BY <1>5, <2>1 DEF Abstract!Push
  <2>3. IsPushOf(r, s, e)
    <3>1. PICK k \in 0..Len(s) : Abstract!IsPlaceFor(s, e, k) /\ r = Abstract!InsertAt(s, k + 1, e)
      BY <2>2 DEF Abstract!IsPushOf
    <3>2. r = InsertAt(s, k + 1, e)
      BY <3>1, Zenon DEF InsertAt, Abstract!InsertAt
    <3>3. IsPlaceFor(s, e, k)
      BY <3>1, Zenon DEF IsPlaceFor, Abstract!IsPlaceFor, GoesBehind, Abstract!GoesBehind
    <3> QED
      BY <3>2, <3>3 DEF IsPushOf
  <2>4. e \in Entry /\ e.stamp = m + 1 /\ m \in Nat /\ m + 1 \in 0..MaxPush
    BY <1>2, <2>1, <2>2 DEF EntriesInv, Entry
  <2>5. InOrder(s, m)
    BY <2>1 DEF EntriesInv
  <2>6. InOrder(r, m + 1)
    BY <2>3, <2>4, <2>5, PushKeepsOrder
  <2> QED
    BY <2>1, <2>2, <2>4, <2>6 DEF EntriesInv
<1> QED
  BY <1>1, <1>3, <1>4, <1>5 DEF Abstract!Next, Abstract!Pop, Abstract!vars

(* The queued entries are always in the order a user of the queue relies    *)
(* on, and well typed: pop takes an entry of the least priority, FIFO       *)
(* within a priority, insertFirst entries ahead.                            *)
THEOREM EntriesLeaveInOrder == ASSUME OneBurst PROVE Spec => [](Abstract!TypeOK /\ Abstract!Ordered)
<1>1. Init => EntriesInv
  BY QueueInit, PriorityQueueAssumption DEF EntriesInv, InOrder
<1>2. QueueInv /\ EntriesInv /\ [Next]_vars => EntriesInv'
  BY EntriesStep
<1>3. EntriesInv => Abstract!TypeOK /\ Abstract!Ordered
  BY Zenon DEF EntriesInv, InOrder, Entry, Before, Abstract!TypeOK, Abstract!Ordered, Abstract!Entry, Abstract!Before
<1> QED
  BY <1>1, <1>2, <1>3, QueueInvAlways, PTL DEF Spec
=============================================================================
