--------------------------- MODULE PriorityQueue ---------------------------
(***************************************************************************)
(* memory::PriorityQueue<Value> (core/memory/SPMemPriorityQueue.h), node   *)
(* by node: two singly linked lists, the queue and the free list, each     *)
(* under its own lock, over an array of preallocated nodes and heap blocks *)
(* that are allocated when the free list is empty and deleted when their   *)
(* last node is freed.                                                     *)
(*                                                                         *)
(* One step is one critical section.  Between two sections a thread owns   *)
(* the node it carries, so filling it is folded into the push and reading  *)
(* and destroying its value into the free.  A value is modelled by the     *)
(* number of its push and the insertFirst it was pushed with.  Undefined   *)
(* behaviour (a dead block touched, a value destroyed that is not there)   *)
(* ends the behaviour in "fault".                                          *)
(***************************************************************************)
EXTENDS PrioritySeq, FiniteSets

CONSTANTS Threads,            \* the threads that use the queue
          Priorities,
          PreallocatedNodes,  \* 32 in the code
          StorageNodes,       \* nodes of a block, 256 in the code
          Blocks,             \* addresses `new StorageBlock` can return
          MaxPush,            \* bound: pushes in a behaviour
          MaxPending,         \* bound: nodes queued or in a thread's hands
          Reuse,              \* may the queue be used again after it needed a
                              \* block, and need one after it was popped?
          ClearFirst          \* does the owner clear() before destroying?

ASSUME PriorityQueueAssumption ==
  /\ IsFiniteSet(Threads) /\ IsFiniteSet(Blocks) /\ "pre" \notin Blocks
  /\ Priorities \subseteq Int
  /\ PreallocatedNodes \in Nat /\ PreallocatedNodes >= 2
  /\ StorageNodes \in Nat /\ StorageNodes >= 3
  /\ MaxPush \in Nat /\ MaxPending \in Nat
  /\ Reuse \in BOOLEAN /\ ClearFirst \in BOOLEAN

NULL == <<>>
NoValue == [stamp |-> 0, first |-> FALSE]  \* the storage of a node holds none
Preallocated == {<<"pre", i>> : i \in 1..PreallocatedNodes}
BlockNodes(b) == {<<b, i>> : i \in 1..StorageNodes}
Node == Preallocated \cup UNION {BlockNodes(b) : b \in Blocks}

VARIABLES
  heap,    \* next, prio, value of the nodes; live blocks and their used count;
           \* first and last of both lists; fault
  pc,      \* per thread: "idle", "push", "free", "clear", "destroy"
  hand,    \* the node a thread carries between two critical sections
  pushes,  \* number of pushes so far
  popped,  \* has anything been popped yet?
  alive    \* the queue object exists

vars == <<heap, pc, hand, pushes, popped, alive>>
-----------------------------------------------------------------------------
(***************************************************************************)
(* The heap operations.  Each takes a heap and returns one.                *)
(***************************************************************************)
\* initNodes: the nodes of an array (or block) a, of n nodes, linked in order
Linked(h, a, n) ==
  [x \in Node |-> IF x[1] # a THEN h.next[x]
                  ELSE IF x[2] < n THEN <<a, x[2] + 1>> ELSE NULL]

InBlock(n) == n \notin Preallocated
Dead(h, n) == n # NULL /\ InBlock(n) /\ n[1] \notin h.live

\* writing n->next through a pointer that may dangle
SetNext(h, n, to) ==
  [h EXCEPT !.next[n] = to, !.fault = @ \/ Dead(h, n)]

\* the nodes one meets from n on, NULL behind the end
Follow(h, n) == IF n = NULL THEN NULL ELSE h.next[n]

Walk(h, n) ==
  LET at[i \in 0..Cardinality(Node)] == IF i = 0 THEN n ELSE Follow(h, at[i - 1])
  IN  at

\* the list that starts at n; a cyclic one is cut
Chain(h, n) ==
  LET at == Walk(h, n)
  IN  [i \in 1..Cardinality({j \in DOMAIN at : at[j] # NULL}) |-> at[i - 1]]

\* allocateNode with a node on the free list
TakeFree(h) ==
  LET n == h.ffirst IN
  [h EXCEPT !.ffirst = h.next[n],
            !.flast = IF h.next[n] = @ THEN NULL ELSE @,
            !.used = [b \in Blocks |-> @[b] + IF n[1] = b THEN 1 ELSE 0],
            !.fault = @ \/ Dead(h, n)]

\* allocateNode with an empty free list: a new block b, its first node taken
TakeFromBlock(h, b) ==
  LET fresh == [h EXCEPT !.next = Linked(h, b, StorageNodes),
                         !.live = @ \cup {b},
                         !.used[b] = 1,
                         !.capacity = @ + StorageNodes]
      linked == IF h.flast # NULL THEN SetNext(fresh, h.flast, <<b, 2>>)
                ELSE [fresh EXCEPT !.ffirst = <<b, 2>>]
  IN [linked EXCEPT !.flast = <<b, StorageNodes>>]

\* mutant: the block is deleted and its nodes stay in the free list
WithoutBlock_Skipped(h, b) == h

\* the free list without the nodes of block b: the loop that relinks `target`
WithoutBlock(h, b) ==
  LET chain == Chain(h, h.ffirst)
      kept  == {i \in DOMAIN chain : chain[i][1] # b}
      From(i) == IF \E j \in kept : j >= i THEN chain[Min({j \in kept : j >= i})] ELSE NULL
  IN [h EXCEPT !.ffirst = From(1),
               !.next = [n \in Node |->
                  IF \E i \in kept : chain[i] = n
                  THEN From(1 + CHOOSE i \in kept : chain[i] = n) ELSE @[n]]]

\* deallocateBlock
DropBlock(h, b) ==
  [WithoutBlock(h, b) EXCEPT !.live = @ \ {b}, !.capacity = @ - StorageNodes]

\* was that the last node of block b in use?
LastOfBlock(h, b) == h.used[b] = 0

\* freeNode of a block node: to the end of the free list
FreeToBack(h, n) ==
  LET ended == SetNext(h, n, NULL)
      appended == IF h.flast # NULL THEN [SetNext(ended, h.flast, n) EXCEPT !.flast = n]
                  ELSE [ended EXCEPT !.flast = n, !.ffirst = n]
      freed == [appended EXCEPT !.used[n[1]] = @ - 1]
  IN IF LastOfBlock(freed, n[1]) THEN DropBlock(freed, n[1]) ELSE freed

\* freeNode of a preallocated node: to the front of the free list
FreeToFront(h, n) ==
  [SetNext(h, n, h.ffirst) EXCEPT !.ffirst = n,
                                  !.flast = IF @ = NULL THEN n ELSE @]

FreeNode(h, n) == IF InBlock(n) THEN FreeToBack(h, n) ELSE FreeToFront(h, n)

\* destroying the value stored in n, then freeing n
DisposeAndFree(h, n) ==
  FreeNode([h EXCEPT !.value[n] = NoValue,
                      !.fault = @ \/ h.value[n] = NoValue], n)

\* mutant: insertFirst is ignored
StaysAhead_NoFirst(h, x, p, first) == h.prio[x] <= p

\* does a node of priority p go behind the queued node x?
StaysAhead(h, x, p, first) == IF first THEN h.prio[x] < p ELSE h.prio[x] <= p

\* the node the walk of pushNode stops at: all up to it stay ahead
WalkEnd(h, p, first) ==
  LET chain == Chain(h, h.first)
      passed == {i \in 1..Len(chain) :
                   \A j \in 1..i : StaysAhead(h, chain[j], p, first)}
  IN chain[Cardinality(passed)]

\* pushNode: alone, in front, at the back, or behind the end of the walk
Enqueue(h, n, p, first) ==
  IF h.first = NULL
  THEN [SetNext(h, n, NULL) EXCEPT !.first = n, !.last = n]
  ELSE IF ~ StaysAhead(h, h.first, p, first)
  THEN [SetNext(h, n, h.first) EXCEPT !.first = n]
  ELSE IF StaysAhead(h, h.last, p, first)
  THEN [SetNext(SetNext(h, n, NULL), h.last, n) EXCEPT !.last = n]
  ELSE SetNext(SetNext(h, n, h.next[WalkEnd(h, p, first)]), WalkEnd(h, p, first), n)

\* push after its allocateNode: n gets priority and value, then pushNode
PushNode(h, n, p, first, stamp) ==
  Enqueue([h EXCEPT !.prio[n] = p,
                    !.value[n] = [stamp |-> stamp, first |-> first],
                    !.fault = @ \/ Dead(h, n)], n, p, first)

\* popNode on a queue that is not empty
PopNode(h) ==
  [h EXCEPT !.first = h.next[h.first],
            !.last = IF h.first = @ THEN NULL ELSE @,
            !.fault = @ \/ Dead(h, h.first)]
-----------------------------------------------------------------------------
InitialHeap ==
  LET bare == [next |-> [n \in Node |-> NULL]] IN
  [next |-> Linked(bare, "pre", PreallocatedNodes),
   prio |-> [n \in Node |-> 0],
   value |-> [n \in Node |-> NoValue],
   live |-> {}, used |-> [b \in Blocks |-> 0], capacity |-> PreallocatedNodes,
   first |-> NULL, last |-> NULL,
   ffirst |-> <<"pre", 1>>, flast |-> <<"pre", PreallocatedNodes>>,
   fault |-> FALSE]

Init ==
  /\ heap = InitialHeap
  /\ pc = [t \in Threads |-> "idle"]
  /\ hand = [t \in Threads |-> NULL]
  /\ pushes = 0 /\ popped = FALSE /\ alive = TRUE

Queued == Chain(heap, heap.first)
Free == Chain(heap, heap.ffirst)
InHand == {hand[t] : t \in {t \in Threads : pc[t] \in {"push", "free"}}}
Pending == Len(Queued) + Cardinality({t \in Threads : pc[t] \in {"push", "free"}})

\* clear() and the destructor run when nobody else uses the queue: clear()
\* replaces the locks by no-ops, and both callers own the queue by then
Shared == alive /\ ~ heap.fault /\ \A t \in Threads : pc[t] \notin {"clear", "destroy"}
Alone == alive /\ ~ heap.fault /\ \A t \in Threads : pc[t] = "idle"

\* push: allocateNode, under the free list's lock
Allocate(t) ==
  /\ Shared /\ pc[t] = "idle" /\ Pending < MaxPending
  /\ pushes + Cardinality({u \in Threads : pc[u] = "push"}) < MaxPush
  /\ Reuse \/ ~ popped \/ heap.live = {}
  /\ \/ /\ heap.ffirst # NULL
        /\ hand' = [hand EXCEPT ![t] = heap.ffirst]
        /\ heap' = TakeFree(heap)
     \/ /\ heap.ffirst = NULL /\ (Reuse \/ ~ popped)
        /\ \E b \in Blocks \ heap.live :
             /\ hand' = [hand EXCEPT ![t] = <<b, 1>>]
             /\ heap' = TakeFromBlock(heap, b)
  /\ pc' = [pc EXCEPT ![t] = "push"]
  /\ UNCHANGED <<pushes, popped, alive>>

\* push: fill the node, pushNode under the queue's lock
Push(t) ==
  /\ Shared /\ pc[t] = "push"
  /\ pushes' = pushes + 1
  /\ \E p \in Priorities, first \in BOOLEAN :
       heap' = PushNode(heap, hand[t], p, first, pushes + 1)
  /\ pc' = [pc EXCEPT ![t] = "idle"]
  /\ hand' = [hand EXCEPT ![t] = NULL]
  /\ UNCHANGED <<popped, alive>>

\* pop_prefix, pop_direct: popNode under the queue's lock
Pop(t) ==
  /\ Shared /\ pc[t] = "idle" /\ heap.first # NULL
  /\ hand' = [hand EXCEPT ![t] = heap.first]
  /\ heap' = PopNode(heap)
  /\ popped' = TRUE
  /\ pc' = [pc EXCEPT ![t] = "free"]
  /\ UNCHANGED <<pushes, alive>>

\* pop_prefix, pop_direct: the value leaves the node, freeNode under its lock
Release(t) ==
  /\ Shared /\ pc[t] = "free"
  /\ heap' = DisposeAndFree(heap, hand[t])
  /\ pc' = [pc EXCEPT ![t] = "idle"]
  /\ hand' = [hand EXCEPT ![t] = NULL]
  /\ UNCHANGED <<pushes, popped, alive>>

\* clear: the loop pops, destroys and frees until the queue is empty
ClearBegin(t) ==
  /\ Alone
  /\ pc' = [pc EXCEPT ![t] = "clear"]
  /\ UNCHANGED <<heap, hand, pushes, popped, alive>>

ClearStep(t) ==
  /\ pc[t] = "clear" /\ ~ heap.fault
  /\ IF heap.first # NULL
     THEN /\ heap' = DisposeAndFree(PopNode(heap), heap.first)
          /\ popped' = TRUE
          /\ UNCHANGED pc
     ELSE /\ pc' = [pc EXCEPT ![t] = "idle"]
          /\ UNCHANGED <<heap, popped>>
  /\ UNCHANGED <<hand, pushes, alive>>

\* ~PriorityQueue walks the queue without unlinking: it frees n, which
\* rewrites n->next, and then follows n->next
DestroyBegin(t) ==
  /\ Alone /\ (ClearFirst => heap.first = NULL)
  /\ pc' = [pc EXCEPT ![t] = "destroy"]
  /\ hand' = [hand EXCEPT ![t] = heap.first]
  /\ UNCHANGED <<heap, pushes, popped, alive>>

DestroyStep(t) ==
  /\ pc[t] = "destroy" /\ ~ heap.fault
  /\ IF hand[t] # NULL
     THEN /\ heap' = DisposeAndFree(heap, hand[t])
          /\ hand' = [hand EXCEPT ![t] = heap'.next[hand[t]]]
          /\ UNCHANGED <<pc, alive>>
     ELSE /\ alive' = FALSE
          /\ pc' = [pc EXCEPT ![t] = "idle"]
          /\ UNCHANGED <<heap, hand>>
  /\ UNCHANGED <<pushes, popped>>

Next ==
  \E t \in Threads :
     \/ Allocate(t) \/ Push(t) \/ Pop(t) \/ Release(t)
     \/ ClearBegin(t) \/ ClearStep(t)
     \/ DestroyBegin(t) \/ DestroyStep(t)

Spec == Init /\ [][Next]_vars
-----------------------------------------------------------------------------
Disjoint(s, t) == ToSet(s) \cap ToSet(t) = {}

(* Types; capacity() counts exactly the preallocated nodes and the blocks.  *)
TypeOK ==
  /\ heap.next \in [Node -> Node \cup {NULL}]
  /\ heap.value \in [Node -> [stamp : 0..MaxPush, first : BOOLEAN]]
  /\ heap.live \subseteq Blocks
  /\ heap.capacity = PreallocatedNodes + StorageNodes * Cardinality(heap.live)
  /\ pc \in [Threads -> {"idle", "push", "free", "clear", "destroy"}]
  /\ hand \in [Threads -> Node \cup {NULL}]
  /\ pushes \in 0..MaxPush

(* Once everything is popped the blocks are gone and the preallocated nodes *)
(* are all free again.                                                      *)
DrainRestores ==
  (popped /\ ~ heap.fault /\ Pending = 0 /\ \A t \in Threads : pc[t] # "destroy")
    => heap.live = {} /\ ToSet(Free) = Preallocated

(***************************************************************************)
(* The node lifecycle: a node is in one place (the queue, the free list or *)
(* one thread's hands), none is lost (free_capacity() counts all that are  *)
(* not in use), and it stores a value exactly from its push until it is    *)
(* disposed of; no deleted block is used, and each is deleted in the end.  *)
(* The two lists are under different locks, and a node that one of them    *)
(* still links after handing it out would corrupt both.                    *)
(***************************************************************************)
NodeLifecycle ==
  /\ ~ heap.fault
  /\ IsInjective(Queued) /\ IsInjective(Free)
  /\ Disjoint(Queued, Free)
  /\ InHand \cap (ToSet(Queued) \cup ToSet(Free)) = {}
  /\ \A t, u \in Threads : (pc[t] \in {"push", "free"} /\ hand[t] = hand[u]) => t = u
  /\ Len(Free) = heap.capacity - Pending
  /\ \A n \in Node : heap.value[n] # NoValue <=>
       Contains(Queued, n) \/ \E t \in Threads : pc[t] = "free" /\ hand[t] = n
  /\ DrainRestores

(***************************************************************************)
(* The linked queue implements the sorted queue: an entry is pushed by its *)
(* pushNode and popped by its popNode.                                     *)
(***************************************************************************)
QueuedEntries ==
  [i \in 1..Len(Queued) |->
     [prio |-> heap.prio[Queued[i]],
      first |-> heap.value[Queued[i]].first,
      stamp |-> heap.value[Queued[i]].stamp]]

Abstract == INSTANCE SortedQueue WITH q <- QueuedEntries

(* Every step of the node lists is a push, a pop or nothing for its users:  *)
(* no entry is lost, duplicated or served out of order.                     *)
ImplementsSortedQueue == Abstract!Spec
=============================================================================
