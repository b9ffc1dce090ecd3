# Specifications and proofs for stappler

stappler is a C++ application framework: a common library (containers, data,
threads, network), a client engine on top of cocos2d-x (resources, assets, fonts,
rich text), two servers (`stellator`, and the older Apache module `serenity`) and a
small transactional page store (`minidb`).  This directory holds TLA+ modules for
the parts of it in which the order of events decides whether the program is right,
the TLC instances that check them, and proofs that hold for every value of their
constants.

To check a run: `tlc -config <cfg> <module>`; to check a proof: `tlapm <module>.tla`.
`PROJECT.json` lists the runs, the lines each definition stands for, and the mutants:
for every property a plausible mistake in the code that makes TLC find it violated.

1. [Inventory](#1-inventory)
2. [Plan](#2-plan)
3. [The modules and the code](#3-the-modules-and-the-code)
4. [The runs](#4-the-runs)
5. [What the runs found](#5-what-the-runs-found)
6. [Restrictions, and what happens without them](#6-restrictions-and-what-happens-without-them)
7. [Fairness](#7-fairness)
8. [The proofs](#8-the-proofs)
9. [What is not modelled](#9-what-is-not-modelled)

## 1. Inventory

Paths are below `src/components/`.

| component | state | operations | what is hard | what makes it correct |
|---|---|---|---|---|
| `memory::PriorityQueue` (`common/core/memory/SPMemPriorityQueue.h`) | linked queue, linked free list, preallocated array, heap blocks with use counts, two locks | push, pop_prefix, pop_direct, foreach, clear, destructor | a node travels between two lists under two locks; blocks come and go | a node is in one place; order by priority, FIFO within one; no node lost |
| `thread::TaskQueue` (`common/utils/threads/SPThreadTaskQueue.cc`) | input queue, a local queue per worker, output vector, counter, context with mutexes and conditions | spawnWorkers, perform (one task, or a map of lists), performAsync, update, wait, waitForAll, finalize, cancelWorkers, onMainThread, the worker loop | producers, workers and the owner share three queues, a counter and four condition variables under different mutexes | a task is executed once and completed once after that, in order; waitForAll means what it says; nobody sleeps for ever; nobody touches a deleted context |
| `thread::Task` (`SPThreadTask.cc`) | prepare/execute/complete functions, success | prepare, execute, onComplete | - | the order of the three |
| `ThreadManager`, `Thread`, `TaskManager` (`stappler/src/features/threads`) | table of managers, the main thread's queue | perform, performAsync, update once a frame | a table without a mutex, lazily filled | a task reaches the thread it names |
| minidb file: `Transaction`, `PageCache`, `Storage` (`minidb/src`) | storage file, write-ahead log, flock per descriptor, cached and dirty pages | constructor, open, read/write a page, evict, invalidate, commit, close, applyWal | several processes, killed anywhere; lock conversions | commits are atomic, isolated, durable |
| minidb trees (`MDBTree*.cc`, `MDBCbor*.cc`), `Handle` | pages with cells; nesting count | insert, remove, find, split | a page split in several pages | a B-tree holds what was put in it |
| `SyncRWLock` (`common/utils/ref/SPSyncRWLock.cc`) | mode, keys of the holders, two queues of requests | retainReadLock, retainWriteLock, tryReadLock, releases, the same over a vector | callbacks that run inside other calls | a writer is alone; nobody is forgotten |
| `Asset`, `AssetDownload` (`stappler/src/features/networking`) | the file, its temporary, a database row; five flags and an mtime; downloads in progress | download, swapFiles, clear, checkFile, saveAsset, restoring | four threads and a restart between any two steps | readers see no change; the row never claims what the disk does not have |
| `AssetLibrary` (`SPAssetLibrary.cc`) | live assets, downloads, waiting callbacks, requests from before it has loaded, the rows | init with restoreDownloads and cleanup, getAsset, getAssets, onAssetCreated, removeAsset | rows are read on another thread while further requests for the same ids arrive, also out of the callbacks of earlier ones | one Asset for an id; every request answered once |
| `CommonSource`, `SourceNetworkAsset`, `Request` (`document/src/rich_text/common`) | the document and the mtime it was loaded for, a load on its way, external assets asked for, entries for the holders of read locks | onDocumentAssetUpdated, tryLoadDocument, refresh, setEnabled, retainReadLock, run, onAssetCaptured | documents are opened and pages drawn on a thread under locks that are taken and given back on another | a new file is shown; a page is drawn of the document it was asked of; every lock comes back |
| `data::Subscription`, `Binding`, `Listener` (`common/utils/ref`) | flags per subscriber, forwarding | setDirty, check, forward, unsubscribe | notification and reading are a frame apart; a subscriber's id is in two maps | no change is missed or heard twice |
| `data::Source` (`stappler/src/core/data/SPDataSource.cc`) | tree of categories, counts, pending batches | counts, slices by index, requests that return later | indices through a tree with or without entries for its inner nodes | the slice is the one defined by the flattened tree |
| `material::Scroll` (`material/nodes/scroll/MaterialScroll.cc`) | the window of items it shows, its loaders, what it has asked for | onSourceDirty, requests at either end, onSliceData, onSliceItems, setSource, setLookupLevel | answers that are late, for a list that has changed or been replaced | what is shown is a part of the list without holes, at last of its last state |
| `ConnectionQueue`, `ConnectionWorker`, `Root` (`stellator/server/STRootWorker.cc`), `Task`, `TaskGroup` (`stellator/utils/STTask.cc`) | deque, counter, event descriptor, followed and scheduled tasks; added/completed counts | pushTask, popTask, the poll loop, finalize; onAdded, onPerformed, waitForAll | edge-triggered events shared by workers; a counter that is counted after the fact | no task without its event; a group waits for all; close waits for all |
| stellator and serenity storage, users, requests | SQL database | schemes, permissions, triggers | what is atomic is the database's doing | - |
| memory pools, containers, data values, encoders, strings, streams, time, search | - | conversions and containers | sequential | round trips, tree invariants |
| document, layout, material (but Scroll), spug, nodes | trees of one thread | layout, drawing, a template interpreter | - | - |
| cocos2d-x, third party, platform, templates | - | - | vendored | - |

How they interact.  A `TaskQueue` stores its tasks in `PriorityQueue`s.  A
`TaskManager` is a `TaskQueue`; `Thread` names one in `ThreadManager`, whose
main-thread queue is where every asynchronous part of the client (network, storage,
assets, textures) delivers its results.  An `Asset` *is* a `SyncRWLock` and a
`Subscription`: its own swaps take the write lock, texture cache, rich-text sources
and font controllers the read lock, and a network source of a document forwards to it.
`AssetLibrary` makes the assets and keeps the rows from which downloads are restored.
A `Scroll` listens to a `Source` through a `Binding`.  The server's workers share the
`ConnectionQueue`.  minidb stands alone: it uses the operating system's files and locks,
and talks to other processes only through them.

Every place in this code that is hard to test is in `PROJECT.json` under `hazards`,
at its line, with the properties that watch it or the reason that none does.

## 2. Plan

In this order, most important behaviour first.  Those marked with * exist.

1. * `PrioritySeq`, `SortedQueue` (abstract), `PriorityQueue` (implements it)
2. * `TaskPool` (abstract), `TaskQueue` (implements it; its queues are those of `PrioritySeq`)
3. * `AtomicStorage` (abstract), `MiniDb` (implements it)
4. * `SyncRWLock`, and `Asset`, which extends it with the asset, its download, its
   library row, the storage thread and the restart
5. * `AssetLibrary`: who makes an asset, and who waits for it
6. * `Updates` (abstract), `Subscription` (implements it): no flag is missed or heard
   twice, through forwarding
7. * `ConnectionQueue`, with `TaskGroup` and the main loop of `Root`
8. * `Source` (operators), `Scroll` (extends it): slices against the flattened tree; the
   window that a scroll has of it
9. * `CommonSource` (extends `Asset`): a source of a document, its loads and its pages
10. Locks over several objects, and `AssetFile` copies
11. `ThreadManager` and `TaskManager` over `TaskQueue`
12. `MiniDb` extended: the formatting of a new file, threads inside one transaction
    (`openPage`, `allocatePage`), `Transaction::foreach`; the B-tree pages as operators

Runs: each module gets one run in which everything the code promises holds, and a
run of its own only for a different question (liveness, another use of the flags, a
disagreement).  Bounds: two of everything that can compete, three where two hide an
interleaving (tasks, descriptors, server versions).

What is proved is in section 8.  Left to prove: of `Scroll!Window` the part that needs no
recursion over the tree (`Unmixed`, and the size of the window given how many entries a
request names); of `CommonSource` the versions when a page may be asked for of a source that
is not actual, which the run shows for its instance.

## 3. The modules and the code

### PrioritySeq, SortedQueue, PriorityQueue

`PriorityQueue` models the node lists as the code links them.  `heap` holds `next`,
`prio` and value of every node, the live blocks with their use counts, first and last
of both lists and `capacity`.  A step is one critical section: `Allocate` is
`allocateNode`, `Push` is the filling of the node and `pushNode`, `Pop` is
`popNode`, `Release` is the call of the user's function, the destruction of the value
and `freeNode`.  Between two steps a thread owns the node in `hand`.  `clear` and
the destructor are loops of steps of a thread that is alone.  A value is the number
of its push; storing, moving and destroying it is visible in `heap.value`, so a value
destroyed twice is a fault.  `Linked`, `TakeFree`, `TakeFromBlock`, `DropBlock`,
`FreeNode`, `PushNode`, `PopNode` are the functions of the code on that heap.

`PrioritySeq` says what place `pushNode` gives an entry in a sequence (`IsPlaceFor`),
and `SortedQueue` what the queue promises: atomic push and pop, and an order
(`Before`).  `PriorityQueue!ImplementsSortedQueue` maps the chain of nodes to that
sequence.

### TaskPool, TaskQueue

A step of `TaskQueue` is one critical section or one atomic operation of one thread:
the increment of `_tasksCounter`, the push, the notification after it, the pop, the
mutex taken before a wait, the wait, the execution, the output, the count down.
`wpc`, `ppc` and `mpc` are the places of workers, producers and owner in the code.
The three kinds of owner call that wait (`wait`, `waitForAll`, `cancelWorkers`) are
sequences of steps, so anything may happen between the check of a condition and the
wait for it, as in the code.  A condition variable wakes one or all of the sleeping
workers, or one on its own (`SpuriousWakeup`); a timed wait ends at any moment.
`_context` has the value "freed" after `cancelWorkers`, because the code keeps the
pointer; whoever uses it then sets `fault`.  The input queues are sequences ordered
by `PrioritySeq!IsPlaceFor`, which `PriorityQueue` is shown to implement.

`TaskPool` is the promise: the life of a task as a sequence of phases, with one
condition on order (a task taken from the shared queue is the most urgent).  `PhaseOf`
maps the state of a task to its phase.  Sets of executed and completed tasks would not show
that one is executed or completed a second time, so `ImplementsTaskPool` also says
`OneSeat`: a task is at one place at most, at none after its completion, and never on its
way to an execution once it has been executed.

### AtomicStorage, MiniDb

What a page holds is modelled as the number of the commit that wrote it last; the
header page holds the number of the last commit.  A descriptor (`Conn`) is a
`Transaction` object: its `pc` tells whether it is closed, reads, writes, or where in a
commit it is.  A commit is one step per effect on the file system: the log is created
(empty), gets its length, is written with version 0, is made valid, every page is
copied in the order of numbers, the log is removed.  `Crash` ends a process between
any two of them, releasing its locks.  `makeWal` may fail at the creation and at the
sizing (`WalFaults`), and then the pages go to the file directly.  The constructor
looks for a log under a shared lock, gives it up, and takes an exclusive one
(`ConstructMaps`, `ConstructLocks`), since `flock` converts that way.  Between the look and
the opening another constructor may remove an invalid log (`ConstructFinds`, `ConstructDrops`).
A commit takes every dirty page: nobody refers to a page any more, since the threads that
share a transaction are left out; `makeWal` and `clear` skip pages that are still referred to
(MDBPageCache.cc:179, 199, 476, 534).

`AtomicStorage` is the promise: one writer or many readers, reads of the last
commit, commits at once or not at all.  The refinement maps `Content` - the file as a
valid log completes it - to what is committed, so the commit point is the activation
of the log.

### SyncRWLock, Asset

`SyncRWLock` has no threads: requests are granted inside calls of the main thread,
and the function of a granted request may release the lock at once.  `stack` holds
what the main thread is in the middle of, innermost first: a function about to be
called, a release, `onLockFinished`, the removal of the front writer after its function
returned, the loop over the readers.  `lockers` are keys, and `releaseLock` erases the
first equal one.

`Asset` extends it.  On the disk: `file`, `temp`, `row`.  A file is the pair of versions its
two halves come from, so that a file resumed from another version is visible: the server
publishes whenever it likes, also while a part of a download is kept.  `flags` are the members
of `Asset`.  The main thread's queue is `calls`; `work` is the task of `swapFiles` on the
storage thread, in its two steps (remove the original, move the temporary); `saves` are the
rows posted and not yet written.  The network thread is `Refused`, `Failed`, `Responded`,
`Received`: what `AssetDownload::execute` and `NetworkHandle` do with the answers of a server.
`Restart` kills the process at any step and runs what a start does: the row decides between
`restoreDownloads` and a fresh `Asset`.

### CommonSource

Composes `Asset` with its most demanding user: the steps of `Asset` are the steps here
(`AssetCalls`, `AssetUsers`, `Network`, `AssetThreads`), and its readers are the loads and
the pages of one source.  What a step of the asset announces is added to `heard`, for
the listener at the next frame: files, failures, and everything else, to which the changes
of the lock belong (`onLocked`).  `Frame` is the whole of `onDocumentAssetUpdated`, with the
download it may start and the load it may try; `TryLoad` is `tryLoadDocument` with
`tryLockDocument`.  A source may be refreshed, disabled and enabled at any time, so
that loads overlap; they share `loaded`, `loading` and `path`.  That something is heard for
the first time (`f.initial()`, RTCommonSource.cc:259) has no case of its own: it differs for an
mtime of 0 only, and then there is no file to load.  Tasks of the texture thread are in `jobs`,
their completions in the main thread's `calls`, in order with those of the asset.  When no
external asset is asked for any more, the loads that wait are finished one after the other
before anything else (`Finishing`).  `FinishLoad` puts the last part
of a load on the stack of calls: `releaseDocument`, which may finish the lock and grant it to
others, and then `OnDocumentLoaded`.  `OnAssetCaptured` is the function of a page, instead of
`Calls`: it releases at once when the source is not actual, also when it is granted after a
wait.  Of the external assets there is only whether they have been asked for and answered.

### AssetLibrary

Complements `Asset`: an asset here is only an object with a reference count
(`objects[i]` are the counts of the objects made for the id `i`, `assets[i]` says which of
them is live), and the module is about who makes one.  A task of the storage thread is in
`jobs` from its posting to its completion; `performed` of them have been executed.  A
completion is not one step: while the loop of `getAssets`' completion or the serving of
the requests from before loading calls functions of users, these may ask for more, or
release what they have got.  `now` is what the main thread has left of it, and `inside`
says that its last step called users, so `getAsset`, `getAssets` and `Drop` are enabled
there too.  `retVec` is the vector that a `getAssets` collects, `callbacks` are
`_callbacks`: of each id the own callbacks and the lambdas of other calls' vectors.
`removeAsset` runs in `Release`, where a count becomes 0.  The database starts with any
rows, as an earlier life, killed anywhere, may have left them: each with a download on its way
or not, and old enough to be dropped or not (`expired`).  The constructor of a restored asset
saves the row with a new touch time and no download (`Touched`), and the cleanup that follows
drops what is expired then: that it does not take the row of an asset just made is a
property (`OneLasting`), not a guard.

### ConnectionQueue

`taskDeque`, `taskCounter` and the event descriptor are three pieces of state that the code
changes one after another: `pushTask` is three steps (`Pushes`, `Counts`, `Notifies`), the
worker's way from `epoll_wait` through the read of the descriptor, `popTask` and the forwarding
of what is left of the count to `runTask` and the release is one step each.  The descriptor is
edge triggered and exclusive: `Write` puts it into the ready lists of busy workers and of one
that waits.  The pipe is edge triggered as well: `ended` are the workers whose lists still have
it, so that a worker that drops its events drops END! with them.  `TaskGroup` is `added`,
`completed` and `performed`, of the group that a task owns; `waitForAll` polls.  `onPerformed`
is two steps, the count under the mutex (`releaseTask`) and the notification after it
(`Notify`). The main thread is `Root::run`: it pushes scheduled tasks when they are due and
followed ones when nothing is left to do, and closes with END! in the pipe when `shouldClose`
is set, the counter is 0 and no task follows.

### Updates, Subscription

`Subscription` has the maps of `Subscription` (`ids` their keys, `flags` their values,
kept apart so that a value without a key is empty), `forwarded`, the counter of ids and
the `Binding` of each `Listener`.  `Set`, `Move` and `update` are the listener's
operations; `setDirty` is every change, with or without the restriction to a forwarder's
own subscribers; `onAsset` is `setForwardedSubscription` as `SourceNetworkAsset` calls
it, before or after it has subscribers.  Those it has then are `Deaf`: their ids are dropped,
and nobody gives them new ones.  `Without` has the reversed test of `unsubscribe` as it is in
the code: the id stays.

`Updates` is the promise, without ids: each listener hears, the next time it asks, what
was posted since it last did, but for those who were bound to a provider when it began to
stand for another, who hear nothing until they are bound anew.  So the refinement says who
grows deaf, and that nobody else does.

### Source, Scroll

`Source` is a module of operators: a tree of categories, `GetCount`, `OnSlice` and
`SetCategoryBounds` as recursive functions that follow the code's walk with what is still
to skip and to take, and `Flat`, the list by definition, against which they are checked.

`Scroll` extends it.  `asked` are the requests that wait for categories, `loading` the
tasks of the worker that turns data into items, in order.  Every request makes the
earlier ones outdated: `_invalidateAfter` and the time in each request become the bit
`valid`.  A category answers with what it had when it was asked or has now; each entry
shown carries the edition of the list it was taken from, so that what is shown can be
compared with the list as it is.  The window is asked for anew (`Renew`) when the listener
finds the source dirty, and at any time when the view gets another width
(`onContentSizeDirty`).

## 4. The runs

Numbers are distinct states.

| run | instance | shows |
|---|---|---|
| `pq` (65,088) | 2 threads, 2 priorities, 2 preallocated nodes, a block of 4, 5 pushes, 4 pending | no node lost, shared or faulty, blocks go away when their nodes are free (`NodeLifecycle`); `ImplementsSortedQueue` |
| `tq_use` (286,703) | 3 tasks (one refused, one urgent), 2 producers, 2 workers, Cancelable and Waitable, all owner calls but the destructor | `CounterExact`, `WaitForAllDrains`, `ImplementsTaskPool` |
| `tq_local` (421,812) | local queues, perform(Map) to worker 0 and to the key one past the last, a detached task, an owner that cancels or destroys at any time | the promises hold up to the first fault; `LocalNotMissed`; `WorkersEnd`: workers end before their context goes |
| `mdb_use` (467,378) | 2 processes, one with 2 descriptors, 2 pages, 2 commits, kills and failures of makeWal | `WriterAlone`, `ImplementsAtomicStorage` |
| `asset` (183,212) | 2 readers with the key of a cache, a swap, a clear, 3 versions on the server, 1 kill, fair | `WriterExcludes`, `NobodyForgotten`, `SwapHasFile`, `NeverClaimsMore`, `FlagsAgree`, `ReadStable`, `SwapFinishes` |
| `source` (1,581,614) | 2 loads at a time, 2 pages asked for at any time, 2 external assets, 2 versions, a file that is there or not, 2 acts of users, fair | `OpensItsFile`, `HeldForAReason`, `ActualIsShown`, `DrawStable`; `NewFileShown` |
| `library` (160,790) | 2 ids, 2 calls of any shape, any rows of any age at the start, a network for the cleanup or none, fair | `OneLasting`: one Asset for an id, whose row stays; `AnsweredOnce`, `EveryoneAnswered` |
| `queue` (35,413) | 2 workers, 3 tasks, made by the main thread or by tasks, followed, scheduled, in groups, fair | `WokenForTasks`, `IdleIsIdle`, `WaitsForAll`; `EveryTaskDone`, `CloseFinishes` |
| `subs` (239,926) | 2 assets, a forwarder that gets one at any time, 2 listeners, 2 flags, 3 ids | `Registered`, `LeftoversGo`, `ImplementsUpdates` |
| `scroll` (541,705) | sources of up to 3 levels with subcategories, two views, a slice of one entry, a saved window, 2 changes or resizes, fair | `SlicesExact`, `Window`, `Settles` |
| `tq_lost_wakeup`, `mdb_stale_wal` | the smallest instance each | a statement of the code's own comments that the code does not keep: section 5 |

The `TypeOK` of `TaskQueue`, `MiniDb`, `Asset` and `Subscription`, which the theorems build on,
is checked as well.  So can that of the other modules be, by adding it to their `.cfg` (in
`CommonSource` it is `SourceTypeOK`): it holds in each of these instances.

Why the bounds are enough.

- `pq`: the branches of the lists distinguish an empty list, one node and more; two
  preallocated nodes and a block of four with four pending nodes reach each of them
  in both lists, an exhausted free list, a block with its last node freed, and one
  block deleted while nodes of the array are in use.  Five pushes leave one push after
  a burst of four.  Two priorities with `insertFirst` either way give every outcome of
  the comparisons.
- `tq_*`: two producers or two workers make each pair of critical sections meet; three
  tasks keep one executing, one queued and one on its way.  Every place of the code is
  reached (the coverage of the passing runs together has no action unused).
- `mdb_use`: two descriptors in one process share a fate and two processes do not; two
  commits let a second log be built from what the first left; two pages make a copy
  that stops half way.
- `asset`: the original, an update and a change on the server between request and
  swap need three versions; one kill already interrupts each step, since the state
  after a restart is again a state of the model (two kills, without saves pending,
  were checked as well and hold: 295,664 states).  `MaxSaves` bounds the rows that are
  not yet written when a user downloads again: the queue itself would grow for ever.
- `source`: one version to begin with and one to replace it, or the first of all; two
  loads are one more than there should be, so a second would be seen; two pages keep the
  swap waiting one after the other, also when they overlap, and one may be granted from inside
  the release of the other; of two external assets the
  second document adds one to that of the first.  Two acts disable and enable, or refresh
  and retry.  Rows matter only to a restart, which is left out, so they are written before
  anything else happens.
- `library`: two calls make every pair meet: before and after loading, for the same id or for
  vectors that overlap, one inside the callback of the other.  Each row is absent, or there
  with or without a download, expired or not, which is all that restoring and cleanup look at.
  Two ids give a vector one member that is live and one that is made, or both on their way
  through different tasks.
- `queue`: three tasks are a task with a group, one in it, and one beside; two workers
  are one that waits and the one spare worker that it needs (four tasks were checked as
  well: 406,356 states).
- `subs`: two listeners exchange bindings and share a forwarder; three ids let one be
  left behind while both are bound.  The theorems of section 8 need none of the bounds.
- `scroll`: a slice of one entry makes windows of two, so the tree of up to six entries has
  more in front and behind; categories at the levels 1 and 2 and an inner one end a slice in
  each of the ways of `OnSlice`.  Two changes, or a change and a resize, put one answer between
  two others (with two loader requests out at once the invariants hold too: 3,721,375 states).

Symmetry: threads in `pq` (values in no property), the two descriptors of one process
in `mdb_use` (they have the same `Home`); no run with a liveness property uses one.

Deadlock is not checked (`CHECK_DEADLOCK FALSE`) where the program really may stop: an
object is destroyed or a fault ends the program (`PriorityQueue`, `TaskQueue`), a bounded
number of operations is used up and everything is answered (`AssetLibrary`, `Scroll`,
`Subscription`), or the server has been closed (`ConnectionQueue`).

## 5. What the runs found

Two runs have one property that TLC finds violated, and a finding each.

1. `tq_lost_wakeup` - a worker that found the queue empty waits without looking again
   under the mutex (SPThreadTaskQueue.cc:706), and `perform` notifies without it.  A
   task pushed in between is executed only when another is performed.
2. `mdb_stale_wal` - a constructor that mapped a log and waits for the exclusive lock
   replays it although another process has replayed and removed it, and committed since
   (MDBStorage.cc:620).

`TaskQueue_batch.cfg` is the one other configuration that holds: the use of `performAll`, with
everything performed before `spawnWorkers`, three tasks and two workers under weak fairness, in
1,613 states.  Its property `BatchEnds` says that every task is executed and `waitForAll` returns.

The remaining configurations in this directory are instances in which a property fails: one
that holds in the run of its module under a restriction of section 6, or one that the code
does not see to at all and that no run lists.  They can be given to TLC as they are:

| configuration | property | what happens |
|---|---|---|
| `PriorityQueue_overflow.cfg` | `NodeLifecycle` | `allocateNode` clears `_free.last` when one free node is left, not when none is (SPMemPriorityQueue.h:347); the next preallocated node to be freed then goes in front of that one as if the list were whole, `_free.last` ends on a node that is queued, and the next block is linked behind it, into the queue |
| `TaskQueue_cancel_hang.cfg` | `CancelTerminates` | `cancelWorkers` notifies before the worker waits, then joins it for ever (SPThreadTaskQueue.cc:174) |
| `TaskQueue_destroy_twice.cfg` | `NoFault` | `cancelWorkers` deletes the context and keeps the pointer (:567); the destructor cancels it once more |
| `MiniDb_empty_wal.cfg` | `NoFault` | a process killed between the creation of the log and its sizing leaves an empty log; mapping it gives null, which is read (MDBPageCache.cc:511) |
| `Asset_resumed.cfg` | `OneVersion` | what an earlier download has left is appended to, without If-Range (SPAssetDownload.cc:71): when the server has published meanwhile, the file is half of one version and half of the next |
| `AssetLibrary_leak.cfg` | `Autoreleased` | "new asset is autoreleased" (SPAssetLibrary.h:76), but the storage thread makes it with `new` (SPAssetLibrary.cc:352) and nobody gives up that reference: it stays when all its receivers have let go |
| `ConnectionQueue_errno.cfg` | `WokenForTasks` | `poll` reads `errno` after an `epoll_wait` that succeeded (STRootWorker.cc:432): what a task left there makes the worker drop the events it was given, and the edge is spent; when it is the pipe's, the worker never sees END! and the server does not close |
| `ConnectionQueue_group.cfg` | `GroupOutlives` | `onPerformed` counts under the group's mutex and uses the group's members after it (STTask.cc:60-73): the owner may see the count, wake up by its timeout and let go of the group in between |
| `CommonSource_refresh.cfg` | `PathKept` | `refresh()` during a load starts a second one; the first to finish clears the path that the texture thread is to open next (RTSourceAsset.cc:177), that load opens nothing, and what opens nothing never releases (RTCommonSource.cc:299) |
| `CommonSource_waits.cfg` | `NobodyStuck` | a page that waits for a swap finds the source not actual and releases inside the function that was granted (RTDrawerRequest.cc:110); the queue it is still in is served once more (SPSyncRWLock.cc:192), to a request that is finished: the asset stays read locked, and no file is ever put in place again |
| `Subscription_dropped.cfg` | `NobodyDeaf` | a forwarder that gets its asset when it has subscribers drops their ids and gives them to nobody (SPDataSubscription.cc:120) |
| `Scroll_impatient.cfg` | `Window` | a loader that comes into view while the window is asked for anew makes that answer outdated (MaterialScroll.cc:383): the list from before the change stays on the screen |

Seen with the same modules in other instances:

- `PriorityQueue`, `Reuse = TRUE`: a deleted block leaves `_free.last` pointing into it
  (:383-407).  `ClearFirst = FALSE`: the destructor of a queue that is not empty frees a
  node and then follows its `next`, into the free list (:113).
- `TaskQueue`: after the wait of a local queue the loop executes a null task (:704;
  `NoFault` in the instance of `tq_local`); perform(Map) accepts a key equal to the
  number of workers (:401); `wait()` sleeps on output that is already there (:193;
  `WaitWakes`).
- `MiniDb`: of two constructors that find an invalid log, the second to open it finds it
  removed and maps nothing (MDBStorage.cc:596-608; `NoFault` with `Careful = FALSE`, also when
  no log is left empty).  `Careful = FALSE`: a read transaction opened after a kill reads half
  of a commit, because only writers replay.  `FreshTransaction = FALSE`: `_success` is never
  set again, and a reused object drops its commits silently.
- `Asset`, `Polite = FALSE`: `download()` while a swap waits for its lock takes the same
  temporary file and the swap finds it gone (`SwapHasFile`); when there are two swaps, the
  first to end takes `_fileUpdate` back while the second moves files (`FlagsAgree`).
  RTCommonSource.cc:234 and SPTextureCache.cc:270 call it so.  Readers in `Repeated`: readers
  that overlap starve the swap (`SwapFinishes`), under any fairness, since `retainReadLock`
  lets readers in while a writer waits.  `clear()` on a locked asset: the queued writer is
  still at the front when its function releases, is granted again and recurses
  (SPSyncRWLock.cc:188).
- `CommonSource`, `Broken` not empty: a document that cannot be opened keeps its lock and
  leaves the source loading (`NobodyStuck`, `NewFileShown`).
- `ConnectionQueue`, `Spare = 0`: every worker may wait for a group whose tasks stay
  in the deque (`EveryTaskDone`).

From reading alone: when a page releases inside its function, the entry whose waiters are being
called is erased under the loop (RTCommonSource.cc:193); two loads of one version replace the
document object under a page that is drawn of it (:302); a texture that comes into the cache
while the texture cache waits for the read lock makes it release inside its function as well
(SPTextureCache.cc:325); `CommonSource` calls `download()` of a network source whose asset has
not come yet (RTCommonSource.cc:234, RTSourceAsset.cc:195), a null pointer; a font controller
that finds its copy up to date goes on without `releaseReadLock` (SPFont.cc:939);
`AssetFile::init` names its copy by a `_ctime` that is not set yet, so all copies share a path
(SPAsset.cc:50); `Root::run` declares a local `socket` that shadows the one it is to keep;
`setChildsCount` of a subcategory does not make the root dirty, and `getGlobalCount` of the
root goes stale; at the last level `getCount` counts entries for subcategories that `onSlice`
does not deliver; in a tree with such entries `getItemData` gives the header of a subcategory
where an own item is asked for.

## 6. Restrictions, and what happens without them

Restrictions on users, named by a constant, so that the promise can be checked for
the rest.  Each one is a rule the code does not enforce, and its violation is above.

| constant | value in the passing runs | meaning |
|---|---|---|
| `Reuse` | FALSE | the queue needs a block at most in one burst, before it is first popped |
| `ClearFirst` | TRUE | the owner clears before it destroys: what `~TaskQueue` does |
| `Careful` (TaskQueue) | TRUE in `tq_use`, FALSE in `tq_local` | cancel when everything is performed, and call nothing afterwards |
| `Batch` | TRUE in `TaskQueue_batch.cfg` | spawn when everything is performed: what `performAll` does |
| `Careful` (MiniDb) | TRUE in `mdb_use` | while a log is left, nobody constructs beside another process or opens for read |
| `FreshTransaction` | TRUE | a `Transaction` object is used once |
| `CrashAt` | all steps but the direct writes | without a log there is nothing to recover from |
| `Polite` | TRUE | users ask `isDownloadAvailable()` before `download()` and leave a locked asset to `clear()` later |
| `Interrupts` | FALSE | a task leaves no EINTR in `errno` |
| `Spare` | 1 | so many workers are not in tasks that wait for their groups |
| `Patient` (Scroll) | TRUE | loaders do not come into view while the window is asked for anew |
| `Patient` (CommonSource) | FALSE in the run, TRUE in the theorems on versions | a page is asked for of an actual source, with no swap in the way |
| `Broken` | {} | versions whose document cannot be opened |

Bounds: `MaxPush`, `MaxPending`, `MaxTx`, `MaxVersion`, `MaxKills`, `MaxSaves`, `MaxSize`,
`MaxTasks`, `MaxFirst`, `MaxId`, `MaxEdition`, `MaxAsked`,
`MaxActs`.

Other abstractions:

- The memory is sequentially consistent (the code's atomics are the default ones, and
  everything else is under a mutex).
- A file operation is durable when it returns (a killed process, not a lost machine: the
  page cache of the system survives); `remove` and `rename` of an asset succeed when the
  file exists.
- The main thread's queue is a FIFO, since everything the asset posts has the same
  priority.
- `AssetLibrary`: a call asks for an id at most once, the callback of `getAsset` is not
  null, and a callback calls nothing in the middle of the loop over the requests of one
  `getAssets`.  Rows are saved by `Asset`; here they are only there or not, and say
  whether a download is to be restored and whether they are old enough to be dropped.
- `CommonSource`: one lock, that of the document; a holder asks once.  The process is not
  killed (`MaxKills = 0`), so `SourceInit` adds a file of an earlier life.
- `ConnectionQueue`: tasks are pushed by tasks and by the main thread.  What a worker reads of a
  group that its owner has let go of (`GroupOutlives`) changes nothing here: `Notify` has no
  effect on others.
- `Subscription`: bindings are moved and not copied, one that was moved from is set
  before it is used, and what is forwarded to does not forward.
- `Scroll`: the source is never null; times of two requests differ; entries for
  subcategories are asked for with a level at which all of them are delivered; the
  answers of one request come to the scroll together, since `SliceRequest` keeps them to
  itself until the last.  A source that becomes empty leaves items and an outstanding
  request as they are (MaterialScroll.cc:318-323), which `Quiet` and `Settles` except.

## 7. Fairness

`TaskQueue!Scheduling` is weak fairness of each started thread: a producer in the
middle of `perform`, a worker, the owner in the middle of a call.  A mutex here is held
for a bounded section, so a thread that can take its step again and again can do so
continuously.  Producers
perform the tasks they have; the owner's calls have no fairness, only their completion. No
spurious wakeup has to happen, which is what makes the lost wakeups visible; a timed
wait does end, since its timeout is a step of the owner (`WaitExit`).

`Asset!FairSpec` is weak fairness of the main thread's own steps (the next call of the
queue, the next call on the stack), of the storage thread, and of each reader's
release.  The network answers or not, the server publishes or not, users call or not,
and the database writes rows whenever it likes.  A reader's release is the obligation of
a user of the lock; SPFont.cc:939 breaks it.

`CommonSource!SourceSpec` is weak fairness of the frame, of the calls of the main thread, of
the texture thread, of the storage thread, of the network, which answers or fails in the
end, and of the library's answer for each external asset (`EveryoneAnswered`).  The network
is needed because a load is refused while a download is in progress.  `WF` is said of steps
taken when no row is to be written (`Saved`): users and retries are bounded, so rows are not
written for ever.

`AssetLibrary!FairSpec` is weak fairness of the storage thread and of the main thread
with its completions: both are loops over a queue.  Users call or not, release or not.

`ConnectionQueue!FairSpec` is weak fairness of each worker and of the main thread, and
of the end of a task that does not wait: a task may do anything, but not for ever.
Workers share an event by chance; no strong fairness is assumed of who gets it.

`Scroll!FairSpec` is weak fairness of the frame, as long as the source is dirty, of the
categories, some request of which is answered, and of the worker.  `WF_dirty(Frame)` is
said in terms of `dirty` because no step but `onSourceDirty` takes it back, and TLC need
not evaluate the handler to see that it is enabled.

## 8. The proofs

| module | theorem | argument |
|---|---|---|
| `PriorityQueueProofs` | `QueueTypes` | by `QueueInv`, as the next two |
| | `NodesKeepTheirPlace` | `QueueInv` names what the links of a heap spell: the two sequences of nodes they connect without a repetition (`Links`, `Lists`), where each node is that exists - in one of them, or in the hands of a thread that fills or disposes of it (`Places`) - and the counts: capacity, the nodes of a live block in use, and what is known of the end of the free list (`FreeList`). Together that is `HeapInv`, kept by each function of the heap in a lemma of its own (`HeapTake`, `HeapBlock`, `HeapPush`, `HeapPop`, `HeapFree` with `HeapDrop`); `HandsInv` says what the threads carry. Without the values of `flast` the invariant is not inductive: a block is linked behind it |
| | `ListsImplementQueue` | the same invariant; a chain is what `Links` says (`ChainIs`), so `WalkEnd` is the place of `IsPlaceFor` (`PushPlace`), and every step is a push, a pop or a stutter (`PushStep`, `PopStep`, `ClearedOne`; `EntriesSame` for the others) |
| | `EntriesLeaveInOrder` | on top of the refinement: an entry has a later stamp than all that are queued, so the place `pushNode` finds keeps every pair in order (`PushKeepsOrder`) |
| `TaskQueueProofs` | `TypeCorrect` | `TypeOK` is inductive: it says which places hold a task |
| | `CounterCorrect` | `CounterInv` is `TypeOK`, finiteness of the tasks in local queues, and `CounterExact`; per step, how `Pushing`, `Assigned` and `Busy` change by one element (`PushingChange`, `BusyChange`, `AssignedLonger`, `AssignedShorter`) against how `counter` does |
| | `WaitForAllCorrect` | `LocatedInv`: until the queue is destroyed every task is settled (not performed, executed, refused, detached) or pending, at one of the places the counter counts; with counter 0 nothing is pending (`NothingPending`), so all are settled |
| | `LocalCorrect` | `LocalInv`: a worker that holds the mutex before it waits has an empty local queue, and whatever is pushed later is pushed by a call of perform(Map) that has still to notify |
| | `WorkersEndFirst` | `EndInv`: a worker has a task only at the places where it handles one, a joined worker is gone, no notification brings it back, and the context is deleted when all are; nothing is assumed of the owner, of producers or of the flags |
| | `PoolCorrect` | `PoolInv`: every task is in one seat at most (`Alone`) - in the hands of a producer, in the shared or a local queue, executed or on its way out of a worker, in the output - and that seat is the one its history leaves open (`Life`) and calls for (`Found`); the queues are in order and have each task once (`Ordered`, kept by `OrderedPush` and `OrderedPop`). One lemma per action says which task moves and to what phase (`TakeMoves` to `DestroyMoves`), and three compose them into steps of `TaskPool` (`ProducerRefines`, `WorkerRefines`, `OwnerRefines`) |
| `ConnectionQueueProofs` | `TypeCorrect` | `QueueInv`: `Roles` says what a worker holds at each of its places, and `EventForEach` that the deque has as many tasks as there are events in the descriptor, in the hands of workers, and still to be written. That is what makes `popTask` after a read of the descriptor find a task |
| | `WokenCorrect` | `Alert`: an event has listed a worker that is awake or waits, or all that live, so the last to wait is in the list; under `~Interrupts`, since a worker that believes an old `EINTR` drops its event |
| | `IdleCorrect` | `Counted` (the counter is the deque, and what workers hold, less what is pushed and not yet counted) with `PlacesInv`: a task in the state s is at a place for s, and at one place only |
| | `WaitsCorrect` | `GroupsInv` on top of `PlacesInv`: `added` and `completed` are the cardinalities of the tasks of a group and of the finished ones, and a group with a task that is not done has an owner that still runs or waits (`GroupsLive`) |
| `MiniDbProofs` | `TypeCorrect` | by `Inv`: `TypeOK` alone is not inductive, because the number of the next commit stays in its range only while changes are bounded by the cached header (`CacheInv`) |
| | `WriterAloneCorrect` | `Inv` adds `LockedInside` (a lock is held exactly inside a transaction or a replay, shared exactly by readers) and `ExclusiveAlone`; one lemma per action |
| | `AtomicCorrect` | `RefInv`: while a log is valid every other transaction is closed (`LogAlone`), whoever replays has the log as it is, with what was copied in the file (`Replays`), a constructor with a log is alone (`BuiltAlone`), a commit has prepared at each step what the next one needs (`Prepares`), and what a transaction has cached is committed (`ViewsCurrent`). Then the activation of the log, or the last check before the direct writes, is the abstract commit, and every other step a begin, an end or a stutter |
| | `NeverGoesBackCorrect` | `NewestHeader` on top: the header has the newest commit, so the next one is newer than every page |
| `SubscriptionProofs` | `TypeCorrect` | types are inductive by themselves |
| | `AllRegistered` | `Inv` adds to `TypeOK` and `Registered` that a listener's id is in no map but those of its own subscription (`Mine`), and that flags have keys (`KeyedFlags`). Without `Mine` a forwarder that gets an asset could take the ids of somebody else's listeners out of the map below |
| | `LeftoversGoWithForwarder` | on top of `Inv`: what `Without` leaves behind is an id that the forwarder still has |
| | `SubscriptionImplementsUpdates` | one lemma per action (`DirtyPosts`, `UpdateHears`, `SetBinds`, `MoveTakes`, `AssetStands`) shows it to be the step of `Updates` under the mapping `Unheard`, the flags under a listener's id, and `Deaf`, the listeners whose id is in no map that is posted to (`DeafSame`) |
| `AssetProofs` | `TypesHold` | by `AssetInv`, like the next two; the stack of calls is typed together with its shape |
| | `WriterAlone` | `LockInv`: the requests in `lockers` correspond one to one to those that hold (`Lockers`), which granting and releasing keep (`GrantedHolders`, `ReleasedHolders`); and the shape of the stack of calls: what may stand at its top (`TopInv`), below it (`BelowInv`), which requests a loop over the waiting ones still has to visit (`LoopInv`, `FrontInv`). Without the shape, a grant nested in a release nested in a grant could give the lock to a request that has it |
| | `FileStable` | `SwapInv`: a swap that moves files holds the lock and is not on its way out; so no file is replaced while a reader holds (`WriterExcludes`), one lemma per step |
| | `NoneForgotten` | `QueuesInv`: a writer that waits is in its queue once, and so is a reader, but while the front writer is about to be removed (`WritersInv`) or the loop over the readers has served it (`Served`, `WaitingInv`); with an empty stack neither is the case. It needs `Polite`: with `clear()` among those that wait, a function that releases would be granted from inside the queue |
| | `FlagsCorrect` | `DataInv`: a download, its answer and its swap follow one another (`PhaseInv`), so there is one swap at most, which `waitFileSwap` is about from its request to its completion, and `fileUpdate` while it moves (`FlagsInv`) |
| | `ClaimsCorrect` | `TempInv` and `VersionInv`: from the answer until the move the temporary file is complete (the lemma `SwapFinds`), and the answer and the swap ahead of it are of the version that completed it; `ClaimsInv`: everything the asset will ever claim - `mtime`, the row, the rows not written yet, the versions of swaps that are back - is at most the version of the answer that completed the file, and that of the one that will replace it, so the order of the steps of a swap, what the server publishes meanwhile, and where the process dies, do not matter |
| `CommonSourceProofs` | `HoldersOnTheirWay` | `HolderInv`, with no assumption on users, documents or pages: who holds has a reason, or its release is on the stack, and who is to be called has its call there; each step of the lock, nested as it may be, carries that along (`Carries`) |
| | `SourceTypesHold` | `SourceInv`, which all but the first share, on top of the invariants of `AssetProofs`. To the asset a step of the source is one more step of a user (`UserStep`): it retains, releases or changes nothing, and what else stands on the stack (`shown`) is below every release; so the lemmas of `AssetProofs`, which are stated for any such frame (`Afterwards`), hold of the composition and are not proved again |
| | `LoadFindsFile` | `LoadInv`, of any number of loads at once: as long as one keeps its lock the file is there and has the version noted for it, and so has the document of every load that is past the texture thread. `PlacesInv`: a load is at one place at most; `CallInv`: nobody waits to read, which is where a grant could come at a bad time |
| | `ActualShown` | `ShowInv` relates three versions, of the file, of what was loaded, of the document: they agree when nothing is moving, loading or about to be shown. `OldInv`: a document older than its file belongs to an asset that does not call itself out of date |
| | `DocumentStable` | `DrawInv`: while a page is drawn the document has the version that any load would show, or the file is gone and none is about to show one; a swap could bring another, and is excluded by the lock of the page |
| `AssetLibraryProofs` | `OneLastingCorrect` | `LibraryInv`, which all three theorems share. `ObjectInv`: the reference an asset was made with is never given up, so the object in `_assets` stays, there is one at most, and its count is that one, the receivers and the download. `JobsInv` and `OnceInv`: whoever makes an asset for an id has put a callback under that id before, and the next asks find it, so an id without an object has one job at most |
| | `AnsweredOnceCorrect` | `VectorInv`: what has been put into the vector of a call and what it still waits for (`Missing`: waiting callbacks, rows being read, requests from before the load) split what it asked for, and the vector is handed over when nothing is missing. `CallInv`: at each stage a call waits at one place. `StartInv`: before the library has loaded nobody waits but in the lists of requests |
| | `InvCorrect` | the invariant itself, with `TypeOK` and no fault: no vector is used after it is deleted, by completions and callbacks nested in any order |

Assumptions: those of the modules on their constants (`Parameters`, `TaskQueueAssumption`,
`NullAssumption`, `SubscriptionParameters`, `LockParameters`, `AssetParameters`), which TLC
evaluates in the runs.  The theorems on `PriorityQueue` are under `OneBurst`: a queue that has
needed a block and been popped needs none again (`~Reuse`), it is cleared before it is
destroyed (`ClearFirst`), and not so many nodes are pending that only one node of the block
stays free.  Each of them excludes what the code does wrong, not what is hard to prove: with
reuse `_free.last` stays on a node in use (`PriorityQueue_overflow.cfg`), the destructor reads
a link it has just overwritten, and the end is lost one node early, which is where the bound
`PreallocatedNodes + StorageNodes - 2` comes from.  For the 32 and 256 nodes of the code that
is up to 286 pending nodes.

`HoldersOnTheirWay` has no hypothesis.  The other theorems on
`CommonSource` are under `Discipline`: `ClearOnly` and `Polite` of the asset, and `Patient`.
Loads may overlap, through refreshes and changes of `enabled`, and any version may be broken.
Without `Patient` a page releases inside its function, and the invariants of the asset's
queues, which those theorems rest on, are not those of `AssetProofs`; that the properties hold
then as well is what the run `source` shows, for its instance.

`TypeCorrect` and `WriterAloneCorrect` of `MiniDbProofs` do not use `Careful`, nor any of the
other restrictions: the locks hold whatever is left behind. `AtomicCorrect` and
`NeverGoesBackCorrect` are under `Recoverable`: `Careful`, `FreshTransaction`, and no kill
among direct writes; without each of the first two section 5 has a counterexample, and a direct
write that is cut short is half a commit that nothing completes.  Kills at every step of a
commit through the log, and failures of `makeWal`, are included.

Those on `Subscription` have no hypothesis, and
`WokenCorrect` is under `~Interrupts`, without which `ConnectionQueue_errno.cfg` violates it.
The theorems on `TaskQueue` have none either: a fault ends the behaviour, and up to there the
promises hold.  The number of workers of `ConnectionQueue` is finite (`QueueParameters`), and so
are the ids and the calls of `AssetLibrary` (`LibraryParameters`), of which there may be any
number.

`NoneForgotten`, `FlagsCorrect` and `ClaimsCorrect` are under `Polite`, which section 6
explains.  That a swap finds its file (`SwapHasFile`) is proved as well, but it is a lemma
(`SwapFinds`) and not a result of its own: what breaks it in the code, but for deaths of the
process, is what `Polite` leaves out.  All theorems on `Asset` are under `ClearOnly`: a request
that releases within its own function (`Brief`) is a writer and not a swap.  That is what
`Asset::clear`, `swapFiles` and the texture cache (`SPTextureCache.cc:325`) do.  It excludes
two callers that are readers and release inside the granted call when their source is not
actual, the rich text request (`RTDrawerRequest.cc`) and the gallery layout
(`RTGalleryLayout.cc:148`), through the lock of several assets; section 5 says what becomes of
those (`CommonSource_waits.cfg`).

Only model-checked: the liveness properties (`SwapFinishes`, `BatchEnds`,
`NewFileShown`, `EveryoneAnswered`, `CloseFinishes`, `EveryTaskDone`, `Settles` and
`PerformedIsExecuted`), because neither fairness nor ENABLED is in the prover's reach; and
`SlicesExact` and `Window` of `Scroll`.  Both are about what recursive functions over a tree of
categories compute (`OnSlice` against `Flat`), for which one needs induction over the tree,
and the theorems on induction take an operator that the provers do not instantiate.

## 9. What is not modelled

`PROJECT.json` names every component with its status.  Left out inside those modelled:

- `PriorityQueue`: the read-only `foreach`; the width of the priority (an `int32_t`
  that is only compared).
- `TaskQueue`: functions given to `onMainThread` (they go through the same output
  vector), `lock`/`unlock`, the value `execute` returns, thread ids.
- `MiniDb`: the first formatting of a file, storages in memory, `foreach`, threads that
  share a transaction, what is inside the pages.
- `SyncRWLock`: locks over a vector of objects, the reference counts that keep a
  lock alive in its queues.
- `Asset`: `AssetFile` copies, cache requests, progress, expiry by time-to-live.
- `CommonSource`: the locks and updates of external assets, a holder that retains more than
  once, sources from memory and files; layout, fonts and drawing.
- `AssetLibrary`: assets of a document's own files, the download queue's progress.
- `ConnectionQueue`: client connections and their buffers, a close by a signal,
  heartbeats of the servers; memory pools of tasks and groups.
- `Subscription`: the scheduler that calls a listener once a frame.
- `Source`: `getItemData`, `removeItem` (nothing sets the callback that would remove),
  `BatchRequest`.
- `Scroll`: positions on the screen and the nodes made for items, `setMaxSize` and
  `setCategoryBounds` after the first use, `RecyclerScroll`.

Not modelled because there is no state over time that a model checker could add to:
conversions, containers, layout, drawing.  Not modelled because it belongs to someone
else: cocos2d-x, third-party libraries, the SQL databases, curl.
