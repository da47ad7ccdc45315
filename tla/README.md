# A TLA+ model of coplus

coplus is a small C++ coroutine library: fibers scheduled on a pool of threads, wait-free
queues underneath, channels and a few helpers beside. This directory models the parts whose
correctness depends on the order of steps of several threads, checks them with TLC and proves
most of their safety properties with TLAPS. Paths below are relative to the repository
(`include/coplus/...`, `src/...`); `PROJECT.json` maps every definition to its lines.

## 1. Inventory

| Component | State | Operations | What makes it hard, what makes it correct |
|---|---|---|---|
| `FastLocalQueue` (`fast_queue.h`) | ring, two layers of counters (`enqueue/dequeue_count/revoke`; `head`, `tail`, `head_fast`, `tail_fast`) | `push`, `pop`, `size` | lock-free, several consumers, stale snapshots, wrap-around. A pop reads only finished slots, a push overwrites nothing unread, failed calls leave no trace |
| `SlowQueue` | ring with `head`, `tail`, a mutex | `push`, `pop`, `size` | `head = tail` means both empty and full. Elements come out once, none is invented |
| `PushOnlyFastStack` | table of lazily allocated blocks, `end` | `push`, `get`, `size` | racing allocations. A token retrieves its element for good |
| `FastQueue` | list of local queues, free list, producer handles | handle constructor and destructor, `push`, `push_hard`, `pop`, `pop_hard` | a queue has one producer at a time; a scan misses nothing; what is pushed is taken in the end |
| Coroutine: `go`, `yield`, `await`, `notify`, timer | task queue, wait queue, triggers, a fiber per task, `FiberData` per thread | the calls, the scheduler body of a machine, timer callbacks | suspension, registration and resubmission race with other machines. A fiber runs on one thread, `await` returns after its target, nothing sleeps for ever |
| `ThreadPool`, `Machine` | machines, `close` flags, threads | construct, `resize`, `as_machine`, `close`, `join`, `restart` | machines are stopped and destroyed while they run tasks. A thread never outlives its machine, no task is lost, every call returns |
| `Channel`, buffered | buffer, queues of alerts, `closed`, a scheduler thread | `<<`, `>>`, `close` | lost wake-ups, spurious wake-ups. Bounded, every call returns |
| `Channel`, capacity 0 | one cell, queues of alerts, `closed`, a scheduler thread with nested locks | the same | a send returns only once a receiver has come; an element is handed over once |
| `Arena`, `allocator` (`arena/`) | head bits, span lists, bins, headers in the pages, links in the free objects | `Malloc`, `Free` | three structures kept in step by hand, markers with two meanings. Chunks in use do not overlap, nothing is lost |
| Socket `Server` and `Client` | client table, list of listening sockets, `close_`, a thread for each connection | `Serve`, `Close`, `CloseClient`, `Send`; `Connect`, `Send`, `Receive`, `Close` | two calls of `Serve` share the table, the system uses handles again. A thread closes its own connection only, `Close` makes `Serve` return |
| Protocol | none | pickle, unpickle | strings only |
| `level_hash`, `colog`, `cotimer`, `corand`, util, port | | | declarations, logging, wrappers |

Interaction: `ThreadPool` keeps tasks in a `FastQueue` and waiting tasks in a
`PushOnlyFastStack`; `FastQueue` is a `PushOnlyFastStack` of `FastLocalQueue`s with a `SlowQueue`
as its free list; `await` and `notify` hand tasks to the pool through `FiberData`; channels
and sockets stand apart.

## 2. Modules

| Module | Models | Notes |
|---|---|---|
| `FastLocalQueue` | `push` and `pop`, one action per atomic access | a counter holds the number of increments, its residue modulo `Width` is taken where the code subtracts, compares or indexes |
| `BoundedQueue` | abstract: FIFO queue with elements in the hands of consumers | |
| `SlowQueue` | one action per call (a mutex is held throughout) | |
| `BoundedBag` | abstract: bounded bag. Not a FIFO queue: filling the ring at slot 0 moves `head` to 1 and rotates the order, which its one user, the free list, does not mind | |
| `FastStack` | `push` (reserve, load, compare-exchange, write) and `get` | a block is named by the push that allocates it; beyond the table `get` finds anything |
| `AppendOnlyArray` | abstract: cells that are written once | |
| `FastQueue` | handles and consumers over the promises of the four parts; where these end (a queue with two producers, a token beyond the table), over what their code may do | which queue a scan starts at (`corand`) is a free choice |
| `Coroutine` | task bodies as any sequence of library calls, scheduler body step by step, timers | the task queue is a bag whose push may be refused; that holds of `FastQueue` as long as no local queue is full with several consumers at it (section 5, `PushTest`) or shared after a refused creation |
| `Channel` | callers, scheduler thread, `close`, spurious wake-ups | elements are counted; their order is `std::queue`'s |
| `SyncChannel` | the same for capacity 0: nested locks, the `wakeonly` predicate, `close` | counters of calls begun and returned stand for the elements |
| `ThreadPool` | the life of machines: `submit`, `as_machine`, `resize`, `close`, `join`, destructor | a machine is its place in the vector; a task's call ends with `kFinished`, `kReady` or `kWaiting` |
| `Arena` | `Malloc` and `Free`, one action per way through them | sizes in bytes are the code's, numbers of pages are parameters |
| `Server` | `Serve`, the thread of a connection, `Close`, `Client` | sockets are handles that are given out again after `closesocket` |
| `MC*` | symmetry sets for TLC, the page counts of `Arena` | |
| `FastLocalQueueProofs`, `StoreProofs`, `FastQueueProofs`, `CoroutineProofs`, `ThreadPoolProofs`, `ChannelProofs`, `SyncChannelProofs`, `ServerProofs` | theorems | `StoreProofs` is about `FastStack` and `SlowQueue`, the two stores of `FastQueue`, and about `Arena` |

Definitions whose comment says *Mutant* are deliberately wrong variants; `PROJECT.json`
says which property each of them breaks, and no specification uses them.

Modelling decisions:

- *Memory order.* The queues use the default, sequentially consistent operations on their counters,
  so an interleaving of atomic accesses is taken as the memory model. The ring data
  of `FastLocalQueue` is read and written in steps of its own.
- *`HazardLimited`.* `pop` decides emptiness by "difference > half the range" and its
  comment assumes that the hazard stays below half of the range. The guard of `PopCount` is
  this assumption: no more than half of the range of calls between a pop's two loads.
- *`ScheduleUndefined`.* Switching to a fiber that runs elsewhere or has returned is undefined
  on the platform; the model takes that thread to be lost (`mpc = "lost"`), and the properties say
  whether that can happen.
- *Locks* held for one queue operation are one step. The channel's scheduler holds
  `buffer_lock` over two and may be interleaved with callers that do not need it.
- *`notify`* pushes all waiters under the trigger's lock into an unordered bag, so it is one
  step.
- *Synchronous channel.* `notify_one` is called without `buffer_lock`. A notification between a
  caller's test and its wait finds nobody waiting, as one before the test does, so test and
  wait are one step.
- *`ThreadPool`.* `resize` holds `mutating` throughout, `close` and the destructor do not take it.
  The model assumes that their caller keeps them apart from `resize`; between an explicit
  `close()` and the destructor `resize` may be called. `pop_hard` may come back empty-handed
  although there is a task, as `FastQueue` shows.
- *Lost tasks.* `push_hard` may be refused, which the code logs before it drops the task (`refused`), and
  a full `wait_queue` answers -1 and stores the task nowhere (`unstored` in `ThreadPool`, the -1 in
  `Coroutine`). When a push is refused is `FastQueue`'s matter; here it is a free choice, bounded by
  `MaxRefuse`. The destructor of a lost `coplus::main` may break its promise, which makes the future
  ready: `FutureReady` allows both. `retry_count` is a signed `int`; past its range any value
  may follow.
- *`FastQueue` after a refused creation.* A queue that `push_hard` went on with after giving it back
  (`kept`) may have two producers. For two, `FastLocalQueue::push` is no FIFO queue: `tail_` may count
  a slot that is not yet written, so that a pop takes what was in it (`Hole`) and the element is lost,
  and either side may fail although there is room or an element. `size()` counts refused
  creations; if the blocks of the list divide its capacity, as 10 divides 100, the token `max_size` lies
  behind the table (`BeyondTable`), and a consumer that reads it goes on or crashes (`ReadBeyond`).
- *`Arena`.* There is one arena and no lock, so a call is one step. Memory is what the code reads
  again: the headers of spans (the head bits are their domain) and the link stored in a free object.
  At some points the code leaves its own structure, and the step that does so records it in `upset`.
  The object behind a freed one is taken for unused though it is in use ("used behind"): the model goes
  on, since nothing is wrong but one free list, until a `Malloc` returns that object ("handed out
  twice"). A client has written into it meanwhile, so what `Malloc` finds there is 0 or anything that
  passes for an object (`StoredAt`). A page is moved in its bin with wrong links ("misplaced"); the
  same move, without a page behind, writes `hPri` of page 0, where the head bits of the pages
  160640 to 160671 lie (`Page0Heads`, "bits cleared"); a span without pages is made ("nothing left"). After
  each of these and after "handed out twice" the model ends. `SpansAccounted` is claimed up to them,
  `ObjectsAccounted` up to "used behind", and `NoOverlap` up to "handed out twice" and "bits cleared"; it
  includes the other steps themselves. The two loops of
  `Init` are steps (`Construct`), one for each span, in front of which no call is possible: so the
  number of spans may be a parameter of the proofs.
- *Size classes.* `ClassAssumption` compares `BinSlot` with its reference definition, the smallest
  class the size fits in, for every size there is; TLC evaluates it. Sizes from 289 to 320 go
  one class higher than they need.
- *`Server`.* `IndexRead`: the size of the table is read without its lock; while another call
  appends, what is read is any number. `crossed` records the connections whose thread got an index
  that is not theirs. A connection is known by its number, a handle by what it stands for now.
- `close` of a channel races with the scheduler's own initialisation of `closed`: `Init`
  leaves the flag arbitrary, as the constructor does.

## 3. Runs

| Run | Instance | Shows |
|---|---|---|
| `local_queue_spmc` | 1 producer, 3 consumers, ring of 2, 3 pushes, 4 pops | `ReadsCommitted`, `OccupancyBound`, `BalancedAtRest` |
| `local_queue_spsc` | 1 + 1, ring of 2, `Width` 8, 11 pushes, 12 pops, two items | counters wrap; `WriteHitsFreeSlot`; it implements `BoundedQueue` |
| `slow_queue` | ring of 5, two items, any calls | it implements `BoundedBag` |
| `fast_stack` | 3 pushers, 1 reader, blocks of 2, capacity 3, 4 pushes | `NoDanglingBlock`, it implements `AppendOnlyArray`; one push is refused |
| `fast_queue` | 2 producers with at most 3 pushes and 3 handles, 1 consumer with `pop` and `pop_hard`, local queues of 1, at most 2 queues in blocks of 2, free list of 1 | `SingleProducer`, `ScanMissesNothing`, `Drained`; no queue can be created, two handles share one, a read lies beyond the table |
| `coroutine_live` | 2 machines, 3 tasks, 2 calls each of `yield`, `go`, `await(func)`, one refused push | `SingleEntry`, `RunsAfterTarget`, `EveryTaskFinishes` |
| `coroutine_all` | all calls, wait queue of 3, one shared trigger, one refused push | `TypeOK` (indices stay inside), `OnlySharedReentered` |
| `channel_pair` | 2 senders, 1 receiver, capacity 2, 3 calls each, `close` | `CapacityLimited` and `CloseEndsScheduler` for all; `WaiterIsQueued` and `EveryCallReturns` as long as only one of the senders calls |
| `sync_channel` | 2 senders, 2 receivers, 3 calls of each kind, one spurious wake-up of a sender, any of receivers | `Rendezvous`, `HandedOnce`, `CloseEndsScheduler` |
| `thread_pool` | 3 hardware threads, sizes 0 to 3, 1 client, 2 resizes, one explicit `close()`, 2 tasks, 2 suspensions, a wait queue of 1, one refused push, an `int` of -2 to 1 | `VectorInStep`, `TaskInOnePlace`, `JoinedBeforeDestroyed`, `ResizeReturns`, `PoolEnds` |
| `arena` | spans of up to 4 pages, heap of 6 pages, 7 chunks, a small size and two big ones, page 6 in the place of the pages 160640 to 160671 | `SpansAccounted`, `ObjectsAccounted`, `NoOverlap`; every value of `upset` is reached, and out of memory |
| `server` | 2 calls of `Serve`, 4 handles, 1 client, 2 connections, 1 message on its way | `OwnConnection`, `ServeReturns`; handles used again, indices crossed, no handle left |

Why the bounds suffice to be interesting. Three consumers are what it takes for one to fail, one
to be in front of the test with an old snapshot and one to get in. A ring of two is full, empty
and half full within three pushes; with `Width` 8 eleven pushes wrap every counter, and 2 divides
8 as the queue sizes in use (powers of two) divide 2^32. A stack of three cells in blocks of two
has a shared block and a partly used last one. Local queues of one element make every second
`push_hard` change queues, and with two of them in one block the third creation is refused and the
next token lies beyond the table. Two machines suffice for a task to be resubmitted and run
elsewhere while the first machine is still in its scheduler body; three tasks nest an await. Two
callers on each side of the synchronous channel are needed for one to overtake the other. Two
resizes can shrink and grow, grow and shrink, or shrink twice, and the pool of three has machines
on both sides of the new size; one client makes them, since `mutating` puts the calls of several
in a row. A wait queue of one cell turns the second wait away. `MaxPush`, `MaxPushes`, `MaxPop`,
`MaxCalls`, `MaxHandles`, `MaxSend`, `MaxRecv`, `MaxSpurious`, `MaxSize`, `MaxResize`, `MaxClose`,
`MaxSuspend`, `MaxConn`, `MaxData`, `MaxLive` only stop the environment from calling more often,
`MaxRefuse` the task queue from refusing more often. Two senders suffice for one to take the place
the other was woken for. In the arena a page span of two pages holds three objects of the class of
2720 bytes, enough for a free list of every order and for one of them to be handed out twice; six
pages make it split, merge on both sides and grow. In the server one client suffices for two
connections at once, since the thread of the first may lag behind its end as long as it likes.

Fairness:

- `FastQueue`: weak fairness of each thread. Nothing is assumed of the random start: `Drained`
  holds for every choice.
- `Coroutine`: weak fairness of bodies (they end, `fuel`) and of the scheduler body; strong
  fairness of picking a given task, since the random start of `pop_hard` passes over no queue
  for ever; timers fire.
- `Channel`: weak fairness of the scheduler and of callers; strong fairness of the mutex, which
  the scheduler takes over and over; none for spurious wake-ups, so no property relies on them.
- `SyncChannel`: weak fairness of the scheduler only.
- `Server`: threads are scheduled, a `Close` that has begun goes on, and every client hangs up in the
  end: without that a thread sits in `recv` and `Serve` in `join` for ever, as the code has it.
- `ThreadPool`: threads are scheduled, the call of a task returns, a waiting task is notified, the
  owner ends the pool after `as_machine`; strong fairness of taking a given task, as in
  `Coroutine`. Nobody has to submit or resize.

## 4. Theorems

TLC checks instances; these hold for all values of the constants that satisfy the
assumptions in the modules.

`FastLocalQueueProofs`
- `TypeCorrect`: `Spec => []TypeOK`.
- `GateSafe`: `Spec => []ReadsCommitted`, for any producers, any finite set of consumers, any ring
  and any even width more than twice the ring. `ReadsCommitted` is not inductive: why a
  pop is let in depends on a snapshot that may be long out of date. The invariant `GateInv` adds
  `Accounts` (each counted pop is in front of the test, behind it, about to be taken back, or
  done), `Snapshots` (what a pop in front of the test knows) and `Gate`: there is a number m such
  that slots for all who passed and all who counted themselves up to m are published, and everyone
  who counted itself later demands at least a slot for each pop before it. A pop that counts
  itself joins the end of that order (`PopCountKeeps`); one that passes certifies itself and
  all before it (`PopTestKeeps`); one that fails only shrinks the sums. `NotEmpty` does the
  arithmetic of the wrapped comparison and is the only place that needs `HazardLimited`.
- `RingNeverOverrun`: `Spec => []OccupancyBound`, and `LayersAgree`: `Spec => []BalancedAtRest`, for one
  producer, as the queue is documented, and any finite set of consumers. `PushInv` adds to the gate of
  `pop` the accounts of `push` (`PushAccounts`), that a producer alone knows its own counters as they
  are (`PushSnapshots`), that one which passed its gate finds room whatever the consumers do until
  it claims its slot (`RoomAhead`), and that each slot a pop took is being read or given back
  (`PopAccounts`). `RoomHolds` shows that it is inductive together with `GateInv`.
- `NoElementOverwritten`: `Spec => []WriteHitsFreeSlot`, and `RingIsQueue`: `Spec => ImplementsQueue`, the
  refinement of `BoundedQueue`, for one producer and one consumer and a ring that divides `Width`. The
  sizes in use divide 2^32, the 50 of a unit test does not; with two consumers the first is false
  (section 5). The invariant `PairInv` adds which slot each side works on (`LastTaken`) and that the
  published slots hold elements (`Elements`). That the index is injective on a window of the size
  of the ring is a lemma and the one place that needs divisibility.

`FastQueueProofs`, for any numbers of threads, handles and queues
- `TypeCorrect`: `Spec => []TypeOK`.
- `OneProducer`: `Spec => []SingleProducer`, the premise under which `FastLocalQueue` is right. It needs that
  tokens are handed out in order and only stored queues are offered (`Listed`), that a handle has
  the queue its place in the code needs (`Handle`), and that a queue is offered once (`FreeOnce`).
- `ScanIsComplete`: `Spec => []ScanMissesNothing` for one consumer. It speaks of the elements in queues
  that are not `kept`; of the others it says nothing, for a second producer can lose them. `Scans` says where the scan has still
  to come by: downwards from its start, then upwards from behind it; an element seen at
  the start and still queued lies there, and a producer cannot put one of those behind the scan
  because it never pushes an element again (`Numbered`). With several consumers it is false: the pop
  of a local queue may fail on a stale count although the queue is not empty (`MayFail`).

`CoroutineProofs`, for any tasks, machines, triggers and size of the wait queue
- `TypeCorrect`: `Spec => []TypeOK`; in particular the indices a trigger keeps are entries of `wait_queue`.
- `ReentryIsShared`: `Spec => []OnlySharedReentered`. `FibersEnteredOnce`: `Spec => []SingleEntry` if the
  program has no triggers of its own (`Users = {}`); with them it is false, see `notify` in section 5.
- `AwaitIsOrdered`: every task that no user's trigger lists continues after `await(func)` only when
  `func` has returned, also beside tasks that use triggers. `AwaitRunsAfter` is the case
  `Users = {}`: `Spec => []RunsAfterTarget`.
- The invariant behind them is that such a task is in one place (`OnePlace`): once in the task queue,
  in the hands of one machine, or in one list that will be notified. It depends on the order in
  which `await` proceeds, since a machine hands on its task step by step: the awaited task is
  submitted once and after its waiter is listed (`OneSpawn`), has at most one waiter (`OneWaiter`), a
  task that never ran is stored nowhere (`Fresh`), a timer's list names the one that armed it
  (`TimerLists`), and whoever awaits a task that has not returned is on its way into that
  task's list, or in it (`BehindTarget`).

`ThreadPoolProofs`, for any clients, machines, tasks and numbers of calls
- `TypeCorrect`: `Spec => []TypeOK`.
- `VectorAgrees`: `Spec => []VectorInStep`. `SizeInStep` says how long the vector is at each step inside
  `resize`, where `threadSize` runs ahead of it or behind it.
- `TaskNeverLost`: `Spec => []TaskInOnePlace`, with `HandsInStep`: whoever runs a task holds it. The losses
  are part of the statement: a task that is nowhere is one for which `push_hard` returned false or
  `wait_queue` had no cell, and the latter only after more than `WaitSize` waits.
- `JoinedFirst`: `Spec => JoinedBeforeDestroyed`, an action property. `FlagsInStep` says that what a walk
  over the vector has behind it is joined, and that no flag is set but by the call that joins;
  `OneInside`, the effect of `mutating`, keeps a second walk away.

`ChannelProofs`
- `TypeCorrect`, `CapacityHolds`: types and the capacity for any callers.
- `PairNeverForgotten`: `Spec => []WaiterIsQueued`, for any sets of threads; the property itself speaks of
  the time in which one sender and one receiver have called. The invariant
  `PairInv` adds that an alert used up before its owner's test is harmless, for the buffer can
  then serve the owner and nobody else takes that away. With two receivers exactly this part
  fails.

`SyncChannelProofs`, for any finite sets of senders and receivers
- `TypeCorrect`: with `LockedQueues` (the scheduler holds a lock only over a queue that has an
  alert) as the inductive part.
- `HandedOnceHolds`: `Spec => []HandedOnce`.
- `RendezvousHolds`: `Spec => []Rendezvous`. That no more sends have returned than receives have
  begun says nothing of senders that are woken and about to return. The invariant `WakesPaid`
  counts them in: returns, pending wake-ups and the alerts left in `recvq` together are at most
  the receives begun and the wake-ups without cause, plus the one receiver whose alert the
  scheduler has still to take off.

`StoreProofs`, for any number of threads, any capacity and any size of the blocks of `FastStack`; for
any elements and any size of `SlowQueue`'s ring from two on; for any number of pages, of spans built by
`Init` and of pages in the longest span of `Arena` (the definitions of `SlowQueue` are named `Ring`...,
those of `Arena` `Arena`..., so that one module can extend all three)
- `TypeCorrect`: `Spec => []TypeOK`.
- `StoreIsArray`: `Spec => ImplementsCells`, the refinement of `AppendOnlyArray`. That a push
  writes an empty cell depends on all the others, which `Inductive` states: pushes under way have
  distinct slots (`CellsReserved`), an installed block lies where its slot says and whoever is about
  to write holds the installed one (`BlocksPlaced`), and a block that is not installed, a slot not
  handed out or not yet written is empty (`CellsFresh`).
- `NoBlockDangles`: `Spec => []NoDanglingBlock`, if the token `max_size`, which `get` accepts, lies in the
  table, or no more than `max_size` pushes are tried. Neither holds where the blocks divide the
  capacity and a push is refused. `BlocksLive` adds to the above that the blocks alive are those of the
  table and those of pushes in front of their compare-exchange.
- `RingTypeCorrect`: `RingSpec => []RingTypeOK`.
- `RingIsBag`: `RingSpec => ImplementsBag`, the refinement of `BoundedBag`. `PushOccupies` and
  `PopFrees` are its core: through every branch of `push` and `pop` (the ring empty, wrapped around,
  filled at slot 0, emptied) exactly one slot joins or leaves the occupied ones and the others keep
  their elements. Cardinalities of the copies of each element give the steps of the bag.

- `ArenaInductive`: `ArenaSpec => []ArenaInv`. `ArenaInv` has layers. `Typed` holds always. `Sound` holds but
  for "handed out twice" and "bits cleared": the spans that begin inside the heap tile its pages
  (`Tiled`), and every chunk in use fills a span marked as in use or is an object of a page span of a
  class that it fits in, at an address of its own (`Placed`). `InOrder` and `Filled` hold as long as the
  model goes on: every list, of spans by size and of pages by class, has exactly the spans it should
  (`Lists`), and each page is `Whole`. That means two things. While `upset` is "no" the page is `Cut`:
  the chain through its free objects has those that store a link (`Chain`), and what is neither in use
  nor in the chain lies behind its end (`Fresh`). With an object in use in the free list this is gone,
  and what is left is `Strung`: the count of objects in use is right, and the list leads only to
  objects that are in use or free. It suffices for a `Malloc` that finds a free one to keep all of
  the above, and makes every other `Malloc` of that page one that hands out an object in use. `Progress` says how far `Init` has come. In the middle of a call one span is in none of the
  lists: `InHand` is `InOrder` but for it, and the lemmas lead from `InOrder` to `InHand` (`Popped`,
  `SplitIs`, `PageUnhooked`), over the merges (`MergeBehind`, `MergeFront`) and back. Each of `Construct`,
  `MallocBig`, `MallocPage`, `MallocObject`, `FreeBig`, `FreePage`, `FreeObject` has its lemma (`...Keeps`).
- A list is described without induction over its length: links lead forwards and backwards inside of
  it, and every set of its members that is not empty has one that no other of them leads to (`List`).
  For such a set the statement of the runs, that no smaller set holds the first member and is closed
  under the links (`Reaches`), follows. The one induction, that a set of numbers has a least element,
  is the library's.
- `ArenaTypes`, `SpansStayAccounted`, `ObjectsStayAccounted`, `ChunksApart`: the four invariants of the
  run. They rest on `PagesAssumption` (a page span is shorter than the longest span; the heap has room
  for what `Init` builds), `RoomAssumption` (a page span has room for two objects: the code's table
  has that for every class), `SizesAssumption` (a request fits into a span, which `Malloc` does not test:
  section 5) and `ClassAssumption` (the class `BinSlot` finds is large enough).

`ServerProofs`, for any numbers of calls of `Serve`, handles, clients and connections
- `TypeCorrect`: `Spec => []TypeOK`. That the size of the table is an index a thread may have needs that no
  connection is entered twice (`TableBounded`).
- `OwnConnectionHolds`: `Spec => []OwnConnection`. What has to be followed is a handle, through `closesocket`
  and its next use. The invariant says that a handle stands for the connection it was given to last
  (`HandleOf`), that a connection is entered once, with its handle (`Entered`), before its thread starts
  (`Accepting`), and that it keeps its handle from `accept` to the end of its thread (`OwnHandle`). Most
  steps touch none of this (`Quiet`); the others have a lemma each.
- `SingleServe`: with one call of `Serve`, `Spec => [](crossed = {})`: the hypothesis of `OwnConnection` is
  met, since the connection just entered is the last of the table until its thread has its index
  (`LastEntered`). With two it is false (section 5, `Spawn`).

The inductive invariants were checked with TLC on the instances of the runs before they were
proved.

Only model-checked: what must happen (`EveryTaskFinishes`, `Drained`, `ResizeReturns`, `PoolEnds`,
`EveryCallReturns`, `CloseEndsScheduler`, `ServeReturns`), since liveness under fairness is outside of
what TLAPS proves. `ClassAssumption`, that `BinSlot` finds the smallest class but for the sizes named
above, is evaluated by TLC for every size.

## 5. Where the code and its documentation disagree

Met while modelling, visible in the actions named, and excluded from the properties by the
instance or by their statement:
- `PushTest`: `FastLocalQueue` is documented as "multi-consumer single-producer" (`README.md:152`);
  `push` judges room by the *number* of finished pops (`fast_queue.h:253`), so a pop that overtakes
  a slower one frees the slot the slower one has still to read. `WriteHitsFreeSlot` fails as soon
  as there are two consumers and is checked for one; `OccupancyBound` is what holds for
  several.
- `notify`: it never clears a trigger's list, so a second `notify` resubmits tasks that no longer
  wait, and a fiber can be entered twice (`coroutine.cc:36`). `OnlySharedReentered` shows that this
  is the only way; `SingleEntry` is checked without shared triggers.
- `SchedRecv`: the channel's scheduler takes an alert from the queue in each round in which the
  buffer is not empty, whether its owner waits or not; with two receivers one may wait for ever
  (`channel.h:54`), and with two senders the same. `EveryCallReturns` and `WaiterIsQueued` are claimed
  while one of each has called.
- `FirstWait`: a synchronous call whose notification comes before its wait, or a receiver that is
  woken before the sender has stored, sleeps for ever (`channel.h:146`).
- `VectorInStep`: "one for main thread" (`thread_pool.h:32`) holds until the first time the pool
  shrinks; after that `threadSize` counts machines only.
- `close` of `ThreadPool` walks over the vector without the lock that `resize` holds
  (`thread_pool.h:182`).
- `Machine::restart` starts a thread that ends at once, since nobody clears the flag, and is
  never joined (`machine.h:38`); nothing calls it.
- `Slot`: unless `QueueSize` divides 2^32 the slot jumps at wrap-around (`fast_queue.h:257`; a test
  uses 50).
- `PushReserve`, `GetStart`: `end` counts refused pushes, and `get` accepts the token
  `max_size` (`fast_queue.h:50`).
- `ReleaseFull`, `PreemptFails`: when no queue can be created, `push_hard` goes on with the
  one it has just given back (`fast_queue.h:370`). The variable `kept` has these queues; they
  are the exception in `SingleProducer`.
- `Probe`: with one empty queue `pop` never returns (`fast_queue.h:413`).
- `ScanStart`: the comment "maintain thread local order" (`fast_queue.h:300`) holds per local
  queue only.
- `FuncReturns`: the awaiting task may run before the future is ready (`coroutine.h:45`).
- `AwaitTimer`, `TimerFires`: a timer that fires before the task is registered wakes nobody
  (`coroutine.cc:22`).
- `StoreWaiter`: after 1000 waits the wait queue returns -1 for ever, and `notify` stops there
  (`thread_pool.h:53`).
- `MallocObject`: an object freed while no other was free stores 0, which the next `Malloc` takes for
  memory never used; it then offers the object behind, which may be in use, and the `Malloc` after that
  hands it out a second time (`arena.h:237`). Fill a page of three objects, free the first or the second
  and call `Malloc` twice.
- `NothingLeft`: a request for the largest span that takes fresh memory leaves a rest of no pages,
  whose header lies behind the committed memory (`arena.h:199`).
- `Reorder`: with three pages in a bin the links are wrong (`arena.h:353`); without a page behind,
  the write falls on head bits of the pages 160640 to 160671 (`ClearHeads`), which the heap of the code can have.
- `Malloc` does not refuse a request of more than `kSpanSlotSize` pages and indexes behind the list
  (`arena.h:158`).
- `Spawn`: the index of a client is read outside of the lock (`socket.h:263`), for which the
  right line stands above it as a comment; a crossed thread closes somebody else's connection and
  leaves its own open.
- `Register`, `CloseListed`: a `Serve` that comes after `Close` waits for one more client (`socket.h:235`).
- `Join`: the listening socket is closed a second time (`socket.h:296`), whoever has its handle by
  then.
- `Shutdown`: `Client::Close` never closes its socket (`socket.h:118`).
- `SchedStart`: a `close()` before the scheduler's first step is overwritten (`channel.h:36`).

## 6. Not modelled

- Protocol: pure conversion of strings, without state.
- Of the arena: the destructor, the calls that reserve and commit memory, debug counters. Of the
  sockets: names and addresses, `NewSocket`, the getters, `CloseClient` and `GetClient` called from
  outside, and `Serve` with an end condition of its own, which `Close` does not know of.
- `Machine::restart`, which nothing calls, and `report`.
- `level_hash.h`: declarations without an implementation. `colog`, `cotimer`, `corand`, util: no
  state of their own that others depend on (random numbers appear as free choices).
- Fiber switching and the platform port: external. In particular a compiler that keeps the
  address of a `thread_local` across a switch would break the code in a way no model of the source
  shows.
- Destructors of the containers and `element_count`, a statistic.

## 7. Plan

Every part of the repository that keeps state over several steps or threads now has a module: the
queues, the scheduler, the channels, the pool, the arena and the server. Their safety properties are
proved; what must happen stays with TLC.
