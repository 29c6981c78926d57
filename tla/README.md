# A verification project for BufferCacheProject

BufferCacheProject is a block buffer cache in C: an application reads and writes
blocks, the cache keeps some of them in memory, and a pool of threads writes the
dirty ones to a disk file later. This directory holds TLA+ models of it, the TLC
runs that check them, and proofs that hold for every size of the system.

## 1. Inventory

| Component | Source | State | Operations | Modelled in |
|---|---|---|---|---|
| Application thread | `src/buffer.c` | the call under way | `os_read`, `os_write`, `init`, closing in `main` | `BufferCache` |
| Memory buffers | `src/shared/memory_buffer_structures.h`, `memory_buffer.c` | header bits `isValid`, `isDirty`, `isBufferBeingWrittenNow`, `request_write_count`, `write_lock`, the bytes | create, put, look up, find a victim, delete | `MemoryBuffer`, `BufferCache` |
| Thread pool | `src/delayed_write/thread_pool.c` | unit queue, permits, gathered batch, `running_queue`, terminate flag | add a unit, the pooling loop, join, close | `ThreadPool` |
| Flush threads | `src/delayed_write/disk_write.c`, `flush_thread.c` | the batch and how far it got | `write2Disk(2)`, `write2DiskMultiple(2)` | `FlushThread` |
| Replacement policy | `src/shared/replacement_policy.c` | a list of buffers, one node per buffer | update access info (in a thread of its own), get the evictable one, delete | `ReplacementPolicy`, `PolicyCache` |
| Deque | `src/shared/doubly_linked_deque.c` | doubly linked nodes | push at either end, pop at a node, switch two nodes | `Deque` |
| Unit queue | `src/shared/linked_heap.c`, `linked_heap_queue.c` | a heap of linked nodes | push, front, pop, clear | `LinkedHeap`, `UnitQueue`; set and root, in `ThreadPool` |
| Linked queue | `src/shared/linked_queue.c` | a list | push, front, pop | a sequence, in `FlushThread` |
| Hash map | `src/shared/hashmap.c` (third party) | block to buffer | get, set, delete, count | a function, in `BufferCache` |
| Checksums, random numbers, time, array queues, stacks, tools | `src/shared/*` | none that the program relies on | | not modelled |
| Generated documentation | `src/docs/` | none: the pages Doxygen made, with Doxygen's own scripts | | not modelled |

The program is C, and so is every line the models stand for. The only JavaScript of the
repository is that of the generated pages in `src/docs/html`, which is not part of the
program and has nothing of it in it.

The application thread calls the buffer map, the policy and `addQueue`; the
pooling thread takes units from the queue and starts flush threads; flush threads
write buffers to the disk. They share the buffers' headers, the unit queue, the
permits (a counting semaphore) and `running_queue` (used by the pooling thread,
and by the application once that thread has ended). There are no messages or
callbacks: everything is shared memory and semaphores.

What is hard in this code, each at its line, is the `hazards` list of
`PROJECT.json`. In short: header bits are read without the lock and trusted
later; the unit queue's `front` and `pop` are two critical sections; eviction
waits on two fields read one after the other; a permit must be posted on eight
paths; a batch of buffers is locked one by one while the next buffer's lock may be
held by the pool; closing races with all of it; and in the `pwrite` build a write
may fail at any time.

What makes each component correct:

* application and map: a read returns what was last written, through any mix of
  hits, misses, evictions and flushes (`ImplementsDevice`), because there is one
  copy of each block that counts and everybody knows which (`CopiesAgree`);
* memory buffers: what is not on the disk is marked dirty (`UnsyncedIsDirty`), the
  write lock excludes (`WriteLockExcludes`), the bytes hold still while they are
  copied (`NoOverwriteWhileFlushing`), a victim is synced before it goes
  (`VictimIsSynced`);
* unit queue: the tree is complete, so that its last place can be found
  (`TreeComplete`), leads only to nodes that exist, each once (`TreeAllocated`), is
  in order (`KeepsHeapOrder`), and loses nothing as long as a push and a pop do not
  race (`ImplementsQueue`);
* thread pool: no permit is lost (`PermitsAccounted`), batches are consecutive
  blocks (`BatchesConsecutive`), no dirty buffer is forgotten
  (`DirtyIsCoveredOrLost`), closing ends (`CloseCompletes`);
* replacement policy and deque: the list is sound and holds the cached buffers
  (`DequeSound`, `ListMatchesCache`), in the order the policy promises
  (`KeepsOrder`), a miss gets a victim (`MissMakesRoom`), no freed node is used but by
  the one read after an unlock (`OnlyReadFaults`), and a victim is a cached buffer
  (`VictimIsCached`, which fails);
* flush threads: the count of requested writes is exact (`RequestsBalanced`), a
  written block reaches the disk (`EventuallySynced`), an evicting call gets its
  buffer (`EvictionCompletes`), and while it waits somebody has that buffer in hand
  (`EvictorIsServed`).

## 2. The modules

`MemoryBuffer` <- `FlushThread` <- `ThreadPool` <- `BufferCache` <-
`CacheProperties` <- `MCBufferCache` (each extends the one before it).
`BlockDevice` is the abstract specification, instantiated by `CacheProperties`.
`Deque` <- `ReplacementPolicy` <- `PolicyCache`, with `VictimOrder` as its abstract specification.
`LinkedHeap` has `UnitQueue` as its abstract specification, and `ThreadPool` uses that one.

* **MemoryBuffer** -- the `MemoryBuffer` structures (`buf`), how many have been
  allocated, the disk, and `fault`, set when a thread touches freed bytes.
  Structures are never freed by the code, only their bytes, so a pointer is a
  number that never changes its meaning.
* **FlushThread** -- a flush thread is a record: its batch, its place, how many
  locks it has taken or given back, and whether the write went through. `MmapRW`
  chooses the build: with `USE_MMAP_RW` a write is a `memcpy` and cannot fail,
  without it `pwrite` can. Steps: `SingleCheck` (the unlocked look at `isValid`),
  `SingleSync` (lock to unlock, in which nobody can see a difference),
  `MultiLock` (one lock of the batch), `MultiWrite`, `MultiRelease`.
* **ThreadPool** -- `ThreadPoolMainPooling1`, one action per stretch between two
  places where another thread can interfere: `PoolFront` and `PoolPop` (two calls
  of the queue), `PoolCheck` (the unlocked look at the header), then after
  `sem_wait` one of `PoolSingle`, `PoolExtend`, `PoolDrop`, `PoolSwitch` (which
  keeps the lock until `PoolBegin`), and `PoolIdle`, `PoolWait`, `PoolJoin`,
  `PoolFinish`. `running` is `running_queue` and the flush threads in it. The unit
  queue is `queue`, the units in it, `root`, the one `front` returns, and `tree`: it
  is `"whole"` until a pop comes while the application is between a push's numbering
  and its lock (`"stale"`), and `"broken"` from that push on, when pushes and pops
  may lose units (`lost`).
* **BufferCache** -- the application's thread: `OsRead`, `OsWrite` up to the first
  interference, the hit paths (`ReadHit`, `WriteLock`, `WriteUnlock`), `Put`,
  `Push`, and `deleteMemoryBuffer` step by step (`FindVictim`, `WaitNotBusy`,
  `WaitNoRequests`, `Inspect`, `Join`, or `Requeue` and `WaitClean`, `Free`,
  `Destroy`), and `Close`, `JoinPool`, `JoinAll`. `Next` interleaves it with the pool and the
  flush threads.
* **BlockDevice** -- one outstanding request; a write takes effect at once, a
  read answers with what the block holds.
* **CacheProperties** -- the properties, the refinement mapping and the fairness.
  `Content(b)` is the bytes of the cached buffer or else those on the disk, and a
  call counts as taking effect when it touches the buffer or enters it in the map.
* **MCBufferCache** -- the symmetry set for TLC.
* **BufferCacheProofs** <- **LockProofs** <- **DeviceProofs** <- **WorkProofs** -- the
  proofs, each extending the one before it: types, references, permits and batches;
  the write locks; the copies and the refinement; and what work is still to be done.

Beside them, the choice of the victim:

* **Deque** -- the operations of the deque the policies use, pointer by pointer, on
  a record `[first, last, count, next, previous, value]` whose links are functions
  from nodes to nodes. `SwitchNode` makes the eight assignments in the code's order.
  `Chain`, `Contents` and `Sound` read the list off the pointers.
* **ReplacementPolicy** -- `updateAccessInfo` and `deleteAt` of FIFO, LFU and LRU, one
  action each, because the policy's lock is held around the whole function; `kind`
  is the policy the configuration chose. The moving loop of LFU and LRU is `Moved`.
  A node is allocated once; `freed` are those given to `free()`. `fault` ends a run
  in which a freed node is used or a loop cannot end (LFU, after an update that
  came too late).
* **PolicyCache** -- the callers: `Hit` (the application tells the policy at once),
  `Miss`, `FindNode` and `ReadValue` (two steps: the node's value is read after the
  lock was given back), `DeleteMemoryBuffer`, `Put`, and `UpdateThread`, the thread
  putMemoryBufferAt starts and nobody joins. The flushing and waiting of an eviction
  is in `BufferCache`, and cannot be told apart here. `late` remembers that such a
  thread ran after its buffer was evicted.
* **VictimOrder** -- what a policy promises: a sequence in which an access puts a
  buffer behind those of no higher rank and before the rest. `PolicyCache` shows that
  the pointers keep it (`KeepsOrder`), as long as no thread is late. FIFO and LRU come
  out the same.
* **DequeProofs**, **PolicyProofs** -- the proofs about the two. **Iteration**, which
  they and `HeapProofs` extend, has induction over the naturals and what it gives for
  loops.

And the unit queue:

* **LinkedHeap** -- the heap node by node: `ReadCount` (what `LHeapPush` does before
  its lock), `Push`, `Front`, `Pop`, `Clear`. `FindNode` is the walk from the root by
  the bits of a number, `SiftedUp` and `SiftedDown` are the two loops, as functions of
  the step. The shared code of a heap is modelled with the comparator of the pool,
  a difference of keys, as `Key`. Nodes are not used again, `freed` are those given
  to `free()`, and `raced` remembers that a pop came between a push's two steps.
  `Path(i)` is the stack of numbers `findNodeByIndex` makes, and `StepUp` and
  `StepDown` are the bodies of the loops.
* **UnitQueue** -- the queue as its callers may see it: the units in it, the first
  one, and whether it is broken. Only with `broken` may units disappear. The first
  unit is not promised to be the lowest: a push may bring up a unit that precedes
  the first, a pop any unit.
* **HeapProofs** -- the proofs about the two.

Two threads never run inside one action, so an action stands for code between two
observable accesses to shared state. Reads of a header without the lock are steps
of their own wherever the code acts on them later.

## 3. The runs

| Run | Asks | States |
|---|---|---|
| `cache_safety` | default build, capacity 1: is it a block device, do locks, marks, permits and batches stay consistent | 410,000 |
| `cache_progress` | room for every block: is anything forgotten, does it reach the disk, does closing end; deadlock checked | 456,000 |
| `cache_pwrite` | `pwrite` build with failing writes, one thread per unit, eviction through the pool; is the evicting call served | 407,000 |
| `cache_evict` | eviction through the pool, mmap: do the waiting loops end, is the count they wait for exact | 704,000 |
| `freed_in_batch` | violation: an eviction frees a buffer the pool has in a batch | |
| `unit_lost` | violation: `pop` removes a unit `front` did not return | |
| `victim_dropped` | violation: a failed `pwrite` loses the victim's bytes | |
| `policy_lists` | all three policies: is the list sound, complete and in order, does a miss make room, who uses freed nodes | 277,000 |
| `unit_heap` | a push and a pop at the same time: is the tree complete and in order, what is lost | 347,000 |
| `stale_victim` | violation: the policy names a buffer that has left the map | |
| `fifo_overtakes` | violation: FIFO moves a buffer to the end on a hit | |
| `lru_wraps` | violation: LRU compares the low 32 bits of its stamps | |

Bounds. Two blocks are enough for two batches to differ, for a batch of two and
for a miss that evicts; two values tell old contents from new. Three operations
allow write, miss with eviction, and write again while the first flush is under
way; the three to five work units are what those operations and evictions can
push. `NThreads` is 1 so that the pool runs out of permits; threads without a
permit (an idle pool's) still give two flush threads at once. `PacketSize` 2 makes
a batch full on the second buffer, which is then written with it. `cache_progress` has
3: a batch of both blocks has room left, so the pool can hold the lock of one of its
buffers, written again meanwhile, when it hands the batch over (`PoolSwitch`), and the
thread has to wait for the pool. 0 selects the build without batches. The data values
are symmetric where only safety is checked.

`CHECK_DEADLOCK FALSE` is said where evictions happen: the pooling thread may wait
for ever on the semaphore of a buffer that was freed between its check and its
`sem_wait` (the semaphore is zeroed, see `freed_in_batch`), and in the bounded
model the application may have no operation left. `cache_progress` has no
evictions and is checked for deadlock.

`policy_lists` has four buffers, so that two evictions happen and, with a thread
late, a third is in between; three blocks, one more than the capacity, since a full
cache whose buffers are not listed yet grows, so that the list has up to three
nodes: `SwitchNode` then meets neighbours that are both ends of the list, or one of
them. Two inner neighbours would need four nodes, and that case is covered by the theorem
`SwitchNodeSwaps` alone. Two hits, and as many nodes as updates can allocate. Its clock stays below `StampModulus`; `lru_wraps` has a
modulus of 2 so that it wraps in two ticks instead of 4.3 seconds. Time does not run
backwards (the code reads CLOCK_REALTIME, which an administrator could set).

`unit_heap` has six units: a tree of three levels, a last node that is a left child
without a sibling (which a pop's comparison of the children never reaches), a push beside
such a node, a push and a pop that race in a tree with several levels, and pushes and pops after it.
Three keys give equal, lower and higher neighbours. The heap may be empty or the
units used up, so deadlock is not checked.

Fairness (`FairSpec`): weak fairness of the application inside a call, of the
pooling thread, and of the flush threads together -- the operating system keeps
scheduling runnable threads. Nothing makes the application begin a call or close.

`EventuallySynced` exempts a closed pool (units still queued are thrown away by
`ThreadPoolClose`) and lost units; `EvictionCompletes` exempts runs in which a
unit was lost or the pool holds a freed buffer. Those exemptions are the
disagreements the violation runs show.

## 4. The proofs

All for every value of the constants -- blocks, contents, threads, packets, capacity,
kind of eviction, build, nodes, keys, stamps and bounds -- from the assumptions named in the
modules (`MemoryBufferAssumption`, `FlushThreadAssumption`, `ThreadPoolAssumption`,
`BufferCacheAssumption`; `DequeAssumption`, `PolicyAssumption`,
`PolicyCacheAssumption`), which TLC evaluates in every run of these modules.

The cache:

* `TypeCorrect`, `ReferencesHold`: `IInv == TypeOK /\ References`. Types alone are
  not inductive: that a flush thread's next buffer is a buffer needs its index to
  be inside the batch, that a semaphore is not negative needs the `sem_wait`
  guards, and that `free` hits a buffer in the map needs the application's locals
  to agree with the map. `References` says that, and is preserved only because
  types hold. One lemma per action.
* `PermitsHold`: inductive given `IInv`, which says that `running_queue` is not
  empty when the pool has decided to join.
* `BatchesHold`: needs that a buffer never changes its block and that no batch
  names a buffer not yet allocated (`IInv`).
* `LocksExclude`, `NoOverwrite`: `LockInv` says that holders of one lock are equal
  and that the lock then is zero; it also needs that a buffer with bytes is valid,
  so that `os_write` never initialises a semaphore in use, and that the buffers of
  a batch are distinct, which follows from consecutive blocks.
* `CopiesHold`, `UnsyncedAreDirty`, `VictimsAreSynced`: `CopiesAgree` is inductive
  given `IInv`, `LockInv` and `BatchesConsecutive`. It says that a live buffer is in
  the map or in the hands of the call that made it or evicts it (`OneCopy`,
  `NewIsPrivate`), that what is not on the disk is marked, or its thread still has
  to give back the lock under which it wrote (`UnsyncedIsMarked`,
  `UnmarkedIsSynced`), and that a victim past its checks is synced (`VictimLeaves`).
* `CacheIsDevice`: `Spec => ImplementsDevice`. The initial states map to initial
  states; `CopiesAgree` says that `Content(b)` does not change when buffers are
  freed, flushed or moved into the map, so that every step is a read, a write, or
  changes nothing the application can see.

`CopiesHold` and the three after it assume
`SafeBuild == MmapRW \/ EvictionType = "pool"`: a write cannot fail, or evictions wait
until the pool has cleaned the victim. In the other build a victim's bytes can be
lost, as `victim_dropped` shows.

* `RequestsBalance`: `request_write_count` of a buffer is the number of its places in the
  batch and in the batches of threads that have not reached it yet. The proof counts
  these places as finite sets: what a batch gains by one buffer (`PlacesAppend`), what
  `running_queue` gains or loses by a thread (`WaitingAppend`, `WaitingTail`), what
  a thread that takes one more lock takes from it (`WaitingLess`). `CountInv` adds that
  the pool has handed its batch over before it begins another. It assumes
  `CountedBuild`: evictions go through the pool, since an eviction that writes
  alone starts a thread that lowers a count nobody raised; and not the mmap
  build without batches, whose `write2Disk2` returns from a clean buffer without
  lowering the count.
* `DirtyIsKeptOrLost`: a dirty buffer is in a unit, in a batch, with a flush thread or
  with the call that made it dirty (`Kept`), or its unit was lost. `CoverInv` says also
  why the pool may drop a unit: a busy buffer is one somebody has begun to write
  (`BusyIsBegun`), and a gathered block is the same buffer (from `CopiesAgree`). It
  assumes `RoomyBuild == MmapRW /\ Capacity = TotalN`: writes cannot fail and every
  block has room. With evictions it does not hold: the pool compares block numbers,
  and drops the unit of a new buffer because the batch ends with the evicted one
  of the same block, which nobody writes any more.
* `EvictorServed`: an evicting call that waits for the pool to clean its victim is not
  forgotten: a buffer in somebody's hands stays in somebody's hands until it is clean. It
  holds in every build, failing writes included (where evictions do not go through the
  pool, because nobody waits so). `ServeInv` keeps what
  `CoverInv` says without evictions: a busy buffer is one somebody has begun to write,
  a batch is switched while the next unit's lock is held, there is no thread of an
  eviction of its own, and units have numbers of their own, so that none that left the queue
  comes back (`LostIsGone`). The property names the three ways out, each as the step that
  takes it: its pwrite fails (`WriteFailed`), its unit leaves the heap unseen (`UnitLost`),
  or `PoolDrop` takes it for gathered because the batch ends with a freed buffer of
  its block (`EndsFreed`). The last cannot be left out: with `PacketSize = 2`, five calls
  and four buffers TLC finds it, and the victim's `deleteMemoryBuffer` then waits for ever.

The policies:

* `PopAtRemoves`, `PushLastAppends`, `SwitchNodeSwaps`: each pointer operation makes of
  a deque that is a list the list it should. `Lists(d, s)` describes the pointers by a
  sequence `s` of different nodes, where `Sound` follows the links: nothing has to be
  computed along the list to say what an operation changes. `ListIsSound` shows
  that it implies `Sound`, in both directions, and that `Chain` gives `s`.
* The moving loop of LFU and LRU (`Moved`) is a function of the number of its steps.
  `Least`, `Induction` and `Iterates` give induction over the naturals for a set instead
  of an operator, from well-foundedness: a loop whose step keeps the
  set of nodes keeps it to its end.
* `DequeStaysSound`, `ListHoldsCache`: the invariant is
  `IInv == InTime => \E N : Good(N)`, where `N` is the set of nodes in the list. It says
  that the deque holds exactly `N`, none of it freed (`Held`), that the map has a buffer
  under its own block (`MapIsRight`), that list and map name the same buffers but for
  those whose thread is still to run (`Matched`), that nobody knows a buffer before
  it is made (`NewBuffers`), and what `main` has found (`Found`).
* `MissesMakeRoom`: from the same invariant.
* `OrderKept`: the steps of `PolicyCache` are steps of `VictimOrder`. What an operation does
  to the list of nodes becomes what it does to the contents, as sequences: `PopShows` takes
  one element out, `LastShows` and `FirstShows` put one in, and `MovedShows` says where the
  moving loop leaves its node, behind the last one whose rank let it pass (`MovedShifts`, by
  induction over the steps of the loop). That one place is the only one the abstract policy
  allows needs the list to be in the order of the counts already (`SortedPlace`), so
  the invariant adds `InOrder`: the list is sorted by the counts, nobody but LFU counts, and no
  stamp is later than the clock. The last makes LRU's loop run to the end of the list, as
  long as stamps are not compared past their modulus. The theorem says so (`Stamped`): for
  LRU it assumes `MaxTime < StampModulus`, 4.3 seconds of the code's clock, and `lru_wraps`
  shows that it is false afterwards. FIFO and LFU need no such assumption.
* `PolicyTypes`: a second invariant, `Typed`, that asks nothing of the list. Pointers lead
  only to nodes that have been allocated, and the deque's count is at least the number of
  cached buffers whose header has a node. That is why the count never falls below zero, even
  when a thread that comes late makes a freed node be popped again.

* `FaultsInRead`: as long as no thread is late, only `ReadValue` can use a freed node, and
  only under FIFO. Accesses and deletions reach nodes through the headers of cached
  buffers, which `Good` places in the list (`AccessSafe`, `DeleteSafe`), LFU's loop ends
  before a node it does not move over (`MovedRests`), and nobody but FIFO frees
  nodes (`FIFOFrees`).

But for `PolicyTypes`, these end where a thread is late: `InTime` is part of the invariant,
since afterwards `Matched` and, with a freed node, `Held` fail (`stale_victim`).

The heap of the unit queue, from `LinkedHeapAssumption`, for every number of units and
all keys:

* `HeapTypes`, `TreeStaysAllocated`, `TreeStaysComplete`: the invariant is `HeapInv`. A
  node is made before its place is looked for, so children are younger than their
  parents (`Linked`); that is what makes every walk of the code end, also in a tree that
  a race has damaged, and why the nodes below the root are the least set that has the
  root and is closed under children. `Sound` adds that a node not pushed yet hangs
  nowhere, and that no two nodes of the tree carry the same unit. While nothing has
  raced, `Complete` describes the tree by its numbers: from it follows that `FindNode`
  gets from the root to any of them (`Finds`). The walk is a function of its steps, and
  so are the path, the loops and the reachable set, each reasoned about by `Induction`
  over the step.
* `HeapImplementsQueue`: a push adds its unit and a pop takes one away. Sifting only
  swaps values of nodes in the tree, so the set of units stays; the root's unit after a
  push precedes or is that before it. Where the tree is damaged, a push can put a node
  where another one was, and a pop take a node with what hangs below it: units are lost,
  as `UnitQueue` allows when broken, and none comes back.
* `HeapKeepsOrder`: going up, only the node the loop is at may go before its parent;
  going down, only the children of that node may go before it, and the loop goes to the
  lower one. The exception is a last node without a sibling, which a pop may leave
  before its parent. A push then makes its node the sibling of that one, passes it by
  on the way up, and puts no further node out of order (`SiftUp`, `OneUp`
  with the set `S` of nodes that were). A pop that comes after such a push is exempt.

Only model-checked: what needs fairness (`EventuallySynced`, `CloseCompletes`,
`EvictionCompletes`), which the prover cannot do. Every invariant and every action property
of a passing run is proved.

## 5. What is left out, and why

* In `ThreadPool`, the nodes of the unit queue's heap. A push that raced with a pop may
  leave a hole in the tree, and what later pushes and pops cut off depends on the
  shape; `UnitQueue` lets a broken queue lose any of its units at any of them, which
  `LinkedHeap` is shown to stay within, and `ThreadPool` does the same.
* In `BufferCache`, the policy: any cached buffer, or none, may be named. That is all
  `findEvictableBuffer` can lead to, since `deleteMemoryBuffer` looks the block up
  again; `PolicyCache` has the policies themselves.
* `popFirst`, `popLast`, `insertLeftAt` and `insertRightAt` of the deque, which nothing
  calls. Addresses freed by `free()` are not handed out again: the first use of a
  freed node ends the run.
* The header's three flags are bits of one byte in the code, so concurrent writes
  of two of them may undo each other; here each has its place. The writes without
  the lock are those of `isBufferBeingWrittenNow` around a thread that is joined, and
  those to a buffer already freed. Undoing one of them can mark a buffer dirty
  again that is on the disk, which costs a write.
* Threads can always be created. The thirty threads the pooling thread starts before its
  loop, on a buffer that is not valid, find that out and end; nobody joins them, and they
  are left out.
* A short `pwrite`. The code tests for a negative result only (`disk_write.c` lines 38
  and 113), so that a write of fewer bytes than asked for clears `isDirty` like a complete
  one. The models assume that `pwrite` writes everything or fails (`WriteOutcomes`).
  `VictimIsSynced`, `UnsyncedIsDirty` and `ImplementsDevice` hold under that assumption.
* A failing or short `pread`, whose result `os_read` ignores (`buffer.c` line 78). The
  models assume that a read of the disk is complete and correct (`OsRead`).
* Byte offsets: with the configured 1024 blocks of 4096 bytes the products that are
  computed as `int` do not overflow.
* What `os_read` returns: an uninitialised `int` on a miss, which its callers print at most.
* Checksums, random numbers, timing, unused containers, the third-party hash map's
  internals, the generated pages under `src/docs`.

## 6. Plan

Done: the cache with its threads and permits, the policies over the deque, the heap of
the unit queue. Proved: types, references, permits, batches, locks, copies, the count of
requested writes, the refinement of `BlockDevice`, that neither a dirty buffer nor an
evicting call is forgotten; the deque, the policies' lists, types and order, a
refinement of `VictimOrder`, which step may use a freed node; the heap with its refinement of `UnitQueue`.

Left: a variant in which `pthread_create` fails (the code looks for a negative result,
which it never gives).
