----------------------------- MODULE ThreadPool -----------------------------
(***************************************************************************)
(* The thread pool of delayed_write/thread_pool.c: one pooling thread that *)
(* takes work units off a priority queue, gathers buffers of consecutive   *)
(* blocks into a batch and starts a flush thread for it, never (it is      *)
(* meant) more than number_of_thread at a time.                            *)
(*                                                                         *)
(* The queue is the heap of shared/linked_heap.c.  All that is kept of it  *)
(* is what UnitQueue promises and LinkedHeap implements: the units in it,  *)
(* which one is at the root, and whether a push has raced with a pop, from *)
(* when on both may lose units.  Reading the root and removing the root    *)
(* are two calls.                                                          *)
(***************************************************************************)
EXTENDS FlushThread

CONSTANTS
    NThreads,     \* permits (CONFIG_THREAD_POOL_NUMBER_OF_INTERNAL_THREAD)
    PacketSize,   \* longest batch; 0 starts one thread per unit
    MaxUnits      \* bound: work units one run may push

ASSUME ThreadPoolAssumption ==
    /\ NThreads \in Nat \ {0}
    /\ PacketSize \in Nat
    /\ MaxUnits \in Nat

VARIABLES
    queue,        \* thread_unit_queue: the units in the heap
    root,         \* the unit at the root of the heap
    tree,         \* is the heap whole, or has a push raced with a pop
    nunit,        \* units pushed so far
    dangling,     \* units in the heap whose memory has been freed
    lost,         \* units that left the heap and nobody looked at
    permits,      \* thread_unit_queue_lock: flush threads still allowed
    batch,        \* continuous_memory_buffers
    pool,         \* where the pooling thread is, and its unit
    terminate     \* thread_should_terminate_state

poolVars == <<queue, root, tree, nunit, dangling, lost, permits, batch, pool,
              terminate>>

Unit == [id: 1 .. MaxUnits, buf: Buffer, priority: {0, 1}]
NoUnit == [id |-> 0, buf |-> NoBuffer, priority |-> 0]

PoolTypeOK ==
    /\ queue \subseteq Unit
    /\ root \in Unit \union {NoUnit}
    /\ tree \in {"whole", "stale", "broken"}
    /\ nunit \in 0 .. MaxUnits
    /\ dangling \subseteq Unit
    /\ lost \subseteq Unit
    /\ permits \in Nat
    /\ batch \in Seq(Buffer)
    /\ pool \in [pc: {"top", "pop", "check", "lock", "begin", "join", "done"},
                 unit: Unit \union {NoUnit}]
    /\ terminate \in BOOLEAN

PoolInit ==
    /\ queue = {}
    /\ root = NoUnit
    /\ tree = "whole"
    /\ nunit = 0
    /\ dangling = {}
    /\ lost = {}
    /\ permits = NThreads
    /\ batch = <<>>
    /\ pool = [pc |-> "top", unit |-> NoUnit]
    /\ terminate = FALSE
-----------------------------------------------------------------------------
(* The unit queue *)

\* lhq_comparator is not positive: higher priority first, then lower block.
\* The key of a freed unit is whatever its memory now holds.
Precedes(u, v) ==
    \/ u.priority > v.priority
    \/ u.priority = v.priority /\ buf[u.buf].block <= buf[v.buf].block
    \/ {u, v} \intersect dangling # {}

\* ThreadPoolAddQueue2, called by the application's thread.  When a pop came
\* between the number LHeapPush gives its node and its lock, the node is hung
\* up in the wrong place: from then on subtrees may be cut off.
AddQueue(x, p) ==
    LET u == [id |-> nunit + 1, buf |-> x, priority |-> p]
    IN /\ nunit < MaxUnits
       /\ nunit' = nunit + 1
       /\ \/ /\ tree = "whole"
             /\ queue' = queue \union {u}
             /\ root' \in IF queue = {} THEN {u}
                          ELSE {root} \union {v \in queue' : Precedes(v, root)}
             /\ UNCHANGED <<tree, dangling, lost>>
          \/ /\ tree # "whole"
             /\ tree' = "broken"
             /\ \E kept \in SUBSET queue :
                  /\ queue' = kept \union {u}
                  /\ dangling' = dangling \intersect kept
                  /\ lost' = lost \union (queue \ kept)
             /\ root' \in queue'

\* LHQueue_pop removes whatever is at the root by now, and the subtrees it
\* cuts off; pushing says that the other thread may have numbered its node.
PopUnit(pushing) ==
    /\ \E kept \in IF tree = "broken" THEN SUBSET (queue \ {root}) ELSE {queue \ {root}} :
         /\ queue' = kept
         /\ dangling' = dangling \intersect kept
         /\ lost' = lost \union (queue \ (kept \union {pool.unit}))
    /\ root' \in IF queue' = {} THEN {NoUnit} ELSE queue'
    /\ \/ UNCHANGED tree
       \/ pushing /\ tree = "whole" /\ tree' = "stale"

\* free(item), which may still be in the heap.
FreeUnit(u) == dangling' = dangling \union ({u} \intersect queue)
-----------------------------------------------------------------------------
(* The pooling thread, ThreadPoolMainPooling1 *)

\* pthread_create for the gathered buffers, and running_queue->push.
StartFlush(xs) == running' = Append(running, FlushBuffersWithThread(xs))

\* Mutant: sem_trywait succeeds once too often.
PermitFreeOrZero == permits >= 0

\* sem_trywait(&thread_unit_queue_lock) would succeed.
PermitFree == permits > 0

\* Mutant: the sem_post is forgotten.
NotPosted == permits

\* sem_post(&thread_unit_queue_lock)
Posted == permits + 1

\* Mutant: a batch of one is not reckoned worth a thread.
GatheredTwo == Len(batch) > 1

\* continuous_memory_buffers_count > 0
Gathered == batch # <<>>

Goto(pc) == pool' = [pool EXCEPT !.pc = pc]
GoTop == pool' = [pc |-> "top", unit |-> NoUnit]

\* The loop ends when the flag is set: the batch is flushed, the queue left.
PoolFinish ==
    /\ pool.pc = "top"
    /\ terminate
    /\ IF batch = <<>> THEN UNCHANGED running ELSE StartFlush(batch)
    /\ batch' = <<>>
    /\ Goto("done")
    /\ UNCHANGED <<memVars, solo, queue, root, tree, nunit, dangling, lost, permits, terminate>>

\* Nothing queued: what has been gathered is flushed, without a permit.
PoolIdle ==
    /\ pool.pc = "top"
    /\ ~terminate
    /\ queue = {}
    /\ Gathered
    /\ StartFlush(batch)
    /\ batch' = <<>>
    /\ UNCHANGED <<memVars, solo, queue, root, tree, nunit, dangling, lost, permits, pool, terminate>>

\* try_semalock succeeds, then front(): a unit that was freed is the fault.
PoolFront ==
    /\ pool.pc = "top"
    /\ ~terminate
    /\ queue # {}
    /\ PermitFree
    /\ permits' = permits - 1
    /\ pool' = [pc |-> "pop", unit |-> root]
    /\ fault' = (root \in dangling)
    /\ UNCHANGED <<buf, nbuf, disk, running, solo, queue, root, tree, nunit, dangling,
                   lost, batch, terminate>>

PoolPop(pushing) ==
    /\ pool.pc = "pop"
    /\ PopUnit(pushing)
    /\ Goto("check")
    /\ UNCHANGED <<memVars, running, solo, nunit, permits, batch, terminate>>

\* No lock is held while the header is read, and none of it is read again.
PoolCheck ==
    LET x == buf[pool.unit.buf]
    IN /\ pool.pc = "check"
       /\ \/ /\ x.valid /\ x.dirty /\ ~x.busy /\ x.data # NULL
             /\ Goto("lock")
             /\ UNCHANGED permits
          \/ /\ ~(x.valid /\ x.dirty /\ ~x.busy /\ x.data # NULL)
             /\ permits' = Posted
             /\ GoTop
       /\ UNCHANGED <<memVars, running, solo, queue, root, tree, nunit, dangling, lost,
                      batch, terminate>>

\* Mutant: the write_lock is kept.
RequestLocked(x, lock) ==
    Assign(x, [buf[x] EXCEPT !.busy = TRUE, !.requests = @ + 1])

\* isBufferBeingWrittenNow = 1, request_write_count++, sem_post.
Request(x, lock) ==
    Assign(x, [buf[x] EXCEPT !.busy = TRUE, !.requests = @ + 1, !.lock = lock])

\* Mutant: a block below the last counts as already gathered.
UpToLastBlock == IF batch = <<>> THEN {} ELSE 0 .. buf[batch[Len(batch)]].block

\* The block the batch ends with,
LastBlocks == IF batch = <<>> THEN {} ELSE {buf[batch[Len(batch)]].block}

\* Mutant: any other block may follow.
OtherBlocks == Block \ LastBlocks

\* and the ones it can be continued with.
NextBlocks == IF batch = <<>> THEN Block ELSE {b + 1 : b \in LastBlocks}

\* sem_wait(&write_lock) goes through with PacketSize = 0: a thread per unit.
PoolSingle ==
    LET x == pool.unit.buf
    IN /\ pool.pc = "lock"
       /\ PacketSize = 0
       /\ Unlocked(x)
       /\ Request(x, buf[x].lock)
       /\ running' = Append(running, FlushBufferWithThread(x))
       /\ FreeUnit(pool.unit)
       /\ GoTop
       /\ UNCHANGED <<nbuf, disk, fault, solo, queue, root, tree, nunit, lost, permits,
                      batch, terminate>>

\* ... and the block follows the batch, or starts it: the buffer joins, and
\* a batch that is full keeps the permit for the thread it is given to.
PoolExtend ==
    LET x == pool.unit.buf
        full == batch # <<>> /\ Len(batch) + 1 >= PacketSize
        longer == Append(batch, x)
    IN /\ pool.pc = "lock"
       /\ PacketSize > 0
       /\ Unlocked(x)
       /\ buf[x].block \in NextBlocks
       /\ Request(x, buf[x].lock)
       /\ \/ full /\ StartFlush(longer) /\ batch' = <<>> /\ UNCHANGED permits
          \/ ~full /\ batch' = longer /\ permits' = Posted /\ UNCHANGED running
       /\ FreeUnit(pool.unit)
       /\ GoTop
       /\ UNCHANGED <<nbuf, disk, fault, solo, queue, root, tree, nunit, lost, terminate>>

\* ... and the block is already the last of the batch: nothing to add.
PoolDrop ==
    /\ pool.pc = "lock"
    /\ PacketSize > 0
    /\ Unlocked(pool.unit.buf)
    /\ buf[pool.unit.buf].block \in LastBlocks
    /\ permits' = Posted
    /\ FreeUnit(pool.unit)
    /\ GoTop
    /\ UNCHANGED <<memVars, running, solo, queue, root, tree, nunit, lost, batch, terminate>>

\* ... and the block does not follow: the batch is handed to a thread, with
\* this unit's permit and while its write_lock is held,
PoolSwitch ==
    LET x == pool.unit.buf
    IN /\ pool.pc = "lock"
       /\ PacketSize > 0
       /\ Unlocked(x)
       /\ buf[x].block \notin NextBlocks \union LastBlocks
       /\ Assign(x, [buf[x] EXCEPT !.lock = @ - 1])
       /\ StartFlush(batch)
       /\ batch' = <<>>
       /\ Goto("begin")
       /\ UNCHANGED <<nbuf, disk, fault, solo, queue, root, tree, nunit, dangling, lost,
                      permits, terminate>>

\* and then the buffer starts the next batch.
PoolBegin ==
    LET x == pool.unit.buf
    IN /\ pool.pc = "begin"
       /\ Request(x, buf[x].lock + 1)
       /\ batch' = <<x>>
       /\ FreeUnit(pool.unit)
       /\ GoTop
       /\ UNCHANGED <<nbuf, disk, fault, running, solo, queue, root, tree, nunit, lost,
                      permits, terminate>>

\* No permit left: waitInternalThread(tp, 1) joins the oldest flush thread.
PoolWait ==
    /\ pool.pc = "top"
    /\ ~terminate
    /\ queue # {}
    /\ ~PermitFree
    /\ running # <<>>
    /\ Goto("join")
    /\ UNCHANGED <<memVars, running, solo, queue, root, tree, nunit, dangling, lost,
                   permits, batch, terminate>>

PoolJoin ==
    /\ pool.pc = "join"
    /\ Head(running).pc = "done"
    /\ running' = Tail(running)
    /\ permits' = Posted
    /\ Goto("top")
    /\ UNCHANGED <<memVars, solo, queue, root, tree, nunit, dangling, lost, batch, terminate>>

PoolStep(pushing) ==
    \/ PoolFinish
    \/ PoolIdle
    \/ PoolFront
    \/ PoolPop(pushing)
    \/ PoolCheck
    \/ PoolSingle
    \/ PoolExtend
    \/ PoolDrop
    \/ PoolSwitch
    \/ PoolBegin
    \/ PoolWait
    \/ PoolJoin
=============================================================================
