-------------------------- MODULE CacheProperties ---------------------------
(***************************************************************************)
(* What the buffer cache must guarantee, and the fairness under which it   *)
(* makes progress.                                                         *)
(***************************************************************************)
EXTENDS BufferCache

\* What the application finds in block b: its buffer, or else the disk.
Content(b) ==
    IF map[b] # NoBuffer /\ Live(map[b]) THEN buf[map[b]].data ELSE disk[b]

\* The call os_read or os_write still has to take effect.
NoRequest == [op |-> "none"]
Outstanding ==
    IF main.pc \notin Evicting \union {"copy", "wlock", "put"} THEN NoRequest
    ELSE IF main.op = "read" THEN [op |-> "read", block |-> main.block]
    ELSE [op |-> "write", block |-> main.block, data |-> main.data]

Device == INSTANCE BlockDevice
    WITH store <- [b \in Block |-> Content(b)], request <- Outstanding

\* Reads return what was written last and nothing but a write changes what a
\* block holds: through misses, hits, evictions and flushes, in any order of
\* the threads' steps (os_read and os_write of buffer.c).
ImplementsDevice == Device!Spec

\* A buffer whose bytes are not on the disk is marked dirty (README.md:63),
\* except while os_write, holding write_lock, is about to mark it.
UnsyncedIsDirty ==
    \A b \in Cached :
        LET x == map[b]
        IN \/ ~Live(x)
           \/ buf[x].data = disk[b]
           \/ buf[x].dirty
           \/ main.pc = "wdone" /\ main.buf = x

\* Flush thread h has taken the write_lock of x and not given it back.
ThreadHolds(h, x) == h \in Flushers /\ x \in LockedBy(Flusher(h))

\* Holder h has: -2 is the pooling thread, -1 the application's thread, and
\* h >= 0 a flush thread.
Holds(h, x) ==
    \/ h = -2 /\ pool.pc = "begin" /\ pool.unit.buf = x
    \/ h = -1 /\ main.pc = "wdone" /\ main.buf = x
    \/ ThreadHolds(h, x)

\* The write_lock of a buffer excludes: whoever has it has it alone, and nobody
\* has one that sem_wait would still grant.  os_write may initialise it again
\* and an eviction zeroes it while threads have it or wait for it.
WriteLockExcludes ==
    \A x \in Buffer : \A h \in Flushers \union {-1, -2} :
        Holds(h, x) => /\ buf[x].lock = 0
                       /\ \A g \in Flushers \union {-1, -2} : Holds(g, x) => g = h

\* Nobody changes or frees the bytes of a buffer while a flush thread has its
\* write_lock (README.md:65).
NoOverwriteWhileFlushing ==
    [][\A x \in Buffer :
          buf'[x].data # buf[x].data =>
              \A i \in Flushers : x \notin LockedBy(Flusher(i))]_vars

\* Every permit the pooling thread took is posted again or kept by a thread
\* in running_queue, so when it finds none it has a thread to join.
HoldsPermit == IF pool.pc \in {"pop", "check", "lock"} THEN 1 ELSE 0
PermitsAccounted ==
    pool.pc # "done" => permits + Len(running) + HoldsPermit >= NThreads

\* A batch is written in one piece at the offset of its first block, so the
\* blocks of every batch, gathered or handed to a thread, must be consecutive.
Consecutive(xs) ==
    \A j \in 1 .. Len(xs) : buf[xs[j]].block = buf[xs[1]].block + j - 1
BatchesConsecutive ==
    /\ Consecutive(batch)
    /\ \A i \in DOMAIN running : Consecutive(running[i].bufs)

\* Some thread has, or will get, buffer x in hand to write it to the disk.
Covered(x) ==
    \/ \E u \in queue \union {pool.unit} : u.buf = x
    \/ \E j \in DOMAIN batch : batch[j] = x
    \/ \E i \in Flushers : x \in ToCopy(Flusher(i)) \union LockedBy(Flusher(i))
    \/ main.pc \in {"wdone", "push"} /\ main.buf = x
    \/ main.pc \in Evicting /\ main.victim = x

\* A dirty buffer is never forgotten: until the queue is thrown away at the
\* end some thread still has it to write.  The units lost between front() and
\* pop() are the only exception.
DirtyIsCoveredOrLost ==
    ~Over => \A b \in Cached :
        buf[map[b]].dirty => Covered(map[b]) \/ \E u \in lost : u.buf = map[b]

\* The same without the exception: the flush threads write every dirty buffer
\* (README.md:64).
DirtyIsCovered ==
    ~Over => \A b \in Cached : buf[map[b]].dirty => Covered(map[b])

\* Another thread has, or will get, buffer x in hand to write it to the disk.
InHand(x) ==
    \/ \E u \in queue \union {pool.unit} : u.buf = x
    \/ \E j \in DOMAIN batch : batch[j] = x
    \/ \E i \in Flushers : x \in ToCopy(Flusher(i)) \union LockedBy(Flusher(i))

\* The flush thread that had buffer x has just failed to write it.
WriteFailed(x) ==
    \E i \in Flushers : \E j \in DOMAIN Flusher(i).bufs :
        /\ Flusher(i).bufs[j] = x
        /\ i \in Flushers' /\ Flusher(i)' # Flusher(i) /\ ~(Flusher(i)').ok

\* A unit of buffer x has just left the heap unseen.
UnitLost(x) == \E u \in lost' \ lost : u.buf = x

\* The batch ends with a freed buffer of x's block, which the pool takes for x.
EndsFreed(x) ==
    /\ batch # <<>>
    /\ ~Live(batch[Len(batch)])
    /\ buf[batch[Len(batch)]].block = buf[x].block

\* deleteMemoryBuffer waits for the pool to clean its victim, which nobody else
\* asks for: once somebody has the victim in hand it stays in somebody's hands
\* until it is clean, unless its pwrite fails, which nobody tries again, its
\* unit is lost or the batch ends with a freed buffer of its block
\* (memory_buffer.c:312).
Awaiting(x) == main.pc = "waitclean" /\ main.victim = x /\ buf[x].dirty
EvictorIsServed ==
    [][\A x \in Buffer :
          Awaiting(x)' =>
              \/ InHand(x)'
              \/ /\ Awaiting(x)
                 /\ ~InHand(x) \/ WriteFailed(x) \/ UnitLost(x) \/ EndsFreed(x)]_vars

\* request_write_count is the number of batches that hold the buffer and have
\* not locked it yet.  Eviction waits for it to be zero: too high and it waits
\* for ever, too low and it frees a buffer a thread is about to copy.
Requests(x) ==
    Cardinality({j \in DOMAIN batch : batch[j] = x})
    + Cardinality({p \in (1 .. Len(running)) \X (1 .. TotalN) :
          LET t == running[p[1]]
          IN /\ t.pc \in {"check", "sync", "lock"}
             /\ p[2] \in t.k + 1 .. Len(t.bufs)
             /\ t.bufs[p[2]] = x})
RequestsBalanced == \A x \in Buffer : buf[x].requests = Requests(x)

\* A batch the pool has gathered or started still has its bytes: eviction waits
\* for the pending writes of the victim (README.md:62).
BatchBuffersLive ==
    /\ \A j \in DOMAIN batch : Live(batch[j])
    /\ \A i \in DOMAIN running : \A x \in ToCopy(running[i]) : Live(x)

\* A victim is given back only after its bytes have reached the disk
\* (README.md:62).
VictimIsSynced ==
    main.pc = "free" => buf[main.victim].data = disk[buf[main.victim].block]
-----------------------------------------------------------------------------
(* The invariant behind the others: who may point at which buffer.          *)

\* deleteMemoryBuffer has found its victim.
Deleting == Evicting \ {"victim"}

\* The map leads to the buffer of its block, which has its bytes until its
\* eviction is all but over; the application's locals are what the map says,
\* or a new buffer that is not in the map yet.
AppReferences ==
    /\ \A x \in Buffer : buf[x].valid => Live(x)
    /\ \A b \in Cached :
          /\ map[b] <= nbuf
          /\ buf[map[b]].block = b
          /\ Live(map[b]) \/ (main.pc = "destroy" /\ main.victim = map[b])
    /\ main.pc \in {"copy", "wlock", "wdone"} =>
          main.block \in Cached /\ map[main.block] = main.buf
    /\ main.pc = "push" => main.buf \in 1 .. nbuf
    /\ main.pc \in Evicting \union {"put"} =>
          /\ main.buf \in 1 .. nbuf
          /\ \A b \in Block : map[b] # main.buf
          /\ Live(main.buf)
          /\ buf[main.buf].block = main.block
    /\ main.pc \in Deleting =>
          main.victim \in Buffer /\ map[buf[main.victim].block] = main.victim
    /\ main.pc \in {"joinall", "closed"} => pool.pc = "done"

\* The pool has a unit in hand from front() on, the heap has a root when it
\* is not empty, and no unit or batch names a buffer that does not exist yet.
PoolReferences ==
    /\ queue # {} => root \in queue
    /\ pool.pc = "pop" => root \in queue
    /\ pool.pc \in {"pop", "check", "lock", "begin"} => pool.unit \in Unit
    /\ pool.pc = "join" => running # <<>>
    /\ \A u \in queue \union {pool.unit} : u.buf <= nbuf
    /\ \A j \in 1 .. Len(batch) : batch[j] <= nbuf

\* A flush thread that has something to do is inside its array of buffers.
ThreadInside(t) ==
    /\ t.pc \in {"check", "sync"} => Len(t.bufs) = 1
    /\ t.pc \in {"lock", "write", "release"} => t.k < Len(t.bufs)
    /\ \A j \in 1 .. Len(t.bufs) : t.bufs[j] <= nbuf
FlushReferences ==
    /\ ThreadInside(solo)
    /\ \A i \in 1 .. Len(running) : ThreadInside(running[i])

References == AppReferences /\ PoolReferences /\ FlushReferences
-----------------------------------------------------------------------------
(* The invariant behind ImplementsDevice: where the bytes of a block are.   *)

\* What the disk holds for the block of buffer x are x's bytes.
Synced(x) == buf[x].data = disk[buf[x].block]

\* Some other thread has, or can get, a pointer to buffer x.
Known(x) ==
    \/ \E u \in queue \union {pool.unit} : u.buf = x
    \/ \E j \in 1 .. Len(batch) : batch[j] = x
    \/ \E j \in 1 .. Len(solo.bufs) : solo.bufs[j] = x
    \/ \E i \in 1 .. Len(running) :
          \E j \in 1 .. Len(running[i].bufs) : running[i].bufs[j] = x

\* The call has allocated its buffer and not put it into the map yet.
Missing == main.pc \in Evicting \union {"put"}

\* Every buffer with bytes is the one the map has for its block, or the new one
\* of a call whose block is not in the map: there is one copy at most.
OneCopy ==
    /\ \A x \in 1 .. nbuf :
          Live(x) => map[buf[x].block] = x \/ (Missing /\ main.buf = x)
    /\ Missing => map[main.block] = NoBuffer

\* The new buffer is nobody else's; for a read it is what the disk holds.
NewIsPrivate ==
    Missing => /\ ~Known(main.buf)
               /\ buf[main.buf].data = main.data
               /\ main.op = "read" => main.data = disk[main.block]

\* Every buffer is synced or marked,
UnsyncedIsMarked ==
    \A x \in 1 .. nbuf :
        Live(x) => Synced(x) \/ buf[x].dirty \/ (main.pc = "wdone" /\ main.buf = x)

\* and synced when a flush thread is about to take its mark away.
UnmarkedIsSynced ==
    \A i \in Flushers : \A j \in 1 .. Len(Flusher(i).bufs) :
        LET t == Flusher(i)
        IN t.pc = "release" /\ t.ok /\ j > t.k /\ Live(t.bufs[j]) => Synced(t.bufs[j])

\* The victim is written before it is freed and freed before it is forgotten.
VictimLeaves ==
    /\ main.pc = "join" =>
          /\ EvictionType = "single"
          /\ solo.bufs = <<main.victim>>
          /\ solo.pc \in {"check", "sync", "done"}
          /\ solo.pc = "done" => Synced(main.victim)
    /\ main.pc = "free" => Synced(main.victim)
    /\ main.pc = "destroy" => ~Live(main.victim)

\* Where a call is tells which call it is.
CallKnown ==
    /\ main.pc = "copy" => main.op = "read"
    /\ main.pc \in {"wlock", "wdone"} => main.op = "write"

\* Wherever reads, writes, evictions and flushes are, the last bytes written to
\* a block are in its one buffer, or else on the disk (README.md:62-65).
CopiesAgree ==
    /\ OneCopy
    /\ NewIsPrivate
    /\ UnsyncedIsMarked /\ UnmarkedIsSynced
    /\ VictimLeaves
    /\ CallKnown
-----------------------------------------------------------------------------
(* Progress.  Threads keep being scheduled; the application need not make   *)
(* another call.                                                            *)

FairSpec ==
    /\ Spec
    /\ WF_vars(~fault /\ AppStep)
    /\ WF_vars(~fault /\ ThePool)
    /\ WF_vars(~fault /\ \E i \in Flushers : TheFlusher(i))

\* A written block reaches the disk without the application's help, unless the
\* pool is closed first or a unit was lost.
EventuallySynced ==
    \A b \in Block :
        (Content(b) # disk[b]) ~>
            (Content(b) = disk[b] \/ terminate \/ fault \/ lost # {})

\* Once asked to, the pool and every flush thread end (ThreadPoolClose).
CloseCompletes == terminate ~> Over

\* A buffer the pool or a flush thread still holds was freed by an eviction.
HoldsFreed == ~BatchBuffersLive \/ (pool.unit.buf # NoBuffer /\ ~Live(pool.unit.buf))

\* A call that has to evict gets its buffer: the waiting loops of
\* deleteMemoryBuffer end.
EvictionCompletes ==
    (main.pc \in Evicting) ~>
        (main.pc \notin Evicting \/ fault \/ lost # {} \/ HoldsFreed)
=============================================================================
