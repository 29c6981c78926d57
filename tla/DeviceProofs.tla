---------------------------- MODULE DeviceProofs -----------------------------
(***************************************************************************)
(* The cache is a block device, for every value of the constants of the    *)
(* builds in which an eviction cannot free a block whose write has failed: *)
(* those that write to mapped memory or that evict through the pool.       *)
(*                                                                         *)
(* CopiesAgree of CacheProperties is the invariant.  A step of a flush     *)
(* thread can only write the bytes of the one copy of a block, so it       *)
(* unsyncs nothing; a step of another thread leaves the disk alone, and    *)
(* the bytes of every buffer a flush thread has locked.                    *)
(***************************************************************************)
EXTENDS LockProofs

\* A failed write is not followed by an eviction that does not look.
SafeBuild == MmapRW \/ EvictionType = "pool"

USE DEF NoBuffer

\* What the proofs below use of the types and references.
LEMMA Basics ==
    ASSUME IInv
    PROVE  /\ buf \in [Buffer -> MemoryBuffer]
           /\ \A x \in Buffer : buf[x] \in MemoryBuffer
           /\ nbuf \in Nat /\ 1 .. nbuf \subseteq Buffer /\ NoBuffer \notin Buffer
           /\ disk \in [Block -> Data] /\ map \in [Block -> Buffer \union {NoBuffer}]
           /\ \A x \in Buffer : buf[x].block \in Block
           /\ \A x \in Buffer : Live(x) => buf[x].data \in Data
<1>1. /\ buf \in [Buffer -> MemoryBuffer] /\ disk \in [Block -> Data]
      /\ map \in [Block -> Buffer \union {NoBuffer}]
      /\ nbuf \in 0 .. MaxBuffers
  BY DEF IInv, TypeOK, MemTypeOK, AppTypeOK
<1>2. \A x \in Buffer : buf[x] \in MemoryBuffer
  BY <1>1
<1>3. nbuf \in Nat /\ 1 .. nbuf \subseteq Buffer /\ NoBuffer \notin Buffer
  BY <1>1, MemoryBufferAssumption DEF Buffer
<1>4. \A x \in Buffer : buf[x].block \in Block /\ buf[x].data \in Data \union {NULL}
  BY <1>2 DEF MemoryBuffer
<1> QED
  BY <1>1, <1>2, <1>3, <1>4 DEF Live

LEMMA MainType ==
    ASSUME IInv
    PROVE  main \in [pc: {"idle", "copy", "wlock", "wdone", "put", "push"}
                           \union Evicting \union Closing,
                     op: {"read", "write"}, block: Block, data: Data,
                     buf: Buffer \union {NoBuffer}, victim: Buffer \union {NoBuffer}]
BY DEF IInv, TypeOK, AppTypeOK

\* The buffers of a flush thread exist.
LEMMA ThreadBuffers ==
    ASSUME IInv, NEW i \in Flushers, NEW j \in 1 .. Len(Flusher(i).bufs)
    PROVE  Flusher(i).bufs[j] \in 1 .. nbuf /\ Known(Flusher(i).bufs[j])
<1> DEFINE t == Flusher(i)
<1>1. t \in FlushThread /\ ThreadInside(t)
  BY FlusherType, ElementOfSeq
     DEF IInv, TypeOK, References, FlushReferences, Flusher, Flushers, FlushTypeOK
<1>2. t.bufs \in Seq(Buffer)
  BY <1>1 DEF FlushThread
<1>3. t.bufs[j] \in Buffer /\ t.bufs[j] <= nbuf
  BY <1>1, <1>2, ElementOfSeq DEF ThreadInside
<1>4. Known(t.bufs[j])
  <2>1. i = 0 \/ i \in 1 .. Len(running)
    BY DEF Flushers, IInv, TypeOK, FlushTypeOK
  <2>2. CASE i = 0
    BY <2>2 DEF Known, Flusher
  <2>3. CASE i # 0
    <3>1. i \in 1 .. Len(running) /\ t = running[i]
      BY <2>1, <2>3 DEF Flusher
    <3> QED
      BY <3>1 DEF Known
  <2> QED
    BY <2>2, <2>3
<1> QED
  BY <1>3, <1>4, Basics DEF Buffer

\* There is one copy of a block at most.
LEMMA Unique ==
    ASSUME IInv, CopiesAgree, NEW x \in 1 .. nbuf, NEW y \in 1 .. nbuf,
           Live(x), Live(y), buf[x].block = buf[y].block
    PROVE  x = y
<1>1. Missing => map[buf[main.buf].block] = NoBuffer
  BY DEF CopiesAgree, OneCopy, IInv, References, AppReferences, Missing
<1>2. \A z \in 1 .. nbuf :
         Live(z) => map[buf[z].block] = z \/ (Missing /\ main.buf = z)
  BY DEF CopiesAgree, OneCopy
<1>3. x # NoBuffer /\ y # NoBuffer
  BY Basics
<1> QED
  BY <1>1, <1>2, <1>3
-----------------------------------------------------------------------------
(* Steps that leave the disk alone *)

\* No thread comes to give back locks that was not giving them back before.
ThreadsKept ==
    \A i \in Flushers' :
        Flusher(i)'.pc = "release" => \E h \in Flushers : Flusher(i)' = Flusher(h)

\* What flush threads have written stays written while they give back the locks.
LEMMA ReleasedKept ==
    ASSUME IInv, LockInv, CopiesAgree, [Next]_vars, UNCHANGED disk, BlocksKept, ThreadsKept
    PROVE  UnmarkedIsSynced'
<1> SUFFICES ASSUME NEW i \in Flushers', NEW u, u = Flusher(i)', NEW j \in 1 .. Len(u.bufs),
                    u.pc = "release", u.ok, j > u.k, buf'[u.bufs[j]].data # NULL
             PROVE  buf'[u.bufs[j]].data = disk'[buf'[u.bufs[j]].block]
  BY DEF UnmarkedIsSynced, Live, Synced
<1>1. PICK h \in Flushers : u = Flusher(h)
  BY DEF ThreadsKept
<1> DEFINE t == Flusher(h)
           x == t.bufs[j]
<1>2. t.pc = "release" /\ t.ok /\ j > t.k /\ j \in 1 .. Len(t.bufs) /\ buf'[x].data # NULL
  BY <1>1
<1>3. x \in 1 .. nbuf /\ x \in Buffer
  BY <1>2, ThreadBuffers, Basics
<1>4. t.k \in Nat /\ Len(t.bufs) \in Nat
  BY FlusherType DEF IInv, TypeOK, FlushThread
<1>5. x \in LockedBy(t)
  <2>1. j \in t.k + 1 .. Len(t.bufs)
    BY <1>2, <1>4
  <2> QED
    BY <1>2, <2>1, LockedByPc
<1>6. buf'[x].data = buf[x].data
  BY <1>3, <1>5, NextNoOverwrite
<1>7. buf[x].data = disk[buf[x].block]
  BY <1>2, <1>6 DEF CopiesAgree, UnmarkedIsSynced, Live, Synced
<1> QED
  BY <1>1, <1>3, <1>6, <1>7 DEF BlocksKept

\* A step that moves no bytes, changes no mark and shows the new buffer of a
\* call to nobody.
LEMMA QuietStep ==
    ASSUME IInv, CopiesAgree, SameContents, UNCHANGED <<nbuf, disk, map>>,
           \A x \in 1 .. nbuf : buf'[x].dirty = buf[x].dirty,
           /\ main'.buf = main.buf /\ main'.block = main.block
           /\ main'.data = main.data /\ main'.op = main.op,
           Missing' <=> Missing, main'.pc = "wdone" <=> main.pc = "wdone",
           Missing => \A x \in Buffer : x = main.buf /\ Known(x)' => Known(x)
    PROVE  OneCopy' /\ NewIsPrivate' /\ UnsyncedIsMarked'
<1>1. \A x \in 1 .. nbuf : /\ x \in Buffer
                           /\ buf'[x].data = buf[x].data /\ buf'[x].block = buf[x].block
  BY Basics DEF SameContents
<1>2. Missing => main.buf \in 1 .. nbuf /\ main.buf \in Buffer
  BY Basics DEF IInv, References, AppReferences, Missing
<1>3. OneCopy'
  BY <1>1 DEF CopiesAgree, OneCopy, Live
<1>4. UnsyncedIsMarked'
  BY <1>1 DEF CopiesAgree, UnsyncedIsMarked, Live, Synced
<1>5. ASSUME Missing
      PROVE  /\ ~Known(main.buf)'
             /\ buf'[main'.buf].data = main'.data
             /\ main'.op = "read" => main'.data = disk'[main'.block]
  <2>1. ~Known(main.buf) /\ main.buf \in Buffer /\ main.buf \in 1 .. nbuf
    BY <1>2, <1>5 DEF CopiesAgree, NewIsPrivate
  <2>2. PICK x \in Buffer : x = main.buf
    BY <2>1
  <2>3. ~Known(x)'
    BY <1>5, <2>1, <2>2
  <2>4. ~Known(main.buf)'
    BY <2>2, <2>3 DEF Known
  <2> QED
    BY <1>1, <1>5, <2>1, <2>4 DEF CopiesAgree, NewIsPrivate
<1>6. NewIsPrivate'
  BY <1>5 DEF NewIsPrivate
<1> QED
  BY <1>3, <1>4, <1>6
-----------------------------------------------------------------------------
(* The pooling thread *)

\* What a step of the pooling thread does to its unit, its batch and the threads.
PoolBatch == {batch, Append(batch, pool.unit.buf), <<pool.unit.buf>>}
LEMMA PoolLists ==
    ASSUME IInv, NEW pushing, PoolStep(pushing)
    PROVE  /\ queue' \subseteq queue /\ pool'.unit \in queue \union {pool.unit, NoUnit}
           /\ batch' \in PoolBatch \union {<<>>}
           /\ \/ UNCHANGED running
              \/ running # <<>> /\ running' = Tail(running)
              \/ \E xs \in PoolBatch : running' = Append(running, FlushBuffersWithThread(xs))
              \/ running' = Append(running, FlushBufferWithThread(pool.unit.buf))
<1>1. /\ pool \in [pc: {"top", "pop", "check", "lock", "begin", "join", "done"},
                   unit: Unit \union {NoUnit}]
      /\ queue # {} => root \in queue
  BY DEF IInv, TypeOK, PoolTypeOK, References, PoolReferences
<1>2. CASE PoolFinish \/ PoolIdle \/ PoolWait
  BY <1>1, <1>2 DEF PoolFinish, PoolIdle, PoolWait, StartFlush, Goto, PoolBatch
<1>3. CASE PoolFront \/ PoolPop(pushing) \/ PoolCheck
  BY <1>1, <1>3 DEF PoolFront, PoolPop, PopUnit, PoolCheck, Goto, GoTop, PoolBatch
<1>4. CASE PoolSingle
  BY <1>4 DEF PoolSingle, GoTop, PoolBatch
<1>5. CASE PoolExtend
  BY <1>5 DEF PoolExtend, StartFlush, GoTop, PoolBatch
<1>6. CASE PoolDrop \/ PoolSwitch \/ PoolBegin
  BY <1>1, <1>6 DEF PoolDrop, PoolSwitch, PoolBegin, StartFlush, Goto, GoTop, PoolBatch
<1>7. CASE PoolJoin
  BY <1>1, <1>7 DEF PoolJoin, Goto, PoolBatch, IInv, References, PoolReferences
<1> QED
  BY <1>2, <1>3, <1>4, <1>5, <1>6, <1>7 DEF PoolStep

\* The pooling thread comes to know no buffer it was not told of,
LEMMA PoolKnows ==
    ASSUME IInv, NEW pushing, PoolStep(pushing), NEW x \in Buffer, Known(x)'
    PROVE  Known(x)
<1>1. batch \in Seq(Buffer) /\ running \in Seq(FlushThread) /\ UNCHANGED solo
  BY PoolContents DEF IInv, TypeOK, PoolTypeOK, FlushTypeOK
<1>2. ASSUME NEW xs \in PoolBatch \union {<<>>}, NEW j \in 1 .. Len(xs), xs[j] = x
      PROVE  Known(x)
  <2>1. CASE xs = batch
    BY <1>2, <2>1 DEF Known
  <2>2. CASE xs = <<pool.unit.buf>>
    BY <1>2, <2>2 DEF Known
  <2>3. CASE xs = Append(batch, pool.unit.buf)
    <3>1. (j \in 1 .. Len(batch) /\ batch[j] = x) \/ pool.unit.buf = x
      BY <1>1, <1>2, <2>3
    <3> QED
      BY <3>1 DEF Known
  <2>4. CASE xs = <<>>
    BY <1>2, <2>4
  <2> QED
    BY <2>1, <2>2, <2>3, <2>4 DEF PoolBatch
<1>3. ASSUME NEW u \in queue' \union {pool'.unit}, u.buf = x
      PROVE  Known(x)
  <2>1. u \in queue \union {pool.unit, NoUnit} /\ NoUnit.buf = 0 /\ x # 0
    BY <1>3, PoolLists DEF NoUnit, Buffer
  <2> QED
    BY <1>3, <2>1 DEF Known
<1>4. ASSUME NEW i \in 1 .. Len(running'), NEW j \in 1 .. Len(running'[i].bufs),
             running'[i].bufs[j] = x
      PROVE  Known(x)
  <2>1. ASSUME NEW h \in 1 .. Len(running), running'[i] = running[h]
        PROVE  Known(x)
    BY <1>4, <2>1 DEF Known
  <2>2. CASE UNCHANGED running
    BY <2>1, <2>2
  <2>3. CASE running # <<>> /\ running' = Tail(running)
    <3>1. i + 1 \in 1 .. Len(running) /\ running'[i] = running[i + 1]
      BY <1>1, <2>3, RunningTail
    <3> QED
      BY <2>1, <3>1
  <2>4. ASSUME NEW t, running' = Append(running, t), t.bufs \in PoolBatch
        PROVE  Known(x)
    <3>1. (i \in 1 .. Len(running) /\ running'[i] = running[i]) \/ running'[i] = t
      BY <1>1, <2>4
    <3> QED
      BY <1>2, <1>4, <2>1, <2>4, <3>1
  <2>5. /\ \A xs : FlushBuffersWithThread(xs).bufs = xs
        /\ FlushBufferWithThread(pool.unit.buf).bufs \in PoolBatch
    BY DEF FlushBuffersWithThread, FlushBufferWithThread, PoolBatch
  <2> QED
    BY <2>2, <2>3, <2>4, <2>5, PoolLists
<1>5. \A j \in 1 .. Len(solo'.bufs) : solo'.bufs[j] = x => Known(x)
  BY <1>1 DEF Known
<1>6. \A j \in 1 .. Len(batch') : batch'[j] = x => Known(x)
  BY <1>2, PoolLists
<1> QED
  BY <1>3, <1>4, <1>5, <1>6 DEF Known

\* and starts threads that have still to take their locks.
LEMMA PoolKeepsThreads ==
    ASSUME IInv, NEW pushing, PoolStep(pushing)
    PROVE  ThreadsKept
<1>1. running \in Seq(FlushThread) /\ UNCHANGED solo
  BY PoolContents DEF IInv, TypeOK, FlushTypeOK
<1> SUFFICES ASSUME NEW i \in Flushers', NEW u, u = Flusher(i)', u.pc = "release"
             PROVE  \E h \in Flushers : u = Flusher(h)
  BY DEF ThreadsKept
<1>2. i = 0 \/ (i # 0 /\ i \in 1 .. Len(running') /\ u = running'[i])
  BY DEF Flushers, Flusher
<1>3. 0 \in Flushers /\ \A h \in 1 .. Len(running) : h \in Flushers /\ Flusher(h) = running[h]
  BY <1>1 DEF Flushers, Flusher
<1>4. CASE i = 0
  BY <1>1, <1>3, <1>4 DEF Flusher
<1>5. CASE i # 0
  <2>1. CASE UNCHANGED running
    BY <1>2, <1>3, <1>5, <2>1
  <2>2. CASE running # <<>> /\ running' = Tail(running)
    <3>1. i + 1 \in 1 .. Len(running) /\ running'[i] = running[i + 1]
      BY <1>1, <1>2, <1>5, <2>2, RunningTail
    <3> QED
      BY <1>2, <1>3, <1>5, <3>1
  <2>3. ASSUME NEW t, running' = Append(running, t), t.pc # "release"
        PROVE  \E h \in Flushers : u = Flusher(h)
    <3>1. (i \in 1 .. Len(running) /\ running'[i] = running[i]) \/ running'[i] = t
      BY <1>1, <1>2, <1>5, <2>3
    <3> QED
      BY <1>2, <1>3, <1>5, <2>3, <3>1
  <2>4. /\ \A xs : FlushBuffersWithThread(xs).pc # "release"
        /\ \A y : FlushBufferWithThread(y).pc # "release"
    BY DEF FlushBuffersWithThread, FlushBufferWithThread
  <2> QED
    BY <2>1, <2>2, <2>3, <2>4, PoolLists
<1> QED
  BY <1>4, <1>5

\* It marks no buffer and takes no mark away.
LEMMA PoolMarks ==
    ASSUME IInv, NEW pushing, PoolStep(pushing), NEW x \in Buffer
    PROVE  buf'[x].dirty = buf[x].dirty
<1> DEFINE y == pool.unit.buf
<1>1. buf \in [Buffer -> MemoryBuffer]
  BY Basics
<1>2. CASE UNCHANGED buf
  BY <1>2
<1>3. pool.pc \in {"lock", "begin"} => y \in Buffer
  BY DEF IInv, References, PoolReferences, Unit
<1>4. ASSUME y \in Buffer, NEW r, Assign(y, r), r.dirty = buf[y].dirty
      PROVE  buf'[x].dirty = buf[x].dirty
  BY <1>1, <1>4 DEF Assign
<1>5. ASSUME y \in Buffer, NEW l, Request(y, l)
      PROVE  buf'[x].dirty = buf[x].dirty
  <2>1. [buf[y] EXCEPT !.busy = TRUE, !.requests = @ + 1, !.lock = l].dirty = buf[y].dirty
    BY <1>1, <1>5 DEF MemoryBuffer
  <2> QED
    BY <1>4, <1>5, <2>1 DEF Request
<1>6. CASE PoolSingle
  BY <1>3, <1>5, <1>6 DEF PoolSingle
<1>7. CASE PoolExtend
  BY <1>3, <1>5, <1>7 DEF PoolExtend
<1>8. CASE PoolBegin
  BY <1>3, <1>5, <1>8 DEF PoolBegin
<1>9. CASE PoolSwitch
  <2>1. y \in Buffer /\ Assign(y, [buf[y] EXCEPT !.lock = @ - 1])
    BY <1>3, <1>9 DEF PoolSwitch
  <2>2. [buf[y] EXCEPT !.lock = @ - 1].dirty = buf[y].dirty
    BY <1>1, <2>1 DEF MemoryBuffer
  <2> QED
    BY <1>4, <2>1, <2>2
<1> QED
  BY <1>2, <1>6, <1>7, <1>8, <1>9
     DEF PoolStep, PoolFinish, PoolIdle, PoolFront, PoolPop, PoolCheck, PoolDrop,
         PoolWait, PoolJoin, memVars

\* The pooling thread preserves the invariant.
LEMMA PoolCopies ==
    ASSUME IInv, LockInv, CopiesAgree, [Next]_vars, ThePool
    PROVE  CopiesAgree'
<1>1. SameContents /\ UNCHANGED <<nbuf, disk, solo, map, main>>
  BY PoolContents DEF ThePool, appVars
<1>2. BlocksKept
  BY <1>1, Basics DEF BlocksKept, SameContents
<1>3. \A x \in 1 .. nbuf : buf'[x].dirty = buf[x].dirty
  BY PoolMarks, Basics DEF ThePool
<1>4. \A x \in Buffer : Known(x)' => Known(x)
  BY PoolKnows DEF ThePool
<1>5. ThreadsKept
  BY PoolKeepsThreads DEF ThePool
<1>6. OneCopy' /\ NewIsPrivate' /\ UnsyncedIsMarked'
  BY <1>1, <1>3, <1>4, QuietStep DEF Missing
<1>7. UnmarkedIsSynced'
  BY <1>1, <1>2, <1>5, ReleasedKept
<1>8. VictimLeaves'
  <2>1. main.pc \in Deleting => main.victim \in Buffer
    BY VictimCached
  <2>2. main.pc \in {"join", "free", "destroy"} =>
           /\ buf'[main.victim].data = buf[main.victim].data
           /\ buf'[main.victim].block = buf[main.victim].block
    BY <1>1, <2>1 DEF SameContents, Deleting, Evicting
  <2> QED
    BY <1>1, <2>2 DEF CopiesAgree, VictimLeaves, Synced, Live
<1>9. CallKnown'
  BY <1>1 DEF CopiesAgree, CallKnown
<1> QED
  BY <1>6, <1>7, <1>8, <1>9 DEF CopiesAgree
-----------------------------------------------------------------------------
(* The flush threads *)

\* The blocks of the buffers of a flush thread follow each other.
LEMMA ThreadConsecutive ==
    ASSUME IInv, LockInv, BatchesConsecutive, NEW i \in Flushers,
           NEW j \in 1 .. Len(Flusher(i).bufs)
    PROVE  buf[Flusher(i).bufs[j]].block = buf[Flusher(i).bufs[1]].block + j - 1
<1>1. i = 0 \/ i \in 1 .. Len(running)
  BY DEF Flushers, IInv, TypeOK, FlushTypeOK
<1>2. CASE i = 0
  <2>1. j = 1
    BY <1>2 DEF LockInv, Flusher
  <2>2. Flusher(i).bufs[1] \in Buffer
    BY <2>1, ThreadBuffers, Basics
  <2>3. buf[Flusher(i).bufs[1]].block \in Int
    BY <2>2, Basics DEF Block
  <2> QED
    BY <2>1, <2>3
<1>3. CASE i # 0
  BY <1>1, <1>3 DEF BatchesConsecutive, Consecutive, Flusher, IInv, TypeOK, FlushTypeOK
<1> QED
  BY <1>2, <1>3

\* What a flush thread writes to a block are the bytes of a buffer it knows.
DiskChange ==
    \A b \in Block :
        \/ disk'[b] = disk[b]
        \/ \E x \in 1 .. nbuf :
              Known(x) /\ Live(x) /\ buf[x].block = b /\ disk'[b] = buf[x].data

LEMMA FlushWrites ==
    ASSUME IInv, LockInv, BatchesConsecutive, NEW i \in Flushers, FlushStep(i)
    PROVE  DiskChange
<1> DEFINE t == Flusher(i)
           x == t.bufs[1]
<1>1. t \in FlushThread /\ ThreadInside(t)
  BY FlusherType, ElementOfSeq
     DEF IInv, TypeOK, References, FlushReferences, Flusher, Flushers, FlushTypeOK
<1>2. CASE UNCHANGED disk
  BY <1>2 DEF DiskChange
<1>3. CASE SingleSync(i) /\ ~UNCHANGED disk
  <2>1. t.pc = "sync" /\ ~Stale(x) /\ disk' = [disk EXCEPT ![buf[x].block] = buf[x].data]
    BY <1>3 DEF SingleSync
  <2>2. x \in 1 .. nbuf /\ Known(x)
    <3>1. 1 \in 1 .. Len(t.bufs)
      BY <1>1, <2>1 DEF ThreadInside
    <3> QED
      BY <3>1, ThreadBuffers
  <2>3. Live(x)
    BY <2>1, <2>2, Basics DEF Stale, IInv, References, AppReferences
  <2> QED
    BY <2>1, <2>2, <2>3, Basics DEF DiskChange
<1>4. CASE MultiWrite(i) /\ ~UNCHANGED disk
  <2> DEFINE first == buf[x].block
             At2(b) == t.bufs[b - first + 1]
  <2>1. /\ \A j \in DOMAIN t.bufs : Live(t.bufs[j])
        /\ \E ok \in WriteOutcomes :
             disk' = [b \in Block |-> IF ok /\ b - first + 1 \in DOMAIN t.bufs
                                      THEN buf[At2(b)].data ELSE disk[b]]
    BY <1>4 DEF MultiWrite
  <2>2. t.bufs \in Seq(Buffer) /\ DOMAIN t.bufs = 1 .. Len(t.bufs)
    BY <1>1 DEF FlushThread
  <2>3. ASSUME NEW b \in Block, disk'[b] # disk[b]
        PROVE  \E y \in 1 .. nbuf :
                  Known(y) /\ Live(y) /\ buf[y].block = b /\ disk'[b] = buf[y].data
    <3> DEFINE j == b - first + 1
    <3>1. j \in 1 .. Len(t.bufs) /\ disk'[b] = buf[t.bufs[j]].data
      BY <2>1, <2>2, <2>3
    <3>2. t.bufs[j] \in 1 .. nbuf /\ Known(t.bufs[j])
      BY <3>1, ThreadBuffers
    <3>3. Live(t.bufs[j])
      BY <2>1, <2>2, <3>1
    <3>4. buf[t.bufs[j]].block = first + j - 1
      BY <3>1, ThreadConsecutive
    <3>5. first \in Int /\ b \in Int
      <4>1. 1 \in 1 .. Len(t.bufs)
        BY <2>2, <3>1
      <4>2. x \in Buffer
        BY <4>1, ThreadBuffers, Basics
      <4> QED
        BY <4>2, Basics DEF Block
    <3>6. buf[t.bufs[j]].block = b
      <4> HIDE DEF t
      <4> QED
        BY <3>4, <3>5
    <3> HIDE DEF j, t
    <3> QED
      BY <3>1, <3>2, <3>3, <3>6
  <2> QED
    BY <2>3 DEF DiskChange
<1> QED
  BY <1>2, <1>3, <1>4 DEF FlushStep, SingleCheck, SingleSync, MultiLock, MultiWrite,
     MultiRelease

\* It unsyncs nothing,
LEMMA SyncKept ==
    ASSUME IInv, CopiesAgree, SameContents, DiskChange, NEW y \in 1 .. nbuf,
           Live(y), Synced(y)
    PROVE  Synced(y)'
<1>1. y \in Buffer /\ buf'[y].data = buf[y].data /\ buf'[y].block = buf[y].block
      /\ buf[y].block \in Block
  BY Basics DEF SameContents
<1>2. CASE disk'[buf[y].block] = disk[buf[y].block]
  BY <1>1, <1>2 DEF Synced
<1>3. ASSUME NEW x \in 1 .. nbuf, Live(x), buf[x].block = buf[y].block,
             disk'[buf[y].block] = buf[x].data
      PROVE  Synced(y)'
  <2>1. x = y
    BY <1>3, Unique
  <2> QED
    BY <1>1, <1>3, <2>1 DEF Synced
<1> QED
  BY <1>1, <1>2, <1>3 DEF DiskChange

\* shows no buffer to anybody else,
LEMMA FlushKnows ==
    ASSUME IInv, NEW i \in Flushers, FlushStep(i), UNCHANGED poolVars, NEW x, Known(x)'
    PROVE  Known(x)
<1>1. CASE UNCHANGED <<running, solo>>
  BY <1>1 DEF Known, poolVars
<1>2. ASSUME NEW u \in FlushThread, Advance(i, u), u.bufs = Flusher(i).bufs
      PROVE  Known(x)
  <2>1. /\ Len(running') = Len(running)
        /\ solo' = IF i = 0 THEN u ELSE solo
        /\ \A j \in 1 .. Len(running) : running'[j] = IF j = i THEN u ELSE running[j]
    BY <1>2, AdvanceType DEF IInv, TypeOK
  <2>2. \A j \in 1 .. Len(running) : running'[j].bufs = running[j].bufs
    <3>1. TAKE j \in 1 .. Len(running)
    <3>2. j # 0
      OBVIOUS
    <3> QED
      BY <1>2, <2>1, <3>2 DEF Flusher
  <2>3. solo'.bufs = solo.bufs
    BY <1>2, <2>1 DEF Flusher
  <2> QED
    BY <2>1, <2>2, <2>3 DEF Known, poolVars
<1> QED
  BY <1>1, <1>2, FlushKeepsBufs

\* Only one thread changes.
LEMMA OneAdvances ==
    ASSUME IInv, NEW i \in Flushers, NEW t \in FlushThread, Advance(i, t)
    PROVE  /\ Flushers' = Flushers
           /\ Flusher(i)' = t
           /\ \A h \in Flushers : h # i => Flusher(h)' = Flusher(h)
<1>1. /\ Len(running') = Len(running)
      /\ solo' = IF i = 0 THEN t ELSE solo
      /\ \A j \in 1 .. Len(running) : running'[j] = IF j = i THEN t ELSE running[j]
  BY AdvanceType DEF IInv, TypeOK
<1>2. \A h \in Flushers : h = 0 \/ (h # 0 /\ h \in 1 .. Len(running))
  BY DEF Flushers, IInv, TypeOK, FlushTypeOK
<1>3. Flusher(i)' = t
  BY <1>1, <1>2 DEF Flusher
<1>4. ASSUME NEW h \in Flushers, h # i
      PROVE  Flusher(h)' = Flusher(h)
  BY <1>1, <1>2, <1>4 DEF Flusher
<1> QED
  BY <1>1, <1>3, <1>4 DEF Flushers

\* and takes the mark away from a buffer only when it is synced.
LEMMA FlushMarks ==
    ASSUME IInv, LockInv, CopiesAgree, NEW i \in Flushers, FlushStep(i), SameContents,
           NEW y \in 1 .. nbuf, Live(y)
    PROVE  buf'[y].dirty = buf[y].dirty \/ Synced(y)'
<1> DEFINE t == Flusher(i)
<1>1. t \in FlushThread /\ ThreadInside(t) /\ t.k \in Nat
  BY FlusherType, ElementOfSeq
     DEF IInv, TypeOK, References, FlushReferences, Flusher, Flushers, FlushTypeOK, FlushThread
<1>2. /\ y \in Buffer /\ buf'[y].data = buf[y].data /\ buf'[y].block = buf[y].block
      /\ buf[y].block \in Block /\ disk \in [Block -> Data]
  BY Basics DEF SameContents
<1>3. ASSUME NEW x \in Buffer, NEW r, Assign(x, r), r.dirty = buf[x].dirty
      PROVE  buf'[y].dirty = buf[y].dirty
  BY <1>2, <1>3, Basics DEF Assign
<1>4. CASE UNCHANGED buf
  BY <1>4
<1>5. CASE SingleCheck(i) /\ ~UNCHANGED buf
  <2> DEFINE x == t.bufs[1]
             n == IF MmapRW THEN buf[x].requests ELSE buf[x].requests - 1
  <2>1. t.pc = "check" /\ Assign(x, [buf[x] EXCEPT !.busy = FALSE, !.requests = n])
    BY <1>5 DEF SingleCheck
  <2>2. x \in Buffer
    BY <1>1, <2>1, ThreadBuffers, Basics DEF ThreadInside
  <2>3. [buf[x] EXCEPT !.busy = FALSE, !.requests = n].dirty = buf[x].dirty
    BY <2>2, Basics DEF MemoryBuffer
  <2> QED
    BY <1>3, <2>1, <2>2, <2>3
<1>6. CASE SingleSync(i)
  <2> DEFINE x == t.bufs[1]
  <2>1. t.pc = "sync"
    BY <1>6 DEF SingleSync
  <2>2. x \in Buffer
    BY <1>1, <2>1, ThreadBuffers, Basics DEF ThreadInside
  <2>3. CASE Stale(x)
    <3> DEFINE n == IF MmapRW THEN buf[x].requests ELSE Claimed(buf[x].requests)
    <3>1. Assign(x, [buf[x] EXCEPT !.busy = FALSE, !.requests = n])
      BY <1>6, <2>3 DEF SingleSync
    <3>2. [buf[x] EXCEPT !.busy = FALSE, !.requests = n].dirty = buf[x].dirty
      BY <2>2, Basics DEF MemoryBuffer
    <3> HIDE DEF n, x
    <3> QED
      BY <1>3, <2>2, <3>1, <3>2
  <2>4. CASE ~Stale(x)
    <3>1. PICK ok \in WriteOutcomes :
             /\ Assign(x, [buf[x] EXCEPT !.busy = FALSE, !.dirty = DirtyAfter(ok),
                                         !.requests = Claimed(@)])
             /\ disk' = IF ok THEN [disk EXCEPT ![buf[x].block] = buf[x].data] ELSE disk
      BY <1>6, <2>4 DEF SingleSync
    <3> DEFINE r == [buf[x] EXCEPT !.busy = FALSE, !.dirty = DirtyAfter(ok),
                                   !.requests = Claimed(@)]
    <3>2. r.dirty = ~ok
      BY <2>2, Basics DEF MemoryBuffer, DirtyAfter
    <3>3. buf[x].dirty = TRUE
      BY <2>2, <2>4, Basics DEF Stale, MemoryBuffer
    <3>4. CASE ok /\ x = y
      BY <1>2, <3>1, <3>4 DEF Synced
    <3>5. CASE ~ok /\ x = y
      <4>1. r.dirty = buf[x].dirty
        BY <3>2, <3>3, <3>5
      <4> QED
        BY <1>3, <2>2, <3>1, <4>1
    <3>6. CASE x # y
      BY <1>2, <3>1, <3>6, Basics DEF Assign
    <3> QED
      BY <3>4, <3>5, <3>6
  <2> QED
    BY <2>3, <2>4
<1>7. CASE MultiLock(i)
  <2> DEFINE x == t.bufs[t.k + 1]
  <2>1. t.pc = "lock" /\ Assign(x, Acquired(x))
    BY <1>7 DEF MultiLock
  <2>2. t.k + 1 \in 1 .. Len(t.bufs)
    BY <1>1, <2>1 DEF ThreadInside, FlushThread
  <2>3. x \in Buffer
    BY <2>2, ThreadBuffers, Basics
  <2>4. Acquired(x).dirty = buf[x].dirty
    BY <2>3, Basics DEF Acquired, MemoryBuffer
  <2> QED
    BY <1>3, <2>1, <2>3, <2>4
<1>8. CASE MultiRelease(i)
  <2> DEFINE x == t.bufs[t.k + 1]
             r == [buf[x] EXCEPT !.dirty = @ /\ DirtyAfter(t.ok), !.busy = FALSE, !.lock = @ + 1]
  <2>1. t.pc = "release" /\ Assign(x, r) /\ UNCHANGED disk
    BY <1>8 DEF MultiRelease
  <2>2. t.k + 1 \in 1 .. Len(t.bufs) /\ t.k + 1 > t.k
    BY <1>1, <2>1 DEF ThreadInside, FlushThread
  <2>3. x \in Buffer /\ t.ok \in BOOLEAN
    BY <1>1, <2>2, ThreadBuffers, Basics DEF FlushThread
  <2>4. CASE t.ok /\ x = y
    <3>1. Synced(x)
      BY <2>1, <2>2, <2>4 DEF CopiesAgree, UnmarkedIsSynced
    <3> QED
      BY <1>2, <2>1, <2>4, <3>1 DEF Synced
  <2>5. CASE ~t.ok
    <3>1. DirtyAfter(t.ok) = TRUE /\ buf[x].dirty \in BOOLEAN
      BY <2>3, <2>5, Basics DEF DirtyAfter, MemoryBuffer
    <3>2. r.dirty = (buf[x].dirty /\ DirtyAfter(t.ok))
      BY <2>3, Basics DEF MemoryBuffer
    <3>3. r.dirty = buf[x].dirty
      BY <3>1, <3>2
    <3> QED
      BY <1>3, <2>1, <2>3, <3>3
  <2>6. CASE x # y
    BY <1>2, <2>1, <2>6, Basics DEF Assign
  <2> QED
    BY <2>4, <2>5, <2>6
<1>9. CASE MultiWrite(i)
  BY <1>4, <1>9 DEF MultiWrite
<1> QED
  BY <1>4, <1>5, <1>6, <1>7, <1>8, <1>9 DEF FlushStep

\* What it has just written, and what it wrote before, is synced.
LEMMA FlushReleased ==
    ASSUME IInv, LockInv, BatchesConsecutive, CopiesAgree, NEW i \in Flushers, FlushStep(i),
           SameContents, DiskChange
    PROVE  UnmarkedIsSynced'
<1> DEFINE t == Flusher(i)
<1>1. t \in FlushThread /\ ThreadInside(t) /\ t.k \in Nat
  BY FlusherType, ElementOfSeq
     DEF IInv, TypeOK, References, FlushReferences, Flusher, Flushers, FlushTypeOK, FlushThread
<1>2. \A y \in 1 .. nbuf : /\ y \in Buffer
                           /\ buf'[y].data = buf[y].data /\ buf'[y].block = buf[y].block
  BY Basics DEF SameContents
<1>3. ASSUME NEW h \in Flushers, NEW j \in 1 .. Len(Flusher(h).bufs),
             Flusher(h).pc = "release", Flusher(h).ok, j > Flusher(h).k,
             buf'[Flusher(h).bufs[j]].data # NULL
      PROVE  buf'[Flusher(h).bufs[j]].data = disk'[buf'[Flusher(h).bufs[j]].block]
  <2>1. PICK y \in 1 .. nbuf : y = Flusher(h).bufs[j]
    BY ThreadBuffers
  <2>2. Live(y)
    BY <1>2, <1>3, <2>1 DEF Live
  <2>3. Synced(y)
    BY <1>3, <2>1, <2>2 DEF CopiesAgree, UnmarkedIsSynced
  <2>4. Synced(y)'
    BY <2>1, <2>2, <2>3, SyncKept
  <2> QED
    BY <2>1, <2>4 DEF Synced
<1>4. ASSUME NEW u \in FlushThread, Advance(i, u), u.bufs = t.bufs,
             NEW j \in 1 .. Len(u.bufs), u.pc = "release", u.ok, j > u.k,
             buf'[u.bufs[j]].data # NULL
      PROVE  buf'[u.bufs[j]].data = disk'[buf'[u.bufs[j]].block]
  <2> DEFINE y == t.bufs[j]
  <2>1. y \in 1 .. nbuf /\ j \in 1 .. Len(t.bufs) /\ y = u.bufs[j]
    BY <1>4, ThreadBuffers
  <2>2. Live(y) /\ y \in Buffer
    BY <1>2, <1>4, <2>1 DEF Live
  <2>3. u = Flusher(i)'
    BY <1>4, OneAdvances
  <2>4. \A v \in FlushThread : Advance(i, v) => v = u
    BY <2>3, OneAdvances
  <2>5. CASE MultiRelease(i)
    <3> DEFINE pc == IF t.k + 1 = Len(t.bufs) THEN "done" ELSE "release"
               v == [t EXCEPT !.k = t.k + 1, !.pc = pc]
    <3>1. t.pc = "release" /\ Advance(i, v)
      BY <2>5 DEF MultiRelease
    <3>2. v \in FlushThread /\ v.k = t.k + 1 /\ v.ok = t.ok
      <4>1. t.k + 1 \in Nat
        BY <1>1
      <4> QED
        BY <1>1, <4>1 DEF FlushThread
    <3>3. v = u
      BY <2>4, <3>1, <3>2
    <3>4. j > t.k /\ t.ok
      <4>1. u.k = t.k + 1 /\ u.ok = t.ok
        BY <3>2, <3>3
      <4> HIDE DEF t, v
      <4> QED
        BY <1>1, <1>4, <4>1
    <3> QED
      BY <1>3, <1>4, <2>1, <3>1, <3>4
  <2>6. CASE MultiWrite(i)
    <3> DEFINE first == buf[t.bufs[1]].block
               At2(b) == t.bufs[b - first + 1]
    <3>1. PICK ok \in WriteOutcomes :
             /\ Advance(i, [t EXCEPT !.pc = "release", !.ok = ok])
             /\ disk' = [b \in Block |-> IF ok /\ b - first + 1 \in DOMAIN t.bufs
                                         THEN buf[At2(b)].data ELSE disk[b]]
      <4>1. Flusher(i)' # Flusher(i)
        BY <1>4, <2>3, <2>6 DEF MultiWrite
      <4>2. ~UNCHANGED <<running, solo>>
        BY <4>1 DEF Flusher
      <4> QED
        BY <2>6, <4>2 DEF MultiWrite
    <3>2. ok = TRUE
      <4> DEFINE v == [t EXCEPT !.pc = "release", !.ok = ok]
      <4>1. v \in FlushThread /\ v.ok = ok
        BY <1>1 DEF FlushThread, WriteOutcomes
      <4>2. v = u
        BY <2>4, <3>1, <4>1
      <4>3. u.ok = ok /\ ok \in BOOLEAN
        BY <4>1, <4>2 DEF WriteOutcomes
      <4> QED
        BY <1>4, <4>3
    <3>3. buf[y].block = first + j - 1 /\ buf[y].block \in Block
      BY <2>1, <2>2, ThreadConsecutive, Basics
    <3>4. first \in Int /\ t.bufs \in Seq(Buffer)
      <4>1. t.bufs \in Seq(Buffer) /\ 1 \in 1 .. Len(t.bufs)
        BY <1>1, <2>1 DEF FlushThread
      <4>2. t.bufs[1] \in Buffer
        BY <4>1, ThreadBuffers, Basics
      <4> QED
        BY <4>1, <4>2, Basics DEF Block
    <3>5. buf[y].block - first + 1 = j /\ j \in DOMAIN t.bufs
      <4>1. j \in DOMAIN t.bufs
        BY <2>1, <3>4
      <4> HIDE DEF first, t, y
      <4> QED
        BY <2>1, <3>3, <3>4, <4>1
    <3>6. disk'[buf[y].block] = buf[y].data
      <4> HIDE DEF first, t
      <4> QED
        BY <3>1, <3>2, <3>3, <3>5
    <3> QED
      BY <1>2, <2>1, <3>6
  <2>7. CASE SingleCheck(i) \/ SingleSync(i) \/ MultiLock(i)
    <3>1. ASSUME NEW v \in FlushThread, Advance(i, v), v.pc # "release"
          PROVE  FALSE
      BY <1>4, <2>4, <3>1
    <3>2. ASSUME NEW pc \in {"sync", "done"}
          PROVE  [t EXCEPT !.pc = pc] \in FlushThread /\ [t EXCEPT !.pc = pc].pc = pc
      BY <1>1 DEF FlushThread
    <3>3. ASSUME NEW ok \in WriteOutcomes
          PROVE  /\ [t EXCEPT !.pc = "done", !.ok = ok] \in FlushThread
                 /\ [t EXCEPT !.pc = "done", !.ok = ok].pc = "done"
      BY <1>1, <3>3 DEF FlushThread, WriteOutcomes
    <3>4. CASE SingleCheck(i)
      BY <3>1, <3>2, <3>4 DEF SingleCheck
    <3>5. CASE SingleSync(i)
      BY <3>1, <3>2, <3>3, <3>5 DEF SingleSync
    <3>6. CASE MultiLock(i)
      <4> DEFINE n == t.k + 1
                 k == IF n = Len(t.bufs) THEN 0 ELSE n
                 pc == IF n = Len(t.bufs) THEN "write" ELSE "lock"
                 v == [t EXCEPT !.k = k, !.pc = pc]
      <4>1. Advance(i, v)
        BY <3>6 DEF MultiLock
      <4>2. k \in Nat /\ pc \in {"lock", "write"}
        BY <1>1
      <4>3. v \in FlushThread /\ v.pc = pc
        <5> HIDE DEF t, k, pc
        <5> QED
          BY <1>1, <4>2 DEF FlushThread
      <4> HIDE DEF v
      <4> QED
        BY <3>1, <4>1, <4>2, <4>3
    <3> QED
      BY <2>7, <3>4, <3>5, <3>6
  <2> QED
    BY <2>5, <2>6, <2>7 DEF FlushStep
<1> SUFFICES ASSUME NEW h \in Flushers', NEW u, u = Flusher(h)', NEW j \in 1 .. Len(u.bufs),
                    u.pc = "release", u.ok, j > u.k, buf'[u.bufs[j]].data # NULL
             PROVE  buf'[u.bufs[j]].data = disk'[buf'[u.bufs[j]].block]
  BY DEF UnmarkedIsSynced, Live, Synced
<1>5. CASE UNCHANGED <<running, solo>>
  <2>1. h \in Flushers /\ u = Flusher(h)
    BY <1>5 DEF Flushers, Flusher
  <2> QED
    BY <1>3, <2>1
<1>6. ASSUME NEW v \in FlushThread, Advance(i, v), v.bufs = t.bufs
      PROVE  buf'[u.bufs[j]].data = disk'[buf'[u.bufs[j]].block]
  <2>1. h \in Flushers
    BY <1>6, OneAdvances
  <2>2. CASE h = i
    <3>1. u = v
      BY <1>6, <2>2, OneAdvances
    <3> QED
      BY <1>4, <1>6, <3>1
  <2>3. CASE h # i
    <3>1. u = Flusher(h)
      BY <1>6, <2>1, <2>3, OneAdvances
    <3> QED
      BY <1>3, <2>1, <3>1
  <2> QED
    BY <2>2, <2>3
<1> QED
  BY <1>5, <1>6, FlushKeepsBufs

\* An eviction goes on only when the thread it started has synced its victim.
LEMMA VictimFlushed ==
    ASSUME SafeBuild, IInv, LockInv, CopiesAgree, NEW i \in Flushers, FlushStep(i),
           SameContents, DiskChange, main.pc = "join", UNCHANGED main
    PROVE  /\ solo'.bufs = <<main.victim>>
           /\ solo'.pc \in {"check", "sync", "done"}
           /\ solo'.pc = "done" => Synced(main.victim)'
<1>1. PICK x \in 1 .. nbuf : x = main.victim
  BY VictimCached DEF Deleting, Evicting
<1>2. /\ x \in Buffer /\ Live(x)
      /\ buf'[x].data = buf[x].data /\ buf'[x].block = buf[x].block
      /\ buf[x].block \in Block /\ disk \in [Block -> Data]
  <2>1. x \in Buffer /\ map[buf[x].block] = x /\ buf[x].block \in Block /\ x # NoBuffer
    BY <1>1, Basics DEF IInv, References, AppReferences, Deleting, Evicting
  <2>2. buf[x].block \in Cached
    BY <2>1 DEF Cached
  <2>3. Live(x)
    BY <2>1, <2>2 DEF IInv, References, AppReferences
  <2> QED
    BY <2>1, <2>3, Basics DEF SameContents
<1>3. /\ solo.bufs = <<x>> /\ solo.pc \in {"check", "sync", "done"}
      /\ solo.pc = "done" => Synced(x)
      /\ MmapRW = TRUE
  BY <1>1, FlushThreadAssumption DEF CopiesAgree, VictimLeaves, SafeBuild
<1>4. solo \in FlushThread
  BY DEF IInv, TypeOK, FlushTypeOK
<1>5. Synced(x) => Synced(x)'
  BY <1>2, SyncKept
<1> SUFFICES /\ solo'.bufs = <<x>> /\ solo'.pc \in {"check", "sync", "done"}
             /\ solo'.pc = "done" => Synced(x)'
  BY <1>1 DEF Synced
<1>6. CASE UNCHANGED solo
  BY <1>3, <1>5, <1>6
<1>7. CASE i # 0
  BY <1>6, <1>7, FlushKeepsBufs DEF Advance
<1>8. CASE i = 0 /\ SingleCheck(i)
  <2>1. buf[x].valid /\ Flusher(i) = solo /\ solo.bufs[1] = x
    BY <1>2, <1>3, <1>8 DEF LockInv, Flusher
  <2>2. solo' = [solo EXCEPT !.pc = "sync"]
    BY <1>8, <2>1 DEF SingleCheck, Advance
  <2>3. solo'.pc = "sync" /\ solo'.bufs = solo.bufs
    BY <1>4, <2>2 DEF FlushThread
  <2> QED
    BY <1>3, <2>3
<1>9. CASE i = 0 /\ SingleSync(i)
  <2>1. buf[x].valid /\ Flusher(i) = solo /\ solo.bufs[1] = x
    BY <1>2, <1>3, <1>9 DEF LockInv, Flusher
  <2>2. CASE Stale(x)
    <3>1. solo' = [solo EXCEPT !.pc = "done"]
      BY <1>9, <2>1, <2>2 DEF SingleSync, Advance
    <3>2. solo'.pc = "done" /\ solo'.bufs = solo.bufs
      BY <1>4, <3>1 DEF FlushThread
    <3>3. Synced(x)
      BY <1>2, <2>1, <2>2 DEF Stale, CopiesAgree, UnsyncedIsMarked
    <3> QED
      BY <1>3, <1>5, <3>2, <3>3
  <2>3. CASE ~Stale(x)
    <3>1. /\ solo' = [solo EXCEPT !.pc = "done", !.ok = TRUE]
          /\ disk' = [disk EXCEPT ![buf[x].block] = buf[x].data]
      BY <1>3, <1>9, <2>1, <2>3 DEF SingleSync, Advance, WriteOutcomes
    <3>2. solo'.pc = "done" /\ solo'.bufs = solo.bufs
      BY <1>4, <3>1 DEF FlushThread
    <3>3. Synced(x)'
      BY <1>2, <3>1 DEF Synced
    <3> QED
      BY <1>3, <3>2, <3>3
  <2> QED
    BY <2>2, <2>3
<1>10. CASE i = 0 /\ (MultiLock(i) \/ MultiWrite(i) \/ MultiRelease(i))
  BY <1>3, <1>10 DEF MultiLock, MultiWrite, MultiRelease, Flusher
<1> QED
  BY <1>7, <1>8, <1>9, <1>10 DEF FlushStep

\* A flush thread preserves the invariant.
LEMMA FlushCopies ==
    ASSUME SafeBuild, IInv, LockInv, BatchesConsecutive, CopiesAgree,
           NEW i \in Flushers, TheFlusher(i)
    PROVE  CopiesAgree'
<1>1. FlushStep(i) /\ SameContents /\ UNCHANGED <<nbuf, poolVars, map, main>>
  BY FlushKeepsThreads DEF TheFlusher, appVars
<1>2. DiskChange
  BY <1>1, FlushWrites
<1>3. \A y \in 1 .. nbuf : /\ y \in Buffer
                           /\ buf'[y].data = buf[y].data /\ buf'[y].block = buf[y].block
  BY <1>1, Basics DEF SameContents
<1>4. OneCopy'
  BY <1>1, <1>3 DEF CopiesAgree, OneCopy, Live, Missing
<1>5. NewIsPrivate'
  <2> SUFFICES ASSUME Missing
               PROVE  /\ ~Known(main.buf)'
                      /\ buf'[main.buf].data = main.data
                      /\ main.op = "read" => main.data = disk'[main.block]
    BY <1>1 DEF NewIsPrivate, Missing
  <2>1. PICK y \in 1 .. nbuf : y = main.buf
    BY DEF IInv, References, AppReferences, Missing
  <2>2. ~Known(y) /\ buf[y].data = main.data /\ (main.op = "read" => main.data = disk[main.block])
    BY <2>1 DEF CopiesAgree, NewIsPrivate
  <2>3. ~Known(y)'
    BY <1>1, <2>2, FlushKnows
  <2>4. ~Known(main.buf)'
    BY <1>1, <2>1, <2>3 DEF Known
  <2>5. disk'[main.block] = disk[main.block]
    <3>1. ASSUME NEW x \in 1 .. nbuf, Known(x), Live(x), buf[x].block = main.block
          PROVE  FALSE
      <4>1. x # y /\ x # NoBuffer
        BY <2>2, <3>1, Basics
      <4> QED
        BY <2>1, <3>1, <4>1 DEF CopiesAgree, OneCopy
    <3>2. main.block \in Block
      BY MainType
    <3> QED
      BY <1>2, <3>1, <3>2 DEF DiskChange
  <2> QED
    BY <1>3, <2>1, <2>2, <2>4, <2>5
<1>6. UnsyncedIsMarked'
  <2> SUFFICES ASSUME NEW y \in 1 .. nbuf, Live(y)'
               PROVE  Synced(y)' \/ buf'[y].dirty \/ (main.pc = "wdone" /\ main.buf = y)
    BY <1>1 DEF UnsyncedIsMarked
  <2>1. Live(y)
    BY <1>3 DEF Live
  <2>2. buf'[y].dirty = buf[y].dirty \/ Synced(y)'
    BY <1>1, <2>1, FlushMarks
  <2>3. Synced(y) => Synced(y)'
    BY <1>1, <1>2, <2>1, SyncKept
  <2> QED
    BY <2>1, <2>2, <2>3 DEF CopiesAgree, UnsyncedIsMarked
<1>7. UnmarkedIsSynced'
  BY <1>1, <1>2, FlushReleased
<1>8. VictimLeaves'
  <2>1. main.pc = "join" => /\ solo'.bufs = <<main.victim>>
                            /\ solo'.pc \in {"check", "sync", "done"}
                            /\ solo'.pc = "done" => Synced(main.victim)'
    BY <1>1, <1>2, VictimFlushed
  <2>2. ASSUME main.pc = "free"
        PROVE  Synced(main.victim)'
    <3>1. PICK x \in 1 .. nbuf : x = main.victim
      BY <2>2, VictimCached DEF Deleting, Evicting
    <3>2. x \in Buffer /\ map[buf[x].block] = x /\ buf[x].block \in Block /\ x # NoBuffer
      BY <2>2, <3>1, Basics DEF IInv, References, AppReferences, Deleting, Evicting
    <3>3. Live(x)
      BY <2>2, <3>2 DEF Cached, IInv, References, AppReferences
    <3>4. Synced(x)
      BY <2>2, <3>1 DEF CopiesAgree, VictimLeaves
    <3>5. Synced(x)'
      BY <1>1, <1>2, <3>3, <3>4, SyncKept
    <3> QED
      BY <1>1, <3>1, <3>5 DEF Synced
  <2>3. main.pc = "destroy" => ~Live(main.victim)'
    <3>1. main.pc = "destroy" => main.victim \in Buffer
      BY VictimCached DEF Deleting, Evicting
    <3> QED
      BY <1>1, <3>1 DEF SameContents, CopiesAgree, VictimLeaves, Live
  <2> QED
    BY <1>1, <2>1, <2>2, <2>3 DEF CopiesAgree, VictimLeaves
<1>9. CallKnown'
  BY <1>1 DEF CopiesAgree, CallKnown
<1> QED
  BY <1>4, <1>5, <1>6, <1>7, <1>8, <1>9 DEF CopiesAgree
-----------------------------------------------------------------------------
(* The application's thread *)

\* It starts and joins threads, but none that gives back locks.
LEMMA AppKeepsThreads ==
    ASSUME IInv, AppCall \/ AppStep
    PROVE  ThreadsKept
<1>1. running \in Seq(FlushThread)
  BY DEF IInv, TypeOK, FlushTypeOK
<1>2. solo' = solo \/ solo'.pc # "release"
  <2>1. CASE Inspect
    BY <2>1 DEF Inspect, FlushBufferWithThread
  <2>2. CASE Join
    BY <2>2 DEF Join, NoThread
  <2> QED
    BY <2>1, <2>2 DEF AppCall, Close, OsRead, OsWrite, Begin, AppStep, ReadHit, WriteLock,
       WriteUnlock, Put, Push, FindVictim, WaitNotBusy, WaitNoRequests, Requeue, WaitClean,
       Free, Destroy, JoinPool, JoinAll
<1>3. UNCHANGED running \/ (running # <<>> /\ running' = Tail(running))
  BY AppKeepsLists DEF JoinAll
<1>4. 0 \in Flushers /\ \A h \in 1 .. Len(running) : h \in Flushers /\ Flusher(h) = running[h]
  BY <1>1 DEF Flushers, Flusher
<1> SUFFICES ASSUME NEW i \in Flushers', NEW u, u = Flusher(i)', u.pc = "release"
             PROVE  \E h \in Flushers : u = Flusher(h)
  BY DEF ThreadsKept
<1>5. i = 0 \/ (i # 0 /\ i \in 1 .. Len(running') /\ u = running'[i])
  BY DEF Flushers, Flusher
<1>6. CASE i = 0
  BY <1>2, <1>4, <1>6 DEF Flusher
<1>7. CASE i # 0 /\ UNCHANGED running
  BY <1>4, <1>5, <1>7
<1>8. CASE i # 0 /\ running # <<>> /\ running' = Tail(running)
  <2>1. i + 1 \in 1 .. Len(running) /\ running'[i] = running[i + 1]
    BY <1>1, <1>5, <1>8, RunningTail
  <2> QED
    BY <1>4, <1>5, <1>8, <2>1
<1> QED
  BY <1>3, <1>6, <1>7, <1>8

\* Nobody gets to know a buffer but by a work unit or by a thread of its own.
Shown(x) ==
    \/ main.pc = "push" /\ x = main.buf
    \/ main.pc \in {"inspect", "requeue"} /\ x = main.victim
LEMMA AppKnows ==
    ASSUME IInv, AppCall \/ AppStep, NEW x \in Buffer, Known(x)'
    PROVE  Known(x) \/ Shown(x)
<1>1. running \in Seq(FlushThread)
  BY DEF IInv, TypeOK, FlushTypeOK
<1>2. UNCHANGED <<pool, batch>>
  BY AppKeepsLists DEF AppCall, Close, OsRead, OsWrite, Begin, AppStep, ReadHit, WriteLock,
     WriteUnlock, Put, Push, FindVictim, WaitNotBusy, WaitNoRequests, Inspect, Requeue, Join,
     WaitClean, Free, Destroy, JoinPool, JoinAll, poolVars
<1>3. ASSUME NEW u \in queue', u.buf = x
      PROVE  Known(x) \/ Shown(x)
  <2>1. ASSUME NEW y, NEW p, AddQueue(y, p)
        PROVE  u \in queue \/ u.buf = y
    BY <2>1 DEF AddQueue
  <2>2. CASE Push
    BY <1>3, <2>1, <2>2 DEF Push, At, Known, Shown
  <2>3. CASE Requeue
    BY <1>3, <2>1, <2>3 DEF Requeue, At, Known, Shown
  <2>4. CASE UNCHANGED queue
    BY <1>3, <2>4 DEF Known
  <2>5. CASE JoinAll
    BY <1>3, <2>4, <2>5 DEF JoinAll
  <2> QED
    BY <2>2, <2>3, <2>4, <2>5 DEF AppCall, Close, OsRead, OsWrite, Begin, AppStep, ReadHit,
       WriteLock, WriteUnlock, Put, FindVictim, WaitNotBusy, WaitNoRequests, Inspect, Join,
       WaitClean, Free, Destroy, JoinPool, poolVars
<1>4. ASSUME NEW j \in 1 .. Len(solo'.bufs), solo'.bufs[j] = x
      PROVE  Known(x) \/ Shown(x)
  <2>1. CASE UNCHANGED solo
    BY <1>4, <2>1 DEF Known
  <2>2. CASE Inspect
    <3>1. solo' = solo \/ (solo' = FlushBufferWithThread(main.victim) /\ main.pc = "inspect")
      BY <2>2 DEF Inspect, At
    <3>2. CASE solo' = FlushBufferWithThread(main.victim) /\ main.pc = "inspect"
      <4>1. solo'.bufs = <<main.victim>>
        BY <3>2 DEF FlushBufferWithThread
      <4>2. x = main.victim
        BY <1>4, <4>1
      <4> QED
        BY <3>2, <4>2 DEF Shown
    <3> QED
      BY <2>1, <3>1, <3>2
  <2>3. CASE Join
    <3>1. solo'.bufs = <<>>
      BY <2>3 DEF Join, NoThread
    <3> QED
      BY <1>4, <3>1
  <2> QED
    BY <2>1, <2>2, <2>3 DEF AppCall, Close, OsRead, OsWrite, Begin, AppStep, ReadHit,
       WriteLock, WriteUnlock, Put, Push, FindVictim, WaitNotBusy, WaitNoRequests, Requeue,
       WaitClean, Free, Destroy, JoinPool, JoinAll
<1>5. ASSUME NEW i \in 1 .. Len(running'), NEW j \in 1 .. Len(running'[i].bufs),
             running'[i].bufs[j] = x
      PROVE  Known(x)
  <2>1. CASE UNCHANGED running
    BY <1>5, <2>1 DEF Known
  <2>2. CASE running # <<>> /\ running' = Tail(running)
    <3>1. i + 1 \in 1 .. Len(running) /\ running'[i] = running[i + 1]
      BY <1>1, <2>2, RunningTail
    <3> QED
      BY <1>5, <3>1 DEF Known
  <2> QED
    BY <2>1, <2>2, AppKeepsLists DEF JoinAll
<1> QED
  BY <1>2, <1>3, <1>4, <1>5 DEF Known

\* The disk is the flush threads' business.
LEMMA AppDisk ==
    ASSUME AppCall \/ AppStep
    PROVE  UNCHANGED disk
BY DEF AppCall, Close, OsRead, OsWrite, Begin, AppStep, ReadHit, WriteLock, WriteUnlock,
   Put, Push, FindVictim, WaitNotBusy, WaitNoRequests, Inspect, Requeue, Join, WaitClean, Free,
   Destroy, JoinPool, JoinAll, memVars

\* The steps of a call, of an eviction and of the end that move no bytes.
QuietApp ==
    \/ ReadHit \/ Push \/ Close \/ JoinPool \/ JoinAll
    \/ FindVictim \/ WaitNotBusy \/ WaitNoRequests \/ Inspect \/ Requeue \/ Join \/ WaitClean

LEMMA QuietFrame ==
    ASSUME IInv, QuietApp
    PROVE  /\ SameContents /\ UNCHANGED <<nbuf, disk, map>>
           /\ \A x \in 1 .. nbuf : buf'[x].dirty = buf[x].dirty
           /\ main'.buf = main.buf /\ main'.block = main.block
           /\ main'.data = main.data /\ main'.op = main.op
           /\ main'.pc \in {"idle", "put"} \union Evicting \union Closing
           /\ Missing' <=> Missing
           /\ main.pc # "wdone"
<1>1. UNCHANGED <<nbuf, disk, map>>
  BY DEF QuietApp, ReadHit, Push, Close, JoinPool, JoinAll, FindVictim, WaitNotBusy,
     WaitNoRequests, Inspect, Requeue, Join, WaitClean, memVars
<1>2. SameContents /\ \A x \in 1 .. nbuf : buf'[x].dirty = buf[x].dirty
  <2>1. CASE UNCHANGED buf
    BY <2>1, SameBuffers
  <2>2. ASSUME main.pc \in Deleting, NEW v \in BOOLEAN,
               Assign(main.victim, [buf[main.victim] EXCEPT !.busy = v])
        PROVE  SameContents /\ \A x \in 1 .. nbuf : buf'[x].dirty = buf[x].dirty
    <3> DEFINE y == main.victim
               r == [buf[y] EXCEPT !.busy = v]
    <3>1. y \in Buffer
      BY <2>2, VictimCached
    <3>2. /\ r \in MemoryBuffer /\ r.block = buf[y].block /\ r.data = buf[y].data
          /\ r.valid = buf[y].valid /\ r.dirty = buf[y].dirty
      BY <3>1, Basics DEF MemoryBuffer
    <3>3. Assign(y, r)
      BY <2>2
    <3> HIDE DEF y, r
    <3>4. SameContents
      BY <3>1, <3>2, <3>3, AssignHeader DEF IInv, TypeOK
    <3>5. \A x \in 1 .. nbuf : buf'[x].dirty = buf[x].dirty
      BY <3>1, <3>2, <3>3, Basics DEF Assign
    <3> QED
      BY <3>4, <3>5
  <2>3. CASE Inspect
    BY <2>1, <2>2, <2>3 DEF Inspect, At, Deleting, Evicting
  <2>4. CASE Join
    BY <2>2, <2>4 DEF Join, At, Deleting, Evicting
  <2> QED
    BY <2>1, <2>3, <2>4 DEF QuietApp, ReadHit, Push, Close, JoinPool, JoinAll, FindVictim,
       WaitNotBusy, WaitNoRequests, Requeue, WaitClean, memVars
<1> DEFINE Goes(pc) == /\ pc \in {"idle", "put"} \union Evicting \union Closing
                       /\ pc \in Evicting \union {"put"} <=> Missing
                       /\ main.pc # "wdone"
<1>3. \E pc, v : main' = [main EXCEPT !.pc = pc, !.victim = v] /\ Goes(pc)
  <2>1. ASSUME NEW pc, AppGoto(pc), Goes(pc)
        PROVE  <1>3
    <3>1. main' = [main EXCEPT !.pc = pc, !.victim = main.victim]
      BY <2>1, MainType DEF AppGoto
    <3> HIDE DEF Goes
    <3> QED
      BY <2>1, <3>1
  <2>2. CASE ReadHit \/ Push
    <3>1. AppGoto("idle") /\ Goes("idle")
      BY <2>2 DEF ReadHit, Push, At, Missing, Evicting
    <3> QED
      BY <2>1, <3>1
  <2>3. CASE Close
    <3>1. AppGoto("joinpool") /\ Goes("joinpool")
      BY <2>3 DEF Close, At, Missing, Evicting, Closing
    <3> QED
      BY <2>1, <3>1
  <2>4. CASE JoinPool
    <3>1. AppGoto("joinall") /\ Goes("joinall")
      BY <2>4 DEF JoinPool, At, Missing, Evicting, Closing
    <3> QED
      BY <2>1, <3>1
  <2>5. CASE JoinAll
    <3>1. Goes("joinall") /\ Goes("closed") /\ main.pc = "joinall"
      BY <2>5 DEF JoinAll, At, Missing, Evicting, Closing
    <3>2. UNCHANGED main => AppGoto("joinall")
      BY <3>1, MainType DEF AppGoto
    <3>3. AppGoto("joinall") \/ AppGoto("closed")
      BY <2>5, <3>2 DEF JoinAll
    <3> HIDE DEF Goes
    <3> QED
      BY <2>1, <3>1, <3>3
  <2>6. CASE FindVictim
    <3>1. Goes("put") /\ Goes("waitbusy")
      BY <2>6 DEF FindVictim, At, Missing, Evicting, Closing
    <3>2. CASE AppGoto("put")
      BY <2>1, <3>1, <3>2
    <3>3. CASE \E b \in Cached : main' = [main EXCEPT !.pc = "waitbusy", !.victim = map[b]]
      BY <3>1, <3>3
    <3> QED
      BY <2>6, <3>2, <3>3 DEF FindVictim
  <2>7. ASSUME NEW pc \in Evicting, AppGoto(pc), main.pc \in Evicting
        PROVE  <1>3
    <3>1. Goes(pc)
      BY <2>7 DEF Missing, Evicting
    <3> QED
      BY <2>1, <2>7, <3>1
  <2>8. CASE WaitNotBusy \/ WaitNoRequests \/ Inspect \/ Requeue \/ Join \/ WaitClean
    <3>1. main.pc \in Evicting
      BY <2>8 DEF WaitNotBusy, WaitNoRequests, Inspect, Requeue, Join, WaitClean, At, Evicting
    <3>2. \/ AppGoto("waitbusy") \/ AppGoto("waitrequests") \/ AppGoto("inspect")
          \/ AppGoto("join") \/ AppGoto("requeue") \/ AppGoto("waitclean") \/ AppGoto("free")
      BY <2>8 DEF WaitNotBusy, WaitNoRequests, Inspect, Requeue, Join, WaitClean
    <3> QED
      BY <2>7, <3>1, <3>2 DEF Evicting
  <2> QED
    BY <2>2, <2>3, <2>4, <2>5, <2>6, <2>8 DEF QuietApp
<1>4. PICK pc, v : main' = [main EXCEPT !.pc = pc, !.victim = v] /\ Goes(pc)
  BY <1>3
<1>5. /\ main'.pc = pc /\ main'.buf = main.buf /\ main'.block = main.block
      /\ main'.data = main.data /\ main'.op = main.op
  BY <1>4, MainType
<1> QED
  BY <1>1, <1>2, <1>4, <1>5 DEF Missing

\* A victim is freed only when it was clean or its thread has synced it.
LEMMA QuietVictim ==
    ASSUME IInv, CopiesAgree, QuietApp
    PROVE  VictimLeaves'
<1>1. /\ SameContents /\ UNCHANGED <<nbuf, disk, map>>
      /\ main'.pc \in {"idle", "put"} \union Evicting \union Closing
  BY QuietFrame
<1>2. ASSUME main.pc \in Deleting, main.pc # "destroy"
      PROVE  /\ main.victim \in 1 .. nbuf /\ main.victim \in Buffer /\ Live(main.victim)
             /\ Synced(main.victim) \/ buf[main.victim].dirty \/ main.pc = "wdone"
             /\ buf'[main.victim].data = buf[main.victim].data
             /\ buf'[main.victim].block = buf[main.victim].block
  <2>1. main.victim \in 1 .. nbuf /\ main.victim \in Buffer
    BY <1>2, VictimCached
  <2>2. /\ map[buf[main.victim].block] = main.victim
        /\ buf[main.victim].block \in Block /\ main.victim # NoBuffer
    BY <1>2, <2>1, Basics DEF IInv, References, AppReferences
  <2>3. Live(main.victim)
    BY <1>2, <2>2 DEF Cached, IInv, References, AppReferences
  <2> QED
    BY <1>1, <2>1, <2>3 DEF CopiesAgree, UnsyncedIsMarked, SameContents
<1>3. ASSUME NEW pc, AppGoto(pc)
      PROVE  main'.pc = pc /\ main'.victim = main.victim
  BY <1>3, MainType DEF AppGoto
<1>4. main.pc # "join" /\ main'.pc = "join" => Inspect
  <2>1. \A pc : AppGoto(pc) => main'.pc = pc
    BY <1>3
  <2>2. FindVictim => main'.pc # "join"
    <3>1. \A v : main' = [main EXCEPT !.pc = "waitbusy", !.victim = v] => main'.pc = "waitbusy"
      BY MainType
    <3> QED
      BY <2>1, <3>1 DEF FindVictim
  <2>3. UNCHANGED main => main'.pc = main.pc
    OBVIOUS
  <2> QED
    BY <2>1, <2>2, <2>3 DEF QuietApp, ReadHit, Push, Close, JoinPool, JoinAll,
       WaitNotBusy, WaitNoRequests, Requeue, Join, WaitClean
<1>5. main'.pc = "free" => Inspect \/ Join \/ WaitClean
  <2>1. \A pc : AppGoto(pc) => main'.pc = pc
    BY <1>3
  <2>2. FindVictim => main'.pc # "free"
    <3>1. \A v : main' = [main EXCEPT !.pc = "waitbusy", !.victim = v] => main'.pc = "waitbusy"
      BY MainType
    <3> QED
      BY <2>1, <3>1 DEF FindVictim
  <2>3. JoinAll => main'.pc # "free"
    BY <2>1 DEF JoinAll, At
  <2> QED
    BY <2>1, <2>2, <2>3 DEF QuietApp, ReadHit, Push, Close, JoinPool, WaitNotBusy,
       WaitNoRequests, Requeue
<1>6. main'.pc = "join" => main.pc # "join"
  <2>1. \A pc : AppGoto(pc) => main'.pc = pc
    BY <1>3
  <2>2. CASE main.pc = "join"
    <3>1. Join
      BY <2>2 DEF QuietApp, ReadHit, Push, Close, JoinPool, JoinAll, FindVictim,
         WaitNotBusy, WaitNoRequests, Inspect, Requeue, WaitClean, At
    <3> QED
      BY <2>1, <3>1 DEF Join
  <2> QED
    BY <2>2
<1>7. ASSUME main'.pc = "join"
      PROVE  /\ EvictionType = "single" /\ solo'.bufs = <<main'.victim>>
             /\ solo'.pc = "check"
  <2>1. Inspect
    BY <1>4, <1>6, <1>7
  <2>2. /\ solo' = FlushBufferWithThread(main.victim) /\ EvictionType = "single"
        /\ AppGoto("join")
    <3>1. \A pc : AppGoto(pc) => pc = "join"
      BY <1>3, <1>7
    <3> QED
      BY <2>1, <3>1 DEF Inspect
  <2> QED
    BY <1>3, <2>2 DEF FlushBufferWithThread
<1>8. ASSUME main'.pc = "free"
      PROVE  buf'[main'.victim].data = disk'[buf'[main'.victim].block]
  <2>1. \A pc : AppGoto(pc) => pc = "free"
    BY <1>3, <1>8
  <2>2. ASSUME AppGoto("free"), main.pc \in Deleting, main.pc # "destroy", Synced(main.victim)
        PROVE  <1>8!2
    BY <1>1, <1>2, <1>3, <2>2 DEF Synced
  <2>3. CASE Inspect
    <3>1. main.pc = "inspect" /\ ~buf[main.victim].dirty /\ AppGoto("free")
      BY <2>1, <2>3 DEF Inspect, At
    <3> QED
      BY <1>2, <2>2, <3>1 DEF Deleting, Evicting
  <2>4. CASE WaitClean
    <3>1. main.pc = "waitclean" /\ ~buf[main.victim].dirty /\ AppGoto("free")
      BY <2>4 DEF WaitClean, At
    <3> QED
      BY <1>2, <2>2, <3>1 DEF Deleting, Evicting
  <2>5. CASE Join
    <3>1. main.pc = "join" /\ solo.pc = "done" /\ AppGoto("free")
      BY <2>5 DEF Join, At, SoloEnded
    <3>2. Synced(main.victim)
      BY <3>1 DEF CopiesAgree, VictimLeaves
    <3> QED
      BY <2>2, <3>1, <3>2 DEF Deleting, Evicting
  <2> QED
    BY <1>5, <1>8, <2>3, <2>4, <2>5
<1>9. main'.pc # "destroy"
  <2>1. \A pc : AppGoto(pc) => main'.pc = pc
    BY <1>3
  <2>2. FindVictim => main'.pc # "destroy"
    <3>1. \A v : main' = [main EXCEPT !.pc = "waitbusy", !.victim = v] => main'.pc = "waitbusy"
      BY MainType
    <3> QED
      BY <2>1, <3>1 DEF FindVictim
  <2>3. JoinAll => main'.pc # "destroy"
    BY <2>1 DEF JoinAll, At
  <2> QED
    BY <2>1, <2>2, <2>3 DEF QuietApp, ReadHit, Push, Close, JoinPool, WaitNotBusy,
       WaitNoRequests, Inspect, Requeue, Join, WaitClean
<1> QED
  BY <1>7, <1>8, <1>9 DEF VictimLeaves, Synced

LEMMA QuietCopies ==
    ASSUME IInv, LockInv, CopiesAgree, [Next]_vars, AppCall \/ AppStep, QuietApp
    PROVE  CopiesAgree'
<1>1. /\ SameContents /\ UNCHANGED <<nbuf, disk, map>>
      /\ \A x \in 1 .. nbuf : buf'[x].dirty = buf[x].dirty
      /\ main'.buf = main.buf /\ main'.block = main.block
      /\ main'.data = main.data /\ main'.op = main.op
      /\ main'.pc \in {"idle", "put"} \union Evicting \union Closing
      /\ Missing' <=> Missing
      /\ main.pc # "wdone"
  BY QuietFrame
<1>2. main'.pc \notin {"copy", "wlock", "wdone"}
  BY <1>1 DEF Evicting, Closing
<1>3. Missing => \A x \in Buffer : x = main.buf /\ Known(x)' => Known(x)
  <2>1. Missing => main.pc # "push"
    BY DEF Missing, Evicting
  <2>2. main.pc \in {"inspect", "requeue"} => main.victim # main.buf
    <3>1. main.pc \in {"inspect", "requeue"} => main.pc \in Deleting /\ main.pc \in Evicting
      BY DEF Deleting, Evicting
    <3>2. main.pc \in Deleting /\ main.pc \in Evicting =>
             buf[main.victim].block \in Block /\ map[buf[main.victim].block] = main.victim
      BY VictimCached, Basics DEF IInv, References, AppReferences
    <3> QED
      BY <3>1, <3>2 DEF IInv, References, AppReferences
  <2> QED
    BY <2>1, <2>2, AppKnows DEF Shown
<1>4. OneCopy' /\ NewIsPrivate' /\ UnsyncedIsMarked'
  BY <1>1, <1>2, <1>3, QuietStep
<1>5. UnmarkedIsSynced'
  BY <1>1, AppBlocks, AppKeepsThreads, ReleasedKept
<1>6. CallKnown'
  BY <1>2 DEF CallKnown
<1> QED
  BY <1>4, <1>5, <1>6, QuietVictim DEF CopiesAgree

\* A call that misses allocates a buffer nobody has heard of.
LEMMA BeginCopies ==
    ASSUME IInv, LockInv, CopiesAgree, [Next]_vars, AppCall \/ AppStep,
           NEW op \in {"read", "write"}, NEW b \in Block, NEW d \in Data,
           op = "read" => d = disk[b], Begin(op, b, d)
    PROVE  CopiesAgree'
<1>1. /\ main.pc = "idle" /\ main'.op = op /\ main'.block = b /\ main'.data = d
      /\ UNCHANGED <<disk, running, solo, poolVars, map>>
      /\ main'.buf = IF map[b] # NoBuffer THEN map[b] ELSE nbuf + 1
      /\ main'.pc = IF map[b] # NoBuffer THEN IF op = "read" THEN "copy" ELSE "wlock"
                    ELSE IF Full THEN "victim" ELSE "put"
  BY DEF Begin, At
<1>2. ~Missing /\ main.pc # "wdone"
  BY <1>1 DEF Missing, Evicting
<1>3. UnmarkedIsSynced'
  BY <1>1, AppBlocks, AppKeepsThreads, ReleasedKept
<1>4. main'.pc \in {"copy", "wlock", "victim", "put"}
  BY <1>1
<1>5. VictimLeaves'
  BY <1>4 DEF VictimLeaves
<1>6. CallKnown'
  <2>1. main'.pc = "copy" => op = "read"
    BY <1>1
  <2>2. main'.pc # "wdone" /\ (main'.pc = "wlock" => op = "write")
    BY <1>1
  <2> QED
    BY <1>1, <2>1, <2>2 DEF CallKnown
<1>7. CASE map[b] # NoBuffer
  <2>1. ~Missing' /\ UNCHANGED <<buf, nbuf>> /\ main'.pc # "wdone"
    BY <1>1, <1>7 DEF Missing, Evicting, Begin
  <2>2. OneCopy'
    BY <1>1, <1>2, <2>1 DEF CopiesAgree, OneCopy, Live
  <2>3. NewIsPrivate'
    BY <2>1 DEF NewIsPrivate
  <2>4. UnsyncedIsMarked'
    BY <1>1, <1>2, <2>1 DEF CopiesAgree, UnsyncedIsMarked, Live, Synced
  <2> QED
    BY <1>3, <1>5, <1>6, <2>2, <2>3, <2>4 DEF CopiesAgree
<1>8. CASE map[b] = NoBuffer
  <2> DEFINE y == nbuf + 1
             r == [block |-> b, data |-> d, valid |-> TRUE, dirty |-> op = "write",
                   busy |-> FALSE, requests |-> 0, lock |-> 1]
  <2>1. /\ nbuf < MaxBuffers /\ nbuf' = nbuf + 1 /\ buf' = [buf EXCEPT ![y] = r]
        /\ main'.buf = y /\ main'.pc \in {"victim", "put"}
    BY <1>1, <1>8 DEF Begin, CreateNewMemoryBuffer
  <2>2. /\ nbuf \in Nat /\ y \in Buffer /\ \A x \in 1 .. nbuf : x \in Buffer /\ x # y
        /\ \A x \in 1 .. nbuf' : x \in 1 .. nbuf \/ x = y
        /\ y # NoBuffer
    BY <2>1, Basics, MemoryBufferAssumption DEF Buffer
  <2>3. buf'[y] = r /\ \A x \in 1 .. nbuf : buf'[x] = buf[x]
    BY <2>1, <2>2, Basics
  <2>4. r.block = b /\ r.data = d /\ r.dirty = (op = "write")
    OBVIOUS
  <2> HIDE DEF r, y
  <2>5. Missing'
    BY <2>1 DEF Missing, Evicting
  <2>6. OneCopy'
    BY <1>1, <1>2, <1>8, <2>1, <2>2, <2>3, <2>5 DEF CopiesAgree, OneCopy, Live
  <2>7. ~Known(y)
    <3>1. \A u \in queue \union {pool.unit} : u.buf # y
      BY <2>2 DEF y, IInv, References, PoolReferences, TypeOK, PoolTypeOK, Unit, Buffer, NoUnit
    <3>2. \A j \in 1 .. Len(batch) : batch[j] # y
      BY <2>2 DEF y, IInv, References, PoolReferences
    <3>3. \A j \in 1 .. Len(solo.bufs) : solo.bufs[j] # y
      BY <2>2 DEF y, IInv, References, FlushReferences, ThreadInside
    <3>4. \A i \in 1 .. Len(running) : \A j \in 1 .. Len(running[i].bufs) : running[i].bufs[j] # y
      BY <2>2 DEF y, IInv, References, FlushReferences, ThreadInside
    <3> QED
      BY <3>1, <3>2, <3>3, <3>4 DEF Known
  <2>8. NewIsPrivate'
    <3>1. ~Known(main.buf)'
      BY <1>1, <2>1, <2>7 DEF Known, poolVars
    <3> QED
      BY <1>1, <2>1, <2>3, <2>4, <3>1 DEF NewIsPrivate
  <2>9. UnsyncedIsMarked'
    <3> SUFFICES ASSUME NEW x \in 1 .. nbuf', Live(x)'
                 PROVE  Synced(x)' \/ buf'[x].dirty
      BY DEF UnsyncedIsMarked
    <3>1. CASE x = y
      BY <1>1, <2>3, <2>4, <3>1 DEF Synced
    <3>2. CASE x \in 1 .. nbuf
      BY <1>1, <1>2, <2>3, <3>2 DEF CopiesAgree, UnsyncedIsMarked, Live, Synced
    <3> QED
      BY <2>2, <3>1, <3>2
  <2> QED
    BY <1>3, <1>5, <1>6, <2>6, <2>8, <2>9 DEF CopiesAgree
<1> QED
  BY <1>7, <1>8

\* os_write changes the one copy of its block and marks it before it lets go.
LEMMA WriteLockCopies ==
    ASSUME IInv, LockInv, CopiesAgree, [Next]_vars, WriteLock
    PROVE  CopiesAgree'
<1> DEFINE x == main.buf
           r == [buf[x] EXCEPT !.lock = IF buf[x].valid THEN @ - 1 ELSE 0,
                               !.busy = TRUE, !.data = main.data]
<1>1. /\ main.pc = "wlock" /\ Assign(x, r) /\ AppGoto("wdone")
      /\ UNCHANGED <<nbuf, disk, map>>
  BY DEF WriteLock, At
<1>2. /\ main'.pc = "wdone" /\ main'.buf = x /\ main'.op = main.op
  BY <1>1, MainType DEF AppGoto
<1>3. /\ main.block \in Cached /\ map[main.block] = x /\ buf[x].block = main.block
      /\ x \in Buffer
  BY <1>1, MainType DEF IInv, References, AppReferences, TypeOK, AppTypeOK, Cached
<1>4. /\ buf'[x].block = buf[x].block /\ buf'[x].dirty = buf[x].dirty
      /\ \A y \in 1 .. nbuf : y # x => buf'[y] = buf[y]
  <2>1. r.block = buf[x].block /\ r.dirty = buf[x].dirty
    BY <1>3, Basics DEF MemoryBuffer
  <2> HIDE DEF r
  <2> QED
    BY <1>1, <1>3, <2>1, Basics DEF Assign
<1>5. ~Missing /\ ~Missing' /\ main.pc # "wdone"
  BY <1>1, <1>2 DEF Missing, Evicting
<1>6. OneCopy'
  BY <1>1, <1>3, <1>4, <1>5 DEF CopiesAgree, OneCopy, Live
<1>7. NewIsPrivate'
  BY <1>5 DEF NewIsPrivate
<1>8. UnsyncedIsMarked'
  BY <1>1, <1>2, <1>4, <1>5 DEF CopiesAgree, UnsyncedIsMarked, Live, Synced
<1>9. UnmarkedIsSynced'
  BY <1>1, AppBlocks, AppKeepsThreads, ReleasedKept DEF AppStep
<1>10. VictimLeaves' /\ CallKnown'
  BY <1>1, <1>2 DEF CopiesAgree, VictimLeaves, CallKnown
<1> QED
  BY <1>6, <1>7, <1>8, <1>9, <1>10 DEF CopiesAgree

LEMMA WriteUnlockCopies ==
    ASSUME IInv, LockInv, CopiesAgree, [Next]_vars, WriteUnlock
    PROVE  CopiesAgree'
<1> DEFINE x == main.buf
           r == [buf[x] EXCEPT !.valid = TRUE, !.dirty = TRUE, !.busy = FALSE, !.lock = @ + 1]
<1>1. /\ main.pc = "wdone" /\ Assign(x, r) /\ AppGoto("push")
      /\ UNCHANGED <<nbuf, disk, map>>
  BY DEF WriteUnlock, At
<1>2. main'.pc = "push"
  BY <1>1, MainType DEF AppGoto
<1>3. x \in Buffer
  BY <1>1, MainType DEF IInv, References, AppReferences, TypeOK, AppTypeOK, Cached
<1>4. /\ buf'[x].block = buf[x].block /\ buf'[x].data = buf[x].data /\ buf'[x].dirty
      /\ \A y \in 1 .. nbuf : y # x => buf'[y] = buf[y]
  <2>1. r.block = buf[x].block /\ r.data = buf[x].data /\ r.dirty = TRUE
    BY <1>3, Basics DEF MemoryBuffer
  <2> HIDE DEF r
  <2> QED
    BY <1>1, <1>3, <2>1, Basics DEF Assign
<1>5. ~Missing /\ ~Missing'
  BY <1>1, <1>2 DEF Missing, Evicting
<1>6. OneCopy'
  BY <1>1, <1>4, <1>5 DEF CopiesAgree, OneCopy, Live
<1>7. NewIsPrivate'
  BY <1>5 DEF NewIsPrivate
<1>8. UnsyncedIsMarked'
  BY <1>1, <1>4 DEF CopiesAgree, UnsyncedIsMarked, Live, Synced
<1>9. UnmarkedIsSynced'
  BY <1>1, AppBlocks, AppKeepsThreads, ReleasedKept DEF AppStep
<1>10. VictimLeaves' /\ CallKnown'
  BY <1>2 DEF VictimLeaves, CallKnown
<1> QED
  BY <1>6, <1>7, <1>8, <1>9, <1>10 DEF CopiesAgree

\* The new buffer becomes the one the map has for its block.
LEMMA PutCopies ==
    ASSUME IInv, LockInv, CopiesAgree, [Next]_vars, Put
    PROVE  CopiesAgree'
<1>1. /\ main.pc = "put" /\ map' = [map EXCEPT ![main.block] = main.buf]
      /\ AppGoto("idle") \/ AppGoto("push")
      /\ UNCHANGED <<buf, nbuf, disk>>
  BY DEF Put, At, memVars
<1>2. main'.pc \in {"idle", "push"}
  BY <1>1, MainType DEF AppGoto
<1>3. Missing /\ ~Missing' /\ main.pc # "wdone"
  BY <1>1, <1>2 DEF Missing, Evicting
<1>4. /\ main.block \in Block /\ map[main.block] = NoBuffer
      /\ buf[main.buf].block = main.block
  BY <1>1, <1>3, MainType DEF CopiesAgree, OneCopy, IInv, References, AppReferences
<1>5. OneCopy'
  <2> SUFFICES ASSUME NEW y \in 1 .. nbuf, Live(y)
               PROVE  map'[buf[y].block] = y
    BY <1>1, <1>3 DEF OneCopy, Live
  <2>1. y \in Buffer /\ y # NoBuffer /\ map \in [Block -> Buffer \union {NoBuffer}]
        /\ buf[y].block \in Block
    BY Basics
  <2>2. map[buf[y].block] = y \/ main.buf = y
    BY DEF CopiesAgree, OneCopy
  <2> QED
    BY <1>1, <1>4, <2>1, <2>2
<1>6. NewIsPrivate'
  BY <1>3 DEF NewIsPrivate
<1>7. UnsyncedIsMarked'
  BY <1>1, <1>3 DEF CopiesAgree, UnsyncedIsMarked, Live, Synced
<1>8. UnmarkedIsSynced'
  BY <1>1, AppBlocks, AppKeepsThreads, ReleasedKept DEF AppStep
<1>9. VictimLeaves' /\ CallKnown'
  BY <1>2 DEF VictimLeaves, CallKnown
<1> QED
  BY <1>5, <1>6, <1>7, <1>8, <1>9 DEF CopiesAgree

\* What is freed is synced, and no copy of its block is left.
LEMMA FreeCopies ==
    ASSUME IInv, LockInv, CopiesAgree, [Next]_vars, Free
    PROVE  CopiesAgree'
<1> DEFINE x == main.victim
           r == [buf[x] EXCEPT !.valid = FALSE, !.data = NULL]
<1>1. /\ main.pc = "free" /\ Assign(x, r) /\ AppGoto("destroy")
      /\ UNCHANGED <<nbuf, disk, running, solo, poolVars, map>>
  BY DEF Free, At
<1>2. /\ main'.pc = "destroy" /\ main'.victim = x /\ main'.buf = main.buf
      /\ main'.block = main.block /\ main'.data = main.data /\ main'.op = main.op
  BY <1>1, MainType DEF AppGoto
<1>3. x \in Buffer /\ buf[x].block \in Block /\ map[buf[x].block] = x
  BY <1>1, VictimCached, Basics DEF IInv, References, AppReferences, Deleting, Evicting
<1>4. /\ buf'[x].block = buf[x].block /\ buf'[x].data = NULL
      /\ \A y \in 1 .. nbuf : y # x => buf'[y] = buf[y]
  <2>1. r.block = buf[x].block /\ r.data = NULL
    BY <1>3, Basics DEF MemoryBuffer
  <2> HIDE DEF r
  <2> QED
    BY <1>1, <1>3, <2>1, Basics DEF Assign
<1>5. Missing /\ Missing' /\ main.pc # "wdone"
  BY <1>1, <1>2 DEF Missing, Evicting
<1>6. \A y \in 1 .. nbuf : Live(y)' => Live(y) /\ y # x /\ buf'[y] = buf[y]
  BY <1>4 DEF Live
<1>7. OneCopy'
  BY <1>1, <1>2, <1>5, <1>6 DEF CopiesAgree, OneCopy
<1>8. NewIsPrivate'
  <2>1. main.buf \in 1 .. nbuf /\ main.buf # x
    BY <1>3, <1>5 DEF Missing, IInv, References, AppReferences
  <2>2. buf'[main.buf] = buf[main.buf]
    BY <1>4, <2>1
  <2>3. ~Known(main.buf)'
    BY <1>1, <1>2, <1>5 DEF Known, poolVars, CopiesAgree, NewIsPrivate
  <2> QED
    BY <1>1, <1>2, <1>5, <2>2, <2>3 DEF CopiesAgree, NewIsPrivate
<1>9. UnsyncedIsMarked'
  BY <1>1, <1>5, <1>6 DEF CopiesAgree, UnsyncedIsMarked, Synced
<1>10. UnmarkedIsSynced'
  BY <1>1, AppBlocks, AppKeepsThreads, ReleasedKept DEF AppStep
<1>11. VictimLeaves' /\ CallKnown'
  BY <1>2, <1>4 DEF VictimLeaves, CallKnown, Live
<1> QED
  BY <1>7, <1>8, <1>9, <1>10, <1>11 DEF CopiesAgree

LEMMA DestroyCopies ==
    ASSUME IInv, LockInv, CopiesAgree, [Next]_vars, Destroy
    PROVE  CopiesAgree'
<1> DEFINE x == main.victim
           r == [buf[x] EXCEPT !.lock = 0]
<1>1. /\ main.pc = "destroy" /\ Assign(x, r)
      /\ map' = [map EXCEPT ![buf[x].block] = NoBuffer]
      /\ main' = [main EXCEPT !.pc = "put", !.victim = NoBuffer]
      /\ UNCHANGED <<nbuf, disk, running, solo, poolVars>>
  BY DEF Destroy, At, ForgetBlock
<1>2. /\ main'.pc = "put" /\ main'.buf = main.buf
      /\ main'.block = main.block /\ main'.data = main.data /\ main'.op = main.op
  BY <1>1, MainType
<1>3. x \in Buffer /\ buf[x].block \in Block /\ map[buf[x].block] = x
  BY <1>1, VictimCached, Basics DEF IInv, References, AppReferences, Deleting, Evicting
<1>4. \A y \in Buffer : /\ buf'[y].block = buf[y].block /\ buf'[y].data = buf[y].data
                        /\ buf'[y].dirty = buf[y].dirty
  <2>1. r.block = buf[x].block /\ r.data = buf[x].data /\ r.dirty = buf[x].dirty
    BY <1>3, Basics DEF MemoryBuffer
  <2> HIDE DEF r
  <2> QED
    BY <1>1, <1>3, <2>1, Basics DEF Assign
<1>5. Missing /\ Missing' /\ main.pc # "wdone"
  BY <1>1, <1>2 DEF Missing, Evicting
<1>6. ~Live(x) /\ 1 .. nbuf \subseteq Buffer
  BY <1>1, Basics DEF CopiesAgree, VictimLeaves
<1>7. OneCopy'
  <2>1. ASSUME NEW y \in 1 .. nbuf, Live(y), main.buf # y
        PROVE  map'[buf[y].block] = y
    <3>1. map[buf[y].block] = y /\ y # x
      BY <1>6, <2>1 DEF CopiesAgree, OneCopy
    <3>2. buf[y].block # buf[x].block /\ buf[y].block \in Block
      BY <1>3, <3>1, Basics
    <3> QED
      BY <1>1, <3>1, <3>2, Basics
  <2>2. map'[main.block] = NoBuffer
    BY <1>1, <1>5, MainType, Basics DEF CopiesAgree, OneCopy
  <2> QED
    BY <1>1, <1>2, <1>4, <1>5, <1>6, <2>1, <2>2 DEF OneCopy, Live
<1>8. NewIsPrivate'
  <2>1. main.buf \in Buffer
    BY <1>5, <1>6 DEF Missing, IInv, References, AppReferences
  <2>2. ~Known(main.buf)'
    BY <1>1, <1>2, <1>5 DEF Known, poolVars, CopiesAgree, NewIsPrivate
  <2> QED
    BY <1>1, <1>2, <1>4, <1>5, <2>1, <2>2 DEF CopiesAgree, NewIsPrivate
<1>9. UnsyncedIsMarked'
  BY <1>1, <1>4, <1>5, <1>6 DEF CopiesAgree, UnsyncedIsMarked, Synced, Live
<1>10. UnmarkedIsSynced'
  BY <1>1, AppBlocks, AppKeepsThreads, ReleasedKept DEF AppStep
<1>11. VictimLeaves' /\ CallKnown'
  BY <1>2 DEF VictimLeaves, CallKnown
<1> QED
  BY <1>7, <1>8, <1>9, <1>10, <1>11 DEF CopiesAgree

\* The application's thread preserves the invariant.
LEMMA AppCopies ==
    ASSUME IInv, LockInv, CopiesAgree, [Next]_vars, AppCall \/ AppStep
    PROVE  CopiesAgree'
<1>1. ASSUME NEW b \in Block, OsRead(b)
      PROVE  CopiesAgree'
  <2>1. disk[b] \in Data
    BY Basics
  <2> QED
    BY <1>1, <2>1, BeginCopies DEF OsRead
<1>2. ASSUME NEW b \in Block, OsWrite(b)
      PROVE  CopiesAgree'
  BY <1>2, BeginCopies DEF OsWrite
<1>3. CASE QuietApp
  BY <1>3, QuietCopies
<1> QED
  BY <1>1, <1>2, <1>3, WriteLockCopies, WriteUnlockCopies, PutCopies, FreeCopies,
     DestroyCopies DEF AppCall, AppStep, QuietApp
-----------------------------------------------------------------------------
(* The invariant *)

LEMMA InitCopies == Init => CopiesAgree
<1> SUFFICES ASSUME Init
             PROVE  CopiesAgree
  OBVIOUS
<1>1. nbuf = 0 /\ main.pc = "idle"
  BY DEF Init, MemInit
<1>2. Len(running) = 0 /\ solo.pc = "done"
  BY DEF Init, FlushInit, NoThread
<1>3. OneCopy /\ UnsyncedIsMarked
  BY <1>1 DEF OneCopy, UnsyncedIsMarked, Missing, Evicting
<1>4. NewIsPrivate /\ VictimLeaves /\ CallKnown
  BY <1>1 DEF NewIsPrivate, VictimLeaves, CallKnown, Missing, Evicting
<1>5. UnmarkedIsSynced
  BY <1>2 DEF UnmarkedIsSynced, Flushers, Flusher
<1> QED
  BY <1>3, <1>4, <1>5 DEF CopiesAgree

LEMMA NextCopies ==
    ASSUME SafeBuild, IInv, LockInv, BatchesConsecutive, CopiesAgree, [Next]_vars
    PROVE  CopiesAgree'
<1>1. CASE AppCall \/ AppStep
  BY <1>1, AppCopies
<1>2. CASE ThePool
  BY <1>2, PoolCopies
<1>3. ASSUME NEW i \in Flushers, TheFlusher(i)
      PROVE  CopiesAgree'
  BY <1>3, FlushCopies
<1>4. CASE UNCHANGED vars
  BY <1>4 DEF vars, memVars, poolVars, appVars, CopiesAgree, OneCopy, NewIsPrivate,
     UnsyncedIsMarked, UnmarkedIsSynced, VictimLeaves, CallKnown, Missing, Known, Live, Synced,
     Flushers, Flusher
<1> QED
  BY <1>1, <1>2, <1>3, <1>4 DEF Next, Stopped

\* Wherever reads, writes, evictions and flushes are, the last bytes written to
\* a block are in its one buffer, or else on the disk (os_read and os_write of
\* buffer.c, deleteMemoryBuffer, write2Disk2, write2DiskMultiple2).
THEOREM CopiesHold == ASSUME SafeBuild PROVE Spec => []CopiesAgree
<1>1. Init => CopiesAgree
  BY InitCopies
<1>2. IInv /\ LockInv /\ BatchesConsecutive /\ CopiesAgree /\ [Next]_vars => CopiesAgree'
  BY NextCopies
<1> QED
  BY <1>1, <1>2, IInvAlways, LockInvAlways, BatchesHold, PTL DEF Spec

\* A cached buffer whose bytes are not on the disk is marked, so no eviction
\* and no flush takes it for a clean one (isDirty, README.md:63).
THEOREM UnsyncedAreDirty == ASSUME SafeBuild PROVE Spec => []UnsyncedIsDirty
<1>1. IInv /\ CopiesAgree => UnsyncedIsDirty
  <2> SUFFICES ASSUME IInv, CopiesAgree, NEW b \in Cached, Live(map[b])
               PROVE  \/ buf[map[b]].data = disk[b] \/ buf[map[b]].dirty
                      \/ main.pc = "wdone" /\ main.buf = map[b]
    BY DEF UnsyncedIsDirty
  <2>1. map[b] \in Buffer /\ map[b] <= nbuf /\ buf[map[b]].block = b
    BY Basics DEF Cached, IInv, References, AppReferences
  <2>2. map[b] \in 1 .. nbuf
    BY <2>1, Basics DEF Buffer
  <2> QED
    BY <2>1, <2>2 DEF CopiesAgree, UnsyncedIsMarked, Synced
<1> QED
  BY <1>1, CopiesHold, IInvAlways, PTL

\* A victim is freed only after its bytes have reached the disk
\* (deleteMemoryBuffer, README.md:62).
THEOREM VictimsAreSynced == ASSUME SafeBuild PROVE Spec => []VictimIsSynced
<1>1. CopiesAgree => VictimIsSynced
  BY DEF CopiesAgree, VictimLeaves, VictimIsSynced, Synced
<1> QED
  BY <1>1, CopiesHold, PTL
-----------------------------------------------------------------------------
(* The cache is a block device *)

\* No step but a write changes what the application finds in a block.
LEMMA FlushContent ==
    ASSUME IInv, LockInv, BatchesConsecutive, CopiesAgree,
           NEW i \in Flushers, TheFlusher(i), NEW b \in Block
    PROVE  Content(b)' = Content(b)
<1>1. FlushStep(i) /\ SameContents /\ UNCHANGED <<nbuf, map, main>>
  BY FlushKeepsThreads DEF TheFlusher, appVars
<1>2. DiskChange
  BY <1>1, FlushWrites
<1>3. CASE map[b] # NoBuffer /\ Live(map[b])
  BY <1>1, <1>3, Basics DEF Content, SameContents, Live
<1>4. CASE ~(map[b] # NoBuffer /\ Live(map[b]))
  <2>1. ASSUME NEW x \in 1 .. nbuf, Known(x), Live(x), buf[x].block = b
        PROVE  FALSE
    <3>1. x # NoBuffer
      BY Basics
    <3>2. Missing /\ main.buf = x
      BY <1>4, <2>1, <3>1 DEF CopiesAgree, OneCopy
    <3> QED
      BY <2>1, <3>2 DEF CopiesAgree, NewIsPrivate
  <2>2. disk'[b] = disk[b]
    BY <1>2, <2>1 DEF DiskChange
  <2> QED
    BY <1>1, <1>4, <2>2, Basics DEF Content, SameContents, Live
<1> QED
  BY <1>3, <1>4

LEMMA QuietContent ==
    ASSUME IInv, SameContents, UNCHANGED <<disk, map>>, NEW b \in Block
    PROVE  Content(b)' = Content(b)
BY Basics DEF Content, SameContents, Live

\* What the application finds in the block it has found cached.
LEMMA CachedContent ==
    ASSUME IInv, main.pc \in {"copy", "wlock"}
    PROVE  /\ main.buf \in Buffer /\ map[main.block] = main.buf /\ main.buf # NoBuffer
           /\ buf[main.buf].block = main.block /\ Live(main.buf)
           /\ Content(main.block) = buf[main.buf].data
<1>1. main.block \in Cached /\ map[main.block] = main.buf
  BY DEF IInv, References, AppReferences
<1>2. buf[main.buf].block = main.block /\ Live(main.buf) /\ main.buf # NoBuffer
  BY <1>1 DEF IInv, References, AppReferences, Cached
<1>3. main.buf \in Buffer
  BY <1>2, MainType
<1> QED
  BY <1>1, <1>2, <1>3 DEF Content

\* A call is outstanding until its read or its write has taken effect.
Asked == main.pc \in Evicting \union {"copy", "wlock", "put"}

Store == [b \in Block |-> Content(b)]
DeviceVars == <<Store, Outstanding, reply>>
LEMMA SameDevice ==
    ASSUME \A b \in Block : Content(b)' = Content(b), Outstanding' = Outstanding,
           UNCHANGED reply
    PROVE  UNCHANGED DeviceVars
BY DEF DeviceVars, Store

\* A read takes effect.
LEMMA DeviceRead ==
    ASSUME Asked, main.op = "read", ~Asked', main.block \in Block,
           reply' = [block |-> main.block, data |-> Content(main.block)],
           \A b \in Block : Content(b)' = Content(b)
    PROVE  Device!Next
<1>1. Outstanding = [op |-> "read", block |-> main.block] /\ Outstanding' = NoRequest
  BY DEF Asked, Outstanding
<1>2. Outstanding # NoRequest /\ Outstanding.op = "read" /\ Outstanding.block = main.block
  BY <1>1 DEF NoRequest
<1> QED
  BY <1>1, <1>2 DEF Device!Next, Device!Read, Store

\* A write takes effect.
LEMMA DeviceWrite ==
    ASSUME Asked, main.op = "write", ~Asked', main.block \in Block, UNCHANGED reply,
           \A b \in Block : Content(b)' = IF b = main.block THEN main.data ELSE Content(b)
    PROVE  Device!Next
<1>1. /\ Outstanding = [op |-> "write", block |-> main.block, data |-> main.data]
      /\ Outstanding' = NoRequest
  BY DEF Asked, Outstanding
<1>2. /\ Outstanding # NoRequest /\ Outstanding.op = "write"
      /\ Outstanding.block = main.block /\ Outstanding.data = main.data
  BY <1>1 DEF NoRequest
<1> QED
  BY <1>1, <1>2 DEF Device!Next, Device!Write, Store

\* A call of os_read or os_write is submitted,
LEMMA BeginDevice ==
    ASSUME IInv, NEW op \in {"read", "write"}, NEW b \in Block, NEW d \in Data, Begin(op, b, d)
    PROVE  Device!Next
<1>1. /\ main.pc = "idle" /\ main'.op = op /\ main'.block = b /\ main'.data = d
      /\ main'.pc \in {"copy", "wlock", "victim", "put"}
      /\ UNCHANGED <<disk, map, reply>>
  BY DEF Begin, At
<1>2. ASSUME NEW c \in Block
      PROVE  Content(c)' = Content(c)
  <2>1. CASE UNCHANGED buf
    BY <1>1, <2>1 DEF Content, Live
  <2>2. ASSUME NEW r, buf' = [buf EXCEPT ![nbuf + 1] = r]
        PROVE  Content(c)' = Content(c)
    <3>1. map[c] # NoBuffer => map[c] # nbuf + 1 /\ map[c] \in Buffer
      BY Basics DEF Cached, IInv, References, AppReferences
    <3>2. map[c] # NoBuffer => buf'[map[c]] = buf[map[c]]
      BY <2>2, <3>1, Basics
    <3> QED
      BY <1>1, <3>2 DEF Content, Live
  <2> QED
    BY <2>1, <2>2 DEF Begin, CreateNewMemoryBuffer
<1>3. Outstanding = NoRequest
  BY <1>1 DEF Outstanding, Evicting
<1>4. Outstanding' \in Device!Request
  <2>1. main'.pc \in Evicting \union {"copy", "wlock", "put"}
    BY <1>1 DEF Evicting
  <2>2. CASE op = "read"
    <3>1. Outstanding' = [op |-> "read", block |-> b]
      BY <1>1, <2>1, <2>2 DEF Outstanding
    <3> QED
      BY <3>1 DEF Device!Request
  <2>3. CASE op = "write"
    <3>1. Outstanding' = [op |-> "write", block |-> b, data |-> d]
      BY <1>1, <2>1, <2>3 DEF Outstanding
    <3> QED
      BY <3>1 DEF Device!Request
  <2> QED
    BY <2>2, <2>3
<1> QED
  BY <1>1, <1>2, <1>3, <1>4 DEF Device!Next, Device!Submit, Store

\* carried out by the step that copies the bytes or puts the new buffer into
\* the map,
LEMMA ReadHitDevice ==
    ASSUME IInv, CopiesAgree, ReadHit
    PROVE  Device!Next
<1>1. /\ main.pc = "copy" /\ AppGoto("idle") /\ UNCHANGED <<buf, nbuf, disk, map>>
      /\ reply' = [block |-> main.block, data |-> buf[main.buf].data]
  BY DEF ReadHit, At, memVars
<1>2. main'.pc = "idle" /\ main.block \in Block
  BY <1>1, MainType DEF AppGoto
<1>3. Asked /\ main.op = "read" /\ ~Asked'
  BY <1>1, <1>2 DEF Asked, CopiesAgree, CallKnown, Evicting
<1>4. \A b \in Block : Content(b)' = Content(b)
  BY <1>1 DEF Content, Live
<1>5. Content(main.block) = buf[main.buf].data
  BY <1>1, CachedContent
<1> QED
  BY <1>1, <1>2, <1>3, <1>4, <1>5, DeviceRead

LEMMA WriteLockDevice ==
    ASSUME IInv, CopiesAgree, WriteLock
    PROVE  Device!Next
<1> DEFINE x == main.buf
           r == [buf[x] EXCEPT !.lock = IF buf[x].valid THEN @ - 1 ELSE 0,
                               !.busy = TRUE, !.data = main.data]
<1>1. /\ main.pc = "wlock" /\ Assign(x, r) /\ AppGoto("wdone")
      /\ UNCHANGED <<nbuf, disk, map, reply>>
  BY DEF WriteLock, At
<1>2. main'.pc = "wdone" /\ main.block \in Block /\ main.data \in Data
  BY <1>1, MainType DEF AppGoto
<1>3. Asked /\ main.op = "write" /\ ~Asked'
  BY <1>1, <1>2 DEF Asked, CopiesAgree, CallKnown, Evicting
<1>4. x \in Buffer /\ map[main.block] = x /\ x # NoBuffer /\ buf[x].block = main.block
  BY <1>1, CachedContent
<1>5. buf'[x].data = main.data /\ \A y \in Buffer : y # x => buf'[y] = buf[y]
  <2>1. r.data = main.data
    BY <1>4, Basics DEF MemoryBuffer
  <2> HIDE DEF r
  <2> QED
    BY <1>1, <1>4, <2>1, Basics DEF Assign
<1>6. ASSUME NEW b \in Block
      PROVE  Content(b)' = IF b = main.block THEN main.data ELSE Content(b)
  <2>1. CASE b = main.block
    <3>1. main.data # NULL
      BY <1>2, MemoryBufferAssumption
    <3> QED
      BY <1>1, <1>4, <1>5, <2>1, <3>1 DEF Content, Live
  <2>2. CASE b # main.block
    <3>1. map[b] # NoBuffer => map[b] \in Buffer /\ map[b] # x
      BY <1>4, <2>2, Basics DEF Cached, IInv, References, AppReferences
    <3>2. map[b] # NoBuffer => buf'[map[b]] = buf[map[b]]
      BY <1>5, <3>1
    <3> QED
      BY <1>1, <2>2, <3>2 DEF Content, Live
  <2> QED
    BY <2>1, <2>2
<1> QED
  BY <1>1, <1>2, <1>3, <1>6, DeviceWrite

LEMMA PutDevice ==
    ASSUME IInv, CopiesAgree, Put
    PROVE  Device!Next
<1>1. /\ main.pc = "put" /\ map' = [map EXCEPT ![main.block] = main.buf]
      /\ UNCHANGED <<buf, nbuf, disk>>
      /\ \/ main.op = "read" /\ AppGoto("idle")
            /\ reply' = [block |-> main.block, data |-> main.data]
         \/ main.op = "write" /\ AppGoto("push") /\ UNCHANGED reply
  BY DEF Put, At, memVars
<1>2. main'.pc \in {"idle", "push"} /\ main.block \in Block /\ main.data \in Data
  BY <1>1, MainType DEF AppGoto
<1>3. Asked /\ ~Asked' /\ Missing
  BY <1>1, <1>2 DEF Asked, Missing, Evicting
<1>4. /\ map[main.block] = NoBuffer /\ buf[main.buf].data = main.data
      /\ main.op = "read" => main.data = disk[main.block]
  BY <1>3 DEF CopiesAgree, OneCopy, NewIsPrivate
<1>5. main.buf # NoBuffer /\ main.data # NULL
  BY <1>2, <1>3, MemoryBufferAssumption DEF Missing, IInv, References, AppReferences
<1>6. /\ map'[main.block] = main.buf
      /\ \A b \in Block : b # main.block => map'[b] = map[b]
  BY <1>1, <1>2, Basics
<1>7. ASSUME NEW b \in Block
      PROVE  Content(b)' = IF b = main.block THEN main.data ELSE Content(b)
  BY <1>1, <1>4, <1>5, <1>6 DEF Content, Live
<1>8. Content(main.block) = disk[main.block]
  BY <1>4 DEF Content
<1>9. CASE main.op = "read"
  BY <1>1, <1>2, <1>3, <1>4, <1>7, <1>8, <1>9, DeviceRead
<1>10. CASE main.op = "write"
  BY <1>1, <1>2, <1>3, <1>7, <1>10, DeviceWrite
<1> QED
  BY <1>1, <1>9, <1>10

\* and nothing else shows: an eviction leaves on the disk what it frees.
LEMMA FreeDevice ==
    ASSUME IInv, CopiesAgree, Free
    PROVE  UNCHANGED DeviceVars
<1> DEFINE x == main.victim
           r == [buf[x] EXCEPT !.valid = FALSE, !.data = NULL]
<1>1. /\ main.pc = "free" /\ Assign(x, r) /\ AppGoto("destroy")
      /\ UNCHANGED <<nbuf, disk, map, reply>>
  BY DEF Free, At
<1>2. /\ main'.pc = "destroy" /\ main'.block = main.block
      /\ main'.data = main.data /\ main'.op = main.op
  BY <1>1, MainType DEF AppGoto
<1>3. x \in Buffer
  BY <1>1, VictimCached DEF Deleting, Evicting
<1>4. buf'[x].data = NULL /\ \A y \in Buffer : y # x => buf'[y] = buf[y]
  <2>1. r.data = NULL
    BY <1>3, Basics DEF MemoryBuffer
  <2> HIDE DEF r
  <2> QED
    BY <1>1, <1>3, <2>1, Basics DEF Assign
<1>5. ASSUME NEW b \in Block
      PROVE  Content(b)' = Content(b)
  <2>1. CASE map[b] = x
    <3>1. b \in Cached /\ buf[x].block = b
      BY <1>3, <2>1, Basics DEF Cached, IInv, References, AppReferences
    <3>2. buf[x].data = disk[b]
      BY <1>1, <3>1 DEF CopiesAgree, VictimLeaves, Synced
    <3> QED
      BY <1>1, <1>4, <2>1, <3>2 DEF Content, Live
  <2>2. CASE map[b] # x
    <3>1. map[b] # NoBuffer => buf'[map[b]] = buf[map[b]]
      BY <1>4, <2>2, Basics
    <3> QED
      BY <1>1, <3>1 DEF Content, Live
  <2> QED
    BY <2>1, <2>2
<1>6. Outstanding' = Outstanding
  BY <1>1, <1>2 DEF Outstanding, Evicting
<1> QED
  BY <1>1, <1>5, <1>6, SameDevice

LEMMA DestroyDevice ==
    ASSUME IInv, CopiesAgree, Destroy
    PROVE  UNCHANGED DeviceVars
<1> DEFINE x == main.victim
           r == [buf[x] EXCEPT !.lock = 0]
<1>1. /\ main.pc = "destroy" /\ Assign(x, r)
      /\ map' = [map EXCEPT ![buf[x].block] = NoBuffer]
      /\ main' = [main EXCEPT !.pc = "put", !.victim = NoBuffer]
      /\ UNCHANGED <<nbuf, disk, reply>>
  BY DEF Destroy, At, ForgetBlock
<1>2. /\ main'.pc = "put" /\ main'.block = main.block
      /\ main'.data = main.data /\ main'.op = main.op
  BY <1>1, MainType
<1>3. x \in Buffer /\ map[buf[x].block] = x /\ ~Live(x) /\ buf[x].block \in Block
  BY <1>1, VictimCached, Basics
     DEF IInv, References, AppReferences, Deleting, Evicting, CopiesAgree, VictimLeaves
<1>4. \A y \in Buffer : buf'[y].data = buf[y].data
  <2>1. r.data = buf[x].data
    BY <1>3, Basics DEF MemoryBuffer
  <2> HIDE DEF r
  <2> QED
    BY <1>1, <1>3, <2>1, Basics DEF Assign
<1>5. ASSUME NEW b \in Block
      PROVE  Content(b)' = Content(b)
  <2>1. CASE b = buf[x].block
    BY <1>1, <1>3, <2>1, Basics DEF Content, Live
  <2>2. CASE b # buf[x].block
    <3>1. map'[b] = map[b]
      BY <1>1, <2>2, Basics
    <3>2. map[b] # NoBuffer => map[b] \in Buffer
      BY Basics
    <3> QED
      BY <1>1, <1>4, <3>1, <3>2 DEF Content, Live
  <2> QED
    BY <2>1, <2>2
<1>6. Outstanding' = Outstanding
  BY <1>1, <1>2 DEF Outstanding, Evicting
<1> QED
  BY <1>1, <1>5, <1>6, SameDevice

LEMMA WriteUnlockDevice ==
    ASSUME IInv, WriteUnlock
    PROVE  UNCHANGED DeviceVars
<1> DEFINE x == main.buf
           r == [buf[x] EXCEPT !.valid = TRUE, !.dirty = TRUE, !.busy = FALSE, !.lock = @ + 1]
<1>1. /\ main.pc = "wdone" /\ Assign(x, r) /\ AppGoto("push")
      /\ UNCHANGED <<nbuf, disk, map, reply>>
  BY DEF WriteUnlock, At
<1>2. main'.pc = "push"
  BY <1>1, MainType DEF AppGoto
<1>3. x \in Buffer
  BY <1>1, MainType DEF IInv, References, AppReferences, TypeOK, AppTypeOK, Cached
<1>4. \A y \in Buffer : buf'[y].data = buf[y].data
  <2>1. r.data = buf[x].data
    BY <1>3, Basics DEF MemoryBuffer
  <2> HIDE DEF r
  <2> QED
    BY <1>1, <1>3, <2>1, Basics DEF Assign
<1>5. \A b \in Block : Content(b)' = Content(b)
  BY <1>1, <1>4, Basics DEF Content, Live
<1>6. Outstanding' = Outstanding
  BY <1>1, <1>2 DEF Outstanding, Evicting
<1> QED
  BY <1>1, <1>5, <1>6, SameDevice

LEMMA QuietDevice ==
    ASSUME IInv, QuietApp, ~ReadHit
    PROVE  UNCHANGED DeviceVars
<1>1. /\ SameContents /\ UNCHANGED <<disk, map>>
      /\ main'.block = main.block /\ main'.data = main.data /\ main'.op = main.op
      /\ main'.pc \in {"idle", "put"} \union Evicting \union Closing
      /\ Missing' <=> Missing
  BY QuietFrame
<1>2. UNCHANGED reply /\ main.pc \notin {"copy", "wlock"}
  BY DEF QuietApp, Push, Close, JoinPool, JoinAll, FindVictim, WaitNotBusy, WaitNoRequests,
     Inspect, Requeue, Join, WaitClean, At
<1>3. Outstanding' = Outstanding
  <2>1. main'.pc \notin {"copy", "wlock"}
    BY <1>1 DEF Evicting, Closing
  <2>2. main'.pc \in Evicting \union {"copy", "wlock", "put"}
           <=> main.pc \in Evicting \union {"copy", "wlock", "put"}
    BY <1>1, <1>2, <2>1 DEF Missing
  <2> QED
    BY <1>1, <2>2 DEF Outstanding
<1> QED
  BY <1>1, <1>2, <1>3, QuietContent, SameDevice

LEMMA AppDevice ==
    ASSUME IInv, CopiesAgree, AppCall \/ AppStep
    PROVE  Device!Next \/ UNCHANGED DeviceVars
<1>1. ASSUME NEW b \in Block, OsRead(b)
      PROVE  Device!Next
  <2>1. disk[b] \in Data
    BY Basics
  <2> QED
    BY <1>1, <2>1, BeginDevice DEF OsRead
<1>2. ASSUME NEW b \in Block, OsWrite(b)
      PROVE  Device!Next
  BY <1>2, BeginDevice DEF OsWrite
<1>3. CASE QuietApp
  BY <1>3, QuietDevice, ReadHitDevice
<1> QED
  BY <1>1, <1>2, <1>3, WriteLockDevice, WriteUnlockDevice, PutDevice, FreeDevice,
     DestroyDevice DEF AppCall, AppStep, QuietApp

LEMMA NextDevice ==
    ASSUME IInv, LockInv, BatchesConsecutive, CopiesAgree, [Next]_vars
    PROVE  Device!Next \/ UNCHANGED DeviceVars
<1>1. CASE AppCall \/ AppStep
  BY <1>1, AppDevice
<1>2. CASE ThePool
  <2>1. SameContents /\ UNCHANGED <<disk, map, main, reply>>
    BY <1>2, PoolContents DEF ThePool, appVars
  <2>2. Outstanding' = Outstanding
    BY <2>1 DEF Outstanding
  <2> QED
    BY <2>1, <2>2, QuietContent, SameDevice
<1>3. ASSUME NEW i \in Flushers, TheFlusher(i)
      PROVE  UNCHANGED DeviceVars
  <2>1. UNCHANGED <<main, reply>>
    BY <1>3 DEF TheFlusher, appVars
  <2>2. Outstanding' = Outstanding
    BY <2>1 DEF Outstanding
  <2> QED
    BY <1>3, <2>1, <2>2, FlushContent, SameDevice
<1>4. CASE UNCHANGED vars
  <2>1. /\ Outstanding' = Outstanding /\ UNCHANGED reply
        /\ \A b \in Block : Content(b)' = Content(b)
    BY <1>4 DEF vars, memVars, appVars, Outstanding, Content, Live
  <2> QED
    BY <2>1, SameDevice
<1> QED
  BY <1>1, <1>2, <1>3, <1>4 DEF Next, Stopped

LEMMA InitDevice == Init => Device!Init
<1> SUFFICES ASSUME Init
             PROVE  Device!Init
  OBVIOUS
<1>1. main.pc = "idle" /\ reply = NoReply /\ disk \in [Block -> Data]
      /\ map = [b \in Block |-> NoBuffer]
  BY DEF Init, MemInit
<1>2. \A b \in Block : Content(b) = disk[b]
  BY <1>1 DEF Content
<1>3. [b \in Block |-> Content(b)] \in [Block -> Data]
  BY <1>1, <1>2
<1>4. Outstanding = NoRequest
  BY <1>1 DEF Outstanding, Evicting
<1> QED
  BY <1>1, <1>3, <1>4 DEF Device!Init

\* Reads return what was written last, and nothing but a write changes what a
\* block holds, through misses, hits, evictions and flushes in any order of the
\* threads' steps (os_read and os_write of buffer.c).
THEOREM CacheIsDevice == ASSUME SafeBuild PROVE Spec => ImplementsDevice
<1>1. Init => Device!Init
  BY InitDevice
<1>2. IInv /\ LockInv /\ BatchesConsecutive /\ CopiesAgree /\ [Next]_vars
         => [Device!Next]_Device!vars
  BY NextDevice DEF DeviceVars, Store, Device!vars
<1> QED
  BY <1>1, <1>2, CopiesHold, IInvAlways, LockInvAlways, BatchesHold, PTL
     DEF Spec, ImplementsDevice, Device!Spec
=============================================================================
