------------------------- MODULE BufferCacheProofs --------------------------
(***************************************************************************)
(* TypeOK and References for every value of the constants.  Neither is     *)
(* inductive alone: a flush thread's next buffer has a type only while its *)
(* index is inside the batch, and what the map leads to stays reachable    *)
(* only while types hold, so IInv is their conjunction.  One lemma per     *)
(* action shows that the action preserves it.                              *)
(* From it follow that no permit is lost and that batches are consecutive. *)
(***************************************************************************)
EXTENDS CacheProperties, SequenceTheorems, TLAPS

IInv == TypeOK /\ References

USE DEF NoBuffer

\* Assign(x, r) changes buffer x and no other.
LEMMA AssignType ==
    ASSUME MemTypeOK, NEW x \in Buffer, NEW r \in MemoryBuffer, Assign(x, r)
    PROVE  /\ buf' \in [Buffer -> MemoryBuffer]
           /\ buf'[x] = r
           /\ \A y \in Buffer : y # x => buf'[y] = buf[y]
BY DEF Assign, MemTypeOK

\* A thread at the end of running_queue leaves the others where they are,
LEMMA RunningAppend ==
    ASSUME running \in Seq(FlushThread), NEW t \in FlushThread,
           running' = Append(running, t)
    PROVE  /\ running' \in Seq(FlushThread)
           /\ Len(running') = Len(running) + 1
           /\ running' # <<>>
           /\ \A i \in 1 .. Len(running) : running'[i] = running[i]
           /\ running'[Len(running')] = t
BY AppendProperties

\* and joining the oldest moves them up by one.
LEMMA RunningTail ==
    ASSUME running \in Seq(FlushThread), running # <<>>,
           running' = Tail(running)
    PROVE  /\ running' \in Seq(FlushThread)
           /\ Len(running') = Len(running) - 1
           /\ \A i \in 1 .. Len(running') : running'[i] = running[i + 1]
BY HeadTailProperties

\* The header MultiRelease leaves is a header.
LEMMA ReleasedHeader ==
    ASSUME NEW b \in MemoryBuffer, NEW d \in BOOLEAN,
           NEW q, q = [b EXCEPT !.dirty = d, !.busy = FALSE, !.lock = @ + 1]
    PROVE  q \in MemoryBuffer /\ q.block = b.block /\ q.data = b.data /\ q.valid = b.valid
<1>1. b.lock + 1 \in Nat /\ b.lock \in Nat
  BY DEF MemoryBuffer
<1>2. q.lock = b.lock + 1
  BY DEF MemoryBuffer
<1>3. q = [block |-> b.block, data |-> b.data, valid |-> b.valid, dirty |-> d,
           busy |-> FALSE, requests |-> b.requests, lock |-> b.lock + 1]
  BY DEF MemoryBuffer
<1>4. q.block = b.block /\ q.data = b.data /\ q.valid = b.valid
  BY <1>3
<1>5. /\ b.block \in Block /\ b.data \in Data \union {NULL} /\ b.valid \in BOOLEAN
      /\ b.requests \in Int
  BY DEF MemoryBuffer
<1>6. q \in MemoryBuffer
  BY <1>1, <1>3, <1>5 DEF MemoryBuffer
<1> QED
  BY <1>4, <1>6

\* A flush thread that moves on inside its batch is a flush thread.
LEMMA ThreadUpdate ==
    ASSUME NEW t \in FlushThread, NEW k \in Nat, ThreadInside(t),
           NEW pc \in {"lock", "write", "release", "done"},
           pc # "done" => k < Len(t.bufs)
    PROVE  /\ [t EXCEPT !.k = k, !.pc = pc] \in FlushThread
           /\ ThreadInside([t EXCEPT !.k = k, !.pc = pc])
<1>1. [t EXCEPT !.k = k, !.pc = pc] \in FlushThread
  BY DEF FlushThread
<1>2. /\ [t EXCEPT !.k = k, !.pc = pc].bufs = t.bufs
      /\ [t EXCEPT !.k = k, !.pc = pc].k = k
      /\ [t EXCEPT !.k = k, !.pc = pc].pc = pc
  BY DEF FlushThread
<1> QED
  BY <1>1, <1>2 DEF ThreadInside

\* Flusher(i) is a flush thread,
LEMMA FlusherType ==
    ASSUME FlushTypeOK, NEW i \in Flushers
    PROVE  Flusher(i) \in FlushThread
<1>1. i = 0 \/ i \in 1 .. Len(running)
  BY DEF Flushers, FlushTypeOK
<1> QED
  BY <1>1, ElementOfSeq DEF Flusher, FlushTypeOK

\* and only Flusher(i) changes when it advances.
LEMMA AdvanceType ==
    ASSUME FlushTypeOK, NEW i \in Flushers, NEW t \in FlushThread, Advance(i, t)
    PROVE  /\ FlushTypeOK'
           /\ Len(running') = Len(running)
           /\ solo' = IF i = 0 THEN t ELSE solo
           /\ \A j \in 1 .. Len(running) : running'[j] = IF j = i THEN t ELSE running[j]
<1>1. CASE i = 0
  BY <1>1 DEF Advance, FlushTypeOK
<1>2. CASE i # 0
  <2>1. i \in 1 .. Len(running)
    BY <1>2 DEF Flushers, FlushTypeOK
  <2> QED
    BY <1>2, <2>1, ExceptSeq DEF Advance, FlushTypeOK
<1> QED
  BY <1>1, <1>2

\* A flush thread leaves the block, the bytes and isValid of every buffer alone.
SameContents ==
    /\ buf' \in [Buffer -> MemoryBuffer]
    /\ \A x \in Buffer : /\ buf'[x].block = buf[x].block
                         /\ buf'[x].data = buf[x].data
                         /\ buf'[x].valid = buf[x].valid

LEMMA AssignHeader ==
    ASSUME MemTypeOK, NEW x \in Buffer, NEW r \in MemoryBuffer, Assign(x, r),
           r.block = buf[x].block, r.data = buf[x].data, r.valid = buf[x].valid
    PROVE  SameContents
BY AssignType DEF SameContents

\* and ends up in a place that is inside its array of buffers.
StaysInside(i) ==
    \/ UNCHANGED <<running, solo>>
    \/ \E t \in FlushThread : ThreadInside(t) /\ Advance(i, t)

\* Each step of a flush thread keeps the contents of the buffers and its place
\* inside its batch.
LEMMA SingleCheckStep ==
    ASSUME IInv, NEW i \in Flushers, SingleCheck(i)
    PROVE  SameContents /\ disk' \in [Block -> Data] /\ StaysInside(i)
<1> DEFINE t == Flusher(i)
           x == t.bufs[1]
<1> USE DEF IInv, TypeOK, References
<1>1. t \in FlushThread /\ ThreadInside(t)
  BY FlusherType, ElementOfSeq DEF FlushReferences, Flusher, Flushers, FlushTypeOK
<1>2. Len(t.bufs) = 1 /\ x \in Buffer
  BY <1>1, ElementOfSeq DEF ThreadInside, SingleCheck, FlushThread
<1>3. SameContents
  <2> DEFINE r == [buf[x] EXCEPT !.busy = FALSE,
                                 !.requests = IF MmapRW THEN @ ELSE @ - 1]
  <2>1. /\ r \in MemoryBuffer
        /\ r.block = buf[x].block /\ r.data = buf[x].data /\ r.valid = buf[x].valid
    <3> HIDE DEF x
    <3>1. (IF MmapRW THEN buf[x].requests ELSE buf[x].requests - 1) \in Int
      BY <1>2 DEF MemTypeOK, MemoryBuffer
    <3> QED
      BY <1>2, <3>1 DEF MemTypeOK, MemoryBuffer
  <2>2. CASE UNCHANGED buf
    BY <2>2 DEF SameContents, MemTypeOK
  <2>3. CASE Assign(x, r)
    BY <1>2, <2>1, <2>3, AssignHeader
  <2> QED
    BY <2>2, <2>3 DEF SingleCheck
<1>4. StaysInside(i)
  BY <1>1, <1>2 DEF SingleCheck, StaysInside, ThreadInside, FlushThread
<1> QED
  BY <1>3, <1>4 DEF SingleCheck, MemTypeOK

LEMMA SingleSyncStep ==
    ASSUME IInv, NEW i \in Flushers, SingleSync(i)
    PROVE  SameContents /\ disk' \in [Block -> Data] /\ StaysInside(i)
<1> DEFINE t == Flusher(i)
           x == t.bufs[1]
<1> USE DEF IInv, TypeOK, References
<1>1. t \in FlushThread /\ ThreadInside(t)
  BY FlusherType, ElementOfSeq DEF FlushReferences, Flusher, Flushers, FlushTypeOK
<1>2. Len(t.bufs) = 1 /\ x \in Buffer
  <2>1. t.pc = "sync"
    BY DEF SingleSync
  <2> QED
    BY <1>1, <2>1, ElementOfSeq DEF ThreadInside, FlushThread
<1>3. buf[x].requests \in Int /\ Claimed(buf[x].requests) \in Int
  BY <1>2 DEF Claimed, MemTypeOK, MemoryBuffer
<1>4. SameContents /\ disk' \in [Block -> Data]
  <2> DEFINE r(d, n) == [buf[x] EXCEPT !.busy = FALSE, !.dirty = d, !.requests = n]
  <2>1. ASSUME NEW d \in BOOLEAN, NEW n \in Int, Assign(x, r(d, n))
        PROVE  SameContents
    <3>1. /\ r(d, n) \in MemoryBuffer
          /\ r(d, n).block = buf[x].block
          /\ r(d, n).data = buf[x].data
          /\ r(d, n).valid = buf[x].valid
      BY <1>2 DEF MemTypeOK, MemoryBuffer
    <3> QED
      BY <1>2, <2>1, <3>1, AssignHeader
  <2>2. CASE /\ UNCHANGED disk
             /\ Assign(x, [buf[x] EXCEPT !.busy = FALSE,
                                         !.requests = IF MmapRW THEN @ ELSE Claimed(@)])
    <3>1. r(buf[x].dirty, IF MmapRW THEN buf[x].requests ELSE Claimed(buf[x].requests))
            = [buf[x] EXCEPT !.busy = FALSE,
                             !.requests = IF MmapRW THEN @ ELSE Claimed(@)]
      BY <1>2 DEF MemTypeOK, MemoryBuffer
    <3>2. buf[x].dirty \in BOOLEAN
      BY <1>2 DEF MemTypeOK, MemoryBuffer
    <3> QED
      BY <1>3, <2>1, <2>2, <3>1, <3>2 DEF MemTypeOK
  <2>3. ASSUME ~Stale(x), NEW ok \in WriteOutcomes,
               Assign(x, [buf[x] EXCEPT !.busy = FALSE, !.dirty = DirtyAfter(ok),
                                        !.requests = Claimed(@)]),
               disk' = IF ok THEN [disk EXCEPT ![buf[x].block] = buf[x].data] ELSE disk
        PROVE  SameContents /\ disk' \in [Block -> Data]
    <3>1. DirtyAfter(ok) \in BOOLEAN
      BY <2>3 DEF DirtyAfter, WriteOutcomes
    <3>2. buf[x].data \in Data
      BY <2>3, <1>2 DEF MemTypeOK, MemoryBuffer, AppReferences, Live, Stale
    <3>3. disk' \in [Block -> Data]
      BY <2>3, <3>2 DEF MemTypeOK
    <3> QED
      BY <1>3, <2>1, <2>3, <3>1, <3>3
  <2> QED
    BY <2>2, <2>3 DEF SingleSync
<1>5. StaysInside(i)
  <2>1. \E ok \in BOOLEAN : Advance(i, [t EXCEPT !.pc = "done", !.ok = ok])
    <3>1. CASE Advance(i, [t EXCEPT !.pc = "done"])
      <4>1. [t EXCEPT !.pc = "done"] = [t EXCEPT !.pc = "done", !.ok = t.ok]
        BY <1>1 DEF FlushThread
      <4>2. t.ok \in BOOLEAN
        BY <1>1 DEF FlushThread
      <4> QED
        BY <3>1, <4>1, <4>2
    <3>2. CASE \E ok \in WriteOutcomes : Advance(i, [t EXCEPT !.pc = "done", !.ok = ok])
      BY <3>2 DEF WriteOutcomes
    <3> QED
      BY <3>1, <3>2 DEF SingleSync
  <2>2. ASSUME NEW ok \in BOOLEAN
        PROVE  LET d == [t EXCEPT !.pc = "done", !.ok = ok]
               IN d \in FlushThread /\ ThreadInside(d)
    BY <1>1 DEF FlushThread, ThreadInside
  <2> QED
    BY <2>1, <2>2 DEF StaysInside
<1> QED
  BY <1>4, <1>5

LEMMA MultiLockStep ==
    ASSUME IInv, NEW i \in Flushers, MultiLock(i)
    PROVE  SameContents /\ disk' \in [Block -> Data] /\ StaysInside(i)
<1> DEFINE t == Flusher(i)
           n == t.k + 1
           x == t.bufs[n]
<1> USE DEF IInv, TypeOK, References
<1>1. t \in FlushThread /\ ThreadInside(t)
  BY FlusherType, ElementOfSeq DEF FlushReferences, Flusher, Flushers, FlushTypeOK
<1>2. n \in 1 .. Len(t.bufs) /\ x \in Buffer
  BY <1>1, ElementOfSeq DEF ThreadInside, MultiLock, FlushThread
<1>3. Unlocked(x) /\ Assign(x, Acquired(x))
  BY DEF MultiLock
<1>4. SameContents
  <2>1. Claimed(buf[x].requests) \in Int
    BY <1>2 DEF Claimed, MemTypeOK, MemoryBuffer
  <2>2. buf[x].lock - 1 \in Nat
    BY <1>2, <1>3 DEF Unlocked, MemTypeOK, MemoryBuffer
  <2>3. /\ Acquired(x) \in MemoryBuffer
        /\ Acquired(x).block = buf[x].block
        /\ Acquired(x).data = buf[x].data
        /\ Acquired(x).valid = buf[x].valid
    BY <1>2, <2>1, <2>2 DEF Acquired, MemTypeOK, MemoryBuffer
  <2> QED
    BY <1>2, <1>3, <2>3, AssignHeader
<1>5. StaysInside(i)
  <2> DEFINE k == IF n = Len(t.bufs) THEN 0 ELSE n
             pc == IF n = Len(t.bufs) THEN "write" ELSE "lock"
             u == [t EXCEPT !.k = k, !.pc = pc]
  <2>1. u \in FlushThread /\ ThreadInside(u)
    <3>1. /\ k \in Nat /\ k < Len(t.bufs)
          /\ pc \in {"lock", "write", "release", "done"}
      BY <1>1, <1>2 DEF FlushThread
    <3> HIDE DEF t, k, pc
    <3> QED
      BY <1>1, <3>1, ThreadUpdate
  <2>2. Advance(i, u)
    BY DEF MultiLock
  <2> QED
    BY <2>1, <2>2 DEF StaysInside
<1> QED
  BY <1>4, <1>5 DEF MultiLock, MemTypeOK

LEMMA MultiWriteStep ==
    ASSUME IInv, NEW i \in Flushers, MultiWrite(i)
    PROVE  SameContents /\ disk' \in [Block -> Data] /\ StaysInside(i)
<1> DEFINE t == Flusher(i)
           first == buf[t.bufs[1]].block
           Of(b) == t.bufs[b - first + 1]
<1> USE DEF IInv, TypeOK, References
<1>1. t \in FlushThread /\ ThreadInside(t)
  BY FlusherType, ElementOfSeq DEF FlushReferences, Flusher, Flushers, FlushTypeOK
<1>2. CASE UNCHANGED <<disk, running, solo>>
  BY <1>2 DEF MultiWrite, SameContents, StaysInside, MemTypeOK
<1>3. ASSUME \A j \in DOMAIN t.bufs : Live(t.bufs[j]),
             NEW ok \in WriteOutcomes,
             Advance(i, [t EXCEPT !.pc = "release", !.ok = ok]),
             disk' = [b \in Block |->
                         IF ok /\ b - first + 1 \in DOMAIN t.bufs
                         THEN buf[Of(b)].data ELSE disk[b]]
      PROVE  disk' \in [Block -> Data] /\ StaysInside(i)
  <2>1. \A j \in DOMAIN t.bufs : buf[t.bufs[j]].data \in Data
    BY <1>1, <1>3, ElementOfSeq DEF FlushThread, Live, MemTypeOK, MemoryBuffer
  <2>2. disk' \in [Block -> Data]
    BY <1>3, <2>1 DEF MemTypeOK
  <2>3. ok \in BOOLEAN
    BY <1>3 DEF WriteOutcomes
  <2>4. StaysInside(i)
    BY <1>1, <1>3, <2>3 DEF MultiWrite, StaysInside, ThreadInside, FlushThread
  <2> QED
    BY <2>2, <2>4
<1>4. SameContents
  BY DEF MultiWrite, SameContents, MemTypeOK
<1> QED
  BY <1>2, <1>3, <1>4 DEF MultiWrite

LEMMA MultiReleaseStep ==
    ASSUME IInv, NEW i \in Flushers, MultiRelease(i)
    PROVE  SameContents /\ disk' \in [Block -> Data] /\ StaysInside(i)
<1> DEFINE t == Flusher(i)
           x == t.bufs[t.k + 1]
<1> USE DEF IInv, TypeOK, References
<1>1. t \in FlushThread /\ ThreadInside(t)
  BY FlusherType, ElementOfSeq DEF FlushReferences, Flusher, Flushers, FlushTypeOK
<1>2. t.k + 1 \in 1 .. Len(t.bufs) /\ x \in Buffer
  BY <1>1, ElementOfSeq DEF ThreadInside, MultiRelease, FlushThread
<1>3. DirtyAfter(t.ok) \in BOOLEAN
  BY <1>1 DEF DirtyAfter, FlushThread
<1>4. SameContents
  <2> DEFINE r == [buf[x] EXCEPT !.dirty = @ /\ DirtyAfter(t.ok),
                                 !.busy = FALSE,
                                 !.lock = @ + 1]
  <2>1. /\ r \in MemoryBuffer
        /\ r.block = buf[x].block /\ r.data = buf[x].data /\ r.valid = buf[x].valid
    <3> HIDE DEF x
    <3> DEFINE d == buf[x].dirty /\ DirtyAfter(t.ok)
               q == [buf[x] EXCEPT !.dirty = d, !.busy = FALSE, !.lock = @ + 1]
    <3>1. d \in BOOLEAN
      BY <1>3
    <3>2. r = q
      OBVIOUS
    <3>3. /\ q \in MemoryBuffer
          /\ q.block = buf[x].block /\ q.data = buf[x].data /\ q.valid = buf[x].valid
      <4>1. buf[x] \in MemoryBuffer
        BY <1>2 DEF MemTypeOK
      <4> HIDE DEF d, r
      <4> QED
        BY <4>1, <3>1, ReleasedHeader
    <3> QED
      BY <3>2, <3>3
  <2>2. Assign(x, r)
    BY DEF MultiRelease
  <2> QED
    BY <1>2, <2>1, <2>2, AssignHeader
<1>5. StaysInside(i)
  <2> DEFINE k == t.k + 1
             pc == IF t.k + 1 = Len(t.bufs) THEN "done" ELSE "release"
             u == [t EXCEPT !.k = k, !.pc = pc]
  <2>1. u \in FlushThread /\ ThreadInside(u)
    <3>1. /\ k \in Nat
          /\ pc # "done" => k < Len(t.bufs)
          /\ pc \in {"lock", "write", "release", "done"}
      BY <1>1, <1>2 DEF FlushThread
    <3> HIDE DEF t, k, pc
    <3> QED
      BY <1>1, <3>1, ThreadUpdate
  <2>2. Advance(i, u)
    BY DEF MultiRelease
  <2> QED
    BY <2>1, <2>2 DEF StaysInside
<1> QED
  BY <1>4, <1>5 DEF MultiRelease, MemTypeOK

\* A flush thread preserves the invariant.
LEMMA FlushStepInv ==
    ASSUME IInv, NEW i \in Flushers, TheFlusher(i)
    PROVE  IInv'
<1> USE DEF IInv, TypeOK, References
<1>1. /\ SameContents /\ disk' \in [Block -> Data] /\ StaysInside(i)
      /\ UNCHANGED nbuf /\ fault' \in BOOLEAN
  <2>1. UNCHANGED nbuf /\ fault' \in BOOLEAN
    BY DEF TheFlusher, FlushStep, SingleCheck, SingleSync, MultiLock, MultiWrite,
           MultiRelease, MemTypeOK
  <2> QED
    BY <2>1, SingleCheckStep, SingleSyncStep, MultiLockStep, MultiWriteStep,
       MultiReleaseStep DEF TheFlusher, FlushStep
<1>2. MemTypeOK'
  BY <1>1 DEF SameContents, MemTypeOK
<1>3. FlushTypeOK' /\ FlushReferences' /\ Len(running') = Len(running)
  <2>1. CASE UNCHANGED <<running, solo>>
    BY <2>1, <1>1 DEF FlushTypeOK, FlushReferences, ThreadInside
  <2>2. ASSUME NEW t \in FlushThread, ThreadInside(t), Advance(i, t)
        PROVE  FlushTypeOK' /\ FlushReferences' /\ Len(running') = Len(running)
    <3>1. /\ FlushTypeOK'
          /\ Len(running') = Len(running)
          /\ solo' = IF i = 0 THEN t ELSE solo
          /\ \A j \in 1 .. Len(running) : running'[j] = IF j = i THEN t ELSE running[j]
      BY <2>2, AdvanceType
    <3> QED
      BY <3>1, <2>2, <1>1 DEF FlushReferences, ThreadInside
  <2> QED
    BY <1>1, <2>1, <2>2 DEF StaysInside
<1>4. PoolTypeOK' /\ AppTypeOK'
  BY DEF TheFlusher, poolVars, appVars, PoolTypeOK, AppTypeOK
<1>5. PoolReferences'
  <2>1. running # <<>> => running' # <<>>
    BY <1>3, EmptySeq DEF FlushTypeOK
  <2> QED
    BY <1>1, <2>1 DEF TheFlusher, poolVars, PoolReferences
<1>6. AppReferences'
  BY <1>1 DEF TheFlusher, poolVars, appVars, AppReferences, SameContents, Cached, Live,
              AppTypeOK
<1> QED
  BY <1>2, <1>3, <1>4, <1>5, <1>6
-----------------------------------------------------------------------------
\* The parts of the invariant a step cannot disturb when it leaves the
\* variables they speak of alone.
LEMMA AppFrame ==
    ASSUME IInv, SameContents, UNCHANGED <<nbuf, appVars>>, pool.pc # "done"
    PROVE  AppTypeOK' /\ AppReferences'
BY DEF IInv, TypeOK, References, appVars, AppTypeOK, AppReferences, SameContents,
       Cached, Live

LEMMA MemFrame ==
    ASSUME IInv, SameContents, UNCHANGED <<nbuf, disk>>, fault' \in BOOLEAN
    PROVE  MemTypeOK'
BY DEF IInv, TypeOK, MemTypeOK, SameContents

LEMMA FlushFrame ==
    ASSUME IInv, UNCHANGED <<running, solo, nbuf>>
    PROVE  FlushTypeOK' /\ FlushReferences'
BY DEF IInv, TypeOK, References, FlushTypeOK, FlushReferences, ThreadInside

LEMMA SameBuffers ==
    ASSUME IInv, UNCHANGED buf
    PROVE  SameContents
BY DEF IInv, TypeOK, MemTypeOK, SameContents

\* Starting a flush thread, joining one, and starting one for a batch.
LEMMA StartedThread ==
    ASSUME IInv, NEW t \in FlushThread, ThreadInside(t),
           running' = Append(running, t), UNCHANGED <<solo, nbuf>>
    PROVE  FlushTypeOK' /\ FlushReferences' /\ running' # <<>>
<1>1. /\ running' \in Seq(FlushThread)
      /\ Len(running') = Len(running) + 1
      /\ running' # <<>>
      /\ \A i \in 1 .. Len(running) : running'[i] = running[i]
      /\ running'[Len(running')] = t
  BY RunningAppend DEF IInv, TypeOK, FlushTypeOK
<1>2. Len(running) \in Nat
  BY DEF IInv, TypeOK, FlushTypeOK
<1> QED
  BY <1>1, <1>2 DEF IInv, TypeOK, References, FlushTypeOK, FlushReferences, ThreadInside

LEMMA JoinedThread ==
    ASSUME IInv, running # <<>>, running' = Tail(running), UNCHANGED <<solo, nbuf>>
    PROVE  FlushTypeOK' /\ FlushReferences'
<1>1. /\ running' \in Seq(FlushThread)
      /\ Len(running') = Len(running) - 1
      /\ \A i \in 1 .. Len(running') : running'[i] = running[i + 1]
  BY RunningTail DEF IInv, TypeOK, FlushTypeOK
<1>2. Len(running) \in Nat
  BY DEF IInv, TypeOK, FlushTypeOK
<1> QED
  BY <1>1, <1>2 DEF IInv, TypeOK, References, FlushTypeOK, FlushReferences, ThreadInside

LEMMA StartedBatch ==
    ASSUME IInv, NEW xs \in Seq(Buffer), xs # <<>>,
           \A j \in 1 .. Len(xs) : xs[j] <= nbuf,
           StartFlush(xs), UNCHANGED <<solo, nbuf>>
    PROVE  FlushTypeOK' /\ FlushReferences' /\ running' # <<>>
<1> DEFINE t == FlushBuffersWithThread(xs)
<1>1. t \in FlushThread
  BY DEF FlushBuffersWithThread, FlushThread
<1>2. ThreadInside(t)
  BY EmptySeq DEF FlushBuffersWithThread, ThreadInside
<1> QED
  BY <1>1, <1>2, StartedThread DEF StartFlush

\* The invariant is preserved by each action of the pooling thread,
LEMMA PoolFinishStep ==
    ASSUME IInv, PoolFinish, UNCHANGED appVars
    PROVE  IInv'
<1> USE DEF PoolFinish
<1>1. SameContents /\ UNCHANGED <<nbuf, disk, fault, solo>> /\ pool.pc # "done"
  BY SameBuffers DEF memVars
<1>2. MemTypeOK' /\ AppTypeOK' /\ AppReferences'
  BY <1>1, AppFrame, MemFrame DEF IInv, TypeOK, MemTypeOK
<1>3. FlushTypeOK' /\ FlushReferences'
  <2>1. CASE batch = <<>>
    BY <1>1, <2>1, FlushFrame
  <2>2. CASE batch # <<>>
    BY <1>1, <2>2, StartedBatch DEF IInv, TypeOK, References, PoolTypeOK, PoolReferences
  <2> QED
    BY <2>1, <2>2
<1>4. PoolTypeOK'
  BY EmptySeq DEF IInv, TypeOK, PoolTypeOK, Goto
<1>5. PoolReferences'
  BY <1>1, EmptySeq DEF IInv, TypeOK, References, PoolTypeOK, PoolReferences, Goto
<1> QED
  BY <1>2, <1>3, <1>4, <1>5 DEF IInv, TypeOK, References

LEMMA PoolIdleStep ==
    ASSUME IInv, PoolIdle, UNCHANGED appVars
    PROVE  IInv'
<1> USE DEF PoolIdle
<1>1. SameContents /\ UNCHANGED <<nbuf, disk, fault, solo>> /\ pool.pc # "done"
  BY SameBuffers DEF memVars
<1>2. MemTypeOK' /\ AppTypeOK' /\ AppReferences'
  BY <1>1, AppFrame, MemFrame DEF IInv, TypeOK, MemTypeOK
<1>3. FlushTypeOK' /\ FlushReferences'
  BY <1>1, StartedBatch
     DEF IInv, TypeOK, References, PoolTypeOK, PoolReferences, Gathered
<1>4. PoolTypeOK'
  BY EmptySeq DEF IInv, TypeOK, PoolTypeOK
<1>5. PoolReferences'
  BY <1>1, EmptySeq DEF IInv, TypeOK, References, PoolTypeOK, PoolReferences
<1> QED
  BY <1>2, <1>3, <1>4, <1>5 DEF IInv, TypeOK, References

LEMMA PoolFrontStep ==
    ASSUME IInv, PoolFront, UNCHANGED appVars
    PROVE  IInv'
<1> USE DEF PoolFront
<1>1. SameContents /\ UNCHANGED <<nbuf, disk, running, solo>> /\ fault' \in BOOLEAN
      /\ pool.pc # "done"
  BY SameBuffers
<1>2. MemTypeOK' /\ AppTypeOK' /\ AppReferences' /\ FlushTypeOK' /\ FlushReferences'
  BY <1>1, AppFrame, MemFrame, FlushFrame
<1>3. root \in queue /\ root \in Unit
  BY DEF IInv, TypeOK, References, PoolTypeOK, PoolReferences
<1>4. PoolTypeOK'
  BY <1>3 DEF IInv, TypeOK, PoolTypeOK, PermitFree
<1>5. PoolReferences'
  BY <1>1, <1>3 DEF IInv, References, PoolReferences
<1> QED
  BY <1>2, <1>4, <1>5 DEF IInv, TypeOK, References

LEMMA PoolPopStep ==
    ASSUME IInv, NEW pushing, PoolPop(pushing), UNCHANGED appVars
    PROVE  IInv'
<1> USE DEF PoolPop
<1>1. SameContents /\ UNCHANGED <<nbuf, disk, fault, running, solo>> /\ pool.pc # "done"
  BY SameBuffers DEF memVars
<1>2. MemTypeOK' /\ AppTypeOK' /\ AppReferences' /\ FlushTypeOK' /\ FlushReferences'
  BY <1>1, AppFrame, MemFrame, FlushFrame DEF IInv, TypeOK, MemTypeOK
<1>3. root \in Unit
  BY DEF IInv, TypeOK, References, PoolTypeOK, PoolReferences
<1>4. PICK kept \in SUBSET (queue \ {root}) :
               /\ queue' = kept
               /\ dangling' = dangling \intersect kept
               /\ lost' = lost \union (queue \ (kept \union {pool.unit}))
  BY DEF PopUnit
<1>5. tree' \in {"whole", "stale", "broken"} /\ (queue' # {} => root' \in queue')
      /\ root' \in queue' \union {NoUnit}
  BY DEF PopUnit, IInv, TypeOK, PoolTypeOK
<1>6. PoolTypeOK'
  BY <1>3, <1>4, <1>5 DEF IInv, TypeOK, PoolTypeOK, Goto
<1>7. PoolReferences'
  BY <1>1, <1>3, <1>4, <1>5
     DEF IInv, TypeOK, References, PoolTypeOK, PoolReferences, Goto
<1> QED
  BY <1>2, <1>6, <1>7 DEF IInv, TypeOK, References

LEMMA PoolCheckStep ==
    ASSUME IInv, PoolCheck, UNCHANGED appVars
    PROVE  IInv'
<1> USE DEF PoolCheck
<1>1. SameContents /\ UNCHANGED <<nbuf, disk, fault, running, solo>> /\ pool.pc # "done"
  BY SameBuffers DEF memVars
<1>2. MemTypeOK' /\ AppTypeOK' /\ AppReferences' /\ FlushTypeOK' /\ FlushReferences'
  BY <1>1, AppFrame, MemFrame, FlushFrame DEF IInv, TypeOK, MemTypeOK
<1>3. PoolTypeOK'
  BY DEF IInv, TypeOK, PoolTypeOK, Goto, GoTop, Posted
<1>4. PoolReferences'
  BY <1>1 DEF IInv, TypeOK, References, PoolTypeOK, PoolReferences, MemTypeOK,
              Goto, GoTop, NoUnit
<1> QED
  BY <1>2, <1>3, <1>4 DEF IInv, TypeOK, References

\* The buffer in the pooling thread's hands exists, and updating the fields the
\* pooling thread updates leaves its contents alone.
LEMMA RequestStep ==
    ASSUME IInv, pool.pc \in {"lock", "begin"}, NEW l \in Nat,
           Request(pool.unit.buf, l)
    PROVE  SameContents /\ pool.unit.buf \in 1 .. nbuf
<1> DEFINE x == pool.unit.buf
<1>1. pool.unit \in Unit
  BY DEF IInv, References, PoolReferences
<1>2. x \in Buffer /\ x <= nbuf
  BY <1>1 DEF Unit, Buffer, IInv, References, PoolReferences
<1>3. SameContents
  <2> DEFINE r == [buf[x] EXCEPT !.busy = TRUE, !.requests = @ + 1, !.lock = l]
  <2>1. buf[x] \in MemoryBuffer /\ buf[x].requests + 1 \in Int
    BY <1>2 DEF IInv, TypeOK, MemTypeOK, MemoryBuffer
  <2>2. /\ r \in MemoryBuffer
        /\ r.block = buf[x].block /\ r.data = buf[x].data /\ r.valid = buf[x].valid
    <3> HIDE DEF x
    <3> QED
      BY <2>1 DEF MemoryBuffer
  <2>3. Assign(x, r)
    BY DEF Request
  <2> QED
    BY <1>2, <2>2, <2>3, AssignHeader DEF IInv, TypeOK
<1> QED
  BY <1>2, <1>3 DEF Buffer, IInv, TypeOK, MemTypeOK

\* What a step that ends with GoTop leaves true of the pool's own variables.
LEMMA PoolAtTop ==
    ASSUME IInv, GoTop, UNCHANGED <<nbuf, queue, root, tree, nunit, lost, terminate>>,
           FreeUnit(pool.unit), permits' \in Nat, batch' \in Seq(Buffer),
           \A j \in 1 .. Len(batch') : batch'[j] <= nbuf
    PROVE  PoolTypeOK' /\ PoolReferences'
<1>1. PoolTypeOK'
  BY DEF IInv, TypeOK, PoolTypeOK, GoTop, FreeUnit
<1>2. PoolReferences'
  BY DEF IInv, TypeOK, References, MemTypeOK, PoolReferences, GoTop, NoUnit
<1> QED
  BY <1>1, <1>2

LEMMA PoolSingleStep ==
    ASSUME IInv, PoolSingle, UNCHANGED appVars
    PROVE  IInv'
<1> USE DEF PoolSingle
<1> DEFINE x == pool.unit.buf
<1>1. pool.unit \in Unit /\ x \in Buffer
  BY DEF IInv, References, PoolReferences, Unit
<1>2. SameContents /\ x \in 1 .. nbuf
  <2>1. buf[x].lock \in Nat
    BY <1>1 DEF IInv, TypeOK, MemTypeOK, MemoryBuffer
  <2> QED
    BY <2>1, RequestStep
<1>3. MemTypeOK' /\ AppTypeOK' /\ AppReferences'
  BY <1>2, AppFrame, MemFrame DEF IInv, TypeOK, MemTypeOK
<1>4. FlushTypeOK' /\ FlushReferences'
  <2> DEFINE t == FlushBufferWithThread(x)
  <2>1. t \in FlushThread /\ ThreadInside(t)
    BY <1>1, <1>2 DEF FlushBufferWithThread, FlushThread, ThreadInside
  <2> QED
    BY <2>1, StartedThread
<1>5. PoolTypeOK' /\ PoolReferences'
  BY PoolAtTop DEF IInv, TypeOK, References, PoolTypeOK, PoolReferences
<1> QED
  BY <1>3, <1>4, <1>5 DEF IInv, TypeOK, References

LEMMA PoolExtendStep ==
    ASSUME IInv, PoolExtend, UNCHANGED appVars
    PROVE  IInv'
<1> USE DEF PoolExtend
<1> DEFINE x == pool.unit.buf
           longer == Append(batch, x)
           full == batch # <<>> /\ Len(batch) + 1 >= PacketSize
<1>1. pool.unit \in Unit /\ x \in Buffer
  BY DEF IInv, References, PoolReferences, Unit
<1>2. SameContents /\ x \in 1 .. nbuf
  <2>1. buf[x].lock \in Nat
    BY <1>1 DEF IInv, TypeOK, MemTypeOK, MemoryBuffer
  <2> QED
    BY <2>1, RequestStep
<1>3. MemTypeOK' /\ AppTypeOK' /\ AppReferences'
  BY <1>2, AppFrame, MemFrame DEF IInv, TypeOK, MemTypeOK
<1>4. /\ longer \in Seq(Buffer)
      /\ longer # <<>>
      /\ \A j \in 1 .. Len(longer) : longer[j] <= nbuf
  <2>1. batch \in Seq(Buffer) /\ \A j \in 1 .. Len(batch) : batch[j] <= nbuf
    BY DEF IInv, TypeOK, PoolTypeOK, References, PoolReferences
  <2> HIDE DEF x
  <2>2. /\ longer \in Seq(Buffer)
        /\ Len(longer) = Len(batch) + 1
        /\ \A j \in 1 .. Len(batch) : longer[j] = batch[j]
        /\ longer[Len(longer)] = x
    BY <1>1, <2>1, AppendProperties
  <2>3. Len(batch) \in Nat
    BY <2>1
  <2>4. longer # <<>>
    BY <2>2, <2>3, EmptySeq
  <2> QED
    BY <1>2, <2>1, <2>2, <2>3, <2>4
<1>5. CASE full /\ StartFlush(longer) /\ batch' = <<>> /\ UNCHANGED permits
  <2>1. FlushTypeOK' /\ FlushReferences'
    BY <1>4, <1>5, StartedBatch
  <2>2. PoolTypeOK' /\ PoolReferences'
    <3>1. /\ permits' \in Nat /\ batch' \in Seq(Buffer)
          /\ \A j \in 1 .. Len(batch') : batch'[j] <= nbuf
      BY <1>5, EmptySeq DEF IInv, TypeOK, PoolTypeOK
    <3> QED
      BY <3>1, PoolAtTop
  <2> QED
    BY <1>3, <2>1, <2>2 DEF IInv, TypeOK, References
<1>6. CASE ~full /\ batch' = longer /\ permits' = Posted /\ UNCHANGED running
  <2>1. FlushTypeOK' /\ FlushReferences'
    BY <1>6, FlushFrame
  <2>2. PoolTypeOK' /\ PoolReferences'
    <3>1. permits' \in Nat
      BY <1>6 DEF Posted, IInv, TypeOK, PoolTypeOK
    <3>2. /\ batch' \in Seq(Buffer)
          /\ \A j \in 1 .. Len(batch') : batch'[j] <= nbuf
      BY <1>4, <1>6
    <3> QED
      BY <3>1, <3>2, PoolAtTop
  <2> QED
    BY <1>3, <2>1, <2>2 DEF IInv, TypeOK, References
<1> QED
  BY <1>5, <1>6

LEMMA PoolDropStep ==
    ASSUME IInv, PoolDrop, UNCHANGED appVars
    PROVE  IInv'
<1> USE DEF PoolDrop
<1>1. SameContents /\ UNCHANGED <<nbuf, disk, fault, running, solo>> /\ pool.pc # "done"
  BY SameBuffers DEF memVars
<1>2. MemTypeOK' /\ AppTypeOK' /\ AppReferences' /\ FlushTypeOK' /\ FlushReferences'
  BY <1>1, AppFrame, MemFrame, FlushFrame DEF IInv, TypeOK, MemTypeOK
<1>3. /\ permits' \in Nat /\ batch' \in Seq(Buffer)
      /\ \A j \in 1 .. Len(batch') : batch'[j] <= nbuf
  BY DEF Posted, IInv, TypeOK, References, PoolTypeOK, PoolReferences
<1>4. PoolTypeOK' /\ PoolReferences'
  BY <1>1, <1>3, PoolAtTop
<1> QED
  BY <1>2, <1>4 DEF IInv, TypeOK, References

LEMMA PoolSwitchStep ==
    ASSUME IInv, PoolSwitch, UNCHANGED appVars
    PROVE  IInv'
<1> USE DEF PoolSwitch
<1> DEFINE x == pool.unit.buf
<1>1. pool.unit \in Unit /\ x \in Buffer
  BY DEF IInv, References, PoolReferences, Unit
<1>2. SameContents
  <2> DEFINE r == [buf[x] EXCEPT !.lock = @ - 1]
  <2>1. buf[x] \in MemoryBuffer /\ buf[x].lock - 1 \in Nat
    BY <1>1 DEF IInv, TypeOK, MemTypeOK, MemoryBuffer, Unlocked
  <2>2. /\ r \in MemoryBuffer
        /\ r.block = buf[x].block /\ r.data = buf[x].data /\ r.valid = buf[x].valid
    <3> HIDE DEF x
    <3> QED
      BY <2>1 DEF MemoryBuffer
  <2>3. Assign(x, r)
    OBVIOUS
  <2> QED
    BY <1>1, <2>2, <2>3, AssignHeader DEF IInv, TypeOK
<1>3. MemTypeOK' /\ AppTypeOK' /\ AppReferences'
  BY <1>2, AppFrame, MemFrame DEF IInv, TypeOK, MemTypeOK
<1>4. batch # <<>>
  BY <1>1 DEF NextBlocks, IInv, TypeOK, MemTypeOK, MemoryBuffer
<1>5. FlushTypeOK' /\ FlushReferences'
  BY <1>4, StartedBatch DEF IInv, TypeOK, References, PoolTypeOK, PoolReferences
<1>6. PoolTypeOK'
  BY EmptySeq DEF IInv, TypeOK, PoolTypeOK, Goto
<1>7. PoolReferences'
  BY <1>1, EmptySeq DEF IInv, TypeOK, References, PoolTypeOK, PoolReferences, Goto
<1> QED
  BY <1>3, <1>5, <1>6, <1>7 DEF IInv, TypeOK, References

LEMMA PoolBeginStep ==
    ASSUME IInv, PoolBegin, UNCHANGED appVars
    PROVE  IInv'
<1> USE DEF PoolBegin
<1> DEFINE x == pool.unit.buf
<1>1. pool.unit \in Unit /\ x \in Buffer
  BY DEF IInv, References, PoolReferences, Unit
<1>2. SameContents /\ x \in 1 .. nbuf
  <2>1. buf[x].lock + 1 \in Nat
    BY <1>1 DEF IInv, TypeOK, MemTypeOK, MemoryBuffer
  <2> QED
    BY <2>1, RequestStep
<1>3. MemTypeOK' /\ AppTypeOK' /\ AppReferences' /\ FlushTypeOK' /\ FlushReferences'
  BY <1>2, AppFrame, MemFrame, FlushFrame DEF IInv, TypeOK, MemTypeOK
<1>4. PoolTypeOK' /\ PoolReferences'
  <2>1. /\ permits' \in Nat /\ batch' \in Seq(Buffer)
        /\ \A j \in 1 .. Len(batch') : batch'[j] <= nbuf
    BY <1>1, <1>2 DEF IInv, TypeOK, PoolTypeOK
  <2> QED
    BY <2>1, PoolAtTop
<1> QED
  BY <1>3, <1>4 DEF IInv, TypeOK, References

LEMMA PoolWaitStep ==
    ASSUME IInv, PoolWait, UNCHANGED appVars
    PROVE  IInv'
<1> USE DEF PoolWait
<1>1. SameContents /\ UNCHANGED <<nbuf, disk, fault, running, solo>> /\ pool.pc # "done"
  BY SameBuffers DEF memVars
<1>2. MemTypeOK' /\ AppTypeOK' /\ AppReferences' /\ FlushTypeOK' /\ FlushReferences'
  BY <1>1, AppFrame, MemFrame, FlushFrame DEF IInv, TypeOK, MemTypeOK
<1>3. PoolTypeOK'
  BY DEF IInv, TypeOK, PoolTypeOK, Goto
<1>4. PoolReferences'
  BY <1>1 DEF IInv, TypeOK, References, PoolTypeOK, PoolReferences, Goto
<1> QED
  BY <1>2, <1>3, <1>4 DEF IInv, TypeOK, References

LEMMA PoolJoinStep ==
    ASSUME IInv, PoolJoin, UNCHANGED appVars
    PROVE  IInv'
<1> USE DEF PoolJoin
<1>1. SameContents /\ UNCHANGED <<nbuf, disk, fault, solo>> /\ pool.pc # "done"
  BY SameBuffers DEF memVars
<1>2. MemTypeOK' /\ AppTypeOK' /\ AppReferences'
  BY <1>1, AppFrame, MemFrame DEF IInv, TypeOK, MemTypeOK
<1>3. FlushTypeOK' /\ FlushReferences'
  BY <1>1, JoinedThread DEF IInv, References, PoolReferences
<1>4. PoolTypeOK'
  BY DEF IInv, TypeOK, PoolTypeOK, Goto, Posted
<1>5. PoolReferences'
  BY <1>1 DEF IInv, TypeOK, References, PoolTypeOK, PoolReferences, Goto
<1> QED
  BY <1>2, <1>3, <1>4, <1>5 DEF IInv, TypeOK, References

\* The pooling thread preserves the invariant.
LEMMA PoolStepInv ==
    ASSUME IInv, ThePool
    PROVE  IInv'
BY PoolFinishStep, PoolIdleStep, PoolFrontStep, PoolPopStep, PoolCheckStep,
   PoolSingleStep, PoolExtendStep, PoolDropStep, PoolSwitchStep, PoolBeginStep,
   PoolWaitStep, PoolJoinStep DEF ThePool, PoolStep
-----------------------------------------------------------------------------
\* Allocating a buffer changes nothing for the threads that know older ones.
LEMMA ThreadsFrame ==
    ASSUME IInv, UNCHANGED <<running, solo, poolVars>>, nbuf' \in Nat, nbuf <= nbuf'
    PROVE  FlushTypeOK' /\ FlushReferences' /\ PoolTypeOK' /\ PoolReferences'
<1> USE DEF IInv, TypeOK, References
<1>1. FlushTypeOK' /\ PoolTypeOK'
  BY DEF FlushTypeOK, PoolTypeOK, poolVars
<1>2. nbuf \in Nat
  BY DEF MemTypeOK
<1>3. ASSUME NEW t \in FlushThread, ThreadInside(t)
      PROVE  ThreadInside(t)'
  <2>1. \A j \in 1 .. Len(t.bufs) : t.bufs[j] \in Buffer
    BY ElementOfSeq DEF FlushThread
  <2> QED
    BY <1>2, <1>3, <2>1 DEF ThreadInside, Buffer
<1>4. FlushReferences'
  <2>1. \A i \in 1 .. Len(running) : running[i] \in FlushThread
    BY ElementOfSeq DEF FlushTypeOK
  <2>2. solo \in FlushThread
    BY DEF FlushTypeOK
  <2> QED
    BY <1>3, <2>1, <2>2 DEF FlushReferences, ThreadInside
<1>5. PoolReferences'
  <2>1. \A j \in 1 .. Len(batch) : batch[j] \in Buffer
    BY ElementOfSeq DEF PoolTypeOK
  <2>2. \A u \in queue \union {pool.unit} : u.buf \in Nat
    BY DEF PoolTypeOK, Unit, NoUnit, Buffer
  <2> QED
    BY <1>2, <2>1, <2>2 DEF PoolReferences, poolVars, Buffer
<1> QED
  BY <1>1, <1>4, <1>5

\* A call of os_read or os_write, hit or miss, preserves the invariant.
LEMMA BeginStep ==
    ASSUME IInv, NEW op \in {"read", "write"}, NEW b \in Block, NEW d \in Data,
           Begin(op, b, d)
    PROVE  IInv'
<1> USE DEF Begin, At
<1>1. nbuf \in Nat /\ nbuf' \in 0 .. MaxBuffers /\ nbuf <= nbuf'
  BY MemoryBufferAssumption DEF CreateNewMemoryBuffer, IInv, TypeOK, MemTypeOK
<1>2. FlushTypeOK' /\ FlushReferences' /\ PoolTypeOK' /\ PoolReferences'
  BY <1>1, ThreadsFrame
<1>3. CASE map[b] # NoBuffer
  <2>1. b \in Cached /\ map[b] \in Buffer
    BY <1>3 DEF Cached, IInv, TypeOK, AppTypeOK
  <2>2. MemTypeOK' /\ AppTypeOK'
    <3>1. MemTypeOK'
      BY <1>3 DEF IInv, TypeOK, MemTypeOK
    <3>2. ops' \in 0 .. MaxOps
      BY BufferCacheAssumption DEF IInv, TypeOK, AppTypeOK
    <3>3. main' = [pc |-> IF op = "read" THEN "copy" ELSE "wlock", op |-> op, block |-> b,
                   data |-> d, buf |-> map[b], victim |-> NoBuffer]
      BY <1>3
    <3> QED
      BY <2>1, <3>1, <3>2, <3>3 DEF IInv, TypeOK, AppTypeOK
  <2>3. AppReferences'
    BY <1>3, <2>1 DEF IInv, References, AppReferences, Cached, Live, Evicting, Deleting
  <2> QED
    BY <1>2, <2>2, <2>3 DEF IInv, TypeOK, References
<1>4. CASE map[b] = NoBuffer
  <2> DEFINE n == nbuf + 1
             r == [block |-> b, data |-> d, valid |-> TRUE, dirty |-> op = "write",
                   busy |-> FALSE, requests |-> 0, lock |-> 1]
  <2>1. n \in Buffer /\ nbuf' = n /\ Assign(n, r)
    BY <1>1, <1>4 DEF CreateNewMemoryBuffer, Assign, Buffer
  <2>2. r \in MemoryBuffer
    BY DEF MemoryBuffer
  <2>a. r.block = b /\ r.data # NULL
    BY MemoryBufferAssumption
  <2> HIDE DEF r
  <2>3. /\ buf' \in [Buffer -> MemoryBuffer]
        /\ buf'[n] = r
        /\ \A y \in Buffer : y # n => buf'[y] = buf[y]
    BY <2>1, <2>2, AssignType DEF IInv, TypeOK
  <2>4. MemTypeOK'
    BY <1>1, <2>3 DEF IInv, TypeOK, MemTypeOK
  <2>5. /\ main'.pc \in {"victim", "put"} /\ main'.buf = n /\ main'.block = b
        /\ UNCHANGED map
    BY <1>4
  <2>6. AppTypeOK'
    <3>1. ops' \in 0 .. MaxOps
      BY BufferCacheAssumption DEF IInv, TypeOK, AppTypeOK
    <3>2. main' = [pc |-> IF Full THEN "victim" ELSE "put", op |-> op, block |-> b,
                   data |-> d, buf |-> n, victim |-> NoBuffer]
      BY <1>4
    <3> HIDE DEF n
    <3> QED
      BY <2>1, <3>1, <3>2 DEF IInv, TypeOK, AppTypeOK, Evicting
  <2>7. buf'[n].data # NULL /\ buf'[n].block = b
    BY <2>3, <2>a
  <2>8. /\ \A y \in Buffer : y # n => buf'[y] = buf[y]
        /\ \A c \in Block : map[c] \in Buffer \union {NoBuffer}
        /\ \A c \in Cached : map[c] <= nbuf
    BY <2>3 DEF IInv, TypeOK, AppTypeOK, References, AppReferences
  <2>9. /\ \A c \in Cached : map[c] # n /\ map[c] <= n /\ map[c] \in Buffer
        /\ \A c \in Block : map[c] # n
    BY <1>1, <2>8 DEF Cached, Buffer
  <2>10. AppReferences'
    <3>1. \A x \in Buffer : buf'[x].valid => Live(x)'
      <4>1. ASSUME NEW x \in Buffer, x # n
            PROVE  buf'[x].valid => buf'[x].data # NULL
        BY <2>8, <4>1 DEF IInv, References, AppReferences, Live
      <4> QED
        BY <2>7, <4>1 DEF Live
    <3>2. \A c \in Cached' : map'[c] <= nbuf' /\ buf'[map'[c]].block = c /\ Live(map[c])'
      BY <2>1, <2>5, <2>8, <2>9 DEF IInv, References, AppReferences, Live, Cached
    <3>3. main'.buf \in 1 .. nbuf'
      BY <1>1, <2>1, <2>5
    <3>4. /\ main'.pc \notin {"copy", "wlock", "wdone", "push", "joinall", "closed"}
          /\ main'.pc \notin Deleting
      BY <2>5 DEF Deleting, Evicting
    <3>5. \A c \in Block : map'[c] # main'.buf
      BY <2>5, <2>9
    <3>6. Live(main.buf)' /\ buf'[main'.buf].block = main'.block
      BY <2>5, <2>7 DEF Live
    <3> QED
      BY <3>1, <3>2, <3>3, <3>4, <3>5, <3>6 DEF AppReferences, Live
  <2> QED
    BY <1>2, <2>4, <2>6, <2>10 DEF IInv, TypeOK, References
<1> QED
  BY <1>3, <1>4

\* So does every call the application may make.
LEMMA AppCallInv ==
    ASSUME IInv, AppCall
    PROVE  IInv'
<1>1. CASE Close
  <2> USE <1>1 DEF Close, At, AppGoto
  <2>1. MemTypeOK' /\ FlushTypeOK' /\ PoolTypeOK' /\ AppTypeOK'
    BY DEF IInv, TypeOK, MemTypeOK, FlushTypeOK, PoolTypeOK, AppTypeOK, memVars, Closing
  <2>2. AppReferences' /\ PoolReferences' /\ FlushReferences'
    BY DEF IInv, References, AppReferences, PoolReferences, FlushReferences, ThreadInside,
           memVars, Cached, Live, Evicting, Deleting, TypeOK, AppTypeOK
  <2> QED
    BY <2>1, <2>2 DEF IInv, TypeOK, References
<1>2. ASSUME NEW b \in Block, OsRead(b)
      PROVE  IInv'
  <2>1. disk[b] \in Data
    BY DEF IInv, TypeOK, MemTypeOK
  <2> QED
    BY <1>2, <2>1, BeginStep DEF OsRead
<1>3. ASSUME NEW b \in Block, OsWrite(b)
      PROVE  IInv'
  BY <1>3, BeginStep DEF OsWrite
<1> QED
  BY <1>1, <1>2, <1>3 DEF AppCall
-----------------------------------------------------------------------------
\* by each action of the application's thread inside a call,
LEMMA ReadHitStep ==
    ASSUME IInv, ReadHit
    PROVE  IInv'
<1> USE DEF ReadHit, At, AppGoto
<1>1. FlushTypeOK' /\ FlushReferences' /\ PoolTypeOK' /\ PoolReferences'
  BY ThreadsFrame DEF IInv, TypeOK, MemTypeOK, memVars
<1>2. MemTypeOK' /\ AppTypeOK'
  <2>1. main.buf \in Buffer /\ buf[main.buf].data \in Data
    BY DEF IInv, TypeOK, MemTypeOK, MemoryBuffer, AppTypeOK, References, AppReferences,
           Cached, Live, Evicting, Deleting
  <2>2. reply' \in [block: Block, data: Data]
    BY <2>1 DEF IInv, TypeOK, AppTypeOK
  <2> QED
    BY <2>2 DEF IInv, TypeOK, MemTypeOK, AppTypeOK, memVars
<1>3. AppReferences'
  BY DEF IInv, TypeOK, MemTypeOK, AppTypeOK, References, AppReferences, memVars,
     Cached, Live, Evicting, Deleting, Buffer
<1> QED
  BY <1>1, <1>2, <1>3 DEF IInv, TypeOK, References

LEMMA WriteLockStep ==
    ASSUME IInv, WriteLock
    PROVE  IInv'
<1> USE DEF WriteLock, At, AppGoto
<1> DEFINE x == main.buf
           r == [buf[x] EXCEPT !.lock = IF buf[x].valid THEN @ - 1 ELSE 0,
                               !.busy = TRUE,
                               !.data = main.data]
<1>1. FlushTypeOK' /\ FlushReferences' /\ PoolTypeOK' /\ PoolReferences'
  BY ThreadsFrame DEF IInv, TypeOK, MemTypeOK, memVars
<1>2. x \in Buffer
  BY DEF IInv, TypeOK, AppTypeOK, References, AppReferences, Cached, Evicting, Deleting, Buffer
<1>3. buf[x] \in MemoryBuffer /\ main.data \in Data
      /\ (IF buf[x].valid THEN buf[x].lock - 1 ELSE 0) \in Nat
  BY <1>2 DEF IInv, TypeOK, MemTypeOK, AppTypeOK, MemoryBuffer, Unlocked
<1>4. r \in MemoryBuffer /\ r.block = buf[x].block /\ r.data # NULL
      /\ r.valid = buf[x].valid
  <2> HIDE DEF x
  <2> QED
    BY <1>3, MemoryBufferAssumption DEF MemoryBuffer
<1>5. Assign(x, r)
  OBVIOUS
<1> HIDE DEF r
<1>6. /\ buf' \in [Buffer -> MemoryBuffer]
      /\ buf'[x] = r
      /\ \A y \in Buffer : y # x => buf'[y] = buf[y]
  BY <1>2, <1>4, <1>5, AssignType DEF IInv, TypeOK
<1>7. MemTypeOK' /\ AppTypeOK'
  BY <1>6 DEF IInv, TypeOK, MemTypeOK, AppTypeOK, Evicting
<1>8. AppReferences'
  BY <1>2, <1>4, <1>6 DEF IInv, TypeOK, AppTypeOK, References, AppReferences, MemTypeOK,
     Cached, Live, Evicting, Deleting, Buffer
<1> QED
  BY <1>1, <1>7, <1>8 DEF IInv, TypeOK, References

LEMMA WriteUnlockStep ==
    ASSUME IInv, WriteUnlock
    PROVE  IInv'
<1> USE DEF WriteUnlock, At, AppGoto
<1> DEFINE x == main.buf
           r == [buf[x] EXCEPT !.valid = TRUE, !.dirty = TRUE, !.busy = FALSE, !.lock = @ + 1]
<1>1. FlushTypeOK' /\ FlushReferences' /\ PoolTypeOK' /\ PoolReferences'
  BY ThreadsFrame DEF IInv, TypeOK, MemTypeOK, memVars
<1>2. x \in Buffer
  BY DEF IInv, TypeOK, AppTypeOK, References, AppReferences, Cached, Evicting, Deleting, Buffer
<1>3. buf[x] \in MemoryBuffer /\ buf[x].lock + 1 \in Nat
  BY <1>2 DEF IInv, TypeOK, MemTypeOK, AppTypeOK, MemoryBuffer
<1>4. r \in MemoryBuffer /\ r.block = buf[x].block /\ r.data = buf[x].data
  <2> HIDE DEF x
  <2> QED
    BY <1>3 DEF MemoryBuffer
<1>5. Assign(x, r)
  OBVIOUS
<1> HIDE DEF r
<1>6. /\ buf' \in [Buffer -> MemoryBuffer]
      /\ buf'[x] = r
      /\ \A y \in Buffer : y # x => buf'[y] = buf[y]
  BY <1>2, <1>4, <1>5, AssignType DEF IInv, TypeOK
<1>7. MemTypeOK' /\ AppTypeOK'
  BY <1>6 DEF IInv, TypeOK, MemTypeOK, AppTypeOK, Evicting
<1>8. AppReferences'
  BY <1>2, <1>4, <1>6 DEF IInv, TypeOK, AppTypeOK, References, AppReferences, MemTypeOK,
     Cached, Live, Evicting, Deleting, Buffer
<1> QED
  BY <1>1, <1>7, <1>8 DEF IInv, TypeOK, References

LEMMA PutStep ==
    ASSUME IInv, Put
    PROVE  IInv'
<1> USE DEF Put, At, AppGoto
<1>1. FlushTypeOK' /\ FlushReferences' /\ PoolTypeOK' /\ PoolReferences'
  BY ThreadsFrame DEF IInv, TypeOK, MemTypeOK, memVars
<1>2. MemTypeOK' /\ AppTypeOK'
  BY DEF IInv, TypeOK, MemTypeOK, AppTypeOK, memVars, Evicting
<1>3. AppReferences'
  BY DEF IInv, TypeOK, MemTypeOK, AppTypeOK, References, AppReferences, memVars,
     Cached, Live, Evicting, Deleting, Buffer
<1> QED
  BY <1>1, <1>2, <1>3 DEF IInv, TypeOK, References

LEMMA FindVictimStep ==
    ASSUME IInv, FindVictim
    PROVE  IInv'
<1>1. /\ main.pc = "victim"
      /\ UNCHANGED <<memVars, running, solo, poolVars, map, reply, ops>>
  BY DEF FindVictim, At
<1>2. FlushTypeOK' /\ FlushReferences' /\ PoolTypeOK' /\ PoolReferences'
  BY <1>1, ThreadsFrame DEF IInv, TypeOK, MemTypeOK, memVars
<1>3. CASE AppGoto("put")
  <2>1. MemTypeOK' /\ AppTypeOK'
    BY <1>1, <1>3 DEF AppGoto, IInv, TypeOK, MemTypeOK, AppTypeOK, memVars
  <2>2. AppReferences'
    BY <1>1, <1>3 DEF AppGoto, IInv, TypeOK, AppTypeOK, References, AppReferences, memVars,
       Cached, Live, Evicting, Deleting
  <2> QED
    BY <1>2, <2>1, <2>2 DEF IInv, TypeOK, References
<1>4. ASSUME NEW b \in Cached, main' = [main EXCEPT !.pc = "waitbusy", !.victim = map[b]]
      PROVE  IInv'
  <2>1. b \in Block /\ map[b] \in Buffer /\ buf[map[b]].block = b
    BY DEF Cached, IInv, TypeOK, AppTypeOK, References, AppReferences
  <2>2. MemTypeOK' /\ AppTypeOK'
    BY <1>1, <1>4, <2>1 DEF IInv, TypeOK, MemTypeOK, AppTypeOK, memVars, Evicting
  <2>3. /\ main'.pc = "waitbusy" /\ main'.victim = map[b]
        /\ main'.buf = main.buf /\ main'.block = main.block
    BY <1>4 DEF IInv, TypeOK, AppTypeOK
  <2>4. AppReferences'
    BY <1>1, <2>1, <2>3 DEF IInv, TypeOK, AppTypeOK, References, AppReferences, memVars,
       Cached, Live, Evicting, Deleting
  <2> QED
    BY <1>2, <2>2, <2>4 DEF IInv, TypeOK, References
<1> QED
  BY <1>3, <1>4 DEF FindVictim

LEMMA WaitNotBusyStep ==
    ASSUME IInv, WaitNotBusy
    PROVE  IInv'
<1> USE DEF WaitNotBusy, At, AppGoto
<1>1. FlushTypeOK' /\ FlushReferences' /\ PoolTypeOK' /\ PoolReferences'
  BY ThreadsFrame DEF IInv, TypeOK, MemTypeOK, memVars
<1>2. MemTypeOK' /\ AppTypeOK'
  BY DEF IInv, TypeOK, MemTypeOK, AppTypeOK, memVars, Evicting
<1>3. AppReferences'
  BY DEF IInv, TypeOK, MemTypeOK, AppTypeOK, References, AppReferences, memVars,
     Cached, Live, Evicting, Deleting, Buffer
<1> QED
  BY <1>1, <1>2, <1>3 DEF IInv, TypeOK, References

LEMMA WaitNoRequestsStep ==
    ASSUME IInv, WaitNoRequests
    PROVE  IInv'
<1> USE DEF WaitNoRequests, At, AppGoto
<1>1. FlushTypeOK' /\ FlushReferences' /\ PoolTypeOK' /\ PoolReferences'
  BY ThreadsFrame DEF IInv, TypeOK, MemTypeOK, memVars
<1>2. MemTypeOK' /\ AppTypeOK'
  BY DEF IInv, TypeOK, MemTypeOK, AppTypeOK, memVars, Evicting
<1>3. AppReferences'
  BY DEF IInv, TypeOK, MemTypeOK, AppTypeOK, References, AppReferences, memVars,
     Cached, Live, Evicting, Deleting, Buffer
<1> QED
  BY <1>1, <1>2, <1>3 DEF IInv, TypeOK, References

LEMMA WaitCleanStep ==
    ASSUME IInv, WaitClean
    PROVE  IInv'
<1> USE DEF WaitClean, At, AppGoto
<1>1. FlushTypeOK' /\ FlushReferences' /\ PoolTypeOK' /\ PoolReferences'
  BY ThreadsFrame DEF IInv, TypeOK, MemTypeOK, memVars
<1>2. MemTypeOK' /\ AppTypeOK'
  BY DEF IInv, TypeOK, MemTypeOK, AppTypeOK, memVars, Evicting
<1>3. AppReferences'
  BY DEF IInv, TypeOK, MemTypeOK, AppTypeOK, References, AppReferences, memVars,
     Cached, Live, Evicting, Deleting, Buffer
<1> QED
  BY <1>1, <1>2, <1>3 DEF IInv, TypeOK, References

LEMMA FreeStep ==
    ASSUME IInv, Free
    PROVE  IInv'
<1> USE DEF Free, At, AppGoto
<1> DEFINE x == main.victim
           r == [buf[x] EXCEPT !.valid = FALSE, !.data = NULL]
<1>1. FlushTypeOK' /\ FlushReferences' /\ PoolTypeOK' /\ PoolReferences'
  BY ThreadsFrame DEF IInv, TypeOK, MemTypeOK, memVars
<1>2. x \in Buffer
  BY DEF IInv, TypeOK, AppTypeOK, References, AppReferences, Cached, Evicting, Deleting, Buffer
<1>3. buf[x] \in MemoryBuffer
  BY <1>2 DEF IInv, TypeOK, MemTypeOK, AppTypeOK, MemoryBuffer
<1>4. r \in MemoryBuffer /\ r.block = buf[x].block
      /\ r.valid = FALSE /\ r.data = NULL
  <2> HIDE DEF x
  <2> QED
    BY <1>3 DEF MemoryBuffer
<1>5. Assign(x, r)
  OBVIOUS
<1> HIDE DEF r
<1>6. /\ buf' \in [Buffer -> MemoryBuffer]
      /\ buf'[x] = r
      /\ \A y \in Buffer : y # x => buf'[y] = buf[y]
  BY <1>2, <1>4, <1>5, AssignType DEF IInv, TypeOK
<1>7. MemTypeOK' /\ AppTypeOK'
  BY <1>6 DEF IInv, TypeOK, MemTypeOK, AppTypeOK, Evicting
<1>8. AppReferences'
  BY <1>2, <1>4, <1>6 DEF IInv, TypeOK, AppTypeOK, References, AppReferences, MemTypeOK,
     Cached, Live, Evicting, Deleting, Buffer
<1> QED
  BY <1>1, <1>7, <1>8 DEF IInv, TypeOK, References

LEMMA DestroyStep ==
    ASSUME IInv, Destroy
    PROVE  IInv'
<1> USE DEF Destroy, At, AppGoto
<1> DEFINE x == main.victim
           r == [buf[x] EXCEPT !.lock = 0]
<1>1. FlushTypeOK' /\ FlushReferences' /\ PoolTypeOK' /\ PoolReferences'
  BY ThreadsFrame DEF IInv, TypeOK, MemTypeOK, memVars
<1>2. x \in Buffer
  BY DEF IInv, TypeOK, AppTypeOK, References, AppReferences, Cached, Evicting, Deleting, Buffer
<1>3. buf[x] \in MemoryBuffer
  BY <1>2 DEF IInv, TypeOK, MemTypeOK, AppTypeOK, MemoryBuffer
<1>4. r \in MemoryBuffer /\ r.block = buf[x].block
      /\ r.valid = buf[x].valid /\ r.data = buf[x].data
  <2> HIDE DEF x
  <2> QED
    BY <1>3 DEF MemoryBuffer
<1>5. Assign(x, r)
  OBVIOUS
<1> HIDE DEF r
<1>6. /\ buf' \in [Buffer -> MemoryBuffer]
      /\ buf'[x] = r
      /\ \A y \in Buffer : y # x => buf'[y] = buf[y]
  BY <1>2, <1>4, <1>5, AssignType DEF IInv, TypeOK
<1>7. MemTypeOK' /\ AppTypeOK'
  BY <1>6 DEF IInv, TypeOK, MemTypeOK, AppTypeOK, Evicting, ForgetBlock
<1>8. AppReferences'
  BY <1>2, <1>4, <1>6 DEF IInv, TypeOK, AppTypeOK, References, AppReferences, MemTypeOK,
     Cached, Live, Evicting, Deleting, Buffer, ForgetBlock
<1> QED
  BY <1>1, <1>7, <1>8 DEF IInv, TypeOK, References

\* A unit for a buffer that exists enters the heap.
LEMMA AddQueueStep ==
    ASSUME IInv, NEW x \in 1 .. nbuf, NEW p \in {0, 1}, AddQueue(x, p),
           UNCHANGED <<nbuf, running, permits, batch, pool, terminate>>
    PROVE  PoolTypeOK' /\ PoolReferences'
<1> DEFINE u == [id |-> nunit + 1, buf |-> x, priority |-> p]
<1>1. u \in Unit /\ nunit' \in 0 .. MaxUnits
  <2>1. x \in Buffer
    BY MemoryBufferAssumption DEF Buffer, IInv, TypeOK, MemTypeOK
  <2>2. nunit + 1 \in 1 .. MaxUnits /\ nunit' = nunit + 1
    BY ThreadPoolAssumption DEF AddQueue, IInv, TypeOK, PoolTypeOK
  <2> QED
    BY <2>1, <2>2 DEF Unit
<1>2. /\ queue' \subseteq queue \union {u} /\ root' \in queue'
      /\ tree' \in {"whole", "stale", "broken"}
      /\ dangling' \subseteq dangling /\ lost' \subseteq lost \union queue
  <2>1. CASE tree = "whole"
    BY <2>1 DEF AddQueue, IInv, References, PoolReferences
  <2>2. CASE tree # "whole"
    BY <2>2 DEF AddQueue
  <2> QED
    BY <2>1, <2>2
<1> HIDE DEF u
<1>3. PoolTypeOK'
  BY <1>1, <1>2 DEF IInv, TypeOK, PoolTypeOK
<1>4. PoolReferences'
  <2>1. u.buf <= nbuf
    BY DEF u, IInv, TypeOK, MemTypeOK
  <2> QED
    BY <1>2, <2>1 DEF IInv, TypeOK, References, PoolReferences
<1> QED
  BY <1>3, <1>4

LEMMA PushStep ==
    ASSUME IInv, Push
    PROVE  IInv'
<1> USE DEF Push, At, AppGoto
<1>1. FlushTypeOK' /\ FlushReferences'
  BY FlushFrame DEF memVars
<1>2. PoolTypeOK' /\ PoolReferences'
  <2>1. main.buf \in 1 .. nbuf
    BY DEF IInv, References, AppReferences
  <2> QED
    BY <2>1, AddQueueStep DEF memVars
<1>3. MemTypeOK' /\ AppTypeOK'
  BY DEF IInv, TypeOK, MemTypeOK, AppTypeOK, memVars
<1>4. AppReferences'
  BY DEF IInv, TypeOK, AppTypeOK, References, AppReferences, memVars, Cached, Live,
         Evicting, Deleting
<1> QED
  BY <1>1, <1>2, <1>3, <1>4 DEF IInv, TypeOK, References

\* The victim of an eviction is the buffer in the map for its block.
LEMMA VictimCached ==
    ASSUME IInv, main.pc \in Deleting
    PROVE  main.victim \in Buffer /\ main.victim \in 1 .. nbuf
BY DEF IInv, TypeOK, MemTypeOK, MemoryBuffer, References, AppReferences, Cached, Buffer

\* Going on with the eviction of the same victim disturbs no reference.
LEMMA EvictionFrame ==
    ASSUME IInv, SameContents, UNCHANGED <<nbuf, map, reply, ops>>, main.pc \in Deleting,
           main.pc # "destroy", NEW pc \in Deleting, AppGoto(pc)
    PROVE  AppTypeOK' /\ AppReferences'
<1>1. AppTypeOK'
  BY DEF IInv, TypeOK, AppTypeOK, AppGoto, Deleting
<1>2. /\ main'.pc = pc /\ main'.buf = main.buf /\ main'.block = main.block
      /\ main'.victim = main.victim
  BY DEF IInv, TypeOK, AppTypeOK, AppGoto
<1>3. main.victim \in Buffer /\ main.buf \in Buffer
  BY VictimCached, MemoryBufferAssumption
     DEF IInv, TypeOK, MemTypeOK, References, AppReferences, Deleting, Buffer
<1>4. AppReferences'
  BY <1>2, <1>3 DEF IInv, TypeOK, AppTypeOK, References, AppReferences, SameContents,
     Cached, Live, Deleting, Evicting
<1> QED
  BY <1>1, <1>4

LEMMA InspectStep ==
    ASSUME IInv, Inspect
    PROVE  IInv'
<1> DEFINE x == main.victim
<1>1. /\ main.pc = "inspect" /\ main.pc \in Deleting /\ main.pc # "destroy"
      /\ UNCHANGED <<nbuf, disk, fault, running, map, reply, ops>> /\ UNCHANGED poolVars
  BY DEF Inspect, At, Evicting, Deleting
<1>2. x \in Buffer /\ x \in 1 .. nbuf
  BY <1>1, VictimCached
<1>3. ASSUME NEW pc \in {"free", "requeue"}, AppGoto(pc), UNCHANGED <<buf, solo>>
      PROVE  IInv'
  <2>1. SameContents
    BY <1>3, SameBuffers
  <2>2. AppTypeOK' /\ AppReferences'
    BY <1>1, <1>3, <2>1, EvictionFrame DEF Deleting, Evicting
  <2>3. MemTypeOK'
    BY <1>1, <2>1, MemFrame DEF IInv, TypeOK, MemTypeOK
  <2>4. FlushTypeOK' /\ FlushReferences' /\ PoolTypeOK' /\ PoolReferences'
    BY <1>1, <1>3, ThreadsFrame DEF IInv, TypeOK, MemTypeOK, poolVars
  <2> QED
    BY <2>2, <2>3, <2>4 DEF IInv, TypeOK, References
<1>4. CASE /\ Assign(x, [buf[x] EXCEPT !.busy = TRUE])
           /\ solo' = FlushBufferWithThread(x)
           /\ AppGoto("join")
  <2> DEFINE r == [buf[x] EXCEPT !.busy = TRUE]
  <2>1. /\ r \in MemoryBuffer
        /\ r.block = buf[x].block /\ r.data = buf[x].data /\ r.valid = buf[x].valid
    BY <1>2 DEF IInv, TypeOK, MemTypeOK, MemoryBuffer
  <2>2. SameContents
    BY <1>2, <1>4, <2>1, AssignHeader DEF IInv, TypeOK
  <2>3. AppTypeOK' /\ AppReferences'
    BY <1>1, <1>4, <2>2, EvictionFrame DEF Deleting, Evicting
  <2>4. MemTypeOK'
    BY <1>1, <2>2, MemFrame DEF IInv, TypeOK, MemTypeOK
  <2>5. FlushTypeOK' /\ FlushReferences'
    <3>1. FlushBufferWithThread(x) \in FlushThread /\ ThreadInside(FlushBufferWithThread(x))
      BY <1>2 DEF FlushBufferWithThread, FlushThread, ThreadInside
    <3> QED
      BY <1>1, <1>4, <3>1 DEF IInv, TypeOK, References, FlushTypeOK, FlushReferences,
         ThreadInside
  <2>6. PoolTypeOK' /\ PoolReferences'
    BY <1>1, <1>4 DEF IInv, TypeOK, References, PoolTypeOK, PoolReferences, poolVars
  <2> QED
    BY <2>3, <2>4, <2>5, <2>6 DEF IInv, TypeOK, References
<1> QED
  BY <1>3, <1>4 DEF Inspect

LEMMA RequeueStep ==
    ASSUME IInv, Requeue
    PROVE  IInv'
<1> DEFINE x == main.victim
<1>1. /\ main.pc = "requeue" /\ main.pc \in Deleting /\ main.pc # "destroy"
      /\ UNCHANGED <<buf, nbuf, disk, fault, running, solo, permits, batch, pool,
                     terminate, map, reply, ops>>
      /\ AddQueue(x, 1) /\ AppGoto("waitclean")
  BY DEF Requeue, At, Evicting, Deleting, memVars
<1>2. x \in Buffer /\ x \in 1 .. nbuf
  BY <1>1, VictimCached
<1>3. SameContents
  BY <1>1, SameBuffers
<1>4. AppTypeOK' /\ AppReferences'
  BY <1>1, <1>3, EvictionFrame DEF Deleting, Evicting
<1>5. MemTypeOK'
  BY <1>1, <1>3, MemFrame DEF IInv, TypeOK, MemTypeOK
<1>6. FlushTypeOK' /\ FlushReferences'
  BY <1>1, FlushFrame
<1>7. PoolTypeOK' /\ PoolReferences'
  BY <1>1, <1>2, AddQueueStep
<1> QED
  BY <1>4, <1>5, <1>6, <1>7 DEF IInv, TypeOK, References

LEMMA JoinStep ==
    ASSUME IInv, Join
    PROVE  IInv'
<1> DEFINE x == main.victim
           r == [buf[x] EXCEPT !.busy = FALSE]
<1>1. /\ main.pc = "join" /\ main.pc \in Deleting /\ main.pc # "destroy"
      /\ solo' = NoThread /\ Assign(x, r) /\ AppGoto("free")
      /\ UNCHANGED <<nbuf, disk, fault, running, poolVars, map, reply, ops>>
  BY DEF Join, At, Evicting, Deleting
<1>2. x \in Buffer
  BY <1>1, VictimCached
<1>3. SameContents
  <2>1. /\ r \in MemoryBuffer
        /\ r.block = buf[x].block /\ r.data = buf[x].data /\ r.valid = buf[x].valid
    BY <1>2 DEF IInv, TypeOK, MemTypeOK, MemoryBuffer
  <2> QED
    BY <1>1, <1>2, <2>1, AssignHeader DEF IInv, TypeOK
<1>4. AppTypeOK' /\ AppReferences'
  BY <1>1, <1>3, EvictionFrame DEF Deleting, Evicting
<1>5. MemTypeOK'
  BY <1>1, <1>3, MemFrame DEF IInv, TypeOK, MemTypeOK
<1>6. FlushTypeOK' /\ FlushReferences'
  <2>1. NoThread \in FlushThread /\ NoThread.pc = "done" /\ Len(NoThread.bufs) = 0
    BY DEF NoThread, FlushThread
  <2> QED
    BY <1>1, <2>1 DEF IInv, TypeOK, References, FlushTypeOK, FlushReferences, ThreadInside
<1>7. PoolTypeOK' /\ PoolReferences'
  BY <1>1 DEF IInv, TypeOK, References, PoolTypeOK, PoolReferences, poolVars
<1> QED
  BY <1>4, <1>5, <1>6, <1>7 DEF IInv, TypeOK, References

LEMMA JoinPoolStep ==
    ASSUME IInv, JoinPool
    PROVE  IInv'
<1> USE DEF JoinPool, At, AppGoto
<1>1. FlushTypeOK' /\ FlushReferences' /\ PoolTypeOK' /\ PoolReferences'
  BY ThreadsFrame DEF IInv, TypeOK, MemTypeOK, memVars
<1>2. MemTypeOK' /\ AppTypeOK'
  BY DEF IInv, TypeOK, MemTypeOK, AppTypeOK, memVars, Closing
<1>3. AppReferences'
  BY DEF IInv, TypeOK, AppTypeOK, References, AppReferences, memVars, poolVars,
     Cached, Live, Evicting, Deleting
<1> QED
  BY <1>1, <1>2, <1>3 DEF IInv, TypeOK, References

LEMMA JoinAllStep ==
    ASSUME IInv, JoinAll
    PROVE  IInv'
<1> USE DEF JoinAll, At, AppGoto
<1>1. pool.pc = "done" /\ main.pc = "joinall"
  BY DEF IInv, References, AppReferences
<1>2. MemTypeOK'
  BY DEF IInv, TypeOK, MemTypeOK, memVars
<1>3. CASE running # <<>> /\ running' = Tail(running) /\ UNCHANGED <<queue, root, dangling, main>>
  <2>1. FlushTypeOK' /\ FlushReferences'
    BY <1>3, JoinedThread DEF memVars
  <2>2. PoolTypeOK' /\ PoolReferences'
    BY <1>1, <1>3 DEF IInv, TypeOK, References, PoolTypeOK, PoolReferences, memVars
  <2>3. AppTypeOK' /\ AppReferences'
    BY <1>1, <1>3 DEF IInv, TypeOK, AppTypeOK, References, AppReferences, memVars, Cached,
       Live, Evicting, Deleting
  <2> QED
    BY <1>2, <2>1, <2>2, <2>3 DEF IInv, TypeOK, References
<1>4. CASE /\ queue' = {} /\ root' = NoUnit /\ dangling' = {}
           /\ AppGoto("closed") /\ UNCHANGED running
  <2>1. FlushTypeOK' /\ FlushReferences'
    BY <1>4, FlushFrame DEF memVars
  <2>2. PoolTypeOK' /\ PoolReferences'
    BY <1>1, <1>4 DEF IInv, TypeOK, References, PoolTypeOK, PoolReferences, memVars
  <2>3. AppTypeOK' /\ AppReferences'
    BY <1>1, <1>4 DEF IInv, TypeOK, AppTypeOK, References, AppReferences, memVars, Cached,
       Live, Evicting, Deleting, Closing
  <2> QED
    BY <1>2, <2>1, <2>2, <2>3 DEF IInv, TypeOK, References
<1> QED
  BY <1>3, <1>4

\* The application's thread preserves the invariant.
LEMMA AppStepInv ==
    ASSUME IInv, AppStep
    PROVE  IInv'
BY ReadHitStep, WriteLockStep, WriteUnlockStep, PutStep, PushStep, FindVictimStep,
   WaitNotBusyStep, WaitNoRequestsStep, InspectStep, RequeueStep, JoinStep, WaitCleanStep, FreeStep,
   DestroyStep, JoinPoolStep, JoinAllStep DEF AppStep
-----------------------------------------------------------------------------
\* It holds at the start and is preserved by every step.
LEMMA InitInv == Init => IInv
<1> SUFFICES ASSUME Init PROVE IInv
  OBVIOUS
<1> USE DEF Init, MemInit, FlushInit, PoolInit
<1>1. MemTypeOK
  <2>1. 0 \in Block /\ 0 \in 0 .. MaxBuffers
    BY MemoryBufferAssumption DEF Block
  <2>2. Unallocated \in MemoryBuffer
    BY <2>1 DEF Unallocated, MemoryBuffer
  <2> QED
    BY <2>1, <2>2 DEF MemTypeOK
<1>2. NoThread \in FlushThread /\ NoThread.pc = "done" /\ Len(NoThread.bufs) = 0
  BY DEF NoThread, FlushThread
<1>3. FlushTypeOK /\ FlushReferences
  BY <1>2, EmptySeq DEF FlushTypeOK, FlushReferences, ThreadInside
<1>4. PoolTypeOK /\ PoolReferences
  <2>1. 0 \in 0 .. MaxUnits /\ NThreads \in Nat /\ <<>> \in Seq(Buffer) /\ Len(<<>>) = 0
    BY ThreadPoolAssumption, EmptySeq
  <2>2. NoUnit.buf <= nbuf
    BY DEF NoUnit
  <2>3. PoolTypeOK
    BY <2>1 DEF PoolTypeOK
  <2>4. PoolReferences
    BY <2>1, <2>2 DEF PoolReferences
  <2> QED
    BY <2>3, <2>4
<1>5. AppTypeOK
  BY MemoryBufferAssumption, BufferCacheAssumption DEF AppTypeOK, Block, NoReply
<1>6. AppReferences
  BY DEF AppReferences, Cached, Evicting, Deleting, Unallocated
<1> QED
  BY <1>1, <1>3, <1>4, <1>5, <1>6 DEF IInv, TypeOK, References

LEMMA NextInv == IInv /\ [Next]_vars => IInv'
<1> SUFFICES ASSUME IInv, [Next]_vars PROVE IInv'
  OBVIOUS
<1>1. CASE UNCHANGED vars
  <2>1. /\ UNCHANGED <<buf, nbuf, disk, fault>> /\ UNCHANGED appVars
        /\ UNCHANGED <<running, solo>> /\ UNCHANGED poolVars
    BY <1>1 DEF vars, memVars
  <2>2. FlushTypeOK' /\ FlushReferences' /\ PoolTypeOK' /\ PoolReferences'
    BY <2>1, ThreadsFrame DEF IInv, TypeOK, MemTypeOK
  <2>3. MemTypeOK'
    BY <2>1 DEF IInv, TypeOK, MemTypeOK
  <2>4. AppTypeOK'
    BY <2>1 DEF IInv, TypeOK, AppTypeOK, appVars
  <2>5. AppReferences'
    BY <2>1 DEF IInv, References, AppReferences, appVars, poolVars, Cached, Live
  <2> QED
    BY <2>2, <2>3, <2>4, <2>5 DEF IInv, TypeOK, References
<1>2. CASE Stopped
  BY <1>1, <1>2 DEF Stopped
<1> QED
  BY <1>1, <1>2, AppCallInv, AppStepInv, PoolStepInv, FlushStepInv DEF Next

\* Every variable keeps its type for every disk, cache, pool and number of
\* threads: no counter of BufferCache goes below zero, and every buffer a
\* thread has in hand is a MemoryBuffer.
THEOREM TypeCorrect == Spec => []TypeOK
<1>1. IInv => TypeOK
  BY DEF IInv
<1> QED
  BY InitInv, NextInv, <1>1, PTL DEF Spec

\* The map, the application's locals, the work units, the batches and the flush
\* threads always point where deleteMemoryBuffer and the threads of
\* disk_write.c rely on them to point.
THEOREM ReferencesHold == Spec => []References
<1>1. IInv => References
  BY DEF IInv
<1> QED
  BY InitInv, NextInv, <1>1, PTL DEF Spec
-----------------------------------------------------------------------------
(* Permits and batches, on top of IInv *)


\* The invariant holds all along a behaviour, with the step it is needed for.
LEMMA IInvAlways == Spec => []IInv
BY InitInv, NextInv, PTL DEF Spec

\* A flush thread's step neither starts nor joins a thread.
LEMMA FlushKeepsThreads ==
    ASSUME IInv, NEW i \in Flushers, TheFlusher(i)
    PROVE  /\ SameContents /\ StaysInside(i) /\ Len(running') = Len(running)
           /\ UNCHANGED <<nbuf, poolVars, appVars>>
<1>1. SameContents /\ StaysInside(i) /\ UNCHANGED <<nbuf, poolVars, appVars>>
  <2>1. UNCHANGED nbuf
    BY DEF TheFlusher, FlushStep, SingleCheck, SingleSync, MultiLock, MultiWrite,
           MultiRelease
  <2> QED
    BY <2>1, SingleCheckStep, SingleSyncStep, MultiLockStep, MultiWriteStep,
       MultiReleaseStep DEF TheFlusher, FlushStep
<1>2. Len(running') = Len(running)
  BY <1>1, AdvanceType DEF StaysInside, IInv, TypeOK
<1> QED
  BY <1>1, <1>2
-----------------------------------------------------------------------------
(* The permits *)

\* Each action of the pooling thread gives back or hands on the permit it took.
LEMMA PoolPermits ==
    ASSUME IInv, PermitsAccounted, NEW pushing, PoolStep(pushing)
    PROVE  PermitsAccounted'
<1> USE DEF PermitsAccounted, HoldsPermit
<1>1. /\ permits \in Nat /\ Len(running) \in Nat /\ NThreads \in Nat
      /\ running \in Seq(FlushThread)
      /\ pool \in [pc: {"top", "pop", "check", "lock", "begin", "join", "done"},
                   unit: Unit \union {NoUnit}]
  BY ThreadPoolAssumption DEF IInv, TypeOK, PoolTypeOK, FlushTypeOK
<1>2. ASSUME NEW xs, StartFlush(xs)
      PROVE  Len(running') = Len(running) + 1
  BY <1>1, <1>2 DEF StartFlush
<1>3. CASE PoolFinish
  BY <1>1, <1>3 DEF PoolFinish, Goto
<1>4. CASE PoolIdle
  BY <1>1, <1>2, <1>4 DEF PoolIdle
<1>5. CASE PoolFront
  BY <1>1, <1>5 DEF PoolFront, PermitFree
<1>6. CASE PoolPop(pushing)
  BY <1>1, <1>6 DEF PoolPop, Goto
<1>7. CASE PoolCheck
  BY <1>1, <1>7 DEF PoolCheck, Goto, GoTop, Posted
<1>8. CASE PoolSingle
  <2>1. Len(running') = Len(running) + 1
    BY <1>1, <1>8 DEF PoolSingle
  <2> QED
    BY <1>1, <1>8, <2>1 DEF PoolSingle, GoTop
<1>9. CASE PoolExtend
  <2>1. \/ Len(running') = Len(running) + 1 /\ permits' = permits
        \/ Len(running') = Len(running) /\ permits' = permits + 1
    BY <1>1, <1>2, <1>9 DEF PoolExtend, Posted
  <2>2. pool.pc = "lock" /\ pool'.pc = "top"
    BY <1>9 DEF PoolExtend, GoTop
  <2> QED
    BY <1>1, <2>1, <2>2
<1>10. CASE PoolDrop
  BY <1>1, <1>10 DEF PoolDrop, GoTop, Posted
<1>11. CASE PoolSwitch
  <2>1. Len(running') = Len(running) + 1
    BY <1>2, <1>11 DEF PoolSwitch
  <2>2. pool.pc = "lock" /\ pool'.pc = "begin" /\ permits' = permits
    BY <1>1, <1>11 DEF PoolSwitch, Goto
  <2> QED
    BY <1>1, <2>1, <2>2
<1>12. CASE PoolBegin
  BY <1>1, <1>12 DEF PoolBegin, GoTop
<1>13. CASE PoolWait
  BY <1>1, <1>13 DEF PoolWait, Goto
<1>14. CASE PoolJoin
  <2>1. running # <<>>
    BY <1>14 DEF PoolJoin, IInv, References, PoolReferences
  <2>2. Len(running') = Len(running) - 1
    BY <1>1, <1>14, <2>1, RunningTail DEF PoolJoin
  <2>3. pool.pc = "join" /\ pool'.pc = "top" /\ permits' = permits + 1
    BY <1>1, <1>14 DEF PoolJoin, Goto, Posted
  <2> QED
    BY <1>1, <2>2, <2>3
<1> QED
  BY <1>3, <1>4, <1>5, <1>6, <1>7, <1>8, <1>9, <1>10, <1>11, <1>12, <1>13, <1>14
     DEF PoolStep

\* Only the pooling thread and ThreadPoolClose, once that thread has ended,
\* touch the permits and running_queue.
LEMMA AppKeepsPool ==
    ASSUME IInv, AppCall \/ AppStep
    PROVE  \/ pool.pc = "done" /\ UNCHANGED pool
           \/ UNCHANGED <<permits, pool, running, batch>>
<1>1. CASE AppCall
  BY <1>1 DEF AppCall, Close, OsRead, OsWrite, Begin, poolVars
<1>2. CASE JoinAll
  BY <1>2 DEF JoinAll, At, IInv, References, AppReferences
<1>3. CASE AppStep /\ ~JoinAll
  BY <1>3 DEF AppStep, ReadHit, WriteLock, WriteUnlock, Put, Push, FindVictim, WaitNotBusy,
     WaitNoRequests, Inspect, Requeue, Join, WaitClean, Free, Destroy, JoinPool, poolVars
<1> QED
  BY <1>1, <1>2, <1>3

\* Only closing the pool joins a thread outside the pooling thread.
LEMMA AppKeepsLists ==
    ASSUME AppCall \/ AppStep
    PROVE  UNCHANGED batch /\ (UNCHANGED running \/ JoinAll)
BY DEF AppCall, Close, OsRead, OsWrite, Begin, AppStep, ReadHit, WriteLock, WriteUnlock,
   Put, Push, FindVictim, WaitNotBusy, WaitNoRequests, Inspect, Requeue, Join, WaitClean, Free,
   Destroy, JoinPool, JoinAll, poolVars

\* However units, batches and joins interleave, sem_trywait fails only when
\* running_queue has a thread to join: the pooling thread cannot wait for a
\* permit nobody will post (thread_pool.c, ThreadPoolMainPooling1).
THEOREM PermitsHold == Spec => []PermitsAccounted
<1>1. Init => PermitsAccounted
  BY ThreadPoolAssumption, EmptySeq
     DEF Init, PoolInit, FlushInit, PermitsAccounted, HoldsPermit
<1>2. IInv /\ PermitsAccounted /\ [Next]_vars => PermitsAccounted'
  <2> SUFFICES ASSUME IInv, PermitsAccounted, [Next]_vars PROVE PermitsAccounted'
    OBVIOUS
  <2> USE DEF PermitsAccounted, HoldsPermit
  <2>1. CASE AppCall \/ AppStep
    BY <2>1, AppKeepsPool
  <2>2. CASE ThePool
    BY <2>2, PoolPermits DEF ThePool
  <2>3. ASSUME NEW i \in Flushers, TheFlusher(i)
        PROVE  PermitsAccounted'
    BY <2>3, FlushKeepsThreads DEF poolVars
  <2>4. CASE UNCHANGED vars
    BY <2>4 DEF vars, poolVars
  <2> QED
    BY <2>1, <2>2, <2>3, <2>4 DEF Next, Stopped
<1> QED
  BY IInvAlways, <1>1, <1>2, PTL DEF Spec
-----------------------------------------------------------------------------
(* What the steps leave alone *)

\* The pooling thread changes no block, no bytes and no isValid.
LEMMA PoolContents ==
    ASSUME IInv, NEW pushing, PoolStep(pushing)
    PROVE  SameContents /\ UNCHANGED <<nbuf, disk, solo>>
<1>1. UNCHANGED <<nbuf, disk, solo>>
  BY DEF PoolStep, PoolFinish, PoolIdle, PoolFront, PoolPop, PoolCheck, PoolSingle,
     PoolExtend, PoolDrop, PoolSwitch, PoolBegin, PoolWait, PoolJoin, memVars
<1>2. CASE UNCHANGED buf
  BY <1>1, <1>2, SameBuffers
<1>3. CASE PoolSingle \/ PoolExtend \/ PoolBegin
  <2> DEFINE x == pool.unit.buf
  <2>1. pool.pc \in {"lock", "begin"} /\ \E l \in {buf[x].lock, buf[x].lock + 1} : Request(x, l)
    BY <1>3 DEF PoolSingle, PoolExtend, PoolBegin
  <2>2. buf[x].lock \in Nat
    BY <2>1 DEF IInv, TypeOK, References, PoolReferences, Unit, MemTypeOK, MemoryBuffer
  <2> QED
    BY <1>1, <2>1, <2>2, RequestStep
<1>4. CASE PoolSwitch
  <2> DEFINE x == pool.unit.buf
             r == [buf[x] EXCEPT !.lock = @ - 1]
  <2>1. x \in Buffer
    BY <1>4 DEF PoolSwitch, IInv, References, PoolReferences, Unit
  <2>2. buf[x] \in MemoryBuffer /\ buf[x].lock - 1 \in Nat
    BY <1>4, <2>1 DEF PoolSwitch, IInv, TypeOK, MemTypeOK, MemoryBuffer, Unlocked
  <2>3. /\ r \in MemoryBuffer
        /\ r.block = buf[x].block /\ r.data = buf[x].data /\ r.valid = buf[x].valid
    <3> HIDE DEF x
    <3> QED
      BY <2>2 DEF MemoryBuffer
  <2> QED
    BY <1>4, <2>1, <2>3, AssignHeader DEF PoolSwitch, IInv, TypeOK
<1> QED
  BY <1>1, <1>2, <1>3, <1>4
     DEF PoolStep, PoolFinish, PoolIdle, PoolFront, PoolPop, PoolCheck, PoolDrop, PoolWait,
         PoolJoin, memVars

\* A buffer has the same block for ever, and none is ever given back.
BlocksKept ==
    /\ nbuf <= nbuf'
    /\ \A x \in 1 .. nbuf : buf'[x].block = buf[x].block

LEMMA AppBlocks ==
    ASSUME IInv, AppCall \/ AppStep
    PROVE  BlocksKept
<1>1. /\ nbuf \in Nat /\ \A x \in 1 .. nbuf : x \in Buffer /\ x # nbuf + 1
      /\ \A x \in Buffer : buf[x] \in MemoryBuffer
      /\ buf \in [Buffer -> MemoryBuffer]
  BY MemoryBufferAssumption DEF Buffer, IInv, TypeOK, MemTypeOK
<1>2. CASE UNCHANGED <<buf, nbuf>>
  BY <1>1, <1>2 DEF BlocksKept
<1>3. ASSUME NEW op, NEW b, NEW d, Begin(op, b, d)
      PROVE  BlocksKept
  BY <1>1, <1>3 DEF Begin, CreateNewMemoryBuffer, BlocksKept
<1>4. ASSUME NEW x, NEW r, Assign(x, r), UNCHANGED nbuf, r.block = buf[x].block
      PROVE  BlocksKept
  BY <1>1, <1>4 DEF Assign, BlocksKept
<1>5. CASE AppCall
  BY <1>2, <1>3, <1>5 DEF AppCall, Close, OsRead, OsWrite, memVars
<1>6. CASE WriteLock
  <2> DEFINE x == main.buf
  <2>1. x \in Buffer
    BY <1>6 DEF WriteLock, At, IInv, TypeOK, AppTypeOK, References, AppReferences, Cached
  <2> QED
    BY <1>1, <1>4, <1>6, <2>1 DEF WriteLock, MemoryBuffer
<1>7. CASE WriteUnlock
  <2> DEFINE x == main.buf
  <2>1. x \in Buffer
    BY <1>7 DEF WriteUnlock, At, IInv, TypeOK, AppTypeOK, References, AppReferences, Cached
  <2> QED
    BY <1>1, <1>4, <1>7, <2>1 DEF WriteUnlock, MemoryBuffer
<1>8. CASE Inspect \/ Join \/ Free \/ Destroy
  <2> DEFINE x == main.victim
  <2>1. x \in Buffer
    BY <1>8, VictimCached DEF Inspect, Join, Free, Destroy, At, Deleting, Evicting
  <2> QED
    BY <1>1, <1>2, <1>4, <1>8, <2>1 DEF Inspect, Join, Free, Destroy, MemoryBuffer
<1>9. CASE AppStep /\ ~(WriteLock \/ WriteUnlock \/ Inspect \/ Join \/ Free \/ Destroy)
  BY <1>2, <1>9 DEF AppStep, ReadHit, Put, Push, FindVictim, WaitNotBusy, WaitNoRequests,
     Requeue, WaitClean, JoinPool, JoinAll, memVars
<1> QED
  BY <1>5, <1>6, <1>7, <1>8, <1>9

\* A flush thread works on the same buffers from its start to its end.
LEMMA FlushKeepsBufs ==
    ASSUME IInv, NEW i \in Flushers, FlushStep(i)
    PROVE  \/ UNCHANGED <<running, solo>>
           \/ \E u \in FlushThread : Advance(i, u) /\ u.bufs = Flusher(i).bufs
<1> DEFINE t == Flusher(i)
<1>1. t \in FlushThread
  BY FlusherType DEF IInv, TypeOK
<1>2. ASSUME NEW pc \in {"sync", "done"}
      PROVE  [t EXCEPT !.pc = pc] \in FlushThread /\ [t EXCEPT !.pc = pc].bufs = t.bufs
  BY <1>1 DEF FlushThread
<1>3. ASSUME NEW pc \in {"lock", "write", "release", "done"}, NEW k \in Nat
      PROVE  /\ [t EXCEPT !.k = k, !.pc = pc] \in FlushThread
             /\ [t EXCEPT !.k = k, !.pc = pc].bufs = t.bufs
  BY <1>1 DEF FlushThread
<1>4. ASSUME NEW ok \in WriteOutcomes
      PROVE  /\ [t EXCEPT !.pc = "release", !.ok = ok] \in FlushThread
             /\ [t EXCEPT !.pc = "release", !.ok = ok].bufs = t.bufs
  BY <1>1, <1>4 DEF FlushThread, WriteOutcomes
<1>5. t.k \in Nat /\ t.k + 1 \in Nat
  BY <1>1 DEF FlushThread
<1>6. CASE SingleCheck(i)
  BY <1>2, <1>6 DEF SingleCheck
<1>7. CASE SingleSync(i)
  <2>1. ASSUME NEW ok \in WriteOutcomes
        PROVE  /\ [t EXCEPT !.pc = "done", !.ok = ok] \in FlushThread
               /\ [t EXCEPT !.pc = "done", !.ok = ok].bufs = t.bufs
    BY <1>1, <2>1 DEF FlushThread, WriteOutcomes
  <2> QED
    BY <1>2, <1>7, <2>1 DEF SingleSync
<1>8. CASE MultiLock(i)
  <2> DEFINE n == t.k + 1
             k == IF n = Len(t.bufs) THEN 0 ELSE n
             pc == IF n = Len(t.bufs) THEN "write" ELSE "lock"
  <2>1. k \in Nat /\ pc \in {"lock", "write", "release", "done"}
    BY <1>5
  <2>2. Advance(i, [t EXCEPT !.k = k, !.pc = pc])
    BY <1>8 DEF MultiLock
  <2> HIDE DEF k, pc
  <2> QED
    BY <1>3, <2>1, <2>2
<1>9. CASE MultiWrite(i)
  BY <1>4, <1>9 DEF MultiWrite
<1>10. CASE MultiRelease(i)
  <2> DEFINE k == t.k + 1
             pc == IF t.k + 1 = Len(t.bufs) THEN "done" ELSE "release"
  <2>1. k \in Nat /\ pc \in {"lock", "write", "release", "done"}
    BY <1>5
  <2>2. Advance(i, [t EXCEPT !.k = k, !.pc = pc])
    BY <1>10 DEF MultiRelease
  <2> HIDE DEF k, pc
  <2> QED
    BY <1>3, <2>1, <2>2
<1> QED
  BY <1>6, <1>7, <1>8, <1>9, <1>10 DEF FlushStep
-----------------------------------------------------------------------------
(* The blocks of a batch *)

\* A batch whose buffers keep their blocks stays in one piece.
LEMMA ConsecutiveKept ==
    ASSUME IInv, BlocksKept, NEW xs \in Seq(Buffer), Consecutive(xs),
           \A j \in 1 .. Len(xs) : xs[j] <= nbuf
    PROVE  \A j \in 1 .. Len(xs) : buf'[xs[j]].block = buf'[xs[1]].block + j - 1
<1>1. \A j \in 1 .. Len(xs) : xs[j] \in 1 .. nbuf
  BY ElementOfSeq, MemoryBufferAssumption DEF Buffer, IInv, TypeOK, MemTypeOK
<1>2. Len(xs) \in Nat
  OBVIOUS
<1> QED
  BY <1>1, <1>2 DEF Consecutive, BlocksKept

\* A block that follows the last one of the batch makes it longer by one.
LEMMA ConsecutiveLonger ==
    ASSUME IInv, Consecutive(batch), NEW x \in Buffer, buf[x].block \in NextBlocks,
           \A y \in Buffer : buf'[y].block = buf[y].block
    PROVE  LET xs == Append(batch, x)
           IN \A j \in 1 .. Len(xs) : buf'[xs[j]].block = buf'[xs[1]].block + j - 1
<1> DEFINE xs == Append(batch, x)
           n == Len(batch)
<1>1. /\ batch \in Seq(Buffer) /\ n \in Nat
      /\ \A y \in Buffer : buf[y].block \in Int
  BY DEF IInv, TypeOK, PoolTypeOK, MemTypeOK, MemoryBuffer, Block
<1>2. /\ Len(xs) = n + 1
      /\ \A j \in 1 .. n : xs[j] = batch[j] /\ batch[j] \in Buffer
      /\ xs[n + 1] = x
  BY <1>1, AppendProperties, ElementOfSeq
<1> HIDE DEF xs
<1>3. CASE n = 0
  BY <1>1, <1>2, <1>3
<1>4. CASE n # 0
  <2>1. batch # <<>> /\ 1 \in 1 .. n /\ n \in 1 .. n
    BY <1>1, <1>4, EmptySeq
  <2>2. buf[x].block = buf[batch[n]].block + 1
    BY <2>1 DEF NextBlocks, LastBlocks
  <2>3. buf[batch[n]].block = buf[batch[1]].block + n - 1
    BY <2>1 DEF Consecutive
  <2>4. buf[x].block = buf[xs[1]].block + n
    <3>1. xs[1] = batch[1] /\ buf[batch[1]].block \in Int
      BY <1>1, <1>2, <2>1
    <3>2. buf[x].block = (buf[batch[1]].block + n - 1) + 1
      BY <2>2, <2>3
    <3>3. ASSUME NEW a \in Int, NEW m \in Int
          PROVE  (a + m - 1) + 1 = a + m
      OBVIOUS
    <3>4. buf[x].block = buf[batch[1]].block + n
      <4>1. n \in Int
        BY <1>1
      <4> HIDE DEF n
      <4> QED
        BY <3>1, <3>2, <3>3, <4>1
    <3> QED
      BY <3>1, <3>4
  <2>5. \A j \in 1 .. n : buf[xs[j]].block = buf[xs[1]].block + j - 1
    BY <1>2, <2>1 DEF Consecutive
  <2>6. ASSUME NEW j \in 1 .. n + 1
        PROVE  buf[xs[j]].block = buf[xs[1]].block + j - 1 /\ xs[j] \in Buffer
    <3>1. CASE j = n + 1
      BY <1>1, <1>2, <2>1, <2>4, <3>1
    <3>2. CASE j \in 1 .. n
      BY <1>2, <2>5, <3>2
    <3> QED
      BY <1>1, <3>1, <3>2
  <2>7. xs[1] \in Buffer
    BY <1>2, <2>1
  <2> QED
    BY <1>2, <2>6, <2>7
<1> QED
  BY <1>3, <1>4 DEF xs

\* What every step keeps of BatchesConsecutive, once it is known where the
\* batch and the threads of the next state come from.
LEMMA BatchesKept ==
    ASSUME IInv, BatchesConsecutive, BlocksKept,
           \/ UNCHANGED batch
           \/ batch' = <<>>
           \/ \A j \in 1 .. Len(batch') :
                 buf'[batch'[j]].block = buf'[batch'[1]].block + j - 1,
           \A i \in DOMAIN running' :
              \/ \E h \in DOMAIN running : running'[i].bufs = running[h].bufs
              \/ running'[i].bufs = batch
              \/ \A j \in 1 .. Len(running'[i].bufs) :
                    buf'[running'[i].bufs[j]].block
                       = buf'[running'[i].bufs[1]].block + j - 1
    PROVE  BatchesConsecutive'
<1>1. /\ batch \in Seq(Buffer) /\ Consecutive(batch)
      /\ \A j \in 1 .. Len(batch) : batch[j] <= nbuf
  BY DEF IInv, TypeOK, PoolTypeOK, References, PoolReferences, BatchesConsecutive
<1>2. \A j \in 1 .. Len(batch) : buf'[batch[j]].block = buf'[batch[1]].block + j - 1
  BY <1>1, ConsecutiveKept
<1>3. Consecutive(batch)'
  <2>1. CASE UNCHANGED batch
    BY <1>2, <2>1 DEF Consecutive
  <2>2. CASE batch' = <<>>
    BY <2>2, EmptySeq DEF Consecutive
  <2> QED
    BY <2>1, <2>2 DEF Consecutive
<1>4. ASSUME NEW h \in DOMAIN running
      PROVE  \A j \in 1 .. Len(running[h].bufs) :
                buf'[running[h].bufs[j]].block = buf'[running[h].bufs[1]].block + j - 1
  <2>1. h \in 1 .. Len(running) /\ running[h] \in FlushThread
    BY <1>4, ElementOfSeq DEF IInv, TypeOK, FlushTypeOK
  <2>2. /\ running[h].bufs \in Seq(Buffer) /\ Consecutive(running[h].bufs)
        /\ \A j \in 1 .. Len(running[h].bufs) : running[h].bufs[j] <= nbuf
    BY <1>4, <2>1 DEF FlushThread, BatchesConsecutive, IInv, References, FlushReferences,
       ThreadInside
  <2> QED
    BY <2>2, ConsecutiveKept
<1>5. ASSUME NEW i \in DOMAIN running'
      PROVE  \A j \in 1 .. Len(running'[i].bufs) :
                buf'[running'[i].bufs[j]].block = buf'[running'[i].bufs[1]].block + j - 1
  BY <1>2, <1>4, <1>5
<1> QED
  BY <1>3, <1>5 DEF BatchesConsecutive, Consecutive

\* Every batch the pooling thread makes or hands on is consecutive.
LEMMA PoolBatches ==
    ASSUME IInv, BatchesConsecutive, NEW pushing, PoolStep(pushing)
    PROVE  BatchesConsecutive'
<1>1. SameContents /\ UNCHANGED nbuf
  BY PoolContents
<1>2. /\ BlocksKept
      /\ \A y \in Buffer : buf'[y].block = buf[y].block
  BY <1>1, MemoryBufferAssumption
     DEF BlocksKept, SameContents, IInv, TypeOK, MemTypeOK, Buffer
<1>3. /\ running \in Seq(FlushThread) /\ DOMAIN running = 1 .. Len(running)
      /\ Len(running) \in Nat
  BY DEF IInv, TypeOK, FlushTypeOK
<1>4. ASSUME NEW t \in FlushThread, running' = Append(running, t)
      PROVE  \A i \in DOMAIN running' : running'[i] = t \/ \E h \in DOMAIN running : running'[i] = running[h]
  <2>1. /\ running' \in Seq(FlushThread)
        /\ Len(running') = Len(running) + 1
        /\ \A i \in 1 .. Len(running) : running'[i] = running[i]
        /\ running'[Len(running')] = t
    BY <1>3, <1>4, RunningAppend
  <2>2. DOMAIN running' = 1 .. Len(running) + 1
    BY <2>1
  <2> QED
    BY <1>3, <2>1, <2>2
<1>5. ASSUME NEW xs \in Seq(Buffer), StartFlush(xs)
      PROVE  \A i \in DOMAIN running' :
                running'[i].bufs = xs \/ \E h \in DOMAIN running : running'[i].bufs = running[h].bufs
  <2>1. FlushBuffersWithThread(xs) \in FlushThread /\ FlushBuffersWithThread(xs).bufs = xs
    BY DEF FlushBuffersWithThread, FlushThread
  <2> QED
    BY <1>4, <1>5, <2>1 DEF StartFlush
<1>6. batch \in Seq(Buffer)
  BY DEF IInv, TypeOK, PoolTypeOK
<1>7. CASE PoolFinish \/ PoolIdle \/ PoolSwitch
  BY <1>2, <1>5, <1>6, <1>7, BatchesKept DEF PoolFinish, PoolIdle, PoolSwitch
<1>8. CASE PoolSingle
  <2> DEFINE x == pool.unit.buf
             t == FlushBufferWithThread(x)
  <2>1. x \in Buffer
    BY <1>8 DEF PoolSingle, IInv, References, PoolReferences, Unit
  <2>2. t \in FlushThread /\ Len(t.bufs) = 1
    BY <2>1 DEF FlushBufferWithThread, FlushThread
  <2>3. buf'[t.bufs[1]].block \in Int
    BY <1>1, <2>1, <2>2 DEF SameContents, MemoryBuffer, Block, FlushBufferWithThread
  <2>4. \A j \in 1 .. Len(t.bufs) : buf'[t.bufs[j]].block = buf'[t.bufs[1]].block + j - 1
    BY <2>2, <2>3
  <2>5. running' = Append(running, t) /\ UNCHANGED batch
    BY <1>8 DEF PoolSingle
  <2> HIDE DEF t
  <2> QED
    BY <1>2, <1>4, <2>2, <2>4, <2>5, BatchesKept
<1>9. CASE PoolExtend
  <2> DEFINE x == pool.unit.buf
             longer == Append(batch, x)
  <2>1. x \in Buffer /\ buf[x].block \in NextBlocks
    BY <1>9 DEF PoolExtend, IInv, References, PoolReferences, Unit
  <2>2. \A j \in 1 .. Len(longer) : buf'[longer[j]].block = buf'[longer[1]].block + j - 1
    BY <1>2, <2>1, ConsecutiveLonger DEF BatchesConsecutive
  <2>3. longer \in Seq(Buffer)
    BY <1>6, <2>1, AppendProperties
  <2>4. \/ StartFlush(longer) /\ batch' = <<>>
        \/ batch' = longer /\ UNCHANGED running
    BY <1>9 DEF PoolExtend
  <2> HIDE DEF longer
  <2>5. CASE StartFlush(longer) /\ batch' = <<>>
    BY <1>2, <1>5, <2>2, <2>3, <2>5, BatchesKept
  <2>6. CASE batch' = longer /\ UNCHANGED running
    BY <1>2, <2>2, <2>6, BatchesKept
  <2> QED
    BY <2>4, <2>5, <2>6
<1>10. CASE PoolBegin
  <2> DEFINE x == pool.unit.buf
  <2>1. x \in Buffer
    BY <1>10 DEF PoolBegin, IInv, References, PoolReferences, Unit
  <2>2. buf'[x].block \in Int
    BY <1>1, <2>1 DEF SameContents, MemoryBuffer, Block
  <2>3. batch' = <<x>> /\ UNCHANGED running
    BY <1>10 DEF PoolBegin
  <2>4. \A j \in 1 .. Len(batch') : buf'[batch'[j]].block = buf'[batch'[1]].block + j - 1
    BY <2>2, <2>3
  <2> QED
    BY <1>2, <2>3, <2>4, BatchesKept
<1>11. CASE PoolJoin
  <2>1. running # <<>> /\ running' = Tail(running) /\ UNCHANGED batch
    BY <1>11 DEF PoolJoin, IInv, References, PoolReferences
  <2>2. /\ running' \in Seq(FlushThread)
        /\ Len(running') = Len(running) - 1
        /\ \A i \in 1 .. Len(running') : running'[i] = running[i + 1]
    BY <1>3, <2>1, RunningTail
  <2>3. \A i \in DOMAIN running' : \E h \in DOMAIN running : running'[i].bufs = running[h].bufs
    <3>1. DOMAIN running' = 1 .. Len(running')
      BY <2>2
    <3>2. \A i \in 1 .. Len(running') : i + 1 \in 1 .. Len(running)
      BY <1>3, <2>2
    <3> QED
      BY <1>3, <2>2, <3>1, <3>2
  <2> QED
    BY <1>2, <2>1, <2>3, BatchesKept
<1>12. CASE UNCHANGED <<running, batch>>
  BY <1>2, <1>12, BatchesKept
<1> QED
  BY <1>7, <1>8, <1>9, <1>10, <1>11, <1>12
     DEF PoolStep, PoolFront, PoolPop, PoolCheck, PoolDrop, PoolWait

\* A batch is written in one piece from the block of its first buffer on
\* (disk_write.c, write2DiskMultiple2): whatever the order in which units are
\* queued and buffers are evicted, it never covers a block that is not its own.
THEOREM BatchesHold == Spec => []BatchesConsecutive
<1>1. Init => BatchesConsecutive
  BY EmptySeq DEF Init, PoolInit, FlushInit, BatchesConsecutive, Consecutive
<1>2. IInv /\ BatchesConsecutive /\ [Next]_vars => BatchesConsecutive'
  <2> SUFFICES ASSUME IInv, BatchesConsecutive, [Next]_vars PROVE BatchesConsecutive'
    OBVIOUS
  <2>1. running \in Seq(FlushThread) /\ nbuf \in Nat
    BY DEF IInv, TypeOK, FlushTypeOK, MemTypeOK
  <2>2. CASE AppCall \/ AppStep
    <3>1. BlocksKept
      BY <2>2, AppBlocks
    <3>2. CASE UNCHANGED <<running, batch>>
      BY <3>1, <3>2, BatchesKept
    <3>3. CASE JoinAll /\ ~UNCHANGED running
      <4>1. running # <<>> /\ running' = Tail(running) /\ UNCHANGED batch
        BY <3>3 DEF JoinAll
      <4>2. /\ running' \in Seq(FlushThread)
            /\ Len(running') = Len(running) - 1
            /\ \A i \in 1 .. Len(running') : running'[i] = running[i + 1]
        BY <2>1, <4>1, RunningTail
      <4>3. /\ DOMAIN running' = 1 .. Len(running')
            /\ DOMAIN running = 1 .. Len(running)
            /\ \A i \in 1 .. Len(running') : i + 1 \in 1 .. Len(running)
        BY <2>1, <4>2
      <4> QED
        BY <3>1, <4>1, <4>2, <4>3, BatchesKept
    <3> QED
      BY <2>2, <3>2, <3>3, AppKeepsLists
  <2>3. CASE ThePool
    BY <2>3, PoolBatches DEF ThePool
  <2>4. ASSUME NEW i \in Flushers, TheFlusher(i)
        PROVE  BatchesConsecutive'
    <3>1. SameContents /\ UNCHANGED <<nbuf, batch>>
      BY <2>4, FlushKeepsThreads DEF poolVars
    <3>2. BlocksKept
      BY <2>1, <3>1, MemoryBufferAssumption
         DEF BlocksKept, SameContents, IInv, TypeOK, MemTypeOK, Buffer
    <3>3. ASSUME NEW u \in FlushThread, Advance(i, u), u.bufs = Flusher(i).bufs
          PROVE  \A h \in DOMAIN running' : h \in DOMAIN running /\ running'[h].bufs = running[h].bufs
      <4>1. /\ FlushTypeOK'
            /\ Len(running') = Len(running)
            /\ \A h \in 1 .. Len(running) :
                  running'[h] = IF h = i THEN u ELSE running[h]
        BY <3>3, AdvanceType DEF IInv, TypeOK
      <4>2. DOMAIN running' = 1 .. Len(running) /\ DOMAIN running = 1 .. Len(running)
        BY <2>1, <4>1 DEF FlushTypeOK
      <4>3. ASSUME NEW h \in 1 .. Len(running)
            PROVE  running'[h].bufs = running[h].bufs
        BY <2>1, <3>3, <4>1 DEF Flusher
      <4> QED
        BY <4>2, <4>3
    <3>4. \A h \in DOMAIN running' : h \in DOMAIN running /\ running'[h].bufs = running[h].bufs
      BY <2>4, <3>3, FlushKeepsBufs DEF TheFlusher
    <3> QED
      BY <3>1, <3>2, <3>4, BatchesKept
  <2>5. CASE UNCHANGED vars
    <3>1. UNCHANGED <<buf, nbuf, running, batch>>
      BY <2>5 DEF vars, memVars, poolVars
    <3> QED
      BY <3>1 DEF BatchesConsecutive, Consecutive
  <2> QED
    BY <2>2, <2>3, <2>4, <2>5 DEF Next, Stopped
<1> QED
  BY IInvAlways, <1>1, <1>2, PTL DEF Spec
=============================================================================
