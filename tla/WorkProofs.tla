----------------------------- MODULE WorkProofs ------------------------------
(***************************************************************************)
(* What is still to be written, for every value of the constants.          *)
(*                                                                         *)
(* No dirty buffer is forgotten in the builds in which every block has     *)
(* room and writes do not fail.  With evictions it does not hold: PoolDrop *)
(* takes a unit for gathered already when the batch ends with the same     *)
(* block, and that may be the buffer the block had before it was evicted.  *)
(* CoverInv is the invariant: DirtyIsCoveredOrLost of CacheProperties, and *)
(* why PoolCheck may drop the unit of a busy buffer (somebody has begun to *)
(* write it) and PoolDrop that of a gathered one (a block has one buffer). *)
(*                                                                         *)
(* An evicting call that waits for the pool is not forgotten either, with  *)
(* evictions and failing writes (ServeInv), but for that step of PoolDrop. *)
(*                                                                         *)
(* The requested writes are counted exactly in the builds whose threads    *)
(* all take their request back (CountInv).                                 *)
(***************************************************************************)
EXTENDS DeviceProofs, FiniteSetTheorems

RoomyBuild == MmapRW /\ Capacity = TotalN

\* What thread t has in hand.
Has(t) == ToCopy(t) \union LockedBy(t)

InUnits(x) == \E u \in queue \union {pool.unit} : u.buf = x
InBatch(x) == \E j \in 1 .. Len(batch) : batch[j] = x
InThread(x) == \E i \in 1 .. Len(running) : x \in Has(running[i])
IsLost(x) == \E u \in lost : u.buf = x

\* Somebody has begun to write x,
Begun(x) == InBatch(x) \/ InThread(x) \/ (main.pc = "wdone" /\ main.buf = x)

\* or has it still to do: the call of os_write that made it dirty, or others.
InCall(x) ==
    /\ main.buf = x
    /\ main.pc \in {"wdone", "push"} \/ (main.pc = "put" /\ main.op = "write")
Kept(x) == InUnits(x) \/ InBatch(x) \/ InThread(x) \/ IsLost(x) \/ InCall(x)

NeverEvicts ==
    /\ main.pc \notin Evicting
    /\ solo = NoThread
    /\ \A x \in 1 .. nbuf : Live(x)
IdleHasNoUnit == pool.pc \in {"top", "join", "done"} => pool.unit = NoUnit
ThreadsSucceed == \A i \in 1 .. Len(running) : running[i].ok
WritesAll == \A i \in 1 .. Len(running) : running[i].pc = "write" => running[i].k = 0
SwitchedBatch == pool.pc = "begin" => batch = <<>>
BusyIsBegun == \A x \in Buffer : buf[x].busy => Begun(x)
DirtyIsKept == main.pc # "closed" => \A x \in Buffer : buf[x].dirty => Kept(x)

CoverInv ==
    /\ NeverEvicts /\ IdleHasNoUnit /\ ThreadsSucceed /\ WritesAll /\ SwitchedBatch
    /\ BusyIsBegun /\ DirtyIsKept
-----------------------------------------------------------------------------
(* Where buffers are kept *)

LEMMA HasPc ==
    ASSUME NEW t \in FlushThread, t.pc = "lock" => t.k <= Len(t.bufs)
    PROVE  /\ t.pc \in {"check", "sync", "lock", "write"} =>
                 Has(t) = {t.bufs[j] : j \in 1 .. Len(t.bufs)}
           /\ t.pc = "release" => Has(t) = {t.bufs[j] : j \in t.k + 1 .. Len(t.bufs)}
           /\ t.pc = "done" => Has(t) = {}
<1>1. /\ t.bufs \in Seq(Buffer) /\ t.k \in Nat /\ Len(t.bufs) \in Nat
      /\ DOMAIN t.bufs = 1 .. Len(t.bufs)
      /\ t.pc \in {"check", "sync", "lock", "write", "release", "done"}
  BY DEF FlushThread
<1>2. t.pc \in {"check", "sync", "lock", "write"} =>
         ToCopy(t) = {t.bufs[j] : j \in 1 .. Len(t.bufs)}
  BY <1>1 DEF ToCopy
<1>3. t.pc \in {"release", "done"} => ToCopy(t) = {}
  BY DEF ToCopy
<1>4. t.pc \in {"check", "sync", "lock", "write"} =>
         LockedBy(t) \subseteq {t.bufs[j] : j \in 1 .. Len(t.bufs)}
  <2>1. CASE t.pc = "lock"
    <3>1. LockedBy(t) = {t.bufs[j] : j \in 1 .. t.k} /\ 1 .. t.k \subseteq 1 .. Len(t.bufs)
      BY <1>1, <2>1, LockedByPc
    <3> QED
      BY <3>1
  <2>2. CASE t.pc # "lock"
    BY <2>2, LockedByPc
  <2> QED
    BY <2>1, <2>2
<1>5. t.pc \in {"check", "sync", "lock", "write"} =>
         Has(t) = {t.bufs[j] : j \in 1 .. Len(t.bufs)}
  BY <1>2, <1>4 DEF Has
<1>6. t.pc = "release" => Has(t) = {t.bufs[j] : j \in t.k + 1 .. Len(t.bufs)}
  BY <1>3, LockedByPc DEF Has
<1>7. t.pc = "done" => Has(t) = {}
  BY <1>3, LockedByPc DEF Has
<1> QED
  BY <1>5, <1>6, <1>7

\* A thread that starts has its whole batch in hand.
LEMMA BatchStarts ==
    ASSUME NEW xs \in Seq(Buffer)
    PROVE  /\ FlushBuffersWithThread(xs) \in FlushThread
           /\ FlushBuffersWithThread(xs).ok /\ FlushBuffersWithThread(xs).pc # "write"
           /\ \A j \in 1 .. Len(xs) : xs[j] \in Has(FlushBuffersWithThread(xs))
<1>1. /\ FlushBuffersWithThread(xs) \in FlushThread
      /\ FlushBuffersWithThread(xs).ok /\ FlushBuffersWithThread(xs).pc = "lock"
      /\ FlushBuffersWithThread(xs).bufs = xs
      /\ FlushBuffersWithThread(xs).k = 0 /\ Len(xs) \in Nat
  BY DEF FlushBuffersWithThread, FlushThread
<1>2. Has(FlushBuffersWithThread(xs)) = {xs[j] : j \in 1 .. Len(xs)}
  BY <1>1, HasPc
<1> QED
  BY <1>1, <1>2

LEMMA BufferStarts ==
    ASSUME NEW y \in Buffer
    PROVE  /\ FlushBufferWithThread(y) \in FlushThread
           /\ FlushBufferWithThread(y).ok /\ FlushBufferWithThread(y).pc # "write"
           /\ y \in Has(FlushBufferWithThread(y))
<1>1. /\ FlushBufferWithThread(y) \in FlushThread
      /\ FlushBufferWithThread(y).ok /\ FlushBufferWithThread(y).pc = "check"
      /\ FlushBufferWithThread(y).bufs = <<y>>
  BY DEF FlushBufferWithThread, FlushThread
<1>2. Has(FlushBufferWithThread(y)) = {<<y>>[j] : j \in 1 .. Len(<<y>>)}
  BY <1>1, HasPc
<1>3. <<y>>[1] = y /\ 1 \in 1 .. Len(<<y>>)
  OBVIOUS
<1> QED
  BY <1>1, <1>2, <1>3

\* Threads that start or are joined take nothing from the others.
LEMMA ThreadStarts ==
    ASSUME IInv, NEW t \in FlushThread, running' = Append(running, t)
    PROVE  /\ ThreadsSucceed /\ t.ok => ThreadsSucceed'
           /\ WritesAll /\ t.pc # "write" => WritesAll'
           /\ \A x : InThread(x) \/ x \in Has(t) => InThread(x)'
<1>1. /\ running \in Seq(FlushThread) /\ Len(running) \in Nat
  BY DEF IInv, TypeOK, FlushTypeOK
<1>2. /\ Len(running') = Len(running) + 1
      /\ \A i \in 1 .. Len(running) : running'[i] = running[i]
      /\ running'[Len(running')] = t
  BY <1>1, RunningAppend
<1>3. /\ \A i \in 1 .. Len(running') : i \in 1 .. Len(running) \/ i = Len(running')
      /\ \A i \in 1 .. Len(running) : i \in 1 .. Len(running')
      /\ Len(running') \in 1 .. Len(running')
  BY <1>1, <1>2
<1> QED
  BY <1>2, <1>3 DEF ThreadsSucceed, WritesAll, InThread

LEMMA ThreadLeaves ==
    ASSUME IInv, running # <<>>, Head(running).pc = "done",
           running' = Tail(running)
    PROVE  /\ ThreadsSucceed => ThreadsSucceed'
           /\ WritesAll => WritesAll'
           /\ \A x : InThread(x) => InThread(x)'
<1>1. /\ running \in Seq(FlushThread) /\ Len(running) \in Nat
  BY DEF IInv, TypeOK, FlushTypeOK
<1>2. /\ Len(running') = Len(running) - 1
      /\ \A i \in 1 .. Len(running') : running'[i] = running[i + 1]
  BY <1>1, RunningTail
<1>3. Len(running) >= 1 /\ running[1] = Head(running) /\ running[1] \in FlushThread
  BY <1>1, HeadTailProperties
<1>4. Has(running[1]) = {}
  BY <1>3, HasPc
<1>5. \A i \in 1 .. Len(running') : i + 1 \in 1 .. Len(running)
  BY <1>1, <1>2
<1>6. ASSUME NEW x, InThread(x)
      PROVE  InThread(x)'
  <2>1. PICK i \in 1 .. Len(running) : x \in Has(running[i])
    BY <1>6 DEF InThread
  <2>2. i # 1
    BY <1>4, <2>1
  <2>3. i - 1 \in 1 .. Len(running') /\ (i - 1) + 1 = i
    BY <1>1, <1>2, <2>2
  <2>4. running'[i - 1] = running[i]
    BY <1>2, <2>3
  <2> QED
    BY <2>1, <2>3, <2>4 DEF InThread
<1> QED
  BY <1>2, <1>5, <1>6 DEF ThreadsSucceed, WritesAll

\* The step of one thread loses only what that thread lets go.
LEMMA ThreadMoves ==
    ASSUME IInv, NEW i \in 1 .. Len(running), NEW u \in FlushThread, Advance(i, u)
    PROVE  /\ ThreadsSucceed /\ u.ok => ThreadsSucceed'
           /\ WritesAll /\ (u.pc = "write" => u.k = 0) => WritesAll'
           /\ \A x : InThread(x) =>
                 InThread(x)' \/ (x \in Has(running[i]) /\ x \notin Has(u))
<1>1. i \in Flushers /\ i # 0
  BY DEF Flushers, IInv, TypeOK, FlushTypeOK
<1>2. /\ Len(running') = Len(running)
      /\ \A j \in 1 .. Len(running) : running'[j] = IF j = i THEN u ELSE running[j]
  BY <1>1, AdvanceType DEF IInv, TypeOK
<1> QED
  BY <1>2 DEF ThreadsSucceed, WritesAll, InThread
\* What a thread has in hand is in its array.
LEMMA HasExists ==
    ASSUME IInv, NEW i \in 1 .. Len(running), NEW y \in Has(running[i])
    PROVE  /\ y \in 1 .. nbuf
           /\ \E j \in DOMAIN running[i].bufs : running[i].bufs[j] = y
<1> PICK t : t = running[i]
  OBVIOUS
<1>1. t \in FlushThread /\ ThreadInside(t) /\ nbuf \in Nat
  BY Basics, ElementOfSeq DEF IInv, TypeOK, FlushTypeOK, References, FlushReferences
<1>2. /\ t.bufs \in Seq(Buffer) /\ t.k \in Nat /\ Len(t.bufs) \in Nat
      /\ DOMAIN t.bufs = 1 .. Len(t.bufs)
      /\ t.pc \in {"check", "sync", "lock", "write", "release", "done"}
  BY <1>1 DEF FlushThread
<1>3. t.pc = "lock" => t.k <= Len(t.bufs)
  BY <1>1, <1>2 DEF ThreadInside
<1>4. t.k + 1 .. Len(t.bufs) \subseteq 1 .. Len(t.bufs)
  BY <1>2
<1>5. PICK j \in 1 .. Len(t.bufs) : t.bufs[j] = y
  BY <1>1, <1>2, <1>3, <1>4, HasPc
<1>6. y \in Buffer /\ y <= nbuf
  BY <1>1, <1>2, <1>5, ElementOfSeq DEF ThreadInside
<1> QED
  BY <1>1, <1>2, <1>5, <1>6 DEF Buffer
-----------------------------------------------------------------------------
(* The pooling thread *)

\* isBufferBeingWrittenNow of y is raised, nothing else that CoverInv is about.
LEMMA RequestMarks ==
    ASSUME IInv, NEW y \in Buffer, NEW l, Request(y, l), NEW x \in Buffer
    PROVE  /\ buf'[x].dirty = buf[x].dirty
           /\ buf'[x].busy => buf[x].busy \/ x = y
<1>1. buf \in [Buffer -> MemoryBuffer]
  BY Basics
<1>2. buf'[x] = IF y = x THEN [buf[y] EXCEPT !.busy = TRUE, !.requests = @ + 1, !.lock = l]
                         ELSE buf[x]
  BY <1>1 DEF Request, Assign
<1>3. [buf[y] EXCEPT !.busy = TRUE, !.requests = @ + 1, !.lock = l].dirty = buf[y].dirty
  BY <1>1 DEF MemoryBuffer
<1> QED
  BY <1>2, <1>3

\* The pooling thread drops the unit of x: its header says that there is
\* nothing to write, or somebody who does, or its block ends the batch.
Dropped(x) ==
    /\ x = pool.unit.buf
    /\ \/ /\ pool.pc = "check"
          /\ ~(buf[x].valid /\ buf[x].dirty /\ ~buf[x].busy /\ buf[x].data # NULL)
       \/ pool.pc = "lock" /\ buf[x].block \in LastBlocks

\* It takes a unit off the queue only into its hand, its batch or a thread, or
\* drops or loses it; it begins to write what it marks, and ends nothing.
PassesOn ==
    \A x \in Buffer :
        /\ buf'[x].dirty = buf[x].dirty
        /\ buf'[x].busy => buf[x].busy \/ InBatch(x)' \/ InThread(x)'
        /\ InBatch(x) \/ InThread(x) => InBatch(x)' \/ InThread(x)'
        /\ InUnits(x) =>
              \/ InUnits(x)' \/ InBatch(x)' \/ InThread(x)' \/ Dropped(x)
              \/ \E u \in queue \intersect lost' : u.buf = x

\* What leaves the queue without being looked at is lost for good.
QueueLoses ==
    /\ queue' \subseteq queue
    /\ lost \subseteq lost' /\ lost' \subseteq lost \union (queue \ queue')
    /\ UNCHANGED nunit

\* Threads that start or end fail or overrun no more than the others do.
ThreadsKeep == (ThreadsSucceed => ThreadsSucceed') /\ (WritesAll => WritesAll')

LEMMA PoolHands ==
    ASSUME IInv, IdleHasNoUnit, SwitchedBatch, ThePool
    PROVE  /\ IdleHasNoUnit' /\ SwitchedBatch' /\ ThreadsKeep
           /\ PassesOn /\ QueueLoses
<1> PICK y : y = pool.unit.buf
  OBVIOUS
<1>1. /\ running \in Seq(FlushThread) /\ batch \in Seq(Buffer)
      /\ Len(batch) \in Nat /\ nbuf \in Nat
      /\ buf \in [Buffer -> MemoryBuffer]
      /\ \A x \in 1 .. nbuf : x \in Buffer
  BY Basics DEF IInv, TypeOK, FlushTypeOK, PoolTypeOK
<1>2. PoolStep(Pushing) /\ UNCHANGED nunit
  BY DEF ThePool, PoolStep, PoolFinish, PoolIdle, PoolFront, PoolPop, PoolCheck, PoolSingle,
     PoolExtend, PoolDrop, PoolSwitch, PoolBegin, PoolWait, PoolJoin
<1>3. SwitchedBatch'
  BY <1>2 DEF SwitchedBatch, PoolStep, PoolFinish, PoolIdle, PoolFront, PoolPop,
     PoolCheck, PoolSingle, PoolExtend, PoolDrop, PoolSwitch, PoolBegin, PoolWait, PoolJoin,
     Goto, GoTop, IInv, TypeOK, PoolTypeOK
<1>4. pool.pc \in {"check", "lock", "begin"} => y \in 1 .. nbuf /\ y \in Buffer
  BY <1>1 DEF IInv, References, PoolReferences, Unit, Buffer
<1>5. ASSUME UNCHANGED <<queue, lost>>,
             \A x \in Buffer : /\ buf'[x].dirty = buf[x].dirty
                               /\ buf'[x].busy => buf[x].busy \/ InBatch(x)' \/ InThread(x)',
             \A x \in Buffer : InBatch(x) \/ InThread(x) => InBatch(x)' \/ InThread(x)',
             \A x \in Buffer : InUnits(x) =>
                 InUnits(x)' \/ InBatch(x)' \/ InThread(x)' \/ Dropped(x)
      PROVE  PassesOn /\ QueueLoses
  BY <1>2, <1>5 DEF PassesOn, QueueLoses
<1>6. ASSUME NEW xs \in Seq(Buffer), StartFlush(xs)
      PROVE  /\ ThreadsKeep
             /\ \A x : InThread(x) => InThread(x)'
             /\ \A j \in 1 .. Len(xs) : InThread(xs[j])'
  <2> DEFINE t == FlushBuffersWithThread(xs)
  <2>1. /\ t \in FlushThread /\ t.ok /\ t.pc # "write"
        /\ \A j \in 1 .. Len(xs) : xs[j] \in Has(t)
    BY BatchStarts
  <2>2. running' = Append(running, t)
    BY <1>6 DEF StartFlush
  <2> HIDE DEF t
  <2> QED
    BY <2>1, <2>2, ThreadStarts DEF ThreadsKeep
<1>7. CASE PoolFinish \/ PoolIdle
  <2>1. /\ UNCHANGED <<buf, queue, lost>> /\ UNCHANGED pool.unit
        /\ pool'.pc \in {"top", "join", "done"} /\ pool.pc = "top"
        /\ ((batch = <<>> /\ UNCHANGED running) \/ StartFlush(batch))
    BY <1>7 DEF PoolFinish, PoolIdle, memVars, Goto, IInv, TypeOK, PoolTypeOK
  <2>2. IdleHasNoUnit'
    BY <2>1 DEF IdleHasNoUnit
  <2>3. \A x : InUnits(x) => InUnits(x)'
    BY <2>1 DEF InUnits
  <2>4. CASE batch = <<>> /\ UNCHANGED running
    <3>1. ThreadsKeep /\ \A x : InThread(x) => InThread(x)'
      BY <2>4 DEF ThreadsKeep, ThreadsSucceed, WritesAll, InThread
    <3>2. \A x : ~InBatch(x)
      BY <2>4, EmptySeq DEF InBatch
    <3> QED
      BY <1>3, <1>5, <2>1, <2>2, <2>3, <3>1, <3>2
  <2>5. CASE StartFlush(batch)
    <3>1. /\ ThreadsKeep
          /\ \A x : InThread(x) => InThread(x)'
          /\ \A x : InBatch(x) => InThread(x)'
      BY <1>1, <1>6, <2>5 DEF InBatch
    <3> QED
      BY <1>3, <1>5, <2>1, <2>2, <2>3, <3>1
  <2> QED
    BY <2>1, <2>4, <2>5
<1>8. ASSUME UNCHANGED running
      PROVE  ThreadsKeep /\ \A x : InThread(x) <=> InThread(x)'
  BY <1>8 DEF ThreadsKeep, ThreadsSucceed, WritesAll, InThread
<1>9. ASSUME UNCHANGED batch
      PROVE  \A x : InBatch(x) <=> InBatch(x)'
  BY <1>9 DEF InBatch
<1>10. CASE PoolFront
  <2>1. /\ UNCHANGED <<buf, queue, lost, running, batch>>
        /\ pool'.pc = "pop" /\ pool.pc = "top"
    BY <1>10 DEF PoolFront
  <2>2. pool.unit.buf \notin Buffer
    BY <2>1, MemoryBufferAssumption DEF IdleHasNoUnit, NoUnit, NoBuffer, Buffer
  <2>3. \A x \in Buffer : InUnits(x) => InUnits(x)'
    BY <2>1, <2>2 DEF InUnits
  <2>4. IdleHasNoUnit'
    BY <2>1 DEF IdleHasNoUnit
  <2> QED
    BY <1>3, <1>5, <1>8, <1>9, <2>1, <2>3, <2>4
<1>11. CASE PoolPop(Pushing)
  <2>1. /\ UNCHANGED <<buf, running, batch>> /\ UNCHANGED pool.unit
        /\ pool'.pc = "check"
        /\ queue' \subseteq queue
        /\ lost' = lost \union (queue \ (queue' \union {pool.unit}))
    BY <1>11 DEF PoolPop, PopUnit, Goto, memVars, IInv, TypeOK, PoolTypeOK
  <2>2. \A x \in Buffer : InUnits(x) =>
           InUnits(x)' \/ \E u \in queue \intersect lost' : u.buf = x
    BY <2>1 DEF InUnits
  <2>3. IdleHasNoUnit'
    BY <2>1 DEF IdleHasNoUnit
  <2>4. QueueLoses
    BY <1>2, <2>1 DEF QueueLoses
  <2>5. PassesOn
    BY <1>8, <1>9, <2>1, <2>2 DEF PassesOn
  <2> QED
    BY <1>3, <1>8, <2>1, <2>3, <2>4, <2>5
<1>12. CASE PoolCheck
  <2>1. /\ UNCHANGED <<buf, queue, lost, running, batch>> /\ pool.pc = "check"
    BY <1>12 DEF PoolCheck, memVars
  <2>2. CASE Goto("lock")
    <3>1. UNCHANGED pool.unit /\ pool'.pc = "lock"
      BY <2>2 DEF Goto, IInv, TypeOK, PoolTypeOK
    <3>2. \A x : InUnits(x) => InUnits(x)'
      BY <2>1, <3>1 DEF InUnits
    <3>3. IdleHasNoUnit'
      BY <3>1 DEF IdleHasNoUnit
    <3> QED
      BY <1>3, <1>5, <1>8, <1>9, <2>1, <3>2, <3>3
  <2>3. CASE GoTop /\ ~(buf[y].valid /\ buf[y].dirty /\ ~buf[y].busy /\ buf[y].data # NULL)
    <3>1. IdleHasNoUnit'
      BY <2>3 DEF GoTop, IdleHasNoUnit
    <3>2. \A x : InUnits(x) => InUnits(x)' \/ x = y
      BY <2>1 DEF InUnits
    <3>3. Dropped(y)
      BY <2>1, <2>3 DEF Dropped
    <3> QED
      BY <1>3, <1>5, <1>8, <1>9, <2>1, <3>1, <3>2, <3>3
  <2> QED
    BY <1>12, <2>2, <2>3 DEF PoolCheck
<1>13. CASE PoolWait \/ PoolJoin
  <2>1. /\ UNCHANGED <<buf, queue, lost, batch>> /\ UNCHANGED pool.unit
        /\ pool.pc \in {"top", "join"}
        /\ UNCHANGED running \/ (/\ pool.pc = "join" /\ Head(running).pc = "done"
                                 /\ running' = Tail(running))
    BY <1>13 DEF PoolWait, PoolJoin, Goto, memVars, IInv, TypeOK, PoolTypeOK
  <2>2. IdleHasNoUnit'
    BY <2>1 DEF IdleHasNoUnit
  <2>3. \A x : InUnits(x) => InUnits(x)'
    BY <2>1 DEF InUnits
  <2>4. ThreadsKeep /\ \A x : InThread(x) => InThread(x)'
    <3>1. CASE UNCHANGED running
      BY <1>8, <3>1
    <3>2. CASE ~UNCHANGED running
      <4>1. running # <<>>
        BY <2>1, <3>2 DEF IInv, References, PoolReferences
      <4> QED
        BY <2>1, <3>2, <4>1, ThreadLeaves DEF ThreadsKeep
    <3> QED
      BY <3>1, <3>2
  <2> QED
    BY <1>3, <1>5, <1>9, <2>1, <2>2, <2>3, <2>4
\* In the cases left the unit leaves the pooling thread's hand.
<1>14. ASSUME GoTop, UNCHANGED queue
       PROVE  IdleHasNoUnit' /\ \A x : InUnits(x) => InUnits(x)' \/ x = y
  BY <1>14 DEF GoTop, IdleHasNoUnit, InUnits
<1>15. CASE PoolSingle
  <2>1. /\ y \in Buffer /\ Request(y, buf[y].lock)
        /\ running' = Append(running, FlushBufferWithThread(y))
        /\ UNCHANGED <<batch, queue, lost>> /\ GoTop
    BY <1>4, <1>15 DEF PoolSingle
  <2>2. ThreadsKeep /\ InThread(y)' /\ \A x : InThread(x) => InThread(x)'
    <3> DEFINE t == FlushBufferWithThread(y)
    <3>1. t \in FlushThread /\ t.ok /\ t.pc # "write" /\ y \in Has(t)
      BY <2>1, BufferStarts
    <3>2. running' = Append(running, t)
      BY <2>1
    <3> HIDE DEF t
    <3> QED
      BY <3>1, <3>2, ThreadStarts DEF ThreadsKeep
  <2>3. \A x \in Buffer : buf'[x].dirty = buf[x].dirty /\ (buf'[x].busy => buf[x].busy \/ x = y)
    BY <2>1, RequestMarks
  <2> QED
    BY <1>3, <1>5, <1>9, <1>14, <2>1, <2>2, <2>3
<1>16. CASE PoolExtend
  <2> DEFINE longer == Append(batch, y)
  <2>1. /\ y \in Buffer /\ Request(y, buf[y].lock)
        /\ UNCHANGED <<queue, lost>> /\ GoTop
        /\ \/ StartFlush(longer) /\ batch' = <<>>
           \/ batch' = longer /\ UNCHANGED running
    BY <1>4, <1>16 DEF PoolExtend
  <2>2. \A x \in Buffer : buf'[x].dirty = buf[x].dirty /\ (buf'[x].busy => buf[x].busy \/ x = y)
    BY <2>1, RequestMarks
  <2>3. /\ longer \in Seq(Buffer)
        /\ \A x : InBatch(x) \/ x = y => \E j \in 1 .. Len(longer) : longer[j] = x
    <3>1. /\ longer \in Seq(Buffer) /\ Len(longer) = Len(batch) + 1
          /\ \A j \in 1 .. Len(batch) : longer[j] = batch[j]
          /\ longer[Len(batch) + 1] = y
      BY <1>1, <2>1
    <3>2. /\ 1 .. Len(batch) \subseteq 1 .. Len(batch) + 1
          /\ Len(batch) + 1 \in 1 .. Len(batch) + 1
      BY <1>1
    <3> HIDE DEF longer
    <3> QED
      BY <3>1, <3>2 DEF InBatch
  <2> HIDE DEF longer
  <2>4. CASE StartFlush(longer) /\ batch' = <<>>
    <3>1. /\ ThreadsKeep
          /\ \A x : InThread(x) => InThread(x)'
          /\ \A x : InBatch(x) \/ x = y => InThread(x)'
      BY <1>6, <2>3, <2>4
    <3> QED
      BY <1>3, <1>5, <1>14, <2>1, <2>2, <3>1
  <2>5. CASE batch' = longer /\ UNCHANGED running
    <3>1. \A x : InBatch(x) \/ x = y => InBatch(x)'
      BY <2>3, <2>5 DEF InBatch
    <3> QED
      BY <1>3, <1>5, <1>8, <1>14, <2>1, <2>2, <2>5, <3>1
  <2> QED
    BY <2>1, <2>4, <2>5
<1>17. CASE PoolDrop
  <2>1. /\ UNCHANGED <<buf, running, batch, queue, lost>> /\ GoTop
        /\ pool.pc = "lock" /\ buf[y].block \in LastBlocks
    BY <1>17 DEF PoolDrop, memVars
  <2>2. Dropped(y)
    BY <2>1 DEF Dropped
  <2> QED
    BY <1>3, <1>5, <1>8, <1>9, <1>14, <2>1, <2>2
<1>18. CASE PoolSwitch
  <2>1. /\ y \in Buffer /\ Assign(y, [buf[y] EXCEPT !.lock = @ - 1])
        /\ UNCHANGED <<queue, lost>> /\ StartFlush(batch)
        /\ UNCHANGED pool.unit /\ pool'.pc = "begin"
    BY <1>4, <1>18 DEF PoolSwitch, Goto, IInv, TypeOK, PoolTypeOK
  <2>2. /\ ThreadsKeep
        /\ \A x : InThread(x) => InThread(x)'
        /\ \A x : InBatch(x) => InThread(x)'
    BY <1>1, <1>6, <2>1 DEF InBatch
  <2>3. \A x \in Buffer : buf'[x].dirty = buf[x].dirty /\ buf'[x].busy = buf[x].busy
    <3>1. /\ [buf[y] EXCEPT !.lock = @ - 1].dirty = buf[y].dirty
          /\ [buf[y] EXCEPT !.lock = @ - 1].busy = buf[y].busy
      BY <1>1, <2>1 DEF MemoryBuffer
    <3> QED
      BY <1>1, <2>1, <3>1 DEF Assign
  <2>4. IdleHasNoUnit' /\ \A x : InUnits(x) => InUnits(x)'
    BY <2>1 DEF IdleHasNoUnit, InUnits
  <2> QED
    BY <1>3, <1>5, <2>1, <2>2, <2>3, <2>4
<1>19. CASE PoolBegin
  <2>1. /\ y \in Buffer /\ Request(y, buf[y].lock + 1) /\ pool.pc = "begin" /\ batch' = <<y>>
        /\ UNCHANGED <<queue, lost, running>> /\ GoTop
    BY <1>4, <1>19 DEF PoolBegin
  <2>2. \A x \in Buffer : buf'[x].dirty = buf[x].dirty /\ (buf'[x].busy => buf[x].busy \/ x = y)
    BY <2>1, RequestMarks
  <2>3. InBatch(y)'
    <3>1. <<y>>[1] = y /\ Len(<<y>>) = 1 /\ 1 \in 1 .. 1
      OBVIOUS
    <3> QED
      BY <2>1, <3>1 DEF InBatch
  <2>4. \A x : ~InBatch(x)
    BY <2>1, EmptySeq DEF InBatch, SwitchedBatch
  <2> QED
    BY <1>3, <1>5, <1>8, <1>14, <2>1, <2>2, <2>3, <2>4
<1> QED
  BY <1>2, <1>7, <1>10, <1>11, <1>12, <1>13, <1>15, <1>16, <1>17, <1>18, <1>19 DEF PoolStep

\* The batch ends with a buffer there is.
LEMMA LastExists ==
    ASSUME IInv, batch # <<>>
    PROVE  Len(batch) \in 1 .. Len(batch) /\ batch[Len(batch)] \in 1 .. nbuf
<1> DEFINE z == batch[Len(batch)]
<1>1. batch \in Seq(Buffer) /\ Len(batch) \in Nat /\ nbuf \in Nat
  BY Basics DEF IInv, TypeOK, PoolTypeOK
<1>2. Len(batch) \in 1 .. Len(batch)
  BY <1>1, EmptySeq
<1>3. z \in Buffer /\ z <= nbuf
  BY <1>1, <1>2, ElementOfSeq DEF IInv, References, PoolReferences
<1> HIDE DEF z
<1>4. z \in 1 .. nbuf
  BY <1>1, <1>3 DEF Buffer
<1> QED
  BY <1>2, <1>4 DEF z

\* The last buffer of the batch, if it has the block of x and both have bytes,
\* is x: a block has one buffer.
LEMMA EndsBatch ==
    ASSUME IInv, CopiesAgree, NEW x \in 1 .. nbuf, Live(x), buf[x].block \in LastBlocks
    PROVE  InBatch(x) \/ EndsFreed(x)
<1> PICK z : z = batch[Len(batch)]
  OBVIOUS
<1>1. batch # <<>> /\ buf[x].block = buf[z].block
  BY DEF LastBlocks
<1>2. Len(batch) \in 1 .. Len(batch) /\ z \in 1 .. nbuf
  BY <1>1, LastExists
<1>3. CASE Live(z)
  <2>1. x = z
    BY <1>1, <1>2, <1>3, Unique
  <2> QED
    BY <1>2, <2>1 DEF InBatch
<1>4. CASE ~Live(z)
  BY <1>1, <1>4 DEF EndsFreed
<1> QED
  BY <1>3, <1>4

\* Where nothing is evicted, what it drops somebody has begun to write.
LEMMA PoolCovers ==
    ASSUME IInv, LockInv, CopiesAgree, CoverInv, ThePool
    PROVE  CoverInv'
<1>1. /\ nbuf \in Nat /\ \A x \in 1 .. nbuf : x \in Buffer
      /\ UNCHANGED <<map, main>> /\ UNCHANGED <<nbuf, solo>> /\ SameContents
  BY Basics, PoolContents DEF ThePool, appVars
<1>2. /\ IdleHasNoUnit' /\ SwitchedBatch' /\ ThreadsSucceed' /\ WritesAll'
      /\ PassesOn /\ QueueLoses
  BY PoolHands DEF CoverInv, ThreadsKeep
<1>3. NeverEvicts'
  <2>1. \A x \in 1 .. nbuf : Live(x)'
    BY <1>1 DEF CoverInv, NeverEvicts, SameContents, Live
  <2> QED
    BY <1>1, <2>1 DEF CoverInv, NeverEvicts
<1>4. ASSUME NEW x \in Buffer, Dropped(x), buf[x].dirty
      PROVE  Begun(x)
  <2>1. x \in 1 .. nbuf
    BY <1>1, <1>4 DEF Dropped, IInv, References, PoolReferences, Buffer
  <2>2. Live(x) /\ buf[x].valid
    BY <2>1 DEF CoverInv, NeverEvicts, LockInv
  <2>3. CASE buf[x].busy
    BY <2>3 DEF CoverInv, BusyIsBegun
  <2>4. CASE buf[x].block \in LastBlocks
    <3>1. ~EndsFreed(x)
      BY LastExists DEF EndsFreed, CoverInv, NeverEvicts
    <3> QED
      BY <2>1, <2>2, <2>4, <3>1, EndsBatch DEF Begun
  <2> QED
    BY <1>4, <2>2, <2>3, <2>4 DEF Dropped, Live
<1>5. \A x \in Buffer : Begun(x) => Begun(x)'
  BY <1>1, <1>2 DEF Begun, PassesOn
<1>6. \A x \in Buffer : Begun(x)' => Kept(x)'
  BY DEF Begun, Kept, InCall
<1>7. BusyIsBegun'
  BY <1>2, <1>5 DEF CoverInv, BusyIsBegun, Begun, PassesOn
<1>8. ASSUME NEW x \in Buffer, buf[x].dirty, Kept(x)
      PROVE  Kept(x)'
  <2>1. CASE InUnits(x)
    BY <1>2, <1>4, <1>5, <1>6, <1>8, <2>1 DEF Kept, PassesOn, IsLost
  <2>2. CASE InBatch(x) \/ InThread(x) \/ IsLost(x)
    BY <1>2, <2>2 DEF Kept, PassesOn, QueueLoses, IsLost
  <2>3. CASE InCall(x)
    BY <1>1, <2>3 DEF Kept, InCall
  <2> QED
    BY <1>8, <2>1, <2>2, <2>3 DEF Kept
<1>9. DirtyIsKept'
  BY <1>1, <1>2, <1>8 DEF CoverInv, DirtyIsKept, PassesOn
<1> QED
  BY <1>2, <1>3, <1>7, <1>9 DEF CoverInv
-----------------------------------------------------------------------------
(* The flush threads *)

\* Thread t goes on as u: it lets a buffer go only when it is clean, evicted or
\* could not be written, and takes isBufferBeingWrittenNow away with it.
LetsGo(t, u) ==
    \A y \in Buffer :
        /\ buf'[y].dirty => buf[y].dirty
        /\ buf'[y].busy => buf[y].busy \/ y \in Has(u)
        /\ y \in Has(t) /\ y \notin Has(u) =>
              /\ ~buf'[y].busy
              /\ buf'[y].dirty => ~buf[y].valid \/ ~u.ok

\* A thread started by the pool goes on so, unless a freed buffer stops it.
LEMMA FlusherHands ==
    ASSUME IInv, WritesAll, solo.pc = "done", NEW i \in Flushers, TheFlusher(i)
    PROVE  /\ i \in 1 .. Len(running)
           /\ \/ UNCHANGED <<buf, running, solo>>
              \/ \E u \in FlushThread :
                    /\ Advance(i, u) /\ u # running[i] /\ LetsGo(running[i], u)
                    /\ running[i].ok /\ MmapRW => u.ok
                    /\ u.pc = "write" => u.k = 0
<1> DEFINE t == Flusher(i)
           x == t.bufs[1]
           z == t.bufs[t.k + 1]
<1>1. /\ running \in Seq(FlushThread) /\ Len(running) \in Nat /\ nbuf \in Nat
      /\ buf \in [Buffer -> MemoryBuffer]
      /\ \A y \in 1 .. nbuf : y \in Buffer
  BY Basics DEF IInv, TypeOK, FlushTypeOK
<1>2. FlushStep(i)
  BY DEF TheFlusher
<1>3. i # 0
  BY <1>2 DEF FlushStep, SingleCheck, SingleSync, MultiLock, MultiWrite, MultiRelease, Flusher
<1>4. i \in 1 .. Len(running) /\ t = running[i]
  BY <1>1, <1>3 DEF Flushers, Flusher
<1>5. t \in FlushThread /\ ThreadInside(t) /\ (t.pc = "write" => t.k = 0)
  BY <1>1, <1>4, ElementOfSeq DEF WritesAll, IInv, References, FlushReferences
<1>6. /\ t.bufs \in Seq(Buffer) /\ t.k \in Nat /\ Len(t.bufs) \in Nat
      /\ DOMAIN t.bufs = 1 .. Len(t.bufs)
      /\ \A j \in 1 .. Len(t.bufs) : t.bufs[j] \in Buffer
  BY <1>5, ElementOfSeq DEF FlushThread
<1>7. /\ t.pc \in {"check", "sync", "lock", "write"} =>
            Has(t) = {t.bufs[j] : j \in 1 .. Len(t.bufs)}
      /\ t.pc = "release" => Has(t) = {t.bufs[j] : j \in t.k + 1 .. Len(t.bufs)}
  <2>1. t.pc = "lock" => t.k <= Len(t.bufs)
    BY <1>5, <1>6 DEF ThreadInside
  <2> QED
    BY <1>5, <2>1, HasPc
<1> DEFINE Goes(u) == /\ Advance(i, u) /\ u # t /\ LetsGo(t, u)
                      /\ t.ok /\ MmapRW => u.ok
                      /\ u.pc = "write" => u.k = 0
<1>8. ASSUME UNCHANGED <<buf, running, solo>> \/ \E u \in FlushThread : Goes(u)
      PROVE  /\ i \in 1 .. Len(running)
             /\ \/ UNCHANGED <<buf, running, solo>>
                \/ \E u \in FlushThread :
                      /\ Advance(i, u) /\ u # running[i] /\ LetsGo(running[i], u)
                      /\ running[i].ok /\ MmapRW => u.ok
                      /\ u.pc = "write" => u.k = 0
  BY <1>4, <1>8
<1>9. ASSUME NEW u \in FlushThread, Advance(i, u), u.pc # t.pc \/ u.k # t.k, t.ok /\ MmapRW => u.ok,
             u.pc = "write" => u.k = 0, Has(u) = Has(t),
             \A y \in Buffer : /\ buf'[y].dirty = buf[y].dirty
                               /\ buf'[y].busy => buf[y].busy \/ y \in Has(t)
      PROVE  Goes(u)
  BY <1>9 DEF LetsGo
<1> HIDE DEF t
<1>11. CASE SingleCheck(i)
  <2>1. t.pc = "check" /\ Len(t.bufs) = 1
    BY <1>5, <1>11 DEF SingleCheck, ThreadInside, t
  <2>2. CASE Advance(i, [t EXCEPT !.pc = "sync"]) /\ UNCHANGED buf
    <3> DEFINE u == [t EXCEPT !.pc = "sync"]
    <3>1. u \in FlushThread /\ u.pc = "sync" /\ u.ok = t.ok /\ u.bufs = t.bufs
      BY <1>5 DEF FlushThread
    <3>2. Advance(i, u)
      BY <2>2
    <3> HIDE DEF u
    <3>3. Has(u) = Has(t)
      BY <1>7, <2>1, <3>1, HasPc
    <3>4. Goes(u)
      BY <1>9, <2>1, <2>2, <3>1, <3>2, <3>3
    <3> QED
      BY <1>8, <3>1, <3>4
  <2>3. CASE ~buf[x].valid
    <3> DEFINE u == [t EXCEPT !.pc = "done"]
               c == [buf[x] EXCEPT !.busy = FALSE,
                                   !.requests = IF MmapRW THEN @ ELSE @ - 1]
    <3>1. Advance(i, u) /\ Assign(x, c) /\ x \in Buffer
      BY <1>6, <1>11, <2>1, <2>3 DEF SingleCheck, t
    <3>2. u \in FlushThread /\ u.pc = "done" /\ u.ok = t.ok
      BY <1>5 DEF FlushThread
    <3>3. c.dirty = buf[x].dirty /\ c.busy = FALSE
      BY <1>1, <3>1 DEF MemoryBuffer
    <3> HIDE DEF u, c
    <3>4. \A y \in Buffer : buf'[y] = IF y = x THEN c ELSE buf[y]
      BY <1>1, <3>1 DEF Assign
    <3>5. \A y \in Has(t) : y = x
      BY <1>7, <2>1
    <3> HIDE DEF x
    <3>6. LetsGo(t, u)
      BY <2>3, <3>1, <3>3, <3>4, <3>5 DEF LetsGo
    <3>7. Goes(u)
      BY <2>1, <3>1, <3>2, <3>6
    <3> QED
      BY <1>8, <3>2, <3>7
  <2> QED
    BY <1>11, <2>2, <2>3 DEF SingleCheck, t
<1>12. CASE SingleSync(i)
  <2>1. t.pc = "sync" /\ Len(t.bufs) = 1
    BY <1>5, <1>12 DEF SingleSync, ThreadInside, t
  <2>2. x \in Buffer /\ buf[x] \in MemoryBuffer
    BY <1>1, <1>6, <2>1
  <2>3. \A y \in Has(t) : y = x
    BY <1>7, <2>1
  <2>4. PICK c, u : /\ Assign(x, c) /\ Advance(i, u)
                    /\ u \in FlushThread /\ u.pc = "done" /\ (t.ok /\ MmapRW => u.ok)
                    /\ ~c.busy /\ (c.dirty => buf[x].dirty /\ (~buf[x].valid \/ ~u.ok))
    <3>1. CASE Stale(x)
      <4> DEFINE c == [buf[x] EXCEPT !.busy = FALSE,
                                     !.requests = IF MmapRW THEN @ ELSE Claimed(@)]
                 u == [t EXCEPT !.pc = "done"]
      <4>1. Assign(x, c) /\ Advance(i, u)
        BY <1>12, <3>1 DEF SingleSync, t
      <4>2. u \in FlushThread /\ u.pc = "done" /\ u.ok = t.ok
        BY <1>5 DEF FlushThread
      <4>3. c.dirty = buf[x].dirty /\ c.busy = FALSE
        BY <2>2 DEF MemoryBuffer
      <4> HIDE DEF c, u
      <4> QED
        BY <3>1, <4>1, <4>2, <4>3 DEF Stale
    <3>2. CASE ~Stale(x)
      <4>1. PICK ok \in WriteOutcomes :
               /\ Assign(x, [buf[x] EXCEPT !.busy = FALSE,
                                           !.dirty = DirtyAfter(ok),
                                           !.requests = Claimed(@)])
               /\ Advance(i, [t EXCEPT !.pc = "done", !.ok = ok])
        BY <1>12, <3>2 DEF SingleSync, t
      <4> DEFINE c == [buf[x] EXCEPT !.busy = FALSE,
                                     !.dirty = DirtyAfter(ok),
                                     !.requests = Claimed(@)]
                 u == [t EXCEPT !.pc = "done", !.ok = ok]
      <4>2. ok \in BOOLEAN /\ (MmapRW => ok)
        BY DEF WriteOutcomes
      <4>3. u \in FlushThread /\ u.pc = "done" /\ u.ok = ok
        BY <1>5, <4>2 DEF FlushThread
      <4>4. c.dirty = ~ok /\ c.busy = FALSE
        BY <2>2 DEF MemoryBuffer, DirtyAfter
      <4>5. Assign(x, c) /\ Advance(i, u)
        BY <4>1
      <4> HIDE DEF c, u
      <4> QED
        BY <3>2, <4>2, <4>3, <4>4, <4>5 DEF Stale
    <3> QED
      BY <3>1, <3>2
  <2>5. \A y \in Buffer : buf'[y] = IF y = x THEN c ELSE buf[y]
    BY <1>1, <2>4 DEF Assign
  <2> HIDE DEF x
  <2>6. LetsGo(t, u)
    BY <2>3, <2>4, <2>5 DEF LetsGo
  <2>7. Goes(u)
    BY <2>1, <2>4, <2>6
  <2> QED
    BY <1>8, <2>4, <2>7
<1>13. CASE MultiLock(i)
  <2> DEFINE n == t.k + 1
             u == [t EXCEPT !.k = IF n = Len(t.bufs) THEN 0 ELSE n,
                            !.pc = IF n = Len(t.bufs) THEN "write" ELSE "lock"]
  <2>1. t.pc = "lock" /\ Assign(z, Acquired(z)) /\ Advance(i, u)
    BY <1>13 DEF MultiLock, t
  <2>2. n \in 1 .. Len(t.bufs)
    BY <1>5, <1>6, <2>1 DEF ThreadInside
  <2>3. /\ u \in FlushThread /\ u.bufs = t.bufs /\ u.ok = t.ok
        /\ u.pc = IF n = Len(t.bufs) THEN "write" ELSE "lock"
        /\ u.k = IF n = Len(t.bufs) THEN 0 ELSE n
    <3>1. /\ (IF n = Len(t.bufs) THEN 0 ELSE n) \in Nat
          /\ (IF n = Len(t.bufs) THEN "write" ELSE "lock") \in {"lock", "write"}
      BY <1>6
    <3> QED
      BY <1>5, <3>1 DEF FlushThread
  <2>4. Advance(i, u)
    BY <2>1
  <2>5. z \in Buffer /\ z \in Has(t)
    BY <1>6, <1>7, <2>1, <2>2
  <2>6. Acquired(z).dirty = buf[z].dirty
    BY <1>1, <2>5 DEF Acquired, MemoryBuffer
  <2>7. \A y \in Buffer : buf'[y] = IF y = z THEN Acquired(z) ELSE buf[y]
    BY <1>1, <2>1 DEF Assign
  <2> HIDE DEF u
  <2>8. Has(u) = Has(t)
    <3>1. (u.pc = "lock" => u.k <= Len(u.bufs)) /\ u.pc \in {"lock", "write"}
      BY <1>6, <2>2, <2>3
    <3>2. u \in FlushThread /\ u.bufs = t.bufs
      BY <2>3
    <3>3. Has(u) = {u.bufs[j] : j \in 1 .. Len(u.bufs)}
      BY <3>1, <3>2, HasPc
    <3> QED
      BY <1>7, <2>1, <3>2, <3>3
  <2>9. (u.pc = "write" => u.k = 0) /\ (u.pc # t.pc \/ u.k # t.k)
    BY <1>6, <2>1, <2>3
  <2> HIDE DEF z, n
  <2>10. Goes(u)
    BY <1>9, <2>3, <2>4, <2>5, <2>6, <2>7, <2>8, <2>9
  <2> QED
    BY <1>8, <2>3, <2>10
<1>14. CASE MultiWrite(i)
  <2>1. t.pc = "write" /\ UNCHANGED buf
    BY <1>14 DEF MultiWrite, t
  <2>2. CASE UNCHANGED <<running, solo>>
    BY <1>8, <2>1, <2>2
  <2>3. ASSUME NEW ok \in WriteOutcomes, Advance(i, [t EXCEPT !.pc = "release", !.ok = ok])
        PROVE  \E u \in FlushThread : Goes(u)
    <3> DEFINE u == [t EXCEPT !.pc = "release", !.ok = ok]
    <3>1. ok \in BOOLEAN /\ (MmapRW => ok)
      BY DEF WriteOutcomes
    <3>2. u \in FlushThread /\ u.pc = "release" /\ u.ok = ok /\ u.bufs = t.bufs /\ u.k = 0
      BY <1>5, <2>1, <3>1 DEF FlushThread
    <3>3. Advance(i, u)
      BY <2>3
    <3> HIDE DEF u
    <3>4. Has(u) = Has(t)
      <4>1. Has(u) = {t.bufs[j] : j \in 0 + 1 .. Len(t.bufs)}
        BY <3>2, HasPc
      <4>2. 0 + 1 = 1
        OBVIOUS
      <4> QED
        BY <1>7, <2>1, <4>1, <4>2
    <3>5. Goes(u)
      BY <1>9, <2>1, <3>1, <3>2, <3>3, <3>4
    <3> QED
      BY <3>2, <3>5
  <2> QED
    BY <1>8, <1>14, <2>2, <2>3 DEF MultiWrite, t
<1>15. CASE MultiRelease(i)
  <2> DEFINE n == t.k + 1
             u == [t EXCEPT !.k = @ + 1,
                            !.pc = IF t.k + 1 = Len(t.bufs) THEN "done" ELSE "release"]
             c == [buf[z] EXCEPT !.dirty = @ /\ DirtyAfter(t.ok),
                                 !.busy = FALSE,
                                 !.lock = @ + 1]
  <2>1. t.pc = "release" /\ Assign(z, c) /\ Advance(i, u)
    BY <1>15 DEF MultiRelease, t
  <2>2. n \in 1 .. Len(t.bufs)
    BY <1>5, <1>6, <2>1 DEF ThreadInside
  <2>3. /\ u \in FlushThread /\ u.ok = t.ok /\ u.bufs = t.bufs /\ u.k = n
        /\ u.pc = IF n = Len(t.bufs) THEN "done" ELSE "release"
    <3>1. /\ t.k + 1 \in Nat
          /\ (IF t.k + 1 = Len(t.bufs) THEN "done" ELSE "release") \in {"done", "release"}
      BY <1>6
    <3> QED
      BY <1>5, <3>1 DEF FlushThread
  <2>4. z \in Buffer /\ buf[z] \in MemoryBuffer
    BY <1>1, <1>6, <2>2
  <2>5. ~c.busy /\ (c.dirty => buf[z].dirty /\ ~t.ok)
    <3>1. c.dirty = (buf[z].dirty /\ DirtyAfter(t.ok)) /\ c.busy = FALSE
      BY <2>4 DEF MemoryBuffer
    <3> QED
      BY <3>1 DEF DirtyAfter
  <2>6. \A y \in Buffer : buf'[y] = IF y = z THEN c ELSE buf[y]
    BY <1>1, <2>1 DEF Assign
  <2>7. Advance(i, u)
    BY <2>1
  <2> HIDE DEF u, c
  <2>8. \A y \in Has(t) : y \in Has(u) \/ y = z
    <3> SUFFICES ASSUME NEW y \in Has(t), y # z PROVE y \in Has(u)
      OBVIOUS
    <3>1. PICK j \in n .. Len(t.bufs) : y = t.bufs[j]
      BY <1>7, <2>1
    <3>2. j # n
      BY <3>1
    <3>3. j \in n + 1 .. Len(t.bufs) /\ n # Len(t.bufs)
      BY <1>6, <2>2, <3>1, <3>2
    <3>4. Has(u) = {u.bufs[h] : h \in n + 1 .. Len(u.bufs)}
      BY <2>3, <3>3, HasPc
    <3> QED
      BY <2>3, <3>1, <3>3, <3>4
  <2>9. u.pc # "write" /\ u # t
    BY <1>6, <2>3
  <2> HIDE DEF z, n
  <2>10. LetsGo(t, u)
    BY <2>3, <2>4, <2>5, <2>6, <2>8 DEF LetsGo
  <2>11. Goes(u)
    BY <2>3, <2>7, <2>9, <2>10
  <2> QED
    BY <1>8, <2>3, <2>11
<1> QED
  BY <1>2, <1>11, <1>12, <1>13, <1>14, <1>15 DEF FlushStep

\* So nobody is left out, and buffers stay in the threads' hands until they are
\* clean, evicted or could not be written.
LEMMA FlushersPass ==
    ASSUME IInv, WritesAll, BusyIsBegun, solo = NoThread, NEW i \in Flushers, TheFlusher(i)
    PROVE  /\ WritesAll' /\ BusyIsBegun' /\ UNCHANGED solo
           /\ MmapRW /\ ThreadsSucceed => ThreadsSucceed'
           /\ \A y \in Buffer : buf'[y].dirty => buf[y].dirty
           /\ \A y \in Buffer : InThread(y) /\ buf[y].valid /\ buf'[y].dirty =>
                                   InThread(y)' \/ WriteFailed(y)
<1>1. UNCHANGED <<batch, main>> /\ running \in Seq(FlushThread) /\ Len(running) \in Nat
  BY FlushKeepsThreads DEF poolVars, appVars, IInv, TypeOK, FlushTypeOK
<1>2. solo.pc = "done"
  BY DEF NoThread
<1>3. /\ i \in 1 .. Len(running)
      /\ \/ UNCHANGED <<buf, running, solo>>
         \/ \E u \in FlushThread :
               /\ Advance(i, u) /\ u # running[i] /\ LetsGo(running[i], u)
               /\ running[i].ok /\ MmapRW => u.ok
               /\ u.pc = "write" => u.k = 0
  BY <1>2, FlusherHands
<1>4. CASE UNCHANGED <<buf, running, solo>>
  BY <1>1, <1>4 DEF ThreadsSucceed, WritesAll, BusyIsBegun, Begun, InBatch, InThread
<1>5. CASE ~UNCHANGED <<buf, running, solo>>
  <2>1. PICK u \in FlushThread :
               /\ Advance(i, u) /\ u # running[i] /\ LetsGo(running[i], u)
               /\ running[i].ok /\ MmapRW => u.ok
               /\ u.pc = "write" => u.k = 0
    BY <1>3, <1>5
  <2>2. /\ ThreadsSucceed /\ u.ok => ThreadsSucceed'
        /\ WritesAll'
        /\ \A y : InThread(y) => InThread(y)' \/ (y \in Has(running[i]) /\ y \notin Has(u))
    BY <1>3, <2>1, ThreadMoves
  <2>3. /\ i \in 1 .. Len(running') /\ running'[i] = u /\ UNCHANGED solo
        /\ i # 0 /\ Len(running') = Len(running)
    BY <1>1, <1>3, <2>1, AdvanceType DEF IInv, TypeOK, Flushers
  <2>4. \A y \in Buffer : y \in Has(u) => InThread(y)'
    BY <2>3 DEF InThread
  <2>5. \A y \in Buffer : InThread(y) /\ ~InThread(y)' => ~buf'[y].busy
    BY <2>1, <2>2 DEF LetsGo
  <2>6. BusyIsBegun'
    BY <1>1, <2>1, <2>4, <2>5 DEF BusyIsBegun, Begun, InBatch, LetsGo
  <2>7. MmapRW /\ ThreadsSucceed => ThreadsSucceed'
    BY <1>3, <2>1, <2>2 DEF ThreadsSucceed
  <2>8. ASSUME NEW y \in Buffer, InThread(y), buf[y].valid, buf'[y].dirty, ~InThread(y)'
        PROVE  WriteFailed(y)
    <3>1. y \in Has(running[i]) /\ ~u.ok
      BY <2>1, <2>2, <2>8 DEF LetsGo
    <3>2. PICK j \in DOMAIN running[i].bufs : running[i].bufs[j] = y
      BY <1>3, <3>1, HasExists
    <3>3. /\ Flusher(i) = running[i] /\ Flusher(i)' = u
          /\ i \in Flushers /\ i \in Flushers'
      BY <1>1, <1>3, <2>3 DEF Flusher, Flushers
    <3> QED
      BY <2>1, <3>1, <3>2, <3>3 DEF WriteFailed
  <2> QED
    BY <2>1, <2>2, <2>3, <2>6, <2>7, <2>8 DEF LetsGo
<1> QED
  BY <1>4, <1>5

\* Where writes succeed and nothing is evicted, what they let go is clean.
LEMMA FlushersCover ==
    ASSUME RoomyBuild, IInv, LockInv, CoverInv, NEW i \in Flushers, TheFlusher(i)
    PROVE  CoverInv'
<1>1. SameContents /\ UNCHANGED <<nbuf, queue, lost, batch, pool, main>>
  BY FlushKeepsThreads DEF poolVars, appVars
<1>2. /\ WritesAll' /\ BusyIsBegun' /\ UNCHANGED solo /\ ThreadsSucceed'
      /\ \A y \in Buffer : buf'[y].dirty => buf[y].dirty
      /\ \A y \in Buffer : InThread(y) /\ buf[y].valid /\ buf'[y].dirty =>
                              InThread(y)' \/ WriteFailed(y)
  BY FlushersPass DEF CoverInv, NeverEvicts, RoomyBuild
<1>3. \A y : ~WriteFailed(y)
  <2>1. ASSUME NEW j \in Flushers'
        PROVE  (Flusher(j)').ok
    <3>1. running' \in Seq(FlushThread) /\ solo'.ok
      BY <1>2, FlushStepInv DEF IInv, TypeOK, FlushTypeOK, CoverInv, NeverEvicts, NoThread
    <3> QED
      BY <1>2, <2>1, <3>1 DEF Flushers, Flusher, ThreadsSucceed
  <2> QED
    BY <2>1 DEF WriteFailed
<1>4. \A y \in Buffer : InThread(y) => y \in 1 .. nbuf
  BY HasExists DEF InThread
<1>5. \A y \in 1 .. nbuf : buf[y].valid
  BY DEF CoverInv, NeverEvicts, LockInv
<1>6. DirtyIsKept'
  BY <1>1, <1>2, <1>3, <1>4, <1>5
     DEF CoverInv, DirtyIsKept, Kept, InBatch, InUnits, IsLost, InCall
<1>7. NeverEvicts'
  <2>1. \A y \in 1 .. nbuf : Live(y)'
    BY <1>1, Basics DEF CoverInv, NeverEvicts, SameContents, Live
  <2> QED
    BY <1>1, <1>2, <2>1 DEF CoverInv, NeverEvicts
<1> QED
  BY <1>1, <1>2, <1>6, <1>7 DEF CoverInv, IdleHasNoUnit, SwitchedBatch
-----------------------------------------------------------------------------
(* The application's thread *)

\* With room for every block no call evicts.
LEMMA HasRoom ==
    ASSUME RoomyBuild, IInv, NEW b \in Block, map[b] = NoBuffer
    PROVE  ~Full
<1>1. TotalN \in Nat
  BY MemoryBufferAssumption
<1>2. IsFiniteSet(Block) /\ Cardinality(Block) = TotalN
  <2>1. 0 \in Int /\ TotalN - 1 \in Int /\ (TotalN - 1) - 0 + 1 = TotalN
    BY <1>1
  <2>2. 0 > TotalN - 1 \/ Cardinality(Block) = (TotalN - 1) - 0 + 1
    BY <2>1, FS_Interval DEF Block
  <2>3. ~(0 > TotalN - 1)
    BY MemoryBufferAssumption
  <2>4. IsFiniteSet(Block)
    BY <2>1, FS_Interval DEF Block
  <2> QED
    BY <2>1, <2>2, <2>3, <2>4
<1>3. Cached \subseteq Block /\ Cached # Block
  BY DEF Cached
<1>4. Cardinality(Cached) < TotalN /\ Cardinality(Cached) \in Nat
  BY <1>2, <1>3, FS_Subset, FS_CardinalityType
<1> QED
  BY <1>1, <1>4 DEF Full, RoomyBuild

\* What os_write makes dirty it pushes, and units leave the queue only lost.
LEMMA AppCovers ==
    ASSUME RoomyBuild, IInv, CoverInv, AppCall \/ AppStep
    PROVE  CoverInv'
<1> DEFINE y == main.buf
<1>1. /\ buf \in [Buffer -> MemoryBuffer] /\ nbuf \in Nat
      /\ \A x \in 1 .. nbuf : x \in Buffer
  BY Basics
<1>2. UNCHANGED <<pool, batch>> /\ main.pc \notin Evicting
  BY AppThreads, AppKeepsLists DEF CoverInv, NeverEvicts
<1>3. ThreadsSucceed' /\ WritesAll' /\ \A x : InThread(x) => InThread(x)'
  <2>1. CASE UNCHANGED running
    BY <2>1 DEF CoverInv, ThreadsSucceed, WritesAll, InThread
  <2>2. CASE ~UNCHANGED running
    <3>1. running # <<>> /\ Head(running).pc = "done" /\ running' = Tail(running)
      BY <2>2, AppKeepsLists DEF JoinAll
    <3> QED
      BY <3>1, ThreadLeaves DEF CoverInv
  <2> QED
    BY <2>1, <2>2
<1>4. IdleHasNoUnit' /\ SwitchedBatch'
  BY <1>2 DEF CoverInv, IdleHasNoUnit, SwitchedBatch
<1>5. ASSUME NeverEvicts',
             \A x \in Buffer : buf'[x].busy =>
                 \/ buf[x].busy /\ ~(main.pc = "wdone" /\ main.buf = x)
                 \/ main'.pc = "wdone" /\ main'.buf = x,
             main'.pc # "closed" =>
                 /\ main.pc # "closed"
                 /\ \A x \in Buffer : InUnits(x) \/ IsLost(x) => InUnits(x)' \/ IsLost(x)'
                 /\ \A x \in Buffer : buf'[x].dirty =>
                        \/ InUnits(x)' \/ InCall(x)'
                        \/ buf[x].dirty /\ ~InCall(x)
      PROVE  CoverInv'
  <2>1. BusyIsBegun'
    BY <1>2, <1>3, <1>5 DEF CoverInv, BusyIsBegun, Begun, InBatch
  <2>2. DirtyIsKept'
    BY <1>2, <1>3, <1>5 DEF CoverInv, DirtyIsKept, Kept, InBatch
  <2> QED
    BY <1>3, <1>4, <1>5, <2>1, <2>2 DEF CoverInv
<1>6. ASSUME UNCHANGED <<queue, lost>>
      PROVE  \A x : InUnits(x) \/ IsLost(x) => InUnits(x)' \/ IsLost(x)'
  BY <1>2, <1>6 DEF InUnits, IsLost
<1>7. ASSUME UNCHANGED <<buf, nbuf, solo>>, main'.pc \notin Evicting
      PROVE  NeverEvicts'
  BY <1>7 DEF CoverInv, NeverEvicts, Live
<1>8. ASSUME NEW op \in {"read", "write"}, NEW b \in Block, NEW d \in Data, Begin(op, b, d)
      PROVE  CoverInv'
  <2>1. /\ main.pc = "idle" /\ UNCHANGED <<queue, lost, solo>>
        /\ main' = [pc |-> IF map[b] # NoBuffer THEN IF op = "read" THEN "copy" ELSE "wlock"
                           ELSE IF Full THEN "victim" ELSE "put",
                    op |-> op, block |-> b, data |-> d,
                    buf |-> IF map[b] # NoBuffer THEN map[b] ELSE nbuf + 1,
                    victim |-> NoBuffer]
    BY <1>8 DEF Begin, At, poolVars
  <2>2. \A x : ~InCall(x)
    BY <2>1 DEF InCall
  <2>3. CASE map[b] # NoBuffer
    <3>1. UNCHANGED <<buf, nbuf>> /\ main'.pc \in {"copy", "wlock"}
      BY <1>8, <2>1, <2>3 DEF Begin
    <3>2. NeverEvicts'
      BY <1>7, <2>1, <3>1 DEF Evicting
    <3> QED
      BY <1>5, <1>6, <2>1, <2>2, <3>1, <3>2
  <2>4. CASE map[b] = NoBuffer
    <3>1. CreateNewMemoryBuffer(b, d, op = "write")
      BY <1>8, <2>4 DEF Begin
    <3>2. main'.pc = "put" /\ main'.op = op /\ main'.buf = nbuf + 1
      BY <2>1, <2>4, HasRoom
    <3>3. /\ nbuf' = nbuf + 1 /\ nbuf + 1 \in Buffer
          /\ \A x \in Buffer : x # nbuf + 1 => buf'[x] = buf[x]
          /\ buf'[nbuf + 1].busy = FALSE /\ buf'[nbuf + 1].dirty = (op = "write")
          /\ buf'[nbuf + 1].data = d
      BY <1>1, <3>1, MemoryBufferAssumption DEF CreateNewMemoryBuffer, Buffer
    <3>4. NeverEvicts'
      <4>1. \A x \in 1 .. nbuf' : x = nbuf + 1 \/ (x \in 1 .. nbuf /\ x \in Buffer /\ x # nbuf + 1)
        BY <1>1, <3>3
      <4>2. \A x \in 1 .. nbuf' : buf'[x].data # NULL
        BY <3>3, <4>1, MemoryBufferAssumption DEF CoverInv, NeverEvicts, Live
      <4> QED
        BY <2>1, <3>2, <4>2 DEF CoverInv, NeverEvicts, Evicting, Live
    <3>5. \A x \in Buffer : buf'[x].busy => buf[x].busy
      BY <3>3
    <3>6. \A x \in Buffer : buf'[x].dirty => InCall(x)' \/ buf[x].dirty
      BY <3>2, <3>3 DEF InCall
    <3> QED
      BY <1>5, <1>6, <2>1, <2>2, <3>2, <3>4, <3>5, <3>6
  <2> QED
    BY <2>3, <2>4
<1>9. CASE AppCall
  <2>1. CASE Close
    <3>1. /\ main.pc = "idle" /\ main'.pc = "joinpool"
          /\ UNCHANGED <<buf, nbuf, solo, queue, lost>>
      BY <2>1 DEF Close, At, AppGoto, memVars, IInv, TypeOK, AppTypeOK
    <3>2. NeverEvicts'
      BY <1>7, <3>1 DEF Evicting
    <3> QED
      BY <1>5, <1>6, <3>1, <3>2 DEF InCall
  <2>2. CASE \E b \in Block : OsRead(b)
    BY <1>8, <2>2, Basics DEF OsRead
  <2>3. CASE \E b \in Block : OsWrite(b)
    BY <1>8, <2>3 DEF OsWrite
  <2> QED
    BY <1>9, <2>1, <2>2, <2>3 DEF AppCall
<1>10. CASE ReadHit \/ JoinPool
  <2>1. /\ main.pc \in {"copy", "joinpool"} /\ main'.pc \in {"idle", "joinall"}
        /\ UNCHANGED <<buf, nbuf, solo, queue, lost>>
    BY <1>10 DEF ReadHit, JoinPool, At, AppGoto, memVars, poolVars, IInv, TypeOK, AppTypeOK
  <2>2. NeverEvicts'
    BY <1>7, <2>1 DEF Evicting
  <2> QED
    BY <1>5, <1>6, <2>1, <2>2 DEF InCall
<1>11. CASE JoinAll
  <2>1. /\ main.pc = "joinall" /\ UNCHANGED <<buf, nbuf, solo, lost>>
        /\ (UNCHANGED <<queue, main>> \/ main'.pc = "closed")
    BY <1>11 DEF JoinAll, At, AppGoto, memVars, IInv, TypeOK, AppTypeOK
  <2>2. NeverEvicts'
    BY <1>7, <2>1 DEF Evicting
  <2> QED
    BY <1>5, <1>6, <2>1, <2>2 DEF InCall
<1>12. CASE WriteLock
  <2> DEFINE c == [buf[y] EXCEPT !.lock = IF buf[y].valid THEN @ - 1 ELSE 0,
                                 !.busy = TRUE, !.data = main.data]
  <2>1. /\ main.pc = "wlock" /\ main'.pc = "wdone" /\ main'.buf = y
        /\ Assign(y, c) /\ UNCHANGED <<nbuf, solo, queue, lost>>
        /\ main.data \in Data
    BY <1>12 DEF WriteLock, At, AppGoto, poolVars, IInv, TypeOK, AppTypeOK
  <2>2. \A x \in Buffer : buf'[x] = IF x = y THEN c ELSE buf[x]
    BY <1>1, <2>1 DEF Assign
  <2>3. y \in Buffer => c.dirty = buf[y].dirty /\ c.data = main.data
    BY <1>1 DEF MemoryBuffer
  <2> HIDE DEF c
  <2>4. NeverEvicts'
    <3>1. \A x \in 1 .. nbuf : buf'[x].data # NULL
      BY <1>1, <2>1, <2>2, <2>3, MemoryBufferAssumption DEF CoverInv, NeverEvicts, Live
    <3> QED
      BY <2>1, <3>1 DEF CoverInv, NeverEvicts, Evicting, Live
  <2> QED
    BY <1>5, <1>6, <2>1, <2>2, <2>3, <2>4 DEF InCall
<1>13. CASE WriteUnlock
  <2> DEFINE c == [buf[y] EXCEPT !.valid = TRUE, !.dirty = TRUE,
                                 !.busy = FALSE, !.lock = @ + 1]
  <2>1. /\ main.pc = "wdone" /\ main'.pc = "push" /\ main'.buf = y
        /\ Assign(y, c) /\ UNCHANGED <<nbuf, solo, queue, lost>>
    BY <1>13 DEF WriteUnlock, At, AppGoto, poolVars, IInv, TypeOK, AppTypeOK
  <2>2. \A x \in Buffer : buf'[x] = IF x = y THEN c ELSE buf[x]
    BY <1>1, <2>1 DEF Assign
  <2>3. y \in Buffer => c.busy = FALSE /\ c.data = buf[y].data
    BY <1>1 DEF MemoryBuffer
  <2> HIDE DEF c
  <2>4. NeverEvicts'
    <3>1. \A x \in 1 .. nbuf : buf'[x].data # NULL
      BY <1>1, <2>1, <2>2, <2>3 DEF CoverInv, NeverEvicts, Live
    <3> QED
      BY <2>1, <3>1 DEF CoverInv, NeverEvicts, Evicting, Live
  <2> QED
    BY <1>5, <1>6, <2>1, <2>2, <2>3, <2>4 DEF InCall
<1>14. CASE Put
  <2>1. /\ main.pc = "put" /\ main'.buf = y
        /\ \/ main.op = "read" /\ main'.pc = "idle"
           \/ main.op = "write" /\ main'.pc = "push"
        /\ UNCHANGED <<buf, nbuf, solo, queue, lost>>
    BY <1>14 DEF Put, At, AppGoto, memVars, poolVars, IInv, TypeOK, AppTypeOK
  <2>2. NeverEvicts'
    BY <1>7, <2>1 DEF Evicting
  <2> QED
    BY <1>5, <1>6, <2>1, <2>2 DEF InCall
<1>15. CASE Push
  <2>1. /\ main.pc = "push" /\ main'.pc = "idle"
        /\ AddQueue(y, 0) /\ UNCHANGED <<buf, nbuf, solo>>
    BY <1>15 DEF Push, At, AppGoto, memVars, IInv, TypeOK, AppTypeOK
  <2>2. NeverEvicts'
    BY <1>7, <2>1 DEF Evicting
  <2>3. /\ \A u \in queue : u \in queue' \/ u \in lost'
        /\ lost \subseteq lost'
        /\ [id |-> nunit + 1, buf |-> y, priority |-> 0] \in queue'
    BY <2>1 DEF AddQueue
  <2>4. \A x \in Buffer : InUnits(x) \/ IsLost(x) => InUnits(x)' \/ IsLost(x)'
    BY <1>2, <2>3 DEF InUnits, IsLost
  <2>5. \A x \in Buffer : InCall(x) => InUnits(x)'
    BY <2>3 DEF InCall, InUnits
  <2> QED
    BY <1>5, <2>1, <2>2, <2>4, <2>5
<1> QED
  BY <1>2, <1>9, <1>10, <1>11, <1>12, <1>13, <1>14, <1>15
     DEF AppStep, FindVictim, WaitNotBusy, WaitNoRequests, Inspect, Requeue, Join, WaitClean,
     Free, Destroy, At, Evicting

LEMMA InitCovers == Init => CoverInv
<1> SUFFICES ASSUME Init PROVE CoverInv
  OBVIOUS
<1>1. /\ running = <<>> /\ solo = NoThread /\ nbuf = 0 /\ main.pc = "idle"
      /\ pool.pc = "top" /\ pool.unit = NoUnit
  BY DEF Init, MemInit, FlushInit, PoolInit
<1>2. \A x \in Buffer : ~buf[x].busy /\ ~buf[x].dirty
  BY DEF Init, MemInit, Unallocated
<1>3. ThreadsSucceed /\ WritesAll
  BY <1>1, EmptySeq DEF ThreadsSucceed, WritesAll
<1> QED
  BY <1>1, <1>2, <1>3 DEF CoverInv, NeverEvicts, Evicting, IdleHasNoUnit, SwitchedBatch,
     BusyIsBegun, DirtyIsKept

\* Where every block has room and writes cannot fail, no dirty buffer is
\* forgotten until the pool is closed: it is in a unit, a batch or a thread, or
\* its unit was lost between front() and pop(), whatever the number of blocks
\* and threads (thread_pool.c, ThreadPoolMainPooling1, and buffer.c, os_write).
THEOREM DirtyIsKeptOrLost == ASSUME RoomyBuild PROVE Spec => []DirtyIsCoveredOrLost
<1>1. IInv /\ LockInv /\ CopiesAgree /\ CoverInv /\ [Next]_vars => CoverInv'
  <2> SUFFICES ASSUME IInv, LockInv, CopiesAgree, CoverInv, [Next]_vars
               PROVE  CoverInv'
    OBVIOUS
  <2>1. CASE AppCall \/ AppStep
    BY <2>1, AppCovers
  <2>2. CASE ThePool
    BY <2>2, PoolCovers
  <2>3. ASSUME NEW i \in Flushers, TheFlusher(i)
        PROVE  CoverInv'
    BY <2>3, FlushersCover
  <2>4. CASE UNCHANGED vars
    BY <2>4 DEF vars, memVars, poolVars, appVars, CoverInv, NeverEvicts, IdleHasNoUnit,
       ThreadsSucceed, WritesAll, SwitchedBatch, BusyIsBegun, DirtyIsKept, Begun, Kept,
       InUnits, InBatch,
       InThread, IsLost, InCall, Live
  <2> QED
    BY <2>1, <2>2, <2>3, <2>4 DEF Next, Stopped
<1>2. IInv /\ CoverInv => DirtyIsCoveredOrLost
  <2> SUFFICES ASSUME IInv, CoverInv, ~Over, NEW b \in Cached, buf[map[b]].dirty
               PROVE  Covered(map[b]) \/ \E u \in lost : u.buf = map[b]
    BY DEF DirtyIsCoveredOrLost
  <2> DEFINE x == map[b]
  <2>1. x \in Buffer /\ b \in Block
    BY Basics DEF Cached
  <2>2. Kept(x)
    BY <2>1 DEF CoverInv, DirtyIsKept, Over
  <2>3. InBatch(x) => Covered(x)
    BY DEF InBatch, Covered, IInv, TypeOK, PoolTypeOK
  <2>4. InThread(x) => Covered(x)
    <3>1. running \in Seq(FlushThread) /\ Len(running) \in Nat
      BY DEF IInv, TypeOK, FlushTypeOK
    <3>2. \A i \in 1 .. Len(running) : i \in Flushers /\ Flusher(i) = running[i]
      BY <3>1 DEF Flushers, Flusher
    <3> QED
      BY <3>2 DEF InThread, Has, Covered
  <2>5. InCall(x) => Covered(x)
    <3>1. main.pc = "put" => x # main.buf
      BY <2>1 DEF IInv, References, AppReferences
    <3> QED
      BY <3>1 DEF InCall, Covered
  <2>6. InUnits(x) => Covered(x)
    BY DEF InUnits, Covered
  <2> QED
    BY <2>2, <2>3, <2>4, <2>5, <2>6 DEF Kept, IsLost
<1>3. Spec => []CopiesAgree
  BY CopiesHold DEF RoomyBuild, SafeBuild
<1> QED
  BY InitCovers, IInvAlways, LockInvAlways, <1>1, <1>2, <1>3, PTL DEF Spec
-----------------------------------------------------------------------------
(* The evicting call *)

\* Units have numbers of their own, so none comes back from those lost.
LostIsGone ==
    /\ queue \intersect lost = {}
    /\ \A u \in queue \union lost : u.id <= nunit

\* With evictions through the pool there is no solo; a buffer being written is
\* in a batch or a thread.
ServeInv ==
    /\ IdleHasNoUnit /\ WritesAll /\ SwitchedBatch /\ BusyIsBegun
    /\ solo = NoThread /\ LostIsGone

\* A call marks a buffer as being written only while it writes it itself.
LEMMA AppBegins ==
    ASSUME EvictionType = "pool", IInv, AppCall \/ AppStep, NEW x \in Buffer, buf'[x].busy
    PROVE  \/ buf[x].busy /\ ~(main.pc = "wdone" /\ main.buf = x)
           \/ main'.pc = "wdone" /\ main'.buf = x
<1>1. /\ buf \in [Buffer -> MemoryBuffer] /\ nbuf \in Nat
      /\ buf[x] \in MemoryBuffer
  BY Basics
<1>2. CASE UNCHANGED buf /\ main.pc # "wdone"
  BY <1>2
<1>3. ASSUME NEW op, NEW b, NEW d, Begin(op, b, d)
      PROVE  buf[x].busy /\ main.pc = "idle"
  <2>1. main.pc = "idle" /\ (UNCHANGED buf \/ CreateNewMemoryBuffer(b, d, op = "write"))
    BY <1>3 DEF Begin, At
  <2> QED
    BY <1>1, <2>1 DEF CreateNewMemoryBuffer
<1>4. CASE AppCall
  BY <1>2, <1>3, <1>4 DEF AppCall, Close, OsRead, OsWrite, memVars, At
<1>5. CASE WriteLock
  <2> DEFINE r == [buf[main.buf] EXCEPT !.lock = IF buf[main.buf].valid THEN @ - 1 ELSE 0,
                                        !.busy = TRUE, !.data = main.data]
  <2>1. main.pc = "wlock" /\ Assign(main.buf, r) /\ main'.pc = "wdone" /\ main'.buf = main.buf
    BY <1>5 DEF WriteLock, At, AppGoto, IInv, TypeOK, AppTypeOK
  <2> HIDE DEF r
  <2>2. x # main.buf => buf'[x] = buf[x]
    BY <1>1, <2>1 DEF Assign
  <2> QED
    BY <2>1, <2>2
<1>6. ASSUME NEW y, NEW r, Assign(y, r), r.busy = FALSE \/ (r.busy = buf[y].busy /\ main.pc # "wdone")
      PROVE  (x # y /\ buf[x].busy) \/ (buf[x].busy /\ main.pc # "wdone")
  BY <1>1, <1>6 DEF Assign
<1>7. CASE WriteUnlock
  <2> DEFINE r == [buf[main.buf] EXCEPT !.valid = TRUE, !.dirty = TRUE,
                                        !.busy = FALSE, !.lock = @ + 1]
  <2>1. main.pc = "wdone" /\ Assign(main.buf, r)
    BY <1>7 DEF WriteUnlock, At
  <2>2. x = main.buf => r.busy = FALSE
    BY <1>1 DEF MemoryBuffer
  <2> HIDE DEF r
  <2>3. buf'[x] = IF x = main.buf THEN r ELSE buf[x]
    BY <1>1, <2>1 DEF Assign
  <2> QED
    BY <2>1, <2>2, <2>3
<1>8. CASE Join \/ Free \/ Destroy
  <2>1. PICK y \in Buffer : y = main.victim
    BY <1>8, VictimCached DEF Join, Free, Destroy, At, Deleting, Evicting
  <2>2. buf[y] \in MemoryBuffer /\ main.pc \in {"join", "free", "destroy"}
    BY <1>1, <1>8 DEF Join, Free, Destroy, At
  <2>3. \/ Assign(y, [buf[y] EXCEPT !.busy = FALSE])
        \/ Assign(y, [buf[y] EXCEPT !.valid = FALSE, !.data = NULL])
        \/ Assign(y, [buf[y] EXCEPT !.lock = 0])
    BY <1>8, <2>1 DEF Join, Free, Destroy
  <2>4. \E r : Assign(y, r) /\ (r.busy = FALSE \/ r.busy = buf[y].busy)
    <3>1. /\ [buf[y] EXCEPT !.busy = FALSE].busy = FALSE
          /\ [buf[y] EXCEPT !.valid = FALSE, !.data = NULL].busy = buf[y].busy
          /\ [buf[y] EXCEPT !.lock = 0].busy = buf[y].busy
      BY <2>2 DEF MemoryBuffer
    <3> QED
      BY <2>3, <3>1
  <2> QED
    BY <1>6, <2>2, <2>4
<1>9. CASE Inspect
  BY <1>2, <1>9 DEF Inspect, At
<1> QED
  BY <1>2, <1>4, <1>5, <1>7, <1>8, <1>9
     DEF AppStep, ReadHit, Put, Push, FindVictim, WaitNotBusy, WaitNoRequests, Requeue,
         WaitClean, JoinPool, JoinAll, memVars, At

\* The units of a push: the new one and those of the queue that are not lost.
LEMMA PushedUnits ==
    ASSUME IInv, LostIsGone, NEW x, NEW p, AddQueue(x, p)
    PROVE  LostIsGone'
<1> PICK u : u = [id |-> nunit + 1, buf |-> x, priority |-> p]
  OBVIOUS
<1>1. nunit \in Nat /\ u.id = nunit + 1
  BY DEF IInv, TypeOK, PoolTypeOK
<1>2. /\ nunit' = nunit + 1
      /\ queue' \subseteq queue \union {u}
      /\ lost' \subseteq lost \union queue
      /\ queue' \intersect lost' \subseteq (queue \intersect lost) \union ({u} \intersect (lost \union queue))
  BY DEF AddQueue
<1>3. queue \subseteq Unit /\ lost \subseteq Unit
  BY DEF IInv, TypeOK, PoolTypeOK
<1>4. u \notin queue \union lost
  BY <1>1 DEF LostIsGone
<1>5. \A v \in queue \union lost : v.id <= nunit /\ v.id \in Int
  BY <1>3 DEF LostIsGone, Unit
<1>6. \A v \in queue' \union lost' : v.id <= nunit'
  BY <1>1, <1>2, <1>5
<1>7. queue' \intersect lost' = {}
  BY <1>2, <1>4 DEF LostIsGone
<1> QED
  BY <1>6, <1>7 DEF LostIsGone

LEMMA AppServes ==
    ASSUME EvictionType = "pool", IInv, ServeInv, AppCall \/ AppStep
    PROVE  ServeInv'
<1>1. UNCHANGED <<pool, batch>>
  BY AppThreads, AppKeepsLists
<1>2. WritesAll' /\ \A x : InThread(x) => InThread(x)'
  <2>1. CASE UNCHANGED running
    BY <2>1 DEF ServeInv, WritesAll, InThread
  <2>2. CASE ~UNCHANGED running
    <3>1. running # <<>> /\ Head(running).pc = "done" /\ running' = Tail(running)
      BY <2>2, AppKeepsLists DEF JoinAll
    <3> QED
      BY <3>1, ThreadLeaves DEF ServeInv
  <2> QED
    BY <2>1, <2>2
<1>3. IdleHasNoUnit' /\ SwitchedBatch'
  BY <1>1 DEF ServeInv, IdleHasNoUnit, SwitchedBatch
<1>4. BusyIsBegun'
  BY <1>1, <1>2, AppBegins DEF ServeInv, BusyIsBegun, Begun, InBatch
<1>5. solo' = NoThread
  BY DEF ServeInv, AppCall, Close, OsRead, OsWrite, Begin, AppStep, ReadHit, WriteLock,
     WriteUnlock, Put, Push, FindVictim, WaitNotBusy, WaitNoRequests, Inspect, Requeue, Join,
     WaitClean, Free, Destroy, JoinPool, JoinAll
<1>6. LostIsGone'
  <2>1. CASE Push \/ Requeue
    BY <2>1, PushedUnits DEF ServeInv, Push, Requeue
  <2>2. CASE UNCHANGED <<lost, nunit>> /\ queue' \subseteq queue
    BY <2>2 DEF ServeInv, LostIsGone
  <2> QED
    BY <2>1, <2>2 DEF AppCall, Close, OsRead, OsWrite, Begin, AppStep, ReadHit, WriteLock,
       WriteUnlock, Put, FindVictim, WaitNotBusy, WaitNoRequests, Inspect, Join,
       WaitClean, Free, Destroy, JoinPool, JoinAll, poolVars
<1> QED
  BY <1>2, <1>3, <1>4, <1>5, <1>6 DEF ServeInv

LEMMA PoolServes ==
    ASSUME IInv, ServeInv, ThePool
    PROVE  ServeInv'
<1>1. UNCHANGED <<main, solo>>
  BY PoolContents DEF ThePool, appVars
<1>2. /\ IdleHasNoUnit' /\ SwitchedBatch' /\ WritesAll'
      /\ PassesOn /\ QueueLoses
  BY PoolHands DEF ServeInv, ThreadsKeep
<1>3. BusyIsBegun'
  BY <1>1, <1>2 DEF ServeInv, BusyIsBegun, Begun, PassesOn
<1>4. LostIsGone'
  BY <1>2 DEF ServeInv, LostIsGone, QueueLoses
<1> QED
  BY <1>1, <1>2, <1>3, <1>4 DEF ServeInv

LEMMA FlushersServe ==
    ASSUME IInv, ServeInv, NEW i \in Flushers, TheFlusher(i)
    PROVE  ServeInv'
<1>1. UNCHANGED <<queue, lost, nunit, batch, pool>>
  BY FlushKeepsThreads DEF poolVars
<1>2. WritesAll' /\ BusyIsBegun' /\ UNCHANGED solo
  BY FlushersPass DEF ServeInv
<1> QED
  BY <1>1, <1>2 DEF ServeInv, IdleHasNoUnit, SwitchedBatch, LostIsGone

LEMMA InitServes == Init => ServeInv
<1> SUFFICES ASSUME Init PROVE ServeInv
  OBVIOUS
<1>1. /\ running = <<>> /\ solo = NoThread /\ queue = {} /\ lost = {}
      /\ pool.pc = "top" /\ pool.unit = NoUnit
  BY DEF Init, FlushInit, PoolInit
<1>2. \A x \in Buffer : ~buf[x].busy
  BY DEF Init, MemInit, Unallocated
<1>3. WritesAll
  BY <1>1, EmptySeq DEF WritesAll
<1> QED
  BY <1>1, <1>2, <1>3 DEF ServeInv, IdleHasNoUnit, SwitchedBatch, BusyIsBegun, LostIsGone

\* Without solo, a buffer is in hand in a unit, the batch or a thread of the pool.
LEMMA HandIs ==
    ASSUME IInv, solo = NoThread, NEW x
    PROVE  InHand(x) <=> InUnits(x) \/ InBatch(x) \/ InThread(x)
<1>1. /\ running \in Seq(FlushThread) /\ Len(running) \in Nat
      /\ DOMAIN batch = 1 .. Len(batch)
  BY DEF IInv, TypeOK, FlushTypeOK, PoolTypeOK
<1>2. ToCopy(solo) = {} /\ LockedBy(solo) = {}
  BY LockedByPc DEF NoThread, ToCopy
<1>3. /\ \A i \in Flushers : i = 0 \/ i \in 1 .. Len(running)
      /\ \A i \in 1 .. Len(running) : i \in Flushers /\ Flusher(i) = running[i]
      /\ Flusher(0) = solo
  BY <1>1 DEF Flushers, Flusher
<1>4. (\E i \in Flushers : x \in ToCopy(Flusher(i)) \union LockedBy(Flusher(i))) <=> InThread(x)
  BY <1>2, <1>3 DEF InThread, Has
<1> QED
  BY <1>1, <1>4 DEF InHand, InUnits, InBatch

\* The same in the next state.
LEMMA HandIsNext ==
    ASSUME IInv', solo' = NoThread, NEW x,
           InUnits(x)' \/ InBatch(x)' \/ InThread(x)'
    PROVE  InHand(x)'
<1>1. /\ running' \in Seq(FlushThread)
      /\ DOMAIN running' = 1 .. Len(running')
      /\ DOMAIN batch' = 1 .. Len(batch')
  BY DEF IInv, TypeOK, FlushTypeOK, PoolTypeOK
<1>2. CASE InThread(x)'
  <2>1. PICK i \in 1 .. Len(running') : x \in Has(running'[i])
    BY <1>2 DEF InThread, Has, ToCopy, LockedBy
  <2>2. i \in Flushers' /\ Flusher(i)' = running'[i]
    BY <1>1, <2>1 DEF Flushers, Flusher
  <2> QED
    BY <2>1, <2>2 DEF InHand, Has, ToCopy, LockedBy
<1> QED
  BY <1>1, <1>2 DEF InHand, InUnits, InBatch

\* Where an evicting call comes to wait for the pool.
LEMMA ToWaitClean ==
    ASSUME IInv, AppCall \/ AppStep
    PROVE  /\ main'.pc = "waitclean" => Requeue
           /\ main'.pc = "requeue" => Inspect /\ EvictionType = "pool"
<1>1. \A pc : AppGoto(pc) => main'.pc = pc
  BY DEF AppGoto, IInv, TypeOK, AppTypeOK
<1>2. CASE AppCall
  <2>1. CASE Close
    BY <1>1, <2>1 DEF Close
  <2>2. ASSUME NEW op, NEW b, NEW d, Begin(op, b, d)
        PROVE  main'.pc \in {"copy", "wlock", "victim", "put"}
    BY <2>2 DEF Begin
  <2> QED
    BY <1>2, <2>1, <2>2 DEF AppCall, OsRead, OsWrite
<1>3. CASE ReadHit \/ WriteLock \/ WriteUnlock \/ Put \/ Push
  BY <1>1, <1>3 DEF ReadHit, WriteLock, WriteUnlock, Put, Push
<1>4. CASE FindVictim
  <2>1. main'.pc \in {"put", "waitbusy"}
    BY <1>1, <1>4 DEF FindVictim, IInv, TypeOK, AppTypeOK
  <2> QED
    BY <2>1
<1>5. CASE WaitNoRequests
  <2>1. main'.pc \in {"inspect", "waitbusy"}
    BY <1>1, <1>5 DEF WaitNoRequests
  <2> QED
    BY <2>1
<1>6. CASE WaitNotBusy \/ Join \/ WaitClean \/ Free
  BY <1>1, <1>6 DEF WaitNotBusy, Join, WaitClean, Free
<1>7. CASE Inspect
  BY <1>1, <1>7 DEF Inspect
<1>8. CASE Requeue
  BY <1>1, <1>8 DEF Requeue
<1>9. CASE Destroy
  <2>1. main'.pc = "put"
    BY <1>9 DEF Destroy, IInv, TypeOK, AppTypeOK
  <2> QED
    BY <2>1
<1>10. CASE JoinPool \/ JoinAll
  BY <1>1, <1>10 DEF JoinPool, JoinAll, At
<1> QED
  BY <1>2, <1>3, <1>4, <1>5, <1>6, <1>7, <1>8, <1>9, <1>10 DEF AppStep

\* What the pool drops of a buffer an evicting call waits for is in its batch
\* or a thread, or goes for the freed buffer at the end of the batch.
LEMMA DroppedIsHeld ==
    ASSUME IInv, LockInv, CopiesAgree, ServeInv, NEW x \in Buffer, Awaiting(x), Dropped(x)
    PROVE  InBatch(x) \/ InThread(x) \/ EndsFreed(x)
<1>1. main.pc = "waitclean" /\ main.victim = x /\ buf[x].dirty
  BY DEF Awaiting
<1>2. x \in 1 .. nbuf /\ map[buf[x].block] = x /\ buf[x].block \in Block
  BY <1>1, VictimCached, Basics DEF IInv, References, AppReferences, Deleting, Evicting
<1>3. Live(x) /\ buf[x].valid
  <2>1. buf[x].block \in Cached
    BY <1>2, Basics DEF Cached
  <2>2. Live(x)
    BY <1>1, <1>2, <2>1 DEF IInv, References, AppReferences
  <2> QED
    BY <1>2, <2>2 DEF LockInv
<1>4. CASE buf[x].busy
  BY <1>1, <1>4 DEF ServeInv, BusyIsBegun, Begun
<1>5. CASE buf[x].block \in LastBlocks
  BY <1>2, <1>3, <1>5, EndsBatch
<1> QED
  BY <1>1, <1>3, <1>4, <1>5 DEF Dropped, Live

\* No step of the others takes such a buffer out of everybody's hands.
LEMMA StaysServed ==
    ASSUME EvictionType = "pool", IInv, LockInv, CopiesAgree, ServeInv, Next,
           NEW x \in Buffer, Awaiting(x)'
    PROVE  \/ InHand(x)'
           \/ /\ Awaiting(x)
              /\ ~InHand(x) \/ WriteFailed(x) \/ UnitLost(x) \/ EndsFreed(x)
<1>1. CASE AppCall \/ AppStep
  <2>1. main'.pc = "waitclean" /\ main'.victim = x
    BY DEF Awaiting
  <2>2. Requeue
    BY <1>1, <2>1, ToWaitClean
  <2>3. main.victim = x
    BY <2>1, <2>2 DEF Requeue, AppGoto, IInv, TypeOK, AppTypeOK
  <2>4. [id |-> nunit + 1, buf |-> x, priority |-> 1] \in queue'
    BY <2>2, <2>3 DEF Requeue, AddQueue
  <2> QED
    BY <2>4 DEF InHand
<1>2. CASE ThePool
  <2>1. IInv' /\ ServeInv'
    BY <1>2, PoolStepInv, PoolServes
  <2>2. /\ UNCHANGED main
        /\ PassesOn /\ QueueLoses
    BY <1>2, PoolHands DEF ServeInv, ThePool, appVars
  <2>3. Awaiting(x)
    BY <2>2 DEF Awaiting, PassesOn
  <2>4. InHand(x) => InUnits(x) \/ InBatch(x) \/ InThread(x)
    BY HandIs DEF ServeInv
  <2>5. InUnits(x)' \/ InBatch(x)' \/ InThread(x)' => InHand(x)'
    BY <2>1, HandIsNext DEF ServeInv
  <2>6. (\E u \in queue \intersect lost' : u.buf = x) => UnitLost(x)
    BY DEF UnitLost, ServeInv, LostIsGone
  <2> QED
    BY <2>2, <2>3, <2>4, <2>5, <2>6, DroppedIsHeld DEF PassesOn
<1>3. ASSUME NEW i \in Flushers, TheFlusher(i)
      PROVE  InHand(x)' \/ (Awaiting(x) /\ (~InHand(x) \/ WriteFailed(x)))
  <2>1. IInv' /\ ServeInv'
    BY <1>3, FlushStepInv, FlushersServe
  <2>2. /\ UNCHANGED <<main, queue, pool, batch>>
        /\ buf'[x].dirty => buf[x].dirty
        /\ InThread(x) /\ buf[x].valid /\ buf'[x].dirty => InThread(x)' \/ WriteFailed(x)
    BY <1>3, FlushKeepsThreads, FlushersPass DEF ServeInv, poolVars, appVars
  <2>3. Awaiting(x) /\ buf'[x].dirty
    BY <2>2 DEF Awaiting
  <2>4. buf[x].valid
    <3>1. x \in 1 .. nbuf /\ map[buf[x].block] = x /\ buf[x].block \in Block
      BY <2>3, VictimCached, Basics
         DEF Awaiting, IInv, References, AppReferences, Deleting, Evicting
    <3>2. Live(x)
      BY <2>3, <3>1, Basics DEF Awaiting, Cached, IInv, References, AppReferences
    <3> QED
      BY <3>1, <3>2 DEF LockInv
  <2>5. InHand(x) => InUnits(x) \/ InBatch(x) \/ InThread(x)
    BY HandIs DEF ServeInv
  <2>6. InUnits(x)' \/ InBatch(x)' \/ InThread(x)' => InHand(x)'
    BY <2>1, HandIsNext DEF ServeInv
  <2>7. (InUnits(x) => InUnits(x)') /\ (InBatch(x) => InBatch(x)')
    BY <2>2 DEF InUnits, InBatch
  <2> QED
    BY <2>2, <2>3, <2>4, <2>5, <2>6, <2>7
<1>4. CASE UNCHANGED vars
  <2>1. Awaiting(x) /\ (InHand(x) => InHand(x)')
    BY <1>4 DEF vars, memVars, poolVars, appVars, Awaiting, InHand, Flushers, Flusher
  <2> QED
    BY <2>1
<1> QED
  BY <1>1, <1>2, <1>3, <1>4 DEF Next, Stopped

LEMMA ServedByPool == ASSUME EvictionType = "pool" PROVE Spec => EvictorIsServed
<1>1. IInv /\ ServeInv /\ [Next]_vars => ServeInv'
  <2> SUFFICES ASSUME IInv, ServeInv, [Next]_vars PROVE ServeInv'
    OBVIOUS
  <2>1. CASE UNCHANGED vars
    BY <2>1 DEF vars, memVars, poolVars, appVars, ServeInv, IdleHasNoUnit, WritesAll,
       SwitchedBatch, BusyIsBegun, LostIsGone, Begun, InBatch, InThread
  <2>2. CASE AppCall \/ AppStep
    BY <2>2, AppServes
  <2>3. CASE ThePool \/ \E i \in Flushers : TheFlusher(i)
    BY <2>3, PoolServes, FlushersServe
  <2> QED
    BY <2>1, <2>2, <2>3 DEF Next, Stopped
<1>2. IInv /\ LockInv /\ CopiesAgree /\ ServeInv /\ [Next]_vars =>
         [\A x \in Buffer :
             Awaiting(x)' =>
                 \/ InHand(x)'
                 \/ /\ Awaiting(x)
                    /\ ~InHand(x) \/ WriteFailed(x) \/ UnitLost(x) \/ EndsFreed(x)]_vars
  BY StaysServed
<1>3. Spec => []CopiesAgree
  BY CopiesHold DEF SafeBuild
<1> QED
  BY InitServes, IInvAlways, LockInvAlways, <1>1, <1>2, <1>3, PTL DEF Spec, EvictorIsServed

\* With evictions in threads of their own nobody waits for the pool.
Requeues == main.pc \in {"requeue", "waitclean"}
LEMMA NobodyAwaits == ASSUME EvictionType # "pool" PROVE Spec => EvictorIsServed
<1>1. Init => ~Requeues
  BY DEF Init, Requeues
<1>2. IInv /\ ~Requeues /\ [Next]_vars => ~Requeues'
  <2> SUFFICES ASSUME IInv, ~Requeues, [Next]_vars PROVE ~Requeues'
    OBVIOUS
  <2>1. CASE UNCHANGED main
    BY <2>1 DEF Requeues
  <2>2. CASE AppCall \/ AppStep
    BY <2>2, ToWaitClean DEF Requeues, Requeue, At
  <2> QED
    BY <2>1, <2>2 DEF Next, Stopped, ThePool, TheFlusher, vars, appVars
<1>3. ~Requeues' =>
         [\A x \in Buffer :
             Awaiting(x)' =>
                 \/ InHand(x)'
                 \/ /\ Awaiting(x)
                    /\ ~InHand(x) \/ WriteFailed(x) \/ UnitLost(x) \/ EndsFreed(x)]_vars
  BY DEF Requeues, Awaiting
<1> QED
  BY IInvAlways, <1>1, <1>2, <1>3, PTL DEF Spec, EvictorIsServed

\* In every build, an evicting call that waits for the pool to clean its victim
\* has it in somebody's hands until it is clean, unless a pwrite of it fails,
\* its unit is lost or the batch ends with a freed buffer of its block
\* (deleteMemoryBuffer, ThreadPoolMainPooling1, disk_write.c).
THEOREM EvictorServed == Spec => EvictorIsServed
BY ServedByPool, NobodyAwaits
-----------------------------------------------------------------------------
(***************************************************************************)
(* request_write_count counts the writes the pool has asked for and no     *)
(* thread has begun, for every value of the constants of the builds in     *)
(* which nobody else asks: evictions go through the pool, and a thread     *)
(* that finds nothing to write takes its request back (write2Disk does,    *)
(* write2Disk2 does not, and only PacketSize = 0 starts it from the pool). *)
(***************************************************************************)
\* Only the pool asks for writes, and every thread takes its requests back.
CountedBuild == EvictionType = "pool" /\ (PacketSize > 0 \/ ~MmapRW)

\* Thread t has still to lock x, its j-th buffer.
Waits(t, j, x) ==
    /\ t.pc \in {"check", "sync", "lock"}
    /\ j \in t.k + 1 .. Len(t.bufs)
    /\ t.bufs[j] = x

\* The places of x in the batch xs, and those where a thread of r waits for it.
Places(xs, x) == {j \in DOMAIN xs : xs[j] = x}
Waiting(r, x) == {p \in (1 .. Len(r)) \X (1 .. TotalN) : Waits(r[p[1]], p[2], x)}

LEMMA RequestsCount ==
    ASSUME NEW x
    PROVE  Requests(x) = Cardinality(Places(batch, x)) + Cardinality(Waiting(running, x))
BY DEF Requests, Places, Waiting, Waits
-----------------------------------------------------------------------------
(* Counting *)

LEMMA WaitingFinite ==
    ASSUME NEW r, Len(r) \in Nat, NEW x
    PROVE  IsFiniteSet(Waiting(r, x)) /\ Cardinality(Waiting(r, x)) \in Nat
<1>1. IsFiniteSet(1 .. Len(r)) /\ IsFiniteSet(1 .. TotalN)
  <2>1. TotalN \in Nat
    BY MemoryBufferAssumption
  <2>2. \A n \in Nat : IsFiniteSet(1 .. n)
    BY FS_Interval
  <2> QED
    BY <2>1, <2>2
<1>2. IsFiniteSet((1 .. Len(r)) \X (1 .. TotalN))
  BY <1>1, FS_Product
<1>3. Waiting(r, x) \in SUBSET ((1 .. Len(r)) \X (1 .. TotalN))
  BY DEF Waiting
<1> QED
  BY <1>2, <1>3, FS_Subset, FS_CardinalityType

LEMMA PlacesFinite ==
    ASSUME NEW S, NEW xs \in Seq(S), NEW x
    PROVE  IsFiniteSet(Places(xs, x)) /\ Cardinality(Places(xs, x)) \in Nat
<1>1. IsFiniteSet(1 .. Len(xs))
  BY FS_Interval
<1>2. Places(xs, x) \in SUBSET (1 .. Len(xs))
  BY DEF Places
<1> QED
  BY <1>1, <1>2, FS_Subset, FS_CardinalityType

\* A batch of none, of one, and one with another buffer.
LEMMA PlacesEmpty ==
    ASSUME NEW x
    PROVE  Cardinality(Places(<<>>, x)) = 0
<1>1. Places(<<>>, x) = {}
  BY DEF Places
<1> QED
  BY <1>1, FS_EmptySet

LEMMA PlacesAppend ==
    ASSUME NEW S, NEW xs \in Seq(S), NEW y \in S, NEW x
    PROVE  Cardinality(Places(Append(xs, y), x))
             = Cardinality(Places(xs, x)) + (IF y = x THEN 1 ELSE 0)
<1> DEFINE n == Len(xs) + 1
           ys == Append(xs, y)
<1>1. /\ DOMAIN ys = 1 .. n /\ DOMAIN xs = 1 .. Len(xs) /\ Len(xs) \in Nat
      /\ \A j \in 1 .. Len(xs) : ys[j] = xs[j]
      /\ ys[n] = y
  OBVIOUS
<1>2. n \notin Places(xs, x)
  BY <1>1 DEF Places
<1>3. CASE y = x
  <2>1. Places(ys, x) = Places(xs, x) \union {n}
    <3> HIDE DEF ys
    <3> QED
      BY <1>1, <1>3 DEF Places
  <2> QED
    BY <1>2, <1>3, <2>1, PlacesFinite, FS_AddElement
<1>4. CASE y # x
  <2>1. Places(ys, x) = Places(xs, x)
    <3> HIDE DEF ys
    <3> QED
      BY <1>1, <1>4 DEF Places
  <2> QED
    BY <1>4, <2>1, PlacesFinite
<1> QED
  BY <1>3, <1>4

LEMMA PlacesOne ==
    ASSUME NEW y, NEW x
    PROVE  Cardinality(Places(<<y>>, x)) = IF y = x THEN 1 ELSE 0
<1>1. Places(<<y>>, x) = IF y = x THEN {1} ELSE {}
  BY DEF Places
<1> QED
  BY <1>1, FS_EmptySet, FS_Singleton

\* A thread that starts waits for every buffer of its batch.
LEMMA WaitingAppend ==
    ASSUME NEW r \in Seq(FlushThread), NEW t \in FlushThread,
           t.pc \in {"check", "lock"}, t.k = 0, Len(t.bufs) <= TotalN, NEW x
    PROVE  Cardinality(Waiting(Append(r, t), x))
             = Cardinality(Waiting(r, x)) + Cardinality(Places(t.bufs, x))
<1> DEFINE n == Len(r) + 1
           s == Append(r, t)
           new == {n} \X Places(t.bufs, x)
           f == [j \in Places(t.bufs, x) |-> <<n, j>>]
<1>1. /\ Len(s) = n /\ Len(r) \in Nat
      /\ \A i \in 1 .. Len(r) : s[i] = r[i]
      /\ s[n] = t
  OBVIOUS
<1>2. t.bufs \in Seq(Buffer) /\ TotalN \in Nat
  BY MemoryBufferAssumption DEF FlushThread
<1>3. Len(t.bufs) \in Nat /\ DOMAIN t.bufs = 1 .. Len(t.bufs)
  BY <1>2
<1>4. \A j \in 1 .. TotalN : Waits(t, j, x) <=> j \in Places(t.bufs, x)
  BY <1>3 DEF Waits, Places
<1>5. Places(t.bufs, x) \subseteq 1 .. TotalN
  BY <1>2, <1>3 DEF Places
<1>6. Waiting(s, x) = Waiting(r, x) \union new
  <2> HIDE DEF s
  <2>1. ASSUME NEW i \in 1 .. n, NEW j \in 1 .. TotalN
        PROVE  <<i, j>> \in Waiting(s, x) <=> <<i, j>> \in Waiting(r, x) \union new
    <3>1. CASE i = n
      BY <1>1, <1>4, <2>1, <3>1 DEF Waiting
    <3>2. CASE i # n
      BY <1>1, <2>1, <3>2 DEF Waiting
    <3> QED
      BY <3>1, <3>2
  <2>2. Waiting(s, x) \subseteq (1 .. n) \X (1 .. TotalN)
    BY <1>1 DEF Waiting
  <2>3. Waiting(r, x) \subseteq (1 .. n) \X (1 .. TotalN)
    BY <1>1 DEF Waiting
  <2>4. new \subseteq (1 .. n) \X (1 .. TotalN)
    BY <1>1, <1>5
  <2> HIDE DEF n, new
  <2> QED
    BY <2>1, <2>2, <2>3, <2>4
<1>7. Waiting(r, x) \intersect new = {}
  BY <1>1 DEF Waiting
<1>8. IsFiniteSet(new) /\ Cardinality(new) = Cardinality(Places(t.bufs, x))
  <2>1. f \in Bijection(Places(t.bufs, x), new)
    <3>1. f \in [Places(t.bufs, x) -> new]
      OBVIOUS
    <3>2. \A j, k \in Places(t.bufs, x) : f[j] = f[k] => j = k
      OBVIOUS
    <3>3. \A p \in new : \E j \in Places(t.bufs, x) : f[j] = p
      OBVIOUS
    <3> HIDE DEF f, new
    <3> QED
      BY <3>1, <3>2, <3>3 DEF Bijection, Injection, Surjection, IsInjective
  <2>2. ExistsBijection(Places(t.bufs, x), new)
    BY <2>1 DEF ExistsBijection
  <2> QED
    BY <1>2, <2>2, PlacesFinite, FS_Bijection
<1>9. Cardinality(Waiting(r, x)) \in Nat /\ IsFiniteSet(Waiting(r, x))
  BY <1>1, WaitingFinite
<1>10. Cardinality(Places(t.bufs, x)) \in Nat
  BY <1>2, PlacesFinite
<1> HIDE DEF new, s
<1>11. Cardinality(Waiting(s, x))
         = Cardinality(Waiting(r, x)) + Cardinality(new) - Cardinality({})
  BY <1>6, <1>7, <1>8, <1>9, FS_Union
<1> QED
  BY <1>8, <1>9, <1>10, <1>11, FS_EmptySet DEF s

\* A thread that is joined waits for nothing.
LEMMA WaitingTail ==
    ASSUME NEW r \in Seq(FlushThread), r # <<>>, Head(r).pc = "done", NEW x
    PROVE  Cardinality(Waiting(Tail(r), x)) = Cardinality(Waiting(r, x))
<1> DEFINE s == Tail(r)
           f == [p \in Waiting(s, x) |-> <<p[1] + 1, p[2]>>]
<1>1. /\ Len(r) \in Nat /\ Len(s) = Len(r) - 1 /\ Len(s) \in Nat
      /\ \A i \in 1 .. Len(s) : s[i] = r[i + 1]
      /\ r[1].pc = "done"
  BY HeadTailProperties
<1> HIDE DEF s
<1>2. ASSUME NEW i \in Nat, NEW j \in 1 .. TotalN
      PROVE  <<i, j>> \in Waiting(s, x) <=> <<i + 1, j>> \in Waiting(r, x)
  <2>1. CASE i \in 1 .. Len(s)
    <3>1. i + 1 \in 1 .. Len(r) /\ s[i] = r[i + 1]
      BY <1>1, <2>1
    <3> QED
      BY <2>1, <3>1 DEF Waiting
  <2>2. CASE i \notin 1 .. Len(s)
    <3>1. i = 0 \/ i + 1 \notin 1 .. Len(r)
      BY <1>1, <2>2
    <3>2. ~Waits(r[1], j, x)
      BY <1>1 DEF Waits
    <3> QED
      BY <2>2, <3>1, <3>2 DEF Waiting
  <2> QED
    BY <2>1, <2>2
<1>3. f \in [Waiting(s, x) -> Waiting(r, x)]
  <2>1. ASSUME NEW p \in Waiting(s, x)
        PROVE  <<p[1] + 1, p[2]>> \in Waiting(r, x)
    <3>1. p = <<p[1], p[2]>> /\ p[1] \in Nat /\ p[2] \in 1 .. TotalN
      BY <1>1 DEF Waiting
    <3> QED
      BY <1>2, <3>1
  <2> QED
    BY <2>1
<1>4. \A p, q \in Waiting(s, x) : f[p] = f[q] => p = q
  <2> SUFFICES ASSUME NEW p \in Waiting(s, x), NEW q \in Waiting(s, x), f[p] = f[q]
               PROVE  p = q
    OBVIOUS
  <2>1. /\ p = <<p[1], p[2]>> /\ p[1] \in Nat
        /\ q = <<q[1], q[2]>> /\ q[1] \in Nat
    BY <1>1 DEF Waiting
  <2>2. p[1] + 1 = q[1] + 1 /\ p[2] = q[2]
    OBVIOUS
  <2> QED
    BY <2>1, <2>2
<1>5. \A q \in Waiting(r, x) : \E p \in Waiting(s, x) : f[p] = q
  <2> SUFFICES ASSUME NEW q \in Waiting(r, x)
               PROVE  \E p \in Waiting(s, x) : f[p] = q
    OBVIOUS
  <2>1. /\ q = <<q[1], q[2]>> /\ q[1] \in 1 .. Len(r) /\ q[2] \in 1 .. TotalN
        /\ Waits(r[q[1]], q[2], x)
    BY DEF Waiting
  <2>2. q[1] - 1 \in Nat /\ (q[1] - 1) + 1 = q[1]
    BY <1>1, <2>1
  <2>3. <<q[1] - 1, q[2]>> \in Waiting(s, x)
    BY <1>2, <2>1, <2>2
  <2>4. f[<<q[1] - 1, q[2]>>] = <<(q[1] - 1) + 1, q[2]>>
    BY <2>3
  <2> QED
    BY <2>1, <2>2, <2>3, <2>4
<1> HIDE DEF f
<1>6. f \in Bijection(Waiting(s, x), Waiting(r, x))
  BY <1>3, <1>4, <1>5 DEF Bijection, Injection, Surjection, IsInjective
<1>7. ExistsBijection(Waiting(s, x), Waiting(r, x))
  BY <1>6 DEF ExistsBijection
<1>8. IsFiniteSet(Waiting(s, x))
  BY <1>1, WaitingFinite
<1>9. Cardinality(Waiting(r, x)) = Cardinality(Waiting(s, x))
  BY <1>7, <1>8, FS_Bijection
<1> QED
  BY <1>9 DEF s

\* A thread that no longer waits for its m-th buffer.
LEMMA WaitingLess ==
    ASSUME NEW r, NEW s, Len(r) \in Nat, Len(s) = Len(r), NEW i \in 1 .. Len(r),
           \A h \in 1 .. Len(r) : h # i => s[h] = r[h],
           NEW m \in 1 .. TotalN, NEW x,
           \A j \in 1 .. TotalN : Waits(s[i], j, x) <=> Waits(r[i], j, x) /\ j # m
    PROVE  /\ Cardinality(Waiting(s, x))
                = Cardinality(Waiting(r, x)) - (IF Waits(r[i], m, x) THEN 1 ELSE 0)
           /\ Waits(r[i], m, x) => Cardinality(Waiting(r, x)) > 0
<1>1. Waiting(s, x) = Waiting(r, x) \ {<<i, m>>}
  <2>1. ASSUME NEW h \in 1 .. Len(r), NEW j \in 1 .. TotalN
        PROVE  <<h, j>> \in Waiting(s, x)
                 <=> <<h, j>> \in Waiting(r, x) /\ <<h, j>> # <<i, m>>
    <3>1. CASE h = i
      BY <2>1, <3>1 DEF Waiting
    <3>2. CASE h # i
      BY <2>1, <3>2 DEF Waiting
    <3> QED
      BY <3>1, <3>2
  <2>2. Waiting(s, x) \subseteq (1 .. Len(r)) \X (1 .. TotalN)
    BY DEF Waiting
  <2>3. Waiting(r, x) \subseteq (1 .. Len(r)) \X (1 .. TotalN)
    BY DEF Waiting
  <2> QED
    BY <2>1, <2>2, <2>3
<1>2. <<i, m>> \in Waiting(r, x) <=> Waits(r[i], m, x)
  BY DEF Waiting
<1>3. IsFiniteSet(Waiting(r, x)) /\ Cardinality(Waiting(r, x)) \in Nat
  BY WaitingFinite
<1>4. Waits(r[i], m, x) => Cardinality(Waiting(r, x)) # 0
  BY <1>2, <1>3, FS_EmptySet
<1>5. Cardinality(Waiting(s, x)) = IF <<i, m>> \in Waiting(r, x)
                                   THEN Cardinality(Waiting(r, x)) - 1
                                   ELSE Cardinality(Waiting(r, x))
  BY <1>1, <1>3, FS_RemoveElement
<1> QED
  BY <1>2, <1>3, <1>4, <1>5

\* A batch of consecutive blocks is no longer than the disk.
LEMMA BatchLength ==
    ASSUME NEW h \in [Buffer -> MemoryBuffer], NEW xs \in Seq(Buffer),
           \A j \in 1 .. Len(xs) : h[xs[j]].block = h[xs[1]].block + j - 1
    PROVE  Len(xs) <= TotalN
<1>1. Len(xs) \in Nat /\ TotalN \in Nat
  BY MemoryBufferAssumption
<1>2. CASE Len(xs) = 0
  BY <1>1, <1>2
<1>3. CASE Len(xs) # 0
  <2>1. xs[1] \in Buffer /\ xs[Len(xs)] \in Buffer /\ Len(xs) \in 1 .. Len(xs)
    BY <1>1, <1>3, ElementOfSeq
  <2>2. h[xs[1]] \in MemoryBuffer /\ h[xs[Len(xs)]] \in MemoryBuffer
    BY <2>1
  <2>3. h[xs[1]].block \in Block /\ h[xs[Len(xs)]].block \in Block
    BY <2>2 DEF MemoryBuffer
  <2>4. h[xs[Len(xs)]].block = h[xs[1]].block + Len(xs) - 1
    BY <2>1
  <2> QED
    BY <1>1, <2>3, <2>4 DEF Block
<1> QED
  BY <1>2, <1>3

\* The writes asked for when q is gathered and r are the threads.
Count(q, r, x) == Cardinality(Places(q, x)) + Cardinality(Waiting(r, x))

LEMMA CountType ==
    ASSUME NEW q \in Seq(Buffer), NEW r \in Seq(FlushThread), NEW x
    PROVE  /\ Count(q, r, x) \in Nat
           /\ Cardinality(Places(q, x)) \in Nat /\ Cardinality(Waiting(r, x)) \in Nat
<1>1. Len(r) \in Nat
  OBVIOUS
<1> QED
  BY <1>1, PlacesFinite, WaitingFinite DEF Count

\* A batch handed to a thread, a buffer that joins the batch, starts one or gets
\* a thread of its own, and a thread that is joined.
LEMMA HandedOver ==
    ASSUME NEW q \in Seq(Buffer), Len(q) <= TotalN, NEW r \in Seq(FlushThread), NEW x
    PROVE  Count(<<>>, Append(r, FlushBuffersWithThread(q)), x) = Count(q, r, x)
<1> DEFINE t == FlushBuffersWithThread(q)
<1>1. t \in FlushThread /\ t.pc = "lock" /\ t.k = 0 /\ t.bufs = q
  BY DEF FlushBuffersWithThread, FlushThread
<1> HIDE DEF t
<1>2. Cardinality(Waiting(Append(r, t), x))
        = Cardinality(Waiting(r, x)) + Cardinality(Places(q, x))
  BY <1>1, WaitingAppend
<1> QED
  BY <1>2, CountType, PlacesEmpty DEF Count, t

LEMMA Joined ==
    ASSUME NEW q \in Seq(Buffer), NEW y \in Buffer, NEW r \in Seq(FlushThread), NEW x
    PROVE  /\ Append(q, y) \in Seq(Buffer)
           /\ Count(Append(q, y), r, x) = Count(q, r, x) + (IF y = x THEN 1 ELSE 0)
<1>1. Cardinality(Places(Append(q, y), x))
        = Cardinality(Places(q, x)) + (IF y = x THEN 1 ELSE 0)
  BY PlacesAppend
<1> QED
  BY <1>1, CountType DEF Count

LEMMA Began ==
    ASSUME NEW y \in Buffer, NEW r \in Seq(FlushThread), NEW x
    PROVE  Count(<<y>>, r, x) = Count(<<>>, r, x) + (IF y = x THEN 1 ELSE 0)
<1>1. Len(r) \in Nat
  OBVIOUS
<1>2. Cardinality(Waiting(r, x)) \in Nat
  BY <1>1, WaitingFinite
<1>3. /\ Cardinality(Places(<<y>>, x)) = IF y = x THEN 1 ELSE 0
      /\ Cardinality(Places(<<>>, x)) = 0
  BY PlacesOne, PlacesEmpty
<1> QED
  BY <1>2, <1>3 DEF Count

LEMMA StartedAlone ==
    ASSUME NEW q \in Seq(Buffer), NEW y \in Buffer, NEW r \in Seq(FlushThread), NEW x
    PROVE  Count(q, Append(r, FlushBufferWithThread(y)), x)
             = Count(q, r, x) + (IF y = x THEN 1 ELSE 0)
<1> DEFINE t == FlushBufferWithThread(y)
<1>1. t \in FlushThread /\ t.pc = "check" /\ t.k = 0 /\ t.bufs = <<y>>
  BY DEF FlushBufferWithThread, FlushThread
<1>2. Len(t.bufs) <= TotalN
  BY <1>1, MemoryBufferAssumption
<1> HIDE DEF t
<1>3. Cardinality(Waiting(Append(r, t), x))
        = Cardinality(Waiting(r, x)) + Cardinality(Places(<<y>>, x))
  BY <1>1, <1>2, WaitingAppend
<1> QED
  BY <1>3, CountType, PlacesOne DEF Count, t

LEMMA ThreadJoined ==
    ASSUME NEW q, NEW r \in Seq(FlushThread), r # <<>>, Head(r).pc = "done", NEW x
    PROVE  Count(q, Tail(r), x) = Count(q, r, x)
BY WaitingTail DEF Count
-----------------------------------------------------------------------------
(* The invariant *)

\* Threads of the pool that write a single buffer.
SinglesFail ==
    \A i \in 1 .. Len(running) :
        running[i].pc \in {"check", "sync"} => ~MmapRW /\ running[i].k = 0

CountInv ==
    /\ RequestsBalanced
    /\ SinglesFail
    /\ solo = NoThread
    /\ pool.pc = "begin" => batch = <<>>

LEMMA BalanceCounts ==
    /\ RequestsBalanced <=> \A x \in Buffer : buf[x].requests = Count(batch, running, x)
    /\ RequestsBalanced' <=> \A x \in Buffer : buf'[x].requests = Count(batch', running', x)
BY DEF RequestsBalanced, Requests, Count, Places, Waiting, Waits

\* What the proofs use of the types.
LEMMA CountTypes ==
    ASSUME IInv
    PROVE  /\ buf \in [Buffer -> MemoryBuffer] /\ \A x \in Buffer : buf[x].requests \in Int
           /\ running \in Seq(FlushThread) /\ batch \in Seq(Buffer)
           /\ Len(running) \in Nat
           /\ \A i \in 1 .. Len(running) : running[i] \in FlushThread /\ ThreadInside(running[i])
<1>1. /\ buf \in [Buffer -> MemoryBuffer]
      /\ running \in Seq(FlushThread) /\ batch \in Seq(Buffer)
      /\ \A i \in 1 .. Len(running) : ThreadInside(running[i])
  BY DEF IInv, TypeOK, MemTypeOK, FlushTypeOK, PoolTypeOK, References, FlushReferences
<1>2. \A x \in Buffer : buf[x].requests \in Int
  BY <1>1 DEF MemoryBuffer
<1> QED
  BY <1>1, <1>2, ElementOfSeq

\* isBufferBeingWrittenNow and request_write_count of a buffer go up.
LEMMA RequestCounts ==
    ASSUME IInv, NEW y \in Buffer, NEW l, Request(y, l), NEW x \in Buffer
    PROVE  buf'[x].requests = buf[x].requests + (IF y = x THEN 1 ELSE 0)
<1>1. buf \in [Buffer -> MemoryBuffer] /\ buf[x].requests \in Int
  BY CountTypes
<1>2. buf'[x] = IF y = x THEN [buf[y] EXCEPT !.busy = TRUE, !.requests = @ + 1, !.lock = l]
                         ELSE buf[x]
  BY <1>1 DEF Request, Assign
<1>3. [buf[y] EXCEPT !.busy = TRUE, !.requests = @ + 1, !.lock = l].requests
        = buf[y].requests + 1
  BY <1>1 DEF MemoryBuffer
<1> QED
  BY <1>1, <1>2, <1>3

\* The pooling thread keeps the invariant.
LEMMA PoolCounts ==
    ASSUME CountedBuild, IInv, BatchesConsecutive, CountInv, BatchesConsecutive', IInv',
           NEW pushing, PoolStep(pushing)
    PROVE  CountInv'
<1> DEFINE y == pool.unit.buf
<1>1. /\ running \in Seq(FlushThread) /\ batch \in Seq(Buffer)
      /\ buf \in [Buffer -> MemoryBuffer] /\ buf' \in [Buffer -> MemoryBuffer]
      /\ Len(running) \in Nat
  BY CountTypes DEF IInv, TypeOK, MemTypeOK
<1>2. \A x \in Buffer : buf[x].requests = Count(batch, running, x)
                        /\ buf[x].requests \in Int
  BY BalanceCounts, CountTypes DEF CountInv
<1>3. pool.pc \in {"lock", "begin"} => y \in Buffer
  BY DEF IInv, References, PoolReferences, Unit
<1>4. UNCHANGED solo
  BY PoolContents
<1>5. ASSUME \A x \in Buffer : buf'[x].requests = Count(batch', running', x),
             SinglesFail', pool'.pc # "begin" \/ batch' = <<>>
      PROVE  CountInv'
  BY <1>4, <1>5, BalanceCounts DEF CountInv
<1>6. ASSUME NEW t \in FlushThread, running' = Append(running, t),
             t.pc \in {"check", "sync"} => ~MmapRW /\ t.k = 0
      PROVE  SinglesFail'
  <2>1. /\ Len(running') = Len(running) + 1
        /\ \A i \in 1 .. Len(running) : running'[i] = running[i]
        /\ running'[Len(running')] = t
    BY <1>1, <1>6, RunningAppend
  <2>2. \A i \in 1 .. Len(running') : i \in 1 .. Len(running) \/ i = Len(running')
    BY <1>1, <2>1
  <2> QED
    BY <1>6, <2>1, <2>2 DEF SinglesFail, CountInv
<1>7. ASSUME NEW xs \in Seq(Buffer), StartFlush(xs)
      PROVE  SinglesFail' /\ Len(xs) <= TotalN
  <2> DEFINE t == FlushBuffersWithThread(xs)
  <2>1. t \in FlushThread /\ t.pc = "lock" /\ t.bufs = xs
    BY DEF FlushBuffersWithThread, FlushThread
  <2>2. running' = Append(running, t)
    BY <1>7 DEF StartFlush
  <2> HIDE DEF t
  <2>3. SinglesFail'
    BY <1>6, <2>1, <2>2
  <2>4. /\ Len(running') = Len(running) + 1
        /\ running'[Len(running')] = t
        /\ running' \in Seq(FlushThread)
    BY <1>1, <2>1, <2>2, RunningAppend
  <2>5. Len(running') \in DOMAIN running'
    BY <1>1, <2>4
  <2>6. \A j \in 1 .. Len(xs) : buf'[xs[j]].block = buf'[xs[1]].block + j - 1
    BY <2>1, <2>4, <2>5 DEF BatchesConsecutive, Consecutive
  <2>7. Len(xs) <= TotalN
    BY <1>1, <2>6, BatchLength
  <2> QED
    BY <2>3, <2>7
<1>8. CASE PoolFinish \/ PoolIdle
  <2>1. UNCHANGED buf /\ batch' = <<>>
        /\ ((batch = <<>> /\ UNCHANGED running) \/ StartFlush(batch))
    BY <1>8 DEF PoolFinish, PoolIdle, memVars
  <2>2. CASE batch = <<>> /\ UNCHANGED running
    BY <1>2, <1>5, <2>1, <2>2 DEF CountInv, SinglesFail
  <2>3. CASE StartFlush(batch)
    <3>1. \A x \in Buffer : Count(<<>>, running', x) = Count(batch, running, x)
      BY <1>1, <1>7, <2>3, HandedOver DEF StartFlush
    <3> QED
      BY <1>2, <1>5, <1>7, <1>1, <2>1, <2>3, <3>1
  <2> QED
    BY <2>1, <2>2, <2>3
<1>9. CASE PoolFront \/ PoolPop(pushing) \/ PoolCheck \/ PoolDrop \/ PoolWait
  <2>1. UNCHANGED <<buf, running, batch>> /\ pool'.pc # "begin"
    BY <1>9 DEF PoolFront, PoolPop, PoolCheck, PoolDrop, PoolWait, Goto, GoTop, memVars,
       IInv, TypeOK, PoolTypeOK
  <2> QED
    BY <1>2, <1>5, <2>1 DEF CountInv, SinglesFail
<1>10. CASE PoolJoin
  <2>1. /\ running # <<>> /\ Head(running).pc = "done" /\ running' = Tail(running)
        /\ UNCHANGED <<buf, batch>> /\ pool'.pc # "begin"
    BY <1>10 DEF PoolJoin, Goto, memVars, IInv, TypeOK, PoolTypeOK, References, PoolReferences
  <2>2. \A x \in Buffer : Count(batch, running', x) = Count(batch, running, x)
    BY <1>1, <2>1, ThreadJoined
  <2>3. SinglesFail'
    <3>1. /\ Len(running') = Len(running) - 1
          /\ \A i \in 1 .. Len(running') : running'[i] = running[i + 1]
      BY <1>1, <2>1, RunningTail
    <3>2. \A i \in 1 .. Len(running') : i + 1 \in 1 .. Len(running)
      BY <1>1, <3>1
    <3> QED
      BY <3>1, <3>2 DEF CountInv, SinglesFail
  <2> QED
    BY <1>2, <1>5, <2>1, <2>2, <2>3
<1>11. CASE PoolSingle
  <2>1. /\ y \in Buffer /\ Request(y, buf[y].lock) /\ PacketSize = 0
        /\ running' = Append(running, FlushBufferWithThread(y))
        /\ UNCHANGED batch /\ pool'.pc # "begin"
    BY <1>3, <1>11 DEF PoolSingle, GoTop
  <2>2. SinglesFail'
    <3>1. FlushBufferWithThread(y) \in FlushThread /\ FlushBufferWithThread(y).k = 0
      BY <2>1 DEF FlushBufferWithThread, FlushThread
    <3>2. ~MmapRW
      BY <2>1, FlushThreadAssumption DEF CountedBuild
    <3> QED
      BY <1>6, <2>1, <3>1, <3>2
  <2>3. ASSUME NEW x \in Buffer
        PROVE  buf'[x].requests = Count(batch', running', x)
    <3>1. buf'[x].requests = buf[x].requests + (IF y = x THEN 1 ELSE 0)
      BY <2>1, RequestCounts
    <3>2. Count(batch, running', x) = Count(batch, running, x) + (IF y = x THEN 1 ELSE 0)
      BY <1>1, <2>1, StartedAlone
    <3> QED
      BY <1>2, <2>1, <3>1, <3>2
  <2> QED
    BY <1>5, <2>1, <2>2, <2>3
<1>12. CASE PoolExtend
  <2> DEFINE longer == Append(batch, y)
  <2>1. /\ y \in Buffer /\ Request(y, buf[y].lock) /\ pool'.pc # "begin"
        /\ \/ StartFlush(longer) /\ batch' = <<>>
           \/ batch' = longer /\ UNCHANGED running
    BY <1>3, <1>12 DEF PoolExtend, GoTop
  <2>2. \A x \in Buffer : /\ Count(longer, running, x)
                                = Count(batch, running, x) + (IF y = x THEN 1 ELSE 0)
                          /\ buf'[x].requests = buf[x].requests + (IF y = x THEN 1 ELSE 0)
    BY <1>1, <2>1, RequestCounts, Joined
  <2>3. longer \in Seq(Buffer)
    BY <1>1, <2>1
  <2> HIDE DEF longer
  <2>4. CASE StartFlush(longer) /\ batch' = <<>>
    <3>1. \A x \in Buffer : Count(<<>>, running', x) = Count(longer, running, x)
      BY <1>1, <1>7, <2>3, <2>4, HandedOver DEF StartFlush
    <3> QED
      BY <1>2, <1>5, <1>7, <2>1, <2>2, <2>3, <2>4, <3>1
  <2>5. CASE batch' = longer /\ UNCHANGED running
    <3>1. SinglesFail'
      BY <2>5 DEF CountInv, SinglesFail
    <3> QED
      BY <1>2, <1>5, <2>1, <2>2, <2>5, <3>1
  <2> QED
    BY <2>1, <2>4, <2>5
<1>13. CASE PoolSwitch
  <2>1. /\ y \in Buffer /\ Assign(y, [buf[y] EXCEPT !.lock = @ - 1])
        /\ StartFlush(batch) /\ batch' = <<>>
    BY <1>3, <1>13 DEF PoolSwitch
  <2>2. \A x \in Buffer : buf'[x].requests = buf[x].requests
    <3>1. [buf[y] EXCEPT !.lock = @ - 1].requests = buf[y].requests
      BY <1>1, <2>1 DEF MemoryBuffer
    <3> QED
      BY <1>1, <2>1, <3>1 DEF Assign
  <2>3. \A x \in Buffer : Count(<<>>, running', x) = Count(batch, running, x)
    BY <1>1, <1>7, <2>1, HandedOver DEF StartFlush
  <2> QED
    BY <1>1, <1>2, <1>5, <1>7, <2>1, <2>2, <2>3
<1>14. CASE PoolBegin
  <2>1. /\ y \in Buffer /\ Request(y, buf[y].lock + 1) /\ batch = <<>> /\ batch' = <<y>>
        /\ UNCHANGED running /\ pool'.pc # "begin"
    BY <1>3, <1>14 DEF PoolBegin, GoTop, CountInv
  <2>2. SinglesFail'
    BY <2>1 DEF CountInv, SinglesFail
  <2>3. \A x \in Buffer : buf'[x].requests = Count(batch', running', x)
    BY <1>1, <1>2, <2>1, RequestCounts, Began
  <2> QED
    BY <1>5, <2>1, <2>2, <2>3
<1> QED
  BY <1>8, <1>9, <1>10, <1>11, <1>12, <1>13, <1>14 DEF PoolStep

-----------------------------------------------------------------------------
(* The flush threads *)

\* What the step of a flush thread of the pool leaves alone.
LEMMA FlusherFrame ==
    ASSUME IInv, CountInv, NEW i \in 1 .. Len(running), NEW u \in FlushThread,
           Advance(i, u), UNCHANGED <<batch, pool>>,
           u.pc \in {"check", "sync"} =>
              running[i].pc \in {"check", "sync"} /\ u.k = running[i].k,
           \A x \in Buffer : buf'[x].requests = Count(batch, running', x)
    PROVE  CountInv'
<1>1. i \in Flushers /\ i # 0
  BY CountTypes DEF Flushers
<1>2. /\ UNCHANGED solo /\ Len(running') = Len(running)
      /\ \A j \in 1 .. Len(running) : running'[j] = IF j = i THEN u ELSE running[j]
  BY <1>1, AdvanceType DEF IInv, TypeOK, Advance
<1>3. SinglesFail'
  BY <1>2 DEF CountInv, SinglesFail
<1>4. RequestsBalanced'
  BY BalanceCounts
<1> QED
  BY <1>2, <1>3, <1>4 DEF CountInv

LEMMA FlusherPlaces ==
    ASSUME IInv, NEW i \in 1 .. Len(running), NEW u \in FlushThread, Advance(i, u)
    PROVE  /\ Len(running') = Len(running)
           /\ running'[i] = u
           /\ \A h \in 1 .. Len(running) : h # i => running'[h] = running[h]
<1>1. i \in Flushers /\ i # 0
  BY CountTypes DEF Flushers
<1> QED
  BY <1>1, AdvanceType DEF IInv, TypeOK

\* Threads that wait in the same places wait as often.
LEMMA WaitingSame ==
    ASSUME NEW r, NEW s, Len(s) = Len(r), NEW x,
           \A h \in 1 .. Len(r) : \A j \in 1 .. TotalN : Waits(s[h], j, x) <=> Waits(r[h], j, x)
    PROVE  Waiting(s, x) = Waiting(r, x)
<1>1. \A p \in (1 .. Len(r)) \X (1 .. TotalN) :
        p[1] \in 1 .. Len(r) /\ p[2] \in 1 .. TotalN
  OBVIOUS
<1>2. \A p \in (1 .. Len(r)) \X (1 .. TotalN) :
        Waits(s[p[1]], p[2], x) <=> Waits(r[p[1]], p[2], x)
  BY <1>1
<1> QED
  BY <1>2, Zenon DEF Waiting

\* A step that begins no write.
LEMMA FlushKeeps ==
    ASSUME IInv, CountInv, NEW i \in 1 .. Len(running), NEW u \in FlushThread,
           Advance(i, u), UNCHANGED <<batch, pool>>,
           u.pc \in {"check", "sync"} =>
              running[i].pc \in {"check", "sync"} /\ u.k = running[i].k,
           \A x : \A j \in 1 .. TotalN : Waits(u, j, x) <=> Waits(running[i], j, x),
           \A x \in Buffer : buf'[x].requests = buf[x].requests
    PROVE  CountInv'
<1>1. \A x \in Buffer : buf[x].requests = Count(batch, running, x)
  BY BalanceCounts DEF CountInv
<1>2. PICK r : r = running'
  OBVIOUS
<1>3. /\ Len(r) = Len(running) /\ r[i] = u
      /\ \A h \in 1 .. Len(running) : h # i => r[h] = running[h]
  BY <1>2, FlusherPlaces
<1>4. ASSUME NEW x \in Buffer
      PROVE  buf'[x].requests = Count(batch, r, x)
  <2>1. \A h \in 1 .. Len(running) : \A j \in 1 .. TotalN :
           Waits(r[h], j, x) <=> Waits(running[h], j, x)
    BY <1>3
  <2>2. Waiting(r, x) = Waiting(running, x)
    BY <1>3, <2>1, WaitingSame
  <2> QED
    BY <1>1, <2>2 DEF Count
<1> QED
  BY <1>2, <1>4, FlusherFrame

\* A step that begins the write of y, the m-th buffer of the thread's batch.
LEMMA FlushBegins ==
    ASSUME IInv, CountInv, NEW i \in 1 .. Len(running), NEW u \in FlushThread,
           Advance(i, u), UNCHANGED <<batch, pool>>,
           u.pc \in {"check", "sync"} =>
              running[i].pc \in {"check", "sync"} /\ u.k = running[i].k,
           NEW m \in 1 .. TotalN, NEW y \in Buffer, Waits(running[i], m, y),
           \A x : \A j \in 1 .. TotalN : Waits(u, j, x) <=> Waits(running[i], j, x) /\ j # m,
           \A x \in Buffer \ {y} : buf'[x].requests = buf[x].requests,
           buf[y].requests > 0 => buf'[y].requests = buf[y].requests - 1
    PROVE  CountInv'
<1>1. \A x \in Buffer : buf[x].requests = Count(batch, running, x)
  BY BalanceCounts DEF CountInv
<1>2. PICK r : r = running'
  OBVIOUS
<1>3. /\ Len(r) = Len(running) /\ r[i] = u
      /\ \A h \in 1 .. Len(running) : h # i => r[h] = running[h]
  BY <1>2, FlusherPlaces
<1>4. ASSUME NEW x \in Buffer
      PROVE  buf'[x].requests = Count(batch, r, x)
  <2>1. /\ Cardinality(Waiting(running, x)) \in Nat
        /\ Cardinality(Places(batch, x)) \in Nat
    BY CountTypes, CountType
  <2>2. \A j \in 1 .. TotalN : Waits(r[i], j, x) <=> Waits(running[i], j, x) /\ j # m
    BY <1>3
  <2>3. Len(running) \in Nat
    BY CountTypes
  <2>4. /\ Cardinality(Waiting(r, x))
              = Cardinality(Waiting(running, x)) - (IF Waits(running[i], m, x) THEN 1 ELSE 0)
        /\ Waits(running[i], m, x) => Cardinality(Waiting(running, x)) > 0
    BY <1>3, <2>2, <2>3, WaitingLess
  <2>5. Waits(running[i], m, x) <=> x = y
    BY DEF Waits
  <2>6. CASE x = y
    BY <1>1, <2>1, <2>4, <2>5, <2>6 DEF Count
  <2>7. CASE x # y
    BY <1>1, <2>1, <2>4, <2>5, <2>7 DEF Count
  <2> QED
    BY <2>6, <2>7
<1> QED
  BY <1>2, <1>4, FlusherFrame

\* A flush thread keeps the invariant.
LEMMA FlushersCount ==
    ASSUME CountedBuild, IInv, BatchesConsecutive, CountInv, NEW i \in Flushers, TheFlusher(i)
    PROVE  CountInv'
<1> DEFINE t == Flusher(i)
           x == t.bufs[1]
           z == t.bufs[t.k + 1]
<1>1. /\ buf \in [Buffer -> MemoryBuffer] /\ \A b \in Buffer : buf[b].requests \in Int
      /\ running \in Seq(FlushThread) /\ Len(running) \in Nat
  BY CountTypes
<1>2. FlushStep(i) /\ UNCHANGED <<batch, pool>>
  BY DEF TheFlusher, poolVars
<1>3. i # 0
  <2>1. solo.pc = "done"
    BY DEF CountInv, NoThread
  <2> QED
    BY <1>2, <2>1 DEF FlushStep, SingleCheck, SingleSync, MultiLock, MultiWrite, MultiRelease,
       Flusher
<1>4. i \in 1 .. Len(running) /\ t = running[i]
  BY <1>1, <1>3 DEF Flushers, Flusher
<1>5. t \in FlushThread /\ ThreadInside(t)
  BY <1>4, CountTypes
<1>6. t.bufs \in Seq(Buffer) /\ t.k \in Nat /\ Len(t.bufs) \in Nat /\ TotalN \in Nat
  BY <1>5, MemoryBufferAssumption DEF FlushThread
<1>7. Len(t.bufs) <= TotalN
  <2>1. i \in DOMAIN running
    BY <1>1, <1>4
  <2>2. \A j \in 1 .. Len(t.bufs) : buf[t.bufs[j]].block = buf[t.bufs[1]].block + j - 1
    BY <1>4, <2>1 DEF BatchesConsecutive, Consecutive
  <2> QED
    BY <1>1, <1>6, <2>2, BatchLength
<1>8. t.pc \in {"check", "sync"} => /\ ~MmapRW /\ t.k = 0 /\ Len(t.bufs) = 1 /\ x \in Buffer
                                    /\ Waits(t, 1, x) /\ 1 \in 1 .. TotalN
  <2>1. t.pc \in {"check", "sync"} => ~MmapRW /\ t.k = 0 /\ Len(t.bufs) = 1
    BY <1>4, <1>5 DEF CountInv, SinglesFail, ThreadInside
  <2> QED
    BY <1>6, <1>7, <2>1 DEF Waits
<1>9. t.pc \in {"lock", "write", "release"} => /\ t.k + 1 \in 1 .. Len(t.bufs)
                                               /\ t.k + 1 \in 1 .. TotalN /\ z \in Buffer
  BY <1>5, <1>6, <1>7 DEF ThreadInside
<1> HIDE DEF t
<1>10. CASE SingleCheck(i)
  <2>1. t.pc = "check"
    BY <1>10 DEF SingleCheck, t
  <2>2. CASE Advance(i, [t EXCEPT !.pc = "sync"]) /\ UNCHANGED buf
    <3> DEFINE u == [t EXCEPT !.pc = "sync"]
    <3>1. u \in FlushThread /\ u.pc = "sync" /\ u.k = t.k /\ u.bufs = t.bufs
      BY <1>5 DEF FlushThread
    <3> HIDE DEF u
    <3>2. \A b : \A j \in 1 .. TotalN : Waits(u, j, b) <=> Waits(t, j, b)
      BY <2>1, <3>1 DEF Waits
    <3> QED
      BY <1>2, <1>4, <2>1, <2>2, <3>1, <3>2, FlushKeeps DEF u
  <2>3. CASE /\ Advance(i, [t EXCEPT !.pc = "done"])
             /\ Assign(x, [buf[x] EXCEPT !.busy = FALSE,
                                         !.requests = IF MmapRW THEN @ ELSE @ - 1])
    <3> DEFINE u == [t EXCEPT !.pc = "done"]
               c == [buf[x] EXCEPT !.busy = FALSE,
                                   !.requests = IF MmapRW THEN @ ELSE @ - 1]
    <3>1. u \in FlushThread /\ u.pc = "done"
      BY <1>5 DEF FlushThread
    <3>2. c.requests = buf[x].requests - 1
      BY <1>1, <1>8, <2>1 DEF MemoryBuffer
    <3>3. \A b \in Buffer : buf'[b] = IF b = x THEN c ELSE buf[b]
      BY <1>1, <2>3 DEF Assign
    <3> HIDE DEF u, c
    <3>4. \A b : \A j \in 1 .. TotalN : Waits(u, j, b) <=> Waits(t, j, b) /\ j # 1
      BY <1>8, <2>1, <3>1 DEF Waits
    <3>5. x \in Buffer /\ Waits(t, 1, x) /\ 1 \in 1 .. TotalN
      BY <1>8, <2>1
    <3> HIDE DEF x
    <3>6. Advance(i, u)
      BY <2>3 DEF u
    <3>7. /\ \A b \in Buffer \ {x} : buf'[b].requests = buf[b].requests
          /\ buf'[x].requests = buf[x].requests - 1
      BY <3>2, <3>3, <3>5
    <3> QED
      BY <1>2, <1>4, <3>1, <3>4, <3>5, <3>6, <3>7, FlushBegins
  <2> QED
    BY <1>10, <2>2, <2>3 DEF SingleCheck, t
<1>11. CASE SingleSync(i)
  <2>1. t.pc = "sync"
    BY <1>11 DEF SingleSync, t
  <2>2. PICK c, u :
           /\ Assign(x, c) /\ Advance(i, u) /\ u \in FlushThread /\ u.pc = "done"
           /\ buf[x].requests > 0 => c.requests = buf[x].requests - 1
    <3>1. buf[x] \in MemoryBuffer /\ ~MmapRW /\ buf[x].requests \in Int
      BY <1>1, <1>8, <2>1
    <3>2. buf[x].requests > 0 => Claimed(buf[x].requests) = buf[x].requests - 1
      BY <3>1 DEF Claimed
    <3>3. CASE Stale(x)
      <4>1. /\ Assign(x, [buf[x] EXCEPT !.busy = FALSE,
                                        !.requests = IF MmapRW THEN @ ELSE Claimed(@)])
            /\ Advance(i, [t EXCEPT !.pc = "done"])
        BY <1>11, <3>3 DEF SingleSync, t
      <4>2. [t EXCEPT !.pc = "done"] \in FlushThread /\ [t EXCEPT !.pc = "done"].pc = "done"
        BY <1>5 DEF FlushThread
      <4>3. [buf[x] EXCEPT !.busy = FALSE,
                           !.requests = IF MmapRW THEN @ ELSE Claimed(@)].requests
              = Claimed(buf[x].requests)
        BY <3>1 DEF MemoryBuffer
      <4> QED
        BY <3>2, <4>1, <4>2, <4>3
    <3>4. CASE ~Stale(x)
      <4>1. PICK ok \in WriteOutcomes :
              /\ Assign(x, [buf[x] EXCEPT !.busy = FALSE,
                                          !.dirty = DirtyAfter(ok),
                                          !.requests = Claimed(@)])
              /\ Advance(i, [t EXCEPT !.pc = "done", !.ok = ok])
        BY <1>11, <3>4 DEF SingleSync, t
      <4>2. /\ [t EXCEPT !.pc = "done", !.ok = ok] \in FlushThread
            /\ [t EXCEPT !.pc = "done", !.ok = ok].pc = "done"
        BY <1>5 DEF FlushThread, WriteOutcomes
      <4>3. [buf[x] EXCEPT !.busy = FALSE,
                           !.dirty = DirtyAfter(ok),
                           !.requests = Claimed(@)].requests = Claimed(buf[x].requests)
        BY <3>1 DEF MemoryBuffer
      <4> QED
        BY <3>2, <4>1, <4>2, <4>3
    <3> QED
      BY <3>3, <3>4
  <2>3. \A b \in Buffer : buf'[b] = IF b = x THEN c ELSE buf[b]
    BY <1>1, <2>2 DEF Assign
  <2>4. \A b : \A j \in 1 .. TotalN : Waits(u, j, b) <=> Waits(t, j, b) /\ j # 1
    BY <1>8, <2>1, <2>2 DEF Waits
  <2>5. x \in Buffer /\ Waits(t, 1, x) /\ 1 \in 1 .. TotalN
    BY <1>8, <2>1
  <2> HIDE DEF x
  <2>6. /\ \A b \in Buffer \ {x} : buf'[b].requests = buf[b].requests
        /\ buf[x].requests > 0 => buf'[x].requests = buf[x].requests - 1
    BY <2>2, <2>3, <2>5
  <2> QED
    BY <1>2, <1>4, <2>2, <2>4, <2>5, <2>6, FlushBegins
<1>12. CASE MultiLock(i)
  <2> DEFINE n == t.k + 1
             u == [t EXCEPT !.k = IF n = Len(t.bufs) THEN 0 ELSE n,
                            !.pc = IF n = Len(t.bufs) THEN "write" ELSE "lock"]
  <2>1. t.pc = "lock" /\ Assign(z, Acquired(z)) /\ Advance(i, u)
    BY <1>12 DEF MultiLock, t
  <2>2. /\ u \in FlushThread /\ u.bufs = t.bufs
        /\ u.pc = IF n = Len(t.bufs) THEN "write" ELSE "lock"
        /\ u.k = IF n = Len(t.bufs) THEN 0 ELSE n
    <3>1. /\ (IF n = Len(t.bufs) THEN 0 ELSE n) \in Nat
          /\ (IF n = Len(t.bufs) THEN "write" ELSE "lock") \in {"lock", "write"}
      BY <1>6
    <3> QED
      BY <1>5, <3>1 DEF FlushThread
  <2>3. z \in Buffer /\ n \in 1 .. Len(t.bufs) /\ n \in 1 .. TotalN
    BY <1>9, <2>1
  <2>4. Advance(i, u)
    BY <2>1
  <2> HIDE DEF u
  <2>5. \A b : \A j \in 1 .. TotalN : Waits(u, j, b) <=> Waits(t, j, b) /\ j # n
    <3>1. CASE n = Len(t.bufs)
      BY <1>6, <2>1, <2>2, <3>1 DEF Waits
    <3>2. CASE n # Len(t.bufs)
      BY <1>6, <2>1, <2>2, <3>2 DEF Waits
    <3> QED
      BY <3>1, <3>2
  <2>6. Waits(t, n, z)
    BY <1>6, <2>1, <2>3 DEF Waits
  <2>7. buf[z].requests > 0 => Acquired(z).requests = buf[z].requests - 1
    <3>1. buf[z] \in MemoryBuffer /\ buf[z].requests \in Int
      BY <1>1, <2>3
    <3>2. Acquired(z).requests = Claimed(buf[z].requests)
      BY <3>1 DEF Acquired, MemoryBuffer
    <3> QED
      BY <3>1, <3>2 DEF Claimed
  <2>8. \A b \in Buffer : buf'[b] = IF b = z THEN Acquired(z) ELSE buf[b]
    BY <1>1, <2>1 DEF Assign
  <2> HIDE DEF z, n
  <2>9. /\ \A b \in Buffer \ {z} : buf'[b].requests = buf[b].requests
        /\ buf[z].requests > 0 => buf'[z].requests = buf[z].requests - 1
    BY <2>3, <2>7, <2>8
  <2>10. u.pc \notin {"check", "sync"}
    BY <2>2
  <2> QED
    BY <1>2, <1>4, <2>2, <2>3, <2>4, <2>5, <2>6, <2>9, <2>10, FlushBegins
<1>13. CASE MultiWrite(i)
  <2>1. t.pc = "write" /\ UNCHANGED buf
    BY <1>13 DEF MultiWrite, t
  <2>2. CASE UNCHANGED <<running, solo>>
    <3>1. RequestsBalanced' /\ SinglesFail'
      BY <1>2, <2>1, <2>2 DEF CountInv, RequestsBalanced, Requests, SinglesFail
    <3> QED
      BY <1>2, <2>2, <3>1 DEF CountInv
  <2>3. CASE \E ok \in WriteOutcomes : Advance(i, [t EXCEPT !.pc = "release", !.ok = ok])
    <3>1. PICK ok \in WriteOutcomes : Advance(i, [t EXCEPT !.pc = "release", !.ok = ok])
      BY <2>3
    <3> DEFINE u == [t EXCEPT !.pc = "release", !.ok = ok]
    <3>2. u \in FlushThread /\ u.pc = "release"
      BY <1>5 DEF FlushThread, WriteOutcomes
    <3> HIDE DEF u
    <3>3. \A b : \A j \in 1 .. TotalN : Waits(u, j, b) <=> Waits(t, j, b)
      BY <2>1, <3>2 DEF Waits
    <3> QED
      BY <1>2, <1>4, <2>1, <3>1, <3>2, <3>3, FlushKeeps DEF u
  <2> QED
    BY <1>13, <2>2, <2>3 DEF MultiWrite, t
<1>14. CASE MultiRelease(i)
  <2> DEFINE u == [t EXCEPT !.k = @ + 1,
                            !.pc = IF t.k + 1 = Len(t.bufs) THEN "done" ELSE "release"]
             c == [buf[z] EXCEPT !.dirty = @ /\ DirtyAfter(t.ok),
                                 !.busy = FALSE,
                                 !.lock = @ + 1]
  <2>1. t.pc = "release" /\ Assign(z, c) /\ Advance(i, u)
    BY <1>14 DEF MultiRelease, t
  <2>2. u \in FlushThread /\ u.pc \in {"done", "release"}
    <3>1. /\ t.k + 1 \in Nat
          /\ (IF t.k + 1 = Len(t.bufs) THEN "done" ELSE "release") \in {"done", "release"}
      BY <1>6
    <3> QED
      BY <1>5, <3>1 DEF FlushThread
  <2>3. z \in Buffer
    BY <1>9, <2>1
  <2>4. c.requests = buf[z].requests
    BY <1>1, <2>3 DEF MemoryBuffer
  <2>5. \A b \in Buffer : buf'[b] = IF b = z THEN c ELSE buf[b]
    BY <1>1, <2>1 DEF Assign
  <2>6. Advance(i, u)
    BY <2>1
  <2> HIDE DEF u, c
  <2>7. \A b : \A j \in 1 .. TotalN : Waits(u, j, b) <=> Waits(t, j, b)
    BY <2>1, <2>2 DEF Waits
  <2>8. \A b \in Buffer : buf'[b].requests = buf[b].requests
    BY <2>4, <2>5
  <2> QED
    BY <1>2, <1>4, <2>2, <2>6, <2>7, <2>8, FlushKeeps
<1> QED
  BY <1>2, <1>10, <1>11, <1>12, <1>13, <1>14 DEF FlushStep
-----------------------------------------------------------------------------
(* The application's thread *)

\* A buffer that does not exist yet is asked for by nobody.
LEMMA NotYetAsked ==
    ASSUME IInv
    PROVE  Count(batch, running, nbuf + 1) = 0
<1> DEFINE x == nbuf + 1
<1>1. nbuf \in Nat /\ batch \in Seq(Buffer) /\ Len(running) \in Nat
  BY CountTypes DEF IInv, TypeOK, MemTypeOK
<1>2. Places(batch, x) = {}
  BY <1>1 DEF Places, IInv, References, PoolReferences, Buffer
<1>3. Waiting(running, x) = {}
  <2>1. ASSUME NEW h \in 1 .. Len(running), NEW j \in 1 .. TotalN
        PROVE  ~Waits(running[h], j, x)
    <3>1. running[h] \in FlushThread /\ ThreadInside(running[h])
      BY CountTypes
    <3>2. /\ \A l \in 1 .. Len(running[h].bufs) : running[h].bufs[l] <= nbuf
          /\ running[h].k \in Nat /\ Len(running[h].bufs) \in Nat
          /\ running[h].bufs \in Seq(Buffer)
      BY <3>1 DEF ThreadInside, FlushThread
    <3>3. j \in running[h].k + 1 .. Len(running[h].bufs) =>
             running[h].bufs[j] \in Buffer /\ running[h].bufs[j] <= nbuf
      BY <3>2
    <3> QED
      BY <1>1, <3>3 DEF Waits, Buffer
  <2> QED
    BY <2>1 DEF Waiting
<1> QED
  BY <1>2, <1>3, FS_EmptySet DEF Count

\* The application's calls and steps keep the invariant.
LEMMA AppCounts ==
    ASSUME CountedBuild, IInv, CountInv, AppCall \/ AppStep
    PROVE  CountInv'
<1>1. /\ buf \in [Buffer -> MemoryBuffer] /\ \A x \in Buffer : buf[x].requests \in Int
      /\ running \in Seq(FlushThread) /\ Len(running) \in Nat /\ nbuf \in Nat
  BY CountTypes DEF IInv, TypeOK, MemTypeOK
<1>2. UNCHANGED <<pool, batch>>
  BY AppThreads, AppKeepsLists
<1>3. UNCHANGED solo \/ solo' = NoThread
  BY DEF AppCall, Close, OsRead, OsWrite, Begin, AppStep, ReadHit, WriteLock, WriteUnlock,
     Put, Push, FindVictim, WaitNotBusy, WaitNoRequests, Inspect, Requeue, Join, WaitClean, Free,
     Destroy, JoinPool, JoinAll, CountedBuild
<1>4. \A x \in Buffer : buf[x].requests = Count(batch, running, x)
  BY BalanceCounts DEF CountInv
<1>5. \A x \in Buffer : buf'[x].requests = buf[x].requests
  <2>1. CASE UNCHANGED buf
    BY <2>1
  <2>2. ASSUME NEW y, NEW c, Assign(y, c), y \in Buffer => c.requests = buf[y].requests
        PROVE  \A x \in Buffer : buf'[x].requests = buf[x].requests
    BY <1>1, <2>2 DEF Assign
  <2>3. CASE \E op, b, d : Begin(op, b, d)
    <3>1. PICK op, b, d : Begin(op, b, d)
      BY <2>3
    <3>2. UNCHANGED buf \/ CreateNewMemoryBuffer(b, d, op = "write")
      BY <3>1 DEF Begin
    <3>3. CASE CreateNewMemoryBuffer(b, d, op = "write")
      <4>1. nbuf + 1 \in Buffer
        BY <1>1, <3>3, MemoryBufferAssumption DEF CreateNewMemoryBuffer, Buffer
      <4>2. buf[nbuf + 1].requests = 0
        BY <1>4, <4>1, NotYetAsked
      <4> QED
        BY <1>1, <3>3, <4>1, <4>2 DEF CreateNewMemoryBuffer
    <3> QED
      BY <2>1, <3>2, <3>3
  <2>4. CASE WriteLock
    <3> DEFINE y == main.buf
               c == [buf[y] EXCEPT !.lock = IF buf[y].valid THEN @ - 1 ELSE 0,
                                   !.busy = TRUE, !.data = main.data]
    <3>1. Assign(y, c)
      BY <2>4 DEF WriteLock
    <3>2. y \in Buffer => c.requests = buf[y].requests
      BY <1>1 DEF MemoryBuffer
    <3> HIDE DEF c
    <3> QED
      BY <2>2, <3>1, <3>2
  <2>5. CASE WriteUnlock
    <3> DEFINE y == main.buf
               c == [buf[y] EXCEPT !.valid = TRUE, !.dirty = TRUE,
                                   !.busy = FALSE, !.lock = @ + 1]
    <3>1. Assign(y, c)
      BY <2>5 DEF WriteUnlock
    <3>2. y \in Buffer => c.requests = buf[y].requests
      BY <1>1 DEF MemoryBuffer
    <3> HIDE DEF c
    <3> QED
      BY <2>2, <3>1, <3>2
  <2>6. CASE Inspect
    BY <2>6 DEF Inspect, CountedBuild
  <2>7. CASE Join
    <3> DEFINE y == main.victim
               c == [buf[y] EXCEPT !.busy = FALSE]
    <3>1. Assign(y, c)
      BY <2>7 DEF Join
    <3>2. y \in Buffer => c.requests = buf[y].requests
      BY <1>1 DEF MemoryBuffer
    <3> HIDE DEF c
    <3> QED
      BY <2>2, <3>1, <3>2
  <2>8. CASE Free
    <3> DEFINE y == main.victim
               c == [buf[y] EXCEPT !.valid = FALSE, !.data = NULL]
    <3>1. Assign(y, c)
      BY <2>8 DEF Free
    <3>2. y \in Buffer => c.requests = buf[y].requests
      BY <1>1 DEF MemoryBuffer
    <3> HIDE DEF c
    <3> QED
      BY <2>2, <3>1, <3>2
  <2>9. CASE Destroy
    <3> DEFINE y == main.victim
               c == [buf[y] EXCEPT !.lock = 0]
    <3>1. Assign(y, c)
      BY <2>9 DEF Destroy
    <3>2. y \in Buffer => c.requests = buf[y].requests
      BY <1>1 DEF MemoryBuffer
    <3> HIDE DEF c
    <3> QED
      BY <2>2, <3>1, <3>2
  <2>10. CASE \/ Close \/ ReadHit \/ Put \/ Push \/ FindVictim \/ WaitNotBusy
              \/ WaitNoRequests \/ Requeue \/ WaitClean \/ JoinPool \/ JoinAll
    BY <2>10 DEF Close, ReadHit, Put, Push, FindVictim, WaitNotBusy, WaitNoRequests, Requeue,
       WaitClean, JoinPool, JoinAll, memVars
  <2> QED
    BY <2>3, <2>4, <2>5, <2>6, <2>7, <2>8, <2>9, <2>10
       DEF AppCall, AppStep, OsRead, OsWrite
<1>6. CASE UNCHANGED running
  <2>1. RequestsBalanced' /\ SinglesFail'
    BY <1>2, <1>4, <1>5, <1>6, BalanceCounts DEF CountInv, SinglesFail
  <2> QED
    BY <1>2, <1>3, <2>1 DEF CountInv
<1>7. CASE ~UNCHANGED running
  <2>1. running # <<>> /\ Head(running).pc = "done" /\ running' = Tail(running)
    BY <1>7, AppKeepsLists DEF JoinAll
  <2>2. \A x \in Buffer : Count(batch, running', x) = Count(batch, running, x)
    BY <1>1, <2>1, ThreadJoined
  <2>3. SinglesFail'
    <3>1. /\ Len(running') = Len(running) - 1
          /\ \A i \in 1 .. Len(running') : running'[i] = running[i + 1]
      BY <1>1, <2>1, RunningTail
    <3>2. \A i \in 1 .. Len(running') : i + 1 \in 1 .. Len(running)
      BY <1>1, <3>1
    <3> QED
      BY <3>1, <3>2 DEF CountInv, SinglesFail
  <2>4. RequestsBalanced'
    BY <1>2, <1>4, <1>5, <2>2, BalanceCounts
  <2> QED
    BY <1>2, <1>3, <2>3, <2>4 DEF CountInv
<1> QED
  BY <1>6, <1>7

LEMMA InitCounts == Init => CountInv
<1> SUFFICES ASSUME Init PROVE CountInv
  OBVIOUS
<1>1. running = <<>> /\ batch = <<>> /\ solo = NoThread /\ pool.pc = "top"
  BY DEF Init, FlushInit, PoolInit
<1>2. \A x \in Buffer : buf[x].requests = 0
  BY DEF Init, MemInit, Unallocated
<1>3. ASSUME NEW x
      PROVE  Count(batch, running, x) = 0
  <2>1. Waiting(running, x) = {}
    BY <1>1, EmptySeq DEF Waiting
  <2>2. Cardinality(Waiting(running, x)) = 0
    BY <2>1, FS_EmptySet
  <2>3. Cardinality(Places(batch, x)) = 0
    BY <1>1, PlacesEmpty
  <2> QED
    BY <2>2, <2>3 DEF Count
<1>4. RequestsBalanced
  BY <1>2, <1>3, BalanceCounts
<1>5. SinglesFail
  BY <1>1, EmptySeq DEF SinglesFail
<1> QED
  BY <1>1, <1>4, <1>5 DEF CountInv

\* In every build where only the pool asks for writes, request_write_count is
\* exactly the number of writes the pool has asked for and no flush thread has
\* begun, however pool, threads and evictions interleave: an eviction that waits
\* for it to be 0 (memory_buffer.c, deleteMemoryBuffer) waits for these writes
\* and for nothing else (disk_write.c and thread_pool.c, request_write_count).
THEOREM RequestsBalance == ASSUME CountedBuild PROVE Spec => []RequestsBalanced
<1>1. IInv /\ IInv' /\ BatchesConsecutive /\ BatchesConsecutive' /\ CountInv /\ [Next]_vars
        => CountInv'
  <2> SUFFICES ASSUME IInv, IInv', BatchesConsecutive, BatchesConsecutive', CountInv,
                      [Next]_vars
               PROVE  CountInv'
    OBVIOUS
  <2>1. CASE AppCall \/ AppStep
    BY <2>1, AppCounts
  <2>2. CASE ThePool
    BY <2>2, PoolCounts DEF ThePool
  <2>3. ASSUME NEW i \in Flushers, TheFlusher(i)
        PROVE  CountInv'
    BY <2>3, FlushersCount
  <2>4. CASE UNCHANGED vars
    <3>1. UNCHANGED <<buf, running, solo, batch, pool>>
      BY <2>4 DEF vars, memVars, poolVars
    <3>2. RequestsBalanced' /\ SinglesFail'
      BY <3>1 DEF CountInv, RequestsBalanced, Requests, SinglesFail
    <3> QED
      BY <3>1, <3>2 DEF CountInv
  <2> QED
    BY <2>1, <2>2, <2>3, <2>4 DEF Next, Stopped
<1>2. CountInv => RequestsBalanced
  BY DEF CountInv
<1> QED
  BY InitCounts, IInvAlways, BatchesHold, <1>1, <1>2, PTL DEF Spec
=============================================================================
