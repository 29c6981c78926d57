----------------------------- MODULE LockProofs ------------------------------
(***************************************************************************)
(* The write_lock of a buffer excludes: at most one of the application,    *)
(* the pooling thread and the flush threads has it, and the bytes of a     *)
(* buffer change only while no flush thread has it.                        *)
(*                                                                         *)
(* LockInv is the invariant: WriteLockExcludes of CacheProperties for any  *)
(* holder, and what makes it inductive.                                    *)
(***************************************************************************)
EXTENDS BufferCacheProofs

Holder == Nat \union {-1, -2}

LockAt(x) ==
    /\ buf[x].lock <= 1
    /\ \A h \in Holder : Holds(h, x) =>
          buf[x].lock = 0 /\ \A g \in Holder : Holds(g, x) => g = h

LockInv ==
    /\ \A x \in Buffer : LockAt(x)
    /\ \A x \in 1 .. nbuf : Live(x) => buf[x].valid
    /\ Len(solo.bufs) <= 1

\* What a step may do to one lock.  s shifts the threads of running_queue when
\* its oldest was joined.
Shift(s, h) == IF h >= 1 THEN h + s ELSE h

\* Every change of one lock that a step may make keeps it exclusive.
LEMMA LockKept ==
    ASSUME NEW x \in Buffer, LockAt(x), buf[x].lock \in Nat,
           NEW s \in {0, 1}, NEW g \in Holder,
           \/ /\ buf'[x].lock = buf[x].lock
              /\ \A h \in Holder : Holds(h, x)' => Holds(Shift(s, h), x)
           \/ /\ buf[x].lock > 0 /\ buf'[x].lock = buf[x].lock - 1
              /\ \A h \in Holder : Holds(h, x)' => h = g \/ Holds(h, x)
           \/ /\ Holds(g, x) /\ buf'[x].lock = buf[x].lock + 1
              /\ \A h \in Holder : Holds(h, x)' => h # g /\ Holds(h, x)
           \/ /\ buf'[x].lock = 0
              /\ \A h \in Holder : Holds(h, x)' => Holds(h, x)
           \/ /\ buf'[x].lock <= 1
              /\ \A h \in Holder : ~Holds(h, x)'
    PROVE  LockAt(x)'
<1> HIDE DEF Holds
<1>1. \A h \in Holder : Shift(s, h) \in Holder
  BY DEF Shift, Holder
<1>2. \A h, e \in Holder : Shift(s, h) = Shift(s, e) => h = e
  BY DEF Shift, Holder
<1>3. \A h \in Holder : Holds(h, x) =>
         buf[x].lock = 0 /\ \A e \in Holder : Holds(e, x) => e = h
  BY DEF LockAt
<1>4. buf'[x].lock <= 1
  BY <1>3 DEF LockAt
<1>5. ASSUME NEW h \in Holder, Holds(h, x)'
      PROVE  buf'[x].lock = 0 /\ \A e \in Holder : Holds(e, x)' => e = h
  BY <1>1, <1>2, <1>3, <1>5 DEF LockAt
<1> QED
  BY <1>4, <1>5 DEF LockAt
-----------------------------------------------------------------------------
(* The flush threads *)

\* What a flush thread holds, by the place it has reached.
LEMMA LockedByPc ==
    ASSUME NEW t
    PROVE  /\ t.pc = "lock" => LockedBy(t) = {t.bufs[j] : j \in 1 .. t.k}
           /\ t.pc = "write" => LockedBy(t) = {t.bufs[j] : j \in 1 .. Len(t.bufs)}
           /\ t.pc = "release" => LockedBy(t) = {t.bufs[j] : j \in t.k + 1 .. Len(t.bufs)}
           /\ t.pc \in {"check", "sync", "done"} => LockedBy(t) = {}
BY DEF LockedBy

\* What one step of a flush thread does to the locks, if it becomes u.
LockEffect(t, u) ==
    \/ /\ \A x \in Buffer : buf'[x].lock = buf[x].lock
       /\ LockedBy(u) \subseteq LockedBy(t)
    \/ \E y \in Buffer :
          /\ buf[y].lock > 0 /\ buf'[y].lock = buf[y].lock - 1
          /\ \A x \in Buffer : x # y => buf'[x].lock = buf[x].lock
          /\ LockedBy(u) \subseteq LockedBy(t) \union {y}
    \/ \E y \in Buffer :
          /\ y \in LockedBy(t) /\ buf'[y].lock = buf[y].lock + 1
          /\ \A x \in Buffer : x # y => buf'[x].lock = buf[x].lock
          /\ LockedBy(u) \subseteq LockedBy(t) \ {y}

\* A flush thread takes or gives back one lock at a time.
LEMMA FlushLocks ==
    ASSUME IInv, BatchesConsecutive, Len(solo.bufs) <= 1, NEW i \in Flushers, FlushStep(i)
    PROVE  \/ UNCHANGED <<running, solo, buf>>
           \/ \E u \in FlushThread :
                 Advance(i, u) /\ u.bufs = Flusher(i).bufs /\ LockEffect(Flusher(i), u)
<1> DEFINE t == Flusher(i)
<1> USE DEF IInv, TypeOK, References
<1>1. t \in FlushThread /\ ThreadInside(t)
  BY FlusherType, ElementOfSeq DEF FlushReferences, Flusher, Flushers, FlushTypeOK
<1>2. /\ t.bufs \in Seq(Buffer) /\ t.k \in Nat /\ Len(t.bufs) \in Nat
      /\ buf \in [Buffer -> MemoryBuffer]
  BY <1>1 DEF FlushThread, MemTypeOK
<1>3. ASSUME NEW u, u.pc \in {"check", "sync", "done"},
             \A x \in Buffer : buf'[x].lock = buf[x].lock
      PROVE  LockEffect(t, u)
  BY <1>3, LockedByPc DEF LockEffect
<1>4. CASE SingleCheck(i) \/ SingleSync(i)
  <2> DEFINE x == t.bufs[1]
  <2>1. t.pc \in {"check", "sync"}
    BY <1>4 DEF SingleCheck, SingleSync
  <2>2. x \in Buffer
    BY <1>1, <1>2, <2>1, ElementOfSeq DEF ThreadInside
  <2>3. \A y \in Buffer : buf'[y].lock = buf[y].lock
    <3>1. ASSUME NEW r, Assign(x, r), r.lock = buf[x].lock
          PROVE  \A y \in Buffer : buf'[y].lock = buf[y].lock
      BY <1>2, <2>2, <3>1 DEF Assign
    <3>2. CASE UNCHANGED buf
      BY <3>2
    <3>3. ASSUME NEW n, Assign(x, [buf[x] EXCEPT !.busy = FALSE, !.requests = n])
          PROVE  \A y \in Buffer : buf'[y].lock = buf[y].lock
      <4>1. [buf[x] EXCEPT !.busy = FALSE, !.requests = n].lock = buf[x].lock
        BY <1>2, <2>2 DEF MemoryBuffer
      <4> QED
        BY <3>1, <3>3, <4>1
    <3>4. ASSUME NEW d, NEW n,
                 Assign(x, [buf[x] EXCEPT !.busy = FALSE, !.dirty = d, !.requests = n])
          PROVE  \A y \in Buffer : buf'[y].lock = buf[y].lock
      <4>1. [buf[x] EXCEPT !.busy = FALSE, !.dirty = d, !.requests = n].lock = buf[x].lock
        BY <1>2, <2>2 DEF MemoryBuffer
      <4> QED
        BY <3>1, <3>4, <4>1
    <3>5. CASE SingleCheck(i)
      BY <3>2, <3>3, <3>5 DEF SingleCheck
    <3>6. CASE SingleSync(i)
      BY <3>3, <3>4, <3>6 DEF SingleSync
    <3> QED
      BY <1>4, <3>5, <3>6
  <2>4. \E pc \in {"sync", "done"} : \E ok \in BOOLEAN :
           Advance(i, [t EXCEPT !.pc = pc, !.ok = ok])
    <3>1. ASSUME NEW pc \in {"sync", "done"}
          PROVE  [t EXCEPT !.pc = pc] = [t EXCEPT !.pc = pc, !.ok = t.ok]
      BY <1>1 DEF FlushThread
    <3>2. t.ok \in BOOLEAN /\ WriteOutcomes \subseteq BOOLEAN
      BY <1>1 DEF FlushThread, WriteOutcomes
    <3>3. \/ \E pc \in {"sync", "done"} : Advance(i, [t EXCEPT !.pc = pc])
          \/ \E ok \in WriteOutcomes : Advance(i, [t EXCEPT !.pc = "done", !.ok = ok])
      BY <1>4 DEF SingleCheck, SingleSync
    <3> HIDE DEF t
    <3> QED
      BY <3>1, <3>2, <3>3
  <2>5. PICK pc \in {"sync", "done"}, ok \in BOOLEAN :
               Advance(i, [t EXCEPT !.pc = pc, !.ok = ok])
    BY <2>4
  <2> DEFINE u == [t EXCEPT !.pc = pc, !.ok = ok]
  <2>6. u \in FlushThread /\ u.bufs = t.bufs /\ u.pc = pc
    BY <1>1 DEF FlushThread
  <2> HIDE DEF u, t
  <2>7. LockEffect(t, u)
    BY <1>3, <2>3, <2>6
  <2> QED
    BY <2>5, <2>6, <2>7 DEF u, t
<1>5. CASE MultiLock(i)
  <2> DEFINE n == t.k + 1
             x == t.bufs[n]
             k == IF n = Len(t.bufs) THEN 0 ELSE n
             pc == IF n = Len(t.bufs) THEN "write" ELSE "lock"
             u == [t EXCEPT !.k = k, !.pc = pc]
  <2>1. t.pc = "lock" /\ Unlocked(x) /\ Assign(x, Acquired(x)) /\ Advance(i, u)
    BY <1>5 DEF MultiLock
  <2>2. n \in 1 .. Len(t.bufs) /\ x \in Buffer
    BY <1>1, <1>2, <2>1, ElementOfSeq DEF ThreadInside
  <2>3. /\ buf[x].lock > 0 /\ buf'[x].lock = buf[x].lock - 1
        /\ \A y \in Buffer : y # x => buf'[y].lock = buf[y].lock
    BY <1>2, <2>1, <2>2 DEF Unlocked, Assign, Acquired, MemoryBuffer
  <2>4. u \in FlushThread /\ u.bufs = t.bufs /\ u.k = k /\ u.pc = pc
    <3>1. k \in Nat /\ pc \in {"lock", "write"}
      BY <1>2
    <3> HIDE DEF t, k, pc
    <3> QED
      BY <1>1, <3>1 DEF FlushThread
  <2>5. LockedBy(u) = {t.bufs[j] : j \in 1 .. n}
    <3>1. CASE n = Len(t.bufs)
      BY <2>4, <3>1, LockedByPc
    <3>2. CASE n # Len(t.bufs)
      BY <2>4, <3>2, LockedByPc
    <3> QED
      BY <3>1, <3>2
  <2>6. LockedBy(u) \subseteq LockedBy(t) \union {x}
    <3>1. LockedBy(t) = {t.bufs[j] : j \in 1 .. t.k}
      BY <2>1, LockedByPc
    <3>2. \A j \in 1 .. n : j = n \/ j \in 1 .. t.k
      BY <1>2
    <3> QED
      BY <2>5, <3>1, <3>2
  <2> HIDE DEF x, u, t
  <2>7. LockEffect(t, u)
    BY <2>2, <2>3, <2>6 DEF LockEffect
  <2> QED
    BY <2>1, <2>4, <2>7 DEF t
<1>6. CASE MultiWrite(i)
  <2>1. CASE UNCHANGED <<running, solo>>
    BY <1>6, <2>1 DEF MultiWrite
  <2>2. ASSUME NEW ok \in WriteOutcomes, Advance(i, [t EXCEPT !.pc = "release", !.ok = ok])
        PROVE  \E u \in FlushThread : Advance(i, u) /\ u.bufs = t.bufs /\ LockEffect(t, u)
    <3> DEFINE u == [t EXCEPT !.pc = "release", !.ok = ok]
    <3>1. u \in FlushThread /\ u.bufs = t.bufs /\ u.k = t.k /\ u.pc = "release"
      <4>1. ok \in BOOLEAN
        BY <2>2 DEF WriteOutcomes
      <4> QED
        BY <1>1, <4>1 DEF FlushThread
    <3>2. t.pc = "write" /\ UNCHANGED buf
      BY <1>6 DEF MultiWrite
    <3>3. LockedBy(u) \subseteq LockedBy(t)
      <4>1. /\ LockedBy(t) = {t.bufs[j] : j \in 1 .. Len(t.bufs)}
            /\ LockedBy(u) = {t.bufs[j] : j \in t.k + 1 .. Len(t.bufs)}
        <5> HIDE DEF u, t
        <5> QED
          BY <3>1, <3>2, LockedByPc
      <4>2. \A j \in t.k + 1 .. Len(t.bufs) : j \in 1 .. Len(t.bufs)
        BY <1>2
      <4> QED
        BY <4>1, <4>2
    <3> HIDE DEF u, t
    <3>4. LockEffect(t, u)
      BY <3>2, <3>3 DEF LockEffect
    <3> QED
      BY <2>2, <3>1, <3>4 DEF u
  <2> QED
    BY <1>6, <2>1, <2>2 DEF MultiWrite
<1>7. CASE MultiRelease(i)
  <2> DEFINE n == t.k + 1
             x == t.bufs[n]
             pc == IF t.k + 1 = Len(t.bufs) THEN "done" ELSE "release"
             u == [t EXCEPT !.k = n, !.pc = pc]
  <2>1. t.pc = "release" /\ Advance(i, u)
    BY <1>7 DEF MultiRelease
  <2>2. n \in 1 .. Len(t.bufs) /\ x \in Buffer
    BY <1>1, <1>2, <2>1, ElementOfSeq DEF ThreadInside
  <2>3. /\ buf'[x].lock = buf[x].lock + 1
        /\ \A y \in Buffer : y # x => buf'[y].lock = buf[y].lock
    BY <1>2, <1>7, <2>2 DEF MultiRelease, Assign, MemoryBuffer
  <2>4. u \in FlushThread /\ u.bufs = t.bufs /\ u.k = n /\ u.pc = pc
    <3>1. n \in Nat /\ pc \in {"done", "release"}
      BY <1>2
    <3> HIDE DEF t, n, pc
    <3> QED
      BY <1>1, <3>1 DEF FlushThread
  <2>5. LockedBy(t) = {t.bufs[j] : j \in n .. Len(t.bufs)}
    BY <2>1, LockedByPc
  <2>6. \A j \in n + 1 .. Len(t.bufs) : j \in n .. Len(t.bufs) /\ t.bufs[j] # x
    <3>1. CASE i = 0
      BY <1>2, <2>2, <3>1 DEF Flusher
    <3>2. CASE i # 0
      <4>1. Consecutive(t.bufs)
        BY <3>2 DEF Flusher, Flushers, BatchesConsecutive, FlushTypeOK
      <4>2. \A j \in 1 .. Len(t.bufs) : t.bufs[j] \in Buffer /\ buf[t.bufs[j]].block \in Int
        BY <1>2, ElementOfSeq DEF MemoryBuffer, Block
      <4>3. ASSUME NEW j \in n + 1 .. Len(t.bufs)
            PROVE  buf[t.bufs[j]].block # buf[x].block
        <5>1. /\ buf[t.bufs[j]].block = buf[t.bufs[1]].block + j - 1
              /\ buf[x].block = buf[t.bufs[1]].block + n - 1
          BY <1>2, <2>2, <4>1 DEF Consecutive
        <5>2. buf[t.bufs[1]].block \in Int /\ j \in Int /\ n \in Int /\ j > n
          BY <1>2, <2>2, <4>2
        <5> HIDE DEF n, x, t
        <5> QED
          BY <5>1, <5>2
      <4> QED
        BY <1>2, <2>2, <4>3
    <3> QED
      BY <3>1, <3>2
  <2>7. LockedBy(u) \subseteq LockedBy(t) \ {x}
    <3>1. CASE pc = "done"
      BY <2>4, <3>1, LockedByPc
    <3>2. CASE pc = "release"
      <4> HIDE DEF u, t, n, x, pc
      <4>1. LockedBy(u) = {t.bufs[j] : j \in n + 1 .. Len(t.bufs)}
        BY <2>4, <3>2, LockedByPc
      <4> QED
        BY <2>5, <2>6, <4>1
    <3>3. pc = "done" \/ pc = "release"
      OBVIOUS
    <3> QED
      BY <3>1, <3>2, <3>3
  <2>8. x \in LockedBy(t)
    BY <2>2, <2>5
  <2> HIDE DEF x, u, t
  <2>9. LockEffect(t, u)
    BY <2>2, <2>3, <2>7, <2>8 DEF LockEffect
  <2> QED
    BY <2>1, <2>4, <2>9 DEF t
<1> QED
  BY <1>4, <1>5, <1>6, <1>7 DEF FlushStep

\* Where the flush threads of the next state come from, and what they hold.
LEMMA ThreadsSame ==
    ASSUME UNCHANGED <<running, solo>>, NEW h, NEW x, ThreadHolds(h, x)'
    PROVE  ThreadHolds(h, x)
BY DEF ThreadHolds, Flushers, Flusher

LEMMA ThreadsAppend ==
    ASSUME IInv, NEW t \in FlushThread, LockedBy(t) = {},
           running' = Append(running, t), UNCHANGED solo, NEW h, NEW x, ThreadHolds(h, x)'
    PROVE  ThreadHolds(h, x)
<1>1. /\ Len(running') = Len(running) + 1
      /\ \A i \in 1 .. Len(running) : running'[i] = running[i]
      /\ running'[Len(running')] = t
      /\ Len(running) \in Nat
  BY RunningAppend DEF IInv, TypeOK, FlushTypeOK
<1>2. h \in 0 .. Len(running) + 1 /\ x \in LockedBy(IF h = 0 THEN solo ELSE running'[h])
  BY <1>1 DEF ThreadHolds, Flushers, Flusher
<1>3. h # Len(running) + 1
  BY <1>1, <1>2
<1> QED
  BY <1>1, <1>2, <1>3 DEF ThreadHolds, Flushers, Flusher

LEMMA ThreadsJoin ==
    ASSUME IInv, running # <<>>, running' = Tail(running), UNCHANGED solo,
           NEW h, NEW x, ThreadHolds(h, x)'
    PROVE  ThreadHolds(Shift(1, h), x)
<1>1. /\ Len(running') = Len(running) - 1
      /\ \A i \in 1 .. Len(running') : running'[i] = running[i + 1]
      /\ Len(running) \in Nat
  BY RunningTail DEF IInv, TypeOK, FlushTypeOK
<1>2. h \in 0 .. Len(running) - 1 /\ x \in LockedBy(IF h = 0 THEN solo ELSE running'[h])
  BY <1>1 DEF ThreadHolds, Flushers, Flusher
<1> QED
  BY <1>1, <1>2 DEF ThreadHolds, Flushers, Flusher, Shift

LEMMA ThreadsSolo ==
    ASSUME UNCHANGED running, LockedBy(solo') = {}, NEW h, NEW x, ThreadHolds(h, x)'
    PROVE  ThreadHolds(h, x)
BY DEF ThreadHolds, Flushers, Flusher

\* A flush thread preserves the invariant.
LEMMA FlushLockInv ==
    ASSUME IInv, BatchesConsecutive, LockInv, NEW i \in Flushers, TheFlusher(i)
    PROVE  LockInv'
<1>1. /\ SameContents /\ Len(running') = Len(running)
      /\ UNCHANGED <<nbuf, pool, main>>
  BY FlushKeepsThreads DEF poolVars, appVars
<1>2. \/ UNCHANGED <<running, solo, buf>>
      \/ \E u \in FlushThread :
            Advance(i, u) /\ u.bufs = Flusher(i).bufs /\ LockEffect(Flusher(i), u)
  BY FlushLocks DEF TheFlusher, LockInv
<1>3. \A y \in 1 .. nbuf : y \in Buffer
  BY MemoryBufferAssumption DEF Buffer, IInv, TypeOK, MemTypeOK
<1>4. \A y \in 1 .. nbuf' : Live(y)' => buf'[y].valid
  BY <1>1, <1>3 DEF SameContents, Live, LockInv
<1>5. i \in Holder
  BY DEF Flushers, Holder
<1>6. \A y \in Buffer : buf[y].lock \in Nat
  BY DEF IInv, TypeOK, MemTypeOK, MemoryBuffer
<1>7. CASE UNCHANGED <<running, solo, buf>>
  BY <1>1, <1>4, <1>7 DEF LockInv, LockAt, Holds, ThreadHolds, Flushers, Flusher
<1>8. ASSUME NEW u \in FlushThread, Advance(i, u), u.bufs = Flusher(i).bufs,
             LockEffect(Flusher(i), u)
      PROVE  LockInv'
  <2>1. /\ solo' = IF i = 0 THEN u ELSE solo
        /\ \A j \in 1 .. Len(running) : running'[j] = IF j = i THEN u ELSE running[j]
        /\ Len(running) \in Nat
    BY <1>8, AdvanceType DEF IInv, TypeOK, FlushTypeOK
  <2>2. Len(solo'.bufs) <= 1
    BY <1>8, <2>1 DEF Flusher, LockInv
  <2>3. ASSUME NEW x \in Buffer
        PROVE  LockAt(x)'
    <3>1. /\ \A h \in Holder : Holds(h, x)' => h = i \/ Holds(h, x)
          /\ Holds(i, x)' => x \in LockedBy(u)
          /\ Holds(i, x) <=> x \in LockedBy(Flusher(i))
      <4>1. ASSUME NEW h \in Holder, Holds(h, x)', h # i
            PROVE  Holds(h, x)
        BY <1>1, <2>1, <4>1 DEF Holds, ThreadHolds, Flushers, Flusher
      <4>2. i >= 0 /\ i \in 0 .. Len(running) /\ i # -1 /\ i # -2
        BY <2>1 DEF Flushers
      <4>3. Holds(i, x)' => x \in LockedBy(u)
        BY <2>1, <4>2 DEF Holds, ThreadHolds, Flusher
      <4>4. Holds(i, x) <=> x \in LockedBy(Flusher(i))
        BY <4>2 DEF Holds, ThreadHolds
      <4> QED
        BY <4>1, <4>3, <4>4
    <3>2. LockAt(x) /\ buf[x].lock \in Nat
      BY <1>6 DEF LockInv
    <3>3. \A h \in Holder : Shift(0, h) = h
      BY DEF Shift, Holder
    <3> HIDE DEF Holds, LockAt
    <3>4. CASE buf'[x].lock = buf[x].lock /\ (x \in LockedBy(u) => x \in LockedBy(Flusher(i)))
      <4>1. \A h \in Holder : Holds(h, x)' => Holds(Shift(0, h), x)
        BY <3>1, <3>3, <3>4
      <4> QED
        BY <1>5, <3>2, <3>4, <4>1, LockKept
    <3>5. CASE buf[x].lock > 0 /\ buf'[x].lock = buf[x].lock - 1
      BY <1>5, <3>1, <3>2, <3>5, LockKept
    <3>6. CASE /\ x \in LockedBy(Flusher(i)) /\ buf'[x].lock = buf[x].lock + 1
               /\ x \notin LockedBy(u)
      <4>1. Holds(i, x) /\ \A h \in Holder : Holds(h, x)' => h # i /\ Holds(h, x)
        BY <3>1, <3>6
      <4> QED
        BY <1>5, <3>2, <3>6, <4>1, LockKept
    <3> QED
      BY <1>8, <3>4, <3>5, <3>6 DEF LockEffect
  <2> QED
    BY <1>4, <2>2, <2>3 DEF LockInv
<1> QED
  BY <1>2, <1>7, <1>8
-----------------------------------------------------------------------------
(* The pooling thread *)

\* Whatever the pooling thread does, the threads it starts hold nothing and the
\* one it joins has given everything back.
LEMMA PoolThreads ==
    ASSUME IInv, NEW pushing, PoolStep(pushing)
    PROVE  \E s \in {0, 1} : \A h, x : ThreadHolds(h, x)' => ThreadHolds(Shift(s, h), x)
<1>1. UNCHANGED solo
  BY PoolContents
<1>2. ASSUME NEW h, NEW x, ThreadHolds(h, x)
      PROVE  Shift(0, h) = h
  BY <1>2 DEF ThreadHolds, Flushers, Shift, IInv, TypeOK, FlushTypeOK
<1>3. CASE UNCHANGED running
  BY <1>1, <1>2, <1>3, ThreadsSame
<1>4. ASSUME NEW t \in FlushThread, LockedBy(t) = {}, running' = Append(running, t)
      PROVE  \A h, x : ThreadHolds(h, x)' => ThreadHolds(Shift(0, h), x)
  BY <1>1, <1>2, <1>4, ThreadsAppend
<1>5. ASSUME NEW xs \in Seq(Buffer), StartFlush(xs)
      PROVE  \A h, x : ThreadHolds(h, x)' => ThreadHolds(Shift(0, h), x)
  <2> DEFINE t == FlushBuffersWithThread(xs)
  <2>1. t \in FlushThread /\ t.pc = "lock" /\ t.k = 0
    BY DEF FlushBuffersWithThread, FlushThread
  <2>2. LockedBy(t) = {}
    <3> HIDE DEF t
    <3>1. LockedBy(t) = {t.bufs[j] : j \in 1 .. 0}
      BY <2>1, LockedByPc
    <3> QED
      BY <3>1
  <2> QED
    BY <1>4, <1>5, <2>1, <2>2 DEF StartFlush
<1>6. batch \in Seq(Buffer)
  BY DEF IInv, TypeOK, PoolTypeOK
<1>7. CASE PoolFinish \/ PoolIdle \/ PoolSwitch
  BY <1>3, <1>5, <1>6, <1>7 DEF PoolFinish, PoolIdle, PoolSwitch
<1>8. CASE PoolSingle \/ PoolExtend
  <2> DEFINE x == pool.unit.buf
  <2>1. x \in Buffer
    BY <1>8 DEF PoolSingle, PoolExtend, IInv, References, PoolReferences, Unit
  <2>2. FlushBufferWithThread(x) \in FlushThread
    BY <2>1 DEF FlushBufferWithThread, FlushThread
  <2>3. LockedBy(FlushBufferWithThread(x)) = {}
    BY LockedByPc DEF FlushBufferWithThread
  <2>4. Append(batch, x) \in Seq(Buffer)
    BY <1>6, <2>1, AppendProperties
  <2> QED
    BY <1>3, <1>4, <1>5, <1>8, <2>2, <2>3, <2>4 DEF PoolSingle, PoolExtend
<1>9. CASE PoolJoin
  <2>1. running # <<>>
    BY <1>9 DEF PoolJoin, IInv, References, PoolReferences
  <2> QED
    BY <1>1, <1>9, <2>1, ThreadsJoin DEF PoolJoin
<1> QED
  BY <1>3, <1>7, <1>8, <1>9
     DEF PoolStep, PoolFront, PoolPop, PoolCheck, PoolDrop, PoolBegin, PoolWait

\* The pooling thread preserves the invariant.
LEMMA PoolLockInv ==
    ASSUME IInv, LockInv, NEW pushing, PoolStep(pushing), UNCHANGED appVars
    PROVE  LockInv'
<1>1. SameContents /\ UNCHANGED <<nbuf, solo, main>>
  BY PoolContents DEF appVars
<1>2. /\ \A y \in 1 .. nbuf : y \in Buffer
      /\ \A y \in Buffer : buf[y] \in MemoryBuffer /\ buf[y].lock \in Nat
      /\ buf \in [Buffer -> MemoryBuffer]
      /\ pool \in [pc: {"top", "pop", "check", "lock", "begin", "join", "done"},
                   unit: Unit \union {NoUnit}]
  BY MemoryBufferAssumption DEF Buffer, IInv, TypeOK, MemTypeOK, MemoryBuffer, PoolTypeOK
<1>3. \A y \in 1 .. nbuf' : Live(y)' => buf'[y].valid
  BY <1>1, <1>2 DEF SameContents, Live, LockInv
<1>4. Len(solo'.bufs) <= 1
  BY <1>1 DEF LockInv
<1>5. PICK s \in {0, 1} : \A h, x : ThreadHolds(h, x)' => ThreadHolds(Shift(s, h), x)
  BY PoolThreads
<1> DEFINE z == pool.unit.buf
<1>6. ASSUME NEW x \in Buffer
      PROVE  LockAt(x)'
  <2>1. LockAt(x) /\ buf[x].lock \in Nat /\ -2 \in Holder
    BY <1>2 DEF LockInv, Holder
  <2>2. /\ \A h \in Holder : Holds(h, x)' => h = -2 \/ Holds(Shift(s, h), x)
        /\ \A h \in Holder : Holds(h, x)' /\ pool'.pc # "begin" => h # -2
        /\ Shift(s, -2) = -2
    <3>1. \A h : ThreadHolds(h, x) => h \in Nat
      BY DEF ThreadHolds, Flushers, IInv, TypeOK, FlushTypeOK
    <3>2. \A h : ThreadHolds(h, x)' => h \in Nat
      BY <1>5, <3>1 DEF ThreadHolds, Flushers
    <3>3. Shift(s, -2) = -2 /\ Shift(s, -1) = -1
      BY DEF Shift
    <3>4. ASSUME NEW h \in Holder, Holds(h, x)', h # -2
          PROVE  Holds(Shift(s, h), x)
      BY <1>1, <1>5, <3>3, <3>4 DEF Holds
    <3>5. ASSUME NEW h \in Holder, Holds(h, x)', pool'.pc # "begin"
          PROVE  h # -2
      BY <3>2, <3>5 DEF Holds
    <3> QED
      BY <3>3, <3>4, <3>5
  <2>3. CASE PoolSwitch
    <3>1. /\ z \in Buffer /\ buf[z].lock > 0 /\ buf'[z].lock = buf[z].lock - 1
          /\ \A y \in Buffer : y # z => buf'[y].lock = buf[y].lock
      <4>1. z \in Buffer
        BY <2>3 DEF PoolSwitch, IInv, References, PoolReferences, Unit
      <4> QED
        BY <1>2, <2>3, <4>1 DEF PoolSwitch, Assign, Unlocked, MemoryBuffer
    <3>2. Holds(-2, x)' => x = z
      <4>1. pool'.unit = pool.unit
        BY <1>2, <2>3 DEF PoolSwitch, Goto
      <4>2. ~ThreadHolds(-2, x)'
        BY <1>5 DEF ThreadHolds, Flushers
      <4> QED
        BY <4>1, <4>2 DEF Holds
    <3>3. CASE x = z
      <4>1. \A h \in Holder : Holds(h, x) => FALSE
        BY <2>1, <3>1, <3>3 DEF LockAt
      <4>2. \A h \in Holder : Shift(s, h) \in Holder
        BY DEF Shift, Holder
      <4>3. \A h \in Holder : Holds(h, x)' => h = -2 \/ Holds(h, x)
        BY <2>2, <4>1, <4>2
      <4> HIDE DEF Holds, LockAt
      <4> QED
        BY <2>1, <3>1, <3>3, <4>3, LockKept
    <3>4. CASE x # z
      <4>1. \A h \in Holder : Holds(h, x)' => Holds(Shift(s, h), x)
        BY <2>2, <3>2, <3>4
      <4> HIDE DEF Holds, LockAt
      <4> QED
        BY <2>1, <3>1, <3>4, <4>1, LockKept
    <3> QED
      BY <3>3, <3>4
  <2>4. CASE PoolBegin
    <3>1. /\ z \in Buffer /\ buf'[z].lock = buf[z].lock + 1
          /\ \A y \in Buffer : y # z => buf'[y].lock = buf[y].lock
          /\ pool.pc = "begin" /\ pool'.pc = "top"
      <4>1. z \in Buffer
        BY <2>4 DEF PoolBegin, IInv, References, PoolReferences, Unit
      <4> QED
        BY <1>2, <2>4, <4>1 DEF PoolBegin, Request, Assign, GoTop, MemoryBuffer
    <3>2. \A h \in Holder : Holds(h, x)' => Holds(Shift(s, h), x) /\ h # -2
      BY <2>2, <3>1
    <3>3. CASE x = z
      <4>1. Holds(-2, x)
        BY <3>1, <3>3 DEF Holds
      <4>2. \A h \in Holder : Shift(s, h) \in Holder /\ (Shift(s, h) = -2 => h = -2)
        BY DEF Shift, Holder
      <4>3. \A h \in Holder : Holds(h, x)' => h # -2 /\ Holds(h, x)
        BY <2>1, <3>2, <4>1, <4>2 DEF LockAt
      <4> HIDE DEF Holds, LockAt
      <4> QED
        BY <2>1, <3>1, <3>3, <4>1, <4>3, LockKept
    <3>4. CASE x # z
      <4> HIDE DEF Holds, LockAt
      <4> QED
        BY <2>1, <3>1, <3>2, <3>4, LockKept
    <3> QED
      BY <3>3, <3>4
  <2>5. CASE ~PoolSwitch /\ ~PoolBegin
    <3>1. pool'.pc # "begin"
      BY <1>2, <2>5 DEF PoolStep, PoolFinish, PoolIdle, PoolFront, PoolPop, PoolCheck,
         PoolSingle, PoolExtend, PoolDrop, PoolWait, PoolJoin, Goto, GoTop
    <3>2. buf'[x].lock = buf[x].lock
      <4>1. CASE PoolSingle \/ PoolExtend
        <5>1. z \in Buffer /\ Request(z, buf[z].lock)
          BY <4>1 DEF PoolSingle, PoolExtend, IInv, References, PoolReferences, Unit
        <5> QED
          BY <1>2, <5>1 DEF Request, Assign, MemoryBuffer
      <4>2. CASE UNCHANGED buf
        BY <4>2
      <4> QED
        BY <2>5, <4>1, <4>2 DEF PoolStep, PoolFinish, PoolIdle, PoolFront, PoolPop,
           PoolCheck, PoolDrop, PoolWait, PoolJoin, memVars
    <3>3. \A h \in Holder : Holds(h, x)' => Holds(Shift(s, h), x)
      BY <2>2, <3>1
    <3> HIDE DEF Holds, LockAt
    <3> QED
      BY <2>1, <3>2, <3>3, LockKept
  <2> QED
    BY <2>3, <2>4, <2>5
<1> QED
  BY <1>3, <1>4, <1>6 DEF LockInv
-----------------------------------------------------------------------------
(* The application's thread *)

\* Its steps start no thread of the pool and leave the pooling thread in place;
\* the eviction's thread holds no lock for longer than a step.
LEMMA AppThreads ==
    ASSUME IInv, AppCall \/ AppStep
    PROVE  /\ UNCHANGED pool
           /\ \E s \in {0, 1} : \A h, x : ThreadHolds(h, x)' => ThreadHolds(Shift(s, h), x)
<1>1. UNCHANGED pool
  BY DEF AppCall, Close, OsRead, OsWrite, Begin, AppStep, ReadHit, WriteLock, WriteUnlock,
     Put, Push, FindVictim, WaitNotBusy, WaitNoRequests, Inspect, Requeue, Join, WaitClean, Free,
     Destroy, JoinPool, JoinAll, poolVars
<1>2. ASSUME NEW h, NEW x, ThreadHolds(h, x)
      PROVE  Shift(0, h) = h
  BY <1>2 DEF ThreadHolds, Flushers, Shift, IInv, TypeOK, FlushTypeOK
<1>3. CASE UNCHANGED <<running, solo>>
  BY <1>1, <1>2, <1>3, ThreadsSame
<1>4. CASE JoinAll
  BY <1>1, <1>3, <1>4, ThreadsJoin DEF JoinAll
<1>5. CASE UNCHANGED running /\ solo'.pc \in {"check", "done"}
  <2>1. LockedBy(solo') = {}
    BY <1>5, LockedByPc
  <2> QED
    BY <1>1, <1>2, <1>5, <2>1, ThreadsSolo
<1>6. CASE Inspect \/ Join
  BY <1>3, <1>5, <1>6 DEF Inspect, Join, FlushBufferWithThread, NoThread
<1> QED
  BY <1>3, <1>4, <1>6
     DEF AppCall, Close, OsRead, OsWrite, Begin, AppStep, ReadHit, WriteLock, WriteUnlock,
     Put, Push, FindVictim, WaitNotBusy, WaitNoRequests, Requeue, WaitClean, Free, Destroy, JoinPool

\* The holders of a lock stay those they were, as long as the application is
\* not one of them.
LEMMA AppHolders ==
    ASSUME IInv, AppCall \/ AppStep
    PROVE  \E s \in {0, 1} : \A h \in Holder, x \in Buffer :
              Holds(h, x)' => \/ Holds(Shift(s, h), x)
                              \/ h = -1 /\ main'.pc = "wdone" /\ main'.buf = x
<1>1. UNCHANGED pool
  BY AppThreads
<1>2. PICK s \in {0, 1} : \A h, x : ThreadHolds(h, x)' => ThreadHolds(Shift(s, h), x)
  BY AppThreads
<1>3. Shift(s, -2) = -2
  BY DEF Shift
<1> QED
  BY <1>1, <1>2, <1>3 DEF Holds

\* No thread, and not the pooling thread, holds the lock of a buffer that has
\* just been allocated.
LEMMA FreshUnheld ==
    ASSUME IInv, NEW h \in Holder, Holds(h, nbuf + 1)
    PROVE  FALSE
<1>1. nbuf \in Nat
  BY DEF IInv, TypeOK, MemTypeOK
<1>2. ~(pool.pc = "begin" /\ pool.unit.buf = nbuf + 1)
  BY <1>1 DEF IInv, References, PoolReferences
<1>3. ~(main.pc = "wdone" /\ main.buf = nbuf + 1)
  BY <1>1 DEF IInv, References, AppReferences
<1>4. ASSUME ThreadHolds(h, nbuf + 1)
      PROVE  FALSE
  <2> DEFINE t == Flusher(h)
  <2>1. h \in Flushers /\ nbuf + 1 \in LockedBy(t)
    BY <1>4 DEF ThreadHolds
  <2>2. t \in FlushThread /\ ThreadInside(t)
    BY <2>1, FlusherType, ElementOfSeq
       DEF IInv, TypeOK, References, FlushReferences, Flusher, Flushers, FlushTypeOK
  <2>3. t.k \in Nat /\ Len(t.bufs) \in Nat
    BY <2>2 DEF FlushThread
  <2> HIDE DEF t
  <2>4. \E j \in 1 .. Len(t.bufs) : t.bufs[j] = nbuf + 1
    <3>1. t.pc = "lock" => t.k < Len(t.bufs)
      BY <2>2 DEF ThreadInside
    <3>2. t.pc \in {"check", "sync", "lock", "write", "release", "done"}
      BY <2>2 DEF FlushThread
    <3>3. CASE t.pc = "lock"
      <4>1. LockedBy(t) = {t.bufs[j] : j \in 1 .. t.k}
        BY <3>3, LockedByPc
      <4> QED
        BY <2>1, <2>3, <3>1, <3>3, <4>1
    <3>4. CASE t.pc = "write"
      BY <2>1, <3>4, LockedByPc
    <3>5. CASE t.pc = "release"
      <4>1. LockedBy(t) = {t.bufs[j] : j \in t.k + 1 .. Len(t.bufs)}
        BY <3>5, LockedByPc
      <4> QED
        BY <2>1, <2>3, <4>1
    <3> QED
      BY <2>1, <3>2, <3>3, <3>4, <3>5, LockedByPc
  <2> QED
    BY <1>1, <2>2, <2>4 DEF ThreadInside
<1> QED
  BY <1>2, <1>3, <1>4 DEF Holds

\* What a step of the application does to the lock of x, if it is in hand: s
\* shifts the threads when closing has joined one of them.
LEMMA AppLocks ==
    ASSUME IInv, LockInv, AppCall \/ AppStep, NEW x \in Buffer
    PROVE  LockAt(x)'
<1>1. PICK s \in {0, 1} : \A h \in Holder : 
         Holds(h, x)' => \/ Holds(Shift(s, h), x)
                         \/ h = -1 /\ main'.pc = "wdone" /\ main'.buf = x
  BY AppHolders
<1>2. /\ LockAt(x) /\ buf[x].lock \in Nat /\ -1 \in Holder
      /\ \A y \in Buffer : buf[y] \in MemoryBuffer /\ buf[y].lock \in Nat
      /\ buf \in [Buffer -> MemoryBuffer]
      /\ \A y \in 1 .. nbuf : y \in Buffer
  BY MemoryBufferAssumption DEF LockInv, Holder, Buffer, IInv, TypeOK, MemTypeOK, MemoryBuffer
<1>3. /\ \A h \in Holder : Shift(s, h) \in Holder
      /\ \A h \in Holder : Shift(0, h) = h
      /\ \A h \in Holder : h # -1 => Shift(s, h) # -1
      /\ Shift(s, -1) = -1
  BY DEF Shift, Holder
<1>4. CASE buf'[x].lock = buf[x].lock /\ ~(main'.pc = "wdone" /\ main'.buf = x)
  <2> HIDE DEF Holds, LockAt
  <2> QED
    BY <1>1, <1>2, <1>4, LockKept
<1>5. ASSUME NEW op, NEW b, NEW d, Begin(op, b, d)
      PROVE  LockAt(x)'
  <2>1. main'.pc # "wdone"
    BY <1>5 DEF Begin
  <2>2. CASE x = nbuf + 1 /\ buf'[x].lock = 1
    <3>1. \A h \in Holder : ~Holds(h, x)
      BY <2>2, FreshUnheld
    <3>2. \A h \in Holder : ~Holds(h, x)'
      BY <1>1, <1>3, <2>1, <3>1
    <3>3. buf'[x].lock <= 1
      BY <2>2
    <3> HIDE DEF Holds, LockAt
    <3> QED
      BY <1>2, <3>2, <3>3, LockKept
  <2>3. CASE buf'[x].lock = buf[x].lock
    BY <1>4, <2>1, <2>3
  <2> QED
    BY <1>2, <1>5, <2>2, <2>3 DEF Begin, CreateNewMemoryBuffer
<1>6. CASE WriteLock
  <2> DEFINE y == main.buf
  <2>1. /\ y \in Buffer /\ y \in 1 .. nbuf /\ Live(y) /\ main.pc = "wlock"
        /\ main'.pc = "wdone" /\ main'.buf = y
    BY <1>2, <1>6 DEF WriteLock, At, AppGoto, IInv, TypeOK, MemTypeOK, AppTypeOK, References,
       AppReferences, Cached, Buffer, Evicting
  <2>2. buf[y].valid /\ buf[y].lock > 0
    BY <1>6, <2>1 DEF WriteLock, Unlocked, LockInv
  <2>3. /\ buf'[y].lock = buf[y].lock - 1
        /\ \A w \in Buffer : w # y => buf'[w].lock = buf[w].lock
    BY <1>2, <1>6, <2>1, <2>2 DEF WriteLock, Assign, MemoryBuffer
  <2>4. CASE x = y
    <3>1. \A h \in Holder : ~Holds(h, x)
      BY <1>2, <2>2, <2>4 DEF LockAt
    <3>2. \A h \in Holder : Holds(h, x)' => h = -1 \/ Holds(h, x)
      BY <1>1, <1>3, <3>1
    <3> HIDE DEF Holds, LockAt
    <3> QED
      BY <1>2, <2>2, <2>3, <2>4, <3>2, LockKept
  <2>5. CASE x # y
    BY <1>4, <2>1, <2>3, <2>5
  <2> QED
    BY <2>4, <2>5
<1>7. CASE WriteUnlock
  <2> DEFINE y == main.buf
  <2>1. y \in Buffer /\ main.pc = "wdone" /\ main'.pc = "push"
    BY <1>7 DEF WriteUnlock, At, AppGoto, IInv, TypeOK, AppTypeOK, References,
       AppReferences, Cached
  <2>2. /\ buf'[y].lock = buf[y].lock + 1
        /\ \A w \in Buffer : w # y => buf'[w].lock = buf[w].lock
    BY <1>2, <1>7, <2>1 DEF WriteUnlock, Assign, MemoryBuffer
  <2>3. CASE x = y
    <3>1. Holds(-1, x)
      BY <2>1, <2>3 DEF Holds
    <3>2. \A h \in Holder : Holds(h, x)' => h # -1 /\ Holds(h, x)
      <4>1. \A h \in Holder : Holds(h, x)' => h # -1
        <5>1. ~ThreadHolds(-1, x)'
          BY DEF ThreadHolds, Flushers
        <5> QED
          BY <2>1, <5>1 DEF Holds
      <4>2. ASSUME NEW h \in Holder, Holds(h, x)'
            PROVE  FALSE
        <5>1. Holds(Shift(s, h), x) /\ h # -1
          BY <1>1, <2>1, <4>1, <4>2
        <5> QED
          BY <1>2, <1>3, <3>1, <5>1 DEF LockAt
      <4> QED
        BY <4>2
    <3> HIDE DEF Holds, LockAt
    <3> QED
      BY <1>2, <2>2, <2>3, <3>1, <3>2, LockKept
  <2>4. CASE x # y
    BY <1>4, <2>1, <2>2, <2>4
  <2> QED
    BY <2>3, <2>4
<1>8. CASE Inspect \/ Join \/ Free
  <2> DEFINE y == main.victim
  <2>1. y \in Buffer /\ main'.pc # "wdone"
    BY <1>8, VictimCached
       DEF Inspect, Join, Free, At, AppGoto, Deleting, Evicting, IInv, TypeOK, AppTypeOK
  <2>2. buf'[x].lock = buf[x].lock
    <3>1. ASSUME NEW r, Assign(y, r), r.lock = buf[y].lock
          PROVE  buf'[x].lock = buf[x].lock
      BY <1>2, <2>1, <3>1 DEF Assign
    <3>2. /\ [buf[y] EXCEPT !.busy = TRUE].lock = buf[y].lock
          /\ [buf[y] EXCEPT !.busy = FALSE].lock = buf[y].lock
          /\ [buf[y] EXCEPT !.valid = FALSE, !.data = NULL].lock = buf[y].lock
      BY <1>2, <2>1 DEF MemoryBuffer
    <3>3. CASE UNCHANGED buf
      BY <3>3
    <3> QED
      BY <1>8, <3>1, <3>2, <3>3 DEF Inspect, Join, Free
  <2> QED
    BY <1>4, <2>1, <2>2
<1>9. CASE Destroy
  <2> DEFINE y == main.victim
  <2>1. /\ y \in Buffer /\ main'.pc = "put" /\ UNCHANGED <<running, solo, pool>>
        /\ main.pc = "destroy"
    BY <1>9, VictimCached
       DEF Destroy, At, Deleting, Evicting, IInv, TypeOK, AppTypeOK, poolVars
  <2>2. /\ buf'[y].lock = 0
        /\ \A w \in Buffer : w # y => buf'[w].lock = buf[w].lock
    BY <1>2, <1>9, <2>1 DEF Destroy, Assign, MemoryBuffer
  <2>3. CASE x = y
    <3>1. \A h \in Holder : Holds(h, x)' => Holds(h, x)
      BY <2>1, ThreadsSame DEF Holds
    <3> HIDE DEF Holds, LockAt
    <3> QED
      BY <1>2, <2>2, <2>3, <3>1, LockKept
  <2>4. CASE x # y
    BY <1>4, <2>1, <2>2, <2>4
  <2> QED
    BY <2>3, <2>4
<1>10. CASE Close
  BY <1>4, <1>10 DEF Close, At, AppGoto, memVars, IInv, TypeOK, AppTypeOK
<1>11. CASE /\ AppStep
            /\ ~(WriteLock \/ WriteUnlock \/ Inspect \/ Join \/ Free \/ Destroy)
  <2>1. UNCHANGED buf
    BY <1>11 DEF AppStep, ReadHit, Put, Push, FindVictim, WaitNotBusy, WaitNoRequests,
       Requeue, WaitClean, JoinPool, JoinAll, memVars
  <2>2. main'.pc # "wdone"
    BY <1>11 DEF AppStep, ReadHit, Put, Push, FindVictim, WaitNotBusy, WaitNoRequests,
       Requeue, WaitClean, JoinPool, JoinAll, At, AppGoto, IInv, TypeOK, AppTypeOK
  <2> QED
    BY <1>4, <2>1, <2>2
<1> QED
  BY <1>5, <1>6, <1>7, <1>8, <1>9, <1>10, <1>11 DEF AppCall, OsRead, OsWrite

\* A buffer that has its bytes is valid: os_write never re-initialises the
\* semaphore of a buffer somebody may be waiting for.
LEMMA AppLockInv ==
    ASSUME IInv, LockInv, AppCall \/ AppStep
    PROVE  LockInv'
<1>1. \A x \in Buffer : LockAt(x)'
  BY AppLocks
<1>2. /\ nbuf \in Nat /\ buf \in [Buffer -> MemoryBuffer]
      /\ \A y \in 1 .. nbuf : y \in Buffer /\ y # nbuf + 1 /\ (Live(y) => buf[y].valid)
  BY MemoryBufferAssumption DEF LockInv, Buffer, IInv, TypeOK, MemTypeOK
<1>3. \A y \in 1 .. nbuf' : Live(y)' => buf'[y].valid
  <2>1. CASE UNCHANGED <<buf, nbuf>>
    BY <1>2, <2>1 DEF Live
  <2>2. ASSUME NEW op, NEW b, NEW d, Begin(op, b, d)
        PROVE  \A y \in 1 .. nbuf' : Live(y)' => buf'[y].valid
    <3>1. CASE UNCHANGED <<buf, nbuf>>
      BY <2>1, <3>1
    <3>2. CASE CreateNewMemoryBuffer(b, d, op = "write")
      <4>1. /\ nbuf' = nbuf + 1
            /\ nbuf + 1 \in Buffer /\ buf'[nbuf + 1].valid
            /\ \A y \in 1 .. nbuf : buf'[y] = buf[y]
        BY <1>2, <3>2, MemoryBufferAssumption DEF CreateNewMemoryBuffer, Buffer
      <4>2. \A y \in 1 .. nbuf' : y = nbuf + 1 \/ y \in 1 .. nbuf
        BY <1>2, <4>1
      <4> QED
        BY <1>2, <4>1, <4>2 DEF Live
    <3> QED
      BY <2>2, <3>1, <3>2 DEF Begin
  <2>3. ASSUME NEW z \in Buffer, NEW r, Assign(z, r), UNCHANGED nbuf,
               r.valid \/ r.data = NULL \/ (r.valid = buf[z].valid /\ r.data = buf[z].data)
        PROVE  \A y \in 1 .. nbuf' : Live(y)' => buf'[y].valid
    BY <1>2, <2>3 DEF Assign, Live
  <2>4. CASE WriteLock \/ WriteUnlock
    <3> DEFINE x == main.buf
    <3>1. /\ x \in Buffer /\ x \in 1 .. nbuf /\ Live(x) /\ buf[x] \in MemoryBuffer
      BY <1>2, <2>4 DEF WriteLock, WriteUnlock, At, IInv, TypeOK, MemTypeOK, AppTypeOK,
         References, AppReferences, Cached, Buffer, Evicting
    <3>2. buf[x].valid
      BY <1>2, <3>1
    <3>3. \E r : Assign(x, r) /\ r.valid
      <4>1. CASE WriteLock
        <5> DEFINE r == [buf[x] EXCEPT !.lock = IF buf[x].valid THEN @ - 1 ELSE 0,
                                       !.busy = TRUE,
                                       !.data = main.data]
        <5>1. r.valid
          <6> HIDE DEF x
          <6> QED
            BY <3>1, <3>2 DEF MemoryBuffer
        <5>2. Assign(x, r)
          BY <4>1 DEF WriteLock
        <5> QED
          BY <5>1, <5>2
      <4>2. CASE WriteUnlock
        <5> DEFINE r == [buf[x] EXCEPT !.valid = TRUE, !.dirty = TRUE,
                                       !.busy = FALSE, !.lock = @ + 1]
        <5>1. r.valid
          <6> HIDE DEF x
          <6> QED
            BY <3>1 DEF MemoryBuffer
        <5>2. Assign(x, r)
          BY <4>2 DEF WriteUnlock
        <5> QED
          BY <5>1, <5>2
      <4> QED
        BY <2>4, <4>1, <4>2
    <3> QED
      BY <2>3, <2>4, <3>1, <3>3 DEF WriteLock, WriteUnlock
  <2>5. CASE Inspect \/ Join \/ Free \/ Destroy
    <3> DEFINE x == main.victim
    <3>1. x \in Buffer /\ buf[x] \in MemoryBuffer
      BY <1>2, <2>5, VictimCached
         DEF Inspect, Join, Free, Destroy, At, Deleting, Evicting
    <3>2. /\ [buf[x] EXCEPT !.busy = TRUE].valid = buf[x].valid
          /\ [buf[x] EXCEPT !.busy = TRUE].data = buf[x].data
          /\ [buf[x] EXCEPT !.busy = FALSE].valid = buf[x].valid
          /\ [buf[x] EXCEPT !.busy = FALSE].data = buf[x].data
          /\ [buf[x] EXCEPT !.valid = FALSE, !.data = NULL].data = NULL
          /\ [buf[x] EXCEPT !.lock = 0].valid = buf[x].valid
          /\ [buf[x] EXCEPT !.lock = 0].data = buf[x].data
      BY <3>1 DEF MemoryBuffer
    <3> QED
      BY <2>1, <2>3, <2>5, <3>1, <3>2 DEF Inspect, Join, Free, Destroy
  <2> QED
    BY <2>1, <2>2, <2>4, <2>5 DEF AppCall, Close, OsRead, OsWrite, AppStep, ReadHit, Put,
       Push, FindVictim, WaitNotBusy, WaitNoRequests, Requeue, WaitClean, JoinPool, JoinAll, memVars
<1>4. Len(solo'.bufs) <= 1
  <2>1. CASE UNCHANGED solo
    BY <2>1 DEF LockInv
  <2>2. CASE Inspect \/ Join
    <3>1. Len(NoThread.bufs) = 0
      BY DEF NoThread
    <3>2. \/ UNCHANGED solo
          \/ solo' = FlushBufferWithThread(main.victim)
          \/ solo' = NoThread
      BY <2>2 DEF Inspect, Join
    <3>3. Len(solo.bufs) <= 1
      BY DEF LockInv
    <3>4. CASE UNCHANGED solo
      BY <3>3, <3>4
    <3>5. CASE solo' = FlushBufferWithThread(main.victim)
      <4>1. Len(solo'.bufs) = 1
        BY <3>5 DEF FlushBufferWithThread
      <4> QED
        BY <4>1
    <3>6. CASE solo' = NoThread
      BY <3>1, <3>6
    <3> QED
      BY <3>2, <3>4, <3>5, <3>6
  <2> QED
    BY <2>1, <2>2 DEF AppCall, Close, OsRead, OsWrite, Begin, AppStep, ReadHit, WriteLock,
       WriteUnlock, Put, Push, FindVictim, WaitNotBusy, WaitNoRequests, Requeue, WaitClean, Free,
       Destroy, JoinPool, JoinAll
<1> QED
  BY <1>1, <1>3, <1>4 DEF LockInv
-----------------------------------------------------------------------------
(* The theorems *)

\* LockInv holds at the start and is preserved by every step.
LEMMA InitLockInv == Init => LockInv
<1> SUFFICES ASSUME Init PROVE LockInv
  OBVIOUS
<1> USE DEF Init, MemInit, FlushInit, PoolInit
<1>1. Flushers = {0} /\ Flusher(0) = solo /\ solo.pc = "done" /\ Len(solo.bufs) = 0
  BY EmptySeq DEF Flushers, Flusher, NoThread
<1>2. LockedBy(solo) = {}
  BY <1>1, LockedByPc
<1>3. \A h, x : ~Holds(h, x)
  BY <1>1, <1>2 DEF Holds, ThreadHolds
<1>4. \A x \in Buffer : buf[x].lock <= 1
  BY DEF Unallocated
<1> QED
  BY <1>1, <1>3, <1>4 DEF LockInv, LockAt

LEMMA NextLockInv ==
    IInv /\ BatchesConsecutive /\ LockInv /\ [Next]_vars => LockInv'
<1> SUFFICES ASSUME IInv, BatchesConsecutive, LockInv, [Next]_vars PROVE LockInv'
  OBVIOUS
<1>1. CASE UNCHANGED vars
  <2>1. UNCHANGED <<buf, nbuf, running, solo, pool, main>>
    BY <1>1 DEF vars, memVars, poolVars, appVars
  <2> QED
    BY <2>1 DEF LockInv, LockAt, Live, Holds, ThreadHolds, Flushers, Flusher
<1>2. CASE ThePool
  BY <1>2, PoolLockInv DEF ThePool
<1> QED
  BY <1>1, <1>2, AppLockInv, FlushLockInv DEF Next, Stopped

\* A step that changes the bytes of a buffer is a write to it, its eviction or
\* its allocation, and each of them excludes a flush thread.
LEMMA NextNoOverwrite ==
    ASSUME IInv, LockInv, [Next]_vars, NEW x \in Buffer, buf'[x].data # buf[x].data,
           NEW i \in Flushers, x \in LockedBy(Flusher(i))
    PROVE  FALSE
<1>1. Holds(i, x) /\ i \in Holder
  BY DEF Holds, ThreadHolds, Holder, Flushers
<1>2. buf[x].lock = 0 /\ i # -1 /\ i # -2
  BY <1>1 DEF LockInv, LockAt, Flushers
<1>3. /\ buf \in [Buffer -> MemoryBuffer]
      /\ \A y \in Buffer : buf[y] \in MemoryBuffer
  BY DEF IInv, TypeOK, MemTypeOK
<1>4. CASE UNCHANGED buf
  BY <1>4
<1>5. ASSUME NEW y \in Buffer, NEW r, Assign(y, r), r.data = buf[y].data
      PROVE  FALSE
  BY <1>3, <1>5 DEF Assign
<1>6. ASSUME NEW y \in Buffer, NEW r, Assign(y, r), buf[y].lock > 0
      PROVE  FALSE
  BY <1>2, <1>3, <1>6 DEF Assign
<1>7. CASE ThePool
  BY <1>7, PoolContents DEF ThePool, SameContents
<1>8. ASSUME NEW h \in Flushers, TheFlusher(h)
      PROVE  FALSE
  BY <1>8, FlushKeepsThreads DEF SameContents
<1>9. ASSUME NEW op, NEW b, NEW d, Begin(op, b, d)
      PROVE  FALSE
  <2>1. x = nbuf + 1
    BY <1>3, <1>9 DEF Begin, CreateNewMemoryBuffer
  <2> QED
    BY <1>1, <2>1, FreshUnheld
<1>10. CASE WriteLock
  <2>1. main.buf \in Buffer /\ main.buf \in 1 .. nbuf /\ Live(main.buf)
    BY <1>10, MemoryBufferAssumption
       DEF WriteLock, At, IInv, TypeOK, MemTypeOK, AppTypeOK, References, AppReferences,
           Cached, Buffer, Evicting
  <2>2. buf[main.buf].lock > 0
    BY <1>10, <2>1 DEF WriteLock, Unlocked, LockInv
  <2> QED
    BY <1>6, <1>10, <2>1, <2>2 DEF WriteLock
<1>11. CASE WriteUnlock
  <2>1. main.buf \in Buffer
    BY <1>11 DEF WriteUnlock, At, IInv, TypeOK, AppTypeOK, References, AppReferences, Cached
  <2> QED
    BY <1>3, <1>5, <1>11, <2>1 DEF WriteUnlock, MemoryBuffer
<1>12. CASE Inspect \/ Join \/ Free \/ Destroy
  <2> DEFINE y == main.victim
  <2>1. y \in Buffer
    BY <1>12, VictimCached DEF Inspect, Join, Free, Destroy, At, Deleting, Evicting
  <2>2. /\ [buf[y] EXCEPT !.busy = TRUE].data = buf[y].data
        /\ [buf[y] EXCEPT !.busy = FALSE].data = buf[y].data
        /\ [buf[y] EXCEPT !.lock = 0].data = buf[y].data
    BY <1>3, <2>1 DEF MemoryBuffer
  <2>3. CASE Free
    BY <1>6, <2>1, <2>3 DEF Free, Unlocked
  <2> QED
    BY <1>4, <1>5, <1>12, <2>1, <2>2, <2>3 DEF Inspect, Join, Destroy
<1> QED
  BY <1>4, <1>7, <1>8, <1>9, <1>10, <1>11, <1>12
     DEF Next, Stopped, AppCall, Close, OsRead, OsWrite, AppStep, ReadHit, Put, Push,
         FindVictim, WaitNotBusy, WaitNoRequests, Requeue, WaitClean, JoinPool, JoinAll, vars, memVars

LEMMA LockInvAlways == Spec => []LockInv
BY IInvAlways, BatchesHold, InitLockInv, NextLockInv, PTL DEF Spec

\* At most one thread has the write_lock of a buffer at any time, through
\* evictions that zero it and batches that take several of them (semaphore
\* write_lock of memory_buffer_structures.h).
THEOREM LocksExclude == Spec => []WriteLockExcludes
<1>1. IInv /\ LockInv => WriteLockExcludes
  <2>1. IInv => \A h \in Flushers \union {-1, -2} : h \in Holder
    BY DEF Flushers, Holder
  <2> QED
    BY <2>1 DEF LockInv, LockAt, WriteLockExcludes
<1> QED
  BY IInvAlways, LockInvAlways, <1>1, PTL

\* While a flush thread has the write_lock of a buffer nobody changes or frees
\* its bytes: what the thread copies to the disk is what it locked
\* (README.md:65, disk_write.c write2DiskMultiple2).
THEOREM NoOverwrite == Spec => NoOverwriteWhileFlushing
<1>1. IInv /\ LockInv /\ [Next]_vars =>
        [\A x \in Buffer :
            buf'[x].data # buf[x].data =>
                \A i \in Flushers : x \notin LockedBy(Flusher(i))]_vars
  BY NextNoOverwrite
<1> QED
  BY IInvAlways, LockInvAlways, <1>1, PTL DEF Spec, NoOverwriteWhileFlushing
=============================================================================
