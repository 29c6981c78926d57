---------------------------- MODULE FlushThread -----------------------------
(***************************************************************************)
(* Flush threads: the threads that copy buffers to the disk                *)
(* (delayed_write/flush_thread.c starts them, delayed_write/disk_write.c   *)
(* is what they run).  A thread is a record of its batch and of the place  *)
(* it has reached.  The threads the pool starts are queued in running, in  *)
(* the order in which they are joined; solo is the one thread an eviction  *)
(* starts and joins at once.                                               *)
(*                                                                         *)
(* MmapRW selects the build (USE_MMAP_RW): with it the disk is memory and  *)
(* a write cannot fail, without it pwrite can.                             *)
(***************************************************************************)
EXTENDS MemoryBuffer

CONSTANT MmapRW

ASSUME FlushThreadAssumption == MmapRW \in BOOLEAN

VARIABLES
    running,      \* running_queue: the pool's flush threads, oldest first
    solo          \* the flush thread deleteMemoryBuffer waits for

\* multi: runs write2DiskMultiple2 on bufs, else write2Disk2 on one buffer.
\* k: locks taken (pc = "lock") or given back (pc = "release") so far.
\* ok: the write to the disk succeeded.
FlushThread == [multi: BOOLEAN, bufs: Seq(Buffer),
                pc: {"check", "sync", "lock", "write", "release", "done"},
                k: Nat, ok: BOOLEAN]

FlushTypeOK ==
    /\ running \in Seq(FlushThread)
    /\ solo \in FlushThread

NoThread == [multi |-> FALSE, bufs |-> <<>>, pc |-> "done", k |-> 0, ok |-> TRUE]

FlushInit == running = <<>> /\ solo = NoThread

\* pthread_create of write2DiskInThread2 and of write2DiskMultipleInThread2.
FlushBufferWithThread(x) ==
    [multi |-> FALSE, bufs |-> <<x>>, pc |-> "check", k |-> 0, ok |-> TRUE]
FlushBuffersWithThread(xs) ==
    [multi |-> TRUE, bufs |-> xs, pc |-> "lock", k |-> 0, ok |-> TRUE]

\* Thread 0 is solo, thread i is the i-th of running.
Flusher(i) == IF i = 0 THEN solo ELSE running[i]
Flushers == 0 .. Len(running)
Advance(i, t) ==
    IF i = 0 THEN solo' = t /\ UNCHANGED running
             ELSE running' = [running EXCEPT ![i] = t] /\ UNCHANGED solo

\* Mutant: request_write_count is never brought down.
NotClaimed(n) == n

\* One fewer write requested; the mmap build tests for > 0, the pwrite build
\* for "not zero".
Claimed(n) == IF n > 0 \/ (~MmapRW /\ n # 0) THEN n - 1 ELSE n

\* A pwrite writes everything or fails (the code takes a result >= 0 for all), a
\* memcpy into the mapped file does not fail.
WriteOutcomes == IF MmapRW THEN {TRUE} ELSE BOOLEAN

\* Mutant: isDirty is cleared whatever pwrite returned.
CleanAnyway(ok) == FALSE

\* isDirty after the write: a pwrite that failed returns before clearing it.
DirtyAfter(ok) == ~ok
-----------------------------------------------------------------------------
(* write2Disk2 and write2Disk *)

\* isValid is read before the lock is taken: an evicted buffer is left alone.
SingleCheck(i) ==
    LET t == Flusher(i)
        x == t.bufs[1]
    IN /\ t.pc = "check"
       /\ \/ /\ buf[x].valid
             /\ Advance(i, [t EXCEPT !.pc = "sync"])
             /\ UNCHANGED buf
          \/ /\ ~buf[x].valid
             /\ Advance(i, [t EXCEPT !.pc = "done"])
             /\ Assign(x, [buf[x] EXCEPT !.busy = FALSE,
                                         !.requests = IF MmapRW THEN @ ELSE @ - 1])
       /\ UNCHANGED <<nbuf, disk, fault>>

\* Mutant: a buffer the pool has just marked counts as written by others.
StaleOrBusy(x) == ~buf[x].dirty \/ ~buf[x].valid \/ buf[x].busy

\* Nothing is left to write in buffer x.
Stale(x) == ~buf[x].dirty \/ ~buf[x].valid

\* From sem_wait to sem_post in one step.  isBufferBeingWrittenNow is set in between,
\* which shows only if os_write had cleared it: the waiting loop then goes round
\* again and the pool drops the buffer's unit, as it does after this step, too.
\* (After a failed pwrite it would not; no property counts on a unit then.)
SingleSync(i) ==
    LET t == Flusher(i)
        x == t.bufs[1]
    IN /\ t.pc = "sync"
       /\ Unlocked(x)
       /\ \/ /\ Stale(x)
             /\ Assign(x, [buf[x] EXCEPT !.busy = FALSE,
                                         !.requests = IF MmapRW THEN @ ELSE Claimed(@)])
             /\ Advance(i, [t EXCEPT !.pc = "done"])
             /\ UNCHANGED disk
          \/ /\ ~Stale(x)
             /\ \E ok \in WriteOutcomes :
                  /\ Assign(x, [buf[x] EXCEPT !.busy = FALSE,
                                              !.dirty = DirtyAfter(ok),
                                              !.requests = Claimed(@)])
                  /\ Advance(i, [t EXCEPT !.pc = "done", !.ok = ok])
                  /\ disk' = IF ok THEN [disk EXCEPT ![buf[x].block] = buf[x].data]
                                   ELSE disk
       /\ UNCHANGED <<nbuf, fault>>
-----------------------------------------------------------------------------
(* write2DiskMultiple2 and write2DiskMultiple *)

\* Mutant: the header is updated without taking the lock.
AcquiredUnlocked(x) == [buf[x] EXCEPT !.requests = Claimed(@), !.busy = TRUE]

\* The header once write_lock is taken by the first loop.
Acquired(x) == [buf[x] EXCEPT !.lock = @ - 1, !.requests = Claimed(@), !.busy = TRUE]

\* The first loop: the locks of the batch, one after the other.  The pwrite
\* build copies each buffer right after its lock; nobody may change the bytes
\* before the lock is given back, so copying is left to MultiWrite.
MultiLock(i) ==
    LET t == Flusher(i)
        x == t.bufs[t.k + 1]
        n == t.k + 1
    IN /\ t.pc = "lock"
       /\ Unlocked(x)
       /\ Assign(x, Acquired(x))
       /\ Advance(i, [t EXCEPT !.k = IF n = Len(t.bufs) THEN 0 ELSE n,
                               !.pc = IF n = Len(t.bufs) THEN "write" ELSE "lock"])
       /\ UNCHANGED <<nbuf, disk, fault>>

\* The contents are joined and written in one piece at the offset of the
\* first buffer's block.  Copying from a buffer that was freed is the fault.
MultiWrite(i) ==
    LET t == Flusher(i)
        first == buf[t.bufs[1]].block
        At(b) == t.bufs[b - first + 1]
    IN /\ t.pc = "write"
       /\ \/ /\ \E j \in DOMAIN t.bufs : ~Live(t.bufs[j])
             /\ fault' = TRUE
             /\ UNCHANGED <<disk, running, solo>>
          \/ /\ \A j \in DOMAIN t.bufs : Live(t.bufs[j])
             /\ \E ok \in WriteOutcomes :
                  /\ Advance(i, [t EXCEPT !.pc = "release", !.ok = ok])
                  /\ disk' = [b \in Block |->
                                IF ok /\ b - first + 1 \in DOMAIN t.bufs
                                THEN buf[At(b)].data ELSE disk[b]]
             /\ UNCHANGED fault
       /\ UNCHANGED <<buf, nbuf>>

\* The last loop.  After a failed pwrite the buffers stay dirty.
MultiRelease(i) ==
    LET t == Flusher(i)
        x == t.bufs[t.k + 1]
    IN /\ t.pc = "release"
       /\ Assign(x, [buf[x] EXCEPT !.dirty = @ /\ DirtyAfter(t.ok),
                                   !.busy = FALSE,
                                   !.lock = @ + 1])
       /\ Advance(i, [t EXCEPT !.k = @ + 1,
                               !.pc = IF t.k + 1 = Len(t.bufs) THEN "done" ELSE "release"])
       /\ UNCHANGED <<nbuf, disk, fault>>

FlushStep(i) ==
    \/ SingleCheck(i)
    \/ SingleSync(i)
    \/ MultiLock(i)
    \/ MultiWrite(i)
    \/ MultiRelease(i)
-----------------------------------------------------------------------------
\* The buffers whose write_lock thread t has and has not given back.
LockedBy(t) ==
    {t.bufs[j] : j \in CASE t.pc = "lock" -> 1 .. t.k
                         [] t.pc = "write" -> 1 .. Len(t.bufs)
                         [] t.pc = "release" -> t.k + 1 .. Len(t.bufs)
                         [] OTHER -> {}}

\* The buffers thread t still has to copy to the disk.
ToCopy(t) ==
    CASE t.pc \in {"check", "sync", "lock", "write"} -> {t.bufs[j] : j \in DOMAIN t.bufs}
      [] OTHER -> {}
=============================================================================
