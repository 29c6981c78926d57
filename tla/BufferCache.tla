---------------------------- MODULE BufferCache -----------------------------
(***************************************************************************)
(* The whole program: the application's thread (os_read, os_write of       *)
(* buffer.c and the map and eviction of shared/memory_buffer.c), the       *)
(* pooling thread and the flush threads, interleaved at every place where  *)
(* one can observe another.                                                *)
(*                                                                         *)
(* Which buffer the replacement policy names is left open here: any cached *)
(* buffer, or none.  That includes a block the policy still lists after    *)
(* it was evicted, since deleteMemoryBuffer looks the block up again.      *)
(***************************************************************************)
EXTENDS ThreadPool

CONSTANTS
    Capacity,     \* buffers the cache may hold (CONFIG_MANANAGEABLE_N)
    EvictionType, \* "single" or "pool" (CONFIG_EVICTION_FLUSH_TYPE)
    MaxOps        \* bound: reads and writes the application makes

ASSUME BufferCacheAssumption ==
    /\ Capacity \in 1 .. TotalN
    /\ EvictionType \in {"single", "pool"}
    /\ MaxOps \in Nat

VARIABLES
    map,          \* memory_buffers: the hashmap from block to buffer
    main,         \* the application's thread: where it is, its locals
    reply,        \* what the last os_read gave back
    ops           \* reads and writes begun

appVars == <<map, main, reply, ops>>
vars == <<memVars, running, solo, poolVars, appVars>>

NoReply == [block |-> -1]

Evicting == {"victim", "waitbusy", "waitrequests", "inspect", "join", "requeue",
             "waitclean", "free", "destroy"}
Closing == {"joinpool", "joinall", "closed"}

AppTypeOK ==
    /\ map \in [Block -> Buffer \union {NoBuffer}]
    /\ main \in [pc: {"idle", "copy", "wlock", "wdone", "put", "push"}
                       \union Evicting \union Closing,
                 op: {"read", "write"}, block: Block, data: Data,
                 buf: Buffer \union {NoBuffer}, victim: Buffer \union {NoBuffer}]
    /\ reply \in {NoReply} \union [block: Block, data: Data]
    /\ ops \in 0 .. MaxOps

TypeOK == MemTypeOK /\ FlushTypeOK /\ PoolTypeOK /\ AppTypeOK

Init ==
    /\ MemInit
    /\ FlushInit
    /\ PoolInit
    /\ map = [b \in Block |-> NoBuffer]
    /\ \E d \in Data :
         main = [pc |-> "idle", op |-> "read", block |-> 0, data |-> d,
                 buf |-> NoBuffer, victim |-> NoBuffer]
    /\ reply = NoReply
    /\ ops = 0
-----------------------------------------------------------------------------
Cached == {b \in Block : map[b] # NoBuffer}

\* shouldFindEvictableBuffer
Full == Cardinality(Cached) >= Capacity

At(pc) == main.pc = pc
AppGoto(pc) == main' = [main EXCEPT !.pc = pc]

\* A call of os_read or os_write begins; d is what a write writes.
Begin(op, b, d) ==
    /\ At("idle")
    /\ ops < MaxOps
    /\ ops' = ops + 1
    /\ main' = [pc |-> IF map[b] # NoBuffer THEN IF op = "read" THEN "copy" ELSE "wlock"
                       ELSE IF Full THEN "victim" ELSE "put",
                op |-> op, block |-> b, data |-> d,
                buf |-> IF map[b] # NoBuffer THEN map[b] ELSE nbuf + 1,
                victim |-> NoBuffer]
    /\ \/ map[b] # NoBuffer /\ UNCHANGED <<buf, nbuf>>
       \/ map[b] = NoBuffer /\ CreateNewMemoryBuffer(b, d, op = "write")
    /\ UNCHANGED <<disk, fault, running, solo, poolVars, map, reply>>

\* A missing block is copied from the disk into the new buffer; the pread is
\* taken to succeed, as the code does, which ignores its result.
OsRead(b) == Begin("read", b, disk[b])
OsWrite(b) == \E d \in Data : Begin("write", b, d)

\* os_read of a cached block: the bytes are copied without the lock.
ReadHit ==
    /\ At("copy")
    /\ reply' = [block |-> main.block, data |-> buf[main.buf].data]
    /\ AppGoto("idle")
    /\ UNCHANGED <<memVars, running, solo, poolVars, map, ops>>

\* os_write of a cached block takes write_lock; sem_init if it is invalid.
WriteLock ==
    LET x == main.buf
    IN /\ At("wlock")
       /\ buf[x].valid => Unlocked(x)
       /\ Assign(x, [buf[x] EXCEPT !.lock = IF buf[x].valid THEN @ - 1 ELSE 0,
                                   !.busy = TRUE,
                                   !.data = main.data])
       /\ AppGoto("wdone")
       /\ UNCHANGED <<nbuf, disk, fault, running, solo, poolVars, map, reply, ops>>

WriteUnlock ==
    /\ At("wdone")
    /\ Assign(main.buf, [buf[main.buf] EXCEPT !.valid = TRUE, !.dirty = TRUE,
                                              !.busy = FALSE, !.lock = @ + 1])
    /\ AppGoto("push")
    /\ UNCHANGED <<nbuf, disk, fault, running, solo, poolVars, map, reply, ops>>

\* putMemoryBufferAt; an os_read is then complete.
Put ==
    /\ At("put")
    /\ map' = [map EXCEPT ![main.block] = main.buf]
    /\ \/ main.op = "read" /\ AppGoto("idle")
          /\ reply' = [block |-> main.block, data |-> main.data]
       \/ main.op = "write" /\ AppGoto("push") /\ UNCHANGED reply
    /\ UNCHANGED <<memVars, running, solo, poolVars, ops>>

\* addQueue2 at the end of os_write
Push ==
    /\ At("push")
    /\ AddQueue(main.buf, 0)
    /\ AppGoto("idle")
    /\ UNCHANGED <<memVars, running, solo, permits, batch, pool, terminate, map,
                   reply, ops>>
-----------------------------------------------------------------------------
(* findEvictableBuffer and deleteMemoryBuffer *)

FindVictim ==
    /\ At("victim")
    /\ \/ AppGoto("put")
       \/ \E b \in Cached :
            main' = [main EXCEPT !.pc = "waitbusy", !.victim = map[b]]
    /\ UNCHANGED <<memVars, running, solo, poolVars, map, reply, ops>>

\* The waiting loop reads the two fields one after the other, unlocked.
WaitNotBusy ==
    /\ At("waitbusy")
    /\ ~buf[main.victim].busy
    /\ AppGoto("waitrequests")
    /\ UNCHANGED <<memVars, running, solo, poolVars, map, reply, ops>>

WaitNoRequests ==
    /\ At("waitrequests")
    /\ AppGoto(IF buf[main.victim].requests = 0 THEN "inspect" ELSE "waitbusy")
    /\ UNCHANGED <<memVars, running, solo, poolVars, map, reply, ops>>

\* isDirty is read with the lock held; a dirty victim is flushed first, by
\* a thread of its own or by the pool.
Inspect ==
    LET x == main.victim
    IN /\ At("inspect")
       /\ Unlocked(x)
       /\ \/ /\ ~buf[x].dirty
             /\ AppGoto("free")
             /\ UNCHANGED <<buf, solo>>
          \/ /\ buf[x].dirty /\ EvictionType = "single"
             /\ Assign(x, [buf[x] EXCEPT !.busy = TRUE])
             /\ solo' = FlushBufferWithThread(x)
             /\ AppGoto("join")
          \/ /\ buf[x].dirty /\ EvictionType = "pool"
             /\ AppGoto("requeue")
             /\ UNCHANGED <<buf, solo>>
       /\ UNCHANGED <<nbuf, disk, fault, running, poolVars, map, reply, ops>>

\* addQueue2 of the victim, before the units of os_write
Requeue ==
    /\ At("requeue")
    /\ AddQueue(main.victim, 1)
    /\ AppGoto("waitclean")
    /\ UNCHANGED <<memVars, running, solo, permits, batch, pool, terminate, map,
                   reply, ops>>

\* Mutant: the thread is started and not waited for.
NotWaited == TRUE

\* pthread_join(flush_thread_id) returns.
SoloEnded == solo.pc = "done"

Join ==
    /\ At("join")
    /\ SoloEnded
    /\ solo' = NoThread
    /\ Assign(main.victim, [buf[main.victim] EXCEPT !.busy = FALSE])
    /\ AppGoto("free")
    /\ UNCHANGED <<nbuf, disk, fault, running, poolVars, map, reply, ops>>

WaitClean ==
    /\ At("waitclean")
    /\ ~buf[main.victim].dirty
    /\ AppGoto("free")
    /\ UNCHANGED <<memVars, running, solo, poolVars, map, reply, ops>>

\* isValid = 0 and free(buffer) under the lock,
Free ==
    /\ At("free")
    /\ Unlocked(main.victim)
    /\ Assign(main.victim, [buf[main.victim] EXCEPT !.valid = FALSE, !.data = NULL])
    /\ AppGoto("destroy")
    /\ UNCHANGED <<nbuf, disk, fault, running, solo, poolVars, map, reply, ops>>

\* Mutant: the block stays in the map.
KeepBlock(b) == UNCHANGED map

\* hashmap_delete
ForgetBlock(b) == map' = [map EXCEPT ![b] = NoBuffer]

\* then the semaphore is zeroed and the block leaves the map.
Destroy ==
    /\ At("destroy")
    /\ Assign(main.victim, [buf[main.victim] EXCEPT !.lock = 0])
    /\ ForgetBlock(buf[main.victim].block)
    /\ main' = [main EXCEPT !.pc = "put", !.victim = NoBuffer]
    /\ UNCHANGED <<nbuf, disk, fault, running, solo, poolVars, reply, ops>>
-----------------------------------------------------------------------------
(* releaseInternalResource: ThreadPoolClose *)

Close ==
    /\ At("idle")
    /\ terminate' = TRUE
    /\ AppGoto("joinpool")
    /\ UNCHANGED <<memVars, running, solo, queue, root, tree, nunit, dangling, lost,
                   permits, batch, pool, map, reply, ops>>

JoinPool ==
    /\ At("joinpool")
    /\ pool.pc = "done"
    /\ AppGoto("joinall")
    /\ UNCHANGED <<memVars, running, solo, poolVars, map, reply, ops>>

\* waitInternalThread(tp, 0), then the units still queued are thrown away.
JoinAll ==
    /\ At("joinall")
    /\ \/ /\ running # <<>>
          /\ Head(running).pc = "done"
          /\ running' = Tail(running)
          /\ UNCHANGED <<queue, root, dangling, main>>
       \/ /\ running = <<>>
          /\ queue' = {} /\ root' = NoUnit /\ dangling' = {}
          /\ AppGoto("closed")
          /\ UNCHANGED running
    /\ UNCHANGED <<memVars, solo, tree, nunit, lost, permits, batch, pool, terminate,
                   map, reply, ops>>
-----------------------------------------------------------------------------
\* What the application's thread does once it is inside a call.
AppStep ==
    \/ ReadHit
    \/ WriteLock
    \/ WriteUnlock
    \/ Put
    \/ Push
    \/ FindVictim
    \/ WaitNotBusy
    \/ WaitNoRequests
    \/ Inspect
    \/ Requeue
    \/ Join
    \/ WaitClean
    \/ Free
    \/ Destroy
    \/ JoinPool
    \/ JoinAll

AppCall == Close \/ \E b \in Block : OsRead(b) \/ OsWrite(b)

Pushing == main.pc \in {"push", "requeue"}
ThePool == PoolStep(Pushing) /\ UNCHANGED appVars
TheFlusher(i) == FlushStep(i) /\ UNCHANGED <<poolVars, appVars>>

\* The program is over: closed, or stopped by a fault.
Over == main.pc = "closed" \/ fault
Stopped == Over /\ UNCHANGED vars

Next ==
    \/ ~fault /\ (AppCall \/ AppStep \/ ThePool \/ \E i \in Flushers : TheFlusher(i))
    \/ Stopped

Spec == Init /\ [][Next]_vars
=============================================================================
