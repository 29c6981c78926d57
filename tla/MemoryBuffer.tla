---------------------------- MODULE MemoryBuffer ----------------------------
(***************************************************************************)
(* The memory buffers every thread of the program shares, and the disk     *)
(* behind them (shared/memory_buffer_structures.h, createNewMemoryBuffer,  *)
(* and the mmap'ed disk_buffer of buffer.c).                               *)
(*                                                                         *)
(* A MemoryBuffer structure is never freed, only the block of bytes it     *)
(* points to is, so a buffer keeps its identity for the whole run and a    *)
(* thread may hold a pointer to one that was evicted long ago.             *)
(***************************************************************************)
EXTENDS Integers, Sequences, FiniteSets

CONSTANTS
    TotalN,       \* number of blocks on the disk (CONFIG_TOTAL_N)
    Data,         \* the contents a block can have
    NULL,         \* the NULL pointer, where a buffer has no bytes
    MaxBuffers    \* bound: MemoryBuffer structures one run may allocate

ASSUME MemoryBufferAssumption ==
    /\ TotalN \in Nat \ {0}
    /\ MaxBuffers \in Nat
    /\ NULL \notin Data

VARIABLES
    buf,          \* the MemoryBuffer structures: header fields and bytes
    nbuf,         \* how many of them have been allocated
    disk,         \* contents of the disk file, by block number
    fault         \* a thread has touched memory that was freed

memVars == <<buf, nbuf, disk, fault>>

Block == 0 .. TotalN - 1
Buffer == 1 .. MaxBuffers
NoBuffer == 0

\* block: block_number; data: the bytes (NULL once freed); valid, dirty,
\* busy: isValid, isDirty, isBufferBeingWrittenNow; requests:
\* request_write_count; lock: value of the semaphore write_lock.
MemoryBuffer == [block: Block, data: Data \union {NULL},
                 valid: BOOLEAN, dirty: BOOLEAN, busy: BOOLEAN,
                 requests: Int, lock: Nat]

MemTypeOK ==
    /\ buf \in [Buffer -> MemoryBuffer]
    /\ nbuf \in 0 .. MaxBuffers
    /\ disk \in [Block -> Data]
    /\ fault \in BOOLEAN

\* Before it is allocated a structure is nothing anybody can reach.
Unallocated == [block |-> 0, data |-> NULL, valid |-> FALSE, dirty |-> FALSE,
                busy |-> FALSE, requests |-> 0, lock |-> 0]

MemInit ==
    /\ buf = [x \in Buffer |-> Unallocated]
    /\ nbuf = 0
    /\ disk \in [Block -> Data]
    /\ fault = FALSE

\* createNewMemoryBuffer, then the caller copies d into the bytes and sets
\* isValid, and isDirty when it is a write; nobody else can see it yet.
CreateNewMemoryBuffer(b, d, dirty) ==
    /\ nbuf < MaxBuffers
    /\ nbuf' = nbuf + 1
    /\ buf' = [buf EXCEPT ![nbuf + 1] =
                  [block |-> b, data |-> d, valid |-> TRUE, dirty |-> dirty,
                   busy |-> FALSE, requests |-> 0, lock |-> 1]]

\* Buffer x becomes r; every other buffer stays as it is.
Assign(x, r) == buf' = [buf EXCEPT ![x] = r]

\* A buffer that has its bytes; Freed is what deleteMemoryBuffer leaves.
Live(x) == buf[x].data # NULL

\* Mutant: the bytes are used without sem_wait.
UnlockedOrNot(x) == TRUE

\* sem_wait(&write_lock) goes through.
Unlocked(x) == buf[x].lock > 0
=============================================================================
