---------------------------- MODULE PolicyCache -----------------------------
(***************************************************************************)
(* The replacement policy in the cache: os_read and os_write tell it of    *)
(* every hit at once, putMemoryBufferAt tells it of a new buffer through a *)
(* thread of its own that nobody waits for, and evictions take the buffer  *)
(* it names.  What eviction waits for and writes to the disk is in         *)
(* BufferCache; which buffer it takes is here.                             *)
(***************************************************************************)
EXTENDS ReplacementPolicy

CONSTANTS
    TotalN,       \* number of blocks on the disk (CONFIG_TOTAL_N)
    Capacity,     \* buffers the cache may hold (CONFIG_MANANAGEABLE_N)
    MaxHits       \* bound: calls that find their block cached

ASSUME PolicyCacheAssumption ==
    /\ TotalN \in Nat \ {0}
    /\ Capacity \in 1 .. TotalN
    /\ MaxHits \in Nat

VARIABLES
    map,          \* memory_buffers: the hashmap from block to buffer
    blockOf,      \* block_number of each buffer
    nbuf,         \* how many buffers have been allocated
    pending,      \* buffers whose updateAccessInfo thread has not run yet
    main,         \* the application's thread
    hits,         \* calls that found their block cached
    late          \* an updateAccessInfo thread ran after its buffer was evicted

cacheVars == <<map, blockOf, nbuf, pending, main, hits, late>>
vars == <<policyVars, cacheVars>>

Block == 0 .. TotalN - 1

\* node: what getEvictableNode returned; victim: the buffer found in it.
CacheTypeOK ==
    /\ map \in [Block -> Buffer \union {NoBuffer}]
    /\ blockOf \in [Buffer -> Block]
    /\ nbuf \in 0 .. MaxBuffers
    /\ pending \subseteq Buffer
    /\ main \in [pc: {"idle", "find", "value", "delete", "put"},
                 buf: Buffer \union {NoBuffer}, node: Pointer,
                 victim: Buffer \union {NoBuffer}]
    /\ hits \in 0 .. MaxHits
    /\ late \in BOOLEAN

TypeOK == PolicyTypeOK /\ CacheTypeOK

Idle == [pc |-> "idle", buf |-> NoBuffer, node |-> Nil, victim |-> NoBuffer]

Init ==
    /\ PolicyInit
    /\ map = [b \in Block |-> NoBuffer]
    /\ blockOf = [x \in Buffer |-> 0]
    /\ nbuf = 0
    /\ pending = {}
    /\ main = Idle
    /\ hits = 0
    /\ late = FALSE
-----------------------------------------------------------------------------
Cached == {b \in Block : map[b] # NoBuffer}
IsCached(x) == map[blockOf[x]] = x
At(pc) == main.pc = pc

\* os_read or os_write of a cached block
Hit(b) ==
    /\ At("idle")
    /\ map[b] # NoBuffer
    /\ hits < MaxHits
    /\ hits' = hits + 1
    /\ UpdateAccessInfo(map[b])
    /\ UNCHANGED <<map, blockOf, nbuf, pending, main, late>>

\* os_read or os_write of a block that is not: shouldFindEvictableBuffer
Miss(b) ==
    /\ At("idle")
    /\ map[b] = NoBuffer
    /\ nbuf < MaxBuffers
    /\ nbuf' = nbuf + 1
    /\ blockOf' = [blockOf EXCEPT ![nbuf + 1] = b]
    /\ main' = [Idle EXCEPT !.pc = IF Cardinality(Cached) >= Capacity THEN "find"
                                                                      ELSE "put",
                            !.buf = nbuf + 1]
    /\ UNCHANGED <<policyVars, map, pending, hits, late>>

\* findEvictableBuffer: the node is found with the policy's lock held,
FindNode ==
    /\ At("find")
    /\ main' = [main EXCEPT !.node = EvictableNode,
                            !.pc = IF EvictableNode = Nil THEN "put" ELSE "value"]
    /\ UNCHANGED <<policyVars, map, blockOf, nbuf, pending, hits, late>>

\* and its value is read without.
ReadValue ==
    /\ At("value")
    /\ \/ /\ main.node \in freed
          /\ Fault
          /\ UNCHANGED main
       \/ /\ main.node \notin freed
          /\ main' = [main EXCEPT !.victim = deque.value[main.node], !.pc = "delete"]
          /\ UNCHANGED policyVars
    /\ UNCHANGED <<map, blockOf, nbuf, pending, hits, late>>

\* deleteMemoryBuffer: the buffer of the victim's block, if it has one, leaves
\* the policy's list and the map.
DeleteMemoryBuffer ==
    LET b == blockOf[main.victim]
    IN /\ At("delete")
       /\ \/ map[b] = NoBuffer /\ UNCHANGED policyVars
          \/ map[b] # NoBuffer /\ DeleteAt(map[b])
       /\ map' = [map EXCEPT ![b] = NoBuffer]
       /\ main' = [main EXCEPT !.pc = "put"]
       /\ UNCHANGED <<blockOf, nbuf, pending, hits, late>>

\* putMemoryBufferAt starts the thread that runs updateAccessInfo.
Put ==
    /\ At("put")
    /\ map' = [map EXCEPT ![blockOf[main.buf]] = main.buf]
    /\ pending' = pending \union {main.buf}
    /\ main' = Idle
    /\ UNCHANGED <<policyVars, blockOf, nbuf, hits, late>>

\* updateAccessInfoWithThreadMiddleFunc
UpdateThread(x) ==
    /\ x \in pending
    /\ pending' = pending \ {x}
    /\ UpdateAccessInfo(x)
    /\ late' = (late \/ ~IsCached(x))
    /\ UNCHANGED <<map, blockOf, nbuf, main, hits>>

Stopped == fault /\ UNCHANGED vars

Next ==
    \/ ~fault /\ \/ \E b \in Block : Hit(b) \/ Miss(b)
                 \/ FindNode \/ ReadValue \/ DeleteMemoryBuffer \/ Put
                 \/ \E x \in pending : UpdateThread(x)
    \/ Stopped

Spec == Init /\ [][Next]_vars
-----------------------------------------------------------------------------
(* Until an update thread runs too late, or a freed node is used.           *)
InTime == ~late /\ ~fault
Listed == Contents(deque)

\* Both directions of the deque lead through the same nodes, as many as it
\* counts, whatever moves, pops and pushes went before.
DequeSound == InTime => Sound(deque)

\* Every cached buffer is in the list exactly once, in the node its header
\* points to and which is not freed, or has its update thread still to run; no
\* other buffer is in the list.
ListMatchesCache ==
    InTime =>
        LET nodes == Chain(deque.first, deque.next)
        IN /\ \A k \in DOMAIN nodes :
                 /\ nodes[k] \notin freed
                 /\ IsCached(deque.value[nodes[k]])
                 /\ NodeOf(deque.value[nodes[k]]) = nodes[k]
           /\ \A b \in Cached \ {b \in Block : map[b] \in pending} :
                 \E k \in DOMAIN nodes : deque.value[nodes[k]] = map[b]

\* A miss on a full cache makes room: it goes without a victim only while the
\* threads that list the cached buffers are all still to run, and the victim it
\* gets leaves the map (memory_buffer.c:225).
MissMakesRoom ==
    [][InTime' =>
          /\ At("find") /\ At("put")' => \A b \in Cached : map[b] \in pending
          /\ At("delete") /\ At("put")' => Cached' \subseteq Cached /\ Cached' # Cached]_vars

\* As long as no thread is late, only findEvictableBuffer's unlocked read can use
\* a freed node, and only under FIFO, which is the one that frees them: with the
\* policy's lock held no freed node is used and every loop of LFU ends, whatever
\* hits, update threads and evictions come in between (memory_buffer.c:228).
OnlyReadFaults ==
    [][~fault /\ fault' /\ ~late' => kind = "FIFO" /\ At("value")]_vars

\* Each policy's pointer manipulations keep the order it promises: FIFO and LRU
\* put an accessed buffer last, LFU behind those accessed at most as often.
Promise == INSTANCE VictimOrder
    WITH ranked <- kind = "LFU", order <- Listed,
         count <- [x \in Buffer |-> header[x].count]
KeepsOrder == Promise!Init /\ [][Promise!Next \/ ~InTime']_<<deque, header>>

\* An eviction gets a buffer of the map from findEvictableBuffer
\* (memory_buffer.c:215 and 234).
VictimIsCached == main.pc = "delete" => IsCached(main.victim)

\* Under FIFO a listed buffer never overtakes another one (README.md:70).
Before(s, x, y) == \E i, j \in DOMAIN s : i < j /\ s[i] = x /\ s[j] = y
FIFONeverOvertakes ==
    [][kind = "FIFO" =>
          \A x, y \in Buffer : Before(Listed, x, y) => ~Before(Listed', y, x)]_<<deque, header>>

\* The first buffer of LRU's list is the one used least recently (README.md:70).
LRUFirstIsOldest ==
    kind = "LRU" =>
        \A k \in DOMAIN Listed : header[Listed[1]].stamp <= header[Listed[k]].stamp
=============================================================================
