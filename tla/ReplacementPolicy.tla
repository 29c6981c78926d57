------------------------- MODULE ReplacementPolicy --------------------------
(***************************************************************************)
(* shared/replacement_policy.c: the list a replacement policy keeps of the *)
(* cached buffers, the next victim first.  updateAccessInfo, deleteAt and  *)
(* getEvictableNode each run with the policy's lock held from end to end.  *)
(***************************************************************************)
EXTENDS Deque

CONSTANTS
    MaxBuffers,   \* bound: MemoryBuffer structures one run may allocate
    StampModulus, \* time stamps are compared modulo this (2^32 in the code)
    MaxTime       \* bound: the last instant of the clock

ASSUME PolicyAssumption ==
    /\ MaxBuffers \in Nat
    /\ StampModulus \in Nat \ {0}
    /\ MaxTime \in Nat

VARIABLES
    kind,         \* primary_policy_type
    deque,        \* the deque of that policy
    nnode,        \* how many nodes have been allocated,
    freed,        \* and which of them free() has been called with
    header,       \* the fields of the buffers' headers that policies use
    clock,        \* getCurrentTime
    fault         \* a thread has used a node that was freed, or is caught in
                  \* a chain without end

policyVars == <<kind, deque, nnode, freed, header, clock, fault>>

Buffer == 1 .. MaxBuffers
NoBuffer == 0

\* node: fifo_node, lfu_node or lru_node; count: access_count; stamp:
\* lastest_accessing_timestamp.
Header == [node: Pointer, count: Nat, stamp: Nat]

PolicyTypeOK ==
    /\ kind \in {"FIFO", "LFU", "LRU"}
    /\ deque \in Deque(Buffer \union {NoBuffer})
    /\ nnode \in 0 .. MaxNodes
    /\ freed \in SUBSET (1 .. nnode)
    /\ header \in [Buffer -> Header]
    /\ clock \in 0 .. MaxTime
    /\ fault \in BOOLEAN

\* newReplacementPolicyManager, with the policy the configuration names
PolicyInit ==
    /\ kind \in {"FIFO", "LFU", "LRU"}
    /\ deque = NewDeque(NoBuffer)
    /\ nnode = 0
    /\ freed = {}
    /\ header = [x \in Buffer |-> [node |-> Nil, count |-> 0, stamp |-> 0]]
    /\ clock = 0
    /\ fault = FALSE

NodeOf(x) == header[x].node
SetHeader(x, h) == header' = [header EXCEPT ![x] = h]

\* A freed node is used, and what follows is undefined; or a thread never ends
\* its loop and never gives the policy's lock back.
Fault ==
    /\ fault' = TRUE
    /\ UNCHANGED <<kind, deque, nnode, freed, header, clock>>

Allocate == nnode < MaxNodes /\ nnode' = nnode + 1
New == nnode + 1
-----------------------------------------------------------------------------
(* FIFO: an access moves the buffer to the end, into a new node.            *)

\* Mutant: freed without looking whether there is one.
FreedAnyway(x) == {NodeOf(x)}

\* Mutant: the first node is freed instead of the one taken out.
FreedFirst(x) == {deque.first} \ {Nil}

\* The nodes an access gives to free().
FreedBy(x) == {NodeOf(x)} \ {Nil}

FIFOUpdate(x) ==
    /\ kind = "FIFO"
    /\ \/ NodeOf(x) \in freed /\ Fault
       \/ /\ NodeOf(x) \notin freed
          /\ Allocate
          /\ deque' = PushLast(IF NodeOf(x) = Nil THEN deque ELSE PopAt(deque, NodeOf(x)),
                               New, x)
          /\ freed' = freed \union FreedBy(x)
          /\ SetHeader(x, [header[x] EXCEPT !.node = New])
          /\ UNCHANGED <<kind, clock, fault>>
-----------------------------------------------------------------------------
(* LFU and LRU: a node moves back over every node whose rank is not higher. *)

\* Mutant: only over nodes of a lower rank.
Passes(own, other) == own > other
MovesOver(own, other) == own >= other

\* Node n of d, of rank own, moves over the next one; rank is that of the
\* buffers in the other nodes.
Movable(d, n, own, rank) ==
    d.next[n] # Nil /\ MovesOver(own, rank[d.value[d.next[n]]])

\* d after node n has moved as far as it goes.  In a sound deque that takes
\* fewer steps than there are nodes.
Moved(d, n, own, rank) ==
    LET after[k \in 0 .. MaxNodes] ==
            IF k = 0 THEN d
            ELSE IF Movable(after[k - 1], n, own, rank)
                 THEN SwitchNode(after[k - 1], n, after[k - 1].next[n])
                 ELSE after[k - 1]
    IN after[MaxNodes]

LFUUpdate(x) ==
    LET h == [header[x] EXCEPT !.count = @ + 1]
        rank == [y \in Buffer |-> IF y = x THEN h.count ELSE header[y].count]
        moved == Moved(deque, NodeOf(x), h.count, rank)
    IN /\ kind = "LFU"
       /\ \/ /\ NodeOf(x) # Nil
             /\ ~Movable(moved, NodeOf(x), h.count, rank)
             /\ deque' = moved
             /\ SetHeader(x, h)
             /\ UNCHANGED <<kind, nnode, freed, clock, fault>>
          \/ /\ NodeOf(x) # Nil
             /\ Movable(moved, NodeOf(x), h.count, rank)
             /\ Fault
          \/ /\ NodeOf(x) = Nil
             /\ Allocate
             /\ deque' = Moved(PushFirst(deque, New, x), New, h.count, rank)
             /\ SetHeader(x, [h EXCEPT !.node = New])
             /\ UNCHANGED <<kind, freed, clock, fault>>

\* The stamp is kept whole, ranks are its low bits.
LRUUpdate(x) ==
    /\ kind = "LRU"
    /\ clock' \in {t \in {clock, clock + 1} : t <= MaxTime}
    /\ LET h == [header[x] EXCEPT !.stamp = clock']
           rank == [y \in Buffer |-> (IF y = x THEN clock' ELSE header[y].stamp)
                                        % StampModulus]
       IN \/ /\ NodeOf(x) # Nil
             /\ deque' = Moved(deque, NodeOf(x), rank[x], rank)
             /\ SetHeader(x, h)
             /\ UNCHANGED nnode
          \/ /\ NodeOf(x) = Nil
             /\ Allocate
             /\ deque' = PushLast(deque, New, x)
             /\ SetHeader(x, [h EXCEPT !.node = New])
    /\ UNCHANGED <<kind, freed, fault>>

\* ReplacementPolicyManager_updateAccessInfo
UpdateAccessInfo(x) == FIFOUpdate(x) \/ LFUUpdate(x) \/ LRUUpdate(x)
-----------------------------------------------------------------------------
\* Mutant: the buffer stays in the list.
KeepAt(x) == UNCHANGED policyVars

\* x, which has a node, is taken out; its header is left pointing at node n.
TakeOut(x, n) ==
    /\ deque' = PopAt(deque, NodeOf(x))
    /\ SetHeader(x, [header[x] EXCEPT !.node = n])
    /\ UNCHANGED <<kind, nnode, freed, clock, fault>>

\* FIFO and LRU leave the header pointing at what is now the first node of the
\* deque, which is another buffer's; LFU at the node it took out.
FirstLeft(x) == PopAt(deque, NodeOf(x)).first

FIFODeleteAt(x) ==
    /\ kind = "FIFO"
    /\ \/ NodeOf(x) = Nil /\ UNCHANGED policyVars
       \/ NodeOf(x) \in freed /\ Fault
       \/ NodeOf(x) \notin freed \union {Nil} /\ TakeOut(x, FirstLeft(x))

LFUDeleteAt(x) ==
    /\ kind = "LFU"
    /\ IF NodeOf(x) = Nil THEN UNCHANGED policyVars ELSE TakeOut(x, NodeOf(x))

LRUDeleteAt(x) ==
    /\ kind = "LRU"
    /\ IF NodeOf(x) = Nil THEN UNCHANGED policyVars ELSE TakeOut(x, FirstLeft(x))

\* ReplacementPolicyManager_deleteAt
DeleteAt(x) == FIFODeleteAt(x) \/ LFUDeleteAt(x) \/ LRUDeleteAt(x)

\* getEvictableNode
EvictableNode == deque.first
=============================================================================
