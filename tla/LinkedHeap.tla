----------------------------- MODULE LinkedHeap -----------------------------
(***************************************************************************)
(* shared/linked_heap.c behind shared/linked_heap_queue.c: the priority    *)
(* queue of the thread pool, a binary heap whose nodes are linked by       *)
(* pointers and numbered level by level.  The application's thread pushes  *)
(* work units, the pooling thread takes them: front() and then pop().      *)
(*                                                                         *)
(* push() chooses the number of the new node before it takes the heap's    *)
(* lock, everything else of an operation happens with the lock held.       *)
(***************************************************************************)
EXTENDS Integers, FiniteSets

CONSTANTS
    Key,          \* what units are ordered by: priority, then block number
    MaxUnits      \* bound: work units one run may push

ASSUME LinkedHeapAssumption == Key \subseteq Int /\ MaxUnits \in Nat

VARIABLES
    heap,         \* the struct LHeap and its nodes
    freed,        \* the nodes free() has been called with
    nunit,        \* units pushed so far
    pusher,       \* the application's thread inside push()
    taker,        \* the pooling thread between front() and pop()
    raced         \* a pop came between a push's number and its lock

vars == <<heap, freed, nunit, pusher, taker, raced>>

Node == 1 .. MaxUnits
Nil == 0
Pointer == Node \union {Nil}

Unit == [id: 1 .. MaxUnits, key: Key]
NoUnit == [id |-> 0]

\* Node i is the one that was allocated for unit i.
Heap == [root: Pointer, count: Nat,
         left: [Node -> Pointer], right: [Node -> Pointer],
         parent: [Node -> Pointer], index: [Node -> Nat],
         value: [Node -> Unit \union {NoUnit}]]

\* The walk to a node would not end at a root numbered 0.
TypeOK ==
    /\ heap \in Heap
    /\ \A n \in Node : heap.index[n] > 0 <=> n <= nunit
    /\ freed \subseteq Node
    /\ nunit \in 0 .. MaxUnits
    /\ pusher \in [pc: {"idle", "push"}, index: Nat]
    /\ taker \in [pc: {"front", "pop", "ended"}, unit: Unit \union {NoUnit}]
    /\ raced \in BOOLEAN

NoLinks == [n \in Node |-> Nil]
NewHeap == [root |-> Nil, count |-> 0, left |-> NoLinks, right |-> NoLinks,
            parent |-> NoLinks, index |-> NoLinks,
            value |-> [n \in Node |-> NoUnit]]

Init ==
    /\ heap = NewHeap
    /\ freed = {}
    /\ nunit = 0
    /\ pusher = [pc |-> "idle", index |-> 0]
    /\ taker = [pc |-> "front", unit |-> NoUnit]
    /\ raced = FALSE

IsEmpty == heap.count = 0 \/ heap.root = Nil
-----------------------------------------------------------------------------
(* Finding a node by its number *)

\* Mutant: the division rounds up.
RoundedUp(i) == (i + 1) \div 2

\* The number of the parent of node i of a complete tree
ParentNumber(i) == i \div 2

\* The numbers from i to the root: half as much at each step.
Path(i) ==
    LET above[k \in 0 .. MaxUnits] ==
            IF k = 0 THEN i ELSE ParentNumber(above[k - 1])
    IN above

\* How many levels below the root of h number i is.
Level(h, i) == Cardinality({k \in 1 .. MaxUnits : Path(i)[k] >= h.index[h.root]})

\* The child of n with number i, or n itself if it has no such child.
Child(h, n, i) ==
    IF h.left[n] # Nil /\ h.index[h.left[n]] = i THEN h.left[n]
    ELSE IF h.right[n] # Nil /\ h.index[h.right[n]] = i THEN h.right[n]
    ELSE n

\* findNodeByIndex, and findParentNode for the number of the parent: from the
\* root through the numbers that lead to i, staying where a number is missing.
FindNode(h, i) ==
    LET level == Level(h, i)
        at[k \in 0 .. level] ==
            IF k = 0 THEN h.root ELSE Child(h, at[k - 1], Path(i)[level - k])
    IN at[level]
-----------------------------------------------------------------------------
(* The order *)

\* comparator: negative when node a goes before node b; a missing node counts
\* as the lower one.
Compare(h, a, b) ==
    CASE a # Nil /\ b # Nil -> h.value[a].key - h.value[b].key
      [] a # Nil /\ b = Nil -> 1
      [] a = Nil /\ b # Nil -> -1
      [] OTHER -> 0

Swap(h, a, b) == [h EXCEPT !.value[a] = h.value[b], !.value[b] = h.value[a]]

\* Mutant: the values change places the wrong way round.
GoesAfter(h, a, b) == Compare(h, a, b) >= 0

\* In push(), the value of node a belongs above that of its parent b.
GoesAbove(h, a, b) == Compare(h, a, b) <= 0

\* The loop of push(): a node with its parent, if it has one,
StepUp(s) ==
    LET p == s.heap.parent[s.node]
    IN IF p = Nil THEN s
       ELSE [heap |-> IF GoesAbove(s.heap, s.node, p)
                      THEN Swap(s.heap, s.node, p) ELSE s.heap,
             node |-> p]

\* from node n to the root.
SiftedUp(h, n) ==
    LET up[k \in 0 .. MaxUnits] ==
            IF k = 0 THEN [heap |-> h, node |-> n] ELSE StepUp(up[k - 1])
    IN up[MaxUnits].heap

\* Mutant: the other child is taken.
HigherChild(h, n) ==
    IF Compare(h, h.left[n], h.right[n]) < 0 THEN h.right[n] ELSE h.left[n]

\* The child pop() goes to: the lower one, and the right one when there is
\* only a left one, which ends the loop.
NextDown(h, n) ==
    IF Compare(h, h.left[n], h.right[n]) < 0 THEN h.left[n] ELSE h.right[n]

\* The loop of pop(): a node with that child, if there is one,
StepDown(s) ==
    LET d == NextDown(s.heap, s.node)
    IN IF s.node = Nil THEN s
       ELSE [heap |-> IF d # Nil /\ Compare(s.heap, d, s.node) < 0
                      THEN Swap(s.heap, d, s.node) ELSE s.heap,
             node |-> d]

\* from the root to a leaf.
SiftedDown(h) ==
    LET down[k \in 0 .. MaxUnits] ==
            IF k = 0 THEN [heap |-> h, node |-> h.root] ELSE StepDown(down[k - 1])
    IN down[MaxUnits].heap
-----------------------------------------------------------------------------
(* push *)

\* Mutant: nodes are numbered from 0.
FromZero == heap.count

\* The number of the node after the last one
NextNumber == heap.count + 1

\* LHeapPush up to its lock: the new node and its number.
ReadCount ==
    /\ pusher.pc = "idle"
    /\ taker.pc # "ended"
    /\ nunit < MaxUnits
    /\ \E k \in Key :
         heap' = [heap EXCEPT !.index[nunit + 1] = NextNumber,
                              !.value[nunit + 1] = [id |-> nunit + 1, key |-> k]]
    /\ nunit' = nunit + 1
    /\ pusher' = [pc |-> "push", index |-> NextNumber]
    /\ UNCHANGED <<freed, taker, raced>>

\* h with node n below node p: by its number, left or else right.
Attached(h, n, p) ==
    IF h.index[n] = 2 * h.index[p]
    THEN [h EXCEPT !.parent[n] = p, !.left[p] = n, !.count = @ + 1]
    ELSE [h EXCEPT !.parent[n] = p, !.right[p] = n, !.count = @ + 1]

\* LHeapPush with the lock.
Push ==
    /\ pusher.pc = "push"
    /\ LET p == FindNode(heap, ParentNumber(NextNumber))
       IN heap' = IF heap.root = Nil
                  THEN [heap EXCEPT !.root = nunit, !.count = @ + 1]
                  ELSE SiftedUp(Attached(heap, nunit, p), nunit)
    /\ raced' = (raced \/ pusher.index # NextNumber)
    /\ pusher' = [pc |-> "idle", index |-> 0]
    /\ UNCHANGED <<freed, nunit, taker>>
-----------------------------------------------------------------------------
(* front and pop *)

\* isEmpty and LHeapGet
Front ==
    /\ taker.pc = "front"
    /\ ~IsEmpty
    /\ taker' = [pc |-> "pop", unit |-> heap.value[heap.root]]
    /\ UNCHANGED <<heap, freed, nunit, pusher, raced>>

\* Mutant: the last node is freed and stays below its parent.
LeftAttached(h, n) == [h EXCEPT !.count = @ - 1]

\* h without its node n: below its parent, or as the root, there is nothing.
Detached(h, n) ==
    LET p == h.parent[n]
    IN CASE p = Nil -> [h EXCEPT !.root = Nil, !.count = @ - 1]
         [] p # Nil /\ h.left[p] = n -> [h EXCEPT !.left[p] = Nil, !.count = @ - 1]
         [] OTHER -> [h EXCEPT !.right[p] = Nil, !.count = @ - 1]

\* LHeapPop: the last node's value goes to the root, the last node away (what
\* is left in a freed node does not matter and is cleared).
Pop ==
    /\ taker.pc = "pop"
    /\ LET last == IF heap.count = 1 THEN heap.root ELSE FindNode(heap, heap.count)
           moved == [heap EXCEPT !.value[heap.root] = heap.value[last],
                                 !.value[last] = NoUnit]
       IN /\ heap' = IF heap.count = 1
                     THEN [heap EXCEPT !.root = Nil, !.count = 0, !.value[last] = NoUnit]
                     ELSE SiftedDown(Detached(moved, last))
          /\ freed' = freed \union {last}
    /\ taker' = [pc |-> "front", unit |-> NoUnit]
    /\ UNCHANGED <<nunit, pusher, raced>>

Children(h, m) == {h.left[m], h.right[m]} \ {Nil}

\* The nodes one can get to from node n of h.
Below(h, n) ==
    LET Further(S) == S \union UNION {Children(h, m) : m \in S}
        reach[k \in 0 .. MaxUnits] ==
            IF k = 0 THEN {n} \ {Nil} ELSE Further(reach[k - 1])
    IN reach[MaxUnits]

\* LHeapClear, once the pooling thread has ended (ThreadPoolClose).
Clear ==
    /\ taker.pc = "front"
    /\ pusher.pc = "idle"
    /\ freed' = freed \union Below(heap, heap.root)
    /\ heap' = [heap EXCEPT !.root = Nil, !.count = 0]
    /\ taker' = [taker EXCEPT !.pc = "ended"]
    /\ UNCHANGED <<nunit, pusher, raced>>

Next == ReadCount \/ Push \/ Front \/ Pop \/ Clear

Spec == Init /\ [][Next]_vars
-----------------------------------------------------------------------------
(* Properties *)

InTree == Below(heap, heap.root)
Units == {heap.value[n] : n \in InTree}
First == IF heap.root = Nil THEN NoUnit ELSE heap.value[heap.root]

\* The tree is complete, as push and pop assume when they look for the place
\* of its last node (the comments in LHeapPush and LHeapPop): number i has its
\* parent at i div 2 and the numbers are 1 to count.
TreeComplete ==
    ~raced =>
        /\ {heap.index[n] : n \in InTree} = 1 .. heap.count
        /\ Cardinality(InTree) = heap.count
        /\ \A n \in InTree :
              /\ n # heap.root => heap.index[heap.parent[n]] = heap.index[n] \div 2
              /\ heap.left[n] # Nil => heap.index[heap.left[n]] = 2 * heap.index[n]
              /\ heap.right[n] # Nil => heap.index[heap.right[n]] = 2 * heap.index[n] + 1

\* Even after a push and a pop have raced, the tree only leads to nodes that
\* were not freed, and no unit is in it twice.
TreeAllocated ==
    /\ InTree \intersect freed = {}
    /\ \A m, n \in InTree : heap.value[m] = heap.value[n] => m = n

\* The heap is the unit queue ThreadPool models: no unit is lost unless a push
\* has raced with a pop, none comes back, and which unit is first changes only
\* as that module says.
Queue == INSTANCE UnitQueue
    WITH queue <- Units, first <- First, broken <- raced,
         Precedes <- LAMBDA u, v : u.key <= v.key
ImplementsQueue ==
    /\ Queue!Init
    /\ [][\/ nunit > 0 /\ Queue!Push(heap.value[nunit])
          \/ Queue!Pop
          \/ Queue!Clear]_<<Units, First, raced>>

\* No node goes before its parent, except perhaps those in S.
OrderedBut(S) ==
    \A n \in InTree \ (S \union {heap.root}) :
        heap.value[heap.parent[n]].key <= heap.value[n].key

\* The last node when it has no sibling: pop() never looks at it.
LastAlone ==
    {n \in InTree \ {heap.root} :
        heap.index[n] = heap.count /\ heap.right[heap.parent[n]] = Nil}

\* A pop keeps the heap in order up to a last node without a sibling, and further
\* pops do not make it worse; a push keeps a heap in order, and leaves the damage
\* of such a pop where it is (LHeapPush and LHeapPop).
KeepsHeapOrder ==
    [][~raced' =>
          /\ \A S \in SUBSET LastAlone : Push /\ OrderedBut(S) => OrderedBut(S)'
          /\ Pop /\ OrderedBut(LastAlone) => OrderedBut(LastAlone)']_vars
=============================================================================
