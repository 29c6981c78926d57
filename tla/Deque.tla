------------------------------- MODULE Deque --------------------------------
(***************************************************************************)
(* shared/doubly_linked_deque.c at the level of its pointers: the          *)
(* operations the replacement policies use, each on a whole deque, since   *)
(* the policy's lock is held around every sequence of them.                *)
(***************************************************************************)
EXTENDS Integers, Sequences, FiniteSets

CONSTANT MaxNodes     \* bound: nodes one run may allocate

ASSUME DequeAssumption == MaxNodes \in Nat

Node == 1 .. MaxNodes
Nil == 0
Pointer == Node \union {Nil}

\* value: what a node carries, from the set V.  The links of a node are kept
\* here as well, also after it was popped: its structure still has them.
Deque(V) == [first: Pointer, last: Pointer, count: Nat,
             next: [Node -> Pointer], previous: [Node -> Pointer],
             value: [Node -> V]]

\* newDoublyLinkedDeque; v is the value of a node that is not allocated yet.
NewDeque(v) == [first |-> Nil, last |-> Nil, count |-> 0,
                next |-> [n \in Node |-> Nil],
                previous |-> [n \in Node |-> Nil],
                value |-> [n \in Node |-> v]]

\* One field of the nodes, with that of n set to m, when there is a node n.
Link(field, n, m) == IF n = Nil THEN field ELSE [field EXCEPT ![n] = m]

\* Mutant: the node before is not told of the node after.
PopAtForgets(d, at) ==
    LET p == d.previous[at]
        n == d.next[at]
    IN [d EXCEPT !.first = IF d.first = at THEN n ELSE d.first,
                 !.last = IF d.last = at THEN p ELSE d.last,
                 !.count = d.count - 1,
                 !.previous = Link(d.previous, n, p)]

\* popAt: the node leaves the chain, its own pointers stay.
PopAt(d, at) ==
    LET p == d.previous[at]
        n == d.next[at]
    IN [d EXCEPT !.first = IF d.first = at THEN n ELSE d.first,
                 !.last = IF d.last = at THEN p ELSE d.last,
                 !.count = d.count - 1,
                 !.next = Link(d.next, p, n),
                 !.previous = Link(d.previous, n, p)]

\* newDoublyLInkedDequeInternalNode: a new node n has no neighbours.
Fresh(links, n) == Link(links, n, Nil)

\* pushFirst and pushLast of the new node n with value v
PushFirst(d, n, v) ==
    [d EXCEPT !.first = n,
              !.last = IF d.count = 0 THEN n ELSE d.last,
              !.count = d.count + 1,
              !.next = Link(d.next, n, IF d.count = 0 THEN Nil ELSE d.first),
              !.previous = IF d.count = 0 THEN Fresh(d.previous, n)
                           ELSE Link(Fresh(d.previous, n), d.first, n),
              !.value = Link(d.value, n, v)]

PushLast(d, n, v) ==
    [d EXCEPT !.first = IF d.count = 0 THEN n ELSE d.first,
              !.last = n,
              !.count = d.count + 1,
              !.next = IF d.count = 0 THEN Fresh(d.next, n)
                       ELSE Link(Fresh(d.next, n), d.last, n),
              !.previous = Link(d.previous, n, IF d.count = 0 THEN Nil ELSE d.last),
              !.value = Link(d.value, n, v)]

\* Which node first and last point at after dest and src changed places.
SwitchedFirst(d, dest, src) ==
    LET ends == {d.first, d.last}
    IN CASE dest \in ends /\ src \in ends -> d.last
         [] dest \in ends /\ src \notin ends -> src
         [] dest \notin ends /\ src = d.first -> dest
         [] OTHER -> d.first

SwitchedLast(d, dest, src) ==
    LET ends == {d.first, d.last}
    IN CASE dest \in ends /\ src \in ends -> d.first
         [] dest \notin ends /\ src = d.last /\ src # d.first -> dest
         [] OTHER -> d.last

\* switchNode: the assignments in the order of the code, which assumes that
\* src follows dest.
SwitchNode(d, dest, src) ==
    LET dp == d.previous[dest]  dn == d.next[dest]
        sp == d.previous[src]   sn == d.next[src]
    IN [d EXCEPT
          !.first = SwitchedFirst(d, dest, src),
          !.last = SwitchedLast(d, dest, src),
          !.next = Link(Link(Link(Link(d.next, dp, src), src, sp), sp, dest), dest, sn),
          !.previous = Link(Link(Link(Link(d.previous, dn, src), src, dp), sn, dest), dest, dn)]
-----------------------------------------------------------------------------
\* The k-th node from one end of the deque, following links.
Nth(start, links) ==
    LET nth[k \in 1 .. MaxNodes + 1] ==
            IF k = 1 THEN start
            ELSE IF nth[k - 1] = Nil THEN Nil ELSE links[nth[k - 1]]
    IN nth

\* The nodes from one end to the other; a chain that comes back to itself
\* gives more of them than there are.
Chain(start, links) ==
    LET nth == Nth(start, links)
    IN [k \in 1 .. Cardinality({k \in 1 .. MaxNodes + 1 : nth[k] # Nil}) |-> nth[k]]

\* The values in the order of the deque, the first one first.
Contents(d) ==
    LET nodes == Chain(d.first, d.next)
    IN [k \in DOMAIN nodes |-> d.value[nodes[k]]]

\* What the operations rely on: both directions lead through the same count
\* nodes, each once.
Sound(d) ==
    LET forth == Chain(d.first, d.next)
        back == Chain(d.last, d.previous)
    IN /\ Len(forth) = d.count
       /\ Len(back) = d.count
       /\ d.count <= MaxNodes
       /\ \A k \in 1 .. d.count : forth[k] = back[d.count + 1 - k]
=============================================================================
