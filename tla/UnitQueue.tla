----------------------------- MODULE UnitQueue ------------------------------
(***************************************************************************)
(* What the thread pool can rely on in its queue of work units, and what   *)
(* ThreadPool models of it: which units are in it and which one is first.  *)
(* The first unit is not promised to be the one that goes before all       *)
(* others: a push may only bring up a unit that goes before the first one, *)
(* a pop may bring up any unit.  After a push has raced with a pop the     *)
(* queue is broken: every push and pop may then lose units.                *)
(***************************************************************************)
CONSTANTS Unit, NoUnit, Precedes(_, _)

VARIABLES
    queue,        \* the units in the queue
    first,        \* the one that front() returns and pop() removes
    broken        \* a push has raced with a pop

vars == <<queue, first, broken>>

\* What may be left of the units in S.
Left(S) == IF broken' THEN SUBSET S ELSE {S}

Init ==
    /\ queue = {}
    /\ first = NoUnit
    /\ broken = FALSE

Push(u) ==
    /\ broken' \in {broken, TRUE}
    /\ \E rest \in Left(queue) : queue' = rest \union {u}
    /\ first' \in CASE broken' -> queue'
                    [] ~broken' /\ queue = {} -> {u}
                    [] OTHER -> {first} \union {v \in queue' : Precedes(v, first)}

Pop ==
    /\ queue # {}
    /\ UNCHANGED broken
    /\ queue' \in Left(queue \ {first})
    /\ first' \in IF queue' = {} THEN {NoUnit} ELSE queue'

\* The queue is thrown away when the pool is closed.
Clear ==
    /\ queue' = {}
    /\ first' = NoUnit
    /\ UNCHANGED broken

Next == Pop \/ Clear \/ \E u \in Unit \ queue : Push(u)

Spec == Init /\ [][Next]_vars
=============================================================================
