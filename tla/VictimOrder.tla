---------------------------- MODULE VictimOrder -----------------------------
(***************************************************************************)
(* What a replacement policy promises: the cached buffers in the order in  *)
(* which they will be victims.  An access puts a buffer behind every other *)
(* whose rank is not higher and before the rest, all the others keep their *)
(* order.                                                                  *)
(***************************************************************************)
EXTENDS Naturals, SequencesExt

CONSTANT Buffer

VARIABLES
    ranked,       \* accesses are counted (LFU); otherwise only the last counts
    order,        \* the buffers, the next victim first
    count         \* accesses of each buffer, when they are counted

vars == <<ranked, order, count>>

Init ==
    /\ ranked \in BOOLEAN
    /\ order = <<>>
    /\ count = [x \in Buffer |-> 0]

\* s without x, which it holds at most once.
Without(s, x) ==
    LET at == {i \in DOMAIN s : s[i] = x}
    IN IF at = {} THEN s ELSE RemoveAt(s, CHOOSE i \in at : TRUE)

Access(x) ==
    LET others == Without(order, x)
    IN /\ count' = [count EXCEPT ![x] = IF ranked THEN @ + 1 ELSE @]
       /\ \E i \in 1 .. Len(others) + 1 :
            /\ \A k \in DOMAIN others : k < i <=> count'[others[k]] <= count'[x]
            /\ order' = InsertAt(others, i, x)
       /\ UNCHANGED ranked

Evict(x) ==
    /\ order' = Without(order, x)
    /\ UNCHANGED <<ranked, count>>

Next == \E x \in Buffer : Access(x) \/ Evict(x)

Spec == Init /\ [][Next]_vars
=============================================================================
