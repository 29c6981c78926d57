----------------------------- MODULE Iteration ------------------------------
(***************************************************************************)
(* Induction over the natural numbers for a set, from well-foundedness,    *)
(* and what it gives for the loops of the models: functions that are       *)
(* defined by stepping from their first value.                             *)
(***************************************************************************)
EXTENDS Integers, WellFoundedInduction, TLAPS

\* The natural numbers are well ordered.
Less == {p \in Nat \X Nat : p[1] < p[2]}

\* Every set of them that is not empty has a least member.
LEMMA Least ==
    ASSUME NEW T \in SUBSET Nat, T # {}
    PROVE  \E m \in T : \A n \in T : m <= n
<1>1. IsWellFoundedOn(Less, Nat)
  BY NatLessThanWellFounded DEF OpToRel, Less
<1>2. PICK m \in T : \A n \in T : <<n, m>> \notin Less
  BY <1>1, WFMin, Zenon
<1>3. \A n \in T : ~(n < m)
  BY <1>2 DEF Less
<1> QED
  BY <1>3

\* A set with 0 and the successor of each of its members is all of them.
LEMMA Induction ==
    ASSUME NEW T \in SUBSET Nat, 0 \in T, \A k \in T : k + 1 \in T
    PROVE  \A k \in Nat : k \in T
<1> SUFFICES ASSUME Nat \ T # {} PROVE FALSE
  OBVIOUS
<1>1. PICK m \in Nat \ T : \A n \in Nat \ T : m <= n
  BY Least
<1>2. m # 0 /\ m - 1 \in Nat
  BY <1>1
<1>3. m - 1 \in T
  BY <1>1, <1>2
<1> QED
  BY <1>1, <1>3

\* g is what stepping from c gives.
Stepped(g, D, c, step, M) ==
    /\ g \in [0 .. M -> D]
    /\ g = [k \in 0 .. M |-> IF k = 0 THEN c ELSE step[g[k - 1]]]
SteppedAt(g, D, c, step, M) ==
    /\ g \in [0 .. M -> D]
    /\ g = [k \in 0 .. M |-> IF k = 0 THEN c ELSE step[k][g[k - 1]]]

\* Stepping from c in a set closed under the step can be done M times.
LEMMA Steppable ==
    ASSUME NEW D, NEW c \in D, NEW step \in [D -> D], NEW M \in Nat
    PROVE  \E g : Stepped(g, D, c, step, M)
<1> DEFINE Good(m, g) == g = [k \in 0 .. m |-> IF k = 0 THEN c ELSE step[g[k - 1]]]
           T == {m \in Nat : \E g \in [0 .. m -> D] : Good(m, g)}
<1>1. 0 \in T
  <2> DEFINE g == [k \in 0 .. 0 |-> c]
  <2>1. g \in [0 .. 0 -> D] /\ Good(0, g)
    OBVIOUS
  <2> QED
    BY <2>1
<1>2. ASSUME NEW m \in T PROVE m + 1 \in T
  <2>1. PICK g \in [0 .. m -> D] : Good(m, g)
    OBVIOUS
  <2> DEFINE h == [k \in 0 .. m + 1 |-> IF k = m + 1 THEN step[g[m]] ELSE g[k]]
  <2>2. m \in Nat /\ g[m] \in D
    OBVIOUS
  <2>3. h \in [0 .. m + 1 -> D]
    BY <2>2
  <2>4. ASSUME NEW k \in 0 .. m + 1
        PROVE  h[k] = IF k = 0 THEN c ELSE step[h[k - 1]]
    <3>1. CASE k = m + 1
      BY <2>2, <3>1
    <3>2. CASE k # m + 1
      <4>1. k \in 0 .. m /\ h[k] = g[k]
        BY <2>2, <3>2
      <4>2. g[k] = IF k = 0 THEN c ELSE step[g[k - 1]]
        BY <2>1, <4>1
      <4>3. k # 0 => k - 1 \in 0 .. m + 1 /\ h[k - 1] = g[k - 1]
        BY <2>2, <4>1
      <4> QED
        BY <4>1, <4>2, <4>3
    <3> QED
      BY <3>1, <3>2
  <2> HIDE DEF h
  <2>5. h = [k \in 0 .. m + 1 |-> h[k]]
    BY <2>3
  <2>6. Good(m + 1, h)
    BY <2>4, <2>5
  <2> QED
    BY <2>2, <2>3, <2>6
<1> HIDE DEF T
<1>3. M \in T
  <2>1. T \in SUBSET Nat
    BY DEF T
  <2> QED
    BY <1>1, <1>2, <2>1, Induction
<1> QED
  BY <1>3 DEF T, Stepped

LEMMA Iterates ==
    ASSUME NEW D, NEW c \in D, NEW step \in [D -> D], NEW M \in Nat
    PROVE  \E g \in [0 .. M -> D] :
              g = [k \in 0 .. M |-> IF k = 0 THEN c ELSE step[g[k - 1]]]
<1>1. PICK g : Stepped(g, D, c, step, M)
  BY Steppable
<1> QED
  BY <1>1 DEF Stepped

\* So can steps that differ from one another.
LEMMA SteppableAt ==
    ASSUME NEW D, NEW c \in D, NEW M \in Nat, NEW step \in [1 .. M -> [D -> D]]
    PROVE  \E g : SteppedAt(g, D, c, step, M)
<1> DEFINE Good(m, g) == g = [k \in 0 .. m |-> IF k = 0 THEN c ELSE step[k][g[k - 1]]]
           T == {m \in Nat : m \in 0 .. M => \E g \in [0 .. m -> D] : Good(m, g)}
<1>1. 0 \in T
  <2> DEFINE g == [k \in 0 .. 0 |-> c]
  <2>1. g \in [0 .. 0 -> D] /\ Good(0, g)
    OBVIOUS
  <2> QED
    BY <2>1
<1>2. ASSUME NEW m \in T, m + 1 \in 0 .. M
      PROVE  \E g \in [0 .. m + 1 -> D] : Good(m + 1, g)
  <2>1. m \in Nat /\ m \in 0 .. M /\ m + 1 \in 1 .. M
    BY <1>2
  <2>2. PICK g \in [0 .. m -> D] : Good(m, g)
    BY <2>1
  <2>3. g[m] \in D /\ step[m + 1] \in [D -> D]
    BY <2>1
  <2>4. PICK d \in D : d = step[m + 1][g[m]]
    BY <2>3
  <2> DEFINE h == [k \in 0 .. m + 1 |-> IF k = m + 1 THEN d ELSE g[k]]
  <2>5. h \in [0 .. m + 1 -> D]
    BY <2>1, <2>4
  <2>6. ASSUME NEW k \in 0 .. m + 1
        PROVE  h[k] = IF k = 0 THEN c ELSE step[k][h[k - 1]]
    <3>1. CASE k = m + 1
      BY <2>1, <2>4, <3>1
    <3>2. CASE k # m + 1
      <4>1. k \in 0 .. m /\ h[k] = g[k]
        BY <2>1, <3>2
      <4>2. g[k] = IF k = 0 THEN c ELSE step[k][g[k - 1]]
        BY <2>2, <4>1
      <4>3. k # 0 => k - 1 \in 0 .. m + 1 /\ h[k - 1] = g[k - 1]
        BY <2>1, <4>1
      <4> QED
        BY <4>1, <4>2, <4>3
    <3> QED
      BY <3>1, <3>2
  <2> HIDE DEF h
  <2>7. h = [k \in 0 .. m + 1 |-> h[k]]
    BY <2>5
  <2>8. Good(m + 1, h)
    BY <2>6, <2>7
  <2> QED
    BY <2>5, <2>8
<1>3. ASSUME NEW m \in T PROVE m + 1 \in T
  <2>1. m + 1 \in 0 .. M => \E g \in [0 .. m + 1 -> D] : Good(m + 1, g)
    BY <1>2
  <2>2. m + 1 \in Nat
    OBVIOUS
  <2> HIDE DEF Good
  <2> QED
    BY <2>1, <2>2
<1> HIDE DEF T
<1>4. M \in T
  <2>1. T \in SUBSET Nat
    BY DEF T
  <2> QED
    BY <1>1, <1>3, <2>1, Induction
<1> QED
  BY <1>4 DEF T, SteppedAt
=============================================================================
