----------------------------- MODULE HeapProofs -----------------------------
(***************************************************************************)
(* The heap of the unit queue, for every number of units and all keys.     *)
(*                                                                         *)
(* A node is made before its place in the tree is looked for, so a child   *)
(* is always a younger node than its parent (Linked).  That is what makes  *)
(* every walk end, also in a tree a race has damaged, and what the nodes   *)
(* in the tree can be known by: the least set with the root that is closed *)
(* under children.                                                         *)
(***************************************************************************)
EXTENDS LinkedHeap, Iteration, FiniteSetTheorems

\* Links lead down to younger nodes and parent leads back.
Linked(h) ==
    /\ \A m \in Node :
          /\ \A c \in Children(h, m) : c > m /\ h.parent[c] = m
          /\ h.left[m] = h.right[m] => h.left[m] = Nil
          /\ h.parent[m] < m
    /\ h.root # Nil => h.parent[h.root] = Nil

Closed(h, S) == \A m \in S : Children(h, m) \subseteq S

USE DEF Nil
-----------------------------------------------------------------------------
(* The nodes in the tree *)

LEMMA NodeFacts == MaxUnits \in Nat /\ Node \subseteq Nat /\ 0 \notin Node
BY LinkedHeapAssumption DEF Node

LEMMA LinkTypes ==
    ASSUME NEW h \in Heap, NEW m \in Node
    PROVE  /\ h.left[m] \in Pointer /\ h.right[m] \in Pointer /\ h.parent[m] \in Pointer
           /\ h.index[m] \in Nat /\ Children(h, m) \subseteq Node
           /\ h.value[m] \in Unit \union {NoUnit}
BY DEF Heap, Children, Pointer

\* Below collects the children of what it has, as often as there are nodes.
LEMMA Reaches ==
    ASSUME NEW h \in Heap, NEW r \in Pointer
    PROVE  \E f \in [0 .. MaxUnits -> SUBSET Node] :
              /\ f[0] = {r} \ {Nil}
              /\ \A k \in 0 .. MaxUnits \ {0} :
                    f[k] = f[k - 1] \union UNION {Children(h, m) : m \in f[k - 1]}
              /\ Below(h, r) = f[MaxUnits]
<1> DEFINE D == SUBSET Node
           Further(S) == S \union UNION {Children(h, m) : m \in S}
           step == [S \in D |-> Further(S)]
           c == {r} \ {Nil}
           Steps(f) == f = [k \in 0 .. MaxUnits |->
                               IF k = 0 THEN c ELSE Further(f[k - 1])]
<1>1. MaxUnits \in Nat /\ c \in D
  BY NodeFacts DEF Pointer
<1>2. ASSUME NEW S \in D
      PROVE  Further(S) \in D
  BY LinkTypes
<1>3. step \in [D -> D]
  BY <1>2
<1> HIDE DEF D, c
<1>4. PICK g \in [0 .. MaxUnits -> D] :
         g = [k \in 0 .. MaxUnits |-> IF k = 0 THEN c ELSE step[g[k - 1]]]
  <2> HIDE DEF step
  <2> QED
    BY <1>1, <1>3, Iterates
<1>5. Steps(g)
  <2>1. ASSUME NEW k \in 0 .. MaxUnits, k # 0 PROVE step[g[k - 1]] = Further(g[k - 1])
    <3>1. k - 1 \in 0 .. MaxUnits
      BY <1>1, <2>1
    <3>2. g[k - 1] \in D
      BY <3>1
    <3> QED
      BY <3>2
  <2> HIDE DEF step
  <2> QED
    BY <1>4, <2>1
<1>6. PICK f : f = CHOOSE e : Steps(e)
  OBVIOUS
<1>7. Steps(f)
  <2> HIDE DEF Steps
  <2> QED
    BY <1>5, <1>6
<1>8. Below(h, r) = f[MaxUnits]
  BY <1>6 DEF Below, c
<1>9. \A k \in 0 .. MaxUnits : f[k] = IF k = 0 THEN c ELSE Further(f[k - 1])
  BY <1>7
<1> HIDE DEF Further, step
<1> DEFINE T == {k \in Nat : k \in 0 .. MaxUnits => f[k] \in D}
<1>10. \A k \in Nat : k \in T
  <2>1. 0 \in T /\ T \in SUBSET Nat
    BY <1>1, <1>9
  <2>2. ASSUME NEW k \in T PROVE k + 1 \in T
    BY <1>1, <1>2, <1>9
  <2> HIDE DEF T
  <2> QED
    BY <2>1, <2>2, Induction
<1>11. \A k \in 0 .. MaxUnits : f[k] \in D
  BY <1>10
<1>12. f \in [0 .. MaxUnits -> SUBSET Node]
  BY <1>7, <1>11 DEF D
<1>13. \A k \in 0 .. MaxUnits \ {0} :
          f[k] = f[k - 1] \union UNION {Children(h, m) : m \in f[k - 1]}
  <2> TAKE k \in 0 .. MaxUnits \ {0}
  <2>1. k - 1 \in 0 .. MaxUnits
    BY <1>1
  <2> QED
    BY <1>9, <2>1 DEF Further
<1> QED
  BY <1>1, <1>8, <1>9, <1>12, <1>13 DEF c
\* A node that is reached is reached within as many steps as it has
\* predecessors, and what is below r is the least closed set with r.
LEMMA BelowLeast ==
    ASSUME NEW h \in Heap, Linked(h), NEW r \in Pointer
    PROVE  /\ Below(h, r) \in SUBSET Node
           /\ {r} \ {Nil} \subseteq Below(h, r)
           /\ Closed(h, Below(h, r))
           /\ \A S \in SUBSET Node :
                 {r} \ {Nil} \subseteq S /\ Closed(h, S) => Below(h, r) \subseteq S
<1>1. PICK f \in [0 .. MaxUnits -> SUBSET Node] :
         /\ f[0] = {r} \ {Nil}
         /\ \A k \in 0 .. MaxUnits \ {0} :
               f[k] = f[k - 1] \union UNION {Children(h, m) : m \in f[k - 1]}
         /\ Below(h, r) = f[MaxUnits]
  BY Reaches
<1>2. MaxUnits \in Nat /\ MaxUnits \in 0 .. MaxUnits /\ Node = 1 .. MaxUnits
  BY NodeFacts DEF Node
<1>3. ASSUME NEW k \in Nat, k + 1 \in 0 .. MaxUnits
      PROVE  /\ k \in 0 .. MaxUnits /\ f[k] \subseteq Node
             /\ f[k] \subseteq f[k + 1]
             /\ \A m \in f[k] : Children(h, m) \subseteq f[k + 1]
             /\ \A c \in f[k + 1] : c \in f[k] \/ \E m \in f[k] : c \in Children(h, m)
  <2>1. k \in 0 .. MaxUnits /\ k + 1 # 0 /\ (k + 1) - 1 = k
    BY <1>2, <1>3
  <2>2. f[k + 1] = f[k] \union UNION {Children(h, m) : m \in f[k]}
    BY <1>1, <1>3, <2>1
  <2> QED
    BY <2>1, <2>2
<1> DEFINE Grown == {k \in Nat : k \in 0 .. MaxUnits => \A j \in 0 .. k : f[j] \subseteq f[k]}
<1>4. \A k \in Nat : k \in Grown
  <2>1. 0 \in Grown
    OBVIOUS
  <2>2. ASSUME NEW k \in Grown PROVE k + 1 \in Grown
    <3> SUFFICES ASSUME k + 1 \in 0 .. MaxUnits, NEW j \in 0 .. k + 1
                 PROVE  f[j] \subseteq f[k + 1]
      OBVIOUS
    <3>1. k \in 0 .. MaxUnits /\ f[k] \subseteq f[k + 1]
      BY <1>3
    <3>2. j = k + 1 \/ j \in 0 .. k
      OBVIOUS
    <3> QED
      BY <3>1, <3>2
  <2> HIDE DEF Grown
  <2>3. Grown \in SUBSET Nat
    BY DEF Grown
  <2> QED
    BY <2>1, <2>2, <2>3, Induction
<1>5. \A k \in 0 .. MaxUnits : \A j \in 0 .. k : f[j] \subseteq f[k]
  BY <1>2, <1>4
<1> HIDE DEF Grown
<1> DEFINE Early == {k \in Nat : k \in 0 .. MaxUnits => \A m \in f[k] : m \in f[m]}
<1>6. \A k \in Nat : k \in Early
  <2>1. 0 \in Early
    <3>1. ASSUME NEW m \in f[0] PROVE m \in f[m]
      <4>1. m \in Node /\ m \in 0 .. MaxUnits /\ 0 \in 0 .. m
        BY <1>1, <1>2
      <4> QED
        BY <1>5, <4>1
    <3> QED
      BY <3>1
  <2>2. ASSUME NEW k \in Early PROVE k + 1 \in Early
    <3> SUFFICES ASSUME k + 1 \in 0 .. MaxUnits, NEW c \in f[k + 1]
                 PROVE  c \in f[c]
      OBVIOUS
    <3>1. k \in 0 .. MaxUnits /\ \A m \in f[k] : m \in f[m]
      BY <1>3
    <3>2. CASE c \in f[k]
      BY <3>1, <3>2
    <3>3. CASE c \notin f[k]
      <4>1. PICK m \in f[k] : c \in Children(h, m)
        BY <1>3, <3>3
      <4>2. m \in Node /\ c \in Node /\ c > m
        BY <1>3, <4>1, LinkTypes DEF Linked
      <4>3. m \in Nat /\ m + 1 \in 0 .. MaxUnits /\ c \in 0 .. MaxUnits /\ m + 1 \in 0 .. c
        BY <1>2, <4>2
      <4>4. c \in f[m + 1]
        BY <1>3, <3>1, <4>1, <4>3
      <4> QED
        BY <1>5, <4>3, <4>4
    <3> QED
      BY <3>2, <3>3
  <2> HIDE DEF Early
  <2>3. Early \in SUBSET Nat
    BY DEF Early
  <2> QED
    BY <2>1, <2>2, <2>3, Induction
<1>7. Closed(h, f[MaxUnits])
  <2> SUFFICES ASSUME NEW m \in f[MaxUnits], NEW c \in Children(h, m)
               PROVE  c \in f[MaxUnits]
    BY DEF Closed
  <2>1. m \in Node /\ c \in Node /\ c > m
    BY <1>1, <1>2, LinkTypes DEF Linked
  <2>2. m \in Nat /\ m + 1 \in 0 .. MaxUnits
    BY <1>2, <2>1
  <2>3. m \in f[m]
    BY <1>2, <1>6 DEF Early
  <2>4. c \in f[m + 1]
    BY <1>3, <2>2, <2>3
  <2> QED
    BY <1>2, <1>5, <2>2, <2>4
<1>8. ASSUME NEW S \in SUBSET Node, {r} \ {Nil} \subseteq S, Closed(h, S)
      PROVE  f[MaxUnits] \subseteq S
  <2> DEFINE Inside == {k \in Nat : k \in 0 .. MaxUnits => f[k] \subseteq S}
  <2>1. 0 \in Inside
    BY <1>1, <1>8
  <2>2. ASSUME NEW k \in Inside PROVE k + 1 \in Inside
    <3> SUFFICES ASSUME k + 1 \in 0 .. MaxUnits, NEW c \in f[k + 1] PROVE c \in S
      OBVIOUS
    <3>1. f[k] \subseteq S
      BY <1>3
    <3>2. c \in f[k] \/ \E m \in f[k] : c \in Children(h, m)
      BY <1>3
    <3> QED
      BY <1>8, <3>1, <3>2 DEF Closed
  <2> HIDE DEF Inside
  <2>3. Inside \in SUBSET Nat
    BY DEF Inside
  <2>4. MaxUnits \in Inside
    BY <1>2, <2>1, <2>2, <2>3, Induction
  <2> QED
    BY <1>2, <2>4 DEF Inside
<1>9. f[0] \subseteq f[MaxUnits]
  BY <1>2, <1>5
<1> QED
  BY <1>1, <1>2, <1>7, <1>8, <1>9

\* The tree of h.
LEMMA TreeFacts ==
    ASSUME NEW h \in Heap, Linked(h), NEW T, T = Below(h, h.root)
    PROVE  /\ T \in SUBSET Node /\ Closed(h, T)
           /\ h.root = Nil => T = {}
           /\ h.root # Nil => h.root \in T /\ h.root \in Node /\ h.parent[h.root] = Nil
           /\ \A S \in SUBSET Node :
                 {h.root} \ {Nil} \subseteq S /\ Closed(h, S) => T \subseteq S
           /\ \A n \in T \ {h.root} :
                 h.parent[n] \in T /\ n \in Children(h, h.parent[n])
<1>1. h.root \in Pointer
  BY DEF Heap
<1>2. /\ T \in SUBSET Node /\ Closed(h, T) /\ {h.root} \ {Nil} \subseteq T
      /\ \A S \in SUBSET Node :
            {h.root} \ {Nil} \subseteq S /\ Closed(h, S) => T \subseteq S
  BY <1>1, BelowLeast
<1>3. h.root = Nil => T = {}
  <2>1. Closed(h, {})
    BY DEF Closed
  <2> QED
    BY <1>2, <2>1
<1>4. h.root # Nil => h.root \in T /\ h.root \in Node /\ h.parent[h.root] = Nil
  BY <1>2 DEF Linked
<1>5. ASSUME NEW n \in T \ {h.root}
      PROVE  h.parent[n] \in T /\ n \in Children(h, h.parent[n])
  <2> DEFINE S == {m \in T : m = h.root \/ (h.parent[m] \in T /\ m \in Children(h, h.parent[m]))}
  <2>1. S \in SUBSET Node /\ {h.root} \ {Nil} \subseteq S
    BY <1>2
  <2>2. Closed(h, S)
    <3> SUFFICES ASSUME NEW m \in S, NEW c \in Children(h, m) PROVE c \in S
      BY DEF Closed
    <3>1. c \in T /\ m \in T /\ h.parent[c] = m
      BY <1>2 DEF Closed, Linked
    <3> QED
      BY <3>1
  <2>3. T \subseteq S
    BY <1>2, <2>1, <2>2
  <2> QED
    BY <2>3
<1> QED
  BY <1>2, <1>3, <1>4, <1>5

LEMMA RootInside ==
    ASSUME NEW h \in Heap, Linked(h), h.root # Nil
    PROVE  h.root \in Below(h, h.root)
BY TreeFacts
-----------------------------------------------------------------------------
(* The two loops *)

\* u is h up to the values of its nodes, which are those of h inside T.
SameLinks(h, u) ==
    /\ u \in Heap /\ u.root = h.root /\ u.count = h.count
    /\ u.left = h.left /\ u.right = h.right
    /\ u.parent = h.parent /\ u.index = h.index
Values(h, T) == {h.value[m] : m \in T}
Distinct(h, T) == \A m, n \in T : h.value[m] = h.value[n] => m = n
Shuffled(h, u, T) ==
    /\ SameLinks(h, u)
    /\ Values(u, T) = Values(h, T)
    /\ \A m \in Node \ T : u.value[m] = h.value[m]
    /\ Distinct(h, T) => Distinct(u, T)

LEMMA SwapShuffles ==
    ASSUME NEW h \in Heap, NEW T \in SUBSET Node, NEW a \in T, NEW b \in T, a # b
    PROVE  /\ Shuffled(h, Swap(h, a, b), T)
           /\ Swap(h, a, b).value = [h.value EXCEPT ![a] = h.value[b], ![b] = h.value[a]]
<1> DEFINE u == Swap(h, a, b)
<1>1. /\ u \in Heap /\ SameLinks(h, u)
      /\ u.value = [h.value EXCEPT ![a] = h.value[b], ![b] = h.value[a]]
  BY DEF Swap, Heap, SameLinks
<1>2. \A m \in Node : u.value[m] = IF m = a THEN h.value[b]
                                   ELSE IF m = b THEN h.value[a] ELSE h.value[m]
  BY <1>1 DEF Heap
<1> HIDE DEF u
<1>3. Values(u, T) = Values(h, T)
  BY <1>2 DEF Values
<1>4. Distinct(h, T) => Distinct(u, T)
  BY <1>2 DEF Distinct
<1>5. \A m \in Node \ T : u.value[m] = h.value[m]
  BY <1>2
<1> QED
  BY <1>1, <1>3, <1>4, <1>5 DEF Shuffled, u

\* The loop of push() as a sequence of its states.
LEMMA Ups ==
    ASSUME NEW h \in Heap, NEW n \in Node
    PROVE  \E f \in [0 .. MaxUnits -> [heap: Heap, node: Node]] :
              /\ f[0] = [heap |-> h, node |-> n]
              /\ \A k \in 0 .. MaxUnits \ {0} : f[k] = StepUp(f[k - 1])
              /\ SiftedUp(h, n) = f[MaxUnits].heap
<1> DEFINE D == [heap: Heap, node: Node]
           step == [s \in D |-> StepUp(s)]
           c == [heap |-> h, node |-> n]
           Steps(f) == f = [k \in 0 .. MaxUnits |->
                               IF k = 0 THEN c ELSE StepUp(f[k - 1])]
<1>1. MaxUnits \in Nat /\ c \in D
  BY NodeFacts
<1>2. ASSUME NEW s \in D PROVE StepUp(s) \in D
  <2>1. s.heap \in Heap /\ s.node \in Node /\ s.heap.parent[s.node] \in Pointer
    BY LinkTypes
  <2>2. CASE s.heap.parent[s.node] = Nil
    BY <2>2 DEF StepUp
  <2>3. CASE s.heap.parent[s.node] # Nil
    <3>1. PICK p \in Node : p = s.heap.parent[s.node]
      BY <2>1, <2>3 DEF Pointer
    <3>2. Swap(s.heap, s.node, p) \in Heap
      BY <2>1 DEF Swap, Heap
    <3> QED
      BY <2>1, <2>3, <3>1, <3>2 DEF StepUp
  <2> QED
    BY <2>2, <2>3
<1>3. step \in [D -> D]
  BY <1>2
<1> HIDE DEF D, c
<1>4. PICK g \in [0 .. MaxUnits -> D] :
         g = [k \in 0 .. MaxUnits |-> IF k = 0 THEN c ELSE step[g[k - 1]]]
  <2> HIDE DEF step
  <2> QED
    BY <1>1, <1>3, Iterates
<1>5. Steps(g)
  <2>1. ASSUME NEW k \in 0 .. MaxUnits, k # 0 PROVE step[g[k - 1]] = StepUp(g[k - 1])
    <3>1. k - 1 \in 0 .. MaxUnits
      BY <1>1, <2>1
    <3>2. g[k - 1] \in D
      BY <3>1
    <3> QED
      BY <3>2
  <2> HIDE DEF step
  <2> QED
    BY <1>4, <2>1
<1>6. PICK f : f = CHOOSE e : Steps(e)
  OBVIOUS
<1>7. Steps(f)
  <2> HIDE DEF Steps
  <2> QED
    BY <1>5, <1>6
<1>8. SiftedUp(h, n) = f[MaxUnits].heap
  BY <1>6 DEF SiftedUp, c
<1>9. \A k \in 0 .. MaxUnits : f[k] = IF k = 0 THEN c ELSE StepUp(f[k - 1])
  BY <1>7
<1> HIDE DEF step
<1> DEFINE T == {k \in Nat : k \in 0 .. MaxUnits => f[k] \in D}
<1>10. \A k \in Nat : k \in T
  <2>1. 0 \in T /\ T \in SUBSET Nat
    BY <1>1, <1>9
  <2>2. ASSUME NEW k \in T PROVE k + 1 \in T
    BY <1>1, <1>2, <1>9
  <2> HIDE DEF T
  <2> QED
    BY <2>1, <2>2, Induction
<1>11. f \in [0 .. MaxUnits -> D]
  <2>1. \A k \in 0 .. MaxUnits : f[k] \in D
    BY <1>10
  <2> HIDE DEF T
  <2> QED
    BY <1>7, <2>1
<1> QED
  BY <1>1, <1>8, <1>9, <1>11 DEF c, D

\* That of pop().
LEMMA Downs ==
    ASSUME NEW h \in Heap
    PROVE  \E f \in [0 .. MaxUnits -> [heap: Heap, node: Pointer]] :
              /\ f[0] = [heap |-> h, node |-> h.root]
              /\ \A k \in 0 .. MaxUnits \ {0} : f[k] = StepDown(f[k - 1])
              /\ SiftedDown(h) = f[MaxUnits].heap
<1> DEFINE D == [heap: Heap, node: Pointer]
           step == [s \in D |-> StepDown(s)]
           c == [heap |-> h, node |-> h.root]
           Steps(f) == f = [k \in 0 .. MaxUnits |->
                               IF k = 0 THEN c ELSE StepDown(f[k - 1])]
<1>1. MaxUnits \in Nat /\ c \in D
  BY NodeFacts DEF Heap
<1>2. ASSUME NEW s \in D PROVE StepDown(s) \in D
  <2>1. s.heap \in Heap /\ s.node \in Pointer
    OBVIOUS
  <2>2. CASE s.node = Nil
    BY <2>2 DEF StepDown
  <2>3. CASE s.node # Nil
    <3>1. s.node \in Node
      BY <2>1, <2>3 DEF Pointer
    <3>2. PICK d \in Pointer : d = NextDown(s.heap, s.node)
      BY <2>1, <3>1, LinkTypes DEF NextDown
    <3>3. d # Nil => Swap(s.heap, d, s.node) \in Heap
      BY <2>1, <3>1 DEF Swap, Heap, Pointer
    <3> QED
      BY <2>1, <2>3, <3>2, <3>3 DEF StepDown
  <2> QED
    BY <2>2, <2>3
<1>3. step \in [D -> D]
  BY <1>2
<1> HIDE DEF D, c
<1>4. PICK g \in [0 .. MaxUnits -> D] :
         g = [k \in 0 .. MaxUnits |-> IF k = 0 THEN c ELSE step[g[k - 1]]]
  <2> HIDE DEF step
  <2> QED
    BY <1>1, <1>3, Iterates
<1>5. Steps(g)
  <2>1. ASSUME NEW k \in 0 .. MaxUnits, k # 0 PROVE step[g[k - 1]] = StepDown(g[k - 1])
    <3>1. k - 1 \in 0 .. MaxUnits
      BY <1>1, <2>1
    <3>2. g[k - 1] \in D
      BY <3>1
    <3> QED
      BY <3>2
  <2> HIDE DEF step
  <2> QED
    BY <1>4, <2>1
<1>6. PICK f : f = CHOOSE e : Steps(e)
  OBVIOUS
<1>7. Steps(f)
  <2> HIDE DEF Steps
  <2> QED
    BY <1>5, <1>6
<1>8. SiftedDown(h) = f[MaxUnits].heap
  BY <1>6 DEF SiftedDown, c
<1>9. \A k \in 0 .. MaxUnits : f[k] = IF k = 0 THEN c ELSE StepDown(f[k - 1])
  BY <1>7
<1> HIDE DEF step
<1> DEFINE T == {k \in Nat : k \in 0 .. MaxUnits => f[k] \in D}
<1>10. \A k \in Nat : k \in T
  <2>1. 0 \in T /\ T \in SUBSET Nat
    BY <1>1, <1>9
  <2>2. ASSUME NEW k \in T PROVE k + 1 \in T
    BY <1>1, <1>2, <1>9
  <2> HIDE DEF T
  <2> QED
    BY <2>1, <2>2, Induction
<1>11. f \in [0 .. MaxUnits -> D]
  <2>1. \A k \in 0 .. MaxUnits : f[k] \in D
    BY <1>10
  <2> HIDE DEF T
  <2> QED
    BY <1>7, <2>1
<1> QED
  BY <1>1, <1>8, <1>9, <1>11 DEF c, D
\* Linked and the nodes of the tree only depend on the links.
LEMMA SameTree ==
    ASSUME NEW h \in Heap, Linked(h), NEW u, SameLinks(h, u)
    PROVE  /\ u \in Heap /\ Linked(u) /\ Below(u, u.root) = Below(h, h.root)
           /\ \A m \in Node : Children(u, m) = Children(h, m)
<1>1. u \in Heap /\ u.root = h.root /\ \A m \in Node : Children(u, m) = Children(h, m)
  BY DEF SameLinks, Children
<1>2. Linked(u)
  BY <1>1 DEF Linked, SameLinks
<1>3. PICK T, V : T = Below(h, h.root) /\ V = Below(u, u.root)
  OBVIOUS
<1>4. T \in SUBSET Node /\ V \in SUBSET Node /\ Closed(h, T) /\ Closed(u, V)
  BY <1>1, <1>2, <1>3, TreeFacts
<1>5. Closed(u, T) /\ Closed(h, V)
  BY <1>1, <1>4 DEF Closed
<1>6. {h.root} \ {Nil} \subseteq T /\ {u.root} \ {Nil} \subseteq V
  BY <1>1, <1>2, <1>3, TreeFacts
<1>7. T = V
  BY <1>1, <1>2, <1>3, <1>4, <1>5, <1>6, TreeFacts
<1> QED
  BY <1>1, <1>2, <1>3, <1>7

\* Nodes of T, but for those of S, are not lower than their parents.
OrderedIn(h, T, S) ==
    \A c \in T \ (S \union {h.root}) : h.value[h.parent[c]].key <= h.value[c].key

\* The children of x, but for those of S, are not lower than its parent.
Skips(h, x, S) ==
    x # h.root => \A c \in Children(h, x) \ S : h.value[h.parent[x]].key <= h.value[c].key

\* What a tree of units is.
IsTree(h, T) ==
    /\ h \in Heap /\ Linked(h) /\ T = Below(h, h.root)
    /\ \A m \in T : h.value[m] \in Unit

LEMMA TreeKeys ==
    ASSUME NEW h, NEW T, IsTree(h, T), NEW m \in T
    PROVE  m \in Node /\ m \in Nat /\ m # 0 /\ h.value[m].key \in Int
<1>1. T \in SUBSET Node
  BY TreeFacts DEF IsTree
<1>2. m \in Node /\ m \in Nat /\ m # 0
  BY <1>1, NodeFacts
<1>3. h.value[m] \in Unit
  BY DEF IsTree
<1> QED
  BY <1>2, <1>3, LinkedHeapAssumption DEF Unit

LEMMA ShuffledTree ==
    ASSUME NEW h, NEW T, IsTree(h, T), NEW u, Shuffled(h, u, T)
    PROVE  IsTree(u, T) /\ u.root = h.root /\ \A m \in T : Children(u, m) = Children(h, m)
<1>1. /\ u \in Heap /\ Linked(u) /\ T = Below(u, u.root) /\ u.root = h.root
      /\ \A m \in T : Children(u, m) = Children(h, m)
  BY SameTree, TreeFacts DEF IsTree, Shuffled, SameLinks
<1>2. ASSUME NEW m \in T PROVE u.value[m] \in Unit
  <2>1. u.value[m] \in Values(h, T)
    BY DEF Shuffled, Values
  <2> QED
    BY <2>1 DEF Values, IsTree
<1> QED
  BY <1>1, <1>2 DEF IsTree

LEMMA ShuffledTwice ==
    ASSUME NEW h, NEW u, NEW v, NEW T, Shuffled(h, u, T), Shuffled(u, v, T)
    PROVE  Shuffled(h, v, T)
BY DEF Shuffled, SameLinks

LEMMA ShuffledNot ==
    ASSUME NEW h \in Heap, NEW T
    PROVE  Shuffled(h, h, T)
BY DEF Shuffled, SameLinks

\* One step up: the node that may be too low, besides leaves beside the way, is
\* now the parent.
StepsUp(h, T, S, x, s) ==
    /\ Shuffled(h, s.heap, T)
    /\ x = h.root => s = [heap |-> h, node |-> x]
    /\ x # h.root => s.node \in T /\ s.node < x /\ s.node \notin S
    /\ s.heap.value[h.root].key <= h.value[h.root].key
    /\ OrderedIn(h, T, S \union {x}) /\ Skips(h, x, S) =>
          OrderedIn(s.heap, T, S \union {s.node}) /\ Skips(s.heap, s.node, S)

LEMMA OneUp ==
    ASSUME NEW h, NEW T, IsTree(h, T), NEW x \in T, NEW s,
           NEW S, \A c \in S : Children(h, c) = {}, x \notin S,
           s = StepUp([heap |-> h, node |-> x])
    PROVE  StepsUp(h, T, S, x, s)
<1> USE DEF StepsUp
<1>1. /\ T \in SUBSET Node /\ Closed(h, T) /\ h.root \in T /\ h.parent[h.root] = Nil
      /\ \A n \in T \ {h.root} : h.parent[n] \in T /\ n \in Children(h, h.parent[n])
  BY TreeFacts DEF IsTree
<1>2. /\ h \in Heap /\ Linked(h)
      /\ \A m \in T : m \in Node /\ m \in Nat /\ m # 0 /\ h.value[m].key \in Int
  BY TreeKeys DEF IsTree
<1>3. h.value[h.root].key <= h.value[h.root].key
  BY <1>1, <1>2
<1>4. CASE x = h.root
  <2>1. s = [heap |-> h, node |-> x] /\ s.heap = h /\ s.node = x
    BY <1>1, <1>4 DEF StepUp
  <2>2. Shuffled(h, h, T)
    BY <1>2, ShuffledNot
  <2> QED
    BY <1>4, <1>3, <2>1, <2>2
<1>5. CASE x # h.root
  <2>1. PICK p \in T : p = h.parent[x] /\ x \in Children(h, p)
    BY <1>1, <1>5
  <2>2. p # Nil /\ x > p /\ p # x /\ p \notin S
    BY <1>2, <2>1 DEF Linked
  <2>3. \A m \in T : \A c \in Children(h, m) :
           c \in T /\ h.parent[c] = m /\ c # m /\ c # h.root
    <3> TAKE m \in T
    <3> TAKE c \in Children(h, m)
    <3>1. c \in T /\ h.parent[c] = m /\ c > m
      BY <1>1, <1>2 DEF Linked, Closed
    <3>2. c # h.root
      BY <1>1, <1>2, <3>1
    <3> QED
      BY <1>2, <3>1, <3>2
  <2>4. PICK a, b : a = h.value[x].key /\ b = h.value[p].key /\ a \in Int /\ b \in Int
    BY <1>2
  <2>5. GoesAbove(h, x, p) <=> a <= b
    BY <1>2, <2>4 DEF GoesAbove, Compare
  <2>6. CASE a <= b
    <3>1. PICK u : u = Swap(h, x, p)
      OBVIOUS
    <3>2. s = [heap |-> u, node |-> p] /\ s.heap = u /\ s.node = p
      BY <2>1, <2>2, <2>5, <2>6, <3>1 DEF StepUp
    <3>3. /\ Shuffled(h, u, T)
          /\ u.value = [h.value EXCEPT ![x] = h.value[p], ![p] = h.value[x]]
      <4>1. x # p /\ T \in SUBSET Node /\ h \in Heap
        BY <1>1, <1>2, <2>2
      <4>2. /\ Shuffled(h, Swap(h, x, p), T)
            /\ Swap(h, x, p).value = [h.value EXCEPT ![x] = h.value[p], ![p] = h.value[x]]
        BY <4>1, SwapShuffles
      <4> QED
        BY <3>1, <4>2
    <3>4. \A m \in T : u.value[m] = IF m = x THEN h.value[p]
                                    ELSE IF m = p THEN h.value[x] ELSE h.value[m]
      BY <1>1, <1>2, <3>3 DEF Heap
    <3>5. u.root = h.root /\ u.parent = h.parent /\ \A m \in T : Children(u, m) = Children(h, m)
      <4>1. \A m \in T : Children(u, m) = Children(h, m)
        BY <3>3, ShuffledTree
      <4> QED
        BY <3>3, <4>1 DEF Shuffled, SameLinks
    <3>6. u.value[h.root].key <= h.value[h.root].key
      BY <1>1, <1>2, <1>5, <2>4, <2>6, <3>4
    <3>7. ASSUME OrderedIn(h, T, S \union {x}), Skips(h, x, S),
                 NEW c \in T \ (S \union {p, h.root})
          PROVE  u.value[u.parent[c]].key <= u.value[c].key
      <4>1. h.parent[c] \in T /\ c \in Children(h, h.parent[c])
        BY <1>1, <3>7
      <4>2. CASE c = x
        BY <2>1, <2>2, <2>4, <2>6, <3>4, <3>5, <4>2
      <4>3. CASE c # x /\ h.parent[c] = x
        <5>1. h.value[p].key <= h.value[c].key
          BY <1>5, <2>1, <3>7, <4>1, <4>3 DEF Skips
        <5> QED
          BY <3>4, <3>5, <3>7, <4>1, <4>3, <5>1
      <4>4. CASE c # x /\ h.parent[c] # x
        <5>1. h.value[h.parent[c]].key <= h.value[c].key
          BY <3>7, <4>4 DEF OrderedIn
        <5>2. u.value[c] = h.value[c]
          BY <3>4, <3>7, <4>4
        <5>3. CASE h.parent[c] = p
          BY <1>2, <2>4, <2>6, <3>4, <3>5, <5>1, <5>2, <5>3
        <5>4. CASE h.parent[c] # p
          BY <3>4, <3>5, <4>1, <4>4, <5>1, <5>2, <5>4
        <5> QED
          BY <5>3, <5>4
      <4> QED
        BY <4>2, <4>3, <4>4
    <3>8. ASSUME OrderedIn(h, T, S \union {x}), p # h.root, NEW c \in Children(h, p) \ S
          PROVE  u.value[u.parent[p]].key <= u.value[c].key
      <4>1. /\ h.parent[p] \in T /\ p \in Children(h, h.parent[p])
            /\ h.value[h.parent[p]].key <= b
        BY <1>1, <2>2, <2>4, <3>8 DEF OrderedIn
      <4>2. h.parent[p] # p /\ h.parent[p] # x
        <5>1. h.parent[p] < p
          BY <1>1 DEF IsTree, Linked
        <5> QED
          BY <2>2, <4>1, <5>1, <1>2
      <4>3. u.value[u.parent[p]] = h.value[h.parent[p]]
        BY <3>4, <3>5, <4>1, <4>2
      <4>4. c \in T /\ c # p /\ h.parent[c] = p /\ c # h.root
        BY <2>3, <3>8
      <4>5. CASE c = x
        BY <2>4, <3>4, <4>1, <4>3, <4>5
      <4>6. CASE c # x
        <5>1. b <= h.value[c].key
          BY <2>4, <3>8, <4>4, <4>6 DEF OrderedIn
        <5> QED
          BY <1>2, <2>4, <3>4, <4>1, <4>3, <4>4, <4>6, <5>1
      <4> QED
        BY <4>5, <4>6
    <3>9. OrderedIn(h, T, S \union {x}) /\ Skips(h, x, S) =>
             OrderedIn(u, T, S \union {p}) /\ Skips(u, p, S)
      BY <3>5, <3>7, <3>8 DEF OrderedIn, Skips
    <3> QED
      BY <1>5, <2>2, <3>2, <3>3, <3>6, <3>9
  <2>7. CASE ~(a <= b)
    <3>1. s = [heap |-> h, node |-> p] /\ s.heap = h /\ s.node = p
      BY <2>1, <2>2, <2>5, <2>7 DEF StepUp
    <3>5. Shuffled(h, h, T)
      BY <1>2, ShuffledNot
    <3>2. ASSUME OrderedIn(h, T, S \union {x})
          PROVE  OrderedIn(h, T, S \union {p})
      BY <2>1, <2>4, <2>7, <3>2 DEF OrderedIn
    <3>3. ASSUME OrderedIn(h, T, S \union {x}), p # h.root, NEW c \in Children(h, p) \ S
          PROVE  h.value[h.parent[p]].key <= h.value[c].key
      <4>1. h.parent[p] \in T /\ h.value[h.parent[p]].key <= b
        BY <1>1, <2>2, <2>4, <3>3 DEF OrderedIn
      <4>2. c \in T /\ h.parent[c] = p /\ c # h.root
        BY <2>3, <3>3
      <4>3. b <= h.value[c].key
        <5>1. CASE c = x
          BY <2>4, <2>7, <5>1
        <5>2. CASE c # x
          BY <2>4, <3>3, <4>2, <5>2 DEF OrderedIn
        <5> QED
          BY <5>1, <5>2
      <4> QED
        BY <1>2, <2>4, <4>1, <4>2, <4>3
    <3>4. OrderedIn(h, T, S \union {x}) => OrderedIn(h, T, S \union {p}) /\ Skips(h, p, S)
      BY <3>2, <3>3 DEF Skips
    <3> QED
      BY <1>5, <1>3, <2>2, <3>1, <3>4, <3>5
  <2> QED
    BY <2>6, <2>7
<1> QED
  BY <1>4, <1>5

\* push() brings the tree into order again, up to leaves that were out of it, and
\* the root does not rise.
LEMMA SiftUp ==
    ASSUME NEW h \in Heap, NEW T, IsTree(h, T), NEW n \in Node, n \in T,
           NEW S, \A c \in S : Children(h, c) = {}, n \notin S, S \subseteq T,
           NEW u, u = SiftedUp(h, n)
    PROVE  /\ Shuffled(h, u, T)
           /\ u.value[h.root].key <= h.value[h.root].key
           /\ OrderedIn(h, T, S \union {n}) /\ Children(h, n) = {} => OrderedIn(u, T, S)
<1>1. /\ h \in Heap /\ T \in SUBSET Node /\ h.root \in T /\ h.root \in Node
      /\ n \in Node /\ n \in Nat /\ MaxUnits \in Nat /\ n <= MaxUnits /\ h.root > 0
  <2>1. T # {} /\ n \in Node /\ h \in Heap
    BY TreeKeys DEF IsTree
  <2>2. T \in SUBSET Node /\ h.root \in T /\ h.root \in Node
    BY <2>1, TreeFacts DEF IsTree
  <2> QED
    BY <2>1, <2>2, NodeFacts DEF Node
<1>2. PICK f \in [0 .. MaxUnits -> [heap: Heap, node: Node]] :
         /\ f[0] = [heap |-> h, node |-> n]
         /\ \A k \in 0 .. MaxUnits \ {0} : f[k] = StepUp(f[k - 1])
         /\ SiftedUp(h, n) = f[MaxUnits].heap
  BY Ups
<1>u. u = f[MaxUnits].heap
  BY <1>2
<1> DEFINE Low == OrderedIn(h, T, S \union {n}) /\ Children(h, n) = {}
           Good(k, s) ==
             /\ Shuffled(h, s.heap, T)
             /\ s.node \in T /\ s.node \notin S
             /\ s.node = h.root \/ s.node + k <= n
             /\ s.heap.value[h.root].key <= h.value[h.root].key
             /\ Low => OrderedIn(s.heap, T, S \union {s.node}) /\ Skips(s.heap, s.node, S)
           Loop == {k \in Nat : k \in 0 .. MaxUnits => Good(k, f[k])}
<1>3. Good(0, f[0])
  <2>1. f[0].heap = h /\ f[0].node = n
    BY <1>2
  <2>2. Shuffled(h, h, T)
    BY <1>1, ShuffledNot
  <2>3. h.value[h.root].key <= h.value[h.root].key
    BY <1>1, TreeKeys
  <2>4. Low => OrderedIn(h, T, S \union {n}) /\ Skips(h, n, S)
    BY DEF Skips
  <2> HIDE DEF Low
  <2> QED
    BY <1>1, <2>1, <2>2, <2>3, <2>4
<1>4. ASSUME NEW k \in Nat, k + 1 \in 0 .. MaxUnits, Good(k, f[k])
      PROVE  Good(k + 1, f[k + 1])
  <2>1. k \in 0 .. MaxUnits /\ k + 1 # 0 /\ (k + 1) - 1 = k
    BY <1>1, <1>4
  <2>2. PICK g, x, s : g = f[k].heap /\ x = f[k].node /\ s = f[k + 1]
    OBVIOUS
  <2>3. f[k] = [heap |-> g, node |-> x] /\ s = StepUp([heap |-> g, node |-> x])
    <3>1. f[k] \in [heap: Heap, node: Node]
      BY <2>1
    <3>2. f[k] = [heap |-> g, node |-> x]
      BY <2>2, <3>1
    <3>3. f[k + 1] = StepUp(f[k])
      BY <1>2, <1>4, <2>1
    <3> QED
      BY <2>2, <3>2, <3>3
  <2>4. /\ Shuffled(h, g, T) /\ x \in T /\ x \notin S
        /\ x = h.root \/ x + k <= n
        /\ g.value[h.root].key <= h.value[h.root].key
        /\ Low => OrderedIn(g, T, S \union {x}) /\ Skips(g, x, S)
    BY <1>4, <2>2
  <2>5. IsTree(g, T) /\ g.root = h.root /\ \A c \in S : Children(g, c) = {}
    <3>1. /\ IsTree(g, T) /\ g.root = h.root
          /\ \A m \in T : Children(g, m) = Children(h, m)
      <4>1. Shuffled(h, g, T)
        BY <2>4
      <4> HIDE DEF Low, Good, Loop
      <4> QED
        BY <4>1, ShuffledTree
    <3>2. ASSUME NEW c \in S PROVE Children(g, c) = {}
      <4>1. c \in T /\ Children(h, c) = {}
        OBVIOUS
      <4> QED
        BY <3>1, <4>1
    <3> QED
      BY <3>1, <3>2
  <2>6. /\ Shuffled(g, s.heap, T)
        /\ x = h.root => s = [heap |-> g, node |-> x]
        /\ x # h.root => s.node \in T /\ s.node < x /\ s.node \notin S
        /\ s.heap.value[h.root].key <= g.value[h.root].key
        /\ OrderedIn(g, T, S \union {x}) /\ Skips(g, x, S) =>
              OrderedIn(s.heap, T, S \union {s.node}) /\ Skips(s.heap, s.node, S)
    <3> HIDE DEF Low, Good, Loop
    <3>1. StepsUp(g, T, S, x, s)
      BY <2>3, <2>4, <2>5, OneUp
    <3> QED
      BY <2>5, <3>1 DEF StepsUp
  <2>7. Shuffled(h, s.heap, T)
    BY <2>4, <2>6, ShuffledTwice
  <2>8. s.node \in T /\ s.node \notin S /\ (s.node = h.root \/ s.node + (k + 1) <= n)
    <3>1. CASE x = h.root
      BY <1>1, <2>4, <2>6, <3>1
    <3>2. CASE x # h.root
      <4>1. s.node \in Nat /\ x \in Nat /\ s.node < x /\ x + k <= n
        BY <2>4, <2>5, <2>6, <3>2, TreeKeys
      <4> QED
        BY <1>1, <2>6, <3>2, <4>1
    <3> QED
      BY <3>1, <3>2
  <2>9. s.heap.value[h.root].key <= h.value[h.root].key
    <3>1. IsTree(s.heap, T)
      BY <2>7, ShuffledTree
    <3>2. /\ s.heap.value[h.root].key \in Int /\ g.value[h.root].key \in Int
          /\ h.value[h.root].key \in Int
      BY <1>1, <2>5, <3>1, TreeKeys
    <3> QED
      BY <2>4, <2>6, <3>2
  <2> HIDE DEF Low
  <2> QED
    BY <2>2, <2>4, <2>6, <2>7, <2>8, <2>9
<1> HIDE DEF Good
<1>5. Good(MaxUnits, f[MaxUnits])
  <2>1. 0 \in Loop /\ Loop \in SUBSET Nat
    BY <1>3
  <2>2. ASSUME NEW k \in Loop PROVE k + 1 \in Loop
    BY <1>1, <1>4
  <2> HIDE DEF Loop
  <2>3. MaxUnits \in Loop
    BY <1>1, <2>1, <2>2, Induction
  <2> QED
    BY <1>1, <2>3 DEF Loop
<1> HIDE DEF Loop
<1>6. f[MaxUnits].node = h.root
  <2>1. /\ f[MaxUnits].node \in T
        /\ f[MaxUnits].node = h.root \/ f[MaxUnits].node + MaxUnits <= n
    BY <1>5 DEF Good
  <2>2. f[MaxUnits].node \in Nat /\ f[MaxUnits].node # 0
    BY <2>1, TreeKeys
  <2> QED
    BY <1>1, <2>1, <2>2
<1>7. OrderedIn(u, T, S \union {h.root}) => OrderedIn(u, T, S)
  <2>1. u.root = h.root
    BY <1>2, <1>5, ShuffledTree DEF Good
  <2> QED
    BY <2>1 DEF OrderedIn
<1> QED
  BY <1>u, <1>5, <1>6, <1>7 DEF Good
\* Nodes that have a sibling or a right child are not lower than their
\* parents, except perhaps below x, whose children then go after its parent.
OrderedFrom(h, T, x) ==
    /\ \A c \in T \ {h.root} :
          h.right[h.parent[c]] # Nil /\ h.parent[c] # x =>
              h.value[h.parent[c]].key <= h.value[c].key
    /\ x \notin {Nil, h.root} =>
          \A c \in Children(h, x) :
              h.right[x] # Nil => h.value[h.parent[x]].key <= h.value[c].key

\* A node with a right child has a left one.
LeftFirst(h, T) == \A m \in T : h.right[m] # Nil => h.left[m] # Nil

\* One step down: the node that may be too high is now the child gone to.
LEMMA OneDown ==
    ASSUME NEW h, NEW T, IsTree(h, T), NEW x \in T, NEW s,
           s = StepDown([heap |-> h, node |-> x])
    PROVE  /\ Shuffled(h, s.heap, T)
           /\ s.node = Nil \/ (s.node \in T /\ s.node > x)
           /\ LeftFirst(h, T) /\ OrderedFrom(h, T, x) =>
                 OrderedFrom(s.heap, T, s.node)
<1>1. /\ T \in SUBSET Node /\ Closed(h, T) /\ h.root \in T /\ h.parent[h.root] = Nil
      /\ \A n \in T \ {h.root} : h.parent[n] \in T /\ n \in Children(h, h.parent[n])
  BY TreeFacts DEF IsTree
<1>2. /\ h \in Heap /\ Linked(h)
      /\ \A m \in T : m \in Node /\ m \in Nat /\ m # 0 /\ h.value[m].key \in Int
  BY TreeKeys DEF IsTree
<1>3. PICK l, r : l = h.left[x] /\ r = h.right[x] /\ l \in Pointer /\ r \in Pointer
  BY <1>1, LinkTypes, <1>2
<1>4. /\ l # Nil => l \in T /\ l > x /\ h.parent[l] = x
      /\ r # Nil => r \in T /\ r > x /\ h.parent[r] = x
      /\ l # Nil /\ r # Nil => l # r
      /\ Children(h, x) = {l, r} \ {Nil}
  <2>1. Children(h, x) = {l, r} \ {Nil}
    BY <1>3 DEF Children
  <2> QED
    BY <1>1, <1>2, <1>3, <2>1 DEF Closed, Linked
<1>5. x # Nil
  BY <1>2
<1>6. CASE l = Nil \/ r = Nil
  <2>1. PICK d : d = NextDown(h, x)
    OBVIOUS
  <2>2. d = Nil \/ (l = Nil /\ d = r)
    BY <1>3, <1>6, <2>1 DEF NextDown, Compare
  <2>3. LeftFirst(h, T) => d = Nil /\ r = Nil
    BY <1>3, <1>6, <2>2 DEF LeftFirst
  <2>4. s.node = d /\ s.heap = IF d # Nil /\ Compare(h, d, x) < 0
                               THEN Swap(h, d, x) ELSE h
    BY <1>5, <2>1 DEF StepDown
  <2>5. Shuffled(h, s.heap, T)
    <3>1. CASE s.heap = h
      BY <1>2, <3>1, ShuffledNot
    <3>2. CASE d # Nil /\ s.heap = Swap(h, d, x)
      <4>1. d \in T /\ d # x /\ h \in Heap /\ T \in SUBSET Node
        BY <1>1, <1>2, <1>4, <2>2, <3>2
      <4>2. Shuffled(h, Swap(h, d, x), T)
        BY <4>1, SwapShuffles
      <4> QED
        BY <3>2, <4>2
    <3> QED
      BY <2>4, <3>1, <3>2
  <2>6. ASSUME LeftFirst(h, T), OrderedFrom(h, T, x)
        PROVE  OrderedFrom(s.heap, T, s.node)
    <3>1. s.heap = h /\ s.node = Nil /\ r = Nil
      BY <2>3, <2>4, <2>6
    <3> QED
      BY <1>3, <2>6, <3>1 DEF OrderedFrom
  <2> QED
    BY <1>4, <2>2, <2>4, <2>5, <2>6
<1>7. CASE l # Nil /\ r # Nil
  <2>1. PICK d, e : /\ d = NextDown(h, x) /\ {d, e} = {l, r} /\ d # e
                    /\ h.value[d].key <= h.value[e].key
    <3>1. PICK a, b : a = h.value[l].key /\ b = h.value[r].key /\ a \in Int /\ b \in Int
      BY <1>2, <1>4, <1>7
    <3>2. Compare(h, l, r) = a - b
      BY <1>7, <3>1 DEF Compare
    <3>3. CASE a < b
      <4>1. NextDown(h, x) = l
        BY <1>3, <3>1, <3>2, <3>3 DEF NextDown
      <4> QED
        BY <1>4, <1>7, <3>1, <3>3, <4>1
    <3>4. CASE ~(a < b)
      <4>1. NextDown(h, x) = r
        BY <1>3, <3>1, <3>2, <3>4 DEF NextDown
      <4> QED
        BY <1>4, <1>7, <3>1, <3>4, <4>1
    <3> QED
      BY <3>3, <3>4
  <2>2. /\ d \in T /\ e \in T /\ d > x /\ e > x /\ d # x /\ e # x /\ d # Nil
        /\ h.parent[d] = x /\ h.parent[e] = x /\ Children(h, x) = {d, e}
        /\ h.right[x] # Nil
    <3>1. /\ d \in T /\ e \in T /\ d > x /\ e > x /\ d # Nil
          /\ h.parent[d] = x /\ h.parent[e] = x
      BY <1>4, <1>7, <2>1
    <3>2. Children(h, x) = {d, e}
      BY <1>4, <1>7, <2>1
    <3> QED
      BY <1>2, <1>3, <1>7, <3>1, <3>2
  <2>3. PICK kx, kd, ke : /\ kx = h.value[x].key /\ kd = h.value[d].key /\ ke = h.value[e].key
                          /\ kx \in Int /\ kd \in Int /\ ke \in Int /\ kd <= ke
    BY <1>2, <2>1, <2>2
  <2>4. Compare(h, d, x) < 0 <=> kd < kx
    BY <1>5, <2>2, <2>3 DEF Compare
  <2>5. \A c \in T \ {h.root} : h.parent[c] = x => c = d \/ c = e
    BY <1>1, <2>2
  <2>6. \A m \in T : \A c \in Children(h, m) :
           c \in T /\ h.parent[c] = m /\ c # m /\ c # h.root
    <3> TAKE m \in T
    <3> TAKE c \in Children(h, m)
    <3>1. c \in T /\ h.parent[c] = m /\ c > m
      BY <1>1, <1>2 DEF Linked, Closed
    <3>2. c # h.root
      BY <1>1, <1>2, <3>1
    <3> QED
      BY <1>2, <3>1, <3>2
  <2>7. d # h.root /\ e # h.root
    BY <2>2, <2>6
  <2>8. CASE kd < kx
    <3>1. PICK u : u = Swap(h, d, x)
      OBVIOUS
    <3>2. s.heap = u /\ s.node = d
      BY <1>5, <2>1, <2>2, <2>4, <2>8, <3>1 DEF StepDown
    <3>3. /\ Shuffled(h, u, T)
          /\ u.value = [h.value EXCEPT ![d] = h.value[x], ![x] = h.value[d]]
      <4>1. d \in T /\ d # x /\ h \in Heap /\ T \in SUBSET Node
        BY <1>1, <1>2, <2>2
      <4>2. /\ Shuffled(h, Swap(h, d, x), T)
            /\ Swap(h, d, x).value = [h.value EXCEPT ![d] = h.value[x], ![x] = h.value[d]]
        BY <4>1, SwapShuffles
      <4> QED
        BY <3>1, <4>2
    <3>4. \A m \in T : u.value[m] = IF m = d THEN h.value[x]
                                    ELSE IF m = x THEN h.value[d] ELSE h.value[m]
      BY <1>1, <1>2, <2>2, <3>3 DEF Heap
    <3>5. /\ u.root = h.root /\ u.parent = h.parent /\ u.right = h.right
          /\ \A m \in T : Children(u, m) = Children(h, m)
      <4>1. \A m \in T : Children(u, m) = Children(h, m)
        BY <3>3, ShuffledTree
      <4> QED
        BY <3>3, <4>1 DEF Shuffled, SameLinks
    <3>6. ASSUME OrderedFrom(h, T, x), NEW c \in T \ {h.root},
                 h.right[h.parent[c]] # Nil, h.parent[c] # d
          PROVE  u.value[h.parent[c]].key <= u.value[c].key
      <4>1. h.parent[c] \in T /\ c \in Children(h, h.parent[c])
        BY <1>1
      <4>2. CASE c = d
        BY <2>2, <2>3, <2>8, <3>4, <4>2
      <4>3. CASE c = e
        BY <2>1, <2>2, <2>3, <3>4, <4>3
      <4>4. CASE c # d /\ c # e /\ c = x
        <5>1. h.parent[x] # x
          BY <2>6, <4>1, <4>4
        <5>2. h.value[h.parent[x]].key <= kd
          BY <1>5, <2>2, <2>3, <3>6, <4>4 DEF OrderedFrom
        <5>3. u.value[x] = h.value[d] /\ u.value[h.parent[x]] = h.value[h.parent[x]]
          BY <2>2, <3>4, <3>6, <4>1, <4>4, <5>1
        <5> QED
          BY <2>3, <4>4, <5>2, <5>3
      <4>5. CASE c # d /\ c # e /\ c # x
        <5>1. h.parent[c] # x
          BY <2>5, <4>5
        <5>2. h.value[h.parent[c]].key <= h.value[c].key
          BY <3>6, <5>1 DEF OrderedFrom
        <5> QED
          BY <3>4, <3>6, <4>1, <4>5, <5>1, <5>2
      <4> QED
        BY <4>2, <4>3, <4>4, <4>5
    <3>7. ASSUME OrderedFrom(h, T, x), NEW c \in Children(h, d), h.right[d] # Nil
          PROVE  u.value[h.parent[d]].key <= u.value[c].key
      <4>1. c \in T /\ c # h.root /\ h.parent[c] = d /\ c # d
        BY <2>2, <2>6
      <4>2. kd <= h.value[c].key
        BY <2>2, <2>3, <3>7, <4>1 DEF OrderedFrom
      <4>3. u.value[h.parent[d]] = h.value[d]
        BY <2>2, <3>4
      <4>4. c # x
        <5>1. c > d
          BY <1>1, <1>2, <2>2, <3>7 DEF Linked
        <5> QED
          BY <1>2, <2>2, <5>1
      <4> QED
        BY <2>3, <3>4, <4>1, <4>2, <4>3, <4>4
    <3>8. OrderedFrom(h, T, x) => OrderedFrom(u, T, d)
      BY <2>2, <3>5, <3>6, <3>7 DEF OrderedFrom
    <3> QED
      BY <2>2, <3>2, <3>3, <3>8
  <2>9. CASE ~(kd < kx)
    <3>1. s.heap = h /\ s.node = d
      BY <1>5, <2>1, <2>2, <2>4, <2>9 DEF StepDown
    <3>2. Shuffled(h, h, T)
      BY <1>2, ShuffledNot
    <3>3. ASSUME OrderedFrom(h, T, x), NEW c \in T \ {h.root},
                 h.right[h.parent[c]] # Nil, h.parent[c] # d
          PROVE  h.value[h.parent[c]].key <= h.value[c].key
      <4>1. CASE h.parent[c] = x
        BY <2>3, <2>5, <2>9, <4>1
      <4>2. CASE h.parent[c] # x
        BY <3>3, <4>2 DEF OrderedFrom
      <4> QED
        BY <4>1, <4>2
    <3>4. ASSUME OrderedFrom(h, T, x), NEW c \in Children(h, d), h.right[d] # Nil
          PROVE  h.value[h.parent[d]].key <= h.value[c].key
      <4>1. c \in T /\ c # h.root /\ h.parent[c] = d
        BY <2>2, <2>6
      <4>2. kd <= h.value[c].key
        BY <2>2, <2>3, <3>4, <4>1 DEF OrderedFrom
      <4>3. h.value[c].key \in Int
        BY <1>2, <4>1
      <4> QED
        BY <2>2, <2>3, <2>9, <4>2, <4>3
    <3>5. OrderedFrom(h, T, x) => OrderedFrom(h, T, d)
      BY <2>2, <3>3, <3>4 DEF OrderedFrom
    <3> QED
      BY <2>2, <3>1, <3>2, <3>5
  <2> QED
    BY <2>8, <2>9
<1> QED
  BY <1>6, <1>7
\* pop() leaves at most a node without a sibling out of order.
LEMMA SiftDown ==
    ASSUME NEW h \in Heap, NEW T, IsTree(h, T), NEW u, u = SiftedDown(h)
    PROVE  /\ Shuffled(h, u, T)
           /\ LeftFirst(h, T) /\ OrderedFrom(h, T, h.root) => OrderedFrom(u, T, Nil)
<1>1. /\ h.root \in Pointer /\ T \in SUBSET Node /\ MaxUnits \in Nat
      /\ h.root = Nil \/ h.root \in T
  BY TreeFacts, NodeFacts DEF IsTree, Heap
<1>2. PICK f \in [0 .. MaxUnits -> [heap: Heap, node: Pointer]] :
         /\ f[0] = [heap |-> h, node |-> h.root]
         /\ \A k \in 0 .. MaxUnits \ {0} : f[k] = StepDown(f[k - 1])
         /\ SiftedDown(h) = f[MaxUnits].heap
  BY Downs
<1>u. u = f[MaxUnits].heap
  BY <1>2
<1> DEFINE Fits == LeftFirst(h, T) /\ OrderedFrom(h, T, h.root)
           Good(k, s) ==
             /\ Shuffled(h, s.heap, T)
             /\ s.node = Nil \/ (s.node \in T /\ s.node > k)
             /\ Fits => OrderedFrom(s.heap, T, s.node)
           Loop == {k \in Nat : k \in 0 .. MaxUnits => Good(k, f[k])}
<1>3. Good(0, f[0])
  <2>1. f[0].heap = h /\ f[0].node = h.root
    BY <1>2
  <2>2. Shuffled(h, h, T)
    BY <1>1, ShuffledNot
  <2>3. h.root = Nil \/ (h.root \in T /\ h.root > 0)
    <3>1. h.root \in T => h.root \in Nat /\ h.root # 0
      BY <1>1, NodeFacts
    <3> QED
      BY <1>1, <3>1
  <2> QED
    BY <2>1, <2>2, <2>3
<1>4. ASSUME NEW k \in Nat, k + 1 \in 0 .. MaxUnits, Good(k, f[k])
      PROVE  Good(k + 1, f[k + 1])
  <2>1. k \in 0 .. MaxUnits /\ k + 1 # 0 /\ (k + 1) - 1 = k
    BY <1>1, <1>4
  <2>2. PICK g, x, s : g = f[k].heap /\ x = f[k].node /\ s = f[k + 1]
    OBVIOUS
  <2>3. f[k] = [heap |-> g, node |-> x] /\ s = StepDown([heap |-> g, node |-> x])
    <3>1. f[k] \in [heap: Heap, node: Pointer]
      BY <2>1
    <3>2. f[k] = [heap |-> g, node |-> x]
      BY <2>2, <3>1
    <3>3. f[k + 1] = StepDown(f[k])
      BY <1>2, <1>4, <2>1
    <3> QED
      BY <2>2, <3>2, <3>3
  <2>4. /\ Shuffled(h, g, T)
        /\ x = Nil \/ (x \in T /\ x > k)
        /\ Fits => OrderedFrom(g, T, x)
    BY <1>4, <2>2
  <2>5. IsTree(g, T) /\ g.left = h.left /\ g.right = h.right
    BY <2>4, ShuffledTree DEF Shuffled, SameLinks
  <2>6. LeftFirst(h, T) => LeftFirst(g, T)
    BY <2>5 DEF LeftFirst
  <2>7. CASE x = Nil
    <3>1. s = [heap |-> g, node |-> x] /\ s.heap = g /\ s.node = x
      BY <2>3, <2>7 DEF StepDown
    <3> HIDE DEF Fits
    <3> QED
      BY <2>2, <2>4, <2>7, <3>1
  <2>8. CASE x # Nil
    <3>1. x \in T /\ x > k /\ x \in Nat
      BY <2>4, <2>5, <2>8, TreeKeys
    <3>2. /\ Shuffled(g, s.heap, T)
          /\ s.node = Nil \/ (s.node \in T /\ s.node > x)
          /\ LeftFirst(g, T) /\ OrderedFrom(g, T, x) =>
                OrderedFrom(s.heap, T, s.node)
      <4> HIDE DEF Good, Loop, Fits
      <4> QED
        BY <2>3, <2>5, <3>1, OneDown
    <3>3. Shuffled(h, s.heap, T)
      BY <2>4, <3>2, ShuffledTwice
    <3>4. s.node \in T => s.node \in Nat
      BY <1>1, NodeFacts
    <3>5. s.node = Nil \/ (s.node \in T /\ s.node > k + 1)
      BY <3>1, <3>2, <3>4
    <3>6. Fits => OrderedFrom(s.heap, T, s.node)
      BY <2>4, <2>6, <3>2
    <3> HIDE DEF Fits
    <3> QED
      BY <2>2, <3>3, <3>5, <3>6
  <2> QED
    BY <2>7, <2>8
<1> HIDE DEF Good
<1>5. Good(MaxUnits, f[MaxUnits])
  <2>1. 0 \in Loop /\ Loop \in SUBSET Nat
    BY <1>3
  <2>2. ASSUME NEW k \in Loop PROVE k + 1 \in Loop
    BY <1>1, <1>4
  <2> HIDE DEF Loop
  <2>3. MaxUnits \in Loop
    BY <1>1, <2>1, <2>2, Induction
  <2> QED
    BY <1>1, <2>3 DEF Loop
<1> HIDE DEF Loop
<1>6. f[MaxUnits].node = Nil
  <2>1. f[MaxUnits].node = Nil \/ (f[MaxUnits].node \in T /\ f[MaxUnits].node > MaxUnits)
    BY <1>5 DEF Good
  <2>2. f[MaxUnits].node \in T => f[MaxUnits].node \in 1 .. MaxUnits
    BY <1>1 DEF Node
  <2> QED
    BY <1>1, <2>1, <2>2
<1> QED
  BY <1>u, <1>5, <1>6 DEF Good
-----------------------------------------------------------------------------
(* Finding a node *)

LEMMA Halves ==
    ASSUME NEW i \in Nat
    PROVE  /\ Path(i) \in [0 .. MaxUnits -> Nat]
           /\ Path(i)[0] = i
           /\ \A k \in 1 .. MaxUnits : Path(i)[k] = ParentNumber(Path(i)[k - 1])
<1> DEFINE step == [j \in Nat |-> ParentNumber(j)]
           Steps(f) == f = [k \in 0 .. MaxUnits |->
                               IF k = 0 THEN i ELSE ParentNumber(f[k - 1])]
<1>1. MaxUnits \in Nat
  BY NodeFacts
<1>2. step \in [Nat -> Nat]
  BY DEF ParentNumber
<1>3. PICK g \in [0 .. MaxUnits -> Nat] :
         g = [k \in 0 .. MaxUnits |-> IF k = 0 THEN i ELSE step[g[k - 1]]]
  <2> HIDE DEF step
  <2>1. \E g : Stepped(g, Nat, i, step, MaxUnits)
    BY <1>1, <1>2, Steppable
  <2> QED
    BY <2>1 DEF Stepped
<1>4. Steps(g)
  <2>1. ASSUME NEW k \in 0 .. MaxUnits, k # 0 PROVE step[g[k - 1]] = ParentNumber(g[k - 1])
    <3>1. k - 1 \in 0 .. MaxUnits
      BY <1>1, <2>1
    <3>2. g[k - 1] \in Nat
      BY <3>1
    <3> QED
      BY <3>2
  <2> HIDE DEF step
  <2> QED
    BY <1>3, <2>1
<1>5. PICK f : f = CHOOSE e : Steps(e)
  OBVIOUS
<1>6. Steps(f)
  <2> HIDE DEF Steps
  <2> QED
    BY <1>4, <1>5
<1>7. Path(i) = f
  BY <1>5 DEF Path
<1>8. \A k \in 0 .. MaxUnits : f[k] = IF k = 0 THEN i ELSE ParentNumber(f[k - 1])
  BY <1>6
<1> DEFINE T == {k \in Nat : k \in 0 .. MaxUnits => f[k] \in Nat}
<1>9. \A k \in Nat : k \in T
  <2>1. 0 \in T /\ T \in SUBSET Nat
    BY <1>1, <1>8
  <2>2. ASSUME NEW k \in T PROVE k + 1 \in T
    <3>1. k + 1 \in 0 .. MaxUnits => k \in 0 .. MaxUnits /\ f[k + 1] = ParentNumber(f[k])
      BY <1>1, <1>8
    <3> QED
      BY <3>1 DEF ParentNumber
  <2> HIDE DEF T
  <2> QED
    BY <2>1, <2>2, Induction
<1>10. f \in [0 .. MaxUnits -> Nat]
  <2>1. \A k \in 0 .. MaxUnits : f[k] \in Nat
    BY <1>9
  <2> HIDE DEF T
  <2> QED
    BY <1>6, <2>1
<1>11. \A k \in 1 .. MaxUnits : f[k] = ParentNumber(f[k - 1])
  BY <1>1, <1>8
<1> QED
  BY <1>1, <1>7, <1>8, <1>10, <1>11

\* The numbers from i to 1, and 0 from there on.
LEMMA PathEnds ==
    ASSUME NEW i \in 1 .. MaxUnits
    PROVE  \E d \in 0 .. MaxUnits :
              /\ Path(i)[d] = 1
              /\ \A k \in 0 .. MaxUnits : Path(i)[k] >= 1 <=> k <= d
              /\ \A k \in 0 .. MaxUnits : Path(i)[k] <= i
<1>1. MaxUnits \in Nat /\ i \in Nat /\ i >= 1 /\ i <= MaxUnits
  BY NodeFacts
<1>2. PICK P : P = Path(i)
  OBVIOUS
<1>3. /\ P \in [0 .. MaxUnits -> Nat] /\ P[0] = i
      /\ \A k \in 1 .. MaxUnits : P[k] = ParentNumber(P[k - 1])
  BY <1>1, <1>2, Halves
<1>4. ASSUME NEW k \in Nat, k + 1 \in 0 .. MaxUnits
      PROVE  /\ k \in 0 .. MaxUnits /\ P[k] \in Nat /\ P[k + 1] \in Nat
             /\ P[k + 1] = P[k] \div 2
             /\ P[k + 1] <= P[k]
             /\ P[k] >= 1 => P[k + 1] + 1 <= P[k]
             /\ P[k + 1] >= 1 => P[k] >= 1
  <2>1. k \in 0 .. MaxUnits /\ k + 1 \in 1 .. MaxUnits /\ (k + 1) - 1 = k
    BY <1>1, <1>4
  <2>2. P[k + 1] = P[k] \div 2
    BY <1>3, <2>1 DEF ParentNumber
  <2> QED
    BY <1>3, <2>1, <2>2
<1> DEFINE Falls == {k \in Nat : k \in 0 .. MaxUnits =>
                        P[k] <= i /\ (P[k] >= 1 => P[k] + k <= i)}
<1>5. \A k \in Nat : k \in Falls
  <2>1. 0 \in Falls /\ Falls \in SUBSET Nat
    BY <1>1, <1>3
  <2>2. ASSUME NEW k \in Falls PROVE k + 1 \in Falls
    BY <1>1, <1>4
  <2> HIDE DEF Falls
  <2> QED
    BY <2>1, <2>2, Induction
<1> DEFINE Zero == {k \in 0 .. MaxUnits : P[k] = 0}
<1>6. MaxUnits \in Zero /\ Zero \in SUBSET Nat
  <2>1. MaxUnits \in 0 .. MaxUnits /\ P[MaxUnits] \in Nat
    BY <1>1, <1>3
  <2>2. P[MaxUnits] >= 1 => P[MaxUnits] + MaxUnits <= i
    BY <1>1, <1>5, <2>1
  <2> QED
    BY <1>1, <2>1, <2>2
<1>7. PICK z \in Zero : \A k \in Zero : z <= k
  <2> HIDE DEF Zero
  <2> QED
    BY <1>6, Least
<1>8. z \in 0 .. MaxUnits /\ z # 0 /\ P[z] = 0
  BY <1>1, <1>3
<1>9. PICK d : d = z - 1 /\ d \in 0 .. MaxUnits /\ d + 1 = z
  BY <1>1, <1>8
<1>10. \A k \in 0 .. MaxUnits : k <= d => P[k] >= 1
  <2> TAKE k \in 0 .. MaxUnits
  <2>1. k <= d => k \notin Zero
    BY <1>7, <1>8, <1>9
  <2> QED
    BY <1>3, <2>1
<1> DEFINE Past == {k \in Nat : k \in 0 .. MaxUnits /\ k >= z => P[k] = 0}
<1>11. \A k \in Nat : k \in Past
  <2>1. 0 \in Past /\ Past \in SUBSET Nat
    BY <1>8
  <2>2. ASSUME NEW k \in Past PROVE k + 1 \in Past
    <3> SUFFICES ASSUME k + 1 \in 0 .. MaxUnits, k + 1 >= z PROVE P[k + 1] = 0
      OBVIOUS
    <3>1. CASE k + 1 = z
      BY <1>8, <3>1
    <3>2. CASE k >= z
      <4>1. P[k] = 0 /\ P[k + 1] = P[k] \div 2
        BY <1>4, <3>2
      <4> QED
        BY <4>1
    <3> QED
      BY <1>8, <3>1, <3>2
  <2> HIDE DEF Past
  <2> QED
    BY <2>1, <2>2, Induction
<1>12. \A k \in 0 .. MaxUnits : P[k] >= 1 => k <= d
  <2> TAKE k \in 0 .. MaxUnits
  <2>1. k >= z => P[k] = 0
    BY <1>11
  <2> QED
    BY <1>8, <1>9, <2>1
<1>13. P[d] = 1
  <2>1. d + 1 \in 0 .. MaxUnits /\ d \in Nat /\ P[d + 1] = 0
    BY <1>8, <1>9
  <2>2. P[d] \in Nat /\ P[d + 1] = P[d] \div 2
    BY <1>4, <2>1
  <2>3. P[d] >= 1
    BY <1>9, <1>10
  <2> QED
    BY <2>1, <2>2, <2>3
<1>14. \A k \in 0 .. MaxUnits : P[k] <= i
  BY <1>5
<1> QED
  BY <1>2, <1>9, <1>10, <1>12, <1>13, <1>14
\* The walk of findNodeByIndex stays in the tree.
LEMMA Walk ==
    ASSUME NEW h, NEW T, T \in SUBSET Node, Closed(h, T), h.root \in T, NEW i
    PROVE  /\ Level(h, i) \in 0 .. MaxUnits
           /\ \E f \in [0 .. Level(h, i) -> T] :
                 /\ f[0] = h.root
                 /\ \A k \in 1 .. Level(h, i) :
                       f[k] = Child(h, f[k - 1], Path(i)[Level(h, i) - k])
                 /\ FindNode(h, i) = f[Level(h, i)]
<1>1. MaxUnits \in Nat
  BY NodeFacts
<1>2. Level(h, i) \in 0 .. MaxUnits
  <2> DEFINE K == {k \in 1 .. MaxUnits : Path(i)[k] >= h.index[h.root]}
  <2>1. K \in SUBSET (1 .. MaxUnits)
    OBVIOUS
  <2>2. IsFiniteSet(1 .. MaxUnits) /\ Cardinality(1 .. MaxUnits) = MaxUnits
    BY <1>1, FS_Interval
  <2>3. Level(h, i) = Cardinality(K)
    BY DEF Level
  <2> HIDE DEF K
  <2>4. IsFiniteSet(K) /\ Cardinality(K) <= MaxUnits
    BY <2>1, <2>2, FS_Subset
  <2>5. Cardinality(K) \in Nat
    BY <2>4, FS_CardinalityType
  <2> QED
    BY <1>1, <2>3, <2>4, <2>5
<1>3. PICK L, P, r : L = Level(h, i) /\ P = Path(i) /\ r = h.root
  OBVIOUS
<1>4. L \in Nat /\ r \in T
  BY <1>1, <1>2, <1>3
<1>5. \A m \in T : \A j : Child(h, m, j) \in T
  <2> TAKE m \in T
  <2> TAKE j
  <2>1. {h.left[m], h.right[m]} \ {Nil} \subseteq T
    BY DEF Closed, Children
  <2> QED
    BY <2>1 DEF Child
<1> DEFINE step == [k \in 1 .. L |-> [m \in T |-> Child(h, m, P[L - k])]]
           Steps(f) == f = [k \in 0 .. L |->
                               IF k = 0 THEN r ELSE Child(h, f[k - 1], P[L - k])]
<1>6. step \in [1 .. L -> [T -> T]]
  BY <1>5
<1>7. PICK g : SteppedAt(g, T, r, step, L)
  <2> HIDE DEF step
  <2> QED
    BY <1>4, <1>6, SteppableAt
<1>8. g \in [0 .. L -> T]
  BY <1>7 DEF SteppedAt
<1>9. ASSUME NEW k \in 0 .. L, k # 0
      PROVE  g[k - 1] \in T /\ step[k][g[k - 1]] = Child(h, g[k - 1], P[L - k])
  <2>1. k - 1 \in 0 .. L /\ k \in 1 .. L
    BY <1>4, <1>9
  <2>2. g[k - 1] \in T
    BY <1>8, <2>1
  <2> QED
    BY <2>1, <2>2
<1>10. Steps(g)
  <2> HIDE DEF step
  <2>1. g = [k \in 0 .. L |-> IF k = 0 THEN r ELSE step[k][g[k - 1]]]
    BY <1>7 DEF SteppedAt
  <2> QED
    BY <1>9, <2>1
<1>11. PICK f : f = CHOOSE e : Steps(e)
  OBVIOUS
<1>12. Steps(f)
  <2> HIDE DEF Steps
  <2> QED
    BY <1>10, <1>11
<1>13. FindNode(h, i) = f[L]
  BY <1>3, <1>11 DEF FindNode
<1>14. \A k \in 0 .. L : f[k] = IF k = 0 THEN r ELSE Child(h, f[k - 1], P[L - k])
  BY <1>12
<1> HIDE DEF step
<1> DEFINE Inside == {k \in Nat : k \in 0 .. L => f[k] \in T}
<1>15. \A k \in Nat : k \in Inside
  <2>1. 0 \in Inside /\ Inside \in SUBSET Nat
    BY <1>4, <1>14
  <2>2. ASSUME NEW k \in Inside PROVE k + 1 \in Inside
    <3> SUFFICES ASSUME k + 1 \in 0 .. L PROVE f[k + 1] \in T
      OBVIOUS
    <3>1. k \in 0 .. L /\ k + 1 # 0 /\ (k + 1) - 1 = k
      BY <1>4
    <3>2. f[k] \in T /\ f[k + 1] = Child(h, f[k], P[L - (k + 1)])
      BY <1>14, <3>1
    <3> QED
      BY <1>5, <3>2
  <2> HIDE DEF Inside
  <2> QED
    BY <2>1, <2>2, Induction
<1>16. f \in [0 .. L -> T]
  <2>1. \A k \in 0 .. L : f[k] \in T
    BY <1>15
  <2> HIDE DEF Inside
  <2> QED
    BY <1>12, <2>1
<1>17. \A k \in 1 .. L : f[k] = Child(h, f[k - 1], P[L - k])
  BY <1>4, <1>14
<1> QED
  BY <1>2, <1>3, <1>4, <1>13, <1>14, <1>16, <1>17

LEMMA FindsInside ==
    ASSUME NEW h, NEW T, T \in SUBSET Node, Closed(h, T), h.root \in T, NEW i
    PROVE  FindNode(h, i) \in T
<1>1. PICK L : L = Level(h, i) /\ L \in 0 .. MaxUnits
  BY Walk
<1>2. PICK f \in [0 .. L -> T] : FindNode(h, i) = f[L]
  BY <1>1, Walk
<1> QED
  BY <1>1, <1>2

\* The tree is complete: its nodes have the numbers 1 to count.
Complete(h, T) ==
    /\ h.root = Nil => h.count = 0
    /\ h.root # Nil => h.index[h.root] = 1
    /\ \A n \in T :
          /\ h.left[n] # Nil => h.index[h.left[n]] = 2 * h.index[n]
          /\ h.right[n] # Nil => h.index[h.right[n]] = 2 * h.index[n] + 1
          /\ h.index[n] \in 1 .. h.count
    /\ \A i \in 1 .. h.count : \E n \in T : h.index[n] = i
    /\ \A m, n \in T : h.index[m] = h.index[n] => m = n

\* A number's parent is the node with half the number.
LEMMA ParentHalves ==
    ASSUME NEW h \in Heap, Linked(h), NEW T, T = Below(h, h.root), Complete(h, T),
           NEW n \in T \ {h.root}
    PROVE  /\ h.parent[n] \in T
           /\ h.index[h.parent[n]] = h.index[n] \div 2
           /\ n = h.left[h.parent[n]] \/ n = h.right[h.parent[n]]
           /\ h.left[h.parent[n]] = n <=> h.index[n] = 2 * h.index[h.parent[n]]
<1>1. T \in SUBSET Node /\ h.parent[n] \in T /\ n \in Children(h, h.parent[n])
  BY TreeFacts
<1>2. PICK p, a : p = h.parent[n] /\ a = h.index[p]
  OBVIOUS
<1>3. /\ p \in T /\ p \in Node /\ n \in Node /\ a \in Nat /\ n # Nil
      /\ n = h.left[p] \/ n = h.right[p]
  BY <1>1, <1>2, NodeFacts, LinkTypes DEF Children
<1>4. n = h.left[p] => h.index[n] = 2 * a
  BY <1>2, <1>3 DEF Complete
<1>5. n = h.right[p] => h.index[n] = 2 * a + 1
  BY <1>2, <1>3 DEF Complete
<1>6. a = h.index[n] \div 2 /\ (n = h.left[p] <=> h.index[n] = 2 * a)
  <2>1. CASE n = h.left[p]
    BY <1>3, <1>4, <2>1
  <2>2. CASE n # h.left[p]
    <3>1. h.index[n] = 2 * a + 1
      BY <1>3, <1>5, <2>2
    <3> QED
      BY <1>3, <2>2, <3>1
  <2> QED
    BY <2>1, <2>2
<1> QED
  BY <1>2, <1>3, <1>6

\* In a complete tree the walk ends at the number.
LEMMA Finds ==
    ASSUME NEW h \in Heap, Linked(h), NEW T, T = Below(h, h.root), Complete(h, T),
           h.root # Nil, h.count <= MaxUnits, NEW i \in 1 .. h.count
    PROVE  FindNode(h, i) \in T /\ h.index[FindNode(h, i)] = i
<1>1. /\ T \in SUBSET Node /\ Closed(h, T) /\ h.root \in T /\ h.count \in Nat
      /\ MaxUnits \in Nat /\ i \in 1 .. MaxUnits /\ h.index[h.root] = 1
      /\ i \in Nat
  <2>1. T \in SUBSET Node /\ Closed(h, T) /\ h.root \in T /\ h.count \in Nat
    BY TreeFacts DEF Heap
  <2> QED
    BY <2>1, NodeFacts DEF Complete
<1>2. PICK P, L : P = Path(i) /\ L = Level(h, i)
  OBVIOUS
<1>3. /\ P \in [0 .. MaxUnits -> Nat] /\ P[0] = i
      /\ \A k \in 1 .. MaxUnits : P[k] = ParentNumber(P[k - 1])
  BY <1>1, <1>2, Halves
<1>4. PICK d \in 0 .. MaxUnits :
         /\ P[d] = 1
         /\ \A k \in 0 .. MaxUnits : P[k] >= 1 <=> k <= d
         /\ \A k \in 0 .. MaxUnits : P[k] <= i
  BY <1>1, <1>2, PathEnds
<1>5. L = d
  <2>1. {k \in 1 .. MaxUnits : Path(i)[k] >= h.index[h.root]} = 1 .. d
    BY <1>1, <1>2, <1>4
  <2>2. L = Cardinality(1 .. d)
    BY <1>2, <2>1 DEF Level
  <2>3. Cardinality(1 .. d) = d
    BY <1>1, FS_Interval
  <2> QED
    BY <2>2, <2>3
<1>6. PICK f \in [0 .. L -> T] :
         /\ f[0] = h.root
         /\ \A k \in 1 .. L : f[k] = Child(h, f[k - 1], P[L - k])
         /\ FindNode(h, i) = f[L]
  BY <1>1, <1>2, Walk
<1>7. L \in Nat /\ L <= MaxUnits
  BY <1>1, <1>5
<1> DEFINE Right == {k \in Nat : k \in 0 .. L => h.index[f[k]] = P[L - k]}
<1>8. 0 \in Right
  BY <1>1, <1>4, <1>5, <1>6, <1>7
<1>9. ASSUME NEW k \in Right, k + 1 \in 0 .. L
      PROVE  h.index[f[k + 1]] = P[L - (k + 1)]
  <2>1. /\ k \in 0 .. L /\ k + 1 \in 1 .. L /\ (k + 1) - 1 = k
        /\ L - (k + 1) \in 0 .. MaxUnits /\ L - (k + 1) <= d
        /\ L - k \in 1 .. MaxUnits /\ (L - k) - 1 = L - (k + 1)
    <3>1. k \in Nat /\ k + 1 <= L
      BY <1>7, <1>9
    <3> QED
      BY <1>1, <1>5, <1>7, <3>1
  <2>2. PICK m, q : m = f[k] /\ q = P[L - (k + 1)]
    OBVIOUS
  <2>3. m \in T /\ h.index[m] = P[L - k] /\ f[k + 1] = Child(h, m, q)
    BY <1>6, <1>9, <2>1, <2>2
  <2>4. q \in Nat /\ q >= 1 /\ q <= i /\ P[L - k] = q \div 2
    BY <1>3, <1>4, <2>1, <2>2 DEF ParentNumber
  <2>5. PICK n \in T : h.index[n] = q
    BY <1>1, <2>4 DEF Complete
  <2>6. h.index[m] \in Nat /\ h.index[m] >= 1
    BY <1>1, <2>3 DEF Complete
  <2>7. n # h.root
    BY <1>1, <2>3, <2>4, <2>5, <2>6
  <2>8. /\ h.parent[n] \in T /\ h.index[h.parent[n]] = q \div 2
        /\ n = h.left[h.parent[n]] \/ n = h.right[h.parent[n]]
    BY <2>5, <2>7, ParentHalves
  <2>9. h.parent[n] = m
    BY <2>3, <2>4, <2>8 DEF Complete
  <2>10. n # Nil
    BY <1>1, NodeFacts
  <2>11. h.index[Child(h, m, q)] = q
    BY <2>5, <2>8, <2>9, <2>10 DEF Child
  <2> QED
    BY <2>2, <2>3, <2>11
<1>10. \A k \in Nat : k \in Right
  <2>1. Right \in SUBSET Nat
    OBVIOUS
  <2>2. ASSUME NEW k \in Right PROVE k + 1 \in Right
    BY <1>9
  <2> HIDE DEF Right
  <2> QED
    BY <1>8, <2>1, <2>2, Induction
<1>11. h.index[f[L]] = P[L - L]
  BY <1>7, <1>10
<1> QED
  BY <1>3, <1>6, <1>7, <1>11
-----------------------------------------------------------------------------
(* Adding and removing a node *)

LEMMA SameShape ==
    ASSUME NEW h \in Heap, Linked(h), NEW u \in Heap, u.root = h.root,
           u.left = h.left, u.right = h.right, u.parent = h.parent
    PROVE  /\ Linked(u) /\ Below(u, u.root) = Below(h, h.root)
           /\ \A m \in Node : Children(u, m) = Children(h, m)
<1>1. \A m \in Node : Children(u, m) = Children(h, m)
  BY DEF Children
<1>2. Linked(u)
  BY <1>1 DEF Linked
<1>3. PICK T, V : T = Below(h, h.root) /\ V = Below(u, u.root)
  OBVIOUS
<1>4. T \in SUBSET Node /\ V \in SUBSET Node /\ Closed(h, T) /\ Closed(u, V)
  BY <1>2, <1>3, TreeFacts
<1>5. Closed(u, T) /\ Closed(h, V)
  BY <1>1, <1>4 DEF Closed
<1>6. {h.root} \ {Nil} \subseteq T /\ {u.root} \ {Nil} \subseteq V
  BY <1>2, <1>3, TreeFacts
<1>7. T = V
  BY <1>2, <1>3, <1>4, <1>5, <1>6, TreeFacts
<1> QED
  BY <1>1, <1>2, <1>3, <1>7

\* g is h with node n below p.
Hung(h, T, n, p, g, U) ==
    /\ g \in Heap /\ Linked(g) /\ g.root = h.root /\ g.count = h.count + 1
    /\ g.index = h.index /\ g.value = h.value
    /\ g.parent = [h.parent EXCEPT ![n] = p]
    /\ g.left = h.left \/ g.left = [h.left EXCEPT ![p] = n]
    /\ g.right = h.right \/ g.right = [h.right EXCEPT ![p] = n]
    /\ h.index[n] = 2 * h.index[p] =>
          g.left = [h.left EXCEPT ![p] = n] /\ g.right = h.right
    /\ h.index[n] # 2 * h.index[p] =>
          g.right = [h.right EXCEPT ![p] = n] /\ g.left = h.left
    /\ n \notin T /\ n \in U /\ U \subseteq T \union {n}
    /\ \A m \in Node : Children(g, m) \subseteq Children(h, m) \union {n}
    /\ \A m \in Node \ {p} : Children(g, m) = Children(h, m)
    /\ h.left[p] \in {Nil, g.left[p]} /\ h.right[p] \in {Nil, g.right[p]} =>
          U = T \union {n}

\* A new node below p is in the tree.  What p had in its place goes, with all
\* that is below, and nothing else does.
LEMMA Attaches ==
    ASSUME NEW h \in Heap, Linked(h), NEW T, T = Below(h, h.root), h.root # Nil,
           NEW n \in Node, Children(h, n) = {}, h.parent[n] = Nil, n # h.root,
           NEW p \in T, p < n,
           NEW g, g = Attached(h, n, p), NEW U, U = Below(g, g.root)
    PROVE  Hung(h, T, n, p, g, U)
<1>1. /\ T \in SUBSET Node /\ Closed(h, T) /\ h.root \in T /\ h.parent[h.root] = Nil
      /\ \A m \in T \ {h.root} : h.parent[m] \in T
  BY TreeFacts
<1>2. p \in Node /\ p # n /\ p # Nil /\ n # Nil /\ p \in Nat /\ n \in Nat
  BY <1>1, NodeFacts
<1>3. n \notin T
  BY <1>1, NodeFacts
<1>4. /\ g \in Heap /\ g.root = h.root /\ g.count = h.count + 1
      /\ g.index = h.index /\ g.value = h.value
      /\ g.parent = [h.parent EXCEPT ![n] = p]
      /\ h.index[n] = 2 * h.index[p] =>
            g.left = [h.left EXCEPT ![p] = n] /\ g.right = h.right
      /\ h.index[n] # 2 * h.index[p] =>
            g.right = [h.right EXCEPT ![p] = n] /\ g.left = h.left
  <2>1. n \in Pointer /\ p \in Pointer /\ h.count + 1 \in Nat
    BY <1>2 DEF Pointer, Heap
  <2>2. CASE h.index[n] = 2 * h.index[p]
    <3>1. g = [h EXCEPT !.parent[n] = p, !.left[p] = n, !.count = h.count + 1]
      BY <2>2 DEF Attached
    <3>2. PICK par, new : /\ par = [h.parent EXCEPT ![n] = p]
                          /\ new = [h.left EXCEPT ![p] = n]
      OBVIOUS
    <3>3. par \in [Node -> Pointer] /\ new \in [Node -> Pointer]
      BY <1>2, <2>1, <3>2 DEF Heap
    <3>4. /\ g.parent = par /\ g.left = new /\ g.right = h.right /\ g.root = h.root
          /\ g.count = h.count + 1 /\ g.index = h.index /\ g.value = h.value
      BY <3>1, <3>2 DEF Heap
    <3>5. g = [h EXCEPT !.parent = par, !.left = new, !.count = h.count + 1]
      BY <3>1, <3>2 DEF Heap
    <3>6. g \in Heap
      BY <2>1, <3>3, <3>5 DEF Heap
    <3> QED
      BY <2>2, <3>2, <3>4, <3>6
  <2>3. CASE h.index[n] # 2 * h.index[p]
    <3>1. g = [h EXCEPT !.parent[n] = p, !.right[p] = n, !.count = h.count + 1]
      BY <2>3 DEF Attached
    <3>2. PICK par, new : /\ par = [h.parent EXCEPT ![n] = p]
                          /\ new = [h.right EXCEPT ![p] = n]
      OBVIOUS
    <3>3. par \in [Node -> Pointer] /\ new \in [Node -> Pointer]
      BY <1>2, <2>1, <3>2 DEF Heap
    <3>4. /\ g.parent = par /\ g.right = new /\ g.left = h.left /\ g.root = h.root
          /\ g.count = h.count + 1 /\ g.index = h.index /\ g.value = h.value
      BY <3>1, <3>2 DEF Heap
    <3>5. g = [h EXCEPT !.parent = par, !.right = new, !.count = h.count + 1]
      BY <3>1, <3>2 DEF Heap
    <3>6. g \in Heap
      BY <2>1, <3>3, <3>5 DEF Heap
    <3> QED
      BY <2>3, <3>2, <3>4, <3>6
  <2> QED
    BY <2>2, <2>3
<1>5. \A m \in Node \ {p} : Children(g, m) = Children(h, m)
  <2> TAKE m \in Node \ {p}
  <2>1. g.left[m] = h.left[m] /\ g.right[m] = h.right[m]
    BY <1>4 DEF Heap
  <2> QED
    BY <2>1 DEF Children
<1>6. Children(g, p) \subseteq Children(h, p) \union {n} /\ n \in Children(g, p)
  <2>1. CASE h.index[n] = 2 * h.index[p]
    <3>1. g.left[p] = n /\ g.right[p] = h.right[p]
      BY <1>2, <1>4, <2>1 DEF Heap
    <3> QED
      BY <1>2, <3>1 DEF Children
  <2>2. CASE h.index[n] # 2 * h.index[p]
    <3>1. g.right[p] = n /\ g.left[p] = h.left[p]
      BY <1>2, <1>4, <2>2 DEF Heap
    <3> QED
      BY <1>2, <3>1 DEF Children
  <2> QED
    BY <2>1, <2>2
<1>7. \A m \in Node : n \notin Children(h, m)
  BY NodeFacts DEF Linked
<1>8. \A m \in Node : g.parent[m] = IF m = n THEN p ELSE h.parent[m]
  BY <1>4 DEF Heap
<1>9. Linked(g)
  <2>1. ASSUME NEW m \in Node, NEW c \in Children(g, m)
        PROVE  c > m /\ g.parent[c] = m
    <3>1. CASE c \in Children(h, m)
      <4>1. c \in Node /\ c # n /\ c > m /\ h.parent[c] = m
        BY <1>7, <3>1, LinkTypes DEF Linked
      <4> QED
        BY <1>8, <4>1
    <3>2. CASE c \notin Children(h, m)
      <4>1. m = p /\ c = n
        BY <1>5, <1>6, <2>1, <3>2
      <4> QED
        BY <1>2, <1>8, <4>1
    <3> QED
      BY <3>1, <3>2
  <2>2. ASSUME NEW m \in Node, g.left[m] = g.right[m]
        PROVE  g.left[m] = Nil
    <3>1. CASE m # p
      <4>1. g.left[m] = h.left[m] /\ g.right[m] = h.right[m]
        BY <1>4, <3>1 DEF Heap
      <4> QED
        BY <2>2, <4>1 DEF Linked
    <3>2. CASE m = p
      <4>1. h.left[p] # n /\ h.right[p] # n
        BY <1>2, <1>7 DEF Children
      <4>2. \/ g.left[p] = n /\ g.right[p] = h.right[p]
            \/ g.right[p] = n /\ g.left[p] = h.left[p]
        BY <1>2, <1>4 DEF Heap
      <4> QED
        BY <2>2, <3>2, <4>1, <4>2
    <3> QED
      BY <3>1, <3>2
  <2>3. ASSUME NEW m \in Node PROVE g.parent[m] < m
    BY <1>8 DEF Linked
  <2>4. g.parent[g.root] = Nil
    BY <1>1, <1>4, <1>8
  <2> QED
    BY <2>1, <2>2, <2>3, <2>4 DEF Linked
<1>10. /\ U \in SUBSET Node /\ Closed(g, U) /\ h.root \in U
       /\ \A S \in SUBSET Node : {h.root} \subseteq S /\ Closed(g, S) => U \subseteq S
  <2>1. g.root # Nil /\ g.root = h.root
    BY <1>4
  <2> QED
    BY <1>4, <1>9, <2>1, TreeFacts
<1>11. \A S \in SUBSET Node : {h.root} \subseteq S /\ Closed(h, S) => T \subseteq S
  BY TreeFacts
<1>12. n \in U
  <2> DEFINE S == {m \in T : m <= p => m \in U}
  <2>1. S \in SUBSET Node /\ {h.root} \subseteq S
    BY <1>1, <1>10
  <2>2. Closed(h, S)
    <3> SUFFICES ASSUME NEW m \in S, NEW c \in Children(h, m) PROVE c \in S
      BY DEF Closed
    <3>1. m \in T /\ c \in T /\ c > m
      BY <1>1 DEF Closed, Linked
    <3>2. m \in Nat /\ c \in Nat /\ m \in Node
      BY <1>1, <3>1, NodeFacts
    <3>3. ASSUME c <= p PROVE c \in U
      <4>1. m \in U /\ m # p
        BY <1>2, <3>1, <3>2, <3>3
      <4>2. c \in Children(g, m)
        BY <1>5, <3>2, <4>1
      <4> QED
        BY <1>10, <4>1, <4>2 DEF Closed
    <3> QED
      BY <3>1, <3>3
  <2>3. p \in S
    BY <1>11, <2>1, <2>2
  <2>4. p \in U
    BY <1>2, <2>3
  <2> QED
    BY <1>6, <1>10, <2>4 DEF Closed
<1>13. U \subseteq T \union {n}
  <2>1. Closed(g, T \union {n})
    <3> SUFFICES ASSUME NEW m \in T \union {n} PROVE Children(g, m) \subseteq T \union {n}
      BY DEF Closed
    <3>1. CASE m = n
      BY <1>2, <1>5, <3>1
    <3>2. CASE m \in T
      <4>1. m \in Node /\ Children(h, m) \subseteq T
        BY <1>1, <3>2 DEF Closed
      <4> QED
        BY <1>5, <1>6, <4>1
    <3> QED
      BY <3>1, <3>2
  <2> QED
    BY <1>1, <1>10, <2>1
<1>14. ASSUME h.left[p] \in {Nil, g.left[p]}, h.right[p] \in {Nil, g.right[p]}
       PROVE  T \subseteq U
  <2>1. Children(h, p) \subseteq Children(g, p)
    BY <1>14 DEF Children
  <2>2. Closed(h, U)
    BY <1>5, <1>10, <2>1 DEF Closed
  <2> QED
    BY <1>10, <1>11, <2>2
<1>15. \A m \in Node : Children(g, m) \subseteq Children(h, m) \union {n}
  BY <1>5, <1>6
<1>16. /\ g.left = h.left \/ g.left = [h.left EXCEPT ![p] = n]
       /\ g.right = h.right \/ g.right = [h.right EXCEPT ![p] = n]
  BY <1>4
<1> QED
  BY <1>3, <1>4, <1>5, <1>9, <1>12, <1>13, <1>14, <1>15, <1>16 DEF Hung
\* g is h without node n.
Cut(h, T, n, g, U) ==
    /\ g \in Heap /\ Linked(g) /\ g.count = h.count - 1
    /\ g.index = h.index /\ g.value = h.value /\ g.parent = h.parent
    /\ g.root = IF n = h.root THEN Nil ELSE h.root
    /\ \A m \in Node : /\ g.left[m] \in {h.left[m], Nil}
                       /\ g.right[m] \in {h.right[m], Nil}
                       /\ Children(g, m) \subseteq Children(h, m)
    /\ U \subseteq T \ {n}
    /\ n # h.root /\ Children(h, n) = {} => U = T \ {n}

\* A node that is cut off is no longer in the tree.
LEMMA Detaches ==
    ASSUME NEW h \in Heap, Linked(h), NEW T, T = Below(h, h.root), h.count >= 1,
           NEW n \in T, NEW g, g = Detached(h, n), NEW U, U = Below(g, g.root)
    PROVE  Cut(h, T, n, g, U)
<1>1. /\ T \in SUBSET Node /\ Closed(h, T) /\ n \in Node /\ h.root # Nil
      /\ h.root \in T /\ h.root \in Node /\ h.parent[h.root] = Nil
      /\ \A m \in T \ {h.root} : h.parent[m] \in T /\ m \in Children(h, h.parent[m])
  BY TreeFacts
<1>2. PICK p \in Pointer : p = h.parent[n]
  BY <1>1, LinkTypes
<1>3. /\ n \in Nat /\ n # Nil /\ h.count - 1 \in Nat
      /\ p = Nil <=> n = h.root
      /\ p # Nil => p \in T /\ p \in Node /\ n \in Children(h, p)
  <2>1. n \in Nat /\ n # Nil /\ h.count - 1 \in Nat
    BY <1>1, NodeFacts DEF Heap
  <2>2. p \in T => p # Nil /\ p \in Node
    BY <1>1, NodeFacts
  <2> QED
    BY <1>1, <1>2, <2>1, <2>2
<1>4. /\ g \in Heap /\ g.count = h.count - 1
      /\ g.index = h.index /\ g.value = h.value /\ g.parent = h.parent
      /\ g.root = IF n = h.root THEN Nil ELSE h.root
      /\ \A m \in Node : /\ g.left[m] \in {h.left[m], Nil}
                         /\ g.right[m] \in {h.right[m], Nil}
      /\ \A m \in Node : m # p => Children(g, m) = Children(h, m)
      /\ p # Nil => Children(g, p) = Children(h, p) \ {n}
  <2>1. CASE p = Nil
    <3>1. g = [h EXCEPT !.root = Nil, !.count = h.count - 1]
      BY <1>2, <2>1 DEF Detached
    <3>2. /\ g \in Heap /\ g.count = h.count - 1 /\ g.left = h.left /\ g.right = h.right
          /\ g.index = h.index /\ g.value = h.value /\ g.parent = h.parent /\ g.root = Nil
      BY <1>3, <3>1 DEF Heap, Pointer
    <3>3. \A m \in Node : Children(g, m) = Children(h, m)
      BY <3>2 DEF Children
    <3> QED
      BY <1>3, <2>1, <3>2, <3>3
  <2>2. CASE p # Nil /\ h.left[p] = n
    <3>1. g = [h EXCEPT !.left[p] = Nil, !.count = h.count - 1]
      BY <1>2, <2>2 DEF Detached
    <3>2. PICK new : new = [h.left EXCEPT ![p] = Nil] /\ new \in [Node -> Pointer]
      <4>1. PICK new : new = [h.left EXCEPT ![p] = Nil]
        OBVIOUS
      <4>2. new \in [Node -> Pointer]
        BY <4>1 DEF Heap, Pointer
      <4> QED
        BY <4>1, <4>2
    <3>3. g = [h EXCEPT !.left = new, !.count = h.count - 1]
      BY <3>1, <3>2 DEF Heap
    <3>4. /\ g \in Heap /\ g.count = h.count - 1 /\ g.left = new /\ g.right = h.right
          /\ g.index = h.index /\ g.value = h.value /\ g.parent = h.parent /\ g.root = h.root
      BY <1>3, <3>2, <3>3 DEF Heap
    <3>5. \A m \in Node : g.left[m] = (IF m = p THEN Nil ELSE h.left[m])
                          /\ g.right[m] = h.right[m]
      BY <1>3, <2>2, <3>2, <3>4 DEF Heap
    <3>6. h.right[p] # n
      BY <1>3, <2>2 DEF Linked
    <3>7. Children(g, p) = Children(h, p) \ {n}
      BY <1>3, <2>2, <3>5, <3>6 DEF Children
    <3>8. \A m \in Node : m # p => Children(g, m) = Children(h, m)
      BY <3>5 DEF Children
    <3> QED
      BY <1>3, <2>2, <3>4, <3>5, <3>7, <3>8
  <2>3. CASE p # Nil /\ h.left[p] # n
    <3>1. g = [h EXCEPT !.right[p] = Nil, !.count = h.count - 1]
      BY <1>2, <2>3 DEF Detached
    <3>2. PICK new : new = [h.right EXCEPT ![p] = Nil] /\ new \in [Node -> Pointer]
      <4>1. PICK new : new = [h.right EXCEPT ![p] = Nil]
        OBVIOUS
      <4>2. new \in [Node -> Pointer]
        BY <4>1 DEF Heap, Pointer
      <4> QED
        BY <4>1, <4>2
    <3>3. g = [h EXCEPT !.right = new, !.count = h.count - 1]
      BY <3>1, <3>2 DEF Heap
    <3>4. /\ g \in Heap /\ g.count = h.count - 1 /\ g.right = new /\ g.left = h.left
          /\ g.index = h.index /\ g.value = h.value /\ g.parent = h.parent /\ g.root = h.root
      BY <1>3, <3>2, <3>3 DEF Heap
    <3>5. \A m \in Node : g.right[m] = (IF m = p THEN Nil ELSE h.right[m])
                          /\ g.left[m] = h.left[m]
      BY <1>3, <2>3, <3>2, <3>4 DEF Heap
    <3>6. h.right[p] = n
      BY <1>3, <2>3 DEF Children
    <3>7. Children(g, p) = Children(h, p) \ {n}
      BY <1>3, <2>3, <3>5, <3>6 DEF Children
    <3>8. \A m \in Node : m # p => Children(g, m) = Children(h, m)
      BY <3>5 DEF Children
    <3> QED
      BY <1>3, <2>3, <3>4, <3>5, <3>7, <3>8
  <2> QED
    BY <2>1, <2>2, <2>3
<1>5. \A m \in Node : Children(g, m) = Children(h, m) \ {n}
  <2> TAKE m \in Node
  <2>1. CASE m = p
    BY <1>4, <2>1, NodeFacts
  <2>2. CASE m # p
    <3>1. n \notin Children(h, m)
      BY <1>2, <2>2 DEF Linked
    <3> QED
      BY <1>4, <2>2, <3>1
  <2> QED
    BY <2>1, <2>2
<1>6. Linked(g)
  <2>1. ASSUME NEW m \in Node, NEW c \in Children(g, m)
        PROVE  c > m /\ g.parent[c] = m
    BY <1>4, <1>5, <2>1 DEF Linked
  <2>2. ASSUME NEW m \in Node, g.left[m] = g.right[m]
        PROVE  g.left[m] = Nil
    BY <1>4, <2>2 DEF Linked
  <2>3. ASSUME NEW m \in Node PROVE g.parent[m] < m
    BY <1>4 DEF Linked
  <2>4. g.root # Nil => g.parent[g.root] = Nil
    BY <1>1, <1>4
  <2> QED
    BY <2>1, <2>2, <2>3, <2>4 DEF Linked
<1>7. /\ U \in SUBSET Node /\ Closed(g, U)
      /\ g.root = Nil => U = {}
      /\ g.root # Nil => g.root \in U
      /\ \A S \in SUBSET Node : {g.root} \ {Nil} \subseteq S /\ Closed(g, S) => U \subseteq S
  BY <1>4, <1>6, TreeFacts
<1>8. U \subseteq T \ {n}
  <2>1. T \ {n} \in SUBSET Node /\ {g.root} \ {Nil} \subseteq T \ {n}
    BY <1>1, <1>4
  <2>2. Closed(g, T \ {n})
    <3> SUFFICES ASSUME NEW m \in T \ {n} PROVE Children(g, m) \subseteq T \ {n}
      BY DEF Closed
    <3>1. m \in Node /\ Children(h, m) \subseteq T
      BY <1>1 DEF Closed
    <3> QED
      BY <1>5, <3>1
  <2> QED
    BY <1>7, <2>1, <2>2
<1>9. ASSUME n # h.root, Children(h, n) = {} PROVE T \ {n} \subseteq U
  <2>1. U \union {n} \in SUBSET Node /\ {h.root} \ {Nil} \subseteq U \union {n}
    BY <1>1, <1>4, <1>7, <1>9
  <2>2. Closed(h, U \union {n})
    <3> SUFFICES ASSUME NEW m \in U \union {n} PROVE Children(h, m) \subseteq U \union {n}
      BY DEF Closed
    <3>1. CASE m = n
      BY <1>9, <3>1
    <3>2. CASE m \in U
      <4>1. m \in Node /\ Children(g, m) \subseteq U
        BY <1>7, <3>2 DEF Closed
      <4> QED
        BY <1>5, <4>1
    <3> QED
      BY <3>1, <3>2
  <2>3. T \subseteq U \union {n}
    BY <2>1, <2>2, TreeFacts
  <2> QED
    BY <2>3
<1> QED
  BY <1>4, <1>5, <1>6, <1>8, <1>9 DEF Cut
-----------------------------------------------------------------------------
(* What push() and pop() do to the tree *)

\* The tree after k pushes.  The nodes after k are not linked yet.
Sound(h, T, k) ==
    /\ h \in Heap /\ Linked(h) /\ T = Below(h, h.root)
    /\ h.count <= k
    /\ \A n \in Node : n > k =>
          Children(h, n) = {} /\ h.parent[n] = Nil /\ h.root # n
    /\ \A n \in T : h.value[n] \in Unit /\ h.value[n].id <= k
    /\ Distinct(h, T)

\* Only Complete, not the order, needs to know the numbers.
LEMMA ShuffledSound ==
    ASSUME NEW h, NEW T, NEW k, Sound(h, T, k), NEW u, Shuffled(h, u, T)
    PROVE  /\ Sound(u, T, k)
           /\ Complete(h, T) => Complete(u, T)
<1>1. IsTree(h, T)
  BY DEF Sound, IsTree
<1>2. IsTree(u, T) /\ \A m \in Node : Children(u, m) = Children(h, m)
  BY <1>1, ShuffledTree, SameTree DEF IsTree, Shuffled
<1>3. ASSUME NEW n \in T PROVE u.value[n] \in Unit /\ u.value[n].id <= k
  <2>1. u.value[n] \in Values(h, T)
    BY DEF Shuffled, Values
  <2>2. PICK m \in T : u.value[n] = h.value[m]
    BY <2>1 DEF Values
  <2> QED
    BY <2>2 DEF Sound
<1>4. u.count = h.count /\ u.parent = h.parent /\ u.root = h.root /\ Distinct(u, T)
  BY DEF Shuffled, SameLinks, Sound
<1>5. Sound(u, T, k)
  BY <1>2, <1>3, <1>4 DEF Sound, IsTree
<1>6. Complete(h, T) => Complete(u, T)
  BY DEF Complete, Shuffled, SameLinks
<1> QED
  BY <1>5, <1>6

LEMMA KnownNodes ==
    ASSUME NEW h, NEW T, NEW k \in Nat, Sound(h, T, k)
    PROVE  \A n \in T : n \in Node /\ n <= k
<1>1. T \in SUBSET Node /\ \A n \in T \ {h.root} : h.parent[n] \in T
  BY TreeFacts DEF Sound
<1> SUFFICES ASSUME NEW n \in T, ~(n <= k) PROVE FALSE
  BY <1>1
<1>2. n \in Node /\ n \in Nat /\ n > k
  BY <1>1, NodeFacts
<1>3. h.parent[n] = Nil /\ h.root # n
  BY <1>2 DEF Sound
<1> QED
  BY <1>1, <1>3, NodeFacts

\* What holds before a node n that hangs below p rises.
HungLow(h, T, n, p, g, U) ==
    /\ Sound(g, U, n) /\ n \in U /\ U \subseteq T \union {n} /\ n \notin T
    /\ Children(g, n) = {} /\ g.index = h.index /\ g.root = h.root
    /\ Values(g, U) \subseteq Values(h, T) \union {h.value[n]}
    /\ h.value[n] \in Values(g, U)
    /\ g.value = h.value /\ g.parent = [h.parent EXCEPT ![n] = p]

LEMMA Hangs ==
    ASSUME NEW h, NEW T, NEW k \in Nat, Sound(h, T, k), h.root # Nil,
           NEW n, n = k + 1, n \in Node, h.value[n] \in Unit, h.value[n].id = n,
           NEW p \in T,
           NEW g, g = Attached(h, n, p), NEW U, U = Below(g, g.root)
    PROVE  HungLow(h, T, n, p, g, U)
<1>1. /\ h \in Heap /\ Linked(h) /\ T = Below(h, h.root) /\ n \in Nat
      /\ p \in Node /\ p <= k /\ p < n /\ T \in SUBSET Node
      /\ Children(h, n) = {} /\ h.parent[n] = Nil /\ n # h.root
  <2>1. h \in Heap /\ Linked(h) /\ T = Below(h, h.root)
    BY DEF Sound
  <2>2. p \in Node /\ p \in Nat /\ p <= k
    BY KnownNodes, NodeFacts
  <2>3. Children(h, n) = {} /\ h.parent[n] = Nil /\ n # h.root
    BY DEF Sound
  <2> QED
    BY <2>1, <2>2, <2>3, TreeFacts
<1>2. /\ g \in Heap /\ Linked(g) /\ g.root = h.root /\ g.count = h.count + 1
      /\ g.index = h.index /\ g.value = h.value
      /\ g.parent = [h.parent EXCEPT ![n] = p]
      /\ n \notin T /\ n \in U /\ U \subseteq T \union {n}
      /\ \A m \in Node \ {p} : Children(g, m) = Children(h, m)
  <2>1. Hung(h, T, n, p, g, U)
    BY <1>1, Attaches
  <2> QED
    BY <2>1 DEF Hung
<1>3. n # p /\ Children(g, n) = {}
  BY <1>1, <1>2
<1>4. ASSUME NEW m \in Node, m > n
      PROVE  Children(g, m) = {} /\ g.parent[m] = Nil /\ g.root # m
  <2>1. m > k /\ m # p /\ m # n
    <3>1. m \in Nat /\ p \in Nat
      BY <1>1, NodeFacts
    <3> QED
      BY <1>1, <1>4, <3>1
  <2>2. Children(h, m) = {} /\ h.parent[m] = Nil /\ h.root # m
    BY <2>1 DEF Sound
  <2> QED
    BY <1>1, <1>2, <2>1, <2>2 DEF Heap
<1>5. ASSUME NEW m \in U PROVE g.value[m] \in Unit /\ g.value[m].id <= n
  <2>1. CASE m = n
    BY <1>1, <1>2, <2>1
  <2>2. CASE m # n
    <3>1. m \in T /\ h.value[m] \in Unit /\ h.value[m].id <= k
      BY <1>2, <2>2 DEF Sound
    <3>2. h.value[m].id \in Nat
      BY <3>1, NodeFacts DEF Unit
    <3> QED
      BY <1>1, <1>2, <3>1, <3>2
  <2> QED
    BY <2>1, <2>2
<1>6. Distinct(g, U)
  <2> SUFFICES ASSUME NEW a \in U, NEW b \in U, g.value[a] = g.value[b] PROVE a = b
    BY DEF Distinct
  <2>1. \A m \in T : h.value[m].id # n
    <3> TAKE m \in T
    <3>1. h.value[m] \in Unit /\ h.value[m].id <= k
      BY DEF Sound
    <3>2. h.value[m].id \in Nat
      BY <3>1, NodeFacts DEF Unit
    <3> QED
      BY <3>1, <3>2
  <2> QED
    BY <1>2, <2>1 DEF Sound, Distinct
<1>7. g.count <= n
  BY <1>1, <1>2 DEF Sound, Heap
<1>8. Sound(g, U, n)
  BY <1>2, <1>4, <1>5, <1>6, <1>7 DEF Sound
<1>9. /\ Values(g, U) \subseteq Values(h, T) \union {h.value[n]}
      /\ h.value[n] \in Values(g, U)
  BY <1>2 DEF Values
<1> QED
  BY <1>2, <1>3, <1>8, <1>9 DEF HungLow

\* The last node of a tree that has more than one.
LastOf(h, T) == {m \in T \ {h.root} : h.index[m] = h.count}

\* With the number it has in a complete tree, the node takes a free place, which
\* is not below the last node.
HungWhole(h, T, n, g, U) ==
    /\ U = T \union {n} /\ Complete(g, U)
    /\ Values(g, U) = Values(h, T) \union {h.value[n]}
    /\ \A S \in SUBSET LastOf(h, T) :
          /\ OrderedIn(h, T, S) => OrderedIn(g, U, S \union {n})
          /\ n \notin S /\ S \subseteq U /\ \A c \in S : Children(g, c) = {}

LEMMA HangsComplete ==
    ASSUME NEW h, NEW T, NEW k \in Nat, Sound(h, T, k), h.root # Nil,
           NEW n, n = k + 1, n \in Node, h.value[n] \in Unit, h.value[n].id = n,
           Complete(h, T), h.index[n] = h.count + 1,
           NEW p, p = FindNode(h, ParentNumber(h.count + 1)),
           NEW g, g = Attached(h, n, p), NEW U, U = Below(g, g.root)
    PROVE  HungWhole(h, T, n, g, U)
<1>1. /\ h \in Heap /\ Linked(h) /\ T = Below(h, h.root) /\ n \in Nat
      /\ T \in SUBSET Node /\ Closed(h, T) /\ h.root \in T /\ n # h.root /\ n # Nil
      /\ Children(h, n) = {} /\ h.parent[n] = Nil /\ MaxUnits \in Nat
      /\ h.count \in Nat /\ h.count <= k /\ k < MaxUnits
  <2>1. /\ h \in Heap /\ Linked(h) /\ T = Below(h, h.root) /\ n \in Nat
        /\ T \in SUBSET Node /\ Closed(h, T) /\ h.root \in T /\ MaxUnits \in Nat
        /\ h.count \in Nat /\ h.count <= k /\ k < MaxUnits
    <3>1. h \in Heap /\ Linked(h) /\ T = Below(h, h.root) /\ h.count <= k
      BY DEF Sound
    <3>2. T \in SUBSET Node /\ Closed(h, T) /\ h.root \in T
      BY <3>1, TreeFacts
    <3>3. h.count \in Nat
      BY <3>1 DEF Heap
    <3>4. MaxUnits \in Nat /\ n \in 1 .. MaxUnits
      BY NodeFacts DEF Node
    <3> QED
      BY <3>1, <3>2, <3>3, <3>4
  <2>2. Children(h, n) = {} /\ h.parent[n] = Nil /\ n # h.root
    BY <2>1 DEF Sound
  <2> QED
    BY <2>1, <2>2
<1>2. PICK i : i = ParentNumber(h.count + 1) /\ i \in 1 .. h.count /\ i \in Nat
               /\ (h.count + 1 = 2 * i \/ h.count + 1 = 2 * i + 1)
  <2>1. h.index[h.root] = 1 /\ h.index[h.root] \in 1 .. h.count
    BY <1>1 DEF Complete
  <2> QED
    BY <1>1, <2>1 DEF ParentNumber
<1>3. p \in T /\ h.index[p] = i
  BY <1>1, <1>2, Finds
<1>4. p \in Node /\ p \in Nat /\ p <= k /\ p < n
  <2>1. p \in Node /\ p \in Nat
    BY <1>1, <1>3, NodeFacts
  <2>2. p <= k
    BY <1>3, KnownNodes
  <2> QED
    BY <2>1, <2>2
<1>5. /\ g \in Heap /\ Linked(g) /\ g.root = h.root /\ g.count = h.count + 1
      /\ g.index = h.index /\ g.value = h.value
      /\ g.parent = [h.parent EXCEPT ![n] = p]
      /\ h.index[n] = 2 * h.index[p] =>
            g.left = [h.left EXCEPT ![p] = n] /\ g.right = h.right
      /\ h.index[n] # 2 * h.index[p] =>
            g.right = [h.right EXCEPT ![p] = n] /\ g.left = h.left
      /\ n \notin T
      /\ h.left[p] \in {Nil, g.left[p]} /\ h.right[p] \in {Nil, g.right[p]} =>
            U = T \union {n}
  <2>1. Hung(h, T, n, p, g, U)
    BY <1>1, <1>3, <1>4, Attaches
  <2> QED
    BY <2>1 DEF Hung
<1>6. ASSUME NEW c \in {h.left[p], h.right[p]}, c # Nil PROVE h.index[c] <= h.count
  <2>1. c \in T
    BY <1>1, <1>3, <1>6 DEF Closed, Children
  <2> QED
    BY <1>1, <2>1 DEF Complete
<1>7. h.left[p] \in {Nil, g.left[p]} /\ h.right[p] \in {Nil, g.right[p]}
  <2>1. CASE h.count + 1 = 2 * i
    <3>1. g.right[p] = h.right[p]
      BY <1>3, <1>5, <2>1
    <3>2. h.left[p] # Nil => h.index[h.left[p]] = 2 * i
      BY <1>3 DEF Complete
    <3>3. h.left[p] = Nil
      BY <1>1, <1>6, <2>1, <3>2
    <3> QED
      BY <3>1, <3>3
  <2>2. CASE h.count + 1 = 2 * i + 1
    <3>1. g.left[p] = h.left[p]
      <4>1. h.index[n] # 2 * h.index[p]
        BY <1>2, <1>3, <2>2
      <4> QED
        BY <1>5, <4>1
    <3>2. h.right[p] # Nil => h.index[h.right[p]] = 2 * i + 1
      BY <1>3 DEF Complete
    <3>3. h.right[p] = Nil
      BY <1>1, <1>6, <2>2, <3>2
    <3> QED
      BY <3>1, <3>3
  <2> QED
    BY <1>2, <2>1, <2>2
<1>8. U = T \union {n}
  BY <1>5, <1>7
<1>9. ASSUME NEW m \in U
      PROVE  /\ g.left[m] # Nil => h.index[g.left[m]] = 2 * h.index[m]
             /\ g.right[m] # Nil => h.index[g.right[m]] = 2 * h.index[m] + 1
             /\ h.index[m] \in 1 .. g.count
  <2>1. CASE m = n
    <3>1. h.left[n] = Nil /\ h.right[n] = Nil
      BY <1>1 DEF Children
    <3>2. g.left[n] = Nil /\ g.right[n] = Nil
      BY <1>1, <1>4, <1>5, <3>1 DEF Heap
    <3> QED
      BY <1>1, <1>5, <2>1, <3>2
  <2>2. CASE m \in T /\ m # p
    <3>1. g.left[m] = h.left[m] /\ g.right[m] = h.right[m]
      BY <1>1, <1>5, <2>2 DEF Heap
    <3>2. /\ h.left[m] # Nil => h.index[h.left[m]] = 2 * h.index[m]
          /\ h.right[m] # Nil => h.index[h.right[m]] = 2 * h.index[m] + 1
          /\ h.index[m] \in 1 .. h.count
      BY <2>2 DEF Complete
    <3> QED
      BY <1>1, <1>5, <3>1, <3>2
  <2>3. CASE m = p
    <3>1. /\ h.left[p] # Nil => h.index[h.left[p]] = 2 * i
          /\ h.right[p] # Nil => h.index[h.right[p]] = 2 * i + 1
      BY <1>3 DEF Complete
    <3>2. CASE h.count + 1 = 2 * i
      <4>1. g.left[p] = n /\ g.right[p] = h.right[p]
        BY <1>1, <1>3, <1>4, <1>5, <3>2 DEF Heap
      <4> QED
        BY <1>1, <1>2, <1>3, <1>5, <2>3, <3>1, <3>2, <4>1
    <3>3. CASE h.count + 1 = 2 * i + 1
      <4>1. h.index[n] # 2 * h.index[p]
        BY <1>2, <1>3, <3>3
      <4>2. g.right[p] = n /\ g.left[p] = h.left[p]
        BY <1>1, <1>4, <1>5, <4>1 DEF Heap
      <4> QED
        BY <1>1, <1>2, <1>3, <1>5, <2>3, <3>1, <3>3, <4>2
    <3> QED
      BY <1>2, <3>2, <3>3
  <2> QED
    BY <1>8, <2>1, <2>2, <2>3
<1>10. ASSUME NEW j \in 1 .. g.count PROVE \E m \in U : h.index[m] = j
  <2>1. CASE j = h.count + 1
    BY <1>8, <2>1
  <2>2. CASE j \in 1 .. h.count
    BY <1>8, <2>2 DEF Complete
  <2> QED
    BY <1>1, <1>5, <2>1, <2>2
<1>11. ASSUME NEW a \in U, NEW b \in U, h.index[a] = h.index[b] PROVE a = b
  <2>1. \A m \in T : h.index[m] # h.count + 1
    BY <1>1 DEF Complete
  <2> QED
    BY <1>8, <1>11, <2>1 DEF Complete
<1>12. Complete(g, U)
  <2>1. g.root # Nil => g.index[g.root] = 1
    BY <1>5 DEF Complete
  <2> QED
    BY <1>5, <1>9, <1>10, <1>11, <2>1 DEF Complete
<1>13. Values(g, U) = Values(h, T) \union {h.value[n]}
  BY <1>5, <1>8 DEF Values
<1>14. ASSUME NEW S \in SUBSET LastOf(h, T), OrderedIn(h, T, S)
       PROVE  OrderedIn(g, U, S \union {n})
  <2> SUFFICES ASSUME NEW c \in T \ (S \union {h.root}), c # n
               PROVE  g.value[g.parent[c]].key <= g.value[c].key
    BY <1>5, <1>8 DEF OrderedIn
  <2>1. g.parent[c] = h.parent[c]
    BY <1>1, <1>5 DEF Heap
  <2> QED
    BY <1>5, <1>14, <2>1 DEF OrderedIn
<1>15. ASSUME NEW c \in LastOf(h, T) PROVE c # n /\ c \in U /\ Children(g, c) = {}
  <2>1. c \in T /\ c # h.root /\ h.index[c] = h.count /\ c # n
    BY <1>5 DEF LastOf
  <2>2. h.left[c] = Nil /\ h.right[c] = Nil
    <3>1. h.left[c] # Nil => h.index[h.left[c]] = 2 * h.count /\ h.left[c] \in T
      BY <1>1, <2>1 DEF Complete, Closed, Children
    <3>2. h.right[c] # Nil => h.index[h.right[c]] = 2 * h.count + 1 /\ h.right[c] \in T
      BY <1>1, <2>1 DEF Complete, Closed, Children
    <3>3. h.count > 0 /\ \A m \in T : h.index[m] \in 1 .. h.count
      BY <1>1, <2>1 DEF Complete
    <3> QED
      BY <1>1, <3>1, <3>2, <3>3
  <2>3. c # p
    <3>1. h.index[h.root] = 1 /\ h.index[c] # h.index[h.root]
      BY <1>1, <2>1 DEF Complete
    <3> QED
      BY <1>1, <1>2, <1>3, <2>1, <3>1
  <2>4. g.left[c] = h.left[c] /\ g.right[c] = h.right[c]
    BY <1>1, <1>5, <2>1, <2>3 DEF Heap
  <2> QED
    BY <1>8, <2>1, <2>2, <2>4 DEF Children
<1> QED
  BY <1>8, <1>12, <1>13, <1>14, <1>15 DEF HungWhole

\* What a push of node n makes of h and its tree T.
PushedTo(h, T, n, u, U) ==
    /\ Sound(u, U, n) /\ U \subseteq T \union {n} /\ u.root \in U /\ u.index = h.index
    /\ Values(u, U) \subseteq Values(h, T) \union {h.value[n]}
    /\ h.value[n] \in Values(u, U)
    /\ Complete(h, T) /\ h.index[n] = h.count + 1 =>
          /\ Complete(u, U)
          /\ Values(u, U) = Values(h, T) \union {h.value[n]}
          /\ h.root # Nil => u.value[u.root].key <= h.value[h.root].key
          /\ \A S \in SUBSET LastOf(h, T) : OrderedIn(h, T, S) => OrderedIn(u, U, S)

LEMMA Pushes ==
    ASSUME NEW h, NEW T, NEW k \in Nat, Sound(h, T, k),
           NEW n, n = k + 1, n \in Node, h.value[n] \in Unit, h.value[n].id = n,
           NEW p, p = FindNode(h, ParentNumber(h.count + 1)),
           NEW u, u = IF h.root = Nil
                      THEN [h EXCEPT !.root = n, !.count = h.count + 1]
                      ELSE SiftedUp(Attached(h, n, p), n),
           NEW U, U = Below(u, u.root)
    PROVE  PushedTo(h, T, n, u, U)
<1>1. /\ h \in Heap /\ Linked(h) /\ T = Below(h, h.root) /\ n \in Nat
      /\ Children(h, n) = {} /\ h.parent[n] = Nil /\ h.count \in Nat /\ h.count <= k
  <2>1. h \in Heap /\ Linked(h) /\ T = Below(h, h.root) /\ n \in Nat /\ h.count <= k
    BY DEF Sound
  <2>2. Children(h, n) = {} /\ h.parent[n] = Nil
    BY DEF Sound
  <2> QED
    BY <2>1, <2>2 DEF Heap
<1>2. CASE h.root = Nil
  <2>1. T = {}
    BY <1>1, <1>2, TreeFacts
  <2>2. /\ u \in Heap /\ u.root = n /\ u.count = h.count + 1 /\ u.left = h.left
        /\ u.right = h.right /\ u.parent = h.parent /\ u.index = h.index /\ u.value = h.value
    <3>1. u = [h EXCEPT !.root = n, !.count = h.count + 1]
      BY <1>2
    <3>2. n \in Pointer /\ h.count + 1 \in Nat
      BY <1>1 DEF Pointer
    <3> QED
      BY <1>1, <3>1, <3>2 DEF Heap
  <2>3. \A m \in Node : Children(u, m) = Children(h, m)
    BY <2>2 DEF Children
  <2>4. Linked(u)
    BY <1>1, <2>2, <2>3 DEF Linked
  <2>5. U = {n}
    <3>1. {n} \in SUBSET Node /\ Closed(u, {n})
      BY <1>1, <2>3 DEF Closed
    <3>2. n # Nil
      BY NodeFacts
    <3>3. n \in U
      <4>1. u.root # Nil
        BY <2>2, <3>2
      <4>2. u.root \in Below(u, u.root)
        BY <2>2, <2>4, <4>1, RootInside
      <4> QED
        BY <2>2, <4>2
    <3>4. {u.root} \ {Nil} \subseteq {n}
      BY <2>2
    <3>5. U \subseteq {n}
      BY <2>2, <2>4, <3>1, <3>4, TreeFacts
    <3> QED
      BY <3>3, <3>5
  <2>6. ASSUME NEW m \in Node, m > n
        PROVE  Children(u, m) = {} /\ u.parent[m] = Nil /\ u.root # m
    <3>1. m > k /\ m # n
      BY <1>1, <2>6, NodeFacts
    <3>2. Children(h, m) = {} /\ h.parent[m] = Nil
      BY <3>1 DEF Sound
    <3> QED
      BY <2>2, <2>3, <3>1, <3>2
  <2>7. Sound(u, U, n)
    <3>1. \A m \in U : u.value[m] \in Unit /\ u.value[m].id <= n
      BY <1>1, <2>2, <2>5
    <3>2. Distinct(u, U)
      BY <2>5 DEF Distinct
    <3>3. u.count <= n
      BY <1>1, <2>2
    <3> QED
      BY <2>2, <2>4, <2>6, <3>1, <3>2, <3>3 DEF Sound
  <2>8. Values(u, U) = {h.value[n]} /\ Values(h, T) = {}
    BY <2>1, <2>2, <2>5 DEF Values
  <2>9. ASSUME Complete(h, T), h.index[n] = h.count + 1
        PROVE  Complete(u, U) /\ \A S : OrderedIn(u, U, S)
    <3>1. h.count = 0 /\ h.index[n] = 1 /\ u.count = 1
      BY <1>1, <1>2, <2>2, <2>9 DEF Complete
    <3>2. u.left[n] = Nil /\ u.right[n] = Nil
      BY <1>1, <2>2 DEF Children
    <3>3. Complete(u, U)
      BY <2>2, <2>5, <3>1, <3>2 DEF Complete
    <3>4. \A S : OrderedIn(u, U, S)
      BY <2>2, <2>5 DEF OrderedIn
    <3> QED
      BY <3>3, <3>4
  <2> QED
    BY <1>2, <2>1, <2>2, <2>5, <2>7, <2>8, <2>9 DEF PushedTo
<1>3. CASE h.root # Nil
  <2>1. PICK g, V : g = Attached(h, n, p) /\ V = Below(g, g.root)
    OBVIOUS
  <2>2. p \in T
    <3>1. T \in SUBSET Node /\ Closed(h, T) /\ h.root \in T
      BY <1>1, <1>3, TreeFacts
    <3> QED
      BY <3>1, FindsInside
  <2>3. /\ Sound(g, V, n) /\ n \in V /\ V \subseteq T \union {n} /\ n \notin T
        /\ Children(g, n) = {} /\ g.index = h.index /\ g.root = h.root
        /\ Values(g, V) \subseteq Values(h, T) \union {h.value[n]}
        /\ h.value[n] \in Values(g, V)
        /\ g.value = h.value
    <3>1. HungLow(h, T, n, p, g, V)
      BY <1>3, <2>1, <2>2, Hangs
    <3> QED
      BY <3>1 DEF HungLow
  <2>4. g \in Heap /\ IsTree(g, V)
    BY <2>3 DEF Sound, IsTree
  <2>5. u = SiftedUp(g, n)
    BY <1>3, <2>1
  <2>6. /\ Shuffled(g, u, V)
        /\ u.value[g.root].key <= g.value[g.root].key
    <3>1. PICK S : S = {}
      OBVIOUS
    <3>2. n \notin S /\ S \subseteq V /\ \A c \in S : Children(g, c) = {}
      BY <3>1
    <3> QED
      BY <2>3, <2>4, <2>5, <3>2, SiftUp
  <2>7. /\ Sound(u, V, n) /\ u.root = g.root /\ u.index = g.index /\ U = V
        /\ Values(u, V) = Values(g, V)
        /\ Complete(g, V) => Complete(u, V)
    <3>1. Sound(u, V, n) /\ (Complete(g, V) => Complete(u, V))
      BY <2>3, <2>6, ShuffledSound
    <3> QED
      BY <2>6, <3>1 DEF Sound, Shuffled, SameLinks
  <2>8. u.root \in U
    <3>1. u \in Heap /\ Linked(u) /\ u.root # Nil
      BY <1>3, <2>3, <2>7 DEF Sound
    <3>2. u.root \in Below(u, u.root)
      BY <3>1, RootInside
    <3> QED
      BY <3>2
  <2>9. ASSUME Complete(h, T), h.index[n] = h.count + 1
        PROVE  /\ Complete(u, U)
               /\ Values(u, U) = Values(h, T) \union {h.value[n]}
               /\ u.value[u.root].key <= h.value[h.root].key
               /\ \A S \in SUBSET LastOf(h, T) : OrderedIn(h, T, S) => OrderedIn(u, U, S)
    <3>1. /\ V = T \union {n} /\ Complete(g, V)
          /\ Values(g, V) = Values(h, T) \union {h.value[n]}
          /\ \A S \in SUBSET LastOf(h, T) :
                /\ OrderedIn(h, T, S) => OrderedIn(g, V, S \union {n})
                /\ n \notin S /\ S \subseteq V /\ \A c \in S : Children(g, c) = {}
      <4>1. HungWhole(h, T, n, g, V)
        BY <1>3, <2>1, <2>9, HangsComplete
      <4> QED
        BY <4>1 DEF HungWhole
    <3>2. ASSUME NEW S \in SUBSET LastOf(h, T), OrderedIn(h, T, S)
          PROVE  OrderedIn(u, U, S)
      <4>1. /\ OrderedIn(g, V, S \union {n}) /\ n \notin S /\ S \subseteq V
            /\ \A c \in S : Children(g, c) = {}
        BY <3>1, <3>2
      <4>2. OrderedIn(u, V, S)
        BY <2>3, <2>4, <2>5, <4>1, SiftUp
      <4> QED
        BY <2>7, <4>2
    <3> QED
      BY <2>3, <2>6, <2>7, <3>1, <3>2
  <2> QED
    BY <2>3, <2>7, <2>8, <2>9 DEF PushedTo
<1> QED
  BY <1>2, <1>3

\* In a complete tree only the last node can be a left child without a sibling.
LEMMA CompleteShape ==
    ASSUME NEW h \in Heap, Linked(h), NEW T, T = Below(h, h.root), Complete(h, T)
    PROVE  /\ LeftFirst(h, T)
           /\ \A c \in T \ {h.root} : h.right[h.parent[c]] = Nil => h.index[c] = h.count
<1>1. /\ T \in SUBSET Node /\ Closed(h, T) /\ h.count \in Nat
      /\ h.root # Nil => h.root \in T
      /\ \A m \in T : h.index[m] \in 1 .. h.count
  BY TreeFacts DEF Heap, Complete
<1>2. ASSUME NEW m \in T, h.right[m] # Nil PROVE h.left[m] # Nil
  <2>1. h.right[m] \in T /\ h.index[h.right[m]] = 2 * h.index[m] + 1
    BY <1>1, <1>2 DEF Closed, Children, Complete
  <2>2. PICK a \in 1 .. h.count : a = h.index[m] /\ 2 * a + 1 <= h.count
    BY <1>1, <2>1
  <2>3. 2 * a \in 1 .. h.count
    BY <1>1, <2>2
  <2>4. PICK c \in T : h.index[c] = 2 * a
    BY <2>3 DEF Complete
  <2>5. c # h.root
    BY <1>1, <2>2, <2>4, NodeFacts DEF Complete
  <2>6. /\ h.parent[c] \in T /\ h.index[h.parent[c]] = (2 * a) \div 2
        /\ h.left[h.parent[c]] = c <=> h.index[c] = 2 * h.index[h.parent[c]]
    BY <2>4, <2>5, ParentHalves
  <2>7. h.index[h.parent[c]] = a
    BY <1>1, <2>2, <2>6
  <2>8. h.parent[c] = m
    BY <2>2, <2>6, <2>7 DEF Complete
  <2>9. c # Nil
    BY <1>1, NodeFacts
  <2> QED
    BY <2>4, <2>6, <2>7, <2>8, <2>9
<1>3. ASSUME NEW c \in T \ {h.root}, h.right[h.parent[c]] = Nil
      PROVE  h.index[c] = h.count
  <2>1. PICK m : m = h.parent[c]
    OBVIOUS
  <2>2. /\ m \in T /\ h.index[m] = h.index[c] \div 2
        /\ c = h.left[m] \/ c = h.right[m]
        /\ h.left[m] = c <=> h.index[c] = 2 * h.index[m]
    BY <2>1, ParentHalves
  <2>3. c # Nil
    BY <1>1, NodeFacts
  <2>4. PICK a \in 1 .. h.count : a = h.index[m] /\ h.index[c] = 2 * a
    BY <1>1, <1>3, <2>1, <2>2, <2>3
  <2>5. ASSUME 2 * a # h.count PROVE FALSE
    <3>1. 2 * a + 1 \in 1 .. h.count
      BY <1>1, <2>4, <2>5
    <3>2. PICK d \in T : h.index[d] = 2 * a + 1
      BY <3>1 DEF Complete
    <3>3. d # h.root
      BY <1>1, <2>4, <3>2, NodeFacts DEF Complete
    <3>4. /\ h.parent[d] \in T /\ h.index[h.parent[d]] = (2 * a + 1) \div 2
          /\ d = h.left[h.parent[d]] \/ d = h.right[h.parent[d]]
          /\ h.left[h.parent[d]] = d <=> h.index[d] = 2 * h.index[h.parent[d]]
      BY <3>2, <3>3, ParentHalves
    <3>5. h.index[h.parent[d]] = a
      <4>1. a \in Nat
        BY <1>1, <2>4
      <4>2. (2 * a + 1) \div 2 = a
        BY <4>1
      <4> QED
        BY <3>4, <4>2
    <3>6. h.parent[d] = m
      BY <2>2, <2>4, <3>4, <3>5 DEF Complete
    <3>7. d = h.right[m]
      BY <2>4, <3>2, <3>4, <3>5, <3>6
    <3> QED
      BY <1>1, <1>3, <2>1, <3>7, NodeFacts
  <2> QED
    BY <2>4, <2>5
<1> QED
  BY <1>2, <1>3 DEF LeftFirst
\* What a pop that frees the node last makes of h and its tree T.
PoppedTo(h, T, k, last, u, U) ==
    /\ last \in T /\ Sound(u, U, k) /\ U \subseteq T \ {last} /\ u.index = h.index
    /\ Values(u, U) \subseteq Values(h, T) \ {h.value[h.root]}
    /\ \A m \in Node \ T : u.value[m] = h.value[m]
    /\ Complete(h, T) =>
          /\ Complete(u, U)
          /\ Values(u, U) = Values(h, T) \ {h.value[h.root]}
          /\ OrderedFrom(h, T, Nil) => OrderedFrom(u, U, Nil)

\* The last value goes to the root and the last node away: what holds before
\* the value sinks.
Shrunk(h, T, k, last, w, g, U) ==
    /\ Sound(g, U, k) /\ U \subseteq T \ {last} /\ g.index = h.index
    /\ g.root = IF last = h.root THEN Nil ELSE h.root
    /\ Values(g, U) \subseteq Values(h, T) \ {h.value[h.root]}
    /\ w \in Heap /\ w.left = h.left /\ w.right = h.right /\ w.parent = h.parent
    /\ w.index = h.index /\ w.root = h.root /\ w.count = h.count
    /\ Cut(w, T, last, g, U)
    /\ \A m \in T : g.value[m] = IF m = last THEN NoUnit
                                 ELSE IF m = h.root THEN h.value[last] ELSE h.value[m]
    /\ \A m \in Node \ T : g.value[m] = h.value[m]

LEMMA Shrinks ==
    ASSUME NEW h, NEW T, NEW k \in Nat, Sound(h, T, k), h.count >= 1, NEW last \in T,
           NEW w, w = [h EXCEPT !.value[h.root] = h.value[last], !.value[last] = NoUnit],
           NEW g, g = Detached(w, last), NEW U, U = Below(g, g.root)
    PROVE  Shrunk(h, T, k, last, w, g, U)
<1>1. /\ h \in Heap /\ Linked(h) /\ T = Below(h, h.root) /\ T \in SUBSET Node
      /\ h.root \in T /\ h.root \in Node /\ last \in Node
      /\ \A m \in T : h.value[m] \in Unit /\ h.value[m].id <= k
  <2>1. /\ h \in Heap /\ Linked(h) /\ T = Below(h, h.root)
        /\ \A m \in T : h.value[m] \in Unit /\ h.value[m].id <= k
    BY DEF Sound
  <2>2. T \in SUBSET Node /\ h.root \in T /\ h.root \in Node
    BY <2>1, TreeFacts
  <2> QED
    BY <2>1, <2>2
<1>2. PICK v : v = [h.value EXCEPT ![h.root] = h.value[last], ![last] = NoUnit]
  OBVIOUS
<1>3. /\ v \in [Node -> Unit \union {NoUnit}]
      /\ \A m \in T : v[m] = IF m = last THEN NoUnit
                             ELSE IF m = h.root THEN h.value[last] ELSE h.value[m]
      /\ \A m \in Node \ T : v[m] = h.value[m]
  BY <1>1, <1>2 DEF Heap
<1>4. w = [h EXCEPT !.value = v]
  BY <1>1, <1>2 DEF Heap
<1>5. /\ w \in Heap /\ w.left = h.left /\ w.right = h.right /\ w.parent = h.parent
      /\ w.index = h.index /\ w.root = h.root /\ w.count = h.count /\ w.value = v
  BY <1>1, <1>3, <1>4 DEF Heap
<1>6. /\ Linked(w) /\ T = Below(w, w.root)
      /\ \A m \in Node : Children(w, m) = Children(h, m)
  BY <1>1, <1>5, SameShape
<1>7. Cut(w, T, last, g, U)
  BY <1>5, <1>6, Detaches
<1>8. /\ g \in Heap /\ Linked(g) /\ g.count = h.count - 1
      /\ g.index = h.index /\ g.value = v /\ g.parent = h.parent
      /\ g.root = IF last = h.root THEN Nil ELSE h.root
      /\ \A m \in Node : Children(g, m) \subseteq Children(h, m)
      /\ U \subseteq T \ {last}
  BY <1>5, <1>6, <1>7 DEF Cut
<1>9. \A m \in U : m \in T /\ m # last
                  /\ v[m] = IF m = h.root THEN h.value[last] ELSE h.value[m]
  BY <1>3, <1>8
<1>10. ASSUME NEW m \in U PROVE g.value[m] \in Unit /\ g.value[m].id <= k
  BY <1>1, <1>8, <1>9
<1>11. Distinct(g, U)
  <2> SUFFICES ASSUME NEW a \in U, NEW b \in U, g.value[a] = g.value[b] PROVE a = b
    BY DEF Distinct
  <2>1. \A m, n \in T : h.value[m] = h.value[n] => m = n
    BY DEF Sound, Distinct
  <2> QED
    BY <1>8, <1>9, <2>1
<1>12. ASSUME NEW m \in Node, m > k
       PROVE  Children(g, m) = {} /\ g.parent[m] = Nil /\ g.root # m
  <2>1. Children(h, m) = {} /\ h.parent[m] = Nil /\ h.root # m
    BY <1>12 DEF Sound
  <2> QED
    BY <1>8, <2>1, NodeFacts
<1>13. g.count <= k
  BY <1>1, <1>8 DEF Sound, Heap
<1>14. Sound(g, U, k)
  BY <1>8, <1>10, <1>11, <1>12, <1>13 DEF Sound
<1>15. Values(g, U) \subseteq Values(h, T) \ {h.value[h.root]}
  <2> SUFFICES ASSUME NEW m \in U
               PROVE  g.value[m] \in Values(h, T) /\ g.value[m] # h.value[h.root]
    BY DEF Values
  <2>1. \A a, b \in T : h.value[a] = h.value[b] => a = b
    BY DEF Sound, Distinct
  <2>2. PICK j \in T : g.value[m] = h.value[j] /\ (m = h.root => j = last) /\ (m # h.root => j = m)
    BY <1>8, <1>9
  <2>3. h.value[j] \in Values(h, T)
    BY DEF Values
  <2>4. last # h.root
    <3>1. last = h.root => U = {}
      <4> SUFFICES ASSUME last = h.root PROVE U = {}
        OBVIOUS
      <4>1. g.root = Nil
        BY <1>8
      <4> QED
        BY <1>8, <4>1, TreeFacts
    <3> QED
      BY <3>1
  <2> QED
    BY <1>1, <2>1, <2>2, <2>3, <2>4
<1> QED
  BY <1>3, <1>5, <1>7, <1>8, <1>14, <1>15 DEF Shrunk

ShrunkWhole(h, T, g, U) ==
    /\ Complete(g, U) /\ Values(g, U) = Values(h, T) \ {h.value[h.root]}
    /\ OrderedFrom(h, T, Nil) => OrderedFrom(g, U, g.root)

\* In a complete tree the node with the last number has no children, and the
\* tree without it is complete.
LEMMA ShrinksComplete ==
    ASSUME NEW h, NEW T, NEW k \in Nat, Sound(h, T, k), Complete(h, T), h.count >= 2,
           NEW last \in T, h.index[last] = h.count,
           NEW w, w = [h EXCEPT !.value[h.root] = h.value[last], !.value[last] = NoUnit],
           NEW g, g = Detached(w, last), NEW U, U = Below(g, g.root)
    PROVE  ShrunkWhole(h, T, g, U)
<1>1. /\ h \in Heap /\ Linked(h) /\ T = Below(h, h.root) /\ T \in SUBSET Node
      /\ h.root \in T /\ h.root \in Node /\ h.root # Nil /\ last \in Node
      /\ Closed(h, T) /\ h.count \in Nat
      /\ \A m \in T \ {h.root} : h.parent[m] \in T
  <2>1. h \in Heap /\ Linked(h) /\ T = Below(h, h.root)
    BY DEF Sound
  <2>2. /\ T \in SUBSET Node /\ h.root \in T /\ h.root \in Node /\ h.root # Nil /\ Closed(h, T)
        /\ \A m \in T \ {h.root} : h.parent[m] \in T
    BY <2>1, TreeFacts
  <2> QED
    BY <2>1, <2>2 DEF Heap
<1>2. last # h.root
  BY <1>1 DEF Complete
<1>3. Children(h, last) = {}
  <2> SUFFICES ASSUME NEW c \in Children(h, last) PROVE FALSE
    OBVIOUS
  <2>1. c \in T /\ c # Nil /\ (c = h.left[last] \/ c = h.right[last])
    BY <1>1 DEF Closed, Children
  <2>2. h.index[c] \in 1 .. h.count
    BY <2>1 DEF Complete
  <2>3. h.index[c] = 2 * h.count \/ h.index[c] = 2 * h.count + 1
    BY <2>1 DEF Complete
  <2> QED
    BY <1>1, <2>2, <2>3
<1>4. /\ Values(g, U) \subseteq Values(h, T) \ {h.value[h.root]}
      /\ Cut(w, T, last, g, U)
      /\ w \in Heap /\ w.left = h.left /\ w.right = h.right /\ w.parent = h.parent
      /\ w.index = h.index /\ w.root = h.root /\ w.count = h.count
      /\ \A m \in T : g.value[m] = IF m = last THEN NoUnit
                                   ELSE IF m = h.root THEN h.value[last] ELSE h.value[m]
  <2>1. h.count >= 1
    BY <1>1
  <2>2. Shrunk(h, T, k, last, w, g, U)
    BY <2>1, Shrinks
  <2> QED
    BY <2>2 DEF Shrunk
<1>5. \A m \in Node : Children(w, m) = Children(h, m)
  BY <1>4 DEF Children
<1>6. /\ U = T \ {last} /\ g.root = h.root /\ g.count = h.count - 1 /\ g.index = h.index
      /\ g.parent = h.parent
      /\ \A m \in Node : /\ g.left[m] \in {h.left[m], Nil}
                         /\ g.right[m] \in {h.right[m], Nil}
  BY <1>1, <1>2, <1>3, <1>4, <1>5 DEF Cut
<1>7. Complete(g, U)
  <2>1. g.root # Nil /\ g.index[g.root] = 1
    BY <1>1, <1>6 DEF Complete
  <2>2. ASSUME NEW m \in U
        PROVE  /\ g.left[m] # Nil => g.index[g.left[m]] = 2 * g.index[m]
               /\ g.right[m] # Nil => g.index[g.right[m]] = 2 * g.index[m] + 1
               /\ g.index[m] \in 1 .. g.count
    <3>1. m \in T /\ m \in Node /\ m # last
      BY <1>1, <1>6
    <3>2. /\ h.left[m] # Nil => h.index[h.left[m]] = 2 * h.index[m]
          /\ h.right[m] # Nil => h.index[h.right[m]] = 2 * h.index[m] + 1
          /\ h.index[m] \in 1 .. h.count
          /\ h.index[m] # h.count
      BY <3>1 DEF Complete
    <3>3. g.index[m] \in 1 .. g.count
      BY <1>1, <1>6, <3>2
    <3>4. /\ g.left[m] \in {h.left[m], Nil}
          /\ g.right[m] \in {h.right[m], Nil}
      BY <1>6, <3>1
    <3> QED
      BY <1>6, <3>2, <3>3, <3>4
  <2>3. ASSUME NEW i \in 1 .. g.count PROVE \E m \in U : g.index[m] = i
    <3>1. i \in 1 .. h.count /\ i # h.count
      BY <1>1, <1>6
    <3>2. PICK m \in T : h.index[m] = i
      BY <3>1 DEF Complete
    <3> QED
      BY <1>6, <3>1, <3>2
  <2>4. \A a, b \in U : g.index[a] = g.index[b] => a = b
    BY <1>6 DEF Complete
  <2> QED
    BY <2>1, <2>2, <2>3, <2>4 DEF Complete
<1>8. Values(h, T) \ {h.value[h.root]} \subseteq Values(g, U)
  <2> SUFFICES ASSUME NEW m \in T, h.value[m] # h.value[h.root]
               PROVE  h.value[m] \in Values(g, U)
    BY DEF Values
  <2>1. CASE m = last
    <3>1. h.root \in U /\ g.value[h.root] = h.value[m]
      BY <1>1, <1>2, <1>4, <1>6, <2>1
    <3> QED
      BY <3>1 DEF Values
  <2>2. CASE m # last
    <3>1. m # h.root /\ m \in U /\ g.value[m] = h.value[m]
      BY <1>4, <1>6, <2>2
    <3> QED
      BY <3>1 DEF Values
  <2> QED
    BY <2>1, <2>2
<1>9. Values(g, U) = Values(h, T) \ {h.value[h.root]}
  BY <1>4, <1>8
<1>10. ASSUME OrderedFrom(h, T, Nil) PROVE OrderedFrom(g, U, g.root)
  <2> SUFFICES ASSUME NEW c \in U \ {h.root}, g.right[h.parent[c]] # Nil,
                      h.parent[c] # h.root
               PROVE  g.value[h.parent[c]].key <= g.value[c].key
    BY <1>6 DEF OrderedFrom
  <2>1. c \in T /\ c # last /\ h.parent[c] \in T /\ h.parent[c] \in Node
    BY <1>1, <1>6
  <2>2. h.parent[c] # last
    <3>1. c \in Children(h, h.parent[c])
      BY <1>1, <2>1, TreeFacts
    <3> QED
      BY <1>3, <3>1
  <2>3. h.right[h.parent[c]] # Nil /\ h.parent[c] # Nil
    BY <1>6, <2>1, NodeFacts
  <2>4. h.value[h.parent[c]].key <= h.value[c].key
    BY <1>10, <2>1, <2>3 DEF OrderedFrom
  <2> QED
    BY <1>4, <2>1, <2>2, <2>4
<1> QED
  BY <1>7, <1>9, <1>10 DEF ShrunkWhole
LEMMA Pops ==
    ASSUME NEW h, NEW T, NEW k \in Nat, Sound(h, T, k), h.count >= 1, h.root # Nil,
           k <= MaxUnits,
           NEW last, last = IF h.count = 1 THEN h.root ELSE FindNode(h, h.count),
           NEW w, w = [h EXCEPT !.value[h.root] = h.value[last], !.value[last] = NoUnit],
           NEW u, u = IF h.count = 1
                      THEN [h EXCEPT !.root = Nil, !.count = 0, !.value[last] = NoUnit]
                      ELSE SiftedDown(Detached(w, last)),
           NEW U, U = Below(u, u.root)
    PROVE  PoppedTo(h, T, k, last, u, U)
<1>1. /\ h \in Heap /\ Linked(h) /\ T = Below(h, h.root) /\ T \in SUBSET Node
      /\ h.root \in T /\ h.root \in Node /\ Closed(h, T) /\ h.count \in Nat
      /\ h.count <= k
  <2>1. h \in Heap /\ Linked(h) /\ T = Below(h, h.root) /\ h.count <= k
    BY DEF Sound
  <2>2. T \in SUBSET Node /\ h.root \in T /\ h.root \in Node /\ Closed(h, T)
    BY <2>1, TreeFacts
  <2> QED
    BY <2>1, <2>2 DEF Heap
<1>2. last \in T /\ last \in Node
  BY <1>1, FindsInside
<1>3. CASE h.count = 1
  <2>1. PICK v : v = [h.value EXCEPT ![last] = NoUnit]
    OBVIOUS
  <2>2. v \in [Node -> Unit \union {NoUnit}]
    BY <1>1, <1>2, <2>1 DEF Heap
  <2>3. u = [h EXCEPT !.root = Nil, !.count = 0, !.value = v]
    BY <1>1, <1>3, <2>1 DEF Heap
  <2>4. /\ u \in Heap /\ u.root = Nil /\ u.count = 0 /\ u.left = h.left /\ u.right = h.right
        /\ u.parent = h.parent /\ u.index = h.index /\ u.value = v
    <3>1. /\ u.root = Nil /\ u.count = 0 /\ u.left = h.left /\ u.right = h.right
          /\ u.parent = h.parent /\ u.index = h.index /\ u.value = v
      BY <1>1, <2>3 DEF Heap
    <3>2. Nil \in Pointer /\ 0 \in Nat
      BY DEF Pointer
    <3>3. u \in Heap
      BY <1>1, <2>2, <2>3, <3>2 DEF Heap
    <3> QED
      BY <3>1, <3>3
  <2>5. \A m \in Node : Children(u, m) = Children(h, m)
    BY <2>4 DEF Children
  <2>6. Linked(u)
    <3>1. \A m \in Node :
             /\ \A c \in Children(u, m) : c > m /\ u.parent[c] = m
             /\ u.left[m] = u.right[m] => u.left[m] = Nil
             /\ u.parent[m] < m
      BY <1>1, <2>4, <2>5 DEF Linked
    <3>2. ~(u.root # Nil)
      BY <2>4
    <3> QED
      BY <3>1, <3>2 DEF Linked
  <2>7. U = {}
    BY <2>4, <2>6, TreeFacts
  <2>8. ASSUME NEW m \in Node, m > k
        PROVE  Children(u, m) = {} /\ u.parent[m] = Nil /\ u.root # m
    <3>1. Children(h, m) = {} /\ h.parent[m] = Nil /\ m # Nil
      BY <2>8, NodeFacts DEF Sound
    <3> QED
      BY <2>4, <2>5, <3>1
  <2>9. Sound(u, U, k)
    <3>1. u.count <= k
      BY <2>4
    <3>2. Distinct(u, U) /\ \A n \in U : u.value[n] \in Unit /\ u.value[n].id <= k
      BY <2>7 DEF Distinct
    <3>3. u \in Heap
      BY <2>4
    <3> QED
      BY <2>6, <2>8, <3>1, <3>2, <3>3 DEF Sound
  <2>10. Values(u, U) = {}
    BY <2>7 DEF Values
  <2>11. ASSUME Complete(h, T)
         PROVE  /\ Complete(u, U)
                /\ Values(h, T) \ {h.value[h.root]} = {}
                /\ OrderedFrom(u, U, Nil)
    <3>1. \A m \in T : m = h.root
      <4> TAKE m \in T
      <4>1. h.index[m] \in 1 .. 1 /\ h.index[h.root] \in 1 .. 1
        BY <1>1, <1>3, <2>11 DEF Complete
      <4>2. h.index[m] = h.index[h.root]
        BY <4>1
      <4> QED
        BY <1>1, <2>11, <4>2 DEF Complete
    <3>2. Values(h, T) \ {h.value[h.root]} = {}
      BY <3>1 DEF Values
    <3>3. Complete(u, U)
      <4>1. u.root = Nil /\ u.count = 0 /\ 1 .. u.count = {}
        BY <2>4
      <4> QED
        BY <2>7, <4>1 DEF Complete
    <3>4. OrderedFrom(u, U, Nil)
      BY <2>7 DEF OrderedFrom
    <3> QED
      BY <3>2, <3>3, <3>4
  <2>12. \A m \in Node \ T : u.value[m] = h.value[m]
    BY <1>1, <1>2, <2>1, <2>4 DEF Heap
  <2>13. U \subseteq T \ {last} /\ Values(u, U) \subseteq Values(h, T) \ {h.value[h.root]}
    BY <2>7, <2>10
  <2> QED
    BY <1>2, <2>4, <2>9, <2>10, <2>11, <2>12, <2>13 DEF PoppedTo
<1>4. CASE h.count # 1
  <2>1. PICK g, V : g = Detached(w, last) /\ V = Below(g, g.root)
    OBVIOUS
  <2>2. Shrunk(h, T, k, last, w, g, V)
    BY <1>2, <2>1, Shrinks
  <2>3. /\ Sound(g, V, k) /\ V \subseteq T \ {last} /\ g.index = h.index
        /\ Values(g, V) \subseteq Values(h, T) \ {h.value[h.root]}
        /\ \A m \in Node \ T : g.value[m] = h.value[m]
    BY <2>2 DEF Shrunk
  <2>4. g \in Heap /\ Linked(g) /\ IsTree(g, V)
    BY <2>3 DEF Sound, IsTree
  <2>5. u = SiftedDown(g)
    BY <1>4, <2>1
  <2>6. /\ Shuffled(g, u, V)
        /\ LeftFirst(g, V) /\ OrderedFrom(g, V, g.root) => OrderedFrom(u, V, Nil)
    BY <2>4, <2>5, SiftDown
  <2>7. /\ Sound(u, V, k) /\ u.index = g.index /\ U = V
        /\ Values(u, V) = Values(g, V)
        /\ Complete(g, V) => Complete(u, V)
    <3>1. Sound(u, V, k) /\ (Complete(g, V) => Complete(u, V))
      BY <2>3, <2>6, ShuffledSound
    <3> QED
      BY <2>6, <3>1 DEF Sound, Shuffled, SameLinks
  <2>8. ASSUME Complete(h, T)
        PROVE  /\ Complete(u, U) /\ Values(u, U) = Values(h, T) \ {h.value[h.root]}
               /\ OrderedFrom(h, T, Nil) => OrderedFrom(u, U, Nil)
    <3>1. h.count >= 2 /\ h.count <= MaxUnits /\ h.count \in 1 .. h.count
      BY <1>1, <1>4, NodeFacts
    <3>2. h.index[last] = h.count
      BY <1>1, <1>4, <2>8, <3>1, Finds
    <3>3. /\ Complete(g, V) /\ Values(g, V) = Values(h, T) \ {h.value[h.root]}
          /\ OrderedFrom(h, T, Nil) => OrderedFrom(g, V, g.root)
      <4>1. ShrunkWhole(h, T, g, V)
        BY <1>2, <2>1, <2>8, <3>1, <3>2, ShrinksComplete
      <4> QED
        BY <4>1 DEF ShrunkWhole
    <3>4. LeftFirst(g, V)
      <4>1. V = Below(g, g.root)
        BY <2>1
      <4> QED
        BY <2>4, <3>3, <4>1, CompleteShape
    <3> QED
      BY <2>6, <2>7, <3>3, <3>4
  <2>9. \A m \in Node \ T : u.value[m] = h.value[m]
    BY <2>3, <2>6 DEF Shuffled
  <2> QED
    BY <1>2, <2>3, <2>7, <2>8, <2>9 DEF PoppedTo
<1> QED
  BY <1>3, <1>4
-----------------------------------------------------------------------------
(* The invariant *)

\* The nodes that are, or were, in the tree: a push that waits for the lock
\* has made one more.
Pushed == IF pusher.pc = "push" THEN nunit - 1 ELSE nunit

\* What every state satisfies.  Which unit has which node does not depend on
\* the races, so the tree is sound in all of them, and complete until the
\* first one.
HeapInv ==
    /\ TypeOK
    /\ Pushed \in Nat
    /\ Sound(heap, InTree, Pushed)
    /\ \A n \in Node : n > Pushed => n \notin freed
    /\ InTree \intersect freed = {}
    /\ pusher.pc = "push" =>
          /\ heap.index[nunit] = pusher.index
          /\ heap.value[nunit] \in Unit /\ heap.value[nunit].id = nunit
    /\ taker.pc = "pop" => ~IsEmpty
    /\ ~raced => Complete(heap, InTree)

\* What the steps need of the state they are taken in.
LEMMA InvFacts ==
    ASSUME HeapInv
    PROVE  /\ heap \in Heap /\ Linked(heap) /\ InTree = Below(heap, heap.root)
           /\ InTree \in SUBSET Node /\ nunit \in 0 .. MaxUnits /\ nunit \in Nat
           /\ Pushed \in Nat /\ Pushed <= nunit /\ MaxUnits \in Nat
           /\ \A n \in InTree : n <= Pushed
           /\ heap.root = Nil => InTree = {}
           /\ heap.root # Nil => heap.root \in InTree
<1>1. heap \in Heap /\ Linked(heap) /\ InTree = Below(heap, heap.root)
  BY DEF HeapInv, TypeOK, InTree, Sound
<1>2. /\ nunit \in 0 .. MaxUnits /\ nunit \in Nat /\ Pushed \in Nat /\ Pushed <= nunit
      /\ MaxUnits \in Nat
  BY NodeFacts DEF HeapInv, TypeOK, Pushed
<1>3. \A n \in InTree : n <= Pushed
  BY <1>2, KnownNodes DEF HeapInv
<1>4. /\ InTree \in SUBSET Node
      /\ heap.root = Nil => InTree = {}
      /\ heap.root # Nil => heap.root \in InTree
  BY <1>1, TreeFacts
<1> QED
  BY <1>1, <1>2, <1>3, <1>4

LEMMA HeapInit == Init => HeapInv
<1> SUFFICES ASSUME Init PROVE HeapInv
  OBVIOUS
<1>1. /\ heap = NewHeap /\ freed = {} /\ nunit = 0 /\ pusher = [pc |-> "idle", index |-> 0]
      /\ taker = [pc |-> "front", unit |-> NoUnit] /\ raced = FALSE
  BY DEF Init
<1>2. MaxUnits \in Nat /\ Node \subseteq Nat /\ \A n \in Node : n > 0
  BY NodeFacts DEF Node
<1>3. heap \in Heap
  <2>1. NoLinks \in [Node -> Pointer] /\ NoLinks \in [Node -> Nat] /\ Nil \in Pointer
    BY DEF NoLinks, Pointer
  <2>2. [n \in Node |-> NoUnit] \in [Node -> Unit \union {NoUnit}]
    OBVIOUS
  <2> QED
    BY <1>1, <2>1, <2>2 DEF NewHeap, Heap
<1>4. /\ heap.root = Nil /\ heap.count = 0 /\ heap.left = NoLinks /\ heap.right = NoLinks
      /\ heap.parent = NoLinks /\ heap.index = NoLinks
  BY <1>1 DEF NewHeap
<1>5. \A m \in Node : /\ heap.left[m] = Nil /\ heap.right[m] = Nil /\ heap.parent[m] = Nil
                      /\ heap.index[m] = 0 /\ Children(heap, m) = {}
  BY <1>4 DEF NoLinks, Children
<1>6. TypeOK
  <2>1. \A n \in Node : heap.index[n] > 0 <=> n <= nunit
    BY <1>1, <1>2, <1>5
  <2>2. /\ pusher \in [pc: {"idle", "push"}, index: Nat]
        /\ taker \in [pc: {"front", "pop", "ended"}, unit: Unit \union {NoUnit}]
        /\ nunit \in 0 .. MaxUnits
    BY <1>1, <1>2
  <2> QED
    BY <1>1, <1>3, <2>1, <2>2 DEF TypeOK
<1>7. Linked(heap)
  <2>1. ~(heap.root # Nil)
    BY <1>4
  <2> QED
    BY <1>2, <1>5, <2>1 DEF Linked
<1>8. InTree = {}
  <2>1. InTree = Below(heap, heap.root)
    BY DEF InTree
  <2> QED
    BY <1>3, <1>4, <1>7, <2>1, TreeFacts
<1>9. Pushed = 0
  BY <1>1 DEF Pushed
<1>10. Sound(heap, InTree, Pushed)
  <2>1. \A n \in Node : heap.root # n
    BY <1>2, <1>4
  <2>2. Distinct(heap, InTree) /\ InTree = Below(heap, heap.root)
    BY <1>8 DEF Distinct, InTree
  <2>3. heap.count <= Pushed
    BY <1>4, <1>9
  <2> QED
    BY <1>3, <1>5, <1>7, <1>8, <2>1, <2>2, <2>3 DEF Sound
<1>11. Complete(heap, InTree)
  <2>1. ~(heap.root # Nil) /\ heap.count = 0 /\ 1 .. heap.count = {}
    BY <1>4
  <2> QED
    BY <1>8, <2>1 DEF Complete
<1> QED
  BY <1>1, <1>6, <1>8, <1>9, <1>10, <1>11 DEF HeapInv

LEMMA ReadCountKeeps == HeapInv /\ ReadCount => HeapInv' /\ UNCHANGED <<InTree, Units, First>>
<1> SUFFICES ASSUME HeapInv, ReadCount
             PROVE  HeapInv' /\ UNCHANGED <<InTree, Units, First>>
  OBVIOUS
<1>1. PICK n, i : n = nunit + 1 /\ i = NextNumber
  OBVIOUS
<1>2. PICK key \in Key :
         heap' = [heap EXCEPT !.index[n] = i, !.value[n] = [id |-> n, key |-> key]]
  BY <1>1 DEF ReadCount
<1>3. /\ pusher.pc = "idle" /\ nunit < MaxUnits /\ nunit' = n
      /\ pusher' = [pc |-> "push", index |-> i]
      /\ UNCHANGED <<freed, taker, raced>>
  BY <1>1 DEF ReadCount
<1>4. /\ heap \in Heap /\ Linked(heap) /\ InTree = Below(heap, heap.root)
      /\ InTree \in SUBSET Node /\ nunit \in Nat /\ MaxUnits \in Nat
      /\ \A m \in InTree : m <= Pushed
      /\ heap.root # Nil => heap.root \in InTree
  BY InvFacts
<1>5. /\ n \in Node /\ n \in Nat /\ i \in Nat /\ i > 0 /\ Pushed = nunit /\ Pushed' = nunit
      /\ n > Pushed
  <2>1. heap.count \in Nat
    BY <1>4 DEF Heap
  <2>2. i = heap.count + 1
    BY <1>1 DEF NextNumber
  <2>3. Pushed = nunit /\ Pushed' = nunit
    BY <1>1, <1>3, <1>4 DEF Pushed
  <2> QED
    BY <1>1, <1>3, <1>4, <2>1, <2>2, <2>3 DEF Node
<1>6. PICK g : g = heap'
  OBVIOUS
<1>7. PICK x, v : /\ x = [heap.index EXCEPT ![n] = i]
                  /\ v = [heap.value EXCEPT ![n] = [id |-> n, key |-> key]]
  OBVIOUS
<1>8. [id |-> n, key |-> key] \in Unit
  BY <1>5 DEF Unit, Node
<1>9. /\ x \in [Node -> Nat] /\ v \in [Node -> Unit \union {NoUnit}]
      /\ x[n] = i /\ v[n] = [id |-> n, key |-> key]
      /\ \A m \in Node \ {n} : x[m] = heap.index[m] /\ v[m] = heap.value[m]
  BY <1>4, <1>5, <1>7, <1>8 DEF Heap
<1>10. g = [heap EXCEPT !.index = x, !.value = v]
  BY <1>2, <1>4, <1>6, <1>7 DEF Heap
<1>11. /\ g \in Heap /\ g.root = heap.root /\ g.count = heap.count /\ g.left = heap.left
       /\ g.right = heap.right /\ g.parent = heap.parent /\ g.index = x /\ g.value = v
  BY <1>4, <1>9, <1>10 DEF Heap
<1>12. /\ Linked(g) /\ Below(g, g.root) = Below(heap, heap.root)
       /\ \A m \in Node : Children(g, m) = Children(heap, m)
  BY <1>4, <1>11, SameShape
<1>13. InTree' = InTree
  BY <1>4, <1>6, <1>12 DEF InTree
<1>14. \A m \in InTree : /\ m \in Node /\ m # n
                         /\ g.value[m] = heap.value[m] /\ g.index[m] = heap.index[m]
  BY <1>4, <1>5, <1>9, <1>11
<1>15. Units' = Units /\ First' = First
  <2>1. Units' = {g.value[m] : m \in InTree} /\ Units = {heap.value[m] : m \in InTree}
    BY <1>6, <1>13 DEF Units
  <2>2. g.root # Nil => g.value[g.root] = heap.value[heap.root]
    BY <1>4, <1>11, <1>14
  <2>3. First' = (IF g.root = Nil THEN NoUnit ELSE g.value[g.root])
    BY <1>6 DEF First
  <2> QED
    BY <1>11, <1>14, <2>1, <2>2, <2>3 DEF First
<1>16. TypeOK'
  <2>1. \A m \in Node : g.index[m] > 0 <=> m <= n
    <3> TAKE m \in Node
    <3>1. m \in Nat
      BY NodeFacts
    <3>2. CASE m = n
      BY <1>5, <1>9, <1>11, <3>1, <3>2
    <3>3. CASE m # n
      <4>1. g.index[m] = heap.index[m] /\ (heap.index[m] > 0 <=> m <= nunit)
        BY <1>9, <1>11, <3>3 DEF HeapInv, TypeOK
      <4> QED
        BY <1>1, <1>4, <3>1, <3>3, <4>1
    <3> QED
      BY <3>2, <3>3
  <2>2. pusher' \in [pc: {"idle", "push"}, index: Nat] /\ nunit' \in 0 .. MaxUnits
    BY <1>1, <1>3, <1>4, <1>5
  <2>3. /\ freed' \subseteq Node /\ raced' \in BOOLEAN
        /\ taker' \in [pc: {"front", "pop", "ended"}, unit: Unit \union {NoUnit}]
    BY <1>3 DEF HeapInv, TypeOK
  <2> QED
    BY <1>3, <1>6, <1>11, <2>1, <2>2, <2>3 DEF TypeOK
<1>17. Sound(g, InTree, nunit)
  <2>1. Sound(heap, InTree, nunit)
    BY <1>5 DEF HeapInv
  <2>2. Distinct(g, InTree)
    BY <1>14, <2>1 DEF Sound, Distinct
  <2>3. \A m \in InTree : g.value[m] \in Unit /\ g.value[m].id <= nunit
    BY <1>14, <2>1 DEF Sound
  <2>4. \A m \in Node : m > nunit => Children(g, m) = {} /\ g.parent[m] = Nil /\ g.root # m
    BY <1>11, <1>12, <2>1 DEF Sound
  <2>5. g.count <= nunit
    BY <1>11, <2>1 DEF Sound
  <2> QED
    BY <1>4, <1>11, <1>12, <2>2, <2>3, <2>4, <2>5 DEF Sound
<1>18. Complete(heap, InTree) => Complete(g, InTree)
  <2> SUFFICES ASSUME Complete(heap, InTree) PROVE Complete(g, InTree)
    OBVIOUS
  <2>1. ASSUME NEW m \in InTree
        PROVE  /\ g.left[m] # Nil => g.index[g.left[m]] = 2 * g.index[m]
               /\ g.right[m] # Nil => g.index[g.right[m]] = 2 * g.index[m] + 1
               /\ g.index[m] \in 1 .. g.count
    <3>1. Children(heap, m) \subseteq InTree
      <4>1. Closed(heap, InTree)
        BY <1>4, TreeFacts
      <4> QED
        BY <4>1 DEF Closed
    <3>2. /\ heap.left[m] # Nil => heap.left[m] \in InTree
          /\ heap.right[m] # Nil => heap.right[m] \in InTree
      BY <3>1 DEF Children
    <3> QED
      BY <1>11, <1>14, <3>2 DEF Complete
  <2>2. g.root # Nil => g.index[g.root] = 1
    BY <1>4, <1>11, <1>14 DEF Complete
  <2>3. \A j \in 1 .. g.count : \E m \in InTree : g.index[m] = j
    BY <1>11, <1>14 DEF Complete
  <2>4. \A a, b \in InTree : g.index[a] = g.index[b] => a = b
    BY <1>14 DEF Complete
  <2>5. g.root = Nil => g.count = 0
    BY <1>11 DEF Complete
  <2> QED
    BY <2>1, <2>2, <2>3, <2>4, <2>5 DEF Complete
<1>19. /\ g.index[n] = i /\ g.value[n] \in Unit /\ g.value[n].id = n
  BY <1>8, <1>9, <1>11
<1>20. taker'.pc = "pop" => ~IsEmpty'
  BY <1>3, <1>6, <1>11 DEF HeapInv, IsEmpty
<1>21. (\A m \in Node : m > Pushed' => m \notin freed') /\ InTree' \intersect freed' = {}
  BY <1>3, <1>5, <1>13 DEF HeapInv
<1>22. ~raced' => Complete(heap', InTree')
  BY <1>3, <1>6, <1>13, <1>18 DEF HeapInv
<1>23. /\ Pushed' \in Nat /\ Sound(heap', InTree', Pushed')
       /\ heap'.index[nunit'] = pusher'.index
       /\ heap'.value[nunit'] \in Unit /\ heap'.value[nunit'].id = nunit'
  BY <1>3, <1>4, <1>5, <1>6, <1>13, <1>17, <1>19
<1>24. HeapInv'
  BY <1>16, <1>20, <1>21, <1>22, <1>23 DEF HeapInv
<1> QED
  BY <1>13, <1>15, <1>24
\* push() adds its unit: to all that was in the tree unless it raced.
PushSteps ==
    /\ InTree' \subseteq InTree \union {nunit}
    /\ Units' \subseteq Units \union {heap.value[nunit]}
    /\ heap.value[nunit] \in Units' /\ First' \in Units'
    /\ ~raced' =>
          /\ Units' = Units \union {heap.value[nunit]}
          /\ InTree # {} => First'.key <= First.key
          /\ \A S \in SUBSET LastAlone : OrderedBut(S) => OrderedBut(S)'

LEMMA PushKeeps == HeapInv /\ Push => HeapInv' /\ PushSteps
<1> SUFFICES ASSUME HeapInv, Push PROVE HeapInv' /\ PushSteps
  OBVIOUS
<1>1. PICK h, T, n, p : /\ h = heap /\ T = InTree /\ n = nunit
                        /\ p = FindNode(heap, ParentNumber(NextNumber))
  OBVIOUS
<1>2. /\ pusher.pc = "push" /\ pusher' = [pc |-> "idle", index |-> 0]
      /\ raced' = (raced \/ pusher.index # NextNumber)
      /\ UNCHANGED <<freed, nunit, taker>>
  BY DEF Push
<1>3. NextNumber = h.count + 1
  BY <1>1 DEF NextNumber
<1>4. PICK u, U : u = heap' /\ U = Below(u, u.root)
  OBVIOUS
<1>5. u = IF h.root = Nil THEN [h EXCEPT !.root = n, !.count = h.count + 1]
          ELSE SiftedUp(Attached(h, n, p), n)
  BY <1>1, <1>4 DEF Push
<1>6. PICK k \in Nat : k = Pushed
  BY InvFacts
<1>7. /\ h \in Heap /\ Linked(h) /\ T = Below(h, h.root) /\ T \in SUBSET Node
      /\ nunit \in 0 .. MaxUnits /\ n \in Nat /\ MaxUnits \in Nat
      /\ \A m \in T : m <= k
      /\ h.root = Nil => T = {}
      /\ h.root # Nil => h.root \in T
  BY <1>1, <1>6, InvFacts
<1>8. n = k + 1 /\ n \in Node /\ Pushed' = n
  <2>1. k = n - 1
    BY <1>1, <1>2, <1>6 DEF Pushed
  <2>2. Pushed' = n
    BY <1>1, <1>2 DEF Pushed
  <2> QED
    BY <1>1, <1>7, <2>1, <2>2 DEF Node
<1>9. Sound(h, T, k) /\ h.value[n] \in Unit /\ h.value[n].id = n /\ h.index[n] = pusher.index
  BY <1>1, <1>2, <1>6 DEF HeapInv
<1>10. p = FindNode(h, ParentNumber(h.count + 1))
  BY <1>1, <1>3
<1>11. PushedTo(h, T, n, u, U)
  BY <1>4, <1>5, <1>8, <1>9, <1>10, Pushes
<1>12. /\ Sound(u, U, n) /\ U \subseteq T \union {n} /\ u.root \in U /\ u.index = h.index
       /\ Values(u, U) \subseteq Values(h, T) \union {h.value[n]}
       /\ h.value[n] \in Values(u, U)
  BY <1>11 DEF PushedTo
<1>13. /\ InTree' = U /\ Units' = Values(u, U) /\ Units = Values(h, T)
  BY <1>1, <1>4 DEF InTree, Units, Values
<1>14. u \in Heap /\ U \in SUBSET Node /\ u.root # Nil
  <2>1. u \in Heap /\ U \in SUBSET Node
    BY <1>7, <1>8, <1>12 DEF Sound
  <2> QED
    BY <1>12, <2>1, NodeFacts
<1>15. First' = u.value[u.root] /\ First' \in Units'
  <2>1. First' = u.value[u.root]
    BY <1>4, <1>14 DEF First
  <2> QED
    BY <1>12, <1>13, <2>1 DEF Values
<1>16. ASSUME ~raced'
       PROVE  /\ Complete(u, U)
              /\ Units' = Units \union {h.value[n]}
              /\ InTree # {} => First'.key <= First.key
              /\ \A S \in SUBSET LastAlone : OrderedBut(S) => OrderedBut(S)'
  <2>1. Complete(h, T) /\ h.index[n] = h.count + 1
    BY <1>1, <1>2, <1>3, <1>9, <1>16 DEF HeapInv
  <2>2. /\ Complete(u, U)
        /\ Values(u, U) = Values(h, T) \union {h.value[n]}
        /\ h.root # Nil => u.value[u.root].key <= h.value[h.root].key
        /\ \A S \in SUBSET LastOf(h, T) : OrderedIn(h, T, S) => OrderedIn(u, U, S)
    BY <1>11, <2>1 DEF PushedTo
  <2>3. T # {} => First'.key <= First.key
    BY <1>1, <1>7, <1>15, <2>2 DEF First
  <2>4. ASSUME NEW S \in SUBSET LastAlone
        PROVE  /\ S \subseteq LastOf(h, T)
               /\ OrderedBut(S) => OrderedIn(h, T, S)
               /\ OrderedIn(u, U, S) => OrderedBut(S)'
    BY <1>1, <1>4, <1>13 DEF LastAlone, LastOf, OrderedBut, OrderedIn
  <2> QED
    BY <1>1, <1>13, <2>2, <2>3, <2>4
<1>17. PushSteps
  BY <1>1, <1>12, <1>13, <1>15, <1>16 DEF PushSteps
<1>18. TypeOK'
  <2>1. \A m \in Node : u.index[m] > 0 <=> m <= nunit
    BY <1>1, <1>12 DEF HeapInv, TypeOK
  <2>2. pusher' \in [pc: {"idle", "push"}, index: Nat] /\ raced' \in BOOLEAN
    BY <1>2 DEF HeapInv, TypeOK
  <2> QED
    BY <1>2, <1>4, <1>14, <2>1, <2>2 DEF HeapInv, TypeOK
<1>19. (\A m \in Node : m > Pushed' => m \notin freed') /\ InTree' \intersect freed' = {}
  <2>1. \A m \in Node : m > k => m \notin freed
    BY <1>6 DEF HeapInv
  <2>2. \A m \in Node : m > n => m > k
    BY <1>8, NodeFacts
  <2>3. n > k
    BY <1>8
  <2>4. T \intersect freed = {}
    BY <1>1 DEF HeapInv
  <2> QED
    BY <1>2, <1>8, <1>12, <1>13, <2>1, <2>2, <2>3, <2>4
<1>20. taker'.pc = "pop" => ~IsEmpty'
  <2>1. u.count # 0
    <3>1. u.count = h.count + 1
      <4>1. CASE h.root = Nil
        BY <1>5, <1>7, <4>1 DEF Heap
      <4>2. CASE h.root # Nil
        <5>1. PICK g, V : g = Attached(h, n, p) /\ V = Below(g, g.root)
          OBVIOUS
        <5>2. p \in T
          <6>1. T \in SUBSET Node /\ Closed(h, T) /\ h.root \in T
            BY <1>7, <4>2, TreeFacts
          <6> QED
            BY <1>10, <6>1, FindsInside
        <5>3. g.count = h.count + 1
          BY <1>7, <5>1 DEF Attached, Heap
        <5>4. HungLow(h, T, n, p, g, V)
          BY <1>8, <1>9, <4>2, <5>1, <5>2, Hangs
        <5>5. g \in Heap /\ IsTree(g, V) /\ n \in V
          BY <5>4 DEF HungLow, Sound, IsTree
        <5>6. u = SiftedUp(g, n)
          BY <1>5, <4>2, <5>1
        <5>7. Shuffled(g, u, V)
          <6>1. PICK S : S = {}
            OBVIOUS
          <6>2. n \notin S /\ S \subseteq V /\ \A c \in S : Children(g, c) = {}
            BY <6>1
          <6>3. n \in Node
            BY <1>8
          <6> QED
            BY <5>5, <5>6, <6>2, <6>3, SiftUp
        <5> QED
          BY <5>3, <5>7 DEF Shuffled, SameLinks
      <4> QED
        BY <4>1, <4>2
    <3> QED
      BY <1>7, <3>1 DEF Heap
  <2> QED
    BY <1>4, <1>14, <2>1 DEF IsEmpty
<1>21. /\ Pushed' \in Nat /\ Sound(heap', InTree', Pushed') /\ pusher'.pc # "push"
       /\ ~raced' => Complete(heap', InTree')
  BY <1>2, <1>4, <1>7, <1>8, <1>12, <1>13, <1>16
<1>22. HeapInv'
  BY <1>18, <1>19, <1>20, <1>21 DEF HeapInv
<1> QED
  BY <1>17, <1>22

LEMMA FrontKeeps == HeapInv /\ Front => HeapInv' /\ UNCHANGED <<InTree, Units, First, raced>>
<1> SUFFICES ASSUME HeapInv, Front
             PROVE  HeapInv' /\ UNCHANGED <<InTree, Units, First, raced>>
  OBVIOUS
<1>1. /\ ~IsEmpty /\ taker' = [pc |-> "pop", unit |-> heap.value[heap.root]]
      /\ UNCHANGED <<heap, freed, nunit, pusher, raced>>
  BY DEF Front
<1>2. UNCHANGED <<InTree, Units, First, Pushed, IsEmpty>>
  BY <1>1 DEF InTree, Units, First, Pushed, IsEmpty
<1>3. heap.value[heap.root] \in Unit
  <2>1. heap.root \in InTree
    BY <1>1, InvFacts DEF IsEmpty
  <2> QED
    BY <2>1 DEF HeapInv, Sound
<1>4. TypeOK'
  BY <1>1, <1>3 DEF HeapInv, TypeOK
<1> QED
  BY <1>1, <1>2, <1>4 DEF HeapInv

\* pop() takes the first unit away: only that one unless a push has raced.
PopSteps ==
    /\ Units # {} /\ UNCHANGED raced
    /\ Units' \subseteq Units \ {First}
    /\ First' \in IF Units' = {} THEN {NoUnit} ELSE Units'
    /\ \E n \in InTree : freed' = freed \union {n} /\ InTree' \subseteq InTree \ {n}
    /\ ~raced =>
          /\ Units' = Units \ {First}
          /\ OrderedBut(LastAlone) => OrderedBut(LastAlone)'

\* Which nodes LastAlone leaves out, for any tree.
LEMMA OrderedSame ==
    ASSUME NEW h \in Heap, Linked(h), NEW T, T = Below(h, h.root), Complete(h, T),
           NEW A, A = {n \in T \ {h.root} : h.index[n] = h.count /\ h.right[h.parent[n]] = Nil}
    PROVE  OrderedIn(h, T, A) <=> OrderedFrom(h, T, Nil)
<1>1. \A c \in T \ {h.root} : c \in A <=> h.right[h.parent[c]] = Nil
  BY CompleteShape
<1>2. \A c \in T \ {h.root} : h.parent[c] # Nil
  <2>1. T \in SUBSET Node /\ \A c \in T \ {h.root} : h.parent[c] \in T
    BY TreeFacts
  <2> QED
    BY <2>1, NodeFacts
<1> QED
  BY <1>1, <1>2 DEF OrderedIn, OrderedFrom

LEMMA PopKeeps == HeapInv /\ Pop => HeapInv' /\ PopSteps
<1> SUFFICES ASSUME HeapInv, Pop PROVE HeapInv' /\ PopSteps
  OBVIOUS
<1>1. PICK h, T, last, w :
         /\ h = heap /\ T = InTree
         /\ last = IF h.count = 1 THEN h.root ELSE FindNode(h, h.count)
         /\ w = [h EXCEPT !.value[h.root] = h.value[last], !.value[last] = NoUnit]
  OBVIOUS
<1>2. /\ taker.pc = "pop" /\ taker' = [pc |-> "front", unit |-> NoUnit]
      /\ UNCHANGED <<nunit, pusher, raced>> /\ freed' = freed \union {last}
  BY <1>1 DEF Pop
<1>3. PICK u, U : u = heap' /\ U = Below(u, u.root)
  OBVIOUS
<1>4. u = IF h.count = 1
          THEN [h EXCEPT !.root = Nil, !.count = 0, !.value[last] = NoUnit]
          ELSE SiftedDown(Detached(w, last))
  BY <1>1, <1>3 DEF Pop
<1>5. PICK k \in Nat : k = Pushed /\ k <= MaxUnits
  BY InvFacts
<1>6. /\ h \in Heap /\ Linked(h) /\ T = Below(h, h.root) /\ T \in SUBSET Node
      /\ h.root # Nil /\ h.count # 0 /\ h.count \in Nat
      /\ h.root \in T
  <2>1. h.root # Nil /\ h.count # 0
    BY <1>1, <1>2 DEF HeapInv, IsEmpty
  <2> QED
    BY <1>1, <2>1, InvFacts DEF Heap
<1>7. Sound(h, T, k) /\ h.count >= 1
  BY <1>1, <1>5, <1>6 DEF HeapInv
<1>8. PoppedTo(h, T, k, last, u, U)
  BY <1>1, <1>3, <1>4, <1>5, <1>6, <1>7, Pops
<1>9. /\ last \in T /\ Sound(u, U, k) /\ U \subseteq T \ {last} /\ u.index = h.index
      /\ Values(u, U) \subseteq Values(h, T) \ {h.value[h.root]}
  BY <1>8 DEF PoppedTo
<1>10. InTree' = U /\ Units' = Values(u, U) /\ Units = Values(h, T) /\ First = h.value[h.root]
  BY <1>1, <1>3, <1>6 DEF InTree, Units, Values, First
<1>11. /\ u \in Heap /\ Linked(u)
       /\ u.root = Nil => U = {}
       /\ u.root # Nil => u.root \in U
  <2>1. u \in Heap /\ Linked(u)
    BY <1>9 DEF Sound
  <2> QED
    BY <1>3, <2>1, TreeFacts
<1>12. First' \in IF Units' = {} THEN {NoUnit} ELSE Units'
  <2>1. First' = IF u.root = Nil THEN NoUnit ELSE u.value[u.root]
    BY <1>3 DEF First
  <2>2. CASE u.root = Nil
    <3>1. Units' = {}
      BY <1>10, <1>11, <2>2 DEF Values
    <3> QED
      BY <2>1, <2>2, <3>1
  <2>3. CASE u.root # Nil
    <3>1. u.value[u.root] \in Units'
      BY <1>10, <1>11, <2>3 DEF Values
    <3> QED
      BY <2>1, <2>3, <3>1
  <2> QED
    BY <2>2, <2>3
<1>13. ASSUME ~raced
       PROVE  /\ Complete(u, U) /\ Units' = Units \ {First}
              /\ OrderedBut(LastAlone) => OrderedBut(LastAlone)'
  <2>1. Complete(h, T)
    BY <1>1, <1>13 DEF HeapInv
  <2>2. /\ Complete(u, U) /\ Values(u, U) = Values(h, T) \ {h.value[h.root]}
        /\ OrderedFrom(h, T, Nil) => OrderedFrom(u, U, Nil)
    BY <1>8, <2>1 DEF PoppedTo
  <2>3. PICK A, B : A = LastAlone /\ B = LastAlone'
    OBVIOUS
  <2>4. A = {n \in T \ {h.root} : h.index[n] = h.count /\ h.right[h.parent[n]] = Nil}
    BY <1>1, <2>3 DEF LastAlone
  <2>5. B = {n \in U \ {u.root} : u.index[n] = u.count /\ u.right[u.parent[n]] = Nil}
    BY <1>3, <1>10, <2>3 DEF LastAlone
  <2>6. OrderedIn(h, T, A) <=> OrderedFrom(h, T, Nil)
    BY <1>6, <2>1, <2>4, OrderedSame
  <2>7. OrderedIn(u, U, B) <=> OrderedFrom(u, U, Nil)
    BY <1>3, <1>11, <2>2, <2>5, OrderedSame
  <2>8. OrderedBut(LastAlone) <=> OrderedIn(h, T, A)
    BY <1>1, <2>3 DEF OrderedBut, OrderedIn
  <2>9. OrderedBut(LastAlone)' <=> OrderedIn(u, U, B)
    BY <1>3, <1>10, <2>3 DEF OrderedBut, OrderedIn
  <2> QED
    BY <1>10, <2>2, <2>6, <2>7, <2>8, <2>9
<1>14. PopSteps
  <2>1. Units # {}
    BY <1>6, <1>10 DEF Values
  <2>2. \E n \in InTree : freed' = freed \union {n} /\ InTree' \subseteq InTree \ {n}
    BY <1>1, <1>2, <1>9, <1>10
  <2> QED
    BY <1>2, <1>9, <1>10, <1>12, <1>13, <2>1, <2>2 DEF PopSteps
<1>15. Pushed' = k
  BY <1>2, <1>5 DEF Pushed
<1>16. last \in Node /\ last <= k /\ last \in Nat
  <2>1. last <= k
    BY <1>7, <1>9, KnownNodes
  <2> QED
    BY <1>6, <1>9, <2>1, NodeFacts
<1>17. TypeOK'
  <2>1. \A m \in Node : u.index[m] > 0 <=> m <= nunit
    BY <1>1, <1>9 DEF HeapInv, TypeOK
  <2>2. /\ taker' \in [pc: {"front", "pop", "ended"}, unit: Unit \union {NoUnit}]
        /\ freed' \subseteq Node
    BY <1>2, <1>16 DEF HeapInv, TypeOK
  <2> QED
    BY <1>2, <1>3, <1>11, <2>1, <2>2 DEF HeapInv, TypeOK
<1>18. (\A m \in Node : m > Pushed' => m \notin freed') /\ InTree' \intersect freed' = {}
  <2>1. \A m \in Node : m > k => m \notin freed /\ m # last
    BY <1>5, <1>16 DEF HeapInv
  <2>2. T \intersect freed = {}
    BY <1>1 DEF HeapInv
  <2> QED
    BY <1>2, <1>9, <1>10, <1>15, <2>1, <2>2
<1>19. ASSUME pusher'.pc = "push"
       PROVE  /\ heap'.index[nunit'] = pusher'.index
              /\ heap'.value[nunit'] \in Unit /\ heap'.value[nunit'].id = nunit'
  <2>1. pusher.pc = "push" /\ k = nunit - 1 /\ nunit \in Nat /\ nunit \in Node
    <3>1. pusher.pc = "push" /\ k = nunit - 1 /\ nunit \in 0 .. MaxUnits /\ MaxUnits \in Nat
      BY <1>2, <1>5, <1>19, InvFacts DEF Pushed
    <3> QED
      BY <3>1 DEF Node
  <2>2. nunit \notin T
    <3>1. nunit \in T => nunit <= k
      BY <1>7, KnownNodes
    <3> QED
      BY <2>1, <3>1
  <2>3. u.value[nunit] = h.value[nunit] /\ u.index[nunit] = h.index[nunit]
    BY <1>8, <2>1, <2>2 DEF PoppedTo
  <2> QED
    BY <1>1, <1>2, <1>3, <2>1, <2>3 DEF HeapInv
<1>20. /\ Pushed' \in Nat /\ Sound(heap', InTree', Pushed') /\ taker'.pc # "pop"
       /\ ~raced' => Complete(heap', InTree')
  BY <1>2, <1>3, <1>9, <1>10, <1>13, <1>15
<1>21. HeapInv'
  BY <1>17, <1>18, <1>19, <1>20 DEF HeapInv
<1> QED
  BY <1>14, <1>21

LEMMA ClearKeeps ==
    HeapInv /\ Clear =>
        HeapInv' /\ InTree' = {} /\ Units' = {} /\ First' = NoUnit /\ UNCHANGED raced
<1> SUFFICES ASSUME HeapInv, Clear
             PROVE  /\ HeapInv' /\ InTree' = {} /\ Units' = {} /\ First' = NoUnit
                    /\ UNCHANGED raced
  OBVIOUS
<1>1. PICK h, u : h = heap /\ u = heap'
  OBVIOUS
<1>2. /\ pusher.pc = "idle" /\ freed' = freed \union InTree
      /\ u = [h EXCEPT !.root = Nil, !.count = 0]
      /\ taker' = [taker EXCEPT !.pc = "ended"]
      /\ UNCHANGED <<nunit, pusher, raced>>
  BY <1>1 DEF Clear, InTree
<1>3. /\ h \in Heap /\ Linked(h) /\ Pushed \in Nat /\ InTree \in SUBSET Node
      /\ \A n \in InTree : n <= Pushed
  BY <1>1, InvFacts
<1>4. /\ u.root = Nil /\ u.count = 0 /\ u.left = h.left /\ u.right = h.right
      /\ u.parent = h.parent /\ u.index = h.index /\ u.value = h.value
  BY <1>2, <1>3 DEF Heap
<1>5. u \in Heap
  <2>1. Nil \in Pointer /\ 0 \in Nat
    BY DEF Pointer
  <2> QED
    BY <1>2, <1>3, <2>1 DEF Heap
<1>6. \A m \in Node : Children(u, m) = Children(h, m)
  BY <1>4 DEF Children
<1>7. Linked(u)
  <2>1. \A m \in Node :
           /\ \A c \in Children(u, m) : c > m /\ u.parent[c] = m
           /\ u.left[m] = u.right[m] => u.left[m] = Nil
           /\ u.parent[m] < m
    BY <1>3, <1>4, <1>6 DEF Linked
  <2>2. ~(u.root # Nil)
    BY <1>4
  <2> QED
    BY <2>1, <2>2 DEF Linked
<1>8. InTree' = {} /\ InTree' = Below(u, u.root)
  <2>1. InTree' = Below(u, u.root)
    BY <1>1 DEF InTree
  <2> QED
    BY <1>4, <1>5, <1>7, <2>1, TreeFacts
<1>9. Units' = {} /\ First' = NoUnit
  BY <1>1, <1>4, <1>8 DEF Units, First
<1>10. Pushed' = Pushed
  BY <1>2 DEF Pushed
<1>11. Sound(u, InTree', Pushed')
  <2>1. ASSUME NEW m \in Node, m > Pushed
        PROVE  Children(u, m) = {} /\ u.parent[m] = Nil /\ u.root # m
    <3>1. Children(h, m) = {} /\ h.parent[m] = Nil
      BY <1>1, <2>1 DEF HeapInv, Sound
    <3> QED
      BY <1>4, <1>6, <3>1, NodeFacts
  <2>2. u.count <= Pushed' /\ Distinct(u, InTree')
    BY <1>3, <1>4, <1>8, <1>10 DEF Distinct
  <2> QED
    BY <1>5, <1>7, <1>8, <1>10, <2>1, <2>2 DEF Sound
<1>12. Complete(u, InTree')
  <2>1. ~(u.root # Nil) /\ u.count = 0 /\ 1 .. u.count = {}
    BY <1>4
  <2> QED
    BY <1>8, <2>1 DEF Complete
<1>13. TypeOK'
  <2>1. \A m \in Node : u.index[m] > 0 <=> m <= nunit
    BY <1>1, <1>4 DEF HeapInv, TypeOK
  <2>2. /\ taker' \in [pc: {"front", "pop", "ended"}, unit: Unit \union {NoUnit}]
        /\ taker'.pc = "ended"
    BY <1>2 DEF HeapInv, TypeOK
  <2>3. freed' \subseteq Node
    BY <1>2, <1>3 DEF HeapInv, TypeOK
  <2> QED
    BY <1>1, <1>2, <1>5, <2>1, <2>2, <2>3 DEF HeapInv, TypeOK
<1>14. \A m \in Node : m > Pushed' => m \notin freed'
  <2> SUFFICES ASSUME NEW m \in Node, m > Pushed PROVE m \notin freed /\ m \notin InTree
    BY <1>2, <1>10
  <2>1. m \notin InTree
    BY <1>3, NodeFacts
  <2> QED
    BY <2>1 DEF HeapInv
<1>15. taker'.pc # "pop"
  BY <1>2 DEF HeapInv, TypeOK
<1>16. HeapInv'
  BY <1>1, <1>2, <1>3, <1>8, <1>10, <1>11, <1>12, <1>13, <1>14, <1>15 DEF HeapInv
<1> QED
  BY <1>2, <1>8, <1>9, <1>16
-----------------------------------------------------------------------------
(* The theorems *)

LEMMA HeapStep == HeapInv /\ [Next]_vars => HeapInv'
<1> SUFFICES ASSUME HeapInv, [Next]_vars PROVE HeapInv'
  OBVIOUS
<1>1. CASE ReadCount
  BY <1>1, ReadCountKeeps
<1>2. CASE Push
  BY <1>2, PushKeeps
<1>3. CASE Front
  BY <1>3, FrontKeeps
<1>4. CASE Pop
  BY <1>4, PopKeeps
<1>5. CASE Clear
  BY <1>5, ClearKeeps
<1>6. CASE UNCHANGED vars
  <2>1. UNCHANGED <<heap, freed, nunit, pusher, taker, raced>>
    BY <1>6 DEF vars
  <2>2. UNCHANGED <<InTree, Pushed, IsEmpty>>
    BY <2>1 DEF InTree, Pushed, IsEmpty
  <2>3. TypeOK'
    BY <2>1 DEF HeapInv, TypeOK
  <2> QED
    BY <2>1, <2>2, <2>3 DEF HeapInv
<1> QED
  BY <1>1, <1>2, <1>3, <1>4, <1>5, <1>6 DEF Next

LEMMA HeapAlways == Spec => []HeapInv
BY HeapInit, HeapStep, PTL DEF Spec

\* The heap's links, numbers and values stay in their types, whatever the
\* pushes and pops that race.
THEOREM HeapTypes == Spec => []TypeOK
<1>1. HeapInv => TypeOK
  BY DEF HeapInv
<1> QED
  BY <1>1, HeapAlways, PTL

\* TreeAllocated: nothing freed can be reached from the root, also after a
\* push has raced with a pop, and no unit is in the tree twice.
THEOREM TreeStaysAllocated == Spec => []TreeAllocated
<1>1. HeapInv => TreeAllocated
  BY DEF HeapInv, Sound, Distinct, TreeAllocated
<1> QED
  BY <1>1, HeapAlways, PTL

\* TreeComplete: until a push races with a pop the numbers of the nodes are 1
\* to count and every node hangs below the one with half its number.
THEOREM TreeStaysComplete == Spec => []TreeComplete
<1>1. ASSUME HeapInv, ~raced
      PROVE  /\ {heap.index[n] : n \in InTree} = 1 .. heap.count
             /\ Cardinality(InTree) = heap.count
             /\ \A n \in InTree :
                   /\ n # heap.root => heap.index[heap.parent[n]] = heap.index[n] \div 2
                   /\ heap.left[n] # Nil => heap.index[heap.left[n]] = 2 * heap.index[n]
                   /\ heap.right[n] # Nil => heap.index[heap.right[n]] = 2 * heap.index[n] + 1
  <2>1. /\ heap \in Heap /\ Linked(heap) /\ InTree = Below(heap, heap.root)
        /\ InTree \in SUBSET Node /\ Complete(heap, InTree)
    BY <1>1, InvFacts DEF HeapInv
  <2>2. PICK x, c : x = heap.index /\ c = heap.count
    OBVIOUS
  <2>3. c \in Nat
    BY <2>1, <2>2 DEF Heap
  <2>4. /\ \A n \in InTree : x[n] \in 1 .. c
        /\ \A i \in 1 .. c : \E n \in InTree : x[n] = i
        /\ \A m, n \in InTree : x[m] = x[n] => m = n
    BY <2>1, <2>2 DEF Complete
  <2>5. {x[n] : n \in InTree} = 1 .. c
    BY <2>4
  <2>6. Cardinality(InTree) = c
    <3>1. ExistsBijection(InTree, 1 .. c)
      <4> DEFINE f == [n \in InTree |-> x[n]]
      <4>1. f \in [InTree -> 1 .. c]
        BY <2>4
      <4>2. f \in Injection(InTree, 1 .. c)
        BY <2>4, <4>1 DEF Injection, IsInjective
      <4>3. f \in Surjection(InTree, 1 .. c)
        BY <2>4, <4>1 DEF Surjection
      <4> HIDE DEF f
      <4> QED
        BY <4>2, <4>3 DEF ExistsBijection, Bijection
    <3>2. IsFiniteSet(InTree)
      <4>1. IsFiniteSet(Node)
        BY NodeFacts, FS_Interval DEF Node
      <4> QED
        BY <2>1, <4>1, FS_Subset
    <3>3. Cardinality(1 .. c) = Cardinality(InTree)
      BY <3>1, <3>2, FS_Bijection
    <3>4. Cardinality(1 .. c) = c
      BY <2>3, FS_Interval
    <3> QED
      BY <3>3, <3>4
  <2>7. ASSUME NEW n \in InTree, n # heap.root
        PROVE  heap.index[heap.parent[n]] = heap.index[n] \div 2
    BY <2>1, <2>7, ParentHalves
  <2>8. \A n \in InTree :
           /\ heap.left[n] # Nil => heap.index[heap.left[n]] = 2 * heap.index[n]
           /\ heap.right[n] # Nil => heap.index[heap.right[n]] = 2 * heap.index[n] + 1
    BY <2>1 DEF Complete
  <2> QED
    BY <2>2, <2>5, <2>6, <2>7, <2>8
<1>2. HeapInv => TreeComplete
  BY <1>1 DEF TreeComplete
<1> QED
  BY <1>2, HeapAlways, PTL

\* ImplementsQueue: the heap is the unit queue the thread pool is modelled
\* with, for every number of units and all keys.  A push may raise only a unit
\* that does not go after the first one, a pop takes the first one away, and
\* other units are lost in races only.
THEOREM HeapImplementsQueue == Spec => ImplementsQueue
<1>1. Init => Queue!Init
  <2> SUFFICES ASSUME Init PROVE Queue!Init
    OBVIOUS
  <2>1. InTree = {}
    <3>1. HeapInv /\ heap.root = Nil
      BY HeapInit DEF Init, NewHeap
    <3> QED
      BY <3>1, InvFacts
  <2>2. heap.root = Nil /\ raced = FALSE
    BY DEF Init, NewHeap
  <2> QED
    BY <2>1, <2>2 DEF Queue!Init, Units, First
<1>2. HeapInv /\ [Next]_vars =>
         [\/ nunit > 0 /\ Queue!Push(heap.value[nunit])
          \/ Queue!Pop
          \/ Queue!Clear]_<<Units, First, raced>>
  <2> SUFFICES ASSUME HeapInv, [Next]_vars
               PROVE  \/ nunit > 0 /\ Queue!Push(heap.value[nunit])
                      \/ Queue!Pop
                      \/ Queue!Clear
                      \/ UNCHANGED <<Units, First, raced>>
    OBVIOUS
  <2>1. CASE ReadCount
    BY <2>1, ReadCountKeeps DEF ReadCount
  <2>2. CASE Push
    <3>1. PICK v : v = heap.value[nunit]
      OBVIOUS
    <3>2. /\ Units' \subseteq Units \union {v} /\ v \in Units' /\ First' \in Units'
          /\ ~raced' => /\ Units' = Units \union {v}
                        /\ InTree # {} => First'.key <= First.key
      BY <2>2, <3>1, PushKeeps DEF PushSteps
    <3>3. nunit > 0
      <4>1. pusher.pc = "push" /\ nunit \in Nat /\ Pushed \in Nat
        BY <2>2, InvFacts DEF Push
      <4> QED
        BY <4>1 DEF Pushed
    <3>4. raced' \in {raced, TRUE}
      BY <2>2 DEF Push, HeapInv, TypeOK
    <3>5. \E rest \in Queue!Left(Units) : Units' = rest \union {v}
      <4>1. CASE raced'
        <5>1. Units' \ {v} \in SUBSET Units
          BY <3>2
        <5>2. Units' \ {v} \in Queue!Left(Units)
          BY <4>1, <5>1 DEF Queue!Left
        <5>3. Units' = (Units' \ {v}) \union {v}
          BY <3>2
        <5> QED
          BY <5>2, <5>3
      <4>2. CASE ~raced'
        <5>1. Units \in Queue!Left(Units)
          BY <4>2 DEF Queue!Left
        <5> QED
          BY <3>2, <4>2, <5>1
      <4> QED
        BY <4>1, <4>2
    <3>6. /\ raced' => First' \in Units'
          /\ ~raced' /\ Units = {} => First' \in {v}
          /\ ~raced' /\ Units # {} =>
                First' \in {First} \union {x \in Units' : x.key <= First.key}
      <4>1. Units # {} => InTree # {}
        BY DEF Units
      <4> QED
        BY <3>2, <4>1
    <3>7. Queue!Push(v)
      BY <3>4, <3>5, <3>6 DEF Queue!Push
    <3> QED
      BY <3>1, <3>3, <3>7
  <2>3. CASE Front
    BY <2>3, FrontKeeps
  <2>4. CASE Pop
    <3>1. /\ Units # {} /\ UNCHANGED raced
          /\ Units' \subseteq Units \ {First}
          /\ First' \in IF Units' = {} THEN {NoUnit} ELSE Units'
          /\ ~raced => Units' = Units \ {First}
      BY <2>4, PopKeeps DEF PopSteps
    <3>2. Units' \in Queue!Left(Units \ {First})
      BY <3>1 DEF Queue!Left
    <3> QED
      BY <3>1, <3>2 DEF Queue!Pop
  <2>5. CASE Clear
    BY <2>5, ClearKeeps DEF Queue!Clear
  <2>6. CASE UNCHANGED vars
    BY <2>6 DEF vars, Units, First, InTree
  <2> QED
    BY <2>1, <2>2, <2>3, <2>4, <2>5, <2>6 DEF Next
<1> QED
  BY <1>1, <1>2, HeapAlways, PTL DEF Spec, ImplementsQueue

\* KeepsHeapOrder: without races a pop keeps every node but a last one that has no
\* sibling from going before its parent, and a push keeps all the nodes from it
\* that did not, whether such a pop came before it or not.
THEOREM HeapKeepsOrder == Spec => KeepsHeapOrder
<1>1. HeapInv /\ [Next]_vars =>
         [~raced' =>
             /\ \A S \in SUBSET LastAlone : Push /\ OrderedBut(S) => OrderedBut(S)'
             /\ Pop /\ OrderedBut(LastAlone) => OrderedBut(LastAlone)']_vars
  <2>1. ASSUME HeapInv, Push, ~raced', NEW S \in SUBSET LastAlone, OrderedBut(S)
        PROVE  OrderedBut(S)'
    BY <2>1, PushKeeps DEF PushSteps
  <2>2. HeapInv /\ Pop /\ ~raced' /\ OrderedBut(LastAlone) => OrderedBut(LastAlone)'
    BY PopKeeps DEF PopSteps
  <2> QED
    BY <2>1, <2>2
<1> QED
  BY <1>1, HeapAlways, PTL DEF Spec, KeepsHeapOrder
=============================================================================
