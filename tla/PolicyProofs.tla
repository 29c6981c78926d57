---------------------------- MODULE PolicyProofs ----------------------------
(***************************************************************************)
(* The lists of the replacement policies, for every number of blocks,      *)
(* buffers, nodes and calls: they stay sound, match the cache and keep the *)
(* order their policy promises as long as no update thread runs too late,  *)
(* and every variable keeps its type whether one does or not.              *)
(***************************************************************************)
EXTENDS PolicyCache, DequeProofs, SequenceTheorems

USE DEF Nil

\* The deque d is a list of exactly the nodes of N.
Holds(d, N) == \E s : Lists(d, s) /\ N = {s[i] : i \in 1 .. d.count}
-----------------------------------------------------------------------------
(* The operations of the deque, on the set of its nodes                     *)

\* The nodes of a list are nodes, and first is one of them if there are any.
LEMMA HeldNodes ==
    ASSUME NEW V, NEW d \in Deque(V), NEW N, Holds(d, N)
    PROVE  /\ N \in SUBSET Node /\ (d.first = Nil <=> N = {})
           /\ d.first # Nil => d.first \in N
<1>1. PICK s : Lists(d, s) /\ N = {s[i] : i \in 1 .. d.count}
  BY DEF Holds
<1>2. d.count \in Nat /\ 0 \notin Node /\ \A i \in 1 .. d.count : s[i] \in Node
  BY <1>1, ListNodes
<1>3. d.first = IF d.count = 0 THEN Nil ELSE s[1]
  BY <1>1 DEF Lists
<1>4. CASE d.count = 0
  BY <1>1, <1>2, <1>3, <1>4
<1>5. CASE d.count # 0
  <2>1. 1 \in 1 .. d.count
    BY <1>2, <1>5
  <2> QED
    BY <1>1, <1>2, <1>3, <1>5, <2>1
<1> QED
  BY <1>4, <1>5

\* The empty deque holds nothing.
LEMMA NewHolds ==
    ASSUME NEW V, NEW v \in V
    PROVE  NewDeque(v) \in Deque(V) /\ Holds(NewDeque(v), {})
<1>1. PICK x, y, w : /\ x = [n \in Node |-> Nil] /\ y = [n \in Node |-> Nil]
                     /\ w = [n \in Node |-> v]
  OBVIOUS
<1>2. NewDeque(v) = [first |-> Nil, last |-> Nil, count |-> 0, next |-> x,
                     previous |-> y, value |-> w]
  BY <1>1 DEF NewDeque
<1>3. NewDeque(v) \in Deque(V)
  BY <1>1, <1>2 DEF Deque, Pointer
<1>4. PICK s : s = [i \in 1 .. 0 |-> 0]
  OBVIOUS
<1>5. Lists(NewDeque(v), s)
  <2>1. 1 .. 0 = {}
    OBVIOUS
  <2> QED
    BY <1>2, <1>4, <2>1 DEF Lists
<1>6. {s[i] : i \in 1 .. NewDeque(v).count} = {}
  BY <1>2
<1> QED
  BY <1>3, <1>5, <1>6 DEF Holds

\* popAt takes a node out.
LEMMA PopHolds ==
    ASSUME NEW V, NEW d \in Deque(V), NEW N, Holds(d, N), NEW n \in N
    PROVE  /\ PopAt(d, n) \in Deque(V) /\ PopAt(d, n).value = d.value
           /\ Holds(PopAt(d, n), N \ {n})
<1>1. PICK s : Lists(d, s) /\ N = {s[i] : i \in 1 .. d.count}
  BY DEF Holds
<1>2. PICK i \in 1 .. d.count : n = s[i]
  BY <1>1
<1>3. PICK e, t : /\ e = PopAt(d, s[i])
                  /\ t = [k \in 1 .. d.count - 1 |-> IF k < i THEN s[k] ELSE s[k + 1]]
  OBVIOUS
<1>4. e \in Deque(V) /\ e.value = d.value /\ e.count = d.count - 1 /\ Lists(e, t)
  BY <1>1, <1>3, PopAtRemoves
<1>5. d.count \in Nat /\ \A j, k \in 1 .. d.count : s[j] = s[k] => j = k
  BY <1>1, ListNodes DEF Lists
<1>6. {t[k] : k \in 1 .. e.count} = N \ {n}
  <2>1. ASSUME NEW k \in 1 .. e.count PROVE t[k] \in N \ {n}
    <3>1. PICK j \in 1 .. d.count : j = IF k < i THEN k ELSE k + 1
      BY <1>4, <1>5
    <3>2. t[k] = s[j] /\ j # i
      BY <1>3, <1>4, <1>5, <3>1
    <3> QED
      BY <1>1, <1>2, <1>5, <3>2
  <2>2. ASSUME NEW m \in N \ {n} PROVE \E k \in 1 .. e.count : t[k] = m
    <3>1. PICK j \in 1 .. d.count : m = s[j] /\ j # i
      BY <1>1, <1>2
    <3>2. PICK k \in 1 .. e.count : k = IF j < i THEN j ELSE j - 1
      BY <1>4, <1>5, <3>1
    <3> QED
      BY <1>3, <1>4, <1>5, <3>1, <3>2
  <2> QED
    BY <2>1, <2>2
<1>7. Holds(e, N \ {n})
  BY <1>4, <1>6 DEF Holds
<1> QED
  BY <1>2, <1>3, <1>4, <1>7

\* pushLast adds one.
LEMMA PushLastHolds ==
    ASSUME NEW V, NEW d \in Deque(V), NEW N, Holds(d, N), NEW n \in Node \ N, NEW v \in V
    PROVE  /\ PushLast(d, n, v) \in Deque(V)
           /\ PushLast(d, n, v).value = [d.value EXCEPT ![n] = v]
           /\ Holds(PushLast(d, n, v), N \union {n})
<1>1. PICK s : Lists(d, s) /\ N = {s[i] : i \in 1 .. d.count}
  BY DEF Holds
<1>2. PICK e, t : /\ e = PushLast(d, n, v)
                  /\ t = [k \in 1 .. d.count + 1 |-> IF k = d.count + 1 THEN n ELSE s[k]]
  OBVIOUS
<1>3. \A i \in 1 .. d.count : s[i] # n
  BY <1>1
<1>4. /\ e \in Deque(V) /\ e.value = [d.value EXCEPT ![n] = v]
      /\ e.count = d.count + 1 /\ Lists(e, t)
  BY <1>1, <1>2, <1>3, PushLastAppends
<1>5. d.count \in Nat
  BY <1>1, ListNodes
<1>6. {t[k] : k \in 1 .. e.count} = N \union {n}
  <2>1. \A k \in 1 .. e.count : k = d.count + 1 \/ k \in 1 .. d.count
    BY <1>4, <1>5
  <2>2. \A k \in 1 .. d.count : k \in 1 .. e.count /\ t[k] = s[k]
    BY <1>2, <1>4, <1>5
  <2>3. d.count + 1 \in 1 .. e.count /\ t[d.count + 1] = n
    BY <1>2, <1>4, <1>5
  <2> QED
    BY <1>1, <2>1, <2>2, <2>3
<1>7. Holds(e, N \union {n})
  BY <1>4, <1>6 DEF Holds
<1> QED
  BY <1>2, <1>4, <1>7

\* pushFirst adds one as well.
LEMMA PushFirstHolds ==
    ASSUME NEW V, NEW d \in Deque(V), NEW N, Holds(d, N), NEW n \in Node \ N, NEW v \in V
    PROVE  /\ PushFirst(d, n, v) \in Deque(V)
           /\ PushFirst(d, n, v).value = [d.value EXCEPT ![n] = v]
           /\ Holds(PushFirst(d, n, v), N \union {n})
<1>1. PICK s : Lists(d, s) /\ N = {s[i] : i \in 1 .. d.count}
  BY DEF Holds
<1>2. PICK e, t : /\ e = PushFirst(d, n, v)
                  /\ t = [k \in 1 .. d.count + 1 |-> IF k = 1 THEN n ELSE s[k - 1]]
  OBVIOUS
<1>3. \A i \in 1 .. d.count : s[i] # n
  BY <1>1
<1>4. /\ e \in Deque(V) /\ e.value = [d.value EXCEPT ![n] = v]
      /\ e.count = d.count + 1 /\ Lists(e, t)
  BY <1>1, <1>2, <1>3, PushFirstPrepends
<1>5. d.count \in Nat
  BY <1>1, ListNodes
<1>6. {t[k] : k \in 1 .. e.count} = N \union {n}
  <2>1. \A k \in 1 .. e.count : k # 1 => k - 1 \in 1 .. d.count /\ t[k] = s[k - 1]
    BY <1>2, <1>4, <1>5
  <2>2. \A k \in 1 .. d.count : k + 1 \in 1 .. e.count /\ t[k + 1] = s[k]
    BY <1>2, <1>4, <1>5
  <2>3. 1 \in 1 .. e.count /\ t[1] = n
    BY <1>2, <1>4, <1>5
  <2> QED
    BY <1>1, <2>1, <2>2, <2>3
<1>7. Holds(e, N \union {n})
  BY <1>4, <1>6 DEF Holds
<1> QED
  BY <1>2, <1>4, <1>7

\* switchNode of a node with the next one keeps them all.
LEMMA SwitchHolds ==
    ASSUME NEW V, NEW d \in Deque(V), NEW N, Holds(d, N), NEW n \in N, d.next[n] # Nil
    PROVE  /\ SwitchNode(d, n, d.next[n]) \in Deque(V)
           /\ SwitchNode(d, n, d.next[n]).value = d.value
           /\ Holds(SwitchNode(d, n, d.next[n]), N)
<1>1. PICK s : Lists(d, s) /\ N = {s[i] : i \in 1 .. d.count}
  BY DEF Holds
<1>2. PICK i \in 1 .. d.count : n = s[i]
  BY <1>1
<1>3. d.count \in Nat
  BY <1>1, ListNodes
<1>4. d.next[n] = IF i = d.count THEN Nil ELSE s[i + 1]
  BY <1>1, <1>2 DEF Lists
<1>5. i + 1 <= d.count /\ d.next[n] = s[i + 1] /\ i + 1 \in 1 .. d.count
  BY <1>3, <1>4
<1>6. PICK e, t : /\ e = SwitchNode(d, s[i], s[i + 1])
                  /\ t = [k \in 1 .. d.count |-> IF k = i THEN s[i + 1]
                                                 ELSE IF k = i + 1 THEN s[i] ELSE s[k]]
  OBVIOUS
<1>7. e \in Deque(V) /\ e.value = d.value /\ e.count = d.count /\ Lists(e, t)
  BY <1>1, <1>5, <1>6, SwitchNodeSwaps
<1>8. {t[k] : k \in 1 .. e.count} = N
  <2>1. /\ t[i] = s[i + 1] /\ t[i + 1] = s[i]
        /\ \A k \in 1 .. d.count \ {i, i + 1} : t[k] = s[k]
    BY <1>3, <1>5, <1>6
  <2> QED
    BY <1>1, <1>5, <1>7, <2>1
<1>9. Holds(e, N)
  BY <1>7, <1>8 DEF Holds
<1> QED
  BY <1>2, <1>5, <1>6, <1>7, <1>9

\* What one more turn of the loop of LFU and LRU makes of e.
Turn(e, n, own, rank) ==
    IF Movable(e, n, own, rank) THEN SwitchNode(e, n, e.next[n]) ELSE e

\* The loop goes through deques f, one more turn each, in every set its turns
\* stay in.
LEMMA MovedTurns ==
    ASSUME NEW D, NEW d \in D, NEW n, NEW own, NEW rank,
           \A e \in D : Turn(e, n, own, rank) \in D
    PROVE  \E f : /\ f[0] = d /\ Moved(d, n, own, rank) = f[MaxNodes]
                  /\ \A k \in 0 .. MaxNodes - 1 : f[k + 1] = Turn(f[k], n, own, rank)
<1> DEFINE After(e) == IF Movable(e, n, own, rank) THEN SwitchNode(e, n, e.next[n]) ELSE e
           step == [e \in D |-> After(e)]
           Path(f) == f = [k \in 0 .. MaxNodes |->
                              IF k = 0 THEN d
                              ELSE IF Movable(f[k - 1], n, own, rank)
                                   THEN SwitchNode(f[k - 1], n, f[k - 1].next[n])
                                   ELSE f[k - 1]]
<1>1. MaxNodes \in Nat
  BY DequeAssumption
<1>2. \A e \in D : After(e) \in D
  BY DEF Turn
<1>3. step \in [D -> D]
  BY <1>2
<1>4. PICK g \in [0 .. MaxNodes -> D] :
         g = [k \in 0 .. MaxNodes |-> IF k = 0 THEN d ELSE step[g[k - 1]]]
  <2> HIDE DEF step
  <2>1. PICK g : Stepped(g, D, d, step, MaxNodes)
    BY <1>1, <1>3, Steppable
  <2> QED
    BY <2>1 DEF Stepped
<1>5. Path(g)
  <2>1. ASSUME NEW k \in 0 .. MaxNodes, k # 0 PROVE step[g[k - 1]] = After(g[k - 1])
    <3>1. k - 1 \in 0 .. MaxNodes
      BY <1>1, <2>1
    <3>2. g[k - 1] \in D
      BY <3>1
    <3> QED
      BY <3>2
  <2> HIDE DEF step
  <2>2. g = [k \in 0 .. MaxNodes |-> IF k = 0 THEN d ELSE After(g[k - 1])]
    BY <1>4, <2>1
  <2> QED
    BY <2>2
<1>6. PICK f : f = CHOOSE h : Path(h)
  OBVIOUS
<1>7. Path(f)
  <2> HIDE DEF Path
  <2> QED
    BY <1>5, <1>6
<1>8. Moved(d, n, own, rank) = f[MaxNodes]
  BY <1>6 DEF Moved
<1>9. \A k \in 0 .. MaxNodes : f[k] = IF k = 0 THEN d ELSE After(f[k - 1])
  BY <1>7
<1> HIDE DEF Path, step
<1>10. f[0] = d /\ \A k \in 0 .. MaxNodes - 1 : f[k + 1] = After(f[k])
  <2> HIDE DEF After
  <2>1. f[0] = d
    BY <1>1, <1>9
  <2>2. ASSUME NEW k \in 0 .. MaxNodes - 1 PROVE f[k + 1] = After(f[k])
    <3>1. k + 1 \in 0 .. MaxNodes /\ k + 1 # 0 /\ (k + 1) - 1 = k
      BY <1>1
    <3>2. f[k + 1] = After(f[(k + 1) - 1])
      BY <1>9, <3>1
    <3> QED
      BY <3>1, <3>2
  <2> QED
    BY <2>1, <2>2
<1>11. \A e : After(e) = Turn(e, n, own, rank)
  BY DEF Turn
<1> HIDE DEF After
<1> QED
  BY <1>8, <1>10, <1>11

\* So it stays in such a set.
LEMMA MovedStays ==
    ASSUME NEW D, NEW d \in D, NEW n, NEW own, NEW rank,
           \A e \in D : Turn(e, n, own, rank) \in D
    PROVE  Moved(d, n, own, rank) \in D
<1>1. PICK f : /\ f[0] = d /\ Moved(d, n, own, rank) = f[MaxNodes]
               /\ \A k \in 0 .. MaxNodes - 1 : f[k + 1] = Turn(f[k], n, own, rank)
  BY MovedTurns
<1> DEFINE T == {k \in Nat : k \in 0 .. MaxNodes => f[k] \in D}
<1>2. MaxNodes \in Nat
  BY DequeAssumption
<1>3. 0 \in T /\ T \in SUBSET Nat
  BY <1>1
<1>4. ASSUME NEW k \in T PROVE k + 1 \in T
  BY <1>1, <1>2
<1> HIDE DEF T
<1>5. \A k \in Nat : k \in T
  BY <1>3, <1>4, Induction
<1> QED
  BY <1>1, <1>2, <1>5 DEF T

\* A turn keeps all nodes,
LEMMA TurnHolds ==
    ASSUME NEW V, NEW d \in Deque(V), NEW N, Holds(d, N), NEW n \in N, NEW own, NEW rank,
           NEW e, e = Turn(d, n, own, rank)
    PROVE  e \in Deque(V) /\ e.value = d.value /\ Holds(e, N)
<1>1. CASE Movable(d, n, own, rank)
  <2>1. d.next[n] # Nil
    BY <1>1 DEF Movable
  <2>2. e = SwitchNode(d, n, d.next[n])
    BY <1>1 DEF Turn
  <2> QED
    BY <2>1, <2>2, SwitchHolds
<1>2. CASE ~Movable(d, n, own, rank)
  BY <1>2 DEF Turn
<1> QED
  BY <1>1, <1>2

\* so moving a node back as far as it goes does (updateAccessInfo of LFU and LRU).
LEMMA MovedHolds ==
    ASSUME NEW V, NEW d \in Deque(V), NEW N, Holds(d, N), NEW n \in N, NEW own, NEW rank
    PROVE  /\ Moved(d, n, own, rank) \in Deque(V)
           /\ Moved(d, n, own, rank).value = d.value
           /\ Holds(Moved(d, n, own, rank), N)
<1> DEFINE D == {e \in Deque(V) : e.value = d.value /\ Holds(e, N)}
<1>1. ASSUME NEW e \in D PROVE Turn(e, n, own, rank) \in D
  <2>1. PICK u : u = Turn(e, n, own, rank)
    OBVIOUS
  <2>2. u \in Deque(V) /\ u.value = e.value /\ Holds(u, N)
    BY <2>1, TurnHolds
  <2> QED
    BY <2>1, <2>2
<1>2. d \in D
  OBVIOUS
<1> HIDE DEF D
<1>3. Moved(d, n, own, rank) \in D
  BY <1>1, <1>2, MovedStays
<1> QED
  BY <1>3 DEF D
-----------------------------------------------------------------------------
(* The operations of the policies                                           *)

\* The deque holds the nodes of N, none of them freed.
Held(N) ==
    /\ PolicyTypeOK
    /\ N \in SUBSET ((1 .. nnode) \ freed)
    /\ Holds(deque, N)

\* x has no node yet, or one of those.
Placed(x, N) ==
    NodeOf(x) # Nil => NodeOf(x) \in N /\ deque.value[NodeOf(x)] = x

\* An access leaves x in node m, and every other buffer where it is.
Accessed(x, N, m) ==
    \E P \in SUBSET Node :
       /\ P = (N \ {NodeOf(x)}) \union {m}
       /\ m \notin N \ {NodeOf(x)}
       /\ Held(P)'
       /\ deque'.value = [deque.value EXCEPT ![m] = x]
       /\ header'[x].node = m
       /\ \A y \in Buffer \ {x} : header'[y] = header[y]
       /\ N \union freed \subseteq P \union freed'

Stored == Buffer \union {NoBuffer}

\* What the types say when the deque holds N.
LEMMA HeldFacts ==
    ASSUME NEW N, Held(N)
    PROVE  /\ N \in SUBSET Node /\ 0 \notin Node /\ 0 \notin N
           /\ deque \in Deque(Stored) /\ deque.value \in [Node -> Stored]
           /\ nnode \in 0 .. MaxNodes /\ MaxNodes \in Nat
           /\ (nnode < MaxNodes => New \in Node \ N /\ New \notin freed)
BY DequeAssumption DEF Held, PolicyTypeOK, Node, New, Stored, Deque

\* An access under FIFO (FIFOPolicy_updateAccessInfo).
LEMMA FIFOAccess ==
    ASSUME NEW N, Held(N), NEW x \in Buffer, Placed(x, N), FIFOUpdate(x), fault' # TRUE
    PROVE  \E m \in Node : Accessed(x, N, m)
<1>1. /\ N \in SUBSET Node /\ 0 \notin Node /\ 0 \notin N
      /\ deque \in Deque(Stored) /\ deque.value \in [Node -> Stored]
      /\ nnode \in 0 .. MaxNodes /\ MaxNodes \in Nat
  BY HeldFacts
<1>2. /\ Allocate
      /\ deque' = PushLast(IF NodeOf(x) = Nil THEN deque ELSE PopAt(deque, NodeOf(x)),
                           New, x)
      /\ freed' = freed \union FreedBy(x)
      /\ SetHeader(x, [header[x] EXCEPT !.node = New])
      /\ UNCHANGED <<kind, clock, fault>>
  BY DEF FIFOUpdate, Fault
<1>3. /\ New \in Node \ N /\ New \notin freed /\ nnode' = nnode + 1
      /\ nnode' \in 0 .. MaxNodes
  BY <1>1, <1>2, HeldFacts DEF Allocate
<1>4. PICK d : d = IF NodeOf(x) = Nil THEN deque ELSE PopAt(deque, NodeOf(x))
  OBVIOUS
<1>5. d \in Deque(Stored) /\ d.value = deque.value /\ Holds(d, N \ {NodeOf(x)})
  <2>1. CASE NodeOf(x) = Nil
    <3>1. N \ {NodeOf(x)} = N
      BY <1>1, <2>1
    <3> QED
      BY <1>1, <1>4, <2>1, <3>1 DEF Held
  <2>2. CASE NodeOf(x) # Nil
    <3>1. NodeOf(x) \in N /\ Holds(deque, N)
      BY <2>2 DEF Placed, Held
    <3>2. PICK n, q : n = NodeOf(x) /\ q = deque
      OBVIOUS
    <3>3. /\ PopAt(q, n) \in Deque(Stored) /\ PopAt(q, n).value = q.value
          /\ Holds(PopAt(q, n), N \ {n})
      BY <1>1, <3>1, <3>2, PopHolds
    <3> QED
      BY <1>4, <2>2, <3>2, <3>3
  <2> QED
    BY <2>1, <2>2
<1>6. PICK M, m, e : M = N \ {NodeOf(x)} /\ m = New /\ e = PushLast(d, New, x)
  OBVIOUS
<1>7. /\ e \in Deque(Stored) /\ e.value = [d.value EXCEPT ![m] = x]
      /\ Holds(e, M \union {m})
  <2>1. x \in Stored /\ m \in Node \ M
    BY <1>3, <1>6 DEF Stored
  <2> QED
    BY <1>5, <1>6, <2>1, PushLastHolds
<1>8. deque' = e
  BY <1>2, <1>4, <1>6
<1>9. /\ header' \in [Buffer -> Header] /\ header'[x].node = m
      /\ \A y \in Buffer \ {x} : header'[y] = header[y]
  BY <1>2, <1>3, <1>6 DEF Held, PolicyTypeOK, SetHeader, Header, Pointer
<1>10. /\ freed' \in SUBSET (1 .. nnode')
       /\ M \union {m} \in SUBSET ((1 .. nnode') \ freed')
       /\ N \union freed \subseteq M \union {m} \union freed'
  <2>1. FreedBy(x) \subseteq N /\ N \ {NodeOf(x)} = N \ FreedBy(x)
    BY <1>1 DEF FreedBy, Placed
  <2>2. /\ N \in SUBSET ((1 .. nnode) \ freed) /\ freed \in SUBSET (1 .. nnode)
        /\ 1 .. nnode \subseteq 1 .. nnode' /\ New \in 1 .. nnode' /\ New \notin 1 .. nnode
    BY <1>1, <1>3 DEF Held, PolicyTypeOK, New
  <2> QED
    BY <1>2, <1>3, <1>6, <2>1, <2>2
<1>11. Held(M \union {m})'
  <2>1. PolicyTypeOK'
    BY <1>2, <1>3, <1>7, <1>8, <1>9, <1>10 DEF Held, PolicyTypeOK, Stored
  <2> QED
    BY <1>7, <1>8, <1>10, <2>1 DEF Held
<1>12. Accessed(x, N, m)
  BY <1>1, <1>3, <1>5, <1>6, <1>7, <1>8, <1>9, <1>10, <1>11 DEF Accessed
<1> QED
  BY <1>3, <1>6, <1>12

\* An access under LFU (LFUPolicy_updateAccessInfo).
LEMMA LFUAccess ==
    ASSUME NEW N, Held(N), NEW x \in Buffer, Placed(x, N), LFUUpdate(x), fault' # TRUE
    PROVE  \E m \in Node : Accessed(x, N, m)
<1>1. /\ N \in SUBSET Node /\ 0 \notin Node /\ 0 \notin N
      /\ deque \in Deque(Stored) /\ deque.value \in [Node -> Stored]
      /\ nnode \in 0 .. MaxNodes /\ MaxNodes \in Nat
  BY HeldFacts
<1>2. PICK h, rank : /\ h = [header[x] EXCEPT !.count = @ + 1]
                     /\ rank = [y \in Buffer |-> IF y = x THEN h.count
                                                 ELSE header[y].count]
  OBVIOUS
<1>3. h \in Header /\ h.node = NodeOf(x) /\ header \in [Buffer -> Header]
  BY <1>2 DEF Held, PolicyTypeOK, Header, NodeOf
<1>4. CASE NodeOf(x) # Nil
  <2>1. /\ deque' = Moved(deque, NodeOf(x), h.count, rank)
        /\ SetHeader(x, h)
        /\ UNCHANGED <<kind, nnode, freed, clock, fault>>
    <3>1. LET g == [header[x] EXCEPT !.count = @ + 1]
              r == [y \in Buffer |-> IF y = x THEN g.count ELSE header[y].count]
          IN /\ deque' = Moved(deque, NodeOf(x), g.count, r)
             /\ SetHeader(x, g)
             /\ UNCHANGED <<kind, nnode, freed, clock, fault>>
      BY <1>4 DEF LFUUpdate, Fault
    <3> QED
      BY <1>2, <3>1
  <2>2. PICK m, q, own : m = NodeOf(x) /\ q = deque /\ own = h.count
    OBVIOUS
  <2>3. m \in N /\ Holds(q, N) /\ q.value[m] = x
    BY <1>4, <2>2 DEF Placed, Held
  <2>4. /\ Moved(q, m, own, rank) \in Deque(Stored)
        /\ Moved(q, m, own, rank).value = q.value
        /\ Holds(Moved(q, m, own, rank), N)
    BY <1>1, <2>2, <2>3, MovedHolds
  <2>5. deque' \in Deque(Stored) /\ deque'.value = q.value /\ Holds(deque', N)
    BY <2>1, <2>2, <2>4
  <2>6. /\ header' \in [Buffer -> Header] /\ header'[x].node = m
        /\ \A y \in Buffer \ {x} : header'[y] = header[y]
    BY <1>3, <2>1, <2>2 DEF SetHeader
  <2>7. Held(N)'
    BY <2>1, <2>5, <2>6 DEF Held, PolicyTypeOK, Stored
  <2>8. q.value = [q.value EXCEPT ![m] = x]
    BY <1>1, <2>2, <2>3
  <2>9. (N \ {NodeOf(x)}) \union {m} = N
    BY <2>2, <2>3
  <2>10. Accessed(x, N, m)
    BY <1>1, <2>1, <2>2, <2>5, <2>6, <2>7, <2>8, <2>9 DEF Accessed
  <2> QED
    BY <1>1, <2>3, <2>10
<1>5. CASE NodeOf(x) = Nil
  <2>1. /\ Allocate
        /\ deque' = Moved(PushFirst(deque, New, x), New, h.count, rank)
        /\ SetHeader(x, [h EXCEPT !.node = New])
        /\ UNCHANGED <<kind, freed, clock, fault>>
    BY <1>2, <1>5 DEF LFUUpdate, Fault
  <2>2. /\ New \in Node \ N /\ New \notin freed /\ nnode' = nnode + 1
        /\ nnode' \in 0 .. MaxNodes
    BY <1>1, <2>1, HeldFacts DEF Allocate
  <2>3. PICK m, q, d, own, P :
           /\ m = New /\ q = deque /\ d = PushFirst(deque, New, x) /\ own = h.count
           /\ P = N \union {New}
    OBVIOUS
  <2>4. d \in Deque(Stored) /\ d.value = [q.value EXCEPT ![m] = x] /\ Holds(d, P)
    <3>1. x \in Stored /\ m \in Node \ N /\ Holds(q, N)
      BY <2>2, <2>3 DEF Stored, Held
    <3> QED
      BY <1>1, <2>3, <3>1, PushFirstHolds
  <2>5. /\ Moved(d, m, own, rank) \in Deque(Stored)
        /\ Moved(d, m, own, rank).value = d.value
        /\ Holds(Moved(d, m, own, rank), P)
    BY <2>3, <2>4, MovedHolds
  <2>6. /\ deque' \in Deque(Stored) /\ Holds(deque', P)
        /\ deque'.value = [deque.value EXCEPT ![m] = x]
    BY <2>1, <2>3, <2>4, <2>5
  <2>7. /\ header' \in [Buffer -> Header] /\ header'[x].node = m
        /\ \A y \in Buffer \ {x} : header'[y] = header[y]
    BY <1>3, <2>1, <2>2, <2>3 DEF SetHeader, Header, Pointer
  <2>8. freed' \in SUBSET (1 .. nnode') /\ P \in SUBSET ((1 .. nnode') \ freed')
    BY <1>1, <2>1, <2>2, <2>3 DEF Held, PolicyTypeOK, New
  <2>9. Held(P)'
    BY <2>1, <2>2, <2>6, <2>7, <2>8 DEF Held, PolicyTypeOK, Stored
  <2>10. (N \ {NodeOf(x)}) \union {m} = P /\ m \notin N
    BY <1>1, <1>5, <2>2, <2>3
  <2>11. Accessed(x, N, m)
    BY <1>1, <2>1, <2>2, <2>3, <2>6, <2>7, <2>9, <2>10 DEF Accessed
  <2> QED
    BY <2>2, <2>3, <2>11
<1> QED
  BY <1>4, <1>5

\* An access under LRU (LRUPolicy_updateAccessInfo).
LEMMA LRUAccess ==
    ASSUME NEW N, Held(N), NEW x \in Buffer, Placed(x, N), LRUUpdate(x), fault' # TRUE
    PROVE  \E m \in Node : Accessed(x, N, m)
<1>1. /\ N \in SUBSET Node /\ 0 \notin Node /\ 0 \notin N
      /\ deque \in Deque(Stored) /\ deque.value \in [Node -> Stored]
      /\ nnode \in 0 .. MaxNodes /\ MaxNodes \in Nat
  BY HeldFacts
<1>2. PICK h, rank : /\ h = [header[x] EXCEPT !.stamp = clock']
                     /\ rank = [y \in Buffer |-> (IF y = x THEN clock' ELSE header[y].stamp)
                                                    % StampModulus]
  OBVIOUS
<1>3. clock' \in 0 .. MaxTime
  BY PolicyAssumption DEF LRUUpdate, Held, PolicyTypeOK
<1>4. h \in Header /\ h.node = NodeOf(x) /\ header \in [Buffer -> Header]
  BY <1>2, <1>3 DEF Held, PolicyTypeOK, Header, NodeOf
<1>5. CASE NodeOf(x) # Nil
  <2>1. /\ deque' = Moved(deque, NodeOf(x), rank[x], rank)
        /\ SetHeader(x, h)
        /\ UNCHANGED <<kind, nnode, freed, fault>>
    BY <1>2, <1>5 DEF LRUUpdate
  <2>2. PICK m, q, own : m = NodeOf(x) /\ q = deque /\ own = rank[x]
    OBVIOUS
  <2>3. m \in N /\ Holds(q, N) /\ q.value[m] = x
    BY <1>5, <2>2 DEF Placed, Held
  <2>4. /\ Moved(q, m, own, rank) \in Deque(Stored)
        /\ Moved(q, m, own, rank).value = q.value
        /\ Holds(Moved(q, m, own, rank), N)
    BY <1>1, <2>2, <2>3, MovedHolds
  <2>5. deque' \in Deque(Stored) /\ deque'.value = q.value /\ Holds(deque', N)
    BY <2>1, <2>2, <2>4
  <2>6. /\ header' \in [Buffer -> Header] /\ header'[x].node = m
        /\ \A y \in Buffer \ {x} : header'[y] = header[y]
    BY <1>4, <2>1, <2>2 DEF SetHeader
  <2>7. Held(N)'
    BY <1>3, <2>1, <2>5, <2>6 DEF Held, PolicyTypeOK, Stored
  <2>8. q.value = [q.value EXCEPT ![m] = x]
    BY <1>1, <2>2, <2>3
  <2>9. (N \ {NodeOf(x)}) \union {m} = N
    BY <2>2, <2>3
  <2>10. Accessed(x, N, m)
    BY <1>1, <2>1, <2>2, <2>5, <2>6, <2>7, <2>8, <2>9 DEF Accessed
  <2> QED
    BY <1>1, <2>3, <2>10
<1>6. CASE NodeOf(x) = Nil
  <2>1. /\ Allocate
        /\ deque' = PushLast(deque, New, x)
        /\ SetHeader(x, [h EXCEPT !.node = New])
        /\ UNCHANGED <<kind, freed, fault>>
    BY <1>2, <1>6 DEF LRUUpdate
  <2>2. /\ New \in Node \ N /\ New \notin freed /\ nnode' = nnode + 1
        /\ nnode' \in 0 .. MaxNodes
    BY <1>1, <2>1, HeldFacts DEF Allocate
  <2>3. PICK m, q, d, P :
           /\ m = New /\ q = deque /\ d = PushLast(deque, New, x)
           /\ P = N \union {New}
    OBVIOUS
  <2>4. d \in Deque(Stored) /\ d.value = [q.value EXCEPT ![m] = x] /\ Holds(d, P)
    <3>1. x \in Stored /\ m \in Node \ N /\ Holds(q, N)
      BY <2>2, <2>3 DEF Stored, Held
    <3> QED
      BY <1>1, <2>3, <3>1, PushLastHolds
  <2>6. /\ deque' \in Deque(Stored) /\ Holds(deque', P)
        /\ deque'.value = [deque.value EXCEPT ![m] = x]
    BY <2>1, <2>3, <2>4
  <2>7. /\ header' \in [Buffer -> Header] /\ header'[x].node = m
        /\ \A y \in Buffer \ {x} : header'[y] = header[y]
    BY <1>4, <2>1, <2>2, <2>3 DEF SetHeader, Header, Pointer
  <2>8. freed' \in SUBSET (1 .. nnode') /\ P \in SUBSET ((1 .. nnode') \ freed')
    BY <1>1, <2>1, <2>2, <2>3 DEF Held, PolicyTypeOK, New
  <2>9. Held(P)'
    BY <1>3, <2>1, <2>2, <2>6, <2>7, <2>8 DEF Held, PolicyTypeOK, Stored
  <2>10. (N \ {NodeOf(x)}) \union {m} = P /\ m \notin N
    BY <1>1, <1>6, <2>2, <2>3
  <2>11. Accessed(x, N, m)
    BY <1>1, <2>1, <2>2, <2>3, <2>6, <2>7, <2>9, <2>10 DEF Accessed
  <2> QED
    BY <2>2, <2>3, <2>11
<1> QED
  BY <1>5, <1>6

\* An access under any policy.
LEMMA UpdateAccess ==
    ASSUME NEW N, Held(N), NEW x \in Buffer, Placed(x, N), UpdateAccessInfo(x), fault' # TRUE
    PROVE  \E m \in Node : Accessed(x, N, m)
BY FIFOAccess, LFUAccess, LRUAccess DEF UpdateAccessInfo

\* What deleteAt does: x's node, if it has one, leaves the deque.
Removed(x, N) ==
    \E P \in SUBSET Node :
       /\ P = N \ {NodeOf(x)}
       /\ Held(P)'
       /\ deque'.value = deque.value
       /\ freed' = freed
       /\ \A y \in Buffer \ {x} : header'[y] = header[y]

\* x is taken out, whatever its header is left pointing at.
LEMMA TakenOut ==
    ASSUME NEW N, Held(N), NEW x \in Buffer, Placed(x, N), NodeOf(x) # Nil,
           NEW n \in Pointer, TakeOut(x, n)
    PROVE  Removed(x, N)
<1>1. /\ N \in SUBSET Node /\ deque \in Deque(Stored)
  BY HeldFacts
<1>2. PICK m, q, P : m = NodeOf(x) /\ q = deque /\ P = N \ {NodeOf(x)}
  OBVIOUS
<1>3. m \in N /\ Holds(q, N)
  BY <1>2 DEF Placed, Held
<1>4. /\ PopAt(q, m) \in Deque(Stored) /\ PopAt(q, m).value = q.value
      /\ Holds(PopAt(q, m), N \ {m})
  BY <1>1, <1>2, <1>3, PopHolds
<1>5. deque' \in Deque(Stored) /\ deque'.value = q.value /\ Holds(deque', P)
  BY <1>2, <1>4 DEF TakeOut
<1>6. /\ UNCHANGED <<kind, nnode, freed, clock, fault>>
      /\ header' = [header EXCEPT ![x] = [header[x] EXCEPT !.node = n]]
  BY DEF TakeOut, SetHeader
<1>7. /\ header' \in [Buffer -> Header]
      /\ \A y \in Buffer \ {x} : header'[y] = header[y]
  <2>1. [header[x] EXCEPT !.node = n] \in Header /\ header \in [Buffer -> Header]
    BY DEF Held, PolicyTypeOK, Header
  <2> QED
    BY <1>6, <2>1
<1>8. Held(P)'
  BY <1>2, <1>5, <1>6, <1>7 DEF Held, PolicyTypeOK, Stored
<1> QED
  BY <1>1, <1>2, <1>5, <1>6, <1>7, <1>8 DEF Removed

\* deleteAt of any policy.
LEMMA DeleteRemoves ==
    ASSUME NEW N, Held(N), NEW x \in Buffer, Placed(x, N), DeleteAt(x), fault' # TRUE
    PROVE  Removed(x, N)
<1>1. /\ N \in SUBSET Node /\ 0 \notin N /\ deque \in Deque(Stored)
  BY HeldFacts
<1>2. CASE NodeOf(x) = Nil
  <2>1. UNCHANGED policyVars
    BY <1>2 DEF DeleteAt, FIFODeleteAt, LFUDeleteAt, LRUDeleteAt, Fault
  <2>2. N \ {NodeOf(x)} = N
    BY <1>1, <1>2
  <2>3. Held(N)'
    BY <2>1 DEF Held, PolicyTypeOK, policyVars
  <2> QED
    BY <1>1, <2>1, <2>2, <2>3 DEF Removed, policyVars
<1>3. CASE NodeOf(x) # Nil
  <2>1. NodeOf(x) \in N /\ Holds(deque, N)
    BY <1>3 DEF Placed, Held
  <2>2. FirstLeft(x) \in Pointer /\ NodeOf(x) \in Pointer
    <3>1. PICK q, m : q = deque /\ m = NodeOf(x)
      OBVIOUS
    <3>2. PopAt(q, m) \in Deque(Stored)
      BY <1>1, <2>1, <3>1, PopHolds
    <3>3. PopAt(q, m).first \in Pointer
      BY <3>2 DEF Deque
    <3> QED
      BY <1>1, <2>1, <3>1, <3>3 DEF FirstLeft, Pointer
  <2>3. TakeOut(x, FirstLeft(x)) \/ TakeOut(x, NodeOf(x))
    BY <1>3 DEF DeleteAt, FIFODeleteAt, LFUDeleteAt, LRUDeleteAt, Fault
  <2>4. PICK n \in Pointer : TakeOut(x, n)
    BY <2>2, <2>3
  <2> QED
    BY <1>3, <2>4, TakenOut
<1> QED
  BY <1>2, <1>3
-----------------------------------------------------------------------------
(* The invariant                                                            *)

\* main has made a new buffer, which nobody else knows.
Unknown ==
    ~At("idle") =>
        /\ main.buf \in 1 .. nbuf /\ NodeOf(main.buf) = Nil
        /\ main.buf \notin pending
        /\ \A b \in Block : map[b] # main.buf
        /\ map[blockOf[main.buf]] = NoBuffer

\* What main has found so far: then a node, and the buffer in it, still cached.
Found(N) ==
    /\ Unknown
    /\ At("value") => main.node \in N \union freed
    /\ At("delete") => main.victim \in Buffer /\ IsCached(main.victim)

\* A buffer in the map is there under its own block.
MapIsRight ==
    \A b \in Block : map[b] # NoBuffer => map[b] \in 1 .. nbuf /\ blockOf[map[b]] = b

\* The list and the map name the same buffers, but for those whose thread is
\* still to run.
Matched(N) ==
    /\ \A n \in N : /\ deque.value[n] \in Buffer
                    /\ IsCached(deque.value[n])
                    /\ NodeOf(deque.value[n]) = n
    /\ \A b \in Block :
          map[b] # NoBuffer => /\ Placed(map[b], N)
                               /\ NodeOf(map[b]) = Nil => map[b] \in pending

NewBuffers ==
    /\ pending \subseteq 1 .. nbuf
    /\ \A x \in Buffer : x > nbuf => NodeOf(x) = Nil

Good(N) == Held(N) /\ CacheTypeOK /\ MapIsRight /\ Matched(N) /\ NewBuffers /\ Found(N)

IInv == InTime => \E N \in SUBSET Node : Good(N)
-----------------------------------------------------------------------------
\* Buffers are numbers above 0, and so are nodes.
LEMMA Buffers ==
    /\ Buffer \subseteq Nat /\ NoBuffer = 0 /\ NoBuffer \notin Buffer
    /\ MaxBuffers \in Nat /\ 0 \notin Node
BY PolicyAssumption DEF Buffer, NoBuffer, Node

\* The empty cache.
LEMMA InitGood == Init => Good({})
<1> SUFFICES ASSUME Init PROVE Good({})
  OBVIOUS
<1>1. NewDeque(NoBuffer) \in Deque(Stored) /\ Holds(NewDeque(NoBuffer), {})
  <2>1. NoBuffer \in Stored
    BY DEF Stored
  <2> QED
    BY <2>1, NewHolds
<1>2. Held({})
  <2>1. [node |-> Nil, count |-> 0, stamp |-> 0] \in Header
    BY DEF Header, Pointer
  <2>2. nnode \in 0 .. MaxNodes /\ clock \in 0 .. MaxTime
    BY DequeAssumption, PolicyAssumption DEF Init, PolicyInit
  <2> QED
    BY <1>1, <2>1, <2>2 DEF Init, PolicyInit, Held, PolicyTypeOK, Stored
<1>3. CacheTypeOK
  <2>1. 0 \in Block /\ 0 \in 0 .. MaxBuffers /\ 0 \in 0 .. MaxHits
    BY PolicyAssumption, PolicyCacheAssumption DEF Block
  <2>2. Idle \in [pc: {"idle", "find", "value", "delete", "put"},
                  buf: Buffer \union {NoBuffer}, node: Pointer,
                  victim: Buffer \union {NoBuffer}]
    BY DEF Idle, Pointer
  <2> QED
    BY <2>1, <2>2 DEF Init, CacheTypeOK
<1>4. MapIsRight /\ Matched({}) /\ NewBuffers /\ Found({})
  BY DEF Init, PolicyInit, MapIsRight, Matched, NewBuffers, Found, Unknown, At, Idle, NodeOf
<1> QED
  BY <1>2, <1>3, <1>4 DEF Good

\* An access of a cached buffer, by a call or by its update thread.
LEMMA AccessGood ==
    ASSUME NEW N \in SUBSET Node, Good(N), NEW b \in Block, map[b] # NoBuffer,
           UpdateAccessInfo(map[b]), fault' # TRUE,
           UNCHANGED <<map, blockOf, nbuf, main>>,
           pending' \subseteq pending, pending \ {map[b]} \subseteq pending',
           CacheTypeOK'
    PROVE  \E P \in SUBSET Node : Good(P)'
<1>1. PICK x : x = map[b]
  OBVIOUS
<1>2. x \in Buffer /\ x \in 1 .. nbuf /\ blockOf[x] = b /\ nbuf \in 0 .. MaxBuffers
  BY <1>1, Buffers DEF Good, MapIsRight, CacheTypeOK
<1>3. Placed(x, N) /\ Held(N) /\ UpdateAccessInfo(x)
  BY <1>1 DEF Good, Matched
<1>4. PICK m \in Node : Accessed(x, N, m)
  BY <1>2, <1>3, UpdateAccess
<1>5. PICK k : k = NodeOf(x)
  OBVIOUS
<1>6. PICK P \in SUBSET Node :
         /\ P = (N \ {k}) \union {m}
         /\ m \notin N \ {k}
         /\ Held(P)'
         /\ deque'.value = [deque.value EXCEPT ![m] = x]
         /\ header'[x].node = m
         /\ \A y \in Buffer \ {x} : header'[y] = header[y]
         /\ N \union freed \subseteq P \union freed'
  BY <1>4, <1>5 DEF Accessed
<1>7. deque.value \in [Node -> Stored]
  BY <1>3, HeldFacts
<1>8. MapIsRight'
  BY DEF Good, MapIsRight
<1>9. Matched(P)'
  <2>1. ASSUME NEW n \in P
        PROVE  /\ deque'.value[n] \in Buffer
               /\ map'[blockOf'[deque'.value[n]]] = deque'.value[n]
               /\ header'[deque'.value[n]].node = n
    <3>1. CASE n = m
      <4>1. deque'.value[n] = x /\ header'[x].node = n
        BY <1>6, <1>7, <3>1
      <4>2. map'[blockOf'[x]] = x
        BY <1>1, <1>2
      <4> QED
        BY <1>2, <4>1, <4>2
    <3>2. CASE n # m
      <4>1. n \in N /\ n # k
        BY <1>6, <3>2
      <4>2. PICK y : y = deque.value[n]
        OBVIOUS
      <4>3. y \in Buffer /\ IsCached(y) /\ NodeOf(y) = n
        BY <4>1, <4>2 DEF Good, Matched
      <4>4. y # x /\ header'[y] = header[y] /\ deque'.value[n] = y
        BY <1>5, <1>6, <1>7, <3>2, <4>1, <4>2, <4>3
      <4> QED
        BY <4>3, <4>4 DEF IsCached, NodeOf
    <3> QED
      BY <3>1, <3>2
  <2>2. ASSUME NEW c \in Block, map[c] # NoBuffer
        PROVE  Placed(map[c], P)' /\ (header'[map[c]].node = Nil => map[c] \in pending')
    <3>1. PICK y : y = map[c]
      OBVIOUS
    <3>2. /\ y \in Buffer /\ Placed(y, N) /\ (NodeOf(y) = Nil => y \in pending)
          /\ map' = map
      BY <2>2, <3>1, Buffers DEF Good, Matched, CacheTypeOK
    <3>3. CASE y = x
      <4>1. header'[y].node = m /\ m \in P /\ deque'.value[m] = y /\ m # Nil
        BY <1>6, <1>7, <3>3, Buffers
      <4>2. Placed(y, P)'
        BY <4>1 DEF Placed, NodeOf
      <4> QED
        BY <3>1, <3>2, <4>1, <4>2
    <3>4. CASE y # x
      <4>1. header'[y] = header[y]
        BY <1>6, <3>2, <3>4
      <4>2. CASE NodeOf(y) = Nil
        <5>1. y \in pending'
          BY <1>1, <3>2, <3>4, <4>2
        <5>2. header'[y].node = Nil
          BY <4>1, <4>2 DEF NodeOf
        <5>3. Placed(y, P)'
          BY <5>2 DEF Placed, NodeOf
        <5> QED
          BY <3>1, <3>2, <5>1, <5>3
      <4>3. CASE NodeOf(y) # Nil
        <5>1. PICK n : n = NodeOf(y)
          OBVIOUS
        <5>2. n \in N /\ deque.value[n] = y
          BY <3>2, <4>3, <5>1 DEF Placed
        <5>3. n # k
          BY <1>3, <1>5, <3>4, <4>3, <5>1, <5>2 DEF Placed
        <5>4. n \in P /\ n # m /\ deque'.value[n] = y /\ header'[y].node = n
          BY <1>6, <1>7, <4>1, <5>1, <5>2, <5>3 DEF NodeOf
        <5>5. Placed(y, P)'
          BY <5>4 DEF Placed, NodeOf
        <5> QED
          BY <3>1, <3>2, <4>3, <5>1, <5>4, <5>5
      <4> QED
        BY <4>2, <4>3
    <3> QED
      BY <3>3, <3>4
  <2>3. \A n \in P : /\ deque'.value[n] \in Buffer
                     /\ map'[blockOf'[deque'.value[n]]] = deque'.value[n]
                     /\ header'[deque'.value[n]].node = n
    BY <2>1
  <2>4. \A c \in Block : map[c] # NoBuffer =>
           Placed(map[c], P)' /\ (header'[map[c]].node = Nil => map[c] \in pending')
    BY <2>2
  <2> QED
    BY <2>3, <2>4 DEF Matched, NodeOf, IsCached, Placed
<1>10. NewBuffers'
  <2>1. \A y \in Buffer : y > nbuf => header'[y] = header[y]
    BY <1>2, <1>6, Buffers
  <2> QED
    BY <2>1 DEF Good, NewBuffers, NodeOf
<1>11. Found(P)'
  <2>1. ~At("idle") => main.buf \in Buffer \ {x}
    BY <1>1, <1>2, Buffers DEF Good, Found, Unknown, Buffer
  <2>2. ~At("idle") => header'[main.buf] = header[main.buf]
    BY <1>6, <2>1
  <2> QED
    BY <1>6, <2>2 DEF Good, Found, Unknown, At, NodeOf, IsCached
<1> QED
  BY <1>6, <1>8, <1>9, <1>10, <1>11 DEF Good

\* A hit.
LEMMA HitGood ==
    ASSUME NEW N \in SUBSET Node, Good(N), NEW b \in Block, Hit(b), fault' # TRUE
    PROVE  \E P \in SUBSET Node : Good(P)'
<1>1. /\ map[b] # NoBuffer /\ UpdateAccessInfo(map[b])
      /\ UNCHANGED <<map, blockOf, nbuf, pending, main, late>>
  BY DEF Hit
<1>2. hits' \in 0 .. MaxHits
  BY PolicyCacheAssumption DEF Hit, Good, CacheTypeOK
<1>3. CacheTypeOK'
  BY <1>1, <1>2 DEF Good, CacheTypeOK
<1> QED
  BY <1>1, <1>3, AccessGood

\* An update thread that is not late.
LEMMA UpdateThreadGood ==
    ASSUME NEW N \in SUBSET Node, Good(N), NEW x \in pending, UpdateThread(x),
           fault' # TRUE, ~late'
    PROVE  \E P \in SUBSET Node : Good(P)'
<1>1. /\ pending' = pending \ {x} /\ UpdateAccessInfo(x)
      /\ late' = (late \/ ~IsCached(x))
      /\ UNCHANGED <<map, blockOf, nbuf, main, hits>>
  BY DEF UpdateThread
<1>2. x \in Buffer /\ blockOf[x] \in Block
  BY DEF Good, CacheTypeOK
<1>3. IsCached(x)
  BY <1>1
<1>4. PICK b \in Block : b = blockOf[x] /\ map[b] = x
  BY <1>2, <1>3 DEF IsCached
<1>5. late' \in BOOLEAN
  BY <1>1
<1>6. CacheTypeOK'
  BY <1>1, <1>5 DEF Good, CacheTypeOK
<1>7. map[b] # NoBuffer
  BY <1>2, <1>4, Buffers
<1> QED
  BY <1>1, <1>4, <1>6, <1>7, AccessGood

\* Steps of main that leave the policy alone keep its deque.
LEMMA SameHeld ==
    ASSUME NEW N, Held(N), UNCHANGED policyVars
    PROVE  Held(N)'
BY DEF Held, PolicyTypeOK, policyVars

\* A miss: the new buffer is known to nobody else.
LEMMA MissGood ==
    ASSUME NEW N \in SUBSET Node, Good(N), NEW b \in Block, Miss(b)
    PROVE  Good(N)'
<1>1. /\ At("idle") /\ map[b] = NoBuffer /\ nbuf < MaxBuffers /\ nbuf' = nbuf + 1
      /\ blockOf' = [blockOf EXCEPT ![nbuf + 1] = b]
      /\ main' = [Idle EXCEPT !.pc = IF Cardinality(Cached) >= Capacity THEN "find"
                                                                       ELSE "put",
                              !.buf = nbuf + 1]
      /\ UNCHANGED <<policyVars, map, pending, hits, late>>
  BY DEF Miss
<1>2. nbuf \in 0 .. MaxBuffers /\ blockOf \in [Buffer -> Block]
  BY DEF Good, CacheTypeOK
<1>3. PICK x : x = nbuf + 1
  OBVIOUS
<1>4. /\ x \in Buffer /\ x \notin 1 .. nbuf /\ nbuf' = x /\ x \in 0 .. MaxBuffers
      /\ 1 .. nbuf \subseteq 1 .. nbuf' /\ x \in 1 .. nbuf' /\ x # 0
  BY <1>1, <1>2, <1>3, Buffers DEF Buffer
<1>5. /\ main'.buf = x /\ main'.pc \in {"find", "put"}
      /\ main' \in [pc: {"idle", "find", "value", "delete", "put"},
                    buf: Buffer \union {NoBuffer}, node: Pointer,
                    victim: Buffer \union {NoBuffer}]
  BY <1>1, <1>3, <1>4 DEF Idle, Pointer
<1>6. /\ blockOf' \in [Buffer -> Block] /\ blockOf'[x] = b
      /\ \A y \in Buffer \ {x} : blockOf'[y] = blockOf[y]
  BY <1>1, <1>2, <1>3, <1>4
<1>7. CacheTypeOK'
  BY <1>1, <1>4, <1>5, <1>6 DEF Good, CacheTypeOK
<1>8. UNCHANGED <<kind, deque, nnode, freed, header, clock, fault>>
  BY <1>1 DEF policyVars
<1>9. Held(N)'
  BY <1>1, SameHeld DEF Good
<1>10. MapIsRight'
  <2>1. ASSUME NEW c \in Block, map[c] # NoBuffer
        PROVE  map[c] \in 1 .. nbuf' /\ blockOf'[map[c]] = c
    <3>1. map[c] \in 1 .. nbuf /\ blockOf[map[c]] = c /\ map[c] \in Buffer
      BY <2>1 DEF Good, MapIsRight, CacheTypeOK
    <3> QED
      BY <1>4, <1>6, <3>1
  <2> QED
    BY <1>1, <2>1 DEF MapIsRight
<1>11. Matched(N)'
  <2>1. ASSUME NEW n \in N
        PROVE  /\ deque.value[n] \in Buffer /\ map[blockOf'[deque.value[n]]] = deque.value[n]
               /\ NodeOf(deque.value[n]) = n
    <3>1. PICK y : y = deque.value[n]
      OBVIOUS
    <3>2. y \in Buffer /\ map[blockOf[y]] = y /\ NodeOf(y) = n
      BY <3>1 DEF Good, Matched, IsCached
    <3>3. y \in 1 .. nbuf
      BY <1>2, <3>2, Buffers DEF Good, MapIsRight
    <3> QED
      BY <1>4, <1>6, <3>1, <3>2, <3>3
  <2>2. \A c \in Block :
          map[c] # NoBuffer => /\ Placed(map[c], N)
                               /\ NodeOf(map[c]) = Nil => map[c] \in pending
    BY DEF Good, Matched
  <2> QED
    BY <1>1, <1>8, <2>1, <2>2 DEF Matched, IsCached, NodeOf, Placed
<1>12. NewBuffers'
  BY <1>1, <1>2, <1>4, <1>8, Buffers DEF Good, NewBuffers, NodeOf
<1>13. Found(N)'
  <2>1. NodeOf(x) = Nil /\ x \notin pending
    BY <1>2, <1>3, <1>4, Buffers DEF Good, NewBuffers
  <2>2. \A c \in Block : map[c] # x
    BY <1>4, Buffers DEF Good, MapIsRight
  <2> QED
    BY <1>1, <1>4, <1>5, <1>6, <1>8, <2>1, <2>2 DEF Found, Unknown, At, NodeOf
<1> QED
  BY <1>7, <1>9, <1>10, <1>11, <1>12, <1>13 DEF Good

\* The node found is the first of the list, if there is one.
LEMMA FindNodeGood ==
    ASSUME NEW N \in SUBSET Node, Good(N), FindNode
    PROVE  Good(N)'
<1>1. /\ At("find")
      /\ main' = [main EXCEPT !.node = EvictableNode,
                              !.pc = IF EvictableNode = Nil THEN "put" ELSE "value"]
      /\ UNCHANGED <<policyVars, map, blockOf, nbuf, pending, hits, late>>
  BY DEF FindNode
<1>2. UNCHANGED <<kind, deque, nnode, freed, header, clock, fault>>
  BY <1>1 DEF policyVars
<1>3. /\ EvictableNode = Nil \/ EvictableNode \in N
      /\ EvictableNode \in Pointer
  <2>1. deque \in Deque(Stored) /\ Holds(deque, N)
    BY HeldFacts DEF Good, Held
  <2>2. PICK d : d = deque
    OBVIOUS
  <2>3. d.first \in Pointer /\ (d.first # Nil => d.first \in N)
    BY <2>1, <2>2, HeldNodes DEF Deque
  <2> QED
    BY <2>2, <2>3 DEF EvictableNode
<1>4. /\ main' \in [pc: {"idle", "find", "value", "delete", "put"},
                    buf: Buffer \union {NoBuffer}, node: Pointer,
                    victim: Buffer \union {NoBuffer}]
      /\ main'.buf = main.buf /\ main'.node = EvictableNode
      /\ main'.pc = IF EvictableNode = Nil THEN "put" ELSE "value"
  BY <1>1, <1>3 DEF Good, CacheTypeOK
<1>5. CacheTypeOK'
  BY <1>1, <1>4 DEF Good, CacheTypeOK
<1>6. Held(N)'
  BY <1>1, SameHeld DEF Good
<1>7. MapIsRight' /\ NewBuffers'
  BY <1>1, <1>2 DEF Good, MapIsRight, NewBuffers, NodeOf
<1>8. Matched(N)'
  BY <1>1, <1>2 DEF Good, Matched, IsCached, NodeOf, Placed
<1>9. Found(N)'
  BY <1>1, <1>2, <1>3, <1>4 DEF Good, Found, Unknown, At, NodeOf
<1> QED
  BY <1>5, <1>6, <1>7, <1>8, <1>9 DEF Good

\* Its value is a cached buffer unless the node was freed.
LEMMA ReadValueGood ==
    ASSUME NEW N \in SUBSET Node, Good(N), ReadValue, fault' # TRUE
    PROVE  Good(N)'
<1>1. /\ At("value") /\ main.node \notin freed
      /\ main' = [main EXCEPT !.victim = deque.value[main.node], !.pc = "delete"]
      /\ UNCHANGED <<policyVars, map, blockOf, nbuf, pending, hits, late>>
  BY DEF ReadValue, Fault
<1>2. UNCHANGED <<kind, deque, nnode, freed, header, clock, fault>>
  BY <1>1 DEF policyVars
<1>3. main.node \in N
  BY <1>1 DEF Good, Found, Unknown
<1>4. PICK x : x = deque.value[main.node]
  OBVIOUS
<1>5. x \in Buffer /\ IsCached(x)
  BY <1>3, <1>4 DEF Good, Matched
<1>6. /\ main' \in [pc: {"idle", "find", "value", "delete", "put"},
                    buf: Buffer \union {NoBuffer}, node: Pointer,
                    victim: Buffer \union {NoBuffer}]
      /\ main'.buf = main.buf /\ main'.victim = x /\ main'.pc = "delete"
  BY <1>1, <1>4, <1>5 DEF Good, CacheTypeOK
<1>7. CacheTypeOK'
  BY <1>1, <1>6 DEF Good, CacheTypeOK
<1>8. Held(N)'
  BY <1>1, SameHeld DEF Good
<1>9. MapIsRight' /\ NewBuffers'
  BY <1>1, <1>2 DEF Good, MapIsRight, NewBuffers, NodeOf
<1>10. Matched(N)'
  BY <1>1, <1>2 DEF Good, Matched, IsCached, NodeOf, Placed
<1>11. Found(N)'
  BY <1>1, <1>2, <1>5, <1>6 DEF Good, Found, Unknown, At, NodeOf, IsCached
<1> QED
  BY <1>7, <1>8, <1>9, <1>10, <1>11 DEF Good

\* What an eviction does to the map and the list.
LEMMA DeleteGood ==
    ASSUME NEW N \in SUBSET Node, Good(N), DeleteMemoryBuffer, fault' # TRUE
    PROVE  /\ \E P \in SUBSET Node : Good(P)'
           /\ map[blockOf[main.victim]] # NoBuffer /\ blockOf[main.victim] \in Block
<1>1. PICK x, b : x = main.victim /\ b = blockOf[main.victim]
  OBVIOUS
<1>2. x \in Buffer /\ map[b] = x /\ b \in Block /\ x # NoBuffer
  <2>1. main.victim \in Buffer /\ IsCached(main.victim) /\ blockOf \in [Buffer -> Block]
    BY DEF DeleteMemoryBuffer, Good, Found, Unknown, CacheTypeOK
  <2> QED
    BY <1>1, <2>1, Buffers DEF IsCached
<1>3. /\ At("delete") /\ DeleteAt(x)
      /\ map' = [map EXCEPT ![b] = NoBuffer]
      /\ main' = [main EXCEPT !.pc = "put"]
      /\ UNCHANGED <<blockOf, nbuf, pending, hits, late>>
  BY <1>1, <1>2 DEF DeleteMemoryBuffer
<1>4. Placed(x, N) /\ Held(N)
  BY <1>2 DEF Good, Matched
<1>5. Removed(x, N)
  BY <1>2, <1>3, <1>4, DeleteRemoves
<1>6. PICK k : k = NodeOf(x)
  OBVIOUS
<1>7. PICK P \in SUBSET Node :
         /\ P = N \ {k} /\ Held(P)' /\ deque'.value = deque.value /\ freed' = freed
         /\ \A y \in Buffer \ {x} : header'[y] = header[y]
  BY <1>5, <1>6 DEF Removed
<1>8. /\ map \in [Block -> Buffer \union {NoBuffer}]
      /\ map'[b] = NoBuffer /\ \A c \in Block \ {b} : map'[c] = map[c]
      /\ blockOf \in [Buffer -> Block]
  BY <1>2, <1>3 DEF Good, CacheTypeOK
<1>9. /\ main' \in [pc: {"idle", "find", "value", "delete", "put"},
                    buf: Buffer \union {NoBuffer}, node: Pointer,
                    victim: Buffer \union {NoBuffer}]
      /\ main'.buf = main.buf /\ main'.pc = "put"
  BY <1>3 DEF Good, CacheTypeOK
<1>10. CacheTypeOK'
  BY <1>3, <1>8, <1>9 DEF Good, CacheTypeOK
<1>11. MapIsRight'
  BY <1>3, <1>8 DEF Good, MapIsRight
<1>12. \A c \in Block \ {b} : map[c] # NoBuffer =>
          map[c] \in Buffer \ {x} /\ blockOf[map[c]] = c
  BY <1>2, <1>8 DEF Good, MapIsRight
<1>13. Matched(P)'
  <2>1. ASSUME NEW n \in P
        PROVE  /\ deque.value[n] \in Buffer
               /\ map'[blockOf[deque.value[n]]] = deque.value[n]
               /\ header'[deque.value[n]].node = n
    <3>1. PICK y : y = deque.value[n]
      OBVIOUS
    <3>2. y \in Buffer /\ map[blockOf[y]] = y /\ NodeOf(y) = n /\ n # k
      BY <1>7, <3>1 DEF Good, Matched, IsCached
    <3>3. y # x /\ blockOf[y] # b /\ blockOf[y] \in Block
      BY <1>2, <1>6, <1>8, <3>2
    <3> QED
      BY <1>7, <1>8, <3>1, <3>2, <3>3 DEF NodeOf
  <2>2. ASSUME NEW c \in Block, map'[c] # NoBuffer
        PROVE  /\ header'[map'[c]].node # Nil =>
                     /\ header'[map'[c]].node \in P
                     /\ deque'.value[header'[map'[c]].node] = map'[c]
               /\ header'[map'[c]].node = Nil => map'[c] \in pending
    <3>1. PICK y : y = map[c]
      OBVIOUS
    <3>2. c # b /\ map'[c] = y /\ y \in Buffer \ {x} /\ map[c] # NoBuffer
      BY <1>8, <1>12, <2>2, <3>1
    <3>3. Placed(y, N) /\ (NodeOf(y) = Nil => y \in pending) /\ header'[y] = header[y]
      BY <1>7, <3>1, <3>2 DEF Good, Matched
    <3>4. NodeOf(y) # Nil => NodeOf(y) # k
      BY <1>4, <1>6, <3>2, <3>3 DEF Placed
    <3>5. header'[y].node # Nil =>
             header'[y].node \in P /\ deque'.value[header'[y].node] = y
      BY <1>7, <3>3, <3>4 DEF Placed, NodeOf
    <3>6. header'[y].node = Nil => y \in pending
      BY <3>3 DEF NodeOf
    <3> QED
      BY <3>2, <3>5, <3>6
  <2>3. \A n \in P : /\ deque.value[n] \in Buffer
                     /\ map'[blockOf[deque.value[n]]] = deque.value[n]
                     /\ header'[deque.value[n]].node = n
    BY <2>1
  <2>4. \A c \in Block : map'[c] # NoBuffer =>
           /\ header'[map'[c]].node # Nil =>
                 /\ header'[map'[c]].node \in P
                 /\ deque'.value[header'[map'[c]].node] = map'[c]
           /\ header'[map'[c]].node = Nil => map'[c] \in pending
    BY <2>2
  <2> QED
    BY <1>3, <1>7, <2>3, <2>4 DEF Matched, NodeOf, IsCached, Placed
<1>14. x \in 1 .. nbuf
  BY <1>2 DEF Good, MapIsRight
<1>15. NewBuffers'
  <2>1. \A y \in Buffer : y > nbuf => header'[y] = header[y]
    BY <1>7, <1>14, Buffers DEF Good, CacheTypeOK
  <2> QED
    BY <1>3, <2>1 DEF Good, NewBuffers, NodeOf
<1>16. Found(P)'
  <2>1. /\ main.buf \in 1 .. nbuf /\ NodeOf(main.buf) = Nil /\ main.buf \notin pending
        /\ \A c \in Block : map[c] # main.buf
        /\ map[blockOf[main.buf]] = NoBuffer /\ main.buf \in Buffer
    BY <1>3, Buffers DEF Good, Found, Unknown, At, CacheTypeOK, Buffer
  <2>2. header'[main.buf] = header[main.buf] /\ main.buf # NoBuffer
    BY <1>2, <1>7, <2>1, Buffers
  <2>3. \A c \in Block : map'[c] # main.buf
    BY <1>8, <2>1, <2>2
  <2>4. map'[blockOf[main.buf]] = NoBuffer
    BY <1>8, <2>1
  <2> QED
    BY <1>3, <1>9, <2>1, <2>2, <2>3, <2>4 DEF Found, Unknown, At, NodeOf
<1> QED
  BY <1>1, <1>2, <1>7, <1>10, <1>11, <1>13, <1>15, <1>16 DEF Good

\* The new buffer enters the map, its update thread is still to run.
LEMMA PutGood ==
    ASSUME NEW N \in SUBSET Node, Good(N), Put
    PROVE  Good(N)'
<1>1. PICK x, b : x = main.buf /\ b = blockOf[main.buf]
  OBVIOUS
<1>2. /\ At("put") /\ map' = [map EXCEPT ![b] = x] /\ pending' = pending \union {x}
      /\ main' = Idle
      /\ UNCHANGED <<policyVars, blockOf, nbuf, hits, late>>
  BY <1>1 DEF Put
<1>3. UNCHANGED <<kind, deque, nnode, freed, header, clock, fault>>
  BY <1>2 DEF policyVars
<1>4. /\ x \in 1 .. nbuf /\ NodeOf(x) = Nil /\ map[b] = NoBuffer
      /\ \A c \in Block : map[c] # x
  BY <1>1, <1>2 DEF Good, Found, Unknown, At
<1>5. /\ nbuf \in 0 .. MaxBuffers /\ blockOf \in [Buffer -> Block]
      /\ map \in [Block -> Buffer \union {NoBuffer}]
  BY DEF Good, CacheTypeOK
<1>6. x \in Buffer /\ x # NoBuffer /\ b \in Block /\ b = blockOf[x]
  BY <1>1, <1>4, <1>5, Buffers DEF Buffer
<1>7. map'[b] = x /\ \A c \in Block \ {b} : map'[c] = map[c]
  BY <1>2, <1>5, <1>6
<1>8. CacheTypeOK'
  <2>1. Idle \in [pc: {"idle", "find", "value", "delete", "put"},
                  buf: Buffer \union {NoBuffer}, node: Pointer,
                  victim: Buffer \union {NoBuffer}]
    BY DEF Idle, Pointer
  <2> QED
    BY <1>2, <1>5, <1>6, <2>1 DEF Good, CacheTypeOK
<1>9. Held(N)'
  BY <1>2, SameHeld DEF Good
<1>10. MapIsRight'
  <2>1. ASSUME NEW c \in Block, map'[c] # NoBuffer
        PROVE  map'[c] \in 1 .. nbuf /\ blockOf[map'[c]] = c
    <3>1. CASE c = b
      BY <1>4, <1>6, <1>7, <3>1
    <3>2. CASE c # b
      BY <1>7, <2>1, <3>2 DEF Good, MapIsRight
    <3> QED
      BY <3>1, <3>2
  <2> QED
    BY <1>2, <2>1 DEF MapIsRight
<1>11. Matched(N)'
  <2>1. ASSUME NEW n \in N
        PROVE  /\ deque.value[n] \in Buffer
               /\ map'[blockOf[deque.value[n]]] = deque.value[n]
               /\ NodeOf(deque.value[n]) = n
    <3>1. PICK y : y = deque.value[n]
      OBVIOUS
    <3>2. y \in Buffer /\ map[blockOf[y]] = y /\ NodeOf(y) = n
      BY <3>1 DEF Good, Matched, IsCached
    <3>3. blockOf[y] # b /\ blockOf[y] \in Block
      BY <1>4, <1>5, <3>2, Buffers
    <3> QED
      BY <1>7, <3>1, <3>2, <3>3
  <2>2. ASSUME NEW c \in Block, map'[c] # NoBuffer
        PROVE  Placed(map'[c], N) /\ (NodeOf(map'[c]) = Nil => map'[c] \in pending')
    <3>1. CASE c = b
      BY <1>2, <1>4, <1>7, <3>1 DEF Placed
    <3>2. CASE c # b
      BY <1>2, <1>7, <2>2, <3>2 DEF Good, Matched
    <3> QED
      BY <3>1, <3>2
  <2>3. \A n \in N : /\ deque.value[n] \in Buffer
                     /\ map'[blockOf[deque.value[n]]] = deque.value[n]
                     /\ NodeOf(deque.value[n]) = n
    BY <2>1
  <2>4. \A c \in Block : map'[c] # NoBuffer =>
           Placed(map'[c], N) /\ (NodeOf(map'[c]) = Nil => map'[c] \in pending')
    BY <2>2
  <2> QED
    BY <1>2, <1>3, <2>3, <2>4 DEF Matched, NodeOf, IsCached, Placed
<1>12. NewBuffers'
  BY <1>2, <1>3, <1>4 DEF Good, NewBuffers, NodeOf
<1>13. Found(N)'
  BY <1>2 DEF Found, Unknown, At, Idle
<1> QED
  BY <1>8, <1>9, <1>10, <1>11, <1>12, <1>13 DEF Good
-----------------------------------------------------------------------------
(* Types in any case                                                        *)

\* A deque whose pointers need not be those of a list: they lead to the m
\* nodes allocated so far, all of which carry a buffer.
Loose(m) == [first: 0 .. m, last: 0 .. m, count: Int, next: [Node -> 0 .. m],
             previous: [Node -> 0 .. m], value: [Node -> Stored]]
Carrying(d, m) == d \in Loose(m) /\ \A n \in 1 .. m : d.value[n] \in Buffer

\* Links stay below m.
LEMMA LinkBelow ==
    ASSUME NEW m \in 0 .. MaxNodes, NEW f \in [Node -> 0 .. m],
           NEW n \in 0 .. m, NEW k \in 0 .. m
    PROVE  Link(f, n, k) \in [Node -> 0 .. m]
BY DEF Link

LEMMA LoosePop ==
    ASSUME NEW m \in 0 .. MaxNodes, NEW d, Carrying(d, m), NEW n \in 1 .. m
    PROVE  Carrying(PopAt(d, n), m) /\ PopAt(d, n).count = d.count - 1
<1>1. d \in Loose(m) /\ \A k \in 1 .. m : d.value[k] \in Buffer
  BY DEF Carrying
<1>2. n \in Node /\ n \in 0 .. m
  BY DequeAssumption DEF Node
<1>3. PICK p, q : p = d.previous[n] /\ q = d.next[n]
  OBVIOUS
<1>4. p \in 0 .. m /\ q \in 0 .. m
  BY <1>1, <1>2, <1>3 DEF Loose
<1>5. d.next \in [Node -> 0 .. m] /\ d.previous \in [Node -> 0 .. m] /\ d.count - 1 \in Int
  BY <1>1 DEF Loose
<1>6. PICK f, g, a, b : /\ f = Link(d.next, p, q) /\ g = Link(d.previous, q, p)
                        /\ a = (IF d.first = n THEN q ELSE d.first)
                        /\ b = (IF d.last = n THEN p ELSE d.last)
  OBVIOUS
<1>7. f \in [Node -> 0 .. m] /\ g \in [Node -> 0 .. m]
  BY <1>4, <1>5, <1>6, LinkBelow
<1>8. a \in 0 .. m /\ b \in 0 .. m
  BY <1>1, <1>4, <1>6 DEF Loose
<1>9. PopAt(d, n) = [d EXCEPT !.first = a, !.last = b, !.count = d.count - 1,
                              !.next = f, !.previous = g]
  BY <1>3, <1>6 DEF PopAt
<1>10. PopAt(d, n) \in Loose(m) /\ PopAt(d, n).count = d.count - 1 /\ PopAt(d, n).value = d.value
  BY <1>1, <1>5, <1>7, <1>8, <1>9 DEF Loose
<1> QED
  BY <1>1, <1>10 DEF Carrying

\* A new node n, first or last.
LEMMA LoosePush ==
    ASSUME NEW m \in 0 .. MaxNodes, NEW d, Carrying(d, m), NEW n, n = m + 1, n <= MaxNodes,
           NEW x \in Buffer
    PROVE  /\ Carrying(PushFirst(d, n, x), n) /\ PushFirst(d, n, x).count = d.count + 1
           /\ Carrying(PushLast(d, n, x), n) /\ PushLast(d, n, x).count = d.count + 1
<1>1. d \in Loose(m) /\ \A k \in 1 .. m : d.value[k] \in Buffer
  BY DEF Carrying
<1>2. /\ MaxNodes \in Nat /\ m \in Nat /\ n \in 0 .. MaxNodes /\ n \in Node /\ n # Nil
      /\ 0 \in 0 .. n /\ n \in 0 .. n /\ 0 .. m \subseteq 0 .. n
      /\ \A k \in 1 .. n : k = n \/ k \in 1 .. m
  BY DequeAssumption DEF Node
<1>3. /\ d.next \in [Node -> 0 .. n] /\ d.previous \in [Node -> 0 .. n]
      /\ d.first \in 0 .. n /\ d.last \in 0 .. n /\ d.count + 1 \in Int
      /\ d.value \in [Node -> Stored]
  BY <1>1, <1>2 DEF Loose
<1>4. PICK v : v = Link(d.value, n, x)
  OBVIOUS
<1>5. /\ v \in [Node -> Stored] /\ \A k \in 1 .. n : v[k] \in Buffer
  <2>1. v = [d.value EXCEPT ![n] = x] /\ 1 .. n \subseteq Node
    BY <1>2, <1>4 DEF Link, Node
  <2> QED
    BY <1>1, <1>2, <1>3, <2>1 DEF Stored
<1>6. PICK f1, f2, l1, l2, l3, l4, z :
         /\ f1 = Fresh(d.next, n) /\ f2 = Fresh(d.previous, n)
         /\ z = (IF d.count = 0 THEN Nil ELSE d.first)
         /\ l1 = Link(d.next, n, z)
         /\ l2 = (IF d.count = 0 THEN f2 ELSE Link(f2, d.first, n))
         /\ l3 = (IF d.count = 0 THEN f1 ELSE Link(f1, d.last, n))
         /\ l4 = Link(d.previous, n, IF d.count = 0 THEN Nil ELSE d.last)
  OBVIOUS
<1>7. f1 \in [Node -> 0 .. n] /\ f2 \in [Node -> 0 .. n]
  BY <1>2, <1>3, <1>6, LinkBelow DEF Fresh
<1>8. /\ l1 \in [Node -> 0 .. n] /\ l2 \in [Node -> 0 .. n]
      /\ l3 \in [Node -> 0 .. n] /\ l4 \in [Node -> 0 .. n]
  BY <1>2, <1>3, <1>6, <1>7, LinkBelow
<1>9. PICK e, g : e = PushFirst(d, n, x) /\ g = PushLast(d, n, x)
  OBVIOUS
<1>10. e = [d EXCEPT !.first = n, !.last = IF d.count = 0 THEN n ELSE d.last,
                     !.count = d.count + 1, !.next = l1, !.previous = l2, !.value = v]
  BY <1>4, <1>6, <1>9 DEF PushFirst
<1>11. g = [d EXCEPT !.first = IF d.count = 0 THEN n ELSE d.first, !.last = n,
                     !.count = d.count + 1, !.next = l3, !.previous = l4, !.value = v]
  BY <1>4, <1>6, <1>9 DEF PushLast
<1>12. e \in Loose(n) /\ e.count = d.count + 1 /\ e.value = v
  BY <1>1, <1>2, <1>3, <1>5, <1>8, <1>10 DEF Loose
<1>13. g \in Loose(n) /\ g.count = d.count + 1 /\ g.value = v
  BY <1>1, <1>2, <1>3, <1>5, <1>8, <1>11 DEF Loose
<1> QED
  BY <1>5, <1>9, <1>12, <1>13 DEF Carrying

LEMMA LooseSwitch ==
    ASSUME NEW m \in 0 .. MaxNodes, NEW d, Carrying(d, m), NEW n \in 1 .. m, NEW k \in 1 .. m
    PROVE  Carrying(SwitchNode(d, n, k), m) /\ SwitchNode(d, n, k).count = d.count
<1>1. d \in Loose(m) /\ \A j \in 1 .. m : d.value[j] \in Buffer
  BY DEF Carrying
<1>2. n \in Node /\ n \in 0 .. m /\ k \in Node /\ k \in 0 .. m
  BY DequeAssumption DEF Node
<1>3. PICK dp, dn, sp, sn : /\ dp = d.previous[n] /\ dn = d.next[n]
                            /\ sp = d.previous[k] /\ sn = d.next[k]
  OBVIOUS
<1>4. dp \in 0 .. m /\ dn \in 0 .. m /\ sp \in 0 .. m /\ sn \in 0 .. m
  BY <1>1, <1>2, <1>3 DEF Loose
<1>5. d.next \in [Node -> 0 .. m] /\ d.previous \in [Node -> 0 .. m]
  BY <1>1 DEF Loose
<1>6. PICK f1, f2, f3, f4 :
         /\ f1 = Link(d.next, dp, k) /\ f2 = Link(f1, k, sp) /\ f3 = Link(f2, sp, n)
         /\ f4 = Link(f3, n, sn)
  OBVIOUS
<1>7. f4 \in [Node -> 0 .. m]
  BY <1>2, <1>4, <1>5, <1>6, LinkBelow
<1>8. PICK g1, g2, g3, g4 :
         /\ g1 = Link(d.previous, dn, k) /\ g2 = Link(g1, k, dp) /\ g3 = Link(g2, sn, n)
         /\ g4 = Link(g3, n, dn)
  OBVIOUS
<1>9. g4 \in [Node -> 0 .. m]
  BY <1>2, <1>4, <1>5, <1>8, LinkBelow
<1>10. PICK a, b : a = SwitchedFirst(d, n, k) /\ b = SwitchedLast(d, n, k)
  OBVIOUS
<1>11. a \in 0 .. m /\ b \in 0 .. m
  BY <1>1, <1>2, <1>10 DEF SwitchedFirst, SwitchedLast, Loose
<1>12. PICK e : e = SwitchNode(d, n, k)
  OBVIOUS
<1>13. e = [d EXCEPT !.first = a, !.last = b, !.next = f4, !.previous = g4]
  BY <1>3, <1>6, <1>8, <1>10, <1>12 DEF SwitchNode
<1>14. e \in Loose(m) /\ e.count = d.count /\ e.value = d.value
  BY <1>1, <1>7, <1>9, <1>11, <1>13 DEF Loose
<1> QED
  BY <1>1, <1>12, <1>14 DEF Carrying

LEMMA LooseMoved ==
    ASSUME NEW m \in 0 .. MaxNodes, NEW d, Carrying(d, m), NEW n \in 1 .. m, NEW own, NEW rank
    PROVE  /\ Carrying(Moved(d, n, own, rank), m)
           /\ Moved(d, n, own, rank).count = d.count
<1> DEFINE D == {e \in Loose(m) : Carrying(e, m) /\ e.count = d.count}
<1>1. ASSUME NEW e \in D, Movable(e, n, own, rank)
      PROVE  SwitchNode(e, n, e.next[n]) \in D
  <2>1. e \in Loose(m) /\ Carrying(e, m) /\ e.count = d.count
    OBVIOUS
  <2>2. e.next[n] # Nil
    BY <1>1 DEF Movable
  <2>3. n \in Node
    BY DequeAssumption DEF Node
  <2>4. PICK k : k = e.next[n]
    OBVIOUS
  <2>5. k \in 1 .. m
    BY <2>1, <2>2, <2>3, <2>4 DEF Loose
  <2>6. PICK u : u = SwitchNode(e, n, k)
    OBVIOUS
  <2>7. Carrying(u, m) /\ u.count = e.count
    BY <2>1, <2>5, <2>6, LooseSwitch
  <2> QED
    BY <2>1, <2>4, <2>6, <2>7 DEF Carrying
<1>2. d \in D
  BY DEF Carrying
<1>3. \A e \in D : Turn(e, n, own, rank) \in D
  BY <1>1 DEF Turn
<1> HIDE DEF D
<1>4. Moved(d, n, own, rank) \in D
  BY <1>2, <1>3, MovedStays
<1> QED
  BY <1>4 DEF D

\* The buffers of the map that have a node.
Known == {b \in Block : map[b] # NoBuffer /\ NodeOf(map[b]) # Nil}

\* What main holds that a thread may have outdated.
Loosely ==
    /\ main.node <= nnode
    /\ At("value") => main.node # Nil
    /\ At("delete") => main.victim \in Buffer

\* What holds of the policies' types in any case.  The deque counts every
\* cached buffer that has a node, and perhaps others.
Typed ==
    /\ TypeOK
    /\ Carrying(deque, nnode)
    /\ \A x \in Buffer : NodeOf(x) <= nnode
    /\ Cardinality(Known) <= deque.count
    /\ MapIsRight /\ NewBuffers /\ Unknown /\ Loosely

\* A step of a policy that touches the header of x only, and leaves at least
\* c nodes counted.
Touches(x, c) ==
    /\ nnode' \in nnode .. MaxNodes /\ Carrying(deque', nnode') /\ deque'.count >= c
    /\ freed' \in SUBSET (1 .. nnode')
    /\ header' \in [Buffer -> Header] /\ header'[x].node <= nnode'
    /\ \A y \in Buffer \ {x} : header'[y] = header[y]
    /\ kind' = kind /\ clock' \in 0 .. MaxTime /\ fault' \in BOOLEAN

LEMMA TypedFacts ==
    ASSUME Typed
    PROVE  /\ MaxNodes \in Nat /\ nnode \in 0 .. MaxNodes /\ nnode \in nnode .. MaxNodes
           /\ Carrying(deque, nnode) /\ deque.count \in Nat /\ freed \in SUBSET (1 .. nnode)
           /\ header \in [Buffer -> Header] /\ \A x \in Buffer : NodeOf(x) \in 0 .. nnode
           /\ clock \in 0 .. MaxTime /\ fault \in BOOLEAN
<1>1. /\ MaxNodes \in Nat /\ nnode \in 0 .. MaxNodes /\ deque \in Deque(Stored)
      /\ freed \in SUBSET (1 .. nnode)
      /\ header \in [Buffer -> Header] /\ clock \in 0 .. MaxTime /\ fault \in BOOLEAN
      /\ Carrying(deque, nnode)
  BY DequeAssumption DEF Typed, TypeOK, PolicyTypeOK, Stored
<1>2. \A x \in Buffer : NodeOf(x) \in Nat /\ NodeOf(x) <= nnode
  BY <1>1 DEF Typed, Header, Pointer, Node, NodeOf
<1>3. deque.count \in Nat
  BY <1>1 DEF Deque
<1> QED
  BY <1>1, <1>2, <1>3

\* A fault changes nothing else.
LEMMA FaultTouches ==
    ASSUME Typed, NEW x \in Buffer, Fault
    PROVE  Touches(x, deque.count) /\ NodeOf(x)' = NodeOf(x)
BY TypedFacts DEF Fault, Touches, NodeOf

\* An access adds the node of a buffer that had none.
LEMMA AccessTouches ==
    ASSUME Typed, NEW x \in Buffer, UpdateAccessInfo(x)
    PROVE  \E c \in Nat : /\ Touches(x, c) /\ c >= deque.count
                          /\ NodeOf(x) = Nil /\ NodeOf(x)' # Nil => c = deque.count + 1
<1>1. /\ MaxNodes \in Nat /\ nnode \in 0 .. MaxNodes /\ nnode \in nnode .. MaxNodes
      /\ Carrying(deque, nnode) /\ deque.count \in Nat /\ freed \in SUBSET (1 .. nnode)
      /\ header \in [Buffer -> Header] /\ NodeOf(x) \in 0 .. nnode
      /\ clock \in 0 .. MaxTime /\ fault \in BOOLEAN
  BY TypedFacts
<1>2. PICK d, k, h, m : d = deque /\ k = NodeOf(x) /\ h = header[x] /\ m = nnode
  OBVIOUS
<1>3. /\ h \in Header /\ h.node = k /\ k \in 0 .. m /\ Carrying(d, m) /\ d.count \in Nat
      /\ m \in 0 .. MaxNodes
  BY <1>1, <1>2 DEF NodeOf
<1>4. ASSUME Allocate
      PROVE  /\ New = m + 1 /\ New <= MaxNodes /\ New \in Nat /\ nnode' = m + 1
             /\ nnode' \in nnode .. MaxNodes /\ 1 .. m \subseteq 1 .. m + 1
             /\ New # Nil /\ New \in Pointer
  BY <1>1, <1>2, <1>4 DEF Allocate, New, Pointer, Node
<1>5. CASE Fault
  BY <1>1, <1>5, FaultTouches
<1>6. CASE FIFOUpdate(x) /\ ~Fault
  <2>1. /\ Allocate
        /\ deque' = PushLast(IF k = Nil THEN d ELSE PopAt(d, k), New, x)
        /\ freed' = freed \union FreedBy(x)
        /\ SetHeader(x, [h EXCEPT !.node = New])
        /\ UNCHANGED <<kind, clock, fault>>
    BY <1>2, <1>6 DEF FIFOUpdate
  <2>2. PICK e, g, n : /\ e = (IF k = Nil THEN d ELSE PopAt(d, k)) /\ n = New
                       /\ g = PushLast(e, n, x)
    OBVIOUS
  <2>3. Carrying(e, m) /\ e.count = IF k = Nil THEN d.count ELSE d.count - 1
    <3>1. CASE k = Nil
      BY <1>3, <2>2, <3>1
    <3>2. CASE k # Nil
      BY <1>3, <2>2, <3>2, LoosePop
    <3> QED
      BY <3>1, <3>2
  <2>4. Carrying(g, n) /\ g.count = e.count + 1
    BY <1>3, <1>4, <2>1, <2>2, <2>3, LoosePush
  <2>5. deque' = g /\ nnode' = n
    BY <1>4, <2>1, <2>2
  <2>6. /\ [h EXCEPT !.node = New] \in Header
        /\ header' = [header EXCEPT ![x] = [h EXCEPT !.node = New]]
    BY <1>3, <1>4, <2>1 DEF Header, SetHeader
  <2>7. /\ header' \in [Buffer -> Header] /\ header'[x].node = n
        /\ \A y \in Buffer \ {x} : header'[y] = header[y]
    BY <1>1, <1>3, <2>2, <2>6 DEF Header
  <2>8. freed' \in SUBSET (1 .. nnode')
    BY <1>1, <1>2, <1>4, <2>1 DEF FreedBy
  <2>9. g.count = d.count + IF k = Nil THEN 1 ELSE 0
    BY <1>3, <2>3, <2>4
  <2>10. Touches(x, g.count)
    BY <1>1, <1>3, <1>4, <2>1, <2>2, <2>4, <2>5, <2>7, <2>8, <2>9 DEF Touches
  <2> QED
    BY <1>2, <1>3, <2>9, <2>10
<1>7. ASSUME NEW own, NEW rank, NEW f \in Header, f.node = k, k # Nil,
             deque' = Moved(deque, NodeOf(x), own, rank), SetHeader(x, f),
             UNCHANGED <<kind, nnode, freed, fault>>, clock' \in 0 .. MaxTime
      PROVE  Touches(x, d.count)
  <2>1. PICK e : e = Moved(d, k, own, rank)
    OBVIOUS
  <2>2. k \in 1 .. m
    BY <1>3, <1>7
  <2>3. Carrying(e, m) /\ e.count = d.count
    BY <1>3, <2>1, <2>2, LooseMoved
  <2>4. /\ header' \in [Buffer -> Header] /\ header'[x].node = k
        /\ \A y \in Buffer \ {x} : header'[y] = header[y]
    BY <1>1, <1>7 DEF SetHeader
  <2>5. deque' = e /\ nnode' = m
    BY <1>2, <1>7, <2>1
  <2> QED
    BY <1>1, <1>2, <1>3, <1>7, <2>3, <2>4, <2>5 DEF Touches
<1>8. ASSUME NEW e, Carrying(e, m + 1), e.count = d.count + 1, deque' = e,
             NEW f \in Header, SetHeader(x, [f EXCEPT !.node = New]), Allocate,
             UNCHANGED <<kind, freed, fault>>, clock' \in 0 .. MaxTime
      PROVE  Touches(x, d.count + 1)
  <2>1. [f EXCEPT !.node = New] \in Header /\ [f EXCEPT !.node = New].node = New
    BY <1>4, <1>8 DEF Header
  <2>2. /\ header' \in [Buffer -> Header] /\ header'[x].node = New
        /\ \A y \in Buffer \ {x} : header'[y] = header[y]
    BY <1>1, <1>8, <2>1 DEF SetHeader
  <2>3. freed' \in SUBSET (1 .. nnode') /\ New <= nnode'
    BY <1>1, <1>2, <1>4, <1>8
  <2>4. Carrying(deque', nnode')
    BY <1>4, <1>8
  <2> QED
    BY <1>1, <1>3, <1>4, <1>8, <2>2, <2>3, <2>4 DEF Touches
<1>9. CASE LFUUpdate(x) /\ ~Fault
  <2>1. PICK f, own, rank : /\ f = [header[x] EXCEPT !.count = @ + 1]
                            /\ own = f.count
                            /\ rank = [y \in Buffer |-> IF y = x THEN f.count
                                                        ELSE header[y].count]
    OBVIOUS
  <2>2. f \in Header /\ f.node = k
    BY <1>2, <1>3, <2>1 DEF Header
  <2>3. CASE k # Nil
    <3>1. LET g == [header[x] EXCEPT !.count = @ + 1]
              r == [y \in Buffer |-> IF y = x THEN g.count ELSE header[y].count]
          IN /\ deque' = Moved(deque, NodeOf(x), g.count, r)
             /\ SetHeader(x, g)
             /\ UNCHANGED <<kind, nnode, freed, clock, fault>>
      BY <1>2, <1>9, <2>3 DEF LFUUpdate
    <3>2. /\ deque' = Moved(deque, NodeOf(x), own, rank) /\ SetHeader(x, f)
          /\ UNCHANGED <<kind, nnode, freed, clock, fault>>
      BY <2>1, <3>1
    <3>3. Touches(x, d.count)
      BY <1>1, <1>7, <2>2, <2>3, <3>2
    <3> QED
      BY <1>2, <1>3, <2>3, <3>3
  <2>4. CASE k = Nil
    <3>1. LET g == [header[x] EXCEPT !.count = @ + 1]
              r == [y \in Buffer |-> IF y = x THEN g.count ELSE header[y].count]
          IN /\ Allocate
             /\ deque' = Moved(PushFirst(deque, New, x), New, g.count, r)
             /\ SetHeader(x, [g EXCEPT !.node = New])
             /\ UNCHANGED <<kind, freed, clock, fault>>
      BY <1>2, <1>9, <2>4 DEF LFUUpdate
    <3>2. PICK n, u, e : n = New /\ u = PushFirst(d, n, x) /\ e = Moved(u, n, own, rank)
      OBVIOUS
    <3>3. /\ Allocate /\ deque' = e /\ SetHeader(x, [f EXCEPT !.node = New])
          /\ UNCHANGED <<kind, freed, clock, fault>>
      BY <1>2, <2>1, <3>1, <3>2
    <3>4. n = m + 1 /\ n <= MaxNodes /\ n \in 0 .. MaxNodes /\ n \in 1 .. n
      BY <1>3, <1>4, <3>2, <3>3
    <3>5. Carrying(u, n) /\ u.count = d.count + 1
      BY <1>3, <3>2, <3>4, LoosePush
    <3>6. Carrying(e, n) /\ e.count = u.count
      BY <3>2, <3>4, <3>5, LooseMoved
    <3>7. Touches(x, d.count + 1)
      BY <1>1, <1>8, <2>2, <3>3, <3>4, <3>5, <3>6
    <3> QED
      BY <1>2, <1>3, <3>7
  <2> QED
    BY <2>3, <2>4
<1>10. CASE LRUUpdate(x) /\ ~Fault
  <2>1. PICK f, rank : /\ f = [header[x] EXCEPT !.stamp = clock']
                       /\ rank = [y \in Buffer |-> (IF y = x THEN clock' ELSE header[y].stamp)
                                                      % StampModulus]
    OBVIOUS
  <2>2. clock' \in 0 .. MaxTime /\ clock' \in Nat
    BY <1>1, <1>10, PolicyAssumption DEF LRUUpdate
  <2>3. f \in Header /\ f.node = k
    BY <1>2, <1>3, <2>1, <2>2 DEF Header
  <2>4. UNCHANGED <<kind, freed, fault>>
    BY <1>10 DEF LRUUpdate
  <2>5. CASE k # Nil
    <3>1. /\ deque' = Moved(deque, NodeOf(x), rank[x], rank) /\ SetHeader(x, f)
          /\ UNCHANGED nnode
      BY <1>2, <1>10, <2>1, <2>5 DEF LRUUpdate
    <3>2. Touches(x, d.count)
      BY <1>7, <2>2, <2>3, <2>4, <2>5, <3>1
    <3> QED
      BY <1>2, <1>3, <2>5, <3>2
  <2>6. CASE k = Nil
    <3>1. /\ Allocate /\ deque' = PushLast(deque, New, x)
          /\ SetHeader(x, [f EXCEPT !.node = New])
      BY <1>2, <1>10, <2>1, <2>6 DEF LRUUpdate
    <3>2. PICK n, e : n = New /\ e = PushLast(d, n, x)
      OBVIOUS
    <3>3. n = m + 1 /\ n <= MaxNodes
      BY <1>4, <3>1, <3>2
    <3>4. Carrying(e, n) /\ e.count = d.count + 1
      BY <1>3, <3>2, <3>3, LoosePush
    <3>5. deque' = e
      BY <1>2, <3>1, <3>2
    <3>6. Touches(x, d.count + 1)
      BY <1>8, <2>2, <2>3, <2>4, <3>1, <3>3, <3>4, <3>5
    <3> QED
      BY <1>2, <1>3, <3>6
  <2> QED
    BY <2>5, <2>6
<1> QED
  BY <1>5, <1>6, <1>9, <1>10 DEF UpdateAccessInfo

\* A deletion takes the node of a buffer that had one.
LEMMA DeleteTouches ==
    ASSUME Typed, NEW x \in Buffer, DeleteAt(x)
    PROVE  Touches(x, deque.count - IF NodeOf(x) = Nil THEN 0 ELSE 1)
<1>1. /\ MaxNodes \in Nat /\ nnode \in 0 .. MaxNodes /\ nnode \in nnode .. MaxNodes
      /\ Carrying(deque, nnode) /\ deque.count \in Nat /\ freed \in SUBSET (1 .. nnode)
      /\ header \in [Buffer -> Header] /\ NodeOf(x) \in 0 .. nnode
      /\ clock \in 0 .. MaxTime /\ fault \in BOOLEAN
  BY TypedFacts
<1>2. CASE Fault
  <2>1. Touches(x, deque.count)
    BY <1>2, FaultTouches
  <2>2. deque'.count = deque.count
    BY <1>2 DEF Fault
  <2> QED
    BY <1>1, <2>1, <2>2 DEF Touches
<1>3. CASE UNCHANGED policyVars /\ NodeOf(x) = Nil
  <2>1. UNCHANGED <<kind, deque, nnode, freed, header, clock, fault>>
    BY <1>3 DEF policyVars
  <2> QED
    BY <1>1, <1>3, <2>1 DEF Touches, NodeOf
<1>4. ASSUME NodeOf(x) # Nil, NEW n \in 0 .. nnode, TakeOut(x, n)
      PROVE  Touches(x, deque.count - 1)
  <2>1. PICK d, k, m : d = deque /\ k = NodeOf(x) /\ m = nnode
    OBVIOUS
  <2>2. Carrying(d, m) /\ k \in 1 .. m /\ m \in 0 .. MaxNodes
    BY <1>1, <1>4, <2>1
  <2>3. PICK e : e = PopAt(d, k)
    OBVIOUS
  <2>4. Carrying(e, m) /\ e.count = d.count - 1
    BY <2>2, <2>3, LoosePop
  <2>5. /\ deque' = e /\ header' = [header EXCEPT ![x] = [header[x] EXCEPT !.node = n]]
        /\ UNCHANGED <<kind, nnode, freed, clock, fault>>
    BY <1>4, <2>1, <2>3 DEF TakeOut, SetHeader
  <2>6. [header[x] EXCEPT !.node = n] \in Header /\ [header[x] EXCEPT !.node = n].node = n
    BY <1>1 DEF Header, Pointer, Node
  <2>7. /\ header' \in [Buffer -> Header] /\ header'[x].node = n
        /\ \A y \in Buffer \ {x} : header'[y] = header[y]
    BY <1>1, <2>5, <2>6
  <2> QED
    BY <1>1, <2>1, <2>4, <2>5, <2>7 DEF Touches
<1>5. ASSUME NodeOf(x) # Nil PROVE FirstLeft(x) \in 0 .. nnode
  <2>1. PICK d, k, m : d = deque /\ k = NodeOf(x) /\ m = nnode
    OBVIOUS
  <2>2. Carrying(d, m) /\ k \in 1 .. m /\ m \in 0 .. MaxNodes
    BY <1>1, <1>5, <2>1
  <2>3. PICK e : e = PopAt(d, k)
    OBVIOUS
  <2>4. Carrying(e, m)
    BY <2>2, <2>3, LoosePop
  <2>5. e.first \in 0 .. m
    BY <2>4 DEF Carrying, Loose
  <2> QED
    BY <2>1, <2>3, <2>5 DEF FirstLeft
<1>6. CASE NodeOf(x) # Nil /\ (TakeOut(x, FirstLeft(x)) \/ TakeOut(x, NodeOf(x)))
  <2>1. PICK n \in 0 .. nnode : TakeOut(x, n)
    BY <1>1, <1>5, <1>6
  <2> QED
    BY <1>4, <1>6, <2>1
<1> QED
  BY <1>2, <1>3, <1>6 DEF DeleteAt, FIFODeleteAt, LFUDeleteAt, LRUDeleteAt

LEMMA KnownFinite == IsFiniteSet(Known) /\ Cardinality(Known) \in Nat
<1>1. IsFiniteSet(0 .. TotalN - 1)
  BY PolicyCacheAssumption, FS_Interval
<1>2. Known \subseteq 0 .. TotalN - 1
  BY DEF Known, Block
<1> QED
  BY <1>1, <1>2, FS_Subset, FS_CardinalityType

\* The types that do not change, after a step of a policy.
LEMMA TouchedTypes ==
    ASSUME Typed, NEW x \in Buffer, NEW c \in Nat, Touches(x, c), CacheTypeOK',
           Cardinality(Known)' <= deque'.count
    PROVE  /\ TypeOK' /\ Carrying(deque, nnode)' /\ \A y \in Buffer : NodeOf(y)' <= nnode'
           /\ nnode' >= nnode
<1>1. /\ MaxNodes \in Nat /\ nnode \in 0 .. MaxNodes /\ kind \in {"FIFO", "LFU", "LRU"}
      /\ \A y \in Buffer : NodeOf(y) \in 0 .. nnode
  BY TypedFacts DEF Typed, TypeOK, PolicyTypeOK
<1>2. nnode' \in 0 .. MaxNodes /\ nnode' >= nnode /\ Carrying(deque', nnode')
  BY <1>1 DEF Touches
<1>3. deque'.count \in Nat
  <2>1. deque'.count \in Int /\ deque'.count >= c
    BY <1>2 DEF Touches, Carrying, Loose
  <2> QED
    BY <2>1
<1>4. deque' \in Deque(Stored)
  <2>1. 0 .. nnode' \subseteq Pointer
    BY <1>1, <1>2 DEF Pointer, Node
  <2> QED
    BY <1>2, <1>3, <2>1 DEF Carrying, Loose, Deque
<1>5. PolicyTypeOK'
  BY <1>1, <1>2, <1>4 DEF Touches, PolicyTypeOK, Stored
<1>6. ASSUME NEW y \in Buffer PROVE NodeOf(y)' <= nnode'
  <2>1. CASE y = x
    BY <2>1 DEF Touches, NodeOf
  <2>2. CASE y # x
    <3>1. header'[y] = header[y]
      BY <2>2 DEF Touches
    <3> QED
      BY <1>1, <1>2, <3>1 DEF NodeOf
  <2> QED
    BY <2>1, <2>2
<1> QED
  BY <1>2, <1>5, <1>6 DEF TypeOK

\* An access of a buffer everybody may know (Hit and UpdateThread).
LEMMA AccessTyped ==
    ASSUME Typed, NEW x \in 1 .. nbuf, UpdateAccessInfo(x), At("idle") \/ x # main.buf,
           UNCHANGED <<map, blockOf, nbuf, main>>, pending' \subseteq pending,
           hits' \in 0 .. MaxHits, late' \in BOOLEAN
    PROVE  Typed'
<1>1. /\ CacheTypeOK /\ MapIsRight /\ NewBuffers /\ Unknown /\ Loosely
      /\ Cardinality(Known) <= deque.count
  BY DEF Typed, TypeOK
<1>2. x \in Buffer /\ Buffer \subseteq Nat /\ nbuf \in Nat
  BY <1>1, Buffers DEF CacheTypeOK, Buffer
<1>3. PICK c \in Nat : /\ Touches(x, c) /\ c >= deque.count
                       /\ NodeOf(x) = Nil /\ NodeOf(x)' # Nil => c = deque.count + 1
  BY <1>2, AccessTouches
<1>4. \A y \in Buffer \ {x} : header'[y] = header[y] /\ NodeOf(y)' = NodeOf(y)
  BY <1>3 DEF Touches, NodeOf
<1>5. CacheTypeOK'
  BY <1>1 DEF CacheTypeOK
<1>6. \A b \in Block : map[b] # NoBuffer => map[b] \in Buffer /\ blockOf[map[b]] = b
  BY <1>1, Buffers DEF CacheTypeOK, MapIsRight
<1>7. deque.count \in Nat /\ deque'.count \in Int /\ deque'.count >= c
  BY <1>3, TypedFacts DEF Touches, Carrying, Loose
<1>8. Cardinality(Known)' <= deque'.count
  <2>1. PICK S, T, b : S = Known /\ T = Known' /\ b = blockOf[x]
    OBVIOUS
  <2>2. ASSUME NEW a \in T PROVE a \in S \/ (a = b /\ NodeOf(x) = Nil /\ NodeOf(x)' # Nil)
    <3>1. a \in Block /\ map[a] # NoBuffer /\ NodeOf(map[a])' # Nil
      BY <2>1 DEF Known, NodeOf
    <3>2. CASE map[a] = x
      BY <1>6, <2>1, <3>1, <3>2 DEF Known
    <3>3. CASE map[a] # x
      BY <1>4, <1>6, <2>1, <3>1, <3>3 DEF Known
    <3> QED
      BY <3>2, <3>3
  <2>3. IsFiniteSet(S) /\ Cardinality(S) \in Nat /\ Cardinality(S) <= deque.count
    BY <1>1, <2>1, KnownFinite
  <2>4. CASE NodeOf(x) = Nil /\ NodeOf(x)' # Nil
    <3>1. T \subseteq S \union {b}
      BY <2>2
    <3>2. /\ IsFiniteSet(S \union {b})
          /\ Cardinality(S \union {b}) = Cardinality(S) \/
             Cardinality(S \union {b}) = Cardinality(S) + 1
      BY <2>3, FS_AddElement
    <3>3. Cardinality(T) <= Cardinality(S \union {b}) /\ Cardinality(T) \in Nat
      BY <3>1, <3>2, FS_Subset, FS_CardinalityType
    <3> QED
      BY <1>3, <1>7, <2>1, <2>3, <2>4, <3>2, <3>3
  <2>5. CASE ~(NodeOf(x) = Nil /\ NodeOf(x)' # Nil)
    <3>1. T \subseteq S
      BY <2>2, <2>5
    <3>2. Cardinality(T) <= Cardinality(S) /\ Cardinality(T) \in Nat
      BY <2>3, <3>1, FS_Subset, FS_CardinalityType
    <3> QED
      BY <1>3, <1>7, <2>1, <2>3, <3>2
  <2> QED
    BY <2>4, <2>5
<1>9. /\ TypeOK' /\ Carrying(deque, nnode)' /\ \A y \in Buffer : NodeOf(y)' <= nnode'
      /\ nnode' >= nnode
  BY <1>2, <1>3, <1>5, <1>8, TouchedTypes
<1>10. MapIsRight'
  BY <1>1 DEF MapIsRight
<1>11. NewBuffers'
  <2>1. \A y \in Buffer : y > nbuf => y # x
    BY <1>2
  <2> QED
    BY <1>1, <1>4, <2>1 DEF NewBuffers
<1>12. Unknown'
  <2>1. ASSUME ~At("idle") PROVE main.buf \in Buffer \ {x}
    BY <1>1, <1>2, <2>1, Buffers DEF Unknown, CacheTypeOK, Buffer
  <2> QED
    BY <1>1, <1>4, <2>1 DEF Unknown, At
<1>13. Loosely'
  <2>1. main.node \in Nat /\ nnode \in Nat /\ nnode' \in Nat
    BY <1>1, <1>9, TypedFacts DEF CacheTypeOK, Pointer, Node, TypeOK, PolicyTypeOK
  <2> QED
    BY <1>1, <1>9, <2>1 DEF Loosely, At
<1> QED
  BY <1>8, <1>9, <1>10, <1>11, <1>12, <1>13 DEF Typed

\* A step in which the policies do nothing, or fault.
LEMMA RestTyped ==
    ASSUME Typed, UNCHANGED policyVars \/ Fault, CacheTypeOK', MapIsRight', NewBuffers',
           Unknown', Loosely', Known' \subseteq Known
    PROVE  Typed'
<1>1. UNCHANGED <<kind, deque, nnode, freed, header, clock>> /\ fault' \in BOOLEAN
  BY TypedFacts DEF policyVars, Fault
<1>2. TypeOK' /\ Carrying(deque, nnode)' /\ \A y \in Buffer : NodeOf(y)' <= nnode'
  BY <1>1 DEF Typed, TypeOK, PolicyTypeOK, NodeOf
<1>3. Cardinality(Known)' <= deque'.count
  <2>1. PICK S, T : S = Known /\ T = Known'
    OBVIOUS
  <2>2. IsFiniteSet(S) /\ Cardinality(S) \in Nat /\ Cardinality(S) <= deque.count
    BY <2>1, KnownFinite DEF Typed
  <2>3. Cardinality(T) <= Cardinality(S) /\ Cardinality(T) \in Nat
    BY <2>1, <2>2, FS_Subset, FS_CardinalityType
  <2>4. deque.count \in Nat
    BY TypedFacts
  <2> QED
    BY <1>1, <2>1, <2>2, <2>3, <2>4
<1> QED
  BY <1>2, <1>3 DEF Typed

\* The empty cache.
LEMMA InitTyped == Init => Typed
<1> SUFFICES ASSUME Init PROVE Typed
  OBVIOUS
<1>1. Good({})
  BY InitGood
<1>2. TypeOK /\ MapIsRight /\ NewBuffers /\ Unknown
  BY <1>1 DEF Good, Held, TypeOK, Found
<1>3. nnode = 0 /\ deque = NewDeque(NoBuffer) /\ main = Idle
  BY DEF Init, PolicyInit
<1>4. Carrying(deque, nnode)
  <2>1. NewDeque(NoBuffer) \in Loose(0)
    BY DEF NewDeque, Loose, Stored
  <2>2. 1 .. 0 = {}
    OBVIOUS
  <2> QED
    BY <1>3, <2>1, <2>2 DEF Carrying
<1>5. \A x \in Buffer : NodeOf(x) <= nnode
  BY DEF Init, PolicyInit, NodeOf
<1>6. Cardinality(Known) <= deque.count
  <2>1. Known = {}
    BY DEF Known, Init
  <2>2. Cardinality(Known) = 0
    BY <2>1, FS_EmptySet
  <2> QED
    BY <1>3, <2>2 DEF NewDeque
<1>7. Loosely
  BY <1>3 DEF Loosely, At, Idle
<1> QED
  BY <1>2, <1>4, <1>5, <1>6, <1>7 DEF Typed

LEMMA HitTyped ==
    ASSUME Typed, NEW b \in Block, Hit(b)
    PROVE  Typed'
<1>1. /\ At("idle") /\ map[b] # NoBuffer /\ hits < MaxHits /\ hits' = hits + 1
      /\ UpdateAccessInfo(map[b])
      /\ UNCHANGED <<map, blockOf, nbuf, pending, main, late>>
  BY DEF Hit
<1>2. PICK x : x = map[b]
  OBVIOUS
<1>3. x \in 1 .. nbuf /\ late' \in BOOLEAN
  BY <1>1, <1>2 DEF Typed, MapIsRight, TypeOK, CacheTypeOK
<1>4. hits' \in 0 .. MaxHits
  BY <1>1, PolicyCacheAssumption DEF Typed, TypeOK, CacheTypeOK
<1> QED
  BY <1>1, <1>2, <1>3, <1>4, AccessTyped

LEMMA UpdateThreadTyped ==
    ASSUME Typed, NEW x \in pending, UpdateThread(x)
    PROVE  Typed'
<1>1. /\ pending' = pending \ {x} /\ UpdateAccessInfo(x)
      /\ late' = (late \/ ~IsCached(x)) /\ UNCHANGED <<map, blockOf, nbuf, main, hits>>
  BY DEF UpdateThread
<1>2. /\ x \in 1 .. nbuf /\ hits' \in 0 .. MaxHits /\ late' \in BOOLEAN
      /\ At("idle") \/ x # main.buf
  BY <1>1 DEF Typed, NewBuffers, Unknown, TypeOK, CacheTypeOK
<1> QED
  BY <1>1, <1>2, AccessTyped

LEMMA MissTyped ==
    ASSUME Typed, NEW b \in Block, Miss(b)
    PROVE  Typed'
<1>1. /\ At("idle") /\ map[b] = NoBuffer /\ nbuf < MaxBuffers /\ nbuf' = nbuf + 1
      /\ blockOf' = [blockOf EXCEPT ![nbuf + 1] = b]
      /\ main' = [Idle EXCEPT !.pc = IF Cardinality(Cached) >= Capacity THEN "find"
                                                                        ELSE "put",
                              !.buf = nbuf + 1]
      /\ UNCHANGED <<policyVars, map, pending, hits, late>>
  BY DEF Miss
<1>2. /\ CacheTypeOK /\ MapIsRight /\ NewBuffers /\ Loosely
  BY DEF Typed, TypeOK
<1>3. PICK x : x = nbuf + 1
  OBVIOUS
<1>4. x \in Buffer /\ nbuf' \in 0 .. MaxBuffers /\ x \in 1 .. nbuf' /\ x \notin 1 .. nbuf
      /\ x # NoBuffer
  BY <1>1, <1>2, <1>3, Buffers DEF CacheTypeOK, Buffer
<1>5. /\ main'.pc \in {"find", "put"} /\ main'.buf = x /\ main'.node = Nil
      /\ main'.victim = NoBuffer
      /\ main' \in [pc: {"idle", "find", "value", "delete", "put"},
                    buf: Buffer \union {NoBuffer}, node: Pointer,
                    victim: Buffer \union {NoBuffer}]
  BY <1>1, <1>3, <1>4 DEF Idle, Pointer
<1>6. blockOf' \in [Buffer -> Block] /\ \A y \in Buffer \ {x} : blockOf'[y] = blockOf[y]
      /\ blockOf'[x] = b
  BY <1>1, <1>2, <1>3, <1>4 DEF CacheTypeOK
<1>7. CacheTypeOK'
  BY <1>1, <1>2, <1>4, <1>5, <1>6 DEF CacheTypeOK
<1>8. MapIsRight'
  <2> SUFFICES ASSUME NEW a \in Block, map[a] # NoBuffer
               PROVE  map[a] \in 1 .. nbuf' /\ blockOf'[map[a]] = a
    BY <1>1 DEF MapIsRight
  <2>1. map[a] \in 1 .. nbuf /\ blockOf[map[a]] = a /\ map[a] \in Buffer
    BY <1>2 DEF MapIsRight, CacheTypeOK
  <2>2. nbuf \in Nat
    BY <1>2, Buffers DEF CacheTypeOK
  <2> QED
    BY <1>1, <1>4, <1>6, <2>1, <2>2
<1>9. NewBuffers'
  BY <1>1, <1>2, Buffers DEF NewBuffers, CacheTypeOK, policyVars, NodeOf
<1>10. Unknown'
  <2>1. \A a \in Block : map[a] # x
    BY <1>2, <1>4 DEF MapIsRight
  <2>2. NodeOf(x) = Nil /\ x \notin pending
    BY <1>2, <1>3, <1>4, Buffers DEF NewBuffers, CacheTypeOK
  <2> QED
    BY <1>1, <1>4, <1>5, <1>6, <2>1, <2>2 DEF Unknown, policyVars, NodeOf
<1>11. Loosely'
  <2>1. nnode \in Nat
    BY TypedFacts
  <2> QED
    BY <1>1, <1>5, <2>1 DEF Loosely, At, policyVars
<1>12. Known' \subseteq Known
  BY <1>1 DEF Known, policyVars, NodeOf
<1> QED
  BY <1>1, <1>7, <1>8, <1>9, <1>10, <1>11, <1>12, RestTyped

LEMMA FindNodeTyped == Typed /\ FindNode => Typed'
<1> SUFFICES ASSUME Typed, FindNode PROVE Typed'
  OBVIOUS
<1>1. /\ At("find")
      /\ main' = [main EXCEPT !.node = EvictableNode,
                              !.pc = IF EvictableNode = Nil THEN "put" ELSE "value"]
      /\ UNCHANGED <<policyVars, map, blockOf, nbuf, pending, hits, late>>
  BY DEF FindNode
<1>2. CacheTypeOK /\ MapIsRight /\ NewBuffers /\ Unknown
  BY DEF Typed, TypeOK
<1>3. EvictableNode \in 0 .. nnode /\ EvictableNode \in Pointer
  <2>1. deque \in Loose(nnode) /\ MaxNodes \in Nat /\ nnode \in 0 .. MaxNodes
    BY TypedFacts DEF Carrying
  <2> QED
    BY <2>1 DEF Loose, EvictableNode, Pointer, Node
<1>4. /\ main' \in [pc: {"idle", "find", "value", "delete", "put"},
                    buf: Buffer \union {NoBuffer}, node: Pointer,
                    victim: Buffer \union {NoBuffer}]
      /\ main'.buf = main.buf /\ main'.node = EvictableNode
      /\ main'.pc = IF EvictableNode = Nil THEN "put" ELSE "value"
  BY <1>1, <1>2, <1>3 DEF CacheTypeOK
<1>5. CacheTypeOK'
  BY <1>1, <1>2, <1>4 DEF CacheTypeOK
<1>6. MapIsRight' /\ NewBuffers' /\ Known' \subseteq Known
  BY <1>1, <1>2 DEF MapIsRight, NewBuffers, Known, policyVars, NodeOf
<1>7. Unknown'
  BY <1>1, <1>2, <1>4 DEF Unknown, At, policyVars, NodeOf
<1>8. Loosely'
  <2>1. nnode' = nnode
    BY <1>1 DEF policyVars
  <2> QED
    BY <1>3, <1>4, <2>1 DEF Loosely, At
<1> QED
  BY <1>1, <1>5, <1>6, <1>7, <1>8, RestTyped

LEMMA ReadValueTyped == Typed /\ ReadValue => Typed'
<1> SUFFICES ASSUME Typed, ReadValue PROVE Typed'
  OBVIOUS
<1>1. /\ At("value")
      /\ UNCHANGED <<map, blockOf, nbuf, pending, hits, late>>
      /\ \/ Fault /\ UNCHANGED main
         \/ /\ main' = [main EXCEPT !.victim = deque.value[main.node], !.pc = "delete"]
            /\ UNCHANGED policyVars
  BY DEF ReadValue
<1>2. /\ CacheTypeOK /\ MapIsRight /\ NewBuffers /\ Unknown /\ Loosely
  BY DEF Typed, TypeOK
<1>3. UNCHANGED <<nnode, header>> /\ (UNCHANGED policyVars \/ Fault)
  BY <1>1 DEF policyVars, Fault
<1>4. MapIsRight' /\ NewBuffers' /\ Known' \subseteq Known
  BY <1>1, <1>2, <1>3 DEF MapIsRight, NewBuffers, Known, NodeOf
<1>5. CASE UNCHANGED main
  <2>1. CacheTypeOK' /\ Unknown' /\ Loosely'
    BY <1>1, <1>2, <1>3, <1>5 DEF CacheTypeOK, Unknown, Loosely, At, NodeOf
  <2> QED
    BY <1>3, <1>4, <2>1, RestTyped
<1>6. CASE main' = [main EXCEPT !.victim = deque.value[main.node], !.pc = "delete"]
  <2>1. main.node \in 1 .. nnode
    <3>1. main.node \in Nat /\ main.node <= nnode /\ main.node # 0 /\ nnode \in Nat
      BY <1>1, <1>2, TypedFacts DEF Loosely, CacheTypeOK, Pointer, Node
    <3> QED
      BY <3>1
  <2>2. deque.value[main.node] \in Buffer
    BY <2>1, TypedFacts DEF Carrying
  <2>3. /\ main' \in [pc: {"idle", "find", "value", "delete", "put"},
                      buf: Buffer \union {NoBuffer}, node: Pointer,
                      victim: Buffer \union {NoBuffer}]
        /\ main'.buf = main.buf /\ main'.node = main.node
        /\ main'.pc = "delete" /\ main'.victim \in Buffer
    BY <1>2, <1>6, <2>2 DEF CacheTypeOK
  <2>4. CacheTypeOK'
    BY <1>1, <1>2, <2>3 DEF CacheTypeOK
  <2>5. Unknown' /\ Loosely'
    BY <1>1, <1>2, <1>3, <2>3 DEF Unknown, Loosely, At, NodeOf
  <2> QED
    BY <1>3, <1>4, <2>4, <2>5, RestTyped
<1> QED
  BY <1>1, <1>5, <1>6

LEMMA PutTyped == Typed /\ Put => Typed'
<1> SUFFICES ASSUME Typed, Put PROVE Typed'
  OBVIOUS
<1>1. PICK x, b : x = main.buf /\ b = blockOf[main.buf]
  OBVIOUS
<1>2. /\ At("put") /\ map' = [map EXCEPT ![b] = x] /\ pending' = pending \union {x}
      /\ main' = Idle /\ UNCHANGED <<policyVars, blockOf, nbuf, hits, late>>
  BY <1>1 DEF Put
<1>3. /\ CacheTypeOK /\ MapIsRight /\ NewBuffers /\ Unknown /\ Loosely
  BY DEF Typed, TypeOK
<1>4. x \in 1 .. nbuf /\ NodeOf(x) = Nil /\ x \in Buffer /\ b \in Block /\ blockOf[x] = b
  BY <1>1, <1>2, <1>3, Buffers DEF Unknown, At, CacheTypeOK, Buffer
<1>5. map'[b] = x /\ \A a \in Block \ {b} : map'[a] = map[a]
  BY <1>2, <1>3, <1>4 DEF CacheTypeOK
<1>6. CacheTypeOK'
  <2>1. Idle \in [pc: {"idle", "find", "value", "delete", "put"},
                  buf: Buffer \union {NoBuffer}, node: Pointer,
                  victim: Buffer \union {NoBuffer}]
    BY DEF Idle, Pointer
  <2> QED
    BY <1>2, <1>3, <1>4, <2>1 DEF CacheTypeOK
<1>7. MapIsRight'
  BY <1>2, <1>3, <1>4, <1>5 DEF MapIsRight
<1>8. NewBuffers'
  BY <1>2, <1>3, <1>4 DEF NewBuffers, policyVars, NodeOf
<1>9. Unknown' /\ Loosely'
  <2>1. nnode \in Nat
    BY TypedFacts
  <2> QED
    BY <1>2, <2>1 DEF Unknown, Loosely, At, Idle, policyVars
<1>10. Known' \subseteq Known
  BY <1>2, <1>4, <1>5 DEF Known, policyVars, NodeOf
<1> QED
  BY <1>2, <1>6, <1>7, <1>8, <1>9, <1>10, RestTyped

\* The cached buffer of the victim's block leaves, and is counted no more.
LEMMA DeleteTyped == Typed /\ DeleteMemoryBuffer => Typed'
<1> SUFFICES ASSUME Typed, DeleteMemoryBuffer PROVE Typed'
  OBVIOUS
<1>1. PICK b, x : b = blockOf[main.victim] /\ x = map[b]
  OBVIOUS
<1>2. /\ At("delete") /\ map' = [map EXCEPT ![b] = NoBuffer]
      /\ main' = [main EXCEPT !.pc = "put"]
      /\ UNCHANGED <<blockOf, nbuf, pending, hits, late>>
      /\ \/ x = NoBuffer /\ UNCHANGED policyVars
         \/ x # NoBuffer /\ DeleteAt(x)
  BY <1>1, Zenon DEF DeleteMemoryBuffer
<1>3. /\ CacheTypeOK /\ MapIsRight /\ NewBuffers /\ Unknown /\ Loosely
      /\ Cardinality(Known) <= deque.count
  BY DEF Typed, TypeOK
<1>4. b \in Block /\ map \in [Block -> Buffer \union {NoBuffer}]
  BY <1>1, <1>2, <1>3 DEF Loosely, CacheTypeOK
<1>5. map'[b] = NoBuffer /\ \A a \in Block \ {b} : map'[a] = map[a]
  BY <1>2, <1>4
<1>6. /\ main' \in [pc: {"idle", "find", "value", "delete", "put"},
                    buf: Buffer \union {NoBuffer}, node: Pointer,
                    victim: Buffer \union {NoBuffer}]
      /\ main'.buf = main.buf /\ main'.node = main.node /\ main'.pc = "put"
  BY <1>2, <1>3 DEF CacheTypeOK
<1>7. CacheTypeOK'
  BY <1>2, <1>3, <1>4, <1>6 DEF CacheTypeOK
<1>8. MapIsRight'
  BY <1>2, <1>3, <1>5 DEF MapIsRight
<1>9. main.buf \in 1 .. nbuf /\ main.buf # x /\ main.buf \in Buffer
  BY <1>1, <1>2, <1>3, <1>4, Buffers DEF Unknown, At, CacheTypeOK, Buffer
<1>10. CASE x = NoBuffer
  <2>1. UNCHANGED <<nnode, header>> /\ UNCHANGED policyVars
    BY <1>2, <1>10 DEF policyVars
  <2>2. map' = map
    BY <1>1, <1>2, <1>4, <1>10
  <2>3. NewBuffers' /\ Unknown' /\ Loosely' /\ Known' \subseteq Known
    BY <1>2, <1>3, <1>6, <2>1, <2>2 DEF NewBuffers, Unknown, Loosely, Known, At, NodeOf
  <2> QED
    BY <1>7, <1>8, <2>1, <2>3, RestTyped
<1>11. CASE x # NoBuffer
  <2>1. x \in 1 .. nbuf /\ x \in Buffer /\ blockOf[x] = b
    BY <1>1, <1>3, <1>4, <1>11 DEF MapIsRight
  <2>2. PICK c \in Int : c = deque.count - IF NodeOf(x) = Nil THEN 0 ELSE 1
    BY TypedFacts
  <2>3. Touches(x, c)
    BY <1>2, <1>11, <2>1, <2>2, DeleteTouches
  <2>4. \A y \in Buffer \ {x} : header'[y] = header[y] /\ NodeOf(y)' = NodeOf(y)
    BY <2>3 DEF Touches, NodeOf
  <2>5. PICK S, T : S = Known /\ T = Known'
    OBVIOUS
  <2>6. T \subseteq S \ {b}
    <3> SUFFICES ASSUME NEW a \in T PROVE a \in S \ {b}
      OBVIOUS
    <3>1. a # b /\ a \in Block /\ map[a] # NoBuffer /\ map'[a] = map[a]
      BY <1>5, <2>5 DEF Known
    <3>2. map[a] \in Buffer /\ map[a] # x
      BY <1>3, <1>4, <2>1, <3>1 DEF MapIsRight
    <3>3. header'[map[a]].node # Nil
      BY <2>5, <3>1 DEF Known, NodeOf
    <3>4. NodeOf(map[a]) # Nil
      BY <2>4, <3>2, <3>3 DEF NodeOf
    <3> QED
      BY <2>5, <3>1, <3>4 DEF Known
  <2>7. IsFiniteSet(S) /\ Cardinality(S) \in Nat /\ Cardinality(S) <= deque.count
    BY <1>3, <2>5, KnownFinite
  <2>8. /\ IsFiniteSet(S \ {b})
        /\ Cardinality(S \ {b}) = IF b \in S THEN Cardinality(S) - 1 ELSE Cardinality(S)
    BY <2>7, FS_RemoveElement
  <2>9. Cardinality(T) <= Cardinality(S \ {b}) /\ Cardinality(T) \in Nat
    BY <2>6, <2>8, FS_Subset, FS_CardinalityType
  <2>10. b \in S <=> NodeOf(x) # Nil
    BY <1>1, <1>4, <1>11, <2>5 DEF Known
  <2>11. deque.count \in Nat /\ deque'.count \in Int /\ deque'.count >= c
    BY <2>3, TypedFacts DEF Touches, Carrying, Loose
  <2>12. Cardinality(T) <= c /\ c \in Nat
    BY <2>2, <2>7, <2>8, <2>9, <2>10, <2>11
  <2>13. Cardinality(Known)' <= deque'.count
    BY <2>5, <2>9, <2>11, <2>12
  <2>14. /\ TypeOK' /\ Carrying(deque, nnode)' /\ \A y \in Buffer : NodeOf(y)' <= nnode'
         /\ nnode' >= nnode
    BY <1>7, <2>1, <2>3, <2>12, <2>13, TouchedTypes
  <2>15. NewBuffers'
    <3>1. nbuf \in Nat /\ Buffer \subseteq Nat
      BY <1>3, Buffers DEF CacheTypeOK
    <3>2. \A y \in Buffer : y > nbuf => y # x
      BY <2>1, <3>1
    <3> QED
      BY <1>2, <1>3, <2>4, <3>2 DEF NewBuffers
  <2>16. Unknown'
    <3>1. NodeOf(main.buf)' = NodeOf(main.buf)
      BY <1>6, <1>9, <2>4 DEF NodeOf
    <3>2. \A a \in Block : map'[a] # main.buf
      BY <1>2, <1>3, <1>5, <1>9, Buffers DEF Unknown, At
    <3>3. map'[blockOf[main.buf]] = NoBuffer
      BY <1>2, <1>3, <1>4, <1>5, <1>9 DEF Unknown, At, CacheTypeOK
    <3> QED
      BY <1>2, <1>3, <1>6, <3>1, <3>2, <3>3 DEF Unknown, At
  <2>17. Loosely'
    <3>1. main.node \in Nat /\ nnode \in Nat /\ nnode' \in Nat
      BY <1>3, <2>14, TypedFacts DEF CacheTypeOK, Pointer, Node, TypeOK, PolicyTypeOK
    <3> QED
      BY <1>3, <1>6, <2>14, <3>1 DEF Loosely, At
  <2> QED
    BY <1>8, <2>13, <2>14, <2>15, <2>16, <2>17 DEF Typed
<1> QED
  BY <1>10, <1>11

LEMMA NextTyped == Typed /\ [Next]_vars => Typed'
<1> SUFFICES ASSUME Typed, [Next]_vars PROVE Typed'
  OBVIOUS
<1>1. CASE \E b \in Block : Hit(b) \/ Miss(b)
  BY <1>1, HitTyped, MissTyped
<1>2. CASE FindNode \/ ReadValue \/ DeleteMemoryBuffer \/ Put
  BY <1>2, FindNodeTyped, ReadValueTyped, DeleteTyped, PutTyped
<1>3. CASE \E x \in pending : UpdateThread(x)
  BY <1>3, UpdateThreadTyped
<1>4. CASE UNCHANGED vars
  <2>1. /\ UNCHANGED policyVars
        /\ UNCHANGED <<map, blockOf, nbuf, pending, main, hits, late>>
    BY <1>4 DEF vars, cacheVars
  <2>2. UNCHANGED <<nnode, header>>
    BY <2>1 DEF policyVars
  <2>3. CacheTypeOK' /\ MapIsRight' /\ NewBuffers' /\ Unknown' /\ Loosely' /\ Known' \subseteq Known
    BY <2>1, <2>2 DEF Typed, TypeOK, CacheTypeOK, MapIsRight, NewBuffers, Unknown, Loosely,
                      Known, At, NodeOf
  <2> QED
    BY <2>1, <2>3, RestTyped
<1> QED
  BY <1>1, <1>2, <1>3, <1>4 DEF Next, Stopped
-----------------------------------------------------------------------------
(* The order of the list, as sequences                                      *)

\* The sequence without its i-th element, and with x before it.
Shorter(s, i) == [k \in 1 .. Len(s) - 1 |-> IF k < i THEN s[k] ELSE s[k + 1]]
Longer(s, i, x) ==
    [k \in 1 .. Len(s) + 1 |-> IF k < i THEN s[k] ELSE IF k = i THEN x ELSE s[k - 1]]

LEMMA RemovingAt ==
    ASSUME NEW S, NEW s \in Seq(S), NEW i \in 1 .. Len(s)
    PROVE  Promise!RemoveAt(s, i) = Shorter(s, i)
<1> DEFINE a == SubSeq(s, 1, i - 1)
           b == SubSeq(s, i + 1, Len(s))
           c == a \o b
<1>1. /\ a \in Seq(S) /\ Len(a) = i - 1
      /\ \A k \in 1 .. i - 1 : a[k] = s[k]
  BY SubSeqProperties
<1>2. /\ b \in Seq(S) /\ Len(b) = Len(s) - i
      /\ \A k \in 1 .. Len(s) - i : b[k] = s[i + k]
  BY SubSeqProperties
<1> HIDE DEF a, b
<1>3. /\ c \in Seq(S) /\ Len(c) = Len(s) - 1
      /\ \A k \in 1 .. Len(s) - 1 : c[k] = IF k <= i - 1 THEN a[k] ELSE b[k - (i - 1)]
  <2>1. /\ c \in Seq(S) /\ Len(c) = Len(a) + Len(b)
        /\ \A k \in 1 .. Len(a) + Len(b) : c[k] = IF k <= Len(a) THEN a[k] ELSE b[k - Len(a)]
    BY <1>1, <1>2, ConcatProperties
  <2>2. Len(a) + Len(b) = Len(s) - 1
    BY <1>1, <1>2
  <2> HIDE DEF c
  <2> QED
    BY <1>1, <2>1, <2>2
<1>4. \A k \in 1 .. Len(s) - 1 : c[k] = IF k < i THEN s[k] ELSE s[k + 1]
  BY <1>1, <1>2, <1>3
<1>5. c = Shorter(s, i)
  <2> HIDE DEF c
  <2> QED
    BY <1>3, <1>4 DEF Shorter
<1> QED
  BY <1>5 DEF Promise!RemoveAt, a, b

LEMMA InsertingAt ==
    ASSUME NEW S, NEW s \in Seq(S), NEW i \in 1 .. Len(s) + 1, NEW x \in S
    PROVE  Promise!InsertAt(s, i, x) = Longer(s, i, x)
<1> DEFINE a == SubSeq(s, 1, i - 1)
           b == SubSeq(s, i, Len(s))
           d == a \o <<x>>
           c == d \o b
<1>1. /\ a \in Seq(S) /\ Len(a) = i - 1
      /\ \A k \in 1 .. i - 1 : a[k] = s[k]
  BY SubSeqProperties
<1>2. /\ b \in Seq(S) /\ Len(b) = Len(s) + 1 - i
      /\ \A k \in 1 .. Len(s) + 1 - i : b[k] = s[i + k - 1]
  BY SubSeqProperties
<1> HIDE DEF a, b
<1>3. /\ <<x>> \in Seq(S) /\ Len(<<x>>) = 1 /\ <<x>>[1] = x
  OBVIOUS
<1>4. /\ d \in Seq(S) /\ Len(d) = i
      /\ \A k \in 1 .. i : d[k] = IF k <= i - 1 THEN a[k] ELSE <<x>>[k - (i - 1)]
  BY <1>1, <1>3, ConcatProperties
<1>5. \A k \in 1 .. i : d[k] = IF k < i THEN s[k] ELSE x
  BY <1>1, <1>3, <1>4
<1> HIDE DEF d
<1>6. /\ c \in Seq(S) /\ Len(c) = Len(s) + 1
      /\ \A k \in 1 .. Len(s) + 1 : c[k] = IF k <= i THEN d[k] ELSE b[k - i]
  <2>1. /\ c \in Seq(S) /\ Len(c) = Len(d) + Len(b)
        /\ \A k \in 1 .. Len(d) + Len(b) : c[k] = IF k <= Len(d) THEN d[k] ELSE b[k - Len(d)]
    BY <1>2, <1>4, ConcatProperties
  <2>2. Len(d) + Len(b) = Len(s) + 1
    BY <1>2, <1>4
  <2> HIDE DEF c
  <2> QED
    BY <1>4, <2>1, <2>2
<1>7. \A k \in 1 .. Len(s) + 1 :
         c[k] = IF k < i THEN s[k] ELSE IF k = i THEN x ELSE s[k - 1]
  BY <1>2, <1>5, <1>6
<1>8. c = Longer(s, i, x)
  <2> HIDE DEF c
  <2> QED
    BY <1>6, <1>7 DEF Longer
<1> QED
  BY <1>8 DEF Promise!InsertAt, a, b, d

LEMMA WithoutOne ==
    ASSUME NEW S, NEW s \in Seq(S), NEW i \in 1 .. Len(s),
           \A k \in 1 .. Len(s) : s[k] = s[i] => k = i
    PROVE  Promise!Without(s, s[i]) = Shorter(s, i)
<1>1. {k \in DOMAIN s : s[k] = s[i]} = {i}
  OBVIOUS
<1>2. (CHOOSE k \in {i} : TRUE) = i
  OBVIOUS
<1>3. Promise!Without(s, s[i]) = Promise!RemoveAt(s, i)
  BY <1>1, <1>2 DEF Promise!Without
<1> QED
  BY <1>3, RemovingAt

LEMMA WithoutNone ==
    ASSUME NEW S, NEW s \in Seq(S), NEW x, \A k \in 1 .. Len(s) : s[k] # x
    PROVE  Promise!Without(s, x) = s
<1>1. {k \in DOMAIN s : s[k] = x} = {}
  OBVIOUS
<1> QED
  BY <1>1 DEF Promise!Without

\* A function from 1 .. n is a sequence.
LEMMA IsSequence ==
    ASSUME NEW S, NEW n \in Nat, NEW f \in [1 .. n -> S]
    PROVE  f \in Seq(S) /\ Len(f) = n /\ DOMAIN f = 1 .. n
OBVIOUS

\* Both change the length by one.
LEMMA ShorterType ==
    ASSUME NEW S, NEW s \in Seq(S), NEW i \in 1 .. Len(s)
    PROVE  Shorter(s, i) \in Seq(S) /\ Len(Shorter(s, i)) = Len(s) - 1
<1>1. Shorter(s, i) \in [1 .. Len(s) - 1 -> S] /\ Len(s) - 1 \in Nat
  BY DEF Shorter
<1> QED
  BY <1>1, IsSequence

LEMMA LongerType ==
    ASSUME NEW S, NEW s \in Seq(S), NEW i \in 1 .. Len(s) + 1, NEW x \in S
    PROVE  Longer(s, i, x) \in Seq(S) /\ Len(Longer(s, i, x)) = Len(s) + 1
<1>1. Longer(s, i, x) \in [1 .. Len(s) + 1 -> S] /\ Len(s) + 1 \in Nat
  BY DEF Longer
<1> QED
  BY <1>1, IsSequence

\* No count is lower than one before it.
Sorted(s, cnt) == \A k, l \in 1 .. Len(s) : k < l => cnt[s[k]] <= cnt[s[l]]

LEMMA ShorterSorted ==
    ASSUME NEW S, NEW s \in Seq(S), NEW i \in 1 .. Len(s), NEW cnt, Sorted(s, cnt)
    PROVE  Sorted(Shorter(s, i), cnt)
<1>1. Len(Shorter(s, i)) = Len(s) - 1 /\ Len(s) \in Nat
  BY ShorterType
<1>2. \A k \in 1 .. Len(s) - 1 : Shorter(s, i)[k] = IF k < i THEN s[k] ELSE s[k + 1]
  BY DEF Shorter
<1> QED
  BY <1>1, <1>2 DEF Sorted

\* An element may go behind those whose count is not higher.
LEMMA LongerSorted ==
    ASSUME NEW S, NEW s \in Seq(S), NEW i \in 1 .. Len(s) + 1, NEW x \in S,
           NEW cnt \in [S -> Nat], Sorted(s, cnt),
           \A k \in 1 .. Len(s) : k < i <=> cnt[s[k]] <= cnt[x]
    PROVE  Sorted(Longer(s, i, x), cnt)
<1>1. Len(Longer(s, i, x)) = Len(s) + 1 /\ Len(s) \in Nat
  BY LongerType
<1>2. \A k \in 1 .. Len(s) + 1 :
         Longer(s, i, x)[k] = IF k < i THEN s[k] ELSE IF k = i THEN x ELSE s[k - 1]
  BY DEF Longer
<1>3. \A k \in 1 .. Len(s) : cnt[s[k]] \in Nat
  OBVIOUS
<1>4. PICK t : t = Longer(s, i, x)
  OBVIOUS
<1>5. ASSUME NEW k \in 1 .. Len(s) + 1, NEW l \in 1 .. Len(s) + 1, k < l
      PROVE  cnt[t[k]] <= cnt[t[l]]
  <2>1. CASE l < i
    <3>1. t[k] = s[k] /\ t[l] = s[l] /\ k \in 1 .. Len(s) /\ l \in 1 .. Len(s)
      BY <1>1, <1>2, <1>4, <1>5, <2>1
    <3> QED
      BY <1>5, <3>1 DEF Sorted
  <2>2. CASE l = i
    <3>1. t[k] = s[k] /\ t[l] = x /\ k \in 1 .. Len(s)
      BY <1>1, <1>2, <1>4, <1>5, <2>2
    <3> QED
      BY <1>5, <2>2, <3>1
  <2>3. CASE l > i /\ k < i
    <3>1. t[k] = s[k] /\ t[l] = s[l - 1] /\ k \in 1 .. Len(s) /\ l - 1 \in 1 .. Len(s)
      BY <1>1, <1>2, <1>4, <1>5, <2>3
    <3>2. k = l - 1 \/ k < l - 1
      BY <1>1, <1>5
    <3> QED
      BY <1>3, <3>1, <3>2 DEF Sorted
  <2>4. CASE l > i /\ k = i
    <3>1. t[k] = x /\ t[l] = s[l - 1] /\ l - 1 \in 1 .. Len(s) /\ ~(l - 1 < i)
      BY <1>1, <1>2, <1>4, <1>5, <2>4
    <3>2. ~(cnt[s[l - 1]] <= cnt[x]) /\ cnt[s[l - 1]] \in Nat /\ cnt[x] \in Nat
      BY <1>3, <3>1
    <3> QED
      BY <3>1, <3>2
  <2>5. CASE k > i
    <3>1. /\ t[k] = s[k - 1] /\ t[l] = s[l - 1] /\ k - 1 < l - 1
          /\ k - 1 \in 1 .. Len(s) /\ l - 1 \in 1 .. Len(s)
      BY <1>1, <1>2, <1>4, <1>5, <2>5
    <3> QED
      BY <3>1 DEF Sorted
  <2> QED
    BY <1>1, <1>5, <2>1, <2>2, <2>3, <2>4, <2>5
<1> QED
  BY <1>1, <1>4, <1>5 DEF Sorted

\* In a list in order, the place of an element is where the counts pass its own.
LEMMA SortedPlace ==
    ASSUME NEW S, NEW s \in Seq(S), NEW i \in 1 .. Len(s) + 1, NEW x \in S,
           NEW cnt \in [S -> Nat], Sorted(s, cnt),
           i > 1 => cnt[s[i - 1]] <= cnt[x],
           i <= Len(s) => ~(cnt[s[i]] <= cnt[x])
    PROVE  \A k \in 1 .. Len(s) : k < i <=> cnt[s[k]] <= cnt[x]
<1>1. \A k \in 1 .. Len(s) : cnt[s[k]] \in Nat
  OBVIOUS
<1>2. cnt[x] \in Nat /\ Len(s) \in Nat
  OBVIOUS
<1>3. ASSUME NEW k \in 1 .. Len(s), k < i PROVE cnt[s[k]] <= cnt[x]
  <2>1. k = i - 1 \/ cnt[s[k]] <= cnt[s[i - 1]]
    BY <1>3 DEF Sorted
  <2> QED
    BY <1>1, <1>2, <1>3, <2>1
<1>4. ASSUME NEW k \in 1 .. Len(s), ~(k < i) PROVE ~(cnt[s[k]] <= cnt[x])
  <2>1. k = i \/ cnt[s[i]] <= cnt[s[k]]
    BY <1>4 DEF Sorted
  <2> QED
    BY <1>1, <1>2, <1>4, <2>1
<1> QED
  BY <1>3, <1>4
-----------------------------------------------------------------------------
(* What the operations of the deque do to its contents                      *)

\* s, of length c, with its i-th element moved back to place j.
Shift(s, c, i, j) ==
    [k \in 1 .. c |-> IF k < i \/ k > j THEN s[k] ELSE IF k = j THEN s[i] ELSE s[k + 1]]

\* A node is moved back over nodes whose ranks let it, until one does not.
LEMMA MovedShifts ==
    ASSUME NEW V, NEW d \in Deque(V), NEW s, Lists(d, s), NEW i \in 1 .. d.count,
           NEW own, NEW rank, NEW e, e = Moved(d, s[i], own, rank)
    PROVE  \E j \in i .. d.count :
              /\ e \in Deque(V) /\ e.value = d.value /\ e.count = d.count
              /\ Lists(e, Shift(s, d.count, i, j))
              /\ j > i => MovesOver(own, rank[d.value[s[j]]])
              /\ j < d.count => ~MovesOver(own, rank[d.value[s[j + 1]]])
<1> SUFFICES ASSUME NEW c, c = d.count, i \in 1 .. c
    PROVE  \E j \in i .. c :
              /\ e \in Deque(V) /\ e.value = d.value /\ e.count = c
              /\ Lists(e, Shift(s, c, i, j))
              /\ j > i => MovesOver(own, rank[d.value[s[j]]])
              /\ j < c => ~MovesOver(own, rank[d.value[s[j + 1]]])
  OBVIOUS
<1> DEFINE N == {s[k] : k \in 1 .. c}
           D == {g \in Deque(V) : g.value = d.value /\ Holds(g, N)}
           Passing(j) == j < c /\ MovesOver(own, rank[d.value[s[j + 1]]])
           Reached(g, j) ==
              /\ g \in Deque(V) /\ g.value = d.value /\ g.count = c
              /\ Lists(g, Shift(s, c, i, j))
              /\ j > i => MovesOver(own, rank[d.value[s[j]]])
           After(g, k) == \E j \in i .. c : Reached(g, j) /\ (j = i + k \/ ~Passing(j))
<1>1. c \in Nat /\ c <= MaxNodes /\ MaxNodes \in Nat /\ s \in [1 .. c -> Node]
  <2>1. c \in Nat /\ s \in [1 .. c -> Node]
    BY ListNodes DEF Lists
  <2>2. \A k, l \in 1 .. c : s[k] = s[l] => k = l
    BY DEF Lists
  <2>3. c <= MaxNodes
    BY <2>1, <2>2, ListLength
  <2> QED
    BY <2>1, <2>3, DequeAssumption
<1>2. \A g \in D : Turn(g, s[i], own, rank) \in D
  <2> SUFFICES ASSUME NEW g \in D PROVE Turn(g, s[i], own, rank) \in D
    OBVIOUS
  <2>1. PICK u : u = Turn(g, s[i], own, rank)
    OBVIOUS
  <2>2. s[i] \in N /\ g \in Deque(V) /\ g.value = d.value /\ Holds(g, N)
    OBVIOUS
  <2> HIDE DEF N
  <2>3. u \in Deque(V) /\ u.value = g.value /\ Holds(u, N)
    BY <2>1, <2>2, TurnHolds
  <2> QED
    BY <2>1, <2>2, <2>3
<1>3. d \in D
  BY DEF Holds
<1> HIDE DEF D
<1>4. PICK f : /\ f[0] = d /\ e = f[MaxNodes]
               /\ \A k \in 0 .. MaxNodes - 1 : f[k + 1] = Turn(f[k], s[i], own, rank)
  BY <1>2, <1>3, MovedTurns
<1>5. After(f[0], 0)
  <2>1. Shift(s, c, i, i) = s
    BY <1>1 DEF Shift
  <2>2. Reached(d, i)
    BY <2>1
  <2> HIDE DEF Reached, Passing
  <2>3. i \in i .. c /\ i = i + 0
    BY <1>1
  <2> QED
    BY <1>4, <2>2, <2>3
<1>6. ASSUME NEW g, NEW j \in i .. c, Reached(g, j), NEW u, u = Turn(g, s[i], own, rank)
      PROVE  /\ Passing(j) => Reached(u, j + 1)
             /\ ~Passing(j) => u = g
  <2>0. PICK t : t = Shift(s, c, i, j)
    OBVIOUS
  <2>1. /\ g \in Deque(V) /\ g.value = d.value /\ g.count = c /\ Lists(g, t)
        /\ c \in Nat /\ i \in 1 .. c /\ j \in 1 .. c
    BY <1>1, <1>6, <2>0
  <2>2. \A k \in 1 .. c : s[k] # Nil
    <3>1. s \in [1 .. c -> Node] /\ 0 \notin Node
      BY <1>1 DEF Node
    <3> QED
      BY <3>1 DEF Nil
  <2>3. t[j] = s[i] /\ (j < c => t[j + 1] = s[j + 1])
    BY <1>1, <1>6, <2>1, <2>0 DEF Shift
  <2>4. g.next[s[i]] = IF j = c THEN Nil ELSE s[j + 1]
    BY <2>1, <2>3 DEF Lists
  <2>5. Movable(g, s[i], own, rank) <=> Passing(j)
    <3>1. j < c => s[j + 1] # Nil
      BY <2>1, <2>2
    <3> QED
      BY <2>1, <2>4, <3>1 DEF Movable
  <2>6. ASSUME Passing(j) PROVE Reached(u, j + 1)
    <3>9. j < c /\ MovesOver(own, rank[d.value[s[j + 1]]])
      BY <2>6
    <3>1. u = SwitchNode(g, t[j], t[j + 1])
      BY <1>6, <2>1, <2>3, <2>4, <2>5, <2>6, <3>9 DEF Turn
    <3>2. PICK w : w = [k \in 1 .. c |-> IF k = j THEN t[j + 1]
                                         ELSE IF k = j + 1 THEN t[j] ELSE t[k]]
      OBVIOUS
    <3>3. u \in Deque(V) /\ u.value = g.value /\ u.count = g.count /\ Lists(u, w)
      <4> HIDE DEF N, Passing, Reached, After
      <4> QED
        BY <2>1, <3>9, <3>1, <3>2, SwitchNodeSwaps
    <3>4. w = Shift(s, c, i, j + 1)
      <4>1. \A k \in 1 .. c : t[k] = IF k < i \/ k > j THEN s[k]
                                     ELSE IF k = j THEN s[i] ELSE s[k + 1]
        BY <2>0 DEF Shift
      <4>2. ASSUME NEW k \in 1 .. c
            PROVE  w[k] = IF k < i \/ k > j + 1 THEN s[k]
                          ELSE IF k = j + 1 THEN s[i] ELSE s[k + 1]
        <5>1. w[k] = IF k = j THEN t[j + 1] ELSE IF k = j + 1 THEN t[j] ELSE t[k]
          BY <3>2
        <5>2. CASE k \in {j, j + 1}
          BY <1>6, <2>1, <2>3, <3>9, <5>1, <5>2
        <5>3. CASE k \notin {j, j + 1}
          <6>1. k # j /\ k # j + 1 /\ (k > j <=> k > j + 1)
            BY <2>1, <5>3
          <6>2. t[k] = IF k < i \/ k > j THEN s[k] ELSE IF k = j THEN s[i] ELSE s[k + 1]
            BY <4>1
          <6> QED
            BY <5>1, <6>1, <6>2
        <5> QED
          BY <5>2, <5>3
      <4> QED
        BY <3>2, <4>2 DEF Shift
    <3>5. (j + 1) - 1 = j /\ (j + 1 > i => MovesOver(own, rank[d.value[s[j + 1]]]))
      BY <2>1, <3>9
    <3> QED
      BY <2>1, <3>3, <3>4, <3>5
  <2>7. ASSUME ~Passing(j) PROVE u = g
    BY <1>6, <2>5, <2>7 DEF Turn
  <2> QED
    BY <2>6, <2>7
<1>7. ASSUME NEW k \in 0 .. MaxNodes - 1, After(f[k], k) PROVE After(f[k + 1], k + 1)
  <2>1. PICK j \in i .. c : Reached(f[k], j) /\ (j = i + k \/ ~Passing(j))
    BY <1>7
  <2>2. PICK g, u : g = f[k] /\ u = f[k + 1]
    OBVIOUS
  <2>3. u = Turn(g, s[i], own, rank) /\ Reached(g, j)
    BY <1>4, <2>1, <2>2
  <2>4. /\ Passing(j) => Reached(u, j + 1)
        /\ ~Passing(j) => u = g
    <3> HIDE DEF Passing, Reached, N
    <3> QED
      BY <1>6, <2>3
  <2>6. CASE Passing(j)
    <3>1. j + 1 \in i .. c /\ j + 1 = i + (k + 1)
      BY <1>1, <2>1, <2>6
    <3> HIDE DEF Reached, Passing
    <3>2. Reached(u, j + 1)
      BY <2>4, <2>6
    <3> QED
      BY <2>2, <3>1, <3>2
  <2>7. CASE ~Passing(j)
    <3> HIDE DEF Reached, Passing
    <3>1. u = g
      BY <2>4, <2>7
    <3> QED
      BY <2>2, <2>3, <2>7, <3>1
  <2> QED
    BY <2>6, <2>7
<1> DEFINE T == {k \in Nat : k \in 0 .. MaxNodes => After(f[k], k)}
<1> HIDE DEF After
<1>8. 0 \in T /\ T \in SUBSET Nat
  BY <1>5
<1>9. ASSUME NEW k \in T PROVE k + 1 \in T
  BY <1>1, <1>7
<1> HIDE DEF T
<1>10. \A k \in Nat : k \in T
  BY <1>8, <1>9, Induction
<1>11. After(e, MaxNodes)
  BY <1>1, <1>4, <1>10 DEF T
<1>12. PICK j \in i .. c : Reached(e, j) /\ (j = i + MaxNodes \/ ~Passing(j))
  BY <1>11 DEF After
<1>13. ~Passing(j)
  BY <1>1, <1>12
<1> QED
  BY <1>12, <1>13

\* The contents of a list of nodes.
LEMMA ListShows ==
    ASSUME NEW V, NEW d \in Deque(V), NEW s, Lists(d, s)
    PROVE  /\ Contents(d) = [k \in 1 .. d.count |-> d.value[s[k]]]
           /\ Contents(d) \in Seq(V) /\ Len(Contents(d)) = d.count
           /\ d.count \in Nat /\ \A k \in 1 .. d.count : s[k] \in Node
<1>1. Chain(d.first, d.next) = s /\ DOMAIN s = 1 .. d.count
  <2>1. Chain(d.first, d.next) = s
    BY ListIsSound, Zenon
  <2>2. DOMAIN s = 1 .. d.count
    BY DEF Lists
  <2> QED
    BY <2>1, <2>2
<1>2. Contents(d) = [k \in 1 .. d.count |-> d.value[s[k]]]
  BY <1>1 DEF Contents
<1>3. d.count \in Nat /\ d.value \in [Node -> V] /\ \A k \in 1 .. d.count : s[k] \in Node
  BY ListNodes
<1>4. [k \in 1 .. d.count |-> d.value[s[k]]] \in [1 .. d.count -> V]
  BY <1>3
<1>5. /\ [k \in 1 .. d.count |-> d.value[s[k]]] \in Seq(V)
      /\ Len([k \in 1 .. d.count |-> d.value[s[k]]]) = d.count
  BY <1>3, <1>4, IsSequence
<1> QED
  BY <1>2, <1>3, <1>5

\* popAt takes one element out of the contents.
LEMMA PopShows ==
    ASSUME NEW V, NEW d \in Deque(V), NEW s, Lists(d, s), NEW i \in 1 .. d.count
    PROVE  LET e == PopAt(d, s[i])
           IN /\ e \in Deque(V) /\ e.value = d.value /\ e.count = d.count - 1
              /\ Contents(e) = Shorter(Contents(d), i)
              /\ \E t : Lists(e, t) /\ \A k \in 1 .. e.count : \E l \in 1 .. d.count : t[k] = s[l]
<1>1. PICK e, t, c : /\ e = PopAt(d, s[i]) /\ c = d.count
                     /\ t = [k \in 1 .. d.count - 1 |-> IF k < i THEN s[k] ELSE s[k + 1]]
  OBVIOUS
<1>2. e \in Deque(V) /\ e.value = d.value /\ e.count = c - 1 /\ Lists(e, t)
  BY <1>1, PopAtRemoves
<1>3. /\ Contents(d) = [k \in 1 .. c |-> d.value[s[k]]]
      /\ Len(Contents(d)) = c /\ c \in Nat
  BY <1>1, ListShows
<1>4. Contents(e) = [k \in 1 .. c - 1 |-> d.value[t[k]]]
  BY <1>2, ListShows
<1>5. \A k \in 1 .. c - 1 : t[k] = IF k < i THEN s[k] ELSE s[k + 1]
  BY <1>1
<1>6. Contents(e) = Shorter(Contents(d), i)
  <2>1. ASSUME NEW k \in 1 .. c - 1
        PROVE  d.value[t[k]] = IF k < i THEN Contents(d)[k] ELSE Contents(d)[k + 1]
    BY <1>1, <1>3, <1>5
  <2> QED
    BY <1>3, <1>4, <2>1 DEF Shorter
<1>7. \A k \in 1 .. c - 1 : \E l \in 1 .. c : t[k] = s[l]
  <2> SUFFICES ASSUME NEW k \in 1 .. c - 1 PROVE \E l \in 1 .. c : t[k] = s[l]
    OBVIOUS
  <2>1. k \in 1 .. c /\ k + 1 \in 1 .. c
    BY <1>3
  <2> QED
    BY <1>5, <2>1
<1>8. \E u : Lists(e, u) /\ \A k \in 1 .. e.count : \E l \in 1 .. d.count : u[k] = s[l]
  <2>1. Lists(e, t) /\ \A k \in 1 .. e.count : \E l \in 1 .. d.count : t[k] = s[l]
    BY <1>1, <1>2, <1>7
  <2> QED
    BY <2>1
<1> QED
  BY <1>1, <1>2, <1>6, <1>8

\* pushLast puts an element behind the contents.
LEMMA LastShows ==
    ASSUME NEW V, NEW d \in Deque(V), NEW s, Lists(d, s), NEW v \in V, NEW n \in Node,
           \A i \in 1 .. d.count : s[i] # n
    PROVE  Contents(PushLast(d, n, v)) = Longer(Contents(d), d.count + 1, v)
<1>1. PICK e, t, c : /\ e = PushLast(d, n, v) /\ c = d.count
                     /\ t = [k \in 1 .. d.count + 1 |-> IF k = d.count + 1 THEN n ELSE s[k]]
  OBVIOUS
<1>2. /\ e \in Deque(V) /\ e.value = [d.value EXCEPT ![n] = v] /\ e.count = c + 1
      /\ Lists(e, t)
  <2>1. /\ PushLast(d, n, v) \in Deque(V)
        /\ PushLast(d, n, v).value = [d.value EXCEPT ![n] = v]
        /\ PushLast(d, n, v).count = d.count + 1
        /\ Lists(PushLast(d, n, v), [k \in 1 .. d.count + 1 |-> IF k = d.count + 1 THEN n ELSE s[k]])
    BY PushLastAppends
  <2> QED
    BY <1>1, <2>1
<1>3. /\ Contents(d) = [k \in 1 .. c |-> d.value[s[k]]]
      /\ Len(Contents(d)) = c /\ c \in Nat /\ \A k \in 1 .. c : s[k] \in Node
  BY <1>1, ListShows
<1>4. Contents(e) = [k \in 1 .. c + 1 |-> e.value[t[k]]]
  <2>1. e \in Deque(V) /\ Lists(e, t)
    BY <1>2
  <2>2. Contents(e) = [k \in 1 .. e.count |-> e.value[t[k]]]
    BY <2>1, ListShows
  <2> QED
    BY <1>2, <2>2
<1>5. \A k \in 1 .. c + 1 : t[k] = IF k = c + 1 THEN n ELSE s[k]
  BY <1>1
<1>6. \A k \in Node : e.value[k] = IF k = n THEN v ELSE d.value[k]
  BY <1>2, ListNodes
<1>7. ASSUME NEW k \in 1 .. c + 1
      PROVE  e.value[t[k]] = IF k < c + 1 THEN Contents(d)[k]
                             ELSE IF k = c + 1 THEN v ELSE Contents(d)[k - 1]
  <2>1. CASE k = c + 1
    BY <1>3, <1>5, <1>6, <2>1
  <2>2. CASE k # c + 1
    <3>1. k \in 1 .. c /\ k < c + 1
      BY <1>3, <2>2
    <3> QED
      BY <1>1, <1>3, <1>5, <1>6, <2>2, <3>1
  <2> QED
    BY <2>1, <2>2
<1>8. Longer(Contents(d), c + 1, v) =
         [k \in 1 .. c + 1 |-> IF k < c + 1 THEN Contents(d)[k]
                               ELSE IF k = c + 1 THEN v ELSE Contents(d)[k - 1]]
  BY <1>3 DEF Longer
<1>9. Contents(e) = Longer(Contents(d), c + 1, v)
  BY <1>4, <1>7, <1>8
<1> QED
  BY <1>1, <1>9

\* pushFirst puts one before them.
LEMMA FirstShows ==
    ASSUME NEW V, NEW d \in Deque(V), NEW s, Lists(d, s), NEW v \in V, NEW n \in Node,
           \A i \in 1 .. d.count : s[i] # n
    PROVE  LET e == PushFirst(d, n, v)
           IN /\ e \in Deque(V) /\ e.count = d.count + 1
              /\ Contents(e) = Longer(Contents(d), 1, v)
              /\ \E t : Lists(e, t) /\ t[1] = n
<1>1. PICK e, t, c : /\ e = PushFirst(d, n, v) /\ c = d.count
                     /\ t = [k \in 1 .. d.count + 1 |-> IF k = 1 THEN n ELSE s[k - 1]]
  OBVIOUS
<1>2. /\ e \in Deque(V) /\ e.value = [d.value EXCEPT ![n] = v] /\ e.count = c + 1
      /\ Lists(e, t)
  <2>1. /\ PushFirst(d, n, v) \in Deque(V)
        /\ PushFirst(d, n, v).value = [d.value EXCEPT ![n] = v]
        /\ PushFirst(d, n, v).count = d.count + 1
        /\ Lists(PushFirst(d, n, v), [k \in 1 .. d.count + 1 |-> IF k = 1 THEN n ELSE s[k - 1]])
    BY PushFirstPrepends
  <2> QED
    BY <1>1, <2>1
<1>3. /\ Contents(d) = [k \in 1 .. c |-> d.value[s[k]]]
      /\ Len(Contents(d)) = c /\ c \in Nat /\ \A k \in 1 .. c : s[k] \in Node
  BY <1>1, ListShows
<1>4. Contents(e) = [k \in 1 .. c + 1 |-> e.value[t[k]]]
  <2>1. e \in Deque(V) /\ Lists(e, t)
    BY <1>2
  <2>2. Contents(e) = [k \in 1 .. e.count |-> e.value[t[k]]]
    BY <2>1, ListShows
  <2> QED
    BY <1>2, <2>2
<1>5. \A k \in 1 .. c + 1 : t[k] = IF k = 1 THEN n ELSE s[k - 1]
  BY <1>1
<1>6. \A k \in Node : e.value[k] = IF k = n THEN v ELSE d.value[k]
  BY <1>2, ListNodes
<1>7. ASSUME NEW k \in 1 .. c + 1
      PROVE  e.value[t[k]] = IF k < 1 THEN Contents(d)[k]
                             ELSE IF k = 1 THEN v ELSE Contents(d)[k - 1]
  <2>1. CASE k = 1
    BY <1>3, <1>5, <1>6, <2>1
  <2>2. CASE k # 1
    <3>1. k - 1 \in 1 .. c /\ ~(k < 1)
      BY <1>3, <2>2
    <3> QED
      BY <1>1, <1>3, <1>5, <1>6, <2>2, <3>1
  <2> QED
    BY <2>1, <2>2
<1>8. Contents(e) = Longer(Contents(d), 1, v)
  <2>1. Longer(Contents(d), 1, v) =
           [k \in 1 .. c + 1 |-> IF k < 1 THEN Contents(d)[k]
                                 ELSE IF k = 1 THEN v ELSE Contents(d)[k - 1]]
    BY <1>3 DEF Longer
  <2> QED
    BY <1>4, <1>7, <2>1
<1>9. t[1] = n
  BY <1>3, <1>5
<1> QED
  BY <1>1, <1>2, <1>8, <1>9

\* A move takes an element out and puts it back behind those it passes.
LEMMA MovedShows ==
    ASSUME NEW V, NEW d \in Deque(V), NEW s, Lists(d, s), NEW i \in 1 .. d.count,
           NEW own, NEW rank
    PROVE  \E j \in i .. d.count :
              /\ Contents(Moved(d, s[i], own, rank))
                    = Longer(Shorter(Contents(d), i), j, Contents(d)[i])
              /\ j > i => MovesOver(own, rank[Contents(d)[j]])
              /\ j < d.count => ~MovesOver(own, rank[Contents(d)[j + 1]])
<1> SUFFICES ASSUME NEW q, q = Contents(d)
    PROVE  \E j \in i .. d.count :
              /\ Contents(Moved(d, s[i], own, rank)) = Longer(Shorter(q, i), j, q[i])
              /\ j > i => MovesOver(own, rank[q[j]])
              /\ j < d.count => ~MovesOver(own, rank[q[j + 1]])
  OBVIOUS
<1>1. PICK c, e : c = d.count /\ e = Moved(d, s[i], own, rank)
  OBVIOUS
<1>2. PICK j \in i .. c :
         /\ e \in Deque(V) /\ e.value = d.value /\ e.count = c
         /\ Lists(e, Shift(s, c, i, j))
         /\ j > i => MovesOver(own, rank[d.value[s[j]]])
         /\ j < c => ~MovesOver(own, rank[d.value[s[j + 1]]])
  <2>1. \E j \in i .. d.count :
           /\ e \in Deque(V) /\ e.value = d.value /\ e.count = d.count
           /\ Lists(e, Shift(s, d.count, i, j))
           /\ j > i => MovesOver(own, rank[d.value[s[j]]])
           /\ j < d.count => ~MovesOver(own, rank[d.value[s[j + 1]]])
    <3>1. e = Moved(d, s[i], own, rank)
      BY <1>1
    <3> QED
      BY <3>1, MovedShifts, Zenon
  <2> QED
    BY <1>1, <2>1
<1>3. /\ q = [k \in 1 .. c |-> d.value[s[k]]]
      /\ Len(q) = c /\ c \in Nat /\ q \in Seq(V)
  BY <1>1, ListShows
<1>4. PICK t : t = Shift(s, c, i, j)
  OBVIOUS
<1>5. Contents(e) = [k \in 1 .. c |-> d.value[t[k]]]
  BY <1>2, <1>4, ListShows
<1>6. \A k \in 1 .. c : t[k] = IF k < i \/ k > j THEN s[k] ELSE IF k = j THEN s[i] ELSE s[k + 1]
  BY <1>4 DEF Shift
<1>7. PICK o : o = Shorter(q, i)
  OBVIOUS
<1>8. Len(o) = c - 1 /\ \A k \in 1 .. c - 1 : o[k] = IF k < i THEN q[k] ELSE q[k + 1]
  BY <1>1, <1>3, <1>7, ShorterType DEF Shorter
<1>9. ASSUME NEW k \in 1 .. c
      PROVE  d.value[t[k]] = IF k < j THEN o[k] ELSE IF k = j THEN q[i] ELSE o[k - 1]
  <2>1. i \in 1 .. c /\ j \in 1 .. c /\ i <= j
    BY <1>1, <1>3
  <2>2. CASE k = j
    BY <1>3, <1>6, <2>1, <2>2
  <2>3. CASE k < j
    <3>1. k \in 1 .. c - 1 /\ k + 1 \in 1 .. c
      BY <1>3, <2>1, <2>3
    <3>2. CASE k < i
      <4>1. o[k] = q[k]
        BY <1>8, <3>1, <3>2
      <4>2. t[k] = s[k]
        BY <1>6, <3>2
      <4>3. q[k] = d.value[s[k]]
        BY <1>3
      <4> QED
        BY <2>3, <4>1, <4>2, <4>3
    <3>3. CASE ~(k < i)
      <4>1. o[k] = q[k + 1]
        BY <1>8, <3>1, <3>3
      <4>2. t[k] = s[k + 1]
        <5>1. ~(k > j) /\ k # j
          BY <1>3, <2>1, <2>3
        <5> QED
          BY <1>6, <3>3, <5>1
      <4>3. q[k + 1] = d.value[s[k + 1]]
        BY <1>3, <3>1
      <4> QED
        BY <2>3, <4>1, <4>2, <4>3
    <3> QED
      BY <3>2, <3>3
  <2>4. CASE k > j
    <3>1. k - 1 \in 1 .. c - 1 /\ (k - 1) + 1 = k /\ ~(k - 1 < i)
      BY <1>3, <2>1, <2>4
    <3>2. o[k - 1] = q[k]
      BY <1>8, <3>1
    <3>3. t[k] = s[k]
      BY <1>6, <2>4
    <3> QED
      BY <1>3, <2>1, <2>4, <3>2, <3>3
  <2> QED
    BY <1>3, <2>1, <2>2, <2>3, <2>4
<1>10. Contents(e) = Longer(o, j, q[i])
  <2>1. Len(o) + 1 = c
    BY <1>3, <1>8
  <2> QED
    BY <1>5, <1>9, <2>1 DEF Longer
<1>11. q[j] = d.value[s[j]] /\ (j < c => q[j + 1] = d.value[s[j + 1]])
  BY <1>1, <1>3
<1> QED
  BY <1>1, <1>2, <1>7, <1>10, <1>11

-----------------------------------------------------------------------------
(* The order each policy keeps                                              *)

\* Without the element before it, a longer sequence is the old one.
LEMMA ShorterLonger ==
    ASSUME NEW S, NEW s \in Seq(S), NEW x \in S
    PROVE  /\ Shorter(Longer(s, 1, x), 1) = s
           /\ Longer(s, 1, x)[1] = x
           /\ \A k \in 2 .. Len(s) + 1 : Longer(s, 1, x)[k] = s[k - 1]
<1>1. 1 \in 1 .. Len(s) + 1 /\ Len(s) \in Nat
  OBVIOUS
<1>2. PICK t : t = Longer(s, 1, x)
  OBVIOUS
<1>3. t \in Seq(S) /\ Len(t) = Len(s) + 1
  BY <1>1, <1>2, LongerType
<1>4. \A k \in 1 .. Len(s) + 1 : t[k] = IF k < 1 THEN s[k] ELSE IF k = 1 THEN x ELSE s[k - 1]
  BY <1>2 DEF Longer
<1>5. t[1] = x /\ \A k \in 2 .. Len(s) + 1 : t[k] = s[k - 1]
  BY <1>1, <1>4
<1>6. Shorter(t, 1) = s
  <2>1. Shorter(t, 1) = [k \in 1 .. Len(s) |-> IF k < 1 THEN t[k] ELSE t[k + 1]]
    BY <1>1, <1>3 DEF Shorter
  <2>2. \A k \in 1 .. Len(s) : (IF k < 1 THEN t[k] ELSE t[k + 1]) = s[k]
    BY <1>1, <1>5
  <2>3. s = [k \in 1 .. Len(s) |-> s[k]]
    OBVIOUS
  <2> QED
    BY <2>1, <2>2, <2>3
<1> QED
  BY <1>2, <1>5, <1>6

Counted == [x \in Buffer |-> header[x].count]
Others(x) == Promise!Without(Listed, x)

\* Every listed buffer's header points at its node.
Own(N) == \A n \in N : deque.value[n] \in Buffer /\ NodeOf(deque.value[n]) = n

\* The list is in the order of the counts, which only LFU keeps, and no stamp is
\* later than the clock.
InOrder ==
    /\ Sorted(Listed, Counted)
    /\ \A x \in Buffer : /\ kind # "LFU" => header[x].count = 0
                         /\ header[x].stamp <= clock

\* The list, node by node.
LEMMA ListedFacts ==
    ASSUME NEW N, Held(N), Own(N)
    PROVE  \E s : /\ Lists(deque, s) /\ N = {s[k] : k \in 1 .. deque.count}
                  /\ \A k \in 1 .. deque.count :
                        Listed[k] = deque.value[s[k]] /\ NodeOf(Listed[k]) = s[k]
                  /\ \A k \in 1 .. deque.count : s[k] \in N
                  /\ Listed \in Seq(Buffer) /\ Len(Listed) = deque.count
                  /\ deque.count \in Nat
<1>1. PICK s : Lists(deque, s) /\ N = {s[k] : k \in 1 .. deque.count}
  BY DEF Held, Holds
<1>2. deque \in Deque(Stored)
  BY HeldFacts
<1>3. PICK d : d = deque
  OBVIOUS
<1>4. /\ Contents(d) = [k \in 1 .. d.count |-> d.value[s[k]]]
      /\ d.count \in Nat
  BY <1>1, <1>2, <1>3, ListShows
<1>5. \A k \in 1 .. d.count : s[k] \in N
  BY <1>1, <1>3
<1>6. \A k \in 1 .. d.count : d.value[s[k]] \in Buffer /\ NodeOf(d.value[s[k]]) = s[k]
  BY <1>3, <1>5 DEF Own
<1>7. [k \in 1 .. d.count |-> d.value[s[k]]] \in [1 .. d.count -> Buffer]
  BY <1>6
<1>8. Contents(d) \in Seq(Buffer) /\ Len(Contents(d)) = d.count
  BY <1>4, <1>7, IsSequence
<1>9. \A k \in 1 .. d.count : Contents(d)[k] = d.value[s[k]]
  BY <1>4
<1> QED
  BY <1>1, <1>3, <1>4, <1>5, <1>6, <1>8, <1>9 DEF Listed

\* A buffer that has a node is listed once.
LEMMA ListedOnce ==
    ASSUME NEW N, Held(N), Own(N), NEW x \in Buffer, Placed(x, N), NodeOf(x) # Nil,
           NEW s, Lists(deque, s), N = {s[k] : k \in 1 .. deque.count},
           \A k \in 1 .. deque.count :
              Listed[k] = deque.value[s[k]] /\ NodeOf(Listed[k]) = s[k],
           Listed \in Seq(Buffer), Len(Listed) = deque.count
    PROVE  \E i \in 1 .. deque.count :
              /\ s[i] = NodeOf(x) /\ Listed[i] = x
              /\ \A k \in 1 .. deque.count : Listed[k] = x => k = i
              /\ Others(x) = Shorter(Listed, i)
<1>1. NodeOf(x) \in N /\ deque.value[NodeOf(x)] = x
  BY DEF Placed
<1>2. PICK i \in 1 .. deque.count : s[i] = NodeOf(x)
  BY <1>1
<1>3. Listed[i] = x
  BY <1>1, <1>2
<1>4. \A k \in 1 .. deque.count : Listed[k] = x => k = i
  BY <1>2 DEF Lists
<1>5. Promise!Without(Listed, Listed[i]) = Shorter(Listed, i)
  BY <1>3, <1>4, WithoutOne
<1> QED
  BY <1>2, <1>3, <1>4, <1>5 DEF Others

\* One that has none is not listed.
LEMMA NotListed ==
    ASSUME NEW N, Held(N), Own(N), NEW x \in Buffer, NodeOf(x) = Nil
    PROVE  Others(x) = Listed /\ \A k \in 1 .. Len(Listed) : Listed[k] # x
<1>1. PICK s : /\ \A k \in 1 .. deque.count : NodeOf(Listed[k]) = s[k] /\ s[k] \in N
               /\ Listed \in Seq(Buffer) /\ Len(Listed) = deque.count
  BY ListedFacts
<1>2. 0 \notin N
  BY HeldFacts
<1>3. \A k \in 1 .. deque.count : NodeOf(Listed[k]) # Nil
  BY <1>1, <1>2
<1>4. \A k \in 1 .. Len(Listed) : Listed[k] # x
  BY <1>1, <1>3
<1> QED
  BY <1>1, <1>4, WithoutNone DEF Others

\* What is left of the list without x.
LEMMA OthersFacts ==
    ASSUME NEW N, Held(N), Own(N), NEW x \in Buffer, Placed(x, N),
           Sorted(Listed, Counted)
    PROVE  /\ Others(x) \in Seq(Buffer)
           /\ \A k \in 1 .. Len(Others(x)) : Others(x)[k] # x
           /\ Sorted(Others(x), Counted)
<1>1. PICK s : /\ Lists(deque, s) /\ N = {s[k] : k \in 1 .. deque.count}
               /\ \A k \in 1 .. deque.count :
                     Listed[k] = deque.value[s[k]] /\ NodeOf(Listed[k]) = s[k]
               /\ Listed \in Seq(Buffer) /\ Len(Listed) = deque.count
               /\ deque.count \in Nat
  BY ListedFacts
<1>2. CASE NodeOf(x) = Nil
  BY <1>1, <1>2, NotListed
<1>3. CASE NodeOf(x) # Nil
  <2>1. PICK i \in 1 .. deque.count :
           /\ Listed[i] = x /\ Others(x) = Shorter(Listed, i)
           /\ \A k \in 1 .. deque.count : Listed[k] = x => k = i
    BY <1>1, <1>3, ListedOnce
  <2>2. PICK q, o, c : q = Listed /\ o = Others(x) /\ c = deque.count
    OBVIOUS
  <2>3. /\ q \in Seq(Buffer) /\ i \in 1 .. Len(q) /\ o = Shorter(q, i) /\ Len(q) = c
        /\ c \in Nat /\ Sorted(q, Counted) /\ \A k \in 1 .. c : q[k] = x => k = i
    BY <1>1, <2>1, <2>2
  <2>4. o \in Seq(Buffer) /\ Len(o) = c - 1
    BY <2>3, ShorterType
  <2>5. Sorted(o, Counted)
    BY <2>3, ShorterSorted
  <2>6. \A k \in 1 .. c - 1 : o[k] = IF k < i THEN q[k] ELSE q[k + 1]
    BY <2>3 DEF Shorter
  <2>7. \A k \in 1 .. c - 1 : o[k] # x
    BY <2>3, <2>6
  <2> QED
    BY <2>2, <2>4, <2>5, <2>7
<1> QED
  BY <1>2, <1>3

\* An access has put x behind the others of no higher count and before the rest.
Behind(x) ==
    \E q, o, j, c :
       /\ q = Listed' /\ o = Others(x) /\ c = Counted' /\ j \in 1 .. Len(o) + 1
       /\ q = Longer(o, j, x)
       /\ j > 1 => c[o[j - 1]] <= c[x]
       /\ j <= Len(o) => ~(c[o[j]] <= c[x])

\* What an access does to the counts and the stamps.
Kept(x) ==
    /\ kind' = kind
    /\ header' \in [Buffer -> Header]
    /\ \A y \in Buffer \ {x} : header'[y] = header[y]
    /\ header'[x].count = IF kind = "LFU" THEN header[x].count + 1 ELSE header[x].count
    /\ header'[x].stamp <= clock'
    /\ clock <= clock'

\* FIFO puts x last.
LEMMA FIFOOrder ==
    ASSUME NEW N, Held(N), Own(N), NEW x \in Buffer, Placed(x, N), FIFOUpdate(x),
           fault' # TRUE, InOrder
    PROVE  Behind(x)
<1>1. PICK s : /\ Lists(deque, s) /\ N = {s[k] : k \in 1 .. deque.count}
               /\ \A k \in 1 .. deque.count :
                     Listed[k] = deque.value[s[k]] /\ NodeOf(Listed[k]) = s[k]
               /\ \A k \in 1 .. deque.count : s[k] \in N
               /\ Listed \in Seq(Buffer) /\ Len(Listed) = deque.count
               /\ deque.count \in Nat
  BY ListedFacts
<1>2. /\ Allocate
      /\ deque' = PushLast(IF NodeOf(x) = Nil THEN deque ELSE PopAt(deque, NodeOf(x)),
                           New, x)
      /\ SetHeader(x, [header[x] EXCEPT !.node = New])
      /\ kind = "FIFO"
  BY DEF FIFOUpdate, Fault
<1>3. New \in Node \ N /\ deque \in Deque(Stored) /\ x \in Stored
  BY <1>2, HeldFacts DEF Allocate, Stored
<1>4. PICK d, n, o : d = deque /\ n = New /\ o = Others(x)
  OBVIOUS
<1>5. Contents(deque') = Longer(o, Len(o) + 1, x)
  <2>1. CASE NodeOf(x) = Nil
    <3>1. Contents(PushLast(d, n, x)) = Longer(Contents(d), d.count + 1, x)
      BY <1>1, <1>3, <1>4, LastShows
    <3>2. o = Contents(d) /\ Len(o) = d.count
      BY <1>1, <1>4, <2>1, NotListed DEF Listed
    <3> QED
      BY <1>2, <1>4, <2>1, <3>1, <3>2
  <2>2. CASE NodeOf(x) # Nil
    <3>1. PICK i \in 1 .. deque.count : s[i] = NodeOf(x) /\ Others(x) = Shorter(Listed, i)
      BY <1>1, <2>2, ListedOnce
    <3>2. PICK e : e = PopAt(d, s[i])
      OBVIOUS
    <3>3. /\ e \in Deque(Stored) /\ e.count = d.count - 1
          /\ Contents(e) = Shorter(Contents(d), i)
          /\ \E t : Lists(e, t) /\ \A k \in 1 .. e.count : \E l \in 1 .. d.count : t[k] = s[l]
      BY <1>1, <1>3, <1>4, <3>2, PopShows
    <3>4. PICK t : Lists(e, t) /\ \A k \in 1 .. e.count : \E l \in 1 .. d.count : t[k] = s[l]
      BY <3>3
    <3>5. \A k \in 1 .. e.count : t[k] # n
      BY <1>1, <1>3, <1>4, <3>4
    <3>6. Contents(PushLast(e, n, x)) = Longer(Contents(e), e.count + 1, x)
      BY <1>3, <1>4, <3>3, <3>4, <3>5, LastShows
    <3>7. Contents(e) = o
      BY <1>4, <3>1, <3>3 DEF Listed
    <3>8. Len(Contents(e)) = e.count
      BY <3>3, <3>4, ListShows
    <3> QED
      BY <1>2, <1>4, <2>2, <3>1, <3>2, <3>6, <3>7, <3>8
  <2> QED
    BY <2>1, <2>2
<1>6. o \in Seq(Buffer)
  BY <1>4, OthersFacts DEF InOrder
<1>7. \A y \in Buffer : Counted'[y] = 0
  BY <1>2 DEF InOrder, SetHeader, Counted, Held, PolicyTypeOK, Header
<1>8. PICK q, c : q = Listed' /\ c = Counted'
  OBVIOUS
<1>9. /\ Len(o) + 1 \in 1 .. Len(o) + 1 /\ ~(Len(o) + 1 <= Len(o))
      /\ Len(o) + 1 > 1 => o[(Len(o) + 1) - 1] \in Buffer
  BY <1>6
<1>10. q = Longer(o, Len(o) + 1, x)
  BY <1>5, <1>8 DEF Listed
<1> QED
  BY <1>4, <1>7, <1>8, <1>9, <1>10 DEF Behind

\* LRU does too: no stamp is later than the clock.
LEMMA LRUOrder ==
    ASSUME NEW N, Held(N), Own(N), NEW x \in Buffer, Placed(x, N), LRUUpdate(x),
           fault' # TRUE, InOrder, MaxTime < StampModulus
    PROVE  Behind(x)
<1>1. PICK s : /\ Lists(deque, s) /\ N = {s[k] : k \in 1 .. deque.count}
               /\ \A k \in 1 .. deque.count :
                     Listed[k] = deque.value[s[k]] /\ NodeOf(Listed[k]) = s[k]
               /\ \A k \in 1 .. deque.count : s[k] \in N
               /\ Listed \in Seq(Buffer) /\ Len(Listed) = deque.count
               /\ deque.count \in Nat
  BY ListedFacts
<1>2. PICK rank, h :
         /\ rank = [y \in Buffer |-> (IF y = x THEN clock' ELSE header[y].stamp)
                                        % StampModulus]
         /\ h = [header[x] EXCEPT !.stamp = clock']
  OBVIOUS
<1>3. /\ kind = "LRU" /\ clock' \in 0 .. MaxTime /\ clock <= clock'
      /\ NodeOf(x) # Nil => /\ deque' = Moved(deque, NodeOf(x), rank[x], rank)
                            /\ SetHeader(x, h)
      /\ NodeOf(x) = Nil => /\ Allocate
                            /\ deque' = PushLast(deque, New, x)
                            /\ SetHeader(x, [h EXCEPT !.node = New])
  <2>1. /\ kind = "LRU" /\ clock' \in {t \in {clock, clock + 1} : t <= MaxTime}
        /\ clock \in 0 .. MaxTime
    BY DEF LRUUpdate, Held, PolicyTypeOK
  <2>2. clock' \in 0 .. MaxTime /\ clock <= clock'
    BY <2>1, PolicyAssumption
  <2>3. /\ NodeOf(x) # Nil => /\ deque' = Moved(deque, NodeOf(x), rank[x], rank)
                              /\ SetHeader(x, h)
        /\ NodeOf(x) = Nil => /\ Allocate
                              /\ deque' = PushLast(deque, New, x)
                              /\ SetHeader(x, [h EXCEPT !.node = New])
    BY <1>2 DEF LRUUpdate
  <2> QED
    BY <2>1, <2>2, <2>3
<1>4. \A y \in Buffer : MovesOver(rank[x], rank[y])
  <2> SUFFICES ASSUME NEW y \in Buffer PROVE rank[x] >= rank[y]
    BY DEF MovesOver
  <2>1. /\ header[y].stamp \in Nat /\ header[y].stamp <= clock'
        /\ clock' \in Nat /\ clock' < StampModulus /\ StampModulus \in Nat \ {0}
    <3>1. header[y].stamp \in Nat /\ clock \in Nat
      BY PolicyAssumption DEF Held, PolicyTypeOK, Header
    <3>2. header[y].stamp <= clock /\ clock' \in Nat /\ clock' < StampModulus
      BY <1>3, PolicyAssumption DEF InOrder
    <3> QED
      BY <1>3, <3>1, <3>2, PolicyAssumption
  <2>2. \A a \in Nat : a < StampModulus => a % StampModulus = a
    BY <2>1
  <2>3. rank[x] = clock'
    BY <1>2, <2>1, <2>2
  <2>4. rank[y] = IF y = x THEN clock' ELSE header[y].stamp
    BY <1>2, <2>1, <2>2
  <2> QED
    BY <2>1, <2>3, <2>4
<1>5. PICK d, n, o : d = deque /\ n = New /\ o = Others(x)
  OBVIOUS
<1>6. deque \in Deque(Stored) /\ x \in Stored
  BY HeldFacts DEF Stored
<1>7. Contents(deque') = Longer(o, Len(o) + 1, x)
  <2>1. CASE NodeOf(x) = Nil
    <3>1. New \in Node \ N
      BY <1>3, <2>1, HeldFacts DEF Allocate
    <3>2. Contents(PushLast(d, n, x)) = Longer(Contents(d), d.count + 1, x)
      BY <1>1, <1>5, <1>6, <3>1, LastShows
    <3>3. o = Contents(d) /\ Len(o) = d.count
      BY <1>1, <1>5, <2>1, NotListed DEF Listed
    <3> QED
      BY <1>3, <1>5, <2>1, <3>2, <3>3
  <2>2. CASE NodeOf(x) # Nil
    <3>1. PICK i \in 1 .. deque.count :
             s[i] = NodeOf(x) /\ Listed[i] = x /\ Others(x) = Shorter(Listed, i)
      BY <1>1, <2>2, ListedOnce
    <3>2. PICK q, own : q = Contents(d) /\ own = rank[x]
      OBVIOUS
    <3>3. /\ Lists(d, s) /\ i \in 1 .. d.count /\ d \in Deque(Stored)
          /\ q \in Seq(Buffer) /\ Len(q) = d.count /\ d.count \in Nat
          /\ q[i] = x /\ o = Shorter(q, i)
      BY <1>1, <1>5, <1>6, <3>1, <3>2 DEF Listed
    <3>4. PICK j \in i .. d.count :
             /\ Contents(Moved(d, s[i], own, rank)) = Longer(Shorter(q, i), j, q[i])
             /\ j > i => MovesOver(own, rank[q[j]])
             /\ j < d.count => ~MovesOver(own, rank[q[j + 1]])
      <4>1. q = Contents(d) /\ d \in Deque(Stored) /\ Lists(d, s) /\ i \in 1 .. d.count
        BY <3>2, <3>3
      <4>2. \E j \in i .. d.count :
               /\ Contents(Moved(d, s[i], own, rank))
                     = Longer(Shorter(Contents(d), i), j, Contents(d)[i])
               /\ j > i => MovesOver(own, rank[Contents(d)[j]])
               /\ j < d.count => ~MovesOver(own, rank[Contents(d)[j + 1]])
        BY <4>1, MovedShows, Zenon
      <4> QED
        BY <4>1, <4>2
    <3>5. j = d.count
      BY <1>4, <3>2, <3>3, <3>4
    <3>6. Len(o) + 1 = d.count
      BY <3>3, ShorterType
    <3> QED
      BY <1>3, <1>5, <2>2, <3>1, <3>2, <3>3, <3>4, <3>5, <3>6
  <2> QED
    BY <2>1, <2>2
<1>8. o \in Seq(Buffer)
  BY <1>5, OthersFacts DEF InOrder
<1>9. \A y \in Buffer : Counted'[y] = 0
  <2>1. header \in [Buffer -> Header] /\ h.count = header[x].count
        /\ [h EXCEPT !.node = New].count = header[x].count
    BY <1>2 DEF Held, PolicyTypeOK, Header
  <2>2. header' = [header EXCEPT ![x] = h] \/ header' = [header EXCEPT ![x] = [h EXCEPT !.node = New]]
    BY <1>3 DEF SetHeader
  <2>3. \A y \in Buffer : header'[y].count = header[y].count
    BY <2>1, <2>2
  <2> QED
    BY <1>3, <2>3 DEF InOrder, Counted
<1>10. PICK q, c : q = Listed' /\ c = Counted'
  OBVIOUS
<1>11. /\ Len(o) + 1 \in 1 .. Len(o) + 1 /\ ~(Len(o) + 1 <= Len(o))
       /\ Len(o) + 1 > 1 => o[(Len(o) + 1) - 1] \in Buffer
  BY <1>8
<1>12. q = Longer(o, Len(o) + 1, x)
  BY <1>7, <1>10 DEF Listed
<1> QED
  BY <1>5, <1>9, <1>10, <1>11, <1>12 DEF Behind

\* LFU puts x behind those accessed at most as often.
LEMMA LFUOrder ==
    ASSUME NEW N, Held(N), Own(N), NEW x \in Buffer, Placed(x, N), LFUUpdate(x),
           fault' # TRUE, InOrder
    PROVE  Behind(x)
<1>1. PICK s : /\ Lists(deque, s) /\ N = {s[k] : k \in 1 .. deque.count}
               /\ \A k \in 1 .. deque.count :
                     Listed[k] = deque.value[s[k]] /\ NodeOf(Listed[k]) = s[k]
               /\ \A k \in 1 .. deque.count : s[k] \in N
               /\ Listed \in Seq(Buffer) /\ Len(Listed) = deque.count
               /\ deque.count \in Nat
  BY ListedFacts
<1>2. PICK rank, h :
         /\ h = [header[x] EXCEPT !.count = @ + 1]
         /\ rank = [y \in Buffer |-> IF y = x THEN h.count ELSE header[y].count]
  OBVIOUS
<1>3. /\ NodeOf(x) # Nil => /\ deque' = Moved(deque, NodeOf(x), h.count, rank)
                            /\ SetHeader(x, h)
      /\ NodeOf(x) = Nil => /\ Allocate
                            /\ deque' = Moved(PushFirst(deque, New, x), New, h.count, rank)
                            /\ SetHeader(x, [h EXCEPT !.node = New])
  <2>1. LET g == [header[x] EXCEPT !.count = @ + 1]
            r == [y \in Buffer |-> IF y = x THEN g.count ELSE header[y].count]
        IN /\ NodeOf(x) # Nil => /\ deque' = Moved(deque, NodeOf(x), g.count, r)
                                 /\ SetHeader(x, g)
           /\ NodeOf(x) = Nil => /\ Allocate
                                 /\ deque' = Moved(PushFirst(deque, New, x), New, g.count, r)
                                 /\ SetHeader(x, [g EXCEPT !.node = New])
    BY DEF LFUUpdate, Fault
  <2> QED
    BY <1>2, <2>1
<1>4. PICK d, n, o, q, own, cnt :
         /\ d = deque /\ n = New /\ o = Others(x) /\ q = Contents(deque) /\ own = h.count
         /\ cnt = Counted
  OBVIOUS
<1>5. /\ deque \in Deque(Stored) /\ x \in Stored /\ Buffer \subseteq Stored
      /\ header \in [Buffer -> Header]
  BY HeldFacts DEF Held, PolicyTypeOK, Stored
<1>6. /\ d \in Deque(Stored) /\ Lists(d, s) /\ d.count \in Nat
      /\ q = Contents(d) /\ q \in Seq(Buffer) /\ Len(q) = d.count
  BY <1>1, <1>4, <1>5 DEF Listed
<1>7. /\ own = header[x].count + 1 /\ header[x].count \in Nat
      /\ rank = [y \in Buffer |-> IF y = x THEN own ELSE header[y].count]
  BY <1>2, <1>4, <1>5 DEF Header
<1>8. PICK c : c = Counted'
  OBVIOUS
<1>9. /\ c = rank /\ \A y \in Buffer : y # x => c[y] = cnt[y]
      /\ c[x] = own /\ own = cnt[x] + 1 /\ cnt \in [Buffer -> Nat] /\ c \in [Buffer -> Nat]
  <2>1. /\ header' = [header EXCEPT ![x] = h]
           \/ header' = [header EXCEPT ![x] = [h EXCEPT !.node = New]]
    BY <1>3 DEF SetHeader
  <2>2. h.count = own /\ [h EXCEPT !.node = New].count = own
    BY <1>2, <1>4, <1>5 DEF Header
  <2>3. \A y \in Buffer : header'[y].count = IF y = x THEN own ELSE header[y].count
    BY <1>5, <2>1, <2>2
  <2>4. \A y \in Buffer : header[y].count \in Nat
    BY <1>5 DEF Header
  <2>5. c = rank
    BY <1>7, <1>8, <2>3 DEF Counted
  <2>6. cnt = [y \in Buffer |-> header[y].count]
    BY <1>4 DEF Counted
  <2> QED
    BY <1>7, <2>4, <2>5, <2>6
<1>10. \E j \in 1 .. Len(o) + 1 :
          /\ Contents(deque') = Longer(o, j, x)
          /\ j > 1 => c[o[j - 1]] <= c[x]
          /\ j <= Len(o) => ~(c[o[j]] <= c[x])
  <2>1. CASE NodeOf(x) = Nil
    <3>1. n \in Node \ N /\ n = New
      BY <1>3, <1>4, <2>1, HeldFacts DEF Allocate
    <3>2. PICK e : e = PushFirst(d, n, x)
      OBVIOUS
    <3>3. /\ e \in Deque(Stored) /\ e.count = d.count + 1
          /\ Contents(e) = Longer(Contents(d), 1, x)
          /\ \E t : Lists(e, t) /\ t[1] = n
      <4>1. \A k \in 1 .. d.count : s[k] # n
        BY <1>1, <1>4, <3>1
      <4> QED
        BY <1>5, <1>6, <3>1, <3>2, <4>1, FirstShows
    <3>4. PICK t : Lists(e, t) /\ t[1] = n
      BY <3>3
    <3>5. PICK p : p = Contents(e)
      OBVIOUS
    <3>6. p = Longer(q, 1, x)
      BY <1>6, <3>3, <3>5
    <3>7. /\ Shorter(p, 1) = q /\ p[1] = x
          /\ \A k \in 2 .. d.count + 1 : p[k] = q[k - 1]
      BY <1>6, <3>6, ShorterLonger
    <3>8. PICK j \in 1 .. e.count :
             /\ Contents(Moved(e, t[1], own, rank)) = Longer(Shorter(p, 1), j, p[1])
             /\ j > 1 => MovesOver(own, rank[p[j]])
             /\ j < e.count => ~MovesOver(own, rank[p[j + 1]])
      <4>1. e \in Deque(Stored) /\ Lists(e, t) /\ 1 \in 1 .. e.count
        BY <1>6, <3>3, <3>4
      <4>2. PICK i : i = 1
        OBVIOUS
      <4>3. e \in Deque(Stored) /\ Lists(e, t) /\ i \in 1 .. e.count
        BY <4>1, <4>2
      <4>4. \E j \in i .. e.count :
               /\ Contents(Moved(e, t[i], own, rank))
                     = Longer(Shorter(Contents(e), i), j, Contents(e)[i])
               /\ j > i => MovesOver(own, rank[Contents(e)[j]])
               /\ j < e.count => ~MovesOver(own, rank[Contents(e)[j + 1]])
        BY <4>3, MovedShows, Zenon
      <4> QED
        BY <3>5, <4>2, <4>4
    <3>9. o = q /\ \A k \in 1 .. Len(q) : q[k] # x
      BY <1>4, <2>1, NotListed DEF Listed
    <3>10. Contents(deque') = Longer(o, j, x)
      BY <1>3, <1>4, <2>1, <3>1, <3>2, <3>4, <3>7, <3>8, <3>9
    <3>11. j \in 1 .. Len(o) + 1
      BY <1>6, <3>3, <3>8, <3>9
    <3>12. j > 1 => c[o[j - 1]] <= c[x]
      <4> SUFFICES ASSUME j > 1 PROVE c[o[j - 1]] <= c[x]
        OBVIOUS
      <4>1. p[j] = o[j - 1]
        BY <1>6, <3>3, <3>7, <3>8, <3>9
      <4> QED
        BY <1>9, <3>8, <4>1 DEF MovesOver
    <3>13. j <= Len(o) => ~(c[o[j]] <= c[x])
      <4> SUFFICES ASSUME j <= Len(o) PROVE ~(c[o[j]] <= c[x])
        OBVIOUS
      <4>1. j + 1 \in 2 .. d.count + 1 /\ (j + 1) - 1 = j /\ j < e.count
        BY <1>6, <3>3, <3>8, <3>9
      <4>2. p[j + 1] = o[j]
        BY <3>7, <3>9, <4>1
      <4> QED
        BY <1>9, <3>8, <4>1, <4>2 DEF MovesOver
    <3> QED
      BY <3>10, <3>11, <3>12, <3>13
  <2>2. CASE NodeOf(x) # Nil
    <3>1. PICK i \in 1 .. deque.count :
             /\ s[i] = NodeOf(x) /\ Listed[i] = x /\ Others(x) = Shorter(Listed, i)
             /\ \A k \in 1 .. deque.count : Listed[k] = x => k = i
      BY <1>1, <2>2, ListedOnce
    <3>2. /\ i \in 1 .. d.count /\ q[i] = x /\ o = Shorter(q, i)
          /\ \A k \in 1 .. d.count : q[k] = x => k = i
      BY <1>4, <3>1 DEF Listed
    <3>3. PICK j \in i .. d.count :
             /\ Contents(Moved(d, s[i], own, rank)) = Longer(Shorter(q, i), j, q[i])
             /\ j > i => MovesOver(own, rank[q[j]])
             /\ j < d.count => ~MovesOver(own, rank[q[j + 1]])
      <4>1. d \in Deque(Stored) /\ Lists(d, s) /\ i \in 1 .. d.count
        BY <1>6, <3>2
      <4>2. \E j \in i .. d.count :
               /\ Contents(Moved(d, s[i], own, rank))
                     = Longer(Shorter(Contents(d), i), j, Contents(d)[i])
               /\ j > i => MovesOver(own, rank[Contents(d)[j]])
               /\ j < d.count => ~MovesOver(own, rank[Contents(d)[j + 1]])
        BY <4>1, MovedShows, Zenon
      <4> QED
        BY <1>6, <4>2
    <3>4. Contents(deque') = Longer(o, j, x)
      BY <1>3, <1>4, <2>2, <3>1, <3>2, <3>3
    <3>5. Len(o) + 1 = d.count
      BY <1>6, <3>2, ShorterType
    <3>6. \A k \in 1 .. d.count - 1 : o[k] = IF k < i THEN q[k] ELSE q[k + 1]
      BY <1>6, <3>2 DEF Shorter
    <3>7. j > 1 => c[o[j - 1]] <= c[x]
      <4>1. CASE j > i
        <5>0. /\ j - 1 \in 1 .. d.count - 1 /\ ~(j - 1 < i) /\ (j - 1) + 1 = j
              /\ j \in 1 .. Len(q)
          BY <1>6, <3>2, <4>1
        <5>1. o[j - 1] = q[j] /\ q[j] \in Buffer
          <6>1. o[j - 1] = q[j]
            BY <3>6, <5>0
          <6>2. q[j] \in Buffer
            BY <1>6, <5>0
          <6> QED
            BY <6>1, <6>2
        <5> QED
          BY <1>9, <3>3, <4>1, <5>1 DEF MovesOver
      <4>2. CASE j = i /\ j > 1
        <5>1. o[j - 1] = q[i - 1] /\ q[i - 1] \in Buffer /\ i - 1 \in 1 .. Len(q)
          BY <1>6, <3>2, <3>6, <4>2
        <5>2. cnt[q[i - 1]] <= cnt[q[i]]
          BY <1>4, <1>6, <3>2, <5>1 DEF InOrder, Sorted, Listed
        <5>3. q[i - 1] # x
          BY <1>6, <3>2, <5>1
        <5> QED
          BY <1>9, <3>2, <5>1, <5>2, <5>3
      <4> QED
        BY <1>6, <3>2, <4>1, <4>2
    <3>8. j <= Len(o) => ~(c[o[j]] <= c[x])
      <4> SUFFICES ASSUME j <= Len(o) PROVE ~(c[o[j]] <= c[x])
        OBVIOUS
      <4>1. o[j] = q[j + 1] /\ j < d.count /\ q[j + 1] \in Buffer
        BY <1>6, <3>2, <3>5, <3>6
      <4> QED
        BY <1>9, <3>3, <4>1 DEF MovesOver
    <3>9. j \in 1 .. Len(o) + 1
      BY <1>6, <3>2, <3>5
    <3> QED
      BY <3>4, <3>7, <3>8, <3>9
  <2> QED
    BY <2>1, <2>2
<1> QED
  BY <1>4, <1>8, <1>10 DEF Behind, Listed

\* Only LFU counts, only LRU stamps, and nobody's clock goes back.
LEMMA AccessKept ==
    ASSUME NEW N, Held(N), NEW x \in Buffer, UpdateAccessInfo(x), fault' # TRUE, InOrder
    PROVE  Kept(x)
<1>1. /\ header \in [Buffer -> Header] /\ New \in Nat /\ clock \in Nat
      /\ clock \in 0 .. MaxTime /\ MaxTime \in Nat
  BY PolicyAssumption, DequeAssumption DEF Held, PolicyTypeOK, New
<1>2. header[x] \in Header /\ header[x].stamp <= clock /\ x \in Buffer
  BY <1>1 DEF InOrder
<1>3. CASE FIFOUpdate(x)
  <2>1. /\ header' = [header EXCEPT ![x] = [header[x] EXCEPT !.node = New]]
        /\ kind' = kind /\ kind = "FIFO" /\ clock' = clock /\ Allocate
    BY <1>3 DEF FIFOUpdate, Fault, SetHeader
  <2>2. PICK h : h = [header[x] EXCEPT !.node = New]
    OBVIOUS
  <2>3. h \in Header /\ h.count = header[x].count /\ h.stamp = header[x].stamp
    BY <1>1, <1>2, <2>1, <2>2, HeldFacts DEF Header, Allocate, Pointer
  <2>4. header' = [header EXCEPT ![x] = h]
    BY <2>1, <2>2
  <2> QED
    BY <1>1, <1>2, <2>1, <2>3, <2>4 DEF Kept
<1>4. CASE LFUUpdate(x)
  <2>1. PICK h : h = [header[x] EXCEPT !.count = @ + 1]
    OBVIOUS
  <2>2. h \in Header /\ h.count = header[x].count + 1 /\ h.stamp = header[x].stamp
    BY <1>2, <2>1 DEF Header
  <2>3. /\ kind' = kind /\ kind = "LFU" /\ clock' = clock
        /\ \/ header' = [header EXCEPT ![x] = h]
           \/ header' = [header EXCEPT ![x] = [h EXCEPT !.node = New]] /\ Allocate
    <3>1. LET g == [header[x] EXCEPT !.count = @ + 1]
          IN /\ kind' = kind /\ kind = "LFU" /\ clock' = clock
             /\ \/ header' = [header EXCEPT ![x] = g]
                \/ header' = [header EXCEPT ![x] = [g EXCEPT !.node = New]] /\ Allocate
      BY <1>4 DEF LFUUpdate, Fault, SetHeader
    <3> QED
      BY <2>1, <3>1
  <2>4. PICK g : /\ g \in {h, [h EXCEPT !.node = New]}
                 /\ header' = [header EXCEPT ![x] = g]
                 /\ g = h \/ Allocate
    BY <2>3
  <2>5. g \in Header /\ g.count = h.count /\ g.stamp = h.stamp
    BY <2>2, <2>4, HeldFacts DEF Header, Allocate, Pointer
  <2> QED
    BY <1>1, <1>2, <2>2, <2>3, <2>4, <2>5 DEF Kept
<1>5. CASE LRUUpdate(x)
  <2>1. PICK h : h = [header[x] EXCEPT !.stamp = clock']
    OBVIOUS
  <2>2. /\ kind' = kind /\ kind = "LRU"
        /\ clock' \in {t \in {clock, clock + 1} : t <= MaxTime}
        /\ \/ header' = [header EXCEPT ![x] = h]
           \/ header' = [header EXCEPT ![x] = [h EXCEPT !.node = New]] /\ Allocate
    BY <1>5, <2>1 DEF LRUUpdate, SetHeader
  <2>3. clock' \in Nat /\ clock <= clock'
    BY <1>1, <2>2
  <2>4. h \in Header /\ h.count = header[x].count /\ h.stamp = clock'
    BY <1>2, <2>1, <2>3 DEF Header
  <2>5. PICK g : /\ g \in {h, [h EXCEPT !.node = New]}
                 /\ header' = [header EXCEPT ![x] = g]
                 /\ g = h \/ Allocate
    BY <2>2
  <2>6. g \in Header /\ g.count = h.count /\ g.stamp = h.stamp
    BY <2>4, <2>5, HeldFacts DEF Header, Allocate, Pointer
  <2> QED
    BY <1>1, <1>2, <2>2, <2>3, <2>4, <2>5, <2>6 DEF Kept
<1> QED
  BY <1>3, <1>4, <1>5 DEF UpdateAccessInfo

\* Under LRU the clock stays below what stamps are compared modulo.
Stamped == kind = "LRU" => MaxTime < StampModulus

\* An access is one of the abstract policy, and leaves the list in order.
LEMMA AccessOrders ==
    ASSUME NEW N, Held(N), Own(N), NEW x \in Buffer, Placed(x, N), UpdateAccessInfo(x),
           fault' # TRUE, InOrder, Stamped
    PROVE  Promise!Access(x) /\ InOrder'
<1>1. Kept(x)
  BY AccessKept
<1>2. Behind(x)
  <2>1. CASE LRUUpdate(x)
    <3>1. MaxTime < StampModulus
      BY <2>1 DEF Stamped, LRUUpdate
    <3> QED
      BY <2>1, <3>1, LRUOrder
  <2> QED
    BY <2>1, FIFOOrder, LFUOrder DEF UpdateAccessInfo
<1>3. PICK q, o, j, c :
         /\ q = Listed' /\ o = Others(x) /\ c = Counted' /\ j \in 1 .. Len(o) + 1
         /\ q = Longer(o, j, x)
         /\ j > 1 => c[o[j - 1]] <= c[x]
         /\ j <= Len(o) => ~(c[o[j]] <= c[x])
  BY <1>2 DEF Behind
<1>4. /\ o \in Seq(Buffer) /\ Sorted(o, Counted) /\ Len(o) \in Nat
      /\ \A k \in 1 .. Len(o) : o[k] # x
  BY <1>3, OthersFacts DEF InOrder
<1>5. /\ header \in [Buffer -> Header] /\ header' \in [Buffer -> Header]
      /\ \A y \in Buffer \ {x} : header'[y] = header[y]
      /\ header'[x].count = IF kind = "LFU" THEN header[x].count + 1 ELSE header[x].count
      /\ kind' = kind
  BY <1>1 DEF Kept, Held, PolicyTypeOK
<1>6. c \in [Buffer -> Nat] /\ \A y \in Buffer : y # x => c[y] = Counted[y]
  BY <1>3, <1>5 DEF Counted, Header
<1>7. Sorted(o, c)
  <2>1. \A k \in 1 .. Len(o) : c[o[k]] = Counted[o[k]]
    BY <1>4, <1>6
  <2> QED
    BY <1>4, <2>1 DEF Sorted
<1>8. \A k \in 1 .. Len(o) : k < j <=> c[o[k]] <= c[x]
  BY <1>3, <1>4, <1>6, <1>7, SortedPlace
<1>9. Sorted(q, c)
  BY <1>3, <1>4, <1>6, <1>7, <1>8, LongerSorted
<1>10. InOrder'
  <2>1. Sorted(Listed, Counted)'
    BY <1>3, <1>9 DEF Sorted
  <2>2. ASSUME NEW y \in Buffer
        PROVE  (kind' # "LFU" => header'[y].count = 0) /\ header'[y].stamp <= clock'
    <3>1. CASE y = x
      BY <1>1, <1>5, <3>1 DEF Kept, InOrder
    <3>2. CASE y # x
      <4>1. header[y].stamp \in Nat /\ clock \in Nat /\ clock' \in Nat
        <5>1. clock' \in Nat
          <6>1. clock' = clock \/ clock' = clock + 1
            BY DEF UpdateAccessInfo, FIFOUpdate, LFUUpdate, LRUUpdate, Fault
          <6> QED
            BY <6>1, PolicyAssumption DEF Held, PolicyTypeOK
        <5> QED
          BY <1>5, <5>1, PolicyAssumption DEF Held, PolicyTypeOK, Header
      <4>2. header'[y] = header[y] /\ clock <= clock' /\ header[y].stamp <= clock
        BY <1>1, <3>2 DEF Kept, InOrder
      <4> QED
        BY <1>5, <4>1, <4>2 DEF InOrder
    <3> QED
      BY <3>1, <3>2
  <2>3. \A y \in Buffer : (kind' # "LFU" => header'[y].count = 0)
                          /\ header'[y].stamp <= clock'
    BY <2>2
  <2> QED
    BY <2>1, <2>3 DEF InOrder
<1>11. Promise!Access(x)
  <2>1. Promise!InsertAt(o, j, x) = Longer(o, j, x)
    BY <1>3, <1>4, InsertingAt
  <2>2. Counted' = [Counted EXCEPT ![x] = IF kind = "LFU" THEN @ + 1 ELSE @]
    BY <1>5 DEF Counted
  <2>3. \E i \in 1 .. Len(Others(x)) + 1 :
           /\ \A k \in DOMAIN Others(x) :
                 k < i <=> Counted'[Others(x)[k]] <= Counted'[x]
           /\ Listed' = Promise!InsertAt(Others(x), i, x)
    <3>1. DOMAIN o = 1 .. Len(o)
      BY <1>4
    <3> QED
      BY <1>3, <1>8, <2>1, <3>1
  <2> QED
    BY <1>5, <2>2, <2>3 DEF Promise!Access, Others, Counted
<1> QED
  BY <1>10, <1>11

\* So is an eviction.
LEMMA DeleteOrders ==
    ASSUME NEW N, Held(N), Own(N), NEW x \in Buffer, Placed(x, N), DeleteAt(x),
           fault' # TRUE, InOrder
    PROVE  Promise!Evict(x) /\ InOrder'
<1>1. CASE NodeOf(x) = Nil
  <2>1. UNCHANGED policyVars
    BY <1>1 DEF DeleteAt, FIFODeleteAt, LFUDeleteAt, LRUDeleteAt, Fault
  <2>2. UNCHANGED <<deque, header, kind, clock>>
    BY <2>1 DEF policyVars
  <2>3. Others(x) = Listed
    BY <1>1, NotListed
  <2>4. Listed' = Listed /\ Counted' = Counted
    BY <2>2 DEF Listed, Counted
  <2>5. Promise!Evict(x)
    BY <2>2, <2>3, <2>4 DEF Promise!Evict, Others, Counted
  <2>6. InOrder'
    BY <2>2, <2>4 DEF InOrder, Sorted
  <2> QED
    BY <2>5, <2>6
<1>2. CASE NodeOf(x) # Nil
  <2>1. PICK n : TakeOut(x, n)
    BY <1>2 DEF DeleteAt, FIFODeleteAt, LFUDeleteAt, LRUDeleteAt, Fault
  <2>2. PICK s : /\ Lists(deque, s) /\ N = {s[k] : k \in 1 .. deque.count}
                 /\ \A k \in 1 .. deque.count :
                       Listed[k] = deque.value[s[k]] /\ NodeOf(Listed[k]) = s[k]
                 /\ Listed \in Seq(Buffer) /\ Len(Listed) = deque.count
                 /\ deque.count \in Nat
    BY ListedFacts
  <2>3. PICK i \in 1 .. deque.count : s[i] = NodeOf(x) /\ Others(x) = Shorter(Listed, i)
    BY <1>2, <2>2, ListedOnce
  <2>4. Contents(PopAt(deque, s[i])) = Shorter(Contents(deque), i)
    <3>1. PICK d : d = deque
      OBVIOUS
    <3>2. d \in Deque(Stored) /\ Lists(d, s) /\ i \in 1 .. d.count
      BY <2>2, <2>3, <3>1, HeldFacts
    <3> QED
      BY <3>1, <3>2, PopShows
  <2>5. deque' = PopAt(deque, NodeOf(x)) /\ UNCHANGED <<kind, clock>>
    BY <2>1 DEF TakeOut
  <2>6. Listed' = Others(x)
    BY <2>3, <2>4, <2>5 DEF Listed
  <2>7. \A y \in Buffer : header'[y].count = header[y].count /\ header'[y].stamp = header[y].stamp
    <3>1. PICK h : h = [header[x] EXCEPT !.node = n]
      OBVIOUS
    <3>2. header \in [Buffer -> Header] /\ header' = [header EXCEPT ![x] = h]
      BY <2>1, <3>1 DEF TakeOut, SetHeader, Held, PolicyTypeOK
    <3>3. h.count = header[x].count /\ h.stamp = header[x].stamp
      BY <3>1, <3>2 DEF Header
    <3> QED
      BY <3>2, <3>3
  <2>8. Counted' = Counted
    BY <2>7 DEF Counted
  <2>9. Promise!Evict(x)
    BY <2>5, <2>6, <2>8 DEF Promise!Evict, Others, Counted
  <2>10. InOrder'
    <3>1. Sorted(Others(x), Counted)
      BY OthersFacts DEF InOrder
    <3>2. Sorted(Listed, Counted)'
      BY <2>6, <2>8, <3>1 DEF Sorted
    <3> QED
      BY <2>5, <2>7, <3>2 DEF InOrder
  <2> QED
    BY <2>9, <2>10
<1> QED
  BY <1>1, <1>2
-----------------------------------------------------------------------------
(* The theorems                                                             *)

\* Every step, until one is late.
LEMMA NextGood ==
    ASSUME IInv, [Next]_vars
    PROVE  IInv'
<1> SUFFICES ASSUME InTime' PROVE \E P \in SUBSET Node : Good(P)'
  BY DEF IInv
<1>1. ~late' /\ ~fault' /\ fault' # TRUE
  BY DEF InTime
<1>2. CASE UNCHANGED vars
  <2>1. PICK N \in SUBSET Node : Good(N)
    BY <1>2 DEF IInv, InTime, vars, policyVars, cacheVars
  <2>2. UNCHANGED <<kind, deque, nnode, freed, header, clock, fault,
                    map, blockOf, nbuf, pending, main, hits, late>>
    BY <1>2 DEF vars, policyVars, cacheVars
  <2>3. Held(N)' /\ CacheTypeOK' /\ MapIsRight' /\ NewBuffers'
    BY <2>1, <2>2 DEF Good, Held, PolicyTypeOK, CacheTypeOK, MapIsRight, NewBuffers, NodeOf
  <2>4. Matched(N)' /\ Found(N)'
    BY <2>1, <2>2 DEF Good, Matched, Placed, Found, Unknown, At, IsCached, NodeOf
  <2> QED
    BY <2>3, <2>4 DEF Good
<1>3. CASE Stopped
  BY <1>1, <1>3 DEF Stopped, vars, policyVars
<1>4. CASE ~fault /\ \E b \in Block : Hit(b) \/ Miss(b)
  <2>1. PICK b \in Block : Hit(b) \/ Miss(b)
    BY <1>4
  <2>2. ~late
    BY <1>1, <2>1 DEF Hit, Miss
  <2>3. PICK N \in SUBSET Node : Good(N)
    BY <1>4, <2>2 DEF IInv, InTime
  <2> QED
    BY <1>1, <2>1, <2>3, HitGood, MissGood
<1>5. CASE ~fault /\ (FindNode \/ ReadValue \/ DeleteMemoryBuffer \/ Put)
  <2>1. ~late
    BY <1>1, <1>5 DEF FindNode, ReadValue, DeleteMemoryBuffer, Put
  <2>2. PICK N \in SUBSET Node : Good(N)
    BY <1>5, <2>1 DEF IInv, InTime
  <2> QED
    BY <1>1, <1>5, <2>2, FindNodeGood, ReadValueGood, DeleteGood, PutGood
<1>6. CASE ~fault /\ \E x \in pending : UpdateThread(x)
  <2>1. PICK x \in pending : UpdateThread(x)
    BY <1>6
  <2>2. ~late
    BY <1>1, <2>1 DEF UpdateThread
  <2>3. PICK N \in SUBSET Node : Good(N)
    BY <1>6, <2>2 DEF IInv, InTime
  <2> QED
    BY <1>1, <2>1, <2>3, UpdateThreadGood
<1> QED
  BY <1>2, <1>3, <1>4, <1>5, <1>6 DEF Next

\* The invariant holds.
LEMMA AlwaysGood == Spec => []IInv
<1>1. Init => IInv
  BY InitGood DEF IInv
<1>2. IInv /\ [Next]_vars => IInv'
  BY NextGood
<1> QED
  BY <1>1, <1>2, PTL DEF Spec

\* Every variable of the policies keeps its type, late threads or not: the count
\* of the deque does not fall below zero and no pointer leaves the nodes, however
\* often a node is popped that is not in the list any more
\* (replacement_policy.c, doubly_linked_deque.c).
THEOREM PolicyTypes == Spec => []TypeOK
<1>1. Typed => TypeOK
  BY DEF Typed
<1> QED
  BY <1>1, InitTyped, NextTyped, PTL DEF Spec

\* Until an update thread runs after its buffer was evicted, or a freed node is
\* used, the deque can be walked in both directions, under each of the three
\* policies and however many moves, pops and pushes went before
\* (doubly_linked_deque.c).
THEOREM DequeStaysSound == Spec => []DequeSound
<1>1. IInv => DequeSound
  <2> SUFFICES ASSUME IInv, InTime PROVE Sound(deque)
    BY DEF DequeSound
  <2>1. PICK N \in SUBSET Node : Good(N)
    BY DEF IInv
  <2>2. PICK s : Lists(deque, s)
    BY <2>1 DEF Good, Held, Holds
  <2>3. deque \in Deque(Stored)
    BY <2>1, HeldFacts DEF Good
  <2> QED
    BY <2>2, <2>3, ListIsSound
<1> QED
  BY <1>1, AlwaysGood, PTL

\* Until then the list holds exactly the cached buffers whose update thread has
\* run (replacement_policy.c, memory_buffer.c).
THEOREM ListHoldsCache == Spec => []ListMatchesCache
<1>1. IInv => ListMatchesCache
  <2> SUFFICES ASSUME IInv, InTime PROVE ListMatchesCache
    BY DEF ListMatchesCache
  <2>1. PICK N \in SUBSET Node : Good(N)
    BY DEF IInv
  <2>2. PICK s : Lists(deque, s) /\ N = {s[i] : i \in 1 .. deque.count}
    BY <2>1 DEF Good, Held, Holds
  <2>3. deque \in Deque(Stored)
    BY <2>1, HeldFacts DEF Good
  <2>4. PICK nodes : nodes = Chain(deque.first, deque.next)
    OBVIOUS
  <2>5. nodes = s
    BY <2>2, <2>3, <2>4, ListIsSound
  <2>6. DOMAIN nodes = 1 .. deque.count
    BY <2>2, <2>5 DEF Lists
  <2>7. ASSUME NEW k \in DOMAIN nodes
        PROVE  /\ nodes[k] \notin freed
               /\ IsCached(deque.value[nodes[k]])
               /\ NodeOf(deque.value[nodes[k]]) = nodes[k]
    <3>1. nodes[k] \in N
      BY <2>2, <2>5, <2>6
    <3> QED
      BY <2>1, <3>1 DEF Good, Held, Matched
  <2>8. ASSUME NEW b \in Cached \ {b \in Block : map[b] \in pending}
        PROVE  \E k \in DOMAIN nodes : deque.value[nodes[k]] = map[b]
    <3>1. b \in Block /\ map[b] # NoBuffer /\ map[b] \notin pending
      BY DEF Cached
    <3>2. NodeOf(map[b]) \in N /\ deque.value[NodeOf(map[b])] = map[b]
      BY <2>1, <3>1 DEF Good, Matched, Placed
    <3>3. PICK k \in 1 .. deque.count : s[k] = NodeOf(map[b])
      BY <2>2, <3>2
    <3> QED
      BY <2>5, <2>6, <3>2, <3>3
  <2> QED
    BY <2>4, <2>7, <2>8 DEF ListMatchesCache
<1> QED
  BY <1>1, AlwaysGood, PTL

\* Until then a miss on a full cache finds a victim unless no cached buffer is
\* listed yet, and the victim leaves the map (memory_buffer.c:225).
THEOREM MissesMakeRoom == Spec => MissMakesRoom
<1>1. IInv /\ [Next]_vars =>
         [InTime' =>
             /\ At("find") /\ At("put")' => \A b \in Cached : map[b] \in pending
             /\ At("delete") /\ At("put")' => Cached' \subseteq Cached /\ Cached' # Cached]_vars
  <2> SUFFICES ASSUME IInv, Next, InTime', ~UNCHANGED vars
               PROVE  /\ At("find") /\ At("put")' => \A b \in Cached : map[b] \in pending
                      /\ At("delete") /\ At("put")' =>
                            Cached' \subseteq Cached /\ Cached' # Cached
    OBVIOUS
  <2>1. ~late' /\ ~fault' /\ fault' # TRUE
    BY DEF InTime
  <2>2. ASSUME At("find"), At("put")'
        PROVE  \A b \in Cached : map[b] \in pending
    <3>1. FindNode /\ ~late /\ ~fault
      BY <2>1, <2>2 DEF Next, Stopped, Hit, Miss, FindNode, ReadValue, DeleteMemoryBuffer,
                        Put, UpdateThread, At
    <3>2. PICK N \in SUBSET Node : Good(N)
      BY <3>1 DEF IInv, InTime
    <3>3. EvictableNode = Nil
      BY <2>2, <3>1, <3>2 DEF FindNode, At, Good, CacheTypeOK
    <3>4. deque \in Deque(Stored) /\ Holds(deque, N)
      BY <3>2, HeldFacts DEF Good, Held
    <3>5. PICK d : d = deque
      OBVIOUS
    <3>6. d.first = Nil <=> N = {}
      BY <3>4, <3>5, HeldNodes
    <3>7. N = {}
      BY <3>3, <3>5, <3>6 DEF EvictableNode
    <3> QED
      BY <3>2, <3>7 DEF Good, Matched, Placed, Cached
  <2>3. ASSUME At("delete"), At("put")'
        PROVE  Cached' \subseteq Cached /\ Cached' # Cached
    <3>1. DeleteMemoryBuffer /\ ~late /\ ~fault
      BY <2>1, <2>3 DEF Next, Stopped, Hit, Miss, FindNode, ReadValue, DeleteMemoryBuffer,
                        Put, UpdateThread, At
    <3>2. PICK N \in SUBSET Node : Good(N)
      BY <3>1 DEF IInv, InTime
    <3>3. map[blockOf[main.victim]] # NoBuffer /\ blockOf[main.victim] \in Block
      BY <2>1, <3>1, <3>2, DeleteGood
    <3>4. PICK b \in Block : b = blockOf[main.victim] /\ map[b] # NoBuffer
      BY <3>3
    <3>5. map' = [map EXCEPT ![b] = NoBuffer] /\ map \in [Block -> Buffer \union {NoBuffer}]
      BY <3>1, <3>2, <3>4 DEF DeleteMemoryBuffer, Good, CacheTypeOK
    <3>6. map'[b] = NoBuffer /\ \A c \in Block \ {b} : map'[c] = map[c]
      BY <3>4, <3>5
    <3> QED
      BY <3>4, <3>6 DEF Cached
  <2> QED
    BY <2>2, <2>3
<1> QED
  BY <1>1, AlwaysGood, PTL DEF Spec, MissMakesRoom

\* What the order needs besides the list.
OrderInv == IInv /\ Stamped /\ (InTime => InOrder)

\* The step is one the abstract policy may take.
Follows == [Promise!Next \/ ~InTime']_<<deque, header>>

\* At the start the list is empty.
LEMMA InitOrder == Init => Promise!Init /\ InOrder
<1> SUFFICES ASSUME Init PROVE Promise!Init /\ InOrder
  OBVIOUS
<1>1. Good({}) /\ deque.count = 0
  BY InitGood DEF Init, PolicyInit, NewDeque
<1>2. Held({}) /\ Own({})
  BY <1>1 DEF Good, Own
<1>3. Listed \in Seq(Buffer) /\ Len(Listed) = 0
  BY <1>1, <1>2, ListedFacts
<1>4. Listed = <<>>
  BY <1>3
<1>5. \A x \in Buffer : header[x].count = 0 /\ header[x].stamp = 0 /\ clock = 0
  BY DEF Init, PolicyInit
<1>6. Promise!Init
  BY <1>4, <1>5 DEF Promise!Init
<1>7. InOrder
  BY <1>3, <1>5 DEF InOrder, Sorted
<1> QED
  BY <1>6, <1>7

\* A step that does not change the policy's variables.
LEMMA RestOrders ==
    ASSUME InOrder, UNCHANGED policyVars
    PROVE  InOrder' /\ UNCHANGED <<deque, header>>
<1>1. UNCHANGED <<deque, header, kind, clock>>
  BY DEF policyVars
<1>2. Listed' = Listed /\ Counted' = Counted
  BY <1>1 DEF Listed, Counted
<1> QED
  BY <1>1, <1>2 DEF InOrder, Sorted

\* A buffer of the map has its node in the list, if it has one.
LEMMA CachedPlaced ==
    ASSUME NEW N, Good(N), NEW x \in Buffer, NEW b \in Block, map[b] = x
    PROVE  Held(N) /\ Own(N) /\ Placed(x, N)
BY Buffers DEF Good, Matched, Own

\* Every step until one is late.
LEMMA NextOrders ==
    ASSUME IInv, Stamped, InTime => InOrder, [Next]_vars, InTime'
    PROVE  InOrder' /\ Follows
<1>1. ~late' /\ ~fault' /\ fault' # TRUE
  BY DEF InTime
<1>2. CASE UNCHANGED vars
  <2>1. UNCHANGED policyVars /\ InTime
    BY <1>1, <1>2 DEF vars, cacheVars, policyVars, InTime
  <2> QED
    BY <2>1, RestOrders DEF Follows
<1>3. CASE Stopped
  BY <1>1, <1>3 DEF Stopped, vars, policyVars
<1>4. ASSUME ~fault, NEW x \in Buffer, UpdateAccessInfo(x), IsCached(x),
             ~late
      PROVE  InOrder' /\ Follows
  <2>1. InTime
    BY <1>1, <1>4 DEF InTime
  <2>2. PICK N \in SUBSET Node : Good(N)
    BY <2>1 DEF IInv
  <2>3. blockOf[x] \in Block /\ map[blockOf[x]] = x
    BY <1>4, <2>2 DEF IsCached, Good, CacheTypeOK
  <2>4. Held(N) /\ Own(N) /\ Placed(x, N)
    BY <2>2, <2>3, CachedPlaced
  <2>5. Promise!Access(x) /\ InOrder'
    BY <1>1, <1>4, <2>1, <2>4, AccessOrders
  <2> QED
    BY <2>5 DEF Follows, Promise!Next
<1>5. CASE ~fault /\ \E b \in Block : Hit(b) \/ Miss(b)
  <2>1. PICK b \in Block : Hit(b) \/ Miss(b)
    BY <1>5
  <2>2. InTime
    BY <1>1, <1>5, <2>1 DEF Hit, Miss, InTime
  <2>3. CASE Hit(b)
    <3>1. PICK N \in SUBSET Node : Good(N)
      BY <2>2 DEF IInv
    <3>2. PICK x : x = map[b]
      OBVIOUS
    <3>3. x \in Buffer /\ blockOf[x] = b
      BY <2>3, <3>1, <3>2, Buffers DEF Hit, Good, MapIsRight, CacheTypeOK
    <3>4. UpdateAccessInfo(x) /\ IsCached(x) /\ ~late
      BY <2>2, <2>3, <3>2, <3>3 DEF Hit, IsCached, InTime
    <3> QED
      BY <1>4, <1>5, <3>3, <3>4
  <2>4. CASE Miss(b)
    BY <2>2, <2>4, RestOrders DEF Miss, Follows
  <2> QED
    BY <2>1, <2>3, <2>4
<1>6. CASE ~fault /\ (FindNode \/ ReadValue \/ Put)
  <2>1. InTime
    BY <1>1, <1>6 DEF FindNode, ReadValue, Put, InTime
  <2>2. UNCHANGED policyVars
    BY <1>1, <1>6 DEF FindNode, ReadValue, Put, Fault
  <2> QED
    BY <2>1, <2>2, RestOrders DEF Follows
<1>7. CASE ~fault /\ DeleteMemoryBuffer
  <2>1. InTime
    BY <1>1, <1>7 DEF DeleteMemoryBuffer, InTime
  <2>2. PICK N \in SUBSET Node : Good(N)
    BY <2>1 DEF IInv
  <2>3. PICK x, b : x = main.victim /\ b = blockOf[main.victim]
    OBVIOUS
  <2>4. x \in Buffer /\ b \in Block /\ map[b] = x
    BY <1>7, <2>2, <2>3 DEF DeleteMemoryBuffer, Good, Found, IsCached, CacheTypeOK
  <2>5. DeleteAt(x)
    BY <1>7, <2>3, <2>4, Buffers DEF DeleteMemoryBuffer
  <2>6. Held(N) /\ Own(N) /\ Placed(x, N)
    BY <2>2, <2>4, CachedPlaced
  <2>7. Promise!Evict(x) /\ InOrder'
    BY <1>1, <2>1, <2>4, <2>5, <2>6, DeleteOrders
  <2> QED
    BY <2>4, <2>7 DEF Follows, Promise!Next
<1>8. CASE ~fault /\ \E x \in pending : UpdateThread(x)
  <2>1. PICK x \in pending : UpdateThread(x)
    BY <1>8
  <2>2. UpdateAccessInfo(x) /\ late' = (late \/ ~IsCached(x))
    BY <2>1 DEF UpdateThread
  <2>4. IsCached(x) /\ ~late /\ InTime
    BY <1>1, <1>8, <2>2 DEF InTime
  <2>3. x \in Buffer
    BY <2>1, <2>4 DEF IInv, Good, CacheTypeOK
  <2> QED
    BY <1>4, <1>8, <2>2, <2>3, <2>4
<1> QED
  BY <1>2, <1>3, <1>5, <1>6, <1>7, <1>8 DEF Next

\* The policy of a run is not changed.
LEMMA KindStays == [Next]_vars => kind' = kind
BY DEF Next, vars, policyVars, Stopped, Hit, Miss, FindNode, ReadValue, DeleteMemoryBuffer,
       Put, UpdateThread, UpdateAccessInfo, FIFOUpdate, LFUUpdate, LRUUpdate, DeleteAt,
       FIFODeleteAt, LFUDeleteAt, LRUDeleteAt, TakeOut, Fault

\* Until then each policy's list follows the order that it promises: FIFO and LRU
\* put an accessed buffer last, LFU behind those accessed at most as often, and
\* neither an access nor an eviction disturbs the others; under LRU as long as
\* the clock stays below what its stamps are compared modulo
\* (replacement_policy.c).
THEOREM OrderKept == Spec /\ Stamped => KeepsOrder
<1>1. Init /\ Stamped => OrderInv /\ Promise!Init
  BY InitOrder, InitGood DEF OrderInv, IInv
<1>2. OrderInv /\ [Next]_vars => OrderInv' /\ Follows
  <2> SUFFICES ASSUME OrderInv, [Next]_vars PROVE OrderInv' /\ Follows
    OBVIOUS
  <2>1. IInv' /\ Stamped'
    BY NextGood, KindStays DEF OrderInv, Stamped
  <2>2. InTime' => InOrder' /\ Follows
    BY NextOrders DEF OrderInv
  <2>3. ~InTime' => Follows
    BY DEF Follows
  <2> QED
    BY <2>1, <2>2, <2>3 DEF OrderInv
<1>3. Follows => [Promise!Next \/ ~InTime']_<<deque, header>>
  BY DEF Follows
<1> QED
  BY <1>1, <1>2, <1>3, PTL DEF Spec, KeepsOrder
-----------------------------------------------------------------------------
(* Faults                                                                   *)

\* The loop of LFU and LRU ends before a node it does not move over
\* (ReplacementPolicy!Moved gives it turns enough).
LEMMA MovedRests ==
    ASSUME NEW V, NEW d \in Deque(V), NEW N, Holds(d, N), NEW n \in N, NEW own, NEW rank,
           NEW e, e = Moved(d, n, own, rank)
    PROVE  ~Movable(e, n, own, rank)
<1>1. PICK s : Lists(d, s) /\ N = {s[i] : i \in 1 .. d.count}
  BY DEF Holds
<1>2. PICK i \in 1 .. d.count : n = s[i]
  BY <1>1
<1>3. PICK c : c = d.count
  OBVIOUS
<1>4. c \in Nat /\ i \in 1 .. c
  BY <1>1, <1>2, <1>3, ListNodes
<1>5. PICK j \in i .. c :
         /\ e.value = d.value /\ e.count = c
         /\ Lists(e, Shift(s, c, i, j))
         /\ j < c => ~MovesOver(own, rank[d.value[s[j + 1]]])
  BY <1>1, <1>2, <1>3, MovedShifts
<1>6. PICK t : t = Shift(s, c, i, j)
  OBVIOUS
<1>7. j \in 1 .. c /\ t[j] = n
  BY <1>2, <1>4, <1>6 DEF Shift
<1>8. e.next[n] = IF j = c THEN Nil ELSE t[j + 1]
  BY <1>5, <1>6, <1>7 DEF Lists
<1>9. CASE j = c
  BY <1>8, <1>9 DEF Movable
<1>10. CASE j # c
  <2>1. j < c /\ j + 1 \in 1 .. c /\ j + 1 > j
    BY <1>4, <1>7, <1>10
  <2>2. t[j + 1] = s[j + 1]
    BY <1>6, <2>1 DEF Shift
  <2>3. e.next[n] = s[j + 1]
    BY <1>8, <1>10, <2>2
  <2>4. ~MovesOver(own, rank[e.value[e.next[n]]])
    BY <1>5, <2>1, <2>3
  <2> QED
    BY <2>4 DEF Movable
<1> QED
  BY <1>9, <1>10

\* A buffer whose node is in the deque has none that was freed.
LEMMA PlacedUnfreed ==
    ASSUME NEW N, Held(N), NEW x, Placed(x, N)
    PROVE  NodeOf(x) \notin freed
<1>1. freed \subseteq 1 .. nnode /\ nnode \in Nat /\ Nil \notin 1 .. nnode
  BY DequeAssumption DEF Held, PolicyTypeOK
<1>2. N \intersect freed = {}
  BY DEF Held
<1> QED
  BY <1>1, <1>2 DEF Placed

\* No access of such a buffer,
LEMMA AccessSafe ==
    ASSUME NEW N, Held(N), NEW x \in Buffer, Placed(x, N), UpdateAccessInfo(x)
    PROVE  fault' = fault
<1>1. NodeOf(x) \notin freed
  BY PlacedUnfreed
<1>2. CASE FIFOUpdate(x)
  BY <1>1, <1>2 DEF FIFOUpdate
<1>3. CASE LRUUpdate(x)
  BY <1>3 DEF LRUUpdate
<1>4. CASE LFUUpdate(x)
  <2>1. PICK h, rank : /\ h = [header[x] EXCEPT !.count = @ + 1]
                       /\ rank = [y \in Buffer |-> IF y = x THEN h.count
                                                   ELSE header[y].count]
    OBVIOUS
  <2>2. PICK d, n, own : d = deque /\ n = NodeOf(x) /\ own = h.count
    OBVIOUS
  <2>3. n # Nil => ~Movable(Moved(d, n, own, rank), n, own, rank)
    <3> SUFFICES ASSUME n # Nil PROVE ~Movable(Moved(d, n, own, rank), n, own, rank)
      OBVIOUS
    <3>1. d \in Deque(Stored) /\ Holds(d, N) /\ n \in N
      BY <2>2, HeldFacts DEF Held, Placed
    <3> QED
      BY <3>1, MovedRests
  <2>4. LET g == [header[x] EXCEPT !.count = @ + 1]
            r == [y \in Buffer |-> IF y = x THEN g.count ELSE header[y].count]
        IN fault' = fault \/ (n # Nil /\ Movable(Moved(d, n, g.count, r), n, g.count, r))
    BY <1>4, <2>2 DEF LFUUpdate
  <2> QED
    BY <2>1, <2>2, <2>3, <2>4
<1> QED
  BY <1>2, <1>3, <1>4 DEF UpdateAccessInfo

\* and no deletion of one, uses a freed node.
LEMMA DeleteSafe ==
    ASSUME NEW N, Held(N), NEW x \in Buffer, Placed(x, N), DeleteAt(x)
    PROVE  fault' = fault
<1>1. NodeOf(x) \notin freed
  BY PlacedUnfreed
<1> QED
  BY <1>1 DEF DeleteAt, FIFODeleteAt, LFUDeleteAt, LRUDeleteAt, TakeOut, policyVars

\* Only FIFO calls free().
FIFOFrees == kind # "FIFO" => freed = {}

LEMMA FIFOFreesStays == FIFOFrees /\ [Next]_vars => FIFOFrees'
<1>1. [Next]_vars => freed' = freed \/ kind = "FIFO"
  BY DEF Next, vars, policyVars, Stopped, Hit, Miss, FindNode, ReadValue,
         DeleteMemoryBuffer, Put, UpdateThread, UpdateAccessInfo, FIFOUpdate, LFUUpdate,
         LRUUpdate, DeleteAt, FIFODeleteAt, LFUDeleteAt, LRUDeleteAt, TakeOut, Fault
<1> QED
  BY <1>1, KindStays DEF FIFOFrees

\* As long as no thread is late a freed node is used by the unlocked read of
\* findEvictableBuffer only, and under FIFO only; and LFU's loop always ends
\* (memory_buffer.c:228, replacement_policy.c).
THEOREM FaultsInRead == Spec => OnlyReadFaults
<1>1. Init => FIFOFrees
  BY DEF Init, PolicyInit, FIFOFrees
<1>2. IInv /\ FIFOFrees /\ [Next]_vars =>
         [~fault /\ fault' /\ ~late' => kind = "FIFO" /\ At("value")]_vars
  <2> SUFFICES ASSUME IInv, FIFOFrees, Next, ~fault, fault', ~late'
               PROVE  kind = "FIFO" /\ At("value")
    OBVIOUS
  <2>1. fault' # fault
    OBVIOUS
  <2>2. ~Stopped
    BY DEF Stopped
  <2>3. ~late
    BY <2>2 DEF Next, Hit, Miss, FindNode, ReadValue, DeleteMemoryBuffer, Put, UpdateThread
  <2>4. PICK N \in SUBSET Node : Good(N)
    BY <2>3 DEF IInv, InTime
  <2>5. ASSUME NEW x \in Buffer, IsCached(x), UpdateAccessInfo(x)
        PROVE  FALSE
    <3>1. blockOf[x] \in Block /\ map[blockOf[x]] = x
      BY <2>4, <2>5 DEF IsCached, Good, CacheTypeOK
    <3>2. Held(N) /\ Placed(x, N)
      BY <2>4, <3>1, CachedPlaced
    <3> QED
      BY <2>1, <2>5, <3>2, AccessSafe
  <2>6. ASSUME NEW b \in Block, Hit(b)
        PROVE  FALSE
    <3>1. PICK x : x = map[b]
      OBVIOUS
    <3>2. x \in Buffer /\ blockOf[x] = b
      BY <2>4, <2>6, <3>1, Buffers DEF Hit, Good, MapIsRight, CacheTypeOK
    <3>3. UpdateAccessInfo(x) /\ IsCached(x)
      BY <2>6, <3>1, <3>2 DEF Hit, IsCached
    <3> QED
      BY <2>5, <3>2, <3>3
  <2>7. ASSUME NEW x \in pending, UpdateThread(x)
        PROVE  FALSE
    <3>1. UpdateAccessInfo(x) /\ IsCached(x)
      BY <2>7 DEF UpdateThread
    <3>2. x \in Buffer
      BY <2>4, <2>7 DEF Good, CacheTypeOK
    <3> QED
      BY <2>5, <3>1, <3>2
  <2>8. ASSUME DeleteMemoryBuffer
        PROVE  FALSE
    <3>1. PICK x, b : x = main.victim /\ b = blockOf[main.victim]
      OBVIOUS
    <3>2. x \in Buffer /\ b \in Block /\ map[b] = x
      BY <2>4, <2>8, <3>1 DEF DeleteMemoryBuffer, Good, Found, IsCached, CacheTypeOK
    <3>3. DeleteAt(x)
      BY <2>8, <3>1, <3>2, Buffers DEF DeleteMemoryBuffer
    <3>4. Held(N) /\ Placed(x, N)
      BY <2>4, <3>2, CachedPlaced
    <3> QED
      BY <2>1, <3>2, <3>3, <3>4, DeleteSafe
  <2>9. ASSUME NEW b \in Block, Miss(b)
        PROVE  FALSE
    BY <2>1, <2>9 DEF Miss, policyVars
  <2>10. ASSUME FindNode \/ Put
         PROVE  FALSE
    BY <2>1, <2>10 DEF FindNode, Put, policyVars
  <2>11. ReadValue
    BY <2>2, <2>6, <2>7, <2>8, <2>9, <2>10 DEF Next
  <2>12. At("value") /\ main.node \in freed
    BY <2>1, <2>11 DEF ReadValue, policyVars
  <2> QED
    BY <2>12 DEF FIFOFrees
<1> QED
  BY <1>1, <1>2, FIFOFreesStays, AlwaysGood, PTL DEF Spec, OnlyReadFaults
=============================================================================
