---------------------------- MODULE DequeProofs -----------------------------
(***************************************************************************)
(* The pointer operations of the deque, for every number of nodes: each    *)
(* makes of a deque that is a list of nodes the list it should.            *)
(***************************************************************************)
EXTENDS Deque, Iteration, FiniteSetTheorems

\* The pointers of d are those of the list s of d.count different nodes.
Lists(d, s) ==
    /\ s \in [1 .. d.count -> Node]
    /\ \A i, j \in 1 .. d.count : s[i] = s[j] => i = j
    /\ d.first = IF d.count = 0 THEN Nil ELSE s[1]
    /\ d.last = IF d.count = 0 THEN Nil ELSE s[d.count]
    /\ \A i \in 1 .. d.count :
          /\ d.next[s[i]] = IF i = d.count THEN Nil ELSE s[i + 1]
          /\ d.previous[s[i]] = IF i = 1 THEN Nil ELSE s[i - 1]

USE DEF Nil
-----------------------------------------------------------------------------
(* The operations *)

\* What the fields of a list are.
LEMMA ListNodes ==
    ASSUME NEW V, NEW d \in Deque(V), NEW s, Lists(d, s)
    PROVE  /\ d.count \in Nat /\ d.first \in Pointer /\ d.last \in Pointer
           /\ d.next \in [Node -> Pointer] /\ d.previous \in [Node -> Pointer]
           /\ d.value \in [Node -> V]
           /\ \A i \in 1 .. d.count : s[i] \in Node
           /\ 0 \notin Node /\ Pointer = Node \union {0}
BY DequeAssumption DEF Deque, Lists, Pointer, Node

\* popAt of the i-th node: the fields of the deque (popAt).
LEMMA PopAtFields ==
    ASSUME NEW V, NEW d \in Deque(V), NEW s, Lists(d, s), NEW i \in 1 .. d.count
    PROVE  LET e == PopAt(d, s[i])
               p == IF i = 1 THEN Nil ELSE s[i - 1]
               n == IF i = d.count THEN Nil ELSE s[i + 1]
           IN /\ e \in Deque(V) /\ e.value = d.value /\ e.count = d.count - 1
              /\ e.first = IF i = 1 THEN n ELSE d.first
              /\ e.last = IF i = d.count THEN p ELSE d.last
              /\ \A k \in Node : e.next[k] = IF k = p THEN n ELSE d.next[k]
              /\ \A k \in Node : e.previous[k] = IF k = n THEN p ELSE d.previous[k]
<1>1. /\ d.count \in Nat /\ d.first \in Pointer /\ d.last \in Pointer
      /\ d.next \in [Node -> Pointer] /\ d.previous \in [Node -> Pointer]
      /\ \A k \in 1 .. d.count : s[k] \in Node
      /\ 0 \notin Node /\ Pointer = Node \union {0}
  BY ListNodes
<1>2. PICK at, p, n : at = s[i] /\ p = d.previous[at] /\ n = d.next[at]
  OBVIOUS
<1>3. /\ p = IF i = 1 THEN Nil ELSE s[i - 1]
      /\ n = IF i = d.count THEN Nil ELSE s[i + 1]
      /\ p \in Pointer /\ n \in Pointer /\ at \in Node
  BY <1>1, <1>2 DEF Lists
<1>4. (d.first = at <=> i = 1) /\ (d.last = at <=> i = d.count)
  BY <1>1, <1>2 DEF Lists
<1>5. PICK f, l, c, x, y :
         /\ f = IF d.first = at THEN n ELSE d.first
         /\ l = IF d.last = at THEN p ELSE d.last
         /\ c = d.count - 1
         /\ x = Link(d.next, p, n)
         /\ y = Link(d.previous, n, p)
  OBVIOUS
<1>6. /\ x \in [Node -> Pointer] /\ \A k \in Node : x[k] = IF k = p THEN n ELSE d.next[k]
      /\ y \in [Node -> Pointer] /\ \A k \in Node : y[k] = IF k = n THEN p ELSE d.previous[k]
  <2>1. /\ Link(d.next, p, n) \in [Node -> Pointer]
        /\ \A k \in Node : Link(d.next, p, n)[k] = IF k = p THEN n ELSE d.next[k]
    BY <1>1, <1>3, DequeAssumption DEF Link, Pointer, Node
  <2>2. /\ Link(d.previous, n, p) \in [Node -> Pointer]
        /\ \A k \in Node : Link(d.previous, n, p)[k] = IF k = n THEN p ELSE d.previous[k]
    BY <1>1, <1>3, DequeAssumption DEF Link, Pointer, Node
  <2> QED
    BY <1>5, <2>1, <2>2
<1>7. f \in Pointer /\ l \in Pointer /\ c \in Nat
  BY <1>1, <1>3, <1>5
<1>8. PopAt(d, at) = [d EXCEPT !.first = f, !.last = l, !.count = c, !.next = x,
                               !.previous = y]
  BY <1>2, <1>5 DEF PopAt
<1>9. /\ PopAt(d, at) \in Deque(V) /\ PopAt(d, at).value = d.value
      /\ PopAt(d, at).first = f /\ PopAt(d, at).last = l /\ PopAt(d, at).count = c
      /\ PopAt(d, at).next = x /\ PopAt(d, at).previous = y
  BY <1>6, <1>7, <1>8 DEF Deque
<1> QED
  BY <1>2, <1>3, <1>4, <1>5, <1>6, <1>9

\* popAt leaves the other nodes in their order, wherever the node is (popAt).
THEOREM PopAtRemoves ==
    ASSUME NEW V, NEW d \in Deque(V), NEW s, Lists(d, s), NEW i \in 1 .. d.count
    PROVE  LET e == PopAt(d, s[i])
               t == [k \in 1 .. d.count - 1 |-> IF k < i THEN s[k] ELSE s[k + 1]]
           IN e \in Deque(V) /\ e.value = d.value /\ e.count = d.count - 1 /\ Lists(e, t)
<1>1. /\ d.count \in Nat /\ \A k \in 1 .. d.count : s[k] \in Node
      /\ 0 \notin Node /\ Pointer = Node \union {0}
  BY ListNodes
<1>2. PICK e, p, n, t :
         /\ e = PopAt(d, s[i])
         /\ p = IF i = 1 THEN Nil ELSE s[i - 1]
         /\ n = IF i = d.count THEN Nil ELSE s[i + 1]
         /\ t = [k \in 1 .. d.count - 1 |-> IF k < i THEN s[k] ELSE s[k + 1]]
  OBVIOUS
<1>3. /\ e \in Deque(V) /\ e.value = d.value /\ e.count = d.count - 1
      /\ e.first = IF i = 1 THEN n ELSE d.first
      /\ e.last = IF i = d.count THEN p ELSE d.last
      /\ \A k \in Node : e.next[k] = IF k = p THEN n ELSE d.next[k]
      /\ \A k \in Node : e.previous[k] = IF k = n THEN p ELSE d.previous[k]
  BY <1>2, PopAtFields
<1>4. \A j, k \in 1 .. d.count : s[j] = s[k] => j = k
  BY DEF Lists
<1>5. /\ t \in [1 .. e.count -> Node]
      /\ \A k \in 1 .. e.count : t[k] = IF k < i THEN s[k] ELSE s[k + 1]
  BY <1>1, <1>2, <1>3
<1>6. \A j, k \in 1 .. e.count : t[j] = t[k] => j = k
  <2> SUFFICES ASSUME NEW j \in 1 .. e.count, NEW k \in 1 .. e.count, t[j] = t[k]
               PROVE  j = k
    OBVIOUS
  <2>1. PICK jj \in 1 .. d.count : jj = IF j < i THEN j ELSE j + 1
    BY <1>1, <1>3
  <2>2. PICK kk \in 1 .. d.count : kk = IF k < i THEN k ELSE k + 1
    BY <1>1, <1>3
  <2>3. s[jj] = s[kk]
    BY <1>5, <2>1, <2>2
  <2>4. jj = kk
    BY <1>4, <2>3
  <2> QED
    BY <1>1, <1>3, <2>1, <2>2, <2>4
<1>7. d.count # 0 /\ d.first = s[1] /\ d.last = s[d.count]
  BY <1>1 DEF Lists
<1>8. e.first = IF e.count = 0 THEN Nil ELSE t[1]
  BY <1>1, <1>2, <1>3, <1>5, <1>7
<1>9. e.last = IF e.count = 0 THEN Nil ELSE t[e.count]
  BY <1>1, <1>2, <1>3, <1>5, <1>7
<1>10. ASSUME NEW k \in 1 .. e.count
       PROVE  /\ e.next[t[k]] = IF k = e.count THEN Nil ELSE t[k + 1]
              /\ e.previous[t[k]] = IF k = 1 THEN Nil ELSE t[k - 1]
  <2>1. PICK j \in 1 .. d.count : j = IF k < i THEN k ELSE k + 1
    BY <1>1, <1>3
  <2>2. j # i /\ t[k] = s[j] /\ s[j] \in Node
    BY <1>1, <1>5, <2>1
  <2>3. /\ d.next[s[j]] = IF j = d.count THEN Nil ELSE s[j + 1]
        /\ d.previous[s[j]] = IF j = 1 THEN Nil ELSE s[j - 1]
    BY DEF Lists
  <2>4. (s[j] = p <=> j = i - 1) /\ (s[j] = n <=> j = i + 1)
    <3>1. i # 1 => i - 1 \in 1 .. d.count
      BY <1>1
    <3>2. i # d.count => i + 1 \in 1 .. d.count
      BY <1>1
    <3> QED
      BY <1>1, <1>2, <1>4, <3>1, <3>2
  <2>5. e.next[t[k]] = IF j = i - 1 THEN n ELSE IF j = d.count THEN Nil ELSE s[j + 1]
    BY <1>3, <2>2, <2>3, <2>4
  <2>6. e.previous[t[k]] = IF j = i + 1 THEN p ELSE IF j = 1 THEN Nil ELSE s[j - 1]
    BY <1>3, <2>2, <2>3, <2>4
  <2>7. k # e.count => k + 1 \in 1 .. e.count /\ t[k + 1] = IF k + 1 < i THEN s[k + 1] ELSE s[k + 2]
    BY <1>1, <1>3, <1>5
  <2>8. k # 1 => k - 1 \in 1 .. e.count /\ t[k - 1] = IF k - 1 < i THEN s[k - 1] ELSE s[k]
    BY <1>1, <1>3, <1>5
  <2>9. e.next[t[k]] = IF k = e.count THEN Nil ELSE t[k + 1]
    <3>1. CASE k + 1 < i
      BY <1>1, <1>3, <2>1, <2>5, <2>7, <3>1
    <3>2. CASE k + 1 = i
      BY <1>1, <1>2, <1>3, <2>1, <2>5, <2>7, <3>2
    <3>3. CASE k + 1 > i
      BY <1>1, <1>3, <2>1, <2>5, <2>7, <3>3
    <3> QED
      BY <1>1, <1>3, <3>1, <3>2, <3>3
  <2>10. e.previous[t[k]] = IF k = 1 THEN Nil ELSE t[k - 1]
    BY <1>1, <1>2, <1>3, <2>1, <2>2, <2>6, <2>8
  <2> QED
    BY <2>9, <2>10
<1>11. Lists(e, t)
  BY <1>5, <1>6, <1>8, <1>9, <1>10 DEF Lists
<1> QED
  BY <1>2, <1>3, <1>11

\* pushLast of a node that is not in the list makes it the last one (pushLast).
THEOREM PushLastAppends ==
    ASSUME NEW V, NEW d \in Deque(V), NEW s, Lists(d, s), NEW v \in V, NEW n \in Node,
           \A i \in 1 .. d.count : s[i] # n
    PROVE  LET e == PushLast(d, n, v)
               t == [k \in 1 .. d.count + 1 |-> IF k = d.count + 1 THEN n ELSE s[k]]
           IN /\ e \in Deque(V) /\ e.value = [d.value EXCEPT ![n] = v]
              /\ e.count = d.count + 1 /\ Lists(e, t)
<1>1. /\ d.count \in Nat /\ \A k \in 1 .. d.count : s[k] \in Node
      /\ 0 \notin Node /\ Pointer = Node \union {0}
  BY ListNodes
<1>2. PICK e, t :
         /\ e = PushLast(d, n, v)
         /\ t = [k \in 1 .. d.count + 1 |-> IF k = d.count + 1 THEN n ELSE s[k]]
  OBVIOUS
<1>3. /\ e \in Deque(V) /\ e.value = [d.value EXCEPT ![n] = v]
      /\ e.count = d.count + 1
      /\ e.first = (IF d.count = 0 THEN n ELSE d.first) /\ e.last = n
      /\ \A k \in Node : e.next[k] = IF k = n THEN Nil
                                     ELSE IF k = d.last THEN n ELSE d.next[k]
      /\ \A k \in Node : e.previous[k] = IF k = n THEN d.last ELSE d.previous[k]
  <2>1. /\ d.first \in Pointer /\ d.last \in Pointer
        /\ d.next \in [Node -> Pointer] /\ d.previous \in [Node -> Pointer]
        /\ d.value \in [Node -> V]
    BY ListNodes
  <2>2. (d.count = 0 => d.last = Nil) /\ d.last # n
    BY <1>1 DEF Lists
  <2>3. PICK f, c, x, y, w :
           /\ f = IF d.count = 0 THEN n ELSE d.first
           /\ c = d.count + 1
           /\ x = IF d.count = 0 THEN Fresh(d.next, n)
                  ELSE Link(Fresh(d.next, n), d.last, n)
           /\ y = Link(d.previous, n, IF d.count = 0 THEN Nil ELSE d.last)
           /\ w = Link(d.value, n, v)
    OBVIOUS
  <2>4. /\ x \in [Node -> Pointer]
        /\ \A k \in Node : x[k] = IF k = n THEN Nil
                                  ELSE IF k = d.last THEN n ELSE d.next[k]
    BY <1>1, <2>1, <2>2, <2>3 DEF Fresh, Link
  <2>5. /\ y \in [Node -> Pointer]
        /\ \A k \in Node : y[k] = IF k = n THEN d.last ELSE d.previous[k]
    BY <1>1, <2>1, <2>2, <2>3 DEF Link
  <2>6. w \in [Node -> V] /\ w = [d.value EXCEPT ![n] = v]
    BY <1>1, <2>1, <2>3 DEF Link
  <2>7. f \in Pointer /\ n \in Pointer /\ c \in Nat
    BY <1>1, <2>1, <2>3
  <2>8. e = [d EXCEPT !.first = f, !.last = n, !.count = c, !.next = x,
                      !.previous = y, !.value = w]
    BY <1>2, <2>3 DEF PushLast
  <2>9. /\ e \in Deque(V) /\ e.value = w /\ e.first = f /\ e.last = n /\ e.count = c
        /\ e.next = x /\ e.previous = y
    BY <2>4, <2>5, <2>6, <2>7, <2>8 DEF Deque
  <2> QED
    BY <2>3, <2>4, <2>5, <2>6, <2>9
<1>4. \A j, k \in 1 .. d.count : s[j] = s[k] => j = k
  BY DEF Lists
<1>5. /\ t \in [1 .. e.count -> Node]
      /\ t[e.count] = n
      /\ \A k \in 1 .. d.count : t[k] = s[k]
  BY <1>1, <1>2, <1>3
<1>6. \A j, k \in 1 .. e.count : t[j] = t[k] => j = k
  <2> SUFFICES ASSUME NEW j \in 1 .. e.count, NEW k \in 1 .. e.count, t[j] = t[k]
               PROVE  j = k
    OBVIOUS
  <2>1. j = e.count \/ j \in 1 .. d.count
    BY <1>1, <1>3
  <2>2. k = e.count \/ k \in 1 .. d.count
    BY <1>1, <1>3
  <2> QED
    BY <1>4, <1>5, <2>1, <2>2
<1>7. /\ d.first = IF d.count = 0 THEN Nil ELSE s[1]
      /\ d.last = IF d.count = 0 THEN Nil ELSE s[d.count]
  BY DEF Lists
<1>8. /\ e.first = IF e.count = 0 THEN Nil ELSE t[1]
      /\ e.last = IF e.count = 0 THEN Nil ELSE t[e.count]
  BY <1>1, <1>3, <1>5, <1>7
<1>9. ASSUME NEW k \in 1 .. e.count
      PROVE  /\ e.next[t[k]] = IF k = e.count THEN Nil ELSE t[k + 1]
             /\ e.previous[t[k]] = IF k = 1 THEN Nil ELSE t[k - 1]
  <2>1. CASE k = e.count
    <3>1. d.count # 0 => d.count \in 1 .. d.count /\ d.last # n
      BY <1>1, <1>7
    <3>2. e.next[n] = Nil /\ e.previous[n] = d.last
      BY <1>1, <1>3, <3>1
    <3>3. d.last = IF k = 1 THEN Nil ELSE t[k - 1]
      BY <1>1, <1>3, <1>5, <1>7, <2>1
    <3> QED
      BY <1>5, <2>1, <3>2, <3>3
  <2>2. CASE k # e.count
    <3>1. k \in 1 .. d.count /\ t[k] = s[k] /\ d.count # 0 /\ d.count \in 1 .. d.count
      BY <1>1, <1>3, <1>5, <2>2
    <3>2. /\ d.next[s[k]] = IF k = d.count THEN Nil ELSE s[k + 1]
          /\ d.previous[s[k]] = IF k = 1 THEN Nil ELSE s[k - 1]
      BY <3>1 DEF Lists
    <3>3. s[k] = d.last <=> k = d.count
      BY <1>4, <1>7, <3>1
    <3>4. e.next[t[k]] = IF k = d.count THEN n ELSE s[k + 1]
      BY <1>1, <1>3, <3>1, <3>2, <3>3
    <3>5. e.previous[t[k]] = IF k = 1 THEN Nil ELSE s[k - 1]
      BY <1>1, <1>3, <3>1, <3>2
    <3>6. t[k + 1] = IF k = d.count THEN n ELSE s[k + 1]
      BY <1>1, <1>3, <1>5, <3>1
    <3>7. k # 1 => t[k - 1] = s[k - 1]
      BY <1>1, <1>5, <3>1
    <3> QED
      BY <2>2, <3>4, <3>5, <3>6, <3>7
  <2> QED
    BY <2>1, <2>2
<1>10. Lists(e, t)
  BY <1>5, <1>6, <1>8, <1>9 DEF Lists
<1> QED
  BY <1>2, <1>3, <1>10

\* pushFirst of a node that is not in the list makes it the first one (pushFirst).
THEOREM PushFirstPrepends ==
    ASSUME NEW V, NEW d \in Deque(V), NEW s, Lists(d, s), NEW v \in V, NEW n \in Node,
           \A i \in 1 .. d.count : s[i] # n
    PROVE  LET e == PushFirst(d, n, v)
               t == [k \in 1 .. d.count + 1 |-> IF k = 1 THEN n ELSE s[k - 1]]
           IN /\ e \in Deque(V) /\ e.value = [d.value EXCEPT ![n] = v]
              /\ e.count = d.count + 1 /\ Lists(e, t)
<1>1. /\ d.count \in Nat /\ \A k \in 1 .. d.count : s[k] \in Node
      /\ 0 \notin Node /\ Pointer = Node \union {0}
  BY ListNodes
<1>2. PICK e, t :
         /\ e = PushFirst(d, n, v)
         /\ t = [k \in 1 .. d.count + 1 |-> IF k = 1 THEN n ELSE s[k - 1]]
  OBVIOUS
<1>3. /\ e \in Deque(V) /\ e.value = [d.value EXCEPT ![n] = v]
      /\ e.count = d.count + 1
      /\ e.first = n /\ e.last = (IF d.count = 0 THEN n ELSE d.last)
      /\ \A k \in Node : e.next[k] = IF k = n THEN d.first ELSE d.next[k]
      /\ \A k \in Node : e.previous[k] = IF k = n THEN Nil
                                         ELSE IF k = d.first THEN n ELSE d.previous[k]
  <2>1. /\ d.first \in Pointer /\ d.last \in Pointer
        /\ d.next \in [Node -> Pointer] /\ d.previous \in [Node -> Pointer]
        /\ d.value \in [Node -> V]
    BY ListNodes
  <2>2. (d.count = 0 => d.first = Nil) /\ d.first # n
    BY <1>1 DEF Lists
  <2>3. PICK l, c, x, y, w :
           /\ l = IF d.count = 0 THEN n ELSE d.last
           /\ c = d.count + 1
           /\ x = Link(d.next, n, IF d.count = 0 THEN Nil ELSE d.first)
           /\ y = IF d.count = 0 THEN Fresh(d.previous, n)
                  ELSE Link(Fresh(d.previous, n), d.first, n)
           /\ w = Link(d.value, n, v)
    OBVIOUS
  <2>4. /\ x \in [Node -> Pointer]
        /\ \A k \in Node : x[k] = IF k = n THEN d.first ELSE d.next[k]
    BY <1>1, <2>1, <2>2, <2>3 DEF Link
  <2>5. /\ y \in [Node -> Pointer]
        /\ \A k \in Node : y[k] = IF k = n THEN Nil
                                  ELSE IF k = d.first THEN n ELSE d.previous[k]
    BY <1>1, <2>1, <2>2, <2>3 DEF Fresh, Link
  <2>6. w \in [Node -> V] /\ w = [d.value EXCEPT ![n] = v]
    BY <1>1, <2>1, <2>3 DEF Link
  <2>7. l \in Pointer /\ n \in Pointer /\ c \in Nat
    BY <1>1, <2>1, <2>3
  <2>8. e = [d EXCEPT !.first = n, !.last = l, !.count = c, !.next = x,
                      !.previous = y, !.value = w]
    BY <1>2, <2>3 DEF PushFirst
  <2>9. /\ e \in Deque(V) /\ e.value = w /\ e.first = n /\ e.last = l /\ e.count = c
        /\ e.next = x /\ e.previous = y
    BY <2>4, <2>5, <2>6, <2>7, <2>8 DEF Deque
  <2> QED
    BY <2>3, <2>4, <2>5, <2>6, <2>9
<1>4. \A j, k \in 1 .. d.count : s[j] = s[k] => j = k
  BY DEF Lists
<1>5. /\ t \in [1 .. e.count -> Node]
      /\ t[1] = n
      /\ \A k \in 1 .. d.count : t[k + 1] = s[k]
  BY <1>1, <1>2, <1>3
<1>6. \A j, k \in 1 .. e.count : t[j] = t[k] => j = k
  <2> SUFFICES ASSUME NEW j \in 1 .. e.count, NEW k \in 1 .. e.count, t[j] = t[k]
               PROVE  j = k
    OBVIOUS
  <2>1. j = 1 \/ (j - 1 \in 1 .. d.count /\ t[j] = s[j - 1])
    BY <1>1, <1>2, <1>3
  <2>2. k = 1 \/ (k - 1 \in 1 .. d.count /\ t[k] = s[k - 1])
    BY <1>1, <1>2, <1>3
  <2>3. CASE j = 1 /\ k = 1
    BY <2>3
  <2>4. CASE j # 1 /\ k # 1
    BY <1>4, <2>1, <2>2, <2>4
  <2> QED
    BY <1>5, <2>1, <2>2, <2>3, <2>4
<1>7. /\ d.first = IF d.count = 0 THEN Nil ELSE s[1]
      /\ d.last = IF d.count = 0 THEN Nil ELSE s[d.count]
  BY DEF Lists
<1>8. /\ e.first = IF e.count = 0 THEN Nil ELSE t[1]
      /\ e.last = IF e.count = 0 THEN Nil ELSE t[e.count]
  BY <1>1, <1>3, <1>5, <1>7
<1>9. ASSUME NEW k \in 1 .. e.count
      PROVE  /\ e.next[t[k]] = IF k = e.count THEN Nil ELSE t[k + 1]
             /\ e.previous[t[k]] = IF k = 1 THEN Nil ELSE t[k - 1]
  <2>1. CASE k = 1
    <3>1. d.count # 0 => 1 \in 1 .. d.count /\ d.first # n
      BY <1>1, <1>7
    <3>2. e.next[n] = d.first /\ e.previous[n] = Nil
      BY <1>1, <1>3, <3>1
    <3>3. d.first = IF k = e.count THEN Nil ELSE t[k + 1]
      BY <1>1, <1>3, <1>5, <1>7, <2>1
    <3> QED
      BY <1>5, <2>1, <3>2, <3>3
  <2>2. CASE k # 1
    <3>1. PICK j \in 1 .. d.count : k = j + 1 /\ t[k] = s[j]
      <4>1. k - 1 \in 1 .. d.count /\ k = (k - 1) + 1
        BY <1>1, <1>3, <2>2
      <4> QED
        BY <1>5, <4>1
    <3>2. /\ d.next[s[j]] = IF j = d.count THEN Nil ELSE s[j + 1]
          /\ d.previous[s[j]] = IF j = 1 THEN Nil ELSE s[j - 1]
      BY <3>1 DEF Lists
    <3>3. d.count # 0 /\ 1 \in 1 .. d.count /\ (s[j] = d.first <=> j = 1)
      BY <1>1, <1>4, <1>7, <3>1
    <3>4. e.next[t[k]] = IF j = d.count THEN Nil ELSE s[j + 1]
      BY <1>1, <1>3, <3>1, <3>2, <3>3
    <3>5. e.previous[t[k]] = IF j = 1 THEN n ELSE s[j - 1]
      BY <1>1, <1>3, <3>1, <3>2, <3>3
    <3>6. t[k - 1] = IF j = 1 THEN n ELSE s[j - 1]
      BY <1>1, <1>2, <3>1
    <3>7. j # d.count => t[k + 1] = s[j + 1]
      BY <1>1, <1>5, <3>1
    <3> QED
      BY <1>1, <1>3, <2>2, <3>1, <3>4, <3>5, <3>6, <3>7
  <2> QED
    BY <2>1, <2>2
<1>10. Lists(e, t)
  BY <1>5, <1>6, <1>8, <1>9 DEF Lists
<1> QED
  BY <1>2, <1>3, <1>10

\* switchNode of the i-th node with the one that follows it (switchNode).
LEMMA SwitchFields ==
    ASSUME NEW V, NEW d \in Deque(V), NEW s, Lists(d, s), NEW i \in 1 .. d.count,
           i + 1 <= d.count
    PROVE  LET dest == s[i]
               src == s[i + 1]
               e == SwitchNode(d, dest, src)
               p == IF i = 1 THEN Nil ELSE s[i - 1]
               n == IF i + 1 = d.count THEN Nil ELSE s[i + 2]
           IN /\ e \in Deque(V) /\ e.value = d.value /\ e.count = d.count
              /\ e.first = IF i = 1 THEN src ELSE d.first
              /\ e.last = IF i + 1 = d.count THEN dest ELSE d.last
              /\ \A k \in Node :
                    /\ e.next[k] = IF k = dest THEN n
                                   ELSE IF k = src THEN dest
                                   ELSE IF k = p THEN src ELSE d.next[k]
                    /\ e.previous[k] = IF k = dest THEN src
                                       ELSE IF k = src THEN p
                                       ELSE IF k = n THEN dest ELSE d.previous[k]
<1>1. /\ d.count \in Nat /\ d.first \in Pointer /\ d.last \in Pointer
      /\ d.next \in [Node -> Pointer] /\ d.previous \in [Node -> Pointer]
      /\ \A k \in 1 .. d.count : s[k] \in Node
      /\ 0 \notin Node /\ Pointer = Node \union {0}
  BY ListNodes
<1>2. \A j, k \in 1 .. d.count : s[j] = s[k] => j = k
  BY DEF Lists
<1>3. PICK dest, src, p, n :
         /\ dest = s[i] /\ src = s[i + 1]
         /\ p = IF i = 1 THEN Nil ELSE s[i - 1]
         /\ n = IF i + 1 = d.count THEN Nil ELSE s[i + 2]
  OBVIOUS
<1>4. /\ dest \in Node /\ src \in Node /\ dest # src
      /\ p \in Pointer /\ n \in Pointer /\ p # dest /\ p # src /\ n # dest /\ n # src
      /\ (p = n => p = Nil)
  <2>1. i + 1 \in 1 .. d.count
    BY <1>1
  <2>2. i # 1 => i - 1 \in 1 .. d.count /\ i - 1 # i /\ i - 1 # i + 1
    BY <1>1
  <2>3. i + 1 # d.count => i + 2 \in 1 .. d.count /\ i + 2 # i /\ i + 2 # i + 1 /\ i + 2 # i - 1
    BY <1>1
  <2> QED
    BY <1>1, <1>2, <1>3, <2>1, <2>2, <2>3
<1>5. /\ d.previous[dest] = p /\ d.next[dest] = src
      /\ d.previous[src] = dest /\ d.next[src] = n
  BY <1>1, <1>3 DEF Lists
<1>6. /\ d.first = s[1] /\ d.last = s[d.count] /\ d.first # d.last
      /\ (d.first = dest <=> i = 1) /\ d.first # src
      /\ (d.last = src <=> i + 1 = d.count) /\ d.last # dest
  <2>1. /\ 1 \in 1 .. d.count /\ d.count \in 1 .. d.count /\ 1 # d.count
        /\ i + 1 \in 1 .. d.count /\ i + 1 # 1 /\ i # d.count
    BY <1>1
  <2>2. d.first = s[1] /\ d.last = s[d.count]
    BY <2>1 DEF Lists
  <2> QED
    BY <1>2, <1>3, <2>1, <2>2
<1>7. PICK f, l :
         /\ f = SwitchedFirst(d, dest, src)
         /\ l = SwitchedLast(d, dest, src)
  OBVIOUS
<1>8. /\ f = IF i = 1 THEN src ELSE d.first
      /\ l = IF i + 1 = d.count THEN dest ELSE d.last
  BY <1>6, <1>7 DEF SwitchedFirst, SwitchedLast
<1>9. PICK x, y :
         /\ x = Link(Link(Link(Link(d.next, p, src), src, dest), dest, dest), dest, n)
         /\ y = Link(Link(Link(Link(d.previous, src, src), src, p), n, dest), dest, src)
  OBVIOUS
<1>10. /\ x \in [Node -> Pointer]
       /\ \A k \in Node : x[k] = IF k = dest THEN n
                                 ELSE IF k = src THEN dest
                                 ELSE IF k = p THEN src ELSE d.next[k]
  BY <1>1, <1>4, <1>9 DEF Link
<1>11. /\ y \in [Node -> Pointer]
       /\ \A k \in Node : y[k] = IF k = dest THEN src
                                 ELSE IF k = src THEN p
                                 ELSE IF k = n THEN dest ELSE d.previous[k]
  BY <1>1, <1>4, <1>9 DEF Link
<1>12. SwitchNode(d, dest, src) = [d EXCEPT !.first = f, !.last = l, !.next = x,
                                            !.previous = y]
  BY <1>5, <1>7, <1>9 DEF SwitchNode
<1>13. f \in Pointer /\ l \in Pointer
  BY <1>1, <1>4, <1>8
<1>14. /\ SwitchNode(d, dest, src) \in Deque(V)
       /\ SwitchNode(d, dest, src).value = d.value
       /\ SwitchNode(d, dest, src).count = d.count
       /\ SwitchNode(d, dest, src).first = f /\ SwitchNode(d, dest, src).last = l
       /\ SwitchNode(d, dest, src).next = x /\ SwitchNode(d, dest, src).previous = y
  BY <1>10, <1>11, <1>12, <1>13 DEF Deque
<1> QED
  BY <1>3, <1>8, <1>10, <1>11, <1>14

\* The two change places, also when they are first or last (switchNode).
THEOREM SwitchNodeSwaps ==
    ASSUME NEW V, NEW d \in Deque(V), NEW s, Lists(d, s), NEW i \in 1 .. d.count,
           i + 1 <= d.count
    PROVE  LET e == SwitchNode(d, s[i], s[i + 1])
               t == [k \in 1 .. d.count |-> IF k = i THEN s[i + 1]
                                            ELSE IF k = i + 1 THEN s[i] ELSE s[k]]
           IN e \in Deque(V) /\ e.value = d.value /\ e.count = d.count /\ Lists(e, t)
<1>1. /\ d.count \in Nat /\ \A k \in 1 .. d.count : s[k] \in Node
      /\ 0 \notin Node /\ Pointer = Node \union {0}
  BY ListNodes
<1>2. \A j, k \in 1 .. d.count : s[j] = s[k] => j = k
  BY DEF Lists
<1>3. PICK dest, src, p, n, e, t :
         /\ dest = s[i] /\ src = s[i + 1]
         /\ p = IF i = 1 THEN Nil ELSE s[i - 1]
         /\ n = IF i + 1 = d.count THEN Nil ELSE s[i + 2]
         /\ e = SwitchNode(d, s[i], s[i + 1])
         /\ t = [k \in 1 .. d.count |-> IF k = i THEN s[i + 1]
                                        ELSE IF k = i + 1 THEN s[i] ELSE s[k]]
  OBVIOUS
<1>4. /\ e \in Deque(V) /\ e.value = d.value /\ e.count = d.count
      /\ e.first = IF i = 1 THEN src ELSE d.first
      /\ e.last = IF i + 1 = d.count THEN dest ELSE d.last
      /\ \A k \in Node :
            /\ e.next[k] = IF k = dest THEN n
                           ELSE IF k = src THEN dest
                           ELSE IF k = p THEN src ELSE d.next[k]
            /\ e.previous[k] = IF k = dest THEN src
                               ELSE IF k = src THEN p
                               ELSE IF k = n THEN dest ELSE d.previous[k]
  BY <1>3, SwitchFields
<1>5. /\ i \in Int /\ i + 1 \in 1 .. d.count /\ d.count # 0
      /\ t \in [1 .. d.count -> Node]
      /\ t[i] = src /\ t[i + 1] = dest
      /\ \A k \in 1 .. d.count \ {i, i + 1} : t[k] = s[k]
  BY <1>1, <1>3
<1>6. \A j, k \in 1 .. d.count : t[j] = t[k] => j = k
  <2> SUFFICES ASSUME NEW j \in 1 .. d.count, NEW k \in 1 .. d.count, t[j] = t[k]
               PROVE  j = k
    OBVIOUS
  <2> QED
    BY <1>2, <1>3, <1>5
<1>7. d.first = s[1] /\ d.last = s[d.count]
  BY <1>5 DEF Lists
<1>8. /\ e.first = IF e.count = 0 THEN Nil ELSE t[1]
      /\ e.last = IF e.count = 0 THEN Nil ELSE t[e.count]
  BY <1>1, <1>3, <1>4, <1>5, <1>7
<1>9. ASSUME NEW k \in 1 .. d.count
      PROVE  /\ e.next[t[k]] = IF k = d.count THEN Nil ELSE t[k + 1]
             /\ e.previous[t[k]] = IF k = 1 THEN Nil ELSE t[k - 1]
  <2>1. CASE k = i
    <3>1. e.next[t[k]] = dest /\ e.previous[t[k]] = p
      BY <1>1, <1>2, <1>3, <1>4, <1>5, <2>1
    <3>2. k # 1 => t[k - 1] = s[i - 1]
      BY <1>1, <1>5, <2>1
    <3> QED
      BY <1>1, <1>3, <1>5, <2>1, <3>1, <3>2
  <2>2. CASE k = i + 1
    <3>1. e.next[t[k]] = n /\ e.previous[t[k]] = src
      BY <1>1, <1>3, <1>4, <1>5, <2>2
    <3>2. k # d.count => t[k + 1] = s[i + 2]
      BY <1>1, <1>5, <2>2
    <3> QED
      BY <1>1, <1>3, <1>5, <2>2, <3>1, <3>2
  <2>3. CASE k # i /\ k # i + 1
    <3>1. t[k] = s[k] /\ s[k] # dest /\ s[k] # src /\ s[k] \in Node
      BY <1>1, <1>2, <1>3, <1>5, <2>3
    <3>2. /\ d.next[s[k]] = IF k = d.count THEN Nil ELSE s[k + 1]
          /\ d.previous[s[k]] = IF k = 1 THEN Nil ELSE s[k - 1]
      BY DEF Lists
    <3>3. s[k] = p <=> k = i - 1
      <4>1. i # 1 => i - 1 \in 1 .. d.count
        BY <1>1
      <4> QED
        BY <1>1, <1>2, <1>3, <3>1, <4>1
    <3>4. s[k] = n <=> k = i + 2
      <4>1. i + 1 # d.count => i + 2 \in 1 .. d.count
        BY <1>1
      <4> QED
        BY <1>1, <1>2, <1>3, <1>5, <3>1, <4>1
    <3>5. e.next[t[k]] = IF k = i - 1 THEN src ELSE IF k = d.count THEN Nil ELSE s[k + 1]
      BY <1>4, <3>1, <3>2, <3>3
    <3>6. e.previous[t[k]] = IF k = i + 2 THEN dest ELSE IF k = 1 THEN Nil ELSE s[k - 1]
      BY <1>4, <3>1, <3>2, <3>4
    <3>7. k # d.count => t[k + 1] = IF k = i - 1 THEN src ELSE s[k + 1]
      BY <1>1, <1>5, <2>3
    <3>8. k # 1 => t[k - 1] = IF k = i + 2 THEN dest ELSE s[k - 1]
      BY <1>1, <1>5, <2>3
    <3> QED
      BY <1>1, <1>5, <2>3, <3>5, <3>6, <3>7, <3>8
  <2> QED
    BY <2>1, <2>2, <2>3
<1>10. Lists(e, t)
  BY <1>4, <1>5, <1>6, <1>8, <1>9 DEF Lists
<1> QED
  BY <1>3, <1>4, <1>10
-----------------------------------------------------------------------------
(* Reading the list off the pointers *)

\* The links of the list s, followed from its first node, lead through it.
LEMMA NthOfList ==
    ASSUME NEW start, NEW links, NEW c \in 0 .. MaxNodes, NEW s \in [1 .. c -> Node],
           start = IF c = 0 THEN Nil ELSE s[1],
           \A i \in 1 .. c : links[s[i]] = IF i = c THEN Nil ELSE s[i + 1],
           NEW nth, nth = Nth(start, links)
    PROVE  \A k \in 1 .. MaxNodes + 1 : nth[k] = IF k <= c THEN s[k] ELSE Nil
<1> DEFINE I == 1 .. MaxNodes + 1
           g == [k \in I |-> IF k <= c THEN s[k] ELSE Nil]
           f == CHOOSE f : f = [k \in I |->
                   IF k = 1 THEN start
                   ELSE IF f[k - 1] = Nil THEN Nil ELSE links[f[k - 1]]]
<1>1. Nth(start, links) = f
  BY DEF Nth
<1>2. MaxNodes \in Nat /\ c \in Nat /\ 0 \notin Node
  BY DequeAssumption DEF Node
<1>3. ASSUME NEW k \in I
      PROVE  g[k] = IF k = 1 THEN start ELSE IF g[k - 1] = Nil THEN Nil ELSE links[g[k - 1]]
  <2>1. CASE k = 1
    BY <1>2, <2>1
  <2>2. CASE k # 1
    <3>1. k - 1 \in I /\ g[k - 1] = IF k - 1 <= c THEN s[k - 1] ELSE Nil
      BY <1>2, <2>2
    <3>2. k - 1 <= c => k - 1 \in 1 .. c /\ s[k - 1] \in Node
      BY <1>2, <3>1
    <3> QED
      BY <1>2, <2>2, <3>1, <3>2
  <2> QED
    BY <2>1, <2>2
<1>4. g = [k \in I |-> IF k = 1 THEN start
                       ELSE IF g[k - 1] = Nil THEN Nil ELSE links[g[k - 1]]]
  BY <1>3
<1>5. f = [k \in I |-> IF k = 1 THEN start
                       ELSE IF f[k - 1] = Nil THEN Nil ELSE links[f[k - 1]]]
  <2> HIDE DEF g
  <2> QED
    BY <1>4
<1> HIDE DEF f, g
<1>6. \A k \in I : f[k] = IF k = 1 THEN start
                          ELSE IF f[k - 1] = Nil THEN Nil ELSE links[f[k - 1]]
  BY <1>5
<1> DEFINE T == {k \in Nat : k \in I => f[k] = g[k]}
<1>7. 0 \in T /\ \A k \in T : k + 1 \in T
  <2>1. 0 \in T
    BY <1>2
  <2>2. ASSUME NEW k \in T PROVE k + 1 \in T
    <3>1. CASE k = 0
      BY <1>2, <1>3, <1>6, <3>1
    <3>2. CASE k # 0
      BY <1>2, <1>3, <1>6, <3>2
    <3> QED
      BY <3>1, <3>2
  <2> QED
    BY <2>1, <2>2
<1>8. \A k \in I : f[k] = g[k]
  <2>1. T \in SUBSET Nat
    OBVIOUS
  <2> HIDE DEF T
  <2>2. \A k \in Nat : k \in T
    BY <1>7, <2>1, Induction
  <2> QED
    BY <1>2, <2>2 DEF T
<1> QED
  BY <1>1, <1>8 DEF g

\* Chain reads it.
LEMMA ChainOfList ==
    ASSUME NEW start, NEW links, NEW c \in 0 .. MaxNodes, NEW s \in [1 .. c -> Node],
           start = IF c = 0 THEN Nil ELSE s[1],
           \A i \in 1 .. c : links[s[i]] = IF i = c THEN Nil ELSE s[i + 1]
    PROVE  Chain(start, links) = s
<1>1. MaxNodes \in Nat /\ c \in Nat /\ 0 \notin Node
  BY DequeAssumption DEF Node
<1>2. PICK nth : nth = Nth(start, links)
  OBVIOUS
<1>3. \A k \in 1 .. MaxNodes + 1 : nth[k] = IF k <= c THEN s[k] ELSE Nil
  BY <1>2, NthOfList
<1>4. {k \in 1 .. MaxNodes + 1 : nth[k] # Nil} = 1 .. c
  BY <1>1, <1>3
<1>5. Cardinality(1 .. c) = c
  BY <1>1, FS_Interval
<1>6. Chain(start, links) = [k \in 1 .. c |-> nth[k]]
  BY <1>2, <1>4, <1>5 DEF Chain
<1>7. \A k \in 1 .. c : nth[k] = s[k]
  BY <1>1, <1>3
<1> QED
  BY <1>6, <1>7

\* There are no more nodes in a list than there are nodes.
LEMMA ListLength ==
    ASSUME NEW c \in Nat, NEW s \in [1 .. c -> Node],
           \A i, j \in 1 .. c : s[i] = s[j] => i = j
    PROVE  c <= MaxNodes
<1>1. s \in Injection(1 .. c, Node)
  BY DEF Injection, IsInjective
<1>2. MaxNodes \in Nat
  BY DequeAssumption
<1>3. IsFiniteSet(Node) /\ Cardinality(Node) = MaxNodes /\ Cardinality(1 .. c) = c
  BY <1>2, FS_Interval DEF Node
<1>4. Cardinality(1 .. c) <= Cardinality(Node)
  BY <1>1, <1>3, FS_Injection
<1> QED
  BY <1>3, <1>4

\* Chain reads a deque's list in both directions, and it is sound.
THEOREM ListIsSound ==
    ASSUME NEW V, NEW d \in Deque(V), NEW s, Lists(d, s)
    PROVE  Chain(d.first, d.next) = s /\ Sound(d)
<1> DEFINE c == d.count
           r == [k \in 1 .. c |-> s[c + 1 - k]]
<1>1. /\ c \in Nat /\ s \in [1 .. c -> Node]
      /\ \A i, j \in 1 .. c : s[i] = s[j] => i = j
  <2>1. c \in Nat
    BY ListNodes
  <2>2. s \in [1 .. c -> Node] /\ \A i, j \in 1 .. c : s[i] = s[j] => i = j
    BY DEF Lists
  <2> QED
    BY <2>1, <2>2
<1>2. c \in 0 .. MaxNodes
  BY <1>1, ListLength, DequeAssumption
<1>3. /\ d.first = IF c = 0 THEN Nil ELSE s[1]
      /\ \A i \in 1 .. c : d.next[s[i]] = IF i = c THEN Nil ELSE s[i + 1]
  BY DEF Lists
<1>4. /\ r \in [1 .. c -> Node]
      /\ d.last = IF c = 0 THEN Nil ELSE r[1]
      /\ \A i \in 1 .. c : d.previous[r[i]] = IF i = c THEN Nil ELSE r[i + 1]
  <2>1. \A k \in 1 .. c : c + 1 - k \in 1 .. c /\ r[k] = s[c + 1 - k]
    BY <1>1
  <2>2. d.last = IF c = 0 THEN Nil ELSE s[c]
    BY DEF Lists
  <2>3. \A i \in 1 .. c : d.previous[s[i]] = IF i = 1 THEN Nil ELSE s[i - 1]
    BY DEF Lists
  <2>4. r \in [1 .. c -> Node]
    BY <1>1, <2>1
  <2> HIDE DEF r
  <2>5. d.last = IF c = 0 THEN Nil ELSE r[1]
    BY <1>1, <2>1, <2>2
  <2>6. ASSUME NEW i \in 1 .. c
        PROVE  d.previous[r[i]] = IF i = c THEN Nil ELSE r[i + 1]
    <3>1. c + 1 - i = 1 <=> i = c
      BY <1>1
    <3>2. i # c => r[i + 1] = s[(c + 1 - i) - 1]
      BY <1>1, <2>1
    <3> QED
      BY <2>1, <2>3, <3>1, <3>2
  <2> QED
    BY <2>4, <2>5, <2>6
<1> HIDE DEF c, r
<1>5. Chain(d.first, d.next) = s
  <2>1. PICK start, links : start = d.first /\ links = d.next
    OBVIOUS
  <2>2. Chain(start, links) = s
    BY <1>1, <1>2, <1>3, <2>1, ChainOfList
  <2> QED
    BY <2>1, <2>2
<1>6. Chain(d.last, d.previous) = r
  <2>1. PICK start, links : start = d.last /\ links = d.previous
    OBVIOUS
  <2>2. Chain(start, links) = r
    BY <1>2, <1>4, <2>1, ChainOfList
  <2> QED
    BY <2>1, <2>2
<1>7. Len(s) = c /\ Len(r) = c
  BY <1>1, <1>4
<1>8. \A k \in 1 .. c : s[k] = r[c + 1 - k]
  <2>1. \A k \in 1 .. c : c + 1 - k \in 1 .. c /\ c + 1 - (c + 1 - k) = k
    BY <1>1
  <2> QED
    BY <2>1 DEF r
<1>9. c <= MaxNodes
  BY <1>2, DequeAssumption
<1>10. Sound(d)
  <2>1. d.count = c
    BY DEF c
  <2>2. PICK forth, back : forth = Chain(d.first, d.next) /\ back = Chain(d.last, d.previous)
    OBVIOUS
  <2>3. /\ Len(forth) = d.count /\ Len(back) = d.count /\ d.count <= MaxNodes
        /\ \A k \in 1 .. d.count : forth[k] = back[d.count + 1 - k]
    BY <1>5, <1>6, <1>7, <1>8, <1>9, <2>1, <2>2
  <2> QED
    BY <2>2, <2>3 DEF Sound
<1> QED
  BY <1>5, <1>10
=============================================================================
