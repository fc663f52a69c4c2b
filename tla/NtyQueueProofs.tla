---------------------------- MODULE NtyQueueProofs ----------------------------
(***************************************************************************)
(* The TAILQ macros implement sequences, for any heads and any number of   *)
(* elements.  The addresses of a queue, its head first, form a ring in     *)
(* last and a line in first; every macro keeps each queue's addresses so,  *)
(* and different queues apart.                                             *)
(***************************************************************************)
EXTENDS NtyQueue, SequenceTheorems, FiniteSetTheorems, WellFoundedInduction, TLAPS

-------------------------------------------------------------------------------
(* The invariant *)

Address == Anchor \cup Elem

\* The address at position i of the queue of h, whose elements are s.
Spot(h, s, i) == IF i = 0 THEN h ELSE s[i]

\* The words of a head and its elements, F being first and L last.
Line(F, h, s) ==
  \A i \in 0..Len(s) : F[Spot(h, s, i)] = IF i = Len(s) THEN None ELSE s[i + 1]
Ring(L, h, s) ==
  /\ L[h] = Spot(h, s, Len(s))
  /\ \A i \in 1..Len(s) : L[s[i]] = Spot(h, s, i - 1)

\* No element is in two places.
Apart(q) ==
  /\ q \in [Anchor -> Seq(Elem)]
  /\ \A h, k \in Anchor : \A i \in 1..Len(q[h]), j \in 1..Len(q[k]) :
       q[h][i] = q[k][j] => h = k /\ i = j

Linked(F, L, q) ==
  /\ F \in [Address -> Elem \cup {None}] /\ L \in [Address -> Address]
  /\ Apart(q)
  /\ \A h \in Anchor : Line(F, h, q[h]) /\ Ring(L, h, q[h])

\* The sequences that the walks visit.
Queue == [h \in Anchor |-> WalkFrom(h)]

QueueInv == Linked(first, last, Queue)

-------------------------------------------------------------------------------
(* Walks *)

\* Any set of numbers has a least one.
LEMMA Least ==
  ASSUME NEW T, T \subseteq Nat, T # {}
  PROVE  \E i \in T : \A j \in T : i <= j
<1>1. \E i \in T : \A j \in T : ~(<<j, i>> \in OpToRel(<, Nat))
  BY WFMin, NatLessThanWellFounded, Zenon
<1>2. \A i, j \in Nat : j < i => <<j, i>> \in OpToRel(<, Nat)
  BY Zenon DEF OpToRel
<1>3. \A i, j \in T : ~(<<j, i>> \in OpToRel(<, Nat)) => ~(j < i)
  BY <1>2, Zenon
<1>4. PICK i \in T : \A j \in T : ~(j < i)
  BY <1>1, <1>3, Zenon
<1>5. QED BY <1>4

\* A walk, with the word it follows as a parameter.
NextIn(F, a) == IF a = None THEN None ELSE F[a]
Visited(F, h) ==
  LET stop[i \in 0..Cardinality(Elem)] == IF i = 0 THEN h ELSE NextIn(F, stop[i - 1])
  IN  [i \in {j \in 1..Cardinality(Elem) : stop[j] # None} |-> stop[i]]

\* Distinct elements are at most as many as there are.
LEMMA AtMostAll ==
  ASSUME NEW s \in Seq(Elem), \A i, j \in 1..Len(s) : s[i] = s[j] => i = j
  PROVE  Len(s) <= Cardinality(Elem)
<1> DEFINE n == Len(s)
<1>1. n \in Nat /\ s \in [1..n -> Elem]
  OBVIOUS
<1>2. s \in Injection(1..n, Elem)
  BY <1>1 DEF Injection, IsInjective
<1>3. IsFiniteSet(1..n) /\ Cardinality(1..n) = n
  <2> HIDE DEF n
  <2>1. IsFiniteSet(1..n) /\ Cardinality(1..n) = IF 1 > n THEN 0 ELSE n - 1 + 1
    BY <1>1, FS_Interval
  <2>2. QED BY <1>1, <2>1
<1>4. Cardinality(1..n) <= Cardinality(Elem)
  BY <1>2, NtyQueueAssumption, FS_Injection
<1>5. QED BY <1>3, <1>4

\* A walk along a line visits its elements.
LEMMA VisitedLine ==
  ASSUME NEW F, NEW h \in Anchor, NEW s \in Seq(Elem), Line(F, h, s),
         Len(s) <= Cardinality(Elem)
  PROVE  Visited(F, h) = s
<1> DEFINE N == Cardinality(Elem)
           n == Len(s)
           Stops(i) == IF i <= n THEN Spot(h, s, i) ELSE None
           Loop(f) == [i \in 0..N |-> IF i = 0 THEN h ELSE NextIn(F, f[i - 1])]
           w == [i \in 0..N |-> Stops(i)]
           g == CHOOSE f : f = Loop(f)
<1>1. n \in Nat /\ s \in [1..n -> Elem] /\ n <= N
  OBVIOUS
<1>2. N \in Nat
  BY NtyQueueAssumption, FS_CardinalityType
<1>3. Visited(F, h) = [i \in {j \in 1..N : g[j] # None} |-> g[i]]
  BY DEF Visited
<1>4. \A i \in 0..n : F[Spot(h, s, i)] = IF i = n THEN None ELSE s[i + 1]
  BY DEF Line
<1> HIDE DEF N, n
<1>5. None # h /\ \A i \in 1..n : s[i] # None
  BY <1>1, NtyQueueAssumption
<1>6. \A i \in 0..n : Spot(h, s, i) # None
  BY <1>5 DEF Spot
<1>7. Stops(0) = h
  BY <1>1 DEF Spot
<1>8. ASSUME NEW i \in 1..N PROVE Stops(i) = NextIn(F, Stops(i - 1))
  <2>1. CASE i <= n
    <3>1. i - 1 \in 0..n /\ i - 1 # n /\ i - 1 <= n /\ (i - 1) + 1 = i /\ i # 0
      BY <1>1, <1>2, <2>1
    <3>2. F[Spot(h, s, i - 1)] = s[i]
      BY <1>4, <3>1
    <3>3. QED BY <1>6, <2>1, <3>1, <3>2 DEF NextIn, Spot
  <2>2. CASE i = n + 1
    <3>1. n \in 0..n /\ i - 1 = n /\ ~(i <= n)
      BY <1>1, <2>2
    <3>2. QED BY <1>1, <1>4, <1>6, <3>1 DEF NextIn
  <2>3. CASE i > n + 1
    <3>1. ~(i <= n) /\ ~(i - 1 <= n)
      BY <1>1, <1>2, <2>3
    <3>2. QED BY <3>1 DEF NextIn
  <2>4. QED BY <1>1, <1>2, <2>1, <2>2, <2>3
<1> HIDE DEF Stops
<1>9. w = Loop(w)
  <2>1. ASSUME NEW i \in 0..N
        PROVE  Stops(i) = IF i = 0 THEN h ELSE NextIn(F, w[i - 1])
    <3>1. CASE i = 0
      BY <1>7, <3>1
    <3>2. CASE i # 0
      <4>1. i \in 1..N /\ i - 1 \in 0..N
        BY <1>2, <3>2
      <4>2. QED BY <1>8, <3>2, <4>1
    <3>3. QED BY <3>1, <3>2
  <2>2. QED BY <2>1
<1>10. g = Loop(g)
  <2> HIDE DEF w
  <2>1. \E f : f = Loop(f)
    BY <1>9
  <2> HIDE DEF Loop
  <2>2. QED BY <2>1
<1> HIDE DEF g
<1>11. \A i \in 0..N : g[i] = Stops(i)
  <2> DEFINE T == {i \in 0..N : g[i] # Stops(i)}
  <2>1. ASSUME T # {} PROVE FALSE
    <3>1. T \subseteq Nat
      OBVIOUS
    <3>2. PICK i \in T : \A k \in T : i <= k
      <4> HIDE DEF T
      <4>1. QED BY <2>1, <3>1, Least
    <3>3. i \in 0..N /\ g[i] = IF i = 0 THEN h ELSE NextIn(F, g[i - 1])
      BY <1>10
    <3>4. i # 0
      BY <1>7, <3>2, <3>3
    <3>5. i \in 1..N /\ i - 1 \in 0..N /\ ~(i <= i - 1)
      BY <1>2, <3>3, <3>4
    <3>6. g[i - 1] = Stops(i - 1)
      BY <3>2, <3>5
    <3>7. g[i] = Stops(i)
      BY <1>8, <3>3, <3>4, <3>5, <3>6
    <3>8. QED BY <3>2, <3>7
  <2>2. QED BY <2>1
<1>12. {j \in 1..N : g[j] # None} = 1..n
  <2>1. \A j \in 1..N : g[j] # None <=> j <= n
    BY <1>2, <1>6, <1>11 DEF Stops
  <2>2. QED BY <1>1, <1>2, <2>1
<1>13. \A i \in 1..n : g[i] = s[i]
  BY <1>1, <1>2, <1>11 DEF Stops, Spot
<1>14. QED BY <1>1, <1>3, <1>12, <1>13

\* In linked queues the walks visit the elements.
LEMMA WalksVisit ==
  ASSUME NEW q, Linked(first, last, q)
  PROVE  Queue = q
<1>1. ASSUME NEW h \in Anchor PROVE WalkFrom(h) = q[h]
  <2>1. q[h] \in Seq(Elem) /\ Line(first, h, q[h])
    BY DEF Linked, Apart
  <2>2. Len(q[h]) <= Cardinality(Elem)
    BY <2>1, AtMostAll DEF Linked, Apart
  <2>3. WalkFrom(h) = Visited(first, h)
    BY DEF WalkFrom, Follow, Visited, NextIn
  <2>4. QED BY <2>1, <2>2, <2>3, VisitedLine
<1>2. QED BY <1>1 DEF Queue, Linked, Apart

\* After a step.
LEMMA WalksVisitThen ==
  ASSUME NEW q, Linked(first', last', q)
  PROVE  Queue' = q
<1>1. ASSUME NEW h \in Anchor PROVE WalkFrom(h)' = q[h]
  <2>1. q[h] \in Seq(Elem) /\ Line(first', h, q[h])
    BY DEF Linked, Apart
  <2>2. Len(q[h]) <= Cardinality(Elem)
    BY <2>1, AtMostAll DEF Linked, Apart
  <2>3. WalkFrom(h)' = Visited(first', h)
    BY DEF WalkFrom, Follow, Visited, NextIn
  <2>4. QED BY <2>1, <2>2, <2>3, VisitedLine
<1>2. QED BY <1>1 DEF Queue, Linked, Apart

-------------------------------------------------------------------------------
(* Positions *)

\* What the sequence with e at position i + 1 has at each position.
LEMMA Inserting ==
  ASSUME NEW s \in Seq(Elem), NEW i \in 0..Len(s), NEW e \in Elem
  PROVE  LET t == Sequences!InsertAt(s, i + 1, e) IN
           /\ t \in Seq(Elem) /\ Len(t) = Len(s) + 1
           /\ \A j \in 1..Len(s) + 1 :
                t[j] = IF j <= i THEN s[j] ELSE IF j = i + 1 THEN e ELSE s[j - 1]
<1> DEFINE n == Len(s)
           k == i + 1
           b == SubSeq(s, 1, k - 1)
           m == <<e>>
           a == SubSeq(s, k, Len(s))
           u == b \o m
           t == u \o a
<1>1. n \in Nat /\ i \in 0..n /\ \A j \in 1..n : s[j] \in Elem
  OBVIOUS
<1>2. t = Sequences!InsertAt(s, i + 1, e)
  BY DEF Sequences!InsertAt
<1>3. a = SubSeq(s, k, n)
  OBVIOUS
<1> HIDE DEF n
<1>4. k - 1 = i /\ k \in Int /\ 1 \in Int /\ n - k + 1 = n - i /\ k = i + 1
  BY <1>1
<1> HIDE DEF k, a
<1>5. b \in Seq(Elem) /\ Len(b) = i /\ \A j \in 1..i : b[j] = s[j]
  <2> DEFINE z == 1
  <2>1. z \in Int /\ i \in Int /\ b = SubSeq(s, z, i) /\ \A j \in z..i : s[j] \in Elem
    BY <1>1, <1>4
  <2>2. z = 1
    OBVIOUS
  <2> HIDE DEF z, b
  <2>3. /\ b \in Seq(Elem) /\ Len(b) = IF z <= i THEN i - z + 1 ELSE 0
        /\ \A j \in 1..i - z + 1 : b[j] = s[z + j - 1]
    BY <2>1, SubSeqProperties
  <2>4. QED BY <1>1, <2>2, <2>3
<1>6. a \in Seq(Elem) /\ Len(a) = n - i /\ \A j \in 1..n - i : a[j] = s[i + j]
  <2>1. k \in Int /\ n \in Int /\ \A j \in k..n : s[j] \in Elem
    BY <1>1, <1>4
  <2>2. /\ a \in Seq(Elem) /\ Len(a) = IF k <= n THEN n - k + 1 ELSE 0
        /\ \A j \in 1..n - k + 1 : a[j] = s[k + j - 1]
    BY <1>3, <2>1, SubSeqProperties
  <2>3. QED BY <1>1, <1>4, <2>2
<1>7. m \in Seq(Elem) /\ Len(m) = 1 /\ m[1] = e
  OBVIOUS
<1> HIDE DEF b, m, a
<1>8. u \in Seq(Elem) /\ Len(u) = i + 1 /\ \A j \in 1..i + 1 : u[j] = IF j <= i THEN s[j] ELSE e
  <2>1. /\ u \in Seq(Elem) /\ Len(u) = Len(b) + Len(m)
        /\ \A j \in 1..Len(b) + Len(m) : u[j] = IF j <= Len(b) THEN b[j] ELSE m[j - Len(b)]
    BY <1>5, <1>7, ConcatProperties
  <2>2. QED BY <1>1, <1>5, <1>7, <2>1
<1> HIDE DEF u
<1>9. /\ t \in Seq(Elem) /\ Len(t) = n + 1
      /\ \A j \in 1..n + 1 : t[j] = IF j <= i THEN s[j] ELSE IF j = i + 1 THEN e ELSE s[j - 1]
  <2>1. /\ t \in Seq(Elem) /\ Len(t) = Len(u) + Len(a)
        /\ \A j \in 1..Len(u) + Len(a) : t[j] = IF j <= Len(u) THEN u[j] ELSE a[j - Len(u)]
    BY <1>6, <1>8, ConcatProperties
  <2> HIDE DEF t
  <2>2. Len(t) = n + 1
    BY <1>1, <1>6, <1>8, <2>1
  <2>3. ASSUME NEW j \in 1..n + 1
        PROVE  t[j] = IF j <= i THEN s[j] ELSE IF j = i + 1 THEN e ELSE s[j - 1]
    <3>1. t[j] = IF j <= i + 1 THEN u[j] ELSE a[j - (i + 1)]
      BY <1>1, <1>6, <1>8, <2>1
    <3>2. CASE j <= i + 1
      BY <1>1, <1>8, <3>1, <3>2
    <3>3. CASE j > i + 1
      <4>1. j - (i + 1) \in 1..n - i /\ i + (j - (i + 1)) = j - 1 /\ ~(j <= i + 1)
        BY <1>1, <3>3
      <4>2. t[j] = s[j - 1]
        BY <1>6, <3>1, <4>1
      <4>3. QED BY <1>1, <3>3, <4>2
    <3>4. QED BY <1>1, <3>2, <3>3
  <2>4. QED BY <2>1, <2>2, <2>3
<1>10. QED BY <1>2, <1>9 DEF n

\* What the sequence without position i has at each position.
LEMMA Removing ==
  ASSUME NEW s \in Seq(Elem), NEW i \in 1..Len(s)
  PROVE  LET t == Sequences!RemoveAt(s, i) IN
           /\ t \in Seq(Elem) /\ Len(t) = Len(s) - 1
           /\ \A j \in 1..Len(s) - 1 : t[j] = IF j < i THEN s[j] ELSE s[j + 1]
<1> DEFINE n == Len(s)
           b == SubSeq(s, 1, i - 1)
           a == SubSeq(s, i + 1, Len(s))
           t == b \o a
<1>1. n \in Nat /\ i \in 1..n /\ \A j \in 1..n : s[j] \in Elem
  OBVIOUS
<1>2. t = Sequences!RemoveAt(s, i)
  BY DEF Sequences!RemoveAt
<1>3. a = SubSeq(s, i + 1, n)
  OBVIOUS
<1> HIDE DEF n, a
<1>4. b \in Seq(Elem) /\ Len(b) = i - 1 /\ \A j \in 1..i - 1 : b[j] = s[j]
  <2> DEFINE z == 1
             l == i - 1
  <2>1. z \in Int /\ l \in Int /\ b = SubSeq(s, z, l) /\ \A j \in z..l : s[j] \in Elem
    BY <1>1
  <2>2. z = 1 /\ l = i - 1
    OBVIOUS
  <2> HIDE DEF z, l, b
  <2>3. /\ b \in Seq(Elem) /\ Len(b) = IF z <= l THEN l - z + 1 ELSE 0
        /\ \A j \in 1..l - z + 1 : b[j] = s[z + j - 1]
    BY <2>1, SubSeqProperties
  <2>4. QED BY <1>1, <2>2, <2>3
<1>5. a \in Seq(Elem) /\ Len(a) = n - i /\ \A j \in 1..n - i : a[j] = s[i + j]
  <2> DEFINE k == i + 1
  <2>1. k \in Int /\ n \in Int /\ a = SubSeq(s, k, n) /\ \A j \in k..n : s[j] \in Elem
    BY <1>1, <1>3
  <2>2. k = i + 1
    OBVIOUS
  <2> HIDE DEF k
  <2>3. /\ a \in Seq(Elem) /\ Len(a) = IF k <= n THEN n - k + 1 ELSE 0
        /\ \A j \in 1..n - k + 1 : a[j] = s[k + j - 1]
    BY <2>1, SubSeqProperties
  <2>4. n - k + 1 = n - i /\ \A j \in 1..n - i : k + j - 1 = i + j
    BY <1>1, <2>2
  <2>5. Len(a) = n - i
    BY <1>1, <2>2, <2>3
  <2>6. QED BY <2>3, <2>4, <2>5
<1> HIDE DEF b
<1>6. /\ t \in Seq(Elem) /\ Len(t) = n - 1
      /\ \A j \in 1..n - 1 : t[j] = IF j < i THEN s[j] ELSE s[j + 1]
  <2>1. /\ t \in Seq(Elem) /\ Len(t) = Len(b) + Len(a)
        /\ \A j \in 1..Len(b) + Len(a) : t[j] = IF j <= Len(b) THEN b[j] ELSE a[j - Len(b)]
    BY <1>4, <1>5, ConcatProperties
  <2> HIDE DEF t
  <2>2. Len(t) = n - 1
    BY <1>1, <1>4, <1>5, <2>1
  <2>3. ASSUME NEW j \in 1..n - 1
        PROVE  t[j] = IF j < i THEN s[j] ELSE s[j + 1]
    <3>1. t[j] = IF j <= i - 1 THEN b[j] ELSE a[j - (i - 1)]
      BY <1>1, <1>4, <1>5, <2>1
    <3>2. CASE j < i
      BY <1>1, <1>4, <3>1, <3>2
    <3>3. CASE j >= i
      <4>1. j - (i - 1) \in 1..n - i /\ i + (j - (i - 1)) = j + 1 /\ ~(j <= i - 1)
        BY <1>1, <3>3
      <4>2. t[j] = s[j + 1]
        BY <1>5, <3>1, <4>1
      <4>3. QED BY <1>1, <3>3, <4>2
    <3>4. QED BY <1>1, <3>2, <3>3
  <2>4. QED BY <2>1, <2>2, <2>3
<1>7. QED BY <1>2, <1>6 DEF n

\* Different positions are different addresses.
LEMMA SpotsApart ==
  ASSUME NEW q, Apart(q), NEW h \in Anchor, NEW k \in Anchor,
         NEW i \in 0..Len(q[h]), NEW j \in 0..Len(q[k])
  PROVE  /\ Spot(h, q[h], i) \in Address
         /\ i # 0 => Spot(h, q[h], i) \in Elem
         /\ Spot(h, q[h], i) = Spot(k, q[k], j) => h = k /\ i = j
<1> DEFINE n == Len(q[h])
           m == Len(q[k])
<1>1. /\ n \in Nat /\ q[h] \in [1..n -> Elem]
      /\ m \in Nat /\ q[k] \in [1..m -> Elem]
  <2>1. q[h] \in Seq(Elem) /\ q[k] \in Seq(Elem)
    BY DEF Apart
  <2>2. QED BY <2>1
<1>2. \A x \in 1..n, y \in 1..m : q[h][x] = q[k][y] => h = k /\ x = y
  BY DEF Apart
<1> HIDE DEF n, m
<1>3. i \in 0..n /\ j \in 0..m
  BY DEF n, m
<1>4. Spot(h, q[h], i) = IF i = 0 THEN h ELSE q[h][i]
  BY DEF Spot
<1>5. Spot(k, q[k], j) = IF j = 0 THEN k ELSE q[k][j]
  BY DEF Spot
<1>6. i # 0 => i \in 1..n /\ q[h][i] \in Elem
  BY <1>1, <1>3
<1>7. j # 0 => j \in 1..m /\ q[k][j] \in Elem
  BY <1>1, <1>3
<1>8. \A x \in Elem : x \notin Anchor
  BY NtyQueueAssumption
<1>9. QED BY <1>2, <1>4, <1>5, <1>6, <1>7, <1>8 DEF Address

\* The words of a queue whose addresses a step does not write.
LEMMA Untouched ==
  ASSUME NEW F, NEW L, NEW G, NEW M, NEW k, NEW u, u \in Seq(Elem), Line(F, k, u), Ring(L, k, u),
         \A j \in 0..Len(u) : /\ G[Spot(k, u, j)] = F[Spot(k, u, j)]
                              /\ M[Spot(k, u, j)] = L[Spot(k, u, j)]
  PROVE  Line(G, k, u) /\ Ring(M, k, u)
<1> DEFINE n == Len(u)
<1>1. n \in Nat
  OBVIOUS
<1>2. /\ \A j \in 0..n : F[Spot(k, u, j)] = IF j = n THEN None ELSE u[j + 1]
      /\ L[k] = Spot(k, u, n)
      /\ \A j \in 1..n : L[u[j]] = Spot(k, u, j - 1)
  BY DEF Line, Ring
<1>3. \A j \in 0..n : G[Spot(k, u, j)] = F[Spot(k, u, j)] /\ M[Spot(k, u, j)] = L[Spot(k, u, j)]
  OBVIOUS
<1> HIDE DEF n
<1>4. \A j \in 0..n : G[Spot(k, u, j)] = IF j = n THEN None ELSE u[j + 1]
  BY <1>2, <1>3
<1>5. M[k] = Spot(k, u, n)
  <2>1. Spot(k, u, 0) = k /\ 0 \in 0..n
    BY <1>1 DEF Spot
  <2>2. QED BY <1>2, <1>3, <2>1
<1>6. ASSUME NEW j \in 1..n PROVE M[u[j]] = Spot(k, u, j - 1)
  <2>1. Spot(k, u, j) = u[j] /\ j \in 0..n
    BY <1>1 DEF Spot
  <2>2. QED BY <1>2, <1>3, <2>1
<1>7. QED BY <1>4, <1>5, <1>6 DEF Line, Ring, n

-------------------------------------------------------------------------------
(* The macros on memory *)

\* What the insertions write to put e behind position i of s, at a, and before what
\* follows there, at b.
PutBehind(F, L, h, s, i, e, G, M) ==
  LET a == Spot(h, s, i)
      b == IF i = Len(s) THEN h ELSE s[i + 1]
  IN  /\ G = [[F EXCEPT ![e] = F[a]] EXCEPT ![a] = e]
      /\ M = [[L EXCEPT ![b] = e] EXCEPT ![e] = a]

Absent(q, e) == \A k \in Anchor : \A j \in 1..Len(q[k]) : q[k][j] # e

\* TAILQ_INSERT_TAIL, TAILQ_INSERT_HEAD, TAILQ_INSERT_AFTER and TAILQ_INSERT_BEFORE.
LEMMA InsertKeeps ==
  ASSUME NEW F, NEW L, NEW q, Linked(F, L, q), NEW h \in Anchor, NEW i \in 0..Len(q[h]),
         NEW e \in Elem, Absent(q, e), NEW G, NEW M, PutBehind(F, L, h, q[h], i, e, G, M)
  PROVE  Linked(G, M, [q EXCEPT ![h] = Sequences!InsertAt(q[h], i + 1, e)])
<1> DEFINE s == q[h]
           n == Len(s)
           t == Sequences!InsertAt(s, i + 1, e)
           r == [q EXCEPT ![h] = t]
           a == Spot(h, s, i)
           b == IF i = n THEN h ELSE s[i + 1]
<1>1. s \in Seq(Elem) /\ n \in Nat /\ i \in 0..n /\ s \in [1..n -> Elem]
  <2>1. q[h] \in Seq(Elem)
    BY DEF Linked, Apart
  <2>2. QED BY <2>1
<1>2. /\ t \in Seq(Elem) /\ Len(t) = n + 1
      /\ \A j \in 1..n + 1 : t[j] = IF j <= i THEN s[j] ELSE IF j = i + 1 THEN e ELSE s[j - 1]
  <2>1. s \in Seq(Elem) /\ i \in 0..Len(s)
    BY <1>1
  <2> HIDE DEF s
  <2>2. QED BY <2>1, Inserting
<1>3. q \in [Anchor -> Seq(Elem)]
  BY DEF Linked, Apart
<1>4. a = Spot(h, s, i) /\ b = IF i = n THEN h ELSE s[i + 1]
  OBVIOUS
<1>5. /\ \A j \in 0..n : F[Spot(h, s, j)] = IF j = n THEN None ELSE s[j + 1]
      /\ L[h] = Spot(h, s, n)
      /\ \A j \in 1..n : L[s[j]] = Spot(h, s, j - 1)
  BY DEF Linked, Line, Ring
<1>6. \A j \in 1..n : s[j] # e
  BY DEF Absent
<1>7. \A x, y \in 0..n : Spot(h, s, x) = Spot(h, s, y) => x = y
  BY SpotsApart DEF Linked
<1>8. G = [[F EXCEPT ![e] = F[a]] EXCEPT ![a] = e] /\ M = [[L EXCEPT ![b] = e] EXCEPT ![e] = a]
  BY DEF PutBehind
<1> HIDE DEF a, b, t, n, r
<1>9. r \in [Anchor -> Seq(Elem)] /\ r[h] = t /\ \A k \in Anchor \ {h} : r[k] = q[k]
  BY <1>2, <1>3 DEF r
<1>10. a \in Address /\ b \in Address /\ e \in Address /\ a # e /\ b # e /\ h # e
  <2>1. h # e /\ h \in Address /\ e \in Address
    BY NtyQueueAssumption DEF Address
  <2>2. a \in Address /\ a # e
    BY <1>1, <1>4, <1>6, <2>1 DEF Spot, Address
  <2>3. b \in Address /\ b # e
    <3>1. CASE i = n
      BY <1>4, <2>1, <3>1
    <3>2. CASE i # n
      <4>1. i + 1 \in 1..n
        BY <1>1, <3>2
      <4>2. QED BY <1>1, <1>4, <1>6, <3>2, <4>1 DEF Address
    <3>3. QED BY <3>1, <3>2
  <2>4. QED BY <2>1, <2>2, <2>3
<1>11. /\ F \in [Address -> Elem \cup {None}] /\ L \in [Address -> Address]
  BY DEF Linked
<1>12. /\ G \in [Address -> Elem \cup {None}]
       /\ \A x \in Address : G[x] = IF x = a THEN e ELSE IF x = e THEN F[a] ELSE F[x]
  BY <1>10, <1>11, <1>8
<1>13. /\ M \in [Address -> Address]
       /\ \A x \in Address : M[x] = IF x = e THEN a ELSE IF x = b THEN e ELSE L[x]
  BY <1>10, <1>11, <1>8
<1>14. Apart(r)
  <2> DEFINE Old(j) == IF j <= i THEN j ELSE j - 1
  <2>1. ASSUME NEW j \in 1..n + 1, j # i + 1 PROVE Old(j) \in 1..n /\ t[j] = s[Old(j)]
    BY <1>1, <1>2, <2>1
  <2>2. \A x, y \in 1..n + 1 : x # i + 1 /\ y # i + 1 /\ Old(x) = Old(y) => x = y
    BY <1>1
  <2>3. t[i + 1] = e /\ i + 1 \in 1..n + 1
    BY <1>1, <1>2
  <2> HIDE DEF Old
  <2>4. \A x, y \in 1..n : s[x] = s[y] => x = y
    BY DEF Linked, Apart, n
  <2>5. ASSUME NEW x \in 1..n + 1, NEW y \in 1..n + 1, t[x] = t[y] PROVE x = y
    BY <1>6, <2>1, <2>2, <2>3, <2>4, <2>5
  <2>6. ASSUME NEW x \in 1..n + 1, NEW k \in Anchor \ {h}, NEW y \in 1..Len(q[k])
        PROVE  t[x] # q[k][y]
    <3>1. CASE x = i + 1
      BY <2>3, <3>1 DEF Absent
    <3>2. CASE x # i + 1
      <4>1. Old(x) \in 1..n /\ t[x] = s[Old(x)]
        BY <2>1, <3>2
      <4>2. QED BY <4>1 DEF Linked, Apart, n
    <3>3. QED BY <3>1, <3>2
  <2>7. ASSUME NEW k \in Anchor, NEW l \in Anchor, NEW x \in 1..Len(r[k]), NEW y \in 1..Len(r[l]),
               r[k][x] = r[l][y]
        PROVE  k = l /\ x = y
    <3>1. CASE k = h /\ l = h
      BY <1>2, <1>9, <2>5, <2>7, <3>1
    <3>2. CASE k = h /\ l # h
      BY <1>2, <1>9, <2>6, <2>7, <3>2
    <3>3. CASE k # h /\ l = h
      BY <1>2, <1>9, <2>6, <2>7, <3>3
    <3>4. CASE k # h /\ l # h
      <4>1. r[k] = q[k] /\ r[l] = q[l]
        BY <1>9, <3>4
      <4>2. QED BY <2>7, <4>1 DEF Linked, Apart
    <3>5. QED BY <3>1, <3>2, <3>3, <3>4
  <2>8. QED BY <1>9, <2>7 DEF Apart
<1>15. \A j \in 0..n : Spot(h, s, j) \in Address /\ Spot(h, s, j) # e
  BY <1>1, <1>6, <1>10 DEF Spot, Address
<1>16. /\ \A j \in 0..i : Spot(h, t, j) = Spot(h, s, j)
       /\ Spot(h, t, i + 1) = e
       /\ \A j \in i + 2..n + 1 : Spot(h, t, j) = Spot(h, s, j - 1)
  BY <1>1, <1>2 DEF Spot
<1>17. ASSUME NEW j \in 0..n + 1
       PROVE  G[Spot(h, t, j)] = IF j = n + 1 THEN None ELSE t[j + 1]
  <2>1. CASE j < i
    <3>1. j \in 0..i /\ j \in 0..n /\ j # n /\ j # n + 1 /\ j + 1 \in 1..n + 1 /\ j + 1 <= i
      BY <1>1, <2>1
    <3>2. Spot(h, s, j) # a
      BY <1>1, <1>4, <1>7, <2>1, <3>1
    <3>3. G[Spot(h, t, j)] = s[j + 1]
      BY <1>5, <1>12, <1>15, <1>16, <3>1, <3>2
    <3>4. QED BY <1>2, <3>1, <3>3
  <2>2. CASE j = i
    <3>1. j # n + 1 /\ j + 1 \in 1..n + 1 /\ ~(j + 1 <= i)
      BY <1>1, <2>2
    <3>2. Spot(h, t, j) = a
      BY <1>1, <1>4, <1>16, <2>2
    <3>3. QED BY <1>2, <1>10, <1>12, <2>2, <3>1, <3>2
  <2>3. CASE j = i + 1
    <3>1. G[Spot(h, t, j)] = F[a]
      BY <1>10, <1>12, <1>16, <2>3
    <3>2. F[a] = IF i = n THEN None ELSE s[i + 1]
      BY <1>1, <1>4, <1>5
    <3>3. i # n => j + 1 \in 1..n + 1 /\ ~(j + 1 <= i) /\ j + 1 # i + 1 /\ (j + 1) - 1 = i + 1
      BY <1>1, <2>3
    <3>4. j = n + 1 <=> i = n
      BY <1>1, <2>3
    <3>5. QED BY <1>2, <3>1, <3>2, <3>3, <3>4
  <2>4. CASE j > i + 1
    <3>1. j \in i + 2..n + 1 /\ j - 1 \in 0..n /\ j - 1 # i /\ (j - 1) + 1 = j
      BY <1>1, <2>4
    <3>2. Spot(h, s, j - 1) # a
      BY <1>1, <1>4, <1>7, <3>1
    <3>3. G[Spot(h, t, j)] = IF j - 1 = n THEN None ELSE s[j]
      BY <1>5, <1>12, <1>15, <1>16, <3>1, <3>2
    <3>4. j # n + 1 => j + 1 \in 1..n + 1 /\ ~(j + 1 <= i) /\ j + 1 # i + 1 /\ (j + 1) - 1 = j
      BY <1>1, <2>4
    <3>5. j - 1 = n <=> j = n + 1
      BY <1>1
    <3>6. QED BY <1>2, <3>3, <3>4, <3>5
  <2>5. QED BY <1>1, <2>1, <2>2, <2>3, <2>4
<1>18. M[h] = Spot(h, t, n + 1)
  <2>1. CASE i = n
    BY <1>1, <1>4, <1>10, <1>13, <1>16, <2>1
  <2>2. CASE i # n
    <3>1. i + 1 \in 1..n /\ n + 1 \in i + 2..n + 1 /\ (n + 1) - 1 = n
      BY <1>1, <2>2
    <3>2. b # h
      BY <1>1, <1>4, <2>2, <3>1, NtyQueueAssumption
    <3>3. M[h] = Spot(h, s, n)
      BY <1>5, <1>10, <1>13, <3>2 DEF Address
    <3>4. QED BY <1>16, <3>1, <3>3
  <2>3. QED BY <2>1, <2>2
<1>19. ASSUME NEW j \in 1..n + 1 PROVE M[t[j]] = Spot(h, t, j - 1)
  <2>1. \A x \in 1..n : s[x] = Spot(h, s, x) /\ s[x] \in Address /\ s[x] # e
    BY <1>1, <1>6 DEF Spot, Address
  <2>2. ASSUME NEW x \in 1..n, x # i + 1 PROVE s[x] # b
    <3>1. CASE i = n
      BY <1>1, <1>4, <3>1, NtyQueueAssumption
    <3>2. CASE i # n
      <4>1. i + 1 \in 1..n /\ i + 1 \in 0..n /\ x \in 0..n
        BY <1>1, <3>2
      <4>2. b = Spot(h, s, i + 1)
        BY <1>4, <2>1, <3>2, <4>1
      <4>3. QED BY <1>7, <2>1, <2>2, <4>1, <4>2
    <3>3. QED BY <3>1, <3>2
  <2>3. CASE j <= i
    <3>1. j \in 1..n /\ j # i + 1 /\ j - 1 \in 0..i
      BY <1>1, <2>3
    <3>2. M[t[j]] = Spot(h, s, j - 1)
      BY <1>2, <1>5, <1>13, <2>1, <2>2, <2>3, <3>1
    <3>3. QED BY <1>16, <3>1, <3>2
  <2>4. CASE j = i + 1
    <3>1. t[j] = e /\ j - 1 = i /\ i \in 0..i
      BY <1>1, <1>2, <2>4
    <3>2. QED BY <1>4, <1>10, <1>13, <1>16, <3>1
  <2>5. CASE j = i + 2
    <3>1. t[j] = s[i + 1] /\ i + 1 \in 1..n /\ i # n /\ j - 1 = i + 1
      BY <1>1, <1>2, <2>5
    <3>2. QED BY <1>4, <1>10, <1>13, <1>16, <3>1
  <2>6. CASE j > i + 2
    <3>1. /\ t[j] = s[j - 1] /\ j - 1 \in 1..n /\ j - 1 # i + 1
          /\ j - 1 \in i + 2..n + 1 /\ (j - 1) - 1 = j - 2
      BY <1>1, <1>2, <2>6
    <3>2. M[t[j]] = Spot(h, s, j - 2)
      BY <1>5, <1>13, <2>1, <2>2, <3>1
    <3>3. QED BY <1>16, <3>1, <3>2
  <2>7. QED BY <1>1, <2>3, <2>4, <2>5, <2>6
<1>20. Line(G, h, t) /\ Ring(M, h, t)
  BY <1>2, <1>17, <1>18, <1>19 DEF Line, Ring
<1>21. ASSUME NEW k \in Anchor \ {h} PROVE Line(G, k, q[k]) /\ Ring(M, k, q[k])
  <2>1. ASSUME NEW j \in 0..Len(q[k])
        PROVE  /\ Spot(k, q[k], j) \in Address
               /\ Spot(k, q[k], j) # a /\ Spot(k, q[k], j) # b /\ Spot(k, q[k], j) # e
    <3>1. \A x \in 0..n : Spot(k, q[k], j) \in Address /\ Spot(k, q[k], j) # Spot(h, s, x)
      BY SpotsApart DEF Linked, n
    <3>2. b = Spot(h, s, IF i = n THEN 0 ELSE i + 1) /\ (IF i = n THEN 0 ELSE i + 1) \in 0..n
      BY <1>1, <1>4 DEF Spot
    <3>3. Spot(k, q[k], j) # e
      <4>1. j # 0 => j \in 1..Len(q[k])
        <5> DEFINE m == Len(q[k])
        <5>1. j \in 0..m
          OBVIOUS
        <5>2. m \in Nat
          <6>1. q[k] \in Seq(Elem)
            BY <1>3
          <6>2. QED BY <6>1
        <5> HIDE DEF m
        <5>3. j # 0 => j \in 1..m
          BY <5>1, <5>2
        <5>4. QED BY <5>3 DEF m
      <4>2. k # e
        BY NtyQueueAssumption
      <4>3. QED BY <4>1, <4>2 DEF Spot, Absent
    <3>4. QED BY <1>1, <1>4, <3>1, <3>2, <3>3
  <2>2. \A j \in 0..Len(q[k]) : /\ G[Spot(k, q[k], j)] = F[Spot(k, q[k], j)]
                                /\ M[Spot(k, q[k], j)] = L[Spot(k, q[k], j)]
    BY <1>12, <1>13, <2>1
  <2>3. q[k] \in Seq(Elem) /\ Line(F, k, q[k]) /\ Ring(L, k, q[k])
    BY DEF Linked, Apart
  <2>4. QED BY <2>2, <2>3, Untouched
<1>22. \A k \in Anchor : Line(G, k, r[k]) /\ Ring(M, k, r[k])
  BY <1>9, <1>20, <1>21
<1>23. QED BY <1>12, <1>13, <1>14, <1>22 DEF Linked, r, t

\* What TAILQ_REMOVE writes: what follows e, at c, comes behind what is before it, at d.
TakesOut(F, L, h, e, G, M) ==
  LET c == F[e]
      d == L[e]
  IN  /\ G = [[F EXCEPT ![d] = c] EXCEPT ![e] = e]
      /\ M = [x \in Address |-> CASE x = e -> e
                                 [] x = c -> d
                                 [] x = h -> IF c = None THEN d ELSE L[h]
                                 [] OTHER -> L[x]]

\* TAILQ_REMOVE.
LEMMA RemoveKeeps ==
  ASSUME NEW F, NEW L, NEW q, Linked(F, L, q), NEW h \in Anchor, NEW i \in 1..Len(q[h]),
         NEW G, NEW M, TakesOut(F, L, h, q[h][i], G, M)
  PROVE  Linked(G, M, [q EXCEPT ![h] = Sequences!RemoveAt(q[h], i)])
<1> DEFINE s == q[h]
           n == Len(s)
           t == Sequences!RemoveAt(s, i)
           r == [q EXCEPT ![h] = t]
           e == s[i]
           c == F[e]
           d == L[e]
<1>1. s \in Seq(Elem) /\ n \in Nat /\ i \in 1..n /\ s \in [1..n -> Elem]
  <2>1. q[h] \in Seq(Elem)
    BY DEF Linked, Apart
  <2>2. QED BY <2>1
<1>2. /\ t \in Seq(Elem) /\ Len(t) = n - 1
      /\ \A j \in 1..n - 1 : t[j] = IF j < i THEN s[j] ELSE s[j + 1]
  <2>1. s \in Seq(Elem) /\ i \in 1..Len(s)
    BY <1>1
  <2> HIDE DEF s
  <2>2. QED BY <2>1, Removing
<1>3. q \in [Anchor -> Seq(Elem)]
  BY DEF Linked, Apart
<1>4. /\ \A j \in 0..n : F[Spot(h, s, j)] = IF j = n THEN None ELSE s[j + 1]
      /\ L[h] = Spot(h, s, n)
      /\ \A j \in 1..n : L[s[j]] = Spot(h, s, j - 1)
  BY DEF Linked, Line, Ring
<1>5. \A x, y \in 0..n : Spot(h, s, x) = Spot(h, s, y) => x = y
  BY SpotsApart DEF Linked
<1>6. /\ G = [[F EXCEPT ![d] = c] EXCEPT ![e] = e]
      /\ M = [x \in Address |-> CASE x = e -> e
                                 [] x = c -> d
                                 [] x = h -> IF c = None THEN d ELSE L[h]
                                 [] OTHER -> L[x]]
  BY DEF TakesOut
<1>7. /\ F \in [Address -> Elem \cup {None}] /\ L \in [Address -> Address]
  BY DEF Linked
<1>8. e = Spot(h, s, i)
  BY <1>1 DEF Spot
<1> HIDE DEF e, c, d, t, n, r
<1>9. /\ e \in Elem /\ e \in Address /\ h \in Address
      /\ h # e /\ i - 1 \in 0..n /\ i \in 0..n
  BY <1>1, NtyQueueAssumption DEF e, Address
<1>10. c = (IF i = n THEN None ELSE s[i + 1]) /\ d = Spot(h, s, i - 1)
  <2>1. c = IF i = n THEN None ELSE s[i + 1]
    BY <1>4, <1>8, <1>9 DEF c
  <2>2. d = Spot(h, s, i - 1)
    BY <1>1, <1>4 DEF d, e
  <2>3. QED BY <2>1, <2>2
<1>11. r \in [Anchor -> Seq(Elem)] /\ r[h] = t /\ \A k \in Anchor \ {h} : r[k] = q[k]
  BY <1>2, <1>3 DEF r
<1>12. \A j \in 0..n : Spot(h, s, j) \in Address
  BY <1>1, <1>9 DEF Spot, Address
<1>13. d \in Address /\ d # e
  BY <1>1, <1>5, <1>8, <1>9, <1>10, <1>12
<1>14. c \in Elem \cup {None} /\ c # h /\ c # e
  <2>1. CASE i = n
    BY <1>9, <1>10, <2>1, NtyQueueAssumption
  <2>2. CASE i # n
    <3>1. i + 1 \in 1..n /\ i + 1 \in 0..n /\ i + 1 # i
      BY <1>1, <2>2
    <3>2. c = s[i + 1] /\ s[i + 1] = Spot(h, s, i + 1) /\ s[i + 1] \in Elem
      BY <1>1, <1>10, <2>2, <3>1 DEF Spot
    <3>3. QED BY <1>5, <1>8, <1>9, <3>1, <3>2, NtyQueueAssumption
  <2>3. QED BY <2>1, <2>2
<1>15. /\ G \in [Address -> Elem \cup {None}]
       /\ \A x \in Address : G[x] = IF x = e THEN e ELSE IF x = d THEN c ELSE F[x]
  BY <1>6, <1>7, <1>9, <1>13, <1>14
<1>16. /\ M \in [Address -> Address]
       /\ \A x \in Address : M[x] = IF x = e THEN e ELSE IF x = c THEN d
                                   ELSE IF x = h THEN (IF c = None THEN d ELSE L[h])
                                   ELSE L[x]
  <2> DEFINE W(x) == CASE x = e -> e
                       [] x = c -> d
                       [] x = h -> IF c = None THEN d ELSE L[h]
                       [] OTHER -> L[x]
  <2>1. M = [x \in Address |-> W(x)]
    BY <1>6
  <2>2. \A x \in Address : W(x) = IF x = e THEN e ELSE IF x = c THEN d
                                 ELSE IF x = h THEN (IF c = None THEN d ELSE L[h])
                                 ELSE L[x]
    BY <1>9, <1>14
  <2>3. \A x \in Address : L[x] \in Address
    BY <1>7
  <2> HIDE DEF W
  <2>4. \A x \in Address : W(x) \in Address
    BY <1>9, <1>13, <2>2, <2>3
  <2>5. QED BY <2>1, <2>2, <2>4
<1>17. Apart(r)
  <2> DEFINE Old(j) == IF j < i THEN j ELSE j + 1
  <2>1. ASSUME NEW j \in 1..n - 1 PROVE Old(j) \in 1..n /\ t[j] = s[Old(j)]
    BY <1>1, <1>2
  <2>2. \A x, y \in 1..n - 1 : Old(x) = Old(y) => x = y
    BY <1>1
  <2> HIDE DEF Old
  <2>3. \A x, y \in 1..n : s[x] = s[y] => x = y
    BY DEF Linked, Apart, n
  <2>4. ASSUME NEW x \in 1..n - 1, NEW y \in 1..n - 1, t[x] = t[y] PROVE x = y
    BY <2>1, <2>2, <2>3, <2>4
  <2>5. ASSUME NEW x \in 1..n - 1, NEW k \in Anchor \ {h}, NEW y \in 1..Len(q[k])
        PROVE  t[x] # q[k][y]
    <3>1. Old(x) \in 1..n /\ t[x] = s[Old(x)]
      BY <2>1
    <3>2. QED BY <3>1 DEF Linked, Apart, n
  <2>6. ASSUME NEW k \in Anchor, NEW l \in Anchor, NEW x \in 1..Len(r[k]), NEW y \in 1..Len(r[l]),
               r[k][x] = r[l][y]
        PROVE  k = l /\ x = y
    <3>1. CASE k = h /\ l = h
      BY <1>2, <1>11, <2>4, <2>6, <3>1
    <3>2. CASE k = h /\ l # h
      BY <1>2, <1>11, <2>5, <2>6, <3>2
    <3>3. CASE k # h /\ l = h
      BY <1>2, <1>11, <2>5, <2>6, <3>3
    <3>4. CASE k # h /\ l # h
      <4>1. r[k] = q[k] /\ r[l] = q[l]
        BY <1>11, <3>4
      <4>2. QED BY <2>6, <4>1 DEF Linked, Apart
    <3>5. QED BY <3>1, <3>2, <3>3, <3>4
  <2>7. QED BY <1>11, <2>6 DEF Apart
<1>18. /\ \A j \in 0..i - 1 : j <= n - 1 => Spot(h, t, j) = Spot(h, s, j)
       /\ \A j \in i..n - 1 : Spot(h, t, j) = Spot(h, s, j + 1)
  BY <1>1, <1>2 DEF Spot
<1>19. ASSUME NEW j \in 0..n - 1
       PROVE  G[Spot(h, t, j)] = IF j = n - 1 THEN None ELSE t[j + 1]
  <2>1. CASE j < i - 1
    <3>1. /\ j \in 0..i - 1 /\ j <= n - 1 /\ j \in 0..n /\ j # n /\ j # n - 1 /\ j # i /\ j # i - 1
          /\ j + 1 \in 1..n - 1 /\ j + 1 < i
      BY <1>1, <2>1
    <3>2. Spot(h, s, j) # d /\ Spot(h, s, j) # e
      BY <1>5, <1>8, <1>9, <1>10, <3>1
    <3>3. G[Spot(h, t, j)] = s[j + 1]
      BY <1>4, <1>12, <1>15, <1>18, <3>1, <3>2
    <3>4. QED BY <1>2, <3>1, <3>3
  <2>2. CASE j = i - 1
    <3>1. j \in 0..i - 1 /\ j <= n - 1 /\ j + 1 = i /\ (j = n - 1 <=> i = n)
      BY <1>1, <2>2
    <3>2. G[Spot(h, t, j)] = c
      BY <1>10, <1>13, <1>15, <1>18, <2>2, <3>1
    <3>3. i # n => i \in 1..n - 1 /\ ~(i < i)
      BY <1>1
    <3>4. i # n => t[i] = s[i + 1]
      BY <1>2, <3>3
    <3>5. QED BY <1>10, <3>1, <3>2, <3>4
  <2>3. CASE j > i - 1
    <3>1. /\ j \in i..n - 1 /\ j + 1 \in 0..n /\ j + 1 # i /\ j + 1 # i - 1
          /\ (j + 1) + 1 = j + 2 /\ (j + 1 = n <=> j = n - 1)
      BY <1>1, <2>3
    <3>2. Spot(h, s, j + 1) # d /\ Spot(h, s, j + 1) # e
      BY <1>5, <1>8, <1>9, <1>10, <3>1
    <3>3. G[Spot(h, t, j)] = IF j + 1 = n THEN None ELSE s[j + 2]
      BY <1>4, <1>12, <1>15, <1>18, <3>1, <3>2
    <3>4. j # n - 1 => j + 1 \in 1..n - 1 /\ ~(j + 1 < i)
      BY <1>1, <2>3
    <3>5. j # n - 1 => t[j + 1] = s[j + 2]
      BY <1>2, <3>1, <3>4
    <3>6. QED BY <3>1, <3>3, <3>5
  <2>4. QED BY <1>1, <2>1, <2>2, <2>3
<1>20. M[h] = Spot(h, t, n - 1)
  <2>1. CASE i = n
    <3>1. c = None /\ n - 1 \in 0..i - 1 /\ n - 1 <= n - 1 /\ i - 1 = n - 1
      BY <1>1, <1>10, <2>1
    <3>2. QED BY <1>9, <1>10, <1>14, <1>16, <1>18, <3>1
  <2>2. CASE i # n
    <3>1. i + 1 \in 1..n /\ n - 1 \in i..n - 1 /\ (n - 1) + 1 = n
      BY <1>1, <2>2
    <3>2. c # None
      BY <1>1, <1>10, <2>2, <3>1, NtyQueueAssumption
    <3>3. QED BY <1>4, <1>9, <1>14, <1>16, <1>18, <3>1, <3>2
  <2>3. QED BY <2>1, <2>2
<1>21. ASSUME NEW j \in 1..n - 1 PROVE M[t[j]] = Spot(h, t, j - 1)
  <2>1. \A x \in 1..n : s[x] = Spot(h, s, x) /\ s[x] \in Address /\ s[x] # h /\ x \in 0..n
    BY <1>1, NtyQueueAssumption DEF Spot, Address
  <2>2. ASSUME NEW x \in 1..n, x # i, x # i + 1 PROVE s[x] # e /\ s[x] # c
    <3>1. s[x] # e
      BY <1>5, <1>8, <1>9, <2>1, <2>2
    <3>2. CASE i = n
      BY <1>1, <1>10, <3>1, <3>2, NtyQueueAssumption
    <3>3. CASE i # n
      <4>1. i + 1 \in 1..n
        BY <1>1, <3>3
      <4>2. QED BY <1>5, <1>10, <2>1, <2>2, <3>1, <3>3, <4>1
    <3>4. QED BY <3>2, <3>3
  <2>3. CASE j < i
    <3>1. j \in 1..n /\ j # i /\ j # i + 1 /\ j - 1 \in 0..i - 1 /\ j - 1 <= n - 1
      BY <1>1, <2>3
    <3>2. M[t[j]] = Spot(h, s, j - 1)
      BY <1>2, <1>4, <1>16, <2>1, <2>2, <2>3, <3>1
    <3>3. QED BY <1>18, <3>1, <3>2
  <2>4. CASE j = i
    <3>1. i # n /\ ~(j < i) /\ j - 1 = i - 1 /\ i - 1 \in 0..i - 1 /\ i - 1 <= n - 1
      BY <1>1, <2>4
    <3>2. t[j] = c /\ c # None
      BY <1>1, <1>2, <1>10, <2>4, <3>1, NtyQueueAssumption
    <3>3. M[c] = d
      BY <1>14, <1>16, <3>2 DEF Address
    <3>4. QED BY <1>10, <1>18, <3>1, <3>2, <3>3
  <2>5. CASE j > i
    <3>1. /\ j + 1 \in 1..n /\ j + 1 # i /\ j + 1 # i + 1 /\ ~(j < i)
          /\ j - 1 \in i..n - 1 /\ (j - 1) + 1 = j /\ (j + 1) - 1 = j
      BY <1>1, <2>5
    <3>2. M[t[j]] = Spot(h, s, j)
      BY <1>2, <1>4, <1>16, <2>1, <2>2, <3>1
    <3>3. QED BY <1>18, <3>1, <3>2
  <2>6. QED BY <1>1, <2>3, <2>4, <2>5
<1>22. Line(G, h, t) /\ Ring(M, h, t)
  BY <1>2, <1>19, <1>20, <1>21 DEF Line, Ring
<1>23. ASSUME NEW k \in Anchor \ {h} PROVE Line(G, k, q[k]) /\ Ring(M, k, q[k])
  <2>1. ASSUME NEW j \in 0..Len(q[k])
        PROVE  /\ Spot(k, q[k], j) \in Address /\ Spot(k, q[k], j) # h
               /\ Spot(k, q[k], j) # d /\ Spot(k, q[k], j) # e /\ Spot(k, q[k], j) # c
    <3>1. \A x \in 0..n : Spot(k, q[k], j) \in Address /\ Spot(k, q[k], j) # Spot(h, s, x)
      BY SpotsApart DEF Linked, n
    <3>2. Spot(h, s, 0) = h /\ 0 \in 0..n
      BY <1>1 DEF Spot
    <3>3. CASE i = n
      <4>1. c = None /\ None \notin Address
        BY <1>10, <3>3, NtyQueueAssumption DEF Address
      <4>2. QED BY <1>8, <1>9, <1>10, <3>1, <3>2, <4>1
    <3>4. CASE i # n
      <4>1. i + 1 \in 0..n /\ i + 1 # 0
        BY <1>1, <3>4
      <4>2. c = Spot(h, s, i + 1)
        BY <1>10, <3>4, <4>1 DEF Spot
      <4>3. QED BY <1>8, <1>9, <1>10, <3>1, <3>2, <4>1, <4>2
    <3>5. QED BY <3>3, <3>4
  <2>2. \A j \in 0..Len(q[k]) : /\ G[Spot(k, q[k], j)] = F[Spot(k, q[k], j)]
                                /\ M[Spot(k, q[k], j)] = L[Spot(k, q[k], j)]
    BY <1>15, <1>16, <2>1
  <2>3. q[k] \in Seq(Elem) /\ Line(F, k, q[k]) /\ Ring(L, k, q[k])
    BY DEF Linked, Apart
  <2>4. QED BY <2>2, <2>3, Untouched
<1>24. \A k \in Anchor : Line(G, k, r[k]) /\ Ring(M, k, r[k])
  BY <1>11, <1>22, <1>23
<1>25. QED BY <1>15, <1>16, <1>17, <1>24 DEF Linked, r, t

\* What TAILQ_CONCAT writes when the queue of k is not empty: its first element, at f,
\* comes behind the last address of h, at a.
Appends(F, L, h, k, G, M) ==
  LET a == L[h]
      f == F[k]
  IN  /\ G = [[F EXCEPT ![a] = f] EXCEPT ![k] = None]
      /\ M = [[[L EXCEPT ![f] = a] EXCEPT ![h] = L[k]] EXCEPT ![k] = k]

\* TAILQ_CONCAT.
LEMMA ConcatKeeps ==
  ASSUME NEW F, NEW L, NEW q, Linked(F, L, q), NEW h \in Anchor, NEW k \in Anchor, h # k,
         F[k] # None, NEW G, NEW M, Appends(F, L, h, k, G, M)
  PROVE  Linked(G, M, [q EXCEPT ![h] = q[h] \o q[k], ![k] = <<>>])
<1> DEFINE s == q[h]
           u == q[k]
           n == Len(s)
           m == Len(u)
           t == s \o u
           z == <<>>
           r == [q EXCEPT ![h] = t, ![k] = z]
           a == L[h]
           f == F[k]
<1>1. s \in Seq(Elem) /\ n \in Nat /\ s \in [1..n -> Elem]
  <2>1. q[h] \in Seq(Elem)
    BY DEF Linked, Apart
  <2>2. QED BY <2>1
<1>2. u \in Seq(Elem) /\ m \in Nat /\ u \in [1..m -> Elem]
  <2>1. q[k] \in Seq(Elem)
    BY DEF Linked, Apart
  <2>2. QED BY <2>1
<1>3. /\ t \in Seq(Elem) /\ Len(t) = n + m
      /\ \A j \in 1..n + m : t[j] = IF j <= n THEN s[j] ELSE u[j - n]
  <2>1. s \in Seq(Elem) /\ u \in Seq(Elem)
    BY <1>1, <1>2
  <2> HIDE DEF s, u
  <2>2. QED BY <2>1, ConcatProperties
<1>4. z \in Seq(Elem) /\ Len(z) = 0
  OBVIOUS
<1>5. q \in [Anchor -> Seq(Elem)]
  BY DEF Linked, Apart
<1>6. /\ \A j \in 0..n : F[Spot(h, s, j)] = IF j = n THEN None ELSE s[j + 1]
      /\ L[h] = Spot(h, s, n)
      /\ \A j \in 1..n : L[s[j]] = Spot(h, s, j - 1)
  BY DEF Linked, Line, Ring
<1>7. /\ \A j \in 0..m : F[Spot(k, u, j)] = IF j = m THEN None ELSE u[j + 1]
      /\ L[k] = Spot(k, u, m)
      /\ \A j \in 1..m : L[u[j]] = Spot(k, u, j - 1)
  BY DEF Linked, Line, Ring
<1>8. \A x, y \in 0..n : Spot(h, s, x) = Spot(h, s, y) => x = y
  BY SpotsApart DEF Linked
<1>9. \A x, y \in 0..m : Spot(k, u, x) = Spot(k, u, y) => x = y
  BY SpotsApart DEF Linked
<1>10. \A x \in 0..n, y \in 0..m : Spot(h, s, x) # Spot(k, u, y)
  BY SpotsApart DEF Linked
<1>11. /\ G = [[F EXCEPT ![a] = f] EXCEPT ![k] = None]
       /\ M = [[[L EXCEPT ![f] = a] EXCEPT ![h] = L[k]] EXCEPT ![k] = k]
  BY DEF Appends
<1>12. /\ F \in [Address -> Elem \cup {None}] /\ L \in [Address -> Address]
  BY DEF Linked
<1>13. f # None
  OBVIOUS
<1> HIDE DEF t, r, z, n, m, a, f
<1>14. 0 \in 0..n /\ 0 \in 0..m /\ Spot(h, s, 0) = h /\ Spot(k, u, 0) = k /\ n \in 0..n /\ m \in 0..m
  BY <1>1, <1>2 DEF Spot
<1>15. m # 0 /\ 1 \in 1..m /\ 1 \in 0..m /\ f = u[1] /\ f = Spot(k, u, 1) /\ L[k] = u[m] /\ m \in 1..m
  <2>1. F[k] = IF 0 = m THEN None ELSE u[0 + 1]
    BY <1>7, <1>14
  <2>2. m # 0
    BY <1>13, <2>1 DEF f
  <2>3. 1 \in 1..m /\ 1 \in 0..m /\ m \in 1..m
    BY <1>2, <2>2
  <2>4. QED BY <1>7, <2>1, <2>2, <2>3 DEF f, Spot
<1>16. a = Spot(h, s, n)
  BY <1>6 DEF a
<1>17. (\A j \in 0..n : Spot(h, s, j) \in Address) /\ (\A j \in 0..m : Spot(k, u, j) \in Address)
  BY <1>1, <1>2 DEF Spot, Address
<1>18. /\ a \in Address /\ h \in Address /\ k \in Address /\ f \in Address /\ f \in Elem
       /\ a # k /\ a # f /\ f # h /\ f # k
  <2>1. a \in Address /\ h \in Address /\ k \in Address /\ f \in Address /\ a # k /\ a # f
    BY <1>10, <1>14, <1>15, <1>16, <1>17
  <2>2. f \in Elem
    BY <1>2, <1>15
  <2>3. f # h /\ f # k
    BY <2>2, NtyQueueAssumption
  <2>4. QED BY <2>1, <2>2, <2>3
<1>19. /\ r \in [Anchor -> Seq(Elem)] /\ r[h] = t /\ r[k] = z
       /\ \A l \in Anchor \ {h, k} : r[l] = q[l]
  BY <1>3, <1>4, <1>5 DEF r
<1>20. /\ G \in [Address -> Elem \cup {None}]
       /\ \A x \in Address : G[x] = IF x = k THEN None ELSE IF x = a THEN f ELSE F[x]
  BY <1>11, <1>12, <1>18
<1>21. /\ M \in [Address -> Address]
       /\ \A x \in Address : M[x] = IF x = k THEN k ELSE IF x = h THEN L[k]
                                   ELSE IF x = f THEN a ELSE L[x]
  <2>1. L[k] \in Address
    BY <1>12, <1>18
  <2>2. QED BY <1>11, <1>12, <1>18, <2>1
<1>22. Apart(r)
  <2>1. \A x, y \in 1..n : s[x] = s[y] => x = y
    BY DEF Linked, Apart, n
  <2>2. \A x, y \in 1..m : u[x] = u[y] => x = y
    BY DEF Linked, Apart, m
  <2>3. \A x \in 1..n, y \in 1..m : s[x] # u[y]
    BY DEF Linked, Apart, n, m
  <2>4. \A x \in 1..n + m : \/ x \in 1..n /\ t[x] = s[x]
                            \/ x - n \in 1..m /\ t[x] = u[x - n]
    <3>1. \A x \in 1..n + m : IF x <= n THEN x \in 1..n ELSE x - n \in 1..m
      BY <1>1, <1>2
    <3>2. QED BY <1>3, <3>1
  <2>5. \A x, y \in 1..n + m : x - n = y - n => x = y
    BY <1>1, <1>2
  <2>6. ASSUME NEW x \in 1..n + m, NEW y \in 1..n + m, t[x] = t[y] PROVE x = y
    BY <2>1, <2>2, <2>3, <2>4, <2>5, <2>6
  <2>7. ASSUME NEW x \in 1..n + m, NEW l \in Anchor \ {h, k}, NEW y \in 1..Len(q[l])
        PROVE  t[x] # q[l][y]
    <3>1. CASE x \in 1..n /\ t[x] = s[x]
      BY <3>1 DEF Linked, Apart, n
    <3>2. CASE x - n \in 1..m /\ t[x] = u[x - n]
      BY <3>2 DEF Linked, Apart, m
    <3>3. QED BY <2>4, <3>1, <3>2
  <2>8. ASSUME NEW x \in Anchor, NEW y \in Anchor, NEW i \in 1..Len(r[x]), NEW j \in 1..Len(r[y]),
               r[x][i] = r[y][j]
        PROVE  x = y /\ i = j
    <3>1. x # k /\ y # k
      BY <1>4, <1>19
    <3>2. CASE x = h /\ y = h
      BY <1>3, <1>19, <2>6, <2>8, <3>2
    <3>3. CASE x = h /\ y # h
      <4>1. /\ y \in Anchor \ {h, k} /\ r[x] = t /\ r[y] = q[y]
            /\ i \in 1..n + m /\ j \in 1..Len(q[y])
        BY <1>3, <1>19, <3>1, <3>3
      <4>2. QED BY <2>7, <2>8, <4>1
    <3>4. CASE x # h /\ y = h
      BY <1>3, <1>19, <2>7, <2>8, <3>1, <3>4
    <3>5. CASE x # h /\ y # h
      <4>1. r[x] = q[x] /\ r[y] = q[y]
        BY <1>19, <3>1, <3>5
      <4>2. QED BY <2>8, <4>1 DEF Linked, Apart
    <3>6. QED BY <3>2, <3>3, <3>4, <3>5
  <2>9. QED BY <1>19, <2>8 DEF Apart
<1>23. /\ \A j \in 0..n : Spot(h, t, j) = Spot(h, s, j)
       /\ \A j \in n + 1..n + m : j - n \in 1..m /\ Spot(h, t, j) = u[j - n] /\ Spot(k, u, j - n) = u[j - n]
  BY <1>1, <1>2, <1>3 DEF Spot
<1>24. ASSUME NEW j \in 0..n + m
       PROVE  G[Spot(h, t, j)] = IF j = n + m THEN None ELSE t[j + 1]
  <2>1. CASE j < n
    <3>1. j \in 0..n /\ j # n /\ j # n + m /\ j + 1 \in 1..n + m /\ j + 1 <= n
      BY <1>1, <1>2, <2>1
    <3>2. Spot(h, s, j) # a /\ Spot(h, s, j) # k
      BY <1>8, <1>10, <1>14, <1>16, <3>1
    <3>3. G[Spot(h, t, j)] = s[j + 1]
      BY <1>6, <1>17, <1>20, <1>23, <3>1, <3>2
    <3>4. QED BY <1>3, <3>1, <3>3
  <2>2. CASE j = n
    <3>1. j # n + m /\ j + 1 \in 1..n + m /\ ~(j + 1 <= n) /\ (j + 1) - n = 1
      BY <1>1, <1>2, <1>15, <2>2
    <3>2. G[Spot(h, t, j)] = f
      BY <1>14, <1>16, <1>18, <1>20, <1>23, <2>2
    <3>3. t[j + 1] = u[1]
      BY <1>3, <3>1
    <3>4. QED BY <1>15, <3>1, <3>2, <3>3
  <2>3. CASE j > n
    <3>1. /\ j \in n + 1..n + m /\ j - n \in 0..m /\ j - n # 0
          /\ (j - n = m <=> j = n + m)
      BY <1>1, <1>2, <2>3
    <3>2. Spot(k, u, j - n) # a /\ Spot(k, u, j - n) # k
      BY <1>9, <1>10, <1>14, <1>16, <3>1
    <3>3. G[Spot(h, t, j)] = IF j - n = m THEN None ELSE u[(j - n) + 1]
      BY <1>7, <1>17, <1>20, <1>23, <3>1, <3>2
    <3>4. j # n + m => j + 1 \in 1..n + m /\ ~(j + 1 <= n) /\ (j + 1) - n = (j - n) + 1
      BY <1>1, <1>2, <2>3
    <3>5. j # n + m => t[j + 1] = u[(j - n) + 1]
      BY <1>3, <3>4
    <3>6. QED BY <3>1, <3>3, <3>5
  <2>4. QED BY <1>1, <1>2, <2>1, <2>2, <2>3
<1>25. M[h] = Spot(h, t, n + m)
  <2>1. n + m \in n + 1..n + m /\ (n + m) - n = m
    BY <1>1, <1>2, <1>15
  <2>2. QED BY <1>15, <1>18, <1>21, <1>23, <2>1
<1>26. ASSUME NEW j \in 1..n + m PROVE M[t[j]] = Spot(h, t, j - 1)
  <2>1. CASE j <= n
    <3>1. j \in 1..n /\ j \in 0..n /\ j - 1 \in 0..n /\ j # 0
      BY <1>1, <2>1
    <3>2. t[j] = s[j] /\ s[j] = Spot(h, s, j)
      BY <1>1, <1>2, <1>3, <2>1, <3>1 DEF Spot
    <3>3. s[j] # f /\ s[j] # h /\ s[j] # k /\ s[j] \in Address
      BY <1>8, <1>10, <1>14, <1>15, <1>17, <3>1, <3>2
    <3>4. M[t[j]] = Spot(h, s, j - 1)
      BY <1>6, <1>21, <3>1, <3>2, <3>3
    <3>5. QED BY <1>23, <3>1, <3>4
  <2>2. CASE j = n + 1
    <3>1. ~(j <= n) /\ j - n = 1 /\ j - 1 = n
      BY <1>1, <2>2
    <3>2. t[j] = u[1]
      BY <1>3, <3>1
    <3>3. M[t[j]] = a
      BY <1>15, <1>18, <1>21, <3>2
    <3>4. QED BY <1>14, <1>16, <1>23, <3>1, <3>3
  <2>3. CASE j > n + 1
    <3>1. /\ j \in n + 1..n + m /\ j - 1 \in n + 1..n + m /\ j - n \in 1..m /\ j - n \in 0..m
          /\ j - n # 1 /\ j - n # 0 /\ (j - n) - 1 = (j - 1) - n /\ ~(j <= n)
      BY <1>1, <1>2, <2>3
    <3>2. t[j] = u[j - n] /\ u[j - n] = Spot(k, u, j - n)
      BY <1>3, <1>23, <3>1
    <3>3. u[j - n] # f /\ u[j - n] # h /\ u[j - n] # k /\ u[j - n] \in Address
      BY <1>9, <1>10, <1>14, <1>15, <1>17, <3>1, <3>2
    <3>4. M[t[j]] = Spot(k, u, (j - n) - 1)
      BY <1>7, <1>21, <3>1, <3>2, <3>3
    <3>5. QED BY <1>23, <3>1, <3>4
  <2>4. QED BY <1>1, <1>2, <2>1, <2>2, <2>3
<1>27. Line(G, h, t) /\ Ring(M, h, t)
  BY <1>3, <1>24, <1>25, <1>26 DEF Line, Ring
<1>28. Line(G, k, z) /\ Ring(M, k, z)
  BY <1>4, <1>18, <1>20, <1>21 DEF Line, Ring, Spot
<1>29. ASSUME NEW l \in Anchor \ {h, k} PROVE Line(G, l, q[l]) /\ Ring(M, l, q[l])
  <2>1. ASSUME NEW j \in 0..Len(q[l])
        PROVE  /\ Spot(l, q[l], j) \in Address /\ Spot(l, q[l], j) # h
               /\ Spot(l, q[l], j) # a /\ Spot(l, q[l], j) # k /\ Spot(l, q[l], j) # f
    <3>1. \A x \in 0..n : Spot(l, q[l], j) \in Address /\ Spot(l, q[l], j) # Spot(h, s, x)
      BY SpotsApart DEF Linked, n
    <3>2. \A x \in 0..m : Spot(l, q[l], j) # Spot(k, u, x)
      BY SpotsApart DEF Linked, m
    <3>3. QED BY <1>14, <1>15, <1>16, <3>1, <3>2
  <2>2. \A j \in 0..Len(q[l]) : /\ G[Spot(l, q[l], j)] = F[Spot(l, q[l], j)]
                                /\ M[Spot(l, q[l], j)] = L[Spot(l, q[l], j)]
    BY <1>20, <1>21, <2>1
  <2>3. q[l] \in Seq(Elem) /\ Line(F, l, q[l]) /\ Ring(L, l, q[l])
    BY DEF Linked, Apart
  <2>4. QED BY <2>2, <2>3, Untouched
<1>30. \A l \in Anchor : Line(G, l, r[l]) /\ Ring(M, l, r[l])
  BY <1>19, <1>27, <1>28, <1>29
<1>31. QED BY <1>20, <1>21, <1>22, <1>30 DEF Linked, r, t, z

\* What TAILQ_SWAP writes.
Exchanges(F, L, h, k, G, M) ==
  /\ G = [[F EXCEPT ![h] = F[k]] EXCEPT ![k] = F[h]]
  /\ M = [x \in Address |-> CASE x = F[k] -> h
                             [] x = F[h] -> k
                             [] x = h -> IF F[k] = None THEN h ELSE L[k]
                             [] x = k -> IF F[h] = None THEN k ELSE L[h]
                             [] OTHER -> L[x]]

\* The head h gets the elements of k.
LEMMA HalfSwap ==
  ASSUME NEW F, NEW L, NEW q, Linked(F, L, q), NEW h \in Anchor, NEW k \in Anchor,
         NEW G, NEW M, G[h] = F[k], M[h] = IF F[k] = None THEN h ELSE L[k],
         \A x \in Elem : G[x] = F[x],
         \A j \in 1..Len(q[k]) : M[q[k][j]] = IF j = 1 THEN h ELSE L[q[k][j]]
  PROVE  Line(G, h, q[k]) /\ Ring(M, h, q[k])
<1> DEFINE u == q[k]
           m == Len(u)
<1>1. m \in Nat /\ u \in [1..m -> Elem]
  <2>1. q[k] \in Seq(Elem)
    BY DEF Linked, Apart
  <2>2. QED BY <2>1
<1>2. /\ \A j \in 0..m : F[Spot(k, u, j)] = IF j = m THEN None ELSE u[j + 1]
      /\ L[k] = Spot(k, u, m)
      /\ \A j \in 1..m : L[u[j]] = Spot(k, u, j - 1)
  BY DEF Linked, Line, Ring
<1>3. \A j \in 1..m : M[u[j]] = IF j = 1 THEN h ELSE L[u[j]]
  OBVIOUS
<1>4. G[h] = F[k] /\ M[h] = (IF F[k] = None THEN h ELSE L[k]) /\ \A x \in Elem : G[x] = F[x]
  OBVIOUS
<1> HIDE DEF u, m
<1>5. F[k] = IF 0 = m THEN None ELSE u[1]
  <2>1. 0 \in 0..m /\ Spot(k, u, 0) = k /\ 0 + 1 = 1
    BY <1>1 DEF Spot
  <2>2. QED BY <1>2, <2>1
<1>6. ASSUME NEW j \in 0..m PROVE G[Spot(h, u, j)] = IF j = m THEN None ELSE u[j + 1]
  <2>1. CASE j = 0
    <3>1. Spot(h, u, j) = h /\ j + 1 = 1
      BY <2>1 DEF Spot
    <3>2. QED BY <1>4, <1>5, <2>1, <3>1
  <2>2. CASE j # 0
    <3>1. Spot(h, u, j) = u[j] /\ Spot(k, u, j) = u[j] /\ u[j] \in Elem
      BY <1>1, <2>2 DEF Spot
    <3>2. QED BY <1>2, <1>4, <3>1
  <2>3. QED BY <2>1, <2>2
<1>7. M[h] = Spot(h, u, m)
  <2>1. CASE m = 0
    BY <1>4, <1>5, <2>1 DEF Spot
  <2>2. CASE m # 0
    <3>1. F[k] # None
      <4>1. 1 \in 1..m
        BY <1>1, <2>2
      <4>2. u[1] \in Elem
        BY <1>1, <4>1
      <4>3. QED BY <1>5, <2>2, <4>2, NtyQueueAssumption
    <3>2. QED BY <1>2, <1>4, <2>2, <3>1 DEF Spot
  <2>3. QED BY <2>1, <2>2
<1>8. ASSUME NEW j \in 1..m PROVE M[u[j]] = Spot(h, u, j - 1)
  <2>1. CASE j = 1
    BY <1>3, <2>1 DEF Spot
  <2>2. CASE j # 1
    <3>1. j - 1 # 0
      BY <1>1, <2>2
    <3>2. QED BY <1>2, <1>3, <2>2, <3>1 DEF Spot
  <2>3. QED BY <2>1, <2>2
<1>9. QED BY <1>6, <1>7, <1>8 DEF Line, Ring, u, m

\* The first element of a queue, if any, is what its head's first word says.
LEMMA FirstSpot ==
  ASSUME NEW F, NEW L, NEW q, Linked(F, L, q), NEW h \in Anchor
  PROVE  /\ F[h] = IF Len(q[h]) = 0 THEN None ELSE q[h][1]
         /\ Len(q[h]) \in Nat /\ q[h] \in [1..Len(q[h]) -> Elem]
<1> DEFINE n == Len(q[h])
<1>1. n \in Nat /\ q[h] \in [1..n -> Elem]
  <2>1. q[h] \in Seq(Elem)
    BY DEF Linked, Apart
  <2>2. QED BY <2>1
<1>2. \A j \in 0..n : F[Spot(h, q[h], j)] = IF j = n THEN None ELSE q[h][j + 1]
  BY DEF Linked, Line
<1> HIDE DEF n
<1>3. 0 \in 0..n /\ Spot(h, q[h], 0) = h /\ 0 + 1 = 1
  BY <1>1 DEF Spot
<1>4. F[h] = IF n = 0 THEN None ELSE q[h][1]
  BY <1>2, <1>3
<1>5. QED BY <1>1, <1>4 DEF n

\* TAILQ_SWAP.
LEMMA SwapKeeps ==
  ASSUME NEW F, NEW L, NEW q, Linked(F, L, q), NEW h \in Anchor, NEW k \in Anchor, h # k,
         NEW G, NEW M, Exchanges(F, L, h, k, G, M)
  PROVE  Linked(G, M, [q EXCEPT ![h] = q[k], ![k] = q[h]])
<1> DEFINE r == [q EXCEPT ![h] = q[k], ![k] = q[h]]
<1>1. /\ F \in [Address -> Elem \cup {None}] /\ L \in [Address -> Address]
      /\ q \in [Anchor -> Seq(Elem)] /\ h \in Address /\ k \in Address
  BY DEF Linked, Apart, Address
<1>2. /\ r \in [Anchor -> Seq(Elem)] /\ r[h] = q[k] /\ r[k] = q[h]
      /\ \A l \in Anchor \ {h, k} : r[l] = q[l]
  <2>1. q[h] \in Seq(Elem) /\ q[k] \in Seq(Elem)
    BY <1>1
  <2>2. QED BY <1>1, <2>1
<1> HIDE DEF r
<1>3. /\ G \in [Address -> Elem \cup {None}] /\ G[h] = F[k] /\ G[k] = F[h]
      /\ \A x \in Address \ {h, k} : G[x] = F[x]
  BY <1>1 DEF Exchanges
<1>4. \A x \in Elem : x # h /\ x # k /\ x \in Address
  BY NtyQueueAssumption DEF Address
<1>5. F[h] \in Elem \cup {None} /\ F[k] \in Elem \cup {None} /\ None \notin Address
  BY <1>1, NtyQueueAssumption DEF Address
<1>6. F[h] # h /\ F[h] # k /\ F[k] # h /\ F[k] # k
  BY <1>1, <1>4, <1>5
<1>7. \A x \in Address :
        M[x] = CASE x = F[k] -> h
                 [] x = F[h] -> k
                 [] x = h -> IF F[k] = None THEN h ELSE L[k]
                 [] x = k -> IF F[h] = None THEN k ELSE L[h]
                 [] OTHER -> L[x]
  BY DEF Exchanges
<1>8. M \in [Address -> Address]
  <2> DEFINE W(x) == CASE x = F[k] -> h
                       [] x = F[h] -> k
                       [] x = h -> IF F[k] = None THEN h ELSE L[k]
                       [] x = k -> IF F[h] = None THEN k ELSE L[h]
                       [] OTHER -> L[x]
  <2>1. M = [x \in Address |-> W(x)]
    BY DEF Exchanges
  <2>2. ASSUME NEW x \in Address PROVE W(x) \in Address
    <3>1. L[x] \in Address /\ L[k] \in Address /\ L[h] \in Address
      BY <1>1
    <3>2. QED BY <1>1, <3>1
  <2> HIDE DEF W
  <2>3. QED BY <2>1, <2>2
<1>9. /\ M[h] = IF F[k] = None THEN h ELSE L[k]
      /\ M[k] = IF F[h] = None THEN k ELSE L[h]
  <2>1. M[h] = IF F[k] = None THEN h ELSE L[k]
    BY <1>1, <1>6, <1>7
  <2>2. M[k] = IF F[h] = None THEN k ELSE L[h]
    BY <1>1, <1>6, <1>7
  <2>3. QED BY <2>1, <2>2
<1>10. F[h] = F[k] => F[h] = None
  <2>1. SUFFICES ASSUME F[h] = F[k], F[h] # None PROVE FALSE
    OBVIOUS
  <2>2. /\ Len(q[h]) \in Nat /\ Len(q[h]) # 0 /\ Len(q[k]) \in Nat /\ Len(q[k]) # 0
        /\ q[h][1] = q[k][1]
    BY <2>1, FirstSpot
  <2>3. 1 \in 1..Len(q[h]) /\ 1 \in 1..Len(q[k])
    <3> DEFINE n == Len(q[h])
               m == Len(q[k])
    <3>1. n \in Nat /\ n # 0 /\ m \in Nat /\ m # 0
      BY <2>2
    <3> HIDE DEF n, m
    <3>2. 1 \in 1..n /\ 1 \in 1..m
      BY <3>1
    <3>3. QED BY <3>2 DEF n, m
  <2>4. QED BY <2>2, <2>3 DEF Linked, Apart
<1>11. \A j \in 1..Len(q[k]) : M[q[k][j]] = IF j = 1 THEN h ELSE L[q[k][j]]
  <2> SUFFICES ASSUME NEW j \in 1..Len(q[k])
               PROVE  M[q[k][j]] = IF j = 1 THEN h ELSE L[q[k][j]]
    OBVIOUS
  <2> DEFINE x == q[k][j]
  <2>1. x \in Elem /\ (x = F[k] <=> j = 1) /\ x # F[h]
    <3> DEFINE m == Len(q[k])
               n == Len(q[h])
    <3>1. /\ m \in Nat /\ q[k] \in [1..m -> Elem] /\ F[k] = IF m = 0 THEN None ELSE q[k][1]
          /\ n \in Nat /\ q[h] \in [1..n -> Elem] /\ F[h] = IF n = 0 THEN None ELSE q[h][1]
      BY FirstSpot
    <3>2. /\ \A i \in 1..m : q[k][i] = q[k][j] => i = j
          /\ \A i \in 1..n : q[h][i] # q[k][j]
      BY DEF Linked, Apart
    <3>3. j \in 1..m
      OBVIOUS
    <3> HIDE DEF m, n
    <3>4. m # 0 /\ 1 \in 1..m
      BY <3>1, <3>3
    <3>5. x \in Elem /\ x # None
      BY <3>1, <3>3, NtyQueueAssumption
    <3>6. n # 0 => 1 \in 1..n
      BY <3>1
    <3>7. x # F[h]
      BY <3>1, <3>2, <3>5, <3>6
    <3>8. x = F[k] <=> j = 1
      BY <3>1, <3>2, <3>4
    <3>9. QED BY <3>5, <3>7, <3>8
  <2> HIDE DEF x
  <2>2. x \in Address /\ x # h /\ x # k
    BY <1>4, <2>1
  <2>3. M[x] = IF j = 1 THEN h ELSE L[x]
    BY <1>7, <2>1, <2>2
  <2>4. QED BY <2>3 DEF x
<1>12. \A j \in 1..Len(q[h]) : M[q[h][j]] = IF j = 1 THEN k ELSE L[q[h][j]]
  <2> SUFFICES ASSUME NEW j \in 1..Len(q[h])
               PROVE  M[q[h][j]] = IF j = 1 THEN k ELSE L[q[h][j]]
    OBVIOUS
  <2> DEFINE x == q[h][j]
  <2>1. x \in Elem /\ (x = F[h] <=> j = 1) /\ x # F[k]
    <3> DEFINE m == Len(q[k])
               n == Len(q[h])
    <3>1. /\ m \in Nat /\ q[k] \in [1..m -> Elem] /\ F[k] = IF m = 0 THEN None ELSE q[k][1]
          /\ n \in Nat /\ q[h] \in [1..n -> Elem] /\ F[h] = IF n = 0 THEN None ELSE q[h][1]
      BY FirstSpot
    <3>2. /\ \A i \in 1..n : q[h][i] = q[h][j] => i = j
          /\ \A i \in 1..m : q[k][i] # q[h][j]
      BY DEF Linked, Apart
    <3>3. j \in 1..n
      OBVIOUS
    <3> HIDE DEF m, n
    <3>4. n # 0 /\ 1 \in 1..n
      BY <3>1, <3>3
    <3>5. x \in Elem /\ x # None
      BY <3>1, <3>3, NtyQueueAssumption
    <3>6. m # 0 => 1 \in 1..m
      BY <3>1
    <3>7. x # F[k]
      BY <3>1, <3>2, <3>5, <3>6
    <3>8. x = F[h] <=> j = 1
      BY <3>1, <3>2, <3>4
    <3>9. QED BY <3>5, <3>7, <3>8
  <2> HIDE DEF x
  <2>2. x \in Address /\ x # h /\ x # k
    BY <1>4, <2>1
  <2>3. M[x] = IF j = 1 THEN k ELSE L[x]
    BY <1>7, <2>1, <2>2
  <2>4. QED BY <2>3 DEF x
<1>13. \A x \in Elem : G[x] = F[x]
  BY <1>3, <1>4
<1>14. Line(G, h, q[k]) /\ Ring(M, h, q[k])
  BY <1>3, <1>9, <1>11, <1>13, HalfSwap
<1>15. Line(G, k, q[h]) /\ Ring(M, k, q[h])
  BY <1>3, <1>9, <1>12, <1>13, HalfSwap
<1>16. ASSUME NEW l \in Anchor \ {h, k} PROVE Line(G, l, q[l]) /\ Ring(M, l, q[l])
  <2>1. ASSUME NEW j \in 0..Len(q[l])
        PROVE  /\ Spot(l, q[l], j) \in Address
               /\ Spot(l, q[l], j) # h /\ Spot(l, q[l], j) # k
               /\ Spot(l, q[l], j) # F[h] /\ Spot(l, q[l], j) # F[k]
    <3>1. ASSUME NEW g \in {h, k} PROVE Spot(l, q[l], j) # g /\ Spot(l, q[l], j) # F[g]
      <4> DEFINE n == Len(q[g])
      <4>1. n \in Nat /\ F[g] = IF n = 0 THEN None ELSE q[g][1]
        BY FirstSpot
      <4>2. \A x \in 0..n : Spot(l, q[l], j) \in Address /\ Spot(l, q[l], j) # Spot(g, q[g], x)
        BY SpotsApart DEF Linked
      <4> HIDE DEF n
      <4>3. 0 \in 0..n /\ (n # 0 => 1 \in 0..n)
        BY <4>1
      <4>4. Spot(g, q[g], 0) = g /\ Spot(g, q[g], 1) = q[g][1]
        BY DEF Spot
      <4>5. QED BY <1>5, <4>1, <4>2, <4>3, <4>4
    <3>2. QED BY <3>1, SpotsApart DEF Linked
  <2>2. \A j \in 0..Len(q[l]) : /\ G[Spot(l, q[l], j)] = F[Spot(l, q[l], j)]
                                /\ M[Spot(l, q[l], j)] = L[Spot(l, q[l], j)]
    BY <1>3, <1>7, <2>1
  <2>3. q[l] \in Seq(Elem) /\ Line(F, l, q[l]) /\ Ring(L, l, q[l])
    BY DEF Linked, Apart
  <2>4. QED BY <2>2, <2>3, Untouched
<1>17. \A l \in Anchor : Line(G, l, r[l]) /\ Ring(M, l, r[l])
  BY <1>2, <1>14, <1>15, <1>16
<1>18. Apart(r)
  <2> DEFINE Home(l) == IF l = h THEN k ELSE IF l = k THEN h ELSE l
  <2>1. \A l \in Anchor : Home(l) \in Anchor /\ r[l] = q[Home(l)]
    BY <1>2
  <2>2. \A x, y \in Anchor : Home(x) = Home(y) => x = y
    OBVIOUS
  <2> HIDE DEF Home
  <2>3. ASSUME NEW x \in Anchor, NEW y \in Anchor, NEW i \in 1..Len(r[x]), NEW j \in 1..Len(r[y]),
               r[x][i] = r[y][j]
        PROVE  x = y /\ i = j
    <3>1. r[x] = q[Home(x)] /\ r[y] = q[Home(y)] /\ Home(x) \in Anchor /\ Home(y) \in Anchor
      BY <2>1
    <3>2. i \in 1..Len(q[Home(x)]) /\ j \in 1..Len(q[Home(y)])
      BY <3>1
    <3>3. q[Home(x)][i] = q[Home(y)][j]
      BY <2>3, <3>1
    <3>4. Home(x) = Home(y) /\ i = j
      BY <3>1, <3>2, <3>3 DEF Linked, Apart
    <3>5. QED BY <2>2, <3>4
  <2>4. QED BY <1>2, <2>3 DEF Apart
<1>19. QED BY <1>3, <1>8, <1>17, <1>18 DEF Linked, r

-------------------------------------------------------------------------------
(* The steps *)

\* At the start.
LEMMA QueueInvStarts ==
  ASSUME QueueInit
  PROVE  QueueInv /\ Sequences!Init
<1> DEFINE q == [h \in Anchor |-> <<>>]
<1>1. q \in [Anchor -> Seq(Elem)] /\ \A h \in Anchor : q[h] = <<>> /\ Len(q[h]) = 0
  OBVIOUS
<1>2. first \in [Address -> Elem \cup {None}] /\ last \in [Address -> Address]
  BY DEF QueueInit, Address
<1>3. \A h \in Anchor : first[h] = None /\ last[h] = h
  BY DEF QueueInit
<1> HIDE DEF q
<1>4. Apart(q)
  BY <1>1 DEF Apart
<1>5. \A h \in Anchor : Line(first, h, q[h]) /\ Ring(last, h, q[h])
  BY <1>1, <1>3 DEF Line, Ring, Spot
<1>6. Linked(first, last, q)
  BY <1>2, <1>4, <1>5 DEF Linked
<1>7. Queue = q
  BY <1>6, WalksVisit
<1>8. QED BY <1>6, <1>7 DEF QueueInv, QueueInit, q, Queue, Sequences!Init

\* The words at a position of a queue.
LEMMA WordsAt ==
  ASSUME QueueInv, NEW h \in Anchor
  PROVE  LET s == Queue[h] IN
         /\ WalkFrom(h) = s /\ s \in Seq(Elem) /\ Len(s) \in Nat
         /\ s \in [1..Len(s) -> Elem]
         /\ \A i \in 0..Len(s) :
              /\ Spot(h, s, i) \in Address
              /\ first[Spot(h, s, i)] = IF i = Len(s) THEN None ELSE s[i + 1]
         /\ last[h] = Spot(h, s, Len(s))
         /\ \A i \in 1..Len(s) : last[s[i]] = Spot(h, s, i - 1)
<1> DEFINE s == Queue[h]
<1>1. WalkFrom(h) = s
  BY DEF Queue
<1>2. s \in Seq(Elem)
  BY DEF QueueInv, Linked, Apart
<1>3. Line(first, h, s) /\ Ring(last, h, s)
  BY DEF QueueInv, Linked
<1>4. Len(s) \in Nat /\ s \in [1..Len(s) -> Elem]
  BY <1>2
<1> HIDE DEF s
<1>5. ASSUME NEW i \in 0..Len(s) PROVE Spot(h, s, i) \in Address
  <2>1. i # 0 => i \in 1..Len(s)
    BY <1>4
  <2>2. QED BY <1>4, <2>1 DEF Spot, Address
<1>6. QED BY <1>1, <1>2, <1>3, <1>4, <1>5 DEF s, Line, Ring

\* An element that a walk does not visit is in no sequence.
LEMMA Missing ==
  ASSUME QueueInv, NEW e \in Elem, ~Queued(e)
  PROVE  Absent(Queue, e) /\ e \in Sequences!Unqueued
<1>1. ASSUME NEW h \in Anchor, NEW i \in DOMAIN WalkFrom(h) PROVE WalkFrom(h)[i] # e
  BY DEF Queued, InQueue
<1>2. Absent(Queue, e)
  <2>1. ASSUME NEW h \in Anchor, NEW i \in 1..Len(Queue[h]) PROVE Queue[h][i] # e
    <3>1. WalkFrom(h) = Queue[h] /\ Queue[h] \in Seq(Elem)
      BY WordsAt
    <3>2. i \in DOMAIN Queue[h]
      BY <3>1
    <3>3. QED BY <1>1, <3>1, <3>2
  <2>2. QED BY <2>1 DEF Absent
<1>3. \A h \in Anchor : [k \in Anchor |-> WalkFrom(k)][h] = WalkFrom(h)
  OBVIOUS
<1>4. QED BY <1>1, <1>2, <1>3 DEF Sequences!Unqueued, Sequences!ToSet

\* An insertion.
LEMMA Placed ==
  ASSUME QueueInv, NEW h \in Anchor, NEW i \in 0..Len(Queue[h]), NEW e \in Elem, ~Queued(e),
         PutBehind(first, last, h, Queue[h], i, e, first', last'), value' = None
  PROVE  QueueInv' /\ Sequences!Put(h, i + 1, e)
<1> DEFINE r == [Queue EXCEPT ![h] = Sequences!InsertAt(Queue[h], i + 1, e)]
<1>1. Absent(Queue, e) /\ e \in Sequences!Unqueued
  BY Missing
<1>2. Linked(first', last', r)
  BY <1>1, InsertKeeps DEF QueueInv
<1> HIDE DEF r
<1>3. Queue' = r
  BY <1>2, WalksVisitThen
<1>4. QueueInv'
  BY <1>2, <1>3 DEF QueueInv
<1>5. QED BY <1>1, <1>3, <1>4 DEF Sequences!Put, Queue, r

\* Two words may be written in either order.
LEMMA EitherOrder ==
  ASSUME NEW L, NEW x, NEW y, x # y, NEW u, NEW v
  PROVE  [L EXCEPT ![x] = u, ![y] = v] = [[L EXCEPT ![y] = v] EXCEPT ![x] = u]
OBVIOUS

\* TAILQ_INSERT_TAIL.
LEMMA InsertTailKeeps ==
  ASSUME QueueInv, NEW h \in Anchor, NEW e \in Elem, InsertTail(h, e)
  PROVE  QueueInv' /\ Sequences!Insert(h, e)
<1> DEFINE s == Queue[h]
           n == Len(s)
           a == last[h]
<1>1. /\ s \in Seq(Elem) /\ n \in Nat /\ a = Spot(h, s, n) /\ first[a] = None
      /\ WalkFrom(h) = s
  BY WordsAt
<1>2. h # e /\ ~Queued(e) /\ value' = None
  BY NtyQueueAssumption DEF InsertTail
<1>3. first' = [[first EXCEPT ![e] = first[a]] EXCEPT ![a] = e]
  BY <1>1 DEF InsertTail
<1>4. last' = [[last EXCEPT ![h] = e] EXCEPT ![e] = a]
  BY <1>2, EitherOrder DEF InsertTail
<1>5. PutBehind(first, last, h, s, n, e, first', last')
  BY <1>1, <1>3, <1>4 DEF PutBehind
<1>6. n \in 0..n
  BY <1>1
<1>7. QueueInv' /\ Sequences!Put(h, n + 1, e)
  BY <1>2, <1>5, <1>6, Placed
<1>8. QED BY <1>1, <1>7 DEF InsertTail, Sequences!Insert

\* TAILQ_INSERT_HEAD.
LEMMA InsertHeadKeeps ==
  ASSUME QueueInv, NEW h \in Anchor, NEW e \in Elem, InsertHead(h, e)
  PROVE  QueueInv' /\ Sequences!Insert(h, e)
<1> DEFINE s == Queue[h]
           n == Len(s)
           i == 0
           b == IF n = 0 THEN h ELSE s[i + 1]
<1>1. /\ s \in Seq(Elem) /\ n \in Nat /\ h = Spot(h, s, i)
      /\ first[h] = IF n = 0 THEN None ELSE s[i + 1]
      /\ n # 0 => s[i + 1] \in Elem
      /\ WalkFrom(h) = s
  BY WordsAt DEF Spot
<1>2. ~Queued(e) /\ value' = None
  BY DEF InsertHead, InsertAt
<1>3. first' = [[first EXCEPT ![e] = first[h]] EXCEPT ![h] = e]
  BY DEF InsertHead, InsertAt
<1>4. b = IF first[h] # None THEN first[h] ELSE h
  BY <1>1, NtyQueueAssumption
<1>5. last' = [[last EXCEPT ![b] = e] EXCEPT ![e] = h]
  <2> HIDE DEF b
  <2>1. QED BY <1>4 DEF InsertHead, InsertAt
<1>6. PutBehind(first, last, h, s, i, e, first', last')
  BY <1>1, <1>3, <1>5 DEF PutBehind
<1>7. i \in 0..n /\ i + 1 = 1
  BY <1>1
<1> HIDE DEF i
<1>8. QueueInv' /\ Sequences!Put(h, i + 1, e)
  BY <1>2, <1>6, <1>7, Placed
<1>9. QED BY <1>7, <1>8 DEF InsertHead, Sequences!Insert

\* TAILQ_INSERT_AFTER.
LEMMA InsertAfterKeeps ==
  ASSUME QueueInv, NEW h \in Anchor, NEW l \in Elem, NEW e \in Elem, InsertAfter(h, l, e)
  PROVE  QueueInv' /\ Sequences!Insert(h, e)
<1> DEFINE s == Queue[h]
           n == Len(s)
<1>1. /\ WalkFrom(h) = s /\ s \in Seq(Elem) /\ n \in Nat /\ s \in [1..n -> Elem]
      /\ \A i \in 0..n : first[Spot(h, s, i)] = IF i = n THEN None ELSE s[i + 1]
  BY WordsAt
<1>2. PICK i \in DOMAIN WalkFrom(h) : WalkFrom(h)[i] = l
  BY DEF InsertAfter, InQueue
<1>3. i \in 1..n /\ i \in 0..n /\ s[i] = l /\ Spot(h, s, i) = l
  BY <1>1, <1>2 DEF Spot
<1>4. ~Queued(e) /\ value' = None
  BY DEF InsertAfter, InsertAt
<1>5. first' = [[first EXCEPT ![e] = first[l]] EXCEPT ![l] = e]
  BY DEF InsertAfter, InsertAt
<1> DEFINE b == IF i = n THEN h ELSE s[i + 1]
<1>6. b = IF first[l] # None THEN first[l] ELSE h
  <2>1. i # n => s[i + 1] \in Elem
    BY <1>1, <1>3
  <2>2. QED BY <1>1, <1>3, <2>1, NtyQueueAssumption
<1>7. last' = [[last EXCEPT ![b] = e] EXCEPT ![e] = l]
  <2> HIDE DEF b
  <2>1. QED BY <1>6 DEF InsertAfter, InsertAt
<1>8. PutBehind(first, last, h, s, i, e, first', last')
  BY <1>3, <1>5, <1>7 DEF PutBehind
<1>9. QueueInv' /\ Sequences!Put(h, i + 1, e)
  BY <1>3, <1>4, <1>8, Placed
<1>10. i \in DOMAIN [k \in Anchor |-> WalkFrom(k)][h] /\ [k \in Anchor |-> WalkFrom(k)][h][i] = l
  BY <1>2
<1>11. done' = <<"insert_after", l, e>>
  BY DEF InsertAfter
<1>12. QED BY <1>9, <1>10, <1>11 DEF Sequences!Insert

\* TAILQ_INSERT_BEFORE.
LEMMA InsertBeforeKeeps ==
  ASSUME QueueInv, NEW l \in Elem, NEW e \in Elem, InsertBefore(l, e)
  PROVE  QueueInv' /\ \E h \in Anchor : Sequences!Insert(h, e)
<1>1. PICK h \in Anchor : InQueue(h, l)
  BY DEF InsertBefore, Queued
<1> DEFINE s == Queue[h]
           n == Len(s)
<1>2. /\ WalkFrom(h) = s /\ s \in Seq(Elem) /\ n \in Nat /\ s \in [1..n -> Elem]
      /\ \A i \in 0..n : first[Spot(h, s, i)] = IF i = n THEN None ELSE s[i + 1]
      /\ \A i \in 1..n : last[s[i]] = Spot(h, s, i - 1)
  BY WordsAt
<1>3. PICK j \in DOMAIN WalkFrom(h) : WalkFrom(h)[j] = l
  BY <1>1 DEF InQueue
<1> DEFINE i == j - 1
<1>4. j \in 1..n /\ i \in 0..n /\ i # n /\ i + 1 = j /\ s[j] = l
  BY <1>2, <1>3
<1>5. last[l] = Spot(h, s, i) /\ first[last[l]] = l
  BY <1>2, <1>4
<1>6. ~Queued(e) /\ value' = None /\ e # l
  BY DEF InsertBefore
<1>7. first' = [[first EXCEPT ![e] = first[last[l]]] EXCEPT ![last[l]] = e]
  BY <1>5 DEF InsertBefore
<1>8. last' = [[last EXCEPT ![l] = e] EXCEPT ![e] = last[l]]
  BY <1>6, EitherOrder DEF InsertBefore
<1> HIDE DEF i
<1>9. PutBehind(first, last, h, s, i, e, first', last')
  BY <1>4, <1>5, <1>7, <1>8 DEF PutBehind
<1>10. QueueInv' /\ Sequences!Put(h, i + 1, e)
  BY <1>4, <1>6, <1>9, Placed
<1>11. j \in DOMAIN [k \in Anchor |-> WalkFrom(k)][h] /\ [k \in Anchor |-> WalkFrom(k)][h][j] = l
  BY <1>3
<1>12. done' = <<"insert_before", l, e>>
  BY DEF InsertBefore
<1>13. QED BY <1>4, <1>10, <1>11, <1>12 DEF Sequences!Insert

\* TAILQ_REMOVE.
LEMMA RemoveFromKeeps ==
  ASSUME QueueInv, NEW h \in Anchor, NEW e \in Elem, RemoveFrom(h, e)
  PROVE  /\ QueueInv'
         /\ \E i \in DOMAIN [k \in Anchor |-> WalkFrom(k)][h] : Sequences!Take(h, i)
<1>1. WalkFrom(h) = Queue[h] /\ Queue[h] \in Seq(Elem)
  BY WordsAt
<1>2. PICK i \in DOMAIN WalkFrom(h) : WalkFrom(h)[i] = e
  BY DEF RemoveFrom, InQueue
<1>3. i \in 1..Len(Queue[h]) /\ Queue[h][i] = e
  BY <1>1, <1>2
<1>4. TakesOut(first, last, h, e, first', last')
  BY Zenon DEF RemoveFrom, HeadAfter, TakesOut, Address
<1> DEFINE r == [Queue EXCEPT ![h] = Sequences!RemoveAt(Queue[h], i)]
<1>5. Linked(first', last', r)
  BY <1>3, <1>4, RemoveKeeps DEF QueueInv
<1> HIDE DEF r
<1>6. Queue' = r
  BY <1>5, WalksVisitThen
<1>7. QueueInv'
  BY <1>5, <1>6 DEF QueueInv
<1>8. done' = <<"remove", h, e>> /\ value' = None
  BY DEF RemoveFrom
<1>9. i \in DOMAIN [k \in Anchor |-> WalkFrom(k)][h] /\ [k \in Anchor |-> WalkFrom(k)][h][i] = e
  BY <1>2
<1>10. Sequences!Take(h, i)
  BY <1>6, <1>8, <1>9 DEF Sequences!Take, Queue, r
<1>11. QED BY <1>7, <1>9, <1>10

\* TAILQ_CONCAT.
LEMMA ConcatMoves ==
  ASSUME QueueInv, NEW h \in Anchor, NEW k \in Anchor, Concat(h, k)
  PROVE  QueueInv' /\ Sequences!Move(h, k)
<1> DEFINE t == Queue[h] \o Queue[k]
           z == <<>>
           r == [Queue EXCEPT ![h] = t, ![k] = z]
<1>1. h # k /\ done' = <<"concat", h, k>> /\ value' = None
  BY DEF Concat
<1>2. QueueInv' /\ Queue' = r
  <2>1. CASE first[k] # None
    <3>1. Appends(first, last, h, k, first', last')
      BY <2>1 DEF Concat, Appends
    <3>2. Linked(first', last', r)
      BY <1>1, <2>1, <3>1, ConcatKeeps DEF QueueInv
    <3> HIDE DEF r
    <3>3. Queue' = r
      BY <3>2, WalksVisitThen
    <3>4. QED BY <3>2, <3>3 DEF QueueInv
  <2>2. CASE first[k] = None
    <3>1. first' = first /\ last' = last
      BY <2>2 DEF Concat
    <3>2. Queue' = Queue
      BY <3>1, WalksVisitThen DEF QueueInv
    <3>3. Queue[h] \in Seq(Elem) /\ Queue[k] \in Seq(Elem)
      BY WordsAt
    <3>4. Queue[k] = z
      <4> DEFINE s == Queue[k]
                 n == Len(s)
      <4>1. s \in Seq(Elem) /\ n \in Nat /\ n = 0
        BY <2>2, FirstSpot, NtyQueueAssumption DEF QueueInv
      <4> HIDE DEF s
      <4>2. s = z
        BY <4>1, EmptySeq
      <4>3. QED BY <4>2 DEF s
    <3>5. t = Queue[h]
      <4> HIDE DEF z
      <4>1. t = Queue[h] \o z
        BY <3>4
      <4>2. QED BY <3>3, <4>1, ConcatEmptySeq DEF z
    <3>6. Queue \in [Anchor -> Seq(Elem)]
      BY DEF QueueInv, Linked, Apart
    <3> HIDE DEF t, z
    <3>7. r = Queue
      BY <1>1, <3>4, <3>5, <3>6
    <3>8. QED BY <3>1, <3>2, <3>7 DEF QueueInv
  <2>3. QED BY <2>1, <2>2
<1>3. QED BY <1>1, <1>2 DEF Sequences!Move, Queue

\* TAILQ_SWAP.
LEMMA SwapMoves ==
  ASSUME QueueInv, NEW h \in Anchor, NEW k \in Anchor, Swap(h, k)
  PROVE  QueueInv' /\ Sequences!Move(h, k)
<1> DEFINE r == [Queue EXCEPT ![h] = Queue[k], ![k] = Queue[h]]
<1>1. h # k /\ done' = <<"swap", h, k>> /\ value' = None
  BY DEF Swap
<1>2. Exchanges(first, last, h, k, first', last')
  <2>1. first' = [[first EXCEPT ![h] = first[k]] EXCEPT ![k] = first[h]]
    BY DEF Swap
  <2>2. QED BY <2>1, Zenon DEF Swap, Exchanges, Address
<1>3. Linked(first', last', r)
  BY <1>1, <1>2, SwapKeeps DEF QueueInv
<1>4. Queue' = r
  <2> HIDE DEF r
  <2>1. QED BY <1>3, WalksVisitThen
<1>5. QueueInv'
  <2> HIDE DEF r
  <2>1. QED BY <1>3, <1>4 DEF QueueInv
<1>6. QED BY <1>1, <1>4, <1>5 DEF Sequences!Move, Queue

\* What writes nothing leaves the sequences.
LEMMA NothingWritten ==
  ASSUME QueueInv, UNCHANGED <<first, last>>
  PROVE  QueueInv' /\ Queue' = Queue
<1>1. first' = first /\ last' = last
  OBVIOUS
<1>2. Queue' = Queue
  BY <1>1, WalksVisitThen DEF QueueInv
<1>3. QED BY <1>1, <1>2 DEF QueueInv

\* What there is at a position of a sequence.
LEMMA WhatIsAt ==
  ASSUME QueueInv, NEW h \in Anchor, NEW i \in Int
  PROVE  Sequences!At(h, i) = IF i \in 1..Len(Queue[h]) THEN Queue[h][i] ELSE None
<1>1. WalkFrom(h) = Queue[h] /\ Queue[h] \in Seq(Elem)
  BY WordsAt
<1>2. DOMAIN Queue[h] = 1..Len(Queue[h])
  BY <1>1
<1>3. [k \in Anchor |-> WalkFrom(k)][h] = Queue[h]
  BY <1>1
<1>4. QED BY <1>2, <1>3 DEF Sequences!At

\* TAILQ_FIRST and TAILQ_LAST.
LEMMA EndsAsked ==
  ASSUME QueueInv, NEW h \in Anchor
  PROVE  /\ first[h] = Sequences!At(h, 1)
         /\ first[last[last[h]]] = Sequences!At(h, Len([k \in Anchor |-> WalkFrom(k)][h]))
<1> DEFINE s == Queue[h]
           n == Len(s)
           one == 1
<1>1. /\ n \in Nat /\ [k \in Anchor |-> WalkFrom(k)][h] = s
      /\ \A i \in 0..n : first[Spot(h, s, i)] = IF i = n THEN None ELSE s[i + 1]
      /\ last[h] = Spot(h, s, n)
      /\ \A i \in 1..n : last[s[i]] = Spot(h, s, i - 1)
  BY WordsAt
<1>2. \A i \in Int : Sequences!At(h, i) = IF i \in 1..n THEN s[i] ELSE None
  BY WhatIsAt
<1>3. one = 1 /\ one \in Int
  OBVIOUS
<1>4. Spot(h, s, 0) = h /\ (n # 0 => Spot(h, s, n) = s[n])
  BY DEF Spot
<1> HIDE DEF n, s, one
<1>5. first[h] = Sequences!At(h, one)
  <2>1. 0 \in 0..n /\ (one \in 1..n <=> n # 0)
    BY <1>1, <1>3
  <2>2. first[h] = IF n = 0 THEN None ELSE s[one]
    BY <1>1, <1>3, <1>4, <2>1
  <2>3. QED BY <1>2, <1>3, <2>1, <2>2
<1>6. first[last[last[h]]] = Sequences!At(h, n)
  <2>1. CASE n = 0
    BY <1>1, <1>2, <1>4, <2>1
  <2>2. CASE n # 0
    <3>1. n \in 1..n /\ n - 1 \in 0..n /\ n - 1 # n /\ (n - 1) + 1 = n
      BY <1>1, <2>2
    <3>2. first[last[last[h]]] = s[n]
      BY <1>1, <1>4, <2>2, <3>1
    <3>3. QED BY <1>2, <3>1, <3>2
  <2>3. QED BY <2>1, <2>2
<1>7. QED BY <1>1, <1>3, <1>5, <1>6 DEF n

\* TAILQ_NEXT and TAILQ_PREV.
LEMMA NeighboursAsked ==
  ASSUME QueueInv, NEW h \in Anchor, NEW i \in 1..Len(Queue[h])
  PROVE  /\ first[Queue[h][i]] = Sequences!At(h, i + 1)
         /\ first[last[last[Queue[h][i]]]] = Sequences!At(h, i - 1)
<1> DEFINE s == Queue[h]
           n == Len(s)
<1>1. /\ n \in Nat
      /\ \A j \in 0..n : first[Spot(h, s, j)] = IF j = n THEN None ELSE s[j + 1]
      /\ last[h] = Spot(h, s, n)
      /\ \A j \in 1..n : last[s[j]] = Spot(h, s, j - 1)
  BY WordsAt
<1>2. \A j \in Int : Sequences!At(h, j) = IF j \in 1..n THEN s[j] ELSE None
  BY WhatIsAt
<1>3. i \in 1..n
  OBVIOUS
<1> HIDE DEF n, s
<1>4. Spot(h, s, 0) = h /\ \A j \in 1..n : Spot(h, s, j) = s[j]
  BY DEF Spot
<1>5. first[s[i]] = Sequences!At(h, i + 1)
  <2>1. i \in 0..n /\ i + 1 \in Int /\ (i + 1 \in 1..n <=> i # n)
    BY <1>1, <1>3
  <2>2. first[s[i]] = IF i = n THEN None ELSE s[i + 1]
    BY <1>1, <1>3, <1>4, <2>1
  <2>3. QED BY <1>2, <2>1, <2>2
<1>6. first[last[last[s[i]]]] = Sequences!At(h, i - 1)
  <2>1. last[s[i]] = Spot(h, s, i - 1)
    BY <1>1, <1>3
  <2>2. CASE i = 1
    <3>1. n \in 1..n /\ n \in 0..n /\ i - 1 = 0 /\ i - 1 \in Int /\ i - 1 \notin 1..n
      BY <1>1, <1>3, <2>2
    <3>2. first[last[last[s[i]]]] = None
      BY <1>1, <1>4, <2>1, <3>1
    <3>3. QED BY <1>2, <3>1, <3>2
  <2>3. CASE i # 1
    <3> DEFINE j == i - 1
    <3>1. j \in 1..n /\ j - 1 \in 0..n /\ j - 1 # n /\ (j - 1) + 1 = j /\ j \in Int
      BY <1>1, <1>3, <2>3
    <3>2. last[s[i]] = Spot(h, s, j)
      BY <2>1
    <3> HIDE DEF j
    <3>3. last[last[s[i]]] = Spot(h, s, j - 1)
      BY <1>1, <1>4, <3>1, <3>2
    <3>4. first[last[last[s[i]]]] = s[j]
      BY <1>1, <3>1, <3>3
    <3>5. Sequences!At(h, j) = s[j]
      BY <1>2, <3>1
    <3>6. QED BY <3>4, <3>5 DEF j
  <2>4. QED BY <2>2, <2>3
<1>7. QED BY <1>5, <1>6 DEF s

\* A question changes no queue and is answered from the sequences.
LEMMA Answered ==
  ASSUME QueueInv, NEW name, NEW x, NEW answer, Worth(name, x, answer)
  PROVE  QueueInv' /\ Sequences!Ask(name, x, answer)
<1>1. QueueInv' /\ Queue' = Queue
  BY NothingWritten DEF Worth
<1>2. QED BY <1>1 DEF Worth, Sequences!Ask, Queue

-------------------------------------------------------------------------------
(* The refinement *)

\* Every macro keeps the queues linked and does what it should to the sequences.
LEMMA StepMaps ==
  ASSUME QueueInv, [QueueStep]_queueVars
  PROVE  QueueInv' /\ [Sequences!Next]_<<Queue, done, value>>
<1> DEFINE Kept == QueueInv' /\ Sequences!Next
           Abstract == [h \in Anchor |-> WalkFrom(h)]
<1>1. ASSUME NEW h \in Anchor, NEW e \in Elem, InsertTail(h, e) PROVE Kept
  BY <1>1, InsertTailKeeps DEF Sequences!Next
<1>2. ASSUME NEW h \in Anchor, NEW e \in Elem, InsertHead(h, e) PROVE Kept
  BY <1>2, InsertHeadKeeps DEF Sequences!Next
<1>3. ASSUME NEW h \in Anchor, NEW e \in Elem, NEW f \in Elem, InsertAfter(h, f, e) PROVE Kept
  BY <1>3, InsertAfterKeeps DEF Sequences!Next
<1>4. ASSUME NEW h \in Anchor, NEW e \in Elem, RemoveFrom(h, e) PROVE Kept
  BY <1>4, RemoveFromKeeps DEF Sequences!Next
<1>5. ASSUME NEW h \in Anchor, NEW k \in Anchor, Concat(h, k) \/ Swap(h, k) PROVE Kept
  BY <1>5, ConcatMoves, SwapMoves DEF Sequences!Next
<1>6. ASSUME NEW h \in Anchor, First(h) PROVE Kept
  <2>1. QueueInv' /\ Sequences!Ask("first", h, first[h])
    BY <1>6, Answered DEF First
  <2>2. QED BY <2>1, EndsAsked DEF Sequences!Next
<1>7. ASSUME NEW h \in Anchor, Last(h) PROVE Kept
  <2>1. QueueInv' /\ Sequences!Ask("last", h, first[last[last[h]]])
    BY <1>7, Answered DEF Last
  <2>2. QED BY <2>1, EndsAsked DEF Sequences!Next
<1>8. ASSUME NEW e \in Elem, NEW f \in Elem, InsertBefore(f, e) PROVE Kept
  BY <1>8, InsertBeforeKeeps DEF Sequences!Next
<1>9. ASSUME NEW e \in Elem, Next(e) \/ Prev(e) PROVE Kept
  <2>1. PICK h \in Anchor : InQueue(h, e)
    BY <1>9 DEF Next, Prev, Queued
  <2>2. WalkFrom(h) = Queue[h] /\ Queue[h] \in Seq(Elem)
    BY WordsAt
  <2>3. PICK i \in DOMAIN WalkFrom(h) : WalkFrom(h)[i] = e
    BY <2>1 DEF InQueue
  <2>4. i \in 1..Len(Queue[h]) /\ Queue[h][i] = e
    BY <2>2, <2>3
  <2>5. i \in DOMAIN Abstract[h] /\ Abstract[h][i] = e
    BY <2>3
  <2>6. first[e] = Sequences!At(h, i + 1) /\ first[last[last[e]]] = Sequences!At(h, i - 1)
    BY <2>4, NeighboursAsked
  <2>7. CASE Next(e)
    <3>1. QueueInv' /\ Sequences!Ask("next", e, first[e])
      BY <2>7, Answered DEF Next
    <3>2. QED BY <2>5, <2>6, <3>1 DEF Sequences!Next
  <2>8. CASE Prev(e)
    <3>1. QueueInv' /\ Sequences!Ask("prev", e, first[last[last[e]]])
      BY <2>8, Answered DEF Prev
    <3>2. QED BY <2>5, <2>6, <3>1 DEF Sequences!Next
  <2>9. QED BY <1>9, <2>7, <2>8
<1>10. CASE UNCHANGED queueVars
  BY <1>10, NothingWritten DEF queueVars
<1>11. CASE QueueStep
  BY <1>1, <1>2, <1>3, <1>4, <1>5, <1>6, <1>7, <1>8, <1>9, <1>11, Zenon DEF QueueStep
<1>12. QED BY <1>10, <1>11

\* The words of the heads and the elements always spell sequences: every queue's
\* addresses are linked forth and back and no element is in two places
\* (nty_queue.h:443-563).
THEOREM QueuesLinked == QueueSpec => []QueueInv
<1>1. QueueInit => QueueInv
  BY QueueInvStarts
<1>2. QueueInv /\ [QueueStep]_queueVars => QueueInv'
  BY StepMaps
<1>3. QED BY <1>1, <1>2, PTL DEF QueueSpec

\* The TAILQ macros implement sequences in which an element occurs once, with any
\* heads and elements: what the scheduler takes its ready and deferred queues for
\* (nty_queue.h:443-563).
THEOREM QueuesImplemented == QueueSpec => IsQueues
<1>1. QueueInit => Sequences!Init
  BY QueueInvStarts
<1>2. QueueInv /\ [QueueStep]_queueVars
        => [Sequences!Next]_<<[h \in Anchor |-> WalkFrom(h)], done, value>>
  BY StepMaps DEF Queue
<1>3. QED BY <1>1, <1>2, QueuesLinked, PTL DEF QueueSpec, IsQueues, Sequences!Spec
===============================================================================
