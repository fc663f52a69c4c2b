----------------------------- MODULE NtyTreeProofs ----------------------------
(***************************************************************************)
(* The functions of nty_tree.h on trees of any size: they keep a red-black *)
(* tree one, and do and return what they should do on an ordered set.      *)
(*                                                                         *)
(* A walk stands, before each of its rounds, at a node with the answer below *)
(* it or on the path to it.  An insertion hangs a leaf where a search for it *)
(* ends; a removal takes a node out of its place, after giving that place to *)
(* its successor if it has two children; NtyTreeLoops then colors the tree. *)
(***************************************************************************)
EXTENDS NtyTreeLoops

-------------------------------------------------------------------------------
(* Walks *)

\* Of nodes of a tree, one is the lowest: no child of it is one of them.
LEMMA Lowest ==
  ASSUME NEW t, NEW M, NEW G, Formed(t, M, G), NEW Bad \in SUBSET M, Bad # {}
  PROVE  \E a \in Bad : \A s \in Side : t.child[s][a] \notin Bad
<1> DEFINE T == {Cardinality(G[a]) : a \in Bad}
<1>1. ASSUME NEW a \in M PROVE G[a] \in SUBSET Node /\ Cardinality(G[a]) \in Nat
  <2>1. ParentAt(t, M, G, a, t.parent[a]) /\ M \subseteq Node
    BY Parents DEF Formed
  <2>2. G[a] \in SUBSET Node
    BY <2>1 DEF ParentAt
  <2>3. QED BY <2>2, SizeIsNat
<1>2. T \subseteq Nat /\ T # {}
  BY <1>1
<1> HIDE DEF T
<1>3. PICK i \in T : \A j \in T : i <= j
  BY <1>2, Least
<1>4. PICK a \in Bad : i = Cardinality(G[a])
  BY <1>3 DEF T
<1>5. ASSUME NEW s \in Side, t.child[s][a] \in Bad PROVE FALSE
  <2>1. t.child[s][a] \in M /\ t.child[s][a] # NULL
    BY <1>5, Children
  <2>2. ChildAt(t, M, G, a, s) /\ NodeAt(t, M, G, a)
    BY At
  <2>3. G[t.child[s][a]] \in SUBSET G[a] /\ G[t.child[s][a]] # G[a]
    BY <2>1, <2>2 DEF ChildAt, NodeAt
  <2>4. Cardinality(G[t.child[s][a]]) + 1 <= Cardinality(G[a])
    BY <1>1, <2>3, Smaller
  <2>5. Cardinality(G[t.child[s][a]]) \in T
    BY <1>5 DEF T
  <2>6. Cardinality(G[a]) <= Cardinality(G[t.child[s][a]])
    BY <1>3, <1>4, <2>5
  <2>7. QED BY <1>1, <2>1, <2>4, <2>6
<1>6. QED BY <1>5

\* All below a node is below those above it, and on one side of every other node.
NestedIn(t, G, a, c) ==
  /\ G[c] \in SUBSET G[a]
  /\ c # a => t.parent[c] \in G[a] /\ t.parent[c] # NULL
  /\ \A x \in G[a] \ G[c] : \E s \in Side : \A k \in G[c] : Before(s, x, k)

\* What is below a node lies together in the order of the keys.
LEMMA Nested ==
  ASSUME NEW t, NEW M, NEW G, Formed(t, M, G)
  PROVE  \A a \in M : \A c \in G[a] : NestedIn(t, G, a, c)
<1> DEFINE Bad == {a \in M : ~ \A c \in G[a] : NestedIn(t, G, a, c)}
<1>1. SUFFICES ASSUME Bad # {} PROVE FALSE
  OBVIOUS
<1>2. Bad \in SUBSET M
  OBVIOUS
<1> HIDE DEF Bad
<1>3. PICK a \in Bad : \A s \in Side : t.child[s][a] \notin Bad
  BY <1>1, <1>2, Lowest
<1>4. a \in M
  BY <1>2, <1>3
<1>5. /\ a \in Node /\ a # NULL /\ M \subseteq Node
      /\ \A s \in Side : t.child[s][a] = NULL \/ t.child[s][a] \in M
  BY <1>4, Children
<1>6. \A s \in Side : ChildAt(t, M, G, a, s)
  BY <1>4, At
<1>7. ASSUME NEW c \in G[a] PROVE NestedIn(t, G, a, c)
  <2>1. CASE c = a
    BY <2>1 DEF NestedIn
  <2>2. CASE c # a
    <3>1. PICK s \in Side : c \in Under(G, t.child[s][a])
      <4>1. G[a] = {a} \cup Under(G, t.child["left"][a]) \cup Under(G, t.child["right"][a])
        BY <1>6, Sides DEF ChildAt
      <4>2. QED BY <2>2, <4>1, Sides
    <3>2. PICK d : d = t.child[s][a]
      OBVIOUS
    <3>3. PICK o : o = Other(s)
      OBVIOUS
    <3>4. d # NULL /\ d \in M /\ c \in G[d] /\ d \notin Bad
      BY <1>3, <1>5, <3>1, <3>2 DEF Under
    <3>5. NestedIn(t, G, d, c)
      BY <3>4 DEF Bad
    <3>6. /\ G[c] \in SUBSET G[d]
          /\ c # d => t.parent[c] \in G[d] /\ t.parent[c] # NULL
          /\ \A x \in G[d] \ G[c] : \E z \in Side : \A k \in G[c] : Before(z, x, k)
      BY <3>5 DEF NestedIn
    <3>7. /\ G[a] = {a} \cup G[d] \cup Under(G, t.child[o][a])
          /\ t.parent[d] = a /\ G[d] \in SUBSET G[a]
          /\ \A m \in G[d] : Before(s, m, a) /\ m \in Node
      BY <1>6, <3>2, <3>3, <3>4 DEF ChildAt, Under
    <3>8. o \in Side /\ Other(o) = s
      BY <3>3, Sides
    <3>9. \A m \in Under(G, t.child[o][a]) : Before(o, m, a) /\ m \in Node
      BY <1>6, <3>8 DEF ChildAt, Under
    <3>10. \A k \in G[c] : Before(o, a, k) /\ k \in Node
      BY <1>5, <3>3, <3>6, <3>7, Order
    <3>11. ASSUME NEW x \in G[a] \ G[c] PROVE \E z \in Side : \A k \in G[c] : Before(z, x, k)
      <4>1. CASE x = a
        BY <3>8, <3>10, <4>1
      <4>2. CASE x \in G[d]
        BY <3>6, <3>11, <4>2
      <4>3. CASE x \in Under(G, t.child[o][a])
        <5>1. Before(o, x, a) /\ x \in Node
          BY <3>9, <4>3
        <5>2. \A k \in G[c] : Before(o, x, k)
          BY <1>5, <3>8, <3>10, <5>1, Order
        <5>3. QED BY <3>8, <5>2
      <4>4. QED BY <3>7, <3>11, <4>1, <4>2, <4>3
    <3>12. c # a => t.parent[c] \in G[a] /\ t.parent[c] # NULL
      <4>1. a \in G[a]
        BY <3>7
      <4>2. QED BY <1>5, <3>6, <3>7, <4>1
    <3>13. QED BY <3>6, <3>7, <3>11, <3>12 DEF NestedIn
  <2>3. QED BY <2>1, <2>2
<1>8. QED BY <1>3, <1>7 DEF Bad

\* What the loops that go down on one side find: the outermost node.
OutermostIs(t, G, n, side, r) ==
  /\ r \in G[n] /\ t.child[side][r] = NULL
  /\ \A m \in G[n] : m = r \/ Before(side, r, m)

\* Going down on one side finds the first node of those below, or the last.
LEMMA OutermostFound ==
  ASSUME NEW t, NEW M, NEW G, Formed(t, M, G), NEW n \in M, NEW side \in Side
  PROVE  OutermostIs(t, G, n, side, Outermost(t, n, side))
<1> DEFINE Down == [m \in Node |-> IF t.child[side][m] = NULL THEN m ELSE t.child[side][m]]
           At0(m, i) == /\ m \in G[n]
                        /\ \A k \in G[n] \ G[m] : Before(side, m, k)
                        /\ t.child[side][m] = NULL \/ Cardinality(G[m]) + i <= Size
           Good == [i \in 0..Size |-> {m \in M : At0(m, i)}]
<1>1. Size \in Nat /\ 0 \in 0..Size /\ Size \in 0..Size
  BY SizeIsNat
<1>2. Outermost(t, n, side) = Loop(Down, n)
  BY DEF Outermost
<1>3. /\ M \subseteq Node
      /\ \A m \in M : NodeAt(t, M, G, m) /\ ChildAt(t, M, G, m, side) /\ G[m] \in SUBSET Node
  <2>1. \A m \in M : NodeAt(t, M, G, m) /\ ChildAt(t, M, G, m, side)
    BY At
  <2>2. QED BY <2>1 DEF NodeAt, Formed
<1>4. \A m \in M : Down[m] = IF t.child[side][m] = NULL THEN m ELSE t.child[side][m]
  BY <1>3
<1> HIDE DEF Down
<1>5. \A i \in 0..Size : Good[i] = {m \in M : At0(m, i)}
  OBVIOUS
<1> HIDE DEF Good
<1>6. n \in Good[0]
  <2>1. n \in G[n] /\ Cardinality(G[n]) + 0 <= Size
    BY <1>3, SizeIsNat DEF NodeAt
  <2>2. QED BY <1>1, <1>5, <2>1
<1>7. ASSUME NEW i \in 1..Size, NEW m \in Good[i - 1] PROVE Down[m] \in Good[i]
  <2>1. i - 1 \in 0..Size /\ i \in 0..Size /\ i \in Nat
    BY <1>1
  <2>2. m \in M /\ At0(m, i - 1)
    BY <1>5, <2>1
  <2>3. /\ m \in G[n] /\ m \in Node /\ G[n] \in SUBSET M
        /\ \A k \in G[n] \ G[m] : Before(side, m, k)
        /\ t.child[side][m] = NULL \/ Cardinality(G[m]) + (i - 1) <= Size
    BY <1>3, <2>2 DEF NodeAt
  <2>4. CASE t.child[side][m] = NULL
    <3>1. Down[m] = m /\ At0(m, i)
      BY <1>4, <2>2, <2>3, <2>4
    <3>2. QED BY <1>5, <2>1, <2>2, <3>1
  <2>5. CASE t.child[side][m] # NULL
    <3>1. PICK c : c = t.child[side][m]
      OBVIOUS
    <3>2. PICK o : o = t.child[Other(side)][m]
      OBVIOUS
    <3>3. /\ c \in M /\ c \in Node /\ Before(side, c, m) /\ G[c] \in SUBSET G[m] /\ m \notin G[c]
             /\ c \in G[c]
          /\ G[m] = {m} \cup G[c] \cup Under(G, o)
      BY <1>3, <2>2, <2>5, <3>1, <3>2 DEF ChildAt, Under
    <3>4. \A k \in Under(G, o) : Before(side, m, k)
      <4>1. ChildAt(t, M, G, m, Other(side)) /\ Other(side) \in Side /\ Other(Other(side)) = side
        BY <2>2, Sides, At
      <4>2. \A k \in Under(G, o) : Before(Other(side), k, m) /\ k \in Node
        BY <3>2, <4>1 DEF ChildAt, Under
      <4>3. QED BY <2>3, <4>1, <4>2, Order
    <3>5. c \in G[n]
      <4>1. NestedIn(t, G, n, m)
        BY <2>3, Nested
      <4>2. QED BY <3>3, <4>1 DEF NestedIn
    <3>6. \A k \in G[n] \ G[c] : Before(side, c, k)
      <4>1. TAKE k \in G[n] \ G[c]
      <4>2. k \in Node /\ (k = m \/ Before(side, m, k))
        BY <1>3, <2>3, <3>3, <3>4
      <4>3. QED BY <2>3, <3>3, <4>2, Order
    <3>7. Cardinality(G[c]) + i <= Size
      <4>1. m \in G[m] /\ G[m] \in SUBSET Node
        BY <1>3, <2>2 DEF NodeAt
      <4>2. Cardinality(G[c]) + 1 <= Cardinality(G[m])
        BY <3>3, <4>1, Smaller
      <4>3. Cardinality(G[c]) \in Nat /\ Cardinality(G[m]) \in Nat
        BY <3>3, <4>1, SizeIsNat
      <4>4. QED BY <1>1, <2>1, <2>3, <2>5, <4>2, <4>3
    <3>8. Down[m] = c
      BY <1>4, <2>2, <2>5, <3>1
    <3>9. At0(c, i)
      BY <3>5, <3>6, <3>7
    <3>10. QED BY <1>5, <2>1, <3>3, <3>8, <3>9
  <2>6. QED BY <2>4, <2>5
<1>8. PICK r : r = Loop(Down, n)
  OBVIOUS
<1>9. r \in Good[Size]
  BY <1>6, <1>7, <1>8, LoopKeeps
<1>10. r \in M /\ At0(r, Size)
  BY <1>1, <1>5, <1>9
<1>11. t.child[side][r] = NULL
  <2>1. SUFFICES ASSUME Cardinality(G[r]) + Size <= Size PROVE FALSE
    BY <1>10
  <2>2. {} \in SUBSET G[r] /\ {} # G[r] /\ G[r] \in SUBSET Node
    BY <1>3, <1>10 DEF NodeAt
  <2>3. Cardinality({}) + 1 <= Cardinality(G[r])
    BY <2>2, Smaller
  <2>4. Cardinality({}) \in Nat /\ Cardinality(G[r]) \in Nat
    BY <2>2, SizeIsNat
  <2>5. QED BY <1>1, <2>1, <2>3, <2>4
<1>12. ASSUME NEW m \in G[n] PROVE m = r \/ Before(side, r, m)
  <2>1. CASE m \in G[r]
    <3>1. ChildAt(t, M, G, r, Other(side)) /\ Other(side) \in Side /\ Other(Other(side)) = side
      BY <1>10, Sides, At
    <3>2. G[r] = {r} \cup Under(G, t.child[Other(side)][r])
      BY <1>11, <3>1 DEF ChildAt, Under
    <3>3. \A k \in Under(G, t.child[Other(side)][r]) : Before(Other(side), k, r) /\ k \in Node
      BY <3>1 DEF ChildAt, Under
    <3>4. r \in Node
      BY <1>3, <1>10
    <3>5. QED BY <2>1, <3>1, <3>2, <3>3, <3>4, Order
  <2>2. CASE m \notin G[r]
    BY <1>10, <1>12, <2>2
  <2>3. QED BY <2>1, <2>2
<1>13. QED BY <1>2, <1>8, <1>10, <1>11, <1>12 DEF OutermostIs

\* All nodes are below the root.
LEMMA NestedInTree ==
  ASSUME NEW t, NEW M, NEW G, Formed(t, M, G), NEW c \in M
  PROVE  /\ t.root # NULL /\ t.root \in M /\ G[t.root] = M
         /\ NestedIn(t, G, t.root, c)
<1>1. t.root # NULL /\ t.root \in M /\ G[t.root] = M
  BY DEF Formed, Under
<1>2. QED BY <1>1, Nested

\* The next node on a side, if any.
NeighbourIs(M, n, side, r) ==
  \/ r = NULL /\ \A x \in M : ~Before(Other(side), n, x)
  \/ r \in M /\ Before(Other(side), n, r)
     /\ \A x \in M : Before(Other(side), n, x) => x = r \/ Before(Other(side), r, x)

\* Going up from a node with nothing below it on the side finds the next one there.
LEMMA UpPastFound ==
  ASSUME NEW t, NEW M, NEW G, Formed(t, M, G), NEW n \in M, NEW side \in Side,
         t.child[side][n] = NULL
  PROVE  NeighbourIs(M, n, side, UpPast(t, n, side))
<1> DEFINE o == Other(side)
           Up == [m \in Node |-> LET p == t.parent[m] IN
                                 IF p # NULL /\ t.child[side][p] = m THEN p ELSE m]
           Stops(m) == t.parent[m] = NULL \/ t.child[side][t.parent[m]] # m
           At0(m, i) == /\ n \in G[m]
                        /\ \A k \in G[m] : k = n \/ Before(o, k, n)
                        /\ Stops(m) \/ Cardinality(G[m]) >= i + 1
           Good == [i \in 0..Size |-> {m \in M : At0(m, i)}]
<1>1. Size \in Nat /\ 0 \in 0..Size /\ Size \in 0..Size
  BY SizeIsNat
<1>2. UpPast(t, n, side) = t.parent[Loop(Up, n)]
  BY DEF UpPast
<1>3. /\ M \subseteq Node
      /\ \A m \in M : /\ ParentAt(t, M, G, m, t.parent[m]) /\ ChildAt(t, M, G, m, side)
                      /\ ChildAt(t, M, G, m, o) /\ G[m] \in SUBSET Node /\ m \in G[m] /\ m # NULL
  <2>1. M \subseteq Node /\ \A m \in M : ParentAt(t, M, G, m, t.parent[m]) /\ m # NULL
    BY Parents, Children
  <2>2. \A m \in M : ChildAt(t, M, G, m, side) /\ ChildAt(t, M, G, m, o)
    BY Sides, At
  <2>3. QED BY <2>1, <2>2 DEF ParentAt
<1>4. \A m \in M : Up[m] = IF Stops(m) THEN m ELSE t.parent[m]
  BY <1>3
<1>5. o \in Side /\ Other(o) = side /\ o # side /\ o = Other(side)
      /\ \A s \in Side : s = side \/ s = o
  BY Sides
<1> HIDE DEF Up, o
<1>6. \A i \in 0..Size : Good[i] = {m \in M : At0(m, i)}
  OBVIOUS
<1> HIDE DEF Good
<1>7. n \in Good[0]
  <2>1. \A k \in G[n] : k = n \/ Before(o, k, n)
    <3>1. ChildAt(t, M, G, n, o)
      BY <1>3
    <3>2. G[n] = {n} \cup Under(G, t.child[o][n])
          /\ \A k \in Under(G, t.child[o][n]) : Before(o, k, n)
      BY <1>5, <3>1 DEF ChildAt, Under
    <3>3. QED BY <3>2
  <2>2. Cardinality(G[n]) >= 0 + 1
    <3>1. {} \in SUBSET G[n] /\ {} # G[n] /\ G[n] \in SUBSET Node
      BY <1>3
    <3>2. Cardinality({}) + 1 <= Cardinality(G[n])
      BY <3>1, Smaller
    <3>3. Cardinality({}) \in Nat /\ Cardinality(G[n]) \in Nat
      BY <3>1, SizeIsNat
    <3>4. QED BY <3>2, <3>3
  <2>3. QED BY <1>1, <1>3, <1>6, <2>1, <2>2
<1>8. ASSUME NEW i \in 1..Size, NEW m \in Good[i - 1] PROVE Up[m] \in Good[i]
  <2>1. i - 1 \in 0..Size /\ i \in 0..Size /\ i \in Nat
    BY <1>1
  <2>2. m \in M /\ At0(m, i - 1)
    BY <1>6, <2>1
  <2>3. CASE Stops(m)
    BY <1>4, <1>6, <2>1, <2>2, <2>3
  <2>4. CASE ~Stops(m)
    <3>1. PICK p : p = t.parent[m]
      OBVIOUS
    <3>2. p # NULL /\ p \in M /\ t.child[side][p] = m /\ Up[m] = p
      BY <1>3, <1>4, <2>2, <2>4, <3>1 DEF ParentAt
    <3>3. /\ G[p] = {p} \cup G[m] \cup Under(G, t.child[o][p])
          /\ G[m] \in SUBSET G[p] /\ p \notin G[m]
          /\ \A k \in G[m] : Before(side, k, p)
      <4>1. ChildAt(t, M, G, p, side) /\ m # NULL
        BY <1>3, <2>2, <3>2
      <4>2. QED BY <1>5, <3>2, <4>1 DEF ChildAt, Under
    <3>4. \A k \in Under(G, t.child[o][p]) : Before(o, k, p) /\ k \in Node
      BY <1>3, <3>2 DEF ChildAt, Under
    <3>5. Before(o, p, n) /\ p \in Node /\ n \in Node
      BY <1>3, <1>5, <2>2, <3>2, <3>3, Order
    <3>6. \A k \in G[p] : k = n \/ Before(o, k, n)
      BY <1>5, <2>2, <3>3, <3>4, <3>5, Order
    <3>7. Cardinality(G[p]) >= i + 1
      <4>1. Cardinality(G[m]) >= (i - 1) + 1
        BY <2>2, <2>4
      <4>2. p \in G[p] /\ G[p] \in SUBSET Node
        BY <1>3, <3>2
      <4>3. Cardinality(G[m]) + 1 <= Cardinality(G[p])
        BY <3>3, <4>2, Smaller
      <4>4. Cardinality(G[m]) \in Nat /\ Cardinality(G[p]) \in Nat
        BY <3>3, <4>2, SizeIsNat
      <4>5. QED BY <2>1, <4>1, <4>3, <4>4
    <3>8. n \in G[p]
      BY <2>2, <3>3
    <3>9. QED BY <1>6, <2>1, <3>2, <3>6, <3>7, <3>8
  <2>5. QED BY <2>3, <2>4
<1>9. PICK m : m = Loop(Up, n)
  OBVIOUS
<1>10. m \in Good[Size]
  BY <1>7, <1>8, <1>9, LoopKeeps
<1>11. m \in M /\ At0(m, Size)
  BY <1>1, <1>6, <1>10
<1>12. Stops(m)
  <2>1. G[m] \in SUBSET Node
    BY <1>3, <1>11
  <2>2. Cardinality(G[m]) \in Nat /\ Cardinality(G[m]) <= Size
    BY <2>1, SizeIsNat
  <2>3. QED BY <1>1, <1>11, <2>2
<1>13. PICK r : r = t.parent[m]
  OBVIOUS
<1>14. \A k \in G[m] : ~Before(o, n, k)
  <2>1. n \in Node /\ \A k \in G[m] : k \in Node
    BY <1>3, <1>11
  <2>2. QED BY <1>5, <1>11, <2>1, Order
<1>15. CASE r = NULL
  <2>1. m = t.root
    BY <1>3, <1>11, <1>13, <1>15 DEF ParentAt
  <2>2. G[m] = M
    BY <2>1, NestedInTree
  <2>3. QED BY <1>2, <1>5, <1>9, <1>13, <1>14, <1>15, <2>2 DEF NeighbourIs
<1>16. CASE r # NULL
  <2>1. r \in M /\ t.child[o][r] = m
    <3>1. ParentAt(t, M, G, m, r)
      BY <1>3, <1>11, <1>13
    <3>2. r \in M /\ \E s \in Side : t.child[s][r] = m
      BY <1>16, <3>1 DEF ParentAt
    <3>3. t.child[side][r] # m
      BY <1>12, <1>13, <1>16
    <3>4. QED BY <1>5, <3>2, <3>3
  <2>2. /\ G[r] = {r} \cup G[m] \cup Under(G, t.child[side][r])
        /\ \A k \in G[m] : Before(o, k, r)
    <3>1. ChildAt(t, M, G, r, o) /\ m # NULL
      BY <1>3, <1>11, <2>1
    <3>2. Other(o) = side
      BY <1>5
    <3>3. QED BY <2>1, <3>1, <3>2 DEF ChildAt, Under
  <2>3. \A k \in Under(G, t.child[side][r]) : Before(side, k, r) /\ k \in Node
    BY <1>3, <2>1 DEF ChildAt, Under
  <2>4. Before(o, n, r) /\ r \in Node /\ n \in Node /\ r \in G[r] /\ n \in G[r]
    BY <1>3, <1>11, <2>1, <2>2
  <2>5. ASSUME NEW x \in M, Before(o, n, x) PROVE x = r \/ Before(o, r, x)
    <3>1. x \in Node /\ x \notin G[m]
      BY <1>3, <1>14, <2>5
    <3>2. CASE x \in G[r]
      BY <1>5, <2>2, <2>3, <2>4, <3>1, <3>2, Order
    <3>3. CASE x \notin G[r]
      <4>1. NestedIn(t, G, t.root, r) /\ G[t.root] = M
        BY <2>1, NestedInTree
      <4>2. PICK z \in Side : \A k \in G[r] : Before(z, x, k)
        BY <3>3, <4>1 DEF NestedIn
      <4>3. Before(z, x, n) /\ Before(z, x, r)
        BY <2>4, <4>2
      <4>4. z = side
        BY <1>5, <2>4, <2>5, <3>1, <4>3, Order
      <4>5. QED BY <1>5, <2>4, <3>1, <4>3, <4>4, Order
    <3>4. QED BY <3>2, <3>3
  <2>6. QED BY <1>2, <1>5, <1>9, <1>13, <2>1, <2>4, <2>5 DEF NeighbourIs
<1>17. QED BY <1>15, <1>16

\* RB_NEXT and RB_PREV find the next node on the side.
LEMMA NeighbourFound ==
  ASSUME NEW t, NEW M, NEW G, Formed(t, M, G), NEW n \in M, NEW side \in Side
  PROVE  NeighbourIs(M, n, side, Neighbour(t, n, side))
<1>1. PICK c, o : c = t.child[side][n] /\ o = Other(side)
  OBVIOUS
<1>2. CASE c = NULL
  <2>1. Neighbour(t, n, side) = UpPast(t, n, side)
    BY <1>1, <1>2 DEF Neighbour
  <2>2. QED BY <1>1, <1>2, <2>1, UpPastFound
<1>3. CASE c # NULL
  <2>1. PICK r : r = Outermost(t, c, o)
    OBVIOUS
  <2>2. Neighbour(t, n, side) = r
    BY <1>1, <1>3, <2>1 DEF Neighbour
  <2>3. o \in Side /\ Other(o) = side /\ \A s \in Side : s = side \/ s = o
    BY <1>1, Sides
  <2>4. ChildAt(t, M, G, n, side) /\ ChildAt(t, M, G, n, o) /\ NodeAt(t, M, G, n)
        /\ M \subseteq Node
    BY <2>3, At, ZenonT(30) DEF Formed
  <2>5. /\ c \in M /\ G[n] = {n} \cup G[c] \cup Under(G, t.child[o][n]) /\ G[c] \in SUBSET G[n]
        /\ \A m \in G[c] : Before(side, m, n) /\ m \in Node
    BY <1>1, <1>3, <2>4, SMTT(30) DEF ChildAt, Under
  <2>6. \A m \in Under(G, t.child[o][n]) : Before(o, m, n) /\ m \in Node
    BY <2>4 DEF ChildAt, Under
  <2>7. OutermostIs(t, G, c, o, r)
    BY <2>1, <2>3, <2>5, OutermostFound
  <2>8. r \in G[c] /\ \A m \in G[c] : m = r \/ Before(o, r, m)
    BY <2>7 DEF OutermostIs
  <2>9. r \in M /\ n \in Node /\ r \in Node /\ Before(o, n, r) /\ r \in G[n] /\ n \in G[n]
    BY <1>1, <2>3, <2>4, <2>5, <2>8, Order DEF NodeAt
  <2>10. ASSUME NEW x \in M, Before(o, n, x) PROVE x = r \/ Before(o, r, x)
    <3>1. x \in Node
      BY <2>4
    <3>2. CASE x \in G[n]
      <4>1. x \notin Under(G, t.child[o][n]) /\ x # n
        BY <2>3, <2>6, <2>9, <2>10, <3>1, Order
      <4>2. QED BY <2>5, <2>8, <3>2, <4>1
    <3>3. CASE x \notin G[n]
      <4>1. NestedIn(t, G, t.root, n) /\ G[t.root] = M
        BY NestedInTree
      <4>2. PICK z \in Side : \A k \in G[n] : Before(z, x, k)
        BY <3>3, <4>1 DEF NestedIn
      <4>3. Before(z, x, n) /\ Before(z, x, r)
        BY <2>9, <4>2
      <4>4. z = side
        BY <2>3, <2>9, <2>10, <3>1, <4>3, Order
      <4>5. QED BY <1>1, <2>3, <2>9, <3>1, <4>3, <4>4, Order
    <3>4. QED BY <3>2, <3>3
  <2>11. QED BY <1>1, <2>2, <2>9, <2>10 DEF NeighbourIs
<1>4. QED BY <1>2, <1>3

\* What a comparison tells.
LEMMA Compared ==
  ASSUME NEW n \in Node, NEW m \in Node
  PROVE  /\ Cmp(n, m) = 0 <=> Key[n] = Key[m]
         /\ Cmp(n, m) < 0 <=> Before("left", n, m)
         /\ Cmp(n, m) # 0 /\ ~(Cmp(n, m) < 0) <=> Before("right", n, m)
<1>1. Key[n] \in Int /\ Key[m] \in Int
  BY NtyTreeAssumption
<1>2. QED BY <1>1 DEF Cmp, Before

\* The walk by the key of elm before the round i: elm belongs below the link where the walk
\* is, and res is the next of the other nodes.
Belongs(t, M, G, elm, par) ==
  \A a \in M, z \in Side : par \in Under(G, t.child[z][a]) => Before(z, elm, a)
NextOutside(M, U, elm, res) ==
  /\ res # NULL => res \in M \ U /\ Before("left", elm, res) /\ \A x \in U : Before("left", x, res)
  /\ \A x \in M \ U : Before("left", elm, x) => res # NULL /\ (x = res \/ Before("left", res, x))
ParentOf(t, M, elm, at, par) ==
  /\ par = NULL => at = t.root
  /\ par # NULL => par \in M /\ \E z \in Side : at = t.child[z][par] /\ Before(z, elm, par)
Walking(t, M, G, elm, i, s) ==
  /\ s.at = NULL \/ s.at \in M
  /\ ParentOf(t, M, elm, s.at, s.parent)
  /\ Belongs(t, M, G, elm, s.parent)
  /\ \A x \in M \ Under(G, s.at) : Key[x] # Key[elm]
  /\ NextOutside(M, Under(G, s.at), elm, s.res)
  /\ s.at = NULL \/ Cmp(elm, s.at) = 0 \/ Cardinality(G[s.at]) + i <= Size

\* A step of the walk.
LEMMA WalkedDown ==
  ASSUME NEW t, NEW M, NEW G, Formed(t, M, G), NEW elm \in Node, NEW i \in Nat,
         NEW s \in [at : Link, parent : Link, res : Link], Walking(t, M, G, elm, i, s),
         s.at # NULL, NEW z \in Side, Before(z, elm, s.at),
         NEW w \in [at : Link, parent : Link, res : Link],
         w.at = t.child[z][s.at], w.parent = s.at,
         w.res = IF z = "left" THEN s.at ELSE s.res
  PROVE  Walking(t, M, G, elm, i + 1, w)
<1>1. PICK n, c, o : n = s.at /\ c = t.child[z][n] /\ o = Other(z)
  OBVIOUS
<1>2. /\ n \in M
      /\ ParentOf(t, M, elm, n, s.parent)
      /\ Belongs(t, M, G, elm, s.parent)
      /\ \A x \in M \ Under(G, n) : Key[x] # Key[elm]
      /\ NextOutside(M, Under(G, n), elm, s.res)
      /\ Cmp(elm, n) = 0 \/ Cardinality(G[n]) + i <= Size
  BY <1>1 DEF Walking
<1>3. o \in Side /\ Other(o) = z /\ o # z /\ \A y \in Side : y = z \/ y = o
  BY <1>1, Sides
<1>4. ChildAt(t, M, G, n, z) /\ ChildAt(t, M, G, n, o) /\ NodeAt(t, M, G, n) /\ M \subseteq Node
  BY <1>2, <1>3, At, ZenonT(30) DEF Formed
<1>5. /\ n \in Node /\ n # NULL /\ n \in G[n] /\ G[n] \in SUBSET M /\ Before(z, elm, n)
         /\ Under(G, n) = G[n]
      /\ G[n] = {n} \cup Under(G, c) \cup Under(G, t.child[o][n])
      /\ n \notin Under(G, c)
      /\ \A k \in Under(G, c) : Before(z, k, n)
      /\ \A k \in Under(G, t.child[o][n]) : Before(o, k, n) /\ k \in Node
      /\ c # NULL => c \in M /\ t.parent[c] = n /\ c # t.root
  <2>1. n # NULL /\ Before(z, elm, n) /\ Under(G, n) = G[n]
    BY <1>1, Zenon DEF Under
  <2>2. \A k \in Under(G, t.child[o][n]) : Before(o, k, n) /\ k \in Node
    BY <1>4 DEF ChildAt, Under
  <2>3. QED BY <1>1, <1>4, <2>1, <2>2, ZenonT(30) DEF ChildAt, NodeAt, Under
<1>6. \A x \in M \ Under(G, c) : x \in M \ G[n] \/ x = n \/ x \in Under(G, t.child[o][n])
  BY <1>5
<1>7. \A x \in Under(G, t.child[o][n]) : Before(z, elm, x) /\ Before(z, n, x)
  BY <1>3, <1>5, Order
<1>8. w.at = c /\ w.parent = n /\ w.res = IF z = "left" THEN n ELSE s.res
  BY <1>1
<1>9. c = NULL \/ c \in M
  BY <1>5, SMTT(30)
<1>10. ParentOf(t, M, elm, c, n)
  BY <1>1, <1>2, <1>5 DEF ParentOf
<1>11. Belongs(t, M, G, elm, n)
  <2>1. SUFFICES ASSUME NEW a \in M, NEW y \in Side, n \in Under(G, t.child[y][a])
                 PROVE Before(y, elm, a)
    BY DEF Belongs
  <2>2. PICK d : d = t.child[y][a]
    OBVIOUS
  <2>3. d # NULL /\ n \in G[d]
    BY <2>1, <2>2 DEF Under
  <2>4. d \in M /\ t.parent[d] = a /\ d # t.root /\ t.child[y][a] # t.child[Other(y)][a]
    <3>1. ChildAt(t, M, G, a, y)
      BY At
    <3>2. QED BY <2>2, <2>3, <3>1 DEF ChildAt
  <2>5. CASE n = d
    <3>1. PICK par : par = s.parent
      OBVIOUS
    <3>2. par # NULL
      BY <1>2, <2>4, <2>5, <3>1 DEF ParentOf
    <3>3. PICK y0 \in Side : par \in M /\ n = t.child[y0][par] /\ Before(y0, elm, par)
      BY <1>2, <3>1, <3>2 DEF ParentOf
    <3>4. t.parent[n] = par
      BY <1>2, <3>3, Children
    <3>5. par = a
      BY <2>4, <2>5, <3>4
    <3>6. y = y0
      BY <2>2, <2>4, <2>5, <3>3, <3>5, Sides
    <3>7. QED BY <3>3, <3>5, <3>6
  <2>6. CASE n # d
    <3>1. NestedIn(t, G, d, n)
      BY <2>3, <2>4, Nested
    <3>2. t.parent[n] \in G[d] /\ t.parent[n] # NULL
      BY <2>6, <3>1 DEF NestedIn
    <3>3. s.parent = t.parent[n]
      <4>1. s.parent # NULL
        BY <1>2, <1>4, <3>2 DEF ParentOf, NodeAt
      <4>2. QED BY <1>2, <4>1, Children DEF ParentOf
    <3>4. s.parent \in Under(G, t.child[y][a])
      BY <2>2, <2>3, <3>2, <3>3 DEF Under
    <3>5. QED BY <1>2, <3>4 DEF Belongs
  <2>7. QED BY <2>5, <2>6
<1>12. \A x \in M \ Under(G, c) : Key[x] # Key[elm]
  BY <1>2, <1>4, <1>5, <1>6, <1>7, Order
<1>13. NextOutside(M, Under(G, c), elm, w.res)
  <2>1. CASE z = "left"
    <3>1. w.res = n
      BY <1>8, <2>1
    <3>2. ASSUME NEW x \in M \ Under(G, c), Before("left", elm, x)
          PROVE  x = n \/ Before("left", n, x)
      <4>1. CASE x \in M \ G[n]
        <5>1. s.res \in M /\ (x = s.res \/ Before("left", s.res, x)) /\ Before("left", n, s.res)
          BY <1>2, <1>5, <3>2, <4>1 DEF NextOutside
        <5>2. QED BY <1>4, <1>5, <2>1, <4>1, <5>1, Order
      <4>2. QED BY <1>6, <1>7, <2>1, <3>2, <4>1
    <3>3. QED BY <1>2, <1>5, <2>1, <3>1, <3>2 DEF NextOutside
  <2>2. CASE z # "left"
    <3>1. w.res = s.res /\ z = "right" /\ o = "left"
      BY <1>1, <1>8, <2>2 DEF Side, Other
    <3>2. ASSUME NEW x \in M \ Under(G, c), Before("left", elm, x) PROVE x \in M \ G[n]
      <4>1. x \in Node
        BY <1>4, <3>2
      <4>2. ~Before(z, elm, x)
        BY <1>1, <3>1, <3>2, <4>1, Sides, Order
      <4>3. QED BY <1>5, <1>6, <1>7, <4>2
    <3>3. QED BY <1>2, <1>5, <3>1, <3>2 DEF NextOutside
  <2>3. QED BY <2>1, <2>2
<1>14. c = NULL \/ Cardinality(G[c]) + (i + 1) <= Size
  <2>1. SUFFICES ASSUME c # NULL PROVE Cardinality(G[c]) + (i + 1) <= Size
    OBVIOUS
  <2>2. G[c] \in SUBSET G[n] /\ G[c] # G[n] /\ G[n] \in SUBSET Node
    BY <1>4, <1>5, <2>1 DEF Under
  <2>3. Cardinality(G[c]) + 1 <= Cardinality(G[n])
    BY <2>2, Smaller
  <2>4. Cardinality(G[c]) \in Nat /\ Cardinality(G[n]) \in Nat /\ Size \in Nat
    BY <2>2, SizeIsNat
  <2>5. Cmp(elm, n) # 0
    BY <1>5, Compared, Order
  <2>6. QED BY <1>2, <2>3, <2>4, <2>5
<1>15. QED BY <1>8, <1>9, <1>10, <1>11, <1>12, <1>13, <1>14 DEF Walking

\* Where a walk ends.
WalkEnds(t, M, G, elm, w) ==
  /\ w \in [at : Link, parent : Link, res : Link]
  /\ w.at # NULL => w.at \in M /\ Key[w.at] = Key[elm]
  /\ w.at = NULL => /\ \A x \in M : Key[x] # Key[elm]
                    /\ NextOutside(M, {}, elm, w.res)
                    /\ ParentOf(t, M, elm, NULL, w.parent)
                    /\ Belongs(t, M, G, elm, w.parent)

\* The walk ends at the node with the key, or below the one that a new node belongs to.
LEMMA Walked ==
  ASSUME NEW t, NEW M, NEW G, Formed(t, M, G), NEW elm \in Node
  PROVE  WalkEnds(t, M, G, elm, Walk(t, elm))
<1> DEFINE V == [at : Link, parent : Link, res : Link]
           Step == [s \in V |->
             IF s.at = NULL \/ Cmp(elm, s.at) = 0 THEN s
             ELSE IF Cmp(elm, s.at) < 0
                  THEN [at |-> t.child["left"][s.at], parent |-> s.at, res |-> s.at]
                  ELSE [at |-> t.child["right"][s.at], parent |-> s.at, res |-> s.res]]
           start == [at |-> t.root, parent |-> NULL, res |-> NULL]
           Good == [i \in 0..Size |-> {s \in V : Walking(t, M, G, elm, i, s)}]
<1>1. Size \in Nat /\ 0 \in 0..Size /\ Size \in 0..Size
  BY SizeIsNat
<1>2. Walk(t, elm) = Loop(Step, start)
  BY DEF Walk
<1>3. start \in V /\ start.at = t.root /\ start.parent = NULL /\ start.res = NULL
  BY TreeFields DEF Formed, Link
<1>4. ASSUME NEW s \in V
      PROVE  Step[s] = IF s.at = NULL \/ Cmp(elm, s.at) = 0 THEN s
                       ELSE IF Cmp(elm, s.at) < 0
                            THEN [at |-> t.child["left"][s.at], parent |-> s.at, res |-> s.at]
                            ELSE [at |-> t.child["right"][s.at], parent |-> s.at, res |-> s.res]
  OBVIOUS
<1>5. \A s \in V : s.at \in Link /\ s.parent \in Link /\ s.res \in Link
  OBVIOUS
<1> HIDE DEF Step, start
<1>6. \A i \in 0..Size : Good[i] = {s \in V : Walking(t, M, G, elm, i, s)}
  OBVIOUS
<1> HIDE DEF Good
<1>7. start \in Good[0]
  <2>1. Under(G, t.root) = M /\ (t.root = NULL \/ t.root \in M) /\ M \subseteq Node
    BY DEF Formed
  <2>2. Belongs(t, M, G, elm, NULL)
    <3>1. \A a \in M, z \in Side : Under(G, t.child[z][a]) \subseteq Node
      <4>1. TAKE a \in M, z \in Side
      <4>2. ChildAt(t, M, G, a, z)
        BY At
      <4>3. QED BY <4>2 DEF ChildAt, Under
    <3>2. QED BY <3>1, NullIsNoNode DEF Belongs
  <2>3. t.root = NULL \/ Cardinality(G[t.root]) + 0 <= Size
    <3>1. t.root # NULL => G[t.root] \in SUBSET Node
      BY <2>1 DEF Under
    <3>2. QED BY <3>1, SizeIsNat
  <2>4. ParentOf(t, M, elm, t.root, NULL) /\ NextOutside(M, M, elm, NULL)
    BY DEF ParentOf, NextOutside
  <2>5. Walking(t, M, G, elm, 0, start)
    BY <1>3, <2>1, <2>2, <2>3, <2>4 DEF Walking
  <2>6. QED BY <1>1, <1>3, <1>6, <2>5
<1>8. ASSUME NEW i \in 1..Size, NEW s \in Good[i - 1] PROVE Step[s] \in Good[i]
  <2>1. i - 1 \in 0..Size /\ i - 1 \in Nat /\ i \in 0..Size /\ (i - 1) + 1 = i
    BY <1>1
  <2>2. s \in V /\ Walking(t, M, G, elm, i - 1, s)
    BY <1>6, <2>1
  <2>3. CASE s.at = NULL \/ Cmp(elm, s.at) = 0
    <3>1. Step[s] = s
      BY <1>4, <2>2, <2>3
    <3>2. Walking(t, M, G, elm, i, s)
      BY <2>2, <2>3 DEF Walking
    <3>3. QED BY <1>6, <2>1, <2>2, <3>1, <3>2
  <2>4. CASE ~(s.at = NULL \/ Cmp(elm, s.at) = 0)
    <3>1. s.at \in M /\ s.at \in Node /\ \A z \in Side : t.child[z][s.at] \in Link
      <4>1. s.at \in M
        BY <2>2, <2>4 DEF Walking
      <4>2. QED BY <4>1, TreeFields DEF Formed
    <3>2. s.at # NULL /\ s.at \in Link /\ s.res \in Link /\ (i - 1) + 1 = i
      BY <1>5, <2>1, <2>2, <2>4
    <3>3. CASE Cmp(elm, s.at) < 0
      <4>1. PICK w : w = [at |-> t.child["left"][s.at], parent |-> s.at, res |-> s.at]
        OBVIOUS
      <4>2. w \in V /\ w.at = t.child["left"][s.at] /\ w.parent = s.at /\ w.res = s.at
        BY <3>1, <3>2, <4>1, Sides
      <4>3. Before("left", elm, s.at)
        BY <3>1, <3>3, Compared
      <4>4. Walking(t, M, G, elm, (i - 1) + 1, w)
        BY <2>1, <2>2, <3>2, <4>2, <4>3, Sides, WalkedDown
      <4>5. Step[s] = w
        BY <1>4, <2>2, <2>4, <3>3, <4>1
      <4>6. QED BY <1>6, <2>1, <4>2, <4>4, <4>5
    <3>4. CASE ~(Cmp(elm, s.at) < 0)
      <4>1. PICK w : w = [at |-> t.child["right"][s.at], parent |-> s.at, res |-> s.res]
        OBVIOUS
      <4>2. w \in V /\ w.at = t.child["right"][s.at] /\ w.parent = s.at /\ w.res = s.res
        BY <3>1, <3>2, <4>1, Sides
      <4>3. Before("right", elm, s.at)
        BY <2>4, <3>1, <3>4, Compared
      <4>4. "right" # "left" /\ "right" \in Side
        BY Sides
      <4>5. Walking(t, M, G, elm, (i - 1) + 1, w)
        BY <2>1, <2>2, <3>2, <4>2, <4>3, <4>4, WalkedDown
      <4>6. Step[s] = w
        BY <1>4, <2>2, <2>4, <3>4, <4>1
      <4>7. QED BY <1>6, <2>1, <4>2, <4>5, <4>6
    <3>5. QED BY <3>3, <3>4
  <2>5. QED BY <2>3, <2>4
<1>9. PICK w : w = Loop(Step, start)
  OBVIOUS
<1>10. w \in Good[Size]
  BY <1>7, <1>8, <1>9, LoopKeeps
<1>11. w \in V /\ Walking(t, M, G, elm, Size, w)
  BY <1>1, <1>6, <1>10
<1>12. /\ w.at = NULL \/ w.at \in M
       /\ ParentOf(t, M, elm, w.at, w.parent)
       /\ Belongs(t, M, G, elm, w.parent)
       /\ \A x \in M \ Under(G, w.at) : Key[x] # Key[elm]
       /\ NextOutside(M, Under(G, w.at), elm, w.res)
       /\ w.at = NULL \/ Cmp(elm, w.at) = 0 \/ Cardinality(G[w.at]) + Size <= Size
  BY <1>11 DEF Walking
<1>13. w.at # NULL => w.at \in M /\ Key[w.at] = Key[elm]
  <2>1. SUFFICES ASSUME w.at # NULL PROVE w.at \in M /\ Key[w.at] = Key[elm]
    OBVIOUS
  <2>2. NodeAt(t, M, G, w.at) /\ M \subseteq Node
    BY <1>12, <2>1, At DEF Formed
  <2>3. {} \in SUBSET G[w.at] /\ {} # G[w.at] /\ G[w.at] \in SUBSET Node
    BY <2>2 DEF NodeAt
  <2>4. Cardinality({}) + 1 <= Cardinality(G[w.at])
    BY <2>3, Smaller
  <2>5. Cardinality({}) \in Nat /\ Cardinality(G[w.at]) \in Nat
    BY <2>3, SizeIsNat
  <2>6. Cmp(elm, w.at) = 0
    BY <1>1, <1>12, <2>1, <2>4, <2>5
  <2>7. QED BY <1>12, <2>1, <2>2, <2>6, Compared
<1>14. w.at = NULL => Under(G, w.at) = {}
  BY DEF Under
<1>15. QED BY <1>2, <1>9, <1>11, <1>12, <1>13, <1>14 DEF WalkEnds

\* The nodes that links lead to are those below.
LEMMA BelowFound ==
  ASSUME NEW t, NEW M, NEW G, Formed(t, M, G), NEW n, n = NULL \/ n \in M
  PROVE  Below(t, n) = Under(G, n)
<1> DEFINE V == [all : SUBSET Node, edge : SUBSET Node]
           Deeper == [s \in V |->
             LET next == {t.child[side][m] : side \in Side, m \in s.edge} \ (s.all \cup {NULL})
             IN  [all |-> s.all \cup next, edge |-> next]]
           start == [all |-> {n} \ {NULL}, edge |-> {n} \ {NULL}]
           Next1(s) == {t.child[side][m] : side \in Side, m \in s.edge} \ (s.all \cup {NULL})
           At0(s, i) == /\ s.all \subseteq Under(G, n) /\ s.edge \subseteq s.all
                        /\ n # NULL => n \in s.all
                        /\ \A m \in s.all \ s.edge, z \in Side :
                             t.child[z][m] = NULL \/ t.child[z][m] \in s.all
                        /\ s.edge = {} \/ Cardinality(s.all) >= i + 1
           Good == [i \in 0..Size |-> {s \in V : At0(s, i)}]
<1>1. Size \in Nat /\ 0 \in 0..Size /\ Size \in 0..Size
  BY SizeIsNat
<1>2. Below(t, n) = Loop(Deeper, start).all
  BY DEF Below
<1>3. ASSUME NEW s \in V
      PROVE  Deeper[s] = [all |-> s.all \cup Next1(s), edge |-> Next1(s)]
  OBVIOUS
<1> HIDE DEF Next1
<1>4. start.all = {n} \ {NULL} /\ start.edge = {n} \ {NULL}
  OBVIOUS
<1> HIDE DEF Deeper
<1>5. /\ M \subseteq Node /\ Under(G, n) \in SUBSET M
      /\ \A m \in M : m # NULL /\ NodeAt(t, M, G, m)
      /\ \A m \in M, z \in Side : ChildAt(t, M, G, m, z)
  <2>1. M \subseteq Node /\ \A m \in M : m # NULL /\ NodeAt(t, M, G, m)
    BY At, Children
  <2>2. Under(G, n) \in SUBSET M
    BY <2>1 DEF NodeAt, Under
  <2>3. QED BY <2>1, <2>2, At
<1>6. start \in V
  BY <1>5
<1>7. start.all \subseteq Under(G, n) /\ (start.edge = {} \/ Cardinality(start.all) >= 0 + 1)
  <2>1. CASE n = NULL
    BY <1>4, <2>1
  <2>2. CASE n # NULL
    <3>1. start.all = {n} /\ n \in G[n] /\ n \in Node
      BY <1>4, <1>5, <2>2 DEF NodeAt
    <3>2. {} \in SUBSET {n} /\ {} # {n} /\ {n} \in SUBSET Node
      BY <3>1
    <3>3. Cardinality({}) + 1 <= Cardinality({n})
      BY <3>2, Smaller
    <3>4. Cardinality({}) \in Nat /\ Cardinality({n}) \in Nat
      BY <3>2, SizeIsNat
    <3>5. Cardinality({n}) >= 0 + 1
      BY <3>3, <3>4
    <3>6. QED BY <2>2, <3>1, <3>5 DEF Under
  <2>3. QED BY <2>1, <2>2
<1> HIDE DEF start
<1>8. \A s \in V : s.all \in SUBSET Node /\ s.edge \in SUBSET Node
  OBVIOUS
<1>9. \A a, b \in SUBSET Node : [all |-> a, edge |-> b] \in V
  OBVIOUS
<1> HIDE DEF V
<1>10. \A i \in 0..Size : Good[i] = {s \in V : At0(s, i)}
  OBVIOUS
<1> HIDE DEF Good
<1>11. start \in Good[0]
  <2>1. At0(start, 0)
    BY <1>4, <1>7
  <2>2. QED BY <1>1, <1>6, <1>10, <2>1
<1>12. ASSUME NEW i \in 1..Size, NEW s \in Good[i - 1] PROVE Deeper[s] \in Good[i]
  <2>1. i - 1 \in 0..Size /\ i \in 0..Size /\ i \in Nat
    BY <1>1
  <2>2. s \in V /\ At0(s, i - 1)
    BY <1>10, <2>1
  <2>3. PICK all, edge : all = s.all /\ edge = s.edge
    OBVIOUS
  <2>4. /\ all \subseteq Under(G, n) /\ edge \subseteq all
        /\ n # NULL => n \in all
        /\ \A m \in all \ edge, z \in Side : t.child[z][m] = NULL \/ t.child[z][m] \in all
        /\ edge = {} \/ Cardinality(all) >= (i - 1) + 1
    BY <2>2, <2>3
  <2>5. PICK next : next = Next1(s)
    OBVIOUS
  <2>6. Deeper[s] = [all |-> all \cup next, edge |-> next]
    BY <1>3, <2>2, <2>3, <2>5
  <2>15. \A c : c \in next <=> /\ \E z \in Side, m \in edge : c = t.child[z][m]
                               /\ c \notin all /\ c # NULL
    BY <2>3, <2>5 DEF Next1
  <2>7. next \subseteq Under(G, n)
    <3>1. SUFFICES ASSUME NEW z \in Side, NEW m \in edge, t.child[z][m] # NULL
                   PROVE  t.child[z][m] \in Under(G, n)
      BY <2>15
    <3>2. n # NULL /\ m \in G[n] /\ m \in M /\ n \in M
      BY <1>5, <2>4 DEF Under
    <3>3. NestedIn(t, G, n, m) /\ ChildAt(t, M, G, m, z)
      BY <1>5, <3>2, Nested, ZenonT(30)
    <3>4. t.child[z][m] \in G[m] /\ G[m] \subseteq G[n]
      BY <3>1, <3>3 DEF NestedIn, ChildAt, Under
    <3>5. QED BY <3>2, <3>4 DEF Under
  <2>8. all \cup next \in SUBSET Node /\ next \in SUBSET Node /\ all \in SUBSET Node
    BY <1>5, <2>4, <2>7
  <2>9. \A m \in (all \cup next) \ next, z \in Side : t.child[z][m] = NULL \/ t.child[z][m] \in all \cup next
    BY <2>4, <2>15
  <2>10. next = {} \/ Cardinality(all \cup next) >= i + 1
    <3>1. SUFFICES ASSUME next # {} PROVE Cardinality(all \cup next) >= i + 1
      OBVIOUS
    <3>2. edge # {}
      BY <2>15, <3>1
    <3>3. all # all \cup next /\ all \in SUBSET (all \cup next)
      BY <2>15, <3>1
    <3>4. Cardinality(all) + 1 <= Cardinality(all \cup next)
      BY <2>8, <3>3, Smaller
    <3>5. Cardinality(all) \in Nat /\ Cardinality(all \cup next) \in Nat
      BY <2>8, SizeIsNat
    <3>6. QED BY <2>1, <2>4, <3>2, <3>4, <3>5
  <2>11. PICK w : w = [all |-> all \cup next, edge |-> next]
    OBVIOUS
  <2>12. w \in V /\ w.all = all \cup next /\ w.edge = next
    BY <1>9, <2>8, <2>11
  <2>13. At0(w, i)
    <3>1. w.all \subseteq Under(G, n) /\ w.edge \subseteq w.all /\ (n # NULL => n \in w.all)
      BY <2>4, <2>7, <2>12
    <3>2. \A m \in w.all \ w.edge, z \in Side : t.child[z][m] = NULL \/ t.child[z][m] \in w.all
      BY <2>9, <2>12
    <3>3. w.edge = {} \/ Cardinality(w.all) >= i + 1
      BY <2>10, <2>12
    <3>4. QED BY <3>1, <3>2, <3>3
  <2> HIDE DEF At0
  <2>14. w \in Good[i]
    BY <1>10, <2>1, <2>12, <2>13
  <2>16. QED BY <2>6, <2>11, <2>14
<1>13. PICK w : w = Loop(Deeper, start)
  OBVIOUS
<1>14. w \in Good[Size]
  BY <1>11, <1>12, <1>13, LoopKeeps
<1>15. w \in V /\ At0(w, Size)
  BY <1>1, <1>10, <1>14
<1>16. w.edge = {}
  <2>1. Cardinality(w.all) \in Nat /\ Cardinality(w.all) <= Size
    BY <1>8, <1>15, SizeIsNat
  <2>2. QED BY <1>1, <1>15, <2>1
<1>17. PICK all : all = w.all
  OBVIOUS
<1>18. /\ all \subseteq Under(G, n) /\ (n # NULL => n \in all)
       /\ \A m \in all, z \in Side : t.child[z][m] = NULL \/ t.child[z][m] \in all
  BY <1>15, <1>16, <1>17
<1>19. \A a \in all : G[a] \subseteq all
  <2> DEFINE Bad == {a \in all : ~(G[a] \subseteq all)}
  <2>1. SUFFICES ASSUME Bad # {} PROVE FALSE
    OBVIOUS
  <2>2. Bad \in SUBSET M
    BY <1>5, <1>18
  <2> HIDE DEF Bad
  <2>3. PICK a \in Bad : \A z \in Side : t.child[z][a] \notin Bad
    BY <2>1, <2>2, Lowest
  <2>4. a \in all /\ a \in M /\ ~(G[a] \subseteq all)
    BY <2>2, <2>3 DEF Bad
  <2>5. \A z \in Side : Under(G, t.child[z][a]) \subseteq all
    <3>1. TAKE z \in Side
    <3>2. t.child[z][a] # NULL => t.child[z][a] \in all
      BY <1>18, <2>4
    <3>3. t.child[z][a] # NULL => G[t.child[z][a]] \subseteq all
      BY <2>3, <3>2 DEF Bad
    <3>4. QED BY <3>3 DEF Under
  <2>6. G[a] = {a} \cup Under(G, t.child["left"][a]) \cup Under(G, t.child["right"][a])
    <3>1. ChildAt(t, M, G, a, "left")
      BY <1>5, <2>4, Sides
    <3>2. QED BY <3>1, Sides DEF ChildAt
  <2>7. QED BY <2>4, <2>5, <2>6, Sides
<1>20. all = Under(G, n)
  BY <1>18, <1>19 DEF Under
<1>21. QED BY <1>2, <1>13, <1>17, <1>20

\* The black nodes on the way up from where a way down ends.
LEMMA BlacksCounted ==
  ASSUME NEW t, NEW M, NEW G, Formed(t, M, G), NEW D, Balanced(t, M, D, NULL, "left"),
         NEW n \in M, NEW z \in Side, t.child[z][n] = NULL
  PROVE  Blacks(t, n) = D[t.root]
<1> DEFINE V == [at : Link, count : Nat]
           Up == [s \in V |->
             IF s.at = NULL THEN s
             ELSE [at |-> t.parent[s.at], count |-> s.count + IF t.red[s.at] THEN 0 ELSE 1]]
           start == [at |-> n, count |-> 0]
           At0(s, i) == /\ s.at = NULL => s.count = D[t.root]
                        /\ s.at # NULL => /\ s.at \in M
                                          /\ D[s.at] = s.count + Weight(t, s.at)
                                          /\ Cardinality(G[s.at]) >= i + 1
           Good == [i \in 0..Size |-> {s \in V : At0(s, i)}]
<1>1. Size \in Nat /\ 0 \in 0..Size /\ Size \in 0..Size
  BY SizeIsNat
<1>2. Blacks(t, n) = Loop(Up, start).count
  BY DEF Blacks
<1>3. ASSUME NEW s \in V
      PROVE  Up[s] = IF s.at = NULL THEN s
                     ELSE [at |-> t.parent[s.at], count |-> s.count + Weight(t, s.at)]
  BY DEF Weight
<1> HIDE DEF Up
<1>4. /\ M \subseteq Node
      /\ \A m \in M : /\ m # NULL /\ m \in Node /\ ParentAt(t, M, G, m, t.parent[m]) /\ G[m] \in SUBSET Node
                      /\ m \in G[m] /\ t.parent[m] \in Link
  <2>1. /\ M \subseteq Node /\ t \in Tree
        /\ \A m \in M : m # NULL /\ m \in Node /\ ParentAt(t, M, G, m, t.parent[m])
    BY Parents, Children
  <2>2. QED BY <2>1, TreeFields DEF ParentAt
<1>5. /\ \A m \in M, s \in Side : Height(D, t.child[s][m]) \in Nat
      /\ \A m \in M : Height(D, m) = D[m] /\ D[m] \in Nat
      /\ Height(D, NULL) = 0
  BY HeightIsNat
<1>6. \A m \in M, s \in Side : D[m] = Height(D, t.child[s][m]) + Weight(t, m)
  <2>1. \A m \in M, s \in Side : Hole(m, s, NULL, "left") = 0 /\ Weight(t, m) \in Nat
    BY <1>4 DEF Hole, Weight
  <2>2. QED BY <1>5, <2>1 DEF Balanced
<1>7. start \in V /\ start.at = n /\ start.count = 0
  BY <1>4 DEF Link
<1>8. \A s \in V : s.at \in Link /\ s.count \in Nat
  OBVIOUS
<1>9. \A a \in Link, c \in Nat : [at |-> a, count |-> c] \in V
  OBVIOUS
<1> HIDE DEF V, start
<1>10. \A i \in 0..Size : Good[i] = {s \in V : At0(s, i)}
  OBVIOUS
<1> HIDE DEF Good
<1>11. start \in Good[0]
  <2>1. {} \in SUBSET G[n] /\ {} # G[n] /\ G[n] \in SUBSET Node
    BY <1>4
  <2>2. Cardinality({}) + 1 <= Cardinality(G[n])
    BY <2>1, Smaller
  <2>3. Cardinality({}) \in Nat /\ Cardinality(G[n]) \in Nat
    BY <2>1, SizeIsNat
  <2>4. Cardinality(G[n]) >= 0 + 1
    BY <2>2, <2>3
  <2>5. D[n] = 0 + Weight(t, n)
    BY <1>5, <1>6
  <2>6. QED BY <1>1, <1>4, <1>7, <1>10, <2>4, <2>5
<1>12. ASSUME NEW i \in 1..Size, NEW s \in Good[i - 1] PROVE Up[s] \in Good[i]
  <2>1. i - 1 \in 0..Size /\ i \in 0..Size /\ i \in Nat
    BY <1>1
  <2>2. s \in V /\ At0(s, i - 1)
    BY <1>10, <2>1
  <2>3. CASE s.at = NULL
    <3>1. Up[s] = s /\ At0(s, i)
      BY <1>3, <2>2, <2>3
    <3>2. QED BY <1>10, <2>1, <2>2, <3>1
  <2>4. CASE s.at # NULL
    <3>1. PICK m, p : m = s.at /\ p = t.parent[m]
      OBVIOUS
    <3>2. PICK w : w = [at |-> p, count |-> s.count + Weight(t, m)]
      OBVIOUS
    <3>3. m \in M /\ D[m] = s.count + Weight(t, m) /\ Cardinality(G[m]) >= (i - 1) + 1
      BY <2>2, <2>4, <3>1
    <3>4. w.at = p /\ w.count = D[m] /\ p \in Link /\ D[m] \in Nat
      BY <1>4, <1>5, <3>1, <3>2, <3>3
    <3>5. w \in V /\ Up[s] = w
      BY <1>3, <1>9, <2>2, <2>4, <3>1, <3>2, <3>3, <3>4
    <3>6. ParentAt(t, M, G, m, p)
      BY <1>4, <3>1, <3>3
    <3>7. p = NULL => w.count = D[t.root]
      BY <3>4, <3>6 DEF ParentAt
    <3>8. ASSUME p # NULL
          PROVE  p \in M /\ D[p] = w.count + Weight(t, p) /\ Cardinality(G[p]) >= i + 1
      <4>1. /\ p \in M /\ \E y \in Side : t.child[y][p] = m
            /\ G[m] \in SUBSET G[p] /\ G[m] # G[p]
        BY <3>6, <3>8 DEF ParentAt
      <4>2. D[p] = D[m] + Weight(t, p)
        BY <1>5, <1>6, <3>3, <4>1
      <4>3. G[p] \in SUBSET Node
        BY <1>4, <4>1
      <4>4. Cardinality(G[m]) + 1 <= Cardinality(G[p])
        BY <4>1, <4>3, Smaller
      <4>5. Cardinality(G[m]) \in Nat /\ Cardinality(G[p]) \in Nat
        BY <4>1, <4>3, SizeIsNat
      <4>6. QED BY <2>1, <3>3, <3>4, <4>1, <4>2, <4>4, <4>5
    <3>9. At0(w, i)
      BY <3>4, <3>7, <3>8
    <3>10. QED BY <1>10, <2>1, <3>5, <3>9
  <2>5. QED BY <2>3, <2>4
<1>13. PICK w : w = Loop(Up, start)
  OBVIOUS
<1>14. w \in Good[Size]
  BY <1>11, <1>12, <1>13, LoopKeeps
<1>15. w \in V /\ At0(w, Size)
  BY <1>1, <1>10, <1>14
<1>16. w.at = NULL
  <2>1. SUFFICES ASSUME w.at # NULL PROVE FALSE
    OBVIOUS
  <2>2. w.at \in M /\ Cardinality(G[w.at]) >= Size + 1
    BY <1>15, <2>1
  <2>3. Cardinality(G[w.at]) \in Nat /\ Cardinality(G[w.at]) <= Size
    BY <1>4, <2>2, SizeIsNat
  <2>4. QED BY <1>1, <2>2, <2>3
<1>17. QED BY <1>2, <1>13, <1>15, <1>16

-------------------------------------------------------------------------------
(* A new leaf *)

\* What RB_SET writes.
LeafIsSet(t, r, elm, p) ==
  /\ r \in Tree /\ r.root = t.root
  /\ \A s \in Side, m \in Node : r.child[s][m] = IF m = elm THEN NULL ELSE t.child[s][m]
  /\ \A m \in Node : r.parent[m] = IF m = elm THEN p ELSE t.parent[m]
  /\ \A m \in Node : r.red[m] = IF m = elm THEN TRUE ELSE t.red[m]

\* RB_SET makes a node one without children, red and below the parent (nty_tree.h:308-312).
LEMMA LeafFields ==
  ASSUME NEW t \in Tree, NEW elm \in Node, NEW p \in Link,
         NEW r, r = [t EXCEPT !.parent[elm] = p, !.child["left"][elm] = NULL,
                              !.child["right"][elm] = NULL, !.red[elm] = TRUE]
  PROVE  LeafIsSet(t, r, elm, p)
<1>1. PICK a : a = SetParent(t, elm, p)
  OBVIOUS
<1>2. PICK b : b = SetChild(a, elm, "left", NULL)
  OBVIOUS
<1>3. PICK c : c = SetChild(b, elm, "right", NULL)
  OBVIOUS
<1>4. PICK d : d = [c EXCEPT !.red[elm] = TRUE]
  OBVIOUS
<1>5. elm # NULL /\ elm \in Link /\ NULL \in Link /\ "left" \in Side /\ "right" \in Side
      /\ \A s \in Side : s = "left" \/ s = "right"
  BY NullIsNoNode, Sides DEF Link, Side
<1>6. ParentIsSet(t, a, elm, p)
  BY <1>1, <1>5, SetParentFields
<1>7. ChildIsSet(a, b, elm, "left", NULL)
  <2>1. a \in Tree
    BY <1>6 DEF ParentIsSet
  <2>2. QED BY <1>2, <1>5, <2>1, SetChildFields
<1>8. ChildIsSet(b, c, elm, "right", NULL)
  <2>1. b \in Tree
    BY <1>7 DEF ChildIsSet
  <2>2. QED BY <1>3, <1>5, <2>1, SetChildFields
<1>9. ColorIsSet(c, d, elm, TRUE)
  <2>1. c \in Tree
    BY <1>8 DEF ChildIsSet
  <2>2. QED BY <1>4, <2>1, SetRedFields
<1>10. r = d
  BY <1>1, <1>2, <1>3, <1>4, <1>5 DEF SetParent, SetChild
<1>11. /\ a.root = t.root /\ a.child = t.child /\ a.red = t.red
       /\ \A m \in Node : a.parent[m] = IF m = elm THEN p ELSE t.parent[m]
  BY <1>6 DEF ParentIsSet
<1>12. /\ c.root = a.root /\ c.parent = a.parent /\ c.red = a.red
       /\ \A s \in Side, m \in Node : c.child[s][m] = IF m = elm THEN NULL ELSE a.child[s][m]
  BY <1>5, <1>7, <1>8 DEF ChildIsSet
<1>13. /\ d \in Tree /\ d.root = c.root /\ d.child = c.child /\ d.parent = c.parent
       /\ \A m \in Node : d.red[m] = IF m = elm THEN TRUE ELSE c.red[m]
  BY <1>9 DEF ColorIsSet, Recolored
<1>14. LeafIsSet(t, d, elm, p)
  <2>1. d \in Tree /\ d.root = t.root /\ d.child = c.child /\ d.parent = a.parent
    BY <1>11, <1>12, <1>13
  <2>2. \A s \in Side, m \in Node : d.child[s][m] = IF m = elm THEN NULL ELSE t.child[s][m]
    BY <1>11, <1>12, <2>1
  <2>3. \A m \in Node : d.parent[m] = IF m = elm THEN p ELSE t.parent[m]
    BY <1>11, <2>1
  <2>4. \A m \in Node : d.red[m] = IF m = elm THEN TRUE ELSE t.red[m]
    <3>1. c.red = t.red
      BY <1>11, <1>12
    <3>2. QED BY <1>13, <3>1
  <2>5. QED BY <2>1, <2>2, <2>3, <2>4 DEF LeafIsSet
<1>15. QED BY <1>10, <1>14

\* A tree with a leaf more, on the side z of p or as the root.
LeafLinked(t, r, elm, p, z) ==
  /\ r \in Tree
  /\ r.root = IF p = NULL THEN elm ELSE t.root
  /\ \A s \in Side, m \in Node : r.child[s][m] = IF m = elm THEN NULL
                                                 ELSE IF m = p /\ s = z THEN elm ELSE t.child[s][m]
  /\ \A m \in Node : r.parent[m] = IF m = elm THEN p ELSE t.parent[m]
  /\ \A m \in Node : r.red[m] = IF m = elm THEN TRUE ELSE t.red[m]

\* What is below each node with the leaf.
WithLeaf(G, elm, p) ==
  [n \in Node |-> IF n = elm THEN {elm} ELSE IF p \in G[n] THEN G[n] \cup {elm} ELSE G[n]]

\* A new leaf where it belongs makes a search tree of one node more.
LEMMA LeafFormed ==
  ASSUME NEW t, NEW M, NEW G, Formed(t, M, G), NEW elm \in Node, elm \notin M,
         \A x \in M : Key[x] # Key[elm], NEW p, NEW z \in Side,
         p = NULL => t.root = NULL,
         p # NULL => p \in M /\ t.child[z][p] = NULL /\ Before(z, elm, p),
         Belongs(t, M, G, elm, p), NEW r, LeafLinked(t, r, elm, p, z)
  PROVE  Formed(r, M \cup {elm}, WithLeaf(G, elm, p))
<1> DEFINE N == M \cup {elm}
           H == WithLeaf(G, elm, p)
<1>1. /\ r \in Tree
      /\ r.root = IF p = NULL THEN elm ELSE t.root
      /\ \A s \in Side, m \in Node : r.child[s][m] = IF m = elm THEN NULL
                                                     ELSE IF m = p /\ s = z THEN elm
                                                       ELSE t.child[s][m]
      /\ \A m \in Node : r.parent[m] = IF m = elm THEN p ELSE t.parent[m]
  BY DEF LeafLinked
<1>2. /\ M \subseteq Node /\ Under(G, t.root) = M /\ (t.root # NULL => t.root \in M)
      /\ \A n, m \in M : Key[n] = Key[m] => n = m
      /\ \A n \in M : FormedAt(t, M, G, n)
  BY DEF Formed
<1>3. \A m \in Node : H[m] = IF m = elm THEN {elm} ELSE IF p \in G[m] THEN G[m] \cup {elm} ELSE G[m]
  BY DEF WithLeaf
<1> HIDE DEF H
<1>4. elm # NULL /\ \A m \in M : m # NULL /\ m # elm /\ m \in Node
  BY <1>2, NullIsNoNode
<1>5. \A c : Under(H, c) = IF c = NULL THEN {} ELSE H[c]
  BY DEF Under
<1>6. /\ H[elm] = {elm} /\ Under(H, elm) = {elm} /\ Under(H, NULL) = {}
      /\ \A m \in M : H[m] = (IF p \in G[m] THEN G[m] \cup {elm} ELSE G[m]) /\ Under(H, m) = H[m]
  BY <1>3, <1>4, <1>5
<1>7. Under(H, r.root) = N /\ (r.root # NULL => r.root \in N)
  <2>1. CASE p = NULL
    <3>1. M = {}
      BY <1>2, <2>1 DEF Under
    <3>2. QED BY <1>1, <1>6, <2>1, <3>1
  <2>2. CASE p # NULL
    <3>1. r.root = t.root /\ t.root # NULL /\ t.root \in M /\ G[t.root] = M
      BY <1>1, <1>2, <2>2 DEF Under
    <3>2. H[t.root] = M \cup {elm} /\ Under(H, t.root) = H[t.root]
      BY <1>6, <2>2, <3>1
    <3>3. QED BY <3>1, <3>2
  <2>3. QED BY <2>1, <2>2
<1>8. \A n, m \in N : Key[n] = Key[m] => n = m
  BY <1>2
<1>9. FormedAt(r, N, H, elm)
  <2>1. \A s \in Side : r.child[s][elm] = NULL
    BY <1>1
  <2>2. r.parent[elm] = p
    BY <1>1
  <2>3. p # NULL => p \in N /\ elm # r.root /\ r.child[z][p] = elm
    BY <1>1, <1>2, <1>4, NullIsNoNode
  <2>4. p = NULL => elm = r.root
    BY <1>1
  <2>5. H[elm] = {elm} \cup Under(H, r.child["left"][elm]) \cup Under(H, r.child["right"][elm])
    BY <1>6, <2>1, Sides
  <2>6. QED BY <1>6, <2>1, <2>2, <2>3, <2>4, <2>5 DEF FormedAt
<1>10. ASSUME NEW n \in M PROVE FormedAt(r, N, H, n)
  <2>1. /\ G[n] \in SUBSET M
        /\ G[n] = {n} \cup Under(G, t.child["left"][n]) \cup Under(G, t.child["right"][n])
        /\ \A s \in Side :
             /\ t.child[s][n] = NULL \/ (t.child[s][n] \in M /\ t.parent[t.child[s][n]] = n)
             /\ \A m \in Under(G, t.child[s][n]) : Before(s, m, n)
        /\ t.parent[n] = NULL => n = t.root
        /\ t.parent[n] # NULL =>
             t.parent[n] \in M /\ n # t.root /\ \E s \in Side : t.child[s][t.parent[n]] = n
    BY <1>2 DEF FormedAt
  <2>2. n # NULL /\ n # elm /\ n \in Node /\ r.parent[n] = t.parent[n]
    BY <1>1, <1>4
  <2>3. \A s \in Side : r.child[s][n] = IF n = p /\ s = z THEN elm ELSE t.child[s][n]
    BY <1>1, <2>2
  <2>4. ASSUME NEW s \in Side
        PROVE  Under(H, r.child[s][n]) = Under(G, t.child[s][n]) \cup
                 (IF (n = p /\ s = z) \/ p \in Under(G, t.child[s][n]) THEN {elm} ELSE {})
    <3>1. CASE n = p /\ s = z
      BY <1>6, <2>2, <2>3, <3>1 DEF Under
    <3>2. CASE ~(n = p /\ s = z)
      <4>1. Under(H, t.child[s][n]) = Under(G, t.child[s][n]) \cup
              (IF p \in Under(G, t.child[s][n]) THEN {elm} ELSE {})
        BY <1>6, <2>1, <2>3 DEF Under
      <4>2. r.child[s][n] = t.child[s][n]
        BY <2>3, <3>2
      <4>3. QED BY <3>2, <4>1, <4>2, Zenon
    <3>3. QED BY <3>1, <3>2
  <2>5. n = p => \A s \in Side : p \notin Under(G, t.child[s][n])
    <3>1. \A s \in Side : ChildAt(t, M, G, n, s)
      BY At
    <3>2. QED BY <3>1 DEF ChildAt, Under
  <2>6. H[n] = {n} \cup Under(H, r.child["left"][n]) \cup Under(H, r.child["right"][n])
    <3>1. \A s \in Side : s = "left" \/ s = "right"
      BY DEF Side
    <3>2. CASE n = p
      <4>1. H[n] = G[n] \cup {elm}
        BY <1>6, <2>1, <3>2
      <4>2. z = "left" \/ z = "right"
        BY <3>1
      <4>3. Under(H, r.child[z][n]) = Under(G, t.child[z][n]) \cup {elm}
        BY <2>4, <3>2
      <4>4. \A s \in Side : s # z => Under(H, r.child[s][n]) = Under(G, t.child[s][n])
        BY <2>4, <2>5, <3>2, ZenonT(30)
      <4>5. QED BY <2>1, <4>1, <4>2, <4>3, <4>4, Sides
    <3>3. CASE n # p
      <4>1. p \in G[n] <=> p \in Under(G, t.child["left"][n]) \/ p \in Under(G, t.child["right"][n])
        BY <2>1, <3>3
      <4>2. H[n] = G[n] \cup (IF p \in G[n] THEN {elm} ELSE {})
        BY <1>6
      <4>3. \A s \in Side : Under(H, r.child[s][n]) = Under(G, t.child[s][n]) \cup
                                (IF p \in Under(G, t.child[s][n]) THEN {elm} ELSE {})
        BY <2>4, <3>3
      <4>4. \A x : x \in H[n] <=> \/ x = n
                                  \/ x \in Under(H, r.child["left"][n])
                                  \/ x \in Under(H, r.child["right"][n])
        BY <2>1, <4>1, <4>2, <4>3, Sides
      <4>5. QED BY <4>4
    <3>4. QED BY <3>2, <3>3
  <2>7. ASSUME NEW s \in Side
        PROVE  /\ r.child[s][n] = NULL \/ (r.child[s][n] \in N /\ r.parent[r.child[s][n]] = n)
               /\ \A m \in Under(H, r.child[s][n]) : Before(s, m, n)
    <3>1. r.child[s][n] = NULL \/ (r.child[s][n] \in N /\ r.parent[r.child[s][n]] = n)
      BY <1>1, <1>4, <2>1, <2>3
    <3>2. (n = p /\ s = z) \/ p \in Under(G, t.child[s][n]) => Before(s, elm, n)
      BY <2>2 DEF Belongs
    <3>3. QED BY <2>1, <2>4, <3>1, <3>2
  <2>8. H[n] \in SUBSET N
    BY <1>6, <2>1, ZenonT(30)
  <2>9. r.parent[n] = NULL => n = r.root
    BY <1>1, <2>1, <2>2
  <2>10. ASSUME r.parent[n] # NULL
         PROVE  r.parent[n] \in N /\ n # r.root /\ \E s \in Side : r.child[s][r.parent[n]] = n
    <3>1. t.parent[n] \in M /\ t.parent[n] \in Node /\ n # t.root
      BY <1>4, <2>1, <2>2, <2>10
    <3>2. PICK s \in Side : t.child[s][t.parent[n]] = n
      BY <2>1, <2>2, <2>10
    <3>3. r.child[s][t.parent[n]] = n
      BY <1>1, <1>4, <2>2, <3>1, <3>2
    <3>4. n # r.root
      BY <1>1, <2>2, <3>1
    <3>5. QED BY <2>2, <3>1, <3>3, <3>4
  <2>11. QED BY <2>6, <2>7, <2>8, <2>9, <2>10 DEF FormedAt
<1>11. N \in SUBSET Node
  BY <1>2
<1>12. \A n \in N : FormedAt(r, N, H, n)
  BY <1>9, <1>10
<1>13. Formed(r, N, H)
  BY <1>1, <1>7, <1>8, <1>11, <1>12 DEF Formed
<1>14. QED BY <1>13 DEF H

\* The new leaf, which is red, changes no black heights and makes red pairs only above it.
LEMMA LeafInserting ==
  ASSUME NEW t, NEW M, Sound(t, M), NEW G0, Formed(t, M, G0), NEW elm \in Node, elm \notin M,
         \A x \in M : Key[x] # Key[elm], NEW p, NEW z \in Side,
         p = NULL => t.root = NULL,
         p # NULL => p \in M /\ t.child[z][p] = NULL /\ Before(z, elm, p),
         \A G : Formed(t, M, G) => Belongs(t, M, G, elm, p), NEW r, LeafLinked(t, r, elm, p, z)
  PROVE  Inserting([tree |-> r, elm |-> elm], M \cup {elm}, 0)
<1>1. PICK G, D : /\ Formed(t, M, G)
                  /\ Balanced(t, M, D, NULL, "left")
                  /\ \A n \in M, s \in Side : ~RedPair(t, n, s)
                  /\ IsBlack(t, t.root)
  BY DEF Sound
<1>2. PICK H : H = WithLeaf(G, elm, p)
  OBVIOUS
<1>3. Formed(r, M \cup {elm}, H)
  BY <1>1, <1>2, LeafFormed
<1>4. /\ r.root = IF p = NULL THEN elm ELSE t.root
      /\ \A s \in Side, m \in Node : r.child[s][m] = IF m = elm THEN NULL
                                                     ELSE IF m = p /\ s = z THEN elm
                                                       ELSE t.child[s][m]
      /\ \A m \in Node : r.parent[m] = IF m = elm THEN p ELSE t.parent[m]
      /\ \A m \in Node : r.red[m] = IF m = elm THEN TRUE ELSE t.red[m]
  BY DEF LeafLinked
<1>5. /\ \A n \in M : n \in Node /\ n # NULL /\ n # elm
      /\ \A n \in M, s \in Side : t.child[s][n] = NULL \/ t.child[s][n] \in M
      /\ elm # NULL
  BY <1>1, Children, NullIsNoNode
<1>6. /\ \A n \in M, s \in Side : Height(D, t.child[s][n]) \in Nat
      /\ \A n \in M : Height(D, n) = D[n] /\ D[n] \in Nat
      /\ Height(D, NULL) = 0
  BY <1>1, HeightIsNat
<1> DEFINE E == [n \in Node |-> IF n = elm THEN 0 ELSE D[n]]
<1>7. E[elm] = 0 /\ \A n \in M : E[n] = D[n]
  BY <1>5
<1>8. Height(E, NULL) = 0 /\ Height(E, elm) = 0 /\ \A n \in M : Height(E, n) = Height(D, n)
  BY <1>5 DEF Height
<1> HIDE DEF E
<1>9. Balanced(r, M \cup {elm}, E, NULL, "left")
  <2>1. ASSUME NEW n \in M \cup {elm} PROVE E[n] \in Nat
    BY <1>6, <1>7
  <2>2. ASSUME NEW n \in M \cup {elm}, NEW s \in Side
        PROVE  E[n] = Height(E, r.child[s][n]) + Hole(n, s, NULL, "left") + Weight(r, n)
    <3>1. Hole(n, s, NULL, "left") = 0
      BY <1>5 DEF Hole
    <3>2. CASE n = elm
      <4>1. Weight(r, n) = 0 /\ r.child[s][n] = NULL
        BY <1>4, <3>2 DEF Weight
      <4>2. QED BY <1>7, <1>8, <3>1, <3>2, <4>1
    <3>3. CASE n \in M
      <4>1. Weight(r, n) = Weight(t, n)
        BY <1>4, <1>5, <3>3 DEF Weight
      <4>2. Height(E, r.child[s][n]) = Height(D, t.child[s][n])
        BY <1>4, <1>5, <1>6, <1>8, <3>3
      <4>3. D[n] = Height(D, t.child[s][n]) + Hole(n, s, NULL, "left") + Weight(t, n)
        BY <1>1, <3>3 DEF Balanced
      <4>4. QED BY <1>7, <3>3, <4>1, <4>2, <4>3
    <3>4. QED BY <3>2, <3>3
  <2>3. QED BY <2>1, <2>2 DEF Balanced
<1>10. ASSUME NEW n \in M \cup {elm}, NEW s \in Side, RedPair(r, n, s) PROVE r.child[s][n] = elm
  <2>1. SUFFICES ASSUME r.child[s][n] # elm PROVE FALSE
    OBVIOUS
  <2>2. r.child[s][n] # NULL /\ r.red[n] /\ r.red[r.child[s][n]]
    BY <1>10 DEF RedPair
  <2>3. n \in M /\ n # elm /\ n \in Node
    BY <1>4, <1>5, <2>2
  <2>4. r.child[s][n] = t.child[s][n] /\ t.child[s][n] \in M
    BY <1>4, <1>5, <2>1, <2>2, <2>3
  <2>5. RedPair(t, n, s)
    <3>1. r.red[n] = t.red[n] /\ r.red[t.child[s][n]] = t.red[t.child[s][n]]
      BY <1>4, <1>5, <2>3, <2>4
    <3>2. t.child[s][n] # NULL
      BY <2>2, <2>4
    <3>3. QED BY <2>2, <2>4, <3>1, <3>2 DEF RedPair
  <2>6. QED BY <1>1, <2>3, <2>5
<1>11. IsBlack(r, r.root) \/ r.root = elm
  <2>1. SUFFICES ASSUME p # NULL PROVE IsBlack(r, t.root)
    BY <1>4
  <2>2. t.root \in M
    BY <1>1, <2>1 DEF Formed, Under
  <2>3. QED BY <1>1, <1>4, <1>5, <2>2 DEF IsBlack, IsRed
<1>12. Cardinality(H[elm]) >= 0 + 1
  <2>1. {} \in SUBSET H[elm] /\ {} # H[elm] /\ H[elm] \in SUBSET Node
    BY <1>2 DEF WithLeaf
  <2>2. Cardinality({}) + 1 <= Cardinality(H[elm])
    BY <2>1, Smaller
  <2>3. Cardinality({}) \in Nat /\ Cardinality(H[elm]) \in Nat
    BY <2>1, SizeIsNat
  <2>4. QED BY <2>2, <2>3
<1>13. elm \in M \cup {elm} /\ r.red[elm]
  BY <1>4
<1>14. InsertingIn(r, elm, M \cup {elm}, 0, H, E)
  BY <1>3, <1>9, <1>10, <1>11, <1>12, <1>13 DEF InsertingIn
<1>15. QED BY <1>14 DEF Inserting

\* An insertion of a new key keeps a red-black tree one.
LEMMA InsertedKeeps ==
  ASSUME NEW t, NEW M, Sound(t, M), NEW elm \in Node, elm \notin M, Walk(t, elm).at = NULL
  PROVE  Sound(Inserted(t, elm), M \cup {elm})
<1>1. PICK G : Formed(t, M, G)
  BY DEF Sound
<1>2. PICK w : w = Walk(t, elm)
  OBVIOUS
<1>3. PICK p : p = w.parent
  OBVIOUS
<1>4. PICK z : z = IF Cmp(elm, p) < 0 THEN "left" ELSE "right"
  OBVIOUS
<1>5. \A F : Formed(t, M, F) => WalkEnds(t, M, F, elm, w)
  BY <1>2, Walked
<1>6. \A F : Formed(t, M, F) => Belongs(t, M, F, elm, p)
  BY <1>2, <1>3, <1>5 DEF WalkEnds
<1>7. p \in Link /\ (\A x \in M : Key[x] # Key[elm]) /\ ParentOf(t, M, elm, NULL, p)
  BY <1>1, <1>2, <1>3, <1>5 DEF WalkEnds
<1>8. t \in Tree /\ M \subseteq Node /\ z \in Side /\ elm \in Link
  BY <1>1, <1>4, Sides DEF Formed, Link
<1>9. p = NULL => t.root = NULL
  BY <1>7 DEF ParentOf
<1>10. ASSUME p # NULL PROVE p \in M /\ t.child[z][p] = NULL /\ Before(z, elm, p)
  <2>1. PICK y \in Side : p \in M /\ NULL = t.child[y][p] /\ Before(y, elm, p)
    BY <1>7, <1>10 DEF ParentOf
  <2>2. p \in Node
    BY <1>8, <2>1
  <2>3. y = "left" => Cmp(elm, p) < 0
    BY <2>1, <2>2, Compared
  <2>4. y = "right" => ~(Cmp(elm, p) < 0)
    BY <2>1, <2>2, Compared
  <2>5. y = z
    BY <1>4, <2>3, <2>4 DEF Side
  <2>6. QED BY <2>1, <2>5
<1>11. PICK a : a = [t EXCEPT !.parent[elm] = p, !.child["left"][elm] = NULL,
                              !.child["right"][elm] = NULL, !.red[elm] = TRUE]
  OBVIOUS
<1>12. LeafIsSet(t, a, elm, p)
  BY <1>7, <1>8, <1>11, LeafFields, Zenon
<1>13. PICK r : r = IF p = NULL THEN [a EXCEPT !.root = elm] ELSE SetChild(a, p, z, elm)
  OBVIOUS
<1>14. Inserted(t, elm) = InsertColor(r, elm)
  BY <1>2, <1>3, <1>4, <1>11, <1>13 DEF Inserted
<1>15. LeafLinked(t, r, elm, p, z)
  <2>1. CASE p = NULL
    <3>1. a \in Tree
      BY <1>12 DEF LeafIsSet
    <3>2. r \in Tree /\ r.root = elm /\ r.child = a.child /\ r.parent = a.parent /\ r.red = a.red
      BY <1>8, <1>13, <2>1, <3>1 DEF Tree
    <3>3. /\ \A s \in Side, m \in Node : a.child[s][m] = IF m = elm THEN NULL ELSE t.child[s][m]
          /\ \A m \in Node : a.parent[m] = IF m = elm THEN p ELSE t.parent[m]
          /\ \A m \in Node : a.red[m] = IF m = elm THEN TRUE ELSE t.red[m]
      BY <1>12 DEF LeafIsSet
    <3>4. \A s \in Side, m \in Node : r.child[s][m] = IF m = elm THEN NULL
                                     ELSE IF m = p /\ s = z THEN elm ELSE t.child[s][m]
      BY <2>1, <3>2, <3>3, NullIsNoNode
    <3>5. r.red = a.red /\ \A m \in Node : r.red[m] = IF m = elm THEN TRUE ELSE t.red[m]
      BY <3>2, <3>3, Zenon
    <3>6. \A m \in Node : r.parent[m] = IF m = elm THEN p ELSE t.parent[m]
      BY <3>2, <3>3, ZenonT(30)
    <3>7. r.root = IF p = NULL THEN elm ELSE t.root
      BY <2>1, <3>2
    <3>8. QED BY <3>2, <3>4, <3>5, <3>6, <3>7, Zenon DEF LeafLinked
  <2>2. CASE p # NULL
    <3>1. a \in Tree /\ p \in Node /\ p # elm
      BY <1>8, <1>10, <1>12, <2>2 DEF LeafIsSet
    <3>2. ChildIsSet(a, r, p, z, elm)
      BY <1>8, <1>13, <2>2, <3>1, SetChildFields
    <3>3. /\ a.root = t.root
          /\ \A s \in Side, m \in Node : a.child[s][m] = IF m = elm THEN NULL ELSE t.child[s][m]
          /\ \A m \in Node : a.parent[m] = IF m = elm THEN p ELSE t.parent[m]
          /\ \A m \in Node : a.red[m] = IF m = elm THEN TRUE ELSE t.red[m]
      BY <1>12 DEF LeafIsSet
    <3>4. /\ r \in Tree /\ r.root = a.root /\ r.parent = a.parent /\ r.red = a.red
          /\ \A s \in Side, m \in Node : r.child[s][m] = IF s = z /\ m = p THEN elm
             ELSE a.child[s][m]
      BY <3>2 DEF ChildIsSet
    <3>5. \A s \in Side, m \in Node : r.child[s][m] = IF m = elm THEN NULL
                                     ELSE IF m = p /\ s = z THEN elm ELSE t.child[s][m]
      BY <3>1, <3>3, <3>4
    <3>6. QED BY <2>2, <3>3, <3>4, <3>5, ZenonT(30) DEF LeafLinked
  <2>3. QED BY <2>1, <2>2
<1>16. Inserting([tree |-> r, elm |-> elm], M \cup {elm}, 0)
  BY <1>1, <1>6, <1>7, <1>8, <1>9, <1>10, <1>15, LeafInserting
<1>17. r \in Tree
  BY <1>15 DEF LeafLinked
<1>18. QED BY <1>14, <1>16, <1>17, InsertColorKeeps

-------------------------------------------------------------------------------
(* Taking a node out *)

\* A tree of M from which a node has been taken, a red one or not: the node c, if any, is in
\* its place below p, and the black one that is missing is missing there.
ShortIn(t, M, red, p, c, G, D, hs) ==
  /\ Formed(t, M, G)
  /\ hs \in Side
  /\ Balanced(t, M, D, IF red THEN NULL ELSE p, hs)
  /\ \A n \in M, s \in Side : RedPair(t, n, s) => ~red /\ t.child[s][n] = c
  /\ IsBlack(t, t.root) \/ (~red /\ t.root = c)
  /\ c = NULL \/ c \in M
  /\ p = NULL => t.root = c
  /\ p # NULL => p \in M /\ t.child[hs][p] = c /\ c # t.root
Short(t, M, red, p, c) == \E G, D, hs : ShortIn(t, M, red, p, c, G, D, hs)

\* Without a red one the tree is a red-black tree as it is.
LEMMA ShortByRed ==
  ASSUME NEW t, NEW M, NEW p, NEW c, Short(t, M, TRUE, p, c)
  PROVE  Sound(t, M)
<1>1. PICK G, D, hs : ShortIn(t, M, TRUE, p, c, G, D, hs)
  BY Zenon DEF Short
<1>2. /\ Formed(t, M, G)
      /\ Balanced(t, M, D, NULL, hs)
      /\ \A n \in M, s \in Side : ~RedPair(t, n, s)
      /\ IsBlack(t, t.root)
  BY <1>1 DEF ShortIn
<1>3. Balanced(t, M, D, NULL, "left")
  <2>1. \A n \in M, s \in Side : Hole(n, s, NULL, hs) = Hole(n, s, NULL, "left")
    BY <1>2, NullIsNoNode DEF Hole, Formed
  <2>2. QED BY <1>2, <2>1 DEF Balanced
<1>4. QED BY <1>2, <1>3 DEF Sound

\* Without a black one it is a tree to color.
LEMMA ShortByBlack ==
  ASSUME NEW t, NEW M, NEW p, NEW c, Short(t, M, FALSE, p, c)
  PROVE  /\ Removing([tree |-> t, parent |-> p, elm |-> c], M, 0)
         /\ t \in Tree /\ p \in Link /\ c \in Link
<1>1. PICK G, D, hs : ShortIn(t, M, FALSE, p, c, G, D, hs)
  BY Zenon DEF Short
<1>2. /\ Formed(t, M, G)
      /\ hs \in Side
      /\ Balanced(t, M, D, p, hs)
      /\ \A n \in M, s \in Side : RedPair(t, n, s) => t.child[s][n] = c
      /\ IsBlack(t, t.root) \/ t.root = c
      /\ c = NULL \/ c \in M
      /\ p = NULL => t.root = c
      /\ p # NULL => p \in M /\ t.child[hs][p] = c /\ c # t.root
  BY <1>1 DEF ShortIn
<1>3. p = IF c = t.root THEN NULL ELSE p
  BY <1>2
<1>4. Balanced(t, M, D, IF c = t.root THEN NULL ELSE p, hs)
  BY <1>2, <1>3
<1>5. c = t.root \/ Cardinality(G[p]) >= 0 + 1
  <2>1. SUFFICES ASSUME c # t.root PROVE Cardinality(G[p]) >= 0 + 1
    OBVIOUS
  <2>2. p \in M
    BY <1>2, <2>1
  <2>3. NodeAt(t, M, G, p) /\ M \subseteq Node
    BY <1>2, <2>2, At DEF Formed
  <2>4. {} \in SUBSET G[p] /\ {} # G[p] /\ G[p] \in SUBSET Node
    BY <2>3 DEF NodeAt
  <2>5. Cardinality({}) + 1 <= Cardinality(G[p])
    BY <2>4, Smaller
  <2>6. Cardinality({}) \in Nat /\ Cardinality(G[p]) \in Nat
    BY <2>4, SizeIsNat
  <2>7. QED BY <2>5, <2>6
<1>6. RemovingIn(t, p, c, M, 0, G, D, hs)
  BY <1>2, <1>4, <1>5 DEF RemovingIn
<1>7. t \in Tree /\ p \in Link /\ c \in Link
  BY <1>2 DEF Formed, Link
<1>8. QED BY <1>6, <1>7 DEF Removing

\* What taking out a node writes.
UnlinkedIs(t, r, elm, c) ==
  /\ r \in Tree
  /\ r.root = IF t.parent[elm] = NULL THEN c ELSE t.root
  /\ r.red = t.red
  /\ \A m \in Node : r.parent[m] = IF m = c THEN t.parent[elm] ELSE t.parent[m]
  /\ \A s \in Side, m \in Node :
       r.child[s][m] = IF m = t.parent[elm] /\ s = SideOf(t, t.parent[elm], elm) THEN c
                       ELSE t.child[s][m]

\* Taking a node out assigns the links of its parent and its child (nty_tree.h:560-571).
LEMMA UnlinkedFields ==
  ASSUME NEW t \in Tree, NEW elm \in Node, NEW c \in Link
  PROVE  UnlinkedIs(t, Unlinked(t, elm, c), elm, c)
<1>1. PICK p : p = t.parent[elm]
  OBVIOUS
<1>2. p \in Link /\ elm \in Link
  BY <1>1, TreeFields DEF Link
<1>3. PICK a : a = SetParent(t, c, p)
  OBVIOUS
<1>4. ParentIsSet(t, a, c, p)
  BY <1>2, <1>3, SetParentFields
<1>5. a \in Tree /\ a.root = t.root /\ a.child = t.child /\ a.red = t.red
      /\ \A m \in Node : a.parent[m] = IF m = c THEN p ELSE t.parent[m]
  BY <1>4 DEF ParentIsSet
<1>6. PICK r : r = Relink(a, p, elm, c)
  OBVIOUS
<1>7. Relinked(a, r, p, elm, c)
  BY <1>2, <1>5, <1>6, RelinkFields
<1>8. SideOf(a, p, elm) = SideOf(t, p, elm)
  BY <1>5 DEF SideOf
<1>9. /\ r \in Tree
      /\ r.root = IF p = NULL THEN c ELSE t.root
      /\ r.parent = a.parent /\ r.red = t.red
      /\ \A s \in Side, m \in Node :
           r.child[s][m] = IF m = p /\ s = SideOf(t, p, elm) THEN c ELSE t.child[s][m]
  BY <1>5, <1>7, <1>8 DEF Relinked
<1>10. Unlinked(t, elm, c) = r
  BY <1>1, <1>3, <1>6 DEF Unlinked
<1>11. UnlinkedIs(t, r, elm, c)
  BY <1>1, <1>5, <1>9 DEF UnlinkedIs
<1>12. QED BY <1>10, <1>11

\* The links of the tree without elm form one of the other nodes.
LEMMA UnlinkedFormed ==
  ASSUME NEW t, NEW M, NEW G, Formed(t, M, G), NEW elm \in M, NEW o \in Side,
         t.child[o][elm] = NULL, NEW c, c = t.child[Other(o)][elm],
         NEW r, UnlinkedIs(t, r, elm, c)
  PROVE  Formed(r, M \ {elm}, [n \in Node |-> G[n] \ {elm}])
<1> DEFINE N == M \ {elm}
           H == [n \in Node |-> G[n] \ {elm}]
<1>1. PICK p, z : p = t.parent[elm] /\ z = SideOf(t, p, elm)
  OBVIOUS
<1>2. /\ r \in Tree
      /\ r.root = IF p = NULL THEN c ELSE t.root
      /\ \A m \in Node : r.parent[m] = IF m = c THEN p ELSE t.parent[m]
      /\ \A s \in Side, m \in Node :
           r.child[s][m] = IF m = p /\ s = z THEN c ELSE t.child[s][m]
  BY <1>1 DEF UnlinkedIs
<1>3. /\ M \subseteq Node /\ Under(G, t.root) = M /\ (t.root # NULL => t.root \in M)
      /\ \A n, m \in M : Key[n] = Key[m] => n = m
      /\ \A n \in M : FormedAt(t, M, G, n)
  BY DEF Formed
<1>4. /\ \A n \in M, s \in Side :
           /\ t.child[s][n] = NULL \/ t.child[s][n] \in M
           /\ t.child[s][n] \in M => /\ t.parent[t.child[s][n]] = n /\ t.child[s][n] # n
                                     /\ t.child[s][n] # t.child[Other(s)][n]
      /\ \A n \in M : n \in Node /\ n # NULL
  BY Children
<1>5. Other(o) \in Side /\ \A s \in Side : s = o \/ s = Other(o)
  BY Sides
<1>6. NodeAt(t, M, G, elm) /\ ChildAt(t, M, G, elm, Other(o)) /\ Other(Other(o)) = o
  BY <1>5, At, Sides
<1>7. /\ G[elm] = {elm} \cup Under(G, c) /\ elm \notin Under(G, c)
      /\ c # NULL => c \in M /\ c # elm /\ c # t.root /\ t.parent[c] = elm
      /\ p = NULL <=> elm = t.root
      /\ p # NULL => p \in M /\ t.child[z][p] = elm
  <2>1. G[elm] = {elm} \cup Under(G, c) \cup Under(G, NULL)
    BY <1>6 DEF ChildAt
  <2>2. QED BY <1>1, <1>6, <2>1 DEF ChildAt, NodeAt, Under
<1>8. z \in Side
  BY <1>1 DEF SideOf, Side
<1>9. \A n \in M, s \in Side : t.child[s][n] = elm <=> n = p /\ s = z
  <2>1. SUFFICES ASSUME NEW n \in M, NEW s \in Side, t.child[s][n] = elm PROVE n = p /\ s = z
    BY <1>4, <1>7
  <2>2. n = p
    BY <1>1, <1>4, <2>1
  <2>3. s = z
    <3>1. t.child[z][n] = elm
      BY <1>4, <1>7, <2>2
    <3>2. s = z \/ s = Other(z)
      BY <1>8, Sides
    <3>3. QED BY <1>4, <1>8, <2>1, <3>1, <3>2
  <2>4. QED BY <2>2, <2>3
<1>10. \A n \in Node : H[n] = G[n] \ {elm}
  OBVIOUS
<1> HIDE DEF H
<1>11. \A x : x = NULL \/ x \in M => Under(H, x) = Under(G, x) \ {elm}
  BY <1>4, <1>10 DEF Under
<1>12. Under(H, r.root) = N /\ (r.root # NULL => r.root \in N)
  <2>1. CASE p = NULL
    <3>1. M = G[elm]
      BY <1>3, <1>4, <1>7, <2>1 DEF Under
    <3>2. QED BY <1>2, <1>7, <1>11, <2>1, <3>1
  <2>2. CASE p # NULL
    <3>1. t.root # elm /\ r.root = t.root /\ t.root \in M
      BY <1>2, <1>3, <1>7, <2>2 DEF Under
    <3>2. QED BY <1>3, <1>11, <3>1
  <2>3. QED BY <2>1, <2>2
<1>13. ASSUME NEW n \in N PROVE FormedAt(r, N, H, n)
  <2>1. /\ G[n] \in SUBSET M
        /\ G[n] = {n} \cup Under(G, t.child["left"][n]) \cup Under(G, t.child["right"][n])
        /\ \A s \in Side :
             /\ t.child[s][n] = NULL \/ (t.child[s][n] \in M /\ t.parent[t.child[s][n]] = n)
             /\ \A m \in Under(G, t.child[s][n]) : Before(s, m, n)
        /\ t.parent[n] = NULL => n = t.root
        /\ t.parent[n] # NULL =>
             t.parent[n] \in M /\ n # t.root /\ \E s \in Side : t.child[s][t.parent[n]] = n
    BY <1>3 DEF FormedAt
  <2>2. n \in M /\ n # elm /\ n \in Node /\ n # NULL
    BY <1>4
  <2>3. \A s \in Side : r.child[s][n] = IF t.child[s][n] = elm THEN c ELSE t.child[s][n]
    BY <1>2, <1>9, <2>2
  <2>4. ASSUME NEW s \in Side
        PROVE  Under(H, r.child[s][n]) = Under(G, t.child[s][n]) \ {elm}
    <3>1. CASE t.child[s][n] = elm
      <4>1. Under(G, elm) = {elm} \cup Under(G, c)
        BY <1>4, <1>7 DEF Under
      <4>2. c = NULL \/ c \in M
        BY <1>7
      <4>3. QED BY <1>7, <1>11, <2>3, <3>1, <4>1, <4>2
    <3>2. CASE t.child[s][n] # elm
      BY <1>11, <2>1, <2>3, <3>2
    <3>3. QED BY <3>1, <3>2
  <2>5. H[n] = {n} \cup Under(H, r.child["left"][n]) \cup Under(H, r.child["right"][n])
    <3>1. H[n] = G[n] \ {elm}
      BY <1>10, <2>2
    <3>2. QED BY <2>1, <2>2, <2>4, <3>1, Sides
  <2>6. ASSUME NEW s \in Side
        PROVE  /\ r.child[s][n] = NULL \/ (r.child[s][n] \in N /\ r.parent[r.child[s][n]] = n)
               /\ \A m \in Under(H, r.child[s][n]) : Before(s, m, n)
    <3>1. CASE t.child[s][n] = elm
      <4>1. n = p /\ r.child[s][n] = c
        BY <1>9, <2>2, <2>3, <3>1
      <4>2. c # NULL => c \in N /\ r.parent[c] = n
        BY <1>2, <1>4, <1>7, <4>1
      <4>3. QED BY <2>1, <2>4, <4>1, <4>2
    <3>2. CASE t.child[s][n] # elm
      <4>1. r.child[s][n] = t.child[s][n]
        BY <2>3, <3>2
      <4>2. t.child[s][n] \in M => t.child[s][n] # c /\ t.child[s][n] \in Node
        BY <1>4, <1>7, <2>1, <2>2
      <4>3. QED BY <1>2, <2>1, <2>4, <3>2, <4>1, <4>2
    <3>3. QED BY <3>1, <3>2
  <2>7. H[n] \in SUBSET N
    BY <1>10, <2>1, <2>2
  <2>8. CASE n = c
    <3>1. r.parent[n] = p
      BY <1>2, <2>2, <2>8
    <3>2. p = NULL => n = r.root
      BY <1>2, <2>8
    <3>3. ASSUME p # NULL
          PROVE p \in N /\ n # r.root /\ \E s \in Side : r.child[s][p] = n
      <4>1. p \in M /\ p # elm /\ p \in Node
        BY <1>4, <1>7, <1>8, <3>3
      <4>2. n # r.root
        BY <1>2, <1>7, <2>2, <2>8, <3>3
      <4>3. r.child[z][p] = n
        BY <1>2, <1>8, <2>8, <4>1
      <4>4. QED BY <1>8, <4>1, <4>2, <4>3
    <3>4. QED BY <2>5, <2>6, <2>7, <3>1, <3>2, <3>3 DEF FormedAt
  <2>9. CASE n # c
    <3>1. r.parent[n] = t.parent[n]
      BY <1>2, <2>2, <2>9
    <3>2. t.parent[n] = NULL => n = r.root
      BY <1>2, <1>7, <2>1, <2>2
    <3>3. ASSUME t.parent[n] # NULL
          PROVE t.parent[n] \in N /\ n # r.root /\ \E s \in Side : r.child[s][t.parent[n]] = n
      <4>1. PICK s \in Side : t.child[s][t.parent[n]] = n
        BY <2>1, <3>3
      <4>2. t.parent[n] \in M /\ t.parent[n] \in Node /\ n # t.root
        BY <1>4, <2>1, <3>3
      <4>3. t.parent[n] # elm
        BY <1>5, <2>2, <2>9, <4>1
      <4>4. n # r.root
        BY <1>2, <2>9, <4>2
      <4>5. r.child[s][t.parent[n]] = n
        BY <1>2, <1>9, <2>2, <4>1, <4>2
      <4>6. QED BY <4>1, <4>2, <4>3, <4>4, <4>5
    <3>4. QED BY <2>5, <2>6, <2>7, <3>1, <3>2, <3>3 DEF FormedAt
  <2>10. QED BY <2>8, <2>9
<1>14. N \in SUBSET Node /\ \A n, m \in N : Key[n] = Key[m] => n = m
  BY <1>3
<1>15. Formed(r, N, H)
  BY <1>2, <1>12, <1>13, <1>14 DEF Formed
<1>16. QED BY <1>15 DEF H

\* Where a black node was taken out, a black one is missing.
LEMMA UnlinkedKeeps ==
  ASSUME NEW t, NEW M, Sound(t, M), NEW elm \in M, NEW o \in Side,
         t.child[o][elm] = NULL, NEW c, c = t.child[Other(o)][elm]
  PROVE  Short(Unlinked(t, elm, c), M \ {elm}, t.red[elm], t.parent[elm], c)
<1>1. PICK G, D : /\ Formed(t, M, G)
                  /\ Balanced(t, M, D, NULL, "left")
                  /\ \A n \in M, s \in Side : ~RedPair(t, n, s)
                  /\ IsBlack(t, t.root)
  BY DEF Sound
<1>2. PICK r : r = Unlinked(t, elm, c)
  OBVIOUS
<1>3. PICK p, z : p = t.parent[elm] /\ z = SideOf(t, p, elm)
  OBVIOUS
<1>4. /\ \A n \in M, s \in Side :
           /\ t.child[s][n] = NULL \/ t.child[s][n] \in M
           /\ t.child[s][n] \in M => /\ t.parent[t.child[s][n]] = n /\ t.child[s][n] # n
                                     /\ t.child[s][n] # t.child[Other(s)][n]
      /\ \A n \in M : n \in Node /\ n # NULL
      /\ t \in Tree /\ M \subseteq Node
  BY <1>1, Children
<1>5. Other(o) \in Side /\ z \in Side
  <2>1. z \in Side
    BY <1>3 DEF SideOf, Side
  <2>2. QED BY <2>1, Sides
<1>6. c = NULL \/ c \in M
  BY <1>4, <1>5
<1>7. UnlinkedIs(t, r, elm, c)
  <2>1. c \in Link
    BY <1>4, <1>6 DEF Link
  <2>2. QED BY <1>2, <1>4, <2>1, UnlinkedFields
<1>8. PICK H : Formed(r, M \ {elm}, H)
  BY <1>1, <1>7, UnlinkedFormed
<1>9. /\ r.root = IF p = NULL THEN c ELSE t.root
      /\ r.red = t.red
      /\ \A s \in Side, m \in Node : r.child[s][m] = IF m = p /\ s = z THEN c ELSE t.child[s][m]
  BY <1>3, <1>7 DEF UnlinkedIs
<1>10. ParentAt(t, M, G, elm, p) /\ ChildAt(t, M, G, elm, Other(o))
  BY <1>1, <1>3, <1>5, At, Parents
<1>11. /\ p = NULL <=> elm = t.root
       /\ p # NULL => p \in M /\ p # elm /\ t.child[z][p] = elm
       /\ c # NULL => c # elm /\ c # t.root
  BY <1>3, <1>10 DEF ParentAt, ChildAt
<1>12. \A n \in M, s \in Side : t.child[s][n] = elm <=> n = p /\ s = z
  <2>1. SUFFICES ASSUME NEW n \in M, NEW s \in Side, t.child[s][n] = elm PROVE n = p /\ s = z
    BY <1>4, <1>11
  <2>2. n = p
    BY <1>3, <1>4, <2>1
  <2>3. s = z
    <3>1. t.child[z][n] = elm
      BY <1>4, <1>11, <2>2
    <3>2. s = z \/ s = Other(z)
      BY <1>5, Sides
    <3>3. QED BY <1>4, <1>5, <2>1, <3>1, <3>2
  <2>4. QED BY <2>2, <2>3
<1>13. /\ \A n \in M, s \in Side : Height(D, t.child[s][n]) \in Nat
       /\ \A n \in M : Height(D, n) = D[n] /\ D[n] \in Nat
       /\ Height(D, NULL) = 0
  BY <1>1, HeightIsNat
<1>14. \A n \in M, s \in Side : D[n] = Height(D, t.child[s][n]) + Weight(t, n)
  <2>1. TAKE n \in M, s \in Side
  <2>2. D[n] = Height(D, t.child[s][n]) + Hole(n, s, NULL, "left") + Weight(t, n)
    BY <1>1 DEF Balanced
  <2>3. Hole(n, s, NULL, "left") = 0
    BY <1>4 DEF Hole
  <2>4. Weight(t, n) \in Nat
    BY DEF Weight
  <2>5. QED BY <1>13, <2>2, <2>3, <2>4
<1>15. D[elm] = Weight(t, elm) /\ Height(D, c) = 0
  <2>1. D[elm] = Height(D, NULL) + Weight(t, elm) /\ D[elm] = Height(D, c) + Weight(t, elm)
    BY <1>5, <1>14
  <2>2. Weight(t, elm) \in Nat /\ Height(D, c) \in Nat
    BY <1>5, <1>13 DEF Weight
  <2>3. QED BY <1>13, <2>1, <2>2
<1>16. Balanced(r, M \ {elm}, D, IF t.red[elm] THEN NULL ELSE p, z)
  <2> DEFINE hp == IF t.red[elm] THEN NULL ELSE p
  <2>1. ASSUME NEW n \in M \ {elm}, NEW s \in Side
        PROVE  D[n] = Height(D, r.child[s][n]) + Hole(n, s, hp, z) + Weight(r, n)
    <3>1. Weight(r, n) = Weight(t, n) /\ n \in Node /\ n # NULL
      BY <1>4, <1>9 DEF Weight
    <3>2. Height(D, t.child[s][n]) = Height(D, r.child[s][n]) + Hole(n, s, hp, z)
      <4>1. CASE t.child[s][n] = elm
        <5>1. n = p /\ s = z /\ r.child[s][n] = c
          BY <1>9, <1>12, <3>1, <4>1
        <5>2. Hole(n, s, hp, z) = Weight(t, elm)
          BY <3>1, <5>1 DEF Hole, Weight
        <5>3. Weight(t, elm) \in Nat
          BY DEF Weight
        <5>4. QED BY <1>13, <1>15, <4>1, <5>1, <5>2, <5>3
      <4>2. CASE t.child[s][n] # elm
        <5>1. r.child[s][n] = t.child[s][n] /\ Hole(n, s, hp, z) = 0
          BY <1>9, <1>12, <3>1, <4>2 DEF Hole
        <5>2. QED BY <1>13, <5>1
      <4>3. QED BY <4>1, <4>2
    <3>3. QED BY <1>14, <3>1, <3>2
  <2>2. QED BY <1>13, <2>1 DEF Balanced
<1>17. ASSUME NEW n \in M \ {elm}, NEW s \in Side, RedPair(r, n, s)
       PROVE  ~t.red[elm] /\ r.child[s][n] = c
  <2>1. r.child[s][n] # NULL /\ t.red[n] /\ t.red[r.child[s][n]] /\ n \in Node
    BY <1>4, <1>9, <1>17 DEF RedPair
  <2>2. t.child[s][n] = elm
    <3>1. SUFFICES ASSUME t.child[s][n] # elm PROVE FALSE
      OBVIOUS
    <3>2. r.child[s][n] = t.child[s][n]
      BY <1>9, <1>12, <2>1, <3>1
    <3>3. RedPair(t, n, s)
      BY <2>1, <3>2 DEF RedPair
    <3>4. QED BY <1>1, <3>3
  <2>3. n = p /\ s = z /\ r.child[s][n] = c
    BY <1>9, <1>12, <2>1, <2>2
  <2>4. ~t.red[elm]
    <3>1. SUFFICES ASSUME t.red[elm] PROVE RedPair(t, n, s)
      BY <1>1
    <3>2. QED BY <1>4, <2>1, <2>2, <3>1 DEF RedPair
  <2>5. QED BY <2>3, <2>4
<1>18. IsBlack(r, r.root) \/ (~t.red[elm] /\ r.root = c)
  <2>1. CASE p = NULL
    BY <1>1, <1>4, <1>9, <1>11, <2>1 DEF IsBlack, IsRed
  <2>2. CASE p # NULL
    BY <1>1, <1>9, <2>2 DEF IsBlack, IsRed
  <2>3. QED BY <2>1, <2>2
<1>19. /\ c = NULL \/ c \in M \ {elm}
       /\ p = NULL => r.root = c
       /\ p # NULL => p \in M \ {elm} /\ r.child[z][p] = c /\ c # r.root
  <2>1. p # NULL => t.root # NULL
    BY <1>1 DEF Formed, Under
  <2>2. QED BY <1>4, <1>5, <1>6, <1>9, <1>11, <2>1
<1>20. ShortIn(r, M \ {elm}, t.red[elm], p, c, H, D, z)
  BY <1>5, <1>8, <1>16, <1>17, <1>18, <1>19 DEF ShortIn
<1>21. QED BY <1>2, <1>3, <1>20 DEF Short

-------------------------------------------------------------------------------
(* A node in the place of another *)

Renamed(old, elm, n)   == IF n = old THEN elm ELSE n
RenamedBack(old, elm, n) == IF n = elm THEN old ELSE n

\* The links and colors of t with elm for old.
RenamedTree(t, r, M, old, elm) ==
  /\ r \in Tree
  /\ r.root = Renamed(old, elm, t.root)
  /\ \A m \in M : /\ r.parent[Renamed(old, elm, m)] = Renamed(old, elm, t.parent[m])
                  /\ r.red[Renamed(old, elm, m)] = t.red[m]
  /\ \A m \in M, s \in Side :
       r.child[s][Renamed(old, elm, m)] = Renamed(old, elm, t.child[s][m])

\* What elm is given.
Copied(t, r, old, elm) ==
  /\ r \in Tree /\ r.root = t.root
  /\ \A s \in Side, m \in Node :
       r.child[s][m] = IF m = elm THEN t.child[s][old] ELSE t.child[s][m]
  /\ \A m \in Node : r.parent[m] = IF m = elm THEN t.parent[old] ELSE t.parent[m]
  /\ \A m \in Node : r.red[m] = IF m = elm THEN t.red[old] ELSE t.red[m]

\* The fields of a node are copied to the one that replaces it (nty_tree.h:540-551).
LEMMA CopiedFields ==
  ASSUME NEW t \in Tree, NEW old \in Node, NEW elm \in Node, old # elm,
         NEW r, r = [t EXCEPT !.child["left"][elm] = t.child["left"][old],
                              !.child["right"][elm] = t.child["right"][old],
                              !.parent[elm] = t.parent[old], !.red[elm] = t.red[old]]
  PROVE  Copied(t, r, old, elm)
<1>1. PICK lc, rc, pp, rr : /\ lc = t.child["left"][old] /\ rc = t.child["right"][old]
                            /\ pp = t.parent[old] /\ rr = t.red[old]
  OBVIOUS
<1>2. lc \in Link /\ rc \in Link /\ pp \in Link /\ rr \in BOOLEAN
  BY <1>1, TreeFields, Sides
<1>3. PICK a : a = SetChild(t, elm, "left", lc)
  OBVIOUS
<1>4. PICK b : b = SetChild(a, elm, "right", rc)
  OBVIOUS
<1>5. PICK c : c = SetParent(b, elm, pp)
  OBVIOUS
<1>6. PICK d : d = [c EXCEPT !.red[elm] = rr]
  OBVIOUS
<1>7. elm # NULL /\ elm \in Link /\ "left" \in Side /\ "right" \in Side
      /\ \A s \in Side : s = "left" \/ s = "right"
  BY NullIsNoNode, Sides DEF Link, Side
<1>8. ChildIsSet(t, a, elm, "left", lc)
  BY <1>2, <1>3, <1>7, SetChildFields
<1>9. ChildIsSet(a, b, elm, "right", rc)
  <2>1. a \in Tree
    BY <1>8 DEF ChildIsSet
  <2>2. QED BY <1>2, <1>4, <1>7, <2>1, SetChildFields
<1>10. ParentIsSet(b, c, elm, pp)
  <2>1. b \in Tree
    BY <1>9 DEF ChildIsSet
  <2>2. QED BY <1>2, <1>5, <1>7, <2>1, SetParentFields
<1>11. ColorIsSet(c, d, elm, rr)
  <2>1. c \in Tree
    BY <1>10 DEF ParentIsSet
  <2>2. QED BY <1>2, <1>6, <2>1, SetRedFields
<1>12. r = d
  BY <1>1, <1>3, <1>4, <1>5, <1>6, <1>7 DEF SetParent, SetChild
<1>13. /\ b.root = t.root /\ b.parent = t.parent /\ b.red = t.red
       /\ \A s \in Side, m \in Node : b.child[s][m] =
            IF m = elm THEN IF s = "left" THEN lc ELSE rc ELSE t.child[s][m]
  BY <1>7, <1>8, <1>9 DEF ChildIsSet
<1>14. /\ c.root = b.root /\ c.child = b.child /\ c.red = b.red
       /\ \A m \in Node : c.parent[m] = IF m = elm THEN pp ELSE b.parent[m]
  BY <1>10 DEF ParentIsSet
<1>15. /\ d \in Tree /\ d.root = c.root /\ d.child = c.child /\ d.parent = c.parent
       /\ \A m \in Node : d.red[m] = IF m = elm THEN rr ELSE c.red[m]
  BY <1>11 DEF ColorIsSet, Recolored
<1>16. Copied(t, d, old, elm)
  <2>1. d \in Tree /\ d.root = t.root /\ d.child = b.child /\ d.parent = c.parent
    BY <1>13, <1>14, <1>15
  <2>2. \A s \in Side, m \in Node :
          d.child[s][m] = IF m = elm THEN t.child[s][old] ELSE t.child[s][m]
    BY <1>1, <1>7, <1>13, <2>1
  <2>3. \A m \in Node : d.parent[m] = IF m = elm THEN t.parent[old] ELSE t.parent[m]
    <3>1. b.parent = t.parent
      BY <1>13
    <3>2. QED BY <1>1, <1>14, <2>1, <3>1
  <2>4. \A m \in Node : d.red[m] = IF m = elm THEN t.red[old] ELSE t.red[m]
    <3>1. c.red = t.red
      BY <1>13, <1>14
    <3>2. QED BY <1>1, <1>15, <3>1
  <2>5. QED BY <2>1, <2>2, <2>3, <2>4 DEF Copied
<1>17. QED BY <1>12, <1>16

\* Replacing a node renames it.
LEMMA ReplacedFields ==
  ASSUME NEW t, NEW M, NEW G, Formed(t, M, G), NEW old \in M, NEW elm \in Node, elm \notin M
  PROVE  RenamedTree(t, Replaced(t, old, elm), M, old, elm)
<1>1. /\ \A n \in M, s \in Side :
           /\ t.child[s][n] = NULL \/ t.child[s][n] \in M
           /\ t.child[s][n] \in M => /\ t.parent[t.child[s][n]] = n /\ t.child[s][n] # n
                                     /\ t.child[s][n] # t.child[Other(s)][n]
      /\ \A n \in M : n \in Node /\ n # NULL
      /\ t \in Tree /\ M \subseteq Node
  BY Children
<1>2. /\ elm # NULL /\ elm # old /\ elm \in Link /\ old \in Link /\ old \in Node
      /\ "left" \in Side /\ "right" \in Side /\ \A s \in Side : s = "left" \/ s = "right"
  BY <1>1, NullIsNoNode, Sides DEF Link, Side
<1>3. PICK p, z : p = t.parent[old] /\ z = SideOf(t, p, old)
  OBVIOUS
<1>4. /\ p = NULL <=> old = t.root
      /\ p # NULL => p \in M /\ z \in Side /\ t.child[z][p] = old /\ p # old
  <2>1. ParentAt(t, M, G, old, p)
    BY <1>3, Parents
  <2>2. QED BY <1>3, <2>1 DEF ParentAt
<1>5. p \in Link
  BY <1>1, <1>4 DEF Link
<1>6. PICK a : a = [t EXCEPT !.child["left"][elm] = t.child["left"][old],
                             !.child["right"][elm] = t.child["right"][old],
                             !.parent[elm] = t.parent[old], !.red[elm] = t.red[old]]
  OBVIOUS
<1>7. Copied(t, a, old, elm)
  BY <1>1, <1>2, <1>6, CopiedFields, Zenon
<1>8. PICK b : b = Relink(a, p, old, elm)
  OBVIOUS
<1>9. PICK l, u : l = b.child["left"][old] /\ u = b.child["right"][old]
  BY Zenon
<1>10. PICK c : c = SetParent(b, l, elm)
  OBVIOUS
<1>11. PICK r : r = SetParent(c, u, elm)
  OBVIOUS
<1>12. r = Replaced(t, old, elm)
  BY <1>3, <1>6, <1>8, <1>9, <1>10, <1>11, Zenon DEF Replaced
<1>13. /\ a \in Tree /\ a.root = t.root
       /\ \A s \in Side, m \in Node :
            a.child[s][m] = IF m = elm THEN t.child[s][old] ELSE t.child[s][m]
       /\ \A m \in Node : a.parent[m] = IF m = elm THEN p ELSE t.parent[m]
       /\ \A m \in Node : a.red[m] = IF m = elm THEN t.red[old] ELSE t.red[m]
  BY <1>3, <1>7 DEF Copied
<1>14. Relinked(a, b, p, old, elm)
  BY <1>2, <1>5, <1>8, <1>13, RelinkFields
<1>15. p # NULL => SideOf(a, p, old) = z
  BY <1>1, <1>2, <1>3, <1>4, <1>13 DEF SideOf
<1>16. /\ b \in Tree /\ b.root = IF p = NULL THEN elm ELSE a.root
       /\ b.parent = a.parent /\ b.red = a.red
       /\ \A s \in Side, m \in Node :
            b.child[s][m] = IF m = p /\ s = z THEN elm ELSE a.child[s][m]
  <2>1. \A m \in Node : m = p => p # NULL
    BY NullIsNoNode
  <2>2. QED BY <1>14, <1>15, <2>1 DEF Relinked
<1>17. l = t.child["left"][old] /\ u = t.child["right"][old]
  BY <1>2, <1>4, <1>9, <1>13, <1>16, NullIsNoNode
<1>18. /\ l = NULL \/ l \in M
       /\ u = NULL \/ u \in M
       /\ l \in Link /\ u \in Link
  BY <1>1, <1>2, <1>17 DEF Link
<1>19. ParentIsSet(b, c, l, elm)
  BY <1>2, <1>10, <1>16, <1>18, SetParentFields
<1>20. ParentIsSet(c, r, u, elm)
  <2>1. c \in Tree
    BY <1>19 DEF ParentIsSet
  <2>2. QED BY <1>2, <1>11, <1>18, <2>1, SetParentFields
<1>21. /\ c.root = b.root /\ c.child = b.child /\ c.red = b.red
       /\ \A m \in Node : c.parent[m] = IF m = l THEN elm ELSE b.parent[m]
  BY <1>19 DEF ParentIsSet
<1>22. /\ r \in Tree /\ r.root = c.root /\ r.child = c.child /\ r.red = c.red
       /\ \A m \in Node : r.parent[m] = IF m = u THEN elm ELSE c.parent[m]
  BY <1>20 DEF ParentIsSet
<1>23. /\ r \in Tree /\ r.root = b.root /\ r.child = b.child /\ r.red = a.red
       /\ \A m \in Node : r.parent[m] = IF m = u \/ m = l THEN elm ELSE a.parent[m]
  BY <1>16, <1>21, <1>22
<1>24. r.root = Renamed(old, elm, t.root)
  BY <1>4, <1>13, <1>16, <1>23 DEF Renamed
<1>25. \A m \in M : m # elm /\ m \in Node
  BY <1>1
<1>26. ASSUME NEW m \in M
       PROVE  /\ r.parent[Renamed(old, elm, m)] = Renamed(old, elm, t.parent[m])
              /\ r.red[Renamed(old, elm, m)] = t.red[m]
  <2>1. CASE m = old
    <3>1. Renamed(old, elm, m) = elm /\ r.red[elm] = t.red[old]
      BY <1>2, <1>13, <1>23, <2>1 DEF Renamed
    <3>2. r.parent[elm] = p /\ Renamed(old, elm, p) = p
      <4>1. elm # u /\ elm # l
        BY <1>2, <1>18
      <4>2. r.parent[elm] = p
        BY <1>2, <1>13, <1>23, <4>1
      <4>3. p # old
        BY <1>1, <1>4
      <4>4. QED BY <4>2, <4>3 DEF Renamed
    <3>3. QED BY <1>3, <2>1, <3>1, <3>2
  <2>2. CASE m # old
    <3>1. Renamed(old, elm, m) = m /\ r.red[m] = t.red[m] /\ m # elm
      BY <1>13, <1>23, <1>25, <2>2 DEF Renamed
    <3>2. r.parent[m] = IF m = u \/ m = l THEN elm ELSE t.parent[m]
      BY <1>13, <1>23, <1>25
    <3>3. m = u \/ m = l <=> t.parent[m] = old
      <4>1. m = u \/ m = l => t.parent[m] = old
        BY <1>1, <1>2, <1>17
      <4>2. ASSUME t.parent[m] = old PROVE m = u \/ m = l
        <5>1. NodeAt(t, M, G, m)
          BY At
        <5>2. \E s \in Side : t.child[s][old] = m
          <6>1. old # NULL /\ SideOf(t, old, m) \in Side
            BY <1>1 DEF SideOf, Side
          <6>2. t.child[SideOf(t, old, m)][old] = m
            BY <4>2, <5>1, <6>1 DEF NodeAt
          <6>3. QED BY <6>1, <6>2
        <5>3. QED BY <1>2, <1>17, <5>2
      <4>3. QED BY <4>1, <4>2
    <3>4. QED BY <3>1, <3>2, <3>3 DEF Renamed
  <2>3. QED BY <2>1, <2>2
<1>27. ASSUME NEW m \in M, NEW s \in Side
       PROVE  r.child[s][Renamed(old, elm, m)] = Renamed(old, elm, t.child[s][m])
  <2>1. CASE m = old
    <3>1. Renamed(old, elm, m) = elm
      BY <2>1 DEF Renamed
    <3>2. r.child[s][elm] = t.child[s][old]
      <4>1. elm # p
        BY <1>2, <1>4, <1>25
      <4>2. QED BY <1>13, <1>16, <1>23, <4>1
    <3>3. t.child[s][old] # old
      BY <1>1, <1>2
    <3>4. QED BY <2>1, <3>1, <3>2, <3>3 DEF Renamed
  <2>2. CASE m # old
    <3>1. Renamed(old, elm, m) = m /\ m # elm /\ m # NULL
      BY <1>1, <1>25, <2>2 DEF Renamed
    <3>2. r.child[s][m] = IF m = p /\ s = z THEN elm ELSE t.child[s][m]
      BY <1>13, <1>16, <1>23, <1>25, <3>1
    <3>3. m = p /\ s = z <=> t.child[s][m] = old
      <4>1. m = p /\ s = z => t.child[s][m] = old
        BY <1>4, <3>1
      <4>2. ASSUME t.child[s][m] = old PROVE m = p /\ s = z
        <5>1. m = p
          BY <1>1, <1>3, <4>2
        <5>2. t.child[z][m] = old /\ z \in Side
          BY <1>4, <3>1, <5>1
        <5>3. s = z \/ s = Other(z)
          BY <5>2, Sides
        <5>4. QED BY <1>1, <4>2, <5>1, <5>2, <5>3
      <4>3. QED BY <4>1, <4>2
    <3>4. QED BY <3>1, <3>2, <3>3 DEF Renamed
  <2>3. QED BY <2>1, <2>2
<1>28. RenamedTree(t, r, M, old, elm)
  BY <1>23, <1>24, <1>26, <1>27 DEF RenamedTree
<1>29. QED BY <1>12, <1>28

\* What is below each node of the renamed tree.
RenamedBelow(G, N, old, elm) ==
  [n \in Node |-> {x \in N : RenamedBack(old, elm, x) \in G[RenamedBack(old, elm, n)]}]

\* Renaming keeps the order, if elm lies where old lay.
LEMMA RenamedFormed ==
  ASSUME NEW t, NEW M, NEW G, Formed(t, M, G), NEW old \in M, NEW elm \in Node, elm \notin M,
         \A x \in M, s \in Side : x # old /\ Before(s, x, old) => Before(s, x, elm),
         NEW r, RenamedTree(t, r, M, old, elm)
  PROVE  Formed(r, (M \ {old}) \cup {elm}, RenamedBelow(G, (M \ {old}) \cup {elm}, old, elm))
<1> DEFINE N == (M \ {old}) \cup {elm}
           H == RenamedBelow(G, N, old, elm)
           To(n) == Renamed(old, elm, n)
           Back(n) == RenamedBack(old, elm, n)
<1>1. /\ M \subseteq Node /\ Under(G, t.root) = M /\ (t.root # NULL => t.root \in M)
      /\ \A n, m \in M : Key[n] = Key[m] => n = m
      /\ \A n \in M : FormedAt(t, M, G, n)
  BY DEF Formed
<1>2. /\ r \in Tree
      /\ r.root = To(t.root)
      /\ \A m \in M : r.parent[To(m)] = To(t.parent[m])
      /\ \A m \in M, s \in Side : r.child[s][To(m)] = To(t.child[s][m])
  BY DEF RenamedTree
<1>3. elm # NULL /\ old # NULL /\ elm # old /\ \A m \in M : m # NULL /\ m # elm /\ m \in Node
  BY <1>1, NullIsNoNode
<1>4. /\ \A m \in M : To(m) \in N /\ To(m) # NULL /\ Back(To(m)) = m
      /\ \A x \in N : Back(x) \in M /\ To(Back(x)) = x /\ x \in Node
      /\ To(NULL) = NULL
      /\ \A m, k \in M \cup {NULL} : To(m) = To(k) => m = k
      /\ To(old) = elm /\ \A m \in M : m # old => To(m) = m
  BY <1>3 DEF Renamed, RenamedBack
<1>5. \A n \in Node : H[n] = {x \in N : Back(x) \in G[Back(n)]}
  BY DEF RenamedBelow
<1> HIDE DEF H, To, Back
<1>6. \A m \in M, s \in Side : t.child[s][m] = NULL \/ t.child[s][m] \in M
  BY <1>1 DEF FormedAt
<1>7. ASSUME NEW c \in M \cup {NULL}, NEW x
      PROVE x \in Under(H, To(c)) <=> x \in N /\ Back(x) \in Under(G, c)
  <2>1. CASE c = NULL
    BY <1>4, <2>1 DEF Under
  <2>2. CASE c \in M
    <3>1. To(c) \in N /\ To(c) # NULL /\ Back(To(c)) = c /\ To(c) \in Node /\ c # NULL
      BY <1>3, <1>4, <2>2
    <3>2. H[To(c)] = {y \in N : Back(y) \in G[c]}
      BY <1>5, <3>1
    <3>3. Under(H, To(c)) = H[To(c)] /\ Under(G, c) = G[c]
      BY <3>1 DEF Under
    <3>4. QED BY <3>2, <3>3
  <2>3. QED BY <2>1, <2>2
<1>8. Under(H, r.root) = N /\ (r.root # NULL => r.root \in N)
  <2>1. t.root \in M \cup {NULL}
    BY <1>1
  <2>2. \A x : x \in Under(H, To(t.root)) <=> x \in N
    BY <1>1, <1>4, <1>7, <2>1
  <2>3. QED BY <1>2, <1>4, <2>1, <2>2
<1>9. \A x \in M, s \in Side : x # old =>
        /\ Before(s, x, old) => Before(s, x, elm)
        /\ Before(s, old, x) => Before(s, elm, x)
  <2>1. TAKE x \in M, s \in Side
  <2>2. ASSUME x # old, Before(s, old, x) PROVE Before(s, elm, x)
    <3>1. Other(s) \in Side /\ x \in Node /\ old \in Node /\ Other(Other(s)) = s
      BY <1>3, Sides
    <3>2. Before(Other(s), x, old)
      BY <2>2, <3>1, Order
    <3>3. Before(Other(s), x, elm)
      BY <2>2, <3>1, <3>2
    <3>4. QED BY <3>1, <3>3, Order
  <2>3. QED BY <2>2
<1>10. ASSUME NEW x \in M, NEW m \in M, NEW s \in Side, Before(s, x, m)
       PROVE  Before(s, To(x), To(m))
  <2>1. x # m
    BY <1>3, <1>10, Order
  <2>2. QED BY <1>4, <1>9, <1>10, <2>1
<1>11. ASSUME NEW n \in N, NEW m \in N, Key[n] = Key[m] PROVE n = m
  <2>1. SUFFICES ASSUME n # m PROVE FALSE
    OBVIOUS
  <2>2. Back(n) \in M /\ Back(m) \in M /\ Back(n) # Back(m) /\ To(Back(n)) = n /\ To(Back(m)) = m
        /\ n \in Node /\ m \in Node
    BY <1>4, <2>1
  <2>3. Key[Back(n)] # Key[Back(m)] /\ Back(n) \in Node /\ Back(m) \in Node /\ "left" \in Side
    BY <1>1, <2>2, Sides
  <2>4. Before("left", Back(n), Back(m)) \/ Before("left", Back(m), Back(n))
    BY <2>3, Order
  <2>5. Before("left", n, m) \/ Before("left", m, n)
    BY <1>10, <2>2, <2>3, <2>4
  <2>6. QED BY <1>11, <2>2, <2>3, <2>5, Order
<1>12. ASSUME NEW m \in M PROVE FormedAt(r, N, H, To(m))
  <2>1. /\ G[m] \in SUBSET M
        /\ G[m] = {m} \cup Under(G, t.child["left"][m]) \cup Under(G, t.child["right"][m])
        /\ \A s \in Side :
             /\ t.child[s][m] = NULL \/ (t.child[s][m] \in M /\ t.parent[t.child[s][m]] = m)
             /\ \A x \in Under(G, t.child[s][m]) : Before(s, x, m)
        /\ t.parent[m] = NULL => m = t.root
        /\ t.parent[m] # NULL =>
             t.parent[m] \in M /\ m # t.root /\ \E s \in Side : t.child[s][t.parent[m]] = m
    BY <1>1 DEF FormedAt
  <2>2. To(m) \in N /\ To(m) # NULL /\ To(m) \in Node /\ Back(To(m)) = m
    BY <1>4
  <2>3. H[To(m)] \in SUBSET N /\ \A x : x \in H[To(m)] <=> x \in N /\ Back(x) \in G[m]
    BY <1>5, <2>2
  <2>4. \A s \in Side : /\ r.child[s][To(m)] = To(t.child[s][m])
                        /\ t.child[s][m] \in M \cup {NULL}
    BY <1>2, <1>6
  <2>5. \A s \in Side : \A x : x \in Under(H, r.child[s][To(m)]) <=>
                                 x \in N /\ Back(x) \in Under(G, t.child[s][m])
    BY <1>7, <2>4
  <2>6. H[To(m)] = {To(m)} \cup Under(H, r.child["left"][To(m)])
                           \cup Under(H, r.child["right"][To(m)])
    <3>1. \A x \in N : Back(x) = m <=> x = To(m)
      BY <1>4
    <3>2. \A x : x \in H[To(m)] <=> \/ x = To(m)
                                    \/ x \in Under(H, r.child["left"][To(m)])
                                    \/ x \in Under(H, r.child["right"][To(m)])
      BY <2>1, <2>2, <2>3, <2>5, <3>1, Sides
    <3>3. QED BY <3>2
  <2>7. ASSUME NEW s \in Side
        PROVE  /\ r.child[s][To(m)] = NULL \/ (r.child[s][To(m)] \in N /\ r.parent[r.child[s][To(m)]] = To(m))
               /\ \A x \in Under(H, r.child[s][To(m)]) : Before(s, x, To(m))
    <3>1. CASE t.child[s][m] = NULL
      BY <1>4, <2>4, <2>5, <3>1 DEF Under
    <3>2. CASE t.child[s][m] \in M
      <4>1. r.child[s][To(m)] \in N /\ r.parent[r.child[s][To(m)]] = To(m)
        <5>1. t.parent[t.child[s][m]] = m
          BY <1>3, <2>1, <3>2
        <5>2. QED BY <1>2, <1>4, <2>4, <3>2, <5>1
      <4>2. ASSUME NEW x \in Under(H, r.child[s][To(m)]) PROVE Before(s, x, To(m))
        <5>1. x \in N /\ Back(x) \in Under(G, t.child[s][m])
          BY <2>5
        <5>2. Before(s, Back(x), m) /\ Back(x) \in M /\ To(Back(x)) = x
          BY <1>4, <2>1, <5>1
        <5>3. QED BY <1>10, <5>2
      <4>3. QED BY <4>1, <4>2
    <3>3. QED BY <2>4, <3>1, <3>2
  <2>8. r.parent[To(m)] = To(t.parent[m])
    BY <1>2
  <2>9. CASE t.parent[m] = NULL
    <3>1. r.parent[To(m)] = NULL /\ To(m) = r.root
      BY <1>2, <1>4, <2>1, <2>8, <2>9
    <3>2. QED BY <2>3, <2>6, <2>7, <3>1 DEF FormedAt
  <2>10. CASE t.parent[m] # NULL
    <3>1. t.parent[m] \in M /\ m # t.root /\ t.root \in M \cup {NULL}
      BY <1>1, <2>1, <2>10
    <3>2. PICK s \in Side : t.child[s][t.parent[m]] = m
      BY <2>1, <2>10
    <3>3. r.parent[To(m)] \in N /\ r.parent[To(m)] # NULL /\ r.child[s][r.parent[To(m)]] = To(m)
      BY <1>2, <1>4, <2>8, <3>1, <3>2
    <3>4. To(m) # r.root
      BY <1>2, <1>4, <3>1
    <3>5. QED BY <2>3, <2>6, <2>7, <3>2, <3>3, <3>4 DEF FormedAt
  <2>11. QED BY <2>9, <2>10
<1>13. \A n \in N : FormedAt(r, N, H, n)
  BY <1>4, <1>12
<1>14. N \in SUBSET Node
  BY <1>1
<1>15. Formed(r, N, H)
  BY <1>2, <1>8, <1>11, <1>13, <1>14 DEF Formed
<1>16. QED BY <1>15 DEF H

\* The tree that misses a node misses the same one when it is renamed.
LEMMA ReplacedKeeps ==
  ASSUME NEW t, NEW M, NEW red, NEW p, NEW c, Short(t, M, red, p, c),
         NEW old \in M, NEW elm \in Node, elm \notin M, c # old,
         \A x \in M, s \in Side : x # old /\ Before(s, x, old) => Before(s, x, elm)
  PROVE  Short(Replaced(t, old, elm), (M \ {old}) \cup {elm}, red, Renamed(old, elm, p), c)
<1> DEFINE N == (M \ {old}) \cup {elm}
           To(n) == Renamed(old, elm, n)
           Back(n) == RenamedBack(old, elm, n)
<1>1. PICK G, D, hs : ShortIn(t, M, red, p, c, G, D, hs)
  BY DEF Short
<1>2. /\ Formed(t, M, G)
      /\ hs \in Side
      /\ Balanced(t, M, D, IF red THEN NULL ELSE p, hs)
      /\ \A n \in M, s \in Side : RedPair(t, n, s) => ~red /\ t.child[s][n] = c
      /\ IsBlack(t, t.root) \/ (~red /\ t.root = c)
      /\ c = NULL \/ c \in M
      /\ p = NULL => t.root = c
      /\ p # NULL => p \in M /\ t.child[hs][p] = c /\ c # t.root
  BY <1>1 DEF ShortIn
<1>3. PICK r : r = Replaced(t, old, elm)
  OBVIOUS
<1>4. RenamedTree(t, r, M, old, elm)
  BY <1>2, <1>3, ReplacedFields
<1>5. PICK H : Formed(r, N, H)
  BY <1>2, <1>4, RenamedFormed
<1>6. /\ r.root = To(t.root)
      /\ \A m \in M : r.red[To(m)] = t.red[m]
      /\ \A m \in M, s \in Side : r.child[s][To(m)] = To(t.child[s][m])
  BY <1>4 DEF RenamedTree
<1>7. /\ \A n \in M, s \in Side : t.child[s][n] \in M \cup {NULL}
      /\ \A n \in M : n \in Node /\ n # NULL /\ n # elm
      /\ t.root \in M \cup {NULL} /\ elm # NULL /\ elm # old /\ old # NULL
  BY <1>2, Children, NullIsNoNode, SMTT(30) DEF Formed
<1>8. /\ \A m \in M : To(m) \in N /\ To(m) # NULL /\ Back(To(m)) = m
      /\ \A x \in N : Back(x) \in M /\ To(Back(x)) = x /\ x \in Node /\ x # NULL
      /\ To(NULL) = NULL /\ To(c) = c
      /\ \A m, k \in M \cup {NULL} : To(m) = To(k) => m = k
  BY <1>7 DEF Renamed, RenamedBack
<1> HIDE DEF To, Back
<1>9. /\ \A n \in M, s \in Side : Height(D, t.child[s][n]) \in Nat
      /\ \A n \in M : Height(D, n) = D[n] /\ D[n] \in Nat
      /\ Height(D, NULL) = 0
  BY <1>2, HeightIsNat
<1> DEFINE E == [n \in Node |-> D[Back(n)]]
           hp == IF red THEN NULL ELSE p
<1>10. \A n \in N : E[n] = D[Back(n)]
  BY <1>8
<1> HIDE DEF E
<1>11. \A k \in M \cup {NULL} : Height(E, To(k)) = Height(D, k)
  <2>1. TAKE k \in M \cup {NULL}
  <2>2. CASE k = NULL
    BY <1>8, <2>2 DEF Height
  <2>3. CASE k \in M
    <3>1. To(k) \in N /\ To(k) # NULL /\ Back(To(k)) = k /\ k # NULL
      BY <1>7, <1>8, <2>3
    <3>2. QED BY <1>10, <3>1 DEF Height
  <2>4. QED BY <2>2, <2>3
<1>12. hp \in M \cup {NULL} /\ To(hp) = IF red THEN NULL ELSE To(p)
  BY <1>2, <1>8
<1>13. Balanced(r, N, E, IF red THEN NULL ELSE To(p), hs)
  <2>1. ASSUME NEW n \in N, NEW s \in Side
        PROVE  E[n] = Height(E, r.child[s][n]) + Hole(n, s, To(hp), hs) + Weight(r, n)
    <3>1. PICK m : m = Back(n)
      OBVIOUS
    <3>2. m \in M /\ To(m) = n
      BY <1>8, <3>1
    <3>3. D[m] = Height(D, t.child[s][m]) + Hole(m, s, hp, hs) + Weight(t, m)
      BY <1>2, <3>2 DEF Balanced
    <3>4. Height(E, r.child[s][n]) = Height(D, t.child[s][m])
      BY <1>6, <1>7, <1>11, <3>2
    <3>5. Hole(n, s, To(hp), hs) = Hole(m, s, hp, hs)
      <4>1. n = To(hp) <=> m = hp
        BY <1>8, <1>12, <3>2
      <4>2. QED BY <4>1 DEF Hole
    <3>6. Weight(r, n) = Weight(t, m)
      BY <1>6, <3>2 DEF Weight
    <3>7. QED BY <1>10, <3>1, <3>3, <3>4, <3>5, <3>6
  <2>2. \A n \in N : E[n] \in Nat
    BY <1>8, <1>9, <1>10
  <2>3. Balanced(r, N, E, To(hp), hs)
    BY <2>1, <2>2 DEF Balanced
  <2>4. QED BY <1>12, <2>3
<1>14. ASSUME NEW n \in N, NEW s \in Side, RedPair(r, n, s) PROVE ~red /\ r.child[s][n] = c
  <2>1. PICK m : m = Back(n)
    OBVIOUS
  <2>2. m \in M /\ To(m) = n
    BY <1>8, <2>1
  <2>3. r.child[s][n] = To(t.child[s][m]) /\ t.child[s][m] \in M \cup {NULL}
    BY <1>6, <1>7, <2>2
  <2>4. r.child[s][n] # NULL /\ r.red[n] /\ r.red[r.child[s][n]]
    BY <1>14 DEF RedPair
  <2>5. t.child[s][m] # NULL /\ t.child[s][m] \in M
    BY <1>8, <2>3, <2>4
  <2>6. t.red[m] /\ t.red[t.child[s][m]]
    BY <1>6, <2>2, <2>3, <2>4, <2>5
  <2>7. RedPair(t, m, s)
    BY <2>5, <2>6 DEF RedPair
  <2>8. QED BY <1>2, <1>8, <2>2, <2>3, <2>7
<1>15. IsBlack(r, r.root) \/ (~red /\ r.root = c)
  <2>1. CASE IsBlack(t, t.root)
    <3>1. CASE t.root = NULL
      BY <1>6, <1>8, <3>1 DEF IsBlack, IsRed
    <3>2. CASE t.root \in M
      <4>1. ~t.red[t.root]
        BY <1>7, <2>1, <3>2 DEF IsBlack, IsRed
      <4>2. QED BY <1>6, <3>2, <4>1 DEF IsBlack, IsRed
    <3>3. QED BY <1>7, <3>1, <3>2
  <2>2. CASE ~red /\ t.root = c
    BY <1>6, <1>8, <2>2
  <2>3. QED BY <1>2, <2>1, <2>2
<1>16. c = NULL \/ c \in N
  BY <1>2
<1>17. To(p) = NULL => r.root = c
  BY <1>2, <1>6, <1>8
<1>18. To(p) # NULL => To(p) \in N /\ r.child[hs][To(p)] = c /\ c # r.root
  <2>1. SUFFICES ASSUME p # NULL PROVE To(p) \in N /\ r.child[hs][To(p)] = c /\ c # r.root
    BY <1>8
  <2>2. p \in M /\ t.child[hs][p] = c /\ c # t.root
    BY <1>2, <2>1
  <2>3. To(p) \in N /\ r.child[hs][To(p)] = c
    BY <1>2, <1>6, <1>8, <2>2
  <2>4. c # r.root
    <3>1. c \in M \cup {NULL}
      BY <1>2
    <3>2. To(c) # To(t.root)
      BY <1>7, <1>8, <2>2, <3>1
    <3>3. QED BY <1>6, <1>8, <3>2
  <2>5. QED BY <2>3, <2>4
<1>19. ShortIn(r, N, red, To(p), c, H, E, hs)
  BY <1>2, <1>5, <1>13, <1>14, <1>15, <1>16, <1>17, <1>18 DEF ShortIn
<1>20. Short(r, N, red, To(p), c)
  BY <1>19 DEF Short
<1>21. QED BY <1>3, <1>20 DEF To

-------------------------------------------------------------------------------
(* Removal *)

\* A tree with other fields of a node only.
Elsewhere(t, r, n) ==
  /\ r \in Tree /\ r.root = t.root
  /\ \A s \in Side, m \in Node : m # n => r.child[s][m] = t.child[s][m]
  /\ \A m \in Node : m # n => r.parent[m] = t.parent[m] /\ r.red[m] = t.red[m]

\* What a removed node holds afterwards is written to that node only.
LEMMA ForgottenFields ==
  ASSUME NEW t \in Tree, NEW n \in Node
  PROVE  Elsewhere(t, Forgotten(t, n), n)
<1>1. PICK a : a = SetChild(t, n, "left", n)
  OBVIOUS
<1>2. PICK b : b = SetChild(a, n, "right", n)
  OBVIOUS
<1>3. PICK c : c = SetParent(b, n, n)
  OBVIOUS
<1>4. PICK d : d = [c EXCEPT !.red[n] = FALSE]
  OBVIOUS
<1>5. n # NULL /\ n \in Link /\ "left" \in Side /\ "right" \in Side
  BY NullIsNoNode, Sides DEF Link
<1>6. ChildIsSet(t, a, n, "left", n)
  BY <1>1, <1>5, SetChildFields
<1>7. ChildIsSet(a, b, n, "right", n)
  <2>1. a \in Tree
    BY <1>6 DEF ChildIsSet
  <2>2. QED BY <1>2, <1>5, <2>1, SetChildFields
<1>8. ParentIsSet(b, c, n, n)
  <2>1. b \in Tree
    BY <1>7 DEF ChildIsSet
  <2>2. QED BY <1>3, <1>5, <2>1, SetParentFields
<1>9. ColorIsSet(c, d, n, FALSE)
  <2>1. c \in Tree
    BY <1>8 DEF ParentIsSet
  <2>2. QED BY <1>4, <2>1, SetRedFields
<1>10. Forgotten(t, n) = d
  BY <1>1, <1>2, <1>3, <1>4, <1>5 DEF Forgotten, SetParent, SetChild
<1>11. /\ b.root = t.root /\ b.parent = t.parent /\ b.red = t.red
       /\ \A s \in Side, m \in Node : m # n => b.child[s][m] = t.child[s][m]
  BY <1>6, <1>7 DEF ChildIsSet
<1>12. /\ c.root = b.root /\ c.child = b.child /\ c.red = b.red
       /\ \A m \in Node : m # n => c.parent[m] = b.parent[m]
  BY <1>8 DEF ParentIsSet
<1>13. /\ d \in Tree /\ d.root = c.root /\ d.child = c.child /\ d.parent = c.parent
       /\ \A m \in Node : m # n => d.red[m] = c.red[m]
  BY <1>9 DEF ColorIsSet, Recolored
<1>14. Elsewhere(t, d, n)
  <2>1. d \in Tree /\ d.root = t.root /\ d.child = b.child /\ d.parent = c.parent
    BY <1>11, <1>12, <1>13
  <2>2. \A s \in Side, m \in Node : m # n => d.child[s][m] = t.child[s][m]
    BY <1>11, <2>1
  <2>3. \A m \in Node : m # n => d.parent[m] = t.parent[m]
    <3>1. b.parent = t.parent
      BY <1>11
    <3>2. QED BY <1>12, <2>1, <3>1
  <2>4. \A m \in Node : m # n => d.red[m] = t.red[m]
    <3>1. c.red = t.red
      BY <1>11, <1>12
    <3>2. QED BY <1>13, <3>1
  <2>5. QED BY <2>1, <2>2, <2>3, <2>4 DEF Elsewhere
<1>15. QED BY <1>10, <1>14

\* The fields of a node that is not in the tree do not matter.
LEMMA ForgottenKeeps ==
  ASSUME NEW t, NEW M, Sound(t, M), NEW n \in Node, n \notin M
  PROVE  Sound(Forgotten(t, n), M)
<1>1. PICK G, D : /\ Formed(t, M, G)
                  /\ Balanced(t, M, D, NULL, "left")
                  /\ \A m \in M, s \in Side : ~RedPair(t, m, s)
                  /\ IsBlack(t, t.root)
  BY DEF Sound
<1>2. PICK r : r = Forgotten(t, n)
  OBVIOUS
<1>3. /\ t \in Tree /\ M \in SUBSET Node
      /\ Under(G, t.root) = M
      /\ t.root # NULL => t.root \in M
      /\ \A k, m \in M : Key[k] = Key[m] => k = m
      /\ \A m \in M : FormedAt(t, M, G, m)
  BY <1>1 DEF Formed
<1>4. Elsewhere(t, r, n)
  BY <1>2, <1>3, ForgottenFields
<1>5. /\ r \in Tree /\ r.root = t.root
      /\ \A m \in M : m # n /\ m \in Node
      /\ \A s \in Side, m \in M : r.child[s][m] = t.child[s][m]
      /\ \A m \in M : r.parent[m] = t.parent[m] /\ r.red[m] = t.red[m]
  BY <1>3, <1>4 DEF Elsewhere
<1>6. \A s \in Side, m \in M : t.child[s][m] = NULL \/ t.child[s][m] \in M
  BY <1>1, Children
<1>7. ASSUME NEW m \in M PROVE FormedAt(r, M, G, m)
  <2>1. /\ G[m] \in SUBSET M
        /\ G[m] = {m} \cup Under(G, t.child["left"][m]) \cup Under(G, t.child["right"][m])
        /\ \A s \in Side :
             /\ t.child[s][m] = NULL \/ (t.child[s][m] \in M /\ t.parent[t.child[s][m]] = m)
             /\ \A x \in Under(G, t.child[s][m]) : Before(s, x, m)
        /\ t.parent[m] = NULL => m = t.root
        /\ t.parent[m] # NULL =>
             t.parent[m] \in M /\ m # t.root /\ \E s \in Side : t.child[s][t.parent[m]] = m
    BY <1>3 DEF FormedAt
  <2>2. r.parent[m] = t.parent[m] /\ r.root = t.root
    BY <1>5
  <2>3. \A s \in Side : r.child[s][m] = t.child[s][m]
    BY <1>5
  <2>4. \A s \in Side : t.child[s][m] \in M => r.parent[t.child[s][m]] = t.parent[t.child[s][m]]
    BY <1>5
  <2>5. t.parent[m] \in M => \A s \in Side : r.child[s][t.parent[m]] = t.child[s][t.parent[m]]
    BY <1>5
  <2>6. QED BY <2>1, <2>2, <2>3, <2>4, <2>5, Sides DEF FormedAt
<1>8. Formed(r, M, G)
  BY <1>3, <1>5, <1>7 DEF Formed
<1>9. Balanced(r, M, D, NULL, "left")
  BY <1>1, <1>5 DEF Balanced, Weight
<1>10. \A m \in M, s \in Side : ~RedPair(r, m, s)
  <2>1. SUFFICES ASSUME NEW m \in M, NEW s \in Side, RedPair(r, m, s) PROVE FALSE
    OBVIOUS
  <2>2. RedPair(t, m, s)
    BY <1>5, <1>6, <2>1 DEF RedPair
  <2>3. QED BY <1>1, <2>2
<1>11. IsBlack(r, r.root)
  BY <1>1, <1>3, <1>5 DEF IsBlack, IsRed
<1>12. QED BY <1>2, <1>8, <1>9, <1>10, <1>11 DEF Sound

\* A tree that misses a black node is colored, one that does not is left.
LEMMA ShortColored ==
  ASSUME NEW t, NEW M, NEW red \in BOOLEAN, NEW p, NEW c, Short(t, M, red, p, c)
  PROVE  Sound(IF red THEN t ELSE RemoveColor(t, p, c), M)
<1>1. CASE red
  <2>1. Short(t, M, TRUE, p, c)
    BY <1>1, Zenon
  <2>2. QED BY <1>1, <2>1, ShortByRed, Zenon
<1>2. CASE ~red
  <2>1. Short(t, M, FALSE, p, c)
    BY <1>2
  <2>2. Removing([tree |-> t, parent |-> p, elm |-> c], M, 0) /\ t \in Tree /\ p \in Link
        /\ c \in Link
    BY <2>1, ShortByBlack
  <2>3. QED BY <1>2, <2>2, RemoveColorKeeps
<1>3. QED BY <1>1, <1>2

\* A node without one of the children is taken out.
LEMMA OneChildRemoved ==
  ASSUME NEW t, NEW M, Sound(t, M), NEW old \in M,
         ~(t.child["left"][old] # NULL /\ t.child["right"][old] # NULL)
  PROVE  Sound(Removed(t, old), M \ {old})
<1>1. PICK c : c = IF t.child["left"][old] = NULL THEN t.child["right"][old]
                                                 ELSE t.child["left"][old]
  OBVIOUS
<1>2. PICK o : o = IF t.child["left"][old] = NULL THEN "left" ELSE "right"
  OBVIOUS
<1>3. o \in Side /\ t.child[o][old] = NULL /\ c = t.child[Other(o)][old]
  BY <1>1, <1>2, Sides
<1>4. PICK u, p : u = Unlinked(t, old, c) /\ p = t.parent[old]
  OBVIOUS
<1>5. Short(u, M \ {old}, t.red[old], p, c)
  BY <1>3, <1>4, UnlinkedKeeps
<1>6. t \in Tree /\ old \in Node
  BY DEF Sound, Formed
<1>7. t.red[old] \in BOOLEAN
  BY <1>6, TreeFields
<1>8. PICK v : v = IF t.red[old] THEN u ELSE RemoveColor(u, p, c)
  OBVIOUS
<1>9. Sound(v, M \ {old})
  BY <1>5, <1>7, <1>8, ShortColored, ZenonT(30)
<1>10. Removed(t, old) = Forgotten(v, old)
  BY <1>1, <1>4, <1>8 DEF Removed
<1>11. QED BY <1>6, <1>9, <1>10, ForgottenKeeps

\* A node with both is replaced by the next one, which lies where it lay.
LEMMA TwoChildrenRemoved ==
  ASSUME NEW t, NEW M, Sound(t, M), NEW old \in M,
         t.child["left"][old] # NULL, t.child["right"][old] # NULL
  PROVE  Sound(Removed(t, old), M \ {old})
<1>1. PICK G : Formed(t, M, G)
  BY DEF Sound
<1>2. PICK a : a = t.child["right"][old]
  OBVIOUS
<1>3. PICK elm : elm = Outermost(t, a, "left")
  OBVIOUS
<1>4. PICK c : c = t.child["right"][elm]
  OBVIOUS
<1>5. "left" \in Side /\ "right" \in Side /\ Other("left") = "right" /\ Other("right") = "left"
  BY Sides
<1>6. ChildAt(t, M, G, old, "right") /\ NodeAt(t, M, G, old)
  BY <1>1, <1>5, At
<1>7. a \in M /\ a # NULL /\ old \notin G[a] /\ old \in Node /\ M \subseteq Node /\ t \in Tree
  BY <1>1, <1>2, <1>6 DEF ChildAt, NodeAt, Formed
<1>8. OutermostIs(t, G, a, "left", elm)
  BY <1>1, <1>3, <1>5, <1>7, OutermostFound
<1>9. elm \in G[a] /\ t.child["left"][elm] = NULL
  BY <1>8 DEF OutermostIs
<1>10. G[a] \in SUBSET M
  <2>1. NodeAt(t, M, G, a)
    BY <1>1, <1>7, At
  <2>2. QED BY <2>1 DEF NodeAt
<1>11. elm \in M /\ elm # old /\ elm \in Node
  BY <1>7, <1>9, <1>10
<1>12. c # old
  <2>1. SUFFICES ASSUME c = old PROVE FALSE
    OBVIOUS
  <2>2. NestedIn(t, G, a, elm)
    BY <1>1, <1>7, <1>9, Nested
  <2>3. G[elm] \in SUBSET G[a]
    BY <2>2 DEF NestedIn
  <2>4. ChildAt(t, M, G, elm, "right") /\ c # NULL
    BY <1>1, <1>5, <1>7, <1>11, <2>1, At, NullIsNoNode
  <2>5. c \in G[elm]
    BY <1>4, <2>4 DEF ChildAt
  <2>6. QED BY <1>7, <2>1, <2>3, <2>5
<1>13. ASSUME NEW x \in M \ {elm}, NEW s \in Side, x # old, Before(s, x, old)
       PROVE  Before(s, x, elm)
  <2>1. Neighbour(t, old, "right") = elm
    BY <1>2, <1>3, <1>5 DEF Neighbour
  <2>2. NeighbourIs(M, old, "right", elm)
    BY <1>1, <1>5, <2>1, NeighbourFound
  <2>3. /\ Before("left", old, elm)
        /\ \A y \in M : Before("left", old, y) => y = elm \/ Before("left", elm, y)
    BY <1>5, <1>11, <2>2, NullIsNoNode DEF NeighbourIs
  <2>4. x \in Node
    BY <1>7
  <2>5. CASE s = "left"
    BY <1>5, <1>7, <1>11, <1>13, <2>3, <2>4, <2>5, Order
  <2>6. CASE s = "right"
    <3>1. Before("left", old, x)
      BY <1>5, <1>7, <1>13, <2>4, <2>6, Order
    <3>2. Before("left", elm, x)
      BY <1>13, <2>3, <3>1
    <3>3. QED BY <1>5, <1>11, <2>4, <2>6, <3>2, Order
  <2>7. QED BY <2>5, <2>6 DEF Side
<1>14. PICK u, p : u = Unlinked(t, elm, c) /\ p = t.parent[elm]
  OBVIOUS
<1>15. Short(u, M \ {elm}, t.red[elm], p, c)
  BY <1>4, <1>5, <1>9, <1>11, <1>14, UnlinkedKeeps
<1>16. PICK v, q : v = Replaced(u, old, elm) /\ q = Renamed(old, elm, p)
  OBVIOUS
<1>17. Short(v, ((M \ {elm}) \ {old}) \cup {elm}, t.red[elm], q, c)
  <2>1. old \in M \ {elm} /\ elm \notin M \ {elm}
    BY <1>11
  <2>2. \A x \in M \ {elm}, s \in Side : x # old /\ Before(s, x, old) => Before(s, x, elm)
    BY <1>13
  <2>3. QED BY <1>11, <1>12, <1>15, <1>16, <2>1, <2>2, ReplacedKeeps
<1>18. ((M \ {elm}) \ {old}) \cup {elm} = M \ {old}
  BY <1>11
<1>19. t.red[elm] \in BOOLEAN
  BY <1>7, <1>11, TreeFields
<1>20. PICK w : w = IF t.red[elm] THEN v ELSE RemoveColor(v, q, c)
  OBVIOUS
<1>21. Sound(w, M \ {old})
  BY <1>17, <1>18, <1>19, <1>20, ShortColored, SMTT(30)
<1>22. q = RebalancedFrom(t, old, elm)
  BY <1>14, <1>16, Zenon DEF RebalancedFrom, Renamed
<1>23. Removed(t, old) = Forgotten(w, old)
  BY <1>2, <1>3, <1>4, <1>9, <1>14, <1>16, <1>20, <1>22 DEF Removed
<1>24. QED BY <1>7, <1>21, <1>23, ForgottenKeeps

\* A removal keeps a red-black tree one.
LEMMA RemovedKeeps ==
  ASSUME NEW t, NEW M, Sound(t, M), NEW old \in M
  PROVE  Sound(Removed(t, old), M \ {old})
BY OneChildRemoved, TwoChildrenRemoved

-------------------------------------------------------------------------------
(* The invariant *)

\* The tree is always a red-black tree of its nodes.
TreeInv == Sound(tree, Members)

\* The nodes that the links lead to are those of which a tree is a red-black one.
LEMMA SoundMembers ==
  ASSUME NEW t, NEW M, Sound(t, M)
  PROVE  /\ Below(t, t.root) = M
         /\ M \subseteq Node /\ t \in Tree
         /\ \A n, m \in M : Key[n] = Key[m] => n = m
<1>1. PICK G : Formed(t, M, G)
  BY DEF Sound
<1>2. /\ Under(G, t.root) = M /\ (t.root = NULL \/ t.root \in M)
      /\ M \subseteq Node /\ t \in Tree
      /\ \A n, m \in M : Key[n] = Key[m] => n = m
  BY <1>1 DEF Formed
<1>3. Below(t, t.root) = Under(G, t.root)
  BY <1>1, <1>2, BelowFound
<1>4. QED BY <1>2, <1>3

\* The empty tree is one.
LEMMA EmptySound == Sound(Empty, {})
<1>1. Empty \in Tree /\ Empty.root = NULL
  BY DEF Empty, Tree, Link
<1>2. ASSUME NEW G PROVE Formed(Empty, {}, G)
  BY <1>1 DEF Formed, Under
<1>3. ASSUME NEW D PROVE Balanced(Empty, {}, D, NULL, "left")
  BY DEF Balanced
<1>4. IsBlack(Empty, Empty.root)
  BY <1>1 DEF IsBlack, IsRed
<1>5. QED BY <1>2, <1>3, <1>4 DEF Sound

-------------------------------------------------------------------------------
(* What the calls return *)

\* Of nodes with keys of their own there is one first, and one last.
LEMMA FirstIs ==
  ASSUME NEW M, M \subseteq Node, \A n, m \in M : Key[n] = Key[m] => n = m,
         NEW S, S \subseteq M, NEW x \in S
  PROVE  /\ (\A y \in S : y = x \/ Before("left", x, y)) => Set!First(S) = x
         /\ (\A y \in S : y = x \/ Before("right", x, y)) => Set!Last(S) = x
<1>1. \A y \in S : Key[y] \in Int
  BY NtyTreeAssumption
<1>2. S # {}
  OBVIOUS
<1>3. ASSUME \A y \in S : y = x \/ Before("left", x, y) PROVE Set!First(S) = x
  <2>1. \A y \in S : Key[x] <= Key[y]
    BY <1>1, <1>3 DEF Before
  <2>2. \A z \in S : (\A y \in S : Key[z] <= Key[y]) => z = x
    <3>1. SUFFICES ASSUME NEW z \in S, \A y \in S : Key[z] <= Key[y] PROVE z = x
      OBVIOUS
    <3>2. Key[z] <= Key[x] /\ Key[x] <= Key[z]
      BY <2>1, <3>1
    <3>3. Key[z] = Key[x]
      BY <1>1, <3>2
    <3>4. QED BY <3>3
  <2>3. (CHOOSE z \in S : \A y \in S : Key[z] <= Key[y]) = x
    BY <2>1, <2>2
  <2>4. QED BY <1>2, <2>3 DEF Set!First
<1>4. ASSUME \A y \in S : y = x \/ Before("right", x, y) PROVE Set!Last(S) = x
  <2>1. \A y \in S : Key[x] >= Key[y]
    BY <1>1, <1>4 DEF Before
  <2>2. \A z \in S : (\A y \in S : Key[z] >= Key[y]) => z = x
    <3>1. SUFFICES ASSUME NEW z \in S, \A y \in S : Key[z] >= Key[y] PROVE z = x
      OBVIOUS
    <3>2. Key[z] >= Key[x] /\ Key[x] >= Key[z]
      BY <2>1, <3>1
    <3>3. Key[z] = Key[x]
      BY <1>1, <3>2
    <3>4. QED BY <3>3
  <2>3. (CHOOSE z \in S : \A y \in S : Key[z] >= Key[y]) = x
    BY <2>1, <2>2
  <2>4. QED BY <1>2, <2>3 DEF Set!Last
<1>5. QED BY <1>3, <1>4

\* RB_FIND and RB_NFIND return the node with the key, and the first from it on.
LEMMA Looked ==
  ASSUME TreeInv, NEW n \in Node
  PROVE  /\ FindIn(tree, n) = Set!First(Set!Same(n))
         /\ NFindIn(tree, n) = Set!First(Set!Same(n) \cup Set!Above(n))
         /\ FindIn(tree, n) = NULL <=> Set!Same(n) = {}
<1>1. PICK M : M = Members
  OBVIOUS
<1>2. PICK G : Formed(tree, M, G)
  BY <1>1 DEF TreeInv, Sound
<1>3. M \subseteq Node /\ \A k, m \in M : Key[k] = Key[m] => k = m
  BY <1>2 DEF Formed
<1>4. PICK w : w = Walk(tree, n)
  OBVIOUS
<1>5. WalkEnds(tree, M, G, n, w)
  BY <1>2, <1>4, Walked
<1>6. FindIn(tree, n) = w.at /\ NFindIn(tree, n) = IF w.at # NULL THEN w.at ELSE w.res
  BY <1>4 DEF FindIn, NFindIn
<1>7. /\ Set!Same(n) = {m \in M : Key[m] = Key[n]}
      /\ Set!Above(n) = {m \in M : Key[m] > Key[n]}
  BY <1>1 DEF Set!Same, Set!Above
<1>8. \A m \in M : Key[m] \in Int /\ m \in Node /\ m # NULL
  BY <1>3, NtyTreeAssumption
<1>9. Key[n] \in Int
  BY NtyTreeAssumption
<1>10. \A m \in M : Before("left", n, m) <=> Key[m] > Key[n]
  BY <1>8, <1>9 DEF Before
<1>11. PICK S, T : S = Set!Same(n) /\ T = Set!Same(n) \cup Set!Above(n)
  OBVIOUS
<1>12. S \subseteq M /\ T \subseteq M
  BY <1>7, <1>11
<1>13. CASE w.at # NULL
  <2>1. w.at \in M /\ Key[w.at] = Key[n]
    BY <1>5, <1>13 DEF WalkEnds
  <2>2. w.at \in S /\ w.at \in T
    BY <1>7, <1>11, <2>1
  <2>3. \A y \in S : y = w.at
    BY <1>3, <1>7, <1>11, <2>1
  <2>4. \A y \in T : y = w.at \/ Before("left", w.at, y)
    <3>1. TAKE y \in T
    <3>2. y \in M /\ (Key[y] = Key[n] \/ Key[y] > Key[n])
      BY <1>7, <1>11
    <3>3. CASE Key[y] = Key[n]
      BY <1>3, <2>1, <3>2, <3>3
    <3>4. CASE Key[y] > Key[n]
      BY <1>8, <1>9, <2>1, <3>2, <3>4 DEF Before
    <3>5. QED BY <3>2, <3>3, <3>4
  <2>5. Set!First(S) = w.at
    BY <1>3, <1>12, <2>2, <2>3, FirstIs
  <2>6. Set!First(T) = w.at
    BY <1>3, <1>12, <2>2, <2>4, FirstIs
  <2>7. QED BY <1>6, <1>11, <1>13, <2>2, <2>5, <2>6
<1>14. CASE w.at = NULL
  <2>1. (\A x \in M : Key[x] # Key[n]) /\ NextOutside(M, {}, n, w.res)
    BY <1>5, <1>14 DEF WalkEnds
  <2>2. /\ w.res # NULL => w.res \in M /\ Before("left", n, w.res)
        /\ \A x \in M : Before("left", n, x) => w.res # NULL
           /\ (x = w.res \/ Before("left", w.res, x))
    BY <2>1 DEF NextOutside
  <2>3. S = {} /\ T = {x \in M : Key[x] > Key[n]}
    BY <1>7, <1>11, <2>1
  <2>4. Set!First(S) = NULL
    BY <2>3 DEF Set!First
  <2>5. Set!First(T) = w.res
    <3>1. CASE w.res = NULL
      <4>1. T = {}
        BY <1>10, <2>2, <2>3, <3>1
      <4>2. QED BY <3>1, <4>1 DEF Set!First
    <3>2. CASE w.res # NULL
      <4>1. w.res \in T
        BY <1>10, <2>2, <2>3, <3>2
      <4>2. \A y \in T : y = w.res \/ Before("left", w.res, y)
        BY <1>10, <2>2, <2>3
      <4>3. QED BY <1>3, <1>12, <4>1, <4>2, FirstIs
    <3>3. QED BY <3>1, <3>2
  <2>6. QED BY <1>6, <1>11, <1>14, <2>3, <2>4, <2>5
<1>15. QED BY <1>13, <1>14

\* RB_NEXT and RB_PREV return the first after the node, and the last before it.
LEMMA NeighboursAre ==
  ASSUME TreeInv, NEW n \in Members
  PROVE  /\ Neighbour(tree, n, "right") = Set!First(Set!Above(n))
         /\ Neighbour(tree, n, "left") = Set!Last(Set!Below(n))
<1>1. PICK M : M = Members
  OBVIOUS
<1>2. PICK G : Formed(tree, M, G)
  BY <1>1 DEF TreeInv, Sound
<1>3. M \subseteq Node /\ (\A k, m \in M : Key[k] = Key[m] => k = m) /\ n \in M
  BY <1>1, <1>2 DEF Formed
<1>4. "left" \in Side /\ "right" \in Side /\ Other("left") = "right" /\ Other("right") = "left"
  BY Sides
<1>5. NULL \notin M
  BY <1>3, NullIsNoNode
<1>6. \A m \in M : Key[m] \in Int
  BY <1>3, NtyTreeAssumption
<1>7. PICK S, T : S = Set!Above(n) /\ T = Set!Below(n)
  OBVIOUS
<1>8. S \subseteq M /\ T \subseteq M
      /\ (\A m \in M : m \in S <=> Before("left", n, m))
      /\ (\A m \in M : m \in T <=> Before("right", n, m))
  BY <1>1, <1>3, <1>6, <1>7 DEF Set!Above, Set!Below, Before
<1>9. Neighbour(tree, n, "right") = Set!First(S)
  <2>1. PICK r : r = Neighbour(tree, n, "right")
    OBVIOUS
  <2>2. NeighbourIs(M, n, "right", r)
    BY <1>2, <1>3, <1>4, <2>1, NeighbourFound
  <2>3. CASE r = NULL
    <3>1. S = {}
      BY <1>4, <1>5, <1>8, <2>2, <2>3 DEF NeighbourIs
    <3>2. QED BY <2>1, <2>3, <3>1 DEF Set!First
  <2>4. CASE r # NULL
    <3>1. r \in S /\ \A x \in S : x = r \/ Before("left", r, x)
      BY <1>4, <1>8, <2>2, <2>4 DEF NeighbourIs
    <3>2. QED BY <1>3, <1>8, <2>1, <3>1, FirstIs
  <2>5. QED BY <2>3, <2>4
<1>10. Neighbour(tree, n, "left") = Set!Last(T)
  <2>1. PICK r : r = Neighbour(tree, n, "left")
    OBVIOUS
  <2>2. NeighbourIs(M, n, "left", r)
    BY <1>2, <1>3, <1>4, <2>1, NeighbourFound
  <2>3. CASE r = NULL
    <3>1. T = {}
      BY <1>4, <1>5, <1>8, <2>2, <2>3 DEF NeighbourIs
    <3>2. QED BY <2>1, <2>3, <3>1 DEF Set!Last
  <2>4. CASE r # NULL
    <3>1. r \in T /\ \A x \in T : x = r \/ Before("right", r, x)
      BY <1>4, <1>8, <2>2, <2>4 DEF NeighbourIs
    <3>2. QED BY <1>3, <1>8, <2>1, <3>1, FirstIs
  <2>5. QED BY <2>3, <2>4
<1>11. QED BY <1>7, <1>9, <1>10

\* RB_MIN and RB_MAX return the first node and the last.
LEMMA EndsAre ==
  ASSUME TreeInv
  PROVE  /\ MinMax(tree, "left") = Set!First(Members)
         /\ MinMax(tree, "right") = Set!Last(Members)
<1>1. PICK M : M = Members
  OBVIOUS
<1>2. PICK G : Formed(tree, M, G)
  BY <1>1 DEF TreeInv, Sound
<1>3. M \subseteq Node /\ (\A k, m \in M : Key[k] = Key[m] => k = m)
      /\ Under(G, tree.root) = M /\ (tree.root # NULL => tree.root \in M)
  BY <1>2 DEF Formed
<1>4. CASE tree.root = NULL
  <2>1. M = {}
    BY <1>3, <1>4 DEF Under
  <2>2. QED BY <1>1, <1>4, <2>1 DEF MinMax, Set!First, Set!Last
<1>5. CASE tree.root # NULL
  <2>1. G[tree.root] = M /\ tree.root \in M
    BY <1>3, <1>5 DEF Under
  <2>2. "left" \in Side /\ "right" \in Side
    BY Sides
  <2>3. PICK l, r : l = Outermost(tree, tree.root, "left")
        /\ r = Outermost(tree, tree.root, "right")
    OBVIOUS
  <2>4. OutermostIs(tree, G, tree.root, "left", l)
    BY <1>2, <2>1, <2>2, <2>3, OutermostFound
  <2>5. OutermostIs(tree, G, tree.root, "right", r)
    BY <1>2, <2>1, <2>2, <2>3, OutermostFound
  <2>6. l \in M /\ \A m \in M : m = l \/ Before("left", l, m)
    BY <2>1, <2>4 DEF OutermostIs
  <2>7. r \in M /\ \A m \in M : m = r \/ Before("right", r, m)
    BY <2>1, <2>5 DEF OutermostIs
  <2>8. Set!First(M) = l
    BY <1>3, <2>6, FirstIs
  <2>9. Set!Last(M) = r
    BY <1>3, <2>7, FirstIs
  <2>10. MinMax(tree, "left") = l /\ MinMax(tree, "right") = r
    BY <1>5, <2>3 DEF MinMax
  <2>11. QED BY <1>1, <2>8, <2>9, <2>10
<1>6. QED BY <1>4, <1>5

-------------------------------------------------------------------------------
(* The steps *)

\* An insertion adds the node to the set, or nothing if its key is taken.
LEMMA InsertMaps ==
  ASSUME TreeInv, NEW n \in Node, Insert(n)
  PROVE  TreeInv' /\ Set!Insert(n)
<1>1. PICK M : M = Members
  OBVIOUS
<1>2. Sound(tree, M) /\ n \notin M /\ op' = "insert" /\ arg' = n /\ ret' = FindIn(tree, n)
  BY <1>1 DEF TreeInv, Insert, Returned
<1>3. FindIn(tree, n) = Set!First(Set!Same(n)) /\ (FindIn(tree, n) = NULL <=> Set!Same(n) = {})
  BY Looked
<1>4. CASE FindIn(tree, n) = NULL
  <2>1. tree' = Inserted(tree, n) /\ Walk(tree, n).at = NULL
    BY <1>4 DEF Insert, FindIn
  <2>2. Sound(tree', M \cup {n})
    BY <1>2, <2>1, InsertedKeeps
  <2>3. Members' = M \cup {n}
    BY <2>2, SoundMembers DEF Members
  <2>4. QED BY <1>1, <1>2, <1>3, <1>4, <2>2, <2>3 DEF TreeInv, Set!Insert
<1>5. CASE FindIn(tree, n) # NULL
  <2>1. tree' = tree
    BY <1>5 DEF Insert
  <2>2. Members' = Members
    BY <2>1 DEF Members
  <2>3. TreeInv'
    BY <1>1, <1>2, <2>1, <2>2 DEF TreeInv
  <2>4. QED BY <1>1, <1>2, <1>3, <1>5, <2>2, <2>3 DEF Set!Insert
<1>6. QED BY <1>4, <1>5

\* A removal takes the node from the set.
LEMMA RemoveMaps ==
  ASSUME TreeInv, NEW n \in Node, Remove(n)
  PROVE  TreeInv' /\ Set!Remove(n)
<1>1. PICK M : M = Members
  OBVIOUS
<1>2. Sound(tree, M) /\ n \in M /\ tree' = Removed(tree, n)
      /\ op' = "remove" /\ arg' = n /\ ret' = n
  BY <1>1 DEF TreeInv, Remove, Returned
<1>3. Sound(tree', M \ {n})
  BY <1>2, RemovedKeeps
<1>4. Members' = M \ {n}
  BY <1>3, SoundMembers DEF Members
<1>5. QED BY <1>1, <1>2, <1>3, <1>4 DEF TreeInv, Set!Remove

\* A question changes nothing.
LEMMA AskedMaps ==
  ASSUME TreeInv, NEW name, NEW n, NEW answer, Asked(name, n, answer)
  PROVE  TreeInv' /\ Set!Ask(name, n, answer)
<1>1. tree' = tree /\ op' = name /\ arg' = n /\ ret' = answer
  BY DEF Asked, Returned
<1>2. Members' = Members
  BY <1>1 DEF Members
<1>3. QED BY <1>1, <1>2 DEF TreeInv, Set!Ask

\* Every call keeps the tree a red-black tree and does what it should to the set.
LEMMA TreeStepMaps ==
  ASSUME TreeInv, [TreeStep]_treeVars
  PROVE  TreeInv' /\ [Set!Next]_<<Members, op, arg, ret>>
<1> DEFINE Kept == TreeInv' /\ Set!Next
<1>1. ASSUME NEW n \in Node, Insert(n) PROVE Kept
  BY <1>1, InsertMaps DEF Set!Next
<1>2. ASSUME NEW n \in Node, Remove(n) PROVE Kept
  BY <1>2, RemoveMaps DEF Set!Next
<1>3. ASSUME NEW n \in Node, Find(n) PROVE Kept
  <2>1. TreeInv' /\ Set!Ask("find", n, FindIn(tree, n))
    BY <1>3, AskedMaps DEF Find
  <2>2. FindIn(tree, n) = Set!First(Set!Same(n))
    BY Looked
  <2>3. QED BY <2>1, <2>2 DEF Set!Next
<1>4. ASSUME NEW n \in Node, NFind(n) PROVE Kept
  <2>1. TreeInv' /\ Set!Ask("nfind", n, NFindIn(tree, n))
    BY <1>4, AskedMaps DEF NFind
  <2>2. NFindIn(tree, n) = Set!First(Set!Same(n) \cup Set!Above(n))
    BY Looked
  <2>3. QED BY <2>1, <2>2 DEF Set!Next
<1>5. ASSUME NEW n \in Node, TreeNext(n) PROVE Kept
  <2>1. TreeInv' /\ Set!Ask("next", n, Neighbour(tree, n, "right")) /\ n \in Members
    BY <1>5, AskedMaps DEF TreeNext
  <2>2. Neighbour(tree, n, "right") = Set!First(Set!Above(n))
    BY <2>1, NeighboursAre
  <2>3. QED BY <2>1, <2>2 DEF Set!Next
<1>6. ASSUME NEW n \in Node, TreePrev(n) PROVE Kept
  <2>1. TreeInv' /\ Set!Ask("prev", n, Neighbour(tree, n, "left")) /\ n \in Members
    BY <1>6, AskedMaps DEF TreePrev
  <2>2. Neighbour(tree, n, "left") = Set!Last(Set!Below(n))
    BY <2>1, NeighboursAre
  <2>3. QED BY <2>1, <2>2 DEF Set!Next
<1>7. ASSUME Minimum PROVE Kept
  <2>1. TreeInv' /\ Set!Ask("min", NULL, MinMax(tree, "left"))
    BY <1>7, AskedMaps DEF Minimum
  <2>2. QED BY <2>1, EndsAre DEF Set!Next
<1>8. ASSUME Maximum PROVE Kept
  <2>1. TreeInv' /\ Set!Ask("max", NULL, MinMax(tree, "right"))
    BY <1>8, AskedMaps DEF Maximum
  <2>2. QED BY <2>1, EndsAre DEF Set!Next
<1>9. CASE UNCHANGED treeVars
  <2>1. tree' = tree /\ op' = op /\ arg' = arg /\ ret' = ret
    BY <1>9 DEF treeVars
  <2>2. Members' = Members
    BY <2>1 DEF Members
  <2>3. QED BY <2>1, <2>2 DEF TreeInv
<1>10. CASE TreeStep
  BY <1>1, <1>2, <1>3, <1>4, <1>5, <1>6, <1>7, <1>8, <1>10, Zenon DEF TreeStep
<1>11. QED BY <1>9, <1>10

\* The tree is empty at first.
LEMMA TreeStarts ==
  ASSUME TreeInit
  PROVE  TreeInv /\ Set!Init
<1>1. tree = Empty /\ op = "init" /\ arg = NULL /\ ret = NULL
  BY DEF TreeInit
<1>2. Members = {}
  BY <1>1, EmptySound, SoundMembers DEF Members
<1>3. QED BY <1>1, <1>2, EmptySound DEF TreeInv, Set!Init

\* A red-black tree of its nodes has what the links and the colors should be.
LEMMA SoundIsRedBlack ==
  ASSUME TreeInv
  PROVE  RedBlack
<1>1. PICK M : M = Members
  OBVIOUS
<1>2. PICK G, D : /\ Formed(tree, M, G)
                  /\ Balanced(tree, M, D, NULL, "left")
                  /\ \A n \in M, s \in Side : ~RedPair(tree, n, s)
                  /\ IsBlack(tree, tree.root)
  BY <1>1 DEF TreeInv, Sound
<1>3. tree.root # NULL => tree.parent[tree.root] = NULL
  <2>1. SUFFICES ASSUME tree.root # NULL PROVE tree.parent[tree.root] = NULL
    OBVIOUS
  <2>2. tree.root \in M
    BY <1>2, <2>1 DEF Formed
  <2>3. NodeAt(tree, M, G, tree.root)
    BY <1>2, <2>2, At
  <2>4. QED BY <2>3 DEF NodeAt
<1>4. ASSUME NEW n \in M, NEW s \in Side PROVE SoundChild(tree, n, s)
  <2>1. PICK c : c = tree.child[s][n]
    OBVIOUS
  <2>2. SUFFICES ASSUME c # NULL
                 PROVE /\ tree.parent[c] = n
                       /\ ~(tree.red[n] /\ tree.red[c])
                       /\ \A m \in Below(tree, c) : Before(s, m, n)
    BY <2>1 DEF SoundChild
  <2>3. ChildAt(tree, M, G, n, s)
    BY <1>2, At
  <2>4. c \in M /\ tree.parent[c] = n /\ \A m \in G[c] : Before(s, m, n)
    BY <2>1, <2>2, <2>3 DEF ChildAt
  <2>5. Below(tree, c) = Under(G, c)
    BY <1>2, <2>4, BelowFound
  <2>6. ~(tree.red[n] /\ tree.red[c])
    BY <1>2, <2>1, <2>2 DEF RedPair
  <2>7. QED BY <2>2, <2>4, <2>5, <2>6 DEF Under
<1>5. ASSUME NEW n \in M, NEW s \in Side, tree.child[s][n] = NULL
      PROVE Blacks(tree, n) = D[tree.root]
  BY <1>2, <1>5, BlacksCounted
<1>6. QED BY <1>1, <1>2, <1>3, <1>4, <1>5 DEF RedBlack

\* The links of the tree are those of a search tree of its members, with keys of their own,
\* in every state: what RB_RIGHT, RB_PARENT and RB_COLOR are read of is a node.
THEOREM TreeSound == TreeSpec => []TreeInv
<1>1. TreeInit => TreeInv
  BY TreeStarts
<1>2. TreeInv /\ [TreeStep]_treeVars => TreeInv'
  BY TreeStepMaps
<1>3. QED BY <1>1, <1>2, PTL DEF TreeSpec

\* The macros of nty_tree.h:391-509 keep a red-black tree one, whatever its size and the
\* calls: no red node has a red child and every way down passes as many black nodes.
THEOREM TreeRedBlack == TreeSpec => []RedBlack
<1>1. TreeInv => RedBlack
  BY SoundIsRedBlack
<1>2. QED BY <1>1, TreeSound, PTL

\* They implement a set of nodes ordered by their keys, which is what the scheduler takes
\* its trees for (nty_schedule.c:90-113, 127-142, 251-255).
THEOREM TreeIsKeyedSet == TreeSpec => IsKeyedSet
<1>1. TreeInit => Set!Init
  BY TreeStarts
<1>2. TreeInv /\ [TreeStep]_treeVars => [Set!Next]_<<Members, op, arg, ret>>
  BY TreeStepMaps
<1>3. QED BY <1>1, <1>2, TreeSound, PTL DEF TreeSpec, IsKeyedSet, Set!Spec

===============================================================================
