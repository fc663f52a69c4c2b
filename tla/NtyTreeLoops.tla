----------------------------- MODULE NtyTreeLoops -----------------------------
(***************************************************************************)
(* The loops of nty_tree.h that color a tree after an insertion and after a *)
(* removal end, on trees of any size, with a red-black tree of the same    *)
(* nodes.                                                                  *)
(*                                                                         *)
(* Sound(t, M) is what they keep: t is a red-black tree of the nodes M.    *)
(* It asserts a function G, the nodes below each node, and a function D,   *)
(* the black height of each.  Having them given, and no more than related  *)
(* at each node to those of its children, leaves no recursion to unfold.   *)
(* Every round is a few assignments, after which G and D are stated anew; a *)
(* loop has a predicate that its rounds keep and that, after as many rounds *)
(* as there are nodes, says that it is over.                               *)
(***************************************************************************)
EXTENDS NtyTree, FiniteSetTheorems, WellFoundedInduction, TLAPS

-------------------------------------------------------------------------------
(* Numbers of nodes *)

\* Any set of numbers has a least one.
LEMMA Least ==
  ASSUME NEW T, T \subseteq Nat, T # {}
  PROVE  \E i \in T : \A j \in T : i <= j
<1>1. \E i \in T : \A j \in T : ~(<<j, i>> \in OpToRel(<, Nat))
  BY WFMin, NatLessThanWellFounded, Zenon
<1>2. \A i, j \in Nat : j < i => <<j, i>> \in OpToRel(<, Nat)
  BY Zenon DEF OpToRel
<1>3. \A i, j \in T : ~(<<j, i>> \in OpToRel(<, Nat)) => ~(j < i)
  BY <1>2, Zenon
<1>4. PICK i \in T : \A j \in T : ~(j < i)
  BY <1>1, <1>3, Zenon
<1>5. QED BY <1>4

-------------------------------------------------------------------------------
(* Sizes and loops *)

Size == Cardinality(Node)

\* The nodes are finite in number, and no set of them has more.
LEMMA SizeIsNat ==
  /\ Size \in Nat
  /\ \A S \in SUBSET Node :
       IsFiniteSet(S) /\ Cardinality(S) \in Nat /\ Cardinality(S) <= Size
<1>1. IsFiniteSet(Node)
  BY NtyTreeAssumption
<1>2. QED BY <1>1, FS_Subset, FS_CardinalityType DEF Size

\* A set without a node of another is smaller by one at least.
LEMMA Smaller ==
  ASSUME NEW S \in SUBSET Node, NEW T \in SUBSET S, T # S
  PROVE  Cardinality(T) + 1 <= Cardinality(S)
<1>1. IsFiniteSet(S) /\ Cardinality(S) \in Nat /\ Cardinality(T) \in Nat
  BY SizeIsNat
<1>2. Cardinality(T) < Cardinality(S)
  BY <1>1, FS_Subset
<1>3. QED BY <1>1, <1>2

\* What is good at the start of a loop, and after a round if it was before, is so at the end.
LEMMA LoopKeeps ==
  ASSUME NEW round, NEW Good, NEW start, start \in Good[0],
         \A i \in 1..Size : \A s \in Good[i - 1] : round[s] \in Good[i]
  PROVE  Loop(round, start) \in Good[Size]
<1> DEFINE Eq(n, f) == f = [i \in 0..n |-> IF i = 0 THEN start ELSE round[f[i - 1]]]
           T == {n \in 0..Size : ~ \E f : Eq(n, f)}
           g == CHOOSE f : Eq(Size, f)
<1>1. Loop(round, start) = g[Size]
  BY DEF Loop, Size
<1>2. Size \in Nat
  BY SizeIsNat
<1>3. \E f : Eq(0, f)
  <2>1. Eq(0, [i \in 0..0 |-> start])
    OBVIOUS
  <2>2. QED BY <2>1
<1>4. ASSUME NEW n \in 1..Size, \E f : Eq(n - 1, f) PROVE \E f : Eq(n, f)
  <2>1. PICK f : Eq(n - 1, f)
    BY <1>4
  <2> DEFINE h == [i \in 0..n |-> IF i = 0 THEN start ELSE round[f[i - 1]]]
  <2>2. n \in Nat /\ \A i \in 1..n : i - 1 \in 0..n - 1 /\ i - 1 \in 0..n /\ i # 0
    BY <1>2
  <2>3. \A i \in 0..n - 1 : f[i] = h[i]
    <3>1. \A i \in 0..n - 1 : f[i] = IF i = 0 THEN start ELSE round[f[i - 1]]
      BY <2>1
    <3>2. \A i \in 0..n - 1 : i \in 0..n
      BY <2>2
    <3>3. QED BY <3>1, <3>2
  <2>4. \A i \in 0..n : (IF i = 0 THEN start ELSE round[f[i - 1]])
                         = (IF i = 0 THEN start ELSE round[h[i - 1]])
    <3>1. TAKE i \in 0..n
    <3>2. CASE i = 0
      BY <3>2
    <3>3. CASE i # 0
      <4>1. i \in 1..n
        BY <2>2, <3>3
      <4>2. f[i - 1] = h[i - 1]
        BY <2>2, <2>3, <4>1
      <4> HIDE DEF h
      <4>3. QED BY <3>3, <4>2
    <3>4. QED BY <3>2, <3>3
  <2>5. Eq(n, h)
    BY <2>4
  <2>6. QED BY <2>5
<1> HIDE DEF Eq
<1>5. T = {}
  <2>1. SUFFICES ASSUME T # {} PROVE FALSE
    OBVIOUS
  <2>2. T \subseteq Nat
    OBVIOUS
  <2>3. PICK n \in T : \A m \in T : n <= m
    <3> HIDE DEF T
    <3>1. QED BY <2>1, <2>2, Least
  <2>4. n # 0 /\ n \in 0..Size
    BY <1>3
  <2>5. n \in 1..Size /\ n - 1 \in 0..Size /\ ~(n <= n - 1)
    BY <1>2, <2>4
  <2>6. n - 1 \notin T
    BY <2>3, <2>5
  <2>7. QED BY <1>4, <2>5, <2>6
<1>6. Eq(Size, g)
  <2>1. Size \in 0..Size
    BY <1>2
  <2>2. \E f : Eq(Size, f)
    BY <1>5, <2>1
  <2>3. QED BY <2>2
<1> HIDE DEF g
<1>7. \A i \in 0..Size : g[i] = IF i = 0 THEN start ELSE round[g[i - 1]]
  BY <1>6 DEF Eq
<1> DEFINE B == {i \in 0..Size : g[i] \notin Good[i]}
<1>8. B = {}
  <2>1. SUFFICES ASSUME B # {} PROVE FALSE
    OBVIOUS
  <2>2. B \subseteq Nat
    OBVIOUS
  <2>3. PICK i \in B : \A j \in B : i <= j
    <3> HIDE DEF B
    <3>1. QED BY <2>1, <2>2, Least
  <2>4. 0 \in 0..Size /\ i \in 0..Size
    BY <1>2
  <2>5. i # 0
    BY <1>7, <2>4
  <2>6. i \in 1..Size /\ i - 1 \in 0..Size /\ ~(i <= i - 1)
    BY <1>2, <2>4, <2>5
  <2>7. g[i - 1] \in Good[i - 1]
    BY <2>3, <2>6
  <2>8. g[i] = round[g[i - 1]]
    BY <1>7, <2>4, <2>5
  <2>9. QED BY <2>6, <2>7, <2>8
<1>9. Size \in 0..Size
  BY <1>2
<1>10. QED BY <1>1, <1>8, <1>9

-------------------------------------------------------------------------------
(* The fields of a tree *)

\* There are two sides.
LEMMA Sides ==
  /\ \A side \in Side : Other(side) \in Side /\ Other(side) # side /\ Other(Other(side)) = side
  /\ \A side, s \in Side : s = side \/ s = Other(side)
  /\ "left" \in Side /\ "right" \in Side /\ Other("left") = "right" /\ Other("right") = "left"
BY DEF Side, Other

\* The order of the keys, seen from either side.
LEMMA Order ==
  ASSUME NEW side \in Side
  PROVE  /\ \A n \in Node : ~Before(side, n, n)
         /\ \A n, m \in Node : Before(side, n, m) => ~Before(Other(side), n, m)
         /\ \A n, m \in Node : Before(side, n, m) <=> Before(Other(side), m, n)
         /\ \A n, m, k \in Node : Before(side, n, m) /\ Before(side, m, k) => Before(side, n, k)
         /\ \A n, m \in Node : Key[n] # Key[m] => Before(side, n, m) \/ Before(side, m, n)
         /\ \A n, m \in Node : Before(side, n, m) => Key[n] # Key[m]
<1>1. \A n \in Node : Key[n] \in Int
  BY NtyTreeAssumption
<1>2. CASE side = "left"
  BY <1>1, <1>2 DEF Before, Other
<1>3. CASE side = "right"
  BY <1>1, <1>3 DEF Before, Other
<1>4. QED BY <1>2, <1>3 DEF Side

\* No node is NULL.
LEMMA NullIsNoNode == NULL \notin Node
BY NtyTreeAssumption

-------------------------------------------------------------------------------
(* Search trees *)

\* What the fields of a tree hold.
LEMMA TreeFields ==
  ASSUME NEW t \in Tree
  PROVE  /\ t.root \in Link
         /\ \A side \in Side, n \in Node : t.child[side][n] \in Link
         /\ \A n \in Node : t.parent[n] \in Link /\ t.red[n] \in BOOLEAN
BY DEF Tree

\* What the assignments write.
ChildIsSet(t, r, n, side, c) ==
  /\ r \in Tree
  /\ r.root = t.root /\ r.parent = t.parent /\ r.red = t.red
  /\ \A s \in Side, m \in Node :
       r.child[s][m] = IF s = side /\ m = n THEN c ELSE t.child[s][m]
ParentIsSet(t, r, n, p) ==
  /\ r \in Tree
  /\ r.root = t.root /\ r.child = t.child /\ r.red = t.red
  /\ \A m \in Node : r.parent[m] = IF m = n THEN p ELSE t.parent[m]
Relinked(t, r, p, elm, n) ==
  /\ r \in Tree
  /\ r.root = IF p = NULL THEN n ELSE t.root
  /\ r.parent = t.parent /\ r.red = t.red
  /\ \A s \in Side, m \in Node :
       r.child[s][m] = IF m = p /\ s = SideOf(t, p, elm) THEN n ELSE t.child[s][m]

\* RB_LEFT or RB_RIGHT is assigned (nty_tree.h:327-364).
LEMMA SetChildFields ==
  ASSUME NEW t \in Tree, NEW n \in Node, NEW side \in Side, NEW c \in Link
  PROVE  ChildIsSet(t, SetChild(t, n, side, c), n, side, c)
<1> DEFINE r == SetChild(t, n, side, c)
           row == [t.child[side] EXCEPT ![n] = c]
           child == [t.child EXCEPT ![side] = row]
<1>1. t.child \in [Side -> [Node -> Link]]
  BY DEF Tree
<1>2. t.child[side] \in [Node -> Link]
  BY <1>1
<1>3. row \in [Node -> Link] /\ \A m \in Node : row[m] = IF m = n THEN c ELSE t.child[side][m]
  BY <1>2
<1>4. r = [t EXCEPT !.child = child]
  BY DEF SetChild
<1> HIDE DEF row
<1>5. child \in [Side -> [Node -> Link]]
      /\ \A s \in Side : child[s] = IF s = side THEN row ELSE t.child[s]
  BY <1>1, <1>3
<1> HIDE DEF child, r
<1>6. r \in Tree /\ r.child = child /\ r.root = t.root /\ r.parent = t.parent /\ r.red = t.red
  BY <1>4, <1>5 DEF Tree
<1>7. QED BY <1>3, <1>5, <1>6 DEF r, ChildIsSet

\* RB_PARENT is assigned, unless there is no node (nty_tree.h:327-329).
LEMMA SetParentFields ==
  ASSUME NEW t \in Tree, NEW n \in Link, NEW p \in Link
  PROVE  ParentIsSet(t, SetParent(t, n, p), n, p)
<1>1. CASE n = NULL
  BY <1>1, NullIsNoNode DEF SetParent, ParentIsSet
<1>2. CASE n # NULL
  BY <1>2 DEF SetParent, ParentIsSet, Tree, Link
<1>3. QED BY <1>1, <1>2

\* The root, or a child of the parent, is assigned (nty_tree.h:331-337).
LEMMA RelinkFields ==
  ASSUME NEW t \in Tree, NEW p \in Link, NEW elm \in Link, NEW n \in Link
  PROVE  Relinked(t, Relink(t, p, elm, n), p, elm, n)
<1>1. CASE p = NULL
  BY <1>1, NullIsNoNode DEF Relink, Relinked, Tree
<1>2. CASE p # NULL
  <2>1. p \in Node /\ SideOf(t, p, elm) \in Side
    BY <1>2 DEF Link, SideOf, Side
  <2>2. ChildIsSet(t, SetChild(t, p, SideOf(t, p, elm), n), p, SideOf(t, p, elm), n)
    BY <2>1, SetChildFields
  <2>3. QED BY <1>2, <2>2 DEF Relink, ChildIsSet, Relinked
<1>3. QED BY <1>1, <1>2

\* A tree with other colors.
Recolored(t, r) ==
  /\ r \in Tree
  /\ r.root = t.root /\ r.child = t.child /\ r.parent = t.parent

ColorIsSet(t, r, n, color) ==
  Recolored(t, r) /\ \A m \in Node : r.red[m] = IF m = n THEN color ELSE t.red[m]

ColorsAreSet(t, r, black, red) ==
  /\ Recolored(t, r)
  /\ \A m \in Node : r.red[m] = IF m = red THEN TRUE ELSE IF m = black THEN FALSE ELSE t.red[m]

\* RB_COLOR becomes black, unless there is no node (nty_tree.h:457-459).
LEMMA SetBlackFields ==
  ASSUME NEW t \in Tree, NEW n \in Link
  PROVE  ColorIsSet(t, SetBlack(t, n), n, FALSE)
<1>1. CASE n = NULL
  BY <1>1, NullIsNoNode DEF SetBlack, Recolored, ColorIsSet
<1>2. CASE n # NULL
  BY <1>2 DEF SetBlack, Recolored, ColorIsSet, Tree, Link
<1>3. QED BY <1>1, <1>2

\* RB_COLOR of a node is assigned.
LEMMA SetRedFields ==
  ASSUME NEW t \in Tree, NEW n \in Node, NEW color \in BOOLEAN
  PROVE  ColorIsSet(t, [t EXCEPT !.red[n] = color], n, color)
BY DEF ColorIsSet, Recolored, Tree

\* RB_SET_BLACKRED (nty_tree.h:314-317).
LEMMA SetBlackRedFields ==
  ASSUME NEW t \in Tree, NEW black \in Node, NEW red \in Node
  PROVE  ColorsAreSet(t, SetBlackRed(t, black, red), black, red)
<1> DEFINE t1 == [t EXCEPT !.red[black] = FALSE]
           t2 == [t1 EXCEPT !.red[red] = TRUE]
<1>1. ColorIsSet(t, t1, black, FALSE)
  BY SetRedFields
<1>2. SetBlackRed(t, black, red) = t2
  BY DEF SetBlackRed
<1> HIDE DEF t1
<1>3. ColorIsSet(t1, t2, red, TRUE)
  BY <1>1, SetRedFields DEF ColorIsSet, Recolored
<1> HIDE DEF t2
<1>4. QED BY <1>1, <1>2, <1>3 DEF ColorIsSet, ColorsAreSet, Recolored

-------------------------------------------------------------------------------
(* Search trees *)

\* The nodes below a link, where G has those below each node.
Under(G, c) == IF c = NULL THEN {} ELSE G[c]

\* At the node n, the links lead to nodes of the tree and back, and all below a child lies
\* on its side.
FormedAt(t, M, G, n) ==
  /\ G[n] \in SUBSET M
  /\ G[n] = {n} \cup Under(G, t.child["left"][n]) \cup Under(G, t.child["right"][n])
  /\ \A side \in Side :
       /\ t.child[side][n] = NULL \/ (t.child[side][n] \in M /\ t.parent[t.child[side][n]] = n)
       /\ \A m \in Under(G, t.child[side][n]) : Before(side, m, n)
  /\ t.parent[n] = NULL => n = t.root
  /\ t.parent[n] # NULL =>
       t.parent[n] \in M /\ n # t.root /\ \E side \in Side : t.child[side][t.parent[n]] = n

\* A search tree of the nodes M.
Formed(t, M, G) ==
  /\ t \in Tree
  /\ M \in SUBSET Node
  /\ Under(G, t.root) = M
  /\ t.root # NULL => t.root \in M
  /\ \A n, m \in M : Key[n] = Key[m] => n = m
  /\ \A n \in M : FormedAt(t, M, G, n)

\* Whether a tree is a search tree does not depend on the colors.
LEMMA RecoloredFormed ==
  ASSUME NEW t, NEW r, NEW M, NEW G, Formed(t, M, G), Recolored(t, r)
  PROVE  Formed(r, M, G)
BY DEF Formed, FormedAt, Recolored

\* What the links at a node of a tree say.
NodeAt(t, M, G, n) ==
  /\ n \in Node /\ n # NULL /\ n \in G[n] /\ G[n] \in SUBSET M
  /\ t.parent[n] = NULL <=> n = t.root
  /\ n # t.root => /\ t.parent[n] \in M /\ t.parent[n] \in Node
                   /\ t.child[SideOf(t, t.parent[n], n)][t.parent[n]] = n
ChildAt(t, M, G, n, side) ==
  LET c == t.child[side][n] IN
  /\ G[n] = {n} \cup Under(G, c) \cup Under(G, t.child[Other(side)][n])
  /\ c \in Link
  /\ c # NULL =>
       /\ c \in M /\ c \in Node /\ t.parent[c] = n /\ Before(side, c, n) /\ c # n
       /\ G[c] \in SUBSET G[n] /\ n \notin G[c] /\ c # t.root
       /\ c # t.child[Other(side)][n] /\ c \in G[c]
       /\ \A m \in G[c] : Before(side, m, n) /\ m \in Node

\* Any node of a search tree has those around it where its links say.
LEMMA At ==
  ASSUME NEW t, NEW M, NEW G, Formed(t, M, G), NEW n \in M
  PROVE  NodeAt(t, M, G, n) /\ \A side \in Side : ChildAt(t, M, G, n, side)
<1>1. \A m \in M : m \in Node /\ m # NULL /\ FormedAt(t, M, G, m)
  BY NullIsNoNode DEF Formed
<1>2. \A m \in M : m \in G[m] /\ G[m] \in SUBSET M
  BY <1>1 DEF FormedAt
<1>3. t.root # NULL => t.root \in M
  BY DEF Formed
<1>4. ASSUME NEW side \in Side
      PROVE  G[n] = {n} \cup Under(G, t.child[side][n]) \cup Under(G, t.child[Other(side)][n])
  BY <1>1 DEF FormedAt, Other, Side
<1>5. ASSUME NEW side \in Side, t.child[side][n] # NULL
      PROVE  LET c == t.child[side][n] IN
                   /\ c \in M /\ c \in Node /\ t.parent[c] = n /\ Before(side, c, n) /\ c # n
                   /\ G[c] \in SUBSET G[n] /\ n \notin G[c] /\ c # t.root
                   /\ c # t.child[Other(side)][n] /\ c \in G[c]
                   /\ \A m \in G[c] : Before(side, m, n) /\ m \in Node
  <2> DEFINE c == t.child[side][n]
  <2>1. c \in M /\ t.parent[c] = n /\ c # NULL
    BY <1>1, <1>5 DEF FormedAt
  <2>2. c \in Node /\ c \in G[c] /\ Under(G, c) = G[c] /\ G[c] \in SUBSET M
    BY <1>1, <1>2, <2>1 DEF Under
  <2>3. \A m \in G[c] : Before(side, m, n) /\ m \in Node
    <3>1. \A m \in Under(G, c) : Before(side, m, n)
      BY <1>1 DEF FormedAt
    <3>2. QED BY <1>1, <2>2, <3>1
  <2>4. G[c] \in SUBSET G[n]
    BY <1>4, <2>2
  <2>5. n \notin G[c]
    BY <2>3, Order
  <2>6. c # t.root
    BY <1>1, <2>1 DEF FormedAt
  <2>7. c # t.child[Other(side)][n]
    <3>1. SUFFICES ASSUME c = t.child[Other(side)][n] PROVE FALSE
      OBVIOUS
    <3>2. \A m \in Under(G, c) : Before(Other(side), m, n)
      BY <1>1, <3>1, Sides DEF FormedAt
    <3>3. Before(side, c, n) /\ Before(Other(side), c, n)
      BY <2>2, <2>3, <3>2
    <3>4. QED BY <1>1, <2>2, <3>3, Order
  <2>8. QED BY <2>1, <2>2, <2>3, <2>4, <2>5, <2>6, <2>7
<1>6. \A side \in Side : t.child[side][n] \in Link
  BY <1>1, TreeFields DEF Formed
<1>7. t.parent[n] = NULL <=> n = t.root
  BY <1>1 DEF FormedAt
<1>8. ASSUME n # t.root
      PROVE  /\ t.parent[n] \in M /\ t.parent[n] \in Node
             /\ t.child[SideOf(t, t.parent[n], n)][t.parent[n]] = n
  BY <1>1, <1>8 DEF FormedAt, SideOf, Side
<1> HIDE DEF FormedAt, Formed
<1>9. NodeAt(t, M, G, n)
  BY <1>1, <1>2, <1>7, <1>8 DEF NodeAt
<1>10. ASSUME NEW side \in Side PROVE ChildAt(t, M, G, n, side)
  BY <1>4, <1>5, <1>6 DEF ChildAt
<1>11. QED BY <1>9, <1>10

-------------------------------------------------------------------------------
(* Rotations *)

\* What a rotation writes.
Rotated(t, r, M, elm, side) ==
  LET tmp   == t.child[Other(side)][elm]
      inner == t.child[side][tmp]
  IN /\ r \in Tree /\ r.red = t.red
     /\ r.root = IF elm = t.root THEN tmp ELSE t.root
     /\ \A n \in M : r.parent[n] = IF n = elm THEN tmp ELSE IF n = tmp THEN t.parent[elm]
                                   ELSE IF n = inner THEN elm ELSE t.parent[n]
     /\ \A n \in M, s \in Side :
          r.child[s][n] = IF n = elm /\ s # side THEN inner ELSE IF n = tmp /\ s = side THEN elm
                          ELSE IF t.child[s][n] = elm THEN tmp ELSE t.child[s][n]

\* The nodes around a rotation are different ones.
LEMMA Around ==
  ASSUME NEW t, NEW M, NEW G, Formed(t, M, G), NEW elm \in M, NEW side \in Side,
         NEW tmp, tmp = t.child[Other(side)][elm], tmp # NULL,
         NEW inner, inner = t.child[side][tmp],
         NEW up, up = t.parent[elm]
  PROVE  /\ elm \in Node /\ tmp \in M /\ tmp \in Node /\ inner \in Link /\ up \in Link
         /\ tmp # elm /\ inner # elm /\ inner # tmp /\ up # elm /\ up # tmp
         /\ inner # NULL => inner \in M /\ inner # up
         /\ up = NULL <=> elm = t.root
         /\ up # NULL => up \in M /\ t.child[SideOf(t, up, elm)][up] = elm
         /\ \A s \in Side, n \in M :
              t.child[s][n] = elm <=> (up # NULL /\ n = up /\ s = SideOf(t, up, elm))
         /\ \A s \in Side, n \in M : t.child[s][n] = tmp => n = elm
<1>1. /\ Other(side) \in Side /\ Other(side) # side /\ Other(Other(side)) = side
      /\ \A s, z \in Side : s = z \/ s = Other(z)
  BY Sides
<1>2. /\ elm \in Node /\ tmp \in M /\ tmp \in Node /\ tmp # elm
      /\ G[tmp] \in SUBSET G[elm] /\ elm \notin G[tmp] /\ tmp \in G[tmp]
  <2>1. NodeAt(t, M, G, elm) /\ ChildAt(t, M, G, elm, Other(side))
    BY <1>1, At, ZenonT(30)
  <2>2. QED BY <2>1 DEF NodeAt, ChildAt
<1>3. inner \in Link /\ (inner # NULL => /\ inner \in M /\ inner # tmp /\ inner \in G[inner]
                                         /\ t.parent[inner] = tmp
                                         /\ G[inner] \in SUBSET G[tmp] /\ tmp \notin G[inner])
  <2>1. ChildAt(t, M, G, tmp, side)
    BY <1>2, At, ZenonT(30)
  <2>2. QED BY <2>1 DEF ChildAt
<1>4. inner # elm /\ inner # tmp /\ elm # NULL
  BY <1>2, <1>3, NullIsNoNode
<1>5. up = NULL <=> elm = t.root
  BY At DEF NodeAt
<1>6. up # NULL => up \in M /\ up \in Node /\ SideOf(t, up, elm) \in Side
      /\ t.child[SideOf(t, up, elm)][up] = elm
  <2>1. NodeAt(t, M, G, elm)
    BY At
  <2>2. QED BY <1>5, <2>1 DEF NodeAt, SideOf, Side
<1>7. ASSUME up # NULL PROVE elm \in G[up] /\ up \notin G[elm]
  <2>1. ChildAt(t, M, G, up, SideOf(t, up, elm))
    BY <1>6, <1>7, At, Zenon
  <2>2. G[elm] \in SUBSET G[up] /\ up \notin G[elm] /\ elm \in G[elm]
    BY <1>4, <1>6, <1>7, <2>1, ZenonT(30) DEF ChildAt
  <2>3. QED BY <2>2
<1>8. up # elm /\ up # tmp
  BY <1>2, <1>4, <1>7, NullIsNoNode, Zenon
<1>9. inner # NULL => inner # up
  <2>1. inner # NULL => inner \in G[elm]
    BY <1>2, <1>3
  <2>2. QED BY <1>3, <1>7, <2>1, Zenon
<1>10. ASSUME NEW s \in Side, NEW n \in M, t.child[s][n] = elm
       PROVE  up # NULL /\ n = up /\ s = SideOf(t, up, elm)
  <2>1. NodeAt(t, M, G, n) /\ ChildAt(t, M, G, n, s)
    BY At
  <2>2. n = up /\ n # NULL /\ t.child[Other(s)][n] # elm
    BY <1>4, <1>10, <2>1 DEF NodeAt, ChildAt
  <2>3. SideOf(t, up, elm) = s
    BY <1>1, <1>6, <2>2, SMTT(30)
  <2>4. QED BY <2>2, <2>3
<1>11. ASSUME NEW s \in Side, NEW n \in M, t.child[s][n] = tmp PROVE n = elm
  <2>1. ChildAt(t, M, G, elm, Other(side)) /\ ChildAt(t, M, G, n, s)
    BY <1>1, At
  <2>2. QED BY <1>11, <2>1 DEF ChildAt
<1>12. up \in Link
  BY <1>6 DEF Link
<1>13. QED BY <1>2, <1>3, <1>4, <1>5, <1>6, <1>8, <1>9, <1>10, <1>11, <1>12

\* A rotation writes the links that it should, wherever it is made (nty_tree.h:325-364).
LEMMA RotateWrites ==
  ASSUME NEW t, NEW M, NEW G, Formed(t, M, G), NEW elm \in M, NEW side \in Side,
         t.child[Other(side)][elm] # NULL
  PROVE  Rotated(t, Rotate(t, elm, side), M, elm, side)
<1>0. PICK other : other = Other(side)
  OBVIOUS
<1>1. PICK tmp : tmp = t.child[other][elm]
  OBVIOUS
<1>2. PICK inner, up : inner = t.child[side][tmp] /\ up = t.parent[elm]
  OBVIOUS
<1>3. /\ other \in Side /\ other # side /\ t \in Tree /\ M \in SUBSET Node
      /\ \A s \in Side : s # side => s = other
  BY <1>0, Sides DEF Formed
<1>4. /\ elm \in Node /\ tmp \in M /\ tmp \in Node /\ inner \in Link /\ up \in Link
      /\ tmp # elm /\ inner # elm /\ inner # tmp /\ up # elm /\ up # tmp
      /\ inner # NULL => inner \in M /\ inner # up
      /\ up = NULL <=> elm = t.root
      /\ up # NULL => up \in M /\ t.child[SideOf(t, up, elm)][up] = elm
      /\ \A s \in Side, n \in M :
           t.child[s][n] = elm <=> (up # NULL /\ n = up /\ s = SideOf(t, up, elm))
  BY <1>0, <1>1, <1>2, Around
<1>5. elm \in Link /\ tmp \in Link
  BY <1>4 DEF Link
<1>6. PICK a : a = SetChild(t, elm, other, inner)
  OBVIOUS
<1>7. ChildIsSet(t, a, elm, other, inner)
  BY <1>3, <1>4, <1>6, SetChildFields
<1>8. PICK b : b = SetParent(a, inner, elm)
  OBVIOUS
<1>9. ParentIsSet(a, b, inner, elm)
  BY <1>4, <1>5, <1>7, <1>8, SetParentFields DEF ChildIsSet
<1>10. PICK c : c = SetParent(b, tmp, up)
  OBVIOUS
<1>11. ParentIsSet(b, c, tmp, up)
  <2>1. b \in Tree
    BY <1>9 DEF ParentIsSet
  <2>2. QED BY <1>4, <1>5, <1>10, <2>1, SetParentFields
<1>12. PICK d : d = Relink(c, up, elm, tmp)
  OBVIOUS
<1>13. Relinked(c, d, up, elm, tmp)
  BY <1>4, <1>5, <1>11, <1>12, RelinkFields DEF ParentIsSet
<1>14. PICK e : e = SetChild(d, tmp, side, elm)
  OBVIOUS
<1>15. ChildIsSet(d, e, tmp, side, elm)
  BY <1>4, <1>5, <1>13, <1>14, SetChildFields DEF Relinked
<1>16. PICK r : r = SetParent(e, elm, tmp)
  OBVIOUS
<1>17. ParentIsSet(e, r, elm, tmp)
  BY <1>5, <1>15, <1>16, SetParentFields DEF ChildIsSet
<1>18. Rotate(t, elm, side) = r
  <2>1. Rotate(t, elm, side) = Exchanged(t, elm, tmp, side)
    BY <1>0, <1>1 DEF Rotate
  <2>2. Exchanged(t, elm, tmp, side) = r
    BY <1>0, <1>2, <1>6, <1>8, <1>10, <1>12, <1>14, <1>16 DEF Exchanged
  <2>3. QED BY <2>1, <2>2
<1>19. up # NULL => SideOf(c, up, elm) = SideOf(t, up, elm)
  <2>1. up # NULL => up \in Node /\ up # elm
    BY <1>3, <1>4
  <2>2. up # NULL => c.child["left"][up] = t.child["left"][up]
    BY <1>7, <1>9, <1>11, <2>1, Sides DEF ChildIsSet, ParentIsSet
  <2>3. QED BY <2>2 DEF SideOf
<1>20. r \in Tree /\ r.red = t.red /\ r.root = IF elm = t.root THEN tmp ELSE t.root
  BY <1>4, <1>7, <1>9, <1>11, <1>13, <1>15, <1>17 DEF ChildIsSet, ParentIsSet, Relinked
<1>21. ASSUME NEW n \in M
       PROVE  r.parent[n] = IF n = elm THEN tmp ELSE IF n = tmp THEN up
                            ELSE IF n = inner THEN elm ELSE t.parent[n]
  BY <1>3, <1>7, <1>9, <1>11, <1>13, <1>15, <1>17 DEF ChildIsSet, ParentIsSet, Relinked
<1>22. ASSUME NEW n \in M, NEW s \in Side
       PROVE  r.child[s][n] = IF n = elm /\ s # side THEN inner ELSE IF n = tmp /\ s = side THEN elm
                              ELSE IF t.child[s][n] = elm THEN tmp ELSE t.child[s][n]
  <2>1. n \in Node /\ n # NULL /\ (s # side => s = other)
    BY <1>3, NullIsNoNode
  <2>2. r.child[s][n] = IF s = side /\ n = tmp THEN elm
                        ELSE IF n = up /\ s = SideOf(c, up, elm) THEN tmp
                        ELSE IF s = other /\ n = elm THEN inner ELSE t.child[s][n]
    BY <1>7, <1>9, <1>11, <1>13, <1>15, <1>17, <2>1 DEF ChildIsSet, ParentIsSet, Relinked
  <2>3. QED BY <1>3, <1>4, <1>19, <2>1, <2>2
<1>23. QED BY <1>0, <1>1, <1>2, <1>18, <1>20, <1>21, <1>22 DEF Rotated

\* What is below each node after a rotation.
Turned(t, G, elm, side) ==
  LET tmp == t.child[Other(side)][elm] IN
  [n \in Node |-> IF n = tmp THEN G[elm]
                  ELSE IF n = elm THEN {elm} \cup Under(G, t.child[side][elm])
                                             \cup Under(G, t.child[side][tmp])
                  ELSE G[n]]

\* A rotation keeps the tree a search tree.
LEMMA RotateKeeps ==
  ASSUME NEW t, NEW M, NEW G, Formed(t, M, G), NEW elm \in M, NEW side \in Side,
         t.child[Other(side)][elm] # NULL, NEW r, Rotated(t, r, M, elm, side)
  PROVE  Formed(r, M, Turned(t, G, elm, side))
<1> DEFINE other == Other(side)
           tmp   == t.child[other][elm]
           inner == t.child[side][tmp]
           outer == t.child[other][tmp]
           near  == t.child[side][elm]
           up    == t.parent[elm]
           H     == Turned(t, G, elm, side)
<1>2. other \in Side /\ other # side /\ Other(other) = side /\ t \in Tree /\ M \in SUBSET Node
      /\ \A s \in Side : s = side \/ s = other
  BY Sides DEF Formed
<1>3. /\ elm \in Node /\ tmp \in M /\ tmp \in Node /\ inner \in Link /\ up \in Link
      /\ tmp # elm /\ inner # elm /\ inner # tmp /\ up # elm /\ up # tmp
      /\ inner # NULL => inner \in M /\ inner # up
      /\ up = NULL <=> elm = t.root
      /\ up # NULL => up \in M /\ t.child[SideOf(t, up, elm)][up] = elm
      /\ \A s \in Side, n \in M :
           t.child[s][n] = elm <=> (up # NULL /\ n = up /\ s = SideOf(t, up, elm))
      /\ \A s \in Side, n \in M : t.child[s][n] = tmp => n = elm
  BY Around, SMTT(30)
<1>4. /\ r \in Tree
      /\ r.root = IF elm = t.root THEN tmp ELSE t.root
      /\ \A n \in M : r.parent[n] = IF n = elm THEN tmp ELSE IF n = tmp THEN up
                                    ELSE IF n = inner THEN elm ELSE t.parent[n]
      /\ \A n \in M, s \in Side :
           r.child[s][n] = IF n = elm /\ s # side THEN inner ELSE IF n = tmp /\ s = side THEN elm
                           ELSE IF t.child[s][n] = elm THEN tmp ELSE t.child[s][n]
  BY Zenon DEF Rotated
<1>5. /\ \A n \in Node : H[n] = IF n = tmp THEN G[elm] ELSE IF n = elm THEN H[elm] ELSE G[n]
      /\ H[elm] = {elm} \cup Under(G, near) \cup Under(G, inner)
  BY <1>3 DEF Turned
<1>6. \A n \in M : /\ n \in Node /\ n # NULL /\ n \in G[n] /\ G[n] \in SUBSET M
                   /\ t.parent[n] = NULL <=> n = t.root
                   /\ n # t.root => t.parent[n] \in M
  BY At DEF NodeAt
<1>7. \A n \in M, s \in Side : ChildAt(t, M, G, n, s)
  BY At
<1> HIDE DEF H, tmp, inner, outer, near, up, other
<1>8. ChildAt(t, M, G, elm, side) /\ ChildAt(t, M, G, elm, other) /\ ChildAt(t, M, G, tmp, side)
      /\ ChildAt(t, M, G, tmp, other)
  BY <1>2, <1>3, <1>7
\* Below a link other than those at elm and tmp lies what lay there before.
<1>9. \A c \in Link : c # elm /\ c # tmp => Under(H, c) = Under(G, c)
  BY <1>5 DEF Under, Link
<1>10. Under(H, tmp) = G[elm] /\ Under(H, elm) = H[elm] /\ tmp # NULL /\ elm # NULL
  BY <1>3, <1>5, <1>6, ZenonT(30) DEF Under
<1>11. near # elm /\ near # tmp /\ outer # elm /\ outer # tmp /\ near \in Link /\ outer \in Link
  <2>1. near = t.child[side][elm] /\ outer = t.child[other][tmp] /\ tmp = t.child[other][elm]
    BY Zenon DEF near, outer, tmp
  <2>2. near # NULL => near # elm /\ near # tmp
    BY <1>2, <1>8, <2>1, ZenonT(30) DEF ChildAt
  <2>3. outer # NULL => outer # tmp /\ outer # elm
    BY <1>2, <1>8, <1>10, <2>1 DEF ChildAt
  <2>4. QED BY <1>2, <1>8, <1>10, <2>1, <2>2, <2>3 DEF ChildAt
<1>12. r.child[side][elm] = near /\ r.child[other][elm] = inner
       /\ r.child[side][tmp] = elm /\ r.child[other][tmp] = outer
  <2>1. near = t.child[side][elm] /\ outer = t.child[other][tmp]
    BY ZenonT(30) DEF near, outer
  <2>2. QED BY <1>2, <1>3, <1>4, <1>11, <2>1
<1>13. G[elm] = {elm} \cup Under(G, near) \cup G[tmp]
       /\ G[tmp] = {tmp} \cup Under(G, inner) \cup Under(G, outer)
  <2>1. Under(G, tmp) = G[tmp]
    BY <1>10, Zenon DEF Under
  <2>2. QED BY <1>2, <1>8, <2>1 DEF near, outer, inner, tmp, ChildAt
<1>14. /\ \A m \in Under(G, near) : Before(side, m, elm) /\ m \in Node
       /\ \A m \in G[tmp] : Before(other, m, elm) /\ m \in Node
       /\ \A m \in Under(G, inner) : Before(side, m, tmp) /\ m \in Node
       /\ \A m \in Under(G, outer) : Before(other, m, tmp) /\ m \in Node
  BY <1>2, <1>8, <1>10, ZenonT(30) DEF near, outer, inner, tmp, Under, ChildAt
<1>15. FormedAt(r, M, H, elm)
  <2>1. H[elm] \in SUBSET M
    BY <1>5, <1>6, <1>13
  <2>2. Under(H, near) = Under(G, near) /\ Under(H, inner) = Under(G, inner)
    BY <1>3, <1>9, <1>11
  <2>3. H[elm] = {elm} \cup Under(H, r.child["left"][elm]) \cup Under(H, r.child["right"][elm])
    <3>1. H[elm] = {elm} \cup Under(H, r.child[side][elm]) \cup Under(H, r.child[other][elm])
      BY <1>5, <1>12, <2>2
    <3>2. QED BY <1>2, <3>1 DEF Side
  <2>4. r.parent[elm] = tmp /\ tmp \in M /\ elm # r.root /\ r.child[side][tmp] = elm /\ tmp # NULL
    BY <1>3, <1>4, <1>10, <1>12
  <2>5. ASSUME NEW s \in Side
        PROVE  /\ r.child[s][elm] = NULL \/ (r.child[s][elm] \in M /\ r.parent[r.child[s][elm]] = elm)
               /\ \A m \in Under(H, r.child[s][elm]) : Before(s, m, elm)
    <3>1. near # NULL => near \in M /\ t.parent[near] = elm
      BY <1>8 DEF near, ChildAt
    <3>2. inner # NULL => inner \in M /\ t.parent[inner] = tmp
      BY <1>8 DEF inner, ChildAt
    <3>3. near # NULL => r.parent[near] = elm
      BY <1>3, <1>4, <1>11, <3>1, <3>2
    <3>4. inner # NULL => r.parent[inner] = elm
      BY <1>3, <1>4, <3>2
    <3>5. \A m \in Under(G, inner) : Before(other, m, elm)
      BY <1>13, <1>14
    <3>6. QED BY <1>2, <1>12, <1>14, <2>2, <3>1, <3>2, <3>3, <3>4, <3>5
  <2>6. QED BY <2>1, <2>3, <2>4, <2>5 DEF FormedAt
<1>16. FormedAt(r, M, H, tmp)
  <2>1. H[tmp] = G[elm] /\ H[tmp] \in SUBSET M
    BY <1>3, <1>5, <1>6
  <2>2. Under(H, outer) = Under(G, outer)
    BY <1>9, <1>11
  <2>3. H[tmp] = {tmp} \cup Under(H, r.child["left"][tmp]) \cup Under(H, r.child["right"][tmp])
    <3>1. H[tmp] = {tmp} \cup Under(H, r.child[side][tmp]) \cup Under(H, r.child[other][tmp])
      BY <1>5, <1>10, <1>12, <1>13, <2>1, <2>2
    <3>2. QED BY <1>2, <3>1 DEF Side
  <2>4. r.parent[tmp] = up
    BY <1>3, <1>4
  <2>5. up = NULL => tmp = r.root
    BY <1>3, <1>4
  <2>6. up # NULL => up \in M /\ tmp # r.root /\ \E s \in Side : r.child[s][up] = tmp
    <3>1. SUFFICES ASSUME up # NULL PROVE up \in M /\ tmp # r.root
                          /\ \E s \in Side : r.child[s][up] = tmp
      OBVIOUS
    <3>2. SideOf(t, up, elm) \in Side
      BY DEF SideOf, Side
    <3>3. r.child[SideOf(t, up, elm)][up] = tmp
      BY <1>3, <1>4, <3>1, <3>2, ZenonT(30)
    <3>4. tmp # t.root
      BY <1>2, <1>8, <1>10 DEF tmp, ChildAt
    <3>5. QED BY <1>3, <1>4, <3>1, <3>2, <3>3, <3>4
  <2>7. ASSUME NEW s \in Side
        PROVE  /\ r.child[s][tmp] = NULL \/ (r.child[s][tmp] \in M /\ r.parent[r.child[s][tmp]] = tmp)
               /\ \A m \in Under(H, r.child[s][tmp]) : Before(s, m, tmp)
    <3>1. CASE s = side
      <4>1. r.parent[elm] = tmp
        BY <1>4
      <4>2. Before(side, elm, tmp) /\ tmp \in G[tmp]
        BY <1>2, <1>3, <1>6, <1>14, Order
      <4>3. \A m \in H[elm] : Before(side, m, tmp)
        BY <1>3, <1>5, <1>14, <4>2, Order
      <4>4. QED BY <1>10, <1>12, <3>1, <4>1, <4>3
    <3>2. CASE s = other
      <4>1. outer # NULL => outer \in M /\ t.parent[outer] = tmp /\ outer # inner
        BY <1>2, <1>3, <1>8 DEF outer, inner, ChildAt
      <4>2. outer # NULL => r.parent[outer] = tmp
        BY <1>4, <1>11, <4>1
      <4>3. QED BY <1>12, <1>14, <2>2, <3>2, <4>1, <4>2, SMTT(30)
    <3>3. QED BY <1>2, <3>1, <3>2
  <2>8. QED BY <2>1, <2>3, <2>4, <2>5, <2>6, <2>7 DEF FormedAt
<1>17. ASSUME NEW n \in M, n # elm, n # tmp PROVE FormedAt(r, M, H, n)
  <2>1. H[n] = G[n] /\ H[n] \in SUBSET M
    BY <1>5, <1>6, <1>17
  <2>2. ASSUME NEW s \in Side
        PROVE  /\ Under(H, r.child[s][n]) = Under(G, t.child[s][n])
               /\ r.child[s][n] = NULL \/ (r.child[s][n] \in M /\ r.parent[r.child[s][n]] = n)
               /\ \A m \in Under(H, r.child[s][n]) : Before(s, m, n)
    <3>1. ChildAt(t, M, G, n, s)
      BY <1>7
    <3>2. CASE t.child[s][n] = elm
      <4>1. r.child[s][n] = tmp /\ n = up
        BY <1>3, <1>4, <1>17, <3>2
      <4>2. Under(H, r.child[s][n]) = Under(G, t.child[s][n])
        BY <1>10, <3>2, <4>1 DEF Under
      <4>3. r.parent[tmp] = n
        BY <1>3, <1>4, <4>1
      <4>4. QED BY <1>3, <1>10, <3>1, <3>2, <4>1, <4>2, <4>3 DEF Under, ChildAt
    <3>3. CASE t.child[s][n] # elm
      <4>1. r.child[s][n] = t.child[s][n] /\ t.child[s][n] # tmp /\ t.child[s][n] \in Link
        BY <1>3, <1>4, <1>17, <3>1, <3>3 DEF ChildAt
      <4>2. Under(H, r.child[s][n]) = Under(G, t.child[s][n])
        BY <1>9, <3>3, <4>1
      <4>3. t.child[s][n] # NULL => t.child[s][n] # inner
        <5>1. inner # NULL => t.parent[inner] = tmp
          BY <1>8 DEF inner, ChildAt
        <5>2. QED BY <1>17, <3>1, <5>1 DEF ChildAt
      <4>4. t.child[s][n] # NULL => r.parent[t.child[s][n]] = n
        BY <1>4, <3>1, <3>3, <4>1, <4>3 DEF ChildAt
      <4>5. QED BY <3>1, <4>1, <4>2, <4>4 DEF Under, ChildAt
    <3>4. QED BY <3>2, <3>3
  <2>3. H[n] = {n} \cup Under(H, r.child["left"][n]) \cup Under(H, r.child["right"][n])
    <3>1. G[n] = {n} \cup Under(G, t.child["left"][n]) \cup Under(G, t.child["right"][n])
      <4>1. ChildAt(t, M, G, n, "left")
        BY <1>7, Sides
      <4>2. QED BY <4>1, Sides DEF ChildAt
    <3>2. QED BY <2>1, <2>2, <3>1, Sides
  <2>4. r.parent[n] = NULL => n = r.root
    BY <1>4, <1>6, <1>10, <1>17
  <2>5. ASSUME r.parent[n] # NULL
        PROVE  r.parent[n] \in M /\ n # r.root /\ \E s \in Side : r.child[s][r.parent[n]] = n
    <3>1. CASE n = inner
      <4>1. r.parent[n] = elm /\ r.child[other][elm] = n /\ n # t.root
        BY <1>4, <1>8, <1>6, <1>12, <1>17, <3>1 DEF inner, ChildAt
      <4>2. QED BY <1>2, <1>4, <1>17, <4>1
    <3>2. CASE n # inner
      <4>1. r.parent[n] = t.parent[n]
        BY <1>4, <1>17, <3>2
      <4>2. n # t.root /\ t.parent[n] \in M
        BY <1>6, <2>5, <4>1
      <4>3. PICK s \in Side : t.child[s][t.parent[n]] = n
        BY <4>2 DEF Formed, FormedAt
      <4>4. CASE t.parent[n] = elm
        <5>1. s = side
          BY <1>2, <1>17, <4>3, <4>4 DEF tmp
        <5>2. r.child[s][elm] = n
          BY <1>12, <4>3, <4>4, <5>1 DEF near
        <5>3. QED BY <1>4, <1>17, <4>1, <4>2, <4>4, <5>2
      <4>5. CASE t.parent[n] = tmp
        <5>1. s = other
          BY <1>2, <3>2, <4>3, <4>5 DEF inner
        <5>2. r.child[s][tmp] = n
          BY <1>12, <4>3, <4>5, <5>1 DEF outer
        <5>3. QED BY <1>4, <1>17, <4>1, <4>2, <4>5, <5>2
      <4>6. CASE t.parent[n] # elm /\ t.parent[n] # tmp
        <5>1. r.child[s][t.parent[n]] = n
          BY <1>4, <1>17, <4>2, <4>3, <4>6
        <5>2. QED BY <1>4, <1>17, <4>1, <4>2, <5>1
      <4>7. QED BY <4>4, <4>5, <4>6
    <3>3. QED BY <3>1, <3>2
  <2>6. QED BY <2>1, <2>2, <2>3, <2>4, <2>5 DEF FormedAt
<1>18. Under(H, r.root) = M
  <2>1. t.root # NULL => t.root \in M
    BY DEF Formed
  <2>2. t.root \in Link /\ t.root # tmp
    <3>1. t.root # tmp
      BY <1>2, <1>8, <1>10 DEF tmp, ChildAt
    <3>2. QED BY <3>1, TreeFields, ZenonT(30) DEF Formed
  <2>3. Under(G, t.root) = M
    BY DEF Formed
  <2>4. CASE elm = t.root
    BY <1>4, <1>10, <2>3, <2>4 DEF Under
  <2>5. CASE elm # t.root
    BY <1>4, <1>9, <2>2, <2>3, <2>5
  <2>6. QED BY <2>4, <2>5
<1>19. r.root # NULL => r.root \in M
  BY <1>3, <1>4 DEF Formed
<1>20. \A n, m \in M : Key[n] = Key[m] => n = m
  BY DEF Formed
<1>21. \A n \in M : FormedAt(r, M, H, n)
  BY <1>15, <1>16, <1>17
<1>22. Formed(r, M, H)
  BY <1>2, <1>4, <1>18, <1>19, <1>20, <1>21 DEF Formed
<1>23. QED BY <1>22 DEF H

-------------------------------------------------------------------------------
(* Black heights and red pairs *)

\* The black height of what is below a link, where D has that of each node.
Height(D, c) == IF c = NULL THEN 0 ELSE D[c]

Weight(t, n) == IF t.red[n] THEN 0 ELSE 1

\* What one black node too few on the side hs of the node hp makes up for.
Hole(n, s, hp, hs) == IF n = hp /\ s = hs THEN 1 ELSE 0

\* Every way down from a node passes as many black nodes, except that one is missing on
\* the side hs of hp.
Balanced(t, M, D, hp, hs) ==
  \A n \in M :
    /\ D[n] \in Nat
    /\ \A s \in Side :
         D[n] = Height(D, t.child[s][n]) + Hole(n, s, hp, hs) + Weight(t, n)

\* A red node with a red child.
RedPair(t, n, s) == t.child[s][n] # NULL /\ t.red[n] /\ t.red[t.child[s][n]]

\* What it takes to see that a tree is balanced with other heights.
LEMMA HeightIsNat ==
  ASSUME NEW t, NEW M, NEW G, Formed(t, M, G), NEW D, NEW hp, NEW hs,
         Balanced(t, M, D, hp, hs)
  PROVE  /\ \A n \in M, s \in Side : Height(D, t.child[s][n]) \in Nat
         /\ Height(D, NULL) = 0
         /\ \A n \in M : Height(D, n) = D[n] /\ D[n] \in Nat
<1>1. \A n \in M : D[n] \in Nat
  BY DEF Balanced
<1>2. \A n \in M, s \in Side : t.child[s][n] = NULL \/ t.child[s][n] \in M
  <2>1. TAKE n \in M, s \in Side
  <2>2. ChildAt(t, M, G, n, s)
    BY At
  <2>3. QED BY <2>2 DEF ChildAt
<1>3. \A n \in M : n # NULL
  BY NullIsNoNode, SMTT(30) DEF Formed
<1>4. QED BY <1>1, <1>2, <1>3 DEF Height

\* The nodes of a rotation and what is below them, as links before and after.
LEMMA Turning ==
  ASSUME NEW t, NEW M, NEW G, Formed(t, M, G), NEW elm \in M, NEW side \in Side,
         NEW tmp, tmp = t.child[Other(side)][elm], tmp # NULL,
         NEW r, Rotated(t, r, M, elm, side)
  PROVE  /\ tmp \in M /\ tmp # elm
         /\ r.child[side][elm] = t.child[side][elm] /\ t.child[side][elm] \notin {elm, tmp}
         /\ r.child[Other(side)][elm] = t.child[side][tmp] /\ t.child[side][tmp] \notin {elm, tmp}
         /\ r.child[side][tmp] = elm
         /\ r.child[Other(side)][tmp] = t.child[Other(side)][tmp]
         /\ t.child[Other(side)][tmp] \notin {elm, tmp}
         /\ \A n \in M, s \in Side : n \notin {elm, tmp} =>
              /\ t.child[s][n] # tmp
              /\ r.child[s][n] = IF t.child[s][n] = elm THEN tmp ELSE t.child[s][n]
<1>1. /\ Other(side) \in Side /\ Other(side) # side /\ Other(Other(side)) = side
  BY Sides
<1>2. PICK inner, up : inner = t.child[side][tmp] /\ up = t.parent[elm]
  OBVIOUS
<1>3. /\ elm \in Node /\ tmp \in M /\ tmp \in Node /\ inner \in Link /\ up \in Link
      /\ tmp # elm /\ inner # elm /\ inner # tmp /\ up # elm /\ up # tmp
      /\ inner # NULL => inner \in M /\ inner # up
      /\ \A s \in Side, n \in M :
           t.child[s][n] = elm <=> (up # NULL /\ n = up /\ s = SideOf(t, up, elm))
      /\ \A s \in Side, n \in M : t.child[s][n] = tmp => n = elm
  BY <1>2, Around
<1>4. /\ \A n \in M, s \in Side :
           r.child[s][n] = IF n = elm /\ s # side THEN inner ELSE IF n = tmp /\ s = side THEN elm
                           ELSE IF t.child[s][n] = elm THEN tmp ELSE t.child[s][n]
  BY <1>2 DEF Rotated
<1>5. ChildAt(t, M, G, elm, side) /\ ChildAt(t, M, G, elm, Other(side))
  BY <1>1, At
<1>6. t.child[side][elm] \notin {elm, tmp}
  <2>1. elm # NULL
    <3>1. NodeAt(t, M, G, elm)
      BY At
    <3>2. QED BY <3>1 DEF NodeAt
  <2>2. QED BY <1>1, <1>5, <2>1 DEF ChildAt
<1>7. t.child[Other(side)][tmp] \notin {elm, tmp}
  BY <1>1, <1>3
<1>8. QED BY <1>1, <1>2, <1>3, <1>4, <1>6, <1>7

\* A black node and its red child on the other side swap their colors and are turned
\* round: the black heights are kept, even where a black node is missing on that side.
LEMMA SwapBalanced ==
  ASSUME NEW t, NEW M, NEW G, Formed(t, M, G), NEW D, NEW hp, NEW hs,
         Balanced(t, M, D, hp, hs),
         NEW elm \in M, NEW side \in Side, NEW tmp, tmp = t.child[Other(side)][elm], tmp # NULL,
         ~t.red[elm], t.red[tmp], hp # tmp, hp = elm => hs = side,
         NEW v, Recolored(t, v), ~v.red[tmp], v.red[elm],
         \A n \in M : n \notin {elm, tmp} => v.red[n] = t.red[n],
         NEW r, Rotated(v, r, M, elm, side)
  PROVE  \E E : Balanced(r, M, E, hp, hs)
<1> DEFINE E == [n \in Node |-> IF n = tmp THEN D[elm] ELSE IF n = elm THEN D[tmp] ELSE D[n]]
           other == Other(side)
<1>1. Formed(v, M, G) /\ v.child = t.child /\ r.red = v.red
  BY RecoloredFormed DEF Recolored, Rotated
<1>2. other \in Side /\ other # side /\ \A s \in Side : s = side \/ s = other
  BY Sides, SMTT(30)
<1> HIDE DEF other
<1>3. /\ tmp \in M /\ tmp # elm
      /\ r.child[side][elm] = t.child[side][elm] /\ t.child[side][elm] \notin {elm, tmp}
      /\ r.child[other][elm] = t.child[side][tmp] /\ t.child[side][tmp] \notin {elm, tmp}
      /\ r.child[side][tmp] = elm
      /\ r.child[other][tmp] = t.child[other][tmp]
      /\ t.child[other][tmp] \notin {elm, tmp}
      /\ \A n \in M, s \in Side : n \notin {elm, tmp} =>
           /\ t.child[s][n] # tmp
           /\ r.child[s][n] = IF t.child[s][n] = elm THEN tmp ELSE t.child[s][n]
  <2>1. tmp = v.child[Other(side)][elm]
    BY <1>1
  <2>2. /\ tmp \in M /\ tmp # elm
        /\ r.child[side][elm] = v.child[side][elm] /\ v.child[side][elm] \notin {elm, tmp}
        /\ r.child[Other(side)][elm] = v.child[side][tmp] /\ v.child[side][tmp] \notin {elm, tmp}
        /\ r.child[side][tmp] = elm
        /\ r.child[Other(side)][tmp] = v.child[Other(side)][tmp]
        /\ v.child[Other(side)][tmp] \notin {elm, tmp}
        /\ \A n \in M, s \in Side : n \notin {elm, tmp} =>
             /\ v.child[s][n] # tmp
             /\ r.child[s][n] = IF v.child[s][n] = elm THEN tmp ELSE v.child[s][n]
    BY <1>1, <2>1, Turning, SMTT(30)
  <2>3. QED BY <1>1, <2>2 DEF other
<1>4. M \subseteq Node /\ NULL \notin Node /\ \A n \in M, s \in Side : t.child[s][n] \in Link
  BY NullIsNoNode, TreeFields DEF Formed
<1>5. /\ \A n \in M, s \in Side : Height(D, t.child[s][n]) \in Nat
      /\ \A n \in M : Height(D, n) = D[n] /\ D[n] \in Nat
  BY HeightIsNat
<1>6. /\ \A c \in Link : c \notin {elm, tmp} => Height(E, c) = Height(D, c)
      /\ Height(E, elm) = D[tmp] /\ Height(E, tmp) = D[elm]
      /\ E[elm] = D[tmp] /\ E[tmp] = D[elm]
      /\ \A n \in M : n \notin {elm, tmp} => E[n] = D[n]
  BY <1>3, <1>4 DEF Height, Link
<1> HIDE DEF E
<1>7. /\ D[elm] = Height(D, t.child[side][elm]) + Hole(elm, side, hp, hs) + 1
      /\ D[elm] = Height(D, tmp) + Hole(elm, other, hp, hs) + 1
      /\ D[tmp] = Height(D, t.child[side][tmp]) + Hole(tmp, side, hp, hs)
      /\ D[tmp] = Height(D, t.child[other][tmp]) + Hole(tmp, other, hp, hs)
  <2>1. Weight(t, elm) = 1 /\ Weight(t, tmp) = 0
    BY DEF Weight
  <2>2. Hole(tmp, side, hp, hs) \in Nat /\ Hole(tmp, other, hp, hs) \in Nat
    BY DEF Hole
  <2>3. QED BY <1>2, <1>3, <1>5, <2>1, <2>2 DEF Balanced, other
<1>8. /\ Hole(elm, other, hp, hs) = 0 /\ Hole(tmp, side, hp, hs) = 0 /\ Hole(tmp, other, hp, hs) = 0
      /\ Hole(elm, side, hp, hs) \in Nat
  BY <1>2 DEF Hole
<1>9. ASSUME NEW n \in M, NEW s \in Side
      PROVE  E[n] = Height(E, r.child[s][n]) + Hole(n, s, hp, hs) + Weight(r, n)
  <2>1. CASE n = elm
    <3>1. Weight(r, n) = 0
      BY <1>1, <2>1, ZenonT(30) DEF Weight
    <3>2. CASE s = side
      <4>1. Height(E, r.child[s][n]) = Height(D, t.child[side][elm])
        <5>1. r.child[s][n] = t.child[side][elm] /\ t.child[side][elm] \notin {elm, tmp}
          BY <1>3, <2>1, <3>2, Zenon
        <5>2. t.child[side][elm] \in Link
          BY <1>4
        <5>3. QED BY <1>6, <5>1, <5>2, ZenonT(30)
      <4>2. QED BY <1>3, <1>5, <1>6, <1>7, <1>8, <2>1, <3>1, <3>2, <4>1
    <3>3. CASE s = other
      <4>1. Height(E, r.child[s][n]) = Height(D, t.child[side][tmp])
        BY <1>3, <1>4, <1>6, <2>1, <3>3
      <4>2. QED BY <1>3, <1>5, <1>6, <1>7, <1>8, <2>1, <3>1, <3>3, <4>1, SMTT(30)
    <3>4. QED BY <1>2, <3>2, <3>3
  <2>2. CASE n = tmp
    <3>1. Weight(r, n) = 1
      BY <1>1, <2>2, ZenonT(30) DEF Weight
    <3>2. CASE s = side
      <4>1. Height(E, r.child[s][n]) = D[tmp]
        BY <1>3, <1>6, <2>2, <3>2, ZenonT(30)
      <4>2. QED BY <1>3, <1>5, <1>6, <1>7, <1>8, <2>2, <3>1, <3>2, <4>1
    <3>3. CASE s = other
      <4>1. Height(E, r.child[s][n]) = Height(D, t.child[other][tmp])
        BY <1>3, <1>4, <1>6, <2>2, <3>3
      <4>2. QED BY <1>3, <1>5, <1>6, <1>7, <1>8, <2>2, <3>1, <3>3, <4>1, SMTT(30)
    <3>4. QED BY <1>2, <3>2, <3>3
  <2>3. CASE n \notin {elm, tmp}
    <3>1. Weight(r, n) = Weight(t, n)
      BY <1>1, <2>3, ZenonT(30) DEF Weight
    <3>2. Height(E, r.child[s][n]) = Height(D, t.child[s][n])
      BY <1>3, <1>4, <1>5, <1>6, <2>3, SMTT(30)
    <3>3. QED BY <1>6, <2>3, <3>1, <3>2 DEF Balanced
  <2>4. QED BY <2>1, <2>2, <2>3
<1>10. \A n \in M : E[n] \in Nat
  BY <1>3, <1>5, <1>6
<1>11. Balanced(r, M, E, hp, hs)
  BY <1>9, <1>10 DEF Balanced
<1>12. QED BY <1>11

\* No red pair is left, if the lower node was black on the side where it goes down, and
\* only the pairs there were of the red child that comes up end at e.
LEMMA SwapPairs ==
  ASSUME NEW t, NEW M, NEW G, Formed(t, M, G),
         NEW elm \in M, NEW side \in Side, NEW tmp, tmp = t.child[Other(side)][elm], tmp # NULL,
         IsBlack(t, t.child[side][elm]),
         \A n \in M, s \in Side : RedPair(t, n, s) => n = tmp /\ s = Other(side),
         NEW v, Recolored(t, v), ~v.red[tmp],
         \A n \in M : n \notin {elm, tmp} => v.red[n] = t.red[n],
         t.red[tmp],
         NEW r, Rotated(v, r, M, elm, side)
  PROVE  \A n \in M, s \in Side : ~RedPair(r, n, s)
<1> DEFINE other == Other(side)
<1>1. Formed(v, M, G) /\ v.child = t.child /\ r.red = v.red
  BY RecoloredFormed DEF Recolored, Rotated
<1>2. other \in Side /\ other # side /\ \A s \in Side : s = side \/ s = other
  BY Sides, SMTT(30)
<1> HIDE DEF other
<1>3. /\ tmp \in M /\ tmp # elm
      /\ r.child[side][elm] = t.child[side][elm] /\ t.child[side][elm] \notin {elm, tmp}
      /\ r.child[other][elm] = t.child[side][tmp] /\ t.child[side][tmp] \notin {elm, tmp}
      /\ r.child[side][tmp] = elm
      /\ r.child[other][tmp] = t.child[other][tmp]
      /\ t.child[other][tmp] \notin {elm, tmp}
      /\ \A n \in M, s \in Side : n \notin {elm, tmp} =>
           /\ t.child[s][n] # tmp
           /\ r.child[s][n] = IF t.child[s][n] = elm THEN tmp ELSE t.child[s][n]
  <2>1. tmp = v.child[Other(side)][elm]
    BY <1>1
  <2>2. /\ tmp \in M /\ tmp # elm
        /\ r.child[side][elm] = v.child[side][elm] /\ v.child[side][elm] \notin {elm, tmp}
        /\ r.child[Other(side)][elm] = v.child[side][tmp] /\ v.child[side][tmp] \notin {elm, tmp}
        /\ r.child[side][tmp] = elm
        /\ r.child[Other(side)][tmp] = v.child[Other(side)][tmp]
        /\ v.child[Other(side)][tmp] \notin {elm, tmp}
        /\ \A n \in M, s \in Side : n \notin {elm, tmp} =>
             /\ v.child[s][n] # tmp
             /\ r.child[s][n] = IF v.child[s][n] = elm THEN tmp ELSE v.child[s][n]
    BY <1>1, <2>1, Turning, SMTT(30)
  <2>3. QED BY <1>1, <2>2 DEF other
<1>4. \A n \in M, s \in Side : t.child[s][n] = NULL \/ t.child[s][n] \in M
  <2>1. TAKE n \in M, s \in Side
  <2>2. ChildAt(t, M, G, n, s)
    BY At
  <2>3. QED BY <2>2 DEF ChildAt
<1>5. SUFFICES ASSUME NEW n \in M, NEW s \in Side, RedPair(r, n, s) PROVE FALSE
  OBVIOUS
<1>6. r.child[s][n] # NULL /\ v.red[n] /\ v.red[r.child[s][n]]
  BY <1>1, <1>5 DEF RedPair
<1>7. n # tmp
  BY <1>6
<1>8. CASE n = elm
  <2>1. CASE s = side
    <3>1. t.child[side][elm] \in M /\ t.red[t.child[side][elm]]
      BY <1>3, <1>4, <1>6, <1>8, <2>1
    <3>2. QED BY <1>3, <1>6, <1>8, <2>1, <3>1, Zenon DEF IsBlack, IsRed
  <2>2. CASE s = other
    <3>1. t.child[side][tmp] \in M /\ t.red[t.child[side][tmp]] /\ t.child[side][tmp] # NULL
      BY <1>3, <1>4, <1>6, <1>8, <2>2
    <3>2. RedPair(t, tmp, side)
      BY <3>1 DEF RedPair
    <3>3. QED BY <1>2, <1>3, <3>2, ZenonT(30) DEF other
  <2>3. QED BY <1>2, <2>1, <2>2
<1>9. CASE n # elm
  <2>1. t.child[s][n] # elm
    BY <1>3, <1>6, <1>7, <1>9, Zenon
  <2>2. r.child[s][n] = t.child[s][n] /\ t.child[s][n] # tmp /\ t.child[s][n] \in M
    BY <1>3, <1>4, <1>6, <1>7, <1>9, <2>1
  <2>3. RedPair(t, n, s)
    BY <1>6, <1>7, <1>9, <2>1, <2>2 DEF RedPair
  <2>4. QED BY <1>7, <2>3
<1>10. QED BY <1>8, <1>9

-------------------------------------------------------------------------------
(* Coloring after an insertion *)

\* A red-black tree of the nodes M.
Sound(t, M) ==
  \E G, D : /\ Formed(t, M, G)
            /\ Balanced(t, M, D, NULL, "left")
            /\ \A n \in M, s \in Side : ~RedPair(t, n, s)
            /\ IsBlack(t, t.root)

\* Children are nodes of the tree, point back, and are not the same.
LEMMA Children ==
  ASSUME NEW t, NEW M, NEW G, Formed(t, M, G)
  PROVE  /\ \A n \in M, s \in Side :
              /\ t.child[s][n] = NULL \/ t.child[s][n] \in M
              /\ t.child[s][n] \in M => t.parent[t.child[s][n]] = n /\ t.child[s][n] # n
                                        /\ t.child[s][n] # t.child[Other(s)][n]
         /\ \A n \in M : n \in Node /\ n # NULL
         /\ t \in Tree /\ M \subseteq Node
<1>1. ASSUME NEW n \in M, NEW s \in Side
      PROVE  /\ t.child[s][n] = NULL \/ t.child[s][n] \in M
             /\ t.child[s][n] \in M => t.parent[t.child[s][n]] = n /\ t.child[s][n] # n
                                       /\ t.child[s][n] # t.child[Other(s)][n]
  <2>1. ChildAt(t, M, G, n, s)
    BY At
  <2>2. NULL \notin M
    BY NullIsNoNode DEF Formed
  <2>3. QED BY <2>1, <2>2 DEF ChildAt
<1>2. QED BY <1>1, NullIsNoNode DEF Formed

\* What the parent of a node says.
ParentAt(t, M, G, n, p) ==
  /\ p = NULL <=> n = t.root
  /\ p # NULL =>
       /\ p \in M /\ SideOf(t, p, n) \in Side /\ t.child[SideOf(t, p, n)][p] = n
       /\ G[n] \in SUBSET G[p] /\ p \notin G[n] /\ p \in G[p] /\ p # n
  /\ n \in G[n] /\ G[n] \in SUBSET M

\* The parent of a node has it as a child, and more below it.
LEMMA Parents ==
  ASSUME NEW t, NEW M, NEW G, Formed(t, M, G), NEW n \in M
  PROVE  ParentAt(t, M, G, n, t.parent[n])
<1>1. NodeAt(t, M, G, n)
  BY At
<1>2. SideOf(t, t.parent[n], n) \in Side
  BY Zenon DEF SideOf, Side
<1>3. ASSUME t.parent[n] # NULL
      PROVE  /\ t.parent[n] \in M
             /\ t.child[SideOf(t, t.parent[n], n)][t.parent[n]] = n
             /\ G[n] \in SUBSET G[t.parent[n]] /\ t.parent[n] \notin G[n]
             /\ t.parent[n] \in G[t.parent[n]] /\ t.parent[n] # n
  <2>1. t.parent[n] \in M /\ t.child[SideOf(t, t.parent[n], n)][t.parent[n]] = n
    BY <1>1, <1>3 DEF NodeAt
  <2>2. ChildAt(t, M, G, t.parent[n], SideOf(t, t.parent[n], n)) /\ NodeAt(t, M, G, t.parent[n])
    BY <1>2, <2>1, At
  <2>3. n # NULL
    BY <1>1, ZenonT(30) DEF NodeAt
  <2>4. QED BY <2>1, <2>2, <2>3 DEF ChildAt, NodeAt
<1>4. QED BY <1>1, <1>2, <1>3 DEF NodeAt, ParentAt

-------------------------------------------------------------------------------
(* Coloring after an insertion *)

\* The tree before the round i: elm is red, and only its parent may be a red one with a red
\* child, as long as the loop goes on.
InsertingIn(t, elm, M, i, G, D) ==
  /\ Formed(t, M, G)
  /\ Balanced(t, M, D, NULL, "left")
  /\ elm \in M /\ t.red[elm]
  /\ \A n \in M, s \in Side : RedPair(t, n, s) => t.child[s][n] = elm
  /\ IsBlack(t, t.root) \/ t.root = elm
  /\ t.parent[elm] = NULL \/ IsBlack(t, t.parent[elm]) \/ Cardinality(G[elm]) >= i + 1
Inserting(s, M, i) == \E G, D : InsertingIn(s.tree, s.elm, M, i, G, D)

\* The round that ends the loop.
LEMMA RaisedKeeps ==
  ASSUME NEW t, NEW M, NEW G, Formed(t, M, G), NEW D, Balanced(t, M, D, NULL, "left"),
         NEW g \in M, NEW side \in Side, NEW p \in M, p = t.child[side][g],
         NEW e \in M, e = t.child[side][p], ~t.red[g], t.red[p], t.red[e],
         IsBlack(t, t.child[Other(side)][g]),
         \A n \in M, s \in Side : RedPair(t, n, s) => n = p /\ s = side,
         IsBlack(t, t.root), NEW i
  PROVE  /\ Raised(t, p, e, g, side) \in [tree : Tree, elm : Node]
         /\ Inserting(Raised(t, p, e, g, side), M, i)
<1>1. PICK other : other = Other(side)
  OBVIOUS
<1>2. /\ other \in Side /\ other # side /\ Other(other) = side
      /\ \A s \in Side : s = side \/ s = other
  BY <1>1, Sides
<1>3. /\ \A n \in M : n \in Node /\ n # NULL
      /\ t \in Tree /\ M \subseteq Node
      /\ p # g /\ e # p /\ t.parent[e] = p /\ t.parent[p] = g /\ e # t.child[other][p]
      /\ p # t.child[other][g]
  BY <1>1, <1>2, Children
<1>4. PICK v : v = SetBlackRed(t, p, g)
  OBVIOUS
<1>5. /\ Recolored(t, v)
      /\ \A m \in Node : v.red[m] = IF m = g THEN TRUE ELSE IF m = p THEN FALSE ELSE t.red[m]
  <2>1. ColorsAreSet(t, v, p, g)
    BY <1>3, <1>4, SetBlackRedFields
  <2>2. QED BY <2>1 DEF ColorsAreSet
<1>6. Formed(v, M, G) /\ v.child = t.child /\ v.parent = t.parent /\ v.root = t.root
  BY <1>5, RecoloredFormed DEF Recolored
<1>7. PICK r : r = Rotate(v, g, other)
  OBVIOUS
<1>8. Rotated(v, r, M, g, other)
  BY <1>2, <1>3, <1>6, <1>7, RotateWrites
<1>9. PICK H : Formed(r, M, H)
  BY <1>2, <1>3, <1>6, <1>8, RotateKeeps
<1>10. /\ ~v.red[p] /\ v.red[g]
       /\ \A n \in M : n \notin {g, p} => v.red[n] = t.red[n]
  BY <1>3, <1>5
<1>11. p = t.child[Other(other)][g] /\ p # NULL /\ NULL # g
  BY <1>2, <1>3
<1>12. \E E : Balanced(r, M, E, NULL, "left")
  BY <1>2, <1>3, <1>5, <1>8, <1>10, <1>11, SwapBalanced
<1>13. \A n \in M, s \in Side : ~RedPair(r, n, s)
  <2>1. IsBlack(t, t.child[other][g])
    BY <1>1
  <2>2. \A n \in M, s \in Side : RedPair(t, n, s) => n = p /\ s = Other(other)
    BY <1>2
  <2>3. QED BY <1>2, <1>5, <1>8, <1>10, <1>11, <2>1, <2>2, SwapPairs
<1>14. r.red = v.red /\ r.root = IF g = t.root THEN p ELSE t.root
  BY <1>2, <1>6, <1>8 DEF Rotated
<1>15. e # g
  OBVIOUS
<1>16. r.parent[e] = p /\ r.red[e]
  <2>1. v.parent[e] = p /\ v.child[other][p] # e
    BY <1>3, <1>6, ZenonT(30)
  <2>2. r.parent[e] = p
    BY <1>2, <1>3, <1>6, <1>8, <1>15, <2>1 DEF Rotated
  <2>3. QED BY <1>3, <1>10, <1>14, <1>15, <2>2
<1>17. IsBlack(r, p) /\ IsBlack(r, r.root)
  <2>1. t.root \in M
    BY <1>3 DEF Formed, Under
  <2>2. g # t.root => ~r.red[t.root]
    <3>1. CASE t.root = p
      BY <1>10, <1>14, <3>1
    <3>2. CASE t.root # p
      <4>1. ~t.red[t.root] \/ t.root = g
        BY <1>3, <2>1 DEF IsBlack, IsRed
      <4>2. QED BY <1>10, <1>14, <2>1, <3>2, <4>1
    <3>3. QED BY <3>1, <3>2
  <2>3. QED BY <1>10, <1>14, <2>2 DEF IsBlack, IsRed
<1>18. r \in Tree /\ Raised(t, p, e, g, side) = [tree |-> r, elm |-> e]
  BY <1>1, <1>4, <1>7, <1>8, Zenon DEF Raised, Rotated
<1>19. Inserting([tree |-> r, elm |-> e], M, i)
  <2>1. PICK E : Balanced(r, M, E, NULL, "left")
    BY <1>12
  <2>2. InsertingIn(r, e, M, i, H, E)
    BY <1>9, <1>13, <1>16, <1>17, <2>1 DEF InsertingIn
  <2>3. QED BY <2>2 DEF Inserting
<1>20. QED BY <1>3, <1>18, <1>19

\* A red node and its red child may be turned round.
LEMMA RedTurned ==
  ASSUME NEW t, NEW M, NEW G, Formed(t, M, G), NEW D, Balanced(t, M, D, NULL, "left"),
         NEW p \in M, NEW side \in Side, NEW e \in M, e = t.child[Other(side)][p],
         t.red[p], t.red[e], \A n \in M, s \in Side : RedPair(t, n, s) => t.child[s][n] = e,
         NEW r, Rotated(t, r, M, p, side)
  PROVE  /\ Balanced(r, M, D, NULL, "left")
         /\ \A n \in M, s \in Side : RedPair(r, n, s) => n = e /\ s = side
<1> DEFINE other == Other(side)
<1>1. r.red = t.red
  BY DEF Rotated
<1>2. other \in Side /\ other # side /\ \A s \in Side : s = side \/ s = other
  BY Sides
<1>3. /\ \A n \in M : n \in Node /\ n # NULL
      /\ \A n \in M, s \in Side : t.child[s][n] = NULL \/ t.child[s][n] \in M
      /\ \A n \in M, s \in Side : t.child[s][n] = e => n = p /\ s = other
  <2>1. t.parent[e] = p
    BY <1>2, Children
  <2>2. QED BY <1>2, <2>1, Children
<1> HIDE DEF other
<1>4. /\ e \in M /\ e # p
      /\ r.child[side][p] = t.child[side][p] /\ t.child[side][p] \notin {p, e}
      /\ r.child[other][p] = t.child[side][e] /\ t.child[side][e] \notin {p, e}
      /\ r.child[side][e] = p
      /\ r.child[other][e] = t.child[other][e]
      /\ t.child[other][e] \notin {p, e}
      /\ \A n \in M, s \in Side : n \notin {p, e} =>
           /\ t.child[s][n] # e
           /\ r.child[s][n] = IF t.child[s][n] = p THEN e ELSE t.child[s][n]
  BY <1>3, Turning DEF other
<1>5. /\ \A n \in M, s \in Side : Height(D, t.child[s][n]) \in Nat
      /\ \A n \in M : Height(D, n) = D[n] /\ D[n] \in Nat
  BY HeightIsNat
<1>6. \A n, s : Hole(n, s, NULL, "left") = 0 \/ n = NULL
  BY DEF Hole
<1>7. \A n \in M, s \in Side : D[n] = Height(D, t.child[s][n]) + Weight(t, n)
  BY <1>3, <1>5, <1>6 DEF Balanced, Weight
<1>8. D[p] = D[e] /\ Weight(t, p) = 0 /\ Weight(t, e) = 0
  <2>1. Weight(t, p) = 0 /\ Weight(t, e) = 0
    BY DEF Weight
  <2>2. QED BY <1>2, <1>5, <1>7, <2>1 DEF other
<1>9. ASSUME NEW n \in M, NEW s \in Side
      PROVE  Height(D, r.child[s][n]) = Height(D, t.child[s][n])
  <2>1. CASE n = p
    <3>1. Height(D, t.child[s][p]) = D[p] /\ Height(D, t.child[side][e]) = D[p]
      BY <1>5, <1>7, <1>8
    <3>2. QED BY <1>2, <1>4, <2>1, <3>1
  <2>2. CASE n = e
    <3>1. Height(D, t.child[s][e]) = D[p] /\ Height(D, p) = D[p]
      BY <1>5, <1>7, <1>8
    <3>2. QED BY <1>2, <1>4, <2>2, <3>1
  <2>3. CASE n \notin {p, e}
    BY <1>4, <1>5, <1>8, <2>3
  <2>4. QED BY <2>1, <2>2, <2>3
<1>10. Balanced(r, M, D, NULL, "left")
  BY <1>1, <1>9 DEF Balanced, Weight
<1>11. ASSUME NEW n \in M, NEW s \in Side, RedPair(r, n, s), n # e \/ s # side PROVE FALSE
  <2>1. r.child[s][n] # NULL /\ t.red[n] /\ t.red[r.child[s][n]]
    BY <1>1, <1>11 DEF RedPair
  <2>2. CASE n = p
    <3>1. CASE s = side
      <4>1. RedPair(t, p, side)
        BY <1>4, <2>1, <2>2, <3>1 DEF RedPair
      <4>2. QED BY <1>4, <4>1
    <3>2. CASE s = other
      <4>1. RedPair(t, e, side)
        BY <1>4, <2>1, <2>2, <3>2 DEF RedPair
      <4>2. QED BY <1>4, <4>1, ZenonT(30)
    <3>3. QED BY <1>2, <3>1, <3>2
  <2>3. CASE n = e
    <3>1. s = other
      BY <1>2, <1>11, <2>3, ZenonT(30)
    <3>2. RedPair(t, e, other)
      BY <1>4, <2>1, <2>3, <3>1 DEF RedPair
    <3>3. QED BY <1>2, <1>4, <3>2
  <2>4. CASE n \notin {p, e}
    <3>1. t.child[s][n] # e /\ t.child[s][n] # NULL /\ t.red[t.child[s][n]]
      BY <1>3, <1>4, <2>1, <2>4
    <3>2. RedPair(t, n, s)
      BY <2>1, <3>1 DEF RedPair
    <3>3. QED BY <3>1, <3>2
  <2>5. QED BY <2>2, <2>3, <2>4
<1>12. QED BY <1>10, <1>11

\* A red uncle and the parent become black, the grandparent red.
LEMMA UncleKeeps ==
  ASSUME NEW t, NEW M, NEW G, Formed(t, M, G), NEW D, Balanced(t, M, D, NULL, "left"),
         NEW g \in M, NEW side \in Side, NEW p \in M, p = t.child[side][g],
         NEW u \in M, u = t.child[Other(side)][g], ~t.red[g], t.red[p], t.red[u],
         \A n \in M, s \in Side : RedPair(t, n, s) => n = p,
         IsBlack(t, t.root),
         NEW r, Recolored(t, r), r.red[g],
         \A n \in M : n # g => r.red[n] = (t.red[n] /\ n # p /\ n # u)
  PROVE  /\ Formed(r, M, G)
         /\ \E E : Balanced(r, M, E, NULL, "left")
         /\ \A n \in M, s \in Side : RedPair(r, n, s) => r.child[s][n] = g
         /\ IsBlack(r, r.root) \/ r.root = g
<1> DEFINE other == Other(side)
           E == [n \in Node |-> IF n = p \/ n = u THEN D[n] + 1 ELSE D[n]]
<1>1. other \in Side /\ other # side /\ Other(other) = side /\ \A s \in Side : s = side \/ s = other
  BY Sides
<1>2. /\ r.child = t.child /\ r.root = t.root /\ Formed(r, M, G)
  BY RecoloredFormed DEF Recolored
<1> HIDE DEF other
<1>3. /\ \A n \in M : n \in Node /\ n # NULL
      /\ \A n \in M, s \in Side : t.child[s][n] = NULL \/ t.child[s][n] \in M
      /\ p # u /\ p # g /\ u # g
      /\ \A n \in M, s \in Side : t.child[s][n] = p => n = g
      /\ \A n \in M, s \in Side : t.child[s][n] = u => n = g
  <2>1. t.parent[p] = g /\ t.parent[u] = g /\ p # u
    BY <1>1, Children DEF other
  <2>2. QED BY <1>1, <2>1, Children
<1>4. /\ \A n \in M, s \in Side : Height(D, t.child[s][n]) \in Nat
      /\ \A n \in M : Height(D, n) = D[n] /\ D[n] \in Nat
      /\ Height(D, NULL) = 0
  BY HeightIsNat
<1>5. \A n, s : Hole(n, s, NULL, "left") = 0 \/ n = NULL
  BY DEF Hole
<1>6. \A n \in M, s \in Side : D[n] = Height(D, t.child[s][n]) + Weight(t, n)
  BY <1>3, <1>4, <1>5 DEF Balanced, Weight
<1>7. \A n \in M : E[n] = IF n = p \/ n = u THEN D[n] + 1 ELSE D[n]
  BY <1>3
<1>8. Height(E, NULL) = 0 /\ \A n \in M : Height(E, n) = E[n]
  BY <1>3 DEF Height
<1> HIDE DEF E
<1>9. ASSUME NEW n \in M, NEW s \in Side
      PROVE  E[n] = Height(E, r.child[s][n]) + Hole(n, s, NULL, "left") + Weight(r, n)
  <2>1. Hole(n, s, NULL, "left") = 0
    BY <1>3, <1>5
  <2>2. CASE n = g
    <3>1. Height(E, r.child[s][n]) = Height(D, t.child[s][n]) + 1
      <4>1. t.child[s][n] \in {p, u}
        BY <1>1, <2>2 DEF other
      <4>2. QED BY <1>2, <1>4, <1>7, <1>8, <4>1
    <3>2. Weight(r, n) = 0 /\ Weight(t, n) = 1 /\ E[n] = D[n]
      BY <1>3, <1>7, <2>2 DEF Weight
    <3>3. QED BY <1>4, <1>6, <2>1, <3>1, <3>2
  <2>3. CASE n # g
    <3>1. Height(E, r.child[s][n]) = Height(D, t.child[s][n])
      <4>1. t.child[s][n] # p /\ t.child[s][n] # u
        BY <1>3, <2>3
      <4>2. QED BY <1>2, <1>3, <1>4, <1>7, <1>8, <4>1
    <3>2. CASE n = p \/ n = u
      <4>1. Weight(r, n) = 1 /\ Weight(t, n) = 0 /\ E[n] = D[n] + 1
        BY <1>7, <2>3, <3>2, ZenonT(30) DEF Weight
      <4>2. QED BY <1>4, <1>6, <2>1, <3>1, <4>1
    <3>3. CASE n # p /\ n # u
      <4>1. Weight(r, n) = Weight(t, n) /\ E[n] = D[n]
        BY <1>7, <2>3, <3>3 DEF Weight
      <4>2. QED BY <1>4, <1>6, <2>1, <3>1, <4>1 DEF Weight
    <3>4. QED BY <3>2, <3>3
  <2>4. QED BY <2>2, <2>3
<1>10. Balanced(r, M, E, NULL, "left")
  BY <1>4, <1>7, <1>9 DEF Balanced
<1>11. ASSUME NEW n \in M, NEW s \in Side, RedPair(r, n, s), r.child[s][n] # g PROVE FALSE
  <2>1. t.child[s][n] # NULL /\ t.child[s][n] \in M /\ r.red[n] /\ r.red[t.child[s][n]]
    BY <1>2, <1>3, <1>11 DEF RedPair
  <2>2. t.red[t.child[s][n]] /\ t.child[s][n] # p /\ t.child[s][n] # u
    BY <1>2, <1>11, <2>1
  <2>3. n # g
    BY <1>1, <2>2 DEF other
  <2>4. t.red[n] /\ n # p
    BY <2>1, <2>3
  <2>5. RedPair(t, n, s)
    BY <2>1, <2>2, <2>4 DEF RedPair
  <2>6. QED BY <2>4, <2>5
<1>12. IsBlack(r, r.root) \/ r.root = g
  <2>1. t.root \in M
    BY <1>3 DEF Formed, Under
  <2>2. QED BY <1>2, <1>3, <2>1 DEF IsBlack, IsRed
<1>13. QED BY <1>2, <1>10, <1>11, <1>12

\* A round of the loop keeps what holds before a round.
LEMMA InsertRoundKeeps ==
  ASSUME NEW s \in [tree : Tree, elm : Node], NEW M, NEW i \in Nat, Inserting(s, M, i)
  PROVE  InsertRound[s] \in [tree : Tree, elm : Node] /\ Inserting(InsertRound[s], M, i + 1)
<1>1. PICK t, elm : t = s.tree /\ elm = s.elm
  OBVIOUS
<1>2. t \in Tree /\ elm \in Node /\ s = [tree |-> t, elm |-> elm]
  BY <1>1
<1>3. PICK G, D : InsertingIn(t, elm, M, i, G, D)
  BY <1>1 DEF Inserting
<1>4. /\ Formed(t, M, G)
      /\ Balanced(t, M, D, NULL, "left")
      /\ elm \in M /\ t.red[elm]
      /\ \A n \in M, z \in Side : RedPair(t, n, z) => t.child[z][n] = elm
      /\ IsBlack(t, t.root) \/ t.root = elm
      /\ t.parent[elm] = NULL \/ IsBlack(t, t.parent[elm]) \/ Cardinality(G[elm]) >= i + 1
  BY <1>3 DEF InsertingIn
<1>5. PICK p : p = t.parent[elm]
  OBVIOUS
<1>6. PICK g : g = t.parent[p]
  OBVIOUS
<1>7. PICK side : side = SideOf(t, g, p)
  OBVIOUS
<1>8. PICK other : other = Other(side)
  OBVIOUS
<1>9. InsertRound[s] = IF p = NULL \/ IsBlack(t, p) THEN s ELSE InsertBelow(t, elm, p, g, side)
  BY <1>1, <1>5, <1>6, <1>7 DEF InsertRound
<1>10. CASE p = NULL \/ IsBlack(t, p)
  <2>1. InsertingIn(t, elm, M, i + 1, G, D)
    BY <1>4, <1>5, <1>10 DEF InsertingIn
  <2>2. QED BY <1>1, <1>9, <1>10, <2>1 DEF Inserting
<1>11. CASE ~(p = NULL \/ IsBlack(t, p))
  <2>1. p # NULL /\ t.red[p] /\ InsertRound[s] = InsertBelow(t, elm, p, g, side)
    BY <1>9, <1>11 DEF IsBlack, IsRed
  <2>2. /\ p \in M /\ SideOf(t, p, elm) \in Side /\ t.child[SideOf(t, p, elm)][p] = elm
        /\ G[elm] \in SUBSET G[p] /\ p \notin G[elm] /\ p \in G[p] /\ p # elm /\ elm # t.root
    <3>1. ParentAt(t, M, G, elm, p)
      BY <1>4, <1>5, Parents
    <3>2. QED BY <2>1, <3>1 DEF ParentAt
  <2>3. p # t.root /\ IsBlack(t, t.root)
    BY <1>4, <2>1, <2>2 DEF IsBlack, IsRed
  <2>4. /\ g # NULL /\ g \in M /\ side \in Side /\ t.child[side][g] = p
        /\ G[p] \in SUBSET G[g] /\ g \notin G[p] /\ g \in G[g] /\ g # p /\ G[g] \in SUBSET M
    <3>1. ParentAt(t, M, G, p, g)
      BY <1>4, <1>6, <2>2, Parents
    <3>2. ParentAt(t, M, G, g, t.parent[g])
      <4>1. g \in M
        BY <2>3, <3>1 DEF ParentAt
      <4>2. QED BY <1>4, <4>1, Parents
    <3>3. QED BY <1>7, <2>3, <3>1, <3>2 DEF ParentAt
  <2>5. /\ other \in Side /\ other # side /\ Other(other) = side
        /\ \A z \in Side : z = side \/ z = other
    BY <1>8, <2>4, Sides
  <2>6. /\ \A n \in M, z \in Side :
              /\ t.child[z][n] = NULL \/ t.child[z][n] \in M
              /\ t.child[z][n] \in M => t.parent[t.child[z][n]] = n /\ t.child[z][n] # n
                                        /\ t.child[z][n] # t.child[Other(z)][n]
        /\ \A n \in M : n \in Node /\ n # NULL
        /\ t \in Tree /\ M \subseteq Node
    BY <1>4, Children
  <2>7. \A n \in M, z \in Side : RedPair(t, n, z) => n = p /\ t.child[z][p] = elm
    BY <1>4, <1>5, <2>6
  <2>8. ~t.red[g]
    <3>1. ~RedPair(t, g, side)
      BY <2>4, <2>7
    <3>2. QED BY <2>1, <2>4, <3>1 DEF RedPair
  <2>9. PICK u : u = t.child[other][g]
    OBVIOUS
  <2>10. CASE RedUncle(t, u)
    <3>1. u \in M /\ t.red[u] /\ u # p /\ u # g
      BY <1>8, <2>4, <2>5, <2>6, <2>9, <2>10 DEF RedUncle, IsRed
    <3>2. PICK a : a = SetBlack(t, u)
      OBVIOUS
    <3>3. PICK r : r = SetBlackRed(a, p, g)
      OBVIOUS
    <3>4. InsertRound[s] = [tree |-> r, elm |-> g]
      BY <1>8, <2>1, <2>9, <2>10, <3>2, <3>3 DEF InsertBelow
    <3>5. ColorIsSet(t, a, u, FALSE)
      BY <2>6, <3>1, <3>2, SetBlackFields DEF Link
    <3>6. a \in Tree
      BY <3>5 DEF ColorIsSet, Recolored
    <3>7. ColorsAreSet(a, r, p, g)
      BY <2>2, <2>4, <2>6, <3>3, <3>6, SetBlackRedFields
    <3>8. Recolored(t, r) /\ r \in Tree /\ r.parent = t.parent
      BY <3>5, <3>7 DEF ColorIsSet, ColorsAreSet, Recolored
    <3>9. r.red[g] /\ \A n \in M : n # g => r.red[n] = (t.red[n] /\ n # p /\ n # u)
      <4>1. \A n \in M : t.red[n] \in BOOLEAN
        BY <2>6, TreeFields
      <4>2. \A n \in M : a.red[n] = IF n = u THEN FALSE ELSE t.red[n]
        BY <2>6, <3>5 DEF ColorIsSet
      <4>3. /\ r.red[g]
            /\ \A n \in M : n # g => r.red[n] = IF n = p THEN FALSE ELSE a.red[n]
        <5>1. \A m \in Node : r.red[m] = IF m = g THEN TRUE ELSE IF m = p THEN FALSE ELSE a.red[m]
          BY <3>7 DEF ColorsAreSet
        <5>2. QED BY <2>4, <2>6, <5>1
      <4>4. QED BY <4>1, <4>2, <4>3
    <3>10. /\ Formed(r, M, G)
           /\ \E E : Balanced(r, M, E, NULL, "left")
           /\ \A n \in M, z \in Side : RedPair(r, n, z) => r.child[z][n] = g
           /\ IsBlack(r, r.root) \/ r.root = g
      BY <1>4, <1>8, <2>1, <2>2, <2>3, <2>4, <2>7, <2>8, <2>9, <3>1, <3>8, <3>9, UncleKeeps
    <3>11. PICK E : Balanced(r, M, E, NULL, "left")
      BY <3>10
    <3>12. g \in Node
      BY <2>4, <2>6
    <3>13. t.parent[elm] # NULL /\ ~IsBlack(t, t.parent[elm])
      BY <1>5, <1>11
    <3>14. Cardinality(G[g]) >= (i + 1) + 1
      <4>1. Cardinality(G[elm]) >= i + 1
        BY <1>4, <3>13
      <4>2. G[g] \in SUBSET Node /\ G[elm] \in SUBSET G[g] /\ G[elm] # G[g]
        BY <2>2, <2>4, <2>6
      <4>3. Cardinality(G[elm]) + 1 <= Cardinality(G[g])
        BY <4>2, Smaller
      <4>4. Cardinality(G[g]) \in Nat /\ Cardinality(G[elm]) \in Nat
        BY <4>2, SizeIsNat
      <4>5. QED BY <4>1, <4>3, <4>4
    <3>15. InsertingIn(r, g, M, i + 1, G, E)
      BY <2>4, <3>9, <3>10, <3>11, <3>14 DEF InsertingIn
    <3>16. QED BY <3>4, <3>8, <3>12, <3>15 DEF Inserting
  <2>11. CASE ~RedUncle(t, u) /\ t.child[other][p] = elm
    <3>1. PICK r : r = Rotate(t, p, side)
      OBVIOUS
    <3>2. InsertRound[s] = Raised(r, elm, p, g, side)
      BY <1>8, <2>1, <2>9, <2>11, <3>1 DEF InsertBelow
    <3>3. elm # NULL /\ elm = t.child[Other(side)][p]
      BY <1>4, <1>8, <2>6, <2>11
    <3>4. Rotated(t, r, M, p, side)
      BY <1>4, <2>2, <2>4, <3>1, <3>3, RotateWrites
    <3>5. PICK H : Formed(r, M, H)
      BY <1>4, <2>2, <2>4, <3>3, <3>4, RotateKeeps
    <3>6. /\ Balanced(r, M, D, NULL, "left")
          /\ \A n \in M, z \in Side : RedPair(r, n, z) => n = elm /\ z = side
      BY <1>4, <2>1, <2>2, <2>4, <3>3, <3>4, RedTurned
    <3>7. g # elm
      <4>1. elm \in G[elm]
        <5>1. ParentAt(t, M, G, elm, t.parent[elm])
          BY <1>4, Parents
        <5>2. QED BY <5>1 DEF ParentAt
      <4>2. QED BY <2>2, <2>4, <4>1
    <3>8. /\ r.child[side][g] = elm /\ r.child[side][elm] = p /\ r.child[other][g] = u
      <4>1. u # p /\ u # elm
        <5>1. u \in M => t.parent[u] = g
          BY <2>4, <2>5, <2>6, <2>9
        <5>2. QED BY <1>4, <1>5, <1>8, <2>2, <2>4, <2>5, <2>6, <2>9, <5>1
      <4>2. \A n \in M, z \in Side :
              r.child[z][n] = IF n = p /\ z # side THEN t.child[side][elm]
                              ELSE IF n = elm /\ z = side THEN p
                              ELSE IF t.child[z][n] = p THEN elm ELSE t.child[z][n]
        BY <3>3, <3>4 DEF Rotated
      <4>3. QED BY <1>4, <2>2, <2>4, <2>5, <2>9, <3>7, <4>1, <4>2
    <3>9. r.red = t.red /\ r.root = t.root
      BY <2>3, <3>4 DEF Rotated
    <3>10. IsBlack(r, r.child[Other(side)][g]) /\ IsBlack(r, r.root)
      BY <1>8, <2>3, <2>11, <3>8, <3>9 DEF RedUncle, IsBlack, IsRed
    <3>11. /\ elm \in M /\ elm = r.child[side][g] /\ p \in M /\ p = r.child[side][elm]
           /\ ~r.red[g] /\ r.red[elm] /\ r.red[p] /\ g \in M /\ side \in Side
      BY <1>4, <2>1, <2>2, <2>4, <2>8, <3>8, <3>9
    <3>12. /\ Raised(r, elm, p, g, side) \in [tree : Tree, elm : Node]
           /\ Inserting(Raised(r, elm, p, g, side), M, i + 1)
      BY <3>5, <3>6, <3>10, <3>11, RaisedKeeps
    <3>13. QED BY <3>2, <3>12
  <2>12. CASE ~RedUncle(t, u) /\ t.child[other][p] # elm
    <3>1. InsertRound[s] = Raised(t, p, elm, g, side)
      BY <1>8, <2>1, <2>9, <2>12 DEF InsertBelow
    <3>2. elm = t.child[side][p]
      BY <2>2, <2>5, <2>12
    <3>3. \A n \in M, z \in Side : RedPair(t, n, z) => n = p /\ z = side
      BY <2>5, <2>7, <2>12
    <3>4. IsBlack(t, t.child[Other(side)][g])
      BY <1>8, <2>9, <2>12 DEF RedUncle, IsBlack
    <3>5. QED BY <1>4, <2>1, <2>2, <2>3, <2>4, <2>8, <3>1, <3>2, <3>3, <3>4, RaisedKeeps, SMTT(30)
  <2>13. QED BY <2>10, <2>11, <2>12
<1>12. QED BY <1>10, <1>11

\* The loop ends, and what it leaves is a red-black tree but for the color of the root.
LEMMA InsertLoop ==
  ASSUME NEW t \in Tree, NEW elm \in Node, NEW M, Inserting([tree |-> t, elm |-> elm], M, 0)
  PROVE  /\ Loop(InsertRound, [tree |-> t, elm |-> elm]) \in [tree : Tree, elm : Node]
         /\ Inserting(Loop(InsertRound, [tree |-> t, elm |-> elm]), M, Size)
<1> DEFINE start == [tree |-> t, elm |-> elm]
           V == [tree : Tree, elm : Node]
           Good == [i \in 0..Size |-> {s \in V : Inserting(s, M, i)}]
<1>1. Size \in Nat /\ 0 \in 0..Size /\ Size \in 0..Size
  BY SizeIsNat
<1>2. start \in V /\ Inserting(start, M, 0)
  OBVIOUS
<1> HIDE DEF start, V
<1>3. \A i \in 0..Size : Good[i] = {s \in V : Inserting(s, M, i)}
  OBVIOUS
<1> HIDE DEF Good
<1>4. ASSUME NEW i \in 1..Size, NEW s \in Good[i - 1] PROVE InsertRound[s] \in Good[i]
  <2>1. i - 1 \in 0..Size /\ i - 1 \in Nat /\ i \in 0..Size /\ (i - 1) + 1 = i
    BY <1>1
  <2>2. s \in V /\ Inserting(s, M, i - 1)
    BY <1>3, <2>1
  <2>3. InsertRound[s] \in V /\ Inserting(InsertRound[s], M, (i - 1) + 1)
    BY <2>1, <2>2, InsertRoundKeeps DEF V
  <2>4. QED BY <1>3, <2>1, <2>3
<1>5. start \in Good[0]
  BY <1>1, <1>2, <1>3
<1>6. Loop(InsertRound, start) \in Good[Size]
  BY <1>4, <1>5, LoopKeeps
<1>7. QED BY <1>1, <1>3, <1>6 DEF V, start

\* A red root may be made black.
LEMMA RootMadeBlack ==
  ASSUME NEW t, NEW M, NEW G, Formed(t, M, G), NEW D, Balanced(t, M, D, NULL, "left"),
         \A n \in M, s \in Side : RedPair(t, n, s) => n = t.root
  PROVE  Sound(SetBlack(t, t.root), M)
<1>1. PICK r : r = SetBlack(t, t.root)
  OBVIOUS
<1>2. t \in Tree /\ t.root \in Link
  BY TreeFields DEF Formed
<1>3. ColorIsSet(t, r, t.root, FALSE)
  BY <1>1, <1>2, SetBlackFields
<1>4. Recolored(t, r) /\ Formed(r, M, G) /\ r.child = t.child /\ r.root = t.root
  BY <1>3, RecoloredFormed DEF ColorIsSet, Recolored
<1>5. /\ \A n \in M, s \in Side : t.child[s][n] = NULL \/ t.child[s][n] \in M
      /\ \A n \in M : n \in Node /\ n # NULL
      /\ \A n \in M, s \in Side : t.child[s][n] = t.root => t.child[s][n] = NULL
  <2>1. ASSUME NEW n \in M, NEW s \in Side, t.child[s][n] # NULL PROVE t.child[s][n] # t.root
    <3>1. ChildAt(t, M, G, n, s)
      BY At
    <3>2. QED BY <2>1, <3>1 DEF ChildAt
  <2>2. QED BY <2>1, Children
<1>6. \A n \in M : r.red[n] = IF n = t.root THEN FALSE ELSE t.red[n]
  BY <1>3, <1>5 DEF ColorIsSet
<1>7. \A n \in M, s \in Side : ~RedPair(r, n, s)
  <2>1. SUFFICES ASSUME NEW n \in M, NEW s \in Side, RedPair(r, n, s) PROVE FALSE
    OBVIOUS
  <2>2. t.child[s][n] # NULL /\ r.red[n] /\ r.red[t.child[s][n]] /\ t.child[s][n] \in M
    BY <1>4, <1>5, <2>1 DEF RedPair
  <2>3. t.red[n] /\ t.red[t.child[s][n]]
    BY <1>6, <2>2
  <2>4. RedPair(t, n, s)
    BY <2>2, <2>3 DEF RedPair
  <2>5. QED BY <1>6, <2>2, <2>4
<1>8. IsBlack(r, r.root)
  BY <1>2, <1>3, <1>4 DEF ColorIsSet, IsBlack, IsRed, Link
<1> DEFINE E == [n \in Node |-> IF n = t.root THEN D[n] + Weight(r, n) - Weight(t, n) ELSE D[n]]
<1>9. /\ \A n \in M, s \in Side : Height(D, t.child[s][n]) \in Nat
      /\ \A n \in M : Height(D, n) = D[n] /\ D[n] \in Nat
      /\ Height(D, NULL) = 0
  BY HeightIsNat
<1>10. \A n \in M : E[n] = IF n = t.root THEN D[n] + Weight(r, n) - Weight(t, n) ELSE D[n]
  BY <1>5
<1>11. \A n \in M, s \in Side : Height(E, r.child[s][n]) = Height(D, t.child[s][n])
  BY <1>4, <1>5, <1>10 DEF Height
<1> HIDE DEF E
<1>12. \A n \in M, s \in Side : D[n] = Height(D, t.child[s][n]) + Weight(t, n)
  <2>1. \A n \in M, s \in Side : Hole(n, s, NULL, "left") = 0 /\ Weight(t, n) \in Nat
    BY <1>5 DEF Hole, Weight
  <2>2. QED BY <1>9, <2>1 DEF Balanced
<1>13. \A n \in M : n # t.root => Weight(r, n) = Weight(t, n)
  BY <1>6 DEF Weight
<1>14. \A n \in M, s \in Side : E[n] = Height(E, r.child[s][n]) + Weight(r, n)
  <2>1. TAKE n \in M, s \in Side
  <2>2. Weight(r, n) \in Nat /\ Weight(t, n) \in Nat
    BY DEF Weight
  <2>3. D[n] = Height(D, t.child[s][n]) + Weight(t, n)
        /\ Height(E, r.child[s][n]) = Height(D, t.child[s][n])
    BY <1>11, <1>12
  <2>4. CASE n = t.root
    <3>1. E[n] = D[n] + Weight(r, n) - Weight(t, n)
      BY <1>10, <2>4
    <3>2. QED BY <1>9, <2>2, <2>3, <3>1
  <2>5. CASE n # t.root
    BY <1>10, <1>13, <2>3, <2>5
  <2>6. QED BY <2>4, <2>5
<1>15. Balanced(r, M, E, NULL, "left")
  <2>1. ASSUME NEW n \in M PROVE E[n] \in Nat
    <3>1. "left" \in Side /\ Weight(r, n) \in Nat
      BY Sides DEF Weight
    <3>2. E[n] = Height(D, t.child["left"][n]) + Weight(r, n)
      BY <1>11, <1>14, <3>1
    <3>3. QED BY <1>9, <3>1, <3>2
  <2>2. ASSUME NEW n \in M, NEW s \in Side
        PROVE  E[n] = Height(E, r.child[s][n]) + Hole(n, s, NULL, "left") + Weight(r, n)
    <3>1. Hole(n, s, NULL, "left") = 0 /\ Height(E, r.child[s][n]) \in Nat
      BY <1>5, <1>9, <1>11 DEF Hole
    <3>2. QED BY <1>14, <3>1
  <2>3. QED BY <2>1, <2>2 DEF Balanced
<1>16. QED BY <1>1, <1>4, <1>7, <1>8, <1>15 DEF Sound

\* Coloring makes a red-black tree of one that is only wrong above a red node.
LEMMA InsertColorKeeps ==
  ASSUME NEW t \in Tree, NEW elm \in Node, NEW M, Inserting([tree |-> t, elm |-> elm], M, 0)
  PROVE  Sound(InsertColor(t, elm), M)
<1>1. PICK s : s = Loop(InsertRound, [tree |-> t, elm |-> elm])
  OBVIOUS
<1>2. s \in [tree : Tree, elm : Node] /\ Inserting(s, M, Size)
  BY <1>1, InsertLoop
<1>3. InsertColor(t, elm) = SetBlack(s.tree, s.tree.root)
  BY <1>1 DEF InsertColor
<1>4. PICK u, e : u = s.tree /\ e = s.elm
  OBVIOUS
<1>5. PICK G, D : InsertingIn(u, e, M, Size, G, D)
  BY <1>2, <1>4 DEF Inserting
<1>6. /\ Formed(u, M, G)
      /\ Balanced(u, M, D, NULL, "left")
      /\ e \in M /\ u.red[e]
      /\ \A n \in M, z \in Side : RedPair(u, n, z) => u.child[z][n] = e
      /\ u.parent[e] = NULL \/ IsBlack(u, u.parent[e]) \/ Cardinality(G[e]) >= Size + 1
  BY <1>5 DEF InsertingIn
<1>7. u.parent[e] = NULL \/ IsBlack(u, u.parent[e])
  <2>1. G[e] \in SUBSET Node
    <3>1. ParentAt(u, M, G, e, u.parent[e]) /\ M \subseteq Node
      BY <1>6, Parents DEF Formed
    <3>2. QED BY <3>1 DEF ParentAt
  <2>2. Cardinality(G[e]) \in Nat /\ Cardinality(G[e]) <= Size /\ Size \in Nat
    BY <2>1, SizeIsNat
  <2>3. QED BY <1>6, <2>2
<1>8. ASSUME NEW n \in M, NEW z \in Side, RedPair(u, n, z) PROVE FALSE
  <2>1. u.child[z][n] = e /\ u.parent[e] = n /\ n # NULL
    BY <1>6, <1>8, Children
  <2>2. IsBlack(u, n)
    BY <1>7, <2>1
  <2>3. QED BY <1>8, <2>1, <2>2 DEF IsBlack, IsRed, RedPair
<1>9. QED BY <1>3, <1>4, <1>6, <1>8, RootMadeBlack

-------------------------------------------------------------------------------
(* Coloring after a removal *)

\* A black node is missing above the black link e, on the side hs of p.
Missing(t, M, G, D, p, hs, e) ==
  /\ Formed(t, M, G)
  /\ Balanced(t, M, D, p, hs)
  /\ p \in M /\ hs \in Side /\ t.child[hs][p] = e /\ IsBlack(t, e)
  /\ \A n \in M, s \in Side : ~RedPair(t, n, s)
  /\ IsBlack(t, t.root)

\* There is a sibling then, and it tells the side.
SiblingAt(t, M, D, p, hs, w) ==
  /\ w \in M /\ w # NULL /\ w # p /\ w # t.root /\ w # t.child[hs][p] /\ t.parent[w] = p
  /\ D[p] = Height(D, t.child[hs][p]) + 1 + Weight(t, p)
  /\ D[p] = D[w] + Weight(t, p)
  /\ SideOf(t, p, t.child[hs][p]) = hs

\* On the other side of a missing black node there is one, as the code takes for granted.
LEMMA Sibling ==
  ASSUME NEW t, NEW M, NEW G, Formed(t, M, G), NEW D, NEW hs \in Side, NEW p \in M,
         Balanced(t, M, D, p, hs)
  PROVE  SiblingAt(t, M, D, p, hs, t.child[Other(hs)][p])
<1> DEFINE w == t.child[Other(hs)][p]
<1>1. Other(hs) \in Side /\ Other(hs) # hs /\ Other(Other(hs)) = hs
  BY Sides
<1>2. ChildAt(t, M, G, p, Other(hs))
  BY <1>1, At
<1>3. /\ Height(D, t.child[hs][p]) \in Nat /\ Height(D, w) \in Nat /\ Height(D, NULL) = 0
      /\ \A n \in M : Height(D, n) = D[n] /\ D[n] \in Nat
  BY <1>1, HeightIsNat
<1>4. D[p] = Height(D, t.child[hs][p]) + Hole(p, hs, p, hs) + Weight(t, p)
      /\ D[p] = Height(D, w) + Hole(p, Other(hs), p, hs) + Weight(t, p)
  BY <1>1 DEF Balanced
<1>5. Hole(p, hs, p, hs) = 1 /\ Hole(p, Other(hs), p, hs) = 0 /\ Weight(t, p) \in Nat
  BY <1>1 DEF Hole, Weight
<1>6. Height(D, w) = Height(D, t.child[hs][p]) + 1
  BY <1>3, <1>4, <1>5
<1>7. w # NULL
  BY <1>3, <1>6
<1>8. w \in M /\ w # p /\ w # t.root /\ w # t.child[hs][p] /\ t.parent[w] = p
  BY <1>1, <1>2, <1>7 DEF ChildAt
<1>9. SideOf(t, p, t.child[hs][p]) = hs
  BY <1>1, <1>8 DEF SideOf, Side, Other
<1>10. D[p] = Height(D, t.child[hs][p]) + 1 + Weight(t, p) /\ D[p] = D[w] + Weight(t, p)
  BY <1>3, <1>4, <1>5, <1>8
<1>11. QED BY <1>7, <1>8, <1>9, <1>10 DEF SiblingAt

\* Turning a red sibling up leaves the same node missing, with a black sibling.
LEMMA BlackSiblingKeeps ==
  ASSUME NEW t, NEW M, NEW G, NEW D, NEW p, NEW hs, NEW e, Missing(t, M, G, D, p, hs, e),
         NEW r, r = BlackSibling(t, p, hs)
  PROVE  /\ \E H, E : Missing(r, M, H, E, p, hs, e) /\ ((r = t /\ H = G) \/ r.red[p])
         /\ ~r.red[r.child[Other(hs)][p]]
<1>1. /\ Formed(t, M, G)
      /\ Balanced(t, M, D, p, hs)
      /\ p \in M /\ hs \in Side /\ t.child[hs][p] = e /\ IsBlack(t, e)
      /\ \A n \in M, s \in Side : ~RedPair(t, n, s)
      /\ IsBlack(t, t.root)
  BY DEF Missing
<1>2. PICK w : w = t.child[Other(hs)][p]
  OBVIOUS
<1>3. w \in M /\ w # NULL /\ w # p /\ w # t.root /\ w # t.child[hs][p]
  <2>1. SiblingAt(t, M, D, p, hs, w)
    BY <1>1, <1>2, Sibling
  <2>2. QED BY <2>1 DEF SiblingAt
<1>4. Other(hs) \in Side /\ Other(hs) # hs
  BY <1>1, Sides
<1>5. CASE ~t.red[w]
  <2>1. r = t
    BY <1>2, <1>5 DEF BlackSibling, IsRed
  <2>2. QED BY <1>2, <1>5, <2>1
<1>6. CASE t.red[w]
  <2>1. PICK v : v = SetBlackRed(t, w, p)
    OBVIOUS
  <2>2. r = Rotate(v, p, hs)
    BY <1>2, <1>3, <1>6, <2>1 DEF BlackSibling, IsRed
  <2>3. \A n \in M : n \in Node /\ n # NULL
    BY <1>1, Children
  <2>4. ColorsAreSet(t, v, w, p)
    BY <1>1, <1>3, <2>1, <2>3, SetBlackRedFields DEF Formed
  <2>5. Recolored(t, v) /\ Formed(v, M, G) /\ v.child = t.child /\ v.root = t.root
    BY <1>1, <2>4, RecoloredFormed DEF ColorsAreSet, Recolored
  <2>6. /\ ~v.red[w] /\ v.red[p]
        /\ \A n \in M : n \notin {p, w} => v.red[n] = t.red[n]
    BY <1>1, <1>3, <2>3, <2>4 DEF ColorsAreSet
  <2>7. Rotated(v, r, M, p, hs)
    BY <1>1, <1>2, <1>3, <2>2, <2>5, RotateWrites
  <2>8. PICK H : Formed(r, M, H)
    BY <1>1, <1>2, <1>3, <2>5, <2>7, RotateKeeps
  <2>9. ~t.red[p]
    BY <1>1, <1>2, <1>3, <1>4, <1>6 DEF RedPair
  <2>10. PICK E : Balanced(r, M, E, p, hs)
    BY <1>1, <1>2, <1>3, <1>6, <2>5, <2>6, <2>7, <2>9, SwapBalanced
  <2>11. \A n \in M, s \in Side : ~RedPair(r, n, s)
    BY <1>1, <1>2, <1>3, <1>6, <2>5, <2>6, <2>7, SwapPairs
  <2>12. r.red = v.red /\ r.root = IF p = t.root THEN w ELSE t.root
    BY <1>2, <2>5, <2>7 DEF Rotated
  <2>13. r.child[hs][p] = e
    BY <1>1, <1>2, <1>3, <2>5, <2>7, Turning
  <2>14. IsBlack(r, e)
    <3>1. e = NULL \/ e \in M
      BY <1>1, Children
    <3>2. e # p
      <4>1. ChildAt(t, M, G, p, hs) /\ p # NULL
        BY <1>1, <2>3, At
      <4>2. QED BY <1>1, <4>1 DEF ChildAt
    <3>3. QED BY <1>1, <1>3, <2>6, <2>12, <3>1, <3>2 DEF IsBlack, IsRed
  <2>15. IsBlack(r, r.root)
    <3>1. t.root \in M
      BY <1>1 DEF Formed, Under
    <3>2. QED BY <1>1, <1>3, <2>3, <2>6, <2>12, <3>1 DEF IsBlack, IsRed
  <2>16. Missing(r, M, H, E, p, hs, e) /\ r.red[p]
    BY <1>1, <2>6, <2>8, <2>10, <2>11, <2>12, <2>13, <2>14, <2>15 DEF Missing
  <2>17. r.child[Other(hs)][p] \in M /\ r.child[Other(hs)][p] # NULL
    <3>1. SiblingAt(r, M, E, p, hs, r.child[Other(hs)][p])
      BY <1>1, <2>8, <2>10, Sibling
    <3>2. QED BY <3>1 DEF SiblingAt
  <2>18. ~r.red[r.child[Other(hs)][p]]
    BY <1>1, <1>4, <2>11, <2>16, <2>17, SMTT(30) DEF RedPair
  <2>19. QED BY <2>16, <2>18
<1>7. QED BY <1>5, <1>6

\* The sibling is red now, and a black node is missing one level up.
Reddened(t, r, M, G, p, q) ==
  /\ Formed(r, M, G)
  /\ \E E : \E zs \in Side : /\ Balanced(r, M, E, q, zs)
                             /\ q = NULL \/ (q \in M /\ r.child[zs][q] = p)
  /\ \A n \in M, s \in Side : RedPair(r, n, s) => n = p
  /\ IsBlack(r, r.root)
  /\ q = NULL => p = r.root
  /\ r.red[p] = t.red[p]

\* The sibling may be made red.
LEMMA SiblingReddened ==
  ASSUME NEW t, NEW M, NEW G, NEW D, NEW p, NEW hs, NEW e, Missing(t, M, G, D, p, hs, e),
         NEW w, w = t.child[Other(hs)][p], ~t.red[w],
         \A s \in Side : IsBlack(t, t.child[s][w]),
         NEW r, r = [t EXCEPT !.red[w] = TRUE],
         NEW q, q = t.parent[p]
  PROVE  Reddened(t, r, M, G, p, q)
<1> DEFINE zs == SideOf(t, q, p)
           E == [n \in Node |-> IF n = p \/ n = w THEN D[n] - 1 ELSE D[n]]
<1>1. /\ Formed(t, M, G)
      /\ Balanced(t, M, D, p, hs)
      /\ p \in M /\ hs \in Side /\ t.child[hs][p] = e /\ IsBlack(t, e)
      /\ \A n \in M, s \in Side : ~RedPair(t, n, s)
      /\ IsBlack(t, t.root)
  BY DEF Missing
<1>2. SiblingAt(t, M, D, p, hs, w)
  BY <1>1, Sibling
<1>3. /\ w \in M /\ w # NULL /\ w # p /\ w # t.root /\ w # e /\ t.parent[w] = p
      /\ D[p] = Height(D, e) + 1 + Weight(t, p)
      /\ D[p] = D[w] + Weight(t, p)
  BY <1>1, <1>2 DEF SiblingAt
<1>4. /\ \A n \in M, s \in Side : t.child[s][n] = NULL \/ (t.child[s][n] \in M /\ t.parent[t.child[s][n]] = n)
      /\ \A n \in M : n \in Node /\ n # NULL
      /\ t \in Tree /\ M \subseteq Node
  BY <1>1, Children
<1>5. ColorIsSet(t, r, w, TRUE)
  BY <1>3, <1>4, SetRedFields
<1>6. Recolored(t, r) /\ Formed(r, M, G) /\ r.child = t.child /\ r.root = t.root
  BY <1>1, <1>5, RecoloredFormed DEF ColorIsSet, Recolored
<1>7. \A n \in M : r.red[n] = IF n = w THEN TRUE ELSE t.red[n]
  BY <1>4, <1>5 DEF ColorIsSet
<1>8. ParentAt(t, M, G, p, q)
  BY <1>1, Parents
<1>9. q # NULL => q \in M /\ zs \in Side /\ t.child[zs][q] = p /\ q # p
  BY <1>8 DEF ParentAt
<1>10. q = NULL <=> p = t.root
  BY <1>8 DEF ParentAt
<1>11. zs \in Side
  BY DEF SideOf, Side
<1>12. \A n \in M, s \in Side : t.child[s][n] = p => q # NULL /\ n = q /\ s = zs
  <2>1. SUFFICES ASSUME NEW n \in M, NEW s \in Side, t.child[s][n] = p
                 PROVE  q # NULL /\ n = q /\ s = zs
    OBVIOUS
  <2>2. n = q /\ q # NULL
    BY <1>1, <1>4, <2>1
  <2>3. t.child[s][n] # t.child[Other(s)][n]
    BY <1>1, <2>1, Children, SMTT(30)
  <2>4. s = zs
    BY <2>1, <2>2, <2>3 DEF SideOf, Side, Other
  <2>5. QED BY <2>2, <2>4
<1>13. \A n \in M, s \in Side : t.child[s][n] = w => n = p /\ s = Other(hs)
  <2>1. SUFFICES ASSUME NEW n \in M, NEW s \in Side, t.child[s][n] = w
                 PROVE  n = p /\ s = Other(hs)
    OBVIOUS
  <2>2. n = p
    BY <1>3, <1>4, <2>1
  <2>3. QED BY <1>1, <1>3, <2>1, <2>2, Sides
<1> HIDE DEF zs
<1>14. /\ \A n \in M, s \in Side : Height(D, t.child[s][n]) \in Nat
       /\ \A n \in M : Height(D, n) = D[n] /\ D[n] \in Nat
       /\ Height(D, NULL) = 0
  BY <1>1, HeightIsNat
<1>15. \A n \in M : E[n] = IF n = p \/ n = w THEN D[n] - 1 ELSE D[n]
  BY <1>4
<1>16. Height(E, NULL) = 0 /\ \A n \in M : Height(E, n) = E[n]
  BY <1>4 DEF Height
<1> HIDE DEF E
<1>17. /\ t.child[hs][p] = e /\ t.child[Other(hs)][p] = w /\ Other(hs) \in Side /\ Other(hs) # hs
       /\ \A s \in Side : s = hs \/ s = Other(hs)
  BY <1>1, Sides
<1>18. e # p /\ (e = NULL \/ e \in M) /\ Height(D, e) \in Nat
  BY <1>1, <1>4, <1>14, Children
<1>19. Weight(r, w) = 0 /\ Weight(t, w) = 1 /\ \A n \in M : n # w => Weight(r, n) = Weight(t, n)
  BY <1>3, <1>7 DEF Weight
<1>20. \A n : Weight(t, n) \in Nat /\ Weight(t, n) <= 1
  BY DEF Weight
<1>21. ASSUME NEW n \in M, NEW s \in Side
       PROVE  E[n] = Height(E, r.child[s][n]) + Hole(n, s, q, zs) + Weight(r, n)
  <2>1. D[n] = Height(D, t.child[s][n]) + Hole(n, s, p, hs) + Weight(t, n)
    BY <1>1 DEF Balanced
  <2>2. Height(D, t.child[s][n]) \in Nat /\ Hole(n, s, p, hs) \in Nat /\ Hole(n, s, q, zs) \in Nat
    BY <1>14 DEF Hole
  <2>3. CASE n = p
    <3>1. Hole(n, s, q, zs) = 0 /\ E[n] = D[p] - 1 /\ Weight(r, n) = Weight(t, p)
      BY <1>3, <1>4, <1>9, <1>15, <1>19, <2>3, ZenonT(30) DEF Hole
    <3>2. CASE s = hs
      <4>1. Height(E, r.child[s][n]) = Height(D, e)
        BY <1>3, <1>6, <1>14, <1>15, <1>16, <1>17, <1>18, <2>3, <3>2
      <4>2. QED BY <1>3, <1>14, <1>18, <1>20, <3>1, <4>1
    <3>3. CASE s = Other(hs)
      <4>1. Height(E, r.child[s][n]) = D[w] - 1
        BY <1>3, <1>6, <1>15, <1>16, <1>17, <2>3, <3>3, SMTT(30)
      <4>2. QED BY <1>3, <1>14, <1>20, <3>1, <4>1
    <3>4. QED BY <1>17, <3>2, <3>3
  <2>4. CASE n = w
    <3>1. Hole(n, s, p, hs) = 0
      BY <1>3, <2>4 DEF Hole
    <3>2. w # q
      <4>1. SUFFICES ASSUME w = q PROVE FALSE
        OBVIOUS
      <4>2. p \in G[w] /\ w \notin G[p] /\ G[p] \in SUBSET G[w]
        BY <1>3, <1>8, <4>1 DEF ParentAt
      <4>3. ParentAt(t, M, G, w, p)
        BY <1>1, <1>3, Parents
      <4>4. QED BY <1>1, <1>4, <4>2, <4>3 DEF ParentAt
    <3>3. Hole(n, s, q, zs) = 0
      BY <2>4, <3>2 DEF Hole
    <3>4. t.child[s][w] # w /\ t.child[s][w] # p
      <4>1. t.child[s][w] # w
        BY <1>1, <1>3, <1>4, Children
      <4>2. t.child[s][w] = p => w = q
        BY <1>3, <1>12
      <4>3. QED BY <3>2, <4>1, <4>2
    <3>5. Height(E, r.child[s][n]) = Height(D, t.child[s][n])
      BY <1>3, <1>4, <1>6, <1>14, <1>15, <1>16, <2>4, <3>4
    <3>6. QED BY <1>3, <1>14, <1>15, <1>19, <2>1, <2>2, <2>4, <3>1, <3>3, <3>5
  <2>5. CASE n # p /\ n # w
    <3>1. Hole(n, s, p, hs) = 0 /\ E[n] = D[n] /\ Weight(r, n) = Weight(t, n)
      BY <1>15, <1>19, <2>5 DEF Hole
    <3>2. t.child[s][n] # w
      BY <1>13, <2>5
    <3>3. CASE t.child[s][n] = p
      <4>1. Hole(n, s, q, zs) = 1
        BY <1>12, <3>3 DEF Hole
      <4>2. Height(E, r.child[s][n]) = D[p] - 1 /\ Height(D, t.child[s][n]) = D[p]
        BY <1>1, <1>6, <1>14, <1>15, <1>16, <3>3
      <4>3. QED BY <1>1, <1>14, <1>20, <2>1, <3>1, <4>1, <4>2
    <3>4. CASE t.child[s][n] # p
      <4>1. Hole(n, s, q, zs) = 0
        BY <1>4, <1>9, <3>4 DEF Hole
      <4>2. Height(E, r.child[s][n]) = Height(D, t.child[s][n])
        BY <1>4, <1>6, <1>14, <1>15, <1>16, <3>2, <3>4
      <4>3. QED BY <2>1, <2>2, <3>1, <4>1, <4>2
    <3>5. QED BY <3>3, <3>4
  <2>6. QED BY <2>3, <2>4, <2>5
<1>22. ASSUME NEW n \in M PROVE E[n] \in Nat
  <2>1. D[w] = Height(D, t.child[hs][w]) + Hole(w, hs, p, hs) + Weight(t, w)
    BY <1>1, <1>3 DEF Balanced
  <2>2. Height(D, t.child[hs][w]) \in Nat /\ Hole(w, hs, p, hs) \in Nat
    BY <1>1, <1>3, <1>14 DEF Hole
  <2>3. D[w] - 1 \in Nat
    BY <1>19, <2>1, <2>2
  <2>4. D[p] - 1 \in Nat
    BY <1>3, <1>18, <1>20
  <2>5. QED BY <1>14, <1>15, <2>3, <2>4
<1>23. Balanced(r, M, E, q, zs)
  BY <1>21, <1>22 DEF Balanced
<1>24. ASSUME NEW n \in M, NEW s \in Side, RedPair(r, n, s), n # p PROVE FALSE
  <2>1. t.child[s][n] # NULL /\ t.child[s][n] \in M /\ r.red[n] /\ r.red[t.child[s][n]]
    BY <1>4, <1>6, <1>24 DEF RedPair
  <2>2. t.child[s][n] # w
    BY <1>13, <1>24
  <2>3. t.red[t.child[s][n]]
    BY <1>7, <2>1, <2>2
  <2>4. n # w
    BY <2>1, <2>3 DEF IsBlack, IsRed
  <2>5. RedPair(t, n, s)
    BY <1>7, <2>1, <2>3, <2>4, ZenonT(30) DEF RedPair
  <2>6. QED BY <1>1, <2>5
<1>25. IsBlack(r, r.root)
  <2>1. t.root \in M
    BY <1>1, <1>4 DEF Formed, Under
  <2>2. QED BY <1>1, <1>3, <1>6, <1>7, <2>1 DEF IsBlack, IsRed
<1>26. r.red[p] = t.red[p]
  BY <1>1, <1>3, <1>7
<1>27. q = NULL \/ (q \in M /\ r.child[zs][q] = p)
  BY <1>6, <1>9
<1>28. \E F : \E z \in Side : Balanced(r, M, F, q, z)
       /\ (q = NULL \/ (q \in M /\ r.child[z][q] = p))
  BY <1>11, <1>23, <1>27
<1>29. QED BY <1>6, <1>10, <1>24, <1>25, <1>26, <1>28 DEF Reddened

\* Where the links of a rotation lead, below and above it.
ChildrenTurned(t, r, M, elm, side, tmp) ==
  /\ r.child[side][tmp] = elm
  /\ \A n \in M, s \in Side : n \notin {elm, tmp} =>
       r.child[s][n] = IF t.child[s][n] = elm THEN tmp ELSE t.child[s][n]

\* A rotation leads the links so.
LEMMA TurnedChildren ==
  ASSUME NEW t, NEW M, NEW G, Formed(t, M, G), NEW elm \in M, NEW side \in Side,
         NEW tmp, tmp = t.child[Other(side)][elm], tmp # NULL,
         NEW r, Rotated(t, r, M, elm, side)
  PROVE  ChildrenTurned(t, r, M, elm, side, tmp)
BY Turning DEF ChildrenTurned

\* The child of the sibling on the outside is red now.
OutsideRed(t, p, hs) ==
  LET w == t.child[Other(hs)][p] IN ~t.red[w] /\ IsRed(t, t.child[Other(hs)][w])

\* Turning the red child of the sibling to the outside leaves the same node missing.
LEMMA RedOutsideKeeps ==
  ASSUME NEW t, NEW M, NEW G, NEW D, NEW p, NEW hs, NEW e, Missing(t, M, G, D, p, hs, e),
         NEW w, w = t.child[Other(hs)][p], ~t.red[w],
         \E s \in Side : IsRed(t, t.child[s][w]),
         NEW r, r = RedOutside(t, w, hs)
  PROVE  (\E H, E : Missing(r, M, H, E, p, hs, e)) /\ OutsideRed(r, p, hs)
<1>1. /\ Formed(t, M, G)
      /\ Balanced(t, M, D, p, hs)
      /\ p \in M /\ hs \in Side /\ t.child[hs][p] = e /\ IsBlack(t, e)
      /\ \A n \in M, s \in Side : ~RedPair(t, n, s)
      /\ IsBlack(t, t.root)
  BY DEF Missing
<1>2. w \in M /\ w # NULL /\ w # p /\ w # t.root /\ w # e /\ t.parent[w] = p
  <2>1. SiblingAt(t, M, D, p, hs, w)
    BY <1>1, Sibling
  <2>2. QED BY <1>1, <2>1 DEF SiblingAt
<1>3. PICK other : other = Other(hs)
  OBVIOUS
<1>4. other \in Side /\ other # hs /\ Other(other) = hs /\ \A s \in Side : s = hs \/ s = other
  BY <1>1, <1>3, Sides
<1>5. /\ \A n \in M, s \in Side :
           /\ t.child[s][n] = NULL \/ t.child[s][n] \in M
           /\ t.child[s][n] \in M => t.parent[t.child[s][n]] = n /\ t.child[s][n] # n
      /\ \A n \in M : n \in Node /\ n # NULL
      /\ t \in Tree /\ M \subseteq Node
  BY <1>1, Children
<1>6. CASE IsRed(t, t.child[other][w])
  <2>1. r = t
    BY <1>3, <1>6 DEF RedOutside, IsBlack
  <2>2. QED BY <1>3, <1>6, <2>1 DEF OutsideRed
<1>7. CASE ~IsRed(t, t.child[other][w])
  <2>1. PICK near : near = t.child[hs][w]
    BY ZenonT(30)
  <2>2. near \in M /\ near # NULL /\ t.red[near] /\ near # w /\ t.parent[near] = w
    BY <1>1, <1>2, <1>4, <1>5, <1>7, <2>1, SMTT(30) DEF IsRed
  <2>3. near # p
    <3>1. SUFFICES ASSUME near = p PROVE FALSE
      OBVIOUS
    <3>2. ParentAt(t, M, G, near, w) /\ ParentAt(t, M, G, w, p)
      BY <1>1, <1>2, <2>2, Parents
    <3>3. QED BY <1>2, <1>5, <2>2, <3>1, <3>2 DEF ParentAt
  <2>4. PICK x : x = SetBlack(t, near)
    OBVIOUS
  <2>5. PICK v : v = [x EXCEPT !.red[w] = TRUE]
    BY Zenon
  <2>6. r = Rotate(v, w, other)
    BY <1>3, <1>7, <2>1, <2>4, <2>5, Zenon DEF RedOutside, IsBlack
  <2>7. ColorIsSet(t, x, near, FALSE)
    BY <1>5, <2>2, <2>4, SetBlackFields DEF Link
  <2>8. x \in Tree
    BY <2>7 DEF ColorIsSet, Recolored
  <2>9. ColorIsSet(x, v, w, TRUE)
    BY <1>2, <1>5, <2>5, <2>8, SetRedFields
  <2>10. Recolored(t, v) /\ \A m \in Node : v.red[m] = IF m = w THEN TRUE
           ELSE IF m = near THEN FALSE ELSE t.red[m]
    BY <2>7, <2>9, ZenonT(30) DEF ColorIsSet, Recolored
  <2>11. Formed(v, M, G) /\ v.child = t.child /\ v.root = t.root
    BY <1>1, <2>10, RecoloredFormed DEF Recolored
  <2>12. /\ ~v.red[near] /\ v.red[w]
         /\ \A n \in M : n \notin {w, near} => v.red[n] = t.red[n]
    BY <1>2, <1>5, <2>2, <2>10
  <2>13. near = t.child[Other(other)][w] /\ near = v.child[Other(other)][w]
    BY <1>4, <2>1, <2>11, Zenon
  <2>14. Rotated(v, r, M, w, other)
    BY <1>2, <1>4, <2>2, <2>6, <2>11, <2>13, RotateWrites, Zenon
  <2>15. PICK H : Formed(r, M, H)
    BY <1>2, <1>4, <2>2, <2>11, <2>13, <2>14, RotateKeeps, ZenonT(30)
  <2>16. PICK E : Balanced(r, M, E, p, hs)
    <3>1. Formed(t, M, G) /\ Balanced(t, M, D, p, hs) /\ other \in Side /\ w \in M
      BY <1>1, <1>2, <1>4, Zenon
    <3>2. /\ near = t.child[Other(other)][w] /\ near # NULL /\ t.red[near]
          /\ p # near /\ (p = w => hs = other) /\ Recolored(t, v)
      BY <1>2, <2>2, <2>3, <2>10, <2>13, Zenon
    <3>3. QED BY <2>12, <2>14, <3>1, <3>2, SwapBalanced, SMTT(30)
  <2>17. \A n \in M, s \in Side : ~RedPair(r, n, s)
    <3>1. IsBlack(t, t.child[other][w])
      BY <1>7 DEF IsBlack
    <3>2. /\ Formed(t, M, G) /\ other \in Side /\ w \in M
          /\ \A n \in M, s \in Side : RedPair(t, n, s) => n = near /\ s = Other(other)
      BY <1>1, <1>2, <1>4, Zenon
    <3>3. near = t.child[Other(other)][w] /\ near # NULL /\ t.red[near] /\ Recolored(t, v)
      BY <2>2, <2>10, <2>13, Zenon
    <3>4. QED BY <2>12, <2>14, <3>1, <3>2, <3>3, SwapPairs, SMTT(30)
  <2>18. r.red = v.red /\ r.root = t.root
    BY <1>2, <2>11, <2>14, Zenon DEF Rotated
  <2>19. /\ r.child[other][near] = w
         /\ \A n \in M, s \in Side : n \notin {w, near} =>
              r.child[s][n] = IF t.child[s][n] = w THEN near ELSE t.child[s][n]
    <3>1. /\ r.child[other][near] = w
          /\ \A n \in M, s \in Side : n \notin {w, near} =>
               r.child[s][n] = IF v.child[s][n] = w THEN near ELSE v.child[s][n]
      <4>1. Formed(v, M, G) /\ other \in Side /\ w \in M /\ near # NULL
            /\ near = v.child[Other(other)][w]
        BY <1>2, <1>4, <2>2, <2>11, <2>13
      <4>2. ChildrenTurned(v, r, M, w, other, near)
        BY <2>14, <4>1, TurnedChildren, ZenonT(30)
      <4>3. QED BY <4>2, ZenonT(30) DEF ChildrenTurned
    <3>2. QED BY <2>11, <3>1, SMTT(30)
  <2>20. r.child[hs][p] = e /\ r.child[other][p] = near
    BY <1>1, <1>2, <1>3, <1>4, <2>3, <2>19
  <2>21. IsBlack(r, e)
    <3>1. e = NULL \/ e \in M
      BY <1>1, <1>5
    <3>2. QED BY <1>1, <1>2, <2>12, <2>18, <3>1 DEF IsBlack, IsRed
  <2>22. IsBlack(r, r.root)
    <3>1. t.root \in M
      BY <1>1 DEF Formed, Under
    <3>2. QED BY <1>1, <1>2, <1>5, <2>12, <2>18, <3>1 DEF IsBlack, IsRed
  <2>23. Missing(r, M, H, E, p, hs, e)
    BY <1>1, <2>15, <2>16, <2>17, <2>20, <2>21, <2>22, ZenonT(30) DEF Missing
  <2>24. OutsideRed(r, p, hs)
    BY <1>2, <1>3, <2>12, <2>18, <2>19, <2>20 DEF OutsideRed, IsRed
  <2>25. QED BY <2>23, <2>24
<1>8. QED BY <1>6, <1>7

\* The sibling comes up with a black node for each side, and none is missing any more.
LEMMA RefilledKeeps ==
  ASSUME NEW t, NEW M, NEW G, NEW D, NEW p, NEW hs, NEW e, Missing(t, M, G, D, p, hs, e),
         OutsideRed(t, p, hs), NEW r, r = Refilled(t, p, hs)
  PROVE  /\ \E H : Formed(r, M, H)
         /\ \E E : Balanced(r, M, E, NULL, "left")
         /\ \A n \in M, s \in Side : ~RedPair(r, n, s)
         /\ IsBlack(r, r.root)
<1>1. /\ Formed(t, M, G)
      /\ Balanced(t, M, D, p, hs)
      /\ p \in M /\ hs \in Side /\ t.child[hs][p] = e /\ IsBlack(t, e)
      /\ \A n \in M, s \in Side : ~RedPair(t, n, s)
      /\ IsBlack(t, t.root)
  BY DEF Missing
<1>2. PICK w : w = t.child[Other(hs)][p]
  OBVIOUS
<1>3. /\ w \in M /\ w # NULL /\ w # p /\ w # t.root /\ w # e /\ t.parent[w] = p
      /\ D[p] = Height(D, e) + 1 + Weight(t, p)
      /\ D[p] = D[w] + Weight(t, p)
  <2>1. SiblingAt(t, M, D, p, hs, w)
    BY <1>1, <1>2, Sibling
  <2>2. QED BY <1>1, <2>1 DEF SiblingAt
<1>4. PICK other : other = Other(hs)
  OBVIOUS
<1>5. other \in Side /\ other # hs /\ Other(other) = hs /\ \A s \in Side : s = hs \/ s = other
  BY <1>1, <1>4, Sides
<1>6. /\ \A n \in M, s \in Side :
           /\ t.child[s][n] = NULL \/ t.child[s][n] \in M
           /\ t.child[s][n] \in M => /\ t.parent[t.child[s][n]] = n /\ t.child[s][n] # n
                                     /\ t.child[s][n] # t.child[Other(s)][n]
      /\ \A n \in M : n \in Node /\ n # NULL
      /\ t \in Tree /\ M \subseteq Node
  BY <1>1, Children
<1>7. PICK far, near : far = t.child[other][w] /\ near = t.child[hs][w]
  OBVIOUS
<1>8. /\ ~t.red[w] /\ far # NULL /\ t.red[far] /\ far \in M /\ far # w /\ t.parent[far] = w
      /\ near # far
  BY <1>2, <1>3, <1>4, <1>5, <1>6, <1>7 DEF OutsideRed, IsRed
<1>9. far # p
  <2>1. SUFFICES ASSUME far = p PROVE FALSE
    OBVIOUS
  <2>2. ParentAt(t, M, G, far, w) /\ ParentAt(t, M, G, w, p)
    BY <1>1, <1>3, <1>8, Parents
  <2>3. QED BY <1>3, <1>6, <1>8, <2>1, <2>2 DEF ParentAt
<1>10. PICK x : x = [t EXCEPT !.red[w] = t.red[p], !.red[p] = FALSE]
  OBVIOUS
<1>11. x \in Tree /\ Recolored(t, x)
       /\ \A m \in Node : x.red[m] = IF m = p THEN FALSE ELSE IF m = w THEN t.red[p] ELSE t.red[m]
  <2>1. PICK y : y = [t EXCEPT !.red[w] = t.red[p]]
    OBVIOUS
  <2>2. t.red[p] \in BOOLEAN
    BY <1>1, <1>6, TreeFields
  <2>3. ColorIsSet(t, y, w, t.red[p])
    BY <1>3, <1>6, <2>1, <2>2, SetRedFields
  <2>4. x = [y EXCEPT !.red[p] = FALSE]
    BY <1>10, <2>1
  <2>5. y \in Tree
    BY <2>3 DEF ColorIsSet, Recolored
  <2>6. ColorIsSet(y, x, p, FALSE)
    BY <1>1, <1>6, <2>4, <2>5, SetRedFields
  <2>7. QED BY <2>3, <2>6 DEF ColorIsSet, Recolored
<1>12. PICK v : v = SetBlack(x, far)
  OBVIOUS
<1>13. ColorIsSet(x, v, far, FALSE)
  BY <1>6, <1>8, <1>11, <1>12, SetBlackFields DEF Link
<1>14. Recolored(t, v) /\ \A m \in M : v.red[m] = IF m = p \/ m = far THEN FALSE
         ELSE IF m = w THEN t.red[p] ELSE t.red[m]
  <2>1. /\ Recolored(x, v)
        /\ \A m \in Node : v.red[m] = IF m = far THEN FALSE ELSE x.red[m]
    BY <1>13 DEF ColorIsSet
  <2>2. Recolored(t, v)
    BY <1>11, <2>1 DEF Recolored
  <2>3. ASSUME NEW m \in M
        PROVE  v.red[m] = IF m = p \/ m = far THEN FALSE ELSE IF m = w THEN t.red[p] ELSE t.red[m]
    <3>1. v.red[m] = (IF m = far THEN FALSE ELSE x.red[m])
      BY <1>6, <2>1
    <3>2. x.red[m] = (IF m = p THEN FALSE ELSE IF m = w THEN t.red[p] ELSE t.red[m])
      BY <1>6, <1>11
    <3>3. QED BY <3>1, <3>2, Zenon
  <2>4. QED BY <2>2, <2>3
<1>15. Formed(v, M, G) /\ v.child = t.child /\ v.root = t.root
  BY <1>1, <1>14, RecoloredFormed DEF Recolored
<1>16. r = Rotate(v, p, hs)
  <2>1. far = x.child[Other(hs)][w]
    BY <1>4, <1>7, <1>11 DEF Recolored
  <2>2. QED BY <1>2, <1>10, <1>12, <2>1 DEF Refilled
<1>17. w = v.child[Other(hs)][p]
  BY <1>2, <1>15
<1>18. Rotated(v, r, M, p, hs)
  BY <1>1, <1>3, <1>15, <1>16, <1>17, RotateWrites
<1>19. PICK H : Formed(r, M, H)
  BY <1>1, <1>3, <1>15, <1>17, <1>18, RotateKeeps
<1>20. r.red = v.red /\ r.root = IF p = t.root THEN w ELSE t.root
  BY <1>15, <1>17, <1>18 DEF Rotated
<1>21. /\ r.child[hs][p] = e /\ e \notin {p, w}
       /\ r.child[other][p] = near /\ near \notin {p, w}
       /\ r.child[hs][w] = p
       /\ r.child[other][w] = far
       /\ \A n \in M, s \in Side : n \notin {p, w} =>
            /\ t.child[s][n] # w
            /\ r.child[s][n] = IF t.child[s][n] = p THEN w ELSE t.child[s][n]
  <2>1. /\ r.child[hs][p] = v.child[hs][p] /\ v.child[hs][p] \notin {p, w}
        /\ r.child[Other(hs)][p] = v.child[hs][w] /\ v.child[hs][w] \notin {p, w}
        /\ r.child[hs][w] = p
        /\ r.child[Other(hs)][w] = v.child[Other(hs)][w]
        /\ \A n \in M, s \in Side : n \notin {p, w} =>
             /\ v.child[s][n] # w
             /\ r.child[s][n] = IF v.child[s][n] = p THEN w ELSE v.child[s][n]
    <3>1. Formed(v, M, G) /\ hs \in Side /\ w # NULL /\ p \in M
      BY <1>1, <1>3, <1>15
    <3>2. QED BY <1>17, <1>18, <3>1, Turning
  <2>2. QED BY <1>1, <1>4, <1>7, <1>15, <2>1
<1>22. /\ \A n \in M, s \in Side : Height(D, t.child[s][n]) \in Nat
       /\ \A n \in M : Height(D, n) = D[n] /\ D[n] \in Nat
       /\ Height(D, NULL) = 0
  BY <1>1, HeightIsNat
<1>23. \A n \in M, s \in Side : t.child[s][n] = far => n = w /\ s = other
  <2>1. SUFFICES ASSUME NEW n \in M, NEW s \in Side, t.child[s][n] = far PROVE n = w /\ s = other
    OBVIOUS
  <2>2. n = w
    BY <1>6, <1>8, <2>1
  <2>3. QED BY <1>5, <1>7, <1>8, <2>1, <2>2
<1> DEFINE E == [n \in Node |-> IF n = p THEN D[w] ELSE IF n = w THEN D[p]
                                ELSE IF n = far THEN D[far] + 1 ELSE D[n]]
<1>24. /\ E[p] = D[w] /\ E[w] = D[p] /\ E[far] = D[far] + 1
       /\ \A n \in M : n \notin {p, w, far} => E[n] = D[n]
  BY <1>1, <1>3, <1>6, <1>8, <1>9
<1>25. Height(E, NULL) = 0 /\ \A n \in M : Height(E, n) = E[n]
  BY <1>6 DEF Height
<1> HIDE DEF E
<1>26. /\ \A n \in M : n \notin {p, w, far} => Weight(r, n) = Weight(t, n)
       /\ Weight(r, p) = 1 /\ Weight(r, far) = 1 /\ Weight(r, w) = Weight(t, p)
       /\ Weight(t, w) = 1 /\ Weight(t, far) = 0 /\ Weight(t, p) \in Nat
  <2>1. \A n \in M : r.red[n] = IF n = p \/ n = far THEN FALSE ELSE IF n = w THEN t.red[p]
          ELSE t.red[n]
    BY <1>14, <1>20, Zenon
  <2>2. ASSUME NEW n \in M, n \notin {p, w, far} PROVE Weight(r, n) = Weight(t, n)
    <3>1. r.red[n] = t.red[n]
      BY <2>1, <2>2
    <3>2. QED BY <3>1, Zenon DEF Weight
  <2>3. ~r.red[p] /\ ~r.red[far] /\ r.red[w] = t.red[p]
    BY <1>1, <1>3, <1>6, <1>8, <1>9, <2>1
  <2>4. ~t.red[w] /\ t.red[far]
    BY <1>1, <1>3, <1>8, <1>9
  <2>5. Weight(r, w) = Weight(t, p)
    BY <2>3, Zenon DEF Weight
  <2>6. QED BY <2>2, <2>3, <2>4, <2>5 DEF Weight
<1>27. /\ D[w] = Height(D, e) + 1
       /\ D[w] = Height(D, near) + 1
       /\ D[w] = D[far] + 1
       /\ Height(D, e) \in Nat /\ Height(D, near) \in Nat
  <2>1. Hole(w, hs, p, hs) = 0 /\ Hole(w, other, p, hs) = 0
    BY <1>3 DEF Hole
  <2>2. /\ D[w] = Height(D, near) + Hole(w, hs, p, hs) + Weight(t, w)
        /\ D[w] = Height(D, far) + Hole(w, other, p, hs) + Weight(t, w)
    BY <1>1, <1>3, <1>5, <1>7 DEF Balanced
  <2>3. Height(D, far) = D[far] /\ D[far] \in Nat /\ Height(D, near) \in Nat /\ Height(D, e) \in Nat
    BY <1>1, <1>3, <1>7, <1>8, <1>22
  <2>4. D[w] \in Nat /\ D[p] \in Nat
    BY <1>1, <1>3, <1>22
  <2>5. QED BY <1>3, <1>26, <2>1, <2>2, <2>3, <2>4
<1>28. e # far /\ near # far /\ (e = NULL \/ e \in M) /\ (near = NULL \/ near \in M)
  <2>1. e # far
    BY <1>1, <1>3, <1>8, <1>23
  <2>2. QED BY <1>1, <1>3, <1>6, <1>7, <1>8, <2>1
<1>29. Height(E, e) = Height(D, e) /\ Height(E, near) = Height(D, near)
  BY <1>21, <1>22, <1>24, <1>25, <1>28
<1>30. ASSUME NEW n \in M, NEW s \in Side
       PROVE  E[n] = Height(E, r.child[s][n]) + Weight(r, n)
  <2>1. CASE n = p
    BY <1>5, <1>21, <1>24, <1>26, <1>27, <1>29, <2>1
  <2>2. CASE n = w
    <3>1. Height(E, r.child[s][n]) = D[w]
      BY <1>1, <1>5, <1>8, <1>21, <1>24, <1>25, <1>27, <2>2
    <3>2. QED BY <1>3, <1>24, <1>26, <2>2, <3>1
  <2>3. CASE n \notin {p, w}
    <3>1. D[n] = Height(D, t.child[s][n]) + Weight(t, n)
      <4>1. Hole(n, s, p, hs) = 0 /\ Weight(t, n) \in Nat /\ Height(D, t.child[s][n]) \in Nat
        BY <1>22, <2>3 DEF Hole, Weight
      <4>2. D[n] = Height(D, t.child[s][n]) + Hole(n, s, p, hs) + Weight(t, n)
        BY <1>1 DEF Balanced
      <4>3. QED BY <4>1, <4>2
    <3>2. Height(E, r.child[s][n]) = Height(D, t.child[s][n])
      <4>1. t.child[s][n] # far /\ t.child[s][n] # w
            /\ (t.child[s][n] = NULL \/ t.child[s][n] \in M)
        BY <1>6, <1>21, <1>23, <2>3
      <4>2. CASE t.child[s][n] = p
        BY <1>1, <1>3, <1>21, <1>22, <1>24, <1>25, <2>3, <4>2
      <4>3. CASE t.child[s][n] # p
        BY <1>21, <1>22, <1>24, <1>25, <2>3, <4>1, <4>3
      <4>4. QED BY <4>2, <4>3
    <3>3. CASE n = far
      BY <1>22, <1>24, <1>26, <1>8, <3>1, <3>2, <3>3
    <3>4. CASE n # far
      BY <1>24, <1>26, <2>3, <3>1, <3>2, <3>4
    <3>5. QED BY <3>3, <3>4
  <2>4. QED BY <2>1, <2>2, <2>3
<1>31. ASSUME NEW n \in M PROVE E[n] \in Nat
  <2>1. D[p] \in Nat /\ D[w] \in Nat /\ D[far] + 1 \in Nat /\ D[n] \in Nat
    BY <1>1, <1>3, <1>8, <1>22
  <2>2. CASE n \in {p, w, far}
    BY <1>24, <2>1, <2>2
  <2>3. CASE n \notin {p, w, far}
    BY <1>24, <2>1, <2>3
  <2>4. QED BY <2>2, <2>3
<1>32. Balanced(r, M, E, NULL, "left")
  <2>1. ASSUME NEW n \in M, NEW s \in Side
        PROVE  E[n] = Height(E, r.child[s][n]) + Hole(n, s, NULL, "left") + Weight(r, n)
    <3>1. Hole(n, s, NULL, "left") = 0
      BY <1>6 DEF Hole
    <3>2. Height(E, r.child[s][n]) \in Nat
      <4>1. r.child[s][n] = NULL \/ r.child[s][n] \in M
        BY <1>19, Children
      <4>2. QED BY <1>25, <1>31, <4>1
    <3>3. QED BY <1>30, <3>1, <3>2
  <2>2. QED BY <1>31, <2>1 DEF Balanced
<1>33. ASSUME NEW n \in M, NEW s \in Side, RedPair(r, n, s) PROVE FALSE
  <2>1. r.child[s][n] # NULL /\ v.red[n] /\ v.red[r.child[s][n]]
    BY <1>20, <1>33 DEF RedPair
  <2>2. ~v.red[p] /\ ~v.red[far] /\ v.red[w] = t.red[p]
    BY <1>1, <1>3, <1>8, <1>9, <1>14
  <2>3. n # w
    BY <1>5, <1>21, <2>1, <2>2
  <2>4. n \notin {p, w, far} /\ t.red[n]
    BY <1>14, <2>1, <2>2, <2>3
  <2>5. t.child[s][n] # NULL /\ t.red[t.child[s][n]]
    <3>1. CASE t.child[s][n] = p
      <4>1. r.child[s][n] = w /\ p # NULL
        BY <1>1, <1>6, <1>21, <2>4, <3>1
      <4>2. t.red[p]
        BY <2>1, <2>2, <4>1
      <4>3. QED BY <3>1, <4>1, <4>2
    <3>2. CASE t.child[s][n] # p
      <4>1. r.child[s][n] = t.child[s][n] /\ t.child[s][n] # w /\ t.child[s][n] # NULL
        BY <1>21, <2>1, <2>4, <3>2
      <4>2. QED BY <1>6, <1>14, <2>1, <2>2, <3>2, <4>1, ZenonT(30)
    <3>3. QED BY <3>1, <3>2
  <2>6. RedPair(t, n, s)
    BY <2>4, <2>5 DEF RedPair
  <2>7. QED BY <1>1, <2>6
<1>34. IsBlack(r, r.root)
  <2>1. t.root \in M
    BY <1>1 DEF Formed, Under
  <2>2. ~t.red[t.root]
    BY <1>1, <1>6, <2>1 DEF IsBlack, IsRed
  <2>3. ~v.red[r.root]
    BY <1>3, <1>9, <1>14, <1>20, <2>1, <2>2, <1>8
  <2>4. QED BY <1>20, <2>3 DEF IsBlack, IsRed
<1>35. QED BY <1>19, <1>32, <1>33, <1>34

\* The tree before the round i: a black node is missing above elm, which may be red, and
\* then in a red pair.
RemovingIn(t, p, e, M, i, G, D, hs) ==
  /\ Formed(t, M, G)
  /\ hs \in Side
  /\ Balanced(t, M, D, IF e = t.root THEN NULL ELSE p, hs)
  /\ e = NULL \/ e \in M
  /\ e # t.root => p \in M /\ t.child[hs][p] = e
  /\ \A n \in M, s \in Side : RedPair(t, n, s) => n = e \/ t.child[s][n] = e
  /\ IsBlack(t, t.root) \/ t.root = e
  /\ e = t.root \/ IsRed(t, e) \/ Cardinality(G[p]) >= i + 1
Removing(s, M, i) == \E G, D, hs : RemovingIn(s.tree, s.parent, s.elm, M, i, G, D, hs)

GoneUpTo(s, M, i) == s \in [tree : Tree, parent : Link, elm : Link] /\ Removing(s, M, i)

\* A round goes on one level up, with the sibling red.
LEMMA GoneUp ==
  ASSUME NEW t, NEW M, NEW G, NEW D, NEW p, NEW hs, NEW e, Missing(t, M, G, D, p, hs, e),
         NEW w, w = t.child[Other(hs)][p], ~t.red[w],
         \A s \in Side : IsBlack(t, t.child[s][w]),
         NEW r, r = [t EXCEPT !.red[w] = TRUE],
         NEW i \in Nat, t.red[p] \/ Cardinality(G[p]) >= i + 1
  PROVE  GoneUpTo([tree |-> r, parent |-> t.parent[p], elm |-> p], M, i + 1)
<1>1. Formed(t, M, G) /\ p \in M
  BY DEF Missing
<1>2. PICK q : q = t.parent[p]
  OBVIOUS
<1>3. /\ Formed(r, M, G)
      /\ \E E : \E zs \in Side : /\ Balanced(r, M, E, q, zs)
                                 /\ q = NULL \/ (q \in M /\ r.child[zs][q] = p)
      /\ \A n \in M, s \in Side : RedPair(r, n, s) => n = p
      /\ IsBlack(r, r.root)
      /\ q = NULL => p = r.root
      /\ r.red[p] = t.red[p]
  <2>1. Reddened(t, r, M, G, p, q)
    BY <1>2, SiblingReddened
  <2>2. QED BY <2>1 DEF Reddened
<1>4. PICK E : \E zs \in Side : /\ Balanced(r, M, E, q, zs)
                                /\ q = NULL \/ (q \in M /\ r.child[zs][q] = p)
  BY <1>3
<1>5. PICK zs \in Side : /\ Balanced(r, M, E, q, zs)
                         /\ q = NULL \/ (q \in M /\ r.child[zs][q] = p)
  BY <1>4
<1>6. ParentAt(t, M, G, p, q)
  BY <1>1, <1>2, Parents
<1>7. \A n \in M : n \in Node /\ n # NULL
  BY <1>1, Children
<1>8. p = r.root => q = NULL
  <2>1. SUFFICES ASSUME p = r.root, q # NULL PROVE FALSE
    OBVIOUS
  <2>2. q \in M /\ r.child[zs][q] = p
    BY <1>5, <2>1
  <2>3. ChildAt(r, M, G, q, zs)
    BY <1>3, <2>2, At
  <2>4. QED BY <1>1, <1>7, <2>1, <2>2, <2>3 DEF ChildAt
<1>9. q \in Link /\ r \in Tree /\ p \in Link
  BY <1>1, <1>3, <1>5, <1>7 DEF Link, Formed
<1>10. p = r.root \/ IsRed(r, p) \/ Cardinality(G[q]) >= (i + 1) + 1
  <2>1. CASE q = NULL
    BY <1>3, <2>1
  <2>2. CASE t.red[p]
    BY <1>1, <1>3, <1>7, <2>2 DEF IsRed
  <2>3. CASE q # NULL /\ ~t.red[p]
    <3>1. G[p] \in SUBSET G[q] /\ G[p] # G[q]
      BY <1>6, <2>3 DEF ParentAt
    <3>2. G[q] \in SUBSET Node
      <4>1. ParentAt(t, M, G, q, t.parent[q])
        BY <1>1, <1>5, <2>3, Parents
      <4>2. QED BY <1>7, <4>1 DEF ParentAt
    <3>3. Cardinality(G[p]) + 1 <= Cardinality(G[q])
      BY <3>1, <3>2, Smaller
    <3>4. Cardinality(G[p]) \in Nat /\ Cardinality(G[q]) \in Nat
      BY <3>1, <3>2, SizeIsNat
    <3>5. QED BY <2>3, <3>3, <3>4
  <2>4. QED BY <2>1, <2>2, <2>3
<1>11. q = IF p = r.root THEN NULL ELSE q
  BY <1>8
<1>12. Balanced(r, M, E, IF p = r.root THEN NULL ELSE q, zs)
  BY <1>5, <1>11
<1>13. RemovingIn(r, q, p, M, i + 1, G, E, zs)
  BY <1>1, <1>3, <1>5, <1>10, <1>12 DEF RemovingIn
<1>14. QED BY <1>2, <1>9, <1>13 DEF Removing, GoneUpTo

\* A round that ends the loop.
LEMMA MadeUp ==
  ASSUME NEW t, NEW M, NEW G, NEW D, NEW p, NEW hs, NEW e, Missing(t, M, G, D, p, hs, e),
         NEW w, w = t.child[Other(hs)][p], ~t.red[w],
         \E s \in Side : IsRed(t, t.child[s][w]),
         NEW r, r = Refilled(RedOutside(t, w, hs), p, hs), NEW i
  PROVE  /\ [tree |-> r, parent |-> p, elm |-> r.root] \in [tree : Tree, parent : Link, elm : Link]
         /\ Removing([tree |-> r, parent |-> p, elm |-> r.root], M, i)
<1>1. PICK a : a = RedOutside(t, w, hs)
  OBVIOUS
<1>2. (\E H, E : Missing(a, M, H, E, p, hs, e)) /\ OutsideRed(a, p, hs)
  BY <1>1, RedOutsideKeeps
<1>3. PICK H, E : Missing(a, M, H, E, p, hs, e)
  BY <1>2
<1>4. r = Refilled(a, p, hs)
  BY <1>1
<1>5. /\ \E I : Formed(r, M, I)
      /\ \E F : Balanced(r, M, F, NULL, "left")
      /\ \A n \in M, s \in Side : ~RedPair(r, n, s)
      /\ IsBlack(r, r.root)
  BY <1>2, <1>3, <1>4, RefilledKeeps
<1>6. PICK I : Formed(r, M, I)
  BY <1>5
<1>7. PICK F : Balanced(r, M, F, NULL, "left")
  BY <1>5
<1>8. r \in Tree /\ r.root \in Link /\ (r.root = NULL \/ r.root \in M)
  BY <1>6, TreeFields DEF Formed
<1>9. p \in Link
  BY DEF Missing, Formed, Link
<1>10. "left" \in Side
  BY Sides
<1>11. Balanced(r, M, F, IF r.root = r.root THEN NULL ELSE p, "left")
  BY <1>7, ZenonT(30)
<1>12. RemovingIn(r, p, r.root, M, i, I, F, "left")
  BY <1>5, <1>6, <1>8, <1>10, <1>11 DEF RemovingIn
<1>13. QED BY <1>8, <1>9, <1>12 DEF Removing

\* A round of the loop keeps what holds before a round.
LEMMA RemoveRoundKeeps ==
  ASSUME NEW s \in [tree : Tree, parent : Link, elm : Link], NEW M, NEW i \in Nat,
         Removing(s, M, i)
  PROVE  /\ RemoveRound[s] \in [tree : Tree, parent : Link, elm : Link]
         /\ Removing(RemoveRound[s], M, i + 1)
<1>1. PICK t, p, e : t = s.tree /\ p = s.parent /\ e = s.elm
  OBVIOUS
<1>2. PICK G, D, hs : RemovingIn(t, p, e, M, i, G, D, hs)
  BY <1>1 DEF Removing
<1>3. /\ Formed(t, M, G)
      /\ hs \in Side
      /\ Balanced(t, M, D, IF e = t.root THEN NULL ELSE p, hs)
      /\ e = NULL \/ e \in M
      /\ e # t.root => p \in M /\ t.child[hs][p] = e
      /\ \A n \in M, z \in Side : RedPair(t, n, z) => n = e \/ t.child[z][n] = e
      /\ IsBlack(t, t.root) \/ t.root = e
      /\ e = t.root \/ IsRed(t, e) \/ Cardinality(G[p]) >= i + 1
  BY <1>2 DEF RemovingIn
<1>4. CASE IsRed(t, e) \/ e = t.root
  <2>1. RemoveRound[s] = s
    BY <1>1, <1>4 DEF RemoveRound
  <2>2. RemovingIn(t, p, e, M, i + 1, G, D, hs)
    BY <1>3, <1>4 DEF RemovingIn
  <2>3. QED BY <1>1, <2>1, <2>2 DEF Removing
<1>5. CASE ~(IsRed(t, e) \/ e = t.root)
  <2>1. p \in M /\ t.child[hs][p] = e /\ Balanced(t, M, D, p, hs) /\ Cardinality(G[p]) >= i + 1
    BY <1>3, <1>5
  <2>2. \A n \in M, z \in Side : ~RedPair(t, n, z)
    <3>1. SUFFICES ASSUME NEW n \in M, NEW z \in Side, RedPair(t, n, z) PROVE FALSE
      OBVIOUS
    <3>2. n # NULL /\ t.child[z][n] # NULL /\ t.red[n] /\ t.red[t.child[z][n]]
      BY <1>3, <3>1, Children DEF RedPair
    <3>3. QED BY <1>3, <1>5, <3>1, <3>2 DEF IsRed
  <2>3. Missing(t, M, G, D, p, hs, e)
    BY <1>3, <1>5, <2>1, <2>2 DEF Missing, IsBlack
  <2>4. SideOf(t, p, e) = hs
    <3>1. SiblingAt(t, M, D, p, hs, t.child[Other(hs)][p])
      BY <1>3, <2>1, Sibling
    <3>2. QED BY <2>1, <3>1 DEF SiblingAt
  <2>5. PICK a : a = BlackSibling(t, p, hs)
    OBVIOUS
  <2>6. RemoveRound[s] = RemoveBelow(a, p, hs)
    BY <1>1, <1>5, <2>4, <2>5 DEF RemoveRound
  <2>7. /\ \E H, E : Missing(a, M, H, E, p, hs, e) /\ ((a = t /\ H = G) \/ a.red[p])
        /\ ~a.red[a.child[Other(hs)][p]]
    BY <2>3, <2>5, BlackSiblingKeeps
  <2>8. PICK H, E : Missing(a, M, H, E, p, hs, e) /\ ((a = t /\ H = G) \/ a.red[p])
    BY <2>7
  <2>9. PICK w : w = a.child[Other(hs)][p]
    OBVIOUS
  <2>10. PICK up : up = [a EXCEPT !.red[w] = TRUE]
    OBVIOUS
  <2>11. PICK r : r = Refilled(RedOutside(a, w, hs), p, hs)
    OBVIOUS
  <2>12. RemoveBelow(a, p, hs) =
           IF IsBlack(a, a.child["left"][w]) /\ IsBlack(a, a.child["right"][w])
           THEN [tree |-> up, parent |-> a.parent[p], elm |-> p]
           ELSE [tree |-> r, parent |-> p, elm |-> r.root]
    BY <2>9, <2>10, <2>11 DEF RemoveBelow
  <2>13. CASE IsBlack(a, a.child["left"][w]) /\ IsBlack(a, a.child["right"][w])
    <3>1. \A z \in Side : IsBlack(a, a.child[z][w])
      BY <2>13 DEF Side
    <3>2. a.red[p] \/ Cardinality(H[p]) >= i + 1
      BY <2>1, <2>8
    <3>3. Missing(a, M, H, E, p, hs, e) /\ ~a.red[w]
      BY <2>7, <2>8, <2>9
    <3>4. GoneUpTo([tree |-> up, parent |-> a.parent[p], elm |-> p], M, i + 1)
      BY <2>9, <2>10, <3>1, <3>2, <3>3, GoneUp, ZenonT(30)
    <3>5. QED BY <2>6, <2>12, <2>13, <3>4 DEF GoneUpTo
  <2>14. CASE ~(IsBlack(a, a.child["left"][w]) /\ IsBlack(a, a.child["right"][w]))
    <3>1. \E z \in Side : IsRed(a, a.child[z][w])
      BY <2>14 DEF IsBlack, Side
    <3>2. QED BY <2>6, <2>7, <2>8, <2>9, <2>11, <2>12, <2>14, <3>1, MadeUp
  <2>15. QED BY <2>13, <2>14
<1>6. QED BY <1>4, <1>5

\* The loop ends, at the root or at a red node.
LEMMA RemoveLoop ==
  ASSUME NEW start \in [tree : Tree, parent : Link, elm : Link], NEW M, Removing(start, M, 0)
  PROVE  /\ Loop(RemoveRound, start) \in [tree : Tree, parent : Link, elm : Link]
         /\ Removing(Loop(RemoveRound, start), M, Size)
<1> DEFINE V == [tree : Tree, parent : Link, elm : Link]
           Good == [i \in 0..Size |-> {s \in V : Removing(s, M, i)}]
<1>1. Size \in Nat /\ 0 \in 0..Size /\ Size \in 0..Size
  BY SizeIsNat
<1>2. start \in V
  OBVIOUS
<1> HIDE DEF V
<1>3. \A i \in 0..Size : Good[i] = {s \in V : Removing(s, M, i)}
  OBVIOUS
<1> HIDE DEF Good
<1>4. ASSUME NEW i \in 1..Size, NEW s \in Good[i - 1] PROVE RemoveRound[s] \in Good[i]
  <2>1. i - 1 \in 0..Size /\ i - 1 \in Nat /\ i \in 0..Size /\ (i - 1) + 1 = i
    BY <1>1
  <2>2. s \in V /\ Removing(s, M, i - 1)
    BY <1>3, <2>1
  <2>3. RemoveRound[s] \in V /\ Removing(RemoveRound[s], M, (i - 1) + 1)
    BY <2>1, <2>2, RemoveRoundKeeps DEF V
  <2>4. QED BY <1>3, <2>1, <2>3
<1>5. start \in Good[0]
  BY <1>1, <1>2, <1>3
<1>6. Loop(RemoveRound, start) \in Good[Size]
  BY <1>4, <1>5, LoopKeeps
<1>7. QED BY <1>1, <1>3, <1>6 DEF V

\* A red node made black makes up for the missing one above it.
LEMMA FilledByRed ==
  ASSUME NEW t, NEW M, NEW G, Formed(t, M, G), NEW D, NEW p \in M, NEW hs \in Side,
         Balanced(t, M, D, p, hs), NEW e \in M, t.child[hs][p] = e, t.red[e], e # t.root,
         \A n \in M, s \in Side : RedPair(t, n, s) => n = e \/ t.child[s][n] = e,
         IsBlack(t, t.root)
  PROVE  Sound(SetBlack(t, e), M)
<1>1. PICK r : r = SetBlack(t, e)
  OBVIOUS
<1>2. /\ \A n \in M, s \in Side :
           /\ t.child[s][n] = NULL \/ t.child[s][n] \in M
           /\ t.child[s][n] \in M => /\ t.parent[t.child[s][n]] = n /\ t.child[s][n] # n
                                     /\ t.child[s][n] # t.child[Other(s)][n]
      /\ \A n \in M : n \in Node /\ n # NULL
      /\ t \in Tree /\ M \subseteq Node
  BY Children
<1>3. ColorIsSet(t, r, e, FALSE)
  BY <1>1, <1>2, SetBlackFields DEF Link
<1>4. Recolored(t, r) /\ Formed(r, M, G) /\ r.child = t.child /\ r.root = t.root
  BY <1>3, RecoloredFormed DEF ColorIsSet, Recolored
<1>5. \A n \in M : r.red[n] = IF n = e THEN FALSE ELSE t.red[n]
  BY <1>2, <1>3 DEF ColorIsSet
<1>6. \A n \in M, s \in Side : ~RedPair(r, n, s)
  <2>1. SUFFICES ASSUME NEW n \in M, NEW s \in Side, RedPair(r, n, s) PROVE FALSE
    OBVIOUS
  <2>2. t.child[s][n] # NULL /\ r.red[n] /\ r.red[t.child[s][n]] /\ t.child[s][n] \in M
    BY <1>2, <1>4, <2>1 DEF RedPair
  <2>3. t.red[n] /\ t.red[t.child[s][n]] /\ n # e /\ t.child[s][n] # e
    BY <1>5, <2>2
  <2>4. RedPair(t, n, s)
    BY <2>2, <2>3 DEF RedPair
  <2>5. QED BY <2>3, <2>4
<1>7. IsBlack(r, r.root)
  <2>1. t.root \in M
    BY <1>2 DEF Formed, Under
  <2>2. QED BY <1>4, <1>5, <2>1 DEF IsBlack, IsRed
<1> DEFINE E == [n \in Node |-> IF n = e THEN D[e] + 1 ELSE D[n]]
<1>8. /\ \A n \in M, s \in Side : Height(D, t.child[s][n]) \in Nat
      /\ \A n \in M : Height(D, n) = D[n] /\ D[n] \in Nat
      /\ Height(D, NULL) = 0
  BY HeightIsNat
<1>9. \A n \in M : E[n] = IF n = e THEN D[e] + 1 ELSE D[n]
  BY <1>2
<1>10. Height(E, NULL) = 0 /\ \A n \in M : Height(E, n) = E[n]
  BY <1>2 DEF Height
<1> HIDE DEF E
<1>11. \A n \in M, s \in Side : t.child[s][n] = e <=> n = p /\ s = hs
  <2>1. SUFFICES ASSUME NEW n \in M, NEW s \in Side, t.child[s][n] = e PROVE n = p /\ s = hs
    OBVIOUS
  <2>2. n = p
    BY <1>2, <2>1
  <2>3. s = hs
    BY <1>2, <2>1, <2>2, Sides
  <2>4. QED BY <2>2, <2>3
<1>12. ASSUME NEW n \in M, NEW s \in Side
       PROVE  E[n] = Height(E, r.child[s][n]) + Hole(n, s, NULL, "left") + Weight(r, n)
  <2>1. Hole(n, s, NULL, "left") = 0
    BY <1>2 DEF Hole
  <2>2. D[n] = Height(D, t.child[s][n]) + Hole(n, s, p, hs) + Weight(t, n)
    BY DEF Balanced
  <2>3. Height(E, r.child[s][n]) = Height(D, t.child[s][n]) + Hole(n, s, p, hs)
    <3>1. CASE t.child[s][n] = e
      <4>1. Hole(n, s, p, hs) = 1
        BY <1>11, <3>1 DEF Hole
      <4>2. QED BY <1>4, <1>8, <1>9, <1>10, <3>1, <4>1
    <3>2. CASE t.child[s][n] # e
      <4>1. Hole(n, s, p, hs) = 0
        BY <1>11, <3>2 DEF Hole
      <4>2. QED BY <1>2, <1>4, <1>8, <1>9, <1>10, <3>2, <4>1
    <3>3. QED BY <3>1, <3>2
  <2>4. E[n] = D[n] + Weight(r, n) - Weight(t, n)
    <3>1. CASE n = e
      <4>1. Weight(r, n) = 1 /\ Weight(t, n) = 0
        BY <1>5, <3>1 DEF Weight
      <4>2. QED BY <1>8, <1>9, <3>1, <4>1
    <3>2. CASE n # e
      <4>1. Weight(r, n) = Weight(t, n) /\ Weight(t, n) \in Nat
        BY <1>5, <3>2 DEF Weight
      <4>2. QED BY <1>8, <1>9, <3>2, <4>1
    <3>3. QED BY <3>1, <3>2
  <2>5. Weight(r, n) \in Nat /\ Weight(t, n) \in Nat /\ Height(D, t.child[s][n]) \in Nat
        /\ Hole(n, s, p, hs) \in Nat
    BY <1>8 DEF Weight, Hole
  <2>6. QED BY <2>1, <2>2, <2>3, <2>4, <2>5
<1>13. \A n \in M : E[n] \in Nat
  BY <1>8, <1>9
<1>14. Balanced(r, M, E, NULL, "left")
  BY <1>12, <1>13 DEF Balanced
<1>15. QED BY <1>1, <1>4, <1>6, <1>7, <1>14 DEF Sound

\* Coloring makes a red-black tree of one with a black node missing above elm.
LEMMA RemoveColorKeeps ==
  ASSUME NEW t \in Tree, NEW parent \in Link, NEW elm \in Link, NEW M,
         Removing([tree |-> t, parent |-> parent, elm |-> elm], M, 0)
  PROVE  Sound(RemoveColor(t, parent, elm), M)
<1>1. PICK s : s = Loop(RemoveRound, [tree |-> t, parent |-> parent, elm |-> elm])
  OBVIOUS
<1>2. s \in [tree : Tree, parent : Link, elm : Link] /\ Removing(s, M, Size)
  BY <1>1, RemoveLoop
<1>3. RemoveColor(t, parent, elm) = SetBlack(s.tree, s.elm)
  BY <1>1 DEF RemoveColor
<1>4. PICK u, p, e : u = s.tree /\ p = s.parent /\ e = s.elm
  OBVIOUS
<1>5. PICK G, D, hs : RemovingIn(u, p, e, M, Size, G, D, hs)
  BY <1>2, <1>4 DEF Removing
<1>6. /\ Formed(u, M, G)
      /\ hs \in Side
      /\ Balanced(u, M, D, IF e = u.root THEN NULL ELSE p, hs)
      /\ e = NULL \/ e \in M
      /\ e # u.root => p \in M /\ u.child[hs][p] = e
      /\ \A n \in M, z \in Side : RedPair(u, n, z) => n = e \/ u.child[z][n] = e
      /\ IsBlack(u, u.root) \/ u.root = e
      /\ e = u.root \/ IsRed(u, e) \/ Cardinality(G[p]) >= Size + 1
  BY <1>5 DEF RemovingIn
<1>7. e = u.root \/ IsRed(u, e)
  <2>1. SUFFICES ASSUME e # u.root, Cardinality(G[p]) >= Size + 1 PROVE FALSE
    BY <1>6
  <2>2. G[p] \in SUBSET Node
    <3>1. ParentAt(u, M, G, p, u.parent[p]) /\ M \subseteq Node
      BY <1>6, <2>1, Parents DEF Formed
    <3>2. QED BY <3>1 DEF ParentAt
  <2>3. Cardinality(G[p]) \in Nat /\ Cardinality(G[p]) <= Size /\ Size \in Nat
    BY <2>2, SizeIsNat
  <2>4. QED BY <2>1, <2>3
<1>8. CASE e = u.root
  <2>1. \A n \in M, z \in Side : RedPair(u, n, z) => n = u.root
    <3>1. SUFFICES ASSUME NEW n \in M, NEW z \in Side, RedPair(u, n, z), u.child[z][n] = e
                   PROVE FALSE
      BY <1>6, <1>8
    <3>2. u.child[z][n] # NULL
      BY <3>1 DEF RedPair
    <3>3. ChildAt(u, M, G, n, z)
      BY <1>6, At
    <3>4. QED BY <1>8, <3>1, <3>2, <3>3 DEF ChildAt
  <2>2. Balanced(u, M, D, NULL, "left")
    <3>1. Balanced(u, M, D, NULL, hs)
      BY <1>6, <1>8
    <3>2. \A n \in M, z \in Side : Hole(n, z, NULL, hs) = Hole(n, z, NULL, "left")
      BY <1>6, NullIsNoNode DEF Hole, Formed
    <3>3. QED BY <3>1, <3>2 DEF Balanced
  <2>3. QED BY <1>3, <1>4, <1>6, <1>8, <2>1, <2>2, RootMadeBlack
<1>9. CASE e # u.root
  <2>1. IsRed(u, e) /\ Balanced(u, M, D, p, hs) /\ p \in M /\ u.child[hs][p] = e
        /\ IsBlack(u, u.root)
    BY <1>6, <1>7, <1>9
  <2>2. u.red[e] /\ e \in M
    BY <1>6, <2>1 DEF IsRed
  <2>3. QED BY <1>3, <1>4, <1>6, <1>9, <2>1, <2>2, FilledByRed
<1>10. QED BY <1>8, <1>9

===============================================================================
