-------------------------------- MODULE NtyTree --------------------------------
(***************************************************************************)
(* The red-black tree of nty_tree.h as RB_GENERATE makes it for the sleep  *)
(* and wait trees of the scheduler: links and colors as the macros write   *)
(* them, one action per function.                                          *)
(*                                                                         *)
(* A tree is a record of the root and the fields of all nodes.  The macros *)
(* come in mirrored pairs, which are one operator here with the side as a  *)
(* parameter.  What the fields of a node hold while it is in no tree is    *)
(* never read: RB_SET writes them all.  The model points them at the node. *)
(***************************************************************************)
EXTENDS Integers, FiniteSets

CONSTANTS
  Node,
  Key,         \* the number by which cmp orders a node
  NULL

ASSUME NtyTreeAssumption == IsFiniteSet(Node) /\ Key \in [Node -> Int] /\ NULL \notin Node

VARIABLES
  tree,
  op, arg,     \* the last call and its argument
  ret          \* what it returned

treeVars == <<tree, op, arg, ret>>

Side        == {"left", "right"}
Other(side) == IF side = "left" THEN "right" ELSE "left"

Link == Node \cup {NULL}
Tree == [root : Link, child : [Side -> [Node -> Link]],
         parent : [Node -> Link], red : [Node -> BOOLEAN]]

Empty ==
  [root |-> NULL, child |-> [side \in Side |-> [n \in Node |-> n]],
   parent |-> [n \in Node |-> n], red |-> [n \in Node |-> FALSE]]

\* What a loop of the macros comes to: each of its rounds goes on by one node, so there
\* are no more of them than nodes, and when it is over a round changes nothing.
Loop(round, start) ==
  LET after[i \in 0..Cardinality(Node)] == IF i = 0 THEN start ELSE round[after[i - 1]]
  IN  after[Cardinality(Node)]

Cmp(n, m) == Key[n] - Key[m]

IsRed(t, n)   == n # NULL /\ t.red[n]
IsBlack(t, n) == ~IsRed(t, n)

SetChild(t, n, side, c) == [t EXCEPT !.child[side][n] = c]
SetParent(t, n, p) == IF n = NULL THEN t ELSE [t EXCEPT !.parent[n] = p]
SetBlack(t, n)     == IF n = NULL THEN t ELSE [t EXCEPT !.red[n] = FALSE]
SetBlackRed(t, black, red) == [t EXCEPT !.red[black] = FALSE, !.red[red] = TRUE]

SideOf(t, parent, elm) == IF t.child["left"][parent] = elm THEN "left" ELSE "right"

\* Below parent, or as the root if there is none, n takes the place of elm.
Relink(t, parent, elm, n) ==
  IF parent = NULL THEN [t EXCEPT !.root = n]
                   ELSE SetChild(t, parent, SideOf(t, parent, elm), n)

\* RB_ROTATE_LEFT or RB_ROTATE_RIGHT: elm goes down to the side, its child tmp on the
\* other side comes up.
Exchanged(t, elm, tmp, side) ==
  LET inner == t.child[side][tmp]
      up    == t.parent[elm]
      t1    == SetParent(SetChild(t, elm, Other(side), inner), inner, elm)
      t2    == Relink(SetParent(t1, tmp, up), up, elm, tmp)
  IN  SetParent(SetChild(t2, tmp, side, elm), elm, tmp)

Rotate(t, elm, side) == Exchanged(t, elm, t.child[Other(side)][elm], side)

\* Mutant: an uncle that is red is not looked at.
RedUncleNever(t, uncle) == FALSE

RedUncle(t, uncle) == IsRed(t, uncle)

\* The red p, whose red child is e on the outside, comes up in the place of g.
Raised(t, p, e, g, side) ==
  [tree |-> Rotate(SetBlackRed(t, p, g), g, Other(side)), elm |-> e]

\* A round for a red parent on the side of the grandparent.  A grandchild on the inside is
\* first turned to the outside.
InsertBelow(t, elm, parent, gparent, side) ==
  LET uncle == t.child[Other(side)][gparent] IN
  CASE RedUncle(t, uncle) ->
         [tree |-> SetBlackRed(SetBlack(t, uncle), parent, gparent), elm |-> gparent]
    [] ~RedUncle(t, uncle) /\ t.child[Other(side)][parent] = elm ->
         Raised(Rotate(t, parent, side), elm, parent, gparent, side)
    [] OTHER ->
         Raised(t, parent, elm, gparent, side)

InsertRound[s \in [tree : Tree, elm : Node]] ==
  LET parent  == s.tree.parent[s.elm]
      gparent == s.tree.parent[parent]
  IN  IF parent = NULL \/ IsBlack(s.tree, parent) THEN s
      ELSE InsertBelow(s.tree, s.elm, parent, gparent, SideOf(s.tree, gparent, parent))

InsertColor(t, elm) ==
  LET t1 == Loop(InsertRound, [tree |-> t, elm |-> elm]).tree
  IN  SetBlack(t1, t1.root)

\* A red sibling is turned up, which makes the sibling black.
BlackSibling(t, parent, side) ==
  LET sibling == t.child[Other(side)][parent] IN
  IF IsRed(t, sibling) THEN Rotate(SetBlackRed(t, sibling, parent), parent, side) ELSE t

\* The child of tmp on the outside is made red, if the other one is.
RedOutside(t, tmp, side) ==
  IF IsBlack(t, t.child[Other(side)][tmp])
  THEN Rotate([SetBlack(t, t.child[side][tmp]) EXCEPT !.red[tmp] = TRUE], tmp, Other(side))
  ELSE t

\* The sibling tmp comes up in the place and the color of parent.
Refilled(t, parent, side) ==
  LET tmp == t.child[Other(side)][parent]
      t1  == [t EXCEPT !.red[tmp] = t.red[parent], !.red[parent] = FALSE]
  IN  Rotate(SetBlack(t1, t1.child[Other(side)][tmp]), parent, side)

\* A round for a black node missing on the side of parent, with a black sibling.
RemoveBelow(t, parent, side) ==
  LET tmp == t.child[Other(side)][parent]
      t1  == Refilled(RedOutside(t, tmp, side), parent, side)
  IN  IF IsBlack(t, t.child["left"][tmp]) /\ IsBlack(t, t.child["right"][tmp])
      THEN [tree |-> [t EXCEPT !.red[tmp] = TRUE], parent |-> t.parent[parent], elm |-> parent]
      ELSE [tree |-> t1, parent |-> parent, elm |-> t1.root]

RemoveRound[s \in [tree : Tree, parent : Link, elm : Link]] ==
  LET side == SideOf(s.tree, s.parent, s.elm) IN
  IF IsRed(s.tree, s.elm) \/ s.elm = s.tree.root THEN s
  ELSE RemoveBelow(BlackSibling(s.tree, s.parent, side), s.parent, side)

RemoveColor(t, parent, elm) ==
  LET s == Loop(RemoveRound, [tree |-> t, parent |-> parent, elm |-> elm])
  IN  SetBlack(s.tree, s.elm)

\* What the loops "while ((left = RB_LEFT(...)))" and their mirror come to.
Outermost(t, n, side) ==
  LET Down[m \in Node] == IF t.child[side][m] = NULL THEN m ELSE t.child[side][m]
  IN  Loop(Down, n)

\* elm, which has at most one child, is taken out.
Unlinked(t, elm, child) ==
  Relink(SetParent(t, child, t.parent[elm]), t.parent[elm], elm, child)

\* elm takes over the links and the color of old.
Replaced(t, old, elm) ==
  LET t1 == [t EXCEPT !.child["left"][elm] = t.child["left"][old],
                      !.child["right"][elm] = t.child["right"][old],
                      !.parent[elm] = t.parent[old], !.red[elm] = t.red[old]]
      t2 == Relink(t1, t.parent[old], old, elm)
  IN SetParent(SetParent(t2, t2.child["left"][old], elm), t2.child["right"][old], elm)

Forgotten(t, n) ==
  [t EXCEPT !.child["left"][n] = n, !.child["right"][n] = n, !.parent[n] = n, !.red[n] = FALSE]

\* Where rebalancing starts when the successor elm replaces old.
RebalancedFrom(t, old, elm) == IF t.parent[elm] = old THEN elm ELSE t.parent[elm]

Removed(t, old) ==
  LET two    == t.child["left"][old] # NULL /\ t.child["right"][old] # NULL
      elm    == IF two THEN Outermost(t, t.child["right"][old], "left") ELSE old
      child  == IF t.child["left"][elm] = NULL THEN t.child["right"][elm]
                                               ELSE t.child["left"][elm]
      t1     == Unlinked(t, elm, child)
      t2     == IF two THEN Replaced(t1, old, elm) ELSE t1
      parent == IF two THEN RebalancedFrom(t, old, elm) ELSE t.parent[old]
  IN Forgotten(IF t.red[elm] THEN t2 ELSE RemoveColor(t2, parent, child), old)

\* The walk down by the key of elm: where it ends, and the last node before, and the last
\* at which it turned left.
Walk(t, elm) ==
  LET Step[s \in [at : Link, parent : Link, res : Link]] ==
        IF s.at = NULL \/ Cmp(elm, s.at) = 0 THEN s
        ELSE IF Cmp(elm, s.at) < 0
             THEN [at |-> t.child["left"][s.at], parent |-> s.at, res |-> s.at]
             ELSE [at |-> t.child["right"][s.at], parent |-> s.at, res |-> s.res]
  IN  Loop(Step, [at |-> t.root, parent |-> NULL, res |-> NULL])

FindIn(t, elm)  == Walk(t, elm).at
NFindIn(t, elm) == IF Walk(t, elm).at # NULL THEN Walk(t, elm).at ELSE Walk(t, elm).res

\* RB_SET, the link from the parent, and the coloring.
Inserted(t, elm) ==
  LET parent == Walk(t, elm).parent
      side   == IF Cmp(elm, parent) < 0 THEN "left" ELSE "right"
      t1     == [t EXCEPT !.parent[elm] = parent, !.child["left"][elm] = NULL,
                          !.child["right"][elm] = NULL, !.red[elm] = TRUE]
  IN InsertColor(IF parent = NULL THEN [t1 EXCEPT !.root = elm]
                                  ELSE SetChild(t1, parent, side, elm), elm)

\* Mutant: up to the parent only.
UpOne(t, n, side) == t.parent[n]

\* Up from n past every node that is the child of its parent on the side.
UpPast(t, n, side) ==
  LET Up[m \in Node] ==
        LET p == t.parent[m] IN IF p # NULL /\ t.child[side][p] = m THEN p ELSE m
  IN  t.parent[Loop(Up, n)]

\* RB_NEXT for "right" and RB_PREV for "left".
Neighbour(t, n, side) ==
  IF t.child[side][n] # NULL THEN Outermost(t, t.child[side][n], Other(side))
  ELSE UpPast(t, n, side)

MinMax(t, side) == IF t.root = NULL THEN NULL ELSE Outermost(t, t.root, side)

----------------------------------------------------------------------------
\* The nodes that links lead to from n, level by level.
Below(t, n) ==
  LET Deeper[s \in [all : SUBSET Node, edge : SUBSET Node]] ==
        LET next == {t.child[side][m] : side \in Side, m \in s.edge} \ (s.all \cup {NULL})
        IN  [all |-> s.all \cup next, edge |-> next]
  IN  Loop(Deeper, [all |-> {n} \ {NULL}, edge |-> {n} \ {NULL}]).all

Members == Below(tree, tree.root)

TreeInit == tree = Empty /\ op = "init" /\ arg = NULL /\ ret = NULL

Returned(name, n, answer) == op' = name /\ arg' = n /\ ret' = answer

\* RB_INSERT
Insert(n) ==
  /\ n \notin Members
  /\ tree' = IF FindIn(tree, n) = NULL THEN Inserted(tree, n) ELSE tree
  /\ Returned("insert", n, FindIn(tree, n))

\* RB_REMOVE
Remove(n) ==
  /\ n \in Members
  /\ tree' = Removed(tree, n)
  /\ Returned("remove", n, n)

Asked(name, n, answer) == Returned(name, n, answer) /\ UNCHANGED tree

Find(n)  == Asked("find", n, FindIn(tree, n))                \* RB_FIND
NFind(n) == Asked("nfind", n, NFindIn(tree, n))              \* RB_NFIND
TreeNext(n) == n \in Members /\ Asked("next", n, Neighbour(tree, n, "right"))   \* RB_NEXT
TreePrev(n) == n \in Members /\ Asked("prev", n, Neighbour(tree, n, "left"))    \* RB_PREV
Minimum == Asked("min", NULL, MinMax(tree, "left"))          \* RB_MIN
Maximum == Asked("max", NULL, MinMax(tree, "right"))         \* RB_MAX

TreeStep ==
  \/ \E n \in Node :
       Insert(n) \/ Remove(n) \/ Find(n) \/ NFind(n) \/ TreeNext(n) \/ TreePrev(n)
  \/ Minimum
  \/ Maximum

TreeSpec == TreeInit /\ [][TreeStep]_treeVars

----------------------------------------------------------------------------
(* Properties.                                                             *)

\* The black nodes on the way up from n.
Blacks(t, n) ==
  LET Up[s \in [at : Link, count : Nat]] ==
        IF s.at = NULL THEN s
        ELSE [at |-> t.parent[s.at], count |-> s.count + IF t.red[s.at] THEN 0 ELSE 1]
  IN  Loop(Up, [at |-> n, count |-> 0]).count

\* Whether a node lies before another, coming from the side.
Before(side, n, m) == IF side = "left" THEN Key[n] < Key[m] ELSE Key[n] > Key[m]

\* The child of n points back, is not red below a red node, and has all that is below it
\* on its side of n.
SoundChild(t, n, side) ==
  LET child == t.child[side][n] IN
  child # NULL =>
    /\ t.parent[child] = n
    /\ ~(t.red[n] /\ t.red[child])
    /\ \A m \in Below(t, child) : Before(side, m, n)

\* The tree is a search tree with sound parent links, no red node has a red
\* child, and every way down passes as many black nodes (nty_tree.h:391-509):
\* what keeps lookups logarithmic, and what rebalancing relies on when it
\* dereferences a sibling or a grandparent untested.
RedBlack ==
  /\ IsBlack(tree, tree.root)
  /\ tree.root # NULL => tree.parent[tree.root] = NULL
  /\ \A n \in Members, side \in Side : SoundChild(tree, n, side)
  /\ LET ends == {n \in Members : \E side \in Side : tree.child[side][n] = NULL}
     IN  \A n, m \in ends : Blacks(tree, n) = Blacks(tree, m)

\* Every call does and returns what it does on the set of the tree's nodes,
\* which is how NtyScheduler has it (nty_schedule.c:90-113, 127-142, 251-255).
Set == INSTANCE KeyedSet WITH members <- Members

IsKeyedSet == Set!Spec
===============================================================================
