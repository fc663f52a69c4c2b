-------------------------------- MODULE KeyedSet --------------------------------
(***************************************************************************)
(* What the scheduler takes a tree for: a set of nodes, no two with the    *)
(* same key, in which a node is looked up by its key.  The abstract        *)
(* specification of the functions that RB_GENERATE makes.                  *)
(***************************************************************************)
EXTENDS Integers

CONSTANTS Node, Key, NULL

VARIABLES
  members,
  op, arg,     \* the last call and its argument
  ret          \* what it returned

\* The first, or last, of a set of nodes in the order of the keys, if any.
First(S) ==
  IF S = {} THEN NULL ELSE CHOOSE n \in S : \A m \in S : Key[n] <= Key[m]
Last(S) ==
  IF S = {} THEN NULL ELSE CHOOSE n \in S : \A m \in S : Key[n] >= Key[m]

Same(n)  == {m \in members : Key[m] = Key[n]}
Above(n) == {m \in members : Key[m] > Key[n]}
Below(n) == {m \in members : Key[m] < Key[n]}

Init == members = {} /\ op = "init" /\ arg = NULL /\ ret = NULL

\* A node whose key is taken is not inserted; the node that has it is returned.
Insert(n) ==
  /\ op' = "insert" /\ arg' = n
  /\ n \notin members
  /\ ret' = First(Same(n))
  /\ members' = IF Same(n) = {} THEN members \cup {n} ELSE members

Remove(n) ==
  /\ op' = "remove" /\ arg' = n
  /\ n \in members
  /\ members' = members \ {n}
  /\ ret' = n

Ask(name, n, answer) ==
  /\ op' = name /\ arg' = n
  /\ ret' = answer
  /\ UNCHANGED members

Next ==
  \/ \E n \in Node :
       \/ Insert(n)
       \/ Remove(n)
       \/ Ask("find", n, First(Same(n)))
       \/ Ask("nfind", n, First(Same(n) \cup Above(n)))
       \/ Ask("next", n, First(Above(n))) /\ n \in members
       \/ Ask("prev", n, Last(Below(n))) /\ n \in members
  \/ Ask("min", NULL, First(members))
  \/ Ask("max", NULL, Last(members))

Spec == Init /\ [][Next]_<<members, op, arg, ret>>
===============================================================================
