---------------------------- MODULE MCNtyContainers ----------------------------
(* A tree and a pair of queues, each with any calls.  A coroutine is linked into
   its containers by fields of their own (nty_coroutine.h:226-240), so that the
   one never touches the other: a behavior uses either. *)
EXTENDS NtyTree, NtyQueue

\* Two nodes with the same key.
MCKey == [n \in Node |-> IF n = 11 THEN 4 ELSE n]

InitContainers == TreeInit /\ QueueInit

NextContainers ==
  \/ TreeStep /\ done = <<"init">> /\ UNCHANGED queueVars
  \/ QueueStep /\ op = "init" /\ UNCHANGED treeVars

SpecContainers == InitContainers /\ [][NextContainers]_<<treeVars, queueVars>>

\* The last call and what it returned determine no step.
View == <<tree, op = "init", first, last, done = <<"init">>>>
===============================================================================
