---------------------------- MODULE MCNtyScheduler ----------------------------
(* Instances of NtyScheduler for TLC. *)
EXTENDS NtyScheduler, FiniteSetsExt, TLC

\* Coroutines and descriptors are interchangeable: addresses and small integers
\* that the scheduler only compares.
Symmetry == Permutations(Coroutine) \cup Permutations(Fd)

-------------------------------------------------------------------------------
(* A clock that never ends.                                                   *)
(*                                                                            *)
(* Nothing but the distances of the keys and of the clock from each other is  *)
(* ever used, so a clock that has reached MaxTime may go back, together with  *)
(* all keys, by the time that everybody has left behind.  MaxTime then bounds *)
(* only how long the oldest sleeper is overdue.                               *)

\* The time before the clock and before every sleeper's key.
Past == Min({now} \cup {wake[c] : c \in sleeping}) - 1

\* A key from before Past, which is nobody's in the tree, becomes 0, which is nobody's.
Rebase ==
  /\ now = MaxTime
  /\ Past > 0
  /\ now' = now - Past
  /\ wake' = [c \in Coroutine |-> IF wake[c] > Past THEN wake[c] - Past ELSE 0]
  /\ UNCHANGED <<loopVars, queueVars, at, pfd, status, saved, shared, interest, isReady,
                 holder, curr, fault>>

EndlessSpec ==
  /\ Init /\ [][Next \/ Rebase]_vars
  /\ WF_vars(Scheduler) /\ WF_vars(\E c \in Coroutine : Yields(c))
===============================================================================
