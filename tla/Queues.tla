--------------------------------- MODULE Queues ---------------------------------
(***************************************************************************)
(* What the scheduler takes its tail queues for: sequences in which an     *)
(* element occurs once.  The abstract specification of the TAILQ macros.   *)
(***************************************************************************)
EXTENDS Naturals, Sequences, SequencesExt

CONSTANTS Anchor, Elem, None

VARIABLES
  queue,       \* queue[h] is the sequence that hangs on the head h
  done,        \* the last macro and its arguments
  value        \* what it is worth, if it is an expression

Unqueued == {e \in Elem : \A h \in Anchor : e \notin ToSet(queue[h])}

Init ==
  /\ queue = [h \in Anchor |-> <<>>]
  /\ done = <<"init">>
  /\ value = None

\* What there is at a position of a queue.
At(h, i) == IF i \in DOMAIN queue[h] THEN queue[h][i] ELSE None

\* An element that is in no queue gets a position.
Put(h, i, e) ==
  /\ e \in Unqueued
  /\ queue' = [queue EXCEPT ![h] = InsertAt(@, i, e)]
  /\ value' = None

Insert(h, e) ==
  \/ done' = <<"insert_tail", h, e>> /\ Put(h, Len(queue[h]) + 1, e)
  \/ done' = <<"insert_head", h, e>> /\ Put(h, 1, e)
  \/ \E i \in DOMAIN queue[h] :
       \/ done' = <<"insert_after", queue[h][i], e>> /\ Put(h, i + 1, e)
       \/ done' = <<"insert_before", queue[h][i], e>> /\ Put(h, i, e)

Take(h, i) ==
  /\ done' = <<"remove", h, queue[h][i]>>
  /\ queue' = [queue EXCEPT ![h] = RemoveAt(@, i)]
  /\ value' = None

Move(h, k) ==
  /\ h # k
  /\ \/ /\ done' = <<"concat", h, k>>
        /\ queue' = [queue EXCEPT ![h] = @ \o queue[k], ![k] = <<>>]
     \/ /\ done' = <<"swap", h, k>>
        /\ queue' = [queue EXCEPT ![h] = queue[k], ![k] = queue[h]]
  /\ value' = None

Ask(name, x, answer) ==
  /\ done' = <<name, x>>
  /\ value' = answer
  /\ UNCHANGED queue

Next ==
  \E h \in Anchor :
    \/ \E e \in Elem : Insert(h, e)
    \/ \E i \in DOMAIN queue[h] :
         \/ Take(h, i)
         \/ Ask("next", queue[h][i], At(h, i + 1))
         \/ Ask("prev", queue[h][i], At(h, i - 1))
    \/ \E k \in Anchor : Move(h, k)
    \/ Ask("first", h, At(h, 1))
    \/ Ask("last", h, At(h, Len(queue[h])))

Spec == Init /\ [][Next]_<<queue, done, value>>
===============================================================================
