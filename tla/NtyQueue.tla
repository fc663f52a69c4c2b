-------------------------------- MODULE NtyQueue --------------------------------
(***************************************************************************)
(* The tail queues of nty_queue.h, in which the scheduler keeps ready and  *)
(* deferred coroutines.  The memory is two words per address: a head has   *)
(* tqh_first and tqh_last, an element tqe_next and tqe_prev, and the       *)
(* macros TAILQ_LAST and TAILQ_PREV rely on the two having the same        *)
(* layout, as the model does: the address of an element's link is the      *)
(* element, the address of a head's is the head.                           *)
(*                                                                         *)
(* The links of an element that is in no queue are stale and are written   *)
(* before they are read; the model points them at the element.             *)
(***************************************************************************)
EXTENDS Naturals, Sequences, FiniteSets

CONSTANTS
  Anchor,        \* the heads
  Elem,
  None

ASSUME NtyQueueAssumption ==
  /\ IsFiniteSet(Elem)
  /\ Anchor \cap Elem = {}
  /\ None \notin Anchor \cup Elem

VARIABLES
  first,       \* [address -> element]: tqh_first or tqe_next
  last,        \* [address -> address]: tqh_last or tqe_prev
  done,        \* the last macro and its arguments
  value        \* what it is worth, if it is an expression

queueVars == <<first, last, done, value>>

Follow(a) == IF a = None THEN None ELSE first[a]

\* The elements that a walk from a head along first visits, as TAILQ_FOREACH does
\* it; a queue has at most all elements.
WalkFrom(h) ==
  LET stop[i \in 0..Cardinality(Elem)] == IF i = 0 THEN h ELSE Follow(stop[i - 1])
  IN  [i \in {j \in 1..Cardinality(Elem) : stop[j] # None} |-> stop[i]]

InQueue(h, e) == \E i \in DOMAIN WalkFrom(h) : WalkFrom(h)[i] = e
Queued(e)     == \E h \in Anchor : InQueue(h, e)

\* TAILQ_INIT on every head.
QueueInit ==
  /\ first = [a \in Anchor \cup Elem |-> IF a \in Anchor THEN None ELSE a]
  /\ last = [a \in Anchor \cup Elem |-> a]
  /\ done = <<"init">>
  /\ value = None

InsertTail(h, e) ==
  /\ ~Queued(e)
  /\ first' = [first EXCEPT ![e] = None, ![last[h]] = e]
  /\ last' = [last EXCEPT ![e] = last[h], ![h] = e]
  /\ done' = <<"insert_tail", h, e>> /\ value' = None

\* At an address a of the queue of h, which is h or an element; the macros
\* TAILQ_INSERT_HEAD and TAILQ_INSERT_AFTER.
InsertAt(h, a, e) ==
  /\ first' = [first EXCEPT ![e] = first[a], ![a] = e]
  /\ last' = [last EXCEPT ![IF first[a] # None THEN first[a] ELSE h] = e, ![e] = a]
  /\ value' = None

InsertHead(h, e) ==
  /\ ~Queued(e)
  /\ InsertAt(h, h, e)
  /\ done' = <<"insert_head", h, e>>

InsertAfter(h, listelm, e) ==
  /\ InQueue(h, listelm) /\ ~Queued(e)
  /\ InsertAt(h, listelm, e)
  /\ done' = <<"insert_after", listelm, e>>

InsertBefore(listelm, e) ==
  /\ Queued(listelm) /\ ~Queued(e)
  /\ last' = [last EXCEPT ![e] = last[listelm], ![listelm] = e]
  /\ first' = [first EXCEPT ![e] = listelm, ![last[listelm]] = e]
  /\ done' = <<"insert_before", listelm, e>> /\ value' = None

\* Mutant: the head is not told that its last element is gone.
HeadAfterForgotten(h, e) == last[h]

\* tqh_last after the removal of e.
HeadAfter(h, e) == IF first[e] = None THEN last[e] ELSE last[h]

RemoveFrom(h, e) ==
  /\ InQueue(h, e)
  /\ LET next == first[e] IN
       /\ last' = [a \in Anchor \cup Elem |->
                     CASE a = e    -> e
                       [] a = next -> last[e]
                       [] a = h    -> HeadAfter(h, e)
                       [] OTHER    -> last[a]]
       /\ first' = [first EXCEPT ![last[e]] = next, ![e] = e]
  /\ done' = <<"remove", h, e>> /\ value' = None

Concat(h, k) ==
  /\ h # k
  /\ IF first[k] # None
     THEN /\ first' = [first EXCEPT ![last[h]] = first[k], ![k] = None]
          /\ last' = [last EXCEPT ![first[k]] = last[h], ![h] = last[k], ![k] = k]
     ELSE UNCHANGED <<first, last>>
  /\ done' = <<"concat", h, k>> /\ value' = None

\* After the exchange of the heads' words: the first element points back at its
\* new head, or the head at itself.
Swap(h, k) ==
  /\ h # k
  /\ first' = [first EXCEPT ![h] = first[k], ![k] = first[h]]
  /\ last' = [a \in Anchor \cup Elem |->
                CASE a = first[k] -> h
                  [] a = first[h] -> k
                  [] a = h -> IF first[k] = None THEN h ELSE last[k]
                  [] a = k -> IF first[h] = None THEN k ELSE last[h]
                  [] OTHER -> last[a]]
  /\ done' = <<"swap", h, k>> /\ value' = None

Worth(name, x, answer) ==
  /\ done' = <<name, x>> /\ value' = answer
  /\ UNCHANGED <<first, last>>

First(h) == Worth("first", h, first[h])                      \* TAILQ_FIRST
Last(h)  == Worth("last", h, first[last[last[h]]])           \* TAILQ_LAST
Next(e)  == Queued(e) /\ Worth("next", e, first[e])          \* TAILQ_NEXT
Prev(e)  == Queued(e) /\ Worth("prev", e, first[last[last[e]]])   \* TAILQ_PREV

QueueStep ==
  \/ \E h \in Anchor :
       \/ \E e \in Elem :
            \/ InsertTail(h, e)
            \/ InsertHead(h, e)
            \/ \E f \in Elem : InsertAfter(h, f, e)
            \/ RemoveFrom(h, e)
       \/ \E k \in Anchor : Concat(h, k) \/ Swap(h, k)
       \/ First(h)
       \/ Last(h)
  \/ \E e \in Elem :
       \/ \E f \in Elem : InsertBefore(f, e)
       \/ Next(e)
       \/ Prev(e)

QueueSpec == QueueInit /\ [][QueueStep]_queueVars

----------------------------------------------------------------------------
(* Property.                                                               *)

\* Every macro does, and is worth, what it is on the sequence that a walk along
\* the links visits: the sequences NtyScheduler works with (nty_schedule.c:241,
\* 263-265, 329-332; nty_coroutine.c:263, 272, 346).
Sequences == INSTANCE Queues WITH queue <- [h \in Anchor |-> WalkFrom(h)]

IsQueues == Sequences!Spec
===============================================================================
