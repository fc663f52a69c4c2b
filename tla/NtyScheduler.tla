----------------------------- MODULE NtyScheduler -----------------------------
(***************************************************************************)
(* The coroutine scheduler the RPC server runs on: nty_schedule.c,         *)
(* nty_coroutine.c, nty_epoll.c and the poll wrapper of nty_socket.c.      *)
(*                                                                         *)
(* One thread runs everything.  nty_schedule_run is a loop of four phases  *)
(* (expired sleepers, ready queue, epoll, dispatch of the events epoll     *)
(* returned) that resumes one coroutine at a time; the coroutine runs      *)
(* until it yields.  What a coroutine does between two yields is a sequence*)
(* of calls to the library, one action each, so that this module describes *)
(* every program written against it.  The kernel makes descriptors ready   *)
(* and lets time pass between any two steps.                               *)
(***************************************************************************)
EXTENDS Naturals, Sequences, FiniteSets

CONSTANTS
  Coroutine,  \* addresses calloc returns for a nty_coroutine; a freed one is reused
  Fd,         \* values a program passes as a descriptor
  Invalid,    \* those of Fd that are no open descriptor: the -1 of a failed accept
  SleepArgs,  \* arguments, in ticks, the programs give nty_coroutine_sleep
  MaxTime,    \* bound on the clock; MCNtyScheduler lets it go round
  Null        \* the NULL pointer

ASSUME SchedulerAssumption ==
  /\ Null \notin Coroutine
  /\ Null \notin Fd
  /\ Invalid \subseteq Fd
  /\ SleepArgs \subseteq Nat
  /\ MaxTime \in Nat

VARIABLES
  phase,     \* where nty_schedule_run is; "main" before it is called
  curr,      \* sched->curr_thread
  ready,     \* sched->ready
  last,      \* last_co_ready, the tail of ready when its phase began
  waiting,   \* sched->waiting, the tree keyed by descriptor
  sleeping,  \* sched->sleeping, the tree keyed by sleep_usecs
  events,    \* descriptors of sched->eventlist that are not dispatched yet
  at,        \* where each coroutine is stopped
  pfd,       \* fds[0].fd in the frame of its nty_poll_inner
  status,    \* co->status, the bits that are set
  wake,      \* co->sleep_usecs
  saved,     \* whose frames co->stack holds
  shared,    \* whose frames sched->stack holds
  interest,  \* descriptors registered with epoll
  isReady,   \* descriptors the kernel would report
  holder,    \* the coroutine that opened or was handed the descriptor
  now,       \* nty_coroutine_usec_now() - sched->birth
  fault      \* the assertion or memory error that ended the process

loopVars   == <<phase, last, events>>
queueVars  == <<ready, waiting, sleeping>>
frameVars  == <<at, pfd, status, wake, saved, shared>>
kernelVars == <<interest, isReady, holder, now>>
vars == <<loopVars, queueVars, frameVars, kernelVars, curr, fault>>

Phases == {"main", "loop", "expired", "ready", "epoll", "events", "returned"}
Places == {"free", "new", "run", "poll", "yield"}
Bits   == {"NEW", "READY", "FDEOF", "SLEEPING", "WAIT_READ"}
Faults == {"none", "unexpected_event", "occupied", "no_waiter", "dangling", "relinked"}

InReady(c) == \E i \in DOMAIN ready : ready[i] = c
Held(c)    == {f \in Fd : holder[f] = c}

Running(c)    == fault = "none" /\ curr = c
Scheduling(p) == fault = "none" /\ curr = Null /\ phase = p

-------------------------------------------------------------------------------
(* Resuming and yielding *)

\* Mutant: _save_stack left out.
YieldUnsaved(c, place) ==
  /\ at' = [at EXCEPT ![c] = place]
  /\ curr' = Null
  /\ UNCHANGED <<saved, shared>>

\* nty_coroutine_yield keeps a copy of the shared stack and switches to the
\* scheduler, where nty_coroutine_resume clears curr_thread.
Yield(c, place) ==
  /\ saved' = [saved EXCEPT ![c] = shared]
  /\ at' = [at EXCEPT ![c] = place]
  /\ curr' = Null
  /\ UNCHANGED shared

\* Mutant: no EPOLL_CTL_DEL after the wait.
PollReturnArmed(f, st) ==
  /\ interest' = interest
  /\ waiting' = [waiting EXCEPT ![f] = Null]
  /\ IF waiting[f] = Null
     THEN fault' = "no_waiter" /\ status' = st
     ELSE fault' = fault /\ status' = [st EXCEPT ![waiting[f]] = {}]

\* Mutant: no RB_REMOVE in nty_schedule_desched_wait.
PollReturnInTree(f, st) ==
  /\ interest' = interest \ {f}
  /\ waiting' = waiting
  /\ IF waiting[f] = Null
     THEN fault' = "no_waiter" /\ status' = st
     ELSE fault' = fault /\ status' = [st EXCEPT ![waiting[f]] = {}]

\* Mutant: no "co->status = 0" in nty_schedule_desched_wait.
PollReturnStatus(f, st) ==
  /\ interest' = interest \ {f}
  /\ waiting' = [waiting EXCEPT ![f] = Null]
  /\ fault' = IF waiting[f] = Null THEN "no_waiter" ELSE fault
  /\ status' = st

\* The tail of nty_poll_inner after its yield: the descriptor leaves epoll,
\* nty_schedule_desched_wait takes its waiter out of the tree and zeroes that
\* coroutine's status.  Its call of desched_sleepdown does nothing: it tests a
\* bit of the status just zeroed.  st is the status the resumer left.
PollReturn(f, st) ==
  /\ interest' = interest \ {f}
  /\ waiting' = [waiting EXCEPT ![f] = Null]
  /\ IF waiting[f] = Null
     THEN fault' = "no_waiter" /\ status' = st
     ELSE fault' = fault /\ status' = [st EXCEPT ![waiting[f]] = {}]

\* nty_coroutine_resume: a new coroutine gets a fresh context and status READY,
\* another one its saved frames; then it runs, out of nty_poll_inner if that
\* is where it yielded.
Resume(c, st) ==
  /\ curr' = c
  /\ shared' = IF "NEW" \in st[c] THEN c ELSE saved[c]
  /\ at' = [at EXCEPT ![c] = "run"]
  /\ pfd' = [pfd EXCEPT ![c] = Null]
  /\ IF at[c] = "poll"
     THEN PollReturn(pfd[c], st)
     ELSE /\ status' = [st EXCEPT ![c] = IF "NEW" \in @ THEN {"READY"} ELSE @]
          /\ UNCHANGED <<interest, waiting, fault>>
  /\ UNCHANGED <<wake, saved, isReady, holder, now>>

-------------------------------------------------------------------------------
(* nty_schedule_run *)

\* Mutant: the wait tree is not tested.
IsDoneNoWait == ready = <<>> /\ sleeping = {}

\* The loop's condition, nty_schedule_isdone; nothing is ever put in sched->busy.
IsDone == ready = <<>> /\ sleeping = {} /\ \A f \in Fd : waiting[f] = Null

\* nty_schedule_run, called by main.
RunStart ==
  /\ Scheduling("main")
  /\ ready # <<>>
  /\ phase' = "loop"
  /\ UNCHANGED <<last, events, queueVars, frameVars, kernelVars, curr, fault>>

LoopTest ==
  /\ Scheduling("loop")
  /\ phase' = IF IsDone THEN "returned" ELSE "expired"
  /\ UNCHANGED <<last, events, queueVars, frameVars, kernelVars, curr, fault>>

\* nty_schedule_expired gives the sleeper with the least key if it is due.
Due(c) == /\ c \in sleeping
          /\ wake[c] <= now
          /\ \A s \in sleeping : wake[c] <= wake[s]

ResumeExpired(c) ==
  /\ Scheduling("expired")
  /\ Due(c)
  /\ sleeping' = sleeping \ {c}
  /\ Resume(c, status)
  /\ UNCHANGED <<loopVars, ready>>

EnterReady ==
  /\ Scheduling("expired")
  /\ \A c \in Coroutine : ~Due(c)
  /\ phase' = "ready"
  /\ last' = IF ready = <<>> THEN Null ELSE ready[Len(ready)]
  /\ UNCHANGED <<events, queueVars, frameVars, kernelVars, curr, fault>>

\* Mutant: the test for the last coroutine comes before it is resumed.
ResumeReadyButLast ==
  /\ Scheduling("ready")
  /\ ready # <<>>
  /\ ready' = Tail(ready)
  /\ IF Head(ready) = last
     THEN /\ phase' = "epoll"
          /\ UNCHANGED <<curr, waiting, frameVars, kernelVars, fault>>
     ELSE Resume(Head(ready), status) /\ UNCHANGED phase
  /\ UNCHANGED <<last, events, sleeping>>

\* One round of the ready loop: pop the head; free it if its descriptor ended,
\* else resume it.  The loop stops after the coroutine that was last when it
\* began, so phase already says what follows the resumed coroutine's yield.
ResumeReady ==
  /\ Scheduling("ready")
  /\ ready # <<>>
  /\ LET c == Head(ready) IN
     /\ ready' = Tail(ready)
     /\ IF "FDEOF" \in status[c]
        THEN /\ at' = [at EXCEPT ![c] = "free"]
             /\ phase' = "epoll"
             /\ UNCHANGED <<curr, pfd, status, wake, saved, shared, waiting,
                            kernelVars, fault>>
        ELSE /\ Resume(c, status)
             /\ phase' = IF c = last THEN "epoll" ELSE "ready"
  /\ UNCHANGED <<last, events, sleeping>>

ReadyDrained ==
  /\ Scheduling("ready")
  /\ ready = <<>>
  /\ phase' = "epoll"
  /\ UNCHANGED <<last, events, queueVars, frameVars, kernelVars, curr, fault>>

\* Mutant: nty_schedule_min_timeout is 0, not the default, when nobody sleeps.
NoneDueIfAny == sleeping # {} /\ \A c \in sleeping : wake[c] > now

\* nty_schedule_min_timeout # 0: no sleeper is due.
NoneDue == \A c \in sleeping : wake[c] > now

\* Mutant: the count of events is not reset when epoll_wait is not called.
EpollWaitAll ==
  /\ Scheduling("epoll")
  /\ events' = IF NoneDue /\ ready = <<>> THEN interest \cap isReady ELSE interest
  /\ phase' = "events"
  /\ UNCHANGED <<last, queueVars, frameVars, kernelVars, curr, fault>>

\* nty_schedule_epoll: epoll_wait is called only with no sleeper due and an
\* empty ready queue.  It returns the registered descriptors that are ready
\* (fewer than NTY_CO_MAX_EVENTS), none after its timeout.
EpollWait ==
  /\ Scheduling("epoll")
  /\ events' = IF NoneDue /\ ready = <<>> THEN interest \cap isReady ELSE {}
  /\ phase' = "events"
  /\ UNCHANGED <<last, queueVars, frameVars, kernelVars, curr, fault>>

\* nty_schedule_search_wait: the waiter, found by descriptor, gets status 0,
\* plus FDEOF when the event carries EPOLLHUP.
SearchWait(f, hup) ==
  [status EXCEPT ![waiting[f]] = IF hup THEN {"FDEOF"} ELSE {}]

Dispatch(f, hup) ==
  /\ Scheduling("events")
  /\ f \in events
  /\ events' = events \ {f}
  /\ IF waiting[f] = Null
     THEN fault' = "no_waiter" /\ UNCHANGED <<curr, waiting, frameVars, kernelVars>>
     ELSE Resume(waiting[f], SearchWait(f, hup))
  /\ UNCHANGED <<phase, last, ready, sleeping>>

EventsDone ==
  /\ Scheduling("events")
  /\ events = {}
  /\ phase' = "loop"
  /\ UNCHANGED <<last, events, queueVars, frameVars, kernelVars, curr, fault>>

-------------------------------------------------------------------------------
(* What the running code calls; c = Null is main, before nty_schedule_run *)

\* Mutant: TAILQ_INSERT_HEAD.
EnqueueFirst(c) == <<c>> \o ready

\* TAILQ_INSERT_TAIL into the ready queue of a coroutine that is not linked in it.
Enqueue(c) == Append(ready, c)

\* nty_coroutine_create; F are the descriptors the argument hands over.
Spawn(c, d, F) ==
  /\ Running(c)
  /\ c = Null => phase = "main" /\ F = {}
  /\ at[d] = "free"
  /\ F \subseteq Held(c)
  /\ at' = [at EXCEPT ![d] = "new"]
  /\ status' = [status EXCEPT ![d] = {"NEW"}]
  /\ wake' = [wake EXCEPT ![d] = 0]
  /\ saved' = [saved EXCEPT ![d] = Null]
  /\ pfd' = [pfd EXCEPT ![d] = Null]
  /\ ready' = Enqueue(d)
  /\ holder' = [f \in Fd |-> IF f \in F THEN d ELSE holder[f]]
  /\ UNCHANGED <<loopVars, waiting, sleeping, shared, interest, isReady, now,
                 curr, fault>>

\* What waiting adds to status: to read nothing, to write the bit of WAIT_READ,
\* since the constants are or-ed in without BIT().
WaitBit(mode) == IF mode = "out" THEN {"WAIT_READ"} ELSE {}

\* nty_poll_inner up to its yield, with its only timeout, 1, which
\* nty_schedule_sched_wait takes as none.
Poll(c, f, mode) ==
  /\ Running(c)
  /\ c # Null
  /\ f \in Held(c) \cup Invalid
  /\ interest' = IF f \in Invalid THEN interest ELSE interest \cup {f}
  /\ IF "WAIT_READ" \in status[c] \/ waiting[f] # Null
     THEN /\ fault' = IF "WAIT_READ" \in status[c] THEN "unexpected_event" ELSE "occupied"
          /\ UNCHANGED <<curr, waiting, at, pfd, status, saved, shared>>
     ELSE /\ status' = [status EXCEPT ![c] = @ \cup WaitBit(mode)]
          /\ waiting' = [waiting EXCEPT ![f] = c]
          /\ pfd' = [pfd EXCEPT ![c] = f]
          /\ Yield(c, "poll")
          /\ UNCHANGED fault
  /\ UNCHANGED <<loopVars, ready, sleeping, wake, isReady, holder, now>>

\* TAILQ_INSERT_TAIL of a coroutine that is still linked in the ready queue: its next
\* pointer is overwritten, with NULL or, at the tail, with itself.  Whoever was queued
\* behind it cannot be reached from the head any more, and its own back pointer leads
\* into the part cut off, so that the list is broken; the model ends there.
Relink(c) ==
  /\ fault' = "relinked"
  /\ \E i \in DOMAIN ready : ready[i] = c /\ ready' = SubSeq(ready, 1, i)

\* nty_coroutine_sleep(0): to the tail of the ready queue, and yield.  A coroutine whose
\* alarm resumed it out of its sleep(0) is still linked there.
SleepZero(c) ==
  /\ Running(c)
  /\ c # Null
  /\ 0 \in SleepArgs
  /\ IF InReady(c) THEN Relink(c) ELSE ready' = Enqueue(c) /\ UNCHANGED fault
  /\ Yield(c, "yield")
  /\ UNCHANGED <<loopVars, waiting, sleeping, pfd, status, wake, kernelVars>>

\* The sleepers left when RB_FIND, which compares keys, has found c's old key.
OthersAsleep(c) == {s \in sleeping : wake[s] # wake[c]}

\* Mutant: RB_INSERT's result is not looked at.
TakenNever(c, k) == FALSE

Taken(c, k) == \E s \in OthersAsleep(c) : wake[s] = k

\* nty_coroutine_sleep(ms), ms > 0: nty_schedule_sched_sleepdown takes the
\* first free key from now + ms on.  It does not yield.
SleepFor(c, ms) ==
  /\ Running(c)
  /\ c # Null
  /\ ms > 0
  /\ \E k \in now + ms .. now + ms + Cardinality(sleeping) :
       /\ ~Taken(c, k)
       /\ \A j \in now + ms .. k - 1 : Taken(c, j)
       /\ wake' = [wake EXCEPT ![c] = k]
  /\ sleeping' = OthersAsleep(c) \cup {c}
  /\ status' = [status EXCEPT ![c] = @ \cup {"SLEEPING"}]
  /\ UNCHANGED <<loopVars, ready, waiting, at, pfd, saved, shared, kernelVars,
                 curr, fault>>

\* The function of _exec returns: the coroutine is marked EXITED and DETACH,
\* yields without keeping its stack and nty_coroutine_resume frees it.  A
\* queue that still points to it is undefined behaviour; the model ends there.
\* The programs close their descriptors first, as rpc_handle does.
Exit(c) ==
  /\ Running(c)
  /\ c # Null
  /\ Held(c) = {}
  /\ at' = [at EXCEPT ![c] = "free"]
  /\ status' = [status EXCEPT ![c] = {}]
  /\ saved' = [saved EXCEPT ![c] = Null]
  /\ curr' = Null
  /\ fault' = IF InReady(c) \/ c \in sleeping THEN "dangling" ELSE fault
  /\ UNCHANGED <<loopVars, queueVars, pfd, wake, shared, kernelVars>>

-------------------------------------------------------------------------------
(* The kernel *)

\* socket, or accept giving a new descriptor.
Open(c, f) ==
  /\ Running(c)
  /\ c # Null
  /\ f \notin Invalid /\ holder[f] = Null
  /\ holder' = [holder EXCEPT ![f] = c]
  /\ UNCHANGED <<loopVars, queueVars, frameVars, interest, isReady, now, curr, fault>>

\* close: the descriptor also leaves the epoll set.
Close(c, f) ==
  /\ Running(c)
  /\ f \in Held(c)
  /\ holder' = [holder EXCEPT ![f] = Null]
  /\ interest' = interest \ {f}
  /\ isReady' = isReady \ {f}
  /\ UNCHANGED <<loopVars, queueVars, frameVars, now, curr, fault>>

\* recv, send or accept takes what made the descriptor ready.
Drain(c, f) ==
  /\ Running(c)
  /\ f \in Held(c) \cap isReady
  /\ isReady' = isReady \ {f}
  /\ UNCHANGED <<loopVars, queueVars, frameVars, interest, holder, now, curr, fault>>

Arrive(f) ==
  /\ fault = "none"
  /\ holder[f] # Null /\ f \notin isReady
  /\ isReady' = isReady \cup {f}
  /\ UNCHANGED <<loopVars, queueVars, frameVars, interest, holder, now, curr, fault>>

Tick ==
  /\ fault = "none"
  /\ now < MaxTime
  /\ now' = now + 1
  /\ UNCHANGED <<loopVars, queueVars, frameVars, interest, isReady, holder, curr, fault>>

-------------------------------------------------------------------------------
Init ==
  /\ phase = "main" /\ curr = Null /\ last = Null /\ events = {}
  /\ ready = <<>> /\ sleeping = {} /\ waiting = [f \in Fd |-> Null]
  /\ at = [c \in Coroutine |-> "free"]
  /\ pfd = [c \in Coroutine |-> Null]
  /\ status = [c \in Coroutine |-> {}]
  /\ wake = [c \in Coroutine |-> 0]
  /\ saved = [c \in Coroutine |-> Null]
  /\ shared = Null
  /\ interest = {} /\ isReady = {} /\ holder = [f \in Fd |-> Null]
  /\ now = 0 /\ fault = "none"

Scheduler ==
  \/ RunStart \/ LoopTest
  \/ \E c \in Coroutine : ResumeExpired(c)
  \/ EnterReady \/ ResumeReady \/ ReadyDrained
  \/ EpollWait \/ EventsDone
  \/ \E f \in Fd, hup \in BOOLEAN : Dispatch(f, hup)

\* A running coroutine gives up the processor.
Yields(c) ==
  \/ \E f \in Fd, mode \in {"in", "out"} : Poll(c, f, mode)
  \/ SleepZero(c)
  \/ Exit(c)

Program ==
  \/ \E c \in Coroutine \cup {Null}, d \in Coroutine, F \in SUBSET Fd : Spawn(c, d, F)
  \/ \E c \in Coroutine : Yields(c)
  \/ \E c \in Coroutine, ms \in SleepArgs : SleepFor(c, ms)
  \/ \E c \in Coroutine, f \in Fd : Open(c, f) \/ Close(c, f) \/ Drain(c, f)

Kernel == Tick \/ \E f \in Fd : Arrive(f)

\* nty_schedule_run returned, or the process died.
Stopped == (phase = "returned" \/ fault # "none") /\ UNCHANGED vars

Next == Scheduler \/ Program \/ Kernel \/ Stopped

Spec == Init /\ [][Next]_vars

\* The scheduler's loop never stops by itself, and a coroutine of this
\* repository reaches its next blocking call or its end in finitely many steps.
\* Nothing is assumed of the kernel.
FairSpec == Spec /\ WF_vars(Scheduler) /\ WF_vars(\E c \in Coroutine : Yields(c))

-------------------------------------------------------------------------------
(* Properties *)

\* The type invariant.
TypeOK ==
  /\ phase \in Phases
  /\ curr \in Coroutine \cup {Null}
  /\ ready \in Seq(Coroutine)
  /\ last \in Coroutine \cup {Null}
  /\ waiting \in [Fd -> Coroutine \cup {Null}]
  /\ sleeping \in SUBSET Coroutine
  /\ events \in SUBSET Fd
  /\ at \in [Coroutine -> Places]
  /\ pfd \in [Coroutine -> Fd \cup {Null}]
  /\ status \in [Coroutine -> SUBSET Bits]
  /\ wake \in [Coroutine -> Nat]
  /\ saved \in [Coroutine -> Coroutine \cup {Null}]
  /\ shared \in Coroutine \cup {Null}
  /\ interest \in SUBSET Fd
  /\ isReady \in SUBSET Fd
  /\ holder \in [Fd -> Coroutine \cup {Null}]
  /\ now \in Nat
  /\ fault \in Faults

\* No coroutine is in the ready queue twice, which TAILQ could not hold.
QueuedOnce == \A i, j \in DOMAIN ready : ready[i] = ready[j] => i = j

\* A coroutine is where it stopped says, and only there: the one that runs or is
\* freed is in no queue, one to be scheduled is once in the ready queue, one in
\* nty_poll_inner waits on its descriptor and no other.  So no wakeup is lost,
\* and no coroutine is resumed twice for one yield or after its end.
OnePlace ==
  /\ \A c \in Coroutine : at[c] = "run" <=> curr = c
  /\ \A c \in Coroutine : InReady(c) <=> at[c] \in {"new", "yield"}
  /\ QueuedOnce
  /\ \A c \in Coroutine, f \in Fd : waiting[f] = c <=> at[c] = "poll" /\ pfd[c] = f

\* Every event still to be dispatched has a waiter, so that the dereference of
\* RB_FIND's result in nty_schedule_search_wait is safe although coroutines
\* run, close and reuse descriptors between epoll_wait and the dispatch.
EventHasWaiter == \A f \in events : waiting[f] # Null

\* A descriptor is armed in epoll exactly while a coroutine waits on it: a
\* waiter that is not armed would never wake, an armed descriptor without
\* waiter would crash the dispatch.
ArmedIffWaiting == \A f \in Fd \ Invalid : f \in interest <=> waiting[f] # Null

\* The frames on the one shared stack are those of the coroutine that runs,
\* and a coroutine that yielded has a copy of its own.
StackIsolation ==
  /\ curr # Null => shared = curr
  /\ \A c \in Coroutine : at[c] \in {"poll", "yield"} => saved[c] = c

\* The process does not die: no assertion of nty_schedule_sched_wait fails, no
\* NULL from RB_FIND is dereferenced, and no coroutine is freed while a queue or
\* tree still points to it.
NoFault == fault = "none"

\* The two assertions of nty_schedule_sched_wait hold: the coroutine is not
\* already waiting and nobody else waits on its descriptor.
WaitAssertionsHold == fault \notin {"unexpected_event", "occupied"}

\* The loop over the ready queue ends: the coroutine it stops at is still ahead.  Only
\* the coroutine that cuts the queue off may take it away, which ends the process.
PassEnds == phase = "ready" /\ ready # <<>> /\ fault # "relinked" => InReady(last)

\* nty_schedule_run returns only when no coroutine is left, so that
\* nty_schedule_free leaves none behind.
ReturnsWhenAllEnded ==
  phase = "returned" => \A c \in Coroutine : at[c] = "free"

\* The hang-up branch of the ready loop, which frees a coroutine that has not
\* finished, is never taken: no queued coroutine carries FDEOF.
NoHangupInReady == \A c \in Coroutine : InReady(c) => "FDEOF" \notin status[c]

\* The frame of a stopped coroutine fits its status.
FrameInv ==
  \A c \in Coroutine :
    /\ at[c] = "poll" => pfd[c] # Null
    /\ at[c] = "new" => status[c] = {"NEW"}
    /\ at[c] \in {"run", "yield"} => status[c] \subseteq {"READY"}
    /\ at[c] = "poll" => status[c] \subseteq {"READY", "WAIT_READ"}

\* Nobody else holds a descriptor somebody waits on, and events are not stale.
WaitInv ==
  /\ (interest \cup events) \cap Invalid = {}
  /\ \A f \in Fd \ Invalid : waiting[f] # Null => holder[f] = waiting[f]
  /\ \A f \in events : waiting[f] # Null /\ f \in isReady

\* The coroutine a pass ends at is still in the queue.
PassInv ==
  phase = "ready" /\ fault # "relinked" => (ready = <<>> /\ curr = Null) \/ InReady(last)

\* Only a descriptor that is not open finds a second waiter.
FaultInv == fault = "none" \/ (fault = "occupied" /\ Invalid # {})

\* What every step keeps while nobody sleeps for a positive time, and the
\* properties above follow from.
Inv ==
  /\ TypeOK /\ OnePlace /\ ArmedIffWaiting /\ StackIsolation /\ ReturnsWhenAllEnded
  /\ FrameInv /\ WaitInv /\ PassInv /\ FaultInv
  /\ sleeping = {}

\* A coroutine leaves nty_poll_inner only when its descriptor is ready, although
\* other coroutines ran since epoll_wait reported it.
NoSpuriousWakeup ==
  [][\A c \in Coroutine : at[c] = "poll" /\ at'[c] # "poll" => pfd[c] \in isReady]_vars

\* No wakeup is lost: a coroutine that is alive and not running is held by a
\* queue or tree that will resume it, whatever order the phases of
\* nty_schedule_run and the programs' calls come in.  There is one way to lose one, a
\* nty_coroutine_sleep(0) that links anew a coroutine still in the ready queue: this
\* says that no other step of the library or of a program does.
NoLostCoroutine ==
  fault # "relinked" => \A c \in Coroutine : at[c] # "free" =>
    \/ curr = c \/ InReady(c) \/ c \in sleeping
    \/ \E f \in Fd : waiting[f] = c

\* Two sleepers have different keys, as the sleep tree requires.
SleepKeysDistinct ==
  \A c, d \in sleeping : wake[c] = wake[d] => c = d

\* A coroutine in the ready queue is resumed, unless the process dies before, provided
\* the loop over the expired sleepers ends each time: nty_schedule_run resumes sleepers
\* as long as one is due, so a coroutine that sleeps for a millisecond and then runs as
\* long before it yields keeps it from the ready queue for ever.
QueuedRuns ==
  []<>(phase # "expired") =>
    \A c \in Coroutine :
      at[c] \in {"new", "yield"} ~> at[c] \notin {"new", "yield"} \/ fault # "none"

\* A coroutine waiting on a descriptor that is ready is resumed, unless the process
\* dies before, provided that again and again epoll's turn comes with an empty ready
\* queue and no sleeper due: nty_schedule_epoll asks the kernel only then, so coroutines
\* that keep calling nty_coroutine_sleep, or keep creating new ones, shut out every
\* waiter.
ReadyServed ==
  []<>(Scheduling("epoll") /\ ready = <<>> /\ \A c \in Coroutine : ~Due(c)) =>
    \A f \in Fd : f \in isReady /\ waiting[f] # Null ~> waiting[f] = Null \/ fault # "none"
===============================================================================
