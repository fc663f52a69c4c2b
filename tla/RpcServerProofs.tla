---------------------------- MODULE RpcServerProofs ---------------------------
(***************************************************************************)
(* What holds of the scheduler for any number of coroutines and            *)
(* descriptors: first for programs that do not sleep for a positive time,  *)
(* then for all.  The server is one of these programs: it implements       *)
(* NtyScheduler, and what holds of every program there holds of it, for    *)
(* all values of its constants.                                            *)
(***************************************************************************)
EXTENDS RpcServer, FiniteSetTheorems, TLAPS

-------------------------------------------------------------------------------
(* Type correctness *)

\* The initial state is well typed.
LEMMA TypeInit == Init => TypeOK
BY SchedulerAssumption DEF Init, TypeOK, Phases, Places, Bits, Faults

\* Resuming a coroutine keeps the types of what it changes, whatever the
\* descriptor its frame names.
LEMMA ResumeType ==
  ASSUME TypeOK, NEW c \in Coroutine, NEW st \in [Coroutine -> SUBSET Bits],
         Resume(c, st)
  PROVE  /\ curr' \in Coroutine \cup {Null}
         /\ waiting' \in [Fd -> Coroutine \cup {Null}]
         /\ at' \in [Coroutine -> Places]
         /\ pfd' \in [Coroutine -> Fd \cup {Null}]
         /\ status' \in [Coroutine -> SUBSET Bits]
         /\ wake' \in [Coroutine -> Nat]
         /\ saved' \in [Coroutine -> Coroutine \cup {Null}]
         /\ shared' \in Coroutine \cup {Null}
         /\ interest' \in SUBSET Fd
         /\ isReady' \in SUBSET Fd
         /\ holder' \in [Fd -> Coroutine \cup {Null}]
         /\ now' \in Nat
         /\ fault' \in Faults
<1>1. CASE at[c] = "poll"
  BY <1>1 DEF Resume, PollReturn, TypeOK, Places, Bits, Faults
<1>2. CASE at[c] # "poll"
  <2>1. status' = [st EXCEPT ![c] = IF "NEW" \in st[c] THEN {"READY"} ELSE st[c]]
    BY <1>2 DEF Resume
  <2>2. st[c] \in SUBSET Bits /\ {"READY"} \in SUBSET Bits
    BY DEF Bits
  <2>3. status' \in [Coroutine -> SUBSET Bits]
    BY <2>1, <2>2
  <2>4. QED BY <1>2, <2>3 DEF Resume, TypeOK, Places, Faults
<1>3. QED BY <1>1, <1>2

\* A queue cut off behind an element is its beginning.
LEMMA Cut ==
  ASSUME NEW S, NEW s \in Seq(S), NEW i \in DOMAIN s
  PROVE  /\ SubSeq(s, 1, i) \in Seq(S)
         /\ DOMAIN SubSeq(s, 1, i) = 1 .. i /\ i \in 1 .. Len(s) /\ Len(s) \in Nat
         /\ \A j \in 1 .. i : SubSeq(s, 1, i)[j] = s[j]
OBVIOUS

\* Every action keeps the types.
LEMMA TypeNext == TypeOK /\ [Next]_vars => TypeOK'
<1> SUFFICES ASSUME TypeOK, [Next]_vars PROVE TypeOK'
  OBVIOUS
<1> USE SchedulerAssumption
<1>1. CASE RunStart \/ LoopTest \/ EnterReady \/ ReadyDrained \/ EpollWait \/ EventsDone
  BY <1>1 DEF TypeOK, RunStart, LoopTest, EnterReady, ReadyDrained, EpollWait,
     EventsDone, Phases, loopVars, queueVars, frameVars, kernelVars
<1>2. ASSUME NEW c \in Coroutine, ResumeExpired(c) PROVE TypeOK'
  BY <1>2, ResumeType DEF TypeOK, ResumeExpired, loopVars
<1>3. CASE ResumeReady
  <2>1. Head(ready) \in Coroutine /\ Tail(ready) \in Seq(Coroutine)
    BY <1>3 DEF TypeOK, ResumeReady
  <2>2. CASE "FDEOF" \in status[Head(ready)]
    BY <1>3, <2>1, <2>2 DEF TypeOK, ResumeReady, Phases, Places, kernelVars
  <2>3. CASE "FDEOF" \notin status[Head(ready)]
    <3>1. Resume(Head(ready), status) /\ status \in [Coroutine -> SUBSET Bits]
      BY <1>3, <2>3 DEF TypeOK, ResumeReady
    <3>2. QED BY <1>3, <2>1, <2>3, <3>1, ResumeType DEF TypeOK, ResumeReady, Phases
  <2>4. QED BY <2>2, <2>3
<1>4. ASSUME NEW f \in Fd, NEW hup \in BOOLEAN, Dispatch(f, hup) PROVE TypeOK'
  <2>1. CASE waiting[f] = Null
    BY <1>4, <2>1 DEF TypeOK, Dispatch, Faults, frameVars, kernelVars
  <2>2. CASE waiting[f] # Null
    <3>1. waiting[f] \in Coroutine /\ SearchWait(f, hup) \in [Coroutine -> SUBSET Bits]
      BY <2>2 DEF TypeOK, SearchWait, Bits
    <3>2. Resume(waiting[f], SearchWait(f, hup))
      BY <1>4, <2>2 DEF Dispatch
    <3>3. UNCHANGED <<phase, last, ready, sleeping>> /\ events' \in SUBSET Fd
      BY <1>4 DEF Dispatch, TypeOK
    <3>4. QED BY <3>1, <3>2, <3>3, ResumeType DEF TypeOK
  <2>3. QED BY <2>1, <2>2
<1>5. ASSUME NEW c \in Coroutine \cup {Null}, NEW d \in Coroutine, NEW F \in SUBSET Fd,
             Spawn(c, d, F)
      PROVE  TypeOK'
  BY <1>5 DEF TypeOK, Spawn, Enqueue, Places, Bits, loopVars
<1>6. ASSUME NEW c \in Coroutine, Yields(c) PROVE TypeOK'
  <2>1. ASSUME NEW f \in Fd, NEW mode \in {"in", "out"}, Poll(c, f, mode) PROVE TypeOK'
    <3>1. /\ UNCHANGED <<phase, last, events, ready, sleeping, wake, isReady, holder, now>>
          /\ interest' \in SUBSET Fd
      BY <2>1 DEF TypeOK, Poll, loopVars
    <3>2. CASE "WAIT_READ" \in status[c] \/ waiting[f] # Null
      BY <2>1, <3>1, <3>2 DEF TypeOK, Poll, Faults
    <3>3. CASE ~("WAIT_READ" \in status[c] \/ waiting[f] # Null)
      <4>1. /\ status' = [status EXCEPT ![c] = @ \cup WaitBit(mode)]
            /\ waiting' = [waiting EXCEPT ![f] = c]
            /\ pfd' = [pfd EXCEPT ![c] = f]
            /\ saved' = [saved EXCEPT ![c] = shared]
            /\ at' = [at EXCEPT ![c] = "poll"]
            /\ curr' = Null /\ shared' = shared /\ fault' = fault
        BY <2>1, <3>3 DEF Poll, Yield
      <4>2. status' \in [Coroutine -> SUBSET Bits]
        BY <4>1 DEF TypeOK, WaitBit, Bits
      <4>3. QED BY <3>1, <4>1, <4>2 DEF TypeOK, Places
    <3>4. QED BY <3>2, <3>3
  <2>2. CASE SleepZero(c)
    <3>1. /\ at' = [at EXCEPT ![c] = "yield"] /\ saved' = [saved EXCEPT ![c] = shared]
          /\ curr' = Null /\ shared' = shared
          /\ UNCHANGED <<loopVars, waiting, sleeping, pfd, status, wake, kernelVars>>
      BY <2>2 DEF SleepZero, Yield
    <3>2. ready' \in Seq(Coroutine) /\ fault' \in Faults
      <4>1. CASE InReady(c)
        <5>1. PICK i \in DOMAIN ready : ready' = SubSeq(ready, 1, i)
          BY <2>2, <4>1 DEF SleepZero, Relink
        <5>2. ready' \in Seq(Coroutine)
          BY <5>1, Cut DEF TypeOK
        <5>3. QED BY <2>2, <4>1, <5>2 DEF SleepZero, Relink, Faults
      <4>2. CASE ~InReady(c)
        <5>1. ready' = Append(ready, c) /\ fault' = fault
          BY <2>2, <4>2 DEF SleepZero, Enqueue
        <5>2. QED BY <5>1 DEF TypeOK
      <4>3. QED BY <4>1, <4>2
    <3>3. QED BY <3>1, <3>2 DEF TypeOK, Places, loopVars, kernelVars
  <2>3. CASE Exit(c)
    BY <2>3 DEF TypeOK, Exit, Places, Faults, loopVars, queueVars, kernelVars
  <2>4. QED BY <1>6, <2>1, <2>2, <2>3 DEF Yields
<1>7. ASSUME NEW c \in Coroutine, NEW ms \in SleepArgs, SleepFor(c, ms) PROVE TypeOK'
  <2>1. PICK k \in now + ms .. now + ms + Cardinality(sleeping) :
          wake' = [wake EXCEPT ![c] = k]
    BY <1>7 DEF SleepFor
  <2>2. k \in Nat
    BY <2>1 DEF TypeOK
  <2>3. QED BY <1>7, <2>1, <2>2
            DEF TypeOK, SleepFor, OthersAsleep, Bits, loopVars, kernelVars
<1>8. ASSUME NEW c \in Coroutine, NEW f \in Fd, Open(c, f) \/ Close(c, f) \/ Drain(c, f)
      PROVE  TypeOK'
  BY <1>8 DEF TypeOK, Open, Close, Drain, loopVars, queueVars, frameVars
<1>9. CASE Kernel
  BY <1>9 DEF TypeOK, Kernel, Tick, Arrive, loopVars, queueVars, frameVars
<1>10. CASE UNCHANGED vars
  BY <1>10 DEF TypeOK, vars, loopVars, queueVars, frameVars, kernelVars
<1>11. QED BY <1>1, <1>2, <1>3, <1>4, <1>5, <1>6, <1>7, <1>8, <1>9, <1>10
           DEF Next, Scheduler, Program, Stopped

\* Every variable keeps its type: coroutines' queues, trees and frames hold only
\* coroutines and descriptors, for any program and any number of them.
THEOREM TypeCorrect == Spec => []TypeOK
BY TypeInit, TypeNext, PTL DEF Spec

-------------------------------------------------------------------------------
(* The ready queue: who is in it after an insertion at the tail and a removal *)
(* at the head                                                                *)

In(s, x) == \E i \in DOMAIN s : s[i] = x
OnceEach(s) == \A i, j \in DOMAIN s : s[i] = s[j] => i = j

\* Appending a new element adds it to a queue, once.
LEMMA AppendIn ==
  ASSUME NEW S, NEW s \in Seq(S), NEW d \in S
  PROVE  /\ \A x : In(Append(s, d), x) <=> In(s, x) \/ x = d
         /\ OnceEach(s) /\ ~In(s, d) => OnceEach(Append(s, d))
<1> DEFINE t == Append(s, d)
<1>1. /\ DOMAIN s = 1 .. Len(s) /\ Len(s) \in Nat
      /\ DOMAIN t = 1 .. Len(s) + 1
      /\ t[Len(s) + 1] = d
      /\ \A i \in 1 .. Len(s) : t[i] = s[i]
  OBVIOUS
<1> HIDE DEF t
<1>2. ASSUME NEW x PROVE In(t, x) <=> In(s, x) \/ x = d
  BY <1>1 DEF In
<1>3. ASSUME OnceEach(s), ~In(s, d), NEW i \in DOMAIN t, NEW j \in DOMAIN t, t[i] = t[j]
      PROVE  i = j
  BY <1>1, <1>3 DEF In, OnceEach
<1>4. QED BY <1>2, <1>3 DEF OnceEach, t

\* Taking the head of a queue removes it, and only it.
LEMMA TailIn ==
  ASSUME NEW S, NEW s \in Seq(S), s # <<>>, OnceEach(s)
  PROVE  /\ \A x : In(Tail(s), x) <=> In(s, x) /\ x # Head(s)
         /\ OnceEach(Tail(s))
         /\ In(s, Head(s))
<1> DEFINE t == Tail(s)
<1>1. /\ DOMAIN s = 1 .. Len(s) /\ Len(s) \in Nat \ {0}
      /\ DOMAIN t = 1 .. Len(s) - 1
      /\ Head(s) = s[1]
      /\ \A i \in 1 .. Len(s) - 1 : t[i] = s[i + 1]
  OBVIOUS
<1> HIDE DEF t
<1>2. ASSUME NEW x, In(t, x) PROVE In(s, x) /\ x # Head(s)
  <2>1. PICK i \in 1 .. Len(s) - 1 : t[i] = x
    BY <1>1, <1>2 DEF In
  <2>2. s[i + 1] = x /\ i + 1 \in DOMAIN s /\ 1 \in DOMAIN s /\ i + 1 # 1
    BY <1>1, <2>1
  <2>3. QED BY <1>1, <2>2 DEF In, OnceEach
<1>3. ASSUME NEW x, In(s, x), x # Head(s) PROVE In(t, x)
  <2>1. PICK i \in 1 .. Len(s) : s[i] = x
    BY <1>1, <1>3 DEF In
  <2>2. i - 1 \in 1 .. Len(s) - 1 /\ t[i - 1] = x
    BY <1>1, <1>3, <2>1
  <2>3. QED BY <1>1, <2>2 DEF In
<1>4. OnceEach(t)
  BY <1>1 DEF OnceEach
<1>5. In(s, Head(s))
  BY <1>1 DEF In
<1>6. QED BY <1>2, <1>3, <1>4, <1>5 DEF t

\* The last element of a queue is in it.
LEMMA LastIn ==
  ASSUME NEW S, NEW s \in Seq(S), s # <<>>
  PROVE  In(s, s[Len(s)])
BY DEF In

-------------------------------------------------------------------------------
(* The inductive invariant, when nobody sleeps for a positive time *)

NoSleep == SleepArgs \subseteq {0}

\* The initial state satisfies the invariant.
LEMMA InvInit == Init => Inv
<1> SUFFICES ASSUME Init PROVE Inv
  OBVIOUS
<1>1. TypeOK
  BY TypeInit
<1>2. OnePlace /\ StackIsolation /\ ReturnsWhenAllEnded
  BY SchedulerAssumption DEF Init, OnePlace, QueuedOnce, StackIsolation, ReturnsWhenAllEnded, InReady
<1>3. ArmedIffWaiting /\ FrameInv /\ WaitInv /\ PassInv /\ FaultInv /\ sleeping = {}
  BY DEF Init, ArmedIffWaiting, FrameInv, WaitInv, PassInv, FaultInv
<1>4. QED BY <1>1, <1>2, <1>3 DEF Inv

\* A step of the loop that resumes nobody.
LEMMA LoopStep ==
  ASSUME Inv, TypeOK', UNCHANGED <<queueVars, frameVars, kernelVars, curr, fault>>,
         \A f \in events' : waiting[f] # Null /\ f \in isReady \ Invalid,
         ReturnsWhenAllEnded', PassInv'
  PROVE  Inv'
<1>1. OnePlace' /\ ArmedIffWaiting' /\ StackIsolation' /\ FrameInv' /\ WaitInv' /\ FaultInv'
      /\ (sleeping = {})'
  BY DEF Inv, OnePlace, QueuedOnce, ArmedIffWaiting, StackIsolation, FrameInv, WaitInv, FaultInv,
     InReady, queueVars, frameVars, kernelVars
<1>2. QED BY <1>1 DEF Inv

\* When every queue and tree is empty and nobody runs, every coroutine has ended.
LEMMA DoneMeansEnded ==
  ASSUME Inv, IsDone, curr = Null
  PROVE  \A c \in Coroutine : at[c] = "free"
<1> SUFFICES ASSUME NEW c \in Coroutine PROVE at[c] = "free"
  OBVIOUS
<1>1. at[c] # "run"
  BY SchedulerAssumption DEF Inv, OnePlace
<1>2. at[c] \notin {"new", "yield"}
  BY DEF Inv, OnePlace, QueuedOnce, InReady, IsDone
<1>3. at[c] # "poll"
  <2> SUFFICES ASSUME at[c] = "poll" PROVE FALSE
    OBVIOUS
  <2>1. pfd[c] \in Fd
    BY DEF Inv, FrameInv, TypeOK
  <2>2. waiting[pfd[c]] = c
    BY <2>1 DEF Inv, OnePlace
  <2>3. QED BY <2>1, <2>2, SchedulerAssumption DEF IsDone
<1>4. QED BY <1>1, <1>2, <1>3 DEF Inv, TypeOK, Places

\* The steps of the loop that resume nobody keep the invariant.
LEMMA LoopInv ==
  ASSUME Inv, TypeOK',
         RunStart \/ LoopTest \/ EnterReady \/ ReadyDrained \/ EpollWait \/ EventsDone
  PROVE  Inv'
<1> USE DEF loopVars
<1>1. CASE RunStart
  BY <1>1, LoopStep DEF RunStart, Inv, WaitInv, ReturnsWhenAllEnded, PassInv
<1>2. CASE LoopTest
  <2>1. ReturnsWhenAllEnded'
    BY <1>2, DoneMeansEnded DEF LoopTest, Scheduling, ReturnsWhenAllEnded, frameVars
  <2>2. QED BY <1>2, <2>1, LoopStep DEF LoopTest, Inv, WaitInv, PassInv
<1>3. CASE EnterReady
  <2>1. PassInv'
    <3>1. CASE ready = <<>>
      BY <1>3, <3>1 DEF EnterReady, Scheduling, PassInv, queueVars
    <3>2. CASE ready # <<>>
      BY <1>3, <3>2, LastIn DEF EnterReady, PassInv, InReady, In, queueVars, Inv, TypeOK
    <3>3. QED BY <3>1, <3>2
  <2>2. QED BY <1>3, <2>1, LoopStep DEF EnterReady, Inv, WaitInv, ReturnsWhenAllEnded
<1>4. CASE ReadyDrained
  BY <1>4, LoopStep DEF ReadyDrained, Inv, WaitInv, ReturnsWhenAllEnded, PassInv
<1>5. CASE EpollWait
  <2>1. \A f \in events' : waiting[f] # Null /\ f \in isReady \ Invalid
    BY <1>5 DEF EpollWait, Inv, TypeOK, WaitInv, ArmedIffWaiting
  <2>2. QED BY <1>5, <2>1, LoopStep DEF EpollWait, ReturnsWhenAllEnded, PassInv
<1>6. CASE EventsDone
  BY <1>6, LoopStep DEF EventsDone, Inv, WaitInv, ReturnsWhenAllEnded, PassInv
<1>7. QED BY <1>1, <1>2, <1>3, <1>4, <1>5, <1>6

\* Who is in the ready queue, in terms of the lemmas on sequences.
LEMMA QueueFacts ==
  ASSUME Inv
  PROVE  /\ ready \in Seq(Coroutine) /\ OnceEach(ready)
         /\ \A x \in Coroutine : In(ready, x) <=> at[x] \in {"new", "yield"}
BY DEF Inv, TypeOK, OnePlace, QueuedOnce, OnceEach, InReady, In

\* Resuming the head of the ready queue keeps the invariant.
LEMMA ReadyInv ==
  ASSUME Inv, TypeOK', ResumeReady
  PROVE  Inv'
<1> DEFINE c == Head(ready)
<1>1. /\ fault = "none" /\ curr = Null /\ phase = "ready" /\ ready # <<>>
      /\ ready' = Tail(ready)
      /\ UNCHANGED <<last, events, sleeping>>
  BY DEF ResumeReady, Scheduling
<1>2. /\ c \in Coroutine
      /\ In(ready, c)
      /\ \A x : In(ready', x) <=> In(ready, x) /\ x # c
      /\ OnceEach(ready')
  BY <1>1, QueueFacts, TailIn
<1>3. at[c] \in {"new", "yield"}
  BY <1>2, QueueFacts
<1>4. "FDEOF" \notin status[c]
  BY <1>2, <1>3 DEF Inv, FrameInv
<1>5. Resume(c, status) /\ phase' = (IF c = last THEN "epoll" ELSE "ready")
  BY <1>4 DEF ResumeReady
<1> HIDE DEF c
<1>6. /\ curr' = c
      /\ shared' = IF "NEW" \in status[c] THEN c ELSE saved[c]
      /\ at' = [at EXCEPT ![c] = "run"]
      /\ pfd' = [pfd EXCEPT ![c] = Null]
      /\ status' = [status EXCEPT ![c] = IF "NEW" \in @ THEN {"READY"} ELSE @]
      /\ UNCHANGED <<interest, waiting, fault, wake, saved, isReady, holder, now>>
  BY <1>3, <1>5 DEF Resume
<1>7. OnePlace'
  <2>1. \A x \in Coroutine : at'[x] = "run" <=> curr' = x
    BY <1>1, <1>2, <1>6, SchedulerAssumption DEF Inv, TypeOK, OnePlace
  <2>2. \A x \in Coroutine : In(ready', x) <=> at'[x] \in {"new", "yield"}
    BY QueueFacts, <1>2, <1>6 DEF Inv, TypeOK
  <2>3. \A x \in Coroutine, f \in Fd : waiting'[f] = x <=> at'[x] = "poll" /\ pfd'[x] = f
    BY <1>2, <1>3, <1>6 DEF Inv, TypeOK, OnePlace
  <2>4. QED BY <1>2, <2>1, <2>2, <2>3 DEF OnePlace, QueuedOnce, OnceEach, InReady, In
<1>8. StackIsolation'
  BY <1>2, <1>3, <1>6 DEF Inv, TypeOK, StackIsolation, FrameInv
<1>9. FrameInv'
  BY <1>2, <1>3, <1>6 DEF Inv, TypeOK, FrameInv
<1>10. PassInv'
  BY <1>1, <1>2, <1>5 DEF Inv, PassInv, InReady, In
<1>11. ArmedIffWaiting' /\ WaitInv' /\ FaultInv' /\ (sleeping = {})' /\ ReturnsWhenAllEnded'
  BY <1>1, <1>5, <1>6
     DEF Inv, ArmedIffWaiting, WaitInv, FaultInv, ReturnsWhenAllEnded
<1>12. QED BY <1>7, <1>8, <1>9, <1>10, <1>11 DEF Inv

\* Dispatching an event to its waiter keeps the invariant.
LEMMA DispatchInv ==
  ASSUME Inv, TypeOK', NEW f \in Fd, NEW hup \in BOOLEAN, Dispatch(f, hup)
  PROVE  Inv'
<1> DEFINE w == waiting[f]
<1>1. /\ fault = "none" /\ curr = Null /\ phase = "events" /\ f \in events
      /\ events' = events \ {f}
      /\ UNCHANGED <<phase, last, ready, sleeping>>
  BY DEF Dispatch, Scheduling
<1>2. w \in Coroutine /\ at[w] = "poll" /\ pfd[w] = f
  BY <1>1 DEF Inv, TypeOK, WaitInv, OnePlace
<1>3. Resume(w, SearchWait(f, hup))
  BY <1>2, SchedulerAssumption DEF Dispatch
<1>4. /\ curr' = w /\ shared' = saved[w]
      /\ at' = [at EXCEPT ![w] = "run"]
      /\ pfd' = [pfd EXCEPT ![w] = Null]
      /\ interest' = interest \ {f}
      /\ waiting' = [waiting EXCEPT ![f] = Null]
      /\ status' = [status EXCEPT ![w] = {}]
      /\ UNCHANGED <<fault, wake, saved, isReady, holder, now>>
  <2>1. SearchWait(f, hup) = [status EXCEPT ![w] = IF hup THEN {"FDEOF"} ELSE {}]
    BY DEF SearchWait
  <2>2. "NEW" \notin SearchWait(f, hup)[w]
    BY <1>2, <2>1 DEF Inv, TypeOK
  <2>3. [SearchWait(f, hup) EXCEPT ![w] = {}] = [status EXCEPT ![w] = {}]
    BY <2>1, <1>2 DEF Inv, TypeOK
  <2>4. QED BY <1>2, <1>3, <2>2, <2>3, SchedulerAssumption DEF Resume, PollReturn
<1> HIDE DEF w
<1>5. OnePlace'
  <2>1. \A x \in Coroutine : at'[x] = "run" <=> curr' = x
    BY <1>1, <1>2, <1>4, SchedulerAssumption DEF Inv, TypeOK, OnePlace
  <2>2. \A x \in Coroutine : InReady(x)' <=> at'[x] \in {"new", "yield"}
    BY <1>1, <1>2, <1>4 DEF Inv, TypeOK, OnePlace, InReady
  <2>3. ASSUME NEW x \in Coroutine, NEW g \in Fd
        PROVE  waiting'[g] = x <=> at'[x] = "poll" /\ pfd'[x] = g
    BY <1>2, <1>4, SchedulerAssumption DEF Inv, TypeOK, OnePlace
  <2>4. QED BY <1>1, <2>1, <2>2, <2>3 DEF Inv, OnePlace, QueuedOnce, InReady
<1>6. ArmedIffWaiting' /\ WaitInv'
  BY <1>1, <1>4 DEF Inv, TypeOK, ArmedIffWaiting, WaitInv
<1>7. StackIsolation'
  BY <1>2, <1>4 DEF Inv, TypeOK, StackIsolation
<1>8. FrameInv'
  BY <1>2, <1>4 DEF Inv, TypeOK, FrameInv
<1>9. PassInv' /\ FaultInv' /\ (sleeping = {})' /\ ReturnsWhenAllEnded'
  BY <1>1, <1>4 DEF Inv, PassInv, FaultInv, ReturnsWhenAllEnded
<1>10. QED BY <1>5, <1>6, <1>7, <1>8, <1>9 DEF Inv

\* An insertion at the tail keeps what the pass over the queue stops at.
LEMMA EnqueuePass ==
  ASSUME Inv, NEW c \in Coroutine, ready' = Enqueue(c), UNCHANGED <<phase, last>>,
         curr # Null \/ phase # "ready"
  PROVE  PassInv'
<1>1. \A x : In(ready, x) => In(ready', x)
  BY AppendIn, QueueFacts DEF Enqueue
<1>2. fault # "relinked"
  BY DEF Inv, FaultInv
<1>3. QED BY <1>1, <1>2 DEF Inv, PassInv, InReady, In

\* nty_coroutine_create keeps the invariant.
LEMMA SpawnInv ==
  ASSUME Inv, TypeOK', NEW c \in Coroutine \cup {Null}, NEW d \in Coroutine,
         NEW F \in SUBSET Fd, Spawn(c, d, F)
  PROVE  Inv'
<1>1. /\ curr = c /\ at[d] = "free" /\ F \subseteq Held(c)
      /\ c = Null => phase = "main" /\ F = {}
      /\ ready' = Enqueue(d)
      /\ at' = [at EXCEPT ![d] = "new"]
      /\ status' = [status EXCEPT ![d] = {"NEW"}]
      /\ saved' = [saved EXCEPT ![d] = Null]
      /\ pfd' = [pfd EXCEPT ![d] = Null]
      /\ holder' = [f \in Fd |-> IF f \in F THEN d ELSE holder[f]]
      /\ UNCHANGED <<phase, last, events, waiting, sleeping, shared, interest,
                     isReady, curr, fault>>
  BY DEF Spawn, Running, loopVars
<1>2. d # curr
  BY <1>1 DEF Inv, OnePlace
<1>3. OnePlace'
  <2>1. /\ \A x : In(ready', x) <=> In(ready, x) \/ x = d
        /\ OnceEach(ready')
    BY <1>1, QueueFacts, AppendIn DEF Enqueue
  <2>2. \A x \in Coroutine : In(ready', x) <=> at'[x] \in {"new", "yield"}
    BY <1>1, <2>1, QueueFacts DEF Inv, TypeOK
  <2>3. \A x \in Coroutine : at'[x] = "run" <=> curr' = x
    BY <1>1, <1>2 DEF Inv, TypeOK, OnePlace
  <2>4. \A x \in Coroutine, f \in Fd : waiting'[f] = x <=> at'[x] = "poll" /\ pfd'[x] = f
    BY <1>1 DEF Inv, TypeOK, OnePlace
  <2>5. QED BY <2>1, <2>2, <2>3, <2>4 DEF OnePlace, QueuedOnce, OnceEach, InReady, In
<1>4. ASSUME NEW f \in Fd \ Invalid, waiting[f] # Null PROVE holder'[f] = waiting[f]
  <2>1. holder[f] = waiting[f] /\ waiting[f] \in Coroutine /\ at[waiting[f]] = "poll"
    BY <1>4 DEF Inv, TypeOK, WaitInv, OnePlace
  <2>2. waiting[f] # c
    BY <1>1, <2>1 DEF Inv, OnePlace
  <2>3. f \notin F
    BY <1>1, <2>1, <2>2 DEF Held
  <2>4. QED BY <1>1, <2>1, <2>3
<1>5. WaitInv' /\ ArmedIffWaiting' /\ FaultInv' /\ (sleeping = {})'
  BY <1>1, <1>4 DEF Inv, WaitInv, ArmedIffWaiting, FaultInv
<1>6. FrameInv'
  BY <1>1 DEF Inv, TypeOK, FrameInv
<1>7. StackIsolation'
  BY <1>1 DEF Inv, TypeOK, StackIsolation
<1>8. PassInv'
  BY <1>1, EnqueuePass
<1>9. ReturnsWhenAllEnded'
  <2>1. phase # "returned"
    BY <1>1, SchedulerAssumption DEF Inv, OnePlace, ReturnsWhenAllEnded
  <2>2. QED BY <1>1, <2>1 DEF ReturnsWhenAllEnded
<1>10. QED BY <1>3, <1>5, <1>6, <1>7, <1>8, <1>9 DEF Inv

\* While a coroutine runs the loop has not returned.
LEMMA RunningFacts ==
  ASSUME Inv, NEW c \in Coroutine, Running(c)
  PROVE  /\ curr = c /\ at[c] = "run" /\ shared = c /\ fault = "none"
         /\ status[c] \subseteq {"READY"} /\ phase # "returned" /\ ~In(ready, c)
<1>1. curr = c /\ fault = "none" /\ at[c] = "run"
  BY DEF Running, Inv, OnePlace
<1>2. QED BY <1>1, QueueFacts, SchedulerAssumption
          DEF Inv, StackIsolation, FrameInv, ReturnsWhenAllEnded

\* Waiting for a descriptor keeps the invariant.
LEMMA PollInv ==
  ASSUME Inv, TypeOK', NEW c \in Coroutine, NEW f \in Fd, NEW mode \in {"in", "out"},
         Poll(c, f, mode)
  PROVE  Inv'
<1>1. /\ curr = c /\ at[c] = "run" /\ shared = c /\ fault = "none"
      /\ status[c] \subseteq {"READY"} /\ phase # "returned"
  BY RunningFacts DEF Poll
<1>2. /\ f \in Held(c) \cup Invalid
      /\ interest' = IF f \in Invalid THEN interest ELSE interest \cup {f}
      /\ UNCHANGED <<phase, last, events, ready, sleeping, wake, isReady, holder, now>>
  BY DEF Poll, loopVars
<1>3. CASE waiting[f] # Null
  <2>1. f \in Invalid
    <3> SUFFICES ASSUME f \notin Invalid PROVE FALSE
      OBVIOUS
    <3>1. waiting[f] = c
      BY <1>2, <1>3 DEF Held, Inv, WaitInv
    <3>2. QED BY <1>1, <3>1 DEF Inv, OnePlace
  <2>2. /\ fault' = "occupied"
        /\ UNCHANGED <<curr, waiting, at, pfd, status, saved, shared, interest>>
    BY <1>1, <1>2, <1>3, <2>1 DEF Poll
  <2>3. QED BY <1>2, <2>1, <2>2
            DEF Inv, OnePlace, QueuedOnce, ArmedIffWaiting, StackIsolation, ReturnsWhenAllEnded,
                FrameInv, WaitInv, PassInv, FaultInv, InReady
<1>4. CASE waiting[f] = Null
  <2>1. /\ status' = [status EXCEPT ![c] = @ \cup WaitBit(mode)]
        /\ waiting' = [waiting EXCEPT ![f] = c]
        /\ pfd' = [pfd EXCEPT ![c] = f]
        /\ saved' = [saved EXCEPT ![c] = shared]
        /\ at' = [at EXCEPT ![c] = "poll"]
        /\ curr' = Null /\ shared' = shared /\ fault' = fault
    BY <1>1, <1>4 DEF Poll, Yield
  <2>2. OnePlace'
    <3>1. \A x \in Coroutine : at'[x] = "run" <=> curr' = x
      BY <1>1, <2>1, SchedulerAssumption DEF Inv, TypeOK, OnePlace
    <3>2. \A x \in Coroutine : In(ready', x) <=> at'[x] \in {"new", "yield"}
      BY <1>1, <1>2, <2>1, QueueFacts DEF Inv, TypeOK
    <3>3. ASSUME NEW x \in Coroutine, NEW g \in Fd
          PROVE  waiting'[g] = x <=> at'[x] = "poll" /\ pfd'[x] = g
      BY <1>1, <1>4, <2>1, SchedulerAssumption DEF Inv, TypeOK, OnePlace
    <3>4. QED BY <1>2, <3>1, <3>2, <3>3 DEF Inv, OnePlace, QueuedOnce, InReady, In
  <2>3. ArmedIffWaiting'
    BY <1>2, <1>4, <2>1, SchedulerAssumption DEF Inv, TypeOK, ArmedIffWaiting
  <2>4. WaitInv'
    BY <1>2, <1>4, <2>1, SchedulerAssumption DEF Inv, TypeOK, WaitInv, Held
  <2>5. StackIsolation'
    BY <1>1, <2>1, SchedulerAssumption DEF Inv, TypeOK, StackIsolation
  <2>6. FrameInv'
    BY <1>1, <2>1, SchedulerAssumption DEF Inv, TypeOK, FrameInv, WaitBit
  <2>7. PassInv' /\ ReturnsWhenAllEnded' /\ FaultInv' /\ (sleeping = {})'
    BY <1>1, <1>2, <2>1, SchedulerAssumption
       DEF Inv, PassInv, ReturnsWhenAllEnded, FaultInv, InReady
  <2>8. QED BY <2>2, <2>3, <2>4, <2>5, <2>6, <2>7 DEF Inv
<1>5. QED BY <1>3, <1>4

\* nty_coroutine_sleep(0) keeps the invariant.
LEMMA SleepZeroInv ==
  ASSUME Inv, TypeOK', NEW c \in Coroutine, SleepZero(c)
  PROVE  Inv'
<1>1. /\ curr = c /\ at[c] = "run" /\ shared = c /\ phase # "returned"
      /\ status[c] \subseteq {"READY"} /\ ~In(ready, c)
  BY RunningFacts DEF SleepZero
<1>2. /\ ready' = Enqueue(c)
      /\ saved' = [saved EXCEPT ![c] = shared]
      /\ at' = [at EXCEPT ![c] = "yield"]
      /\ curr' = Null
      /\ UNCHANGED <<phase, last, events, waiting, sleeping, pfd, status, shared,
                     interest, isReady, holder, fault>>
  BY <1>1 DEF SleepZero, Yield, InReady, In, loopVars, kernelVars
<1>3. OnePlace'
  <2>1. /\ \A x : In(ready', x) <=> In(ready, x) \/ x = c
        /\ OnceEach(ready')
    BY <1>1, <1>2, QueueFacts, AppendIn DEF Enqueue
  <2>2. \A x \in Coroutine : In(ready', x) <=> at'[x] \in {"new", "yield"}
    BY <1>2, <2>1, QueueFacts DEF Inv, TypeOK
  <2>3. \A x \in Coroutine : at'[x] = "run" <=> curr' = x
    BY <1>1, <1>2, SchedulerAssumption DEF Inv, TypeOK, OnePlace
  <2>4. \A x \in Coroutine, f \in Fd : waiting'[f] = x <=> at'[x] = "poll" /\ pfd'[x] = f
    BY <1>1, <1>2 DEF Inv, TypeOK, OnePlace
  <2>5. QED BY <2>1, <2>2, <2>3, <2>4 DEF OnePlace, QueuedOnce, OnceEach, InReady, In
<1>4. ArmedIffWaiting' /\ WaitInv' /\ FaultInv' /\ (sleeping = {})' /\ ReturnsWhenAllEnded'
  BY <1>1, <1>2 DEF Inv, ArmedIffWaiting, WaitInv, FaultInv, ReturnsWhenAllEnded
<1>5. StackIsolation' /\ FrameInv'
  BY <1>1, <1>2 DEF Inv, TypeOK, StackIsolation, FrameInv
<1>6. PassInv'
  BY <1>1, <1>2, EnqueuePass, SchedulerAssumption
<1>7. QED BY <1>3, <1>4, <1>5, <1>6 DEF Inv

\* The end of a coroutine keeps the invariant.
LEMMA ExitInv ==
  ASSUME Inv, TypeOK', NEW c \in Coroutine, Exit(c)
  PROVE  Inv'
<1>1. /\ curr = c /\ at[c] = "run" /\ phase # "returned" /\ fault = "none"
      /\ ~In(ready, c)
  BY RunningFacts DEF Exit
<1>2. /\ at' = [at EXCEPT ![c] = "free"]
      /\ status' = [status EXCEPT ![c] = {}]
      /\ saved' = [saved EXCEPT ![c] = Null]
      /\ curr' = Null
      /\ fault' = fault
      /\ UNCHANGED <<phase, last, events, ready, waiting, sleeping, pfd, shared,
                     interest, isReady, holder>>
  BY <1>1 DEF Exit, Inv, InReady, In, loopVars, queueVars, kernelVars
<1>3. OnePlace'
  <2>1. \A x \in Coroutine : InReady(x)' <=> at'[x] \in {"new", "yield"}
    BY <1>1, <1>2 DEF Inv, TypeOK, OnePlace, InReady
  <2>2. \A x \in Coroutine : at'[x] = "run" <=> curr' = x
    BY <1>1, <1>2, SchedulerAssumption DEF Inv, TypeOK, OnePlace
  <2>3. \A x \in Coroutine, f \in Fd : waiting'[f] = x <=> at'[x] = "poll" /\ pfd'[x] = f
    BY <1>1, <1>2 DEF Inv, TypeOK, OnePlace
  <2>4. QED BY <1>2, <2>1, <2>2, <2>3 DEF Inv, OnePlace, QueuedOnce, InReady
<1>4. ArmedIffWaiting' /\ WaitInv' /\ FaultInv' /\ (sleeping = {})'
  BY <1>2 DEF Inv, ArmedIffWaiting, WaitInv, FaultInv
<1>5. StackIsolation' /\ FrameInv' /\ ReturnsWhenAllEnded'
  BY <1>1, <1>2 DEF Inv, TypeOK, StackIsolation, FrameInv, ReturnsWhenAllEnded
<1>6. PassInv'
  BY <1>1, <1>2, SchedulerAssumption DEF Inv, PassInv, InReady
<1>7. QED BY <1>3, <1>4, <1>5, <1>6 DEF Inv

\* Opening, closing and draining a descriptor, and the kernel's own steps, touch
\* only descriptors nobody waits on, or add to those that are ready.
LEMMA KernelInv ==
  ASSUME Inv, TypeOK', UNCHANGED <<loopVars, queueVars, frameVars, curr, fault>>,
         \A f \in Fd \ Invalid : waiting[f] # Null =>
           /\ holder'[f] = holder[f]
           /\ f \in isReady => f \in isReady'
           /\ f \in interest' <=> f \in interest,
         interest' \subseteq interest
  PROVE  Inv'
<1>1. OnePlace' /\ StackIsolation' /\ ReturnsWhenAllEnded' /\ FrameInv' /\ PassInv'
      /\ FaultInv' /\ (sleeping = {})'
  BY DEF Inv, OnePlace, QueuedOnce, StackIsolation, ReturnsWhenAllEnded, FrameInv, PassInv, FaultInv,
     InReady, loopVars, queueVars, frameVars
<1>2. ArmedIffWaiting'
  BY DEF Inv, ArmedIffWaiting, queueVars
<1>3. \A f \in events : f \in Fd \ Invalid
  BY DEF Inv, TypeOK, WaitInv
<1>4. WaitInv'
  BY <1>3 DEF Inv, WaitInv, queueVars, loopVars
<1>5. QED BY <1>1, <1>2, <1>4 DEF Inv

\* The descriptors of a running coroutine have no waiter.
LEMMA HeldByRunner ==
  ASSUME Inv, NEW c \in Coroutine, Running(c), NEW f \in Fd \ Invalid, f \in Held(c)
  PROVE  waiting[f] = Null
<1> SUFFICES ASSUME waiting[f] # Null PROVE FALSE
  OBVIOUS
<1>1. waiting[f] = c
  BY DEF Held, Inv, WaitInv
<1>2. QED BY <1>1, RunningFacts DEF Inv, OnePlace

\* What the running coroutine does with its descriptors keeps the invariant.
LEMMA DescriptorInv ==
  ASSUME Inv, TypeOK', NEW c \in Coroutine, NEW f \in Fd,
         Open(c, f) \/ Close(c, f) \/ Drain(c, f)
  PROVE  Inv'
<1>1. CASE Open(c, f)
  BY <1>1, KernelInv, SchedulerAssumption DEF Open, Inv, WaitInv, TypeOK
<1>2. CASE Close(c, f)
  <2>1. \A g \in Fd \ Invalid : waiting[g] # Null => g # f
    BY <1>2, HeldByRunner DEF Close
  <2>2. /\ holder' = [holder EXCEPT ![f] = Null]
        /\ interest' = interest \ {f} /\ isReady' = isReady \ {f}
        /\ UNCHANGED <<loopVars, queueVars, frameVars, curr, fault>>
    BY <1>2 DEF Close
  <2>3. QED BY <2>1, <2>2, KernelInv DEF Inv, TypeOK
<1>3. CASE Drain(c, f)
  <2>1. \A g \in Fd \ Invalid : waiting[g] # Null => g # f
    BY <1>3, HeldByRunner DEF Drain
  <2>2. /\ isReady' = isReady \ {f}
        /\ UNCHANGED <<loopVars, queueVars, frameVars, interest, holder, curr, fault>>
    BY <1>3 DEF Drain
  <2>3. QED BY <2>1, <2>2, KernelInv
<1>4. QED BY <1>1, <1>2, <1>3

\* Every step keeps the invariant while nobody sleeps for a positive time.
LEMMA InvNext ==
  ASSUME NoSleep, Inv, [Next]_vars
  PROVE  Inv'
<1>1. TypeOK'
  BY TypeNext DEF Inv
<1>2. CASE RunStart \/ LoopTest \/ EnterReady \/ ReadyDrained \/ EpollWait \/ EventsDone
  BY <1>1, <1>2, LoopInv
<1>3. ASSUME NEW c \in Coroutine PROVE ~ResumeExpired(c)
  BY DEF ResumeExpired, Due, Inv
<1>4. CASE ResumeReady
  BY <1>1, <1>4, ReadyInv
<1>5. ASSUME NEW f \in Fd, NEW hup \in BOOLEAN, Dispatch(f, hup) PROVE Inv'
  BY <1>1, <1>5, DispatchInv
<1>6. ASSUME NEW c \in Coroutine \cup {Null}, NEW d \in Coroutine, NEW F \in SUBSET Fd,
             Spawn(c, d, F)
      PROVE  Inv'
  BY <1>1, <1>6, SpawnInv
<1>7. ASSUME NEW c \in Coroutine, Yields(c) PROVE Inv'
  BY <1>1, <1>7, PollInv, SleepZeroInv, ExitInv DEF Yields
<1>8. ASSUME NEW c \in Coroutine, NEW ms \in SleepArgs PROVE ~SleepFor(c, ms)
  BY DEF NoSleep, SleepFor
<1>9. ASSUME NEW c \in Coroutine, NEW f \in Fd, Open(c, f) \/ Close(c, f) \/ Drain(c, f)
      PROVE  Inv'
  BY <1>1, <1>9, DescriptorInv
<1>10. CASE Kernel
  BY <1>1, <1>10, KernelInv DEF Kernel, Tick, Arrive
<1>11. CASE UNCHANGED vars
  <2>1. UNCHANGED <<loopVars, queueVars, frameVars, kernelVars, curr, fault>>
    BY <1>11 DEF vars
  <2>2. QED BY <1>1, <2>1, KernelInv DEF kernelVars
<1>12. QED BY <1>2, <1>3, <1>4, <1>5, <1>6, <1>7, <1>8, <1>9, <1>10, <1>11
           DEF Next, Scheduler, Program, Stopped

\* The inductive invariant holds in every reachable state.
THEOREM InvHolds == ASSUME NoSleep PROVE Spec => []Inv
BY InvInit, InvNext, PTL DEF Spec

-------------------------------------------------------------------------------
(* What follows *)

\* Every coroutine is in exactly the queue or tree its yield put it in: no
\* wakeup is lost, and none is resumed twice or after it was freed.
THEOREM EveryOneInOnePlace == ASSUME NoSleep PROVE Spec => []OnePlace
<1>1. Inv => OnePlace
  BY DEF Inv
<1>2. QED BY <1>1, InvHolds, PTL

\* The dispatch loop of nty_schedule_run finds a waiter for every event, and
\* epoll watches exactly the descriptors somebody waits on.
THEOREM EventsFindWaiters ==
  ASSUME NoSleep PROVE Spec => [](EventHasWaiter /\ ArmedIffWaiting)
<1>1. Inv => EventHasWaiter /\ ArmedIffWaiting
  BY DEF Inv, WaitInv, EventHasWaiter
<1>2. QED BY <1>1, InvHolds, PTL

\* The coroutine that runs has its own frames on the shared stack.
THEOREM StacksApart == ASSUME NoSleep PROVE Spec => []StackIsolation
<1>1. Inv => StackIsolation
  BY DEF Inv
<1>2. QED BY <1>1, InvHolds, PTL

\* The pass over the ready queue ends, its hang-up branch is dead, and
\* nty_schedule_run returns only when every coroutine has ended.
THEOREM LoopIsSound ==
  ASSUME NoSleep
  PROVE  Spec => [](PassEnds /\ NoHangupInReady /\ ReturnsWhenAllEnded)
<1>1. Inv => PassEnds /\ ReturnsWhenAllEnded
  BY DEF Inv, PassInv, PassEnds
<1>2. Inv => NoHangupInReady
  <2> SUFFICES ASSUME Inv, NEW c \in Coroutine, InReady(c) PROVE "FDEOF" \notin status[c]
    BY DEF NoHangupInReady
  <2>1. at[c] \in {"new", "yield"}
    BY DEF Inv, OnePlace
  <2>2. QED BY <2>1 DEF Inv, FrameInv
<1>3. QED BY <1>1, <1>2, InvHolds, PTL

\* No assertion of nty_schedule_sched_wait fails and nothing freed or NULL is
\* used, if programs also wait only on descriptors they hold.
THEOREM NeverFaults == ASSUME NoSleep, Invalid = {} PROVE Spec => []NoFault
<1>1. Inv => NoFault
  BY DEF Inv, FaultInv, NoFault
<1>2. QED BY <1>1, InvHolds, PTL

\* A coroutine leaves nty_poll_inner only when its descriptor is ready.
THEOREM WakeupsAreReal == ASSUME NoSleep PROVE Spec => NoSpuriousWakeup
<1> DEFINE Real == \A c \in Coroutine : at[c] = "poll" /\ at'[c] # "poll" => pfd[c] \in isReady
<1>1. ASSUME Inv, Next, NEW c \in Coroutine, at[c] = "poll", at'[c] # "poll"
      PROVE  pfd[c] \in isReady
  <2>1. at \in [Coroutine -> Places]
    BY <1>1 DEF Inv, TypeOK
  <2>2. ~ResumeReady
    <3> SUFFICES ASSUME ResumeReady PROVE FALSE
      OBVIOUS
    <3>1. \/ at' = [at EXCEPT ![Head(ready)] = "free"]
          \/ at' = [at EXCEPT ![Head(ready)] = "run"]
      BY DEF ResumeReady, Resume
    <3>2. Head(ready) = c /\ ready # <<>>
      BY <1>1, <2>1, <3>1 DEF ResumeReady
    <3>3. QED BY <1>1, <3>2, QueueFacts, TailIn
  <2>3. ASSUME NEW x \in Coroutine \cup {Null}, NEW d \in Coroutine, NEW F \in SUBSET Fd
        PROVE  ~Spawn(x, d, F)
    BY <1>1, <2>1 DEF Spawn
  <2>4. ASSUME NEW x \in Coroutine PROVE ~Yields(x)
    <3> SUFFICES ASSUME Yields(x) PROVE FALSE
      OBVIOUS
    <3>1. Running(x)
      BY DEF Yields, Poll, SleepZero, Exit
    <3>2. x # c
      BY <1>1, <3>1, RunningFacts
    <3>3. \/ UNCHANGED at
          \/ \E place \in Places : at' = [at EXCEPT ![x] = place]
      BY DEF Yields, Poll, SleepZero, Exit, Yield, Places
    <3>4. QED BY <1>1, <2>1, <3>2, <3>3
  <2>5. ASSUME NEW f \in Fd, NEW hup \in BOOLEAN, Dispatch(f, hup)
        PROVE  pfd[c] \in isReady
    <3>1. f \in events /\ f \in isReady /\ waiting[f] \in Coroutine
      BY <1>1, <2>5 DEF Dispatch, Inv, TypeOK, WaitInv
    <3>2. at' = [at EXCEPT ![waiting[f]] = "run"]
      BY <2>5, <3>1, SchedulerAssumption DEF Dispatch, Resume
    <3>3. waiting[f] = c
      BY <1>1, <2>1, <3>2
    <3>4. QED BY <1>1, <3>1, <3>3 DEF Inv, OnePlace
  <2>6. ASSUME NEW x \in Coroutine PROVE ~ResumeExpired(x)
    BY <1>1 DEF ResumeExpired, Due, Inv
  <2>7. at' # at
    BY <1>1
  <2>8. QED BY <1>1, <2>2, <2>3, <2>4, <2>5, <2>6, <2>7
            DEF Next, Scheduler, Program, Kernel, Stopped, RunStart, LoopTest, EnterReady,
                ReadyDrained, EpollWait, EventsDone, SleepFor, Open, Close, Drain, Tick,
                Arrive, frameVars, vars
<1>2. Inv /\ [Next]_vars => [Real]_vars
  BY <1>1
<1>3. QED BY <1>2, InvHolds, PTL DEF Spec, NoSpuriousWakeup

-------------------------------------------------------------------------------
(***************************************************************************)
(* Programs that also sleep for a positive time.                           *)
(*                                                                         *)
(* nty_coroutine_sleep leaves a coroutine in the sleep tree without        *)
(* yielding, so a sleeper may be anywhere else at the same time, may be    *)
(* resumed from there by its alarm, and may end while the tree or the      *)
(* ready queue still points to it.  What Inv says of places fails then;    *)
(* this part shows what is left.                                           *)
(***************************************************************************)

\* Who runs, waits, or is to be scheduled is where the scheduler will find it, unless the
\* ready queue was cut off before it.
FoundInv ==
  /\ \A c \in Coroutine : at[c] = "run" <=> curr = c
  /\ fault # "relinked" => \A c \in Coroutine : at[c] \in {"new", "yield"} => InReady(c)
  /\ \A c \in Coroutine : at[c] = "poll" => pfd[c] # Null
  /\ \A c \in Coroutine, f \in Fd : waiting[f] = c <=> at[c] = "poll" /\ pfd[c] = f

\* A coroutine is born outside the sleep tree and the ready queue, and stays out of the
\* tree until it first runs, unless one that ended was still in them.
BirthInv ==
  fault # "dangling" => \A c \in Coroutine :
    /\ at[c] \in {"free", "new"} => c \notin sleeping
    /\ at[c] = "free" => ~InReady(c)

\* What a status cannot hold at each place.
StatusInv ==
  \A c \in Coroutine :
    /\ at[c] = "new" => status[c] = {"NEW"}
    /\ at[c] \in {"run", "yield"} => status[c] \cap {"NEW", "FDEOF", "WAIT_READ"} = {}
    /\ at[c] = "poll" => status[c] \cap {"NEW", "FDEOF"} = {}
    /\ at[c] = "free" => "FDEOF" \notin status[c]

\* Nobody else holds a descriptor somebody waits on, and events are there only while
\* they are dispatched.
HeldInv ==
  /\ (interest \cup events) \cap Invalid = {}
  /\ \A f \in Fd \ Invalid : waiting[f] # Null => holder[f] = waiting[f]
  /\ EventHasWaiter
  /\ events = {} \/ phase = "events"

\* Only a coroutine that ends or is queued again while it is still pointed to, or a
\* descriptor that is not open, ends the process.
EndInv == fault \in {"none", "dangling", "relinked"} \/ (fault = "occupied" /\ Invalid # {})

SleepInv ==
  /\ TypeOK /\ QueuedOnce /\ FoundInv /\ BirthInv /\ StatusInv /\ HeldInv /\ EndInv
  /\ ArmedIffWaiting /\ StackIsolation /\ SleepKeysDistinct /\ ReturnsWhenAllEnded /\ PassInv

\* Nothing is anywhere at first.
LEMMA SleepInvInit == Init => SleepInv
<1> SUFFICES ASSUME Init PROVE SleepInv
  OBVIOUS
<1>1. TypeOK
  BY TypeInit
<1>2. FoundInv /\ BirthInv /\ StatusInv /\ StackIsolation /\ ReturnsWhenAllEnded
  BY SchedulerAssumption
     DEF Init, FoundInv, BirthInv, StatusInv, StackIsolation, ReturnsWhenAllEnded, InReady
<1>3. HeldInv /\ EndInv /\ ArmedIffWaiting /\ SleepKeysDistinct /\ PassInv /\ QueuedOnce
  BY DEF Init, HeldInv, EventHasWaiter, EndInv, ArmedIffWaiting, SleepKeysDistinct, PassInv,
     QueuedOnce
<1> QED
  BY <1>1, <1>2, <1>3 DEF SleepInv

-------------------------------------------------------------------------------
(* The loop *)

\* Taking the head of a queue takes nobody else out, though the head may be in it again.
LEMMA TailKeeps ==
  ASSUME NEW S, NEW s \in Seq(S), s # <<>>
  PROVE  /\ In(s, Head(s))
         /\ \A x : In(Tail(s), x) => In(s, x)
         /\ \A x : x # Head(s) /\ In(s, x) => In(Tail(s), x)
<1> DEFINE t == Tail(s)
<1>1. /\ DOMAIN s = 1 .. Len(s) /\ Len(s) \in Nat \ {0}
      /\ DOMAIN t = 1 .. Len(s) - 1
      /\ Head(s) = s[1]
      /\ \A i \in 1 .. Len(s) - 1 : t[i] = s[i + 1]
  OBVIOUS
<1> HIDE DEF t
<1>2. ASSUME NEW x, In(t, x) PROVE In(s, x)
  <2>1. PICK i \in 1 .. Len(s) - 1 : t[i] = x
    BY <1>1, <1>2 DEF In
  <2>2. s[i + 1] = x /\ i + 1 \in DOMAIN s
    BY <1>1, <2>1
  <2> QED
    BY <2>2 DEF In
<1>3. ASSUME NEW x, In(s, x), x # Head(s) PROVE In(t, x)
  <2>1. PICK i \in 1 .. Len(s) : s[i] = x
    BY <1>1, <1>3 DEF In
  <2>2. i - 1 \in 1 .. Len(s) - 1 /\ t[i - 1] = x
    BY <1>1, <1>3, <2>1
  <2> QED
    BY <1>1, <2>2 DEF In
<1>4. In(s, Head(s))
  BY <1>1 DEF In
<1> QED
  BY <1>2, <1>3, <1>4 DEF t

\* When every queue and tree is empty and nobody runs, every coroutine has ended.
LEMMA AllEnded ==
  ASSUME SleepInv, IsDone, curr = Null, fault = "none", NEW c \in Coroutine
  PROVE  at[c] = "free"
<1>1. at[c] # "run"
  BY SchedulerAssumption DEF SleepInv, FoundInv
<1>2. at[c] \notin {"new", "yield"}
  BY DEF SleepInv, FoundInv, InReady, IsDone
<1>3. at[c] # "poll"
  <2> SUFFICES ASSUME at[c] = "poll" PROVE FALSE
    OBVIOUS
  <2>1. pfd[c] \in Fd
    BY DEF SleepInv, FoundInv, TypeOK
  <2>2. waiting[pfd[c]] = c
    BY <2>1 DEF SleepInv, FoundInv
  <2> QED
    BY <2>1, <2>2, SchedulerAssumption DEF IsDone
<1> QED
  BY <1>1, <1>2, <1>3 DEF SleepInv, TypeOK, Places

\* The steps of the loop that resume nobody.
LEMMA LoopSleep ==
  ASSUME SleepInv, TypeOK',
         RunStart \/ LoopTest \/ EnterReady \/ ReadyDrained \/ EpollWait \/ EventsDone
  PROVE  SleepInv'
<1>1. UNCHANGED <<queueVars, frameVars, kernelVars, curr, fault>>
  BY DEF RunStart, LoopTest, EnterReady, ReadyDrained, EpollWait, EventsDone
<1>2. FoundInv' /\ BirthInv' /\ StatusInv' /\ EndInv' /\ ArmedIffWaiting' /\ StackIsolation'
      /\ SleepKeysDistinct' /\ QueuedOnce'
  BY <1>1 DEF SleepInv, QueuedOnce, FoundInv, BirthInv, StatusInv, EndInv, ArmedIffWaiting,
     StackIsolation, SleepKeysDistinct, InReady, queueVars, frameVars, kernelVars
<1>3. HeldInv'
  <2>1. \/ events' = events /\ events = {}
        \/ phase' = "events" /\ events' \subseteq interest
    BY DEF RunStart, LoopTest, EnterReady, ReadyDrained, EpollWait, EventsDone, Scheduling,
       SleepInv, HeldInv
  <2>2. \A f \in interest : waiting[f] # Null
    BY DEF SleepInv, ArmedIffWaiting, HeldInv, TypeOK
  <2> QED
    BY <1>1, <2>1, <2>2 DEF SleepInv, HeldInv, EventHasWaiter, queueVars, kernelVars
<1>4. ReturnsWhenAllEnded'
  <2>1. at' = at /\ (phase' = "returned" => IsDone /\ curr = Null /\ fault = "none")
    BY <1>1 DEF RunStart, LoopTest, EnterReady, ReadyDrained, EpollWait, EventsDone,
       Scheduling, frameVars
  <2> QED
    BY <2>1, AllEnded DEF ReturnsWhenAllEnded
<1>5. PassInv'
  <2>1. CASE EnterReady /\ ready # <<>>
    <3>1. last' = ready[Len(ready)] /\ ready' = ready
      BY <1>1, <2>1 DEF EnterReady, queueVars
    <3>2. In(ready, ready[Len(ready)])
      BY <2>1, LastIn DEF SleepInv, TypeOK
    <3> QED
      BY <3>1, <3>2 DEF PassInv, InReady, In
  <2>2. CASE EnterReady /\ ready = <<>>
    BY <1>1, <2>2 DEF EnterReady, Scheduling, PassInv, queueVars
  <2>3. CASE ~EnterReady
    BY <2>3 DEF RunStart, LoopTest, ReadyDrained, EpollWait, EventsDone, PassInv
  <2> QED
    BY <2>1, <2>2, <2>3
<1> QED
  BY <1>2, <1>3, <1>4, <1>5 DEF SleepInv

\* What a resumption does to the coroutine, wherever it was.
LEMMA ResumeDoes ==
  ASSUME SleepInv, NEW c \in Coroutine, NEW st \in [Coroutine -> SUBSET Bits],
         curr = Null, at[c] # "free", Resume(c, st), "NEW" \in st[c] <=> at[c] = "new",
         at[c] # "poll" => st = status
  PROVE  /\ curr' = c /\ shared' = c
         /\ at' = [at EXCEPT ![c] = "run"] /\ pfd' = [pfd EXCEPT ![c] = Null]
         /\ UNCHANGED <<fault, wake, saved, isReady, holder, now>>
         /\ CASE at[c] = "poll" ->
                   /\ pfd[c] \in Fd /\ waiting[pfd[c]] = c
                   /\ waiting' = [waiting EXCEPT ![pfd[c]] = Null]
                   /\ interest' = interest \ {pfd[c]}
                   /\ status' = [st EXCEPT ![c] = {}]
              [] OTHER ->
                   /\ UNCHANGED <<waiting, interest>>
                   /\ status' = [status EXCEPT ![c] = IF "NEW" \in @ THEN {"READY"} ELSE @]
<1>1. at[c] \in {"new", "poll", "yield"}
  BY SchedulerAssumption DEF SleepInv, TypeOK, Places, FoundInv
<1>2. shared' = c
  BY <1>1 DEF Resume, SleepInv, StackIsolation
<1>3. CASE at[c] = "poll"
  <2>1. pfd[c] \in Fd /\ waiting[pfd[c]] = c
    BY <1>3 DEF SleepInv, FoundInv, TypeOK
  <2>2. PollReturn(pfd[c], st)
    BY <1>3 DEF Resume
  <2> QED
    BY <1>2, <1>3, <2>1, <2>2, SchedulerAssumption DEF Resume, PollReturn
<1>4. CASE at[c] # "poll"
  BY <1>2, <1>4 DEF Resume
<1> QED
  BY <1>3, <1>4

\* A resumption, by whichever phase of the loop.
LEMMA ResumeSleep ==
  ASSUME SleepInv, TypeOK', NEW c \in Coroutine, NEW st \in [Coroutine -> SUBSET Bits],
         curr = Null, fault = "none", at[c] # "free", Resume(c, st),
         "NEW" \in st[c] <=> at[c] = "new",
         at[c] # "poll" => st = status,
         \A d \in Coroutine \ {c} : st[d] = status[d],
         \A d \in Coroutine : d # c /\ InReady(d) => InReady(d)',
         \A d \in Coroutine : InReady(d)' => InReady(d),
         sleeping' \subseteq sleeping,
         events' \subseteq events, at[c] = "poll" => pfd[c] \notin events',
         events' = {} \/ phase' = "events", phase' # "returned", PassInv', QueuedOnce'
  PROVE  SleepInv'
<1>1. /\ curr' = c /\ shared' = c
      /\ at' = [at EXCEPT ![c] = "run"] /\ pfd' = [pfd EXCEPT ![c] = Null]
      /\ UNCHANGED <<fault, wake, saved, isReady, holder, now>>
      /\ at[c] = "poll" =>
           /\ pfd[c] \in Fd /\ waiting[pfd[c]] = c
           /\ waiting' = [waiting EXCEPT ![pfd[c]] = Null]
           /\ interest' = interest \ {pfd[c]}
           /\ status' = [st EXCEPT ![c] = {}]
      /\ at[c] # "poll" =>
           /\ UNCHANGED <<waiting, interest>>
           /\ status' = [status EXCEPT ![c] = IF "NEW" \in @ THEN {"READY"} ELSE @]
  BY ResumeDoes
<1>2. TypeOK
  BY DEF SleepInv
<1>3. FoundInv'
  <2>1. \A x \in Coroutine : at'[x] = "run" <=> curr' = x
    BY <1>1, <1>2, SchedulerAssumption DEF SleepInv, TypeOK, FoundInv
  <2>2. \A x \in Coroutine : at'[x] \in {"new", "yield"} => InReady(x)'
    BY <1>1, <1>2 DEF SleepInv, TypeOK, FoundInv
  <2>3. \A x \in Coroutine : at'[x] = "poll" => pfd'[x] # Null
    BY <1>1, <1>2 DEF SleepInv, TypeOK, FoundInv
  <2>4. ASSUME NEW x \in Coroutine, NEW f \in Fd
        PROVE  waiting'[f] = x <=> at'[x] = "poll" /\ pfd'[x] = f
    <3>1. waiting[f] = x <=> at[x] = "poll" /\ pfd[x] = f
      BY DEF SleepInv, FoundInv
    <3>2. waiting[f] = c <=> at[c] = "poll" /\ pfd[c] = f
      BY DEF SleepInv, FoundInv
    <3>3. CASE x = c
      BY <1>1, <1>2, <3>2, <3>3, SchedulerAssumption DEF TypeOK
    <3>4. CASE x # c
      BY <1>1, <1>2, <3>1, <3>2, <3>4, SchedulerAssumption DEF TypeOK
    <3> QED
      BY <3>3, <3>4
  <2> QED
    BY <2>1, <2>2, <2>3, <2>4 DEF FoundInv
<1>4. BirthInv'
  BY <1>1, <1>2 DEF SleepInv, TypeOK, BirthInv
<1>5. StatusInv'
  <2>1. ASSUME NEW x \in Coroutine, x # c PROVE status'[x] = status[x] /\ at'[x] = at[x]
    BY <1>1, <1>2, <2>1 DEF TypeOK
  <2>2. at'[c] = "run" /\ status'[c] \cap {"NEW", "FDEOF", "WAIT_READ"} = {}
    <3>1. CASE at[c] = "poll"
      BY <1>1, <1>2, <3>1 DEF TypeOK
    <3>2. CASE at[c] # "poll"
      <4>1. at[c] \in {"new", "yield"}
        BY <1>2, <3>2, SchedulerAssumption DEF SleepInv, TypeOK, Places, FoundInv
      <4> QED
        BY <1>1, <1>2, <3>2, <4>1 DEF SleepInv, TypeOK, StatusInv
    <3> QED
      BY <3>1, <3>2
  <2> QED
    BY <2>1, <2>2 DEF SleepInv, StatusInv
<1>6. HeldInv' /\ ArmedIffWaiting'
  <2>1. CASE at[c] = "poll"
    <3>1. ASSUME NEW f \in Fd
          PROVE  waiting'[f] = IF f = pfd[c] THEN Null ELSE waiting[f]
      BY <1>1, <1>2, <2>1 DEF TypeOK
    <3>2. (interest' \cup events') \cap Invalid = {}
      BY <1>1, <2>1 DEF SleepInv, HeldInv
    <3>3. EventHasWaiter'
      BY <1>2, <2>1, <3>1 DEF SleepInv, TypeOK, HeldInv, EventHasWaiter
    <3>4. ArmedIffWaiting'
      BY <1>1, <2>1, <3>1 DEF SleepInv, ArmedIffWaiting
    <3>5. \A f \in Fd \ Invalid : waiting'[f] # Null => holder'[f] = waiting'[f]
      BY <1>1, <3>1 DEF SleepInv, HeldInv
    <3> QED
      BY <3>2, <3>3, <3>4, <3>5 DEF HeldInv
  <2>2. CASE at[c] # "poll"
    BY <1>1, <2>2 DEF SleepInv, HeldInv, EventHasWaiter, ArmedIffWaiting
  <2> QED
    BY <2>1, <2>2
<1>7. StackIsolation'
  BY <1>1, <1>2 DEF SleepInv, TypeOK, StackIsolation
<1>8. EndInv' /\ SleepKeysDistinct' /\ ReturnsWhenAllEnded'
  BY <1>1 DEF SleepInv, EndInv, SleepKeysDistinct, ReturnsWhenAllEnded
<1> QED
  BY <1>3, <1>4, <1>5, <1>6, <1>7, <1>8 DEF SleepInv

\* Of a coroutine that has not started the status is NEW, of any other it is not.
LEMMA NewStatus ==
  ASSUME SleepInv, NEW c \in Coroutine, at[c] # "free"
  PROVE  ("NEW" \in status[c] <=> at[c] = "new") /\ "FDEOF" \notin status[c]
<1>1. at[c] \in {"new", "run", "poll", "yield"}
  BY DEF SleepInv, TypeOK, Places
<1>2. CASE at[c] = "new"
  BY <1>2 DEF SleepInv, StatusInv
<1>3. CASE at[c] = "poll"
  BY <1>3 DEF SleepInv, StatusInv
<1>4. CASE at[c] \in {"run", "yield"}
  BY <1>4 DEF SleepInv, StatusInv
<1> QED
  BY <1>1, <1>2, <1>3, <1>4

\* A sleeper is resumed from wherever it is, even from nty_poll_inner.
LEMMA ExpiredSleep ==
  ASSUME SleepInv, TypeOK', NEW c \in Coroutine, ResumeExpired(c)
  PROVE  SleepInv'
<1>1. /\ fault = "none" /\ curr = Null /\ phase = "expired" /\ c \in sleeping
      /\ sleeping' \subseteq sleeping /\ Resume(c, status)
      /\ UNCHANGED <<phase, last, events, ready>>
  BY DEF ResumeExpired, Scheduling, Due, loopVars
<1>2. at[c] # "free" /\ events' = {} /\ status \in [Coroutine -> SUBSET Bits]
  BY <1>1 DEF SleepInv, BirthInv, HeldInv, TypeOK
<1>3. \A d \in Coroutine : InReady(d)' <=> InReady(d)
  BY <1>1 DEF InReady
<1>4. PassInv' /\ QueuedOnce'
  BY <1>1 DEF PassInv, SleepInv, QueuedOnce
<1>5. "NEW" \in status[c] <=> at[c] = "new"
  BY <1>2, NewStatus
<1> QED
  BY <1>1, <1>2, <1>3, <1>4, <1>5, ResumeSleep

\* The head of the ready queue, which may also wait or sleep.
LEMMA ReadySleep ==
  ASSUME SleepInv, TypeOK', ResumeReady
  PROVE  SleepInv'
<1> DEFINE c == Head(ready)
           t == Tail(ready)
<1>1. /\ fault = "none" /\ curr = Null /\ phase = "ready" /\ ready # <<>>
      /\ ready' = t /\ UNCHANGED <<last, events, sleeping>>
  BY DEF ResumeReady, Scheduling
<1>2. /\ c \in Coroutine /\ In(ready, c)
      /\ \A x : In(t, x) => In(ready, x)
      /\ \A x : x # c /\ In(ready, x) => In(t, x)
  <2>1. ready \in Seq(Coroutine)
    BY DEF SleepInv, TypeOK
  <2>2. c \in Coroutine
    BY <1>1, <2>1
  <2> QED
    BY <1>1, <2>1, <2>2, TailKeeps
<1>3. at[c] # "free"
  BY <1>1, <1>2 DEF SleepInv, BirthInv, InReady, In
<1>4. ("NEW" \in status[c] <=> at[c] = "new") /\ "FDEOF" \notin status[c]
  BY <1>2, <1>3, NewStatus
<1>5. Resume(c, status) /\ phase' = (IF c = last THEN "epoll" ELSE "ready")
  BY <1>4 DEF ResumeReady
<1>6. events' = {} /\ status \in [Coroutine -> SUBSET Bits]
  BY <1>1 DEF SleepInv, HeldInv, TypeOK
<1> HIDE DEF c, t
<1>7. /\ \A d \in Coroutine : d # c /\ InReady(d) => InReady(d)'
      /\ \A d \in Coroutine : InReady(d)' => InReady(d)
  BY <1>1, <1>2 DEF InReady, In
<1>8. PassInv'
  <2>1. InReady(last)
    BY <1>1 DEF SleepInv, PassInv
  <2>2. c # last => In(t, last)
    BY <1>2, <2>1 DEF InReady, In
  <2> QED
    BY <1>1, <1>5, <2>2 DEF PassInv, InReady, In
<1>9. QueuedOnce'
  <2>1. OnceEach(ready) /\ ready \in Seq(Coroutine)
    BY DEF SleepInv, TypeOK, QueuedOnce, OnceEach
  <2>2. OnceEach(Tail(ready))
    BY <1>1, <2>1, TailIn
  <2> QED
    BY <2>2, <1>1 DEF QueuedOnce, OnceEach, t
<1> QED
  BY <1>1, <1>2, <1>3, <1>4, <1>5, <1>6, <1>7, <1>8, <1>9, ResumeSleep

\* An event finds its waiter.
LEMMA DispatchSleep ==
  ASSUME SleepInv, TypeOK', NEW f \in Fd, NEW hup \in BOOLEAN, Dispatch(f, hup)
  PROVE  SleepInv'
<1> DEFINE w == waiting[f]
           st == SearchWait(f, hup)
<1>1. /\ fault = "none" /\ curr = Null /\ phase = "events" /\ f \in events
      /\ events' = events \ {f}
      /\ UNCHANGED <<phase, last, ready, sleeping>>
  BY DEF Dispatch, Scheduling
<1>2. w \in Coroutine /\ at[w] = "poll" /\ pfd[w] = f
  BY <1>1 DEF SleepInv, TypeOK, HeldInv, EventHasWaiter, FoundInv
<1>3. Resume(w, st)
  BY <1>2, SchedulerAssumption DEF Dispatch
<1>4. /\ st \in [Coroutine -> SUBSET Bits] /\ "NEW" \notin st[w]
      /\ \A d \in Coroutine \ {w} : st[d] = status[d]
  BY <1>2 DEF SearchWait, SleepInv, TypeOK, Bits
<1> HIDE DEF w, st
<1>5. \A d \in Coroutine : InReady(d)' <=> InReady(d)
  BY <1>1 DEF InReady
<1>6. PassInv' /\ QueuedOnce'
  BY <1>1 DEF PassInv, SleepInv, QueuedOnce
<1> QED
  BY <1>1, <1>2, <1>3, <1>4, <1>5, <1>6, ResumeSleep

-------------------------------------------------------------------------------
(* What programs call *)

\* While a coroutine runs the loop has not returned, and nobody waits as it.
LEMMA RunnerFacts ==
  ASSUME SleepInv, NEW c \in Coroutine, Running(c)
  PROVE  /\ curr = c /\ at[c] = "run" /\ shared = c /\ fault = "none"
         /\ status[c] \cap {"NEW", "FDEOF", "WAIT_READ"} = {} /\ phase # "returned"
         /\ \A f \in Fd \ Invalid : f \in Held(c) => waiting[f] = Null
<1>1. curr = c /\ fault = "none" /\ at[c] = "run"
  BY DEF Running, SleepInv, FoundInv
<1>2. shared = c /\ phase # "returned"
  BY <1>1, SchedulerAssumption DEF SleepInv, StackIsolation, ReturnsWhenAllEnded
<1>3. status[c] \cap {"NEW", "FDEOF", "WAIT_READ"} = {}
  BY <1>1 DEF SleepInv, StatusInv
<1>4. ASSUME NEW f \in Fd \ Invalid, f \in Held(c), waiting[f] # Null PROVE FALSE
  <2>1. waiting[f] = c
    BY <1>4 DEF Held, SleepInv, HeldInv
  <2> QED
    BY <1>1, <2>1 DEF SleepInv, FoundInv
<1> QED
  BY <1>1, <1>2, <1>3, <1>4

\* An insertion at the tail of the ready queue.
LEMMA EnqueueKeeps ==
  ASSUME SleepInv, NEW d \in Coroutine, ready' = Enqueue(d), UNCHANGED <<phase, last>>,
         curr # Null \/ phase # "ready", fault = "none", ~InReady(d)
  PROVE  /\ \A x : InReady(x)' <=> InReady(x) \/ x = d
         /\ PassInv' /\ QueuedOnce'
<1>1. \A x : In(ready', x) <=> In(ready, x) \/ x = d
  BY AppendIn DEF Enqueue, SleepInv, TypeOK
<1>2. \A x : InReady(x)' <=> InReady(x) \/ x = d
  BY <1>1 DEF InReady, In
<1>3. PassInv'
  <2>1. phase = "ready" => InReady(last)
    BY DEF SleepInv, PassInv
  <2>2. phase' = phase /\ last' = last
    OBVIOUS
  <2>3. InReady(last) => InReady(last)'
    BY <1>1, <2>2 DEF InReady, In
  <2> QED
    BY <2>1, <2>2, <2>3 DEF PassInv
<1>4. QueuedOnce'
  <2>1. OnceEach(ready) /\ ready \in Seq(Coroutine) /\ ~In(ready, d)
    BY DEF SleepInv, TypeOK, QueuedOnce, OnceEach, InReady, In
  <2>2. OnceEach(Append(ready, d))
    BY <2>1, AppendIn
  <2> QED
    BY <2>2 DEF QueuedOnce, OnceEach, Enqueue
<1> QED
  BY <1>2, <1>3, <1>4

\* nty_coroutine_create: the memory of a coroutine that ended is in no queue or tree.
LEMMA SpawnSleep ==
  ASSUME SleepInv, TypeOK', NEW c \in Coroutine \cup {Null}, NEW d \in Coroutine,
         NEW F \in SUBSET Fd, Spawn(c, d, F)
  PROVE  SleepInv'
<1>1. /\ curr = c /\ fault = "none" /\ at[d] = "free" /\ F \subseteq Held(c)
      /\ c = Null => phase = "main" /\ F = {}
      /\ ready' = Enqueue(d)
      /\ at' = [at EXCEPT ![d] = "new"]
      /\ status' = [status EXCEPT ![d] = {"NEW"}]
      /\ wake' = [wake EXCEPT ![d] = 0]
      /\ saved' = [saved EXCEPT ![d] = Null]
      /\ pfd' = [pfd EXCEPT ![d] = Null]
      /\ holder' = [f \in Fd |-> IF f \in F THEN d ELSE holder[f]]
      /\ UNCHANGED <<phase, last, events, waiting, sleeping, shared, interest,
                     isReady, curr, fault>>
  BY DEF Spawn, Running, loopVars
<1>2. TypeOK /\ d # curr /\ d \notin sleeping /\ ~InReady(d)
  BY <1>1 DEF SleepInv, FoundInv, BirthInv
<1>3. /\ \A x : InReady(x)' <=> InReady(x) \/ x = d
      /\ PassInv' /\ QueuedOnce'
  BY <1>1, <1>2, EnqueueKeeps
<1>4. FoundInv'
  <2>1. \A x \in Coroutine : at'[x] = "run" <=> curr' = x
    BY <1>1, <1>2 DEF SleepInv, TypeOK, FoundInv
  <2>2. \A x \in Coroutine : at'[x] \in {"new", "yield"} => InReady(x)'
    BY <1>1, <1>2, <1>3 DEF SleepInv, TypeOK, FoundInv
  <2>3. \A x \in Coroutine : at'[x] = "poll" => pfd'[x] # Null
    BY <1>1, <1>2 DEF SleepInv, TypeOK, FoundInv
  <2>4. \A x \in Coroutine, f \in Fd : waiting'[f] = x <=> at'[x] = "poll" /\ pfd'[x] = f
    BY <1>1, <1>2 DEF SleepInv, TypeOK, FoundInv
  <2> QED
    BY <2>1, <2>2, <2>3, <2>4 DEF FoundInv
<1>5. BirthInv'
  BY <1>1, <1>2, <1>3 DEF SleepInv, TypeOK, BirthInv
<1>6. StatusInv'
  BY <1>1, <1>2 DEF SleepInv, TypeOK, StatusInv
<1>7. ASSUME NEW f \in Fd \ Invalid, waiting[f] # Null PROVE holder'[f] = waiting[f]
  <2>1. holder[f] = waiting[f] /\ waiting[f] \in Coroutine /\ at[waiting[f]] = "poll"
    BY <1>7 DEF SleepInv, TypeOK, HeldInv, FoundInv
  <2>2. waiting[f] # c
    BY <1>1, <2>1 DEF SleepInv, FoundInv
  <2>3. f \notin F
    BY <1>1, <2>1, <2>2 DEF Held
  <2> QED
    BY <1>1, <2>1, <2>3
<1>8. HeldInv' /\ ArmedIffWaiting' /\ EndInv'
  BY <1>1, <1>7 DEF SleepInv, HeldInv, EventHasWaiter, ArmedIffWaiting, EndInv
<1>9. StackIsolation'
  BY <1>1, <1>2 DEF SleepInv, TypeOK, StackIsolation
<1>10. SleepKeysDistinct'
  BY <1>1, <1>2 DEF SleepInv, TypeOK, SleepKeysDistinct
<1>11. ReturnsWhenAllEnded'
  <2>1. phase # "returned"
    BY <1>1, SchedulerAssumption DEF SleepInv, FoundInv, ReturnsWhenAllEnded
  <2> QED
    BY <1>1, <2>1 DEF ReturnsWhenAllEnded
<1> QED
  BY <1>3, <1>4, <1>5, <1>6, <1>8, <1>9, <1>10, <1>11 DEF SleepInv

\* Waiting for a descriptor; the alarm of one that sleeps as well stays set.
LEMMA PollSleep ==
  ASSUME SleepInv, TypeOK', NEW c \in Coroutine, NEW f \in Fd, NEW mode \in {"in", "out"},
         Poll(c, f, mode)
  PROVE  SleepInv'
<1>1. /\ curr = c /\ at[c] = "run" /\ shared = c /\ fault = "none"
      /\ status[c] \cap {"NEW", "FDEOF", "WAIT_READ"} = {} /\ phase # "returned"
      /\ \A g \in Fd \ Invalid : g \in Held(c) => waiting[g] = Null
  BY RunnerFacts DEF Poll
<1>2. /\ f \in Held(c) \cup Invalid
      /\ interest' = IF f \in Invalid THEN interest ELSE interest \cup {f}
      /\ UNCHANGED <<phase, last, events, ready, sleeping, wake, isReady, holder, now>>
  BY DEF Poll, loopVars
<1>3. TypeOK /\ "WAIT_READ" \notin status[c]
  BY <1>1 DEF SleepInv
<1>4. CASE waiting[f] # Null
  <2>1. f \in Invalid
    BY <1>1, <1>2, <1>4
  <2>2. /\ fault' = "occupied"
        /\ UNCHANGED <<curr, waiting, at, pfd, status, saved, shared, interest>>
    BY <1>2, <1>3, <1>4, <2>1 DEF Poll
  <2> QED
    BY <1>1, <1>2, <2>1, <2>2
       DEF SleepInv, FoundInv, BirthInv, StatusInv, HeldInv, EventHasWaiter, EndInv,
           ArmedIffWaiting, StackIsolation, SleepKeysDistinct, ReturnsWhenAllEnded, PassInv,
           QueuedOnce, InReady
<1>5. CASE waiting[f] = Null
  <2>1. /\ status' = [status EXCEPT ![c] = @ \cup WaitBit(mode)]
        /\ waiting' = [waiting EXCEPT ![f] = c]
        /\ pfd' = [pfd EXCEPT ![c] = f]
        /\ saved' = [saved EXCEPT ![c] = shared]
        /\ at' = [at EXCEPT ![c] = "poll"]
        /\ curr' = Null /\ shared' = shared /\ fault' = fault
    BY <1>3, <1>5 DEF Poll, Yield
  <2>2. FoundInv'
    <3>1. \A x \in Coroutine : at'[x] = "run" <=> curr' = x
      BY <1>1, <1>3, <2>1, SchedulerAssumption DEF SleepInv, TypeOK, FoundInv
    <3>2. \A x \in Coroutine : at'[x] \in {"new", "yield"} => InReady(x)'
      BY <1>1, <1>2, <1>3, <2>1 DEF SleepInv, TypeOK, FoundInv, InReady
    <3>3. \A x \in Coroutine : at'[x] = "poll" => pfd'[x] # Null
      BY <1>3, <2>1, SchedulerAssumption DEF SleepInv, TypeOK, FoundInv
    <3>4. ASSUME NEW x \in Coroutine, NEW g \in Fd
          PROVE  waiting'[g] = x <=> at'[x] = "poll" /\ pfd'[x] = g
      BY <1>1, <1>3, <1>5, <2>1, SchedulerAssumption DEF SleepInv, TypeOK, FoundInv
    <3> QED
      BY <3>1, <3>2, <3>3, <3>4 DEF FoundInv
  <2>3. BirthInv'
    BY <1>2, <1>3, <2>1 DEF SleepInv, TypeOK, BirthInv, InReady
  <2>4. StatusInv'
    <3>1. "NEW" \notin status'[c] /\ "FDEOF" \notin status'[c] /\ at'[c] = "poll"
      BY <1>1, <1>3, <2>1 DEF TypeOK, WaitBit
    <3>2. \A x \in Coroutine : x # c => status'[x] = status[x] /\ at'[x] = at[x]
      BY <1>3, <2>1 DEF TypeOK
    <3> QED
      BY <3>1, <3>2 DEF SleepInv, StatusInv
  <2>5. ArmedIffWaiting'
    BY <1>2, <1>3, <1>5, <2>1, SchedulerAssumption DEF SleepInv, TypeOK, ArmedIffWaiting
  <2>6. HeldInv'
    BY <1>2, <1>3, <1>5, <2>1, SchedulerAssumption
       DEF SleepInv, TypeOK, HeldInv, EventHasWaiter, Held
  <2>7. StackIsolation'
    BY <1>1, <1>3, <2>1, SchedulerAssumption DEF SleepInv, TypeOK, StackIsolation
  <2>8. EndInv' /\ SleepKeysDistinct' /\ ReturnsWhenAllEnded'
    BY <1>1, <1>2, <2>1 DEF SleepInv, EndInv, SleepKeysDistinct, ReturnsWhenAllEnded
  <2>9. PassInv' /\ QueuedOnce'
    BY <1>1, <1>2, <2>1, SchedulerAssumption DEF SleepInv, PassInv, QueuedOnce, InReady
  <2> QED
    BY <2>2, <2>3, <2>4, <2>5, <2>6, <2>7, <2>8, <2>9 DEF SleepInv
<1> QED
  BY <1>4, <1>5

\* nty_coroutine_sleep(0): an alarm may have resumed the coroutine while it was queued;
\* the queue is then cut off behind it, and the process at its end.
LEMMA SleepZeroSleep ==
  ASSUME SleepInv, TypeOK', NEW c \in Coroutine, SleepZero(c)
  PROVE  SleepInv'
<1>1. /\ curr = c /\ at[c] = "run" /\ shared = c /\ fault = "none"
      /\ status[c] \cap {"NEW", "FDEOF", "WAIT_READ"} = {} /\ phase # "returned"
  BY RunnerFacts DEF SleepZero
<1>2. /\ saved' = [saved EXCEPT ![c] = shared]
      /\ at' = [at EXCEPT ![c] = "yield"]
      /\ curr' = Null
      /\ UNCHANGED <<phase, last, events, waiting, sleeping, pfd, status, wake, shared,
                     interest, isReady, holder>>
  BY DEF SleepZero, Yield, loopVars, kernelVars
<1>3. TypeOK
  BY DEF SleepInv
<1>4. /\ \A x : InReady(x)' => InReady(x) \/ x = c
      /\ fault' # "relinked" => \A x : InReady(x) \/ x = c => InReady(x)'
      /\ PassInv' /\ QueuedOnce' /\ fault' \in {"none", "relinked"}
  <2>1. CASE InReady(c)
    <3>1. PICK i \in DOMAIN ready : ready' = SubSeq(ready, 1, i)
      BY <2>1 DEF SleepZero, Relink
    <3>2. /\ DOMAIN ready' = 1 .. i /\ i \in 1 .. Len(ready) /\ Len(ready) \in Nat
          /\ \A j \in 1 .. i : ready'[j] = ready[j]
          /\ DOMAIN ready = 1 .. Len(ready)
      BY <1>3, <3>1, Cut DEF TypeOK
    <3>3. fault' = "relinked"
      BY <2>1 DEF SleepZero, Relink
    <3> QED
      BY <3>2, <3>3 DEF InReady, PassInv, SleepInv, QueuedOnce
  <2>2. CASE ~InReady(c)
    <3>1. ready' = Enqueue(c) /\ fault' = fault
      BY <2>2 DEF SleepZero
    <3> QED
      BY <1>1, <1>2, <2>2, <3>1, EnqueueKeeps, SchedulerAssumption
  <2> QED
    BY <2>1, <2>2
<1>5. FoundInv'
  <2>1. \A x \in Coroutine : at'[x] = "run" <=> curr' = x
    BY <1>1, <1>2, <1>3, SchedulerAssumption DEF SleepInv, TypeOK, FoundInv
  <2>2. fault' # "relinked" => \A x \in Coroutine : at'[x] \in {"new", "yield"} => InReady(x)'
    BY <1>1, <1>2, <1>3, <1>4 DEF SleepInv, TypeOK, FoundInv
  <2>3. \A x \in Coroutine : at'[x] = "poll" => pfd'[x] # Null
    BY <1>2, <1>3 DEF SleepInv, TypeOK, FoundInv
  <2>4. \A x \in Coroutine, f \in Fd : waiting'[f] = x <=> at'[x] = "poll" /\ pfd'[x] = f
    BY <1>1, <1>2, <1>3 DEF SleepInv, TypeOK, FoundInv
  <2> QED
    BY <2>1, <2>2, <2>3, <2>4 DEF FoundInv
<1>6. BirthInv'
  BY <1>1, <1>2, <1>3, <1>4 DEF SleepInv, TypeOK, BirthInv
<1>7. StatusInv'
  BY <1>1, <1>2, <1>3 DEF SleepInv, TypeOK, StatusInv
<1>8. StackIsolation'
  BY <1>1, <1>2, <1>3, SchedulerAssumption DEF SleepInv, TypeOK, StackIsolation
<1>9. HeldInv' /\ EndInv' /\ ArmedIffWaiting' /\ SleepKeysDistinct' /\ ReturnsWhenAllEnded'
  BY <1>1, <1>2, <1>4 DEF SleepInv, HeldInv, EventHasWaiter, EndInv, ArmedIffWaiting,
     SleepKeysDistinct, ReturnsWhenAllEnded
<1> QED
  BY <1>4, <1>5, <1>6, <1>7, <1>8, <1>9 DEF SleepInv

\* nty_coroutine_sleep: the key is one that no other sleeper has, and whoever had the
\* old one leaves the tree.
LEMMA SleepForSleep ==
  ASSUME SleepInv, TypeOK', NEW c \in Coroutine, NEW ms \in SleepArgs, SleepFor(c, ms)
  PROVE  SleepInv'
<1>1. curr = c /\ at[c] = "run" /\ fault = "none"
      /\ status[c] \cap {"NEW", "FDEOF", "WAIT_READ"} = {}
  BY RunnerFacts DEF SleepFor
<1>2. PICK k : ~Taken(c, k) /\ wake' = [wake EXCEPT ![c] = k]
  BY DEF SleepFor
<1>3. /\ sleeping' = OthersAsleep(c) \cup {c}
      /\ status' = [status EXCEPT ![c] = @ \cup {"SLEEPING"}]
      /\ UNCHANGED <<phase, last, events, ready, waiting, at, pfd, saved, shared,
                     interest, holder, curr, fault>>
  BY DEF SleepFor, loopVars, kernelVars
<1>4. SleepKeysDistinct'
  <2>1. ASSUME NEW d \in OthersAsleep(c) PROVE d # c /\ wake'[d] = wake[d] /\ wake[d] # k
    BY <1>2, <2>1 DEF OthersAsleep, Taken, SleepInv, TypeOK
  <2>2. wake'[c] = k
    BY <1>2 DEF SleepInv, TypeOK
  <2>3. \A d, e \in OthersAsleep(c) : wake[d] = wake[e] => d = e
    BY DEF OthersAsleep, SleepInv, SleepKeysDistinct
  <2> QED
    BY <1>3, <2>1, <2>2, <2>3 DEF SleepKeysDistinct
<1>5. BirthInv'
  BY <1>1, <1>3 DEF SleepInv, BirthInv, OthersAsleep, InReady
<1>6. StatusInv'
  BY <1>1, <1>3 DEF SleepInv, TypeOK, StatusInv
<1>7. FoundInv' /\ HeldInv' /\ EndInv' /\ ArmedIffWaiting' /\ StackIsolation'
      /\ ReturnsWhenAllEnded' /\ PassInv' /\ QueuedOnce'
  BY <1>3 DEF SleepInv, QueuedOnce, FoundInv, HeldInv, EventHasWaiter, EndInv,
     ArmedIffWaiting, StackIsolation, ReturnsWhenAllEnded, PassInv, InReady
<1> QED
  BY <1>4, <1>5, <1>6, <1>7 DEF SleepInv

\* The end of a coroutine; one that is still in a queue or tree ends the process.
LEMMA ExitSleep ==
  ASSUME SleepInv, TypeOK', NEW c \in Coroutine, Exit(c)
  PROVE  SleepInv'
<1>1. curr = c /\ at[c] = "run" /\ fault = "none" /\ phase # "returned"
  BY RunnerFacts DEF Exit
<1>2. /\ at' = [at EXCEPT ![c] = "free"]
      /\ status' = [status EXCEPT ![c] = {}]
      /\ saved' = [saved EXCEPT ![c] = Null]
      /\ curr' = Null
      /\ fault' = IF InReady(c) \/ c \in sleeping THEN "dangling" ELSE fault
      /\ UNCHANGED <<phase, last, events, ready, waiting, sleeping, pfd, wake, shared,
                     interest, isReady, holder>>
  BY DEF Exit, loopVars, queueVars, kernelVars
<1>3. TypeOK /\ \A x : InReady(x)' <=> InReady(x)
  BY <1>2 DEF SleepInv, InReady
<1>4. FoundInv'
  <2>1. \A x \in Coroutine : at'[x] = "run" <=> curr' = x
    BY <1>1, <1>2, <1>3, SchedulerAssumption DEF SleepInv, TypeOK, FoundInv
  <2>2. \A x \in Coroutine : at'[x] \in {"new", "yield"} => InReady(x)'
    BY <1>1, <1>2, <1>3 DEF SleepInv, TypeOK, FoundInv
  <2>3. \A x \in Coroutine : at'[x] = "poll" => pfd'[x] # Null
    BY <1>2, <1>3 DEF SleepInv, TypeOK, FoundInv
  <2>4. \A x \in Coroutine, f \in Fd : waiting'[f] = x <=> at'[x] = "poll" /\ pfd'[x] = f
    BY <1>1, <1>2, <1>3 DEF SleepInv, TypeOK, FoundInv
  <2> QED
    BY <2>1, <2>2, <2>3, <2>4 DEF FoundInv
<1>5. BirthInv' /\ EndInv'
  BY <1>1, <1>2, <1>3 DEF SleepInv, TypeOK, BirthInv, EndInv
<1>6. StatusInv'
  BY <1>2, <1>3 DEF SleepInv, TypeOK, StatusInv
<1>7. StackIsolation'
  BY <1>2, <1>3 DEF SleepInv, TypeOK, StackIsolation
<1>8. HeldInv' /\ ArmedIffWaiting' /\ SleepKeysDistinct' /\ ReturnsWhenAllEnded'
  BY <1>1, <1>2 DEF SleepInv, HeldInv, EventHasWaiter, ArmedIffWaiting, SleepKeysDistinct,
     ReturnsWhenAllEnded
<1>9. PassInv' /\ QueuedOnce'
  BY <1>1, <1>2, <1>3, SchedulerAssumption DEF SleepInv, PassInv, QueuedOnce, InReady
<1> QED
  BY <1>4, <1>5, <1>6, <1>7, <1>8, <1>9 DEF SleepInv

\* Descriptors and the kernel: only what nobody waits on is closed or opened.
LEMMA DescriptorSleep ==
  ASSUME SleepInv, TypeOK', UNCHANGED <<loopVars, queueVars, frameVars, curr, fault>>,
         \A f \in Fd \ Invalid : waiting[f] # Null =>
           holder'[f] = holder[f] /\ (f \in interest' <=> f \in interest),
         interest' \subseteq interest
  PROVE  SleepInv'
<1>1. FoundInv' /\ BirthInv' /\ StatusInv' /\ EndInv' /\ StackIsolation'
      /\ SleepKeysDistinct' /\ ReturnsWhenAllEnded' /\ PassInv' /\ QueuedOnce'
  BY DEF SleepInv, QueuedOnce, FoundInv, BirthInv, StatusInv, EndInv, StackIsolation, SleepKeysDistinct,
     ReturnsWhenAllEnded, PassInv, InReady, loopVars, queueVars, frameVars
<1>2. ArmedIffWaiting'
  BY DEF SleepInv, ArmedIffWaiting, queueVars
<1>3. HeldInv'
  BY DEF SleepInv, HeldInv, EventHasWaiter, queueVars, loopVars
<1> QED
  BY <1>1, <1>2, <1>3 DEF SleepInv

\* Every step keeps the invariant, whatever the programs' sleeps.
LEMMA SleepInvNext == SleepInv /\ [Next]_vars => SleepInv'
<1> SUFFICES ASSUME SleepInv, [Next]_vars PROVE SleepInv'
  OBVIOUS
<1>1. TypeOK'
  BY TypeNext DEF SleepInv
<1>2. CASE Scheduler
  BY <1>1, <1>2, LoopSleep, ExpiredSleep, ReadySleep, DispatchSleep DEF Scheduler
<1>3. ASSUME NEW c \in Coroutine \cup {Null}, NEW d \in Coroutine, NEW F \in SUBSET Fd,
             Spawn(c, d, F)
      PROVE  SleepInv'
  BY <1>1, <1>3, SpawnSleep
<1>4. ASSUME NEW c \in Coroutine, Yields(c) PROVE SleepInv'
  BY <1>1, <1>4, PollSleep, SleepZeroSleep, ExitSleep DEF Yields
<1>5. ASSUME NEW c \in Coroutine, NEW ms \in SleepArgs, SleepFor(c, ms) PROVE SleepInv'
  BY <1>1, <1>5, SleepForSleep
<1>6. ASSUME NEW c \in Coroutine, NEW f \in Fd, Open(c, f) \/ Close(c, f) \/ Drain(c, f)
      PROVE  SleepInv'
  <2>1. CASE Open(c, f)
    <3>1. /\ UNCHANGED <<loopVars, queueVars, frameVars, interest, curr, fault>>
          /\ holder[f] = Null /\ holder' = [holder EXCEPT ![f] = c]
      BY <2>1 DEF Open
    <3>2. \A g \in Fd \ Invalid : waiting[g] # Null => g # f
      BY <3>1 DEF SleepInv, HeldInv
    <3> QED
      BY <1>1, <3>1, <3>2, DescriptorSleep DEF SleepInv, TypeOK
  <2>2. CASE Close(c, f)
    <3>1. \A g \in Fd \ Invalid : waiting[g] # Null => g # f
      BY <2>2, RunnerFacts DEF Close
    <3> QED
      BY <1>1, <2>2, <3>1, DescriptorSleep DEF Close, SleepInv, TypeOK
  <2>3. CASE Drain(c, f)
    BY <1>1, <2>3, DescriptorSleep DEF Drain
  <2> QED
    BY <1>6, <2>1, <2>2, <2>3
<1>7. CASE Kernel
  BY <1>1, <1>7, DescriptorSleep DEF Kernel, Tick, Arrive
<1>8. CASE UNCHANGED vars \/ Stopped
  <2>1. UNCHANGED vars
    BY <1>8 DEF Stopped
  <2> QED
    BY <1>1, <2>1, DescriptorSleep DEF vars, kernelVars
<1> QED
  BY <1>2, <1>3, <1>4, <1>5, <1>6, <1>7, <1>8 DEF Next, Program

\* The invariant holds of every program.
THEOREM SleepInvHolds == Spec => []SleepInv
BY SleepInvInit, SleepInvNext, PTL DEF Spec

-------------------------------------------------------------------------------
(* What follows for every program *)

\* No wakeup is lost: a coroutine that lives and does not run is in a queue or tree that
\* will resume it, in whatever order sleeps, waits and the scheduler's phases come, until
\* a coroutine links itself anew into the ready queue that still holds it.
THEOREM NobodyLost == Spec => []NoLostCoroutine
<1>1. ASSUME SleepInv, NEW c \in Coroutine, at[c] = "poll"
      PROVE  \E f \in Fd : waiting[f] = c
  <2>1. pfd[c] \in Fd
    BY <1>1 DEF SleepInv, FoundInv, TypeOK
  <2> QED
    BY <1>1, <2>1 DEF SleepInv, FoundInv
<1>2. SleepInv => NoLostCoroutine
  BY <1>1 DEF SleepInv, TypeOK, Places, FoundInv, NoLostCoroutine
<1> QED
  BY <1>2, SleepInvHolds, PTL

\* epoll and the wait tree agree, also when an alarm takes a coroutine out of its wait;
\* so every event finds its waiter.
THEOREM ArmedWhateverSleeps == Spec => [](ArmedIffWaiting /\ EventHasWaiter)
<1>1. SleepInv => ArmedIffWaiting /\ EventHasWaiter
  BY DEF SleepInv, HeldInv
<1> QED
  BY <1>1, SleepInvHolds, PTL

\* No two sleepers have the same key, however many fall asleep in one tick.
THEOREM SleepersApart == Spec => []SleepKeysDistinct
<1>1. SleepInv => SleepKeysDistinct
  BY DEF SleepInv
<1> QED
  BY <1>1, SleepInvHolds, PTL

\* The assertions of nty_schedule_sched_wait hold of every program that waits on open
\* descriptors, whatever its sleeps.
THEOREM WaitsAreSound == ASSUME Invalid = {} PROVE Spec => []WaitAssertionsHold
<1>1. SleepInv => WaitAssertionsHold
  BY DEF SleepInv, EndInv, WaitAssertionsHold
<1> QED
  BY <1>1, SleepInvHolds, PTL

\* Every coroutine that runs has its own frames on the shared stack, every program's
\* nty_schedule_run returns only when nobody is left, its passes over the ready queue
\* end unless that queue was cut off, and its hang-up branch is never taken.  The queue
\* never holds anybody twice: the TAILQ that implements it may be taken for a sequence.
THEOREM LoopIsSoundAsleep ==
  Spec => [](StackIsolation /\ ReturnsWhenAllEnded /\ PassEnds /\ NoHangupInReady
             /\ QueuedOnce)
<1>1. SleepInv => StackIsolation /\ ReturnsWhenAllEnded /\ PassEnds /\ QueuedOnce
  BY DEF SleepInv, PassInv, PassEnds
<1>2. ASSUME SleepInv, NEW c \in Coroutine PROVE "FDEOF" \notin status[c]
  <2>1. at[c] \in Places
    BY <1>2 DEF SleepInv, TypeOK
  <2> QED
    BY <1>2, <2>1 DEF SleepInv, StatusInv, Places
<1>3. SleepInv => NoHangupInReady
  BY <1>2 DEF NoHangupInReady, SleepInv, TypeOK
<1> QED
  BY <1>1, <1>3, SleepInvHolds, PTL

-------------------------------------------------------------------------------
(* The server is one of the scheduler's programs *)

\* A step of the program is a step of the scheduler module, or none.
LEMMA ListenerMaps ==
  ASSUME NEW c \in Coroutine, Start(c) \/ Listener(c)
  PROVE  [Next]_vars
<1>1. CASE Start(c)
  BY <1>1 DEF Start, Next, Program
<1>2. CASE Listen(c)
  BY <1>2, ServerAssumption DEF Listen, Next, Program
<1>3. CASE AcceptWait(c)
  BY <1>3, ServerAssumption DEF AcceptWait, Next, Program, Yields
<1>4. CASE AcceptAgain(c)
  BY <1>4, ServerAssumption DEF AcceptAgain, Next, Program
<1>5. CASE AcceptFails(c) \/ ListenFails(c)
  BY <1>5 DEF AcceptFails, ListenFails
<1>6. ASSUME NEW f \in Fd, AcceptOne(c, f) PROVE [Next]_vars
  BY <1>6 DEF AcceptOne, Next, Program
<1>7. ASSUME NEW d \in Coroutine, HandOver(c, d) PROVE [Next]_vars
  <2>1. Spawn(c, d, {fd[c]} \ {Failed})
    BY <1>7 DEF HandOver
  <2>2. {fd[c]} \ {Failed} \in SUBSET Fd
    BY <2>1 DEF Spawn, Held
  <2>3. QED BY <2>1, <2>2 DEF Next, Program
<1>8. QED BY <1>1, <1>2, <1>3, <1>4, <1>5, <1>6, <1>7 DEF Listener

\* The descriptor of a poll or close is one the module knows, by its guard.
LEMMA HandlerMaps ==
  ASSUME NEW c \in Coroutine, Handler(c)
  PROVE  [Next]_vars
<1>1. ASSUME NEW mode \in {"in", "out"}, Poll(c, fd[c], mode) PROVE Next
  <2>1. fd[c] \in Fd
    BY <1>1, SchedulerAssumption DEF Poll, Held
  <2>2. QED BY <1>1, <2>1 DEF Next, Program, Yields
<1>2. ASSUME Drain(c, fd[c]) \/ Close(c, fd[c]) PROVE Next
  <2>1. fd[c] \in Fd
    BY <1>2 DEF Drain, Close, Held
  <2>2. QED BY <1>2, <2>1 DEF Next, Program
<1>3. CASE RecvWait(c, "header", "header_in") \/ RecvWait(c, "body", "body_in")
  BY <1>1, <1>3 DEF RecvWait
<1>4. ASSUME NEW place, NEW next, Read(c, place, next) PROVE [Next]_vars
  BY <1>2, <1>4 DEF Read
<1>5. CASE ReplyWait(c) \/ ReplySent(c)
  BY <1>1, <1>5 DEF ReplyWait, ReplySent
<1>6. CASE CloseFd(c)
  BY <1>2, <1>6 DEF CloseFd
<1>7. CASE Return(c)
  BY <1>7 DEF Return, Next, Program, Yields
<1>8. QED BY <1>3, <1>4, <1>5, <1>6, <1>7 DEF Handler

\* Every step maps to a step or a stutter.
LEMMA ServerMaps == [ServerNext]_allVars => [Next]_vars
<1> SUFFICES ASSUME [ServerNext]_allVars PROVE [Next]_vars
  OBVIOUS
<1>1. CASE Scheduler \/ Stopped
  BY <1>1 DEF Next
<1>2. ASSUME NEW c \in Coroutine, Start(c) \/ Listener(c) \/ Handler(c) PROVE [Next]_vars
  BY <1>2, ListenerMaps, HandlerMaps
<1>3. CASE Connect
  BY <1>3, ServerAssumption DEF Connect, Next, Kernel
<1>4. ASSUME NEW f \in Conn, Traffic(f) PROVE [Next]_vars
  BY <1>4 DEF Traffic, Conn, Next, Kernel
<1>5. CASE UNCHANGED allVars
  BY <1>5 DEF allVars
<1>6. QED BY <1>1, <1>2, <1>3, <1>4, <1>5 DEF ServerNext

\* The server of rpc_server.c implements the scheduler's specification: it is one
\* of the programs NtyScheduler speaks of.
THEOREM ServerImplementsScheduler == ServerSpec => Spec
<1>1. ServerInit => Init
  BY DEF ServerInit
<1>2. QED BY <1>1, ServerMaps, PTL DEF ServerSpec, Spec

\* The server never calls nty_coroutine_sleep.
LEMMA ServerNoSleep == NoSleep
BY ServerAssumption DEF NoSleep

\* So the scheduler's invariant holds of the server, also when accept fails.
THEOREM ServerSchedulerInv == ServerSpec => []Inv
BY ServerNoSleep, ServerImplementsScheduler, InvHolds, PTL

-------------------------------------------------------------------------------
(* Every connection has its own handler *)

\* Before main creates the listener nobody owns anything.
LEMMA ServerInvInit == ServerInit => ServerInv
BY SchedulerAssumption, ServerAssumption
   DEF ServerInit, Init, ServerInv, ListenerPlaces, Listening, HandlerPlaces, Owns

\* A step that leaves the program and the descriptors alone, and frees nobody.
LEMMA SameOwners ==
  ASSUME ServerInv, UNCHANGED <<pc, fd, holder>>,
         \A c \in Coroutine : at'[c] = "free" <=> at[c] = "free"
  PROVE  ServerInv'
BY DEF ServerInv

\* Resuming neither frees a coroutine nor gives a freed one life.
LEMMA ResumeFrees ==
  ASSUME Inv, NEW c \in Coroutine, NEW st, at[c] # "free", Resume(c, st)
  PROVE  /\ holder' = holder
         /\ \A d \in Coroutine : at'[d] = "free" <=> at[d] = "free"
BY DEF Resume, Inv, TypeOK, Places

\* The scheduler's own steps: only the hang-up branch of the ready loop would
\* free a coroutine that has not ended, and it is never taken.
LEMMA SchedulerOwners ==
  ASSUME Inv, ServerInv, Scheduler, UNCHANGED serverVars
  PROVE  ServerInv'
<1>1. CASE RunStart \/ LoopTest \/ EnterReady \/ ReadyDrained \/ EpollWait \/ EventsDone
  <2>1. UNCHANGED <<at, holder>>
    BY <1>1 DEF RunStart, LoopTest, EnterReady, ReadyDrained, EpollWait, EventsDone,
                frameVars, kernelVars
  <2>2. QED BY <2>1, SameOwners DEF serverVars
<1>2. ASSUME NEW c \in Coroutine PROVE ~ResumeExpired(c)
  BY DEF ResumeExpired, Due, Inv
<1>3. CASE ResumeReady
  <2> DEFINE c == Head(ready)
  <2>1. c \in Coroutine /\ at[c] \in {"new", "yield"}
    <3>1. ready # <<>> /\ ready \in Seq(Coroutine)
      BY <1>3 DEF ResumeReady, Inv, TypeOK
    <3>2. c \in Coroutine /\ In(ready, c)
      BY <3>1 DEF In
    <3>3. QED BY <3>2, QueueFacts
  <2>2. "FDEOF" \notin status[c]
    BY <2>1 DEF Inv, FrameInv
  <2>3. Resume(c, status)
    BY <1>3, <2>2 DEF ResumeReady
  <2>4. QED BY <2>1, <2>3, ResumeFrees, SameOwners DEF serverVars
<1>4. ASSUME NEW f \in Fd, NEW hup \in BOOLEAN, Dispatch(f, hup) PROVE ServerInv'
  <2>1. CASE waiting[f] = Null
    BY <1>4, <2>1, SameOwners DEF Dispatch, frameVars, kernelVars, serverVars
  <2>2. CASE waiting[f] # Null
    <3>1. waiting[f] \in Coroutine /\ at[waiting[f]] = "poll"
      BY <2>2 DEF Inv, TypeOK, OnePlace
    <3>2. Resume(waiting[f], SearchWait(f, hup))
      BY <1>4, <2>2 DEF Dispatch
    <3>3. QED BY <3>1, <3>2, ResumeFrees, SameOwners DEF serverVars
  <2>3. QED BY <2>1, <2>2
<1>5. QED BY <1>1, <1>2, <1>3, <1>4 DEF Scheduler

\* A coroutine at a place of the program runs.
LEMMA AtRuns ==
  ASSUME Inv, NEW c \in Coroutine, NEW place, At(c, place)
  PROVE  Running(c) /\ at[c] = "run" /\ pc[c] = place
BY RunningFacts DEF At

\* Waiting for a descriptor, on the way from one place to another that owns as
\* much.
LEMMA PollOwners ==
  ASSUME Inv, ServerInv, NEW c \in Coroutine, NEW f \in Fd, NEW mode, Poll(c, f, mode)
  PROVE  /\ holder' = holder
         /\ \A d \in Coroutine : at'[d] = "free" <=> at[d] = "free"
<1>1. at[c] = "run"
  BY RunningFacts DEF Poll
<1>2. holder' = holder
  BY DEF Poll
<1>3. at' = at \/ at' = [at EXCEPT ![c] = "poll"]
  BY DEF Poll, Yield
<1>4. QED BY <1>1, <1>2, <1>3 DEF Inv, TypeOK

\* Going on to a place of the same kind keeps what is owned.
LEMMA GoOwners ==
  ASSUME Inv, ServerInv, NEW c \in Coroutine, NEW place, Go(c, place),
         UNCHANGED <<fd, holder>>, pc[c] # "none",
         \A d \in Coroutine : at'[d] = "free" <=> at[d] = "free",
         \/ pc[c] \in Listening \ {"hand_over"} /\ place \in Listening \ {"hand_over"}
         \/ pc[c] \in HandlerPlaces \ {"end"} /\ place \in HandlerPlaces \ {"end"}
  PROVE  ServerInv'
<1>1. /\ place # "none"
      /\ pc[c] \in Owns <=> place \in Owns
      /\ pc[c] \in Listening => place \in Listening
      /\ place \in ListenerPlaces \cup HandlerPlaces
  BY DEF ListenerPlaces, Listening, HandlerPlaces, Owns
<1>2. \A d \in Coroutine : pc'[d] = IF d = c THEN place ELSE pc[d]
  BY DEF ServerInv, Go
<1>3. pc' \in [Coroutine -> ListenerPlaces \cup HandlerPlaces \cup {"none"}]
  BY <1>1 DEF ServerInv, Go
<1>4. \A f \in Fd : holder[f] # Null => holder[f] \in Coroutine
  BY DEF Inv, TypeOK
<1>5. QED BY <1>1, <1>2, <1>3, <1>4 DEF ServerInv

\* No descriptor points to a coroutine that may be created anew.
LEMMA FreeOwnsNothing ==
  ASSUME ServerInv, NEW d \in Coroutine, at[d] = "free", NEW f \in Fd, holder[f] # Null
  PROVE  holder[f] # d
<1>1. pc[d] = "none"
  BY DEF ServerInv
<1>2. "none" \notin Listening \cup Owns
  BY DEF ListenerPlaces, Listening, HandlerPlaces, Owns
<1>3. pc[holder[f]] \in Listening \cup Owns
  BY DEF ServerInv
<1>4. QED BY <1>1, <1>2, <1>3

\* main creates the listener, which owns nothing yet.
LEMMA StartOwners ==
  ASSUME Inv, ServerInv, NEW d \in Coroutine, Start(d)
  PROVE  ServerInv'
<1>1. holder' = holder
  BY DEF Start, Spawn, Inv, TypeOK
<1>2. /\ at[d] = "free" /\ at' = [at EXCEPT ![d] = "new"]
      /\ pc' = [pc EXCEPT ![d] = "listen"] /\ fd' = fd
  BY DEF Start, Spawn, Go
<1>3. \A f \in Fd : holder[f] # Null => holder[f] \in Coroutine /\ holder[f] # d
  BY <1>2, FreeOwnsNothing DEF Inv, TypeOK
<1>4. "listen" \in ListenerPlaces /\ "listen" \notin Owns
  BY DEF ListenerPlaces, HandlerPlaces, Owns
<1>5. QED BY <1>1, <1>2, <1>3, <1>4 DEF ServerInv, Inv, TypeOK

\* The listening socket and a new connection have had no owner.
LEMMA OpenOwners ==
  ASSUME Inv, ServerInv, NEW c \in Coroutine,
         Listen(c) \/ \E f \in Fd : AcceptOne(c, f)
  PROVE  ServerInv'
<1>1. \A f \in Fd : holder[f] # Null => holder[f] \in Coroutine
  BY DEF Inv, TypeOK
<1>2. CASE Listen(c)
  <2>1. /\ pc[c] = "listen" /\ at[c] = "run"
        /\ holder' = [holder EXCEPT ![Lfd] = c] /\ at' = at /\ fd' = fd
        /\ pc' = [pc EXCEPT ![c] = "accept"] /\ holder[Lfd] = Null
    BY <1>2, AtRuns DEF Listen, Open, frameVars, Go
  <2>2. /\ "accept" \in Listening \ Owns /\ "accept" \in ListenerPlaces /\ "listen" \notin Owns
    BY DEF ListenerPlaces, Listening, HandlerPlaces, Owns
  <2>3. holder \in [Fd -> Coroutine \cup {Null}] /\ Lfd \notin Conn
    BY DEF Inv, TypeOK, Conn
  <2>4. QED BY <1>1, <2>1, <2>2, <2>3 DEF ServerInv
<1>3. ASSUME NEW f \in Fd, AcceptOne(c, f) PROVE ServerInv'
  <2>1. /\ pc[c] = "accepting" /\ at[c] = "run" /\ f \in Conn
        /\ holder' = [holder EXCEPT ![f] = c] /\ at' = at /\ fd' = [fd EXCEPT ![c] = f]
        /\ pc' = [pc EXCEPT ![c] = "hand_over"] /\ holder[f] = Null
    BY <1>3, AtRuns DEF AcceptOne, Open, frameVars, Go
  <2>2. "hand_over" \in Listening \cap Owns \cap ListenerPlaces /\ "accepting" \notin Owns
    BY DEF ListenerPlaces, Listening, HandlerPlaces, Owns
  <2>3. holder \in [Fd -> Coroutine \cup {Null}]
    BY DEF Inv, TypeOK
  <2>4. ServerInv!1' /\ ServerInv!2' /\ ServerInv!3'
    BY <2>1, <2>2 DEF ServerInv
  <2>5. ServerInv!4'
    BY <1>1, <2>1, <2>2, <2>3 DEF ServerInv
  <2>6. ASSUME NEW e \in Coroutine, pc'[e] \in Owns
        PROVE  fd'[e] = Failed \/ (fd'[e] \in Conn /\ holder'[fd'[e]] = e)
    <3>1. f \in Fd /\ Conn \subseteq Fd
      BY <2>1 DEF Conn
    <3>2. CASE e = c
      BY <2>1, <2>3, <3>1, <3>2 DEF ServerInv
    <3>3. CASE e # c
      <4>1. pc'[e] = pc[e] /\ fd'[e] = fd[e]
        BY <2>1, <3>3 DEF ServerInv
      <4>2. fd[e] = Failed \/ (fd[e] \in Conn /\ holder[fd[e]] = e)
        BY <2>6, <4>1 DEF ServerInv
      <4>3. QED BY <2>1, <2>3, <3>1, <4>1, <4>2, SchedulerAssumption
    <3>4. QED BY <3>2, <3>3
  <2>7. QED BY <2>4, <2>5, <2>6 DEF ServerInv
<1>4. QED BY <1>2, <1>3

\* A failed accept hands over no descriptor.
LEMMA FailOwners ==
  ASSUME Inv, ServerInv, NEW c \in Coroutine, AcceptFails(c)
  PROVE  ServerInv'
<1>1. \A f \in Fd : holder[f] # Null => holder[f] \in Coroutine
  BY DEF Inv, TypeOK
<1>2. /\ pc[c] = "accepting" /\ UNCHANGED <<holder, at>>
      /\ fd' = [fd EXCEPT ![c] = Failed] /\ pc' = [pc EXCEPT ![c] = "hand_over"]
  BY AtRuns DEF AcceptFails, vars, frameVars, kernelVars, Go
<1>3. "hand_over" \in Listening \cap Owns \cap ListenerPlaces /\ "accepting" \notin Owns
  BY DEF ListenerPlaces, Listening, HandlerPlaces, Owns
<1>4. QED BY <1>1, <1>2, <1>3 DEF ServerInv

\* A listener that got no socket owns nothing.
LEMMA ListenFailsOwners ==
  ASSUME Inv, ServerInv, NEW c \in Coroutine, ListenFails(c)
  PROVE  ServerInv'
<1>1. /\ pc[c] = "listen" /\ UNCHANGED <<holder, at, fd>> /\ pc' = [pc EXCEPT ![c] = "end"]
  BY AtRuns DEF ListenFails, vars, frameVars, kernelVars, Go
<1>2. /\ "listen" \notin Listening \cup Owns /\ "end" \notin Owns \cup {"none"}
      /\ "end" \in HandlerPlaces
  BY DEF ListenerPlaces, Listening, HandlerPlaces, Owns
<1>3. \A f \in Fd : holder[f] # Null => holder[f] \in Coroutine
  BY DEF Inv, TypeOK
<1>4. QED BY <1>1, <1>2, <1>3 DEF ServerInv

\* The connection changes hands with its descriptor.
LEMMA HandOverOwners ==
  ASSUME Inv, ServerInv, NEW c \in Coroutine, NEW d \in Coroutine, HandOver(c, d)
  PROVE  ServerInv'
<1>1. /\ pc[c] = "hand_over" /\ at[c] = "run" /\ at[d] = "free" /\ c # d
      /\ pc[d] = "none"
  BY AtRuns DEF HandOver, Spawn, ServerInv
<1>2. /\ at' = [at EXCEPT ![d] = "new"]
      /\ pc' = [pc EXCEPT ![c] = "accept", ![d] = "header"]
      /\ fd' = [fd EXCEPT ![c] = Null, ![d] = fd[c]]
      /\ holder' = [f \in Fd |-> IF f \in {fd[c]} \ {Failed} THEN d ELSE holder[f]]
  BY DEF HandOver, Spawn
<1>3. \A f \in Fd : holder[f] # Null => holder[f] \in Coroutine /\ holder[f] # d
  BY <1>1, FreeOwnsNothing DEF Inv, TypeOK
<1>4. /\ "accept" \in (ListenerPlaces \cap Listening) \ Owns
      /\ "hand_over" \in ListenerPlaces \cap Owns
      /\ "header" \in HandlerPlaces \cap Owns /\ "none" \notin Owns
  BY DEF ListenerPlaces, Listening, HandlerPlaces, Owns
<1>5. Conn \subseteq Fd \ {Failed} /\ Lfd \notin Conn
  BY DEF Conn
<1>6. ServerInv!1' /\ ServerInv!2' /\ ServerInv!3'
  BY <1>1, <1>2, <1>4 DEF ServerInv, Inv, TypeOK
<1>7. \A e \in Coroutine :
        /\ pc'[e] = IF e = d THEN "header" ELSE IF e = c THEN "accept" ELSE pc[e]
        /\ fd'[e] = IF e = d THEN fd[c] ELSE IF e = c THEN Null ELSE fd[e]
  BY <1>1, <1>2 DEF ServerInv
<1>8. ServerInv!4'
  <2> SUFFICES ASSUME NEW f \in Fd, holder'[f] # Null
               PROVE  \/ f = Lfd /\ pc'[holder'[f]] \in Listening
                      \/ f \in Conn /\ fd'[holder'[f]] = f /\ pc'[holder'[f]] \in Owns
    OBVIOUS
  <2>1. CASE f = fd[c] /\ f # Failed
    <3>1. f \in Conn /\ holder'[f] = d
      BY <1>1, <1>2, <1>4, <2>1 DEF ServerInv
    <3>2. QED BY <1>4, <1>7, <2>1, <3>1
  <2>2. CASE ~(f = fd[c] /\ f # Failed)
    <3>1. holder'[f] = holder[f] /\ holder[f] \in Coroutine \ {d}
      BY <1>2, <1>3, <2>2
    <3>2. CASE f = Lfd /\ pc[holder[f]] \in Listening
      BY <1>4, <1>7, <3>1, <3>2
    <3>3. CASE f \in Conn /\ fd[holder[f]] = f /\ pc[holder[f]] \in Owns
      <4>1. holder[f] # c
        BY <1>5, <2>2, <3>3
      <4>2. QED BY <1>7, <3>1, <3>3, <4>1
    <3>4. QED BY <3>1, <3>2, <3>3 DEF ServerInv
  <2>3. QED BY <2>1, <2>2
<1>9. ServerInv!5'
  <2> SUFFICES ASSUME NEW e \in Coroutine, pc'[e] \in Owns
               PROVE  fd'[e] = Failed \/ (fd'[e] \in Conn /\ holder'[fd'[e]] = e)
    OBVIOUS
  <2>1. CASE e = d
    <3>1. fd[c] = Failed \/ fd[c] \in Conn
      BY <1>1, <1>4 DEF ServerInv
    <3>2. QED BY <1>2, <1>5, <1>7, <2>1, <3>1
  <2>2. CASE e = c
    BY <1>1, <1>4, <1>7, <2>2
  <2>3. CASE e # d /\ e # c
    <3>1. fd'[e] = fd[e] /\ pc[e] \in Owns
      BY <1>7, <2>3
    <3>2. CASE fd[e] \in Conn /\ holder[fd[e]] = e
      <4>1. fd[e] # fd[c] \/ fd[c] = Failed
        BY <1>1, <1>4, <1>5, <2>3, <3>2 DEF ServerInv
      <4>2. QED BY <1>2, <1>5, <3>1, <3>2, <4>1
    <3>3. QED BY <3>1, <3>2 DEF ServerInv
  <2>4. QED BY <2>1, <2>2, <2>3
<1>10. QED BY <1>6, <1>8, <1>9 DEF ServerInv

\* rpc_handle closes its connection before it returns.
LEMMA CloseOwners ==
  ASSUME Inv, ServerInv, NEW c \in Coroutine, CloseFd(c)
  PROVE  ServerInv'
<1>1. /\ pc[c] = "close" /\ fd[c] \in Fd /\ holder[fd[c]] = c
      /\ holder' = [holder EXCEPT ![fd[c]] = Null] /\ at' = at /\ fd' = fd
      /\ pc' = [pc EXCEPT ![c] = "end"]
  BY AtRuns DEF CloseFd, Close, Held, frameVars, Go
<1>2. /\ "close" \in Owns \ Listening
      /\ "end" \in HandlerPlaces \ Owns /\ "end" \notin Listening \cup {"none"}
      /\ "none" \notin Owns
  BY DEF ListenerPlaces, Listening, HandlerPlaces, Owns
<1>3. Conn \subseteq Fd /\ \A f \in Fd : holder[f] # Null => holder[f] \in Coroutine
  BY DEF Inv, TypeOK, Conn
<1>4. ServerInv!1' /\ ServerInv!2' /\ ServerInv!3'
  BY <1>1, <1>2 DEF ServerInv
<1>5. \A e \in Coroutine : pc'[e] = IF e = c THEN "end" ELSE pc[e]
  BY <1>1 DEF ServerInv
<1>6. \A f \in Fd : holder'[f] = IF f = fd[c] THEN Null ELSE holder[f]
  BY <1>1 DEF Inv, TypeOK
<1>7. ASSUME NEW f \in Fd, holder'[f] # Null
      PROVE  \/ f = Lfd /\ pc'[holder'[f]] \in Listening
             \/ f \in Conn /\ fd'[holder'[f]] = f /\ pc'[holder'[f]] \in Owns
  <2>1. f # fd[c] /\ holder'[f] = holder[f] /\ holder[f] \in Coroutine
    BY <1>3, <1>6, <1>7
  <2>2. holder[f] # c
    BY <1>1, <1>2, <1>7, <2>1 DEF ServerInv
  <2>3. QED BY <1>1, <1>5, <1>7, <2>1, <2>2 DEF ServerInv
<1>8. ASSUME NEW e \in Coroutine, pc'[e] \in Owns
      PROVE  fd'[e] = Failed \/ (fd'[e] \in Conn /\ holder'[fd'[e]] = e)
  <2>1. e # c /\ pc[e] \in Owns
    BY <1>2, <1>5, <1>8
  <2>2. fd[e] = Failed \/ (fd[e] \in Conn /\ holder[fd[e]] = e)
    BY <2>1 DEF ServerInv
  <2>3. QED BY <1>1, <1>3, <1>6, <2>1, <2>2
<1>9. QED BY <1>4, <1>7, <1>8 DEF ServerInv

\* A coroutine that returns holds no descriptor, by the guard of Exit.
LEMMA ReturnOwners ==
  ASSUME Inv, ServerInv, NEW c \in Coroutine, Return(c)
  PROVE  ServerInv'
<1>1. /\ pc[c] = "end" /\ Held(c) = {} /\ holder' = holder
      /\ at' = [at EXCEPT ![c] = "free"] /\ fd' = [fd EXCEPT ![c] = Null]
      /\ pc' = [pc EXCEPT ![c] = "none"]
  BY AtRuns DEF Return, Exit, kernelVars, Go
<1>2. "end" \notin Owns /\ "none" \notin Owns \cup Listening
  BY DEF ListenerPlaces, Listening, HandlerPlaces, Owns
<1>3. \A f \in Fd : holder[f] # Null => holder[f] \in Coroutine \ {c}
  BY <1>1 DEF Held, Inv, TypeOK
<1>4. QED BY <1>1, <1>2, <1>3 DEF ServerInv, Inv, TypeOK

\* What the listener does keeps the owners apart.
LEMMA ListenerOwners ==
  ASSUME Inv, ServerInv, NEW c \in Coroutine, Listener(c)
  PROVE  ServerInv'
<1>1. CASE AcceptWait(c)
  <2>1. Poll(c, Lfd, "in") /\ pc[c] = "accept" /\ Go(c, "accepting") /\ fd' = fd
    BY <1>1, AtRuns DEF AcceptWait
  <2>2. "accept" \in Listening \ {"hand_over"} /\ "accepting" \in Listening \ {"hand_over"}
    BY DEF ListenerPlaces, Listening
  <2>3. QED BY <2>1, <2>2, PollOwners, GoOwners, ServerAssumption
<1>2. CASE AcceptAgain(c)
  <2>1. /\ UNCHANGED <<at, holder, fd>> /\ pc[c] = "accepting" /\ Go(c, "accept")
    BY <1>2, AtRuns DEF AcceptAgain, Drain, frameVars
  <2>2. "accept" \in Listening \ {"hand_over"} /\ "accepting" \in Listening \ {"hand_over"}
    BY DEF ListenerPlaces, Listening
  <2>3. QED BY <2>1, <2>2, GoOwners
<1>3. QED BY <1>1, <1>2, OpenOwners, ListenFailsOwners, FailOwners, HandOverOwners DEF Listener

\* What a handler does keeps the owners apart.
LEMMA HandlerOwners ==
  ASSUME Inv, ServerInv, NEW c \in Coroutine, Handler(c)
  PROVE  ServerInv'
<1> DEFINE Inside == HandlerPlaces \ {"end"}
<1>1. {"header", "header_in", "body", "body_in", "reply", "close"} \subseteq Inside
  BY DEF HandlerPlaces
<1>2. ASSUME NEW mode, Poll(c, fd[c], mode)
      PROVE  /\ holder' = holder
             /\ \A d \in Coroutine : at'[d] = "free" <=> at[d] = "free"
  <2>1. fd[c] \in Fd
    BY <1>2, SchedulerAssumption DEF Poll, Held
  <2>2. QED BY <1>2, <2>1, PollOwners
<1>3. ASSUME NEW place \in Inside, NEW next \in Inside, RecvWait(c, place, next)
      PROVE  ServerInv'
  <2>1. Poll(c, fd[c], "in") /\ pc[c] = place /\ Go(c, next) /\ fd' = fd
    BY <1>3, AtRuns DEF RecvWait
  <2>2. QED BY <1>2, <2>1, GoOwners DEF HandlerPlaces
<1>4. ASSUME NEW place \in Inside, NEW next \in Inside, Read(c, place, next)
      PROVE  ServerInv'
  <2>1. UNCHANGED <<at, holder, fd>> /\ pc[c] = place /\ Go(c, next)
    BY <1>4, AtRuns DEF Read, Drain, vars, frameVars, kernelVars
  <2>2. QED BY <2>1, GoOwners DEF HandlerPlaces
<1>5. CASE ReplyWait(c)
  <2>1. Poll(c, fd[c], "out") /\ UNCHANGED <<pc, fd>>
    BY <1>5 DEF ReplyWait, serverVars
  <2>2. QED BY <1>2, <2>1, SameOwners
<1>6. CASE ReplySent(c)
  <2>1. UNCHANGED <<at, holder, fd>> /\ pc[c] = "reply" /\ Go(c, "header")
    BY <1>6, AtRuns DEF ReplySent, vars, frameVars, kernelVars
  <2>2. QED BY <1>1, <2>1, GoOwners
<1>7. AfterHeader \subseteq Inside /\ AfterBody \subseteq Inside
  BY <1>1 DEF AfterHeader, AfterBody
<1>8. QED BY <1>1, <1>3, <1>4, <1>5, <1>6, <1>7, CloseOwners, ReturnOwners DEF Handler

\* Every step of the server keeps the owners apart.
LEMMA ServerInvNext ==
  ASSUME Inv, ServerInv, [ServerNext]_allVars
  PROVE  ServerInv'
<1>1. ASSUME UNCHANGED <<pc, fd, at, holder>> PROVE ServerInv'
  BY <1>1, SameOwners
<1>2. CASE Scheduler /\ UNCHANGED serverVars
  BY <1>2, SchedulerOwners
<1>3. ASSUME NEW c \in Coroutine, Start(c) \/ Listener(c) \/ Handler(c) PROVE ServerInv'
  BY <1>3, StartOwners, ListenerOwners, HandlerOwners
<1>4. CASE Connect
  BY <1>1, <1>4 DEF Connect, Arrive, vars, frameVars, kernelVars
<1>5. ASSUME NEW f \in Conn, Traffic(f) PROVE ServerInv'
  BY <1>1, <1>5 DEF Traffic, Arrive, frameVars, serverVars
<1>6. CASE UNCHANGED allVars \/ (Stopped /\ UNCHANGED serverVars)
  BY <1>1, <1>6 DEF Stopped, allVars, serverVars, vars, frameVars, kernelVars
<1>7. QED BY <1>2, <1>3, <1>4, <1>5, <1>6 DEF ServerNext

\* The inductive invariant of the server's program.
THEOREM ServerInvHolds == ServerSpec => []ServerInv
BY ServerInvInit, ServerInvNext, ServerSchedulerInv, PTL DEF ServerSpec

\* Every connection the server has open is owned by one handler, and no handler
\* reads, answers or closes another's, whatever the clients do and also when
\* accept fails.
THEOREM ConnectionsOwned == ServerSpec => []OneHandlerEach
<1>1. ServerInv => OneHandlerEach
  <2>1. Lfd \notin Conn /\ Conn \subseteq Fd
    BY DEF Conn
  <2>2. QED BY <2>1 DEF ServerInv, OneHandlerEach
<1>2. QED BY <1>1, ServerInvHolds, PTL

-------------------------------------------------------------------------------
(* A descriptor for every client *)

Enough == IsFiniteSet(Fd) /\ MaxClients <= Cardinality(Conn)

Connected == {f \in Conn : holder[f] # Null}

\* No client is turned away, so no coroutine is created for the connection -1.
QuietInv ==
  /\ fault = "none"
  /\ backlog \in Nat
  /\ Clients <= MaxClients
  /\ \A c \in Coroutine : fd[c] # Failed

\* The sets of descriptors are finite.
LEMMA ConnectedFinite ==
  ASSUME Enough
  PROVE  /\ IsFiniteSet(Conn) /\ IsFiniteSet(Connected) /\ IsFiniteSet(Connected')
         /\ Cardinality(Conn) \in Nat
         /\ Cardinality(Connected) \in Nat /\ Cardinality(Connected') \in Nat
<1>1. Conn \subseteq Fd /\ Connected \subseteq Conn /\ Connected' \subseteq Conn
  BY DEF Conn, Connected
<1>2. QED BY <1>1, FS_Subset, FS_CardinalityType DEF Enough

\* While a descriptor is left for everyone who waits, accept does not fail.
LEMMA NoFailure ==
  ASSUME Enough, ~Aborting, QuietInv, NEW c \in Coroutine
  PROVE  ~AcceptFails(c)
<1> SUFFICES ASSUME AcceptFails(c) PROVE FALSE
  OBVIOUS
<1>1. Connected = Conn /\ backlog > 0
  BY DEF AcceptFails, Connected
<1>2. Clients = backlog + Cardinality(Conn)
  BY <1>1 DEF Clients, Connected
<1>3. QED BY <1>1, <1>2, ConnectedFinite, ServerAssumption DEF QuietInv, Enough

\* Of the faults only a second waiter on a descriptor is left by the invariant.
LEMMA OtherFaults ==
  ASSUME Inv, [Next]_vars, fault' \in {"none", "no_waiter", "dangling", "relinked"}
  PROVE  fault' = "none"
BY ServerNoSleep, InvNext DEF Inv, FaultInv

\* Waiting for an open descriptor is safe: its owner is the one that polls.
LEMMA PollQuiet ==
  ASSUME Inv, NEW c \in Coroutine, NEW f \in Fd \ Invalid, NEW mode, Poll(c, f, mode)
  PROVE  fault' = fault
<1>1. f \in Held(c) /\ Running(c)
  BY DEF Poll
<1>2. waiting[f] = Null /\ "WAIT_READ" \notin status[c]
  BY <1>1, HeldByRunner, RunningFacts
<1>3. QED BY <1>2 DEF Poll

\* The loop's steps cannot make a second waiter.
LEMMA SchedulerQuiet ==
  ASSUME Inv, fault = "none", Scheduler
  PROVE  fault' = "none"
<1>1. ASSUME NEW c, NEW st, Resume(c, st) PROVE fault' \in {"none", "no_waiter"}
  BY <1>1 DEF Resume, PollReturn
<1>2. fault' \in {"none", "no_waiter"}
  BY <1>1 DEF Scheduler, RunStart, LoopTest, ResumeExpired, EnterReady,
     ResumeReady, ReadyDrained, EpollWait, EventsDone, Dispatch
<1>3. QED BY <1>2, OtherFaults DEF Next

\* No step of the server faults while nobody has the connection -1.
LEMMA ServerQuiet ==
  ASSUME Inv, ServerInv, QuietInv, [ServerNext]_allVars
  PROVE  fault' = "none"
<1>1. [Next]_vars /\ fault = "none"
  BY ServerMaps DEF QuietInv
<1>2. ASSUME NEW c \in Coroutine, NEW mode, Poll(c, Lfd, mode) \/ Poll(c, fd[c], mode)
      PROVE  fault' = "none"
  <2>1. Lfd \in Fd \ Invalid
    BY ServerAssumption
  <2>2. ASSUME Poll(c, fd[c], mode) PROVE fd[c] \in Fd \ Invalid
    BY <2>2, SchedulerAssumption, ServerAssumption DEF Poll, Held, QuietInv
  <2>3. QED BY <1>1, <1>2, <2>1, <2>2, PollQuiet
<1>3. ASSUME NEW c \in Coroutine, Listener(c) \/ Start(c) PROVE fault' = "none"
  BY <1>1, <1>2, <1>3 DEF Start, Listener, Listen, ListenFails, AcceptWait, AcceptAgain, AcceptOne,
     AcceptFails, HandOver, Open, Drain, Spawn, vars
<1>4. ASSUME NEW c \in Coroutine, Handler(c) PROVE fault' = "none"
  <2>1. ASSUME Return(c) PROVE fault' = "none"
    BY <1>1, <2>1, OtherFaults DEF Return, Exit
  <2>2. QED BY <1>1, <1>2, <1>4, <2>1
            DEF Handler, RecvWait, Read, ReplyWait, ReplySent, CloseFd, Drain, Close, vars
<1>5. QED BY <1>1, <1>3, <1>4, SchedulerQuiet
          DEF ServerNext, Connect, Traffic, Arrive, Stopped, allVars, vars

\* A step that neither connects nor disconnects anybody.
LEMMA SameClients ==
  ASSUME QuietInv, fault' = "none", backlog' = backlog, Connected' = Connected,
         \A c \in Coroutine : fd'[c] # Failed
  PROVE  QuietInv'
BY DEF QuietInv, Clients, Connected

\* The listener only moves clients from the backlog to connections.
LEMMA ListenerClients ==
  ASSUME Enough, ~Aborting, Inv, ServerInv, QuietInv, fault' = "none",
         NEW c \in Coroutine, Start(c) \/ Listener(c)
  PROVE  QuietInv'
<1>1. CASE Start(c)
  <2>1. holder' = holder /\ UNCHANGED <<fd, backlog>>
    BY <1>1 DEF Start, Spawn, Inv, TypeOK
  <2>2. QED BY <2>1, SameClients DEF Connected, QuietInv
<1>2. CASE Listen(c)
  <2>1. holder' = [holder EXCEPT ![Lfd] = c] /\ UNCHANGED <<fd, backlog>>
    BY <1>2 DEF Listen, Open
  <2>2. Connected' = Connected
    BY <2>1 DEF Connected, Conn, Inv, TypeOK
  <2>3. QED BY <2>1, <2>2, SameClients DEF QuietInv
<1>3. CASE ListenFails(c) \/ AcceptWait(c) \/ AcceptAgain(c)
  <2>1. UNCHANGED <<holder, fd, backlog>>
    BY <1>3 DEF ListenFails, AcceptWait, AcceptAgain, Poll, Drain, vars, kernelVars
  <2>2. QED BY <2>1, SameClients DEF Connected, QuietInv
<1>4. ASSUME NEW f \in Fd, AcceptOne(c, f) PROVE QuietInv'
  <2>1. /\ f \in Conn /\ holder[f] = Null /\ holder' = [holder EXCEPT ![f] = c]
        /\ backlog > 0 /\ backlog' = backlog - 1 /\ fd' = [fd EXCEPT ![c] = f]
    BY <1>4 DEF AcceptOne, Open
  <2>2. Connected' = Connected \cup {f} /\ f \notin Connected
    BY <2>1, SchedulerAssumption DEF Connected, Conn, Inv, TypeOK
  <2>3. Cardinality(Connected') = Cardinality(Connected) + 1
    BY <2>2, ConnectedFinite, FS_AddElement
  <2>4. \A d \in Coroutine : fd'[d] # Failed
    BY <2>1 DEF QuietInv, ServerInv, Conn
  <2>5. QED BY <2>1, <2>3, <2>4, ConnectedFinite, ServerAssumption
            DEF QuietInv, Clients, Connected
<1>5. ASSUME NEW d \in Coroutine, HandOver(c, d) PROVE QuietInv'
  <2>1. /\ {fd[c]} \ {Failed} \subseteq Held(c) /\ backlog' = backlog
        /\ fd' = [fd EXCEPT ![c] = Null, ![d] = fd[c]]
        /\ holder' = [f \in Fd |-> IF f \in {fd[c]} \ {Failed} THEN d ELSE holder[f]]
    BY <1>5 DEF HandOver, Spawn
  <2>2. Connected' = Connected
    BY <2>1, SchedulerAssumption DEF Connected, Conn, Held
  <2>3. \A e \in Coroutine : fd'[e] # Failed
    BY <2>1, SchedulerAssumption, ServerAssumption DEF QuietInv, ServerInv
  <2>4. QED BY <2>1, <2>2, <2>3, SameClients
<1>6. QED BY <1>1, <1>2, <1>3, <1>4, <1>5, NoFailure DEF Listener

\* A handler only takes clients away.
LEMMA HandlerClients ==
  ASSUME Enough, Inv, ServerInv, QuietInv, fault' = "none",
         NEW c \in Coroutine, Handler(c)
  PROVE  QuietInv'
<1>1. CASE UNCHANGED <<holder, fd, backlog>>
  BY <1>1, SameClients DEF Connected, QuietInv
<1>2. CASE CloseFd(c)
  <2>1. /\ fd[c] \in Fd /\ holder[fd[c]] = c /\ pc[c] = "close"
        /\ holder' = [holder EXCEPT ![fd[c]] = Null] /\ UNCHANGED <<fd, backlog>>
    BY <1>2, AtRuns DEF CloseFd, Close, Held
  <2>2. fd[c] \in Conn
    BY <2>1 DEF QuietInv, ServerInv, Owns, HandlerPlaces
  <2>3. Connected' = Connected \ {fd[c]} /\ fd[c] \in Connected
    BY <2>1, <2>2, SchedulerAssumption DEF Connected, Conn, Inv, TypeOK
  <2>4. Cardinality(Connected') = Cardinality(Connected) - 1
    BY <2>3, ConnectedFinite, FS_RemoveElement
  <2>5. QED BY <2>1, <2>4, ConnectedFinite, ServerAssumption
            DEF QuietInv, Clients, Connected
<1>3. CASE Return(c)
  <2>1. holder' = holder /\ backlog' = backlog /\ fd' = [fd EXCEPT ![c] = Null]
    BY <1>3 DEF Return, Exit, kernelVars
  <2>2. \A d \in Coroutine : fd'[d] # Failed
    BY <2>1, SchedulerAssumption, ServerAssumption DEF QuietInv, ServerInv
  <2>3. QED BY <2>1, <2>2, SameClients DEF Connected
<1>4. QED BY <1>1, <1>2, <1>3 DEF Handler, RecvWait, Read, ReplyWait, ReplySent,
     Poll, Drain, vars, kernelVars, serverVars

\* Every step keeps the count of clients and every connection valid.
LEMMA QuietNext ==
  ASSUME Enough, ~Aborting, Inv, ServerInv, QuietInv, [ServerNext]_allVars
  PROVE  QuietInv'
<1>1. fault' = "none"
  BY ServerQuiet
<1>2. CASE UNCHANGED <<holder, fd, backlog>>
  BY <1>1, <1>2, SameClients DEF Connected, QuietInv
<1>3. CASE Scheduler /\ UNCHANGED serverVars
  <2>1. ASSUME NEW c, NEW st, Resume(c, st) PROVE holder' = holder
    BY <2>1 DEF Resume
  <2>2. holder' = holder
    BY <1>3, <2>1 DEF Scheduler, RunStart, LoopTest, ResumeExpired, EnterReady,
       ResumeReady, ReadyDrained, EpollWait, EventsDone, Dispatch, kernelVars
  <2>3. QED BY <1>2, <1>3, <2>2 DEF serverVars
<1>4. ASSUME NEW c \in Coroutine, Start(c) \/ Listener(c) \/ Handler(c) PROVE QuietInv'
  BY <1>1, <1>4, ListenerClients, HandlerClients
<1>5. CASE Connect
  <2>1. /\ holder' = holder /\ fd' = fd /\ backlog' = backlog + 1
        /\ Clients < MaxClients
    BY <1>5 DEF Connect, Arrive, vars, kernelVars
  <2>2. Connected' = Connected
    BY <2>1 DEF Connected
  <2>3. QED BY <1>1, <2>1, <2>2, ConnectedFinite, ServerAssumption
            DEF QuietInv, Clients, Connected
<1>6. ASSUME NEW f \in Conn, Traffic(f) PROVE QuietInv'
  BY <1>2, <1>6 DEF Traffic, Arrive, serverVars
<1>7. QED BY <1>2, <1>3, <1>4, <1>5, <1>6
          DEF ServerNext, Stopped, allVars, serverVars, vars, kernelVars

\* With as many descriptors as clients that are ever connected at once, and as long as
\* accept fails for want of a descriptor only, nothing the server does on its scheduler
\* ends it: no assertion of nty_schedule.c fails and no freed or missing coroutine is
\* used, however many clients come and go.
THEOREM ServerNeverFaults == ASSUME Enough, ~Aborting PROVE ServerSpec => []NoFault
<1>1. ServerInit => QuietInv
  <2> SUFFICES ASSUME ServerInit PROVE QuietInv
    OBVIOUS
  <2>1. Connected = {} /\ backlog = 0 /\ fault = "none"
    BY DEF ServerInit, Init, Connected, Conn
  <2>2. \A c \in Coroutine : fd[c] # Failed
    BY SchedulerAssumption, ServerAssumption DEF ServerInit
  <2>3. QED BY <2>1, <2>2, FS_EmptySet, ServerAssumption DEF QuietInv, Clients, Connected
<1>2. Inv /\ ServerInv /\ QuietInv /\ [ServerNext]_allVars => QuietInv'
  BY QuietNext
<1>3. QuietInv => NoFault
  BY DEF QuietInv, NoFault
<1>4. QED BY <1>1, <1>2, <1>3, ServerSchedulerInv, ServerInvHolds, PTL DEF ServerSpec

-------------------------------------------------------------------------------
(* Accept that fails, any number of times *)

\* Who waits on the descriptor -1 is the handler of a failed accept.
FailedInv == waiting[Failed] \in Stillborn \cup {Null}

\* A waiter keeps its place while others move.
LEMMA WaiterStays ==
  ASSUME Inv, FailedInv, waiting'[Failed] \in {waiting[Failed], Null},
         \A e \in Coroutine : at[e] = "poll" => fd'[e] = fd[e] /\ pc'[e] = pc[e]
  PROVE  FailedInv'
<1>1. CASE waiting[Failed] = Null
  BY <1>1 DEF FailedInv
<1>2. CASE waiting[Failed] # Null
  <2>1. waiting[Failed] \in Stillborn /\ waiting[Failed] \in Coroutine
    BY <1>2 DEF FailedInv, Stillborn
  <2>2. at[waiting[Failed]] = "poll"
    BY <2>1, ServerAssumption DEF Inv, OnePlace
  <2>3. waiting[Failed] \in Stillborn'
    BY <2>1, <2>2 DEF Stillborn
  <2>4. QED BY <2>3 DEF FailedInv
<1>3. QED BY <1>1, <1>2

\* The scheduler's steps only take waiters away.
LEMMA SchedulerWaiters ==
  ASSUME Inv, Scheduler
  PROVE  waiting'[Failed] \in {waiting[Failed], Null}
<1>1. waiting \in [Fd -> Coroutine \cup {Null}] /\ Failed \in Fd
  BY ServerAssumption DEF Inv, TypeOK
<1>2. ASSUME NEW c, NEW st, Resume(c, st) PROVE waiting'[Failed] \in {waiting[Failed], Null}
  BY <1>1, <1>2 DEF Resume, PollReturn
<1>3. QED BY <1>2 DEF Scheduler, RunStart, LoopTest, ResumeExpired, EnterReady,
     ResumeReady, ReadyDrained, EpollWait, EventsDone, Dispatch, queueVars

\* The listener waits on its own descriptor only, and what it creates runs later.
LEMMA ListenerWaiters ==
  ASSUME Inv, ServerInv, FailedInv, fault = "none", NEW c \in Coroutine, Start(c) \/ Listener(c)
  PROVE  FailedInv' /\ fault' = "none"
<1>1. waiting \in [Fd -> Coroutine \cup {Null}] /\ Failed \in Fd /\ Lfd \in Fd \ {Failed}
  BY ServerAssumption DEF Inv, TypeOK
<1>2. ASSUME NEW mode, Poll(c, Lfd, mode)
      PROVE  waiting'[Failed] = waiting[Failed] /\ fault' = "none"
  <2>1. fault' = fault
    BY <1>2, PollQuiet, ServerAssumption
  <2>2. waiting'[Failed] = waiting[Failed]
    BY <1>1, <1>2 DEF Poll
  <2>3. QED BY <2>1, <2>2
<1>3. waiting'[Failed] = waiting[Failed] /\ fault' = "none"
  BY <1>2 DEF Start, Listener, Listen, ListenFails, AcceptWait, AcceptAgain, AcceptOne,
     AcceptFails, HandOver, Open, Drain, Spawn, vars, queueVars
<1>4. ASSUME NEW e \in Coroutine, at[e] = "poll" PROVE fd'[e] = fd[e] /\ pc'[e] = pc[e]
  <2>1. pc[e] # "none"
    BY <1>4 DEF ServerInv
  <2>2. CASE Start(c)
    BY <2>1, <2>2 DEF Start, ServerInv
  <2>3. ASSUME NEW place, At(c, place) PROVE c # e
    BY <1>4, <2>3, AtRuns
  <2>4. CASE Listen(c) \/ ListenFails(c) \/ AcceptWait(c) \/ AcceptAgain(c) \/ AcceptFails(c)
    BY <2>3, <2>4 DEF Listen, ListenFails, AcceptWait, AcceptAgain, AcceptFails, Go, ServerInv
  <2>5. ASSUME NEW f \in Fd, AcceptOne(c, f) PROVE fd'[e] = fd[e] /\ pc'[e] = pc[e]
    BY <2>3, <2>5 DEF AcceptOne, Go, ServerInv
  <2>6. ASSUME NEW d \in Coroutine, HandOver(c, d) PROVE fd'[e] = fd[e] /\ pc'[e] = pc[e]
    <3>1. at[d] = "free" /\ d # e /\ c # e
      BY <1>4, <2>3, <2>6 DEF HandOver, Spawn
    <3>2. QED BY <2>6, <3>1 DEF HandOver, ServerInv
  <2>7. QED BY <2>2, <2>4, <2>5, <2>6 DEF Listener
<1>5. QED BY <1>3, <1>4, WaiterStays

\* A handler waits on its own descriptor; if somebody else already does, both have
\* the descriptor -1.
LEMMA PollWaiters ==
  ASSUME Inv, ServerInv, FailedInv, fault = "none", NEW c \in Coroutine, NEW mode,
         Poll(c, fd[c], mode), fd' = fd, pc[c] \in HandlerPlaces, pc'[c] \in HandlerPlaces,
         \A e \in Coroutine : e # c => pc'[e] = pc[e]
  PROVE  FailedInv' /\ FaultsOnlyOnFailed'
<1>1. /\ waiting \in [Fd -> Coroutine \cup {Null}] /\ Failed \in Fd
      /\ at[c] = "run" /\ curr = c /\ Running(c)
  BY ServerAssumption, RunningFacts DEF Inv, TypeOK, Poll
<1>2. fd[c] \in Fd /\ (fd[c] # Failed => fd[c] \in Fd \ Invalid)
  BY SchedulerAssumption, ServerAssumption DEF Poll, Held
<1>3. \A e \in Coroutine : at[e] = "poll" => fd'[e] = fd[e] /\ pc'[e] = pc[e]
  BY <1>1
<1>4. CASE fd[c] # Failed
  <2>1. fault' = "none"
    BY <1>2, <1>4, PollQuiet
  <2>2. waiting'[Failed] = waiting[Failed]
    BY <1>1, <1>4 DEF Poll
  <2>3. QED BY <1>3, <2>1, <2>2, WaiterStays DEF FaultsOnlyOnFailed
<1>5. CASE fd[c] = Failed /\ waiting[Failed] = Null
  <2>1. "WAIT_READ" \notin status[c]
    BY <1>1, RunningFacts
  <2>2. fault' = "none" /\ waiting'[Failed] = c
    BY <1>1, <1>5, <2>1 DEF Poll
  <2>3. c \in Stillborn'
    BY <1>5 DEF Stillborn
  <2>4. QED BY <2>2, <2>3 DEF FailedInv, FaultsOnlyOnFailed
<1>6. CASE fd[c] = Failed /\ waiting[Failed] # Null
  <2>1. "WAIT_READ" \notin status[c]
    BY <1>1, RunningFacts
  <2>2. fault' = "occupied" /\ waiting' = waiting
    BY <1>6, <2>1 DEF Poll
  <2>3. waiting[Failed] \in Stillborn /\ at[waiting[Failed]] = "poll"
    BY <1>1, <1>6 DEF FailedInv, Stillborn, Inv, OnePlace
  <2>4. waiting[Failed] # c /\ waiting[Failed] \in Stillborn'
    BY <1>1, <1>3, <2>3 DEF Stillborn
  <2>5. c \in Stillborn'
    BY <1>6 DEF Stillborn
  <2>6. QED BY <2>2, <2>4, <2>5 DEF FailedInv, FaultsOnlyOnFailed
<1>7. QED BY <1>4, <1>5, <1>6

\* A handler's other steps leave who waits, and where, alone.
LEMMA HandlerWaiters ==
  ASSUME Inv, ServerInv, FailedInv, fault = "none", NEW c \in Coroutine, Handler(c)
  PROVE  FailedInv' /\ FaultsOnlyOnFailed'
<1>1. pc \in [Coroutine -> ListenerPlaces \cup HandlerPlaces \cup {"none"}]
      /\ fd \in [Coroutine -> Conn \cup {Failed, Null}]
  BY DEF ServerInv
<1>2. ASSUME NEW place \in {"header", "body"}, NEW next \in HandlerPlaces, RecvWait(c, place, next)
      PROVE  FailedInv' /\ FaultsOnlyOnFailed'
  <2>1. /\ Poll(c, fd[c], "in") /\ fd' = fd /\ pc[c] = place /\ pc'[c] = next
        /\ \A e \in Coroutine : e # c => pc'[e] = pc[e]
    BY <1>1, <1>2 DEF RecvWait, At, Go
  <2>2. place \in HandlerPlaces
    BY DEF HandlerPlaces
  <2>3. QED BY <2>1, <2>2, PollWaiters
<1>3. CASE ReplyWait(c)
  <2>1. Poll(c, fd[c], "out") /\ fd' = fd /\ pc' = pc /\ pc[c] \in HandlerPlaces
    BY <1>3 DEF ReplyWait, At, serverVars, HandlerPlaces
  <2>2. QED BY <2>1, PollWaiters
<1>4. ASSUME waiting' = waiting, fault' = "none", At(c, pc[c]),
             \A e \in Coroutine : e # c => fd'[e] = fd[e] /\ pc'[e] = pc[e]
      PROVE  FailedInv' /\ FaultsOnlyOnFailed'
  <2>1. at[c] = "run"
    BY <1>4, AtRuns
  <2>2. QED BY <1>4, <2>1, WaiterStays DEF FaultsOnlyOnFailed
<1>5. ASSUME NEW place, NEW next, Read(c, place, next) PROVE FailedInv' /\ FaultsOnlyOnFailed'
  BY <1>1, <1>4, <1>5 DEF Read, At, Go, Drain, vars, queueVars
<1>6. CASE ReplySent(c) \/ CloseFd(c)
  BY <1>1, <1>4, <1>6 DEF ReplySent, CloseFd, At, Go, Close, vars, queueVars
<1>7. CASE Return(c)
  <2>1. fault' = "none"
    <3>1. [Next]_vars
      BY <1>7, HandlerMaps
    <3>2. QED BY <1>7, <3>1, OtherFaults DEF Return, Exit
  <2>2. waiting' = waiting /\ At(c, pc[c])
    BY <1>7 DEF Return, Exit, queueVars, At
  <2>3. \A e \in Coroutine : e # c => fd'[e] = fd[e] /\ pc'[e] = pc[e]
    BY <1>1, <1>7 DEF Return, Go
  <2>4. QED BY <1>4, <2>1, <2>2, <2>3
<1>8. {"header_in", "body_in"} \subseteq HandlerPlaces
  BY DEF HandlerPlaces
<1>9. QED BY <1>2, <1>3, <1>5, <1>6, <1>7, <1>8 DEF Handler

\* After a fault nothing moves.
LEMMA FailedNext ==
  ASSUME Inv, ServerInv, FailedInv, FaultsOnlyOnFailed, [ServerNext]_allVars
  PROVE  FailedInv' /\ FaultsOnlyOnFailed'
<1>1. ASSUME UNCHANGED <<waiting, fault, fd, pc>> PROVE FailedInv' /\ FaultsOnlyOnFailed'
  BY <1>1 DEF FailedInv, FaultsOnlyOnFailed, Stillborn
<1>2. CASE Scheduler /\ UNCHANGED serverVars
  <2>1. fault = "none"
    BY <1>2 DEF Scheduler, RunStart, LoopTest, ResumeExpired, EnterReady, ResumeReady,
       ReadyDrained, EpollWait, EventsDone, Dispatch, Scheduling, Running
  <2>2. fault' = "none"
    BY <1>2, <2>1, SchedulerQuiet
  <2>3. QED BY <1>2, <2>2, SchedulerWaiters, WaiterStays DEF serverVars, FaultsOnlyOnFailed
<1>3. ASSUME NEW c \in Coroutine, Start(c) \/ Listener(c) PROVE FailedInv' /\ FaultsOnlyOnFailed'
  <2>1. fault = "none"
    BY <1>3 DEF Start, Listener, Listen, ListenFails, AcceptWait, AcceptAgain, AcceptOne,
       AcceptFails, HandOver, At, Spawn, Running
  <2>2. QED BY <1>3, <2>1, ListenerWaiters DEF FaultsOnlyOnFailed
<1>4. ASSUME NEW c \in Coroutine, Handler(c) PROVE FailedInv' /\ FaultsOnlyOnFailed'
  <2>1. fault = "none"
    BY <1>4 DEF Handler, RecvWait, Read, ReplyWait, ReplySent, CloseFd, Return, At, Running
  <2>2. QED BY <1>4, <2>1, HandlerWaiters
<1>5. CASE Connect
  BY <1>1, <1>5 DEF Connect, Arrive, vars, queueVars
<1>6. ASSUME NEW f \in Conn, Traffic(f) PROVE FailedInv' /\ FaultsOnlyOnFailed'
  BY <1>1, <1>6 DEF Traffic, Arrive, serverVars, queueVars
<1>7. CASE UNCHANGED allVars \/ (Stopped /\ UNCHANGED serverVars)
  BY <1>1, <1>7 DEF Stopped, allVars, serverVars, vars, queueVars
<1>8. QED BY <1>2, <1>3, <1>4, <1>5, <1>6, <1>7 DEF ServerNext

\* Whatever the clients do and however often descriptors run out, only two handlers
\* of failed accepts that meet on -1 can end the server on its scheduler.
THEOREM OnlyFailedAcceptsFault == ServerSpec => []FaultsOnlyOnFailed
<1>1. ServerInit => FailedInv /\ FaultsOnlyOnFailed
  BY ServerAssumption DEF ServerInit, Init, FailedInv, FaultsOnlyOnFailed
<1>2. QED BY <1>1, FailedNext, ServerSchedulerInv, ServerInvHolds, PTL DEF ServerSpec

-------------------------------------------------------------------------------
(* The listener stays *)

\* The scheduler opens and closes nothing.
LEMMA SchedulerHolders ==
  ASSUME Scheduler
  PROVE  holder' = holder
<1>1. ASSUME NEW c, NEW st, Resume(c, st) PROVE holder' = holder
  BY <1>1 DEF Resume
<1> QED
  BY <1>1 DEF Scheduler, RunStart, LoopTest, ResumeExpired, EnterReady, ResumeReady,
     ReadyDrained, EpollWait, EventsDone, Dispatch, kernelVars

\* Nobody closes the listening socket or hands it over: handlers own connections.
LEMMA ListenerStays ==
  ASSUME Inv, ServerInv, holder[Lfd] # Null, [ServerNext]_allVars
  PROVE  holder'[Lfd] # Null
<1>1. /\ holder \in [Fd -> Coroutine \cup {Null}] /\ Lfd \in Fd
      /\ Lfd \notin Conn \cup {Failed}
  BY ServerAssumption DEF Inv, TypeOK, Conn
<1>2. CASE holder' = holder
  BY <1>2
<1>3. ASSUME NEW c \in Coroutine, Start(c) PROVE holder'[Lfd] # Null
  BY <1>1, <1>3 DEF Start, Spawn
<1>4. ASSUME NEW c \in Coroutine, Listener(c) PROVE holder'[Lfd] # Null
  <2>1. CASE Listen(c) \/ \E f \in Fd : AcceptOne(c, f)
    BY <1>1, <2>1, SchedulerAssumption DEF Listen, AcceptOne, Open
  <2>2. ASSUME NEW d \in Coroutine, HandOver(c, d) PROVE holder'[Lfd] # Null
    BY <1>1, <2>2, SchedulerAssumption DEF HandOver, Spawn
  <2>3. CASE ListenFails(c) \/ AcceptWait(c) \/ AcceptAgain(c) \/ AcceptFails(c)
    BY <1>2, <2>3 DEF ListenFails, AcceptWait, AcceptAgain, AcceptFails, Poll, Drain, vars,
       kernelVars
  <2> QED
    BY <1>4, <2>1, <2>2, <2>3 DEF Listener
<1>5. ASSUME NEW c \in Coroutine, Handler(c) PROVE holder'[Lfd] # Null
  <2>1. CASE CloseFd(c)
    <3>1. /\ fd[c] \in Fd /\ pc[c] = "close"
          /\ holder' = [holder EXCEPT ![fd[c]] = Null]
      BY <2>1 DEF CloseFd, Close, Held, At
    <3>2. fd[c] \in Conn \cup {Failed}
      BY <3>1 DEF ServerInv, Owns, HandlerPlaces
    <3> QED
      BY <1>1, <3>1, <3>2
  <2>2. CASE ~CloseFd(c)
    BY <1>2, <1>5, <2>2 DEF Handler, RecvWait, Read, ReplyWait, ReplySent, Return, Poll,
       Drain, Exit, vars, kernelVars
  <2> QED
    BY <2>1, <2>2
<1>6. CASE Connect \/ \E f \in Conn : Traffic(f)
  BY <1>2, <1>6 DEF Connect, Traffic, Arrive, vars, kernelVars
<1>7. CASE UNCHANGED allVars \/ (Stopped /\ UNCHANGED serverVars)
  BY <1>2, <1>7 DEF Stopped, allVars, vars, kernelVars
<1> QED
  BY <1>2, <1>3, <1>4, <1>5, <1>6, <1>7, SchedulerHolders DEF ServerNext

\* Once the listening socket is there nty_schedule_run does not return, so main never
\* leaves its call: the listener holds the socket and waits, is queued or runs whatever
\* else happens, and the loop ends only when nobody is left.
THEOREM ServerNeverReturns == ServerSpec => ServerRunsOn
<1>1. ASSUME Inv', ServerInv', holder'[Lfd] # Null, phase' = "returned" PROVE FALSE
  <2>1. holder'[Lfd] \in Coroutine /\ at'[holder'[Lfd]] = "free"
    BY <1>1, ServerAssumption DEF Inv, TypeOK, ReturnsWhenAllEnded
  <2>2. pc'[holder'[Lfd]] = "none"
    BY <1>1, <2>1 DEF ServerInv
  <2>3. pc'[holder'[Lfd]] \in Listening
    BY <1>1, ServerAssumption DEF ServerInv, Conn
  <2> QED
    BY <2>2, <2>3 DEF Listening, ListenerPlaces
<1>2. /\ Inv /\ ServerInv /\ Inv' /\ ServerInv' /\ [ServerNext]_allVars
      => [holder[Lfd] # Null => holder'[Lfd] # Null /\ phase' # "returned"]_allVars
  BY <1>1, ListenerStays
<1> QED
  BY <1>2, ServerSchedulerInv, ServerInvHolds, PTL DEF ServerSpec, ServerRunsOn

===============================================================================
