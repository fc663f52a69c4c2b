------------------------------- MODULE NtySockets -------------------------------
(***************************************************************************)
(* The socket functions of nty_socket.c, which replace those of libc: what *)
(* a program gets from its calls, and what the kernel did meanwhile.       *)
(*                                                                         *)
(* A thread without a scheduler makes the plain call.  Otherwise the call  *)
(* waits in nty_poll_inner until the descriptor is ready and then makes    *)
(* the plain call, on a descriptor that socket or accept made nonblocking. *)
(* Every call looks for the scheduler anew: the first coroutine a thread   *)
(* creates makes it, the end of nty_schedule_run frees it.                 *)
(*                                                                         *)
(* Waiting is one step here; NtyScheduler has what happens meanwhile.  The *)
(* functions read and write are recv and send without flags.               *)
(***************************************************************************)
EXTENDS Integers, FiniteSets

CONSTANTS
  Fd,          \* descriptors, all of them numbers
  Cap,         \* the most bytes, datagrams or connections a socket holds
  MaxLen       \* the most bytes a call asks for

ASSUME NtySocketsAssumption == Fd \subseteq Nat /\ Cap \in Nat \ {0} /\ MaxLen \in Nat

VARIABLES
  phase,       \* "plain", "created" before nty_schedule_run, "running"
  sock,        \* the kernel's sockets
  held,        \* the descriptors the program has
  frame,       \* the call: its name, argument, local variables and place
  moved,       \* how many bytes the kernel took or gave in this call
  made,        \* the descriptors it made in this call
  fault

socketVars == <<phase, sock, held, frame, moved, made, fault>>

----------------------------------------------------------------------------
(* The kernel.  room is how many bytes or datagrams may be written, avail  *)
(* how many may be read, or connections accepted; end is how a stream      *)
(* ended, or the error that waits on a datagram socket.                    *)

Closed ==
  [kind |-> "closed", nonblock |-> FALSE, plain |-> FALSE, room |-> 0, avail |-> 0, end |-> "open"]

Opened(kind) ==
  [Closed EXCEPT !.kind = kind, !.plain = (phase = "plain"),
                 !.room = IF kind = "new" THEN 0 ELSE Cap]

Free == {fd \in Fd : sock[fd].kind = "closed"}

Outcome(ret, errno, s) == [ret |-> ret, errno |-> errno, sock |-> s]

HasError(s) == s.end \in {"reset", "icmp"}

\* The error of a socket, which is told once.
Told(s) ==
  IF s.end = "icmp" THEN Outcome(-1, "ECONNREFUSED", [s EXCEPT !.end = "open"])
  ELSE Outcome(-1, "ECONNRESET", [s EXCEPT !.end = "gone", !.room = 0])

\* What the plain calls may do; nothing if they have to wait.
Receives(s, len) ==
  IF HasError(s) THEN {Told(s)}
  ELSE IF s.end # "open" /\ s.avail = 0 THEN {Outcome(0, "none", s)}
  ELSE {Outcome(n, "none", [s EXCEPT !.avail = @ - n]) : n \in 1..len \cap 1..s.avail}

Sends(s, len) ==
  IF HasError(s) THEN {Told(s)}
  ELSE IF s.end = "gone" THEN {Outcome(-1, "EPIPE", s)}
  ELSE IF len = 0 THEN {Outcome(0, "none", s)}
  ELSE {Outcome(n, "none", [s EXCEPT !.room = @ - n]) : n \in 1..len \cap 1..s.room}

Connects(s) ==
  CASE s.kind = "connecting" -> {Outcome(-1, "EALREADY", s)}
    [] s.kind = "refused"    -> {Outcome(-1, "ECONNREFUSED", [s EXCEPT !.kind = "new"])}
    [] s.kind = "new" /\ s.nonblock ->
         {Outcome(-1, "EINPROGRESS", [s EXCEPT !.kind = "connecting"])}
    [] s.kind = "new" /\ ~s.nonblock ->
         {Outcome(-1, "ECONNREFUSED", s),
          Outcome(0, "none", [s EXCEPT !.kind = "up", !.room = Cap])}
    [] s.kind = "made" -> {Outcome(0, "none", [s EXCEPT !.kind = "up", !.room = Cap])}

OrAgain(possible, s) ==
  IF possible = {} /\ s.nonblock THEN {Outcome(-1, "EAGAIN", s)} ELSE possible

\* What epoll reports of a descriptor.
Readable(s) == s.avail > 0 \/ s.end # "open"
Writable(s) == s.room > 0 \/ s.end \in {"reset", "icmp", "gone"} \/ s.kind \in {"new", "made", "refused"}

\* The peers' and the network's part.
Deliver(fd) ==
  /\ sock[fd].kind \in {"up", "dgram", "listening"} /\ sock[fd].end = "open"
  /\ sock[fd].avail < Cap
  /\ sock' = [sock EXCEPT ![fd].avail = @ + 1]

TakeAway(fd) ==
  /\ sock[fd].kind \in {"up", "dgram"} /\ sock[fd].end # "gone"
  /\ sock[fd].room < Cap
  /\ sock' = [sock EXCEPT ![fd].room = @ + 1]

\* A connection is aborted before it was accepted.
Withdraw(fd) ==
  /\ sock[fd].kind = "listening" /\ sock[fd].avail > 0
  /\ sock' = [sock EXCEPT ![fd].avail = @ - 1]

PeerEnds(fd) ==
  /\ sock[fd].end = "open"
  /\ \/ /\ sock[fd].kind = "up"
        /\ \E end \in {"eof", "reset"} : sock' = [sock EXCEPT ![fd].end = end]
     \/ /\ sock[fd].kind = "dgram"
        /\ sock' = [sock EXCEPT ![fd].end = "icmp"]

Handshake(fd) ==
  /\ sock[fd].kind = "connecting"
  /\ \E kind \in {"made", "refused"} : sock' = [sock EXCEPT ![fd].kind = kind]

Environment ==
  /\ \E fd \in Fd :
       Deliver(fd) \/ TakeAway(fd) \/ Withdraw(fd) \/ PeerEnds(fd) \/ Handshake(fd)
  /\ UNCHANGED <<phase, held, frame, moved, made, fault>>

----------------------------------------------------------------------------
(* The calls.  A frame is at "kernel" before the plain call, at "poll" in  *)
(* nty_poll_inner, at "fcntl" before fcntl, and "returned" at the end.     *)

Idle == [call |-> "none", fd |-> 0, len |-> 0, sent |-> 0, first |-> FALSE, ret |-> 0, at |-> "returned"]

SocketsInit ==
  /\ phase = "plain"
  /\ sock = [fd \in Fd |-> Closed]
  /\ held = {}
  /\ frame = Idle
  /\ moved = 0 /\ made = {}
  /\ fault = "none"

Plain == phase = "plain"

\* nty_schedule_create in the first nty_coroutine_create; nty_schedule_run, and
\* nty_schedule_free at its end.
Schedule ==
  /\ frame.at = "returned" /\ fault = "none"
  /\ phase' = CASE phase = "plain" -> "created" [] phase = "created" -> "running"
                [] OTHER -> "plain"
  /\ frame' = Idle /\ moved' = 0 /\ made' = {}
  /\ UNCHANGED <<sock, held, fault>>

\* The first thing a call does after it has looked for the scheduler.
Start(call, fd, len, at) ==
  /\ frame.at = "returned" /\ fault = "none"
  /\ frame' = [Idle EXCEPT !.call = call, !.fd = fd, !.len = len, !.first = TRUE,
                           !.at = IF Plain THEN "kernel" ELSE at]
  /\ moved' = 0 /\ made' = {}
  /\ UNCHANGED <<phase, sock, held, fault>>

Return(ret) == frame' = [Idle EXCEPT !.call = frame.call, !.fd = frame.fd, !.ret = ret]

Ask(call, kinds, lens, at) ==
  \E fd \in held, len \in lens : sock[fd].kind \in kinds /\ Start(call, fd, len, at)

Connecting == {"new", "connecting", "made", "refused"}

Call ==
  \/ Start("socket", 0, 0, "kernel")
  \/ Ask("accept", {"listening"}, {0}, "poll")
  \/ Ask("connect", Connecting, {0}, "poll")
  \/ Ask("recv", {"up"}, 1..MaxLen, "poll")
  \/ Ask("recvfrom", {"up", "dgram"}, 1..MaxLen, "poll")
  \/ Ask("send", {"up"}, 0..MaxLen, "kernel")
  \/ Ask("sendto", {"up", "dgram"}, 1..MaxLen, "poll")

\* bind and listen, which are not replaced.
Listen(fd) ==
  /\ frame.at = "returned" /\ fault = "none"
  /\ fd \in held /\ sock[fd].kind = "new"
  /\ sock' = [sock EXCEPT ![fd].kind = "listening"]
  /\ UNCHANGED <<phase, held, frame, moved, made, fault>>

Close(fd) ==
  /\ frame.at = "returned" /\ fault = "none"
  /\ fd \in held
  /\ sock' = [sock EXCEPT ![fd] = Closed]
  /\ held' = held \ {fd}
  /\ frame' = Idle /\ moved' = 0 /\ made' = {}
  /\ UNCHANGED <<phase, fault>>

\* nty_poll_inner up to the wait: outside nty_schedule_run no coroutine is current.
PollTooEarly ==
  /\ frame.at = "poll" /\ phase = "created"
  /\ fault' = "null"
  /\ frame' = [frame EXCEPT !.at = "lost"]
  /\ UNCHANGED <<phase, sock, held, moved, made>>

ToRead == {"accept", "recv", "recvfrom"}

Poll ==
  /\ frame.at = "poll" /\ phase = "running"
  /\ IF frame.call \in ToRead THEN Readable(sock[frame.fd]) ELSE Writable(sock[frame.fd])
  /\ frame' = [frame EXCEPT !.at = "kernel"]
  /\ UNCHANGED <<phase, sock, held, moved, made, fault>>

\* The plain call o has returned.
Made(o) ==
  /\ sock' = [sock EXCEPT ![frame.fd] = o.sock]
  /\ moved' = moved + (IF o.ret > 0 THEN o.ret ELSE 0)
  /\ UNCHANGED <<phase, held, made>>

Recv ==
  /\ frame.at = "kernel" /\ frame.call = "recv"
  /\ \E o \in OrAgain(Receives(sock[frame.fd], frame.len), sock[frame.fd]) :
       Made(o) /\ Return(o.ret)
  /\ UNCHANGED fault

\* Of errors but these two recvfrom and sendto die in assert(0).
Survives(o) ==
  IF Plain \/ o.ret >= 0 \/ o.errno = "EAGAIN" THEN Return(o.ret) /\ UNCHANGED fault
  ELSE IF o.errno = "ECONNRESET" THEN Return(0) /\ UNCHANGED fault
  ELSE fault' = "assert" /\ frame' = [frame EXCEPT !.at = "lost"]

RecvFrom ==
  /\ frame.at = "kernel" /\ frame.call = "recvfrom"
  /\ \E o \in OrAgain(Receives(sock[frame.fd], frame.len), sock[frame.fd]) :
       Made(o) /\ Survives(o)

SendTo ==
  /\ frame.at = "kernel" /\ frame.call = "sendto"
  /\ \E o \in OrAgain(Sends(sock[frame.fd], frame.len), sock[frame.fd]) :
       Made(o) /\ Survives(o)

\* Mutant: the bytes of the first send are not counted.
SentFirst(ret) == IF ret > 0 /\ ~frame.first THEN frame.sent + ret ELSE frame.sent

\* sent, after a send that returned ret.
Sent(ret) == IF ret > 0 THEN frame.sent + ret ELSE frame.sent

\* The loop goes on until all is sent or a send after the first fails.
Send ==
  /\ frame.at = "kernel" /\ frame.call = "send"
  /\ \E o \in OrAgain(Sends(sock[frame.fd], frame.len - frame.sent), sock[frame.fd]) :
       /\ Made(o)
       /\ IF Plain \/ (frame.first /\ o.ret = 0) THEN Return(o.ret)
          ELSE IF Sent(o.ret) < frame.len /\ (frame.first \/ o.ret > 0)
          THEN frame' = [frame EXCEPT !.sent = Sent(o.ret), !.first = FALSE, !.at = "poll"]
          ELSE Return(IF o.ret <= 0 /\ Sent(o.ret) = 0 THEN o.ret ELSE Sent(o.ret))
  /\ UNCHANGED fault

Connect ==
  /\ frame.at = "kernel" /\ frame.call = "connect"
  /\ \E o \in Connects(sock[frame.fd]) :
       /\ Made(o)
       /\ IF ~Plain /\ o.errno \in {"EAGAIN", "EINPROGRESS"}
          THEN frame' = [frame EXCEPT !.at = "poll"]
          ELSE Return(o.ret)
  /\ UNCHANGED fault

\* Mutant: what accept returns stays blocking.
UnfinishedSocket == ~Plain /\ frame.call = "socket"

\* Whether a new descriptor is still to be made nonblocking.
Unfinished == ~Plain

\* The kernel has made a descriptor.
New(fd, all) ==
  /\ sock' = all
  /\ made' = {fd}
  /\ IF Unfinished
     THEN frame' = [frame EXCEPT !.ret = fd, !.at = "fcntl"] /\ UNCHANGED held
     ELSE Return(fd) /\ held' = held \cup {fd}

Socket ==
  /\ frame.at = "kernel" /\ frame.call = "socket"
  /\ \/ \E fd \in Free, kind \in {"new", "dgram"} : New(fd, [sock EXCEPT ![fd] = Opened(kind)])
     \/ Free = {} /\ Return(-1) /\ UNCHANGED <<sock, made, held>>
  /\ UNCHANGED <<phase, moved, fault>>

\* The kernel reports some aborted connections and withdraws others.
Accept ==
  /\ frame.at = "kernel" /\ frame.call = "accept"
  /\ LET s == sock[frame.fd] IN
       \/ /\ s.avail > 0
          /\ \E fd \in Free :
               New(fd, [sock EXCEPT ![frame.fd].avail = @ - 1, ![fd] = Opened("up")])
       \/ /\ s.avail > 0
          /\ sock' = [sock EXCEPT ![frame.fd].avail = @ - 1]
          /\ Return(-1) /\ UNCHANGED <<made, held>>
       \/ /\ s.avail > 0 /\ Free = {}
          /\ Return(-1) /\ UNCHANGED <<sock, made, held>>
       \/ /\ s.avail = 0 /\ s.nonblock
          /\ IF Plain THEN Return(-1) ELSE frame' = [frame EXCEPT !.at = "poll"]
          /\ UNCHANGED <<sock, made, held>>
  /\ UNCHANGED <<phase, moved, fault>>

\* Mutant: accept closes what fcntl returned, as socket does.
ClosedThenNone == {}

\* What close gets when fcntl has failed: accept's descriptor, but in socket the
\* result of fcntl, which is no descriptor.
ClosedThen == IF frame.call = "accept" THEN {frame.ret} ELSE {}

Fcntl ==
  /\ frame.at = "fcntl"
  /\ \/ /\ sock' = [sock EXCEPT ![frame.ret].nonblock = TRUE]
        /\ Return(frame.ret)
        /\ held' = held \cup {frame.ret}
     \/ /\ sock' = [fd \in Fd |-> IF fd \in ClosedThen THEN Closed ELSE sock[fd]]
        /\ Return(-1)
        /\ UNCHANGED held
  /\ UNCHANGED <<phase, moved, made, fault>>

SocketsNext ==
  \/ Environment
  \/ Schedule
  \/ Call
  \/ \E fd \in Fd : Listen(fd) \/ Close(fd)
  \/ PollTooEarly \/ Poll
  \/ Recv \/ RecvFrom \/ Send \/ SendTo \/ Connect \/ Socket \/ Accept \/ Fcntl

SocketsSpec == SocketsInit /\ [][SocketsNext]_socketVars

----------------------------------------------------------------------------
(* Properties.                                                             *)

\* Whatever loops, partial transfers, errors and retries a call went through,
\* its result is what happened in the kernel: as many bytes as it says were sent
\* or received, none if it failed (nty_socket.c:385-560), and a connect returns
\* 0 iff there is a connection (nty_socket.c:619-650).
ResultTells ==
  frame.at = "returned" =>
    /\ frame.call \in {"recv", "recvfrom", "send", "sendto"} =>
         moved = IF frame.ret > 0 THEN frame.ret ELSE 0
    /\ frame.call = "connect" => (frame.ret = 0 <=> sock[frame.fd].kind = "up")

\* A descriptor that the kernel made in a call is returned by it or closed, except
\* that socket leaves it open when fcntl fails (nty_socket.c:374-378, 599-603).
NoneForgotten ==
  frame.at = "returned" =>
    \A fd \in made :
      \/ frame.ret = fd /\ fd \in held
      \/ frame.ret = -1 /\ (sock[fd].kind = "closed" \/ frame.call = "socket")

\* The plain call of a coroutine would wait in the kernel.
Waits ==
  /\ frame.at = "kernel" /\ phase = "running"
  /\ LET s == sock[frame.fd] IN
       CASE frame.call \in {"recv", "recvfrom"} -> OrAgain(Receives(s, frame.len), s) = {}
         [] frame.call \in {"send", "sendto"} -> OrAgain(Sends(s, frame.len - frame.sent), s) = {}
         [] frame.call = "accept" -> s.avail = 0 /\ ~s.nonblock
         [] frame.call = "connect" -> s.kind = "new" /\ ~s.nonblock
         [] OTHER -> FALSE

\* Only a descriptor made when the thread had no scheduler makes a coroutine wait
\* in the kernel, and all others with it (nty_socket.c:364-367, 389-392).
OnlyPlainWaits == Waits => sock[frame.fd].plain
===============================================================================
