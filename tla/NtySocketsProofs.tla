--------------------------- MODULE NtySocketsProofs ---------------------------
(***************************************************************************)
(* Theorems about NtySockets, for any descriptors, limits and interleaving *)
(* with the peers: what a call returns is what the kernel did, no          *)
(* descriptor is forgotten but one, and only descriptors made without a    *)
(* scheduler block the thread.                                             *)
(***************************************************************************)
EXTENDS NtySockets, TLAPS

-------------------------------------------------------------------------------
(* The invariant *)

Kinds == {"closed", "new", "connecting", "made", "refused", "up", "dgram", "listening"}

Socks == [kind : Kinds, nonblock : BOOLEAN, plain : BOOLEAN, room : 0..Cap, avail : 0..Cap,
          end : {"open", "eof", "reset", "icmp", "gone"}]

Transfers == {"recv", "recvfrom", "send", "sendto"}

Frames == [call : Transfers \cup {"none", "socket", "accept", "connect"}, fd : Int, len : Nat,
           sent : Nat, first : BOOLEAN, ret : Int,
           at : {"kernel", "poll", "fcntl", "returned", "lost"}]

TypeInv ==
  /\ phase \in {"plain", "created", "running"}
  /\ sock \in [Fd -> Socks] /\ held \subseteq Fd /\ made \subseteq Fd
  /\ frame \in Frames /\ moved \in Nat

\* What the program has is open, and nonblocking unless it was made without a scheduler.
HeldInv ==
  \A fd \in held : sock[fd].kind # "closed" /\ (sock[fd].nonblock \/ sock[fd].plain)

\* Before and after the waits of a call: of what it did only a send has sent something,
\* and only in its first round it has not.
ProgressInv ==
  frame.at \in {"kernel", "poll"} =>
    /\ frame.call # "none" /\ made = {}
    /\ frame.call # "socket" => frame.fd \in held
    /\ moved = IF frame.call = "send" THEN frame.sent ELSE 0
    /\ frame.first => frame.sent = 0
    /\ Plain => frame.first /\ frame.at = "kernel"
    /\ frame.call = "connect" => sock[frame.fd].kind \in Connecting

\* The descriptor that fcntl is to make nonblocking is not yet the program's.
FcntlInv ==
  frame.at = "fcntl" =>
    /\ ~Plain /\ frame.call \in {"socket", "accept"}
    /\ made = {frame.ret} /\ frame.ret \in Fd \ held /\ sock[frame.ret].kind # "closed"

\* The socket of a connect that failed is not connected behind the program's back.
ReturnedInv ==
  frame.at = "returned" =>
    /\ frame.call \in Transfers => moved = IF frame.ret > 0 THEN frame.ret ELSE 0
    /\ frame.call = "connect" =>
         /\ frame.fd \in held
         /\ IF frame.ret = 0 THEN sock[frame.fd].kind = "up"
            ELSE sock[frame.fd].kind \in Connecting \cup {"listening"}

SocketsInv ==
  /\ TypeInv /\ HeldInv /\ ProgressInv /\ FcntlInv /\ ReturnedInv /\ NoneForgotten

-------------------------------------------------------------------------------
(* The kernel *)

\* A socket keeps what it is, whether it blocks and who made it.
Alike(s, t) == t.nonblock = s.nonblock /\ t.plain = s.plain

\* The socket after it was told its error.
LEMMA ToldSock ==
  ASSUME NEW s \in Socks, NEW o, o = Told(s)
  PROVE  /\ o.ret = -1 /\ o.sock \in Socks /\ Alike(s, o.sock) /\ o.sock.kind = s.kind
<1>1. CASE s.end = "icmp"
  <2> DEFINE t == [s EXCEPT !.end = "open"]
  <2>1. t \in Socks /\ Alike(s, t) /\ t.kind = s.kind
    BY DEF Socks, Alike
  <2>2. o = Outcome(-1, "ECONNREFUSED", t)
    BY <1>1 DEF Told
  <2> HIDE DEF t
  <2> QED
    BY <2>1, <2>2 DEF Outcome
<1>2. CASE s.end # "icmp"
  <2> DEFINE t == [s EXCEPT !.end = "gone", !.room = 0]
  <2>1. t \in Socks /\ Alike(s, t) /\ t.kind = s.kind
    <3> DEFINE u == [s EXCEPT !.end = "gone"]
    <3>1. u \in Socks /\ Alike(s, u) /\ u.kind = s.kind
      BY DEF Socks, Alike
    <3>2. t = [u EXCEPT !.room = 0]
      BY DEF Socks
    <3> HIDE DEF t, u
    <3> QED
      BY <3>1, <3>2, NtySocketsAssumption DEF Socks, Alike
  <2>2. o = Outcome(-1, "ECONNRESET", t)
    BY <1>2 DEF Told
  <2> HIDE DEF t
  <2> QED
    BY <2>1, <2>2 DEF Outcome
<1> QED
  BY <1>1, <1>2

\* A receive takes what it returns, and nothing else of the socket but its error.
LEMMA ReceiveSock ==
  ASSUME NEW s \in Socks, NEW len \in Int, NEW o \in OrAgain(Receives(s, len), s)
  PROVE  /\ o.ret \in Int /\ o.sock \in Socks /\ Alike(s, o.sock) /\ o.sock.kind = s.kind
<1>1. CASE HasError(s) /\ o = Told(s)
  BY <1>1, ToldSock
<1>2. CASE o = Outcome(0, "none", s) \/ o = Outcome(-1, "EAGAIN", s)
  BY <1>2 DEF Outcome, Alike
<1>3. ASSUME NEW n \in 1..len \cap 1..s.avail,
             o = Outcome(n, "none", [s EXCEPT !.avail = @ - n])
      PROVE  /\ o.ret \in Int /\ o.sock \in Socks /\ Alike(s, o.sock) /\ o.sock.kind = s.kind
  BY <1>3, NtySocketsAssumption DEF Outcome, Socks, Alike
<1>4. \/ HasError(s) /\ o = Told(s)
      \/ o = Outcome(0, "none", s) \/ o = Outcome(-1, "EAGAIN", s)
      \/ \E n \in 1..len \cap 1..s.avail : o = Outcome(n, "none", [s EXCEPT !.avail = @ - n])
  BY DEF OrAgain, Receives
<1> QED
  BY <1>1, <1>2, <1>3, <1>4

\* A send fills what it returns, and nothing else of the socket but its error.
LEMMA SendSock ==
  ASSUME NEW s \in Socks, NEW len \in Int, NEW o \in OrAgain(Sends(s, len), s)
  PROVE  /\ o.ret \in Int /\ o.sock \in Socks /\ Alike(s, o.sock) /\ o.sock.kind = s.kind
<1>1. CASE HasError(s) /\ o = Told(s)
  BY <1>1, ToldSock
<1>2. CASE o = Outcome(0, "none", s) \/ o = Outcome(-1, "EAGAIN", s) \/ o = Outcome(-1, "EPIPE", s)
  BY <1>2 DEF Outcome, Alike
<1>3. ASSUME NEW n \in 1..len \cap 1..s.room,
             o = Outcome(n, "none", [s EXCEPT !.room = @ - n])
      PROVE  /\ o.ret \in Int /\ o.sock \in Socks /\ Alike(s, o.sock) /\ o.sock.kind = s.kind
  BY <1>3, NtySocketsAssumption DEF Outcome, Socks, Alike
<1>4. \/ HasError(s) /\ o = Told(s)
      \/ o = Outcome(0, "none", s) \/ o = Outcome(-1, "EAGAIN", s) \/ o = Outcome(-1, "EPIPE", s)
      \/ \E n \in 1..len \cap 1..s.room : o = Outcome(n, "none", [s EXCEPT !.room = @ - n])
  BY DEF OrAgain, Sends
<1> QED
  BY <1>1, <1>2, <1>3, <1>4

\* A connect returns 0 iff the socket is connected then.
LEMMA ConnectSock ==
  ASSUME NEW s \in Socks, s.kind \in Connecting, NEW o \in Connects(s)
  PROVE  /\ o.sock \in Socks /\ Alike(s, o.sock) /\ o.ret \in {0, -1}
         /\ o.ret = 0 => o.sock.kind = "up" /\ o.errno = "none"
         /\ o.ret = -1 => o.sock.kind \in Connecting
<1>1. CASE s.kind = "connecting"
  <2>1. o = Outcome(-1, "EALREADY", s)
    BY <1>1 DEF Connects
  <2> QED
    BY <2>1 DEF Outcome, Alike
<1>2. CASE s.kind = "refused"
  <2> DEFINE t == [s EXCEPT !.kind = "new"]
  <2>1. o = Outcome(-1, "ECONNREFUSED", t)
    BY <1>2 DEF Connects
  <2>2. t \in Socks /\ Alike(s, t) /\ t.kind \in Connecting
    BY DEF Socks, Kinds, Alike, Connecting
  <2> HIDE DEF t
  <2> QED
    BY <2>1, <2>2 DEF Outcome
<1>3. ASSUME o = Outcome(0, "none", [s EXCEPT !.kind = "up", !.room = Cap])
      PROVE  /\ o.sock \in Socks /\ Alike(s, o.sock) /\ o.ret = 0
             /\ o.sock.kind = "up" /\ o.errno = "none"
  <2> DEFINE t == [s EXCEPT !.kind = "up", !.room = Cap]
  <2>1. t \in Socks /\ Alike(s, t) /\ t.kind = "up"
    <3> DEFINE u == [s EXCEPT !.kind = "up"]
    <3>1. u \in Socks /\ Alike(s, u) /\ u.kind = "up"
      BY DEF Socks, Kinds, Alike
    <3>2. t = [u EXCEPT !.room = Cap]
      BY DEF Socks
    <3> HIDE DEF t, u
    <3> QED
      BY <3>1, <3>2, NtySocketsAssumption DEF Socks, Alike
  <2>2. o = Outcome(0, "none", t)
    BY <1>3
  <2> HIDE DEF t
  <2> QED
    BY <2>1, <2>2 DEF Outcome
<1>4. CASE s.kind = "made"
  <2>1. o = Outcome(0, "none", [s EXCEPT !.kind = "up", !.room = Cap])
    BY <1>4 DEF Connects
  <2> QED
    BY <1>3, <2>1
<1>5. CASE s.kind = "new" /\ s.nonblock
  <2> DEFINE t == [s EXCEPT !.kind = "connecting"]
  <2>1. o = Outcome(-1, "EINPROGRESS", t)
    BY <1>5 DEF Connects
  <2>2. t \in Socks /\ Alike(s, t) /\ t.kind \in Connecting
    BY DEF Socks, Kinds, Alike, Connecting
  <2> HIDE DEF t
  <2> QED
    BY <2>1, <2>2 DEF Outcome
<1>6. CASE s.kind = "new" /\ ~s.nonblock
  <2>1. \/ o = Outcome(-1, "ECONNREFUSED", s)
        \/ o = Outcome(0, "none", [s EXCEPT !.kind = "up", !.room = Cap])
    BY <1>6 DEF Connects
  <2>2. CASE o = Outcome(-1, "ECONNREFUSED", s)
    BY <2>2 DEF Outcome, Alike
  <2> QED
    BY <1>3, <2>1, <2>2
<1> QED
  BY <1>1, <1>2, <1>4, <1>5, <1>6 DEF Connecting

\* The peers and the network change a socket, but not what it is; only a handshake ends.
LEMMA EnvironmentSocks ==
  ASSUME TypeInv, Environment
  PROVE  /\ sock' \in [Fd -> Socks]
         /\ \A fd \in Fd :
              /\ Alike(sock[fd], sock'[fd])
              /\ \/ sock'[fd].kind = sock[fd].kind
                 \/ sock[fd].kind = "connecting" /\ sock'[fd].kind \in {"made", "refused"}
<1> DEFINE Good(fd) ==
             /\ sock' = [sock EXCEPT ![fd] = sock'[fd]] /\ sock'[fd] \in Socks
             /\ Alike(sock[fd], sock'[fd])
             /\ \/ sock'[fd].kind = sock[fd].kind
                \/ sock[fd].kind = "connecting" /\ sock'[fd].kind \in {"made", "refused"}
<1>1. PICK fd \in Fd : Deliver(fd) \/ TakeAway(fd) \/ Withdraw(fd) \/ PeerEnds(fd) \/ Handshake(fd)
  BY DEF Environment
<1>2. sock \in [Fd -> Socks]
  BY DEF TypeInv
<1>3. CASE Deliver(fd)
  BY <1>2, <1>3, NtySocketsAssumption DEF Deliver, Alike, Socks
<1>4. CASE TakeAway(fd)
  BY <1>2, <1>4, NtySocketsAssumption DEF TakeAway, Alike, Socks
<1>5. CASE Withdraw(fd)
  BY <1>2, <1>5, NtySocketsAssumption DEF Withdraw, Alike, Socks
<1>6. CASE PeerEnds(fd)
  BY <1>2, <1>6, NtySocketsAssumption DEF PeerEnds, Alike, Socks
<1>7. CASE Handshake(fd)
  BY <1>2, <1>7, NtySocketsAssumption DEF Handshake, Alike, Socks, Kinds
<1> QED
  BY <1>1, <1>2, <1>3, <1>4, <1>5, <1>6, <1>7

-------------------------------------------------------------------------------
(* The steps *)

\* Nothing has been called at first.
LEMMA SocketsInvInit == SocketsInit => SocketsInv
<1> SUFFICES ASSUME SocketsInit PROVE SocketsInv
  OBVIOUS
<1>1. Closed \in Socks
  BY NtySocketsAssumption DEF Closed, Socks, Kinds
<1>2. Idle \in Frames /\ Idle.call = "none" /\ Idle.at = "returned"
  BY DEF Idle, Frames
<1>3. TypeInv
  BY <1>1, <1>2 DEF SocketsInit, TypeInv
<1>4. HeldInv /\ ProgressInv /\ FcntlInv /\ ReturnedInv /\ NoneForgotten
  BY <1>2 DEF SocketsInit, HeldInv, ProgressInv, FcntlInv, ReturnedInv, NoneForgotten, Transfers
<1> QED
  BY <1>3, <1>4 DEF SocketsInv

\* The peers leave a call alone, and what it returned true.
LEMMA EnvironmentInv ==
  ASSUME SocketsInv, Environment
  PROVE  SocketsInv'
<1>1. /\ sock' \in [Fd -> Socks]
      /\ \A fd \in Fd :
           /\ Alike(sock[fd], sock'[fd])
           /\ \/ sock'[fd].kind = sock[fd].kind
              \/ sock[fd].kind = "connecting" /\ sock'[fd].kind \in {"made", "refused"}
  BY EnvironmentSocks DEF SocketsInv
<1>2. UNCHANGED <<phase, held, frame, moved, made, fault>>
  BY DEF Environment
<1>3. held \subseteq Fd /\ made \subseteq Fd
  BY DEF SocketsInv, TypeInv
<1>4. TypeInv'
  BY <1>1, <1>2 DEF SocketsInv, TypeInv
<1>5. HeldInv'
  BY <1>1, <1>2, <1>3 DEF SocketsInv, HeldInv, Alike
<1>6. ProgressInv'
  BY <1>1, <1>2, <1>3 DEF SocketsInv, ProgressInv, Connecting, Plain
<1>7. FcntlInv'
  BY <1>1, <1>2 DEF SocketsInv, FcntlInv, Plain
<1>8. ReturnedInv'
  BY <1>1, <1>2, <1>3 DEF SocketsInv, ReturnedInv, Connecting
<1>9. NoneForgotten'
  BY <1>1, <1>2, <1>3 DEF SocketsInv, NoneForgotten
<1> QED
  BY <1>4, <1>5, <1>6, <1>7, <1>8, <1>9 DEF SocketsInv

\* Between calls the scheduler may come and go.
LEMMA ScheduleInv ==
  ASSUME SocketsInv, Schedule
  PROVE  SocketsInv'
<1>1. frame' = Idle /\ moved' = 0 /\ made' = {} /\ UNCHANGED <<sock, held>>
      /\ phase' \in {"plain", "created", "running"}
  BY DEF Schedule
<1>2. Idle \in Frames /\ Idle.call = "none" /\ Idle.at = "returned"
  BY DEF Idle, Frames
<1>3. TypeInv' /\ HeldInv'
  BY <1>1, <1>2 DEF SocketsInv, TypeInv, HeldInv
<1>4. ProgressInv' /\ FcntlInv' /\ ReturnedInv' /\ NoneForgotten'
  BY <1>1, <1>2 DEF ProgressInv, FcntlInv, ReturnedInv, NoneForgotten, Transfers
<1> QED
  BY <1>3, <1>4 DEF SocketsInv

\* A call starts with nothing done.
LEMMA StartInv ==
  ASSUME SocketsInv, NEW call \in Transfers \cup {"socket", "accept", "connect"}, NEW fd \in Int,
         NEW len \in Nat, NEW at \in {"kernel", "poll"}, Start(call, fd, len, at),
         call # "socket" => fd \in held, call = "connect" => sock[fd].kind \in Connecting
  PROVE  SocketsInv'
<1> DEFINE place == IF Plain THEN "kernel" ELSE at
<1>1. /\ frame' = [call |-> call, fd |-> fd, len |-> len, sent |-> 0, first |-> TRUE, ret |-> 0,
                   at |-> place]
      /\ moved' = 0 /\ made' = {} /\ UNCHANGED <<phase, sock, held>>
  BY DEF Start, Idle
<1>2. place \in {"kernel", "poll"} /\ (Plain => place = "kernel")
  OBVIOUS
<1> HIDE DEF place
<1>3. /\ frame' \in Frames /\ frame'.call = call /\ frame'.fd = fd /\ frame'.sent = 0
      /\ frame'.first = TRUE /\ frame'.at = place
  BY <1>1, <1>2 DEF Frames
<1>4. TypeInv' /\ HeldInv'
  BY <1>1, <1>3 DEF SocketsInv, TypeInv, HeldInv
<1>5. ProgressInv'
  BY <1>1, <1>2, <1>3 DEF ProgressInv, Plain, Transfers
<1>6. FcntlInv' /\ ReturnedInv' /\ NoneForgotten'
  BY <1>2, <1>3 DEF FcntlInv, ReturnedInv, NoneForgotten
<1> QED
  BY <1>4, <1>5, <1>6 DEF SocketsInv

\* Every call the program may make.
LEMMA CallInv ==
  ASSUME SocketsInv, Call
  PROVE  SocketsInv'
<1>1. CASE Start("socket", 0, 0, "kernel")
  <2> DEFINE z == 0
  <2>1. z \in Int /\ z \in Nat /\ Start("socket", z, z, "kernel")
    BY <1>1
  <2> HIDE DEF z
  <2> QED
    BY <2>1, StartInv
<1>2. ASSUME NEW call \in Transfers \cup {"accept", "connect"}, NEW kinds, NEW lens, lens \subseteq Nat,
             NEW at \in {"kernel", "poll"}, Ask(call, kinds, lens, at),
             call = "connect" => kinds = Connecting
      PROVE  SocketsInv'
  <2>1. PICK fd \in held, len \in lens : sock[fd].kind \in kinds /\ Start(call, fd, len, at)
    BY <1>2 DEF Ask
  <2>2. fd \in Int
    BY NtySocketsAssumption DEF SocketsInv, TypeInv
  <2>3. call \in Transfers \cup {"socket", "accept", "connect"} /\ len \in Nat
    BY <1>2, <2>1
  <2> QED
    BY <1>2, <2>1, <2>2, <2>3, StartInv
<1> DEFINE some == 1..MaxLen
           any == 0..MaxLen
           none == {0}
<1>3. some \subseteq Nat /\ any \subseteq Nat /\ none \subseteq Nat
  OBVIOUS
<1>4. \/ Start("socket", 0, 0, "kernel")
      \/ Ask("accept", {"listening"}, none, "poll")
      \/ Ask("connect", Connecting, none, "poll")
      \/ Ask("recv", {"up"}, some, "poll")
      \/ Ask("recvfrom", {"up", "dgram"}, some, "poll")
      \/ Ask("send", {"up"}, any, "kernel")
      \/ Ask("sendto", {"up", "dgram"}, some, "poll")
  BY DEF Call
<1> HIDE DEF some, any, none
<1>5. {"recv", "recvfrom", "send", "sendto", "accept", "connect"} \subseteq Transfers \cup {"accept", "connect"}
  BY DEF Transfers
<1>6. CASE Ask("accept", {"listening"}, none, "poll")
  BY <1>2, <1>3, <1>5, <1>6
<1>7. CASE Ask("connect", Connecting, none, "poll")
  BY <1>2, <1>3, <1>5, <1>7
<1>8. CASE Ask("recv", {"up"}, some, "poll")
  BY <1>2, <1>3, <1>5, <1>8
<1>9. CASE Ask("recvfrom", {"up", "dgram"}, some, "poll")
  BY <1>2, <1>3, <1>5, <1>9
<1>10. CASE Ask("send", {"up"}, any, "kernel")
  BY <1>2, <1>3, <1>5, <1>10
<1>11. CASE Ask("sendto", {"up", "dgram"}, some, "poll")
  BY <1>2, <1>3, <1>5, <1>11
<1> QED
  BY <1>1, <1>4, <1>6, <1>7, <1>8, <1>9, <1>10, <1>11

\* bind and listen leave a socket that was not connected unconnected.
LEMMA ListenInv ==
  ASSUME SocketsInv, NEW fd \in Fd, Listen(fd)
  PROVE  SocketsInv'
<1> DEFINE t == [sock[fd] EXCEPT !.kind = "listening"]
<1>1. /\ sock' = [sock EXCEPT ![fd] = t] /\ UNCHANGED <<phase, held, frame, moved, made>>
      /\ frame.at = "returned" /\ sock[fd].kind = "new"
  BY DEF Listen, SocketsInv, TypeInv
<1>2. t \in Socks /\ Alike(sock[fd], t) /\ t.kind = "listening"
  BY DEF SocketsInv, TypeInv, Socks, Kinds, Alike
<1> HIDE DEF t
<1>3. TypeInv'
  BY <1>1, <1>2 DEF SocketsInv, TypeInv
<1>4. HeldInv'
  BY <1>1, <1>2 DEF SocketsInv, TypeInv, HeldInv, Alike
<1>5. ProgressInv' /\ FcntlInv'
  BY <1>1 DEF ProgressInv, FcntlInv
<1>6. ReturnedInv'
  <2>1. held \subseteq Fd /\ sock \in [Fd -> Socks]
    BY DEF SocketsInv, TypeInv
  <2> QED
    BY <1>1, <1>2, <2>1 DEF SocketsInv, ReturnedInv, Connecting
<1>7. NoneForgotten'
  <2>1. held \subseteq Fd /\ made \subseteq Fd /\ sock \in [Fd -> Socks]
    BY DEF SocketsInv, TypeInv
  <2> QED
    BY <1>1, <1>2, <2>1 DEF SocketsInv, NoneForgotten
<1> QED
  BY <1>3, <1>4, <1>5, <1>6, <1>7 DEF SocketsInv

\* close, which takes a descriptor from the program.
LEMMA CloseInv ==
  ASSUME SocketsInv, NEW fd \in Fd, Close(fd)
  PROVE  SocketsInv'
<1>1. /\ sock' = [sock EXCEPT ![fd] = Closed] /\ held' = held \ {fd}
      /\ frame' = Idle /\ moved' = 0 /\ made' = {} /\ UNCHANGED phase
  BY DEF Close
<1>2. Idle \in Frames /\ Idle.call = "none" /\ Idle.at = "returned"
  BY DEF Idle, Frames
<1>3. Closed \in Socks
  BY NtySocketsAssumption DEF Closed, Socks, Kinds
<1>4. TypeInv'
  BY <1>1, <1>2, <1>3 DEF SocketsInv, TypeInv
<1>5. HeldInv'
  BY <1>1 DEF SocketsInv, TypeInv, HeldInv
<1>6. ProgressInv' /\ FcntlInv' /\ ReturnedInv' /\ NoneForgotten'
  BY <1>1, <1>2 DEF ProgressInv, FcntlInv, ReturnedInv, NoneForgotten, Transfers
<1> QED
  BY <1>4, <1>5, <1>6 DEF SocketsInv

\* A frame that only moves on keeps what it did.
LEMMA PollInv ==
  ASSUME SocketsInv, PollTooEarly \/ Poll
  PROVE  SocketsInv'
<1>1. UNCHANGED <<phase, sock, held, moved, made>> /\ frame.at = "poll"
  BY DEF PollTooEarly, Poll
<1>2. PICK at \in {"lost", "kernel"} : frame' = [frame EXCEPT !.at = at]
  BY DEF PollTooEarly, Poll
<1>3. /\ frame' \in Frames /\ frame'.at = at /\ frame'.call = frame.call /\ frame'.fd = frame.fd
      /\ frame'.sent = frame.sent /\ frame'.first = frame.first
  BY <1>2 DEF SocketsInv, TypeInv, Frames
<1>4. TypeInv' /\ HeldInv'
  BY <1>1, <1>3 DEF SocketsInv, TypeInv, HeldInv
<1>5. ProgressInv'
  BY <1>1, <1>3 DEF SocketsInv, ProgressInv, Plain
<1>6. FcntlInv' /\ ReturnedInv' /\ NoneForgotten'
  BY <1>3 DEF FcntlInv, ReturnedInv, NoneForgotten
<1> QED
  BY <1>4, <1>5, <1>6 DEF SocketsInv

\* The frame of a call that returns.
LEMMA ReturnFrame ==
  ASSUME TypeInv, NEW ret \in Int, Return(ret)
  PROVE  /\ frame' \in Frames /\ frame'.at = "returned" /\ frame'.ret = ret
         /\ frame'.call = frame.call /\ frame'.fd = frame.fd
<1>1. frame' = [call |-> frame.call, fd |-> frame.fd, len |-> 0, sent |-> 0, first |-> FALSE,
                ret |-> ret, at |-> "returned"]
  BY DEF Return, Idle
<1> QED
  BY <1>1 DEF TypeInv, Frames

\* A transfer of one socket that was open: what holds of all sockets still holds.
LEMMA MadeInv ==
  ASSUME SocketsInv, frame.at = "kernel", frame.call \in Transfers, NEW o, Made(o),
         o.ret \in Int, o.sock \in Socks, Alike(sock[frame.fd], o.sock),
         o.sock.kind = sock[frame.fd].kind, frame' \in Frames
  PROVE  TypeInv' /\ HeldInv' /\ made' = {}
<1>1. frame.fd \in held /\ made = {} /\ frame.fd \in Fd
  BY DEF SocketsInv, TypeInv, ProgressInv, Transfers
<1>2. /\ sock' = [sock EXCEPT ![frame.fd] = o.sock] /\ UNCHANGED <<phase, held, made>>
      /\ moved' = moved + (IF o.ret > 0 THEN o.ret ELSE 0)
  BY DEF Made
<1>3. moved' \in Nat
  BY <1>2 DEF SocketsInv, TypeInv
<1>4. TypeInv'
  BY <1>1, <1>2, <1>3 DEF SocketsInv, TypeInv
<1>5. HeldInv'
  BY <1>1, <1>2 DEF SocketsInv, TypeInv, HeldInv, Alike
<1> QED
  BY <1>1, <1>2, <1>4, <1>5

\* A transfer that returns what the kernel moved.
LEMMA ReturnInv ==
  ASSUME SocketsInv, frame.at = "kernel", frame.call \in Transfers, NEW o, Made(o),
         o.ret \in Int, o.sock \in Socks, Alike(sock[frame.fd], o.sock),
         o.sock.kind = sock[frame.fd].kind,
         NEW ret \in Int, Return(ret), moved' = IF ret > 0 THEN ret ELSE 0
  PROVE  SocketsInv'
<1>1. /\ frame' \in Frames /\ frame'.at = "returned" /\ frame'.ret = ret
      /\ frame'.call = frame.call /\ frame'.fd = frame.fd
  BY ReturnFrame DEF SocketsInv
<1>2. TypeInv' /\ HeldInv' /\ made' = {}
  BY <1>1, MadeInv
<1>3. ProgressInv' /\ FcntlInv' /\ NoneForgotten'
  BY <1>1, <1>2 DEF ProgressInv, FcntlInv, NoneForgotten
<1>4. ReturnedInv'
  BY <1>1 DEF ReturnedInv, Transfers
<1> QED
  BY <1>2, <1>3, <1>4 DEF SocketsInv

\* A transfer of any kind that dies in its assertion.
LEMMA LostInv ==
  ASSUME SocketsInv, frame.at = "kernel", frame.call \in Transfers, NEW o, Made(o),
         o.ret \in Int, o.sock \in Socks, Alike(sock[frame.fd], o.sock),
         o.sock.kind = sock[frame.fd].kind, frame' = [frame EXCEPT !.at = "lost"]
  PROVE  SocketsInv'
<1>1. frame' \in Frames /\ frame'.at = "lost"
  BY DEF SocketsInv, TypeInv, Frames
<1>2. TypeInv' /\ HeldInv' /\ made' = {}
  BY <1>1, MadeInv
<1>3. ProgressInv' /\ FcntlInv' /\ NoneForgotten' /\ ReturnedInv'
  BY <1>1 DEF ProgressInv, FcntlInv, NoneForgotten, ReturnedInv
<1> QED
  BY <1>2, <1>3 DEF SocketsInv

\* A receive, which returns what it took.
LEMMA RecvInv ==
  ASSUME SocketsInv, Recv
  PROVE  SocketsInv'
<1>1. /\ frame.at = "kernel" /\ frame.call = "recv" /\ frame.call \in Transfers
      /\ frame.fd \in Fd /\ sock[frame.fd] \in Socks /\ frame.len \in Int /\ moved = 0
  BY DEF Recv, SocketsInv, TypeInv, ProgressInv, Transfers, Frames
<1>2. PICK o \in OrAgain(Receives(sock[frame.fd], frame.len), sock[frame.fd]) :
        Made(o) /\ Return(o.ret)
  BY DEF Recv
<1>3. /\ o.ret \in Int /\ o.sock \in Socks /\ Alike(sock[frame.fd], o.sock)
      /\ o.sock.kind = sock[frame.fd].kind
  BY <1>1, ReceiveSock
<1>4. moved' = IF o.ret > 0 THEN o.ret ELSE 0
  BY <1>1, <1>2, <1>3 DEF Made
<1> DEFINE ret == o.ret
<1>5. ret \in Int /\ Return(ret) /\ moved' = IF ret > 0 THEN ret ELSE 0
  BY <1>2, <1>3, <1>4
<1> HIDE DEF ret
<1> QED
  BY <1>1, <1>2, <1>3, <1>5, ReturnInv

\* A transfer that returns, or asserts, as recvfrom and sendto do.
LEMMA SurvivesInv ==
  ASSUME SocketsInv, frame.at = "kernel", frame.call \in {"recvfrom", "sendto"}, NEW o, Made(o),
         o.ret \in Int, o.sock \in Socks, Alike(sock[frame.fd], o.sock),
         o.sock.kind = sock[frame.fd].kind, Survives(o)
  PROVE  SocketsInv'
<1>1. frame.call \in Transfers /\ moved = 0
  BY DEF SocketsInv, ProgressInv, Transfers
<1>2. moved' = IF o.ret > 0 THEN o.ret ELSE 0
  BY <1>1 DEF Made
<1>3. CASE Return(o.ret)
  <2> DEFINE ret == o.ret
  <2>1. ret \in Int /\ Return(ret) /\ moved' = IF ret > 0 THEN ret ELSE 0
    BY <1>2, <1>3
  <2> HIDE DEF ret
  <2> QED
    BY <1>1, <2>1, ReturnInv
<1>4. CASE Return(0) /\ ~(o.ret >= 0)
  <2> DEFINE ret == 0
  <2>1. ret \in Int /\ Return(ret) /\ moved' = IF ret > 0 THEN ret ELSE 0
    BY <1>2, <1>4
  <2> HIDE DEF ret
  <2> QED
    BY <1>1, <2>1, ReturnInv
<1>5. CASE frame' = [frame EXCEPT !.at = "lost"]
  BY <1>1, <1>5, LostInv
<1> QED
  BY <1>3, <1>4, <1>5 DEF Survives

\* recvfrom
LEMMA RecvFromInv ==
  ASSUME SocketsInv, RecvFrom
  PROVE  SocketsInv'
<1>1. /\ frame.at = "kernel" /\ frame.call \in {"recvfrom", "sendto"} /\ frame.call # "socket"
      /\ frame.fd \in Fd /\ sock[frame.fd] \in Socks /\ frame.len \in Int
  BY DEF RecvFrom, SocketsInv, TypeInv, ProgressInv, Frames
<1>2. PICK o \in OrAgain(Receives(sock[frame.fd], frame.len), sock[frame.fd]) :
        Made(o) /\ Survives(o)
  BY DEF RecvFrom
<1>3. /\ o.ret \in Int /\ o.sock \in Socks /\ Alike(sock[frame.fd], o.sock)
      /\ o.sock.kind = sock[frame.fd].kind
  BY <1>1, ReceiveSock
<1> QED
  BY <1>1, <1>2, <1>3, SurvivesInv

\* sendto
LEMMA SendToInv ==
  ASSUME SocketsInv, SendTo
  PROVE  SocketsInv'
<1>1. /\ frame.at = "kernel" /\ frame.call \in {"recvfrom", "sendto"} /\ frame.call # "socket"
      /\ frame.fd \in Fd /\ sock[frame.fd] \in Socks /\ frame.len \in Int
  BY DEF SendTo, SocketsInv, TypeInv, ProgressInv, Frames
<1>2. PICK o \in OrAgain(Sends(sock[frame.fd], frame.len), sock[frame.fd]) :
        Made(o) /\ Survives(o)
  BY DEF SendTo
<1>3. /\ o.ret \in Int /\ o.sock \in Socks /\ Alike(sock[frame.fd], o.sock)
      /\ o.sock.kind = sock[frame.fd].kind
  BY <1>1, SendSock
<1> QED
  BY <1>1, <1>2, <1>3, SurvivesInv

\* send: its loop counts what went out, and it returns that, or the error if nothing did.
LEMMA SendInv ==
  ASSUME SocketsInv, Send
  PROVE  SocketsInv'
<1>1. /\ frame.at = "kernel" /\ frame.call = "send" /\ frame.call \in Transfers
      /\ frame.fd \in Fd /\ sock[frame.fd] \in Socks /\ frame.len - frame.sent \in Int
      /\ frame.sent \in Nat /\ moved = frame.sent /\ frame.fd \in held /\ made = {}
  BY DEF Send, SocketsInv, TypeInv, ProgressInv, Frames, Transfers
<1>2. (frame.first => frame.sent = 0) /\ (Plain => frame.first)
  BY <1>1 DEF SocketsInv, ProgressInv
<1>3. PICK o \in OrAgain(Sends(sock[frame.fd], frame.len - frame.sent), sock[frame.fd]) :
        /\ Made(o)
        /\ IF Plain \/ (frame.first /\ o.ret = 0) THEN Return(o.ret)
           ELSE IF Sent(o.ret) < frame.len /\ (frame.first \/ o.ret > 0)
           THEN frame' = [frame EXCEPT !.sent = Sent(o.ret), !.first = FALSE, !.at = "poll"]
           ELSE Return(IF o.ret <= 0 /\ Sent(o.ret) = 0 THEN o.ret ELSE Sent(o.ret))
  BY DEF Send
<1>4. /\ o.ret \in Int /\ o.sock \in Socks /\ Alike(sock[frame.fd], o.sock)
      /\ o.sock.kind = sock[frame.fd].kind
  <2> DEFINE left == frame.len - frame.sent
             s == sock[frame.fd]
  <2>1. left \in Int /\ s \in Socks /\ o \in OrAgain(Sends(s, left), s)
    BY <1>1
  <2> HIDE DEF left, s
  <2>2. o.ret \in Int /\ o.sock \in Socks /\ Alike(s, o.sock) /\ o.sock.kind = s.kind
    BY <2>1, SendSock
  <2> QED
    BY <2>2 DEF s
<1> DEFINE sent == Sent(o.ret)
<1>5. /\ sent \in Nat /\ moved' = sent
      /\ o.ret > 0 => sent = frame.sent + o.ret
      /\ ~(o.ret > 0) => sent = frame.sent
  BY <1>1, <1>3, <1>4 DEF Sent, Made
<1>6. CASE Plain \/ (frame.first /\ o.ret = 0)
  <2> DEFINE ret == o.ret
  <2>1. ret \in Int /\ Return(ret) /\ moved' = IF ret > 0 THEN ret ELSE 0
    BY <1>2, <1>3, <1>4, <1>5, <1>6
  <2> HIDE DEF ret, sent
  <2> QED
    BY <1>1, <1>3, <1>4, <2>1, ReturnInv
<1>7. CASE frame' = [frame EXCEPT !.sent = sent, !.first = FALSE, !.at = "poll"] /\ ~Plain
  <2> HIDE DEF sent
  <2>1. frame' = [call |-> "send", fd |-> frame.fd, len |-> frame.len, sent |-> sent,
                  first |-> FALSE, ret |-> frame.ret, at |-> "poll"]
    BY <1>1, <1>7 DEF SocketsInv, TypeInv, Frames
  <2>2. /\ frame' \in Frames /\ frame'.call = "send" /\ frame'.fd = frame.fd
        /\ frame'.sent = sent /\ frame'.first = FALSE /\ frame'.at = "poll"
    BY <1>5, <2>1 DEF SocketsInv, TypeInv, Frames, Transfers
  <2>3. TypeInv' /\ HeldInv' /\ made' = {}
    BY <1>1, <1>3, <1>4, <2>2, MadeInv
  <2>4. held' = held /\ phase' = phase
    BY <1>3 DEF Made
  <2>5. ProgressInv'
    BY <1>1, <1>5, <1>7, <2>2, <2>3, <2>4 DEF ProgressInv, Plain
  <2>6. FcntlInv' /\ ReturnedInv' /\ NoneForgotten'
    BY <2>2 DEF FcntlInv, ReturnedInv, NoneForgotten
  <2> QED
    BY <2>3, <2>5, <2>6 DEF SocketsInv
<1>8. CASE Return(IF o.ret <= 0 /\ sent = 0 THEN o.ret ELSE sent)
  <2> DEFINE ret == IF o.ret <= 0 /\ sent = 0 THEN o.ret ELSE sent
  <2>1. ret \in Int /\ moved' = IF ret > 0 THEN ret ELSE 0
    <3> HIDE DEF sent
    <3> QED
      BY <1>4, <1>5
  <2>2. Return(ret)
    BY <1>8
  <2> HIDE DEF ret, sent
  <2> QED
    BY <1>1, <1>3, <1>4, <2>1, <2>2, ReturnInv
<1> QED
  BY <1>3, <1>6, <1>7, <1>8

\* connect: it returns 0 iff the kernel has connected the socket, however often it asks.
LEMMA ConnectInv ==
  ASSUME SocketsInv, Connect
  PROVE  SocketsInv'
<1>1. /\ frame.at = "kernel" /\ frame.call = "connect" /\ frame.fd \in held /\ frame.fd \in Fd
      /\ sock[frame.fd] \in Socks /\ sock[frame.fd].kind \in Connecting /\ made = {} /\ moved = 0
  BY DEF Connect, SocketsInv, TypeInv, ProgressInv
<1>2. PICK o \in Connects(sock[frame.fd]) :
        /\ Made(o)
        /\ IF ~Plain /\ o.errno \in {"EAGAIN", "EINPROGRESS"}
           THEN frame' = [frame EXCEPT !.at = "poll"]
           ELSE Return(o.ret)
  BY DEF Connect
<1>3. /\ o.sock \in Socks /\ Alike(sock[frame.fd], o.sock) /\ o.ret \in {0, -1}
      /\ o.ret = 0 => o.sock.kind = "up" /\ o.errno = "none"
      /\ o.ret = -1 => o.sock.kind \in Connecting
  BY <1>1, ConnectSock
<1>4. /\ sock' = [sock EXCEPT ![frame.fd] = o.sock] /\ UNCHANGED <<phase, held, made>>
      /\ moved' = 0 /\ sock'[frame.fd] = o.sock
  BY <1>1, <1>2, <1>3 DEF Made, SocketsInv, TypeInv
<1>5. o.sock.kind \in Connecting \cup {"up"}
  BY <1>3
<1>6. HeldInv'
  BY <1>1, <1>3, <1>4, <1>5 DEF SocketsInv, TypeInv, HeldInv, Alike, Connecting
<1>7. ASSUME frame' \in Frames PROVE TypeInv'
  BY <1>1, <1>3, <1>4, <1>7 DEF SocketsInv, TypeInv
<1>8. CASE frame' = [frame EXCEPT !.at = "poll"] /\ ~Plain /\ o.ret = -1
  <2>1. /\ frame' \in Frames /\ frame'.call = "connect" /\ frame'.fd = frame.fd
        /\ frame'.sent = frame.sent /\ frame'.first = frame.first /\ frame'.at = "poll"
    BY <1>1, <1>8 DEF SocketsInv, TypeInv, Frames
  <2>2. frame.first => frame.sent = 0
    BY <1>1 DEF SocketsInv, ProgressInv
  <2>3. ProgressInv'
    BY <1>1, <1>3, <1>4, <1>8, <2>1, <2>2 DEF ProgressInv, Plain
  <2>4. FcntlInv' /\ ReturnedInv' /\ NoneForgotten'
    BY <2>1 DEF FcntlInv, ReturnedInv, NoneForgotten
  <2> QED
    BY <1>6, <1>7, <2>1, <2>3, <2>4 DEF SocketsInv
<1>9. CASE Return(o.ret)
  <2> DEFINE ret == o.ret
  <2>1. ret \in Int /\ Return(ret)
    BY <1>3, <1>9
  <2> HIDE DEF ret
  <2>2. /\ frame' \in Frames /\ frame'.at = "returned" /\ frame'.ret = ret
        /\ frame'.call = "connect" /\ frame'.fd = frame.fd
    BY <1>1, <2>1, ReturnFrame DEF SocketsInv
  <2>3. ProgressInv' /\ FcntlInv' /\ NoneForgotten'
    BY <1>1, <1>4, <2>2 DEF ProgressInv, FcntlInv, NoneForgotten
  <2>4. IF ret = 0 THEN o.sock.kind = "up" ELSE o.sock.kind \in Connecting \cup {"listening"}
    BY <1>3 DEF ret
  <2>5. ReturnedInv'
    BY <1>1, <1>4, <2>2, <2>4 DEF ReturnedInv, Transfers
  <2> QED
    BY <1>6, <1>7, <2>2, <2>3, <2>5 DEF SocketsInv
<1>10. o.ret # -1 => o.errno = "none"
  BY <1>3
<1> QED
  BY <1>2, <1>3, <1>8, <1>9, <1>10

\* What an opened socket is.
LEMMA OpenedSock ==
  ASSUME NEW kind \in {"new", "dgram", "up"}
  PROVE  /\ Opened(kind) \in Socks /\ Opened(kind).kind = kind
         /\ Opened(kind).plain = Plain /\ Opened(kind).nonblock = FALSE
<1> DEFINE room == IF kind = "new" THEN 0 ELSE Cap
           plain == (phase = "plain")
<1>1. Opened(kind) = [Closed EXCEPT !.kind = kind, !.plain = plain, !.room = room]
  BY DEF Opened
<1>2. room \in 0..Cap /\ 0 \in 0..Cap /\ plain \in BOOLEAN /\ kind \in Kinds /\ plain = Plain
  BY NtySocketsAssumption DEF Kinds, Plain
<1> HIDE DEF room, plain
<1> DEFINE s == [Closed EXCEPT !.kind = kind]
           t == [s EXCEPT !.plain = plain]
<1>3. s \in Socks /\ s.kind = kind /\ s.nonblock = FALSE
  BY <1>2 DEF Closed, Socks
<1> HIDE DEF s
<1>4. t \in Socks /\ t.kind = kind /\ t.plain = plain /\ t.nonblock = FALSE
  BY <1>2, <1>3 DEF Socks
<1> HIDE DEF t
<1>5. Opened(kind) = [t EXCEPT !.room = room]
  BY <1>1 DEF s, t, Closed
<1>6. Opened(kind) \in Socks /\ Opened(kind).kind = kind
      /\ Opened(kind).plain = plain /\ Opened(kind).nonblock = FALSE
  <2> DEFINE u == [t EXCEPT !.room = room]
  <2>1. u \in Socks /\ u.kind = kind /\ u.plain = plain /\ u.nonblock = FALSE
    BY <1>2, <1>4 DEF Socks
  <2> HIDE DEF u
  <2> QED
    BY <1>5, <2>1 DEF u
<1> QED
  BY <1>2, <1>6

\* A descriptor that was made in a call is the program's at once only if it may block.
LEMMA NewInv ==
  ASSUME SocketsInv, frame.at = "kernel", frame.call \in {"socket", "accept"},
         NEW fd \in Free, NEW kind \in {"new", "dgram", "up"}, NEW all \in [Fd -> Socks],
         all[fd] = Opened(kind),
         \A other \in held : Alike(sock[other], all[other]) /\ all[other].kind = sock[other].kind,
         New(fd, all), UNCHANGED <<phase, moved>>
  PROVE  SocketsInv'
<1>1. fd \in Fd \ held /\ fd \in Int
  BY NtySocketsAssumption DEF Free, SocketsInv, TypeInv, HeldInv
<1>2. sock' = all /\ made' = {fd}
  BY DEF New
<1>3. all[fd].kind # "closed" /\ all[fd].plain = Plain
  BY OpenedSock
<1>4. moved = 0
  BY DEF SocketsInv, ProgressInv
<1>5. CASE ~Plain
  <2>1. held' = held /\ frame' = [frame EXCEPT !.ret = fd, !.at = "fcntl"]
    BY <1>5 DEF New, Unfinished
  <2>2. /\ frame' \in Frames /\ frame'.call = frame.call /\ frame'.ret = fd /\ frame'.at = "fcntl"
    <3> DEFINE f == [frame EXCEPT !.ret = fd]
    <3>1. f \in Frames /\ f.call = frame.call /\ f.ret = fd
      BY <1>1 DEF SocketsInv, TypeInv, Frames
    <3>2. frame' = [f EXCEPT !.at = "fcntl"]
      BY <2>1 DEF SocketsInv, TypeInv, Frames
    <3> HIDE DEF f
    <3> QED
      BY <3>1, <3>2 DEF Frames
  <2>3. TypeInv'
    BY <1>1, <1>2, <2>1, <2>2 DEF SocketsInv, TypeInv
  <2>4. HeldInv'
    BY <1>2, <2>1 DEF SocketsInv, HeldInv, Alike
  <2>5. FcntlInv'
    BY <1>1, <1>2, <1>3, <1>5, <2>1, <2>2 DEF FcntlInv, Plain
  <2>6. ProgressInv' /\ ReturnedInv' /\ NoneForgotten'
    BY <2>2 DEF ProgressInv, ReturnedInv, NoneForgotten
  <2> QED
    BY <2>3, <2>4, <2>5, <2>6 DEF SocketsInv
<1>6. CASE Plain
  <2>1. held' = held \cup {fd} /\ Return(fd)
    BY <1>6 DEF New, Unfinished
  <2>2. /\ frame' \in Frames /\ frame'.call = frame.call /\ frame'.ret = fd /\ frame'.at = "returned"
    BY <1>1, <2>1, ReturnFrame DEF SocketsInv
  <2>3. TypeInv'
    BY <1>1, <1>2, <2>1, <2>2 DEF SocketsInv, TypeInv
  <2>4. HeldInv'
    BY <1>2, <1>3, <1>6, <2>1 DEF SocketsInv, HeldInv, Alike
  <2>5. ProgressInv' /\ FcntlInv'
    BY <2>2 DEF ProgressInv, FcntlInv
  <2>6. ReturnedInv' /\ NoneForgotten'
    BY <1>2, <2>1, <2>2 DEF ReturnedInv, NoneForgotten, Transfers
  <2> QED
    BY <2>3, <2>4, <2>5, <2>6 DEF SocketsInv
<1> QED
  BY <1>5, <1>6

\* A socket or accept that fails has made nothing.
LEMMA NothingMadeInv ==
  ASSUME SocketsInv, frame.at = "kernel", frame.call \in {"socket", "accept"}, Return(-1),
         sock' \in [Fd -> Socks],
         \A fd \in held : Alike(sock[fd], sock'[fd]) /\ sock'[fd].kind = sock[fd].kind,
         UNCHANGED <<phase, moved, made, held>>
  PROVE  SocketsInv'
<1> DEFINE z == -1
<1>1. z \in Int /\ Return(z)
  OBVIOUS
<1> HIDE DEF z
<1>2. frame' \in Frames /\ frame'.call = frame.call /\ frame'.at = "returned"
  BY <1>1, ReturnFrame DEF SocketsInv
<1>3. made' = {}
  BY DEF SocketsInv, ProgressInv
<1>4. TypeInv' /\ HeldInv'
  BY <1>2 DEF SocketsInv, TypeInv, HeldInv, Alike
<1>5. ProgressInv' /\ FcntlInv' /\ ReturnedInv' /\ NoneForgotten'
  BY <1>2, <1>3 DEF ProgressInv, FcntlInv, ReturnedInv, NoneForgotten, Transfers
<1> QED
  BY <1>4, <1>5 DEF SocketsInv

\* socket
LEMMA SocketInv ==
  ASSUME SocketsInv, Socket
  PROVE  SocketsInv'
<1>1. frame.at = "kernel" /\ frame.call \in {"socket", "accept"} /\ UNCHANGED <<phase, moved>>
  BY DEF Socket
<1>2. sock \in [Fd -> Socks] /\ held \subseteq Fd
  BY DEF SocketsInv, TypeInv
<1>3. CASE Return(-1) /\ UNCHANGED <<sock, made, held>>
  BY <1>1, <1>2, <1>3, NothingMadeInv DEF Alike
<1>4. ASSUME NEW fd \in Free, NEW kind \in {"new", "dgram"},
             New(fd, [sock EXCEPT ![fd] = Opened(kind)])
      PROVE  SocketsInv'
  <2> DEFINE all == [sock EXCEPT ![fd] = Opened(kind)]
  <2>1. fd \in Fd /\ fd \notin held
    BY DEF Free, SocketsInv, HeldInv
  <2>2. Opened(kind) \in Socks
    BY OpenedSock
  <2>3. /\ all \in [Fd -> Socks] /\ all[fd] = Opened(kind)
        /\ \A other \in held : Alike(sock[other], all[other]) /\ all[other].kind = sock[other].kind
    BY <1>2, <2>1, <2>2 DEF Alike
  <2>4. New(fd, all) /\ kind \in {"new", "dgram", "up"}
    BY <1>4
  <2> HIDE DEF all
  <2> QED
    BY <1>1, <2>3, <2>4, NewInv
<1> QED
  BY <1>3, <1>4 DEF Socket

\* accept
LEMMA AcceptInv ==
  ASSUME SocketsInv, Accept
  PROVE  SocketsInv'
<1> DEFINE s == sock[frame.fd]
           fewer == [s EXCEPT !.avail = @ - 1]
<1>1. /\ frame.at = "kernel" /\ frame.call = "accept" /\ frame.call \in {"socket", "accept"}
      /\ UNCHANGED <<phase, moved>>
  BY DEF Accept
<1>2. sock \in [Fd -> Socks] /\ held \subseteq Fd /\ frame.fd \in held /\ frame.fd \in Fd
  BY <1>1 DEF SocketsInv, TypeInv, ProgressInv
<1>3. s \in Socks
  BY <1>2
<1>4. s.avail > 0 => fewer \in Socks /\ Alike(s, fewer) /\ fewer.kind = s.kind
  <2> HIDE DEF s
  <2> QED
    BY <1>3, NtySocketsAssumption DEF Socks, Alike
<1>5. ASSUME NEW fd \in Free, s.avail > 0,
             New(fd, [sock EXCEPT ![frame.fd].avail = @ - 1, ![fd] = Opened("up")])
      PROVE  SocketsInv'
  <2> DEFINE all == [sock EXCEPT ![frame.fd].avail = @ - 1, ![fd] = Opened("up")]
             kind == "up"
  <2>1. fd \in Fd /\ fd \notin held /\ fd # frame.fd
    BY <1>2 DEF Free, SocketsInv, HeldInv
  <2>2. Opened("up") \in Socks
    BY OpenedSock
  <2>3. /\ all \in [Fd -> Socks] /\ all[fd] = Opened("up") /\ all[frame.fd] = fewer
        /\ \A other \in Fd : other # fd /\ other # frame.fd => all[other] = sock[other]
    <3> DEFINE mid == [sock EXCEPT ![frame.fd] = fewer]
    <3>1. mid \in [Fd -> Socks] /\ mid[frame.fd] = fewer
          /\ \A other \in Fd : other # frame.fd => mid[other] = sock[other]
      <4> HIDE DEF fewer
      <4> QED
        BY <1>2, <1>4, <1>5
    <3>2. all = [mid EXCEPT ![fd] = Opened("up")]
      BY <1>2, <2>1
    <3> HIDE DEF mid, fewer, all
    <3> QED
      BY <2>1, <2>2, <3>1, <3>2
  <2>4. New(fd, all) /\ all[fd] = Opened(kind) /\ kind \in {"new", "dgram", "up"}
    BY <1>5, <2>3
  <2>5. \A other \in held : Alike(sock[other], all[other]) /\ all[other].kind = sock[other].kind
    <3> HIDE DEF all, fewer
    <3> QED
      BY <1>2, <1>4, <1>5, <2>1, <2>3 DEF Alike
  <2> HIDE DEF all, kind
  <2> QED
    BY <1>1, <2>3, <2>4, <2>5, NewInv
<1>6. CASE s.avail > 0 /\ sock' = [sock EXCEPT ![frame.fd].avail = @ - 1]
           /\ Return(-1) /\ UNCHANGED <<made, held>>
  <2>1. sock' = [sock EXCEPT ![frame.fd] = fewer]
    BY <1>2, <1>6
  <2> HIDE DEF fewer
  <2>2. sock' \in [Fd -> Socks]
        /\ \A fd \in held : Alike(sock[fd], sock'[fd]) /\ sock'[fd].kind = sock[fd].kind
    BY <1>2, <1>4, <1>6, <2>1 DEF Alike
  <2> QED
    BY <1>1, <1>6, <2>2, NothingMadeInv
<1>7. CASE Return(-1) /\ UNCHANGED <<sock, made, held>>
  BY <1>1, <1>2, <1>7, NothingMadeInv DEF Alike
<1>8. CASE ~Plain /\ frame' = [frame EXCEPT !.at = "poll"] /\ UNCHANGED <<sock, made, held>>
  <2>1. /\ frame' \in Frames /\ frame'.call = frame.call /\ frame'.fd = frame.fd
        /\ frame'.sent = frame.sent /\ frame'.first = frame.first /\ frame'.at = "poll"
    BY <1>8 DEF SocketsInv, TypeInv, Frames
  <2>2. TypeInv' /\ HeldInv'
    BY <1>1, <1>8, <2>1 DEF SocketsInv, TypeInv, HeldInv
  <2>3. ProgressInv'
    BY <1>1, <1>8, <2>1 DEF SocketsInv, ProgressInv, Plain
  <2>4. FcntlInv' /\ ReturnedInv' /\ NoneForgotten'
    BY <2>1 DEF FcntlInv, ReturnedInv, NoneForgotten
  <2> QED
    BY <2>2, <2>3, <2>4 DEF SocketsInv
<1> QED
  BY <1>5, <1>6, <1>7, <1>8 DEF Accept

\* fcntl after either: the descriptor becomes the program's, or is closed by accept only.
LEMMA FcntlStep ==
  ASSUME SocketsInv, Fcntl
  PROVE  SocketsInv'
<1> DEFINE new == frame.ret
<1>1. /\ frame.at = "fcntl" /\ ~Plain /\ frame.call \in {"socket", "accept"}
      /\ made = {new} /\ new \in Fd \ held /\ sock[new].kind # "closed" /\ new \in Int
      /\ sock \in [Fd -> Socks] /\ held \subseteq Fd
  BY NtySocketsAssumption DEF Fcntl, SocketsInv, TypeInv, FcntlInv
<1>2. UNCHANGED <<phase, moved, made>>
  BY DEF Fcntl
<1>3. CASE sock' = [sock EXCEPT ![new].nonblock = TRUE] /\ Return(new) /\ held' = held \cup {new}
  <2> HIDE DEF new
  <2>1. frame' \in Frames /\ frame'.call = frame.call /\ frame'.at = "returned" /\ frame'.ret = new
    BY <1>1, <1>3, ReturnFrame DEF SocketsInv
  <2>2. /\ sock' \in [Fd -> Socks] /\ sock'[new].nonblock /\ sock'[new].kind # "closed"
        /\ \A fd \in held : sock'[fd] = sock[fd]
    BY <1>1, <1>3 DEF Socks
  <2>3. TypeInv'
    BY <1>1, <1>2, <1>3, <2>1, <2>2 DEF SocketsInv, TypeInv
  <2>4. HeldInv'
    BY <1>1, <1>3, <2>2 DEF SocketsInv, HeldInv
  <2>5. ProgressInv' /\ FcntlInv' /\ ReturnedInv' /\ NoneForgotten'
    BY <1>1, <1>2, <1>3, <2>1 DEF ProgressInv, FcntlInv, ReturnedInv, NoneForgotten, Transfers
  <2> QED
    BY <2>3, <2>4, <2>5 DEF SocketsInv
<1>4. CASE sock' = [fd \in Fd |-> IF fd \in ClosedThen THEN Closed ELSE sock[fd]]
           /\ Return(-1) /\ UNCHANGED held
  <2> DEFINE z == -1
  <2>1. z \in Int /\ Return(z) /\ z = -1
    BY <1>4
  <2> HIDE DEF z
  <2>2. frame' \in Frames /\ frame'.call = frame.call /\ frame'.at = "returned" /\ frame'.ret = z
    BY <2>1, ReturnFrame DEF SocketsInv
  <2>3. Closed \in Socks /\ Closed.kind = "closed"
    BY NtySocketsAssumption DEF Closed, Socks, Kinds
  <2>4. /\ sock' \in [Fd -> Socks] /\ \A fd \in held : sock'[fd] = sock[fd]
        /\ frame.call = "accept" => sock'[new].kind = "closed"
    BY <1>1, <1>4, <2>3 DEF ClosedThen
  <2>5. TypeInv' /\ HeldInv'
    BY <1>2, <1>4, <2>2, <2>4 DEF SocketsInv, TypeInv, HeldInv
  <2>6. ProgressInv' /\ FcntlInv' /\ ReturnedInv'
    BY <1>1, <2>2 DEF ProgressInv, FcntlInv, ReturnedInv, Transfers
  <2>7. NoneForgotten'
    BY <1>1, <1>2, <2>1, <2>2, <2>4 DEF NoneForgotten
  <2> QED
    BY <2>5, <2>6, <2>7 DEF SocketsInv
<1> QED
  BY <1>3, <1>4 DEF Fcntl

-------------------------------------------------------------------------------
(* The theorems *)

\* The inductive invariant of the calls.
THEOREM SocketsInvHolds == SocketsSpec => []SocketsInv
<1>1. SocketsInv /\ [SocketsNext]_socketVars => SocketsInv'
  <2> SUFFICES ASSUME SocketsInv, [SocketsNext]_socketVars PROVE SocketsInv'
    OBVIOUS
  <2>1. CASE UNCHANGED socketVars
    BY <2>1 DEF socketVars, SocketsInv, TypeInv, HeldInv, ProgressInv, FcntlInv, ReturnedInv,
       NoneForgotten, Plain
  <2>2. ASSUME NEW fd \in Fd, Listen(fd) \/ Close(fd) PROVE SocketsInv'
    BY <2>2, ListenInv, CloseInv
  <2> QED
    BY <2>1, <2>2, EnvironmentInv, ScheduleInv, CallInv, PollInv, RecvInv, RecvFromInv, SendInv,
       SendToInv, ConnectInv, SocketInv, AcceptInv, FcntlStep DEF SocketsNext
<1> QED
  BY <1>1, SocketsInvInit, PTL DEF SocketsSpec

\* After any partial transfers, errors, waits and handshakes: a call returns as many bytes
\* as the kernel moved, and connect 0 iff the socket is connected.
THEOREM ResultsTell == SocketsSpec => []ResultTells
<1>1. ASSUME SocketsInv PROVE ResultTells
  <2>1. CASE frame.at = "returned"
    <3>1. "up" \notin Connecting \cup {"listening"}
      BY DEF Connecting
    <3> QED
      BY <1>1, <2>1, <3>1 DEF SocketsInv, ReturnedInv, ResultTells, Transfers
  <2> QED
    BY <2>1 DEF ResultTells
<1> QED
  BY <1>1, SocketsInvHolds, PTL

\* Of all the descriptors the kernel makes only that of a socket whose fcntl failed is
\* left open without the program having it.
THEOREM DescriptorsKept == SocketsSpec => []NoneForgotten
<1>1. SocketsInv => NoneForgotten
  BY DEF SocketsInv
<1> QED
  BY <1>1, SocketsInvHolds, PTL

\* Every other descriptor is nonblocking when the program gets it, so no coroutine's call
\* waits in the kernel on it.
THEOREM NobodyElseWaits == SocketsSpec => []OnlyPlainWaits
<1>1. ASSUME SocketsInv, Waits PROVE sock[frame.fd].plain
  <2>1. frame.at = "kernel" /\ frame.call # "socket" /\ ~sock[frame.fd].nonblock
    <3>1. frame.at = "kernel" /\ frame.call # "socket"
      BY <1>1 DEF Waits
    <3>2. ASSUME NEW possible, NEW s, OrAgain(possible, s) = {} PROVE ~s.nonblock
      BY <3>2 DEF OrAgain
    <3> QED
      BY <1>1, <3>1, <3>2 DEF Waits
  <2>2. frame.fd \in held
    BY <1>1, <2>1 DEF SocketsInv, ProgressInv
  <2> QED
    BY <1>1, <2>1, <2>2 DEF SocketsInv, HeldInv
<1>2. SocketsInv => OnlyPlainWaits
  BY <1>1 DEF OnlyPlainWaits
<1> QED
  BY <1>2, SocketsInvHolds, PTL
===============================================================================
