------------------------------- MODULE RpcServer -------------------------------
(***************************************************************************)
(* rpc_server.c on the coroutine scheduler: main starts one coroutine, the *)
(* listener, which accepts connections and creates a coroutine for each.   *)
(*                                                                         *)
(* Every step of the server's program is a step of NtyScheduler taken at a *)
(* certain point of the program, so that this module refines NtyScheduler. *)
(* What the bytes say is left to RpcSession, with the ways in which they   *)
(* end the process: here recv returns something or nothing, and the CRC    *)
(* holds or not.                                                           *)
(***************************************************************************)
EXTENDS NtyScheduler

CONSTANTS
  Lfd,         \* the listening socket
  Failed,      \* -1, what accept returns when it fails
  Aborting,    \* whether accept may fail although a descriptor is free
  MaxClients   \* bound on the clients connected at a time

ASSUME ServerAssumption ==
  /\ Lfd \in Fd \ Invalid
  /\ Invalid = {Failed} /\ Failed \in Fd
  /\ SleepArgs = {}
  /\ Aborting \in BOOLEAN
  /\ MaxClients \in Nat

VARIABLES
  pc,      \* where in rpc_listen or rpc_handle each coroutine is
  fd,      \* cli_fd of the listener, fd of a handler
  backlog  \* connections the kernel holds for accept

serverVars == <<pc, fd, backlog>>
allVars == <<vars, serverVars>>

ListenerPlaces == {"listen", "accept", "accepting", "hand_over"}
Listening      == ListenerPlaces \ {"listen"}
HandlerPlaces  == {"header", "header_in", "body", "body_in", "reply", "close", "end"}

Conn == Fd \ {Lfd, Failed}

At(c, place) == Running(c) /\ c # Null /\ pc[c] = place
Go(c, place) == pc' = [pc EXCEPT ![c] = place]

-------------------------------------------------------------------------------
(* main and rpc_listen *)

\* main creates the listener.
Start(d) ==
  /\ \A c \in Coroutine : pc[c] = "none"
  /\ Spawn(Null, d, {})
  /\ Go(d, "listen")
  /\ UNCHANGED <<fd, backlog>>

\* socket, bind and listen; what bind and listen return is not looked at.
Listen(c) ==
  /\ At(c, "listen")
  /\ Open(c, Lfd)
  /\ Go(c, "accept")
  /\ UNCHANGED <<fd, backlog>>

\* socket failed: the listener returns, and with it nty_schedule_run.
ListenFails(c) ==
  /\ At(c, "listen")
  /\ Go(c, "end")
  /\ UNCHANGED <<vars, fd, backlog>>

\* accept waits for a connection before it looks for one.
AcceptWait(c) ==
  /\ At(c, "accept")
  /\ Poll(c, Lfd, "in")
  /\ Go(c, "accepting")
  /\ UNCHANGED <<fd, backlog>>

\* EAGAIN: accept waits again.
AcceptAgain(c) ==
  /\ At(c, "accepting")
  /\ backlog = 0
  /\ Drain(c, Lfd)
  /\ Go(c, "accept")
  /\ UNCHANGED <<fd, backlog>>

AcceptOne(c, f) ==
  /\ At(c, "accepting")
  /\ backlog > 0
  /\ f \in Conn
  /\ Open(c, f)
  /\ Go(c, "hand_over")
  /\ fd' = [fd EXCEPT ![c] = f]
  /\ backlog' = backlog - 1

\* accept returns -1, which rpc_listen does not test.  With EMFILE, no descriptor being
\* left, and with other errors the connection stays where it is; it is gone if the client
\* aborted it (ECONNABORTED), or if fcntl failed on the new socket and accept closed it.
AcceptFails(c) ==
  /\ At(c, "accepting")
  /\ backlog > 0
  /\ \/ (\A f \in Conn : holder[f] # Null) /\ backlog' = backlog
     \/ Aborting /\ backlog' \in {backlog, backlog - 1}
  /\ Go(c, "hand_over")
  /\ fd' = [fd EXCEPT ![c] = Failed]
  /\ UNCHANGED vars

\* A coroutine for the connection, with its descriptor in memory of its own.
HandOver(c, d) ==
  /\ At(c, "hand_over")
  /\ Spawn(c, d, {fd[c]} \ {Failed})
  /\ pc' = [pc EXCEPT ![c] = "accept", ![d] = "header"]
  /\ fd' = [fd EXCEPT ![c] = Null, ![d] = fd[c]]
  /\ UNCHANGED backlog

-------------------------------------------------------------------------------
(* rpc_handle *)

\* recv of the header, of the payload: wait, then read what is there.
RecvWait(c, place, next) ==
  /\ At(c, place)
  /\ Poll(c, fd[c], "in")
  /\ Go(c, next)
  /\ UNCHANGED <<fd, backlog>>

\* The recv took all that had come, or left some for the next one.
Read(c, place, next) ==
  /\ At(c, place)
  /\ Drain(c, fd[c]) \/ UNCHANGED vars
  /\ Go(c, next)
  /\ UNCHANGED <<fd, backlog>>

\* Mutant: the loop is left by a return that skips close.
AfterHeaderReturns == {"body", "header", "end"}

\* A header, then the payload; or no memory for the payload, and the loop goes on with
\* what follows as the next header; or nothing: the client closed.
AfterHeader == {"body", "header", "close"}

\* A payload whose CRC holds is answered; otherwise the loop is left.
AfterBody == {"reply", "close"}

\* Both sends of the answer: each may find the socket's buffer full, waits until
\* it can go on, and ends when all is sent or the client is gone.
ReplyWait(c) ==
  /\ At(c, "reply")
  /\ Poll(c, fd[c], "out")
  /\ UNCHANGED serverVars

ReplySent(c) ==
  /\ At(c, "reply")
  /\ Go(c, "header")
  /\ UNCHANGED <<vars, fd, backlog>>

CloseFd(c) ==
  /\ At(c, "close")
  /\ Close(c, fd[c])
  /\ Go(c, "end")
  /\ UNCHANGED <<fd, backlog>>

Return(c) ==
  /\ At(c, "end")
  /\ Exit(c)
  /\ Go(c, "none")
  /\ fd' = [fd EXCEPT ![c] = Null]
  /\ UNCHANGED backlog

-------------------------------------------------------------------------------
(* The clients *)

Clients == backlog + Cardinality({f \in Conn : holder[f] # Null})

\* The kernel queues a connection for the listening socket.
Connect ==
  /\ Clients < MaxClients
  /\ fault = "none" /\ holder[Lfd] # Null
  /\ backlog' = backlog + 1
  /\ IF Lfd \in isReady THEN UNCHANGED vars ELSE Arrive(Lfd)
  /\ UNCHANGED <<pc, fd>>

\* Bytes, room to send, or the end of a client.
Traffic(f) == Arrive(f) /\ UNCHANGED serverVars

-------------------------------------------------------------------------------
ServerInit ==
  /\ Init
  /\ pc = [c \in Coroutine |-> "none"]
  /\ fd = [c \in Coroutine |-> Null]
  /\ backlog = 0

Listener(c) ==
  \/ Listen(c) \/ ListenFails(c) \/ AcceptWait(c) \/ AcceptAgain(c) \/ AcceptFails(c)
  \/ \E f \in Fd : AcceptOne(c, f)
  \/ \E d \in Coroutine : HandOver(c, d)

Handler(c) ==
  \/ RecvWait(c, "header", "header_in")
  \/ \E next \in AfterHeader : Read(c, "header_in", next)
  \/ RecvWait(c, "body", "body_in")
  \/ \E next \in AfterBody : Read(c, "body_in", next)
  \/ ReplyWait(c) \/ ReplySent(c)
  \/ CloseFd(c) \/ Return(c)

ServerNext ==
  \/ Scheduler /\ UNCHANGED serverVars
  \/ \E c \in Coroutine : Start(c) \/ Listener(c) \/ Handler(c)
  \/ Connect
  \/ \E f \in Conn : Traffic(f)
  \/ Stopped /\ UNCHANGED serverVars

ServerSpec == ServerInit /\ [][ServerNext]_allVars

\* The loop of nty_schedule_run goes on, and so does the coroutine it resumed;
\* the clients and the network may stop at any time.
FairServerSpec ==
  /\ ServerSpec
  /\ WF_allVars(Scheduler /\ UNCHANGED serverVars)
  /\ WF_allVars(\E c \in Coroutine : Listener(c) \/ Handler(c))
-------------------------------------------------------------------------------
(* Properties *)

\* Where a coroutine owns a connection.
Owns == (HandlerPlaces \ {"end"}) \cup {"hand_over"}

\* Every open connection has one handler, or is on its way to one, and a handler
\* reads, answers and closes no connection but its own, however often numbers
\* and coroutines are reused: none is leaked, none is closed twice.
OneHandlerEach ==
  /\ \A f \in Conn : holder[f] # Null =>
       fd[holder[f]] = f /\ pc[holder[f]] \in Owns
  /\ \A c \in Coroutine :
       pc[c] \in Owns /\ fd[c] # Failed => holder[fd[c]] = c

\* What every step of the server keeps, and OneHandlerEach follows from: a
\* descriptor belongs to the listener or to the connection's owner, an owner has
\* its descriptor open, and a freed coroutine owns nothing.
ServerInv ==
  /\ pc \in [Coroutine -> ListenerPlaces \cup HandlerPlaces \cup {"none"}]
  /\ fd \in [Coroutine -> Conn \cup {Failed, Null}]
  /\ \A c \in Coroutine : at[c] = "free" <=> pc[c] = "none"
  /\ \A f \in Fd : holder[f] # Null =>
       \/ f = Lfd /\ pc[holder[f]] \in Listening
       \/ f \in Conn /\ fd[holder[f]] = f /\ pc[holder[f]] \in Owns
  /\ \A c \in Coroutine : pc[c] \in Owns =>
       \/ fd[c] = Failed
       \/ fd[c] \in Conn /\ holder[fd[c]] = c

\* Once the listening socket is there it stays, and nty_schedule_run does not return in
\* the server's main: the listener is always there to be resumed, however accepts and
\* connections fail.
ServerRunsOn ==
  [][holder[Lfd] # Null => holder'[Lfd] # Null /\ phase' # "returned"]_allVars

\* The handlers of connections that accept failed to make.
Stillborn == {c \in Coroutine : fd[c] = Failed /\ pc[c] \in HandlerPlaces}

\* Nothing the server does ends the process, unless accept failed twice and two
\* handlers meet on the descriptor -1: closing, reusing and handing over
\* descriptors between an event and its dispatch never does.
FaultsOnlyOnFailed ==
  fault # "none" => fault = "occupied" /\ \E c, d \in Stillborn : c # d

\* While no assertion ended the process, a connection that waits is accepted,
\* whatever the handlers do.
Accepted == backlog > 0 ~> fault # "none" \/ \E c \in Coroutine : pc[c] = "hand_over"

\* While no assertion ended the process, a listener or handler whose descriptor is
\* ready is resumed, whatever the others do: the server's coroutines leave the
\* ready queue empty again and again.
DescriptorsServed ==
  \A f \in Fd : f \in isReady /\ waiting[f] # Null ~> fault # "none" \/ waiting[f] = Null
===============================================================================
