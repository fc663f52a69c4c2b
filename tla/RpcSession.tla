------------------------------ MODULE RpcSession ------------------------------
(***************************************************************************)
(* One remote call end to end: rpc_client_session in the client process,   *)
(* rpc_handle in the server process, and the TCP connection between them.  *)
(*                                                                         *)
(* Every call has a connection of its own: a frame (header, then payload)  *)
(* goes up, one comes back.  Both sides read with one recv per header and  *)
(* one per payload, and recv returns what has arrived, not what was asked  *)
(* for.  The handlers of all connections run in one server process, so an  *)
(* assertion or memory error in one of them ends them all.                 *)
(*                                                                         *)
(* A byte is what it was sent as.  The CRC of a byte sequence is the       *)
(* sequence itself: collisions are left out.  Memory may run out where the *)
(* session and the server call rpc_malloc; what cJSON makes of a want of  *)
(* memory is the subject of RpcWire.                                       *)
(***************************************************************************)
EXTENDS Naturals, Sequences

CONSTANTS
  Call,        \* calls of rpc_client_session
  Request,     \* payloads the clients send
  Reply,       \* payloads the handlers produce
  Response,    \* what rpc_process makes of a request, Null if no method matches
  Length,      \* strlen of each payload
  Base,        \* a length travels as two digits of this base: 256 in the code
  Network,     \* the kinds of surroundings: "whole" if the bytes of one send always
               \* arrive together, "crashes" if a client may be killed during its call,
               \* "memory" if rpc_malloc never fails
  Null

Text == Request \cup Reply

ASSUME SessionAssumption ==
  /\ Null \notin Text
  /\ Response \in [Request -> Reply \cup {Null}]
  /\ Length \in [Text -> Nat \ {0}]
  /\ Base \in Nat \ {0, 1}
  /\ Network \subseteq [whole : BOOLEAN, crashes : BOOLEAN, memory : BOOLEAN]

VARIABLES
  client,    \* where each call's rpc_client_session is, or how it ended
  req,       \* the request it was given
  chead,     \* its recv_header
  res,       \* the payload it returned
  handler,   \* where the connection's rpc_handle is
  shead,     \* its header
  processed, \* the payloads it has given to rpc_process
  upNet,     \* sends of the client that are on their way
  upBuf,     \* bytes that arrived at the server and are not read
  downNet,   \* sends of the server that are on their way
  downBuf,   \* bytes that arrived at the client and are not read
  server,    \* "up", or what ended the server process
  network    \* the surroundings of this behaviour

clientVars == <<client, req, chead, res>>
serverVars == <<handler, shead, processed, server>>
upVars     == <<upNet, upBuf>>
downVars   == <<downNet, downBuf>>
sessionVars == <<clientVars, serverVars, upVars, downVars>>
vars == <<sessionVars, network>>

-------------------------------------------------------------------------------
(* Frames *)

\* The payload's bytes.
Body(t) == [i \in 1 .. Length[t] |-> <<"text", i, t>>]

\* Mutant: the length is held in one byte.
HeaderNarrow(t) == << <<"crc", Body(t)>>, <<"low", Length[t] % Base>>, <<"high", 0>> >>

\* rpc_header_encode: the CRC, as one unit, and the two bytes of the length,
\* an unsigned short.
Header(t) == << <<"crc", Body(t)>>, <<"low", Length[t] % Base>>,
                <<"high", (Length[t] \div Base) % Base>> >>

HeaderLength == 3

\* Reading a header buffer that recv may have filled only in part; the rest is
\* the zeros it was initialised with.
Digit(h, i)   == IF i <= Len(h) THEN h[i][2] ELSE 0
SentLength(h) == Digit(h, 2) + Base * Digit(h, 3)

\* The lengths that a handler may see in what it took for a header: bytes of a
\* payload, or of a CRC, say anything.
SeenLengths(h) ==
  IF \E i \in 2 .. Len(h) : h[i][1] \notin {"low", "high"}
  THEN 0 .. Base * Base - 1 ELSE {SentLength(h)}

Least(m, n) == IF m < n THEN m ELSE n

\* recv takes at most n of the bytes that arrived.
Taken(buf, n) == SubSeq(buf, 1, Least(n, Len(buf)))
Left(buf, n)  == SubSeq(buf, Least(n, Len(buf)) + 1, Len(buf))

\* Mutant: the check is left out.
CrcHoldsAlways(h, payload) == TRUE

CrcHolds(h, payload) == h[1] = <<"crc", payload>>

\* rpc_process: NULL for a payload that does not parse or names no method.
Answer(payload) ==
  IF \E t \in Request : Body(t) = payload
  THEN Response[CHOOSE t \in Request : Body(t) = payload]
  ELSE Null

-------------------------------------------------------------------------------
(* The two ends of a connection *)

ClientGone(c) == client[c] \in {"done", "dead", "abort"}
ServerGone(c) == server # "up" \/ handler[c] = "closed"

\* recv has something to return: bytes, or the end of the stream.
UpEnded(c)   == upBuf[c] = <<>> /\ upNet[c] = <<>> /\ ClientGone(c)
DownEnded(c) == downBuf[c] = <<>> /\ downNet[c] = <<>> /\ ServerGone(c)
UpReadable(c)   == upBuf[c] # <<>> \/ UpEnded(c)
DownReadable(c) == downBuf[c] # <<>> \/ DownEnded(c)

-------------------------------------------------------------------------------
(* rpc_client_session *)

\* connect_tcp_server: the kernel takes the connection while the server lives.
\* Without one, session and stub end in a NULL dereference.
Connect(c, t) ==
  /\ client[c] = "idle"
  /\ req' = [req EXCEPT ![c] = t]
  /\ client' = [client EXCEPT ![c] = IF server = "up" THEN "send_header" ELSE "dead"]
  /\ UNCHANGED <<chead, res, serverVars, upVars, downVars>>

\* One send, whose result is not looked at.  If the server closed, the bytes are
\* lost, and SIGPIPE may end the client.
Send(c, bytes, next) ==
  /\ IF ServerGone(c)
     THEN client' \in {[client EXCEPT ![c] = next], [client EXCEPT ![c] = "dead"]} /\ UNCHANGED upNet
     ELSE client' = [client EXCEPT ![c] = next] /\ upNet' = [upNet EXCEPT ![c] = Append(@, bytes)]
  /\ UNCHANGED <<req, chead, res, serverVars, upBuf, downVars>>

\* Mutant: the request is sent a second time when no answer came.
SendBodyTwice(c) ==
  /\ client[c] = "send_body"
  /\ Send(c, Body(req[c]), IF upNet[c] = <<>> THEN "send_header" ELSE "recv_header")

\* rpc_client_session came to an end that its caller does not survive.
Dies(c) ==
  /\ client' = [client EXCEPT ![c] = "dead"]
  /\ UNCHANGED <<req, chead, res, serverVars, upVars, downVars>>

\* rpc_header_encode writes to its rpc_malloc untested.
SendHeader(c) ==
  /\ client[c] = "send_header"
  /\ \/ Send(c, Header(req[c]), "send_body")
     \/ ~network.memory /\ Dies(c)

SendBody(c)   == client[c] = "send_body" /\ Send(c, Body(req[c]), "recv_header")

\* A recv of the header that returns nothing makes the session return NULL,
\* which the stub passes to cJSON_Parse, atoi or strdup: the client dies.
RecvHeader(c) ==
  /\ client[c] = "recv_header"
  /\ DownReadable(c)
  /\ client' = [client EXCEPT ![c] = IF downBuf[c] = <<>> THEN "dead" ELSE "recv_body"]
  /\ chead' = [chead EXCEPT ![c] = Taken(downBuf[c], HeaderLength)]
  /\ downBuf' = [downBuf EXCEPT ![c] = Left(@, HeaderLength)]
  /\ UNCHANGED <<req, res, serverVars, upVars, downNet>>

\* Without memory for the payload the session returns NULL, and its caller dies.
PayloadFails(c) == client[c] = "recv_body" /\ ~network.memory /\ Dies(c)

\* A recv of no bytes may return at once.
RecvBody(c) ==
  LET n   == SentLength(chead[c])
      got == Taken(downBuf[c], n)
  IN /\ client[c] = "recv_body"
     /\ n = 0 \/ DownReadable(c)
     /\ downBuf' = [downBuf EXCEPT ![c] = Left(@, n)]
     /\ \/ Len(got) # n /\ client' = [client EXCEPT ![c] = "abort"] /\ UNCHANGED res
        \/ /\ Len(got) = n /\ ~CrcHolds(chead[c], got)
           /\ client' = [client EXCEPT ![c] = "dead"] /\ UNCHANGED res
        \/ /\ Len(got) = n /\ CrcHolds(chead[c], got)
           /\ client' = [client EXCEPT ![c] = "done"]
           /\ res' = [res EXCEPT ![c] = got]
     /\ UNCHANGED <<req, chead, serverVars, upVars, downNet>>

\* The client process is killed.
Crash(c) ==
  /\ network.crashes
  /\ client[c] # "idle" /\ ~ClientGone(c)
  /\ Dies(c)

-------------------------------------------------------------------------------
(* The server *)

\* rpc_listen: accept, and a coroutine for the connection.
Accept(c) ==
  /\ server = "up"
  /\ client[c] # "idle" /\ handler[c] = "none"
  /\ handler' = [handler EXCEPT ![c] = "header"]
  /\ UNCHANGED <<clientVars, shead, processed, server, upVars, downVars>>

\* rpc_listen writes the descriptor to its rpc_malloc untested.
ListenerDies(c) ==
  /\ server = "up" /\ ~network.memory
  /\ client[c] # "idle" /\ handler[c] = "none"
  /\ server' = "null"
  /\ UNCHANGED <<clientVars, handler, shead, processed, upVars, downVars>>

\* rpc_handle leaves its loop, and closes, when recv returns nothing.
AfterHeader(buf) == IF buf = <<>> THEN "closed" ELSE "body"

HandleHeader(c) ==
  /\ server = "up" /\ handler[c] = "header"
  /\ UpReadable(c)
  /\ handler' = [handler EXCEPT ![c] = AfterHeader(upBuf[c])]
  /\ shead' = [shead EXCEPT ![c] = Taken(upBuf[c], HeaderLength)]
  /\ upBuf' = [upBuf EXCEPT ![c] = Left(@, HeaderLength)]
  /\ UNCHANGED <<clientVars, processed, server, upNet, downVars>>

\* Mutant: after a failed check the handler goes on to the next header.
RejectStays(c) ==
  /\ handler' = [handler EXCEPT ![c] = "header"]
  /\ UNCHANGED <<processed, server, downNet>>

Reject(c) ==
  /\ handler' = [handler EXCEPT ![c] = "closed"]
  /\ UNCHANGED <<processed, server, downNet>>

\* Both sends of the answer.  To a client that is gone they are lost, or SIGPIPE
\* ends the server.  Without an answer strlen(NULL) does, without memory for its
\* header rpc_header_encode.
Respond(c, payload) ==
  LET r == Answer(payload)
  IN /\ processed' = [processed EXCEPT ![c] = Append(@, payload)]
     /\ handler' = [handler EXCEPT ![c] = "header"]
     /\ \/ (r = Null \/ ~network.memory) /\ server' = "null" /\ UNCHANGED downNet
        \/ r # Null /\ ClientGone(c) /\ server' \in {"up", "pipe"} /\ UNCHANGED downNet
        \/ /\ r # Null /\ ~ClientGone(c)
           /\ downNet' = [downNet EXCEPT ![c] = @ \o << Header(r), Body(r) >>]
           /\ UNCHANGED server

\* The rest of an iteration of rpc_handle.  Nothing in it yields unless a send
\* finds the socket's buffer full, and then only bytes of this connection wait.
HandleBody(c) ==
  \E n \in SeenLengths(shead[c]) :
    LET got == Taken(upBuf[c], n)
    IN /\ server = "up" /\ handler[c] = "body"
       /\ UpReadable(c)
       /\ upBuf' = [upBuf EXCEPT ![c] = Left(@, n)]
       /\ \/ Len(got) # n /\ server' = "assert" /\ UNCHANGED <<handler, processed, downNet>>
          \/ Len(got) = n /\ ~CrcHolds(shead[c], got) /\ Reject(c)
          \/ Len(got) = n /\ CrcHolds(shead[c], got) /\ Respond(c, got)
       /\ UNCHANGED <<clientVars, shead, upNet, downBuf>>

\* Without memory for the payload rpc_handle goes on with the next header, and the
\* payload, which it did not read, is what it takes for one.
SkipBody(c) ==
  /\ server = "up" /\ handler[c] = "body" /\ ~network.memory
  /\ handler' = [handler EXCEPT ![c] = "header"]
  /\ UNCHANGED <<clientVars, shead, processed, server, upVars, downVars>>

-------------------------------------------------------------------------------
(* The network *)

\* The bytes of the oldest send arrive: all of them, or some if the connection
\* cuts them.
Pieces(bytes) == IF network.whole THEN {Len(bytes)} ELSE 1 .. Len(bytes)

Arrive(net, buf, c, k) ==
  LET bytes == Head(net[c]) IN
  /\ buf' = [buf EXCEPT ![c] = @ \o SubSeq(bytes, 1, k)]
  /\ net' = [net EXCEPT ![c] = IF k = Len(bytes) THEN Tail(@)
                               ELSE <<SubSeq(bytes, k + 1, Len(bytes))>> \o Tail(@)]

DeliverUp(c) ==
  /\ upNet[c] # <<>>
  /\ \E k \in Pieces(Head(upNet[c])) : Arrive(upNet, upBuf, c, k)
  /\ UNCHANGED <<clientVars, serverVars, downVars>>

DeliverDown(c) ==
  /\ downNet[c] # <<>>
  /\ \E k \in Pieces(Head(downNet[c])) : Arrive(downNet, downBuf, c, k)
  /\ UNCHANGED <<clientVars, serverVars, upVars>>

\* An end that closes with bytes unread resets the connection: what it sent last
\* may be lost.
Reset(c) ==
  \/ /\ ClientGone(c) /\ upNet[c] # <<>>
     /\ upNet' = [upNet EXCEPT ![c] = <<>>]
     /\ UNCHANGED <<clientVars, serverVars, upBuf, downVars>>
  \/ /\ ServerGone(c) /\ downNet[c] # <<>>
     /\ downNet' = [downNet EXCEPT ![c] = <<>>]
     /\ UNCHANGED <<clientVars, serverVars, upVars, downBuf>>

-------------------------------------------------------------------------------
Init ==
  /\ client = [c \in Call |-> "idle"]
  /\ req = [c \in Call |-> Null] /\ res = [c \in Call |-> Null]
  /\ chead = [c \in Call |-> <<>>] /\ shead = [c \in Call |-> <<>>]
  /\ handler = [c \in Call |-> "none"] /\ processed = [c \in Call |-> <<>>]
  /\ upNet = [c \in Call |-> <<>>] /\ upBuf = [c \in Call |-> <<>>]
  /\ downNet = [c \in Call |-> <<>>] /\ downBuf = [c \in Call |-> <<>>]
  /\ server = "up"
  /\ network \in Network

ClientStep(c) == SendHeader(c) \/ SendBody(c) \/ RecvHeader(c) \/ RecvBody(c)
                 \/ PayloadFails(c)
ServerStep(c) == Accept(c) \/ ListenerDies(c)
                 \/ HandleHeader(c) \/ HandleBody(c) \/ SkipBody(c)
Deliver(c)    == DeliverUp(c) \/ DeliverDown(c)

\* Client and handler wait for bytes of each other, and none are on the way.
Hangs(c) ==
  /\ client[c] = "recv_header" /\ downNet[c] = <<>> /\ ~DownReadable(c)
  /\ handler[c] \in {"header", "body"} /\ upNet[c] = <<>> /\ ~UpReadable(c)

\* Every call ended, and every handler the server still runs has closed; without
\* memory some may hang.
Finished ==
  /\ \A c \in Call : \/ ClientGone(c) /\ (ServerGone(c) \/ handler[c] = "none")
                     \/ ~network.memory /\ Hangs(c)
  /\ UNCHANGED vars

Next ==
  /\ \/ \E c \in Call : \/ \E t \in Request : Connect(c, t)
                        \/ ClientStep(c) \/ Crash(c) \/ ServerStep(c)
                        \/ Deliver(c) \/ Reset(c)
     \/ Finished
  /\ UNCHANGED network

Spec == Init /\ [][Next]_vars

\* The processes go on, TCP delivers what was sent, and every connection's
\* coroutine is resumed when it has something to read.
FairSpec ==
  /\ Spec
  /\ \A c \in Call : /\ WF_sessionVars(ClientStep(c))
                    /\ WF_sessionVars(ServerStep(c))
                    /\ WF_sessionVars(Deliver(c))
-------------------------------------------------------------------------------
(* Properties *)

\* The type invariant.
TypeOK ==
  /\ client \in [Call -> {"idle", "send_header", "send_body", "recv_header", "recv_body",
                          "done", "dead", "abort"}]
  /\ handler \in [Call -> {"none", "header", "body", "closed"}]
  /\ server \in {"up", "assert", "null", "pipe"}
  /\ req \in [Call -> Request \cup {Null}]
  /\ \A c \in Call :
       /\ Len(chead[c]) <= HeaderLength /\ Len(shead[c]) <= HeaderLength
       /\ handler[c] = "body" => shead[c] # <<>>
       /\ client[c] = "recv_body" => chead[c] # <<>>

\* Only what the caller asked for is processed, and at most once, however the
\* connection cuts the stream, whoever dies and whatever the length field lost.
ProcessedIsRequest ==
  \A c \in Call : processed[c] # <<>> => processed[c] = << Body(req[c]) >>

\* rpc_client_session returns only the whole answer to its own request, which
\* the server processed.
ResultIsAnswer ==
  \A c \in Call : client[c] = "done" =>
    /\ processed[c] = << Body(req[c]) >>
    /\ Response[req[c]] # Null /\ res[c] = Body(Response[req[c]])

\* A payload whose length the two digits hold.
Fits(t) == Length[t] < Base * Base

\* What the clients asked for so far is ordinary: sends arrive whole, nobody is
\* killed, memory suffices, requests are short, name a method and have a short
\* answer.
Ordinary ==
  /\ network.whole /\ ~network.crashes /\ network.memory
  /\ \A c \in Call : req[c] # Null =>
       Fits(req[c]) /\ Response[req[c]] # Null /\ Fits(Response[req[c]])

\* While everything is ordinary nobody dies.
NobodyDies ==
  Ordinary => server = "up" /\ \A c \in Call : client[c] \notin {"dead", "abort"}

\* "assert(ret == length)" in rpc_handle: the payload has arrived whole.
ServerReadsWhole == server # "assert"

\* Again and again no call is under way.  A call is made once here, so none hangs:
\* client and server never wait for each other's bytes, and the server keeps no
\* connection of a client that went away.  With NobodyDies every ordinary call
\* gets its answer.  Not so without memory: a handler that could not hold the
\* payload reads it as headers, and when it is read waits for more, as the client
\* waits for its answer.
CallsEnd ==
  []<>(\A c \in Call : \/ client[c] = "idle"
                       \/ ClientGone(c) /\ ServerGone(c)
                       \/ ~network.memory /\ Hangs(c))
===============================================================================
