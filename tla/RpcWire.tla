-------------------------------- MODULE RpcWire --------------------------------
(***************************************************************************)
(* The bytes of one call: a stub makes a JSON text of its request and      *)
(* sends it under a CRC, the server checks, parses and processes it and    *)
(* sends an answer back the same way, and the stub prints the result.      *)
(* Bytes may be damaged on the way.  The other reader of JSON text is      *)
(* registration, whose file has no CRC and may be read in part.            *)
(*                                                                         *)
(* Every allocation of cJSON may fail, once or from then on, and so may    *)
(* that of the server's task.  The code looks at no result while it builds *)
(* a tree, so a member whose memory failed is missing from what is sent.   *)
(* client and server are the heaps of the two processes, counted in        *)
(* blocks.                                                                 *)
(***************************************************************************)
EXTENDS CJson

CONSTANTS
  Requests,      \* [method, params, callerid]; a parameter is [name, value]
  Results,       \* what a method may answer
  Files,         \* the items that register.json may hold
  Noise,         \* the bytes that a damaged byte may become
  Allocations,   \* how many allocations of a step may succeed before one fails
  MethodKey, ParamsKey, CalleridKey, ResultKey   \* the names of the members

VARIABLES
  stage,         \* how far the call, or the reading of the file, is
  request,       \* what the stub was asked to send
  text,          \* the text printed last
  crc,           \* the checksum in the header
  wire,          \* the bytes that arrive
  tree,          \* the tree parsed last
  built,         \* the tree built last
  lacking,       \* which of the trees, request and answer, lack something because an
                 \* allocation failed
  client, server \* the heaps

treeVars == <<tree, built, lacking>>
wireVars == <<stage, request, text, crc, wire, treeVars, client, server>>

----------------------------------------------------------------------------
(* crc32.c.  A word is the set of the numbers of its bits that are 1.      *)

Polynomial == {31, 30, 29, 27, 26, 24, 23, 21, 20, 19, 15, 9, 8, 5}   \* 0xEDB88320

Word(n) == {i \in 0..7 : (n \div 2^i) % 2 = 1}
ShiftRight(w, n) == {i - n : i \in {j \in w : j >= n}}
Xor(v, w) == SymDiff(v, w)
LowByte(w) == w \cap (0..7)

\* One table entry: eight times a shift, and the polynomial for a 1 shifted out.
TableEntry(byte) ==
  FoldLeft(LAMBDA w, j : IF 0 \in w THEN Xor(ShiftRight(w, 1), Polynomial)
                                    ELSE ShiftRight(w, 1),
           Word(byte), <<1, 2, 3, 4, 5, 6, 7, 8>>)

Crc32Table == [w \in SUBSET (0..7) |-> TableEntry(SumSet({2^i : i \in w}))]

CalcCrc32(data) ==
  LET step[w \in SUBSET (0..31), c \in 0..255] ==
        Xor(ShiftRight(w, 8), Crc32Table[LowByte(Xor(w, Word(c)))])
      crcOf[i \in 0..Len(data)] == IF i = 0 THEN 0..31 ELSE step[crcOf[i - 1], data[i]]
  IN (0..31) \ crcOf[Len(data)]

----------------------------------------------------------------------------
(* The trees that the RPC code builds.                                     *)

\* rpc_request_json_encode.  params that cannot be added to the root stay allocated.
RequestTree(r, h) ==
  LET root   == CreateObject(h)
      named  == AddStringToObject(root.item, MethodKey, r.method, root.heap)
      params == FoldLeft(LAMBDA so, p : AddValueToObject(so.item, p.name, p.value, so.heap),
                         CreateObject(named.heap), r.params)
      added  == AddItemToObject(named.item, ParamsKey, params.item, params.heap)
  IN AddNumberToObject(added.item, CalleridKey, 10 * r.callerid,
                       IF added.ok THEN added.heap ELSE Leak(added.heap, params.item))

\* A handler, rpc_response_json_encode_*.
AnswerTree(r, result, h) ==
  LET root   == CreateObject(h)
      named  == AddStringToObject(root.item, MethodKey, r.method, root.heap)
      valued == AddValueToObject(named.item, ResultKey, result, named.heap)
  IN AddNumberToObject(valued.item, CalleridKey, 10 * r.callerid, valued.heap)

NoHeap ==
  [left |-> 0, again |-> FALSE, refused |-> FALSE, live |-> 0, leaked |-> 0, fits |-> TRUE]

\* So many allocations succeed in this step, then all fail, or only one; the next
\* step has its own.
Budget(h, left, again) == [h EXCEPT !.left = left, !.again = again, !.refused = FALSE]
After(h) == Budget(h, 0, FALSE)
Ample(h) == Budget(h, Plenty, FALSE)

\* Print a tree that was just built, and delete it.
PrintAndDelete(b) ==
  LET p == Printed(b.item, b.heap)
  IN [text |-> p.text, heap |-> After(DeleteTree(p.heap, b.item))]

----------------------------------------------------------------------------
Nothing == [method |-> <<>>, params |-> <<>>, callerid |-> 0]

WireInit ==
  /\ stage = "idle" /\ request = Nothing
  /\ text = <<>> /\ wire = <<>> /\ crc = {}
  /\ tree = NewItem /\ built = NewItem /\ lacking = {}
  /\ client = NoHeap /\ server = NoHeap

\* What a step does that ends the call for want of memory or of a tree.
Stop(why) == stage' = why /\ UNCHANGED <<request, text, crc, wire, tree>>

\* The tree that was built, and whether it lacks anything.
Build(what, b) ==
  /\ built' = b.item
  /\ lacking' = IF b.heap.refused THEN lacking \cup {what} ELSE lacking

\* rpc_request_json_encode.
Encode(r, left, again) ==
  /\ stage = "idle"
  /\ \E b \in {RequestTree(r, Budget(client, left, again))} :
       \E p \in {PrintAndDelete(b)} :
         /\ Build("request", b)
         /\ client' = p.heap
         /\ text' = p.text
         /\ stage' = IF p.text = NULL THEN "null" ELSE "asked"
  /\ request' = r
  /\ UNCHANGED <<crc, wire, tree, server>>

\* One byte is another, or two neighbours are exchanged.
Damaged(s) ==
  {ReplaceAt(s, i, c) : i \in DOMAIN s, c \in Noise}
  \cup {[s EXCEPT ![i] = s[i + 1], ![i + 1] = s[i]] : i \in 1..Len(s) - 1}

Sent == [asked |-> "arrived", answered |-> "back"]

\* rpc_header_encode and the two sends.
Send ==
  /\ stage \in DOMAIN Sent
  /\ stage' = Sent[stage]
  /\ crc' = CalcCrc32(text)
  /\ wire' \in {text} \cup Damaged(text)
  /\ UNCHANGED <<request, text, treeVars, client, server>>

\* Mutant: the checksum covers the first byte only.
CrcHoldsFirst == CalcCrc32(SubSeq(wire, 1, 1)) = CalcCrc32(SubSeq(text, 1, 1))

\* The checksum of what arrived is the one in the header.
CrcHolds == CalcCrc32(wire) = crc

\* rpc_handle: the payload is copied to a block and checked.
Accept ==
  /\ stage = "arrived"
  /\ stage' = IF CrcHolds THEN "accepted" ELSE "refused"
  /\ server' = [server EXCEPT !.live = IF CrcHolds THEN @ + 1 ELSE @]
  /\ UNCHANGED <<request, text, crc, wire, treeVars, client>>

Member(name) == GetObjectItem(tree, name)

\* rpc_process up to the handler: the tree and the task stay allocated.  A method, a
\* callerid or a task that is NULL is dereferenced, which ends the server.
Process(left) ==
  /\ stage = "accepted"
  /\ \E v \in {Parse(wire, Budget(server, left, FALSE))} :
      IF v.ok
      THEN /\ server' = After(Allocate(v.heap))
           /\ tree' = v.item
           /\ stage' = IF /\ CanAllocate(v.heap)
                         /\ NewItem \notin {Member(MethodKey)', Member(CalleridKey)'}
                      THEN "processed" ELSE "crashed"
           /\ UNCHANGED <<request, text, crc, wire>>
      ELSE server' = After(v.heap) /\ Stop("null")
  /\ UNCHANGED <<built, lacking, client>>

Task == [method |-> Member(MethodKey).valuestring, callerid |-> Member(CalleridKey).valueint]

\* What the handler finds by the name of a parameter, and all that it looks for.
Parameter(name) == GetObjectItem(Member(ParamsKey), name)
Parameters == {Parameter(p.name) : p \in ToSet(request.params)}

\* The handler dereferences every parameter.
HandlerCrashes ==
  /\ stage = "processed"
  /\ NewItem \in Parameters
  /\ Stop("crashed")
  /\ UNCHANGED <<built, lacking, client, server>>

\* The rest of the handler, and of rpc_handle: the payload is freed, the answer
\* is not.
Answer(result, left, again) ==
  /\ stage = "processed"
  /\ NewItem \notin Parameters
  /\ \E b \in {AnswerTree(Task, result, Budget(server, left, again))} :
       \E p \in {PrintAndDelete(b)} :
         /\ Build("answer", b)
         /\ IF p.text # NULL
            THEN /\ server' = Free(p.heap, 1)
                 /\ text' = p.text
                 /\ stage' = "answered"
                 /\ UNCHANGED <<request, crc, wire, tree>>
            ELSE server' = p.heap /\ Stop("null")
  /\ UNCHANGED client

\* rpc_client_session: the answer is copied to a block and checked.
Receive ==
  /\ stage = "back"
  /\ stage' = IF CrcHolds THEN "received" ELSE "refused"
  /\ client' = [client EXCEPT !.live = IF CrcHolds THEN @ + 1 ELSE @]
  /\ UNCHANGED <<request, text, crc, wire, treeVars, server>>

\* rpc_response_json_decode, and what the stub frees: result, response, request.
\* A tree without a result stays allocated.
Decode(left) ==
  /\ stage = "received"
  /\ \E v \in {Parse(wire, Budget(client, left, FALSE))} :
       LET result == GetObjectItem(v.item, ResultKey)
       IN IF v.ok /\ result # NewItem
          THEN \E p \in {Printed(result, v.heap)} :
                 IF p.text # NULL
                 THEN /\ client' = After(Free(Delete(p.heap, <<v.item>>), 3))
                      /\ text' = p.text
                      /\ tree' = v.item
                      /\ stage' = "returned"
                      /\ UNCHANGED <<request, crc, wire>>
                 ELSE client' = After(Delete(p.heap, <<v.item>>)) /\ Stop("null")
          ELSE client' = After(Leak(v.heap, v.item)) /\ Stop("null")
  /\ UNCHANGED <<built, lacking, server>>

\* rpc_load_register: the file is read, whole or in part, damaged or not, and
\* parsed from a block that is freed.  The tree stays.
Register(file, left) ==
  /\ stage = "idle"
  /\ text' = Printed(file, Ample(NoHeap)).text
  /\ wire' \in Prefixes(text') \cup Damaged(text')
  /\ \E v \in {Parse(wire', [Budget(client, left, FALSE) EXCEPT !.live = @ + 1])} :
      /\ client' = After(Free(v.heap, 1))
      /\ tree' = v.item
      /\ stage' = IF v.ok THEN "registered" ELSE "null"
  /\ UNCHANGED <<request, crc, built, lacking, server>>

WireNext ==
  \/ Send \/ Accept \/ Receive \/ HandlerCrashes
  \/ \E left \in Allocations : Process(left) \/ Decode(left)
  \/ \E left \in Allocations, again \in BOOLEAN :
       \/ \E r \in Requests : Encode(r, left, again)
       \/ \E result \in Results : Answer(result, left, again)
  \/ \E file \in Files, left \in Allocations : Register(file, left)

WireSpec == WireInit /\ [][WireNext]_wireVars

----------------------------------------------------------------------------
(* Properties *)

Distinct(names) == \A s, t \in names : SameName(s, t) => s = t

\* What is built when no allocation fails.
WholeRequest == RequestTree(request, Ample(NoHeap)).item
WholeAnswer(result) == AnswerTree(request, result, Ample(NoHeap)).item

\* A request that is processed has the tree the stub built, whatever its strings
\* and numbers are: all of it, unless an allocation failed, and then less.  The
\* handler that answers found every parameter by its name when the names differ in
\* more than case: a request that lacks anything is never answered, except by a
\* method without parameters.  An answer that is decoded has the tree the handler
\* built, and the whole result.
CallArrives ==
  /\ stage = "processed" =>
       /\ tree = built
       /\ tree = WholeRequest <=> "request" \notin lacking
  /\ stage = "answered" /\ Distinct({p.name : p \in ToSet(request.params)}) =>
       /\ \A p \in ToSet(request.params) : Parameter(p.name) = [p.value EXCEPT !.string = p.name]
       /\ "request" \in lacking => request.params = <<>> /\ Member(ParamsKey) = NewItem
  /\ stage = "returned" =>
       /\ tree = built
       /\ \E result \in Results :
            /\ Member(ResultKey) = [result EXCEPT !.string = ResultKey]
            /\ tree = WholeAnswer(result) <=> "answer" \notin lacking

\* No damage to one byte or to two neighbours passes the checksum, on either side.
AcceptedIsSent == stage \in {"accepted", "received"} => wire = text

\* A file that was read in part does not register, and one that was read whole
\* registers what it says.
PartsRefused ==
  stage = "registered" /\ IsPrefix(wire, text) =>
    wire = text /\ Printed(tree, Ample(NoHeap)).text = text

RequestHeld == stage \in DOMAIN Sent \cup {"arrived", "accepted", "processed", "back"}

\* Nothing is written outside its block; a call leaves nothing in the client, and
\* in the server exactly its request's tree, its task and its answer; while it is
\* under way each holds no more than it uses.  Beyond that only the params are lost
\* that could not be added to a request.
HeapHolds ==
  /\ client.fits /\ server.fits /\ server.leaked = 0
  /\ client.leaked # 0 => lacking # {}
  /\ RequestHeld => client.live = 1 + client.leaked
  /\ stage = "returned" => client.live = client.leaked
  /\ stage = "accepted" => server.live = 1
  /\ stage = "processed" => server.live = Blocks(<<tree>>) + 2
  /\ stage \in {"answered", "back", "received"} => server.live = Blocks(<<tree>>) + 2
  /\ stage = "registered" => client.live = Blocks(<<tree>>)

\* A step that fails, for want of memory at any point or on a broken text, frees
\* all it had allocated, but for two: params that could not be added to a request
\* stay, and so does the tree of an answer without a result.
FailureFreesAll ==
  [][stage' = "null" =>
       /\ client'.live - client'.leaked = client.live - client.leaked
       /\ server'.live = server.live
       /\ client'.leaked # client.leaked =>
            \/ stage = "idle" /\ GetObjectItem(built', ParamsKey) = NewItem
            \/ stage = "received" /\ "answer" \in lacking]_wireVars
===============================================================================
