# A TLA+ model of z2w_rpc

z2w_rpc is a small JSON-over-TCP remote procedure call system in C. The server
handles every connection in a coroutine of NtyCo, a user-level scheduler that
hooks the socket calls; the client library makes one blocking connection per
call. This directory holds TLA+ modules for its core, TLC configurations that
check them on small instances, and proofs that TLAPS checks for all values of
the constants.

    tlc -config NtySchedulerCore.cfg MCNtyScheduler.tla     # a run
    tlapm RpcServerProofs.tla                               # the proofs

## The system

| component | source | state | operations |
|---|---|---|---|
| scheduler | `NtyCo/core/nty_schedule.c` | ready queue, sleep tree by `sleep_usecs`, wait tree by `fd`, `curr_thread`, event list | `nty_schedule_run` (expired sleepers, ready queue, epoll, dispatch), `sched_wait`, `desched_wait`, `sched_sleepdown` |
| coroutines | `NtyCo/core/nty_coroutine.c` | `status` bits, context, the copy of its part of the one shared stack | create, resume, yield, sleep, exit and free |
| readiness | `nty_epoll.c`, `nty_poll_inner` in `nty_socket.c` | the epoll set | arm, wait, yield, disarm |
| hooked sockets | `nty_socket.c` | none | `socket`, `accept`, `recv`, `send`, `close`, `connect`, `read`, `write`, ... |
| RPC server | `rpc_server.c` | one coroutine per connection | `rpc_listen`, `rpc_handle` |
| RPC session | `rpc.c` | one connection per call | `rpc_client_session` |
| framing | `rpc.c`, `crc32.c` | none | `rpc_header_encode` (CRC, 16-bit length), `calc_crc32` |
| registration | `rpc.c`, `register.json` | `rpc_caller_table`, `rpc_server_ip` and port, the JSON tree they point into | `rpc_load_register`, `rpc_method_find` |
| caller ids | `rpc.c` | `rpc_global_caller_id` | `rpc_get_caller_id` |
| stubs | `rpc_method.c` | none | a client stub and a server handler per method |
| generator | `rpc_generator.c` | the two files it writes, one array per parameter list | `rpc_generate_method_code`, `rpc_generate_h_method`, `rpc_generate_c_method` |
| JSON | `cJSON.c` | trees of items, the print buffer, all on the heap | parse, print, construct, look up, delete |
| red-black tree | `nty_tree.h` | links and colours in the coroutines | insert, remove, find, neighbours, extremes |
| tail queue | `nty_queue.h` | links in the coroutines, heads in the scheduler | insert, remove, concatenate, swap, first, last, next, previous |

How they interact: a program thread calls a stub; the stub encodes the call as
JSON and gives it to `rpc_client_session`, which connects, sends header and
payload, and reads header and payload back. On the server the listener coroutine
accepts and creates a handler coroutine per connection. Each hooked call arms its
descriptor in epoll, puts the coroutine in the wait tree and yields; the
scheduler's loop resumes it when epoll reports the descriptor. All coroutines of
the server share one thread, one stack and one process: what ends one of them by
an assertion or a bad pointer ends them all.

What is hard, and where:

- *Stale events.* One `epoll_wait` returns a batch; each event is dispatched after
  the coroutines of earlier events have run, closed and reused descriptors. The
  result of the lookup is dereferenced untested (`nty_schedule.c:127-128`).
- *Queues, trees and status must agree*: a coroutine in none is lost, in two is
  resumed twice or after it was freed.
- *Sleep that does not yield* (`nty_schedule.c:87-109`): the coroutine is in the
  sleep tree while it goes on, so it may be expired in any place, also in the ready
  queue, where its next `nty_coroutine_sleep(0)` links it a second time.
- *Starvation*: epoll is asked only when the ready queue is empty.
- *The shared stack*: a yield has to save what the next resume overwrites.
- *TCP is a stream*, and both sides read each header and payload with one `recv`.
- *Pointers into a JSON tree*: registration keeps the address and every method by
  pointers into the tree it parsed, and frees the address alone when it is replaced.
- *Transfers are partial*: `send` repeats, `recv` does not, `connect` and `accept`
  wait and retry, and an error may come after half of the data.
- *Every allocation of cJSON may fail*, in the middle of a tree or of a text; the
  code that builds a request or an answer looks at no result.
- *The generator* overwrites its old output first, never closes its streams, and
  leaves by one exit for all errors, with variables not set yet.
- *The length field has 16 bits*, and results of `send`, `connect`, `accept`,
  `rpc_process` and most `rpc_malloc`s are used unchecked.

`PROJECT.json` lists every hazard at its line, with the properties that cover it.

## What is modelled

**`NtyScheduler`** is the scheduler, coroutines and readiness together. Its state
is the C state: `ready`, `sleeping`, `waiting`, `events` (the undispatched part of
`eventlist`), `curr`, `last` (`last_co_ready`), and per coroutine `status`, `wake`
(`sleep_usecs`), `pfd` (the descriptor in the frame of `nty_poll_inner`) and
`saved` (whose frames `co->stack` holds); `shared` is whose frames the shared stack
holds, `at` where the coroutine is stopped. `interest`, `isReady` and `holder` are
the kernel's. Each step of `nty_schedule_run` is an action, and each library call
of a running coroutine is one: create, wait, sleep, exit, open, close, read.
Programs are *any* sequence of such calls, with two courtesies that the programs of
the repository observe: a coroutine waits only on descriptors it owns (or on an
invalid one) and closes them before it ends. The trees are the sets they stand
for, including the lookup by key that may find another coroutine than the one
meant. The status bits are modelled by what the code does with them: waiting to
read or-s in the number 0, waiting to write or-s in 1, which is the *bit* of
`WAIT_READ` (`nty_schedule.c:160-162`). A faulty step ends the process with a name in
`fault`. One of these is `relinked`: a coroutine that is expired out of its
`sleep(0)` is still linked in the ready queue, and `TAILQ_INSERT_TAIL` of a linked element
overwrites its next pointer, which cuts off whoever is queued behind it (`Relink`).

**`RpcServer`** extends `NtyScheduler` with the program of `rpc_server.c`: a place
in the code per coroutine (`pc`), its descriptor (`fd`) and the kernel's backlog. Each
action is an action of `NtyScheduler` at a place of the program, or a step inside
the program that the scheduler does not see. The listening socket may not be had, and then
the listener returns (`ListenFails`); `accept` may fail for want of a descriptor and, if
`Aborting`, for another reason with descriptors free: the client aborted, or `fcntl`
failed. The bytes are abstracted: `recv` returns something or nothing, a CRC holds or
not, and a payload for which there is no memory is left unread.

**`RpcSession`** is the protocol of one call: `rpc_client_session`, `rpc_handle` and the
connection between them, several calls at once against one server process. A byte
is what it was sent as (`<<"text", i, t>>`, a digit of the length, the CRC), so that a
reader that gets out of step reads the wrong thing. The network may cut a send
into pieces and loses what is unread after a reset; a client may be killed between
any two steps; a write to a closed connection may or may not raise SIGPIPE; an
unknown method makes `rpc_process` return NULL, which ends the server in `strlen`. Each
`rpc_malloc` of session and server may fail: most of them end their process; without
memory for the payload `rpc_handle` goes on and takes the payload, which it did not
read, for headers (`SkipBody`, `SeenLengths`). The variable `network` says for a whole
behaviour whether sends arrive whole, clients live on and memory suffices, so that one
run has the ordinary case and the rough ones. The
scheduler below is left out: nothing in one iteration of `rpc_handle` depends on
the other connections except that the process is alive.

**`RpcRegister`** is registration: `rpc_load_register` with all its ways out, the caller table and
the two places that look methods up. The model follows memory: `rpc_server_ip` and every
table entry point into a parsed tree (numbered by its parse); a tree is deleted on an
error, and its address may be freed alone. `fault` says what ended the process: a NULL
pointer, the assertion on params and types, more parameters than an entry holds, a double
free, a use after free.

**`RpcStub`** extends `RpcRegister` with the calls: a stub sends as many arguments as the
table entry of its method declares (`rpc_request_json_encode`), the handler takes them as ints or
strings, computes and answers, and the stub makes a value of the printed result
(`rpc_response_json_decode`, `atoi`, `strtod`, `strdup`). Every step of registration and lookup is an
action of `RpcRegister`. Client and server register the same files, and the session brings
requests and answers over whole, which is `RpcSession`'s subject. Numbers are multiples of
1/`Scale`, so that a fraction exists.

**`CJson`** is the part of `cJSON.c` that the RPC code reaches, as operators on bytes
and trees: the parser with its nesting limit and escapes, the printer with its
buffer that `ensure` doubles, constructors, lookup without regard to case, deletion.
Each operator takes a heap and gives one back, which counts the blocks that are
live, those of them that nothing points to any more, and the allocations that will
still succeed, and notes a write outside its block. The constructors fail as the code
lets them: an item that cannot be had is NULL, adding it does nothing, and an item whose
name cannot be copied is not added. Numbers have one decimal and no exponent.

**`RpcWire`** is one call as bytes, over `CJson`: the stub builds and prints its request, the
CRC-32 goes along, one byte or two neighbouring ones may be damaged, the server
checks, parses and answers, the client prints the result. Any allocation on the way may
fail, alone or with all that follow; `lacking` says which of the two trees, request and answer,
lost something by it. A request without its method, its id or a parameter that the handler
looks for ends the server (`"crashed"`). CRC-32 is the real one, a
word being the set of its bits, and an assumption of the instance compares it with
the usual check value. The same module reads a registration file of which only a
beginning was read, or a damaged one, since no CRC protects it.

**`NtyTree`** is the macros of `nty_tree.h`, links and colours, with the mirrored halves as one
operator that has the side as a parameter. A loop is a round, applied as often as there
are nodes; a round after the loop's end changes nothing, and the proofs show that the
loop has ended by then. **`KeyedSet`** is what the scheduler takes a
tree for; `NtyTree` implements it under the mapping of a tree to the nodes reachable
in it (`IsKeyedSet`). **`NtyQueue`** is the TAILQ macros with two words of memory per
address, since `TAILQ_LAST` and `TAILQ_PREV` read a head as if it were an element;
**`Queues`** is the sequences that it implements (`IsQueues`). `NtyScheduler` uses the trees
as sets and the queues as sequences, which these two refinements justify.

**`NtySockets`** is the socket calls of `nty_socket.c` in a thread without a scheduler, with one
that does not run yet, and with one that runs, against sockets whose buffers fill,
whose peers end or reset, and whose connections are refused or withdrawn before
they are accepted. A call is a frame with its local variables; what happens to
others while it waits is `NtyScheduler`'s subject.

**`RpcGenerator`** is the stub generator, one run after the other in one directory. A
file is a sequence of pieces, one per writing function; what was written reaches the
disk at exit, and a process that dies leaves some beginning of each file. The
variables that the early exits use before they are set are states of their own
(`"unset"`), and so is an array that is too small for its parameters (`sound`).

How the modules cover the system together: `RpcServer` is composed of the program and
`NtyScheduler`; `RpcStub` of the calls and `RpcRegister`; `RpcWire` of the call's
bytes and `CJson`; `RpcSession` joins client and server. Each layer takes the one
below for what its own module shows: the scheduler takes containers for sets and
sequences, the stubs take the session for a channel.

`MCNtyScheduler`, `MCRpcServer`, `MCRpcSession`, `MCRpcStub`, `MCRpcWire`,
`MCNtyContainers` and `MCRpcGenerator` hold the instances for TLC.

Comments beginning `Mutant:` mark variants of a definition as a plausible bug would
have it; `PROJECT.json` says which property notices which.

## What TLC checks

| run | instance | checks |
|---|---|---|
| `sched_core` | 3 coroutines, 2 descriptors, `sleep(0)` | no wakeup is lost or doubled (`OnePlace`), events find their waiters, stacks apart, no fault, return only when all ended, wakeups are real |
| `sched_sleep` | 2 coroutines, 1 descriptor, sleeps of 0, 1 and 2 ticks, a clock without end, fairness | what survives positive sleeps: no coroutine is lost but by a second linking into the ready queue, keys in the sleep tree are distinct, the assertions of `sched_wait` hold, a descriptor is armed iff waited for; a queued coroutine runs if the loop over expired sleepers ends each time; a ready waiter is resumed if epoll is asked again and again |
| `server` | 3 clients at a time, 2 descriptors for them, fairness | every open connection has one handler, also when `accept` fails, for whatever reason; the loop does not return once the listening socket exists; the only fault is two failed accepts; waiting connections are accepted and ready handlers resumed |
| `server_too_many` | 3 clients, 1 descriptor | *violated*: two failed accepts make two coroutines wait for descriptor -1, an assertion of the scheduler |
| `rpc` | 2 calls; a calm network, a rough one with killed clients, or failing `rpc_malloc`s; cut lengths, unknown method, fairness | only whole requests are processed, once; a returned result is the whole answer to the caller's own request; when all is ordinary nobody dies; every call ends, for the client and for the server, unless memory failed |
| `rpc_server_assert` | 1 ordinary call, cut sends | *violated*: the assertion that one `recv` reads the whole payload |
| `calls` | up to 3 registrations out of 8 files, calls of all 6 methods in between | no table entry points into a deleted tree, addresses are freed exactly once except after a file without a port, the declaration registered last is found, a call on whole numbers returns what the method does, strings come back quoted |
| `calls_doubles` | 1 registration | *violated*: doubles arrive as doubles |
| `wire` | 4 requests, 2 results, 2 files, damage, failing allocations | what is printed is parsed back, a request that lacks a parameter is never answered, nothing damaged is accepted, no beginning of a file registers, no leak but the known ones, no write outside a block, and a step that fails frees all it took but in two named cases |
| `containers` | a tree of up to 10 keys, 2 queues of up to 4 elements | the tree is a balanced search tree and implements `KeyedSet`; the queues implement `Queues` |
| `sockets` | 2 descriptors, buffers of 2, calls for up to 3 bytes | results tell what the kernel did, no descriptor is forgotten but in one place, coroutines block the process only on descriptors made without a scheduler |
| `generate` | 3 runs over 6 files, every failure | header and source agree after every run that did not crash, whatever came before; what was taken is given back, and crashes have one of the named causes |

Bounds. Three coroutines are the fewest with which one runs, one is queued and one
waits. Two descriptors are the fewest for an event that is dispatched after another
event's coroutine ran and closed or reopened something; `sched_sleep` has one, since its
properties concern a single waiter, and two coroutines, which are enough for keys to
collide, for one to be expired in the other's place, and for one that requeues itself
to starve the other, which is why `ReadyServed` has its condition. Its clock never ends:
only the distances of keys and clock are used, so a clock that has reached `MaxTime`
goes back with all keys by what everybody has left behind (`Rebase` in `MCNtyScheduler`), and
`MaxTime` bounds only how long the oldest sleeper is overdue. A coroutine that sleeps for
a millisecond and runs as long is therefore in the model, and keeps the loop over expired
sleepers from ending: hence the condition of `QueuedRuns`. In `RpcServer` clients are
bounded in number at a time (`MaxClients`), not in total, so descriptors and coroutines
are reused without end; five coroutines are the listener, two handlers and those of
two failed accepts. `server` takes free coroutines and descriptors in a fixed order
(`InOrder` in `MCRpcServer`), descriptors as the kernel does: creation sets everything of a coroutine that is read later, so each
behaviour is an ordered one up to names, and unlike a symmetry set this is sound for
liveness. In `RpcSession` the length is two digits of base 2, so a payload of four bytes
already overflows it as one of 65536 does, and one `recv` in the model can split a header
or payload in every place that matters: before, inside and after each field. The CRC of 4
bytes counts as one unit. In `calls` three registrations are the fewest in which an
address is freed while an older tree is still in the table and a third file declares a
method anew; `Scale` 2 and `MaxInt` 7 let numbers be fractional, wrap around and saturate; an
entry holds 3 parameters instead of the code's 16 (`RPC_PARAMS_MAX_COUNT`), which one file exceeds; strings have
0, 1, 3 and 4 characters. Every handler is exported there, so that a missing one occurs
only in the proofs. In `wire` the print buffer starts at 4 bytes instead of 256, so that
it grows several times in each text, the nesting limit is 3 instead of 1000, which
one file exceeds, and the number of allocations that succeed in a step goes from none
to more than any step makes; after it one fails, or all do. The strings hold each kind of escape and bytes
above 127. Ten keys make trees deep enough that rebalancing goes up more than one level, on
both sides; an eleventh node shares a key. `VIEW` drops the last call and its answer, which
no step reads, while every step is still compared with `KeyedSet` and `Queues`. In `sockets`
a call for 3 bytes meets buffers of 2, so a transfer is whole, partial or has to be
repeated. `generate` has 3 runs so that a good one, a failed one and another good
one follow each other; its files hold a refused declaration after a good one, one
that is skipped, more parameters than `Fit`, a missing string, no `config` and no JSON.

Fairness. The loop of `nty_schedule_run` never stops by itself (weak fairness of
`Scheduler`), a coroutine of this repository reaches its next blocking call or its end
in finitely many steps (weak fairness of the running coroutine), clients and handlers
in `RpcSession` go on when they can, and TCP delivers what was sent while both ends
live. Nothing is assumed of arrivals, of clients continuing, or of time; the two conditional
properties of `sched_sleep` name what they need of the other coroutines. The other
modules have no liveness property and no fairness.

Where a run does not check for deadlock the system may stop: a process that ended on a
fault in `calls`, a failed call, a crashed server or a finished reading in `wire`, a fault in `sockets`.

## What is proved

Every safety property of a run is a theorem for all values of the constants, but for
those of `wire`. `PROJECT.json` lists the theorems.

`RpcServerProofs` proves about the scheduler, for any sets of coroutines and descriptors:

- `TypeCorrect`: `Spec => []TypeOK`, with sleeps.
- `InvHolds`: `Spec => []Inv` when nobody sleeps for a positive time (`NoSleep`, which
  is true of the RPC programs: none calls `nty_coroutine_sleep`). The properties
  are not inductive alone: that a dispatched event has a waiter needs that an
  armed descriptor has one and only its owner can close it (`WaitInv`), that a resumed
  coroutine does not disarm another's descriptor needs where every coroutine
  stopped and on what (`OnePlace`, `FrameInv`), and that the loop returns only when all
  ended needs that no coroutine is outside all queues. Each action has a lemma. `Inv` and
  `TypeOK` say more than the properties that are run; they were tried with TLC on the
  instance of `sched_core` before they were proved.
- From it: `EveryOneInOnePlace`, `EventsFindWaiters`, `StacksApart`, `LoopIsSound`,
  `NeverFaults` (descriptors all valid) and the action property `WakeupsAreReal`.
- `SleepInvHolds`: `Spec => []SleepInv`, for programs that also sleep. A sleeper goes on
  running, may be queued or wait at the same time and is expired wherever it then is, so
  nothing like `OnePlace` is left. What is left: who waits, is queued or runs is found
  where the scheduler looks for it (`FoundInv`); a coroutine is outside the sleep tree until
  it runs, unless one ended while something still pointed to it (`BirthInv`); status bits
  that a place excludes (`StatusInv`); a waited-for descriptor is its waiter's (`HeldInv`).
  Expiry out of a wait keeps all of this because the resumed coroutine leaves the wait
  tree and epoll by the descriptor in its own frame. From it `NobodyLost` (until a
  coroutine is linked into the ready queue a second time),
  `ArmedWhateverSleeps`, `SleepersApart`, `WaitsAreSound` (descriptors all valid) and
  `LoopIsSoundAsleep`, which includes that nobody is ever in the ready queue twice.

and about the server:

- `ServerImplementsScheduler`: `ServerSpec => Spec`, so all of the above holds of it.
- `ServerInvHolds` and `ConnectionsOwned`: each open connection has one owner, whatever the
  number of clients, also when `accept` fails. The invariant adds to the property
  that freed coroutines own nothing and that the listening socket is the listener's.
- `ServerNeverFaults`: if at most as many clients are connected at a time as there are
  descriptors (`Enough`) and `accept` fails for no other reason (`~Aborting`), no assertion
  of the scheduler fails and no freed or missing coroutine is used. The argument counts clients: backlog plus open connections never
  exceeds the bound, so a descriptor is free whenever someone waits.
- `OnlyFailedAcceptsFault`: with any number of clients, the only fault is that of two
  handlers of failed accepts that meet on descriptor -1. The invariant (`FailedInv`) follows
  such a handler: it never leaves its first wait, so that whoever waits on -1 is one
  of them and stays it, and no other descriptor is ever invalid.
- `ServerNeverReturns`: once it has the listening socket the listener keeps it
  (`ListenerStays`) and does not end, so the loop never finds everyone ended. Before,
  `socket` may fail, and the loop returns.

`RpcSessionProofs` proves about a call, for any number of calls, any width of the length
and any payloads:

- `SessionIsInvariant`: the bytes of one direction are one stream, a header and its
  payload, and what is on the way is the piece of it between the place of the reader and
  that of the writer, or a part of that piece after a loss. What a handler took for a
  header is some short part of the frame. Lemmas about pieces of sequences carry this
  through cuts, partial reads, skipped payloads, resets and deaths.
- From it `OnlyRequestsProcessed` and `OnlyAnswersReturned`. A reader that got out of step
  could only be fooled by a payload that looks like a header or the end of one; the lengths
  and the CRC exclude it.
- `OrdinaryCallsSurvive`: while sends arrive whole, nobody is killed, memory suffices and
  what is called is ordinary (`CalmInv`), each `recv` finds all it asks for and nobody dies.

`RpcStubProofs` proves about registration, for any files, methods and numbers of loads:

- `RegisterInvHolds`: the inductive invariant. Each table entry belongs to a tree that was
  kept, and the address is the current one or belongs to a tree that was deleted
  after a refused port.
- From it `TableNeverDangles`, `AddressesOnce` (of all addresses only the current one is
  left) and `OnlyPortless` (an address is used after it was freed, or freed again, only
  after a file that has a remote and no port).
- `LatestDeclaration`: a lookup finds the declaration registered last. The invariant
  (`LookupInv`) relates the first hit in the table to the last good file, and a good file
  pushes its declarations in reverse.

and about the calls, for any width of ints and any registrations:

- `StubImplementsRegister`: `StubSpec => Spec` of `RpcRegister`, so the above holds of it.
- `CallsTransparent`: a call of `add`, `sum`, `sub` or `mul` returns what the method returns, for
  all ints, and for doubles that are whole and fit an int. The invariant (`CallInv`) follows
  the call: a request is a first part of the arguments, and the server answers only one that
  has them all; the rest is arithmetic of cutting and wrapping.
- `StringsQuoted`: strings come back reversed or with their case exchanged, quoted and
  escaped, for any length. That the loop of `sayhello` reverses is shown by a least
  round after which it would not have.

`NtySocketsProofs` proves about the socket calls, for any buffers, lengths and descriptors,
from `SocketsInvHolds` (in every round of a call, what its frame says was sent is what
the kernel moved; a descriptor that `fcntl` is to prepare is not yet the program's):
`ResultsTell`, `DescriptorsKept` and `NobodyElseWaits`.

`RpcGeneratorProofs` proves about the generator, for any files and any number of runs, from
`GeneratorInvHolds` (both streams hold, in order, the methods up to the current one, the
source one less between the two writes; the disk agrees since the run that settled it):
`FilesAgree` and `CrashesHaveCauses`.

`NtyQueueProofs` proves about the TAILQ macros, for any heads and any finite number of
elements:

- `QueuesLinked`: the inductive invariant, on the two words of every address. The
  addresses of a queue, its head first, are a line along `first` and a ring along `last`,
  and no address is in two places. Each macro is stated as what it writes (`PutBehind`,
  `TakesOut`, `Appends`, `Exchanges`) and has a lemma that this makes the memory of the
  changed sequences.
- `QueuesImplemented`: `QueueSpec => IsQueues`, the refinement of `Queues`; every macro is
  a step of `Queues` or a stutter, and every query is worth what the sequence says.
  Its condition, that what is inserted is in no queue, is what `NtyScheduler` keeps:
  `QueuedOnce` is part of `LoopIsSoundAsleep`, and the one call that would break it ends
  there in the fault `relinked`. This lets `NtyScheduler` work with sequences. A walk visits a line's elements:
  again by a least place where it would not.

`NtyTreeLoops` and `NtyTreeProofs` prove about the red-black tree, for any finite set of
nodes and any keys:

- `TreeSound`: `TreeSpec => []TreeInv`. The invariant, `Sound(t, M)`, asserts two functions: `G`,
  the nodes below each node, and `D`, the black height of each. `Formed` relates
  `G[n]`, the links and the keys at each node to those at its children, `Balanced` does so for
  `D[n]`, and besides no red node has a red child and the root is black. So nothing
  recursive has to be unfolded: a change of a few links is followed by `G` and `D` with a
  few values changed, and the same relations are shown at every node anew. What
  TLC checks, `RedBlack`, walks through the links instead; `BelowFound` and `BlacksCounted`
  show that it finds `G` and `D`.
- A rotation keeps `Formed` (`RotateKeeps`); with its change of colors it keeps the black heights
  (`SwapBalanced`) and moves red pairs as the loops want it (`SwapPairs`, `RedTurned`).
- The loops. `Inserting` and `Removing` say what is wrong before a round and where: a
  red pair at one node, or one black node too few on one side of one. Each round ends the
  loop or moves the fault up to a node with more nodes below it, so that after
  as many rounds as there are nodes there is none. That the sibling and grandparent which the
  code dereferences untested exist is part of it (`Sibling`, `Parents`).
- The walks (`Walked`, `OutermostFound`, `UpPastFound`): the node looked for is below the
  current one or is the last one remembered.
- Insertion hangs a leaf where the walk ended (`LeafFormed`). Removal first takes a node
  with at most one child out of its place (`UnlinkedKeeps`); if that was the
  successor, it then takes over the place, links and color of the node to go, which is
  a renaming of the whole tree (`ReplacedKeeps`); then come the colors, and the removed node's
  own fields, which nothing reads (`ForgottenKeeps`).
- From it `TreeRedBlack` and `TreeIsKeyedSet`: `TreeSpec => IsKeyedSet`, each function does and
  returns what `KeyedSet` says. With `QueuesImplemented` this is why `NtyScheduler` may work
  with sets and sequences.

Assumed are the named assumptions of the modules, which TLC evaluates on each instance,
and in the theorems that say so `NoSleep`, `Invalid = {}`, `Enough` or `~Aborting`, each explained above.

Only model-checked:

- liveness: `QueuedRuns`, `ReadyServed`, `CallsEnd`, `Accepted` and `DescriptorsServed`, out
  of the prover's reach;
- `RpcWire` over `CJson`, whose parser and printer are recursive: `CallArrives`,
  `AcceptedIsSent`, `PartsRefused`, `HeapHolds` and `FailureFreesAll`. What a recursive
  definition computes for every input needs induction over data.

## Findings

- One `recv` per payload, with an assertion that it was enough, in the server
  (`rpc_server.c:41`, shown by `rpc_server_assert`) and in the client (`rpc.c:375`).
- `rpc_listen` gives the -1 of a failed `accept` to a handler; the second one ends the
  server in an assertion (`rpc_server.c:89`, `nty_schedule.c:172`, shown by `server_too_many`).
- `sub` and `mul` take doubles and their handlers read ints (`rpc_method.c:89`, `:122`, shown by
  `calls_doubles`); the generator writes it so for every type that is no string
  (`rpc_generator.c:79`).

Met while modelling and within the properties that hold, which say so:

- `nty_coroutine_sleep(ms)` does not yield (`nty_schedule.c:108`); the coroutine runs on and is
  expired wherever it then is. With `sleep(ms)`, `sleep(0)`, expiry and `sleep(0)` again it is
  linked into the ready queue twice (`nty_coroutine.c:272`) and cuts off those queued
  behind it: the exception in `NoLostCoroutine`. A sleeper due again at once keeps
  the expired loop from ending (`nty_schedule.c:325`): the condition of `QueuedRuns`.
- Without memory for a payload `rpc_handle` reads it as headers (`rpc_server.c:36-38`), and
  client and server may then wait for each other: the exception in `CallsEnd`.
- A request is sent with whatever members there was memory for (`rpc.c:122-147`); without
  a parameter it ends the server. Params whose name cannot be copied leak, and so
  does the tree of an answer without a result (`rpc.c:169-172`): named in `FailureFreesAll`.
- A registration without a port leaves `rpc_server_ip` pointing into a deleted tree
  (`rpc.c:315`), and an address is freed inside a tree that is kept (`rpc.c:248`).
- A string result has the quotes of its JSON text (`rpc.c:174`).
- The server keeps the tree and the task of every request (`rpc.c:80`): `HeapHolds` counts them.
- `socket` leaves its descriptor open when `fcntl` fails (`nty_socket.c:374-378`):
  the exception in `NoneForgotten`.
- The generator gives its parameter arrays one byte per pointer (`rpc_generator.c:235`) and
  uses a root and a descriptor that are not set on early errors (`rpc_generator.c:285`): the
  causes that `CleanOrCaused` names.

## What is not modelled

- The `nty_` variants of the socket calls repeat the hooked ones under other names; the splay
  trees, the SLIST, STAILQ and SIMPLEQ macros and the editing, comparing and minifying
  functions of cJSON have no caller in the repository.
- The assembly context switch is the build without `_USE_UCONTEXT`; the shared stack modelled
  here is the other one.
- The conversion of a timeout to a `timespec` and to milliseconds: it may make `epoll_wait`
  return early, which only repeats the loop. The eventfd is created and never written.
- Failures of `bind` and `listen` at start-up, whose results the code ignores; failed
  allocations of `nty_coroutine_create`, whose result it ignores too and by which a
  connection would stay open without a handler; a full disk under the generator.
- `rpc_get_caller_id` is called "atomic" by its comment and is a plain increment; every
  program here calls it from one thread and nothing reads the id.
- The threads of `rpc_benchmark.c`, which share only the caller table that none of them
  changes; the programs that only call and print; the build files.

## Plan

Done: all modules above, model-checked; proofs about the scheduler, the server, the session,
registration, the stubs, the socket calls, the generator, the tail queues and the red-black
tree. Left, in this order:

1. An abstract coroutine pool (a coroutine is queued, waiting, running or done) that
   `NtyScheduler` implements, with the refinement proved from `Inv`.
2. The heap of `CJson` apart from its texts: that every step which fails frees what it took
   can be stated about counts alone, which needs no recursion to prove.
3. The time a sleeper waits at most, with the conversion of the timeout.

A new module shares a run with the one it extends or composes where their questions are
the same, so that the table above stays short.
