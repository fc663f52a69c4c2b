------------------------------ MODULE RpcRegister ------------------------------
(***************************************************************************)
(* Registration: rpc_load_register reads a JSON file, keeps the address it *)
(* names in rpc_server_ip and one entry per method in rpc_caller_table,    *)
(* where rpc_process and rpc_request_json_encode look methods up.          *)
(*                                                                         *)
(* Address and entries point into the parsed tree, which is kept when the  *)
(* file is accepted and deleted when it is not.  A tree is the number of   *)
(* its parse.  Which strings are still allocated is what the model is for. *)
(***************************************************************************)
EXTENDS Integers, Sequences

CONSTANTS
  Method,     \* names of methods
  File,       \* files that may be registered
  Json,       \* what a file parses to, Null if it is missing or no JSON
  Library,    \* methods whose handler dlsym finds
  MaxParams,  \* RPC_PARAMS_MAX_COUNT
  MaxLoads,   \* bound on the trees parsed
  Null

\* An entry of "config"; Null stands for one without a method or a rettype.
Declaration == [method : Method, params : Nat, types : Nat] \cup {Null}

\* A tree: whether it has a "remote" string, whether it has a "port" number, and
\* its "config", empty if there is none.
Tree == [remote : BOOLEAN, port : BOOLEAN, config : Seq(Declaration)]

ASSUME RegisterAssumption ==
  /\ Json \in [File -> Tree \cup {Null}]
  /\ Null \notin Tree \cup Nat \cup [method : Method, params : Nat, types : Nat]
  /\ MaxParams \in Nat /\ MaxLoads \in Nat

VARIABLES
  parsed,   \* the file of every tree parsed so far
  deleted,  \* trees given to cJSON_Delete
  freed,    \* trees whose "remote" string was freed alone
  ip,       \* rpc_server_ip: Null or the tree that its string belongs to
  table,    \* rpc_caller_table, head first
  result,   \* what the last call returned
  fault     \* "none", or what ended the process

vars == <<parsed, deleted, freed, ip, table, result, fault>>

Init ==
  /\ parsed = <<>> /\ deleted = {} /\ freed = {}
  /\ ip = Null /\ table = <<>> /\ result = "none" /\ fault = "none"

Trees == DOMAIN parsed

\* An entry of the table for a method of one of the trees given.
Entry(trees) == [method : Method, tree : trees, count : 0..MaxParams, handler : BOOLEAN]

-------------------------------------------------------------------------------
(* The address *)

\* The string that rpc_server_ip points to is no longer allocated.
Dangling == ip \in deleted \cup freed

\* Mutant: the old address is left to leak.
FreeAddressNot == freed

\* The address of the file before goes when the new one has a "remote".
FreeAddress == freed \cup ({ip} \ {Null})

-------------------------------------------------------------------------------
(* The table *)

\* rpc_method_find: whether the library exports the method's handler.
Found(m) == m \in Library

\* Mutant: new entries go to the tail, where the lookup finds the old ones first.
PushTail(config, tree, n) ==
  table \o [i \in 1..n |-> [method  |-> config[i].method, tree |-> tree,
                            count   |-> config[i].params,
                            handler |-> Found(config[i].method)]]

\* The first n declarations of a file, each put at the head of the list.
Push(config, tree, n) ==
  [i \in 1..n |-> LET d == config[n + 1 - i]
                  IN  [method |-> d.method, tree |-> tree, count |-> d.params,
                       handler |-> Found(d.method)]] \o table

\* What the loop over "config" does not survive.  It has no bound of its own: more
\* parameters than func->params holds are written past it.
Trouble(d) ==
  IF d = Null THEN "null"
  ELSE IF d.params # d.types THEN "assert"
  ELSE IF d.params > MaxParams THEN "overflow"
  ELSE "none"

\* The list is searched from its head.
Hits(m) == {i \in DOMAIN table : table[i].method = m}
Lookup(m) == IF Hits(m) = {} THEN Null
             ELSE table[CHOOSE i \in Hits(m) : \A j \in Hits(m) : i <= j]

-------------------------------------------------------------------------------
(* rpc_load_register *)

Unreadable(f) ==
  /\ Json[f] = Null
  /\ result' = "-1"
  /\ UNCHANGED <<parsed, deleted, freed, ip, table, fault>>

\* Mutant: the old address is freed before the new file is known to have one.
NoRemoteFrees(f) ==
  /\ Json[f] # Null /\ ~Json[f].remote
  /\ parsed' = Append(parsed, f)
  /\ deleted' = deleted \cup {Len(parsed) + 1}
  /\ freed' = FreeAddress
  /\ result' = "-3"
  /\ UNCHANGED <<ip, table, fault>>

NoRemote(f) ==
  /\ Json[f] # Null /\ ~Json[f].remote
  /\ parsed' = Append(parsed, f)
  /\ deleted' = deleted \cup {Len(parsed) + 1}
  /\ result' = "-3"
  /\ UNCHANGED <<freed, ip, table, fault>>

\* The address of a tree that was deleted is freed once more.
FreedTwice(f) ==
  /\ Json[f] # Null /\ Json[f].remote /\ Dangling
  /\ parsed' = Append(parsed, f)
  /\ fault' = "double free"
  /\ UNCHANGED <<deleted, freed, ip, table, result>>

\* The tree with the new address has a remote, which is kept.
NewAddress(f) ==
  /\ Json[f] # Null /\ Json[f].remote /\ ~Dangling
  /\ parsed' = Append(parsed, f)
  /\ freed' = FreeAddress
  /\ ip' = Len(parsed) + 1

\* The tree is deleted, although rpc_server_ip points into it.
NoPort(f) ==
  /\ NewAddress(f) /\ ~Json[f].port
  /\ deleted' = deleted \cup {Len(parsed) + 1}
  /\ result' = "-4"
  /\ UNCHANGED <<table, fault>>

\* Mutant: the function runs on into its error path, which deletes the tree.
RegisteredFallsThrough(f) ==
  LET config == Json[f].config IN
  /\ NewAddress(f) /\ Json[f].port
  /\ \A i \in DOMAIN config : Trouble(config[i]) = "none"
  /\ table' = Push(config, Len(parsed) + 1, Len(config))
  /\ deleted' = deleted \cup {Len(parsed) + 1}
  /\ result' = "0"
  /\ UNCHANGED fault

Registered(f) ==
  LET config == Json[f].config IN
  /\ NewAddress(f) /\ Json[f].port
  /\ \A i \in DOMAIN config : Trouble(config[i]) = "none"
  /\ table' = Push(config, Len(parsed) + 1, Len(config))
  /\ result' = "0"
  /\ UNCHANGED <<deleted, fault>>

\* The declarations before the first bad one are in the table when it ends the
\* process.
Broken(f) ==
  LET config == Json[f].config IN
  /\ NewAddress(f) /\ Json[f].port
  /\ \E n \in DOMAIN config :
       /\ \A i \in 1..(n - 1) : Trouble(config[i]) = "none"
       /\ Trouble(config[n]) # "none"
       /\ table' = Push(config, Len(parsed) + 1, n - 1)
       /\ fault' = Trouble(config[n])
  /\ UNCHANGED <<deleted, result>>

Load(f) ==
  /\ fault = "none" /\ Len(parsed) < MaxLoads
  /\ \/ Unreadable(f) \/ NoRemote(f) \/ FreedTwice(f)
     \/ NoPort(f) \/ Registered(f) \/ Broken(f)

-------------------------------------------------------------------------------
(* The users of address and table *)

\* rpc_process: without an entry it returns NULL, with one it calls the handler,
\* which may be NULL and uses the parameters of the request without a test.
Serve(m) ==
  /\ fault = "none"
  /\ \/ Lookup(m) = Null /\ result' = "NULL" /\ UNCHANGED fault
     \/ /\ Lookup(m) # Null /\ Lookup(m).handler
        /\ result' = "response" /\ UNCHANGED fault
     \/ Lookup(m) # Null /\ fault' = "null" /\ UNCHANGED result
  /\ UNCHANGED <<parsed, deleted, freed, ip, table>>

\* A client stub: rpc_request_json_encode returns NULL without an entry,
\* rpc_client_session connects to rpc_server_ip and takes strlen of the request.
Call(m) ==
  /\ fault = "none"
  /\ \/ /\ Dangling
        /\ fault' = "use after free" /\ UNCHANGED result
     \/ /\ ~Dangling /\ (ip = Null \/ Lookup(m) = Null)
        /\ fault' = "null" /\ UNCHANGED result
     \/ /\ ~Dangling /\ ip # Null /\ Lookup(m) # Null
        /\ result' = "sent" /\ UNCHANGED fault
  /\ UNCHANGED <<parsed, deleted, freed, ip, table>>

Next ==
  \/ \E f \in File : Load(f)
  \/ \E m \in Method : Serve(m) \/ Call(m)

Spec == Init /\ [][Next]_vars

-------------------------------------------------------------------------------
(* Properties *)

\* The type invariant.
TypeOK ==
  /\ parsed \in Seq(File)
  /\ deleted \subseteq Trees /\ freed \subseteq Trees
  /\ ip \in Trees \cup {Null}
  /\ table \in Seq(Entry(Trees))
  /\ result \in {"none", "-1", "-3", "-4", "0", "NULL", "response", "sent"}
  /\ fault \in {"none", "null", "assert", "overflow", "double free", "use after free"}

\* Every name, type and parameter the table points to is in a tree that still
\* exists, however often files are registered and whatever is wrong with them.
EntriesLive == \A i \in DOMAIN table : table[i].tree \notin deleted

\* Of all the addresses parsed exactly the current one is left: each other was
\* freed, alone or with its tree and not both ways.
AddressesFreedOnce ==
  /\ freed \cap deleted = {} /\ ip \notin freed
  /\ fault # "double free" => Trees \subseteq freed \cup deleted \cup {ip}

\* The address is used after it was freed, or freed again, only after a file
\* that has a remote and no port.
OnlyPortlessHurts ==
  Dangling \/ fault \in {"double free", "use after free"} =>
    \E t \in deleted : Json[parsed[t]].remote

\* A method is looked up as the file registered last declares it, and there as
\* declared last; a file registered before counts if no later one has the method.
LatestDeclarationFound ==
  LET Declares(m, t, i) == i \in DOMAIN Json[parsed[t]].config
                            /\ Json[parsed[t]].config[i].method = m
      Kept == Trees \ deleted
  IN  fault = "none" =>
        \A m \in Method :
          IF \E t \in Kept : \E i \in DOMAIN Json[parsed[t]].config : Declares(m, t, i)
          THEN LET t == Lookup(m).tree IN
               /\ \A u \in Kept : u > t => \A i \in DOMAIN Json[parsed[u]].config : ~Declares(m, u, i)
               /\ \E i \in DOMAIN Json[parsed[t]].config :
                    /\ Declares(m, t, i) /\ Json[parsed[t]].config[i].params = Lookup(m).count
                    /\ \A j \in DOMAIN Json[parsed[t]].config : j > i => ~Declares(m, t, j)
          ELSE Lookup(m) = Null
===============================================================================
