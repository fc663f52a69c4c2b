----------------------------- MODULE MCRpcSession -----------------------------
(* Instances of RpcSession for TLC. *)
EXTENDS RpcSession, TLC

CONSTANTS add, echo, tail, gone, sum, book

\* With Base = 2 a frame holds at most three bytes of payload: add is ordinary,
\* echo has an answer that is too long, tail is too long itself, gone names no
\* method.
Requests  == {add, echo, tail, gone}
Replies   == {sum, book}
Responses == (add :> sum) @@ (echo :> book) @@ (tail :> sum) @@ (gone :> Null)
Lengths   == (add :> 2) @@ (echo :> 1) @@ (tail :> 4) @@ (gone :> 1) @@ (sum :> 1) @@ (book :> 4)

Calm   == [whole |-> TRUE, crashes |-> FALSE, memory |-> TRUE]
Cut    == [whole |-> FALSE, crashes |-> FALSE, memory |-> TRUE]
Rough  == [whole |-> FALSE, crashes |-> TRUE, memory |-> TRUE]
Scarce == [whole |-> TRUE, crashes |-> FALSE, memory |-> FALSE]

AllNetworks == {Calm, Rough, Scarce}
OnlyCut     == {Cut}
===============================================================================
