---------------------------- MODULE MCRpcGenerator ----------------------------
(* Registration files for RpcGenerator, good and bad. *)
EXTENDS RpcGenerator, TLC

CONSTANTS good, cut, long, untyped, broken, empty

Declare(rettype, types) ==
  [method |-> "string", rettype |-> rettype,
   params |-> [i \in DOMAIN types |-> "string"], types |-> types]

Add  == Declare("string", <<"string", "string">>)
Sum  == Declare("string", <<"string", "string", "string">>)
Wide == Declare("string", <<"string", "string", "string", "string">>)

Jsons ==
  (good :> <<Sum, Add>>)
  @@ (cut :> <<Add, [Add EXCEPT !.types = <<"string">>], Sum>>)
  @@ (long :> <<Declare("other", <<>>), Wide, [Add EXCEPT !.params = <<"other", "string">>]>>)
  @@ (untyped :> <<Add, Declare("string", <<"string", "other">>), [Add EXCEPT !.method = Null]>>)
  @@ (broken :> NoJson) @@ (empty :> Null)
===============================================================================
