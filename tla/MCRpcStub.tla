------------------------------- MODULE MCRpcStub -------------------------------
(* Instances of RpcStub for TLC. *)
EXTENDS RpcStub, TLC

CONSTANTS plain, again, wider, remoteless, portless, broken, long, missing

Declare(m, p, t) == [method |-> m, params |-> p, types |-> t]
Accepted(c) == [remote |-> TRUE, port |-> TRUE, config |-> c]

\* Files that share methods, one that declares a method twice, and one of every
\* kind that is refused or that the loop does not survive.
Files ==
     (plain      :> Accepted(<<Declare("add", 2, 2), Declare("sayhello", 2, 2),
                               Declare("sub", 2, 2), Declare("sum", 3, 3)>>))
  @@ (again      :> Accepted(<<Declare("add", 1, 1), Declare("mul", 2, 2), Declare("add", 2, 2)>>))
  @@ (wider      :> Accepted(<<Declare("echo", 2, 2), Declare("sub", 1, 1)>>))
  @@ (remoteless :> [remote |-> FALSE, port |-> TRUE, config |-> <<Declare("add", 2, 2)>>])
  @@ (portless   :> [remote |-> TRUE, port |-> FALSE, config |-> <<Declare("add", 2, 2)>>])
  @@ (broken     :> Accepted(<<Declare("echo", 1, 1), Declare("sum", 1, 2), Null>>))
  @@ (long       :> Accepted(<<Declare("echo", 2, 2), Declare("add", 4, 4)>>))
  @@ (missing    :> Null)

\* Strings with letters of both cases and characters that JSON escapes.
Strings == {<<>>, <<"a">>, <<"a", "A", "\"">>, <<"\\", "a", "A", "A">>}

IntArguments == {-8, -1, 0, 7}

\* In halves: -1.5, 0, 0.5, 2, and 10, which is more than MaxInt.
DoubleArguments == {-3, 0, 1, 4, 20}
===============================================================================
