-------------------------------- MODULE RpcStub --------------------------------
(***************************************************************************)
(* The methods of rpc_method.c, called through their client stubs: a stub  *)
(* encodes its arguments as its table entry declares them, the handler in  *)
(* the server decodes them, computes and encodes the result, and the stub  *)
(* decodes that.  rpc_generator.c writes stubs and handlers of this form   *)
(* for every method.                                                       *)
(*                                                                         *)
(* The registration is that of the client, RpcRegister; the session brings *)
(* every request and answer over whole.  A double is a number of 1/Scale.  *)
(***************************************************************************)
EXTENDS RpcRegister

CONSTANTS
  Ints,     \* int arguments
  Doubles,  \* double arguments, in 1/Scale
  Messages, \* strings, as sequences of characters
  Scale,
  MaxInt    \* INT_MAX

\* Parameters and result of each method.
Types ==
  [sayhello |-> <<"char*", "int">>, echo |-> <<"char*", "int">>,
   add |-> <<"int", "int">>, sum |-> <<"int", "int", "int">>,
   sub |-> <<"double", "double">>, mul |-> <<"double", "double">>]
Rettype == [sayhello |-> "char*", echo |-> "char*", add |-> "int", sum |-> "int",
            sub |-> "double", mul |-> "double"]
Arity(m) == Len(Types[m])

\* The arguments of a call: a message comes with a length inside it.
Arguments(m) ==
  CASE Rettype[m] = "char*"  -> UNION {{<<s, n>> : n \in 0..Len(s)} : s \in Messages}
    [] Rettype[m] = "int"    -> [1..Arity(m) -> Ints]
    [] Rettype[m] = "double" -> [1..Arity(m) -> Doubles]

\* A file that is accepted declares at most the parameters a stub passes, beyond
\* which va_arg would read what nobody passed.
ASSUME StubAssumption ==
  /\ Method \subseteq DOMAIN Types
  /\ Scale \in Nat \ {0} /\ MaxInt \in Nat
  /\ \A s \in Messages : s \in Seq({s[i] : i \in DOMAIN s}) /\ Len(s) <= MaxInt
  /\ Ints \subseteq -MaxInt - 1..MaxInt /\ Doubles \subseteq Int
  /\ \A f \in File : Json[f] # Null =>
       \A i \in DOMAIN Json[f].config :
         Json[f].config[i] # Null =>
           \/ Json[f].config[i].params <= Arity(Json[f].config[i].method)
           \/ Json[f].config[i].params > MaxParams

VARIABLES
  stage,   \* of the current call
  method, args,
  request, \* its encoded parameters, in the order of the handler's
  answer,  \* the encoded result
  value    \* what the stub returned

callVars == <<stage, method, args, request, answer, value>>
stubVars == <<vars, callVars>>

StubInit ==
  /\ Init
  /\ stage = "idle" /\ method = Null /\ args = Null
  /\ request = <<>> /\ answer = Null /\ value = Null

-------------------------------------------------------------------------------
(* JSON values *)

Number(n) == <<"number", n>>
Text(s)   == <<"text", s>>

\* Mutant: an int is taken for unsigned.
Unsigned(n) == n % (2 * MaxInt + 2)
EncodedUnsigned(type, arg) ==
  CASE type = "int"    -> Number(Scale * Unsigned(arg))
    [] type = "double" -> Number(arg)
    [] type = "char*"  -> Text(arg)

\* rpc_request_json_encode: an argument by its declared type.
Encoded(type, arg) ==
  CASE type = "int"    -> Number(Scale * arg)
    [] type = "double" -> Number(arg)
    [] type = "char*"  -> Text(arg)

\* A double cut to an int.
Truncated(n) == IF n >= 0 THEN n \div Scale ELSE -((-n) \div Scale)

\* The valueint of a parsed number.
ValueInt(json) ==
  LET n == Truncated(json[2])
  IN  IF n > MaxInt THEN MaxInt ELSE IF n < -MaxInt - 1 THEN -MaxInt - 1 ELSE n

\* The result of an int operation: an overflow wraps around in the builds, which
\* use no option that traps it.
Wrapped(n) == ((n + MaxInt + 1) % (2 * MaxInt + 2)) - MaxInt - 1

\* How cJSON_Print writes a string: quoted, with quotes and backslashes escaped.
Printed(s) ==
  LET escaped[i \in 0..Len(s)] ==
        IF i = 0 THEN <<>>
        ELSE escaped[i - 1] \o (IF s[i] \in {"\"", "\\"} THEN <<"\\", s[i]>> ELSE <<s[i]>>)
  IN  <<"\"">> \o escaped[Len(s)] \o <<"\"">>

-------------------------------------------------------------------------------
(* The methods of the server *)

\* Mutant: the loop goes on to the end and swaps everything back.
SwapsAll(length) == length

\* How often the loop of rpc_sayhello swaps.
Swaps(length) == length \div 2

\* rpc_sayhello: the loop that swaps characters from both ends, i from 0.
SayHello(msg, length) ==
  LET swapped[i \in 0..Swaps(length)] ==
        IF i = 0 THEN msg
        ELSE [swapped[i - 1] EXCEPT ![i] = swapped[i - 1][length - i + 1],
                                    ![length - i + 1] = swapped[i - 1][i]]
  IN  swapped[Swaps(length)]

OtherCase(ch) == IF ch = "a" THEN "A" ELSE IF ch = "A" THEN "a" ELSE ch

\* rpc_echo: upper and lower case exchanged.
Echo(msg, length) == [i \in DOMAIN msg |-> IF i <= length THEN OtherCase(msg[i]) ELSE msg[i]]

\* What the server's handler of a method answers.
Handled(m, p) ==
  LET v(i) == ValueInt(p[i])
  IN  CASE m = "sayhello" -> Text(SayHello(p[1][2], v(2)))
        [] m = "echo"     -> Text(Echo(p[1][2], v(2)))
        [] m = "add"      -> Number(Scale * Wrapped(v(1) + v(2)))
        [] m = "sum"      -> Number(Scale * Wrapped(Wrapped(v(1) + v(2)) + v(3)))
        [] m = "sub"      -> Number(Scale * (v(1) - v(2)))
        [] m = "mul"      -> Number(Scale * (v(1) * v(2)))

\* What the stub makes of the printed result: atoi, strtod or a copy.
Decoded(m, json) ==
  CASE Rettype[m] = "int"    -> Truncated(json[2])
    [] Rettype[m] = "double" -> json[2]
    [] Rettype[m] = "char*"  -> Printed(json[2])

-------------------------------------------------------------------------------
(* A call *)

\* A process registers between its calls, if at all.
Register(f) ==
  /\ stage \in {"idle", "returned"}
  /\ Load(f)
  /\ stage' = "idle" /\ method' = Null /\ args' = Null
  /\ request' = <<>> /\ answer' = Null /\ value' = Null

\* As many arguments as the table declares are sent.
Encode(m, a) == [i \in 1..Lookup(m).count |-> Encoded(Types[m][i], a[i])]

Ask(m, a) ==
  /\ stage \in {"idle", "returned"}
  /\ Call(m)
  /\ IF fault' = "none"
     THEN /\ stage' = "asked" /\ method' = m /\ args' = a /\ request' = Encode(m, a)
          /\ answer' = Null /\ value' = Null
     ELSE UNCHANGED callVars

\* The server has registered the same files.  A handler that is missing, or that
\* misses a parameter, ends it, and the stub cannot do without an answer.
Answer ==
  /\ stage = "asked"
  /\ Serve(method)
  /\ fault' = "none" <=> Lookup(method).handler /\ Len(request) = Arity(method)
  /\ IF fault' = "none"
     THEN answer' = Handled(method, request) /\ stage' = "answered"
          /\ UNCHANGED <<method, args, request, value>>
     ELSE UNCHANGED callVars

Return ==
  /\ stage = "answered"
  /\ value' = Decoded(method, answer) /\ stage' = "returned"
  /\ UNCHANGED <<vars, method, args, request, answer>>

StubNext ==
  \/ \E f \in File : Register(f)
  \/ \E m \in Method : \E a \in Arguments(m) : Ask(m, a)
  \/ Answer \/ Return

StubSpec == StubInit /\ [][StubNext]_stubVars

-------------------------------------------------------------------------------
(* Properties *)

Whole(a) == \A i \in DOMAIN a : a[i] % Scale = 0 /\ Truncated(a[i]) \in -MaxInt - 1..MaxInt

\* A call of a method on numbers returns what the method returns when it is called
\* here: for every int, and for the doubles that are whole and fit an int.
NumbersTransparent ==
  stage = "returned" =>
    CASE method = "add" -> value = Wrapped(args[1] + args[2])
      [] method = "sum" -> value = Wrapped(args[1] + args[2] + args[3])
      [] method = "sub" -> Whole(args) => value = args[1] - args[2]
      [] method = "mul" -> Whole(args) => Scale * value = args[1] * args[2]
      [] OTHER -> TRUE

\* A call of a method on strings returns what the method returns, as JSON writes
\* it: in quotes and escaped.  The first length characters come reversed, or with
\* their case exchanged, and the rest as they were.
StringsComeQuoted ==
  stage = "returned" /\ Rettype[method] = "char*" =>
    LET s == args[1]
        n == args[2]
        called == [i \in DOMAIN s |-> IF i > n THEN s[i]
                                      ELSE IF method = "sayhello" THEN s[n + 1 - i]
                                      ELSE OtherCase(s[i])]
    IN  value = Printed(called)

\* The parameters of sub and mul are doubles, as register.json and the prototypes
\* have it, so they arrive as doubles.
DoublesArrive ==
  stage = "returned" /\ method = "sub" => value = args[1] - args[2]
===============================================================================
