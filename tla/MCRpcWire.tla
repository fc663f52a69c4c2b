------------------------------- MODULE MCRpcWire -------------------------------
(* An instance of RpcWire for TLC. *)
EXTENDS RpcWire

\* The usual check value: the CRC of "123456789" is 0xCBF43926.
ASSUME CheckValue ==
  CalcCrc32(<<49, 50, 51, 52, 53, 54, 55, 56, 57>>)
    = {31, 30, 27, 25, 24, 23, 22, 21, 20, 18, 13, 12, 11, 8, 5, 2, 1}

Key(n) == <<n>>
x == Key(120)
y == Key(121)
upperX == Key(88)

MCMethodKey == Key(109)
MCParamsKey == Key(112)
MCCalleridKey == Key(99)
MCResultKey == Key(114)

Pair(name, value) == [name |-> name, value |-> value]
Num(name, tenths) == Pair(name, Number(tenths))
Str(name, s) == Pair(name, String(s))
Ask(method, params, callerid) ==
  [method |-> method, params |-> params, callerid |-> callerid]

\* Strings with every kind of escape and with bytes that are none, numbers that
\* are negative, broken and too large for an int, names that differ in case.
MCRequests ==
  {Ask(<<97>>, <<Num(x, 15), Str(y, <<34, 92, 10>>)>>, 0),
   Ask(<<97>>, <<Str(x, <<1, 47, 200, 31>>), Num(y, -3)>>, 1),
   Ask(<<97>>, <<Str(x, <<>>), Num(upperX, 10 * IntMax + 20)>>, 2),
   Ask(<<98>>, <<>>, 3)}

MCResults == {Number(-120), String(<<65, 9, 127>>)}

List(type, items) == [Item(type) EXCEPT !.child = items]
Members(pairs) ==
  List("Object", [i \in DOMAIN pairs |-> [pairs[i].value EXCEPT !.string = pairs[i].name]])

\* A file with every type of value, and one that is nested too deep.
MCFiles ==
  {Members(<<Str(x, <<34>>), Num(y, 70),
             Pair(upperX, List("Array", <<Members(<<Pair(x, Item("True"))>>), Item("Null"),
                                            List("Array", <<>>)>>))>>),
   Members(<<Pair(x, List("Array", <<List("Array", <<List("Array", <<Item("False")>>)>>)>>)),
             Pair(y, Item("Object"))>>)}
===============================================================================
