--------------------------------- MODULE CJson ---------------------------------
(***************************************************************************)
(* The functions of cJSON.c that the RPC code calls, as operators on bytes *)
(* and trees.  A byte is its number and a C string a sequence of bytes     *)
(* other than 0.  An item keeps its children as a sequence.  Numbers are   *)
(* counted in tenths and have no exponent.                                 *)
(*                                                                         *)
(* What the C code does to memory is kept in a heap: how many allocations  *)
(* will still succeed (left), whether there is memory again once one has   *)
(* failed (again), whether one has failed while a tree was built           *)
(* (refused), how many blocks are allocated (live), how many of them       *)
(* nothing points to any more (leaked), and whether every write stayed     *)
(* inside its block (fits).                                                *)
(***************************************************************************)
EXTENDS Integers, Sequences, SequencesExt

CONSTANTS
  NestingLimit,       \* CJSON_NESTING_LIMIT
  IntMax,             \* INT_MAX
  PrintSize           \* default_buffer_size of print

ASSUME CJsonAssumption ==
  /\ NestingLimit \in Nat
  /\ IntMax \in Nat
  /\ PrintSize \in Nat \ {0}

Quote == 34
Backslash == 92
Slash == 47
Comma == 44
Colon == 58
LBracket == 91
RBracket == 93
LBrace == 123
RBrace == 125
Plus == 43
Minus == 45
Point == 46
Zero == 48
Nine == 57
LowerA == 97
LowerF == 102
UpperA == 65
UpperF == 70
UpperZ == 90
LowerB == 98
LowerN == 110
LowerR == 114
LowerT == 116
LowerU == 117
LowerE == 101
UpperE == 69
Space == 32
Tab == 9
Newline == 10

----------------------------------------------------------------------------
(* Items and the heap.                                                     *)

NULL == <<0>>                    \* a char pointer that is NULL

Item(type) ==
  [type |-> type, string |-> NULL, valuestring |-> NULL,
   valuedouble |-> 0, valueint |-> 0, child |-> <<>>]

\* What a new item is before its type is set; also stands for the item NULL.
NewItem == Item("Invalid")

\* A C string ends at its first byte 0.
CString(s) ==
  LET end == SelectInSeq(s, LAMBDA c : c = 0)
  IN IF end = 0 THEN s ELSE SubSeq(s, 1, end - 1)

\* The blocks cJSON_Delete frees, given a list of items.
RECURSIVE Blocks(_)
Blocks(list) ==
  FoldLeft(LAMBDA n, it : n + 1 + (IF it.string = NULL THEN 0 ELSE 1)
                            + (IF it.valuestring = NULL THEN 0 ELSE 1)
                            + Blocks(it.child),
           0, list)

CanAllocate(h) == h.left > 0
Allocate(h)    == [h EXCEPT !.left = @ - 1, !.live = @ + 1]
Free(h, n)     == [h EXCEPT !.live = @ - n]
Leak(h, it)    == [h EXCEPT !.leaked = @ + IF it = NewItem THEN 0 ELSE Blocks(<<it>>)]

\* More allocations than any step makes.
Plenty == 1000

\* An allocation that failed, in code that goes on after it.
Refuse(h) == [h EXCEPT !.refused = TRUE, !.left = IF h.again THEN Plenty ELSE @]

\* Mutant: the item alone, not those after it.
DeleteOne(h, list) == Free(h, IF list = <<>> THEN 0 ELSE Blocks(<<Head(list)>>))

Delete(h, list) == Free(h, Blocks(list))

\* (int)number, saturated.
IntOf(tenths) ==
  IF tenths >= 10 * IntMax THEN IntMax
  ELSE IF tenths <= -10 * (IntMax + 1) THEN -(IntMax + 1)
  ELSE IF tenths >= 0 THEN tenths \div 10 ELSE -((-tenths) \div 10)

Number(tenths) ==
  [Item("Number") EXCEPT !.valuedouble = tenths, !.valueint = IntOf(tenths)]
String(s) == [Item("String") EXCEPT !.valuestring = s]

\* A step of building a tree: whether it succeeded, the item it is about, NewItem
\* for NULL, and the heap.
Built(ok, it, h) == [ok |-> ok, item |-> it, heap |-> h]

Create(it, h) ==
  IF CanAllocate(h) THEN Built(TRUE, it, Allocate(h)) ELSE Built(FALSE, NewItem, Refuse(h))

CreateObject(h)         == Create(Item("Object"), h)
CreateNumber(tenths, h) == Create(Number(tenths), h)

\* The string has a block of its own; the item is freed when there is none for it.
CreateString(s, h) ==
  LET new == Create(String(s), h)
  IN IF ~new.ok THEN new
     ELSE IF CanAllocate(new.heap) THEN [new EXCEPT !.heap = Allocate(@)]
     ELSE Built(FALSE, NewItem, Free(Refuse(new.heap), 1))

\* The item is neither added nor freed when it or the object is NULL, or when there
\* is no memory for the copy of the name.
AddItemToObject(object, name, it, h) ==
  IF NewItem \in {object, it} THEN Built(FALSE, object, h)
  ELSE IF ~CanAllocate(h) THEN Built(FALSE, object, Refuse(h))
  ELSE Built(TRUE, [object EXCEPT !.child = Append(@, [it EXCEPT !.string = name])],
             Allocate(h))

\* cJSON_Delete of a tree that may be NULL.
DeleteTree(h, it) == IF it = NewItem THEN h ELSE Delete(h, <<it>>)

\* A new member that could not be added is deleted.
AddNew(object, name, new) ==
  LET added == AddItemToObject(object, name, new.item, new.heap)
  IN IF added.ok THEN added ELSE [added EXCEPT !.heap = DeleteTree(@, new.item)]

AddNumberToObject(object, name, tenths, h) == AddNew(object, name, CreateNumber(tenths, h))
AddStringToObject(object, name, s, h)      == AddNew(object, name, CreateString(s, h))

\* The one or the other, as the type of the value says.
AddValueToObject(object, name, value, h) ==
  IF value.type = "Number" THEN AddNumberToObject(object, name, value.valuedouble, h)
                           ELSE AddStringToObject(object, name, value.valuestring, h)

LowerCase(c) == IF c \in UpperA..UpperZ THEN c + 32 ELSE c

SameName(s, t) ==
  /\ s # NULL /\ t # NULL
  /\ Len(s) = Len(t)
  /\ \A i \in DOMAIN s : LowerCase(s[i]) = LowerCase(t[i])

\* The first member with the name, in any case of letters; NewItem for NULL.
GetObjectItem(object, name) ==
  LET i == SelectInSeq(object.child, LAMBDA it : SameName(name, it.string))
  IN IF i = 0 THEN NewItem ELSE object.child[i]

----------------------------------------------------------------------------
(* Parsing.  A buffer is the text with its final 0; offsets count from 0.  *)
(* A step returns whether it succeeded, the item, the offset and the heap. *)

CanAccess(b, o) == o < Len(b)
At(b, o) == b[o + 1]
Is(b, o, c) == CanAccess(b, o) /\ At(b, o) = c

Parsed(it, o, h) == [ok |-> TRUE, item |-> it, offset |-> o, heap |-> h]
Failed(it, h)    == [ok |-> FALSE, item |-> it, offset |-> 0, heap |-> h]

SkipWhitespace(b, o) ==
  IF ~CanAccess(b, o) THEN o
  ELSE LET i == SelectInSubSeq(b, o + 1, Len(b), LAMBDA c : c > Space)
       IN IF i = 0 THEN Len(b) - 1 ELSE i - 1

IsDigit(c) == c \in Zero..Nine

\* Where the run of bytes that satisfy Test ends.
RunEnd(b, o, Test(_)) ==
  LET i == SelectInSubSeq(b, o + 1, Len(b), LAMBDA c : ~Test(c))
  IN IF i = 0 THEN Len(b) ELSE i - 1

NumberBytes(c) == IsDigit(c) \/ c \in {Plus, Minus, LowerE, UpperE, Point}

Decimal(s) == FoldLeft(LAMBDA n, c : 10 * n + (c - Zero), 0, s)

\* The number with its whole digits in first..whole and a fraction up to part.
NumberOf(b, o, first, whole, part) ==
  LET size == 10 * Decimal(SubSeq(b, first + 1, whole))
              + (IF part > whole + 1 THEN At(b, whole + 1) - Zero ELSE 0)
  IN IF whole = first /\ part <= whole + 1
     THEN [stop |-> o, number |-> 0]
     ELSE [stop |-> part, number |-> IF At(b, o) = Minus THEN -size ELSE size]

FractionAfter(whole, b, o, first) ==
  NumberOf(b, o, first, whole,
           IF Is(b, whole, Point) THEN RunEnd(b, whole + 1, IsDigit) ELSE whole)

\* strtod on a number at o: where it stops, and the number; it stops at o when
\* there is none.
Strtod(b, o) ==
  LET first == IF At(b, o) \in {Plus, Minus} THEN o + 1 ELSE o
  IN FractionAfter(RunEnd(b, first, IsDigit), b, o, first)

\* The digits are copied to a block of their own, which is freed again.
ParseNumber(it, b, o, h) ==
  LET n    == Strtod(SubSeq(b, 1, RunEnd(b, o, NumberBytes)), o)
      used == Free(Allocate(h), 1)
  IN IF ~CanAllocate(h) THEN Failed(it, h)
     ELSE IF n.stop = o THEN Failed(it, used)
     ELSE Parsed([it EXCEPT !.type = "Number", !.valuedouble = n.number,
                            !.valueint = IntOf(n.number)],
                 n.stop, used)

\* Mutant: capital digits only.
HexDigitCapital(c) ==
  IF c \in Zero..Nine THEN c - Zero
  ELSE IF c \in UpperA..UpperF THEN 10 + c - UpperA
  ELSE -1

HexDigit(c) ==
  IF c \in Zero..Nine THEN c - Zero
  ELSE IF c \in UpperA..UpperF THEN 10 + c - UpperA
  ELSE IF c \in LowerA..LowerF THEN 10 + c - LowerA
  ELSE -1

\* Four hexadecimal digits; 0 when one of them is none.
ParseHex4(b, o) ==
  LET digits == [k \in 1..4 |-> HexDigit(At(b, o + k - 1))]
  IN IF -1 \in ToSet(digits) THEN 0 ELSE FoldLeft(LAMBDA n, d : 16 * n + d, 0, digits)

Utf8(code) ==
  LET Rest(k) == 128 + ((code \div k) % 64)
  IN IF code < 128 THEN <<code>>
     ELSE IF code < 2048 THEN <<192 + (code \div 64), Rest(1)>>
     ELSE IF code < 65536 THEN <<224 + (code \div 4096), Rest(64), Rest(1)>>
     ELSE <<240 + (code \div 262144), Rest(4096), Rest(64), Rest(1)>>

\* The literal \uXXXX or \uXXXX\uXXXX at o: its length (0 for none), its bytes.
Utf16Literal(b, o, end) ==
  LET None   == [length |-> 0, bytes |-> <<>>]
      first  == ParseHex4(b, o + 2)
      second == ParseHex4(b, o + 8)
  IN IF end - o < 6 THEN None
     ELSE IF first \in 56320..57343 THEN None
     ELSE IF first \notin 55296..56319 THEN [length |-> 6, bytes |-> Utf8(first)]
     ELSE IF end - o < 12 THEN None
     ELSE IF ~(Is(b, o + 6, Backslash) /\ Is(b, o + 7, LowerU)) THEN None
     ELSE IF second \notin 56320..57343 THEN None
     ELSE [length |-> 12,
           bytes  |-> Utf8(65536 + (first % 1024) * 1024 + (second % 1024))]

\* The bytes that a backslash and the byte c stand for; none if c is no escape.
Unescape(c) ==
  CASE c = LowerB -> <<8>>
    [] c = LowerF -> <<12>>
    [] c = LowerN -> <<Newline>>
    [] c = LowerR -> <<13>>
    [] c = LowerT -> <<Tab>>
    [] c \in {Quote, Backslash, Slash} -> <<c>>
    [] OTHER -> <<>>

\* The closing quote from o on, and how many escapes come before it; Len(b)
\* when there is none.
RECURSIVE ClosingQuote(_, _, _)
ClosingQuote(b, o, escapes) ==
  LET stop == RunEnd(b, o, LAMBDA c : c \notin {Quote, Backslash})
  IN IF ~Is(b, stop, Backslash) THEN [offset |-> stop, escapes |-> escapes]
     ELSE IF CanAccess(b, stop + 1) THEN ClosingQuote(b, stop + 2, escapes + 1)
     ELSE [offset |-> Len(b), escapes |-> escapes]

RECURSIVE Unescaped(_, _, _, _)

\* The escape at o: its length and its bytes, none if it is no escape.
EscapeAt(b, o, end) ==
  IF At(b, o + 1) = LowerU THEN Utf16Literal(b, o, end)
  ELSE [length |-> 2, bytes |-> Unescape(At(b, o + 1))]

AfterEscape(escape, b, o, end, out) ==
  IF escape.bytes = <<>> THEN [ok |-> FALSE, bytes |-> out]
  ELSE Unescaped(b, o + escape.length, end, out \o escape.bytes)

\* out, followed by what the bytes o..end stand for.
Unescaped(b, o, end, out) ==
  LET stop   == RunEnd(SubSeq(b, 1, end), o, LAMBDA c : c # Backslash)
      copied == out \o SubSeq(b, o + 1, stop)
  IN IF stop = end THEN [ok |-> TRUE, bytes |-> copied]
     ELSE AfterEscape(EscapeAt(b, stop, end), b, stop, end, copied)

\* The string s goes to a block of so many bytes.
StringOf(s, size, it, o, h) ==
  LET held == [Allocate(h) EXCEPT !.fits = @ /\ Len(s.bytes) + 1 <= size]
  IN IF s.ok
     THEN Parsed([it EXCEPT !.type = "String", !.valuestring = CString(s.bytes)], o, held)
     ELSE Failed(it, Free(held, 1))

\* The block for the string is measured before the escapes are resolved.
StringTo(close, it, b, o, h) ==
  IF ~CanAccess(b, close.offset) \/ ~CanAllocate(h) THEN Failed(it, h)
  ELSE StringOf(Unescaped(b, o + 1, close.offset, <<>>), close.offset - o - close.escapes + 1,
                it, close.offset + 1, h)

ParseString(it, b, o, h) ==
  IF Is(b, o, Quote) THEN StringTo(ClosingQuote(b, o + 1, 0), it, b, o, h) ELSE Failed(it, h)

Literals ==
  [Null |-> <<110, 117, 108, 108>>, False |-> <<102, 97, 108, 115, 101>>,
   True |-> <<116, 114, 117, 101>>]

LiteralAt(b, o, type) ==
  LET end == o + Len(Literals[type])
  IN end <= Len(b) /\ SubSeq(b, o + 1, end) = Literals[type]

\* Mutant: the end of the text ends a list as well.
ClosedByEnd(b, o, close) == Is(b, o, close) \/ Is(b, o, 0)

\* A list ends with its bracket.
Closed(b, o, close) == Is(b, o, close)

RECURSIVE ParseValue(_, _, _, _, _), ParseElements(_, _, _, _, _), ParseMembers(_, _, _, _, _)

\* The array or object, once its list was parsed or has failed.
Filled(it, type, list) ==
  IF list.ok THEN Parsed([it EXCEPT !.type = type, !.child = list.item], list.offset, list.heap)
             ELSE Failed(it, list.heap)

\* depth is the number of arrays and objects around the value.
ParseArray(it, b, o, depth, h) ==
  LET first == SkipWhitespace(b, o + 1)
  IN IF depth >= NestingLimit THEN Failed(it, h)
     ELSE IF Is(b, first, RBracket) THEN Parsed([it EXCEPT !.type = "Array"], first + 1, h)
     ELSE IF ~CanAccess(b, first) THEN Failed(it, h)
     ELSE Filled(it, "Array", ParseElements(b, first - 1, depth + 1, h, <<>>))

ParseObject(it, b, o, depth, h) ==
  LET first == SkipWhitespace(b, o + 1)
  IN IF depth >= NestingLimit THEN Failed(it, h)
     ELSE IF Is(b, first, RBrace) THEN Parsed([it EXCEPT !.type = "Object"], first + 1, h)
     ELSE IF ~CanAccess(b, first) THEN Failed(it, h)
     ELSE Filled(it, "Object", ParseMembers(b, first - 1, depth + 1, h, <<>>))

ParseValue(it, b, o, depth, h) ==
  LET word == {type \in DOMAIN Literals : LiteralAt(b, o, type)}
  IN IF word # {}
     THEN LET type == CHOOSE w \in word : TRUE
          IN Parsed([it EXCEPT !.type = type, !.valueint = IF type = "True" THEN 1 ELSE @],
                    o + Len(Literals[type]), h)
     ELSE IF ~CanAccess(b, o) THEN Failed(it, h)
     ELSE CASE At(b, o) = Quote -> ParseString(it, b, o, h)
            [] At(b, o) = Minus \/ IsDigit(At(b, o)) -> ParseNumber(it, b, o, h)
            [] At(b, o) = LBracket -> ParseArray(it, b, o, depth, h)
            [] At(b, o) = LBrace -> ParseObject(it, b, o, depth, h)
            [] OTHER -> Failed(it, h)

\* A list goes on after the value v, or ends.  Whatever fails, the items so far
\* (done) and the one begun are deleted.
ListAfter(v, b, depth, done, close) ==
  LET all == Append(done, v.item)
      end == SkipWhitespace(b, v.offset)
  IN IF v.ok /\ Is(b, end, Comma)
     THEN IF close = RBracket THEN ParseElements(b, end, depth, v.heap, all)
                              ELSE ParseMembers(b, end, depth, v.heap, all)
     ELSE IF v.ok /\ Closed(b, end, close) THEN Parsed(all, end + 1, v.heap)
     ELSE Failed(<<>>, Delete(v.heap, all))

\* The rest of an array after the separator at o.
ParseElements(b, o, depth, h, done) ==
  IF CanAllocate(h)
  THEN ListAfter(ParseValue(NewItem, b, SkipWhitespace(b, o + 1), depth, Allocate(h)),
                 b, depth, done, RBracket)
  ELSE Failed(<<>>, Delete(h, done))

\* A name is parsed as the item's value and moved to its string.
Named(it) == [it EXCEPT !.string = it.valuestring, !.valuestring = NULL]

\* A member after its name n.
MemberAfter(n, b, depth, done) ==
  LET colon == SkipWhitespace(b, n.offset)
  IN IF ~n.ok THEN Failed(<<>>, Delete(n.heap, Append(done, n.item)))
     ELSE IF ~Is(b, colon, Colon) THEN Failed(<<>>, Delete(n.heap, Append(done, Named(n.item))))
     ELSE ListAfter(ParseValue(Named(n.item), b, SkipWhitespace(b, colon + 1), depth, n.heap),
                    b, depth, done, RBrace)

\* The rest of an object after the separator at o.
ParseMembers(b, o, depth, h, done) ==
  IF ~CanAllocate(h) THEN Failed(<<>>, Delete(h, done))
  ELSE IF ~CanAccess(b, o + 1) THEN Failed(<<>>, Delete(Allocate(h), Append(done, NewItem)))
  ELSE MemberAfter(ParseString(NewItem, b, SkipWhitespace(b, o + 1), Allocate(h)), b, depth, done)

SkipBom(b) ==
  IF CanAccess(b, 4) /\ SubSeq(b, 1, 3) = <<239, 187, 191>> THEN 3 ELSE 0

\* What is left of a tree that failed.
Root(v) == IF v.ok THEN v ELSE Failed(NewItem, Delete(v.heap, <<v.item>>))

ParseBuffer(b, h) ==
  IF CanAllocate(h)
  THEN Root(ParseValue(NewItem, b, SkipWhitespace(b, SkipBom(b)), 0, Allocate(h)))
  ELSE Failed(NewItem, h)

\* cJSON_Parse: what follows the value is not looked at.
Parse(text, h) == ParseBuffer(Append(CString(text), 0), h)

----------------------------------------------------------------------------
(* Printing.  The state of printing is the bytes so far, the size of their *)
(* block and the heap; a block that could not grow is freed (size 0).      *)

\* Room for so many more bytes, and one.
Ensure(p, needed) ==
  LET size == needed + Len(p.bytes) + 1
  IN IF p.size = 0 \/ size <= p.size THEN p
     ELSE IF Len(p.bytes) >= p.size \/ ~CanAllocate(p.heap)
     THEN [p EXCEPT !.size = 0, !.heap = Free(@, 1)]
     ELSE [p EXCEPT !.size = 2 * size, !.heap.left = @ - 1]

\* Reserve room, then write; the final 0, if one is written, counts as a byte.
Put(p, needed, bytes, zero) ==
  LET q == Ensure(p, needed)
  IN IF q.size = 0 THEN q
     ELSE [q EXCEPT !.bytes = @ \o bytes,
                    !.heap.fits = @ /\ Len(q.bytes) + Len(bytes) + zero <= q.size]

RECURSIVE Digits(_)
Digits(n) == IF n < 10 THEN <<Zero + n>> ELSE Append(Digits(n \div 10), Zero + (n % 10))

PrintedNumber(tenths) ==
  LET size == IF tenths < 0 THEN -tenths ELSE tenths
  IN (IF tenths < 0 THEN <<Minus>> ELSE <<>>) \o Digits(size \div 10)
     \o (IF size % 10 = 0 THEN <<>> ELSE <<Point, Zero + (size % 10)>>)

PrintNumber(it, p) ==
  LET s == PrintedNumber(it.valuedouble) IN Put(p, Len(s) + 1, s, 1)

ShortEscapes == {Quote, Backslash, 8, 12, Newline, 13, Tab}

Escape(c) ==
  LET hex(d) == IF d < 10 THEN Zero + d ELSE LowerA + d - 10
  IN CASE c \in {Quote, Backslash} -> <<Backslash, c>>
       [] c = 8 -> <<Backslash, LowerB>>
       [] c = 12 -> <<Backslash, LowerF>>
       [] c = Newline -> <<Backslash, LowerN>>
       [] c = 13 -> <<Backslash, LowerR>>
       [] c = Tab -> <<Backslash, LowerT>>
       [] c < Space /\ c \notin ShortEscapes ->
            <<Backslash, LowerU, Zero, Zero, hex(c \div 16), hex(c % 16)>>
       [] OTHER -> <<c>>

\* Mutant: one byte for every escape.
EscapesAlike(s) ==
  FoldLeft(LAMBDA n, c : n + (IF c \in ShortEscapes \/ c < Space THEN 1 ELSE 0), 0, s)

\* The bytes that escaping adds.
EscapeCharacters(s) ==
  FoldLeft(LAMBDA n, c : n + (IF c \in ShortEscapes THEN 1 ELSE IF c < Space THEN 5 ELSE 0), 0, s)

PrintString(s, p) ==
  LET quoted == <<Quote>> \o FoldLeft(LAMBDA out, c : out \o Escape(c), <<>>, s) \o <<Quote>>
  IN IF s = NULL THEN Put(p, 3, <<Quote, Quote>>, 1)
     ELSE Put(p, Len(s) + EscapeCharacters(s) + 3, quoted, 1)

Tabs(n) == [i \in 1..n |-> Tab]

RECURSIVE PrintValue(_, _, _)

\* The elements one after another, each by Write and all but the last followed
\* by its separator.
PrintList(list, p, Write(_, _), Separate(_, _)) ==
  FoldLeft(LAMBDA q, i : Separate(Write(list[i], q), i < Len(list)),
           p, [i \in 1..Len(list) |-> i])

PrintArray(it, p, depth) ==
  LET Separate(q, more) == IF more THEN Put(q, 3, <<Comma, Space>>, 1) ELSE q
      Element(e, q) == PrintValue(e, q, depth + 1)
  IN Put(PrintList(it.child, Put(p, 1, <<LBracket>>, 0), Element, Separate), 2, <<RBracket>>, 1)

PrintObject(it, p, depth) ==
  LET inner == depth + 1
      Separate(q, more) ==
        IF more THEN Put(q, 3, <<Comma, Newline>>, 1) ELSE Put(q, 2, <<Newline>>, 1)
      Member(m, q) ==
        LET name == PrintString(m.string, Put(q, inner, Tabs(inner), 0))
        IN PrintValue(m, Put(name, 2, <<Colon, Tab>>, 0), inner)
  IN Put(PrintList(it.child, Put(p, 3, <<LBrace, Newline>>, 0), Member, Separate),
         inner + 1, Append(Tabs(depth), RBrace), 1)

PrintValue(it, p, depth) ==
  CASE it.type \in DOMAIN Literals ->
         Put(p, Len(Literals[it.type]) + 1, Literals[it.type], 1)
    [] it.type = "Number" -> PrintNumber(it, p)
    [] it.type = "String" -> PrintString(it.valuestring, p)
    [] it.type = "Array"  -> PrintArray(it, p, depth)
    [] it.type = "Object" -> PrintObject(it, p, depth)
    [] OTHER -> [p EXCEPT !.size = 0, !.heap = Free(@, 1)]

\* The text is cut to its length, in a block of its own.
CutToLength(p) ==
  IF p.size = 0 THEN [text |-> NULL, heap |-> p.heap]
  ELSE IF ~CanAllocate(p.heap) THEN [text |-> NULL, heap |-> Free(p.heap, 1)]
  ELSE [text |-> p.bytes, heap |-> [p.heap EXCEPT !.left = @ - 1]]

\* cJSON_Print: the text, or NULL.
Printed(it, h) ==
  IF CanAllocate(h)
  THEN CutToLength(PrintValue(it, [bytes |-> <<>>, size |-> PrintSize, heap |-> Allocate(h)], 0))
  ELSE [text |-> NULL, heap |-> h]
===============================================================================
