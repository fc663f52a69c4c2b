--------------------------- MODULE RpcSessionProofs ---------------------------
(***************************************************************************)
(* What one call means to client and server, for any payloads, any width   *)
(* of the length, any cuts, losses, deaths and failed allocations; and     *)
(* that nobody dies while everything is ordinary.                          *)
(*                                                                         *)
(* The bytes of one direction are one stream, a header and its payload.    *)
(* The invariant says which part of it is on the way: from the first byte  *)
(* that was not read to the last that was sent and not lost.  A header cut *)
(* short and followed by more of the frame cannot pass for a whole one,    *)
(* because its CRC names a payload, and a payload does not begin with the  *)
(* end of a header; nor can a part of a payload, which has no CRC.         *)
(***************************************************************************)
EXTENDS RpcSession, SequenceTheorems, TLAPS

\* The frame of a payload, header first.
Frame(t) == Header(t) \o Body(t)

\* What of a sequence comes after the first i elements, up to the j-th.
Piece(s, i, j) == SubSeq(s, i + 1, j)

\* One sequence after the other.
Joined(a, b) == a \o b

\* Two sequences that are a piece, one after the other.
Halves(a, b, s, i, j) == Joined(a, b) = Piece(s, i, j)

\* A part of a frame.
Part(t, i, j) == Piece(Frame(t), i, j)

\* All the bytes there are.
Byte == {<<"text", i, t>> : i \in Nat, t \in Text}
        \cup {<<"low", n>> : n \in Nat} \cup {<<"high", n>> : n \in Nat}
        \cup {<<"crc", Body(t)>> : t \in Text}


-------------------------------------------------------------------------------
(* Pieces of a sequence *)

\* Joining sequences makes a sequence, and the empty one adds nothing.
LEMMA JoinedFacts ==
  ASSUME NEW S, NEW a \in Seq(S), NEW b \in Seq(S)
  PROVE  /\ Joined(a, b) \in Seq(S)
         /\ Joined(a, <<>>) = a /\ Joined(<<>>, b) = b
<1>1. a \o b \in Seq(S)
  BY ConcatProperties
<1>2. a \o <<>> = a /\ <<>> \o b = b
  BY ConcatEmptySeq
<1> QED
  BY <1>1, <1>2 DEF Joined

\* The brackets make no difference.
LEMMA JoinedAssociative ==
  ASSUME NEW S, NEW a \in Seq(S), NEW b \in Seq(S), NEW c \in Seq(S)
  PROVE  Joined(Joined(a, b), c) = Joined(a, Joined(b, c))
BY ConcatAssociative DEF Joined

\* A piece, element by element.
LEMMA PieceShape ==
  ASSUME NEW S, NEW s \in Seq(S), NEW i \in Nat, NEW j \in Nat, i <= j, j <= Len(s)
  PROVE  /\ Piece(s, i, j) \in Seq(S) /\ Len(Piece(s, i, j)) = j - i
         /\ \A k \in 1 .. j - i : Piece(s, i, j)[k] = s[i + k]
<1>1. Len(s) \in Nat
  BY LenProperties
<1>2. \A k \in i + 1 .. j : s[k] \in S
  BY <1>1, ElementOfSeq
<1>3. i + 1 \in Int /\ j \in Int
  OBVIOUS
<1>4. /\ SubSeq(s, i + 1, j) \in Seq(S)
      /\ Len(SubSeq(s, i + 1, j)) = IF i + 1 <= j THEN j - (i + 1) + 1 ELSE 0
      /\ \A k \in 1 .. j - (i + 1) + 1 : SubSeq(s, i + 1, j)[k] = s[i + 1 + k - 1]
  BY <1>2, <1>3, SubSeqProperties
<1>5. j - (i + 1) + 1 = j - i /\ \A k \in Int : i + 1 + k - 1 = i + k
  OBVIOUS
<1> QED
  BY <1>4, <1>5 DEF Piece

\* Two pieces that meet are one.
LEMMA PieceJoin ==
  ASSUME NEW S, NEW s \in Seq(S), NEW i \in Nat, NEW k \in Nat, NEW j \in Nat,
         i <= k, k <= j, j <= Len(s)
  PROVE  Joined(Piece(s, i, k), Piece(s, k, j)) = Piece(s, i, j)
<1>1. Len(s) \in Nat
  BY LenProperties
<1>2. i + 1 \in 1 .. Len(s) + 1 /\ k \in (i + 1) - 1 .. Len(s) /\ j \in k .. Len(s)
  BY <1>1
<1> QED
  BY <1>2, ConcatAdjacentSubSeq DEF Piece, Joined

\* The whole, and nothing.
LEMMA PieceWhole ==
  ASSUME NEW S, NEW s \in Seq(S)
  PROVE  Piece(s, 0, Len(s)) = s /\ \A i \in Nat : Piece(s, i, i) = <<>>
<1>1. Piece(s, 0, Len(s)) = s
  BY SubSeqFull DEF Piece
<1>2. ASSUME NEW i \in Nat PROVE Piece(s, i, i) = <<>>
  BY SubSeqEmpty DEF Piece
<1> QED
  BY <1>1, <1>2

\* When a piece is cut in two, both halves are pieces.
LEMMA PieceSplit ==
  ASSUME NEW S, NEW s \in Seq(S), NEW i \in Nat, NEW j \in Nat, i <= j, j <= Len(s),
         NEW a \in Seq(S), NEW b \in Seq(S), Halves(a, b, s, i, j)
  PROVE  /\ i + Len(a) <= j
         /\ a = Piece(s, i, i + Len(a)) /\ b = Piece(s, i + Len(a), j)
<1>0. a \o b = Piece(s, i, j)
  BY DEF Halves, Joined
<1>1. Len(a) \in Nat /\ Len(b) \in Nat /\ Len(s) \in Nat
  BY LenProperties
<1>2. /\ Len(Piece(s, i, j)) = j - i
      /\ \A k \in 1 .. j - i : Piece(s, i, j)[k] = s[i + k]
  BY PieceShape
<1>3. /\ Len(a \o b) = Len(a) + Len(b)
      /\ \A k \in 1 .. Len(a) + Len(b) :
            (a \o b)[k] = IF k <= Len(a) THEN a[k] ELSE b[k - Len(a)]
  BY ConcatProperties
<1>4. Len(a) + Len(b) = j - i
  BY <1>0, <1>2, <1>3
<1> DEFINE m == i + Len(a)
<1>5. m \in Nat /\ i <= m /\ m <= j /\ m <= Len(s) /\ m - i = Len(a) /\ j - m = Len(b)
  BY <1>1, <1>4
<1> HIDE DEF m
<1>6. a = Piece(s, i, m)
  <2>1. /\ Piece(s, i, m) \in Seq(S) /\ Len(Piece(s, i, m)) = Len(a)
        /\ \A k \in 1 .. Len(a) : Piece(s, i, m)[k] = s[i + k]
    <3>1. /\ Piece(s, i, m) \in Seq(S) /\ Len(Piece(s, i, m)) = m - i
          /\ \A k \in 1 .. m - i : Piece(s, i, m)[k] = s[i + k]
      BY <1>5, PieceShape
    <3> QED
      BY <1>5, <3>1
  <2>2. ASSUME NEW k \in 1 .. Len(a) PROVE a[k] = Piece(s, i, m)[k]
    <3>1. k \in 1 .. Len(a) + Len(b) /\ k \in 1 .. j - i /\ k <= Len(a)
      BY <1>1, <1>4
    <3> QED
      BY <1>0, <1>2, <1>3, <2>1, <3>1
  <2> QED
    BY <2>1, <2>2, SeqEqual
<1>7. b = Piece(s, m, j)
  <2>1. /\ Piece(s, m, j) \in Seq(S) /\ Len(Piece(s, m, j)) = Len(b)
        /\ \A k \in 1 .. Len(b) : Piece(s, m, j)[k] = s[m + k]
    <3>1. /\ Piece(s, m, j) \in Seq(S) /\ Len(Piece(s, m, j)) = j - m
          /\ \A k \in 1 .. j - m : Piece(s, m, j)[k] = s[m + k]
      BY <1>5, PieceShape
    <3> QED
      BY <1>5, <3>1
  <2>2. ASSUME NEW k \in 1 .. Len(b) PROVE b[k] = Piece(s, m, j)[k]
    <3> DEFINE x == Len(a) + k
    <3>1. /\ x \in 1 .. Len(a) + Len(b) /\ x \in 1 .. j - i
          /\ ~(x <= Len(a)) /\ x - Len(a) = k /\ i + x = m + k
      BY <1>1, <1>4 DEF m
    <3> HIDE DEF x
    <3> QED
      BY <1>0, <1>2, <1>3, <2>1, <3>1
  <2> QED
    BY <2>1, <2>2, SeqEqual
<1> QED
  BY <1>5, <1>6, <1>7 DEF m

\* A piece of a piece.
LEMMA PieceOfPiece ==
  ASSUME NEW S, NEW s \in Seq(S), NEW i \in Nat, NEW j \in Nat, i <= j, j <= Len(s),
         NEW x \in Nat, NEW y \in Nat, x <= y, y <= j - i
  PROVE  Piece(Piece(s, i, j), x, y) = Piece(s, i + x, i + y)
<1> DEFINE p == Piece(s, i, j)
           q == Piece(p, x, y)
           r == Piece(s, i + x, i + y)
<1>1. Len(s) \in Nat
  BY LenProperties
<1>2. p \in Seq(S) /\ Len(p) = j - i /\ \A k \in 1 .. j - i : p[k] = s[i + k]
  BY PieceShape
<1> HIDE DEF p
<1>0. p \in Seq(S) /\ y <= Len(p)
  BY <1>2
<1>3. q \in Seq(S) /\ Len(q) = y - x /\ \A k \in 1 .. y - x : q[k] = p[x + k]
  BY <1>0, PieceShape
<1>4. /\ i + x \in Nat /\ i + y \in Nat /\ i + x <= i + y /\ i + y <= Len(s)
      /\ (i + y) - (i + x) = y - x
  BY <1>1
<1>5. r \in Seq(S) /\ Len(r) = y - x /\ \A k \in 1 .. y - x : r[k] = s[i + x + k]
  <2> DEFINE a == i + x
             b == i + y
  <2> HIDE DEF a, b
  <2>1. a \in Nat /\ b \in Nat /\ a <= b /\ b <= Len(s) /\ b - a = y - x
    BY <1>4 DEF a, b
  <2>2. /\ Piece(s, a, b) \in Seq(S) /\ Len(Piece(s, a, b)) = b - a
        /\ \A k \in 1 .. b - a : Piece(s, a, b)[k] = s[a + k]
    BY <2>1, PieceShape
  <2> QED
    BY <2>1, <2>2 DEF a, b
<1>6. ASSUME NEW k \in 1 .. y - x PROVE q[k] = r[k]
  <2>1. x + k \in 1 .. j - i /\ i + (x + k) = i + x + k
    OBVIOUS
  <2> QED
    BY <1>2, <1>3, <1>5, <2>1
<1> QED
  <2> HIDE DEF q, r
  <2>1. q = r
    BY <1>3, <1>5, <1>6, SeqEqual
  <2> QED
    BY <2>1 DEF p, q, r

\* recv takes a piece from the front of what is on its way, and leaves the rest.
LEMMA TakingPiece ==
  ASSUME NEW S, NEW s \in Seq(S), NEW i \in Nat, NEW j \in Nat, i <= j, j <= Len(s),
         NEW buf \in Seq(S), NEW f \in Seq(S), Halves(buf, f, s, i, j), NEW n \in Nat
  PROVE  \E m \in Nat :
           /\ m = i + Least(n, Len(buf)) /\ i <= m /\ m <= j
           /\ Taken(buf, n) = Piece(s, i, m) /\ Len(Taken(buf, n)) = m - i
           /\ Left(buf, n) \in Seq(S) /\ Halves(Left(buf, n), f, s, m, j)
<1> DEFINE l == Least(n, Len(buf))
           m == i + l
           k == i + Len(buf)
<1>1. Len(buf) \in Nat /\ Len(s) \in Nat
  BY LenProperties
<1>2. k \in Nat /\ k <= j /\ buf = Piece(s, i, k) /\ f = Piece(s, k, j)
  <2>1. k \in Nat
    BY <1>1
  <2>2. k <= j /\ buf = Piece(s, i, k) /\ f = Piece(s, k, j)
    BY PieceSplit
  <2> QED
    BY <2>1, <2>2
<1>3. l \in Nat /\ l <= Len(buf) /\ Len(buf) <= Len(buf)
  BY <1>1 DEF Least
<1>4. /\ m \in Nat /\ i <= m /\ m <= k /\ m <= j /\ k - i = Len(buf) /\ m - i = l
      /\ i <= k /\ k <= Len(s) /\ m <= Len(s) /\ i + 0 = i
  BY <1>1, <1>2, <1>3
<1>5. Taken(buf, n) = Piece(buf, 0, l) /\ Left(buf, n) = Piece(buf, l, Len(buf))
  BY DEF Taken, Left, Piece
<1> HIDE DEF l, m, k
<1>6. Piece(Piece(s, i, k), 0, l) = Piece(s, i + 0, i + l)
  BY <1>1, <1>2, <1>3, <1>4, PieceOfPiece
<1>7. Piece(Piece(s, i, k), l, Len(buf)) = Piece(s, i + l, i + Len(buf))
  BY <1>1, <1>2, <1>3, <1>4, PieceOfPiece
<1>8. Taken(buf, n) = Piece(s, i, m) /\ Left(buf, n) = Piece(s, m, k)
  BY <1>2, <1>4, <1>5, <1>6, <1>7 DEF m, k
<1>9. Len(Piece(s, i, m)) = m - i /\ Piece(s, m, k) \in Seq(S)
  BY <1>2, <1>4, PieceShape
<1>10. Joined(Piece(s, m, k), Piece(s, k, j)) = Piece(s, m, j)
  BY <1>2, <1>4, PieceJoin
<1>11. Halves(Left(buf, n), f, s, m, j)
  BY <1>2, <1>8, <1>10 DEF Halves, Joined
<1> QED
  BY <1>4, <1>8, <1>9, <1>11 DEF m, l

-------------------------------------------------------------------------------
(* Frames *)

\* A payload's bytes are a sequence as long as the payload.
LEMMA BodyShape ==
  ASSUME NEW t \in Text
  PROVE  /\ Body(t) \in Seq(Byte) /\ Len(Body(t)) = Length[t]
         /\ Length[t] \in Nat \ {0}
         /\ Body(t)[1] = <<"text", 1, t>>
<1>1. Length[t] \in Nat \ {0}
  BY SessionAssumption
<1>2. \A i \in 1 .. Length[t] : <<"text", i, t>> \in Byte
  BY <1>1 DEF Byte
<1>3. Body(t) \in [1 .. Length[t] -> Byte]
  BY <1>2 DEF Body
<1>4. Body(t) \in Seq(Byte)
  BY <1>1, <1>3, SeqDef
<1>5. Len(Body(t)) = Length[t]
  BY <1>1, <1>4 DEF Body
<1> QED
  BY <1>1, <1>4, <1>5 DEF Body

\* Different payloads are different byte sequences.
LEMMA BodyTells ==
  ASSUME NEW t \in Text, NEW u \in Text, Body(t) = Body(u)
  PROVE  t = u
<1>1. Body(t)[1] = <<"text", 1, t>> /\ Body(u)[1] = <<"text", 1, u>>
  BY BodyShape
<1> QED
  BY <1>1

\* A header is three bytes, and the two after the CRC hold digits.
LEMMA HeaderShape ==
  ASSUME NEW t \in Text
  PROVE  /\ Header(t) \in Seq(Byte) /\ Len(Header(t)) = 3
         /\ Header(t)[1] = <<"crc", Body(t)>>
         /\ \A k \in {2, 3} : /\ Header(t)[k][2] \in Nat
                              /\ Header(t)[k][1] \notin {"text", "crc"}
                              /\ \A u \in Text : Header(t)[k] # <<"text", 1, u>>
<1>1. Length[t] \in Nat /\ Base \in Nat \ {0, 1}
  BY SessionAssumption
<1>2. Length[t] % Base \in Nat /\ (Length[t] \div Base) % Base \in Nat
  BY <1>1
<1>3. /\ <<"crc", Body(t)>> \in Byte /\ <<"low", Length[t] % Base>> \in Byte
      /\ <<"high", (Length[t] \div Base) % Base>> \in Byte
  BY <1>2 DEF Byte
<1>4. Header(t) \in Seq(Byte) /\ Len(Header(t)) = 3
  BY <1>3 DEF Header
<1> QED
  BY <1>2, <1>4 DEF Header

\* A frame is its header and its payload.
LEMMA FrameShape ==
  ASSUME NEW t \in Text
  PROVE  /\ Frame(t) \in Seq(Byte) /\ Len(Frame(t)) = 3 + Length[t]
         /\ Len(Frame(t)) \in Nat
         /\ \A k \in 1 .. 3 : Frame(t)[k] = Header(t)[k]
         /\ \A k \in 4 .. 3 + Length[t] : Frame(t)[k][1] = "text"
         /\ Frame(t)[4] = <<"text", 1, t>>
<1>1. /\ Header(t) \in Seq(Byte) /\ Len(Header(t)) = 3
      /\ Body(t) \in Seq(Byte) /\ Len(Body(t)) = Length[t] /\ Length[t] \in Nat \ {0}
      /\ Body(t)[1] = <<"text", 1, t>>
  BY HeaderShape, BodyShape
<1>2. /\ Frame(t) \in Seq(Byte) /\ Len(Frame(t)) = 3 + Length[t]
      /\ \A k \in 1 .. 3 + Length[t] :
           Frame(t)[k] = IF k <= 3 THEN Header(t)[k] ELSE Body(t)[k - 3]
  <2>1. /\ Header(t) \o Body(t) \in Seq(Byte)
        /\ Len(Header(t) \o Body(t)) = Len(Header(t)) + Len(Body(t))
        /\ \A k \in 1 .. Len(Header(t)) + Len(Body(t)) : (Header(t) \o Body(t))[k] =
               IF k <= Len(Header(t)) THEN Header(t)[k] ELSE Body(t)[k - Len(Header(t))]
    BY <1>1, ConcatProperties
  <2> QED
    BY <1>1, <2>1 DEF Frame
<1>3. Frame(t)[4] = Body(t)[1]
  <2>1. 4 \in 1 .. 3 + Length[t] /\ ~(4 <= 3) /\ 4 - 3 = 1
    BY <1>1
  <2> QED
    BY <1>2, <2>1
<1>4. \A k \in 1 .. 3 : k \in 1 .. 3 + Length[t] /\ k <= 3
  BY <1>1
<1>5. ASSUME NEW k \in 4 .. 3 + Length[t] PROVE Frame(t)[k][1] = "text"
  <2>1. k \in 1 .. 3 + Length[t] /\ ~(k <= 3) /\ k - 3 \in 1 .. Length[t]
    BY <1>1
  <2>2. Body(t)[k - 3] = <<"text", k - 3, t>>
    BY <2>1 DEF Body
  <2> QED
    BY <1>2, <2>1, <2>2
<1> QED
  BY <1>1, <1>2, <1>3, <1>4, <1>5

\* Header and payload are parts of their frame.
LEMMA PartNames ==
  ASSUME NEW t \in Text
  PROVE  /\ Part(t, 0, 3) = Header(t) /\ Part(t, 3, Len(Frame(t))) = Body(t)
         /\ Part(t, 0, Len(Frame(t))) = Header(t) \o Body(t)
         /\ \A i \in Nat : Part(t, i, i) = <<>>
<1>1. /\ Header(t) \in Seq(Byte) /\ Len(Header(t)) = 3
      /\ Body(t) \in Seq(Byte) /\ Frame(t) \in Seq(Byte) /\ Len(Frame(t)) \in Nat
      /\ Len(Frame(t)) = 3 + Length[t]
  BY HeaderShape, BodyShape, FrameShape
<1>2. Header(t) \o Body(t) = Piece(Frame(t), 0, Len(Frame(t)))
  BY <1>1, PieceWhole DEF Frame
<1>3. Halves(Header(t), Body(t), Frame(t), 0, Len(Frame(t)))
  BY <1>2 DEF Halves, Joined
<1>4. Header(t) = Piece(Frame(t), 0, 3) /\ Body(t) = Piece(Frame(t), 3, Len(Frame(t)))
  <2> DEFINE h == Header(t)
             b == Body(t)
             f == Frame(t)
             z == 0
  <2>1. /\ h \in Seq(Byte) /\ b \in Seq(Byte) /\ f \in Seq(Byte)
        /\ z \in Nat /\ Len(f) \in Nat /\ z <= Len(f) /\ Len(f) <= Len(f)
    BY <1>1
  <2>2. Halves(h, b, f, z, Len(f))
    BY <1>3
  <2> HIDE DEF h, b, f, z
  <2>3. h = Piece(f, z, z + Len(h)) /\ b = Piece(f, z + Len(h), Len(f))
    BY <2>1, <2>2, PieceSplit
  <2> QED
    BY <1>1, <2>3 DEF h, b, f, z
<1> QED
  BY <1>1, <1>2, <1>4, PieceWhole DEF Part

-------------------------------------------------------------------------------
(* The network *)

\* The sends on their way, one after the other; never more than two.
Flow(net) ==
  CASE Len(net) = 0 -> <<>> [] Len(net) = 1 -> net[1] [] OTHER -> Joined(net[1], net[2])

\* The sends are sequences of bytes.
LEMMA NetShape ==
  ASSUME NEW S, NEW net \in Seq(Seq(S))
  PROVE  Len(net) \in Nat /\ \A k \in 1 .. Len(net) : net[k] \in Seq(S)
<1> DEFINE Q == Seq(S)
<1>1. net \in Seq(Q)
  OBVIOUS
<1> HIDE DEF Q
<1>2. Len(net) \in Nat
  BY <1>1, LenProperties
<1>3. \A k \in 1 .. Len(net) : net[k] \in Q
  BY <1>1, ElementOfSeq
<1> QED
  BY <1>2, <1>3 DEF Q

\* Up to two sends flow as one sequence.
LEMMA FlowShape ==
  ASSUME NEW S, NEW net \in Seq(Seq(S)), Len(net) <= 2
  PROVE  Flow(net) \in Seq(S)
<1>0. Len(net) \in Nat
  BY NetShape
<1>1. \A k \in 1 .. Len(net) : net[k] \in Seq(S)
  BY NetShape
<1>2. CASE Len(net) = 0
  BY <1>2 DEF Flow
<1>3. CASE Len(net) = 1
  BY <1>1, <1>3 DEF Flow
<1>4. CASE Len(net) = 2
  <2>1. net[1] \in Seq(S) /\ net[2] \in Seq(S)
    BY <1>1, <1>4
  <2>2. Joined(net[1], net[2]) \in Seq(S)
    BY <2>1, JoinedFacts
  <2> QED
    BY <1>4, <2>2 DEF Flow
<1>5. Len(net) = 0 \/ Len(net) = 1 \/ Len(net) = 2
  <2> DEFINE n == Len(net)
  <2>1. n \in Nat /\ n <= 2
    BY <1>0
  <2> HIDE DEF n
  <2>2. n = 0 \/ n = 1 \/ n = 2
    BY <2>1
  <2> QED
    BY <2>2 DEF n
<1> QED
  BY <1>2, <1>3, <1>4, <1>5

\* A send goes to the end of the flow.
LEMMA FlowSend ==
  ASSUME NEW S, NEW net \in Seq(Seq(S)), NEW bytes \in Seq(S), Len(net) <= 1
  PROVE  /\ Append(net, bytes) \in Seq(Seq(S)) /\ Len(Append(net, bytes)) = Len(net) + 1
         /\ Flow(Append(net, bytes)) = Joined(Flow(net), bytes)
<1> DEFINE Q == Seq(S)
           more == Append(net, bytes)
<1>1. Len(net) \in Nat
  BY NetShape
<1>2. net \in Seq(Q) /\ bytes \in Q
  OBVIOUS
<1>3. /\ more \in Seq(Q) /\ Len(more) = Len(net) + 1
      /\ \A k \in 1 .. Len(net) : more[k] = net[k]
      /\ more[Len(net) + 1] = bytes
  <2> HIDE DEF Q
  <2> QED
    BY <1>2, AppendProperties
<1> HIDE DEF more
<1>4. ASSUME Len(net) = 0 PROVE Flow(more) = Joined(Flow(net), bytes)
  <2>1. Len(more) = 1 /\ more[1] = bytes
    BY <1>3, <1>4
  <2>2. Flow(net) = <<>> /\ Flow(more) = bytes
    BY <1>4, <2>1 DEF Flow
  <2> QED
    BY <2>2, JoinedFacts
<1>5. ASSUME Len(net) = 1 PROVE Flow(more) = Joined(Flow(net), bytes)
  <2>1. Len(more) = 2 /\ more[1] = net[1] /\ more[2] = bytes
    <3>1. 1 \in 1 .. Len(net) /\ Len(net) + 1 = 2
      BY <1>5
    <3> QED
      BY <1>3, <3>1
  <2>2. Flow(net) = net[1] /\ Flow(more) = Joined(net[1], bytes)
    BY <1>5, <2>1 DEF Flow
  <2> QED
    BY <2>2
<1>6. Len(net) = 0 \/ Len(net) = 1
  <2> DEFINE n == Len(net)
  <2>1. n \in Nat /\ n <= 1
    BY <1>1
  <2> HIDE DEF n
  <2>2. n = 0 \/ n = 1
    BY <2>1
  <2> QED
    BY <2>2 DEF n
<1>7. Flow(more) = Joined(Flow(net), bytes)
  BY <1>4, <1>5, <1>6
<1>8. more \in Seq(Q) /\ Len(more) = Len(net) + 1
  BY <1>3
<1> QED
  BY <1>7, <1>8 DEF more

\* What is left on its way when the first k bytes of the oldest send arrived.
Rest(net, k) ==
  IF k = Len(Head(net)) THEN Tail(net)
  ELSE <<SubSeq(Head(net), k + 1, Len(Head(net)))>> \o Tail(net)

\* It is what came after the oldest send, or that and the rest of its bytes.
LEMMA RestShape ==
  ASSUME NEW S, NEW net \in Seq(Seq(S)), net # <<>>,
         NEW k \in Nat, k <= Len(Head(net))
  PROVE  /\ Len(net) \in Nat \ {0} /\ Head(net) = net[1] /\ Head(net) \in Seq(S)
         /\ Rest(net, k) \in Seq(Seq(S))
         /\ k = Len(Head(net)) =>
              /\ Len(Rest(net, k)) = Len(net) - 1
              /\ \A x \in 1 .. Len(net) - 1 : Rest(net, k)[x] = net[x + 1]
         /\ k # Len(Head(net)) =>
              /\ Len(Rest(net, k)) = Len(net)
              /\ Rest(net, k)[1] = Piece(Head(net), k, Len(Head(net)))
              /\ \A x \in 2 .. Len(net) : Rest(net, k)[x] = net[x]
<1> DEFINE Q == Seq(S)
           bytes == Head(net)
           second == Piece(bytes, k, Len(bytes))
           tail == Tail(net)
           one == <<second>>
<1>1. net \in Seq(Q) /\ net # <<>> /\ Len(net) \in Nat
  BY NetShape
<1>2. Len(net) # 0
  <2>1. Len(net) \in Nat \ {0}
    <3> HIDE DEF Q
    <3> QED
      BY <1>1, EmptySeq
  <2> QED
    BY <2>1
<1>3. bytes \in Q /\ bytes = net[1]
  BY <1>1, <1>2, HeadTailProperties
<1>4. Len(bytes) \in Nat
  BY <1>3, LenProperties
<1>5. second \in Q
  <2>1. bytes \in Seq(S) /\ k <= Len(bytes) /\ Len(bytes) <= Len(bytes)
    BY <1>3, <1>4
  <2> HIDE DEF bytes
  <2> QED
    BY <1>4, <2>1, PieceShape
<1>6. /\ tail \in Seq(Q) /\ Len(tail) = Len(net) - 1
      /\ \A x \in 1 .. Len(tail) : tail[x] = net[x + 1]
  <2> HIDE DEF Q
  <2> QED
    BY <1>1, HeadTailProperties
<1>7. one \in Seq(Q) /\ Len(one) = 1 /\ one[1] = second
  <2> HIDE DEF Q, second
  <2> QED
    BY <1>5
<1>8. /\ one \o tail \in Seq(Q) /\ Len(one \o tail) = Len(one) + Len(tail)
      /\ \A x \in 1 .. Len(one) + Len(tail) : (one \o tail)[x] =
            IF x <= Len(one) THEN one[x] ELSE tail[x - Len(one)]
  <2> HIDE DEF Q, one, tail
  <2>1. one \in Seq(Q) /\ tail \in Seq(Q)
    BY <1>6, <1>7
  <2> QED
    BY <2>1, ConcatProperties
<1>9. Rest(net, k) = IF k = Len(bytes) THEN tail ELSE one \o tail
  BY DEF Rest, Piece
<1> DEFINE both == one \o tail
<1>10. /\ both \in Seq(Q) /\ Len(both) = Len(net) /\ both[1] = second
       /\ \A x \in 2 .. Len(net) : both[x] = net[x]
  <2>1. both \in Seq(Q) /\ Len(both) = Len(net)
    <3> HIDE DEF Q, one, tail
    <3>1. Len(one) = 1 /\ Len(tail) = Len(net) - 1 /\ Len(net) \in Nat
      BY <1>1, <1>6, <1>7
    <3>2. Len(one) + Len(tail) = Len(net)
      BY <3>1
    <3> QED
      BY <1>8, <3>2
  <2>2. both[1] = second
    <3> HIDE DEF Q, one, tail, second
    <3> QED
      BY <1>1, <1>2, <1>6, <1>7, <1>8
  <2>3. ASSUME NEW x \in 2 .. Len(net) PROVE both[x] = net[x]
    <3>1. /\ x \in 1 .. Len(one) + Len(tail) /\ ~(x <= Len(one))
          /\ x - Len(one) = x - 1 /\ x - 1 \in 1 .. Len(tail) /\ (x - 1) + 1 = x
      <4> HIDE DEF one, tail, Q, second
      <4>1. Len(one) = 1 /\ Len(tail) = Len(net) - 1 /\ Len(net) \in Nat
        BY <1>1, <1>6, <1>7
      <4> QED
        BY <4>1
    <3> HIDE DEF one, tail
    <3> QED
      BY <1>6, <1>8, <3>1
  <2> QED
    BY <2>1, <2>2, <2>3
<1> HIDE DEF both, tail, one, second, bytes
<1> QED
  BY <1>1, <1>2, <1>3, <1>6, <1>9, <1>10 DEF bytes, second, both

\* Bytes that arrive leave the stream as it was.
LEMMA FlowArrive ==
  ASSUME NEW S, NEW net \in Seq(Seq(S)), NEW buf \in Seq(S), net # <<>>, Len(net) <= 2,
         NEW k \in Nat, k <= Len(Head(net))
  PROVE  LET more == Joined(buf, SubSeq(Head(net), 1, k)) IN
           /\ Rest(net, k) \in Seq(Seq(S)) /\ Len(Rest(net, k)) <= Len(net)
           /\ more \in Seq(S)
           /\ Joined(more, Flow(Rest(net, k))) = Joined(buf, Flow(net))
<1> DEFINE bytes == Head(net)
           first == Piece(bytes, 0, k)
           second == Piece(bytes, k, Len(bytes))
           rest == Rest(net, k)
           n == Len(net)
<1>1. /\ n \in Nat \ {0} /\ bytes = net[1] /\ bytes \in Seq(S)
      /\ rest \in Seq(Seq(S))
      /\ k = Len(bytes) => /\ Len(rest) = n - 1
                           /\ \A x \in 1 .. n - 1 : rest[x] = net[x + 1]
      /\ k # Len(bytes) => /\ Len(rest) = n /\ rest[1] = second
                           /\ \A x \in 2 .. n : rest[x] = net[x]
  BY RestShape
<1>2. n <= 2
  OBVIOUS
<1>3. SubSeq(Head(net), 1, k) = first /\ k <= Len(bytes)
  BY DEF Piece
<1>4. /\ n = 0 => Flow(net) = <<>>
      /\ n = 1 => Flow(net) = net[1]
      /\ n = 2 => Flow(net) = Joined(net[1], net[2])
      /\ Len(rest) = 0 => Flow(rest) = <<>>
      /\ Len(rest) = 1 => Flow(rest) = rest[1]
      /\ Len(rest) = 2 => Flow(rest) = Joined(rest[1], rest[2])
  BY DEF Flow
<1>5. \A x \in 1 .. n : net[x] \in Seq(S)
  BY NetShape
<1> HIDE DEF bytes, rest, n
<1>6. n = 1 \/ n = 2
  BY <1>1, <1>2
<1>7. Len(bytes) \in Nat
  BY <1>1, LenProperties
<1>8. first \in Seq(S) /\ second \in Seq(S)
  <2>1. 0 \in Nat /\ Len(bytes) <= Len(bytes) /\ 0 <= k
    BY <1>7
  <2> QED
    BY <1>1, <1>3, <1>7, <2>1, PieceShape
<1>9. Joined(first, second) = bytes
  <2>1. Joined(first, second) = Piece(bytes, 0, Len(bytes))
    <3>1. 0 \in Nat /\ Len(bytes) <= Len(bytes) /\ 0 <= k
      BY <1>7
    <3>2. bytes \in Seq(S) /\ k <= Len(bytes)
      BY <1>1, <1>3
    <3> QED
      BY <1>7, <3>1, <3>2, PieceJoin
  <2> QED
    BY <1>1, <2>1, PieceWhole
<1>10. k = Len(bytes) => first = bytes
  BY <1>1, PieceWhole
<1> DEFINE more == Joined(buf, first)
<1> HIDE DEF first, second
<1>11. more \in Seq(S)
  BY <1>8, JoinedFacts
<1>12. Len(rest) <= n
  BY <1>1, <1>6
<1>13. ASSUME n = 1 PROVE Joined(more, Flow(rest)) = Joined(buf, Flow(net))
  <2>1. CASE k = Len(bytes)
    <3>1. Len(rest) = 0
      BY <1>1, <1>13, <2>1
    <3>2. Flow(rest) = <<>> /\ Flow(net) = bytes /\ more = Joined(buf, bytes)
      BY <1>1, <1>4, <1>10, <1>13, <2>1, <3>1
    <3> QED
      BY <1>11, <3>2, JoinedFacts
  <2>2. CASE k # Len(bytes)
    <3>1. Len(rest) = 1 /\ rest[1] = second
      BY <1>1, <1>13, <2>2
    <3>2. Flow(rest) = second /\ Flow(net) = bytes
      BY <1>1, <1>4, <1>13, <3>1
    <3>3. Joined(more, second) = Joined(buf, Joined(first, second))
      BY <1>8, JoinedAssociative
    <3> QED
      BY <1>9, <3>2, <3>3
  <2> QED
    BY <2>1, <2>2
<1>14. ASSUME n = 2 PROVE Joined(more, Flow(rest)) = Joined(buf, Flow(net))
  <2>0. net[2] \in Seq(S) /\ bytes \in Seq(S)
    BY <1>1, <1>5, <1>14
  <2>1. Flow(net) = Joined(bytes, net[2])
    BY <1>1, <1>4, <1>14
  <2>2. CASE k = Len(bytes)
    <3>1. Len(rest) = 1 /\ rest[1] = net[2]
      BY <1>1, <1>14, <2>2
    <3>2. Flow(rest) = net[2] /\ more = Joined(buf, bytes)
      BY <1>4, <1>10, <2>2, <3>1
    <3>3. Joined(Joined(buf, bytes), net[2]) = Joined(buf, Joined(bytes, net[2]))
      BY <2>0, JoinedAssociative
    <3> QED
      BY <2>1, <3>2, <3>3
  <2>3. CASE k # Len(bytes)
    <3>1. Len(rest) = 2 /\ rest[1] = second /\ rest[2] = net[2]
      BY <1>1, <1>14, <2>3
    <3>2. Flow(rest) = Joined(second, net[2])
      BY <1>4, <3>1
    <3>3. Joined(more, Joined(second, net[2])) = Joined(Joined(more, second), net[2])
      BY <1>8, <1>11, <2>0, JoinedAssociative
    <3>4. Joined(more, second) = Joined(buf, bytes)
      BY <1>8, <1>9, JoinedAssociative
    <3>5. Joined(Joined(buf, bytes), net[2]) = Joined(buf, Joined(bytes, net[2]))
      BY <2>0, JoinedAssociative
    <3> QED
      BY <2>1, <3>2, <3>3, <3>4, <3>5
  <2> QED
    BY <2>2, <2>3
<1>15. Joined(more, Flow(rest)) = Joined(buf, Flow(net))
  BY <1>6, <1>13, <1>14
<1> QED
  BY <1>1, <1>3, <1>11, <1>12, <1>15 DEF rest, n

-------------------------------------------------------------------------------
(* Reading a frame *)

\* What was sent is a piece of the frame that the reader has not taken yet: after
\* a send, what is on its way is a longer one.
LEMMA SendingPart ==
  ASSUME NEW S, NEW s \in Seq(S), NEW i \in Nat, NEW k \in Nat, NEW j \in Nat,
         i <= k, k <= j, j <= Len(s), NEW buf \in Seq(S), NEW f \in Seq(S),
         Halves(buf, f, s, i, k)
  PROVE  Halves(buf, Joined(f, Piece(s, k, j)), s, i, j)
<1> DEFINE new == Piece(s, k, j)
<1>1. Joined(Piece(s, i, k), new) = Piece(s, i, j)
  BY PieceJoin
<1>2. Len(s) \in Nat
  BY LenProperties
<1>3. new \in Seq(S)
  BY <1>2, PieceShape
<1> HIDE DEF new
<1>4. Joined(Joined(buf, f), new) = Joined(buf, Joined(f, new))
  BY <1>3, JoinedAssociative
<1> QED
  BY <1>1, <1>4 DEF Halves, new

\* What is on its way and gets lost was the end of the piece.
LEMMA LosingPart ==
  ASSUME NEW S, NEW s \in Seq(S), NEW i \in Nat, NEW j \in Nat, i <= j, j <= Len(s),
         NEW buf \in Seq(S), NEW f \in Seq(S), Halves(buf, f, s, i, j)
  PROVE  \E m \in Nat : i <= m /\ m <= Len(s) /\ Halves(buf, Flow(<<>>), s, i, m)
<1>1. Len(buf) \in Nat /\ Len(s) \in Nat
  BY LenProperties
<1>2. i + Len(buf) <= j /\ buf = Piece(s, i, i + Len(buf))
  BY PieceSplit
<1>3. Flow(<<>>) = <<>>
  BY DEF Flow
<1>4. Joined(buf, <<>>) = buf
  BY JoinedFacts
<1>5. i + Len(buf) \in Nat /\ i <= i + Len(buf) /\ i + Len(buf) <= Len(s)
  <2> DEFINE l == Len(buf)
             n == Len(s)
  <2>1. l \in Nat /\ n \in Nat /\ i + l <= j /\ j <= n
    BY <1>1, <1>2
  <2> HIDE DEF l, n
  <2>2. i + l \in Nat /\ i <= i + l /\ i + l <= n
    BY <2>1
  <2> QED
    BY <2>2 DEF l, n
<1> QED
  BY <1>2, <1>3, <1>4, <1>5 DEF Halves

\* A recv of at most n bytes takes a part of the frame from where the last ended.
LEMMA ReadingPart ==
  ASSUME NEW t \in Text, NEW i \in Nat, NEW j \in Nat, i <= j, j <= Len(Frame(t)),
         NEW buf \in Seq(Byte), NEW f \in Seq(Byte), Halves(buf, f, Frame(t), i, j),
         NEW n \in Nat
  PROVE  \E m \in Nat :
           /\ m = i + Least(n, Len(buf)) /\ i <= m /\ m <= j /\ m <= Len(Frame(t))
           /\ Taken(buf, n) = Part(t, i, m) /\ Len(Taken(buf, n)) = m - i
           /\ Halves(Left(buf, n), f, Frame(t), m, j)
<1> DEFINE s == Frame(t)
<1>1. s \in Seq(Byte)
  BY FrameShape
<1>2. Len(s) \in Nat
  BY FrameShape
<1>3. Halves(buf, f, s, i, j) /\ j <= Len(s)
  OBVIOUS
<1> HIDE DEF s
<1>4. PICK m \in Nat : /\ m = i + Least(n, Len(buf)) /\ i <= m /\ m <= j
                       /\ Taken(buf, n) = Piece(s, i, m) /\ Len(Taken(buf, n)) = m - i
                       /\ Halves(Left(buf, n), f, s, m, j)
  BY <1>1, <1>3, TakingPiece
<1>5. m <= Len(s)
  <2> DEFINE l == Len(s)
  <2>1. l \in Nat /\ j <= l
    BY <1>2, <1>3
  <2> HIDE DEF l
  <2>2. m <= l
    BY <1>4, <2>1
  <2> QED
    BY <2>2 DEF l
<1> QED
  BY <1>4, <1>5 DEF s, Part

\* If anything arrived, the recv of the header takes at least the CRC.
LEMMA ReadingHeader ==
  ASSUME NEW t \in Text, NEW j \in Nat, j <= Len(Frame(t)), NEW z \in Nat, z <= j,
         NEW buf \in Seq(Byte), NEW f \in Seq(Byte), Halves(buf, f, Frame(t), z, j),
         buf # <<>>
  PROVE  \E m \in z + 1 .. z + 3 :
           /\ m <= j /\ Taken(buf, 3) = Part(t, z, m)
           /\ Halves(Left(buf, 3), f, Frame(t), m, j)
<1>1. Halves(buf, f, Frame(t), z, j) /\ z \in Nat /\ z <= j
  OBVIOUS
<1>2. PICK m \in Nat : /\ m = z + Least(3, Len(buf)) /\ z <= m /\ m <= j
                       /\ Taken(buf, 3) = Part(t, z, m)
                       /\ Halves(Left(buf, 3), f, Frame(t), m, j)
  BY <1>1, ReadingPart
<1>3. m \in z + 1 .. z + 3
  <2> DEFINE l == Len(buf)
  <2>1. l \in Nat \ {0} /\ m = z + Least(3, l)
    BY <1>2, EmptySeq
  <2> HIDE DEF l
  <2> QED
    BY <2>1 DEF Least
<1> QED
  BY <1>2, <1>3

\* Whatever is read and left are sequences, and no more is read than asked for.
LEMMA ReadingShape ==
  ASSUME NEW S, NEW buf \in Seq(S), NEW n \in Nat
  PROVE  /\ Taken(buf, n) \in Seq(S) /\ Left(buf, n) \in Seq(S)
         /\ Len(Taken(buf, n)) <= n
         /\ n # 0 /\ buf # <<>> => Taken(buf, n) # <<>>
<1> DEFINE l == Len(buf)
           m == Least(n, l)
<1>1. l \in Nat
  BY LenProperties
<1>2. m \in Nat /\ m <= n /\ m <= l /\ (n # 0 /\ l # 0 => m # 0)
  <2> HIDE DEF l
  <2> QED
    BY <1>1 DEF Least
<1>3. Taken(buf, n) = Piece(buf, 0, m) /\ Left(buf, n) = Piece(buf, m, l)
  BY DEF Taken, Left, Piece
<1>4. buf # <<>> => l # 0
  BY EmptySeq
<1>5. l = Len(buf) /\ l <= Len(buf) /\ m <= Len(buf)
  BY <1>1, <1>2
<1> HIDE DEF m, l
<1>6. Piece(buf, 0, m) \in Seq(S) /\ Len(Piece(buf, 0, m)) = m - 0
  BY <1>1, <1>2, <1>5, PieceShape
<1>7. Piece(buf, m, l) \in Seq(S)
  BY <1>1, <1>2, <1>5, PieceShape
<1>8. m - 0 = m
  BY <1>2
<1>9. Len(Piece(buf, 0, m)) = m
  BY <1>6, <1>8
<1>10. m # 0 => Piece(buf, 0, m) # <<>>
  BY <1>9
<1> QED
  BY <1>2, <1>3, <1>4, <1>6, <1>7, <1>9, <1>10

\* However much of a header was read: it begins with the CRC, and the length it
\* tells is a number.
LEMMA HeaderRead ==
  ASSUME NEW t \in Text, NEW i \in 1 .. 3
  PROVE  /\ Part(t, 0, i) \in Seq(Byte) /\ Len(Part(t, 0, i)) = i
         /\ Part(t, 0, i)[1] = <<"crc", Body(t)>>
         /\ SentLength(Part(t, 0, i)) \in Nat
<1> DEFINE s == Frame(t)
           h == Part(t, 0, i)
<1>1. /\ s \in Seq(Byte) /\ Len(s) \in Nat /\ Len(s) = 3 + Length[t]
      /\ Length[t] \in Nat
      /\ \A k \in 1 .. 3 : s[k] = Header(t)[k]
  BY FrameShape, BodyShape
<1>2. i \in Nat /\ 0 <= i /\ i <= Len(s) /\ i - 0 = i
  BY <1>1
<1>3. s \in Seq(Byte)
  BY <1>1
<1>4. h \in Seq(Byte) /\ Len(h) = i /\ \A k \in 1 .. i : h[k] = s[k]
  <2> DEFINE z == 0
  <2>1. z \in Nat /\ z <= i /\ i - z = i /\ \A k \in 1 .. i : z + k = k
    BY <1>2
  <2>2. h = Piece(s, z, i)
    BY DEF Part
  <2> HIDE DEF s, h, z
  <2>3. /\ Piece(s, z, i) \in Seq(Byte) /\ Len(Piece(s, z, i)) = i - z
        /\ \A k \in 1 .. i - z : Piece(s, z, i)[k] = s[z + k]
    BY <1>2, <1>3, <2>1, PieceShape
  <2> QED
    BY <2>1, <2>2, <2>3
<1> HIDE DEF s, h
<1>5. \A k \in 1 .. i : h[k] = Header(t)[k]
  BY <1>1, <1>4
<1>6. /\ Header(t)[1] = <<"crc", Body(t)>>
      /\ \A k \in {2, 3} : Header(t)[k][2] \in Nat
  BY HeaderShape
<1>7. Digit(h, 2) \in Nat /\ Digit(h, 3) \in Nat
  BY <1>4, <1>5, <1>6 DEF Digit
<1>8. Base \in Nat
  BY SessionAssumption
<1>9. SentLength(h) \in Nat
  BY <1>7, <1>8 DEF SentLength
<1>10. h[1] = <<"crc", Body(t)>>
  BY <1>5, <1>6
<1> QED
  BY <1>4, <1>9, <1>10 DEF h

\* Whatever part of a frame was taken for a header: the lengths it may tell are numbers,
\* and unless it is the beginning of the frame it does not begin with a CRC.
LEMMA HeaderTaken ==
  ASSUME NEW t \in Text, NEW b \in Nat, NEW i \in Nat, b < i, i <= b + 3,
         i <= Len(Frame(t))
  PROVE  /\ SeenLengths(Part(t, b, i)) \subseteq Nat
         /\ \A x : CrcHolds(Part(t, b, i), x) => b = 0
<1> DEFINE s == Frame(t)
           h == Part(t, b, i)
<1>1. /\ s \in Seq(Byte) /\ Len(s) \in Nat /\ Len(s) = 3 + Length[t]
      /\ Length[t] \in Nat
      /\ \A k \in 1 .. 3 : s[k] = Header(t)[k]
      /\ \A k \in 4 .. 3 + Length[t] : s[k][1] = "text"
  BY FrameShape, BodyShape
<1>2. Base \in Nat \ {0, 1}
  BY SessionAssumption
<1>3. \A k \in {2, 3} : Header(t)[k][2] \in Nat /\ Header(t)[k][1] \notin {"text", "crc"}
  BY HeaderShape
<1>4. Len(h) = i - b /\ \A k \in 1 .. i - b : h[k] = s[b + k]
  <2> HIDE DEF s
  <2>1. s \in Seq(Byte) /\ b <= i /\ i <= Len(s)
    BY <1>1 DEF s
  <2>2. /\ Len(Piece(s, b, i)) = i - b
        /\ \A k \in 1 .. i - b : Piece(s, b, i)[k] = s[b + k]
    BY <2>1, PieceShape
  <2> QED
    BY <2>2 DEF Part, s
<1> HIDE DEF s, h
<1>5. ASSUME NEW k \in 2 .. i - b, h[k][1] # "text" PROVE h[k][2] \in Nat
  <2>1. k \in 1 .. i - b /\ b + k >= 2 /\ b + k <= i
    OBVIOUS
  <2>2. b + k \in {2, 3}
    <3>1. i <= 3 + Length[t]
      BY <1>1 DEF s
    <3>2. b + k \in 2 .. 3 + Length[t]
      BY <1>1, <2>1, <3>1
    <3>3. s[b + k][1] # "text"
      BY <1>4, <1>5, <2>1
    <3>4. b + k \notin 4 .. 3 + Length[t]
      BY <1>1, <3>3
    <3> QED
      BY <1>1, <3>2, <3>4
  <2>3. b + k \in 1 .. 3
    BY <2>2
  <2> QED
    BY <1>1, <1>3, <1>4, <2>1, <2>2, <2>3
<1>6. SeenLengths(h) \subseteq Nat
  <2>1. CASE \E k \in 2 .. Len(h) : h[k][1] \notin {"low", "high"}
    <3>1. Base * Base - 1 \in Int
      BY <1>2
    <3> QED
      BY <2>1, <3>1 DEF SeenLengths
  <2>2. CASE ~ \E k \in 2 .. Len(h) : h[k][1] \notin {"low", "high"}
    <3>1. \A k \in 2 .. i - b : h[k][2] \in Nat
      BY <1>4, <1>5, <2>2
    <3>2. \A k \in {2, 3} : k <= Len(h) => k \in 2 .. i - b
      BY <1>4
    <3>3. Digit(h, 2) \in Nat /\ Digit(h, 3) \in Nat
      BY <3>1, <3>2 DEF Digit
    <3>4. SentLength(h) \in Nat
      BY <1>2, <3>3 DEF SentLength
    <3> QED
      BY <2>2, <3>4 DEF SeenLengths
  <2> QED
    BY <2>1, <2>2
<1>7. ASSUME NEW x, CrcHolds(h, x) PROVE b = 0
  <2> SUFFICES ASSUME b # 0 PROVE FALSE
    OBVIOUS
  <2>1. 1 \in 1 .. i - b /\ b + 1 \in 2 .. Len(s)
    BY DEF s
  <2>2. s[b + 1][1] = "crc"
    <3>1. h[1] = <<"crc", x>>
      BY <1>7 DEF CrcHolds
    <3> QED
      BY <1>4, <2>1, <3>1
  <2>3. CASE b + 1 \in {2, 3}
    <3>1. b + 1 \in 1 .. 3
      BY <2>3
    <3> QED
      BY <1>1, <1>3, <2>2, <2>3, <3>1
  <2>4. CASE b + 1 \in 4 .. 3 + Length[t]
    BY <1>1, <2>2, <2>4
  <2> QED
    BY <1>1, <2>1, <2>3, <2>4
<1> QED
  BY <1>6, <1>7 DEF h

\* When the CRC holds the header was read whole, and so was the payload: the first
\* byte after a header cut short is not the first byte of a payload.
LEMMA CrcTells ==
  ASSUME NEW t \in Text, NEW i \in 1 .. 3, NEW m \in Nat, i <= m, m <= Len(Frame(t)),
         CrcHolds(Part(t, 0, i), Part(t, i, m))
  PROVE  i = 3 /\ m = Len(Frame(t)) /\ Part(t, i, m) = Body(t)
<1> DEFINE s == Frame(t)
           got == Part(t, i, m)
<1>1. /\ s \in Seq(Byte) /\ Len(s) \in Nat /\ Len(s) = 3 + Length[t]
      /\ Length[t] \in Nat \ {0}
      /\ \A k \in 1 .. 3 : s[k] = Header(t)[k]
  BY FrameShape, BodyShape
<1>2. got = Body(t)
  <2>1. Part(t, 0, i)[1] = <<"crc", Body(t)>>
    BY HeaderRead
  <2> QED
    BY <2>1 DEF CrcHolds
<1>3. s \in Seq(Byte) /\ i \in Nat /\ i <= m /\ m <= Len(s)
  BY <1>1
<1>4. Len(got) = m - i /\ \A k \in 1 .. m - i : got[k] = s[i + k]
  <2> HIDE DEF s
  <2> QED
    BY <1>3, PieceShape DEF Part, s
<1>5. Len(Body(t)) = Length[t] /\ Body(t)[1] = <<"text", 1, t>>
  BY BodyShape
<1>6. m - i = Length[t]
  BY <1>2, <1>4, <1>5
<1>7. s[i + 1] = <<"text", 1, t>>
  <2>1. 1 \in 1 .. m - i
    BY <1>1, <1>6
  <2> QED
    BY <1>2, <1>4, <1>5, <2>1
<1>8. i = 3
  <2> SUFFICES ASSUME i # 3 PROVE FALSE
    OBVIOUS
  <2>1. i + 1 \in {2, 3} /\ i + 1 \in 1 .. 3
    OBVIOUS
  <2>2. Header(t)[i + 1] # <<"text", 1, t>>
    BY <2>1, HeaderShape
  <2> QED
    BY <1>1, <1>7, <2>1, <2>2
<1> QED
  BY <1>1, <1>2, <1>6, <1>8

\* A request that arrived whole gets the answer that the table has for it.
LEMMA AnswerOfBody ==
  ASSUME NEW t \in Request
  PROVE  Answer(Body(t)) = Response[t]
<1>1. \A u \in Request : Body(u) = Body(t) => u = t
  BY BodyTells DEF Text
<1> DEFINE u == CHOOSE u \in Request : Body(u) = Body(t)
<1>2. u \in Request /\ Body(u) = Body(t)
  OBVIOUS
<1>3. u = t
  BY <1>1, <1>2
<1> QED
  BY <1>3 DEF Answer

-------------------------------------------------------------------------------
(* The invariant *)

\* The types that the steps rely on.
SessionTypes ==
  /\ TypeOK
  /\ DOMAIN chead = Call /\ DOMAIN res = Call /\ DOMAIN shead = Call
  /\ DOMAIN processed = Call
  /\ upNet \in [Call -> Seq(Seq(Byte))] /\ upBuf \in [Call -> Seq(Byte)]
  /\ downNet \in [Call -> Seq(Seq(Byte))] /\ downBuf \in [Call -> Seq(Byte)]

\* A call that was not made has no request and no bytes.
IdleInv(c) ==
  IF client[c] = "idle"
  THEN /\ req[c] = Null /\ handler[c] = "none" /\ processed[c] = <<>>
       /\ upNet[c] = <<>> /\ upBuf[c] = <<>> /\ downNet[c] = <<>> /\ downBuf[c] = <<>>
  ELSE req[c] \in Request

\* How many sends the client has made, at the most.
Sends(c) ==
  CASE client[c] = "send_header" -> 0 [] client[c] = "send_body" -> 1 [] OTHER -> 2

\* The bytes up to which the client has sent its frame; of one that is gone, or
\* whose connection was reset, any.
SentTo(c, j) ==
  /\ client[c] = "send_header" => j = 0
  /\ client[c] = "send_body" => j = 3

\* How far the handler has read the frame.  What it took for a header is the part
\* it read last.
ReadTo(c, i) ==
  \/ handler[c] \in {"none", "header"} /\ processed[c] = <<>>
  \/ /\ handler[c] = "body" /\ processed[c] = <<>>
     /\ \E b \in Nat : b < i /\ i <= b + 3 /\ shead[c] = Part(req[c], b, i)
  \/ handler[c] = "header" /\ processed[c] = <<Body(req[c])>> /\ i = Len(Frame(req[c]))

\* The bytes on the way to the handler: the part of its client's frame between
\* what it has read and what was sent.
UpStream(c, i, j) ==
  /\ i <= j /\ j <= Len(Frame(req[c])) /\ ReadTo(c, i) /\ SentTo(c, j)
  /\ Halves(upBuf[c], Flow(upNet[c]), Frame(req[c]), i, j)

\* There are such bytes while a handler may read.
UpInv(c) ==
  client[c] # "idle" /\ ~ServerGone(c) =>
    /\ Len(upNet[c]) <= Sends(c)
    /\ \E i, j \in Nat : UpStream(c, i, j)

\* The bytes on the way to a client whose answer is r: a part of the answer's frame.
DownStream(c, r, i, j) ==
  /\ i <= j /\ j <= Len(Frame(r))
  /\ IF client[c] = "recv_body"
     THEN i \in 1 .. 3 /\ chead[c] = Part(r, 0, i)
     ELSE i = 0
  /\ Halves(downBuf[c], Flow(downNet[c]), Frame(r), i, j)

\* While a client may read there are such bytes, or there was no answer yet.
DownInv(c) ==
  ~ClientGone(c) =>
    \/ downNet[c] = <<>> /\ downBuf[c] = <<>> /\ client[c] # "recv_body"
    \/ /\ processed[c] # <<>> /\ Response[req[c]] # Null
       /\ Len(downNet[c]) <= 2
       /\ \E i, j \in Nat : DownStream(c, Response[req[c]], i, j)

\* What was processed, and what was returned.
OutcomeInv(c) ==
  /\ processed[c] # <<>> => processed[c] = << Body(req[c]) >>
  /\ client[c] = "done" =>
       /\ processed[c] = << Body(req[c]) >>
       /\ Response[req[c]] # Null /\ res[c] = Body(Response[req[c]])

\* What every step keeps of one call.
CallInv(c) == IdleInv(c) /\ UpInv(c) /\ DownInv(c) /\ OutcomeInv(c)

SessionInv == SessionTypes /\ \A c \in Call : CallInv(c)

-------------------------------------------------------------------------------
(* The steps *)

\* A step leaves another call alone.
Same(c) ==
  /\ client'[c] = client[c] /\ req'[c] = req[c] /\ chead'[c] = chead[c] /\ res'[c] = res[c]
  /\ handler'[c] = handler[c] /\ shead'[c] = shead[c] /\ processed'[c] = processed[c]
  /\ upNet'[c] = upNet[c] /\ upBuf'[c] = upBuf[c]
  /\ downNet'[c] = downNet[c] /\ downBuf'[c] = downBuf[c]

\* The server does not come back.
NoRevival == server' = "up" => server = "up"

\* What every step is shown to do.
Keeps(c) ==
  /\ SessionTypes' /\ CallInv(c)' /\ NoRevival
  /\ \A d \in Call \ {c} : Same(d)

\* A call that a step leaves alone keeps what held of it.
LEMMA SameKeeps ==
  ASSUME NEW c \in Call, CallInv(c), Same(c), NoRevival
  PROVE  CallInv(c)'
<1>1. IdleInv(c)'
  BY DEF CallInv, IdleInv, Same
<1>2. UpInv(c)'
  <2>1. ServerGone(c) => ServerGone(c)'
    BY DEF ServerGone, Same, NoRevival
  <2>2. Sends(c)' = Sends(c)
    BY DEF Sends, Same
  <2>3. \A i, j \in Nat : UpStream(c, i, j)' <=> UpStream(c, i, j)
    BY DEF UpStream, ReadTo, SentTo, Same
  <2> QED
    BY <2>1, <2>2, <2>3 DEF CallInv, UpInv, Same
<1>3. DownInv(c)'
  <2>1. ClientGone(c)' <=> ClientGone(c)
    BY DEF ClientGone, Same
  <2>2. \A i, j \in Nat : DownStream(c, Response[req[c]], i, j)' <=>
                         DownStream(c, Response[req[c]], i, j)
    BY DEF DownStream, Same
  <2> QED
    BY <2>1, <2>2 DEF CallInv, DownInv, Same
<1>4. OutcomeInv(c)'
  BY DEF CallInv, OutcomeInv, Same
<1> QED
  BY <1>1, <1>2, <1>3, <1>4 DEF CallInv

\* A request and its answer, if it has one, are payloads.
LEMMA AnswersAreText ==
  ASSUME NEW t \in Request
  PROVE  t \in Text /\ (Response[t] # Null => Response[t] \in Text)
BY SessionAssumption DEF Text

\* connect: both directions are empty, and the frame of the request is untouched.
LEMMA ConnectKeeps ==
  ASSUME SessionInv, NEW c \in Call, NEW t \in Request, Connect(c, t)
  PROVE  Keeps(c)
<1> USE DEF SessionInv
<1>1. /\ client[c] = "idle" /\ client'[c] \in {"send_header", "dead"}
      /\ server # "up" => client'[c] = "dead"
      /\ req'[c] = t
      /\ UNCHANGED <<chead, res, handler, shead, processed, server,
                     upNet, upBuf, downNet, downBuf>>
      /\ \A d \in Call \ {c} : client'[d] = client[d] /\ req'[d] = req[d]
  BY DEF Connect, SessionTypes, TypeOK, serverVars, upVars, downVars
<1>2. SessionTypes'
  BY <1>1 DEF Connect, SessionTypes, TypeOK, serverVars, upVars, downVars
<1>3. /\ handler[c] = "none" /\ processed[c] = <<>> /\ upNet[c] = <<>> /\ upBuf[c] = <<>>
      /\ downNet[c] = <<>> /\ downBuf[c] = <<>>
  BY <1>1 DEF CallInv, IdleInv
<1>4. UpInv(c)'
  <2>1. UpStream(c, 0, 0)'
    <3>1. Part(t, 0, 0) = <<>> /\ Len(Frame(t)) \in Nat
      BY AnswersAreText, PartNames, FrameShape
    <3>2. Joined(<<>>, Flow(<<>>)) = <<>>
      BY DEF Joined, Flow
    <3> QED
      BY <1>1, <1>3, <3>1, <3>2 DEF UpStream, ReadTo, SentTo, Halves, Part
  <2>2. Len(upNet'[c]) = 0 /\ Sends(c)' \in {0, 1, 2}
    BY <1>1, <1>3 DEF Sends
  <2>3. Len(upNet'[c]) <= Sends(c)'
    BY <2>2
  <2> QED
    BY <2>1, <2>3 DEF UpInv
<1>5. IdleInv(c)' /\ DownInv(c)' /\ OutcomeInv(c)'
  BY <1>1, <1>3 DEF IdleInv, DownInv, OutcomeInv, ClientGone
<1> QED
  BY <1>1, <1>2, <1>4, <1>5 DEF Keeps, Same, NoRevival, CallInv

\* One send: if the server lives, the bytes join those on the way.
LEMMA SendKeeps ==
  ASSUME SessionInv, NEW c \in Call, NEW bytes \in Seq(Byte), NEW next, NEW k \in Nat,
         NEW j \in Nat, Send(c, bytes, next),
         \/ client[c] = "send_header" /\ next = "send_body" /\ k = 0 /\ j = 3
         \/ client[c] = "send_body" /\ next = "recv_header" /\ k = 3 /\ j = Len(Frame(req[c])),
         bytes = Part(req[c], k, j)
  PROVE  Keeps(c)
<1> USE DEF SessionInv
<1>1. /\ client[c] \in {"send_header", "send_body"}
      /\ client'[c] \in {next, "dead"} /\ next \in {"send_body", "recv_header"}
      /\ client' \in [Call -> {"idle", "send_header", "send_body", "recv_header", "recv_body",
                              "done", "dead", "abort"}]
      /\ UNCHANGED <<req, chead, res, handler, shead, processed, server,
                     upBuf, downNet, downBuf>>
      /\ \A d \in Call \ {c} : client'[d] = client[d]
  BY DEF Send, SessionTypes, TypeOK, serverVars, downVars
<1>2. /\ ServerGone(c) => upNet' = upNet
      /\ ~ServerGone(c) => upNet' = [upNet EXCEPT ![c] = Append(@, bytes)] /\ client'[c] = next
  BY DEF Send, SessionTypes, TypeOK
<1>3. upNet[c] \in Seq(Seq(Byte)) /\ upBuf[c] \in Seq(Byte)
  BY DEF SessionTypes
<1>4. Append(upNet[c], bytes) \in Seq(Seq(Byte))
  <2> DEFINE Q == Seq(Byte)
  <2>1. upNet[c] \in Seq(Q) /\ bytes \in Q
    BY <1>3
  <2> HIDE DEF Q
  <2>2. Append(upNet[c], bytes) \in Seq(Q)
    BY <2>1, AppendProperties
  <2> QED
    BY <2>2 DEF Q
<1>5. SessionTypes'
  <2>1. upNet' \in [Call -> Seq(Seq(Byte))]
    BY <1>2, <1>4 DEF SessionTypes
  <2> QED
    BY <1>1, <2>1 DEF SessionTypes, TypeOK
<1>6. \A d \in Call \ {c} : upNet'[d] = upNet[d]
  BY <1>2 DEF SessionTypes
<1>7. IdleInv(c)' /\ DownInv(c)' /\ OutcomeInv(c)'
  <2>1. ASSUME NEW r, NEW x \in Nat, NEW y \in Nat, DownStream(c, r, x, y)
        PROVE  DownStream(c, r, x, y)'
    BY <1>1, <2>1 DEF DownStream
  <2>2. DownInv(c)'
    BY <1>1, <2>1 DEF CallInv, DownInv, ClientGone
  <2> QED
    BY <1>1, <2>2 DEF CallInv, IdleInv, OutcomeInv
<1>8. UpInv(c)'
  <2> SUFFICES ASSUME ~ServerGone(c)
               PROVE  Len(upNet'[c]) <= Sends(c)' /\ \E x, y \in Nat : UpStream(c, x, y)'
    BY <1>1 DEF UpInv, ServerGone
  <2>1. upNet'[c] = Append(upNet[c], bytes) /\ client'[c] = next
    BY <1>2, <1>3 DEF SessionTypes
  <2>2. req[c] \in Request /\ UpInv(c)
    BY <1>1 DEF CallInv, IdleInv
  <2>3. PICK x \in Nat, y \in Nat : UpStream(c, x, y)
    BY <1>1, <2>2 DEF UpInv
  <2>4. y = k /\ x <= k
    BY <2>3 DEF UpStream, SentTo
  <2>5. /\ Frame(req[c]) \in Seq(Byte) /\ k <= j /\ j <= Len(Frame(req[c]))
    <3>1. /\ Len(Frame(req[c])) = 3 + Length[req[c]] /\ Length[req[c]] \in Nat
          /\ Frame(req[c]) \in Seq(Byte)
      BY <2>2, AnswersAreText, FrameShape, BodyShape
    <3> QED
      BY <3>1
  <2>6. Len(upNet[c]) <= Sends(c) /\ Sends(c) \in {0, 1} /\ Sends(c)' = Sends(c) + 1
    BY <1>1, <2>1, <2>2 DEF UpInv, Sends
  <2>7. /\ Len(Append(upNet[c], bytes)) = Len(upNet[c]) + 1
        /\ Flow(Append(upNet[c], bytes)) = Joined(Flow(upNet[c]), bytes)
        /\ Flow(upNet[c]) \in Seq(Byte)
    <3>1. Len(upNet[c]) \in Nat
      BY <1>3, NetShape
    <3>2. Len(upNet[c]) <= 1 /\ Len(upNet[c]) <= 2
      <4> DEFINE n == Len(upNet[c])
                 m == Sends(c)
      <4>1. n \in Nat /\ n <= m /\ m \in {0, 1}
        BY <2>6, <3>1
      <4> HIDE DEF n, m
      <4>2. n <= 1 /\ n <= 2
        BY <4>1
      <4> QED
        BY <4>2 DEF n
    <3>3. /\ Len(Append(upNet[c], bytes)) = Len(upNet[c]) + 1
          /\ Flow(Append(upNet[c], bytes)) = Joined(Flow(upNet[c]), bytes)
      BY <1>3, <3>2, FlowSend
    <3>4. Flow(upNet[c]) \in Seq(Byte)
      BY <1>3, <3>2, FlowShape
    <3> QED
      BY <3>3, <3>4
  <2>8. Halves(upBuf[c], Flow(upNet'[c]), Frame(req[c]), x, j)
    <3>1. Halves(upBuf[c], Flow(upNet[c]), Frame(req[c]), x, k)
      BY <2>3, <2>4 DEF UpStream
    <3>2. Flow(upNet[c]) \in Seq(Byte)
      BY <2>7
    <3>3. Halves(upBuf[c], Joined(Flow(upNet[c]), Piece(Frame(req[c]), k, j)),
                 Frame(req[c]), x, j)
      <4> DEFINE f == Flow(upNet[c])
                 b == upBuf[c]
                 r == Frame(req[c])
      <4>1. /\ f \in Seq(Byte) /\ b \in Seq(Byte) /\ r \in Seq(Byte)
            /\ Halves(b, f, r, x, k) /\ x <= k /\ k <= j /\ j <= Len(r)
        BY <1>3, <2>4, <2>5, <3>1, <3>2
      <4> HIDE DEF f, b, r
      <4>2. Halves(b, Joined(f, Piece(r, k, j)), r, x, j)
        BY <4>1, SendingPart
      <4> QED
        BY <4>2 DEF f, b, r
    <3> QED
      BY <2>1, <2>7, <3>3 DEF Part
  <2>9. UpStream(c, x, j)'
    <3>1. ReadTo(c, x)'
      BY <1>1, <2>3 DEF UpStream, ReadTo
    <3>2. SentTo(c, j)'
      BY <2>1 DEF SentTo
    <3>3. x <= j
      BY <2>4, <2>5
    <3> QED
      BY <1>1, <2>5, <2>8, <3>1, <3>2, <3>3 DEF UpStream
  <2>10. Len(upNet'[c]) <= Sends(c)'
    <3> DEFINE n == Len(upNet[c])
               m == Sends(c)
               p == Len(Append(upNet[c], bytes))
               q == Sends(c)'
    <3>1. n \in Nat /\ n <= m /\ m \in {0, 1} /\ p = n + 1 /\ q = m + 1
      BY <1>3, <2>6, <2>7, NetShape
    <3> HIDE DEF n, m, p, q
    <3>2. p <= q
      BY <3>1
    <3> QED
      BY <2>1, <3>2 DEF p, q
  <2> QED
    BY <2>9, <2>10
<1> QED
  BY <1>1, <1>5, <1>6, <1>7, <1>8 DEF Keeps, Same, NoRevival, CallInv

\* A client that dies has no claims.
LEMMA DiesKeeps ==
  ASSUME SessionInv, NEW c \in Call, client[c] # "idle", Dies(c)
  PROVE  Keeps(c)
<1> USE DEF SessionInv
<1>1. /\ client[c] # "idle" /\ client'[c] = "dead"
      /\ UNCHANGED <<req, chead, res, handler, shead, processed, server,
                     upNet, upBuf, downNet, downBuf>>
      /\ \A d \in Call \ {c} : client'[d] = client[d]
  BY DEF Dies, SessionTypes, TypeOK, serverVars, upVars, downVars
<1>2. SessionTypes'
  BY <1>1 DEF Dies, SessionTypes, TypeOK
<1>3. UpInv(c)'
  <2>1. UpInv(c)
    BY DEF CallInv
  <2>2. /\ Sends(c)' = 2 /\ Sends(c) \in {0, 1, 2}
        /\ (ServerGone(c)' <=> ServerGone(c))
    BY <1>1 DEF Sends, ServerGone
  <2>3. \A i, j \in Nat : UpStream(c, i, j) => UpStream(c, i, j)'
    BY <1>1 DEF UpStream, ReadTo, SentTo
  <2>4. Len(upNet[c]) <= Sends(c) => Len(upNet[c]) <= 2
    <3> DEFINE l == Len(upNet[c])
               m == Sends(c)
    <3>1. l \in Nat /\ m \in {0, 1, 2}
      BY <2>2, NetShape DEF SessionTypes
    <3> HIDE DEF l, m
    <3>2. l <= m => l <= 2
      BY <3>1
    <3> QED
      BY <3>2 DEF l, m
  <2> QED
    BY <1>1, <2>1, <2>2, <2>3, <2>4 DEF UpInv
<1>4. IdleInv(c)' /\ DownInv(c)' /\ OutcomeInv(c)'
  BY <1>1 DEF CallInv, IdleInv, DownInv, OutcomeInv, ClientGone
<1> QED
  BY <1>1, <1>2, <1>3, <1>4 DEF Keeps, Same, NoRevival, CallInv

\* The client's two sends are header and payload of its request.
LEMMA SendHeaderKeeps ==
  ASSUME SessionInv, NEW c \in Call, SendHeader(c)
  PROVE  Keeps(c)
<1>1. client[c] = "send_header" /\ req[c] \in Request
  BY DEF SendHeader, SessionInv, CallInv, IdleInv
<1>2. Header(req[c]) \in Seq(Byte) /\ Header(req[c]) = Part(req[c], 0, 3)
  BY <1>1, AnswersAreText, HeaderShape, PartNames
<1>3. Send(c, Header(req[c]), "send_body") \/ Dies(c)
  BY DEF SendHeader
<1> QED
  BY <1>1, <1>2, <1>3, SendKeeps, DiesKeeps

\* The second send is the payload, the rest of the frame.
LEMMA SendBodyKeeps ==
  ASSUME SessionInv, NEW c \in Call, SendBody(c)
  PROVE  Keeps(c)
<1>1. client[c] = "send_body" /\ req[c] \in Request
  BY DEF SendBody, SessionInv, CallInv, IdleInv
<1>2. /\ Body(req[c]) \in Seq(Byte) /\ Body(req[c]) = Part(req[c], 3, Len(Frame(req[c])))
      /\ Len(Frame(req[c])) \in Nat
  BY <1>1, AnswersAreText, BodyShape, PartNames, FrameShape
<1>3. Send(c, Body(req[c]), "recv_header")
  BY DEF SendBody
<1> QED
  BY <1>1, <1>2, <1>3, SendKeeps

\* What is on its way to a living client is a flow of bytes.
LEMMA DownShape ==
  ASSUME SessionInv, NEW c \in Call, Len(downNet[c]) <= 2
  PROVE  downBuf[c] \in Seq(Byte) /\ Flow(downNet[c]) \in Seq(Byte)
<1>1. downBuf[c] \in Seq(Byte) /\ downNet[c] \in Seq(Seq(Byte))
  BY DEF SessionInv, SessionTypes
<1> QED
  BY <1>1, FlowShape

\* The client's recv of the header: what it takes is the front of the answer's frame.
LEMMA RecvHeaderKeeps ==
  ASSUME SessionInv, NEW c \in Call, RecvHeader(c)
  PROVE  Keeps(c)
<1> USE DEF SessionInv
<1>1. /\ client[c] = "recv_header"
      /\ client'[c] = IF downBuf[c] = <<>> THEN "dead" ELSE "recv_body"
      /\ chead'[c] = Taken(downBuf[c], 3) /\ downBuf'[c] = Left(downBuf[c], 3)
      /\ UNCHANGED <<req, res, handler, shead, processed, server, upNet, upBuf, downNet>>
      /\ \A d \in Call \ {c} : /\ client'[d] = client[d] /\ chead'[d] = chead[d]
                              /\ downBuf'[d] = downBuf[d]
  BY DEF RecvHeader, HeaderLength, SessionTypes, TypeOK, serverVars, upVars
<1>2. /\ downBuf[c] \in Seq(Byte) /\ Left(downBuf[c], 3) \in Seq(Byte)
      /\ Len(Taken(downBuf[c], 3)) <= 3
      /\ downBuf[c] # <<>> => Taken(downBuf[c], 3) # <<>>
  <2>1. downBuf[c] \in Seq(Byte)
    BY DEF SessionTypes
  <2> QED
    BY <2>1, ReadingShape
<1>3. SessionTypes'
  <2>1. TypeOK'
    BY <1>1, <1>2 DEF RecvHeader, SessionTypes, TypeOK, HeaderLength
  <2>2. downBuf' \in [Call -> Seq(Byte)]
    BY <1>2 DEF RecvHeader, SessionTypes, HeaderLength
  <2> QED
    BY <1>1, <2>1, <2>2 DEF RecvHeader, SessionTypes
<1>4. UpInv(c)'
  <2>1. UpInv(c) /\ client[c] # "idle" /\ client'[c] # "idle"
    BY <1>1 DEF CallInv
  <2>2. Sends(c)' = Sends(c) /\ (ServerGone(c)' <=> ServerGone(c))
    BY <1>1 DEF Sends, ServerGone
  <2>3. \A i, j \in Nat : UpStream(c, i, j) => UpStream(c, i, j)'
    BY <1>1 DEF UpStream, ReadTo, SentTo
  <2> QED
    BY <1>1, <2>1, <2>2, <2>3 DEF UpInv
<1>5. DownInv(c)'
  <2> SUFFICES ASSUME downBuf[c] # <<>>
               PROVE  /\ processed[c] # <<>> /\ Response[req[c]] # Null
                      /\ Len(downNet[c]) <= 2
                      /\ \E i, j \in Nat : DownStream(c, Response[req[c]], i, j)'
    BY <1>1 DEF DownInv, ClientGone
  <2> DEFINE r == Response[req[c]]
  <2>1. /\ processed[c] # <<>> /\ r # Null /\ Len(downNet[c]) <= 2
        /\ \E i, j \in Nat : DownStream(c, r, i, j)
    BY <1>1 DEF CallInv, DownInv, ClientGone
  <2>2. PICK i \in Nat, j \in Nat : DownStream(c, r, i, j)
    BY <2>1
  <2>3. i = 0 /\ 0 <= j /\ j <= Len(Frame(r))
        /\ Halves(downBuf[c], Flow(downNet[c]), Frame(r), 0, j)
    BY <1>1, <2>2 DEF DownStream
  <2>4. r \in Text /\ Frame(r) \in Seq(Byte)
    BY <1>1, <2>1, AnswersAreText, FrameShape DEF CallInv, IdleInv
  <2>5. downBuf[c] \in Seq(Byte) /\ Flow(downNet[c]) \in Seq(Byte)
    BY <2>1, DownShape
  <2>6. PICK m \in 1 .. 3 : /\ m <= j /\ Taken(downBuf[c], 3) = Part(r, 0, m)
                            /\ Halves(Left(downBuf[c], 3), Flow(downNet[c]), Frame(r), m, j)
    <3> HIDE DEF r
    <3> QED
      BY <2>3, <2>4, <2>5, ReadingHeader
  <2>7. DownStream(c, r, m, j)'
    <3>1. client'[c] = "recv_body"
      BY <1>1
    <3>2. r' = r
      BY <1>1
    <3> HIDE DEF r
    <3> QED
      BY <1>1, <2>3, <2>6, <3>1, <3>2 DEF DownStream
  <2> QED
    BY <2>1, <2>7
<1>6. IdleInv(c)' /\ OutcomeInv(c)'
  BY <1>1 DEF CallInv, IdleInv, OutcomeInv
<1> QED
  BY <1>1, <1>3, <1>4, <1>5, <1>6 DEF Keeps, Same, NoRevival, CallInv

\* The client's recv of the payload: if the CRC holds it is the answer.
LEMMA RecvBodyKeeps ==
  ASSUME SessionInv, NEW c \in Call, RecvBody(c)
  PROVE  Keeps(c)
<1> USE DEF SessionInv
<1> DEFINE n == SentLength(chead[c])
           got == Taken(downBuf[c], n)
           r == Response[req[c]]
<1>1. /\ client[c] = "recv_body" /\ client'[c] \in {"done", "dead", "abort"}
      /\ client'[c] = "done" => CrcHolds(chead[c], got) /\ res'[c] = got
      /\ downBuf'[c] = Left(downBuf[c], n)
      /\ DOMAIN res' = Call
      /\ UNCHANGED <<req, chead, handler, shead, processed, server, upNet, upBuf, downNet>>
      /\ \A d \in Call \ {c} : /\ client'[d] = client[d] /\ res'[d] = res[d]
                              /\ downBuf'[d] = downBuf[d]
  BY DEF RecvBody, SessionTypes, TypeOK, serverVars, upVars
<1>2. /\ processed[c] # <<>> /\ r # Null /\ Len(downNet[c]) <= 2
      /\ \E i, j \in Nat : DownStream(c, r, i, j)
  BY <1>1 DEF CallInv, DownInv, ClientGone
<1>3. PICK i \in Nat, j \in Nat : DownStream(c, r, i, j)
  BY <1>2
<1>4. /\ i \in 1 .. 3 /\ chead[c] = Part(r, 0, i) /\ i <= j /\ j <= Len(Frame(r))
      /\ Halves(downBuf[c], Flow(downNet[c]), Frame(r), i, j)
  BY <1>1, <1>3 DEF DownStream
<1>5. r \in Text /\ Frame(r) \in Seq(Byte) /\ Len(Frame(r)) \in Nat
  BY <1>1, <1>2, AnswersAreText, FrameShape DEF CallInv, IdleInv
<1>6. n \in Nat
  BY <1>4, <1>5, HeaderRead
<1>7. downBuf[c] \in Seq(Byte) /\ Flow(downNet[c]) \in Seq(Byte)
  BY <1>2, DownShape
<1>8. Left(downBuf[c], n) \in Seq(Byte)
  BY <1>6, <1>7, ReadingShape
<1>9. SessionTypes'
  <2>1. /\ client' \in [Call -> {"idle", "send_header", "send_body", "recv_header",
                                 "recv_body", "done", "dead", "abort"}]
        /\ downBuf' \in [Call -> Seq(Byte)]
    BY <1>8 DEF RecvBody, SessionTypes, TypeOK
  <2>2. client'[c] # "recv_body"
    BY <1>1
  <2> HIDE DEF n, got, r
  <2> QED
    BY <1>1, <2>1, <2>2 DEF SessionTypes, TypeOK
<1>10. \E m \in Nat : i <= m /\ m <= Len(Frame(r)) /\ got = Part(r, i, m)
  <2> HIDE DEF r, n
  <2>1. i \in Nat
    OBVIOUS
  <2> QED
    BY <1>4, <1>5, <1>6, <1>7, <2>1, ReadingPart
<1>11. client'[c] = "done" => got = Body(r)
  <2> SUFFICES ASSUME client'[c] = "done" PROVE got = Body(r)
    OBVIOUS
  <2>1. CrcHolds(Part(r, 0, i), got)
    BY <1>1, <1>4
  <2> QED
    BY <1>4, <1>5, <1>10, <2>1, CrcTells
<1>12. UpInv(c)'
  <2>1. UpInv(c) /\ client[c] # "idle" /\ client'[c] # "idle"
    BY <1>1 DEF CallInv
  <2>2. Sends(c)' = Sends(c) /\ (ServerGone(c)' <=> ServerGone(c))
    BY <1>1 DEF Sends, ServerGone
  <2>3. \A x, y \in Nat : UpStream(c, x, y) => UpStream(c, x, y)'
    BY <1>1 DEF UpStream, ReadTo, SentTo
  <2> QED
    BY <1>1, <2>1, <2>2, <2>3 DEF UpInv
<1>13. IdleInv(c)' /\ DownInv(c)' /\ OutcomeInv(c)'
  <2> HIDE DEF n, got
  <2> QED
    BY <1>1, <1>2, <1>11 DEF CallInv, IdleInv, DownInv, OutcomeInv, ClientGone
<1> QED
  BY <1>1, <1>9, <1>12, <1>13 DEF Keeps, Same, NoRevival, CallInv

\* accept: the handler has read nothing yet.
LEMMA AcceptKeeps ==
  ASSUME SessionInv, NEW c \in Call, Accept(c)
  PROVE  Keeps(c)
<1> USE DEF SessionInv
<1>1. /\ server = "up" /\ client[c] # "idle" /\ handler[c] = "none" /\ handler'[c] = "header"
      /\ UNCHANGED <<client, req, chead, res, shead, processed, server,
                     upNet, upBuf, downNet, downBuf>>
      /\ \A d \in Call \ {c} : handler'[d] = handler[d]
  BY DEF Accept, SessionTypes, TypeOK, clientVars, upVars, downVars
<1>2. SessionTypes'
  BY <1>1 DEF Accept, SessionTypes, TypeOK
<1>3. UpInv(c)'
  <2>1. UpInv(c) /\ ~ServerGone(c)
    BY <1>1 DEF CallInv, ServerGone
  <2>2. Sends(c)' = Sends(c)
    BY <1>1 DEF Sends
  <2>3. \A i, j \in Nat : UpStream(c, i, j) => UpStream(c, i, j)'
    BY <1>1 DEF UpStream, ReadTo, SentTo
  <2> QED
    BY <1>1, <2>1, <2>2, <2>3 DEF UpInv
<1>4. DownInv(c)'
  <2>1. \A r : \A i, j \in Nat : DownStream(c, r, i, j) => DownStream(c, r, i, j)'
    BY <1>1 DEF DownStream
  <2> QED
    BY <1>1, <2>1 DEF CallInv, DownInv, ClientGone
<1>5. IdleInv(c)' /\ OutcomeInv(c)'
  BY <1>1 DEF CallInv, IdleInv, OutcomeInv
<1> QED
  BY <1>1, <1>2, <1>3, <1>4, <1>5 DEF Keeps, Same, NoRevival, CallInv

\* The handler that may read has a stream of its client's frame before it.
LEMMA UpShape ==
  ASSUME SessionInv, NEW c \in Call, client[c] # "idle", ~ServerGone(c)
  PROVE  /\ req[c] \in Request /\ req[c] \in Text
         /\ upBuf[c] \in Seq(Byte) /\ Flow(upNet[c]) \in Seq(Byte) /\ Len(upNet[c]) <= 2
         /\ \E i, j \in Nat : UpStream(c, i, j)
<1>1. req[c] \in Request
  BY DEF SessionInv, CallInv, IdleInv
<1>2. Len(upNet[c]) <= Sends(c) /\ \E i, j \in Nat : UpStream(c, i, j)
  BY DEF SessionInv, CallInv, UpInv
<1>3. upBuf[c] \in Seq(Byte) /\ upNet[c] \in Seq(Seq(Byte))
  BY DEF SessionInv, SessionTypes
<1>4. Len(upNet[c]) <= 2
  <2> DEFINE l == Len(upNet[c])
             m == Sends(c)
  <2>1. l \in Nat /\ m \in {0, 1, 2} /\ l <= m
    BY <1>2, <1>3, NetShape DEF Sends
  <2> HIDE DEF l, m
  <2>2. l <= 2
    BY <2>1
  <2> QED
    BY <2>2 DEF l
<1> QED
  BY <1>1, <1>2, <1>3, <1>4, AnswersAreText, FlowShape

\* A handler whose client did not call is not there.
LEMMA HandlerHasClient ==
  ASSUME SessionInv, NEW c \in Call, handler[c] # "none"
  PROVE  client[c] # "idle"
BY DEF SessionInv, CallInv, IdleInv

\* The handler's recv of the header: the front of the frame, or nothing after its end.
LEMMA HandleHeaderKeeps ==
  ASSUME SessionInv, NEW c \in Call, HandleHeader(c)
  PROVE  Keeps(c)
<1> USE DEF SessionInv
<1>1. /\ server = "up" /\ handler[c] = "header" /\ client[c] # "idle" /\ ~ServerGone(c)
      /\ handler'[c] = IF upBuf[c] = <<>> THEN "closed" ELSE "body"
      /\ shead'[c] = Taken(upBuf[c], 3) /\ upBuf'[c] = Left(upBuf[c], 3)
      /\ UNCHANGED <<client, req, chead, res, processed, server, upNet, downNet, downBuf>>
      /\ \A d \in Call \ {c} : /\ handler'[d] = handler[d] /\ shead'[d] = shead[d]
                              /\ upBuf'[d] = upBuf[d]
  BY HandlerHasClient DEF HandleHeader, AfterHeader, HeaderLength, SessionTypes, TypeOK,
     clientVars, downVars, ServerGone
<1>2. /\ upBuf[c] \in Seq(Byte) /\ Left(upBuf[c], 3) \in Seq(Byte)
      /\ Len(Taken(upBuf[c], 3)) <= 3
      /\ upBuf[c] # <<>> => Taken(upBuf[c], 3) # <<>>
  <2>1. upBuf[c] \in Seq(Byte)
    BY DEF SessionTypes
  <2> QED
    BY <2>1, ReadingShape
<1>3. SessionTypes'
  <2>1. TypeOK'
    BY <1>1, <1>2 DEF HandleHeader, AfterHeader, SessionTypes, TypeOK, HeaderLength
  <2>2. upBuf' \in [Call -> Seq(Byte)]
    BY <1>2 DEF HandleHeader, SessionTypes, HeaderLength
  <2> QED
    BY <1>1, <2>1, <2>2 DEF HandleHeader, SessionTypes
<1>4. UpInv(c)'
  <2> SUFFICES ASSUME upBuf[c] # <<>>
               PROVE  /\ Len(upNet[c]) <= Sends(c)'
                      /\ \E i, j \in Nat : UpStream(c, i, j)'
    BY <1>1 DEF UpInv, ServerGone
  <2>1. Len(upNet[c]) <= Sends(c) /\ Sends(c)' = Sends(c)
    BY <1>1 DEF CallInv, UpInv, Sends
  <2>2. /\ req[c] \in Text /\ upBuf[c] \in Seq(Byte) /\ Flow(upNet[c]) \in Seq(Byte)
        /\ \E i, j \in Nat : UpStream(c, i, j)
    BY <1>1, UpShape
  <2>3. PICK i \in Nat, j \in Nat : UpStream(c, i, j)
    BY <2>2
  <2> DEFINE r == req[c]
  <2>4. /\ i <= j /\ j <= Len(Frame(r)) /\ SentTo(c, j)
        /\ Halves(upBuf[c], Flow(upNet[c]), Frame(r), i, j)
        /\ \/ processed[c] = <<>>
           \/ i = Len(Frame(r))
    BY <1>1, <2>3 DEF UpStream, ReadTo
  <2>5. i # Len(Frame(r))
    <3> SUFFICES ASSUME i = Len(Frame(r)) PROVE FALSE
      OBVIOUS
    <3>1. Frame(r) \in Seq(Byte) /\ Len(Frame(r)) \in Nat
      BY <2>2, FrameShape
    <3> HIDE DEF r
    <3>2. i + Len(upBuf[c]) <= j
      BY <2>2, <2>4, <3>1, PieceSplit
    <3> DEFINE l == Len(upBuf[c])
    <3>3. l \in Nat \ {0} /\ i + l <= j /\ j <= i
      BY <1>2, <2>4, <3>2, EmptySeq
    <3> HIDE DEF l
    <3> QED
      BY <3>3
  <2>6. processed[c] = <<>>
    BY <2>4, <2>5
  <2>7. PICK m \in i + 1 .. i + 3 :
          /\ m <= j /\ Taken(upBuf[c], 3) = Part(r, i, m)
          /\ Halves(Left(upBuf[c], 3), Flow(upNet[c]), Frame(r), m, j)
    <3> HIDE DEF r
    <3>1. r \in Text
      BY <2>2 DEF r
    <3> QED
      BY <1>1, <2>2, <2>4, <3>1, ReadingHeader
  <2>8. m \in Nat /\ UpStream(c, m, j)'
    <3>1. handler'[c] = "body" /\ r' = r /\ req' = req
      BY <1>1
    <3>0. i < m /\ m <= i + 3 /\ m \in Nat
      BY <2>7
    <3>2. ReadTo(c, m)'
      BY <1>1, <2>6, <2>7, <3>0, <3>1 DEF ReadTo
    <3>3. SentTo(c, j)'
      BY <1>1, <2>4 DEF SentTo
    <3> QED
      BY <1>1, <2>4, <2>7, <3>0, <3>2, <3>3 DEF UpStream
  <2> QED
    BY <2>1, <2>8
<1>5. DownInv(c)'
  <2>1. \A r : \A i, j \in Nat : DownStream(c, r, i, j) => DownStream(c, r, i, j)'
    BY <1>1 DEF DownStream
  <2> QED
    BY <1>1, <2>1 DEF CallInv, DownInv, ClientGone
<1>6. IdleInv(c)' /\ OutcomeInv(c)'
  BY <1>1 DEF CallInv, IdleInv, OutcomeInv
<1> QED
  BY <1>1, <1>3, <1>4, <1>5, <1>6 DEF Keeps, Same, NoRevival, CallInv

\* Where a handler is that has its header: the payload it takes is a part of the
\* frame, and if the CRC holds it is the request, and nothing is left.
LEMMA BodyRead ==
  ASSUME SessionInv, NEW c \in Call, server = "up", handler[c] = "body",
         NEW n \in SeenLengths(shead[c])
  PROVE  /\ client[c] # "idle" /\ req[c] \in Request /\ processed[c] = <<>>
         /\ upBuf[c] \in Seq(Byte) /\ Left(upBuf[c], n) \in Seq(Byte)
         /\ CrcHolds(shead[c], Taken(upBuf[c], n)) =>
              /\ Taken(upBuf[c], n) = Body(req[c])
              /\ \E j \in Nat :
                   /\ Len(Frame(req[c])) <= j /\ j <= Len(Frame(req[c])) /\ SentTo(c, j)
                   /\ Halves(Left(upBuf[c], n), Flow(upNet[c]),
                             Frame(req[c]), Len(Frame(req[c])), j)
<1> DEFINE r == req[c]
<1>1. client[c] # "idle" /\ ~ServerGone(c)
  BY HandlerHasClient DEF ServerGone
<1>2. /\ r \in Request /\ r \in Text /\ upBuf[c] \in Seq(Byte)
      /\ Flow(upNet[c]) \in Seq(Byte)
      /\ \E i, j \in Nat : UpStream(c, i, j)
  BY <1>1, UpShape
<1>3. PICK i \in Nat, j \in Nat : UpStream(c, i, j)
  BY <1>2
<1>4. /\ processed[c] = <<>>
      /\ i <= j /\ j <= Len(Frame(r)) /\ SentTo(c, j)
      /\ Halves(upBuf[c], Flow(upNet[c]), Frame(r), i, j)
      /\ \E b \in Nat : b < i /\ i <= b + 3 /\ shead[c] = Part(r, b, i)
  BY <1>3 DEF UpStream, ReadTo
<1>5. PICK b \in Nat : b < i /\ i <= b + 3 /\ shead[c] = Part(r, b, i)
  BY <1>4
<1>6. i <= Len(Frame(r))
  <2>1. Len(Frame(r)) \in Nat
    BY <1>2, FrameShape
  <2> DEFINE l == Len(Frame(r))
  <2>2. l \in Nat /\ i <= j /\ j <= l
    BY <1>4, <2>1
  <2> HIDE DEF l
  <2>3. i <= l
    BY <2>2
  <2> QED
    BY <2>3 DEF l
<1>7. n \in Nat /\ \A x : CrcHolds(shead[c], x) => b = 0
  <2> HIDE DEF r
  <2> QED
    BY <1>2, <1>5, <1>6, HeaderTaken
<1>8. Left(upBuf[c], n) \in Seq(Byte)
  BY <1>2, <1>7, ReadingShape
<1>9. ASSUME CrcHolds(shead[c], Taken(upBuf[c], n))
      PROVE  /\ Taken(upBuf[c], n) = Body(r)
             /\ Len(Frame(r)) <= j
             /\ Halves(Left(upBuf[c], n), Flow(upNet[c]), Frame(r), Len(Frame(r)), j)
  <2> HIDE DEF r
  <2>1. b = 0 /\ i \in 1 .. 3 /\ shead[c] = Part(r, 0, i)
    <3>1. b = 0
      BY <1>7, <1>9
    <3> QED
      BY <1>5, <3>1
  <2>2. PICK m \in Nat : /\ i <= m /\ m <= j /\ m <= Len(Frame(r))
                         /\ Taken(upBuf[c], n) = Part(r, i, m)
                         /\ Halves(Left(upBuf[c], n), Flow(upNet[c]), Frame(r), m, j)
    BY <1>2, <1>4, <1>7, ReadingPart
  <2>3. CrcHolds(Part(r, 0, i), Part(r, i, m))
    BY <1>9, <2>1, <2>2
  <2>4. m = Len(Frame(r)) /\ Part(r, i, m) = Body(r)
    BY <1>2, <2>1, <2>2, <2>3, CrcTells
  <2> QED
    BY <2>2, <2>4
<1> QED
  BY <1>1, <1>2, <1>4, <1>8, <1>9

\* The rest of the handler's iteration: it dies, or closes, or has the request whole and
\* sends the whole answer to a client that has none yet.
LEMMA HandleBodyKeeps ==
  ASSUME SessionInv, NEW c \in Call, HandleBody(c)
  PROVE  Keeps(c)
<1> USE DEF SessionInv
<1>0. PICK n \in SeenLengths(shead[c]) :
        /\ server = "up" /\ handler[c] = "body"
        /\ upBuf' = [upBuf EXCEPT ![c] = Left(@, n)]
        /\ \/ /\ server' = "assert" /\ UNCHANGED <<handler, processed, downNet>>
           \/ ~CrcHolds(shead[c], Taken(upBuf[c], n)) /\ Reject(c)
           \/ CrcHolds(shead[c], Taken(upBuf[c], n)) /\ Respond(c, Taken(upBuf[c], n))
        /\ UNCHANGED <<clientVars, shead, upNet, downBuf>>
  BY DEF HandleBody
<1> DEFINE got == Taken(upBuf[c], n)
           q == req[c]
           r == Response[q]
<1>1. /\ server = "up" /\ handler[c] = "body"
      /\ upBuf' = [upBuf EXCEPT ![c] = Left(@, n)]
      /\ UNCHANGED <<client, req, chead, res, shead, upNet, downBuf>>
  BY <1>0 DEF clientVars
<1>2. \/ /\ server' = "assert" /\ UNCHANGED <<handler, processed, downNet>>
      \/ CrcHolds(shead[c], got) = FALSE /\ Reject(c)
      \/ CrcHolds(shead[c], got) /\ Respond(c, got)
  BY <1>0 DEF CrcHolds
<1>3. /\ client[c] # "idle" /\ q \in Request /\ processed[c] = <<>>
      /\ upBuf[c] \in Seq(Byte) /\ Left(upBuf[c], n) \in Seq(Byte)
      /\ CrcHolds(shead[c], got) =>
           /\ got = Body(q)
           /\ \E j \in Nat :
                /\ Len(Frame(q)) <= j /\ j <= Len(Frame(q)) /\ SentTo(c, j)
                /\ Halves(Left(upBuf[c], n), Flow(upNet[c]), Frame(q), Len(Frame(q)), j)
  BY <1>1, BodyRead
<1> HIDE DEF got
<1>4. /\ upBuf' \in [Call -> Seq(Byte)] /\ upBuf'[c] = Left(upBuf[c], n)
      /\ \A d \in Call \ {c} : upBuf'[d] = upBuf[d]
  BY <1>1, <1>3 DEF SessionTypes
<1>5. client[c] # "done"
  <2>1. processed[c] = <<>>
    BY <1>3
  <2>2. <<>> # << Body(req[c]) >>
    OBVIOUS
  <2> QED
    BY <2>1, <2>2 DEF CallInv, OutcomeInv
<1>6. ~ClientGone(c) => downNet[c] = <<>> /\ downBuf[c] = <<>> /\ client[c] # "recv_body"
  BY <1>3 DEF CallInv, DownInv
<1>7. CASE server' = "assert" /\ UNCHANGED <<handler, processed, downNet>>
  <2>1. SessionTypes'
    BY <1>1, <1>4, <1>7 DEF SessionTypes, TypeOK
  <2>2. UpInv(c)'
    BY <1>7 DEF UpInv, ServerGone
  <2>3. DownInv(c)'
    BY <1>1, <1>6, <1>7 DEF DownInv, ClientGone
  <2>4. IdleInv(c)' /\ OutcomeInv(c)'
    BY <1>1, <1>3, <1>7 DEF CallInv, IdleInv, OutcomeInv
  <2> QED
    BY <1>1, <1>4, <1>7, <2>1, <2>2, <2>3, <2>4 DEF Keeps, Same, NoRevival, CallInv
<1>8. CASE Reject(c)
  <2>1. /\ handler'[c] = "closed" /\ UNCHANGED <<processed, server, downNet>>
        /\ \A d \in Call \ {c} : handler'[d] = handler[d]
    BY <1>8 DEF Reject, SessionTypes, TypeOK
  <2>2. SessionTypes'
    BY <1>1, <1>4, <1>8 DEF Reject, SessionTypes, TypeOK
  <2>3. UpInv(c)'
    BY <2>1 DEF UpInv, ServerGone
  <2>4. DownInv(c)'
    BY <1>1, <1>6, <2>1 DEF DownInv, ClientGone
  <2>5. IdleInv(c)' /\ OutcomeInv(c)'
    BY <1>1, <1>3, <2>1 DEF CallInv, IdleInv, OutcomeInv
  <2> QED
    BY <1>1, <1>4, <2>1, <2>2, <2>3, <2>4, <2>5 DEF Keeps, Same, NoRevival, CallInv
<1>9. CASE CrcHolds(shead[c], got) /\ Respond(c, got)
  <2>1. got = Body(q) /\ Answer(got) = r
    BY <1>3, <1>9, AnswerOfBody
  <2>2. /\ handler'[c] = "header" /\ processed'[c] = <<Body(q)>>
        /\ handler' = [handler EXCEPT ![c] = "header"]
        /\ DOMAIN processed' = Call
        /\ \A d \in Call \ {c} : handler'[d] = handler[d] /\ processed'[d] = processed[d]
    <3>1. handler' = [handler EXCEPT ![c] = "header"]
          /\ processed' = [processed EXCEPT ![c] = Append(@, got)]
      BY <1>9 DEF Respond
    <3>2. Append(processed[c], got) = <<Body(q)>>
      BY <1>3, <2>1
    <3> QED
      BY <3>1, <3>2 DEF SessionTypes, TypeOK
  <2>3. \/ server' # "up" /\ UNCHANGED downNet
        \/ r # Null /\ ClientGone(c) /\ UNCHANGED downNet /\ server' = "up"
        \/ /\ r # Null /\ ~ClientGone(c) /\ server' = "up"
           /\ downNet' = [downNet EXCEPT ![c] = @ \o << Header(r), Body(r) >>]
    BY <1>1, <1>9, <2>1 DEF Respond
  <2>4. server' \in {"up", "null", "pipe"}
    BY <1>1, <1>9 DEF Respond
  <2>5. ~ClientGone(c) /\ r # Null =>
          /\ downNet[c] \o << Header(r), Body(r) >> = << Header(r), Body(r) >>
          /\ << Header(r), Body(r) >> \in Seq(Seq(Byte))
          /\ Flow(<< Header(r), Body(r) >>) = Part(r, 0, Len(Frame(r)))
          /\ Len(Frame(r)) \in Nat
    <3> SUFFICES ASSUME ~ClientGone(c), r # Null
                 PROVE  /\ <<>> \o << Header(r), Body(r) >> = << Header(r), Body(r) >>
                        /\ << Header(r), Body(r) >> \in Seq(Seq(Byte))
                        /\ Flow(<< Header(r), Body(r) >>) = Part(r, 0, Len(Frame(r)))
                        /\ Len(Frame(r)) \in Nat
      BY <1>6
    <3> HIDE DEF r
    <3>1. r \in Text
      BY <1>3, AnswersAreText DEF r
    <3>2. Header(r) \in Seq(Byte) /\ Body(r) \in Seq(Byte) /\ Len(Frame(r)) \in Nat
      BY <3>1, HeaderShape, BodyShape, FrameShape
    <3>3. << Header(r), Body(r) >> \in Seq(Seq(Byte))
      BY <3>2
    <3>4. <<>> \o << Header(r), Body(r) >> = << Header(r), Body(r) >>
      OBVIOUS
    <3>5. Part(r, 0, Len(Frame(r))) = Header(r) \o Body(r)
      BY <3>1, PartNames
    <3>6. Flow(<< Header(r), Body(r) >>) = Header(r) \o Body(r)
      BY DEF Flow, Joined
    <3> QED
      BY <3>2, <3>3, <3>4, <3>5, <3>6
  <2>6. /\ downNet' \in [Call -> Seq(Seq(Byte))]
        /\ \A d \in Call \ {c} : downNet'[d] = downNet[d]
    <3> HIDE DEF r
    <3>1. downNet \in [Call -> Seq(Seq(Byte))]
      BY DEF SessionTypes
    <3>2. CASE UNCHANGED downNet
      BY <3>1, <3>2
    <3>3. CASE /\ r # Null /\ ~ClientGone(c)
               /\ downNet' = [downNet EXCEPT ![c] = @ \o << Header(r), Body(r) >>]
      <4> DEFINE new == << Header(r), Body(r) >>
      <4>1. downNet[c] \o new = new /\ new \in Seq(Seq(Byte))
        BY <2>5, <3>3
      <4>2. downNet' = [downNet EXCEPT ![c] = downNet[c] \o new]
        BY <3>3
      <4> HIDE DEF new
      <4>3. downNet' = [downNet EXCEPT ![c] = new]
        BY <4>1, <4>2
      <4> QED
        BY <3>1, <4>1, <4>3
    <3> QED
      BY <2>3, <3>2, <3>3
  <2>7. SessionTypes'
    <3> HIDE DEF q, r
    <3> QED
      BY <1>1, <1>4, <2>2, <2>4, <2>6 DEF SessionTypes, TypeOK
  <2>8. UpInv(c)'
    <3>1. PICK j \in Nat :
            /\ Len(Frame(q)) <= j /\ j <= Len(Frame(q)) /\ SentTo(c, j)
            /\ Halves(Left(upBuf[c], n), Flow(upNet[c]), Frame(q), Len(Frame(q)), j)
      BY <1>3, <1>9
    <3>2. Len(Frame(q)) \in Nat
      BY <1>3, AnswersAreText, FrameShape
    <3>3. ReadTo(c, Len(Frame(q)))'
      BY <1>1, <2>2 DEF ReadTo
    <3>4. SentTo(c, j)'
      BY <1>1, <3>1 DEF SentTo
    <3>5. UpStream(c, Len(Frame(q)), j)'
      BY <1>1, <1>4, <3>1, <3>3, <3>4 DEF UpStream
    <3>6. Len(upNet[c]) <= Sends(c) /\ Sends(c)' = Sends(c)
      BY <1>1, <1>3 DEF CallInv, UpInv, ServerGone, Sends
    <3> QED
      BY <1>1, <3>2, <3>5, <3>6 DEF UpInv
  <2>9. DownInv(c)'
    <3>1. ClientGone(c)' <=> ClientGone(c)
      BY <1>1 DEF ClientGone
    <3>2. CASE UNCHANGED downNet
      BY <1>1, <1>6, <3>1, <3>2 DEF DownInv
    <3>3. CASE /\ r # Null /\ ~ClientGone(c)
               /\ downNet' = [downNet EXCEPT ![c] = @ \o << Header(r), Body(r) >>]
      <4>1. downNet'[c] = << Header(r), Body(r) >> /\ Len(downNet'[c]) <= 2
        <5>1. downNet'[c] = << Header(r), Body(r) >>
          <6> HIDE DEF r
          <6> QED
            BY <2>5, <3>3 DEF SessionTypes
        <5>2. Len(<< Header(r), Body(r) >>) <= 2
          OBVIOUS
        <5> QED
          BY <5>1, <5>2
      <4>2. downBuf'[c] = <<>> /\ client'[c] # "recv_body" /\ r' = r
        BY <1>1, <1>6, <3>3
      <4>3. Halves(<<>>, Flow(downNet'[c]), Frame(r), 0, Len(Frame(r)))
        <5>1. Header(r) \o Body(r) \in Seq(Byte)
          BY <1>3, <3>3, AnswersAreText, HeaderShape, BodyShape, ConcatProperties
        <5>2. Flow(downNet'[c]) = Header(r) \o Body(r)
          BY <4>1 DEF Flow, Joined
        <5>3. Joined(<<>>, Header(r) \o Body(r)) = Header(r) \o Body(r)
          BY <5>1, JoinedFacts
        <5>4. Flow(downNet'[c]) = Part(r, 0, Len(Frame(r)))
          BY <2>5, <3>3, <4>1
        <5> QED
          BY <5>2, <5>3, <5>4 DEF Halves, Part
      <4>4. Len(Frame(r)) \in Nat
        BY <2>5, <3>3
      <4>5. DownStream(c, r, 0, Len(Frame(r)))'
        <5> DEFINE l == Len(Frame(r))
        <5>1. l \in Nat /\ l' = l /\ l <= Len(Frame(r))
          BY <1>1, <4>4
        <5>2. 0 <= l
          BY <4>4
        <5> QED
          BY <4>2, <4>3, <5>1, <5>2 DEF DownStream
      <4>6. processed'[c] # <<>> /\ Response[req'[c]] # Null
        BY <1>1, <2>2, <3>3
      <4> QED
        BY <1>1, <4>1, <4>4, <4>5, <4>6 DEF DownInv
    <3> QED
      BY <2>3, <3>2, <3>3
  <2>10. IdleInv(c)' /\ OutcomeInv(c)'
    BY <1>1, <1>3, <1>5, <2>2 DEF CallInv, IdleInv, OutcomeInv
  <2> QED
    BY <1>1, <1>4, <2>2, <2>6, <2>7, <2>8, <2>9, <2>10 DEF Keeps, Same, NoRevival, CallInv
<1> QED
  BY <1>2, <1>7, <1>8, <1>9

\* A handler without memory reads on where its header ended.
LEMMA SkipBodyKeeps ==
  ASSUME SessionInv, NEW c \in Call, SkipBody(c)
  PROVE  Keeps(c)
<1> USE DEF SessionInv
<1>1. /\ server = "up" /\ handler[c] = "body" /\ handler'[c] = "header"
      /\ UNCHANGED <<client, req, chead, res, shead, processed, server,
                     upNet, upBuf, downNet, downBuf>>
      /\ \A d \in Call \ {c} : handler'[d] = handler[d]
  BY DEF SkipBody, SessionTypes, TypeOK, clientVars, upVars, downVars
<1>2. SessionTypes'
  BY <1>1 DEF SkipBody, SessionTypes, TypeOK
<1>3. UpInv(c)'
  <2>1. UpInv(c) /\ ~ServerGone(c)
    BY <1>1 DEF CallInv, ServerGone
  <2>2. Sends(c)' = Sends(c)
    BY <1>1 DEF Sends
  <2>3. \A i, j \in Nat : UpStream(c, i, j) => UpStream(c, i, j)'
    BY <1>1 DEF UpStream, ReadTo, SentTo
  <2> QED
    BY <1>1, <2>1, <2>2, <2>3 DEF UpInv
<1>4. DownInv(c)'
  <2>1. \A r : \A i, j \in Nat : DownStream(c, r, i, j) => DownStream(c, r, i, j)'
    BY <1>1 DEF DownStream
  <2> QED
    BY <1>1, <2>1 DEF CallInv, DownInv, ClientGone
<1>5. client[c] # "idle" /\ IdleInv(c)' /\ OutcomeInv(c)'
  BY <1>1 DEF CallInv, IdleInv, OutcomeInv
<1> QED
  BY <1>1, <1>2, <1>3, <1>4, <1>5 DEF Keeps, Same, NoRevival, CallInv

\* Some of the oldest send's bytes arrive; no stream changes by it.
LEMMA ArriveShape ==
  ASSUME NEW n \in Seq(Seq(Byte)), NEW b \in Seq(Byte), n # <<>>,
         NEW k \in Pieces(Head(n))
  PROVE  /\ Rest(n, k) \in Seq(Seq(Byte)) /\ Joined(b, SubSeq(Head(n), 1, k)) \in Seq(Byte)
         /\ Len(n) <= 2 =>
              /\ Len(Rest(n, k)) <= Len(n)
              /\ Joined(Joined(b, SubSeq(Head(n), 1, k)), Flow(Rest(n, k)))
                   = Joined(b, Flow(n))
<1> DEFINE more == Joined(b, SubSeq(Head(n), 1, k))
<1>1. n \in Seq(Seq(Byte)) /\ b \in Seq(Byte) /\ n # <<>>
  OBVIOUS
<1>3. Head(n) \in Seq(Byte)
  <2> DEFINE Q == Seq(Byte)
  <2>1. n \in Seq(Q)
    BY <1>1
  <2> HIDE DEF Q
  <2>2. Head(n) \in Q
    BY <1>1, <2>1, HeadTailProperties
  <2> QED
    BY <2>2 DEF Q
<1>4. k \in Nat /\ k <= Len(Head(n))
  <2> DEFINE l == Len(Head(n))
  <2>1. l \in Nat
    BY <1>3, LenProperties
  <2>2. k \in {l} \cup 1 .. l
    BY DEF Pieces
  <2> HIDE DEF l
  <2>3. k \in Nat /\ k <= l
    BY <2>1, <2>2
  <2> QED
    BY <2>3 DEF l
<1>5. Rest(n, k) \in Seq(Seq(Byte))
  BY <1>1, <1>4, RestShape
<1>6. more \in Seq(Byte)
  <2>1. SubSeq(Head(n), 1, k) \in Seq(Byte)
    <3> DEFINE h == Head(n)
    <3>1. h \in Seq(Byte) /\ k <= Len(h) /\ SubSeq(h, 1, k) = Piece(h, 0, k)
      BY <1>3, <1>4 DEF Piece
    <3> HIDE DEF h
    <3>2. Piece(h, 0, k) \in Seq(Byte)
      <4>1. 0 \in Nat /\ 0 <= k
        BY <1>4
      <4> QED
        BY <1>4, <3>1, <4>1, PieceShape
    <3> QED
      BY <3>1, <3>2 DEF h
  <2> QED
    BY <1>1, <2>1, JoinedFacts
<1>7. ASSUME Len(n) <= 2
      PROVE  Len(Rest(n, k)) <= Len(n) /\ Joined(more, Flow(Rest(n, k))) = Joined(b, Flow(n))
  BY <1>1, <1>4, <1>7, FlowArrive
<1> QED
  BY <1>5, <1>6, <1>7

\* Bytes of the client arrive: they stay where they are in the stream.
LEMMA DeliverUpKeeps ==
  ASSUME SessionInv, NEW c \in Call, DeliverUp(c)
  PROVE  Keeps(c)
<1> USE DEF SessionInv
<1>1. PICK k \in Pieces(Head(upNet[c])) : Arrive(upNet, upBuf, c, k)
  BY DEF DeliverUp
<1>2. /\ upNet[c] # <<>>
      /\ UNCHANGED <<client, req, chead, res, handler, shead, processed, server,
                     downNet, downBuf>>
  BY DEF DeliverUp, clientVars, serverVars, downVars
<1>3. upNet \in [Call -> Seq(Seq(Byte))] /\ upBuf \in [Call -> Seq(Byte)]
  BY DEF SessionTypes
<1>4. /\ upBuf' = [upBuf EXCEPT ![c] = Joined(@, SubSeq(Head(upNet[c]), 1, k))]
      /\ upNet' = [upNet EXCEPT ![c] = Rest(@, k)]
  BY <1>1 DEF Arrive, Rest, Joined
<1>5. /\ upNet' \in [Call -> Seq(Seq(Byte))] /\ upBuf' \in [Call -> Seq(Byte)]
      /\ \A d \in Call \ {c} : upNet'[d] = upNet[d] /\ upBuf'[d] = upBuf[d]
      /\ Len(upNet[c]) <= 2 =>
           /\ Len(upNet'[c]) <= Len(upNet[c])
           /\ Joined(upBuf'[c], Flow(upNet'[c])) = Joined(upBuf[c], Flow(upNet[c]))
  <2> DEFINE n == upNet[c]
             b == upBuf[c]
             more == Joined(b, SubSeq(Head(n), 1, k))
  <2>1. n \in Seq(Seq(Byte)) /\ b \in Seq(Byte) /\ n # <<>> /\ k \in Pieces(Head(n))
    BY <1>2, <1>3
  <2>2. upNet'[c] = Rest(n, k) /\ upBuf'[c] = more
    BY <1>3, <1>4
  <2> HIDE DEF n, b
  <2>3. /\ Rest(n, k) \in Seq(Seq(Byte)) /\ more \in Seq(Byte)
        /\ Len(n) <= 2 => /\ Len(Rest(n, k)) <= Len(n)
                          /\ Joined(more, Flow(Rest(n, k))) = Joined(b, Flow(n))
    BY <2>1, ArriveShape
  <2> HIDE DEF more
  <2>4. upBuf' = [upBuf EXCEPT ![c] = more] /\ upNet' = [upNet EXCEPT ![c] = Rest(n, k)]
    BY <1>4 DEF more, n, b
  <2>5. /\ upNet' \in [Call -> Seq(Seq(Byte))] /\ upBuf' \in [Call -> Seq(Byte)]
        /\ \A d \in Call \ {c} : upNet'[d] = upNet[d] /\ upBuf'[d] = upBuf[d]
    BY <1>3, <2>3, <2>4
  <2> QED
    BY <2>2, <2>3, <2>5 DEF n, b
<1>6. SessionTypes'
  BY <1>2, <1>5 DEF SessionTypes, TypeOK
<1>7. client[c] # "idle"
  BY <1>2 DEF CallInv, IdleInv
<1>8. UpInv(c)'
  <2> SUFFICES ASSUME ~ServerGone(c)
               PROVE  Len(upNet'[c]) <= Sends(c)' /\ \E i, j \in Nat : UpStream(c, i, j)'
    BY <1>2 DEF UpInv, ServerGone
  <2>1. Len(upNet[c]) <= 2 /\ \E i, j \in Nat : UpStream(c, i, j)
    BY <1>7, UpShape
  <2>2. \A i, j \in Nat : UpStream(c, i, j) => UpStream(c, i, j)'
    BY <1>2, <1>5, <2>1 DEF UpStream, ReadTo, SentTo, Halves
  <2>3. Len(upNet'[c]) <= Sends(c)'
    <3> DEFINE l == Len(upNet[c])
               m == Sends(c)
               x == Len(upNet'[c])
    <3>1. l \in Nat /\ m \in Nat /\ x \in Nat /\ l <= m /\ x <= l
      BY <1>3, <1>5, <1>7, <2>1, NetShape DEF CallInv, UpInv, Sends
    <3>2. Sends(c)' = m
      BY <1>2 DEF Sends
    <3> HIDE DEF l, m, x
    <3>3. x <= m
      BY <3>1
    <3> QED
      BY <3>2, <3>3 DEF x
  <2> QED
    BY <2>1, <2>2, <2>3
<1>9. DownInv(c)'
  <2>1. \A r : \A i, j \in Nat : DownStream(c, r, i, j) => DownStream(c, r, i, j)'
    BY <1>2 DEF DownStream
  <2> QED
    BY <1>2, <2>1 DEF CallInv, DownInv, ClientGone
<1>10. IdleInv(c)' /\ OutcomeInv(c)'
  BY <1>2, <1>7 DEF CallInv, IdleInv, OutcomeInv
<1> QED
  BY <1>2, <1>5, <1>6, <1>8, <1>9, <1>10 DEF Keeps, Same, NoRevival, CallInv

\* Bytes of the handler arrive: they stay where they are in the stream.
LEMMA DeliverDownKeeps ==
  ASSUME SessionInv, NEW c \in Call, DeliverDown(c)
  PROVE  Keeps(c)
<1> USE DEF SessionInv
<1>1. PICK k \in Pieces(Head(downNet[c])) : Arrive(downNet, downBuf, c, k)
  BY DEF DeliverDown
<1>2. /\ downNet[c] # <<>>
      /\ UNCHANGED <<client, req, chead, res, handler, shead, processed, server,
                     upNet, upBuf>>
  BY DEF DeliverDown, clientVars, serverVars, upVars
<1>3. downNet \in [Call -> Seq(Seq(Byte))] /\ downBuf \in [Call -> Seq(Byte)]
  BY DEF SessionTypes
<1>4. /\ downBuf' = [downBuf EXCEPT ![c] = Joined(@, SubSeq(Head(downNet[c]), 1, k))]
      /\ downNet' = [downNet EXCEPT ![c] = Rest(@, k)]
  BY <1>1 DEF Arrive, Rest, Joined
<1>5. /\ downNet' \in [Call -> Seq(Seq(Byte))] /\ downBuf' \in [Call -> Seq(Byte)]
      /\ \A d \in Call \ {c} : downNet'[d] = downNet[d] /\ downBuf'[d] = downBuf[d]
      /\ Len(downNet[c]) <= 2 =>
           /\ Len(downNet'[c]) <= Len(downNet[c])
           /\ Joined(downBuf'[c], Flow(downNet'[c])) = Joined(downBuf[c], Flow(downNet[c]))
  <2> DEFINE n == downNet[c]
             b == downBuf[c]
             more == Joined(b, SubSeq(Head(n), 1, k))
  <2>1. n \in Seq(Seq(Byte)) /\ b \in Seq(Byte) /\ n # <<>> /\ k \in Pieces(Head(n))
    BY <1>2, <1>3
  <2>2. downNet'[c] = Rest(n, k) /\ downBuf'[c] = more
    BY <1>3, <1>4
  <2> HIDE DEF n, b
  <2>3. /\ Rest(n, k) \in Seq(Seq(Byte)) /\ more \in Seq(Byte)
        /\ Len(n) <= 2 => /\ Len(Rest(n, k)) <= Len(n)
                          /\ Joined(more, Flow(Rest(n, k))) = Joined(b, Flow(n))
    BY <2>1, ArriveShape
  <2> HIDE DEF more
  <2>4. downBuf' = [downBuf EXCEPT ![c] = more] /\ downNet' = [downNet EXCEPT ![c] = Rest(n, k)]
    BY <1>4 DEF more, n, b
  <2>5. /\ downNet' \in [Call -> Seq(Seq(Byte))] /\ downBuf' \in [Call -> Seq(Byte)]
        /\ \A d \in Call \ {c} : downNet'[d] = downNet[d] /\ downBuf'[d] = downBuf[d]
    BY <1>3, <2>3, <2>4
  <2> QED
    BY <2>2, <2>3, <2>5 DEF n, b
<1>6. SessionTypes'
  BY <1>2, <1>5 DEF SessionTypes, TypeOK
<1>7. client[c] # "idle"
  BY <1>2 DEF CallInv, IdleInv
<1>8. UpInv(c)'
  <2>1. /\ Sends(c)' = Sends(c) /\ (ServerGone(c)' <=> ServerGone(c))
        /\ \A i, j \in Nat : UpStream(c, i, j) => UpStream(c, i, j)'
    BY <1>2 DEF UpStream, ReadTo, SentTo, Sends, ServerGone
  <2> QED
    BY <1>2, <2>1 DEF CallInv, UpInv
<1>9. DownInv(c)'
  <2> SUFFICES ASSUME ~ClientGone(c)
               PROVE  /\ processed'[c] # <<>> /\ Response[req'[c]] # Null
                      /\ Len(downNet'[c]) <= 2
                      /\ \E i, j \in Nat : DownStream(c, Response[req[c]], i, j)'
    BY <1>2 DEF DownInv, ClientGone
  <2>1. /\ processed[c] # <<>> /\ Response[req[c]] # Null
        /\ Len(downNet[c]) <= 2
        /\ \E i, j \in Nat : DownStream(c, Response[req[c]], i, j)
    BY <1>2 DEF CallInv, DownInv
  <2>2. \A r : \A i, j \in Nat : DownStream(c, r, i, j) => DownStream(c, r, i, j)'
    BY <1>2, <1>5, <2>1 DEF DownStream, Halves
  <2>3. Len(downNet'[c]) <= 2
    <3> DEFINE l == Len(downNet[c])
               x == Len(downNet'[c])
    <3>1. l \in Nat /\ x \in Nat /\ l <= 2 /\ x <= l
      BY <1>3, <1>5, <2>1, NetShape
    <3> HIDE DEF l, x
    <3>2. x <= 2
      BY <3>1
    <3> QED
      BY <3>2 DEF x
  <2> QED
    BY <1>2, <2>1, <2>2, <2>3
<1>10. IdleInv(c)' /\ OutcomeInv(c)'
  BY <1>2, <1>7 DEF CallInv, IdleInv, OutcomeInv
<1> QED
  BY <1>2, <1>5, <1>6, <1>8, <1>9, <1>10 DEF Keeps, Same, NoRevival, CallInv

\* A reset loses what is on its way: the parts of the frames end where it arrived.
LEMMA ResetKeeps ==
  ASSUME SessionInv, NEW c \in Call, Reset(c)
  PROVE  Keeps(c)
<1> USE DEF SessionInv
<1>1. UNCHANGED <<client, req, chead, res, handler, shead, processed, server, upBuf, downBuf>>
  BY DEF Reset, clientVars, serverVars, upVars, downVars
<1>2. \/ /\ ClientGone(c) /\ upNet[c] # <<>> /\ UNCHANGED downNet
         /\ upNet' = [upNet EXCEPT ![c] = <<>>]
      \/ /\ ServerGone(c) /\ downNet[c] # <<>> /\ UNCHANGED upNet
         /\ downNet' = [downNet EXCEPT ![c] = <<>>]
  BY DEF Reset, upVars, downVars
<1>3. /\ upNet' \in [Call -> Seq(Seq(Byte))] /\ downNet' \in [Call -> Seq(Seq(Byte))]
      /\ \A d \in Call \ {c} : upNet'[d] = upNet[d] /\ downNet'[d] = downNet[d]
  <2>1. upNet \in [Call -> Seq(Seq(Byte))] /\ downNet \in [Call -> Seq(Seq(Byte))]
    BY DEF SessionTypes
  <2>2. <<>> \in Seq(Seq(Byte))
    OBVIOUS
  <2> QED
    BY <1>2, <2>1, <2>2
<1>4. SessionTypes'
  BY <1>1, <1>3 DEF SessionTypes, TypeOK
<1>5. IdleInv(c)' /\ OutcomeInv(c)'
  BY <1>1, <1>2 DEF CallInv, IdleInv, OutcomeInv
<1>6. (ClientGone(c)' <=> ClientGone(c)) /\ (ServerGone(c)' <=> ServerGone(c))
  BY <1>1 DEF ClientGone, ServerGone
<1>7. CASE /\ ClientGone(c) /\ upNet[c] # <<>> /\ UNCHANGED downNet
           /\ upNet' = [upNet EXCEPT ![c] = <<>>]
  <2>1. DownInv(c)'
    BY <1>6, <1>7 DEF DownInv
  <2>2. UpInv(c)'
    <3> SUFFICES ASSUME client[c] # "idle", ~ServerGone(c)
                 PROVE  Len(upNet'[c]) <= Sends(c)' /\ \E i, j \in Nat : UpStream(c, i, j)'
      BY <1>1, <1>6 DEF UpInv
    <3>1. upNet'[c] = <<>> /\ Sends(c)' = 2
      BY <1>1, <1>7 DEF SessionTypes, Sends, ClientGone
    <3>2. /\ req[c] \in Text /\ upBuf[c] \in Seq(Byte) /\ Flow(upNet[c]) \in Seq(Byte)
          /\ \E i, j \in Nat : UpStream(c, i, j)
      BY UpShape
    <3>3. PICK i \in Nat, j \in Nat : UpStream(c, i, j)
      BY <3>2
    <3> DEFINE s == Frame(req[c])
    <3>4. /\ i <= j /\ j <= Len(s) /\ ReadTo(c, i)
          /\ Halves(upBuf[c], Flow(upNet[c]), s, i, j)
      BY <3>3 DEF UpStream
    <3>5. s \in Seq(Byte)
      BY <3>2, FrameShape
    <3>6. PICK m \in Nat : i <= m /\ m <= Len(s) /\ Halves(upBuf[c], Flow(<<>>), s, i, m)
      <4> HIDE DEF s
      <4> QED
        BY <3>2, <3>4, <3>5, LosingPart
    <3>7. ReadTo(c, i)' /\ SentTo(c, m)'
      BY <1>1, <1>7, <3>4 DEF ReadTo, SentTo, ClientGone
    <3>8. UpStream(c, i, m)'
      BY <1>1, <3>1, <3>6, <3>7 DEF UpStream
    <3>9. Len(upNet'[c]) <= Sends(c)'
      BY <3>1
    <3> QED
      BY <3>6, <3>8, <3>9
  <2> QED
    BY <1>1, <1>3, <1>4, <1>5, <2>1, <2>2 DEF Keeps, Same, NoRevival, CallInv
<1>8. CASE /\ ServerGone(c) /\ downNet[c] # <<>> /\ UNCHANGED upNet
           /\ downNet' = [downNet EXCEPT ![c] = <<>>]
  <2>1. UpInv(c)'
    BY <1>6, <1>8 DEF UpInv
  <2>2. DownInv(c)'
    <3> SUFFICES ASSUME ~ClientGone(c)
                 PROVE  /\ processed'[c] # <<>> /\ Response[req'[c]] # Null
                        /\ Len(downNet'[c]) <= 2
                        /\ \E i, j \in Nat : DownStream(c, Response[req[c]], i, j)'
      BY <1>1, <1>6 DEF DownInv
    <3> DEFINE r == Response[req[c]]
    <3>1. downNet'[c] = <<>>
      BY <1>8 DEF SessionTypes
    <3>2. /\ processed[c] # <<>> /\ r # Null /\ Len(downNet[c]) <= 2
          /\ \E i, j \in Nat : DownStream(c, r, i, j)
      BY <1>8 DEF CallInv, DownInv
    <3>3. PICK i \in Nat, j \in Nat : DownStream(c, r, i, j)
      BY <3>2
    <3>4. r \in Text
      <4>1. client[c] # "idle"
        BY <1>8 DEF CallInv, IdleInv
      <4> QED
        BY <3>2, <4>1, AnswersAreText DEF CallInv, IdleInv
    <3>5. downBuf[c] \in Seq(Byte) /\ Flow(downNet[c]) \in Seq(Byte)
      BY <3>2, DownShape
    <3> DEFINE s == Frame(r)
    <3>6. /\ i <= j /\ j <= Len(s) /\ Halves(downBuf[c], Flow(downNet[c]), s, i, j)
          /\ IF client[c] = "recv_body"
             THEN i \in 1 .. 3 /\ chead[c] = Part(r, 0, i)
             ELSE i = 0
      BY <3>3 DEF DownStream
    <3>7. s \in Seq(Byte)
      BY <3>4, FrameShape
    <3>8. PICK m \in Nat : i <= m /\ m <= Len(s) /\ Halves(downBuf[c], Flow(<<>>), s, i, m)
      <4> HIDE DEF s
      <4> QED
        BY <3>5, <3>6, <3>7, LosingPart
    <3>9. r' = r
      BY <1>1
    <3> HIDE DEF r
    <3>10. DownStream(c, r, i, m)'
      BY <1>1, <3>1, <3>6, <3>8, <3>9 DEF DownStream
    <3>11. Len(downNet'[c]) <= 2
      BY <3>1
    <3> QED
      BY <1>1, <3>2, <3>8, <3>10, <3>11 DEF r
  <2> QED
    BY <1>1, <1>3, <1>4, <1>5, <2>1, <2>2 DEF Keeps, Same, NoRevival, CallInv
<1> QED
  BY <1>2, <1>7, <1>8

-------------------------------------------------------------------------------
(* The theorems *)

\* No call was made yet.
LEMMA InitSession == Init => SessionInv
<1> SUFFICES ASSUME Init PROVE SessionInv
  OBVIOUS
<1>1. SessionTypes
  BY DEF Init, SessionTypes, TypeOK, HeaderLength
<1>2. ASSUME NEW c \in Call PROVE CallInv(c)
  BY DEF Init, CallInv, IdleInv, UpInv, DownInv, OutcomeInv
<1> QED
  BY <1>1, <1>2 DEF SessionInv

\* One call's step keeps what held of all of them.
LEMMA KeepsAll ==
  ASSUME SessionInv, NEW c \in Call, Keeps(c)
  PROVE  SessionInv'
<1>1. ASSUME NEW d \in Call PROVE CallInv(d)'
  <2>1. CASE d = c
    BY <2>1 DEF Keeps
  <2>2. CASE d # c
    BY <2>2, SameKeeps DEF Keeps, SessionInv
  <2> QED
    BY <2>1, <2>2
<1> QED
  BY <1>1 DEF Keeps, SessionInv

\* The server's death changes nothing else.
LEMMA ListenerDiesKeeps ==
  ASSUME SessionInv, NEW c \in Call, ListenerDies(c)
  PROVE  SessionInv'
<1>1. /\ server' = "null"
      /\ UNCHANGED <<client, req, chead, res, handler, shead, processed,
                     upNet, upBuf, downNet, downBuf>>
  BY DEF ListenerDies, clientVars, upVars, downVars
<1>2. \A d \in Call : CallInv(d)'
  BY <1>1, SameKeeps DEF SessionInv, Same, NoRevival
<1>3. SessionTypes'
  BY <1>1 DEF SessionInv, SessionTypes, TypeOK
<1> QED
  BY <1>2, <1>3 DEF SessionInv

\* Every step keeps every call.
LEMMA StepSession == SessionInv /\ [Next]_vars => SessionInv'
<1> SUFFICES ASSUME SessionInv, [Next]_vars PROVE SessionInv'
  OBVIOUS
<1>1. ASSUME UNCHANGED vars PROVE SessionInv'
  <2>1. UNCHANGED <<client, req, chead, res, handler, shead, processed, upNet, upBuf,
                    downNet, downBuf, server>>
    BY <1>1 DEF vars, sessionVars, clientVars, serverVars, upVars, downVars
  <2>2. \A c \in Call : CallInv(c)'
    BY <2>1, SameKeeps DEF SessionInv, Same, NoRevival
  <2>3. SessionTypes'
    BY <2>1 DEF SessionInv, SessionTypes, TypeOK
  <2> QED
    BY <2>2, <2>3 DEF SessionInv
<1>2. ASSUME NEW c \in Call, NEW t \in Request, Connect(c, t) PROVE SessionInv'
  BY <1>2, ConnectKeeps, KeepsAll
<1>3. ASSUME NEW c \in Call, ClientStep(c) PROVE SessionInv'
  <2>1. PayloadFails(c) => client[c] # "idle" /\ Dies(c)
    BY DEF PayloadFails
  <2> QED
    BY <1>3, <2>1, SendHeaderKeeps, SendBodyKeeps, RecvHeaderKeeps, RecvBodyKeeps,
       DiesKeeps, KeepsAll DEF ClientStep
<1>4. ASSUME NEW c \in Call, Crash(c) PROVE SessionInv'
  <2>1. client[c] # "idle" /\ Dies(c)
    BY <1>4 DEF Crash
  <2> QED
    BY <2>1, DiesKeeps, KeepsAll
<1>5. ASSUME NEW c \in Call, ServerStep(c) PROVE SessionInv'
  BY <1>5, AcceptKeeps, ListenerDiesKeeps, HandleHeaderKeeps, HandleBodyKeeps,
     SkipBodyKeeps, KeepsAll DEF ServerStep
<1>6. ASSUME NEW c \in Call, Deliver(c) PROVE SessionInv'
  BY <1>6, DeliverUpKeeps, DeliverDownKeeps, KeepsAll DEF Deliver
<1>7. ASSUME NEW c \in Call, Reset(c) PROVE SessionInv'
  BY <1>7, ResetKeeps, KeepsAll
<1> QED
  BY <1>1, <1>2, <1>3, <1>4, <1>5, <1>6, <1>7 DEF Next, Finished

\* Streams, places and outcomes stay in step, whatever the network and the processes do.
THEOREM SessionIsInvariant == Spec => []SessionInv
<1> QED
  BY InitSession, StepSession, PTL DEF Spec

\* The types of TypeOK.
THEOREM SessionTypeCorrect == Spec => []TypeOK
<1>1. SessionInv => TypeOK
  BY DEF SessionInv, SessionTypes
<1> QED
  BY <1>1, SessionIsInvariant, PTL

\* rpc_process is only ever given the whole request of the connection's client, and at
\* most once: no cut, loss, death or length that does not fit makes it take anything else.
THEOREM OnlyRequestsProcessed == Spec => []ProcessedIsRequest
<1>1. SessionInv => ProcessedIsRequest
  BY DEF SessionInv, CallInv, OutcomeInv, ProcessedIsRequest
<1> QED
  BY <1>1, SessionIsInvariant, PTL

\* rpc_client_session returns nothing but the whole answer to its own request.
THEOREM OnlyAnswersReturned == Spec => []ResultIsAnswer
<1>1. SessionInv => ResultIsAnswer
  BY DEF SessionInv, CallInv, OutcomeInv, ResultIsAnswer
<1> QED
  BY <1>1, SessionIsInvariant, PTL

-------------------------------------------------------------------------------
(* Ordinary calls *)

\* The sends of a frame that are on their way when a of s arrived.
OnTheWay(t, a, s) ==
  CASE a = s           -> <<>>
    [] a = 0 /\ s = 1 -> <<Header(t)>>
    [] a = 0 /\ s = 2 -> <<Header(t), Body(t)>>
    [] OTHER           -> <<Body(t)>>

\* Where a send ends in the frame.
At(t, n) == CASE n = 0 -> 0 [] n = 1 -> 3 [] OTHER -> Len(Frame(t))

\* A stream in which sends arrive whole: r of them are read, a arrived, s were sent.
WholeStream(t, net, buf, r, a, s) ==
  /\ r <= a /\ a <= s
  /\ net = OnTheWay(t, a, s)
  /\ buf = Part(t, At(t, r), At(t, a))

\* How many sends the handler has read, and how many the client has made.
ChunksRead(c, r) ==
  \/ handler[c] \in {"none", "header"} /\ processed[c] = <<>> /\ r = 0
  \/ handler[c] = "body" /\ processed[c] = <<>> /\ shead[c] = Header(req[c]) /\ r = 1
  \/ handler[c] = "header" /\ processed[c] = <<Body(req[c])>> /\ r = 2

UpWhole(c) ==
  \E r, a \in 0 .. 2 :
    ChunksRead(c, r) /\ WholeStream(req[c], upNet[c], upBuf[c], r, a, Sends(c))

\* How many sends of the answer the client has read; both were made.
AnswerRead(c, r) ==
  IF client[c] = "recv_body" THEN chead[c] = Header(Response[req[c]]) /\ r = 1 ELSE r = 0

DownWhole(c) ==
  \E r, a \in 0 .. 2 :
    AnswerRead(c, r) /\ WholeStream(Response[req[c]], downNet[c], downBuf[c], r, a, 2)

\* An ordinary call: nobody has died, a handler closes only after the answer was read,
\* and both streams are whole.
CalmCall(c) ==
  /\ client[c] \notin {"dead", "abort"}
  /\ handler[c] = "closed" => client[c] = "done"
  /\ client[c] # "idle" /\ handler[c] # "closed" => UpWhole(c)
  /\ ~ClientGone(c) /\ processed[c] # <<>> => DownWhole(c)

CalmInv == Ordinary => server = "up" /\ \A c \in Call : CalmCall(c)

\* Two digits tell a length that fits.
LEMMA DigitsTell ==
  ASSUME NEW t \in Text, Fits(t)
  PROVE  SentLength(Header(t)) = Length[t]
<1> DEFINE l == Length[t]
<1>1. l \in Nat /\ Base \in Nat \ {0, 1} /\ l < Base * Base
  BY SessionAssumption DEF Fits
<1>2. SentLength(Header(t)) = (l % Base) + Base * ((l \div Base) % Base)
  BY DEF SentLength, Digit, Header
<1> HIDE DEF l
<1>3. /\ l \div Base \in Nat /\ l % Base \in 0 .. Base - 1
      /\ l = Base * (l \div Base) + (l % Base)
  BY <1>1
<1>4. l \div Base < Base
  <2> SUFFICES ASSUME l \div Base >= Base PROVE FALSE
    BY <1>1, <1>3
  <2>1. Base * (l \div Base) >= Base * Base
    BY <1>1, <1>3
  <2> QED
    BY <1>1, <1>3, <2>1
<1>5. (l \div Base) % Base = l \div Base
  BY <1>1, <1>3, <1>4
<1>6. (l % Base) + Base * (l \div Base) = l
  BY <1>1, <1>3
<1> QED
  BY <1>2, <1>5, <1>6 DEF l

\* Where sends end.
LEMMA AtShape ==
  ASSUME NEW t \in Text
  PROVE  /\ At(t, 0) = 0 /\ At(t, 1) = 3 /\ At(t, 2) = Len(Frame(t))
         /\ Len(Frame(t)) \in Nat /\ 3 < Len(Frame(t))
<1>1. Len(Frame(t)) = 3 + Length[t] /\ Length[t] \in Nat \ {0}
  BY FrameShape, BodyShape
<1> QED
  BY <1>1 DEF At

\* Nothing is left to read exactly when all that arrived was read.
LEMMA WholeEmpty ==
  ASSUME NEW t \in Text, NEW net, NEW buf, NEW r \in 0 .. 2, NEW a \in 0 .. 2, NEW s \in 0 .. 2,
         WholeStream(t, net, buf, r, a, s)
  PROVE  buf = <<>> <=> r = a
<1> DEFINE i == At(t, r)
           j == At(t, a)
<1>1. /\ i \in Nat /\ j \in Nat /\ i <= j /\ j <= Len(Frame(t))
      /\ (r = a <=> i = j)
  BY AtShape DEF WholeStream
<1>2. Frame(t) \in Seq(Byte)
  BY FrameShape
<1>3. buf = Piece(Frame(t), i, j)
  BY DEF WholeStream, Part
<1> HIDE DEF i, j
<1>4. Len(buf) = j - i
  BY <1>1, <1>2, <1>3, PieceShape
<1>5. i = j => buf = <<>>
  BY <1>1, <1>2, <1>3, PieceWhole
<1>6. buf = <<>> => i = j
  <2> SUFFICES ASSUME buf = <<>> PROVE i = j
    OBVIOUS
  <2>1. 0 = j - i
    BY <1>4
  <2> QED
    BY <1>1, <2>1
<1> QED
  BY <1>1, <1>5, <1>6

\* One send behind another.
LEMMA AppendPair ==
  ASSUME NEW a, NEW b
  PROVE  Append(<<a>>, b) = <<a, b>>
<1>1. Append(<<a>>, b) \in Seq({a, b}) /\ <<a, b>> \in Seq({a, b})
  OBVIOUS
<1>2. Len(Append(<<a>>, b)) = 2 /\ Len(<<a, b>>) = 2
  OBVIOUS
<1>3. \A i \in 1 .. 2 : Append(<<a>>, b)[i] = <<a, b>>[i]
  OBVIOUS
<1> QED
  BY <1>1, <1>2, <1>3, SeqEqual

\* The next send.
LEMMA WholeSend ==
  ASSUME NEW t \in Text, NEW net, NEW buf, NEW r \in 0 .. 2, NEW a \in 0 .. 2, NEW s \in {0, 1},
         WholeStream(t, net, buf, r, a, s)
  PROVE  WholeStream(t, Append(net, IF s = 0 THEN Header(t) ELSE Body(t)), buf, r, a, s + 1)
<1>1. a \in {0, 1} /\ (s = 0 => a = 0) /\ s + 1 \in {1, 2} /\ a # s + 1 /\ a <= s + 1
  BY DEF WholeStream
<1>2. net = OnTheWay(t, a, s) /\ r <= a /\ buf = Part(t, At(t, r), At(t, a))
  BY DEF WholeStream
<1>3. CASE s = 0
  <2>1. OnTheWay(t, a, s) = <<>> /\ OnTheWay(t, a, s + 1) = <<Header(t)>>
    BY <1>1, <1>3 DEF OnTheWay
  <2>2. Append(<<>>, Header(t)) = <<Header(t)>>
    OBVIOUS
  <2>3. Append(net, Header(t)) = OnTheWay(t, a, s + 1)
    BY <1>2, <2>1, <2>2
  <2> QED
    BY <1>1, <1>2, <1>3, <2>3 DEF WholeStream
<1>4. CASE s = 1 /\ a = 0
  <2>1. OnTheWay(t, a, s) = <<Header(t)>> /\ OnTheWay(t, a, s + 1) = <<Header(t), Body(t)>>
    BY <1>4 DEF OnTheWay
  <2>2. Append(<<Header(t)>>, Body(t)) = <<Header(t), Body(t)>>
    BY AppendPair
  <2>3. Append(net, Body(t)) = OnTheWay(t, a, s + 1)
    BY <1>2, <2>1, <2>2
  <2> QED
    BY <1>1, <1>2, <1>4, <2>3 DEF WholeStream
<1>5. CASE s = 1 /\ a = 1
  <2>1. OnTheWay(t, a, s) = <<>> /\ OnTheWay(t, a, s + 1) = <<Body(t)>>
    BY <1>5 DEF OnTheWay
  <2>2. Append(<<>>, Body(t)) = <<Body(t)>>
    OBVIOUS
  <2>3. Append(net, Body(t)) = OnTheWay(t, a, s + 1)
    BY <1>2, <2>1, <2>2
  <2> QED
    BY <1>1, <1>2, <1>5, <2>3 DEF WholeStream
<1> QED
  BY <1>1, <1>3, <1>4, <1>5

\* A send arrives whole.
LEMMA WholeArrive ==
  ASSUME NEW t \in Text, NEW net, NEW buf, NEW r \in 0 .. 2, NEW a \in 0 .. 2, NEW s \in 0 .. 2,
         WholeStream(t, net, buf, r, a, s), net # <<>>, NEW k, k = Len(Head(net))
  PROVE  /\ a + 1 \in 0 .. 2
         /\ WholeStream(t, Rest(net, k), Joined(buf, SubSeq(Head(net), 1, k)), r, a + 1, s)
<1>1. a \in {0, 1} /\ a + 1 <= s
  BY DEF WholeStream, OnTheWay
<1> DEFINE chunk == IF a = 0 THEN Header(t) ELSE Body(t)
<1>2. Head(net) = chunk /\ Tail(net) = OnTheWay(t, a + 1, s)
  BY <1>1 DEF WholeStream, OnTheWay
<1>3. chunk \in Seq(Byte) /\ chunk = Part(t, At(t, a), At(t, a + 1))
  BY <1>1, HeaderShape, BodyShape, PartNames, AtShape
<1>4. SubSeq(Head(net), 1, k) = chunk
  <2> HIDE DEF chunk
  <2> QED
    BY <1>2, <1>3, SubSeqFull
<1>5. Rest(net, k) = OnTheWay(t, a + 1, s)
  BY <1>2 DEF Rest
<1>6. Joined(buf, chunk) = Part(t, At(t, r), At(t, a + 1))
  <2> DEFINE x == At(t, r)
             y == At(t, a)
             z == At(t, a + 1)
             f == Frame(t)
  <2>1. /\ x \in Nat /\ y \in Nat /\ z \in Nat /\ x <= y /\ y <= z /\ z <= Len(f)
    BY <1>1, AtShape DEF WholeStream
  <2>2. f \in Seq(Byte)
    BY FrameShape
  <2>3. buf = Piece(f, x, y) /\ chunk = Piece(f, y, z)
    BY <1>3 DEF WholeStream, Part
  <2> HIDE DEF x, y, z, f, chunk
  <2>4. Joined(Piece(f, x, y), Piece(f, y, z)) = Piece(f, x, z)
    BY <2>1, <2>2, PieceJoin
  <2> QED
    BY <2>3, <2>4 DEF x, z, f, Part
<1>7. a + 1 \in 0 .. 2 /\ r <= a + 1
  BY <1>1 DEF WholeStream
<1> HIDE DEF chunk
<1>8. Joined(buf, SubSeq(Head(net), 1, k)) = Part(t, At(t, r), At(t, a + 1))
  BY <1>4, <1>6
<1> QED
  BY <1>1, <1>5, <1>7, <1>8 DEF WholeStream

\* The recv of the header takes the first send.
LEMMA WholeHeader ==
  ASSUME NEW t \in Text, NEW net, NEW buf, NEW a \in 0 .. 2, NEW s \in 0 .. 2,
         WholeStream(t, net, buf, 0, a, s), buf # <<>>
  PROVE  Taken(buf, 3) = Header(t) /\ WholeStream(t, net, Left(buf, 3), 1, a, s)
<1>1. a \in {1, 2}
  BY WholeEmpty
<1> DEFINE j == At(t, a)
           f == Frame(t)
<1>2. j \in Nat /\ 3 <= j /\ j <= Len(f)
  BY <1>1, AtShape
<1>3. buf = Piece(f, 0, j)
  BY AtShape DEF WholeStream, Part
<1>4. f \in Seq(Byte)
  BY FrameShape
<1> HIDE DEF j, f
<1>5. Len(buf) = j
  <2> DEFINE z == 0
  <2>1. z \in Nat /\ z <= j /\ j - z = j
    BY <1>2
  <2> HIDE DEF z
  <2>2. Len(Piece(f, z, j)) = j - z
    BY <1>2, <1>4, <2>1, PieceShape
  <2> QED
    BY <1>3, <2>1, <2>2 DEF z
<1>6. Least(3, Len(buf)) = 3
  BY <1>2, <1>5 DEF Least
<1>7. Taken(buf, 3) = Piece(buf, 0, 3) /\ Left(buf, 3) = Piece(buf, 3, j)
  BY <1>5, <1>6 DEF Taken, Left, Piece
<1>8. Piece(Piece(f, 0, j), 0, 3) = Piece(f, 0, 3) /\ Piece(Piece(f, 0, j), 3, j) = Piece(f, 3, j)
  <2> DEFINE z == 0
             h == 3
  <2>1. /\ z \in Nat /\ h \in Nat /\ z <= h /\ z <= j /\ h <= j /\ j <= j - z /\ h <= j - z
        /\ z + z = z /\ z + h = h /\ z + j = j
    BY <1>2
  <2> HIDE DEF z, h
  <2>2. Piece(Piece(f, z, j), z, h) = Piece(f, z + z, z + h)
    BY <1>2, <1>4, <2>1, PieceOfPiece
  <2>3. Piece(Piece(f, z, j), h, j) = Piece(f, z + h, z + j)
    BY <1>2, <1>4, <2>1, PieceOfPiece
  <2> QED
    BY <2>1, <2>2, <2>3 DEF z, h
<1>9. Taken(buf, 3) = Header(t)
  BY <1>3, <1>7, <1>8, PartNames DEF Part, f
<1>10. Left(buf, 3) = Part(t, At(t, 1), At(t, a))
  BY <1>3, <1>7, <1>8, AtShape DEF Part, f, j
<1> QED
  BY <1>1, <1>9, <1>10 DEF WholeStream

\* The recv of the payload takes the second send.
LEMMA WholeBody ==
  ASSUME NEW t \in Text, Fits(t), NEW net, NEW buf, NEW a \in 0 .. 2, NEW s \in 0 .. 2,
         WholeStream(t, net, buf, 1, a, s), buf # <<>>
  PROVE  /\ a = 2 /\ Taken(buf, SentLength(Header(t))) = Body(t)
         /\ Len(Body(t)) = SentLength(Header(t)) /\ CrcHolds(Header(t), Body(t))
         /\ WholeStream(t, net, Left(buf, SentLength(Header(t))), 2, 2, s)
<1> DEFINE l == Length[t]
           b == Body(t)
<1>1. a = 2
  BY WholeEmpty DEF WholeStream
<1>2. buf = b
  BY <1>1, AtShape, PartNames DEF WholeStream
<1>3. SentLength(Header(t)) = l /\ l \in Nat \ {0} /\ b \in Seq(Byte) /\ Len(b) = l
  BY DigitsTell, BodyShape
<1>4. CrcHolds(Header(t), b)
  BY DEF CrcHolds, Header
<1> HIDE DEF l, b
<1>5. Least(l, l) = l
  BY <1>3 DEF Least
<1>6. Taken(b, l) = b
  BY <1>3, <1>5, SubSeqFull DEF Taken
<1>7. Left(b, l) = <<>>
  <2>1. Left(b, l) = SubSeq(b, l + 1, l)
    BY <1>3, <1>5 DEF Left
  <2>2. l + 1 \in Int /\ l \in Int /\ l < l + 1
    BY <1>3
  <2> QED
    BY <2>1, <2>2, SubSeqEmpty
<1>8. Part(t, At(t, 2), At(t, 2)) = <<>>
  BY AtShape, PartNames
<1>9. WholeStream(t, net, <<>>, 2, 2, s)
  BY <1>1, <1>8 DEF WholeStream
<1> QED
  BY <1>1, <1>2, <1>3, <1>4, <1>6, <1>7, <1>9 DEF b

\* What is known of a call that was made while everything is ordinary.
LEMMA OrdinaryCall ==
  ASSUME SessionInv, Ordinary, NEW c \in Call, client[c] # "idle"
  PROVE  /\ req[c] \in Request /\ req[c] \in Text /\ Fits(req[c])
         /\ Response[req[c]] # Null /\ Response[req[c]] \in Text /\ Fits(Response[req[c]])
<1>1. req[c] \in Request
  BY DEF SessionInv, CallInv, IdleInv
<1>2. req[c] \in Text /\ req[c] # Null
  BY <1>1, SessionAssumption DEF Text
<1>3. Fits(req[c]) /\ Response[req[c]] # Null /\ Fits(Response[req[c]])
  BY <1>2 DEF Ordinary
<1> QED
  BY <1>1, <1>2, <1>3, AnswersAreText

\* connect: the server lives, and nothing is on the way yet.
LEMMA ConnectCalm ==
  ASSUME SessionInv, server = "up", NEW c \in Call, NEW t \in Request, Connect(c, t)
  PROVE  server' = "up" /\ CalmCall(c)'
<1>1. /\ client[c] = "idle" /\ client'[c] = "send_header" /\ req'[c] = t
      /\ UNCHANGED <<handler, shead, processed, server, upNet, upBuf>>
  BY DEF Connect, SessionInv, SessionTypes, TypeOK, serverVars, upVars
<1>2. handler[c] = "none" /\ processed[c] = <<>> /\ upNet[c] = <<>> /\ upBuf[c] = <<>>
  BY <1>1 DEF SessionInv, CallInv, IdleInv
<1>3. WholeStream(t, <<>>, <<>>, 0, 0, 0)
  <2>1. Part(t, 0, 0) = <<>> /\ At(t, 0) = 0
    BY AnswersAreText, PartNames, AtShape
  <2> QED
    BY <2>1 DEF WholeStream, OnTheWay
<1>4. Sends(c)' = 0 /\ ChunksRead(c, 0)'
  BY <1>1, <1>2 DEF Sends, ChunksRead
<1>5. UpWhole(c)'
  BY <1>1, <1>2, <1>3, <1>4 DEF UpWhole
<1> QED
  BY <1>1, <1>2, <1>5 DEF CalmCall

\* A send: the handler has not closed, so the bytes go on their way in one piece.
LEMMA SendCalm ==
  ASSUME SessionInv, Ordinary, server = "up", NEW c \in Call, CalmCall(c),
         NEW s \in {0, 1}, NEW bytes, NEW next, Send(c, bytes, next),
         s = 0 => /\ client[c] = "send_header" /\ next = "send_body"
                  /\ bytes = Header(req[c]),
         s = 1 => /\ client[c] = "send_body" /\ next = "recv_header"
                  /\ bytes = Body(req[c])
  PROVE  server' = "up" /\ CalmCall(c)'
<1>1. client[c] \in {"send_header", "send_body"} /\ next \in {"send_body", "recv_header"}
  OBVIOUS
<1>2. handler[c] # "closed" /\ ~ServerGone(c)
  BY <1>1 DEF CalmCall, ServerGone
<1>3. /\ client'[c] = next /\ upNet'[c] = Append(upNet[c], bytes)
      /\ UNCHANGED <<req, chead, handler, shead, processed, server, upBuf, downNet, downBuf>>
  BY <1>2 DEF Send, SessionInv, SessionTypes, TypeOK, serverVars, downVars
<1>4. req[c] \in Text
  BY <1>1, OrdinaryCall
<1>5. UpWhole(c)'
  <2>1. Sends(c) = s /\ Sends(c)' = s + 1
    BY <1>1, <1>3 DEF Sends
  <2>2. PICK r \in 0 .. 2, a \in 0 .. 2 :
          ChunksRead(c, r) /\ WholeStream(req[c], upNet[c], upBuf[c], r, a, s)
    BY <1>1, <1>2, <2>1 DEF CalmCall, UpWhole
  <2>3. WholeStream(req[c], Append(upNet[c], IF s = 0 THEN Header(req[c]) ELSE Body(req[c])),
                    upBuf[c], r, a, s + 1)
    BY <1>4, <2>2, WholeSend
  <2>4. bytes = IF s = 0 THEN Header(req[c]) ELSE Body(req[c])
    OBVIOUS
  <2>5. WholeStream(req[c], upNet[c], upBuf[c], r, a, s + 1)'
    BY <1>3, <2>3, <2>4 DEF WholeStream, OnTheWay, At, Part
  <2>6. ChunksRead(c, r)'
    BY <1>3, <2>2 DEF ChunksRead
  <2> QED
    BY <2>1, <2>5, <2>6 DEF UpWhole
<1>6. processed[c] # <<>> => DownWhole(c)'
  <2>1. processed[c] # <<>> => DownWhole(c)
    BY <1>1 DEF CalmCall, ClientGone
  <2>2. \A r : AnswerRead(c, r) <=> AnswerRead(c, r)'
    BY <1>1, <1>3 DEF AnswerRead
  <2> QED
    BY <1>3, <2>1, <2>2 DEF DownWhole
<1> QED
  BY <1>1, <1>2, <1>3, <1>5, <1>6 DEF CalmCall

\* While its client is there the handler is, too; a client that waits for the answer
\* and may read has bytes to read.
LEMMA AnswerThere ==
  ASSUME SessionInv, Ordinary, server = "up", NEW c \in Call, CalmCall(c),
         client[c] \in {"recv_header", "recv_body"}, DownReadable(c)
  PROVE  downBuf[c] # <<>> /\ DownWhole(c)
<1>1. ~ClientGone(c) /\ ~ServerGone(c)
  BY DEF CalmCall, ClientGone, ServerGone
<1>2. downBuf[c] # <<>>
  BY <1>1 DEF DownReadable, DownEnded
<1>3. processed[c] # <<>>
  BY <1>1, <1>2 DEF SessionInv, CallInv, DownInv
<1> QED
  BY <1>1, <1>2, <1>3 DEF CalmCall

\* What the client reads does not concern the way up.
LEMMA UpStays ==
  ASSUME NEW c \in Call, CalmCall(c), Sends(c)' = Sends(c), client[c] # "idle",
         req'[c] = req[c], handler'[c] = handler[c], shead'[c] = shead[c],
         processed'[c] = processed[c], upNet'[c] = upNet[c], upBuf'[c] = upBuf[c]
  PROVE  handler'[c] # "closed" => UpWhole(c)'
<1>1. \A r : ChunksRead(c, r) <=> ChunksRead(c, r)'
  BY DEF ChunksRead
<1> QED
  BY <1>1 DEF CalmCall, UpWhole

\* The client's recv of the header reads the whole header.
LEMMA RecvHeaderCalm ==
  ASSUME SessionInv, Ordinary, server = "up", NEW c \in Call, CalmCall(c), RecvHeader(c)
  PROVE  server' = "up" /\ CalmCall(c)'
<1>1. client[c] = "recv_header" /\ DownReadable(c)
  BY DEF RecvHeader
<1>2. downBuf[c] # <<>> /\ DownWhole(c)
  BY <1>1, AnswerThere
<1>3. /\ client'[c] = "recv_body" /\ chead'[c] = Taken(downBuf[c], 3)
      /\ downBuf'[c] = Left(downBuf[c], 3)
      /\ UNCHANGED <<req, handler, shead, processed, server, upNet, upBuf, downNet>>
  BY <1>2 DEF RecvHeader, HeaderLength, SessionInv, SessionTypes, TypeOK, serverVars, upVars
<1> DEFINE t == Response[req[c]]
<1>4. t \in Text
  BY <1>1, OrdinaryCall
<1>5. PICK r \in 0 .. 2, a \in 0 .. 2 :
        AnswerRead(c, r) /\ WholeStream(t, downNet[c], downBuf[c], r, a, 2)
  BY <1>2 DEF DownWhole
<1>6. r = 0
  BY <1>1, <1>5 DEF AnswerRead
<1> HIDE DEF t
<1>7. WholeStream(t, downNet[c], downBuf[c], 0, a, 2)
  BY <1>5, <1>6
<1>8. /\ Taken(downBuf[c], 3) = Header(t)
      /\ WholeStream(t, downNet[c], Left(downBuf[c], 3), 1, a, 2)
  BY <1>2, <1>4, <1>7, WholeHeader
<1>9. DownWhole(c)'
  <2>1. AnswerRead(c, 1)'
    BY <1>3, <1>8 DEF AnswerRead, t
  <2>2. WholeStream(Response[req[c]], downNet[c], downBuf[c], 1, a, 2)'
    BY <1>3, <1>8 DEF t
  <2> QED
    BY <2>1, <2>2 DEF DownWhole
<1>10. Sends(c)' = Sends(c)
  BY <1>1, <1>3 DEF Sends
<1>11. handler[c] # "closed"
  BY <1>1 DEF CalmCall
<1> QED
  BY <1>1, <1>3, <1>9, <1>10, <1>11, UpStays DEF CalmCall

\* The client's recv of the payload reads the whole payload, and the call returns.
LEMMA RecvBodyCalm ==
  ASSUME SessionInv, Ordinary, server = "up", NEW c \in Call, CalmCall(c), RecvBody(c)
  PROVE  server' = "up" /\ CalmCall(c)'
<1> DEFINE t == Response[req[c]]
           n == SentLength(chead[c])
           got == Taken(downBuf[c], n)
<1>1. client[c] = "recv_body" /\ (n = 0 \/ DownReadable(c))
  BY DEF RecvBody
<1>2. t \in Text /\ Fits(t)
  BY <1>1, OrdinaryCall
<1>3. processed[c] # <<>> /\ ~ClientGone(c)
  BY <1>1 DEF SessionInv, CallInv, DownInv, ClientGone
<1>4. PICK r \in 0 .. 2, a \in 0 .. 2 :
        AnswerRead(c, r) /\ WholeStream(t, downNet[c], downBuf[c], r, a, 2)
  BY <1>3 DEF DownWhole, CalmCall
<1>5. r = 1 /\ chead[c] = Header(t)
  BY <1>1, <1>4 DEF AnswerRead
<1> HIDE DEF t
<1>6. n # 0
  <2>1. SentLength(Header(t)) = Length[t] /\ Length[t] \in Nat \ {0}
    BY <1>2, DigitsTell, BodyShape
  <2> QED
    BY <1>5, <2>1
<1>7. downBuf[c] # <<>>
  BY <1>1, <1>6, AnswerThere
<1>8. WholeStream(t, downNet[c], downBuf[c], 1, a, 2)
  BY <1>4, <1>5
<1>9. /\ Taken(downBuf[c], SentLength(Header(t))) = Body(t)
      /\ Len(Body(t)) = SentLength(Header(t)) /\ CrcHolds(Header(t), Body(t))
  BY <1>2, <1>7, <1>8, WholeBody
<1>10. Len(got) = n /\ CrcHolds(chead[c], got)
  BY <1>5, <1>9
<1>11. /\ client'[c] = "done"
       /\ UNCHANGED <<req, handler, shead, processed, server, upNet, upBuf>>
  BY <1>10 DEF RecvBody, SessionInv, SessionTypes, TypeOK, serverVars, upVars
<1>12. Sends(c)' = Sends(c)
  BY <1>1, <1>11 DEF Sends
<1>13. handler'[c] # "closed" => UpWhole(c)'
  BY <1>1, <1>11, <1>12, UpStays
<1> QED
  BY <1>11, <1>13 DEF CalmCall, ClientGone

\* What the handler reads does not concern the way down.
LEMMA DownStays ==
  ASSUME NEW c \in Call, CalmCall(c), client'[c] = client[c], req'[c] = req[c],
         chead'[c] = chead[c], processed'[c] = processed[c],
         downNet'[c] = downNet[c], downBuf'[c] = downBuf[c]
  PROVE  ~ClientGone(c)' /\ processed'[c] # <<>> => DownWhole(c)'
<1>1. \A r : AnswerRead(c, r) <=> AnswerRead(c, r)'
  BY DEF AnswerRead
<1> QED
  BY <1>1 DEF CalmCall, DownWhole, ClientGone

\* accept: nothing is read yet.
LEMMA AcceptCalm ==
  ASSUME SessionInv, Ordinary, server = "up", NEW c \in Call, CalmCall(c), Accept(c)
  PROVE  server' = "up" /\ CalmCall(c)'
<1>1. /\ client[c] # "idle" /\ handler[c] = "none" /\ handler'[c] = "header"
      /\ UNCHANGED <<client, req, chead, shead, processed, server,
                     upNet, upBuf, downNet, downBuf>>
  BY DEF Accept, SessionInv, SessionTypes, TypeOK, clientVars, upVars, downVars
<1>2. UpWhole(c)'
  <2>1. \A r : ChunksRead(c, r) => ChunksRead(c, r)'
    BY <1>1 DEF ChunksRead
  <2>2. UpWhole(c) /\ Sends(c)' = Sends(c)
    BY <1>1 DEF CalmCall, Sends
  <2> QED
    BY <1>1, <2>1, <2>2 DEF UpWhole
<1>3. ~ClientGone(c)' /\ processed'[c] # <<>> => DownWhole(c)'
  BY <1>1, DownStays
<1> QED
  BY <1>1, <1>2, <1>3 DEF CalmCall

\* The handler's recv of the header: nothing comes only after the call has returned;
\* what comes is the whole header.
LEMMA HandleHeaderCalm ==
  ASSUME SessionInv, Ordinary, server = "up", NEW c \in Call, CalmCall(c), HandleHeader(c)
  PROVE  server' = "up" /\ CalmCall(c)'
<1>1. /\ handler[c] = "header" /\ UpReadable(c)
      /\ handler'[c] = AfterHeader(upBuf[c]) /\ shead'[c] = Taken(upBuf[c], 3)
      /\ upBuf'[c] = Left(upBuf[c], 3)
      /\ UNCHANGED <<client, req, chead, processed, server, upNet, downNet, downBuf>>
  BY DEF HandleHeader, HeaderLength, SessionInv, SessionTypes, TypeOK, clientVars, downVars
<1>2. client[c] # "idle"
  BY <1>1, HandlerHasClient
<1>3. ~ClientGone(c)' /\ processed'[c] # <<>> => DownWhole(c)'
  BY <1>1, DownStays
<1>4. CASE upBuf[c] = <<>>
  <2>1. client[c] = "done"
    BY <1>1, <1>4 DEF UpReadable, UpEnded, ClientGone, CalmCall
  <2>2. handler'[c] = "closed"
    BY <1>1, <1>4 DEF AfterHeader
  <2> QED
    BY <1>1, <1>3, <2>1, <2>2 DEF CalmCall
<1>5. CASE upBuf[c] # <<>>
  <2> DEFINE t == req[c]
             s == Sends(c)
  <2>1. t \in Text
    BY <1>2, OrdinaryCall
  <2>2. s \in 0 .. 2 /\ s' = s
    BY <1>1 DEF Sends
  <2>3. PICK r \in 0 .. 2, a \in 0 .. 2 :
          ChunksRead(c, r) /\ WholeStream(t, upNet[c], upBuf[c], r, a, s)
    BY <1>1, <1>2 DEF CalmCall, UpWhole
  <2> HIDE DEF t, s
  <2>4. r # 2
    <3> SUFFICES ASSUME r = 2 PROVE FALSE
      OBVIOUS
    <3>1. a = 2
      BY <2>2, <2>3 DEF WholeStream
    <3> QED
      BY <1>5, <2>1, <2>2, <2>3, <3>1, WholeEmpty
  <2>5. r = 0 /\ processed[c] = <<>>
    BY <1>1, <2>3, <2>4 DEF ChunksRead
  <2>6. WholeStream(t, upNet[c], upBuf[c], 0, a, s)
    BY <2>3, <2>5
  <2>7. /\ Taken(upBuf[c], 3) = Header(t)
        /\ WholeStream(t, upNet[c], Left(upBuf[c], 3), 1, a, s)
    BY <1>5, <2>1, <2>2, <2>6, WholeHeader
  <2>8. handler'[c] = "body"
    BY <1>1, <1>5 DEF AfterHeader
  <2>9. ChunksRead(c, 1)'
    BY <1>1, <2>5, <2>7, <2>8 DEF ChunksRead, t
  <2>10. WholeStream(req[c], upNet[c], upBuf[c], 1, a, Sends(c))'
    BY <1>1, <2>2, <2>7 DEF t, s
  <2>11. UpWhole(c)'
    BY <2>9, <2>10 DEF UpWhole
  <2> QED
    BY <1>1, <1>3, <2>8, <2>11 DEF CalmCall
<1> QED
  BY <1>4, <1>5

\* The rest of the handler's iteration: the request is there, whole, and it is answered
\* to a client that waits.
LEMMA HandleBodyCalm ==
  ASSUME SessionInv, Ordinary, server = "up", NEW c \in Call, CalmCall(c), HandleBody(c)
  PROVE  server' = "up" /\ CalmCall(c)'
<1> DEFINE t == req[c]
           q == Response[t]
           s == Sends(c)
<1>0. PICK n \in SeenLengths(shead[c]) :
        /\ handler[c] = "body" /\ UpReadable(c)
        /\ upBuf' = [upBuf EXCEPT ![c] = Left(@, n)]
        /\ Len(Taken(upBuf[c], n)) = n /\ CrcHolds(shead[c], Taken(upBuf[c], n))
             => Respond(c, Taken(upBuf[c], n))
        /\ UNCHANGED <<clientVars, shead, upNet, downBuf>>
  BY DEF HandleBody
<1> DEFINE got == Taken(upBuf[c], n)
<1>1. handler[c] = "body" /\ UpReadable(c)
  BY <1>0
<1>2. /\ client[c] # "idle" /\ processed[c] = <<>>
  BY <1>1, BodyRead
<1>3. ~ClientGone(c)
  BY <1>2 DEF SessionInv, CallInv, OutcomeInv, CalmCall, ClientGone
<1>4. /\ t \in Request /\ t \in Text /\ Fits(t) /\ q # Null /\ q \in Text
  BY <1>2, OrdinaryCall
<1>5. upBuf[c] # <<>>
  BY <1>1, <1>3 DEF UpReadable, UpEnded
<1>6. PICK r \in 0 .. 2, a \in 0 .. 2 :
        ChunksRead(c, r) /\ WholeStream(t, upNet[c], upBuf[c], r, a, s)
  BY <1>1, <1>2 DEF CalmCall, UpWhole
<1>7. r = 1 /\ shead[c] = Header(t)
  BY <1>1, <1>6 DEF ChunksRead
<1>8. s \in 0 .. 2
  BY DEF Sends
<1>9. /\ a = 2 /\ Taken(upBuf[c], SentLength(Header(t))) = Body(t)
      /\ Len(Body(t)) = SentLength(Header(t)) /\ CrcHolds(Header(t), Body(t))
      /\ WholeStream(t, upNet[c], Left(upBuf[c], SentLength(Header(t))), 2, 2, s)
  <2> HIDE DEF t, s
  <2>1. WholeStream(t, upNet[c], upBuf[c], 1, a, s)
    BY <1>6, <1>7
  <2> QED
    BY <1>4, <1>5, <1>8, <2>1, WholeBody
<1>10. /\ n = SentLength(Header(t)) /\ got = Body(t) /\ Len(got) = n
       /\ CrcHolds(shead[c], got)
  <2>1. SeenLengths(Header(t)) = {SentLength(Header(t))}
    <3>1. Len(Header(t)) = 3 /\ Header(t)[2][1] = "low" /\ Header(t)[3][1] = "high"
      BY <1>4, HeaderShape DEF Header
    <3>2. \A k \in 2 .. Len(Header(t)) : Header(t)[k][1] \in {"low", "high"}
      BY <3>1
    <3> QED
      BY <3>2 DEF SeenLengths
  <2> QED
    BY <1>7, <1>9, <2>1
<1>11. Answer(got) = q
  BY <1>4, <1>10, AnswerOfBody
<1> HIDE DEF got
<1>12. Respond(c, got) /\ upBuf' = [upBuf EXCEPT ![c] = Left(@, n)]
       /\ UNCHANGED <<client, req, chead, shead, upNet, downBuf>>
  BY <1>0, <1>10 DEF clientVars, got
<1>13. /\ handler'[c] = "header" /\ processed'[c] = <<Body(t)>> /\ server' = server
       /\ downNet' = [downNet EXCEPT ![c] = @ \o <<Header(q), Body(q)>>]
       /\ upBuf'[c] = Left(upBuf[c], n)
  <2>1. /\ handler' = [handler EXCEPT ![c] = "header"]
        /\ processed' = [processed EXCEPT ![c] = Append(@, got)]
        /\ server' = server
        /\ downNet' = [downNet EXCEPT ![c] = @ \o <<Header(q), Body(q)>>]
    BY <1>3, <1>4, <1>11, <1>12 DEF Respond, Ordinary
  <2>2. Append(<<>>, got) = <<got>>
    OBVIOUS
  <2> QED
    BY <1>2, <1>10, <1>12, <2>1, <2>2 DEF SessionInv, SessionTypes, TypeOK
<1>14. UpWhole(c)'
  <2>1. ChunksRead(c, 2)'
    BY <1>12, <1>13 DEF ChunksRead
  <2>2. Sends(c)' = s
    BY <1>12 DEF Sends
  <2>3. WholeStream(req[c], upNet[c], upBuf[c], 2, 2, Sends(c))'
    BY <1>9, <1>10, <1>12, <1>13, <2>2
  <2> QED
    BY <2>1, <2>3 DEF UpWhole
<1>15. downNet[c] = <<>> /\ downBuf[c] = <<>> /\ client[c] # "recv_body"
  BY <1>2, <1>3 DEF SessionInv, CallInv, DownInv
<1>16. DownWhole(c)'
  <2>1. AnswerRead(c, 0)'
    BY <1>12, <1>15 DEF AnswerRead
  <2>2. downNet'[c] = <<Header(q), Body(q)>>
    <3> DEFINE two == <<Header(q), Body(q)>>
    <3>1. two \in Seq(Seq(Byte))
      BY <1>4, HeaderShape, BodyShape
    <3> HIDE DEF two
    <3>2. <<>> \o two = two
      BY <3>1, ConcatEmptySeq
    <3>3. downNet' = [downNet EXCEPT ![c] = @ \o two]
      BY <1>13 DEF two
    <3>4. downNet'[c] = downNet[c] \o two
      BY <3>3 DEF SessionInv, SessionTypes
    <3> QED
      BY <1>15, <3>2, <3>4 DEF two
  <2>3. WholeStream(q, <<Header(q), Body(q)>>, <<>>, 0, 0, 2)
    <3>1. Part(q, 0, 0) = <<>> /\ At(q, 0) = 0
      BY <1>4, PartNames, AtShape
    <3> QED
      BY <3>1 DEF WholeStream, OnTheWay
  <2>4. WholeStream(Response[req[c]], downNet[c], downBuf[c], 0, 0, 2)'
    BY <1>12, <1>15, <2>2, <2>3
  <2> QED
    BY <2>1, <2>4 DEF DownWhole
<1> QED
  BY <1>3, <1>12, <1>13, <1>14, <1>16 DEF CalmCall, ClientGone

\* A send of the client arrives whole.
LEMMA DeliverUpCalm ==
  ASSUME SessionInv, Ordinary, server = "up", NEW c \in Call, CalmCall(c), DeliverUp(c)
  PROVE  server' = "up" /\ CalmCall(c)'
<1> DEFINE t == req[c]
           n == upNet[c]
           b == upBuf[c]
           k == Len(Head(n))
           s == Sends(c)
<1>1. n # <<>> /\ client[c] # "idle"
  BY DEF DeliverUp, SessionInv, CallInv, IdleInv
<1>2. /\ Arrive(upNet, upBuf, c, k)
      /\ UNCHANGED <<client, req, chead, res, handler, shead, processed, server,
                     downNet, downBuf>>
  BY DEF DeliverUp, Pieces, Ordinary, clientVars, serverVars, downVars
<1>3. /\ upBuf'[c] = Joined(b, SubSeq(Head(n), 1, k)) /\ upNet'[c] = Rest(n, k)
  BY <1>2 DEF Arrive, Rest, Joined, SessionInv, SessionTypes
<1>4. handler[c] # "closed" => UpWhole(c)'
  <2> SUFFICES ASSUME handler[c] # "closed" PROVE UpWhole(c)'
    OBVIOUS
  <2>1. PICK r \in 0 .. 2, a \in 0 .. 2 :
          ChunksRead(c, r) /\ WholeStream(t, n, b, r, a, s)
    BY <1>1 DEF CalmCall, UpWhole
  <2>2. t \in Text /\ s \in 0 .. 2 /\ s' = s
    BY <1>1, <1>2, OrdinaryCall DEF Sends
  <2> DEFINE m == a + 1
  <2>3. m \in 0 .. 2 /\ WholeStream(t, Rest(n, k), Joined(b, SubSeq(Head(n), 1, k)), r, m, s)
    <3> HIDE DEF t, n, b, s
    <3> QED
      BY <1>1, <2>1, <2>2, WholeArrive DEF n
  <2> HIDE DEF m
  <2>4. ChunksRead(c, r)'
    BY <1>2, <2>1 DEF ChunksRead
  <2>5. WholeStream(req[c], upNet[c], upBuf[c], r, m, Sends(c))'
    BY <1>2, <1>3, <2>2, <2>3
  <2> QED
    BY <2>3, <2>4, <2>5 DEF UpWhole
<1>5. ~ClientGone(c)' /\ processed'[c] # <<>> => DownWhole(c)'
  BY <1>2, DownStays
<1> QED
  BY <1>2, <1>4, <1>5 DEF CalmCall

\* A send of the handler arrives whole.
LEMMA DeliverDownCalm ==
  ASSUME SessionInv, Ordinary, server = "up", NEW c \in Call, CalmCall(c), DeliverDown(c)
  PROVE  server' = "up" /\ CalmCall(c)'
<1> DEFINE t == Response[req[c]]
           n == downNet[c]
           b == downBuf[c]
           k == Len(Head(n))
<1>1. n # <<>> /\ client[c] # "idle"
  BY DEF DeliverDown, SessionInv, CallInv, IdleInv
<1>2. /\ Arrive(downNet, downBuf, c, k)
      /\ UNCHANGED <<client, req, chead, res, handler, shead, processed, server,
                     upNet, upBuf>>
  BY DEF DeliverDown, Pieces, Ordinary, clientVars, serverVars, upVars
<1>3. /\ downBuf'[c] = Joined(b, SubSeq(Head(n), 1, k)) /\ downNet'[c] = Rest(n, k)
  BY <1>2 DEF Arrive, Rest, Joined, SessionInv, SessionTypes
<1>4. ~ClientGone(c) /\ processed[c] # <<>> => DownWhole(c)'
  <2> SUFFICES ASSUME ~ClientGone(c), processed[c] # <<>> PROVE DownWhole(c)'
    OBVIOUS
  <2>1. PICK r \in 0 .. 2, a \in 0 .. 2 :
          AnswerRead(c, r) /\ WholeStream(t, n, b, r, a, 2)
    BY DEF CalmCall, DownWhole
  <2>2. t \in Text
    BY <1>1, OrdinaryCall
  <2> DEFINE m == a + 1
  <2>3. m \in 0 .. 2 /\ WholeStream(t, Rest(n, k), Joined(b, SubSeq(Head(n), 1, k)), r, m, 2)
    <3> HIDE DEF t, n, b
    <3> QED
      BY <1>1, <2>1, <2>2, WholeArrive DEF n
  <2> HIDE DEF m
  <2>4. AnswerRead(c, r)'
    BY <1>2, <2>1 DEF AnswerRead
  <2>5. WholeStream(Response[req[c]], downNet[c], downBuf[c], r, m, 2)'
    BY <1>2, <1>3, <2>3
  <2> QED
    BY <2>3, <2>4, <2>5 DEF DownWhole
<1>5. Sends(c)' = Sends(c)
  BY <1>2 DEF Sends
<1>6. handler'[c] # "closed" => UpWhole(c)'
  BY <1>1, <1>2, <1>5, UpStays
<1> QED
  BY <1>2, <1>4, <1>6 DEF CalmCall, ClientGone

\* A reset finds nothing to lose.
LEMMA ResetCalm ==
  ASSUME SessionInv, Ordinary, server = "up", NEW c \in Call, CalmCall(c), Reset(c)
  PROVE  server' = "up" /\ CalmCall(c)'
<1>1. UNCHANGED <<client, handler, server>>
  BY DEF Reset, clientVars, serverVars
<1>2. client[c] = "done"
  BY DEF Reset, ClientGone, ServerGone, CalmCall
<1>3. handler[c] = "closed"
  <2> SUFFICES ASSUME handler[c] # "closed" PROVE FALSE
    OBVIOUS
  <2>1. upNet[c] # <<>>
    BY DEF Reset, ServerGone
  <2>2. processed[c] # <<>>
    BY <1>2 DEF SessionInv, CallInv, OutcomeInv
  <2>3. PICK r \in 0 .. 2, a \in 0 .. 2 :
          ChunksRead(c, r) /\ WholeStream(req[c], upNet[c], upBuf[c], r, a, Sends(c))
    BY <1>2 DEF CalmCall, UpWhole
  <2>4. r = 2 /\ Sends(c) = 2
    BY <1>2, <2>2, <2>3 DEF ChunksRead, Sends
  <2>5. a = 2
    BY <2>3, <2>4 DEF WholeStream
  <2> QED
    BY <2>1, <2>3, <2>4, <2>5 DEF WholeStream, OnTheWay
<1> QED
  BY <1>1, <1>2, <1>3 DEF CalmCall, ClientGone

\* A call that a step leaves alone stays calm.
LEMMA SameCalm ==
  ASSUME NEW c \in Call, CalmCall(c), Same(c)
  PROVE  CalmCall(c)'
<1>1. Sends(c)' = Sends(c) /\ (ClientGone(c)' <=> ClientGone(c))
  BY DEF Same, Sends, ClientGone
<1>2. \A r : (ChunksRead(c, r)' <=> ChunksRead(c, r)) /\ (AnswerRead(c, r)' <=> AnswerRead(c, r))
  BY DEF Same, ChunksRead, AnswerRead
<1>3. (UpWhole(c)' <=> UpWhole(c)) /\ (DownWhole(c)' <=> DownWhole(c))
  BY <1>1, <1>2 DEF Same, UpWhole, DownWhole
<1> QED
  BY <1>1, <1>3 DEF Same, CalmCall

\* When one call stays calm, all do.
LEMMA CalmAll ==
  ASSUME \A d \in Call : CalmCall(d), NEW c \in Call, Keeps(c), server' = "up", CalmCall(c)'
  PROVE  CalmInv'
<1>1. ASSUME NEW d \in Call PROVE CalmCall(d)'
  <2>1. CASE d = c
    BY <2>1
  <2>2. CASE d # c
    BY <2>2, SameCalm DEF Keeps
  <2> QED
    BY <2>1, <2>2
<1> QED
  BY <1>1 DEF CalmInv

\* Nothing has been asked for yet.
LEMMA InitCalm == Init => CalmInv
BY DEF Init, CalmInv, CalmCall, ClientGone

\* What was not ordinary stays so: requests are not forgotten.
LEMMA OrdinaryBefore ==
  ASSUME SessionInv, [Next]_vars, Ordinary'
  PROVE  Ordinary
<1>1. network' = network
  BY DEF Next, vars
<1>2. ASSUME NEW c \in Call, req[c] # Null PROVE req'[c] = req[c]
  <2>1. client[c] # "idle" /\ req \in [Call -> Request \cup {Null}]
    BY <1>2 DEF SessionInv, CallInv, IdleInv, SessionTypes, TypeOK
  <2>2. ASSUME NEW d \in Call, NEW t \in Request, Connect(d, t) PROVE req'[c] = req[c]
    BY <2>1, <2>2 DEF Connect
  <2>3. ASSUME NEW d \in Call,
               ClientStep(d) \/ Crash(d) \/ ServerStep(d) \/ Deliver(d) \/ Reset(d)
        PROVE  req' = req
    BY <2>3 DEF ClientStep, SendHeader, SendBody, Send, RecvHeader, RecvBody, PayloadFails,
                Dies, Crash, ServerStep, Accept, ListenerDies, HandleHeader, HandleBody,
                SkipBody, Deliver, DeliverUp, DeliverDown, Reset, clientVars
  <2>4. UNCHANGED vars => req' = req
    BY DEF vars, sessionVars, clientVars
  <2> QED
    BY <2>2, <2>3, <2>4 DEF Next, Finished
<1> QED
  BY <1>1, <1>2 DEF Ordinary

\* Every step keeps ordinary calls calm.
LEMMA StepCalm == SessionInv /\ CalmInv /\ [Next]_vars => CalmInv'
<1> SUFFICES ASSUME SessionInv, CalmInv, [Next]_vars, Ordinary' PROVE CalmInv'
  BY DEF CalmInv
<1>1. Ordinary
  BY OrdinaryBefore
<1>2. server = "up" /\ \A c \in Call : CalmCall(c)
  BY <1>1 DEF CalmInv
<1>3. ASSUME UNCHANGED vars PROVE CalmInv'
  <2>1. UNCHANGED <<client, req, chead, res, handler, shead, processed, upNet, upBuf,
                    downNet, downBuf, server>>
    BY <1>3 DEF vars, sessionVars, clientVars, serverVars, upVars, downVars
  <2>2. \A c \in Call : Same(c)
    BY <2>1 DEF Same
  <2> QED
    BY <1>2, <2>1, <2>2, SameCalm DEF CalmInv
<1>4. ASSUME NEW c \in Call, NEW t \in Request, Connect(c, t) PROVE CalmInv'
  BY <1>2, <1>4, ConnectKeeps, ConnectCalm, CalmAll
<1>5. ASSUME NEW c \in Call, SendHeader(c) PROVE CalmInv'
  <2> DEFINE s == 0
  <2>1. s \in {0, 1} /\ s = 0 /\ s # 1
    OBVIOUS
  <2> HIDE DEF s
  <2>2. client[c] = "send_header" /\ Send(c, Header(req[c]), "send_body")
    BY <1>1, <1>5 DEF SendHeader, Ordinary
  <2>3. server' = "up" /\ CalmCall(c)'
    BY <1>1, <1>2, <2>1, <2>2, SendCalm
  <2> QED
    BY <1>2, <1>5, <2>3, SendHeaderKeeps, CalmAll
<1>6. ASSUME NEW c \in Call, SendBody(c) PROVE CalmInv'
  <2> DEFINE s == 1
  <2>1. s \in {0, 1} /\ s = 1 /\ s # 0
    OBVIOUS
  <2> HIDE DEF s
  <2>2. client[c] = "send_body" /\ Send(c, Body(req[c]), "recv_header")
    BY <1>6 DEF SendBody
  <2>3. server' = "up" /\ CalmCall(c)'
    BY <1>1, <1>2, <2>1, <2>2, SendCalm
  <2> QED
    BY <1>2, <1>6, <2>3, SendBodyKeeps, CalmAll
<1>7. ASSUME NEW c \in Call, RecvHeader(c) PROVE CalmInv'
  BY <1>1, <1>2, <1>7, RecvHeaderKeeps, RecvHeaderCalm, CalmAll
<1>8. ASSUME NEW c \in Call, RecvBody(c) PROVE CalmInv'
  BY <1>1, <1>2, <1>8, RecvBodyKeeps, RecvBodyCalm, CalmAll
<1>9. \A c \in Call : ~Crash(c) /\ ~PayloadFails(c) /\ ~SkipBody(c) /\ ~ListenerDies(c)
  BY <1>1 DEF Crash, PayloadFails, SkipBody, ListenerDies, Ordinary
<1>10. ASSUME NEW c \in Call, Accept(c) PROVE CalmInv'
  BY <1>1, <1>2, <1>10, AcceptKeeps, AcceptCalm, CalmAll
<1>11. ASSUME NEW c \in Call, HandleHeader(c) PROVE CalmInv'
  BY <1>1, <1>2, <1>11, HandleHeaderKeeps, HandleHeaderCalm, CalmAll
<1>12. ASSUME NEW c \in Call, HandleBody(c) PROVE CalmInv'
  BY <1>1, <1>2, <1>12, HandleBodyKeeps, HandleBodyCalm, CalmAll
<1>13. ASSUME NEW c \in Call, DeliverUp(c) PROVE CalmInv'
  BY <1>1, <1>2, <1>13, DeliverUpKeeps, DeliverUpCalm, CalmAll
<1>14. ASSUME NEW c \in Call, DeliverDown(c) PROVE CalmInv'
  BY <1>1, <1>2, <1>14, DeliverDownKeeps, DeliverDownCalm, CalmAll
<1>15. ASSUME NEW c \in Call, Reset(c) PROVE CalmInv'
  BY <1>1, <1>2, <1>15, ResetKeeps, ResetCalm, CalmAll
<1> QED
  BY <1>3, <1>4, <1>5, <1>6, <1>7, <1>8, <1>9, <1>10, <1>11, <1>12, <1>13, <1>14, <1>15
     DEF Next, ClientStep, ServerStep, Deliver, Finished

\* While sends arrive whole, nobody is killed, memory suffices and what is asked for is
\* short and has a short answer, no server dies and no client: every recv finds the bytes
\* it wants.
THEOREM OrdinaryCallsSurvive == Spec => []NobodyDies
<1>1. CalmInv => NobodyDies
  BY DEF CalmInv, NobodyDies, CalmCall
<1>2. Spec => [](SessionInv /\ CalmInv)
  BY InitSession, StepSession, InitCalm, StepCalm, PTL DEF Spec
<1> QED
  BY <1>1, <1>2, PTL
===============================================================================
