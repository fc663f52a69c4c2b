-------------------------- MODULE RpcGeneratorProofs --------------------------
(***************************************************************************)
(* Theorems about RpcGenerator, for any registration files and any number  *)
(* of runs: the two files agree after a run that settles them, and what    *)
(* ends a run otherwise has a cause.                                       *)
(***************************************************************************)
EXTENDS RpcGenerator, TLAPS

-------------------------------------------------------------------------------
(* The invariant *)

\* A stream of file f with the methods M, in ascending order, and the tail if tailed.
Stream(pieces, f, M, tailed) ==
  /\ pieces \in Seq(Pieces)
  /\ \A i \in DOMAIN pieces : pieces[i].file = f
  /\ Methods(pieces) = M
  /\ \A i, j \in MethodsAt(pieces) : i < j => pieces[i].index < pieces[j].index
  /\ tailed <=> \E i \in DOMAIN pieces : pieces[i].kind = "tail"

\* The methods among the first n that are written.
Upto(f, n) == {i \in 1..n : ~Skipped(Json[f][i])}

\* A header and a source that agree.
Agree(h, c, f) ==
  \E M \in SUBSET Nat, tailed \in BOOLEAN :
    /\ Stream(h, f, M, tailed) /\ Stream(c, f, M, FALSE)
    /\ \A m \in M : m \in Covered(f)
    /\ tailed => /\ \A d \in DOMAIN Json[f] : ~Refused(Json[f][d])
                 /\ M = Covered(f)

TypeInv ==
  /\ pc \in {"ended", "opened", "parse", "loop", "header", "source", "free", "out"}
  /\ next \in Nat \ {0}
  /\ pc # "ended" => file \in File
  /\ written \in [Output -> Seq(Pieces) \cup {Null}]

\* All declarations before the current one were accepted, and so was this one.
LoopInv ==
  /\ pc \in {"opened", "parse"} => next = 1
  /\ pc \in {"loop", "header", "source", "free"} =>
       /\ Config \in Seq(Declaration)
       /\ next - 1 <= Len(Config)
       /\ \A j \in 1..(next - 1) : ~Refused(Config[j])
       /\ pc # "loop" => next <= Len(Config) /\ ~Refused(Current)

\* What the streams hold: the source is one method behind between the two writes.
StreamInv ==
  /\ pc = "opened" => written = [o \in Output |-> Null]
  /\ pc = "parse" => \A o \in Output : Stream(written[o], file, {}, FALSE)
  /\ pc \in {"loop", "header"} =>
       \A o \in Output : Stream(written[o], file, Upto(file, next - 1), FALSE)
  /\ pc = "source" => /\ Stream(written["h"], file, Upto(file, next), FALSE)
                      /\ Stream(written["c"], file, Upto(file, next - 1), FALSE)
  /\ pc = "free" => \A o \in Output : Stream(written[o], file, Upto(file, next), FALSE)
  /\ pc = "out" => Agree(written["h"], written["c"], file)

SettledInv == settled # Null => Agree(disk["h"], disk["c"], settled)

\* A declaration up to the current one that the generator does not survive.
Cause ==
  \E i \in 1..next :
    /\ ~Refused(Config[i])
    /\ \/ Len(Config[i].params) > Fit
       \/ \E j \in DOMAIN Config[i].params :
            "other" \in {Config[i].params[j], Config[i].types[j]}

\* A run that goes on has lost nothing, and has damaged the heap only for a cause.
CleanInv ==
  /\ pc # "ended" => fault = "none"
  /\ pc = "opened" => root = "unset"
  /\ pc \in {"opened", "parse", "loop", "out"} => ~arrays
  /\ pc # "ended" /\ ~sound => Cause
  /\ CleanOrCaused

GeneratorInv == TypeInv /\ LoopInv /\ StreamInv /\ SettledInv /\ CleanInv

-------------------------------------------------------------------------------
(* Streams *)

\* One more element of a sequence.
LEMMA Appended ==
  ASSUME NEW S, NEW s \in Seq(S), NEW e \in S, NEW t, t = Append(s, e)
  PROVE  \E n \in Nat :
           /\ DOMAIN s = 1..n /\ DOMAIN t = 1..(n + 1) /\ t \in Seq(S)
           /\ t[n + 1] = e /\ \A i \in 1..n : t[i] = s[i]
<1> DEFINE n == Len(s)
<1>1. n \in Nat
  OBVIOUS
<1>2. DOMAIN s = 1..n /\ DOMAIN t = 1..(n + 1)
  OBVIOUS
<1>3. t[n + 1] = e /\ \A i \in 1..n : t[i] = s[i]
  OBVIOUS
<1>4. t \in Seq(S)
  OBVIOUS
<1> HIDE DEF n
<1> QED
  BY <1>1, <1>2, <1>3, <1>4

\* A piece is what it was made of.
LEMMA PieceIs ==
  ASSUME NEW f \in File, NEW kind \in {"head", "method", "tail"}, NEW n \in Nat
  PROVE  /\ Piece(f, kind, n) \in Pieces /\ Piece(f, kind, n).file = f
         /\ Piece(f, kind, n).kind = kind /\ Piece(f, kind, n).index = n
BY DEF Piece, Pieces

\* A head is a stream without methods.
LEMMA StreamHead ==
  ASSUME NEW f \in File
  PROVE  Stream(<< Piece(f, "head", 0) >>, f, {}, FALSE)
<1> DEFINE e == Piece(f, "head", 0)
           t == << e >>
<1>1. e \in Pieces /\ e.file = f /\ e.kind = "head"
  BY PieceIs
<1> HIDE DEF e
<1>2. t \in Seq(Pieces) /\ DOMAIN t = {1} /\ t[1] = e
  BY <1>1
<1> HIDE DEF t
<1>3. MethodsAt(t) = {}
  BY <1>1, <1>2 DEF MethodsAt
<1>4. Methods(t) = {}
  BY <1>3 DEF Methods
<1>5. Stream(t, f, {}, FALSE)
  BY <1>1, <1>2, <1>3, <1>4 DEF Stream
<1> QED
  BY <1>5 DEF t, e

\* A method after all others.
LEMMA StreamMethod ==
  ASSUME NEW f \in File, NEW s, NEW M, Stream(s, f, M, FALSE), NEW k \in Nat,
         \A m \in M : m < k, NEW t, t = Append(s, Piece(f, "method", k))
  PROVE  Stream(t, f, M \cup {k}, FALSE)
<1> DEFINE e == Piece(f, "method", k)
<1>1. e \in Pieces /\ e.file = f /\ e.kind = "method" /\ e.index = k
  BY PieceIs
<1>2. t = Append(s, e) /\ s \in Seq(Pieces)
  BY DEF Stream
<1> HIDE DEF e
<1>3. PICK n \in Nat :
        /\ DOMAIN s = 1..n /\ DOMAIN t = 1..(n + 1) /\ t \in Seq(Pieces)
        /\ t[n + 1] = e /\ \A i \in 1..n : t[i] = s[i]
  BY <1>1, <1>2, Appended
<1>4. MethodsAt(t) = MethodsAt(s) \cup {n + 1} /\ MethodsAt(s) \subseteq 1..n
  BY <1>1, <1>3 DEF MethodsAt
<1>5. Methods(t) = Methods(s) \cup {k}
  BY <1>1, <1>3, <1>4 DEF Methods
<1>6. Methods(s) = M
  BY DEF Stream
<1>7. \A i \in MethodsAt(s) : s[i].index < k
  BY <1>6 DEF Methods
<1>8. ASSUME NEW i \in MethodsAt(t), NEW j \in MethodsAt(t), i < j
      PROVE  t[i].index < t[j].index
  <2>1. i \in MethodsAt(s)
    BY <1>3, <1>4, <1>8
  <2>2. CASE j = n + 1
    BY <1>1, <1>3, <1>4, <1>7, <2>1, <2>2
  <2>3. CASE j \in MethodsAt(s)
    BY <1>3, <1>4, <1>8, <2>1, <2>3 DEF Stream
  <2> QED
    BY <1>4, <2>2, <2>3
<1>9. \A i \in DOMAIN t : t[i].file = f /\ t[i].kind # "tail"
  BY <1>1, <1>3 DEF Stream
<1> QED
  BY <1>3, <1>5, <1>6, <1>8, <1>9 DEF Stream

\* The tail.
LEMMA StreamTail ==
  ASSUME NEW f \in File, NEW s, NEW M, Stream(s, f, M, FALSE),
         NEW t, t = Append(s, Piece(f, "tail", 0))
  PROVE  Stream(t, f, M, TRUE)
<1> DEFINE e == Piece(f, "tail", 0)
<1>1. e \in Pieces /\ e.file = f /\ e.kind = "tail"
  BY PieceIs
<1>2. t = Append(s, e) /\ s \in Seq(Pieces)
  BY DEF Stream
<1> HIDE DEF e
<1>3. PICK n \in Nat :
        /\ DOMAIN s = 1..n /\ DOMAIN t = 1..(n + 1) /\ t \in Seq(Pieces)
        /\ t[n + 1] = e /\ \A i \in 1..n : t[i] = s[i]
  BY <1>1, <1>2, Appended
<1>4. MethodsAt(t) = MethodsAt(s) /\ MethodsAt(s) \subseteq 1..n
  BY <1>1, <1>3 DEF MethodsAt
<1>5. Methods(t) = M
  BY <1>3, <1>4 DEF Methods, Stream
<1>6. \A i, j \in MethodsAt(t) : i < j => t[i].index < t[j].index
  BY <1>3, <1>4 DEF Stream
<1>7. /\ \A i \in DOMAIN t : t[i].file = f
      /\ n + 1 \in DOMAIN t /\ t[n + 1].kind = "tail"
  BY <1>1, <1>3 DEF Stream
<1> QED
  BY <1>3, <1>5, <1>6, <1>7 DEF Stream

\* The methods up to the next declaration.
LEMMA UptoNext ==
  ASSUME NEW f, NEW n \in Nat \ {0}
  PROVE  /\ Upto(f, n) = IF Skipped(Json[f][n]) THEN Upto(f, n - 1) ELSE Upto(f, n - 1) \cup {n}
         /\ \A m \in Upto(f, n - 1) : m < n
         /\ Upto(f, n) \in SUBSET Nat /\ Upto(f, 0) = {}
<1>1. 1..n = (1..(n - 1)) \cup {n} /\ n \notin 1..(n - 1)
  OBVIOUS
<1> QED
  BY <1>1 DEF Upto

\* What is covered of a file whose first declarations are accepted.
LEMMA CoveredUpto ==
  ASSUME NEW f, Json[f] \in Seq(Declaration), NEW n \in Nat, n <= Len(Json[f]),
         \A j \in 1..n : ~Refused(Json[f][j])
  PROVE  /\ \A m \in Upto(f, n) : m \in Covered(f)
         /\ n = Len(Json[f]) => Upto(f, n) = Covered(f)
                                /\ \A d \in DOMAIN Json[f] : ~Refused(Json[f][d])
<1> DEFINE config == Json[f]
           length == Len(config)
<1>1. DOMAIN config = 1..length /\ length \in Nat
  OBVIOUS
<1>2. n <= length /\ (n = Len(Json[f]) => n = length)
  OBVIOUS
<1> HIDE DEF config, length
<1>3. Covered(f) = {i \in DOMAIN config : (\A j \in 1..i : ~Refused(config[j])) /\ ~Skipped(config[i])}
  BY DEF Covered, config
<1>4. Upto(f, n) = {i \in 1..n : ~Skipped(config[i])} /\ \A j \in 1..n : ~Refused(config[j])
  BY DEF Upto, config
<1>5. 1..n \subseteq 1..length /\ \A i \in 1..n : \A j \in 1..i : j \in 1..n
  BY <1>1, <1>2
<1>6. \A m \in Upto(f, n) : m \in Covered(f)
  BY <1>1, <1>3, <1>4, <1>5
<1>7. ASSUME n = length
      PROVE  Upto(f, n) = Covered(f) /\ \A d \in DOMAIN config : ~Refused(config[d])
  BY <1>1, <1>3, <1>4, <1>5, <1>7
<1> QED
  BY <1>2, <1>6, <1>7 DEF config

-------------------------------------------------------------------------------
(* The steps *)

\* Nothing has run at first.
LEMMA GeneratorInit == Init => GeneratorInv
BY DEF Init, GeneratorInv, TypeInv, LoopInv, StreamInv, SettledInv, CleanInv, CleanOrCaused

\* A run starts with nothing taken and nothing written.
LEMMA StartKeeps ==
  ASSUME GeneratorInv, NEW f \in File, Start(f)
  PROVE  GeneratorInv'
<1>1. /\ pc' \in {"opened", "ended"} /\ (pc' = "ended" => fd' = "closed")
      /\ file' = f /\ next' = 1 /\ jsonBuf' = "unset" /\ root' = "unset" /\ arrays' = FALSE
      /\ sound' = TRUE /\ written' = [o \in Output |-> Null] /\ fault' = "none"
      /\ UNCHANGED <<disk, settled>>
  BY DEF Start
<1>2. TypeInv'
  BY <1>1 DEF TypeInv
<1>3. LoopInv'
  BY <1>1 DEF LoopInv
<1>4. StreamInv'
  BY <1>1 DEF StreamInv
<1>5. SettledInv'
  BY <1>1 DEF GeneratorInv, SettledInv
<1>6. CleanInv'
  BY <1>1 DEF CleanInv, CleanOrCaused
<1> QED
  BY <1>2, <1>3, <1>4, <1>5, <1>6 DEF GeneratorInv

\* A run that ends: what is left to show is about the files and about what it leaves.
LEMMA Ended ==
  ASSUME GeneratorInv, pc' = "ended", UNCHANGED <<next, written>>, SettledInv', CleanOrCaused'
  PROVE  GeneratorInv'
<1>1. TypeInv' /\ LoopInv' /\ StreamInv' /\ CleanInv'
  BY DEF GeneratorInv, TypeInv, LoopInv, StreamInv, CleanInv
<1> QED
  BY <1>1 DEF GeneratorInv

\* A run that cannot read its file leaves the old files as they are.
LEMMA ReadFailsKeeps ==
  ASSUME GeneratorInv, NEW buf \in {"null", "block"}, ReadFails(buf)
  PROVE  GeneratorInv'
<1>1. /\ pc = "opened" /\ fd' = "closed" /\ jsonBuf' \in {"null", "freed"}
      /\ UNCHANGED <<runs, file, next, root, arrays, sound, written>>
  BY DEF ReadFails
<1>2. written = [o \in Output |-> Null] /\ root = "unset" /\ ~arrays
  BY <1>1 DEF GeneratorInv, StreamInv, CleanInv
<1>3. Exit \/ DieEarly("unset", {})
  BY DEF ReadFails
<1>4. /\ pc' = "ended" /\ settled' = settled
      /\ \A o \in Output : disk'[o] = disk[o]
  <2>1. "h" \in Output
    BY DEF Output
  <2> QED
    BY <1>2, <1>3, <2>1 DEF Exit, DieEarly
<1>5. SettledInv'
  BY <1>4 DEF GeneratorInv, SettledInv, Output
<1>6. CleanOrCaused'
  BY <1>1, <1>2 DEF CleanOrCaused
<1> QED
  BY <1>1, <1>4, <1>5, <1>6, Ended

\* A run that cannot open both streams settles nothing if it emptied one.
LEMMA CreateFailsKeeps ==
  ASSUME GeneratorInv, NEW opened \in SUBSET Output, CreateFails(opened)
  PROVE  GeneratorInv'
<1>1. /\ pc = "opened" /\ UNCHANGED <<runs, file, next, root, arrays, sound, written>>
      /\ DieEarly("fclose", opened)
  BY DEF CreateFails
<1>2. written = [o \in Output |-> Null]
  BY <1>1 DEF GeneratorInv, StreamInv
<1>3. pc' = "ended" /\ fault' = "fclose"
  BY <1>1 DEF DieEarly
<1>4. SettledInv'
  BY <1>1 DEF GeneratorInv, DieEarly, SettledInv, Output
<1>5. CleanOrCaused'
  BY <1>1, <1>2, <1>3 DEF CleanOrCaused
<1> QED
  BY <1>1, <1>3, <1>4, <1>5, Ended

\* Both streams are opened, and the old files are gone.
LEMMA CreateKeeps ==
  ASSUME GeneratorInv, Create
  PROVE  GeneratorInv'
<1>1. /\ pc = "opened" /\ pc' = "parse" /\ UNCHANGED <<file, next, arrays, sound, fault>>
      /\ settled' = Null /\ file \in File
      /\ written' = [o \in Output |-> << Piece(file, "head", 0) >>]
  BY DEF Create, GeneratorInv, TypeInv
<1> DEFINE s == << Piece(file, "head", 0) >>
<1>2. Stream(s, file, {}, FALSE)
  BY <1>1, StreamHead
<1> HIDE DEF s
<1>3. written' = [o \in Output |-> s]
  BY <1>1 DEF s
<1>4. TypeInv'
  BY <1>1, <1>2, <1>3 DEF GeneratorInv, TypeInv, Stream
<1>5. StreamInv'
  BY <1>1, <1>2, <1>3 DEF StreamInv
<1>6. LoopInv' /\ SettledInv'
  BY <1>1 DEF GeneratorInv, LoopInv, SettledInv
<1>7. CleanInv'
  BY <1>1 DEF GeneratorInv, CleanInv, CleanOrCaused, Cause, Config
<1> QED
  BY <1>4, <1>5, <1>6, <1>7 DEF GeneratorInv

\* A run that goes on leaves the files of the last run, and has not crashed.
LEMMA GoesOn ==
  ASSUME GeneratorInv, pc # "ended", pc' # "ended", UNCHANGED <<disk, settled, fault>>
  PROVE  SettledInv' /\ CleanOrCaused' /\ fault' = "none"
BY DEF GeneratorInv, CleanInv, CleanOrCaused, SettledInv

\* A file without a "config" has no methods.
LEMMA ParseKeeps ==
  ASSUME GeneratorInv, Parse
  PROVE  GeneratorInv'
<1>1. /\ pc = "parse" /\ UNCHANGED <<runs, file, next, fd, jsonBuf, arrays, sound, outVars>>
      /\ pc' = IF Config \in {NoJson, Null} THEN "out" ELSE "loop"
  BY DEF Parse
<1>2. UNCHANGED <<written, disk, settled, fault>> /\ pc' \in {"out", "loop"}
  BY <1>1 DEF outVars
<1>3. TypeInv'
  BY <1>1, <1>2 DEF GeneratorInv, TypeInv
<1>4. SettledInv' /\ CleanOrCaused' /\ fault' = "none"
  BY <1>1, <1>2, GoesOn
<1>5. \A o \in Output : Stream(written[o], file, {}, FALSE)
  BY <1>1 DEF GeneratorInv, StreamInv
<1>6. CleanInv'
  BY <1>1, <1>4 DEF GeneratorInv, CleanInv, Cause, Config
<1>7. CASE pc' = "out"
  <2>1. Agree(written["h"], written["c"], file)
    <3>1. {} \in SUBSET Nat /\ FALSE \in BOOLEAN /\ "h" \in Output /\ "c" \in Output
      BY DEF Output
    <3> QED
      BY <1>5, <3>1 DEF Agree
  <2> QED
    BY <1>1, <1>2, <1>3, <1>4, <1>6, <1>7, <2>1 DEF GeneratorInv, LoopInv, StreamInv
<1>8. CASE pc' = "loop"
  <2>1. Config \in Seq(Declaration)
    BY <1>1, <1>8, GeneratorAssumption DEF GeneratorInv, TypeInv, Config
  <2>2. next = 1
    BY <1>1 DEF GeneratorInv, LoopInv
  <2>3. 0 <= Len(Config)
    <3> DEFINE n == Len(Config)
    <3>1. n \in Nat
      BY <2>1
    <3> HIDE DEF n
    <3>2. 0 <= n
      BY <3>1
    <3> QED
      BY <3>2 DEF n
  <2>4. LoopInv'
    <3>1. Config' = Config /\ next' = next /\ next - 1 = 0 /\ 1..0 = {}
      BY <1>1, <2>2 DEF Config
    <3> QED
      BY <1>8, <2>1, <2>3, <3>1 DEF LoopInv
  <2>5. StreamInv'
    <3>1. Upto(file, next - 1) = {}
      BY <2>2 DEF Upto
    <3>2. \A o \in Output : Stream(written[o], file, Upto(file, next - 1), FALSE)
      BY <1>5, <3>1
    <3> QED
      BY <1>1, <1>2, <1>8, <3>2 DEF StreamInv
  <2> QED
    BY <1>3, <1>4, <1>6, <2>4, <2>5 DEF GeneratorInv
<1> QED
  BY <1>2, <1>7, <1>8

\* The streams that a run has written so far agree, as they are before every declaration.
LEMMA AgreeSoFar ==
  ASSUME GeneratorInv, pc = "loop"
  PROVE  Agree(written["h"], written["c"], file)
<1>1. /\ Json[file] \in Seq(Declaration) /\ next - 1 \in Nat /\ next - 1 <= Len(Json[file])
      /\ \A j \in 1..(next - 1) : ~Refused(Json[file][j])
  BY DEF GeneratorInv, TypeInv, LoopInv, Config
<1> DEFINE n == next - 1
<1>2. Stream(written["h"], file, Upto(file, n), FALSE) /\ Stream(written["c"], file, Upto(file, n), FALSE)
  BY DEF GeneratorInv, StreamInv, Output
<1>3. n \in Nat /\ n <= Len(Json[file]) /\ \A j \in 1..n : ~Refused(Json[file][j])
  BY <1>1
<1> HIDE DEF n
<1>4. \A m \in Upto(file, n) : m \in Covered(file)
  BY <1>1, <1>3, CoveredUpto
<1>5. Upto(file, n) \in SUBSET Nat
  BY DEF Upto
<1> QED
  BY <1>2, <1>4, <1>5 DEF Agree

\* A declaration is refused, or there is no memory for it: the run stops there.
LEMMA StopKeeps ==
  ASSUME GeneratorInv, Refuse \/ ArraysFail
  PROVE  GeneratorInv'
<1>1. pc = "loop" /\ pc' = "out" /\ UNCHANGED <<runs, file, localVars, outVars>>
  BY DEF Refuse, ArraysFail
<1>2. UNCHANGED <<file, next, arrays, sound, root, written, disk, settled, fault>>
  BY <1>1 DEF localVars, outVars
<1>3. TypeInv' /\ LoopInv'
  BY <1>1, <1>2 DEF GeneratorInv, TypeInv, LoopInv
<1>4. SettledInv' /\ CleanOrCaused' /\ fault' = "none"
  BY <1>1, <1>2, GoesOn
<1>5. StreamInv'
  <2>1. Agree(written["h"], written["c"], file)
    BY <1>1, AgreeSoFar
  <2> QED
    BY <1>1, <1>2, <2>1 DEF StreamInv
<1>6. CleanInv'
  BY <1>1, <1>2, <1>4 DEF GeneratorInv, CleanInv, Cause, Config
<1> QED
  BY <1>3, <1>4, <1>5, <1>6 DEF GeneratorInv

\* The arrays are filled: too many parameters are a cause.
LEMMA FillKeeps ==
  ASSUME GeneratorInv, FillArrays
  PROVE  GeneratorInv'
<1>1. /\ pc = "loop" /\ pc' = "header" /\ next <= Len(Config) /\ ~Refused(Current)
      /\ UNCHANGED <<file, next, written, disk, settled, fault>>
      /\ sound' = (sound /\ Len(Current.params) <= Fit)
  BY DEF FillArrays, outVars
<1>2. TypeInv' /\ LoopInv' /\ StreamInv'
  BY <1>1 DEF GeneratorInv, TypeInv, LoopInv, StreamInv, Config, Current
<1>3. SettledInv' /\ CleanOrCaused' /\ fault' = "none"
  BY <1>1, GoesOn
<1>4. Cause' = Cause
  BY <1>1 DEF Cause, Config
<1>5. ASSUME ~sound' PROVE Cause
  <2>1. CASE ~sound
    BY <1>1, <2>1 DEF GeneratorInv, CleanInv
  <2>2. CASE ~(Len(Current.params) <= Fit)
    <3>1. next \in 1..next
      BY DEF GeneratorInv, TypeInv
    <3>2. Len(Config[next].params) > Fit
      <4> DEFINE n == Len(Config[next].params)
      <4>1. n \in Nat
        <5>1. Config[next] \in Declaration
          BY <1>1, <3>1 DEF GeneratorInv, LoopInv, TypeInv
        <5>2. Config[next].params \in Seq({"string", "other"})
          BY <1>1, <5>1 DEF Refused, Current, Declaration, Lists
        <5> QED
          BY <5>2
      <4>2. ~(n <= Fit)
        BY <2>2 DEF Current
      <4> HIDE DEF n
      <4>3. n > Fit
        BY <4>1, <4>2, GeneratorAssumption
      <4> QED
        BY <4>3 DEF n
    <3> QED
      BY <1>1, <3>1, <3>2 DEF Cause, Current
  <2> QED
    BY <1>1, <1>5, <2>1, <2>2
<1>6. CleanInv'
  BY <1>1, <1>3, <1>4, <1>5 DEF CleanInv
<1> QED
  BY <1>2, <1>3, <1>6 DEF GeneratorInv

\* One method, or none, at the end of a stream.
LEMMA MethodWritten ==
  ASSUME TypeInv, pc # "ended", NEW o \in Output,
         Stream(written[o], file, Upto(file, next - 1), FALSE),
         written' = IF Skipped(Current) THEN written
                    ELSE [written EXCEPT ![o] = Append(@, Piece(file, "method", next))]
  PROVE  /\ written' \in [Output -> Seq(Pieces) \cup {Null}]
         /\ Stream(written'[o], file, Upto(file, next), FALSE)
         /\ \A other \in Output : other # o => written'[other] = written[other]
<1> DEFINE s == written[o]
           t == Append(s, Piece(file, "method", next))
           M == Upto(file, next - 1)
<1>1. next \in Nat \ {0} /\ file \in File /\ written \in [Output -> Seq(Pieces) \cup {Null}]
  BY DEF TypeInv
<1>2. Upto(file, next) = IF Skipped(Current) THEN M ELSE M \cup {next}
  BY <1>1, UptoNext DEF Current, Config
<1>3. \A m \in M : m < next
  BY <1>1, UptoNext
<1>4. CASE Skipped(Current)
  BY <1>1, <1>2, <1>4
<1>5. CASE ~Skipped(Current)
  <2>1. written' = [written EXCEPT ![o] = t]
    BY <1>5
  <2>2. next \in Nat /\ Stream(s, file, M, FALSE)
    BY <1>1
  <2> HIDE DEF M, s
  <2>3. Stream(t, file, M \cup {next}, FALSE)
    BY <1>1, <1>3, <2>2, StreamMethod
  <2> HIDE DEF t
  <2>4. t \in Seq(Pieces)
    BY <2>3 DEF Stream
  <2> QED
    BY <1>1, <1>2, <1>5, <2>1, <2>3, <2>4
<1> QED
  BY <1>4, <1>5

\* The header is a method ahead.
LEMMA HeaderKeeps ==
  ASSUME GeneratorInv, WriteHeader
  PROVE  GeneratorInv'
<1>1. /\ pc = "header" /\ pc' = "source"
      /\ UNCHANGED <<file, next, arrays, sound, root, disk, settled, fault>>
      /\ written' = IF Skipped(Current) THEN written
                    ELSE [written EXCEPT !["h"] = Append(@, Piece(file, "method", next))]
  BY DEF WriteHeader, localVars
<1> DEFINE o == "h"
<1>2. /\ o \in Output /\ Stream(written[o], file, Upto(file, next - 1), FALSE)
      /\ Stream(written["c"], file, Upto(file, next - 1), FALSE)
      /\ written' = IF Skipped(Current) THEN written
                    ELSE [written EXCEPT ![o] = Append(@, Piece(file, "method", next))]
      /\ "c" \in Output /\ "c" # o
  BY <1>1 DEF GeneratorInv, StreamInv, Output
<1> HIDE DEF o
<1>3. /\ written' \in [Output -> Seq(Pieces) \cup {Null}]
      /\ Stream(written'[o], file, Upto(file, next), FALSE)
      /\ \A other \in Output : other # o => written'[other] = written[other]
  BY <1>1, <1>2, MethodWritten DEF GeneratorInv
<1>4. TypeInv' /\ LoopInv'
  BY <1>1, <1>3 DEF GeneratorInv, TypeInv, LoopInv, Config, Current
<1>5. StreamInv'
  <2>1. Stream(written'["c"], file, Upto(file, next - 1), FALSE)
    BY <1>2, <1>3
  <2> QED
    BY <1>1, <1>3, <2>1 DEF StreamInv, o
<1>6. SettledInv' /\ CleanOrCaused' /\ fault' = "none"
  BY <1>1, GoesOn
<1>7. CleanInv'
  BY <1>1, <1>6 DEF GeneratorInv, CleanInv, Cause, Config
<1> QED
  BY <1>4, <1>5, <1>6, <1>7 DEF GeneratorInv

\* The source catches up.
LEMMA SourceKeeps ==
  ASSUME GeneratorInv, WriteSource
  PROVE  GeneratorInv'
<1>1. /\ pc = "source" /\ pc' = "free"
      /\ UNCHANGED <<file, next, arrays, sound, root, disk, settled, fault>>
      /\ written' = IF Skipped(Current) THEN written
                    ELSE [written EXCEPT !["c"] = Append(@, Piece(file, "method", next))]
  BY DEF WriteSource, localVars
<1> DEFINE o == "c"
<1>2. /\ o \in Output /\ Stream(written[o], file, Upto(file, next - 1), FALSE)
      /\ Stream(written["h"], file, Upto(file, next), FALSE)
      /\ written' = IF Skipped(Current) THEN written
                    ELSE [written EXCEPT ![o] = Append(@, Piece(file, "method", next))]
      /\ "h" \in Output /\ "h" # o
  BY <1>1 DEF GeneratorInv, StreamInv, Output
<1> HIDE DEF o
<1>3. /\ written' \in [Output -> Seq(Pieces) \cup {Null}]
      /\ Stream(written'[o], file, Upto(file, next), FALSE)
      /\ \A other \in Output : other # o => written'[other] = written[other]
  BY <1>1, <1>2, MethodWritten DEF GeneratorInv
<1>4. TypeInv' /\ LoopInv'
  BY <1>1, <1>3 DEF GeneratorInv, TypeInv, LoopInv, Config, Current
<1>5. StreamInv'
  <2>1. \A other \in Output : other = "h" \/ other = o
    BY DEF Output, o
  <2>2. Stream(written'["h"], file, Upto(file, next), FALSE)
    BY <1>2, <1>3
  <2>3. \A other \in Output : Stream(written'[other], file, Upto(file, next), FALSE)
    BY <1>3, <2>1, <2>2
  <2> QED
    BY <1>1, <2>3 DEF StreamInv
<1>6. SettledInv' /\ CleanOrCaused' /\ fault' = "none"
  BY <1>1, GoesOn
<1>7. CleanInv'
  BY <1>1, <1>6 DEF GeneratorInv, CleanInv, Cause, Config
<1> QED
  BY <1>4, <1>5, <1>6, <1>7 DEF GeneratorInv

\* A process that dies settles nothing, and does not die without a cause.
LEMMA DeathKeeps ==
  ASSUME GeneratorInv, NEW where, where # "none", Die(where), Cause,
         UNCHANGED <<runs, file, localVars, written>>
  PROVE  GeneratorInv'
<1>1. pc' = "ended" /\ settled' = Null /\ fault' = where /\ UNCHANGED <<next, file, written>>
  BY DEF Die, localVars
<1>2. SettledInv'
  BY <1>1 DEF SettledInv
<1>3. Cause'
  BY <1>1 DEF Cause, Config
<1>4. CleanOrCaused'
  BY <1>1, <1>3 DEF CleanOrCaused, Cause
<1> QED
  BY <1>1, <1>2, <1>4, Ended

\* A type or name that is no string is a cause.
LEMMA CrashKeeps ==
  ASSUME GeneratorInv, SourceCrashes
  PROVE  GeneratorInv'
<1>1. pc = "source" /\ Die("null") /\ UNCHANGED <<runs, file, localVars, written>>
  BY DEF SourceCrashes
<1>2. PICK i \in DOMAIN Current.types : "other" \in {Current.types[i], Current.params[i]}
  BY DEF SourceCrashes
<1>3. next \in 1..next /\ next \in 1..Len(Config) /\ Config \in Seq(Declaration) /\ ~Refused(Current)
  BY <1>1 DEF GeneratorInv, TypeInv, LoopInv
<1>4. DOMAIN Current.types = DOMAIN Current.params
  <2>1. Current \in Declaration
    BY <1>3 DEF Current
  <2>2. /\ Current.params \in Seq({"string", "other"}) /\ Current.types \in Seq({"string", "other"})
        /\ Len(Current.params) = Len(Current.types)
    BY <1>3, <2>1 DEF Refused, Declaration, Lists
  <2> QED
    BY <2>2
<1>5. Cause
  BY <1>2, <1>3, <1>4 DEF Cause, Current
<1> DEFINE where == "null"
<1>6. Die(where) /\ where # "none"
  BY <1>1
<1> HIDE DEF where
<1> QED
  BY <1>1, <1>5, <1>6, DeathKeeps

\* A damaged heap has a cause.
LEMMA HeapKeeps ==
  ASSUME GeneratorInv, HeapAborts
  PROVE  GeneratorInv'
<1> DEFINE where == "heap"
<1>1. Die(where) /\ where # "none" /\ UNCHANGED <<runs, file, localVars, written>>
  BY DEF HeapAborts
<1>2. Cause
  BY DEF HeapAborts, GeneratorInv, CleanInv
<1> HIDE DEF where
<1> QED
  BY <1>1, <1>2, DeathKeeps

\* The next declaration.
LEMMA FreeKeeps ==
  ASSUME GeneratorInv, FreeArrays
  PROVE  GeneratorInv'
<1>1. /\ pc = "free" /\ pc' = "loop" /\ next' = next + 1 /\ arrays' = FALSE
      /\ UNCHANGED <<file, sound, root, written, disk, settled, fault>>
  BY DEF FreeArrays, outVars
<1>2. next \in Nat \ {0} /\ next + 1 \in Nat \ {0} /\ (next + 1) - 1 = next
  BY DEF GeneratorInv, TypeInv
<1>3. TypeInv'
  BY <1>1, <1>2 DEF GeneratorInv, TypeInv
<1>4. LoopInv'
  <2>1. /\ Config \in Seq(Declaration) /\ next <= Len(Config) /\ ~Refused(Config[next])
        /\ \A j \in 1..(next - 1) : ~Refused(Config[j])
    BY <1>1 DEF GeneratorInv, LoopInv, Current
  <2>2. \A j \in 1..next : ~Refused(Config[j])
    <3>1. 1..next = 1..(next - 1) \cup {next}
      BY <1>2
    <3> QED
      BY <2>1, <3>1
  <2>3. next' - 1 = next /\ Config' = Config
    BY <1>1, <1>2 DEF Config
  <2> QED
    BY <1>1, <2>1, <2>2, <2>3 DEF LoopInv
<1>5. StreamInv'
  <2>1. next' - 1 = next
    BY <1>1, <1>2
  <2>2. \A o \in Output : Stream(written'[o], file', Upto(file', next' - 1), FALSE)
    BY <1>1, <2>1 DEF GeneratorInv, StreamInv
  <2> QED
    BY <1>1, <2>2 DEF StreamInv
<1>6. SettledInv' /\ CleanOrCaused' /\ fault' = "none"
  BY <1>1, GoesOn
<1>7. Cause => Cause'
  <2>1. 1..next \subseteq 1..next'
    BY <1>1, <1>2
  <2> QED
    BY <1>1, <2>1 DEF Cause, Config
<1>8. CleanInv'
  BY <1>1, <1>6, <1>7 DEF GeneratorInv, CleanInv
<1> QED
  BY <1>3, <1>4, <1>5, <1>6, <1>8 DEF GeneratorInv

\* The header is closed when every declaration was accepted.
LEMMA FinishKeeps ==
  ASSUME GeneratorInv, Finish
  PROVE  GeneratorInv'
<1>1. /\ pc = "loop" /\ next > Len(Config) /\ pc' = "out"
      /\ written' = [written EXCEPT !["h"] = Append(@, Piece(file, "tail", 0))]
      /\ UNCHANGED <<file, next, arrays, sound, root, disk, settled, fault>>
  BY DEF Finish, localVars
<1>2. /\ next \in Nat \ {0} /\ file \in File /\ Json[file] \in Seq(Declaration)
      /\ next - 1 <= Len(Json[file]) /\ \A j \in 1..(next - 1) : ~Refused(Json[file][j])
      /\ written \in [Output -> Seq(Pieces) \cup {Null}]
  BY <1>1 DEF GeneratorInv, TypeInv, LoopInv, Config
<1> DEFINE n == next - 1
           M == Upto(file, n)
           s == written["h"]
           t == Append(s, Piece(file, "tail", 0))
<1>3. Stream(s, file, M, FALSE) /\ Stream(written["c"], file, M, FALSE)
  BY <1>1 DEF GeneratorInv, StreamInv, Output
<1>4. n \in Nat /\ n <= Len(Json[file]) /\ n = Len(Json[file]) /\ \A j \in 1..n : ~Refused(Json[file][j])
  <2> DEFINE length == Len(Json[file])
  <2>1. length \in Nat
    BY <1>2
  <2>2. next > length /\ next - 1 <= length
    BY <1>1, <1>2 DEF Config
  <2> HIDE DEF length
  <2>3. next - 1 = length /\ next - 1 \in Nat
    BY <1>2, <2>1, <2>2
  <2> QED
    BY <1>2, <2>3 DEF length
<1>5. written' = [written EXCEPT !["h"] = t]
  BY <1>1
<1>6. M \in SUBSET Nat
  BY DEF Upto
<1> HIDE DEF n
<1>7. /\ \A m \in M : m \in Covered(file)
      /\ M = Covered(file) /\ \A d \in DOMAIN Json[file] : ~Refused(Json[file][d])
  BY <1>2, <1>4, CoveredUpto
<1> HIDE DEF M, s
<1>8. Stream(t, file, M, TRUE)
  BY <1>2, <1>3, StreamTail
<1> HIDE DEF t
<1>9. written'["h"] = t /\ written'["c"] = written["c"]
      /\ written' \in [Output -> Seq(Pieces) \cup {Null}]
  <2>1. t \in Seq(Pieces)
    BY <1>8 DEF Stream
  <2> QED
    BY <1>2, <1>5, <2>1 DEF Output
<1>10. Agree(t, written["c"], file)
  BY <1>3, <1>6, <1>7, <1>8 DEF Agree
<1>11. TypeInv' /\ LoopInv'
  BY <1>1, <1>9 DEF GeneratorInv, TypeInv, LoopInv
<1>12. StreamInv'
  BY <1>1, <1>9, <1>10 DEF StreamInv
<1>13. SettledInv' /\ CleanOrCaused' /\ fault' = "none"
  BY <1>1, GoesOn
<1>14. CleanInv'
  BY <1>1, <1>13 DEF GeneratorInv, CleanInv, Cause, Config
<1> QED
  BY <1>11, <1>12, <1>13, <1>14 DEF GeneratorInv

\* What the streams held is on the disk.
LEMMA OutKeeps ==
  ASSUME GeneratorInv, Out
  PROVE  GeneratorInv'
<1>1. /\ pc = "out" /\ CleanUp /\ Exit /\ UNCHANGED <<file, next, arrays, written>>
  BY DEF Out
<1>2. Agree(written["h"], written["c"], file) /\ ~arrays
  BY <1>1 DEF GeneratorInv, StreamInv, CleanInv
<1>3. \A o \in Output : written[o] # Null
  BY <1>2, GeneratorAssumption DEF Agree, Stream, Output
<1>4. disk'["h"] = written["h"] /\ disk'["c"] = written["c"] /\ settled' = file
  BY <1>1, <1>3 DEF Exit, Output
<1>5. SettledInv'
  BY <1>2, <1>4 DEF SettledInv
<1>6. CleanOrCaused'
  BY <1>1, <1>2 DEF CleanOrCaused, CleanUp, Exit
<1>7. pc' = "ended"
  BY <1>1 DEF Exit
<1> QED
  BY <1>1, <1>5, <1>6, <1>7, Ended

\* Nothing happens.
LEMMA StutterKeeps ==
  ASSUME GeneratorInv, UNCHANGED vars
  PROVE  GeneratorInv'
<1>1. /\ UNCHANGED <<pc, runs, file, next, fd, jsonBuf, root, arrays, sound>>
      /\ UNCHANGED <<written, disk, fault, settled>>
  BY DEF vars, localVars, outVars
<1>2. TypeInv' /\ SettledInv'
  BY <1>1 DEF GeneratorInv, TypeInv, SettledInv
<1>3. LoopInv'
  BY <1>1 DEF GeneratorInv, LoopInv, Config, Current
<1>4. StreamInv'
  BY <1>1 DEF GeneratorInv, StreamInv
<1>5. Cause' = Cause
  BY <1>1 DEF Cause, Config
<1>6. CleanOrCaused'
  BY <1>1 DEF GeneratorInv, CleanInv, CleanOrCaused, Config
<1>7. CleanInv'
  BY <1>1, <1>5, <1>6 DEF GeneratorInv, CleanInv
<1> QED
  BY <1>2, <1>3, <1>4, <1>7 DEF GeneratorInv

-------------------------------------------------------------------------------
(* The theorems *)

\* The inductive invariant of the generator.
THEOREM GeneratorInvHolds == Spec => []GeneratorInv
<1>1. GeneratorInv /\ [Next]_vars => GeneratorInv'
  <2> SUFFICES ASSUME GeneratorInv, [Next]_vars PROVE GeneratorInv'
    OBVIOUS
  <2>1. CASE UNCHANGED vars
    BY <2>1, StutterKeeps
  <2>2. ASSUME NEW f \in File, Start(f) PROVE GeneratorInv'
    BY <2>2, StartKeeps
  <2>3. ASSUME NEW buf \in {"null", "block"}, ReadFails(buf) PROVE GeneratorInv'
    BY <2>3, ReadFailsKeeps
  <2>4. ASSUME NEW opened \in SUBSET Output, CreateFails(opened) PROVE GeneratorInv'
    BY <2>4, CreateFailsKeeps
  <2>5. CASE Create \/ Parse \/ Refuse \/ ArraysFail \/ FillArrays
    BY <2>5, CreateKeeps, ParseKeeps, StopKeeps, FillKeeps
  <2>6. CASE WriteHeader \/ WriteSource \/ SourceCrashes \/ FreeArrays
    BY <2>6, HeaderKeeps, SourceKeeps, CrashKeeps, FreeKeeps
  <2>7. CASE Finish \/ Out \/ HeapAborts
    BY <2>7, FinishKeeps, OutKeeps, HeapKeeps
  <2> QED
    BY <2>1, <2>2, <2>3, <2>4, <2>5, <2>6, <2>7 DEF Next, Finished
<1> QED
  BY <1>1, GeneratorInit, PTL DEF Spec

\* However many runs came before and however they ended: header and source agree after
\* a run that returned, and after one that failed before it touched them.
THEOREM FilesAgree == Spec => []OutputsAgree
<1>1. ASSUME GeneratorInv, settled # Null
      PROVE  /\ Methods(disk["h"]) = Methods(disk["c"])
             /\ \A o \in Output :
                  /\ \A i \in DOMAIN disk[o] : disk[o][i].file = settled
                  /\ \A i, j \in MethodsAt(disk[o]) : i < j => disk[o][i].index < disk[o][j].index
             /\ \A m \in Methods(disk["c"]) : m \in Covered(settled)
             /\ (\E i \in DOMAIN disk["h"] : disk["h"][i].kind = "tail") =>
                  /\ \A d \in DOMAIN Json[settled] : ~Refused(Json[settled][d])
                  /\ Methods(disk["c"]) = Covered(settled)
  <2>1. PICK M \in SUBSET Nat, tailed \in BOOLEAN :
          /\ Stream(disk["h"], settled, M, tailed) /\ Stream(disk["c"], settled, M, FALSE)
          /\ \A m \in M : m \in Covered(settled)
          /\ tailed => /\ \A d \in DOMAIN Json[settled] : ~Refused(Json[settled][d])
                       /\ M = Covered(settled)
    BY <1>1 DEF GeneratorInv, SettledInv, Agree
  <2>2. \A o \in Output : o = "h" \/ o = "c"
    BY DEF Output
  <2>3. Methods(disk["h"]) = M /\ Methods(disk["c"]) = M
    BY <2>1 DEF Stream
  <2>4. \A o \in Output :
          /\ \A i \in DOMAIN disk[o] : disk[o][i].file = settled
          /\ \A i, j \in MethodsAt(disk[o]) : i < j => disk[o][i].index < disk[o][j].index
    BY <2>1, <2>2 DEF Stream
  <2>5. (\E i \in DOMAIN disk["h"] : disk["h"][i].kind = "tail") => tailed
    BY <2>1 DEF Stream
  <2> QED
    BY <2>1, <2>3, <2>4, <2>5
<1>2. GeneratorInv => OutputsAgree
  BY <1>1 DEF OutputsAgree
<1> QED
  BY <1>2, GeneratorInvHolds, PTL

\* A run that returns gave back what it took; one that does not was not able to read or
\* open a file, or met a declaration that the generator does not survive.
THEOREM CrashesHaveCauses == Spec => []CleanOrCaused
<1>1. GeneratorInv => CleanOrCaused
  BY DEF GeneratorInv, CleanInv
<1> QED
  BY <1>1, GeneratorInvHolds, PTL
===============================================================================
