------------------------------ MODULE RpcGenerator ------------------------------
(***************************************************************************)
(* The stub generator: rpc_generate_method_code reads a registration file  *)
(* and writes rpc_method.h and rpc_method.c, one declaration at a time.    *)
(*                                                                         *)
(* A piece of output is what one call of a writing function puts in: the   *)
(* head of a file, the text of one method, the tail of the header.  The    *)
(* streams are never closed: what was written reaches the disk when main   *)
(* returns, and when the process dies before, only a part of it does.  The *)
(* disk never fills up.  Several runs follow each other in one directory.  *)
(***************************************************************************)
EXTENDS Integers, Sequences

CONSTANTS
  File,     \* registration files
  Json,     \* what each parses to: its "config", Null if there is none, or NoJson
  NoJson,
  Fit,      \* pointers that fit in the smallest block of malloc: 3 in glibc
  MaxRuns,  \* bound on the runs of the generator
  Null

\* What an item of the JSON is: missing, a string, or something else.
Items == {Null, "string", "other"}

\* One element of "config".  "params" and "types" are lists, or missing.
Lists == Seq({"string", "other"}) \cup {Null}
Declaration == [method : Items, rettype : Items, params : Lists, types : Lists]

\* What a call of a writing function puts into a file.
Pieces == [file : File, kind : {"head", "method", "tail"}, index : Nat]

ASSUME GeneratorAssumption ==
  /\ Null # NoJson /\ Null \notin Seq(Pieces)
  /\ Json \in [File -> Seq(Declaration) \cup {Null, NoJson}]
  /\ Fit \in Nat /\ MaxRuns \in Nat

Output == {"h", "c"}

VARIABLES
  pc,       \* where in rpc_generate_method_code the process is; "ended" between runs
  runs,     \* runs begun
  file,     \* its argument
  next,     \* i of the loop over "config", from 1
  fd,       \* the registration file: "open" or "closed"
  jsonBuf,  \* json_buf: "unset", "null", "block", "freed"
  root,     \* root: "unset", "null", "tree", "deleted"
  arrays,   \* param_str_arr and type_str_arr are allocated
  sound,    \* nothing was written past a block of the heap
  written,  \* the pieces put into each stream of this run
  disk,     \* the pieces in each file
  fault,    \* what ended the last run: "none" or where it crashed
  settled   \* the file of the last run that opened the streams; Null if it crashed

localVars == <<next, fd, jsonBuf, root, arrays, sound>>
outVars   == <<written, disk, fault, settled>>
vars == <<pc, runs, file, localVars, outVars>>

Config == Json[file]
Current == Config[next]

Piece(f, kind, i) == [file |-> f, kind |-> kind, index |-> i]

-------------------------------------------------------------------------------
(* The end of a run *)

\* main returns, and exit writes out what the streams hold.
Exit ==
  /\ pc' = "ended"
  /\ fault' = "none"
  /\ disk' = [o \in Output |-> IF written[o] = Null THEN disk[o] ELSE written[o]]
  /\ settled' = IF \A o \in Output : written[o] # Null THEN file ELSE settled

\* The process dies: of each stream a beginning has reached its file.
Die(where) ==
  /\ pc' = "ended"
  /\ fault' = where
  /\ \E n \in [Output -> 0..Len(written["h"] \o written["c"])] :
       /\ \A o \in Output : n[o] <= Len(written[o])
       /\ disk' = [o \in Output |-> SubSeq(written[o], 1, n[o])]
  /\ settled' = Null

\* It dies before it opened both streams; one that is open is empty.
DieEarly(where, opened) ==
  /\ pc' = "ended"
  /\ fault' = where
  /\ disk' = [o \in Output |-> IF o \in opened THEN <<>> ELSE disk[o]]
  /\ settled' = IF opened = {} THEN settled ELSE Null

\* Everything after the label out, once the streams are open and root is set: the
\* tests for the streams are the wrong way round, so neither is closed.
CleanUp ==
  /\ fd' = "closed" /\ jsonBuf' = "freed"
  /\ root' = IF root = "tree" THEN "deleted" ELSE root

-------------------------------------------------------------------------------
(* Before the first declaration *)

\* main's call; the files of an earlier run are as that run left them.  If the
\* registration file cannot be opened, the run returns at once.
Start(f) ==
  /\ pc = "ended" /\ runs < MaxRuns
  /\ \/ pc' = "opened" /\ fd' = "open"
     \/ pc' = "ended" /\ fd' = "closed"
  /\ runs' = runs + 1 /\ file' = f
  /\ next' = 1 /\ jsonBuf' = "unset" /\ root' = "unset"
  /\ arrays' = FALSE /\ sound' = TRUE /\ written' = [o \in Output |-> Null]
  /\ fault' = "none"
  /\ UNCHANGED <<disk, settled>>

\* malloc or read fails: out is reached with the streams and root never set.
\* They hold whatever was there, zero or not: fclose(NULL) and cJSON_Delete of a
\* wild pointer end the process.
ReadFails(buf) ==
  /\ pc = "opened"
  /\ fd' = "closed"
  /\ jsonBuf' = IF buf = "null" THEN "null" ELSE "freed"
  /\ \E wild \in SUBSET (Output \cup {"root"}) :
       IF Output \subseteq wild /\ "root" \notin wild THEN Exit ELSE DieEarly("unset", {})
  /\ UNCHANGED <<runs, file, next, root, arrays, sound, written>>

\* A fopen with mode "w" empties the old file.
Create ==
  /\ pc = "opened"
  /\ jsonBuf' = "block"
  /\ pc' = "parse"
  /\ written' = [o \in Output |-> << Piece(file, "head", 0) >>]
  /\ disk' = [o \in Output |-> <<>>] /\ settled' = Null
  /\ UNCHANGED <<runs, file, next, fd, root, arrays, sound, fault>>

\* One of the streams, or both, cannot be opened: fclose(NULL).
CreateFails(opened) ==
  /\ pc = "opened"
  /\ opened # Output
  /\ fd' = "closed" /\ jsonBuf' = "block"
  /\ DieEarly("fclose", opened)
  /\ UNCHANGED <<runs, file, next, root, arrays, sound, written>>

\* The buffer has no terminating zero, so what follows the text is left unread
\* only because cJSON_Parse stops at the end of the value.
Parse ==
  /\ pc = "parse"
  /\ root' = IF Config = NoJson THEN "null" ELSE "tree"
  /\ pc' = IF Config \in {NoJson, Null} THEN "out" ELSE "loop"
  /\ UNCHANGED <<runs, file, next, fd, jsonBuf, arrays, sound, outVars>>

-------------------------------------------------------------------------------
(* One declaration *)

\* A field is missing, or the lists differ in length.
Refused(d) ==
  \/ d.method = Null \/ d.rettype = Null \/ d.params = Null \/ d.types = Null
  \/ Len(d.params) # Len(d.types)

\* A name or return type that is no string: both writing functions return at once.
Skipped(d) == d.method # "string" \/ d.rettype # "string"

\* The first refused declaration ends the run, with the files as they are.
Refuse ==
  /\ pc = "loop" /\ next <= Len(Config)
  /\ Refused(Current)
  /\ pc' = "out"
  /\ UNCHANGED <<runs, file, localVars, outVars>>

\* malloc fails for one of the arrays; the other is freed.
ArraysFail ==
  /\ pc = "loop" /\ next <= Len(Config)
  /\ ~Refused(Current)
  /\ pc' = "out"
  /\ UNCHANGED <<runs, file, localVars, outVars>>

\* Both arrays get as many bytes as there are parameters, and as many pointers are
\* stored in them.
FillArrays ==
  /\ pc = "loop" /\ next <= Len(Config)
  /\ ~Refused(Current)
  /\ arrays' = TRUE
  /\ sound' = (sound /\ Len(Current.params) <= Fit)
  /\ pc' = "header"
  /\ UNCHANGED <<runs, file, next, fd, jsonBuf, root, outVars>>

\* Mutant: the header is written also for a return type that is no string.
HeaderOfAny ==
  /\ pc = "header"
  /\ pc' = "source"
  /\ written' = IF Current.method # "string" THEN written
                ELSE [written EXCEPT !["h"] = Append(@, Piece(file, "method", next))]
  /\ UNCHANGED <<runs, file, localVars, disk, fault, settled>>

\* rpc_generate_h_method.  A NULL among the names is printed as "(null)".
WriteHeader ==
  /\ pc = "header"
  /\ pc' = "source"
  /\ written' = IF Skipped(Current) THEN written
                ELSE [written EXCEPT !["h"] = Append(@, Piece(file, "method", next))]
  /\ UNCHANGED <<runs, file, localVars, disk, fault, settled>>

\* rpc_generate_c_method.
WriteSource ==
  /\ pc = "source"
  /\ ~Skipped(Current) => \A i \in DOMAIN Current.types : Current.types[i] = "string"
  /\ pc' = "free"
  /\ written' = IF Skipped(Current) THEN written
                ELSE [written EXCEPT !["c"] = Append(@, Piece(file, "method", next))]
  /\ UNCHANGED <<runs, file, localVars, disk, fault, settled>>

\* strcmp of a type that is no string, or, where the compiler turns a fprintf of
\* "%s" into fputs, the output of a name that is none.
SourceCrashes ==
  /\ pc = "source"
  /\ ~Skipped(Current)
  /\ \E i \in DOMAIN Current.types : "other" \in {Current.types[i], Current.params[i]}
  /\ Die("null")
  /\ UNCHANGED <<runs, file, localVars, written>>

\* Mutant: the arrays are freed once, after the loop.
FreeArraysLate ==
  /\ pc = "free"
  /\ arrays' = (next < Len(Config))
  /\ next' = next + 1 /\ pc' = "loop"
  /\ UNCHANGED <<runs, file, fd, jsonBuf, root, sound, outVars>>

FreeArrays ==
  /\ pc = "free"
  /\ arrays' = FALSE
  /\ next' = next + 1 /\ pc' = "loop"
  /\ UNCHANGED <<runs, file, fd, jsonBuf, root, sound, outVars>>

-------------------------------------------------------------------------------
(* After the last declaration *)

Finish ==
  /\ pc = "loop" /\ next > Len(Config)
  /\ written' = [written EXCEPT !["h"] = Append(@, Piece(file, "tail", 0))]
  /\ pc' = "out"
  /\ UNCHANGED <<runs, file, localVars, disk, fault, settled>>

\* The result is -1 on every path.
Out ==
  /\ pc = "out"
  /\ CleanUp /\ Exit
  /\ UNCHANGED <<runs, file, next, arrays, sound, written>>

\* Once the heap is damaged, malloc, free or a stream's first write may abort.
HeapAborts ==
  /\ ~sound /\ pc \in {"loop", "header", "source", "free", "out"}
  /\ Die("heap")
  /\ UNCHANGED <<runs, file, localVars, written>>

-------------------------------------------------------------------------------
Init ==
  /\ pc = "ended" /\ runs = 0 /\ file = Null
  /\ next = 1 /\ fd = "closed" /\ jsonBuf = "unset" /\ root = "unset"
  /\ arrays = FALSE /\ sound = TRUE
  /\ written = [o \in Output |-> Null] /\ disk = [o \in Output |-> <<>>]
  /\ fault = "none" /\ settled = Null

\* The runs are over.
Finished == pc = "ended" /\ runs = MaxRuns /\ UNCHANGED vars

Next ==
  \/ \E f \in File : Start(f)
  \/ \E buf \in {"null", "block"} : ReadFails(buf)
  \/ Create \/ Parse
  \/ \E opened \in SUBSET Output : CreateFails(opened)
  \/ Refuse \/ ArraysFail \/ FillArrays
  \/ WriteHeader \/ WriteSource \/ SourceCrashes \/ FreeArrays
  \/ Finish \/ Out \/ HeapAborts
  \/ Finished

Spec == Init /\ [][Next]_vars
-------------------------------------------------------------------------------
(* Properties *)

\* The positions of methods in a file, and which methods they are.
MethodsAt(pieces) == {i \in DOMAIN pieces : pieces[i].kind = "method"}
Methods(pieces) == {pieces[i].index : i \in MethodsAt(pieces)}

\* The declarations of a file that stubs are written for: those before the first
\* refused one whose name and return type are strings.
Covered(f) ==
  {i \in DOMAIN Json[f] : /\ \A j \in 1..i : ~Refused(Json[f][j])
                          /\ ~Skipped(Json[f][i])}

\* However earlier runs ended: after a run that returned, or one that failed before
\* it touched the files, both files come from the same registration, declare and
\* define the same methods in the same order, only methods that are fit to be
\* written, and all of those if the header is closed, which a header is only when
\* no declaration was refused.
OutputsAgree ==
  pc = "ended" /\ settled # Null =>
    /\ Methods(disk["h"]) = Methods(disk["c"])
    /\ \A o \in Output :
         /\ \A i \in DOMAIN disk[o] : disk[o][i].file = settled
         /\ \A i, j \in MethodsAt(disk[o]) : i < j => disk[o][i].index < disk[o][j].index
    /\ \A m \in Methods(disk["c"]) : m \in Covered(settled)
    /\ (\E i \in DOMAIN disk["h"] : disk["h"][i].kind = "tail") =>
         /\ \A d \in DOMAIN Json[settled] : ~Refused(Json[settled][d])
         /\ Methods(disk["c"]) = Covered(settled)

\* A run that returns has given back what it took, and a run crashes only because
\* reading or opening a file failed, a method has more parameters than happen to
\* fit, or a name or type of a parameter is no string.
CleanOrCaused ==
  pc = "ended" /\ runs > 0 =>
    IF fault = "none"
    THEN fd = "closed" /\ jsonBuf # "block" /\ root # "tree" /\ ~arrays
    ELSE \/ written = [o \in Output |-> Null]
         \/ \E i \in 1..next :
              /\ ~Refused(Config[i])
              /\ \/ Len(Config[i].params) > Fit
                 \/ \E j \in DOMAIN Config[i].params :
                      "other" \in {Config[i].params[j], Config[i].types[j]}
===============================================================================
