------------------------------- MODULE Loader -------------------------------
(* Loading the rule file (ReadFilterFile, LoadFilters and ReadFilter of utils.c).  The file
   is a sequence of tokens: "@", "field" for a field in the form its place wants, and
   "other" for the rest of a line and for anything else.  End of file is known only
   once a read has run into it.  The file can become unreadable (a directory is from the
   start): then every read fails, and the end is not met.                       *)
EXTENDS Integers, Sequences, FiniteSets

CONSTANTS Files,        \* the rule files
          FIELDS,       \* fields of a filter (5 in the code)
          MAXFILTERS    \* size of filtArr (65535 in the code)

Tokens == {"@", "field", "other"}

ASSUME LoaderAssumption ==
  /\ FIELDS \in Nat \ {0} /\ MAXFILTERS \in Nat \ {0}
  /\ \A f \in Files : f \in Seq(Tokens)

VARIABLES file, pos,     \* the file and how much of it is read
          readable,      \* reads of the file still succeed
          feof,          \* a read has met the end of the file
          pc,            \* "load", "scan", "fields", "loaded", "exit" or "overrun"
          validfilter,   \* the last character read by ReadFilter
          fields,        \* fields of tempfilt that have been read
          line,          \* calls of ReadFilter so far
          filtArr        \* the costs of the filters stored

vars == <<file, pos, readable, feof, pc, validfilter, fields, line, filtArr>>

Init ==
  /\ file \in Files
  /\ pos = 0 /\ readable = TRUE /\ feof = FALSE
  /\ pc = "load" /\ validfilter = "other" /\ fields = 0
  /\ line = 0 /\ filtArr = <<>>

(* The loop of LoadFilters.  validfilter is not initialized in ReadFilter: what a call
   finds there can be an '@' or not.                                            *)
LoadFilters ==
  /\ pc = "load"
  /\ \/ feof /\ pc' = "loaded" /\ UNCHANGED validfilter
     \/ ~feof /\ pc' = "scan" /\ validfilter' \in {"@", "other"}
  /\ UNCHANGED <<file, pos, readable, feof, fields, line, filtArr>>

(* From here on no read succeeds. *)
ReadsFail ==
  /\ pc \in {"load", "scan", "fields"} /\ readable
  /\ readable' = FALSE
  /\ UNCHANGED <<file, pos, feof, pc, validfilter, fields, line, filtArr>>

(* A slip: the end of the file is not looked for while characters are skipped. *)
Skip_Forever ==
  /\ pc = "scan"
  /\ validfilter' = (IF readable /\ pos < Len(file) THEN file[pos + 1] ELSE validfilter)
  /\ pos' = (IF readable /\ pos < Len(file) THEN pos + 1 ELSE pos)
  /\ pc' = (IF validfilter' = "@" THEN "fields" ELSE "scan")
  /\ fields' = 0
  /\ UNCHANGED <<file, readable, feof, line, filtArr>>

(* A turn of ReadFilter's loop: a character that is not '@' is skipped.  A read that fails
   leaves validfilter as it was, and only the end of the file sets the flag the loop
   looks at.                                                                    *)
Skip ==
  /\ pc = "scan" /\ ~feof
  /\ \/ /\ readable /\ pos < Len(file)
        /\ pos' = pos + 1 /\ validfilter' = file[pos + 1] /\ UNCHANGED feof
     \/ readable /\ pos = Len(file) /\ feof' = TRUE /\ UNCHANGED <<pos, validfilter>>
     \/ ~readable /\ UNCHANGED <<pos, validfilter, feof>>
  /\ pc' = IF validfilter' = "@" THEN "fields" ELSE "scan"
  /\ fields' = 0
  /\ UNCHANGED <<file, readable, line, filtArr>>

(* ReadFilter returns -1. *)
NoFilter ==
  /\ pc = "scan" /\ feof
  /\ pc' = "load"
  /\ line' = line + 1
  /\ UNCHANGED <<file, pos, readable, feof, validfilter, fields, filtArr>>

(* A slip: every field must be followed by something. *)
FieldNext_Followed == readable /\ pos + 1 < Len(file) /\ file[pos + 1] = "field"

FieldNext == readable /\ pos < Len(file) /\ file[pos + 1] = "field"

(* ReadIPRange, ReadPort and ReadProtocol.  The last field is a number: if the file ends with
   it, reading it meets the end.                                                *)
ReadField ==
  /\ pc = "fields" /\ fields < FIELDS
  /\ FieldNext
  /\ pos' = pos + 1
  /\ fields' = fields + 1
  /\ feof' = (fields' = FIELDS /\ pos' = Len(file))
  /\ UNCHANGED <<file, readable, pc, validfilter, line, filtArr>>

(* They exit when the field is not there. *)
IllFormat ==
  /\ pc = "fields" /\ fields < FIELDS
  /\ ~FieldNext
  /\ pc' = "exit"
  /\ UNCHANGED <<file, pos, readable, feof, validfilter, fields, line, filtArr>>

Full == Len(filtArr) >= MAXFILTERS

(* A slip: only the lines without a filter are counted. *)
StoreFilter_SameLine ==
  /\ pc = "fields" /\ fields = FIELDS
  /\ ~Full
  /\ filtArr' = Append(filtArr, line)
  /\ pc' = "load"
  /\ UNCHANGED <<file, pos, readable, feof, validfilter, fields, line>>

(* The filter goes into the array, its place in the file as its cost. *)
StoreFilter ==
  /\ pc = "fields" /\ fields = FIELDS
  /\ ~Full
  /\ filtArr' = Append(filtArr, line)
  /\ line' = line + 1
  /\ pc' = "load"
  /\ UNCHANGED <<file, pos, readable, feof, validfilter, fields>>

(* The array is full and nothing checks it. *)
Overrun ==
  /\ pc = "fields" /\ fields = FIELDS
  /\ Full
  /\ pc' = "overrun"
  /\ UNCHANGED <<file, pos, readable, feof, validfilter, fields, line, filtArr>>

Step == LoadFilters \/ Skip \/ NoFilter \/ ReadField \/ IllFormat \/ StoreFilter \/ Overrun

Next == Step \/ ReadsFail

(* The program goes on; nothing says that reads must fail. *)
Spec == Init /\ [][Next]_vars /\ WF_vars(Step)
-----------------------------------------------------------------------------
Ats == {p \in DOMAIN file : file[p] = "@"}

(* Every '@' is followed by the fields of a filter. *)
WellFormed ==
  \A p \in Ats : p + FIELDS <= Len(file) /\ \A i \in 1 .. FIELDS : file[p + i] = "field"

(* A loaded file was well formed; its filters are all there and in the order of the file,
   each with its position as its cost, so that rules that come first win.       *)
LoadedInOrder ==
  pc = "loaded" =>
    /\ WellFormed
    /\ filtArr = [i \in 1 .. Cardinality(Ats) |-> i - 1]

(* The program gives up only on a file that is not well formed or cannot be read to its end,
   or on an empty one (where the uninitialized validfilter may pass for an '@'). *)
ExitJustified == pc = "exit" => ~WellFormed \/ file = <<>> \/ ~readable

(* utils-inl.h: "support 64K rules", one more than MAXFILTERS. *)
SUPPORTED == MAXFILTERS + 1

(* A file with no more rules than are supported is stored inside filtArr. *)
SupportedFit == pc = "overrun" => Cardinality(Ats) > SUPPORTED
-----------------------------------------------------------------------------
(* The inductive invariant.  Each '@' read so far has its filter stored, but for the one
   whose fields are being read.                                   *)
TypeOK ==
  /\ file \in Seq(Tokens)
  /\ pos \in 0 .. Len(file) /\ readable \in BOOLEAN /\ feof \in BOOLEAN
  /\ pc \in {"load", "scan", "fields", "loaded", "exit", "overrun"}
  /\ validfilter \in Tokens
  /\ fields \in 0 .. FIELDS
  /\ line \in Nat
  /\ filtArr \in Seq(Nat)

AtsTo(p) == {q \in 1 .. p : file[q] = "@"}

(* The '@'s up to p are all followed by their fields, which end at p or before. *)
FormedTo(p) ==
  \A q \in AtsTo(p) : q + FIELDS <= p /\ \A i \in 1 .. FIELDS : file[q + i] = "field"

Between ==
  /\ Cardinality(AtsTo(pos)) = Len(filtArr)
  /\ FormedTo(pos)

Within ==
  /\ pos - fields \in 1 .. Len(file)
  /\ file[pos - fields] = "@"
  /\ \A i \in 1 .. fields : file[pos - fields + i] = "field"
  /\ Cardinality(AtsTo(pos)) = Len(filtArr) + 1
  /\ FormedTo(pos - fields - 1)

(* Unless its end has been met there is something left in the file. *)
More == ~feof => pos < Len(file) \/ file = <<>>

IInv ==
  /\ TypeOK
  /\ feof => pos = Len(file)
  /\ \A i \in 1 .. Len(filtArr) : filtArr[i] = i - 1
  /\ pc \in {"load", "scan", "loaded"} => Between
  /\ pc = "loaded" => feof
  /\ pc \in {"scan", "fields"} \/ (pc = "load" /\ ~feof) => line = Len(filtArr)
  /\ pc = "load" => More
  /\ pc = "scan" /\ validfilter = "@" => More
  /\ pc = "fields" =>
       \/ Within /\ (fields = FIELDS => More)
       \/ fields = 0 /\ (file = <<>> \/ ~readable)
  /\ ExitJustified
=============================================================================
