---------------------------- MODULE LoaderProofs ----------------------------
(* What the loader does to every file, for every number of fields and array size. *)
EXTENDS Loader, FiniteSetTheorems, TLAPS

(* The '@'s of a part of the file are finitely many and are '@'s of the file. *)
LEMMA AtsFacts ==
  ASSUME TypeOK, NEW p \in 0 .. Len(file)
  PROVE  /\ IsFiniteSet(AtsTo(p)) /\ Cardinality(AtsTo(p)) \in Nat
         /\ IsFiniteSet(Ats) /\ Cardinality(Ats) \in Nat
         /\ Cardinality(AtsTo(p)) <= Cardinality(Ats)
         /\ p = Len(file) => AtsTo(p) = Ats
<1>1. Len(file) \in Nat /\ DOMAIN file = 1 .. Len(file)
  BY DEF TypeOK
<1>2. AtsTo(p) \subseteq Ats /\ Ats \subseteq 1 .. Len(file)
  BY <1>1 DEF AtsTo, Ats
<1>3. IsFiniteSet(1 .. Len(file))
  BY <1>1, FS_Interval
<1>4. IsFiniteSet(Ats)
  BY <1>2, <1>3, FS_Subset
<1>5. IsFiniteSet(AtsTo(p)) /\ Cardinality(AtsTo(p)) <= Cardinality(Ats)
  BY <1>2, <1>4, FS_Subset
<1>6. Cardinality(AtsTo(p)) \in Nat /\ Cardinality(Ats) \in Nat
  BY <1>4, <1>5, FS_CardinalityType
<1>7. p = Len(file) => AtsTo(p) = Ats
  BY <1>1 DEF AtsTo, Ats
<1> QED BY <1>4, <1>5, <1>6, <1>7

(* Reading one more token adds it to the '@'s read exactly if it is one. *)
LEMMA AtsStep ==
  ASSUME TypeOK, pos < Len(file)
  PROVE  /\ file[pos + 1] = "@" =>
              Cardinality(AtsTo(pos + 1)) = Cardinality(AtsTo(pos)) + 1
         /\ file[pos + 1] # "@" => AtsTo(pos + 1) = AtsTo(pos)
<1>1. Len(file) \in Nat /\ pos \in Nat /\ pos \in 0 .. Len(file)
  BY DEF TypeOK
<1>2. IsFiniteSet(AtsTo(pos))
  BY <1>1, AtsFacts
<1>3. pos + 1 \notin AtsTo(pos)
  BY <1>1 DEF AtsTo
<1>4. ASSUME file[pos + 1] = "@" PROVE AtsTo(pos + 1) = AtsTo(pos) \cup {pos + 1}
  BY <1>1, <1>4 DEF AtsTo
<1>5. file[pos + 1] # "@" => AtsTo(pos + 1) = AtsTo(pos)
  BY <1>1 DEF AtsTo
<1> QED BY <1>2, <1>3, <1>4, <1>5, FS_AddElement

(* The loop starts with nothing read and nothing stored. *)
LEMMA InitIInv == Init => IInv
<1> SUFFICES ASSUME Init PROVE IInv
  OBVIOUS
<1>1. TypeOK
  <2>1. file \in Seq(Tokens)
    BY LoaderAssumption DEF Init
  <2>2. Len(file) \in Nat
    BY <2>1
  <2>3. pos \in 0 .. Len(file) /\ fields \in 0 .. FIELDS
    BY <2>2, LoaderAssumption DEF Init
  <2>4. validfilter \in Tokens
    BY DEF Init, Tokens
  <2>5. line \in Nat /\ filtArr \in Seq(Nat)
    BY DEF Init
  <2> QED BY <2>1, <2>3, <2>4, <2>5 DEF Init, TypeOK
<1>2. AtsTo(pos) = {}
  BY DEF Init, AtsTo
<1>3. Cardinality(AtsTo(pos)) = 0
  BY <1>2, FS_EmptySet
<1>4. Between
  BY <1>2, <1>3 DEF Between, FormedTo, Init
<1>5. More
  <2>1. file \in Seq(Tokens) /\ pos = 0
    BY <1>1 DEF Init, TypeOK
  <2>2. Len(file) = 0 => file = <<>>
    BY <2>1
  <2> QED BY <2>1, <2>2 DEF More
<1> QED BY <1>1, <1>4, <1>5 DEF IInv, Init, ExitJustified

(* LoadFilters and NoFilter only look at what was read. *)
LEMMA LoopIInv == IInv /\ (LoadFilters \/ NoFilter) => IInv'
<1> SUFFICES ASSUME IInv, LoadFilters \/ NoFilter PROVE IInv'
  OBVIOUS
<1>1. UNCHANGED <<file, pos, readable, feof, fields, filtArr>>
  BY DEF LoadFilters, NoFilter
<1>2. TypeOK'
  BY <1>1 DEF IInv, TypeOK, LoadFilters, NoFilter, Tokens
<1>3. Between /\ Between'
  BY <1>1 DEF IInv, Between, FormedTo, AtsTo, LoadFilters, NoFilter
<1>4. More'
  <2>1. CASE LoadFilters
    BY <2>1, <1>1 DEF IInv, More, LoadFilters
  <2>2. CASE NoFilter
    BY <2>2, <1>1 DEF More, NoFilter
  <2> QED BY <2>1, <2>2
<1>5. /\ (feof => pos = Len(file))'
      /\ (\A i \in 1 .. Len(filtArr) : filtArr[i] = i - 1)'
  BY <1>1 DEF IInv
<1>6. /\ (pc = "loaded" => feof)'
      /\ (pc \in {"scan", "fields"} \/ (pc = "load" /\ ~feof) => line = Len(filtArr))'
      /\ (pc # "fields" /\ ExitJustified)'
  BY <1>1 DEF IInv, LoadFilters, NoFilter, ExitJustified
<1> QED BY <1>2, <1>3, <1>4, <1>5, <1>6 DEF IInv

(* A turn of ReadFilter's loop reads a token, meets the end of the file, or fails to read. *)
LEMMA SkipIInv == IInv /\ Skip => IInv'
<1> SUFFICES ASSUME IInv, Skip PROVE IInv'
  OBVIOUS
<1> USE DEF IInv
<1>1. UNCHANGED <<file, readable, line, filtArr>> /\ line = Len(filtArr) /\ fields' = 0 /\ pc = "scan" /\ ~feof
  BY DEF Skip
<1>2. Len(file) \in Nat /\ pos \in Nat /\ pos \in 0 .. Len(file) /\ Len(filtArr) \in Nat
  BY DEF TypeOK
<1>3. ExitJustified' /\ (pc = "loaded" => feof)' /\ (pc \in {"scan", "fields"})'
  BY DEF Skip, ExitJustified
<1>4. (\A i \in 1 .. Len(filtArr) : filtArr[i] = i - 1)' /\ (line = Len(filtArr))'
  BY <1>1
<1>5. Between
  BY <1>1
<1>6. CASE readable /\ pos < Len(file) /\ pos' = pos + 1 /\ validfilter' = file[pos + 1] /\ UNCHANGED feof
  <2>1. file[pos + 1] \in Tokens
    BY <1>2, <1>6 DEF TypeOK
  <2>2. TypeOK'
    <3>1. pos' \in 0 .. Len(file') /\ fields' \in 0 .. FIELDS
      BY <1>1, <1>2, <1>6, LoaderAssumption
    <3> QED BY <1>1, <1>3, <1>6, <2>1, <3>1 DEF TypeOK
  <2>3. AtsTo(pos)' = AtsTo(pos + 1)
    BY <1>1, <1>6 DEF AtsTo
  <2>4. CASE file[pos + 1] = "@"
    <3>1. pc' = "fields" /\ pos' - fields' = pos + 1 /\ pos' - fields' - 1 = pos
      BY <1>1, <1>2, <1>6, <2>4 DEF Skip
    <3>2. Cardinality(AtsTo(pos))' = Len(filtArr') + 1
      BY <1>1, <1>5, <1>6, <2>3, <2>4, AtsStep DEF Between
    <3>3. FormedTo(pos - fields - 1)'
      BY <1>1, <1>5, <3>1 DEF Between, FormedTo, AtsTo
    <3>4. Within'
      BY <1>1, <1>2, <1>6, <2>4, <3>1, <3>2, <3>3 DEF Within
    <3>5. fields' # FIELDS
      BY <1>1, LoaderAssumption
    <3> QED BY <1>1, <1>3, <1>4, <1>6, <2>2, <3>1, <3>4, <3>5
  <2>5. CASE file[pos + 1] # "@"
    <3>1. pc' = "scan" /\ validfilter' # "@"
      BY <1>6, <2>5 DEF Skip
    <3>2. AtsTo(pos)' = AtsTo(pos)
      BY <1>6, <2>3, <2>5, AtsStep
    <3>3. Cardinality(AtsTo(pos))' = Len(filtArr')
      BY <1>1, <1>5, <3>2 DEF Between
    <3>4. FormedTo(pos)'
      <4> SUFFICES ASSUME NEW q \in AtsTo(pos)
                   PROVE  q + FIELDS <= pos' /\ \A i \in 1 .. FIELDS : file[q + i] = "field"
        BY <1>1, <3>2 DEF FormedTo
      <4>1. q + FIELDS <= pos /\ \A i \in 1 .. FIELDS : file[q + i] = "field"
        BY <1>5 DEF Between, FormedTo
      <4>2. q \in Int
        BY <1>2 DEF AtsTo
      <4> QED BY <1>2, <1>6, <4>1, <4>2, LoaderAssumption
    <3> QED BY <1>1, <1>3, <1>4, <1>6, <2>2, <3>1, <3>3, <3>4 DEF Between
  <2> QED BY <2>4, <2>5
<1>7. CASE readable /\ pos = Len(file) /\ feof' = TRUE /\ UNCHANGED <<pos, validfilter>>
  <2>1. TypeOK'
    <3>1. fields' \in 0 .. FIELDS
      BY <1>1, LoaderAssumption
    <3> QED BY <1>1, <1>3, <1>7, <3>1 DEF TypeOK
  <2>2. Between'
    BY <1>1, <1>5, <1>7 DEF Between, FormedTo, AtsTo
  <2>3. More'
    BY <1>7 DEF More
  <2>4. (pc = "fields")' => file' = <<>> /\ fields' = 0
    BY <1>1, <1>2, <1>7 DEF Skip, More
  <2> QED BY <1>1, <1>3, <1>4, <1>7, <2>1, <2>2, <2>3, <2>4
<1>8. CASE ~readable /\ UNCHANGED <<pos, validfilter, feof>>
  <2>1. TypeOK'
    <3>1. fields' \in 0 .. FIELDS
      BY <1>1, LoaderAssumption
    <3> QED BY <1>1, <1>3, <1>8, <3>1 DEF TypeOK
  <2>2. Between'
    BY <1>1, <1>5, <1>8 DEF Between, FormedTo, AtsTo
  <2>3. (pc = "scan" /\ validfilter = "@" => More)'
    BY <1>1, <1>8 DEF More
  <2> QED BY <1>1, <1>3, <1>4, <1>8, <2>1, <2>2, <2>3
<1> QED BY <1>6, <1>7, <1>8 DEF Skip

(* A field that was read continues the '@' it belongs to. *)
LEMMA FieldIInv == IInv /\ ReadField => IInv'
<1> SUFFICES ASSUME IInv, ReadField PROVE IInv'
  OBVIOUS
<1> USE DEF IInv
<1>1. /\ UNCHANGED <<file, readable, pc, validfilter, line, filtArr>>
      /\ pc = "fields" /\ fields < FIELDS /\ fields' = fields + 1 /\ pos' = pos + 1
      /\ readable /\ pos < Len(file) /\ file[pos + 1] = "field"
  BY DEF ReadField, FieldNext
<1>2. Len(file) \in Nat /\ pos \in Nat /\ fields \in Nat /\ FIELDS \in Nat /\ Len(filtArr) \in Nat
  BY LoaderAssumption DEF TypeOK
<1>3. TypeOK'
  <2>1. pos' \in 0 .. Len(file') /\ fields' \in 0 .. FIELDS
    BY <1>1, <1>2
  <2>2. feof' \in BOOLEAN
    BY DEF ReadField
  <2> QED BY <1>1, <2>1, <2>2 DEF TypeOK
<1>4. Within
  <2>1. file # <<>>
    BY <1>1, <1>2
  <2> QED BY <1>1, <2>1
<1>5. pos' - fields' = pos - fields
  BY <1>1, <1>2
<1>6. AtsTo(pos)' = AtsTo(pos)
  <2>1. AtsTo(pos)' = AtsTo(pos + 1)
    BY <1>1 DEF AtsTo
  <2> QED BY <1>1, <2>1, AtsStep
<1>7. Within'
  <2>1. Cardinality(AtsTo(pos))' = Len(filtArr') + 1
    BY <1>1, <1>4, <1>6 DEF Within
  <2>2. FormedTo(pos - fields - 1)'
    BY <1>1, <1>4, <1>5 DEF Within, FormedTo, AtsTo
  <2>3. ASSUME NEW i \in 1 .. fields' PROVE file[pos - fields + i] = "field"
    <3>1. CASE i \in 1 .. fields
      BY <3>1, <1>4 DEF Within
    <3>2. CASE i = fields + 1
      <4>1. pos - fields + i = pos + 1
        BY <1>2, <3>2
      <4> QED BY <1>1, <4>1
    <3> QED BY <1>1, <1>2, <2>3, <3>1, <3>2
  <2> QED BY <1>1, <1>4, <1>5, <2>1, <2>2, <2>3 DEF Within
<1>8. (feof => pos = Len(file))' /\ (fields = FIELDS => More)'
  <2>1. feof' <=> fields' = FIELDS /\ pos' = Len(file)
    BY Zenon DEF ReadField
  <2>2. pos' < Len(file) \/ pos' = Len(file)
    BY <1>1, <1>2
  <2> QED BY <1>1, <2>1, <2>2 DEF More
<1>9. ExitJustified'
  BY <1>1 DEF ExitJustified
<1> QED BY <1>1, <1>3, <1>7, <1>8, <1>9

(* Where the program exits, the '@' it was reading lacks a field. *)
LEMMA ExitIInv == IInv /\ IllFormat => IInv'
<1> SUFFICES ASSUME IInv, IllFormat PROVE IInv'
  OBVIOUS
<1> USE DEF IInv
<1>1. /\ UNCHANGED <<file, pos, readable, feof, validfilter, fields, line, filtArr>> /\ pc' = "exit"
      /\ pc = "fields" /\ fields < FIELDS
  BY DEF IllFormat
<1>2. Len(file) \in Nat /\ pos \in Nat /\ fields \in Nat /\ FIELDS \in Nat
  BY LoaderAssumption DEF TypeOK
<1>3. TypeOK'
  BY <1>1 DEF TypeOK
<1>4. ASSUME Within, WellFormed, readable PROVE FALSE
  <2>1. pos - fields \in Ats
    BY <1>4 DEF Within, Ats, TypeOK
  <2>2. fields + 1 \in 1 .. FIELDS /\ pos - fields + (fields + 1) = pos + 1
    BY <1>1, <1>2
  <2>3. pos - fields + FIELDS <= Len(file) /\ file[pos - fields + (fields + 1)] = "field"
    BY <1>4, <2>1, <2>2 DEF WellFormed
  <2>4. pos < Len(file) /\ file[pos + 1] = "field"
    BY <1>1, <1>2, <2>2, <2>3
  <2> QED BY <1>4, <2>4 DEF IllFormat, FieldNext
<1>5. ExitJustified'
  <2>1. ~WellFormed \/ file = <<>> \/ ~readable
    BY <1>1, <1>4
  <2> QED BY <1>1, <2>1 DEF ExitJustified, WellFormed, Ats
<1> QED BY <1>1, <1>3, <1>5

(* A filter that is stored completes its '@'; one that is not ends the program. *)
LEMMA StoreIInv == IInv /\ (StoreFilter \/ Overrun) => IInv'
<1> SUFFICES ASSUME IInv, StoreFilter \/ Overrun PROVE IInv'
  OBVIOUS
<1> USE DEF IInv
<1>1. /\ UNCHANGED <<file, pos, readable, feof, validfilter, fields>>
      /\ pc = "fields" /\ fields = FIELDS /\ line = Len(filtArr)
  BY DEF StoreFilter, Overrun
<1>2. Len(file) \in Nat /\ pos \in Nat /\ FIELDS \in Nat \ {0} /\ Len(filtArr) \in Nat /\ MAXFILTERS \in Nat
  BY LoaderAssumption DEF TypeOK
<1>3. Within /\ More
  BY <1>1, <1>2
<1>4. CASE StoreFilter
  <2>1. filtArr' = Append(filtArr, line) /\ line' = line + 1 /\ pc' = "load"
    BY <1>4 DEF StoreFilter
  <2>2. filtArr' \in Seq(Nat) /\ Len(filtArr') = Len(filtArr) + 1
    BY <2>1 DEF TypeOK
  <2>3. TypeOK'
    BY <1>1, <2>1, <2>2 DEF TypeOK
  <2>4. ASSUME NEW i \in 1 .. Len(filtArr') PROVE filtArr'[i] = i - 1
    <3>1. CASE i \in 1 .. Len(filtArr)
      BY <2>1, <3>1 DEF TypeOK
    <3>2. CASE i = Len(filtArr) + 1
      BY <1>1, <1>2, <2>1, <3>2 DEF TypeOK
    <3> QED BY <1>2, <2>2, <2>4, <3>1, <3>2
  <2>5. Cardinality(AtsTo(pos))' = Len(filtArr')
    BY <1>1, <1>3, <2>2 DEF Within, AtsTo
  <2>6. FormedTo(pos)
    <3> SUFFICES ASSUME NEW q \in AtsTo(pos)
                 PROVE  q + FIELDS <= pos /\ \A i \in 1 .. FIELDS : file[q + i] = "field"
      BY DEF FormedTo
    <3>1. q \in 1 .. pos /\ q \in Int /\ file[q] = "@"
      BY <1>2 DEF AtsTo
    <3>2. CASE q \in 1 .. (pos - fields - 1)
      <4>1. q \in AtsTo(pos - fields - 1)
        BY <3>1, <3>2 DEF AtsTo
      <4>2. q + FIELDS <= pos - fields - 1 /\ \A i \in 1 .. FIELDS : file[q + i] = "field"
        BY <1>3, <4>1 DEF Within, FormedTo
      <4> QED BY <1>1, <1>2, <3>1, <4>2
    <3>3. CASE q = pos - fields
      BY <1>1, <1>2, <1>3, <3>3 DEF Within
    <3>4. CASE q \in (pos - fields + 1) .. pos
      <4> DEFINE i == q - (pos - fields)
      <4>1. i \in 1 .. fields /\ pos - fields + i = q
        BY <1>1, <1>2, <3>1, <3>4
      <4>2. file[q] = "field"
        BY <1>3, <4>1 DEF Within
      <4> QED BY <3>1, <4>2
    <3> QED BY <1>1, <1>2, <3>1, <3>2, <3>3, <3>4
  <2>7. FormedTo(pos)'
    BY <1>1, <2>6 DEF FormedTo, AtsTo
  <2>8. More' /\ ExitJustified'
    BY <1>1, <1>3, <2>1 DEF More, ExitJustified
  <2>9. line' = Len(filtArr')
    BY <1>1, <2>1, <2>2
  <2> QED BY <1>1, <2>1, <2>3, <2>4, <2>5, <2>7, <2>8, <2>9 DEF Between
<1>5. CASE Overrun
  <2>1. UNCHANGED <<line, filtArr>> /\ pc' = "overrun"
    BY <1>5 DEF Overrun
  <2>2. TypeOK'
    BY <1>1, <2>1 DEF TypeOK
  <2> QED BY <1>1, <2>1, <2>2 DEF ExitJustified
<1> QED BY <1>4, <1>5

(* A file that cannot be read any more changes nothing that was read. *)
LEMMA ReadsFailIInv == IInv /\ ReadsFail => IInv'
<1> SUFFICES ASSUME IInv, ReadsFail PROVE IInv'
  OBVIOUS
<1>1. /\ UNCHANGED <<file, pos, feof, pc, validfilter, fields, line, filtArr>>
      /\ readable /\ readable' = FALSE /\ pc # "exit"
  BY DEF ReadsFail
<1>2. TypeOK'
  BY <1>1 DEF IInv, TypeOK
<1>3. (Between <=> Between') /\ (Within <=> Within') /\ (More <=> More')
  BY <1>1 DEF Between, Within, FormedTo, AtsTo, More
<1>4. ExitJustified'
  BY <1>1 DEF ExitJustified
<1> QED BY <1>1, <1>2, <1>3, <1>4 DEF IInv

(* Every step of the loader keeps the invariant. *)
LEMMA NextIInv == IInv /\ [Next]_vars => IInv'
<1> SUFFICES ASSUME IInv, [Next]_vars PROVE IInv'
  OBVIOUS
<1>1. CASE Next
  BY <1>1, LoopIInv, SkipIInv, FieldIInv, ExitIInv, StoreIInv, ReadsFailIInv DEF Next, Step
<1>2. CASE UNCHANGED vars
  BY <1>2 DEF vars, IInv, TypeOK, Between, Within, FormedTo, AtsTo, More, ExitJustified,
              WellFormed, Ats
<1> QED BY <1>1, <1>2

(* The invariant says what was loaded. *)
LEMMA Loaded == IInv => LoadedInOrder
<1> SUFFICES ASSUME IInv, pc = "loaded"
             PROVE  WellFormed /\ filtArr = [i \in 1 .. Cardinality(Ats) |-> i - 1]
  BY DEF LoadedInOrder
<1>1. TypeOK /\ pos = Len(file) /\ Between
  BY DEF IInv
<1>2. AtsTo(pos) = Ats
  BY <1>1, AtsFacts DEF TypeOK
<1>3. WellFormed
  BY <1>1, <1>2 DEF Between, FormedTo, WellFormed
<1>4. Len(filtArr) = Cardinality(Ats) /\ filtArr \in Seq(Nat)
  BY <1>1, <1>2 DEF Between, TypeOK
<1>5. \A i \in 1 .. Len(filtArr) : filtArr[i] = i - 1
  BY DEF IInv
<1>6. filtArr = [i \in 1 .. Len(filtArr) |-> filtArr[i]]
  BY <1>4
<1>7. filtArr = [i \in 1 .. Len(filtArr) |-> i - 1]
  BY <1>5, <1>6
<1> QED BY <1>3, <1>4, <1>7

(* Whatever the file, and wherever its reads may start to fail: one that is loaded was well
   formed and read to its end, and its filters are there in the order of the file with their
   places as costs; the program gives up only on files that are not well formed, empty
   or no longer readable.                                                       *)
THEOREM LoaderSafe == Spec => [](LoadedInOrder /\ ExitJustified)
<1>1. IInv => LoadedInOrder /\ ExitJustified
  BY Loaded DEF IInv
<1> QED BY <1>1, InitIInv, NextIInv, PTL DEF Spec
=============================================================================
