-------------------------- MODULE PrefixIterProofs --------------------------
(* The prefix iterator expands every range exactly, for every word width.      *)
EXTENDS PrefixIter, TLAPS

(* The inductive invariant: Contiguous speaks of the loop only, and the first
   and the last state have to be tied to the range as well.                     *)
IInv ==
  /\ TypeOK
  /\ range[1] <= range[2]
  /\ pc = "call" => emitted = {}
  /\ Contiguous
  /\ CoversRange

(* A block starting at s, when l values up to s + l - 1 are left and all of them
   are values of the word, ends inside those values: neither the 32-bit sum nor
   the 64-bit difference wraps.                                                 *)
LEMMA BlockInside ==
  ASSUME NEW s \in 0 .. MAXV, NEW l \in 1 .. 2^WORD, s + l - 1 <= MAXV,
         NextBlock(s, l)
  PROVE  /\ start' = s
         /\ end' \in s .. MAXV
         /\ left' \in 0 .. 2^WORD
         /\ end' + left' = s + l - 1
<1>0. 2^WORD \in Nat /\ 2^WORD >= 1
  BY WordAssumption, PowerAssumption
<1>1. CASE s % 2 = 1 /\ end' = s /\ left' = l - 1
  BY <1>0, <1>1 DEF NextBlock, MAXV
<1>2. CASE s % 2 = 0
  <2>1. PICK i, j \in 0 .. WORD :
          /\ LeftLeap(l, i)
          /\ LET offset == 2^(IF i < j THEN i ELSE j)
             IN /\ end' = (s + ((offset - 1) % 2^WORD)) % 2^WORD
                /\ left' = l - offset
    BY <1>2 DEF NextBlock
  <2> DEFINE k == IF i < j THEN i ELSE j
             offset == 2^k
  <2>2. k \in 0 .. WORD /\ k <= i
    BY WordAssumption
  <2>3. offset \in Nat /\ offset >= 1 /\ offset <= 2^i
    BY <2>2, PowerAssumption, WordAssumption
  <2>4. offset <= l
    BY <2>1, <2>3, <1>0, PowerAssumption DEF LeftLeap
  <2> HIDE DEF offset
  <2>5. end' = (s + ((offset - 1) % 2^WORD)) % 2^WORD /\ left' = l - offset
    BY <2>1 DEF offset, k
  <2>6. (offset - 1) % 2^WORD = offset - 1
    BY <1>0, <2>3, <2>4, WordAssumption DEF MAXV
  <2>7. (s + (offset - 1)) % 2^WORD = s + (offset - 1)
    BY <1>0, <2>3, <2>4 DEF MAXV
  <2> QED
    BY <1>0, <2>3, <2>4, <2>5, <2>6, <2>7 DEF NextBlock, MAXV
<1> QED
  BY <1>1, <1>2 DEF NextBlock

(* The initial states satisfy the invariant: a range of a bits-wide field fits
   in the word.                                                                 *)
LEMMA InitIInv == Init => IInv
<1> SUFFICES ASSUME Init PROVE IInv
  OBVIOUS
<1>1. 2^bits \in Nat /\ 2^bits <= 2^WORD /\ 2^WORD \in Nat /\ 2^WORD >= 1
  BY WordAssumption, PowerAssumption DEF Init
<1>2. TypeOK /\ range[1] <= range[2]
  BY <1>1 DEF Init, TypeOK, MAXV
<1> QED
  BY <1>2 DEF Init, IInv, Contiguous, CoversRange

(* Emitting one block extends the covered set by exactly its values. *)
LEMMA CoveredGrows ==
  ASSUME emitted' = emitted \cup {<<start, end>>}
  PROVE  Covered' = Covered \cup (start .. end)
<1>1. Values(<<start, end>>) = start .. end
  BY DEF Values
<1> QED
  BY <1>1, Zenon DEF Covered

(* Both functions preserve the invariant: one step per function, and in the
   loop one case for each value of the flag.                                    *)
LEMMA NextIInv == IInv /\ [Next]_vars => IInv'
<1> SUFFICES ASSUME IInv, [Next]_vars PROVE IInv'
  OBVIOUS
<1> USE DEF IInv
<1>0. 2^WORD \in Nat /\ 2^WORD >= 1
  BY WordAssumption, PowerAssumption
<1>1. CASE range_to_prefix_iter
  <2>1. range' = range /\ bits' = bits /\ emitted' = emitted /\ emitted = {} /\ pc' = "loop"
    BY <1>1 DEF range_to_prefix_iter
  <2>2. /\ start' = range[1] /\ end' \in range[1] .. MAXV /\ left' \in 0 .. 2^WORD
        /\ end' + left' = range[2]
    BY <1>0, <1>1, BlockInside DEF range_to_prefix_iter, TypeOK, MAXV
  <2>3. TypeOK'
    BY <1>0, <2>1, <2>2 DEF TypeOK, MAXV
  <2>4. Covered' = {}
    BY <2>1 DEF Covered
  <2>5. range[1] .. (start' - 1) = {}
    BY <2>2 DEF TypeOK, MAXV
  <2>6. Contiguous'
    <3>1. range[1] \in Int /\ MAXV \in Int
      BY <1>0 DEF TypeOK, MAXV
    <3>2. range[1] <= start' /\ start' <= end'
      BY <2>2, <3>1
    <3>3. Covered' = range[1] .. (start' - 1)
      BY <2>4, <2>5
    <3> QED
      BY <2>1, <2>2, <3>2, <3>3 DEF Contiguous
  <2> QED
    BY <2>1, <2>3, <2>6 DEF CoversRange
<1>2. CASE get_next_prefix_iter /\ left = 0 /\ pc' = "done" /\ start' = 0 /\ end' = 0 /\ left' = 0
  <2>1. /\ range' = range /\ bits' = bits /\ emitted' = emitted \cup {<<start, end>>}
        /\ pc = "loop"
    BY <1>2 DEF get_next_prefix_iter
  <2>2. TypeOK'
    BY <1>0, <1>2, <2>1 DEF TypeOK, MAXV
  <2>3. Covered' = (range[1] .. (start - 1)) \cup (start .. end)
    BY <2>1, CoveredGrows DEF Contiguous
  <2>4. end = range[2] /\ range[1] <= start /\ start <= end
    BY <1>2, <2>1 DEF Contiguous, TypeOK, MAXV
  <2>5. Covered' = range[1] .. range[2]
    BY <1>0, <2>3, <2>4 DEF TypeOK, MAXV
  <2> QED
    BY <1>2, <2>1, <2>2, <2>5 DEF Contiguous, CoversRange, Values
<1>3. CASE get_next_prefix_iter /\ left # 0 /\ NextBlock((end + 1) % 2^WORD, left) /\ pc' = pc
  <2>1. /\ range' = range /\ bits' = bits /\ emitted' = emitted \cup {<<start, end>>}
        /\ pc = "loop" /\ pc' = "loop"
    BY <1>3 DEF get_next_prefix_iter
  <2>2. /\ end + left = range[2] /\ range[1] <= start /\ start <= end
        /\ left \in 1 .. 2^WORD /\ end + 1 \in 0 .. MAXV
    BY <1>0, <1>3, <2>1 DEF Contiguous, TypeOK, MAXV
  <2>3. (end + 1) % 2^WORD = end + 1
    BY <1>0, <2>2 DEF MAXV
  <2>4. /\ start' = end + 1 /\ end' \in (end + 1) .. MAXV /\ left' \in 0 .. 2^WORD
        /\ end' + left' = end + left
    <3>1. NextBlock(end + 1, left) /\ end + 1 + left - 1 <= MAXV
      BY <1>0, <1>3, <2>2, <2>3 DEF TypeOK, MAXV
    <3> QED
      BY <1>0, <2>2, <3>1, BlockInside DEF TypeOK, MAXV
  <2>5. TypeOK'
    BY <1>0, <2>1, <2>2, <2>4 DEF TypeOK, MAXV
  <2>6. Covered' = (range[1] .. (start - 1)) \cup (start .. end)
    BY <2>1, CoveredGrows DEF Contiguous
  <2>7. Covered' = range[1] .. (start' - 1)
    BY <1>0, <2>2, <2>4, <2>6 DEF TypeOK, MAXV
  <2>8. Contiguous'
    <3>1. range[1] \in Int /\ start \in Int /\ end \in Int /\ MAXV \in Int
      BY <1>0 DEF TypeOK, MAXV
    <3>2. range[1] <= start'
      BY <2>2, <2>4, <3>1
    <3>3. start' <= end'
      BY <2>4, <3>1
    <3>4. end' + left' = range[2]
      BY <2>2, <2>4
    <3> QED
      BY <2>1, <2>7, <3>2, <3>3, <3>4 DEF Contiguous
  <2> QED
    BY <2>1, <2>5, <2>8 DEF CoversRange
<1>4. CASE UNCHANGED vars
  BY <1>4 DEF vars, TypeOK, Contiguous, CoversRange, Covered, Values
<1> QED
  BY <1>1, <1>2, <1>3, <1>4 DEF Next, get_next_prefix_iter

(* Safety of the iterator, for every WORD: no value of the range is lost or
   repeated, no sum wraps, and the finished expansion is the range itself.      *)
THEOREM ExpansionExact == Spec => [](TypeOK /\ Contiguous /\ CoversRange)
<1>1. IInv => TypeOK /\ Contiguous /\ CoversRange
  BY DEF IInv
<1> QED
  BY <1>1, InitIInv, NextIInv, PTL DEF Spec

(* A new block lies strictly above everything used before. *)
LEMMA StepNoOverlap ==
  IInv /\ [Next]_vars =>
    [\A b \in emitted' \ emitted : Values(b) \cap Covered = {}]_vars
<1> SUFFICES ASSUME IInv, Next,
                    NEW b \in emitted' \ emitted
             PROVE  Values(b) \cap Covered = {}
  BY DEF vars
<1>1. pc = "loop" /\ b = <<start, end>>
  BY DEF Next, range_to_prefix_iter, get_next_prefix_iter
<1>2. Covered = range[1] .. (start - 1) /\ Values(b) = start .. end
  BY <1>1 DEF IInv, Contiguous, Values
<1>3. range[1] \in Int /\ start \in Int /\ end \in Int
  BY WordAssumption, PowerAssumption DEF IInv, TypeOK, MAXV
<1> QED
  BY <1>2, <1>3

(* No block is used twice: a rule is appended at most once for each key. *)
THEOREM BlocksDisjoint == Spec => NoOverlap
<1> QED
  BY InitIInv, NextIInv, StepNoOverlap, PTL DEF Spec, NoOverlap
=============================================================================
