----------------------------- MODULE PrefixIter -----------------------------
(* The range-to-prefix iterator of rule.c, driven by the do/while loop that
   get_rule_hist and push_rules_even run on every rule:

     iter = range_to_prefix_iter(r);
     do { p = get_prefix(&iter, bits); ...; iter = get_next_prefix_iter(...); }
     while (flag);                                                              *)
EXTENDS Prefixes

CONSTANT WORD   \* bits of a range_t (32 in the code)

ASSUME WordAssumption == WORD \in Nat \ {0}

(* What the arithmetic below needs to know of powers of two. *)
ASSUME PowerAssumption ==
  /\ \A k \in 0 .. WORD : 2^k \in Nat /\ 2^k >= 1
  /\ \A j, k \in 0 .. WORD : j <= k => 2^j <= 2^k

MAXV == 2^WORD - 1

VARIABLES bits,      \* dim_bits[dim], the width of the dimension being cut
          range,     \* the rule's range in that dimension
          start,     \* iter.start
          end,       \* iter.end
          left,      \* iter._left, 64 bits wide: it can be 2^WORD
          pc,        \* "call": before range_to_prefix_iter; "loop"; "done": flag is 0
          emitted    \* history: the blocks <<start, end>> the loop body has used

vars == <<bits, range, start, end, left, pc, emitted>>

Init ==
  /\ bits \in 1 .. WORD
  /\ range \in {r \in (0 .. 2^bits - 1) \X (0 .. 2^bits - 1) : r[1] <= r[2]}
  /\ start = 0 /\ end = 0 /\ left = 0
  /\ pc = "call"
  /\ emitted = {}

(* __builtin_ctz of an even start: the largest power of two dividing it.  Of 0
   the builtin is undefined; the tzcnt the build uses (-mbmi) yields WORD.      *)
SelfLeap(s, k) == k \in 0 .. WORD /\ s % 2^k = 0 /\ (k < WORD => s % 2^(k + 1) # 0)

(* 63 - __builtin_clzl(_left): the largest power of two not above it. *)
LeftLeap(l, k) == k \in 0 .. WORD /\ 2^k <= l /\ (k < WORD => l < 2^(k + 1))

(* Slips: _left is not reduced, the alignment of s is not regarded, single values only. *)
NextBlock_LeftKept(s, l) == start' = s /\ end' = s /\ left' = l

NextBlock_Unaligned(s, l) ==
  \E i \in 0 .. WORD : /\ LeftLeap(l, i) /\ start' = s
                       /\ end' = s + 2^i - 1 /\ left' = l - 2^i

NextBlock_Single(s, l) == start' = s /\ end' = s /\ left' = l - 1

(* The block at s when l values are left, shared by both functions: a single
   value at an odd s, otherwise the smaller of the two leaps.  end is 32 bits.  *)
NextBlock(s, l) ==
  /\ start' = s
  /\ \/ /\ s % 2 = 1
        /\ end' = s
        /\ left' = l - 1
     \/ /\ s % 2 = 0
        /\ \E i, j \in 0 .. WORD :
             /\ LeftLeap(l, i)
             /\ SelfLeap(s, j)
             /\ LET offset == 2^(IF i < j THEN i ELSE j)
                IN /\ end' = (s + ((offset - 1) % 2^WORD)) % 2^WORD
                   /\ left' = l - offset

(* A slip: the size of the range without its + 1. *)
range_to_prefix_iter_Short ==
  /\ pc = "call" /\ range[2] > range[1]
  /\ NextBlock(range[1], range[2] - range[1])
  /\ pc' = "loop"
  /\ UNCHANGED <<bits, range, emitted>>

range_to_prefix_iter ==
  /\ pc = "call"
  /\ NextBlock(range[1], range[2] - range[1] + 1)
  /\ pc' = "loop"
  /\ UNCHANGED <<bits, range, emitted>>

(* A slip: the next block starts at the end of the last one. *)
get_next_prefix_iter_Again ==
  /\ pc = "loop"
  /\ emitted' = emitted \cup {<<start, end>>}
  /\ \/ left = 0 /\ pc' = "done" /\ start' = 0 /\ end' = 0 /\ left' = 0
     \/ left # 0 /\ NextBlock(end, left) /\ pc' = pc
  /\ UNCHANGED <<bits, range>>

(* One turn of the loop: the body uses the block, the tail asks for the next. *)
get_next_prefix_iter ==
  /\ pc = "loop"
  /\ emitted' = emitted \cup {<<start, end>>}
  /\ \/ /\ left = 0
        /\ pc' = "done"
        /\ start' = 0 /\ end' = 0 /\ left' = 0
     \/ /\ left # 0
        /\ NextBlock((end + 1) % 2^WORD, left)
        /\ pc' = pc
  /\ UNCHANGED <<bits, range>>

Next == range_to_prefix_iter \/ get_next_prefix_iter

(* The loop is straight-line code: it keeps running. *)
Spec == Init /\ [][Next]_vars /\ WF_vars(Next)
-----------------------------------------------------------------------------
(* The fields of the iterator stay within their widths: start and end in a word,
   _left in the wider count that can hold 2^WORD.                               *)
TypeOK ==
  /\ bits \in 1 .. WORD
  /\ range \in (0 .. MAXV) \X (0 .. MAXV)
  /\ start \in 0 .. MAXV
  /\ end \in 0 .. MAXV
  /\ left \in 0 .. 2^WORD
  /\ pc \in {"call", "loop", "done"}
  /\ emitted \in SUBSET ((0 .. MAXV) \X (0 .. MAXV))

Covered == UNION {Values(b) : b \in emitted}

(* The iterator never loses or repeats a value: what the loop has used is
   exactly the part of the range below the current block, the block does not
   wrap around 2^WORD, and _left counts the values above it (the field _end of
   the iterator is never read: _left alone has to be right).                    *)
Contiguous ==
  pc = "loop" => /\ Covered = range[1] .. (start - 1)
                 /\ range[1] <= start /\ start <= end
                 /\ end + left = range[2]

(* When get_next_prefix_iter clears the flag, the blocks used cover the whole
   range and nothing else: no rule loses a key by being expanded.               *)
CoversRange == pc = "done" => Covered = Values(range)

(* The expansion is the canonical one: the blocks used are, as prefixes, the
   maximal aligned blocks of the range, so get_prefix's length is right for each
   of them and both passes over a rule see the same prefixes.                   *)
Canonical ==
  pc = "done" =>
    {get_prefix(b[1], b[2], bits) : b \in emitted} = MaximalPrefixes(range, bits)

(* No block is used twice and none overlaps an earlier one: a rule is appended
   at most once for each key.                                                   *)
NoOverlap ==
  [][\A b \in emitted' \ emitted : Values(b) \cap Covered = {}]_vars

(* test.c (test3, test4) counts 61 further prefixes for the worst 32-bit range:
   a range never expands to more than 2 * bits - 2 of them.                     *)
CountBounded ==
  Cardinality(emitted) <= IF bits = 1 THEN 1 ELSE 2 * bits - 2

(* The do/while loop ends on every range, [0, 2^WORD - 1] included, although
   end + 1 wraps to 0 there.                                                    *)
LoopEnds == <>(pc = "done")
=============================================================================
