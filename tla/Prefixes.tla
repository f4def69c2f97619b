------------------------------ MODULE Prefixes ------------------------------
(* CIDR prefixes and ranges (rule.h, rule.c).  A range is a pair <<low, high>>,
   a prefix a record [prefix, len] over a field of a given number of bits.      *)
EXTENDS Integers, Sequences, SequencesExt, FiniteSets, FiniteSetsExt

(* The elements of a finite set of numbers in ascending order. *)
Ascending(S) ==
  [k \in 1 .. Cardinality(S) |-> CHOOSE x \in S : Cardinality({y \in S : y < x}) = k - 1]

(* The set of values a range holds. *)
Values(r) == r[1] .. r[2]

(* log2 of a power of two: what __builtin_ctzl yields on a block size. *)
Log2(n) == CHOOSE k \in 0 .. n : 2^k = n

(* get_prefix: the prefix of the block start..end of a field of that width. *)
get_prefix(start, end, bits) ==
  [prefix |-> start, len |-> bits - Log2(end - start + 1)]

(* prefix_to_range, its inverse on aligned blocks. *)
prefix_to_range(p, bits) ==
  <<p.prefix, p.prefix + 2^(bits - p.len) - 1>>

(* Reference definition of an expansion: the aligned blocks inside the range
   whose enclosing aligned block, twice as large, is not inside it.             *)
Aligned(p, bits) == p.prefix % 2^(bits - p.len) = 0

Inside(p, r, bits) ==
  LET b == prefix_to_range(p, bits) IN r[1] <= b[1] /\ b[2] <= r[2]

Parent(p, bits) ==
  [prefix |-> p.prefix - (p.prefix % 2^(bits - p.len + 1)), len |-> p.len - 1]

MaximalPrefixes(r, bits) ==
  {p \in [prefix : Values(r), len : 0 .. bits] :
     /\ Aligned(p, bits)
     /\ Inside(p, r, bits)
     /\ p.len > 0 => ~Inside(Parent(p, bits), r, bits)}

(* The prefixes a do/while loop over the iterator visits, in its order
   (PrefixIter checks that the iterator yields exactly these).                  *)
RangePrefixes(r, bits) ==
  LET ps     == MaximalPrefixes(r, bits)
      starts == Ascending({p.prefix : p \in ps})
  IN [k \in DOMAIN starts |-> CHOOSE p \in ps : p.prefix = starts[k]]
=============================================================================
