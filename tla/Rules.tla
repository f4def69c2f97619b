------------------------------- MODULE Rules -------------------------------
(* Rules, rule sets and the helpers every cut shares (rule.h, utils.c, cut-inl.c,
   cut.c).  A rule is [pri, range], range a sequence of <<low, high>> pairs, one
   per dimension; a rule set is the sequence of its rules.  Dimensions are
   numbered from 1.                                                             *)
EXTENDS Prefixes

CONSTANTS DIM,          \* number of dimensions (5 in the code)
          dim_bits,     \* dim_bits[d]: width of dimension d
          STRIDE,       \* bits an even cut consumes (6 in the code)
          BUCKETSIZE,   \* largest leaf (16 in the code)
          INT_BITS      \* width of an int (32 in the code)

Dims == 1 .. DIM

ASSUME ConfigAssumption ==
  /\ DIM \in Nat \ {0}
  /\ STRIDE \in Nat \ {0}
  /\ BUCKETSIZE \in Nat \ {0}
  /\ INT_BITS \in Nat \ {0}
  /\ dim_bits \in [Dims -> Nat]
  /\ \A d \in Dims : dim_bits[d] >= STRIDE

CHILDCOUNT == 2^STRIDE + 2^STRIDE - 1
INL_OFFSET == 2^STRIDE - 1

HS_RULE_NOT_FOUND == -1

memory_constraints == TRUE

(* rule_contained: a contains b. *)
rule_contained(a, b) ==
  \A d \in Dims : a.range[d][1] <= b.range[d][1] /\ a.range[d][2] >= b.range[d][2]

(* lsearch: the priority of the first rule that holds the key. *)
Matches(rule, key) ==
  \A d \in Dims : key[d] >= rule.range[d][1] /\ key[d] <= rule.range[d][2]

lsearch(ruleset, key) ==
  LET i == SelectInSeq(ruleset, LAMBDA rule : Matches(rule, key))
  IN IF i = 0 THEN HS_RULE_NOT_FOUND ELSE ruleset[i].pri

(* remove_redund: drops the rules an earlier rule contains.  The compaction
   starts at index 1, so an empty set ends with num = 1: the rule that lsearch
   then reads lies past the end of a zero-sized allocation and can be anything
   (stray).                                                                     *)
remove_redund(ruleset, stray) ==
  LET kept(i) == i = 1 \/ ~\E j \in 1 .. i - 1 : rule_contained(ruleset[j], ruleset[i])
  IN IF ruleset = <<>> THEN <<stray>>
     ELSE LET idx == Ascending({i \in DOMAIN ruleset : kept(i)})
          IN [k \in DOMAIN idx |-> ruleset[idx[k]]]

(* append_rules applied to the rules that pass a test, each one changed by f. *)
Push(ruleset, Test(_), f(_)) ==
  LET sel == SelectSeq(ruleset, Test) IN [k \in DOMAIN sel |-> f(sel[k])]

SetRange(rule, d, r) == [rule EXCEPT !.range[d] = r]

Lows(ruleset, d) == {ruleset[i].range[d][1] : i \in DOMAIN ruleset}
Highs(ruleset, d) == {ruleset[i].range[d][2] : i \in DOMAIN ruleset}

(* Match expectations are doubles in the code and exact fractions <<n, m>> here. *)
Frac(n, m) == <<n, m>>
Less(a, b) == a[1] * b[2] < b[1] * a[2]

SumOver(S, f(_)) == MapThenSumSet(f, S)

(* The product of two ints: on overflow, which is undefined, x86 keeps the low bits. *)
int(x) == ((x + 2^(INT_BITS - 1)) % 2^INT_BITS) - 2^(INT_BITS - 1)

(* get_match_expect over the child_rulecount entries of a histogram. *)
get_match_expect(counts) ==
  Frac(SumOver(DOMAIN counts, LAMBDA i : int(counts[i] * counts[i])),
       SumOver(DOMAIN counts, LAMBDA i : counts[i]))

(* roundup_log2: the least k with n <= 2^k. *)
roundup_log2(n) == CHOOSE k \in 0 .. n : n <= 2^k /\ (k = 0 \/ 2^(k - 1) < n)
=============================================================================
