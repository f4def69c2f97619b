------------------------------ MODULE Ranges1d ------------------------------
(* The sorted array of weighted ranges both sweeps start from (rule.c: qsort with
   _range_compare, then unique_ranges in place).                                *)
EXTENDS Rules

(* _range_compare orders by low, then by high. *)
range_before(a, b) == a.low < b.low \/ (a.low = b.low /\ a.high < b.high)

SortedRanges(ruleset, d) ==
  SortSeq([i \in DOMAIN ruleset |->
             [low |-> ruleset[i].range[d][1], high |-> ruleset[i].range[d][2], weight |-> 1]],
          range_before)

(* unique_ranges moves low and high of a new range down, but not its weight: the
   slot keeps the weight it already has.                                        *)
unique_step(acc, i) ==
  LET item == acc.item
      n    == acc.num
  IN IF item[i].low # item[n].low \/ item[i].high # item[n].high
     THEN [item |-> [item EXCEPT ![n + 1].low = item[i].low, ![n + 1].high = item[i].high],
           num |-> n + 1]
     ELSE [item |-> [item EXCEPT ![n].weight = @ + 1], num |-> n]

unique_ranges(item) ==
  LET done == FoldLeft(unique_step, [item |-> item, num |-> 1],
                       [k \in 1 .. Len(item) - 1 |-> k + 1])
  IN SubSeq(done.item, 1, done.num)
=============================================================================
