----------------------------- MODULE SplitSweep -----------------------------
(* split_match_expect_1d step by step: a sweep over the sorted ranges of one
   dimension with a heap of open ranges, ordered by their end.  SplitCut states
   what it is to return (BestCut).                                              *)
EXTENDS SplitCut, Ranges1d

VARIABLES ruleset,       \* the node's rules; dimension 1 is swept
          ranges,        \* the sorted, unique ranges
          i,             \* the next range to open
          heap,          \* the open ranges, by index
          s,             \* the last start seen
          left,          \* weight of the ranges that have ended
          best,          \* min_me, split and the two weights found with it
          high,          \* r[1].high
          pc             \* "call", "sweep" or "done"

Init ==
  /\ ranges = <<>> /\ i = 1 /\ heap = {} /\ s = 0 /\ left = 0 /\ high = 0
  /\ best = [me |-> Frac(0, 1), split |-> 0, left |-> 0, right |-> 0]
  /\ pc = "call"

Weight(h) == SumOver(h, LAMBDA k : ranges[k].weight)
FirstEnd(h) == Min({ranges[k].high : k \in h})

(* A slip: a later point of equal expectation replaces the first. *)
find_min_me_do_Last(p, ended, h) ==
  LET l  == ended + Weight(h)
      r  == Len(ruleset) - ended
      me == split_match_expect_heuristic(l, r)
  IN IF Less(best.me, me) THEN best ELSE [me |-> me, split |-> p, left |-> l, right |-> r]

(* find_min_me_do at point p, with the open ranges of h. *)
find_min_me_do(p, ended, h) ==
  LET l  == ended + Weight(h)
      r  == Len(ruleset) - ended
      me == split_match_expect_heuristic(l, r)
  IN IF Less(me, best.me) THEN [me |-> me, split |-> p, left |-> l, right |-> r] ELSE best

(* Sort, drop duplicates; identical ranges return at once and leave r alone. *)
Start ==
  /\ pc = "call"
  /\ \E u \in {unique_ranges(SortedRanges(ruleset, 1))} :
       /\ ranges' = u
       /\ IF Len(u) = 1
          THEN pc' = "done" /\ UNCHANGED <<i, heap, s, best, high>>
          ELSE /\ pc' = "sweep"
               /\ i' = 2 /\ heap' = {1}
               /\ s' = u[1].low
               /\ high' = u[1].high
               /\ best' = [best EXCEPT !.me = Frac(Len(ruleset), 1), !.split = u[1].low]
  /\ UNCHANGED <<ruleset, left>>

(* A slip: the ended ranges are not counted. *)
PopEnd_Uncounted(e) ==
  /\ heap' = {k \in heap : ranges[k].high # e}
  /\ high' = Max({e, high})
  /\ best' = find_min_me_do(e, left, heap')
  /\ UNCHANGED left

(* Pop every open range that ends first, at e; the point e is weighed unless this
   was the last range of the sweep.                                             *)
PopEnd(e) ==
  LET ended == {k \in heap : ranges[k].high = e}
      l     == left + Weight(ended)
      open  == heap \ ended
  IN /\ heap' = open
     /\ left' = l
     /\ high' = Max({e, high})
     /\ best' = IF i > Len(ranges) /\ open = {} THEN best ELSE find_min_me_do(e, l, open)

(* Ranges that end before the next one starts. *)
CloseBefore ==
  /\ pc = "sweep" /\ i <= Len(ranges) /\ heap # {}
  /\ FirstEnd(heap) < ranges[i].low
  /\ PopEnd(FirstEnd(heap))
  /\ UNCHANGED <<ruleset, ranges, i, s, pc>>

(* A slip: the starts of ranges are not weighed. *)
Open_Unweighed ==
  /\ pc = "sweep" /\ i <= Len(ranges)
  /\ heap # {} => FirstEnd(heap) >= ranges[i].low
  /\ s' = ranges[i].low /\ heap' = heap \cup {i} /\ i' = i + 1
  /\ UNCHANGED <<ruleset, ranges, left, best, high, pc>>

(* The next range starts: the point before a new start is weighed. *)
Open ==
  /\ pc = "sweep" /\ i <= Len(ranges)
  /\ heap # {} => FirstEnd(heap) >= ranges[i].low
  /\ best' = IF ranges[i].low = s THEN best ELSE find_min_me_do(ranges[i].low - 1, left, heap)
  /\ s' = ranges[i].low
  /\ heap' = heap \cup {i}
  /\ i' = i + 1
  /\ UNCHANGED <<ruleset, ranges, left, high, pc>>

(* All have started: close the rest, but for the last one. *)
Drain ==
  /\ pc = "sweep" /\ i > Len(ranges) /\ Cardinality(heap) > 1
  /\ PopEnd(FirstEnd(heap))
  /\ UNCHANGED <<ruleset, ranges, i, s, pc>>

Finish ==
  /\ pc = "sweep" /\ i > Len(ranges) /\ Cardinality(heap) <= 1
  /\ high' = Max({high} \cup {ranges[k].high : k \in heap})
  /\ heap' = {}
  /\ pc' = "done"
  /\ UNCHANGED <<ruleset, ranges, i, s, left, best>>

Next == Start \/ CloseBefore \/ Open \/ Drain \/ Finish
-----------------------------------------------------------------------------
(* The sweep returns what SplitCut promises: the first point of least expectation
   and the bounds of the two halves.                                            *)
SweepIsBestCut ==
  pc = "done" /\ ~SameRange(ruleset, 1) =>
    LET cut == BestCut(ruleset, 1)
    IN /\ best.split = cut.split /\ high = cut.high
       /\ best.left = cut.left /\ best.right = cut.right
       /\ best.me[1] * cut.me[2] = cut.me[1] * best.me[2]

(* The counts the sweep keeps are the real ones although it never looks back: the
   ended ranges are those that end before the next start, and the open ones hold
   every other range that has started; unique_ranges lost no rule on the way.   *)
CountsExact ==
  pc = "sweep" =>
    LET w(S) == SumOver(S, LAMBDA k : ranges[k].weight)
    IN /\ left + Weight(heap) = w(1 .. i - 1)
       /\ w(DOMAIN ranges) = Len(ruleset)
       /\ \A k \in 1 .. i - 1 : k \notin heap => \A j \in heap : ranges[k].high < ranges[j].high

(* The expectation returned is below the number of rules unless all ranges are the
   same: double_equals in split_match_expect tells exactly that case.           *)
SplitAlwaysGains ==
  pc = "done" /\ ~SameRange(ruleset, 1) => Less(best.me, Frac(Len(ruleset), 1))

(* Every turn opens a range or closes one for good. *)
RangesLeft == 2 * (Len(ranges) - i) + Cardinality(heap)
Progress == pc = "sweep" /\ pc' = "sweep" => RangesLeft' < RangesLeft
=============================================================================
