------------------------------ MODULE HiSweep ------------------------------
(* hi_get_rule_hist and hi_get_me_1d step by step: a span is divided into 4, 8, ...
   segments, and for every division a sweep over the segments counts the rules of
   each child.  HiCut states what they are to leave in hi_aux (hi_match_expect). *)
EXTENDS HiCut, Ranges1d

CONSTANT OldHist         \* what an earlier node may have left in hi_aux

VARIABLES ruleset,       \* the node's rules; dimension 1 is swept
          old,           \* hi_aux on entry
          ranges,        \* the sorted, unique ranges
          aux,           \* hi_aux of the swept dimension
          div, shift,    \* the division tried
          sweep,         \* the sweep's locals
          me, ratio,     \* prev_me and prev_me_ratio
          pc             \* "call", "sweep" or "done"

(* The locals of hi_get_me_1d: next range, open ranges, end of the segment, the
   two flags that outlive a segment, and the counts and segment ranges of the children so far.       *)
NewSweep(low, seg) ==
  [i |-> 2, heap |-> {1}, curr |-> low + seg,
   new_start |-> FALSE, prev_new_ends |-> TRUE,
   child_rulecount |-> <<>>, node_r |-> <<>>]

Init ==
  /\ old = <<>> /\ aux = <<>> /\ ranges = <<>>
  /\ div = 4 /\ shift = 0 /\ sweep = NewSweep(0, 0)
  /\ me = Frac(0, 1) /\ ratio = Frac(0, 1)
  /\ pc = "call"

SpanOf(rs) == Max({rs[k].high : k \in DOMAIN rs}) - rs[1].low + 1

(* A slip: the segment size is rounded down. *)
ShiftOf_Down(len, v) == roundup_log2(len \div v)

ShiftOf(len, v) == roundup_log2((len + v - 1) \div v)

(* Sort, drop duplicates, bound; a short span returns the number of rules. *)
Start ==
  /\ pc = "call"
  /\ old' \in OldHist /\ aux' = old'
  /\ \E u \in {unique_ranges(SortedRanges(ruleset, 1))} :
       /\ ranges' = u
       /\ IF SpanOf(u) < 4
          THEN pc' = "done" /\ me' = Frac(Len(ruleset), 1) /\ UNCHANGED <<shift, sweep>>
          ELSE /\ pc' = "sweep"
               /\ shift' = ShiftOf(SpanOf(u), 4)
               /\ sweep' = NewSweep(u[1].low, 2^shift')
               /\ UNCHANGED me
  /\ UNCHANGED <<ruleset, div, ratio>>

StartsHere == sweep.i <= Len(ranges) /\ ranges[sweep.i].low < sweep.curr
Swept == sweep.i > Len(ranges) /\ sweep.heap = {}

(* A slip: the same range is opened again. *)
Open_Again ==
  /\ pc = "sweep" /\ StartsHere
  /\ sweep' = [sweep EXCEPT !.heap = @ \cup {sweep.i}, !.new_start = TRUE]
  /\ UNCHANGED <<ruleset, old, ranges, aux, div, shift, me, ratio, pc>>

Open ==
  /\ pc = "sweep" /\ StartsHere
  /\ sweep' = [sweep EXCEPT !.heap = @ \cup {sweep.i}, !.i = @ + 1, !.new_start = TRUE]
  /\ UNCHANGED <<ruleset, old, ranges, aux, div, shift, me, ratio, pc>>

(* The ranges of the segment before curr: those that end in it and those still open.
   A slip: only the latter are counted.                                         *)
SegmentRules_Open ==
  SumOver({k \in sweep.heap : ranges[k].high >= sweep.curr}, LAMBDA k : ranges[k].weight)

SegmentRules == SumOver(sweep.heap, LAMBDA k : ranges[k].weight)

(* A segment is a new child when a range starts in it or ended in the one before.
   A slip: ends are not regarded.                                               *)
OpensChild_Starts == sweep.new_start \/ sweep.node_r = <<>>

OpensChild == sweep.new_start \/ sweep.prev_new_ends

(* The segment before curr is complete: it opens a child or extends the last. *)
CloseSegment ==
  /\ pc = "sweep" /\ ~StartsHere /\ ~Swept
  /\ LET ended == {k \in sweep.heap : ranges[k].high < sweep.curr}
         n     == Len(sweep.node_r)
         seg   == IF n = 0 THEN 0 ELSE sweep.node_r[n][2] + 1
     IN sweep' = [sweep EXCEPT
          !.heap = @ \ ended, !.curr = @ + 2^shift,
          !.prev_new_ends = ended # {}, !.new_start = FALSE,
          !.child_rulecount = IF OpensChild THEN Append(@, SegmentRules) ELSE @,
          !.node_r = IF OpensChild THEN Append(@, <<seg, seg>>) ELSE [@ EXCEPT ![n][2] = seg]]
  /\ UNCHANGED <<ruleset, old, ranges, aux, div, shift, me, ratio, pc>>

(* The division is weighed; the first one and every better one is stored and the
   next, if there is one, is tried.                                             *)
EndSweep ==
  /\ pc = "sweep" /\ Swept
  /\ LET found == [start |-> ranges[1].low, shift |-> shift,
                   child_rulecount |-> sweep.child_rulecount,
                   node_r |-> [sweep.node_r EXCEPT ![Len(sweep.node_r)][2] = div - 1]]
         e     == get_match_expect(sweep.child_rulecount)
         gain  == calc_me_ratio(Len(ruleset), RulesIn(aux), e)
         len   == SpanOf(ranges)
         last  == 2 * div > HICHILD \/ len < 2 * div \/ ShiftOf(len, 2 * div) = shift
     IN IF div = 4 \/ Less(ratio, gain)
        THEN /\ aux' = found /\ me' = e /\ ratio' = gain
             /\ IF last
                THEN pc' = "done" /\ UNCHANGED <<div, shift, sweep>>
                ELSE /\ div' = 2 * div
                     /\ shift' = ShiftOf(len, 2 * div)
                     /\ sweep' = NewSweep(ranges[1].low, 2^shift')
                     /\ UNCHANGED pc
        ELSE pc' = "done" /\ UNCHANGED <<aux, div, shift, sweep, me, ratio>>
  /\ UNCHANGED <<ruleset, old, ranges>>

Next == Start \/ Open \/ CloseSegment \/ EndSweep
-----------------------------------------------------------------------------
(* The sweeps leave in hi_aux, and return, what HiCut promises. *)
SweepIsHist ==
  pc = "done" =>
    LET h == hi_match_expect(ruleset, 1, old)
    IN aux = h.aux /\ me[1] * h.me[2] = h.me[1] * me[2]

(* child_rulecount and node_r have room for HICHILD children: no division makes more
   segments than div, whatever the rounding of the shift.                       *)
SegmentsFit ==
  sweep.node_r # <<>> =>
    /\ Len(sweep.node_r) <= HICHILD
    /\ sweep.node_r[Len(sweep.node_r)][2] < div

(* The rules of a child are those of each of its segments: no range starts or ends
   inside a child, so one count and one rule list serve all of its segments.    *)
SegmentsAlike ==
  pc = "done" /\ aux # old =>
    \A c \in DOMAIN aux.node_r :
      \A k \in aux.node_r[c][1] .. Min({aux.node_r[c][2], (Max(Highs(ruleset, 1)) - aux.start) \div 2^aux.shift}) :
        aux.child_rulecount[c] =
          Cardinality({r \in DOMAIN ruleset :
            /\ ruleset[r].range[1][1] < aux.start + (k + 1) * 2^aux.shift
            /\ ruleset[r].range[1][2] >= aux.start + k * 2^aux.shift})

(* Every turn opens a range, goes a segment on, no further than one past the last value, or
   divides more finely, up to HICHILD.                                          *)
Progress ==
  pc = "sweep" /\ pc' = "sweep" =>
    \/ div < div' /\ div' <= HICHILD
    \/ div' = div /\ sweep'.i > sweep.i
    \/ /\ div' = div /\ sweep'.i = sweep.i
       /\ sweep.curr < sweep'.curr /\ sweep.curr <= Max(Highs(ruleset, 1)) + 2^shift
=============================================================================
