------------------------------ MODULE NodeCuts ------------------------------
(* What cut_node (cut.c) does to one node, loop turn by loop turn: the sweeps of all three
   cuts over the same rule set, in the order of its first loop, and then the pass that
   fills the children of the bitmap cut.  Whichever cut is chosen, the sweeps are
   always made.                                                                 *)
EXTENDS EvenPasses

CONSTANT OldHist   \* what an earlier node may have left in hi_aux

VARIABLES sranges, si, heap, s, left, best, high, spc,            \* of the split's sweep
          old, hranges, aux, div, shift, sweep, me, ratio, hpc    \* of the equal-size cut's

Split == INSTANCE SplitSweep WITH ranges <- sranges, i <- si, pc <- spc
Hi == INSTANCE HiSweep WITH ranges <- hranges, pc <- hpc

splitvars == <<sranges, si, heap, s, left, best, high, spc>>
hivars == <<old, hranges, aux, div, shift, sweep, me, ratio, hpc>>
nodevars == <<vars, splitvars, hivars>>

NodeInit == Init /\ Split!Init /\ Hi!Init

Tables == fast_lookup_init /\ UNCHANGED <<splitvars, hivars>>

CallNode == Call /\ UNCHANGED <<splitvars, hivars>>

even_match_expect_steps == FirstPass /\ UNCHANGED <<splitvars, hivars>>

split_match_expect_steps == pc = "push" /\ Split!Next /\ UNCHANGED <<passes, tables, hivars>>

hi_match_expect_steps ==
  pc = "push" /\ spc = "done" /\ Hi!Next /\ UNCHANGED <<passes, tables, splitvars>>

even_cut_steps == hpc = "done" /\ SecondPass /\ UNCHANGED <<splitvars, hivars>>

Returned == pc = "done" /\ UNCHANGED nodevars

NodeNext ==
  \/ Tables
  \/ CallNode
  \/ even_match_expect_steps
  \/ split_match_expect_steps
  \/ hi_match_expect_steps
  \/ even_cut_steps
  \/ Returned

NodeSpec == NodeInit /\ [][NodeNext]_nodevars
-----------------------------------------------------------------------------
(* split_match_expect_1d's sweep has found what SplitCut promises: the first point of least
   expectation and the bounds of the two halves.                                *)
SweepIsBestCut == pc = "done" => Split!SweepIsBestCut

(* The counts that sweep keeps are the real ones although it never looks back. *)
CountsExact == Split!CountsExact

(* The expectation it returns is below the number of rules unless all ranges are the same:
   double_equals in split_match_expect tells exactly that case.                 *)
SplitAlwaysGains == Split!SplitAlwaysGains

(* hi_get_rule_hist has left in hi_aux, and returned, what HiCut promises. *)
SweepIsHist == pc = "done" => Hi!SweepIsHist

(* No division makes more segments than child_rulecount and node_r have room for. *)
SegmentsFit == Hi!SegmentsFit

(* No range starts or ends inside a child of the equal-size cut. *)
SegmentsAlike == pc = "done" => Hi!SegmentsAlike

(* Both sweeps end: every turn of the split's opens a range or closes one for good, and every
   turn of the other opens a range, goes a segment on, not far past the last value, or
   divides more finely, up to HICHILD.  (No turn is stuck: deadlock is checked.) *)
SweepsProgress == [][Split!Progress /\ Hi!Progress]_<<splitvars, hivars>>
=============================================================================
