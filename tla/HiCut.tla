------------------------------- MODULE HiCut -------------------------------
(* The equal-size cut (cut-hi.c, cut-hi.h): the span of the rules in one dimension
   is divided into 4, 8, ... segments of 2^shift values and runs of segments that
   see the same rules share a child.                                            *)
EXTENDS Rules

HICHILD == 2^STRIDE          \* room for segments; the literal 64 of the code
Divs == {2^k : k \in 2 .. STRIDE}

(* Unsigned arithmetic: the widest dimension fills a word, as 32 bits do. *)
WORD == Max({dim_bits[d] : d \in Dims})
Wrap(n) == n % 2^WORD

Span(ruleset, d) == Max(Highs(ruleset, d)) - Min(Lows(ruleset, d)) + 1

(* A slip: the ranges that overlap a segment from before are not counted. *)
hi_get_me_1d_New(ruleset, d, shift, div) ==
  LET low     == Min(Lows(ruleset, d))
      seg(v)  == (v - low) \div 2^shift
      heads   == Ascending({seg(v) : v \in Lows(ruleset, d)})
  IN [start |-> low, shift |-> shift,
      child_rulecount |-> [c \in DOMAIN heads |->
        Cardinality({i \in DOMAIN ruleset : seg(ruleset[i].range[d][1]) = heads[c]})],
      node_r |-> [c \in DOMAIN heads |->
        <<heads[c], IF c = Len(heads) THEN div - 1 ELSE heads[c + 1] - 1>>]]

(* hi_get_me_1d: a segment opens a child when it is the first, when a range starts
   in it or when one ended in the segment before; the last child runs to div.   *)
hi_get_me_1d(ruleset, d, shift, div) ==
  LET low     == Min(Lows(ruleset, d))
      seg(v)  == (v - low) \div 2^shift
      opens(k) == k = 0 \/ \E i \in DOMAIN ruleset : \/ seg(ruleset[i].range[d][1]) = k
                                                     \/ seg(ruleset[i].range[d][2]) = k - 1
      heads   == Ascending({k \in 0 .. seg(Max(Highs(ruleset, d))) : opens(k)})
  IN [start |-> low, shift |-> shift,
      child_rulecount |-> [c \in DOMAIN heads |->
        Cardinality({i \in DOMAIN ruleset : /\ seg(ruleset[i].range[d][1]) <= heads[c]
                                            /\ seg(ruleset[i].range[d][2]) >= heads[c]})],
      node_r |-> [c \in DOMAIN heads |->
        <<heads[c], IF c = Len(heads) THEN div - 1 ELSE heads[c + 1] - 1>>]]

RulesIn(hist) == SumOver(DOMAIN hist.child_rulecount, LAMBDA c : hist.child_rulecount[c])

(* calc_me_ratio; the difference of the counts is unsigned, so a stale count below
   rulenum makes it huge.                                                       *)
HUGE == 2^14

calc_me_ratio(rulenum, dup_rules, me) ==
  LET gain == rulenum * me[2] - me[1]
  IN Frac(gain, me[2] * (CASE dup_rules = rulenum -> 1
                           [] dup_rules > rulenum -> dup_rules - rulenum
                           [] OTHER -> HUGE))

(* hi_get_rule_hist: div doubles while the ratio improves.  The ratio of a division
   is taken with the rule count of the division stored before it: for the first
   one, whatever an earlier node left in the histogram (old).  Spans shorter than
   4 return before anything is stored.                                          *)
hi_match_expect(ruleset, d, old) ==
  LET n         == Len(ruleset)
      len       == Span(ruleset, d)
      shift(v)  == roundup_log2((len + v - 1) \div v)
      hist(v)   == hi_get_me_1d(ruleset, d, shift(v), v)
      me(v)     == get_match_expect(hist(v).child_rulecount)
      ratio(v)  == calc_me_ratio(n, IF v = 4 THEN RulesIn(old) ELSE RulesIn(hist(v \div 2)), me(v))
      goes_on(v) == /\ 2 * v \in Divs /\ len >= 2 * v /\ shift(2 * v) # shift(v)
                    /\ Less(ratio(v), ratio(2 * v))
      div       == Min({v \in Divs : ~goes_on(v)})
  IN IF len < 4 THEN [aux |-> old, me |-> Frac(n, 1)]
     ELSE [aux |-> hist(div), me |-> me(div)]

hi_mem_quant(aux) == Len(aux.child_rulecount)
hi_fits_bs(aux) == \A c \in DOMAIN aux.child_rulecount : aux.child_rulecount[c] <= BUCKETSIZE

(* hi_push_rule: the first child whose segments hold the value, 0 if none does. *)
HiChildOf(aux, v) ==
  LET s == Wrap(v - aux.start) \div 2^aux.shift
  IN SelectInSeq(aux.node_r, LAMBDA r : s >= r[1] /\ s <= r[2])

(* A slip: the pushed rules keep their ranges. *)
HiChild_Whole(ruleset, d, aux, c) ==
  SelectSeq(ruleset, LAMBDA rule : /\ HiChildOf(aux, rule.range[d][1]) <= c
                                   /\ HiChildOf(aux, rule.range[d][2]) >= c)

HiChild(ruleset, d, aux, c) ==
  LET from == aux.start + aux.node_r[c][1] * 2^aux.shift
      to   == aux.start + (aux.node_r[c][2] + 1) * 2^aux.shift - 1
  IN Push(ruleset,
          LAMBDA rule : /\ HiChildOf(aux, rule.range[d][1]) <= c
                        /\ HiChildOf(aux, rule.range[d][2]) >= c,
          LAMBDA rule : SetRange(rule, d, <<Max({rule.range[d][1], from}),
                                            Min({rule.range[d][2], to})>>))

(* hi_cut: the children's rule sets, in array order. *)
hi_cut(ruleset, d, aux) ==
  [c \in DOMAIN aux.child_rulecount |-> HiChild(ruleset, d, aux, c)]

(* The assertions of hi_push_rule, append_rules and hi_cut, and that no rule is
   written to childs[-1].                                                       *)
HiFits(ruleset, d, aux) ==
  /\ \A i \in DOMAIN ruleset :
       /\ HiChildOf(aux, ruleset[i].range[d][1]) # 0
       /\ HiChildOf(aux, ruleset[i].range[d][1]) <= HiChildOf(aux, ruleset[i].range[d][2])
  /\ \A c \in DOMAIN aux.child_rulecount :
       Len(HiChild(ruleset, d, aux, c)) = aux.child_rulecount[c]

(* hi_set_node: N children are told apart by N - 1 bits, the last segments of all
   but the last child.                                                          *)
HiNode(aux) ==
  [start |-> aux.start, shift |-> aux.shift,
   bitmap |-> {aux.node_r[c][2] : c \in 1 .. Len(aux.child_rulecount) - 1}]

(* hi_next and hi_search.  A key above the span can give an idx of HICHILD or more:
   the shift is then undefined and the x86 build takes idx modulo the word.     *)
hi_next(n, idx) == Cardinality({b \in n.bitmap : b < idx % HICHILD}) + 1

hi_search(n, d, key) ==
  [child |-> IF key[d] < n.start THEN 0 ELSE hi_next(n, (key[d] - n.start) \div 2^n.shift),
   key |-> key]
=============================================================================
