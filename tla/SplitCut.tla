------------------------------ MODULE SplitCut ------------------------------
(* The split cut (cut-split.c, cut-split.h): a node is cut in two at a point of one
   dimension, and each half possibly in two again, in its own best dimension.   *)
EXTENDS Rules

SameRange(ruleset, d) == Cardinality({ruleset[i].range[d] : i \in DOMAIN ruleset}) = 1

(* A slip: a rule that ends at the cut counts to the right of it. *)
RightWeight_Incl(ruleset, d, p) == Cardinality({i \in DOMAIN ruleset : ruleset[i].range[d][2] >= p})

(* The rules that reach the left of a cut after p, and those that reach beyond. *)
LeftWeight(ruleset, d, p) == Cardinality({i \in DOMAIN ruleset : ruleset[i].range[d][1] <= p})
RightWeight(ruleset, d, p) == Cardinality({i \in DOMAIN ruleset : ruleset[i].range[d][2] > p})

(* The squares are unsigned ints. *)
split_match_expect_heuristic(left, right) ==
  Frac(((right * right) % 2^INT_BITS) + ((left * left) % 2^INT_BITS), right + left)

(* The points the sweep weighs: the end of a range, and the point before a start. *)
CutPoints(ruleset, d) ==
  (Highs(ruleset, d) \cup {l - 1 : l \in Lows(ruleset, d) \ {Min(Lows(ruleset, d))}})
    \ {Max(Highs(ruleset, d))}

(* split_match_expect_1d, for ranges that are not all the same: the first point of
   least expectation, with r[0] = [low, split] and r[1] = [next, high].         *)
BestCut(ruleset, d) ==
  LET me(p) == split_match_expect_heuristic(LeftWeight(ruleset, d, p), RightWeight(ruleset, d, p))
      split == Min({p \in CutPoints(ruleset, d) :
                      \A q \in CutPoints(ruleset, d) : ~Less(me(q), me(p))})
  IN [low |-> Min(Lows(ruleset, d)), split |-> split,
      next |-> split + 1, high |-> Max(Highs(ruleset, d)),
      left |-> LeftWeight(ruleset, d, split), right |-> RightWeight(ruleset, d, split),
      me |-> me(split)]

(* A slip: the rules of a half are not trimmed to it. *)
Trimmed_Whole(ruleset, d, low, high) ==
  SelectSeq(ruleset, LAMBDA rule : ~(rule.range[d][2] < low \/ rule.range[d][1] > high))

(* _split_cut_1d: the trimmed rules of each half, <<left, right>>. *)
Trimmed(ruleset, d, low, high) ==
  Push(ruleset,
       LAMBDA rule : ~(rule.range[d][2] < low \/ rule.range[d][1] > high),
       LAMBDA rule : SetRange(rule, d, <<Max({rule.range[d][1], low}),
                                         Min({rule.range[d][2], high})>>))

split_cut_1d(ruleset, d, r) ==
  <<Trimmed(ruleset, d, r.low, r.split), Trimmed(ruleset, d, r.next, r.high)>>

(* split_match_build_childs: whether and where a half is cut again. *)
Disabled == [on |-> FALSE]

split_match_build_childs(ruleset) ==
  LET dims == {d \in Dims : ~SameRange(ruleset, d)}
      cut  == [d \in dims |-> BestCut(ruleset, d)]
      best == Min({d \in dims : \A e \in dims : ~Less(cut[e].me, cut[d].me)})
  IN IF (memory_constraints /\ Len(ruleset) <= BUCKETSIZE) \/ dims = {} THEN Disabled
     ELSE [on |-> TRUE, dim |-> best, r |-> cut[best]]

SnodeWeights(s, w) == IF s.on THEN <<s.r.left, s.r.right>> ELSE <<w>>

(* The weights of the two to four children, in order. *)
ChildWeights(t) == SnodeWeights(t.left, t.root.left) \o SnodeWeights(t.right, t.root.right)

(* split_match_expect: the tree of one dimension.  When all ranges are the same
   root.r keeps what an earlier node left there (old).                          *)
split_match_expect(ruleset, d, old) ==
  LET r      == BestCut(ruleset, d)
      halves == split_cut_1d(ruleset, d, r)
      tree   == [root |-> r, left |-> split_match_build_childs(halves[1]),
                 right |-> split_match_build_childs(halves[2])]
      w      == ChildWeights(tree)
  IN IF SameRange(ruleset, d)
     THEN [root |-> old, left |-> Disabled, right |-> Disabled, me |-> Frac(Len(ruleset), 1)]
     ELSE IF memory_constraints /\ r.left <= BUCKETSIZE /\ r.right <= BUCKETSIZE
     THEN [root |-> r, left |-> Disabled, right |-> Disabled, me |-> r.me]
     ELSE [root |-> r, left |-> tree.left, right |-> tree.right,
           me |-> Frac(SumOver(DOMAIN w, LAMBDA i : w[i]), Len(w))]

split_mem_quant(t) == Len(ChildWeights(t))
split_fits_bs(t) == \A i \in DOMAIN ChildWeights(t) : ChildWeights(t)[i] <= BUCKETSIZE

(* split_fill: the node.  Shape bits: 0 and 1 the left half, 2 and 3 the right. *)
SplitNode(t) ==
  [root_split |-> t.root.split, left |-> t.left, right |-> t.right,
   shape |-> {0, 2} \cup (IF t.left.on THEN {1} ELSE {}) \cup (IF t.right.on THEN {3} ELSE {})]

(* split_cut: the children's rule sets, in array order. *)
split_cut(ruleset, d, t) ==
  LET halves == split_cut_1d(ruleset, d, t.root)
      again(s, rs) == IF s.on THEN split_cut_1d(rs, s.dim, s.r) ELSE <<rs>>
  IN again(t.left, halves[1]) \o again(t.right, halves[2])

(* The assertions of split_cut_1d and append_rules: the weights found by the sweep
   are the sizes of the rule sets it leads to.                                  *)
SplitFits(ruleset, d, t) ==
  LET halves == split_cut_1d(ruleset, d, t.root)
      childs == split_cut(ruleset, d, t)
  IN /\ Len(halves[1]) = t.root.left /\ Len(halves[2]) = t.root.right
     /\ \A i \in DOMAIN childs : Len(childs[i]) <= ChildWeights(t)[i]

split_next(n, idx) == Cardinality({b \in n.shape : b < idx}) + 1

(* A slip: the cut point itself is sent to the right of the second cut. *)
split_search_Geq(n, d, key) ==
  LET second(s) == IF s.on /\ key[s.dim] >= s.r.split THEN 1 ELSE 0
  IN [child |-> split_next(n, IF key[d] > n.root_split THEN 2 + second(n.right)
                                                       ELSE second(n.left)),
      key |-> key]

split_search(n, d, key) ==
  LET second(s) == IF s.on /\ key[s.dim] > s.r.split THEN 1 ELSE 0
  IN [child |-> split_next(n, IF key[d] > n.root_split THEN 2 + second(n.right)
                                                       ELSE second(n.left)),
      key |-> key]
=============================================================================
