------------------------------ MODULE EvenCut ------------------------------
(* The bitmap cut (cut-bitmap.c, cut-bitmap.h, mb_node.h): a node consumes STRIDE
   bits of one dimension.  Children are numbered as in child_rulecount: index
   2^l - 1 + b is the internal child of the l-bit prefix b (l < STRIDE), index
   INL_OFFSET + b the external child of the STRIDE-bit prefix b.                *)
EXTENDS Rules

(* count_inl_bitmap *)
count_inl_bitmap(bit, cidr) == 2^cidr + bit - 1

(* The child index of a prefix, computed alike by both passes. *)
ChildIndex(p, d) ==
  IF p.len >= STRIDE THEN p.prefix \div 2^(dim_bits[d] - STRIDE) + INL_OFFSET
  ELSE count_inl_bitmap(p.prefix \div 2^(dim_bits[d] - p.len), p.len)

(* The indices met by repeating j = (j - 1) / 2. *)
Ancestors(i) ==
  LET up[j \in 0 .. CHILDCOUNT - 1] ==
        IF j = 0 THEN {} ELSE {(j - 1) \div 2} \cup up[(j - 1) \div 2]
  IN up[i]

(* Every rule with every prefix of its range, in the order both passes take. *)
Fragments(ruleset, d) ==
  FlattenSeq([i \in DOMAIN ruleset |->
    LET ps == RangePrefixes(ruleset[i].range[d], dim_bits[d])
    IN [k \in DOMAIN ps |-> [rule |-> ruleset[i], p |-> ps[k],
                             idx |-> ChildIndex(ps[k], d)]]])

(* get_rule_hist: prefixes per child; a child that has some also takes the
   (already accumulated) count of its nearest ancestor that has some.           *)
get_rule_hist(frags) ==
  LET own == [i \in 0 .. CHILDCOUNT - 1 |->
                Cardinality({k \in DOMAIN frags : frags[k].idx = i})]
      total[i \in 0 .. CHILDCOUNT - 1] ==
        LET above == {j \in Ancestors(i) : own[j] > 0}
        IN IF own[i] = 0 THEN 0
           ELSE own[i] + (IF above = {} THEN 0 ELSE total[Max(above)])
  IN [i \in 0 .. CHILDCOUNT - 1 |-> total[i]]

(* even_match_expect: the histogram of one dimension and its expectation. *)
even_match_expect(ruleset, d) ==
  LET frags == Fragments(ruleset, d)
      hist  == get_rule_hist(frags)
  IN [frags |-> frags, hist |-> hist, me |-> get_match_expect(hist)]

Present(hist) == {i \in DOMAIN hist : hist[i] > 0}

even_mem_quant(hist) == Cardinality(Present(hist))
even_fits_bs(hist) == \A i \in Present(hist) : hist[i] <= BUCKETSIZE

(* A slip: the bits the node has used up stay in the prefix. *)
Pushed_Kept(frag, d) ==
  LET p == frag.p
      q == IF p.len >= STRIDE THEN [prefix |-> p.prefix, len |-> p.len - STRIDE] ELSE [prefix |-> 0, len |-> 0]
  IN SetRange(frag.rule, d, prefix_to_range(q, dim_bits[d]))

(* The rule pushed for a fragment: the range of the remaining bits in an external
   child, everything in an internal one.                                        *)
Pushed(frag, d) ==
  LET p == frag.p
      q == IF p.len >= STRIDE
           THEN [prefix |-> (p.prefix * 2^STRIDE) % 2^dim_bits[d], len |-> p.len - STRIDE]
           ELSE [prefix |-> 0, len |-> 0]
  IN SetRange(frag.rule, d, prefix_to_range(q, dim_bits[d]))

(* push_rules_even with push_inl_rules_even: a fragment goes to its own child
   and, when that child is internal, to every present child below it.           *)
EvenChild(frags, d, i) ==
  Push(frags,
       LAMBDA frag : frag.idx = i \/ (frag.idx < INL_OFFSET /\ frag.idx \in Ancestors(i)),
       LAMBDA frag : Pushed(frag, d))

(* The node's bitmaps, and the place next_inl and next_exl give a child in the
   array of children (child_ptr points at its first external child).            *)
EvenNode(hist) ==
  [internal |-> {i \in Present(hist) : i < INL_OFFSET},
   external |-> {i - INL_OFFSET : i \in {j \in Present(hist) : j >= INL_OFFSET}}]

next_inl(n, i) == Cardinality(n.internal) - Cardinality({j \in n.internal : j < i})
next_exl(n, i) == Cardinality(n.internal) + Cardinality({j \in n.external : j < i}) + 1

(* even_cut_recursive and even_traverse visit internal, then external children. *)
EvenOrder(n) ==
  LET inl == Ascending(n.internal)
      exl == Ascending(n.external)
  IN [k \in DOMAIN inl |-> next_inl(n, inl[k])] \o [k \in DOMAIN exl |-> next_exl(n, exl[k])]

(* even_cut: the children's rule sets, in array order. *)
even_cut(frags, d, hist) ==
  LET n == EvenNode(hist)
      at(k) == CHOOSE i \in Present(hist) :
                 k = IF i < INL_OFFSET THEN next_inl(n, i) ELSE next_exl(n, i - INL_OFFSET)
  IN [k \in 1 .. Cardinality(Present(hist)) |-> EvenChild(frags, d, at(k))]

(* append_rules finds room: the histogram gave every child its capacity. *)
EvenFits(frags, d, hist) ==
  \A i \in Present(hist) : Len(EvenChild(frags, d, i)) <= hist[i]

(* even_search: the external child if there is one, else the internal child of the
   longest prefix; the key is shifted left in place by the bits consumed (the
   fast tree_function reports one bit more than the prefix has).                *)
tree_function(internal, stride) ==
  LET found == {l \in 0 .. STRIDE - 1 :
                  count_inl_bitmap(stride \div 2^(STRIDE - l), l) \in internal}
  IN IF found = {} THEN [pos |-> -1, cidr |-> 0]
     ELSE LET l == Max(found)
          IN [pos |-> count_inl_bitmap(stride \div 2^(STRIDE - l), l), cidr |-> l + 1]

(* A slip: the consumed bits stay in the key. *)
even_search_lshift_Kept(v, bits, n) == v

even_search_lshift(v, bits, n) == (v * 2^n) % 2^bits

even_search(n, d, key) ==
  LET stride == key[d] \div 2^(dim_bits[d] - STRIDE)
      inl    == tree_function(n.internal, stride)
      shift(k) == [key EXCEPT ![d] = even_search_lshift(@, dim_bits[d], k)]
  IN IF stride \in n.external
     THEN [child |-> next_exl(n, stride), key |-> shift(STRIDE)]
     ELSE IF inl.pos # -1
     THEN [child |-> next_inl(n, inl.pos), key |-> shift(inl.cidr)]
     ELSE [child |-> 0, key |-> key]
=============================================================================
