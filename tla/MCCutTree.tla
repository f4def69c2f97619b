----------------------------- MODULE MCCutTree -----------------------------
(* Small instances of CutTree. *)
EXTENDS CutTree

(* Lists of rules over a set of boxes; a rule's priority is its line, as loaded. *)
ListsOf(boxes, n) ==
  {[i \in 1 .. n |-> [pri |-> i - 1, range |-> b[i]]] : b \in [1 .. n -> boxes]}

(* Memory past a zero-sized allocation: zeroes, or a rule that holds everything. *)
MCStray ==
  {[pri |-> 0, range |-> [d \in Dims |-> <<0, 0>>]],
   [pri |-> 99, range |-> [d \in Dims |-> <<0, 2^dim_bits[d] - 1>>]]}

(* hi_aux before its first use: cleared, or left by other code. *)
MCHiGarbage ==
  {[start |-> 0, shift |-> 0, child_rulecount |-> <<>>, node_r |-> <<>>],
   [start |-> 1, shift |-> 1, child_rulecount |-> <<1, 1>>, node_r |-> <<<<0, 0>>, <<1, 3>>>>]}

MCSplitGarbage ==
  {[low |-> 0, split |-> 0, next |-> 0, high |-> 0, left |-> 0, right |-> 0, me |-> <<0, 1>>]}

(* Lists whose rules are not all the same. *)
Varied(lists) == {l \in lists : \E i \in DOMAIN l : l[i].range # l[1].range}

(* One field of 4 bits, stride 3.  Lists of three: aligned blocks, ranges that need
   several prefixes, ranges that share an end, single values and everything.
   Lists of eight: a pair of rules in each of the four aligned blocks, which bitmap
   cuts separate in two levels.                                                 *)
bits_1d == <<4>>
pool_1d == {<<0, 15>>, <<0, 3>>, <<4, 7>>, <<1, 14>>, <<1, 2>>, <<5, 5>>, <<0, 8>>,
            <<6, 9>>, <<12, 15>>, <<13, 13>>, <<2, 15>>, <<0, 0>>, <<15, 15>>, <<3, 5>>}
pairs == {<<<<0, 0>>, <<1, 1>>>>, <<<<1, 1>>, <<2, 3>>>>, <<<<0, 1>>, <<1, 2>>>>, <<<<3, 3>>, <<0, 3>>>>}
In(block, r) == <<r[1] + 4 * block, r[2] + 4 * block>>
blocks ==
  {[i \in 1 .. 8 |-> [pri |-> i - 1,
                      range |-> <<In((i - 1) \div 2, c[(i + 1) \div 2][2 - (i % 2)])>>]] :
     c \in [1 .. 4 -> pairs]}
lists_1d == Varied(ListsOf({<<r>> : r \in pool_1d}, 3)) \cup blocks

(* The lists of identical rules left out above. *)
lists_same == ListsOf({<<r>> : r \in pool_1d}, 3) \ lists_1d

(* One field of 5 bits: in each block of 8 values two rules far apart, or three
   within three values.  hi_aux starts with counts no bucket takes, so that only
   what an earlier node left there can be chosen.                               *)
bits_5 == <<5>>
groups == {<<<<0, 0>>, <<6, 6>>>>, <<<<1, 1>>, <<2, 2>>, <<3, 3>>>>, <<<<1, 2>>, <<2, 3>>, <<3, 3>>>>}
lists_groups ==
  {LET rs == FlattenSeq([b \in 1 .. 4 |-> [k \in DOMAIN c[b] |-> In(2 * (b - 1), c[b][k])]])
   IN [i \in DOMAIN rs |-> [pri |-> i - 1, range |-> <<rs[i]>>]] : c \in [1 .. 4 -> groups]}
LargeCounts == {[start |-> 0, shift |-> 0, child_rulecount |-> <<99>>, node_r |-> <<<<0, 3>>>>]}

(* Two fields of 3 bits, stride 2. *)
bits_2d == <<3, 3>>
pool_2d == {<<<<0, 7>>, <<0, 7>>>>, <<<<0, 3>>, <<2, 2>>>>, <<<<1, 1>>, <<0, 7>>>>,
            <<<<2, 6>>, <<1, 6>>>>, <<<<1, 1>>, <<3, 5>>>>, <<<<0, 0>>, <<1, 7>>>>,
            <<<<4, 7>>, <<0, 0>>>>, <<<<1, 2>>, <<0, 6>>>>, <<<<7, 7>>, <<7, 7>>>>}
lists_2d == Varied(ListsOf(pool_2d, 3))

(* Six rules that leave one of two fields open.  Squares wrap at 6 bits, where 7 rules are
   the most that the loader takes (2^3 - 1 for 65535, as 6 bits for 32).        *)
lists_wide ==
  {[i \in 1 .. 6 |-> [pri |-> i - 1, range |-> <<<<0, 7>>, <<r[i], r[i]>>>>]] :
     r \in {<<0, 1, 2, 3, 4, 5>>, <<7, 5, 3, 1, 0, 2>>}}

(* One field of 4 bits, stride 3: four unaligned ranges that only an equal-size cut
   separates, with and without gaps between them, and two arbitrary rules.      *)
base == {<<<<1, 2>>, <<3, 4>>, <<5, 6>>, <<7, 8>>>>, <<<<1, 2>>, <<5, 6>>, <<7, 8>>, <<11, 12>>>>}
pool_hi == {<<9, 10>>, <<13, 14>>, <<0, 15>>, <<1, 14>>, <<9, 9>>, <<2, 7>>, <<12, 15>>, <<0, 0>>, <<4, 5>>}
lists_hi ==
  {[i \in 1 .. 6 |-> [pri |-> i - 1,
                      range |-> <<IF i = 1 THEN a ELSE IF i = 6 THEN z ELSE b[i - 1]>>]] :
     a \in pool_hi, z \in pool_hi, b \in base}

(* Two fields, stride 5, fifteen rules.  In the first field four rules need four prefixes
   each inside the lowest block, which is one child of a bitmap cut; the others are spread
   over the other blocks.  In the second the ranges are nested, and no split or
   equal-size cut tells them well apart.                                        *)
bits_tall == <<8, 5>>
lists_tall ==
  {[i \in 1 .. 15 |->
      LET a == 1 + ((i - 5) * 24) \div 11
      IN [pri |-> i - 1,
          range |-> <<IF i < 5 THEN <<1, 6>> ELSE <<8 * a, 8 * (a + 8) - 1>>, <<16 - i, 15 + i>>>>]]}
=============================================================================
