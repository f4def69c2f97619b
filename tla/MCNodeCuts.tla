----------------------------- MODULE MCNodeCuts -----------------------------
(* One field of 6 bits, stride 4: 4, 8 and 16 segments for the equal-size cut, two more
   bits below the stride for the bitmap cut.                                    *)
EXTENDS NodeCuts

CONSTANTS Few, FewRules,      \* all multisets of so many ranges with ends among few points,
          Points, MAXRULES    \* and of fewer with ends among more

bits == <<6>>

RangesOf(points) == {r \in points \X points : r[1] <= r[2]}
InOrder(g, n) ==
  \A m \in 1 .. n - 1 : g[m][1] < g[m + 1][1] \/ (g[m][1] = g[m + 1][1] /\ g[m][2] <= g[m + 1][2])
ListOf(f, n) == [m \in 1 .. n |-> [pri |-> m - 1, range |-> <<f[m]>>]]
Multisets(points, most) ==
  UNION {{ListOf(f, n) : f \in {g \in [1 .. n -> RangesOf(points)] : InOrder(g, n)}} : n \in 1 .. most}

(* Ranges that start and end in the middle of blocks, in any order. *)
pool ==
  {r \in {0, 2, 15, 16, 24, 33, 40, 61} \X {0, 6, 15, 22, 27, 31, 46, 61, 63} : r[1] <= r[2]}
lists ==
  Multisets(Few, FewRules) \cup Multisets(Points, MAXRULES)
    \cup {ListOf(r, 2) : r \in pool \X pool}
    \cup {ListOf(r, 3) : r \in {<<0, 63>>, <<16, 31>>, <<2, 61>>} \X {<<0, 31>>, <<15, 46>>} \X pool}

(* A cleared histogram, and one an earlier node left with few or many rules. *)
hists ==
  {[start |-> 0, shift |-> 0, child_rulecount |-> <<>>, node_r |-> <<>>],
   [start |-> 1, shift |-> 1, child_rulecount |-> <<2, 1>>, node_r |-> <<<<0, 1>>, <<2, 3>>>>],
   [start |-> 0, shift |-> 2, child_rulecount |-> <<3, 4>>, node_r |-> <<<<0, 0>>, <<1, 3>>>>]}
=============================================================================
