---------------------------- MODULE EvenPasses ----------------------------
(* The two passes of a bitmap cut over the prefixes of its rules (get_rule_hist and
   push_rules_even of cut-bitmap.c), one loop turn at a time: the first decides which
   children there are and how much room each gets, the second fills them and relies
   on that room.  EvenCut states their results in one go.  The lookup tables were filled
   before main.                                                                 *)
EXTENDS TreeFunction

CONSTANT RuleLists   \* the rule sets a node may hold

VARIABLES ruleset,   \* the node's rule set
          frags,     \* its prefixes, in the order both passes take them
          pc,        \* "call", "count", "sum", "push", "below" or "done"
          k,         \* the loop variable of the pass
          hist,      \* child_rulecount
          childs,    \* the children's rule sets, by child index
          row        \* push_inl_rules_even: start (start) and length (j) of the row

passes == <<ruleset, frags, pc, k, hist, childs, row>>
vars == <<passes, tables>>

Indices == 0 .. CHILDCOUNT - 1
NoRow == [start |-> 0, j |-> 0]

Init ==
  /\ FillInit
  /\ ruleset = <<>> /\ frags = <<>>
  /\ pc = "call" /\ k = 1
  /\ hist = [c \in Indices |-> 0]
  /\ childs = [c \in Indices |-> <<>>]
  /\ row = NoRow

(* cut_node is called on a node, after the tables were filled. *)
Call ==
  /\ pc = "call" /\ ~Filling
  /\ \E r \in RuleLists : ruleset' = r /\ frags' = Fragments(r, 1)
  /\ pc' = "count"
  /\ UNCHANGED <<k, hist, childs, row, tables>>

(* The first loop of get_rule_hist. *)
Count ==
  /\ pc = "count"
  /\ hist' = [hist EXCEPT ![frags[k].idx] = @ + 1]
  /\ IF k < Len(frags) THEN k' = k + 1 /\ pc' = pc ELSE k' = 0 /\ pc' = "sum"
  /\ UNCHANGED <<ruleset, frags, childs, row>>

(* A slip: every ancestor is added, not only the nearest, which has the rest already. *)
Inherited_All(c) ==
  LET above == {a \in Ancestors(c) : hist[a] > 0}
  IN IF hist[c] = 0 THEN 0 ELSE SumOver(above, LAMBDA a : hist[a])

Inherited(c) ==
  LET above == {a \in Ancestors(c) : hist[a] > 0}
  IN IF hist[c] = 0 \/ above = {} THEN 0 ELSE hist[Max(above)]

(* Its second loop, which adds up in place. *)
Sum ==
  /\ pc = "sum"
  /\ hist' = [hist EXCEPT ![k] = @ + Inherited(k)]
  /\ IF k < CHILDCOUNT - 1 THEN k' = k + 1 /\ pc' = pc ELSE k' = 1 /\ pc' = "push"
  /\ UNCHANGED <<ruleset, frags, childs, row>>

(* A slip: the rule goes to the front. *)
append_rules_Front(S) ==
  childs' = [c \in Indices |-> IF c \in S THEN <<Pushed(frags[k], 1)>> \o childs[c] ELSE childs[c]]

(* append_rules, to every child in S; its assertion is RoomExact below. *)
append_rules(S) ==
  childs' = [c \in Indices |-> IF c \in S THEN Append(childs[c], Pushed(frags[k], 1)) ELSE childs[c]]

Advance == IF k < Len(frags) THEN k' = k + 1 /\ pc' = "push" ELSE k' = k /\ pc' = "done"

(* The loop of push_rules_even: the prefix's own child, then the rows below it. *)
PushOwn ==
  /\ pc = "push"
  /\ append_rules({frags[k].idx})
  /\ IF frags[k].idx < INL_OFFSET
     THEN pc' = "below" /\ k' = k /\ row' = [start |-> 2 * frags[k].idx + 1, j |-> 2]
     ELSE Advance /\ row' = row
  /\ UNCHANGED <<ruleset, frags, hist>>

NextRow == [start |-> 2 * row.start + 1, j |-> 2 * row.j]

(* push_inl_rules_even, one row. *)
PushRow ==
  /\ pc = "below"
  /\ append_rules({c \in row.start .. row.start + row.j - 1 : hist[c] > 0})
  /\ IF NextRow.start < CHILDCOUNT THEN row' = NextRow /\ UNCHANGED <<pc, k>>
     ELSE row' = NoRow /\ Advance
  /\ UNCHANGED <<ruleset, frags, hist>>

fast_lookup_init == Fill /\ UNCHANGED passes

FirstPass == (Count \/ Sum) /\ UNCHANGED tables

SecondPass == (PushOwn \/ PushRow) /\ UNCHANGED tables
-----------------------------------------------------------------------------
(* append_rules' assertion holds, and in the end every child is full: the pass that counts
   and the pass that pushes agree on where every prefix goes.                   *)
RoomExact ==
  /\ pc \in {"push", "below"} => \A c \in Indices : Len(childs[c]) <= hist[c]
  /\ pc = "done" => \A c \in Indices : Len(childs[c]) = hist[c]

(* The children hold the rules EvenCut gives them, in that order. *)
ChildrenExact ==
  pc = "done" => \A c \in Present(hist) : childs[c] = EvenChild(frags, 1, c)

(* A packet that a rule of the node matches is, in the child it is sent to and with the
   bits it has left, answered as in the node.                                   *)
AnswersKept ==
  pc = "done" =>
    \A v \in 0 .. 2^dim_bits[1] - 1 :
      LET s == even_search(EvenNode(hist), 1, <<v>>)
          at(p) == CHOOSE c \in Present(hist) :
                     p = IF c < INL_OFFSET THEN next_inl(EvenNode(hist), c)
                         ELSE next_exl(EvenNode(hist), c - INL_OFFSET)
      IN lsearch(ruleset, <<v>>) # HS_RULE_NOT_FOUND =>
           s.child # 0 /\ lsearch(childs[at(s.child)], s.key) = lsearch(ruleset, <<v>>)

(* For every key, the highest bit that the node's internal bitmap and the row of fct have in
   common is the longest prefix of the key among the internal children, as in the loop
   of the version without tables: what EvenCut takes tree_function to be.       *)
LookupIsLongest ==
  pc = "done" =>
    LET bitmap == EvenNode(hist).internal
    IN \A v \in 0 .. 2^STRIDE - 1 : Lookup(bitmap, v) = tree_function(bitmap, v)
=============================================================================
