------------------------------ MODULE Program ------------------------------
(* main after the rules are loaded (main.c, cut.c): cut builds the tree, get_tree_info
   walks it for its statistics, compact walks it again and copies it into one array,
   and packets sampled from the rules are looked up in both.                    *)
EXTENDS CutTree

CONSTANT RAND_MAX   \* the largest value of rand() (2^31 - 1 in the code)

VARIABLES stage,   \* "cut", "info", "compact", "test" (sample_testing), "perf"
                   \* (sample_perf), or "astray" once it leaves the array
          stack,   \* the calls of traverse still to be made, the next one first
          info,    \* ctree_info
          ct       \* the array compact builds

program == <<stage, stack, info, ct>>
allvars == <<vars, program>>

-----------------------------------------------------------------------------
(* The children a walk goes to.  hi_traverse follows the bits of the bitmap, of which
   there is one less than there are children.                                   *)
split_traverse(n) ==
  LET bits == Ascending(n.shape) IN [k \in DOMAIN bits |-> split_next(n, bits[k])]

hi_traverse(n) ==
  LET bits == Ascending(n.bitmap) IN [k \in DOMAIN bits |-> hi_next(n, bits[k])]

(* A slip: the walk ends with the internal children. *)
even_traverse_Inl(n) ==
  LET inl == Ascending(n.internal) IN [k \in DOMAIN inl |-> next_inl(n, inl[k])]

even_traverse(n) ==
  LET inl == Ascending(n.internal)
      exl == Ascending(n.external)
  IN [k \in DOMAIN inl |-> next_inl(n, inl[k])] \o [k \in DOMAIN exl |-> next_exl(n, exl[k])]

(* A leaf has empty bitmaps and the type of a bitmap cut. *)
Walked(node) ==
  LET order == CASE node.leaf -> <<>>
                 [] ~node.leaf /\ node.type = BITMAP_CUT -> even_traverse(node.n)
                 [] ~node.leaf /\ node.type = SPLIT_CUT  -> split_traverse(node.n)
                 [] ~node.leaf /\ node.type = HI_CUT     -> hi_traverse(node.n)
  IN [k \in DOMAIN order |-> node.kids[order[k]]]

Root == <<[id |-> 1, depth |-> 0]>>

(* One call of traverse: the children are walked right after their parent. *)
traverse(call) ==
  LET kids == Walked(tree[call.id])
  IN stack' = [k \in DOMAIN kids |-> [id |-> kids[k], depth |-> call.depth + 1]] \o Tail(stack)

NoInfo ==
  [node_cnt |-> 0, leaf_cnt |-> 0, rule_cnt |-> 0, depth_cnt |-> 0, max_depth |-> 0,
   access_cnt |-> 0, cut_type |-> [t \in Types |-> 0]]

Counted(i, n, depth) ==
  LET seen == [i EXCEPT !.node_cnt = @ + 1, !.max_depth = Max({@, depth})]
  IN IF n.leaf THEN [seen EXCEPT !.leaf_cnt = @ + 1, !.rule_cnt = @ + Len(n.ruleset),
                                 !.depth_cnt = @ + depth, !.access_cnt = @ + depth + Len(n.ruleset)]
     ELSE [seen EXCEPT !.cut_type[n.type] = @ + 1]

get_tree_info ==
  /\ stage = "cut" /\ phase = "ready"
  /\ stage' = "info"
  /\ stack' = Root
  /\ UNCHANGED <<vars, info, ct>>

get_tree_info_traverse ==
  /\ stage = "info" /\ stack # <<>>
  /\ traverse(Head(stack))
  /\ info' = Counted(info, tree[Head(stack).id], Head(stack).depth)
  /\ UNCHANGED <<vars, stage, ct>>
-----------------------------------------------------------------------------
(* The array of the copied tree.  A slot holds the node it is a copy of (0 for none) and
   where its child_ptr points: OWN, the children of the copied node, or a slot.  wild
   is history: a child_ptr was written past the allocation.                     *)
OWN == -1
NoTree == [size |-> 0, alloc |-> 0, item |-> <<>>, copied |-> 0, wild |-> FALSE]

(* darray_growalloc doubles, darray_make_room takes what it needs. *)
darray_next_alloc(alloc, need) ==
  Min({a \in {Max({1, alloc}) * 2^k : k \in 0 .. roundup_log2(need)} : a >= need})

darray_realloc(c, alloc) ==
  [c EXCEPT !.alloc = alloc,
            !.item = [s \in 0 .. alloc - 1 |-> IF s < c.alloc THEN c.item[s] ELSE [of |-> 0, child_ptr |-> OWN]]]

(* A slip: the size grows by the room only, not by the copy. *)
darray_append_Over(c, id) ==
  LET need  == c.size + 1
      grown == IF need > c.alloc THEN darray_realloc(c, darray_next_alloc(c.alloc, need)) ELSE c
  IN [grown EXCEPT !.item[c.size] = [of |-> id, child_ptr |-> OWN]]

darray_append(c, id) ==
  LET need  == c.size + 1
      grown == IF need > c.alloc THEN darray_realloc(c, darray_next_alloc(c.alloc, need)) ELSE c
  IN [grown EXCEPT !.size = need, !.item[c.size] = [of |-> id, child_ptr |-> OWN]]

darray_make_room(c, room) ==
  IF c.alloc < c.size + room THEN darray_realloc(c, c.size + room) ELSE c

even_count_childs(n) == Cardinality(n.external) + Cardinality(n.internal)

(* A slip: the children of a split are not counted. *)
split_count_childs_None(n) == 0

split_count_childs(n) == Cardinality(n.shape)

(* A 64-bit map is counted with the popcount of its low 32 bits. *)
hi_count_childs(n) == Cardinality({b \in n.bitmap : b < HICHILD \div 2})

count_childs(node) ==
  CASE node.type = BITMAP_CUT -> even_count_childs(node.n)
    [] node.type = SPLIT_CUT  -> split_count_childs(node.n)
    [] node.type = HI_CUT     -> hi_count_childs(node.n)

even_set_child_ptr(n, childs) == childs + Cardinality(n.internal)

(* A slip, or a repair halfway: the pointer goes to the slot of the copy itself. *)
set_child_ptr_Self(c, node, dest) ==
  [c EXCEPT !.item[c.copied - 1].child_ptr = dest]

(* The pointer is written to the slot numbered by the nodes copied so far, which is
   past the copy itself.                                                        *)
set_child_ptr(c, node, dest) ==
  LET ptr == IF node.type = BITMAP_CUT THEN even_set_child_ptr(node.n, dest) ELSE dest
  IN IF c.copied < c.alloc THEN [c EXCEPT !.item[c.copied].child_ptr = ptr]
     ELSE [c EXCEPT !.wild = TRUE]

Copied(c, id) ==
  LET node == tree[id]
      one  == [darray_append(c, id) EXCEPT !.copied = @ + 1]
      kids == count_childs(node)
      room == darray_make_room(one, kids)
  IN IF node.leaf THEN one
     ELSE [set_child_ptr(room, node, one.size) EXCEPT !.size = @ + kids]

compact ==
  /\ stage = "info" /\ stack = <<>>
  /\ stage' = "compact"
  /\ stack' = Root
  /\ UNCHANGED <<vars, info, ct>>

compact_traverse ==
  /\ stage = "compact" /\ stack # <<>>
  /\ traverse(Head(stack))
  /\ ct' = Copied(ct, Head(stack).id)
  /\ stage' = IF ct'.wild THEN "astray" ELSE stage
  /\ UNCHANGED <<vars, info>>
-----------------------------------------------------------------------------
(* sample_rules: a packet inside a rule; the arithmetic is 64 bits wide. *)
sample(rule, x) ==
  [d \in Dims |-> (x[d] % (rule.range[d][2] - rule.range[d][1] + 1)) + rule.range[d][1]]

Samples == {sample(rules[i], x) : i \in DOMAIN rules, x \in [Dims -> 0 .. RAND_MAX]}

(* One packet of sample_testing, in the tree; every packet is a fresh one, and search
   changes nothing else.                                                        *)
sample_testing ==
  /\ stage = "compact" /\ stack = <<>>
  /\ stage' = "test"
  /\ \E f \in Samples : search(f)
  /\ UNCHANGED <<stack, info, ct>>

(* One packet of sample_perf, from the first slot of the array.  If its child_ptr were a
   slot, search would read a copy that was never made.                          *)
sample_perf ==
  /\ stage = "test" /\ phase = "found"
  /\ \E f \in Samples : flow' = f /\ key' = f
  /\ LET croot == ct.item[0]
         sound == tree[croot.of].leaf \/ croot.child_ptr = OWN
     IN at' = croot.of /\ stage' = IF sound THEN "perf" ELSE "astray"
  /\ phase' = "search"
  /\ result' = HS_RULE_NOT_FOUND
  /\ UNCHANGED <<building, stack, info, ct>>

cut == stage = "cut" /\ cut_node /\ UNCHANGED program

SearchStep == stage # "astray" /\ (Descend \/ Return) /\ UNCHANGED program

(* main has returned, the program was aborted, or it went on with memory that is not its own. *)
Halted == phase = "fault" \/ stage = "astray" \/ (stage = "perf" /\ phase = "found")

main ==
  cut \/ get_tree_info \/ get_tree_info_traverse \/ compact \/ compact_traverse
    \/ sample_testing \/ sample_perf \/ SearchStep

ProgramInit == Init /\ stage = "cut" /\ stack = <<>> /\ info = NoInfo /\ ct = NoTree

ProgramNext == main \/ (Halted /\ UNCHANGED allvars)

(* Straight-line code keeps running until it ends. *)
ProgramSpec == ProgramInit /\ [][ProgramNext]_allvars /\ ([]<>Halted \/ []<><<TRUE>>_allvars)
-----------------------------------------------------------------------------
(* Where a node is: its depth, and whether it lies in the last child of an equal-size
   cut, which no walk enters.                                                   *)
Place ==
  LET place[id \in DOMAIN tree] ==
        IF id = 1 THEN [depth |-> 0, hidden |-> FALSE]
        ELSE LET up   == CHOOSE u \in DOMAIN tree : id \in Range(tree[u].kids)
                 last == tree[up].type = HI_CUT /\ id = tree[up].kids[Len(tree[up].kids)]
             IN [depth |-> place[up].depth + 1, hidden |-> place[up].hidden \/ last]
  IN place

(* The statistics of get_tree_info are those of all nodes but the hidden ones, each
   counted once, at its depth: the recursion of traverse through three kinds of
   nodes, whose children lie on both sides of child_ptr, misses no other node.  *)
InfoExact ==
  stage \notin {"cut", "info"} =>
    LET place  == Place
        shown  == {id \in DOMAIN tree : ~place[id].hidden}
        leaves == {id \in shown : tree[id].leaf}
    IN /\ info.node_cnt = Cardinality(shown)
       /\ info.leaf_cnt = Cardinality(leaves)
       /\ info.rule_cnt = SumOver(leaves, LAMBDA id : Len(tree[id].ruleset))
       /\ info.depth_cnt = SumOver(leaves, LAMBDA id : place[id].depth)
       /\ info.max_depth = Max({place[id].depth : id \in shown})
       /\ info.access_cnt = info.depth_cnt + info.rule_cnt
       /\ info.leaf_cnt + SumOver(Types, LAMBDA t : info.cut_type[t]) = info.node_cnt

(* compact writes a child_ptr past its array only when it reserves no room for the
   children of the root: an equal-size cut with no bit in the low half of its map. *)
OnlyEmptyRootFaults ==
  ct.wild => ~tree[1].leaf /\ tree[1].type = HI_CUT /\ count_childs(tree[1]) = 0

(* Otherwise the stray writes leave the copies where they are: as many slots as nodes
   were met hold a copy, the first one that of the root.                        *)
ArraySound ==
  stage \in {"test", "perf"} =>
    /\ ct.size <= ct.alloc
    /\ Cardinality({s \in 0 .. ct.size - 1 : ct.item[s].of # 0}) = info.node_cnt
    /\ ct.item[0].of = 1

(* Sampled packets are found, in the tree and from the root of the copy, as linear search
   finds them: sample_testing prints no error.                                  *)
SamplesAgree ==
  /\ stage \in {"test", "perf"} /\ phase = "found" => result = lsearch(rules, flow)
  /\ stage = "astray" => ct.wild

(* The program comes to its end: no walk goes round in circles. *)
MainEnds == <>Halted
=============================================================================
