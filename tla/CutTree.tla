------------------------------ MODULE CutTree ------------------------------
(* The decision tree (cut.c, cut-inl.c): cut builds it depth first from a rule
   list, choosing one of the three cuts for every node that is larger than a
   bucket, and search walks it.  The three cuts share one cut_aux, which lives on
   the stack of cut and is never cleared: what a cut left there for one node is
   what the next node finds.                                                    *)
EXTENDS EvenCut, SplitCut, HiCut

CONSTANTS RuleLists,     \* the rule lists main may load
          Stray,         \* rules that may lie past a zero-sized allocation
          HiGarbage,     \* what hi_aux may hold before its first use
          SplitGarbage   \* what a root.r of split_aux may hold before its first use

BITMAP_CUT == 0
SPLIT_CUT == 1
HI_CUT == 2
Types == {BITMAP_CUT, SPLIT_CUT, HI_CUT}

VARIABLES rules,    \* the loaded rule list; lsearch on it is the reference
          tree,     \* the nodes by number, 1 the root
          todo,     \* nodes cut_node has yet to be called on, in that order
          aux,      \* cut_aux: hi[d] and, of split, root.r per dimension
          phase,    \* "build", "ready", "search", "found" or "fault"
          fault,    \* where an assertion failed or an array was overrun
          flow,     \* the packet looked up
          key,      \* its key, which even_search shifts in place
          at,       \* the node search has reached, 0 for NULL
          result    \* what search returned

vars == <<rules, tree, todo, aux, phase, fault, flow, key, at, result>>
building == <<rules, tree, todo, aux, fault>>
searching == <<flow, key, at, result>>

(* cnode.  seen is history: the rule set cut_node was called with. *)
NewNode(ruleset) ==
  [leaf |-> FALSE, type |-> BITMAP_CUT, dim |-> 1, ruleset |-> ruleset,
   kids |-> <<>>, n |-> <<>>, seen |-> <<>>]

NoFault == [type |-> -1, dim |-> 0]

(* A node has outgrown the scratch arrays of the sweeps, before a cut was chosen. *)
Outgrown == [type |-> SPLIT_CUT, dim |-> 0]
NoKey == [d \in Dims |-> 0]

(* main copies the loaded rules to the root; cut_aux is uninitialized. *)
Init ==
  /\ rules \in RuleLists
  /\ tree = <<NewNode(rules)>>
  /\ todo = <<1>>
  /\ aux \in [hi : [Dims -> HiGarbage], split : [Dims -> SplitGarbage]]
  /\ phase = "build"
  /\ fault = NoFault
  /\ flow = NoKey /\ key = NoKey /\ at = 0 /\ result = HS_RULE_NOT_FOUND

-----------------------------------------------------------------------------
(* cut_node's first loop: every cut's view of every dimension.  This overwrites
   the part of aux that the cuts do not leave alone.                            *)
Views(ruleset) ==
  [even  |-> [d \in Dims |-> even_match_expect(ruleset, d)],
   split |-> [d \in Dims |-> split_match_expect(ruleset, d, aux.split[d])],
   hi    |-> [d \in Dims |-> hi_match_expect(ruleset, d, aux.hi[d])]]

Expect(v, t, d) ==
  CASE t = BITMAP_CUT -> v.even[d].me
    [] t = SPLIT_CUT  -> v.split[d].me
    [] t = HI_CUT     -> v.hi[d].me

chose_dim(v, t) ==
  Min({d \in Dims : \A e \in Dims : ~Less(Expect(v, t, e), Expect(v, t, d))})

all_fits_bs(v, t, d) ==
  CASE t = BITMAP_CUT -> even_fits_bs(v.even[d].hist)
    [] t = SPLIT_CUT  -> split_fits_bs(v.split[d])
    [] t = HI_CUT     -> hi_fits_bs(v.hi[d].aux)

mem_quant(v, t, d) ==
  IF ~all_fits_bs(v, t, d) THEN CHILDCOUNT
  ELSE CASE t = BITMAP_CUT -> even_mem_quant(v.even[d].hist)
         [] t = SPLIT_CUT  -> split_mem_quant(v.split[d])
         [] t = HI_CUT     -> hi_mem_quant(v.hi[d].aux)

(* The first cut whose best expectation is least, the bitmap cut if none is below
   the number of rules; then, under memory constraints, the first of the other
   cuts that needs fewest nodes, if that is fewer than the bitmap cut needs.    *)
chose_t(v, num) ==
  LET min(t)   == Expect(v, t, chose_dim(v, t))
      least    == Min({t \in Types : \A u \in Types : ~Less(min(u), min(t))})
      quant(t) == mem_quant(v, t, chose_dim(v, t))
      small    == Min({t \in Types : \A u \in Types : quant(t) <= quant(u)})
  IN IF memory_constraints /\ quant(small) < quant(BITMAP_CUT) THEN small
     ELSE IF Less(min(least), Frac(num, 1)) THEN least
     ELSE BITMAP_CUT

(* What cuts[t].cut_node makes of a node: its children and its search structure. *)
Cut(v, t, d, ruleset) ==
  CASE t = BITMAP_CUT -> [kids |-> even_cut(v.even[d].frags, d, v.even[d].hist), n |-> EvenNode(v.even[d].hist)]
    [] t = SPLIT_CUT  -> [kids |-> split_cut(ruleset, d, v.split[d]), n |-> SplitNode(v.split[d])]
    [] t = HI_CUT     -> [kids |-> hi_cut(ruleset, d, v.hi[d].aux), n |-> HiNode(v.hi[d].aux)]

(* No assertion fails in it and no array is overrun. *)
CutFits(v, t, d, ruleset) ==
  CASE t = BITMAP_CUT -> EvenFits(v.even[d].frags, d, v.even[d].hist)
    [] t = SPLIT_CUT  -> SplitFits(ruleset, d, v.split[d])
    [] t = HI_CUT     -> HiFits(ruleset, d, v.hi[d].aux)

(* split_aux_init and hi_init give the scratch arrays the size of the root's rule
   set (darray_growalloc rounds ranges up to a power of two); the sweeps write ranges
   unchecked, and append_rules asserts that left_rules and right_rules have room. *)
ScratchFits(v, ruleset) ==
  /\ Len(ruleset) <= 2^roundup_log2(Len(rules))
  /\ \A d \in Dims : \/ SameRange(ruleset, d)
                     \/ v.split[d].root.left <= Len(rules) /\ v.split[d].root.right <= Len(rules)

(* cut_recursive and even_cut_recursive call remove_redund on a child right before
   cut_node; the root is cut as loaded.                                         *)
Entering(id, stray) ==
  IF id = 1 THEN tree[id].ruleset ELSE remove_redund(tree[id].ruleset, stray)

Order(t, c) == IF t = BITMAP_CUT THEN EvenOrder(c.n) ELSE [k \in DOMAIN c.kids |-> k]

(* A slip: a leaf is queued again instead of returned from. *)
MakeLeaf_Again(id, ruleset) ==
  /\ Len(ruleset) <= BUCKETSIZE
  /\ tree' = [tree EXCEPT ![id].leaf = TRUE, ![id].ruleset = ruleset, ![id].seen = ruleset]
  /\ todo' = Append(Tail(todo), id)
  /\ UNCHANGED <<rules, aux, fault, phase>>

(* cut_node on a rule set that fits a bucket. *)
MakeLeaf(id, ruleset) ==
  /\ Len(ruleset) <= BUCKETSIZE
  /\ tree' = [tree EXCEPT ![id].leaf = TRUE, ![id].ruleset = ruleset, ![id].seen = ruleset]
  /\ todo' = Tail(todo)
  /\ phase' = IF todo' = <<>> THEN "ready" ELSE "build"
  /\ UNCHANGED <<rules, aux, fault>>

(* A slip: the children are taken one place further on. *)
Recurse_Off(id, ruleset, t, d, c) ==
  LET first == Len(tree) + 1
  IN /\ tree' = [tree EXCEPT ![id].type = t, ![id].dim = d, ![id].n = c.n, ![id].seen = ruleset,
                             ![id].kids = [k \in DOMAIN c.kids |-> first + k]]
                \o [k \in DOMAIN c.kids |-> NewNode(c.kids[k])]
     /\ todo' = [k \in DOMAIN c.kids |-> Len(tree) + k] \o Tail(todo)
     /\ UNCHANGED <<phase, fault>>

(* cut_node on a larger one: choose, cut, recurse on the children. *)
Recurse(id, ruleset, t, d, c) ==
  LET first == Len(tree)
      order == Order(t, c)
      node  == [tree[id] EXCEPT !.type = t, !.dim = d, !.n = c.n, !.ruleset = <<>>,
                                !.seen = ruleset, !.kids = [k \in DOMAIN c.kids |-> first + k]]
  IN /\ tree' = [tree EXCEPT ![id] = node] \o [k \in DOMAIN c.kids |-> NewNode(c.kids[k])]
     /\ todo' = [k \in DOMAIN order |-> first + order[k]] \o Tail(todo)
     /\ UNCHANGED <<phase, fault>>

Stop(id, ruleset, where) ==
  /\ fault' = where
  /\ tree' = [tree EXCEPT ![id].seen = ruleset]
  /\ phase' = "fault"
  /\ UNCHANGED todo

CutNode(id, ruleset) ==
  /\ Len(ruleset) > BUCKETSIZE
  /\ \E v \in {Views(ruleset)} :
       \E t \in {chose_t(v, Len(ruleset))} :
         LET d    == chose_dim(v, t)
             room == ScratchFits(v, ruleset)
             fits == room /\ CutFits(v, t, d, ruleset)
         IN /\ \/ fits /\ Recurse(id, ruleset, t, d, Cut(v, t, d, ruleset))
               \/ ~fits /\ Stop(id, ruleset, IF room THEN [type |-> t, dim |-> d] ELSE Outgrown)
            /\ aux' = [hi    |-> [e \in Dims |-> v.hi[e].aux],
                       split |-> [e \in Dims |-> v.split[e].root]]
  /\ UNCHANGED rules

cut_node ==
  /\ phase = "build"
  /\ \E stray \in IF tree[Head(todo)].ruleset = <<>> THEN Stray ELSE {<<>>} :
       \E ruleset \in {Entering(Head(todo), stray)} :
         MakeLeaf(Head(todo), ruleset) \/ CutNode(Head(todo), ruleset)
  /\ UNCHANGED searching

-----------------------------------------------------------------------------
Flows == {f \in [Dims -> 0 .. 2^WORD - 1] : \A d \in Dims : f[d] < 2^dim_bits[d]}

(* search on the finished tree: the call, one turn of its loop, its return. *)
search(f) ==
  /\ phase = "ready"
  /\ phase' = "search"
  /\ flow' = f /\ key' = f /\ at' = 1
  /\ UNCHANGED <<building, result>>

NextNode(n) ==
  CASE n.type = BITMAP_CUT -> even_search(n.n, n.dim, key)
    [] n.type = SPLIT_CUT  -> split_search(n.n, n.dim, key)
    [] n.type = HI_CUT     -> hi_search(n.n, n.dim, key)

Descend ==
  /\ phase = "search"
  /\ at # 0 /\ ~tree[at].leaf
  /\ LET s == NextNode(tree[at])
     IN /\ at' = IF s.child = 0 THEN 0 ELSE tree[at].kids[s.child]
        /\ key' = s.key
  /\ UNCHANGED <<building, phase, flow, result>>

Return ==
  /\ phase = "search"
  /\ at # 0 => tree[at].leaf
  /\ result' = IF at = 0 THEN HS_RULE_NOT_FOUND ELSE lsearch(tree[at].ruleset, key)
  /\ phase' = "found"
  /\ UNCHANGED <<building, flow, key, at>>

(* The lookup modelled is done, or the program was aborted. *)
Stopped == phase \in {"found", "fault"} /\ UNCHANGED vars

Next == cut_node \/ (\E f \in Flows : search(f)) \/ Descend \/ Return \/ Stopped

(* Straight-line code keeps running: weak fairness of Next, spelled out for the
   phases in which the program has a next step of its own (it is never stuck in
   one of them: the runs check for deadlock).                                   *)
Running == phase \in {"build", "search"}
Fairness == []<>(~Running) \/ []<><<TRUE>>_vars

Spec == Init /\ [][Next]_vars /\ Fairness
-----------------------------------------------------------------------------
(* Nodes hold a cut type and dimension, children come after their parent in the
   arrays cut_node makes, and search stays inside the tree.                     *)
TypeOK ==
  /\ \A id \in DOMAIN tree :
       /\ tree[id].type \in Types /\ tree[id].dim \in Dims /\ tree[id].leaf \in BOOLEAN
       /\ \A k \in DOMAIN tree[id].kids : tree[id].kids[k] \in (id + 1) .. Len(tree)
  /\ \A k \in DOMAIN todo : todo[k] \in DOMAIN tree
  /\ phase \in {"build", "ready", "search", "found", "fault"}
  /\ fault \in [type : Types \cup {-1}, dim : Dims \cup {0}]
  /\ flow \in Flows /\ key \in Flows
  /\ at \in {0} \cup DOMAIN tree
  /\ result \in Int

(* sample_testing: a packet that some rule matches is classified by the tree as by
   linear search over the loaded list, whatever cuts were chosen on its way.    *)
TreeAgrees ==
  phase = "found" /\ lsearch(rules, flow) # HS_RULE_NOT_FOUND =>
    result = lsearch(rules, flow)

(* The reason: every node search passes through was built from a rule set that,
   with the key as shifted so far, gives the answer of the whole list.          *)
AnswerKept ==
  phase = "search" /\ lsearch(rules, flow) # HS_RULE_NOT_FOUND =>
    /\ at # 0
    /\ lsearch(tree[at].seen, key) = lsearch(rules, flow)

(* search agrees with lsearch on packets that no rule matches, too. *)
TreeAgreesEverywhere == phase = "found" => result = lsearch(rules, flow)

(* Every assertion of the cut that is made holds, and the children's arrays, sized by what
   the sweeps counted, are filled and not overrun, except where the chosen cut had left
   aux alone: an equal-size cut of a span below 4, or a split of identical ranges.
   (The scratch arrays of the sweeps are ScratchSuffices' concern.)             *)
OnlyStaleAuxFaults ==
  phase = "fault" /\ fault # Outgrown =>
    LET ruleset == tree[Head(todo)].seen
    IN \/ fault.type = HI_CUT /\ Span(ruleset, fault.dim) < 4
       \/ fault.type = SPLIT_CUT /\ SameRange(ruleset, fault.dim)

(* append_rules' assertion in the scratch rule sets of a split, and the bounds of ranges: the
   arrays sized by the root's rules are large enough for every node.            *)
ScratchSuffices == fault # Outgrown

(* No assertion fails and no array is overrun in any cut. *)
NoFaults == phase # "fault"

(* How much of a rule set is left to cut: the bits that tell its ranges apart
   (beyond the alignment all of them share) and the width of its spans.         *)
Granularity(ruleset, d) ==
  Max({g \in 0 .. dim_bits[d] : \A i \in DOMAIN ruleset :
         ruleset[i].range[d][1] % 2^g = 0 /\ (ruleset[i].range[d][2] + 1) % 2^g = 0})

Rank(ruleset) ==
  <<SumOver(Dims, LAMBDA d : dim_bits[d] - Granularity(ruleset, d)),
    SumOver(Dims, LAMBDA d : Span(ruleset, d))>>

(* Every cut makes progress on every child that will be cut again: bitmap cuts use
   up bits and the other two, which keep the alignment, narrow a span.  So the
   recursion of cut_node is bounded, whatever cut the expectations and the memory
   constraint pick.  Rules are not counted: a rule can come to a child several times,
   and in wide fields (lists_tall of MCCutTree) a child can hold more than its parent.  *)
RecursionShrinks ==
  \A id \in DOMAIN tree : \A k \in DOMAIN tree[id].kids :
    LET child == tree[tree[id].kids[k]].seen
        a     == Rank(child)
        b     == Rank(tree[id].seen)
    IN Len(child) > BUCKETSIZE => a[1] < b[1] \/ (a[1] = b[1] /\ a[2] < b[2])

(* No cut hands a child that will be cut again the rules it was given itself, which would
   be cut the same way for ever.                                                *)
CutsDivide ==
  \A id \in DOMAIN tree : \A k \in DOMAIN tree[id].kids :
    LET child == tree[tree[id].kids[k]].seen
    IN Len(child) > BUCKETSIZE => child # tree[id].seen

Abstracted ==
  [build |-> "preparing", ready |-> "ready", search |-> "asked", found |-> "answered", fault |-> "aborted"]

(* Building the tree and searching it is a way to be a classifier: however many steps either
   takes, the rule list is kept, a packet is answered once, by the first rule that
   matches it, and no build or search goes on for ever.                         *)
Classes == INSTANCE Classifier
  WITH Packets <- Flows, list <- rules, st <- Abstracted[phase], pkt <- flow, ans <- result
IsClassifier == Classes!Spec
=============================================================================
