# TLA+ models of choose-cut

choose-cut classifies packets: a packet is a key per header field, a rule a range
per field, and the answer is the priority of the first rule of a list that holds
the packet. The program builds a decision tree over the rules and searches it;
`main.c` compares `search` on the tree with `lsearch`, linear search on the list.
The models ask whether the two always agree, whether the assertions in the code
hold, whether what happens before and after (options, loading, statistics,
compaction) does what it says, and whether everything ends.

The program is sequential. What makes it hard to test is arithmetic at the ends of
ranges, passes that count first and fill arrays of that size later, rules that are
duplicated on their way down, one scratch structure (`struct cut_aux`) that all
nodes and all three cuts share and nobody clears, and state kept between calls of
small functions (a file's end flag, an option parser's offset).

## Parts of the program

| Part | Source | Model |
|---|---|---|
| prefix iterator: a range as aligned blocks | `rule.c`, `rule.h` | `Prefixes`, `PrefixIter` |
| rules, rule sets, linear search, redundancy | `utils.c`, `cut-inl.c`, `cut.c` | `Rules` |
| sorted, weighted ranges | `rule.c` | `Ranges1d` |
| bitmap cut (6 bits of a field at a time) | `cut-bitmap.c`, `cut-bitmap.h`, `mb_node.*` | `EvenCut`, `EvenPasses`, `TreeFunction` |
| split cut (2 to 4 children at chosen points) | `cut-split.c`, `cut-split.h` | `SplitCut`, `SplitSweep` |
| equal-size cut (runs of equal segments) | `cut-hi.c`, `cut-hi.h` | `HiCut`, `HiSweep` |
| heap of open ranges in the two sweeps | `ccan/heap` | `Heap`, `PriorityQueue` |
| the three cuts' loops on one node | `cut.c` | `NodeCuts` |
| choice of a cut, recursion, search | `cut.c`, `cut-inl.c` | `CutTree`, `Classifier` |
| traversal, statistics, compaction, sampling | `cut.c`, the cuts, `main.c`, `ccan/darray` | `Program` |
| options | `main.c`, `ccan/opt` | `OptParse`, `OptReading`, `Startup` |
| rule file loader | `utils.c` | `Loader`, `IPRange`, `Startup` |

`main` parses its options, loads the rules (`Startup`), cuts, counts, compacts and
samples (`Program`).

`cut_node` asks each cut for its match expectation in each dimension, takes the cut
and dimension of least expectation or, if a cut needs fewer nodes and fits all
children into buckets, that one, and recurses on the children after removing
redundant rules.

## Modules

**Prefixes** has the conversions between ranges and prefixes and the reference
definition of an expansion, `MaximalPrefixes`: the aligned blocks inside a range
whose enclosing block is not.

**PrefixIter** is the iterator as a state machine: `start`, `end`, `left` are its
fields, `range_to_prefix_iter` and `get_next_prefix_iter` its two actions, the
second one turn of the callers' do/while loop. Words are `WORD` bits wide and wrap.
`emitted` is history. `__builtin_ctz(0)` is undefined in C; the build uses tzcnt,
which gives the word size.

**Rules** defines rules, `lsearch`, `remove_redund`, the match expectation. Rule
sets are sequences. Expectations are doubles in the code and exact fractions here:
where two expectations are equal the model takes the earlier one, as the code does
when the doubles are equal. Rounding that makes equal expectations differ, and so
changes which of two equally good cuts is taken, is not modelled.

**EvenCut, SplitCut, HiCut** state what the functions of a cut compute for one node
(histogram or cut points, children, search structure, one search step), under the
functions' names. `EvenFits`, `SplitFits` and `HiFits` collect the assertions and
array bounds on the way. `HiCut` keeps two oddities of the code: a division's ratio
uses the rule count of the division before it, and a span below 4 leaves `hi_aux`
untouched.

**Ranges1d, SplitSweep, HiSweep** are the two sweeps step by step: sorting and
`unique_ranges`, the heap of open ranges (a set of indices here, whose minimum is
what `heap_peek` returns; ties do not matter because ranges with the same end are
popped together), and for `HiSweep` the loop over 4, 8, ... segments. They are the
detailed versions of `BestCut` and `hi_match_expect`.

**TreeFunction, EvenPasses** are the bitmap cut step by step. `TreeFunction` has the
constructor `fast_lookup_init`, one turn of its inner loop per step, and the lookup
that uses its tables. `EvenPasses` goes on with one node: the loops of
`get_rule_hist` (`Count`, then `Sum`, which adds ancestors' counts in place) and those
of `push_rules_even` (`PushOwn`) and `push_inl_rules_even` (`PushRow`, a row of the
index tree per step). They are the detailed versions of `EvenCut`.

**NodeCuts** puts the last five together as `cut_node` does for one node of one
field: the tables, filled before `main`; the first pass of the bitmap cut and the
sweeps of the other two (its first loop); then the second pass, as if the bitmap cut was
chosen. `hi_aux` starts with what an earlier node left.

**Heap** is ccan's array heap: `heap_push` and `heap_pop` up to their loops, then a
step per turn of `__up` (`Rise`, `Risen`) or `__down` (`Sink`, `Sunk`). `realloc` may
fail when the array grows (`PushFails`) and when it is given back (`ShrinkFails`,
after which `heap_pop` returns NULL although the root is gone). **PriorityQueue** is
what callers may rely on: a set of entries, a push that adds one or fails, a pop that
takes a least one, and a pop that returns an error having taken one.

**CutTree** composes the cuts. `tree` is the sequence of nodes, `todo` the stack of
pending `cut_node` calls (depth first, children in the order of the code), `aux` the
part of `cut_aux` that survives from node to node. `cut_node` is one action: all
expectations, the choice, the cut and, on the children, `remove_redund` when their
turn comes. When an assertion fails or an array is overrun the phase becomes
`fault`; `Outgrown` is the fault of a node too large for the scratch arrays. `search`, `Descend` and `Return` are a lookup, `key` the key as
`even_search` has shifted it. `seen` is history: the rule set a node was built from.
Uninitialized memory is a choice: `HiGarbage` and `SplitGarbage` are what `cut_aux`
may hold at the start, `Stray` the rule read from a zero-sized allocation. Squares of
rule counts are `INT_BITS` wide and wrap.

**Classifier** is the promise: a rule list, a packet that is asked for, and its answer,
which for a packet that a rule matches is the first such rule's. Preparing and
answering take any number of steps but end. `CutTree` implements it through the
mapping of phases `Abstracted`.

**Program** is the rest of `main` around `CutTree`. `stack` holds the calls of
`traverse` still to be made; each step of `get_tree_info_traverse` or
`compact_traverse` is one call, with the children pushed in the order in which the
three cuts' traversals go to them. `ct` is the array that `compact` fills: slots,
their `child_ptr`, size and allocation as `ccan/darray` computes them. `compact`
writes a `child_ptr` to the slot numbered by the copies made so far, one past the
copy, and `wild` records when that lies past the allocation. `sample_testing` and
`sample_perf` look up one arbitrary sampled packet each; further packets do not
depend on the earlier ones.

**OptParse** is `opt_parse`, one call of `parse_one` per step: it finds the first
argument with a dash anew, resumes a cluster of short options by `offset`, calls the
callback and removes what is used up. The option table is a parameter, wider than
the one option that `main` registers, so that clusters, flags, long options and
refusing callbacks occur. **OptReading** is the reference reading that `ParsedAsRead`
compares it with: once, from left to right. **Loader** is `LoadFilters` and `ReadFilter` over a file of
tokens: `@`, a field in the form its place wants, anything else. End of file becomes
known only when a read meets it, and `validfilter`, uninitialized at each call, is a
choice. From some point on, or from the start, the file may be unreadable
(`ReadsFail`): every read then fails, and the end is never met. **IPRange** is the
octet arithmetic of `ReadIPRange` in unsigned words; `InBounds` says for which masks it
stays inside its array. **Startup** composes the three in the order of `main`; the
command line is forgotten once the file is open.

Modules `MC...` hold the instances. Operators commented "A slip"
(`even_search_lshift_Kept`, `heap_push_Last`, ...) are deliberately wrong variants of a
definition. No specification uses them; each is put in the place of the right one to
see that a property notices.

## Runs

| Run | Question | Instance |
|---|---|---|
| `prefix_iter` | Is every range expanded exactly, once, canonically, and does the loop end? | all ranges of 1 to 5 bits in 5-bit words |
| `node_cuts` | Do the sweeps and passes over one node compute what the tree model takes them to, with true counts, inside their arrays, and end? | one 6-bit field, stride 4 (4 to 16 segments); all multisets of 1 to 4 ranges over 4 points and of 1 to 3 over 7 points, and pairs and triples of ranges that start and end in the middle of blocks; three old contents of `hi_aux` |
| `heap` | Is the array heap a priority queue? | six entries, some with equal keys; room for 5, hysteresis 2 |
| `tree_1d` | Does `main`, from cutting to sampling, answer as the list, keep its assertions, count its nodes, copy them, and end? | one 4-bit field, stride 3, 3150 lists of 3 to 8 rules |
| `tree_2d` | Is the tree a classifier when dimensions compete? | two 3-bit fields, stride 2, 720 lists of 3 rules |
| `startup` | Do options and rule files mean what they say? | command lines of up to 3 of 16 arguments; all files of up to 8 tokens and those of 9 that start with a filter; 2 fields, room for 2 filters; octets of 3 bits |
| `empty_gap` | finding: packets in gaps (`TreeAgreesEverywhere`) | one 4-bit field, stride 3, 162 lists of 6 rules |
| `stale_hi_aux` | finding: cuts from another node's histogram (`NoFaults`) | one 5-bit field, 81 lists of 8 to 12 rules |
| `identical_rules` | finding: lists of one repeated rule (`TreeAgrees`) | one 4-bit field, 14 lists |
| `wide_square` | finding: squares that leave int (`CutsDivide`) | two 3-bit fields, 6 rules, int of 6 bits |
| `outgrown_scratch` | finding: a child larger than the root (`ScratchSuffices`) | fields of 8 and 5 bits, stride 5, one list of 15 rules |
| `supported_rules` | finding: one rule more than `filtArr` holds (`SupportedFit`) | as `startup`: 3 rules, room for 2 |

The lists are chosen so that all cuts, internal and external children, two levels of
bitmap cuts, second-level splits, children in gaps and roots whose segments all lie in
the high half of the map occur. `BUCKETSIZE` is 1, so two rules are already cut;
widths of 3 to 8 bits and strides of 2 to 5 keep the relations of the code's 6 of 8, 16 and 32
(a field is wider than the stride and not always a multiple of it, HICHILD is
2^stride). `INT_BITS` is 16 except in `wide_square`, where 6 bits stand to at most 7
rules as 32 bits stand to 65535. `RAND_MAX` covers every rule, so that in `tree_1d`
every packet that some rule matches is sampled; `tree_2d` looks up all packets. Nine
tokens are three filters, one more than there is room for. These bounds are small;
they show the interplay, and the proofs below do not depend on any.

What the properties say:

- `SamplesAgree`: a packet that some rule matches gets the same priority from the tree,
  from the root of the compacted copy and from the list. `AnswerKept` is the reason,
  node by node: the rule set a node was built from gives the list's answer for the
  shifted key. A rule that a search reaches in another child than it was pushed to
  breaks it. `IsClassifier` is the refinement of `Classifier`, liveness included.
- `OnlyStaleAuxFaults`: counts made in a first pass are the sizes the second pass
  fills. The exception it names, a cut made from `aux` that was not written for this
  node, is what two findings are about. It leaves out the scratch arrays that are
  sized by the root: at the widths of `tree_1d` and `tree_2d` no node outgrows them, at
  those of `outgrown_scratch` one does, so `ScratchSuffices` does not hold.
- `RecursionShrinks`: a rank of a child that is cut again is below its parent's.
  Bitmap cuts use up bits that tell ranges apart; the other two keep the alignment
  and narrow a span. The rank does not count rules, because a child can hold more
  than its parent; at the widths of these runs none does, so they do not show the
  property for such children. `MainEnds` is liveness of the whole program after loading.
- `InfoExact`: the printed statistics are those of the tree without what lies under
  the last child of an equal-size cut, which `hi_traverse` never enters because the
  bitmap has one bit less than there are children (`cut-hi.c:203`, `cut-hi.c:299`); no other
  node is missed or counted twice.
- `ArraySound`, `OnlyEmptyRootFaults`: the misplaced `child_ptr` of `compact` does not
  disturb the copies, and leaves the array only when the root is an equal-size cut
  without a bit in the low half of its map, whose children `hi_count_childs` does not
  see (a 64-bit map is counted by a 32-bit popcount, `cut-hi.c:233`).
- `RoomExact`, `ChildrenExact`, `AnswersKept`: the assertion of `append_rules` holds
  throughout the second pass, every child ends up full, with the rules `EvenCut`
  states, and answers as its parent. `LookupIsLongest`: the filled tables find the
  longest internal prefix.
- `SplitAlwaysGains`: in a dimension where ranges differ a split always has an
  expectation below the number of rules, which is why `double_equals` identifies
  the nodes that cannot be split and why recursion never stalls on a useless cut.
- `SweepIsBestCut`, `CountsExact`, `SweepIsHist`, `SegmentsFit`, `SegmentsAlike`: the
  one-pass sweeps compute the definitions the tree model uses. `SweepsProgress`: each of
  their turns makes progress that is bounded. The run checks for deadlock, so they end.
- `Contiguous`, `CoversRange`, `Canonical`, `CountBounded`, `NoOverlap`, `LoopEnds`: the
  iterator. The bound of 2w - 2 blocks is what `test.c` counts for 32 bits.
- `PeekIsLeast`, `IsQueue`, `CallsReturn`: the heap between calls, as a queue, and its loops.
- `ParsedAsRead`, `OffsetInCluster`: finding the argument anew at every call in an argv
  that shrinks is the same as one reading from left to right.
- `LoadedInOrder`, `ExitJustified`: a loaded file was well formed and its filters are
  there in order; giving up has its reasons. An empty file may make the loader give up,
  when the uninitialized `validfilter` passes for an `@`, and so may a file that can no
  longer be read.
- `RangeIsBlock`: an address of four octets in range with a mask of 0 to 32 is its
  aligned block. `ReadIPRange` checks neither number. The property says that for all
  other masks it writes outside `ptrange`; octets that are too large carry into
  the next and are left out.
- `StartEnds`: options and loading end as long as the file can be read. Once reads fail
  (a directory as `-f` is such a file from the start) the loop of `ReadFilter`
  (`utils.c:176`) does not end, because it waits for the end of the file.

Fairness: all code is straight-line code of one thread, so a next step that exists
is taken (weak fairness of the next-state relation). `CutTree` and `Program` write it
out, for the phases in which the program runs by itself, because TLC would have to
evaluate whole cuts for `ENABLED`; the tree runs check for deadlock, so those phases
always have a next step. `Heap` is fair only to the loops of a call that was made;
calls need not be made. `Loader` and `Startup` are fair to the steps of the program;
nothing says that reads must fail. `NodeCuts` has no fairness and no liveness:
`SweepsProgress` bounds its turns. The iterator and the start of `main` stop when they
are done, and their runs allow it.

## Findings

- `remove_redund` leaves an empty rule set with `num = 1` (`cut-inl.c:19`). Equal-size
  cuts make empty children for gaps, so a packet there is compared with memory past
  a zero-sized allocation. Packets that a rule matches are not affected.
- A dimension whose span is below 4 keeps the histogram of an earlier node
  (`cut-hi.c:138`), and the memory constraint of `cut_node` may choose it. The run
  starts with an `hi_aux` that no choice can take, so what is chosen was left by an
  earlier node of the same tree. The cut then puts rules outside its children.
- A list whose rules are all the same can be split at uninitialized bounds
  (`cut-split.c:87`). With zeroes there all rules are lost.
- `get_match_expect` squares rule counts in int (`cut-inl.c:38`). From 46341 rules in
  one child on, of the 65535 that can be loaded, the square is negative and the cut
  looks best. In a dimension that all rules span, a bitmap cut then makes one child
  with the same rules, which is cut the same way, without end.
- The scratch rule sets of a split are sized by the root (`cut-split.c:19`), but a bitmap
  cut puts a rule into a child once for each of its prefixes there. In the run a child
  has 16 rules where the root has 15, and the assertion of `append_rules`
  (`cut-inl.h:103`) fails when it is split.
- `utils-inl.h:7` says of `MAXFILTERS`, 65535, "support 64K rules". `ReadFilter` does not
  look at it (`utils.c:209`): the 65536th rule is written past `filtArr`.

## Proofs

`PrefixIterProofs` proves, for every word width:

- `ExpansionExact`: `TypeOK`, `Contiguous` and `CoversRange` always hold;
- `BlocksDisjoint`: the action property `NoOverlap`.

`CoversRange` speaks of the end only. The inductive invariant `IInv` adds
`Contiguous` (what has been used is exactly the part of the range below the block,
and `left` counts what is above it), that the range is not empty, and that nothing
has been used before the first call. The central lemma, `BlockInside`, shows that
the next block ends within what is left, so neither the 32-bit sum nor the 64-bit
difference wraps; `CoveredGrows` that one turn of the loop adds one block at the end.
The proofs use `WordAssumption` (a word has at least one bit) and `PowerAssumption`
(powers of two are positive and monotonic).

`HeapProofs` proves, for every set of entries, keys, room and hysteresis:

- `HeapSafe`: `TypeOK` (no slot beyond the allocation is used), `Distinct` and
  `PeekIsLeast` always hold;
- `HeapImplements`: the heap implements `PriorityQueue` (`IsQueue`); the abstract
  specification has no liveness, so this is all of it.

`PeekIsLeast` follows from every slot being above its children, by taking a slot with
the least number among those whose key is below the root's: its parent would be
another. While `__up` or `__down` runs one slot is out of order, so `IInv` is `TypeOK`,
`Distinct` and `HeapOrder`: all slots but the current one (for `__up`), or but its
children (for `__down`), are in order with their parents, and the current slot's
parent is in order with the current slot's children (`Bridged`), without which a swap
would break the order one level further. `Distinct` makes a swap or a dropped last
slot the same step of the set of entries.

`LoaderProofs` proves `LoaderSafe`, for every set of files, number of fields and array
size: `LoadedInOrder` and `ExitJustified`, whenever reads begin to fail. `IInv` counts: between
filters there are as many stored as `@`s have been read and each was followed by its
fields (`Between`); within a filter there is one `@` more, and the tokens since are
fields (`Within`); and unless the end is known there is something left to read or the
file is empty (`More`), which keeps a stale `@` in `validfilter` from being taken for
another filter at the end of the file. When reads fail an `@` may be stale, but then no
field of the filter can be read. The proofs use `LoaderAssumption`: files are
sequences of tokens, there is at least one field and one slot.

`OptParseProofs` proves, for every option table and every set of command lines:

- `ClusterResumed`: `OffsetInCluster`, the assertion in `parse_one` that a long option
  finds `offset` at 0;
- `OptProgress`: the action property `UsesUp`, that a call of `parse_one` after which
  `opt_parse` goes on has removed an argument or gone one letter on. With
  `OffsetInCluster`, which bounds `offset` by the cluster's length, this is the measure
  by which the loop ends; that it ends (`StartEnds`) is model-checked.

`OptInv` adds that what is left is a sequence of the command line's arguments. The
argument looked at exists because a set of numbers has a least one (`LeastNumbers`,
also used for the heap), and when an option's argument is the next word there is a
next word, since otherwise the option counts as misused (`ConsumedFacts`). The proofs
use `OptAssumption`: command lines are sequences of arguments with at most two dashes
in front of a sequence of letters.

Only model-checked: `Canonical` and `CountBounded` (they need induction over
exponents); all liveness, which is out of the prover's reach; `ParsedAsRead`, whose
reference reading is recursive; the sweeps, the bitmap passes, the tree with its
refinement of `Classifier`, and the rest of `main`.

## Plan

Lemmas that trimming and pushing preserve `lsearch`, one per cut, would give
`AnswerKept` for every configuration. They need facts about filtered and sorted
sequences by induction over their length.

## Not modelled

- The clock and the printed speed of `sample_perf`, printed texts and averages.
- Failing allocation outside the heap: `rule_set_init` reports it (`rule.c:8`),
  `split_aux_init` and `push_rules_even` panic (`cut-split.c:20`, `cut-bitmap.c:138`), the
  other callers of the wrappers in `mem.c` do not look. The sweeps do not look at `heap_push`'s result either, and their
  models take it to succeed.
- Rules whose range is reversed: `ReadPort` does not check for them, and nothing says
  what they mean.
- Masks above 32 and octets above 255, beyond what `RangeIsBlock` says of them; reads
  that fail and later succeed again.
- The characters of a rule file: a field is one token, in the form its place wants or
  not. `ReadPri` belongs to a configuration with three fields that is not built.
- `idx_to_prefix` and `range_overlap`, which nothing calls; the variant of
  `tree_function` without tables, which the build does not use.
- Of ccan/opt: registration of tables and its checks, early options, value helpers
  and usage texts; `main` registers one constant option and calls `opt_parse`. Of
  ccan/heap: `heap_ify` and `heap_free`. Of ccan/darray: the macros the program does
  not use.
- The other libraries under `ccan/`, about a hundred, which make up more than nine
  tenths of the repository's lines. They are a vendored collection, built into one
  archive; the program calls none of them. A model of them would say nothing about
  this program, so the models cover a small share of the lines in the repository (some
  3%) and about 70% of the lines of the program itself, declarations included.
