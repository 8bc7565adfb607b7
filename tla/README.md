# A verification project for PartitionSort

PartitionSort is an updatable packet classifier for software-defined networks
(ICNP 2016). A packet has one point per header field; a rule is a box, one
closed interval per field, with a priority. Classifying a packet means finding
the highest priority among the rules that match it, while rules come and go.
This directory holds TLA+ modules for the classifier, its data structures, the
classifier it is compared with and the simulation that drives them, the TLC
runs that check small instances, and proofs, checked by TLAPS, for instances of
any size.

The program is sequential: one thread, no callbacks, nothing persisted. What is
hard about it is not concurrency but long histories. Cached maxima, parallel
vectors, raw pointers and lazily sorted vectors must stay right after *every*
sequence of updates, and a slip shows only much later, as a wrong answer, a
freed tree that is still used, or a loop that never ends.

## The system

| Component | State | Operations | Works with | Correct means |
|---|---|---|---|---|
| Rules, packets (`ElementaryClasses.h`) | boxes, priorities | `MatchesPacket` | everything | – |
| Classifier interface, brute force (`Simulation.h`, `BruteForce.h`) | a vector of rules | insert, delete by position, classify | driven by the simulator | the reference answer; the vector's positions are part of the contract |
| PartitionSort (`PartitionSort/PartitionSort.*`) | vector of tree pointers sorted by maximal priority; vector of (rule, tree) | first-fit insertion, deletion by position, classification with early exit | owns OptimizedMITrees | behaves as brute force; no pointer dangles, no tree leaks |
| OptimizedMITree (`OptimizedMITree.h`) | search tree, multiset of priorities, cached maximum, counter, field order | `TryInsertion`, `Deletion`, `ClassifyAPacket`, reconstruction hook | red-black trees, field order of the partitioner | caches exact, rules of one tree pairwise separable |
| Nested tree (`red_black_tree.*`) | one level per field; a level with one rule is compressed to a chain | insert with compression and unzipping, delete with re-compression, admission test, query, serialize | recursion over the levels | the shape depends on the stored rules only; one-path descents decide for all rules |
| Red-black tree of a level (`red_black_tree.*`) | nodes, sentinels `nil` and `root` | descents, insertion, deletion, rotations, two repair loops | the nested tree | search order, balance, a set of disjoint intervals, termination |
| Priority tuple space search (`OVS/TupleSpaceSearch.*`) | hash table per pair of prefix lengths, vector of tuples sorted by maximum | insert, delete, classify with early exit | `OVS/cmap` | behaves as brute force |
| Cuckoo hash map (`OVS/cmap.*`, `OVS/hash.h`) | buckets of five slots, a chain per hash, a random basis, a count | find, insert with displacement along a shortest path, remove, rehash, grow, shrink | tuple space search | a map from hashes to sets of nodes; every insertion returns |
| Update simulation (`Simulation.*`) | rules in use, pool, request sequence with positions | `SetupComputation`, `PerformPacketClassification` | any classifier | simulator and classifier agree on the rules and their positions in all trials |
| Offline partitioners (`SortableRulesetPartitioner.*`) | rules not placed yet, buckets made so far | greedy selection, all field orders, rule by rule with reconstruction; count of overlapping rules | interval algorithms; online only the field order of one rule and the verdict of one selection are used | buckets are sortable and partition the rules; every loop ends |
| Interval algorithms (`Utilities/IntervalUtilities.*`) | local to a call | weighted interval scheduling, unique intervals, largest overlap, redundancy removal | called by the partitioners | the result of each is what its definition says |
| HyperSplit (`Trees/HyperSplit.*`) | binary decision tree, vector of rules | construct, insert, delete with collapse, classify | `main.cpp` compares it with the others | answers as brute force, as far as its deletion allows |
| HyperCuts (`Trees/HyperCuts.*`, `Trees/TreeUtils.*`) | decision tree with equal cuts, list of nodes to be cut | construct, classify | `main.cpp` compares it with the others | answers as brute force; the list runs empty |
| Program entry (`main.cpp`) | – | validation mode: build, compare all answers packet by packet | all classifiers | reports accord exactly when they agree |
| Reading files (`IO/InputReader.*`) | – | parse | prefix lengths matter to tuple space search | only that part is modelled |
| Output, options, TCAM estimate, packet generator, leftovers | – | I/O and glue | – | not modelled |

`PROJECT.json` lists the components with their status and, under "hazards",
each place where this code could go wrong in a way a test would hardly reach,
with the property that would notice.

## Modules

```
Rules ── PacketClassifier            what a classifier promises (brute force)
  │            ▲  ▲  ▲ implemented by
  │            │  │  └── TupleSpaceSearch ── TupleSpaceSearchProofs
  │            │  └───── Simulator (uses it as it may be used) ── SimulatorProofs
  ├── OptimizedMITree ── PartitionSort ── PartitionSortProofs
  │         └── MITree ── MITreeProofs (nested levels, path compression)
  ├── RulesProofs                     facts the proofs of all classifiers use
  ├── HyperSplit ┐
  ├── HyperCuts  ┴ Validation         (both built and compared)
  │
  └── IntervalUtilities               operators, and what the sweep promises
            ├── IntervalScheduling ───┐
            ├── MaxIntersection ──────┤
            │     └ both sweeps in    │
            │       PartitionerUtilities
            │                         │
            └── RulesetPartitioner ── PartitionerProofs (all three)
                  └ also extends OptimizedMITree

IntervalSet                          what one level promises
  └ implemented by RedBlackTree       (one level, pointer by pointer) ── RedBlackTreeProofs
HashMap                              what a hash table promises a tuple
  └ implemented by Cmap               (buckets, moves, rehashing) ── CmapProofs
```

The classifier is modelled in three layers, so that each stays small enough to
check and the top one can be proved about:

1. **PartitionSort** and **OptimizedMITree**: vectors, pointers and caches are
   those of the code (`mitrees`, `rules`, `maxPriority`, `priorityContainer`,
   `numRules`, `isMature`); what hangs inside a tree is the set `stored` of its
   rules. `CanInsertRule` is "separable from every stored rule in the tree's
   field order", a query "the best of the stored rules". `heap` maps addresses
   to trees, so that freeing, dangling and leaking have a meaning. One action
   per call for updates; a classification is one step per tree queried.
   The insertion sort of `mitrees` is its result, any ordering by decreasing
   maximum, which covers the one the code computes.
2. **MITree**: the nested tree. It keeps next to the real structure the
   OptimizedMITree of layer 1 and compares the two after every call, which
   justifies layer 1: admission test, query and serialization of the structure
   are those of the set of rules. The code recurs over the levels; here a tree is
   named by its path, the keys that lead to it, and `trees` maps the paths that
   exist to their trees. A call passes the trees whose paths are prefixes of the
   rule's keys, so a recursive call is a longer prefix: `Level` is where a descent
   ends, `Recount` what it does to the counters on its way, and `Ending`, `Unzip`,
   `Compress` and `WithoutNode` what it does at its end. Nothing is recursive, and
   the module can be proved about.
3. **RedBlackTree**: the tree of one level with its pointers, one step per
   iteration of every loop, including the places inside the repair loops. It
   implements **IntervalSet**, which is what layer 2 takes a level to be. A
   deletion finds its node (`FindNode`), walks to the node to take out
   (`TreeSuccessor`), takes it out (`Splice`), repairs, and puts what it took out
   where the deleted node was (`Relink`); during the repair the tree is the one
   without the node taken out, and the mapping to IntervalSet puts it back. Its
   fairness gives the liveness of the loops.

`GetFieldOrderByRule` is modelled with the code's widths (a field of the second
header of a longer rule is ranked by the first header's interval, as the code
does, `imod5`). `ReconstructIfNumRulesLessThanOrEqualTo` is modelled by what it
does: the verdict of `FastGreedyFieldSelectionForAdaptive` is never positive,
because `FastCreateUniqueInterval` never fills the rule indices of its
intervals, so no tree is ever rebuilt and only `isMature` changes.

**TupleSpaceSearch** models `PriorityTupleSpaceSearch`: tuples on a heap, map
and vector pointing to them, sorting only when an update reports a change,
deletion by sorting and popping the back. The hash is a constant, any function;
the cmap is the set of its nodes with one chain per hash value, which is what
**HashMap** promises. Prefix lengths are those that the file readers compute.

**Cmap** models the table behind that promise: both candidate buckets, the
three ways to insert (into a chain, into a free slot, along a shortest path of
moves), rehashing with a new basis when there is no room, growing and shrinking
at the load limits. It implements **HashMap** through `cmap_find`, which, unlike
`cmap_remove`, looks at the first slot with the hash even when that is empty.
The hash function is a table (`Rehashed`), the random basis a choice. One thread
uses the map, so the version counters are not modelled. `MAX_QUEUE`, the limit
on the number of paths looked at, is not either: with buckets of five it cuts
off only paths of the greatest depth, after which the code rehashes, as it does
when there is no path.

**HyperSplit** and **HyperCuts** model the construction of the decision trees,
in steps of one depth and of one halving, and their classification. A node is
named by its path. HyperSplit also has its updates: an insertion that splits
the leaves it overfills, and a deletion that, because of a shadowed parameter,
empties every list that holds the rule; `kept` is the ghost set of the rules
that lost nothing that way. HyperCuts goes on halving a box that is a single
point, so that the parts are inverted boxes; they are computed with the width
of `Point`, sorted as `std::list::sort` sorts with a comparison that is not
strict, and found again by division, as in the code. **Validation** composes
the two as the validation mode of `main.cpp` does: both are built from the same
rules, every packet is given to both. The updates after the end of the test are
legal calls of the interface that the program does not make.

**Simulator** models `SetupComputation` (the exchange of requests at 20 and 80
per cent, then the positions) and `PerformPacketClassification` (the trials,
which replay the positions on working copies). The classifier it drives is
PacketClassifier itself.

**IntervalUtilities** states the algorithms on intervals as operators, and for
weighted interval scheduling what it promises: a disjoint set of the largest
weight. **IntervalScheduling** is the code of `MWISIntervals`, one step per
endpoint of the sweep and per interval of the walk back; a run compares its
result with the promise. The perturbation of equal endpoints by multiples of
0.0001 is modelled by the order it makes: left ends before right ends, those of
a side in any order. That holds while fewer than 5000 endpoints of a side share
a value; beyond it, perturbed endpoints of neighbouring values cross.

**RulesetPartitioner** models the three offline partitioners and the admission
test kept for debugging (`IsBucketReallySortable`), over the promise of the
scheduling, so that any heaviest set may be returned. A greedy selection is one
step per field. Returning is a step of its own, so that a state in which
the code would call `exit(1)` is a deadlock. It also models `FastGreedyFieldSelectionForAdaptive`, the call
the online tree makes, with all sets of disjoint intervals allowed, for the one
fact that matters: it never approves. **MaxIntersection** models
`ComputeMaxIntersection` for two fields: the sweep over the last field with the
vector of open rules, from which rules leave by swapping, and the two index
arrays. With two fields the recursive call is its base case.
**PartitionerUtilities** puts the two sweeps side by side, so that one run
checks both.

The MC modules only give constants their values. Operators marked "(mutation)"
are slips that a change of the code could make; they are not used by any
specification and exist to show that a property would notice them.

## Runs

| Run | Question | Instance | Distinct states |
|---|---|---|---|
| `partition_sort` | is every reachable table consistent and does the classifier behave as brute force? | 5 rules in a 4×4 plane, 3 packets, 5 addresses (symmetric) | 39 475 |
| `mitree` | do compression, unzipping and one-path descents lose nothing? | 8 rules, 3 fields | 56 089 |
| `red_black_tree` | is one level balanced, ordered, and a set of disjoint intervals, repair loops included, and do all calls return? | 8 intervals, 3 points | 501 662 |
| `tuple_space_search` | is it brute force, early exit and collisions included? | 5 prefix rules, 3 tuples, 4 packets | 30 804 |
| `tuple_space_search_ranges` | and with an address interval that is no prefix? (violation) | 3 rules | – |
| `cmap` | is the table a map whatever was moved, removed and rehashed, and does every insertion return? | 6 nodes, 5 hashes, 2 bases, tables of up to 4 buckets | 16 466 |
| `simulator` | do simulator and classifier agree over all trials? | 5 rules, 3+3 updates and a classification, 2 trials (symmetric) | 1 316 434 |
| `validation` | are the decision trees right where they can be, and is HyperCuts ever done? | every subset of 6 rules, 4 packets, 2 updates | 8 880 |
| `validation_accord` | do they agree about every packet? (violation) | the same | – |
| `partitioner_utilities` | does the scheduling find a heaviest disjoint set, and the other sweep the busiest packet? | every subset of 9 rules over 4 points, every order of equal keys; every vector of at most 6 rules | 98 251 |
| `ruleset_partitioner` | do the three partitioners, with and without reconstruction, make sortable buckets that share no rule, do the two admission tests agree, and does every loop end? | every subset of 7 rules, 2 fields of 4 points | 37 782 |
| `partitioner_loss` | does a reconstruction keep all rules? (violation) | 7 rules | – |

Why the bounds are enough for the interesting cases to happen:

- *partition_sort*: `any` overlaps everything and forces a second tree; the
  others are separable in one field and not in the other, so the field order of
  a tree decides what fits, and orders of insertion give up to four trees.
  Emptying a tree, moving it in the sort, and skipping it all occur. The five
  addresses allow every rule a tree of its own and a freed address to be used
  again. `MatureThreshold` is 2 instead of 10 so that the flag is set in the run.
- *mitree*: equal boxes with equal and unequal priorities, forks in the first,
  second and last field, and overlaps that must be refused; three levels are the
  least with a chain longer than one interval below a fork.
- *red_black_tree*: seven disjoint intervals reach every case of both repair
  loops on both sides (a tree of seven nodes has black height 3), the eighth
  overlaps two of them. The same instance is used for the liveness property.
- *tuple_space_search*: two rules share a chain, a third has their hash by
  collision, and a deletion moves a tuple behind another.
- *simulator*: with five rules both thresholds are one or two requests away; a
  second trial starts from pools in another order than the first, and a third
  would start from the same kind of state.
- *cmap*: two slots to a bucket instead of five fill a table of four buckets
  with six nodes. "a" and "A" share a chain, the hash of "e" is the 0 of a slot
  never used. Under the good basis "d" has a single candidate bucket, so that one
  move or two are needed; under the bad one three chains compete for two slots
  whatever the size, so that insertions and rehashes fail and are repeated.
  Masks stay far below the 2^16 at which the halves of a hash would matter.
- *validation*: leaves of one rule (8 in the code) make trees of several levels
  from six rules; `spfac` is the code's 4. One field has four points, so that
  "web" and "mail" alone are cut into eight parts; with "any" there are so many
  copies that the halving stops in time. `PointBits` is 4, one bit more than
  the fields need, so that the upper bounds of inverted boxes wrap around.
  `threshold` is 2 disagreements; `MaxUpdates` is 2, enough for a deletion that empties
  a list with other rules and an insertion or second deletion in the collapsed tree.
- *partitioner_utilities*, scheduling: intervals touch, nest, share one end and occur twice and
  three times, so that weights differ and ties occur; all subsets are scheduled.
- *ruleset_partitioner*: four rules are sortable by the
  first field while the second offers a heavier set of three; identical rules
  and one that overlaps everything force further buckets.
- *partitioner_utilities*, counting: identical rules, rules that agree in one field and rules
  that only touch; six rules (`Counted`) allow removals from the middle of the vector,
  after which a moved rule is itself removed.

Every property has a mutant in `PROJECT.json`: a changed definition under which
the same run finds the property violated.

**Fairness.** One thread runs each call to its end, so a step of a call that
can be taken is taken: weak fairness of the steps inside calls of
`RedBlackTree`, of `Insert` in `Cmap`, and in `Validation` of the construction
of HyperCuts and of the tests. A rehash draws a random basis until all chains
find room; `Cmap` assumes strong fairness for each basis, that is, that
`random_uint32` does not avoid one for ever. Without a basis that works the loop
would not end, and nothing in the code bounds it. Nothing is assumed about
whether or when new calls arrive. `ValidationEnds` starts from the moment
HyperSplit is constructed, so its construction needs no fairness there.

The partitioners have a variant in place of fairness: `EveryStepIsProgress` says
that each step places a rule or lowers `StepsLeft`. With deadlock checked, and
returning the only step that changes nothing, every call ends in a return.
The other loops of the program run over vectors of fixed length, so that their
end is no question. The simulation, the sweeps and the validation may stop
(`CHECK_DEADLOCK FALSE` in their runs): they are done.

Type invariants: `PartitionSort!TypeOK` is proved (below). In the runs a
stronger property contains the type: the refinements determine the variables they
map, `ShapeForgetsHistory` determines the nested tree, `BucketsAreSortable` says
of a bucket that its order is one of all the fields.

## What is proved

`PartitionSortProofs` proves, for every finite set of rules, every number of
fields, all ranges and priorities and any set of addresses:

- `Invariance`: `IInv` is an invariant of `PartitionSort!Spec`;
- from it type correctness, `SortedByMaxPriority`, `TreesAreOwned`,
  `RulesAreIndexed`, `BookkeepingIsExact`, `TreesAreSortable`, `AnswerIsBest`,
  `QueriesAreNecessary` and the action property `RulesStayInTheirTree`.

The argument. None of these properties is inductive by itself. The crucial step
is `DeleteRule`: when the tree becomes empty, the code pops the back of the
vector and frees the tree, which is right only if they are the same. This needs
the sort (`SortedByMaxPriority`), the reset maximum of -1 being strictly the
smallest, which needs every other cached maximum to be that of a non-empty set
(`BookkeepingIsExact`, `TreesAreOwned`), and the pair to lead to a living tree
that holds the rule (`RulesAreIndexed`). `IInv` is their conjunction with
`LoopInv`: during a classification the first `at - 1` trees have been queried,
`result` is the best of the rules stored in them, and none of their maxima is
below it. At the return the remaining trees have maxima below the result, so
their rules cannot change the answer (`SkippedRulesAreBelow`).
`IInvSplit` separates the part about the tables from the part about the running
call: updates are proved on the former (`InsertIntoFirstFitKeepsTables`,
`InsertIntoNewTreeKeepsTables`, `DeleteRuleKeepsTables`, for arbitrary heaps and
vectors), the steps of a classification on the latter.
Its first lemmas are about one tree: what `Insertion` and `Deletion`
do to multiset, counter and maximum, and that sortability is kept.

`PartitionSortIsBruteForce` then proves the refinement `ImplementsBruteForce` itself:
an update of pairs and trees is the same update of the scanned vector, positions
included; the step that ends the loop is the whole classification (`AnswerIsBest`
after it says that the value is the reference's); everything else is a stutter.

`TupleSpaceSearchProofs` proves for tuple space search, for any rules, addresses
and hash function, that map and vector lead to the same live tuples
(`TuplesStayOwned`) and that each tuple holds exactly the installed rules of its
key, with their priorities and maximum (`TuplesStayExact`). The invariant is one
formula, `TablesInv`: it needs the vector sorted for the same reason as in
PartitionSort, and the key to determine both lengths (`KeyDeterminesLengths`: six
bits each, so at most 63). With the hypothesis `AddressesArePrefixes`, which the finding
below shows to be needed, the answers are right (`AnswersAreBest`) and the classifier
implements brute force (`TupleSpaceSearchIsBruteForce`). The extra step is
`LookupIsExact`: a matching packet, masked to the tuple's lengths, has the rule's own
lower bounds (`MaskedIsLow`), so that the rule is in the chain looked up,
whatever else collides there.

`SimulatorProofs` proves of the simulation, for any rules, requests and number of
trials, that its two pools divide the rule set (`PoolsNeverLoseARule`), that the
classifier's vector equals the simulator's (`ClassifierFollowsTheSimulator`), and
that each call is one the interface allows (`SimulatorUsesTheInterface`), so that the
two refinements above apply to the classifiers it drives. `EveryRequestIsCarriedOut`
needs two rules: with one, half the rules is none, which already counts as too few, and
every deletion is skipped. The argument is about numbers only: the size computed while
positions are drawn is half the rules plus insertions minus deletions so
far; an exchange finds a later opposite request, since without one the remaining
requests would all be of one kind and could not balance those before; and positions
depend only on sizes, which repeat in every trial.

`RulesProofs` has the facts these share: maxima of finite sets, vectors from which
an element leaves by swapping or to which it is appended, and how answers of
two sets of rules combine.

`PartitionerProofs` proves of the scheduling (`SchedulingSpec`), for any rules and
any order of equal keys,
that what the walk of `MWISIntervals` has chosen is disjoint at every moment
(`Independence`). The invariant needed is that the last interval taken lies
lowest of all chosen: the code compares a candidate with that one only. It also
proves that the set returned is a heaviest one and `max_MIS` its weight
(`ReturnsMWISAlways`), which is what the partitioners' model takes for granted. The
invariant is `HInv` (`WeightInvariance`). During the sweep `temp_max` is the best
weight among the intervals that have ended, `chi[i]` of one that has begun
is its weight and the best of those that end before it begins: when its left endpoint
is reached these are exactly the ones that have ended, because touching endpoints
come left ends first (`ReachFacts`). A right endpoint is one step of the recurrence
(`BestWith`). During the walk the chosen weight and `temp_max` add up to
`max_MIS`, `temp_max` is the best of what lies below the interval taken last, and no
interval that belongs was passed by. So at the end `temp_max` is 0: a positive best
weight is the best that ends with some interval below (`SomeEndsIt`), which the walk
would have taken. Weights are sums over sets in the order of CHOOSE;
`SumProperties` shows that the order does not matter.

It proves of the three partitioners (`Spec`), for any rules, number of fields and
threshold, that every bucket is sortable in its own field order
(`BucketsAreSortableAlways`), that no rule is placed twice and none lost but by a
reconstruction (`EveryRuleInOneBucketAlways`), that the two admission tests agree
(`AdmissionTestsAgreeAlways`) and that the loops end (`EveryStepIsProgressAlways`).
The invariant is `IInv` (`PartitionerInvariance`): the first two, that a
selection is of rules that wait or of the bucket it will replace
(`SelectionShape`), and `PartsAreSeparated`. Each partitioner has its own reason why its
buckets are sortable:

- the greedy selection: after each choice of a field, rules of one part agree in the
  fields chosen, and rules of different parts differ first in a field where they are
  disjoint (`SelectionSeparates`); once all fields are chosen, that is sortability
  (`SeparatedIsSortable`). A reconstruction is the same selection;
- the largest independent sets: whatever the recursion returns from a field on is separated
  by this field and those after it, since it takes one independent set for each interval
  of a set of disjoint ones (`LevelChooses`, `GivenFieldIsSortable`). It is not empty,
  because weights are positive (`HeaviestHasOne`), so that every round places a rule;
- the insertion rule by rule: the test `IsBucketReallySortable` accepts a bucket exactly if any
  two of its rules are separable (`AdmissionTestIsExact`). Its parts are the classes of
  rules that agree in the fields before (`PartsAreClasses`), and a part is
  accepted if the overlap of its intervals, read off the two sorted vectors of
  bounds, is 1: exactly when the intervals are disjoint (`SortableByField`). As long as
  each ends before the next starts, the loop opens and closes in turn
  (`AlternatingRound`); otherwise a second start is met before an end
  and the maximum is at least 2 from there on (`OvertakingRound`, `OverlapIsOne`).

Loops and recursions over fields are recursive functions, which are shown to exist by
an argument over naturals (`Iterated`, `UpTo`), not by an induction theorem.

It proves of `ComputeMaxIntersection` (`IntersectionSpec`), for any rules of two fields
in any order, that it returns the number of different rules at the busiest packet
(`CountsBusiestPacketAlways`). The hypotheses are `Dim = 2`, as the model has two fields,
and `CornersArrive`: every point where intervals begin is that of a packet. Any vector
of field values is one in the program; the model only bounds `Packet`, and the run evaluates both
hypotheses. Three things are needed:

- the base case counts what it should: the walk over sorted starts and ends returns the
  largest number of intervals that share a point (`OverlapIsBusiest`). After k
  rounds the overlap so far is that of some point, and no point whose last start has been
  passed has more (`Sweeps`, `SweepingRound`). Removing identical rules leaves one
  for each of the different ones (`DifferentIsSharing`, `BelowIsBusiest`);
- the vector holds the open rules (`SweepInv`, proved in `SweepInvariance`). At a point of the sweep,
  first the starts and then the ends that equal it are passed. A point that occurs
  again in `queries`, as any shared bound does, is found with both passed already, and
  nothing is counted there: leaving this case out makes the invariant false. Between two
  points of the sweep lies no bound (`NothingBetween`). Removal by swapping keeps the two index arrays
  right for the rules that are open (`Removes`, `RemovalFits`), though they keep
  entries of rules that left; so the program never takes its `exit(1)`;
- the points where starts are passed are enough (`StartsAreCounted`): moved to the last of the lower
  bounds of the rules it matches, a packet still matches them (`BusyIsCounted`). Counting
  again after removals does no harm, as the open rules are then some of those at the
  point (`CountIsAttained`), and a count is reached by a packet at a corner (`CountIsBusy`).

Of the selection that the online tree calls it proves, for all rules, that it never
approves (`OnlineSelectionIsInert`): the intervals of `FastCreateUniqueInterval` carry
no rules, so all parts after the last field are empty. This is why
`ReconstructIfNumRulesLessThanOrEqualTo` changes nothing but a flag in
OptimizedMITree.

`MITreeProofs` proves of the nested tree, for any rules, any number of fields and any
history of calls, all four invariants of the run: `ShapeIsForgotten`,
`VerdictsAreExact`, `TreeQueriesAreExact` and `NoRuleIsUnlisted`. They justify the
layer above, on which the proofs of PartitionSort rest. The inductive
invariant (`TreesInvariance`) has two parts that need each other. `Shape` says which
paths exist and what tree each has, as a function of the stored rules:
a path longer than the empty one exists when its parent is shared by several rules
(`SpelledMeans`), a tree of one rule has that rule's remaining keys as its chain,
and the lists that are read hold the priorities of the rules there. `SortableTree` says
that the rules are pairwise separable; without it a descent that follows one
path would say nothing about the others. The trees keep their shape by cases on where
the descent ends (`LevelProperties`):

- an insertion pushes onto a list, fills an empty tree, or unzips a tree of
  one rule. The paths that become shared are those up to the level at which the
  two rules differ first (`SpelledAfterInsertion`, `InsertionJoins`), which are those that
  the loop of the code spells out (`UnzipFits`). The compressed tree
  keeps a list that is out of date, and so does every tree of several rules above
  the last field: `Fits` says nothing of it, and the proof shows that no one reads it;
- a deletion takes a priority off a list, removes a tree of one with the node above
  it, or compresses a tree of two. The walk of the code to the other rule goes by
  the deleted rule's keys only; that it ends at that rule, with its chain and its
  priority even if both rules are the same box, is `SurvivorIsSingle` and `PoppedFits`.

The admission test is exact because a rule that leaves the path of the descent
is separable from a stored one exactly if it is where they differ first
(`AgreedIsSeparable`, `SeparableIsAgreed`). No end of a path lies below another
(`EndsAreApart`), and only one holds the points of a packet (`OnlyOneEndHolds`): the
rules there match together, all others not at all, so that the cached maximum
is the answer. Serialization lists at each end as often each priority as there are
rules with it (`ListedAsOften`), and every rule is under exactly one end.

`RedBlackTreeProofs` proves of one level, for any finite set of intervals and in
every step of every call, what the run checks for eight intervals: `SearchTreeAlways`,
`RedBlackAlways`, `RepairAlwaysKnowsItsPlace`, and the refinement `TreeIsIntervalSet`.
The properties speak of whole subtrees and paths, and a rotation changes many of
those at once. The inductive invariant `IInv` (`RedBlackInvariance`) speaks of one node and its
children at a time, and asserts that two functions exist: `B[n]`, the nodes below n,
and `H[n]`, the black nodes on a way down from n, each tied to those of the
children by an equation. A rotation or a splice changes `B` and `H` at the two or
three nodes that move (`RotateLinks`, `SpliceTree`, and one lemma per case of the
repair loops, from `RecolorKeeps` to `EndRepairKeeps`), and everywhere else the equations stay as they are. Between calls the tree is
`Sound`. Inside the repairs it is sound but for one fault, and the invariant says which and
where: in an insertion `x` may be red below a red parent (`Inserting`); in a
deletion one black is missing above `x` (`Repairing`: `Balanced` adds it at
the link that leads to `x`, which for `x = nil` is known only from the parent pointer of the
sentinel). What is the root when the loop starts is kept in a variable by the code
and may not be the root any more after a rotation; the last conjunct of `Repairing` is why the
loop still ends at the right node. For a deletion by successor the node taken
out is not yet back: `Replaces` says that it fits where the deleted node
is. Descents carry `OnTheWay`: every node outside the subtree
ahead lies on one side of both the target and the subtree, so that one path decides for the
whole set. From `IInv` the properties follow by taking a least counterexample among the
sizes of `B[n]` (`TreeInduction`), without an induction theorem.

`CmapProofs` proves of the cuckoo hash map, for any nodes, hashes and hash functions,
any number of slots in a bucket and any greatest length of a path, that the nodes with a hash
are on one chain where a lookup goes first (`OneChainAlways`), and the refinement to
`HashMap` (`CmapIsHashMap`). The comment in `cmap_insert_dup` claims the first
and does not say why it holds: an insertion takes the first slot that *has* its hash, in
the first bucket before the second, for the place of its chain, and free slots keep the hashes
of chains that left. So `IInv` (`CmapInvariance`) says of every chain where another slot
with its hash may be (`Settled`): free, and after the chain in its bucket, or in the second bucket
while the chain is in the first. A removal keeps that. Insertion into an empty slot is a
path of length 0, so one argument serves (`ShiftKeeps`): a chain is moved only when it leaves the
slot to the chain before it on the path, so that no hash is left behind in any bucket but
the last, and there the first free slot is taken. This needs that the path is a
shortest one: all buckets before the last are then full, the path does not meet itself, and no
free slot with the hash of a moved chain precedes the slot it moves to (`IsRoute`,
`ShortestIsRoute`). A rehash inserts the chains slot by slot into an empty table; after k
slots the new table has the nodes of the first k (`AddedKeeps`). Induction
over paths and slots is over naturals, by a least counterexample (`UpTo`), for recursive
functions that `Iterated` shows to exist.

Assumptions: those stated with ASSUME in `Rules`, `OptimizedMITree`,
`PartitionSort`, `TupleSpaceSearch`, `Simulator`, `RulesetPartitioner`,
`IntervalUtilities`, `RedBlackTree` and `Cmap` (finitely many rules and intervals, natural bounds and
priorities, distinct ones for tuple space search, addresses of less than 64 bits, `Freed` is no tree or tuple, `NoPacket` no packet, no interval ends before it
starts, `NoSelection` is no selection, thresholds are integers, the sentinels of the red-black tree are no intervals, hashes are naturals and 0 is one,
there is a basis). TLC evaluates them in every run that extends
the modules.

Only model-checked: everything about the decision trees, whose
construction is recursive or folds over data of any length; that a call returns (of the
red-black tree and of the hash map) and that validation ends, as liveness and
ENABLED are out of the prover's reach.

## Findings

*Tuple space search misses rules that are not prefixes*
(`tuple_space_search_ranges`). The reader of MSU files accepts any address
interval and leaves the prefix length at 0 when it is not a prefix
(`InputReader.cpp:300`; the warning at 303 is commented out). The rule is then
stored under the hash of its unmasked lower bound, while packets are looked up
under the hash of their masked address: it is never found. The validation mode
(`main.cpp:189`) demands that all classifiers agree.

*Reconstruction of a bucket loses rules* (`partitioner_loss`).
`AdaptiveIncrementalInsertion` replaces a small bucket by what the greedy
selection returns for its rules (`SortableRulesetPartitioner.cpp:198`) and does
not look whether all came back. Four rules that are sortable by the first field
come back as three when a disjoint set of three weighs as much in the second,
and the fourth is then in no bucket (`ReconstructionKeepsRules`). The online counterpart checks this
(`OptimizedMITree.h:124`). `main.cpp` does not call the function.

*HyperCuts disagrees with HyperSplit* (`validation_accord`). The guard that
would stop cutting a field into more parts than it has points is commented out
(`HyperCuts.cpp:306`). The parts beyond are empty or inverted boxes, sorted in
between the others, while a packet's position is computed as if all parts had
equal size: it is led to a list that lacks its rule. `ExactWhereCutsFit` says
that this is the only way in which HyperCuts is wrong.

Two smaller remarks that no run is about: `README.md:14` names the mode
"Validate", `main.cpp:285` accepts "Validation" only; and the reconstruction of
young trees described above never takes place.

## Not modelled, and why

Memory accounting, printing and timing have no influence on behaviour.
`RBEnumerate`, `RBFindNodeSequence` and `RBExactQueryPriority` are never called;
`PopPriority` dereferences the maximum of a list it has just emptied and
overwrites the result in the next line; the model has the -1 it ends with. The base class
`TupleSpaceSearch` is not run by the program. Constructing a classifier twice
does not happen (`repetitions` is 1). Command-line options, the reading of files
except for prefix lengths, and the writing of results are I/O.

Of the cuckoo hash map: cursors and `cmap_find_batch`, the `_protected` lookups
and the version counters, which one thread never needs. `hash.h` is an arbitrary
function. Of HyperSplit: `NodeTable`, an unused wrapper. Of HyperCuts: region
compaction, node merging, the moving up of rules and HiCuts, which nothing
calls. Its updates print a message.

Of a tuple that was erased from the map, `DeleteRule` reads the iterator again;
the freed node still holds the pointer, and the model takes it at that.

The variants of the greedy selection with two iterations are never called, and
the fast variant of the interval scheduling is the same sweep on lighter records.
`ComputeMaxIntersection` is modelled for two fields.

## Plan

Done: all components that keep state, each with its operations; the refinements
to brute force, to a set of intervals and to a hash map; proofs of the classifier,
tuple space search, the simulation, the scheduling, the offline partitioners, the
counting of rules that share a packet, the nested tree, the red-black tree of one
level and the cuckoo hash map.

Left:

1. Proofs: the answers of the decision trees (`AnswerIsBracketed`, `ExactWhereCutsFit`).
2. `ComputeMaxIntersection` for three fields, whose recursion hands intervals of
   the outer sweep to the inner one.
