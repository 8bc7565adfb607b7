-------------------------- MODULE RulesetPartitioner --------------------------
(***************************************************************************)
(* The offline partitioners (src/PartitionSort/SortableRulesetPartitioner  *)
(* .cpp): they cut a rule set into buckets whose rules can be sorted, each *)
(* with the order of the fields in which they can.                         *)
(*   GFS       SortableRulesetPartitioningGFS, greedy field selection      *)
(*   MISF      MaximumIndepdenentSetPartitioning, all orders of the fields *)
(*   Adaptive  AdaptiveIncrementalInsertion, rule by rule                  *)
(* A greedy selection is one step per field it chooses.                    *)
(***************************************************************************)
EXTENDS OptimizedMITree, IntervalUtilities

CONSTANTS
    Method,          \* which of "GFS", "MISF" and "Adaptive" may be called
    Threshold,       \* the thresholds Adaptive may be called with
    NoSelection      \* no greedy selection is running

ASSUME NoSelectionAssumption ==
    NoSelection \notin [ all_partitions : SUBSET SUBSET Rule, current_field : Seq(Field), bucket : Int ]

\* int threshold
ASSUME ThresholdAssumption == Threshold \subseteq Int

VARIABLES
    method, threshold,   \* the call
    rules,               \* its argument
    current_rules,       \* the rules that are in no bucket yet
    all_buckets,         \* the buckets made so far, each [rules, fields]
    selection            \* the GreedyFieldSelection under way, and its bucket

vars == <<method, threshold, rules, current_rules, all_buckets, selection>>

SortableRuleset == [ rules : SUBSET Rule, fields : FieldOrder ]

------------------------------------------------------------------------------
(* IsBucketReallySortable                                                  *)

\* The parts of a set of parts, field f distinguished.
Refined(P, f) == UNION {{w.rules : w \in CreateUniqueInterval(p, f)} : p \in P}

\* (mutation) Two intervals may share a point.
OverlapOfTwo(p, f) == MaxOverlap(CreateUniqueInterval(p, f)) <= 2

IsThisPartitionSortable(p, f) == MaxOverlap(CreateUniqueInterval(p, f)) = 1

IsEntirePartitionSortable(P, f) == \A p \in P : IsThisPartitionSortable(p, f)

\* all_partitions before the i-th field of the order.
Parts(b) ==
    LET parts[i \in 1 .. Dim] ==
            IF i = 1 THEN {b.rules} ELSE Refined(parts[i - 1], b.fields[i - 1])
    IN  parts

IsBucketReallySortable(b) ==
    \A i \in Field : IsEntirePartitionSortable(Parts(b)[i], b.fields[i])

\* The bucket SortableRuleset::InsertRule tries.
With(b, r) == [b EXCEPT !.rules = @ \cup {r}]

------------------------------------------------------------------------------
(* GreedyFieldSelection                                                    *)

\* The sum of the weights that MWISonEntirePartition returns for field f.
MWISWeight(P, f) ==
    LET WeightOf(p) == MaximumWeight(CreateUniqueInterval(p, f))
    IN  MapThenSumSet(WeightOf, P)

\* (mutation) Every interval of the field is taken.
EveryInterval(P, f) == {Refined(P, f)}

\* What MWISonEntirePartition may make of the parts: a heaviest disjoint set of
\* each part's intervals.
MWISonEntirePartition(P, f) ==
    {UNION {{w.rules : w \in chosen[p]} : p \in P} :
        chosen \in OneOfEach([p \in P |-> MWISIntervals(CreateUniqueInterval(p, f))])}

\* Of the fields not chosen yet the heaviest; of equal ones, the last.
BestField(P, chosen) ==
    {f \in Field \ chosen : \A g \in Field \ chosen :
        \/ MWISWeight(P, g) < MWISWeight(P, f)
        \/ MWISWeight(P, g) = MWISWeight(P, f) /\ g <= f}

Selection(S, b) == [ all_partitions |-> {S}, current_field |-> <<>>, bucket |-> b ]

Selecting == selection # NoSelection
Selected == Selecting /\ Len(selection.current_field) = Dim

BestFieldAndConfiguration ==
    /\ Selecting /\ ~Selected
    /\ \E f \in BestField(selection.all_partitions, Range(selection.current_field)) :
          \E P \in MWISonEntirePartition(selection.all_partitions, f) :
             selection' = [selection EXCEPT !.all_partitions = P,
                                            !.current_field = Append(@, f)]
    /\ UNCHANGED <<method, threshold, rules, current_rules, all_buckets>>

SelectedBucket ==
    [rules |-> UNION selection.all_partitions, fields |-> selection.current_field]

------------------------------------------------------------------------------
(* SortableRulesetPartitioningGFS                                          *)

StartGFS ==
    /\ method = "GFS" /\ ~Selecting
    /\ current_rules # {}
    /\ selection' = Selection(current_rules, Len(all_buckets) + 1)
    /\ UNCHANGED <<method, threshold, rules, current_rules, all_buckets>>

\* The rules chosen are marked by their tags and erased; were there none, the
\* program would exit.
AddBucket ==
    /\ method = "GFS" /\ Selected
    /\ SelectedBucket.rules # {}
    /\ all_buckets' = Append(all_buckets, SelectedBucket)
    /\ current_rules' = current_rules \ SelectedBucket.rules
    /\ selection' = NoSelection
    /\ UNCHANGED <<method, threshold, rules>>

------------------------------------------------------------------------------
(* MaximumIndepdenentSetPartitioning                                       *)

\* The independent sets MaximumIndependentSetGivenFieldRecursion may return for
\* a set of rules, by the depth in the order fo: of the intervals of the field,
\* each with a set chosen one level down, a heaviest disjoint set.
MaximumIndependentSetGivenField(S, fo) ==
    LET Given[depth \in Field] == [T \in SUBSET S |->
            LET vwi == CreateUniqueInterval(T, fo[depth])
                below == [w \in vwi |-> IF depth < Dim THEN Given[depth + 1][w.rules]
                                        ELSE {w.rules}]
                opt == {{[w EXCEPT !.rules = V[w]] : w \in vwi} : V \in OneOfEach(below)}
            IN  UNION {{UNION {w.rules : w \in V} : V \in MWISIntervals(vwi_opt)} :
                       vwi_opt \in opt}]
    IN  Given[1][S]

\* std::next_permutation goes through the orders of the fields lexicographically.
EarlierOrder(fo, go) ==
    \E i \in Field : fo[i] < go[i] /\ \A k \in 1 .. i - 1 : fo[k] = go[k]

\* A larger set replaces the best so far: the first order wins among equals.
MaximumIndependentSetAllFields(S) ==
    LET vrules == [fo \in FieldOrder |-> MaximumIndependentSetGivenField(S, fo)]
        Loses(fo, go, V) == \E U \in vrules[fo] :
            \/ Cardinality(U) < Cardinality(V)
            \/ Cardinality(U) = Cardinality(V) /\ EarlierOrder(go, fo)
    IN  UNION {{[rules |-> V, fields |-> go] :
                   V \in {W \in vrules[go] : \A fo \in FieldOrder \ {go} : Loses(fo, go, W)}} :
               go \in FieldOrder}

AddMaximumIndependentSet ==
    /\ method = "MISF"
    /\ current_rules # {}
    /\ \E b \in MaximumIndependentSetAllFields(current_rules) :
          /\ all_buckets' = Append(all_buckets, b)
          /\ current_rules' = current_rules \ b.rules
    /\ UNCHANGED <<method, threshold, rules, selection>>

------------------------------------------------------------------------------
(* AdaptiveIncrementalInsertion                                            *)

Accepting(r) == {i \in DOMAIN all_buckets : IsBucketReallySortable(With(all_buckets[i], r))}

\* (mutation) The loop over the buckets goes on after an insertion.
InsertIntoEveryBucket(r) ==
    /\ method = "Adaptive" /\ ~Selecting
    /\ Accepting(r) # {}
    /\ all_buckets' = [i \in DOMAIN all_buckets |->
                          IF i \in Accepting(r) THEN With(all_buckets[i], r) ELSE all_buckets[i]]
    /\ current_rules' = current_rules \ {r}
    /\ UNCHANGED <<method, threshold, rules, selection>>

\* The first bucket that accepts the rule gets it; a bucket that is still small
\* is reconstructed by a greedy selection.
InsertIntoBucket(r) ==
    /\ method = "Adaptive" /\ ~Selecting
    /\ Accepting(r) # {}
    /\ LET i == Min(Accepting(r))
           b == With(all_buckets[i], r)
       IN  /\ all_buckets' = [all_buckets EXCEPT ![i] = b]
           /\ selection' = IF Cardinality(b.rules) < threshold
                           THEN Selection(b.rules, i) ELSE NoSelection
    /\ current_rules' = current_rules \ {r}
    /\ UNCHANGED <<method, threshold, rules>>

\* No bucket accepts the rule.  The order of the fields of a new bucket is
\* random when nothing is ever reconstructed.
InsertIntoNewBucket(r) ==
    /\ method = "Adaptive" /\ ~Selecting
    /\ Accepting(r) = {}
    /\ \E fo \in IF threshold = 0 THEN FieldOrder ELSE GetFieldOrderByRule(r) :
          all_buckets' = Append(all_buckets, [rules |-> {r}, fields |-> fo])
    /\ current_rules' = current_rules \ {r}
    /\ UNCHANGED <<method, threshold, rules, selection>>

\* (mutation) A bucket that is still small is reconstructed again.
ReconstructWhileSmall ==
    /\ method = "Adaptive" /\ Selected
    /\ all_buckets' = [all_buckets EXCEPT ![selection.bucket] = SelectedBucket]
    /\ selection' = IF Cardinality(SelectedBucket.rules) < threshold
                    THEN Selection(SelectedBucket.rules, selection.bucket) ELSE NoSelection
    /\ UNCHANGED <<method, threshold, rules, current_rules>>

Reconstruct ==
    /\ method = "Adaptive" /\ Selected
    /\ all_buckets' = [all_buckets EXCEPT ![selection.bucket] = SelectedBucket]
    /\ selection' = NoSelection
    /\ UNCHANGED <<method, threshold, rules, current_rules>>

------------------------------------------------------------------------------
(* FastGreedyFieldSelectionForAdaptive, which the online tree calls        *)

\* (mutation) The indices of the rules are filled in.
FastIntervalsWithRules(S, f) == CreateUniqueInterval(S, f)

\* FastCreateUniqueInterval counts the rules of an interval and never pushes
\* their indices.
FastCreateUniqueInterval(S, f) == {[w EXCEPT !.rules = {}] : w \in CreateUniqueInterval(S, f)}

\* Which disjoint intervals are heaviest is left open.
FastMWISonPartition(p, f) ==
    IF p = {} THEN {{}}
    ELSE {{w.rules : w \in V} :
             V \in {U \in SUBSET FastCreateUniqueInterval(p, f) : U # {} /\ Independent(U)}}

FastMWISonEntirePartition(P, f) ==
    {UNION Range(c) : c \in OneOfEach([p \in P |-> FastMWISonPartition(p, f)])}

\* The verdicts for the fields chosen in the order fo: the size of the first
\* part, read as 0 when there is none, against the number of rules.
FastGreedyFieldSelectionForAdaptive(S, fo) ==
    LET parts[i \in 0 .. Dim] ==
            IF i = 0 THEN {{S}}
            ELSE UNION {FastMWISonEntirePartition(P, fo[i]) : P \in parts[i - 1]}
    IN  {\E p \in P : Cardinality(p) = Cardinality(S) : P \in parts[Dim]}

------------------------------------------------------------------------------
Init ==
    /\ method \in Method
    /\ threshold \in Threshold
    /\ rules \in SUBSET Rule
    /\ current_rules = rules
    /\ all_buckets = <<>>
    /\ selection = NoSelection

\* The buckets are returned.  In any other state without a step the program
\* would have exited with an error.
Return ==
    /\ current_rules = {} /\ ~Selecting
    /\ UNCHANGED vars

Next ==
    \/ StartGFS
    \/ BestFieldAndConfiguration
    \/ AddBucket
    \/ AddMaximumIndependentSet
    \/ \E r \in current_rules : InsertIntoBucket(r) \/ InsertIntoNewBucket(r)
    \/ Reconstruct
    \/ Return

Spec == Init /\ [][Next]_vars

------------------------------------------------------------------------------
(* Properties                                                              *)

\* Every bucket has an order of all the fields, in which any two of its rules
\* are separable: what the tree of the online classifier needs to hold them.
BucketsAreSortable ==
    \A i \in DOMAIN all_buckets :
        LET b == all_buckets[i]
        IN  b \in SortableRuleset /\ \A r, s \in b.rules : Sortable(b.fields, r, s)

\* The two admission tests of the repository agree: the one by partitions, kept
\* for debugging, and the one by a single path down the tree.
AdmissionTestsAgree ==
    \A i \in DOMAIN all_buckets, r \in Rule :
        IsBucketReallySortable(With(all_buckets[i], r))
            <=> \A s \in all_buckets[i].rules : Sortable(all_buckets[i].fields, r, s)

\* No rule is in two buckets, and none is lost, unless small buckets are
\* reconstructed.
EveryRuleInOneBucket ==
    \A r \in rules \ current_rules :
        LET holders == {i \in DOMAIN all_buckets : r \in all_buckets[i].rules}
        IN  \/ Cardinality(holders) = 1
            \/ holders = {} /\ method = "Adaptive" /\ threshold > 0

\* A bucket is reconstructed from its rules: the greedy selection for them
\* returns all of them (SortableRulesetPartitioner.cpp:195-198; online,
\* OptimizedMITree.h:124 goes on only if it does).
ReconstructionKeepsRules ==
    method = "Adaptive" /\ Selected =>
        SelectedBucket.rules = all_buckets[selection.bucket].rules

\* The greedy selection of the online tree never approves a new order of the
\* fields, whatever rules the tree has: no tree is ever rebuilt.
OnlineSelectionNeverApproves ==
    \A fo \in FieldOrder : Cardinality(rules) > 1 =>
        TRUE \notin FastGreedyFieldSelectionForAdaptive(rules, fo)

\* The number of steps before the next rule is placed, or before the greedy
\* selection that follows the placing of a rule is over.
StepsLeft ==
    IF Selecting THEN Dim + 1 - Len(selection.current_field)
    ELSE IF method = "GFS" THEN Dim + 2 ELSE 0

\* The loops that peel off buckets end: every round places a rule, and no
\* bucket is reconstructed again and again.
EveryStepIsProgress ==
    [][\/ current_rules' \subseteq current_rules /\ current_rules' # current_rules
       \/ current_rules' = current_rules /\ StepsLeft' < StepsLeft]_vars
==============================================================================
