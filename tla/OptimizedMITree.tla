---------------------------- MODULE OptimizedMITree ----------------------------
(***************************************************************************)
(* One multidimensional interval tree (src/PartitionSort/OptimizedMITree.h)*)
(* as the partition-sort classifier sees it: the rules it stores, the      *)
(* order in which it examines the fields, and the bookkeeping that sits    *)
(* beside the search tree (numRules, the multiset of priorities, the       *)
(* cached maximum).  The search tree itself is abstracted to what it       *)
(* decides: which rules can be stored together, and the best match.        *)
(***************************************************************************)
EXTENDS Rules, Sequences, Functions

CONSTANTS
    FieldSize,          \* FieldSize[f]: how many points field f has
    MatureThreshold     \* 10 in PartitionSort::InsertRule

ASSUME MITreeAssumption ==
    /\ FieldSize \in [Field -> Nat]
    /\ MatureThreshold \in Nat

Priorities == {priority[r] : r \in Rule}

FieldOrder == {fo \in [Field -> Field] : IsInjective(fo)}

MITree == [ stored            : SUBSET Rule,
            fieldOrder        : FieldOrder,
            priorityContainer : [Priorities -> Nat],
            numRules          : Int,
            maxPriority       : Int,
            isMature          : BOOLEAN ]

------------------------------------------------------------------------------
(* The field order of a new tree                                           *)

\* A rule with more than five fields repeats the five-field header; the code
\* ranks such a field by the interval of the field it repeats.
Ranked(f) == ((f - 1) % 5) + 1

\* 0 a point, 1 below half of the field, 2 half of it or more, 3 all of it.
\* For the 32-bit fields the code sees a full interval as length 0 (2^32 wraps).
Rank(r, f) ==
    LET g == Ranked(f)
        length == High(r, g) - Low(r, g) + 1
    IN  CASE length = 1                  -> 0
          [] length >= FieldSize[g]      -> 3
          [] 2 * length >= FieldSize[g]  -> 2
          [] OTHER                       -> 1

\* Fields by increasing rank; equal ranks stay in index order, because
\* std::sort is an insertion sort on so few elements.
GetFieldOrderByRule(r) ==
    {fo \in FieldOrder :
        \A i, j \in Field : i < j =>
            \/ Rank(r, fo[i]) < Rank(r, fo[j])
            \/ Rank(r, fo[i]) = Rank(r, fo[j]) /\ fo[i] < fo[j]}

------------------------------------------------------------------------------
(* Which rules fit in one tree                                             *)

Identical(r, s, f) == range[r][f] = range[s][f]
Disjoint(r, s, f) == High(r, f) < Low(s, f) \/ High(s, f) < Low(r, f)

\* At the first field, in the tree's order, where two rules differ, their
\* intervals do not intersect.
Sortable(fo, r, s) ==
    \A i \in Field :
        (\A j \in 1 .. i - 1 : Identical(r, s, fo[j]))
            => Identical(r, s, fo[i]) \/ Disjoint(r, s, fo[i])

\* (mutation) The new rule is compared field by field in index order.
CanInsertInNaturalOrder(t, r) == \A s \in t.stored : Sortable([i \in Field |-> i], r, s)

CanInsertRule(t, r) == \A s \in t.stored : Sortable(t.fieldOrder, r, s)

------------------------------------------------------------------------------
(* Updates                                                                 *)

NewTree(fo) ==
    [ stored |-> {}, fieldOrder |-> fo,
      priorityContainer |-> [q \in Priorities |-> 0],
      numRules |-> 0, maxPriority |-> NoMatch, isMature |-> FALSE ]

\* (mutation) The flag is computed after the maximum has been updated.
ChangeTestedTooLate(t, r) == priority[r] > Max({t.maxPriority, priority[r]})

InsertChangesPriority(t, r) == priority[r] > t.maxPriority

\* (mutation) The last priority inserted becomes the maximum.
InsertionWithoutMax(t, r) ==
    [ t EXCEPT !.stored = @ \cup {r},
               !.priorityContainer[priority[r]] = @ + 1,
               !.numRules = @ + 1,
               !.maxPriority = priority[r] ]

Insertion(t, r) ==
    [ t EXCEPT !.stored = @ \cup {r},
               !.priorityContainer[priority[r]] = @ + 1,
               !.numRules = @ + 1,
               !.maxPriority = Max({@, priority[r]}) ]

\* (mutation) Only a tree that became empty is reported.
OnlyEmptyingIsReported(t, r) == t.numRules = 1

DeleteChangesPriority(t, r) == t.numRules = 1 \/ priority[r] = t.maxPriority

\* *priorityContainer.rbegin()
LargestIn(container) == Max({q \in Priorities : container[q] > 0})

\* (mutation) The maximum is not reset when the last rule goes.
DeletionWithoutReset(t, r) ==
    LET container == [t.priorityContainer EXCEPT ![priority[r]] = @ - 1]
    IN  [ t EXCEPT !.stored = @ \ {r},
                   !.priorityContainer = container,
                   !.numRules = @ - 1,
                   !.maxPriority = IF priority[r] = @ /\ t.numRules > 1
                                   THEN LargestIn(container) ELSE @ ]

\* (mutation) The bookkeeping forgets the rule, the search tree keeps it.
DeletionInBooksOnly(t, r) ==
    LET container == [t.priorityContainer EXCEPT ![priority[r]] = @ - 1]
    IN  [ t EXCEPT !.priorityContainer = container,
                   !.numRules = @ - 1,
                   !.maxPriority = IF t.numRules = 1 THEN NoMatch
                                   ELSE IF priority[r] = @ THEN LargestIn(container)
                                   ELSE @ ]

Deletion(t, r) ==
    LET container == [t.priorityContainer EXCEPT ![priority[r]] = @ - 1]
    IN  [ t EXCEPT !.stored = @ \ {r},
                   !.priorityContainer = container,
                   !.numRules = @ - 1,
                   !.maxPriority = IF t.numRules = 1 THEN NoMatch
                                   ELSE IF priority[r] = @ THEN LargestIn(container)
                                   ELSE @ ]

Empty(t) == \A q \in Priorities : t.priorityContainer[q] = 0

\* FastGreedyFieldSelectionForAdaptive never approves a new field order: the
\* intervals FastCreateUniqueInterval builds carry no rule, so from the second
\* field on there is no partition left, and the size read from the first of
\* none is 0, never the number of rules.  What remains of the call is the flag.
ReconstructIfNumRulesLessThanOrEqualTo(t) ==
    IF ~t.isMature /\ t.numRules >= MatureThreshold
    THEN [t EXCEPT !.isMature = TRUE]
    ELSE t

------------------------------------------------------------------------------
(* Queries                                                                 *)

ClassifyInTree(t, p) == BestPriority(t.stored, p)

------------------------------------------------------------------------------
(* What holds of a tree between operations                                 *)

\* The counters and the cached maximum are those of the stored rules.
ExactBookkeeping(t) ==
    /\ t.numRules = Cardinality(t.stored)
    /\ \A q \in Priorities :
          t.priorityContainer[q] = Cardinality({r \in t.stored : priority[r] = q})
    /\ \/ t.stored = {} /\ t.maxPriority = NoMatch
       \/ /\ \E r \in t.stored : priority[r] = t.maxPriority
          /\ \A r \in t.stored : priority[r] <= t.maxPriority

\* Any two stored rules are separable in the tree's field order.
SortableTree(t) == \A r, s \in t.stored : Sortable(t.fieldOrder, r, s)
==============================================================================
