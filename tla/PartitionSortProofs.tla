-------------------------- MODULE PartitionSortProofs --------------------------
(***************************************************************************)
(* Proofs about PartitionSort for every set of rules, addresses, packets:  *)
(* the vectors and the heap stay consistent, the trees stay sorted, and    *)
(* the early exit of a classification never changes its answer.            *)
(***************************************************************************)
EXTENDS PartitionSort, RulesProofs

------------------------------------------------------------------------------
(* One tree: what Insertion, Deletion and the field order do to its        *)
(* bookkeeping                                                             *)

\* A tree stores finitely many rules, because there are finitely many.
LEMMA StoredIsFinite ==
  ASSUME NEW t \in MITree
  PROVE  /\ IsFiniteSet(t.stored)
         /\ Cardinality(t.stored) \in Nat
         /\ t.stored = {} <=> Cardinality(t.stored) = 0
         /\ \A q : LET S == {r \in t.stored : priority[r] = q}
                  IN  /\ IsFiniteSet(S) /\ Cardinality(S) \in Nat
                      /\ S = {} <=> Cardinality(S) = 0
<1>1. t.stored \subseteq Rule
  BY DEF MITree
<1>2. IsFiniteSet(t.stored)
  BY <1>1, FS_Subset, RulesAssumption
<1>3. ASSUME NEW q
      PROVE  IsFiniteSet({r \in t.stored : priority[r] = q})
  BY <1>2, FS_Subset
<1> QED BY <1>2, <1>3, FS_CardinalityType, FS_EmptySet

\* A new tree has exact bookkeeping and is sortable.
LEMMA NewTreeExact ==
  ASSUME NEW fo \in FieldOrder
  PROVE  /\ NewTree(fo) \in MITree
         /\ ExactBookkeeping(NewTree(fo))
         /\ SortableTree(NewTree(fo))
<1>1. NewTree(fo) \in MITree
  BY DEF NewTree, MITree, NoMatch
<1>2. \A q \in Priorities : {r \in NewTree(fo).stored : priority[r] = q} = {}
  BY DEF NewTree
<1>3. ExactBookkeeping(NewTree(fo))
  BY <1>2, FS_EmptySet DEF ExactBookkeeping, NewTree
<1> QED BY <1>1, <1>3 DEF SortableTree, NewTree

\* Priorities are naturals.
LEMMA PriorityType ==
  ASSUME NEW r \in Rule
  PROVE  priority[r] \in Nat /\ priority[r] \in Priorities
BY RulesAssumption DEF Priorities

\* Insertion keeps the bookkeeping exact.
LEMMA InsertionExact ==
  ASSUME NEW t \in MITree, ExactBookkeeping(t), NEW r \in Rule, r \notin t.stored
  PROVE  /\ Insertion(t, r) \in MITree
         /\ Insertion(t, r).stored = t.stored \cup {r}
         /\ Insertion(t, r).fieldOrder = t.fieldOrder
         /\ ExactBookkeeping(Insertion(t, r))
         /\ ~InsertChangesPriority(t, r) => Insertion(t, r).maxPriority = t.maxPriority
<1> DEFINE u == Insertion(t, r)
<1>1. priority[r] \in Nat /\ priority[r] \in Priorities
  BY PriorityType
<1>2. t.maxPriority \in Int
  BY DEF MITree
<1>3. /\ u.stored = t.stored \cup {r}
      /\ u.fieldOrder = t.fieldOrder
      /\ u.priorityContainer =
            [t.priorityContainer EXCEPT ![priority[r]] = t.priorityContainer[priority[r]] + 1]
      /\ u.numRules = t.numRules + 1
      /\ u.maxPriority = Max({t.maxPriority, priority[r]})
      /\ u.isMature = t.isMature
  BY DEF Insertion, MITree
<1>4. u.maxPriority = IF t.maxPriority >= priority[r] THEN t.maxPriority ELSE priority[r]
  BY <1>1, <1>2, <1>3, MaxOfTwo
<1>5. u \in MITree
  <2> DEFINE t1 == [t EXCEPT !.stored = t.stored \cup {r}]
             t2 == [t1 EXCEPT !.priorityContainer = u.priorityContainer]
             t3 == [t2 EXCEPT !.numRules = t.numRules + 1]
  <2>1. t.priorityContainer \in [Priorities -> Nat] /\ t.numRules \in Int
    BY DEF MITree
  <2>2. u.priorityContainer \in [Priorities -> Nat] /\ u.maxPriority \in Int
    BY <1>1, <1>2, <1>3, <1>4, <2>1
  <2>3. t1 \in MITree
    BY DEF MITree
  <2>4. t2 \in MITree
    <3> HIDE DEF t1, u
    <3> QED BY <2>2, <2>3 DEF MITree
  <2>5. t3 \in MITree
    <3> HIDE DEF t2
    <3> QED BY <2>1, <2>4 DEF MITree
  <2>6. u = [t3 EXCEPT !.maxPriority = u.maxPriority]
    BY DEF Insertion, MITree
  <2> HIDE DEF t3, u
  <2> QED BY <2>2, <2>5, <2>6 DEF MITree
<1>6. u.numRules = Cardinality(u.stored)
  <2>1. IsFiniteSet(t.stored)
    BY StoredIsFinite
  <2>2. Cardinality(t.stored \cup {r}) = Cardinality(t.stored) + 1
    BY <2>1, FS_AddElement
  <2> QED BY <1>3, <2>2 DEF ExactBookkeeping
<1>7. ASSUME NEW q \in Priorities
      PROVE  u.priorityContainer[q] = Cardinality({s \in u.stored : priority[s] = q})
  <2>1. t.priorityContainer \in [Priorities -> Nat]
    BY DEF MITree
  <2>2. t.priorityContainer[q] = Cardinality({s \in t.stored : priority[s] = q})
    BY DEF ExactBookkeeping
  <2>3. CASE q = priority[r]
    <3>1. {s \in u.stored : priority[s] = q} = {s \in t.stored : priority[s] = q} \cup {r}
      BY <1>3, <2>3
    <3>2. Cardinality({s \in u.stored : priority[s] = q})
            = Cardinality({s \in t.stored : priority[s] = q}) + 1
      BY <3>1, StoredIsFinite, FS_AddElement
    <3> QED BY <1>1, <1>3, <2>1, <2>2, <2>3, <3>2
  <2>4. CASE q # priority[r]
    <3>1. {s \in u.stored : priority[s] = q} = {s \in t.stored : priority[s] = q}
      BY <1>3, <2>4
    <3> QED BY <1>1, <1>3, <2>1, <2>2, <2>4, <3>1
  <2> QED BY <2>3, <2>4
<1>8. /\ \E s \in u.stored : priority[s] = u.maxPriority
      /\ \A s \in u.stored : priority[s] <= u.maxPriority
  <2>1. \A s \in t.stored : priority[s] \in Nat
    BY RulesAssumption DEF MITree
  <2>2. \A s \in t.stored : priority[s] <= t.maxPriority
    BY DEF ExactBookkeeping
  <2>3. CASE t.maxPriority >= priority[r]
    <3>1. \E s \in t.stored : priority[s] = t.maxPriority
      BY <1>1, <2>3 DEF ExactBookkeeping, NoMatch
    <3> QED BY <1>1, <1>2, <1>3, <1>4, <2>2, <2>3, <3>1
  <2>4. CASE ~(t.maxPriority >= priority[r])
    BY <1>1, <1>2, <1>3, <1>4, <2>1, <2>2, <2>4
  <2> QED BY <2>3, <2>4
<1>9. ExactBookkeeping(u)
  BY <1>6, <1>7, <1>8 DEF ExactBookkeeping
<1>10. ~InsertChangesPriority(t, r) => u.maxPriority = t.maxPriority
  BY <1>1, <1>2, <1>4 DEF InsertChangesPriority
<1> QED BY <1>3, <1>5, <1>9, <1>10

\* A tree is Empty, by its multiset of priorities, exactly when it stores no rule.
LEMMA EmptyIsExact ==
  ASSUME NEW t \in MITree, ExactBookkeeping(t)
  PROVE  Empty(t) <=> t.stored = {}
<1>1. ASSUME Empty(t), NEW r \in t.stored PROVE FALSE
  <2>1. r \in Rule /\ priority[r] \in Priorities
    BY PriorityType DEF MITree
  <2>2. Cardinality({s \in t.stored : priority[s] = priority[r]}) = 0
    BY <1>1, <2>1 DEF Empty, ExactBookkeeping
  <2>3. {s \in t.stored : priority[s] = priority[r]} = {}
    BY <2>2, StoredIsFinite
  <2> QED BY <2>3
<1>2. ASSUME t.stored = {} PROVE Empty(t)
  <2>1. ASSUME NEW q \in Priorities PROVE t.priorityContainer[q] = 0
    <3>1. {s \in t.stored : priority[s] = q} = {}
      BY <1>2
    <3>2. t.priorityContainer[q] = Cardinality({s \in t.stored : priority[s] = q})
      BY DEF ExactBookkeeping
    <3> QED BY <3>1, <3>2, FS_EmptySet
  <2> QED BY <2>1 DEF Empty
<1> QED BY <1>1, <1>2

\* The largest element of the multiset is the largest stored priority.
LEMMA LargestInIsMax ==
  ASSUME NEW S \in SUBSET Rule, S # {},
         NEW container \in [Priorities -> Nat],
         \A q \in Priorities : container[q] > 0 <=> \E s \in S : priority[s] = q,
         NEW b \in Nat, \A s \in S : priority[s] <= b
  PROVE  /\ \E s \in S : priority[s] = LargestIn(container)
         /\ \A s \in S : priority[s] <= LargestIn(container)
<1> DEFINE Q == {q \in Priorities : container[q] > 0}
<1>1. Q \in SUBSET Nat
  BY RulesAssumption DEF Priorities
<1>2. Q # {}
  <2>1. PICK s \in S : TRUE
    OBVIOUS
  <2> QED BY <2>1, PriorityType
<1>3. \A q \in Q : q <= b
  OBVIOUS
<1>4. PICK m \in Q : \A q \in Q : q <= m
  <2> HIDE DEF Q
  <2> QED BY <1>1, <1>2, <1>3, BoundedHasMax
<1>5. LargestIn(container) = m
  <2>1. Q \in SUBSET Int
    BY <1>1
  <2>2. Max(Q) = m
    <3> HIDE DEF Q
    <3> QED BY <1>4, <2>1, MaxProperty
  <2> QED BY <2>2 DEF LargestIn
<1>6. \A s \in S : priority[s] \in Q
  BY PriorityType
<1> QED BY <1>4, <1>5, <1>6

\* Deletion keeps the bookkeeping exact, and empties only a tree of one rule.
LEMMA DeletionExact ==
  ASSUME NEW t \in MITree, ExactBookkeeping(t), NEW r \in t.stored
  PROVE  /\ Deletion(t, r) \in MITree
         /\ Deletion(t, r).stored = t.stored \ {r}
         /\ Deletion(t, r).fieldOrder = t.fieldOrder
         /\ ExactBookkeeping(Deletion(t, r))
         /\ ~DeleteChangesPriority(t, r) => Deletion(t, r).maxPriority = t.maxPriority
         /\ Deletion(t, r).stored = {} => DeleteChangesPriority(t, r)
<1> DEFINE u == Deletion(t, r)
           container == [t.priorityContainer EXCEPT ![priority[r]] =
                            t.priorityContainer[priority[r]] - 1]
<1>1. r \in Rule /\ priority[r] \in Nat /\ priority[r] \in Priorities
  BY PriorityType DEF MITree
<1>2. t.maxPriority \in Int /\ t.numRules \in Int /\ t.priorityContainer \in [Priorities -> Nat]
  BY DEF MITree
<1>3. /\ u.stored = t.stored \ {r}
      /\ u.fieldOrder = t.fieldOrder
      /\ u.priorityContainer = container
      /\ u.numRules = t.numRules - 1
      /\ u.maxPriority = IF t.numRules = 1 THEN NoMatch
                         ELSE IF priority[r] = t.maxPriority THEN LargestIn(container)
                         ELSE t.maxPriority
      /\ u.isMature = t.isMature
  BY DEF Deletion, MITree
<1>4. IsFiniteSet(t.stored) /\ Cardinality(t.stored) \in Nat
  BY StoredIsFinite
<1>5. u.numRules = Cardinality(u.stored) /\ (u.stored = {} <=> t.numRules = 1)
  <2>1. Cardinality(t.stored \ {r}) = Cardinality(t.stored) - 1
    BY <1>4, FS_RemoveElement
  <2>2. t.numRules = Cardinality(t.stored)
    BY DEF ExactBookkeeping
  <2>3. IsFiniteSet(t.stored \ {r})
    BY <1>4, FS_RemoveElement
  <2>4. t.stored \ {r} = {} <=> Cardinality(t.stored \ {r}) = 0
    BY <2>3, FS_EmptySet
  <2> QED BY <1>2, <1>3, <1>4, <2>1, <2>2, <2>4
<1>6. ASSUME NEW q \in Priorities
      PROVE  container[q] = Cardinality({s \in u.stored : priority[s] = q})
  <2>1. t.priorityContainer[q] = Cardinality({s \in t.stored : priority[s] = q})
    BY DEF ExactBookkeeping
  <2>2. CASE q = priority[r]
    <3>1. {s \in u.stored : priority[s] = q} = {s \in t.stored : priority[s] = q} \ {r}
      BY <1>3, <2>2
    <3>2. IsFiniteSet({s \in t.stored : priority[s] = q})
      BY StoredIsFinite
    <3>3. Cardinality({s \in t.stored : priority[s] = q} \ {r})
            = Cardinality({s \in t.stored : priority[s] = q}) - 1
      BY <2>2, <3>2, FS_RemoveElement
    <3> QED BY <1>1, <1>2, <2>1, <2>2, <3>1, <3>3
  <2>3. CASE q # priority[r]
    <3>1. {s \in u.stored : priority[s] = q} = {s \in t.stored : priority[s] = q}
      BY <1>3, <2>3
    <3> QED BY <1>1, <1>2, <2>1, <2>3, <3>1
  <2> QED BY <2>2, <2>3
<1>7. container \in [Priorities -> Nat]
  <2>1. ASSUME NEW q \in Priorities PROVE container[q] \in Nat
    <3>1. u.stored \subseteq t.stored
      BY <1>3
    <3>2. IsFiniteSet({s \in u.stored : priority[s] = q})
      BY <1>4, <3>1, FS_Subset
    <3> QED BY <1>6, <3>2, FS_CardinalityType
  <2> QED BY <1>2, <2>1
<1>8. ASSUME NEW q \in Priorities
      PROVE  container[q] > 0 <=> \E s \in u.stored : priority[s] = q
  <2>1. IsFiniteSet({s \in u.stored : priority[s] = q})
    <3>1. u.stored \subseteq t.stored
      BY <1>3
    <3> QED BY <1>4, <3>1, FS_Subset
  <2>2. Cardinality({s \in u.stored : priority[s] = q}) = 0
          <=> {s \in u.stored : priority[s] = q} = {}
    BY <2>1, FS_EmptySet
  <2>3. container[q] \in Nat
    BY <1>7
  <2> HIDE DEF container, u
  <2> QED BY <1>6, <2>2, <2>3
<1>9. \A s \in t.stored : s \in Rule /\ priority[s] \in Nat /\ priority[s] <= t.maxPriority
  BY PriorityType DEF MITree, ExactBookkeeping
<1>10. \/ u.stored = {} /\ u.maxPriority = NoMatch
       \/ /\ \E s \in u.stored : priority[s] = u.maxPriority
          /\ \A s \in u.stored : priority[s] <= u.maxPriority
  <2>1. CASE t.numRules = 1
    BY <1>3, <1>5, <2>1
  <2>2. CASE t.numRules # 1 /\ priority[r] = t.maxPriority
    <3>1. u.stored \in SUBSET Rule /\ u.stored # {}
      BY <1>3, <1>5, <1>9, <2>2
    <3>2. t.maxPriority \in Nat /\ \A s \in u.stored : priority[s] <= t.maxPriority
      BY <1>1, <1>3, <1>9, <2>2
    <3>3. u.maxPriority = LargestIn(container)
      BY <1>3, <2>2
    <3> HIDE DEF container, u
    <3>4. /\ \E s \in u.stored : priority[s] = LargestIn(container)
          /\ \A s \in u.stored : priority[s] <= LargestIn(container)
      BY <1>7, <1>8, <3>1, <3>2, LargestInIsMax
    <3> QED BY <3>3, <3>4
  <2>3. CASE t.numRules # 1 /\ priority[r] # t.maxPriority
    <3>1. PICK s \in t.stored : priority[s] = t.maxPriority
      BY DEF ExactBookkeeping
    <3>2. s \in u.stored
      BY <1>3, <2>3, <3>1
    <3> QED BY <1>3, <1>9, <2>3, <3>1, <3>2
  <2> QED BY <2>1, <2>2, <2>3
<1>11. ExactBookkeeping(u)
  <2> HIDE DEF container, u
  <2> QED BY <1>3, <1>5, <1>6, <1>10 DEF ExactBookkeeping
<1>12. u.maxPriority \in Int
  <2>1. \A s \in u.stored : priority[s] \in Nat
    BY <1>3, <1>9
  <2> HIDE DEF container, u
  <2> QED BY <1>10, <2>1 DEF NoMatch
<1>13. u \in MITree
  <2> DEFINE t1 == [t EXCEPT !.stored = t.stored \ {r}]
             t2 == [t1 EXCEPT !.priorityContainer = container]
             t3 == [t2 EXCEPT !.numRules = t.numRules - 1]
  <2>1. t1 \in MITree
    BY DEF MITree
  <2>2. t2 \in MITree
    <3> HIDE DEF t1, container
    <3> QED BY <1>7, <2>1 DEF MITree
  <2>3. t3 \in MITree
    <3> HIDE DEF t2
    <3> QED BY <1>2, <2>2 DEF MITree
  <2>4. u = [t3 EXCEPT !.maxPriority = u.maxPriority]
    BY DEF Deletion, MITree
  <2> HIDE DEF t3, u
  <2> QED BY <1>12, <2>3, <2>4 DEF MITree
<1>14. ~DeleteChangesPriority(t, r) => u.maxPriority = t.maxPriority
  BY <1>3 DEF DeleteChangesPriority
<1>15. u.stored = {} => DeleteChangesPriority(t, r)
  BY <1>5 DEF DeleteChangesPriority
<1> HIDE DEF container, u
<1> QED BY <1>3, <1>11, <1>13, <1>14, <1>15 DEF u

\* The reconstruction hook touches nothing but the maturity flag.
LEMMA ReconstructExact ==
  ASSUME NEW t \in MITree, ExactBookkeeping(t)
  PROVE  LET u == ReconstructIfNumRulesLessThanOrEqualTo(t)
         IN  /\ u \in MITree
             /\ u.stored = t.stored /\ u.fieldOrder = t.fieldOrder
             /\ u.maxPriority = t.maxPriority
             /\ ExactBookkeeping(u)
<1> DEFINE u == ReconstructIfNumRulesLessThanOrEqualTo(t)
<1>1. /\ u.stored = t.stored /\ u.fieldOrder = t.fieldOrder
      /\ u.priorityContainer = t.priorityContainer /\ u.numRules = t.numRules
      /\ u.maxPriority = t.maxPriority
  BY DEF MITree, ReconstructIfNumRulesLessThanOrEqualTo
<1>2. u \in MITree
  BY DEF MITree, ReconstructIfNumRulesLessThanOrEqualTo
<1> HIDE DEF u
<1>3. ExactBookkeeping(u)
  BY <1>1 DEF ExactBookkeeping
<1> QED BY <1>1, <1>2, <1>3 DEF u

------------------------------------------------------------------------------
(* One tree: its sortability                                               *)

\* Sortable does not depend on which of the two rules comes first.
LEMMA SortableSymmetric ==
  ASSUME NEW fo, NEW r, NEW s, Sortable(fo, r, s)
  PROVE  Sortable(fo, s, r)
BY DEF Sortable, Identical, Disjoint

\* A rule is separable from itself: its intervals are identical.
LEMMA SortableReflexive ==
  ASSUME NEW fo, NEW r
  PROVE  Sortable(fo, r, r)
BY DEF Sortable, Identical

\* CanInsertRule is what keeps a tree sortable when a rule is added.
LEMMA SortableInsert ==
  ASSUME NEW t, NEW u, NEW r, SortableTree(t), CanInsertRule(t, r),
         u.stored = t.stored \cup {r}, u.fieldOrder = t.fieldOrder
  PROVE  SortableTree(u)
<1>1. SUFFICES ASSUME NEW a \in t.stored \cup {r}, NEW b \in t.stored \cup {r}
               PROVE  Sortable(t.fieldOrder, a, b)
  BY DEF SortableTree
<1>2. CASE a \in t.stored /\ b \in t.stored
  BY <1>2 DEF SortableTree
<1>3. CASE a = r /\ b \in t.stored
  BY <1>3 DEF CanInsertRule
<1>4. CASE a \in t.stored /\ b = r
  BY <1>4, SortableSymmetric DEF CanInsertRule
<1>5. CASE a = r /\ b = r
  BY <1>5, SortableReflexive
<1> QED BY <1>2, <1>3, <1>4, <1>5

------------------------------------------------------------------------------
(* The inductive invariant                                                 *)

StoredIn(n) == UNION {heap[mitrees[k]].stored : k \in 1 .. n}

\* Inside a classification: the trees already queried have given their best
\* answer, and none of them has a maximal priority below it.
LoopInv ==
    pc # "ready" =>
        /\ at <= Len(mitrees) + 1 /\ query = at - 1
        /\ IsBestPriority(result, StoredIn(at - 1), packet)
        /\ \A k \in 1 .. at - 1 : MaxPriority(mitrees[k]) >= result
        /\ pc = "return" => at > Len(mitrees) \/ result > MaxPriority(mitrees[at])

IInv ==
    /\ TypeOK
    /\ SortedByMaxPriority
    /\ TreesAreOwned
    /\ RulesAreIndexed
    /\ BookkeepingIsExact
    /\ TreesAreSortable
    /\ LoopInv

------------------------------------------------------------------------------
(* The same facts about any heap and any vectors, for the steps that build *)
(* new ones                                                                *)

Heap == [Ptr -> MITree \cup {Freed}]
LiveIn(h) == {t \in Ptr : h[t] # Freed}
Pair == [rule : Rule, tree : Ptr]

GoodTrees(h) ==
    \A t \in LiveIn(h) : h[t].stored # {} /\ ExactBookkeeping(h[t]) /\ SortableTree(h[t])

Ordered(s, h) ==
    \A i, j \in DOMAIN s : i < j => h[s[i]].maxPriority >= h[s[j]].maxPriority

Indexed(rs, h) ==
    /\ \A i \in DOMAIN rs : rs[i].tree \in LiveIn(h) /\ rs[i].rule \in h[rs[i].tree].stored
    /\ \A t \in LiveIn(h) : \A r \in h[t].stored :
          \E i \in DOMAIN rs : rs[i] = [rule |-> r, tree |-> t]
    /\ \A i, j \in DOMAIN rs : rs[i].rule = rs[j].rule => i = j

TablesInv(h, s, rs) ==
    /\ h \in Heap /\ s \in Seq(Ptr) /\ rs \in Seq(Pair)
    /\ GoodTrees(h)
    /\ Distinct(s) /\ Elements(s) = LiveIn(h) /\ Ordered(s, h)
    /\ Indexed(rs, h)

CallTypeOK ==
    /\ pc \in {"ready", "loop", "return"}
    /\ packet \in Packet \cup {NoPacket}
    /\ (pc = "ready") <=> (packet = NoPacket)
    /\ at \in Nat \ {0} /\ query \in Nat /\ result \in Int

\* The invariant splits into the part about the tables and the part about the call.
LEMMA IInvSplit ==
  IInv <=> TablesInv(heap, mitrees, rules) /\ CallTypeOK /\ LoopInv
BY DEF IInv, TypeOK, SortedByMaxPriority, MaxPriority, TreesAreOwned, Live, RulesAreIndexed,
       BookkeepingIsExact, TreesAreSortable, TablesInv, Heap, LiveIn, Pair, GoodTrees,
       Distinct, Elements, Ordered, Indexed, CallTypeOK

\* What a living address holds is an MITree.
LEMMA LiveIsATree ==
  ASSUME NEW h \in Heap, NEW t \in LiveIn(h)
  PROVE  h[t] \in MITree /\ h[t].maxPriority \in Int
BY DEF Heap, LiveIn, MITree

\* No MITree is the Freed marker.
LEMMA TreeIsNotFreed == \A tree \in MITree : tree # Freed
BY PtrAssumption

\* The sort rearranges a vector of distinct pointers into a decreasing one.
LEMMA SortProperties ==
  ASSUME NEW h \in Heap, NEW s \in Seq(Ptr), Elements(s) \subseteq LiveIn(h), Distinct(s),
         NEW z \in InsertionSortMITrees(s, h)
  PROVE  z \in Seq(Ptr) /\ Distinct(z) /\ Elements(z) = Elements(s) /\ Ordered(z, h)
<1>1. PICK f \in Bijection(DOMAIN s, DOMAIN s) :
        /\ z = [i \in DOMAIN s |-> s[f[i]]]
        /\ \A i, j \in DOMAIN s : i < j =>
              \/ h[s[f[i]]].maxPriority > h[s[f[j]]].maxPriority
              \/ h[s[f[i]]].maxPriority = h[s[f[j]]].maxPriority /\ f[i] < f[j]
  BY DEF InsertionSortMITrees
<1>2. /\ z \in Seq(Ptr) /\ DOMAIN z = DOMAIN s /\ \A i \in DOMAIN s : z[i] = s[f[i]]
      /\ Distinct(z) /\ Elements(z) = Elements(s)
  BY <1>1, PermutationProperties
<1>3. Ordered(z, h)
  <2>1. \A i \in DOMAIN s : h[z[i]].maxPriority \in Int
    BY <1>2, LiveIsATree DEF Elements
  <2>2. \A i, j \in DOMAIN s : i < j =>
           \/ h[z[i]].maxPriority > h[z[j]].maxPriority
           \/ h[z[i]].maxPriority = h[z[j]].maxPriority
    BY <1>1, <1>2
  <2> QED BY <1>2, <2>1, <2>2 DEF Ordered
<1> QED BY <1>2, <1>3

\* A vector that needs no sorting is left alone; any other is sorted.
LEMMA SortIfProperties ==
  ASSUME NEW h \in Heap, NEW s \in Seq(Ptr), Elements(s) \subseteq LiveIn(h), Distinct(s),
         NEW change \in BOOLEAN, ~change => Ordered(s, h),
         NEW z \in SortIf(change, s, h)
  PROVE  z \in Seq(Ptr) /\ Distinct(z) /\ Elements(z) = Elements(s) /\ Ordered(z, h)
<1>1. CASE change
  BY <1>1, SortProperties DEF SortIf
<1>2. CASE ~change
  BY <1>2 DEF SortIf
<1> QED BY <1>1, <1>2

------------------------------------------------------------------------------
(* The vector of pairs                                                     *)

\* A rule without a pair is in no tree.
LEMMA RuleNotInUseIsNotStored ==
  ASSUME NEW h \in Heap, NEW rs \in Seq(Pair), Indexed(rs, h),
         NEW r, r \notin {rs[i].rule : i \in DOMAIN rs}
  PROVE  \A t \in LiveIn(h) : r \notin h[t].stored
BY DEF Indexed

\* push_back of a new pair, when its tree has just got the rule.
LEMMA AppendIndexed ==
  ASSUME NEW h \in Heap, NEW rs \in Seq(Pair), Indexed(rs, h),
         NEW r \in Rule, r \notin {rs[i].rule : i \in DOMAIN rs},
         NEW t \in Ptr, NEW g \in Heap, t \in LiveIn(g),
         \A u \in Ptr : u # t => g[u] = h[u],
         t \in LiveIn(h) => g[t].stored = h[t].stored \cup {r},
         t \notin LiveIn(h) => g[t].stored = {r}
  PROVE  LET z == Append(rs, [rule |-> r, tree |-> t])
         IN  z \in Seq(Pair) /\ Indexed(z, g)
<1> DEFINE pair == [rule |-> r, tree |-> t]
           z == Append(rs, pair)
<1>1. pair \in Pair /\ pair.rule = r /\ pair.tree = t
  BY DEF Pair
<1>2. z \in Seq(Pair) /\ Len(z) = Len(rs) + 1 /\ z[Len(z)] = pair
      /\ \A i \in 1 .. Len(rs) : z[i] = rs[i]
  <2> HIDE DEF pair
  <2> QED BY <1>1, AppendProperties
<1>3. Len(rs) \in Nat /\ DOMAIN rs = 1 .. Len(rs) /\ DOMAIN z = 1 .. Len(rs) + 1
  <2>1. Len(rs) \in Nat /\ DOMAIN rs = 1 .. Len(rs)
    OBVIOUS
  <2>2. DOMAIN z = 1 .. Len(z)
    <3> HIDE DEF z
    <3> QED BY <1>2, LenProperties
  <2> HIDE DEF z
  <2> QED BY <1>2, <2>1, <2>2
<1>4. \A i \in DOMAIN z : \/ i \in DOMAIN rs /\ z[i] = rs[i]
                          \/ i = Len(z) /\ z[i] = pair
  <2> HIDE DEF z
  <2> QED BY <1>2, <1>3
<1>5. \A i \in DOMAIN rs : rs[i] \in Pair /\ rs[i].tree \in Ptr
  <2>1. \A i \in DOMAIN rs : rs[i] \in Pair
    BY ElementOfSeq
  <2> QED BY <2>1 DEF Pair
<1> HIDE DEF z, pair
<1>6. \A i \in DOMAIN z : z[i].tree \in LiveIn(g) /\ z[i].rule \in g[z[i].tree].stored
  <2>1. \A i \in DOMAIN rs : rs[i].tree \in LiveIn(g) /\ rs[i].rule \in g[rs[i].tree].stored
    BY <1>5 DEF Indexed, LiveIn
  <2>2. r \in g[t].stored
    OBVIOUS
  <2> QED BY <1>1, <1>4, <2>1, <2>2
<1>7. ASSUME NEW u \in LiveIn(g), NEW q \in g[u].stored
      PROVE  \E i \in DOMAIN z : z[i] = [rule |-> q, tree |-> u]
  <2>1. CASE u = t /\ q = r
    BY <1>2, <1>3, <2>1 DEF pair
  <2>2. CASE ~(u = t /\ q = r)
    <3>1. u \in LiveIn(h) /\ q \in h[u].stored
      BY <2>2 DEF LiveIn
    <3>2. PICK i \in DOMAIN rs : rs[i] = [rule |-> q, tree |-> u]
      BY <3>1 DEF Indexed
    <3> QED BY <1>2, <1>3, <3>2
  <2> QED BY <2>1, <2>2
<1>8. \A i, j \in DOMAIN z : z[i].rule = z[j].rule => i = j
  BY <1>1, <1>4 DEF Indexed
<1> QED BY <1>2, <1>6, <1>7, <1>8 DEF Indexed, z, pair

\* What swap-with-last leaves in the vector.
LEMMA MoveLastIntoProperties ==
  ASSUME NEW S, NEW s \in Seq(S), NEW i \in DOMAIN s
  PROVE  LET z == MoveLastInto(s, i)
         IN  /\ z \in Seq(S) /\ DOMAIN z = 1 .. Len(s) - 1
             /\ \A k \in DOMAIN z : z[k] = IF k = i THEN s[Len(s)] ELSE s[k]
BY RemovalProperties DEF MoveLastInto

\* Removing the pair at i, when its tree has just lost the rule.
LEMMA RemoveIndexed ==
  ASSUME NEW h \in Heap, NEW rs \in Seq(Pair), Indexed(rs, h), NEW i \in DOMAIN rs,
         NEW t, t = rs[i].tree, NEW r, r = rs[i].rule,
         NEW g \in Heap,
         \A u \in Ptr : u # t => g[u] = h[u],
         t \in LiveIn(g) => g[t].stored = h[t].stored \ {r},
         t \notin LiveIn(g) => h[t].stored \ {r} = {}
  PROVE  MoveLastInto(rs, i) \in Seq(Pair) /\ Indexed(MoveLastInto(rs, i), g)
<1> DEFINE z == MoveLastInto(rs, i)
           from(k) == IF k = i THEN Len(rs) ELSE k
<1>1. Len(rs) \in Nat \ {0} /\ DOMAIN rs = 1 .. Len(rs)
  OBVIOUS
<1>2. z \in Seq(Pair) /\ DOMAIN z = 1 .. Len(rs) - 1
      /\ \A k \in DOMAIN z : z[k] = rs[from(k)]
  BY MoveLastIntoProperties
<1>3. \A k \in DOMAIN z : from(k) \in DOMAIN rs /\ from(k) # i
  BY <1>1, <1>2
<1>4. \A k, j \in DOMAIN z : from(k) = from(j) => k = j
  BY <1>1, <1>2
<1>5. \A j \in DOMAIN rs : j # i => \E k \in DOMAIN z : from(k) = j
  <2> SUFFICES ASSUME NEW j \in DOMAIN rs, j # i PROVE \E k \in DOMAIN z : from(k) = j
    OBVIOUS
  <2>1. CASE j = Len(rs)
    BY <1>1, <1>2, <2>1
  <2>2. CASE j # Len(rs)
    BY <1>1, <1>2, <2>2
  <2> QED BY <2>1, <2>2
<1>6. \A j \in DOMAIN rs : rs[j].tree \in Ptr
  <2>1. \A j \in DOMAIN rs : rs[j] \in Pair
    BY ElementOfSeq
  <2> QED BY <2>1 DEF Pair
<1> HIDE DEF z, from
<1>7. ASSUME NEW j \in DOMAIN rs, j # i
      PROVE  rs[j].tree \in LiveIn(g) /\ rs[j].rule \in g[rs[j].tree].stored
  <2>1. rs[j].rule # r
    BY <1>7 DEF Indexed
  <2>2. rs[j].tree \in LiveIn(h) /\ rs[j].rule \in h[rs[j].tree].stored
    BY DEF Indexed
  <2>3. CASE rs[j].tree = t
    BY <2>1, <2>2, <2>3
  <2>4. CASE rs[j].tree # t
    BY <1>6, <2>2, <2>4 DEF LiveIn
  <2> QED BY <2>3, <2>4
<1>8. ASSUME NEW u \in LiveIn(g), NEW q \in g[u].stored
      PROVE  \E k \in DOMAIN z : z[k] = [rule |-> q, tree |-> u]
  <2>1. t \in LiveIn(h)
    BY DEF Indexed
  <2>2. u \in LiveIn(h) /\ q \in h[u].stored /\ ~(u = t /\ q = r)
    BY <2>1 DEF LiveIn
  <2>3. PICK j \in DOMAIN rs : rs[j] = [rule |-> q, tree |-> u]
    BY <2>2 DEF Indexed
  <2>4. j # i
    BY <2>2, <2>3
  <2> QED BY <1>2, <1>5, <2>3, <2>4
<1>9. \A k \in DOMAIN z : z[k].tree \in LiveIn(g) /\ z[k].rule \in g[z[k].tree].stored
  BY <1>2, <1>3, <1>7
<1>10. \A k, j \in DOMAIN z : z[k].rule = z[j].rule => k = j
  BY <1>2, <1>3, <1>4 DEF Indexed
<1>11. Indexed(z, g)
  BY <1>8, <1>9, <1>10 DEF Indexed
<1> QED BY <1>2, <1>11 DEF z

------------------------------------------------------------------------------
(* Updates keep the tables consistent                                      *)

\* Insertion into an existing tree (PartitionSort.cpp:7-21) keeps heap and vectors consistent.
LEMMA InsertIntoFirstFitKeepsTables ==
  ASSUME TablesInv(heap, mitrees, rules), NEW r \in Rule, r \notin InUse, InsertIntoFirstFit(r)
  PROVE  TablesInv(heap', mitrees', rules')
<1>1. PICK k \in DOMAIN mitrees :
        LET t == mitrees[k]
            h == [heap EXCEPT ![t] = Insertion(@, r)]
        IN  /\ CanInsertRule(heap[t], r)
            /\ mitrees' \in SortIf(InsertChangesPriority(heap[t], r), mitrees, h)
            /\ heap' = [h EXCEPT ![t] = ReconstructIfNumRulesLessThanOrEqualTo(@)]
            /\ rules' = Append(rules, [rule |-> r, tree |-> t])
  BY DEF InsertIntoFirstFit
<1> DEFINE t == mitrees[k]
           u == Insertion(heap[t], r)
           v == ReconstructIfNumRulesLessThanOrEqualTo(u)
           h == [heap EXCEPT ![t] = u]
           change == InsertChangesPriority(heap[t], r)
<1>2. /\ heap \in Heap /\ mitrees \in Seq(Ptr) /\ rules \in Seq(Pair)
      /\ GoodTrees(heap) /\ Distinct(mitrees) /\ Elements(mitrees) = LiveIn(heap)
      /\ Ordered(mitrees, heap) /\ Indexed(rules, heap)
  BY DEF TablesInv
<1>3. t \in Ptr /\ t \in LiveIn(heap)
  <2>1. t \in Elements(mitrees)
    BY DEF Elements
  <2> QED BY <1>2, <2>1 DEF LiveIn
<1>4. heap[t] \in MITree /\ ExactBookkeeping(heap[t]) /\ SortableTree(heap[t])
  BY <1>2, <1>3, LiveIsATree DEF GoodTrees
<1>5. r \notin heap[t].stored
  BY <1>2, <1>3, RuleNotInUseIsNotStored DEF InUse
<1>6. /\ u \in MITree /\ u.stored = heap[t].stored \cup {r} /\ u.fieldOrder = heap[t].fieldOrder
      /\ ExactBookkeeping(u) /\ (~change => u.maxPriority = heap[t].maxPriority)
  BY <1>4, <1>5, InsertionExact
<1>7. /\ v \in MITree /\ v.stored = u.stored /\ v.fieldOrder = u.fieldOrder
      /\ v.maxPriority = u.maxPriority /\ ExactBookkeeping(v)
  <2> HIDE DEF u
  <2> QED BY <1>6, ReconstructExact
<1>8. CanInsertRule(heap[t], r)
  BY <1>1
<1>9. SortableTree(v)
  <2>1. v.stored = heap[t].stored \cup {r} /\ v.fieldOrder = heap[t].fieldOrder
    BY <1>6, <1>7
  <2> HIDE DEF v
  <2> QED BY <1>4, <1>8, <2>1, SortableInsert
<1> HIDE DEF u, v
<1>10. h \in Heap /\ h[t] = u /\ \A p \in Ptr : p # t => h[p] = heap[p]
  BY <1>2, <1>3, <1>6 DEF Heap
<1>11. /\ heap' \in Heap /\ heap'[t] = v
       /\ \A p \in Ptr : p # t => heap'[p] = heap[p]
       /\ \A p \in Ptr : p # t => heap'[p] = h[p]
  BY <1>1, <1>2, <1>3, <1>7, <1>10 DEF Heap, u, v
<1>12. LiveIn(h) = LiveIn(heap) /\ LiveIn(heap') = LiveIn(heap)
  BY <1>3, <1>6, <1>7, <1>10, <1>11, TreeIsNotFreed DEF LiveIn
<1>13. ~change => Ordered(mitrees, h)
  BY <1>2, <1>6, <1>10 DEF Ordered
<1>14. mitrees' \in SortIf(change, mitrees, h) /\ change \in BOOLEAN
  BY <1>1 DEF u, InsertChangesPriority
<1> HIDE DEF h, change
<1>15. /\ mitrees' \in Seq(Ptr) /\ Distinct(mitrees') /\ Elements(mitrees') = LiveIn(heap')
       /\ Ordered(mitrees', h)
  BY <1>2, <1>10, <1>12, <1>13, <1>14, SortIfProperties
<1>16. Ordered(mitrees', heap')
  <2>1. \A p \in Ptr : heap'[p].maxPriority = h[p].maxPriority
    BY <1>7, <1>10, <1>11
  <2> QED BY <1>15, <2>1 DEF Ordered
<1>17. GoodTrees(heap')
  <2>1. v.stored # {}
    BY <1>6, <1>7
  <2> QED BY <1>2, <1>7, <1>9, <1>11, <1>12, <2>1 DEF GoodTrees, LiveIn
<1>18. rules' \in Seq(Pair) /\ Indexed(rules', heap')
  <2>1. rules' = Append(rules, [rule |-> r, tree |-> t])
    BY <1>1
  <2>2. t \in LiveIn(heap') /\ heap'[t].stored = heap[t].stored \cup {r}
    BY <1>3, <1>6, <1>7, <1>11, <1>12
  <2> HIDE DEF t
  <2> QED BY <1>2, <1>3, <1>11, <2>1, <2>2, AppendIndexed DEF InUse
<1> QED BY <1>11, <1>15, <1>16, <1>17, <1>18 DEF TablesInv

\* Insertion into a new tree (PartitionSort.cpp:22-28) keeps heap and vectors consistent.
LEMMA InsertIntoNewTreeKeepsTables ==
  ASSUME TablesInv(heap, mitrees, rules), NEW r \in Rule, r \notin InUse, InsertIntoNewTree(r)
  PROVE  TablesInv(heap', mitrees', rules')
<1>1. PICK t \in Ptr \ Live, fo \in GetFieldOrderByRule(r) :
        LET h == [heap EXCEPT ![t] = Insertion(NewTree(fo), r)]
        IN  /\ heap' = h
            /\ mitrees' \in InsertionSortMITrees(Append(mitrees, t), h)
            /\ rules' = Append(rules, [rule |-> r, tree |-> t])
  BY DEF InsertIntoNewTree
<1> DEFINE u == Insertion(NewTree(fo), r)
           s == Append(mitrees, t)
<1>2. /\ heap \in Heap /\ mitrees \in Seq(Ptr) /\ rules \in Seq(Pair)
      /\ GoodTrees(heap) /\ Distinct(mitrees) /\ Elements(mitrees) = LiveIn(heap)
      /\ Indexed(rules, heap)
  BY DEF TablesInv
<1>3. t \in Ptr /\ t \notin LiveIn(heap) /\ fo \in FieldOrder
  BY <1>1 DEF Live, LiveIn, GetFieldOrderByRule
<1>4. NewTree(fo) \in MITree /\ ExactBookkeeping(NewTree(fo)) /\ SortableTree(NewTree(fo))
  BY <1>3, NewTreeExact
<1>5. NewTree(fo).stored = {}
  BY DEF NewTree
<1>6. /\ u \in MITree /\ u.stored = NewTree(fo).stored \cup {r}
      /\ u.fieldOrder = NewTree(fo).fieldOrder /\ ExactBookkeeping(u)
  BY <1>4, <1>5, InsertionExact
<1>7. SortableTree(u)
  <2>1. CanInsertRule(NewTree(fo), r)
    BY <1>5 DEF CanInsertRule
  <2> HIDE DEF u
  <2> QED BY <1>4, <1>6, <2>1, SortableInsert
<1>8. heap' = [heap EXCEPT ![t] = u] /\ mitrees' \in InsertionSortMITrees(s, heap')
      /\ rules' = Append(rules, [rule |-> r, tree |-> t])
  BY <1>1
<1>9. u.stored = {r}
  BY <1>5, <1>6
<1> HIDE DEF u
<1>10. heap' \in Heap /\ heap'[t] = u /\ \A p \in Ptr : p # t => heap'[p] = heap[p]
  BY <1>2, <1>3, <1>6, <1>8 DEF Heap
<1>11. LiveIn(heap') = LiveIn(heap) \cup {t}
  BY <1>3, <1>6, <1>10, TreeIsNotFreed DEF LiveIn
<1>12. s \in Seq(Ptr) /\ Distinct(s) /\ Elements(s) = LiveIn(heap')
  <2>1. /\ s \in Seq(Ptr) /\ Len(s) = Len(mitrees) + 1 /\ s[Len(mitrees) + 1] = t
        /\ \A k \in 1 .. Len(mitrees) : s[k] = mitrees[k]
    BY <1>2, <1>3, AppendProperties
  <2>2. DOMAIN mitrees = 1 .. Len(mitrees) /\ Len(mitrees) \in Nat
    BY <1>2
  <2>3. DOMAIN s = 1 .. Len(mitrees) + 1
    <3> HIDE DEF s
    <3> QED BY <2>1, LenProperties
  <2>4. \A k \in DOMAIN s : \/ k \in DOMAIN mitrees /\ s[k] = mitrees[k]
                            \/ k = Len(mitrees) + 1 /\ s[k] = t
    <3> HIDE DEF s
    <3> QED BY <2>1, <2>2, <2>3
  <2> HIDE DEF s
  <2>5. \A k \in DOMAIN mitrees : mitrees[k] # t
    BY <1>2, <1>3 DEF Elements
  <2>6. Distinct(s)
    BY <1>2, <2>4, <2>5 DEF Distinct
  <2>7. Elements(s) = Elements(mitrees) \cup {t}
    <3>1. Elements(s) \subseteq Elements(mitrees) \cup {t}
      BY <2>4 DEF Elements
    <3>2. \A k \in DOMAIN mitrees : k \in DOMAIN s /\ s[k] = mitrees[k]
      BY <2>1, <2>2, <2>3
    <3>3. Len(mitrees) + 1 \in DOMAIN s
      BY <2>2, <2>3
    <3> QED BY <2>1, <3>1, <3>2, <3>3 DEF Elements
  <2> QED BY <1>2, <1>11, <2>1, <2>6, <2>7
<1>13. /\ mitrees' \in Seq(Ptr) /\ Distinct(mitrees') /\ Elements(mitrees') = LiveIn(heap')
       /\ Ordered(mitrees', heap')
  <2> HIDE DEF s
  <2> QED BY <1>8, <1>10, <1>12, SortProperties
<1>14. GoodTrees(heap')
  BY <1>2, <1>6, <1>7, <1>9, <1>10, <1>11 DEF GoodTrees, LiveIn
<1>15. rules' \in Seq(Pair) /\ Indexed(rules', heap')
  BY <1>2, <1>3, <1>8, <1>9, <1>10, <1>11, AppendIndexed DEF InUse
<1> QED BY <1>10, <1>13, <1>14, <1>15 DEF TablesInv

\* In a decreasing vector the only tree with maximal priority -1 is the last:
\* what pop_back removes.
LEMMA EmptiedTreeIsLast ==
  ASSUME NEW h \in Heap, NEW s \in Seq(Ptr), Ordered(s, h), Elements(s) = LiveIn(h),
         NEW t \in LiveIn(h), h[t].maxPriority = NoMatch,
         \A p \in LiveIn(h) : p # t => h[p].maxPriority >= 0,
         Distinct(s)
  PROVE  /\ Len(s) > 0 /\ s[Len(s)] = t
         /\ LET z == SubSeq(s, 1, Len(s) - 1)
            IN  /\ z \in Seq(Ptr) /\ Distinct(z) /\ Ordered(z, h)
                /\ Elements(z) = LiveIn(h) \ {t}
<1>1. Len(s) \in Nat /\ DOMAIN s = 1 .. Len(s)
  OBVIOUS
<1>2. PICK k \in DOMAIN s : s[k] = t
  BY DEF Elements
<1>3. Len(s) > 0 /\ Len(s) \in DOMAIN s
  BY <1>1, <1>2
<1>4. s[Len(s)] = t
  <2> SUFFICES ASSUME s[Len(s)] # t PROVE FALSE
    OBVIOUS
  <2>1. k < Len(s)
    BY <1>1, <1>2
  <2>2. h[t].maxPriority >= h[s[Len(s)]].maxPriority
    BY <1>2, <1>3, <2>1 DEF Ordered
  <2>3. s[Len(s)] \in LiveIn(h)
    BY <1>3 DEF Elements
  <2>4. h[s[Len(s)]].maxPriority >= 0 /\ h[s[Len(s)]].maxPriority \in Int
    BY <2>3, LiveIsATree
  <2> QED BY <2>2, <2>4 DEF NoMatch
<1> DEFINE z == SubSeq(s, 1, Len(s) - 1)
<1>5. z \in Seq(Ptr) /\ Len(z) = Len(s) - 1 /\ \A j \in 1 .. Len(s) - 1 : z[j] = s[j]
  BY <1>1, <1>3
<1>6. DOMAIN z = 1 .. Len(s) - 1
  <2> HIDE DEF z
  <2> QED BY <1>5, LenProperties
<1> HIDE DEF z
<1>7. \A j \in DOMAIN z : j \in DOMAIN s /\ z[j] = s[j] /\ j # Len(s)
  BY <1>1, <1>5, <1>6
<1>8. Distinct(z) /\ Ordered(z, h)
  BY <1>7 DEF Distinct, Ordered
<1>9. Elements(z) = LiveIn(h) \ {t}
  <2>1. \A j \in DOMAIN s : j # Len(s) => j \in DOMAIN z
    BY <1>1, <1>6
  <2>2. \A j \in DOMAIN s : s[j] = t => j = Len(s)
    BY <1>3, <1>4 DEF Distinct
  <2> QED BY <1>4, <1>7, <2>1, <2>2 DEF Elements
<1> QED BY <1>3, <1>4, <1>5, <1>8, <1>9 DEF z

\* In a non-empty tree with exact bookkeeping the cached maximum bounds every rule.
LEMMA MaxPriorityOfGoodTree ==
  ASSUME NEW tree \in MITree, ExactBookkeeping(tree), tree.stored # {}
  PROVE  tree.maxPriority \in Nat /\ \A r \in tree.stored : priority[r] <= tree.maxPriority
BY RulesAssumption DEF ExactBookkeeping, MITree

\* Deletion, with the pop of an emptied tree (PartitionSort.cpp:32-60), keeps heap and vectors consistent.
LEMMA DeleteRuleKeepsTables ==
  ASSUME TablesInv(heap, mitrees, rules), NEW i \in DOMAIN rules, DeleteRule(i)
  PROVE  TablesInv(heap', mitrees', rules')
<1> DEFINE r == rules[i].rule
           t == rules[i].tree
           u == Deletion(heap[t], r)
           h == [heap EXCEPT ![t] = u]
           change == DeleteChangesPriority(heap[t], r)
<1>1. PICK s \in SortIf(change, mitrees, h) :
        IF Empty(h[t])
        THEN mitrees' = SubSeq(s, 1, Len(s) - 1) /\ heap' = [h EXCEPT ![t] = Freed]
        ELSE mitrees' = s /\ heap' = h
  BY DEF DeleteRule
<1>2. rules' = MoveLastInto(rules, i)
  BY DEF DeleteRule
<1>3. /\ heap \in Heap /\ mitrees \in Seq(Ptr) /\ rules \in Seq(Pair)
      /\ GoodTrees(heap) /\ Distinct(mitrees) /\ Elements(mitrees) = LiveIn(heap)
      /\ Ordered(mitrees, heap) /\ Indexed(rules, heap)
  BY DEF TablesInv
<1>4. t \in LiveIn(heap) /\ t \in Ptr /\ r \in heap[t].stored
  BY <1>3 DEF Indexed, LiveIn
<1>5. heap[t] \in MITree /\ ExactBookkeeping(heap[t]) /\ SortableTree(heap[t])
  BY <1>3, <1>4, LiveIsATree DEF GoodTrees
<1>6. /\ u \in MITree /\ u.stored = heap[t].stored \ {r} /\ u.fieldOrder = heap[t].fieldOrder
      /\ ExactBookkeeping(u)
      /\ (~change => u.maxPriority = heap[t].maxPriority)
      /\ (u.stored = {} => change)
  <2> HIDE DEF t, r
  <2> QED BY <1>4, <1>5, DeletionExact
<1>7. SortableTree(u)
  BY <1>5, <1>6 DEF SortableTree
<1> HIDE DEF u, t, r
<1>8. h \in Heap /\ h[t] = u /\ \A p \in Ptr : p # t => h[p] = heap[p]
  BY <1>3, <1>4, <1>6 DEF Heap
<1>9. LiveIn(h) = LiveIn(heap)
  BY <1>4, <1>6, <1>8, TreeIsNotFreed DEF LiveIn
<1>10. ~change => Ordered(mitrees, h)
  BY <1>3, <1>6, <1>8 DEF Ordered
<1>11. change \in BOOLEAN
  BY DEF DeleteChangesPriority
<1>12. s \in Seq(Ptr) /\ Distinct(s) /\ Elements(s) = LiveIn(h) /\ Ordered(s, h)
  <2> HIDE DEF h, change
  <2> QED BY <1>1, <1>3, <1>8, <1>9, <1>10, <1>11, SortIfProperties
<1>13. \A p \in LiveIn(h) : p # t =>
          h[p].stored # {} /\ ExactBookkeeping(h[p]) /\ SortableTree(h[p]) /\ h[p] \in MITree
  BY <1>3, <1>8, <1>9, LiveIsATree DEF GoodTrees, LiveIn
<1> HIDE DEF h, change
<1>14. CASE ~Empty(u)
  <2>1. mitrees' = s /\ heap' = h
    BY <1>1, <1>8, <1>14
  <2>2. u.stored # {}
    BY <1>6, <1>14, EmptyIsExact
  <2>3. GoodTrees(h)
    BY <1>6, <1>7, <1>8, <1>13, <2>2 DEF GoodTrees
  <2>4. t \in LiveIn(h)
    BY <1>4, <1>9
  <2>5. rules' \in Seq(Pair) /\ Indexed(rules', h)
    BY <1>2, <1>3, <1>6, <1>8, <2>4, RemoveIndexed DEF r, t
  <2> QED BY <1>8, <1>12, <2>1, <2>3, <2>5 DEF TablesInv
<1>15. CASE Empty(u)
  <2>1. mitrees' = SubSeq(s, 1, Len(s) - 1) /\ heap' = [h EXCEPT ![t] = Freed]
    BY <1>1, <1>8, <1>15
  <2>2. u.stored = {}
    BY <1>6, <1>15, EmptyIsExact
  <2>3. u.maxPriority = NoMatch
    BY <1>6, <2>2 DEF ExactBookkeeping
  <2>4. \A p \in LiveIn(h) : p # t => h[p].maxPriority >= 0
    BY <1>13, MaxPriorityOfGoodTree
  <2>5. /\ mitrees' \in Seq(Ptr) /\ Distinct(mitrees') /\ Ordered(mitrees', h)
        /\ Elements(mitrees') = LiveIn(h) \ {t}
    BY <1>4, <1>8, <1>9, <1>12, <2>1, <2>3, <2>4, EmptiedTreeIsLast
  <2>6. heap' \in Heap /\ heap'[t] = Freed /\ \A p \in Ptr : p # t => heap'[p] = h[p]
    BY <1>4, <1>8, <2>1 DEF Heap
  <2>7. LiveIn(heap') = LiveIn(h) \ {t}
    BY <1>4, <2>6 DEF LiveIn
  <2>8. Ordered(mitrees', heap')
    <3>1. \A k \in DOMAIN mitrees' : mitrees'[k] \in Ptr /\ mitrees'[k] # t
      BY <2>5 DEF Elements, LiveIn
    <3> QED BY <2>5, <2>6, <3>1 DEF Ordered
  <2>9. GoodTrees(heap')
    BY <1>13, <2>6, <2>7 DEF GoodTrees, LiveIn
  <2>10. rules' \in Seq(Pair) /\ Indexed(rules', heap')
    <3>1. t \notin LiveIn(heap') /\ heap[t].stored \ {r} = {}
      BY <1>6, <2>2, <2>7
    <3>2. \A p \in Ptr : p # t => heap'[p] = heap[p]
      BY <1>8, <2>6
    <3> QED BY <1>2, <1>3, <2>6, <3>1, <3>2, RemoveIndexed DEF r, t
  <2> QED BY <2>5, <2>6, <2>7, <2>8, <2>9, <2>10 DEF TablesInv
<1> QED BY <1>14, <1>15

------------------------------------------------------------------------------
(* Classification                                                          *)

\* One more tree adds that tree's rules to those already searched.
LEMMA StoredInStep ==
  ASSUME NEW n \in Nat, n # 0
  PROVE  StoredIn(n) = StoredIn(n - 1) \cup heap[mitrees[n]].stored
<1>1. 1 .. n = (1 .. n - 1) \cup {n}
  OBVIOUS
<1> QED BY <1>1 DEF StoredIn

\* The rules of the first n trees are rules.
LEMMA StoredInIsRules ==
  ASSUME TablesInv(heap, mitrees, rules), NEW n \in Nat, n <= Len(mitrees)
  PROVE  StoredIn(n) \in SUBSET Rule
<1>1. \A k \in 1 .. n : mitrees[k] \in LiveIn(heap)
  BY DEF TablesInv, Elements
<1>2. \A k \in 1 .. n : heap[mitrees[k]].stored \in SUBSET Rule
  BY <1>1, LiveIsATree DEF TablesInv, MITree
<1> QED BY <1>2 DEF StoredIn

\* Nothing at all is stored beyond the last tree of the vector.
LEMMA StoredInAllIsInUse ==
  ASSUME TablesInv(heap, mitrees, rules)
  PROVE  StoredIn(Len(mitrees)) = InUse
<1>1. /\ Elements(mitrees) = LiveIn(heap) /\ Indexed(rules, heap)
      /\ mitrees \in Seq(Ptr) /\ DOMAIN mitrees = 1 .. Len(mitrees)
  BY DEF TablesInv
<1>2. StoredIn(Len(mitrees)) = UNION {heap[t].stored : t \in LiveIn(heap)}
  BY <1>1 DEF StoredIn, Elements
<1>3. ASSUME NEW t \in LiveIn(heap), NEW r \in heap[t].stored PROVE r \in InUse
  <2>1. PICK i \in DOMAIN rules : rules[i] = [rule |-> r, tree |-> t]
    BY <1>1 DEF Indexed
  <2> QED BY <2>1 DEF InUse
<1>4. ASSUME NEW i \in DOMAIN rules
      PROVE  \E t \in LiveIn(heap) : rules[i].rule \in heap[t].stored
  BY <1>1 DEF Indexed
<1> QED BY <1>2, <1>3, <1>4 DEF InUse

\* A call starts with nothing searched and the answer NoMatch.
LEMMA ClassifyBegins ==
  ASSUME IInv, NEW p \in Packet, ClassifyAPacket(p)
  PROVE  IInv'
<1>1. UNCHANGED tables /\ pc' = "loop" /\ packet' = p /\ at' = 1 /\ result' = NoMatch /\ query' = 0
  BY DEF ClassifyAPacket
<1>2. TablesInv(heap, mitrees, rules)'
  BY <1>1, IInvSplit DEF tables
<1>3. CallTypeOK'
  BY <1>1, PtrAssumption DEF CallTypeOK, NoMatch
<1>4. StoredIn(0)' = {}
  BY DEF StoredIn
<1>5. LoopInv'
  <2>1. IsBestPriority(NoMatch, {}, p)
    BY DEF IsBestPriority, Matching
  <2>2. Len(mitrees)' \in Nat
    BY <1>2 DEF TablesInv
  <2> QED BY <1>1, <1>4, <2>1, <2>2 DEF LoopInv
<1> QED BY <1>2, <1>3, <1>5, IInvSplit, PTL

\* The new answer combines the old one with the queried tree's, and no tree
\* queried so far, this one included, has a smaller maximal priority.
LEMMA QueryNextTreeKeepsInv ==
  ASSUME IInv, QueryNextTree
  PROVE  IInv'
<1>1. TablesInv(heap, mitrees, rules) /\ CallTypeOK /\ LoopInv
  BY IInvSplit
<1> DEFINE t == mitrees[at]
           w == ClassifyInTree(heap[t], packet)
<1>2. /\ pc = "loop" /\ at <= Len(mitrees) /\ ~(result > heap[t].maxPriority)
      /\ query' = query + 1 /\ at' = at + 1 /\ result' = Max({w, result})
      /\ UNCHANGED <<tables, pc, packet>>
  BY DEF QueryNextTree, MaxPriority
<1>3. at \in Nat \ {0} /\ at \in 1 .. Len(mitrees) /\ Len(mitrees) \in Nat
      /\ result \in Int /\ query \in Nat
  BY <1>1, <1>2 DEF TablesInv, CallTypeOK
<1>4. t \in LiveIn(heap)
  BY <1>1, <1>3 DEF TablesInv, Elements
<1>5. heap[t] \in MITree /\ ExactBookkeeping(heap[t]) /\ heap[t].stored # {}
  BY <1>1, <1>4, LiveIsATree DEF TablesInv, GoodTrees
<1>6. heap[t].stored \in SUBSET Rule
  BY <1>5 DEF MITree
<1>7. heap[t].maxPriority \in Nat /\ \A r \in heap[t].stored : priority[r] <= heap[t].maxPriority
  BY <1>5, MaxPriorityOfGoodTree
<1>8. /\ IsBestPriority(w, heap[t].stored, packet)
      /\ w \in Int /\ w <= heap[t].maxPriority
  BY <1>6, <1>7, BestPriorityIsBest DEF ClassifyInTree
<1> HIDE DEF w, t
<1>9. result' = IF w >= result THEN w ELSE result
  BY <1>2, <1>3, <1>8, MaxOfTwo
<1>10. result' \in Int /\ result' <= heap[t].maxPriority
  BY <1>2, <1>3, <1>7, <1>8, <1>9
<1>11. IsBestPriority(result', StoredIn(at), packet)
  <2>1. StoredIn(at - 1) \in SUBSET Rule
    BY <1>1, <1>3, StoredInIsRules
  <2>2. IsBestPriority(result, StoredIn(at - 1), packet)
    BY <1>1, <1>2 DEF LoopInv
  <2>3. IsBestPriority(Max({w, result}), StoredIn(at - 1) \cup heap[t].stored, packet)
    BY <1>3, <1>6, <1>8, <2>1, <2>2, CombineAnswers
  <2>4. StoredIn(at) = StoredIn(at - 1) \cup heap[t].stored
    BY <1>3, StoredInStep DEF t
  <2> QED BY <1>2, <2>3, <2>4
<1>12. \A k \in 1 .. at : heap[mitrees[k]].maxPriority >= result'
  <2> SUFFICES ASSUME NEW k \in 1 .. at PROVE heap[mitrees[k]].maxPriority >= result'
    OBVIOUS
  <2>1. k \in DOMAIN mitrees /\ at \in DOMAIN mitrees
    BY <1>1, <1>3 DEF TablesInv
  <2>2. heap[mitrees[k]].maxPriority \in Int
    BY <1>1, <2>1, LiveIsATree DEF TablesInv, Elements
  <2>3. heap[mitrees[k]].maxPriority >= heap[t].maxPriority
    <3>1. CASE k = at
      BY <1>7, <3>1 DEF t
    <3>2. CASE k < at
      BY <1>1, <2>1, <3>2 DEF TablesInv, Ordered, t
    <3> QED BY <1>3, <3>1, <3>2
  <2> QED BY <1>7, <1>10, <2>2, <2>3
<1>13. UNCHANGED <<heap, mitrees, rules>>
  BY <1>2 DEF tables
<1>14. TablesInv(heap, mitrees, rules)'
  BY <1>1, <1>13
<1>15. CallTypeOK'
  BY <1>1, <1>2, <1>3, <1>10 DEF CallTypeOK
<1>16. LoopInv'
  <2>1. query' = at' - 1 /\ at' <= Len(mitrees)' + 1 /\ at' - 1 = at /\ pc' = "loop"
    BY <1>1, <1>2, <1>3, <1>13 DEF LoopInv
  <2>2. StoredIn(at - 1)' = StoredIn(at)
    BY <1>13, <2>1 DEF StoredIn
  <2>3. IsBestPriority(result', StoredIn(at - 1)', packet')
    BY <1>2, <1>11, <2>2
  <2>4. \A k \in 1 .. at' - 1 : heap'[mitrees'[k]].maxPriority >= result'
    BY <1>12, <1>13, <2>1
  <2> QED BY <2>1, <2>2, <2>3, <2>4 DEF LoopInv, MaxPriority
<1> QED BY <1>14, <1>15, <1>16, IInvSplit, PTL

\* Leaving the loop, by break or at its end, keeps the invariant.
LEMMA LeaveLoopKeepsInv ==
  ASSUME IInv, BreakOut \/ EndOfTrees
  PROVE  IInv'
<1>1. TablesInv(heap, mitrees, rules) /\ CallTypeOK /\ LoopInv
  BY IInvSplit
<1>2. /\ pc = "loop" /\ pc' = "return" /\ UNCHANGED <<tables, packet, at, result, query>>
      /\ at > Len(mitrees) \/ result > MaxPriority(mitrees[at])
  BY DEF BreakOut, EndOfTrees
<1>3. TablesInv(heap, mitrees, rules)'
  BY <1>1, <1>2 DEF tables
<1>4. CallTypeOK'
  BY <1>1, <1>2 DEF CallTypeOK
<1>5. LoopInv'
  BY <1>1, <1>2 DEF LoopInv, StoredIn, MaxPriority, tables
<1> QED BY <1>3, <1>4, <1>5, IInvSplit, PTL

\* Returning the answer keeps the invariant.
LEMMA ReturnKeepsInv ==
  ASSUME IInv, Return
  PROVE  IInv'
<1>1. UNCHANGED tables /\ pc' = "ready" /\ packet' = NoPacket /\ at' = 1
      /\ result' = NoMatch /\ query' = 0
  BY DEF Return
<1>2. TablesInv(heap, mitrees, rules)'
  BY <1>1, IInvSplit DEF tables
<1>3. CallTypeOK'
  BY <1>1 DEF CallTypeOK, NoMatch
<1>4. LoopInv'
  BY <1>1 DEF LoopInv
<1> QED BY <1>2, <1>3, <1>4, IInvSplit, PTL

\* No update runs inside a classification, so an update leaves the call idle.
LEMMA UpdateKeepsCall ==
  ASSUME IInv, pc = "ready", UNCHANGED call, TablesInv(heap, mitrees, rules)'
  PROVE  IInv'
<1>1. CallTypeOK' /\ LoopInv'
  BY IInvSplit DEF CallTypeOK, LoopInv, call
<1> QED BY <1>1, IInvSplit, PTL

------------------------------------------------------------------------------
(* The theorems                                                            *)

\* The empty classifier satisfies the invariant.
LEMMA InitInv == Init => IInv
<1> SUFFICES ASSUME Init PROVE IInv
  OBVIOUS
<1>1. DOMAIN mitrees = {} /\ DOMAIN rules = {} /\ mitrees \in Seq(Ptr) /\ rules \in Seq(Pair)
  BY DEF Init
<1>2. heap \in Heap /\ LiveIn(heap) = {}
  BY DEF Init, Heap, LiveIn
<1>3. TablesInv(heap, mitrees, rules)
  BY <1>1, <1>2 DEF TablesInv, GoodTrees, Distinct, Elements, Ordered, Indexed
<1>4. CallTypeOK /\ LoopInv
  BY DEF Init, CallTypeOK, LoopInv, NoMatch
<1> QED BY <1>3, <1>4, IInvSplit

\* Every step keeps the invariant: one case per action.
LEMMA NextInv == IInv /\ [Next]_vars => IInv'
<1> SUFFICES ASSUME IInv, [Next]_vars PROVE IInv'
  OBVIOUS
<1> USE IInvSplit
<1>1. ASSUME NEW r \in Rule, InsertRule(r) PROVE IInv'
  <2>1. pc = "ready" /\ UNCHANGED call
    BY <1>1 DEF InsertRule
  <2>2. TablesInv(heap, mitrees, rules)'
    BY <1>1, InsertIntoFirstFitKeepsTables, InsertIntoNewTreeKeepsTables DEF InsertRule
  <2> QED BY <2>1, <2>2, UpdateKeepsCall
<1>2. ASSUME NEW i \in DOMAIN rules, DeleteRule(i) PROVE IInv'
  <2>1. pc = "ready" /\ UNCHANGED call
    BY <1>2 DEF DeleteRule
  <2>2. TablesInv(heap, mitrees, rules)'
    BY <1>2, DeleteRuleKeepsTables
  <2> QED BY <2>1, <2>2, UpdateKeepsCall
<1>3. ASSUME NEW p \in Packet, ClassifyAPacket(p) PROVE IInv'
  BY <1>3, ClassifyBegins
<1>4. ASSUME QueryNextTree PROVE IInv'
  BY <1>4, QueryNextTreeKeepsInv
<1>5. ASSUME BreakOut \/ EndOfTrees PROVE IInv'
  BY <1>5, LeaveLoopKeepsInv
<1>6. ASSUME Return PROVE IInv'
  BY <1>6, ReturnKeepsInv
<1>7. CASE UNCHANGED vars
  BY <1>7 DEF vars, IInv, TypeOK, SortedByMaxPriority, MaxPriority, TreesAreOwned, Live,
              RulesAreIndexed, BookkeepingIsExact, TreesAreSortable, LoopInv, StoredIn
<1> QED BY <1>1, <1>2, <1>3, <1>4, <1>5, <1>6, <1>7 DEF Next, ClassifyStep

\* The inductive invariant holds in every reachable state.
THEOREM Invariance == Spec => []IInv
BY InitInv, NextInv, PTL DEF Spec

\* Type correctness of every variable, for any rules, addresses and packets.
THEOREM TypeCorrect == Spec => []TypeOK
<1>1. IInv => TypeOK
  BY DEF IInv
<1> QED BY <1>1, Invariance, PTL

\* The vector of trees is sorted after every update and during every call.
THEOREM AlwaysSorted == Spec => []SortedByMaxPriority
<1>1. IInv => SortedByMaxPriority
  BY DEF IInv
<1> QED BY <1>1, Invariance, PTL

\* No pointer dangles, no tree leaks, none is empty.
THEOREM AlwaysOwned == Spec => []TreesAreOwned
<1>1. IInv => TreesAreOwned
  BY DEF IInv
<1> QED BY <1>1, Invariance, PTL

\* Pairs and trees agree on where each rule is stored.
THEOREM AlwaysIndexed == Spec => []RulesAreIndexed
<1>1. IInv => RulesAreIndexed
  BY DEF IInv
<1> QED BY <1>1, Invariance, PTL

\* Counters and cached maxima are those of the stored rules.
THEOREM AlwaysExact == Spec => []BookkeepingIsExact
<1>1. IInv => BookkeepingIsExact
  BY DEF IInv
<1> QED BY <1>1, Invariance, PTL

\* Any two rules of a tree are separable in its field order.
THEOREM AlwaysSortable == Spec => []TreesAreSortable
<1>1. IInv => TreesAreSortable
  BY DEF IInv
<1> QED BY <1>1, Invariance, PTL

\* Every tree the loop left out has only rules below the answer, because the
\* trees are sorted and each tree's maximal priority bounds its rules.
LEMMA SkippedRulesAreBelow ==
  ASSUME IInv, pc = "return", NEW r \in InUse, r \notin StoredIn(at - 1)
  PROVE  priority[r] < result
<1>1. TablesInv(heap, mitrees, rules) /\ CallTypeOK /\ LoopInv
  BY IInvSplit
<1>2. PICK i \in DOMAIN rules : rules[i].rule = r
  BY DEF InUse
<1>3. PICK t \in LiveIn(heap) : r \in heap[t].stored
  BY <1>1, <1>2 DEF TablesInv, Indexed
<1>4. PICK k \in DOMAIN mitrees : mitrees[k] = t
  BY <1>1, <1>3 DEF TablesInv, Elements
<1>5. at \in Nat \ {0} /\ k \in 1 .. Len(mitrees) /\ Len(mitrees) \in Nat /\ result \in Int
  BY <1>1 DEF TablesInv, CallTypeOK
<1>6. k >= at
  <2>1. k \in 1 .. at - 1 => r \in StoredIn(at - 1)
    BY <1>3, <1>4 DEF StoredIn
  <2> QED BY <1>5, <2>1
<1>7. heap[t] \in MITree /\ ExactBookkeeping(heap[t]) /\ heap[t].stored # {}
  BY <1>1, <1>3, LiveIsATree DEF TablesInv, GoodTrees
<1>8. heap[t].maxPriority \in Nat /\ priority[r] <= heap[t].maxPriority /\ priority[r] \in Nat
  BY <1>3, <1>7, MaxPriorityOfGoodTree, PriorityType DEF MITree
<1>9. at \in DOMAIN mitrees /\ result > heap[mitrees[at]].maxPriority
  BY <1>1, <1>5, <1>6 DEF LoopInv, MaxPriority, TablesInv
<1>10. heap[mitrees[at]].maxPriority \in Int
  BY <1>1, <1>9, LiveIsATree DEF TablesInv, Elements
<1>11. heap[mitrees[at]].maxPriority >= heap[t].maxPriority
  <2>1. CASE k = at
    BY <1>4, <1>8, <2>1
  <2>2. CASE k > at
    BY <1>1, <1>4, <1>9, <2>2 DEF TablesInv, Ordered
  <2> QED BY <1>5, <1>6, <2>1, <2>2
<1> QED BY <1>5, <1>8, <1>9, <1>10, <1>11

\* In a state of the invariant the answer is that of all installed rules.
LEMMA InvariantAnswers ==
  ASSUME IInv
  PROVE  AnswerIsBest
<1> SUFFICES ASSUME pc = "return" PROVE IsBestPriority(result, InUse, packet)
  BY DEF AnswerIsBest
<1>1. TablesInv(heap, mitrees, rules) /\ CallTypeOK /\ LoopInv
  BY IInvSplit
<1>2. IsBestPriority(result, StoredIn(at - 1), packet)
  BY <1>1 DEF LoopInv
<1>3. at - 1 \in Nat /\ at - 1 <= Len(mitrees) /\ Len(mitrees) \in Nat
  BY <1>1 DEF LoopInv, CallTypeOK, TablesInv
<1>4. StoredIn(at - 1) \subseteq InUse
  <2>1. StoredIn(at - 1) \subseteq StoredIn(Len(mitrees))
    BY <1>3 DEF StoredIn
  <2> QED BY <1>1, <2>1, StoredInAllIsInUse
<1>5. \A r \in InUse : r \notin StoredIn(at - 1) => priority[r] < result
  BY SkippedRulesAreBelow
<1>6. \A r \in InUse : priority[r] \in Nat
  <2>1. InUse \subseteq Rule
    BY <1>1, <1>3, StoredInIsRules, StoredInAllIsInUse
  <2> QED BY <2>1, PriorityType
<1>7. result \in Int
  BY <1>1 DEF CallTypeOK
<1>8. CASE result = NoMatch /\ Matching(StoredIn(at - 1), packet) = {}
  <2>1. InUse \subseteq StoredIn(at - 1)
    BY <1>5, <1>6, <1>8 DEF NoMatch
  <2> QED BY <1>8, <2>1 DEF IsBestPriority, Matching
<1>9. CASE \E r \in Matching(StoredIn(at - 1), packet) :
             /\ result = priority[r]
             /\ \A s \in Matching(StoredIn(at - 1), packet) : priority[s] <= result
  <2>1. \A s \in Matching(InUse, packet) : priority[s] <= result
    BY <1>5, <1>6, <1>7, <1>9 DEF Matching
  <2>2. Matching(StoredIn(at - 1), packet) \subseteq Matching(InUse, packet)
    BY <1>4 DEF Matching
  <2> QED BY <1>9, <2>1, <2>2 DEF IsBestPriority
<1> QED BY <1>2, <1>8, <1>9 DEF IsBestPriority

\* A classification answers as if it had scanned every installed rule.
THEOREM AnswersAreBest == Spec => []AnswerIsBest
BY InvariantAnswers, Invariance, PTL

\* The early exit skips every tree it can: the number of trees queried is the
\* number of trees whose maximal priority is not below the answer.
THEOREM QueriesAreCounted == Spec => []QueriesAreNecessary
<1>1. ASSUME IInv PROVE QueriesAreNecessary
  <2> DEFINE S == {k \in DOMAIN mitrees : MaxPriority(mitrees[k]) >= result}
  <2> SUFFICES ASSUME pc = "return" PROVE query = Cardinality(S)
    BY DEF QueriesAreNecessary
  <2>1. TablesInv(heap, mitrees, rules) /\ CallTypeOK /\ LoopInv
    BY <1>1, IInvSplit
  <2>2. /\ query = at - 1 /\ at \in Nat \ {0} /\ at - 1 <= Len(mitrees) /\ Len(mitrees) \in Nat
        /\ DOMAIN mitrees = 1 .. Len(mitrees) /\ result \in Int
    BY <2>1 DEF LoopInv, CallTypeOK, TablesInv
  <2>3. \A k \in DOMAIN mitrees : MaxPriority(mitrees[k]) \in Int
    BY <2>1, LiveIsATree DEF MaxPriority, TablesInv, Elements
  <2>4. \A k \in DOMAIN mitrees : k >= at => ~(MaxPriority(mitrees[k]) >= result)
    <3> SUFFICES ASSUME NEW k \in DOMAIN mitrees, k >= at
                 PROVE  ~(MaxPriority(mitrees[k]) >= result)
      OBVIOUS
    <3>1. at \in DOMAIN mitrees /\ result > MaxPriority(mitrees[at])
      BY <2>1, <2>2 DEF LoopInv
    <3>2. CASE k = at
      BY <2>2, <2>3, <3>1, <3>2
    <3>3. CASE k > at
      <4>1. MaxPriority(mitrees[at]) >= MaxPriority(mitrees[k])
        BY <2>1, <3>1, <3>3 DEF TablesInv, Ordered, MaxPriority
      <4> QED BY <2>2, <2>3, <3>1, <4>1
    <3> QED BY <2>2, <3>2, <3>3
  <2>5. \A k \in 1 .. at - 1 : k \in DOMAIN mitrees /\ MaxPriority(mitrees[k]) >= result
    BY <2>1, <2>2 DEF LoopInv
  <2>6. S = 1 .. at - 1
    BY <2>2, <2>4, <2>5
  <2>7. Cardinality(1 .. at - 1) = at - 1
    BY <2>2, FS_Interval
  <2> QED BY <2>2, <2>6, <2>7
<1> QED BY <1>1, Invariance, PTL

\* An installed rule stays in one tree.
THEOREM RulesStay == Spec => RulesStayInTheirTree
<1> DEFINE Stays == \A t, u \in Ptr : \A r \in Rule :
              (heap[t] # Freed /\ r \in heap[t].stored /\ heap'[u] # Freed /\ r \in heap'[u].stored)
                 => t = u
<1>1. ASSUME IInv, [Next]_vars PROVE [Stays]_vars
  <2> SUFFICES ASSUME NEW t \in Ptr, NEW u \in Ptr, NEW r \in Rule,
                      heap[t] # Freed, r \in heap[t].stored,
                      heap'[u] # Freed, r \in heap'[u].stored, t # u
               PROVE  FALSE
    OBVIOUS
  <2>1. TablesInv(heap, mitrees, rules)
    BY <1>1, IInvSplit
  <2>2. \A p \in LiveIn(heap) : r \in heap[p].stored => p = t
    <3>1. \A p \in LiveIn(heap) : \A q \in heap[p].stored :
            \E i \in DOMAIN rules : rules[i].rule = q /\ rules[i].tree = p
      BY <2>1 DEF TablesInv, Indexed
    <3>2. t \in LiveIn(heap)
      BY DEF LiveIn
    <3> QED BY <2>1, <3>1, <3>2 DEF TablesInv, Indexed
  <2>3. heap \in Heap /\ r \in InUse /\ ~(heap[u] # Freed /\ r \in heap[u].stored)
    <3>1. r \in InUse
      BY <2>1 DEF TablesInv, Indexed, InUse, LiveIn
    <3> QED BY <2>1, <2>2, <3>1 DEF TablesInv, LiveIn
  <2>4. heap' # heap
    BY <2>3
  <2>5. CASE \E q \in Rule : InsertRule(q)
    <3>1. PICK q \in Rule : InsertRule(q)
      BY <2>5
    <3>2. q # r
      BY <2>3, <3>1 DEF InsertRule
    <3>3. PICK p \in Ptr, w \in MITree :
            /\ heap' = [heap EXCEPT ![p] = w]
            /\ w.stored = (IF heap[p] = Freed THEN {} ELSE heap[p].stored) \cup {q}
      <4>1. CASE InsertIntoFirstFit(q)
        <5>1. PICK k \in DOMAIN mitrees :
                heap' = [[heap EXCEPT ![mitrees[k]] = Insertion(@, q)]
                           EXCEPT ![mitrees[k]] = ReconstructIfNumRulesLessThanOrEqualTo(@)]
          BY <4>1 DEF InsertIntoFirstFit
        <5>2. mitrees[k] \in LiveIn(heap) /\ mitrees[k] \in Ptr
          BY <2>1 DEF TablesInv, Elements, LiveIn
        <5>3. heap[mitrees[k]] \in MITree /\ ExactBookkeeping(heap[mitrees[k]])
          BY <2>1, <5>2, LiveIsATree DEF TablesInv, GoodTrees
        <5>4. q \notin heap[mitrees[k]].stored
          BY <2>1, <3>1, <5>2, RuleNotInUseIsNotStored DEF TablesInv, InsertRule, InUse
        <5> DEFINE v == ReconstructIfNumRulesLessThanOrEqualTo(Insertion(heap[mitrees[k]], q))
        <5>5. /\ Insertion(heap[mitrees[k]], q) \in MITree
              /\ ExactBookkeeping(Insertion(heap[mitrees[k]], q))
              /\ Insertion(heap[mitrees[k]], q).stored = heap[mitrees[k]].stored \cup {q}
          BY <5>3, <5>4, InsertionExact
        <5>6. v \in MITree /\ v.stored = heap[mitrees[k]].stored \cup {q}
          BY <5>5, ReconstructExact
        <5>7. heap' = [heap EXCEPT ![mitrees[k]] = v]
          <6> DEFINE a == Insertion(heap[mitrees[k]], q)
                     h == [heap EXCEPT ![mitrees[k]] = a]
          <6>1. heap' = [h EXCEPT ![mitrees[k]] =
                            ReconstructIfNumRulesLessThanOrEqualTo(h[mitrees[k]])]
            BY <5>1
          <6>2. mitrees[k] \in DOMAIN heap
            BY <2>3, <5>2 DEF Heap
          <6> HIDE DEF a
          <6>3. h[mitrees[k]] = a
            BY <6>2
          <6>4. heap' = [h EXCEPT ![mitrees[k]] = ReconstructIfNumRulesLessThanOrEqualTo(a)]
            BY <6>1, <6>3
          <6>5. v = ReconstructIfNumRulesLessThanOrEqualTo(a)
            BY DEF a
          <6> HIDE DEF v
          <6> QED BY <6>2, <6>4, <6>5
        <5> HIDE DEF v
        <5> QED BY <5>2, <5>6, <5>7 DEF LiveIn
      <4>2. CASE InsertIntoNewTree(q)
        <5>1. PICK p \in Ptr \ Live, fo \in GetFieldOrderByRule(q) :
                heap' = [heap EXCEPT ![p] = Insertion(NewTree(fo), q)]
          BY <4>2 DEF InsertIntoNewTree
        <5>2. NewTree(fo) \in MITree /\ ExactBookkeeping(NewTree(fo)) /\ NewTree(fo).stored = {}
          BY <5>1, NewTreeExact DEF GetFieldOrderByRule, NewTree
        <5>3. /\ Insertion(NewTree(fo), q) \in MITree
              /\ Insertion(NewTree(fo), q).stored = NewTree(fo).stored \cup {q}
          BY <5>2, InsertionExact
        <5>4. heap[p] = Freed
          BY <5>1 DEF Live
        <5> QED BY <5>1, <5>2, <5>3, <5>4
      <4> QED BY <3>1, <4>1, <4>2 DEF InsertRule
    <3>4. heap'[u] = IF u = p THEN w ELSE heap[u]
      BY <2>3, <3>3 DEF Heap
    <3> QED BY <2>3, <3>2, <3>3, <3>4
  <2>6. CASE \E i \in DOMAIN rules : DeleteRule(i)
    <3>1. PICK i \in DOMAIN rules : DeleteRule(i)
      BY <2>6
    <3> DEFINE p == rules[i].tree
               q == rules[i].rule
    <3>2. p \in LiveIn(heap) /\ p \in Ptr /\ q \in heap[p].stored
      BY <2>1 DEF TablesInv, Indexed, LiveIn
    <3>3. heap[p] \in MITree
      BY <2>1, <3>2, LiveIsATree DEF TablesInv
    <3>4. PICK h : /\ h = [heap EXCEPT ![p] = Deletion(heap[p], q)]
                   /\ heap' = h \/ heap' = [h EXCEPT ![p] = Freed]
      BY <3>1 DEF DeleteRule
    <3>5. Deletion(heap[p], q).stored = heap[p].stored \ {q}
      BY <3>3 DEF Deletion, MITree
    <3> HIDE DEF p, q
    <3>6. DOMAIN heap = Ptr /\ DOMAIN h = Ptr
      BY <2>3, <3>4 DEF Heap
    <3>7. heap'[u] = h[u]
      BY <3>4, <3>6
    <3>8. h[u] = IF u = p THEN Deletion(heap[p], q) ELSE heap[u]
      BY <3>4, <3>6
    <3>9. u = p /\ heap[p] # Freed
      BY <2>3, <3>2, <3>7, <3>8 DEF LiveIn
    <3> QED BY <2>3, <3>5, <3>7, <3>8, <3>9
  <2>7. CASE \/ \E p \in Packet : ClassifyAPacket(p)
             \/ ClassifyStep \/ UNCHANGED vars
    BY <2>4, <2>7 DEF ClassifyAPacket, ClassifyStep, QueryNextTree, BreakOut, EndOfTrees,
                      Return, tables, vars
  <2> QED BY <1>1, <2>5, <2>6, <2>7 DEF Next
<1>2. RulesStayInTheirTree <=> [][Stays]_vars
  BY DEF RulesStayInTheirTree
<1> HIDE DEF Stays
<1> QED BY <1>1, <1>2, Invariance, PTL DEF Spec

------------------------------------------------------------------------------
(* Partition sort implements the brute-force classifier                    *)

\* The last answer, as the brute-force classifier has it.
LastAnswer == [packet |-> IF pc = "return" THEN packet ELSE NoPacket,
               priority |-> IF pc = "return" THEN result ELSE NoMatch]

\* A vector of pairs without the trees.
RulesOf(rs) == [i \in DOMAIN rs |-> rs[i].rule]

\* push_back on the pairs is push_back on the rules.
LEMMA RulesOfAppend ==
  ASSUME NEW rs \in Seq(Pair), NEW r \in Rule, NEW t \in Ptr
  PROVE  RulesOf(Append(rs, [rule |-> r, tree |-> t])) = Append(RulesOf(rs), r)
<1> DEFINE pair == [rule |-> r, tree |-> t]
           z == Append(rs, pair)
<1>1. pair \in Pair /\ pair.rule = r
  BY DEF Pair
<1>2. /\ Len(rs) \in Nat /\ DOMAIN rs = 1 .. Len(rs)
      /\ \A i \in DOMAIN rs : rs[i].rule \in Rule
  <2>1. \A k \in DOMAIN rs : rs[k] \in Pair
    BY ElementOfSeq
  <2> QED BY <2>1 DEF Pair
<1> HIDE DEF pair
<1>3. /\ z \in Seq(Pair) /\ Len(z) = Len(rs) + 1 /\ z[Len(rs) + 1] = pair
      /\ \A i \in 1 .. Len(rs) : z[i] = rs[i]
  BY <1>1, AppendProperties
<1> HIDE DEF z
<1>4. DOMAIN z = 1 .. Len(rs) + 1
  BY <1>3, LenProperties
<1>5. RulesOf(rs) \in Seq(Rule) /\ Len(RulesOf(rs)) = Len(rs)
  <2>1. RulesOf(rs) \in [1 .. Len(rs) -> Rule]
    BY <1>2 DEF RulesOf
  <2> QED BY <1>2, <2>1, IsASeq, LenProperties
<1> DEFINE y == Append(RulesOf(rs), r)
<1>6. /\ y \in Seq(Rule) /\ Len(y) = Len(rs) + 1 /\ y[Len(rs) + 1] = r
      /\ \A i \in 1 .. Len(rs) : y[i] = RulesOf(rs)[i]
  BY <1>5, AppendProperties
<1> HIDE DEF y
<1>7. DOMAIN y = 1 .. Len(rs) + 1
  BY <1>6, LenProperties
<1>8. y = [i \in 1 .. Len(rs) + 1 |-> y[i]]
  BY <1>6, <1>7
<1>9. \A i \in 1 .. Len(rs) + 1 : y[i] = z[i].rule
  BY <1>1, <1>2, <1>3, <1>6 DEF RulesOf
<1>10. RulesOf(z) = y
  BY <1>4, <1>8, <1>9 DEF RulesOf
<1> QED BY <1>10 DEF y, z, pair

\* Moving the last pair into a gap moves the last rule there.
LEMMA RulesOfMoveLast ==
  ASSUME NEW rs \in Seq(Pair), NEW i \in DOMAIN rs
  PROVE  RulesOf(MoveLastInto(rs, i)) = MoveLastInto(RulesOf(rs), i)
<1>1. /\ Len(rs) \in Nat /\ DOMAIN rs = 1 .. Len(rs)
      /\ \A k \in DOMAIN rs : rs[k].rule \in Rule
  <2>1. \A k \in DOMAIN rs : rs[k] \in Pair
    BY ElementOfSeq
  <2> QED BY <2>1 DEF Pair
<1>2. RulesOf(rs) \in Seq(Rule) /\ Len(RulesOf(rs)) = Len(rs) /\ i \in DOMAIN RulesOf(rs)
      /\ \A k \in DOMAIN rs : RulesOf(rs)[k] = rs[k].rule
  <2>1. RulesOf(rs) \in [1 .. Len(rs) -> Rule]
    BY <1>1 DEF RulesOf
  <2> QED BY <1>1, <2>1, IsASeq, LenProperties DEF RulesOf
<1> DEFINE z == MoveLastInto(rs, i)
           y == MoveLastInto(RulesOf(rs), i)
<1>3. /\ DOMAIN z = 1 .. Len(rs) - 1
      /\ \A k \in DOMAIN z : z[k] = IF k = i THEN rs[Len(rs)] ELSE rs[k]
  BY MoveLastIntoProperties
<1>4. /\ y \in Seq(Rule) /\ DOMAIN y = 1 .. Len(rs) - 1
      /\ \A k \in DOMAIN y : y[k] = IF k = i THEN RulesOf(rs)[Len(rs)] ELSE RulesOf(rs)[k]
  BY <1>2, MoveLastIntoProperties
<1> HIDE DEF z, y
<1>5. \A k \in 1 .. Len(rs) - 1 : y[k] = z[k].rule
  BY <1>1, <1>2, <1>3, <1>4
<1>6. y = [k \in 1 .. Len(rs) - 1 |-> y[k]]
  BY <1>4
<1>7. RulesOf(z) = y
  BY <1>3, <1>5, <1>6 DEF RulesOf
<1> QED BY <1>7 DEF y, z

\* The rules of the vector are those in use.
LEMMA RuleSetIsInUse == BruteForce!RuleSet(RulesOf(rules)) = InUse
BY DEF BruteForce!RuleSet, RulesOf, InUse

\* While no classification returns, there is no answer to collect.
LEMMA NoAnswerUnlessReturning ==
  LastAnswer = IF pc = "return" THEN [packet |-> packet, priority |-> result]
               ELSE BruteForce!NoAnswer
BY DEF LastAnswer, BruteForce!NoAnswer, BruteForce!NoMatch, NoMatch

\* The reference and the classifier mean the same by the best priority.
LEMMA SameBestPriority ==
  ASSUME NEW v, NEW S, NEW p
  PROVE  BruteForce!IsBestPriority(v, S, p) <=> IsBestPriority(v, S, p)
BY DEF BruteForce!IsBestPriority, BruteForce!Matching, BruteForce!MatchesPacket, BruteForce!Low,
       BruteForce!High, BruteForce!Field, BruteForce!NoMatch,
       IsBestPriority, Matching, MatchesPacket, Low, High, Field, NoMatch

\* An update of the tables is the same update of the vector.
LEMMA UpdateRefines ==
  ASSUME IInv
  PROVE  /\ \A r \in Rule : InsertRule(r) => BruteForce!InsertRule(r)
         /\ \A i \in DOMAIN rules : DeleteRule(i) => BruteForce!DeleteRule(i)
<1>1. rules \in Seq(Pair) /\ Elements(mitrees) = LiveIn(heap) /\ Indexed(rules, heap)
  BY IInvSplit DEF TablesInv
<1>2. ASSUME pc = "ready", UNCHANGED call
      PROVE  LastAnswer = BruteForce!NoAnswer /\ LastAnswer' = LastAnswer
  BY <1>2, NoAnswerUnlessReturning DEF LastAnswer, call
<1>3. ASSUME NEW r \in Rule, InsertRule(r) PROVE BruteForce!InsertRule(r)
  <2>1. pc = "ready" /\ UNCHANGED call /\ r \notin InUse
    BY <1>3 DEF InsertRule
  <2>2. PICK t \in Ptr : rules' = Append(rules, [rule |-> r, tree |-> t])
    <3>1. ASSUME NEW k \in DOMAIN mitrees PROVE mitrees[k] \in Ptr
      BY <1>1 DEF Elements, LiveIn
    <3> QED BY <1>3, <3>1 DEF InsertRule, InsertIntoFirstFit, InsertIntoNewTree
  <2>3. RulesOf(rules') = Append(RulesOf(rules), r)
    BY <1>1, <2>2, RulesOfAppend
  <2> QED BY <1>2, <2>1, <2>3, RuleSetIsInUse DEF BruteForce!InsertRule, LastAnswer, RulesOf
<1>4. ASSUME NEW i \in DOMAIN rules, DeleteRule(i) PROVE BruteForce!DeleteRule(i)
  <2>1. pc = "ready" /\ UNCHANGED call /\ rules' = MoveLastInto(rules, i)
    BY <1>4 DEF DeleteRule
  <2>2. RulesOf(rules') = MoveLastInto(RulesOf(rules), i)
    BY <1>1, <2>1, RulesOfMoveLast
  <2>3. i \in DOMAIN RulesOf(rules)
    BY DEF RulesOf
  <2> QED BY <1>2, <2>1, <2>2, <2>3
          DEF BruteForce!DeleteRule, BruteForce!MoveLastInto, MoveLastInto, LastAnswer, RulesOf
<1> QED BY <1>3, <1>4

\* The step that ends the loop of a classification is the whole classification.
LEMMA ReturnValueRefines ==
  ASSUME IInv, IInv', BreakOut \/ EndOfTrees
  PROVE  BruteForce!ClassifyAPacket(packet) /\ packet \in Packet
<1>1. pc = "loop" /\ pc' = "return" /\ UNCHANGED <<heap, mitrees, rules, packet, result>>
  BY DEF BreakOut, EndOfTrees, tables
<1>2. packet \in Packet
  BY <1>1, IInvSplit DEF CallTypeOK
<1>3. IsBestPriority(result, InUse, packet)
  <2>1. AnswerIsBest'
    BY InvariantAnswers, PTL
  <2> QED BY <1>1, <2>1 DEF AnswerIsBest, InUse
<1>4. result \in {NoMatch} \cup {priority[r] : r \in InUse}
  BY <1>3 DEF IsBestPriority, Matching
<1>5. LastAnswer = BruteForce!NoAnswer
  BY <1>1, NoAnswerUnlessReturning
<1>6. LastAnswer' = [packet |-> packet, priority |-> result] /\ LastAnswer'.priority = result
  BY <1>1 DEF LastAnswer
<1>7. LastAnswer' \in {[packet |-> packet, priority |-> v] :
                           v \in {NoMatch} \cup {priority[r] : r \in BruteForce!RuleSet(RulesOf(rules))}}
  BY <1>4, <1>6, RuleSetIsInUse
<1>8. BruteForce!IsBestPriority(LastAnswer'.priority, BruteForce!RuleSet(RulesOf(rules)), packet)
  BY <1>3, <1>6, RuleSetIsInUse, SameBestPriority
<1>9. RulesOf(rules') = RulesOf(rules)
  BY <1>1
<1> QED BY <1>2, <1>5, <1>7, <1>8, <1>9
        DEF BruteForce!ClassifyAPacket, BruteForce!NoMatch, NoMatch, LastAnswer, RulesOf

\* Partition sort implements the brute-force classifier, positions included: every
\* step is a step of the scanned vector, or none.
THEOREM PartitionSortIsBruteForce == Spec => ImplementsBruteForce
<1>1. Init => BruteForce!Init
  BY DEF Init, BruteForce!Init, BruteForce!NoAnswer, BruteForce!NoMatch, NoMatch
<1>2. ASSUME IInv, IInv', [Next]_vars PROVE [BruteForce!Next]_BruteForce!vars
  <2>1. CASE \/ \E r \in Rule : InsertRule(r)
             \/ \E i \in DOMAIN rules : DeleteRule(i)
    BY <1>2, <2>1, UpdateRefines DEF BruteForce!Next
  <2>2. CASE BreakOut \/ EndOfTrees
    BY <1>2, <2>2, ReturnValueRefines DEF BruteForce!Next
  <2>3. CASE Return
    <3>1. pc = "return" /\ pc' = "ready" /\ rules' = rules
      BY <2>3 DEF Return, tables
    <3>2. LastAnswer # BruteForce!NoAnswer
      BY <1>2, <3>1, IInvSplit, PtrAssumption DEF CallTypeOK, LastAnswer, BruteForce!NoAnswer
    <3>3. LastAnswer' = BruteForce!NoAnswer
      BY <3>1 DEF LastAnswer, BruteForce!NoAnswer, BruteForce!NoMatch, NoMatch
    <3> QED BY <3>1, <3>2, <3>3 DEF BruteForce!Next, BruteForce!CollectAnswer, LastAnswer
  <2>4. CASE (\E p \in Packet : ClassifyAPacket(p)) \/ QueryNextTree \/ UNCHANGED vars
    BY <2>4 DEF ClassifyAPacket, QueryNextTree, vars, tables, BruteForce!vars
  <2> QED BY <1>2, <2>1, <2>2, <2>3, <2>4 DEF Next, ClassifyStep
<1> QED BY <1>1, <1>2, Invariance, PTL DEF Spec, ImplementsBruteForce, BruteForce!Spec
==============================================================================
