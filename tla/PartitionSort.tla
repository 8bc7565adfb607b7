---------------------------- MODULE PartitionSort ----------------------------
(***************************************************************************)
(* The partition-sort classifier (src/PartitionSort/PartitionSort.{h,cpp}):*)
(* a vector of MITrees kept by decreasing maximal priority, and a vector   *)
(* that remembers for every installed rule the tree that stores it.        *)
(*                                                                         *)
(* An update is one step.  A classification is the loop of the code, one   *)
(* step per tree, so that its early exit is visible.  MITrees are heap     *)
(* objects: a vector entry is a pointer, deletion frees the object, and a  *)
(* freed address may be handed out again.                                  *)
(***************************************************************************)
EXTENDS OptimizedMITree

CONSTANTS
    Ptr,          \* addresses for MITrees
    Freed,        \* what an address holds when no MITree lives there
    NoPacket

ASSUME PtrAssumption ==
    /\ Freed \notin MITree
    /\ NoPacket \notin Packet

VARIABLES
    heap,         \* heap[t]: the MITree at address t, or Freed
    mitrees,      \* the vector of pointers, best tree first
    rules,        \* the vector of (rule, tree) pairs
    pc,           \* "ready": no call runs; "loop", "return": inside ClassifyAPacket
    packet, at, result, query   \* argument and locals of ClassifyAPacket

tables == <<heap, mitrees, rules>>
call == <<pc, packet, at, result, query>>
vars == <<heap, mitrees, rules, pc, packet, at, result, query>>

MaxPriority(t) == heap[t].maxPriority
Live == {t \in Ptr : heap[t] # Freed}
InUse == {rules[i].rule : i \in DOMAIN rules}

Init ==
    /\ heap = [t \in Ptr |-> Freed]
    /\ mitrees = <<>>
    /\ rules = <<>>
    /\ pc = "ready" /\ packet = NoPacket /\ at = 1 /\ result = NoMatch /\ query = 0

------------------------------------------------------------------------------
(* Updates                                                                 *)

\* The vectors that hold the pointers of s by decreasing maximal priority in
\* heap h, equal ones in their old order: what the insertion sort leaves.
InsertionSortMITrees(s, h) ==
    { [i \in DOMAIN s |-> s[pi[i]]] :
        pi \in {f \in Bijection(DOMAIN s, DOMAIN s) :
                  \A i, j \in DOMAIN s : i < j =>
                    \/ h[s[f[i]]].maxPriority > h[s[f[j]]].maxPriority
                    \/ /\ h[s[f[i]]].maxPriority = h[s[f[j]]].maxPriority
                       /\ f[i] < f[j]} }

SortIf(change, s, h) == IF change THEN InsertionSortMITrees(s, h) ELSE {s}

\* The first tree that can take the rule takes it.
InsertIntoFirstFit(r) ==
    \E k \in DOMAIN mitrees :
        LET t == mitrees[k]
            h == [heap EXCEPT ![t] = Insertion(@, r)]
        IN  /\ CanInsertRule(heap[t], r)
            /\ \A j \in 1 .. k - 1 : ~CanInsertRule(heap[mitrees[j]], r)
            /\ mitrees' \in SortIf(InsertChangesPriority(heap[t], r), mitrees, h)
            /\ heap' = [h EXCEPT ![t] = ReconstructIfNumRulesLessThanOrEqualTo(@)]
            /\ rules' = Append(rules, [rule |-> r, tree |-> t])

\* No tree can take it: a new tree, whose field order is the rule's own.
InsertIntoNewTree(r) ==
    \E t \in Ptr \ Live, fo \in GetFieldOrderByRule(r) :
        LET h == [heap EXCEPT ![t] = Insertion(NewTree(fo), r)]
        IN  /\ \A k \in DOMAIN mitrees : ~CanInsertRule(heap[mitrees[k]], r)
            /\ heap' = h
            /\ mitrees' \in InsertionSortMITrees(Append(mitrees, t), h)
            /\ rules' = Append(rules, [rule |-> r, tree |-> t])

\* The caller inserts only rules that are not in use (the simulator's pools).
\* ConstructClassifier is a sequence of InsertRule calls.
InsertRule(r) ==
    /\ pc = "ready"
    /\ r \notin InUse
    /\ InsertIntoFirstFit(r) \/ InsertIntoNewTree(r)
    /\ UNCHANGED call

\* (mutation) pop_back without the move.
PopLast(s, i) == SubSeq(s, 1, Len(s) - 1)

\* (mutation) vector::erase, which keeps the order of the others.
EraseAt(s, i) == SubSeq(s, 1, i - 1) \o SubSeq(s, i + 1, Len(s))

\* rules[i] = std::move(rules.back()); rules.pop_back();
MoveLastInto(s, i) == SubSeq([s EXCEPT ![i] = s[Len(s)]], 1, Len(s) - 1)

\* An index out of range changes nothing (a warning is printed).
\* A tree left without rules is popped from the back of the sorted vector and
\* deleted: pop_back removes whatever pointer is there.
DeleteRule(i) ==
    /\ pc = "ready"
    /\ i \in DOMAIN rules
    /\ LET r == rules[i].rule
           t == rules[i].tree
           h == [heap EXCEPT ![t] = Deletion(@, r)]
       IN  \E s \in SortIf(DeleteChangesPriority(heap[t], r), mitrees, h) :
             IF Empty(h[t])
             THEN /\ mitrees' = SubSeq(s, 1, Len(s) - 1)
                  /\ heap' = [h EXCEPT ![t] = Freed]
             ELSE mitrees' = s /\ heap' = h
    /\ rules' = MoveLastInto(rules, i)
    /\ UNCHANGED call

------------------------------------------------------------------------------
(* Classification                                                          *)

ClassifyAPacket(p) ==
    /\ pc = "ready"
    /\ pc' = "loop" /\ packet' = p /\ at' = 1 /\ result' = NoMatch /\ query' = 0
    /\ UNCHANGED tables

\* (mutation) The exit test is not evaluated.
QueryEveryTree ==
    /\ pc = "loop" /\ at <= Len(mitrees)
    /\ query' = query + 1
    /\ result' = Max({ClassifyInTree(heap[mitrees[at]], packet), result})
    /\ at' = at + 1
    /\ UNCHANGED <<tables, pc, packet>>

QueryNextTree ==
    /\ pc = "loop" /\ at <= Len(mitrees)
    /\ ~(result > MaxPriority(mitrees[at]))
    /\ query' = query + 1
    /\ result' = Max({ClassifyInTree(heap[mitrees[at]], packet), result})
    /\ at' = at + 1
    /\ UNCHANGED <<tables, pc, packet>>

\* if (result > t->MaxPriority()) break;
BreakOut ==
    /\ pc = "loop" /\ at <= Len(mitrees)
    /\ result > MaxPriority(mitrees[at])
    /\ pc' = "return"
    /\ UNCHANGED <<tables, packet, at, result, query>>

EndOfTrees ==
    /\ pc = "loop" /\ at > Len(mitrees)
    /\ pc' = "return"
    /\ UNCHANGED <<tables, packet, at, result, query>>

Return ==
    /\ pc = "return"
    /\ pc' = "ready" /\ packet' = NoPacket /\ at' = 1 /\ result' = NoMatch /\ query' = 0
    /\ UNCHANGED tables

ClassifyStep == QueryNextTree \/ BreakOut \/ EndOfTrees \/ Return

Next ==
    \/ \E r \in Rule : InsertRule(r)
    \/ \E i \in DOMAIN rules : DeleteRule(i)
    \/ \E p \in Packet : ClassifyAPacket(p)
    \/ ClassifyStep

Spec == Init /\ [][Next]_vars

------------------------------------------------------------------------------
(* Properties                                                              *)

TypeOK ==
    /\ heap \in [Ptr -> MITree \cup {Freed}]
    /\ mitrees \in Seq(Ptr)
    /\ rules \in Seq([rule : Rule, tree : Ptr])
    /\ pc \in {"ready", "loop", "return"}
    /\ packet \in Packet \cup {NoPacket}
    /\ (pc = "ready") <=> (packet = NoPacket)
    /\ at \in Nat \ {0} /\ query \in Nat /\ result \in Int

\* The vector of trees is ordered by decreasing maximal priority after every
\* update, although InsertionSortMITrees runs only when a Deletion or an
\* insertion reports a change (PartitionSort.cpp:15, 44).
SortedByMaxPriority ==
    \A i, j \in DOMAIN mitrees :
        i < j => MaxPriority(mitrees[i]) >= MaxPriority(mitrees[j])

\* Every pointer in either vector leads to a living tree, every living tree is
\* in the vector exactly once, and none is empty: popping the back after a
\* Deletion removes the very tree that is freed (PartitionSort.cpp:49-52).
TreesAreOwned ==
    /\ {mitrees[k] : k \in DOMAIN mitrees} = Live
    /\ \A j, k \in DOMAIN mitrees : mitrees[j] = mitrees[k] => j = k
    /\ \A t \in Live : heap[t].stored # {}

\* The vector of pairs and the trees agree: each pair's rule is in its tree,
\* each stored rule has exactly one pair (swap-with-last keeps them aligned).
RulesAreIndexed ==
    /\ \A i \in DOMAIN rules :
          rules[i].tree \in Live /\ rules[i].rule \in heap[rules[i].tree].stored
    /\ \A t \in Live : \A r \in heap[t].stored :
          \E i \in DOMAIN rules : rules[i] = [rule |-> r, tree |-> t]
    /\ \A i, j \in DOMAIN rules : rules[i].rule = rules[j].rule => i = j

\* The cached maximum and the counters beside each tree are those of the rules
\* it stores: what the early exit and the emptiness test rely on.
BookkeepingIsExact == \A t \in Live : ExactBookkeeping(heap[t])

\* Any two rules of a tree are separable in its field order: otherwise the
\* tree descent has no defined direction (the "x.key || z.key" warning).
TreesAreSortable == \A t \in Live : SortableTree(heap[t])

\* Although trees are skipped, the answer is that of all installed rules.
AnswerIsBest ==
    pc = "return" => IsBestPriority(result, InUse, packet)

\* The early exit is as early as it can be: the trees queried are exactly those
\* whose maximal priority is not below the answer.
QueriesAreNecessary ==
    pc = "return" =>
        query = Cardinality({k \in DOMAIN mitrees : MaxPriority(mitrees[k]) >= result})

\* The classifier behaves as the brute-force reference, vector positions
\* included: same rules at the same indices, same answers.
BruteForce == INSTANCE PacketClassifier WITH
    rules <- [i \in DOMAIN rules |-> rules[i].rule],
    answer <- [packet |-> IF pc = "return" THEN packet ELSE NoPacket,
               priority |-> IF pc = "return" THEN result ELSE NoMatch]

ImplementsBruteForce == BruteForce!Spec

\* A rule never moves from one tree to another while it is installed: the tree
\* remembered at its insertion is still the right one at its deletion.
RulesStayInTheirTree ==
    [][\A t, u \in Ptr : \A r \in Rule :
          (heap[t] # Freed /\ r \in heap[t].stored /\ heap'[u] # Freed /\ r \in heap'[u].stored)
              => t = u]_vars

==============================================================================
