--------------------------- MODULE TupleSpaceSearch ---------------------------
(***************************************************************************)
(* Priority tuple space search (src/OVS/TupleSpaceSearch.{h,cpp}), the     *)
(* classifier that partition sort is compared with.  Rules with the same   *)
(* prefix lengths in source and destination address share a tuple, a hash  *)
(* table on the masked addresses; the tuples are tried by decreasing       *)
(* maximal priority.                                                       *)
(*                                                                         *)
(* The hash is an arbitrary function, so that collisions are possible; the *)
(* hash table (src/OVS/cmap.cpp) is the set of its nodes, one chain per    *)
(* hash value.  A tuple is an object on the heap to which the map from     *)
(* prefix lengths and the sorted vector both hold pointers.                *)
(***************************************************************************)
EXTENDS Rules, Sequences, Functions

CONSTANTS
    AddressBits,      \* width of the two address fields, 32 in the code
    Hash,             \* Hash[<<sa, da>>]: the hash of two masked addresses
    Ptr,              \* addresses for tuples
    Freed,            \* what an address holds that no pointer leads to
    NoPacket

SA == 1
DA == 2
Address == 0 .. 2 ^ AddressBits - 1

\* The readers of rule files number the rules, so no two have one priority.
ASSUME DistinctPriorities == IsInjective(priority)

ASSUME TupleAssumption ==
    /\ AddressBits \in 0 .. 63 /\ Dim >= 2      \* a length has six bits in a key
    /\ \A r \in Rule : {range[r][SA], range[r][DA]} \subseteq Address \X Address
    /\ \A p \in Packet : {p[SA], p[DA]} \subseteq Address
    /\ DOMAIN Hash = Address \X Address
    /\ NoPacket \notin Packet

VARIABLES
    heap,                     \* heap[t]: the tuple at address t, or Freed
    all_priority_tuples,      \* from a key of prefix lengths to a tuple
    priority_tuples_vector,   \* the tuples, best first
    rules,                    \* the installed rules
    pc, packet, at, best   \* argument and locals of ClassifyAPacket

tables == <<heap, all_priority_tuples, priority_tuples_vector, rules>>
call == <<pc, packet, at, best>>
vars == <<heap, all_priority_tuples, priority_tuples_vector, rules, pc, packet, at, best>>

MaxPriority(t) == heap[t].maxPriority

------------------------------------------------------------------------------
(* Keys and hashes                                                         *)

\* The length of the common prefix of all addresses of the interval.
Length(interval) == CHOOSE n \in 0 .. AddressBits :
                        2 ^ (AddressBits - n) = interval[2] - interval[1] + 1

IsPrefix(interval) == \E n \in 0 .. AddressBits :
    /\ interval[2] - interval[1] + 1 = 2 ^ n
    /\ interval[1] % (2 ^ n) = 0

\* What the readers of rule files store: a ClassBench file gives the length,
\* from an MSU file it is computed, and 0 stays where there is no prefix.
prefix_length(r, f) == IF IsPrefix(range[r][f]) THEN Length(range[r][f]) ELSE 0

\* Six bits for each length.
KeyRulePrefix(r) == prefix_length(r, SA) * 64 + prefix_length(r, DA)

\* x & ~(0xFFFFFFFF >> length)
Masked(x, length) == x - (x % (2 ^ (AddressBits - length)))

\* A rule is hashed by its lower bounds as they are.
HashRule(r) == Hash[<<Low(r, SA), Low(r, DA)>>]
HashPacket(t, p) == Hash[<<Masked(p[SA], t.lengths[1]), Masked(p[DA], t.lengths[2])>>]

Chain(t, h) == {r \in t.nodes : HashRule(r) = h}

------------------------------------------------------------------------------
(* One tuple                                                               *)

PriorityTuple == [ lengths : Seq(0 .. AddressBits), nodes : SUBSET Rule,
                   priority_container : SUBSET Nat, maxPriority : Nat ]

ASSUME FreedAssumption == Freed \notin PriorityTuple

NewTuple(r) == [ lengths |-> <<prefix_length(r, SA), prefix_length(r, DA)>>, nodes |-> {r},
                 priority_container |-> {priority[r]}, maxPriority |-> priority[r] ]

Insertion(t, r) == [ t EXCEPT !.nodes = @ \cup {r},
                              !.priority_container = @ \cup {priority[r]},
                              !.maxPriority = Max({@, priority[r]}) ]

InsertChangesPriority(t, r) == priority[r] > t.maxPriority

\* (mutation) The maximum stays when another rule is left.
DeletionKeepingMax(t, r) ==
    LET container == t.priority_container \ {priority[r]}
    IN  [ t EXCEPT !.nodes = @ \ {s \in Chain(t, HashRule(r)) : priority[s] = priority[r]},
                   !.priority_container = container,
                   !.maxPriority = IF container = {} THEN NoMatch ELSE @ ]

IsEmpty(t) == t.nodes = {}

\* The node of the rule is the one with its priority in the chain of its hash.
Deletion(t, r) ==
    LET container == t.priority_container \ {priority[r]}
    IN  [ t EXCEPT !.nodes = @ \ {s \in Chain(t, HashRule(r)) : priority[s] = priority[r]},
                   !.priority_container = container,
                   !.maxPriority = IF container = {} THEN NoMatch
                                   ELSE IF priority[r] = @ THEN Max(container) ELSE @ ]

DeleteChangesPriority(t, r) == t.priority_container = {priority[r]} \/ priority[r] = t.maxPriority

\* (mutation) Only one node of the chain is compared.
FindFirstOnly(t, p) ==
    LET chain == Chain(t, HashPacket(t, p))
    IN  IF chain = {} THEN NoMatch ELSE BestPriority({CHOOSE r \in chain : TRUE}, p)

\* All nodes of the chain are compared with the packet, in all fields.
FindMatchPacket(t, p) == BestPriority(Chain(t, HashPacket(t, p)), p)

------------------------------------------------------------------------------
(* The set of tuples                                                       *)

Init ==
    /\ heap = [t \in Ptr |-> Freed]
    /\ all_priority_tuples = <<>> /\ priority_tuples_vector = <<>> /\ rules = <<>>
    /\ pc = "ready" /\ packet = NoPacket /\ at = 1 /\ best = NoMatch

\* std::sort: any order of the pointers by decreasing maximum in heap h.
RetainInvariantOfPriorityVector(s, h) ==
    { [i \in DOMAIN s |-> s[pi[i]]] :
        pi \in {f \in Bijection(DOMAIN s, DOMAIN s) :
                  \A i, j \in DOMAIN s :
                    i < j => h[s[f[i]]].maxPriority >= h[s[f[j]]].maxPriority} }

SortIf(change, s, h) == IF change THEN RetainInvariantOfPriorityVector(s, h) ELSE {s}

InsertIntoTuple(r) ==
    /\ KeyRulePrefix(r) \in DOMAIN all_priority_tuples
    /\ LET t == all_priority_tuples[KeyRulePrefix(r)]
       IN  /\ heap' = [heap EXCEPT ![t] = Insertion(@, r)]
           /\ priority_tuples_vector' \in
                SortIf(InsertChangesPriority(heap[t], r), priority_tuples_vector, heap')
    /\ UNCHANGED all_priority_tuples

\* A destroyed tuple is never freed; its address counts as free again once no
\* pointer leads to it, since nothing can tell.
CreateTuple(r) ==
    /\ KeyRulePrefix(r) \notin DOMAIN all_priority_tuples
    /\ \E t \in {u \in Ptr : heap[u] = Freed} :
         /\ heap' = [heap EXCEPT ![t] = NewTuple(r)]
         /\ all_priority_tuples' =
              [k \in DOMAIN all_priority_tuples \cup {KeyRulePrefix(r)} |->
                  IF k = KeyRulePrefix(r) THEN t ELSE all_priority_tuples[k]]
         /\ priority_tuples_vector' \in
              RetainInvariantOfPriorityVector(Append(priority_tuples_vector, t), heap')

\* The caller inserts only rules that are not in use.  ConstructClassifier
\* chooses the two address fields and is then a sequence of InsertRule calls.
InsertRule(r) ==
    /\ pc = "ready"
    /\ \A i \in DOMAIN rules : rules[i] # r
    /\ InsertIntoTuple(r) \/ CreateTuple(r)
    /\ rules' = Append(rules, r)
    /\ UNCHANGED call

\* (mutation) The vector is not sorted before its back is popped.
PopUnsorted(t, h) ==
    {SubSeq(priority_tuples_vector, 1, Len(priority_tuples_vector) - 1)}

\* The emptied tuple has maximum -1: sorting moves it to the back.
\* (The map entry is read after erase(); freeing the entry leaves the value.)
SortAndPop(t, h) ==
    {SubSeq(s, 1, Len(s) - 1) : s \in RetainInvariantOfPriorityVector(priority_tuples_vector, h)}

\* rules[i] = std::move(rules.back()); rules.pop_back();
MoveLastInto(s, i) == SubSeq([s EXCEPT ![i] = s[Len(s)]], 1, Len(s) - 1)

\* Without a tuple for its key the program would end with a warning.
DeleteRule(i) ==
    /\ pc = "ready"
    /\ i \in DOMAIN rules
    /\ KeyRulePrefix(rules[i]) \in DOMAIN all_priority_tuples
    /\ LET r == rules[i]
           key == KeyRulePrefix(r)
           t == all_priority_tuples[key]
           h == [heap EXCEPT ![t] = Deletion(@, r)]
       IN  IF IsEmpty(h[t])
           THEN /\ all_priority_tuples' =
                     [k \in DOMAIN all_priority_tuples \ {key} |-> all_priority_tuples[k]]
                /\ priority_tuples_vector' \in SortAndPop(t, h)
                /\ heap' = [h EXCEPT ![t] = Freed]
           ELSE /\ priority_tuples_vector' \in
                     SortIf(DeleteChangesPriority(heap[t], r), priority_tuples_vector, h)
                /\ heap' = h
                /\ UNCHANGED all_priority_tuples
    /\ rules' = MoveLastInto(rules, i)
    /\ UNCHANGED call

------------------------------------------------------------------------------
(* Classification                                                          *)

ClassifyAPacket(p) ==
    /\ pc = "ready"
    /\ pc' = "loop" /\ packet' = p /\ at' = 1 /\ best' = NoMatch
    /\ UNCHANGED tables

QueryNextTuple ==
    /\ pc = "loop" /\ at <= Len(priority_tuples_vector)
    /\ ~(best > MaxPriority(priority_tuples_vector[at]))
    /\ best' = Max({best, FindMatchPacket(heap[priority_tuples_vector[at]], packet)})
    /\ at' = at + 1
    /\ UNCHANGED <<tables, pc, packet>>

\* if (priority > tuple->maxPriority) break;
BreakOut ==
    /\ pc = "loop" /\ at <= Len(priority_tuples_vector)
    /\ best > MaxPriority(priority_tuples_vector[at])
    /\ pc' = "return"
    /\ UNCHANGED <<tables, packet, at, best>>

EndOfTuples ==
    /\ pc = "loop" /\ at > Len(priority_tuples_vector)
    /\ pc' = "return"
    /\ UNCHANGED <<tables, packet, at, best>>

Return ==
    /\ pc = "return"
    /\ pc' = "ready" /\ packet' = NoPacket /\ at' = 1 /\ best' = NoMatch
    /\ UNCHANGED tables

Next ==
    \/ \E r \in Rule : InsertRule(r)
    \/ \E i \in DOMAIN rules : DeleteRule(i)
    \/ \E p \in Packet : ClassifyAPacket(p)
    \/ QueryNextTuple \/ BreakOut \/ EndOfTuples \/ Return

Spec == Init /\ [][Next]_vars

------------------------------------------------------------------------------
(* Properties                                                              *)

\* Map and vector lead to the same tuples, each exactly once, and none is empty
\* or destroyed: pop_back removed the tuple that was erased from the map.
TuplesAreOwned ==
    LET s == priority_tuples_vector
        m == all_priority_tuples
    IN  /\ {s[i] : i \in DOMAIN s} = {m[k] : k \in DOMAIN m}
        /\ IsInjective(s) /\ IsInjective(m)
        /\ \A k \in DOMAIN m : heap[m[k]] # Freed /\ heap[m[k]].nodes # {}

\* The rules of a tuple are the installed rules with its key, and its cached
\* maximum and multiset of priorities are theirs.
BookkeepingIsExact ==
    /\ IsInjective(rules)
    /\ \A i \in DOMAIN rules : KeyRulePrefix(rules[i]) \in DOMAIN all_priority_tuples
    /\ \A k \in DOMAIN all_priority_tuples :
         LET t == heap[all_priority_tuples[k]]
         IN  /\ t.nodes = {r \in {rules[i] : i \in DOMAIN rules} : KeyRulePrefix(r) = k}
             /\ t.priority_container = {priority[r] : r \in t.nodes}
             /\ t.maxPriority = Max(t.priority_container)

\* One hash lookup per tuple, some tuples not even tried, and still the answer
\* is that of all installed rules.
AnswerIsBest ==
    pc = "return" => IsBestPriority(best, {rules[i] : i \in DOMAIN rules}, packet)

\* The same promise as partition sort: the brute-force classifier, with its
\* vector positions.
BruteForce == INSTANCE PacketClassifier WITH
    answer <- [packet |-> IF pc = "return" THEN packet ELSE NoPacket,
               priority |-> IF pc = "return" THEN best ELSE NoMatch]

ImplementsBruteForce == BruteForce!Spec
==============================================================================
