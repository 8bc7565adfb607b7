------------------------- MODULE TupleSpaceSearchProofs -------------------------
(***************************************************************************)
(* Proofs about TupleSpaceSearch for every set of rules, any hash function *)
(* and any addresses: map, vector and tuples stay consistent, and, when    *)
(* all address intervals are prefixes, one lookup per tuple and the early  *)
(* exit never change an answer.                                            *)
(***************************************************************************)
EXTENDS TupleSpaceSearch, RulesProofs

------------------------------------------------------------------------------
(* Keys                                                                    *)

\* Priorities are natural numbers, and no two rules have the same.
LEMMA PriorityType ==
  /\ \A r \in Rule : priority[r] \in Nat
  /\ \A r, q \in Rule : priority[r] = priority[q] => r = q
BY RulesAssumption, DistinctPriorities DEF IsInjective

\* The CHOOSE of a prefix length has something to choose.
LEMMA LengthOfPrefix ==
  ASSUME NEW interval, IsPrefix(interval)
  PROVE  /\ Length(interval) \in 0 .. AddressBits
         /\ 2 ^ (AddressBits - Length(interval)) = interval[2] - interval[1] + 1
<1>1. PICK n \in 0 .. AddressBits : interval[2] - interval[1] + 1 = 2 ^ n
  BY DEF IsPrefix
<1>2. AddressBits - n \in 0 .. AddressBits /\ AddressBits - (AddressBits - n) = n
  BY TupleAssumption
<1>3. \E k \in 0 .. AddressBits : 2 ^ (AddressBits - k) = interval[2] - interval[1] + 1
  BY <1>1, <1>2
<1> QED BY <1>3 DEF Length

\* A stored prefix length fits the six bits it has in the key.
LEMMA PrefixLengthType ==
  \A r, f : prefix_length(r, f) \in 0 .. AddressBits /\ AddressBits \in 0 .. 63
BY LengthOfPrefix, TupleAssumption DEF prefix_length

\* Rules with one key have the same prefix lengths.
LEMMA KeyDeterminesLengths ==
  ASSUME NEW r, NEW q, KeyRulePrefix(r) = KeyRulePrefix(q)
  PROVE  prefix_length(r, SA) = prefix_length(q, SA) /\ prefix_length(r, DA) = prefix_length(q, DA)
<1>1. /\ prefix_length(r, SA) \in 0 .. 63 /\ prefix_length(q, SA) \in 0 .. 63
      /\ prefix_length(r, DA) \in 0 .. 63 /\ prefix_length(q, DA) \in 0 .. 63
  <2>1. \A f : prefix_length(r, f) \in 0 .. AddressBits /\ prefix_length(q, f) \in 0 .. AddressBits
    BY PrefixLengthType
  <2>2. AddressBits \in 0 .. 63
    BY TupleAssumption
  <2> QED BY <2>1, <2>2
<1> DEFINE a == prefix_length(r, SA)
           b == prefix_length(r, DA)
           c == prefix_length(q, SA)
           d == prefix_length(q, DA)
<1>2. a * 64 + b = c * 64 + d
  BY DEF KeyRulePrefix
<1>3. a \in 0 .. 63 /\ b \in 0 .. 63 /\ c \in 0 .. 63 /\ d \in 0 .. 63
  BY <1>1
<1> HIDE DEF a, b, c, d
<1>4. a = c /\ b = d
  BY <1>2, <1>3
<1> QED BY <1>4 DEF a, b, c, d

------------------------------------------------------------------------------
(* One tuple                                                               *)

\* The tuple of key k holds exactly the rules of U that have the key.
Exact(t, k, U) ==
    /\ t \in PriorityTuple /\ t.nodes # {}
    /\ t.nodes = {r \in U : KeyRulePrefix(r) = k}
    /\ t.priority_container = {priority[r] : r \in t.nodes}
    /\ t.maxPriority \in t.priority_container
    /\ \A p \in t.priority_container : p <= t.maxPriority
    /\ \A r \in t.nodes : t.lengths = <<prefix_length(r, SA), prefix_length(r, DA)>>

\* Insertion of a rule with the tuple's key.
LEMMA InsertionExact ==
  ASSUME NEW t, NEW U \in SUBSET Rule, NEW r \in Rule, Exact(t, KeyRulePrefix(r), U)
  PROVE  /\ Exact(Insertion(t, r), KeyRulePrefix(r), U \cup {r})
         /\ ~InsertChangesPriority(t, r) => Insertion(t, r).maxPriority = t.maxPriority
<1> DEFINE u == Insertion(t, r)
<1>1. /\ t \in PriorityTuple /\ priority[r] \in Nat /\ t.maxPriority \in Nat
      /\ t.nodes \in SUBSET Rule /\ t.priority_container \in SUBSET Nat
  BY PriorityType DEF Exact, PriorityTuple
<1>2. Max({t.maxPriority, priority[r]}) = IF t.maxPriority >= priority[r] THEN t.maxPriority
                                          ELSE priority[r]
  BY <1>1, MaxOfTwo
<1>3. /\ u \in PriorityTuple
      /\ u.nodes = t.nodes \cup {r} /\ u.lengths = t.lengths
      /\ u.priority_container = t.priority_container \cup {priority[r]}
      /\ u.maxPriority = IF t.maxPriority >= priority[r] THEN t.maxPriority ELSE priority[r]
  BY <1>1, <1>2 DEF Insertion, PriorityTuple
<1> HIDE DEF u
<1>4. u.nodes = {q \in U \cup {r} : KeyRulePrefix(q) = KeyRulePrefix(r)}
  BY <1>3 DEF Exact
<1>5. u.priority_container = {priority[q] : q \in u.nodes}
  BY <1>3 DEF Exact
<1>6. u.maxPriority \in u.priority_container /\ \A p \in u.priority_container : p <= u.maxPriority
  BY <1>1, <1>3 DEF Exact
<1>7. \A q \in u.nodes : u.lengths = <<prefix_length(q, SA), prefix_length(q, DA)>>
  <2>1. PICK s \in t.nodes : TRUE
    BY DEF Exact
  <2>2. \A q \in u.nodes : KeyRulePrefix(q) = KeyRulePrefix(s)
    BY <1>4, <2>1 DEF Exact
  <2>3. \A q \in u.nodes : /\ prefix_length(q, SA) = prefix_length(s, SA)
                           /\ prefix_length(q, DA) = prefix_length(s, DA)
    BY <2>2, KeyDeterminesLengths
  <2>4. u.lengths = <<prefix_length(s, SA), prefix_length(s, DA)>>
    BY <1>3, <2>1 DEF Exact
  <2> QED BY <2>3, <2>4
<1>8. ~InsertChangesPriority(t, r) => u.maxPriority = t.maxPriority
  BY <1>1, <1>3 DEF InsertChangesPriority
<1> QED BY <1>3, <1>4, <1>5, <1>6, <1>7, <1>8 DEF Exact, u

\* A tuple made for the first rule with its key.
LEMMA NewTupleExact ==
  ASSUME NEW U \in SUBSET Rule, NEW r \in Rule, \A q \in U : KeyRulePrefix(q) # KeyRulePrefix(r)
  PROVE  Exact(NewTuple(r), KeyRulePrefix(r), U \cup {r})
<1>1. prefix_length(r, SA) \in 0 .. AddressBits /\ prefix_length(r, DA) \in 0 .. AddressBits
  BY PrefixLengthType
<1>2. NewTuple(r) \in PriorityTuple
  <2>1. <<prefix_length(r, SA), prefix_length(r, DA)>> \in Seq(0 .. AddressBits)
    BY <1>1
  <2> QED BY <2>1, PriorityType DEF NewTuple, PriorityTuple
<1> QED BY <1>2, PriorityType DEF NewTuple, Exact

\* A rule with another key comes or goes.
LEMMA OtherKeyExact ==
  ASSUME NEW t, NEW k, NEW U, NEW V, Exact(t, k, U), NEW r, KeyRulePrefix(r) # k,
         V \cup {r} = U \cup {r}
  PROVE  Exact(t, k, V)
<1>1. {q \in U : KeyRulePrefix(q) = k} = {q \in V : KeyRulePrefix(q) = k}
  OBVIOUS
<1> QED BY <1>1 DEF Exact

\* Deletion finds the node of the rule by hash and priority, and only that one.
LEMMA DeletionExact ==
  ASSUME NEW t, NEW U \in SUBSET Rule, NEW r \in U, Exact(t, KeyRulePrefix(r), U)
  PROVE  LET u == Deletion(t, r)
         IN  /\ u.nodes = t.nodes \ {r} /\ u.maxPriority \in Int
             /\ u.nodes # {} => Exact(u, KeyRulePrefix(r), U \ {r})
             /\ u.nodes = {} => u.maxPriority = NoMatch
             /\ ~DeleteChangesPriority(t, r) => u.nodes # {} /\ u.maxPriority = t.maxPriority
<1> DEFINE u == Deletion(t, r)
           c == t.priority_container \ {priority[r]}
<1>1. /\ t \in PriorityTuple /\ r \in t.nodes /\ t.nodes \in SUBSET Rule
      /\ priority[r] \in Nat /\ t.maxPriority \in Nat
      /\ t.priority_container = {priority[q] : q \in t.nodes} /\ t.priority_container \in SUBSET Nat
      /\ t.maxPriority \in t.priority_container
      /\ \A p \in t.priority_container : p <= t.maxPriority
  BY PriorityType DEF Exact, PriorityTuple
<1>2. {q \in Chain(t, HashRule(r)) : priority[q] = priority[r]} = {r}
  BY <1>1, PriorityType DEF Chain
<1>3. c = {priority[q] : q \in t.nodes \ {r}}
  BY <1>1, PriorityType
<1>4. c \in SUBSET Nat /\ (c # {} => Max(c) \in c /\ \A p \in c : p <= Max(c))
  <2>1. c \in SUBSET Nat /\ \A p \in c : p <= t.maxPriority
    BY <1>1
  <2>2. ASSUME c # {} PROVE Max(c) \in c /\ \A p \in c : p <= Max(c)
    <3> HIDE DEF c
    <3>1. PICK m \in c : \A p \in c : p <= m
      BY <1>1, <2>1, <2>2, BoundedHasMax
    <3> QED BY <2>1, <3>1, MaxProperty
  <2> QED BY <2>1, <2>2
<1>5. /\ u.nodes = t.nodes \ {r} /\ u.lengths = t.lengths /\ u.priority_container = c
      /\ u.maxPriority = IF c = {} THEN NoMatch
                         ELSE IF priority[r] = t.maxPriority THEN Max(c) ELSE t.maxPriority
  BY <1>1, <1>2 DEF Deletion, PriorityTuple
<1>6. c # {} => /\ u \in PriorityTuple /\ u.maxPriority \in c
                /\ \A p \in c : p <= u.maxPriority
  <2> SUFFICES ASSUME c # {}
               PROVE  u \in PriorityTuple /\ u.maxPriority \in c /\ \A p \in c : p <= u.maxPriority
    OBVIOUS
  <2>1. u.maxPriority \in c /\ \A p \in c : p <= u.maxPriority
    BY <1>1, <1>4, <1>5
  <2>2. u.maxPriority \in Nat
    BY <1>4, <2>1
  <2>3. u = [t EXCEPT !.nodes = u.nodes, !.priority_container = u.priority_container,
                      !.maxPriority = u.maxPriority]
    BY <1>1 DEF Deletion, PriorityTuple
  <2> HIDE DEF u, c
  <2> QED BY <1>1, <1>4, <1>5, <2>1, <2>2, <2>3 DEF PriorityTuple
<1> HIDE DEF u, c
<1>7. c = {} <=> u.nodes = {}
  <2> DEFINE rest == t.nodes \ {r}
  <2>1. c = {priority[q] : q \in rest} /\ u.nodes = rest
    BY <1>3, <1>5
  <2> HIDE DEF rest
  <2> QED BY ONLY <2>1
<1>8. u.maxPriority \in Int
  <2>1. NoMatch \in Int
    BY DEF NoMatch
  <2>2. c # {} => Max(c) \in Nat
    BY <1>4
  <2> QED BY ONLY <1>1, <1>5, <2>1, <2>2
<1>9. u.nodes # {} => Exact(u, KeyRulePrefix(r), U \ {r})
  <2>1. u.nodes = {q \in U \ {r} : KeyRulePrefix(q) = KeyRulePrefix(r)}
    BY <1>5 DEF Exact
  <2>2. \A q \in u.nodes : u.lengths = <<prefix_length(q, SA), prefix_length(q, DA)>>
    BY <1>5 DEF Exact
  <2> QED BY <1>3, <1>5, <1>6, <1>7, <2>1, <2>2 DEF Exact
<1>10. ~DeleteChangesPriority(t, r) => u.nodes # {} /\ u.maxPriority = t.maxPriority
  <2> SUFFICES ASSUME t.priority_container # {priority[r]}, priority[r] # t.maxPriority
               PROVE  u.nodes # {} /\ u.maxPriority = t.maxPriority
    BY DEF DeleteChangesPriority
  <2>1. c # {}
    BY <1>1 DEF c
  <2> QED BY <1>5, <1>7, <2>1
<1> QED BY <1>5, <1>7, <1>8, <1>9, <1>10 DEF u

------------------------------------------------------------------------------
(* Heap, map and vectors                                                   *)

Heap == [Ptr -> PriorityTuple \cup {Freed}]

Ordered(s, h) ==
    \A i, j \in DOMAIN s : i < j => h[s[i]].maxPriority >= h[s[j]].maxPriority

\* Everything about the tables that updates rely on.
TablesInv(h, m, s, rs) ==
    /\ h \in Heap /\ s \in Seq(Ptr) /\ rs \in Seq(Rule)
    /\ Distinct(s) /\ Distinct(m) /\ Distinct(rs)
    /\ Elements(s) = Elements(m)
    /\ Ordered(s, h)
    /\ \A k \in DOMAIN m : h[m[k]] # Freed /\ Exact(h[m[k]], k, Elements(rs))
    /\ \A r \in Elements(rs) : KeyRulePrefix(r) \in DOMAIN m

\* Pointers of the map are addresses.
LEMMA MapLeadsToTuples ==
  ASSUME NEW h, NEW m, NEW s, NEW rs, TablesInv(h, m, s, rs), NEW k \in DOMAIN m
  PROVE  m[k] \in Ptr /\ h[m[k]] \in PriorityTuple /\ h[m[k]].maxPriority \in Nat
<1>1. m[k] \in Elements(s)
  BY DEF TablesInv, Elements
<1>2. \A t \in Elements(s) : t \in Ptr
  <2>1. s \in Seq(Ptr)
    BY DEF TablesInv
  <2> QED BY <2>1, ElementOfSeq DEF Elements
<1> QED BY <1>1, <1>2 DEF TablesInv, Exact, PriorityTuple

\* The sort rearranges a vector of distinct pointers into a decreasing one.
LEMMA SortProperties ==
  ASSUME NEW h, NEW s \in Seq(Ptr), Distinct(s), \A t \in Elements(s) : h[t].maxPriority \in Int,
         NEW z \in RetainInvariantOfPriorityVector(s, h)
  PROVE  z \in Seq(Ptr) /\ Distinct(z) /\ Elements(z) = Elements(s) /\ Ordered(z, h)
<1>1. PICK f \in Bijection(DOMAIN s, DOMAIN s) :
        /\ z = [i \in DOMAIN s |-> s[f[i]]]
        /\ \A i, j \in DOMAIN s : i < j => h[s[f[i]]].maxPriority >= h[s[f[j]]].maxPriority
  BY DEF RetainInvariantOfPriorityVector
<1>2. /\ z \in Seq(Ptr) /\ DOMAIN z = DOMAIN s /\ \A i \in DOMAIN s : z[i] = s[f[i]]
      /\ Distinct(z) /\ Elements(z) = Elements(s)
  BY <1>1, PermutationProperties
<1>3. Ordered(z, h)
  BY <1>1, <1>2 DEF Ordered
<1> QED BY <1>2, <1>3

\* A vector that needs no sorting is left alone; any other is sorted.
LEMMA SortIfProperties ==
  ASSUME NEW h, NEW s \in Seq(Ptr), Distinct(s), \A t \in Elements(s) : h[t].maxPriority \in Int,
         NEW change \in BOOLEAN, ~change => Ordered(s, h),
         NEW z \in SortIf(change, s, h)
  PROVE  z \in Seq(Ptr) /\ Distinct(z) /\ Elements(z) = Elements(s) /\ Ordered(z, h)
<1>1. CASE change
  BY <1>1, SortProperties DEF SortIf
<1>2. CASE ~change
  BY <1>2 DEF SortIf
<1> QED BY <1>1, <1>2

\* In a decreasing vector the only tuple with maximum -1 is the last: what
\* pop_back removes.
LEMMA EmptiedTupleIsLast ==
  ASSUME NEW h, NEW s \in Seq(Ptr), Distinct(s), Ordered(s, h),
         NEW t \in Elements(s), h[t].maxPriority = NoMatch,
         \A u \in Elements(s) : u # t => h[u].maxPriority \in Nat
  PROVE  LET z == SubSeq(s, 1, Len(s) - 1)
         IN  z \in Seq(Ptr) /\ Distinct(z) /\ Ordered(z, h) /\ Elements(z) = Elements(s) \ {t}
<1>1. Len(s) \in Nat /\ DOMAIN s = 1 .. Len(s)
  OBVIOUS
<1>2. PICK k \in DOMAIN s : s[k] = t
  BY DEF Elements
<1>3. Len(s) > 0 /\ Len(s) \in DOMAIN s
  BY <1>1, <1>2
<1>4. s[Len(s)] = t
  <2> SUFFICES ASSUME s[Len(s)] # t PROVE FALSE
    OBVIOUS
  <2>1. k < Len(s)
    BY <1>1, <1>2
  <2>2. h[t].maxPriority >= h[s[Len(s)]].maxPriority
    BY <1>2, <1>3, <2>1 DEF Ordered
  <2>3. h[s[Len(s)]].maxPriority \in Nat
    BY <1>3 DEF Elements
  <2> QED BY <2>2, <2>3 DEF NoMatch
<1> DEFINE z == SubSeq(s, 1, Len(s) - 1)
<1>5. z \in Seq(Ptr) /\ Len(z) = Len(s) - 1 /\ \A j \in 1 .. Len(s) - 1 : z[j] = s[j]
  BY <1>1, <1>3
<1>6. DOMAIN z = 1 .. Len(s) - 1
  <2> HIDE DEF z
  <2> QED BY <1>5, LenProperties
<1> HIDE DEF z
<1>7. \A j \in DOMAIN z : j \in DOMAIN s /\ z[j] = s[j] /\ j # Len(s)
  BY <1>1, <1>5, <1>6
<1>8. Distinct(z) /\ Ordered(z, h)
  BY <1>7 DEF Distinct, Ordered
<1>9. Elements(z) = Elements(s) \ {t}
  <2>1. \A j \in DOMAIN s : j # Len(s) => j \in DOMAIN z
    BY <1>1, <1>6
  <2>2. \A j \in DOMAIN s : s[j] = t => j = Len(s)
    BY <1>3, <1>4 DEF Distinct
  <2> QED BY <1>4, <1>7, <2>1, <2>2 DEF Elements
<1> QED BY <1>5, <1>8, <1>9 DEF z

\* Insertion into an existing tuple keeps the tables.
LEMMA InsertIntoTupleKeepsTables ==
  ASSUME TablesInv(heap, all_priority_tuples, priority_tuples_vector, rules),
         NEW r \in Rule, r \notin Elements(rules), InsertIntoTuple(r), rules' = Append(rules, r)
  PROVE  TablesInv(heap', all_priority_tuples', priority_tuples_vector', rules')
<1> DEFINE m == all_priority_tuples
           s == priority_tuples_vector
           key == KeyRulePrefix(r)
           t == m[key]
           u == Insertion(heap[t], r)
<1>1. /\ key \in DOMAIN m /\ all_priority_tuples' = m /\ heap' = [heap EXCEPT ![t] = u]
      /\ priority_tuples_vector' \in SortIf(InsertChangesPriority(heap[t], r), s, heap')
  BY DEF InsertIntoTuple
<1>2. /\ heap \in Heap /\ s \in Seq(Ptr) /\ rules \in Seq(Rule)
      /\ Distinct(s) /\ Distinct(m) /\ Distinct(rules) /\ Elements(s) = Elements(m)
      /\ Ordered(s, heap)
      /\ \A k \in DOMAIN m : heap[m[k]] # Freed /\ Exact(heap[m[k]], k, Elements(rules))
      /\ \A q \in Elements(rules) : KeyRulePrefix(q) \in DOMAIN m
  BY DEF TablesInv
<1>3. \A k \in DOMAIN m : m[k] \in Ptr /\ heap[m[k]] \in PriorityTuple /\ heap[m[k]].maxPriority \in Nat
  BY MapLeadsToTuples
<1>4. /\ rules' \in Seq(Rule) /\ Distinct(rules') /\ Elements(rules') = Elements(rules) \cup {r}
      /\ Elements(rules) \in SUBSET Rule
  BY <1>2, AppendDistinct, ElementOfSeq DEF Elements
<1>5. /\ Exact(u, key, Elements(rules) \cup {r})
      /\ ~InsertChangesPriority(heap[t], r) => u.maxPriority = heap[t].maxPriority
  BY <1>1, <1>2, <1>4, InsertionExact
<1>6. u \in PriorityTuple /\ u.maxPriority \in Nat
  BY <1>5 DEF Exact, PriorityTuple
<1> HIDE DEF u
<1>7. heap' \in Heap /\ heap'[t] = u /\ \A p \in Ptr : p # t => heap'[p] = heap[p]
  BY <1>1, <1>2, <1>3, <1>6 DEF Heap
<1>8. \A k \in DOMAIN m : k # key => m[k] # t
  BY <1>1, <1>2 DEF Distinct
<1>9. ASSUME NEW p \in Elements(s) PROVE heap'[p].maxPriority \in Int
  <2>1. PICK k \in DOMAIN m : m[k] = p
    BY <1>2 DEF Elements
  <2>2. p \in Ptr /\ heap[p].maxPriority \in Nat
    BY <1>3, <2>1
  <2>3. CASE p = t
    BY <1>6, <1>7, <2>3
  <2>4. CASE p # t
    BY <1>7, <2>2, <2>4
  <2> QED BY <2>3, <2>4
<1>10. ~InsertChangesPriority(heap[t], r) => Ordered(s, heap')
  <2>1. \A i \in DOMAIN s : s[i] \in Ptr
    BY <1>2, ElementOfSeq
  <2> QED BY <1>2, <1>5, <1>7, <2>1 DEF Ordered
<1>11. /\ priority_tuples_vector' \in Seq(Ptr) /\ Distinct(priority_tuples_vector')
       /\ Elements(priority_tuples_vector') = Elements(s) /\ Ordered(priority_tuples_vector', heap')
  <2>1. InsertChangesPriority(heap[t], r) \in BOOLEAN
    BY DEF InsertChangesPriority
  <2> HIDE DEF t, s
  <2> QED BY <1>1, <1>2, <1>9, <1>10, <2>1, SortIfProperties
<1>12. ASSUME NEW k \in DOMAIN m
       PROVE  heap'[m[k]] # Freed /\ Exact(heap'[m[k]], k, Elements(rules'))
  <2>1. CASE k = key
    BY <1>4, <1>5, <1>6, <1>7, <2>1, FreedAssumption
  <2>2. CASE k # key
    <3>1. heap'[m[k]] = heap[m[k]]
      BY <1>3, <1>7, <1>8, <2>2
    <3>2. Exact(heap[m[k]], k, Elements(rules) \cup {r})
      BY <1>2, <2>2, OtherKeyExact
    <3> QED BY <1>2, <1>4, <3>1, <3>2
  <2> QED BY <2>1, <2>2
<1>13. \A q \in Elements(rules') : KeyRulePrefix(q) \in DOMAIN m
  BY <1>1, <1>2, <1>4
<1> QED BY <1>1, <1>2, <1>4, <1>7, <1>11, <1>12, <1>13 DEF TablesInv

\* Insertion into a new tuple keeps the tables.
LEMMA CreateTupleKeepsTables ==
  ASSUME TablesInv(heap, all_priority_tuples, priority_tuples_vector, rules),
         NEW r \in Rule, r \notin Elements(rules), CreateTuple(r), rules' = Append(rules, r)
  PROVE  TablesInv(heap', all_priority_tuples', priority_tuples_vector', rules')
<1> DEFINE m == all_priority_tuples
           n == all_priority_tuples'
           s == priority_tuples_vector
           key == KeyRulePrefix(r)
           u == NewTuple(r)
<1>1. PICK t \in Ptr :
        /\ key \notin DOMAIN m /\ heap[t] = Freed /\ heap' = [heap EXCEPT ![t] = u]
        /\ n = [k \in DOMAIN m \cup {key} |-> IF k = key THEN t ELSE m[k]]
        /\ priority_tuples_vector' \in RetainInvariantOfPriorityVector(Append(s, t), heap')
  BY DEF CreateTuple
<1>2. /\ heap \in Heap /\ s \in Seq(Ptr) /\ rules \in Seq(Rule)
      /\ Distinct(s) /\ Distinct(m) /\ Distinct(rules) /\ Elements(s) = Elements(m)
      /\ \A k \in DOMAIN m : heap[m[k]] # Freed /\ Exact(heap[m[k]], k, Elements(rules))
      /\ \A q \in Elements(rules) : KeyRulePrefix(q) \in DOMAIN m
  BY DEF TablesInv
<1>3. \A k \in DOMAIN m : m[k] \in Ptr /\ heap[m[k]] \in PriorityTuple /\ heap[m[k]].maxPriority \in Nat
  BY MapLeadsToTuples
<1>4. /\ rules' \in Seq(Rule) /\ Distinct(rules') /\ Elements(rules') = Elements(rules) \cup {r}
      /\ Elements(rules) \in SUBSET Rule
  BY <1>2, AppendDistinct, ElementOfSeq DEF Elements
<1>5. Exact(u, key, Elements(rules) \cup {r})
  BY <1>1, <1>2, <1>4, NewTupleExact
<1>6. u \in PriorityTuple /\ u.maxPriority \in Nat
  BY <1>5 DEF Exact, PriorityTuple
<1> HIDE DEF u, n
<1>7. heap' \in Heap /\ heap'[t] = u /\ \A p \in Ptr : p # t => heap'[p] = heap[p]
  BY <1>1, <1>2, <1>6 DEF Heap
<1>8. t \notin Elements(m)
  BY <1>1, <1>2 DEF Elements
<1>9. /\ DOMAIN n = DOMAIN m \cup {key} /\ n[key] = t /\ \A k \in DOMAIN m : n[k] = m[k]
  BY <1>1
<1>10. Distinct(n) /\ Elements(n) = Elements(m) \cup {t}
  BY <1>2, <1>8, <1>9 DEF Distinct, Elements
<1>11. /\ Append(s, t) \in Seq(Ptr) /\ Distinct(Append(s, t))
       /\ Elements(Append(s, t)) = Elements(n)
  BY <1>2, <1>8, <1>10, AppendDistinct
<1>12. \A p \in Elements(n) : heap'[p].maxPriority \in Int
  BY <1>3, <1>6, <1>7, <1>10 DEF Elements
<1>13. /\ priority_tuples_vector' \in Seq(Ptr) /\ Distinct(priority_tuples_vector')
       /\ Elements(priority_tuples_vector') = Elements(n) /\ Ordered(priority_tuples_vector', heap')
  <2> HIDE DEF s
  <2> QED BY <1>1, <1>11, <1>12, SortProperties
<1>14. ASSUME NEW k \in DOMAIN n
       PROVE  heap'[n[k]] # Freed /\ Exact(heap'[n[k]], k, Elements(rules'))
  <2>1. CASE k = key
    BY <1>4, <1>5, <1>6, <1>7, <1>9, <2>1, FreedAssumption
  <2>2. CASE k \in DOMAIN m /\ k # key
    <3>1. heap'[n[k]] = heap[m[k]]
      BY <1>3, <1>7, <1>8, <1>9, <2>2 DEF Elements
    <3>2. Exact(heap[m[k]], k, Elements(rules) \cup {r})
      BY <1>2, <2>2, OtherKeyExact
    <3> QED BY <1>2, <1>4, <2>2, <3>1, <3>2
  <2> QED BY <1>9, <2>1, <2>2
<1>15. \A q \in Elements(rules') : KeyRulePrefix(q) \in DOMAIN n
  BY <1>2, <1>4, <1>9
<1> QED BY <1>4, <1>7, <1>10, <1>13, <1>14, <1>15 DEF TablesInv, n

\* Deletion, with the emptied tuple sorted to the back and popped, keeps the tables.
LEMMA DeleteRuleKeepsTables ==
  ASSUME TablesInv(heap, all_priority_tuples, priority_tuples_vector, rules),
         NEW i \in DOMAIN rules, DeleteRule(i)
  PROVE  TablesInv(heap', all_priority_tuples', priority_tuples_vector', rules')
<1> DEFINE m == all_priority_tuples
           n == all_priority_tuples'
           s == priority_tuples_vector
           r == rules[i]
           key == KeyRulePrefix(r)
           t == m[key]
           u == Deletion(heap[t], r)
           h == [heap EXCEPT ![t] = u]
           change == DeleteChangesPriority(heap[t], r)
<1>1. /\ key \in DOMAIN m /\ rules' = MoveLastInto(rules, i)
      /\ IsEmpty(h[t]) => /\ n = [k \in DOMAIN m \ {key} |-> m[k]]
                          /\ priority_tuples_vector' \in SortAndPop(t, h)
                          /\ heap' = [h EXCEPT ![t] = Freed]
      /\ ~IsEmpty(h[t]) => /\ priority_tuples_vector' \in SortIf(change, s, h)
                           /\ heap' = h /\ n = m
  BY DEF DeleteRule
<1>2. /\ heap \in Heap /\ s \in Seq(Ptr) /\ rules \in Seq(Rule)
      /\ Distinct(s) /\ Distinct(m) /\ Distinct(rules) /\ Elements(s) = Elements(m)
      /\ Ordered(s, heap)
      /\ \A k \in DOMAIN m : heap[m[k]] # Freed /\ Exact(heap[m[k]], k, Elements(rules))
      /\ \A q \in Elements(rules) : KeyRulePrefix(q) \in DOMAIN m
  BY DEF TablesInv
<1>3. \A k \in DOMAIN m : m[k] \in Ptr /\ heap[m[k]] \in PriorityTuple /\ heap[m[k]].maxPriority \in Nat
  BY MapLeadsToTuples
<1>4. /\ rules' \in Seq(Rule) /\ Distinct(rules') /\ Elements(rules') = Elements(rules) \ {r}
      /\ Elements(rules) \in SUBSET Rule /\ r \in Elements(rules)
  <2>1. rules' \in Seq(Rule)
    BY <1>1, <1>2, RemovalProperties DEF MoveLastInto
  <2>2. Distinct(rules') /\ Elements(rules') = Elements(rules) \ {r}
    BY <1>1, <1>2, RemovalDistinct DEF MoveLastInto
  <2>3. r \in Elements(rules)
    BY DEF Elements
  <2>4. \A j \in DOMAIN rules : rules[j] \in Rule
    BY <1>2, ElementOfSeq
  <2>5. Elements(rules) \in SUBSET Rule
    BY <2>4 DEF Elements
  <2> QED BY <2>1, <2>2, <2>3, <2>5
<1>5. /\ u.maxPriority \in Int
      /\ u.nodes # {} => Exact(u, key, Elements(rules) \ {r})
      /\ u.nodes = {} => u.maxPriority = NoMatch
      /\ u.nodes = heap[t].nodes \ {r}
      /\ ~change => u.nodes # {} /\ u.maxPriority = heap[t].maxPriority
  <2>1. Exact(heap[t], key, Elements(rules))
    BY <1>1, <1>2
  <2> HIDE DEF t, r
  <2>2. u.maxPriority \in Int /\ u.nodes = heap[t].nodes \ {r}
    BY <1>4, <2>1, DeletionExact
  <2>3. u.nodes # {} => Exact(u, key, Elements(rules) \ {r})
    BY <1>4, <2>1, DeletionExact
  <2>4. u.nodes = {} => u.maxPriority = NoMatch
    BY <1>4, <2>1, DeletionExact, ZenonT(60)
  <2>5. ~change => u.nodes # {} /\ u.maxPriority = heap[t].maxPriority
    BY <1>4, <2>1, DeletionExact
  <2> QED BY <2>2, <2>3, <2>4, <2>5
<1> HIDE DEF u, change
<1>6. t \in Ptr /\ t \in Elements(s)
  BY <1>1, <1>2, <1>3 DEF Elements
<1>7. h[t] = u /\ \A p \in Ptr : p # t => h[p] = heap[p]
  BY <1>2, <1>6 DEF Heap
<1>8. \A k \in DOMAIN m : k # key => m[k] # t
  BY <1>1, <1>2 DEF Distinct
<1>9. ASSUME NEW p \in Elements(s)
      PROVE  p \in Ptr /\ heap[p].maxPriority \in Nat /\ h[p].maxPriority \in Int
  <2>1. PICK k \in DOMAIN m : m[k] = p
    BY <1>2 DEF Elements
  <2>2. p \in Ptr /\ heap[p].maxPriority \in Nat
    BY <1>3, <2>1
  <2>3. CASE p = t
    BY <1>5, <1>7, <2>2, <2>3
  <2>4. CASE p # t
    BY <1>7, <2>2, <2>4
  <2> QED BY <2>3, <2>4
<1>10. \A k \in DOMAIN m : k # key => /\ h[m[k]] = heap[m[k]] /\ heap[m[k]] # Freed
                                      /\ Exact(heap[m[k]], k, Elements(rules'))
  <2> SUFFICES ASSUME NEW k \in DOMAIN m, k # key
               PROVE  /\ h[m[k]] = heap[m[k]] /\ heap[m[k]] # Freed
                      /\ Exact(heap[m[k]], k, Elements(rules'))
    OBVIOUS
  <2>1. h[m[k]] = heap[m[k]] /\ heap[m[k]] # Freed
    BY <1>2, <1>3, <1>7, <1>8
  <2>2. Elements(rules') \cup {r} = Elements(rules) \cup {r}
    BY <1>4
  <2>3. Exact(heap[m[k]], k, Elements(rules))
    BY <1>2
  <2> HIDE DEF r
  <2>4. Exact(heap[m[k]], k, Elements(rules'))
    BY <2>2, <2>3, OtherKeyExact
  <2> QED BY <2>1, <2>4
<1> HIDE DEF h
<1>11. CASE ~IsEmpty(u)
  <2>1. /\ priority_tuples_vector' \in SortIf(change, s, h) /\ heap' = h /\ n = m
        /\ u.nodes # {}
    BY <1>1, <1>7, <1>11 DEF IsEmpty
  <2>2. Exact(u, key, Elements(rules')) /\ u \in PriorityTuple
    BY <1>4, <1>5, <2>1 DEF Exact
  <2>3. heap' \in Heap
    BY <1>2, <1>6, <2>1, <2>2 DEF Heap, h
  <2>4. ~change => Ordered(s, h)
    <3>1. \A j \in DOMAIN s : s[j] \in Ptr
      BY <1>2, ElementOfSeq
    <3> QED BY <1>2, <1>5, <1>7, <3>1 DEF Ordered
  <2>5. change \in BOOLEAN
    BY DEF change, DeleteChangesPriority
  <2>6. /\ priority_tuples_vector' \in Seq(Ptr) /\ Distinct(priority_tuples_vector')
        /\ Elements(priority_tuples_vector') = Elements(s) /\ Ordered(priority_tuples_vector', h)
    <3> HIDE DEF s, t
    <3> QED BY <1>2, <1>9, <2>1, <2>4, <2>5, SortIfProperties
  <2>7. \A k \in DOMAIN m : heap'[m[k]] # Freed /\ Exact(heap'[m[k]], k, Elements(rules'))
    BY <1>7, <1>10, <2>1, <2>2, FreedAssumption
  <2> QED BY <1>2, <1>4, <2>1, <2>3, <2>6, <2>7 DEF TablesInv
<1>12. CASE IsEmpty(u)
  <2>1. /\ n = [k \in DOMAIN m \ {key} |-> m[k]]
        /\ priority_tuples_vector' \in SortAndPop(t, h)
        /\ heap' = [h EXCEPT ![t] = Freed] /\ u.nodes = {}
    BY <1>1, <1>7, <1>12 DEF IsEmpty
  <2>2. PICK z \in RetainInvariantOfPriorityVector(s, h) :
          priority_tuples_vector' = SubSeq(z, 1, Len(z) - 1)
    BY <2>1 DEF SortAndPop
  <2>3. z \in Seq(Ptr) /\ Distinct(z) /\ Elements(z) = Elements(s) /\ Ordered(z, h)
    <3> HIDE DEF s, t
    <3> QED BY <1>2, <1>9, <2>2, SortProperties
  <2>4. h[t].maxPriority = NoMatch /\ \A p \in Elements(z) : p # t => h[p].maxPriority \in Nat
    BY <1>5, <1>7, <1>9, <2>1, <2>3
  <2>5. /\ priority_tuples_vector' \in Seq(Ptr) /\ Distinct(priority_tuples_vector')
        /\ Ordered(priority_tuples_vector', h)
        /\ Elements(priority_tuples_vector') = Elements(s) \ {t}
    <3> HIDE DEF s, t
    <3> QED BY <1>6, <2>2, <2>3, <2>4, EmptiedTupleIsLast
  <2>6. heap' \in Heap /\ \A p \in Ptr : p # t => heap'[p] = h[p]
    BY <1>2, <1>6, <1>7, <2>1 DEF Heap, h
  <2>7. Ordered(priority_tuples_vector', heap')
    <3>1. \A k \in DOMAIN priority_tuples_vector' :
            priority_tuples_vector'[k] \in Ptr /\ priority_tuples_vector'[k] # t
      BY <1>9, <2>5 DEF Elements
    <3> QED BY <2>5, <2>6, <3>1 DEF Ordered
  <2> HIDE DEF n
  <2>8. DOMAIN n = DOMAIN m \ {key} /\ \A k \in DOMAIN n : n[k] = m[k]
    BY <2>1
  <2>9. Distinct(n) /\ Elements(n) = Elements(m) \ {t}
    BY <1>1, <1>2, <1>8, <2>8 DEF Distinct, Elements
  <2>10. ASSUME NEW k \in DOMAIN n
         PROVE  heap'[n[k]] # Freed /\ Exact(heap'[n[k]], k, Elements(rules'))
    <3>1. heap'[n[k]] = heap[m[k]]
      BY <1>3, <1>8, <1>10, <2>6, <2>8
    <3> QED BY <1>10, <2>8, <3>1
  <2>11. \A q \in Elements(rules') : KeyRulePrefix(q) \in DOMAIN n
    <3>1. \A q \in heap[t].nodes : q = r
      BY <1>5, <2>1
    <3>2. heap[t].nodes = {q \in Elements(rules) : KeyRulePrefix(q) = key}
      BY <1>1, <1>2 DEF Exact
    <3> QED BY <1>2, <1>4, <2>8, <3>1, <3>2
  <2> QED BY <1>2, <1>4, <2>5, <2>6, <2>7, <2>9, <2>10, <2>11 DEF TablesInv, n
<1> QED BY <1>11, <1>12

------------------------------------------------------------------------------
(* The invariant of the tables                                             *)

CallTypeOK ==
    /\ pc \in {"ready", "loop", "return"}
    /\ packet \in Packet \cup {NoPacket}
    /\ (pc = "ready") <=> (packet = NoPacket)
    /\ at \in Nat \ {0} /\ best \in Int

Tables == TablesInv(heap, all_priority_tuples, priority_tuples_vector, rules)

IInv == Tables /\ CallTypeOK

\* The empty classifier satisfies the invariant.
LEMMA InitInv == Init => IInv
<1> SUFFICES ASSUME Init PROVE IInv
  OBVIOUS
<1>1. /\ DOMAIN priority_tuples_vector = {} /\ DOMAIN rules = {} /\ DOMAIN all_priority_tuples = {}
      /\ priority_tuples_vector \in Seq(Ptr) /\ rules \in Seq(Rule) /\ heap \in Heap
  BY DEF Init, Heap
<1>2. Tables
  BY <1>1 DEF Tables, TablesInv, Distinct, Elements, Ordered
<1>3. CallTypeOK
  BY DEF Init, CallTypeOK, NoMatch
<1> QED BY <1>2, <1>3 DEF IInv

\* What a position of the vector leads to.
LEMMA TupleAtPosition ==
  ASSUME Tables, NEW j \in DOMAIN priority_tuples_vector
  PROVE  LET t == heap[priority_tuples_vector[j]]
         IN  /\ \E k : Exact(t, k, Elements(rules))
             /\ t.nodes \in SUBSET Rule /\ t.maxPriority \in Nat
             /\ \A r \in t.nodes : priority[r] <= t.maxPriority
             /\ t.nodes \subseteq Elements(rules)
<1>1. PICK k \in DOMAIN all_priority_tuples : all_priority_tuples[k] = priority_tuples_vector[j]
  BY DEF Tables, TablesInv, Elements
<1> DEFINE t == heap[priority_tuples_vector[j]]
<1>2. Exact(t, k, Elements(rules))
  BY <1>1 DEF Tables, TablesInv
<1> HIDE DEF t
<1>3. t \in PriorityTuple
  BY <1>2 DEF Exact
<1>4. t.nodes \in SUBSET Rule /\ t.maxPriority \in Nat
  BY <1>3 DEF PriorityTuple
<1>5. (\A r \in t.nodes : priority[r] <= t.maxPriority) /\ t.nodes \subseteq Elements(rules)
  BY <1>2 DEF Exact
<1> QED BY <1>2, <1>4, <1>5 DEF t

\* Every step keeps the invariant: one case per action.
LEMMA NextInv == IInv /\ [Next]_vars => IInv'
<1> SUFFICES ASSUME IInv, [Next]_vars PROVE IInv'
  OBVIOUS
<1>1. Tables /\ CallTypeOK
  BY DEF IInv
<1>2. ASSUME NEW r \in Rule, InsertRule(r) PROVE IInv'
  <2>1. UNCHANGED call /\ r \notin Elements(rules) /\ rules' = Append(rules, r)
    BY <1>2 DEF InsertRule, Elements
  <2>2. CASE InsertIntoTuple(r)
    <3>1. Tables'
      BY <1>1, <2>1, <2>2, InsertIntoTupleKeepsTables DEF Tables
    <3> QED BY <1>1, <2>1, <3>1 DEF IInv, CallTypeOK, call
  <2>3. CASE CreateTuple(r)
    <3>1. Tables'
      BY <1>1, <2>1, <2>3, CreateTupleKeepsTables DEF Tables
    <3> QED BY <1>1, <2>1, <3>1 DEF IInv, CallTypeOK, call
  <2> QED BY <1>2, <2>2, <2>3 DEF InsertRule
<1>3. ASSUME NEW i \in DOMAIN rules, DeleteRule(i) PROVE IInv'
  <2>1. UNCHANGED call
    BY <1>3 DEF DeleteRule
  <2>2. Tables'
    BY <1>1, <1>3, DeleteRuleKeepsTables DEF Tables
  <2> QED BY <1>1, <2>1, <2>2 DEF IInv, CallTypeOK, call
<1>4. ASSUME NEW p \in Packet, ClassifyAPacket(p) PROVE IInv'
  <2>1. Tables'
    BY <1>1, <1>4 DEF ClassifyAPacket, Tables, tables
  <2>2. CallTypeOK'
    BY <1>4, TupleAssumption DEF ClassifyAPacket, CallTypeOK, NoMatch
  <2> QED BY <2>1, <2>2 DEF IInv
<1>5. ASSUME QueryNextTuple PROVE IInv'
  <2>1. Tables'
    BY <1>1, <1>5 DEF QueryNextTuple, Tables, tables
  <2> DEFINE t == heap[priority_tuples_vector[at]]
  <2>2. at \in DOMAIN priority_tuples_vector
    BY <1>1, <1>5 DEF QueryNextTuple, Tables, TablesInv, CallTypeOK
  <2>3. Chain(t, HashPacket(t, packet)) \in SUBSET Rule
    BY <1>1, <2>2, TupleAtPosition DEF Chain
  <2>4. FindMatchPacket(t, packet) \in Int
    BY <2>3, ScanIsBest DEF FindMatchPacket
  <2> HIDE DEF t
  <2>5. Max({best, FindMatchPacket(t, packet)}) \in Int
    BY <1>1, <2>4, MaxOfTwo DEF CallTypeOK
  <2>6. CallTypeOK'
    BY <1>1, <1>5, <2>5 DEF QueryNextTuple, CallTypeOK, t
  <2> QED BY <2>1, <2>6 DEF IInv
<1>6. ASSUME BreakOut \/ EndOfTuples PROVE IInv'
  <2>1. Tables'
    BY <1>1, <1>6 DEF BreakOut, EndOfTuples, Tables, tables
  <2>2. CallTypeOK'
    BY <1>1, <1>6 DEF BreakOut, EndOfTuples, CallTypeOK
  <2> QED BY <2>1, <2>2 DEF IInv
<1>7. ASSUME Return PROVE IInv'
  <2>1. Tables'
    BY <1>1, <1>7 DEF Return, Tables, tables
  <2>2. CallTypeOK'
    BY <1>7 DEF Return, CallTypeOK, NoMatch
  <2> QED BY <2>1, <2>2 DEF IInv
<1>8. CASE UNCHANGED vars
  BY <1>1, <1>8 DEF vars, IInv, Tables, CallTypeOK
<1> QED BY <1>2, <1>3, <1>4, <1>5, <1>6, <1>7, <1>8 DEF Next

\* The invariant holds in every reachable state.
THEOREM Invariance == Spec => []IInv
BY InitInv, NextInv, PTL DEF Spec

\* Map and vector lead to the same live, non-empty tuples: the pointer popped off
\* the sorted vector is always that of the tuple erased from the map.
THEOREM TuplesStayOwned == Spec => []TuplesAreOwned
<1>1. ASSUME IInv PROVE TuplesAreOwned
  <2>1. \A k \in DOMAIN all_priority_tuples : heap[all_priority_tuples[k]].nodes # {}
    BY <1>1 DEF IInv, Tables, TablesInv, Exact
  <2>2. /\ Elements(priority_tuples_vector) = Elements(all_priority_tuples)
        /\ Distinct(priority_tuples_vector) /\ Distinct(all_priority_tuples)
        /\ \A k \in DOMAIN all_priority_tuples : heap[all_priority_tuples[k]] # Freed
    BY <1>1 DEF IInv, Tables, TablesInv
  <2> QED BY <2>1, <2>2 DEF TuplesAreOwned, Elements, Distinct, IsInjective
<1> QED BY <1>1, Invariance, PTL

\* Each tuple holds the installed rules with its prefix lengths, with their
\* priorities and their maximum.
THEOREM TuplesStayExact == Spec => []BookkeepingIsExact
<1>1. ASSUME IInv PROVE BookkeepingIsExact
  <2>1. /\ Distinct(rules)
        /\ \A r \in Elements(rules) : KeyRulePrefix(r) \in DOMAIN all_priority_tuples
        /\ \A k \in DOMAIN all_priority_tuples :
              Exact(heap[all_priority_tuples[k]], k, Elements(rules))
    BY <1>1 DEF IInv, Tables, TablesInv
  <2>2. ASSUME NEW t, NEW k, Exact(t, k, Elements(rules))
        PROVE  /\ t.nodes = {r \in Elements(rules) : KeyRulePrefix(r) = k}
               /\ t.priority_container = {priority[r] : r \in t.nodes}
               /\ t.maxPriority = Max(t.priority_container)
    <3>1. t.priority_container \in SUBSET Nat
      BY <2>2 DEF Exact, PriorityTuple
    <3>2. /\ t.maxPriority \in t.priority_container
          /\ \A p \in t.priority_container : p <= t.maxPriority
      BY <2>2 DEF Exact
    <3>3. t.maxPriority = Max(t.priority_container)
      BY <3>1, <3>2, MaxProperty
    <3> QED BY <2>2, <3>3 DEF Exact
  <2> QED BY <2>1, <2>2 DEF BookkeepingIsExact, Elements, Distinct, IsInjective
<1> QED BY <1>1, Invariance, PTL

------------------------------------------------------------------------------
(* One lookup                                                              *)

\* Quotient and remainder.
LEMMA Division ==
  ASSUME NEW x \in Nat, NEW d \in Nat \ {0}
  PROVE  x \div d \in Int /\ x % d \in 0 .. d - 1 /\ x = d * (x \div d) + (x % d)
OBVIOUS

\* Multiples of d that are less than d apart are the same.
LEMMA SameQuotient ==
  ASSUME NEW d \in Nat \ {0}, NEW a \in Int, NEW b \in Int,
         d * a - d * b < d, d * b - d * a < d
  PROVE  a = b
<1>1. CASE a > b
  <2>1. d * (a - b) >= d
    <3>1. a - b >= 1
      BY <1>1
    <3> DEFINE c == a - b
    <3>2. c \in Int /\ c >= 1
      BY <3>1
    <3> HIDE DEF c
    <3>3. d * c >= d
      BY <3>2
    <3> QED BY <3>3 DEF c
  <2>2. d * (a - b) = d * a - d * b
    OBVIOUS
  <2> QED BY <2>1, <2>2
<1>2. CASE b > a
  <2>1. d * (b - a) >= d
    <3>1. b - a >= 1
      BY <1>2
    <3> DEFINE c == b - a
    <3>2. c \in Int /\ c >= 1
      BY <3>1
    <3> HIDE DEF c
    <3>3. d * c >= d
      BY <3>2
    <3> QED BY <3>3 DEF c
  <2>2. d * (b - a) = d * b - d * a
    OBVIOUS
  <2> QED BY <2>1, <2>2
<1> QED BY <1>1, <1>2

\* Clearing the low bits of any address of a prefix gives its first address.
LEMMA MaskedIsLow ==
  ASSUME NEW low \in Nat, NEW high \in Nat, NEW x \in Nat, low <= x, x <= high,
         low % (high - low + 1) = 0
  PROVE  x - (x % (high - low + 1)) = low
<1> DEFINE d == high - low + 1
<1>1. d \in Nat \ {0} /\ low % d = 0 /\ x - low < d /\ x - low >= 0
  OBVIOUS
<1> HIDE DEF d
<1>2. x \div d \in Int /\ x % d \in 0 .. d - 1 /\ x = d * (x \div d) + (x % d)
  BY <1>1, Division
<1>3. low \div d \in Int /\ low = d * (low \div d)
  BY <1>1, Division
<1> DEFINE a == x \div d
           b == low \div d
           y == x % d
<1>4. a \in Int /\ b \in Int /\ y \in Int /\ y >= 0 /\ y < d /\ x = d * a + y /\ low = d * b
  BY <1>1, <1>2, <1>3
<1> HIDE DEF a, b, y
<1>5. a = b
  <2> DEFINE da == d * a
             db == d * b
  <2>1. da \in Int /\ db \in Int /\ x = da + y /\ low = db
    BY <1>1, <1>4
  <2> HIDE DEF da, db
  <2>2. da - db < d /\ db - da < d
    BY <1>1, <1>4, <2>1
  <2> QED BY <1>1, <1>4, <2>2, SameQuotient DEF da, db
<1>6. x - y = low
  BY <1>1, <1>4, <1>5
<1> QED BY <1>6 DEF y, d

\* Both address fields of every rule are prefixes, as in every ClassBench file.
AddressesArePrefixes == \A r \in Rule : IsPrefix(range[r][SA]) /\ IsPrefix(range[r][DA])

\* A packet masked to a rule's prefix length has the rule's own lower bound.
LEMMA MaskedToLowerBound ==
  ASSUME NEW r \in Rule, NEW p \in Packet, MatchesPacket(r, p),
         NEW f \in {SA, DA}, IsPrefix(range[r][f])
  PROVE  Masked(p[f], prefix_length(r, f)) = Low(r, f)
<1>1. f \in Field
  BY TupleAssumption, RulesAssumption DEF Field, SA, DA
<1> DEFINE low == range[r][f][1]
           high == range[r][f][2]
           n == Length(range[r][f])
<1>2. low \in Nat /\ high \in Nat /\ p[f] \in Nat
  BY <1>1, RulesAssumption
<1>3. low <= p[f] /\ p[f] <= high
  BY <1>1 DEF MatchesPacket, Low, High
<1>4. 2 ^ (AddressBits - n) = high - low + 1
  BY LengthOfPrefix
<1>5. low % (high - low + 1) = 0
  BY DEF IsPrefix
<1>6. prefix_length(r, f) = n
  BY DEF prefix_length
<1> HIDE DEF low, high, n
<1>7. p[f] - (p[f] % (high - low + 1)) = low
  BY <1>2, <1>3, <1>5, MaskedIsLow
<1>8. Masked(p[f], n) = p[f] - (p[f] % (high - low + 1))
  BY <1>4 DEF Masked
<1> QED BY <1>6, <1>7, <1>8 DEF low, Low

\* The chain looked up has every rule of the tuple that matches the packet.
LEMMA LookupIsExact ==
  ASSUME AddressesArePrefixes, NEW U \in SUBSET Rule, NEW t, NEW k, Exact(t, k, U),
         NEW p \in Packet
  PROVE  FindMatchPacket(t, p) = BestPriority(t.nodes, p)
<1>1. ASSUME NEW r \in t.nodes, MatchesPacket(r, p) PROVE HashRule(r) = HashPacket(t, p)
  <2>1. r \in Rule /\ t.lengths = <<prefix_length(r, SA), prefix_length(r, DA)>>
    BY DEF Exact
  <2>2. /\ Masked(p[SA], prefix_length(r, SA)) = Low(r, SA)
        /\ Masked(p[DA], prefix_length(r, DA)) = Low(r, DA)
    BY <1>1, <2>1, MaskedToLowerBound DEF AddressesArePrefixes
  <2>3. t.lengths[1] = prefix_length(r, SA) /\ t.lengths[2] = prefix_length(r, DA)
    BY <2>1
  <2> QED BY <2>2, <2>3 DEF HashRule, HashPacket
<1>2. Matching(Chain(t, HashPacket(t, p)), p) = Matching(t.nodes, p)
  BY <1>1 DEF Matching, Chain
<1> QED BY <1>2 DEF FindMatchPacket, BestPriority

------------------------------------------------------------------------------
(* The early exit                                                          *)

NodesIn(n) == UNION {heap[priority_tuples_vector[k]].nodes : k \in 1 .. n}

\* Inside a classification: best is the answer of the tuples already tried.
LoopInv ==
    pc # "ready" =>
        /\ at <= Len(priority_tuples_vector) + 1
        /\ IsBestPriority(best, NodesIn(at - 1), packet)
        /\ pc = "return" => \/ at > Len(priority_tuples_vector)
                            \/ best > MaxPriority(priority_tuples_vector[at])

\* Positions of the vector are numbers up to its length.
LEMMA VectorType ==
  ASSUME Tables
  PROVE  Len(priority_tuples_vector) \in Nat
         /\ DOMAIN priority_tuples_vector = 1 .. Len(priority_tuples_vector)
BY DEF Tables, TablesInv

\* One more tuple adds its rules to those already searched.
LEMMA NodesInStep ==
  ASSUME NEW n \in Nat, n # 0
  PROVE  NodesIn(n) = NodesIn(n - 1) \cup heap[priority_tuples_vector[n]].nodes
<1>1. 1 .. n = (1 .. n - 1) \cup {n}
  OBVIOUS
<1> QED BY <1>1 DEF NodesIn

\* The tuples hold installed rules, and together all of them.
LEMMA NodesInAreRules ==
  ASSUME Tables, NEW n \in Nat, n <= Len(priority_tuples_vector)
  PROVE  /\ NodesIn(n) \in SUBSET Rule /\ NodesIn(n) \subseteq Elements(rules)
         /\ n = Len(priority_tuples_vector) => NodesIn(n) = Elements(rules)
<1>1. \A k \in 1 .. n : k \in DOMAIN priority_tuples_vector
  BY VectorType
<1>2. \A k \in 1 .. n : /\ heap[priority_tuples_vector[k]].nodes \in SUBSET Rule
                        /\ heap[priority_tuples_vector[k]].nodes \subseteq Elements(rules)
  BY <1>1, TupleAtPosition
<1>3. ASSUME n = Len(priority_tuples_vector), NEW r \in Elements(rules) PROVE r \in NodesIn(n)
  <2>1. KeyRulePrefix(r) \in DOMAIN all_priority_tuples
    BY DEF Tables, TablesInv
  <2>2. PICK k \in DOMAIN priority_tuples_vector :
          priority_tuples_vector[k] = all_priority_tuples[KeyRulePrefix(r)]
    BY <2>1 DEF Tables, TablesInv, Elements
  <2>3. Exact(heap[priority_tuples_vector[k]], KeyRulePrefix(r), Elements(rules))
    BY <2>1, <2>2 DEF Tables, TablesInv
  <2>4. r \in heap[priority_tuples_vector[k]].nodes
    BY <2>3 DEF Exact
  <2> QED BY <1>3, <2>4, VectorType DEF NodesIn
<1> QED BY <1>2, <1>3 DEF NodesIn

\* Together the tuples hold the installed rules.
LEMMA AllNodesAreInstalled ==
  ASSUME Tables
  PROVE  /\ NodesIn(Len(priority_tuples_vector)) = Elements(rules)
         /\ Elements(rules) \in SUBSET Rule
<1>1. Len(priority_tuples_vector) \in Nat
      /\ Len(priority_tuples_vector) <= Len(priority_tuples_vector)
  BY VectorType
<1> DEFINE n == Len(priority_tuples_vector)
<1>2. NodesIn(n) = Elements(rules)
  BY <1>1, NodesInAreRules
<1>3. NodesIn(n) \in SUBSET Rule
  BY <1>1, NodesInAreRules
<1> HIDE DEF n
<1>4. Elements(rules) \in SUBSET Rule
  BY <1>2, <1>3
<1> QED BY <1>2, <1>4 DEF n

\* One lookup finds the best rule of its tuple.
LEMMA QueryNextTupleKeepsLoopInv ==
  ASSUME AddressesArePrefixes, IInv, LoopInv, QueryNextTuple
  PROVE  LoopInv'
<1> DEFINE t == heap[priority_tuples_vector[at]]
           w == FindMatchPacket(t, packet)
<1>1. Tables /\ CallTypeOK
  BY DEF IInv
<1>2. /\ pc = "loop" /\ at <= Len(priority_tuples_vector) /\ at' = at + 1 /\ best' = Max({best, w})
      /\ UNCHANGED <<heap, priority_tuples_vector, rules, pc, packet>>
  BY DEF QueryNextTuple, tables
<1>3. /\ at \in Nat \ {0} /\ at \in DOMAIN priority_tuples_vector /\ best \in Int
      /\ packet \in Packet
  BY <1>1, <1>2, VectorType DEF CallTypeOK
<1>4. /\ \E k : Exact(t, k, Elements(rules))
      /\ t.nodes \in SUBSET Rule
  BY <1>1, <1>3, TupleAtPosition
<1>5. Elements(rules) \in SUBSET Rule
  BY <1>1, AllNodesAreInstalled
<1> HIDE DEF t
<1>6. w = BestPriority(t.nodes, packet)
  BY <1>3, <1>4, <1>5, LookupIsExact
<1> HIDE DEF w
<1>7. IsBestPriority(w, t.nodes, packet) /\ w \in Int
  BY <1>4, <1>6, ScanIsBest
<1>8. NodesIn(at - 1) \in SUBSET Rule
  <2>1. at - 1 \in Nat /\ at - 1 <= Len(priority_tuples_vector)
    BY <1>1, <1>2, <1>3, VectorType
  <2> QED BY <1>1, <2>1, NodesInAreRules
<1>9. IsBestPriority(best, NodesIn(at - 1), packet)
  BY <1>2 DEF LoopInv
<1>10. IsBestPriority(Max({w, best}), NodesIn(at - 1) \cup t.nodes, packet)
  <2>1. {w, best} = {best, w}
    OBVIOUS
  <2>2. IsBestPriority(Max({best, w}), t.nodes \cup NodesIn(at - 1), packet)
    BY <1>3, <1>4, <1>7, <1>8, <1>9, CombineAnswers
  <2>3. t.nodes \cup NodesIn(at - 1) = NodesIn(at - 1) \cup t.nodes
    OBVIOUS
  <2> QED BY <2>1, <2>2, <2>3
<1>11. NodesIn(at) = NodesIn(at - 1) \cup t.nodes
  BY <1>3, NodesInStep DEF t
<1>12. IsBestPriority(best', NodesIn(at), packet)
  <2>1. {w, best} = {best, w}
    OBVIOUS
  <2> QED BY <1>2, <1>10, <1>11, <2>1 DEF w
<1>13. at' - 1 = at /\ NodesIn(at - 1)' = NodesIn(at)
  BY <1>2, <1>3 DEF NodesIn
<1>14. at' <= Len(priority_tuples_vector') + 1 /\ pc' # "return"
  BY <1>1, <1>2, <1>3, VectorType
<1>15. IsBestPriority(best', NodesIn(at - 1)', packet')
  BY <1>2, <1>12, <1>13
<1> QED BY <1>14, <1>15 DEF LoopInv

\* The other steps keep it too.
LEMMA LoopInvNext ==
  ASSUME AddressesArePrefixes, IInv, LoopInv, [Next]_vars
  PROVE  LoopInv'
<1>1. Tables /\ CallTypeOK
  BY DEF IInv
<1>2. CASE (\E r \in Rule : InsertRule(r)) \/ \E i \in DOMAIN rules : DeleteRule(i)
  BY <1>2 DEF InsertRule, DeleteRule, call, LoopInv
<1>3. CASE \E p \in Packet : ClassifyAPacket(p)
  <2>1. /\ pc' = "loop" /\ at' = 1 /\ best' = NoMatch
        /\ priority_tuples_vector' = priority_tuples_vector
    BY <1>3 DEF ClassifyAPacket, tables
  <2>2. NodesIn(at - 1)' = {}
    BY <2>1 DEF NodesIn
  <2>3. IsBestPriority(best', {}, packet')
    BY <2>1 DEF IsBestPriority, Matching
  <2>4. at' <= Len(priority_tuples_vector') + 1
    BY <1>1, <2>1, VectorType
  <2> QED BY <2>1, <2>2, <2>3, <2>4 DEF LoopInv
<1>4. CASE QueryNextTuple
  BY <1>4, QueryNextTupleKeepsLoopInv
<1>5. CASE BreakOut \/ EndOfTuples
  BY <1>1, <1>5 DEF BreakOut, EndOfTuples, tables, LoopInv, NodesIn, MaxPriority
<1>6. CASE Return
  BY <1>6 DEF Return, LoopInv
<1>7. CASE UNCHANGED vars
  BY <1>7 DEF vars, LoopInv, NodesIn, MaxPriority
<1> QED BY <1>2, <1>3, <1>4, <1>5, <1>6, <1>7 DEF Next

\* The loop invariant holds in every reachable state.
LEMMA LoopInvariance ==
  ASSUME AddressesArePrefixes
  PROVE  Spec => [](IInv /\ LoopInv)
<1>1. Init => LoopInv
  BY DEF Init, LoopInv
<1>2. IInv /\ LoopInv /\ [Next]_vars => LoopInv'
  BY LoopInvNext
<1> QED BY <1>1, <1>2, InitInv, NextInv, PTL DEF Spec

\* A tuple that was not tried has only rules below the answer.
LEMMA SkippedRulesAreBelow ==
  ASSUME IInv, LoopInv, pc = "return", NEW r \in Elements(rules), r \notin NodesIn(at - 1)
  PROVE  priority[r] < best
<1>1. Tables /\ CallTypeOK
  BY DEF IInv
<1> DEFINE s == priority_tuples_vector
<1>2. Len(s) \in Nat /\ DOMAIN s = 1 .. Len(s) /\ at \in Nat \ {0} /\ best \in Int
  BY <1>1, VectorType DEF CallTypeOK
<1>3. PICK k \in 1 .. Len(s) : r \in heap[s[k]].nodes
  <2>1. r \in NodesIn(Len(s))
    BY <1>1, AllNodesAreInstalled
  <2> QED BY <2>1 DEF NodesIn
<1>4. k >= at
  <2>1. k \in 1 .. at - 1 => r \in NodesIn(at - 1)
    BY <1>3 DEF NodesIn
  <2> QED BY <1>2, <2>1
<1>5. at \in DOMAIN s /\ k \in DOMAIN s
  BY <1>2, <1>4
<1>6. best > heap[s[at]].maxPriority
  BY <1>2, <1>4 DEF LoopInv, MaxPriority
<1>7. heap[s[at]].maxPriority \in Nat
  BY <1>1, <1>5, TupleAtPosition
<1>8. heap[s[k]].maxPriority \in Nat /\ priority[r] <= heap[s[k]].maxPriority /\ r \in Rule
  BY <1>1, <1>3, <1>5, TupleAtPosition
<1>9. heap[s[at]].maxPriority >= heap[s[k]].maxPriority
  <2>1. CASE k = at
    BY <1>8, <2>1
  <2>2. CASE k > at
    BY <1>1, <1>5, <2>2 DEF Tables, TablesInv, Ordered
  <2> QED BY <1>2, <1>4, <2>1, <2>2
<1> QED BY <1>2, <1>6, <1>7, <1>8, <1>9, PriorityType

\* In a state of the invariants the answer is that of all installed rules.
LEMMA InvariantAnswers ==
  ASSUME IInv, LoopInv
  PROVE  AnswerIsBest
<1> SUFFICES ASSUME pc = "return" PROVE IsBestPriority(best, Elements(rules), packet)
  BY DEF AnswerIsBest, Elements
<1>1. Tables /\ CallTypeOK
  BY DEF IInv
<1>2. IsBestPriority(best, NodesIn(at - 1), packet)
  BY DEF LoopInv
<1>3. at - 1 \in Nat /\ at - 1 <= Len(priority_tuples_vector) /\ best \in Int
  BY <1>1, VectorType DEF LoopInv, CallTypeOK
<1>4. NodesIn(at - 1) \subseteq Elements(rules)
  BY <1>1, <1>3, NodesInAreRules
<1>5. \A r \in Elements(rules) : r \notin NodesIn(at - 1) => priority[r] < best
  BY SkippedRulesAreBelow
<1>6. \A r \in Elements(rules) : priority[r] \in Nat
  BY <1>1, AllNodesAreInstalled, PriorityType
<1>7. CASE best = NoMatch /\ Matching(NodesIn(at - 1), packet) = {}
  <2>1. Elements(rules) \subseteq NodesIn(at - 1)
    BY <1>5, <1>6, <1>7 DEF NoMatch
  <2> QED BY <1>7, <2>1 DEF IsBestPriority, Matching
<1>8. CASE \E r \in Matching(NodesIn(at - 1), packet) :
             /\ best = priority[r]
             /\ \A q \in Matching(NodesIn(at - 1), packet) : priority[q] <= best
  <2>1. \A q \in Matching(Elements(rules), packet) : priority[q] <= best
    BY <1>3, <1>5, <1>6, <1>8 DEF Matching
  <2>2. Matching(NodesIn(at - 1), packet) \subseteq Matching(Elements(rules), packet)
    BY <1>4 DEF Matching
  <2> QED BY <1>8, <2>1, <2>2 DEF IsBestPriority
<1> QED BY <1>2, <1>7, <1>8 DEF IsBestPriority

\* When all address intervals are prefixes, a classification answers as if it had
\* scanned every installed rule, whatever the hash function.
THEOREM AnswersAreBest ==
  ASSUME AddressesArePrefixes
  PROVE  Spec => []AnswerIsBest
BY InvariantAnswers, LoopInvariance, PTL

------------------------------------------------------------------------------
(* Tuple space search implements the brute-force classifier                *)

\* The last answer, as the brute-force classifier has it.
LastAnswer == [packet |-> IF pc = "return" THEN packet ELSE NoPacket,
               priority |-> IF pc = "return" THEN best ELSE NoMatch]

\* While no classification returns, there is no answer to collect.
LEMMA NoAnswerUnlessReturning ==
  LastAnswer = IF pc = "return" THEN [packet |-> packet, priority |-> best]
               ELSE BruteForce!NoAnswer
BY DEF LastAnswer, BruteForce!NoAnswer, BruteForce!NoMatch, NoMatch

\* The reference and the classifier mean the same by the best priority.
LEMMA SameBestPriority ==
  ASSUME NEW v, NEW S, NEW p
  PROVE  BruteForce!IsBestPriority(v, S, p) <=> IsBestPriority(v, S, p)
BY DEF BruteForce!IsBestPriority, BruteForce!Matching, BruteForce!MatchesPacket, BruteForce!Low,
       BruteForce!High, BruteForce!Field, BruteForce!NoMatch,
       IsBestPriority, Matching, MatchesPacket, Low, High, Field, NoMatch

\* An update of the tuples is the same update of the vector of rules.
LEMMA UpdateRefines ==
  /\ \A r \in Rule : InsertRule(r) => BruteForce!InsertRule(r)
  /\ \A i \in DOMAIN rules : DeleteRule(i) => BruteForce!DeleteRule(i)
<1>1. ASSUME pc = "ready", UNCHANGED call
      PROVE  LastAnswer = BruteForce!NoAnswer /\ LastAnswer' = LastAnswer
  BY <1>1, NoAnswerUnlessReturning DEF LastAnswer, call
<1>2. ASSUME NEW r \in Rule, InsertRule(r) PROVE BruteForce!InsertRule(r)
  <2>1. /\ pc = "ready" /\ UNCHANGED call /\ r \notin BruteForce!RuleSet(rules)
        /\ rules' = Append(rules, r)
    BY <1>2 DEF InsertRule, BruteForce!RuleSet
  <2> QED BY <1>1, <2>1 DEF BruteForce!InsertRule, LastAnswer
<1>3. ASSUME NEW i \in DOMAIN rules, DeleteRule(i) PROVE BruteForce!DeleteRule(i)
  <2>1. pc = "ready" /\ UNCHANGED call /\ rules' = MoveLastInto(rules, i)
    BY <1>3 DEF DeleteRule
  <2> QED BY <1>1, <2>1
          DEF BruteForce!DeleteRule, BruteForce!MoveLastInto, MoveLastInto, LastAnswer
<1> QED BY <1>2, <1>3

\* The step that ends the loop of a classification is the whole classification.
LEMMA ReturnValueRefines ==
  ASSUME IInv, (IInv /\ LoopInv)', BreakOut \/ EndOfTuples
  PROVE  BruteForce!ClassifyAPacket(packet) /\ packet \in Packet
<1>1. pc = "loop" /\ pc' = "return" /\ UNCHANGED <<rules, packet, best>>
  BY DEF BreakOut, EndOfTuples, tables
<1>2. packet \in Packet
  BY <1>1 DEF IInv, CallTypeOK
<1> DEFINE U == BruteForce!RuleSet(rules)
<1>3. IsBestPriority(best, U, packet)
  <2>1. AnswerIsBest'
    BY InvariantAnswers, PTL
  <2> QED BY <1>1, <2>1 DEF AnswerIsBest, BruteForce!RuleSet
<1> HIDE DEF U
<1>4. best \in {NoMatch} \cup {priority[r] : r \in U}
  BY <1>3 DEF IsBestPriority, Matching
<1>5. LastAnswer = BruteForce!NoAnswer
  BY <1>1, NoAnswerUnlessReturning
<1>6. LastAnswer' = [packet |-> packet, priority |-> best] /\ LastAnswer'.priority = best
  BY <1>1 DEF LastAnswer
<1>7. LastAnswer' \in {[packet |-> packet, priority |-> v] :
                           v \in {NoMatch} \cup {priority[r] : r \in U}}
  BY <1>4, <1>6
<1>8. BruteForce!IsBestPriority(LastAnswer'.priority, U, packet)
  BY <1>3, <1>6, SameBestPriority
<1> QED BY <1>1, <1>2, <1>5, <1>7, <1>8
        DEF BruteForce!ClassifyAPacket, BruteForce!NoMatch, NoMatch, LastAnswer, U

\* When all address intervals are prefixes, priority tuple space search implements
\* the brute-force classifier, positions included.
THEOREM TupleSpaceSearchIsBruteForce ==
  ASSUME AddressesArePrefixes
  PROVE  Spec => ImplementsBruteForce
<1>1. Init => BruteForce!Init
  BY DEF Init, BruteForce!Init, BruteForce!NoAnswer, BruteForce!NoMatch, NoMatch
<1>2. ASSUME IInv /\ LoopInv, (IInv /\ LoopInv)', [Next]_vars
      PROVE  [BruteForce!Next]_BruteForce!vars
  <2>1. CASE \/ \E r \in Rule : InsertRule(r)
             \/ \E i \in DOMAIN rules : DeleteRule(i)
    BY <2>1, UpdateRefines DEF BruteForce!Next
  <2>2. CASE BreakOut \/ EndOfTuples
    BY <1>2, <2>2, ReturnValueRefines DEF BruteForce!Next
  <2>3. CASE Return
    <3>1. pc = "return" /\ pc' = "ready" /\ rules' = rules
      BY <2>3 DEF Return, tables
    <3>2. LastAnswer # BruteForce!NoAnswer
      BY <1>2, <3>1, TupleAssumption DEF IInv, CallTypeOK, LastAnswer, BruteForce!NoAnswer
    <3>3. LastAnswer' = BruteForce!NoAnswer
      BY <3>1 DEF LastAnswer, BruteForce!NoAnswer, BruteForce!NoMatch, NoMatch
    <3> QED BY <3>1, <3>2, <3>3 DEF BruteForce!Next, BruteForce!CollectAnswer, LastAnswer
  <2>4. CASE (\E p \in Packet : ClassifyAPacket(p)) \/ QueryNextTuple \/ UNCHANGED vars
    BY <2>4 DEF ClassifyAPacket, QueryNextTuple, vars, tables, BruteForce!vars
  <2> QED BY <1>2, <2>1, <2>2, <2>3, <2>4 DEF Next
<1> QED BY <1>1, <1>2, LoopInvariance, PTL DEF Spec, ImplementsBruteForce, BruteForce!Spec
==============================================================================
