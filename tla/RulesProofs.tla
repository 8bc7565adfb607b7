------------------------------ MODULE RulesProofs ------------------------------
(***************************************************************************)
(* Facts about maxima, vectors and the answer to a packet that the proofs  *)
(* of all classifiers use.                                                 *)
(***************************************************************************)
EXTENDS Rules, FiniteSetTheorems, SequenceTheorems, WellFoundedInduction, TLAPS

------------------------------------------------------------------------------
(* Maxima                                                                  *)

\* Every non-empty set of naturals has a least element.
LEMMA LeastNatural ==
  \A T \in SUBSET Nat : T # {} => \E t \in T : \A y \in T : ~(y < t)
<1>1. IsWellFoundedOn(OpToRel(<, Nat), Nat)
  BY NatLessThanWellFounded
<1>2. TAKE T \in SUBSET Nat
<1>3. HAVE T # {}
<1>4. PICK t \in T : \A y \in T : ~ (<<y, t>> \in OpToRel(<, Nat))
  BY <1>1, <1>3, WFMin
<1>5. \A y \in T : ~ (y < t)
  BY <1>4 DEF OpToRel
<1> QED BY <1>5

\* Every non-empty bounded set of naturals has a greatest element.
LEMMA BoundedHasMax ==
  ASSUME NEW S \in SUBSET Nat, S # {}, NEW b \in Nat, \A x \in S : x <= b
  PROVE  \E m \in S : \A x \in S : x <= m
<1> DEFINE T == {n \in Nat : b - n \in S}
<1>1. T # {}
  <2>1. PICK x \in S : TRUE
    OBVIOUS
  <2>2. x \in Nat /\ x <= b
    OBVIOUS
  <2>3. b - x \in Nat /\ b - (b - x) = x
    BY <2>2
  <2> QED BY <2>3
<1>2. T \in SUBSET Nat
  OBVIOUS
<1>3. PICK t \in T : \A y \in T : ~ (y < t)
  BY <1>1, <1>2, LeastNatural
<1>4. b - t \in S
  BY <1>3
<1>5. ASSUME NEW x \in S PROVE x <= b - t
  <2>1. x \in Nat /\ x <= b /\ t \in Nat
    BY <1>3
  <2>2. b - x \in Nat /\ b - (b - x) = x
    BY <2>1
  <2>3. b - x \in T
    BY <2>2
  <2>4. ~(b - x < t)
    BY <1>3, <2>3
  <2> QED BY <2>1, <2>4
<1> QED BY <1>4, <1>5

\* Max is an upper bound that belongs to the set, when there is one.
LEMMA MaxProperty ==
  ASSUME NEW S \in SUBSET Int, NEW m \in S, \A x \in S : x <= m
  PROVE  Max(S) = m
<1>1. \E x \in S : \A y \in S : x >= y
  OBVIOUS
<1>2. Max(S) \in S /\ \A y \in S : Max(S) >= y
  BY <1>1 DEF Max
<1>3. Max(S) <= m /\ Max(S) >= m /\ Max(S) \in Int
  BY <1>2
<1> QED BY <1>3

\* The maximum of two integers is one of them and not below either.
LEMMA MaxOfTwo ==
  ASSUME NEW a \in Int, NEW b \in Int
  PROVE  Max({a, b}) = IF a >= b THEN a ELSE b
<1>1. CASE a >= b
  BY <1>1, MaxProperty
<1>2. CASE ~(a >= b)
  BY <1>2, MaxProperty
<1> QED BY <1>1, <1>2

\* A function on a finite set has a bound: a least set without one would have one
\* when an element is taken away.
LEMMA FiniteHasBound ==
  ASSUME NEW S, IsFiniteSet(S), NEW f \in [S -> Nat]
  PROVE  \E b \in Nat : \A x \in S : f[x] <= b
<1> DEFINE Bounded(T) == \E b \in Nat : \A x \in T : f[x] <= b
           Unbounded == {T \in FiniteSubsetsOf(S) : ~Bounded(T)}
<1>1. FiniteSubsetsOf(S) = SUBSET S
  BY FS_FiniteSubsetsOfFinite
<1>2. SUFFICES ASSUME ~Bounded(S) PROVE FALSE
  OBVIOUS
<1>3. Unbounded # {} /\ Unbounded \subseteq FiniteSubsetsOf(S)
  BY <1>1, <1>2
<1>4. PICK T \in Unbounded : \A U \in Unbounded : ~(<<U, T>> \in StrictSubsetOrdering(S))
  <2> HIDE DEF Unbounded
  <2> QED BY <1>3, FS_StrictSubsetOrderingWellFounded, WFMin
<1>5. T \in SUBSET S /\ ~Bounded(T)
  BY <1>1
<1>6. PICK x \in T : TRUE
  <2>1. Bounded({})
    OBVIOUS
  <2> QED BY <1>5, <2>1
<1>7. T \ {x} \in SUBSET S /\ T \ {x} # T
  BY <1>5
<1>8. Bounded(T \ {x})
  <2>1. <<T \ {x}, T>> \in StrictSubsetOrdering(S)
    BY <1>5, <1>7 DEF StrictSubsetOrdering
  <2> QED BY <1>1, <1>4, <1>7, <2>1
<1>9. PICK b \in Nat : \A y \in T \ {x} : f[y] <= b
  BY <1>8
<1>10. f[x] \in Nat /\ \A y \in T : f[y] \in Nat
  BY <1>5
<1>11. \A y \in T : f[y] <= b + f[x]
  BY <1>9, <1>10
<1> QED BY <1>5, <1>10, <1>11

\* Max is the greatest element of a finite set of naturals.
LEMMA MaxOfFinite ==
  ASSUME NEW S \in SUBSET Nat, IsFiniteSet(S), S # {}
  PROVE  Max(S) \in S /\ \A x \in S : x <= Max(S)
<1> DEFINE f == [x \in S |-> x]
<1>1. f \in [S -> Nat] /\ \A x \in S : f[x] = x
  OBVIOUS
<1> HIDE DEF f
<1>2. PICK b \in Nat : \A x \in S : f[x] <= b
  BY <1>1, FiniteHasBound
<1>3. PICK m \in S : \A x \in S : x <= m
  <2>1. \A x \in S : x <= b
    BY <1>1, <1>2
  <2> QED BY <2>1, BoundedHasMax
<1> QED BY <1>3, MaxProperty

------------------------------------------------------------------------------
(* Vectors                                                                 *)

Distinct(s) == \A j, k \in DOMAIN s : s[j] = s[k] => j = k
Elements(s) == {s[k] : k \in DOMAIN s}

\* rules[k] = std::move(rules.back()); rules.pop_back(); is how every classifier
\* and the simulator remove an element.
LEMMA RemovalProperties ==
  ASSUME NEW S, NEW s \in Seq(S), NEW k \in DOMAIN s
  PROVE  LET z == SubSeq([s EXCEPT ![k] = s[Len(s)]], 1, Len(s) - 1)
         IN  /\ z \in Seq(S) /\ Len(z) = Len(s) - 1 /\ DOMAIN z = 1 .. Len(s) - 1
             /\ \A j \in DOMAIN z : z[j] = IF j = k THEN s[Len(s)] ELSE s[j]
<1> DEFINE e == [s EXCEPT ![k] = s[Len(s)]]
<1>1. Len(s) \in Nat \ {0} /\ DOMAIN s = 1 .. Len(s) /\ s[Len(s)] \in S
  OBVIOUS
<1>2. e \in Seq(S) /\ Len(e) = Len(s) /\ DOMAIN e = 1 .. Len(s)
      /\ \A j \in DOMAIN s : e[j] = IF j = k THEN s[Len(s)] ELSE s[j]
  BY <1>1, ExceptSeq
<1> HIDE DEF e
<1>3. /\ SubSeq(e, 1, Len(s) - 1) \in Seq(S)
      /\ Len(SubSeq(e, 1, Len(s) - 1)) = Len(s) - 1
      /\ \A j \in 1 .. Len(s) - 1 : SubSeq(e, 1, Len(s) - 1)[j] = e[j]
  BY <1>1, <1>2
<1>4. DOMAIN SubSeq(e, 1, Len(s) - 1) = 1 .. Len(s) - 1
  BY <1>1, <1>3, LenProperties
<1> QED BY <1>1, <1>2, <1>3, <1>4 DEF e

\* A vector that holds each of its elements once loses just the one popped.
LEMMA RemovalDistinct ==
  ASSUME NEW S, NEW s \in Seq(S), NEW k \in DOMAIN s, Distinct(s)
  PROVE  LET z == SubSeq([s EXCEPT ![k] = s[Len(s)]], 1, Len(s) - 1)
         IN  Distinct(z) /\ Elements(z) = Elements(s) \ {s[k]}
<1> DEFINE z == SubSeq([s EXCEPT ![k] = s[Len(s)]], 1, Len(s) - 1)
           from(j) == IF j = k THEN Len(s) ELSE j
<1>1. Len(s) \in Nat \ {0} /\ DOMAIN s = 1 .. Len(s)
  OBVIOUS
<1>2. DOMAIN z = 1 .. Len(s) - 1 /\ \A j \in DOMAIN z : z[j] = s[from(j)]
  BY RemovalProperties
<1>3. \A j \in DOMAIN z : from(j) \in DOMAIN s /\ from(j) # k
  BY <1>1, <1>2
<1>4. \A j, l \in DOMAIN z : from(j) = from(l) => j = l
  BY <1>1, <1>2
<1>5. \A l \in DOMAIN s : l # k => \E j \in DOMAIN z : from(j) = l
  <2> SUFFICES ASSUME NEW l \in DOMAIN s, l # k PROVE \E j \in DOMAIN z : from(j) = l
    OBVIOUS
  <2>1. CASE l = Len(s)
    BY <1>1, <1>2, <2>1
  <2>2. CASE l # Len(s)
    BY <1>1, <1>2, <2>2
  <2> QED BY <2>1, <2>2
<1> HIDE DEF z, from
<1>6. Distinct(z)
  BY <1>2, <1>3, <1>4 DEF Distinct
<1>7. Elements(z) \subseteq Elements(s) \ {s[k]}
  BY <1>2, <1>3 DEF Elements, Distinct
<1>8. Elements(s) \ {s[k]} \subseteq Elements(z)
  BY <1>2, <1>5 DEF Elements
<1> QED BY <1>6, <1>7, <1>8 DEF z

\* push_back of a new element.
LEMMA AppendDistinct ==
  ASSUME NEW S, NEW s \in Seq(S), NEW x \in S, Distinct(s), x \notin Elements(s)
  PROVE  /\ Append(s, x) \in Seq(S) /\ Len(Append(s, x)) = Len(s) + 1
         /\ Distinct(Append(s, x)) /\ Elements(Append(s, x)) = Elements(s) \cup {x}
<1> DEFINE z == Append(s, x)
<1>1. /\ z \in Seq(S) /\ Len(z) = Len(s) + 1 /\ z[Len(s) + 1] = x
      /\ \A j \in 1 .. Len(s) : z[j] = s[j]
  BY AppendProperties
<1>2. Len(s) \in Nat /\ DOMAIN s = 1 .. Len(s)
  OBVIOUS
<1> HIDE DEF z
<1>3. DOMAIN z = 1 .. Len(s) + 1
  BY <1>1, LenProperties
<1>4. \A j \in DOMAIN z : \/ j \in DOMAIN s /\ z[j] = s[j]
                          \/ j = Len(s) + 1 /\ z[j] = x
  BY <1>1, <1>2, <1>3
<1>5. Distinct(z)
  BY <1>4 DEF Distinct, Elements
<1>6. Elements(z) \subseteq Elements(s) \cup {x}
  BY <1>4 DEF Elements
<1>7. Elements(s) \cup {x} \subseteq Elements(z)
  <2>1. \A j \in DOMAIN s : j \in DOMAIN z /\ z[j] = s[j]
    BY <1>1, <1>2, <1>3
  <2>2. Len(s) + 1 \in DOMAIN z
    BY <1>2, <1>3
  <2> QED BY <1>1, <2>1, <2>2 DEF Elements
<1> QED BY <1>1, <1>5, <1>6, <1>7 DEF z

\* A rearranged vector has the same elements.
LEMMA PermutationProperties ==
  ASSUME NEW S, NEW s \in Seq(S), Distinct(s), NEW f \in Bijection(DOMAIN s, DOMAIN s),
         NEW z, z = [i \in DOMAIN s |-> s[f[i]]]
  PROVE  /\ z \in Seq(S) /\ DOMAIN z = DOMAIN s /\ \A i \in DOMAIN s : z[i] = s[f[i]]
         /\ Distinct(z) /\ Elements(z) = Elements(s)
<1>1. /\ f \in [DOMAIN s -> DOMAIN s]
      /\ \A i, j \in DOMAIN s : f[i] = f[j] => i = j
      /\ \A k \in DOMAIN s : \E i \in DOMAIN s : f[i] = k
  BY DEF Bijection, Injection, Surjection, IsInjective
<1>2. DOMAIN s = 1 .. Len(s) /\ Len(s) \in Nat /\ \A k \in DOMAIN s : s[k] \in S
  OBVIOUS
<1>3. z \in Seq(S) /\ DOMAIN z = DOMAIN s /\ \A i \in DOMAIN s : z[i] = s[f[i]]
  <2>1. DOMAIN z = 1 .. Len(s) /\ z \in [1 .. Len(s) -> S]
    BY <1>1, <1>2
  <2> QED BY <1>2, <2>1, IsASeq
<1>4. Distinct(z)
  BY <1>1, <1>3 DEF Distinct
<1>5. Elements(z) = Elements(s)
  BY <1>1, <1>3 DEF Elements
<1> QED BY <1>3, <1>4, <1>5

------------------------------------------------------------------------------
(* Answers                                                                 *)

\* The maximum a tree query computes is the best priority of its rules.
LEMMA BestPriorityIsBest ==
  ASSUME NEW S \in SUBSET Rule, NEW p,
         NEW b \in Nat, \A s \in S : priority[s] <= b
  PROVE  /\ IsBestPriority(BestPriority(S, p), S, p)
         /\ BestPriority(S, p) \in Int /\ BestPriority(S, p) <= b
<1> DEFINE Q == {priority[r] : r \in Matching(S, p)}
<1>1. Q \in SUBSET Nat /\ \A q \in Q : q <= b
  BY RulesAssumption DEF Matching
<1>2. CASE Matching(S, p) = {}
  <2>1. {NoMatch} \cup Q = {NoMatch}
    BY <1>2
  <2>2. Max({NoMatch}) = NoMatch
    BY MaxProperty DEF NoMatch
  <2> QED BY <1>2, <2>1, <2>2 DEF BestPriority, IsBestPriority, NoMatch
<1>3. CASE Matching(S, p) # {}
  <2>1. Q # {}
    BY <1>3
  <2>2. PICK m \in Q : \A q \in Q : q <= m
    <3> HIDE DEF Q
    <3> QED BY <1>1, <2>1, BoundedHasMax
  <2>3. {NoMatch} \cup Q \in SUBSET Int /\ \A q \in {NoMatch} \cup Q : q <= m
    <3> HIDE DEF Q
    <3> QED BY <1>1, <2>2 DEF NoMatch
  <2>4. Max({NoMatch} \cup Q) = m
    <3> HIDE DEF Q
    <3> QED BY <2>2, <2>3, MaxProperty
  <2>5. BestPriority(S, p) = m
    BY <2>4 DEF BestPriority
  <2> QED BY <1>1, <2>2, <2>5 DEF IsBestPriority
<1> QED BY <1>2, <1>3

\* Answers of two sets of rules combine by maximum.
LEMMA CombineAnswers ==
  ASSUME NEW S \in SUBSET Rule, NEW T \in SUBSET Rule, NEW p, NEW v \in Int, NEW w \in Int,
         IsBestPriority(v, S, p), IsBestPriority(w, T, p)
  PROVE  IsBestPriority(Max({w, v}), S \cup T, p)
<1>1. Matching(S \cup T, p) = Matching(S, p) \cup Matching(T, p)
  BY DEF Matching
<1>2. \A r \in Matching(S \cup T, p) : priority[r] \in Nat
  BY RulesAssumption DEF Matching
<1>3. Max({w, v}) = IF w >= v THEN w ELSE v
  BY MaxOfTwo
<1>4. CASE w >= v
  <2>1. CASE w = NoMatch /\ Matching(T, p) = {}
    <3>1. v = NoMatch /\ Matching(S, p) = {}
      BY <1>1, <1>2, <1>4, <2>1 DEF IsBestPriority, NoMatch
    <3> QED BY <1>1, <1>3, <1>4, <2>1, <3>1 DEF IsBestPriority
  <2>2. CASE \E r \in Matching(T, p) :
               w = priority[r] /\ \A s \in Matching(T, p) : priority[s] <= w
    <3>1. \A s \in Matching(S, p) : priority[s] <= w
      BY <1>1, <1>2, <1>4, <2>2 DEF IsBestPriority
    <3> QED BY <1>1, <1>3, <1>4, <2>2, <3>1 DEF IsBestPriority
  <2> QED BY <2>1, <2>2 DEF IsBestPriority
<1>5. CASE ~(w >= v)
  BY <1>1, <1>2, <1>3, <1>5 DEF IsBestPriority, NoMatch
<1> QED BY <1>4, <1>5

\* The running maximum of a scan is the best priority, as any rule set is finite.
LEMMA ScanIsBest ==
  ASSUME NEW S \in SUBSET Rule, NEW p
  PROVE  IsBestPriority(BestPriority(S, p), S, p) /\ BestPriority(S, p) \in Int
<1> DEFINE f == [r \in S |-> priority[r]]
<1>1. f \in [S -> Nat] /\ \A r \in S : f[r] = priority[r]
  BY RulesAssumption
<1>2. IsFiniteSet(S)
  BY FS_Subset, RulesAssumption
<1> HIDE DEF f
<1>3. PICK b \in Nat : \A r \in S : f[r] <= b
  BY <1>1, <1>2, FiniteHasBound
<1> QED BY <1>1, <1>3, BestPriorityIsBest
==============================================================================
