--------------------------- MODULE PartitionerProofs ---------------------------
(***************************************************************************)
(* Weighted interval scheduling and the offline partitioners.              *)
(*                                                                         *)
(* The intervals that MWISIntervals chooses are pairwise disjoint and have *)
(* the largest weight, for any rules, any field, and any order in which    *)
(* equal keys are sorted.                                                  *)
(*                                                                         *)
(* The three partitioners make buckets that can be sorted, and put every   *)
(* rule in exactly one of them unless a bucket is reconstructed; every step*)
(* places a rule or brings the next one closer; and the two admission      *)
(* tests agree on every bucket made: for any rules, any number of fields   *)
(* and any threshold.                                                      *)
(*                                                                         *)
(* ComputeMaxIntersection returns the number of different rules at the     *)
(* packet that matches the most of them, for any rules of two fields.      *)
(*                                                                         *)
(* Of the selection that the online tree calls it shows that it is inert.  *)
(***************************************************************************)
EXTENDS RulesetPartitioner, IntervalScheduling, MaxIntersection, RulesProofs

------------------------------------------------------------------------------
(* Sums over finite sets                                                   *)

\* What holds of 0 and is passed on from k - 1 to k holds up to n.
LEMMA UpTo ==
  ASSUME NEW n \in Nat, NEW T, 0 \in T, \A k \in 1 .. n : k - 1 \in T => k \in T
  PROVE  0 .. n \subseteq T
<1> DEFINE bad == {k \in 0 .. n : k \notin T}
<1>1. SUFFICES ASSUME bad # {} PROVE FALSE
  OBVIOUS
<1>2. bad \in SUBSET Nat
  OBVIOUS
<1>3. PICK k \in bad : \A i \in bad : ~(i < k)
  <2> HIDE DEF bad
  <2> QED BY <1>1, <1>2, LeastNatural
<1>4. k \in 0 .. n /\ k # 0 /\ k - 1 \in 0 .. n /\ k \in 1 .. n /\ k - 1 < k
  BY <1>3
<1> QED BY <1>3, <1>4

\* g[k] is the result of applying F[1] .. F[k] to f0.
Iterates(g, n, X, f0, F) ==
    g \in [0 .. n -> X] /\ g[0] = f0 /\ \A i \in 1 .. n : g[i] = F[i][g[i - 1]]

\* Whatever functions are applied n times, the results form a function.
LEMMA Iterated ==
  ASSUME NEW n \in Nat, NEW X, NEW f0 \in X, NEW F \in [1 .. n -> [X -> X]]
  PROVE  \E g : Iterates(g, n, X, f0, F)
<1> DEFINE T == {k \in 0 .. n : \E g \in [0 .. k -> X] : g[0] = f0 /\ \A i \in 1 .. k : g[i] = F[i][g[i - 1]]}
<1>1. 0 \in T
  <2> DEFINE g == [i \in 0 .. 0 |-> f0]
  <2>1. g \in [0 .. 0 -> X] /\ g[0] = f0 /\ \A i \in 1 .. 0 : FALSE
    OBVIOUS
  <2> HIDE DEF g
  <2>2. 0 \in 0 .. n
    OBVIOUS
  <2> QED BY <2>1, <2>2
<1>2. ASSUME NEW k \in 1 .. n, k - 1 \in T
      PROVE  k \in T
  <2>1. k - 1 \in Nat /\ k \in Nat /\ k \in 0 .. n /\ k - 1 \in 0 .. k - 1 /\ 0 \in 0 .. k - 1 /\ k # 0
    OBVIOUS
  <2>2. PICK g \in [0 .. k - 1 -> X] : g[0] = f0 /\ \A i \in 1 .. k - 1 : g[i] = F[i][g[i - 1]]
    BY <1>2
  <2> DEFINE h == [i \in 0 .. k |-> IF i = k THEN F[k][g[k - 1]] ELSE g[i]]
  <2>3. (\A i \in 0 .. k - 1 : h[i] = g[i]) /\ h[k] = F[k][g[k - 1]]
    BY <2>1
  <2>4. h \in [0 .. k -> X]
    <3>1. \A i \in 0 .. k : i # k => i \in 0 .. k - 1
      BY <2>1
    <3>2. F[k][g[k - 1]] \in X
      BY <2>1, <2>2
    <3> QED BY <2>1, <2>2, <3>1, <3>2
  <2> HIDE DEF h
  <2>5. ASSUME NEW i \in 1 .. k
        PROVE  h[i] = F[i][h[i - 1]]
    <3>1. i - 1 \in 0 .. k - 1
      BY <2>1
    <3>2. CASE i = k
      BY <2>3, <3>1, <3>2
    <3>3. CASE i # k
      <4>1. i \in 1 .. k - 1 /\ i \in 0 .. k - 1
        BY <2>1, <3>3
      <4> QED BY <2>2, <2>3, <3>1, <4>1
    <3> QED BY <3>2, <3>3
  <2> QED BY <2>1, <2>2, <2>3, <2>4, <2>5
<1>3. 0 .. n \subseteq T
  <2> HIDE DEF T
  <2> QED BY <1>1, <1>2, UpTo
<1>4. n \in T
  BY <1>3
<1> QED BY <1>4 DEF Iterates

\* The sum of v[x] for x in S, taken in the order in which CHOOSE picks them.
AnElement(s) == CHOOSE x \in s : TRUE
Summing(v, S, f) ==
    [s \in SUBSET S |-> IF s = {} THEN 0 ELSE v[AnElement(s)] + f[s \ {AnElement(s)}]]
SumOver(v, S) == (CHOOSE f : f = Summing(v, S, f))[S]

\* A set of k elements without the one picked has k - 1.
LEMMA OneLess ==
  ASSUME NEW S, IsFiniteSet(S), NEW s \in SUBSET S, NEW x \in s
  PROVE  /\ s \ {x} \in SUBSET S /\ Cardinality(s) \in 1 .. Cardinality(S) /\ s # {}
         /\ Cardinality(s \ {x}) = Cardinality(s) - 1 /\ Cardinality(S) \in Nat
<1>1. IsFiniteSet(s) /\ Cardinality(s) <= Cardinality(S) /\ Cardinality(S) \in Nat /\ Cardinality(s) \in Nat
  BY FS_Subset, FS_CardinalityType
<1>2. Cardinality(s \ {x}) = Cardinality(s) - 1 /\ Cardinality(s) # 0
  BY <1>1, FS_RemoveElement, FS_EmptySet
<1> QED BY <1>1, <1>2

\* The recursion has a solution.
LEMMA SumExists ==
  ASSUME NEW S, IsFiniteSet(S), NEW v \in [S -> Nat]
  PROVE  \E f \in [SUBSET S -> Nat] : f = Summing(v, S, f)
<1> DEFINE n == Cardinality(S)
           X == [SUBSET S -> Nat]
           f0 == [s \in SUBSET S |-> 0]
           G == [f \in X |-> Summing(v, S, f)]
           F == [k \in 1 .. n + 1 |-> G]
<1>1. n \in Nat /\ n + 1 \in Nat
  BY FS_CardinalityType
<1>2. f0 \in X
  OBVIOUS
<1>3. ASSUME NEW f \in X
      PROVE  Summing(v, S, f) \in X
  <2>1. ASSUME NEW s \in SUBSET S, s # {}
        PROVE  v[AnElement(s)] \in Nat /\ f[s \ {AnElement(s)}] \in Nat
    <3>1. AnElement(s) \in s
      BY <2>1 DEF AnElement
    <3> QED BY <3>1
  <2>2. \A s \in SUBSET S : (IF s = {} THEN 0 ELSE v[AnElement(s)] + f[s \ {AnElement(s)}]) \in Nat
    BY <2>1
  <2> QED BY <2>2 DEF Summing
<1>4. F \in [1 .. n + 1 -> [X -> X]]
  BY <1>3
<1>5. PICK g : Iterates(g, n + 1, X, f0, F)
  <2>1. n + 1 \in Nat /\ f0 \in X /\ F \in [1 .. n + 1 -> [X -> X]]
    BY <1>1, <1>2, <1>4
  <2> HIDE DEF n, X, f0, F
  <2> QED BY ONLY <2>1, Iterated
<1>6. /\ g \in [0 .. n + 1 -> X]
      /\ \A k \in 1 .. n + 1 : k - 1 \in 0 .. n + 1 /\ k \in 0 .. n + 1 /\ g[k] = Summing(v, S, g[k - 1])
  <2>1. g \in [0 .. n + 1 -> X] /\ \A k \in 1 .. n + 1 : g[k] = F[k][g[k - 1]]
    BY <1>5 DEF Iterates
  <2>2. \A k \in 1 .. n + 1 : F[k] = G
    OBVIOUS
  <2>3. \A f \in X : G[f] = Summing(v, S, f)
    OBVIOUS
  <2>4. \A k \in 1 .. n + 1 : k - 1 \in 0 .. n + 1 /\ k \in 0 .. n + 1
    BY <1>1
  <2> HIDE DEF F, G, X, n
  <2> QED BY <2>1, <2>2, <2>3, <2>4
<1> HIDE DEF n, F, G, f0, X
<1> DEFINE Stable(k) == \A s \in SUBSET S : Cardinality(s) <= k => g[k + 1][s] = g[k][s]
           T == {k \in 0 .. n : Stable(k)}
<1>7. \A k \in 0 .. n : k \in 0 .. n + 1 /\ k + 1 \in 1 .. n + 1 /\ g[k] \in X /\ g[k + 1] = Summing(v, S, g[k])
  BY <1>1, <1>6
<1>8. \A s \in SUBSET S : Cardinality(s) \in 0 .. n /\ (Cardinality(s) = 0 <=> s = {})
  BY FS_Subset, FS_CardinalityType, FS_EmptySet DEF n
<1>9. \A f : \A s \in SUBSET S :
         Summing(v, S, f)[s] = IF s = {} THEN 0 ELSE v[AnElement(s)] + f[s \ {AnElement(s)}]
  BY DEF Summing
<1>10. 0 \in T
  <2>1. ASSUME NEW s \in SUBSET S, Cardinality(s) <= 0 PROVE g[0 + 1][s] = g[0][s]
    <3>1. s = {} /\ {} \in SUBSET S
      BY <1>8, <2>1
    <3>2. g[1][{}] = 0
      <4>1. 1 \in 1 .. n + 1 /\ 1 - 1 = 0
        BY <1>1
      <4>2. g[1] = Summing(v, S, g[0])
        BY <4>1, <1>6
      <4> QED BY <3>1, <4>2, <1>9
    <3>3. g[0][{}] = 0
      BY <1>5 DEF Iterates, f0
    <3> QED BY <3>1, <3>2, <3>3
  <2> QED BY <2>1, <1>1
<1>11. ASSUME NEW k \in 1 .. n, k - 1 \in T
       PROVE  k \in T
  <2>1. k \in 0 .. n /\ k - 1 \in 0 .. n /\ (k - 1) + 1 = k
    BY <1>1
  <2>2. g[k] = Summing(v, S, g[k - 1]) /\ g[k + 1] = Summing(v, S, g[k])
    BY <2>1, <1>7
  <2>3. ASSUME NEW s \in SUBSET S, Cardinality(s) <= k PROVE g[k + 1][s] = g[k][s]
    <3>1. CASE s = {}
      BY <3>1, <2>2, <1>9
    <3>2. CASE s # {}
      <4> DEFINE r == s \ {AnElement(s)}
      <4>1. AnElement(s) \in s
        BY <3>2 DEF AnElement
      <4>2. r \in SUBSET S /\ Cardinality(r) = Cardinality(s) - 1 /\ Cardinality(s) \in Nat
        BY <4>1, OneLess, <1>8
      <4>3. Cardinality(r) <= k - 1
        BY <4>2, <2>3
      <4>4. g[k][r] = g[k - 1][r]
        BY <4>2, <4>3, <1>11, <2>1
      <4>5. /\ g[k + 1][s] = v[AnElement(s)] + g[k][r]
            /\ g[k][s] = v[AnElement(s)] + g[k - 1][r]
        BY <3>2, <2>2, <1>9
      <4> HIDE DEF r
      <4> QED BY <4>4, <4>5
    <3> QED BY <3>1, <3>2
  <2> QED BY <2>1, <2>3
<1>12. n \in T
  <2>1. 0 .. n \subseteq T
    <3> HIDE DEF T
    <3> QED BY <1>1, <1>10, <1>11, UpTo
  <2> QED BY <2>1, <1>1
<1>13. n \in 0 .. n /\ g[n] \in X /\ g[n + 1] = Summing(v, S, g[n]) /\ n + 1 \in 0 .. n + 1 /\ g[n + 1] \in X
  BY <1>1, <1>6, <1>7
<1>14. g[n + 1] = g[n]
  <2>1. \A s \in SUBSET S : g[n + 1][s] = g[n][s]
    BY <1>8, <1>12
  <2> QED BY <1>13, <2>1 DEF X
<1> QED BY <1>13, <1>14 DEF X

\* Whatever set the recursion starts from, its solutions agree.
LEMMA SumUnique ==
  ASSUME NEW S, IsFiniteSet(S), NEW v, NEW T \in SUBSET S,
         NEW f, f = Summing(v, S, f), NEW g, g = Summing(v, T, g)
  PROVE  \A s \in SUBSET T : f[s] = g[s]
<1> DEFINE n == Cardinality(T)
           K == {k \in 0 .. n : \A s \in SUBSET T : Cardinality(s) = k => f[s] = g[s]}
<1>1. IsFiniteSet(T) /\ n \in Nat
  BY FS_Subset, FS_CardinalityType
<1>2. \A s \in SUBSET T : Cardinality(s) \in 0 .. n /\ (Cardinality(s) = 0 <=> s = {})
  BY <1>1, FS_Subset, FS_CardinalityType, FS_EmptySet
<1>3. /\ \A s \in SUBSET S : f[s] = IF s = {} THEN 0 ELSE v[AnElement(s)] + f[s \ {AnElement(s)}]
      /\ \A s \in SUBSET T : g[s] = IF s = {} THEN 0 ELSE v[AnElement(s)] + g[s \ {AnElement(s)}]
  BY DEF Summing
<1>4. 0 \in K
  BY <1>1, <1>2, <1>3
<1>5. ASSUME NEW k \in 1 .. n, k - 1 \in K
      PROVE  k \in K
  <2>1. ASSUME NEW s \in SUBSET T, Cardinality(s) = k PROVE f[s] = g[s]
    <3>1. s # {} /\ s \in SUBSET S
      BY <1>2, <2>1
    <3> DEFINE r == s \ {AnElement(s)}
    <3>2. AnElement(s) \in s
      BY <3>1 DEF AnElement
    <3>3. r \in SUBSET T /\ Cardinality(r) = k - 1
      BY <3>2, <1>1, <2>1, OneLess
    <3>4. f[r] = g[r]
      BY <3>3, <1>5
    <3> QED BY <3>1, <3>4, <1>3
  <2>2. k \in 0 .. n
    BY <1>1
  <2> QED BY <2>1, <2>2
<1>6. 0 .. n \subseteq K
  <2> HIDE DEF K, n
  <2> QED BY <1>1, <1>4, <1>5, UpTo
<1> QED BY <1>2, <1>6

\* The order does not matter: any element may be the one added last.
LEMMA SumProperties ==
  ASSUME NEW S, IsFiniteSet(S), NEW v \in [S -> Nat]
  PROVE  /\ SumOver(v, {}) = 0
         /\ \A T \in SUBSET S : SumOver(v, T) \in Nat
         /\ \A T \in SUBSET S : \A x \in T : SumOver(v, T) = SumOver(v, T \ {x}) + v[x]
<1>1. PICK f \in [SUBSET S -> Nat] : f = Summing(v, S, f)
  BY SumExists
<1>2. ASSUME NEW T \in SUBSET S
      PROVE  SumOver(v, T) = f[T]
  <2> DEFINE u == [x \in T |-> v[x]]
             g == [s \in SUBSET T |-> f[s]]
  <2>1. g = Summing(v, T, g)
    <3>1. ASSUME NEW s \in SUBSET T
          PROVE  g[s] = IF s = {} THEN 0 ELSE v[AnElement(s)] + g[s \ {AnElement(s)}]
      <4>1. s \in SUBSET S /\ s \ {AnElement(s)} \in SUBSET T
        OBVIOUS
      <4>2. f[s] = IF s = {} THEN 0 ELSE v[AnElement(s)] + f[s \ {AnElement(s)}]
        BY <1>1, <4>1 DEF Summing
      <4> QED BY <4>1, <4>2
    <3> QED BY <3>1 DEF Summing
  <2> DEFINE h == CHOOSE h : h = Summing(v, T, h)
  <2>2. h = Summing(v, T, h)
    <3> HIDE DEF g
    <3> QED BY <2>1
  <2> HIDE DEF h
  <2>3. h[T] = f[T]
    BY <1>1, <2>2, SumUnique
  <2> QED BY <2>3 DEF SumOver, h
<1>3. \A s \in SUBSET S : f[s] = IF s = {} THEN 0 ELSE v[AnElement(s)] + f[s \ {AnElement(s)}]
  BY <1>1 DEF Summing
<1> DEFINE n == Cardinality(S)
           Any(s) == \A x \in s : f[s] = f[s \ {x}] + v[x]
           K == {k \in 0 .. n : \A s \in SUBSET S : Cardinality(s) = k => Any(s)}
<1>4. n \in Nat /\ \A s \in SUBSET S : Cardinality(s) \in 0 .. n /\ (Cardinality(s) = 0 <=> s = {})
  BY FS_Subset, FS_CardinalityType, FS_EmptySet
<1>5. 0 \in K
  BY <1>4
<1>6. ASSUME NEW k \in 1 .. n, k - 1 \in K
      PROVE  k \in K
  <2>1. ASSUME NEW s \in SUBSET S, Cardinality(s) = k, NEW x \in s
        PROVE  f[s] = f[s \ {x}] + v[x]
    <3> DEFINE y == AnElement(s)
    <3>1. y \in s
      BY DEF AnElement
    <3>2. f[s] = v[y] + f[s \ {y}]
      BY <2>1, <1>3
    <3> HIDE DEF y
    <3>3. v[x] \in Nat /\ v[y] \in Nat /\ f[s \ {x}] \in Nat /\ f[s \ {y}] \in Nat
      BY <3>1, <2>1
    <3>4. CASE y = x
      BY <3>2, <3>3, <3>4
    <3>5. CASE y # x
      <4>1. /\ s \ {y} \in SUBSET S /\ Cardinality(s \ {y}) = k - 1 /\ x \in s \ {y}
            /\ s \ {x} \in SUBSET S /\ Cardinality(s \ {x}) = k - 1 /\ y \in s \ {x}
        BY <2>1, <3>1, <3>5, OneLess
      <4>2. (s \ {y}) \ {x} = (s \ {x}) \ {y}
        OBVIOUS
      <4>3. f[s \ {y}] = f[(s \ {y}) \ {x}] + v[x] /\ f[s \ {x}] = f[(s \ {x}) \ {y}] + v[y]
        BY <4>1, <1>6
      <4> DEFINE a == f[s]
                 b == f[s \ {x}]
                 c == f[s \ {y}]
                 d == f[(s \ {x}) \ {y}]
                 p == v[x]
                 q == v[y]
      <4>4. p \in Nat /\ q \in Nat /\ b \in Nat /\ c \in Nat /\ d \in Nat
        BY <3>3
      <4>5. a = q + c /\ c = d + p /\ b = d + q
        BY <3>2, <4>2, <4>3
      <4>6. a = b + p
        <5> HIDE DEF a, b, c, d, p, q
        <5> QED BY <4>4, <4>5
      <4> QED BY <4>6
    <3> QED BY <3>4, <3>5
  <2>2. k \in 0 .. n
    BY <1>4
  <2> QED BY <2>1, <2>2
<1>7. 0 .. n \subseteq K
  <2> HIDE DEF K, n
  <2> QED BY <1>4, <1>5, <1>6, UpTo
<1>8. \A T \in SUBSET S : Any(T)
  BY <1>4, <1>7
<1>9. f[{}] = 0
  BY <1>3
<1>10. \A T \in SUBSET S : \A x \in T : T \ {x} \in SUBSET S
  OBVIOUS
<1>11. {} \in SUBSET S
  OBVIOUS
<1> QED BY <1>2, <1>8, <1>9, <1>10, <1>11

------------------------------------------------------------------------------
(* What is chosen is disjoint                                              *)

\* An interval is not empty.
Proper(w) == w \in WeightedInterval /\ w.low <= w.high

\* The argument of the sweep: at least one proper interval.
Argument ==
    /\ Index = 1 .. Len(sorted_I) /\ Len(sorted_I) \in Nat \ {0}
    /\ \A i \in Index : Proper(sorted_I[i])

\* The sweep and the walk name intervals that exist.
Positions ==
    /\ \A e \in endpoints : e.id \in Index
    /\ last_interval \in Index
    /\ S_max \subseteq Index
    /\ pc = "walk" => j \in Nat /\ j < last_interval

\* The interval the walk has reached lies before all others it has chosen.
LastIsLowest ==
    \A i \in S_max : i = last_interval \/ Before(sorted_I[last_interval], sorted_I[i])

SweepChoosesNothing == pc = "sweep" => S_max = {}

SchedulingInv == Argument /\ Positions /\ LastIsLowest /\ SweepChoosesNothing /\ ChosenAreIndependent

\* CreateUniqueInterval makes finitely many proper intervals, and at least one.
LEMMA UniqueIntervals ==
  ASSUME NEW S \in (SUBSET Rule) \ {{}}, NEW f \in Field
  PROVE  LET W == CreateUniqueInterval(S, f)
         IN  IsFiniteSet(W) /\ W # {} /\ \A w \in W : Proper(w)
<1> DEFINE W == CreateUniqueInterval(S, f)
           unique == [r \in S |-> [ low |-> Low(r, f), high |-> High(r, f),
                                    rules |-> {s \in S : range[s][f] = range[r][f]} ]]
<1>1. IsFiniteSet(S)
  BY RulesAssumption, FS_Subset
<1>2. unique \in Surjection(S, W)
  BY DEF Surjection, CreateUniqueInterval
<1>3. IsFiniteSet(W)
  <2> HIDE DEF W, unique
  <2> QED BY <1>1, <1>2, FS_Surjection
<1>4. W # {}
  BY DEF CreateUniqueInterval
<1>5. ASSUME NEW r \in S
      PROVE  Low(r, f) \in Nat /\ High(r, f) \in Nat /\ Low(r, f) <= High(r, f)
  <2>1. range[r][f] \in Nat \X Nat
    BY RulesAssumption
  <2> QED BY <2>1, IntervalAssumption DEF Low, High
<1>6. ASSUME NEW w \in W PROVE Proper(w)
  <2>1. PICK r \in S : w = [ low |-> Low(r, f), high |-> High(r, f),
                             rules |-> {s \in S : range[s][f] = range[r][f]} ]
    BY DEF CreateUniqueInterval
  <2>2. {s \in S : range[s][f] = range[r][f]} \in SUBSET Rule
    OBVIOUS
  <2> QED BY <2>1, <2>2, <1>5 DEF Proper, WeightedInterval
<1> QED BY <1>3, <1>4, <1>6

\* At the call the sequence holds the unique intervals, and nothing is chosen.
LEMMA SchedulingInitHolds == SchedulingInit => SchedulingInv
<1> SUFFICES ASSUME SchedulingInit PROVE SchedulingInv
  OBVIOUS
<1>1. PICK S \in (SUBSET Rule) \ {{}}, f \in Field :
        sorted_I \in SortedByHigh(CreateUniqueInterval(S, f))
  BY DEF SchedulingInit
<1> DEFINE W == CreateUniqueInterval(S, f)
           n == Cardinality(W)
<1>2. IsFiniteSet(W) /\ W # {} /\ \A w \in W : Proper(w)
  BY UniqueIntervals
<1>3. n \in Nat \ {0}
  <2> HIDE DEF W
  <2> QED BY <1>2, FS_CardinalityType, FS_EmptySet
<1>4. sorted_I \in [1 .. n -> W]
  BY <1>1 DEF SortedByHigh, Bijection, Injection
<1>5. Argument
  <2> HIDE DEF W
  <2>1. Index = 1 .. n /\ Len(sorted_I) = n
    <3> HIDE DEF n
    <3>1. sorted_I \in Seq(W)
      BY <1>3, <1>4
    <3> QED BY <1>3, <1>4, <3>1 DEF Index
  <2> HIDE DEF n
  <2> QED BY <1>2, <1>3, <1>4, <2>1 DEF Argument
<1>6. Positions
  <2>1. \A e \in endpoints : e.id \in Index
    BY DEF SchedulingInit, Endpoints, Index
  <2> QED BY <1>5, <2>1 DEF SchedulingInit, Positions, Argument
<1> QED BY <1>5, <1>6 DEF SchedulingInit, SchedulingInv, LastIsLowest, SweepChoosesNothing,
                           ChosenAreIndependent, Independent, Intervals

\* Taking one endpoint chooses nothing.
LEMMA SweepStep ==
  ASSUME SchedulingInv, NEW e \in endpoints, LeftEnd(e) \/ RightEnd(e)
  PROVE  SchedulingInv'
<1> USE DEF SchedulingInv
<1>1. /\ pc = "sweep" /\ pc' = pc
      /\ endpoints' \subseteq endpoints
      /\ sorted_I' = sorted_I /\ S_max' = S_max /\ j' = j
      /\ last_interval' = last_interval \/ last_interval' = e.id
  BY DEF LeftEnd, RightEnd, Reach
<1>2. S_max = {}
  BY <1>1 DEF SweepChoosesNothing
<1>3. Argument' /\ Positions'
  BY <1>1 DEF Argument, Positions, Index
<1> QED BY <1>1, <1>2, <1>3 DEF LastIsLowest, SweepChoosesNothing,
                                 ChosenAreIndependent, Independent, Intervals

\* The walk starts with one interval.
LEMMA StartWalkStep ==
  ASSUME SchedulingInv, StartWalk
  PROVE  SchedulingInv'
<1> USE DEF SchedulingInv
<1>1. /\ sorted_I' = sorted_I /\ endpoints' = endpoints /\ last_interval' = last_interval
      /\ S_max' = {last_interval} /\ j' = last_interval - 1 /\ pc' = "walk"
  BY DEF StartWalk
<1>2. Argument'
  BY <1>1 DEF Argument, Index
<1>3. Positions'
  BY <1>1 DEF Argument, Positions, Index
<1> QED BY <1>1, <1>2, <1>3 DEF LastIsLowest, SweepChoosesNothing,
                                 ChosenAreIndependent, Independent, Intervals

\* An interval that lies before the lowest of the chosen ones lies before all of
\* them.
LEMMA WalkStep ==
  ASSUME SchedulingInv, Walk
  PROVE  SchedulingInv'
<1> USE DEF SchedulingInv
<1>1. /\ sorted_I' = sorted_I /\ endpoints' = endpoints /\ pc' = pc
      /\ pc = "walk" /\ j > 0 /\ j' = j - 1
  BY DEF Walk
<1>2. Index' = Index /\ Argument'
  BY <1>1 DEF Argument, Index
<1>3. CASE ~Belongs(j)
  <2>1. S_max' = S_max /\ last_interval' = last_interval
    BY <1>3 DEF Walk
  <2>2. Positions'
    BY <1>1, <1>2, <2>1 DEF Positions, Argument
  <2> QED BY <1>1, <1>2, <2>1, <2>2 DEF LastIsLowest, SweepChoosesNothing,
                                ChosenAreIndependent, Independent, Intervals
<1>4. CASE Belongs(j)
  <2>1. S_max' = S_max \cup {j} /\ last_interval' = j
    BY <1>4 DEF Walk
  <2>2. j \in Index /\ last_interval \in Index /\ S_max \subseteq Index
    BY <1>1 DEF Positions, Argument
  <2>3. Positions'
    BY <1>1, <1>2, <2>1, <2>2 DEF Positions, Argument
  <2>4. \A i \in S_max : Before(sorted_I[j], sorted_I[i])
    <3> TAKE i \in S_max
    <3>1. Proper(sorted_I[j]) /\ Proper(sorted_I[last_interval]) /\ Proper(sorted_I[i])
      BY <2>2 DEF Argument
    <3>2. Before(sorted_I[j], sorted_I[last_interval])
      BY <1>4 DEF Belongs
    <3>3. i = last_interval \/ Before(sorted_I[last_interval], sorted_I[i])
      BY DEF LastIsLowest
    <3> QED BY <3>1, <3>2, <3>3 DEF Before, Proper, WeightedInterval
  <2>5. LastIsLowest'
    BY <1>1, <2>1, <2>4 DEF LastIsLowest
  <2>6. ChosenAreIndependent'
    BY <1>1, <2>1, <2>4 DEF ChosenAreIndependent, Independent, Intervals
  <2> QED BY <1>1, <1>2, <2>3, <2>5, <2>6 DEF SweepChoosesNothing
<1> QED BY <1>3, <1>4

\* The invariant of the sweep and the walk.
THEOREM SchedulingInvariance == SchedulingSpec => []SchedulingInv
<1>1. SchedulingInv /\ [SchedulingNext]_schedule => SchedulingInv'
  <2> SUFFICES ASSUME SchedulingInv, [SchedulingNext]_schedule PROVE SchedulingInv'
    OBVIOUS
  <2>1. ASSUME NEW e \in endpoints, LeftEnd(e) \/ RightEnd(e) PROVE SchedulingInv'
    BY <2>1, SweepStep
  <2>2. CASE StartWalk
    BY <2>2, StartWalkStep
  <2>3. CASE Walk
    BY <2>3, WalkStep
  <2>4. CASE EndWalk
    BY <2>4 DEF EndWalk, SchedulingInv, Argument, Index, Positions, LastIsLowest, SweepChoosesNothing,
                ChosenAreIndependent, Independent, Intervals
  <2>5. CASE UNCHANGED schedule
    BY <2>5 DEF schedule, SchedulingInv, Argument, Index, Positions, LastIsLowest, SweepChoosesNothing,
                ChosenAreIndependent, Independent, Intervals
  <2> QED BY <2>1, <2>2, <2>3, <2>4, <2>5 DEF SchedulingNext
<1> QED BY SchedulingInitHolds, <1>1, PTL DEF SchedulingSpec

\* MWISIntervals chooses pairwise disjoint intervals: the buckets built from
\* them can be sorted by the field.
THEOREM Independence == SchedulingSpec => []ChosenAreIndependent
<1>1. SchedulingInv => ChosenAreIndependent
  BY DEF SchedulingInv
<1> QED BY SchedulingInvariance, <1>1, PTL

------------------------------------------------------------------------------
(* The weight of what is chosen                                            *)

\* The i-th interval of the vector; its two endpoints.
LeftOf(s, i) == [val |-> s[i].low, isRightEnd |-> LEFT, id |-> i]
RightOf(s, i) == [val |-> s[i].high, isRightEnd |-> RIGHT, id |-> i]

\* Positions with pairwise disjoint intervals, and their weight.
Picked(s, U) == {s[i] : i \in U}
Apart(s, U) == \A i, k \in U : i = k \/ Before(s[i], s[k]) \/ Before(s[k], s[i])
Total(s, U) == TotalWeight(Picked(s, U))

\* The positions whose intervals end before interval i begins.
Below(s, i) == {k \in DOMAIN s : Before(s[k], s[i])}

\* m is the largest weight of disjoint intervals among the positions X.
Heaviest(s, m, X) ==
    /\ m \in Nat
    /\ \E U \in SUBSET X : Apart(s, U) /\ Total(s, U) = m
    /\ \A U \in SUBSET X : Apart(s, U) => Total(s, U) <= m

\* The argument as the sort leaves it: no interval twice, by increasing high point.
Ordered(s) ==
    /\ DOMAIN s = 1 .. Len(s) /\ Len(s) \in Nat \ {0}
    /\ \A i \in DOMAIN s : Proper(s[i])
    /\ \A i, k \in DOMAIN s : s[i] = s[k] => i = k
    /\ \A i, k \in DOMAIN s : i < k => s[i].high <= s[k].high

\* What the sweep stored for interval i: the best that ends with it.
Best(s, i, c) == Heaviest(s, c - Weight(s[i]), Below(s, i))

\* The intervals whose right, or left, endpoint was reached.
Ended == {i \in Index : RightOf(sorted_I, i) \notin endpoints}
Begun == {i \in Index : LeftOf(sorted_I, i) \notin endpoints}

\* Endpoints are reached in order.
InOrder ==
    /\ endpoints \subseteq Endpoints(sorted_I)
    /\ \A d \in Endpoints(sorted_I) \ endpoints : \A e \in endpoints : ~Precedes(e, d)

\* The sweep: the best of the intervals that ended, and with which it ends.
SweepIsBest ==
    /\ \A i \in Begun : Best(sorted_I, i, chi[i])
    /\ Heaviest(sorted_I, temp_max, Ended)
    /\ Ended # {} => last_interval \in Ended /\ chi[last_interval] = temp_max

\* The walk: what is chosen and what is still to find add up to the best, what is
\* still to find lies below the interval reached, and none was passed by.
WalkIsBest ==
    /\ \A i \in Index : Best(sorted_I, i, chi[i])
    /\ Heaviest(sorted_I, max_MIS, Index)
    /\ Heaviest(sorted_I, temp_max, Below(sorted_I, last_interval))
    /\ Total(sorted_I, S_max) + temp_max = max_MIS
    /\ \A k \in Index : j < k /\ k < last_interval => ~Belongs(k)

HInv ==
    /\ SchedulingInv
    /\ Ordered(sorted_I)
    /\ chi \in [Index -> Nat]
    /\ pc = "sweep" => InOrder /\ SweepIsBest
    /\ pc # "sweep" => j \in Nat /\ WalkIsBest
    /\ pc = "done" => j = 0

\* A weight is a positive number.
LEMMA WeightIsPositive ==
  ASSUME NEW w, Proper(w)
  PROVE  Weight(w) \in Nat \ {0}
<1>1. w.rules \in SUBSET Rule
  BY DEF Proper, WeightedInterval
<1>2. IsFiniteSet(w.rules)
  BY <1>1, RulesAssumption, FS_Subset
<1>3. Cardinality(w.rules) \in Nat
  BY <1>2, FS_CardinalityType
<1> QED BY <1>3 DEF Weight

\* TotalWeight is the sum of the weights.
LEMMA TotalWeightIsSum ==
  ASSUME NEW S, NEW W \in SUBSET S
  PROVE  TotalWeight(W) = SumOver([w \in S |-> Weight(w)], W)
<1> DEFINE v == [w \in S |-> Weight(w)]
           H(f) == [s \in SUBSET W |-> IF s = {} THEN 0 ELSE Weight(AnElement(s)) + f[s \ {AnElement(s)}]]
<1>1. TotalWeight(W) = (CHOOSE f : f = H(f))[W]
  BY DEF TotalWeight, MapThenSumSet, MapThenFoldSet, AnElement
<1>2. ASSUME NEW f PROVE H(f) = Summing(v, W, f)
  <2>1. \A s \in SUBSET W : s # {} => AnElement(s) \in s
    BY DEF AnElement
  <2>2. \A s \in SUBSET W : s # {} => v[AnElement(s)] = Weight(AnElement(s))
    BY <2>1
  <2> HIDE DEF v
  <2> QED BY <2>2 DEF Summing
<1>3. (CHOOSE f : f = H(f)) = (CHOOSE f : f = Summing(v, W, f))
  <2> HIDE DEF H, v
  <2> QED BY <1>2
<1> QED BY <1>1, <1>3 DEF SumOver

\* The weight of positions grows by the weight of each one added.
LEMMA TotalProperties ==
  ASSUME NEW s, Ordered(s)
  PROVE  /\ Total(s, {}) = 0
         /\ \A U \in SUBSET DOMAIN s : Total(s, U) \in Nat
         /\ \A U \in SUBSET DOMAIN s : \A i \in U :
               Total(s, U) = Total(s, U \ {i}) + Weight(s[i])
<1> DEFINE S == Picked(s, DOMAIN s)
           v == [w \in S |-> Weight(w)]
<1>1. IsFiniteSet(S)
  <2>1. IsFiniteSet(1 .. Len(s)) /\ DOMAIN s = 1 .. Len(s)
    <3>1. DOMAIN s = 1 .. Len(s) /\ Len(s) \in Nat
      BY DEF Ordered
    <3> QED BY ONLY <3>1, FS_Interval
  <2> DEFINE g == [i \in DOMAIN s |-> s[i]]
  <2>2. g \in Surjection(DOMAIN s, S)
    BY DEF Surjection, Picked
  <2> HIDE DEF g, S
  <2> QED BY <2>1, <2>2, FS_Surjection
<1>2. v \in [S -> Nat]
  BY WeightIsPositive DEF Picked, Ordered
<1>3. /\ SumOver(v, {}) = 0
      /\ \A T \in SUBSET S : SumOver(v, T) \in Nat
      /\ \A T \in SUBSET S : \A x \in T : SumOver(v, T) = SumOver(v, T \ {x}) + v[x]
  <2> HIDE DEF S, v
  <2> QED BY <1>1, <1>2, SumProperties
<1>4. \A T \in SUBSET S : TotalWeight(T) = SumOver(v, T)
  <2> HIDE DEF S
  <2> QED BY TotalWeightIsSum
<1>5. \A U \in SUBSET DOMAIN s : Picked(s, U) \in SUBSET S
  BY DEF Picked
<1>6. ASSUME NEW U \in SUBSET DOMAIN s, NEW i \in U
      PROVE  Picked(s, U \ {i}) = Picked(s, U) \ {s[i]} /\ s[i] \in Picked(s, U) /\ U \ {i} \in SUBSET DOMAIN s
  BY DEF Picked, Ordered
<1>7. Picked(s, {}) = {} /\ {} \in SUBSET S
  BY DEF Picked
<1>8. \A x \in S : v[x] = Weight(x)
  OBVIOUS
<1> HIDE DEF S, v
<1>9. Total(s, {}) = 0
  BY <1>3, <1>4, <1>7 DEF Total
<1>10. \A U \in SUBSET DOMAIN s : Total(s, U) \in Nat
  BY <1>3, <1>4, <1>5 DEF Total
<1>11. ASSUME NEW U \in SUBSET DOMAIN s, NEW i \in U
       PROVE  Total(s, U) = Total(s, U \ {i}) + Weight(s[i])
  <2>1. Total(s, U) = SumOver(v, Picked(s, U)) /\ Total(s, U \ {i}) = SumOver(v, Picked(s, U \ {i}))
    BY <1>4, <1>5, <1>6 DEF Total
  <2>2. SumOver(v, Picked(s, U)) = SumOver(v, Picked(s, U) \ {s[i]}) + v[s[i]]
    BY <1>3, <1>5, <1>6
  <2>3. v[s[i]] = Weight(s[i])
    BY <1>5, <1>6, <1>8
  <2> QED BY <2>1, <2>2, <2>3, <1>6
<1> QED BY <1>9, <1>10, <1>11

\* Interval i may be added to disjoint intervals that end before it begins.
LEMMA ExtendedBy ==
  ASSUME NEW s, Ordered(s), NEW i \in DOMAIN s, NEW V \in SUBSET Below(s, i), Apart(s, V)
  PROVE  /\ i \notin V /\ V \cup {i} \in SUBSET DOMAIN s
         /\ Apart(s, V \cup {i})
         /\ Total(s, V \cup {i}) = Total(s, V) + Weight(s[i])
<1>1. i \notin V
  BY DEF Below, Before, Ordered, Proper, WeightedInterval
<1>2. V \cup {i} \in SUBSET DOMAIN s
  BY DEF Below
<1>3. Apart(s, V \cup {i})
  BY DEF Apart, Below
<1>4. (V \cup {i}) \ {i} = V
  BY <1>1
<1> QED BY <1>1, <1>2, <1>3, <1>4, TotalProperties

\* Of disjoint intervals, those that do not end later than i end before it begins.
LEMMA SplitAt ==
  ASSUME NEW s, Ordered(s), NEW U \in SUBSET DOMAIN s, Apart(s, U), NEW i \in U,
         \A k \in U : s[k].high <= s[i].high
  PROVE  /\ U \ {i} \in SUBSET Below(s, i) /\ Apart(s, U \ {i})
         /\ Total(s, U) = Total(s, U \ {i}) + Weight(s[i])
<1>1. ASSUME NEW k \in U \ {i}
      PROVE  k \in Below(s, i)
  <2>1. Proper(s[i]) /\ Proper(s[k]) /\ k \in DOMAIN s /\ s[k].high <= s[i].high
    BY DEF Ordered
  <2>2. Before(s[i], s[k]) \/ Before(s[k], s[i])
    BY DEF Apart
  <2>3. ~Before(s[i], s[k])
    BY <2>1 DEF Before, Proper, WeightedInterval
  <2> QED BY <2>1, <2>2, <2>3 DEF Below
<1>2. Apart(s, U \ {i})
  BY DEF Apart
<1> QED BY <1>1, <1>2, TotalProperties

\* The step of the recurrence: with one more interval, which ends last, the best is
\* the best without it or the best that ends with it.
LEMMA BestWith ==
  ASSUME NEW s, Ordered(s), NEW X \in SUBSET DOMAIN s, NEW i \in DOMAIN s,
         Below(s, i) \subseteq X, \A k \in X : s[k].high <= s[i].high,
         NEW m, Heaviest(s, m, X), NEW c \in Nat, Best(s, i, c)
  PROVE  Heaviest(s, IF c > m THEN c ELSE m, X \cup {i})
<1> DEFINE w == Weight(s[i])
           b == IF c > m THEN c ELSE m
<1>1. m \in Nat /\ w \in Nat /\ c - w \in Nat /\ b \in Nat /\ Proper(s[i])
  BY WeightIsPositive DEF Heaviest, Best, Ordered
<1>2. \E U \in SUBSET (X \cup {i}) : Apart(s, U) /\ Total(s, U) = b
  <2>1. CASE c > m
    <3>1. PICK V \in SUBSET Below(s, i) : Apart(s, V) /\ Total(s, V) = c - w
      BY DEF Best, Heaviest
    <3>2. Apart(s, V \cup {i}) /\ Total(s, V \cup {i}) = Total(s, V) + w
      BY <3>1, ExtendedBy
    <3> HIDE DEF w
    <3>3. Total(s, V \cup {i}) = c
      BY <3>1, <3>2, <1>1
    <3>4. V \cup {i} \in SUBSET (X \cup {i})
      OBVIOUS
    <3> QED BY <2>1, <3>2, <3>3, <3>4
  <2>2. CASE ~(c > m)
    <3>1. PICK U \in SUBSET X : Apart(s, U) /\ Total(s, U) = m
      BY DEF Heaviest
    <3> QED BY <2>2, <3>1
  <2> QED BY <2>1, <2>2
<1>3. ASSUME NEW U \in SUBSET (X \cup {i}), Apart(s, U)
      PROVE  Total(s, U) <= b
  <2>1. CASE i \notin U
    <3>1. Total(s, U) <= m
      BY <1>3, <2>1 DEF Heaviest
    <3>2. Total(s, U) \in Nat
      BY TotalProperties
    <3> QED BY <1>1, <3>1, <3>2
  <2>2. CASE i \in U
    <3>1. \A k \in U : s[k].high <= s[i].high
      BY <1>1 DEF Proper, WeightedInterval
    <3>2. /\ U \ {i} \in SUBSET Below(s, i) /\ Apart(s, U \ {i})
          /\ Total(s, U) = Total(s, U \ {i}) + w
      BY <1>3, <2>2, <3>1, SplitAt
    <3>3. Total(s, U \ {i}) <= c - w
      BY <3>2 DEF Best, Heaviest
    <3>4. Total(s, U \ {i}) \in Nat
      BY TotalProperties
    <3> HIDE DEF w
    <3> QED BY <1>1, <3>2, <3>3, <3>4
  <2> QED BY <2>1, <2>2
<1> HIDE DEF b
<1>4. Heaviest(s, b, X \cup {i})
  BY <1>1, <1>2, <1>3 DEF Heaviest
<1> QED BY <1>4 DEF b

\* Of no intervals the best is nothing.
LEMMA BestOfNone ==
  ASSUME NEW s, Ordered(s)
  PROVE  /\ Heaviest(s, 0, {})
         /\ \A m : Heaviest(s, m, {}) => m = 0
<1>1. Total(s, {}) = 0 /\ Apart(s, {}) /\ SUBSET {} = {{}}
  BY TotalProperties DEF Apart
<1> QED BY <1>1 DEF Heaviest

\* A best weight that is not 0 is the best that ends with some interval: the walk
\* finds one.
LEMMA SomeEndsIt ==
  ASSUME NEW s, Ordered(s), NEW l \in DOMAIN s, NEW m, Heaviest(s, m, Below(s, l)), m # 0,
         NEW c \in [DOMAIN s -> Nat], \A i \in DOMAIN s : Best(s, i, c[i])
  PROVE  \E i \in Below(s, l) : c[i] = m
<1>1. PICK U \in SUBSET Below(s, l) : Apart(s, U) /\ Total(s, U) = m
  BY DEF Heaviest
<1>2. U # {} /\ m \in Nat
  BY <1>1, TotalProperties DEF Heaviest
<1>3. U \in SUBSET DOMAIN s /\ DOMAIN s = 1 .. Len(s) /\ Len(s) \in Nat
  BY <1>1 DEF Below, Ordered
<1>4. PICK i \in U : \A k \in U : k <= i
  <2>1. U \in SUBSET Nat /\ Len(s) \in Nat /\ \A k \in U : k <= Len(s)
    BY <1>3
  <2> QED BY <2>1, <1>2, BoundedHasMax
<1>5. \A k \in U : s[k].high <= s[i].high
  <2>1. ASSUME NEW k \in U PROVE s[k].high <= s[i].high
    <3>1. k \in DOMAIN s /\ i \in DOMAIN s /\ (k < i \/ k = i)
      BY <1>3, <1>4
    <3>2. s[i].high \in Nat
      BY <3>1 DEF Ordered, Proper, WeightedInterval
    <3> QED BY <3>1, <3>2 DEF Ordered
  <2> QED BY <2>1
<1> DEFINE w == Weight(s[i])
<1>6. i \in DOMAIN s /\ i \in Below(s, l) /\ c[i] \in Nat /\ w \in Nat /\ c[i] - w \in Nat
  <2>1. i \in DOMAIN s /\ i \in Below(s, l)
    BY <1>1, <1>3
  <2>2. w \in Nat
    BY <2>1, WeightIsPositive DEF Ordered
  <2> QED BY <2>1, <2>2 DEF Best, Heaviest
<1>7. m <= c[i]
  <2>1. /\ U \ {i} \in SUBSET Below(s, i) /\ Apart(s, U \ {i})
        /\ Total(s, U) = Total(s, U \ {i}) + w
    BY <1>1, <1>3, <1>5, SplitAt
  <2>2. Total(s, U \ {i}) <= c[i] - w
    BY <1>6, <2>1 DEF Best, Heaviest
  <2>3. Total(s, U \ {i}) \in Nat
    BY <1>3, TotalProperties
  <2> HIDE DEF w
  <2> QED BY <1>1, <1>6, <2>1, <2>2, <2>3
<1>8. c[i] <= m
  <2>1. PICK V \in SUBSET Below(s, i) : Apart(s, V) /\ Total(s, V) = c[i] - w
    BY <1>6 DEF Best, Heaviest
  <2>2. Apart(s, V \cup {i}) /\ Total(s, V \cup {i}) = Total(s, V) + w
    BY <1>6, <2>1, ExtendedBy
  <2>3. V \cup {i} \in SUBSET Below(s, l)
    <3>1. ASSUME NEW k \in Below(s, i) PROVE k \in Below(s, l)
      <4>1. k \in DOMAIN s /\ Proper(s[k]) /\ Proper(s[i]) /\ Proper(s[l])
        BY <1>6 DEF Below, Ordered
      <4>2. Before(s[k], s[i]) /\ Before(s[i], s[l])
        BY <1>6 DEF Below
      <4> QED BY <4>1, <4>2 DEF Below, Before, Proper, WeightedInterval
    <3> QED BY <1>6, <3>1
  <2>4. Total(s, V \cup {i}) <= m
    BY <2>2, <2>3 DEF Heaviest
  <2> HIDE DEF w
  <2> QED BY <1>2, <1>6, <2>1, <2>2, <2>4
<1> QED BY <1>2, <1>6, <1>7, <1>8

\* An endpoint is the left or the right one of the interval it names.
LEMMA EndpointShape ==
  ASSUME NEW s, Ordered(s), NEW e \in Endpoints(s)
  PROVE  /\ e.id \in DOMAIN s /\ e.isRightEnd \in {LEFT, RIGHT} /\ LEFT # RIGHT
         /\ e.isRightEnd = LEFT => e = LeftOf(s, e.id)
         /\ e.isRightEnd = RIGHT => e = RightOf(s, e.id)
         /\ \A i \in DOMAIN s :
               /\ LeftOf(s, i) \in Endpoints(s) /\ RightOf(s, i) \in Endpoints(s)
               /\ LeftOf(s, i).id = i /\ RightOf(s, i).id = i
               /\ LeftOf(s, i).isRightEnd = LEFT /\ RightOf(s, i).isRightEnd = RIGHT
               /\ LeftOf(s, i).val = s[i].low /\ RightOf(s, i).val = s[i].high
<1>1. \A i \in DOMAIN s :
         /\ LeftOf(s, i) \in Endpoints(s) /\ RightOf(s, i) \in Endpoints(s)
         /\ LeftOf(s, i).id = i /\ RightOf(s, i).id = i
         /\ LeftOf(s, i).isRightEnd = LEFT /\ RightOf(s, i).isRightEnd = RIGHT
         /\ LeftOf(s, i).val = s[i].low /\ RightOf(s, i).val = s[i].high
  BY DEF LeftOf, RightOf, Endpoints
<1>2. \E i \in DOMAIN s : e = LeftOf(s, i) \/ e = RightOf(s, i)
  BY DEF LeftOf, RightOf, Endpoints
<1>3. LEFT # RIGHT
  BY DEF LEFT, RIGHT
<1> QED BY <1>1, <1>2, <1>3

\* At the call no endpoint was reached.
LEMMA HInitHolds == SchedulingInit => HInv
<1> SUFFICES ASSUME SchedulingInit PROVE HInv
  OBVIOUS
<1>1. SchedulingInv /\ Argument
  BY SchedulingInitHolds DEF SchedulingInv
<1>2. Ordered(sorted_I)
  <2>1. PICK S \in (SUBSET Rule) \ {{}}, f \in Field :
          sorted_I \in SortedByHigh(CreateUniqueInterval(S, f))
    BY DEF SchedulingInit
  <2>2. \A i, k \in DOMAIN sorted_I : sorted_I[i] = sorted_I[k] => i = k
    BY <2>1 DEF SortedByHigh, Bijection, Injection, IsInjective
  <2>3. \A i, k \in DOMAIN sorted_I : i < k => sorted_I[i].high <= sorted_I[k].high
    BY <2>1 DEF SortedByHigh
  <2> QED BY <1>1, <2>2, <2>3 DEF Ordered, Argument, Index
<1>3. pc = "sweep" /\ endpoints = Endpoints(sorted_I) /\ temp_max = 0 /\ chi \in [Index -> Nat]
  BY DEF SchedulingInit
<1>4. Ended = {} /\ Begun = {}
  <2>1. \A i \in Index : LeftOf(sorted_I, i) \in endpoints /\ RightOf(sorted_I, i) \in endpoints
    BY <1>3 DEF LeftOf, RightOf, Endpoints, Index
  <2> QED BY <2>1 DEF Ended, Begun
<1>5. InOrder
  BY <1>3 DEF InOrder
<1>6. SweepIsBest
  BY <1>2, <1>3, <1>4, BestOfNone DEF SweepIsBest
<1> QED BY <1>1, <1>2, <1>3, <1>5, <1>6 DEF HInv

\* Taking the next endpoint keeps the order, and what ended and what begun are known:
\* whatever ends before the interval of the endpoint begins has ended.
LEMMA ReachFacts ==
  ASSUME Ordered(sorted_I), InOrder, NEW e \in endpoints, Reach(e), sorted_I' = sorted_I
  PROVE  /\ InOrder' /\ e.id \in Index /\ e \in Endpoints(sorted_I)
         /\ Below(sorted_I, e.id) \subseteq Ended
         /\ \A k \in Ended : sorted_I[k].high <= sorted_I[e.id].high
         /\ Ended \subseteq Index
         /\ e.isRightEnd = LEFT =>
               /\ e.id \notin Begun /\ Begun' = Begun \cup {e.id} /\ Ended' = Ended
               /\ Below(sorted_I, e.id) = Ended
         /\ e.isRightEnd = RIGHT =>
               /\ e.id \in Begun /\ Begun' = Begun /\ Ended' = Ended \cup {e.id}
<1>1. e \in Endpoints(sorted_I) /\ endpoints \subseteq Endpoints(sorted_I)
  BY DEF InOrder
<1> DEFINE s == sorted_I
           i == e.id
<1>2. /\ i \in DOMAIN s /\ e.isRightEnd \in {LEFT, RIGHT} /\ LEFT # RIGHT
      /\ e.isRightEnd = LEFT => e = LeftOf(s, i)
      /\ e.isRightEnd = RIGHT => e = RightOf(s, i)
      /\ \A k \in DOMAIN s :
            /\ LeftOf(s, k) \in Endpoints(s) /\ RightOf(s, k) \in Endpoints(s)
            /\ LeftOf(s, k).id = k /\ RightOf(s, k).id = k
            /\ LeftOf(s, k).isRightEnd = LEFT /\ RightOf(s, k).isRightEnd = RIGHT
            /\ LeftOf(s, k).val = s[k].low /\ RightOf(s, k).val = s[k].high
  BY <1>1, EndpointShape
<1>3. endpoints' = endpoints \ {e} /\ \A d \in endpoints : ~Precedes(d, e)
  BY DEF Reach
<1>4. InOrder'
  <2>1. ASSUME NEW d \in Endpoints(s) \ endpoints', NEW c \in endpoints'
        PROVE  ~Precedes(c, d)
    BY <1>3 DEF InOrder
  <2> QED BY <1>1, <1>3, <2>1 DEF InOrder
<1>5. \A k \in DOMAIN s : s[k].low \in Nat /\ s[k].high \in Nat /\ s[k].low <= s[k].high
  BY DEF Ordered, Proper, WeightedInterval
<1>6. Index = DOMAIN s
  BY DEF Index
<1>7. ASSUME NEW k \in Below(s, i)
      PROVE  k \in Ended
  <2>1. k \in DOMAIN s /\ s[k].high < s[i].low
    BY DEF Below, Before
  <2>2. RightOf(s, k).val < e.val
    BY <1>2, <1>5, <2>1
  <2>3. RightOf(s, k) \notin endpoints
    BY <1>3, <2>2 DEF Precedes
  <2> QED BY <1>6, <2>1, <2>3 DEF Ended
<1>8. ASSUME NEW k \in Ended
      PROVE  /\ k \in DOMAIN s /\ s[k].high <= e.val
             /\ e.isRightEnd = LEFT => s[k].high < e.val
  <2>1. k \in DOMAIN s /\ RightOf(s, k) \in Endpoints(s) \ endpoints
    BY <1>2, <1>6 DEF Ended
  <2>2. ~Precedes(e, RightOf(s, k))
    BY <2>1 DEF InOrder
  <2>3. e.val \in Nat
    BY <1>2, <1>5
  <2> QED BY <1>2, <1>5, <2>1, <2>2, <2>3 DEF Precedes, LEFT, RIGHT
<1>9. \A k \in Ended : s[k].high <= s[i].high
  BY <1>2, <1>5, <1>8
<1>10. Ended \subseteq Index
  BY DEF Ended
<1>11. \A k \in Index : (LeftOf(s, k) = e <=> k = i /\ e.isRightEnd = LEFT)
                     /\ (RightOf(s, k) = e <=> k = i /\ e.isRightEnd = RIGHT)
  BY <1>2, <1>6
<1>12. /\ Ended' = {k \in Index : RightOf(s, k) \notin endpoints'}
       /\ Begun' = {k \in Index : LeftOf(s, k) \notin endpoints'}
  BY DEF Ended, Begun, Index, RightOf, LeftOf
<1>13. CASE e.isRightEnd = LEFT
  <2>1. i \notin Begun
    BY <1>2, <1>13 DEF Begun
  <2>2. Begun' = Begun \cup {i} /\ Ended' = Ended
    BY <1>2, <1>3, <1>6, <1>11, <1>12, <1>13 DEF Begun, Ended
  <2>3. Below(s, i) = Ended
    <3>1. ASSUME NEW k \in Ended PROVE k \in Below(s, i)
      BY <1>2, <1>8, <1>13 DEF Below, Before
    <3> QED BY <1>7, <3>1
  <2> QED BY <1>1, <1>2, <1>4, <1>6, <1>7, <1>9, <1>10, <1>13, <2>1, <2>2, <2>3
<1>14. CASE e.isRightEnd = RIGHT
  <2>1. i \in Begun
    <3>1. e = RightOf(s, i) /\ LeftOf(s, i).val <= e.val
      BY <1>2, <1>5, <1>14
    <3>2. Precedes(LeftOf(s, i), e)
      BY <1>2, <1>5, <1>14, <3>1 DEF Precedes, LEFT, RIGHT
    <3> QED BY <1>2, <1>3, <1>6, <3>2 DEF Begun
  <2>2. Begun' = Begun /\ Ended' = Ended \cup {i}
    BY <1>2, <1>3, <1>6, <1>11, <1>12, <1>14 DEF Begun, Ended
  <2> QED BY <1>1, <1>2, <1>4, <1>6, <1>7, <1>9, <1>10, <1>14, <2>1, <2>2
<1> QED BY <1>2, <1>13, <1>14

\* A left endpoint: all that ended is all that the interval may follow.
LEMMA LeftEndStep ==
  ASSUME HInv, NEW e \in endpoints, LeftEnd(e)
  PROVE  HInv'
<1> USE DEF HInv
<1>1. SchedulingInv' /\ pc = "sweep" /\ Ordered(sorted_I) /\ InOrder /\ SweepIsBest
  BY SweepStep DEF LeftEnd, Reach
<1>2. /\ Reach(e) /\ e.isRightEnd = LEFT
      /\ sorted_I' = sorted_I /\ temp_max' = temp_max /\ last_interval' = last_interval /\ pc' = pc
      /\ chi' = [chi EXCEPT ![e.id] = temp_max + Weight(sorted_I[e.id])]
  BY DEF LeftEnd
<1> DEFINE i == e.id
           w == Weight(sorted_I[i])
<1>3. /\ InOrder' /\ i \in Index /\ i \notin Begun /\ Begun' = Begun \cup {i} /\ Ended' = Ended
      /\ Below(sorted_I, i) = Ended
  BY <1>1, <1>2, ReachFacts
<1>4. temp_max \in Nat /\ w \in Nat /\ temp_max + w \in Nat /\ (temp_max + w) - w = temp_max
  <2>1. w \in Nat
    BY <1>1, <1>3, WeightIsPositive DEF Ordered, Index
  <2>2. temp_max \in Nat
    BY <1>1 DEF SweepIsBest, Heaviest
  <2> HIDE DEF w
  <2> QED BY <2>1, <2>2
<1>5. /\ chi'[i] = temp_max + w /\ (\A k \in Index : k # i => chi'[k] = chi[k])
      /\ chi' \in [Index -> Nat]
  <2> HIDE DEF w
  <2> QED BY <1>2, <1>3, <1>4 DEF w
<1>6. Best(sorted_I, i, chi'[i])
  <2> HIDE DEF w
  <2>1. Heaviest(sorted_I, chi'[i] - w, Below(sorted_I, i))
    BY <1>1, <1>3, <1>4, <1>5 DEF SweepIsBest
  <2> QED BY <2>1 DEF Best, w
<1>7. \A k \in Begun' : Best(sorted_I, k, chi'[k])
  BY <1>1, <1>3, <1>5, <1>6 DEF SweepIsBest, Begun
<1>8. Ended # {} => last_interval \in Ended /\ chi'[last_interval] = temp_max
  <2>1. Ended # {} => last_interval \in Ended /\ chi[last_interval] = temp_max
    BY <1>1 DEF SweepIsBest
  <2>2. ASSUME last_interval \in Ended, last_interval = i PROVE FALSE
    <3>1. i \in Below(sorted_I, i)
      BY <1>3, <2>2
    <3> QED BY <1>1, <3>1 DEF Below, Before, Ordered, Proper, WeightedInterval
  <2> QED BY <1>5, <2>1, <2>2 DEF Ended
<1>9. SweepIsBest'
  BY <1>1, <1>2, <1>3, <1>7, <1>8 DEF SweepIsBest
<1>10. Index' = Index
  BY <1>2 DEF Index
<1> QED BY <1>1, <1>2, <1>3, <1>5, <1>9, <1>10

\* A right endpoint: the interval joins those that ended.
LEMMA RightEndStep ==
  ASSUME HInv, NEW e \in endpoints, RightEnd(e)
  PROVE  HInv'
<1> USE DEF HInv
<1>1. SchedulingInv' /\ pc = "sweep" /\ Ordered(sorted_I) /\ InOrder /\ SweepIsBest
  BY SweepStep DEF RightEnd, Reach
<1>2. /\ Reach(e) /\ e.isRightEnd = RIGHT
      /\ sorted_I' = sorted_I /\ chi' = chi /\ pc' = pc
      /\ IF chi[e.id] > temp_max
         THEN temp_max' = chi[e.id] /\ last_interval' = e.id
         ELSE temp_max' = temp_max /\ last_interval' = last_interval
  BY DEF RightEnd
<1> DEFINE i == e.id
           w == Weight(sorted_I[i])
<1>3. /\ InOrder' /\ i \in Index /\ i \in Begun /\ Begun' = Begun /\ Ended' = Ended \cup {i}
      /\ Below(sorted_I, i) \subseteq Ended /\ Ended \subseteq Index
      /\ \A k \in Ended : sorted_I[k].high <= sorted_I[i].high
  BY <1>1, <1>2, ReachFacts
<1>4. chi[i] \in Nat /\ Best(sorted_I, i, chi[i]) /\ Heaviest(sorted_I, temp_max, Ended)
  BY <1>1, <1>3 DEF SweepIsBest
<1>5. temp_max' = IF chi[i] > temp_max THEN chi[i] ELSE temp_max
  BY <1>2
<1>6. Heaviest(sorted_I, temp_max', Ended')
  <2>1. /\ Ordered(sorted_I) /\ Ended \in SUBSET DOMAIN sorted_I /\ i \in DOMAIN sorted_I
        /\ Below(sorted_I, i) \subseteq Ended /\ \A k \in Ended : sorted_I[k].high <= sorted_I[i].high
        /\ Heaviest(sorted_I, temp_max, Ended) /\ chi[i] \in Nat /\ Best(sorted_I, i, chi[i])
    BY <1>1, <1>3, <1>4 DEF Index
  <2>2. Heaviest(sorted_I, IF chi[i] > temp_max THEN chi[i] ELSE temp_max, Ended \cup {i})
    <3> HIDE DEF i
    <3> QED BY ONLY <2>1, BestWith
  <2> QED BY <1>3, <1>5, <2>2
<1>7. Ended' # {} => last_interval' \in Ended' /\ chi'[last_interval'] = temp_max'
  <2>1. CASE chi[i] > temp_max
    BY <1>2, <1>3, <2>1
  <2>2. CASE ~(chi[i] > temp_max)
    <3>1. Ended # {}
      <4>1. SUFFICES ASSUME Ended = {} PROVE FALSE
        OBVIOUS
      <4>2. temp_max = 0
        BY <1>1, <1>4, <4>1, BestOfNone
      <4>3. w \in Nat \ {0}
        BY <1>1, <1>3, WeightIsPositive DEF Ordered, Index
      <4>4. chi[i] - w \in Nat
        BY <1>4 DEF Best, Heaviest
      <4> HIDE DEF w
      <4> QED BY <1>4, <2>2, <4>2, <4>3, <4>4
    <3>2. last_interval \in Ended /\ chi[last_interval] = temp_max
      BY <1>1, <3>1 DEF SweepIsBest
    <3> QED BY <1>2, <1>3, <2>2, <3>2
  <2> QED BY <2>1, <2>2
<1>8. SweepIsBest'
  BY <1>1, <1>2, <1>3, <1>6, <1>7 DEF SweepIsBest
<1>9. Index' = Index
  BY <1>2 DEF Index
<1> QED BY <1>1, <1>2, <1>3, <1>8, <1>9

\* When all have ended, the interval remembered ends a best set.
LEMMA StartWalkHeaviest ==
  ASSUME HInv, StartWalk
  PROVE  HInv'
<1> USE DEF HInv
<1>1. SchedulingInv' /\ Ordered(sorted_I) /\ SweepIsBest /\ Positions /\ Argument
  BY StartWalkStep DEF StartWalk, SchedulingInv
<1>2. /\ pc = "sweep" /\ endpoints = {} /\ sorted_I' = sorted_I /\ chi' = chi
      /\ last_interval' = last_interval /\ S_max' = {last_interval} /\ max_MIS' = temp_max
      /\ temp_max' = temp_max - Weight(sorted_I[last_interval]) /\ j' = last_interval - 1
      /\ pc' = "walk"
  BY DEF StartWalk
<1> DEFINE l == last_interval
           w == Weight(sorted_I[l])
<1>3. Ended = Index /\ Begun = Index /\ Index # {} /\ Index' = Index
  <2>1. Ended = Index /\ Begun = Index /\ Index' = Index
    BY <1>2 DEF Ended, Begun, Index
  <2>2. 1 \in 1 .. Len(sorted_I)
    BY <1>1 DEF Argument
  <2> QED BY <1>1, <2>1, <2>2 DEF Argument
<1>4. l \in Index /\ l \in Nat \ {0} /\ l - 1 \in Nat /\ chi[l] = temp_max
  BY <1>1, <1>3 DEF SweepIsBest, Argument
<1>5. Heaviest(sorted_I, temp_max', Below(sorted_I, l))
  BY <1>1, <1>2, <1>3, <1>4 DEF SweepIsBest, Best
<1>6. Total(sorted_I, {l}) + temp_max' = temp_max
  <2>1. {l} \in SUBSET DOMAIN sorted_I /\ l \in {l} /\ {l} \ {l} = {}
    BY <1>4 DEF Index
  <2>2. Total(sorted_I, {l}) = Total(sorted_I, {l} \ {l}) + w /\ Total(sorted_I, {}) = 0
    BY <1>1, <2>1, TotalProperties
  <2>3. w \in Nat /\ temp_max \in Nat
    BY <1>1, <1>4, WeightIsPositive DEF Ordered, Index, SweepIsBest, Heaviest
  <2>4. temp_max' = temp_max - w
    BY <1>2
  <2> HIDE DEF w
  <2> QED BY <2>1, <2>2, <2>3, <2>4
<1>7. \A k \in Index : ~(l - 1 < k /\ k < l)
  BY <1>1, <1>4 DEF Argument
<1>8. WalkIsBest'
  <2>1. \A i \in Index : Best(sorted_I, i, chi[i])
    BY <1>1, <1>3 DEF SweepIsBest
  <2>2. Heaviest(sorted_I, temp_max, Index)
    BY <1>1, <1>3 DEF SweepIsBest
  <2> QED BY <1>2, <1>3, <1>5, <1>6, <1>7, <2>1, <2>2 DEF WalkIsBest
<1> QED BY <1>1, <1>2, <1>3, <1>4, <1>8

\* A step of the walk: the interval that belongs ends a best set of those below.
LEMMA WalkHeaviest ==
  ASSUME HInv, Walk
  PROVE  HInv'
<1> USE DEF HInv
<1>1. SchedulingInv' /\ Ordered(sorted_I) /\ pc = "walk" /\ j > 0 /\ WalkIsBest /\ Positions /\ Argument /\ LastIsLowest
  BY WalkStep DEF Walk, SchedulingInv
<1>2. /\ sorted_I' = sorted_I /\ chi' = chi /\ max_MIS' = max_MIS /\ pc' = pc /\ j' = j - 1
  BY DEF Walk
<1>3. /\ Index' = Index /\ j \in Index /\ j \in Nat /\ j - 1 \in Nat /\ last_interval \in Index
      /\ j < last_interval /\ Index \subseteq Nat
  BY <1>1, <1>2 DEF Index, Positions, Argument
<1>4. CASE ~Belongs(j)
  <2>1. S_max' = S_max /\ temp_max' = temp_max /\ last_interval' = last_interval
    BY <1>4 DEF Walk
  <2>2. \A k \in Index : j - 1 < k /\ k < last_interval => ~Belongs(k)
    <3>1. \A k \in Index : j - 1 < k => k = j \/ j < k
      BY <1>3
    <3> QED BY <1>1, <1>4, <3>1 DEF WalkIsBest
  <2>3. \A k \in Index : Belongs(k)' <=> Belongs(k)
    BY <1>2, <2>1 DEF Belongs
  <2>4. WalkIsBest'
    BY <1>1, <1>2, <1>3, <2>1, <2>2, <2>3 DEF WalkIsBest
  <2> QED BY <1>1, <1>2, <1>3, <2>4
<1>5. CASE Belongs(j)
  <2> DEFINE w == Weight(sorted_I[j])
  <2>1. S_max' = S_max \cup {j} /\ temp_max' = temp_max - w /\ last_interval' = j
    BY <1>5 DEF Walk
  <2>2. chi[j] = temp_max /\ Before(sorted_I[j], sorted_I[last_interval])
    BY <1>5 DEF Belongs
  <2>3. Heaviest(sorted_I, temp_max', Below(sorted_I, j))
    BY <1>1, <1>3, <2>1, <2>2 DEF WalkIsBest, Best
  <2>4. j \notin S_max
    <3>1. SUFFICES ASSUME j \in S_max PROVE FALSE
      OBVIOUS
    <3>2. Before(sorted_I[last_interval], sorted_I[j])
      BY <1>1, <1>3, <3>1 DEF LastIsLowest
    <3>3. Proper(sorted_I[j]) /\ Proper(sorted_I[last_interval])
      BY <1>1, <1>3 DEF Argument
    <3> QED BY <2>2, <3>2, <3>3 DEF Before, Proper, WeightedInterval
  <2>5. Total(sorted_I, S_max') + temp_max' = max_MIS
    <3>1. /\ S_max' \in SUBSET DOMAIN sorted_I /\ S_max \in SUBSET DOMAIN sorted_I
          /\ j \in S_max' /\ S_max' \ {j} = S_max
      BY <1>1, <1>3, <2>1, <2>4 DEF Positions, Index
    <3>2. Total(sorted_I, S_max') = Total(sorted_I, S_max) + w /\ Total(sorted_I, S_max) \in Nat
      BY <1>1, <3>1, TotalProperties
    <3>3. w \in Nat /\ temp_max \in Nat
      BY <1>1, <1>3, WeightIsPositive DEF Ordered, Index, WalkIsBest, Heaviest
    <3>4. Total(sorted_I, S_max) + temp_max = max_MIS
      BY <1>1 DEF WalkIsBest
    <3> HIDE DEF w
    <3> QED BY <2>1, <3>2, <3>3, <3>4
  <2>6. \A k \in Index : ~(j - 1 < k /\ k < j)
    BY <1>3
  <2>7. WalkIsBest'
    BY <1>1, <1>2, <1>3, <2>1, <2>3, <2>5, <2>6 DEF WalkIsBest
  <2> QED BY <1>1, <1>2, <1>3, <2>7
<1> QED BY <1>4, <1>5

\* The invariant of the weights.
THEOREM WeightInvariance == SchedulingSpec => []HInv
<1>1. HInv /\ [SchedulingNext]_schedule => HInv'
  <2> SUFFICES ASSUME HInv, [SchedulingNext]_schedule PROVE HInv'
    OBVIOUS
  <2>1. ASSUME NEW e \in endpoints, LeftEnd(e) \/ RightEnd(e) PROVE HInv'
    BY <2>1, LeftEndStep, RightEndStep
  <2>2. CASE StartWalk
    BY <2>2, StartWalkHeaviest
  <2>3. CASE Walk
    BY <2>3, WalkHeaviest
  <2> DEFINE same == <<sorted_I, endpoints, chi, temp_max, last_interval, max_MIS, S_max, j>>
  <2>4. ASSUME same' = same
        PROVE  /\ (SchedulingInv /\ pc' = pc => SchedulingInv') /\ Ordered(sorted_I') = Ordered(sorted_I)
               /\ Index' = Index /\ chi' = chi /\ j' = j
               /\ (InOrder' <=> InOrder) /\ (SweepIsBest' <=> SweepIsBest) /\ (WalkIsBest' <=> WalkIsBest)
    <3>1. /\ sorted_I' = sorted_I /\ endpoints' = endpoints /\ chi' = chi /\ temp_max' = temp_max
          /\ last_interval' = last_interval /\ max_MIS' = max_MIS /\ S_max' = S_max /\ j' = j
      BY <2>4
    <3>2. Index' = Index /\ Ended' = Ended /\ Begun' = Begun
      BY <3>1 DEF Index, Ended, Begun
    <3>3. (InOrder' <=> InOrder) /\ (SweepIsBest' <=> SweepIsBest)
      BY <3>1, <3>2 DEF InOrder, SweepIsBest
    <3>4. \A k : Belongs(k)' <=> Belongs(k)
      BY <3>1 DEF Belongs
    <3>5. WalkIsBest' <=> WalkIsBest
      BY <3>1, <3>2, <3>4 DEF WalkIsBest
    <3>6. SchedulingInv /\ pc' = pc => SchedulingInv'
      BY <3>1 DEF SchedulingInv, Argument, Index, Positions, LastIsLowest, SweepChoosesNothing,
                  ChosenAreIndependent, Independent, Intervals
    <3> QED BY <3>1, <3>2, <3>3, <3>5, <3>6
  <2>5. CASE EndWalk
    <3>1. pc = "walk" /\ j = 0 /\ pc' = "done" /\ same' = same
      BY <2>5 DEF EndWalk
    <3>2. SchedulingInv'
      BY <2>5 DEF HInv, EndWalk, SchedulingInv, Argument, Index, Positions, LastIsLowest, SweepChoosesNothing,
                  ChosenAreIndependent, Independent, Intervals
    <3> HIDE DEF same
    <3> QED BY <2>4, <3>1, <3>2 DEF HInv
  <2>6. CASE UNCHANGED schedule
    <3>1. pc' = pc /\ same' = same
      BY <2>6 DEF schedule
    <3> HIDE DEF same
    <3> QED BY <2>4, <3>1 DEF HInv
  <2> QED BY <2>1, <2>2, <2>3, <2>5, <2>6 DEF SchedulingNext
<1> QED BY HInitHolds, <1>1, PTL DEF SchedulingSpec

\* MWISIntervals returns disjoint intervals of the largest weight, and that weight: at
\* the end nothing is left to find, because whatever is left ends with an interval
\* that the walk would have taken.
THEOREM ReturnsMWISAlways == SchedulingSpec => []ReturnsMWIS
<1>1. HInv => ReturnsMWIS
  <2> SUFFICES ASSUME HInv, pc = "done"
               PROVE  /\ Intervals(S_max) \in MWISIntervals(Intervals(Index))
                      /\ max_MIS = MaximumWeight(Intervals(Index))
    BY DEF ReturnsMWIS
  <2> DEFINE s == sorted_I
             W == Intervals(Index)
  <2>1. /\ Ordered(s) /\ WalkIsBest /\ j = 0 /\ Positions /\ chi \in [Index -> Nat]
        /\ ChosenAreIndependent /\ Index = DOMAIN s
    BY DEF HInv, SchedulingInv, Index
  <2>2. temp_max = 0
    <3>1. SUFFICES ASSUME temp_max # 0 PROVE FALSE
      OBVIOUS
    <3>2. PICK k \in Below(s, last_interval) : chi[k] = temp_max
      BY <2>1, <3>1, SomeEndsIt DEF WalkIsBest, Positions
    <3>3. Belongs(k) /\ k \in Index
      BY <2>1, <3>2 DEF Below, Belongs
    <3>4. j < k /\ k < last_interval
      <4>1. Before(s[k], s[last_interval]) /\ Proper(s[k]) /\ Proper(s[last_interval])
        BY <2>1, <3>2, <3>3 DEF Below, Ordered, Positions
      <4>2. k \in Nat \ {0} /\ last_interval \in Nat
        BY <2>1, <3>3 DEF Ordered, Positions
      <4>3. ~(last_interval < k)
        <5>1. last_interval < k => s[last_interval].high <= s[k].high
          BY <2>1, <3>3 DEF Ordered, Positions
        <5> QED BY <4>1, <5>1 DEF Before, Proper, WeightedInterval
      <4>4. k # last_interval
        BY <4>1 DEF Before, Proper, WeightedInterval
      <4> QED BY <2>1, <4>2, <4>3, <4>4
    <3> QED BY <2>1, <3>3, <3>4 DEF WalkIsBest
  <2>3. Heaviest(s, max_MIS, Index) /\ Total(s, S_max) = max_MIS
    <3>1. Total(s, S_max) \in Nat
      BY <2>1, TotalProperties DEF Positions
    <3> QED BY <2>1, <2>2, <3>1 DEF WalkIsBest
  <2>4. ASSUME NEW V \in SUBSET W, Independent(V)
        PROVE  TotalWeight(V) \in Nat /\ TotalWeight(V) <= max_MIS
    <3> DEFINE U == {i \in Index : s[i] \in V}
    <3>1. V = Picked(s, U)
      BY DEF Picked, Intervals
    <3>2. Apart(s, U)
      BY <2>1, <2>4 DEF Apart, Independent, Ordered
    <3>3. U \in SUBSET DOMAIN s /\ Total(s, U) = TotalWeight(V)
      BY <2>1, <3>1 DEF Total
    <3> HIDE DEF U
    <3> QED BY <2>1, <2>3, <3>2, <3>3, TotalProperties DEF Heaviest
  <2>5. Intervals(S_max) \in SUBSET W /\ Independent(Intervals(S_max)) /\ TotalWeight(Intervals(S_max)) = max_MIS
    BY <2>1, <2>3 DEF Intervals, Total, Picked, ChosenAreIndependent, Positions
  <2> HIDE DEF W
  <2> DEFINE weights == {TotalWeight(V) : V \in {U \in SUBSET W : Independent(U)}}
  <2>6. Max(weights) = max_MIS
    <3>1. weights \in SUBSET Int /\ max_MIS \in weights /\ \A x \in weights : x <= max_MIS
      BY <2>4, <2>5
    <3> HIDE DEF weights
    <3> QED BY <3>1, MaxProperty
  <2>7. MaximumWeight(W) = max_MIS
    BY <2>6 DEF MaximumWeight
  <2> QED BY <2>5, <2>7 DEF MWISIntervals, W
<1> QED BY WeightInvariance, <1>1, PTL

------------------------------------------------------------------------------
(* The partitioners: their invariant                                       *)

\* What separates the parts of a selection, apart from the variables.
SeparatedBy(r, s, fields) ==
    \E i \in DOMAIN fields :
        /\ Disjoint(r, s, fields[i])
        /\ \A k \in 1 .. i - 1 : Identical(r, s, fields[k])

Separated(P, fields) ==
    \A p, q \in P : \A r \in p, s \in q :
        IF p = q THEN \A f \in Range(fields) : Identical(r, s, f)
        ELSE SeparatedBy(r, s, fields)

\* While fields are selected, rules of one part agree in the fields chosen so
\* far, and rules of different parts are already separated by them.
PartsAreSeparated ==
    Selecting => Separated(selection.all_partitions, selection.current_field)

\* The call, and the types of its variables.
CallShape ==
    /\ threshold \in Int
    /\ rules \subseteq Rule /\ current_rules \subseteq rules
    /\ all_buckets \in Seq([rules : SUBSET rules, fields : FieldOrder])

\* A reconstruction may lose rules, and nothing else does.
MayLose == method = "Adaptive" /\ threshold > 0

\* A rule is in a bucket or still waiting, and never in two buckets.
Placed ==
    /\ MayLose \/ \A r \in rules : \/ r \in current_rules
                                   \/ \E i \in DOMAIN all_buckets : r \in all_buckets[i].rules
    /\ \A i \in DOMAIN all_buckets : all_buckets[i].rules \cap current_rules = {}
    /\ \A i, k \in DOMAIN all_buckets :
          i # k => all_buckets[i].rules \cap all_buckets[k].rules = {}

\* A selection is made of the rules that wait, or of the bucket it will replace.
SelectionShape ==
    Selecting =>
        /\ selection \in [ all_partitions : SUBSET SUBSET Rule, current_field : Seq(Field), bucket : Int ]
        /\ IsInjective(selection.current_field)
        /\ \/ method = "GFS" /\ UNION selection.all_partitions \subseteq current_rules
           \/ /\ MayLose /\ selection.bucket \in DOMAIN all_buckets
              /\ UNION selection.all_partitions \subseteq all_buckets[selection.bucket].rules

BucketsInv == CallShape /\ Placed /\ BucketsAreSortable
IInv == BucketsInv /\ SelectionShape /\ PartsAreSeparated

------------------------------------------------------------------------------
(* Lemmas                                                                  *)

\* An interval of a part, and the rules behind it.
LEMMA RulesOfInterval ==
  ASSUME NEW p, NEW f, NEW w \in CreateUniqueInterval(p, f), NEW r \in w.rules
  PROVE  r \in p /\ Low(r, f) = w.low /\ High(r, f) = w.high
<1>1. PICK t \in p : w = [ low |-> Low(t, f), high |-> High(t, f),
                           rules |-> {s \in p : range[s][f] = range[t][f]} ]
  BY DEF CreateUniqueInterval
<1> QED BY <1>1 DEF Low, High

\* The rules behind one interval are alike in the field.
LEMMA RulesAreAlike ==
  ASSUME NEW p, NEW f, NEW w \in CreateUniqueInterval(p, f), NEW r \in w.rules, NEW s \in w.rules
  PROVE  Identical(r, s, f)
<1>1. PICK t \in p : w = [ low |-> Low(t, f), high |-> High(t, f),
                           rules |-> {u \in p : range[u][f] = range[t][f]} ]
  BY DEF CreateUniqueInterval
<1> QED BY <1>1 DEF Identical

\* A rule does not lie before itself, nor does an identical one.
LEMMA NotDisjoint ==
  ASSUME NEW r \in Rule, NEW s \in Rule, NEW f \in Field, Identical(r, s, f)
  PROVE  ~Disjoint(r, s, f)
<1>1. range[r][f] \in Nat \X Nat /\ range[s][f] = range[r][f]
  BY RulesAssumption DEF Identical
<1>2. Low(r, f) <= High(r, f)
  BY IntervalAssumption
<1> QED BY <1>1, <1>2 DEF Disjoint, Low, High

\* Choosing the heaviest disjoint intervals of every part keeps the parts
\* separated, now also by the new field.
LEMMA SelectionSeparates ==
  ASSUME NEW P, NEW fields \in Seq(Field), NEW f \in Field,
         UNION P \subseteq Rule, Separated(P, fields),
         NEW Q \in MWISonEntirePartition(P, f)
  PROVE  /\ Separated(Q, Append(fields, f))
         /\ UNION Q \subseteq UNION P
<1> DEFINE n == Len(fields)
           more == Append(fields, f)
<1>1. PICK chosen \in OneOfEach([p \in P |-> MWISIntervals(CreateUniqueInterval(p, f))]) :
        Q = UNION {{w.rules : w \in chosen[p]} : p \in P}
  BY DEF MWISonEntirePartition
<1>2. ASSUME NEW p \in P
      PROVE  chosen[p] \subseteq CreateUniqueInterval(p, f) /\ Independent(chosen[p])
  <2>1. chosen[p] \in MWISIntervals(CreateUniqueInterval(p, f))
    BY <1>1 DEF OneOfEach
  <2> QED BY <2>1 DEF MWISIntervals
<1>3. ASSUME NEW q \in Q
      PROVE  \E p \in P : \E w \in chosen[p] : q = w.rules
  BY <1>1
<1>4. ASSUME NEW p \in P, NEW w \in chosen[p], NEW r \in w.rules
      PROVE  r \in p /\ Low(r, f) = w.low /\ High(r, f) = w.high
  BY <1>2, RulesOfInterval
<1>5. /\ n \in Nat /\ DOMAIN fields = 1 .. n /\ DOMAIN more = 1 .. n + 1
      /\ more[n + 1] = f /\ \A k \in 1 .. n : more[k] = fields[k]
  OBVIOUS
<1>6. Range(more) = Range(fields) \cup {f}
  <2> HIDE DEF more, n
  <2> QED BY <1>5 DEF Range
<1> HIDE DEF more, n
<1>7. ASSUME NEW p \in Q, NEW q \in Q, NEW r \in p, NEW s \in q
      PROVE  IF p = q THEN \A g \in Range(more) : Identical(r, s, g)
             ELSE SeparatedBy(r, s, more)
  <2>1. PICK p0 \in P : \E v \in chosen[p0] : p = v.rules
    BY <1>3
  <2>2. PICK v \in chosen[p0] : p = v.rules
    BY <2>1
  <2>3. PICK q0 \in P : \E w \in chosen[q0] : q = w.rules
    BY <1>3
  <2>4. PICK w \in chosen[q0] : q = w.rules
    BY <2>3
  <2>5. r \in p0 /\ s \in q0
    BY <1>4, <2>2, <2>4
  <2>6. CASE p = q
    <3>1. s \in v.rules /\ s \in p0
      BY <1>4, <2>2, <2>6
    <3>2. Identical(r, s, f)
      BY <1>2, <2>2, <3>1, RulesAreAlike
    <3>3. \A g \in Range(fields) : Identical(r, s, g)
      BY <2>5, <3>1 DEF Separated
    <3> QED BY <1>6, <2>6, <3>2, <3>3
  <2>7. CASE p # q /\ p0 = q0
    <3>1. v # w /\ v \in chosen[p0] /\ w \in chosen[p0]
      BY <2>2, <2>4, <2>7
    <3>2. Before(v, w) \/ Before(w, v)
      BY <1>2, <3>1 DEF Independent
    <3>3. Disjoint(r, s, f)
      <4>1. Low(r, f) = v.low /\ High(r, f) = v.high
        BY <1>4, <2>2
      <4>2. Low(s, f) = w.low /\ High(s, f) = w.high
        BY <1>4, <2>4, <2>7
      <4> QED BY <3>2, <4>1, <4>2 DEF Before, Disjoint
    <3>4. \A k \in 1 .. n : Identical(r, s, more[k])
      <4>1. \A g \in Range(fields) : Identical(r, s, g)
        BY <2>5, <2>7 DEF Separated
      <4> QED BY <1>5, <4>1 DEF Range
    <3>5. n + 1 \in DOMAIN more /\ (n + 1) - 1 = n /\ more[n + 1] = f
      BY <1>5
    <3>6. SeparatedBy(r, s, more)
      BY <3>3, <3>4, <3>5 DEF SeparatedBy
    <3> QED BY <2>7, <3>6
  <2>8. CASE p0 # q0
    <3>1. SeparatedBy(r, s, fields)
      BY <2>5, <2>8 DEF Separated
    <3>2. PICK i \in 1 .. n : /\ Disjoint(r, s, fields[i])
                              /\ \A k \in 1 .. i - 1 : Identical(r, s, fields[k])
      BY <1>5, <3>1 DEF SeparatedBy
    <3>3. /\ i \in DOMAIN more /\ more[i] = fields[i]
          /\ \A k \in 1 .. i - 1 : more[k] = fields[k]
      BY <1>5
    <3>4. SeparatedBy(r, s, more)
      BY <3>2, <3>3 DEF SeparatedBy
    <3>5. p # q
      <4> SUFFICES ASSUME p = q PROVE FALSE
        OBVIOUS
      <4>1. r \in p0 /\ r \in q0
        BY <1>4, <2>2, <2>4
      <4>2. PICK k \in 1 .. n : Disjoint(r, r, fields[k])
        BY <1>5, <2>8, <4>1 DEF Separated, SeparatedBy
      <4>3. r \in Rule /\ fields[k] \in Field /\ Identical(r, r, fields[k])
        BY <1>5, <4>1 DEF Identical
      <4> QED BY <4>2, <4>3, NotDisjoint
    <3> QED BY <3>4, <3>5
  <2> QED BY <2>6, <2>7, <2>8
<1>8. UNION Q \subseteq UNION P
  <2> SUFFICES ASSUME NEW q \in Q, NEW r \in q PROVE r \in UNION P
    OBVIOUS
  <2>1. PICK p \in P : \E w \in chosen[p] : q = w.rules
    BY <1>3
  <2> QED BY <1>4, <2>1
<1> QED BY <1>7, <1>8 DEF Separated, more

\* Two rules are sortable when the first field in which they differ tells them
\* apart.
LEMMA TellsApart ==
  ASSUME NEW fo, NEW r, NEW s, NEW i \in Field, Disjoint(r, s, fo[i]), ~Identical(r, s, fo[i]),
         \A k \in 1 .. i - 1 : Identical(r, s, fo[k])
  PROVE  Sortable(fo, r, s)
<1>1. ASSUME NEW k \in Field, \A m \in 1 .. k - 1 : Identical(r, s, fo[m])
      PROVE  Identical(r, s, fo[k]) \/ Disjoint(r, s, fo[k])
  <2>1. i \in Int /\ k \in Int /\ i >= 1 /\ k >= 1
    BY RulesAssumption DEF Field
  <2>2. CASE k < i
    <3>1. k \in 1 .. i - 1
      BY <2>1, <2>2
    <3> QED BY <3>1
  <2>3. CASE k = i
    BY <2>3
  <2>4. CASE i < k
    <3>1. i \in 1 .. k - 1
      BY <2>1, <2>4
    <3> QED BY <1>1, <3>1
  <2> QED BY <2>1, <2>2, <2>3, <2>4
<1> QED BY <1>1 DEF Sortable

\* Rules of separated parts are sortable once every field has been chosen.
LEMMA SeparatedIsSortable ==
  ASSUME NEW P, NEW fields \in Seq(Field), Len(fields) = Dim, UNION P \subseteq Rule,
         Separated(P, fields), NEW r \in UNION P, NEW s \in UNION P
  PROVE  Sortable(fields, r, s)
<1>1. DOMAIN fields = Field /\ \A i \in Field : fields[i] \in Field /\ fields[i] \in Range(fields)
  BY DEF Field, Range
<1>2. PICK p \in P, q \in P : r \in p /\ s \in q
  OBVIOUS
<1>3. CASE p = q
  <2>1. \A f \in Range(fields) : Identical(r, s, f)
    BY <1>2, <1>3 DEF Separated
  <2> QED BY <1>1, <2>1 DEF Sortable
<1>4. CASE p # q
  <2>1. PICK i \in Field : /\ Disjoint(r, s, fields[i])
                           /\ \A k \in 1 .. i - 1 : Identical(r, s, fields[k])
    BY <1>1, <1>2, <1>4 DEF Separated, SeparatedBy
  <2>2. ~Identical(r, s, fields[i])
    BY <1>1, <2>1, NotDisjoint
  <2> QED BY <2>1, <2>2, TellsApart
<1> QED BY <1>3, <1>4

------------------------------------------------------------------------------
(* The largest overlap                                                     *)

\* The number of elements of W whose value is below x, and at most x.
LessThan(W, v, x) == Cardinality({w \in W : v[w] < x})
AtMost(W, v, x) == Cardinality({w \in W : v[w] <= x})

\* x is the i-th of the values of W in increasing order.
IsNth(W, v, i, x) ==
    /\ x \in {v[w] : w \in W}
    /\ LessThan(W, v, x) < i /\ i <= AtMost(W, v, x)

\* The counts are numbers, and grow with the bound.
LEMMA CountsGrow ==
  ASSUME NEW W, IsFiniteSet(W), NEW v \in [W -> Nat], NEW x \in Int
  PROVE  /\ LessThan(W, v, x) \in Nat /\ AtMost(W, v, x) \in Nat
         /\ LessThan(W, v, x) <= AtMost(W, v, x) /\ AtMost(W, v, x) <= Cardinality(W)
         /\ Cardinality(W) \in Nat
         /\ \A y \in Int : x < y => AtMost(W, v, x) <= LessThan(W, v, y)
         /\ \A y \in Int : x <= y => AtMost(W, v, x) <= AtMost(W, v, y)
         /\ LessThan(W, v, x) = AtMost(W, v, x - 1)
<1>1. \A T \in SUBSET W : IsFiniteSet(T) /\ Cardinality(T) \in Nat /\ Cardinality(T) <= Cardinality(W)
  BY FS_Subset, FS_CardinalityType
<1>2. \A T \in SUBSET W : \A U \in SUBSET T : Cardinality(U) <= Cardinality(T)
  BY <1>1, FS_Subset
<1>3. \A w \in W : v[w] \in Int
  OBVIOUS
<1>4. {w \in W : v[w] < x} \in SUBSET {w \in W : v[w] <= x}
  BY <1>3
<1>5. \A y \in Int : x < y => {w \in W : v[w] <= x} \in SUBSET {w \in W : v[w] < y}
  BY <1>3
<1>6. \A y \in Int : x <= y => {w \in W : v[w] <= x} \in SUBSET {w \in W : v[w] <= y}
  BY <1>3
<1>7. {w \in W : v[w] < x} = {w \in W : v[w] <= x - 1}
  BY <1>3
<1>8. Cardinality(W) \in Nat
  BY FS_CardinalityType
<1>9. \A y \in Int : x < y => AtMost(W, v, x) <= LessThan(W, v, y)
  BY <1>2, <1>5 DEF AtMost, LessThan
<1>10. \A y \in Int : x <= y => AtMost(W, v, x) <= AtMost(W, v, y)
  BY <1>2, <1>6 DEF AtMost
<1>11. /\ LessThan(W, v, x) \in Nat /\ AtMost(W, v, x) \in Nat
       /\ LessThan(W, v, x) <= AtMost(W, v, x) /\ AtMost(W, v, x) <= Cardinality(W)
  BY <1>1, <1>2, <1>4 DEF AtMost, LessThan
<1>12. LessThan(W, v, x) = AtMost(W, v, x - 1)
  BY <1>7 DEF AtMost, LessThan
<1> QED BY <1>8, <1>9, <1>10, <1>11, <1>12

\* There is an i-th value for every i up to the number of elements.
LEMMA NthExists ==
  ASSUME NEW W, IsFiniteSet(W), NEW v \in [W -> Nat], NEW i \in 1 .. Cardinality(W)
  PROVE  \E x : IsNth(W, v, i, x)
<1> DEFINE T == {x \in Nat : i <= AtMost(W, v, x)}
<1>1. Cardinality(W) \in Nat /\ i \in Nat /\ i >= 1
  BY FS_CardinalityType
<1>2. T # {}
  <2>1. PICK b \in Nat : \A w \in W : v[w] <= b
    BY FiniteHasBound
  <2>2. {w \in W : v[w] <= b} = W
    BY <2>1
  <2>3. AtMost(W, v, b) = Cardinality(W)
    BY <2>2 DEF AtMost
  <2> QED BY <1>1, <2>3
<1>3. PICK x \in T : \A y \in T : ~(y < x)
  <2>1. T \in SUBSET Nat
    OBVIOUS
  <2> HIDE DEF T
  <2> QED BY <1>2, <2>1, LeastNatural
<1>4. x \in Nat /\ i <= AtMost(W, v, x) /\ LessThan(W, v, x) = AtMost(W, v, x - 1)
      /\ AtMost(W, v, x) \in Nat /\ LessThan(W, v, x) \in Nat
  BY CountsGrow
<1>5. LessThan(W, v, x) < i
  <2>1. CASE x = 0
    <3>1. {w \in W : v[w] < x} = {}
      BY <2>1
    <3> QED BY <1>1, <3>1, FS_EmptySet DEF LessThan
  <2>2. CASE x # 0
    <3>1. x - 1 \in Nat /\ x - 1 < x
      BY <1>4, <2>2
    <3>2. ~(i <= AtMost(W, v, x - 1))
      BY <1>3, <3>1
    <3> QED BY <1>1, <1>4, <3>2
  <2> QED BY <2>1, <2>2
<1>6. \E w \in W : v[w] = x
  <2> SUFFICES ASSUME \A w \in W : v[w] # x PROVE FALSE
    OBVIOUS
  <2>1. {w \in W : v[w] < x} = {w \in W : v[w] <= x}
    BY <1>4
  <2>2. LessThan(W, v, x) = AtMost(W, v, x)
    BY <2>1 DEF LessThan, AtMost
  <2> QED BY <1>1, <1>4, <1>5, <2>2
<1> QED BY <1>4, <1>5, <1>6 DEF IsNth

\* The i-th value is at most x when i elements are.
LEMMA NthBound ==
  ASSUME NEW W, IsFiniteSet(W), NEW v \in [W -> Nat], NEW i \in Int, NEW n, IsNth(W, v, i, n)
  PROVE  n \in Nat /\ \A x \in Int : n <= x <=> i <= AtMost(W, v, x)
<1>1. n \in Nat
  BY DEF IsNth
<1> SUFFICES ASSUME NEW x \in Int PROVE n <= x <=> i <= AtMost(W, v, x)
  BY <1>1
<1>2. /\ AtMost(W, v, n) \in Nat /\ AtMost(W, v, x) \in Nat /\ LessThan(W, v, n) \in Nat
      /\ n <= x => AtMost(W, v, n) <= AtMost(W, v, x)
      /\ x < n => AtMost(W, v, x) <= LessThan(W, v, n)
  BY <1>1, CountsGrow
<1>3. LessThan(W, v, n) < i /\ i <= AtMost(W, v, n)
  BY DEF IsNth
<1> QED BY <1>1, <1>2, <1>3

\* One more element adds at most one.
LEMMA AddOne ==
  ASSUME NEW A, IsFiniteSet(A), NEW x
  PROVE  Cardinality(A \cup {x}) <= Cardinality(A) + 1
<1>1. Cardinality(A) \in Nat
  BY FS_CardinalityType
<1>2. Cardinality(A \cup {x}) = IF x \in A THEN Cardinality(A) ELSE Cardinality(A) + 1
  BY FS_AddElement
<1> QED BY <1>1, <1>2

\* The bounds of intervals, as functions of them.
Lows(W) == [w \in W |-> w.low]
Highs(W) == [w \in W |-> w.high]

\* s holds the values of W in increasing order.
InOrderOf(s, W, v) ==
    /\ s \in Seq(Nat) /\ Len(s) = Cardinality(W)
    /\ \A i \in 1 .. Cardinality(W) : IsNth(W, v, i, s[i])

\* The sequences that GetMaxOverlap is given.
LEMMA OverlapOfSorted ==
  ASSUME NEW W, IsFiniteSet(W), \A w \in W : Proper(w)
  PROVE  \E lo, hi : /\ InOrderOf(lo, W, Lows(W)) /\ InOrderOf(hi, W, Highs(W))
                     /\ MaxOverlap(W) = GetMaxOverlap(lo, hi)
<1> DEFINE n == Cardinality(W)
           low(i) == CHOOSE x \in {w.low : w \in W} :
                         /\ Cardinality({w \in W : w.low < x}) < i
                         /\ i <= Cardinality({w \in W : w.low <= x})
           high(i) == CHOOSE x \in {w.high : w \in W} :
                         /\ Cardinality({w \in W : w.high < x}) < i
                         /\ i <= Cardinality({w \in W : w.high <= x})
           lo == [i \in 1 .. n |-> low(i)]
           hi == [i \in 1 .. n |-> high(i)]
           LowIs(i, x) == /\ Cardinality({w \in W : w.low < x}) < i
                          /\ i <= Cardinality({w \in W : w.low <= x})
           HighIs(i, x) == /\ Cardinality({w \in W : w.high < x}) < i
                           /\ i <= Cardinality({w \in W : w.high <= x})
<1>1. MaxOverlap(W) = GetMaxOverlap(lo, hi)
  BY DEF MaxOverlap, Sorted
<1>2. Lows(W) \in [W -> Nat] /\ Highs(W) \in [W -> Nat]
  BY DEF Lows, Highs, Proper, WeightedInterval
<1>3. /\ {w.low : w \in W} = {Lows(W)[w] : w \in W}
      /\ \A x : /\ {w \in W : w.low < x} = {w \in W : Lows(W)[w] < x}
                /\ {w \in W : w.low <= x} = {w \in W : Lows(W)[w] <= x}
  BY DEF Lows
<1>4. /\ {w.high : w \in W} = {Highs(W)[w] : w \in W}
      /\ \A x : /\ {w \in W : w.high < x} = {w \in W : Highs(W)[w] < x}
                /\ {w \in W : w.high <= x} = {w \in W : Highs(W)[w] <= x}
  BY DEF Highs
<1>5. ASSUME NEW i, NEW x
      PROVE  /\ IsNth(W, Lows(W), i, x) <=> x \in {w.low : w \in W} /\ LowIs(i, x)
             /\ IsNth(W, Highs(W), i, x) <=> x \in {w.high : w \in W} /\ HighIs(i, x)
  BY <1>3, <1>4 DEF IsNth, LessThan, AtMost
<1>6. \A i : /\ low(i) = CHOOSE x \in {w.low : w \in W} : LowIs(i, x)
             /\ high(i) = CHOOSE x \in {w.high : w \in W} : HighIs(i, x)
  OBVIOUS
<1> HIDE DEF LowIs, HighIs, low, high
<1>7. \A i \in 1 .. n : IsNth(W, Lows(W), i, lo[i]) /\ IsNth(W, Highs(W), i, hi[i])
  <2> SUFFICES ASSUME NEW i \in 1 .. n
               PROVE  IsNth(W, Lows(W), i, lo[i]) /\ IsNth(W, Highs(W), i, hi[i])
    OBVIOUS
  <2>1. PICK x : IsNth(W, Lows(W), i, x)
    BY <1>2, NthExists
  <2>2. PICK y : IsNth(W, Highs(W), i, y)
    BY <1>2, NthExists
  <2>3. low(i) \in {w.low : w \in W} /\ LowIs(i, low(i))
    <3>1. \E z \in {w.low : w \in W} : LowIs(i, z)
      BY <1>5, <2>1
    <3> QED BY <1>6, <3>1
  <2>4. high(i) \in {w.high : w \in W} /\ HighIs(i, high(i))
    <3>1. \E z \in {w.high : w \in W} : HighIs(i, z)
      BY <1>5, <2>2
    <3> QED BY <1>6, <3>1
  <2>5. lo[i] = low(i) /\ hi[i] = high(i)
    OBVIOUS
  <2> HIDE DEF lo, hi, n
  <2> QED BY <1>5, <2>3, <2>4, <2>5
<1>8. n \in Nat
  BY FS_CardinalityType
<1>9. /\ lo = [i \in 1 .. n |-> lo[i]] /\ \A i \in 1 .. n : lo[i] \in Nat
      /\ hi = [i \in 1 .. n |-> hi[i]] /\ \A i \in 1 .. n : hi[i] \in Nat
  <2>1. lo = [i \in 1 .. n |-> lo[i]] /\ hi = [i \in 1 .. n |-> hi[i]]
    OBVIOUS
  <2> HIDE DEF lo, hi, n
  <2> QED BY <1>2, <1>7, <2>1 DEF IsNth
<1> HIDE DEF lo, hi
<1>10. /\ lo \in Seq(Nat) /\ Len(lo) = n /\ hi \in Seq(Nat) /\ Len(hi) = n
  <2> HIDE DEF n
  <2>1. lo \in [1 .. n -> Nat] /\ hi \in [1 .. n -> Nat]
    BY <1>9
  <2> QED BY <1>8, <2>1
<1> QED BY <1>1, <1>7, <1>10 DEF InOrderOf

\* The sorted bounds of proper intervals: the k-th start is no later than the
\* k-th end, and the next start is later exactly when the intervals are disjoint.
LEMMA RanksOfIndependent ==
  ASSUME NEW W, IsFiniteSet(W), \A w \in W : Proper(w),
         NEW lo, InOrderOf(lo, W, Lows(W)), NEW hi, InOrderOf(hi, W, Highs(W)),
         NEW n, n = Cardinality(W)
  PROVE  /\ lo \in Seq(Nat) /\ hi \in Seq(Nat) /\ Len(lo) = n /\ Len(hi) = n /\ n \in Nat
         /\ \A k \in 1 .. n : lo[k] <= hi[k]
         /\ Independent(W) <=> \A k \in 1 .. n - 1 : hi[k] < lo[k + 1]
<1> DEFINE L == Lows(W)
           H == Highs(W)
<1>1. L \in [W -> Nat] /\ H \in [W -> Nat] /\ n \in Nat
  BY FS_CardinalityType DEF Lows, Highs, Proper, WeightedInterval
<1>2. \A w \in W : L[w] = w.low /\ H[w] = w.high /\ w.low \in Nat /\ w.high \in Nat /\ w.low <= w.high
  BY DEF Lows, Highs, Proper, WeightedInterval
<1> HIDE DEF L, H
<1>3. /\ lo \in Seq(Nat) /\ hi \in Seq(Nat) /\ Len(lo) = n /\ Len(hi) = n
      /\ \A k \in 1 .. n : IsNth(W, L, k, lo[k]) /\ IsNth(W, H, k, hi[k])
  BY <1>1 DEF L, H, InOrderOf
<1>4. ASSUME NEW k \in 1 .. n
      PROVE  /\ lo[k] \in Nat /\ hi[k] \in Nat
             /\ \A x \in Int : lo[k] <= x <=> k <= AtMost(W, L, x)
             /\ \A x \in Int : hi[k] <= x <=> k <= AtMost(W, H, x)
  <2>1. k \in Int /\ IsNth(W, L, k, lo[k]) /\ IsNth(W, H, k, hi[k])
    BY <1>3
  <2> QED BY <1>1, <2>1, NthBound
<1>5. \A x \in Int : /\ AtMost(W, L, x) \in Nat /\ AtMost(W, H, x) \in Nat
                     /\ AtMost(W, L, x) <= n /\ LessThan(W, H, x) = AtMost(W, H, x - 1)
                     /\ LessThan(W, H, x) \in Nat
  BY <1>1, CountsGrow
<1>6. \A T \in SUBSET W : IsFiniteSet(T) /\ Cardinality(T) \in Nat
                           /\ \A U \in SUBSET T : Cardinality(U) <= Cardinality(T)
  BY FS_Subset, FS_CardinalityType
<1>7. ASSUME NEW k \in 1 .. n PROVE lo[k] <= hi[k]
  <2>1. hi[k] \in Int /\ k <= AtMost(W, H, hi[k])
    BY <1>4
  <2>2. {w \in W : H[w] <= hi[k]} \in SUBSET {w \in W : L[w] <= hi[k]}
    BY <1>2, <1>4
  <2>3. AtMost(W, H, hi[k]) <= AtMost(W, L, hi[k])
    BY <1>6, <2>2 DEF AtMost
  <2>4. k <= AtMost(W, L, hi[k])
    BY <1>5, <2>1, <2>3
  <2> QED BY <1>4, <2>1, <2>4
<1>8. ASSUME Independent(W), NEW k \in 1 .. n - 1 PROVE hi[k] < lo[k + 1]
  <2> DEFINE y == hi[k]
             A == {w \in W : H[w] < y}
             B == {w \in W : L[w] <= y}
  <2>1. k \in 1 .. n /\ k + 1 \in 1 .. n /\ y \in Nat
    BY <1>1, <1>4
  <2>2. LessThan(W, H, y) < k /\ y \in {H[w] : w \in W}
    BY <1>3, <2>1 DEF IsNth
  <2> HIDE DEF y
  <2>3. PICK w0 \in W : H[w0] = y
    BY <2>2
  <2>4. B \in SUBSET (A \cup {w0})
    <3> SUFFICES ASSUME NEW w \in W, L[w] <= y, ~(H[w] < y) PROVE w = w0
      OBVIOUS
    <3>1. ~Before(w, w0) /\ ~Before(w0, w)
      BY <1>2, <2>1, <2>3 DEF Before
    <3> QED BY <1>8, <3>1 DEF Independent
  <2>5. A \in SUBSET W /\ A \cup {w0} \in SUBSET W /\ B \in SUBSET W
    OBVIOUS
  <2>6. Cardinality(A \cup {w0}) <= Cardinality(A) + 1
    <3>1. IsFiniteSet(A) /\ Cardinality(A) \in Nat
      BY <1>6, <2>5
    <3> HIDE DEF A
    <3> QED BY <3>1, AddOne
  <2>7. Cardinality(B) <= Cardinality(A \cup {w0}) /\ Cardinality(B) \in Nat
         /\ Cardinality(A \cup {w0}) \in Nat /\ Cardinality(A) \in Nat
    <3> HIDE DEF A, B
    <3> QED BY <1>6, <2>4, <2>5
  <2>8. LessThan(W, H, y) = Cardinality(A) /\ AtMost(W, L, y) = Cardinality(B)
    BY DEF LessThan, AtMost
  <2> HIDE DEF A, B
  <2>9. ~(k + 1 <= AtMost(W, L, y))
    BY <2>1, <2>2, <2>6, <2>7, <2>8
  <2>10. ~(lo[k + 1] <= y) /\ lo[k + 1] \in Nat
    BY <1>4, <2>1, <2>9
  <2> QED BY <2>1, <2>10 DEF y
<1>9. ASSUME ~Independent(W) PROVE \E k \in 1 .. n - 1 : ~(hi[k] < lo[k + 1])
  <2>1. PICK v \in W, w \in W : v # w /\ ~Before(v, w) /\ ~Before(w, v)
    BY <1>9 DEF Independent
  <2>2. PICK x \in Nat : x <= v.high /\ x <= w.high /\ v.low <= x /\ w.low <= x
    <3>1. w.low <= v.high /\ v.low <= w.high
      BY <1>2, <2>1 DEF Before
    <3>2. CASE v.low <= w.low
      BY <1>2, <3>1, <3>2
    <3>3. CASE ~(v.low <= w.low)
      BY <1>2, <3>1, <3>3
    <3> QED BY <3>2, <3>3
  <2> DEFINE A == {u \in W : H[u] < x}
             B == {u \in W : L[u] <= x}
             k == Cardinality(A) + 1
  <2>3. v \in B /\ w \in B /\ v \notin A /\ w \notin A /\ A \in SUBSET B /\ A \in SUBSET W /\ B \in SUBSET W
    BY <1>2, <2>2
  <2>4. k + 1 <= Cardinality(B) /\ Cardinality(A) \in Nat /\ Cardinality(B) \in Nat
    <3> HIDE DEF A, B
    <3>1. IsFiniteSet(A) /\ Cardinality(A) \in Nat /\ Cardinality(B) \in Nat
      BY <1>6, <2>3
    <3>2. Cardinality(A \cup {v}) = Cardinality(A) + 1 /\ IsFiniteSet(A \cup {v})
      BY <2>3, <3>1, FS_AddElement
    <3>3. Cardinality((A \cup {v}) \cup {w}) = Cardinality(A \cup {v}) + 1
      BY <2>1, <2>3, <3>2, FS_AddElement
    <3>4. (A \cup {v}) \cup {w} \in SUBSET B
      BY <2>3
    <3>5. Cardinality((A \cup {v}) \cup {w}) <= Cardinality(B)
      BY <1>6, <2>3, <3>4
    <3> QED BY <3>1, <3>2, <3>3, <3>5
  <2>5. LessThan(W, H, x) = Cardinality(A) /\ AtMost(W, L, x) = Cardinality(B)
    BY DEF LessThan, AtMost
  <2> HIDE DEF A, B
  <2>6. k \in 1 .. n - 1 /\ k \in 1 .. n /\ k + 1 \in 1 .. n /\ k \in Nat
    BY <1>1, <1>5, <2>4, <2>5
  <2>7. lo[k + 1] <= x
    BY <1>4, <2>4, <2>5, <2>6
  <2>8. ~(hi[k] <= x - 1)
    <3>1. ~(k <= AtMost(W, H, x - 1))
      BY <1>5, <2>4, <2>5
    <3> QED BY <1>4, <2>6, <3>1
  <2>9. ~(hi[k] < lo[k + 1])
    BY <1>4, <2>6, <2>7, <2>8
  <2> HIDE DEF k
  <2> QED BY <2>6, <2>9
<1> QED BY <1>1, <1>3, <1>7, <1>8, <1>9

\* The states of the loop of GetMaxOverlap, and the first one.
LoopState == [ i : Int, j : Int, max_overlap : Int ]
LoopStart == [ i |-> 1, j |-> 1, max_overlap |-> -1 ]

\* The states after each of n rounds.
Rounds(lo, hi, n, g) ==
    [k \in 0 .. n |-> IF k = 0 THEN LoopStart ELSE NextRound(lo, hi, g[k - 1])]

\* A round ends the loop, opens an interval, or closes one.
Stops(lo, hi, s) == ~(s.i <= Len(lo) /\ s.j <= Len(hi))
Opens(lo, hi, s) == s.i <= Len(lo) /\ s.j <= Len(hi) /\ lo[s.i] <= hi[s.j]
Closes(lo, hi, s) == s.i <= Len(lo) /\ s.j <= Len(hi) /\ ~(lo[s.i] <= hi[s.j])

Larger(a, b) == IF a >= b THEN a ELSE b

\* What a round does, case by case.
LEMMA RoundCases ==
  ASSUME NEW lo \in Seq(Nat), NEW hi \in Seq(Nat), NEW s \in LoopState,
         NEW t, t = NextRound(lo, hi, s)
  PROVE  /\ t \in LoopState
         /\ Stops(lo, hi, s) => t = s
         /\ Opens(lo, hi, s) => /\ t.i = s.i + 1 /\ t.j = s.j
                                /\ t.max_overlap = Larger(s.i + 1 - s.j, s.max_overlap)
         /\ Closes(lo, hi, s) => t.i = s.i /\ t.j = s.j + 1 /\ t.max_overlap = s.max_overlap
<1>1. s.i \in Int /\ s.j \in Int /\ s.max_overlap \in Int /\ s.i + 1 - s.j \in Int
  BY DEF LoopState
<1>2. CASE Stops(lo, hi, s)
  <2>1. t = s
    BY <1>2 DEF NextRound, Stops
  <2> QED BY <1>2, <2>1 DEF Stops, Opens, Closes
<1>3. CASE Opens(lo, hi, s)
  <2> DEFINE m == Max({s.i + 1 - s.j, s.max_overlap})
  <2>1. t = [ i |-> s.i + 1, j |-> s.j, max_overlap |-> m ]
    BY <1>3 DEF NextRound, Opens
  <2>2. m = Larger(s.i + 1 - s.j, s.max_overlap) /\ m \in Int
    BY <1>1, MaxOfTwo DEF Larger
  <2>3. ~Stops(lo, hi, s) /\ ~Closes(lo, hi, s)
    BY <1>3 DEF Stops, Opens, Closes
  <2> HIDE DEF m
  <2>4. t \in LoopState
    BY <1>1, <2>1, <2>2 DEF LoopState
  <2>5. t.i = s.i + 1 /\ t.j = s.j /\ t.max_overlap = m
    BY <2>1
  <2> QED BY <2>2, <2>3, <2>4, <2>5
<1>4. CASE Closes(lo, hi, s)
  <2>1. t = [ i |-> s.i, j |-> s.j + 1, max_overlap |-> s.max_overlap ]
    BY <1>4 DEF NextRound, Closes
  <2>2. ~Stops(lo, hi, s) /\ ~Opens(lo, hi, s)
    BY <1>4 DEF Stops, Opens, Closes
  <2>3. t \in LoopState
    BY <1>1, <2>1 DEF LoopState
  <2>4. t.i = s.i /\ t.j = s.j + 1 /\ t.max_overlap = s.max_overlap
    BY <2>1
  <2> QED BY <2>2, <2>3, <2>4
<1> QED BY <1>2, <1>3, <1>4 DEF Stops, Opens, Closes

\* The loop defines a state after each round.
LEMMA RoundsExist ==
  ASSUME NEW lo \in Seq(Nat), NEW hi \in Seq(Nat), NEW n \in Nat
  PROVE  \E g : g = Rounds(lo, hi, n, g)
<1> DEFINE X == LoopState
           G == [s \in X |-> NextRound(lo, hi, s)]
           F == [k \in 1 .. n |-> G]
<1>1. LoopStart \in X /\ F \in [1 .. n -> [X -> X]]
  BY RoundCases DEF LoopStart, LoopState
<1>2. PICK g : Iterates(g, n, X, LoopStart, F)
  <2> HIDE DEF X, F
  <2> QED BY ONLY <1>1, n \in Nat, Iterated
<1>3. \A s \in X : G[s] = NextRound(lo, hi, s)
  OBVIOUS
<1>4. \A k \in 1 .. n : F[k] = G
  OBVIOUS
<1> HIDE DEF X, G, F
<1>5. /\ g \in [0 .. n -> X] /\ g[0] = LoopStart
      /\ \A k \in 1 .. n : g[k] = F[k][g[k - 1]]
  BY <1>2 DEF Iterates
<1>6. ASSUME NEW k \in 0 .. n
      PROVE  g[k] = IF k = 0 THEN LoopStart ELSE NextRound(lo, hi, g[k - 1])
  <2>1. CASE k = 0
    BY <1>5, <2>1
  <2>2. CASE k # 0
    <3>1. k \in 1 .. n /\ k - 1 \in 0 .. n
      BY <2>2
    <3> QED BY <1>3, <1>4, <1>5, <2>2, <3>1
  <2> QED BY <2>1, <2>2
<1>7. g = [k \in 0 .. n |-> g[k]]
  BY <1>5
<1>8. g = [k \in 0 .. n |-> IF k = 0 THEN LoopStart ELSE NextRound(lo, hi, g[k - 1])]
  BY <1>6, <1>7
<1> QED BY <1>8 DEF Rounds

\* After k rounds over bounds that keep apart, the sweep alternates.
Alternates(i, l, max, k) ==
    /\ i = l \/ i = l + 1
    /\ l >= 1
    /\ IF k = 0 THEN i = 1 /\ l = 1 /\ max = -1 ELSE max = 1

\* Before the m-th end, which a start has overtaken, the sweep alternates.
Overtakes(i, l, max, k, m) ==
    \/ max >= 2
    \/ /\ i + l = k + 2 /\ (i = l \/ i = l + 1)
       /\ 1 <= l /\ l <= m /\ i <= m + 1

\* A round over bounds that keep apart.
LEMMA AlternatingRound ==
  ASSUME NEW lo \in Seq(Nat), NEW hi \in Seq(Nat), NEW n \in Nat \ {0}, Len(lo) = n, Len(hi) = n,
         \A k \in 1 .. n : lo[k] <= hi[k],
         \A k \in 1 .. n - 1 : hi[k] < lo[k + 1],
         NEW s \in LoopState, NEW k \in Nat \ {0}, Alternates(s.i, s.j, s.max_overlap, k - 1),
         NEW t, t = NextRound(lo, hi, s)
  PROVE  Alternates(t.i, t.j, t.max_overlap, k)
<1> DEFINE i == s.i
           l == s.j
           x == s.max_overlap
<1>1. i \in Int /\ l \in Int /\ x \in Int /\ Alternates(i, l, x, k - 1)
  BY DEF LoopState
<1>2. \A a \in 1 .. n : lo[a] \in Nat /\ hi[a] \in Nat
  OBVIOUS
<1>3. CASE Stops(lo, hi, s)
  <2>1. t.i = i /\ t.j = l /\ t.max_overlap = x /\ ~(i <= n /\ l <= n)
    BY <1>3, RoundCases DEF Stops
  <2> HIDE DEF i, l, x
  <2> QED BY <1>1, <2>1 DEF Alternates
<1>4. CASE i <= n /\ l <= n /\ i = l
  <2>1. Opens(lo, hi, s)
    <3>1. i \in 1 .. n
      <4> HIDE DEF i, l, x
      <4> QED BY <1>1, <1>4 DEF Alternates
    <3>2. lo[i] <= hi[l]
      <4> HIDE DEF i, l
      <4> QED BY <1>4, <3>1
    <3> QED BY <1>4, <3>2 DEF Opens
  <2>2. t.i = i + 1 /\ t.j = l /\ t.max_overlap = Larger(i + 1 - l, x)
    BY <2>1, RoundCases
  <2> HIDE DEF i, l, x
  <2>3. Larger(i + 1 - l, x) = 1
    BY <1>1, <1>4 DEF Alternates, Larger
  <2> QED BY <1>1, <1>4, <2>2, <2>3 DEF Alternates
<1>5. CASE i <= n /\ l <= n /\ i = l + 1
  <2>1. Closes(lo, hi, s)
    <3>1. l \in 1 .. n - 1 /\ l \in 1 .. n /\ i \in 1 .. n
      <4> HIDE DEF i, l, x
      <4> QED BY <1>1, <1>5 DEF Alternates
    <3>2. ~(lo[i] <= hi[l])
      <4> HIDE DEF i, l
      <4> QED BY <1>2, <1>5, <3>1
    <3> QED BY <1>5, <3>2 DEF Closes
  <2>2. t.i = i /\ t.j = l + 1 /\ t.max_overlap = x
    BY <2>1, RoundCases
  <2> HIDE DEF i, l, x
  <2> QED BY <1>1, <1>5, <2>2 DEF Alternates
<1>6. i = l \/ i = l + 1
  BY <1>1 DEF Alternates
<1> QED BY <1>3, <1>4, <1>5, <1>6 DEF Stops

\* A round over bounds of which a start overtakes an end.
LEMMA OvertakingRound ==
  ASSUME NEW lo \in Seq(Nat), NEW hi \in Seq(Nat), NEW n \in Nat \ {0}, Len(lo) = n, Len(hi) = n,
         \A k \in 1 .. n : lo[k] <= hi[k],
         NEW m \in 1 .. n - 1, ~(hi[m] < lo[m + 1]),
         NEW s \in LoopState, NEW k \in Nat \ {0}, Overtakes(s.i, s.j, s.max_overlap, k - 1, m),
         NEW t, t = NextRound(lo, hi, s)
  PROVE  Overtakes(t.i, t.j, t.max_overlap, k, m)
<1> DEFINE i == s.i
           l == s.j
           x == s.max_overlap
<1>1. i \in Int /\ l \in Int /\ x \in Int /\ Overtakes(i, l, x, k - 1, m)
  BY DEF LoopState
<1>2. m \in Nat /\ m >= 1 /\ m + 1 \in 1 .. n /\ m \in 1 .. n /\ lo[m + 1] <= hi[m]
  OBVIOUS
<1>3. CASE Stops(lo, hi, s)
  <2>1. t.i = i /\ t.j = l /\ t.max_overlap = x /\ ~(i <= n /\ l <= n)
    BY <1>3, RoundCases DEF Stops
  <2> HIDE DEF i, l, x
  <2> QED BY <1>1, <1>2, <2>1 DEF Overtakes
<1>4. CASE Opens(lo, hi, s)
  <2>1. t.i = i + 1 /\ t.j = l /\ t.max_overlap = Larger(i + 1 - l, x)
    BY <1>4, RoundCases
  <2> HIDE DEF i, l, x
  <2>2. Overtakes(i + 1, l, Larger(i + 1 - l, x), k, m)
    <3>1. CASE x >= 2 \/ i = l + 1
      <4>1. Larger(i + 1 - l, x) >= 2
        BY <1>1, <3>1 DEF Larger
      <4> QED BY <4>1 DEF Overtakes
    <3>2. CASE i = l /\ ~(x >= 2)
      <4>1. i + l = k + 1 /\ i = l /\ 1 <= l /\ l <= m
        BY <1>1, <3>2 DEF Overtakes
      <4>2. (i + 1) + l = k + 2 /\ i + 1 = l + 1 /\ i + 1 <= m + 1
        BY <1>1, <1>2, <4>1
      <4> QED BY <4>1, <4>2 DEF Overtakes
    <3>3. x >= 2 \/ i = l + 1 \/ i = l
      BY <1>1 DEF Overtakes
    <3> QED BY <3>1, <3>2, <3>3
  <2> QED BY <2>1, <2>2
<1>5. CASE Closes(lo, hi, s)
  <2>1. t.i = i /\ t.j = l + 1 /\ t.max_overlap = x /\ ~(lo[i] <= hi[l])
    <3>1. t.i = s.i /\ t.j = s.j + 1 /\ t.max_overlap = s.max_overlap
      BY <1>5, RoundCases
    <3> QED BY <1>5, <3>1 DEF Closes
  <2> HIDE DEF i, l, x
  <2>2. CASE x >= 2
    BY <1>1, <2>1, <2>2 DEF Overtakes
  <2>3. CASE ~(x >= 2)
    <3>1. /\ i + l = k + 1 /\ (i = l \/ i = l + 1)
          /\ 1 <= l /\ l <= m /\ i <= m + 1
      BY <1>1, <2>3 DEF Overtakes
    <3>2. i # l
      <4>1. l \in 1 .. n
        BY <1>1, <1>2, <3>1
      <4> QED BY <2>1, <4>1
    <3>3. l # m
      BY <1>1, <1>2, <2>1, <3>1, <3>2
    <3> QED BY <1>1, <1>2, <2>1, <3>1, <3>2, <3>3 DEF Overtakes
  <2> QED BY <2>2, <2>3
<1> QED BY <1>3, <1>4, <1>5 DEF Stops, Opens, Closes

\* GetMaxOverlap returns 1 exactly when every interval ends before the next one
\* starts.
LEMMA OverlapIsOne ==
  ASSUME NEW lo \in Seq(Nat), NEW hi \in Seq(Nat), NEW n \in Nat \ {0}, Len(lo) = n, Len(hi) = n,
         \A k \in 1 .. n : lo[k] <= hi[k]
  PROVE  GetMaxOverlap(lo, hi) = 1 <=> \A k \in 1 .. n - 1 : hi[k] < lo[k + 1]
<1> DEFINE rounds == Len(lo) + Len(hi)
           after == CHOOSE g : g = Rounds(lo, hi, rounds, g)
<1>1. GetMaxOverlap(lo, hi) = after[rounds].max_overlap
  BY DEF GetMaxOverlap, Rounds, LoopStart
<1>2. rounds = n + n /\ rounds \in Nat /\ rounds # 0
  OBVIOUS
<1>3. after = Rounds(lo, hi, rounds, after)
  <2>1. \E g : g = Rounds(lo, hi, rounds, g)
    <3> HIDE DEF rounds
    <3> QED BY <1>2, RoundsExist
  <2> HIDE DEF rounds
  <2> QED BY <2>1
<1> HIDE DEF after, rounds
<1>4. after[0] = LoopStart /\ LoopStart \in LoopState
  BY <1>2, <1>3 DEF Rounds, LoopStart, LoopState
<1>5. \A k \in 1 .. rounds : after[k] = NextRound(lo, hi, after[k - 1]) /\ k \in 0 .. rounds
                              /\ k \in Nat \ {0}
  BY <1>2, <1>3 DEF Rounds
<1>6. LoopStart.i = 1 /\ LoopStart.j = 1 /\ LoopStart.max_overlap = -1
  BY DEF LoopStart
<1>7. ASSUME \A k \in 1 .. n - 1 : hi[k] < lo[k + 1]
      PROVE  after[rounds].max_overlap = 1
  <2> DEFINE Good(k) == /\ after[k] \in LoopState
                        /\ Alternates(after[k].i, after[k].j, after[k].max_overlap, k)
             T == {k \in 0 .. rounds : Good(k)}
  <2>1. Good(0)
    BY <1>4, <1>6 DEF Alternates
  <2>2. ASSUME NEW k \in 1 .. rounds, Good(k - 1) PROVE Good(k)
    <3> DEFINE s == after[k - 1]
               t == after[k]
    <3>1. s \in LoopState /\ t = NextRound(lo, hi, s) /\ k \in Nat \ {0}
      BY <1>5, <2>2
    <3>2. Alternates(s.i, s.j, s.max_overlap, k - 1)
      BY <2>2
    <3> HIDE DEF s, t
    <3>3. t \in LoopState
      BY <3>1, RoundCases
    <3>4. Alternates(t.i, t.j, t.max_overlap, k)
      BY <1>7, <3>1, <3>2, AlternatingRound
    <3> QED BY <3>3, <3>4 DEF t
  <2> HIDE DEF Good
  <2>3. 0 .. rounds \subseteq T
    <3>1. 0 \in T /\ \A k \in 1 .. rounds : k - 1 \in T => k \in T
      BY <1>2, <1>5, <2>1, <2>2
    <3> HIDE DEF T
    <3> QED BY <1>2, <3>1, UpTo
  <2>4. Good(rounds)
    BY <1>2, <2>3
  <2> QED BY <1>2, <2>4 DEF Good, Alternates
<1>8. ASSUME NEW m \in 1 .. n - 1, ~(hi[m] < lo[m + 1])
      PROVE  after[rounds].max_overlap # 1
  <2> DEFINE Good(k) == /\ after[k] \in LoopState
                        /\ Overtakes(after[k].i, after[k].j, after[k].max_overlap, k, m)
             T == {k \in 0 .. rounds : Good(k)}
  <2>1. Good(0)
    BY <1>4, <1>6 DEF Overtakes
  <2>2. ASSUME NEW k \in 1 .. rounds, Good(k - 1) PROVE Good(k)
    <3> DEFINE s == after[k - 1]
               t == after[k]
    <3>1. s \in LoopState /\ t = NextRound(lo, hi, s) /\ k \in Nat \ {0}
      BY <1>5, <2>2
    <3>2. Overtakes(s.i, s.j, s.max_overlap, k - 1, m)
      BY <2>2
    <3> HIDE DEF s, t
    <3>3. t \in LoopState
      BY <3>1, RoundCases
    <3>4. Overtakes(t.i, t.j, t.max_overlap, k, m)
      BY <1>8, <3>1, <3>2, OvertakingRound
    <3> QED BY <3>3, <3>4 DEF t
  <2> HIDE DEF Good
  <2>3. 0 .. rounds \subseteq T
    <3>1. 0 \in T /\ \A k \in 1 .. rounds : k - 1 \in T => k \in T
      BY <1>2, <1>5, <2>1, <2>2
    <3> HIDE DEF T
    <3> QED BY <1>2, <3>1, UpTo
  <2>4. Good(rounds)
    BY <1>2, <2>3
  <2> DEFINE i == after[rounds].i
             l == after[rounds].j
             x == after[rounds].max_overlap
  <2>5. i \in Int /\ l \in Int /\ x \in Int /\ Overtakes(i, l, x, rounds, m)
    BY <2>4 DEF Good, LoopState
  <2> HIDE DEF i, l, x
  <2>6. x # 1
    BY <1>2, <2>5 DEF Overtakes
  <2> QED BY <2>6 DEF x
<1> QED BY <1>1, <1>7, <1>8

\* A part is sortable by a field when the largest overlap of its intervals is
\* 1: just when any two of its rules are identical or disjoint in the field.
LEMMA SortableByField ==
  ASSUME NEW S \in (SUBSET Rule) \ {{}}, NEW f \in Field
  PROVE  IsThisPartitionSortable(S, f) <=>
             \A r, s \in S : Identical(r, s, f) \/ Disjoint(r, s, f)
<1> DEFINE W == CreateUniqueInterval(S, f)
           n == Cardinality(W)
<1>1. IsFiniteSet(W) /\ W # {} /\ \A w \in W : Proper(w)
  BY UniqueIntervals
<1>2. IsThisPartitionSortable(S, f) <=> MaxOverlap(W) = 1
  BY DEF IsThisPartitionSortable
<1>3. MaxOverlap(W) = 1 <=> Independent(W)
  <2> HIDE DEF W
  <2>1. PICK lo, hi : /\ InOrderOf(lo, W, Lows(W)) /\ InOrderOf(hi, W, Highs(W))
                      /\ MaxOverlap(W) = GetMaxOverlap(lo, hi)
    BY <1>1, OverlapOfSorted
  <2>2. /\ lo \in Seq(Nat) /\ hi \in Seq(Nat) /\ Len(lo) = n /\ Len(hi) = n /\ n \in Nat
        /\ \A k \in 1 .. n : lo[k] <= hi[k]
        /\ Independent(W) <=> \A k \in 1 .. n - 1 : hi[k] < lo[k + 1]
    BY <1>1, <2>1, RanksOfIndependent
  <2>3. n # 0
    BY <1>1, FS_EmptySet
  <2>4. GetMaxOverlap(lo, hi) = 1 <=> \A k \in 1 .. n - 1 : hi[k] < lo[k + 1]
    <3> HIDE DEF n
    <3> QED BY <2>2, <2>3, OverlapIsOne
  <2> QED BY <2>1, <2>2, <2>4
<1>4. ASSUME Independent(W), NEW r \in S, NEW s \in S
      PROVE  Identical(r, s, f) \/ Disjoint(r, s, f)
  <2> DEFINE Of(t) == [ low |-> Low(t, f), high |-> High(t, f),
                        rules |-> {u \in S : range[u][f] = range[t][f]} ]
  <2>1. Of(r) \in W /\ Of(s) \in W
    BY DEF CreateUniqueInterval
  <2>2. Of(r) = Of(s) \/ Before(Of(r), Of(s)) \/ Before(Of(s), Of(r))
    BY <1>4, <2>1 DEF Independent
  <2>3. Of(r) = Of(s) => Identical(r, s, f)
    <3>1. r \in Of(r).rules
      OBVIOUS
    <3>2. Of(r) = Of(s) => r \in Of(s).rules
      BY <3>1
    <3> QED BY <3>2 DEF Identical
  <2>4. /\ Of(r).low = Low(r, f) /\ Of(r).high = High(r, f)
        /\ Of(s).low = Low(s, f) /\ Of(s).high = High(s, f)
    OBVIOUS
  <2> HIDE DEF Of
  <2> QED BY <2>2, <2>3, <2>4 DEF Before, Disjoint
<1>5. ASSUME \A r, s \in S : Identical(r, s, f) \/ Disjoint(r, s, f)
      PROVE  Independent(W)
  <2> SUFFICES ASSUME NEW v \in W, NEW w \in W PROVE v = w \/ Before(v, w) \/ Before(w, v)
    BY DEF Independent
  <2>1. PICK r \in S : v = [ low |-> Low(r, f), high |-> High(r, f),
                             rules |-> {u \in S : range[u][f] = range[r][f]} ]
    BY DEF CreateUniqueInterval
  <2>2. PICK s \in S : w = [ low |-> Low(s, f), high |-> High(s, f),
                             rules |-> {u \in S : range[u][f] = range[s][f]} ]
    BY DEF CreateUniqueInterval
  <2>3. CASE Identical(r, s, f)
    BY <2>1, <2>2, <2>3 DEF Identical, Low, High
  <2>4. CASE Disjoint(r, s, f)
    BY <2>1, <2>2, <2>4 DEF Disjoint, Before
  <2> QED BY <1>5, <2>3, <2>4
<1> QED BY <1>2, <1>3, <1>4, <1>5

------------------------------------------------------------------------------
(* The admission test                                                      *)

\* Two rules agree in the fields before the i-th of an order.
AgreeBefore(fields, i, r, s) == \A k \in 1 .. i - 1 : Identical(r, s, fields[k])

\* P holds the parts of S before the i-th field: rules are in one part when they
\* agree in the fields before it.
PartsBefore(P, S, fields, i) ==
    /\ \A p \in P : p # {} /\ p \subseteq S /\ \A r, s \in p : AgreeBefore(fields, i, r, s)
    /\ \A r, s \in S : AgreeBefore(fields, i, r, s) => \E p \in P : r \in p /\ s \in p

\* Distinguishing the i-th field makes the parts before the next one.
LEMMA RefinedParts ==
  ASSUME NEW P, NEW S, NEW fields, NEW i \in Nat \ {0}, PartsBefore(P, S, fields, i)
  PROVE  PartsBefore(Refined(P, fields[i]), S, fields, i + 1)
<1> DEFINE f == fields[i]
           Of(p, t) == [ low |-> Low(t, f), high |-> High(t, f),
                         rules |-> {u \in p : range[u][f] = range[t][f]} ]
<1>1. \A r, s : AgreeBefore(fields, i + 1, r, s) <=> AgreeBefore(fields, i, r, s) /\ Identical(r, s, f)
  <2>1. \A k : k \in 1 .. (i + 1) - 1 <=> k \in 1 .. i - 1 \/ k = i
    OBVIOUS
  <2> QED BY <2>1 DEF AgreeBefore
<1>2. \A p : CreateUniqueInterval(p, f) = {Of(p, t) : t \in p}
  BY DEF CreateUniqueInterval
<1>3. Refined(P, f) = UNION {{w.rules : w \in CreateUniqueInterval(p, f)} : p \in P}
  BY DEF Refined
<1>4. ASSUME NEW q \in Refined(P, f)
      PROVE  q # {} /\ q \subseteq S /\ \A r, s \in q : AgreeBefore(fields, i + 1, r, s)
  <2>1. PICK p \in P : \E w \in CreateUniqueInterval(p, f) : q = w.rules
    BY <1>3
  <2>2. PICK t \in p : q = {u \in p : range[u][f] = range[t][f]}
    BY <1>2, <2>1
  <2>3. p \subseteq S /\ \A r, s \in p : AgreeBefore(fields, i, r, s)
    BY DEF PartsBefore
  <2>4. t \in q /\ q \subseteq p /\ \A r, s \in q : Identical(r, s, f)
    BY <2>2 DEF Identical
  <2> HIDE DEF f
  <2> QED BY <1>1, <2>3, <2>4
<1>5. ASSUME NEW r \in S, NEW s \in S, AgreeBefore(fields, i + 1, r, s)
      PROVE  \E q \in Refined(P, f) : r \in q /\ s \in q
  <2>1. AgreeBefore(fields, i, r, s) /\ Identical(r, s, f)
    BY <1>1, <1>5
  <2>2. PICK p \in P : r \in p /\ s \in p
    BY <2>1 DEF PartsBefore
  <2>3. Of(p, r) \in CreateUniqueInterval(p, f)
    BY <1>2, <2>2
  <2>4. Of(p, r).rules \in Refined(P, f)
    BY <1>3, <2>2, <2>3
  <2>5. r \in Of(p, r).rules /\ s \in Of(p, r).rules
    BY <2>1, <2>2 DEF Identical
  <2> HIDE DEF Of, f
  <2> QED BY <2>4, <2>5
<1> QED BY <1>4, <1>5 DEF PartsBefore

\* The recursion over the fields.
AllParts(b, g) ==
    [i \in 1 .. Dim |-> IF i = 1 THEN {b.rules} ELSE Refined(g[i - 1], b.fields[i - 1])]

\* It defines a function.
LEMMA AllPartsExist ==
  ASSUME NEW b, b.rules \in SUBSET Rule
  PROVE  \E g : g = AllParts(b, g)
<1> DEFINE X == SUBSET SUBSET Rule
           n == Dim - 1
           F == [k \in 1 .. n |-> [P \in X |-> Refined(P, b.fields[k])]]
           P0 == {b.rules}
<1>1. Dim \in Nat /\ Dim >= 1 /\ n \in Nat
  BY RulesAssumption
<1>2. \A P \in X : \A f : Refined(P, f) \in X
  <2> SUFFICES ASSUME NEW P \in X, NEW f, NEW q \in Refined(P, f), NEW r \in q PROVE r \in Rule
    OBVIOUS
  <2>1. PICK p \in P : \E w \in CreateUniqueInterval(p, f) : q = w.rules
    BY DEF Refined
  <2> QED BY <2>1, RulesOfInterval
<1>3. F \in [1 .. n -> [X -> X]] /\ P0 \in X
  BY <1>2
<1>4. PICK g : Iterates(g, n, X, P0, F)
  <2> HIDE DEF n, X, F, P0
  <2> QED BY ONLY <1>1, <1>3, Iterated
<1>5. /\ g \in [0 .. n -> X] /\ g[0] = P0
      /\ \A k \in 1 .. n : g[k] = Refined(g[k - 1], b.fields[k])
  <2>1. /\ g \in [0 .. n -> X] /\ g[0] = P0 /\ \A k \in 1 .. n : g[k] = F[k][g[k - 1]]
    BY <1>4 DEF Iterates
  <2>2. \A k \in 1 .. n : \A P \in X : F[k][P] = Refined(P, b.fields[k])
    OBVIOUS
  <2>3. \A k \in 1 .. n : g[k - 1] \in X
    <3> HIDE DEF X, F
    <3> QED BY <1>1, <2>1
  <2> HIDE DEF X, F, P0, n
  <2> QED BY <2>1, <2>2, <2>3
<1> DEFINE h == [i \in 1 .. Dim |-> g[i - 1]]
<1>6. ASSUME NEW i \in 1 .. Dim
      PROVE  h[i] = IF i = 1 THEN {b.rules} ELSE Refined(h[i - 1], b.fields[i - 1])
  <2>1. h[i] = g[i - 1]
    OBVIOUS
  <2>2. CASE i = 1
    BY <1>5, <2>1, <2>2
  <2>3. CASE i # 1
    <3>1. i - 1 \in 1 .. n /\ i - 1 \in 1 .. Dim
      BY <1>1, <2>3
    <3>2. h[i - 1] = g[(i - 1) - 1]
      BY <3>1
    <3> HIDE DEF h, n
    <3> QED BY <1>5, <2>1, <2>3, <3>1, <3>2
  <2> QED BY <2>2, <2>3
<1>7. h = [i \in 1 .. Dim |-> h[i]]
  OBVIOUS
<1> HIDE DEF h
<1>8. h = [i \in 1 .. Dim |-> IF i = 1 THEN {b.rules} ELSE Refined(h[i - 1], b.fields[i - 1])]
  BY <1>6, <1>7
<1> QED BY <1>8 DEF AllParts

\* Parts computes the classes of rules that agree so far.
LEMMA PartsAreClasses ==
  ASSUME NEW b, b.rules \in SUBSET Rule, b.rules # {}
  PROVE  \A i \in Field : PartsBefore(Parts(b)[i], b.rules, b.fields, i)
<1> DEFINE parts == CHOOSE g : g = AllParts(b, g)
<1>1. Parts(b) = parts
  BY DEF Parts, AllParts
<1>2. parts = AllParts(b, parts)
  <2>1. \E g : g = AllParts(b, g)
    BY AllPartsExist
  <2> QED BY <2>1
<1> HIDE DEF parts
<1>3. Dim \in Nat /\ Dim >= 1 /\ Field = 1 .. Dim
  BY RulesAssumption DEF Field
<1>4. \A i \in 1 .. Dim : parts[i] = IF i = 1 THEN {b.rules} ELSE Refined(parts[i - 1], b.fields[i - 1])
  BY <1>2 DEF AllParts
<1> DEFINE Good(i) == PartsBefore(parts[i], b.rules, b.fields, i)
           n == Dim - 1
           T == {k \in 0 .. n : Good(k + 1)}
<1>5. Good(1)
  <2>1. parts[1] = {b.rules}
    BY <1>3, <1>4
  <2>2. \A r, s : AgreeBefore(b.fields, 1, r, s)
    BY DEF AgreeBefore
  <2> QED BY <2>1, <2>2 DEF PartsBefore
<1>6. ASSUME NEW k \in 1 .. n, Good(k) PROVE Good(k + 1)
  <2>1. k \in Nat \ {0} /\ k + 1 \in 1 .. Dim /\ k + 1 # 1 /\ (k + 1) - 1 = k
    BY <1>3
  <2>2. parts[k + 1] = Refined(parts[k], b.fields[k])
    BY <1>4, <2>1
  <2> QED BY <1>6, <2>1, <2>2, RefinedParts
<1> HIDE DEF Good
<1>7. 0 .. n \subseteq T
  <2>1. n \in Nat
    BY <1>3
  <2>2. 0 \in T
    BY <1>5, <2>1
  <2>3. \A k \in 1 .. n : k - 1 \in T => k \in T
    <3> SUFFICES ASSUME NEW k \in 1 .. n, k - 1 \in T PROVE k \in T
      OBVIOUS
    <3>1. (k - 1) + 1 = k /\ k \in 0 .. n
      BY <2>1
    <3> QED BY <1>6, <3>1
  <2> HIDE DEF T, n
  <2> QED BY <2>1, <2>2, <2>3, UpTo
<1>8. ASSUME NEW i \in Field PROVE Good(i)
  <2>1. i - 1 \in 0 .. n /\ (i - 1) + 1 = i
    BY <1>3
  <2> QED BY <1>7, <2>1
<1> QED BY <1>1, <1>8 DEF Good

\* IsBucketReallySortable accepts a bucket when any two of its rules are
\* sortable in the order of its fields.
LEMMA AdmissionTestIsExact ==
  ASSUME NEW b \in SortableRuleset, b.rules # {}
  PROVE  IsBucketReallySortable(b) <=> \A r, s \in b.rules : Sortable(b.fields, r, s)
<1> DEFINE S == b.rules
           fo == b.fields
<1>1. S \in (SUBSET Rule) \ {{}} /\ \A i \in Field : fo[i] \in Field
  BY DEF SortableRuleset, FieldOrder
<1>2. \A i \in Field : PartsBefore(Parts(b)[i], S, fo, i)
  BY <1>1, PartsAreClasses
<1>3. IsBucketReallySortable(b) <=>
          \A i \in Field : \A p \in Parts(b)[i] : IsThisPartitionSortable(p, fo[i])
  BY DEF IsBucketReallySortable, IsEntirePartitionSortable
<1>4. \A r, s : Sortable(fo, r, s) <=>
          \A i \in Field : AgreeBefore(fo, i, r, s) => Identical(r, s, fo[i]) \/ Disjoint(r, s, fo[i])
  BY DEF Sortable, AgreeBefore
<1> HIDE DEF S, fo
<1>5. ASSUME NEW i \in Field, NEW p \in Parts(b)[i]
      PROVE  IsThisPartitionSortable(p, fo[i]) <=>
                 \A r, s \in p : Identical(r, s, fo[i]) \/ Disjoint(r, s, fo[i])
  <2>1. p \in (SUBSET Rule) \ {{}} /\ fo[i] \in Field
    BY <1>1, <1>2 DEF PartsBefore
  <2> QED BY <2>1, SortableByField
<1>6. ASSUME \A i \in Field : \A p \in Parts(b)[i] : IsThisPartitionSortable(p, fo[i]),
             NEW r \in S, NEW s \in S, NEW i \in Field, AgreeBefore(fo, i, r, s)
      PROVE  Identical(r, s, fo[i]) \/ Disjoint(r, s, fo[i])
  <2>1. PICK p \in Parts(b)[i] : r \in p /\ s \in p
    BY <1>2, <1>6 DEF PartsBefore
  <2> QED BY <1>5, <1>6, <2>1
<1>7. ASSUME \A r, s \in S : Sortable(fo, r, s), NEW i \in Field, NEW p \in Parts(b)[i]
      PROVE  IsThisPartitionSortable(p, fo[i])
  <2>1. \A r, s \in p : r \in S /\ s \in S /\ AgreeBefore(fo, i, r, s)
    BY <1>2 DEF PartsBefore
  <2>2. \A r, s \in p : Identical(r, s, fo[i]) \/ Disjoint(r, s, fo[i])
    BY <1>4, <1>7, <2>1
  <2> QED BY <1>5, <2>2
<1>8. IsBucketReallySortable(b) <=> \A r, s \in S : Sortable(fo, r, s)
  BY <1>3, <1>4, <1>6, <1>7
<1> QED BY <1>8 DEF S, fo

\* It does not matter which of two rules comes first, and a rule is sortable
\* with itself.
LEMMA SortableIsSymmetric ==
  ASSUME NEW fo, NEW r, NEW s
  PROVE  (Sortable(fo, r, s) <=> Sortable(fo, s, r)) /\ Sortable(fo, r, r)
<1>1. \A f : Identical(r, s, f) <=> Identical(s, r, f)
  BY DEF Identical
<1>2. \A f : Disjoint(r, s, f) <=> Disjoint(s, r, f)
  BY DEF Disjoint
<1>3. \A f : Identical(r, r, f)
  BY DEF Identical
<1> QED BY <1>1, <1>2, <1>3 DEF Sortable

\* With sortable buckets the two admission tests give the same verdict.
LEMMA VerdictsAgree == BucketsAreSortable => AdmissionTestsAgree
<1> SUFFICES ASSUME BucketsAreSortable, NEW i \in DOMAIN all_buckets, NEW r \in Rule
             PROVE  IsBucketReallySortable(With(all_buckets[i], r))
                        <=> \A s \in all_buckets[i].rules : Sortable(all_buckets[i].fields, r, s)
  BY DEF AdmissionTestsAgree
<1> DEFINE b == all_buckets[i]
           c == With(b, r)
<1>1. b \in SortableRuleset /\ \A u, v \in b.rules : Sortable(b.fields, u, v)
  BY DEF BucketsAreSortable
<1> HIDE DEF b
<1>2. c \in SortableRuleset /\ c.rules = b.rules \cup {r} /\ c.fields = b.fields
  BY <1>1 DEF With, SortableRuleset
<1> HIDE DEF c
<1>3. IsBucketReallySortable(c) <=> \A u, v \in b.rules \cup {r} : Sortable(b.fields, u, v)
  BY <1>2, AdmissionTestIsExact
<1>4. (\A u, v \in b.rules \cup {r} : Sortable(b.fields, u, v))
          <=> \A s \in b.rules : Sortable(b.fields, r, s)
  BY <1>1, SortableIsSymmetric
<1> QED BY <1>3, <1>4 DEF b, c

------------------------------------------------------------------------------
(* The largest sortable subset                                             *)

\* Disjoint intervals of the largest weight: there is at least one of them,
\* because every interval has a positive weight.
LEMMA HeaviestHasOne ==
  ASSUME NEW W, IsFiniteSet(W), W # {}, \A w \in W : Proper(w), NEW V \in MWISIntervals(W)
  PROVE  V \in SUBSET W /\ V # {} /\ Independent(V)
<1> DEFINE v == [w \in W |-> Weight(w)]
           disjoint == {U \in SUBSET W : Independent(U)}
           weights == {TotalWeight(U) : U \in disjoint}
<1>1. V \in SUBSET W /\ Independent(V) /\ TotalWeight(V) = Max(weights)
  BY DEF MWISIntervals, MaximumWeight
<1>2. v \in [W -> Nat] /\ \A w \in W : v[w] \in Nat \ {0}
  BY WeightIsPositive
<1>3. /\ SumOver(v, {}) = 0
      /\ \A T \in SUBSET W : SumOver(v, T) \in Nat
      /\ \A T \in SUBSET W : \A x \in T : SumOver(v, T) = SumOver(v, T \ {x}) + v[x]
  <2> HIDE DEF v
  <2> QED BY <1>2, SumProperties
<1>4. \A T \in SUBSET W : TotalWeight(T) = SumOver(v, T)
  BY TotalWeightIsSum
<1> HIDE DEF v
<1>5. weights \in SUBSET Nat /\ IsFiniteSet(weights)
  <2>1. IsFiniteSet(disjoint)
    <3>1. IsFiniteSet(SUBSET W)
      BY FS_SUBSET
    <3> QED BY <3>1, FS_Subset
  <2> DEFINE g == [U \in disjoint |-> TotalWeight(U)]
  <2>2. g \in Surjection(disjoint, weights)
    BY DEF Surjection
  <2>3. weights \in SUBSET Nat
    BY <1>3, <1>4
  <2> HIDE DEF g, disjoint, weights
  <2> QED BY <2>1, <2>2, <2>3, FS_Surjection
<1>6. PICK w \in W : TRUE
  OBVIOUS
<1>7. TotalWeight({w}) \in weights
  BY DEF Independent
<1>8. TotalWeight({w}) = v[w] /\ v[w] \in Nat \ {0}
  <2>1. {w} \ {w} = {} /\ {w} \in SUBSET W
    OBVIOUS
  <2> QED BY <1>2, <1>3, <1>4, <2>1
<1>9. TotalWeight({}) = 0
  BY <1>3, <1>4
<1> HIDE DEF weights, disjoint
<1>10. TotalWeight({w}) <= Max(weights) /\ Max(weights) \in Nat
  BY <1>5, <1>7, MaxOfFinite
<1> QED BY <1>1, <1>8, <1>9, <1>10

\* Rules that the fields from the d-th on tell apart, or not at all.
SeparatedFrom(fo, d, r, s) ==
    \/ \A k \in d .. Dim : Identical(r, s, fo[k])
    \/ \E i \in d .. Dim : /\ Disjoint(r, s, fo[i])
                           /\ \A k \in d .. i - 1 : Identical(r, s, fo[k])

\* The sets that may be chosen of intervals, given those of each interval.
ChosenOf(vwi, below) ==
    LET opt == {{[w EXCEPT !.rules = V[w]] : w \in vwi} : V \in OneOfEach(below)}
    IN  UNION {{UNION {w.rules : w \in V} : V \in MWISIntervals(vwi_opt)} :
                   vwi_opt \in opt}

\* One level of the recursion, over the sets h chosen one level down.
Level(S, f, h) ==
    [T \in SUBSET S |->
        ChosenOf(CreateUniqueInterval(T, f), [w \in CreateUniqueInterval(T, f) |-> h[w.rules]])]

\* What a level may choose of a set of rules: some of them, separated.
Chooses(h, S, fo, d) ==
    \A T \in SUBSET S : \A V \in h[T] :
        /\ V \subseteq T
        /\ T # {} => V # {}
        /\ \A r, s \in V : SeparatedFrom(fo, d, r, s)

\* U is made of one set of each interval.
IsChoice(T, f, h, U) ==
    \E c : /\ \A w \in CreateUniqueInterval(T, f) : c[w] \in h[w.rules]
           /\ \E V \in MWISIntervals({[w EXCEPT !.rules = c[w]] : w \in CreateUniqueInterval(T, f)}) :
                 U = UNION {w.rules : w \in V}

\* A choice takes one set of each interval, and keeps those of disjoint intervals.
LEMMA ChosenIs ==
  ASSUME NEW T, NEW f, NEW h,
         NEW U \in ChosenOf(CreateUniqueInterval(T, f), [w \in CreateUniqueInterval(T, f) |-> h[w.rules]])
  PROVE  IsChoice(T, f, h, U)
<1> DEFINE vwi == CreateUniqueInterval(T, f)
           below == [w \in vwi |-> h[w.rules]]
<1>1. PICK c \in OneOfEach(below) :
        \E V \in MWISIntervals({[w EXCEPT !.rules = c[w]] : w \in vwi}) : U = UNION {w.rules : w \in V}
  BY DEF ChosenOf
<1>2. \A w \in vwi : c[w] \in h[w.rules]
  BY DEF OneOfEach
<1> QED BY <1>1, <1>2 DEF IsChoice

\* A level chooses separated rules when the level below does.
LEMMA LevelChooses ==
  ASSUME NEW S \in SUBSET Rule, NEW h, NEW fo, NEW d \in Field, fo[d] \in Field,
         Chooses(h, S, fo, d + 1)
  PROVE  Chooses(Level(S, fo[d], h), S, fo, d)
<1> DEFINE f == fo[d]
<1> SUFFICES ASSUME NEW T \in SUBSET S, NEW U \in Level(S, f, h)[T]
             PROVE  /\ U \subseteq T
                    /\ T # {} => U # {}
                    /\ \A r, s \in U : SeparatedFrom(fo, d, r, s)
  BY DEF Chooses
<1> DEFINE vwi == CreateUniqueInterval(T, f)
<1>1. U \in ChosenOf(vwi, [w \in vwi |-> h[w.rules]])
  BY DEF Level
<1>2. PICK c : /\ \A w \in vwi : c[w] \in h[w.rules]
               /\ \E V \in MWISIntervals({[w EXCEPT !.rules = c[w]] : w \in vwi}) :
                     U = UNION {w.rules : w \in V}
  <2>1. IsChoice(T, f, h, U)
    BY <1>1, ChosenIs
  <2> QED BY <2>1 DEF IsChoice
<1> DEFINE Holding(w) == [w EXCEPT !.rules = c[w]]
           W == {Holding(w) : w \in vwi}
<1>3. PICK V \in MWISIntervals(W) : U = UNION {w.rules : w \in V}
  BY <1>2
<1>4. Dim \in Nat /\ d \in 1 .. Dim /\ T \in SUBSET Rule
  BY RulesAssumption DEF Field
<1>5. ASSUME NEW w \in vwi
      PROVE  /\ w \in WeightedInterval /\ w.low <= w.high
             /\ w.rules \in SUBSET T /\ w.rules # {} /\ \A r, s \in w.rules : Identical(r, s, f)
             /\ \A r \in w.rules : Low(r, f) = w.low /\ High(r, f) = w.high
  <2>1. T \in (SUBSET Rule) \ {{}} /\ f \in Field
    BY <1>4 DEF CreateUniqueInterval
  <2>2. Proper(w)
    BY <2>1, UniqueIntervals
  <2>3. w.rules \in SUBSET T /\ \A r \in w.rules : Low(r, f) = w.low /\ High(r, f) = w.high
    BY RulesOfInterval
  <2>4. \A r, s \in w.rules : Identical(r, s, f)
    BY RulesAreAlike
  <2>5. w.rules # {}
    BY DEF CreateUniqueInterval
  <2> QED BY <2>2, <2>3, <2>4, <2>5 DEF Proper
<1>6. ASSUME NEW w \in vwi
      PROVE  /\ c[w] \subseteq w.rules /\ c[w] # {}
             /\ \A r, s \in c[w] : SeparatedFrom(fo, d + 1, r, s)
  <2>1. w.rules \in SUBSET S /\ w.rules # {} /\ c[w] \in h[w.rules]
    BY <1>2, <1>5
  <2> QED BY <2>1 DEF Chooses
<1>7. ASSUME NEW w \in vwi
      PROVE  /\ Holding(w).low = w.low /\ Holding(w).high = w.high /\ Holding(w).rules = c[w]
             /\ Proper(Holding(w))
  <2>1. c[w] \in SUBSET Rule
    BY <1>4, <1>5, <1>6
  <2>2. w \in WeightedInterval /\ w.low \in Nat /\ w.high \in Nat
    BY <1>5 DEF WeightedInterval
  <2>3. /\ Holding(w).low = w.low /\ Holding(w).high = w.high
        /\ Holding(w).rules = c[w] /\ Holding(w) \in WeightedInterval
    BY <2>1, <2>2 DEF WeightedInterval
  <2> HIDE DEF Holding
  <2> QED BY <1>5, <2>2, <2>3 DEF Proper
<1>8. IsFiniteSet(W) /\ (T # {} => W # {}) /\ \A v \in W : Proper(v)
  <2>1. CASE T = {}
    <3>1. vwi = {}
      BY <2>1 DEF CreateUniqueInterval
    <3>2. W = {}
      BY <3>1
    <3> QED BY <2>1, <3>2, FS_EmptySet
  <2>2. CASE T # {}
    <3>1. IsFiniteSet(vwi) /\ vwi # {}
      BY <1>4, <2>2, UniqueIntervals
    <3> DEFINE g == [w \in vwi |-> Holding(w)]
    <3>2. g \in Surjection(vwi, W)
      BY DEF Surjection
    <3>3. W # {} /\ \A v \in W : Proper(v)
      <4> HIDE DEF Holding, g, vwi
      <4> QED BY <1>7, <3>1
    <3> HIDE DEF g, W, vwi
    <3> QED BY <2>2, <3>1, <3>2, <3>3, FS_Surjection
  <2> QED BY <2>1, <2>2
<1>9. V \in SUBSET W /\ Independent(V)
  BY <1>3 DEF MWISIntervals
<1>10. T # {} => V # {}
  <2> HIDE DEF W
  <2> QED BY <1>3, <1>8, HeaviestHasOne
<1> HIDE DEF Holding, vwi
<1>11. \A v \in V : \E w \in vwi : v = Holding(w) /\ v.rules = c[w]
  BY <1>7, <1>9
<1>12. U \subseteq T
  BY <1>3, <1>5, <1>6, <1>11
<1>13. T # {} => U # {}
  BY <1>3, <1>6, <1>10, <1>11
<1>14. ASSUME NEW r \in U, NEW s \in U PROVE SeparatedFrom(fo, d, r, s)
  <2>1. PICK v1 \in V, v2 \in V : r \in v1.rules /\ s \in v2.rules
    BY <1>3
  <2>2. PICK w1 \in vwi : v1 = Holding(w1) /\ v1.rules = c[w1]
    BY <1>11
  <2>3. CASE v1 = v2
    <3>1. SeparatedFrom(fo, d + 1, r, s) /\ Identical(r, s, fo[d])
      BY <1>5, <1>6, <2>1, <2>2, <2>3
    <3>2. \A k : k \in d .. Dim => k = d \/ k \in d + 1 .. Dim
      BY <1>4
    <3>3. \A i \in d + 1 .. Dim : \A k \in d .. i - 1 : k = d \/ k \in d + 1 .. i - 1
      BY <1>4
    <3>4. d + 1 .. Dim \subseteq d .. Dim
      BY <1>4
    <3> QED BY <3>1, <3>2, <3>3, <3>4 DEF SeparatedFrom
  <2>4. CASE v1 # v2
    <3>1. PICK w2 \in vwi : v2 = Holding(w2) /\ v2.rules = c[w2]
      BY <1>11
    <3>2. Before(v1, v2) \/ Before(v2, v1)
      BY <1>9, <2>1, <2>4 DEF Independent
    <3>3. /\ v1.low = Low(r, f) /\ v1.high = High(r, f)
          /\ v2.low = Low(s, f) /\ v2.high = High(s, f)
      BY <1>5, <1>6, <1>7, <2>1, <2>2, <3>1
    <3>4. Disjoint(r, s, f)
      BY <3>2, <3>3 DEF Before, Disjoint
    <3>5. d \in d .. Dim /\ \A k \in d .. d - 1 : FALSE
      BY <1>4
    <3> QED BY <3>4, <3>5 DEF SeparatedFrom
  <2> QED BY <2>3, <2>4
<1> QED BY <1>12, <1>13, <1>14

\* The level below depth: what it chooses, or the rules themselves.
LevelBelow(S, depth, g) == IF depth < Dim THEN g[depth + 1] ELSE [T \in SUBSET S |-> {T}]

\* The recursion over the depth.
AllLevels(S, fo, g) ==
    [depth \in Field |-> [T \in SUBSET S |->
        ChosenOf(CreateUniqueInterval(T, fo[depth]),
                 [w \in CreateUniqueInterval(T, fo[depth]) |->
                     IF depth < Dim THEN g[depth + 1][w.rules] ELSE {w.rules}])]]

\* Each level of it is one over the level below.
LEMMA LevelOfBelow ==
  ASSUME NEW S \in SUBSET Rule, NEW fo, NEW g, NEW depth \in Field
  PROVE  AllLevels(S, fo, g)[depth] = Level(S, fo[depth], LevelBelow(S, depth, g))
<1> DEFINE f == fo[depth]
           below(T) == [w \in CreateUniqueInterval(T, f) |->
                           IF depth < Dim THEN g[depth + 1][w.rules] ELSE {w.rules}]
           below2(T) == [w \in CreateUniqueInterval(T, f) |-> LevelBelow(S, depth, g)[w.rules]]
<1>1. ASSUME NEW T \in SUBSET S, NEW w \in CreateUniqueInterval(T, f)
      PROVE  (IF depth < Dim THEN g[depth + 1][w.rules] ELSE {w.rules}) = LevelBelow(S, depth, g)[w.rules]
  <2>1. w.rules \in SUBSET S
    BY RulesOfInterval
  <2> QED BY <2>1 DEF LevelBelow
<1>2. \A T \in SUBSET S : below(T) = below2(T)
  BY <1>1
<1>3. AllLevels(S, fo, g)[depth] = [T \in SUBSET S |-> ChosenOf(CreateUniqueInterval(T, f), below(T))]
  BY DEF AllLevels
<1>4. Level(S, f, LevelBelow(S, depth, g)) =
          [T \in SUBSET S |-> ChosenOf(CreateUniqueInterval(T, f), below2(T))]
  BY DEF Level
<1> HIDE DEF below, below2
<1> QED BY <1>2, <1>3, <1>4

\* A level chooses among the rules it is given.
LEMMA LevelOfRules ==
  ASSUME NEW S \in SUBSET Rule, NEW f, NEW h \in [SUBSET S -> SUBSET SUBSET S]
  PROVE  Level(S, f, h) \in [SUBSET S -> SUBSET SUBSET S]
<1>1. ASSUME NEW T \in SUBSET S,
             NEW U \in ChosenOf(CreateUniqueInterval(T, f), [w \in CreateUniqueInterval(T, f) |-> h[w.rules]])
      PROVE  U \subseteq S
  <2> DEFINE vwi == CreateUniqueInterval(T, f)
  <2>1. IsChoice(T, f, h, U)
    BY ChosenIs
  <2>2. PICK c : /\ \A w \in vwi : c[w] \in h[w.rules]
                 /\ \E V \in MWISIntervals({[w EXCEPT !.rules = c[w]] : w \in vwi}) :
                       U = UNION {w.rules : w \in V}
    BY <2>1 DEF IsChoice
  <2> DEFINE Holding(w) == [w EXCEPT !.rules = c[w]]
             W == {Holding(w) : w \in vwi}
  <2>3. PICK V \in MWISIntervals(W) : U = UNION {w.rules : w \in V}
    BY <2>2
  <2>4. V \in SUBSET W
    BY DEF MWISIntervals
  <2>5. ASSUME NEW w \in vwi PROVE Holding(w).rules \in SUBSET S
    <3>1. w.rules \in SUBSET S
      BY RulesOfInterval
    <3>2. c[w] \in SUBSET S
      BY <2>2, <3>1
    <3>3. Holding(w).rules = c[w]
      BY DEF CreateUniqueInterval
    <3> QED BY <3>2, <3>3
  <2> HIDE DEF Holding, vwi
  <2> QED BY <2>3, <2>4, <2>5
<1> DEFINE Of(T) == ChosenOf(CreateUniqueInterval(T, f), [w \in CreateUniqueInterval(T, f) |-> h[w.rules]])
<1>2. \A T \in SUBSET S : Of(T) \in SUBSET SUBSET S
  BY <1>1
<1>3. Level(S, f, h) = [T \in SUBSET S |-> Of(T)]
  BY DEF Level
<1> HIDE DEF Of
<1> QED BY <1>2, <1>3

\* The recursion defines a function, from the last field to the first.
LEMMA AllLevelsExist ==
  ASSUME NEW S \in SUBSET Rule, NEW fo
  PROVE  \E g : g = AllLevels(S, fo, g)
<1> DEFINE X == [SUBSET S -> SUBSET SUBSET S]
           F == [k \in 1 .. Dim |-> [h \in X |-> Level(S, fo[Dim + 1 - k], h)]]
           h0 == [T \in SUBSET S |-> {T}]
<1>1. Dim \in Nat /\ Dim >= 1 /\ Field = 1 .. Dim
  BY RulesAssumption DEF Field
<1>2. \A h \in X : \A f : Level(S, f, h) \in X
  BY LevelOfRules
<1>3. F \in [1 .. Dim -> [X -> X]] /\ h0 \in X
  <2>1. h0 \in X
    OBVIOUS
  <2> HIDE DEF X, h0
  <2> QED BY <1>2, <2>1
<1>4. PICK a : Iterates(a, Dim, X, h0, F)
  <2> HIDE DEF X, F, h0
  <2> QED BY ONLY <1>1, <1>3, Iterated
<1>5. /\ a \in [0 .. Dim -> X] /\ a[0] = h0
      /\ \A k \in 1 .. Dim : a[k] = Level(S, fo[Dim + 1 - k], a[k - 1])
  <2>1. /\ a \in [0 .. Dim -> X] /\ a[0] = h0 /\ \A k \in 1 .. Dim : a[k] = F[k][a[k - 1]]
    BY <1>4 DEF Iterates
  <2>2. \A k \in 1 .. Dim : \A h \in X : F[k][h] = Level(S, fo[Dim + 1 - k], h)
    OBVIOUS
  <2>3. \A k \in 1 .. Dim : a[k - 1] \in X
    <3> HIDE DEF X, F
    <3> QED BY <1>1, <2>1
  <2> HIDE DEF X, F, h0
  <2> QED BY <2>1, <2>2, <2>3
<1> DEFINE g == [depth \in Field |-> a[Dim + 1 - depth]]
<1>6. ASSUME NEW depth \in Field
      PROVE  g[depth] = Level(S, fo[depth], LevelBelow(S, depth, g))
  <2> DEFINE k == Dim + 1 - depth
  <2>1. k \in 1 .. Dim /\ Dim + 1 - k = depth /\ depth \in 1 .. Dim
    BY <1>1
  <2>2. g[depth] = a[k]
    OBVIOUS
  <2>3. LevelBelow(S, depth, g) = a[k - 1]
    <3>1. CASE depth < Dim
      <4>1. depth + 1 \in Field /\ Dim + 1 - (depth + 1) = k - 1
        BY <1>1, <2>1, <3>1
      <4>2. g[depth + 1] = a[k - 1]
        BY <4>1
      <4> HIDE DEF g, k
      <4> QED BY <3>1, <4>2 DEF LevelBelow
    <3>2. CASE ~(depth < Dim)
      <4>1. k - 1 = 0
        BY <1>1, <2>1, <3>2
      <4> HIDE DEF g, k
      <4> QED BY <1>5, <3>2, <4>1 DEF LevelBelow
    <3> QED BY <3>1, <3>2
  <2> HIDE DEF g, k
  <2> QED BY <1>5, <2>1, <2>2, <2>3
<1>7. g = [depth \in Field |-> g[depth]]
  OBVIOUS
<1> HIDE DEF g
<1>8. \A depth \in Field : g[depth] = AllLevels(S, fo, g)[depth]
  BY <1>6, LevelOfBelow
<1>9. AllLevels(S, fo, g) = [depth \in Field |-> AllLevels(S, fo, g)[depth]]
  BY DEF AllLevels
<1>10. g = AllLevels(S, fo, g)
  BY <1>7, <1>8, <1>9
<1> QED BY <1>10

\* Whatever set is returned for an order of the fields, its rules can be sorted
\* in that order, and there is one if there are rules at all.
LEMMA GivenFieldIsSortable ==
  ASSUME NEW S \in SUBSET Rule, NEW fo \in FieldOrder, NEW V \in MaximumIndependentSetGivenField(S, fo)
  PROVE  V \subseteq S /\ (S # {} => V # {}) /\ \A r, s \in V : Sortable(fo, r, s)
<1> DEFINE g == CHOOSE h : h = AllLevels(S, fo, h)
<1>1. MaximumIndependentSetGivenField(S, fo) = g[1][S]
  BY DEF MaximumIndependentSetGivenField, AllLevels, ChosenOf
<1>2. g = AllLevels(S, fo, g)
  <2>1. \E h : h = AllLevels(S, fo, h)
    BY AllLevelsExist
  <2> QED BY <2>1
<1> HIDE DEF g
<1>3. Dim \in Nat /\ Dim >= 1 /\ Field = 1 .. Dim /\ \A i \in Field : fo[i] \in Field
  BY RulesAssumption DEF Field, FieldOrder
<1>4. \A d \in Field : g[d] = Level(S, fo[d], LevelBelow(S, d, g))
  BY <1>2, LevelOfBelow
<1> DEFINE Good(d) == Chooses(LevelBelow(S, d, g), S, fo, d + 1)
           n == Dim - 1
           T == {k \in 0 .. n : Good(Dim - k)}
<1>5. Good(Dim)
  <2>1. LevelBelow(S, Dim, g) = [U \in SUBSET S |-> {U}]
    BY <1>3 DEF LevelBelow
  <2>2. \A r, s : SeparatedFrom(fo, Dim + 1, r, s)
    <3>1. Dim + 1 .. Dim = {}
      BY <1>3
    <3> QED BY <3>1 DEF SeparatedFrom
  <2> QED BY <2>1, <2>2 DEF Chooses
<1>6. ASSUME NEW d \in Field, Good(d) PROVE Chooses(g[d], S, fo, d)
  BY <1>3, <1>4, <1>6, LevelChooses
<1>7. ASSUME NEW d \in 2 .. Dim, Good(d) PROVE Good(d - 1)
  <2>1. d \in Field /\ d - 1 \in Field /\ (d - 1) + 1 = d /\ d - 1 < Dim
    BY <1>3
  <2>2. Chooses(g[d], S, fo, d)
    BY <1>6, <1>7, <2>1
  <2>3. LevelBelow(S, d - 1, g) = g[d]
    BY <2>1 DEF LevelBelow
  <2> QED BY <2>1, <2>2, <2>3
<1> HIDE DEF Good
<1>8. Good(1)
  <2>1. n \in Nat /\ Dim - n = 1 /\ n \in 0 .. n /\ 0 \in 0 .. n /\ Dim - 0 = Dim
    BY <1>3
  <2>2. 0 \in T
    BY <1>5, <2>1
  <2>3. \A k \in 1 .. n : k - 1 \in T => k \in T
    <3> SUFFICES ASSUME NEW k \in 1 .. n, k - 1 \in T PROVE k \in T
      OBVIOUS
    <3>1. Dim - (k - 1) \in 2 .. Dim /\ (Dim - (k - 1)) - 1 = Dim - k /\ k \in 0 .. n
      BY <1>3
    <3>2. Good(Dim - (k - 1))
      OBVIOUS
    <3>3. Good((Dim - (k - 1)) - 1)
      BY <1>7, <3>1, <3>2
    <3> QED BY <3>1, <3>3
  <2>4. 0 .. n \subseteq T
    <3> HIDE DEF T, n
    <3> QED BY <2>1, <2>2, <2>3, UpTo
  <2> QED BY <2>1, <2>4
<1>9. Chooses(g[1], S, fo, 1)
  BY <1>3, <1>6, <1>8
<1>10. V \subseteq S /\ (S # {} => V # {}) /\ \A r, s \in V : SeparatedFrom(fo, 1, r, s)
  BY <1>1, <1>9 DEF Chooses
<1>11. ASSUME NEW r \in V, NEW s \in V PROVE Sortable(fo, r, s)
  <2>1. SeparatedFrom(fo, 1, r, s) /\ r \in Rule /\ s \in Rule
    BY <1>10
  <2>2. CASE \A k \in 1 .. Dim : Identical(r, s, fo[k])
    BY <1>3, <2>2 DEF Sortable
  <2>3. CASE \E i \in 1 .. Dim : Disjoint(r, s, fo[i]) /\ \A k \in 1 .. i - 1 : Identical(r, s, fo[k])
    <3>1. PICK i \in Field : Disjoint(r, s, fo[i]) /\ \A k \in 1 .. i - 1 : Identical(r, s, fo[k])
      BY <1>3, <2>3
    <3>2. ~Identical(r, s, fo[i])
      BY <1>3, <2>1, <3>1, NotDisjoint
    <3> QED BY <3>1, <3>2, TellsApart
  <2> QED BY <2>1, <2>2, <2>3 DEF SeparatedFrom
<1> QED BY <1>10, <1>11

------------------------------------------------------------------------------
(* The steps                                                               *)

\* At the call no bucket exists and every rule waits.
LEMMA InitHolds == Init => IInv
<1> SUFFICES ASSUME Init PROVE IInv
  OBVIOUS
<1>1. ~Selecting /\ all_buckets = <<>> /\ current_rules = rules /\ DOMAIN all_buckets = {}
  BY DEF Init, Selecting
<1>2. CallShape
  BY <1>1, ThresholdAssumption DEF Init, CallShape
<1>3. Placed /\ BucketsAreSortable
  BY <1>1 DEF Placed, BucketsAreSortable
<1> QED BY <1>1, <1>2, <1>3 DEF IInv, BucketsInv, SelectionShape, PartsAreSeparated

\* A new bucket of rules that waited.
LEMMA NewBucket ==
  ASSUME BucketsInv, NEW b \in SortableRuleset, b.rules \subseteq current_rules,
         \A r, s \in b.rules : Sortable(b.fields, r, s),
         UNCHANGED <<method, threshold, rules>>, current_rules' = current_rules \ b.rules,
         all_buckets' = Append(all_buckets, b)
  PROVE  BucketsInv'
<1> DEFINE n == Len(all_buckets)
<1>1. /\ threshold \in Int /\ rules \subseteq Rule /\ current_rules \subseteq rules
      /\ all_buckets \in Seq([rules : SUBSET rules, fields : FieldOrder])
  BY DEF BucketsInv, CallShape
<1>2. b \in [rules : SUBSET rules, fields : FieldOrder]
  BY <1>1 DEF SortableRuleset
<1>3. /\ n \in Nat /\ DOMAIN all_buckets = 1 .. n /\ DOMAIN all_buckets' = 1 .. n + 1
      /\ all_buckets'[n + 1] = b /\ \A i \in 1 .. n : all_buckets'[i] = all_buckets[i]
      /\ all_buckets' \in Seq([rules : SUBSET rules, fields : FieldOrder])
  BY <1>1, <1>2
<1> HIDE DEF n
<1>4. CallShape'
  BY <1>1, <1>3 DEF CallShape
<1>5. BucketsAreSortable'
  <2> SUFFICES ASSUME NEW i \in 1 .. n + 1
               PROVE  /\ all_buckets'[i] \in SortableRuleset
                      /\ \A r, s \in all_buckets'[i].rules : Sortable(all_buckets'[i].fields, r, s)
    BY <1>3 DEF BucketsAreSortable
  <2>1. CASE i = n + 1
    BY <1>3, <2>1
  <2>2. CASE i # n + 1
    <3>1. i \in 1 .. n /\ all_buckets'[i] = all_buckets[i]
      BY <1>3, <2>2
    <3> QED BY <1>3, <3>1 DEF BucketsInv, BucketsAreSortable
  <2> QED BY <2>1, <2>2
<1>6. Placed'
  <2>0. MayLose' = MayLose
    BY DEF MayLose
  <2>1. MayLose' \/ \A r \in rules' : \/ r \in current_rules'
                                      \/ \E i \in DOMAIN all_buckets' : r \in all_buckets'[i].rules
    <3>1. ASSUME NEW r \in rules, NEW i \in 1 .. n, r \in all_buckets[i].rules
          PROVE  i \in DOMAIN all_buckets' /\ r \in all_buckets'[i].rules
      BY <1>3, <3>1
    <3>2. ASSUME NEW r \in b.rules
          PROVE  n + 1 \in DOMAIN all_buckets' /\ r \in all_buckets'[n + 1].rules
      BY <1>3
    <3>3. MayLose \/ \A r \in rules : \/ r \in current_rules' \/ r \in b.rules
                                      \/ \E i \in 1 .. n : r \in all_buckets[i].rules
      BY <1>1, <1>3 DEF BucketsInv, Placed
    <3> QED BY <1>1, <2>0, <3>1, <3>2, <3>3
  <2>2. \A i \in 1 .. n : all_buckets[i].rules \cap current_rules = {}
    BY <1>3 DEF BucketsInv, Placed
  <2>3. \A i \in DOMAIN all_buckets' : all_buckets'[i].rules \cap current_rules' = {}
    BY <1>3, <2>2
  <2>4. ASSUME NEW i \in DOMAIN all_buckets', NEW k \in DOMAIN all_buckets', i # k
        PROVE  all_buckets'[i].rules \cap all_buckets'[k].rules = {}
    <3>1. CASE i \in 1 .. n /\ k \in 1 .. n
      BY <1>3, <2>4, <3>1 DEF BucketsInv, Placed
    <3>2. CASE i = n + 1 /\ k \in 1 .. n
      BY <1>3, <2>2, <3>2
    <3>3. CASE i \in 1 .. n /\ k = n + 1
      BY <1>3, <2>2, <3>3
    <3> QED BY <1>3, <2>4, <3>1, <3>2, <3>3
  <2> QED BY <2>1, <2>3, <2>4 DEF Placed
<1> QED BY <1>4, <1>5, <1>6 DEF BucketsInv

\* A bucket that gets waiting rules X, or is replaced by some of its rules.
LEMMA ChangedBucket ==
  ASSUME BucketsInv, NEW i \in DOMAIN all_buckets, NEW b \in SortableRuleset,
         NEW X \in SUBSET current_rules, b.rules \subseteq all_buckets[i].rules \cup X,
         MayLose \/ b.rules = all_buckets[i].rules \cup X,
         \A r, s \in b.rules : Sortable(b.fields, r, s),
         UNCHANGED <<method, threshold, rules>>, current_rules' = current_rules \ X,
         all_buckets' = [all_buckets EXCEPT ![i] = b]
  PROVE  BucketsInv' /\ DOMAIN all_buckets' = DOMAIN all_buckets /\ all_buckets'[i] = b
<1> DEFINE n == Len(all_buckets)
<1>1. /\ threshold \in Int /\ rules \subseteq Rule /\ current_rules \subseteq rules
      /\ all_buckets \in Seq([rules : SUBSET rules, fields : FieldOrder])
  BY DEF BucketsInv, CallShape
<1>2. b \in [rules : SUBSET rules, fields : FieldOrder]
  <2>1. all_buckets[i] \in [rules : SUBSET rules, fields : FieldOrder]
    <3> DEFINE Bucket == [rules : SUBSET rules, fields : FieldOrder]
    <3>1. all_buckets \in Seq(Bucket)
      BY <1>1
    <3> HIDE DEF Bucket
    <3>2. all_buckets[i] \in Bucket
      BY <3>1
    <3> QED BY <3>2 DEF Bucket
  <2> QED BY <1>1, <2>1 DEF SortableRuleset
<1>3. /\ n \in Nat /\ DOMAIN all_buckets = 1 .. n /\ DOMAIN all_buckets' = 1 .. n
      /\ all_buckets'[i] = b /\ \A k \in 1 .. n : k # i => all_buckets'[k] = all_buckets[k]
      /\ all_buckets' \in Seq([rules : SUBSET rules, fields : FieldOrder])
  BY <1>1, <1>2
<1> HIDE DEF n
<1>4. CallShape'
  BY <1>1, <1>3 DEF CallShape
<1>5. BucketsAreSortable'
  <2> SUFFICES ASSUME NEW k \in 1 .. n
               PROVE  /\ all_buckets'[k] \in SortableRuleset
                      /\ \A r, s \in all_buckets'[k].rules : Sortable(all_buckets'[k].fields, r, s)
    BY <1>3 DEF BucketsAreSortable
  <2>1. CASE k = i
    BY <1>3, <2>1
  <2>2. CASE k # i
    BY <1>3, <2>2 DEF BucketsInv, BucketsAreSortable
  <2> QED BY <2>1, <2>2
<1>6. Placed'
  <2>0. MayLose' = MayLose
    BY DEF MayLose
  <2>1. MayLose' \/ \A r \in rules' : \/ r \in current_rules'
                                      \/ \E k \in DOMAIN all_buckets' : r \in all_buckets'[k].rules
    <3> SUFFICES ASSUME ~MayLose, NEW r \in rules, r \notin current_rules'
                 PROVE  \E k \in 1 .. n : r \in all_buckets'[k].rules
      BY <1>3, <2>0
    <3>1. r \in X \/ \E k \in 1 .. n : r \in all_buckets[k].rules
      BY <1>3 DEF BucketsInv, Placed
    <3> QED BY <1>3, <3>1
  <2>2. \A k \in 1 .. n : all_buckets[k].rules \cap current_rules = {}
    BY <1>3 DEF BucketsInv, Placed
  <2>3. \A k \in 1 .. n : all_buckets'[k].rules \cap current_rules' = {}
    BY <1>3, <2>2
  <2>4. ASSUME NEW k \in 1 .. n, k # i
        PROVE  all_buckets[k].rules \cap b.rules = {}
    <3>1. all_buckets[k].rules \cap all_buckets[i].rules = {}
      BY <1>3, <2>4 DEF BucketsInv, Placed
    <3> QED BY <2>2, <3>1
  <2>5. ASSUME NEW k \in 1 .. n, NEW l \in 1 .. n, k # l
        PROVE  all_buckets'[k].rules \cap all_buckets'[l].rules = {}
    <3>1. CASE k = i
      BY <1>3, <2>4, <2>5, <3>1
    <3>2. CASE l = i
      BY <1>3, <2>4, <2>5, <3>2
    <3>3. CASE k # i /\ l # i
      BY <1>3, <2>5, <3>3 DEF BucketsInv, Placed
    <3> QED BY <3>1, <3>2, <3>3
  <2> QED BY <1>3, <2>1, <2>3, <2>5 DEF Placed
<1> QED BY <1>3, <1>4, <1>5, <1>6 DEF BucketsInv

\* A selection that starts with all rules in one part.
LEMMA SelectionStarts ==
  ASSUME NEW S \in SUBSET Rule, NEW i \in Int, selection' = Selection(S, i)
  PROVE  /\ selection' \in [ all_partitions : SUBSET SUBSET Rule, current_field : Seq(Field), bucket : Int ]
         /\ selection' # NoSelection /\ selection'.current_field = <<>>
         /\ UNION selection'.all_partitions = S /\ selection'.bucket = i
         /\ IsInjective(selection'.current_field)
         /\ PartsAreSeparated'
<1>1. selection' = [ all_partitions |-> {S}, current_field |-> <<>>, bucket |-> i ]
  BY DEF Selection
<1>2. selection' \in [ all_partitions : SUBSET SUBSET Rule, current_field : Seq(Field), bucket : Int ]
  BY <1>1
<1>3. selection'.all_partitions = {S} /\ selection'.current_field = <<>> /\ selection'.bucket = i
  BY <1>1
<1>4. IsInjective(selection'.current_field)
  BY <1>3 DEF IsInjective
<1>5. PartsAreSeparated'
  BY <1>3 DEF PartsAreSeparated, Separated, Range
<1> QED BY <1>2, <1>3, <1>4, <1>5, NoSelectionAssumption

\* Nothing but the selection changes.
LEMMA SameBuckets ==
  ASSUME BucketsInv, UNCHANGED <<method, threshold, rules, current_rules, all_buckets>>
  PROVE  BucketsInv'
BY DEF BucketsInv, CallShape, Placed, MayLose, BucketsAreSortable

\* The rules selected, and the fields in the order in which they were chosen,
\* are a bucket.
LEMMA SelectedIsSortable ==
  ASSUME IInv, Selected
  PROVE  SelectedBucket \in SortableRuleset
         /\ \A r, s \in SelectedBucket.rules : Sortable(SelectedBucket.fields, r, s)
<1> DEFINE P == selection.all_partitions
           fields == selection.current_field
<1>1. /\ P \in SUBSET SUBSET Rule /\ fields \in Seq(Field) /\ IsInjective(fields)
      /\ Len(fields) = Dim /\ Separated(P, fields)
  BY DEF IInv, SelectionShape, PartsAreSeparated, Selected
<1>2. SelectedBucket = [rules |-> UNION P, fields |-> fields]
  BY DEF SelectedBucket
<1> HIDE DEF P, fields
<1>3. fields \in FieldOrder /\ UNION P \in SUBSET Rule
  BY <1>1 DEF FieldOrder, Field
<1>4. \A r, s \in UNION P : Sortable(fields, r, s)
  BY <1>1, SeparatedIsSortable
<1> QED BY <1>2, <1>3, <1>4 DEF SortableRuleset

\* The selection starts with the waiting rules as its only part.
LEMMA StartStep ==
  ASSUME IInv, StartGFS
  PROVE  IInv'
<1>1. /\ UNCHANGED <<method, threshold, rules, current_rules, all_buckets>> /\ method = "GFS"
      /\ selection' = Selection(current_rules, Len(all_buckets) + 1)
  BY DEF StartGFS
<1>2. BucketsInv'
  BY <1>1, SameBuckets DEF IInv
<1>3. current_rules \in SUBSET Rule /\ Len(all_buckets) + 1 \in Int
  BY DEF IInv, BucketsInv, CallShape
<1>4. SelectionShape' /\ PartsAreSeparated'
  BY <1>1, <1>3, SelectionStarts DEF SelectionShape
<1> QED BY <1>2, <1>4 DEF IInv

\* The next field separates the parts further, and keeps some of their rules.
LEMMA SelectStep ==
  ASSUME IInv, BestFieldAndConfiguration
  PROVE  IInv'
         /\ \E f \in Field : selection'.current_field = Append(selection.current_field, f) /\ Selecting'
<1> DEFINE P == selection.all_partitions
           fields == selection.current_field
           Selections == [ all_partitions : SUBSET SUBSET Rule, current_field : Seq(Field), bucket : Int ]
<1>1. UNCHANGED <<method, threshold, rules, current_rules, all_buckets>> /\ Selecting
  BY DEF BestFieldAndConfiguration
<1>2. PICK f \in Field \ Range(fields) : \E Q \in MWISonEntirePartition(P, f) :
        selection' = [selection EXCEPT !.all_partitions = Q, !.current_field = Append(@, f)]
  BY DEF BestFieldAndConfiguration, BestField
<1>3. PICK Q \in MWISonEntirePartition(P, f) :
        selection' = [selection EXCEPT !.all_partitions = Q, !.current_field = Append(@, f)]
  BY <1>2
<1>4. selection \in Selections /\ UNION P \subseteq Rule /\ fields \in Seq(Field) /\ IsInjective(fields)
  BY <1>1 DEF IInv, SelectionShape
<1>5. Separated(P, fields)
  BY <1>1 DEF IInv, PartsAreSeparated
<1> DEFINE longer == Append(fields, f)
<1>6. Separated(Q, longer) /\ UNION Q \subseteq UNION P
  BY <1>4, <1>5, SelectionSeparates
<1>7. longer \in Seq(Field)
  BY <1>4
<1>8. IsInjective(longer)
  <2> HIDE DEF fields
  <2> QED BY <1>2, <1>4 DEF IsInjective, Range
<1>9. selection' = [selection EXCEPT !.all_partitions = Q, !.current_field = longer]
  BY <1>3
<1> HIDE DEF longer
<1>10. /\ selection'.all_partitions = Q /\ selection'.current_field = longer
       /\ selection'.bucket = selection.bucket /\ selection' \in Selections
  <2>1. Q \in SUBSET SUBSET Rule
    BY <1>4, <1>6
  <2> HIDE DEF P, fields
  <2> QED BY <1>4, <1>7, <1>9, <2>1
<1>11. PartsAreSeparated'
  BY <1>6, <1>10 DEF PartsAreSeparated, Separated, SeparatedBy
<1>12. SelectionShape'
  <2>1. \/ method = "GFS" /\ UNION P \subseteq current_rules
        \/ /\ MayLose /\ selection.bucket \in DOMAIN all_buckets
           /\ UNION P \subseteq all_buckets[selection.bucket].rules
    BY <1>1 DEF IInv, SelectionShape
  <2>2. MayLose' = MayLose
    BY <1>1 DEF MayLose
  <2> HIDE DEF P
  <2> QED BY <1>1, <1>6, <1>8, <1>10, <2>1, <2>2 DEF SelectionShape
<1>13. BucketsInv'
  BY <1>1, SameBuckets DEF IInv
<1>14. Selecting'
  BY <1>10, NoSelectionAssumption DEF Selecting
<1> QED BY <1>10, <1>11, <1>12, <1>13, <1>14 DEF IInv, longer

\* Without a selection nothing is claimed of it.
LEMMA NoSelectionHolds ==
  ASSUME ~Selecting'
  PROVE  SelectionShape' /\ PartsAreSeparated'
BY DEF SelectionShape, PartsAreSeparated

\* What was selected becomes a bucket.
LEMMA AddStep ==
  ASSUME IInv, AddBucket
  PROVE  IInv'
<1>1. /\ UNCHANGED <<method, threshold, rules>> /\ current_rules' = current_rules \ SelectedBucket.rules
      /\ all_buckets' = Append(all_buckets, SelectedBucket) /\ ~Selecting'
      /\ Selecting /\ Selected /\ method = "GFS"
  BY DEF AddBucket, Selected, Selecting
<1>2. SelectedBucket.rules \subseteq current_rules
  BY <1>1 DEF IInv, SelectionShape, MayLose, SelectedBucket
<1>3. BucketsInv'
  BY <1>1, <1>2, SelectedIsSortable, NewBucket DEF IInv
<1> QED BY <1>1, <1>3, NoSelectionHolds DEF IInv

\* What MaximumIndependentSetAllFields returns.
LEMMA AllFieldsIsSortable ==
  ASSUME NEW S \in SUBSET Rule, NEW b \in MaximumIndependentSetAllFields(S)
  PROVE  /\ b \in SortableRuleset /\ b.rules \subseteq S /\ (S # {} => b.rules # {})
         /\ \A r, s \in b.rules : Sortable(b.fields, r, s)
<1>1. PICK go \in FieldOrder : \E V \in MaximumIndependentSetGivenField(S, go) :
        b = [rules |-> V, fields |-> go]
  BY DEF MaximumIndependentSetAllFields
<1>2. PICK V \in MaximumIndependentSetGivenField(S, go) : b = [rules |-> V, fields |-> go]
  BY <1>1
<1>3. V \subseteq S /\ (S # {} => V # {}) /\ \A r, s \in V : Sortable(go, r, s)
  BY GivenFieldIsSortable
<1> QED BY <1>2, <1>3 DEF SortableRuleset

\* The largest sortable subset becomes a bucket, and it is not empty.
LEMMA MaximumStep ==
  ASSUME IInv, AddMaximumIndependentSet
  PROVE  IInv' /\ current_rules' \subseteq current_rules /\ current_rules' # current_rules
<1>1. /\ UNCHANGED <<method, threshold, rules, selection>> /\ method = "MISF" /\ current_rules # {}
      /\ \E b \in MaximumIndependentSetAllFields(current_rules) :
            all_buckets' = Append(all_buckets, b) /\ current_rules' = current_rules \ b.rules
  BY DEF AddMaximumIndependentSet
<1>2. PICK b \in MaximumIndependentSetAllFields(current_rules) :
        all_buckets' = Append(all_buckets, b) /\ current_rules' = current_rules \ b.rules
  BY <1>1
<1>3. current_rules \in SUBSET Rule
  BY DEF IInv, BucketsInv, CallShape
<1>4. /\ b \in SortableRuleset /\ b.rules \subseteq current_rules /\ b.rules # {}
      /\ \A r, s \in b.rules : Sortable(b.fields, r, s)
  BY <1>1, <1>3, AllFieldsIsSortable
<1>5. BucketsInv'
  BY <1>1, <1>2, <1>4, NewBucket DEF IInv
<1>6. ~Selecting'
  BY <1>1 DEF IInv, SelectionShape, MayLose, Selecting
<1> QED BY <1>2, <1>4, <1>5, <1>6, NoSelectionHolds DEF IInv

\* The first of some positions.
LEMMA FirstOf ==
  ASSUME NEW T \in SUBSET Nat, T # {}
  PROVE  Min(T) \in T
<1>1. PICK t \in T : \A y \in T : ~(y < t)
  BY LeastNatural
<1>2. \E x \in T : \A y \in T : x <= y
  BY <1>1
<1> QED BY <1>2 DEF Min

\* A bucket accepts the rule, and may be selected from anew.
LEMMA InsertStep ==
  ASSUME IInv, NEW r \in current_rules, InsertIntoBucket(r)
  PROVE  IInv'
<1> DEFINE i == Min(Accepting(r))
           b == With(all_buckets[i], r)
<1>1. /\ UNCHANGED <<method, threshold, rules>> /\ current_rules' = current_rules \ {r}
      /\ method = "Adaptive" /\ Accepting(r) # {}
      /\ all_buckets' = [all_buckets EXCEPT ![i] = b]
      /\ selection' = IF Cardinality(b.rules) < threshold THEN Selection(b.rules, i) ELSE NoSelection
  BY DEF InsertIntoBucket
<1>2. /\ threshold \in Int /\ current_rules \subseteq Rule
      /\ all_buckets \in Seq([rules : SUBSET rules, fields : FieldOrder])
  BY DEF IInv, BucketsInv, CallShape
<1>3. i \in DOMAIN all_buckets /\ i \in Nat /\ IsBucketReallySortable(b)
  <2>1. Accepting(r) \in SUBSET Nat
    BY <1>2 DEF Accepting
  <2>2. i \in Accepting(r)
    BY <1>1, <2>1, FirstOf
  <2> HIDE DEF i
  <2> QED BY <2>1, <2>2 DEF Accepting
<1> HIDE DEF i
<1>4. all_buckets[i] \in SortableRuleset
  BY <1>3 DEF IInv, BucketsInv, BucketsAreSortable
<1>5. b \in SortableRuleset /\ b.rules = all_buckets[i].rules \cup {r}
  BY <1>2, <1>4 DEF With, SortableRuleset
<1> HIDE DEF b
<1>6. \A s, t \in b.rules : Sortable(b.fields, s, t)
  BY <1>3, <1>5, AdmissionTestIsExact
<1>7. BucketsInv' /\ DOMAIN all_buckets' = DOMAIN all_buckets /\ all_buckets'[i] = b
  <2>1. {r} \in SUBSET current_rules /\ BucketsInv
    BY DEF IInv
  <2> QED BY <1>1, <1>3, <1>5, <1>6, <2>1, ChangedBucket
<1>8. CASE ~(Cardinality(b.rules) < threshold)
  <2>1. ~Selecting'
    BY <1>1, <1>8 DEF Selecting
  <2> QED BY <1>7, <2>1, NoSelectionHolds DEF IInv
<1>9. CASE Cardinality(b.rules) < threshold
  <2>1. selection' = Selection(b.rules, i) /\ b.rules \in SUBSET Rule /\ i \in Int
    BY <1>1, <1>3, <1>5, <1>9 DEF SortableRuleset
  <2>2. Cardinality(b.rules) \in Nat
    BY <2>1, RulesAssumption, FS_Subset, FS_CardinalityType
  <2>3. MayLose'
    BY <1>1, <1>2, <1>9, <2>2 DEF MayLose
  <2>4. SelectionShape' /\ PartsAreSeparated'
    BY <1>3, <1>7, <2>1, <2>3, SelectionStarts DEF SelectionShape
  <2> QED BY <1>7, <2>4 DEF IInv
<1> QED BY <1>8, <1>9

\* The rule gets a bucket of its own.
LEMMA NewStep ==
  ASSUME IInv, NEW r \in current_rules, InsertIntoNewBucket(r)
  PROVE  IInv'
<1>1. /\ UNCHANGED <<method, threshold, rules, selection>> /\ current_rules' = current_rules \ {r}
      /\ ~Selecting
      /\ \E fo \in FieldOrder : all_buckets' = Append(all_buckets, [rules |-> {r}, fields |-> fo])
  BY DEF InsertIntoNewBucket, GetFieldOrderByRule
<1>2. PICK fo \in FieldOrder : all_buckets' = Append(all_buckets, [rules |-> {r}, fields |-> fo])
  BY <1>1
<1> DEFINE b == [rules |-> {r}, fields |-> fo]
<1>3. r \in Rule
  BY DEF IInv, BucketsInv, CallShape
<1>4. b \in SortableRuleset /\ b.rules = {r} /\ b.fields = fo
  BY <1>3 DEF SortableRuleset
<1>5. \A s, t \in b.rules : Sortable(b.fields, s, t)
  BY <1>4, SortableIsSymmetric
<1>6. all_buckets' = Append(all_buckets, b) /\ current_rules' = current_rules \ b.rules /\ b.rules \subseteq current_rules
  BY <1>1, <1>2, <1>4
<1> HIDE DEF b
<1>7. BucketsInv'
  BY <1>1, <1>4, <1>5, <1>6, NewBucket DEF IInv
<1>8. ~Selecting'
  BY <1>1 DEF Selecting
<1> QED BY <1>7, <1>8, NoSelectionHolds DEF IInv

\* The bucket is replaced by what was selected of it.
LEMMA ReconstructStep ==
  ASSUME IInv, Reconstruct
  PROVE  IInv'
<1> DEFINE i == selection.bucket
<1>1. /\ UNCHANGED <<method, threshold, rules, current_rules>> /\ ~Selecting'
      /\ Selecting /\ Selected /\ method = "Adaptive"
      /\ all_buckets' = [all_buckets EXCEPT ![i] = SelectedBucket]
  BY DEF Reconstruct, Selected, Selecting
<1>2. /\ MayLose /\ i \in DOMAIN all_buckets
      /\ SelectedBucket.rules \subseteq all_buckets[i].rules
  BY <1>1 DEF IInv, SelectionShape, SelectedBucket
<1>3. SelectedBucket \in SortableRuleset
      /\ \A r, s \in SelectedBucket.rules : Sortable(SelectedBucket.fields, r, s)
  BY <1>1, SelectedIsSortable
<1> HIDE DEF i
<1>4. BucketsInv'
  <2>1. /\ {} \in SUBSET current_rules /\ current_rules' = current_rules \ {} /\ BucketsInv
        /\ SelectedBucket.rules \subseteq all_buckets[i].rules \cup {}
    BY <1>1, <1>2 DEF IInv
  <2> QED BY <1>1, <1>2, <1>3, <2>1, ChangedBucket
<1> QED BY <1>1, <1>4, NoSelectionHolds DEF IInv

\* The invariant of the three partitioners.
THEOREM PartitionerInvariance == Spec => []IInv
<1>1. ASSUME IInv, [Next]_vars PROVE IInv'
  <2>1. CASE StartGFS
    BY <1>1, <2>1, StartStep
  <2>2. CASE BestFieldAndConfiguration
    BY <1>1, <2>2, SelectStep
  <2>3. CASE AddBucket
    BY <1>1, <2>3, AddStep
  <2>4. CASE AddMaximumIndependentSet
    BY <1>1, <2>4, MaximumStep
  <2>5. ASSUME NEW r \in current_rules, InsertIntoBucket(r) \/ InsertIntoNewBucket(r)
        PROVE  IInv'
    BY <1>1, <2>5, InsertStep, NewStep
  <2>6. CASE Reconstruct
    BY <1>1, <2>6, ReconstructStep
  <2>7. CASE UNCHANGED vars
    <3>1. UNCHANGED <<method, threshold, rules, current_rules, all_buckets>> /\ selection' = selection
      BY <2>7 DEF vars
    <3>2. BucketsInv'
      BY <1>1, <3>1, SameBuckets DEF IInv
    <3>3. SelectionShape' /\ PartsAreSeparated'
      BY <1>1, <3>1 DEF IInv, SelectionShape, MayLose, PartsAreSeparated, Separated, SeparatedBy, Selecting
    <3> QED BY <3>2, <3>3 DEF IInv
  <2>8. CASE Return
    BY <2>7, <2>8 DEF Return
  <2> QED BY <1>1, <2>1, <2>2, <2>3, <2>4, <2>5, <2>6, <2>7, <2>8 DEF Next
<1> QED BY InitHolds, <1>1, PTL DEF Spec

\* All three partitioners make sortable buckets only.
THEOREM BucketsAreSortableAlways == Spec => []BucketsAreSortable
<1>1. IInv => BucketsAreSortable
  BY DEF IInv, BucketsInv
<1> QED BY PartitionerInvariance, <1>1, PTL

\* The two admission tests agree on every bucket that is made.
THEOREM AdmissionTestsAgreeAlways == Spec => []AdmissionTestsAgree
<1>1. IInv => AdmissionTestsAgree
  BY VerdictsAgree DEF IInv, BucketsInv
<1> QED BY PartitionerInvariance, <1>1, PTL

\* No rule is placed twice, and only a reconstruction can lose one.
THEOREM EveryRuleInOneBucketAlways == Spec => []EveryRuleInOneBucket
<1>1. ASSUME IInv PROVE EveryRuleInOneBucket
  <2> DEFINE Holders(r) == {i \in DOMAIN all_buckets : r \in all_buckets[i].rules}
  <2> SUFFICES ASSUME NEW r \in rules \ current_rules
               PROVE  Cardinality(Holders(r)) = 1 \/ (Holders(r) = {} /\ MayLose)
    BY DEF EveryRuleInOneBucket, MayLose
  <2>1. CASE Holders(r) = {}
    BY <1>1, <2>1 DEF IInv, BucketsInv, Placed
  <2>2. CASE Holders(r) # {}
    <3>1. PICK i \in DOMAIN all_buckets : r \in all_buckets[i].rules
      BY <2>2
    <3>2. Holders(r) = {i}
      BY <1>1, <3>1 DEF IInv, BucketsInv, Placed
    <3> HIDE DEF Holders
    <3> QED BY <3>2, FS_Singleton
  <2> QED BY <2>1, <2>2
<1> QED BY PartitionerInvariance, <1>1, PTL

\* Every step places a rule, or brings the next one that does closer.
THEOREM EveryStepIsProgressAlways == Spec => EveryStepIsProgress
<1> DEFINE Progress == \/ current_rules' \subseteq current_rules /\ current_rules' # current_rules
                       \/ current_rules' = current_rules /\ StepsLeft' < StepsLeft
<1>1. ASSUME IInv, [Next]_vars, ~UNCHANGED vars PROVE Progress
  <2>1. Dim \in Nat /\ Dim >= 1
    BY RulesAssumption
  <2>2. CASE StartGFS
    <3>1. /\ current_rules' = current_rules /\ method' = method /\ method = "GFS" /\ ~Selecting
          /\ selection' = Selection(current_rules, Len(all_buckets) + 1)
      BY <2>2 DEF StartGFS
    <3>2. current_rules \in SUBSET Rule /\ Len(all_buckets) + 1 \in Int
      BY <1>1 DEF IInv, BucketsInv, CallShape
    <3>3. selection' # NoSelection /\ selection'.current_field = <<>>
      BY <3>1, <3>2, SelectionStarts
    <3>4. Selecting' /\ Len(selection'.current_field) = 0
      BY <3>3 DEF Selecting
    <3>5. StepsLeft' = Dim + 1 - 0 /\ StepsLeft = Dim + 2
      BY <3>1, <3>4 DEF StepsLeft
    <3> QED BY <2>1, <3>1, <3>5
  <2>3. CASE BestFieldAndConfiguration
    <3>1. current_rules' = current_rules /\ Selecting
      BY <2>3 DEF BestFieldAndConfiguration
    <3>2. PICK f \in Field : selection'.current_field = Append(selection.current_field, f) /\ Selecting'
      BY <1>1, <2>3, SelectStep
    <3>3. selection.current_field \in Seq(Field)
      BY <1>1, <3>1 DEF IInv, SelectionShape
    <3> DEFINE a == Len(selection.current_field)
    <3>4. Len(selection'.current_field) = a + 1 /\ a \in Nat
      BY <3>2, <3>3
    <3>5. StepsLeft' = Dim + 1 - (a + 1) /\ StepsLeft = Dim + 1 - a
      BY <3>1, <3>2, <3>4 DEF StepsLeft
    <3> HIDE DEF a
    <3>6. StepsLeft' < StepsLeft
      BY <2>1, <3>4, <3>5
    <3> QED BY <3>1, <3>6
  <2>4. CASE AddBucket
    <3>1. /\ current_rules' = current_rules \ SelectedBucket.rules /\ SelectedBucket.rules # {}
          /\ Selecting /\ method = "GFS"
      BY <2>4 DEF AddBucket, Selected
    <3>2. SelectedBucket.rules \subseteq current_rules
      BY <1>1, <3>1 DEF IInv, SelectionShape, MayLose, SelectedBucket
    <3> QED BY <3>1, <3>2
  <2>5. CASE AddMaximumIndependentSet
    BY <1>1, <2>5, MaximumStep
  <2>6. ASSUME NEW r \in current_rules, InsertIntoBucket(r) \/ InsertIntoNewBucket(r)
        PROVE  Progress
    <3>1. current_rules' = current_rules \ {r}
      BY <2>6 DEF InsertIntoBucket, InsertIntoNewBucket
    <3> QED BY <3>1
  <2>7. CASE Reconstruct
    <3>1. /\ current_rules' = current_rules /\ method' = method /\ method = "Adaptive"
          /\ ~Selecting' /\ Selecting /\ Len(selection.current_field) = Dim
      BY <2>7 DEF Reconstruct, Selected, Selecting
    <3>2. StepsLeft' = 0 /\ StepsLeft = Dim + 1 - Dim
      BY <3>1 DEF StepsLeft
    <3> QED BY <2>1, <3>1, <3>2
  <2>8. CASE Return
    BY <1>1, <2>8 DEF Return
  <2> QED BY <1>1, <2>2, <2>3, <2>4, <2>5, <2>6, <2>7, <2>8 DEF Next
<1>2. IInv /\ [Next]_vars => [Progress]_vars
  BY <1>1
<1> QED BY PartitionerInvariance, <1>2, PTL DEF Spec, EveryStepIsProgress

------------------------------------------------------------------------------
(* The selection of the online tree                                        *)

\* The parts of the first n fields, from those of one field less.
FastParts(S, fo, n, g) ==
    [i \in 0 .. n |-> IF i = 0 THEN {{S}}
                      ELSE UNION {FastMWISonEntirePartition(P, fo[i]) : P \in g[i - 1]}]

\* The recursion over the fields defines a function.
LEMMA PartsExist ==
  ASSUME NEW S, NEW fo, NEW n \in Nat
  PROVE  \E g : g = FastParts(S, fo, n, g)
<1> DEFINE Next1(Q, i) == UNION {FastMWISonEntirePartition(P, fo[i]) : P \in Q}
           Exists(k) == \E g : g = [i \in 0 .. k |-> IF i = 0 THEN {{S}} ELSE Next1(g[i - 1], i)]
           Missing == {k \in Nat : ~Exists(k)}
<1>1. SUFFICES ASSUME Missing # {} PROVE FALSE
  BY DEF FastParts
<1>2. PICK k \in Missing : \A y \in Missing : ~(y < k)
  <2>1. Missing \in SUBSET Nat
    OBVIOUS
  <2> HIDE DEF Missing
  <2> QED BY <1>1, <2>1, LeastNatural
<1> HIDE DEF Next1
<1>3. CASE k = 0
  <2> DEFINE g == [i \in 0 .. 0 |-> {{S}}]
  <2>1. g = [i \in 0 .. 0 |-> IF i = 0 THEN {{S}} ELSE Next1(g[i - 1], i)]
    OBVIOUS
  <2> HIDE DEF g
  <2>2. Exists(0)
    BY <2>1
  <2> QED BY <1>2, <1>3, <2>2
<1>4. CASE k # 0
  <2>1. k - 1 \in Nat /\ k - 1 < k /\ k \in Nat
    BY <1>2, <1>4
  <2>2. Exists(k - 1)
    BY <1>2, <2>1
  <2>3. PICK g : g = [i \in 0 .. k - 1 |-> IF i = 0 THEN {{S}} ELSE Next1(g[i - 1], i)]
    BY <2>2
  <2> DEFINE h == [i \in 0 .. k |-> IF i = k THEN Next1(g[k - 1], k) ELSE g[i]]
  <2>4. \A i \in 0 .. k - 1 : h[i] = g[i] /\ i \in 0 .. k /\ i # k
    BY <2>1
  <2>5. ASSUME NEW i \in 0 .. k
        PROVE  h[i] = IF i = 0 THEN {{S}} ELSE Next1(h[i - 1], i)
    <3>1. CASE i = k
      <4>1. k - 1 \in 0 .. k - 1
        BY <2>1
      <4> QED BY <1>4, <2>4, <3>1, <4>1
    <3>2. CASE i # k
      <4>1. i \in 0 .. k - 1 /\ (i # 0 => i - 1 \in 0 .. k - 1)
        BY <2>1, <3>2
      <4>2. g[i] = IF i = 0 THEN {{S}} ELSE Next1(g[i - 1], i)
        BY <2>3, <4>1
      <4> QED BY <2>4, <4>1, <4>2
    <3> QED BY <3>1, <3>2
  <2>6. h = [i \in 0 .. k |-> h[i]]
    OBVIOUS
  <2> HIDE DEF h
  <2>7. h = [i \in 0 .. k |-> IF i = 0 THEN {{S}} ELSE Next1(h[i - 1], i)]
    BY <2>5, <2>6
  <2>8. Exists(k)
    BY <2>7
  <2> QED BY <1>2, <2>8
<1> QED BY <1>3, <1>4

\* No interval of the fast variant has rules, so that no part made of them has.
LEMMA FastPartsAreEmpty ==
  ASSUME NEW P, NEW f, NEW Q \in FastMWISonEntirePartition(P, f), NEW q \in Q
  PROVE  q = {}
<1> DEFINE family == [p \in P |-> FastMWISonPartition(p, f)]
<1>1. PICK c \in OneOfEach(family) : Q = UNION Range(c)
  BY DEF FastMWISonEntirePartition
<1>2. DOMAIN c = P /\ \A p \in P : c[p] \in FastMWISonPartition(p, f)
  BY DEF OneOfEach
<1>3. PICK p \in P : q \in c[p]
  BY <1>1, <1>2 DEF Range
<1>4. \A w \in FastCreateUniqueInterval(p, f) : w.rules = {}
  BY DEF FastCreateUniqueInterval, CreateUniqueInterval
<1>5. PICK V \in SUBSET FastCreateUniqueInterval(p, f) : c[p] = {w.rules : w \in V}
  BY <1>2, <1>3 DEF FastMWISonPartition
<1> QED BY <1>3, <1>4, <1>5

\* Whatever rules a tree has and whatever fields are chosen, the selection
\* reports that it could not keep them all.
LEMMA FastSelectionNeverApproves ==
  ASSUME NEW S, NEW fo, Cardinality(S) > 1
  PROVE  TRUE \notin FastGreedyFieldSelectionForAdaptive(S, fo)
<1> DEFINE parts == CHOOSE g : g = FastParts(S, fo, Dim, g)
<1>1. FastGreedyFieldSelectionForAdaptive(S, fo) =
        {\E p \in P : Cardinality(p) = Cardinality(S) : P \in parts[Dim]}
  BY DEF FastGreedyFieldSelectionForAdaptive, FastParts
<1>2. parts = [i \in 0 .. Dim |->
                  IF i = 0 THEN {{S}}
                  ELSE UNION {FastMWISonEntirePartition(P, fo[i]) : P \in parts[i - 1]}]
  <2>1. \E g : g = FastParts(S, fo, Dim, g)
    BY PartsExist, RulesAssumption
  <2>2. parts = FastParts(S, fo, Dim, parts)
    BY <2>1
  <2> HIDE DEF parts
  <2> QED BY <2>2 DEF FastParts
<1> HIDE DEF parts
<1>3. parts[Dim] = UNION {FastMWISonEntirePartition(P, fo[Dim]) : P \in parts[Dim - 1]}
  <2>1. Dim \in 0 .. Dim /\ Dim # 0
    BY RulesAssumption
  <2> QED BY <1>2, <2>1
<1>4. \A Q \in parts[Dim] : \A q \in Q : q = {}
  BY <1>3, FastPartsAreEmpty
<1>5. \A Q \in parts[Dim] : ~ \E q \in Q : Cardinality(q) = Cardinality(S)
  BY <1>4, FS_EmptySet
<1> QED BY <1>1, <1>5

\* The check that would reconstruct a young tree of the online classifier fails
\* for every set of rules: a tree keeps the order of the fields it got first.
THEOREM OnlineSelectionIsInert == Spec => []OnlineSelectionNeverApproves
<1>1. OnlineSelectionNeverApproves
  BY FastSelectionNeverApproves DEF OnlineSelectionNeverApproves
<1> QED BY <1>1, PTL

------------------------------------------------------------------------------
(* The largest overlap is attained at a point                              *)

\* The number of intervals from L[w] to H[w] that a point is in.
Sharing(W, L, H, x) == Cardinality({w \in W : L[w] <= x /\ x <= H[w]})

\* They are those that have begun but for those that have ended.
LEMMA SharingIsDifference ==
  ASSUME NEW W, IsFiniteSet(W), NEW L \in [W -> Nat], NEW H \in [W -> Nat],
         \A w \in W : L[w] <= H[w], NEW x \in Int
  PROVE  /\ Sharing(W, L, H, x) \in Nat
         /\ Sharing(W, L, H, x) = AtMost(W, L, x) - LessThan(W, H, x)
         /\ \A w \in W : L[w] <= x /\ x <= H[w] => Sharing(W, L, H, x) >= 1
<1> DEFINE A == {w \in W : L[w] <= x}
           B == {w \in W : H[w] < x}
           C == {w \in W : L[w] <= x /\ x <= H[w]}
<1>1. A \in SUBSET W /\ C \in SUBSET W /\ C = A \ B /\ A \cap B = B
  OBVIOUS
<1>2. Sharing(W, L, H, x) = Cardinality(C) /\ AtMost(W, L, x) = Cardinality(A)
      /\ LessThan(W, H, x) = Cardinality(B)
  BY DEF Sharing, AtMost, LessThan
<1>3. \A w \in W : L[w] <= x /\ x <= H[w] => C # {}
  OBVIOUS
<1> HIDE DEF A, B, C
<1>4. IsFiniteSet(A) /\ IsFiniteSet(C) /\ Cardinality(C) \in Nat
  BY <1>1, FS_Subset, FS_CardinalityType
<1>5. Cardinality(C) = Cardinality(A) - Cardinality(B)
  BY <1>1, <1>4, FS_Difference
<1>6. C # {} => Cardinality(C) # 0
  BY <1>4, FS_EmptySet
<1> QED BY <1>2, <1>3, <1>4, <1>5, <1>6

\* After k rounds, i - 1 intervals have begun and l - 1 have ended; m is the
\* largest overlap up to there.
Sweeps(W, L, H, lo, hi, i, l, m, k) ==
    LET n == Cardinality(W)
    IN  /\ i \in 1 .. n + 1 /\ l \in 1 .. n /\ (i <= n => i + l = k + 2)
        /\ l > 1 /\ i <= n => hi[l - 1] < lo[i]
        /\ (i = 1 /\ m = -1) \/ \E x \in Nat : m <= Sharing(W, L, H, x)
        /\ \A x \in Nat : AtMost(W, L, x) \in 1 .. i - 1 => Sharing(W, L, H, x) <= m

\* A round over sorted bounds.
LEMMA SweepingRound ==
  ASSUME NEW W, IsFiniteSet(W), NEW L \in [W -> Nat], NEW H \in [W -> Nat],
         \A w \in W : L[w] <= H[w],
         NEW lo, InOrderOf(lo, W, L), NEW hi, InOrderOf(hi, W, H),
         NEW s \in LoopState, NEW k \in Nat \ {0}, Sweeps(W, L, H, lo, hi, s.i, s.j, s.max_overlap, k - 1),
         NEW t, t = NextRound(lo, hi, s)
  PROVE  Sweeps(W, L, H, lo, hi, t.i, t.j, t.max_overlap, k)
<1> DEFINE n == Cardinality(W)
           i == s.i
           l == s.j
           m == s.max_overlap
<1>1. i \in Int /\ l \in Int /\ m \in Int /\ Sweeps(W, L, H, lo, hi, i, l, m, k - 1) /\ n \in Nat
  BY FS_CardinalityType DEF LoopState
<1>2. /\ lo \in Seq(Nat) /\ hi \in Seq(Nat) /\ Len(lo) = n /\ Len(hi) = n
      /\ \A a \in 1 .. n : IsNth(W, L, a, lo[a]) /\ IsNth(W, H, a, hi[a])
  BY DEF InOrderOf
<1>3. ASSUME NEW a \in 1 .. n
      PROVE  /\ lo[a] \in Nat /\ hi[a] \in Nat
             /\ \A x \in Int : lo[a] <= x <=> a <= AtMost(W, L, x)
             /\ \A x \in Int : hi[a] <= x <=> a <= AtMost(W, H, x)
  <2>1. a \in Int /\ IsNth(W, L, a, lo[a]) /\ IsNth(W, H, a, hi[a])
    BY <1>2
  <2> QED BY <2>1, NthBound
<1>4. \A x \in Int : /\ AtMost(W, L, x) \in Nat /\ AtMost(W, H, x) \in Nat
                     /\ AtMost(W, L, x) <= n /\ LessThan(W, H, x) = AtMost(W, H, x - 1)
                     /\ LessThan(W, H, x) \in Nat
  BY CountsGrow
<1>5. \A x \in Int : /\ Sharing(W, L, H, x) \in Nat
                     /\ Sharing(W, L, H, x) = AtMost(W, L, x) - LessThan(W, H, x)
                     /\ \A w \in W : L[w] <= x /\ x <= H[w] => Sharing(W, L, H, x) >= 1
  BY SharingIsDifference
<1>6. CASE Stops(lo, hi, s)
  <2>1. t.i = i /\ t.j = l /\ t.max_overlap = m /\ ~(i <= n /\ l <= n)
    BY <1>2, <1>6, RoundCases DEF Stops
  <2> HIDE DEF i, l, m
  <2>2. ~(i <= n)
    BY <1>1, <2>1 DEF Sweeps
  <2> QED BY <1>1, <2>1, <2>2 DEF Sweeps
<1>7. CASE Opens(lo, hi, s)
  <2>1. t.i = i + 1 /\ t.j = l /\ t.max_overlap = Larger(i + 1 - l, m)
        /\ i <= n /\ l <= n /\ lo[i] <= hi[l]
    <3>1. t.i = s.i + 1 /\ t.j = s.j /\ t.max_overlap = Larger(s.i + 1 - s.j, s.max_overlap)
      BY <1>2, <1>7, RoundCases
    <3> QED BY <1>2, <1>7, <3>1 DEF Opens
  <2> HIDE DEF i, l, m, n
  <2>2. /\ i \in 1 .. n /\ l \in 1 .. n /\ i + l = k + 1 /\ (l > 1 => hi[l - 1] < lo[i])
        /\ (i = 1 /\ m = -1) \/ \E x \in Nat : m <= Sharing(W, L, H, x)
        /\ \A x \in Nat : AtMost(W, L, x) \in 1 .. i - 1 => Sharing(W, L, H, x) <= m
    BY <1>1, <2>1 DEF Sweeps, n
  <2>3. lo[i] \in Nat /\ i <= AtMost(W, L, lo[i])
    BY <1>3, <2>2
  <2>4. i - l + 1 <= Sharing(W, L, H, lo[i])
    <3>1. ~(hi[l] <= lo[i] - 1) /\ lo[i] - 1 \in Int
      BY <1>3, <2>1, <2>2
    <3>2. ~(l <= LessThan(W, H, lo[i]))
      BY <1>3, <1>4, <2>2, <2>3, <3>1
    <3>3. /\ AtMost(W, L, lo[i]) \in Nat /\ LessThan(W, H, lo[i]) \in Nat
          /\ Sharing(W, L, H, lo[i]) = AtMost(W, L, lo[i]) - LessThan(W, H, lo[i])
      BY ONLY <1>4, <1>5, <2>3
    <3>4. i \in Int /\ l \in Int
      BY <1>1
    <3> QED BY ONLY <2>3, <3>2, <3>3, <3>4
  <2>5. ASSUME NEW x \in Nat, AtMost(W, L, x) = i
        PROVE  Sharing(W, L, H, x) <= i - l + 1
    <3>1. lo[i] <= x
      BY <1>1, <1>3, <2>2, <2>5
    <3>2. l - 1 <= LessThan(W, H, x)
      <4>1. CASE l = 1
        BY <1>4, <4>1
      <4>2. CASE l # 1
        <5>1. l - 1 \in 1 .. n /\ hi[l - 1] < lo[i] /\ hi[l - 1] \in Nat
          BY <1>1, <1>3, <2>2, <4>2
        <5>2. hi[l - 1] <= x - 1 /\ x - 1 \in Int
          BY <2>3, <3>1, <5>1
        <5> QED BY <1>3, <1>4, <5>1, <5>2
      <4> QED BY <4>1, <4>2
    <3> QED BY <1>1, <1>4, <1>5, <2>5, <3>2
  <2> DEFINE z == Larger(i + 1 - l, m)
  <2>6. z \in Int /\ z >= m /\ z >= i - l + 1 /\ (z = m \/ z = i - l + 1)
    BY <1>1 DEF Larger
  <2> HIDE DEF z
  <2>7. \E x \in Nat : z <= Sharing(W, L, H, x)
    <3>1. CASE z = i - l + 1
      BY <2>3, <2>4, <3>1
    <3>2. CASE z = m
      <4>1. CASE \E x \in Nat : m <= Sharing(W, L, H, x)
        BY <3>2, <4>1
      <4>2. CASE m = -1
        BY <1>5, <2>3, <3>2, <4>2
      <4> QED BY <2>2, <4>1, <4>2
    <3> QED BY <2>6, <3>1, <3>2
  <2>8. ASSUME NEW x \in Nat, AtMost(W, L, x) \in 1 .. i
        PROVE  Sharing(W, L, H, x) <= z
    <3>1. Sharing(W, L, H, x) \in Nat
      BY <1>5
    <3>2. CASE AtMost(W, L, x) = i
      <4>1. Sharing(W, L, H, x) <= i - l + 1
        BY <2>5, <3>2
      <4> QED BY <1>1, <2>6, <3>1, <4>1
    <3>3. CASE AtMost(W, L, x) # i
      <4>1. AtMost(W, L, x) \in 1 .. i - 1
        BY <1>1, <2>8, <3>3
      <4>2. Sharing(W, L, H, x) <= m
        BY <2>2, <4>1
      <4> QED BY <1>1, <2>6, <3>1, <4>2
    <3> QED BY <3>2, <3>3
  <2>9. l > 1 /\ i + 1 <= n => hi[l - 1] < lo[i + 1]
    <3> SUFFICES ASSUME l > 1, i + 1 <= n PROVE hi[l - 1] < lo[i + 1]
      OBVIOUS
    <3>1. i + 1 \in 1 .. n /\ l - 1 \in 1 .. n
      BY <1>1, <2>2
    <3>2. lo[i + 1] \in Nat /\ hi[l - 1] \in Nat /\ i + 1 <= AtMost(W, L, lo[i + 1])
      BY <1>3, <3>1
    <3>3. i <= AtMost(W, L, lo[i + 1])
      BY <1>1, <1>4, <3>2
    <3>4. lo[i] <= lo[i + 1]
      BY <1>3, <2>2, <3>2, <3>3
    <3> QED BY <2>2, <2>3, <3>2, <3>4
  <2>10. Sweeps(W, L, H, lo, hi, i + 1, l, z, k)
    <3>1. i + 1 \in 1 .. n + 1 /\ (i + 1) + l = k + 2 /\ (i + 1) - 1 = i /\ l \in 1 .. n
      BY <1>1, <2>2
    <3> QED BY <2>7, <2>8, <2>9, <3>1 DEF Sweeps, n
  <2> QED BY <2>1, <2>10 DEF z
<1>8. CASE Closes(lo, hi, s)
  <2>1. t.i = i /\ t.j = l + 1 /\ t.max_overlap = m /\ i <= n /\ l <= n /\ ~(lo[i] <= hi[l])
    <3>1. t.i = s.i /\ t.j = s.j + 1 /\ t.max_overlap = s.max_overlap
      BY <1>2, <1>8, RoundCases
    <3> QED BY <1>2, <1>8, <3>1 DEF Closes
  <2> HIDE DEF i, l, m, n
  <2>2. /\ i \in 1 .. n /\ l \in 1 .. n /\ i + l = k + 1
        /\ (i = 1 /\ m = -1) \/ \E x \in Nat : m <= Sharing(W, L, H, x)
        /\ \A x \in Nat : AtMost(W, L, x) \in 1 .. i - 1 => Sharing(W, L, H, x) <= m
    BY <1>1, <2>1 DEF Sweeps, n
  <2>3. lo[i] \in Nat /\ hi[l] \in Nat /\ hi[l] < lo[i]
    BY <1>3, <2>1, <2>2
  <2>4. l < n
    <3>1. PICK w \in W : L[w] = lo[i]
      BY <1>2, <2>2 DEF IsNth
    <3>2. Sharing(W, L, H, lo[i]) >= 1
      <4>1. L[w] <= lo[i] /\ lo[i] <= H[w]
        BY <2>3, <3>1
      <4> QED BY <1>5, <2>3, <4>1
    <3>3. l <= LessThan(W, H, lo[i])
      <4>1. hi[l] <= lo[i] - 1 /\ lo[i] - 1 \in Int
        BY <2>3
      <4> QED BY <1>3, <1>4, <2>2, <2>3, <4>1
    <3>4. /\ AtMost(W, L, lo[i]) \in Nat /\ LessThan(W, H, lo[i]) \in Nat /\ AtMost(W, L, lo[i]) <= n
          /\ Sharing(W, L, H, lo[i]) = AtMost(W, L, lo[i]) - LessThan(W, H, lo[i])
      BY ONLY <1>4, <1>5, <2>3
    <3>5. l \in Int /\ n \in Int
      BY <1>1
    <3> QED BY ONLY <3>2, <3>3, <3>4, <3>5
  <2>5. Sweeps(W, L, H, lo, hi, i, l + 1, m, k)
    <3>1. l + 1 \in 1 .. n /\ i + (l + 1) = k + 2 /\ i \in 1 .. n + 1 /\ (l + 1) - 1 = l
      BY <1>1, <2>2, <2>4
    <3> QED BY <2>2, <2>3, <3>1 DEF Sweeps, n
  <2> QED BY <2>1, <2>5
<1> QED BY <1>6, <1>7, <1>8 DEF Stops, Opens, Closes

\* GetMaxOverlap counts the intervals at a busiest point.
LEMMA OverlapIsBusiest ==
  ASSUME NEW W, IsFiniteSet(W), W # {}, NEW L \in [W -> Nat], NEW H \in [W -> Nat],
         \A w \in W : L[w] <= H[w],
         NEW lo, InOrderOf(lo, W, L), NEW hi, InOrderOf(hi, W, H)
  PROVE  LET m == GetMaxOverlap(lo, hi)
         IN  /\ m \in Nat
             /\ \A x \in Nat : Sharing(W, L, H, x) <= m
             /\ \E x \in Nat : Sharing(W, L, H, x) = m
<1> DEFINE n == Cardinality(W)
           rounds == Len(lo) + Len(hi)
           after == CHOOSE g : g = Rounds(lo, hi, rounds, g)
<1>1. lo \in Seq(Nat) /\ hi \in Seq(Nat) /\ Len(lo) = n /\ Len(hi) = n /\ n \in Nat \ {0}
  BY FS_CardinalityType, FS_EmptySet DEF InOrderOf
<1>2. rounds = n + n /\ rounds \in Nat /\ rounds # 0
  BY <1>1
<1>3. GetMaxOverlap(lo, hi) = after[rounds].max_overlap
  <2>1. Len(lo) # 0
    BY <1>1
  <2> QED BY <2>1 DEF GetMaxOverlap, Rounds, LoopStart
<1>4. after = Rounds(lo, hi, rounds, after)
  <2>1. \E g : g = Rounds(lo, hi, rounds, g)
    <3> HIDE DEF rounds
    <3> QED BY <1>1, <1>2, RoundsExist
  <2> HIDE DEF rounds
  <2> QED BY <2>1
<1> HIDE DEF after, rounds, n
<1>5. after[0] = LoopStart /\ LoopStart \in LoopState
  BY <1>2, <1>4 DEF Rounds, LoopStart, LoopState
<1>6. \A k \in 1 .. rounds : after[k] = NextRound(lo, hi, after[k - 1]) /\ k \in 0 .. rounds
                              /\ k \in Nat \ {0}
  BY <1>2, <1>4 DEF Rounds
<1>7. LoopStart.i = 1 /\ LoopStart.j = 1 /\ LoopStart.max_overlap = -1
  BY DEF LoopStart
<1> DEFINE Good(k) == /\ after[k] \in LoopState
                      /\ Sweeps(W, L, H, lo, hi, after[k].i, after[k].j, after[k].max_overlap, k)
           T == {k \in 0 .. rounds : Good(k)}
<1>8. Good(0)
  <2>1. Sweeps(W, L, H, lo, hi, 1, 1, -1, 0)
    BY <1>1 DEF Sweeps, n
  <2> QED BY <1>5, <1>7, <2>1
<1>9. ASSUME NEW k \in 1 .. rounds, Good(k - 1) PROVE Good(k)
  <2> DEFINE s == after[k - 1]
             t == after[k]
  <2>1. s \in LoopState /\ t = NextRound(lo, hi, s) /\ k \in Nat \ {0}
    BY <1>6, <1>9
  <2>2. Sweeps(W, L, H, lo, hi, s.i, s.j, s.max_overlap, k - 1)
    BY <1>9
  <2> HIDE DEF s, t
  <2>3. t \in LoopState
    BY <1>1, <2>1, RoundCases
  <2>4. Sweeps(W, L, H, lo, hi, t.i, t.j, t.max_overlap, k)
    BY <2>1, <2>2, SweepingRound
  <2> QED BY <2>3, <2>4 DEF t
<1> HIDE DEF Good
<1>10. 0 .. rounds \subseteq T
  <2>1. 0 \in T /\ \A k \in 1 .. rounds : k - 1 \in T => k \in T
    BY <1>2, <1>6, <1>8, <1>9
  <2> HIDE DEF T
  <2> QED BY <1>2, <2>1, UpTo
<1> DEFINE i == after[rounds].i
           l == after[rounds].j
           m == after[rounds].max_overlap
<1>11. i \in Int /\ l \in Int /\ m \in Int /\ Sweeps(W, L, H, lo, hi, i, l, m, rounds)
  <2>1. Good(rounds)
    BY <1>2, <1>10
  <2> QED BY <2>1 DEF Good, LoopState
<1> HIDE DEF i, l, m
<1>12. i = n + 1
  <2>1. i \in 1 .. n + 1 /\ l \in 1 .. n /\ (i <= n => i + l = rounds + 2)
    BY <1>11 DEF Sweeps, n
  <2> QED BY <1>1, <1>2, <2>1
<1>13. \A x \in Nat : /\ AtMost(W, L, x) \in Nat /\ AtMost(W, L, x) <= n
                      /\ Sharing(W, L, H, x) \in Nat
                      /\ Sharing(W, L, H, x) = AtMost(W, L, x) - LessThan(W, H, x)
                      /\ LessThan(W, H, x) \in Nat
                      /\ \A w \in W : L[w] <= x /\ x <= H[w] => Sharing(W, L, H, x) >= 1
  <2> SUFFICES ASSUME NEW x \in Nat
               PROVE  /\ AtMost(W, L, x) \in Nat /\ AtMost(W, L, x) <= n
                      /\ Sharing(W, L, H, x) \in Nat
                      /\ Sharing(W, L, H, x) = AtMost(W, L, x) - LessThan(W, H, x)
                      /\ LessThan(W, H, x) \in Nat
                      /\ \A w \in W : L[w] <= x /\ x <= H[w] => Sharing(W, L, H, x) >= 1
    OBVIOUS
  <2>1. x \in Int
    OBVIOUS
  <2>2. AtMost(W, L, x) \in Nat /\ AtMost(W, L, x) <= n
    BY <2>1, CountsGrow DEF n
  <2>3. LessThan(W, H, x) \in Nat
    BY <2>1, CountsGrow
  <2>4. /\ Sharing(W, L, H, x) \in Nat
        /\ Sharing(W, L, H, x) = AtMost(W, L, x) - LessThan(W, H, x)
        /\ \A w \in W : L[w] <= x /\ x <= H[w] => Sharing(W, L, H, x) >= 1
    BY <2>1, SharingIsDifference
  <2> QED BY <2>2, <2>3, <2>4
<1>14. PICK y \in Nat : m <= Sharing(W, L, H, y)
  BY <1>1, <1>11, <1>12 DEF Sweeps
<1>15. m >= 1
  <2>1. PICK w \in W : TRUE
    OBVIOUS
  <2>2. L[w] \in Nat /\ Sharing(W, L, H, L[w]) >= 1
    <3>1. L[w] \in Nat /\ L[w] <= L[w] /\ L[w] <= H[w]
      OBVIOUS
    <3> QED BY <1>13, <3>1
  <2>3. AtMost(W, L, L[w]) \in 1 .. i - 1
    <3>1. /\ AtMost(W, L, L[w]) \in Nat /\ AtMost(W, L, L[w]) <= n
          /\ AtMost(W, L, L[w]) >= Sharing(W, L, H, L[w])
      BY <1>13, <2>2
    <3>2. Sharing(W, L, H, L[w]) \in Nat
      BY <1>13, <2>2
    <3> QED BY <1>1, <1>12, <2>2, <3>1, <3>2
  <2>4. Sharing(W, L, H, L[w]) <= m
    BY <1>11, <2>2, <2>3 DEF Sweeps
  <2> QED BY <1>11, <1>13, <2>2, <2>4
<1>16. ASSUME NEW x \in Nat PROVE Sharing(W, L, H, x) <= m
  <2>1. CASE AtMost(W, L, x) = 0
    <3>1. Sharing(W, L, H, x) = 0
      BY <1>13, <2>1
    <3> QED BY <1>11, <1>15, <3>1
  <2>2. CASE AtMost(W, L, x) # 0
    <3>1. AtMost(W, L, x) \in 1 .. i - 1
      <4>1. AtMost(W, L, x) \in Nat /\ AtMost(W, L, x) <= n
        BY ONLY <1>13, <1>16
      <4> QED BY <1>1, <1>12, <2>2, <4>1
    <3> QED BY <1>11, <3>1 DEF Sweeps
  <2> QED BY <2>1, <2>2
<1>17. Sharing(W, L, H, y) = m
  BY <1>11, <1>13, <1>14, <1>16
<1> QED BY <1>3, <1>11, <1>15, <1>16, <1>17 DEF m

\* Values chosen by their rank are the values in increasing order.
LEMMA SortedByValue ==
  ASSUME NEW W, IsFiniteSet(W), NEW v \in [W -> Nat],
         NEW s, s = [i \in 1 .. Cardinality(W) |-> s[i]],
         \A i \in 1 .. Cardinality(W) : (\E x : IsNth(W, v, i, x)) => IsNth(W, v, i, s[i])
  PROVE  InOrderOf(s, W, v)
<1> DEFINE n == Cardinality(W)
<1>1. n \in Nat
  BY FS_CardinalityType
<1>2. \A i \in 1 .. n : IsNth(W, v, i, s[i])
  BY NthExists
<1>3. \A i \in 1 .. n : s[i] \in Nat
  BY <1>2 DEF IsNth
<1> HIDE DEF n
<1>4. s \in [1 .. n -> Nat]
  BY <1>3 DEF n
<1>5. s \in Seq(Nat) /\ Len(s) = n
  BY ONLY <1>1, <1>4
<1> QED BY <1>2, <1>5 DEF InOrderOf, n

\* How many different rules of S have x in their interval of the first field.
Different(S, x) == Cardinality({range[r] : r \in {s \in S : Low(s, 1) <= x /\ x <= High(s, 1)}})

\* Fewer rules are not more different ones.
LEMMA ImageGrows ==
  ASSUME NEW T \in SUBSET Rule, NEW S \in SUBSET T
  PROVE  /\ Cardinality({range[r] : r \in S}) \in Nat
         /\ Cardinality({range[r] : r \in S}) <= Cardinality({range[r] : r \in T})
<1>1. IsFiniteSet(T)
  BY RulesAssumption, FS_Subset
<1> DEFINE A == {range[r] : r \in T}
           B == {range[r] : r \in S}
<1>2. IsFiniteSet(A)
  <2>1. [r \in T |-> range[r]] \in Surjection(T, A)
    BY DEF Surjection
  <2> HIDE DEF A
  <2> QED BY <1>1, <2>1, FS_Surjection
<1>3. B \in SUBSET A
  OBVIOUS
<1> HIDE DEF A, B
<1>4. IsFiniteSet(B) /\ Cardinality(B) <= Cardinality(A) /\ Cardinality(B) \in Nat
  BY <1>2, <1>3, FS_Subset, FS_CardinalityType
<1> QED BY <1>4 DEF A, B

\* Without identical rules the different ones are all of them.
LEMMA DifferentIsSharing ==
  ASSUME NEW S \in SUBSET Rule, NEW V \in RedundancyRemoval(S), NEW x \in Int
  PROVE  Different(S, x) = Sharing(V, [r \in V |-> Low(r, 1)], [r \in V |-> High(r, 1)], x)
<1> DEFINE A == {r \in V : Low(r, 1) <= x /\ x <= High(r, 1)}
           B == {range[r] : r \in {s \in S : Low(s, 1) <= x /\ x <= High(s, 1)}}
           f == [r \in A |-> range[r]]
<1>1. V \in SUBSET S /\ (\A r, s \in V : IsIdentical(r, s) => r = s)
      /\ (\A r \in S : \E s \in V : IsIdentical(r, s))
  BY DEF RedundancyRemoval
<1>2. \A r, s \in Rule : IsIdentical(r, s) <=> range[r] = range[s]
  <2> SUFFICES ASSUME NEW r \in Rule, NEW s \in Rule PROVE IsIdentical(r, s) <=> range[r] = range[s]
    OBVIOUS
  <2>1. range[r] \in [Field -> Nat \X Nat] /\ range[s] \in [Field -> Nat \X Nat]
    BY RulesAssumption
  <2> QED BY <2>1 DEF IsIdentical
<1>3. \A r, s : range[r] = range[s] => Low(r, 1) = Low(s, 1) /\ High(r, 1) = High(s, 1)
  BY DEF Low, High
<1>4. f \in Surjection(A, B) /\ f \in Injection(A, B)
  <2>1. \A r \in A : range[r] \in B
    BY <1>1
  <2>2. \A q \in B : \E r \in A : range[r] = q
    <3> SUFFICES ASSUME NEW s \in S, Low(s, 1) <= x, x <= High(s, 1) PROVE \E r \in A : range[r] = range[s]
      OBVIOUS
    <3>1. PICK r \in V : IsIdentical(s, r)
      BY <1>1
    <3>2. range[s] = range[r]
      BY <1>1, <1>2, <3>1
    <3>3. r \in A
      BY <1>3, <3>2
    <3> QED BY <3>2, <3>3
  <2>3. \A r, s \in A : range[r] = range[s] => r = s
    BY <1>1, <1>2
  <2>4. f \in [A -> B] /\ \A r \in A : f[r] = range[r]
    BY <2>1
  <2> HIDE DEF A, B, f
  <2> QED BY <2>2, <2>3, <2>4 DEF Surjection, Injection, IsInjective
<1>5. IsFiniteSet(A)
  <2>1. A \in SUBSET Rule
    BY <1>1
  <2> HIDE DEF A
  <2> QED BY <2>1, RulesAssumption, FS_Subset
<1>6. Cardinality(B) = Cardinality(A)
  <2> HIDE DEF A, B, f
  <2> QED BY <1>4, <1>5, FS_Surjection
<1>7. Sharing(V, [r \in V |-> Low(r, 1)], [r \in V |-> High(r, 1)], x) = Cardinality(A)
  <2> DEFINE L == [r \in V |-> Low(r, 1)]
             H == [r \in V |-> High(r, 1)]
  <2>1. A = {w \in V : L[w] <= x /\ x <= H[w]}
    OBVIOUS
  <2> HIDE DEF A, L, H
  <2> QED BY <2>1 DEF Sharing, L, H
<1> QED BY <1>6, <1>7 DEF Different

\* There is a way to remove the redundancy.
LEMMA RedundancyCanBeRemoved ==
  ASSUME NEW S \in SUBSET Rule
  PROVE  RedundancyRemoval(S) # {}
<1> DEFINE first(r) == CHOOSE s \in S : IsIdentical(r, s)
           V == {first(r) : r \in S}
<1>1. \A r, s \in Rule : IsIdentical(r, s) <=> range[r] = range[s]
  <2> SUFFICES ASSUME NEW r \in Rule, NEW s \in Rule PROVE IsIdentical(r, s) <=> range[r] = range[s]
    OBVIOUS
  <2>1. range[r] \in [Field -> Nat \X Nat] /\ range[s] \in [Field -> Nat \X Nat]
    BY RulesAssumption
  <2> QED BY <2>1 DEF IsIdentical
<1>2. \A r \in S : first(r) \in S /\ IsIdentical(r, first(r))
  <2> SUFFICES ASSUME NEW r \in S PROVE \E s \in S : IsIdentical(r, s)
    OBVIOUS
  <2>1. IsIdentical(r, r)
    BY DEF IsIdentical
  <2> QED BY <2>1
<1>3. \A r, s \in S : range[r] = range[s] => first(r) = first(s)
  <2> SUFFICES ASSUME NEW r \in S, NEW s \in S, range[r] = range[s] PROVE first(r) = first(s)
    OBVIOUS
  <2>1. \A t \in S : IsIdentical(r, t) <=> IsIdentical(s, t)
    BY <1>1
  <2> QED BY <2>1
<1> HIDE DEF first
<1>4. \A r, s \in V : IsIdentical(r, s) => r = s
  <2> SUFFICES ASSUME NEW r \in S, NEW s \in S, IsIdentical(first(r), first(s)) PROVE first(r) = first(s)
    OBVIOUS
  <2>1. range[r] = range[s]
    BY <1>1, <1>2
  <2> QED BY <1>3, <2>1
<1>5. V \in SUBSET S /\ \A r \in S : \E s \in V : IsIdentical(r, s)
  BY <1>2
<1> HIDE DEF V
<1>6. V \in RedundancyRemoval(S)
  BY <1>4, <1>5 DEF RedundancyRemoval
<1> QED BY <1>6

\* The call one field down returns the number of different rules at a busiest
\* point of the first field.
LEMMA BelowIsBusiest ==
  ASSUME NEW S \in SUBSET Rule
  PROVE  LET m == MaxIntersectionBelow(S)
         IN  /\ m \in Nat
             /\ \A x \in Nat : Different(S, x) <= m
             /\ \E x \in Nat : Different(S, x) = m
<1> DEFINE LowOf(r) == Low(r, 1)
           HighOf(r) == High(r, 1)
           overlaps == {GetMaxOverlap(Sorted(V, LowOf), Sorted(V, HighOf)) : V \in RedundancyRemoval(S)}
           m == MaxIntersectionBelow(S)
<1>1. m \in overlaps
  <2>1. m = CHOOSE n \in overlaps : TRUE
    BY DEF MaxIntersectionBelow
  <2>2. overlaps # {}
    BY RedundancyCanBeRemoved
  <2> HIDE DEF overlaps, m
  <2> QED BY <2>1, <2>2
<1>2. PICK V \in RedundancyRemoval(S) : m = GetMaxOverlap(Sorted(V, LowOf), Sorted(V, HighOf))
  BY <1>1
<1> HIDE DEF m
<1> DEFINE L == [r \in V |-> Low(r, 1)]
           H == [r \in V |-> High(r, 1)]
           lo == Sorted(V, LowOf)
           hi == Sorted(V, HighOf)
<1>3. V \in SUBSET Rule /\ 1 \in Field
  BY RulesAssumption DEF RedundancyRemoval, Field
<1>4. IsFiniteSet(V)
  BY <1>3, RulesAssumption, FS_Subset
<1>5. L \in [V -> Nat] /\ H \in [V -> Nat] /\ \A r \in V : L[r] <= H[r]
  <2>1. \A r \in V : range[r][1] \in Nat \X Nat
    BY <1>3, RulesAssumption
  <2>2. \A r \in V : Low(r, 1) \in Nat /\ High(r, 1) \in Nat /\ Low(r, 1) <= High(r, 1)
    BY <1>3, <2>1, IntervalAssumption DEF Low, High
  <2> QED BY <2>2
<1>6. InOrderOf(lo, V, L)
  <2> DEFINE X == {Low(r, 1) : r \in V}
             Is(i, x) == /\ Cardinality({r \in V : Low(r, 1) < x}) < i
                         /\ i <= Cardinality({r \in V : Low(r, 1) <= x})
  <2>1. lo = [i \in 1 .. Cardinality(V) |-> CHOOSE x \in X : Is(i, x)]
    BY DEF Sorted
  <2>2. X = {L[w] : w \in V}
    OBVIOUS
  <2>3. \A x : {r \in V : Low(r, 1) < x} = {w \in V : L[w] < x}
              /\ {r \in V : Low(r, 1) <= x} = {w \in V : L[w] <= x}
    OBVIOUS
  <2> HIDE DEF L, lo, X
  <2>4. \A i, x : IsNth(V, L, i, x) <=> x \in X /\ Is(i, x)
    BY <2>2, <2>3 DEF IsNth, LessThan, AtMost
  <2> HIDE DEF Is
  <2>5. lo = [i \in 1 .. Cardinality(V) |-> lo[i]]
        /\ \A i \in 1 .. Cardinality(V) : lo[i] = CHOOSE x \in X : Is(i, x)
    BY <2>1
  <2>6. \A i \in 1 .. Cardinality(V) : (\E x : IsNth(V, L, i, x)) => IsNth(V, L, i, lo[i])
    BY <2>4, <2>5
  <2> QED BY <1>4, <1>5, <2>5, <2>6, SortedByValue
<1>7. InOrderOf(hi, V, H)
  <2> DEFINE X == {High(r, 1) : r \in V}
             Is(i, x) == /\ Cardinality({r \in V : High(r, 1) < x}) < i
                         /\ i <= Cardinality({r \in V : High(r, 1) <= x})
  <2>1. hi = [i \in 1 .. Cardinality(V) |-> CHOOSE x \in X : Is(i, x)]
    BY DEF Sorted
  <2>2. X = {H[w] : w \in V}
    OBVIOUS
  <2>3. \A x : {r \in V : High(r, 1) < x} = {w \in V : H[w] < x}
              /\ {r \in V : High(r, 1) <= x} = {w \in V : H[w] <= x}
    OBVIOUS
  <2> HIDE DEF H, hi, X
  <2>4. \A i, x : IsNth(V, H, i, x) <=> x \in X /\ Is(i, x)
    BY <2>2, <2>3 DEF IsNth, LessThan, AtMost
  <2> HIDE DEF Is
  <2>5. hi = [i \in 1 .. Cardinality(V) |-> hi[i]]
        /\ \A i \in 1 .. Cardinality(V) : hi[i] = CHOOSE x \in X : Is(i, x)
    BY <2>1
  <2>6. \A i \in 1 .. Cardinality(V) : (\E x : IsNth(V, H, i, x)) => IsNth(V, H, i, hi[i])
    BY <2>4, <2>5
  <2> QED BY <1>4, <1>5, <2>5, <2>6, SortedByValue
<1>8. \A x \in Int : Different(S, x) = Sharing(V, L, H, x)
  BY DifferentIsSharing
<1> HIDE DEF L, H, lo, hi
<1>9. InOrderOf(lo, V, L) /\ InOrderOf(hi, V, H)
  BY <1>6, <1>7
<1>10. m = GetMaxOverlap(lo, hi)
  BY <1>2 DEF lo, hi
<1>11. CASE V = {}
  <2>1. Len(lo) = 0
    BY <1>9, <1>11, FS_EmptySet DEF InOrderOf
  <2>2. m = 0
    BY <1>10, <2>1 DEF GetMaxOverlap
  <2>3. \A x \in Int : Sharing(V, L, H, x) = 0
    <3>1. \A x : {w \in V : L[w] <= x /\ x <= H[w]} = {}
      BY <1>11
    <3> QED BY <3>1, FS_EmptySet DEF Sharing
  <2> QED BY <1>8, <2>2, <2>3 DEF m
<1>12. CASE V # {}
  <2>1. /\ m \in Nat
        /\ \A x \in Nat : Sharing(V, L, H, x) <= m
        /\ \E x \in Nat : Sharing(V, L, H, x) = m
    BY <1>4, <1>5, <1>9, <1>10, <1>12, OverlapIsBusiest
  <2> QED BY <1>8, <2>1 DEF m
<1> QED BY <1>11, <1>12

------------------------------------------------------------------------------
(* The points of the sweep                                                 *)

\* s holds the pairs of a value and its position, by increasing values.
IsPairOrder(s, n, v) ==
    /\ s \in [1 .. n -> Nat \X (1 .. n)]
    /\ \A k \in 1 .. n : s[k][1] = v[s[k][2]]
    /\ \A i \in 1 .. n : \E k \in 1 .. n : s[k][2] = i
    /\ \A k, l \in 1 .. n : s[k][2] = s[l][2] => k = l
    /\ \A k, l \in 1 .. n : k <= l => s[k][1] <= s[l][1]

\* Sorting by rank puts the pairs in order.
LEMMA PairsInOrder ==
  ASSUME NEW n \in Nat, NEW v \in [1 .. n -> Nat]
  PROVE  IsPairOrder(InPairOrder({<<v[i], i>> : i \in 1 .. n}), n, v)
<1> DEFINE P == {<<v[i], i>> : i \in 1 .. n}
           s == InPairOrder(P)
           below(a) == {b \in P : b[1] < a[1] \/ (b[1] = a[1] /\ b[2] < a[2])}
           rank == [a \in P |-> Cardinality(below(a))]
<1>1. \A a \in P : a[1] \in Nat /\ a[2] \in 1 .. n /\ a[1] = v[a[2]] /\ a = <<a[1], a[2]>>
  OBVIOUS
<1>2. IsFiniteSet(P) /\ Cardinality(P) = n
  <2> DEFINE f == [i \in 1 .. n |-> <<v[i], i>>]
  <2>1. f \in Bijection(1 .. n, P)
    BY DEF Bijection, Injection, Surjection, IsInjective
  <2>2. IsFiniteSet(1 .. n) /\ Cardinality(1 .. n) = n
    BY FS_Interval
  <2> HIDE DEF P, f
  <2>3. ExistsBijection(1 .. n, P)
    BY <2>1 DEF ExistsBijection
  <2> QED BY <2>2, <2>3, FS_Bijection
<1>3. \A i \in 1 .. n : <<v[i], i>> \in P
  OBVIOUS
<1>4. s = [k \in 1 .. Cardinality(P) |-> CHOOSE a \in P : Cardinality(below(a)) = k - 1]
  BY DEF InPairOrder
<1> HIDE DEF P, s
<1>5. \A a \in P : /\ below(a) \in SUBSET P /\ a \notin below(a)
                   /\ IsFiniteSet(below(a)) /\ Cardinality(below(a)) \in Nat
  <2> SUFFICES ASSUME NEW a \in P
               PROVE  /\ below(a) \in SUBSET P /\ a \notin below(a)
                      /\ IsFiniteSet(below(a)) /\ Cardinality(below(a)) \in Nat
    OBVIOUS
  <2>1. below(a) \in SUBSET P /\ a \notin below(a)
    BY <1>1
  <2> HIDE DEF below
  <2> QED BY <1>2, <2>1, FS_Subset, FS_CardinalityType
<1>6. ASSUME NEW a \in P, NEW b \in P, a \in below(b)
      PROVE  Cardinality(below(a)) < Cardinality(below(b))
  <2>1. below(a) \cup {a} \in SUBSET below(b)
    <3>1. \A c \in below(a) : c \in below(b)
      BY <1>1, <1>6
    <3> HIDE DEF below
    <3> QED BY <1>6, <3>1
  <2> HIDE DEF below
  <2>2. Cardinality(below(a) \cup {a}) = Cardinality(below(a)) + 1
    <3>1. IsFiniteSet(below(a)) /\ a \notin below(a)
      BY <1>5
    <3> QED BY <3>1, FS_AddElement
  <2>3. Cardinality(below(a) \cup {a}) <= Cardinality(below(b))
    <3>1. IsFiniteSet(below(b))
      BY <1>5
    <3> QED BY <2>1, <3>1, FS_Subset
  <2> QED BY <1>5, <2>2, <2>3
<1>7. \A a, b \in P : a = b \/ a \in below(b) \/ b \in below(a)
  BY <1>1
<1>8. \A a, b \in P : Cardinality(below(a)) <= Cardinality(below(b)) => a[1] <= b[1]
  <2> SUFFICES ASSUME NEW a \in P, NEW b \in P, Cardinality(below(a)) <= Cardinality(below(b))
               PROVE  a[1] <= b[1]
    OBVIOUS
  <2>1. ~(b \in below(a))
    <3> HIDE DEF below
    <3> QED BY <1>5, <1>6
  <2> QED BY <1>1, <2>1
<1>9. \A a \in P : Cardinality(below(a)) \in 0 .. n - 1
  <2> SUFFICES ASSUME NEW a \in P PROVE Cardinality(below(a)) \in 0 .. n - 1
    OBVIOUS
  <2> HIDE DEF below
  <2>1. below(a) \cup {a} \in SUBSET P
    BY <1>5
  <2>2. Cardinality(below(a) \cup {a}) = Cardinality(below(a)) + 1
    <3>1. IsFiniteSet(below(a)) /\ a \notin below(a)
      BY <1>5
    <3> QED BY <3>1, FS_AddElement
  <2>3. Cardinality(below(a) \cup {a}) <= n
    BY <1>2, <2>1, FS_Subset
  <2> QED BY <1>5, <2>2, <2>3
<1>10. \A a, b \in P : Cardinality(below(a)) = Cardinality(below(b)) => a = b
  <2> SUFFICES ASSUME NEW a \in P, NEW b \in P, Cardinality(below(a)) = Cardinality(below(b))
               PROVE  a = b
    OBVIOUS
  <2>1. ~(a \in below(b)) /\ ~(b \in below(a))
    <3> HIDE DEF below
    <3> QED BY <1>5, <1>6
  <2> QED BY <1>7, <2>1
<1> HIDE DEF below
<1>11. \A k \in 1 .. n : \E a \in P : Cardinality(below(a)) = k - 1
  <2>1. rank \in Injection(P, 0 .. n - 1) /\ \A a \in P : rank[a] = Cardinality(below(a))
    BY <1>9, <1>10 DEF Injection, IsInjective
  <2>2. IsFiniteSet(0 .. n - 1) /\ Cardinality(0 .. n - 1) = n
    <3>1. IsFiniteSet(0 .. n - 1) /\ Cardinality(0 .. n - 1) = IF 0 > n - 1 THEN 0 ELSE (n - 1) - 0 + 1
      BY FS_Interval
    <3> QED BY <3>1
  <2> HIDE DEF rank
  <2>3. rank \in Surjection(P, 0 .. n - 1)
    BY <1>2, <2>1, <2>2, FS_Injection
  <2> QED BY <2>1, <2>3 DEF Surjection
<1>12. /\ s = [k \in 1 .. n |-> s[k]]
       /\ \A k \in 1 .. n : s[k] \in P /\ Cardinality(below(s[k])) = k - 1
  <2>1. s = [k \in 1 .. n |-> CHOOSE a \in P : Cardinality(below(a)) = k - 1]
    BY <1>2, <1>4
  <2> QED BY <1>11, <2>1
<1>13. s \in [1 .. n -> Nat \X (1 .. n)] /\ \A k \in 1 .. n : s[k][1] = v[s[k][2]]
  <2>1. \A k \in 1 .. n : s[k] \in Nat \X (1 .. n) /\ s[k][1] = v[s[k][2]]
    BY <1>1, <1>12
  <2> QED BY <1>12, <2>1
<1>14. ASSUME NEW i \in 1 .. n PROVE \E k \in 1 .. n : s[k][2] = i
  <2> DEFINE a == <<v[i], i>>
             k == Cardinality(below(a)) + 1
  <2>1. a \in P /\ a[2] = i
    BY <1>3
  <2> HIDE DEF a
  <2>2. k \in 1 .. n /\ Cardinality(below(a)) = k - 1
    BY <1>9, <2>1
  <2> HIDE DEF k
  <2>3. s[k] = a
    BY <1>10, <1>12, <2>1, <2>2
  <2> QED BY <2>1, <2>2, <2>3
<1>15. ASSUME NEW k \in 1 .. n, NEW l \in 1 .. n, s[k][2] = s[l][2] PROVE k = l
  <2>1. s[k] \in P /\ s[l] \in P /\ Cardinality(below(s[k])) = k - 1 /\ Cardinality(below(s[l])) = l - 1
    BY <1>12
  <2>2. s[k] = s[l]
    BY <1>1, <1>15, <2>1
  <2> QED BY <2>1, <2>2
<1>16. ASSUME NEW k \in 1 .. n, NEW l \in 1 .. n, k <= l PROVE s[k][1] <= s[l][1]
  <2>1. s[k] \in P /\ s[l] \in P /\ Cardinality(below(s[k])) <= Cardinality(below(s[l]))
    BY <1>12, <1>16
  <2> QED BY <1>8, <2>1
<1>17. IsPairOrder(s, n, v)
  BY <1>13, <1>14, <1>15, <1>16 DEF IsPairOrder
<1> QED BY <1>17 DEF s, P

\* No value lies between two neighbours of the sorted values, or beyond the ends.
LEMMA NothingBetween ==
  ASSUME NEW W, IsFiniteSet(W), NEW v \in [W -> Nat], NEW s, InOrderOf(s, W, v)
  PROVE  LET n == Cardinality(W)
         IN  /\ \A q \in 1 .. n : s[q] \in Nat
             /\ \A q \in 1 .. n - 1 : s[q] <= s[q + 1]
             /\ \A q \in 1 .. n - 1, w \in W : v[w] <= s[q] \/ s[q + 1] <= v[w]
             /\ \A w \in W : n >= 1 => s[1] <= v[w] /\ v[w] <= s[n]
<1> DEFINE n == Cardinality(W)
<1>1. n \in Nat
  BY FS_CardinalityType
<1>2. ASSUME NEW q \in 1 .. n
      PROVE  s[q] \in Nat /\ \A x \in Int : s[q] <= x <=> q <= AtMost(W, v, x)
  <2>1. q \in Int /\ IsNth(W, v, q, s[q])
    BY DEF InOrderOf
  <2> QED BY <2>1, NthBound
<1>3. \A x \in Int : /\ AtMost(W, v, x) \in Nat /\ AtMost(W, v, x) <= n
                     /\ LessThan(W, v, x) = AtMost(W, v, x - 1) /\ LessThan(W, v, x) \in Nat
  BY CountsGrow
<1>4. ASSUME NEW w \in W PROVE v[w] \in Nat /\ AtMost(W, v, v[w]) >= LessThan(W, v, v[w]) + 1
  <2> DEFINE y == v[w]
             A == {u \in W : v[u] < y}
             B == {u \in W : v[u] <= y}
  <2>1. y \in Nat /\ A \cup {w} \in SUBSET B /\ w \notin A /\ A \in SUBSET W /\ B \in SUBSET W
    OBVIOUS
  <2>2. LessThan(W, v, y) = Cardinality(A) /\ AtMost(W, v, y) = Cardinality(B)
    BY DEF LessThan, AtMost
  <2> HIDE DEF A, B, y
  <2>3. IsFiniteSet(A) /\ IsFiniteSet(B) /\ Cardinality(A) \in Nat /\ Cardinality(B) \in Nat
    BY <2>1, FS_Subset, FS_CardinalityType
  <2>4. Cardinality(A \cup {w}) = Cardinality(A) + 1
    BY <2>1, <2>3, FS_AddElement
  <2>5. Cardinality(A \cup {w}) <= Cardinality(B)
    BY <2>1, <2>3, FS_Subset
  <2> QED BY <2>1, <2>2, <2>3, <2>4, <2>5 DEF y
<1> HIDE DEF n
<1>5. ASSUME NEW q \in 1 .. n - 1 PROVE s[q] <= s[q + 1]
  <2>1. q \in 1 .. n /\ q + 1 \in 1 .. n
    BY <1>1
  <2>2. s[q + 1] \in Nat /\ q + 1 <= AtMost(W, v, s[q + 1])
    BY <1>2, <2>1
  <2>3. q <= AtMost(W, v, s[q + 1])
    BY <1>3, <2>2
  <2> QED BY <1>2, <2>1, <2>2, <2>3
<1>6. ASSUME NEW q \in 1 .. n - 1, NEW w \in W PROVE v[w] <= s[q] \/ s[q + 1] <= v[w]
  <2> SUFFICES ASSUME ~(v[w] <= s[q]), ~(s[q + 1] <= v[w]) PROVE FALSE
    OBVIOUS
  <2>1. q \in 1 .. n /\ q + 1 \in 1 .. n /\ v[w] \in Nat /\ s[q] \in Nat /\ v[w] - 1 \in Int
    BY <1>1, <1>2, <1>4
  <2>2. s[q] <= v[w] - 1
    BY <2>1
  <2>3. q <= LessThan(W, v, v[w])
    BY <1>2, <1>3, <2>1, <2>2
  <2>4. ~(q + 1 <= AtMost(W, v, v[w]))
    BY <1>2, <2>1
  <2>5. AtMost(W, v, v[w]) \in Nat /\ LessThan(W, v, v[w]) \in Nat
    BY <1>3, <2>1
  <2> QED BY <1>4, <2>1, <2>3, <2>4, <2>5
<1>7. ASSUME NEW w \in W, n >= 1 PROVE s[1] <= v[w] /\ v[w] <= s[n]
  <2>1. 1 \in 1 .. n /\ n \in 1 .. n /\ v[w] \in Nat
    BY <1>1, <1>4, <1>7
  <2>2. s[n] \in Nat /\ n <= AtMost(W, v, s[n])
    BY <1>2, <2>1
  <2>3. 1 <= AtMost(W, v, v[w])
    BY <1>3, <1>4, <2>1
  <2>4. s[1] <= v[w]
    BY <1>2, <2>1, <2>3
  <2> DEFINE B == {u \in W : v[u] <= s[n]}
  <2>5. B \in SUBSET W /\ Cardinality(B) = AtMost(W, v, s[n])
    BY DEF AtMost
  <2>6. Cardinality(B) = n
    <3>1. AtMost(W, v, s[n]) \in Nat /\ AtMost(W, v, s[n]) <= n
      BY <1>3, <2>2
    <3> QED BY <1>1, <2>2, <2>5, <3>1
  <2>7. B = W
    <3>1. Cardinality(B) = Cardinality(W)
      BY <2>6 DEF n
    <3> HIDE DEF B
    <3> QED BY <2>5, <3>1, FS_Subset
  <2> QED BY <2>4, <2>7
<1> QED BY <1>2, <1>5, <1>6, <1>7 DEF n

------------------------------------------------------------------------------
(* The vector of open rules                                                *)

\* The two arrays know where the elements of the vector s are.
IndexFits(s, index, inverse, n) ==
    /\ s \in Seq(1 .. n) /\ Distinct(s) /\ Len(s) <= n
    /\ index \in [1 .. n -> 0 .. n] /\ inverse \in [1 .. n -> 0 .. n]
    /\ \A k \in DOMAIN s : inverse[k] = s[k] /\ index[s[k]] = k

\* A vector of different positions is not longer than there are positions.
LEMMA DistinctIsShort ==
  ASSUME NEW n \in Nat, NEW s \in Seq(1 .. n), Distinct(s)
  PROVE  Len(s) <= n
<1>1. Len(s) \in Nat /\ DOMAIN s = 1 .. Len(s) /\ s \in [1 .. Len(s) -> 1 .. n]
  OBVIOUS
<1>2. s \in Injection(1 .. Len(s), 1 .. n)
  BY <1>1 DEF Injection, IsInjective, Distinct
<1>3. \A k \in Nat : IsFiniteSet(1 .. k) /\ Cardinality(1 .. k) = k
  BY FS_Interval
<1> QED BY <1>1, <1>2, <1>3, FS_Injection

\* What InsertOne does to the vector and the arrays.
Appends(s, index, inverse, i, z, index2, inverse2) ==
    LET last == Len(s) + 1
    IN  /\ index2 = [index EXCEPT ![i] = last]
        /\ inverse2 = [inverse EXCEPT ![last] = i]
        /\ z = Append(s, i)

\* A position is appended and registered.
LEMMA AppendFits ==
  ASSUME NEW n \in Nat, NEW s, NEW index, NEW inverse, IndexFits(s, index, inverse, n),
         NEW i \in 1 .. n, i \notin Elements(s), NEW z, NEW index2, NEW inverse2,
         Appends(s, index, inverse, i, z, index2, inverse2)
  PROVE  IndexFits(z, index2, inverse2, n) /\ Elements(z) = Elements(s) \cup {i}
<1> DEFINE last == Len(s) + 1
<1>1. /\ index2 = [index EXCEPT ![i] = last] /\ inverse2 = [inverse EXCEPT ![last] = i]
      /\ z = Append(s, i) /\ last = Len(s) + 1
  BY DEF Appends
<1> HIDE DEF last
<1>2. /\ s \in Seq(1 .. n) /\ Distinct(s)
      /\ index \in [1 .. n -> 0 .. n] /\ inverse \in [1 .. n -> 0 .. n]
      /\ \A k \in DOMAIN s : inverse[k] = s[k] /\ index[s[k]] = k
  BY DEF IndexFits
<1>3. /\ z \in Seq(1 .. n) /\ Len(z) = last /\ Distinct(z) /\ Elements(z) = Elements(s) \cup {i}
  <2>1. s \in Seq(1 .. n) /\ Distinct(s) /\ i \in 1 .. n /\ i \notin Elements(s)
    BY <1>2
  <2> QED BY ONLY <1>1, <2>1, AppendDistinct
<1>4. z[last] = i /\ \A k \in DOMAIN s : z[k] = s[k] /\ k # last /\ s[k] \in 1 .. n /\ k \in Nat
  <2>1. s \in Seq(1 .. n) /\ i \in 1 .. n /\ last = Len(s) + 1 /\ z = Append(s, i)
    BY <1>1, <1>2
  <2>2. DOMAIN s = 1 .. Len(s) /\ Len(s) \in Nat /\ \A k \in DOMAIN s : s[k] \in 1 .. n
    BY ONLY <2>1
  <2>3. Append(s, i)[Len(s) + 1] = i /\ \A k \in DOMAIN s : Append(s, i)[k] = s[k]
    BY ONLY <2>1, <2>2, AppendProperties
  <2> QED BY ONLY <2>1, <2>2, <2>3
<1>5. last \in 1 .. n /\ DOMAIN z = (DOMAIN s) \cup {last}
  <2>1. Len(s) \in Nat /\ DOMAIN s = 1 .. Len(s) /\ DOMAIN z = 1 .. last
    BY <1>2, <1>3
  <2>2. last <= n
    BY <1>3, DistinctIsShort
  <2>3. last = Len(s) + 1 /\ n \in Nat
    BY <1>1
  <2> QED BY ONLY <2>1, <2>2, <2>3
<1>6. index2 \in [1 .. n -> 0 .. n] /\ inverse2 \in [1 .. n -> 0 .. n]
  <2>1. i \in 1 .. n /\ last \in 0 .. n /\ i \in 0 .. n
    BY <1>5
  <2> QED BY ONLY <1>1, <1>2, <2>1
<1>7. ASSUME NEW k \in DOMAIN z PROVE inverse2[k] = z[k] /\ index2[z[k]] = k
  <2>1. CASE k = last
    <3>1. i \in 1 .. n /\ last \in 1 .. n /\ last \in 0 .. n
      BY <1>5
    <3>2. inverse2[last] = i /\ index2[i] = last
      BY ONLY <1>1, <1>2, <3>1
    <3> QED BY ONLY <1>4, <2>1, <3>2
  <2>2. CASE k # last
    <3>1. k \in DOMAIN s /\ s[k] # i
      BY <1>5, <2>2 DEF Elements
    <3>2. k \in 1 .. n
      <4>1. DOMAIN s = 1 .. Len(s) /\ Len(s) \in Nat
        BY ONLY <1>2
      <4>2. Len(s) <= n /\ n \in Nat
        BY DEF IndexFits
      <4> QED BY ONLY <3>1, <4>1, <4>2
    <3>3. z[k] = s[k] /\ inverse[k] = s[k] /\ index[s[k]] = k /\ s[k] \in 1 .. n
      BY ONLY <1>2, <1>4, <3>1
    <3>4. inverse2[k] = inverse[k]
      BY ONLY <1>1, <1>2, <2>2, <3>2
    <3>5. index2[s[k]] = index[s[k]]
      BY ONLY <1>1, <1>2, <3>1, <3>3
    <3> QED BY ONLY <3>3, <3>4, <3>5
  <2> QED BY <2>1, <2>2
<1>8. Len(z) <= n
  BY <1>3, <1>5
<1>9. IndexFits(z, index2, inverse2, n)
  BY <1>3, <1>6, <1>7, <1>8 DEF IndexFits
<1> QED BY <1>3, <1>9

\* What DeleteOne does to the vector and the arrays.
Removes(s, index, inverse, i, z, index2, inverse2) ==
    LET last == Len(s)
        swapped == inverse[last]
    IN  /\ inverse2 = [inverse EXCEPT ![index[i]] = swapped]
        /\ index2 = [index EXCEPT ![swapped] = index[i]]
        /\ z = SubSeq([s EXCEPT ![index2[i]] = s[last]], 1, last - 1)

\* The last element takes the place of the one removed.
LEMMA RemovalFits ==
  ASSUME NEW n \in Nat, NEW s, NEW index, NEW inverse, IndexFits(s, index, inverse, n),
         NEW i \in Elements(s), NEW z, NEW index2, NEW inverse2,
         Removes(s, index, inverse, i, z, index2, inverse2)
  PROVE  IndexFits(z, index2, inverse2, n) /\ Elements(z) = Elements(s) \ {i}
<1> DEFINE d == index[i]
           last == Len(s)
           swapped == inverse[last]
<1>1. /\ d = index[i] /\ last = Len(s) /\ swapped = inverse[last] /\ n \in Nat
  OBVIOUS
<1>2. /\ inverse2 = [inverse EXCEPT ![d] = swapped] /\ index2 = [index EXCEPT ![swapped] = d]
      /\ z = SubSeq([s EXCEPT ![index2[i]] = s[last]], 1, last - 1)
  BY DEF Removes
<1> HIDE DEF d, last, swapped
<1>3. /\ s \in Seq(1 .. n) /\ Distinct(s) /\ Len(s) <= n /\ Len(s) \in Nat /\ DOMAIN s = 1 .. Len(s)
      /\ index \in [1 .. n -> 0 .. n] /\ inverse \in [1 .. n -> 0 .. n]
      /\ \A k \in DOMAIN s : inverse[k] = s[k] /\ index[s[k]] = k /\ s[k] \in 1 .. n /\ k \in 1 .. n
  <2>1. /\ s \in Seq(1 .. n) /\ Distinct(s) /\ Len(s) <= n
        /\ index \in [1 .. n -> 0 .. n] /\ inverse \in [1 .. n -> 0 .. n]
        /\ \A k \in DOMAIN s : inverse[k] = s[k] /\ index[s[k]] = k
    BY DEF IndexFits
  <2>2. Len(s) \in Nat /\ DOMAIN s = 1 .. Len(s) /\ \A k \in DOMAIN s : s[k] \in 1 .. n
    BY ONLY <2>1
  <2>3. \A k \in DOMAIN s : k \in 1 .. n
    BY ONLY <2>1, <2>2, n \in Nat
  <2> QED BY <2>1, <2>2, <2>3
<1>4. d \in DOMAIN s /\ s[d] = i /\ i \in 1 .. n
  BY <1>3, <1>1 DEF Elements
<1>5. last \in DOMAIN s /\ swapped = s[last] /\ swapped \in 1 .. n
  <2>1. last \in DOMAIN s
    BY ONLY <1>3, <1>4, <1>1
  <2> QED BY ONLY <1>3, <1>1, <2>1
<1>6. index2 \in [1 .. n -> 0 .. n] /\ inverse2 \in [1 .. n -> 0 .. n]
  <2>1. d \in 0 .. n /\ swapped \in 0 .. n
    BY <1>3, <1>4, <1>5
  <2> QED BY ONLY <1>3, <1>2, <2>1
<1>7. index2[i] = d /\ index2[swapped] = d /\ \A k \in 1 .. n : k # swapped => index2[k] = index[k]
  BY ONLY <1>3, <1>4, <1>5, <1>1, <1>2
<1>8. inverse2[d] = swapped /\ \A k \in 1 .. n : k # d => inverse2[k] = inverse[k]
  <2>1. d \in 1 .. n
    BY ONLY <1>3, <1>4
  <2> QED BY ONLY <1>3, <1>2, <2>1
<1>9. z = SubSeq([s EXCEPT ![d] = s[Len(s)]], 1, Len(s) - 1)
  BY ONLY <1>7, <1>1, <1>2
<1>10. /\ z \in Seq(1 .. n) /\ Len(z) = Len(s) - 1 /\ DOMAIN z = 1 .. Len(s) - 1
      /\ \A k \in DOMAIN z : z[k] = IF k = d THEN s[Len(s)] ELSE s[k]
  <2>1. s \in Seq(1 .. n) /\ d \in DOMAIN s
    BY ONLY <1>3, <1>4
  <2> QED BY ONLY <1>9, <2>1, RemovalProperties
<1>11. Distinct(z) /\ Elements(z) = Elements(s) \ {i}
  BY ONLY <1>3, <1>4, <1>9, RemovalDistinct
<1>12. ASSUME NEW k \in DOMAIN z PROVE inverse2[k] = z[k] /\ index2[z[k]] = k
  <2>0. k \in DOMAIN z
    OBVIOUS
  <2>1. k \in DOMAIN s /\ k # last /\ k \in 1 .. n
    <3>1. k \in 1 .. last - 1
      BY ONLY <1>10, <1>1, <2>0
    <3>2. last \in Nat /\ DOMAIN s = 1 .. last /\ last <= n
      BY ONLY <1>3, <1>1
    <3> QED BY ONLY <3>1, <3>2, n \in Nat
  <2>2. CASE k = d
    <3>1. z[k] = s[last]
      BY ONLY <1>10, <1>1, <2>0, <2>2
    <3> QED BY ONLY <1>5, <1>7, <1>8, <2>2, <3>1
  <2>3. CASE k # d
    <3>1. z[k] = s[k] /\ s[k] # swapped /\ s[k] \in 1 .. n
      <4>1. z[k] = s[k] /\ s[k] \in 1 .. n
        BY ONLY <1>3, <1>10, <2>0, <2>1, <2>3
      <4>2. s[k] # s[last]
        BY ONLY <1>3, <1>5, <2>1 DEF Distinct
      <4> QED BY ONLY <1>5, <4>1, <4>2
    <3>2. inverse2[k] = inverse[k] /\ index2[s[k]] = index[s[k]]
      BY ONLY <1>7, <1>8, <2>1, <2>3, <3>1
    <3> QED BY ONLY <1>3, <2>1, <3>1, <3>2
  <2> QED BY <2>2, <2>3
<1>13. Len(z) <= n
  BY <1>3, <1>10
<1>14. IndexFits(z, index2, inverse2, n)
  BY <1>6, <1>10, <1>11, <1>12, <1>13 DEF IndexFits
<1> QED BY <1>11, <1>14

------------------------------------------------------------------------------
(* The sweep of ComputeMaxIntersection                                     *)

\* The bounds of the rules in the last field, by position.
LastLow == [i \in 1 .. N |-> Low(ruleset[i], Dim)]
LastHigh == [i \in 1 .. N |-> High(ruleset[i], Dim)]

\* The points that the sweep visits.
PointsFit ==
    /\ LastLow \in [1 .. N -> Nat] /\ LastHigh \in [1 .. N -> Nat]
    /\ \A i \in 1 .. N : LastLow[i] <= LastHigh[i]
    /\ IsPairOrder(start_pointx, N, LastLow)
    /\ IsPairOrder(end_pointx, N, LastHigh)
    /\ Len(queries) = 2 * N
    /\ \A q \in 1 .. 2 * N : queries[q] \in Nat
    /\ \A q \in 1 .. 2 * N - 1 :
          /\ queries[q] <= queries[q + 1]
          /\ \A i \in 1 .. N : /\ LastLow[i] <= queries[q] \/ queries[q + 1] <= LastLow[i]
                               /\ LastHigh[i] <= queries[q] \/ queries[q + 1] <= LastHigh[i]
    /\ \A i \in 1 .. N : /\ queries[1] <= LastLow[i] /\ queries[1] <= LastHigh[i]
                         /\ LastLow[i] <= queries[2 * N] /\ LastHigh[i] <= queries[2 * N]

\* They are in order, and no bound is missed.
LEMMA PointsAreInOrder ==
  ASSUME ruleset \in Seq(Rule), N >= 1
  PROVE  PointsFit
<1>1. N \in Nat /\ \A i \in 1 .. N : ruleset[i] \in Rule
  BY DEF N
<1>2. \A r \in Rule : /\ Low(r, Dim) \in Nat /\ High(r, Dim) \in Nat /\ Low(r, Dim) <= High(r, Dim)
                      /\ Low(r, Dim) = range[r][Dim][1] /\ High(r, Dim) = range[r][Dim][2]
  <2> SUFFICES ASSUME NEW r \in Rule
               PROVE  /\ Low(r, Dim) \in Nat /\ High(r, Dim) \in Nat /\ Low(r, Dim) <= High(r, Dim)
                      /\ Low(r, Dim) = range[r][Dim][1] /\ High(r, Dim) = range[r][Dim][2]
    OBVIOUS
  <2>1. Dim \in Field
    BY RulesAssumption DEF Field
  <2>2. range[r][Dim] \in Nat \X Nat
    BY <2>1, RulesAssumption
  <2> QED BY <2>1, <2>2, IntervalAssumption DEF Low, High
<1>3. /\ LastLow \in [1 .. N -> Nat] /\ LastHigh \in [1 .. N -> Nat]
      /\ \A i \in 1 .. N : /\ LastLow[i] <= LastHigh[i]
                           /\ LastLow[i] = Low(ruleset[i], Dim) /\ LastHigh[i] = High(ruleset[i], Dim)
  BY <1>1, <1>2 DEF LastLow, LastHigh
<1>4. IsPairOrder(start_pointx, N, LastLow)
  <2>1. {<<LastLow[i], i>> : i \in 1 .. N} = {<<Low(ruleset[i], Dim), i>> : i \in 1 .. N}
    BY <1>3
  <2> QED BY <1>1, <1>3, <2>1, PairsInOrder DEF start_pointx
<1>5. IsPairOrder(end_pointx, N, LastHigh)
  <2>1. {<<LastHigh[i], i>> : i \in 1 .. N} = {<<High(ruleset[i], Dim), i>> : i \in 1 .. N}
    BY <1>3
  <2> QED BY <1>1, <1>3, <2>1, PairsInOrder DEF end_pointx
<1> DEFINE W == (1 .. N) \X (1 .. 2)
           v == [e \in W |-> range[ruleset[e[1]]][Dim][e[2]]]
<1>6. IsFiniteSet(W) /\ Cardinality(W) = 2 * N
  <2>1. /\ IsFiniteSet(1 .. N) /\ Cardinality(1 .. N) = N
        /\ IsFiniteSet(1 .. 2) /\ Cardinality(1 .. 2) = 2
    <3>1. \A k \in Nat : IsFiniteSet(1 .. k) /\ Cardinality(1 .. k) = k
      BY FS_Interval
    <3> QED BY <1>1, <3>1
  <2>2. IsFiniteSet(W) /\ Cardinality(W) = Cardinality(1 .. N) * Cardinality(1 .. 2)
    BY <2>1, FS_Product
  <2> QED BY <1>1, <2>1, <2>2
<1>7. \A i \in 1 .. N : /\ <<i, 1>> \in W /\ v[<<i, 1>>] = LastLow[i]
                        /\ <<i, 2>> \in W /\ v[<<i, 2>>] = LastHigh[i]
  BY <1>1, <1>2, <1>3
<1>8. v \in [W -> Nat]
  <2>1. \A e \in W : e[1] \in 1 .. N /\ e[2] \in 1 .. 2
    OBVIOUS
  <2>2. \A e \in W : range[ruleset[e[1]]][Dim][e[2]] \in Nat
    <3> SUFFICES ASSUME NEW e \in W PROVE range[ruleset[e[1]]][Dim][e[2]] \in Nat
      OBVIOUS
    <3>1. e[2] = 1 \/ e[2] = 2
      BY <2>1
    <3>2. ruleset[e[1]] \in Rule
      BY <1>1, <2>1
    <3> QED BY <1>2, <3>1, <3>2
  <2> HIDE DEF W
  <2> QED BY <2>2
<1>9. InOrderOf(queries, W, v)
  <2> DEFINE value(e) == range[ruleset[e[1]]][Dim][e[2]]
             X == {value(e) : e \in W}
             Is(i, x) == /\ Cardinality({e \in W : value(e) < x}) < i
                         /\ i <= Cardinality({e \in W : value(e) <= x})
  <2>1. queries = [i \in 1 .. Cardinality(W) |-> CHOOSE x \in X : Is(i, x)]
    BY DEF queries, BoundsInOrder, Sorted, N
  <2>2. \A e \in W : v[e] = value(e)
    OBVIOUS
  <2> HIDE DEF v, W, value
  <2>3. X = {v[e] : e \in W}
    BY <2>2
  <2>4. \A x : {e \in W : value(e) < x} = {e \in W : v[e] < x}
               /\ {e \in W : value(e) <= x} = {e \in W : v[e] <= x}
    BY <2>2
  <2> HIDE DEF X
  <2>5. \A i, x : IsNth(W, v, i, x) <=> x \in X /\ Is(i, x)
    BY <2>3, <2>4 DEF IsNth, LessThan, AtMost
  <2> HIDE DEF Is
  <2>6. queries = [i \in 1 .. Cardinality(W) |-> queries[i]]
        /\ \A i \in 1 .. Cardinality(W) : queries[i] = CHOOSE x \in X : Is(i, x)
    BY <2>1
  <2>7. \A i \in 1 .. Cardinality(W) : (\E x : IsNth(W, v, i, x)) => IsNth(W, v, i, queries[i])
    BY <2>5, <2>6
  <2> QED BY <1>6, <1>8, <2>6, <2>7, SortedByValue
<1> HIDE DEF W, v
<1>10. /\ \A q \in 1 .. 2 * N : queries[q] \in Nat
       /\ \A q \in 1 .. 2 * N - 1 : queries[q] <= queries[q + 1]
       /\ \A q \in 1 .. 2 * N - 1, w \in W : v[w] <= queries[q] \/ queries[q + 1] <= v[w]
       /\ \A w \in W : 2 * N >= 1 => queries[1] <= v[w] /\ v[w] <= queries[2 * N]
  BY <1>6, <1>8, <1>9, NothingBetween
<1>11. Len(queries) = 2 * N
  BY <1>6, <1>9 DEF InOrderOf
<1>12. 2 * N >= 1
  BY <1>1
<1>13. \A q \in 1 .. 2 * N - 1, i \in 1 .. N :
          /\ LastLow[i] <= queries[q] \/ queries[q + 1] <= LastLow[i]
          /\ LastHigh[i] <= queries[q] \/ queries[q + 1] <= LastHigh[i]
  BY <1>7, <1>10
<1>14. \A i \in 1 .. N : /\ queries[1] <= LastLow[i] /\ queries[1] <= LastHigh[i]
                         /\ LastLow[i] <= queries[2 * N] /\ LastHigh[i] <= queries[2 * N]
  BY <1>7, <1>10, <1>12
<1> QED BY <1>3, <1>4, <1>5, <1>10, <1>11, <1>13, <1>14 DEF PointsFit

\* The call, and the types of the positions.
SweepShape ==
    /\ ruleset \in Seq(Rule) /\ N \in Nat \ {0}
    /\ stage \in {"insert", "delete", "done"}
    /\ qx \in Nat \ {0} /\ (stage # "done" => qx \in 1 .. 2 * N)
    /\ i_s \in 1 .. N + 1 /\ i_e \in 1 .. N + 1
    /\ changed \in BOOLEAN /\ max_POM \in Nat

\* Among sorted pairs s, the first c - 1 have been passed: those with values in T.
Passed(s, c, T) == \A k \in DOMAIN s : k < c <=> s[k][1] \in T

AtMostX == {y \in Nat : y <= queries[qx]}
BelowX == {y \in Nat : y < queries[qx]}

\* Starts at the current point are passed in the first stage, ends at it in the
\* second; at a point that the last query had too, both are.
StartsAreReached ==
    /\ stage = "insert" => \A k \in 1 .. N :
          /\ start_pointx[k][1] < queries[qx] => k < i_s
          /\ k < i_s => start_pointx[k][1] <= queries[qx]
    /\ stage = "delete" => Passed(start_pointx, i_s, AtMostX)
    /\ stage = "done" => i_s = N + 1

EndsAreReached ==
    /\ stage = "insert" => \/ Passed(end_pointx, i_e, BelowX)
                           \/ /\ ~changed
                              /\ Passed(start_pointx, i_s, AtMostX) /\ Passed(end_pointx, i_e, AtMostX)
    /\ stage = "delete" => \A k \in 1 .. N :
          /\ end_pointx[k][1] < queries[qx] => k < i_e
          /\ k < i_e => end_pointx[k][1] <= queries[qx]

\* The positions that the first c - 1 of sorted pairs lead to.
LedTo(s, c) == {s[k][2] : k \in 1 .. c - 1}

\* The vector holds the rules that have begun and not ended.
VectorsFit ==
    /\ IndexFits(rule_this_loop, index_rule_this_loop, inverse_index, N)
    /\ Elements(rule_this_loop) = LedTo(start_pointx, i_s) \ LedTo(end_pointx, i_e)

\* The rules that a point is inside of, in the last field.
RulesAt == [y \in Nat |-> {ruleset[i] : i \in {k \in 1 .. N : LastLow[k] <= y /\ y <= LastHigh[k]}}]

\* max_POM is the count at some point, and not below that at any start passed;
\* the start at hand is counted at the end of the stage.
CountIsAttained == \E x, y \in Nat : max_POM <= Different(RulesAt[y], x)
StartsAreCounted ==
    \A k \in 1 .. i_s - 1 :
        \/ stage = "insert" /\ changed /\ start_pointx[k][1] = queries[qx]
        \/ \A x \in Nat : Different(RulesAt[start_pointx[k][1]], x) <= max_POM

SweepInv ==
    /\ SweepShape /\ StartsAreReached /\ EndsAreReached /\ VectorsFit
    /\ CountIsAttained /\ StartsAreCounted

\* Passing the values of a set leads to the positions with these values.
LEMMA PassedAre ==
  ASSUME N \in Nat, NEW v, NEW s, IsPairOrder(s, N, v), NEW c \in 1 .. N + 1, NEW T, Passed(s, c, T)
  PROVE  LedTo(s, c) = {i \in 1 .. N : v[i] \in T}
<1>1. \A k \in 1 .. N : s[k][2] \in 1 .. N /\ s[k][1] = v[s[k][2]]
  BY DEF IsPairOrder
<1>2. \A i \in 1 .. N : \E k \in 1 .. N : s[k][2] = i
  BY DEF IsPairOrder
<1>3. \A k \in 1 .. N : k \in 1 .. c - 1 <=> s[k][1] \in T
  <2>1. DOMAIN s = 1 .. N
    BY DEF IsPairOrder
  <2>2. \A k \in 1 .. N : k < c <=> s[k][1] \in T
    BY <2>1 DEF Passed
  <2> QED BY <2>2
<1>4. \A k \in 1 .. c - 1 : k \in 1 .. N
  OBVIOUS
<1>5. LedTo(s, c) \subseteq {i \in 1 .. N : v[i] \in T}
  BY <1>1, <1>3, <1>4 DEF LedTo
<1>6. ASSUME NEW i \in 1 .. N, v[i] \in T PROVE i \in LedTo(s, c)
  <2>1. PICK k \in 1 .. N : s[k][2] = i
    BY <1>2
  <2>2. k \in 1 .. c - 1
    BY <1>1, <1>3, <1>6, <2>1
  <2> QED BY <2>1, <2>2 DEF LedTo
<1> QED BY <1>5, <1>6

\* The next pair leads to a position not passed before.
LEMMA PassingNext ==
  ASSUME N \in Nat, NEW v, NEW s, IsPairOrder(s, N, v), NEW c \in 1 .. N
  PROVE  /\ s[c][2] \in 1 .. N /\ s[c][1] \in Nat /\ s[c][1] = v[s[c][2]]
         /\ s[c][2] \notin LedTo(s, c)
         /\ LedTo(s, c + 1) = LedTo(s, c) \cup {s[c][2]}
<1>1. \A k \in 1 .. N : s[k] \in Nat \X (1 .. N) /\ s[k][1] = v[s[k][2]]
  BY DEF IsPairOrder
<1>2. \A k, l \in 1 .. N : s[k][2] = s[l][2] => k = l
  BY DEF IsPairOrder
<1>3. c + 1 - 1 = c /\ 1 .. c = (1 .. c - 1) \cup {c} /\ \A k \in 1 .. c - 1 : k \in 1 .. N /\ k # c
  OBVIOUS
<1>4. s[c][2] \notin LedTo(s, c)
  BY <1>2, <1>3 DEF LedTo
<1>5. LedTo(s, c + 1) = LedTo(s, c) \cup {s[c][2]}
  BY <1>3 DEF LedTo
<1> QED BY <1>1, <1>4, <1>5

\* What depends on the rules only does not change.
LEMMA PointsStay ==
  ASSUME ruleset' = ruleset
  PROVE  /\ N' = N /\ start_pointx' = start_pointx /\ end_pointx' = end_pointx /\ queries' = queries
         /\ LastLow' = LastLow /\ LastHigh' = LastHigh /\ RulesAt' = RulesAt
<1>1. N' = N
  BY DEF N
<1>2. LastLow' = LastLow /\ LastHigh' = LastHigh
  BY <1>1 DEF LastLow, LastHigh
<1>3. start_pointx' = start_pointx /\ end_pointx' = end_pointx
  BY <1>1 DEF start_pointx, end_pointx
<1>4. queries' = queries
  BY DEF queries
<1>5. RulesAt' = RulesAt
  BY <1>1, <1>2 DEF RulesAt
<1> QED BY <1>1, <1>2, <1>3, <1>4, <1>5

\* At the end of the first stage the open rules are those at the current point,
\* and at the end of the second no others are.
LEMMA OpenIsRulesAt ==
  ASSUME SweepInv, PointsFit, stage \in {"insert", "delete"}
  PROVE  /\ Open \in SUBSET Rule /\ RulesAt \in [Nat -> SUBSET Rule]
         /\ stage = "insert" /\ ~Starts /\ changed => Open = RulesAt[queries[qx]]
         /\ stage = "delete" => Open \subseteq RulesAt[queries[qx]]
         /\ stage = "insert" /\ ~Starts => Passed(start_pointx, i_s, AtMostX)
         /\ stage = "delete" /\ ~Ends => Passed(end_pointx, i_e, AtMostX)
<1> DEFINE x == queries[qx]
           Began == {i \in 1 .. N : LastLow[i] \in AtMostX}
<1>1. /\ ruleset \in Seq(Rule) /\ N \in Nat \ {0} /\ qx \in 1 .. 2 * N
      /\ i_s \in 1 .. N + 1 /\ i_e \in 1 .. N + 1
  BY DEF SweepInv, SweepShape
<1>2. /\ LastLow \in [1 .. N -> Nat] /\ LastHigh \in [1 .. N -> Nat] /\ x \in Nat
      /\ IsPairOrder(start_pointx, N, LastLow) /\ IsPairOrder(end_pointx, N, LastHigh)
  BY <1>1 DEF PointsFit
<1>3. /\ IndexFits(rule_this_loop, index_rule_this_loop, inverse_index, N)
      /\ Elements(rule_this_loop) = LedTo(start_pointx, i_s) \ LedTo(end_pointx, i_e)
  BY DEF SweepInv, VectorsFit
<1>4. Open = {ruleset[i] : i \in Elements(rule_this_loop)}
  BY DEF Open, Range, Elements
<1>5. Elements(rule_this_loop) \subseteq 1 .. N /\ \A i \in 1 .. N : ruleset[i] \in Rule
  <2>1. rule_this_loop \in Seq(1 .. N)
    BY <1>3 DEF IndexFits
  <2> QED BY <1>1, <2>1 DEF Elements, N
<1>6. Open \in SUBSET Rule /\ RulesAt \in [Nat -> SUBSET Rule]
  BY <1>4, <1>5 DEF RulesAt
<1>7. /\ \A k \in 1 .. N : start_pointx[k] \in Nat \X (1 .. N) /\ end_pointx[k] \in Nat \X (1 .. N)
      /\ \A k, l \in 1 .. N : k <= l => start_pointx[k][1] <= start_pointx[l][1]
                                     /\ end_pointx[k][1] <= end_pointx[l][1]
  BY <1>2 DEF IsPairOrder
<1>8. ASSUME stage = "insert", ~Starts PROVE Passed(start_pointx, i_s, AtMostX)
  <2>1. \A k \in 1 .. N : /\ start_pointx[k][1] < x => k < i_s
                          /\ k < i_s => start_pointx[k][1] <= x
    BY <1>8 DEF SweepInv, StartsAreReached
  <2>2. i_s \in 1 .. N => start_pointx[i_s][1] # x
    BY <1>1, <1>8 DEF Starts
  <2>3. ASSUME NEW k \in 1 .. N, start_pointx[k][1] <= x PROVE k < i_s
    <3> SUFFICES ASSUME ~(k < i_s) PROVE FALSE
      OBVIOUS
    <3>1. i_s \in 1 .. N /\ i_s <= k
      BY <1>1
    <3>2. start_pointx[i_s][1] <= start_pointx[k][1] /\ start_pointx[i_s][1] \in Nat
          /\ start_pointx[k][1] \in Nat
      BY <1>7, <3>1
    <3>3. ~(start_pointx[i_s][1] < x)
      BY <1>1, <2>1, <3>1
    <3> QED BY <1>2, <2>2, <2>3, <3>1, <3>2, <3>3
  <2>4. ASSUME NEW k \in 1 .. N PROVE k < i_s <=> start_pointx[k][1] \in AtMostX
    <3>1. start_pointx[k][1] \in Nat
      BY <1>7
    <3> QED BY <2>1, <2>3, <3>1 DEF AtMostX
  <2> QED BY <1>2, <2>4 DEF Passed, IsPairOrder
<1>9. ASSUME stage = "delete", ~Ends PROVE Passed(end_pointx, i_e, AtMostX)
  <2>1. \A k \in 1 .. N : /\ end_pointx[k][1] < x => k < i_e
                          /\ k < i_e => end_pointx[k][1] <= x
    BY <1>9 DEF SweepInv, EndsAreReached
  <2>2. i_e \in 1 .. N => end_pointx[i_e][1] # x
    BY <1>1, <1>9 DEF Ends
  <2>3. ASSUME NEW k \in 1 .. N, end_pointx[k][1] <= x PROVE k < i_e
    <3> SUFFICES ASSUME ~(k < i_e) PROVE FALSE
      OBVIOUS
    <3>1. i_e \in 1 .. N /\ i_e <= k
      BY <1>1
    <3>2. end_pointx[i_e][1] <= end_pointx[k][1] /\ end_pointx[i_e][1] \in Nat
          /\ end_pointx[k][1] \in Nat
      BY <1>7, <3>1
    <3>3. ~(end_pointx[i_e][1] < x)
      BY <1>1, <2>1, <3>1
    <3> QED BY <1>2, <2>2, <2>3, <3>1, <3>2, <3>3
  <2>4. ASSUME NEW k \in 1 .. N PROVE k < i_e <=> end_pointx[k][1] \in AtMostX
    <3>1. end_pointx[k][1] \in Nat
      BY <1>7
    <3> QED BY <2>1, <2>3, <3>1 DEF AtMostX
  <2> QED BY <1>2, <2>4 DEF Passed, IsPairOrder
<1>10. ASSUME stage = "insert", ~Starts, changed PROVE Open = RulesAt[x]
  <2>1. LedTo(start_pointx, i_s) = {i \in 1 .. N : LastLow[i] \in AtMostX}
    BY <1>1, <1>2, <1>8, <1>10, PassedAre
  <2>2. LedTo(end_pointx, i_e) = {i \in 1 .. N : LastHigh[i] \in BelowX}
    <3>1. Passed(end_pointx, i_e, BelowX)
      BY <1>10 DEF SweepInv, EndsAreReached
    <3> QED BY <1>1, <1>2, <3>1, PassedAre
  <2>3. Elements(rule_this_loop) = {k \in 1 .. N : LastLow[k] <= x /\ x <= LastHigh[k]}
    <3>1. \A k \in 1 .. N : /\ LastLow[k] \in AtMostX <=> LastLow[k] <= x
                            /\ LastHigh[k] \in BelowX <=> ~(x <= LastHigh[k])
      BY <1>2 DEF AtMostX, BelowX
    <3> HIDE DEF x
    <3> QED BY <1>3, <2>1, <2>2, <3>1
  <2> QED BY <1>2, <1>4, <2>3 DEF RulesAt
<1>11. ASSUME stage = "delete" PROVE Open \subseteq RulesAt[x]
  <2>1. LedTo(start_pointx, i_s) = {i \in 1 .. N : LastLow[i] \in AtMostX}
    <3>1. Passed(start_pointx, i_s, AtMostX)
      BY <1>11 DEF SweepInv, StartsAreReached
    <3> QED BY <1>1, <1>2, <3>1, PassedAre
  <2>2. ASSUME NEW i \in Elements(rule_this_loop) PROVE LastLow[i] <= x /\ x <= LastHigh[i] /\ i \in 1 .. N
    <3>1. i \in 1 .. N /\ LastLow[i] \in AtMostX
      BY <1>3, <2>1
    <3>2. x <= LastHigh[i]
      <4>1. PICK k \in 1 .. N : end_pointx[k][2] = i
        BY <1>2, <3>1 DEF IsPairOrder
      <4>2. end_pointx[k][1] = LastHigh[i] /\ LastHigh[i] \in Nat
        <5>1. \A c \in 1 .. N : end_pointx[c][1] = LastHigh[end_pointx[c][2]]
          BY <1>2 DEF IsPairOrder
        <5> QED BY ONLY <1>2, <3>1, <4>1, <5>1
      <4>3. ~(k \in 1 .. i_e - 1)
        BY <1>3, <4>1 DEF LedTo
      <4>4. ~(end_pointx[k][1] < x)
        <5>1. end_pointx[k][1] < x => k < i_e
          BY <1>11 DEF SweepInv, EndsAreReached
        <5> QED BY <1>1, <4>3, <5>1
      <4> QED BY <1>2, <4>2, <4>4
    <3> QED BY <3>1, <3>2 DEF AtMostX
  <2> QED BY <1>2, <1>4, <2>2 DEF RulesAt
<1> QED BY <1>6, <1>8, <1>9, <1>10, <1>11

\* What the steps use of the points.
LEMMA PointFacts ==
  ASSUME SweepShape
  PROVE  /\ PointsFit /\ N \in Nat \ {0} /\ i_s \in 1 .. N + 1 /\ i_e \in 1 .. N + 1
         /\ DOMAIN start_pointx = 1 .. N /\ DOMAIN end_pointx = 1 .. N
         /\ IsPairOrder(start_pointx, N, LastLow) /\ IsPairOrder(end_pointx, N, LastHigh)
         /\ LastLow \in [1 .. N -> Nat] /\ LastHigh \in [1 .. N -> Nat]
         /\ \A i \in 1 .. N : LastLow[i] <= LastHigh[i]
         /\ \A k \in 1 .. N : start_pointx[k][1] \in Nat /\ end_pointx[k][1] \in Nat
         /\ \A q \in 1 .. 2 * N : queries[q] \in Nat
<1>1. ruleset \in Seq(Rule) /\ N \in Nat \ {0} /\ i_s \in 1 .. N + 1 /\ i_e \in 1 .. N + 1
  BY DEF SweepShape
<1>2. PointsFit
  BY <1>1, PointsAreInOrder
<1>3. IsPairOrder(start_pointx, N, LastLow) /\ IsPairOrder(end_pointx, N, LastHigh)
  BY <1>2 DEF PointsFit
<1>4. /\ start_pointx \in [1 .. N -> Nat \X (1 .. N)] /\ end_pointx \in [1 .. N -> Nat \X (1 .. N)]
  BY <1>3 DEF IsPairOrder
<1>5. \A k \in 1 .. N : start_pointx[k][1] \in Nat /\ end_pointx[k][1] \in Nat
  BY <1>4
<1>6. DOMAIN start_pointx = 1 .. N /\ DOMAIN end_pointx = 1 .. N
  BY <1>4
<1> QED BY <1>1, <1>2, <1>3, <1>5, <1>6 DEF PointsFit

\* Nothing is open before the sweep.
LEMMA SweepStarts ==
  ASSUME IntersectionInit(Rule)
  PROVE  SweepInv
<1>1. PICK S \in (SUBSET Rule) \ {{}} : ruleset \in Bijection(1 .. Cardinality(S), S)
  BY DEF IntersectionInit
<1>2. IsFiniteSet(S) /\ Cardinality(S) \in Nat /\ Cardinality(S) # 0
  <2>1. IsFiniteSet(S)
    BY RulesAssumption, FS_Subset
  <2> QED BY <2>1, FS_CardinalityType, FS_EmptySet
<1>3. ruleset \in [1 .. Cardinality(S) -> S]
  BY <1>1 DEF Bijection, Injection
<1>4. ruleset \in Seq(Rule) /\ N \in Nat \ {0}
  BY <1>2, <1>3 DEF N
<1>5. /\ qx = 1 /\ i_s = 1 /\ i_e = 1 /\ rule_this_loop = <<>>
      /\ index_rule_this_loop = [i \in 1 .. N |-> 0] /\ inverse_index = [k \in 1 .. N |-> 0]
      /\ changed = FALSE /\ max_POM = 0 /\ stage = "insert"
  BY DEF IntersectionInit
<1>6. SweepShape
  <2>1. qx \in Nat \ {0} /\ qx \in 1 .. 2 * N /\ i_s \in 1 .. N + 1 /\ i_e \in 1 .. N + 1 /\ max_POM \in Nat
    BY ONLY <1>4, <1>5
  <2>2. stage \in {"insert", "delete", "done"} /\ changed \in BOOLEAN
    BY ONLY <1>5
  <2> QED BY ONLY <1>4, <2>1, <2>2 DEF SweepShape
<1>7. PointsFit
  BY <1>6, PointFacts
<1>8. \A k \in 1 .. N : /\ start_pointx[k][1] \in Nat /\ end_pointx[k][1] \in Nat /\ queries[1] \in Nat
                        /\ queries[1] <= start_pointx[k][1] /\ queries[1] <= end_pointx[k][1]
  <2>1. queries[1] \in Nat
    BY <1>4, <1>7 DEF PointsFit
  <2>2. ASSUME NEW k \in 1 .. N
        PROVE  /\ start_pointx[k][2] \in 1 .. N /\ start_pointx[k][1] = LastLow[start_pointx[k][2]]
               /\ end_pointx[k][2] \in 1 .. N /\ end_pointx[k][1] = LastHigh[end_pointx[k][2]]
    <3>1. start_pointx[k] \in Nat \X (1 .. N) /\ end_pointx[k] \in Nat \X (1 .. N)
      BY <1>7 DEF PointsFit, IsPairOrder
    <3> QED BY <1>7, <3>1 DEF PointsFit, IsPairOrder
  <2>3. \A i \in 1 .. N : queries[1] <= LastLow[i] /\ queries[1] <= LastHigh[i]
    BY <1>7 DEF PointsFit
  <2> QED BY <1>6, <2>1, <2>2, <2>3, PointFacts
<1>9. StartsAreReached
  <2>1. \A k \in 1 .. N : ~(k < 1) /\ ~(start_pointx[k][1] < queries[1])
    BY <1>4, <1>8
  <2>2. \A k \in 1 .. N : /\ start_pointx[k][1] < queries[qx] => k < i_s
                          /\ k < i_s => start_pointx[k][1] <= queries[qx]
    BY <1>5, <2>1
  <2> QED BY <1>5, <2>2 DEF StartsAreReached
<1>10. EndsAreReached
  <2>1. Passed(end_pointx, 1, BelowX)
    <3>1. DOMAIN end_pointx = 1 .. N
      BY <1>6, PointFacts
    <3>2. \A k \in 1 .. N : ~(k < 1) /\ ~(end_pointx[k][1] \in BelowX)
      BY <1>4, <1>5, <1>8 DEF BelowX
    <3> QED BY <3>1, <3>2 DEF Passed
  <2> QED BY <1>5, <2>1 DEF EndsAreReached
<1>11. VectorsFit
  <2>1. IndexFits(<<>>, [i \in 1 .. N |-> 0], [k \in 1 .. N |-> 0], N)
    BY <1>4 DEF IndexFits, Distinct
  <2>2. Elements(<<>>) = {}
    BY DEF Elements
  <2>3. LedTo(start_pointx, 1) = {}
    BY DEF LedTo
  <2> QED BY <1>5, <2>1, <2>2, <2>3 DEF VectorsFit
<1>12. CountIsAttained
  <2>1. RulesAt[0] \in SUBSET Rule
    BY <1>5, <1>4 DEF RulesAt, N
  <2>2. {s \in RulesAt[0] : Low(s, 1) <= 0 /\ 0 <= High(s, 1)} \in SUBSET Rule
    BY <2>1
  <2>3. Different(RulesAt[0], 0) \in Nat
    BY <2>2, ImageGrows DEF Different
  <2> QED BY <1>5, <2>3 DEF CountIsAttained
<1>13. StartsAreCounted
  BY <1>5 DEF StartsAreCounted
<1> QED BY <1>6, <1>9, <1>10, <1>11, <1>12, <1>13 DEF SweepInv

\* A rule begins at the current point.
LEMMA InsertOneSweeps ==
  ASSUME SweepInv, InsertOne
  PROVE  SweepInv'
<1> DEFINE i == start_pointx[i_s][2]
           x == queries[qx]
<1>1. /\ stage = "insert" /\ i_s <= N /\ start_pointx[i_s][1] = x
      /\ index_rule_this_loop' = [index_rule_this_loop EXCEPT ![i] = Len(rule_this_loop) + 1]
      /\ inverse_index' = [inverse_index EXCEPT ![Len(rule_this_loop) + 1] = i]
      /\ rule_this_loop' = Append(rule_this_loop, i)
      /\ i_s' = i_s + 1 /\ changed' = TRUE
      /\ ruleset' = ruleset /\ qx' = qx /\ i_e' = i_e /\ max_POM' = max_POM /\ stage' = stage
  BY DEF InsertOne, Starts
<1>2. /\ N' = N /\ start_pointx' = start_pointx /\ end_pointx' = end_pointx /\ queries' = queries
      /\ RulesAt' = RulesAt
  BY <1>1, PointsStay
<1>3. AtMostX' = AtMostX /\ BelowX' = BelowX
  BY <1>1, <1>2 DEF AtMostX, BelowX
<1>4. SweepShape /\ StartsAreReached /\ EndsAreReached /\ VectorsFit /\ CountIsAttained /\ StartsAreCounted
  BY DEF SweepInv
<1>5. /\ N \in Nat \ {0} /\ i_s \in 1 .. N /\ i_e \in 1 .. N + 1 /\ qx \in 1 .. 2 * N
      /\ DOMAIN start_pointx = 1 .. N /\ x \in Nat
      /\ IsPairOrder(start_pointx, N, LastLow) /\ IsPairOrder(end_pointx, N, LastHigh)
      /\ LastLow \in [1 .. N -> Nat] /\ LastHigh \in [1 .. N -> Nat]
      /\ \A k \in 1 .. N : LastLow[k] <= LastHigh[k]
      /\ \A k \in 1 .. N : start_pointx[k][1] \in Nat
  BY <1>1, <1>4, PointFacts DEF SweepShape
<1> HIDE DEF x
<1>6. i \in 1 .. N /\ LastLow[i] = x /\ i \notin LedTo(start_pointx, i_s)
      /\ LedTo(start_pointx, i_s + 1) = LedTo(start_pointx, i_s) \cup {i}
  <2>1. N \in Nat /\ i_s \in 1 .. N /\ IsPairOrder(start_pointx, N, LastLow) /\ start_pointx[i_s][1] = x
    BY <1>1, <1>5
  <2> QED BY ONLY <2>1, PassingNext
<1> HIDE DEF i
<1>7. Passed(end_pointx, i_e, BelowX)
  <2>1. ~Passed(start_pointx, i_s, AtMostX)
    <3>1. start_pointx[i_s][1] \in AtMostX
      BY <1>1, <1>5 DEF AtMostX, x
    <3>2. i_s \in DOMAIN start_pointx /\ ~(i_s < i_s)
      BY <1>5
    <3> QED BY ONLY <3>1, <3>2 DEF Passed
  <2> QED BY <1>1, <1>4, <2>1 DEF EndsAreReached
<1>8. i \notin LedTo(end_pointx, i_e)
  <2>1. LedTo(end_pointx, i_e) = {k \in 1 .. N : LastHigh[k] \in BelowX}
    BY <1>5, <1>7, PassedAre
  <2>2. LastHigh[i] \notin BelowX
    BY <1>5, <1>6 DEF BelowX, x
  <2> QED BY <2>1, <2>2
<1>9. SweepShape'
  <2>1. /\ ruleset \in Seq(Rule) /\ N \in Nat \ {0} /\ max_POM \in Nat /\ qx \in Nat \ {0}
        /\ i_s \in 1 .. N + 1 /\ i_e \in 1 .. N + 1
    BY <1>4 DEF SweepShape
  <2>2. i_s' \in 1 .. N' + 1 /\ i_e' \in 1 .. N' + 1
    BY ONLY <1>1, <1>2, <1>5, <2>1
  <2>3. changed' \in BOOLEAN /\ qx' \in 1 .. 2 * N'
    BY ONLY <1>1, <1>2, <1>5
  <2> QED BY ONLY <1>1, <1>2, <2>1, <2>2, <2>3 DEF SweepShape
<1>10. StartsAreReached'
  <2>1. \A k \in 1 .. N : /\ start_pointx[k][1] < x => k < i_s
                          /\ k < i_s => start_pointx[k][1] <= x
    BY <1>1, <1>4 DEF StartsAreReached, x
  <2>2. \A k \in 1 .. N : /\ start_pointx[k][1] < x => k < i_s + 1
                          /\ k < i_s + 1 => start_pointx[k][1] <= x
    <3> TAKE k \in 1 .. N
    <3>1. k < i_s => k < i_s + 1
      BY <1>5
    <3>2. k < i_s + 1 => k < i_s \/ k = i_s
      BY <1>5
    <3>3. start_pointx[i_s][1] <= x
      BY <1>1, <1>5
    <3> QED BY <2>1, <3>1, <3>2, <3>3
  <2> QED BY <1>1, <1>2, <2>2 DEF StartsAreReached, x
<1>11. EndsAreReached'
  BY <1>1, <1>2, <1>3, <1>7 DEF EndsAreReached
<1>12. VectorsFit'
  <2>1. IndexFits(rule_this_loop, index_rule_this_loop, inverse_index, N)
        /\ Elements(rule_this_loop) = LedTo(start_pointx, i_s) \ LedTo(end_pointx, i_e)
    BY <1>4 DEF VectorsFit
  <2>2. i \notin Elements(rule_this_loop)
    BY <1>6, <2>1
  <2>3. IndexFits(rule_this_loop', index_rule_this_loop', inverse_index', N)
        /\ Elements(rule_this_loop') = Elements(rule_this_loop) \cup {i}
    <3>1. Appends(rule_this_loop, index_rule_this_loop, inverse_index, i,
                  rule_this_loop', index_rule_this_loop', inverse_index')
      BY <1>1 DEF Appends
    <3>2. N \in Nat /\ i \in 1 .. N
      BY <1>5, <1>6
    <3> QED BY ONLY <2>1, <2>2, <3>1, <3>2, AppendFits
  <2>4. Elements(rule_this_loop') = LedTo(start_pointx, i_s + 1) \ LedTo(end_pointx, i_e)
    BY <1>6, <1>8, <2>1, <2>3
  <2> QED BY <1>1, <1>2, <2>3, <2>4 DEF VectorsFit
<1>13. CountIsAttained'
  BY <1>1, <1>2, <1>4 DEF CountIsAttained
<1>14. StartsAreCounted'
  <2>1. \A k \in 1 .. i_s - 1 : \/ start_pointx[k][1] = x
                                \/ \A y \in Nat : Different(RulesAt[start_pointx[k][1]], y) <= max_POM
    BY <1>4 DEF StartsAreCounted, x
  <2>2. \A k \in 1 .. i_s + 1 - 1 : k \in 1 .. i_s - 1 \/ k = i_s
    BY <1>5
  <2>3. \A k \in 1 .. i_s + 1 - 1 : \/ start_pointx[k][1] = x
                                    \/ \A y \in Nat : Different(RulesAt[start_pointx[k][1]], y) <= max_POM
    BY <1>1, <2>1, <2>2
  <2>4. \A k \in 1 .. i_s' - 1 :
           \/ stage' = "insert" /\ changed' /\ start_pointx'[k][1] = queries'[qx']
           \/ \A y \in Nat : Different(RulesAt'[start_pointx'[k][1]], y) <= max_POM'
    <3>1. /\ i_s' = i_s + 1 /\ stage' = "insert" /\ (changed' <=> TRUE) /\ start_pointx' = start_pointx
          /\ queries'[qx'] = x /\ RulesAt' = RulesAt /\ max_POM' = max_POM
      BY <1>1, <1>2 DEF x
    <3>2. i_s' - 1 = i_s + 1 - 1
      BY <1>5, <3>1
    <3> QED BY ONLY <2>3, <3>1, <3>2
  <2> QED BY ONLY <2>4 DEF StartsAreCounted
<1> QED BY <1>9, <1>10, <1>11, <1>12, <1>13, <1>14 DEF SweepInv

\* A rule ends at the current point; it is open.
LEMMA DeleteOneSweeps ==
  ASSUME SweepInv, DeleteOne
  PROVE  SweepInv'
<1> DEFINE i == end_pointx[i_e][2]
           x == queries[qx]
           d == index_rule_this_loop[i]
           last == Len(rule_this_loop)
           swapped == inverse_index[last]
           index2 == [index_rule_this_loop EXCEPT ![swapped] = d]
<1>1. /\ stage = "delete" /\ i_e <= N /\ end_pointx[i_e][1] = x
      /\ inverse_index' = [inverse_index EXCEPT ![d] = swapped]
      /\ index_rule_this_loop' = index2
      /\ rule_this_loop' = SubSeq([rule_this_loop EXCEPT ![index2[i]] = rule_this_loop[last]], 1, last - 1)
      /\ i_e' = i_e + 1 /\ changed' = TRUE
      /\ ruleset' = ruleset /\ qx' = qx /\ i_s' = i_s /\ max_POM' = max_POM /\ stage' = stage
  BY DEF DeleteOne, Ends
<1>2. /\ N' = N /\ start_pointx' = start_pointx /\ end_pointx' = end_pointx /\ queries' = queries
      /\ RulesAt' = RulesAt
  BY <1>1, PointsStay
<1>3. AtMostX' = AtMostX /\ BelowX' = BelowX
  BY <1>1, <1>2 DEF AtMostX, BelowX
<1>4. SweepShape /\ StartsAreReached /\ EndsAreReached /\ VectorsFit /\ CountIsAttained /\ StartsAreCounted
  BY DEF SweepInv
<1>5. /\ N \in Nat \ {0} /\ i_s \in 1 .. N + 1 /\ i_e \in 1 .. N /\ qx \in 1 .. 2 * N
      /\ DOMAIN end_pointx = 1 .. N /\ x \in Nat
      /\ IsPairOrder(start_pointx, N, LastLow) /\ IsPairOrder(end_pointx, N, LastHigh)
      /\ LastLow \in [1 .. N -> Nat] /\ LastHigh \in [1 .. N -> Nat]
      /\ \A k \in 1 .. N : LastLow[k] <= LastHigh[k]
      /\ \A k \in 1 .. N : end_pointx[k][1] \in Nat
  BY <1>1, <1>4, PointFacts DEF SweepShape
<1> HIDE DEF x
<1>6. i \in 1 .. N /\ LastHigh[i] = x /\ i \notin LedTo(end_pointx, i_e)
      /\ LedTo(end_pointx, i_e + 1) = LedTo(end_pointx, i_e) \cup {i}
  <2>1. N \in Nat /\ i_e \in 1 .. N /\ IsPairOrder(end_pointx, N, LastHigh) /\ end_pointx[i_e][1] = x
    BY <1>1, <1>5
  <2> QED BY ONLY <2>1, PassingNext
<1> HIDE DEF i
<1>7. Passed(start_pointx, i_s, AtMostX)
  BY <1>1, <1>4 DEF StartsAreReached
<1>8. i \in LedTo(start_pointx, i_s)
  <2>1. LedTo(start_pointx, i_s) = {k \in 1 .. N : LastLow[k] \in AtMostX}
    BY <1>5, <1>7, PassedAre
  <2>2. LastLow[i] \in AtMostX
    BY <1>5, <1>6 DEF AtMostX, x
  <2> QED BY <1>6, <2>1, <2>2
<1>9. SweepShape'
  <2>1. /\ ruleset \in Seq(Rule) /\ N \in Nat \ {0} /\ max_POM \in Nat /\ qx \in Nat \ {0}
        /\ i_s \in 1 .. N + 1 /\ i_e \in 1 .. N + 1
    BY <1>4 DEF SweepShape
  <2>2. i_s' \in 1 .. N' + 1 /\ i_e' \in 1 .. N' + 1
    BY ONLY <1>1, <1>2, <1>5, <2>1
  <2>3. changed' \in BOOLEAN /\ qx' \in 1 .. 2 * N'
    BY ONLY <1>1, <1>2, <1>5
  <2> QED BY ONLY <1>1, <1>2, <2>1, <2>2, <2>3 DEF SweepShape
<1>10. StartsAreReached'
  BY <1>1, <1>2, <1>3, <1>7 DEF StartsAreReached
<1>11. EndsAreReached'
  <2>1. \A k \in 1 .. N : /\ end_pointx[k][1] < x => k < i_e
                          /\ k < i_e => end_pointx[k][1] <= x
    BY <1>1, <1>4 DEF EndsAreReached, x
  <2>2. \A k \in 1 .. N : /\ end_pointx[k][1] < x => k < i_e + 1
                          /\ k < i_e + 1 => end_pointx[k][1] <= x
    <3> TAKE k \in 1 .. N
    <3>1. k < i_e => k < i_e + 1
      BY <1>5
    <3>2. k < i_e + 1 => k < i_e \/ k = i_e
      BY <1>5
    <3>3. end_pointx[i_e][1] <= x
      BY <1>1, <1>5
    <3> QED BY <2>1, <3>1, <3>2, <3>3
  <2> QED BY <1>1, <1>2, <2>2 DEF EndsAreReached, x
<1>12. VectorsFit'
  <2>1. IndexFits(rule_this_loop, index_rule_this_loop, inverse_index, N)
        /\ Elements(rule_this_loop) = LedTo(start_pointx, i_s) \ LedTo(end_pointx, i_e)
    BY <1>4 DEF VectorsFit
  <2>2. i \in Elements(rule_this_loop)
    BY <1>6, <1>8, <2>1
  <2>3. IndexFits(rule_this_loop', index_rule_this_loop', inverse_index', N)
        /\ Elements(rule_this_loop') = Elements(rule_this_loop) \ {i}
    <3>1. Removes(rule_this_loop, index_rule_this_loop, inverse_index, i,
                  rule_this_loop', index_rule_this_loop', inverse_index')
      BY <1>1 DEF Removes
    <3>2. N \in Nat
      BY <1>5
    <3> QED BY ONLY <2>1, <2>2, <3>1, <3>2, RemovalFits
  <2>4. Elements(rule_this_loop') = LedTo(start_pointx, i_s) \ LedTo(end_pointx, i_e + 1)
    BY <1>6, <2>1, <2>3
  <2> QED BY <1>1, <1>2, <2>3, <2>4 DEF VectorsFit
<1>13. CountIsAttained'
  BY <1>1, <1>2, <1>4 DEF CountIsAttained
<1>14. StartsAreCounted'
  <2>1. \A k \in 1 .. i_s - 1 : \A y \in Nat : Different(RulesAt[start_pointx[k][1]], y) <= max_POM
    BY <1>1, <1>4 DEF StartsAreCounted
  <2> QED BY <1>1, <1>2, <2>1 DEF StartsAreCounted
<1> QED BY <1>9, <1>10, <1>11, <1>12, <1>13, <1>14 DEF SweepInv

\* What is counted after a change.
LEMMA CountFits ==
  ASSUME max_POM \in Nat, changed \in BOOLEAN, Open \in SUBSET Rule
  PROVE  /\ Count \in Nat /\ max_POM <= Count
         /\ changed => \A x \in Nat : Different(Open, x) <= Count
         /\ Count = max_POM \/ \E x \in Nat : Different(Open, x) = Count
<1> DEFINE m == MaxIntersectionBelow(Open)
<1>1. m \in Nat /\ (\A x \in Nat : Different(Open, x) <= m) /\ \E x \in Nat : Different(Open, x) = m
  BY BelowIsBusiest
<1>2. \A x \in Nat : Different(Open, x) \in Nat
  <2> TAKE x \in Nat
  <2>1. {s \in Open : Low(s, 1) <= x /\ x <= High(s, 1)} \in SUBSET Rule
    OBVIOUS
  <2> QED BY <2>1, ImageGrows DEF Different
<1> HIDE DEF m
<1>3. CASE changed
  <2>1. Count = Max({max_POM, m})
    BY <1>3 DEF Count, m
  <2>2. Count \in {max_POM, m} /\ max_POM <= Count /\ m <= Count
    BY <1>1, <2>1, MaxOfTwo
  <2>3. \A x \in Nat : Different(Open, x) <= Count
    <3>1. Count \in Nat
      BY <1>1, <2>2
    <3> QED BY ONLY <1>1, <1>2, <2>2, <3>1
  <2> QED BY ONLY <1>1, <2>2, <2>3, max_POM \in Nat
<1>4. CASE ~changed
  BY <1>4 DEF Count
<1> QED BY <1>3, <1>4

\* The open rules are counted after those that begin at the point are added.
LEMMA InsertedSweeps ==
  ASSUME SweepInv, Inserted
  PROVE  SweepInv'
<1> DEFINE x == queries[qx]
<1>1. /\ stage = "insert" /\ ~Starts /\ max_POM' = Count /\ changed' = FALSE /\ stage' = "delete"
      /\ ruleset' = ruleset /\ qx' = qx /\ i_s' = i_s /\ i_e' = i_e
      /\ rule_this_loop' = rule_this_loop /\ index_rule_this_loop' = index_rule_this_loop
      /\ inverse_index' = inverse_index
  BY DEF Inserted, vectors
<1>2. /\ N' = N /\ start_pointx' = start_pointx /\ end_pointx' = end_pointx /\ queries' = queries
      /\ RulesAt' = RulesAt
  BY <1>1, PointsStay
<1>3. AtMostX' = AtMostX /\ BelowX' = BelowX
  BY <1>1, <1>2 DEF AtMostX, BelowX
<1>4. SweepShape /\ StartsAreReached /\ EndsAreReached /\ VectorsFit /\ CountIsAttained /\ StartsAreCounted
  BY DEF SweepInv
<1>5. /\ N \in Nat \ {0} /\ i_s \in 1 .. N + 1 /\ i_e \in 1 .. N + 1 /\ qx \in 1 .. 2 * N /\ qx \in Nat \ {0}
      /\ ruleset \in Seq(Rule) /\ DOMAIN end_pointx = 1 .. N /\ x \in Nat /\ PointsFit
      /\ max_POM \in Nat /\ changed \in BOOLEAN
      /\ \A k \in 1 .. N : start_pointx[k][1] \in Nat /\ end_pointx[k][1] \in Nat
  BY <1>1, <1>4, PointFacts DEF SweepShape
<1> HIDE DEF x
<1>6. /\ Open \in SUBSET Rule /\ RulesAt \in [Nat -> SUBSET Rule]
      /\ changed => Open = RulesAt[x]
      /\ Passed(start_pointx, i_s, AtMostX)
  BY <1>1, <1>5, OpenIsRulesAt DEF x
<1>7. /\ Count \in Nat /\ max_POM <= Count
      /\ changed => \A y \in Nat : Different(Open, y) <= Count
      /\ Count = max_POM \/ \E y \in Nat : Different(Open, y) = Count
  BY <1>5, <1>6, CountFits
<1>8. Count = max_POM \/ changed
  BY DEF Count
<1>9. SweepShape'
  <2>1. stage' \in {"insert", "delete", "done"} /\ changed' \in BOOLEAN
    BY ONLY <1>1
  <2>2. max_POM' \in Nat
    BY ONLY <1>1, <1>7
  <2> QED BY ONLY <1>1, <1>2, <1>5, <2>1, <2>2 DEF SweepShape
<1>10. StartsAreReached'
  BY <1>1, <1>2, <1>3, <1>6 DEF StartsAreReached
<1>11. EndsAreReached'
  <2>1. \/ \A k \in 1 .. N : k < i_e <=> end_pointx[k][1] \in BelowX
        \/ \A k \in 1 .. N : k < i_e <=> end_pointx[k][1] \in AtMostX
    BY <1>1, <1>4, <1>5 DEF EndsAreReached, Passed
  <2>2. \A k \in 1 .. N : /\ end_pointx[k][1] \in BelowX <=> end_pointx[k][1] < x
                          /\ end_pointx[k][1] \in AtMostX <=> end_pointx[k][1] <= x
    BY <1>5 DEF BelowX, AtMostX, x
  <2>3. \A k \in 1 .. N : /\ end_pointx[k][1] < x => k < i_e
                          /\ k < i_e => end_pointx[k][1] <= x
    BY ONLY <1>5, <2>1, <2>2
  <2> QED BY <1>1, <1>2, <2>3 DEF EndsAreReached, x
<1>12. VectorsFit'
  BY <1>1, <1>2, <1>4 DEF VectorsFit
<1>13. CountIsAttained'
  <2>1. CASE Count = max_POM
    BY <1>1, <1>2, <1>4, <2>1 DEF CountIsAttained
  <2>2. CASE changed /\ \E y \in Nat : Different(Open, y) = Count
    <3>1. PICK y \in Nat : Different(RulesAt[x], y) = Count
      BY <1>6, <2>2
    <3>2. Count <= Count
      BY <1>7
    <3>3. max_POM' <= Different(RulesAt'[x], y)
      BY ONLY <1>1, <1>2, <3>1, <3>2
    <3> QED BY <1>5, <3>3 DEF CountIsAttained
  <2> QED BY <1>7, <1>8, <2>1, <2>2
<1>14. StartsAreCounted'
  <2>1. ASSUME NEW k \in 1 .. i_s - 1, NEW y \in Nat
        PROVE  Different(RulesAt[start_pointx[k][1]], y) <= Count
    <3>1. k \in 1 .. N
      BY <1>5
    <3>2. Different(RulesAt[start_pointx[k][1]], y) \in Nat
      <4>1. RulesAt[start_pointx[k][1]] \in SUBSET Rule
        BY <1>5, <1>6, <3>1
      <4>2. {s \in RulesAt[start_pointx[k][1]] : Low(s, 1) <= y /\ y <= High(s, 1)} \in SUBSET Rule
        BY <4>1
      <4> QED BY <4>2, ImageGrows DEF Different
    <3>3. CASE changed /\ start_pointx[k][1] = x
      BY ONLY <1>6, <1>7, <2>1, <3>3
    <3>4. CASE Different(RulesAt[start_pointx[k][1]], y) <= max_POM
      BY ONLY <1>5, <1>7, <3>2, <3>4
    <3> QED BY <1>4, <2>1, <3>3, <3>4 DEF StartsAreCounted, x
  <2> QED BY <1>1, <1>2, <2>1 DEF StartsAreCounted
<1> QED BY <1>9, <1>10, <1>11, <1>12, <1>13, <1>14 DEF SweepInv

\* The open rules are counted after those that end at the point are removed; no
\* bound lies between the point and the next.
LEMMA DeletedSweeps ==
  ASSUME SweepInv, Deleted
  PROVE  SweepInv'
<1> DEFINE x == queries[qx]
           x2 == queries[qx + 1]
<1>1. /\ stage = "delete" /\ ~Ends /\ max_POM' = Count /\ changed' = FALSE
      /\ qx' = qx + 1 /\ stage' = IF qx = Len(queries) THEN "done" ELSE "insert"
      /\ ruleset' = ruleset /\ i_s' = i_s /\ i_e' = i_e
      /\ rule_this_loop' = rule_this_loop /\ index_rule_this_loop' = index_rule_this_loop
      /\ inverse_index' = inverse_index
  BY DEF Deleted, vectors
<1>2. /\ N' = N /\ start_pointx' = start_pointx /\ end_pointx' = end_pointx /\ queries' = queries
      /\ RulesAt' = RulesAt
  BY <1>1, PointsStay
<1>3. SweepShape /\ StartsAreReached /\ EndsAreReached /\ VectorsFit /\ CountIsAttained /\ StartsAreCounted
  BY DEF SweepInv
<1>4. /\ N \in Nat \ {0} /\ i_s \in 1 .. N + 1 /\ i_e \in 1 .. N + 1 /\ qx \in 1 .. 2 * N /\ qx \in Nat \ {0}
      /\ ruleset \in Seq(Rule) /\ DOMAIN start_pointx = 1 .. N /\ DOMAIN end_pointx = 1 .. N
      /\ x \in Nat /\ PointsFit /\ max_POM \in Nat /\ changed \in BOOLEAN
      /\ \A k \in 1 .. N : start_pointx[k][1] \in Nat /\ end_pointx[k][1] \in Nat
      /\ LastLow \in [1 .. N -> Nat] /\ LastHigh \in [1 .. N -> Nat]
  BY <1>1, <1>3, PointFacts DEF SweepShape
<1>5. \A k \in 1 .. N : /\ \E i \in 1 .. N : start_pointx[k][1] = LastLow[i]
                        /\ \E i \in 1 .. N : end_pointx[k][1] = LastHigh[i]
  <2> TAKE k \in 1 .. N
  <2>1. IsPairOrder(start_pointx, N, LastLow) /\ IsPairOrder(end_pointx, N, LastHigh)
    BY <1>4 DEF PointsFit
  <2>2. /\ start_pointx[k][2] \in 1 .. N /\ end_pointx[k][2] \in 1 .. N
        /\ start_pointx[k][1] = LastLow[start_pointx[k][2]] /\ end_pointx[k][1] = LastHigh[end_pointx[k][2]]
    BY <2>1 DEF IsPairOrder
  <2> QED BY ONLY <2>2
<1>6. Len(queries) = 2 * N
  BY <1>4 DEF PointsFit
<1>7. qx = 2 * N => \A k \in 1 .. N : start_pointx[k][1] <= x
  <2>1. \A i \in 1 .. N : LastLow[i] <= queries[2 * N]
    BY <1>4 DEF PointsFit
  <2> QED BY <1>5, <2>1
<1>8. qx # 2 * N => /\ qx + 1 \in 1 .. 2 * N /\ x2 \in Nat /\ x <= x2
                    /\ \A k \in 1 .. N : /\ start_pointx[k][1] <= x \/ x2 <= start_pointx[k][1]
                                         /\ end_pointx[k][1] <= x \/ x2 <= end_pointx[k][1]
  <2> SUFFICES ASSUME qx # 2 * N PROVE /\ qx + 1 \in 1 .. 2 * N /\ x2 \in Nat /\ x <= x2
                    /\ \A k \in 1 .. N : /\ start_pointx[k][1] <= x \/ x2 <= start_pointx[k][1]
                                         /\ end_pointx[k][1] <= x \/ x2 <= end_pointx[k][1]
    OBVIOUS
  <2>1. qx \in 1 .. 2 * N - 1 /\ qx + 1 \in 1 .. 2 * N
    BY <1>4
  <2>2. /\ x <= x2
        /\ \A i \in 1 .. N : /\ LastLow[i] <= x \/ x2 <= LastLow[i]
                             /\ LastHigh[i] <= x \/ x2 <= LastHigh[i]
    BY <1>4, <2>1 DEF PointsFit
  <2>3. x2 \in Nat
    BY <1>4, <2>1 DEF PointsFit
  <2> QED BY <1>5, <2>1, <2>2, <2>3
<1>9. AtMostX = {y \in Nat : y <= x} /\ (qx # 2 * N => BelowX' = {y \in Nat : y < x2} /\ AtMostX' = {y \in Nat : y <= x2})
  BY <1>1, <1>2 DEF AtMostX, BelowX
<1> HIDE DEF x, x2
<1>10. /\ Open \in SUBSET Rule /\ RulesAt \in [Nat -> SUBSET Rule] /\ Open \subseteq RulesAt[x]
       /\ Passed(end_pointx, i_e, AtMostX) /\ Passed(start_pointx, i_s, AtMostX)
  BY <1>1, <1>3, <1>4, OpenIsRulesAt DEF x, StartsAreReached
<1>11. /\ Count \in Nat /\ max_POM <= Count
       /\ Count = max_POM \/ \E y \in Nat : Different(Open, y) = Count
  BY <1>4, <1>10, CountFits
<1>12. \A k \in 1 .. N : /\ k < i_s <=> start_pointx[k][1] <= x
                         /\ k < i_e <=> end_pointx[k][1] <= x
  <2>1. \A k \in 1 .. N : /\ k < i_s <=> start_pointx[k][1] \in AtMostX
                          /\ k < i_e <=> end_pointx[k][1] \in AtMostX
    BY ONLY <1>4, <1>10 DEF Passed
  <2> QED BY ONLY <1>4, <1>9, <2>1
<1>13. stage' = IF qx = 2 * N THEN "done" ELSE "insert"
  BY <1>1, <1>6
<1>14. SweepShape'
  <2>1. stage' \in {"insert", "delete", "done"} /\ changed' \in BOOLEAN
    BY ONLY <1>1, <1>13
  <2>2. max_POM' \in Nat
    BY ONLY <1>1, <1>11
  <2>3. qx' \in Nat \ {0} /\ (stage' # "done" => qx' \in 1 .. 2 * N)
    BY <1>1, <1>4, <1>8, <1>13
  <2> QED BY ONLY <1>1, <1>2, <1>4, <2>1, <2>2, <2>3 DEF SweepShape
<1>15. StartsAreReached'
  <2>1. CASE qx = 2 * N
    <3>1. i_s = N + 1
      <4>1. \A k \in 1 .. N : k < i_s
        BY <1>7, <1>12, <2>1
      <4>2. N \in 1 .. N
        BY <1>4
      <4>3. N < i_s
        BY <4>1, <4>2
      <4> QED BY ONLY <1>4, <4>3
    <3>2. stage' = "done"
      BY <1>13, <2>1
    <3> QED BY <1>1, <1>2, <3>1, <3>2 DEF StartsAreReached
  <2>2. CASE qx # 2 * N
    <3>1. \A k \in 1 .. N : /\ start_pointx[k][1] < x2 => k < i_s
                            /\ k < i_s => start_pointx[k][1] <= x2
      <4> TAKE k \in 1 .. N
      <4>1. start_pointx[k][1] \in Nat /\ x2 \in Nat /\ x <= x2
            /\ (start_pointx[k][1] <= x \/ x2 <= start_pointx[k][1])
            /\ (k < i_s <=> start_pointx[k][1] <= x)
        BY <1>4, <1>8, <1>12, <2>2
      <4> QED BY ONLY <1>4, <4>1
    <3>2. stage' = "insert"
      BY <1>13, <2>2
    <3> QED BY <1>1, <1>2, <3>1, <3>2 DEF StartsAreReached, x2
  <2> QED BY <2>1, <2>2
<1>16. EndsAreReached'
  <2>1. CASE qx = 2 * N
    BY <1>13, <2>1 DEF EndsAreReached
  <2>2. CASE qx # 2 * N /\ x = x2
    <3>1. AtMostX' = AtMostX
      BY <1>9, <2>2
    <3> QED BY <1>1, <1>2, <1>10, <1>13, <2>2, <3>1 DEF EndsAreReached
  <2>3. CASE qx # 2 * N /\ x # x2
    <3>1. \A k \in 1 .. N : k < i_e <=> end_pointx[k][1] \in BelowX'
      <4> TAKE k \in 1 .. N
      <4>1. end_pointx[k][1] \in Nat /\ x2 \in Nat /\ x <= x2 /\ x # x2
            /\ (end_pointx[k][1] <= x \/ x2 <= end_pointx[k][1])
            /\ (k < i_e <=> end_pointx[k][1] <= x)
        BY <1>4, <1>8, <1>12, <2>3
      <4>2. k < i_e <=> end_pointx[k][1] < x2
        BY ONLY <1>4, <4>1
      <4>3. BelowX' = {y \in Nat : y < x2}
        BY <1>9, <2>3
      <4> QED BY ONLY <4>1, <4>2, <4>3
    <3>2. Passed(end_pointx, i_e, BelowX')
      BY ONLY <1>4, <3>1 DEF Passed
    <3> QED BY <1>1, <1>2, <1>13, <2>3, <3>2 DEF EndsAreReached
  <2> QED BY <2>1, <2>2, <2>3
<1>17. VectorsFit'
  BY <1>1, <1>2, <1>3 DEF VectorsFit
<1>18. CountIsAttained'
  <2>1. CASE Count = max_POM
    BY <1>1, <1>2, <1>3, <2>1 DEF CountIsAttained
  <2>2. CASE \E y \in Nat : Different(Open, y) = Count
    <3>1. PICK y \in Nat : Different(Open, y) = Count
      BY <2>2
    <3>2. Count <= Different(RulesAt[x], y)
      <4> DEFINE inside(S) == {s \in S : Low(s, 1) <= y /\ y <= High(s, 1)}
      <4>1. inside(RulesAt[x]) \in SUBSET Rule /\ inside(Open) \in SUBSET inside(RulesAt[x])
        BY <1>4, <1>10
      <4>2. Cardinality({range[r] : r \in inside(Open)}) <= Cardinality({range[r] : r \in inside(RulesAt[x])})
        <5> HIDE DEF inside
        <5> QED BY ONLY <4>1, ImageGrows
      <4> QED BY <3>1, <4>2 DEF Different
    <3>3. max_POM' <= Different(RulesAt'[x], y)
      BY ONLY <1>1, <1>2, <3>2
    <3> QED BY <1>4, <3>3 DEF CountIsAttained
  <2> QED BY <1>11, <2>1, <2>2
<1>19. StartsAreCounted'
  <2>1. ASSUME NEW k \in 1 .. i_s - 1, NEW y \in Nat
        PROVE  Different(RulesAt[start_pointx[k][1]], y) <= Count
    <3>1. k \in 1 .. N
      BY <1>4
    <3>2. Different(RulesAt[start_pointx[k][1]], y) \in Nat
      <4>1. RulesAt[start_pointx[k][1]] \in SUBSET Rule
        BY <1>4, <1>10, <3>1
      <4>2. {s \in RulesAt[start_pointx[k][1]] : Low(s, 1) <= y /\ y <= High(s, 1)} \in SUBSET Rule
        BY <4>1
      <4> QED BY <4>2, ImageGrows DEF Different
    <3>3. Different(RulesAt[start_pointx[k][1]], y) <= max_POM
      BY <1>1, <1>3, <2>1 DEF StartsAreCounted
    <3> QED BY ONLY <1>4, <1>11, <3>2, <3>3
  <2> QED BY <1>1, <1>2, <2>1 DEF StartsAreCounted
<1> QED BY <1>14, <1>15, <1>16, <1>17, <1>18, <1>19 DEF SweepInv

\* The sweep keeps what it has counted and what it holds.
THEOREM SweepInvariance == IntersectionSpec => []SweepInv
<1>1. IntersectionInit(Rule) => SweepInv
  BY SweepStarts
<1>2. SweepInv /\ [IntersectionNext]_intersection => SweepInv'
  <2> SUFFICES ASSUME SweepInv, [IntersectionNext]_intersection PROVE SweepInv'
    OBVIOUS
  <2>1. CASE InsertOne
    BY <2>1, InsertOneSweeps
  <2>2. CASE Inserted
    BY <2>2, InsertedSweeps
  <2>3. CASE DeleteOne
    BY <2>3, DeleteOneSweeps
  <2>4. CASE Deleted
    BY <2>4, DeletedSweeps
  <2>5. CASE UNCHANGED intersection
    <3>1. /\ ruleset' = ruleset /\ qx' = qx /\ i_s' = i_s /\ i_e' = i_e /\ changed' = changed
          /\ max_POM' = max_POM /\ stage' = stage /\ rule_this_loop' = rule_this_loop
          /\ index_rule_this_loop' = index_rule_this_loop /\ inverse_index' = inverse_index
      BY <2>5 DEF intersection, vectors
    <3>2. /\ N' = N /\ start_pointx' = start_pointx /\ end_pointx' = end_pointx /\ queries' = queries
          /\ RulesAt' = RulesAt
      BY <3>1, PointsStay
    <3>3. AtMostX' = AtMostX /\ BelowX' = BelowX
      BY <3>1, <3>2 DEF AtMostX, BelowX
    <3>4. SweepShape'
      BY <3>1, <3>2 DEF SweepInv, SweepShape
    <3>5. StartsAreReached' /\ EndsAreReached'
      BY <3>1, <3>2, <3>3 DEF SweepInv, StartsAreReached, EndsAreReached
    <3>6. VectorsFit' /\ CountIsAttained'
      BY <3>1, <3>2 DEF SweepInv, VectorsFit, CountIsAttained
    <3>7. StartsAreCounted'
      BY <3>1, <3>2 DEF SweepInv, StartsAreCounted
    <3> QED BY <3>4, <3>5, <3>6, <3>7 DEF SweepInv
  <2> QED BY <2>1, <2>2, <2>3, <2>4, <2>5 DEF IntersectionNext
<1> QED BY <1>1, <1>2, PTL DEF IntersectionSpec

\* How many different rules a packet matches.
Busy(p) == Cardinality({range[r] : r \in Matching(Range(ruleset), p)})

\* Of the rules of a set, one begins last.
LEMMA OneBeginsLast ==
  ASSUME NEW T \in SUBSET Rule, T # {}, NEW f \in Field
  PROVE  \E r \in T : \A s \in T : Low(s, f) <= Low(r, f)
<1> DEFINE v == [r \in T |-> Low(r, f)]
<1>1. IsFiniteSet(T)
  BY RulesAssumption, FS_Subset
<1>2. v \in [T -> Nat]
  BY RulesAssumption DEF Low
<1>3. \E r \in T : \A s \in T : v[s] <= v[r]
  <2> DEFINE S == {v[r] : r \in T}
  <2> HIDE DEF v
  <2>1. PICK b \in Nat : \A r \in T : v[r] <= b
    BY <1>1, <1>2, FiniteHasBound
  <2>2. S \in SUBSET Nat /\ S # {} /\ \A x \in S : x <= b
    BY <1>2, <2>1
  <2> HIDE DEF S
  <2>3. PICK m \in S : \A x \in S : x <= m
    BY <2>2, BoundedHasMax
  <2> QED BY <2>3 DEF S
<1> QED BY <1>3

\* Those that match a packet are inside at its last field, and share its first.
LEMMA BusyIsDifferent ==
  ASSUME SweepShape, Dim = 2, NEW p \in [Field -> Nat]
  PROVE  /\ Matching(Range(ruleset), p) =
               {s \in RulesAt[p[2]] : Low(s, 1) <= p[1] /\ p[1] <= High(s, 1)}
         /\ Busy(p) = Different(RulesAt[p[2]], p[1])
         /\ \A y \in Nat : RulesAt[y] = {r \in Range(ruleset) : Low(r, 2) <= y /\ y <= High(r, 2)}
         /\ Range(ruleset) \in SUBSET Rule
<1>1. ruleset \in Seq(Rule) /\ N = Len(ruleset) /\ N \in Nat
  BY DEF SweepShape, N
<1>2. Range(ruleset) = {ruleset[i] : i \in 1 .. N}
  BY <1>1 DEF Range
<1>3. \A i \in 1 .. N : LastLow[i] = Low(ruleset[i], 2) /\ LastHigh[i] = High(ruleset[i], 2)
                        /\ ruleset[i] \in Rule
  BY <1>1 DEF LastLow, LastHigh
<1>4. \A y \in Nat : RulesAt[y] = {r \in Range(ruleset) : Low(r, 2) <= y /\ y <= High(r, 2)}
  BY <1>2, <1>3 DEF RulesAt
<1>5. p[2] \in Nat /\ Field = {1, 2}
  BY DEF Field
<1>6. Matching(Range(ruleset), p) =
         {s \in RulesAt[p[2]] : Low(s, 1) <= p[1] /\ p[1] <= High(s, 1)}
  BY <1>4, <1>5 DEF Matching, MatchesPacket
<1>7. Range(ruleset) \in SUBSET Rule
  BY <1>2, <1>3
<1> QED BY <1>4, <1>6, <1>7 DEF Busy, Different

\* Moved to the bounds where they begin, a packet matches the same rules.
LEMMA BusyIsCounted ==
  ASSUME SweepInv, stage = "done", Dim = 2, NEW p \in [Field -> Nat]
  PROVE  Busy(p) \in Nat /\ Busy(p) <= max_POM
<1> DEFINE T == Matching(Range(ruleset), p)
<1>1. /\ SweepShape /\ max_POM \in Nat /\ N \in Nat /\ i_s = N + 1
      /\ IsPairOrder(start_pointx, N, LastLow) /\ ruleset \in Seq(Rule)
  <2>1. SweepShape /\ i_s = N + 1
    BY DEF SweepInv, StartsAreReached
  <2>2. IsPairOrder(start_pointx, N, LastLow)
    BY <2>1, PointFacts
  <2> QED BY <2>1, <2>2 DEF SweepShape
<1>2. /\ T = {s \in RulesAt[p[2]] : Low(s, 1) <= p[1] /\ p[1] <= High(s, 1)}
      /\ \A y \in Nat : RulesAt[y] = {r \in Range(ruleset) : Low(r, 2) <= y /\ y <= High(r, 2)}
      /\ T \in SUBSET Range(ruleset) /\ Range(ruleset) \in SUBSET Rule
      /\ Field = {1, 2} /\ p[1] \in Nat /\ p[2] \in Nat
  BY <1>1, BusyIsDifferent DEF Field, Matching
<1>3. Busy(p) = Cardinality({range[r] : r \in T})
  BY DEF Busy
<1> HIDE DEF T
<1>4. Busy(p) \in Nat
  BY <1>2, <1>3, ImageGrows
<1>5. CASE T = {}
  <2>1. {range[r] : r \in T} = {}
    BY <1>5
  <2>2. Busy(p) = 0
    BY <1>3, <2>1, FS_EmptySet
  <2> QED BY <1>1, <2>2
<1>6. CASE T # {}
  <2>1. PICK r \in T : \A s \in T : Low(s, 2) <= Low(r, 2)
    BY <1>2, <1>6, OneBeginsLast
  <2>2. \A s \in T : s \in Rule /\ Low(s, 2) \in Nat /\ High(s, 2) \in Nat
    BY <1>2, RulesAssumption DEF Low, High
  <2> DEFINE y == Low(r, 2)
             inside == {s \in RulesAt[y] : Low(s, 1) <= p[1] /\ p[1] <= High(s, 1)}
  <2>3. y \in Nat /\ y <= p[2]
    BY <1>2, <2>1, <2>2
  <2>4. \A s \in T : /\ s \in Range(ruleset) /\ Low(s, 2) <= y /\ y <= High(s, 2)
                     /\ Low(s, 1) <= p[1] /\ p[1] <= High(s, 1)
    <3> TAKE s \in T
    <3>1. p[2] <= High(s, 2) /\ s \in Range(ruleset) /\ Low(s, 1) <= p[1] /\ p[1] <= High(s, 1)
      BY <1>2
    <3>2. y <= High(s, 2)
      BY <1>2, <2>2, <2>3, <3>1
    <3> QED BY <2>1, <3>1, <3>2
  <2>5. T \in SUBSET inside /\ inside \in SUBSET Rule
    BY <1>2, <2>3, <2>4
  <2>6. Different(RulesAt[y], p[1]) <= max_POM
    <3>1. PICK i \in 1 .. N : r = ruleset[i]
      BY <1>1, <1>2 DEF Range, N
    <3>2. PICK k \in 1 .. N : start_pointx[k][2] = i
      BY <1>1 DEF IsPairOrder
    <3>3. start_pointx[k][1] = y
      BY <1>1, <3>1, <3>2 DEF IsPairOrder, LastLow
    <3>4. k \in 1 .. i_s - 1
      BY <1>1
    <3>5. \A x \in Nat : Different(RulesAt[start_pointx[k][1]], x) <= max_POM
      BY <3>4 DEF SweepInv, StartsAreCounted
    <3> QED BY ONLY <1>2, <3>3, <3>5
  <2>7. /\ Different(RulesAt[y], p[1]) = Cardinality({range[s] : s \in inside})
        /\ Cardinality({range[s] : s \in inside}) \in Nat
        /\ Busy(p) <= Cardinality({range[s] : s \in inside})
    <3>1. Different(RulesAt[y], p[1]) = Cardinality({range[s] : s \in inside})
      BY DEF Different
    <3> HIDE DEF inside, y
    <3> QED BY <1>3, <2>5, <3>1, ImageGrows
  <2> HIDE DEF inside, y
  <2> QED BY ONLY <1>1, <1>4, <2>6, <2>7
<1> QED BY <1>4, <1>5, <1>6

\* What is counted is counted at a packet.
LEMMA CountIsBusy ==
  ASSUME SweepInv, Dim = 2, CornersArrive
  PROVE  \E p \in Packet : max_POM <= Busy(p)
<1>1. SweepShape /\ max_POM \in Nat /\ N \in Nat \ {0} /\ ruleset \in Seq(Rule) /\ N = Len(ruleset)
  BY DEF SweepInv, SweepShape, N
<1>2. PICK x \in Nat, y \in Nat : max_POM <= Different(RulesAt[y], x)
  BY DEF SweepInv, CountIsAttained
<1> DEFINE T == {s \in RulesAt[y] : Low(s, 1) <= x /\ x <= High(s, 1)}
<1>3. Field = {1, 2}
  BY DEF Field
<1>4. /\ RulesAt[y] = {r \in Range(ruleset) : Low(r, 2) <= y /\ y <= High(r, 2)}
      /\ Range(ruleset) \in SUBSET Rule
  <2>1. [f \in Field |-> 0] \in [Field -> Nat]
    OBVIOUS
  <2> QED BY <1>1, <2>1, BusyIsDifferent
<1>5. T \in SUBSET Rule
  BY <1>4
<1>6. max_POM <= Cardinality({range[r] : r \in T}) /\ Cardinality({range[r] : r \in T}) \in Nat
  <2>1. max_POM <= Cardinality({range[r] : r \in T})
    BY <1>2 DEF Different
  <2> HIDE DEF T
  <2> QED BY <1>5, <2>1, ImageGrows
<1>7. \E p \in Packet : T \in SUBSET Matching(Range(ruleset), p)
  <2>1. CASE T = {}
    <3>1. ruleset[1] \in Rule
      BY <1>1
    <3>2. [f \in Field |-> ruleset[1]] \in [Field -> Rule]
      BY <3>1
    <3>3. Packet # {}
      BY <3>2 DEF CornersArrive
    <3> HIDE DEF T
    <3> QED BY <2>1, <3>3
  <2>2. CASE T # {}
    <3>1. PICK r1 \in T : \A s \in T : Low(s, 1) <= Low(r1, 1)
      <4> HIDE DEF T
      <4> QED BY <1>3, <1>5, <2>2, OneBeginsLast
    <3>2. PICK r2 \in T : \A s \in T : Low(s, 2) <= Low(r2, 2)
      <4> HIDE DEF T
      <4> QED BY <1>3, <1>5, <2>2, OneBeginsLast
    <3> DEFINE c == [f \in Field |-> IF f = 1 THEN r1 ELSE r2]
               p == [f \in Field |-> Low(c[f], f)]
    <3>3. c \in [Field -> Rule] /\ c[1] = r1 /\ c[2] = r2
      BY <1>3, <1>5
    <3>4. p \in Packet /\ p[1] = Low(r1, 1) /\ p[2] = Low(r2, 2)
      BY <1>3, <3>3 DEF CornersArrive
    <3> HIDE DEF p, c
    <3>5. \A s \in T : /\ s \in Rule /\ Low(s, 1) \in Nat /\ High(s, 1) \in Nat /\ Low(s, 2) \in Nat /\ High(s, 2) \in Nat
      BY <1>3, <1>5, RulesAssumption DEF Low, High
    <3>6. \A s \in T : /\ s \in Range(ruleset) /\ Low(s, 1) <= x /\ x <= High(s, 1)
                       /\ Low(s, 2) <= y /\ y <= High(s, 2)
      BY <1>4
    <3> HIDE DEF T
    <3>7. ASSUME NEW s \in T PROVE s \in Range(ruleset) /\ MatchesPacket(s, p)
      <4>1. Low(s, 1) <= p[1] /\ p[1] <= High(s, 1)
        BY ONLY <1>2, <3>1, <3>4, <3>5, <3>6, <3>7
      <4>2. Low(s, 2) <= p[2] /\ p[2] <= High(s, 2)
        BY ONLY <1>2, <3>2, <3>4, <3>5, <3>6, <3>7
      <4> QED BY <1>3, <3>6, <4>1, <4>2 DEF MatchesPacket
    <3> QED BY <3>4, <3>7 DEF Matching
  <2> QED BY <2>1, <2>2
<1>8. PICK p \in Packet : T \in SUBSET Matching(Range(ruleset), p)
  BY <1>7
<1>9. Matching(Range(ruleset), p) \in SUBSET Rule
  BY <1>4 DEF Matching
<1> HIDE DEF T
<1>10. /\ Cardinality({range[r] : r \in T}) <= Busy(p) /\ Busy(p) \in Nat
  BY <1>8, <1>9, ImageGrows DEF Busy
<1> QED BY <1>1, <1>6, <1>8, <1>10

\* ComputeMaxIntersection returns the number of different rules at the packet that
\* matches the most of them, for rules of two fields, when the packets include the
\* points where intervals begin.
THEOREM CountsBusiestPacketAlways ==
  ASSUME Dim = 2, CornersArrive
  PROVE  IntersectionSpec => []CountsBusiestPacket
<1>1. SweepInv => CountsBusiestPacket
  <2> SUFFICES ASSUME SweepInv, stage = "done"
               PROVE  max_POM = Max({Busy(p) : p \in Packet})
    BY DEF CountsBusiestPacket, Busy
  <2>1. \A p \in Packet : Busy(p) \in Nat /\ Busy(p) <= max_POM
    BY BusyIsCounted, RulesAssumption
  <2>2. PICK p \in Packet : max_POM <= Busy(p)
    BY CountIsBusy
  <2>3. max_POM \in Nat
    BY DEF SweepInv, SweepShape
  <2>4. max_POM = Busy(p)
    BY <2>1, <2>2, <2>3
  <2> DEFINE B == {Busy(q) : q \in Packet}
  <2>5. B \in SUBSET Int /\ max_POM \in B /\ \A b \in B : b <= max_POM
    BY <2>1, <2>4
  <2> HIDE DEF B
  <2>6. Max(B) = max_POM
    BY <2>5, MaxProperty
  <2> QED BY <2>6 DEF B
<1> QED BY <1>1, SweepInvariance, PTL

==============================================================================
