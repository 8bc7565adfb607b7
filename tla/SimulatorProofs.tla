---------------------------- MODULE SimulatorProofs ----------------------------
(***************************************************************************)
(* Proofs about Simulator, for every rule set, any numbers of requests and *)
(* any number of trials: the pools divide the rules, the classifier holds  *)
(* the rules in use, the calls are legal, and the requests can be replayed *)
(* from trial to trial.                                                    *)
(***************************************************************************)
EXTENDS Simulator, RulesProofs

------------------------------------------------------------------------------
(* Pools                                                                   *)

\* Two vectors that hold each rule exactly once.
Divided(u, a) ==
    /\ u \in Seq(Rule) /\ a \in Seq(Rule)
    /\ Distinct(u) /\ Distinct(a)
    /\ ToSet(u) \cap ToSet(a) = {} /\ ToSet(u) \cup ToSet(a) = Rule
    /\ Len(u) + Len(a) = N

\* There are finitely many rules.
LEMMA NType == N \in Nat /\ N \div 2 \in Nat /\ N \div 2 <= N
BY FS_CardinalityType, RulesAssumption DEF N

\* A pool that holds each of its rules once loses just the one popped.
LEMMA PopFromProperties ==
  ASSUME NEW s \in Seq(Rule), NEW k \in DOMAIN s, Distinct(s)
  PROVE  /\ PopFrom(s, k) \in Seq(Rule) /\ Len(PopFrom(s, k)) = Len(s) - 1
         /\ Distinct(PopFrom(s, k)) /\ ToSet(PopFrom(s, k)) = ToSet(s) \ {s[k]}
BY RemovalProperties, RemovalDistinct DEF PopFrom, Elements, ToSet

\* And a rule that is not in a pool can be added to it.
LEMMA PushBackProperties ==
  ASSUME NEW s \in Seq(Rule), NEW r \in Rule, Distinct(s), r \notin ToSet(s)
  PROVE  /\ Append(s, r) \in Seq(Rule) /\ Len(Append(s, r)) = Len(s) + 1
         /\ Distinct(Append(s, r)) /\ ToSet(Append(s, r)) = ToSet(s) \cup {r}
BY AppendDistinct DEF Elements, ToSet

\* Moving a rule from one pool to the end of the other loses none.
LEMMA MoveKeepsPools ==
  ASSUME NEW u, NEW a, Divided(u, a), NEW k \in DOMAIN a
  PROVE  /\ Divided(Append(u, a[k]), PopFrom(a, k))
         /\ Divided(PopFrom(a, k), Append(u, a[k]))
         /\ Len(Append(u, a[k])) = Len(u) + 1 /\ Len(PopFrom(a, k)) = Len(a) - 1
         /\ a[k] \in Rule /\ a[k] \notin ToSet(u)
<1>1. u \in Seq(Rule) /\ a \in Seq(Rule) /\ Len(u) \in Nat /\ Len(a) \in Nat
  BY DEF Divided
<1>2. a[k] \in ToSet(a) /\ a[k] \in Rule /\ a[k] \notin ToSet(u)
  BY DEF ToSet, Divided
<1>3. /\ Append(u, a[k]) \in Seq(Rule) /\ Len(Append(u, a[k])) = Len(u) + 1
      /\ Distinct(Append(u, a[k])) /\ ToSet(Append(u, a[k])) = ToSet(u) \cup {a[k]}
  BY <1>1, <1>2, PushBackProperties DEF Divided
<1>4. /\ PopFrom(a, k) \in Seq(Rule) /\ Len(PopFrom(a, k)) = Len(a) - 1
      /\ Distinct(PopFrom(a, k)) /\ ToSet(PopFrom(a, k)) = ToSet(a) \ {a[k]}
  BY <1>1, PopFromProperties DEF Divided
<1>5. Len(Append(u, a[k])) + Len(PopFrom(a, k)) = N
  BY <1>1, <1>3, <1>4 DEF Divided
<1> QED BY <1>1, <1>2, <1>3, <1>4, <1>5 DEF Divided

\* The order of the two pools does not matter.
LEMMA DividedSymmetric ==
  ASSUME NEW u, NEW a, Divided(u, a)
  PROVE  Divided(a, u)
BY DEF Divided

------------------------------------------------------------------------------
(* Counting requests                                                       *)

\* How many of the first k requests are of a type.
Positions(s, type, k) == {j \in 1 .. k : s[j] = type}
Amount(s, type, k) == Cardinality(Positions(s, type, k))

\* Amounts are numbers, start at 0 and go up by one at a request of the type.
LEMMA AmountSteps ==
  ASSUME NEW s, NEW type, NEW k \in Nat
  PROVE  /\ IsFiniteSet(Positions(s, type, k)) /\ Amount(s, type, k) \in Nat
         /\ Amount(s, type, 0) = 0
         /\ Amount(s, type, k + 1) = Amount(s, type, k) + IF s[k + 1] = type THEN 1 ELSE 0
<1>1. \A n \in Nat : IsFiniteSet(Positions(s, type, n))
  <2> SUFFICES ASSUME NEW n \in Nat PROVE IsFiniteSet(Positions(s, type, n))
    OBVIOUS
  <2>1. IsFiniteSet(1 .. n)
    BY FS_Interval
  <2> QED BY <2>1, FS_Subset DEF Positions
<1>2. Amount(s, type, k) \in Nat
  BY <1>1, FS_CardinalityType DEF Amount
<1>3. Amount(s, type, 0) = 0
  <2>1. Positions(s, type, 0) = {}
    BY DEF Positions
  <2> QED BY <2>1, FS_EmptySet DEF Amount
<1>4. CASE s[k + 1] = type
  <2>1. Positions(s, type, k + 1) = Positions(s, type, k) \cup {k + 1}
    BY <1>4 DEF Positions
  <2>2. k + 1 \notin Positions(s, type, k)
    BY DEF Positions
  <2> QED BY <1>1, <1>2, <1>3, <1>4, <2>1, <2>2, FS_AddElement DEF Amount
<1>5. CASE s[k + 1] # type
  <2>1. Positions(s, type, k + 1) = Positions(s, type, k)
    BY <1>5 DEF Positions
  <2> QED BY <1>1, <1>2, <1>3, <1>5, <2>1 DEF Amount
<1> QED BY <1>4, <1>5

\* An amount depends on the first k requests only.
LEMMA AmountOfEqual ==
  ASSUME NEW s, NEW t, NEW k \in Nat, \A j \in 1 .. k : s[j] = t[j], NEW type
  PROVE  Amount(s, type, k) = Amount(t, type, k)
<1>1. Positions(s, type, k) = Positions(t, type, k)
  BY DEF Positions
<1> QED BY <1>1 DEF Amount

\* What the first k requests lack of the whole amount comes later: nothing, if no
\* later request has the type, and at least one, if one has.
LEMMA AmountOfRest ==
  ASSUME NEW s, NEW type, NEW n \in Nat, NEW k \in 0 .. n
  PROVE  /\ Amount(s, type, k) <= Amount(s, type, n)
         /\ (\A j \in k + 1 .. n : s[j] # type) => Amount(s, type, k) = Amount(s, type, n)
         /\ (\E j \in k + 1 .. n : s[j] = type) => Amount(s, type, k) < Amount(s, type, n)
<1>1. IsFiniteSet(Positions(s, type, n)) /\ Amount(s, type, n) \in Nat /\ Amount(s, type, k) \in Nat
  BY AmountSteps
<1>2. Positions(s, type, k) \in SUBSET Positions(s, type, n)
  BY DEF Positions
<1>3. Amount(s, type, k) <= Amount(s, type, n)
  BY <1>1, <1>2, FS_Subset DEF Amount
<1>4. ASSUME \A j \in k + 1 .. n : s[j] # type
      PROVE  Amount(s, type, k) = Amount(s, type, n)
  <2>1. Positions(s, type, k) = Positions(s, type, n)
    BY <1>4 DEF Positions
  <2> QED BY <2>1 DEF Amount
<1>5. ASSUME NEW j \in k + 1 .. n, s[j] = type
      PROVE  Amount(s, type, k) < Amount(s, type, n)
  <2>1. Positions(s, type, k) # Positions(s, type, n)
    BY <1>5 DEF Positions
  <2>2. Amount(s, type, k) # Amount(s, type, n)
    BY <1>1, <1>2, <2>1, FS_Subset DEF Amount
  <2> QED BY <1>1, <1>3, <2>2
<1> QED BY <1>3, <1>4, <1>5

\* The amounts GenerateRequests asks for.
LEMMA GeneratedAmounts ==
  ASSUME NEW s \in GenerateRequests
  PROVE  /\ NumRequest \in Nat
         /\ s \in [1 .. NumRequest -> Request]
         /\ Amount(s, "Insertion", NumRequest) = NumInsert
         /\ Amount(s, "Deletion", NumRequest) = NumInsert
<1>1. NumRequest \in Nat
  BY SimulatorAssumption DEF NumRequest
<1>2. s \in [1 .. NumRequest -> Request] /\ DOMAIN s = 1 .. NumRequest
  BY DEF GenerateRequests
<1> QED BY <1>1, <1>2, SimulatorAssumption DEF GenerateRequests, IsAmount, Amount, Positions

\* Where packets are to be classified there are packets.
LEMMA PacketsAreThere ==
  ASSUME NEW s \in GenerateRequests, NEW k \in 1 .. NumRequest, s[k] = "ClassifyPacket"
  PROVE  Len(packets) \in Nat \ {0}
<1> DEFINE I == Positions(s, "Insertion", NumRequest)
           D == Positions(s, "Deletion", NumRequest)
<1>1. /\ NumRequest \in Nat /\ NumInsert \in Nat
      /\ Cardinality(I) = NumInsert /\ Cardinality(D) = NumInsert
      /\ IsFiniteSet(I) /\ IsFiniteSet(D)
  BY GeneratedAmounts, AmountSteps, SimulatorAssumption DEF Amount
<1>2. I \cap D = {} /\ k \notin I \cup D /\ I \cup D \in SUBSET (1 .. NumRequest)
  BY DEF Positions
<1> HIDE DEF I, D
<1>3. IsFiniteSet(I \cup D) /\ Cardinality(I \cup D) = NumInsert + NumInsert
  BY <1>1, <1>2, FS_Union, FS_EmptySet
<1>4. IsFiniteSet(1 .. NumRequest) /\ Cardinality(1 .. NumRequest) = NumRequest
  BY <1>1, FS_Interval
<1>5. NumInsert + NumInsert < NumRequest
  <2>1. I \cup D # 1 .. NumRequest
    BY <1>2
  <2>2. Cardinality(I \cup D) <= Cardinality(1 .. NumRequest)
        /\ Cardinality(I \cup D) # Cardinality(1 .. NumRequest)
    BY <1>2, <1>4, <2>1, FS_Subset
  <2> QED BY <1>1, <1>3, <1>4, <2>2
<1>6. NumPacket \in Nat /\ Len(packets) \in Nat /\ NumPacket <= Len(packets)
  BY SimulatorAssumption
<1> QED BY <1>1, <1>5, <1>6, SimulatorAssumption DEF NumRequest

\* Exchanging a request with a later one keeps the amounts.
LEMMA ExchangeKeepsAmounts ==
  ASSUME NEW s \in GenerateRequests, NEW k \in 1 .. NumRequest, NEW j \in k + 1 .. NumRequest,
         s[k] \in {"Insertion", "Deletion"}, s[j] = Opposite(s[k]),
         NEW t \in [1 .. NumRequest -> Request], t[k] = Opposite(s[k]), t[j] = s[k],
         \A l \in 1 .. NumRequest : l # k /\ l # j => t[l] = s[l]
  PROVE  t \in GenerateRequests
<1>1. NumRequest \in Nat /\ s \in [1 .. NumRequest -> Request] /\ k # j /\ j \in 1 .. NumRequest
  BY GeneratedAmounts
<1>2. Opposite(s[k]) \in Request /\ Opposite(s[k]) # s[k] /\ s[k] \in Request
      /\ Opposite(s[k]) \in {"Insertion", "Deletion"}
  BY DEF Opposite, Request
<1> DEFINE a == s[k]
           b == Opposite(s[k])
<1>3. /\ t \in [1 .. NumRequest -> Request]
      /\ t[k] = b /\ t[j] = a
      /\ \A l \in 1 .. NumRequest : l # k /\ l # j => t[l] = s[l]
  BY <1>1, <1>2
<1>4. s[j] = b /\ s[k] = a /\ a # b
  BY <1>2
<1> HIDE DEF a, b
<1>5. ASSUME NEW type, NEW c, NEW d, c \in 1 .. NumRequest, d \in 1 .. NumRequest, c # d,
             s[c] = type, s[d] # type, t[d] = type, t[c] # type,
             \A l \in 1 .. NumRequest : l # c /\ l # d => t[l] = s[l]
      PROVE  Amount(t, type, NumRequest) = Amount(s, type, NumRequest)
  <2> DEFINE S == Positions(s, type, NumRequest)
             T == Positions(t, type, NumRequest)
  <2>1. IsFiniteSet(S) /\ Cardinality(S) \in Nat
    BY <1>1, AmountSteps DEF Amount
  <2>2. T = (S \ {c}) \cup {d} /\ c \in S /\ d \notin S
    BY <1>5 DEF Positions
  <2> HIDE DEF S, T
  <2>3. IsFiniteSet(S \ {c}) /\ Cardinality(S \ {c}) = Cardinality(S) - 1
    BY <2>1, <2>2, FS_RemoveElement
  <2>4. Cardinality(T) = Cardinality(S \ {c}) + 1
    BY <2>2, <2>3, FS_AddElement
  <2> QED BY <2>1, <2>3, <2>4 DEF Amount, S, T
<1>6. Amount(t, a, NumRequest) = Amount(s, a, NumRequest)
  BY <1>1, <1>3, <1>4, <1>5
<1>7. Amount(t, b, NumRequest) = Amount(s, b, NumRequest)
  BY <1>1, <1>3, <1>4, <1>5
<1>8. {a, b} = {"Insertion", "Deletion"}
  BY DEF a, b, Opposite
<1>9. /\ Amount(t, "Insertion", NumRequest) = NumInsert
      /\ Amount(t, "Deletion", NumRequest) = NumInsert
  BY <1>6, <1>7, <1>8, GeneratedAmounts
<1>10. DOMAIN t = 1 .. NumRequest
  BY <1>3
<1>11. t \in GenerateRequests
  BY <1>3, <1>9, <1>10, SimulatorAssumption DEF GenerateRequests, IsAmount, Amount, Positions
<1> QED BY <1>11

------------------------------------------------------------------------------
(* The pools and the classifier                                            *)

\* Members and working copies each hold every rule once.
PoolsInv ==
    /\ Divided(rules_in_use, available_pool)
    /\ Divided(rules_in_use_temp, available_pool_temp)

\* The classifier is empty, under construction, or holds the rules in use.
ClassifierInv ==
    /\ phase \in {"adjust", "trace", "construct", "perform", "done"}
    /\ phase \in {"adjust", "trace"} => rules = <<>>
    /\ phase = "construct" =>
         /\ rules \in Seq(Rule) /\ Len(rules) <= Len(rules_in_use_temp)
         /\ \A j \in 1 .. Len(rules) : rules[j] = rules_in_use_temp[j]
    /\ phase \in {"perform", "done"} => rules = rules_in_use_temp

\* The requests stay those asked for, and an answer belongs to a classification.
RequestsInv ==
    /\ i \in Nat \ {0}
    /\ sequence \in GenerateRequests
    /\ packet_counter \in Nat \ {0}
    /\ Len(packets) \in Nat \ {0} => packet_counter <= Len(packets)
    /\ answer # NoAnswer => Performing("ClassifyPacket")

IInv == PoolsInv /\ ClassifierInv /\ RequestsInv

\* The exchanged request is a later one of the opposite type.
LEMMA FurthestIsLater ==
  ASSUME NEW k \in Nat, NEW n \in Nat, NEW S \in SUBSET (k + 1 .. n), S # {}
  PROVE  Max(S) \in S
<1>1. S \in SUBSET Nat
  OBVIOUS
<1>2. IsFiniteSet(k + 1 .. n)
  BY FS_Interval
<1>3. IsFiniteSet(S)
  BY <1>2, FS_Subset
<1> QED BY <1>1, <1>3, MaxOfFinite

\* Both outcomes of an exchange.
LEMMA ExchangeCases ==
  ASSUME RequestsInv, i <= NumRequest, Exchange, sequence[i] \in {"Insertion", "Deletion"}
  PROVE  /\ sequence' \in GenerateRequests
         /\ \A l \in 1 .. i - 1 : sequence'[l] = sequence[l]
         /\ \/ /\ \A j \in i + 1 .. NumRequest : sequence[j] # Opposite(sequence[i])
               /\ UNCHANGED <<sequence, current_size>>
            \/ /\ sequence'[i] = Opposite(sequence[i])
               /\ current_size' = current_size + SwapEffect(sequence[i])
<1> DEFINE later == {j \in i + 1 .. NumRequest : sequence[j] = Opposite(sequence[i])}
<1>1. NumRequest \in Nat /\ i \in 1 .. NumRequest /\ i \in Nat
  BY GeneratedAmounts DEF RequestsInv
<1>2. CASE later = {}
  BY <1>1, <1>2 DEF Exchange, RequestsInv
<1>3. CASE later # {}
  <2>1. Max(later) \in later
    <3>1. later \in SUBSET (i + 1 .. NumRequest)
      OBVIOUS
    <3> HIDE DEF later
    <3> QED BY <1>1, <1>3, <3>1, FurthestIsLater
  <2>2. PICK j \in i + 1 .. NumRequest :
          /\ sequence[j] = Opposite(sequence[i])
          /\ sequence' = [sequence EXCEPT ![i] = Opposite(sequence[i]), ![j] = sequence[i]]
          /\ current_size' = current_size + SwapEffect(sequence[i])
    BY <1>3, <2>1 DEF Exchange
  <2>3. sequence \in GenerateRequests
    BY DEF RequestsInv
  <2>4. sequence \in [1 .. NumRequest -> Request] /\ Opposite(sequence[i]) \in Request
    BY <2>3, GeneratedAmounts DEF Opposite, Request
  <2>5. /\ sequence' \in [1 .. NumRequest -> Request]
        /\ sequence'[i] = Opposite(sequence[i]) /\ sequence'[j] = sequence[i]
        /\ \A l \in 1 .. NumRequest : l # i /\ l # j => sequence'[l] = sequence[l]
    BY <1>1, <2>2, <2>4
  <2>6. sequence' \in GenerateRequests
    BY <1>1, <2>2, <2>3, <2>5, ExchangeKeepsAmounts
  <2>7. \A l \in 1 .. i - 1 : sequence'[l] = sequence[l]
    BY <1>1, <2>2, <2>5
  <2> QED BY <2>2, <2>5, <2>6, <2>7
<1> QED BY <1>2, <1>3

\* A shuffle of the rules, cut in two.
LEMMA ShuffleDivides ==
  ASSUME NEW s \in SetToSeqs(Rule)
  PROVE  /\ Divided(SubSeq(s, 1, N \div 2), SubSeq(s, N \div 2 + 1, N))
         /\ Len(SubSeq(s, 1, N \div 2)) = N \div 2
<1> DEFINE h == N \div 2
           u == SubSeq(s, 1, h)
           a == SubSeq(s, h + 1, N)
<1>1. h \in Nat /\ N \in Nat /\ h <= N
  BY NType
<1>2. s \in [1 .. N -> Rule] /\ (\A x, y \in 1 .. N : s[x] = s[y] => x = y)
      /\ \A r \in Rule : \E x \in 1 .. N : s[x] = r
  <2>1. s \in [1 .. N -> Rule] /\ \A x, y \in 1 .. N : x # y => s[x] # s[y]
    BY DEF SetToSeqs, N
  <2>2. s \in Injection(1 .. N, Rule)
    BY <2>1 DEF Injection, IsInjective
  <2>3. s \in Surjection(1 .. N, Rule)
    <3>1. Cardinality(1 .. N) = Cardinality(Rule)
      BY <1>1, FS_Interval DEF N
    <3> QED BY <2>2, <3>1, FS_Injection, RulesAssumption
  <2> QED BY <2>1, <2>3 DEF Surjection
<1>3. s \in Seq(Rule) /\ Len(s) = N
  BY <1>1, <1>2, LenProperties
<1> HIDE DEF h
<1>4. u \in Seq(Rule) /\ Len(u) = h /\ \A j \in 1 .. h : u[j] = s[j]
  BY <1>1, <1>3, SubSeqProperties
<1>5. a \in Seq(Rule) /\ Len(a) = N - h /\ \A j \in 1 .. N - h : a[j] = s[h + j]
  BY <1>1, <1>3, SubSeqProperties
<1> HIDE DEF u, a
<1>6. DOMAIN u = 1 .. h /\ DOMAIN a = 1 .. N - h
  BY <1>4, <1>5, LenProperties
<1>7. Distinct(u) /\ Distinct(a) /\ ToSet(u) \cap ToSet(a) = {}
  <2>1. \A j \in 1 .. h : j \in 1 .. N
    BY <1>1
  <2>2. \A j \in 1 .. N - h : h + j \in 1 .. N /\ ~(h + j \in 1 .. h)
    BY <1>1
  <2>3. \A j, k \in 1 .. N - h : h + j = h + k => j = k
    BY <1>1
  <2>4. Distinct(u)
    BY <1>2, <1>4, <1>6, <2>1 DEF Distinct
  <2>5. Distinct(a)
    BY <1>2, <1>5, <1>6, <2>2, <2>3 DEF Distinct
  <2>6. ToSet(u) \cap ToSet(a) = {}
    BY <1>2, <1>4, <1>5, <1>6, <2>1, <2>2 DEF ToSet
  <2> QED BY <2>4, <2>5, <2>6
<1>8. ToSet(u) \cup ToSet(a) = Rule
  <2>1. ToSet(u) \cup ToSet(a) \subseteq Rule
    BY <1>4, <1>5, <1>6 DEF ToSet
  <2>2. ASSUME NEW r \in Rule PROVE r \in ToSet(u) \cup ToSet(a)
    <3>1. PICK x \in 1 .. N : s[x] = r
      BY <1>2
    <3>2. CASE x <= h
      BY <1>1, <1>4, <1>6, <3>1, <3>2 DEF ToSet
    <3>3. CASE ~(x <= h)
      <4>1. x - h \in 1 .. N - h /\ h + (x - h) = x
        BY <1>1, <3>3
      <4> QED BY <1>5, <1>6, <3>1, <4>1 DEF ToSet
    <3> QED BY <3>2, <3>3
  <2> QED BY <2>1, <2>2
<1>9. Len(u) + Len(a) = N
  BY <1>1, <1>4, <1>5
<1> QED BY <1>4, <1>5, <1>7, <1>8, <1>9 DEF Divided, u, a, h

\* Initially the shuffled rules are divided and the classifier is empty.
LEMMA InvInit == Init => IInv
<1> SUFFICES ASSUME Init PROVE IInv
  OBVIOUS
<1>1. PICK shuff_rules \in SetToSeqs(Rule) :
        /\ rules_in_use = SubSeq(shuff_rules, 1, N \div 2)
        /\ available_pool = SubSeq(shuff_rules, N \div 2 + 1, N)
  BY DEF Init
<1>2. PoolsInv
  BY <1>1, ShuffleDivides DEF Init, PoolsInv
<1>3. ClassifierInv /\ RequestsInv
  BY DEF Init, ClassifierInv, RequestsInv
<1> QED BY <1>2, <1>3 DEF IInv

\* Every step keeps the pools divided.
LEMMA PoolsStep ==
  ASSUME IInv, Next
  PROVE  PoolsInv'
<1>1. PoolsInv
  BY DEF IInv
<1>2. CASE Adjust \/ BeginTrace \/ ConstructClassifier \/ BeginTrial
           \/ PerformClassification \/ PushResult \/ EndOfTrials
  BY <1>1, <1>2 DEF PoolsInv, Adjust, Exchange, Keep, BeginTrace, ConstructClassifier, BeginTrial,
                    PerformClassification, PushResult, EndOfTrials, setup, books
<1>3. CASE BeginPerform
  BY <1>1, <1>3 DEF PoolsInv, BeginPerform, setup
<1>4. CASE DrawPosition
  <2>1. UNCHANGED <<rules_in_use, available_pool>>
    BY <1>4 DEF DrawPosition
  <2>2. ASSUME NEW k \in DOMAIN available_pool_temp,
               rules_in_use_temp' = Append(rules_in_use_temp, available_pool_temp[k]),
               available_pool_temp' = PopFrom(available_pool_temp, k)
        PROVE  PoolsInv'
    BY <1>1, <2>1, <2>2, MoveKeepsPools DEF PoolsInv
  <2>3. ASSUME NEW k \in DOMAIN rules_in_use_temp,
               available_pool_temp' = Append(available_pool_temp, rules_in_use_temp[k]),
               rules_in_use_temp' = PopFrom(rules_in_use_temp, k)
        PROVE  PoolsInv'
    BY <1>1, <2>1, <2>3, MoveKeepsPools, DividedSymmetric DEF PoolsInv
  <2>4. ASSUME UNCHANGED books PROVE PoolsInv'
    BY <1>1, <2>1, <2>4 DEF PoolsInv, books
  <2> QED BY <1>4, <2>2, <2>3, <2>4 DEF DrawPosition
<1>5. CASE PerformInsertion
  BY <1>1, <1>5, MoveKeepsPools DEF PoolsInv, PerformInsertion, setup
<1>6. CASE PerformDeletion
  BY <1>1, <1>6, MoveKeepsPools, DividedSymmetric DEF PoolsInv, PerformDeletion, setup
<1> QED BY <1>2, <1>3, <1>4, <1>5, <1>6 DEF Next

\* Every step keeps the classifier level with the rules in use.
LEMMA ClassifierStep ==
  ASSUME IInv, Next
  PROVE  ClassifierInv'
<1>1. /\ ClassifierInv
      /\ rules_in_use_temp \in Seq(Rule)
  BY DEF IInv, PoolsInv, Divided
<1>2. CASE Adjust \/ BeginTrace \/ DrawPosition \/ BeginPerform
  <2>1. phase \in {"adjust", "trace"} /\ phase' \in {"adjust", "trace", "construct"} /\ rules' = rules
    BY <1>2 DEF Adjust, BeginTrace, DrawPosition, BeginPerform
  <2>2. rules' = <<>>
    BY <1>1, <2>1 DEF ClassifierInv
  <2>3. rules_in_use_temp' \in Seq(Rule)
    BY PoolsStep DEF PoolsInv, Divided
  <2> QED BY <2>1, <2>2, <2>3 DEF ClassifierInv
<1>3. CASE ConstructClassifier
  <2>1. /\ phase = "construct" /\ phase' = "construct" /\ Len(rules) < Len(rules_in_use_temp)
        /\ rules_in_use_temp' = rules_in_use_temp
        /\ rules' = Append(rules, rules_in_use_temp[Len(rules) + 1])
        /\ rules \in Seq(Rule)
        /\ \A j \in 1 .. Len(rules) : rules[j] = rules_in_use_temp[j]
    BY <1>1, <1>3 DEF ConstructClassifier, ClassifierInv, books
  <2>2. Len(rules) \in Nat /\ Len(rules_in_use_temp) \in Nat
    BY <1>1, <2>1
  <2>3. rules_in_use_temp[Len(rules) + 1] \in Rule
    <3>1. Len(rules) + 1 \in 1 .. Len(rules_in_use_temp)
      BY <2>1, <2>2
    <3> QED BY <1>1, <3>1, ElementOfSeq
  <2>4. /\ rules' \in Seq(Rule) /\ Len(rules') = Len(rules) + 1
        /\ rules'[Len(rules) + 1] = rules_in_use_temp[Len(rules) + 1]
        /\ \A j \in 1 .. Len(rules) : rules'[j] = rules[j]
    BY <2>1, <2>3, AppendProperties
  <2>5. \A j \in 1 .. Len(rules') : rules'[j] = rules_in_use_temp[j]
    BY <2>1, <2>2, <2>4
  <2> QED BY <2>1, <2>2, <2>4, <2>5 DEF ClassifierInv
<1>4. CASE BeginTrial
  <2>1. CASE phase = "perform"
    BY <1>1, <1>4, <2>1 DEF ClassifierInv, BeginTrial, books
  <2>2. CASE phase = "construct" /\ Len(rules) = Len(rules_in_use_temp)
    <3>1. rules = rules_in_use_temp
      BY <1>1, <2>2, SeqEqual DEF ClassifierInv
    <3> QED BY <1>4, <3>1 DEF ClassifierInv, BeginTrial, books
  <2> QED BY <1>4, <2>1, <2>2 DEF BeginTrial
<1>5. CASE PerformInsertion
  BY <1>1, <1>5 DEF ClassifierInv, PerformInsertion, Performing
<1>6. CASE PerformDeletion
  BY <1>1, <1>6 DEF ClassifierInv, PerformDeletion, Performing, PopFrom, Classifier!MoveLastInto
<1>7. CASE PerformClassification \/ PushResult \/ EndOfTrials
  BY <1>1, <1>7 DEF ClassifierInv, PerformClassification, PushResult, EndOfTrials, Performing, books
<1> QED BY <1>2, <1>3, <1>4, <1>5, <1>6, <1>7 DEF Next

\* Every step keeps the requests those asked for.
LEMMA RequestsStep ==
  ASSUME IInv, Next
  PROVE  RequestsInv'
<1>1. RequestsInv /\ NumRequest \in Nat
  BY GeneratedAmounts DEF IInv, RequestsInv
<1>2. CASE Adjust
  <2>1. sequence' \in GenerateRequests
    <3>1. CASE Exchange /\ sequence[i] \in {"Insertion", "Deletion"}
      BY <1>1, <1>2, <3>1, ExchangeCases DEF Adjust
    <3>2. CASE Keep
      BY <1>1, <3>2 DEF Keep, RequestsInv
    <3> QED BY <1>2, <3>1, <3>2 DEF Adjust
  <2>2. answer = NoAnswer
    BY <1>1, <1>2 DEF RequestsInv, Performing, Adjust
  <2> QED BY <1>1, <1>2, <2>1, <2>2 DEF RequestsInv, Adjust
<1>3. CASE BeginTrace \/ DrawPosition \/ BeginPerform \/ ConstructClassifier
  BY <1>1, <1>3 DEF RequestsInv, Performing, BeginTrace, DrawPosition, BeginPerform, ConstructClassifier,
                    setup
<1>4. CASE BeginTrial
  BY <1>1, <1>4 DEF RequestsInv, Performing, BeginTrial, setup
<1>5. CASE PerformInsertion \/ PerformDeletion
  BY <1>1, <1>5 DEF RequestsInv, Performing, PerformInsertion, PerformDeletion, setup
<1>6. CASE PerformClassification
  BY <1>1, <1>6 DEF RequestsInv, Performing, PerformClassification, setup
<1>7. CASE PushResult \/ EndOfTrials
  BY <1>1, <1>7 DEF RequestsInv, Performing, PushResult, EndOfTrials, setup
<1> QED BY <1>2, <1>3, <1>4, <1>5, <1>6, <1>7 DEF Next

\* The three parts together are inductive.
LEMMA Invariance == Spec => []IInv
<1>1. IInv /\ [Next]_vars => IInv'
  <2> SUFFICES ASSUME IInv, [Next]_vars PROVE IInv'
    OBVIOUS
  <2>1. CASE Next
    BY <2>1, PoolsStep, ClassifierStep, RequestsStep DEF IInv
  <2>2. CASE UNCHANGED vars
    BY <2>2 DEF vars, setup, books, IInv, PoolsInv, ClassifierInv, RequestsInv, Performing
  <2> QED BY <2>1, <2>2
<1> QED BY <1>1, InvInit, PTL DEF Spec

\* The two pools always divide the rule set, however often the requests are
\* replayed.
THEOREM PoolsNeverLoseARule == Spec => []PoolsPartitionTheRules
<1>1. IInv => PoolsPartitionTheRules
  <2> SUFFICES ASSUME IInv PROVE PoolsPartitionTheRules
    OBVIOUS
  <2> DEFINE u == rules_in_use_temp
             a == available_pool_temp
  <2>1. u \in Seq(Rule) /\ a \in Seq(Rule) /\ Len(u) + Len(a) = N /\ ToSet(u) \cup ToSet(a) = Rule
    BY DEF IInv, PoolsInv, Divided
  <2> HIDE DEF u, a
  <2>2. /\ u \o a \in Seq(Rule) /\ Len(u \o a) = Len(u) + Len(a)
        /\ \A j \in 1 .. Len(u) + Len(a) : (u \o a)[j] = IF j <= Len(u) THEN u[j] ELSE a[j - Len(u)]
    BY <2>1, ConcatProperties
  <2>3. /\ Len(u) \in Nat /\ Len(a) \in Nat /\ DOMAIN (u \o a) = 1 .. Len(u) + Len(a)
        /\ DOMAIN u = 1 .. Len(u) /\ DOMAIN a = 1 .. Len(a)
    BY <2>1, <2>2, LenProperties
  <2>4. ToSet(u \o a) \subseteq Rule
    BY <2>2, <2>3 DEF ToSet
  <2>5. ASSUME NEW r \in Rule PROVE r \in ToSet(u \o a)
    <3>1. CASE r \in ToSet(u)
      <4>1. PICK j \in 1 .. Len(u) : u[j] = r
        BY <2>3, <3>1 DEF ToSet
      <4>2. j \in 1 .. Len(u) + Len(a) /\ j <= Len(u)
        BY <2>3
      <4> QED BY <2>2, <2>3, <4>1, <4>2 DEF ToSet
    <3>2. CASE r \in ToSet(a)
      <4>1. PICK j \in 1 .. Len(a) : a[j] = r
        BY <2>3, <3>2 DEF ToSet
      <4>2. /\ Len(u) + j \in 1 .. Len(u) + Len(a) /\ ~(Len(u) + j <= Len(u))
            /\ (Len(u) + j) - Len(u) = j
        BY <2>3
      <4> QED BY <2>2, <2>3, <4>1, <4>2 DEF ToSet
    <3> QED BY <2>1, <3>1, <3>2
  <2> QED BY <2>1, <2>2, <2>4, <2>5 DEF PoolsPartitionTheRules, u, a
<1> QED BY <1>1, Invariance, PTL

\* "at all time, DS.rules = rules_in_use.rules" (Simulation.cpp:198).
THEOREM ClassifierFollowsTheSimulator == Spec => []ClassifierHoldsRulesInUse
<1>1. IInv => ClassifierHoldsRulesInUse
  BY DEF IInv, ClassifierInv, ClassifierHoldsRulesInUse
<1> QED BY <1>1, Invariance, PTL

------------------------------------------------------------------------------
(* The calls on the classifier                                             *)

\* Both modules mean the same by the best priority and by the rules of a vector.
LEMMA SameMeaning ==
  /\ \A v, S, p : Classifier!IsBestPriority(v, S, p) <=> IsBestPriority(v, S, p)
  /\ \A s : Classifier!RuleSet(s) = ToSet(s)
  /\ Classifier!NoAnswer = NoAnswer /\ Classifier!NoMatch = NoMatch
BY DEF Classifier!IsBestPriority, Classifier!Matching, Classifier!MatchesPacket, Classifier!Low,
       Classifier!High, Classifier!Field, Classifier!NoMatch, Classifier!RuleSet, Classifier!NoAnswer,
       NoAnswer, ToSet, IsBestPriority, Matching, MatchesPacket, Low, High, Field, NoMatch

\* While the classifier is built, or no packet is classified, no answer waits.
LEMMA NoAnswerWaits ==
  ASSUME IInv, ~Performing("ClassifyPacket")
  PROVE  answer = Classifier!NoAnswer
BY SameMeaning DEF IInv, RequestsInv

\* An insertion is of a rule that is not in use.
LEMMA InsertionIsLegal ==
  ASSUME IInv, ConstructClassifier \/ PerformInsertion
  PROVE  \E r \in Rule : Classifier!InsertRule(r)
<1>1. CASE ConstructClassifier
  <2>1. /\ phase = "construct" /\ Len(rules) < Len(rules_in_use_temp) /\ UNCHANGED answer
        /\ rules' = Append(rules, rules_in_use_temp[Len(rules) + 1])
        /\ rules \in Seq(Rule) /\ \A j \in 1 .. Len(rules) : rules[j] = rules_in_use_temp[j]
        /\ rules_in_use_temp \in Seq(Rule) /\ Distinct(rules_in_use_temp)
    BY <1>1 DEF ConstructClassifier, IInv, ClassifierInv, PoolsInv, Divided
  <2> DEFINE r == rules_in_use_temp[Len(rules) + 1]
  <2>2. Len(rules) \in Nat /\ Len(rules) + 1 \in 1 .. Len(rules_in_use_temp)
    BY <2>1
  <2>3. r \in Rule /\ Len(rules) + 1 \in DOMAIN rules_in_use_temp
    BY <2>1, <2>2, ElementOfSeq
  <2>4. \A j \in DOMAIN rules : rules[j] # r
    <3>1. \A j \in 1 .. Len(rules) : j \in DOMAIN rules_in_use_temp /\ j # Len(rules) + 1
      BY <2>1, <2>2
    <3> QED BY <2>1, <2>3, <3>1 DEF Distinct
  <2>5. r \notin Classifier!RuleSet(rules)
    BY <2>4, SameMeaning DEF ToSet
  <2>6. answer = Classifier!NoAnswer
    BY <2>1, NoAnswerWaits DEF Performing
  <2> QED BY <2>1, <2>3, <2>5, <2>6 DEF Classifier!InsertRule
<1>2. CASE PerformInsertion
  <2> DEFINE r == available_pool_temp[trace[i]]
  <2>1. /\ Performing("Insertion") /\ trace[i] \in DOMAIN available_pool_temp
        /\ rules' = Append(rules, r) /\ UNCHANGED answer
        /\ rules = rules_in_use_temp
    BY <1>2 DEF PerformInsertion, Performing, IInv, ClassifierInv
  <2>2. r \in Rule /\ r \notin Classifier!RuleSet(rules)
    BY <2>1, MoveKeepsPools, SameMeaning DEF IInv, PoolsInv
  <2>3. answer = Classifier!NoAnswer
    BY <2>1, NoAnswerWaits DEF Performing
  <2> QED BY <2>1, <2>2, <2>3 DEF Classifier!InsertRule
<1> QED BY <1>1, <1>2

\* A deletion is of a position the vector has, and the position means the same
\* rule to the simulator and to the classifier.
LEMMA DeletionIsLegal ==
  ASSUME IInv, PerformDeletion
  PROVE  \E k \in DOMAIN rules : Classifier!DeleteRule(k)
<1>1. /\ Performing("Deletion") /\ trace[i] \in DOMAIN rules_in_use_temp
      /\ rules' = Classifier!MoveLastInto(rules, trace[i]) /\ UNCHANGED answer
      /\ rules = rules_in_use_temp
  BY DEF PerformDeletion, Performing, IInv, ClassifierInv
<1>2. answer = Classifier!NoAnswer
  BY <1>1, NoAnswerWaits DEF Performing
<1> QED BY <1>1, <1>2 DEF Classifier!DeleteRule

\* The next packet is one of the packets, and the scan finds its answer.
LEMMA ClassificationIsLegal ==
  ASSUME IInv, PerformClassification
  PROVE  \E p \in Packet : Classifier!ClassifyAPacket(p)
<1> DEFINE p == packets[packet_counter]
           v == BestPriority(ToSet(rules), p)
<1>1. /\ Performing("ClassifyPacket") /\ answer = NoAnswer
      /\ answer' = [packet |-> p, priority |-> v] /\ UNCHANGED rules
      /\ rules = rules_in_use_temp
  BY DEF PerformClassification, Performing, IInv, ClassifierInv
<1>2. p \in Packet
  <2>1. sequence \in GenerateRequests /\ i \in 1 .. NumRequest /\ sequence[i] = "ClassifyPacket"
    BY <1>1, GeneratedAmounts DEF Performing, IInv, RequestsInv
  <2>2. Len(packets) \in Nat \ {0}
    BY <2>1, PacketsAreThere
  <2>3. packet_counter \in 1 .. Len(packets)
    BY <2>2 DEF IInv, RequestsInv
  <2> QED BY <2>3, ElementOfSeq, SimulatorAssumption
<1> HIDE DEF p
<1>3. ToSet(rules) \in SUBSET Rule
  BY <1>1 DEF IInv, PoolsInv, Divided
<1>4. IsBestPriority(v, ToSet(rules), p)
  BY <1>3, ScanIsBest
<1>5. v \in {NoMatch} \cup {priority[r] : r \in ToSet(rules)}
  BY <1>4 DEF IsBestPriority, Matching
<1> HIDE DEF v
<1>6. answer'.priority = v
  BY <1>1
<1>7. answer' \in {[packet |-> p, priority |-> w] :
                      w \in {Classifier!NoMatch} \cup {priority[r] : r \in Classifier!RuleSet(rules)}}
  BY <1>1, <1>5, SameMeaning
<1>8. Classifier!IsBestPriority(answer'.priority, Classifier!RuleSet(rules), p)
  BY <1>4, <1>6, SameMeaning
<1>9. answer = Classifier!NoAnswer
  BY <1>1, SameMeaning
<1> QED BY <1>1, <1>2, <1>7, <1>8, <1>9 DEF Classifier!ClassifyAPacket

\* Every call of the simulator is one that PacketClassifier allows: no rule is
\* inserted twice and no position beyond the end is deleted, in any trial.
THEOREM SimulatorUsesTheInterface == Spec => UsesTheInterface
<1>1. Init => Classifier!Init
  BY SameMeaning DEF Init, Classifier!Init
<1>2. ASSUME IInv, [Next]_vars PROVE [Classifier!Next]_Classifier!vars
  <2>1. CASE ConstructClassifier \/ PerformInsertion
    BY <1>2, <2>1, InsertionIsLegal DEF Classifier!Next
  <2>2. CASE PerformDeletion
    BY <1>2, <2>2, DeletionIsLegal DEF Classifier!Next
  <2>3. CASE PerformClassification
    BY <1>2, <2>3, ClassificationIsLegal DEF Classifier!Next
  <2>4. CASE PushResult
    BY <2>4, SameMeaning DEF PushResult, Classifier!Next, Classifier!CollectAnswer
  <2>5. CASE \/ Adjust \/ BeginTrace \/ DrawPosition \/ BeginPerform \/ BeginTrial \/ EndOfTrials
             \/ UNCHANGED vars
    BY <2>5 DEF Adjust, BeginTrace, DrawPosition, BeginPerform, BeginTrial, EndOfTrials, vars,
                Classifier!vars
  <2> QED BY <1>2, <2>1, <2>2, <2>3, <2>4, <2>5 DEF Next
<1> QED BY <1>1, <1>2, Invariance, PTL DEF Spec, UsesTheInterface, Classifier!Spec

------------------------------------------------------------------------------
(* The sizes of the pools.  Half of the rules are in use at first, and one *)
(* more or one less after every insertion or deletion.                     *)

Size(s, k) == N \div 2 + Amount(s, "Insertion", k) - Amount(s, "Deletion", k)

\* Each of the first k requests finds a rule in the pool it takes it from.
Fits(s, k) ==
    \A j \in 1 .. k :
        /\ s[j] = "Insertion" => Size(s, j - 1) < N
        /\ s[j] = "Deletion" => Size(s, j - 1) > 0

\* Each of the first k requests has a position in the pool as large as it is then.
Drawn(s, t, k) ==
    \A j \in 1 .. k :
        /\ s[j] = "Insertion" => t[j] \in 1 .. N - Size(s, j - 1)
        /\ s[j] = "Deletion" => t[j] \in 1 .. Size(s, j - 1)

\* The size that SetupComputation computes is that of the requests as they stand.
SizeInv ==
    /\ i <= NumRequest + 1
    /\ phase = "adjust" => current_size = Size(sequence, i - 1) /\ Fits(sequence, i - 1)
    /\ phase # "adjust" => current_size = N \div 2 /\ Fits(sequence, NumRequest)

\* The working copies have the size of the requests played so far.
TraceInv ==
    /\ Len(rules_in_use) = N \div 2
    /\ trace \in [1 .. NumRequest -> Nat]
    /\ phase \in {"adjust", "construct"} => Len(rules_in_use_temp) = N \div 2
    /\ phase \in {"trace", "perform"} => Len(rules_in_use_temp) = Size(sequence, i - 1)
    /\ phase = "trace" => Drawn(sequence, trace, i - 1)
    /\ phase \in {"construct", "perform"} => Drawn(sequence, trace, NumRequest)
    /\ phase = "construct" => i = NumRequest + 1

\* With two rules there is room between the thresholds.
LEMMA Thresholds ==
  ASSUME N >= 2
  PROVE  /\ ~(10 * (N \div 2) >= 8 * N) /\ ~(10 * (N \div 2) <= 2 * N)
         /\ \A c \in Int : 10 * c >= 8 * N => c > N \div 2
         /\ \A c \in Int : 10 * c <= 2 * N => c < N \div 2
         /\ \A c \in Int : ~(10 * c >= 8 * N) => c < N
         /\ \A c \in Int : ~(10 * c <= 2 * N) => c > 0
<1>1. N \in Nat /\ N \div 2 \in Nat
  BY NType
<1>2. 2 * (N \div 2) <= N /\ N <= 2 * (N \div 2) + 1
  BY <1>1
<1> QED BY <1>1, <1>2

\* The size before the first request and after the last, and how one request
\* changes it.
LEMMA SizeSteps ==
  ASSUME NEW s \in GenerateRequests
  PROVE  /\ Size(s, 0) = N \div 2 /\ Size(s, NumRequest) = N \div 2
         /\ \A k \in Nat : Size(s, k) \in Int
         /\ \A k \in 1 .. NumRequest :
              Size(s, k) = Size(s, k - 1) + (CASE s[k] = "Insertion" -> 1
                                              [] s[k] = "Deletion" -> -1
                                              [] OTHER -> 0)
<1>1. N \div 2 \in Nat /\ NumRequest \in Nat /\ NumInsert \in Nat
  BY NType, GeneratedAmounts, SimulatorAssumption
<1>2. \A k \in Nat : Size(s, k) \in Int
  <2> TAKE k \in Nat
  <2>1. Amount(s, "Insertion", k) \in Nat /\ Amount(s, "Deletion", k) \in Nat
    BY AmountSteps
  <2> QED BY <1>1, <2>1 DEF Size
<1>3. Size(s, 0) = N \div 2
  <2>1. Amount(s, "Insertion", 0) = 0 /\ Amount(s, "Deletion", 0) = 0
    BY AmountSteps
  <2> QED BY <1>1, <2>1 DEF Size
<1>4. Size(s, NumRequest) = N \div 2
  BY <1>1, GeneratedAmounts DEF Size
<1>5. ASSUME NEW k \in 1 .. NumRequest
      PROVE  Size(s, k) = Size(s, k - 1) + (CASE s[k] = "Insertion" -> 1
                                              [] s[k] = "Deletion" -> -1
                                              [] OTHER -> 0)
  <2>1. k - 1 \in Nat /\ (k - 1) + 1 = k
    BY <1>1
  <2>2. ASSUME NEW type \in {"Insertion", "Deletion"}
        PROVE  /\ Amount(s, type, k - 1) \in Nat
               /\ Amount(s, type, k) = Amount(s, type, k - 1) + IF s[k] = type THEN 1 ELSE 0
    <3>1. Amount(s, type, (k - 1) + 1) = Amount(s, type, k - 1) + IF s[(k - 1) + 1] = type THEN 1 ELSE 0
      BY <2>1, AmountSteps
    <3> QED BY <2>1, <3>1, AmountSteps
  <2>3. CASE s[k] = "Insertion"
    BY <1>1, <2>2, <2>3 DEF Size
  <2>4. CASE s[k] = "Deletion"
    BY <1>1, <2>2, <2>4 DEF Size
  <2>5. CASE s[k] # "Insertion" /\ s[k] # "Deletion"
    BY <1>1, <2>2, <2>5 DEF Size
  <2> QED BY <2>3, <2>4, <2>5
<1> QED BY <1>2, <1>3, <1>4, <1>5

\* Sizes, and whether they fit, depend on the requests so far only.
LEMMA SizeOfEqual ==
  ASSUME NEW s, NEW t, NEW k \in Nat, \A j \in 1 .. k : s[j] = t[j]
  PROVE  Size(t, k) = Size(s, k) /\ (Fits(s, k) => Fits(t, k))
<1>1. \A l \in 0 .. k : Size(t, l) = Size(s, l)
  <2> TAKE l \in 0 .. k
  <2>1. l \in Nat /\ \A j \in 1 .. l : s[j] = t[j]
    OBVIOUS
  <2>2. Amount(s, "Insertion", l) = Amount(t, "Insertion", l)
        /\ Amount(s, "Deletion", l) = Amount(t, "Deletion", l)
    BY <2>1, AmountOfEqual
  <2> QED BY <2>2 DEF Size
<1>2. \A j \in 1 .. k : j - 1 \in 0 .. k
  OBVIOUS
<1>3. k \in 0 .. k
  OBVIOUS
<1> QED BY <1>1, <1>2, <1>3 DEF Fits

\* When the request has to be exchanged there is one to exchange it with: were
\* there none, the requests so far would be as balanced as all of them are.
LEMMA OppositeComesLater ==
  ASSUME NEW s \in GenerateRequests, NEW k \in 1 .. NumRequest,
         \/ s[k] = "Insertion" /\ Size(s, k - 1) > N \div 2
         \/ s[k] = "Deletion" /\ Size(s, k - 1) < N \div 2
  PROVE  \E j \in k + 1 .. NumRequest : s[j] = Opposite(s[k])
<1> SUFFICES ASSUME \A j \in k + 1 .. NumRequest : s[j] # Opposite(s[k])
             PROVE  FALSE
  OBVIOUS
<1>1. /\ N \div 2 \in Nat /\ NumInsert \in Nat /\ NumRequest \in Nat
      /\ k - 1 \in 0 .. NumRequest
      /\ Amount(s, "Insertion", NumRequest) = NumInsert
      /\ Amount(s, "Deletion", NumRequest) = NumInsert
      /\ Amount(s, "Insertion", k - 1) \in Nat /\ Amount(s, "Deletion", k - 1) \in Nat
  <2>1. NumRequest \in Nat /\ k - 1 \in Nat /\ k - 1 \in 0 .. NumRequest
    BY GeneratedAmounts
  <2> QED BY <2>1, NType, GeneratedAmounts, SimulatorAssumption, AmountSteps
<1>2. Opposite(s[k]) # s[k] /\ Opposite(s[k]) \in {"Insertion", "Deletion"}
  BY DEF Opposite
<1>3. \A j \in (k - 1) + 1 .. NumRequest : s[j] # Opposite(s[k])
  BY <1>1, <1>2
<1>4. Amount(s, Opposite(s[k]), k - 1) = NumInsert
  BY <1>1, <1>2, <1>3, AmountOfRest
<1>5. Amount(s, s[k], k - 1) < NumInsert
  <2>1. \E j \in (k - 1) + 1 .. NumRequest : s[j] = s[k]
    BY <1>1
  <2>2. Amount(s, s[k], k - 1) < Amount(s, s[k], NumRequest)
    BY <1>1, <2>1, AmountOfRest
  <2> QED BY <1>1, <2>2
<1>6. CASE s[k] = "Insertion"
  BY <1>1, <1>4, <1>5, <1>6 DEF Size, Opposite
<1>7. CASE s[k] = "Deletion"
  BY <1>1, <1>4, <1>5, <1>7 DEF Size, Opposite
<1> QED BY <1>6, <1>7

\* Before the first request.
LEMMA SizeInit == Init => SizeInv /\ TraceInv
<1> SUFFICES ASSUME Init PROVE SizeInv /\ TraceInv
  OBVIOUS
<1>1. sequence \in GenerateRequests /\ NumRequest \in Nat
  BY GeneratedAmounts DEF Init
<1>2. i = 1 /\ phase = "adjust" /\ current_size = Size(sequence, 0) /\ Fits(sequence, 0)
  BY <1>1, SizeSteps DEF Init, Fits
<1>3. Len(rules_in_use) = N \div 2 /\ rules_in_use_temp = rules_in_use
  BY ShuffleDivides DEF Init
<1>4. trace \in [1 .. NumRequest -> Nat]
  BY DEF Init
<1> QED BY <1>1, <1>2, <1>3, <1>4 DEF SizeInv, TraceInv

\* One more request fits.
LEMMA FitsStep ==
  ASSUME NEW s, NEW k \in Nat \ {0}, Fits(s, k - 1),
         s[k] = "Insertion" => Size(s, k - 1) < N,
         s[k] = "Deletion" => Size(s, k - 1) > 0
  PROVE  Fits(s, k)
<1>1. \A j \in 1 .. k : j \in 1 .. k - 1 \/ j = k
  OBVIOUS
<1> QED BY <1>1 DEF Fits

\* The adjustment computes the size of the sequence it leaves.
LEMMA AdjustKeepsSize ==
  ASSUME N >= 2, IInv, SizeInv, Adjust
  PROVE  SizeInv'
<1>1. /\ phase = "adjust" /\ phase' = "adjust" /\ i' = i + 1 /\ i <= NumRequest
      /\ sequence \in GenerateRequests /\ NumRequest \in Nat /\ i \in 1 .. NumRequest
      /\ i - 1 \in Nat /\ i' - 1 = i /\ N \in Nat
      /\ current_size = Size(sequence, i - 1) /\ Fits(sequence, i - 1)
      /\ current_size \in Int
  <2>1. phase = "adjust" /\ phase' = "adjust" /\ i' = i + 1 /\ i <= NumRequest
    BY DEF Adjust
  <2>2. sequence \in GenerateRequests /\ i \in Nat \ {0}
    BY DEF IInv, RequestsInv
  <2>3. NumRequest \in Nat /\ i \in 1 .. NumRequest /\ i - 1 \in Nat /\ i' - 1 = i
    BY <2>1, <2>2, GeneratedAmounts
  <2>4. current_size = Size(sequence, i - 1) /\ Fits(sequence, i - 1)
    BY <2>1 DEF SizeInv
  <2> QED BY <2>1, <2>2, <2>3, <2>4, SizeSteps, NType
<1>2. SUFFICES current_size' = Size(sequence', i) /\ Fits(sequence', i)
  BY <1>1 DEF SizeInv
<1>3. CASE Keep /\ ~(sequence[i] = "Insertion" /\ TooMany) /\ ~(sequence[i] = "Deletion" /\ TooFew)
  <2>1. sequence' = sequence /\ current_size' = Size(sequence, i)
    BY <1>1, <1>3, SizeSteps DEF Keep
  <2>2. sequence[i] = "Insertion" => Size(sequence, i - 1) < N
    BY <1>1, <1>3, Thresholds DEF TooMany
  <2>3. sequence[i] = "Deletion" => Size(sequence, i - 1) > 0
    BY <1>1, <1>3, Thresholds DEF TooFew
  <2> QED BY <1>1, <2>1, <2>2, <2>3, FitsStep
<1>4. CASE Exchange /\ \/ sequence[i] = "Insertion" /\ TooMany
                       \/ sequence[i] = "Deletion" /\ TooFew
  <2>1. /\ sequence[i] = "Insertion" => current_size > N \div 2
        /\ sequence[i] = "Deletion" => current_size < N \div 2
    BY <1>1, <1>4, Thresholds DEF TooMany, TooFew
  <2>2. \E j \in i + 1 .. NumRequest : sequence[j] = Opposite(sequence[i])
    BY <1>1, <1>4, <2>1, OppositeComesLater
  <2>3. /\ sequence' \in GenerateRequests
        /\ \A l \in 1 .. i - 1 : sequence'[l] = sequence[l]
        /\ sequence'[i] = Opposite(sequence[i])
        /\ current_size' = current_size + SwapEffect(sequence[i])
    BY <1>1, <1>4, <2>2, ExchangeCases DEF IInv
  <2>4. Size(sequence', i - 1) = current_size /\ Fits(sequence', i - 1)
    BY <1>1, <2>3, SizeOfEqual
  <2>5. Size(sequence', i) = Size(sequence', i - 1) + (CASE sequence'[i] = "Insertion" -> 1
                                                         [] sequence'[i] = "Deletion" -> -1
                                                         [] OTHER -> 0)
    BY <1>1, <2>3, SizeSteps
  <2>6. current_size' = Size(sequence', i)
    BY <1>1, <1>4, <2>3, <2>4, <2>5 DEF Opposite, SwapEffect
  <2>7. N \div 2 \in Nat /\ N \div 2 < N
    BY NType, <1>1
  <2>8. /\ sequence'[i] = "Insertion" => Size(sequence', i - 1) < N
        /\ sequence'[i] = "Deletion" => Size(sequence', i - 1) > 0
    BY <1>1, <1>4, <2>1, <2>3, <2>4, <2>7 DEF Opposite
  <2> QED BY <1>1, <2>4, <2>6, <2>8, FitsStep
<1> QED BY <1>3, <1>4 DEF Adjust

\* Setup: the other steps of the first and of the second loop.
LEMMA SetupKeepsSize ==
  ASSUME IInv, IInv', SizeInv, TraceInv, BeginTrace \/ DrawPosition \/ BeginPerform
  PROVE  SizeInv'
<1>1. sequence \in GenerateRequests /\ NumRequest \in Nat /\ i \in Nat \ {0}
  BY GeneratedAmounts DEF IInv, RequestsInv
<1>2. CASE BeginTrace
  <2>1. /\ phase = "adjust" /\ i = NumRequest + 1 /\ phase' = "trace" /\ i' = 1
        /\ UNCHANGED <<sequence, current_size>>
    BY <1>1, <1>2 DEF BeginTrace, SizeInv, setup
  <2>2. current_size = N \div 2 /\ Fits(sequence, NumRequest)
    BY <1>1, <2>1, SizeSteps DEF SizeInv
  <2> QED BY <1>1, <2>1, <2>2 DEF SizeInv
<1>3. CASE DrawPosition
  <2>1. /\ phase = "trace" /\ phase' = "trace" /\ i <= NumRequest /\ i' = i + 1
        /\ UNCHANGED <<sequence, current_size>>
    BY <1>3 DEF DrawPosition
  <2> QED BY <1>1, <2>1 DEF SizeInv
<1>4. CASE BeginPerform
  BY <1>1, <1>4 DEF BeginPerform, SizeInv, setup
<1> QED BY <1>2, <1>3, <1>4

\* The length of the other pool.
LEMMA OtherPool ==
  ASSUME IInv
  PROVE  /\ Len(rules_in_use_temp) \in Nat /\ Len(available_pool_temp) \in Nat
         /\ Len(available_pool_temp) = N - Len(rules_in_use_temp)
         /\ DOMAIN rules_in_use_temp = 1 .. Len(rules_in_use_temp)
         /\ DOMAIN available_pool_temp = 1 .. Len(available_pool_temp)
BY NType DEF IInv, PoolsInv, Divided

\* One more position is drawn.
LEMMA DrawnStep ==
  ASSUME NEW s, NEW t \in [1 .. NumRequest -> Nat], NEW k \in 1 .. NumRequest, NumRequest \in Nat,
         Drawn(s, t, k - 1), NEW n \in Nat,
         s[k] = "Insertion" => n \in 1 .. N - Size(s, k - 1),
         s[k] = "Deletion" => n \in 1 .. Size(s, k - 1)
  PROVE  [t EXCEPT ![k] = n] \in [1 .. NumRequest -> Nat] /\ Drawn(s, [t EXCEPT ![k] = n], k)
<1> DEFINE u == [t EXCEPT ![k] = n]
<1>1. u \in [1 .. NumRequest -> Nat] /\ u[k] = n /\ \A j \in 1 .. k - 1 : u[j] = t[j]
  OBVIOUS
<1>2. \A j \in 1 .. k : j \in 1 .. k - 1 \/ j = k
  OBVIOUS
<1> HIDE DEF u
<1>3. Drawn(s, u, k)
  BY <1>1, <1>2 DEF Drawn
<1> QED BY <1>1, <1>3 DEF u

\* A position that is drawn suits the pool, and playing the request changes the
\* sizes accordingly.
LEMMA DrawKeepsTrace ==
  ASSUME N >= 2, IInv, SizeInv, TraceInv, DrawPosition
  PROVE  TraceInv'
<1>1. /\ phase = "trace" /\ phase' = "trace" /\ i <= NumRequest /\ i' = i + 1
      /\ UNCHANGED <<sequence, current_size, rules_in_use, available_pool>>
      /\ sequence \in GenerateRequests /\ NumRequest \in Nat /\ i \in 1 .. NumRequest
      /\ i - 1 \in Nat /\ i' - 1 = i
      /\ Len(rules_in_use_temp) = Size(sequence, i - 1) /\ Drawn(sequence, trace, i - 1)
      /\ trace \in [1 .. NumRequest -> Nat]
      /\ current_size = N \div 2
  <2>1. /\ phase = "trace" /\ phase' = "trace" /\ i <= NumRequest /\ i' = i + 1
        /\ UNCHANGED <<sequence, current_size, rules_in_use, available_pool>>
    BY DEF DrawPosition
  <2>2. sequence \in GenerateRequests /\ i \in Nat \ {0} /\ NumRequest \in Nat
    BY GeneratedAmounts DEF IInv, RequestsInv
  <2> QED BY <2>1, <2>2 DEF TraceInv, SizeInv
<1>2. ~TooMany /\ ~TooFew
  BY <1>1, Thresholds DEF TooMany, TooFew
<1>3. /\ sequence[i] \in Request
      /\ Size(sequence, i) = Size(sequence, i - 1) + (CASE sequence[i] = "Insertion" -> 1
                                                         [] sequence[i] = "Deletion" -> -1
                                                         [] OTHER -> 0)
      /\ Size(sequence, i - 1) \in Int
  BY <1>1, GeneratedAmounts, SizeSteps
<1>4. Divided(rules_in_use_temp, available_pool_temp)
  BY DEF IInv, PoolsInv
<1>5. SUFFICES /\ Len(rules_in_use_temp') = Size(sequence, i)
               /\ trace' \in [1 .. NumRequest -> Nat] /\ Drawn(sequence, trace', i)
  BY <1>1 DEF TraceInv
<1>6. CASE sequence[i] = "Insertion"
  <2>1. PICK k \in DOMAIN available_pool_temp :
          /\ rules_in_use_temp' = Append(rules_in_use_temp, available_pool_temp[k])
          /\ trace' = [trace EXCEPT ![i] = k]
    BY <1>2, <1>6 DEF DrawPosition
  <2>2. Len(rules_in_use_temp') = Size(sequence, i)
    BY <1>1, <1>3, <1>4, <1>6, <2>1, MoveKeepsPools
  <2>3. k \in Nat /\ k \in 1 .. N - Size(sequence, i - 1)
    BY <1>1, OtherPool
  <2> QED BY <1>1, <1>6, <2>1, <2>2, <2>3, DrawnStep
<1>7. CASE sequence[i] = "Deletion"
  <2>1. PICK k \in DOMAIN rules_in_use_temp :
          /\ rules_in_use_temp' = PopFrom(rules_in_use_temp, k)
          /\ trace' = [trace EXCEPT ![i] = k]
    BY <1>2, <1>7 DEF DrawPosition
  <2>2. Len(rules_in_use_temp') = Len(rules_in_use_temp) - 1
    BY <1>4, <2>1, PopFromProperties DEF Divided
  <2>3. Len(rules_in_use_temp') = Size(sequence, i)
    BY <1>1, <1>3, <1>7, <2>2
  <2>4. k \in Nat /\ k \in 1 .. Size(sequence, i - 1)
    BY <1>1, OtherPool
  <2> QED BY <1>1, <1>7, <2>1, <2>3, <2>4, DrawnStep
<1>8. CASE sequence[i] # "Insertion" /\ sequence[i] # "Deletion"
  <2>1. rules_in_use_temp' = rules_in_use_temp /\ trace' = trace
    BY <1>8 DEF DrawPosition, books
  <2>2. Size(sequence, i) = Size(sequence, i - 1)
    BY <1>3, <1>8
  <2>3. \A j \in 1 .. i : j \in 1 .. i - 1 \/ j = i
    BY <1>1
  <2>4. Drawn(sequence, trace, i)
    BY <1>1, <1>8, <2>3 DEF Drawn
  <2> QED BY <1>1, <2>1, <2>2, <2>4
<1> QED BY <1>6, <1>7, <1>8

\* The steps of the replay: a trial ends with as many rules in use as it began
\* with, so the next finds the pools as large.
LEMMA PerformKeepsSizes ==
  ASSUME IInv, SizeInv, TraceInv,
         \/ ConstructClassifier \/ BeginTrial \/ EndOfTrials \/ PerformInsertion
         \/ PerformDeletion \/ PerformClassification \/ PushResult
  PROVE  SizeInv' /\ TraceInv'
<1>1. /\ sequence \in GenerateRequests /\ NumRequest \in Nat /\ i \in Nat \ {0}
      /\ Divided(rules_in_use_temp, available_pool_temp)
      /\ phase # "adjust"
      /\ UNCHANGED <<sequence, trace, current_size, rules_in_use>>
  <2>1. sequence \in GenerateRequests /\ NumRequest \in Nat /\ i \in Nat \ {0}
    BY GeneratedAmounts DEF IInv, RequestsInv
  <2>2. Divided(rules_in_use_temp, available_pool_temp)
    BY DEF IInv, PoolsInv
  <2>3. phase # "adjust" /\ UNCHANGED <<sequence, trace, current_size, rules_in_use>>
    BY DEF ConstructClassifier, BeginTrial, EndOfTrials, PerformInsertion, PerformDeletion,
           PerformClassification, PushResult, Performing, setup
  <2> QED BY <2>1, <2>2, <2>3
<1>2. ASSUME phase' # "adjust", i' <= NumRequest + 1 PROVE SizeInv'
  BY <1>1, <1>2 DEF SizeInv
<1>3. CASE ConstructClassifier
  <2>1. phase' = "construct" /\ phase = "construct" /\ i' = i
        /\ rules_in_use_temp' = rules_in_use_temp
    BY <1>3 DEF ConstructClassifier, books
  <2> QED BY <1>1, <1>2, <2>1 DEF SizeInv, TraceInv
<1>4. CASE BeginTrial
  <2>1. /\ phase' = "perform" /\ i' = 1 /\ rules_in_use_temp' = rules_in_use_temp
        /\ phase = "construct" \/ (phase = "perform" /\ i > NumRequest)
    BY <1>4 DEF BeginTrial, books
  <2>2. phase = "perform" => i - 1 = NumRequest
    BY <1>1, <2>1 DEF SizeInv
  <2>3. Len(rules_in_use_temp) = Size(sequence, 0)
    BY <1>1, <2>1, <2>2, SizeSteps DEF TraceInv
  <2>4. i' - 1 = 0 /\ i' <= NumRequest + 1
    BY <1>1, <2>1
  <2>5. Drawn(sequence, trace, NumRequest)
    BY <2>1 DEF TraceInv
  <2> QED BY <1>1, <1>2, <2>1, <2>3, <2>4, <2>5 DEF TraceInv
<1>5. CASE EndOfTrials
  BY <1>1, <1>2, <1>5 DEF EndOfTrials, SizeInv, TraceInv
<1>6. CASE PerformInsertion \/ PerformDeletion \/ PushResult
  <2>1. /\ phase = "perform" /\ phase' = "perform" /\ i <= NumRequest /\ i' = i + 1
    BY <1>6 DEF PerformInsertion, PerformDeletion, PushResult, Performing
  <2>2. i \in 1 .. NumRequest /\ i' - 1 = i /\ i' <= NumRequest + 1 /\ i - 1 \in Nat
    BY <1>1, <2>1
  <2>3. /\ Size(sequence, i) = Size(sequence, i - 1) + (CASE sequence[i] = "Insertion" -> 1
                                                           [] sequence[i] = "Deletion" -> -1
                                                           [] OTHER -> 0)
        /\ Size(sequence, i - 1) \in Int
        /\ Len(rules_in_use_temp) = Size(sequence, i - 1)
    BY <1>1, <2>1, <2>2, SizeSteps DEF TraceInv
  <2>4. CASE PerformInsertion
    <3>1. sequence[i] = "Insertion" /\ trace[i] \in DOMAIN available_pool_temp
          /\ rules_in_use_temp' = Append(rules_in_use_temp, available_pool_temp[trace[i]])
      BY <2>4 DEF PerformInsertion, Performing
    <3>2. Len(rules_in_use_temp') = Size(sequence, i)
      BY <1>1, <2>3, <3>1, MoveKeepsPools
    <3> QED BY <1>1, <1>2, <2>1, <2>2, <3>2 DEF TraceInv
  <2>5. CASE PerformDeletion
    <3>1. sequence[i] = "Deletion" /\ trace[i] \in DOMAIN rules_in_use_temp
          /\ rules_in_use_temp' = PopFrom(rules_in_use_temp, trace[i])
      BY <2>5 DEF PerformDeletion, Performing
    <3>2. Len(rules_in_use_temp') = Len(rules_in_use_temp) - 1
      BY <1>1, <3>1, PopFromProperties DEF Divided
    <3>3. Len(rules_in_use_temp') = Size(sequence, i)
      BY <2>3, <3>1, <3>2
    <3> QED BY <1>1, <1>2, <2>1, <2>2, <3>3 DEF TraceInv
  <2>6. CASE PushResult
    <3>1. sequence[i] = "ClassifyPacket" /\ rules_in_use_temp' = rules_in_use_temp
      BY <2>6 DEF PushResult, Performing, books
    <3>2. Len(rules_in_use_temp') = Size(sequence, i)
      BY <2>3, <3>1
    <3> QED BY <1>1, <1>2, <2>1, <2>2, <3>2 DEF TraceInv
  <2> QED BY <1>6, <2>4, <2>5, <2>6
<1>7. CASE PerformClassification
  <2>1. phase = "perform" /\ phase' = "perform" /\ i' = i
        /\ rules_in_use_temp' = rules_in_use_temp
    BY <1>7 DEF PerformClassification, Performing, books
  <2> QED BY <1>1, <1>2, <2>1 DEF SizeInv, TraceInv
<1> QED BY <1>3, <1>4, <1>5, <1>6, <1>7

\* What the setup leaves of the working copies.
LEMMA SetupKeepsTrace ==
  ASSUME IInv, SizeInv, TraceInv, Adjust \/ BeginTrace \/ BeginPerform
  PROVE  TraceInv'
<1>1. sequence \in GenerateRequests /\ NumRequest \in Nat /\ i \in Nat \ {0}
  BY GeneratedAmounts DEF IInv, RequestsInv
<1>2. CASE Adjust
  BY <1>2 DEF Adjust, TraceInv, books
<1>3. CASE BeginTrace
  <2>1. /\ phase = "adjust" /\ phase' = "trace" /\ i' = 1 /\ i' - 1 = 0
        /\ UNCHANGED <<sequence, trace, rules_in_use, rules_in_use_temp>>
    BY <1>3 DEF BeginTrace, setup, books
  <2>2. Len(rules_in_use_temp) = Size(sequence, 0)
    BY <1>1, <2>1, SizeSteps DEF TraceInv
  <2>3. Drawn(sequence, trace, 0)
    BY DEF Drawn
  <2> QED BY <2>1, <2>2, <2>3 DEF TraceInv
<1>4. CASE BeginPerform
  <2>1. /\ phase = "trace" /\ phase' = "construct" /\ i' = i /\ i > NumRequest
        /\ UNCHANGED <<sequence, trace, rules_in_use>> /\ rules_in_use_temp' = rules_in_use
    BY <1>4 DEF BeginPerform, setup
  <2>2. i = NumRequest + 1 /\ i - 1 = NumRequest
    BY <1>1, <2>1 DEF SizeInv
  <2> QED BY <1>1, <2>1, <2>2 DEF TraceInv
<1> QED BY <1>2, <1>3, <1>4

\* With at least two rules every request is carried out, at every replay, and
\* the positions drawn once are positions each time.  With fewer there is
\* nothing between the thresholds and all updates are skipped.
THEOREM EveryRequestIsCarriedOut ==
  ASSUME N >= 2
  PROVE  Spec => []NothingIsSkipped
<1>1. Init => SizeInv /\ TraceInv
  BY SizeInit
<1>2. ASSUME IInv, IInv', SizeInv, TraceInv, [Next]_vars PROVE SizeInv' /\ TraceInv'
  <2>1. CASE Adjust
    BY <1>2, <2>1, AdjustKeepsSize, SetupKeepsTrace
  <2>2. CASE BeginTrace \/ BeginPerform
    BY <1>2, <2>2, SetupKeepsSize, SetupKeepsTrace
  <2>3. CASE DrawPosition
    BY <1>2, <2>3, SetupKeepsSize, DrawKeepsTrace
  <2>4. CASE \/ ConstructClassifier \/ BeginTrial \/ EndOfTrials \/ PerformInsertion
             \/ PerformDeletion \/ PerformClassification \/ PushResult
    BY <1>2, <2>4, PerformKeepsSizes
  <2>5. CASE UNCHANGED vars
    BY <1>2, <2>5 DEF vars, setup, books, SizeInv, TraceInv
  <2> QED BY <1>2, <2>1, <2>2, <2>3, <2>4, <2>5 DEF Next
<1>3. IInv /\ SizeInv /\ TraceInv => NothingIsSkipped
  <2> SUFFICES ASSUME IInv, SizeInv, TraceInv PROVE NothingIsSkipped
    OBVIOUS
  <2>1. sequence \in GenerateRequests /\ NumRequest \in Nat /\ i \in Nat \ {0}
    BY GeneratedAmounts DEF IInv, RequestsInv
  <2>2. phase # "adjust" => /\ sequence \in GenerateRequests
                            /\ current_size = Len(rules_in_use)
                            /\ ~TooMany /\ ~TooFew
    BY <2>1, Thresholds DEF SizeInv, TraceInv, TooMany, TooFew
  <2>3. ASSUME i <= NumRequest, sequence[i] # "ClassifyPacket", phase \in {"trace", "perform"}
        PROVE  LET pool == IF sequence[i] = "Insertion" THEN available_pool_temp
                                                        ELSE rules_in_use_temp
               IN  /\ phase = "trace" => pool # <<>>
                   /\ phase = "perform" => trace[i] \in DOMAIN pool
    <3>1. i \in 1 .. NumRequest /\ sequence[i] \in {"Insertion", "Deletion"}
      BY <2>1, <2>3, GeneratedAmounts DEF Request
    <3>2. Len(rules_in_use_temp) = Size(sequence, i - 1)
      BY <2>3 DEF TraceInv
    <3>3. CASE phase = "trace"
      <4>1. /\ sequence[i] = "Insertion" => Size(sequence, i - 1) < N
            /\ sequence[i] = "Deletion" => Size(sequence, i - 1) > 0
        BY <3>1, <3>3 DEF SizeInv, Fits
      <4>2. /\ sequence[i] = "Insertion" => Len(available_pool_temp) # 0
            /\ sequence[i] = "Deletion" => Len(rules_in_use_temp) # 0
        BY <3>2, <4>1, OtherPool, NType
      <4> QED BY <3>1, <3>3, <4>2
    <3>4. CASE phase = "perform"
      BY <3>1, <3>2, <3>4, OtherPool DEF TraceInv, Drawn
    <3> QED BY <2>3, <3>3, <3>4
  <2>4. PositionsExist
    BY <2>3 DEF PositionsExist
  <2> QED BY <2>2, <2>4 DEF NothingIsSkipped
<1> QED BY <1>1, <1>2, <1>3, Invariance, PTL DEF Spec
==============================================================================
