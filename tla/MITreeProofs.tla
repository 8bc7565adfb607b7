----------------------------- MODULE MITreeProofs -----------------------------
(***************************************************************************)
(* The nested tree with path compression is, after any insertions and      *)
(* deletions, the tree of the rules it stores, and its descents along one  *)
(* path answer for all of these rules: for any rules, any number of fields *)
(* and any order of the fields.                                            *)
(***************************************************************************)
EXTENDS MITree, RulesProofs

Interval == Nat \X Nat

\* The paths a tree can have.
Path == {q \in Seq(Interval) : Len(q) <= Dim}

Parent(q) == Prefix(q, Len(q) - 1)

\* The path q leads towards a rule with these keys.
Leads(q, keys) == q = Prefix(keys, Len(q))

------------------------------------------------------------------------------
(* Sequences of keys                                                       *)

\* The first i elements of a sequence.
LEMMA PrefixProperties ==
  ASSUME NEW T, NEW s \in Seq(T), NEW i \in 0 .. Len(s)
  PROVE  /\ Prefix(s, i) \in Seq(T) /\ Len(Prefix(s, i)) = i
         /\ \A k \in 1 .. i : Prefix(s, i)[k] = s[k]
         /\ DOMAIN Prefix(s, i) = 1 .. i
<1>1. i \in Int /\ i >= 0 /\ i <= Len(s) /\ \A k \in 1 .. i : s[k] \in T
  OBVIOUS
<1>2. /\ Prefix(s, i) \in Seq(T)
      /\ Len(Prefix(s, i)) = IF 1 <= i THEN i - 1 + 1 ELSE 0
      /\ \A k \in 1 .. i - 1 + 1 : Prefix(s, i)[k] = s[1 + k - 1]
  BY <1>1, SubSeqProperties DEF Prefix
<1>3. Len(Prefix(s, i)) = i
  BY <1>1, <1>2
<1>4. \A k \in 1 .. i : Prefix(s, i)[k] = s[k]
  BY <1>1, <1>2
<1> QED BY <1>2, <1>3, <1>4

\* What follows the first i elements.
LEMMA RestProperties ==
  ASSUME NEW T, NEW s \in Seq(T), NEW i \in 0 .. Len(s)
  PROVE  /\ Rest(s, i) \in Seq(T) /\ Len(Rest(s, i)) = Len(s) - i
         /\ \A k \in 1 .. Len(s) - i : Rest(s, i)[k] = s[i + k]
         /\ DOMAIN Rest(s, i) = 1 .. Len(s) - i
<1>1. /\ i \in Int /\ i >= 0 /\ i <= Len(s) /\ Len(s) \in Int
      /\ \A k \in i + 1 .. Len(s) : s[k] \in T
  OBVIOUS
<1>2. /\ Rest(s, i) \in Seq(T)
      /\ Len(Rest(s, i)) = IF i + 1 <= Len(s) THEN Len(s) - (i + 1) + 1 ELSE 0
      /\ \A k \in 1 .. Len(s) - (i + 1) + 1 : Rest(s, i)[k] = s[i + 1 + k - 1]
  BY <1>1, SubSeqProperties DEF Rest
<1>3. Len(Rest(s, i)) = Len(s) - i
  BY <1>1, <1>2
<1>4. \A k \in 1 .. Len(s) - i : Rest(s, i)[k] = s[i + k]
  BY <1>1, <1>2
<1> QED BY <1>2, <1>3, <1>4

\* Two prefixes of one length are equal when their elements are.
LEMMA SamePrefix ==
  ASSUME NEW T, NEW s \in Seq(T), NEW t \in Seq(T), NEW i \in Nat, i <= Len(s), i <= Len(t)
  PROVE  Prefix(s, i) = Prefix(t, i) <=> \A k \in 1 .. i : s[k] = t[k]
<1>1. i \in 0 .. Len(s) /\ i \in 0 .. Len(t)
  OBVIOUS
<1>2. /\ Prefix(s, i) \in Seq(T) /\ Len(Prefix(s, i)) = i
      /\ \A k \in 1 .. i : Prefix(s, i)[k] = s[k]
  BY <1>1, PrefixProperties
<1>3. /\ Prefix(t, i) \in Seq(T) /\ Len(Prefix(t, i)) = i
      /\ \A k \in 1 .. i : Prefix(t, i)[k] = t[k]
  BY <1>1, PrefixProperties
<1>4. ASSUME \A k \in 1 .. i : s[k] = t[k]
      PROVE  Prefix(s, i) = Prefix(t, i)
  <2>1. \A k \in 1 .. Len(Prefix(s, i)) : Prefix(s, i)[k] = Prefix(t, i)[k]
    BY <1>2, <1>3, <1>4
  <2> QED BY <2>1, <1>2, <1>3, SeqEqual
<1> QED BY <1>2, <1>3, <1>4

\* A prefix of a prefix is a prefix.
LEMMA PrefixOfPrefix ==
  ASSUME NEW T, NEW s \in Seq(T), NEW k \in 0 .. Len(s), NEW i \in 0 .. k
  PROVE  Prefix(Prefix(s, k), i) = Prefix(s, i)
<1>1. /\ Prefix(s, k) \in Seq(T) /\ Len(Prefix(s, k)) = k
      /\ \A m \in 1 .. k : Prefix(s, k)[m] = s[m]
  BY PrefixProperties
<1>2. i \in Nat /\ i <= Len(s) /\ i <= Len(Prefix(s, k))
  BY <1>1
<1>3. \A m \in 1 .. i : Prefix(s, k)[m] = s[m]
  BY <1>1
<1> QED BY <1>1, <1>2, <1>3, SamePrefix

\* The shortest and the longest prefix.
LEMMA ExtremePrefixes ==
  ASSUME NEW T, NEW s \in Seq(T)
  PROVE  Prefix(s, 0) = <<>> /\ Prefix(s, Len(s)) = s
<1>1. Prefix(s, 0) = <<>>
  BY SubSeqEmpty DEF Prefix
<1>2. Prefix(s, Len(s)) = s
  BY SubSeqFull DEF Prefix
<1> QED BY <1>1, <1>2

\* A prefix and what follows it make the whole.
LEMMA PrefixAndRest ==
  ASSUME NEW T, NEW s \in Seq(T), NEW i \in 0 .. Len(s)
  PROVE  Prefix(s, i) \o Rest(s, i) = s
<1>1. 1 \in 1 .. Len(s) + 1 /\ i \in 1 - 1 .. Len(s) /\ Len(s) \in i .. Len(s)
  OBVIOUS
<1>2. Prefix(s, i) \o Rest(s, i) = SubSeq(s, 1, Len(s))
  BY <1>1, ConcatAdjacentSubSeq DEF Prefix, Rest
<1> QED BY <1>2, SubSeqFull

\* Paths have parents.
LEMMA ParentProperties ==
  ASSUME NEW q \in Path, q # <<>>
  PROVE  /\ Parent(q) \in Path /\ Len(Parent(q)) = Len(q) - 1
         /\ Len(q) \in 1 .. Dim
         /\ \A i \in 0 .. Len(q) - 1 : Prefix(Parent(q), i) = Prefix(q, i)
<1>1. q \in Seq(Interval) /\ Len(q) \in Nat /\ Len(q) <= Dim /\ Len(q) # 0 /\ Dim \in Nat
  BY RulesAssumption DEF Path
<1>2. Len(q) - 1 \in 0 .. Len(q)
  BY <1>1
<1>3. Parent(q) \in Seq(Interval) /\ Len(Parent(q)) = Len(q) - 1
  BY <1>1, <1>2, PrefixProperties DEF Parent
<1>4. \A i \in 0 .. Len(q) - 1 : Prefix(Parent(q), i) = Prefix(q, i)
  BY <1>1, <1>2, PrefixOfPrefix DEF Parent
<1> QED BY <1>1, <1>3, <1>4 DEF Path

\* The paths that lead towards some keys are their prefixes.
LEMMA LeadsProperties ==
  ASSUME NEW keys \in Path, Len(keys) = Dim, NEW i \in 0 .. Dim
  PROVE  /\ Prefix(keys, i) \in Path /\ Len(Prefix(keys, i)) = i
         /\ Leads(Prefix(keys, i), keys)
         /\ i > 0 => Prefix(keys, i) # <<>> /\ Parent(Prefix(keys, i)) = Prefix(keys, i - 1)
         /\ i = 0 => Prefix(keys, i) = <<>>
         /\ \A k \in 0 .. i : Prefix(Prefix(keys, i), k) = Prefix(keys, k)
<1>1. keys \in Seq(Interval) /\ i \in 0 .. Len(keys) /\ i \in Nat /\ i <= Dim /\ Dim \in Nat
  BY RulesAssumption DEF Path
<1>2. Prefix(keys, i) \in Seq(Interval) /\ Len(Prefix(keys, i)) = i
  BY <1>1, PrefixProperties
<1>3. \A k \in 0 .. i : Prefix(Prefix(keys, i), k) = Prefix(keys, k)
  BY <1>1, PrefixOfPrefix
<1>4. i > 0 => i - 1 \in 0 .. i /\ Prefix(keys, i) # <<>>
  BY <1>1, <1>2
<1>5. i = 0 => Prefix(keys, i) = <<>>
  BY <1>1, ExtremePrefixes
<1> QED BY <1>1, <1>2, <1>3, <1>4, <1>5 DEF Leads, Parent, Path

------------------------------------------------------------------------------
(* The rules under a path                                                  *)

\* The keys of a rule are a path of full length.
LEMMA KeysProperties ==
  ASSUME NEW fo \in FieldOrder, NEW r \in Rule
  PROVE  /\ Keys(fo, r) \in Path /\ Keys(fo, r) \in Seq(Interval) /\ Len(Keys(fo, r)) = Dim
         /\ \A i \in Field : Keys(fo, r)[i] = range[r][fo[i]]
         /\ DOMAIN Keys(fo, r) = Field
<1>1. fo \in [Field -> Field] /\ range[r] \in [Field -> Interval] /\ Dim \in Nat
  BY RulesAssumption DEF FieldOrder, Interval
<1>2. Keys(fo, r) \in [1 .. Dim -> Interval]
  BY <1>1 DEF Keys, Field
<1>3. Keys(fo, r) \in Seq(Interval) /\ Len(Keys(fo, r)) = Dim
  BY <1>1, <1>2
<1> QED BY <1>1, <1>2, <1>3 DEF Keys, Field, Path

\* The number of rules under a path.
Load(fo, S, q) == Cardinality(Under(fo, S, q))

\* Under a path are rules of S, finitely many.
LEMMA LoadType ==
  ASSUME NEW fo, NEW S \in SUBSET Rule, NEW q
  PROVE  /\ Under(fo, S, q) \subseteq S /\ IsFiniteSet(Under(fo, S, q))
         /\ Load(fo, S, q) \in Nat
         /\ Load(fo, S, q) = 0 <=> Under(fo, S, q) = {}
         /\ \A r \in S : r \in Under(fo, S, q) <=> Leads(q, Keys(fo, r))
<1>1. Under(fo, S, q) \subseteq S
  BY DEF Under
<1>2. IsFiniteSet(Under(fo, S, q))
  BY <1>1, FS_Subset, RulesAssumption
<1>3. \A r \in S : r \in Under(fo, S, q) <=> Leads(q, Keys(fo, r))
  BY DEF Under, Leads
<1> QED BY <1>1, <1>2, <1>3, FS_CardinalityType, FS_EmptySet DEF Load

\* Fewer rules are under a longer path.
LEMMA LoadShrinks ==
  ASSUME NEW fo \in FieldOrder, NEW S \in SUBSET Rule, NEW keys \in Path, Len(keys) = Dim,
         NEW i \in 0 .. Dim, NEW k \in 0 .. i
  PROVE  /\ Under(fo, S, Prefix(keys, i)) \subseteq Under(fo, S, Prefix(keys, k))
         /\ Load(fo, S, Prefix(keys, i)) <= Load(fo, S, Prefix(keys, k))
<1>1. /\ Len(Prefix(keys, i)) = i /\ Len(Prefix(keys, k)) = k /\ k \in 0 .. Dim
      /\ Prefix(Prefix(keys, i), k) = Prefix(keys, k)
  BY LeadsProperties, RulesAssumption
<1>2. ASSUME NEW r \in Under(fo, S, Prefix(keys, i))
      PROVE  r \in Under(fo, S, Prefix(keys, k))
  <2>1. r \in S /\ r \in Rule /\ Prefix(Keys(fo, r), i) = Prefix(keys, i)
    BY <1>1, <1>2 DEF Under
  <2>2. Prefix(Prefix(Keys(fo, r), i), k) = Prefix(Keys(fo, r), k)
    BY <2>1, KeysProperties, LeadsProperties
  <2> QED BY <1>1, <2>1, <2>2 DEF Under
<1>3. IsFiniteSet(Under(fo, S, Prefix(keys, k)))
  BY LoadType
<1> QED BY <1>2, <1>3, FS_Subset DEF Load

\* One rule more is under the paths that lead to it.
LEMMA LoadAfterInsertion ==
  ASSUME NEW fo, NEW S \in SUBSET Rule, NEW r \in Rule, r \notin S, NEW q
  PROVE  IF Leads(q, Keys(fo, r))
         THEN /\ Under(fo, S \cup {r}, q) = Under(fo, S, q) \cup {r}
              /\ Load(fo, S \cup {r}, q) = Load(fo, S, q) + 1
         ELSE /\ Under(fo, S \cup {r}, q) = Under(fo, S, q)
              /\ Load(fo, S \cup {r}, q) = Load(fo, S, q)
<1>1. r \notin Under(fo, S, q) /\ IsFiniteSet(Under(fo, S, q))
  BY LoadType
<1>2. Under(fo, S \cup {r}, q) = IF Leads(q, Keys(fo, r)) THEN Under(fo, S, q) \cup {r}
                                 ELSE Under(fo, S, q)
  BY DEF Under, Leads
<1> QED BY <1>1, <1>2, FS_AddElement DEF Load

\* One rule fewer is under the paths that led to it.
LEMMA LoadAfterDeletion ==
  ASSUME NEW fo, NEW S \in SUBSET Rule, NEW r \in S, NEW q
  PROVE  IF Leads(q, Keys(fo, r))
         THEN /\ r \in Under(fo, S, q)
              /\ Under(fo, S \ {r}, q) = Under(fo, S, q) \ {r}
              /\ Load(fo, S \ {r}, q) = Load(fo, S, q) - 1
         ELSE /\ Under(fo, S \ {r}, q) = Under(fo, S, q)
              /\ Load(fo, S \ {r}, q) = Load(fo, S, q)
<1>1. IsFiniteSet(Under(fo, S, q)) /\ (r \in Under(fo, S, q) <=> Leads(q, Keys(fo, r)))
  BY LoadType
<1>2. Under(fo, S \ {r}, q) = IF Leads(q, Keys(fo, r)) THEN Under(fo, S, q) \ {r}
                                 ELSE Under(fo, S, q)
  BY DEF Under, Leads
<1> QED BY <1>1, <1>2, FS_RemoveElement DEF Load

\* The empty path leads to every rule.
LEMMA LoadOfTop ==
  ASSUME NEW fo \in FieldOrder, NEW S \in SUBSET Rule
  PROVE  Under(fo, S, <<>>) = S /\ \A r \in Rule : Leads(<<>>, Keys(fo, r))
<1>1. Len(<<>>) = 0
  OBVIOUS
<1>2. \A r \in Rule : Prefix(Keys(fo, r), 0) = <<>>
  BY KeysProperties, ExtremePrefixes
<1> QED BY <1>1, <1>2 DEF Under, Leads

\* The paths spelled out are the empty one, and those with a rule under them
\* whose parent has several.
LEMMA SpelledMeans ==
  ASSUME NEW fo \in FieldOrder, NEW S \in SUBSET Rule, NEW q
  PROVE  q \in Spelled(fo, S) <=>
            /\ q \in Path
            /\ q = <<>> \/ (Load(fo, S, q) > 0 /\ Load(fo, S, Parent(q)) > 1)
<1>1. Dim \in Nat /\ Dim > 0 /\ Field = 1 .. Dim
  BY RulesAssumption DEF Field
<1>2. <<>> \in Path
  BY <1>1 DEF Path
<1>3. ASSUME NEW r \in S, NEW i \in Field, q = Prefix(Keys(fo, r), i),
             Cardinality(Under(fo, S, Prefix(Keys(fo, r), i - 1))) > 1
      PROVE  q \in Path /\ Load(fo, S, q) > 0 /\ Load(fo, S, Parent(q)) > 1
  <2>1. i \in 0 .. Dim /\ i > 0 /\ r \in Rule
    BY <1>1
  <2>2. q \in Path /\ Leads(q, Keys(fo, r)) /\ Parent(q) = Prefix(Keys(fo, r), i - 1)
    BY <1>3, <2>1, KeysProperties, LeadsProperties
  <2>3. r \in Under(fo, S, q) /\ Load(fo, S, q) \in Nat /\ (Load(fo, S, q) = 0 <=> Under(fo, S, q) = {})
    BY <2>2, LoadType
  <2> QED BY <1>3, <2>2, <2>3 DEF Load
<1>4. ASSUME q \in Path, q # <<>>, Load(fo, S, q) > 0, Load(fo, S, Parent(q)) > 1
      PROVE  \E r \in S, i \in Field : /\ q = Prefix(Keys(fo, r), i)
                /\ Cardinality(Under(fo, S, Prefix(Keys(fo, r), i - 1))) > 1
  <2>1. Load(fo, S, q) # 0
    BY <1>4
  <2>2. PICK r \in S : Leads(q, Keys(fo, r))
    BY <2>1, LoadType
  <2>3. Len(q) \in 1 .. Dim /\ r \in Rule
    BY <1>4, ParentProperties
  <2>4. Len(q) \in Field /\ q = Prefix(Keys(fo, r), Len(q)) /\ Len(q) > 0 /\ Len(q) \in 0 .. Dim
    BY <1>1, <2>2, <2>3 DEF Leads
  <2>5. Parent(q) = Prefix(Keys(fo, r), Len(q) - 1)
    BY <2>3, <2>4, KeysProperties, LeadsProperties
  <2> QED BY <1>4, <2>4, <2>5 DEF Load
<1>5. q \in Spelled(fo, S) <=> q = <<>> \/ \E r \in S, i \in Field : /\ q = Prefix(Keys(fo, r), i)
                /\ Cardinality(Under(fo, S, Prefix(Keys(fo, r), i - 1))) > 1
  BY DEF Spelled
<1> QED BY <1>2, <1>3, <1>4, <1>5

------------------------------------------------------------------------------
(* Lists of priorities                                                     *)

Tree == [count : Int, chain : Seq(Interval), priorities : Seq(Priorities), maxPriority : Int]

Best(here) == Max({NoMatch} \cup {priority[r] : r \in here})

Occurs(list, v) == Cardinality({n \in DOMAIN list : list[n] = v})
Having(here, v) == Cardinality({r \in here : priority[r] = v})

\* The best priority of a set of rules, as ListFits compares it.
LEMMA BestProperties ==
  ASSUME NEW here \in SUBSET Rule
  PROVE  /\ Best(here) \in Int /\ Best(here) >= NoMatch
         /\ \A r \in here : priority[r] <= Best(here)
         /\ here = {} => Best(here) = NoMatch
         /\ here # {} => \E r \in here : Best(here) = priority[r]
<1> DEFINE V == {priority[r] : r \in here}
<1>1. V \in SUBSET Nat /\ \A r \in here : priority[r] \in Nat
  BY RulesAssumption
<1>2. CASE here = {}
  <2>1. {NoMatch} \cup V = {NoMatch} /\ NoMatch \in Int /\ NoMatch <= NoMatch
    BY <1>2 DEF NoMatch
  <2>2. Max({NoMatch}) = NoMatch
    BY <2>1, MaxProperty
  <2> QED BY <1>2, <2>1, <2>2 DEF Best
<1>3. CASE here # {}
  <2> DEFINE f == [r \in here |-> priority[r]]
  <2>1. f \in [here -> Nat] /\ \A r \in here : f[r] = priority[r]
    BY <1>1
  <2>2. IsFiniteSet(here)
    BY FS_Subset, RulesAssumption
  <2> HIDE DEF f
  <2>3. PICK b \in Nat : \A r \in here : f[r] <= b
    BY <2>1, <2>2, FiniteHasBound
  <2>4. V # {} /\ \A v \in V : v <= b
    BY <1>3, <2>1, <2>3
  <2> HIDE DEF V
  <2>5. PICK m \in V : \A v \in V : v <= m
    BY <1>1, <2>4, BoundedHasMax
  <2>6. m \in Nat /\ NoMatch \in Int /\ NoMatch <= m
    BY <1>1, <2>5 DEF NoMatch
  <2>7. Max({NoMatch} \cup V) = m
    <3> DEFINE W == {NoMatch} \cup V
    <3>1. W \in SUBSET Int /\ m \in W /\ \A v \in W : v <= m
      BY <1>1, <2>5, <2>6
    <3> HIDE DEF W
    <3>2. Max(W) = m
      BY <3>1, MaxProperty
    <3> QED BY <3>2 DEF W
  <2>8. Best(here) = m
    BY <2>7 DEF Best, V
  <2>9. (\E r \in here : m = priority[r]) /\ \A r \in here : priority[r] <= m
    BY <2>5 DEF V
  <2> QED BY <1>3, <2>6, <2>8, <2>9
<1> QED BY <1>2, <1>3

\* What is as good as all rules of a set, and one of them, is the best.
LEMMA BestIs ==
  ASSUME NEW here \in SUBSET Rule, NEW r \in here, \A s \in here : priority[s] <= priority[r]
  PROVE  Best(here) = priority[r]
<1>1. priority[r] \in Nat /\ \A s \in here : priority[s] \in Nat
  BY RulesAssumption
<1>2. /\ Best(here) \in Int /\ priority[r] <= Best(here)
      /\ \E s \in here : Best(here) = priority[s]
  BY BestProperties
<1> QED BY <1>1, <1>2

\* One rule more.
LEMMA BestAfterInsertion ==
  ASSUME NEW here \in SUBSET Rule, NEW r \in Rule
  PROVE  Best(here \cup {r}) = IF priority[r] > Best(here) THEN priority[r] ELSE Best(here)
<1>1. priority[r] \in Nat /\ \A s \in here : priority[s] \in Nat /\ s \in Rule
  BY RulesAssumption
<1>2. /\ Best(here) \in Int /\ Best(here) >= NoMatch
      /\ \A s \in here : priority[s] <= Best(here)
      /\ here = {} => Best(here) = NoMatch
      /\ here # {} => \E s \in here : Best(here) = priority[s]
  BY BestProperties
<1>3. CASE priority[r] > Best(here)
  <2>1. \A s \in here \cup {r} : priority[s] <= priority[r]
    BY <1>1, <1>2, <1>3
  <2> QED BY <1>3, <2>1, BestIs
<1>4. CASE ~(priority[r] > Best(here))
  <2>1. here # {}
    BY <1>1, <1>2, <1>4 DEF NoMatch
  <2>2. PICK s \in here : Best(here) = priority[s]
    BY <1>2, <2>1
  <2>3. \A x \in here \cup {r} : priority[x] <= priority[s]
    BY <1>1, <1>2, <1>4, <2>2
  <2> QED BY <1>4, <2>2, <2>3, BestIs
<1> QED BY <1>3, <1>4

\* Occurrences are finitely many, and none exactly when the value is not listed.
LEMMA OccursType ==
  ASSUME NEW list \in Seq(Priorities), NEW v
  PROVE  /\ IsFiniteSet({n \in DOMAIN list : list[n] = v}) /\ Occurs(list, v) \in Nat
         /\ Occurs(list, v) = 0 <=> \A n \in DOMAIN list : list[n] # v
<1>1. Len(list) \in Nat /\ DOMAIN list = 1 .. Len(list)
  OBVIOUS
<1>2. IsFiniteSet(DOMAIN list)
  BY <1>1, FS_Interval
<1>3. IsFiniteSet({n \in DOMAIN list : list[n] = v})
  BY <1>2, FS_Subset
<1> QED BY <1>3, FS_CardinalityType, FS_EmptySet DEF Occurs

\* The same for the rules with a priority.
LEMMA HavingType ==
  ASSUME NEW here \in SUBSET Rule, NEW v
  PROVE  /\ IsFiniteSet({r \in here : priority[r] = v}) /\ Having(here, v) \in Nat
         /\ Having(here, v) = 0 <=> \A r \in here : priority[r] # v
<1>1. IsFiniteSet(here)
  BY FS_Subset, RulesAssumption
<1>2. IsFiniteSet({r \in here : priority[r] = v})
  BY <1>1, FS_Subset
<1> QED BY <1>2, FS_CardinalityType, FS_EmptySet DEF Having

\* A rule more, a rule less.
LEMMA HavingAfterInsertion ==
  ASSUME NEW here \in SUBSET Rule, NEW r \in Rule, r \notin here, NEW v
  PROVE  Having(here \cup {r}, v) = IF priority[r] = v THEN Having(here, v) + 1 ELSE Having(here, v)
<1> DEFINE A == {s \in here : priority[s] = v}
<1>1. IsFiniteSet(A) /\ Having(here, v) \in Nat /\ r \notin A
  BY HavingType
<1> DEFINE B == {s \in here \cup {r} : priority[s] = v}
<1>2. B = IF priority[r] = v THEN A \cup {r} ELSE A
  OBVIOUS
<1>3. Having(here \cup {r}, v) = Cardinality(B) /\ Having(here, v) = Cardinality(A)
  BY DEF Having
<1> HIDE DEF A, B
<1>4. Cardinality(A \cup {r}) = Cardinality(A) + 1
  BY <1>1, FS_AddElement
<1> QED BY <1>2, <1>3, <1>4

\* The other direction.
LEMMA HavingAfterDeletion ==
  ASSUME NEW here \in SUBSET Rule, NEW r \in here, NEW v
  PROVE  Having(here \ {r}, v) = IF priority[r] = v THEN Having(here, v) - 1 ELSE Having(here, v)
<1> DEFINE rest == here \ {r}
<1>1. rest \in SUBSET Rule /\ r \in Rule /\ r \notin rest /\ here = rest \cup {r}
  OBVIOUS
<1> HIDE DEF rest
<1>2. Having(rest \cup {r}, v) = IF priority[r] = v THEN Having(rest, v) + 1 ELSE Having(rest, v)
  BY <1>1, HavingAfterInsertion
<1>3. Having(rest, v) \in Nat
  BY <1>1, HavingType
<1>4. Having(here, v) = IF priority[r] = v THEN Having(rest, v) + 1 ELSE Having(rest, v)
  BY <1>1, <1>2
<1>5. Having(rest, v) = IF priority[r] = v THEN Having(here, v) - 1 ELSE Having(here, v)
  BY <1>3, <1>4
<1> QED BY <1>5 DEF rest

\* A list that fits holds the priorities of the rules and no others.
LEMMA ListFitsMeans ==
  ASSUME NEW here \in SUBSET Rule, NEW tree \in Tree
  PROVE  ListFits(here, tree) <=>
            /\ tree.maxPriority = Best(here)
            /\ \A v \in Priorities : Occurs(tree.priorities, v) = Having(here, v)
BY DEF ListFits, Best, Occurs, Having

\* The values listed are those of the rules.
LEMMA FittingValues ==
  ASSUME NEW here \in SUBSET Rule, NEW tree \in Tree, ListFits(here, tree)
  PROVE  /\ \A n \in DOMAIN tree.priorities : \E r \in here : priority[r] = tree.priorities[n]
         /\ \A r \in here : \E n \in DOMAIN tree.priorities : priority[r] = tree.priorities[n]
<1>1. tree.priorities \in Seq(Priorities)
  BY DEF Tree
<1>2. \A v \in Priorities : Occurs(tree.priorities, v) = Having(here, v)
  BY ListFitsMeans
<1>3. \A r \in here : priority[r] \in Priorities
  BY DEF Priorities
<1>4. \A n \in DOMAIN tree.priorities : tree.priorities[n] \in Priorities
  BY <1>1
<1> QED BY <1>1, <1>2, <1>3, <1>4, OccursType, HavingType

\* Appending a value adds an occurrence of it.
LEMMA OccursAfterAppend ==
  ASSUME NEW list \in Seq(Priorities), NEW v \in Priorities, NEW w
  PROVE  Occurs(Append(list, v), w) = IF v = w THEN Occurs(list, w) + 1 ELSE Occurs(list, w)
<1> DEFINE new == Append(list, v)
           A == {n \in DOMAIN list : list[n] = w}
           B == {n \in DOMAIN new : new[n] = w}
<1>1. /\ Len(list) \in Nat /\ DOMAIN list = 1 .. Len(list) /\ DOMAIN new = 1 .. Len(list) + 1
      /\ new[Len(list) + 1] = v /\ \A n \in 1 .. Len(list) : new[n] = list[n]
  <2>1. Len(list) \in Nat /\ DOMAIN list = 1 .. Len(list)
    OBVIOUS
  <2>2. /\ Append(list, v) \in Seq(Priorities) /\ Len(Append(list, v)) = Len(list) + 1
        /\ \A n \in 1 .. Len(list) : Append(list, v)[n] = list[n]
        /\ Append(list, v)[Len(list) + 1] = v
    BY AppendProperties
  <2>3. DOMAIN Append(list, v) = 1 .. Len(list) + 1
    BY <2>2
  <2> QED BY <2>1, <2>2, <2>3
<1>2. IsFiniteSet(A) /\ Len(list) + 1 \notin A
  <2>1. IsFiniteSet(A)
    BY OccursType
  <2>2. Len(list) + 1 \notin DOMAIN list
    BY <1>1
  <2> QED BY <2>1, <2>2
<1>3. B = IF v = w THEN A \cup {Len(list) + 1} ELSE A
  BY <1>1
<1>4. Occurs(new, w) = Cardinality(B) /\ Occurs(list, w) = Cardinality(A)
  BY DEF Occurs
<1> HIDE DEF A, B, new
<1>5. Cardinality(A \cup {Len(list) + 1}) = Cardinality(A) + 1
  BY <1>2, FS_AddElement
<1>6. Occurs(new, w) = IF v = w THEN Occurs(list, w) + 1 ELSE Occurs(list, w)
  BY <1>3, <1>4, <1>5
<1> QED BY <1>6 DEF new

\* A list without its i-th element.
LEMMA RemoveAtProperties ==
  ASSUME NEW list \in Seq(Priorities), NEW i \in DOMAIN list
  PROVE  /\ RemoveAt(list, i) \in Seq(Priorities)
         /\ DOMAIN RemoveAt(list, i) = 1 .. Len(list) - 1
         /\ Len(RemoveAt(list, i)) = Len(list) - 1
         /\ \A n \in 1 .. Len(list) - 1 :
               RemoveAt(list, i)[n] = IF n < i THEN list[n] ELSE list[n + 1]
<1>1. i \in 1 .. Len(list) /\ Len(list) \in Nat /\ i \in Nat
  OBVIOUS
<1> DEFINE a == SubSeq(list, 1, i - 1)
           b == SubSeq(list, i + 1, Len(list))
<1>2. /\ a \in Seq(Priorities) /\ Len(a) = (IF 1 <= i - 1 THEN i - 1 - 1 + 1 ELSE 0)
      /\ \A n \in 1 .. i - 1 - 1 + 1 : a[n] = list[1 + n - 1]
  BY <1>1, SubSeqProperties
<1>3. /\ b \in Seq(Priorities) /\ Len(b) = (IF i + 1 <= Len(list) THEN Len(list) - (i + 1) + 1 ELSE 0)
      /\ \A n \in 1 .. Len(list) - (i + 1) + 1 : b[n] = list[i + 1 + n - 1]
  BY <1>1, SubSeqProperties
<1> HIDE DEF a, b
<1>4. Len(a) = i - 1 /\ \A n \in 1 .. i - 1 : a[n] = list[n]
  BY <1>1, <1>2
<1>5. Len(b) = Len(list) - i /\ \A n \in 1 .. Len(list) - i : b[n] = list[i + n]
  BY <1>1, <1>3
<1>6. /\ a \o b \in Seq(Priorities) /\ Len(a \o b) = Len(a) + Len(b)
      /\ \A n \in 1 .. Len(a) + Len(b) : (a \o b)[n] = IF n <= Len(a) THEN a[n] ELSE b[n - Len(a)]
  BY <1>2, <1>3, ConcatProperties
<1>7. RemoveAt(list, i) = a \o b
  BY DEF RemoveAt, a, b
<1> DEFINE c == a \o b
<1>8. Len(c) = Len(list) - 1 /\ c \in Seq(Priorities)
  BY <1>1, <1>4, <1>5, <1>6
<1>9. ASSUME NEW n \in 1 .. Len(list) - 1
      PROVE  c[n] = IF n < i THEN list[n] ELSE list[n + 1]
  <2>1. c[n] = IF n <= Len(a) THEN a[n] ELSE b[n - Len(a)]
    <3>1. n \in 1 .. Len(a) + Len(b)
      BY <1>1, <1>4, <1>5
    <3> QED BY <1>6, <3>1
  <2>2. CASE n < i
    BY <1>1, <1>4, <2>1, <2>2
  <2>3. CASE ~(n < i)
    <3>1. n - (i - 1) \in 1 .. Len(list) - i /\ ~(n <= i - 1) /\ i + (n - (i - 1)) = n + 1
      BY <1>1, <2>3
    <3>2. c[n] = b[n - (i - 1)]
      BY <1>4, <2>1, <3>1
    <3>3. b[n - (i - 1)] = list[i + (n - (i - 1))]
      BY <1>5, <3>1
    <3> QED BY <2>3, <3>1, <3>2, <3>3
  <2> QED BY <2>2, <2>3
<1> HIDE DEF c
<1>10. RemoveAt(list, i) = c
  BY <1>7 DEF c
<1> QED BY <1>8, <1>9, <1>10

\* Removing an element removes one occurrence of its value.
LEMMA OccursAfterRemoveAt ==
  ASSUME NEW list \in Seq(Priorities), NEW i \in DOMAIN list, NEW w
  PROVE  Occurs(RemoveAt(list, i), w) = IF list[i] = w THEN Occurs(list, w) - 1 ELSE Occurs(list, w)
<1> DEFINE new == RemoveAt(list, i)
           A == {n \in DOMAIN list : list[n] = w}
           B == {n \in DOMAIN new : new[n] = w}
           f == [n \in B |-> IF n < i THEN n ELSE n + 1]
<1>1. /\ Len(list) \in Nat /\ DOMAIN list = 1 .. Len(list) /\ i \in 1 .. Len(list)
      /\ DOMAIN new = 1 .. Len(list) - 1
      /\ \A n \in 1 .. Len(list) - 1 : new[n] = IF n < i THEN list[n] ELSE list[n + 1]
  <2>1. Len(list) \in Nat /\ DOMAIN list = 1 .. Len(list) /\ i \in 1 .. Len(list)
    OBVIOUS
  <2>2. /\ DOMAIN RemoveAt(list, i) = 1 .. Len(list) - 1
        /\ \A n \in 1 .. Len(list) - 1 :
              RemoveAt(list, i)[n] = IF n < i THEN list[n] ELSE list[n + 1]
    BY RemoveAtProperties
  <2> QED BY <2>1, <2>2
<1>2. IsFiniteSet(A)
  BY OccursType
<1>3. Occurs(new, w) = Cardinality(B) /\ Occurs(list, w) = Cardinality(A)
  BY DEF Occurs
<1>4. \A n \in B : n \in 1 .. Len(list) - 1 /\ new[n] = w
  BY <1>1
<1>5. \A n \in A : n \in 1 .. Len(list) /\ list[n] = w
  BY <1>1
<1>6. \A n \in B : f[n] \in A \ {i} /\ f[n] = IF n < i THEN n ELSE n + 1
  <2> TAKE n \in B
  <2>1. n \in 1 .. Len(list) - 1 /\ new[n] = w
    BY <1>4
  <2>2. f[n] = IF n < i THEN n ELSE n + 1
    OBVIOUS
  <2> QED BY <1>1, <2>1, <2>2
<1>7. \A m \in A \ {i} : \E n \in B : f[n] = m
  <2> TAKE m \in A \ {i}
  <2>1. m \in 1 .. Len(list) /\ list[m] = w /\ m # i
    BY <1>5
  <2>2. CASE m < i
    <3>1. m \in B /\ f[m] = m
      BY <1>1, <2>1, <2>2
    <3> QED BY <3>1
  <2>3. CASE ~(m < i)
    <3>1. m - 1 \in 1 .. Len(list) - 1 /\ ~(m - 1 < i) /\ m - 1 + 1 = m
      BY <1>1, <2>1, <2>3
    <3>2. m - 1 \in B
      BY <1>1, <2>1, <3>1
    <3>3. f[m - 1] = m
      BY <3>1, <3>2
    <3> QED BY <3>2, <3>3
  <2> QED BY <2>2, <2>3
<1>8. f \in [B -> A \ {i}]
  BY <1>6
<1>9. \A m, n \in B : f[m] = f[n] => m = n
  <2>1. TAKE m, n \in B
  <2>2. m \in Int /\ n \in Int /\ i \in Int
    BY <1>1, <1>4
  <2> QED BY <1>6, <2>2
<1> HIDE DEF A, B, f, new
<1>10. f \in Bijection(B, A \ {i})
  BY <1>7, <1>8, <1>9 DEF Bijection, Injection, Surjection, IsInjective
<1>11. IsFiniteSet(A \ {i}) /\ Cardinality(A \ {i}) = IF i \in A THEN Cardinality(A) - 1 ELSE Cardinality(A)
  BY <1>2, FS_RemoveElement
<1>12. Cardinality(B) = Cardinality(A \ {i})
  <2>1. IsFiniteSet(B)
    BY <1>10, <1>11, FS_Injection DEF Bijection
  <2> QED BY <1>10, <2>1, FS_Bijection DEF ExistsBijection
<1>13. i \in A <=> list[i] = w
  BY <1>1 DEF A
<1>14. Occurs(new, w) = IF list[i] = w THEN Occurs(list, w) - 1 ELSE Occurs(list, w)
  BY <1>3, <1>11, <1>12, <1>13
<1> QED BY <1>14 DEF new

------------------------------------------------------------------------------
(* What the operations on one tree do to it                                *)

\* Assignments to the fields of a tree.
LEMMA Assign ==
  ASSUME NEW t \in Tree
  PROVE  /\ \A x \in Int : LET u == [t EXCEPT !.count = x] IN
               /\ u \in Tree /\ u.count = x /\ u.chain = t.chain
               /\ u.priorities = t.priorities /\ u.maxPriority = t.maxPriority
         /\ \A x \in Seq(Interval) : LET u == [t EXCEPT !.chain = x] IN
               /\ u \in Tree /\ u.count = t.count /\ u.chain = x
               /\ u.priorities = t.priorities /\ u.maxPriority = t.maxPriority
         /\ \A x \in Seq(Priorities) : LET u == [t EXCEPT !.priorities = x] IN
               /\ u \in Tree /\ u.count = t.count /\ u.chain = t.chain
               /\ u.priorities = x /\ u.maxPriority = t.maxPriority
         /\ \A x \in Int : LET u == [t EXCEPT !.maxPriority = x] IN
               /\ u \in Tree /\ u.count = t.count /\ u.chain = t.chain
               /\ u.priorities = t.priorities /\ u.maxPriority = x
BY DEF Tree

\* A tree with another list.
WithList(t, list, m) == [t EXCEPT !.priorities = list, !.maxPriority = m]

\* A tree with another chain.
WithChain(t, n, chain) == [t EXCEPT !.count = n, !.chain = chain]

\* A list and its maximum are assigned.
LEMMA AssignList ==
  ASSUME NEW t \in Tree, NEW list \in Seq(Priorities), NEW m \in Int
  PROVE  /\ WithList(t, list, m) \in Tree /\ WithList(t, list, m).count = t.count
         /\ WithList(t, list, m).chain = t.chain
         /\ WithList(t, list, m).priorities = list /\ WithList(t, list, m).maxPriority = m
<1> DEFINE a == [t EXCEPT !.priorities = list]
           u == [a EXCEPT !.maxPriority = m]
<1>1. /\ a \in Tree /\ a.count = t.count /\ a.chain = t.chain
      /\ a.priorities = list /\ a.maxPriority = t.maxPriority
  BY Assign
<1>2. WithList(t, list, m) = u
  BY DEF WithList
<1> HIDE DEF a
<1>3. /\ u \in Tree /\ u.count = t.count /\ u.chain = t.chain
      /\ u.priorities = list /\ u.maxPriority = m
  BY <1>1, Assign
<1> HIDE DEF u
<1> QED BY <1>2, <1>3

\* A count and a chain are assigned.
LEMMA AssignChain ==
  ASSUME NEW t \in Tree, NEW n \in Int, NEW chain \in Seq(Interval)
  PROVE  /\ WithChain(t, n, chain) \in Tree /\ WithChain(t, n, chain).count = n
         /\ WithChain(t, n, chain).chain = chain
         /\ WithChain(t, n, chain).priorities = t.priorities
         /\ WithChain(t, n, chain).maxPriority = t.maxPriority
<1> DEFINE a == [t EXCEPT !.count = n]
           u == [a EXCEPT !.chain = chain]
<1>1. /\ a \in Tree /\ a.count = n /\ a.chain = t.chain
      /\ a.priorities = t.priorities /\ a.maxPriority = t.maxPriority
  BY Assign
<1>2. WithChain(t, n, chain) = u
  BY DEF WithChain
<1> HIDE DEF a
<1>3. /\ u \in Tree /\ u.count = n /\ u.chain = chain
      /\ u.priorities = t.priorities /\ u.maxPriority = t.maxPriority
  BY <1>1, Assign
<1> HIDE DEF u
<1> QED BY <1>2, <1>3

\* Whether a list fits depends on the list and its maximum only.
LEMMA SameList ==
  ASSUME NEW here, NEW t1, NEW t2, ListFits(here, t1),
         t1.priorities = t2.priorities, t1.maxPriority = t2.maxPriority
  PROVE  ListFits(here, t2)
BY DEF ListFits

\* A new tree lists nothing.
LEMMA CreateFits ==
  /\ RBTreeCreate \in Tree /\ RBTreeCreate.count = 0 /\ RBTreeCreate.chain = <<>>
  /\ ListFits({}, RBTreeCreate)
<1>1. RBTreeCreate \in Tree /\ RBTreeCreate.count = 0 /\ RBTreeCreate.chain = <<>>
  BY DEF RBTreeCreate, Tree, NoMatch
<1>2. RBTreeCreate.maxPriority = Best({})
  BY BestProperties DEF RBTreeCreate
<1>3. ASSUME NEW v \in Priorities
      PROVE  Occurs(RBTreeCreate.priorities, v) = Having({}, v)
  <2>1. RBTreeCreate.priorities \in Seq(Priorities) /\ \A n \in DOMAIN RBTreeCreate.priorities : FALSE
    BY DEF RBTreeCreate
  <2>2. Occurs(RBTreeCreate.priorities, v) = 0
    BY <2>1, OccursType
  <2>3. Having({}, v) = 0
    BY HavingType
  <2> QED BY <2>2, <2>3
<1> QED BY <1>1, <1>2, <1>3, ListFitsMeans

\* A rule joins a list.
LEMMA PushFits ==
  ASSUME NEW tree \in Tree, NEW here \in SUBSET Rule, ListFits(here, tree),
         NEW r \in Rule, r \notin here
  PROVE  LET new == PushPriority(tree, priority[r])
         IN  /\ new \in Tree /\ new.count = tree.count /\ new.chain = tree.chain
             /\ ListFits(here \cup {r}, new)
<1> DEFINE v == priority[r]
           new == PushPriority(tree, v)
<1>1. v \in Nat /\ v \in Priorities
  BY RulesAssumption DEF Priorities
<1>2. /\ tree.priorities \in Seq(Priorities) /\ tree.maxPriority \in Int
      /\ tree.count \in Int /\ tree.chain \in Seq(Interval)
  BY DEF Tree
<1>3. Append(tree.priorities, v) \in Seq(Priorities)
  BY <1>1, <1>2, AppendProperties
<1> DEFINE m == IF v > tree.maxPriority THEN v ELSE tree.maxPriority
<1>4. new = WithList(tree, Append(tree.priorities, v), m)
  BY DEF PushPriority, WithList
<1>5. /\ new \in Tree /\ new.count = tree.count /\ new.chain = tree.chain
      /\ new.priorities = Append(tree.priorities, v) /\ new.maxPriority = m
  <2>1. m \in Int
    BY <1>1, <1>2
  <2> DEFINE list == Append(tree.priorities, v)
             given == WithList(tree, list, m)
  <2>2. new = given /\ list = Append(tree.priorities, v) /\ list \in Seq(Priorities)
    BY <1>3, <1>4
  <2> HIDE DEF new, m, list
  <2>3. /\ given \in Tree /\ given.count = tree.count /\ given.chain = tree.chain
        /\ given.priorities = list /\ given.maxPriority = m
    BY ONLY <2>1, <2>2, tree \in Tree, AssignList, ZenonT(60)
  <2> HIDE DEF given
  <2> QED BY ONLY <2>2, <2>3
<1>6. new.maxPriority = Best(here \cup {r})
  <2>1. tree.maxPriority = Best(here)
    BY ListFitsMeans
  <2>2. Best(here \cup {r}) = IF v > Best(here) THEN v ELSE Best(here)
    BY BestAfterInsertion
  <2> QED BY <1>5, <2>1, <2>2
<1>7. ASSUME NEW w \in Priorities
      PROVE  Occurs(new.priorities, w) = Having(here \cup {r}, w)
  <2>1. Occurs(tree.priorities, w) = Having(here, w)
    BY ListFitsMeans
  <2>2. Occurs(Append(tree.priorities, v), w)
          = IF v = w THEN Occurs(tree.priorities, w) + 1 ELSE Occurs(tree.priorities, w)
    BY <1>1, <1>2, OccursAfterAppend
  <2>3. Having(here \cup {r}, w) = IF v = w THEN Having(here, w) + 1 ELSE Having(here, w)
    BY HavingAfterInsertion
  <2> QED BY <1>5, <2>1, <2>2, <2>3
<1>8. here \cup {r} \in SUBSET Rule
  OBVIOUS
<1> HIDE DEF new
<1>9. ListFits(here \cup {r}, new)
  BY <1>5, <1>6, <1>7, <1>8, ListFitsMeans
<1> QED BY <1>5, <1>9 DEF new

\* A compressed tree lists its only rule.
LEMMA SingleFits ==
  ASSUME NEW keys \in Seq(Interval), NEW r \in Rule
  PROVE  LET new == Single(keys, priority[r])
         IN  /\ new \in Tree /\ new.count = 1 /\ new.chain = keys /\ ListFits({r}, new)
<1> DEFINE empty == [RBTreeCreate EXCEPT !.count = 1, !.chain = keys]
<1>1. /\ empty \in Tree /\ empty.count = 1 /\ empty.chain = keys
      /\ empty.priorities = RBTreeCreate.priorities /\ empty.maxPriority = RBTreeCreate.maxPriority
  <2>1. RBTreeCreate \in Tree /\ 1 \in Int
    BY CreateFits
  <2>2. empty = WithChain(RBTreeCreate, 1, keys)
    BY DEF WithChain
  <2> HIDE DEF empty
  <2> QED BY <2>1, <2>2, AssignChain
<1> HIDE DEF empty
<1>2. ListFits({}, empty)
  BY <1>1, CreateFits, SameList
<1>3. {} \in SUBSET Rule /\ r \notin {} /\ {} \cup {r} = {r}
  OBVIOUS
<1>4. LET new == PushPriority(empty, priority[r])
      IN  /\ new \in Tree /\ new.count = empty.count /\ new.chain = empty.chain
          /\ ListFits({} \cup {r}, new)
  BY <1>1, <1>2, <1>3, PushFits
<1>5. Single(keys, priority[r]) = PushPriority(empty, priority[r])
  BY DEF Single, empty
<1> QED BY <1>1, <1>3, <1>4, <1>5

\* A list of two rules with the same keys.
LEMMA TogetherFits ==
  ASSUME NEW r \in Rule, NEW s \in Rule, r # s
  PROVE  LET new == Together(priority[r], priority[s])
         IN  /\ new \in Tree /\ new.count = 2 /\ new.chain = <<>> /\ ListFits({r, s}, new)
<1>1. /\ Pair \in Tree /\ Pair.count = 2 /\ Pair.chain = <<>>
      /\ Pair.priorities = RBTreeCreate.priorities /\ Pair.maxPriority = RBTreeCreate.maxPriority
  <2>1. RBTreeCreate \in Tree /\ RBTreeCreate.chain = <<>> /\ 2 \in Int
    BY CreateFits
  <2>2. Pair = [RBTreeCreate EXCEPT !.count = 2]
    BY DEF Pair
  <2> QED BY <2>1, <2>2, Assign
<1>2. ListFits({}, Pair)
  BY <1>1, CreateFits, SameList
<1> DEFINE one == PushPriority(Pair, priority[r])
           two == PushPriority(one, priority[s])
<1>3. {} \in SUBSET Rule /\ r \notin {} /\ {} \cup {r} = {r}
  OBVIOUS
<1>4. one \in Tree /\ one.count = 2 /\ one.chain = <<>> /\ ListFits({} \cup {r}, one)
  BY <1>1, <1>2, <1>3, PushFits
<1> HIDE DEF one
<1>5. {r} \in SUBSET Rule /\ s \notin {r} /\ {r} \cup {s} = {r, s} /\ ListFits({r}, one)
  BY <1>3, <1>4
<1>6. two \in Tree /\ two.count = 2 /\ two.chain = <<>> /\ ListFits({r} \cup {s}, two)
  BY <1>4, <1>5, PushFits
<1>7. Together(priority[r], priority[s]) = two
  BY DEF Together, one
<1> HIDE DEF two
<1> QED BY <1>5, <1>6, <1>7

\* A rule leaves a list.
LEMMA PopFits ==
  ASSUME NEW tree \in Tree, NEW here \in SUBSET Rule, ListFits(here, tree), NEW r \in here
  PROVE  LET new == PopPriority(tree, priority[r])
         IN  /\ new \in Tree /\ new.count = tree.count /\ new.chain = tree.chain
             /\ ListFits(here \ {r}, new) /\ Len(new.priorities) = Len(tree.priorities) - 1
<1> DEFINE v == priority[r]
           list == tree.priorities
           i == Min({n \in DOMAIN list : list[n] = v})
           rest == RemoveAt(list, i)
           best == IF rest = <<>> THEN NoMatch
                   ELSE IF v = tree.maxPriority THEN Max(ToSet(rest)) ELSE tree.maxPriority
           new == PopPriority(tree, v)
           left == here \ {r}
<1>1. /\ list \in Seq(Priorities) /\ tree.maxPriority \in Int
      /\ tree.count \in Int /\ tree.chain \in Seq(Interval)
  BY DEF Tree
<1>2. v \in Nat /\ v \in Priorities /\ Priorities \subseteq Nat /\ left \in SUBSET Rule
  BY RulesAssumption DEF Priorities
<1>3. \A w \in Priorities : Occurs(list, w) = Having(here, w)
  BY ListFitsMeans
<1>4. tree.maxPriority = Best(here)
  BY ListFitsMeans
<1>5. i \in DOMAIN list /\ list[i] = v
  <2> DEFINE T == {n \in DOMAIN list : list[n] = v}
  <2>1. \A n \in DOMAIN list : n \in Nat
    BY <1>1
  <2>2. \E n \in DOMAIN list : priority[r] = list[n]
    BY FittingValues
  <2>3. T \in SUBSET Nat /\ T # {}
    BY <2>1, <2>2
  <2> HIDE DEF T
  <2>4. PICK m \in T : \A n \in T : ~(n < m)
    BY <2>3, LeastNatural
  <2>5. \A n \in T : m =< n
    BY <2>3, <2>4
  <2>6. Min(T) \in T
    BY <2>5 DEF Min
  <2>7. i = Min(T)
    BY DEF T
  <2> QED BY <2>6, <2>7 DEF T
<1> HIDE DEF i, left, list, v
<1>6. /\ rest \in Seq(Priorities) /\ DOMAIN rest = 1 .. Len(list) - 1 /\ Len(rest) = Len(list) - 1
      /\ \A n \in 1 .. Len(list) - 1 : rest[n] = IF n < i THEN list[n] ELSE list[n + 1]
  BY <1>1, <1>5, RemoveAtProperties
<1>7. \A w \in Priorities : Occurs(rest, w) = Having(left, w)
  <2> TAKE w \in Priorities
  <2>1. Occurs(rest, w) = IF v = w THEN Occurs(list, w) - 1 ELSE Occurs(list, w)
    BY <1>1, <1>5, OccursAfterRemoveAt
  <2>2. Having(left, w) = IF v = w THEN Having(here, w) - 1 ELSE Having(here, w)
    BY HavingAfterDeletion DEF left, v
  <2> QED BY <1>3, <2>1, <2>2
<1> HIDE DEF rest, best, new
<1>8. \A n \in DOMAIN rest : \E s \in left : priority[s] = rest[n]
  <2> TAKE n \in DOMAIN rest
  <2>1. rest[n] \in Priorities
    BY <1>6
  <2>2. Having(left, rest[n]) # 0
    <3>1. Occurs(rest, rest[n]) # 0
      <4> DEFINE u == rest[n]
      <4>1. rest[n] = u
        OBVIOUS
      <4> HIDE DEF rest, u
      <4>2. rest \in Seq(Priorities)
        BY <1>6
      <4>3. Occurs(rest, u) = 0 <=> \A k \in DOMAIN rest : rest[k] # u
        BY ONLY <4>2, OccursType, ZenonT(60)
      <4>4. Occurs(rest, u) # 0
        BY ONLY <4>1, <4>3, n \in DOMAIN rest
      <4> QED BY <4>1, <4>4
    <3> QED BY <1>7, <2>1, <3>1
  <2> QED BY <1>2, <2>2, HavingType
<1>9. \A s \in left : \E n \in DOMAIN rest : priority[s] = rest[n]
  <2> TAKE s \in left
  <2>1. priority[s] \in Priorities
    BY <1>2 DEF Priorities
  <2>2. Occurs(rest, priority[s]) # 0
    BY <1>2, <1>7, <2>1, HavingType
  <2> QED BY <1>6, <2>2, OccursType
<1>10. best = Best(left)
  <2>1. CASE rest = <<>>
    <3>1. \A n \in DOMAIN rest : FALSE
      BY <2>1
    <3>2. left = {}
      BY <1>9, <3>1
    <3> QED BY <1>2, <2>1, <3>2, BestProperties DEF best
  <2>2. CASE rest # <<>>
    <3>1. left # {}
      <4>1. 1 \in DOMAIN rest
        BY <1>6, <2>2
      <4> QED BY <1>8, <4>1
    <3>2. PICK s \in left : Best(left) = priority[s]
      BY <1>2, <3>1, BestProperties
    <3>3. priority[s] \in Nat /\ \A x \in left : priority[x] <= priority[s] /\ priority[x] \in Nat
      BY <1>2, <3>2, BestProperties, RulesAssumption
    <3>4. CASE v = tree.maxPriority
      <4>1. ToSet(rest) = {priority[x] : x \in left}
        BY <1>8, <1>9 DEF ToSet
      <4> DEFINE W == {priority[x] : x \in left}
      <4>2. W \in SUBSET Int /\ priority[s] \in W /\ \A w \in W : w <= priority[s]
        BY <3>3
      <4> HIDE DEF W
      <4>3. Max(W) = priority[s]
        BY <4>2, MaxProperty
      <4>4. Max(ToSet(rest)) = Best(left)
        BY <3>2, <4>1, <4>3 DEF W
      <4> QED BY <2>2, <3>4, <4>4 DEF best
    <3>5. CASE v # tree.maxPriority
      <4>1. PICK x \in here : Best(here) = priority[x]
        BY BestProperties
      <4>2. x \in left /\ \A y \in left : priority[y] <= priority[x]
        BY <1>4, <3>5, <4>1, BestProperties DEF left, v
      <4>3. Best(left) = priority[x]
        BY <1>2, <4>2, BestIs
      <4> QED BY <1>4, <2>2, <3>5, <4>1, <4>3 DEF best
    <3> QED BY <3>4, <3>5
  <2> QED BY <2>1, <2>2
<1>11. best \in Int
  BY <1>2, <1>10, BestProperties
<1>12. /\ new \in Tree /\ new.count = tree.count /\ new.chain = tree.chain
       /\ new.priorities = rest /\ new.maxPriority = best
  <2>1. new = WithList(tree, rest, best)
    BY DEF PopPriority, WithList, rest, i, list, best, new
  <2> QED BY <1>6, <1>11, <2>1, AssignList
<1>13. ListFits(left, new)
  BY <1>2, <1>7, <1>10, <1>12, ListFitsMeans
<1> QED BY <1>6, <1>12, <1>13 DEF new, list, left, v

\* The list of one rule: its length and its maximum.
LEMMA ListOfOne ==
  ASSUME NEW tree \in Tree, NEW r \in Rule, ListFits({r}, tree)
  PROVE  Len(tree.priorities) = 1 /\ tree.maxPriority = priority[r]
<1>1. tree.priorities \in Seq(Priorities) /\ {r} \in SUBSET Rule
  BY DEF Tree
<1>2. priority[r] \in Priorities
  BY DEF Priorities
<1>3. Occurs(tree.priorities, priority[r]) = Having({r}, priority[r])
  BY <1>1, <1>2, ListFitsMeans
<1>4. Having({r}, priority[r]) = 1
  <2>1. {s \in {r} : priority[s] = priority[r]} = {r}
    OBVIOUS
  <2> QED BY <2>1, FS_Singleton DEF Having
<1>5. \A n \in DOMAIN tree.priorities : tree.priorities[n] = priority[r]
  BY <1>1, FittingValues
<1>6. {n \in DOMAIN tree.priorities : tree.priorities[n] = priority[r]} = DOMAIN tree.priorities
  BY <1>5
<1>7. Cardinality(DOMAIN tree.priorities) = 1
  BY <1>3, <1>4, <1>6 DEF Occurs
<1>8. Len(tree.priorities) = 1
  <2> DEFINE n == Len(tree.priorities)
  <2>1. n \in Nat /\ DOMAIN tree.priorities = 1 .. n
    BY <1>1
  <2> HIDE DEF n
  <2>2. Cardinality(1 .. n) = IF 1 > n THEN 0 ELSE n - 1 + 1
    BY <2>1, FS_Interval
  <2>3. Cardinality(1 .. n) = 1
    BY <1>7, <2>1
  <2>4. n = 1
    BY <2>1, <2>2, <2>3
  <2> QED BY <2>4 DEF n
<1>9. tree.maxPriority = priority[r]
  <2>1. tree.maxPriority = Best({r})
    BY <1>1, ListFitsMeans
  <2>2. priority[r] \in Nat /\ \A s \in {r} : priority[s] <= priority[r]
    BY RulesAssumption
  <2> QED BY <1>1, <2>1, <2>2, BestIs
<1> QED BY <1>8, <1>9

\* The list of two rules: its length, and what is left when one goes.
LEMMA ListOfTwo ==
  ASSUME NEW tree \in Tree, NEW r \in Rule, NEW s \in Rule, r # s, ListFits({r, s}, tree)
  PROVE  /\ Len(tree.priorities) = 2
         /\ PopPriority(tree, priority[r]).maxPriority = priority[s]
<1> DEFINE new == PopPriority(tree, priority[r])
<1>1. {r, s} \in SUBSET Rule /\ r \in {r, s} /\ {r, s} \ {r} = {s}
  OBVIOUS
<1>2. new \in Tree /\ ListFits({r, s} \ {r}, new) /\ Len(new.priorities) = Len(tree.priorities) - 1
  BY <1>1, PopFits
<1> HIDE DEF new
<1>3. Len(new.priorities) = 1 /\ new.maxPriority = priority[s]
  BY <1>1, <1>2, ListOfOne
<1>4. Len(tree.priorities) \in Nat
  <2>1. tree.priorities \in Seq(Priorities)
    BY DEF Tree
  <2> QED BY <2>1
<1>5. Len(tree.priorities) = 2
  <2>1. \A a, b \in Nat : b = 1 /\ b = a - 1 => a = 2
    OBVIOUS
  <2> QED BY <1>2, <1>3, <1>4, <2>1
<1> QED BY <1>3, <1>5 DEF new

------------------------------------------------------------------------------
(* The trees of a set of rules                                             *)

\* The trees at all paths are those of the rules of S.
Shape(fo, S, t) ==
    /\ t \in [Spelled(fo, S) -> Tree]
    /\ \A q \in Spelled(fo, S) : Fits(fo, S, q, t[q])

\* What a tree has to be, in terms of the load of its path.
LEMMA FitsMeans ==
  ASSUME NEW fo, NEW S, NEW q, NEW tree
  PROVE  Fits(fo, S, q, tree) <=>
            /\ tree.count = Load(fo, S, q)
            /\ Load(fo, S, q) # 1 => tree.chain = <<>>
            /\ \A r \in Under(fo, S, q) : Load(fo, S, q) = 1 => tree.chain = Rest(Keys(fo, r), Len(q))
            /\ Load(fo, S, q) <= 1 \/ Len(q) = Dim => ListFits(Under(fo, S, q), tree)
BY DEF Fits, Load

\* A path not spelled out, and without rules, has a tree like a new one.
LEMMA AtFits ==
  ASSUME NEW fo \in FieldOrder, NEW S \in SUBSET Rule, NEW t, Shape(fo, S, t), NEW q,
         q \in Spelled(fo, S) \/ Load(fo, S, q) = 0
  PROVE  /\ At(t, q) \in Tree /\ Fits(fo, S, q, At(t, q)) /\ At(t, q).count = Load(fo, S, q)
         /\ q \in Spelled(fo, S) => At(t, q) = t[q]
<1>1. t \in [Spelled(fo, S) -> Tree] /\ DOMAIN t = Spelled(fo, S)
  BY DEF Shape
<1>2. CASE q \in Spelled(fo, S)
  <2>1. At(t, q) = t[q] /\ t[q] \in Tree
    BY <1>1, <1>2 DEF At
  <2>2. Fits(fo, S, q, t[q])
    BY <1>2 DEF Shape
  <2> QED BY <2>1, <2>2, FitsMeans
<1>3. CASE q \notin Spelled(fo, S)
  <2>1. At(t, q) = RBTreeCreate
    BY <1>1, <1>3 DEF At
  <2>2. Load(fo, S, q) = 0 /\ Under(fo, S, q) = {}
    BY <1>3, LoadType
  <2>3. Fits(fo, S, q, RBTreeCreate)
    BY <2>2, CreateFits, FitsMeans
  <2> QED BY <1>3, <2>1, <2>2, <2>3, CreateFits
<1> QED BY <1>2, <1>3

\* The level at which a descent ends, and the trees it passes.
LEMMA LevelProperties ==
  ASSUME NEW fo \in FieldOrder, NEW S \in SUBSET Rule, NEW t, Shape(fo, S, t),
         NEW keys \in Path, Len(keys) = Dim, NEW n \in {1, 2}
  PROVE  LET i == Level(t, keys, n)
             path == Prefix(keys, i)
         IN  /\ i \in 0 .. Dim
             /\ \A k \in 0 .. i - 1 : Load(fo, S, Prefix(keys, k)) > n
             /\ i = Dim \/ Load(fo, S, path) <= n
             /\ path \in Spelled(fo, S) \/ Load(fo, S, path) = 0
             /\ i = 0 => path \in Spelled(fo, S)
             /\ Load(fo, S, path) > 0 => path \in Spelled(fo, S)
<1> DEFINE T == {i \in 0 .. Dim : i = Dim \/ At(t, Prefix(keys, i)).count <= n}
           i == Level(t, keys, n)
<1>1. Dim \in Nat /\ Dim > 0
  BY RulesAssumption
<1>2. i \in T /\ \A k \in T : i <= k
  <2>1. Dim \in T /\ T \in SUBSET Nat
    BY <1>1
  <2>2. i = Min(T)
    BY DEF Level
  <2> HIDE DEF T, i
  <2>3. PICK m \in T : \A k \in T : ~(k < m)
    BY <2>1, LeastNatural
  <2>4. \A k \in T : m <= k
    BY <2>1, <2>3
  <2>5. Min(T) \in T /\ \A k \in T : Min(T) <= k
    BY <2>4 DEF Min
  <2> QED BY <2>2, <2>5
<1> HIDE DEF i
<1>3. i \in 0 .. Dim /\ (i = Dim \/ At(t, Prefix(keys, i)).count <= n)
  BY <1>2
<1>4. \A k \in 0 .. i - 1 : k \in 0 .. Dim /\ ~(At(t, Prefix(keys, k)).count <= n)
  <2> TAKE k \in 0 .. i - 1
  <2>1. k \in 0 .. Dim /\ k < i /\ i \in Int /\ k \in Int
    BY <1>1, <1>3
  <2>2. k \notin T
    BY <1>2, <2>1
  <2> QED BY <2>1, <2>2
<1> HIDE DEF T
<1>5. \A k \in 0 .. i - 1 : Load(fo, S, Prefix(keys, k)) > n
  <2> TAKE k \in 0 .. i - 1
  <2> DEFINE q == Prefix(keys, k)
  <2>1. ~(At(t, q).count <= n)
    BY <1>4
  <2>2. DOMAIN t = Spelled(fo, S)
    BY DEF Shape
  <2> HIDE DEF q
  <2>3. q \in Spelled(fo, S)
    <3>1. RBTreeCreate.count = 0 /\ 0 <= n
      BY CreateFits
    <3>2. q \notin DOMAIN t => At(t, q) = RBTreeCreate
      BY DEF At
    <3> QED BY <2>1, <2>2, <3>1, <3>2
  <2>4. At(t, q).count = Load(fo, S, q)
    BY <2>3, AtFits
  <2>5. Load(fo, S, q) \in Nat
    BY LoadType
  <2>6. Load(fo, S, q) > n
    BY <2>1, <2>4, <2>5
  <2> QED BY <2>6 DEF q
<1> DEFINE path == Prefix(keys, i)
<1>6. path \in Path /\ (i = 0 => path = <<>>) /\ (i > 0 => Parent(path) = Prefix(keys, i - 1))
  BY <1>3, LeadsProperties
<1>7. i > 0 => Load(fo, S, Parent(path)) > 1
  <2> SUFFICES ASSUME i > 0 PROVE Load(fo, S, Parent(path)) > 1
    OBVIOUS
  <2>1. i - 1 \in 0 .. i - 1
    BY <1>3
  <2>2. Load(fo, S, Prefix(keys, i - 1)) > n
    BY <1>5, <2>1
  <2>3. Load(fo, S, Prefix(keys, i - 1)) \in Nat
    BY LoadType
  <2>4. Load(fo, S, Prefix(keys, i - 1)) > 1
    BY <2>2, <2>3
  <2> QED BY <1>6, <2>4
<1> HIDE DEF path
<1>8. i = 0 \/ i > 0
  BY <1>3
<1>9. Load(fo, S, path) \in Nat
  BY LoadType
<1>10. i = 0 => path \in Spelled(fo, S)
  BY <1>6, SpelledMeans
<1>11. i > 0 /\ Load(fo, S, path) > 0 => path \in Spelled(fo, S)
  BY <1>6, <1>7, SpelledMeans
<1>12. path \in Spelled(fo, S) \/ Load(fo, S, path) = 0
  BY <1>8, <1>9, <1>10, <1>11
<1>13. i = Dim \/ Load(fo, S, path) <= n
  <2>1. At(t, path).count = Load(fo, S, path)
    BY <1>12, AtFits
  <2> QED BY <1>3, <2>1 DEF path
<1> QED BY <1>3, <1>5, <1>8, <1>10, <1>11, <1>12, <1>13 DEF i, path

\* The trees above the end of a descent, and those beside it, fit the rules that
\* are stored afterwards.
LEMMA AboveFits ==
  ASSUME NEW fo \in FieldOrder, NEW S \in SUBSET Rule, NEW t, Shape(fo, S, t),
         NEW keys \in Path, Len(keys) = Dim, NEW i \in 0 .. Dim, NEW change \in Int,
         NEW S2 \in SUBSET Rule, NEW q \in Spelled(fo, S),
         Leads(q, keys) => /\ Len(q) < i
                           /\ Load(fo, S, q) > 1 /\ Load(fo, S2, q) > 1
                           /\ Load(fo, S2, q) = Load(fo, S, q) + change,
         ~Leads(q, keys) => Under(fo, S2, q) = Under(fo, S, q)
  PROVE  LET above == Recount(t, keys, i, change)[q]
         IN  above \in Tree /\ Fits(fo, S2, q, above)
<1>1. t \in [Spelled(fo, S) -> Tree] /\ t[q] \in Tree /\ Fits(fo, S, q, t[q])
  BY DEF Shape
<1> DEFINE above == Recount(t, keys, i, change)[q]
<1>2. above = IF \E k \in 0 .. i - 1 : q = Prefix(keys, k)
              THEN [t[q] EXCEPT !.count = t[q].count + change] ELSE t[q]
  BY <1>1 DEF Recount
<1>3. Len(q) \in Nat /\ Len(q) <= Dim /\ Dim \in Nat /\ i \in Nat /\ i <= Dim
  BY SpelledMeans, RulesAssumption DEF Path
<1>4. t[q].count = Load(fo, S, q) /\ (Load(fo, S, q) # 1 => t[q].chain = <<>>)
  BY <1>1, FitsMeans
<1> HIDE DEF above
<1>5. CASE Leads(q, keys)
  <2>1. Len(q) \in 0 .. i - 1 /\ q = Prefix(keys, Len(q))
    BY <1>3, <1>5 DEF Leads
  <2>2. above = [t[q] EXCEPT !.count = t[q].count + change]
    BY <1>2, <2>1
  <2>3. t[q].count \in Int
    BY <1>1 DEF Tree
  <2>4. above \in Tree /\ above.count = t[q].count + change /\ above.chain = t[q].chain
    <3>1. t[q].count + change \in Int
      BY <2>3
    <3> QED BY <1>1, <2>2, <3>1, Assign
  <2>5. /\ above.count = Load(fo, S2, q) /\ above.chain = <<>> /\ Load(fo, S2, q) > 1
        /\ Load(fo, S2, q) \in Nat
    <3>1. Load(fo, S, q) \in Nat /\ Load(fo, S2, q) \in Nat
      BY LoadType
    <3>2. Load(fo, S, q) > 1 /\ Load(fo, S2, q) > 1 /\ Load(fo, S2, q) = Load(fo, S, q) + change
      BY <1>5
    <3>3. Load(fo, S, q) # 1
      BY <3>1, <3>2
    <3> QED BY <1>4, <2>4, <3>1, <3>2, <3>3
  <2>6. ~(Load(fo, S2, q) <= 1 \/ Len(q) = Dim) /\ Load(fo, S2, q) # 1
    BY <1>3, <1>5, <2>5
  <2> QED BY <2>4, <2>5, <2>6, FitsMeans DEF above
<1>6. CASE ~Leads(q, keys)
  <2>1. ~\E k \in 0 .. i - 1 : q = Prefix(keys, k)
    <3> SUFFICES ASSUME NEW k \in 0 .. i - 1, q = Prefix(keys, k) PROVE FALSE
      OBVIOUS
    <3>1. k \in 0 .. Dim
      BY <1>3
    <3> QED BY <1>6, <3>1, LeadsProperties
  <2>2. above = t[q]
    BY <1>2, <2>1
  <2>3. Fits(fo, S2, q, t[q])
    BY <1>1, <1>6 DEF Fits
  <2> QED BY <1>1, <2>2, <2>3 DEF above
<1> QED BY <1>5, <1>6

------------------------------------------------------------------------------
(* Insertion                                                               *)

\* The descent along the keys, while more than n rules are there, ends at level i.
EndsAt(fo, S, keys, n, i) ==
    /\ i \in 0 .. Dim
    /\ \A k \in 0 .. i - 1 : Load(fo, S, Prefix(keys, k)) > n
    /\ i = Dim \/ Load(fo, S, Prefix(keys, i)) <= n

\* Spelled-out paths along the keys: no longer than the descent.
LEMMA SpelledAlong ==
  ASSUME NEW fo \in FieldOrder, NEW S \in SUBSET Rule, NEW keys \in Path, Len(keys) = Dim,
         NEW n \in {1, 2}, NEW i, EndsAt(fo, S, keys, n, i), NEW q \in Spelled(fo, S)
  PROVE  /\ q # <<>> /\ Leads(Parent(q), keys) =>
                \/ Len(q) <= i /\ Load(fo, S, Parent(q)) > n
                \/ n = 2 /\ i < Dim /\ Len(q) > i /\ Load(fo, S, Prefix(keys, i)) = 2
         /\ Leads(q, keys) =>
                \/ q = Prefix(keys, i)
                \/ Len(q) < i /\ Load(fo, S, q) > n
                \/ n = 2 /\ i < Dim /\ Len(q) > i /\ Load(fo, S, Prefix(keys, i)) = 2
<1>1. /\ q \in Path /\ Dim \in Nat /\ Dim > 0
      /\ q # <<>> => Load(fo, S, q) > 0 /\ Load(fo, S, Parent(q)) > 1
  BY SpelledMeans, RulesAssumption
<1>2. Len(q) \in Nat /\ Len(q) <= Dim /\ (Len(q) = 0 => q = <<>>)
  BY <1>1 DEF Path
<1>3. /\ i \in 0 .. Dim /\ \A k \in 0 .. i - 1 : Load(fo, S, Prefix(keys, k)) > n
      /\ i = Dim \/ Load(fo, S, Prefix(keys, i)) <= n
  BY DEF EndsAt
<1>4. \A k \in 0 .. Dim : Load(fo, S, Prefix(keys, k)) \in Nat
  BY LoadType
<1>5. \A k \in i .. Dim : Load(fo, S, Prefix(keys, k)) <= Load(fo, S, Prefix(keys, i))
  <2> TAKE k \in i .. Dim
  <2>1. k \in 0 .. Dim /\ i \in 0 .. k
    BY <1>1, <1>3
  <2> QED BY <2>1, LoadShrinks
<1>6. ASSUME NEW k \in 0 .. Dim - 1, Load(fo, S, Prefix(keys, k)) > 1
      PROVE  \/ k < i /\ Load(fo, S, Prefix(keys, k)) > n
             \/ n = 2 /\ i < Dim /\ k >= i /\ Load(fo, S, Prefix(keys, i)) = 2
  <2>1. k \in Int /\ i \in Int /\ (k < i \/ k >= i)
    BY <1>1, <1>3
  <2>2. CASE k < i
    <3>1. k \in 0 .. i - 1
      BY <1>1, <1>3, <2>1, <2>2
    <3> QED BY <1>3, <2>2, <3>1
  <2>3. CASE k >= i
    <3>1. k \in i .. Dim /\ i < Dim /\ i # Dim /\ k \in 0 .. Dim /\ i \in 0 .. Dim
      BY <1>1, <1>3, <2>3
    <3>2. /\ Load(fo, S, Prefix(keys, k)) <= Load(fo, S, Prefix(keys, i))
          /\ Load(fo, S, Prefix(keys, i)) <= n
          /\ Load(fo, S, Prefix(keys, k)) \in Nat /\ Load(fo, S, Prefix(keys, i)) \in Nat
      BY <1>3, <1>4, <1>5, <3>1
    <3>3. Load(fo, S, Prefix(keys, i)) = 2 /\ n = 2
      BY <1>6, <3>2
    <3> QED BY <2>3, <3>1, <3>3
  <2> QED BY <2>1, <2>2, <2>3
<1>7. ASSUME q # <<>>, Leads(Parent(q), keys)
      PROVE  \/ Len(q) <= i /\ Load(fo, S, Parent(q)) > n
             \/ n = 2 /\ i < Dim /\ Len(q) > i /\ Load(fo, S, Prefix(keys, i)) = 2
  <2>1. Len(Parent(q)) = Len(q) - 1 /\ Len(q) - 1 \in 0 .. Dim - 1
    BY <1>1, <1>7, ParentProperties
  <2>2. Parent(q) = Prefix(keys, Len(q) - 1)
    BY <1>7, <2>1 DEF Leads
  <2>3. \/ Len(q) - 1 < i /\ Load(fo, S, Parent(q)) > n
        \/ n = 2 /\ i < Dim /\ Len(q) - 1 >= i /\ Load(fo, S, Prefix(keys, i)) = 2
    BY <1>1, <1>6, <1>7, <2>1, <2>2
  <2>4. (Len(q) - 1 < i => Len(q) <= i) /\ (Len(q) - 1 >= i => Len(q) > i)
    BY <1>2, <1>3
  <2> QED BY <2>3, <2>4
<1>8. ASSUME Leads(q, keys)
      PROVE  \/ q = Prefix(keys, i)
             \/ Len(q) < i /\ Load(fo, S, q) > n
             \/ n = 2 /\ i < Dim /\ Len(q) > i /\ Load(fo, S, Prefix(keys, i)) = 2
  <2>1. q = Prefix(keys, Len(q))
    BY <1>8 DEF Leads
  <2>2. Len(q) < i \/ Len(q) = i \/ Len(q) > i
    BY <1>2, <1>3
  <2>3. CASE Len(q) < i
    <3>1. Len(q) \in 0 .. i - 1
      BY <1>2, <1>3, <2>3
    <3> QED BY <1>3, <2>1, <2>3, <3>1
  <2>4. CASE Len(q) = i
    BY <2>1, <2>4
  <2>5. CASE Len(q) > i
    <3>1. q # <<>> /\ Len(q) \in 0 .. Dim /\ Len(q) > 0
      BY <1>2, <1>3, <2>5
    <3>2. Parent(q) = Prefix(keys, Len(q) - 1) /\ Len(Parent(q)) = Len(q) - 1
      BY <1>1, <2>1, <3>1, LeadsProperties, ParentProperties
    <3>3. Leads(Parent(q), keys)
      BY <3>2 DEF Leads
    <3>4. ~(Len(q) <= i)
      BY <1>2, <1>3, <2>5
    <3> QED BY <1>7, <3>1, <3>3, <3>4
  <2> QED BY <2>2, <2>3, <2>4, <2>5
<1> QED BY <1>7, <1>8

\* Which paths are spelled out after an insertion.
LEMMA SpelledAfterInsertion ==
  ASSUME NEW fo \in FieldOrder, NEW S \in SUBSET Rule, NEW r \in Rule, r \notin S,
         NEW i, EndsAt(fo, S, Keys(fo, r), 1, i)
  PROVE  LET keys == Keys(fo, r)
             path == Prefix(keys, i)
         IN  /\ path \in Spelled(fo, S \cup {r})
             /\ Spelled(fo, S) \subseteq Spelled(fo, S \cup {r})
             /\ \A q \in Spelled(fo, S \cup {r}) :
                   \/ q \in Spelled(fo, S) \cup {path}
                   \/ /\ i < Dim /\ Load(fo, S, path) = 1 /\ q # <<>>
                      /\ Leads(Parent(q), keys) /\ Len(q) - 1 \in i .. Dim - 1
                      /\ Load(fo, S, Parent(q)) = 1 /\ Load(fo, S \cup {r}, q) > 0
<1> DEFINE keys == Keys(fo, r)
           path == Prefix(keys, i)
           S2 == S \cup {r}
<1>1. /\ i \in 0 .. Dim /\ \A k \in 0 .. i - 1 : Load(fo, S, Prefix(keys, k)) > 1
      /\ i = Dim \/ Load(fo, S, Prefix(keys, i)) <= 1
  BY DEF EndsAt
<1>2. Dim \in Nat /\ Dim > 0 /\ keys \in Path /\ Len(keys) = Dim /\ S2 \in SUBSET Rule
  BY KeysProperties, RulesAssumption
<1>3. \A q : /\ Load(fo, S, q) \in Nat /\ Load(fo, S2, q) \in Nat
             /\ Leads(q, keys) => Load(fo, S2, q) = Load(fo, S, q) + 1
             /\ ~Leads(q, keys) => Load(fo, S2, q) = Load(fo, S, q)
  <2> TAKE q
  <2>1. Load(fo, S, q) \in Nat /\ Load(fo, S2, q) \in Nat
    BY <1>2, LoadType
  <2>2. /\ Leads(q, keys) => Load(fo, S2, q) = Load(fo, S, q) + 1
        /\ ~Leads(q, keys) => Load(fo, S2, q) = Load(fo, S, q)
    BY LoadAfterInsertion
  <2> QED BY <2>1, <2>2
<1>4. \A k \in 0 .. Dim : /\ Prefix(keys, k) \in Path /\ Leads(Prefix(keys, k), keys)
                          /\ Len(Prefix(keys, k)) = k
                          /\ k > 0 => Prefix(keys, k) # <<>> /\ Parent(Prefix(keys, k)) = Prefix(keys, k - 1)
                          /\ k = 0 => Prefix(keys, k) = <<>>
  BY <1>2, LeadsProperties
<1> HIDE DEF keys, S2
<1>5. path \in Spelled(fo, S2)
  <2>1. CASE i = 0
    BY <1>1, <1>2, <1>4, <2>1, SpelledMeans
  <2>2. CASE i > 0
    <3>1. i - 1 \in 0 .. i - 1 /\ i - 1 \in 0 .. Dim
      BY <1>1, <1>2, <2>2
    <3>2. /\ Load(fo, S, Prefix(keys, i - 1)) > 1 /\ Leads(Prefix(keys, i - 1), keys)
          /\ Parent(path) = Prefix(keys, i - 1) /\ path \in Path /\ Leads(path, keys)
      BY <1>1, <1>4, <2>2, <3>1
    <3>3. Load(fo, S2, Parent(path)) > 1 /\ Load(fo, S2, path) > 0
      <4>1. Load(fo, S, Parent(path)) \in Nat /\ Load(fo, S, path) \in Nat
        BY <1>3
      <4>2. /\ Load(fo, S2, Parent(path)) = Load(fo, S, Parent(path)) + 1
            /\ Load(fo, S2, path) = Load(fo, S, path) + 1
        BY <1>3, <3>2
      <4> QED BY <3>2, <4>1, <4>2
    <3> QED BY <1>2, <3>2, <3>3, SpelledMeans
  <2> QED BY <1>1, <2>1, <2>2
<1>6. Spelled(fo, S) \subseteq Spelled(fo, S2)
  <2> SUFFICES ASSUME NEW q \in Spelled(fo, S) PROVE q \in Spelled(fo, S2)
    OBVIOUS
  <2>1. q \in Path /\ (q = <<>> \/ (Load(fo, S, q) > 0 /\ Load(fo, S, Parent(q)) > 1))
    BY SpelledMeans
  <2>2. \A p : Load(fo, S, p) \in Nat /\ (Load(fo, S2, p) = Load(fo, S, p) \/ Load(fo, S2, p) = Load(fo, S, p) + 1)
    BY <1>3
  <2>3. q = <<>> \/ (Load(fo, S2, q) > 0 /\ Load(fo, S2, Parent(q)) > 1)
    BY <2>1, <2>2
  <2> QED BY <1>2, <2>1, <2>3, SpelledMeans
<1>7. ASSUME NEW q \in Spelled(fo, S2), q \notin Spelled(fo, S), q # path
      PROVE  /\ i < Dim /\ Load(fo, S, path) = 1 /\ q # <<>>
             /\ Leads(Parent(q), keys) /\ Len(q) - 1 \in i .. Dim - 1
             /\ Load(fo, S, Parent(q)) = 1 /\ Load(fo, S2, q) > 0
  <2>1. q \in Path /\ q # <<>> /\ Load(fo, S2, q) > 0 /\ Load(fo, S2, Parent(q)) > 1
    BY <1>2, <1>7, SpelledMeans
  <2>2. ~(Load(fo, S, q) > 0 /\ Load(fo, S, Parent(q)) > 1)
    BY <1>7, <2>1, SpelledMeans
  <2>3. /\ Parent(q) \in Path /\ Len(Parent(q)) = Len(q) - 1 /\ Len(q) \in 1 .. Dim
        /\ \A k \in 0 .. Len(q) - 1 : Prefix(Parent(q), k) = Prefix(q, k)
    BY <2>1, ParentProperties
  <2> DEFINE m == Len(q)
  <2>11. m \in 1 .. Dim /\ m \in 0 .. Dim /\ m > 0 /\ m - 1 \in 0 .. Dim
    BY <1>2, <2>3
  <2>4. Leads(q, keys) => Leads(Parent(q), keys) /\ q = Prefix(keys, m) /\ Parent(q) = Prefix(keys, m - 1)
    <3> SUFFICES ASSUME Leads(q, keys)
                 PROVE  Leads(Parent(q), keys) /\ q = Prefix(keys, m) /\ Parent(q) = Prefix(keys, m - 1)
      OBVIOUS
    <3>1. q = Prefix(keys, m) /\ m \in 0 .. Dim /\ m > 0 /\ m - 1 \in 0 .. Dim
      BY <2>11 DEF Leads
    <3>2. Parent(q) = Prefix(keys, m - 1)
      BY <1>4, <3>1
    <3> QED BY <1>4, <3>1, <3>2
  <2>5. Leads(Parent(q), keys)
    <3> SUFFICES ASSUME ~Leads(Parent(q), keys) PROVE FALSE
      OBVIOUS
    <3>1. ~Leads(q, keys)
      BY <2>4
    <3>2. Load(fo, S2, q) = Load(fo, S, q) /\ Load(fo, S2, Parent(q)) = Load(fo, S, Parent(q))
      BY <1>3, <3>1
    <3> QED BY <2>1, <2>2, <3>2
  <2>6. Parent(q) = Prefix(keys, m - 1) /\ m - 1 \in 0 .. Dim /\ m \in 1 .. Dim
    BY <2>3, <2>5, <2>11 DEF Leads
  <2> HIDE DEF m
  <2>7. Load(fo, S, Parent(q)) \in Nat /\ Load(fo, S2, Parent(q)) = Load(fo, S, Parent(q)) + 1
        /\ Load(fo, S, Parent(q)) >= 1
    <3>1. Load(fo, S, Parent(q)) \in Nat /\ Load(fo, S2, Parent(q)) = Load(fo, S, Parent(q)) + 1
      BY <1>3, <2>5
    <3> QED BY <2>1, <3>1
  <2>8. m - 1 < i \/ m - 1 >= i
    BY <1>1, <2>6
  <2>9. CASE m - 1 < i
    <3>1. m - 1 \in 0 .. i - 1
      BY <1>1, <2>6, <2>9
    <3>2. Load(fo, S, Parent(q)) > 1
      BY <1>1, <2>6, <3>1
    <3>3. Load(fo, S, q) \in Nat /\ ~(Load(fo, S, q) > 0)
      BY <1>3, <2>2, <3>2
    <3>4. Load(fo, S, q) = 0 /\ Load(fo, S2, q) # Load(fo, S, q)
      BY <2>1, <3>3
    <3>5. q = Prefix(keys, m)
      BY <1>3, <2>4, <3>4
    <3>6. m = i
      <4>1. m < i => m \in 0 .. i - 1
        BY <1>1, <2>6
      <4>2. ~(m < i)
        <5> SUFFICES ASSUME m < i PROVE FALSE
          OBVIOUS
        <5>1. Load(fo, S, q) > 1
          BY <1>1, <3>5, <4>1
        <5> QED BY <3>4, <5>1
      <4> QED BY <1>1, <2>6, <2>9, <4>2
    <3> QED BY <1>7, <3>5, <3>6
  <2>10. CASE m - 1 >= i
    <3>1. i < Dim /\ i # Dim /\ m - 1 \in i .. Dim - 1 /\ i \in 0 .. m - 1
      BY <1>1, <1>2, <2>6, <2>10
    <3>2. Load(fo, S, Prefix(keys, m - 1)) <= Load(fo, S, Prefix(keys, i))
      BY <1>2, <2>6, <3>1, LoadShrinks
    <3>3. Load(fo, S, Prefix(keys, i)) <= 1 /\ Load(fo, S, Prefix(keys, i)) \in Nat
      BY <1>1, <1>3, <3>1
    <3>4. Load(fo, S, Parent(q)) = 1 /\ Load(fo, S, path) = 1
      BY <2>6, <2>7, <3>2, <3>3
    <3> QED BY <2>1, <2>5, <3>1, <3>4 DEF m
  <2> QED BY <2>8, <2>9, <2>10
<1> QED BY <1>5, <1>6, <1>7 DEF keys, S2

\* Two sequences of keys agree up to a level, and on no level more.
LEMMA AgreementProperties ==
  ASSUME NEW a \in Path, Len(a) = Dim, NEW b \in Path, Len(b) = Dim
  PROVE  /\ Agreement(a, b) \in 0 .. Dim
         /\ \A k \in 0 .. Dim : Prefix(a, k) = Prefix(b, k) <=> k <= Agreement(a, b)
         /\ Agreement(a, b) < Dim => a[Agreement(a, b) + 1] # b[Agreement(a, b) + 1]
<1> DEFINE T == {i \in 0 .. Dim : Prefix(a, i) = Prefix(b, i)}
           n == Agreement(a, b)
<1>1. Dim \in Nat /\ a \in Seq(Interval) /\ b \in Seq(Interval)
  BY RulesAssumption DEF Path
<1>2. T \in SUBSET Nat /\ IsFiniteSet(T) /\ 0 \in T
  <2>1. IsFiniteSet(0 .. Dim)
    BY <1>1, FS_Interval
  <2>2. IsFiniteSet(T)
    BY <2>1, FS_Subset
  <2>3. Prefix(a, 0) = <<>> /\ Prefix(b, 0) = <<>>
    BY <1>1, ExtremePrefixes
  <2> QED BY <1>1, <2>2, <2>3
<1>3. n = Max(T)
  BY DEF Agreement
<1> HIDE DEF T, n
<1>4. n \in T /\ \A k \in T : k <= n
  BY <1>2, <1>3, MaxOfFinite
<1>5. n \in 0 .. Dim /\ Prefix(a, n) = Prefix(b, n)
  BY <1>4 DEF T
<1>6. \A k \in 0 .. Dim : Prefix(a, k) = Prefix(b, k) => k <= n
  BY <1>4 DEF T
<1>7. ASSUME NEW k \in 0 .. Dim, k <= n PROVE Prefix(a, k) = Prefix(b, k)
  <2>1. k \in 0 .. n
    BY <1>5, <1>7
  <2>2. Prefix(Prefix(a, n), k) = Prefix(a, k) /\ Prefix(Prefix(b, n), k) = Prefix(b, k)
    BY <1>1, <1>5, <2>1, PrefixOfPrefix
  <2> QED BY <1>5, <2>2
<1>8. ASSUME n < Dim, a[n + 1] = b[n + 1] PROVE FALSE
  <2>1. n + 1 \in 0 .. Dim /\ n \in Nat /\ n + 1 \in Nat /\ n + 1 <= Len(a) /\ n + 1 <= Len(b) /\ n <= Len(a) /\ n <= Len(b)
    BY <1>1, <1>5, <1>8
  <2>2. \A k \in 1 .. n : a[k] = b[k]
    BY <1>1, <1>5, <2>1, SamePrefix
  <2>3. \A k \in 1 .. n + 1 : a[k] = b[k]
    BY <1>8, <2>1, <2>2
  <2>4. Prefix(a, n + 1) = Prefix(b, n + 1)
    BY <1>1, <2>1, <2>3, SamePrefix
  <2>5. n + 1 <= n
    BY <1>6, <2>1, <2>4
  <2> QED BY <1>5, <2>5
<1> QED BY <1>5, <1>6, <1>7, <1>8 DEF n

\* The trees above and beside the end of a descent, and those built there.
Joined(t, new, keys, i) ==
    [q \in DOMAIN t \cup DOMAIN new |-> IF q \in DOMAIN new THEN new[q] ELSE Recount(t, keys, i, 1)[q]]

\* What is built at the end of a descent joins the trees above and beside it.
LEMMA InsertionJoins ==
  ASSUME NEW fo \in FieldOrder, NEW S \in SUBSET Rule, NEW t, Shape(fo, S, t),
         NEW r \in Rule, r \notin S, NEW i, EndsAt(fo, S, Keys(fo, r), 1, i), NEW new,
         Prefix(Keys(fo, r), i) \in DOMAIN new,
         DOMAIN new \subseteq Spelled(fo, S \cup {r}),
         \A q \in DOMAIN new : new[q] \in Tree /\ Fits(fo, S \cup {r}, q, new[q]),
         Spelled(fo, S \cup {r}) \subseteq Spelled(fo, S) \cup DOMAIN new
  PROVE  Shape(fo, S \cup {r}, Joined(t, new, Keys(fo, r), i))
<1> DEFINE keys == Keys(fo, r)
           S2 == S \cup {r}
           above == Recount(t, keys, i, 1)
           t2 == [q \in DOMAIN t \cup DOMAIN new |-> IF q \in DOMAIN new THEN new[q] ELSE above[q]]
<1>1. DOMAIN t = Spelled(fo, S)
  BY DEF Shape
<1>2. keys \in Path /\ Len(keys) = Dim /\ S2 \in SUBSET Rule
  BY KeysProperties
<1>3. Spelled(fo, S) \subseteq Spelled(fo, S2)
  BY SpelledAfterInsertion
<1>4. DOMAIN t \cup DOMAIN new = Spelled(fo, S2)
  BY <1>1, <1>3
<1>5. \A q \in DOMAIN new : new[q] \in Tree /\ Fits(fo, S2, q, new[q])
  OBVIOUS
<1>6. ASSUME NEW q \in Spelled(fo, S), q \notin DOMAIN new
      PROVE  above[q] \in Tree /\ Fits(fo, S2, q, above[q])
  <2>1. q # Prefix(keys, i)
    BY <1>6
  <2> HIDE DEF keys
  <2>2. Leads(q, keys) => Len(q) < i /\ Load(fo, S, q) > 1
    <3>1. 1 \in {1, 2} /\ EndsAt(fo, S, keys, 1, i)
      BY DEF keys
    <3> QED BY <1>2, <2>1, <3>1, SpelledAlong
  <2>3. /\ Leads(q, keys) => Load(fo, S2, q) = Load(fo, S, q) + 1
        /\ ~Leads(q, keys) => Under(fo, S2, q) = Under(fo, S, q)
    BY LoadAfterInsertion DEF keys
  <2>4. Leads(q, keys) => Load(fo, S2, q) > 1
    <3>1. Load(fo, S, q) \in Nat
      BY LoadType
    <3> QED BY <2>2, <2>3, <3>1
  <2>5. i \in 0 .. Dim /\ 1 \in Int
    BY DEF EndsAt
  <2> HIDE DEF S2
  <2> QED BY <1>2, <2>2, <2>3, <2>4, <2>5, AboveFits
<1> HIDE DEF keys, S2, above
<1>7. \A q \in Spelled(fo, S2) : q \in DOMAIN new \/ (q \notin DOMAIN new /\ q \in Spelled(fo, S))
  BY <1>1, <1>4
<1>8. \A q \in Spelled(fo, S2) : t2[q] \in Tree /\ Fits(fo, S2, q, t2[q])
  <2> TAKE q \in Spelled(fo, S2)
  <2>1. t2[q] = IF q \in DOMAIN new THEN new[q] ELSE above[q]
    BY <1>4
  <2> HIDE DEF t2
  <2> QED BY <1>5, <1>6, <1>7, <2>1
<1>9. t2 \in [Spelled(fo, S2) -> Tree]
  BY <1>4, <1>8
<1>10. Shape(fo, S2, t2)
  BY <1>8, <1>9 DEF Shape
<1>11. t2 = Joined(t, new, keys, i)
  BY DEF Joined, above, keys
<1> HIDE DEF t2
<1> QED BY <1>10, <1>11 DEF S2, keys

\* A descent that ends at one tree changes only that tree.
LEMMA EndingFits ==
  ASSUME NEW fo \in FieldOrder, NEW S \in SUBSET Rule, NEW t, Shape(fo, S, t),
         NEW r \in Rule, r \notin S, NEW i, EndsAt(fo, S, Keys(fo, r), 1, i),
         NEW tree \in Tree, Fits(fo, S, Prefix(Keys(fo, r), i), tree)
  PROVE  LET keys == Keys(fo, r)
             path == Prefix(keys, i)
             new == Ending(tree, path, keys, priority[r])
         IN  (i = Dim \/ tree.count = 0) =>
                  /\ DOMAIN new = {path} /\ new[path] \in Tree
                  /\ Fits(fo, S \cup {r}, path, new[path])
<1> DEFINE keys == Keys(fo, r)
           path == Prefix(keys, i)
           S2 == S \cup {r}
           v == priority[r]
           new == Ending(tree, path, keys, v)
<1>1. i \in 0 .. Dim /\ Dim \in Nat /\ Dim > 0
  BY RulesAssumption DEF EndsAt
<1>2. keys \in Path /\ keys \in Seq(Interval) /\ Len(keys) = Dim /\ S2 \in SUBSET Rule
  BY KeysProperties
<1>3. path \in Path /\ Len(path) = i /\ Leads(path, keys)
  BY <1>1, <1>2, LeadsProperties
<1>4. Under(fo, S2, path) = Under(fo, S, path) \cup {r} /\ Load(fo, S2, path) = Load(fo, S, path) + 1
  BY <1>3, LoadAfterInsertion
<1>5. /\ Under(fo, S, path) \in SUBSET Rule /\ r \notin Under(fo, S, path)
      /\ Load(fo, S, path) \in Nat
      /\ Load(fo, S, path) = 0 <=> Under(fo, S, path) = {}
      /\ \A s \in Under(fo, S2, path) : s \in Rule /\ Leads(path, Keys(fo, s))
  <2>1. /\ Under(fo, S, path) \subseteq S /\ Load(fo, S, path) \in Nat
        /\ Load(fo, S, path) = 0 <=> Under(fo, S, path) = {}
    BY LoadType
  <2>2. /\ Under(fo, S2, path) \subseteq S2
        /\ \A s \in S2 : s \in Under(fo, S2, path) <=> Leads(path, Keys(fo, s))
    BY <1>2, LoadType
  <2> QED BY <2>1, <2>2
<1>6. /\ tree.count = Load(fo, S, path)
      /\ Load(fo, S, path) # 1 => tree.chain = <<>>
      /\ \A s \in Under(fo, S, path) : Load(fo, S, path) = 1 => tree.chain = Rest(Keys(fo, s), Len(path))
      /\ Load(fo, S, path) <= 1 \/ Len(path) = Dim => ListFits(Under(fo, S, path), tree)
  BY FitsMeans
<1> HIDE DEF keys, path, S2
<1>7. CASE i = Dim
  <2> DEFINE more == [tree EXCEPT !.count = tree.count + 1]
  <2>1. new = [q \in {path} |-> PushPriority(more, v)]
    BY <1>3, <1>7 DEF Ending
  <2>2. tree.count + 1 \in Int
    BY <1>5, <1>6
  <2>3. /\ more \in Tree /\ more.count = tree.count + 1 /\ more.chain = tree.chain
        /\ more.priorities = tree.priorities /\ more.maxPriority = tree.maxPriority
    BY <2>2, Assign
  <2> HIDE DEF more, new
  <2>4. ListFits(Under(fo, S, path), more)
    BY <1>3, <1>6, <1>7, <2>3, SameList
  <2>5. /\ PushPriority(more, v) \in Tree /\ PushPriority(more, v).count = more.count
        /\ PushPriority(more, v).chain = more.chain
        /\ ListFits(Under(fo, S2, path), PushPriority(more, v))
    BY <1>4, <1>5, <2>3, <2>4, PushFits DEF v
  <2>6. \A s \in Rule : Rest(Keys(fo, s), Len(path)) = <<>>
    <3> TAKE s \in Rule
    <3>1. Keys(fo, s) \in Seq(Interval) /\ Len(Keys(fo, s)) = Dim /\ Dim \in 0 .. Dim
      BY <1>1, KeysProperties
    <3>2. Rest(Keys(fo, s), Dim) \in Seq(Interval) /\ Len(Rest(Keys(fo, s), Dim)) = 0
      BY <1>1, <3>1, RestProperties
    <3>3. Rest(Keys(fo, s), Dim) = <<>>
      BY <3>2
    <3> QED BY <1>3, <1>7, <3>3
  <2>7. tree.chain = <<>>
    <3>1. CASE Load(fo, S, path) = 1
      <4>1. PICK s \in Under(fo, S, path) : TRUE
        BY <1>5, <3>1
      <4> QED BY <1>5, <1>6, <2>6, <3>1, <4>1
    <3>2. CASE Load(fo, S, path) # 1
      BY <1>6, <3>2
    <3> QED BY <3>1, <3>2
  <2>8. Fits(fo, S2, path, PushPriority(more, v))
    <3>1. PushPriority(more, v).count = Load(fo, S2, path)
      BY <1>4, <1>6, <2>3, <2>5
    <3>2. PushPriority(more, v).chain = <<>>
      BY <2>3, <2>5, <2>7
    <3>3. \A s \in Under(fo, S2, path) : Rest(Keys(fo, s), Len(path)) = <<>>
      BY <1>5, <2>6
    <3> QED BY <2>5, <3>1, <3>2, <3>3, FitsMeans
  <2>9. DOMAIN new = {path} /\ new[path] = PushPriority(more, v)
    BY <2>1
  <2> QED BY <2>5, <2>8, <2>9 DEF keys, path, S2, new
<1>8. CASE i # Dim /\ tree.count = 0
  <2>1. i < Dim /\ Len(path) < Dim /\ Len(path) # Dim /\ i \in 0 .. Len(keys)
    BY <1>1, <1>2, <1>3, <1>8
  <2>2. new = [q \in {path} |-> Single(Rest(keys, i), v)]
    BY <1>3, <1>8, <2>1 DEF Ending
  <2> HIDE DEF new
  <2>3. Rest(keys, i) \in Seq(Interval)
    BY <1>2, <2>1, RestProperties
  <2>4. /\ Single(Rest(keys, i), v) \in Tree /\ Single(Rest(keys, i), v).count = 1
        /\ Single(Rest(keys, i), v).chain = Rest(keys, i)
        /\ ListFits({r}, Single(Rest(keys, i), v))
    BY <2>3, SingleFits DEF v
  <2>5. Under(fo, S2, path) = {r} /\ Load(fo, S2, path) = 1
    BY <1>4, <1>5, <1>6, <1>8
  <2>6. Fits(fo, S2, path, Single(Rest(keys, i), v))
    BY <1>3, <2>4, <2>5, FitsMeans DEF keys
  <2>7. DOMAIN new = {path} /\ new[path] = Single(Rest(keys, i), v)
    BY <2>2
  <2> QED BY <2>4, <2>6, <2>7 DEF keys, path, S2, new
<1> QED BY <1>7, <1>8 DEF keys, path, S2

\* The least of two integers.
LEMMA MinOfTwo ==
  ASSUME NEW a \in Int, NEW b \in Int
  PROVE  Min({a, b}) = IF a <= b THEN a ELSE b
<1>1. \A x \in {a, b} : x \in Int
  OBVIOUS
<1>2. \E x \in {a, b} : \A y \in {a, b} : x <= y
  OBVIOUS
<1>3. Min({a, b}) \in {a, b} /\ \A y \in {a, b} : Min({a, b}) <= y
  BY <1>2 DEF Min
<1> DEFINE m == Min({a, b})
<1>4. m \in {a, b} /\ m <= a /\ m <= b
  BY <1>3
<1> HIDE DEF m
<1>5. m = IF a <= b THEN a ELSE b
  BY <1>4
<1> QED BY <1>5 DEF m

\* Two rules share the paths along them up to level n, and no more.
Parted(fo, S, r, s, n, k) ==
    /\ k <= n => /\ Prefix(Keys(fo, s), k) = Prefix(Keys(fo, r), k)
                 /\ Under(fo, S, Prefix(Keys(fo, r), k)) = {r, s}
                 /\ Load(fo, S, Prefix(Keys(fo, r), k)) = 2
    /\ k > n => /\ Prefix(Keys(fo, s), k) # Prefix(Keys(fo, r), k)
                /\ Under(fo, S, Prefix(Keys(fo, r), k)) = {r} /\ Load(fo, S, Prefix(Keys(fo, r), k)) = 1
                /\ Under(fo, S, Prefix(Keys(fo, s), k)) = {s} /\ Load(fo, S, Prefix(Keys(fo, s), k)) = 1

\* Who is under a path beyond the end of a descent, when two rules are there.
LEMMA UnderFork ==
  ASSUME NEW fo \in FieldOrder, NEW S \in SUBSET Rule, NEW r \in S, NEW s \in S, r # s,
         NEW i \in 0 .. Dim, Under(fo, S, Prefix(Keys(fo, r), i)) = {r, s},
         NEW k \in i .. Dim
  PROVE  /\ Agreement(Keys(fo, s), Keys(fo, r)) \in i .. Dim
         /\ Parted(fo, S, r, s, Agreement(Keys(fo, s), Keys(fo, r)), k)
<1> DEFINE keys == Keys(fo, r)
           old == Keys(fo, s)
           n == Agreement(old, keys)
           path == Prefix(keys, i)
<1>1. /\ keys \in Path /\ Len(keys) = Dim /\ old \in Path /\ Len(old) = Dim
      /\ Dim \in Nat /\ r \in Rule /\ s \in Rule
  BY KeysProperties, RulesAssumption
<1>2. k \in 0 .. Dim /\ i \in 0 .. k /\ i \in 0 .. Dim
  BY <1>1
<1> HIDE DEF keys, old
<1>3. /\ n \in 0 .. Dim
      /\ \A j \in 0 .. Dim : Prefix(old, j) = Prefix(keys, j) <=> j <= n
  BY <1>1, AgreementProperties
<1> HIDE DEF n
<1>4. Prefix(old, i) = path
  <2>1. s \in Under(fo, S, path)
    BY DEF keys
  <2>2. Leads(path, old)
    BY <2>1, LoadType DEF old
  <2>3. Len(path) = i
    BY <1>1, <1>2, LeadsProperties
  <2> QED BY <2>2, <2>3 DEF Leads
<1>5. n \in i .. Dim
  BY <1>1, <1>2, <1>3, <1>4
<1>6. /\ Under(fo, S, Prefix(keys, k)) \subseteq {r, s}
      /\ Under(fo, S, Prefix(old, k)) \subseteq {r, s}
  <2>1. /\ Under(fo, S, Prefix(keys, k)) \subseteq Under(fo, S, Prefix(keys, i))
        /\ Under(fo, S, Prefix(old, k)) \subseteq Under(fo, S, Prefix(old, i))
    BY <1>1, <1>2, LoadShrinks
  <2> QED BY <1>4, <2>1 DEF keys
<1>7. \A q : /\ r \in Under(fo, S, q) <=> Leads(q, keys)
             /\ s \in Under(fo, S, q) <=> Leads(q, old)
  BY LoadType DEF keys, old
<1>8. /\ Len(Prefix(keys, k)) = k /\ Len(Prefix(old, k)) = k
      /\ Leads(Prefix(keys, k), keys) /\ Leads(Prefix(old, k), old)
  BY <1>1, <1>2, LeadsProperties
<1>9. CASE k <= n
  <2>1. Prefix(old, k) = Prefix(keys, k)
    BY <1>2, <1>3, <1>9
  <2>2. Under(fo, S, Prefix(keys, k)) = {r, s}
    BY <1>6, <1>7, <1>8, <2>1
  <2>3. Cardinality({r, s}) = 2
    <3>1. IsFiniteSet({r}) /\ Cardinality({r}) = 1 /\ s \notin {r} /\ {r} \cup {s} = {r, s}
      BY FS_Singleton
    <3> QED BY <3>1, FS_AddElement
  <2>4. Load(fo, S, Prefix(keys, k)) = 2
    BY <2>2, <2>3 DEF Load
  <2>5. ~(k > n)
    BY <1>2, <1>3, <1>9
  <2> QED BY <1>5, <2>1, <2>2, <2>4, <2>5 DEF keys, old, n, Parted
<1>10. CASE k > n
  <2>1. ~(k <= n)
    BY <1>2, <1>3, <1>10
  <2>2. Prefix(old, k) # Prefix(keys, k)
    BY <1>2, <1>3, <2>1
  <2>3. ~Leads(Prefix(keys, k), old) /\ ~Leads(Prefix(old, k), keys)
    BY <1>8, <2>2 DEF Leads
  <2>4. Under(fo, S, Prefix(keys, k)) = {r} /\ Under(fo, S, Prefix(old, k)) = {s}
    BY <1>6, <1>7, <1>8, <2>3
  <2>5. Load(fo, S, Prefix(keys, k)) = 1 /\ Load(fo, S, Prefix(old, k)) = 1
    BY <2>4, FS_Singleton DEF Load
  <2> QED BY <1>5, <2>1, <2>2, <2>4, <2>5 DEF keys, old, n, Parted
<1>11. k <= n \/ k > n
  BY <1>2, <1>3
<1> QED BY <1>9, <1>10, <1>11

\* The paths of the trees along two sequences of keys, up to one level beyond
\* those they share.
ForkPaths(old, keys, n, i) == {Prefix(x, k) : x \in {old, keys}, k \in i .. Min({n + 1, Dim})}

\* What the paths are.
LEMMA ForkPathsMean ==
  ASSUME NEW old, NEW keys, NEW n \in Nat, NEW i \in Nat, NEW q
  PROVE  q \in ForkPaths(old, keys, n, i) <=>
            \E x \in {old, keys}, k \in i .. Dim : k <= n + 1 /\ q = Prefix(x, k)
<1>1. Dim \in Nat
  BY RulesAssumption
<1> DEFINE m == Min({n + 1, Dim})
<1>2. m = IF n + 1 <= Dim THEN n + 1 ELSE Dim
  BY <1>1, MinOfTwo
<1>3. ForkPaths(old, keys, n, i) = {Prefix(x, k) : x \in {old, keys}, k \in i .. m}
  BY DEF ForkPaths
<1> HIDE DEF m
<1>4. \A k : k \in i .. m <=> k \in i .. Dim /\ k <= n + 1
  BY <1>1, <1>2
<1> QED BY <1>3, <1>4

\* The trees there: a fork above level n + 1, and one tree for each branch.
IsFork(new, tree, path, keys, v, old, n) ==
    /\ DOMAIN new = ForkPaths(old, keys, n, Len(path))
    /\ \A q \in ForkPaths(old, keys, n, Len(path)) :
          /\ Len(q) > n /\ ~(Len(q) <= n) /\ q = Prefix(keys, n + 1) => new[q] = Single(Rest(keys, n + 1), v)
          /\ Len(q) > n /\ ~(Len(q) <= n) /\ q # Prefix(keys, n + 1) =>
                new[q] = Single(Rest(old, n + 1), tree.maxPriority)
          /\ ~(Len(q) > n) /\ Len(q) <= n /\ Len(q) = Dim => new[q] = Together(v, tree.maxPriority)
          /\ ~(Len(q) > n) /\ Len(q) <= n /\ Len(q) # Dim =>
                new[q] = IF q = path THEN WithChain(tree, 2, <<>>) ELSE Pair

\* This is what Unzip makes.
LEMMA UnzipMeans ==
  ASSUME NEW tree, NEW path, NEW keys, NEW v, NEW old, old = path \o tree.chain,
         NEW n, n = Agreement(old, keys)
  PROVE  IsFork(Unzip(tree, path, keys, v), tree, path, keys, v, old, n)
<1> DEFINE new == Unzip(tree, path, keys, v)
           D == ForkPaths(old, keys, n, Len(path))
           TreeAt(q) ==
             CASE Len(q) > n /\ q = Prefix(keys, n + 1) -> Single(Rest(keys, n + 1), v)
               [] Len(q) > n /\ q # Prefix(keys, n + 1) -> Single(Rest(old, n + 1), tree.maxPriority)
               [] Len(q) <= n /\ Len(q) = Dim -> Together(v, tree.maxPriority)
               [] Len(q) <= n /\ Len(q) # Dim ->
                     IF q = path THEN WithChain(tree, 2, <<>>) ELSE Pair
<1>1. new = [q \in D |-> TreeAt(q)]
  BY DEF Unzip, ForkPaths, WithChain
<1> HIDE DEF new, D
<1>2. DOMAIN new = D
  BY <1>1
<1> DEFINE p == Prefix(keys, n + 1)
           one == Single(Rest(keys, n + 1), v)
           other == Single(Rest(old, n + 1), tree.maxPriority)
<1>3. ASSUME NEW q \in D
      PROVE  /\ Len(q) > n /\ ~(Len(q) <= n) /\ q = p => new[q] = one
             /\ Len(q) > n /\ ~(Len(q) <= n) /\ q # p => new[q] = other
             /\ ~(Len(q) > n) /\ Len(q) <= n /\ Len(q) = Dim => new[q] = Together(v, tree.maxPriority)
             /\ ~(Len(q) > n) /\ Len(q) <= n /\ Len(q) # Dim =>
                   new[q] = IF q = path THEN WithChain(tree, 2, <<>>) ELSE Pair
  <2>1. new[q] = CASE Len(q) > n /\ q = p -> one
                   [] Len(q) > n /\ q # p -> other
                   [] Len(q) <= n /\ Len(q) = Dim -> Together(v, tree.maxPriority)
                   [] Len(q) <= n /\ Len(q) # Dim ->
                         IF q = path THEN WithChain(tree, 2, <<>>) ELSE Pair
    BY <1>1
  <2> HIDE DEF p, one, other
  <2>2. Len(q) > n /\ ~(Len(q) <= n) /\ q = p => new[q] = one
    BY <2>1
  <2>3. Len(q) > n /\ ~(Len(q) <= n) /\ q # p => new[q] = other
    BY <2>1
  <2>4. ~(Len(q) > n) /\ Len(q) <= n /\ Len(q) = Dim => new[q] = Together(v, tree.maxPriority)
    BY <2>1
  <2>5. ~(Len(q) > n) /\ Len(q) <= n /\ Len(q) # Dim =>
                   new[q] = IF q = path THEN WithChain(tree, 2, <<>>) ELSE Pair
    BY <2>1
  <2> QED BY <2>2, <2>3, <2>4, <2>5
<1>4. IsFork(new, tree, path, keys, v, old, n)
  BY <1>2, <1>3 DEF IsFork, D
<1> QED BY <1>4 DEF new

\* A second rule joins a compressed one: the trees along both, as far as they
\* agree, and one for each where they part.
LEMMA UnzipFits ==
  ASSUME NEW fo \in FieldOrder, NEW S \in SUBSET Rule, NEW r \in Rule, r \notin S,
         NEW i, EndsAt(fo, S, Keys(fo, r), 1, i), i # Dim,
         NEW tree \in Tree, Fits(fo, S, Prefix(Keys(fo, r), i), tree), tree.count = 1
  PROVE  LET keys == Keys(fo, r)
             path == Prefix(keys, i)
             new == Unzip(tree, path, keys, priority[r])
         IN  /\ path \in DOMAIN new
             /\ DOMAIN new \subseteq Spelled(fo, S \cup {r})
             /\ \A q \in DOMAIN new : new[q] \in Tree /\ Fits(fo, S \cup {r}, q, new[q])
             /\ \A q \in Spelled(fo, S \cup {r}) :
                   /\ q # <<>> /\ Leads(Parent(q), keys) /\ Len(q) - 1 \in i .. Dim - 1
                   /\ Load(fo, S, Parent(q)) = 1 /\ Load(fo, S \cup {r}, q) > 0
                   => q \in DOMAIN new
<1> DEFINE keys == Keys(fo, r)
           path == Prefix(keys, i)
           S2 == S \cup {r}
           v == priority[r]
<1>1. i \in 0 .. Dim /\ Dim \in Nat /\ Dim > 0 /\ i \in Nat /\ i < Dim
  BY RulesAssumption DEF EndsAt
<1>2. keys \in Path /\ keys \in Seq(Interval) /\ Len(keys) = Dim /\ S2 \in SUBSET Rule /\ r \in S2
  BY KeysProperties
<1>3. path \in Path /\ Len(path) = i /\ Leads(path, keys)
  BY <1>1, <1>2, LeadsProperties
<1>4. Under(fo, S2, path) = Under(fo, S, path) \cup {r}
  BY <1>3, LoadAfterInsertion
<1>5. tree.count = Load(fo, S, path) /\ Load(fo, S, path) = 1
  BY FitsMeans
<1>6. PICK s : Under(fo, S, path) = {s}
  <2>1. IsFiniteSet(Under(fo, S, path)) /\ Cardinality(Under(fo, S, path)) = 1
    BY <1>5, LoadType DEF Load
  <2> QED BY <2>1, FS_Singleton
<1>7. s \in S /\ s \in S2 /\ s \in Rule /\ r # s /\ Leads(path, Keys(fo, s))
  <2>1. s \in Under(fo, S, path) /\ Under(fo, S, path) \subseteq S
    BY <1>6, LoadType
  <2>2. s \in S
    BY <2>1
  <2>3. Leads(path, Keys(fo, s))
    BY <2>1, <2>2, LoadType
  <2> QED BY <2>2, <2>3
<1> DEFINE old == Keys(fo, s)
           n == Agreement(old, keys)
<1>8. old \in Path /\ old \in Seq(Interval) /\ Len(old) = Dim /\ Prefix(old, i) = path
  BY <1>3, <1>7, KeysProperties DEF Leads
<1>9. tree.chain = Rest(old, i) /\ ListFits({s}, tree)
  <2>1. \A x \in Under(fo, S, path) : tree.chain = Rest(Keys(fo, x), Len(path))
    BY <1>5, FitsMeans
  <2>2. ListFits(Under(fo, S, path), tree)
    BY <1>5, FitsMeans
  <2> QED BY <1>3, <1>6, <2>1, <2>2
<1>10. path \o tree.chain = old
  <2>1. i \in 0 .. Len(old)
    BY <1>1, <1>8
  <2>2. Prefix(old, i) \o Rest(old, i) = old
    BY <1>8, <2>1, PrefixAndRest
  <2> QED BY <1>8, <1>9, <2>2
<1>11. tree.maxPriority = priority[s]
  BY <1>7, <1>9, ListOfOne
<1> HIDE DEF S2
<1>12. n \in i .. Dim /\ n \in Nat
  <2>1. Under(fo, S2, path) = {r, s} /\ i \in i .. Dim
    BY <1>1, <1>4, <1>6
  <2>2. n \in i .. Dim
    BY <1>1, <1>2, <1>7, <2>1, UnderFork
  <2> QED BY <1>1, <2>2
<1>13. ASSUME NEW k \in i .. Dim
       PROVE  /\ k <= n => /\ Prefix(old, k) = Prefix(keys, k)
                           /\ Under(fo, S2, Prefix(keys, k)) = {r, s} /\ Load(fo, S2, Prefix(keys, k)) = 2
              /\ k > n => /\ Prefix(old, k) # Prefix(keys, k)
                          /\ Under(fo, S2, Prefix(keys, k)) = {r} /\ Load(fo, S2, Prefix(keys, k)) = 1
                          /\ Under(fo, S2, Prefix(old, k)) = {s} /\ Load(fo, S2, Prefix(old, k)) = 1
  <2>1. Under(fo, S2, path) = {r, s}
    BY <1>4, <1>6
  <2>2. Parted(fo, S2, r, s, n, k)
    BY <1>1, <1>2, <1>7, <2>1, UnderFork
  <2> QED BY <2>2 DEF Parted
<1> HIDE DEF old, keys, n, path, S2, v
<1> DEFINE D == ForkPaths(old, keys, n, i)
           new == Unzip(tree, path, keys, v)
<1>14. /\ DOMAIN new = D
       /\ \A q \in D :
             /\ Len(q) > n /\ ~(Len(q) <= n) /\ q = Prefix(keys, n + 1) => new[q] = Single(Rest(keys, n + 1), v)
             /\ Len(q) > n /\ ~(Len(q) <= n) /\ q # Prefix(keys, n + 1) => new[q] = Single(Rest(old, n + 1), tree.maxPriority)
             /\ ~(Len(q) > n) /\ Len(q) <= n /\ Len(q) = Dim => new[q] = Together(v, tree.maxPriority)
             /\ ~(Len(q) > n) /\ Len(q) <= n /\ Len(q) # Dim =>
                   new[q] = IF q = path THEN WithChain(tree, 2, <<>>) ELSE Pair
  <2>1. n = Agreement(old, keys)
    BY DEF n
  <2>2. old = path \o tree.chain
    BY <1>10
  <2>3. IsFork(new, tree, path, keys, v, old, n)
    BY <2>1, <2>2, UnzipMeans
  <2>4. D = ForkPaths(old, keys, n, Len(path))
    BY <1>3
  <2> HIDE DEF D, new
  <2> QED BY <2>3, <2>4 DEF IsFork
<1>15. \A q : q \in D <=> \E x \in {old, keys}, k \in i .. Dim : k <= n + 1 /\ q = Prefix(x, k)
  BY <1>1, <1>12, ForkPathsMean
<1> HIDE DEF new, D
<1>16. \A k \in i .. Dim : k \in 0 .. Dim /\ k \in 0 .. Len(old) /\ k \in 0 .. Len(keys)
  BY <1>1, <1>2, <1>8
<1>17. ASSUME NEW q \in D
       PROVE  /\ q \in Spelled(fo, S2)
              /\ new[q] \in Tree /\ Fits(fo, S2, q, new[q])
  <2>1. PICK x \in {old, keys}, k \in i .. Dim : k <= n + 1 /\ q = Prefix(x, k)
    BY <1>15
  <2>2. k \in i .. Dim /\ k <= n + 1 /\ k \in 0 .. Dim /\ k \in Nat
    BY <1>1, <1>16, <2>1
  <2>3. /\ q \in Path /\ Len(q) = k /\ x \in Path /\ Len(x) = Dim
        /\ k > 0 => q # <<>> /\ Parent(q) = Prefix(x, k - 1)
        /\ k = 0 => q = <<>>
    BY <1>2, <1>8, <2>1, <2>2, LeadsProperties
  <2>4. Load(fo, S2, q) > 0
    BY <1>12, <1>13, <2>1, <2>2
  <2>5. q \in Spelled(fo, S2)
    <3>1. CASE k = i
      BY <1>8, <2>1, <3>1, SpelledAfterInsertion DEF path, keys, S2
    <3>2. CASE k # i
      <4>1. k > 0 /\ k - 1 \in i .. Dim /\ k - 1 <= n
        BY <1>1, <1>12, <2>2, <3>2
      <4>2. Load(fo, S2, Parent(q)) = 2
        BY <1>13, <2>1, <2>3, <4>1
      <4> QED BY <1>2, <2>3, <2>4, <4>2, SpelledMeans
    <3> QED BY <3>1, <3>2
  <2>6. CASE k <= n
    <3>1. q = Prefix(keys, k) /\ Under(fo, S2, q) = {r, s} /\ Load(fo, S2, q) = 2
      BY <1>13, <2>1, <2>2, <2>6
    <3>2. ~(Len(q) > n) /\ Len(q) <= n
      BY <1>12, <2>2, <2>3, <2>6
    <3>3. CASE k = Dim
      <4>1. new[q] = Together(v, priority[s])
        BY <1>11, <1>14, <2>3, <3>2, <3>3
      <4> DEFINE u == Together(v, priority[s])
      <4>2. u \in Tree /\ u.count = 2 /\ u.chain = <<>> /\ ListFits({r, s}, u)
        BY <1>7, TogetherFits DEF v
      <4> HIDE DEF u
      <4>3. Fits(fo, S2, q, u)
        BY <3>1, <4>2, FitsMeans
      <4> QED BY <2>5, <4>1, <4>2, <4>3 DEF u
    <3>4. CASE k # Dim
      <4>1. new[q] = IF q = path THEN WithChain(tree, 2, <<>>) ELSE Pair
        BY <1>14, <2>3, <3>2, <3>4
      <4>2. new[q] \in Tree /\ new[q].count = 2 /\ new[q].chain = <<>>
        <5>1. CASE q = path
          <6>1. new[q] = WithChain(tree, 2, <<>>)
            BY <4>1, <5>1
          <6> DEFINE u == WithChain(tree, 2, <<>>)
          <6>2. 2 \in Int /\ <<>> \in Seq(Interval)
            OBVIOUS
          <6>3. u \in Tree /\ u.count = 2 /\ u.chain = <<>>
            BY <6>2, AssignChain
          <6> HIDE DEF u
          <6> QED BY <6>1, <6>3 DEF u
        <5>2. CASE q # path
          <6>1. RBTreeCreate \in Tree /\ RBTreeCreate.chain = <<>> /\ 2 \in Int
            BY CreateFits
          <6> DEFINE u == [RBTreeCreate EXCEPT !.count = 2]
          <6>2. new[q] = u
            BY <4>1, <5>2 DEF Pair
          <6>3. u \in Tree /\ u.count = 2 /\ u.chain = <<>>
            BY <6>1, Assign
          <6> HIDE DEF u
          <6> QED BY <6>2, <6>3
        <5> QED BY <5>1, <5>2
      <4>3. Fits(fo, S2, q, new[q])
        BY <2>3, <3>1, <3>4, <4>2, FitsMeans
      <4> QED BY <2>5, <4>2, <4>3
    <3> QED BY <3>3, <3>4
  <2>7. CASE k > n
    <3>1. k = n + 1 /\ Len(q) > n /\ ~(Len(q) <= n)
      BY <1>12, <2>2, <2>3, <2>7
    <3>2. CASE x = keys
      <4>1. q = Prefix(keys, n + 1) /\ Under(fo, S2, q) = {r} /\ Load(fo, S2, q) = 1
        BY <1>13, <2>1, <2>2, <2>7, <3>1, <3>2
      <4>2. new[q] = Single(Rest(keys, n + 1), v)
        BY <1>14, <3>1, <4>1
      <4>3. Rest(keys, n + 1) \in Seq(Interval)
        BY <1>2, <1>16, <2>2, <3>1, RestProperties
      <4> DEFINE u == Single(Rest(keys, n + 1), v)
      <4>4. /\ u \in Tree /\ u.count = 1 /\ u.chain = Rest(keys, n + 1)
            /\ ListFits({r}, u)
        BY <4>3, SingleFits DEF v
      <4> HIDE DEF u
      <4>5. Fits(fo, S2, q, u)
        BY <2>3, <3>1, <4>1, <4>4, FitsMeans DEF keys
      <4> QED BY <2>5, <4>2, <4>4, <4>5 DEF u
    <3>3. CASE x = old
      <4>1. q # Prefix(keys, n + 1) /\ Under(fo, S2, q) = {s} /\ Load(fo, S2, q) = 1
        BY <1>13, <2>1, <2>2, <2>7, <3>1, <3>3
      <4>2. new[q] = Single(Rest(old, n + 1), priority[s])
        BY <1>11, <1>14, <3>1, <4>1
      <4>3. Rest(old, n + 1) \in Seq(Interval)
        BY <1>8, <1>16, <2>2, <3>1, RestProperties
      <4> DEFINE u == Single(Rest(old, n + 1), priority[s])
      <4>4. /\ u \in Tree /\ u.count = 1 /\ u.chain = Rest(old, n + 1)
            /\ ListFits({s}, u)
        BY <1>7, <4>3, SingleFits
      <4> HIDE DEF u
      <4>5. Fits(fo, S2, q, u)
        BY <2>3, <3>1, <4>1, <4>4, FitsMeans DEF old
      <4> QED BY <2>5, <4>2, <4>4, <4>5 DEF u
    <3> QED BY <2>1, <3>2, <3>3
  <2> QED BY <1>12, <2>2, <2>6, <2>7
<1>18. path \in D
  <2>1. i \in i .. Dim /\ i <= n + 1
    BY <1>1, <1>12
  <2> QED BY <1>15, <2>1 DEF D, path
<1>19. ASSUME NEW q \in Spelled(fo, S2), q # <<>>, Leads(Parent(q), keys),
              Len(q) - 1 \in i .. Dim - 1, Load(fo, S, Parent(q)) = 1, Load(fo, S2, q) > 0
       PROVE  q \in D
  <2> DEFINE m == Len(q)
  <2>1. /\ q \in Path /\ m \in 1 .. Dim /\ Len(Parent(q)) = m - 1
    BY <1>2, <1>19, SpelledMeans, ParentProperties
  <2>2. Parent(q) = Prefix(keys, m - 1)
    BY <1>19, <2>1 DEF Leads
  <2>3. Load(fo, S2, Parent(q)) = 2
    <3>1. Load(fo, S2, Parent(q)) = Load(fo, S, Parent(q)) + 1
      BY <1>19, LoadAfterInsertion DEF keys, S2
    <3> QED BY <1>19, <3>1
  <2>4. m \in i .. Dim /\ m - 1 \in i .. Dim /\ m \in 0 .. Dim /\ m - 1 \in Int /\ m > 0
    BY <1>1, <1>19, <2>1
  <2>5. Load(fo, S2, q) # 0
    BY <1>19
  <2>6. PICK x \in S2 : x \in Under(fo, S2, q) /\ Leads(q, Keys(fo, x))
    BY <1>2, <2>5, LoadType
  <2> HIDE DEF m
  <2>7. m - 1 <= n
    <3>1. ~(m - 1 > n)
      BY <1>13, <2>2, <2>3, <2>4
    <3> QED BY <1>12, <2>4, <3>1
  <2>8. Keys(fo, x) \in Path /\ Len(Keys(fo, x)) = Dim /\ q = Prefix(Keys(fo, x), m)
    BY <1>2, <2>6, KeysProperties DEF Leads, m
  <2>9. Parent(q) = Prefix(Keys(fo, x), m - 1)
    BY <2>4, <2>8, LeadsProperties
  <2>10. Leads(Parent(q), Keys(fo, x))
    BY <2>1, <2>9 DEF Leads
  <2>11. x \in Under(fo, S2, Parent(q))
    BY <1>2, <2>6, <2>10, LoadType
  <2>12. Under(fo, S2, Parent(q)) = {r, s}
    BY <1>13, <2>2, <2>4, <2>7
  <2>13. Keys(fo, x) \in {old, keys}
    BY <2>11, <2>12 DEF old, keys
  <2>14. m <= n + 1
    BY <1>12, <2>4, <2>7
  <2> QED BY <1>15, <2>4, <2>8, <2>13, <2>14
<1>20. /\ path \in DOMAIN new /\ DOMAIN new \subseteq Spelled(fo, S2)
       /\ \A q \in DOMAIN new : new[q] \in Tree /\ Fits(fo, S2, q, new[q])
  BY <1>14, <1>17, <1>18
<1>21. \A q \in Spelled(fo, S2) :
           /\ q # <<>> /\ Leads(Parent(q), keys) /\ Len(q) - 1 \in i .. Dim - 1
           /\ Load(fo, S, Parent(q)) = 1 /\ Load(fo, S2, q) > 0
           => q \in DOMAIN new
  BY <1>14, <1>19
<1> QED BY <1>20, <1>21 DEF new, keys, path, S2, v

\* An insertion into the tree of some rules makes the tree of one rule more.
LEMMA InsertionKeepsShape ==
  ASSUME NEW fo \in FieldOrder, NEW S \in SUBSET Rule, NEW t, Shape(fo, S, t),
         NEW r \in Rule, r \notin S
  PROVE  Shape(fo, S \cup {r}, RBTreeInsertWithPathCompression(t, Keys(fo, r), priority[r]))
<1> DEFINE keys == Keys(fo, r)
           v == priority[r]
           S2 == S \cup {r}
           i == Level(t, keys, 1)
           path == Prefix(keys, i)
           tree == At(t, path)
           new == Ending(tree, path, keys, v)
           t2 == RBTreeInsertWithPathCompression(t, keys, v)
<1>1. keys \in Path /\ Len(keys) = Dim /\ Dim \in Nat /\ Dim > 0
  BY KeysProperties, RulesAssumption
<1>2. /\ i \in 0 .. Dim
      /\ \A k \in 0 .. i - 1 : Load(fo, S, Prefix(keys, k)) > 1
      /\ i = Dim \/ Load(fo, S, path) <= 1
      /\ path \in Spelled(fo, S) \/ Load(fo, S, path) = 0
  <2>1. 1 \in {1, 2}
    OBVIOUS
  <2> HIDE DEF keys
  <2> QED BY <1>1, <2>1, LevelProperties
<1>3. t2 = Joined(t, new, keys, i)
  BY DEF RBTreeInsertWithPathCompression, Joined
<1> HIDE DEF i
<1>4. EndsAt(fo, S, keys, 1, i)
  BY <1>2 DEF EndsAt
<1> HIDE DEF path
<1>5. tree \in Tree /\ Fits(fo, S, path, tree) /\ tree.count = Load(fo, S, path)
  BY <1>2, AtFits
<1> HIDE DEF tree
<1>6. /\ path \in Spelled(fo, S2)
      /\ \A q \in Spelled(fo, S2) :
            \/ q \in Spelled(fo, S) \cup {path}
            \/ /\ i < Dim /\ Load(fo, S, path) = 1 /\ q # <<>>
               /\ Leads(Parent(q), keys) /\ Len(q) - 1 \in i .. Dim - 1
               /\ Load(fo, S, Parent(q)) = 1 /\ Load(fo, S2, q) > 0
  BY <1>4, SpelledAfterInsertion DEF path
<1>7. /\ path \in DOMAIN new /\ DOMAIN new \subseteq Spelled(fo, S2)
      /\ \A q \in DOMAIN new : new[q] \in Tree /\ Fits(fo, S2, q, new[q])
      /\ Spelled(fo, S2) \subseteq Spelled(fo, S) \cup DOMAIN new
  <2>1. Load(fo, S, path) \in Nat
    BY LoadType
  <2>2. CASE i = Dim \/ tree.count = 0
    <3>1. DOMAIN new = {path} /\ new[path] \in Tree /\ Fits(fo, S2, path, new[path])
      BY <1>4, <1>5, <2>2, EndingFits DEF path
    <3>2. ~(i < Dim /\ Load(fo, S, path) = 1)
      BY <1>2, <1>5, <2>2
    <3>3. Spelled(fo, S2) \subseteq Spelled(fo, S) \cup {path}
      BY <1>6, <3>2
    <3> HIDE DEF new
    <3> QED BY <1>6, <3>1, <3>3
  <2>3. CASE ~(i = Dim \/ tree.count = 0)
    <3>1. tree.count = 1 /\ i # Dim /\ i < Dim
      BY <1>1, <1>2, <1>5, <2>1, <2>3
    <3>2. Len(path) = i
      BY <1>1, <1>2, LeadsProperties DEF path
    <3>3. new = Unzip(tree, path, keys, v)
      BY <3>1, <3>2 DEF Ending
    <3> HIDE DEF new
    <3> DEFINE fork == Unzip(tree, path, keys, v)
    <3>4. /\ path \in DOMAIN fork /\ DOMAIN fork \subseteq Spelled(fo, S2)
          /\ \A q \in DOMAIN fork : fork[q] \in Tree /\ Fits(fo, S2, q, fork[q])
          /\ \A q \in Spelled(fo, S2) :
                /\ q # <<>> /\ Leads(Parent(q), keys) /\ Len(q) - 1 \in i .. Dim - 1
                /\ Load(fo, S, Parent(q)) = 1 /\ Load(fo, S2, q) > 0
                => q \in DOMAIN fork
      BY <1>4, <1>5, <3>1, UnzipFits DEF path
    <3> HIDE DEF fork
    <3>5. Spelled(fo, S2) \subseteq Spelled(fo, S) \cup DOMAIN fork
      BY <1>6, <3>4
    <3>6. new = fork
      BY <3>3 DEF fork
    <3> QED BY <3>4, <3>5, <3>6
  <2> QED BY <2>2, <2>3
<1> HIDE DEF new, t2
<1>8. Shape(fo, S2, t2)
  <2>1. Prefix(keys, i) \in DOMAIN new
    BY <1>7 DEF path
  <2> QED BY <1>3, <1>4, <1>7, <2>1, InsertionJoins
<1> QED BY <1>8 DEF t2

------------------------------------------------------------------------------
(* Deletion                                                                *)

\* Which paths are spelled out after a deletion: all but the path of a single
\* rule, or all but those below the path of two.
Leaves(fo, S, q, path, i) ==
    \/ q = path /\ Load(fo, S, path) = 1 /\ i > 0
    \/ i < Dim /\ Load(fo, S, path) = 2 /\ Len(q) > i /\ Prefix(q, i) = path

\* The load along the keys of a rule that goes.
LEMMA LoadOfDeleted ==
  ASSUME NEW fo \in FieldOrder, NEW S \in SUBSET Rule, NEW r \in S
  PROVE  \A q : /\ Load(fo, S, q) \in Nat /\ Load(fo, S \ {r}, q) \in Nat
                /\ Leads(q, Keys(fo, r)) => /\ r \in Under(fo, S, q) /\ Load(fo, S, q) >= 1
                                            /\ Load(fo, S \ {r}, q) = Load(fo, S, q) - 1
                /\ ~Leads(q, Keys(fo, r)) => Load(fo, S \ {r}, q) = Load(fo, S, q)
<1> TAKE q
<1>1. Load(fo, S, q) \in Nat /\ Load(fo, S \ {r}, q) \in Nat
  <2>1. S \ {r} \in SUBSET Rule
    OBVIOUS
  <2> QED BY <2>1, LoadType
<1>2. Leads(q, Keys(fo, r)) => r \in Under(fo, S, q) /\ Load(fo, S \ {r}, q) = Load(fo, S, q) - 1
  BY LoadAfterDeletion
<1>3. ~Leads(q, Keys(fo, r)) => Load(fo, S \ {r}, q) = Load(fo, S, q)
  BY LoadAfterDeletion
<1>4. r \in Under(fo, S, q) => Load(fo, S, q) >= 1
  <2>1. r \in Under(fo, S, q) => Load(fo, S, q) # 0
    BY LoadType
  <2> QED BY <1>1, <2>1
<1> QED BY <1>1, <1>2, <1>3, <1>4

\* The path at which the descent of a stored rule ends is spelled out.
LEMMA EndIsSpelled ==
  ASSUME NEW fo \in FieldOrder, NEW S \in SUBSET Rule, NEW r \in S,
         NEW i, EndsAt(fo, S, Keys(fo, r), 2, i)
  PROVE  Prefix(Keys(fo, r), i) \in Spelled(fo, S) /\ Load(fo, S, Prefix(Keys(fo, r), i)) >= 1
<1> DEFINE keys == Keys(fo, r)
           path == Prefix(keys, i)
<1>1. i \in 0 .. Dim /\ \A k \in 0 .. i - 1 : Load(fo, S, Prefix(keys, k)) > 2
  BY DEF EndsAt
<1>2. keys \in Path /\ Len(keys) = Dim /\ Dim \in Nat
  BY KeysProperties, RulesAssumption
<1> HIDE DEF keys
<1>3. /\ path \in Path /\ Leads(path, keys)
      /\ i > 0 => Parent(path) = Prefix(keys, i - 1)
      /\ i = 0 => path = <<>>
  BY <1>1, <1>2, LeadsProperties
<1> HIDE DEF path
<1>4. Load(fo, S, path) >= 1 /\ Load(fo, S, path) \in Nat
  BY <1>3, LoadOfDeleted DEF keys
<1>5. CASE i = 0
  BY <1>3, <1>4, <1>5, SpelledMeans DEF path, keys
<1>6. CASE i > 0
  <2>1. i - 1 \in 0 .. i - 1
    BY <1>1, <1>2, <1>6
  <2>2. Load(fo, S, Parent(path)) > 2
    BY <1>1, <1>3, <1>6, <2>1
  <2>3. Load(fo, S, Parent(path)) \in Nat
    BY LoadType
  <2>4. Load(fo, S, Parent(path)) > 1 /\ Load(fo, S, path) > 0
    BY <1>4, <2>2, <2>3
  <2>5. path \in Spelled(fo, S)
    BY <1>3, <2>4, SpelledMeans
  <2> QED BY <1>4, <2>5 DEF path, keys
<1> QED BY <1>1, <1>2, <1>5, <1>6

\* The paths spelled out for the rules that remain.
LEMMA SpelledAfterDeletion ==
  ASSUME NEW fo \in FieldOrder, NEW S \in SUBSET Rule, NEW r \in S,
         NEW i, EndsAt(fo, S, Keys(fo, r), 2, i), NEW q
  PROVE  q \in Spelled(fo, S \ {r}) <=>
            q \in Spelled(fo, S) /\ ~Leaves(fo, S, q, Prefix(Keys(fo, r), i), i)
<1> DEFINE keys == Keys(fo, r)
           path == Prefix(keys, i)
           S2 == S \ {r}
<1>1. i \in 0 .. Dim
  BY DEF EndsAt
<1>2. keys \in Path /\ Len(keys) = Dim /\ Dim \in Nat /\ S2 \in SUBSET Rule
  BY KeysProperties, RulesAssumption
<1>3. \A p : /\ Load(fo, S, p) \in Nat /\ Load(fo, S2, p) \in Nat
             /\ Leads(p, keys) => Load(fo, S, p) >= 1 /\ Load(fo, S2, p) = Load(fo, S, p) - 1
             /\ ~Leads(p, keys) => Load(fo, S2, p) = Load(fo, S, p)
  BY LoadOfDeleted
<1>4. EndsAt(fo, S, keys, 2, i)
  OBVIOUS
<1> HIDE DEF keys
<1>5. path \in Path /\ Leads(path, keys) /\ Len(path) = i /\ (i > 0 => path # <<>>)
      /\ \A k \in i .. Dim : Prefix(Prefix(keys, k), i) = path
  <2>1. path \in Path /\ Leads(path, keys) /\ Len(path) = i /\ (i > 0 => path # <<>>)
    BY <1>1, <1>2, LeadsProperties
  <2>2. ASSUME NEW k \in i .. Dim PROVE Prefix(Prefix(keys, k), i) = path
    <3>1. k \in 0 .. Dim /\ i \in 0 .. k
      BY <1>1, <1>2
    <3> QED BY <1>2, <3>1, LeadsProperties
  <2> QED BY <2>1, <2>2
<1> HIDE DEF path, S2
<1>6. ASSUME q \in Spelled(fo, S2)
      PROVE  q \in Spelled(fo, S) /\ ~Leaves(fo, S, q, path, i)
  <2>1. q \in Path /\ (q = <<>> \/ (Load(fo, S2, q) > 0 /\ Load(fo, S2, Parent(q)) > 1))
    BY <1>2, <1>6, SpelledMeans
  <2>2. \A p : Load(fo, S2, p) \in Nat /\ Load(fo, S, p) \in Nat /\ Load(fo, S2, p) <= Load(fo, S, p)
    <3> TAKE p
    <3>1. /\ Load(fo, S, p) \in Nat /\ Load(fo, S2, p) \in Nat
          /\ Load(fo, S2, p) = Load(fo, S, p) - 1 \/ Load(fo, S2, p) = Load(fo, S, p)
      BY <1>3
    <3> QED BY <3>1
  <2>3. q = <<>> \/ (Load(fo, S, q) > 0 /\ Load(fo, S, Parent(q)) > 1)
    <3> SUFFICES ASSUME q # <<>> PROVE Load(fo, S, q) > 0 /\ Load(fo, S, Parent(q)) > 1
      OBVIOUS
    <3>1. Load(fo, S2, q) > 0 /\ Load(fo, S2, q) \in Nat /\ Load(fo, S, q) \in Nat /\ Load(fo, S2, q) <= Load(fo, S, q)
      BY <2>1, <2>2
    <3>2. /\ Load(fo, S2, Parent(q)) > 1 /\ Load(fo, S2, Parent(q)) \in Nat /\ Load(fo, S, Parent(q)) \in Nat
          /\ Load(fo, S2, Parent(q)) <= Load(fo, S, Parent(q))
      BY <2>1, <2>2
    <3>3. Load(fo, S, q) > 0
      BY <3>1
    <3>4. Load(fo, S, Parent(q)) > 1
      BY <3>2
    <3> QED BY <3>3, <3>4
  <2>4. q \in Spelled(fo, S)
    BY <2>1, <2>3, SpelledMeans
  <2>5. ASSUME q = path, Load(fo, S, path) = 1, i > 0 PROVE FALSE
    <3>1. Load(fo, S2, q) = 0 /\ q # <<>>
      BY <1>3, <1>5, <2>5
    <3> QED BY <2>1, <3>1
  <2>6. ASSUME i < Dim, Load(fo, S, path) = 2, Len(q) > i, Prefix(q, i) = path PROVE FALSE
    <3>1. Len(q) \in Nat /\ Len(q) <= Dim /\ q # <<>>
      <4>1. Len(q) \in Nat /\ Len(q) <= Dim
        BY <2>1 DEF Path
      <4>2. Len(q) # 0
        BY <1>1, <1>2, <2>6, <4>1
      <4> QED BY <4>1, <4>2
    <3>2. Load(fo, S2, q) # 0 /\ Load(fo, S2, Parent(q)) > 1
      BY <2>1, <3>1
    <3>3. PICK x \in S2 : Leads(q, Keys(fo, x))
      BY <1>2, <3>2, LoadType
    <3> DEFINE m == Len(q)
               other == Keys(fo, x)
    <3>4. other \in Path /\ Len(other) = Dim /\ q = Prefix(other, m)
      BY <1>2, <3>3, KeysProperties DEF Leads
    <3>5. m \in 0 .. Dim /\ m > 0 /\ m - 1 \in 0 .. Dim /\ i \in 0 .. m - 1 /\ i \in 0 .. m
      BY <1>1, <1>2, <2>6, <3>1
    <3> HIDE DEF other, m
    <3>6. Parent(q) = Prefix(other, m - 1) /\ Prefix(other, i) = path
      BY <2>6, <3>4, <3>5, LeadsProperties
    <3>7. Load(fo, S2, Prefix(other, m - 1)) <= Load(fo, S2, Prefix(other, i))
      BY <1>2, <3>4, <3>5, LoadShrinks
    <3>8. Load(fo, S2, path) = 1
      BY <1>3, <1>5, <2>6
    <3>9. Load(fo, S2, Parent(q)) \in Nat
      BY <1>3
    <3> QED BY <3>2, <3>6, <3>7, <3>8, <3>9
  <2> QED BY <2>4, <2>5, <2>6 DEF Leaves
<1>7. ASSUME q \in Spelled(fo, S), q \notin Spelled(fo, S2)
      PROVE  Leaves(fo, S, q, path, i)
  <2>1. q \in Path /\ (q = <<>> \/ (Load(fo, S, q) > 0 /\ Load(fo, S, Parent(q)) > 1))
    BY <1>7, SpelledMeans
  <2>2. q # <<>> /\ ~(Load(fo, S2, q) > 0 /\ Load(fo, S2, Parent(q)) > 1)
    BY <1>2, <1>7, <2>1, SpelledMeans
  <2>3. Len(q) \in 1 .. Dim /\ Len(Parent(q)) = Len(q) - 1
    BY <2>1, <2>2, ParentProperties
  <2>4. Leads(q, keys) => Leads(Parent(q), keys)
    <3> SUFFICES ASSUME Leads(q, keys) PROVE Leads(Parent(q), keys)
      OBVIOUS
    <3>1. Len(q) \in 0 .. Dim /\ Len(q) > 0 /\ q = Prefix(keys, Len(q)) /\ Len(q) - 1 \in 0 .. Dim
      BY <1>2, <2>3 DEF Leads
    <3>2. Parent(q) = Prefix(keys, Len(q) - 1)
      BY <1>2, <3>1, LeadsProperties
    <3> QED BY <2>3, <3>2 DEF Leads
  <2>5. Leads(Parent(q), keys)
    BY <1>3, <2>1, <2>2, <2>4
  <2>6. /\ \/ Len(q) <= i /\ Load(fo, S, Parent(q)) > 2
           \/ i < Dim /\ Len(q) > i /\ Load(fo, S, path) = 2
        /\ Leads(q, keys) =>
              \/ q = path
              \/ Len(q) < i /\ Load(fo, S, q) > 2
              \/ Len(q) > i
    <3>1. 2 \in {1, 2}
      OBVIOUS
    <3>2. \/ Len(q) <= i /\ Load(fo, S, Parent(q)) > 2
          \/ i < Dim /\ Len(q) > i /\ Load(fo, S, path) = 2
      BY <1>2, <1>4, <1>7, <2>2, <2>5, <3>1, SpelledAlong DEF path
    <3>3. Leads(q, keys) =>
              \/ q = path
              \/ Len(q) < i /\ Load(fo, S, q) > 2
              \/ Len(q) > i
      BY <1>2, <1>4, <1>7, <3>1, SpelledAlong DEF path
    <3> QED BY <3>2, <3>3
  <2>7. CASE Len(q) <= i /\ Load(fo, S, Parent(q)) > 2
    <3>1. Load(fo, S2, Parent(q)) > 1
      <4>1. Load(fo, S2, Parent(q)) = Load(fo, S, Parent(q)) - 1 /\ Load(fo, S, Parent(q)) \in Nat
        BY <1>3, <2>5
      <4> QED BY <2>7, <4>1
    <3>2. /\ ~(Load(fo, S2, q) > 0) /\ Load(fo, S, q) > 0
          /\ Load(fo, S2, q) \in Nat /\ Load(fo, S, q) \in Nat
      BY <1>3, <2>1, <2>2, <3>1
    <3>3. Load(fo, S2, q) # Load(fo, S, q)
      BY <3>2
    <3>4. Leads(q, keys) /\ Load(fo, S2, q) = Load(fo, S, q) - 1
      BY <1>3, <3>3
    <3>5. Load(fo, S, q) = 1
      BY <3>2, <3>4
    <3>6. ~(Len(q) > i) /\ i > 0
      BY <1>1, <1>2, <2>3, <2>7
    <3>7. q = path
      BY <2>6, <3>4, <3>5, <3>6
    <3> QED BY <3>5, <3>6, <3>7 DEF Leaves
  <2>8. CASE i < Dim /\ Len(q) > i /\ Load(fo, S, path) = 2
    <3>1. Parent(q) = Prefix(keys, Len(q) - 1)
      BY <2>3, <2>5 DEF Leads
    <3>2. Len(q) - 1 \in i .. Dim /\ i \in 0 .. Len(q) - 1
      BY <1>1, <1>2, <2>3, <2>8
    <3>3. Prefix(Parent(q), i) = path
      BY <1>5, <3>1, <3>2
    <3>4. Prefix(q, i) = path
      BY <2>1, <2>2, <3>2, <3>3, ParentProperties
    <3> QED BY <2>8, <3>4 DEF Leaves
  <2> QED BY <2>6, <2>7, <2>8
<1> QED BY <1>6, <1>7 DEF path, keys, S2

\* The trees t2 are those recounted above, on the paths to spell out without
\* the rules that left, but for the tree at the path, which is new.
Pruned(fo, S2, above, path, t2) ==
    /\ t2 = [q \in Spelled(fo, S2) |-> t2[q]]
    /\ \A q \in Spelled(fo, S2) : q # path => t2[q] = above[q]
    /\ path \in Spelled(fo, S2) => t2[path] \in Tree /\ Fits(fo, S2, path, t2[path])

\* The trees that remain fit when the one at the end of the descent does.
LEMMA DeletionJoins ==
  ASSUME NEW fo \in FieldOrder, NEW S \in SUBSET Rule, NEW t, Shape(fo, S, t),
         NEW r \in S, NEW i, EndsAt(fo, S, Keys(fo, r), 2, i), NEW t2,
         Pruned(fo, S \ {r}, Recount(t, Keys(fo, r), i, -1), Prefix(Keys(fo, r), i), t2)
  PROVE  Shape(fo, S \ {r}, t2)
<1> DEFINE keys == Keys(fo, r)
           path == Prefix(keys, i)
           S2 == S \ {r}
<1>0. /\ t2 = [q \in Spelled(fo, S2) |-> t2[q]]
      /\ \A q \in Spelled(fo, S2) : q # path => t2[q] = Recount(t, keys, i, -1)[q]
      /\ path \in Spelled(fo, S2) => t2[path] \in Tree /\ Fits(fo, S2, path, t2[path])
  BY DEF Pruned
<1>1. i \in 0 .. Dim /\ EndsAt(fo, S, keys, 2, i)
  BY DEF EndsAt
<1>2. keys \in Path /\ Len(keys) = Dim /\ Dim \in Nat /\ S2 \in SUBSET Rule
  BY KeysProperties, RulesAssumption
<1>3. ASSUME NEW q \in Spelled(fo, S2), q # path
      PROVE  t2[q] \in Tree /\ Fits(fo, S2, q, t2[q])
  <2>1. q \in Spelled(fo, S) /\ ~Leaves(fo, S, q, path, i)
    BY <1>1, SpelledAfterDeletion
  <2>2. t2[q] = Recount(t, keys, i, -1)[q]
    BY <1>0, <1>3
  <2>3. /\ Leads(q, keys) => Load(fo, S2, q) = Load(fo, S, q) - 1
        /\ ~Leads(q, keys) => Under(fo, S2, q) = Under(fo, S, q)
    BY LoadAfterDeletion
  <2>8. Load(fo, S, q) \in Nat
    BY LoadType
  <2> HIDE DEF keys, path
  <2>4. Leads(q, keys) => Len(q) < i /\ Load(fo, S, q) > 2
    <3> SUFFICES ASSUME Leads(q, keys) PROVE Len(q) < i /\ Load(fo, S, q) > 2
      OBVIOUS
    <3>1. \/ Len(q) < i /\ Load(fo, S, q) > 2
          \/ i < Dim /\ Len(q) > i /\ Load(fo, S, path) = 2
      <4>1. 2 \in {1, 2}
        OBVIOUS
      <4> QED BY <1>1, <1>2, <1>3, <2>1, <4>1, SpelledAlong DEF path
    <3>2. CASE i < Dim /\ Len(q) > i /\ Load(fo, S, path) = 2
      <4>1. q \in Path /\ q = Prefix(keys, Len(q))
        BY <2>1, SpelledMeans DEF Leads
      <4>2. Len(q) \in 0 .. Dim /\ i \in 0 .. Len(q)
        <5>1. Len(q) \in Nat /\ Len(q) <= Dim
          BY <4>1 DEF Path
        <5> QED BY <1>1, <1>2, <3>2, <5>1
      <4>3. Prefix(q, i) = path
        <5> DEFINE m == Len(q)
        <5>1. m \in 0 .. Dim /\ i \in 0 .. m /\ q = Prefix(keys, m)
          BY <4>1, <4>2
        <5> HIDE DEF m
        <5>2. Prefix(Prefix(keys, m), i) = Prefix(keys, i)
          BY <1>2, <5>1, LeadsProperties
        <5> QED BY <5>1, <5>2 DEF path
      <4> QED BY <2>1, <3>2, <4>3 DEF Leaves
    <3> QED BY <3>1, <3>2
  <2>5. Leads(q, keys) => /\ Load(fo, S, q) > 1 /\ Load(fo, S2, q) > 1
                          /\ Load(fo, S2, q) = Load(fo, S, q) + -1
    BY <2>3, <2>4, <2>8
  <2>6. -1 \in Int
    OBVIOUS
  <2> HIDE DEF S2
  <2>7. LET above == Recount(t, keys, i, -1)[q] IN above \in Tree /\ Fits(fo, S2, q, above)
    BY <1>1, <1>2, <2>1, <2>3, <2>4, <2>5, <2>6, AboveFits
  <2> QED BY <2>2, <2>7
<1>4. \A q \in Spelled(fo, S2) : t2[q] \in Tree /\ Fits(fo, S2, q, t2[q])
  BY <1>0, <1>3
<1> HIDE DEF S2
<1>5. t2 \in [Spelled(fo, S2) -> Tree]
  BY <1>0, <1>4
<1> QED BY <1>4, <1>5 DEF Shape, S2

\* What follows in a prefix, and what follows the prefix, is what follows.
LEMMA RestOfPrefix ==
  ASSUME NEW T, NEW s \in Seq(T), NEW k \in 0 .. Len(s), NEW i \in 0 .. k
  PROVE  Rest(Prefix(s, k), i) \o Rest(s, k) = Rest(s, i)
<1> DEFINE a == Rest(Prefix(s, k), i)
           b == Rest(s, k)
           c == Rest(s, i)
<1>1. Len(s) \in Nat /\ k \in Nat /\ i \in Nat /\ i <= k /\ k <= Len(s) /\ i \in 0 .. Len(s)
  OBVIOUS
<1>2. /\ Prefix(s, k) \in Seq(T) /\ Len(Prefix(s, k)) = k
      /\ \A m \in 1 .. k : Prefix(s, k)[m] = s[m]
  BY PrefixProperties
<1>3. a \in Seq(T) /\ Len(a) = k - i /\ \A m \in 1 .. k - i : a[m] = Prefix(s, k)[i + m]
  <2>1. i \in 0 .. Len(Prefix(s, k))
    BY <1>2
  <2> QED BY <1>2, <2>1, RestProperties
<1>4. \A m \in 1 .. k - i : a[m] = s[i + m]
  <2> TAKE m \in 1 .. k - i
  <2>1. i + m \in 1 .. k
    BY <1>1
  <2> QED BY <1>2, <1>3, <2>1
<1>5. b \in Seq(T) /\ Len(b) = Len(s) - k /\ \A m \in 1 .. Len(s) - k : b[m] = s[k + m]
  BY RestProperties
<1>6. c \in Seq(T) /\ Len(c) = Len(s) - i /\ \A m \in 1 .. Len(s) - i : c[m] = s[i + m]
  BY <1>1, RestProperties
<1> HIDE DEF a, b, c
<1>7. /\ a \o b \in Seq(T) /\ Len(a \o b) = Len(a) + Len(b)
      /\ \A m \in 1 .. Len(a) + Len(b) : (a \o b)[m] = IF m <= Len(a) THEN a[m] ELSE b[m - Len(a)]
  BY <1>3, <1>5, ConcatProperties
<1> DEFINE d == a \o b
<1>8. d \in Seq(T) /\ Len(d) = Len(s) - i
  BY <1>1, <1>3, <1>5, <1>7
<1>9. \A m \in 1 .. Len(s) - i : d[m] = IF m <= k - i THEN a[m] ELSE b[m - (k - i)]
  BY <1>1, <1>3, <1>5, <1>7
<1> HIDE DEF d
<1>10. ASSUME NEW m \in 1 .. Len(d) PROVE d[m] = c[m]
  <2>1. m \in 1 .. Len(s) - i /\ c[m] = s[i + m]
    BY <1>6, <1>8
  <2>2. CASE m <= k - i
    <3>1. m \in 1 .. k - i
      BY <1>1, <2>1, <2>2
    <3> QED BY <1>4, <1>9, <2>1, <2>2, <3>1
  <2>3. CASE ~(m <= k - i)
    <3>1. m - (k - i) \in 1 .. Len(s) - k /\ k + (m - (k - i)) = i + m
      BY <1>1, <2>1, <2>3
    <3>2. b[m - (k - i)] = s[k + (m - (k - i))]
      BY <1>5, <3>1
    <3>3. d[m] = b[m - (k - i)]
      BY <1>9, <2>1, <2>3
    <3> QED BY <2>1, <3>1, <3>2, <3>3
  <2> QED BY <2>2, <2>3
<1>11. d = c
  BY <1>6, <1>8, <1>10, SeqEqual
<1> QED BY <1>11 DEF a, b, c, d

\* Below the path at level k are the two paths of the rules one key longer.
ForksAt(fo, t, r, s, k) ==
    /\ Below(t, Prefix(Keys(fo, r), k)) = {Prefix(Keys(fo, s), k + 1), Prefix(Keys(fo, r), k + 1)}
    /\ Prefix(Keys(fo, s), k + 1) \in DOMAIN t /\ Prefix(Keys(fo, r), k + 1) \in DOMAIN t

\* This is so below a path that two rules share.
LEMMA BelowFork ==
  ASSUME NEW fo \in FieldOrder, NEW S \in SUBSET Rule, NEW t, Shape(fo, S, t),
         NEW r \in S, NEW s \in S, NEW k \in 0 .. Dim - 1,
         Under(fo, S, Prefix(Keys(fo, r), k)) = {r, s}, Load(fo, S, Prefix(Keys(fo, r), k)) = 2
  PROVE  ForksAt(fo, t, r, s, k)
<1> DEFINE keys == Keys(fo, r)
           path == Prefix(keys, k)
<1>1. /\ keys \in Path /\ Len(keys) = Dim /\ Dim \in Nat
      /\ k \in 0 .. Dim /\ k + 1 \in 0 .. Dim /\ k + 1 > 0 /\ k + 1 - 1 = k
  BY KeysProperties, RulesAssumption
<1>2. DOMAIN t = Spelled(fo, S) /\ Len(path) = k
  BY <1>1, LeadsProperties DEF Shape
<1>3. ASSUME NEW x \in {r, s}
      PROVE  /\ Prefix(Keys(fo, x), k + 1) \in DOMAIN t
             /\ Prefix(Keys(fo, x), k + 1) \in Below(t, path)
  <2> DEFINE other == Keys(fo, x)
             q == Prefix(other, k + 1)
  <2>1. x \in S /\ other \in Path /\ Len(other) = Dim
    BY KeysProperties
  <2>2. x \in Under(fo, S, path)
    OBVIOUS
  <2>3. Prefix(other, k) = path
    <3>1. Leads(path, other)
      BY <2>1, <2>2, LoadType
    <3> QED BY <1>2, <3>1 DEF Leads
  <2> HIDE DEF path, keys
  <2>4. /\ q \in Path /\ Len(q) = k + 1 /\ Leads(q, other) /\ q # <<>>
        /\ Parent(q) = Prefix(other, k) /\ Prefix(q, k) = Prefix(other, k)
    <3>1. k \in 0 .. k + 1
      BY <1>1
    <3> HIDE DEF other
    <3>2. /\ q \in Path /\ Len(q) = k + 1 /\ Leads(q, other) /\ q # <<>>
          /\ Parent(q) = Prefix(other, k + 1 - 1)
      BY <1>1, <2>1, LeadsProperties
    <3>3. Prefix(q, k) = Prefix(other, k)
      BY <1>1, <2>1, <3>1, LeadsProperties
    <3> QED BY <1>1, <3>2, <3>3
  <2>5. Load(fo, S, q) > 0
    <3>1. x \in Under(fo, S, q)
      BY <2>1, <2>4, LoadType
    <3>2. Load(fo, S, q) # 0 /\ Load(fo, S, q) \in Nat
      BY <3>1, LoadType
    <3> QED BY <3>2
  <2>6. Load(fo, S, Parent(q)) > 1
    <3>1. Load(fo, S, path) = 2
      BY DEF path, keys
    <3> QED BY <2>3, <2>4, <3>1
  <2>7. q \in Spelled(fo, S)
    BY <2>4, <2>5, <2>6, SpelledMeans
  <2>8. q \in Below(t, path)
    BY <1>2, <2>3, <2>4, <2>7 DEF Below
  <2> QED BY <1>2, <2>7, <2>8
<1>4. ASSUME NEW q \in Below(t, path)
      PROVE  \E x \in {r, s} : q = Prefix(Keys(fo, x), k + 1)
  <2>1. q \in Spelled(fo, S) /\ Len(q) = k + 1 /\ Prefix(q, k) = path
    BY <1>2 DEF Below
  <2>2. q # <<>>
    BY <1>1, <2>1
  <2>3. q \in Path /\ Load(fo, S, q) > 0
    BY <2>1, <2>2, SpelledMeans
  <2>4. Load(fo, S, q) # 0
    BY <2>3
  <2>11. Under(fo, S, q) # {} /\ Under(fo, S, q) \subseteq S
    BY <2>4, LoadType
  <2>12. PICK x : x \in Under(fo, S, q)
    BY <2>11
  <2>5. x \in S /\ Leads(q, Keys(fo, x))
    BY <2>11, <2>12, LoadType
  <2> DEFINE other == Keys(fo, x)
  <2>6. other \in Path /\ Len(other) = Dim /\ q = Prefix(other, k + 1)
    BY <2>1, <2>5, KeysProperties DEF Leads
  <2> HIDE DEF other
  <2>7. Prefix(other, k) = path
    <3>1. k \in 0 .. k + 1
      BY <1>1
    <3>2. Prefix(Prefix(other, k + 1), k) = Prefix(other, k)
      BY <1>1, <2>6, <3>1, LeadsProperties
    <3> QED BY <2>1, <2>6, <3>2
  <2>8. Leads(path, other)
    BY <1>2, <2>7 DEF Leads
  <2>9. x \in Under(fo, S, path)
    BY <2>5, <2>8, LoadType DEF other
  <2>10. x \in {r, s}
    BY <2>9
  <2> QED BY <2>6, <2>10 DEF other
<1>5. Below(t, path) = {Prefix(Keys(fo, s), k + 1), Prefix(Keys(fo, r), k + 1)}
  BY <1>3, <1>4
<1> QED BY <1>3, <1>5 DEF ForksAt

\* A path along which the walk of SurvivorPath can go, and where it can stop.
IsSurvivorPath(t, path, keys, x) ==
    /\ x \in DOMAIN t
    /\ Len(x) > Len(path) /\ Prefix(x, Len(path)) = path
    /\ Len(x) = Dim \/ t[x].count = 1
    /\ \A k \in Len(path) + 1 .. Len(x) :
          x[k] # keys[k] \/ Below(t, Prefix(x, k - 1)) = {Prefix(x, k)}

\* Two rules are under the path at level i, and the trees are those of S.
TwoLeft(fo, S, t, r, s, i) ==
    /\ Shape(fo, S, t) /\ r \in S /\ s \in S /\ r # s
    /\ i \in 0 .. Dim - 1
    /\ Under(fo, S, Prefix(Keys(fo, r), i)) = {r, s}

\* There is such a path: that of the other rule, down to where it is alone.
LEMMA SurvivorPathExists ==
  ASSUME NEW fo \in FieldOrder, NEW S \in SUBSET Rule, NEW t, NEW r, NEW s, NEW i,
         TwoLeft(fo, S, t, r, s, i)
  PROVE  \E x \in DOMAIN t : IsSurvivorPath(t, Prefix(Keys(fo, r), i), Keys(fo, r), x)
<1> DEFINE keys == Keys(fo, r)
           old == Keys(fo, s)
           n == Agreement(old, keys)
           path == Prefix(keys, i)
           m == IF n < Dim THEN n + 1 ELSE Dim
           x == Prefix(old, m)
<1>1. /\ Shape(fo, S, t) /\ r \in S /\ s \in S /\ r # s /\ i \in 0 .. Dim - 1
      /\ Under(fo, S, path) = {r, s} /\ r \in Rule /\ s \in Rule
  BY DEF TwoLeft
<1>2. /\ keys \in Path /\ Len(keys) = Dim /\ old \in Path /\ Len(old) = Dim
      /\ Dim \in Nat /\ i \in 0 .. Dim /\ i \in Nat
      /\ old \in Seq(Interval) /\ keys \in Seq(Interval)
  BY <1>1, KeysProperties, RulesAssumption
<1>3. /\ n \in 0 .. Dim
      /\ \A k \in 0 .. Dim : Prefix(old, k) = Prefix(keys, k) <=> k <= n
      /\ n < Dim => old[n + 1] # keys[n + 1]
  <2> HIDE DEF keys, old
  <2> QED BY <1>2, AgreementProperties
<1>4. n \in i .. Dim
  <2>1. i \in i .. Dim
    BY <1>2
  <2> QED BY <1>1, <1>2, <2>1, UnderFork
<1>5. \A k \in i .. Dim : Parted(fo, S, r, s, n, k)
  BY <1>1, <1>2, UnderFork
<1> HIDE DEF n, m
<1>6. /\ m \in i + 1 .. Dim /\ m \in 0 .. Dim /\ m \in Nat /\ (m = Dim \/ m > n)
      /\ \A k \in i + 1 .. m : k <= n \/ (k = n + 1 /\ n < Dim)
  <2>1. /\ m \in i + 1 .. Dim /\ (m = Dim \/ m > n)
        /\ \A k \in i + 1 .. m : k <= n \/ (k = n + 1 /\ n < Dim)
    <3>1. CASE n < Dim
      <4>1. m = n + 1
        BY <3>1 DEF m
      <4> QED BY <1>1, <1>2, <1>3, <1>4, <3>1, <4>1
    <3>2. CASE ~(n < Dim)
      <4>1. m = Dim /\ n = Dim
        BY <1>2, <1>3, <3>2 DEF m
      <4>2. i \in 0 .. Dim - 1 /\ Dim \in Nat
        BY <1>1, <1>2
      <4>3. Dim \in i + 1 .. Dim /\ \A k \in i + 1 .. Dim : k <= Dim
        BY <4>2
      <4>4. m \in i + 1 .. Dim
        BY <4>1, <4>3
      <4>5. \A k \in i + 1 .. m : k <= n
        BY <4>1, <4>3
      <4> QED BY <4>1, <4>4, <4>5
    <3> QED BY <3>1, <3>2
  <2> QED BY <1>2, <2>1
<1>7. \A k \in i .. Dim - 1 : k <= n => /\ Below(t, Prefix(keys, k)) = {Prefix(old, k + 1), Prefix(keys, k + 1)}
                                        /\ Prefix(old, k + 1) \in DOMAIN t
  <2> SUFFICES ASSUME NEW k \in i .. Dim - 1, k <= n
               PROVE  /\ Below(t, Prefix(keys, k)) = {Prefix(old, k + 1), Prefix(keys, k + 1)}
                      /\ Prefix(old, k + 1) \in DOMAIN t
    OBVIOUS
  <2>1. k \in i .. Dim /\ k \in 0 .. Dim - 1
    BY <1>2
  <2>2. Under(fo, S, Prefix(keys, k)) = {r, s} /\ Load(fo, S, Prefix(keys, k)) = 2
    BY <1>5, <2>1 DEF Parted
  <2>3. ForksAt(fo, t, r, s, k)
    BY <1>1, <2>1, <2>2, BelowFork
  <2> QED BY <2>3 DEF ForksAt
<1>8. /\ Len(path) = i /\ Len(x) = m /\ Prefix(x, i) = Prefix(old, i)
      /\ \A k \in 0 .. m : Prefix(x, k) = Prefix(old, k)
      /\ \A k \in 1 .. m : x[k] = old[k]
  <2> HIDE DEF keys, old
  <2>1. Len(path) = i
    BY <1>2, LeadsProperties
  <2>2. Len(x) = m /\ \A k \in 0 .. m : Prefix(x, k) = Prefix(old, k)
    BY <1>2, <1>6, LeadsProperties
  <2>3. \A k \in 1 .. m : x[k] = old[k]
    BY <1>2, <1>6, PrefixProperties
  <2>4. i \in 0 .. m
    BY <1>2, <1>6
  <2> QED BY <2>1, <2>2, <2>3, <2>4
<1> HIDE DEF keys, old, path
<1>9. Prefix(x, i) = path
  BY <1>2, <1>3, <1>4, <1>8 DEF path
<1>10. x \in DOMAIN t
  <2>1. m - 1 \in i .. Dim - 1 /\ m - 1 <= n /\ m - 1 + 1 = m
    BY <1>2, <1>3, <1>6 DEF m
  <2> QED BY <1>7, <2>1
<1> HIDE DEF x
<1>11. Len(x) = Dim \/ t[x].count = 1
  <2> SUFFICES ASSUME Len(x) # Dim PROVE t[x].count = 1
    OBVIOUS
  <2>1. m > n /\ m \in i .. Dim
    BY <1>2, <1>6, <1>8
  <2>2. Parted(fo, S, r, s, n, m)
    BY <1>5, <2>1
  <2>3. Load(fo, S, x) = 1
    BY <2>1, <2>2 DEF Parted, x, old
  <2>4. x \in Spelled(fo, S) /\ Fits(fo, S, x, t[x])
    BY <1>1, <1>10 DEF Shape
  <2> QED BY <2>3, <2>4, FitsMeans
<1>12. ASSUME NEW k \in i + 1 .. m
       PROVE  x[k] # keys[k] \/ Below(t, Prefix(x, k - 1)) = {Prefix(x, k)}
  <2>1. /\ k \in 1 .. m /\ k \in 0 .. m /\ k - 1 \in 0 .. m /\ k - 1 \in i .. Dim - 1
        /\ k - 1 + 1 = k /\ k \in 0 .. Dim /\ k - 1 \in 0 .. Dim
    BY <1>2, <1>6
  <2>2. CASE k <= n
    <3>1. k - 1 <= n
      BY <1>3, <2>1, <2>2
    <3>2. Below(t, Prefix(keys, k - 1)) = {Prefix(old, k), Prefix(keys, k)}
      BY <1>7, <2>1, <3>1
    <3>3. Prefix(old, k) = Prefix(keys, k) /\ Prefix(old, k - 1) = Prefix(keys, k - 1)
      BY <1>3, <2>1, <2>2, <3>1
    <3>4. Prefix(x, k) = Prefix(old, k) /\ Prefix(x, k - 1) = Prefix(old, k - 1)
      BY <1>8, <2>1
    <3> QED BY <3>2, <3>3, <3>4
  <2>3. CASE k = n + 1 /\ n < Dim
    BY <1>3, <1>8, <2>1, <2>3
  <2> QED BY <1>6, <2>2, <2>3
<1>13. IsSurvivorPath(t, path, keys, x)
  <2>1. Len(x) > Len(path)
    BY <1>2, <1>6, <1>8
  <2> QED BY <1>8, <1>9, <1>10, <1>11, <1>12, <2>1 DEF IsSurvivorPath
<1> QED BY <1>10, <1>13 DEF keys, path

\* Every such path leads to the other rule.
LEMMA SurvivorPathLeads ==
  ASSUME NEW fo \in FieldOrder, NEW S \in SUBSET Rule, NEW t, NEW r, NEW s, NEW i,
         TwoLeft(fo, S, t, r, s, i), NEW x,
         IsSurvivorPath(t, Prefix(Keys(fo, r), i), Keys(fo, r), x)
  PROVE  /\ Leads(x, Keys(fo, s)) /\ Len(x) \in i + 1 .. Dim
         /\ x \in Spelled(fo, S) /\ (Len(x) = Dim \/ t[x].count = 1)
<1> DEFINE keys == Keys(fo, r)
           old == Keys(fo, s)
           n == Agreement(old, keys)
           path == Prefix(keys, i)
           m == Len(x)
<1>1. /\ Shape(fo, S, t) /\ r \in S /\ s \in S /\ r # s /\ i \in 0 .. Dim - 1
      /\ Under(fo, S, path) = {r, s} /\ r \in Rule /\ s \in Rule
  BY DEF TwoLeft
<1>2. /\ keys \in Path /\ Len(keys) = Dim /\ old \in Path /\ Len(old) = Dim
      /\ Dim \in Nat /\ i \in 0 .. Dim /\ i \in Nat
      /\ old \in Seq(Interval) /\ keys \in Seq(Interval)
  BY <1>1, KeysProperties, RulesAssumption
<1>3. /\ n \in 0 .. Dim
      /\ \A k \in 0 .. Dim : Prefix(old, k) = Prefix(keys, k) <=> k <= n
  <2> HIDE DEF keys, old
  <2> QED BY <1>2, AgreementProperties
<1>4. n \in i .. Dim
  <2>1. i \in i .. Dim
    BY <1>2
  <2> QED BY <1>1, <1>2, <2>1, UnderFork
<1>5. \A k \in i .. Dim : Parted(fo, S, r, s, n, k)
  BY <1>1, <1>2, UnderFork
<1>6. Len(path) = i
  <2> HIDE DEF keys
  <2> QED BY <1>2, LeadsProperties
<1>7. /\ x \in DOMAIN t /\ m > i /\ Prefix(x, i) = path
      /\ m = Dim \/ t[x].count = 1
      /\ \A k \in i + 1 .. m : x[k] # keys[k] \/ Below(t, Prefix(x, k - 1)) = {Prefix(x, k)}
  BY <1>6 DEF IsSurvivorPath
<1>8. x \in Spelled(fo, S) /\ x \in Path
  BY <1>1, <1>7, SpelledMeans DEF Shape
<1>9. m \in i + 1 .. Dim /\ m \in 0 .. Dim /\ m \in Nat /\ i \in 0 .. m /\ x # <<>> /\ m \in i .. Dim
  <2>1. m \in Nat /\ m <= Dim
    BY <1>8 DEF Path
  <2>2. m # 0
    BY <1>2, <1>7, <2>1
  <2> QED BY <1>2, <1>7, <2>1, <2>2
<1>10. PICK y : y \in S /\ y \in Rule /\ Leads(x, Keys(fo, y))
  <2>1. Load(fo, S, x) > 0
    BY <1>8, <1>9, SpelledMeans
  <2>2. Load(fo, S, x) # 0
    BY <2>1
  <2>3. Under(fo, S, x) # {} /\ Under(fo, S, x) \subseteq S
    BY <2>2, LoadType
  <2>4. PICK y : y \in Under(fo, S, x)
    BY <2>3
  <2> QED BY <2>3, <2>4, LoadType
<1>11. y \in {r, s}
  <2> DEFINE other == Keys(fo, y)
  <2>1. other \in Path /\ Len(other) = Dim /\ x = Prefix(other, m)
    BY <1>10, KeysProperties DEF Leads
  <2> HIDE DEF other, m
  <2>2. Prefix(other, i) = path
    BY <1>7, <1>9, <2>1, LeadsProperties
  <2>3. Leads(path, other)
    BY <1>6, <2>2 DEF Leads
  <2>4. y \in Under(fo, S, path)
    BY <1>10, <2>3, LoadType DEF other
  <2> QED BY <1>1, <2>4
<1> HIDE DEF n
<1>12. CASE y = s
  BY <1>7, <1>8, <1>9, <1>10, <1>12
<1>13. CASE y = r
  <2>1. x = Prefix(keys, m)
    BY <1>10, <1>13 DEF Leads
  <2>2. CASE m <= n
    <3>1. x = Prefix(old, m)
      BY <1>3, <1>9, <2>1, <2>2
    <3> QED BY <1>7, <1>8, <1>9, <3>1 DEF Leads
  <2>3. CASE ~(m <= n)
    <3>1. n + 1 \in i + 1 .. m /\ n + 1 \in 1 .. m /\ n \in 0 .. m /\ n \in i .. Dim - 1 /\ n <= n
          /\ n + 1 \in i .. Dim /\ n + 1 > n /\ n + 1 \in 0 .. Dim /\ n + 1 - 1 = n /\ n + 1 \in 0 .. m
          /\ n \in 0 .. Dim - 1 /\ n \in i .. Dim
      BY <1>2, <1>3, <1>4, <1>9, <2>3
    <3> HIDE DEF keys, old, m
    <3>2. x[n + 1] = keys[n + 1]
      <4>1. m \in 0 .. Len(keys)
        BY <1>2, <1>9
      <4> QED BY <1>2, <2>1, <3>1, <4>1, PrefixProperties
    <3>3. Below(t, Prefix(x, n)) = {Prefix(x, n + 1)}
      BY <1>7, <3>1, <3>2
    <3>4. Prefix(x, n) = Prefix(keys, n) /\ Prefix(x, n + 1) = Prefix(keys, n + 1)
      BY <1>2, <1>9, <2>1, <3>1, LeadsProperties
    <3>5. Below(t, Prefix(keys, n)) = {Prefix(old, n + 1), Prefix(keys, n + 1)}
      <4>1. Under(fo, S, Prefix(keys, n)) = {r, s} /\ Load(fo, S, Prefix(keys, n)) = 2
        BY <1>5, <3>1 DEF Parted, keys
      <4>2. ForksAt(fo, t, r, s, n)
        BY <1>1, <3>1, <4>1, BelowFork DEF keys, old
      <4> QED BY <4>2 DEF ForksAt, keys, old
    <3>6. Prefix(old, n + 1) # Prefix(keys, n + 1)
      BY <1>5, <3>1 DEF Parted, keys, old
    <3> QED BY <3>3, <3>4, <3>5, <3>6
  <2> QED BY <2>2, <2>3
<1> QED BY <1>11, <1>12, <1>13

\* What is left of two rules is the tree of the other.
LEMMA SurvivorIsSingle ==
  ASSUME NEW fo \in FieldOrder, NEW S \in SUBSET Rule, NEW t, NEW r, NEW s, NEW i,
         TwoLeft(fo, S, t, r, s, i)
  PROVE  Survivor(t, Prefix(Keys(fo, r), i), Keys(fo, r), priority[r])
             = Single(Rest(Keys(fo, s), i), priority[s])
<1> DEFINE keys == Keys(fo, r)
           old == Keys(fo, s)
           n == Agreement(old, keys)
           path == Prefix(keys, i)
           x == SurvivorPath(t, path, keys)
           m == Len(x)
           last == IF Len(t[x].priorities) = 2 THEN PopPriority(t[x], priority[r]) ELSE t[x]
<1>1. /\ Shape(fo, S, t) /\ r \in S /\ s \in S /\ r # s /\ i \in 0 .. Dim - 1
      /\ Under(fo, S, path) = {r, s} /\ r \in Rule /\ s \in Rule
  BY DEF TwoLeft
<1>2. /\ keys \in Path /\ Len(keys) = Dim /\ old \in Path /\ Len(old) = Dim
      /\ Dim \in Nat /\ i \in 0 .. Dim /\ i \in Nat
      /\ old \in Seq(Interval) /\ keys \in Seq(Interval)
  BY <1>1, KeysProperties, RulesAssumption
<1>3. Len(path) = i
  <2> HIDE DEF keys
  <2> QED BY <1>2, LeadsProperties
<1>4. IsSurvivorPath(t, path, keys, x)
  <2>1. \E y \in DOMAIN t : IsSurvivorPath(t, path, keys, y)
    BY SurvivorPathExists
  <2>2. x = CHOOSE y \in DOMAIN t : 
              /\ Len(y) > Len(path) /\ Prefix(y, Len(path)) = path
              /\ Len(y) = Dim \/ t[y].count = 1
              /\ \A k \in Len(path) + 1 .. Len(y) :
                    y[k] # keys[k] \/ Below(t, Prefix(y, k - 1)) = {Prefix(y, k)}
    BY DEF SurvivorPath
  <2> HIDE DEF x, path, keys
  <2> QED BY <2>1, <2>2 DEF IsSurvivorPath
<1>5. Survivor(t, path, keys, priority[r]) = Single(Rest(x, i) \o t[x].chain, last.maxPriority)
  BY <1>3 DEF Survivor
<1> HIDE DEF x
<1>6. /\ Leads(x, old) /\ m \in i + 1 .. Dim
      /\ x \in Spelled(fo, S) /\ (m = Dim \/ t[x].count = 1)
  BY <1>4, SurvivorPathLeads
<1>7. x = Prefix(old, m) /\ m \in i .. Dim /\ m \in 0 .. Dim /\ m \in 0 .. Len(old) /\ i \in 0 .. m
  BY <1>2, <1>6 DEF Leads
<1>8. t[x] \in Tree /\ Fits(fo, S, x, t[x])
  BY <1>1, <1>6 DEF Shape
<1>9. Parted(fo, S, r, s, n, m) /\ n \in 0 .. Dim
  <2>1. Parted(fo, S, r, s, n, m)
    BY <1>1, <1>2, <1>7, UnderFork
  <2>2. n \in i .. Dim
    BY <1>1, <1>2, <1>7, UnderFork
  <2> QED BY <1>2, <2>1, <2>2
<1> HIDE DEF n, last, m
<1>10. CASE m <= n
  <2>1. Under(fo, S, x) = {r, s} /\ Load(fo, S, x) = 2
    BY <1>7, <1>9, <1>10 DEF Parted
  <2>2. t[x].count = 2 /\ t[x].chain = <<>>
    BY <1>8, <2>1, FitsMeans
  <2>3. m = Dim
    BY <1>6, <2>2
  <2>4. ListFits({r, s}, t[x])
    BY <1>8, <2>1, <2>3, FitsMeans DEF m
  <2>5. Len(t[x].priorities) = 2 /\ PopPriority(t[x], priority[r]).maxPriority = priority[s]
    BY <1>1, <1>8, <2>4, ListOfTwo
  <2>6. last.maxPriority = priority[s]
    BY <2>5 DEF last
  <2>7. Rest(x, i) \o t[x].chain = Rest(old, i)
    <3> HIDE DEF old
    <3>1. x = old
      BY <1>2, <1>7, <2>3, ExtremePrefixes
    <3>2. i \in 0 .. Len(old)
      BY <1>2
    <3>3. Rest(old, i) \in Seq(Interval)
      BY <1>2, <3>2, RestProperties
    <3>4. Rest(old, i) \o <<>> = Rest(old, i)
      BY <3>3, ConcatEmptySeq
    <3> QED BY <2>2, <3>1, <3>4
  <2> QED BY <1>5, <2>6, <2>7
<1>11. CASE ~(m <= n)
  <2>1. m > n
    BY <1>2, <1>6, <1>9, <1>11
  <2>2. Under(fo, S, x) = {s} /\ Load(fo, S, x) = 1
    BY <1>7, <1>9, <2>1 DEF Parted
  <2>3. t[x].chain = Rest(old, m) /\ ListFits({s}, t[x])
    <3>1. \A y \in Under(fo, S, x) : t[x].chain = Rest(Keys(fo, y), Len(x))
      BY <1>8, <2>2, FitsMeans
    <3>2. ListFits(Under(fo, S, x), t[x])
      <4>1. Load(fo, S, x) <= 1
        BY <2>2
      <4> QED BY <1>8, <4>1, FitsMeans
    <3> QED BY <2>2, <3>1, <3>2 DEF m
  <2>4. Len(t[x].priorities) = 1 /\ t[x].maxPriority = priority[s]
    BY <1>1, <1>8, <2>3, ListOfOne
  <2>5. last.maxPriority = priority[s]
    BY <2>4 DEF last
  <2>6. Rest(x, i) \o t[x].chain = Rest(old, i)
    <3> HIDE DEF old
    <3> QED BY <1>2, <1>7, <2>3, RestOfPrefix
  <2> QED BY <1>5, <2>5, <2>6
<1> QED BY <1>10, <1>11

\* The end of a descent lists one rule less.
LEMMA PoppedFits ==
  ASSUME NEW fo \in FieldOrder, NEW S \in SUBSET Rule, NEW r \in S, NEW tree \in Tree,
         Fits(fo, S, Keys(fo, r), tree), tree.count > 1
  PROVE  LET less == [tree EXCEPT !.count = tree.count - 1]
             new == PopPriority(less, priority[r])
         IN  new \in Tree /\ Fits(fo, S \ {r}, Keys(fo, r), new)
<1> DEFINE keys == Keys(fo, r)
           S2 == S \ {r}
           less == [tree EXCEPT !.count = tree.count - 1]
           new == PopPriority(less, priority[r])
<1>1. keys \in Path /\ Len(keys) = Dim /\ Dim \in Nat /\ S2 \in SUBSET Rule /\ keys \in Seq(Interval)
  BY KeysProperties, RulesAssumption
<1>2. Leads(keys, keys)
  <2> HIDE DEF keys
  <2>1. Prefix(keys, Len(keys)) = keys
    BY <1>1, ExtremePrefixes
  <2> QED BY <2>1 DEF Leads
<1>3. /\ r \in Under(fo, S, keys) /\ Under(fo, S2, keys) = Under(fo, S, keys) \ {r}
      /\ Load(fo, S2, keys) = Load(fo, S, keys) - 1
  BY <1>2, LoadAfterDeletion
<1>4. Under(fo, S, keys) \in SUBSET Rule /\ Load(fo, S, keys) \in Nat /\ Under(fo, S2, keys) \in SUBSET Rule
  <2>1. Under(fo, S, keys) \subseteq S /\ Load(fo, S, keys) \in Nat
    BY LoadType
  <2>2. Under(fo, S2, keys) \subseteq S2
    BY <1>1, LoadType
  <2> QED BY <2>1, <2>2
<1>5. tree.count = Load(fo, S, keys) /\ Load(fo, S, keys) # 1 /\ Load(fo, S, keys) > 1
  <2>1. tree.count = Load(fo, S, keys)
    BY FitsMeans
  <2> QED BY <1>4, <2>1
<1>6. tree.chain = <<>> /\ ListFits(Under(fo, S, keys), tree)
  BY <1>1, <1>5, FitsMeans
<1>7. /\ less \in Tree /\ less.count = tree.count - 1 /\ less.chain = tree.chain
      /\ less.priorities = tree.priorities /\ less.maxPriority = tree.maxPriority
  <2>1. tree.count - 1 \in Int
    BY <1>4, <1>5
  <2> QED BY <2>1, Assign
<1> HIDE DEF less, keys, S2
<1>8. ListFits(Under(fo, S, keys), less)
  BY <1>6, <1>7, SameList
<1>9. /\ new \in Tree /\ new.count = less.count /\ new.chain = less.chain
      /\ ListFits(Under(fo, S, keys) \ {r}, new)
  BY <1>3, <1>4, <1>7, <1>8, PopFits
<1> HIDE DEF new
<1>10. \A s \in Rule : Rest(Keys(fo, s), Len(keys)) = <<>>
  <2> TAKE s \in Rule
  <2>1. Keys(fo, s) \in Seq(Interval) /\ Len(Keys(fo, s)) = Dim /\ Dim \in 0 .. Dim
    BY <1>1, KeysProperties
  <2>2. Rest(Keys(fo, s), Dim) \in Seq(Interval) /\ Len(Rest(Keys(fo, s), Dim)) = 0
    BY <1>1, <2>1, RestProperties
  <2>3. Rest(Keys(fo, s), Dim) = <<>>
    BY <2>2
  <2> QED BY <1>1, <2>3
<1>11. Fits(fo, S2, keys, new)
  <2>1. new.count = Load(fo, S2, keys) /\ new.chain = <<>>
    BY <1>3, <1>5, <1>6, <1>7, <1>9
  <2>2. \A s \in Under(fo, S2, keys) : Rest(Keys(fo, s), Len(keys)) = <<>>
    BY <1>4, <1>10
  <2>3. ListFits(Under(fo, S2, keys), new)
    BY <1>3, <1>9
  <2> QED BY <2>1, <2>2, <2>3, FitsMeans
<1> QED BY <1>9, <1>11 DEF new, less, keys, S2

\* A deletion from the tree of some rules makes the tree of one rule fewer.
LEMMA DeletionKeepsShape ==
  ASSUME NEW fo \in FieldOrder, NEW S \in SUBSET Rule, NEW t, Shape(fo, S, t), NEW r \in S
  PROVE  Shape(fo, S \ {r}, RBTreeDeleteWithPathCompression(t, Keys(fo, r), priority[r]))
<1> DEFINE keys == Keys(fo, r)
           v == priority[r]
           S2 == S \ {r}
           i == Level(t, keys, 2)
           path == Prefix(keys, i)
           tree == t[path]
           above == Recount(t, keys, i, -1)
           t2 == RBTreeDeleteWithPathCompression(t, keys, v)
<1>1. keys \in Path /\ Len(keys) = Dim /\ Dim \in Nat /\ Dim > 0 /\ S2 \in SUBSET Rule
  BY KeysProperties, RulesAssumption
<1>2. /\ i \in 0 .. Dim
      /\ \A k \in 0 .. i - 1 : Load(fo, S, Prefix(keys, k)) > 2
      /\ i = Dim \/ Load(fo, S, path) <= 2
  <2>1. 2 \in {1, 2}
    OBVIOUS
  <2> HIDE DEF keys
  <2> QED BY <1>1, <2>1, LevelProperties
<1>3. t2 = CASE i = Dim /\ tree.count > 1 ->
                  [above EXCEPT ![path] = PopPriority([tree EXCEPT !.count = tree.count - 1], v)]
             [] i < Dim /\ tree.count = 2 -> Compress(above, path, Survivor(t, path, keys, v))
             [] tree.count = 1 /\ i = 0 -> [above EXCEPT ![path] = RBTreeCreate]
             [] tree.count = 1 /\ i > 0 -> WithoutNode(above, path)
  BY DEF RBTreeDeleteWithPathCompression
<1> HIDE DEF i, t2, v
<1>4. EndsAt(fo, S, keys, 2, i)
  BY <1>2 DEF EndsAt
<1>5. path \in Spelled(fo, S) /\ Load(fo, S, path) >= 1 /\ Load(fo, S, path) \in Nat
  <2>1. path \in Spelled(fo, S) /\ Load(fo, S, path) >= 1
    BY <1>4, EndIsSpelled
  <2> QED BY <2>1, LoadType
<1>6. \A q : q \in Spelled(fo, S2) <=> q \in Spelled(fo, S) /\ ~Leaves(fo, S, q, path, i)
  BY <1>4, SpelledAfterDeletion
<1>7. DOMAIN above = Spelled(fo, S) /\ above = [q \in Spelled(fo, S) |-> above[q]]
  <2>1. DOMAIN t = Spelled(fo, S)
    BY DEF Shape
  <2> QED BY <2>1 DEF Recount
<1>8. tree \in Tree /\ Fits(fo, S, path, tree)
  BY <1>5 DEF Shape
<1>9. /\ Len(path) = i /\ Leads(path, keys)
      /\ r \in Under(fo, S, path) /\ Under(fo, S2, path) = Under(fo, S, path) \ {r}
      /\ Load(fo, S2, path) = Load(fo, S, path) - 1
  <2>1. Len(path) = i /\ Leads(path, keys)
    <3> HIDE DEF keys
    <3> QED BY <1>1, <1>2, LeadsProperties
  <2> QED BY <2>1, LoadAfterDeletion
<1> HIDE DEF path, keys, above, tree, S2
<1>10. tree.count = Load(fo, S, path)
  BY <1>8, FitsMeans
<1> SUFFICES Shape(fo, S2, t2)
  BY DEF t2, keys, v, S2
<1>11. Pruned(fo, S2, above, path, t2) => Shape(fo, S2, t2)
  BY <1>4, DeletionJoins DEF path, keys, above, S2
<1>12. CASE i = Dim /\ Load(fo, S, path) > 1
  <2> DEFINE new == PopPriority([tree EXCEPT !.count = tree.count - 1], v)
  <2>1. path = keys
    <3>1. keys \in Seq(Interval)
      BY <1>1 DEF Path
    <3> QED BY <1>1, <1>12, <3>1, ExtremePrefixes DEF path
  <2>2. new \in Tree /\ Fits(fo, S2, path, new)
    <3>1. tree \in Tree /\ Fits(fo, S, keys, tree) /\ tree.count > 1
      BY <1>8, <1>10, <1>12, <2>1
    <3>2. new \in Tree /\ Fits(fo, S2, keys, new)
      BY ONLY <3>1, r \in S, fo \in FieldOrder, S \in SUBSET Rule, PoppedFits DEF keys, v, S2
    <3> QED BY <2>1, <3>2
  <2> HIDE DEF new
  <2>3. t2 = [above EXCEPT ![path] = new]
    <3>1. ~(i < Dim) /\ tree.count # 1 /\ tree.count > 1 /\ i = Dim
      BY <1>1, <1>5, <1>10, <1>12
    <3> QED BY <1>3, <3>1 DEF new
  <2>4. \A q : q \in Spelled(fo, S2) <=> q \in Spelled(fo, S)
    <3>1. ~(i < Dim) /\ Load(fo, S, path) # 1
      BY <1>1, <1>5, <1>12
    <3>2. \A q : ~Leaves(fo, S, q, path, i)
      BY <3>1 DEF Leaves
    <3> QED BY <1>6, <3>2
  <2>5. Spelled(fo, S2) = Spelled(fo, S)
    BY <2>4
  <2>6. /\ t2 = [q \in Spelled(fo, S2) |-> t2[q]] /\ t2[path] = new
        /\ \A q \in Spelled(fo, S2) : q # path => t2[q] = above[q]
    BY <1>5, <1>7, <2>3, <2>5
  <2>7. Pruned(fo, S2, above, path, t2)
    BY <2>2, <2>6 DEF Pruned
  <2> QED BY <1>11, <2>7
<1>13. CASE i # Dim /\ Load(fo, S, path) = 2
  <2>1. i < Dim /\ i \in 0 .. Dim - 1 /\ ~(i = Dim)
    BY <1>1, <1>2, <1>13
  <2>2. PICK s : Under(fo, S, path) = {r, s} /\ s \in S /\ r # s /\ s \in Rule
    <3> DEFINE rest == Under(fo, S, path) \ {r}
    <3>1. IsFiniteSet(Under(fo, S, path)) /\ Under(fo, S, path) \subseteq S
      BY LoadType
    <3>2. Cardinality(rest) = 1 /\ IsFiniteSet(rest)
      <4>1. Cardinality(rest) = Cardinality(Under(fo, S, path)) - 1 /\ IsFiniteSet(rest)
        BY <1>9, <3>1, FS_RemoveElement
      <4>2. Cardinality(Under(fo, S, path)) = 2
        BY <1>13 DEF Load
      <4> QED BY <4>1, <4>2
    <3> HIDE DEF rest
    <3>3. PICK s : rest = {s}
      BY <3>2, FS_Singleton
    <3> QED BY <1>9, <3>1, <3>3 DEF rest
  <2>3. TwoLeft(fo, S, t, r, s, i)
    BY <2>1, <2>2 DEF TwoLeft, path, keys
  <2> DEFINE new == Single(Rest(Keys(fo, s), i), priority[s])
  <2>4. Survivor(t, path, keys, v) = new
    BY <2>3, SurvivorIsSingle DEF path, keys, v
  <2>5. new \in Tree /\ new.count = 1 /\ new.chain = Rest(Keys(fo, s), i) /\ ListFits({s}, new)
    <3>1. Keys(fo, s) \in Seq(Interval) /\ i \in 0 .. Len(Keys(fo, s))
      BY <1>2, <2>2, KeysProperties
    <3>2. Rest(Keys(fo, s), i) \in Seq(Interval)
      BY <3>1, RestProperties
    <3> QED BY <2>2, <3>2, SingleFits
  <2> HIDE DEF new
  <2>6. Fits(fo, S2, path, new)
    <3>1. Under(fo, S2, path) = {s}
      BY <1>9, <2>2
    <3>2. Load(fo, S2, path) = 1
      BY <1>9, <1>13
    <3> QED BY <1>9, <2>5, <3>1, <3>2, FitsMeans
  <2>7. t2 = Compress(above, path, new)
    <3>1. tree.count = 2
      BY <1>10, <1>13
    <3> QED BY <1>3, <2>1, <2>4, <3>1
  <2>8. \A q : q \in Spelled(fo, S2) <=>
                 q \in Spelled(fo, S) /\ ~(Len(q) > i /\ Prefix(q, i) = path)
    <3>1. \A q : Leaves(fo, S, q, path, i) <=> Len(q) > i /\ Prefix(q, i) = path
      BY <1>13, <2>1 DEF Leaves
    <3> QED BY <1>6, <3>1
  <2>9. Spelled(fo, S2) = {q \in DOMAIN above : ~(Len(q) > Len(path) /\ Prefix(q, Len(path)) = path)}
    BY <1>7, <1>9, <2>8
  <2>10. t2 = [q \in Spelled(fo, S2) |-> IF q = path THEN new ELSE above[q]]
    BY <2>7, <2>9 DEF Compress
  <2>11. /\ t2 = [q \in Spelled(fo, S2) |-> t2[q]]
         /\ path \in Spelled(fo, S2) => t2[path] = new
         /\ \A q \in Spelled(fo, S2) : q # path => t2[q] = above[q]
    BY <2>10
  <2>12. Pruned(fo, S2, above, path, t2)
    BY <2>5, <2>6, <2>11 DEF Pruned
  <2> QED BY <1>11, <2>12
<1>14. CASE Load(fo, S, path) = 1
  <2>1. ~(tree.count > 1) /\ tree.count # 2 /\ tree.count = 1
    BY <1>10, <1>14
  <2>2. \A q : Leaves(fo, S, q, path, i) <=> q = path /\ i > 0
    BY <1>14 DEF Leaves
  <2>3. CASE i = 0
    <3>1. ~(i > 0)
      BY <2>3
    <3>2. t2 = [above EXCEPT ![path] = RBTreeCreate]
      BY <1>3, <2>1, <2>3, <3>1
    <3>3. \A q : q \in Spelled(fo, S2) <=> q \in Spelled(fo, S)
      BY <1>6, <2>2, <3>1
    <3>4. Spelled(fo, S2) = Spelled(fo, S)
      BY <3>3
    <3>5. /\ t2 = [q \in Spelled(fo, S2) |-> t2[q]] /\ t2[path] = RBTreeCreate
          /\ \A q \in Spelled(fo, S2) : q # path => t2[q] = above[q]
      BY <1>5, <1>7, <3>2, <3>4
    <3>6. Load(fo, S2, path) = 0 /\ Under(fo, S2, path) = {}
      <4>1. Load(fo, S2, path) = 0
        BY <1>9, <1>14
      <4> QED BY <1>1, <4>1, LoadType
    <3>7. RBTreeCreate \in Tree /\ Fits(fo, S2, path, RBTreeCreate)
      BY <3>6, CreateFits, FitsMeans
    <3>8. Pruned(fo, S2, above, path, t2)
      BY <3>5, <3>7 DEF Pruned
    <3> QED BY <1>11, <3>8
  <2>4. CASE i > 0
    <3>1. i # 0
      BY <2>4
    <3>2. t2 = WithoutNode(above, path)
      BY <1>3, <2>1, <2>4, <3>1
    <3>3. \A q : q \in Spelled(fo, S2) <=> q \in Spelled(fo, S) /\ q # path
      BY <1>6, <2>2, <2>4
    <3>4. Spelled(fo, S2) = DOMAIN above \ {path}
      BY <1>7, <3>3
    <3>5. t2 = [q \in Spelled(fo, S2) |-> above[q]]
      BY <3>2, <3>4 DEF WithoutNode, Restrict
    <3>6. /\ t2 = [q \in Spelled(fo, S2) |-> t2[q]] /\ path \notin Spelled(fo, S2)
          /\ \A q \in Spelled(fo, S2) : q # path => t2[q] = above[q]
      BY <3>3, <3>5
    <3>7. Pruned(fo, S2, above, path, t2)
      BY <3>6 DEF Pruned
    <3> QED BY <1>11, <3>7
  <2> QED BY <1>1, <1>2, <2>3, <2>4
<1>15. \/ i = Dim /\ Load(fo, S, path) > 1
       \/ i # Dim /\ Load(fo, S, path) = 2
       \/ Load(fo, S, path) = 1
  <2>1. Load(fo, S, path) = 1 \/ Load(fo, S, path) > 1
    BY <1>5
  <2>2. i # Dim /\ Load(fo, S, path) > 1 => Load(fo, S, path) = 2
    BY <1>2, <1>5 DEF path
  <2> QED BY <2>1, <2>2
<1> QED BY <1>12, <1>13, <1>14, <1>15

------------------------------------------------------------------------------
(* The books of the tree                                                   *)

\* The record of an OptimizedMITree, of whose fields the search tree depends on two.
Books(container, n, max, mature) ==
    [ stored : SUBSET Rule, fieldOrder : FieldOrder, priorityContainer : {container},
      numRules : {n}, maxPriority : {max}, isMature : {mature} ]

IsBooks(m) == m \in Books(m.priorityContainer, m.numRules, m.maxPriority, m.isMature)

\* A new tree stores nothing.
LEMMA NewBooks ==
  ASSUME NEW fo \in FieldOrder
  PROVE  IsBooks(NewTree(fo)) /\ NewTree(fo).stored = {} /\ NewTree(fo).fieldOrder = fo
BY DEF IsBooks, Books, NewTree

\* The fields of the books are assigned one by one.
LEMMA AssignBooks ==
  ASSUME NEW c, NEW n, NEW x, NEW b, NEW m \in Books(c, n, x, b)
  PROVE  /\ \A new \in SUBSET Rule : [m EXCEPT !.stored = new] \in Books(c, n, x, b)
         /\ \A new : [m EXCEPT !.priorityContainer = new] \in Books(new, n, x, b)
         /\ \A new : [m EXCEPT !.numRules = new] \in Books(c, new, x, b)
         /\ \A new : [m EXCEPT !.maxPriority = new] \in Books(c, n, new, b)
BY DEF Books

\* Updates of the books keep the field order.
LEMMA BooksAfterUpdate ==
  ASSUME NEW m, IsBooks(m), NEW r \in Rule
  PROVE  /\ /\ IsBooks(Insertion(m, r))
            /\ Insertion(m, r).stored = m.stored \cup {r}
            /\ Insertion(m, r).fieldOrder = m.fieldOrder
         /\ /\ IsBooks(Deletion(m, r))
            /\ Deletion(m, r).stored = m.stored \ {r}
            /\ Deletion(m, r).fieldOrder = m.fieldOrder
<1> DEFINE u == Insertion(m, r)
           d == Deletion(m, r)
           Assigned(S, c, n, x) ==
              [[[[m EXCEPT !.stored = S] EXCEPT !.priorityContainer = c]
                    EXCEPT !.numRules = n] EXCEPT !.maxPriority = x]
<1>1. ASSUME NEW S \in SUBSET Rule, NEW c, NEW n, NEW x
      PROVE  Assigned(S, c, n, x) \in Books(c, n, x, m.isMature)
  <2> DEFINE m1 == [m EXCEPT !.stored = S]
             m2 == [m1 EXCEPT !.priorityContainer = c]
             m3 == [m2 EXCEPT !.numRules = n]
  <2>1. m1 \in Books(m.priorityContainer, m.numRules, m.maxPriority, m.isMature)
    BY AssignBooks DEF IsBooks
  <2>2. m2 \in Books(c, m.numRules, m.maxPriority, m.isMature)
    <3> HIDE DEF m1
    <3> QED BY <2>1, AssignBooks
  <2>3. m3 \in Books(c, n, m.maxPriority, m.isMature)
    <3> HIDE DEF m2
    <3> QED BY <2>2, AssignBooks
  <2>4. [m3 EXCEPT !.maxPriority = x] \in Books(c, n, x, m.isMature)
    <3> HIDE DEF m3
    <3> QED BY <2>3, AssignBooks
  <2> QED BY <2>4
<1>2. /\ u = Assigned(u.stored, u.priorityContainer, u.numRules, u.maxPriority)
      /\ u.stored = m.stored \cup {r} /\ u.fieldOrder = m.fieldOrder /\ u.isMature = m.isMature
  BY DEF Insertion, IsBooks, Books
<1> DEFINE container == [m.priorityContainer EXCEPT ![priority[r]] =
                            m.priorityContainer[priority[r]] - 1]
<1>3. d = Assigned(m.stored \ {r}, container, m.numRules - 1, d.maxPriority)
  BY DEF Deletion, IsBooks, Books
<1>7. /\ d.stored = m.stored \ {r} /\ d.fieldOrder = m.fieldOrder /\ d.isMature = m.isMature
      /\ d.priorityContainer = container /\ d.numRules = m.numRules - 1
  BY DEF Deletion, IsBooks, Books
<1>4. m.stored \cup {r} \in SUBSET Rule /\ m.stored \ {r} \in SUBSET Rule
  BY DEF IsBooks, Books
<1> HIDE DEF u, d, Assigned, container
<1>5. IsBooks(u)
  BY <1>1, <1>2, <1>4 DEF IsBooks
<1>6. IsBooks(d)
  BY <1>1, <1>3, <1>4, <1>7 DEF IsBooks
<1> QED BY <1>2, <1>5, <1>6, <1>7 DEF u, d

------------------------------------------------------------------------------
(* Where the paths of the stored rules end                                 *)

\* The descent along the keys of a stored rule ends at the i-th level: all paths
\* on the way exist and lead to more than one rule.
RuleEndsAt(fo, S, t, r, i) ==
    /\ i \in 0 .. Dim
    /\ \A k \in 0 .. i : /\ Prefix(Keys(fo, r), k) \in DOMAIN t
                         /\ r \in Under(fo, S, Prefix(Keys(fo, r), k))
    /\ \A k \in 0 .. i - 1 : Load(fo, S, Prefix(Keys(fo, r), k)) > 1
    /\ i = Dim \/ Load(fo, S, Prefix(Keys(fo, r), i)) = 1

\* Every stored rule has such a level.
LEMMA RuleHasAnEnd ==
  ASSUME NEW fo \in FieldOrder, NEW S \in SUBSET Rule, NEW t, Shape(fo, S, t), NEW r \in S
  PROVE  \E i : RuleEndsAt(fo, S, t, r, i)
<1> DEFINE keys == Keys(fo, r)
           i == Level(t, keys, 1)
<1>1. keys \in Path /\ Len(keys) = Dim /\ Dim \in Nat
  BY KeysProperties, RulesAssumption
<1>2. /\ i \in 0 .. Dim
      /\ \A k \in 0 .. i - 1 : Load(fo, S, Prefix(keys, k)) > 1
      /\ i = Dim \/ Load(fo, S, Prefix(keys, i)) <= 1
      /\ Load(fo, S, Prefix(keys, i)) > 0 => Prefix(keys, i) \in Spelled(fo, S)
  <2>1. 1 \in {1, 2}
    OBVIOUS
  <2> HIDE DEF keys
  <2> QED BY <1>1, <2>1, LevelProperties
<1> HIDE DEF i
<1>3. DOMAIN t = Spelled(fo, S)
  BY DEF Shape
<1>4. ASSUME NEW k \in 0 .. i
      PROVE  /\ k \in 0 .. Dim /\ r \in Under(fo, S, Prefix(keys, k))
             /\ Load(fo, S, Prefix(keys, k)) \in Nat /\ Load(fo, S, Prefix(keys, k)) > 0
  <2>1. k \in 0 .. Dim
    BY <1>1, <1>2
  <2>2. Leads(Prefix(keys, k), keys)
    <3> HIDE DEF keys
    <3> QED BY <1>1, <2>1, LeadsProperties
  <2>3. r \in Under(fo, S, Prefix(keys, k))
    BY <2>2, LoadType
  <2>4. Load(fo, S, Prefix(keys, k)) \in Nat /\ Load(fo, S, Prefix(keys, k)) # 0
    BY <2>3, LoadType
  <2> QED BY <2>1, <2>3, <2>4
<1>5. ASSUME NEW k \in 0 .. i
      PROVE  Prefix(keys, k) \in Spelled(fo, S)
  <2>1. CASE k = i
    BY <1>2, <1>4, <2>1
  <2>2. CASE k # i
    <3>1. k \in 0 .. i - 1 /\ k \in 0 .. Dim
      BY <1>2, <1>4, <2>2
    <3>2. Prefix(keys, k) \in Path /\ k = 0 => Prefix(keys, k) = <<>>
      <4> HIDE DEF keys
      <4> QED BY <1>1, <3>1, LeadsProperties
    <3>3. CASE k = 0
      <4>1. Prefix(keys, k) = <<>> /\ Prefix(keys, k) \in Path
        <5> HIDE DEF keys
        <5> QED BY <1>1, <3>1, <3>3, LeadsProperties
      <4> QED BY <4>1, SpelledMeans
    <3>4. CASE k > 0
      <4>1. Prefix(keys, k) \in Path /\ Parent(Prefix(keys, k)) = Prefix(keys, k - 1)
        <5> HIDE DEF keys
        <5> QED BY <1>1, <3>1, <3>4, LeadsProperties
      <4>2. k - 1 \in 0 .. i - 1
        BY <1>2, <3>1, <3>4
      <4>3. Load(fo, S, Prefix(keys, k - 1)) > 1 /\ Load(fo, S, Prefix(keys, k)) > 0
        BY <1>2, <1>4, <4>2
      <4> QED BY <4>1, <4>3, SpelledMeans
    <3> QED BY <3>1, <3>3, <3>4
  <2> QED BY <2>1, <2>2
<1>6. i = Dim \/ Load(fo, S, Prefix(keys, i)) = 1
  <2>1. i \in 0 .. i
    BY <1>2
  <2>2. Load(fo, S, Prefix(keys, i)) \in Nat /\ Load(fo, S, Prefix(keys, i)) > 0
    BY <1>4, <2>1
  <2> QED BY <1>2, <2>2
<1>7. RuleEndsAt(fo, S, t, r, i)
  BY <1>2, <1>3, <1>4, <1>5, <1>6 DEF RuleEndsAt
<1> QED BY <1>7

\* What is found at the end of a path: the rules under it, all with the keys
\* that the path and the chain spell.
EndHolds(fo, S, t, e) ==
    /\ e \in Path /\ t[e] \in Tree
    /\ Under(fo, S, e) \in SUBSET S /\ Under(fo, S, e) # {}
    /\ \A r \in Under(fo, S, e) : Keys(fo, r) = e \o t[e].chain
    /\ ListFits(Under(fo, S, e), t[e])

\* That is so at every end.
LEMMA EndMeans ==
  ASSUME NEW fo \in FieldOrder, NEW S \in SUBSET Rule, NEW t, Shape(fo, S, t), NEW e \in Ends(t)
  PROVE  /\ EndHolds(fo, S, t, e)
         /\ e \in Spelled(fo, S) /\ (Len(e) = Dim \/ Load(fo, S, e) = 1)
<1>1. e \in Spelled(fo, S) /\ t[e] \in Tree /\ Fits(fo, S, e, t[e]) /\ (Len(e) = Dim \/ t[e].count = 1)
  BY DEF Ends, Shape
<1>2. /\ t[e].count = Load(fo, S, e)
      /\ Load(fo, S, e) # 1 => t[e].chain = <<>>
      /\ \A r \in Under(fo, S, e) : Load(fo, S, e) = 1 => t[e].chain = Rest(Keys(fo, r), Len(e))
      /\ Load(fo, S, e) <= 1 \/ Len(e) = Dim => ListFits(Under(fo, S, e), t[e])
  BY <1>1, FitsMeans
<1>3. e \in Path /\ e \in Seq(Interval) /\ Len(e) \in 0 .. Dim /\ Dim \in Nat /\ Dim > 0
  <2>1. e \in Path /\ Dim \in Nat /\ Dim > 0
    BY <1>1, SpelledMeans, RulesAssumption
  <2> QED BY <2>1 DEF Path
<1>4. Len(e) = Dim \/ Load(fo, S, e) = 1
  BY <1>1, <1>2
<1>5. Load(fo, S, e) # 0
  <2>1. e # <<>> => Load(fo, S, e) > 0
    BY <1>1, SpelledMeans
  <2>2. e = <<>> => Load(fo, S, e) = 1
    BY <1>3, <1>4
  <2>3. Load(fo, S, e) \in Nat
    BY LoadType
  <2> QED BY <2>1, <2>2, <2>3
<1>6. Under(fo, S, e) \in SUBSET S /\ Under(fo, S, e) # {}
  BY <1>5, LoadType
<1>7. ListFits(Under(fo, S, e), t[e])
  BY <1>2, <1>4
<1>8. ASSUME NEW r \in Under(fo, S, e)
      PROVE  Keys(fo, r) = e \o t[e].chain
  <2>1. r \in Rule /\ Leads(e, Keys(fo, r))
    <3>1. r \in S
      BY <1>6
    <3> QED BY <3>1, LoadType
  <2>2. Keys(fo, r) \in Seq(Interval) /\ Len(Keys(fo, r)) = Dim
    BY <2>1, KeysProperties
  <2>3. Prefix(Keys(fo, r), Len(e)) \o Rest(Keys(fo, r), Len(e)) = Keys(fo, r)
    BY <1>3, <2>2, PrefixAndRest
  <2>4. Prefix(Keys(fo, r), Len(e)) = e
    BY <2>1 DEF Leads
  <2>5. CASE Load(fo, S, e) = 1
    BY <1>2, <2>3, <2>4, <2>5
  <2>6. CASE Load(fo, S, e) # 1
    <3>1. t[e].chain = <<>> /\ Len(e) = Dim
      BY <1>2, <1>4, <2>6
    <3>2. Keys(fo, r) = e
      BY <2>2, <2>4, <3>1, ExtremePrefixes
    <3>3. e \o <<>> = e
      BY <1>3
    <3> QED BY <3>1, <3>2, <3>3
  <2> QED BY <2>5, <2>6
<1>9. EndHolds(fo, S, t, e)
  BY <1>1, <1>3, <1>6, <1>7, <1>8 DEF EndHolds
<1> QED BY <1>1, <1>4, <1>9

\* Every stored rule is under an end.
LEMMA RuleIsUnderAnEnd ==
  ASSUME NEW fo \in FieldOrder, NEW S \in SUBSET Rule, NEW t, Shape(fo, S, t), NEW r \in S
  PROVE  \E e \in Ends(t) : r \in Under(fo, S, e)
<1> DEFINE keys == Keys(fo, r)
<1>1. PICK i : RuleEndsAt(fo, S, t, r, i)
  BY RuleHasAnEnd
<1> DEFINE e == Prefix(keys, i)
<1>2. /\ i \in 0 .. Dim /\ i \in 0 .. i /\ e \in DOMAIN t /\ r \in Under(fo, S, e)
      /\ i = Dim \/ Load(fo, S, e) = 1
  <2>1. i \in 0 .. Dim /\ i \in 0 .. i /\ (i = Dim \/ Load(fo, S, e) = 1)
    BY <1>1 DEF RuleEndsAt
  <2> QED BY <1>1, <2>1 DEF RuleEndsAt
<1>3. Len(e) = i
  BY <1>2, KeysProperties, LeadsProperties
<1>4. t[e].count = Load(fo, S, e)
  BY <1>2, FitsMeans DEF Shape
<1> HIDE DEF e
<1>5. e \in Ends(t)
  BY <1>2, <1>3, <1>4 DEF Ends
<1> QED BY <1>2, <1>5

\* A stored rule is under one end only.
LEMMA EndsAreApart ==
  ASSUME NEW fo \in FieldOrder, NEW S \in SUBSET Rule, NEW t, Shape(fo, S, t),
         NEW e \in Ends(t), NEW f \in Ends(t),
         NEW r \in Under(fo, S, e), r \in Under(fo, S, f)
  PROVE  e = f
<1> DEFINE keys == Keys(fo, r)
<1>1. /\ \A g \in {e, f} : /\ g \in Path /\ g \in Spelled(fo, S)
                           /\ Len(g) = Dim \/ Load(fo, S, g) = 1
      /\ r \in S /\ r \in Rule
  BY EndMeans DEF EndHolds
<1>2. \A g \in {e, f} : g = Prefix(keys, Len(g)) /\ Len(g) \in 0 .. Dim
  <2>1. \A g \in {e, f} : Leads(g, keys)
    BY <1>1, LoadType
  <2> QED BY <1>1, <2>1 DEF Leads, Path
<1>3. ASSUME NEW g \in {e, f}, NEW h \in {e, f}, Len(g) < Len(h)
      PROVE  FALSE
  <2>1. keys \in Path /\ Len(keys) = Dim /\ Dim \in Nat
    BY <1>1, KeysProperties, RulesAssumption
  <2>2. Len(g) \in 0 .. Dim /\ Len(h) \in 0 .. Dim /\ Len(h) > 0 /\ Len(g) \in 0 .. Len(h) - 1
        /\ Len(h) - 1 \in 0 .. Dim /\ Len(g) # Dim
    BY <1>2, <1>3, <2>1
  <2>3. h # <<>> /\ Parent(h) = Prefix(keys, Len(h) - 1)
    <3> DEFINE n == Len(h)
    <3>1. n \in 0 .. Dim /\ n > 0 /\ h = Prefix(keys, n)
      BY <1>2, <2>2
    <3> HIDE DEF n, keys
    <3>2. h # <<>> /\ Parent(h) = Prefix(keys, n - 1)
      BY <2>1, <3>1, LeadsProperties
    <3> QED BY <3>2 DEF n
  <2>4. Load(fo, S, Parent(h)) > 1
    BY <1>1, <2>3, SpelledMeans
  <2>5. Load(fo, S, Prefix(keys, Len(h) - 1)) <= Load(fo, S, Prefix(keys, Len(g)))
    <3> HIDE DEF keys
    <3> QED BY <2>1, <2>2, LoadShrinks
  <2>6. Load(fo, S, g) = 1
    BY <1>1, <2>2
  <2>7. Load(fo, S, Prefix(keys, Len(h) - 1)) > 1 /\ Load(fo, S, Prefix(keys, Len(g))) = 1
    BY <1>2, <2>3, <2>4, <2>6
  <2>8. Load(fo, S, Prefix(keys, Len(h) - 1)) \in Nat
    <3> HIDE DEF keys
    <3> QED BY LoadType, ZenonT(60)
  <2> QED BY <2>5, <2>7, <2>8
<1>4. Len(e) = Len(f)
  <2>1. Len(e) \in Int /\ Len(f) \in Int /\ ~(Len(e) < Len(f)) /\ ~(Len(f) < Len(e))
    BY <1>2, <1>3
  <2> QED BY <2>1
<1> QED BY <1>2, <1>4

------------------------------------------------------------------------------
(* Rules that can be stored together                                       *)

\* At the first level where two sequences of keys differ, the keys are disjoint.
Separable(a, b) ==
    \A i \in 0 .. Dim - 1 : Prefix(a, i) = Prefix(b, i) =>
        a[i + 1] = b[i + 1] \/ ~Intersect(a[i + 1], b[i + 1])

\* That is what Sortable says of two rules.
LEMMA SortableMeans ==
  ASSUME NEW fo \in FieldOrder, NEW r \in Rule, NEW s \in Rule
  PROVE  Sortable(fo, r, s) <=> Separable(Keys(fo, r), Keys(fo, s))
<1> DEFINE a == Keys(fo, r)
           b == Keys(fo, s)
<1>1. /\ a \in Seq(Interval) /\ b \in Seq(Interval) /\ Len(a) = Dim /\ Len(b) = Dim
      /\ \A i \in Field : a[i] = range[r][fo[i]] /\ b[i] = range[s][fo[i]]
  BY KeysProperties
<1>2. Dim \in Nat /\ Field = 1 .. Dim
  BY RulesAssumption DEF Field
<1>3. ASSUME NEW i \in Field
      PROVE  /\ Identical(r, s, fo[i]) <=> a[i] = b[i]
             /\ Disjoint(r, s, fo[i]) <=> ~Intersect(a[i], b[i])
  <2>1. a[i] \in Interval /\ b[i] \in Interval
    BY <1>1, <1>2
  <2>2. a[i][1] \in Nat /\ a[i][2] \in Nat /\ b[i][1] \in Nat /\ b[i][2] \in Nat
    BY <2>1 DEF Interval
  <2>3. a[i] = range[r][fo[i]] /\ b[i] = range[s][fo[i]]
    BY <1>1
  <2> HIDE DEF a, b
  <2> QED BY <2>2, <2>3 DEF Identical, Disjoint, Intersect, Low, High
<1> HIDE DEF a, b
<1>4. ASSUME NEW i \in Field
      PROVE  (\A j \in 1 .. i - 1 : Identical(r, s, fo[j])) <=> Prefix(a, i - 1) = Prefix(b, i - 1)
  <2>1. i - 1 \in Nat /\ i - 1 <= Len(a) /\ i - 1 <= Len(b) /\ 1 .. i - 1 \subseteq Field
    BY <1>1, <1>2
  <2>2. Prefix(a, i - 1) = Prefix(b, i - 1) <=> \A j \in 1 .. i - 1 : a[j] = b[j]
    BY <1>1, <2>1, SamePrefix
  <2> QED BY <1>3, <2>1, <2>2
<1>5. ASSUME Sortable(fo, r, s) PROVE Separable(a, b)
  <2> SUFFICES ASSUME NEW i \in 0 .. Dim - 1, Prefix(a, i) = Prefix(b, i)
               PROVE  a[i + 1] = b[i + 1] \/ ~Intersect(a[i + 1], b[i + 1])
    BY DEF Separable
  <2>1. i + 1 \in Field /\ (i + 1) - 1 = i
    BY <1>2
  <2>2. \A j \in 1 .. (i + 1) - 1 : Identical(r, s, fo[j])
    BY <1>4, <2>1
  <2>3. Identical(r, s, fo[i + 1]) \/ Disjoint(r, s, fo[i + 1])
    BY <1>5, <2>1, <2>2 DEF Sortable
  <2> QED BY <1>3, <2>1, <2>3
<1>6. ASSUME Separable(a, b) PROVE Sortable(fo, r, s)
  <2> SUFFICES ASSUME NEW i \in Field, \A j \in 1 .. i - 1 : Identical(r, s, fo[j])
               PROVE  Identical(r, s, fo[i]) \/ Disjoint(r, s, fo[i])
    BY DEF Sortable
  <2>1. i - 1 \in 0 .. Dim - 1 /\ (i - 1) + 1 = i
    BY <1>2
  <2>2. Prefix(a, i - 1) = Prefix(b, i - 1)
    BY <1>4
  <2>3. a[(i - 1) + 1] = b[(i - 1) + 1] \/ ~Intersect(a[(i - 1) + 1], b[(i - 1) + 1])
    BY <1>6, <2>1, <2>2 DEF Separable
  <2> QED BY <1>3, <2>1, <2>3
<1> QED BY <1>5, <1>6 DEF a, b

\* Keys that can be stored together and intersect at all levels down to the n-th
\* are the same down to that level.
LEMMA IntersectingAgree ==
  ASSUME NEW a \in Seq(Interval), NEW b \in Seq(Interval), Len(a) = Dim, Len(b) = Dim,
         Separable(a, b), NEW n \in 0 .. Dim, \A i \in 1 .. n : Intersect(a[i], b[i])
  PROVE  Prefix(a, n) = Prefix(b, n)
<1>1. Dim \in Nat
  BY RulesAssumption
<1>2. SUFFICES \A i \in 1 .. n : a[i] = b[i]
  <2>1. n \in Nat /\ n <= Len(a) /\ n <= Len(b)
    BY <1>1
  <2> QED BY <2>1, <1>2, SamePrefix
<1>3. SUFFICES ASSUME NEW j \in 1 .. n, a[j] # b[j] PROVE FALSE
  OBVIOUS
<1> DEFINE D == {i \in 1 .. n : a[i] # b[i]}
<1>4. PICK k \in D : \A i \in D : ~(i < k)
  <2>1. D \in SUBSET Nat /\ D # {}
    BY <1>3
  <2> HIDE DEF D
  <2> QED BY <2>1, LeastNatural
<1>5. k \in 1 .. n /\ a[k] # b[k] /\ \A i \in 1 .. k - 1 : a[i] = b[i]
  BY <1>1, <1>4
<1> HIDE DEF D
<1>6. k - 1 \in Nat /\ k - 1 <= Len(a) /\ k - 1 <= Len(b) /\ k - 1 \in 0 .. Dim - 1 /\ (k - 1) + 1 = k
  BY <1>1, <1>5
<1>7. Prefix(a, k - 1) = Prefix(b, k - 1)
  BY <1>5, <1>6, SamePrefix
<1>8. a[(k - 1) + 1] = b[(k - 1) + 1] \/ ~Intersect(a[(k - 1) + 1], b[(k - 1) + 1])
  BY <1>6, <1>7 DEF Separable
<1> QED BY <1>5, <1>6, <1>8

\* The chain of a single rule is compared below the levels they share.
LEMMA ChainIsSeparable ==
  ASSUME NEW a \in Seq(Interval), NEW b \in Seq(Interval), Len(a) = Dim, Len(b) = Dim,
         NEW j \in 0 .. Dim - 1, Prefix(a, j) = Prefix(b, j)
  PROVE  ChainCanInsert(Rest(b, j), Rest(a, j)) <=> Separable(a, b)
<1> DEFINE c == Rest(b, j)
           d == Rest(a, j)
<1>1. Dim \in Nat /\ j \in Nat /\ j < Dim /\ j \in 0 .. Dim
  BY RulesAssumption
<1>2. /\ c \in Seq(Interval) /\ d \in Seq(Interval) /\ Len(c) = Dim - j /\ Len(d) = Dim - j
      /\ \A k \in 1 .. Dim - j : c[k] = b[j + k] /\ d[k] = a[j + k]
      /\ DOMAIN d = 1 .. Dim - j
  <2>1. j \in 0 .. Len(a) /\ j \in 0 .. Len(b)
    BY <1>1
  <2>2. /\ c \in Seq(Interval) /\ Len(c) = Len(b) - j
        /\ \A k \in 1 .. Len(b) - j : c[k] = b[j + k]
    BY <2>1, RestProperties
  <2>3. /\ d \in Seq(Interval) /\ Len(d) = Len(a) - j
        /\ \A k \in 1 .. Len(a) - j : d[k] = a[j + k]
        /\ DOMAIN d = 1 .. Len(a) - j
    BY <2>1, RestProperties
  <2> HIDE DEF c, d
  <2> QED BY <2>2, <2>3
<1> HIDE DEF c, d
<1>3. \A i \in 1 .. j : a[i] = b[i]
  <2>1. j \in Nat /\ j <= Len(a) /\ j <= Len(b)
    BY <1>1
  <2> QED BY <2>1, SamePrefix
<1>4. ASSUME NEW k \in 1 .. Dim - j
      PROVE  Prefix(d, k - 1) = Prefix(c, k - 1) <=> Prefix(a, j + k - 1) = Prefix(b, j + k - 1)
  <2>1. /\ k - 1 \in Nat /\ k - 1 <= Len(c) /\ k - 1 <= Len(d) /\ j + k - 1 \in Nat
        /\ j + k - 1 <= Len(a) /\ j + k - 1 <= Len(b)
    BY <1>1, <1>2
  <2>2. Prefix(d, k - 1) = Prefix(c, k - 1) <=> \A i \in 1 .. k - 1 : d[i] = c[i]
    BY ONLY <1>2, <2>1, SamePrefix, ZenonT(60)
  <2>3. Prefix(a, j + k - 1) = Prefix(b, j + k - 1) <=> \A i \in 1 .. j + k - 1 : a[i] = b[i]
    BY <2>1, SamePrefix
  <2>4. ASSUME \A i \in 1 .. k - 1 : d[i] = c[i], NEW i \in 1 .. j + k - 1 PROVE a[i] = b[i]
    <3>1. CASE i <= j
      BY <1>1, <1>3, <3>1
    <3>2. CASE ~(i <= j)
      <4>1. i - j \in 1 .. k - 1 /\ i - j \in 1 .. Dim - j /\ j + (i - j) = i
        BY <1>1, <2>1, <3>2
      <4> QED BY <1>2, <2>4, <4>1
    <3> QED BY <3>1, <3>2
  <2>5. ASSUME \A i \in 1 .. j + k - 1 : a[i] = b[i], NEW i \in 1 .. k - 1 PROVE d[i] = c[i]
    <3>1. i \in 1 .. Dim - j /\ j + i \in 1 .. j + k - 1
      BY <1>1, <2>1
    <3> QED BY <1>2, <2>5, <3>1
  <2> QED BY <2>2, <2>3, <2>4, <2>5
<1>5. ASSUME ChainCanInsert(c, d) PROVE Separable(a, b)
  <2> SUFFICES ASSUME NEW i \in 0 .. Dim - 1, Prefix(a, i) = Prefix(b, i), a[i + 1] # b[i + 1]
               PROVE  ~Intersect(a[i + 1], b[i + 1])
    BY DEF Separable
  <2>1. i >= j
    <3>1. i < j => i + 1 \in 1 .. j
      BY <1>1
    <3> QED BY <1>1, <1>3, <3>1
  <2>2. (i + 1) - j \in 1 .. Dim - j /\ j + ((i + 1) - j) = i + 1 /\ j + ((i + 1) - j) - 1 = i
    BY <1>1, <2>1
  <2> DEFINE k == (i + 1) - j
  <2>3. k \in 1 .. Dim - j /\ j + k = i + 1 /\ j + k - 1 = i
    BY <2>2
  <2> HIDE DEF k
  <2>4. Prefix(d, k - 1) = Prefix(c, k - 1)
    BY <1>4, <2>3
  <2>5. d[k] = a[i + 1] /\ c[k] = b[i + 1] /\ k \in DOMAIN d
    BY <1>2, <2>3
  <2>6. d[k] # c[k]
    BY <2>5
  <2>7. ~Intersect(d[k], c[k])
    BY <1>5, <2>4, <2>5, <2>6 DEF ChainCanInsert
  <2> QED BY <2>5, <2>7
<1>6. ASSUME Separable(a, b) PROVE ChainCanInsert(c, d)
  <2> SUFFICES ASSUME NEW k \in 1 .. Dim - j, d[k] # c[k], Prefix(d, k - 1) = Prefix(c, k - 1)
               PROVE  ~Intersect(d[k], c[k])
    BY <1>2 DEF ChainCanInsert
  <2>1. j + k - 1 \in 0 .. Dim - 1 /\ (j + k - 1) + 1 = j + k
    BY <1>1
  <2>2. Prefix(a, j + k - 1) = Prefix(b, j + k - 1)
    BY <1>4
  <2> DEFINE i == j + k - 1
  <2>3. i \in 0 .. Dim - 1 /\ i + 1 = j + k /\ Prefix(a, i) = Prefix(b, i)
    BY <2>1, <2>2
  <2> HIDE DEF i
  <2>4. a[i + 1] = b[i + 1] \/ ~Intersect(a[i + 1], b[i + 1])
    BY <1>6, <2>3 DEF Separable
  <2>5. d[k] = a[i + 1] /\ c[k] = b[i + 1]
    BY <1>2, <2>3
  <2> QED BY <2>4, <2>5
<1> QED BY <1>5, <1>6 DEF c, d

\* Two sequences of keys that agree so far agree one level more when their next
\* keys are the same.
LEMMA NextPrefix ==
  ASSUME NEW a \in Seq(Interval), NEW b \in Seq(Interval), Len(a) = Dim, Len(b) = Dim,
         NEW i \in 0 .. Dim - 1
  PROVE  /\ Prefix(a, i + 1) = Prefix(b, i + 1) <=> Prefix(a, i) = Prefix(b, i) /\ a[i + 1] = b[i + 1]
         /\ Len(Prefix(a, i + 1)) = i + 1 /\ Prefix(Prefix(a, i + 1), i) = Prefix(a, i)
         /\ Prefix(a, i + 1)[i + 1] = a[i + 1]
<1>1. Dim \in Nat
  BY RulesAssumption
<1>2. /\ i \in Nat /\ i <= Len(a) /\ i <= Len(b)
      /\ i + 1 \in Nat /\ i + 1 <= Len(a) /\ i + 1 <= Len(b)
      /\ i + 1 \in 0 .. Len(a) /\ i \in 0 .. i + 1 /\ i + 1 \in 1 .. i + 1
  BY <1>1
<1>3. Prefix(a, i) = Prefix(b, i) <=> \A k \in 1 .. i : a[k] = b[k]
  BY <1>2, SamePrefix
<1>4. Prefix(a, i + 1) = Prefix(b, i + 1) <=> \A k \in 1 .. i + 1 : a[k] = b[k]
  BY <1>2, SamePrefix
<1>5. \A k \in Int : k \in 1 .. i + 1 <=> k \in 1 .. i \/ k = i + 1
  BY <1>2
<1>6. Len(Prefix(a, i + 1)) = i + 1 /\ Prefix(a, i + 1)[i + 1] = a[i + 1]
  BY <1>2, PrefixProperties
<1>7. Prefix(Prefix(a, i + 1), i) = Prefix(a, i)
  BY <1>2, PrefixOfPrefix
<1> QED BY <1>3, <1>4, <1>5, <1>6, <1>7

\* Below the top, a path exists for the rules under it.
LEMMA PathHasARule ==
  ASSUME NEW fo \in FieldOrder, NEW S \in SUBSET Rule, NEW q \in Spelled(fo, S), q # <<>>
  PROVE  \E s \in S : q = Prefix(Keys(fo, s), Len(q))
<1>1. Load(fo, S, q) > 0
  BY SpelledMeans
<1>2. Load(fo, S, q) # 0
  BY <1>1
<1>3. PICK s \in Under(fo, S, q) : TRUE
  BY <1>2, LoadType
<1>4. s \in S /\ Leads(q, Keys(fo, s))
  BY <1>3, LoadType
<1> QED BY <1>4 DEF Leads

\* RBTreeCanInsert agrees to what can be stored with every rule there is.
LEMMA AgreedIsSeparable ==
  ASSUME NEW fo \in FieldOrder, NEW S \in SUBSET Rule, NEW t, Shape(fo, S, t),
         \A p, q \in S : Sortable(fo, p, q), NEW r \in Rule,
         RBTreeCanInsert(t, Keys(fo, r)), NEW s \in S
  PROVE  Separable(Keys(fo, r), Keys(fo, s))
<1> DEFINE a == Keys(fo, r)
           b == Keys(fo, s)
<1>1. /\ a \in Seq(Interval) /\ b \in Seq(Interval) /\ Len(a) = Dim /\ Len(b) = Dim
      /\ Dim \in Nat /\ s \in Rule
  BY KeysProperties, RulesAssumption
<1>2. DOMAIN t = Spelled(fo, S)
  BY DEF Shape
<1>3. SUFFICES ASSUME NEW i \in 0 .. Dim - 1, Prefix(a, i) = Prefix(b, i), a[i + 1] # b[i + 1]
               PROVE  ~Intersect(a[i + 1], b[i + 1])
  BY DEF Separable
<1>4. PICK j : RuleEndsAt(fo, S, t, s, j)
  BY RuleHasAnEnd
<1>5. /\ j \in 0 .. Dim
      /\ \A k \in 0 .. j : Prefix(b, k) \in DOMAIN t /\ s \in Under(fo, S, Prefix(b, k))
      /\ \A k \in 0 .. j - 1 : Load(fo, S, Prefix(b, k)) > 1
      /\ j = Dim \/ Load(fo, S, Prefix(b, j)) = 1
  BY <1>4 DEF RuleEndsAt
<1>6. CASE j <= i
  <2>1. /\ j \in 0 .. j /\ j \in 0 .. Dim - 1 /\ j \in 0 .. i /\ i \in 0 .. Len(a) /\ i \in 0 .. Len(b)
        /\ j # Dim /\ j \in 0 .. Dim
    BY <1>1, <1>5, <1>6
  <2>2. Prefix(a, j) = Prefix(b, j)
    <3>1. Prefix(Prefix(a, i), j) = Prefix(a, j) /\ Prefix(Prefix(b, i), j) = Prefix(b, j)
      <4> HIDE DEF a, b
      <4> QED BY <1>1, <2>1, PrefixOfPrefix
    <3> QED BY <1>3, <3>1
  <2> DEFINE e == Prefix(b, j)
  <2>3. e \in DOMAIN t /\ s \in Under(fo, S, e) /\ Load(fo, S, e) = 1 /\ Len(e) = j
    <3>1. Len(e) = j
      BY <1>1, <2>1, PrefixProperties
    <3> QED BY <1>5, <2>1, <3>1
  <2> HIDE DEF e
  <2>4. t[e].count = 1 /\ t[e].chain = Rest(b, j)
    <3>1. Fits(fo, S, e, t[e])
      BY <1>2, <2>3 DEF Shape
    <3>2. /\ t[e].count = Load(fo, S, e)
          /\ \A p \in Under(fo, S, e) : Load(fo, S, e) = 1 => t[e].chain = Rest(Keys(fo, p), Len(e))
      BY <3>1, FitsMeans
    <3> QED BY <2>3, <3>2
  <2>5. Prefix(a, j) = e
    BY <2>2 DEF e
  <2>6. ChainCanInsert(Rest(b, j), Rest(a, j))
    <3>1. Prefix(a, j) \in DOMAIN t /\ t[Prefix(a, j)].count = 1
      BY <2>3, <2>4, <2>5
    <3>2. ChainCanInsert(t[Prefix(a, j)].chain, Rest(a, j))
      BY <2>1, <3>1 DEF RBTreeCanInsert
    <3> QED BY <2>4, <2>5, <3>2
  <2>7. Separable(a, b)
    <3> HIDE DEF a, b
    <3> QED BY <1>1, <2>1, <2>2, <2>6, ChainIsSeparable
  <2> QED BY <1>3, <2>7 DEF Separable
<1>7. CASE ~(j <= i)
  <2>1. i \in 0 .. j /\ i \in 0 .. j - 1 /\ i + 1 \in 0 .. j /\ i \in 0 .. Dim
    BY <1>1, <1>5, <1>7
  <2> DEFINE P == Prefix(a, i)
             Q == Prefix(a, i + 1)
  <2>2. P = Prefix(b, i)
    BY <1>3
  <2>3. P \in DOMAIN t /\ Load(fo, S, P) > 1 /\ Prefix(b, i + 1) \in DOMAIN t /\ Len(P) = i
    <3>1. Len(P) = i
      BY <1>1, <2>1, PrefixProperties
    <3> QED BY <1>5, <2>1, <2>2, <3>1
  <2>4. t[P].count # 1
    <3>1. t[P].count = Load(fo, S, P)
      BY <1>2, <2>3, FitsMeans DEF Shape
    <3>2. Load(fo, S, P) # 1
      BY <2>3
    <3> QED BY <3>1, <3>2
  <2>5. Q \in DOMAIN t \/ \A q \in Below(t, P) : ~Intersect(q[i + 1], a[i + 1])
    BY <2>3, <2>4 DEF RBTreeCanInsert
  <2>6. CASE Q \in DOMAIN t
    <3>1. Len(Q) = i + 1 /\ Q # <<>>
      <4>1. Len(Q) = i + 1
        <5> HIDE DEF a
        <5> QED BY <1>1, NextPrefix
      <4> HIDE DEF Q
      <4>2. i + 1 # 0
        BY <2>1
      <4> QED BY <4>1, <4>2
    <3>2. PICK p \in S : Q = Prefix(Keys(fo, p), Len(Q))
      BY <1>2, <2>6, <3>1, PathHasARule
    <3> DEFINE c == Keys(fo, p)
    <3>3. c \in Seq(Interval) /\ Len(c) = Dim /\ Prefix(c, i + 1) = Prefix(a, i + 1) /\ p \in Rule
      BY <3>1, <3>2, KeysProperties
    <3>4. Separable(c, b)
      BY <1>1, <3>3, SortableMeans
    <3> HIDE DEF c, a, b
    <3>5. Prefix(c, i) = Prefix(a, i) /\ c[i + 1] = a[i + 1]
      BY <1>1, <3>3, NextPrefix
    <3>6. c[i + 1] = b[i + 1] \/ ~Intersect(c[i + 1], b[i + 1])
      BY <1>3, <3>4, <3>5 DEF Separable
    <3> QED BY <1>3, <3>5, <3>6
  <2>7. CASE \A q \in Below(t, P) : ~Intersect(q[i + 1], a[i + 1])
    <3> DEFINE q == Prefix(b, i + 1)
    <3>1. Len(q) = i + 1 /\ Prefix(q, i) = Prefix(b, i) /\ q[i + 1] = b[i + 1]
      <4> HIDE DEF b
      <4> QED BY <1>1, NextPrefix
    <3> HIDE DEF P
    <3>2. q \in Below(t, P)
      BY <2>2, <2>3, <3>1 DEF Below
    <3>3. ~Intersect(q[i + 1], a[i + 1])
      BY <2>7, <3>2
    <3> QED BY <3>1, <3>3 DEF Intersect
  <2> QED BY <2>5, <2>6, <2>7
<1> QED BY <1>6, <1>7

\* And it agrees whenever that is so.
LEMMA SeparableIsAgreed ==
  ASSUME NEW fo \in FieldOrder, NEW S \in SUBSET Rule, NEW t, Shape(fo, S, t), NEW r \in Rule,
         \A s \in S : Separable(Keys(fo, r), Keys(fo, s))
  PROVE  RBTreeCanInsert(t, Keys(fo, r))
<1> DEFINE a == Keys(fo, r)
<1>1. a \in Seq(Interval) /\ Len(a) = Dim /\ Dim \in Nat
  BY KeysProperties, RulesAssumption
<1>2. DOMAIN t = Spelled(fo, S)
  BY DEF Shape
<1>3. ASSUME NEW i \in 0 .. Dim - 1, Prefix(a, i) \in DOMAIN t, t[Prefix(a, i)].count = 1
      PROVE  ChainCanInsert(t[Prefix(a, i)].chain, Rest(a, i))
  <2> DEFINE P == Prefix(a, i)
  <2>1. i \in 0 .. Dim /\ Len(P) = i
    <3>1. i \in 0 .. Dim
      BY <1>1
    <3> QED BY <1>1, <3>1, PrefixProperties
  <2> HIDE DEF P
  <2>2. /\ t[P].count = Load(fo, S, P)
        /\ \A p \in Under(fo, S, P) : Load(fo, S, P) = 1 => t[P].chain = Rest(Keys(fo, p), Len(P))
    <3>1. Fits(fo, S, P, t[P])
      BY <1>2, <1>3 DEF Shape, P
    <3> QED BY <3>1, FitsMeans
  <2>3. Load(fo, S, P) = 1
    BY <1>3, <2>2 DEF P
  <2>4. PICK s \in Under(fo, S, P) : TRUE
    <3>1. Load(fo, S, P) # 0
      BY <2>3
    <3> QED BY <3>1, LoadType
  <2> DEFINE b == Keys(fo, s)
  <2>5. s \in S /\ s \in Rule /\ Prefix(b, i) = P
    <3>1. s \in S /\ Leads(P, b)
      BY <2>4, LoadType
    <3> QED BY <2>1, <3>1 DEF Leads
  <2>6. b \in Seq(Interval) /\ Len(b) = Dim /\ Separable(a, b) /\ t[P].chain = Rest(b, i)
    BY <2>1, <2>2, <2>3, <2>4, <2>5, KeysProperties
  <2>7. Prefix(a, i) = Prefix(b, i)
    BY <2>5 DEF P
  <2> HIDE DEF a, b
  <2>8. ChainCanInsert(Rest(b, i), Rest(a, i))
    BY <1>1, <2>6, <2>7, ChainIsSeparable
  <2> QED BY <2>6, <2>8 DEF P
<1>4. ASSUME NEW i \in 0 .. Dim - 1, Prefix(a, i + 1) \notin DOMAIN t,
             NEW q \in Below(t, Prefix(a, i)), Prefix(a, i) \in DOMAIN t
      PROVE  ~Intersect(q[i + 1], a[i + 1])
  <2>1. i \in 0 .. Dim /\ Len(Prefix(a, i)) = i
    <3>1. i \in 0 .. Dim
      BY <1>1
    <3> QED BY <1>1, <3>1, PrefixProperties
  <2>2. q \in DOMAIN t /\ Len(q) = i + 1 /\ Prefix(q, i) = Prefix(a, i)
    BY <2>1 DEF Below
  <2>3. q # <<>>
    <3>1. Len(q) # 0
      BY <2>1, <2>2
    <3> QED BY <3>1
  <2>4. PICK s \in S : q = Prefix(Keys(fo, s), Len(q))
    BY <1>2, <2>2, <2>3, PathHasARule
  <2> DEFINE b == Keys(fo, s)
  <2>5. b \in Seq(Interval) /\ Len(b) = Dim /\ Separable(a, b) /\ q = Prefix(b, i + 1)
    BY <2>2, <2>4, KeysProperties
  <2> HIDE DEF a, b
  <2>6. Prefix(q, i) = Prefix(b, i) /\ q[i + 1] = b[i + 1]
    BY <2>5, NextPrefix
  <2>7. Prefix(a, i) = Prefix(b, i) /\ Prefix(a, i + 1) # Prefix(b, i + 1)
    BY <1>4, <2>2, <2>5, <2>6
  <2>8. a[i + 1] # b[i + 1]
    BY <1>1, <2>5, <2>7, NextPrefix
  <2>9. ~Intersect(a[i + 1], b[i + 1])
    BY <2>5, <2>7, <2>8 DEF Separable
  <2> QED BY <2>6, <2>9 DEF Intersect
<1> HIDE DEF a
<1>5. RBTreeCanInsert(t, a)
  BY <1>3, <1>4 DEF RBTreeCanInsert
<1> QED BY <1>5 DEF a

\* The verdict of the descent is the one about all stored rules.
LEMMA VerdictIsExact ==
  ASSUME NEW fo \in FieldOrder, NEW S \in SUBSET Rule, NEW t, Shape(fo, S, t),
         \A p, q \in S : Sortable(fo, p, q), NEW r \in Rule
  PROVE  RBTreeCanInsert(t, Keys(fo, r)) <=> \A s \in S : Sortable(fo, r, s)
<1>1. ASSUME NEW s \in S PROVE Sortable(fo, r, s) <=> Separable(Keys(fo, r), Keys(fo, s))
  <2>1. s \in Rule
    OBVIOUS
  <2> QED BY <2>1, SortableMeans
<1>2. ASSUME RBTreeCanInsert(t, Keys(fo, r)) PROVE \A s \in S : Sortable(fo, r, s)
  BY <1>1, <1>2, AgreedIsSeparable
<1>3. ASSUME \A s \in S : Sortable(fo, r, s) PROVE RBTreeCanInsert(t, Keys(fo, r))
  BY <1>1, <1>3, SeparableIsAgreed
<1> QED BY <1>2, <1>3

------------------------------------------------------------------------------
(* The inductive invariant                                                 *)

\* The trees are those of the stored rules, and these can be stored together.
IInv ==
    /\ IsBooks(mitree)
    /\ Shape(mitree.fieldOrder, mitree.stored, trees)
    /\ SortableTree(mitree)

\* What the invariant says of the rules stored and of the field order.
LEMMA StoredRules ==
  ASSUME IInv
  PROVE  /\ mitree.stored \in SUBSET Rule /\ mitree.fieldOrder \in FieldOrder
         /\ Shape(mitree.fieldOrder, mitree.stored, trees)
         /\ \A p, q \in mitree.stored : Sortable(mitree.fieldOrder, p, q)
BY DEF IInv, IsBooks, Books, SortableTree

\* Sortable is symmetric and reflexive.
LEMMA SortableBothWays ==
  ASSUME NEW fo, NEW r, NEW s
  PROVE  Sortable(fo, r, r) /\ (Sortable(fo, r, s) => Sortable(fo, s, r))
BY DEF Sortable, Identical, Disjoint

\* A new tree is the tree of no rules.
LEMMA InitInv == Init => IInv
<1> SUFFICES ASSUME Init PROVE IInv
  OBVIOUS
<1>0. PICK r \in Rule : \E fo \in GetFieldOrderByRule(r) : mitree = NewTree(fo)
  BY DEF Init
<1>1. PICK fo \in GetFieldOrderByRule(r) : mitree = NewTree(fo)
  BY <1>0
<1>2. fo \in FieldOrder
  BY <1>1 DEF GetFieldOrderByRule
<1>3. IsBooks(mitree) /\ mitree.stored = {} /\ mitree.fieldOrder = fo
  BY <1>1, <1>2, NewBooks
<1>4. Under(fo, {}, <<>>) = {} /\ Load(fo, {}, <<>>) = 0 /\ <<>> \in Path /\ {} \in SUBSET Rule
  <2>1. Under(fo, {}, <<>>) = {}
    BY DEF Under
  <2>2. <<>> \in Path
    BY RulesAssumption DEF Path
  <2> QED BY <2>1, <2>2, FS_EmptySet DEF Load
<1>5. Spelled(fo, {}) = {<<>>}
  <2>1. \A q : q \in Spelled(fo, {}) <=> q = <<>>
    BY DEF Spelled
  <2> QED BY <2>1
<1>6. trees = [path \in Spelled(fo, {}) |-> RBTreeCreate]
  BY <1>5 DEF Init
<1>7. RBTreeCreate \in Tree /\ Fits(fo, {}, <<>>, RBTreeCreate)
  <2>1. /\ RBTreeCreate \in Tree /\ RBTreeCreate.count = 0 /\ RBTreeCreate.chain = <<>>
        /\ ListFits({}, RBTreeCreate)
    BY CreateFits
  <2> HIDE DEF RBTreeCreate
  <2> QED BY <1>4, <2>1, FitsMeans
<1>8. Shape(fo, {}, trees)
  <2>1. trees \in [Spelled(fo, {}) -> Tree]
    BY <1>6, <1>7
  <2>2. ASSUME NEW q \in Spelled(fo, {}) PROVE Fits(fo, {}, q, trees[q])
    <3>1. q = <<>> /\ trees[q] = RBTreeCreate
      BY <1>5, <1>6
    <3> QED BY <1>7, <3>1
  <2> QED BY <2>1, <2>2 DEF Shape
<1>9. SortableTree(mitree)
  BY <1>3 DEF SortableTree
<1> QED BY <1>3, <1>8, <1>9 DEF IInv

\* An insertion that RBTreeCanInsert allows keeps the invariant.
LEMMA TryInsertionKeepsInv ==
  ASSUME IInv, NEW r \in Rule, TryInsertion(r)
  PROVE  IInv'
<1> DEFINE fo == mitree.fieldOrder
           S == mitree.stored
<1>1. /\ r \notin S /\ RBTreeCanInsert(trees, Keys(fo, r))
      /\ mitree' = Insertion(mitree, r)
      /\ trees' = RBTreeInsertWithPathCompression(trees, Keys(fo, r), priority[r])
  BY DEF TryInsertion
<1>2. /\ S \in SUBSET Rule /\ fo \in FieldOrder /\ Shape(fo, S, trees)
      /\ \A p, q \in S : Sortable(fo, p, q)
  BY StoredRules
<1>3. IsBooks(mitree') /\ mitree'.stored = S \cup {r} /\ mitree'.fieldOrder = fo
  BY <1>1, BooksAfterUpdate DEF IInv
<1> HIDE DEF fo, S
<1>4. Shape(fo, S \cup {r}, trees')
  BY <1>1, <1>2, InsertionKeepsShape
<1>5. \A s \in S : Sortable(fo, r, s)
  BY <1>1, <1>2, VerdictIsExact
<1>6. \A p, q \in S \cup {r} : Sortable(fo, p, q)
  BY <1>2, <1>5, SortableBothWays
<1>7. SortableTree(mitree')
  BY <1>3, <1>6 DEF SortableTree
<1>8. Shape(mitree'.fieldOrder, mitree'.stored, trees')
  BY <1>3, <1>4
<1> QED BY <1>3, <1>7, <1>8 DEF IInv

\* A deletion keeps the invariant.
LEMMA DeleteRuleKeepsInv ==
  ASSUME IInv, NEW r \in Rule, DeleteRule(r)
  PROVE  IInv'
<1> DEFINE fo == mitree.fieldOrder
           S == mitree.stored
<1>1. /\ r \in S /\ mitree' = Deletion(mitree, r)
      /\ trees' = RBTreeDeleteWithPathCompression(trees, Keys(fo, r), priority[r])
  BY DEF DeleteRule
<1>2. /\ S \in SUBSET Rule /\ fo \in FieldOrder /\ Shape(fo, S, trees)
      /\ \A p, q \in S : Sortable(fo, p, q)
  BY StoredRules
<1>3. IsBooks(mitree') /\ mitree'.stored = S \ {r} /\ mitree'.fieldOrder = fo
  BY <1>1, BooksAfterUpdate DEF IInv
<1> HIDE DEF fo, S
<1>4. Shape(fo, S \ {r}, trees')
  BY <1>1, <1>2, DeletionKeepsShape
<1>5. \A p, q \in S \ {r} : Sortable(fo, p, q)
  BY <1>2
<1>6. SortableTree(mitree')
  BY <1>3, <1>5 DEF SortableTree
<1>7. Shape(mitree'.fieldOrder, mitree'.stored, trees')
  BY <1>3, <1>4
<1> QED BY <1>3, <1>6, <1>7 DEF IInv

\* Every step keeps it.
LEMMA NextInv == IInv /\ [Next]_vars => IInv'
<1> SUFFICES ASSUME IInv, [Next]_vars PROVE IInv'
  OBVIOUS
<1>1. ASSUME NEW r \in Rule, TryInsertion(r) PROVE IInv'
  BY <1>1, TryInsertionKeepsInv
<1>2. ASSUME NEW r \in Rule, DeleteRule(r) PROVE IInv'
  BY <1>2, DeleteRuleKeepsInv
<1>3. CASE UNCHANGED vars
  <2>1. trees' = trees /\ mitree' = mitree
    BY <1>3 DEF vars
  <2> QED BY <2>1 DEF IInv
<1> QED BY <1>1, <1>2, <1>3 DEF Next

\* The trees are always those of the stored rules.
THEOREM TreesInvariance == Spec => []IInv
BY InitInv, NextInv, PTL DEF Spec

\* After any insertions and deletions the nested tree is the one of the rules
\* it stores: what RBTreeInsertWithPathCompression and
\* RBTreeDeleteWithPathCompression did before leaves no trace.
THEOREM ShapeIsForgotten == Spec => []ShapeForgetsHistory
<1>1. IInv => ShapeForgetsHistory
  BY StoredRules DEF Shape, ShapeForgetsHistory
<1> QED BY <1>1, TreesInvariance, PTL

\* The descent of RBTreeCanInsert along one path gives the verdict about all
\* stored rules, whatever the rule asked about.
THEOREM VerdictsAreExact == Spec => []CanInsertIsExact
<1>1. IInv => CanInsertIsExact
  <2> SUFFICES ASSUME IInv, NEW r \in Rule
               PROVE  RBTreeCanInsert(trees, Keys(mitree.fieldOrder, r)) <=> CanInsertRule(mitree, r)
    BY DEF CanInsertIsExact
  <2>1. /\ mitree.stored \in SUBSET Rule /\ mitree.fieldOrder \in FieldOrder
        /\ Shape(mitree.fieldOrder, mitree.stored, trees)
        /\ \A p, q \in mitree.stored : Sortable(mitree.fieldOrder, p, q)
    BY StoredRules
  <2> QED BY <2>1, VerdictIsExact DEF CanInsertRule
<1> QED BY <1>1, TreesInvariance, PTL

------------------------------------------------------------------------------
(* Queries                                                                 *)

\* A field order leaves out no field.
LEMMA OrderIsOnto ==
  ASSUME NEW fo \in FieldOrder, NEW f \in Field
  PROVE  \E i \in Field : fo[i] = f
<1>1. IsFiniteSet(Field)
  BY RulesAssumption, FS_Interval DEF Field
<1>2. fo \in Injection(Field, Field)
  BY DEF FieldOrder, Injection
<1>3. fo \in Surjection(Field, Field)
  BY <1>1, <1>2, FS_Injection
<1> QED BY <1>3 DEF Surjection

\* A packet matches a rule when the points, level by level, are in its keys.
LEMMA MatchesMeans ==
  ASSUME NEW fo \in FieldOrder, NEW r \in Rule, NEW p
  PROVE  MatchesPacket(r, p) <=> \A i \in Field : Holds(Keys(fo, r)[i], Points(fo, p)[i])
<1>1. ASSUME NEW i \in Field
      PROVE  /\ fo[i] \in Field
             /\ Holds(Keys(fo, r)[i], Points(fo, p)[i])
                  <=> Low(r, fo[i]) <= p[fo[i]] /\ p[fo[i]] <= High(r, fo[i])
  <2>1. fo[i] \in Field
    BY DEF FieldOrder
  <2>2. Keys(fo, r)[i] = range[r][fo[i]] /\ Points(fo, p)[i] = p[fo[i]]
    BY KeysProperties DEF Points
  <2> QED BY <2>1, <2>2 DEF Holds, Low, High
<1>2. \A f \in Field : \E i \in Field : fo[i] = f
  BY OrderIsOnto
<1> QED BY <1>1, <1>2 DEF MatchesPacket

\* The keys of the path hold the points of the packet.
PathHolds(e, points) == \A i \in DOMAIN e : Holds(e[i], points[i])

\* And so do the keys of the chain at its end.
ChainHolds(t, e, points) == \A i \in DOMAIN t[e].chain : Holds(t[e].chain[i], points[Len(e) + i])

\* The rules at an end match together: their keys are the path and the chain.
LEMMA EndMatches ==
  ASSUME NEW fo \in FieldOrder, NEW S \in SUBSET Rule, NEW t, Shape(fo, S, t), NEW e \in Ends(t),
         NEW r \in Under(fo, S, e), NEW p
  PROVE  MatchesPacket(r, p) <=> PathHolds(e, Points(fo, p)) /\ ChainHolds(t, e, Points(fo, p))
<1> DEFINE points == Points(fo, p)
           c == t[e].chain
           n == Len(e)
           keys == Keys(fo, r)
<1>1. EndHolds(fo, S, t, e)
  BY EndMeans
<1>2. keys = e \o c /\ r \in Rule /\ e \in Path /\ t[e] \in Tree
  BY <1>1 DEF EndHolds
<1>3. e \in Seq(Interval) /\ c \in Seq(Interval) /\ n \in Nat
  BY <1>2 DEF Path, Tree
<1>4. keys \in Seq(Interval) /\ Len(keys) = Dim /\ Dim \in Nat /\ Field = 1 .. Dim
  BY <1>2, KeysProperties, RulesAssumption DEF Field
<1>5. MatchesPacket(r, p) <=> \A i \in Field : Holds(keys[i], points[i])
  BY <1>2, MatchesMeans
<1> HIDE DEF points, c, keys, n
<1>6. /\ DOMAIN e = 1 .. n /\ DOMAIN c = 1 .. Len(c) /\ Len(c) \in Nat
      /\ n + Len(c) = Dim
      /\ \A i \in 1 .. n : i \in Field /\ keys[i] = e[i]
      /\ \A i \in 1 .. Len(c) : n + i \in Field /\ keys[n + i] = c[i]
  <2>1. DOMAIN e = 1 .. n /\ DOMAIN c = 1 .. Len(c) /\ Len(c) \in Nat /\ n + Len(c) = Dim
    BY <1>2, <1>3, <1>4 DEF n
  <2>2. \A i \in 1 .. n : keys[i] = e[i]
    BY <1>2, <1>3, <1>4, <2>1 DEF n
  <2>3. \A i \in 1 .. Len(c) : keys[n + i] = c[i]
    BY <1>2, <1>3, <1>4, <2>1 DEF n
  <2>4. (\A i \in 1 .. n : i \in Field) /\ \A i \in 1 .. Len(c) : n + i \in Field
    BY <1>3, <1>4, <2>1
  <2> QED BY <2>1, <2>2, <2>3, <2>4
<1>7. ASSUME \A i \in Field : Holds(keys[i], points[i])
      PROVE  PathHolds(e, points) /\ ChainHolds(t, e, points)
  <2>1. \A i \in 1 .. n : Holds(e[i], points[i])
    BY <1>6, <1>7
  <2>2. \A i \in 1 .. Len(c) : Holds(c[i], points[n + i])
    BY <1>6, <1>7
  <2> QED BY <1>6, <2>1, <2>2 DEF PathHolds, ChainHolds, c, n
<1>8. ASSUME PathHolds(e, points), ChainHolds(t, e, points), NEW i \in Field
      PROVE  Holds(keys[i], points[i])
  <2>1. CASE i <= n
    <3>1. i \in 1 .. n
      BY <1>3, <1>4, <2>1
    <3> QED BY <1>6, <1>8, <3>1 DEF PathHolds
  <2>2. CASE ~(i <= n)
    <3>1. i - n \in 1 .. Len(c) /\ n + (i - n) = i
      BY <1>3, <1>4, <1>6, <2>2
    <3>2. Holds(c[i - n], points[n + (i - n)])
      BY <1>6, <1>8, <3>1 DEF ChainHolds, c, n
    <3> QED BY <1>6, <3>1, <3>2
  <2> QED BY <2>1, <2>2
<1> QED BY <1>5, <1>7, <1>8 DEF points

\* Only one end holds the points of a packet: the keys of a level are disjoint.
LEMMA OnlyOneEndHolds ==
  ASSUME NEW fo \in FieldOrder, NEW S \in SUBSET Rule, NEW t, Shape(fo, S, t),
         \A q, r \in S : Sortable(fo, q, r), NEW points \in [Field -> Nat],
         NEW e \in Ends(t), PathHolds(e, points), NEW f \in Ends(t), PathHolds(f, points)
  PROVE  e = f
<1>1. ASSUME NEW g \in {e, f}, NEW h \in {e, f}, Len(g) <= Len(h)
      PROVE  g = h
  <2>1. g \in Ends(t) /\ h \in Ends(t) /\ PathHolds(g, points) /\ PathHolds(h, points)
    BY <1>1
  <2>2. EndHolds(fo, S, t, g) /\ EndHolds(fo, S, t, h)
    BY <2>1, EndMeans
  <2>3. PICK r \in Under(fo, S, g) : TRUE
    BY <2>2 DEF EndHolds
  <2>4. PICK s \in Under(fo, S, h) : TRUE
    BY <2>2 DEF EndHolds
  <2> DEFINE a == Keys(fo, r)
             b == Keys(fo, s)
             n == Len(g)
             m == Len(h)
  <2>5. r \in S /\ s \in S /\ g = Prefix(a, n) /\ h = Prefix(b, m)
    <3>1. r \in S /\ s \in S /\ Leads(g, a) /\ Leads(h, b)
      BY <2>3, <2>4, LoadType
    <3> QED BY <3>1 DEF Leads
  <2>6. /\ a \in Seq(Interval) /\ b \in Seq(Interval) /\ Len(a) = Dim /\ Len(b) = Dim
        /\ Dim \in Nat /\ Field = 1 .. Dim
    BY <2>5, KeysProperties, RulesAssumption DEF Field
  <2>7. n \in 0 .. Dim /\ m \in 0 .. Dim /\ n <= m /\ n \in 0 .. m
    <3>1. g \in Path /\ h \in Path
      BY <2>2 DEF EndHolds
    <3> QED BY <1>1, <2>6, <3>1 DEF Path
  <2>8. Separable(a, b)
    BY <2>5, SortableMeans
  <2> HIDE DEF a, b, n, m
  <2>9. /\ \A i \in 1 .. n : g[i] = a[i] /\ i \in DOMAIN g
        /\ \A i \in 1 .. m : h[i] = b[i] /\ i \in DOMAIN h
    <3>1. n \in 0 .. Len(a) /\ m \in 0 .. Len(b) /\ DOMAIN g = 1 .. Len(g) /\ DOMAIN h = 1 .. Len(h)
      <4>1. g \in Seq(Interval) /\ h \in Seq(Interval)
        BY <2>2 DEF EndHolds, Path
      <4> QED BY <2>6, <2>7, <4>1
    <3>2. /\ Len(Prefix(a, n)) = n
          /\ \A i \in 1 .. n : Prefix(a, n)[i] = a[i]
      BY ONLY <2>6, <3>1, PrefixProperties
    <3>3. /\ Len(Prefix(b, m)) = m
          /\ \A i \in 1 .. m : Prefix(b, m)[i] = b[i]
      BY ONLY <2>6, <3>1, PrefixProperties
    <3> QED BY <2>5, <3>1, <3>2, <3>3
  <2>10. ASSUME NEW i \in 1 .. n PROVE Intersect(a[i], b[i])
    <3>1. i \in 1 .. m /\ i \in Field
      BY <2>6, <2>7
    <3>2. Holds(a[i], points[i]) /\ Holds(b[i], points[i])
      BY <2>1, <2>9, <3>1 DEF PathHolds
    <3>3. a[i] \in Interval /\ b[i] \in Interval /\ points[i] \in Nat
      BY <2>6, <3>1
    <3>4. a[i][1] \in Nat /\ a[i][2] \in Nat /\ b[i][1] \in Nat /\ b[i][2] \in Nat
      BY <3>3 DEF Interval
    <3> QED BY <3>2, <3>3, <3>4 DEF Holds, Intersect
  <2>11. Prefix(a, n) = Prefix(b, n)
    BY <2>6, <2>7, <2>8, <2>10, IntersectingAgree
  <2>12. s \in Under(fo, S, g)
    <3>1. Leads(g, Keys(fo, s))
      BY <2>5, <2>11 DEF Leads, b, n
    <3> QED BY <2>5, <3>1, LoadType
  <2> QED BY <2>1, <2>4, <2>12, EndsAreApart
<1>2. Len(e) <= Len(f) \/ Len(f) <= Len(e)
  <2>1. EndHolds(fo, S, t, e) /\ EndHolds(fo, S, t, f)
    BY EndMeans
  <2>2. Len(e) \in Nat /\ Len(f) \in Nat
    BY <2>1 DEF EndHolds, Path
  <2> QED BY <2>2
<1> QED BY <1>1, <1>2

\* The answer found along one path is the best of all stored rules.
LEMMA QueryIsExact ==
  ASSUME NEW fo \in FieldOrder, NEW S \in SUBSET Rule, NEW t, Shape(fo, S, t),
         \A q, r \in S : Sortable(fo, q, r), NEW p \in [Field -> Nat]
  PROVE  RBExactQuery(t, Points(fo, p)) = BestPriority(S, p)
<1> DEFINE points == Points(fo, p)
           hit == {s \in Ends(t) : \A i \in DOMAIN s : Holds(s[i], points[i])}
           e == CHOOSE s \in hit : TRUE
<1>1. points \in [Field -> Nat]
  BY DEF Points, FieldOrder
<1>2. \A s : s \in hit <=> s \in Ends(t) /\ PathHolds(s, points)
  BY DEF PathHolds
<1>3. RBExactQuery(t, points) = IF hit # {} /\ ChainHolds(t, e, points)
                                THEN t[e].maxPriority ELSE NoMatch
  BY DEF RBExactQuery, ChainHolds
<1>4. hit # {} => e \in hit
  OBVIOUS
<1> HIDE DEF hit, e, points
<1>5. ASSUME NEW r \in S, MatchesPacket(r, p)
      PROVE  hit # {} /\ ChainHolds(t, e, points) /\ r \in Under(fo, S, e)
  <2>1. PICK f \in Ends(t) : r \in Under(fo, S, f)
    BY RuleIsUnderAnEnd
  <2>2. PathHolds(f, points) /\ ChainHolds(t, f, points)
    BY <1>5, <2>1, EndMatches DEF points
  <2>3. f \in hit /\ e \in hit
    BY <1>2, <1>4, <2>1, <2>2
  <2>4. e = f
    BY <1>1, <1>2, <2>2, <2>3, OnlyOneEndHolds
  <2> QED BY <2>1, <2>2, <2>3, <2>4
<1>6. BestPriority(S, p) = Best(Matching(S, p)) /\ Matching(S, p) \in SUBSET Rule
  BY DEF BestPriority, Best, Matching
<1>7. CASE hit # {} /\ ChainHolds(t, e, points)
  <2>1. e \in Ends(t) /\ PathHolds(e, points)
    BY <1>2, <1>4, <1>7
  <2>2. Under(fo, S, e) \subseteq S
    BY LoadType
  <2>3. \A r \in Under(fo, S, e) : MatchesPacket(r, p)
    BY <1>7, <2>1, EndMatches DEF points
  <2>4. Matching(S, p) = Under(fo, S, e)
    BY <1>5, <2>2, <2>3 DEF Matching
  <2>5. t[e].maxPriority = Best(Under(fo, S, e))
    <3>1. EndHolds(fo, S, t, e)
      BY <2>1, EndMeans
    <3>2. t[e] \in Tree /\ ListFits(Under(fo, S, e), t[e]) /\ Under(fo, S, e) \in SUBSET Rule
      BY <3>1 DEF EndHolds
    <3> QED BY <3>2, ListFitsMeans
  <2> QED BY <1>3, <1>6, <1>7, <2>4, <2>5 DEF points
<1>8. CASE ~(hit # {} /\ ChainHolds(t, e, points))
  <2>1. Matching(S, p) = {}
    BY <1>5, <1>8 DEF Matching
  <2>2. Best(Matching(S, p)) = NoMatch
    BY <1>6, <2>1, BestProperties
  <2> QED BY <1>3, <1>6, <1>8, <2>2 DEF points
<1> QED BY <1>7, <1>8

\* A query follows one path and gives the answer of the rules stored in the
\* whole tree, to every packet.
THEOREM TreeQueriesAreExact == Spec => []QueriesAreExact
<1>1. IInv => QueriesAreExact
  <2> SUFFICES ASSUME IInv, NEW p \in Packet
               PROVE  RBExactQuery(trees, Points(mitree.fieldOrder, p)) = ClassifyInTree(mitree, p)
    BY DEF QueriesAreExact
  <2>1. /\ mitree.stored \in SUBSET Rule /\ mitree.fieldOrder \in FieldOrder
        /\ Shape(mitree.fieldOrder, mitree.stored, trees)
        /\ \A q, r \in mitree.stored : Sortable(mitree.fieldOrder, q, r)
    BY StoredRules
  <2>2. p \in [Field -> Nat]
    BY RulesAssumption
  <2> QED BY <2>1, <2>2, QueryIsExact DEF ClassifyInTree
<1> QED BY <1>1, TreesInvariance, PTL

------------------------------------------------------------------------------
(* The rules listed at the ends                                            *)

\* A rule as the tree lists it, and where it is listed and stored.
AsListed(fo, r) == <<Keys(fo, r), priority[r]>>
Listings(t, b) == {x \in Listed(t) : ListedRule(t, x) = b}
Storings(fo, S, b) == {r \in S : AsListed(fo, r) = b}

\* An entry of a list is at one place of one end.
LEMMA ListedMeans ==
  ASSUME NEW t, NEW x
  PROVE  x \in Listed(t) <=> \E e \in Ends(t) : \E n \in DOMAIN t[e].priorities : x = <<e, n>>
BY DEF Listed

\* The entries with one priority at one end: as many as the places of the list.
Entries(e, list, v) == {<<e, n>> : n \in {n \in DOMAIN list : list[n] = v}}

\* Pairing the places with the end changes nothing about their number.
LEMMA EntriesOfAnEnd ==
  ASSUME NEW e, NEW list \in Seq(Priorities), NEW v
  PROVE  IsFiniteSet(Entries(e, list, v)) /\ Cardinality(Entries(e, list, v)) = Occurs(list, v)
<1> DEFINE N == {n \in DOMAIN list : list[n] = v}
           X == {<<e, n>> : n \in N}
           f == [n \in N |-> <<e, n>>]
<1>1. IsFiniteSet(N)
  BY OccursType
<1> HIDE DEF N
<1>2. f \in Bijection(N, X)
  BY DEF Bijection, Injection, Surjection, IsInjective
<1>3. ExistsBijection(N, X)
  BY <1>2 DEF ExistsBijection
<1> HIDE DEF X
<1>4. IsFiniteSet(X) /\ Cardinality(X) = Cardinality(N)
  BY <1>1, <1>3, FS_Bijection
<1> QED BY <1>4 DEF X, N, Occurs, Entries

\* The rules that look like a rule at this end are the ones at this end with its
\* priority, and they are listed at this end only.
LEMMA ListedWhereStored ==
  ASSUME NEW fo \in FieldOrder, NEW S \in SUBSET Rule, NEW t, Shape(fo, S, t),
         NEW e \in Ends(t), NEW r \in Under(fo, S, e)
  PROVE  /\ Storings(fo, S, AsListed(fo, r)) = {s \in Under(fo, S, e) : priority[s] = priority[r]}
         /\ Listings(t, AsListed(fo, r)) = Entries(e, t[e].priorities, priority[r])
<1> DEFINE b == AsListed(fo, r)
           N == {n \in DOMAIN t[e].priorities : t[e].priorities[n] = priority[r]}
<1>1. EndHolds(fo, S, t, e) /\ r \in S
  BY EndMeans, LoadType
<1>2. \A s \in Under(fo, S, e) : Keys(fo, s) = e \o t[e].chain /\ s \in S
  BY <1>1 DEF EndHolds
<1>3. ASSUME NEW s \in S
      PROVE  AsListed(fo, s) = b <=> s \in Under(fo, S, e) /\ priority[s] = priority[r]
  <2>1. AsListed(fo, s) = b <=> Keys(fo, s) = Keys(fo, r) /\ priority[s] = priority[r]
    BY DEF AsListed
  <2>2. Keys(fo, s) = Keys(fo, r) => s \in Under(fo, S, e)
    BY <1>1, LoadType
  <2>3. s \in Under(fo, S, e) => Keys(fo, s) = Keys(fo, r)
    BY <1>2
  <2> QED BY <2>1, <2>2, <2>3
<1>4. Storings(fo, S, b) = {s \in Under(fo, S, e) : priority[s] = priority[r]}
  BY <1>2, <1>3 DEF Storings
<1>5. ASSUME NEW x \in Listings(t, b) PROVE \E n \in N : x = <<e, n>>
  <2>1. x \in Listed(t) /\ ListedRule(t, x) = b
    BY DEF Listings
  <2>2a. PICK f \in Ends(t) : \E n \in DOMAIN t[f].priorities : x = <<f, n>>
    BY <2>1, ListedMeans
  <2>2. PICK n \in DOMAIN t[f].priorities : x = <<f, n>>
    BY <2>2a
  <2>3. f \o t[f].chain = Keys(fo, r) /\ t[f].priorities[n] = priority[r]
    BY <2>1, <2>2 DEF ListedRule, AsListed
  <2>4. EndHolds(fo, S, t, f)
    BY EndMeans
  <2>5. PICK s \in Under(fo, S, f) : Keys(fo, s) = f \o t[f].chain /\ s \in S
    BY <2>4 DEF EndHolds
  <2>6. r \in Under(fo, S, f)
    <3>1. Leads(f, Keys(fo, s))
      BY <2>5, LoadType
    <3>2. Leads(f, Keys(fo, r))
      BY <2>3, <2>5, <3>1
    <3> QED BY <1>1, <3>2, LoadType
  <2>7. f = e
    BY <2>6, EndsAreApart
  <2> QED BY <2>2, <2>3, <2>7
<1>6. ASSUME NEW n \in N PROVE <<e, n>> \in Listings(t, b)
  <2>1. <<e, n>> \in Listed(t)
    BY ListedMeans
  <2>2. ListedRule(t, <<e, n>>) = <<e \o t[e].chain, priority[r]>>
    BY DEF ListedRule
  <2>3. ListedRule(t, <<e, n>>) = b
    BY <1>2, <2>2 DEF AsListed
  <2> QED BY <2>1, <2>3 DEF Listings
<1> HIDE DEF b, N
<1>7. Listings(t, b) = {<<e, n>> : n \in N}
  BY <1>5, <1>6
<1> QED BY <1>4, <1>7 DEF b, N, Entries

\* Whatever the tree lists, it lists as often as it is stored.
LEMMA ListedAsOften ==
  ASSUME NEW fo \in FieldOrder, NEW S \in SUBSET Rule, NEW t, Shape(fo, S, t), NEW b
  PROVE  /\ Cardinality(Listings(t, b)) = Cardinality(Storings(fo, S, b))
         /\ Listings(t, b) = {} <=> Storings(fo, S, b) = {}
<1>1. CASE Storings(fo, S, b) # {}
  <2>1. PICK r \in S : AsListed(fo, r) = b
    BY <1>1 DEF Storings
  <2>2. PICK e \in Ends(t) : r \in Under(fo, S, e)
    BY RuleIsUnderAnEnd
  <2> DEFINE list == t[e].priorities
             here == Under(fo, S, e)
             v == priority[r]
  <2>3. t[e] \in Tree /\ here \in SUBSET Rule /\ ListFits(here, t[e])
    <3>1. EndHolds(fo, S, t, e)
      BY EndMeans
    <3> QED BY <3>1 DEF EndHolds
  <2>4. list \in Seq(Priorities) /\ v \in Priorities
    BY <2>3 DEF Tree, Priorities
  <2>5. Occurs(list, v) = Having(here, v)
    BY <2>3, <2>4, ListFitsMeans
  <2>6. /\ Storings(fo, S, b) = {s \in here : priority[s] = v}
        /\ Listings(t, b) = Entries(e, list, v)
    <3>1. /\ Storings(fo, S, AsListed(fo, r)) = {s \in here : priority[s] = v}
          /\ Listings(t, AsListed(fo, r)) = Entries(e, list, v)
      BY <2>2, ListedWhereStored
    <3> HIDE DEF list, here, v
    <3> QED BY <2>1, <3>1
  <2>7. Cardinality(Storings(fo, S, b)) = Having(here, v) /\ IsFiniteSet(Storings(fo, S, b))
    <3>1. IsFiniteSet({s \in here : priority[s] = v})
      BY <2>3, HavingType
    <3> QED BY <2>6, <3>1 DEF Having
  <2> HIDE DEF list, v, here
  <2>8. Cardinality(Listings(t, b)) = Occurs(list, v) /\ IsFiniteSet(Listings(t, b))
    BY <2>4, <2>6, EntriesOfAnEnd
  <2>9. Cardinality(Listings(t, b)) = Cardinality(Storings(fo, S, b))
    BY <2>5, <2>7, <2>8
  <2> QED BY <2>7, <2>8, <2>9, FS_EmptySet
<1>2. CASE Storings(fo, S, b) = {}
  <2>1. ASSUME NEW x \in Listings(t, b) PROVE FALSE
    <3>1. x \in Listed(t) /\ ListedRule(t, x) = b
      BY DEF Listings
    <3>2a. PICK e \in Ends(t) : \E n \in DOMAIN t[e].priorities : x = <<e, n>>
      BY <3>1, ListedMeans
    <3>2. PICK n \in DOMAIN t[e].priorities : x = <<e, n>>
      BY <3>2a
    <3>3. b = <<e \o t[e].chain, t[e].priorities[n]>>
      BY <3>1, <3>2 DEF ListedRule
    <3>4. EndHolds(fo, S, t, e)
      BY EndMeans
    <3>5. /\ t[e] \in Tree /\ Under(fo, S, e) \in SUBSET Rule /\ ListFits(Under(fo, S, e), t[e])
          /\ \A r \in Under(fo, S, e) : Keys(fo, r) = e \o t[e].chain /\ r \in S
      BY <3>4 DEF EndHolds
    <3>6. PICK r \in Under(fo, S, e) : priority[r] = t[e].priorities[n]
      BY <3>2, <3>5, FittingValues
    <3>7. AsListed(fo, r) = b /\ r \in S
      BY <3>3, <3>5, <3>6 DEF AsListed
    <3> QED BY <1>2, <3>7 DEF Storings
  <2>2. Listings(t, b) = {}
    BY <2>1
  <2> QED BY <1>2, <2>2
<1> QED BY <1>1, <1>2

\* RBSerializeIntoRules returns the stored rules, each as often as it is stored,
\* from the chains and from the lists alike: none is lost, none listed twice.
THEOREM NoRuleIsUnlisted == Spec => []SerializationIsComplete
<1>1. IInv => SerializationIsComplete
  <2> SUFFICES ASSUME IInv PROVE SerializationIsComplete
    OBVIOUS
  <2> DEFINE fo == mitree.fieldOrder
             S == mitree.stored
  <2>1. S \in SUBSET Rule /\ fo \in FieldOrder /\ Shape(fo, S, trees)
    BY StoredRules
  <2> DEFINE D1 == {ListedRule(trees, x) : x \in Listed(trees)}
             D2 == {AsListed(fo, r) : r \in S}
  <2>2. \A b : /\ Cardinality(Listings(trees, b)) = Cardinality(Storings(fo, S, b))
               /\ Listings(trees, b) = {} <=> Storings(fo, S, b) = {}
    <3> HIDE DEF fo, S
    <3> QED BY <2>1, ListedAsOften
  <2>3. D1 = D2
    <3>1. \A b : b \in D1 <=> Listings(trees, b) # {}
      BY DEF Listings
    <3>2. \A b : b \in D2 <=> Storings(fo, S, b) # {}
      BY DEF Storings
    <3> HIDE DEF D1, D2
    <3> QED BY <2>2, <3>1, <3>2
  <2>4. RBSerializeIntoRules(trees) = [b \in D1 |-> Cardinality(Listings(trees, b))]
    BY DEF RBSerializeIntoRules, Listings
  <2>5. SerializationIsComplete <=>
          RBSerializeIntoRules(trees) = [b \in D2 |-> Cardinality(Storings(fo, S, b))]
    BY DEF SerializationIsComplete, Storings, AsListed
  <2> HIDE DEF D1, D2, fo, S
  <2> QED BY <2>2, <2>3, <2>4, <2>5
<1> QED BY <1>1, TreesInvariance, PTL
==============================================================================
