-------------------------- MODULE IntervalUtilities --------------------------
(***************************************************************************)
(* The algorithms on intervals that the offline partitioner calls          *)
(* (src/Utilities/IntervalUtilities.cpp), and what two of them promise:    *)
(* weighted interval scheduling and the largest overlap.  The scheduling   *)
(* sweep itself is the module IntervalScheduling.                          *)
(***************************************************************************)
EXTENDS Rules, Sequences, Functions

\* What the readers of rule files produce.
ASSUME IntervalAssumption == \A r \in Rule, f \in Field : Low(r, f) <= High(r, f)

\* A WeightedInterval: an interval and the rules that stand behind it.
WeightedInterval == [ low : Nat, high : Nat, rules : SUBSET Rule ]

\* SetWeightBySizePlusOne
Weight(w) == Cardinality(w.rules) + 1
TotalWeight(W) == MapThenSumSet(Weight, W)

\* One weighted interval for each interval of field f that rules of S have.
CreateUniqueInterval(S, f) ==
    {[ low |-> Low(r, f), high |-> High(r, f),
       rules |-> {s \in S : range[s][f] = range[r][f]} ] : r \in S}

IsIdentical(r, s) == \A f \in Field : range[r][f] = range[s][f]

\* The first of each group of identical rules stays; which one it is depends
\* on the order of the vector.
RedundancyRemoval(S) ==
    {V \in SUBSET S : /\ \A r, s \in V : IsIdentical(r, s) => r = s
                      /\ \A r \in S : \E s \in V : IsIdentical(r, s)}

------------------------------------------------------------------------------
(* GetMaxOverlap                                                           *)

\* The values Value(x) of the elements of S, in increasing order, one for each
\* element: a multiset read from begin to end.
Sorted(S, Value(_)) ==
    [i \in 1 .. Cardinality(S) |->
        CHOOSE v \in {Value(x) : x \in S} :
            /\ Cardinality({x \in S : Value(x) < v}) < i
            /\ i <= Cardinality({x \in S : Value(x) <= v})]

\* One round of the loop over start_time and end_time: a start that is no later
\* than the next end opens an interval, an end closes one; current_overlap is
\* i - j on the way.
NextRound(lo, hi, s) ==
    CASE ~(s.i <= Len(lo) /\ s.j <= Len(hi)) -> s
      [] s.i <= Len(lo) /\ s.j <= Len(hi) /\ lo[s.i] <= hi[s.j] ->
            [ i |-> s.i + 1, j |-> s.j, max_overlap |-> Max({s.i + 1 - s.j, s.max_overlap}) ]
      [] s.i <= Len(lo) /\ s.j <= Len(hi) /\ ~(lo[s.i] <= hi[s.j]) ->
            [ i |-> s.i, j |-> s.j + 1, max_overlap |-> s.max_overlap ]

GetMaxOverlap(lo, hi) ==
    LET rounds == Len(lo) + Len(hi)
        after[k \in 0 .. rounds] == IF k = 0 THEN [ i |-> 1, j |-> 1, max_overlap |-> -1 ]
                                    ELSE NextRound(lo, hi, after[k - 1])
    IN  IF Len(lo) = 0 THEN 0 ELSE after[rounds].max_overlap

MaxOverlap(W) ==
    LET LowOf(w) == w.low
        HighOf(w) == w.high
    IN  GetMaxOverlap(Sorted(W, LowOf), Sorted(W, HighOf))

------------------------------------------------------------------------------
(* What MWISIntervals promises                                             *)

Before(v, w) == v.high < w.low
Independent(W) == \A v, w \in W : v = w \/ Before(v, w) \/ Before(w, v)

MaximumWeight(W) == Max({TotalWeight(V) : V \in {U \in SUBSET W : Independent(U)}})

\* The sets MWISIntervals may return: the first intervals in the vector decide
\* which one, the caller learns the set and its weight.
MWISIntervals(W) ==
    LET max_MIS == MaximumWeight(W)
    IN  {V \in SUBSET W : Independent(V) /\ TotalWeight(V) = max_MIS}

\* A choice of one element of each set of the family C.
OneOfEach(C) == {c \in [DOMAIN C -> UNION Range(C)] : \A x \in DOMAIN C : c[x] \in C[x]}
==============================================================================
