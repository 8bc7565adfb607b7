-------------------------- MODULE IntervalScheduling --------------------------
(***************************************************************************)
(* Utilities::MWISIntervals (src/Utilities/IntervalUtilities.cpp): the     *)
(* heaviest set of pairwise disjoint intervals, found by one sweep over    *)
(* the endpoints and one walk back.  A step takes one endpoint of the      *)
(* sweep, or looks at one interval of the walk.                            *)
(***************************************************************************)
EXTENDS IntervalUtilities

VARIABLES
    sorted_I,        \* the intervals by increasing high point
    endpoints,       \* the endpoints the sweep has not reached
    chi,             \* chi[i]: the best weight of a set that ends with interval i
    temp_max,        \* sweep: the best weight so far; walk: the weight still to find
    last_interval,   \* the interval that temp_max, or the walk, ends with
    max_MIS,         \* the weight returned
    S_max,           \* the intervals chosen
    j,               \* the next interval the walk looks at
    pc               \* "sweep", "walk" or "done"

schedule == <<sorted_I, endpoints, chi, temp_max, last_interval, max_MIS, S_max, j, pc>>

LEFT == 0
RIGHT == 1

Index == DOMAIN sorted_I

\* std::sort leaves intervals with equal high points in any order.
SortedByHigh(W) ==
    {s \in Bijection(1 .. Cardinality(W), W) :
        \A i, k \in DOMAIN s : i < k => s[i].high <= s[k].high}

Endpoints(s) ==
    {[val |-> s[i].low, isRightEnd |-> LEFT, id |-> i] : i \in DOMAIN s} \cup
    {[val |-> s[i].high, isRightEnd |-> RIGHT, id |-> i] : i \in DOMAIN s}

\* (mutation) Without the perturbation, right ends first.
RightEndsFirst(e, d) ==
    e.val < d.val \/ (e.val = d.val /\ e.isRightEnd > d.isRightEnd)

\* The order after the perturbation: of endpoints with one value the left ones
\* moved down by multiples of 0.0001 and the right ones up, so that left ends
\* come first (as long as fewer than 5000 of a side share a value).  Endpoints
\* of one side and value come in any order.
Precedes(e, d) ==
    e.val < d.val \/ (e.val = d.val /\ e.isRightEnd < d.isRightEnd)

\* Field of a nonempty set of rules: the argument CreateUniqueInterval makes.
SchedulingInit ==
    /\ \E S \in (SUBSET Rule) \ {{}}, f \in Field :
          sorted_I \in SortedByHigh(CreateUniqueInterval(S, f))
    /\ endpoints = Endpoints(sorted_I)
    /\ chi = [i \in Index |-> 0]
    /\ temp_max = 0
    /\ last_interval = 1
    /\ max_MIS = 0
    /\ S_max = {}
    /\ j = 0
    /\ pc = "sweep"

Reach(e) ==
    /\ pc = "sweep"
    /\ e \in endpoints
    /\ \A d \in endpoints : ~Precedes(d, e)
    /\ endpoints' = endpoints \ {e}

\* A set that ends with this interval may take the best of what ended before it.
LeftEnd(e) ==
    /\ e.isRightEnd = LEFT
    /\ Reach(e)
    /\ chi' = [chi EXCEPT ![e.id] = temp_max + Weight(sorted_I[e.id])]
    /\ UNCHANGED <<sorted_I, temp_max, last_interval, max_MIS, S_max, j, pc>>

RightEnd(e) ==
    /\ e.isRightEnd = RIGHT
    /\ Reach(e)
    /\ IF chi[e.id] > temp_max
       THEN temp_max' = chi[e.id] /\ last_interval' = e.id
       ELSE UNCHANGED <<temp_max, last_interval>>
    /\ UNCHANGED <<sorted_I, chi, max_MIS, S_max, j, pc>>

StartWalk ==
    /\ pc = "sweep" /\ endpoints = {}
    /\ S_max' = {last_interval}
    /\ max_MIS' = temp_max
    /\ temp_max' = temp_max - Weight(sorted_I[last_interval])
    /\ j' = last_interval - 1
    /\ pc' = "walk"
    /\ UNCHANGED <<sorted_I, endpoints, chi, last_interval>>

\* (mutation) The weight alone decides.
BelongsByWeight(i) == chi[i] = temp_max

Belongs(i) == chi[i] = temp_max /\ Before(sorted_I[i], sorted_I[last_interval])

Walk ==
    /\ pc = "walk" /\ j > 0
    /\ IF Belongs(j)
       THEN /\ S_max' = S_max \cup {j}
            /\ temp_max' = temp_max - Weight(sorted_I[j])
            /\ last_interval' = j
       ELSE UNCHANGED <<S_max, temp_max, last_interval>>
    /\ j' = j - 1
    /\ UNCHANGED <<sorted_I, endpoints, chi, max_MIS, pc>>

EndWalk ==
    /\ pc = "walk" /\ j = 0
    /\ pc' = "done"
    /\ UNCHANGED <<sorted_I, endpoints, chi, temp_max, last_interval, max_MIS, S_max, j>>

SchedulingNext ==
    \/ \E e \in endpoints : LeftEnd(e) \/ RightEnd(e)
    \/ StartWalk
    \/ Walk
    \/ EndWalk

SchedulingSpec == SchedulingInit /\ [][SchedulingNext]_schedule

------------------------------------------------------------------------------
(* Properties                                                              *)

Intervals(X) == {sorted_I[i] : i \in X}

\* Intervals in the set returned are pairwise disjoint, at every moment of the walk.
ChosenAreIndependent == Independent(Intervals(S_max))

\* What is returned is what the partitioner relies on: a disjoint set of the
\* largest weight, with that weight beside it.
ReturnsMWIS ==
    pc = "done" => /\ Intervals(S_max) \in MWISIntervals(Intervals(Index))
                   /\ max_MIS = MaximumWeight(Intervals(Index))

==============================================================================
