------------------------------ MODULE IntervalSet ------------------------------
(***************************************************************************)
(* What one level of a multidimensional interval tree promises, whatever   *)
(* tree stores it: a set of pairwise disjoint intervals that can be asked  *)
(* which interval holds a point, and whether another interval fits.        *)
(***************************************************************************)
EXTENDS Integers, FiniteSets

CONSTANTS
    Box,          \* the intervals that may occur, each <<low, high>>
    Point,        \* the points that may be asked for
    None          \* no interval, no reply

VARIABLES
    stored,       \* the intervals in the set
    reply         \* the reply of the last question, until its caller has it

Apart(a, b) == a[2] < b[1] \/ b[2] < a[1]
Holds(b, q) == b[1] <= q /\ q <= b[2]
Fits(b, S) == \A s \in S : s = b \/ Apart(s, b)

Init == stored = {} /\ reply = None

CanInsert(b) ==
    /\ reply = None
    /\ reply' = [asked |-> b, answer |-> IF Fits(b, stored) THEN {b} ELSE {}]
    /\ UNCHANGED stored

\* Only an interval that fits is inserted; inserting one that is there already
\* only changes what hangs below it.
Insert(b) ==
    /\ reply = None
    /\ Fits(b, stored)
    /\ stored' = stored \cup {b}
    /\ UNCHANGED reply

Delete(b) ==
    /\ reply = None
    /\ b \in stored
    /\ stored' = stored \ {b}
    /\ UNCHANGED reply

Find(q) ==
    /\ reply = None
    /\ reply' = [asked |-> <<q, q>>, answer |-> {b \in stored : Holds(b, q)}]
    /\ UNCHANGED stored

CollectReply ==
    /\ reply # None
    /\ reply' = None
    /\ UNCHANGED stored

Next ==
    \/ \E b \in Box : CanInsert(b) \/ Insert(b) \/ Delete(b)
    \/ \E q \in Point : Find(q)
    \/ CollectReply

Spec == Init /\ [][Next]_<<stored, reply>>
==============================================================================
