---------------------------- MODULE MaxIntersection ----------------------------
(***************************************************************************)
(* SortableRulesetPartitioner::ComputeMaxIntersection, a lower bound on    *)
(* the number of buckets: the largest number of different rules that share *)
(* a packet.  The last field is swept from low to high; the rules that are *)
(* open at a point are kept in a vector from which a rule is removed by    *)
(* swapping it with the last one, with two arrays to find it.  After each  *)
(* change the function calls itself for the open rules, one field down;    *)
(* here there are two fields, and that call is the base case.              *)
(***************************************************************************)
EXTENDS IntervalUtilities

VARIABLES
    ruleset,                \* the argument, a vector of rules
    qx,                     \* the position in queries
    i_s, i_e,               \* the positions in start_pointx and end_pointx
    rule_this_loop,         \* the open rules, as positions in ruleset
    index_rule_this_loop,   \* where in rule_this_loop a rule is, 0 before it is
    inverse_index,          \* which rule is at a position of rule_this_loop
    changed,                \* justInserted, then justDeleted
    max_POM,                \* the largest number seen
    stage                   \* "insert", "delete", or "done"

vectors == <<rule_this_loop, index_rule_this_loop, inverse_index>>
intersection == <<ruleset, qx, i_s, i_e, vectors, changed, max_POM, stage>>

N == Len(ruleset)

\* Pairs by value, then by the position of the rule.
InPairOrder(pairs) ==
    [k \in 1 .. Cardinality(pairs) |->
        CHOOSE a \in pairs :
            Cardinality({b \in pairs : b[1] < a[1] \/ (b[1] = a[1] /\ b[2] < a[2])}) = k - 1]

start_pointx == InPairOrder({<<Low(ruleset[i], Dim), i>> : i \in 1 .. N})
end_pointx == InPairOrder({<<High(ruleset[i], Dim), i>> : i \in 1 .. N})

\* Both bounds of every rule.
BoundsInOrder(rs) ==
    LET ValueOf(e) == range[rs[e[1]]][Dim][e[2]]
    IN  Sorted((1 .. Len(rs)) \X (1 .. 2), ValueOf)

queries == BoundsInOrder(ruleset)

\* The call one field down: how many different rules share a point of field 1.
MaxIntersectionBelow(S) ==
    LET LowOf(r) == Low(r, 1)
        HighOf(r) == High(r, 1)
        overlaps == {GetMaxOverlap(Sorted(V, LowOf), Sorted(V, HighOf)) : V \in RedundancyRemoval(S)}
    IN  CHOOSE n \in overlaps : TRUE

Open == {ruleset[i] : i \in Range(rule_this_loop)}

\* R bounds the rules that the caller may pass.
IntersectionInit(R) ==
    /\ \E S \in (SUBSET R) \ {{}} : ruleset \in Bijection(1 .. Cardinality(S), S)
    /\ qx = 1 /\ i_s = 1 /\ i_e = 1
    /\ rule_this_loop = <<>>
    /\ index_rule_this_loop = [i \in 1 .. N |-> 0]
    /\ inverse_index = [k \in 1 .. N |-> 0]
    /\ changed = FALSE
    /\ max_POM = 0
    /\ stage = "insert"

Starts == i_s <= N /\ start_pointx[i_s][1] = queries[qx]
Ends == i_e <= N /\ end_pointx[i_e][1] = queries[qx]

InsertOne ==
    /\ stage = "insert" /\ Starts
    /\ LET i == start_pointx[i_s][2]
           last == Len(rule_this_loop) + 1
       IN  /\ index_rule_this_loop' = [index_rule_this_loop EXCEPT ![i] = last]
           /\ inverse_index' = [inverse_index EXCEPT ![last] = i]
           /\ rule_this_loop' = Append(rule_this_loop, i)
    /\ i_s' = i_s + 1
    /\ changed' = TRUE
    /\ UNCHANGED <<ruleset, qx, i_e, max_POM, stage>>

Count == IF changed THEN Max({max_POM, MaxIntersectionBelow(Open)}) ELSE max_POM

Inserted ==
    /\ stage = "insert" /\ ~Starts
    /\ max_POM' = Count
    /\ changed' = FALSE
    /\ stage' = "delete"
    /\ UNCHANGED <<ruleset, qx, i_s, i_e, vectors>>

\* (mutation) The rule that is moved keeps its old position.
DeleteOneUnmoved ==
    /\ stage = "delete" /\ Ends
    /\ LET i == end_pointx[i_e][2]
           to_delete == index_rule_this_loop[i]
           last == Len(rule_this_loop)
       IN  /\ to_delete # 0
           /\ inverse_index' = [inverse_index EXCEPT ![to_delete] = inverse_index[last]]
           /\ rule_this_loop' = SubSeq([rule_this_loop EXCEPT ![to_delete] = rule_this_loop[last]], 1, last - 1)
    /\ i_e' = i_e + 1
    /\ changed' = TRUE
    /\ UNCHANGED <<ruleset, qx, i_s, index_rule_this_loop, max_POM, stage>>

\* The rule is swapped with the last one, and the last one dropped.  The entries
\* of the removed rule stay as they are.  Without a position for the rule the
\* program would exit.
DeleteOne ==
    /\ stage = "delete" /\ Ends
    /\ LET i == end_pointx[i_e][2]
           to_delete == index_rule_this_loop[i]
           last == Len(rule_this_loop)
           swapped == inverse_index[last]
           index == [index_rule_this_loop EXCEPT ![swapped] = to_delete]
       IN  /\ to_delete # 0
           /\ inverse_index' = [inverse_index EXCEPT ![to_delete] = swapped]
           /\ index_rule_this_loop' = index
           /\ rule_this_loop' =
                 SubSeq([rule_this_loop EXCEPT ![index[i]] = rule_this_loop[last]], 1, last - 1)
    /\ i_e' = i_e + 1
    /\ changed' = TRUE
    /\ UNCHANGED <<ruleset, qx, i_s, max_POM, stage>>

Deleted ==
    /\ stage = "delete" /\ ~Ends
    /\ max_POM' = Count
    /\ changed' = FALSE
    /\ qx' = qx + 1
    /\ stage' = IF qx = Len(queries) THEN "done" ELSE "insert"
    /\ UNCHANGED <<ruleset, i_s, i_e, vectors>>

IntersectionNext == InsertOne \/ Inserted \/ DeleteOne \/ Deleted

IntersectionSpec == IntersectionInit(Rule) /\ [][IntersectionNext]_intersection

------------------------------------------------------------------------------
(* Properties                                                              *)

\* Every point where intervals begin together is that of a packet.
CornersArrive == \A c \in [Field -> Rule] : [f \in Field |-> Low(c[f], f)] \in Packet

\* What is returned is the number of different rules at the busiest packet.
CountsBusiestPacket ==
    stage = "done" =>
        max_POM = Max({Cardinality({range[r] : r \in Matching(Range(ruleset), p)}) : p \in Packet})

==============================================================================
