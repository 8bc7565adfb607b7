------------------------- MODULE PartitionerUtilities -------------------------
(***************************************************************************)
(* The two sweeps that the offline partitioners call, each on its own:     *)
(* weighted interval scheduling, and the count of rules that share a       *)
(* packet.  Whichever is not called is idle.                               *)
(***************************************************************************)
EXTENDS IntervalScheduling, MaxIntersection

CONSTANT Counted     \* bound: the rules among which sharing ones are counted

CallMWISIntervals ==
    /\ SchedulingInit
    /\ ruleset = <<>> /\ qx = 0 /\ i_s = 0 /\ i_e = 0
    /\ rule_this_loop = <<>> /\ index_rule_this_loop = <<>> /\ inverse_index = <<>>
    /\ changed = FALSE /\ max_POM = 0 /\ stage = "idle"

CallComputeMaxIntersection ==
    /\ IntersectionInit(Counted)
    /\ sorted_I = <<>> /\ endpoints = {} /\ chi = <<>> /\ temp_max = 0
    /\ last_interval = 0 /\ max_MIS = 0 /\ S_max = {} /\ j = 0 /\ pc = "idle"

UtilitiesInit == CallMWISIntervals \/ CallComputeMaxIntersection

UtilitiesNext ==
    \/ SchedulingNext /\ UNCHANGED intersection
    \/ IntersectionNext /\ UNCHANGED schedule

UtilitiesSpec == UtilitiesInit /\ [][UtilitiesNext]_<<schedule, intersection>>

==============================================================================
