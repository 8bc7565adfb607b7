------------------------------ MODULE MCSimulator ------------------------------
(***************************************************************************)
(* Five rules, so that both thresholds lie within reach of three           *)
(* insertions and three deletions: two rules are in use at first, four are *)
(* too many and one is too few.  Which rule is which does not matter.      *)
(***************************************************************************)
EXTENDS Simulator, TLC

CONSTANTS r1, r2, r3, r4, r5

mcRule == {r1, r2, r3, r4, r5}
mcRange == [r \in mcRule |-> << <<0, 1>> >>]
mcPriority == [r \in mcRule |-> 1]
mcPacket == { <<0>>, <<2>> }
mcPackets == << <<0>>, <<2>> >>

AnyRule == Permutations(mcRule)
==============================================================================
