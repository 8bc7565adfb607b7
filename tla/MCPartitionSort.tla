--------------------------- MODULE MCPartitionSort ---------------------------
(***************************************************************************)
(* A small instance of PartitionSort: boxes in a 4 x 4 plane.  "any"       *)
(* matches everything and so needs a tree of its own; "south" overlaps     *)
(* "west" in the first field and is separable from it only in the second;  *)
(* "corner" shares the interval of "west" in the first field; "slope" is   *)
(* separable from "west" in the first field but not in the second.  The    *)
(* field order of a tree, and with it what fits, depends on which rule     *)
(* opened it.                                                              *)
(***************************************************************************)
EXTENDS PartitionSort, TLC

mcRange ==
    ("any"    :> << <<0, 3>>, <<0, 3>> >>) @@
    ("west"   :> << <<0, 1>>, <<2, 2>> >>) @@
    ("south"  :> << <<1, 2>>, <<0, 1>> >>) @@
    ("corner" :> << <<0, 1>>, <<3, 3>> >>) @@
    ("slope"  :> << <<2, 3>>, <<1, 2>> >>)

mcRule == DOMAIN mcRange

\* ClassBench files give the first rule the highest priority, the last one 0.
mcPriority ==
    ("corner" :> 4) @@ ("south" :> 3) @@ ("any" :> 2) @@ ("slope" :> 1) @@
    ("west" :> 0)

mcFieldSize == <<4, 4>>
mcPacket == { <<0, 2>>, <<2, 1>>, <<1, 3>> }

Addresses == Permutations(Ptr)
==============================================================================
