------------------------- MODULE MCRulesetPartitioner -------------------------
(***************************************************************************)
(* Two fields of four points.  "a" to "d" are sortable by the first field, *)
(* while the second one has a heaviest disjoint set of three of them;      *)
(* "twin" is identical to "a", and "all" overlaps everything.              *)
(***************************************************************************)
EXTENDS RulesetPartitioner, TLC

mcRange ==
    ("a"    :> << <<0, 1>>, <<0, 0>> >>) @@ ("b"   :> << <<0, 1>>, <<2, 2>> >>) @@
    ("c"    :> << <<2, 3>>, <<0, 1>> >>) @@ ("d"   :> << <<2, 3>>, <<3, 3>> >>) @@
    ("twin" :> << <<0, 1>>, <<0, 0>> >>) @@ ("all" :> << <<0, 3>>, <<0, 3>> >>) @@
    ("cross" :> << <<1, 2>>, <<1, 1>> >>)

mcRule == DOMAIN mcRange
mcPriority == [r \in Rule |-> 0]
mcPacket == [1 .. 2 -> 0 .. 3]
mcFieldSize == <<4, 4>>
==============================================================================
