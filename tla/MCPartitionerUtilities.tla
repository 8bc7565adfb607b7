------------------------ MODULE MCPartitionerUtilities ------------------------
(***************************************************************************)
(* Two fields of four points.  The rules have intervals that touch, nest,  *)
(* share an end point, or are the same; every nonempty subset is           *)
(* scheduled by either field.  Six of the rules touch, are identical,      *)
(* agree in one field, or begin after others have ended; every nonempty    *)
(* subset of them is counted, in every order.                              *)
(***************************************************************************)
EXTENDS PartitionerUtilities, TLC

mcRange ==
    ("low"   :> << <<0, 0>>, <<3, 3>> >>) @@ ("point" :> << <<2, 2>>, <<0, 0>> >>) @@
    ("all"   :> << <<0, 3>>, <<0, 3>> >>) @@ ("all2"  :> << <<0, 3>>, <<0, 3>> >>) @@
    ("a"     :> << <<0, 1>>, <<0, 1>> >>) @@ ("b"     :> << <<1, 2>>, <<1, 2>> >>) @@
    ("c"     :> << <<2, 3>>, <<1, 3>> >>) @@ ("twin"  :> << <<0, 1>>, <<0, 1>> >>) @@
    ("tall"  :> << <<0, 1>>, <<1, 2>> >>)

mcRule == DOMAIN mcRange
mcPriority == [r \in mcRule |-> 0]
mcPacket == [1 .. 2 -> 0 .. 3]
mcCounted == {"a", "c", "twin", "tall", "point", "low"}

\* What the theorem about the busiest packet supposes is so here.
ASSUME CornersAreHere == Dim = 2 /\ CornersArrive

==============================================================================
