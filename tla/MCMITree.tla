------------------------------- MODULE MCMITree -------------------------------
(***************************************************************************)
(* Three fields of four points.  Three rules are the same box, two of them *)
(* with the same priority; the others leave that box in the last, the      *)
(* second or the first field, or overlap it.                               *)
(***************************************************************************)
EXTENDS MITree, TLC

mcRange ==
    ("point"  :> << <<0, 0>>, <<0, 0>>, <<0, 0>> >>) @@
    ("same"   :> << <<0, 0>>, <<0, 0>>, <<0, 0>> >>) @@
    ("again"  :> << <<0, 0>>, <<0, 0>>, <<0, 0>> >>) @@
    ("last"   :> << <<0, 0>>, <<0, 0>>, <<1, 3>> >>) @@
    ("second" :> << <<0, 0>>, <<1, 2>>, <<0, 3>> >>) @@
    ("first"  :> << <<1, 3>>, <<0, 0>>, <<0, 0>> >>) @@
    ("wide"   :> << <<0, 1>>, <<0, 0>>, <<1, 1>> >>) @@
    ("far"    :> << <<1, 3>>, <<3, 3>>, <<0, 0>> >>)

mcRule == DOMAIN mcRange

mcPriority ==
    ("point" :> 6) @@ ("same" :> 4) @@ ("again" :> 4) @@ ("last" :> 5) @@
    ("second" :> 3) @@ ("first" :> 2) @@ ("wide" :> 1) @@ ("far" :> 0)

mcFieldSize == <<4, 4, 4>>
mcPacket == { <<0, 0, 0>>, <<0, 0, 3>>, <<0, 2, 1>>, <<1, 0, 0>>, <<3, 3, 0>>, <<2, 2, 2>> }
==============================================================================
