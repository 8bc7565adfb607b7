---------------------------- MODULE MCValidation ----------------------------
(***************************************************************************)
(* Four points in the first field and eight in the second.  When "web" and *)
(* "mail" are alone, HyperCuts cuts the first field into eight parts; with *)
(* "any" there are so many copies of rules that it stops in time.          *)
(***************************************************************************)
EXTENDS Validation, TLC

mcRange ==
    ("web"  :> << <<2, 2>>, <<0, 7>> >>) @@
    ("mail" :> << <<1, 1>>, <<0, 7>> >>) @@
    ("row"  :> << <<0, 3>>, <<5, 5>> >>) @@
    ("left" :> << <<0, 1>>, <<0, 2>> >>) @@
    ("box"  :> << <<1, 3>>, <<4, 7>> >>) @@
    ("any"  :> << <<0, 3>>, <<0, 7>> >>)

mcRule == DOMAIN mcRange
mcPriority == ("row" :> 5) @@ ("web" :> 4) @@ ("left" :> 3) @@ ("mail" :> 2) @@ ("box" :> 1) @@ ("any" :> 0)
mcPacket == { <<0, 1>>, <<2, 5>>, <<1, 7>>, <<3, 3>> }
mcTop == <<3, 7>>
==============================================================================
