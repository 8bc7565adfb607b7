------------------------------- MODULE MCCmap -------------------------------
(***************************************************************************)
(* Two slots to a bucket, so that the table has 1, 2 and 4 buckets with up *)
(* to six nodes.  "a" and "A" share a chain; the hash of "e" is that of    *)
(* slots that were never used.  With the good basis "d" has one bucket     *)
(* only, and room for it is made by one move or two; with the bad one      *)
(* three chains compete for two slots, in tables of any size.              *)
(***************************************************************************)
EXTENDS Cmap, TLC

mcHashOf == ("a" :> 1) @@ ("A" :> 1) @@ ("b" :> 2) @@ ("c" :> 3) @@ ("d" :> 4) @@ ("e" :> 0)

mcRehashed ==
    ("good" :> (0 :> <<1, 2>> @@ 1 :> <<0, 1>> @@ 2 :> <<0, 1>> @@ 3 :> <<1, 2>> @@ 4 :> <<0, 0>>)) @@
    ("bad"  :> (0 :> <<2, 1>> @@ 1 :> <<3, 0>> @@ 2 :> <<1, 1>> @@ 3 :> <<1, 1>> @@ 4 :> <<1, 1>>))

mcNode == DOMAIN mcHashOf
mcBasis == DOMAIN mcRehashed
==============================================================================
