-------------------------- MODULE MCTupleSpaceSearch --------------------------
(***************************************************************************)
(* Two-bit addresses and a port.  Three tuples: "any" alone, "dst" alone,  *)
(* and three rules with one bit of source address, two of them in one      *)
(* chain and the third with the same hash by collision.  The deletion of   *)
(* "web" moves its tuple behind that of "dst".                             *)
(***************************************************************************)
EXTENDS TupleSpaceSearch, TLC

mcPrefixRange ==
    ("any"   :> << <<0, 3>>, <<0, 3>>, <<0, 3>> >>) @@
    ("dst"   :> << <<0, 3>>, <<2, 3>>, <<0, 3>> >>) @@
    ("web"   :> << <<2, 3>>, <<0, 3>>, <<0, 1>> >>) @@
    ("mail"  :> << <<2, 3>>, <<0, 3>>, <<1, 2>> >>) @@
    ("other" :> << <<0, 1>>, <<0, 3>>, <<1, 1>> >>)

mcPrefixRule == DOMAIN mcPrefixRange

\* An MSU file may hold any intervals.
mcRangeRange ==
    ("any"  :> << <<0, 3>>, <<0, 3>>, <<0, 3>> >>) @@
    ("dst"  :> << <<0, 3>>, <<2, 3>>, <<0, 3>> >>) @@
    ("some" :> << <<1, 2>>, <<0, 3>>, <<0, 3>> >>)

mcRangeRule == DOMAIN mcRangeRange

mcPriority == ("web" :> 4) @@ ("dst" :> 3) @@ ("mail" :> 2) @@ ("other" :> 1) @@ ("any" :> 0)
mcRangePriority == ("some" :> 2) @@ ("dst" :> 1) @@ ("any" :> 0)

mcHash == [a \in (0 .. 3) \X (0 .. 3) |-> (a[1] \div 2 + a[1] + a[2]) % 3]
mcPacket == { <<3, 1, 1>>, <<2, 3, 2>>, <<0, 2, 1>>, <<1, 0, 3>> }
==============================================================================
