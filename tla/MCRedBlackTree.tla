---------------------------- MODULE MCRedBlackTree ----------------------------
(***************************************************************************)
(* Seven disjoint intervals, enough for every case of both repair loops on *)
(* both sides, and one that overlaps two of them.  The points asked for    *)
(* are an end of an interval, an inner point, and a point between two.     *)
(***************************************************************************)
EXTENDS RedBlackTree

mcBox == { <<0, 0>>, <<1, 2>>, <<3, 3>>, <<4, 6>>, <<8, 8>>, <<9, 10>>, <<11, 11>>, <<2, 3>> }
mcPoint == {2, 5, 7}
==============================================================================
