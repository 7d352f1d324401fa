------------------------------ MODULE MCZftAdmin -----------------------------
(* An instance of ZftAdmin for TLC: two pages, one of which types two items. *)
EXTENDS ZftAdmin, TLC

CONSTANTS a1, a2, i1, i2

TwoPages == {a1, a2}
TwoItems == {i1, i2}
BothOnOne == i1 :> a1 @@ i2 :> a1
ThreeAndOne == a1 :> 3 @@ a2 :> 1
=============================================================================
