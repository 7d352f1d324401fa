--------------------------- MODULE MCTokenRefresh ----------------------------
(* Instances of TokenRefresh for TLC. *)
EXTENDS TokenRefresh, TLC

CONSTANTS t1, t2, c1, c2, c3

TwoTabs == {t1, t2}
ThreeCalls == {c1, c2, c3}
\* Two calls of one tab, and one of another.
TwoAndOne == c1 :> t1 @@ c2 :> t1 @@ c3 :> t2
OnlyTheOther == {t2}
=============================================================================
