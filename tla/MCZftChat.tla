------------------------------ MODULE MCZftChat ------------------------------
(* An instance of ZftChat for TLC: pages share nothing but the table, where *)
(* WeCom stands for the other writers.                                      *)
EXTENDS ZftChat, TLC

CONSTANT c1

OnePage == {c1}

\* One customer asks twice on a page, another one once over WeCom.
ThreeQuestions == 1..3
AskedOnPageOrWeCom == 1 :> c1 @@ 2 :> c1 @@ 3 :> WeCom
=============================================================================
