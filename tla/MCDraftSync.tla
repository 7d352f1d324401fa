----------------------------- MODULE MCDraftSync -----------------------------
(* An instance of DraftSync for TLC: an edit on each of two pages, which ask  *)
(* to be saved in different ways, and a run of one of them.                  *)
EXTENDS DraftSync, TLC

CONSTANTS p1, p2, e1, e2, q1, q2, l1

TwoQueues == {q1, q2}
OneLoose == {l1}
TwoPages == {p1, p2}
TwoEdits == {e1, e2}
OneEach == e1 :> p1 @@ e2 :> p2
LaterNowQuiet == e1 :> "later" @@ e2 :> "now_quiet"
\* A page may be hidden, started or cut off, or none.
OnlyTheFirst == {p1}
None == {}
=============================================================================
