--------------------------- MODULE MCPassiveReply ---------------------------
(* An instance of PassiveReply for TLC: users share nothing, one is enough. *)
EXTENDS PassiveReply, TLC

CONSTANT u1

OneUser == {u1}

ThreeMsgs == 1..3
ThreeByOneUser == 1 :> u1 @@ 2 :> u1 @@ 3 :> u1

TwoMsgs == 1..2
TwoByOneUser == 1 :> u1 @@ 2 :> u1

\* A reply in two parts first; the second message is refused; then a video.
PartsThenVideo == 1 :> {"long", "voices"} @@ 2 :> {} @@ 3 :> {"none", "video"}

\* Two voices, or an exception; a command that raises.
VoicesOrRaise == 1 :> {"voices", "raise"} @@ 2 :> {"raise"}

OnlyText == 1 :> {"text"} @@ 2 :> {"text"}
=============================================================================
