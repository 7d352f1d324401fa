--------------------------- MODULE MCChatDispatch ---------------------------
(* Instances of ChatDispatch for TLC. *)
EXTENDS ChatDispatch, TLC

CONSTANTS s1, s2

TwoSessions == {s1, s2}

\* Two users; one resets while it writes, the other resets everybody.
MixedMsgs == 1..4
MixedSession == 1 :> s1 @@ 2 :> s1 @@ 3 :> s1 @@ 4 :> s2
MixedKind == 1 :> "chat" @@ 2 :> "reset" @@ 3 :> "chat" @@ 4 :> "resetall"

\* One user writes, resets and writes again, another one just writes.
OrderMsgs == 1..5
OrderSession == 1 :> s1 @@ 2 :> s1 @@ 3 :> s1 @@ 4 :> s1 @@ 5 :> s2
OrderKind == 1 :> "chat" @@ 2 :> "chat" @@ 3 :> "reset" @@ 4 :> "chat" @@ 5 :> "chat"
=============================================================================
