------------------------- MODULE MCDifyConversation -------------------------
(* Instances of DifyConversation for TLC. *)
EXTENDS DifyConversation, TLC

CONSTANTS s1, s2

TwoSessions == {s1, s2}

\* One user talks long enough to begin another conversation, and resets; another
\* one writes and resets everybody.
Talk == 1..6
TalkSession == [m \in Talk |-> IF m <= 4 THEN s1 ELSE s2]
TalkKind == [m \in Talk |-> CASE m = 4 -> "reset" [] m = 6 -> "resetall" [] OTHER -> "chat"]
=============================================================================
