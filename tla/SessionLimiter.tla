--------------------------- MODULE SessionLimiter ---------------------------
(***************************************************************************)
(* What the dispatcher of dify-on-wechat promises, whatever threads, locks *)
(* and queues it is made of: every message is handled at most once, and at *)
(* any time at most Limit messages of a session are being handled.  A      *)
(* message may also be given up before its handling begins (#reset, or a   *)
(* session forgotten together with its queue).                             *)
(***************************************************************************)
EXTENDS Naturals, FiniteSets

CONSTANTS Sessions, Msgs, SessionOf, Limit

VARIABLE phase  \* "new", "waiting", "active" or "over"

Active(s) == {m \in Msgs : SessionOf[m] = s /\ phase[m] = "active"}

Init == phase = [m \in Msgs |-> "new"]

Arrive(m) ==
    /\ phase[m] = "new"
    /\ phase' = [phase EXCEPT ![m] = "waiting"]

Begin(m) ==
    /\ phase[m] = "waiting"
    /\ Cardinality(Active(SessionOf[m])) < Limit
    /\ phase' = [phase EXCEPT ![m] = "active"]

Complete(m) ==
    /\ phase[m] = "active"
    /\ phase' = [phase EXCEPT ![m] = "over"]

\* Several messages of one session may be given up at once.
GiveUp(dropped) ==
    /\ \A m \in dropped : phase[m] = "waiting"
    /\ phase' = [m \in Msgs |-> IF m \in dropped THEN "over" ELSE phase[m]]

Next ==
    \/ \E m \in Msgs : Arrive(m) \/ Begin(m) \/ Complete(m)
    \/ \E dropped \in SUBSET Msgs : GiveUp(dropped)

Spec == Init /\ [][Next]_phase
=============================================================================
