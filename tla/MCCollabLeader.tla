---------------------------- MODULE MCCollabLeader ----------------------------
(* An instance of CollabLeader for TLC. *)
EXTENDS CollabLeader, TLC

CONSTANTS s1, s2, s3

TwoSessions == {s1, s2}
ThreeSessions == {s1, s2, s3}
First == {s1}
Second == {s2}
Third == {s3}
None == {}
=============================================================================
