------------------------------ MODULE MC_Votes ------------------------------
(* A small instance of VoteQueue for TLC. *)
EXTENDS VoteQueue

CONSTANTS drep1, pool1, c1, v1, v2

TwoActions == 1 .. 2
OneDRep == {drep1}
OnePool == {pool1}
NoMember == {}
OneCreator == {c1}
TwoVoters == {v1, v2}
=============================================================================
