------------------------------- MODULE MCJobs -------------------------------
(* Small instances of Jobs for TLC. *)
EXTENDS Jobs

CONSTANTS j1, j2, j3, s1, s2

TwoJobs   == {j1, j2}
ThreeJobs == {j1, j2, j3}

NoJobs  == {}
LastJob == {j3}

OneSession  == {s1}
TwoSessions == {s1, s2}

\* Every job talks in the same conversation.
SameSession == [j \in Jobs |-> s1]

\* j3 belongs to another conversation of the same user.
MixedSessions == [j \in Jobs |-> IF j = j3 THEN s2 ELSE s1]
=============================================================================
