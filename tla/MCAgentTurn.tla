---------------------------- MODULE MCAgentTurn ----------------------------
(***************************************************************************)
(* AgentTurn on small instances: one run at a time with one model that may *)
(* fall back to another and one failure of each sort that the code tells   *)
(* apart; and two runs that overlap in the conversation, with one model.   *)
(***************************************************************************)
EXTENDS AgentTurn, TLC

OneOfEach == {"server_error", "bad_request", "unlisted", "node_timeout"}
TriedAgain == {"server_error", "node_timeout"}

\* The runs are as good as one another.
Symmetric == Permutations(Runs)
============================================================================
