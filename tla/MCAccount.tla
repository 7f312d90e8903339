----------------------------- MODULE MCAccount -----------------------------
(***************************************************************************)
(* Account on a small instance: one person with two codes, two logins      *)
(* that may overlap, deletions, a second account after the first, and an   *)
(* area that holds more than a page shows.                                 *)
(***************************************************************************)
EXTENDS Account, TLC

CONSTANTS p1, c1, c2, dingtalk, k1, k2, config

BothTheirs == [c \in {c1, c2} |-> p1]
TwoAreas == <<Tasks, dingtalk>>
TwoTasks == [n \in {Tasks, dingtalk} |-> IF n = Tasks THEN {k1, k2} ELSE {config}]

\* Requests, user ids and tasks are as good as one another.
Symmetric == Permutations(Logins) \cup Permutations(Ids)
             \cup Permutations({k1, k2}) \cup Permutations(Deletions)

\* The answer to a request is read by the properties in the step that gives
\* it, and by nothing else: requests at rest are alike.
Remembered == <<account, given, tokens, secret, spent, store, thread, late,
                [l \in Logins |-> IF login[l].at = "idle" THEN NoLogin ELSE login[l]],
                [d \in Deletions |-> IF deletion[d].at = "idle" THEN NoDeletion
                                     ELSE deletion[d]]>>
============================================================================
