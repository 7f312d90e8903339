---------------------------- MODULE MCTaskApproval ----------------------------
(***************************************************************************)
(* TaskApproval on small instances: a task has a status and a priority,    *)
(* and each of them is either what it was or what it becomes.              *)
(***************************************************************************)
EXTENDS TaskApproval

TaskFields == {"status", "priority"}
Either     == {0, 1}
Untouched  == {[f \in TaskFields |-> 0]}
OnePatch   == {[field |-> "status", value |-> 1]}
TwoPatches == {[field |-> f, value |-> 1] : f \in TaskFields}
===============================================================================
