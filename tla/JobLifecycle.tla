---------------------------- MODULE JobLifecycle ----------------------------
(***************************************************************************)
(* What app/jobs makes of its durable records, without registries, events, *)
(* decisions or a clock: the lifecycle that models.py documents,           *)
(*     pending -> running -> (interrupt -> running)* -> done               *)
(* with failed and timeout reachable from every non-terminal status, and   *)
(* one active job per session.  One call may settle several jobs, so a     *)
(* step moves any number of them.                                          *)
(*                                                                         *)
(* Two things break the documented rules, and nothing else: a runner that  *)
(* has outlived its job's expiry writes its own copy over a settled or     *)
(* deleted record, and a submit that searched a crowded namespace may miss *)
(* the active job of its session.                                          *)
(***************************************************************************)
CONSTANTS Jobs, SessionOf

VARIABLES
    status,    \* of the record of a job; "absent": not created, or pruned
    runners,   \* jobs with a runner coroutine
    outlived,  \* jobs past their expires_at
    crowded    \* sessions a submit of which searched a crowded namespace

lifecycle == <<status, runners, outlived, crowded>>

ActiveStatuses   == {"pending", "running", "interrupt"}
TerminalStatuses == {"done", "failed", "timeout"}

\* The moves of one record after its creation.
Moves ==
    {<<"pending", "running">>, <<"running", "interrupt">>,
     <<"interrupt", "running">>, <<"running", "done">>}
    \cup (ActiveStatuses \X {"failed", "timeout"})
    \cup (TerminalStatuses \X {"absent"})

\* A stale record may be settled and pruned by one submit.
SettledAndPruned == ActiveStatuses \X {"absent"}

\* What a runner past its job's lifetime saves over a settled record.
LateSaves ==
    (TerminalStatuses \cup {"absent"}) \X ({"interrupt"} \cup TerminalStatuses)

Init ==
    /\ status \in [Jobs -> TerminalStatuses \cup {"absent"}]
    /\ runners = {}
    /\ crowded = {}

Created(j) == status[j] = "absent" /\ status'[j] = "pending"

\* j gets its runner, and no other job of its session that is inside its
\* lifetime stays active.
CreatedAlone(j) ==
    /\ j \notin runners
    /\ j \in runners' \ outlived'
    /\ \A i \in Jobs \ {j} :
          SessionOf[i] = SessionOf[j] /\ status'[i] \in ActiveStatuses
              => i \in outlived' \/ SessionOf[j] \in crowded'

Moved(j) ==
    LET move == <<status[j], status'[j]>>
    IN  \/ status'[j] = status[j]
        \/ move \in Moves \cup SettledAndPruned
        \/ move \in LateSaves /\ j \in runners \cap outlived

Next ==
    /\ status' \in [Jobs -> ActiveStatuses \cup TerminalStatuses \cup {"absent"}]
    /\ crowded \subseteq crowded'
    /\ \A j \in Jobs :
          \/ Created(j) /\ CreatedAlone(j)
          \/ /\ Moved(j)
             /\ j \in runners' => j \in runners
             /\ j \in outlived => j \in outlived'

Spec == Init /\ [][Next]_lifecycle
=============================================================================
