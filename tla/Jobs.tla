-------------------------------- MODULE Jobs --------------------------------
(***************************************************************************)
(* The polling chat jobs of app/jobs: runner.py (submit, get, resume and   *)
(* the background coroutine _execute), store.py (the durable records) and  *)
(* models.py (their statuses).                                             *)
(*                                                                         *)
(* One server process runs one event loop: the code between two awaits     *)
(* that really suspend is one action.  Several runner coroutines, the HTTP *)
(* handlers of any number of clients, the timers of asyncio.wait_for and   *)
(* crashes of the process interleave.  Every job belongs to the same user: *)
(* the store has one namespace per user, and users share nothing else than *)
(* the registries, which are keyed by job id.                              *)
(***************************************************************************)
EXTENDS Integers, FiniteSets

CONSTANTS
    Jobs,           \* job ids (uuid4: an id is never used twice)
    Old,            \* jobs of earlier days whose records may still be stored
    OldAge,         \* age of those records when the clock starts
    Sessions,       \* the user's frontend session ids
    SessionOf,      \* the session each job is submitted for
    RunTimeout,     \* RUN_TIMEOUT_SECONDS
    ResumeTimeout,  \* RESUME_TIMEOUT_SECONDS
    Slack,          \* the 60 of JOB_EXPIRY_SECONDS
    FilterTimeout,  \* longest run of filter_risky_reply (its HTTP timeouts)
    PruneAge,       \* max_age_hours of prune_old_jobs
    SearchLimit,    \* items a store.search returns at most
    StoreMayFail,   \* whether a store call may raise
    MaxRounds,      \* bound: interrupts of one job
    MaxCrashes,     \* bound: crashes of the process
    LastSubmit,     \* bound: no submit after this time
    MaxTime         \* bound: the clock stops here

ASSUME ConstantsAssumption ==
    /\ SessionOf \in [Jobs -> Sessions]
    /\ Old \subseteq Jobs
    /\ OldAge \in Nat
    /\ RunTimeout \in Nat \ {0}
    /\ ResumeTimeout \in Nat \ {0}
    /\ Slack \in Nat
    /\ FilterTimeout \in Nat
    /\ PruneAge \in Nat
    /\ SearchLimit \in Nat \ {0}
    /\ StoreMayFail \in BOOLEAN
    /\ MaxRounds \in Nat
    /\ MaxCrashes \in Nat
    /\ LastSubmit \in Nat
    /\ MaxTime \in Nat

VARIABLES
    now,        \* the wall clock, in ticks
    crashes,    \* crashes so far (counts towards MaxCrashes only)
    rec,        \* the job namespace of the store: durable
    live,       \* _live_jobs
    event,      \* _resume_events: "none" | "unset" | "set"
    decision,   \* _resume_decisions: 0, or the round the decision answers
    pc,         \* where the coroutine _execute of a job is suspended
    held,       \* job.interrupt in the coroutine's own Job object
    round,      \* interrupts the graph has raised in this job
    command,    \* what the current turn resumes with (0: {} or the message)
    deadline,   \* when the pending wait_for (or the filter) runs out
    seen,       \* rounds whose approval card a client has been shown
    crowded     \* history: sessions one of whose submits was let in while the
                \* namespace held more records than a search returns

store   == <<rec>>
process == <<live, event, decision>>
runner  == <<pc, held, round, command, deadline>>
vars    == <<now, crashes, store, process, runner, seen, crowded>>

(***************************************************************************)
(* The program's types.                                                    *)
(***************************************************************************)
ActiveStatuses   == {"pending", "running", "interrupt"}
TerminalStatuses == {"done", "failed", "timeout"}

\* The payload of the k-th interrupt is the number k; 0 is None.
Rounds == 0 .. MaxRounds

Record == [status    : ActiveStatuses \cup TerminalStatuses \cup {"absent"},
           interrupt : Rounds,
           created   : Nat]

NoRecord  == [status |-> "absent", interrupt |-> 0, created |-> 0]
OldRecord == [status |-> "done", interrupt |-> 0, created |-> 0]

\* The jobs that are submitted while the clock runs.
Current == Jobs \ Old

PC == {"none", "scheduled", "turn", "paused", "filter", "gone"}

TypeOK ==
    /\ now \in Nat
    /\ crashes \in Nat
    /\ rec \in [Jobs -> Record]
    /\ live \in SUBSET Jobs
    /\ event \in [Jobs -> {"none", "unset", "set"}]
    /\ decision \in [Jobs -> Rounds]
    /\ pc \in [Jobs -> PC]
    /\ held \in [Jobs -> Rounds]
    /\ round \in [Jobs -> Rounds]
    /\ command \in [Jobs -> Rounds]
    /\ deadline \in [Jobs -> Nat]
    /\ seen \in [Jobs -> SUBSET Rounds]
    /\ crowded \in SUBSET Sessions

\* A process starts: its registries are empty, and the store may hold records
\* of jobs that were settled OldAge ago.
Init ==
    /\ now = OldAge
    /\ crashes = 0
    /\ \E kept \in SUBSET Old :
          rec = [j \in Jobs |-> IF j \in kept THEN OldRecord ELSE NoRecord]
    /\ live = {}
    /\ event = [j \in Jobs |-> "none"]
    /\ decision = [j \in Jobs |-> 0]
    /\ pc = [j \in Jobs |-> IF j \in Old THEN "gone" ELSE "none"]
    /\ held = [j \in Jobs |-> 0]
    /\ round = [j \in Jobs |-> 0]
    /\ command = [j \in Jobs |-> 0]
    /\ deadline = [j \in Jobs |-> 0]
    /\ seen = [j \in Jobs |-> {}]
    /\ crowded = {}

(***************************************************************************)
(* The store.                                                              *)
(***************************************************************************)
Expiry == RunTimeout + ResumeTimeout + Slack

Existing    == {j \in Jobs : rec[j].status # "absent"}
Active(j)   == rec[j].status \in ActiveStatuses
Terminal(j) == rec[j].status \in TerminalStatuses
Expired(j)  == now > rec[j].created + Expiry

\* Seeded fault: every active record counts as expired.
StaleWhenActive(j) == Active(j)

\* An active record past its expires_at, which the next read settles.
Stale(j) == Active(j) /\ Expired(j)
\* An active record that counts as the holder of its session.
Fresh(j) == Active(j) /\ ~Expired(j)

\* One page of store.search shows the whole job namespace.
PageHoldsAll == Cardinality(Existing) <= SearchLimit

\* What store.search may return: every record, or any SearchLimit of them.
SearchResults ==
    {found \in SUBSET Existing :
        IF PageHoldsAll
        THEN found = Existing
        ELSE Cardinality(found) = SearchLimit}

\* Seeded fault: a paused job does not hold its session.
FindActiveButPaused(j, settled, holder) ==
    \E found \in SearchResults :
        LET stale == {i \in found : Stale(i)}
            mine  == {i \in found : /\ Fresh(i) /\ SessionOf[i] = SessionOf[j]
                                   /\ rec[i].status # "interrupt"}
        IN  \/ mine = {} /\ holder = {} /\ settled = stale
            \/ /\ settled \subseteq stale
               /\ \E a \in mine : holder = {a}

\* find_active_job settled the stale records in `settled' and returned the
\* only member of `holder', or None when `holder' is empty.
FindActive(j, settled, holder) ==
    \E found \in SearchResults :
        LET stale == {i \in found : Stale(i)}
            mine  == {i \in found : Fresh(i) /\ SessionOf[i] = SessionOf[j]}
        IN  \/ mine = {} /\ holder = {} /\ settled = stale
            \/ /\ settled \subseteq stale
               /\ \E a \in mine : holder = {a}

\* Seeded faults: an orphan is told from an expired job by a status of its
\* own; the orphan is settled but not saved.
ClearedAsOrphaned(settled, holder, pruned) ==
    [i \in Jobs |-> IF i \in settled \cup holder
                    THEN [rec[i] EXCEPT !.status = "orphaned"] ELSE rec[i]]
ClearedButHolder(settled, holder, pruned) ==
    [i \in Jobs |-> IF i \in settled
                    THEN [rec[i] EXCEPT !.status = "timeout"] ELSE rec[i]]

\* The records after the first `settled' were expired, `holder' settled as an
\* orphan (its payload cleared) and `pruned' deleted.
Cleared(settled, holder, pruned) ==
    [i \in Jobs |->
        IF i \in pruned
        THEN [rec[i] EXCEPT !.status = "absent", !.interrupt = 0]
        ELSE IF i \in holder
        THEN [rec[i] EXCEPT !.status = "timeout", !.interrupt = 0]
        ELSE IF i \in settled THEN [rec[i] EXCEPT !.status = "timeout"]
        ELSE rec[i]]

\* Seeded fault: prunes by age alone, and by the wrong age.
PruneResultsByAge(settled, holder) ==
    {{i \in found : now > rec[i].created + RunTimeout} :
        found \in SearchResults}

\* What prune_old_jobs may delete once `settled' and `holder' are settled.
PruneResults(settled, holder) ==
    {{i \in found : /\ Terminal(i) \/ i \in settled \cup holder
                    /\ now > rec[i].created + PruneAge} :
        found \in SearchResults}

\* Seeded fault: get_job returns the record as it is.
ReadAsIs(j) == rec

\* get_job's lazy expiry of the record it reads.
LazilyExpired(j) == IF Stale(j) THEN Cleared({j}, {}, {}) ELSE rec

\* save_job of the runner's own Job object: a blind put of all its fields.
Saved(j, s, payload) ==
    [rec EXCEPT ![j].status = s, ![j].interrupt = payload]

(***************************************************************************)
(* The end of a runner coroutine and the start of its turns.               *)
(***************************************************************************)
Alive(j) == pc[j] \in {"scheduled", "turn", "paused", "filter"}

\* The coroutine ends; its locals die with it.
RunnerGone(j) ==
    /\ pc' = [pc EXCEPT ![j] = "gone"]
    /\ held' = [held EXCEPT ![j] = 0]
    /\ round' = [round EXCEPT ![j] = 0]
    /\ command' = [command EXCEPT ![j] = 0]
    /\ deadline' = [deadline EXCEPT ![j] = 0]

\* Seeded fault: the finally block forgets the decision.
CleanUpKeepsDecision(j) ==
    /\ live' = live \ {j}
    /\ event' = [event EXCEPT ![j] = "none"]
    /\ decision' = decision
    /\ RunnerGone(j)

\* The `finally' block, then the end of the coroutine.
CleanUp(j) ==
    /\ live' = live \ {j}
    /\ event' = [event EXCEPT ![j] = "none"]
    /\ decision' = [decision EXCEPT ![j] = 0]
    /\ RunnerGone(j)

\* `except Exception': settle the job as failed; that save may raise as well.
RunnerRaises(j, payload) ==
    /\ \/ rec' = Saved(j, "failed", payload)
       \/ StoreMayFail /\ UNCHANGED rec
    /\ CleanUp(j)
    /\ UNCHANGED <<now, crashes, seen, crowded>>

\* A turn starts: wait_for(graph.ainvoke(command), RUN_TIMEOUT_SECONDS).
StartTurn(j) ==
    /\ pc' = [pc EXCEPT ![j] = "turn"]
    /\ deadline' = [deadline EXCEPT ![j] = now + RunTimeout]

(***************************************************************************)
(* submit().                                                               *)
(***************************************************************************)
CanSubmit(j) == pc[j] = "none" /\ now <= LastSubmit

\* Seeded fault: a holder with a live runner is settled like an orphan.
OrphanedAnyway(holder) == TRUE

\* The holder of the session, if any, is not in _live_jobs.
Orphaned(holder) == holder \cap live = {}

\* No live job holds the session: settle an orphan, prune, create, start.
SubmitAdmitted(j) ==
    /\ CanSubmit(j)
    /\ \E settled \in SUBSET Existing, holder \in SUBSET Existing :
        /\ FindActive(j, settled, holder)
        /\ Orphaned(holder)
        /\ \E pruned \in PruneResults(settled, holder) :
            rec' = [Cleared(settled, holder, pruned) EXCEPT
                        ![j] = [status |-> "pending", interrupt |-> 0,
                                created |-> now]]
    /\ crowded' = IF PageHoldsAll THEN crowded ELSE crowded \cup {SessionOf[j]}
    /\ live' = live \cup {j}
    /\ pc' = [pc EXCEPT ![j] = "scheduled"]
    /\ UNCHANGED <<now, crashes, event, decision, held, round, command,
                   deadline, seen>>

\* ActiveJobConflict: only find_active_job's lazy expiries are left behind.
SubmitConflict(j) ==
    /\ CanSubmit(j)
    /\ \E settled \in SUBSET Existing, holder \in SUBSET Existing :
        /\ FindActive(j, settled, holder)
        /\ ~Orphaned(holder)
        /\ rec' = Cleared(settled, {}, {})
    /\ UNCHANGED <<now, crashes, process, runner, seen, crowded>>

\* A store call of submit() raises: the writes before it stay, no job exists.
SubmitBreaks(j) ==
    /\ StoreMayFail
    /\ CanSubmit(j)
    /\ \/ \E settled \in SUBSET {i \in Jobs : Stale(i)} :
            rec' = Cleared(settled, {}, {})
       \/ \E settled \in SUBSET Existing, holder \in SUBSET Existing :
            /\ FindActive(j, settled, holder)
            /\ Orphaned(holder)
            /\ \E prunable \in PruneResults(settled, holder) :
                \E pruned \in SUBSET prunable :
                    rec' = Cleared(settled, holder, pruned)
    /\ UNCHANGED <<now, crashes, process, runner, seen, crowded>>

(***************************************************************************)
(* get(): a poll, with get_job's lazy expiry.                              *)
(***************************************************************************)
Poll(j) ==
    /\ rec[j].status # "absent"
    /\ rec' = LazilyExpired(j)
    /\ seen' = IF rec'[j].status = "interrupt"
               THEN [seen EXCEPT ![j] = @ \cup {rec[j].interrupt}]
               ELSE seen
    /\ UNCHANGED <<now, crashes, process, runner, crowded>>

(***************************************************************************)
(* resume(): the client answers the card of round r.  Requests may be      *)
(* repeated or delayed, so r is any round a client has seen, or the        *)
(* current one (a client that rejects the job a 409 named).                *)
(***************************************************************************)
\* Seeded fault: the record stays interrupted until the runner saves it.
NotFlipped(j) == rec

\* resume() flips the record optimistically and clears the payload.
Flipped(j) == Saved(j, "running", 0)

\* A paused runner waits in this process: hand it the decision and wake it.
ResumeDelivered(j, r) ==
    /\ rec[j].status = "interrupt" /\ ~Expired(j)
    /\ event[j] # "none"
    /\ r \in (seen[j] \cup {rec[j].interrupt}) \ {0}
    /\ decision' = [decision EXCEPT ![j] = r]
    /\ \/ /\ rec' = Flipped(j)
          /\ event' = [event EXCEPT ![j] = "set"]
       \/ /\ StoreMayFail               \* save_job raises: event.set() not reached
          /\ UNCHANGED <<rec, event>>
    /\ UNCHANGED <<now, crashes, live, runner, seen, crowded>>

\* No event: the runner died with an earlier process.
ResumeOrphan(j) ==
    /\ rec[j].status = "interrupt" /\ ~Expired(j)
    /\ event[j] = "none"
    /\ rec' = Saved(j, "timeout", 0)
    /\ UNCHANGED <<now, crashes, process, runner, seen, crowded>>

\* get_job expires the record: JobNotResumable, the expiry stays.
ResumeExpired(j) ==
    /\ Stale(j)
    /\ rec' = LazilyExpired(j)
    /\ UNCHANGED <<now, crashes, process, runner, seen, crowded>>

(***************************************************************************)
(* _execute(): the runner coroutine of job j.                              *)
(***************************************************************************)
\* The task is scheduled: read the record, save it as running, first turn.
ExecuteStart(j) ==
    /\ pc[j] = "scheduled"
    /\ rec[j].status # "absent"
    /\ \/ /\ rec' = Saved(j, "running", rec[j].interrupt)
          /\ held' = [held EXCEPT ![j] = rec[j].interrupt]
          /\ StartTurn(j)
          /\ UNCHANGED <<now, crashes, process, round, command, seen, crowded>>
       \/ StoreMayFail /\ RunnerRaises(j, rec[j].interrupt)

\* get_job finds nothing or raises, before the `try': no `finally' runs.
ExecuteAborts(j) ==
    /\ pc[j] = "scheduled"
    /\ rec[j].status = "absent" \/ StoreMayFail
    /\ RunnerGone(j)
    /\ UNCHANGED <<now, crashes, rec, process, seen, crowded>>

\* Seeded faults: the pause reuses the event of an earlier round; it has no
\* timeout.
OldEvent(j) == IF event[j] = "none" THEN "unset" ELSE event[j]
NoDeadline  == MaxTime + 1

NewEvent(j)    == "unset"
ResumeDeadline == now + ResumeTimeout

\* The graph interrupts: _pause_for_hitl registers an event, then saves.
TurnInterrupts(j) ==
    /\ pc[j] = "turn"
    /\ round[j] < MaxRounds
    /\ \/ /\ event' = [event EXCEPT ![j] = NewEvent(j)]
          /\ round' = [round EXCEPT ![j] = @ + 1]
          /\ held' = [held EXCEPT ![j] = round[j] + 1]
          /\ rec' = Saved(j, "interrupt", round[j] + 1)
          /\ pc' = [pc EXCEPT ![j] = "paused"]
          /\ deadline' = [deadline EXCEPT ![j] = ResumeDeadline]
          /\ UNCHANGED <<now, crashes, live, decision, command, seen, crowded>>
       \/ StoreMayFail /\ RunnerRaises(j, round[j] + 1)

\* The graph ends: the reply goes to the content filter in a thread.
TurnCompletes(j) ==
    /\ pc[j] = "turn"
    /\ pc' = [pc EXCEPT ![j] = "filter"]
    /\ deadline' = [deadline EXCEPT ![j] = now + FilterTimeout]
    /\ UNCHANGED <<now, crashes, store, process, held, round, command, seen, crowded>>

\* The graph (or _build_result's read of the tasks) raises.
TurnFails(j) ==
    /\ pc[j] = "turn"
    /\ RunnerRaises(j, held[j])

\* A CancelledError comes out of the graph (the cancelled load task of
\* DingTalk!EnsureJoins): it passes `except Exception', only `finally' runs.
TurnCancelled(j) ==
    /\ pc[j] = "turn"
    /\ CleanUp(j)
    /\ UNCHANGED <<now, crashes, rec, seen, crowded>>

\* wait_for runs out, or a node raises a TimeoutError of its own.
TurnTimesOut(j) ==
    /\ pc[j] = "turn"
    /\ \/ rec' = Saved(j, "timeout", held[j])
       \/ StoreMayFail /\ UNCHANGED rec
    /\ CleanUp(j)
    /\ UNCHANGED <<now, crashes, seen, crowded>>

\* event.wait() returns: pop the decision (default {}) and run the next turn.
PauseWakes(j) ==
    /\ pc[j] = "paused"
    /\ event[j] = "set"
    /\ command' = [command EXCEPT ![j] = decision[j]]
    /\ decision' = [decision EXCEPT ![j] = 0]
    /\ StartTurn(j)
    /\ UNCHANGED <<now, crashes, rec, live, event, held, round, seen, crowded>>

\* The wait for a human runs out.  A cancelled wait_for raises TimeoutError
\* even when the event was set in the same iteration of the loop.
PauseTimesOut(j) ==
    /\ pc[j] = "paused"
    /\ now >= deadline[j]
    /\ \/ rec' = Saved(j, "timeout", held[j])
       \/ StoreMayFail /\ rec' = Saved(j, "failed", held[j])
       \/ StoreMayFail /\ UNCHANGED rec
    /\ CleanUp(j)
    /\ UNCHANGED <<now, crashes, seen, crowded>>

\* The filter answers: save the result.
FilterCompletes(j) ==
    /\ pc[j] = "filter"
    /\ \/ /\ rec' = Saved(j, "done", held[j])
          /\ CleanUp(j)
          /\ UNCHANGED <<now, crashes, seen, crowded>>
       \/ StoreMayFail /\ RunnerRaises(j, held[j])

(***************************************************************************)
(* The process and the clock.                                              *)
(***************************************************************************)
\* The process dies (scale to zero, redeploy) and a new one starts: the
\* records stay, registries and coroutines do not.
Crash ==
    /\ crashes < MaxCrashes
    /\ live # {}
    /\ crashes' = crashes + 1
    /\ live' = {}
    /\ event' = [j \in Jobs |-> "none"]
    /\ decision' = [j \in Jobs |-> 0]
    /\ pc' = [j \in Jobs |-> IF Alive(j) THEN "gone" ELSE pc[j]]
    /\ held' = [j \in Jobs |-> 0]
    /\ round' = [j \in Jobs |-> 0]
    /\ command' = [j \in Jobs |-> 0]
    /\ deadline' = [j \in Jobs |-> 0]
    /\ UNCHANGED <<now, rec, seen, crowded>>

\* The loop has work for j at this instant: it is ready, or its timer is due.
Due(j) ==
    \/ pc[j] = "scheduled"
    \/ pc[j] = "paused" /\ event[j] = "set"
    \/ pc[j] \in {"turn", "paused", "filter"} /\ now >= deadline[j]

\* Time passes once the loop is idle; it counts from the first submit.
Tick ==
    /\ now < MaxTime
    /\ \E j \in Current : pc[j] # "none"
    /\ \A j \in Jobs : ~Due(j)
    /\ now' = now + 1
    /\ UNCHANGED <<crashes, store, process, runner, seen, crowded>>

RunnerStep(j) ==
    \/ ExecuteStart(j)
    \/ ExecuteAborts(j)
    \/ TurnInterrupts(j)
    \/ TurnCompletes(j)
    \/ TurnFails(j)
    \/ TurnCancelled(j)
    \/ TurnTimesOut(j)
    \/ PauseWakes(j)
    \/ PauseTimesOut(j)
    \/ FilterCompletes(j)

ClientStep(j) ==
    \/ SubmitAdmitted(j)
    \/ SubmitConflict(j)
    \/ SubmitBreaks(j)
    \/ Poll(j)
    \/ \E r \in Rounds : ResumeDelivered(j, r)
    \/ ResumeOrphan(j)
    \/ ResumeExpired(j)

Next ==
    \/ \E j \in Jobs : RunnerStep(j) \/ ClientStep(j)
    \/ Crash
    \/ Tick

Spec == Init /\ [][Next]_vars

(***************************************************************************)
(* Fairness.  asyncio runs every ready callback and every due timer, a     *)
(* thread's HTTP call ends, and time passes.  Nothing is assumed of the    *)
(* model's turns (the timer ends them), the clients or the store.          *)
(***************************************************************************)
EventLoop(j) ==
    \/ ExecuteStart(j)
    \/ ExecuteAborts(j)
    \/ now >= deadline[j] /\ TurnTimesOut(j)
    \/ PauseWakes(j)
    \/ PauseTimesOut(j)
    \/ FilterCompletes(j)

FairSpec ==
    /\ Spec
    /\ \A j \in Current : WF_vars(EventLoop(j))
    /\ WF_vars(Tick)

\* A frontend polls its job until it is settled.
PolledSpec == FairSpec /\ \A j \in Current : WF_vars(Poll(j))

-----------------------------------------------------------------------------
(***************************************************************************)
(* Safety.                                                                 *)
(***************************************************************************)
\* At most one record of a session is active and unexpired, unless one of its
\* submits was let in while the namespace held more records than the page that
\* find_active_job searches (terminal records are kept for PruneAge, of every
\* session); and a runner inside its job's lifetime has such a record.
SessionLock ==
    /\ \A i, j \in Jobs :
          i # j /\ SessionOf[i] = SessionOf[j] /\ Fresh(i) /\ Fresh(j)
              => SessionOf[j] \in crowded
    /\ \A j \in Jobs : Alive(j) /\ ~Expired(j) => Active(j)

\* Two runners work on one conversation (one LangGraph thread_id) for no other
\* reason than these: one of them has outlived its job's expiry, or a submit
\* of the conversation searched a crowded namespace (submit()'s check).
SharedThreadHasACause ==
    \A i, j \in Jobs :
        i # j /\ SessionOf[i] = SessionOf[j] /\ Alive(i) /\ Alive(j)
            => Expired(i) \/ Expired(j) \/ SessionOf[j] \in crowded

\* A poll that shows an approval card of a running job shows one that resume()
\* can answer: its runner waits on an event nobody has set yet (the order of
\* the two writes in _pause_for_hitl and of the three in resume()).
NoLostWakeup ==
    \A j \in Jobs :
        Alive(j) /\ rec[j].status = "interrupt"
            => /\ pc[j] = "paused"
               /\ event[j] = "unset"
               /\ rec[j].interrupt = round[j]

\* No turn after an interrupt resumes with the {} default of
\* _resume_decisions.pop(): whoever wakes the runner has left a decision.
EveryResumeHasADecision ==
    \A j \in Jobs : pc[j] = "turn" /\ round[j] > 0 => command[j] # 0

\* Registry entries belong to coroutines that still exist: every runner is in
\* _live_jobs, and only a runner that has paused has an event or a decision.
RegistriesFollowRunners ==
    /\ \A j \in Jobs : Alive(j) => j \in live
    /\ \A j \in Jobs : event[j] # "none" => Alive(j) /\ round[j] > 0
    /\ \A j \in Jobs : decision[j] # 0 => pc[j] = "paused"

(***************************************************************************)
(* What a step may never do.                                               *)
(***************************************************************************)
\* A settled job changes only by being pruned, unless its own runner is still
\* there after the job's expiry (a stale copy written over a lazy expiry).
SettledStaysSettled ==
    [][\A j \in Jobs :
          Terminal(j) /\ rec'[j].status \notin {rec[j].status, "absent"}
              => Alive(j) /\ Expired(j)]_vars

\* An accepted decision counts: it is neither replaced by a second resume()
\* (double click, retried request) nor dropped, unless the wait has run out
\* at that very moment or the process dies.
AcceptedDecisionCounts ==
    [][\A j \in Jobs :
          pc[j] = "paused" /\ event[j] = "set"
              => \/ pc'[j] = "paused" /\ decision'[j] = decision[j]
                 \/ pc'[j] = "turn" /\ command'[j] = decision[j]
                 \/ now >= deadline[j]
                 \/ crashes' # crashes]_vars

\* Pruning removes no job that may still be going on: neither an active one
\* nor one whose runner exists.
PruneSparesRunners ==
    [][\A j \in Jobs :
          rec[j].status # "absent" /\ rec'[j].status = "absent"
              => ~Alive(j) /\ ~Fresh(j)]_vars

(***************************************************************************)
(* Liveness.                                                               *)
(***************************************************************************)
\* Every runner ends: no wait of _execute is without a timeout.
RunnerEnds == \A j \in Current : Alive(j) ~> ~Alive(j)

\* A polled job is settled at last (a late submit may delete it at once), also
\* when its process died: the lazy expiry releases the session of an orphan.
PolledJobSettles == \A j \in Current : Active(j) ~> ~Active(j)

-----------------------------------------------------------------------------
(***************************************************************************)
(* The life of a runner, and the lifecycle of the records.                 *)
(***************************************************************************)
LongestWait == IF ResumeTimeout >= FilterTimeout THEN ResumeTimeout
                                               ELSE FilterTimeout
LongestLife == Expiry + RunTimeout + LongestWait

\* However often a job interrupts, its runner is gone LongestLife after the
\* submit: resume() accepts no decision after the expiry, so the last turn has
\* started by then, and only a last wait follows it.
RunnerLifeIsBounded ==
    \A j \in Jobs : Alive(j) => now <= rec[j].created + LongestLife

\* The records of Jobs go through the lifecycle of models.py, but for what a
\* runner past its job's lifetime or a crowded namespace brings.
Lifecycle == INSTANCE JobLifecycle
                WITH status   <- [j \in Jobs |-> rec[j].status],
                     runners  <- {j \in Jobs : Alive(j)},
                     outlived <- {j \in Jobs : Expired(j)}
LifecycleSpec == Lifecycle!Spec

-----------------------------------------------------------------------------
(***************************************************************************)
(* What the docstrings promise and the code does not keep: the first three *)
(* fail with the code's own timeouts, because Expiry counts one turn and   *)
(* one wait for a human; the last two fail whatever the constants.         *)
(***************************************************************************)
\* runner.py:93-95: two concurrent runs on one thread_id are rejected.
OneRunnerPerSession ==
    \A i, j \in Jobs :
        i # j /\ SessionOf[i] = SessionOf[j] => ~(Alive(i) /\ Alive(j))

\* models.py:36: from a terminal status the job never transitions again.
TerminalIsFinal ==
    [][\A j \in Jobs :
          Terminal(j) => rec'[j].status \in {rec[j].status, "absent"}]_vars

\* runner.py:47: the job lifetime is the worst case of a runner.
RunnerWithinLifetime == \A j \in Jobs : Alive(j) => ~Expired(j)

\* runner.py:55: _live_jobs are the jobs whose runner task is alive.
LiveJobsHaveRunners == \A j \in live : Alive(j)

\* hitl_node.py:75-78: the keys of a decision always match the proposals it
\* is applied to, so it answers the card of the current interrupt.
DecisionAnswersItsRound ==
    \A j \in Jobs : pc[j] = "turn" /\ round[j] > 0 => command[j] = round[j]
=============================================================================
