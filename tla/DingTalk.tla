------------------------------ MODULE DingTalk ------------------------------
(***************************************************************************)
(* One user's DingTalk integration: the in-memory runtime of               *)
(* agents/graph/dingtalk_runtime.py, the persisted config of               *)
(* agents/graph/memory.py and the OAuth connection of app/dingtalk.        *)
(*                                                                         *)
(* Four kinds of coroutine work on it in one event loop: POST /enable,     *)
(* POST /disable, the OAuth callback, and the agent turns that call        *)
(* ensure_user_tools before the model.  The asyncio lock is never held     *)
(* across a suspension, so it is never contended: a step of this model is  *)
(* the code between two real suspensions (the MCP subprocess of            *)
(* load_mcp_tools, DingTalk's HTTP calls, the await of a shared task).     *)
(* Registries are keyed by user, so one user is the whole story.           *)
(***************************************************************************)
EXTENDS Naturals

CONSTANTS
    Turns,          \* agent turns of the user that may overlap
    Requests,       \* POST /enable calls that may overlap
    Loads,          \* identities of lazy-load tasks
    NoLoad,         \* no task
    Grants,         \* one-time OAuth states
    Fields,         \* credential fields; "client" stands for id and secret
    Values,         \* what a field may hold, 0 when it is missing
    Updates,        \* credentials a request body may carry
    StoreMayFail    \* whether a store write may raise

ASSUME DingTalkAssumption ==
    /\ NoLoad \notin Loads
    /\ "client" \in Fields
    /\ Values \subseteq Nat /\ 0 \in Values
    /\ Updates \subseteq [Fields -> Values]
    /\ StoreMayFail \in BOOLEAN

VARIABLES
    rt,         \* _user_runtimes[user]
    cfg,        \* the stored config
    task,       \* _loading_tasks[user]
    load,       \* the lazy-load tasks
    turn,       \* the agent turns: where in ensure_user_tools
    req,        \* the POST /enable calls that load, with their credentials
    oauth,      \* _state_store and the callbacks in progress
    split,      \* history: a toggle overlapped a lazy load or half failed
    spawned     \* history: a lazy load started since the last toggle or restart

vars == <<rt, cfg, task, load, turn, req, oauth, split, spawned>>

Creds   == [Fields -> Values]
NoCreds == [f \in Fields |-> 0]

\* `tools' holds the credentials the loaded tools carry; {} when none are
\* loaded.  tool_node, tool_names and deferred_setup come and go with it.
Runtime == [known : BOOLEAN, enabled : BOOLEAN, creds : Creds,
            tools : {{}} \cup {{c} : c \in Creds}, loading : BOOLEAN,
            failed : BOOLEAN]
Config  == [known : BOOLEAN, enabled : BOOLEAN, creds : Creds]

\* UserDingTalkRuntime(user_id=...), and what setdefault returns.
FreshRuntime == [known |-> TRUE, enabled |-> FALSE, creds |-> NoCreds,
                 tools |-> {}, loading |-> FALSE, failed |-> FALSE]
NoRuntime    == [FreshRuntime EXCEPT !.known = FALSE]
NoConfig     == [known |-> FALSE, enabled |-> FALSE, creds |-> NoCreds]
Default(r)   == IF r.known THEN r ELSE FreshRuntime

TypeOK ==
    /\ rt \in Runtime
    /\ cfg \in Config
    /\ task \in Loads \cup {NoLoad}
    /\ load \in [Loads -> [at : {"free", "flying", "ok", "failed", "cancelled"},
                           creds : Creds]]
    /\ turn \in [Turns -> [at : {"idle", "waiting", "cancelling", "bound", "hurt"},
                           load : Loads \cup {NoLoad}]]
    /\ req \in [Requests -> SUBSET Creds]
    /\ oauth \in [Grants -> {"none", "issued", "exchanging"}]
    /\ split \in BOOLEAN
    /\ spawned \in BOOLEAN

IdleTurn == [at |-> "idle", load |-> NoLoad]
FreeLoad == [at |-> "free", creds |-> NoCreds]

Init ==
    /\ rt = NoRuntime
    /\ cfg = NoConfig
    /\ task = NoLoad
    /\ load = [l \in Loads |-> FreeLoad]
    /\ turn = [t \in Turns |-> IdleTurn]
    /\ req = [r \in Requests |-> {}]
    /\ oauth = [g \in Grants |-> "none"]
    /\ split = FALSE
    /\ spawned = FALSE

(***************************************************************************)
(* What the operations compute.                                            *)
(***************************************************************************)
\* Seeded fault: unknown keys of the stored config reach the credentials.
MergedRaw(base, new) ==
    [f \in Fields \cup {"updated_at"} |->
        IF f \in Fields /\ new[f] # 0 THEN new[f]
        ELSE IF f \in Fields THEN base[f] ELSE 0]

\* {**base, **new}: the fields a request carries win over the stored ones.
Merged(base, new) ==
    [f \in Fields |-> IF new[f] # 0 THEN new[f] ELSE base[f]]

\* What a successful _do_load installs.
Loaded(creds) ==
    [known |-> TRUE, enabled |-> TRUE, creds |-> creds, tools |-> {creds},
     loading |-> FALSE, failed |-> FALSE]

\* enable() reports success without loading anything.
AlreadyEnabled(creds) == rt.known /\ rt.enabled /\ rt.creds = creds

\* The tools the model is bound to (get_user_runtime).
BoundTools(r) == IF r.known /\ r.enabled THEN r.tools ELSE {}

\* Seeded fault: the OAuth callback writes the store alone.
ConnectedInStore(r) == r
\* mark_user_connected: the runtime follows the store.
Connected(r) == [Default(r) EXCEPT !.enabled = TRUE]

Disabled(r) == [Default(r) EXCEPT !.enabled = FALSE, !.tools = {}, !.failed = FALSE]

\* A failed enable(): flags and credentials change, loaded tools stay.
EnableFailed(r, creds) ==
    [Default(r) EXCEPT !.enabled = FALSE, !.failed = TRUE, !.creds = creds]

\* Seeded fault: the failure of a lazy load is not remembered.
LazyFailureForgotten(r) == IF r.known THEN [r EXCEPT !.loading = FALSE] ELSE r
\* ensure_user_tools saw its load fail.
LazyFailed(r) ==
    IF r.known THEN [r EXCEPT !.loading = FALSE, !.failed = TRUE] ELSE r

\* Seeded fault: any runtime that is not loading is a hit.
HitWhenKnown == rt.known /\ ~rt.loading
\* The registry holds a usable answer: nothing to load.
RegistryHit ==
    rt.known /\ ~rt.loading /\ (rt.tools # {} \/ ~rt.enabled \/ rt.failed)

\* Seeded fault: no lookup in _loading_tasks.
NothingRegistered == FALSE
LoadRegistered == task # NoLoad

\* Seeded fault: waiters are not told of a cancelled load.
AnsweredUnlessCancelled(l) == load[l].at \in {"ok", "failed"}
Answered(l) == load[l].at \in {"ok", "failed", "cancelled"}

\* A lazy load is registered, runs, or has turns that still wait for it.
LoadUnderWay ==
    \/ task # NoLoad
    \/ \E l \in Loads : load[l].at = "flying"
    \/ \E t \in Turns : turn[t].load # NoLoad

(***************************************************************************)
(* POST /enable.                                                           *)
(***************************************************************************)
\* Merge and check; missing credentials and "already enabled" return at once.
EnableStarts(r, new) ==
    LET creds == Merged(cfg.creds, new) IN
    /\ req[r] = {}
    /\ creds["client"] # 0
    /\ ~AlreadyEnabled(creds)
    /\ req' = [req EXCEPT ![r] = {creds}]
    /\ UNCHANGED <<rt, cfg, task, load, turn, oauth, split, spawned>>

\* A toggle wrote memory; now it writes the store, and that may raise.  A
\* `settling' toggle leaves both sides agreeing whatever was before.
Persist(new, settling) ==
    /\ \/ /\ cfg' = new
          /\ split' = (LoadUnderWay \/ (split /\ ~settling))
       \/ /\ StoreMayFail
          /\ cfg' = cfg
          /\ split' = TRUE
    /\ spawned' = FALSE

\* The tools are there: install the runtime, then persist.
EnableSucceeds(r) ==
    \E creds \in req[r] :
        /\ rt' = Loaded(creds)
        /\ Persist([known |-> TRUE, enabled |-> TRUE, creds |-> creds], TRUE)
        /\ req' = [req EXCEPT ![r] = {}]
        /\ UNCHANGED <<task, load, turn, oauth>>

\* The subprocess fails or lists no tools.
EnableFails(r) ==
    \E creds \in req[r] :
        /\ rt' = EnableFailed(rt, creds)
        /\ Persist([known |-> TRUE, enabled |-> FALSE, creds |-> creds], TRUE)
        /\ req' = [req EXCEPT ![r] = {}]
        /\ UNCHANGED <<task, load, turn, oauth>>

(***************************************************************************)
(* POST /disable.                                                          *)
(***************************************************************************)
Disable ==
    /\ rt' = Disabled(rt)
    /\ Persist([cfg EXCEPT !.known = TRUE, !.enabled = FALSE], TRUE)
    /\ UNCHANGED <<task, load, turn, req, oauth>>

(***************************************************************************)
(* The OAuth connection.                                                   *)
(***************************************************************************)
Authorize(g) ==
    /\ oauth[g] = "none"
    /\ oauth' = [oauth EXCEPT ![g] = "issued"]
    /\ UNCHANGED <<rt, cfg, task, load, turn, req, split, spawned>>

\* The callback consumes its state; a second one with it gets an error page.
CallbackArrives(g) ==
    /\ oauth[g] = "issued"
    /\ oauth' = [oauth EXCEPT ![g] = "exchanging"]
    /\ UNCHANGED <<rt, cfg, task, load, turn, req, split, spawned>>

\* No token: an error page.
CallbackFails(g) ==
    /\ oauth[g] = "exchanging"
    /\ oauth' = [oauth EXCEPT ![g] = "none"]
    /\ UNCHANGED <<rt, cfg, task, load, turn, req, split, spawned>>

\* The token is stored and the user marked connected, in memory and store.
MarkUserConnected(g) ==
    /\ oauth[g] = "exchanging"
    /\ oauth' = [oauth EXCEPT ![g] = "none"]
    /\ rt' = Connected(rt)
    /\ Persist([cfg EXCEPT !.known = TRUE, !.enabled = TRUE], FALSE)
    /\ UNCHANGED <<task, load, turn, req>>

(***************************************************************************)
(* ensure_user_tools, at the start of an agent turn.                       *)
(***************************************************************************)
\* ensure_user_tools returned to the turns in `ts'; the model is bound next.
Bind(ts) ==
    turn' = [t \in Turns |->
                IF t \in ts THEN [IdleTurn EXCEPT !.at = "bound"] ELSE turn[t]]

\* What awaiting the answered load l does to the turns in `ts'.
Answer(ts, l) ==
    \/ /\ load[l].at = "ok"
       /\ task' = NoLoad
       /\ rt' = rt
       /\ Bind(ts)
    \/ /\ load[l].at = "failed"
       /\ task' = NoLoad
       /\ rt' = LazyFailed(rt)
       /\ Bind(ts)
    \/ /\ load[l].at = "cancelled"      \* `except Exception' does not see it
       /\ UNCHANGED <<task, rt>>
       /\ turn' = [t \in Turns |->
                    IF t \notin ts THEN turn[t]
                    ELSE IF turn[t].at = "cancelling" THEN IdleTurn
                    ELSE [IdleTurn EXCEPT !.at = "hurt"]]

\* The turns in `ts' await a load that has an answer; a task that neither the
\* registry nor a turn refers to any more is gone.
Collect(ts, l) ==
    /\ Answer(ts, l)
    /\ load' = [load EXCEPT ![l] =
                    IF task' = l \/ \E u \in Turns \ ts : turn[u].load = l
                    THEN @ ELSE FreeLoad]

EnsureHits(t) ==
    /\ turn[t].at = "idle"
    /\ RegistryHit
    /\ rt' = rt
    /\ Bind({t})
    /\ UNCHANGED <<cfg, task, load, req, oauth, split, spawned>>

\* The store says disabled, or knows nothing of the user.
EnsureDisabled(t) ==
    /\ turn[t].at = "idle"
    /\ ~RegistryHit /\ ~LoadRegistered /\ ~cfg.enabled
    /\ rt' = [Default(rt) EXCEPT !.enabled = FALSE]
    /\ Bind({t})
    /\ UNCHANGED <<cfg, task, load, req, oauth, split, spawned>>

\* Start a load task, register it and wait for it.
EnsureLoads(t, l) ==
    /\ turn[t].at = "idle"
    /\ ~RegistryHit /\ ~LoadRegistered /\ cfg.enabled
    /\ load[l].at # "flying" /\ task # l /\ \A u \in Turns : turn[u].load # l
    /\ rt' = [Default(rt) EXCEPT !.loading = TRUE, !.creds = cfg.creds]
    /\ task' = l
    /\ load' = [load EXCEPT ![l] = [at |-> "flying", creds |-> cfg.creds]]
    /\ turn' = [turn EXCEPT ![t] = [IdleTurn EXCEPT !.at = "waiting", !.load = l]]
    /\ spawned' = TRUE
    /\ UNCHANGED <<cfg, req, oauth, split>>

\* Wait for the registered task; awaiting a finished one does not suspend.
EnsureJoins(t) ==
    /\ turn[t].at = "idle"
    /\ ~RegistryHit /\ LoadRegistered
    /\ \/ /\ load[task].at = "flying"
          /\ turn' = [turn EXCEPT ![t] = [IdleTurn EXCEPT !.at = "waiting", !.load = task]]
          /\ UNCHANGED <<rt, task, load>>
       \/ Collect({t}, task)
    /\ UNCHANGED <<cfg, req, oauth, split, spawned>>

\* _do_load of a lazy load ends: install the runtime, or raise.
LoadEnds(l) ==
    /\ load[l].at = "flying"
    /\ \/ /\ rt' = Loaded(load[l].creds)
          /\ load' = [load EXCEPT ![l] = [at |-> "ok", creds |-> NoCreds]]
       \/ /\ rt' = rt
          /\ load' = [load EXCEPT ![l] = [at |-> "failed", creds |-> NoCreds]]
    /\ UNCHANGED <<cfg, task, turn, req, oauth, split, spawned>>

\* The loop wakes all that awaited the task, one right after the other.
TurnsWake(l) ==
    LET ts == {t \in Turns : turn[t].load = l} IN
    /\ ts # {}
    /\ Answered(l)
    /\ Collect(ts, l)
    /\ UNCHANGED <<cfg, req, oauth, split, spawned>>

\* A node, run or client timeout cancels a waiting turn: awaiting a task
\* passes the cancellation on to it.
TurnCancelled(t) ==
    /\ turn[t].at = "waiting"
    /\ IF load[turn[t].load].at = "flying"
       THEN /\ load' = [load EXCEPT ![turn[t].load] = [at |-> "cancelled", creds |-> NoCreds]]
            /\ turn' = [turn EXCEPT ![t].at = "cancelling"]
       ELSE /\ turn' = [turn EXCEPT ![t] = IdleTurn]
            /\ UNCHANGED load
    /\ UNCHANGED <<rt, cfg, task, req, oauth, split, spawned>>

\* The rest of the turn; it reads the registry and changes nothing here.
TurnEnds(t) ==
    /\ turn[t].at \in {"bound", "hurt"}
    /\ turn' = [turn EXCEPT ![t] = IdleTurn]
    /\ UNCHANGED <<rt, cfg, task, load, req, oauth, split, spawned>>

\* The process restarts: only the store remains.
Restart ==
    /\ rt' = NoRuntime
    /\ task' = NoLoad
    /\ load' = [l \in Loads |-> FreeLoad]
    /\ turn' = [t \in Turns |-> IdleTurn]
    /\ req' = [r \in Requests |-> {}]
    /\ oauth' = [g \in Grants |-> "none"]
    /\ split' = FALSE
    /\ spawned' = FALSE
    /\ UNCHANGED cfg

Next ==
    \/ \E r \in Requests :
        \/ \E new \in Updates : EnableStarts(r, new)
        \/ EnableSucceeds(r)
        \/ EnableFails(r)
    \/ Disable
    \/ \E g \in Grants :
        \/ Authorize(g)
        \/ CallbackArrives(g)
        \/ CallbackFails(g)
        \/ MarkUserConnected(g)
    \/ \E t \in Turns :
        \/ EnsureHits(t)
        \/ EnsureDisabled(t)
        \/ \E l \in Loads : EnsureLoads(t, l)
        \/ EnsureJoins(t)
        \/ TurnCancelled(t)
        \/ TurnEnds(t)
    \/ \E l \in Loads : LoadEnds(l) \/ TurnsWake(l)
    \/ Restart

Spec == Init /\ [][Next]_vars

(***************************************************************************)
(* Fairness.  A load a turn waits for ends, or the idle timeout of the     *)
(* agent node cancels the turn; the event loop wakes who awaited it.       *)
(***************************************************************************)
Progress(l) ==
    \/ LoadEnds(l)
    \/ \E t \in Turns : turn[t].load = l /\ TurnCancelled(t)
    \/ TurnsWake(l)

FairSpec == Spec /\ \A l \in Loads : WF_vars(Progress(l))

-----------------------------------------------------------------------------
(***************************************************************************)
(* Properties.                                                             *)
(***************************************************************************)
\* Memory and store agree, and usable tools carry the stored credentials:
\* GET /status, a restart and the model see the same integration.  Excused are
\* a load under way, a failure on record, and toggles that overlapped a load.
MemoryMatchesStore ==
    rt.known /\ ~rt.loading /\ ~rt.failed /\ ~split
        => /\ rt.enabled = cfg.enabled
           /\ rt.tools \subseteq {cfg.creds}

\* Concurrent turns share one MCP subprocess: at most one lazy load runs,
\* unless toggles overlapped an earlier one (_loading_tasks).
AtMostOneLazyLoad ==
    ~split => \A k, l \in Loads :
                 load[k].at = "flying" /\ load[l].at = "flying" => k = l

\* A failed load is not retried by every turn: a second lazy load needs a
\* toggle or a restart in between.
NoRespawn ==
    [][\A l \in Loads :
          load[l].at # "flying" /\ load'[l].at = "flying"
              => ~spawned \/ split]_vars

\* ensure_user_tools brings the tools of a connected user: the turn is bound to
\* tools with the stored credentials unless their load has failed.
EnsureBringsTools ==
    [][\A t \in Turns :
          turn[t].at # "bound" /\ turn'[t].at = "bound"
              /\ cfg.enabled /\ ~rt'.failed /\ ~split
              => BoundTools(rt') = {cfg.creds}]_vars

\* No turn waits for DingTalk for ever, also when the load it shares with
\* others is cancelled.
TurnsReturn == \A t \in Turns : turn[t].load # NoLoad ~> turn[t].load = NoLoad

-----------------------------------------------------------------------------
(***************************************************************************)
(* What the docstrings promise and the code does not keep.                 *)
(***************************************************************************)
\* dingtalk_runtime.py:302-311: disable() unloads the tools, so a config that
\* says disabled leaves none usable.
DisabledMeansUnloaded == BoundTools(rt) # {} => cfg.enabled

\* dingtalk_runtime.py:369: ensure_user_tools never raises into the graph; a
\* turn nobody cancelled gets no CancelledError.
NeverRaisesIntoTheGraph == \A t \in Turns : turn[t].at # "hurt"

\* dingtalk_runtime.py:369-370: after a failed load the user re-enables via
\* /enable, which therefore must not answer "already enabled".
ReEnableReloads ==
    rt.known /\ rt.failed /\ cfg.creds["client"] # 0 => ~AlreadyEnabled(cfg.creds)
=============================================================================
