# A TLA+ model of the AI-note back end

The repository is a FastAPI back end for a to-do assistant: a LangGraph agent
with tools, human approval of task changes, a per-user DingTalk integration over
MCP, polling chat jobs for clients that cannot stream, WeChat login and audio
transcription.  One process runs one worker and one event loop
(`Dockerfile:64`); what outlives it is a LangGraph store in PostgreSQL, while
the checkpoints of the conversations are kept in memory (`builder.py:104-106`).  This directory holds TLA+ modules for the parts where order,
failure and time decide whether the code is right, TLC configurations that
check them on small instances, and TLAPS proofs for every instance.

`PROJECT.json` is the index: components, runs, the lines every definition
models, one seeded fault per property, findings, hazards and theorems.

## 1. The system

| Component | State it keeps | Operations | Talks to | What is hard | What makes it correct |
|---|---|---|---|---|---|
| Polling jobs `app/jobs` | job records in the store (namespace `("job", user)`); in memory `_live_jobs`, `_resume_events`, `_resume_decisions`; one coroutine per job | `submit`, `get`, `resume`, the coroutine `_execute` | the graph (a turn), the store, the content filter | clients, coroutines, timers and crashes interleave; records are expired lazily by whoever reads them | two runners of a conversation only for a reason one can name; a decision reaches its runner; every job ends |
| DingTalk `agents/graph/dingtalk_runtime.py`, `app/dingtalk` | in memory `_user_runtimes`, `_loading_tasks`, `_state_store`; the config in the store | `enable`, `disable`, OAuth authorize/callback, `mark_user_connected`, `ensure_user_tools` | an MCP subprocess, DingTalk's OAuth, the agent node | toggles during a load, shared tasks and their cancellation, memory first and store second | memory and store agree; a turn gets the user's tools; loads are shared, not repeated |
| Task approval `nodes/hitl_node.py`, `tools/core/memory.py`, `nodes/routing.py` | the messages of the thread; tasks in the store | `update_tasks` proposes, `interrupt()` pauses, the approval is applied | jobs (pause/resume), REST edits | proposals age up to an hour while REST edits the tasks | what is applied is what was shown and approved |
| Task store and REST `graph/memory.py`, `app/chat/task_service.py` | tasks in the store | list, update, delete, delete all, notify the thread | the same tasks as the agent's tools | read-modify-write without a lock; a page of a search taken for the whole | no update is lost, nothing deleted comes back |
| Agent graph `graph/builder.py`, `nodes/`, `state.py` | the checkpoint of a conversation, read when a run starts and written after each node | transcription -> agent -> tools -> approval -> agent | the model, the tools, LangGraph (external) | overlapping runs of one conversation, runs cut off between nodes | every turn ends and answers in its own words; a recording is heard |
| Fault tolerance and failover `graph/fault_tolerance.py`, `model/` | none (cached config) | retry a node, fall over to a backup model, apologise | model providers | retries of a node around a chain of models under the node's time limit | nobody is told "not available" while another model or attempt was left |
| Tool binding, search and MCP loader `tool_binder.py`, `scoped_tool_node.py`, `tools/core` | `promoted_tools` in the checkpoint; the tools in the DingTalk runtime | search, promote, bind, run; spawn servers and list their tools | MCP servers, the DingTalk runtime | what is searched, bound and run is read at three different moments | a turn runs its own user's tools only; what was fetched stays callable |
| Transcription `transcription/`, `transcribe_node` | none | transcribe a recording into the conversation | Groq | recordings stay in the checkpoint | the recording of the turn is the one transcribed |
| Content safety `app/common/content_safety.py` | token cache | check, refresh the token, retry | WeChat | several threads on one cache | risky text never passes as safe |
| Login and account `app/auth`, `app/user` | none locally; GoTrue keeps accounts, the store data | first login creates the user; deletion clears the store, then the account | WeChat, GoTrue, the store | two first logins; deletion next to running writers and to itself | one account per person, and nothing left of a deleted one |
| Synchronous and streaming chat `app/chat` | none | run or resume the graph in the request | the graph | the same conversations as the jobs, without their lock | as for the graph |
| Start-up, config, auth proxy, diagnostics, scripts | wiring | | | | not modelled, but for the renewal of tokens (`Account`): no behaviour of their own |

The jobs start graph turns; a turn's agent node first calls `ensure_user_tools`
of the DingTalk runtime; a turn may end in an interrupt whose payload becomes the
`interrupt` of the job's record, and `resume` hands the decision back.  A
`CancelledError` out of a shared DingTalk load travels the other way and ends the
runner of a job (`Jobs!TurnCancelled`, `DingTalk!EnsureJoins`).  The modules cut the
program along these calls: what is one step in a module is opened up in another.
A turn is one of four outcomes in `Jobs` and a walk through the nodes in `AgentTurn`;
a load is one step in `TurnTools` and a shared, cancellable task in `DingTalk`; the
tools step is one step in `AgentTurn` and store calls of threads in `TaskApproval`;
the filter is a bounded wait in `Jobs` and a loop on a shared cache in `SafetyCheck`.

## 2. Modules

| Module | Contents |
|---|---|
| `JobLifecycle` | abstract specification of the job records: the lifecycle of `models.py`, one active job per session, and the two ways out of it |
| `Jobs` | `app/jobs` in full, with clock, timers, crashes and failing store calls |
| `JobsProofs` | theorems about `Jobs`: types, the handshake, the session lock |
| `JobLifetimeProofs` | more of them: the life of a runner, settled records, the refinement of `JobLifecycle` |
| `MCJobs` | instances for TLC |
| `DingTalk` | one user's DingTalk integration |
| `DingTalkProofs` | theorems about `DingTalk` |
| `MCDingTalk` | instances for TLC |
| `TaskApproval` | one user's tasks: the agent's tools, the approval card, REST edits |
| `TaskApprovalProofs` | theorems about `TaskApproval` |
| `MCTaskApproval` | instances for TLC |
| `AgentTurn` | turns of a conversation: nodes, checkpoints, retries, fail-over, overlapping runs |
| `AgentTurnProofs` | theorems about `AgentTurn` |
| `MCAgentTurn` | instances for TLC |
| `TurnTools` | what a turn binds and runs: search, promotion, schemas, per-user tool nodes, MCP servers |
| `TurnToolsProofs` | theorems about `TurnTools` |
| `MCTurnTools` | instance for TLC |
| `SafetyCheck` | content checks on one token cache |
| `SafetyCheckProofs` | theorems about `SafetyCheck` |
| `MCSafetyCheck` | instance for TLC |
| `Account` | login, tokens, writers and deletion of WeChat users |
| `AccountProofs` | theorems about `Account` |
| `MCAccount` | instance for TLC |

Operators marked "Seeded fault" are forms of the definition after them with a
plausible bug; `PROJECT.json` says which property finds each.

In all models a step is the code between two awaits that really suspend.
A handler without such an await (`submit`, `resume`, `get`, `disable`) is one
action, whatever number of store calls it makes, and the alternatives in it are
the early returns and the store call that raises (`StoreMayFail`).  A handler
that suspends (`_execute`, `enable`, `ensure_user_tools`) has one action per
segment and a record of where it is suspended (`pc`, `req`, `turn`, `load`).

### Jobs

| Model | Code |
|---|---|
| `rec[j]` | the stored record: status, the interrupt payload (the number of the round), its creation time; `expires_at` is `created + Expiry` |
| `live`, `event`, `decision` | `_live_jobs`, `_resume_events`, `_resume_decisions` |
| `pc`, `held`, `round`, `command`, `deadline` | the coroutine: where it is suspended, the payload in its own `Job` object, interrupts so far, what the turn resumes with, its pending timer |
| `Old`, `OldAge` | jobs of earlier days whose settled records may still be in the namespace |
| `crowded` | history: sessions one of whose submits was let in while the namespace held more records than a search returns |
| `seen` | the approval cards a client was shown: what a late or repeated POST may answer |
| `FindActive` | `find_active_job`: any order of the search results, stale records settled up to the one it returns |
| `SubmitAdmitted`, `SubmitConflict`, `SubmitBreaks` | the ways out of `submit` |
| `Poll`, `ResumeDelivered`, `ResumeOrphan`, `ResumeExpired` | `get` and the ways out of `resume` |
| `ExecuteStart` ... `FilterCompletes` | the segments of `_execute` and `_pause_for_hitl`; `CleanUp` is the `finally` block |
| `Crash` | the process dies and a new one starts |
| `Tick`, `Due` | time passes when no callback is ready and no timer is due, which is how asyncio sleeps |

The data of a turn (messages, tasks, results) is left out; a turn ends, interrupts,
raises, is cancelled, or runs out of time.  Payloads are round numbers, which is
enough to tell a decision for this card from one for an earlier card.

Every job of the user, of every session, and every terminal record of the last day is in
the namespace that `find_active_job` searches, and the search returns ten records
at most (`store.py:77`).  So it may miss the holder of a session.  `SearchResults` returns any
`SearchLimit` records once there are more, and the properties say precisely what may
follow: a session may have two fresh active records, and two runners on its thread, only
if it is in `crowded`.

### DingTalk

| Model | Code |
|---|---|
| `rt` | `_user_runtimes[user]`; `tools` is the set of credentials the loaded tools carry, empty or a singleton |
| `cfg` | the stored config |
| `task`, `load` | `_loading_tasks[user]` and the tasks themselves |
| `turn` | an agent turn in `ensure_user_tools`: waiting, being cancelled, bound to its tools, or hit by somebody else's cancellation |
| `req` | a `POST /enable` that awaits its load, with its merged credentials |
| `oauth` | one-time OAuth states and the callbacks in progress |
| `split` | history: a toggle overlapped a load, or a toggle's store write raised |
| `spawned` | history: a lazy load ran since the last toggle or restart |

Registries are keyed by user and users share nothing, so the model has one user.
The asyncio lock is never held across a suspension and therefore never waited for.
Credentials are functions from fields to values; missing is 0.  The MCP loader
appears by its outcome: tools, or none/an exception.

### TaskApproval

| Model | Code |
|---|---|
| `tasks` | the store, namespace `("task", user)` |
| `at[t]` | where the graph stands in conversation `t`: nothing to do, the agent node, the tools node, paused at the interrupt of `hitl_node`, paused no more because somebody wrote into the thread, applying |
| `outputs[t]` | the tool messages in the checkpoint, each by the proposals it carries; they are never taken out |
| `calls[t]`, `attempt[t]` | the tool calls of the current message, and how often the current node has been started |
| `card[t]`, `decision[t]` | what the interrupt showed, and the approval `Command(resume=...)` brought |
| `edits` | synchronous tools in their threads, between search, read and write; `waited` is false once the tools node has given up on them |
| `patching` | a `PATCH /tasks/{key}` between its `get` and its `put` |
| `UpdateTasksStarts`, `UpdateTasksEnds` | `update_tasks` before and after its model call; the proposals are drawn from the page it has read |
| `ToolSearches`, `EditReads`, `EditWrites`, `ToolDeletes` | `mark_task_done`, `update_task_priority`, `delete_task_by_title`, one store call per step |
| `ToolsBreak`, `ToolErrorReported`, `ToolsEnd` | the tools node retried or given up, an error turned into a message, all messages back and `route_after_tools` |
| `Approve`, `Reject`, `ApplySucceeds`, `ApplyBreaks` | `hitl_node` after the interrupt; `Partly` is what a failing store call leaves: some deletes, or all of them and some puts |
| `RestDelete`, `RestDeleteAll`, `RestPatchReads`, `RestPatchWrites` | the REST endpoints, with the message they write into a conversation (`Notified`) |
| `Restart` | conversations are gone, tasks stay |

What distinguishes this module is that the tools are not coroutines: LangGraph's
tool node runs a plain function in a thread, so a store call of a tool may fall
between any two store calls of a handler on the event loop.  `hitl_node`'s own
calls are one step: it writes blindly, without reading, so a foreign call
in between is one before or after it for every property stated here.  Titles, the
text of messages and the model's judgement are left out: a tool may find any
task, the extractor may propose any change of the tasks it was given.  A
conversation has one run at a time here; that the code lets a second one start is
what `Jobs` and `AgentTurn` are about.

### AgentTurn

| Model | Code |
|---|---|
| `conf` | `model_providers` with their `fallback_to`, and the API keys in the environment; every validated configuration is an initial state |
| `saved` | the checkpoint in `MemorySaver`: messages, `audio_bytes`, the node that is next |
| `at[r]`, `mine[r]`, `own[r]` | a run of the graph: its node, its copy of the state, the request it serves |
| `attempt[r]`, `asked[r]` | the attempt of `RETRY_POLICY`, the position in the fail-over chain |
| `seen[r]` | history: which model failed how in which attempt of the node |
| `reply[r]` | what `_last_ai_content` returned, as the turn the words are from |
| `ValidConfig`, `Chain`, `Buildable` | the validator of `ModelConfigYAML`, `_build_failover_chain`, `_resolve_api_key` of every model of the chain |
| `Start`, `Resume` | `POST /chat`, `/chat/stream`, a job; `/chat/resume` and a resumed job |
| `Transcribes`, `ModelAnswers`, `ModelCallsTools`, `ToolsReturn`, `HumanDecided` | the nodes when they succeed |
| `ModelFails`, `ModelLacksKey`, `NodeBreaks` | their failures; `AskNext` is `FailoverChatModel`, `Retry` is `RETRY_POLICY`, `GiveUp` is `graph_error_handler` |
| `Cancel`, `Restart` | a stream whose client leaves, a job out of time; the process dies |

A message is its kind and the turn it comes from, which is what tells an answer of
this turn from an older one and a recording from another.  Errors are grouped by what
`TRANSIENT_API_ERRORS` and `retry_on` make of them.  The provider is external; that it
refuses tool calls without results (`Accepts`) is the API's rule, from which the
dangling calls below get their weight.  The retries inside a provider's SDK
are part of one request.

### TurnTools

| Model | Code |
|---|---|
| `file` | `mcp_servers.json`: a server is absent, disabled, invalid or valid |
| `stored`, `rt` | the DingTalk config and `_user_runtimes`, of several users |
| `promoted[c]` | `promoted_tools` of the checkpoint with its reducer (`ReducePromoted`, a fold over the names as the loop is; `ReduceAll` for the searches of one step) |
| `bound[c]`, `calls[c]`, `node[c]` | what the model was given, what it called, the `ToolNode` that runs it |
| `fetched[c]` | history: what searches of the conversation returned |
| `LoadMcpTools` | `load_mcp_tools`: selection, `_build_server_params`, whose credentials the subprocess gets, all sets of tools that a server may list |
| `SearchResults` | `DeferredToolCatalog.search`: exact names in the catalogue's order, or words that rank in an order left open |
| `BindList`, `GiveTool`, `SanitizeSchema` | the loop of `get_model_with_tools`, what it does with one name, and the repair of schemas, node by node |
| `Enable` ... `Connect` | the switches of `dingtalk_runtime`, each one step: their overlaps are `DingTalk`'s subject |
| `EnsureUserTools`, `AgentBinds`, `ModelCalls`, `ToolsStart`, `ToolsRetry`, `ToolsEnd` | a round of the agent |

The model may call any name, because an answer can hold a name it was not given;
`ToolNode` then runs any tool that is *loaded*, bound or not.  That is why
`RunsOwnTools` is about what is loaded when the step starts.  One tool whose schema cannot be
converted makes the whole load fail, because the hash of the catalogue converts them all
(`Loadable`), and so neither a search nor a binding ever meets one; both have the step
nonetheless (`Shown`, `GiveTool`), since they are in the code.  A conversation has one turn at a time
here; two that overlap, of which one may lose what the other promoted, are left to `AgentTurn`,
which has no tools in its state.  Without stored
credentials a subprocess runs with the deployment's (`ClientOf`).

### SafetyCheck

A check is the loop of `check_text_safety`, cut where another thread can come
between: reading the cache, fetching a token, storing it, asking WeChat, dropping the
token.  `good` is what WeChat accepts; a new token makes the old one void at once or
later, and one can expire at any time.  `trouble` and `churn` record what excuses an
unchecked text: that WeChat gave trouble, and how often others spoiled a token during the
check, by making a good one void or by putting one that is void into the cache.  A token that
another check refreshes without harm does not count.  The filter fails open by design (its docstring); the property says
when.

### Account

| Model | Code |
|---|---|
| `account`, `given` | GoTrue: per person (openid) an e-mail address with an id and a password of some `secret` version |
| `tokens` | user ids with a token that has not expired; nothing revokes one (`Refresh`, `Expires`) |
| `login[l]` | `wechat_login_endpoint` between its calls: code, grant, create, grant again |
| `store` | the data of each id, by area (namespace) and key |
| `deletion[d]` | `delete_account`: the search of an area, its deletes, the next area, GoTrue |
| `thread[w]` | a tool between the read and the write of `update_task` |
| `late[d]` | history: what was written for the id since this deletion began |
| `met` | history: what an area held when the deletion searched it |
| `crossed`, `refused` | history: the person's account was created or deleted during this login; GoTrue refused to create one though there was none, which the code takes for a conflict (`wechat_service.py:182`) |
| `KeysOf` | the keys of an area: any number of tasks, one config |

The sweep never gives the event loop away, hence `LoopFree`; only tool threads
write during it.  GoTrue may do what was asked and not be heard.  The anonymous
"default" user, for whom there is no account, is left out.  Writers on the loop need a
token that is valid then; a job that goes on after the expiry of its token writes
nothing that could not have been written just before.

## 3. What TLC checks

| Run | Instance | Shows |
|---|---|---|
| `jobs_core` | 2 jobs of a session and an old record of another one, searches of 1 record, 2 rounds, 1 crash, failing store, run 1 / resume 1 ticks, lifetime 2, pruning at 4 | when a session has two fresh records or two runners, the handshake of pause and resume, the registries, no settled job changes but by the stale copy of an expired runner, accepted decisions count, how long a runner lives, pruning spares what is going on, `Jobs` implements `JobLifecycle`; every runner ends and every polled job settles |
| `dingtalk_core` | 2 turns, 2 load tasks, 1 enable, 1 OAuth state, 2 fields, failing loads and store writes | memory matches the store, at most one lazy load, no respawn, turns get their tools and return |
| `jobs_two_runners` | the code's own constants in minutes | violated: see Findings |
| `dingtalk_disable` | as `dingtalk_core`, store without failures | violated |
| `approval_core` | 1 conversation, 2 tasks, 2 calls per message, 2 tool messages, 2 attempts, failing store | the card shows the current proposals; `hitl_node` writes what was approved and nothing else, and all of it when it reports success |
| `approval_unpresented` | 1 task, 2 calls | violated: see Findings |
| `turn_core` | 1 run at a time, 2 turns, 2 models in every valid configuration, 2 attempts, 1 tools step, one failure of each sort | recordings are heard; nobody is told "not available" while another model or attempt was left; every turn ends |
| `turn_overlap` | 2 runs at a time, 2 turns, 1 model, 2 attempts, server errors and time limits | when tool calls lose their results; a caller gets the words of the own turn |
| `tools_core` | 2 users, 1 conversation, 2 servers, 3 tools (one to be repaired, one not convertible), 3 files, searches of 1 result | whose tools run, what is bound, what was fetched stays callable |
| `account_core` | 1 person, 2 codes, 2 logins, 1 deletion, 2 user ids, 2 areas, the first with 2 keys and a page of 1, 1 tool thread, 1 change of the secret | who is turned away and whose session a login gets; a deletion leaves nothing but what its page could not show |
| `account_page` | as `account_core`, 1 login, no change of the secret | violated: see Findings |
| `safety_core` | 2 checks, 4 tokens, 2 retries | risky text passes only unchecked |

**Bounds.**  Two jobs of one session are enough for everything two runners of a
conversation can do to each other.  The old record, which may or may not be there, belongs to
another session: with it a search of one record misses the holder, and the pruning of a
submit has something to delete that the same search has not shown.  Two rounds are the least
with a card that is not the current one.  The timeouts are small numbers that keep the
relation that matters: the longest life of a runner (`LongestLife`, 4) exceeds the
lifetime of its record (2), as 7860 s exceed 3960 s, and not the age of pruning (4 ticks; 24
hours).  `LastSubmit` and `MaxTime` let a second job be submitted before, at and
after the expiry of the first and let every timer run out.  Crashes and rounds
are capped by `MaxCrashes` and `MaxRounds`; the clock by `MaxTime`.  In `DingTalk`
nothing is counted: the state space is finite by itself.  In `TaskApproval`
`MaxOutputs` bounds the messages of a conversation and `MaxRunning` the threads;
two messages are the least with a card and older proposals behind it, or with
proposals that are not last; two tasks the least with one accepted and one
rejected; two attempts the least with a repeated one.
A page of a search holds both tasks in `approval_core`; the theorems hold for pages
of any size.  In `AgentTurn`, `MaxTurns`, `MaxRounds` and `Runs` are bounds; two turns are the least
with an earlier answer, an earlier recording or earlier calls, and two models
the least chain with a model to fall over to.  Fail-over and overlap are two runs
because together they exceed what TLC can do in minutes; a run's chain is its own,
so overlap adds nothing to it.  `MaxCalls` bounds the calls of a message in
`TurnTools`; a search with one result makes a conversation search twice for two tools.
In `SafetyCheck`, `Tokens` is a pool: two held, one cached, one to give.  In `Account`,
`Rotations` bounds changes of the secret and `Ids` the accounts GoTrue gives: a first one
and one after its deletion.  In `account_core` the tasks are more than a page and the DingTalk
config is not, which are the two cases of the code (ten items, any number of tasks).  Its
view drops the answer to a request at rest: properties read it in the step that gives it.
Deletions that overlap are left to the theorem, which has any number of them.

**Fairness.**  `Jobs!FairSpec` asks weak fairness of what the event loop does for
a coroutine (ready callbacks, due timers, the end of the HTTP call of the filter,
which has a timeout) and of time.  Nothing is asked of the graph: `RunnerEnds`
rests on `wait_for` alone.  `PolledSpec` adds a client that keeps polling, which
is what the frontend does, because the code has no sweeper: a job whose process
died is settled by the next read after its expiry.  `DingTalk!FairSpec` asks that
a load some turn waits for ends or is cancelled by the idle timeout of the agent
node (`fault_tolerance.py:126`), and that the loop wakes whoever awaited it.
`AgentTurn!Spec` asks weak fairness of the node steps of a run (`NodeStep`): every node
with an external call has a time limit (`AGENT_TIMEOUT`, `TOOLS_TIMEOUT`,
`TRANSCRIPTION_TIMEOUT`), and `hitl_node`, which has none, makes store calls only.
Nothing is assumed of whether a step succeeds; that failures cannot go on for ever
is what `TurnEnds` checks.  Clients, toggles and restarts have no fairness.
`TurnTools`, `SafetyCheck` and `Account` state safety only.  `TaskApproval` states safety only
and has none: how long a node may take is `Jobs`' subject.

`CHECK_DEADLOCK` stays on everywhere.  Symmetry is used in `turn_overlap` and
`account_core`, which check no liveness, over sets that no constant tells apart.

## 4. What is proved

`JobsProofs` proves, for every set of jobs and sessions, every time budget, any
number of rounds and crashes, and a store that fails or not:

| Theorem | States |
|---|---|
| `TypeCorrect` | `Spec => []TypeOK` |
| `NoLostWakeupHolds` | a running job's approval card can be answered |
| `EveryResumeHasADecisionHolds` | no resumed turn gets the `{}` default |
| `SessionLockHolds` | two fresh active records in a session only after a submit on a crowded namespace; a runner within its lifetime has an active record |
| `SharedThreadHasACauseHolds` | two runners on one thread only after an expiry or such a submit |

They need no assumption beyond `ConstantsAssumption`: pages have any size.  For a user whose
records always fit on a page, `crowded` stays empty, and the lock is as strict as
`find_active_job` says.

None of the invariants is inductive alone.  The handshake properties rest on an
invariant that ties the coroutine to the registries: a paused runner has an
event; a set event has a decision next to it; an interrupted record with a live
runner shows the runner's current round.  It is kept by `resume` because the decision
is written before the event is set, and by `_pause_for_hitl` because a new event
is registered before the record says interrupt.  `SessionLock` is preserved by
`submit` because a search that returns everything finds the fresh active record of the session,
whose runner, if alive, is in `live`, and any other search makes the session crowded; every other action leaves active only the record of a
runner that is alive, and a runner inside its lifetime keeps its record active
until the step in which it ends.

`JobLifetimeProofs` goes on from these invariants:

| Theorem | States |
|---|---|
| `RegistriesFollowRunnersHolds` | every runner is in `_live_jobs`, only one that has paused has an event or a decision |
| `AcceptedDecisionCountsHolds` | an accepted decision reaches the next turn, or the wait ran out at that moment, or the process died |
| `SettledStaysSettledHolds` | a settled record changes only by pruning or by its own runner after the job's expiry |
| `RunnerLifeIsBoundedHolds` | a runner is gone `LongestLife` after its submission |
| `PruneSparesRunnersHolds` | pruning deletes no record of a job that is going on, if `PruneCovers` |
| `LifecycleSpecHolds` | `Spec => LifecycleSpec`: `Jobs` implements `JobLifecycle` |

`PruneCovers` (`LongestLife <= PruneAge`) is the one condition, and the code's constants satisfy it: 7860 s
against 24 hours.  The claims of the docstrings that the constants do not satisfy
(`OneRunnerPerSession`, `RunnerWithinLifetime`, `TerminalIsFinal`) are neither proved nor
checked under conditions that the code does not meet; `jobs_two_runners` is their counterexample.

All but the first rest on one lemma, `StepsOfAJob`: seen from one job, each step of the system is
one of ten moves (`JobMoves`), so each theorem has ten cases rather than
one per action and job.  The life of a runner (`LifeInv`) is bounded by the deadlines of its
waits: the loop runs a due timer before time passes, and `resume` accepts no decision once the
record has expired.  So the last turn starts by the expiry, runs for `RunTimeout`, and one more
wait can follow it, for a human or for the filter, whatever the number of rounds before it:
`LongestLife` is the expiry, a turn and a wait.  `SettledStaysSettled` needs no complete
search, because a submit that misses the holder of a session settles nobody (`HolderInv`).  In the
step simulation every move of a job is a step of `JobLifecycle` or a
stutter (`LifecycleMoves`).  `JobLifecycle` has the two exceptions that the code has, each tied to its
cause: a runner past its job's expiry may save over a settled record (`LateSaves`), and a job of
a crowded session need not be alone (`CreatedAlone`, which follows from `SessionLock`).  What
makes each coroutine's record show where the coroutine stands is `StatusInv`.

`DingTalkProofs` proves, for every set of turns, requests, load tasks, OAuth states
and credentials, and a store that fails or not:

| Theorem | States |
|---|---|
| `TypeCorrect` | `Spec => []TypeOK` |
| `MemoryMatchesStoreHolds` | runtime and stored config agree; usable tools carry the stored credentials |
| `AtMostOneLazyLoadHolds` | one lazy load at a time |
| `NoRespawnHolds` | no second lazy load without a toggle or a restart in between |
| `EnsureBringsToolsHolds` | a connected user's turn is bound to its tools unless their load failed |

They need no assumption beyond `DingTalkAssumption`.  `MemoryMatchesStore` says
nothing of who may still install a runtime, so it is strengthened (`Inv`): while no
toggle has overlapped a load, a load in flight is the registered one and carries
the stored credentials of a config that is still enabled (`LoadInv`); the registry
is loading until the registered task succeeds (`TaskInv`); whoever waits does so
for the registered load or for one already dealt with (`TurnInv`); and once a load
was started and nothing is registered, the registry holds its answer (`SpawnInv`).
So a turn that finds neither a usable answer nor a registered load is the first
since the last toggle (`FirstOfEpoch`), and it alone starts a load.

`TaskApprovalProofs` proves, for every number of conversations, tasks, fields, tool
calls, messages and attempts, pages of any size, and a store that fails or not:

| Theorem | States |
|---|---|
| `TypeCorrect` | `Spec => []TypeOK` |
| `CardIsCurrentHolds` | a card shows the proposals of the tools step that has just ended |
| `ApplyWritesWhatWasApprovedHolds` | `hitl_node` writes accepted keys only, each as shown or as the human edited it, in every attempt |
| `ApprovalTakesEffectHolds` | an approval reported to the agent has been applied as a whole |

They need `TaskApprovalAssumption` only.  `hitl_node` parses the messages again on
resume, so everything hangs on the scan finding then what the card showed:
`ParseFindsLast` says that it finds the last message if that one has proposals,
which is when the graph routes to the card, and `ParseIsCard` that this is still so
when the approval is applied, because nothing adds tool messages to a paused
conversation.  The invariant is `CardIsCurrent` with `ToolsHaveCalls`: a tools step
has a call, or its last message would be an earlier step's.  The
action properties follow from it: the only steps that count as `hitl_node`'s are
its own (`AppliesOnly`), and those write accepted keys (`AppliedType`, `PartlyType`).

`AgentTurnProofs` proves, for any number of overlapping runs, turns, models, attempts
and tools steps, whatever fails:

| Theorem | States |
|---|---|
| `TurnTypeCorrect` | `Spec => []TypeOK`; in it, that a chain is not walked beyond its end |
| `AudioIsHeardHolds` | before the agent is asked in a turn with a recording, its transcript or the apology is in the history |
| `AnswerIsOwnHolds` | a caller whose turn ends is answered in words of that turn |
| `ApologyOnlyWhenAllFailedHolds` | nobody is told "not available" while a model of the chain or an attempt was left |
| `CallsDangleOnlyWhenCutHolds` | calls lose their results only where a tools step was unfinished or has given up |

They need `AgentTurnAssumption` only.  `AudioIsHeard` is about the agent node alone; the invariant (`TurnInv`)
adds what holds before: while the turn is at the transcription, the run's own copy
holds the recording of *this* turn, not the one an earlier turn left behind or
another run has put into the checkpoint since (`Hears`).  A run reads the checkpoint
once, so other runs cannot disturb it; every step of its own only adds to the history
(`HeardStays`).

Types and `ApologyOnlyWhenAllFailed` hang on the chain.  That it holds no model twice, hence is
no longer than there are models, is an induction over the steps of its loop
(`WithFallbackIsChain`, `ChainIsChain`).  The apology needs an account of what was tried (`TriedIn`): the
positions before the one that is asked have failed in this attempt, and every earlier attempt has
walked the chain to its end or to an error that no other model helps against.  Because the property
recognises an apology by the turn it comes from, the invariant (`TriedInv`) also says that runs that are
going on serve turns of their own (`TurnsAreOwn`) and that a turn that has ended is over
(`EndedByAnother`).  `AnswerIsOwn` follows from the types and from what `_last_ai_content` finds behind
the last words of a turn (`LastWords`); `CallsDangleOnlyWhenCut` from what a step can add to a
history the provider accepts (`CallsAtTheEnd`).

`TurnToolsProofs` proves, for any users, conversations, servers, catalogues, schemas and contents
of `mcp_servers.json`:

| Theorem | States |
|---|---|
| `ToolsTypeCorrect` | `Spec => []TypeOK`; in it, that no tool is promoted twice |
| `RunsOwnToolsHolds` | a tools step runs DingTalk tools only of the conversation's user, loaded in the user's or the deployment's name, and only while they are enabled |
| `BindingIsSoundHolds` | a request names no tool twice, only tools that are loaded and convertible, `tool_search` when it can find something, and acceptable schemas |
| `FetchedStaysCallableHolds` | a tool once found is bound for the rest of the conversation, whenever the user has it |

They need `TurnToolsAssumption` only.  The invariant of the first (`RegistryInv`) says of every user's entry, enabled or
not, that it holds tools of DingTalk's server in that user's name (`OwnTools`): entries
that a failed enable has switched off come back with `Connect`.  It rests on
`LoadBringsDingTalk`: a load that is asked for one server returns nothing of another,
whatever the file says.  The others need to know what two loops compute: the reducer
keeps what there was, adds the update and repeats nothing (`ReducePromotedIs`, `SearchesAre`), and the binding
has the core tools and every promoted tool that can be given, once
(`BindListIs`).  With that, all that was ever found in a conversation is promoted in it
(`FetchedIsPromoted`, which is inductive together with the types).

**Induction.**  The induction theorems of the library take a predicate as a parameter and cannot be
used here, but induction over a *set* of natural numbers can be proved from
`NatLessThanWellFounded` (`NatSetInduction`).  That is enough for the chain and for the folds:
`FoldLeft` is a recursive function over sets of positions, which exists as soon as what is folded
stays in a set (`FoldExists`), and then goes through the positions in order (`ReducePromotedGoes`,
`SearchesGo`, `BindListGoes`).  `SelectSeq` has no definition to unfold; what matters to the theorems of a
search is only that its results are names of the catalogue, which is their type in `Found`.

`SafetyCheckProofs` proves, for any number of checks, tokens and retries:

| Theorem | States |
|---|---|
| `TypeCorrect` | `Spec => []TypeOK` |
| `RiskPassesOnlyUncheckedHolds` | risky text passes only when WeChat failed the check or others spoiled tokens under it as often as it tries again |

They use `SafetyCheckAssumption`.  The property is about a check that has returned; the invariant (`LoopInv`) is
about one in its loop.  While there was no trouble each attempt after the first is paid
for by a spoiled token, with one attempt in credit (`Paid`): the credit is used up by
the token that was stale from the start, and goes when the check holds a void token, or is about
to take one from the cache.  `Bystander` is the heart of it: what other
checks do to cache and tokens is harmless or counted.

`AccountProofs` proves, for any number of people, codes, logins, deletions, threads, areas,
keys and pages, and with or without a service role:

| Theorem | States |
|---|---|
| `TypeCorrect` | `Spec => []TypeOK` |
| `LoginIsSoundHolds` | a conflict is answered only when the account changed during the login, belongs to another secret or was refused by GoTrue; a session is of the account the person has |
| `DeletionLeavesNothingHolds` | of what an area held when it was searched, a deletion that answers ok has left no more than did not fit on the page, hence nothing of an area that did |

They use `AccountAssumption`.  For the login the invariant (`LoginInv`) says that what a login found out
at GoTrue is still true unless it is crossed (`Knows`).  For the deletion
(`DeletionInv`) every area already swept holds nothing but what is late or was met and not on the
page, and the area being swept nothing but that and the keys still to be deleted
(`SweepInv`).  An overlapping deletion only takes data away, and a write is late for all
deletions of its id that are under way; so neither brings back anything that counts.

**Only model-checked.**  Every invariant and every action property of a passing run is a theorem, and so is
the refinement of `JobLifecycle`.  What stays with TLC is liveness under fairness (`RunnerEnds`,
`PolledJobSettles`, `TurnsReturn`, `TurnEnds`), which the prover does not reach, and the four
counterexamples of section 5.

**What the proofs changed in the model.**  In `Jobs` the cases of `Cleared` overlapped, which TLC does not
notice (it takes the first) and the prover does.  The reducer of `promoted_tools` repeats
no name of one update either (`state.py:17` looks at what it has merged so far); the model
only compared with what was there before.  The binding leaves a promoted name away that is a
core tool's (`tool_binder.py:188`), without which `BindingIsSound` is false for a server that lists
a tool of such a name; the instance of TLC has none, so the run did not show it.
In `AgentTurn` the step from a model to its fallback became an operator of its own (`WithFallback`).

## 5. Findings

Four are violation runs; `PROJECT.json` quotes the lines.

* `jobs_two_runners`: `JOB_EXPIRY_SECONDS` does not cover a runner's life; a late
  approval leads to two runners on one thread.
* `dingtalk_disable`: a lazy load in flight undoes a disable.
* `account_page`: the deletion of an account deletes one page of each area, answers ok, and
  leaves the rest.
* `approval_unpresented`: proposals that are not in the last message of a tools
  step never reach the human.

Eight more are stated as properties, at the end of their modules, without a run of
their own; the constants of the run named with each, with the property as the only
one, show it in seconds (`TextGoesToAgent`, `TerminalIsFinal` and `UpdatesMerge` are action properties, the
others invariants).

* `Jobs!DecisionAnswersItsRound` (`jobs_core`): a decision names no interrupt; a repeated
  POST answers the next card.
* `Jobs!LiveJobsHaveRunners` (`jobs_core`): a store failure before the `try` of `_execute`
  leaves the job in `_live_jobs`; the session answers 409 for 66 minutes.
* `Jobs!RunnerWithinLifetime` and `Jobs!TerminalIsFinal` (`jobs_core`): a runner outlives the
  lifetime of its job, and its copy of the record then replaces a settled one.
* `DingTalk!NeverRaisesIntoTheGraph` (`dingtalk_core`): cancelling one turn cancels the shared
  load under the others and leaves the loading state behind.
* `DingTalk!ReEnableReloads` (`dingtalk_core`): after a failed load and an OAuth connection
  `/enable` answers "already enabled" without loading.
* `TaskApproval!UpdatesMerge` (`approval_unpresented` with `Threads = {t1, t2}`,
  `Patches <- TwoPatches`, `MaxCalls = 1` and `MaxRunning = 2`): `update_task` reads and writes without a lock, in threads: one of two changes is gone.
* `AgentTurn!TextGoesToAgent` (`turn_core`): nothing clears `audio_bytes`, and only `POST /chat`
  overwrites it (`chat/service.py:163` and `runner.py:235` do not); a text message
  after a recording is sent to the transcription again, against `routing.py:12`.

Seen while modelling and stated by no property:

* `find_active_job` looks at one page of a user's records (10 by default, terminal ones
  of every session stay for 24 hours).  A user with more may get a second runner on a thread well
  before any expiry; `SessionLock` and `SharedThreadHasACause` name this as one of the two ways there.
* `builder.py:178-180` says that `hitl_node` removes the old `update_tasks` messages,
  which it does not, harmlessly (`CardIsCurrent`).
* An interrupted record that times out keeps its payload although `models.py:46` ties
  it to `interrupt`.
* A failed re-enable keeps the old tools in memory while `router.py:17` says it rolls
  back; a later OAuth connection enables these tools again.  A failing store read in
  `ensure_user_tools` raises into the graph.
* A tools step that is cut off, by the error handler, a time limit, or a message of
  another run, leaves calls without results in the checkpoint.  From then on
  the provider refuses the conversation until a restart
  (`CallsDangleOnlyWhenCut` says that there is no other way to get there).
* The idle limit of the agent node cuts a hung primary model in every attempt, so its
  backup is never asked; and all models of a chain are built before any is asked, so a
  backup without a key takes the primary down with it.
* `_last_ai_content` searches the whole conversation: when a turn pauses for an approval
  before it said anything, an older turn's reply is returned with the card
  (`AnswerIsOwn` is about turns that end).  Replies of `/chat/stream` and `/chat/resume`
  do not pass `filter_risky_reply`.
* `ToolNode` runs tools that are loaded though not bound, and a user without stored
  credentials uses the deployment's DingTalk client.
* Two first logins of a person: one of them answers 500 although the account is
  there.  An account made under another password secret cannot be used any more.
* When GoTrue is not reachable the deletion answers 502 after the data is gone
  (`user/service.py:71-74` promises otherwise).  A deletion leaves the job records and the DingTalk runtime in memory, and leaves
  tokens good until they expire.
* A content check fails open when others spoil tokens as often as it retries.
* One DingTalk tool with a schema that cannot be converted makes every load fail.
* A task that is edited or deleted while an approval card is open is overwritten or comes back
  with the approval; a tool that was given up on may still write after it.

## 6. Plan

1. Shorter proofs where `StepsOfAJob` can be used in `JobsProofs` as well.
2. Two overlapping `POST /enable` in `DingTalk`, without turns (the fields of the
   earlier one are lost, `dingtalk_runtime.py:252`).
3. One abstract specification of a conversation that `AgentTurn` and the turns of
   `Jobs` both implement.

**Not modelled.**  The chunking of recordings (`transcription/_ffmpeg.py` and the chunked
half of `service.py`): it begins at 25 MB, and no endpoint takes more than 20 MB
(`app/common/dependencies.py:105`), so it does not run.  `register_mcp_tools` and
`MCP_TOOL_NAMES`: nothing in the repository registers anything.  The tools
`update_profile` and `update_instructions` beyond their one write, and the prompts.  The
auth proxy beyond the renewal of tokens, and JWT verification (one library call per
request).  Start-up and configuration, which happen once before the first request;
debug output, diagnostics and the scripts, which neither keep state nor take part in
any behaviour above.  How late timers fire when `check_text_safety` blocks the event loop
(`runner.py:102`).  LangGraph, GoTrue, WeChat, the MCP servers and the model providers enter
by how `src/` uses them.
