----------------------------- MODULE AgentTurn -----------------------------
(***************************************************************************)
(* Turns of one conversation: the graph of agents/graph/builder.py as the  *)
(* chat endpoints and the jobs run it, with its retries, time limits and   *)
(* error handler, and the chain of models that stand in for one another.   *)
(*                                                                         *)
(* A run of the graph reads the checkpoint of the conversation when it     *)
(* starts, works on a copy of it, and writes the copy back after each      *)
(* node; the checkpoint of a thread is whatever was written last.  Nothing *)
(* but the lock of the jobs (module Jobs) keeps two runs of a conversation *)
(* apart.  What the tools do to the task list is in module TaskApproval.   *)
(***************************************************************************)
EXTENDS Naturals, Sequences, FiniteSets

CONSTANTS
    Runs,           \* runs of the graph that may overlap (bound)
    Models,         \* model_providers of config.yaml
    Active,         \* its active_model
    NoModel,        \* no fallback_to
    Failures,       \* the failures that happen (see Errors)
    MaxAttempts,    \* RETRY_POLICY.max_attempts
    MaxRounds,      \* tools steps in one turn (bound; LangGraph has its own)
    MaxTurns        \* turns in the conversation (bound)

(***************************************************************************)
(* Failures of a node, by what the code makes of them: server_error (5xx   *)
(* and 429) and connection come from a model; so do bad_request (400) and  *)
(* denied (401, 403, 404).  unlisted stands for those of the store and of  *)
(* the SDK's parser, unkeyed for a model without API key, and node_timeout *)
(* is LangGraph's.                                                         *)
(***************************************************************************)
Errors == {"server_error", "connection", "bad_request", "denied", "unlisted",
           "unkeyed", "node_timeout"}
ModelErrors == {"server_error", "connection", "bad_request", "denied", "unlisted"}

ASSUME AgentTurnAssumption ==
    /\ IsFiniteSet(Models) /\ Active \in Models /\ NoModel \notin Models
    /\ Failures \subseteq Errors
    /\ MaxAttempts \in Nat \ {0}
    /\ MaxRounds \in Nat /\ MaxTurns \in Nat

VARIABLES
    conf,       \* config.yaml and the keys in the environment
    saved,      \* the checkpoint of the conversation
    turns,      \* turns begun so far
    at,         \* the node a run executes, or "idle"
    mine,       \* the copy of the checkpoint a run works on
    own,        \* the request a run serves
    rounds,     \* tools steps of the turn so far
    attempt,    \* which attempt of the node this is
    asked,      \* position in the chain of the model that is asked
    seen,       \* failures of this node: <<attempt, position, error>>
    reply       \* the turn whose words were returned, 0 for none

node == <<attempt, asked, seen>>
vars == <<conf, saved, turns, at, mine, own, rounds, node, reply>>

(***************************************************************************)
(* Messages carry the turn they come from; a transcript, the turn of the   *)
(* recording.  calls is a message of the agent that asks for tools, tools  *)
(* the results, note what hitl_node says when changes were rejected.       *)
(***************************************************************************)
Message  == [kind : {"human", "transcript", "calls", "tools", "note", "reply", "apology"},
             turn : 0 .. MaxTurns]
Nodes    == {"transcription", "agent", "tools", "hitl_node"}
Copy     == [history : Seq(Message), audio : 0 .. MaxTurns]
Request  == [turn : 0 .. MaxTurns, endpoint : {"chat", "stream", "job"}, audio : BOOLEAN]
Config   == [fallback : [Models -> Models \cup {NoModel}], keyed : SUBSET Models]

TypeOK ==
    /\ conf \in Config
    /\ saved \in [history : Seq(Message), audio : 0 .. MaxTurns, next : Nodes \cup {"end"}]
    /\ turns \in 0 .. MaxTurns
    /\ at \in [Runs -> Nodes \cup {"idle"}]
    /\ mine \in [Runs -> Copy]
    /\ own \in [Runs -> Request]
    /\ rounds \in [Runs -> 0 .. MaxRounds]
    /\ attempt \in [Runs -> 1 .. MaxAttempts]
    /\ asked \in [Runs -> 1 .. Cardinality(Models)]
    /\ seen \in [Runs -> SUBSET ((1 .. MaxAttempts) \X (1 .. Cardinality(Models)) \X Errors)]
    /\ reply \in [Runs -> 0 .. MaxTurns]

(***************************************************************************)
(* Models.                                                                 *)
(***************************************************************************)
\* ModelConfigYAML: a fallback names another model, and no cycles.
ValidConfig(c) ==
    \A S \in SUBSET Models \ {{}} : \E m \in S : c.fallback[m] \notin S

\* The chain with what falls back for its last model, unless it is in already.
WithFallback(c, chain) ==
    LET target == c.fallback[chain[Len(chain)]]
    IN  IF target = NoModel \/ \E i \in DOMAIN chain : chain[i] = target
        THEN chain
        ELSE Append(chain, target)

\* _build_failover_chain: the active model, then what falls back for it.
Chain(c) ==
    LET upto[n \in 0 .. Cardinality(Models)] ==
            IF n = 0 THEN <<Active>> ELSE WithFallback(c, upto[n - 1])
    IN  upto[Cardinality(Models)]

\* Every model of the chain is built, so every one of them needs its key.
Buildable(c) == \A i \in DOMAIN Chain(c) : Chain(c)[i] \in c.keyed

\* Seeded fault: a provider that answers with 5xx is not left for another.
FailsOverUnreached(e) == e = "connection"

\* TRANSIENT_API_ERRORS: another model may do better.
FailsOver(e) == e \in {"server_error", "connection"}

\* retry_on: another attempt may do better.
RetryOn(e) == e \in {"server_error", "connection", "unlisted", "node_timeout"}

\* The provider refuses tool calls that no results follow.
Accepts(h) ==
    \A i \in DOMAIN h : h[i].kind = "calls" => i < Len(h) /\ h[i + 1].kind = "tools"

(***************************************************************************)
(* Routing.                                                                *)
(***************************************************************************)
\* Seeded fault: a recording that comes with a text is passed over.
RouteText(c) ==
    IF c.audio # 0 /\ (c.history = <<>> \/ c.history[Len(c.history)].kind # "human")
    THEN "transcription" ELSE "agent"

RouteStart(c) == IF c.audio # 0 THEN "transcription" ELSE "agent"

\* Seeded fault: tool calls are taken for an answer.
RouteToEnd(h) == "end"

RouteAfterAgent(h) == IF h[Len(h)].kind = "calls" THEN "tools" ELSE "end"

\* Seeded fault: the search starts with the oldest message.
FirstAIContent(h) ==
    LET said == {i \in DOMAIN h : h[i].kind \in {"reply", "note", "apology"}}
    IN  IF said = {} THEN 0 ELSE h[CHOOSE i \in said : \A j \in said : i <= j].turn

\* _last_ai_content: the newest words of the agent in the whole conversation.
LastAIContent(h) ==
    LET said == {i \in DOMAIN h : h[i].kind \in {"reply", "note", "apology"}}
    IN  IF said = {} THEN 0 ELSE h[CHOOSE i \in said : \A j \in said : j <= i].turn

-----------------------------------------------------------------------------
EmptyCopy == [history |-> <<>>, audio |-> 0]
NoRequest == [turn |-> 0, endpoint |-> "chat", audio |-> FALSE]

Init ==
    /\ conf \in {c \in Config : ValidConfig(c)}
    /\ saved = [history |-> <<>>, audio |-> 0, next |-> "end"]
    /\ turns = 0
    /\ at = [r \in Runs |-> "idle"]
    /\ mine = [r \in Runs |-> EmptyCopy]
    /\ own = [r \in Runs |-> NoRequest]
    /\ rounds = [r \in Runs |-> 0]
    /\ attempt = [r \in Runs |-> 1]
    /\ asked = [r \in Runs |-> 1]
    /\ seen = [r \in Runs |-> {}]
    /\ reply = [r \in Runs |-> 0]

Says(r, kind) == Append(mine[r].history, [kind |-> kind, turn |-> own[r].turn])

\* A node begins: its first attempt, at the first model; S is what is left of
\* the one before.
NewNode(r, S) ==
    /\ attempt' = [attempt EXCEPT ![r] = 1]
    /\ asked' = [asked EXCEPT ![r] = 1]
    /\ seen' = [seen EXCEPT ![r] = S]
FreshNode(r) == NewNode(r, {})

\* The node of r is done with history h: the checkpoint is written, and the
\* run goes on at next, or returns: at the end, and where a human is asked.
Leaves(r, h, next) ==
    /\ saved' = [history |-> h, audio |-> mine[r].audio, next |-> next]
    /\ IF next \in {"end", "hitl_node"}
       THEN /\ at' = [at EXCEPT ![r] = "idle"]
            /\ mine' = [mine EXCEPT ![r] = EmptyCopy]
            /\ own' = [own EXCEPT ![r] = NoRequest]
            /\ rounds' = [rounds EXCEPT ![r] = 0]
            /\ reply' = [reply EXCEPT ![r] = LastAIContent(h)]
       ELSE /\ at' = [at EXCEPT ![r] = next]
            /\ mine' = [mine EXCEPT ![r].history = h]
            /\ rounds' = [rounds EXCEPT ![r] = IF next = "tools" THEN @ + 1 ELSE @]
            /\ UNCHANGED <<own, reply>>
    /\ UNCHANGED <<conf, turns>>
MovesOn(r, h, next) == FreshNode(r) /\ Leaves(r, h, next)

\* POST /chat, its stream and a job: the message, and the recording if there
\* is one, go on top of the checkpoint.  Only POST /chat says so when there is
\* no recording.  Two jobs do not run at a time in a conversation.
Start(r, endpoint, text, recorded) ==
    LET turn == turns + 1
        copy == [history |-> saved.history \o
                     (IF text THEN <<[kind |-> "human", turn |-> turn]>> ELSE <<>>),
                 audio |-> IF recorded THEN turn
                           ELSE IF endpoint = "chat" THEN 0 ELSE saved.audio]
    IN  /\ at[r] = "idle" /\ turns < MaxTurns
        /\ endpoint = "job" =>
             \A q \in Runs : at[q] # "idle" => own[q].endpoint # "job"
        /\ turns' = turn
        /\ own' = [own EXCEPT ![r] = [turn |-> turn, endpoint |-> endpoint, audio |-> recorded]]
        /\ mine' = [mine EXCEPT ![r] = copy]
        /\ at' = [at EXCEPT ![r] = RouteStart(copy)]
        /\ saved' = [history |-> copy.history, audio |-> copy.audio, next |-> RouteStart(copy)]
        /\ reply' = [reply EXCEPT ![r] = 0]
        /\ FreshNode(r)
        /\ UNCHANGED <<conf, rounds>>

\* POST /chat/resume and the runner of a resumed job: the graph goes on where
\* the checkpoint says, if there is anything left to do.
Resume(r, endpoint) ==
    /\ at[r] = "idle" /\ turns < MaxTurns /\ saved.next # "end"
    /\ turns' = turns + 1
    /\ own' = [own EXCEPT ![r] = [turn |-> turns + 1, endpoint |-> endpoint, audio |-> FALSE]]
    /\ mine' = [mine EXCEPT ![r] = [history |-> saved.history, audio |-> saved.audio]]
    /\ at' = [at EXCEPT ![r] = saved.next]
    /\ reply' = [reply EXCEPT ![r] = 0]
    /\ FreshNode(r)
    /\ UNCHANGED <<conf, saved, rounds>>

(***************************************************************************)
(* The nodes.                                                              *)
(***************************************************************************)
\* transcribe_node: what was said, or that it could not be transcribed; an
\* error of the service is part of the text and nothing is tried again.
Transcribes(r) ==
    /\ at[r] = "transcription"
    /\ MovesOn(r, Append(mine[r].history, [kind |-> "transcript", turn |-> mine[r].audio]),
               "agent")

\* The model that is asked answers, or calls tools.
ModelAnswers(r) ==
    /\ at[r] = "agent" /\ Buildable(conf) /\ Accepts(mine[r].history)
    /\ MovesOn(r, Says(r, "reply"), RouteAfterAgent(Says(r, "reply")))

ModelCallsTools(r) ==
    /\ at[r] = "agent" /\ Buildable(conf) /\ Accepts(mine[r].history)
    /\ rounds[r] < MaxRounds
    /\ MovesOn(r, Says(r, "calls"), RouteAfterAgent(Says(r, "calls")))

\* The tools are back, errors of theirs included; route_after_tools sends
\* proposals to hitl_node, where the turn pauses.
ToolsReturn(r) ==
    /\ at[r] = "tools"
    /\ \E next \in {"agent", "hitl_node"} : MovesOn(r, Says(r, "tools"), next)

\* hitl_node goes on with a decision.
HumanDecided(r) ==
    /\ at[r] = "hitl_node"
    /\ \E kind \in {"human", "note"} : MovesOn(r, Says(r, kind), "agent")

(***************************************************************************)
(* Their failures.                                                         *)
(***************************************************************************)
Failed(r, e) == seen[r] \cup {<<attempt[r], asked[r], e>>}

\* Seeded fault: a timed out attempt is not counted.
RetryAnew(r, e) ==
    /\ RetryOn(e) /\ (attempt[r] < MaxAttempts \/ e = "node_timeout")
    /\ attempt' = [attempt EXCEPT ![r] = IF e = "node_timeout" THEN @ ELSE @ + 1]
    /\ asked' = [asked EXCEPT ![r] = 1]
    /\ seen' = [seen EXCEPT ![r] = Failed(r, e)]
    /\ UNCHANGED <<conf, saved, turns, at, mine, own, rounds, reply>>

\* RETRY_POLICY: the node runs again, from the beginning.
Retry(r, e) ==
    /\ RetryOn(e) /\ attempt[r] < MaxAttempts
    /\ attempt' = [attempt EXCEPT ![r] = @ + 1]
    /\ asked' = [asked EXCEPT ![r] = 1]
    /\ seen' = [seen EXCEPT ![r] = Failed(r, e)]
    /\ UNCHANGED <<conf, saved, turns, at, mine, own, rounds, reply>>

\* graph_error_handler apologises.  It is a node of its own: the turn ends
\* there, or LangGraph follows the edges of the node that failed.
GiveUp(r, e) ==
    /\ ~(RetryOn(e) /\ attempt[r] < MaxAttempts)
    /\ \E next \in {"end"} \cup (IF at[r] = "agent" THEN {} ELSE {"agent"}) :
        Leaves(r, Says(r, "apology"), next)
    /\ NewNode(r, Failed(r, e))

Fails(r, e) == Retry(r, e) \/ GiveUp(r, e)

\* Seeded fault: the model after the last one is asked.
AskPast(r, e) ==
    /\ FailsOver(e) /\ asked[r] <= Len(Chain(conf))
    /\ asked' = [asked EXCEPT ![r] = @ + 1]
    /\ seen' = [seen EXCEPT ![r] = Failed(r, e)]
    /\ UNCHANGED <<conf, saved, turns, at, mine, own, rounds, attempt, reply>>

\* FailoverChatModel: the next model of the chain is asked.
AskNext(r, e) ==
    /\ FailsOver(e) /\ asked[r] < Len(Chain(conf))
    /\ asked' = [asked EXCEPT ![r] = @ + 1]
    /\ seen' = [seen EXCEPT ![r] = Failed(r, e)]
    /\ UNCHANGED <<conf, saved, turns, at, mine, own, rounds, attempt, reply>>

\* The model that is asked fails.  Its provider calls a history it does not
\* accept a bad request.
ModelFails(r, e) ==
    /\ at[r] = "agent" /\ Buildable(conf)
    /\ e \in ModelErrors
    /\ e \in Failures \/ (e = "bad_request" /\ ~Accepts(mine[r].history))
    /\ AskNext(r, e) \/ (~(FailsOver(e) /\ asked[r] < Len(Chain(conf))) /\ Fails(r, e))

\* _resolve_api_key raises ValueError.
ModelLacksKey(r) ==
    /\ at[r] = "agent" /\ ~Buildable(conf)
    /\ Fails(r, "unkeyed")

\* AGENT_TIMEOUT, TOOLS_TIMEOUT and TRANSCRIPTION_TIMEOUT; the store fails
\* in hitl_node, which has no time limit.
NodeBreaks(r) ==
    LET e == IF at[r] = "hitl_node" THEN "unlisted" ELSE "node_timeout"
    IN  at[r] # "idle" /\ e \in Failures /\ Fails(r, e)

\* The client of a stream leaves, or RUN_TIMEOUT_SECONDS are over for a job:
\* the run is cancelled, the checkpoint stays as the last node left it.
Cancel(r) ==
    /\ at[r] # "idle" /\ own[r].endpoint \in {"stream", "job"}
    /\ at' = [at EXCEPT ![r] = "idle"]
    /\ mine' = [mine EXCEPT ![r] = EmptyCopy]
    /\ rounds' = [rounds EXCEPT ![r] = 0]
    /\ own' = [own EXCEPT ![r] = NoRequest]
    /\ FreshNode(r)
    /\ UNCHANGED <<conf, saved, turns, reply>>

\* The process restarts: MemorySaver forgets.
Restart ==
    /\ saved' = [history |-> <<>>, audio |-> 0, next |-> "end"]
    /\ at' = [r \in Runs |-> "idle"]
    /\ mine' = [r \in Runs |-> EmptyCopy]
    /\ rounds' = [r \in Runs |-> 0]
    /\ attempt' = [r \in Runs |-> 1]
    /\ asked' = [r \in Runs |-> 1]
    /\ seen' = [r \in Runs |-> {}]
    /\ reply' = [r \in Runs |-> 0]
    /\ own' = [r \in Runs |-> NoRequest]
    /\ UNCHANGED <<conf, turns>>

NodeStep(r) ==
    \/ Transcribes(r)
    \/ ModelAnswers(r)
    \/ ModelCallsTools(r)
    \/ ToolsReturn(r)
    \/ HumanDecided(r)
    \/ \E e \in ModelErrors : ModelFails(r, e)
    \/ ModelLacksKey(r)
    \/ NodeBreaks(r)

Next ==
    \/ \E r \in Runs :
        \/ \E text, recorded \in BOOLEAN : \E endpoint \in {"chat", "stream", "job"} :
               Start(r, endpoint, text, recorded)
        \/ \E endpoint \in {"chat", "job"} : Resume(r, endpoint)
        \/ NodeStep(r)
        \/ Cancel(r)
    \/ Restart

\* Nodes have time limits, so each of them comes to an end.
Spec == Init /\ [][Next]_vars /\ \A r \in Runs : WF_vars(NodeStep(r))

-----------------------------------------------------------------------------
(***************************************************************************)
(* Properties.                                                             *)
(***************************************************************************)
\* In attempt n every model of the chain failed, or the attempt was cut short
\* by a failure that another model would have met as well.
TriedAll(S, n) ==
    \A i \in DOMAIN Chain(conf) : \E e \in {"server_error", "connection"} : <<n, i, e>> \in S
CutShort(S, n) ==
    \E i \in DOMAIN Chain(conf) : \E e \in {"unlisted", "node_timeout"} : <<n, i, e>> \in S

\* A user is told that the service is not available only when no attempt could
\* have been saved by another model, or trying again could not help.
ApologyOnlyWhenAllFailed ==
    [][\A r \in Runs :
          at[r] = "agent" /\ saved'.next = "end" /\ saved'.history = Says(r, "apology") =>
              \/ \E e \in {"bad_request", "denied", "unkeyed"} :
                    <<attempt[r], asked[r], e>> \in seen'[r]
              \/ \A n \in 1 .. MaxAttempts :
                    TriedAll(seen'[r], n) \/ CutShort(seen'[r], n)]_vars

\* The copy c of a conversation holds tool calls that stay without results.
Dangles(c, next) == ~Accepts(c.history) /\
    ~(next = "tools" /\ Accepts(SubSeq(c.history, 1, Len(c.history) - 1)))

\* The calls in a conversation lose their results, and every later turn with
\* them, in no other way than these: a message arrives while a tools step is
\* unfinished, running or cut off, or the tools step gives up.
CallsDangleOnlyWhenCut ==
    [][Dangles(saved', saved'.next) =>
          \/ Dangles(saved, saved.next) \/ saved.next = "tools"
          \/ \E r \in Runs : ~Accepts(mine[r].history)]_vars

\* Before the agent is asked in a turn that came with a recording, its
\* transcript is in the conversation, or the user was told of the failure.
AudioIsHeard ==
    \A r \in Runs : at[r] = "agent" /\ own[r].audio =>
        \E i \in DOMAIN mine[r].history :
            /\ mine[r].history[i].turn = own[r].turn
            /\ mine[r].history[i].kind \in {"transcript", "apology"}

\* The words that a completed turn returns were said in that turn, in spite
\* of all the turns that the conversation holds already.
AnswerIsOwn ==
    [][\A r \in Runs :
          at[r] # "idle" /\ at'[r] = "idle" /\ saved' # saved /\ saved'.next = "end"
          /\ turns' = turns /\ saved'.history # <<>> =>
              reply'[r] = own[r].turn]_vars

\* Every turn ends: with an answer, a card, an apology, or cancelled.
TurnEnds == \A r \in Runs : at[r] # "idle" ~> at[r] = "idle"

-----------------------------------------------------------------------------
(***************************************************************************)
(* What the docstrings promise and the code does not keep.                 *)
(***************************************************************************)
\* nodes/routing.py:12: a turn without a recording goes directly to the agent.
TextGoesToAgent ==
    [][\A r \in Runs : \A endpoint \in {"chat", "stream", "job"} :
          Start(r, endpoint, TRUE, FALSE) => at'[r] = "agent"]_vars
=============================================================================
