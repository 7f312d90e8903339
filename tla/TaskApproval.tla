---------------------------- MODULE TaskApproval ----------------------------
(***************************************************************************)
(* One user's task list and those who write it: the REST endpoints of      *)
(* app/chat, the tools of the agent, and hitl_node, which applies the task *)
(* changes a human has approved.                                           *)
(*                                                                         *)
(* REST handlers, update_tasks and hitl_node run on the event loop, where  *)
(* store calls block; the other task tools are plain functions, which the  *)
(* tool node runs in threads of their own, all calls of a message at once. *)
(* So a step of this model is one store call in a thread, or on the event  *)
(* loop the code between two suspensions, with a thread in between where   *)
(* a handler makes two store calls that belong together.                   *)
(***************************************************************************)
EXTENDS Naturals, Sequences, FiniteSets

CONSTANTS
    Threads,        \* conversations of the user
    Keys,           \* store keys of tasks
    Fields,         \* fields of a task
    Values,         \* what a field may hold
    NoTask,         \* nothing stored under a key
    Drafts,         \* contents of a new task, or of one edited on a card
    Patches,        \* updates of one task: a field and its value
    MaxCalls,       \* tool calls in one message of the agent
    MaxOutputs,     \* tool messages in one conversation (bound)
    MaxRunning,     \* tools in threads at a time (bound)
    MaxAttempts,    \* RETRY_POLICY.max_attempts
    SearchLimit,    \* items one store.search returns
    StoreMayFail    \* whether a store call may raise

Task == [Fields -> Values]

ASSUME TaskApprovalAssumption ==
    /\ NoTask \notin Task
    /\ Drafts \subseteq Task
    /\ Patches \subseteq [field : Fields, value : Values]
    /\ MaxCalls \in Nat /\ MaxOutputs \in Nat /\ MaxRunning \in Nat
    /\ MaxAttempts \in Nat \ {0}
    /\ SearchLimit \in Nat \ {0}
    /\ StoreMayFail \in BOOLEAN

VARIABLES
    tasks,      \* the store: key -> task
    at,         \* where the graph stands in a conversation
    outputs,    \* its tool messages: the proposals each carries
    calls,      \* the tool calls of the current tools step
    attempt,    \* which attempt of the current node runs
    card,       \* the proposals shown by its interrupt
    decision,   \* the approval being applied
    edits,      \* tools running in threads
    patching    \* PATCH /tasks between reading and writing: {} or {it}

graph == <<at, outputs, calls, attempt, card, decision>>
vars  == <<tasks, graph, edits, patching>>

(***************************************************************************)
(* A card maps the keys of its proposals to what shall become of their     *)
(* tasks: a task, or NoTask for a deletion.  A tool call that edits a task *)
(* carries its patch; a running tool with no patch deletes.                *)
(***************************************************************************)
Cards  == UNION {[S -> Task \cup {NoTask}] : S \in SUBSET Keys}
NoCard == [k \in {} |-> NoTask]

Decisions  == [rejected : SUBSET Keys, edited : UNION {[S -> Task] : S \in SUBSET Keys}]
NoDecision == [rejected |-> {}, edited |-> NoCard]

Call == [tool : {"update_tasks", "edit", "delete", "other"}, patch : SUBSET Patches,
         at : {"ready", "running", "raised", "done"}, proposed : Cards]
Edit == [of : Threads, call : Nat, attempt : Nat, waited : BOOLEAN, key : Keys,
         patch : SUBSET Patches, base : Task \cup {NoTask}]

TypeOK ==
    /\ tasks \in [Keys -> Task \cup {NoTask}]
    /\ at \in [Threads -> {"idle", "agent", "tools", "paused", "dropped", "applying"}]
    /\ outputs \in [Threads -> Seq(Cards)]
    /\ calls \in [Threads -> Seq(Call)]
    /\ attempt \in [Threads -> 1 .. MaxAttempts]
    /\ card \in [Threads -> Cards]
    /\ decision \in [Threads -> Decisions]
    /\ edits \subseteq Edit
    /\ patching \subseteq [key : Keys, patch : Patches, base : Task]

Init ==
    /\ tasks \in [Keys -> Drafts \cup {NoTask}]
    /\ at = [t \in Threads |-> "idle"]
    /\ outputs = [t \in Threads |-> <<>>]
    /\ calls = [t \in Threads |-> <<>>]
    /\ attempt = [t \in Threads |-> 1]
    /\ card = [t \in Threads |-> NoCard]
    /\ decision = [t \in Threads |-> NoDecision]
    /\ edits = {}
    /\ patching = {}

(***************************************************************************)
(* The store.                                                              *)
(***************************************************************************)
Stored == {k \in Keys : tasks[k] # NoTask}

\* What store.search returns: everything, or a page of it.
Pages ==
    {S \in SUBSET Stored :
        \/ S = Stored /\ Cardinality(S) <= SearchLimit
        \/ Cardinality(S) = SearchLimit}

\* Seeded fault: the stored fields are not carried over.
OnlyUpdated(base, p) == [f \in {p.field} |-> p.value]

\* update_task: the updates win over the stored fields.
Merged(base, p) == [base EXCEPT ![p.field] = p.value]

\* A key that uuid4() returned: nothing refers to it.
Fresh(k) ==
    /\ tasks[k] = NoTask
    /\ \A e \in edits : e.key # k
    /\ \A p \in patching : p.key # k
    /\ \A t \in Threads :
        /\ \A i \in DOMAIN outputs[t] : k \notin DOMAIN outputs[t][i]
        /\ \A i \in DOMAIN calls[t] : k \notin DOMAIN calls[t][i].proposed

\* What the extractor may propose, given a page of the store: changes of the
\* tasks it was given, and new tasks.
Proposals(page) ==
    LET Outcomes(k) == IF k \in page
                       THEN {Merged(tasks[k], p) : p \in Patches} \cup {NoTask}
                       ELSE Drafts
        Subjects == page \cup {k \in Keys : Fresh(k)}
    IN  {c \in Cards : DOMAIN c \subseteq Subjects /\ \A k \in DOMAIN c : c[k] \in Outcomes(k)}

(***************************************************************************)
(* The conversation: routing and the card.                                 *)
(***************************************************************************)
\* Seeded fault: the messages are scanned from the oldest.
ParseFirst(msgs) ==
    LET found == {i \in DOMAIN msgs : msgs[i] # NoCard}
    IN  IF found = {} THEN NoCard
        ELSE msgs[CHOOSE i \in found : \A j \in found : i <= j]

\* _parse_task_proposals: the last proposals among the tool messages.
Parse(msgs) ==
    LET found == {i \in DOMAIN msgs : msgs[i] # NoCard}
    IN  IF found = {} THEN NoCard
        ELSE msgs[CHOOSE i \in found : \A j \in found : j <= i]

\* route_after_tools: proposals in the last message lead to hitl_node.
RoutesToApproval(msgs) == msgs[Len(msgs)] # NoCard

\* Seeded fault: rejected keys are not skipped.
AcceptedAll(c, d) == DOMAIN c

\* Seeded fault: tasks to delete are left alone.
AppliedUpserts(c, d) ==
    [k \in Keys |-> IF k \in DOMAIN c \ d.rejected /\ c[k] # NoTask
                    THEN IF k \in DOMAIN d.edited THEN d.edited[k] ELSE c[k]
                    ELSE tasks[k]]

\* What an approval makes of the tasks.
Accepted(c, d) == DOMAIN c \ d.rejected
Outcome(c, d, k) ==
    IF c[k] # NoTask /\ k \in DOMAIN d.edited THEN d.edited[k] ELSE c[k]
Applied(c, d) ==
    [k \in Keys |-> IF k \in Accepted(c, d) THEN Outcome(c, d, k) ELSE tasks[k]]

\* The event loop is free: no PATCH is between its two store calls.
LoopFree == patching = {}

\* Execution in t goes on elsewhere; its card has had its time.
Leaves(t, next) ==
    /\ at' = [at EXCEPT ![t] = next]
    /\ card' = [card EXCEPT ![t] = NoCard]

(***************************************************************************)
(* The agent and its tools.                                                *)
(***************************************************************************)
\* A message of the user; a card that was open is forgotten.
MessageArrives(t) ==
    /\ LoopFree
    /\ at[t] \in {"idle", "paused", "dropped"}
    /\ Leaves(t, "agent")
    /\ UNCHANGED <<tasks, outputs, calls, attempt, decision, edits, patching>>

\* The agent answers without tools.
AgentAnswers(t) ==
    /\ LoopFree
    /\ at[t] = "agent"
    /\ at' = [at EXCEPT ![t] = "idle"]
    /\ UNCHANGED <<tasks, outputs, calls, attempt, card, decision, edits, patching>>

NewCall(tool, patch) ==
    [tool |-> tool, patch |-> patch, at |-> "ready", proposed |-> NoCard]
NewCalls ==
    {NewCall(tool, {}) : tool \in {"update_tasks", "delete", "other"}}
        \cup {NewCall("edit", {p}) : p \in Patches}

AgentCallsTools(t) ==
    /\ LoopFree
    /\ at[t] = "agent"
    /\ \E n \in 1 .. MaxCalls :
        /\ Len(outputs[t]) + n <= MaxOutputs
        /\ \E cs \in [1 .. n -> NewCalls] : calls' = [calls EXCEPT ![t] = cs]
    /\ at' = [at EXCEPT ![t] = "tools"]
    /\ attempt' = [attempt EXCEPT ![t] = 1]
    /\ UNCHANGED <<tasks, outputs, card, decision, edits, patching>>

SetCall(t, i, to) == calls' = [calls EXCEPT ![t][i].at = to]
IsCall(t, i, tool, where) ==
    at[t] = "tools" /\ calls[t][i].tool = tool /\ calls[t][i].at = where

\* update_tasks reads the tasks and asks the model; what the model will
\* propose depends on what was read.
UpdateTasksStarts(t, i) ==
    /\ LoopFree
    /\ IsCall(t, i, "update_tasks", "ready")
    /\ \E page \in Pages : \E c \in Proposals(page) :
        calls' = [calls EXCEPT ![t][i].at = "running", ![t][i].proposed = c]
    /\ UNCHANGED <<tasks, at, outputs, attempt, card, decision, edits, patching>>

UpdateTasksEnds(t, i) ==
    /\ LoopFree
    /\ IsCall(t, i, "update_tasks", "running")
    /\ SetCall(t, i, "done")
    /\ UNCHANGED <<tasks, at, outputs, attempt, card, decision, edits, patching>>

\* A tool that changes no task.
OtherToolRuns(t, i) ==
    /\ IsCall(t, i, "other", "ready")
    /\ SetCall(t, i, "done")
    /\ UNCHANGED <<tasks, at, outputs, attempt, card, decision, edits, patching>>

\* _find_task_by_title, in a thread: a task with that title, or none.
ToolSearches(t, i) ==
    /\ at[t] = "tools"
    /\ calls[t][i].tool \in {"edit", "delete"} /\ calls[t][i].at = "ready"
    /\ \/ /\ SetCall(t, i, "done")
          /\ UNCHANGED edits
       \/ /\ StoreMayFail
          /\ SetCall(t, i, "raised")
          /\ UNCHANGED edits
       \/ \E page \in Pages : \E k \in page :
            /\ Cardinality(edits) < MaxRunning
            /\ SetCall(t, i, "running")
            /\ edits' = edits \cup
                 {[of |-> t, call |-> i, attempt |-> attempt[t], waited |-> TRUE,
                   key |-> k, patch |-> calls[t][i].patch, base |-> NoTask]}
    /\ UNCHANGED <<tasks, at, outputs, attempt, card, decision, patching>>

\* The thread of e is over; the tool node may have stopped waiting for it.
EditEnds(e, how) ==
    /\ edits' = edits \ {e}
    /\ IF e.waited THEN SetCall(e.of, e.call, how) ELSE UNCHANGED calls
    /\ UNCHANGED <<at, outputs, attempt, card, decision, patching>>

\* update_task reads; KeyError when the task is gone.
EditReads(e) ==
    /\ e.patch # {} /\ e.base = NoTask
    /\ \/ /\ tasks[e.key] # NoTask
          /\ edits' = (edits \ {e}) \cup {[e EXCEPT !.base = tasks[e.key]]}
          /\ UNCHANGED <<graph, patching>>
       \/ /\ tasks[e.key] = NoTask
          /\ EditEnds(e, "raised")
    /\ UNCHANGED tasks

\* ... and writes what it read, merged with its updates.
EditWrites(e) ==
    /\ e.base # NoTask
    /\ \E p \in e.patch : tasks' = [tasks EXCEPT ![e.key] = Merged(e.base, p)]
    /\ EditEnds(e, "done")

ToolDeletes(e) ==
    /\ e.patch = {}
    /\ tasks' = [tasks EXCEPT ![e.key] = NoTask]
    /\ EditEnds(e, "done")

EditBreaks(e) ==
    /\ StoreMayFail
    /\ EditEnds(e, "raised")
    /\ UNCHANGED tasks

\* The tool node gives the error to the agent as the result of the call.
ToolErrorReported(t, i) ==
    /\ at[t] = "tools" /\ calls[t][i].at = "raised"
    /\ SetCall(t, i, "done")
    /\ UNCHANGED <<tasks, at, outputs, attempt, card, decision, edits, patching>>

\* Threads cannot be cancelled: they go on and nobody waits for them.
Abandoned(t) ==
    {IF e.of = t THEN [e EXCEPT !.waited = FALSE] ELSE e : e \in edits}

\* A tool raised or was too slow: the node runs all calls again, or the error
\* handler apologises.
ToolsBreak(t) ==
    /\ LoopFree
    /\ at[t] = "tools"
    /\ \E i \in DOMAIN calls[t] : calls[t][i].at # "done"
    /\ edits' = Abandoned(t)
    /\ \/ /\ attempt[t] < MaxAttempts
          /\ attempt' = [attempt EXCEPT ![t] = @ + 1]
          /\ calls' = [calls EXCEPT ![t] =
                [i \in DOMAIN @ |-> NewCall(@[i].tool, @[i].patch)]]
          /\ at' = at
       \/ /\ \E next \in {"idle", "agent"} : at' = [at EXCEPT ![t] = next]
          /\ calls' = [calls EXCEPT ![t] = <<>>]
          /\ attempt' = [attempt EXCEPT ![t] = 1]
    /\ UNCHANGED <<tasks, outputs, card, decision, patching>>

\* All calls are back: their messages follow in the order of the calls, and
\* hitl_node interrupts with what it finds in them.
ToolsEnd(t) ==
    LET msgs == outputs[t] \o [i \in DOMAIN calls[t] |-> calls[t][i].proposed] IN
    /\ LoopFree
    /\ at[t] = "tools"
    /\ \A i \in DOMAIN calls[t] : calls[t][i].at = "done"
    /\ outputs' = [outputs EXCEPT ![t] = msgs]
    /\ calls' = [calls EXCEPT ![t] = <<>>]
    /\ attempt' = [attempt EXCEPT ![t] = 1]
    /\ IF RoutesToApproval(msgs)
       THEN /\ at' = [at EXCEPT ![t] = "paused"]
            /\ card' = [card EXCEPT ![t] = Parse(msgs)]
       ELSE /\ at' = [at EXCEPT ![t] = "agent"]
            /\ UNCHANGED card
    /\ UNCHANGED <<tasks, decision, edits, patching>>

(***************************************************************************)
(* hitl_node after the human has decided.                                  *)
(***************************************************************************)
Reject(t) ==
    /\ LoopFree
    /\ at[t] = "paused"
    /\ Leaves(t, "agent")
    /\ UNCHANGED <<tasks, outputs, calls, attempt, decision, edits, patching>>

\* The decision may name any keys: a client may have an older card.
Approve(t) ==
    /\ LoopFree
    /\ at[t] = "paused"
    /\ \E R \in SUBSET Keys : \E S \in SUBSET Keys : \E f \in [S -> Drafts] :
        decision' = [decision EXCEPT ![t] = [rejected |-> R, edited |-> f]]
    /\ at' = [at EXCEPT ![t] = "applying"]
    /\ attempt' = [attempt EXCEPT ![t] = 1]
    /\ UNCHANGED <<tasks, outputs, calls, card, edits, patching>>

\* The interrupt is gone (see Notified): the decision starts the agent.
DecideInVain(t) ==
    /\ LoopFree
    /\ at[t] = "dropped"
    /\ Leaves(t, "agent")
    /\ UNCHANGED <<tasks, outputs, calls, attempt, decision, edits, patching>>

\* Deletes and puts all go through; a summary for the agent.
ApplySucceeds(t) ==
    /\ LoopFree
    /\ at[t] = "applying"
    /\ tasks' = Applied(Parse(outputs[t]), decision[t])
    /\ Leaves(t, "agent")
    /\ attempt' = [attempt EXCEPT ![t] = 1]
    /\ decision' = [decision EXCEPT ![t] = NoDecision]
    /\ UNCHANGED <<outputs, calls, edits, patching>>

\* The store raises: deletes come first, then the puts.
Partly(c, d) ==
    LET deletes == {k \in Accepted(c, d) : c[k] = NoTask}
        all     == Applied(c, d)
    IN  {[k \in Keys |-> IF k \in done THEN all[k] ELSE tasks[k]] :
            done \in {D \in SUBSET Accepted(c, d) :
                        D # Accepted(c, d) /\ (D \subseteq deletes \/ deletes \subseteq D)}}

\* The node runs again, on the same decision, or the error handler apologises.
ApplyBreaks(t) ==
    /\ LoopFree
    /\ StoreMayFail
    /\ at[t] = "applying"
    /\ tasks' \in Partly(Parse(outputs[t]), decision[t])
    /\ \/ /\ attempt[t] < MaxAttempts
          /\ attempt' = [attempt EXCEPT ![t] = @ + 1]
          /\ UNCHANGED <<at, card, decision>>
       \/ /\ \E next \in {"idle", "agent"} : Leaves(t, next)
          /\ attempt' = [attempt EXCEPT ![t] = 1]
          /\ decision' = [decision EXCEPT ![t] = NoDecision]
    /\ UNCHANGED <<outputs, calls, edits, patching>>

(***************************************************************************)
(* The REST endpoints of the task list.                                    *)
(***************************************************************************)
\* _notify_thread writes a message into a conversation.  What LangGraph makes
\* of a paused one is its own: the interrupt stays, or the agent runs next.
Notified ==
    \/ at' = at
    \/ \E t \in Threads : at[t] = "paused" /\ at' = [at EXCEPT ![t] = "dropped"]

RestDelete(k) ==
    /\ LoopFree
    /\ tasks' = [tasks EXCEPT ![k] = NoTask]
    /\ Notified
    /\ UNCHANGED <<outputs, calls, attempt, card, decision, edits, patching>>

\* The store may raise after some deletes.
RestDeleteAll ==
    /\ LoopFree
    /\ \E page \in Pages : \E gone \in SUBSET page :
        /\ gone = page \/ StoreMayFail
        /\ tasks' = [k \in Keys |-> IF k \in gone THEN NoTask ELSE tasks[k]]
        /\ IF gone = page THEN Notified ELSE at' = at
    /\ UNCHANGED <<outputs, calls, attempt, card, decision, edits, patching>>

\* PATCH of a task that is there; 404 otherwise.
RestPatchReads(k, p) ==
    /\ LoopFree
    /\ tasks[k] # NoTask
    /\ patching' = {[key |-> k, patch |-> p, base |-> tasks[k]]}
    /\ UNCHANGED <<tasks, graph, edits>>

RestPatchWrites ==
    \E q \in patching :
        /\ tasks' = [tasks EXCEPT ![q.key] = Merged(q.base, q.patch)]
        /\ patching' = {}
        /\ Notified
        /\ UNCHANGED <<outputs, calls, attempt, card, decision, edits>>

RestPatchBreaks ==
    /\ StoreMayFail /\ patching # {}
    /\ patching' = {}
    /\ UNCHANGED <<tasks, graph, edits>>

\* The process restarts: conversations were in memory (MemorySaver).
Restart ==
    /\ at' = [t \in Threads |-> "idle"]
    /\ outputs' = [t \in Threads |-> <<>>]
    /\ calls' = [t \in Threads |-> <<>>]
    /\ attempt' = [t \in Threads |-> 1]
    /\ card' = [t \in Threads |-> NoCard]
    /\ decision' = [t \in Threads |-> NoDecision]
    /\ edits' = {}
    /\ patching' = {}
    /\ UNCHANGED tasks

CallStep(t, i) ==
    \/ UpdateTasksStarts(t, i)
    \/ UpdateTasksEnds(t, i)
    \/ OtherToolRuns(t, i)
    \/ ToolSearches(t, i)
    \/ ToolErrorReported(t, i)

EditStep(e) == EditReads(e) \/ EditWrites(e) \/ ToolDeletes(e) \/ EditBreaks(e)

Next ==
    \/ \E t \in Threads :
        \/ MessageArrives(t)
        \/ AgentAnswers(t)
        \/ AgentCallsTools(t)
        \/ \E i \in DOMAIN calls[t] : CallStep(t, i)
        \/ ToolsBreak(t)
        \/ ToolsEnd(t)
        \/ Reject(t)
        \/ Approve(t)
        \/ DecideInVain(t)
        \/ ApplySucceeds(t)
        \/ ApplyBreaks(t)
    \/ \E e \in edits : EditStep(e)
    \/ \E k \in Keys :
        \/ RestDelete(k)
        \/ \E p \in Patches : RestPatchReads(k, p)
    \/ RestDeleteAll
    \/ RestPatchWrites
    \/ RestPatchBreaks
    \/ Restart

Spec == Init /\ [][Next]_vars

-----------------------------------------------------------------------------
(***************************************************************************)
(* Properties.                                                             *)
(***************************************************************************)
\* An approval card shows the proposals of the tools step that has just ended,
\* whatever earlier ones the conversation still holds: messages stay in it.
CardIsCurrent ==
    \A t \in Threads : at[t] \in {"paused", "applying"} =>
        /\ outputs[t] # <<>>
        /\ card[t] = outputs[t][Len(outputs[t])]
        /\ card[t] # NoCard

\* t's run of hitl_node writes the store.
Applies(t) == at[t] = "applying" /\ (at'[t] # at[t] \/ attempt'[t] # attempt[t])

\* hitl_node writes nothing but what the card showed and the human accepted, as
\* the human left it; failed attempts and their repetitions included.
ApplyWritesWhatWasApproved ==
    [][\A t \in Threads : Applies(t) =>
          \A k \in Keys : tasks'[k] # tasks[k] =>
              /\ k \in DOMAIN card[t] \ decision[t].rejected
              /\ tasks'[k] = Outcome(card[t], decision[t], k)]_vars

\* An approval that is reported to the agent has been applied as a whole.
ApprovalTakesEffect ==
    [][\A t \in Threads : ApplySucceeds(t) =>
          \A k \in DOMAIN card[t] \ decision[t].rejected :
              tasks'[k] = Outcome(card[t], decision[t], k)]_vars

-----------------------------------------------------------------------------
(***************************************************************************)
(* What the docstrings promise and the code does not keep.                 *)
(***************************************************************************)
\* tools/core/memory.py:175-176: the proposals of update_tasks will be
\* presented for approval.
ProposalsArePresented ==
    [][\A t \in Threads :
          ToolsEnd(t) => \A i \in DOMAIN calls[t] :
              calls[t][i].proposed # NoCard =>
                  DOMAIN calls[t][i].proposed \subseteq DOMAIN card'[t]]_vars

\* memory.py:57: an update is merged into the existing task: it changes the
\* fields it names, and no others.
UpdatesMerge ==
    [][\A e \in edits : EditWrites(e) /\ tasks[e.key] # NoTask =>
          \A p \in e.patch : tasks'[e.key] = Merged(tasks[e.key], p)]_vars
=============================================================================
