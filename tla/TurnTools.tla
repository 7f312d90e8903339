----------------------------- MODULE TurnTools -----------------------------
(***************************************************************************)
(* Which tools a turn gives to the model and which of them it runs: the    *)
(* deferred search of tools/core/tool_search.py, the binding of            *)
(* agents/graph/tool_binder.py, the per-user tool node of                  *)
(* nodes/scoped_tool_node.py and the MCP servers of                        *)
(* tools/core/mcp_loader.py.                                               *)
(*                                                                         *)
(* The tools of DingTalk are not bound from the start: the model finds     *)
(* them with tool_search, and what it has found is kept in the             *)
(* conversation as promoted_tools.  Between a search, a binding and a call *)
(* the user may switch DingTalk off and on, with other tools, and the      *)
(* process may restart.  How long a load takes, and who waits for it, is   *)
(* in module DingTalk; here a load is one step.  A conversation has one    *)
(* turn at a time here; turns that overlap are in module AgentTurn.        *)
(***************************************************************************)
EXTENDS Naturals, Sequences, FiniteSets, SequencesExt

CONSTANTS
    Users,
    Conversations,
    UserOf,         \* thread.py: whose conversation it is
    Servers,        \* the names in mcp_servers.json
    DingTalkServer, \* DINGTALK_SERVER
    Catalog,        \* the tools that each server lists, in its order
    SchemaOf,       \* their parameters (see Schema)
    Unparseable,    \* a schema that cannot be converted
    Files,          \* contents that mcp_servers.json may have
    Deployment,     \* the client whose key is in the environment
    MaxResults,     \* MAX_RESULTS
    MaxCalls        \* tool calls in one message (bound)

Names == UNION {ToSet(Catalog[s]) : s \in Servers}

\* A JSON schema by its nodes: whether `type' is one of the specification's,
\* which fields `required' names, and those it names inside `properties'.
\* within is the keyword under which the node is found.
Node == [standard : BOOLEAN, required : SUBSET STRING, misplaced : SUBSET STRING,
         within : {"root", "properties", "keyword", "list"}]

Entry == {"absent", "disabled", "invalid", "valid"}

ASSUME TurnToolsAssumption ==
    /\ IsFiniteSet(Users) /\ Deployment \notin Users
    /\ UserOf \in [Conversations -> Users]
    /\ DingTalkServer \in Servers
    /\ \A s \in Servers : IsInjective(Catalog[s])
    /\ \A s, r \in Servers : s # r => ToSet(Catalog[s]) \cap ToSet(Catalog[r]) = {}
    /\ DOMAIN SchemaOf = Names
    /\ \A n \in Names : SchemaOf[n] # Unparseable =>
          \A p \in DOMAIN SchemaOf[n] : SchemaOf[n][p] \in Node
    /\ Files \subseteq [Servers -> Entry]
    /\ MaxResults \in Nat \ {0} /\ MaxCalls \in Nat \ {0}

VARIABLES
    file,       \* mcp_servers.json; every server is absent when there is none
    stored,     \* the DingTalk config of each user
    rt,         \* _user_runtimes
    at,         \* what the turn of a conversation does
    promoted,   \* promoted_tools in its checkpoint
    bound,      \* the tools the model was given
    calls,      \* the calls it answered with
    node,       \* the DingTalk tools of the ToolNode that runs them
    fetched     \* history: the names a search of the conversation returned

vars == <<file, stored, rt, at, promoted, bound, calls, node, fetched>>

Tool    == [name : Names, server : Servers, client : Users \cup {Deployment}]
Config  == [enabled : BOOLEAN, creds : BOOLEAN]
Runtime == [known : BOOLEAN, enabled : BOOLEAN, failed : BOOLEAN, tools : SUBSET Tool]
NoRuntime == [known |-> FALSE, enabled |-> FALSE, failed |-> FALSE, tools |-> {}]

\* A call of a DingTalk tool, or of tool_search: by name, or with words that
\* match the names in `of'.  Calls of core tools do nothing here.
Call == [kind : {"tool"}, of : {{n} : n \in Names}]
        \cup [kind : {"select", "keyword"}, of : SUBSET Names \ {{}}]

TypeOK ==
    /\ file \in Files
    /\ stored \in [Users -> Config]
    /\ rt \in [Users -> Runtime]
    /\ at \in [Conversations -> {"idle", "agent", "asking", "tools", "running"}]
    /\ promoted \in [Conversations -> {s \in Seq(Names) : IsInjective(s)}]
    /\ bound \in [Conversations -> Seq({"core", "tool_search"} \cup Names)]
    /\ calls \in [Conversations -> SeqOf(Call, MaxCalls)]
    /\ node \in [Conversations -> SUBSET Tool]
    /\ fetched \in [Conversations -> SUBSET Names]

(***************************************************************************)
(* mcp_loader.py.                                                          *)
(***************************************************************************)
\* Seeded fault: the selection of the caller is not applied.
AllEnabled(include) == {s \in Servers : file[s] \in {"invalid", "valid"}}

\* The servers of the file that are enabled and asked for.
Selected(include) == {s \in include : file[s] \in {"invalid", "valid"}}

\* _build_server_params refuses an entry without command or url, or with
\* another transport; that server is left out.
Configured(include) == {s \in Selected(include) : file[s] = "valid"}

\* The subprocess gets the environment of the deployment, the env of the file
\* on top, and the credentials of the user, when there are any, on top of both.
ClientOf(u, creds) == IF creds THEN u ELSE Deployment

\* load_mcp_tools for a client: what it may return.  A server may list what its
\* configuration makes of its catalog, or fail and list nothing; the others
\* are not affected.
LoadMcpTools(client, include) ==
    LET server(n) == CHOOSE s \in Servers : n \in ToSet(Catalog[s])
        listed    == UNION {ToSet(Catalog[s]) : s \in Configured(include)}
    IN  {{[name |-> n, server |-> server(n), client |-> client] : n \in S} :
            S \in SUBSET listed}

(***************************************************************************)
(* What is loaded for a user.                                              *)
(***************************************************************************)
\* Seeded fault: the runtime of anybody who has one.
AnyUsersTools(u) == UNION {rt[v].tools : v \in {w \in Users : rt[w].enabled}}

\* get_user_runtime, get_user_tool_node, get_user_deferred_setup: all three
\* come and go with the tools.
UserTools(u) == IF rt[u].enabled THEN rt[u].tools ELSE {}

NamesOf(T) == {t.name : t \in T}

\* build_deferred_tool_setup, as SystemPromptMiddleware shows it to the model.
DeferredNames(u) == NamesOf(UserTools(u))

\* The list of a catalog that holds the tools T.
Listed(T) == SelectSeq(Catalog[DingTalkServer], LAMBDA n : n \in NamesOf(T))

Shortened(s) == SubSeq(s, 1, IF Len(s) < MaxResults THEN Len(s) ELSE MaxResults)

\* DeferredToolCatalog.search in the catalog of T.  Words rank the tools they
\* match in an order of their own.
SearchResults(T, q) ==
    LET hits == SelectSeq(Listed(T), LAMBDA n : n \in q.of)
    IN  IF q.kind = "select" THEN {Shortened(hits)}
        ELSE {Shortened(s) : s \in SetToSeqs(ToSet(hits))}

(***************************************************************************)
(* state.py: the reducer of promoted_tools.                                *)
(***************************************************************************)
\* Seeded fault: the channel keeps the last search.
LastPromoted(current, update) == update

\* Seeded fault: what was found before is added again.
AppendPromoted(current, update) == current \o update

\* _reduce_promoted: new names go to the end, each of them once.
Merge(merged, n) == IF n \in ToSet(merged) THEN merged ELSE Append(merged, n)
ReducePromoted(current, update) == FoldLeft(Merge, current, update)

\* Every search of a step is an update of its own.
ReduceAll(current, updates) == FoldLeft(ReducePromoted, current, updates)

(***************************************************************************)
(* tool_binder.py.                                                         *)
(***************************************************************************)
\* Seeded fault: members of lists (anyOf, oneOf) are left as they are.
SanitizeDicts(schema) ==
    [p \in DOMAIN schema |->
        IF schema[p].within = "list" THEN schema[p]
        ELSE [schema[p] EXCEPT !.standard = TRUE, !.misplaced = {},
                               !.required = @ \cup schema[p].misplaced]]

\* _sanitize_schema: at every node another type becomes "object", and names
\* required inside `properties' move up to where they belong.
SanitizeSchema(schema) ==
    [p \in DOMAIN schema |->
        [schema[p] EXCEPT !.standard = TRUE, !.misplaced = {},
                          !.required = @ \cup schema[p].misplaced]]

\* A promoted tool is given to the model, and not a second time under the name
\* of a core tool, if the user still has it and its schema can be converted.
GiveTool(u, tools, n) ==
    IF n \in NamesOf(UserTools(u)) \ {"core", "tool_search"} /\ SchemaOf[n] # Unparseable
    THEN Append(tools, n)
    ELSE tools

\* The core tools, and tool_search when there is something to search.
CoreTools(u) == IF UserTools(u) # {} THEN <<"core", "tool_search">> ELSE <<"core">>

\* get_model_with_tools: the core tools, then the promoted tools.
BindList(u, names) ==
    FoldLeft(LAMBDA tools, n : GiveTool(u, tools, n), CoreTools(u), names)

-----------------------------------------------------------------------------
Init ==
    /\ file \in Files
    /\ stored = [u \in Users |-> [enabled |-> FALSE, creds |-> FALSE]]
    /\ rt = [u \in Users |-> NoRuntime]
    /\ at = [c \in Conversations |-> "idle"]
    /\ promoted = [c \in Conversations |-> <<>>]
    /\ bound = [c \in Conversations |-> <<>>]
    /\ calls = [c \in Conversations |-> <<>>]
    /\ node = [c \in Conversations |-> {}]
    /\ fetched = [c \in Conversations |-> {}]

turns == <<at, promoted, bound, calls, node, fetched>>

(***************************************************************************)
(* The switches of a user.                                                 *)
(***************************************************************************)
\* convert_to_openai_function takes all these names.
Convertible(N) == \A n \in N : SchemaOf[n] # Unparseable

\* _do_load raises when no tool came, and when one of them cannot be converted:
\* the hash of the catalog converts them all.
Loadable(T) == T # {} /\ Convertible(NamesOf(T))

\* What _do_load puts into the registry.
Loaded(T) == [known |-> TRUE, enabled |-> TRUE, failed |-> FALSE, tools |-> T]

\* POST /enable with credentials: the tools are loaded with them.
Enable(u) ==
    /\ stored' = [stored EXCEPT ![u] = [enabled |-> TRUE, creds |-> TRUE]]
    /\ \E T \in LoadMcpTools(ClientOf(u, TRUE), {DingTalkServer}) :
        /\ Loadable(T)
        /\ rt' = [rt EXCEPT ![u] = Loaded(T)]
    /\ UNCHANGED <<file, turns>>

\* The load raises; the tools of before stay, but are not enabled.
EnableFails(u) ==
    /\ stored' = [stored EXCEPT ![u] = [enabled |-> FALSE, creds |-> TRUE]]
    /\ rt' = [rt EXCEPT ![u].known = TRUE, ![u].enabled = FALSE, ![u].failed = TRUE]
    /\ UNCHANGED <<file, turns>>

\* POST /disable.
Disable(u) ==
    /\ stored' = [stored EXCEPT ![u].enabled = FALSE]
    /\ rt' = [rt EXCEPT ![u] = [NoRuntime EXCEPT !.known = TRUE]]
    /\ UNCHANGED <<file, turns>>

\* mark_user_connected, after the OAuth callback.
Connect(u) ==
    /\ stored' = [stored EXCEPT ![u].enabled = TRUE]
    /\ rt' = [rt EXCEPT ![u].known = TRUE, ![u].enabled = TRUE]
    /\ UNCHANGED <<file, turns>>

\* The registry and the conversations are in memory.
Restart ==
    /\ rt' = [u \in Users |-> NoRuntime]
    /\ at' = [c \in Conversations |-> "idle"]
    /\ promoted' = [c \in Conversations |-> <<>>]
    /\ bound' = [c \in Conversations |-> <<>>]
    /\ calls' = [c \in Conversations |-> <<>>]
    /\ node' = [c \in Conversations |-> {}]
    /\ fetched' = [c \in Conversations |-> {}]
    /\ UNCHANGED <<file, stored>>

(***************************************************************************)
(* A turn of conversation c.                                               *)
(***************************************************************************)
Begin(c) ==
    /\ at[c] = "idle"
    /\ at' = [at EXCEPT ![c] = "agent"]
    /\ UNCHANGED <<file, stored, rt, promoted, bound, calls, node, fetched>>

\* There is nothing to load for u (ensure_user_tools).
RegistryHit(u) ==
    rt[u].known /\ (rt[u].tools # {} \/ ~rt[u].enabled \/ rt[u].failed)

\* agent_node has the tools of the user loaded first, once.
EnsureUserTools(c) ==
    LET u == UserOf[c] IN
    /\ at[c] = "agent" /\ ~RegistryHit(u)
    /\ \/ /\ ~stored[u].enabled
          /\ rt' = [rt EXCEPT ![u].known = TRUE, ![u].enabled = FALSE]
       \/ /\ stored[u].enabled
          /\ \E T \in LoadMcpTools(ClientOf(u, stored[u].creds), {DingTalkServer}) :
                rt' = [rt EXCEPT ![u] =
                          IF Loadable(T) THEN Loaded(T)
                          ELSE [@ EXCEPT !.known = TRUE, !.failed = TRUE]]
    /\ UNCHANGED <<file, stored, turns>>

\* The middlewares: prompt and binding read the registry at one instant, then
\* the model is asked.
AgentBinds(c) ==
    /\ at[c] = "agent" /\ RegistryHit(UserOf[c])
    /\ bound' = [bound EXCEPT ![c] = BindList(UserOf[c], promoted[c])]
    /\ at' = [at EXCEPT ![c] = "asking"]
    /\ UNCHANGED <<file, stored, rt, promoted, calls, node, fetched>>

\* The model answers, or the turn is cut off.
TurnEnds(c) ==
    /\ at[c] \notin {"idle", "agent"}
    /\ at' = [at EXCEPT ![c] = "idle"]
    /\ bound' = [bound EXCEPT ![c] = <<>>]
    /\ calls' = [calls EXCEPT ![c] = <<>>]
    /\ node' = [node EXCEPT ![c] = {}]
    /\ UNCHANGED <<file, stored, rt, promoted, fetched>>

\* The model calls tools, those it was given or others it has read about.
ModelCalls(c, cs) ==
    /\ at[c] = "asking"
    /\ at' = [at EXCEPT ![c] = "tools"]
    /\ calls' = [calls EXCEPT ![c] = cs]
    /\ bound' = [bound EXCEPT ![c] = <<>>]
    /\ UNCHANGED <<file, stored, rt, promoted, node, fetched>>

\* ScopedToolNode takes the ToolNode of the user, as it is now.
ToolsStart(c) ==
    /\ at[c] = "tools"
    /\ at' = [at EXCEPT ![c] = "running"]
    /\ node' = [node EXCEPT ![c] = UserTools(UserOf[c])]
    /\ UNCHANGED <<file, stored, rt, promoted, bound, calls, fetched>>

\* TOOLS_TIMEOUT: the step runs again, with the node it finds then.
ToolsRetry(c) ==
    /\ at[c] = "running"
    /\ at' = [at EXCEPT ![c] = "tools"]
    /\ node' = [node EXCEPT ![c] = {}]
    /\ UNCHANGED <<file, stored, rt, promoted, bound, calls, fetched>>

\* tool_search shows the schemas of its matches, and raises, and promotes none
\* of them, when it cannot convert one.
Shown(s) == IF Convertible(ToSet(s)) THEN s ELSE <<>>

\* What the calls of c find: one sequence of names for each of them.
Found(c) ==
    {f \in [DOMAIN calls[c] -> SeqOf(NamesOf(node[c]), MaxResults)] :
        \A i \in DOMAIN f :
            IF calls[c][i].kind # "tool" /\ node[c] # {}
            THEN \E s \in SearchResults(node[c], calls[c][i]) : f[i] = Shown(s)
            ELSE f[i] = <<>>}

\* The results are back; the names that searches found go through the reducer.
ToolsEnd(c) ==
    /\ at[c] = "running"
    /\ at' = [at EXCEPT ![c] = "agent"]
    /\ \E f \in Found(c) :
        /\ promoted' = [promoted EXCEPT ![c] = ReduceAll(@, f)]
        /\ fetched' = [fetched EXCEPT ![c] = @ \cup UNION {ToSet(f[i]) : i \in DOMAIN f}]
    /\ calls' = [calls EXCEPT ![c] = <<>>]
    /\ node' = [node EXCEPT ![c] = {}]
    /\ UNCHANGED <<file, stored, rt, bound>>

Next ==
    \/ \E u \in Users : Enable(u) \/ EnableFails(u) \/ Disable(u) \/ Connect(u)
    \/ \E c \in Conversations :
        \/ Begin(c) \/ EnsureUserTools(c) \/ AgentBinds(c) \/ TurnEnds(c)
        \/ \E cs \in SeqOf(Call, MaxCalls) \ {<<>>} : ModelCalls(c, cs)
        \/ ToolsStart(c) \/ ToolsRetry(c) \/ ToolsEnd(c)
    \/ Restart

Spec == Init /\ [][Next]_vars

-----------------------------------------------------------------------------
(***************************************************************************)
(* Properties.                                                             *)
(***************************************************************************)
\* The DingTalk tools that the calls of c run.
Runs(c) == {t \in node[c] : \E i \in DOMAIN calls[c] : calls[c][i] = [kind |-> "tool", of |-> {t.name}]}

\* Whatever the model was given before, and whoever else has DingTalk: a tools
\* step runs DingTalk tools only of the user whose conversation it is, loaded
\* in the user's name or the deployment's, and only while they are enabled.
RunsOwnTools ==
    [][\A c \in Conversations : at[c] = "tools" /\ at'[c] = "running" =>
          \A t \in Runs(c)' :
              /\ rt[UserOf[c]].enabled
              /\ t.server = DingTalkServer
              /\ t.client \in {UserOf[c], Deployment}]_vars

\* A provider takes schemas only in the form of the specification.
Acceptable(schema) == \A p \in DOMAIN schema : schema[p].standard /\ schema[p].misplaced = {}

\* One bad tool, a search repeated or a toggle between the turns never spoils
\* a request: no name is bound twice, every DingTalk tool is loaded and could
\* run, what the model is told of can be searched and fetched, and the schemas
\* are in order and ask for all that they asked for.
BindingIsSound ==
    [][\A c \in Conversations : at[c] = "agent" /\ at'[c] = "asking" =>
          /\ IsInjective(bound'[c])
          /\ ("tool_search" \in ToSet(bound'[c])) <=> (DeferredNames(UserOf[c]) # {})
          /\ Convertible(DeferredNames(UserOf[c]))
          /\ \A n \in ToSet(bound'[c]) \ {"core", "tool_search"} :
              /\ n \in NamesOf(rt[UserOf[c]].tools)
              /\ Acceptable(SanitizeSchema(SchemaOf[n]))
              /\ \A p \in DOMAIN SchemaOf[n] :
                    SchemaOf[n][p].required \cup SchemaOf[n][p].misplaced
                        = SanitizeSchema(SchemaOf[n])[p].required]_vars

\* tool_search.py:285: once fetched, a tool is callable for the rest of the
\* conversation, however many searches, toggles, loads and repeated steps
\* follow, as long as the user has it; the binding, which skips what cannot be
\* converted, never skips one of these.
FetchedStaysCallable ==
    [][\A c \in Conversations : at[c] = "agent" /\ at'[c] = "asking" =>
          \A n \in fetched[c] \cap DeferredNames(UserOf[c]) :
              n \in ToSet(bound'[c])]_vars
=============================================================================
