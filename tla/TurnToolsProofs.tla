-------------------------- MODULE TurnToolsProofs --------------------------
(***************************************************************************)
(* The properties of module TurnTools for any number of users,             *)
(* conversations and servers, whatever the catalogs and mcp_servers.json   *)
(* hold.                                                                   *)
(*                                                                         *)
(* The tools step takes what the registry has for the user of its          *)
(* conversation; so the invariant is about the registry (OwnTools): every  *)
(* way to put tools into it puts only those of DingTalk's server, loaded   *)
(* in the name of that user or of the deployment, and such as can be       *)
(* converted.                                                              *)
(*                                                                         *)
(* What is bound comes out of two folds, the reducer of promoted_tools and *)
(* the loop of get_model_with_tools.  What they compute is proved by       *)
(* induction over the positions they go through (ReducePromotedIs,         *)
(* BindListIs); the invariant on top is that all that was ever found in a  *)
(* conversation is promoted in it (FetchedIsPromoted).                     *)
(***************************************************************************)
EXTENDS TurnTools, WellFoundedInduction, TLAPS

\* The types that RunsOwnTools needs; ConversationOK has the others.
RegistryOK ==
    /\ rt \in [Users -> Runtime]
    /\ at \in [Conversations -> {"idle", "agent", "asking", "tools", "running"}]
    /\ node \in [Conversations -> SUBSET Tool]

OfDingTalk(T, u) ==
    \A t \in T : /\ t.server = DingTalkServer /\ t.client \in {u, Deployment}
                 /\ SchemaOf[t.name] # Unparseable

OwnTools == \A u \in Users : OfDingTalk(rt[u].tools, u)

RegistryInv == RegistryOK /\ OwnTools

-----------------------------------------------------------------------------
\* A load for DingTalk alone brings tools of its server only, in the name of
\* the client it was started for, whatever the other servers list.
LEMMA LoadBringsDingTalk ==
    ASSUME NEW client \in Users \cup {Deployment},
           NEW T \in LoadMcpTools(client, {DingTalkServer})
    PROVE  T \subseteq Tool /\ \A t \in T : t.server = DingTalkServer /\ t.client = client
  <1> USE TurnToolsAssumption
  <1> DEFINE server(n) == CHOOSE s \in Servers : n \in ToSet(Catalog[s])
             listed == UNION {ToSet(Catalog[s]) : s \in Configured({DingTalkServer})}
  <1>1. Configured({DingTalkServer}) \subseteq {DingTalkServer}
    BY DEF Configured, Selected
  <1>2. listed \subseteq ToSet(Catalog[DingTalkServer])
    BY <1>1
  <1>3. ASSUME NEW n \in ToSet(Catalog[DingTalkServer])
        PROVE  server(n) = DingTalkServer /\ n \in Names
    <2>1. n \in Names
      BY <1>3 DEF Names
    <2>2. server(n) \in Servers /\ n \in ToSet(Catalog[server(n)])
      BY <1>3
    <2>3. server(n) = DingTalkServer
      BY <2>2, <1>3
    <2> QED  BY <2>1, <2>3
  <1>4. PICK S \in SUBSET listed :
            T = {[name |-> n, server |-> server(n), client |-> client] : n \in S}
    BY DEF LoadMcpTools
  <1>5. ASSUME NEW n \in S
        PROVE  n \in Names /\ server(n) = DingTalkServer
    BY <1>2, <1>3, <1>5
  <1> HIDE DEF server, listed
  <1>6. ASSUME NEW t \in T
        PROVE  t \in Tool /\ t.server = DingTalkServer /\ t.client = client
    <2>1. PICK n \in S : t = [name |-> n, server |-> server(n), client |-> client]
      BY <1>4, <1>6
    <2>2. n \in Names /\ server(n) = DingTalkServer
      BY <1>5
    <2> QED  BY <2>1, <2>2 DEF Tool
  <1> QED  BY <1>6

\* The credentials of a load are the user's or the deployment's.
LEMMA ClientIsKnown ==
    ASSUME NEW u \in Users, NEW creds
    PROVE  /\ ClientOf(u, creds) \in {u, Deployment}
           /\ ClientOf(u, creds) \in Users \cup {Deployment}
  BY DEF ClientOf

\* So does one for a user, with credentials or without, that is not refused.
LEMMA LoadIsTheUsers ==
    ASSUME NEW u \in Users, NEW creds,
           NEW T \in LoadMcpTools(ClientOf(u, creds), {DingTalkServer}), Loadable(T)
    PROVE  T \subseteq Tool /\ OfDingTalk(T, u)
  <1> DEFINE client == ClientOf(u, creds)
  <1>1. client \in {u, Deployment} /\ client \in Users \cup {Deployment}
    BY ClientIsKnown
  <1>2. T \in LoadMcpTools(client, {DingTalkServer})
    OBVIOUS
  <1> HIDE DEF client
  <1>3. T \subseteq Tool /\ \A t \in T : t.server = DingTalkServer /\ t.client = client
    BY <1>1, <1>2, LoadBringsDingTalk
  <1> QED  BY <1>1, <1>3 DEF OfDingTalk, Loadable, Convertible, NamesOf

\* The registry stays in order when user u gets the runtime R.
LEMMA EntryReplaced ==
    ASSUME RegistryInv, NEW u \in Users, NEW R \in Runtime, OfDingTalk(R.tools, u),
           rt' = [rt EXCEPT ![u] = R], UNCHANGED <<at, node>>
    PROVE  RegistryInv'
  BY DEF RegistryInv, RegistryOK, OwnTools, OfDingTalk

\* What a turn does leaves the registry alone.
LEMMA TurnStep ==
    ASSUME RegistryInv, UNCHANGED rt,
           at' \in [Conversations -> {"idle", "agent", "asking", "tools", "running"}],
           node' \in [Conversations -> SUBSET Tool]
    PROVE  RegistryInv'
  BY DEF RegistryInv, RegistryOK, OwnTools

\* The switches that keep the tools.
LEMMA ToolsKept ==
    ASSUME NEW r \in Runtime
    PROVE  /\ LET R == [r EXCEPT !.known = TRUE, !.enabled = FALSE, !.failed = TRUE]
              IN  R \in Runtime /\ R.tools = r.tools
           /\ LET R == [r EXCEPT !.known = TRUE, !.enabled = TRUE]
              IN  R \in Runtime /\ R.tools = r.tools
           /\ LET R == [r EXCEPT !.known = TRUE, !.enabled = FALSE]
              IN  R \in Runtime /\ R.tools = r.tools
           /\ LET R == [r EXCEPT !.known = TRUE, !.failed = TRUE]
              IN  R \in Runtime /\ R.tools = r.tools
  BY DEF Runtime

\* The switch that drops them.
LEMMA ToolsDropped ==
    ASSUME NEW u
    PROVE  LET R == [NoRuntime EXCEPT !.known = TRUE]
           IN  R \in Runtime /\ OfDingTalk(R.tools, u)
  BY DEF NoRuntime, Runtime, OfDingTalk

\* The registry is empty at the start.
LEMMA RegistryInitially == Init => RegistryInv
  BY DEF Init, RegistryInv, RegistryOK, OwnTools, OfDingTalk, NoRuntime, Runtime

\* Every switch and every load keeps each user's tools the user's.
LEMMA RegistryPreserved == RegistryInv /\ [Next]_vars => RegistryInv'
  <1> SUFFICES ASSUME RegistryInv, [Next]_vars
               PROVE  RegistryInv'
      OBVIOUS
  <1> USE TurnToolsAssumption
  <1>1. ASSUME NEW u \in Users, Enable(u)
        PROVE  RegistryInv'
    <2>1. PICK T \in LoadMcpTools(ClientOf(u, TRUE), {DingTalkServer}) :
              Loadable(T) /\ rt' = [rt EXCEPT ![u] = Loaded(T)]
      BY <1>1 DEF Enable
    <2>2. T \subseteq Tool /\ OfDingTalk(T, u)
      BY <2>1, LoadIsTheUsers
    <2>3. Loaded(T) \in Runtime /\ Loaded(T).tools = T
      BY <2>2 DEF Loaded, Runtime
    <2>4. UNCHANGED <<at, node>>
      BY <1>1 DEF Enable, turns
    <2> QED  BY <2>1, <2>2, <2>3, <2>4, EntryReplaced
  <1>2. ASSUME NEW u \in Users, EnableFails(u)
        PROVE  RegistryInv'
    <2> DEFINE R == [rt[u] EXCEPT !.known = TRUE, !.enabled = FALSE, !.failed = TRUE]
    <2>1. R \in Runtime /\ OfDingTalk(R.tools, u)
      <3>1. rt[u] \in Runtime /\ OfDingTalk(rt[u].tools, u)
        BY DEF RegistryInv, RegistryOK, OwnTools
      <3> QED  BY <3>1, ToolsKept
    <2>2. rt' = [rt EXCEPT ![u] = R] /\ UNCHANGED <<at, node>>
      BY <1>2 DEF EnableFails, turns, RegistryInv, RegistryOK, Runtime
    <2> HIDE DEF R
    <2> QED  BY <2>1, <2>2, EntryReplaced
  <1>3. ASSUME NEW u \in Users, Disable(u)
        PROVE  RegistryInv'
    <2> DEFINE R == [NoRuntime EXCEPT !.known = TRUE]
    <2>2. R \in Runtime /\ OfDingTalk(R.tools, u)
      BY ToolsDropped
    <2>3. rt' = [rt EXCEPT ![u] = R] /\ UNCHANGED <<at, node>>
      BY <1>3 DEF Disable, turns
    <2> HIDE DEF R
    <2> QED  BY <2>2, <2>3, EntryReplaced
  <1>4. ASSUME NEW u \in Users, Connect(u)
        PROVE  RegistryInv'
    <2> DEFINE R == [rt[u] EXCEPT !.known = TRUE, !.enabled = TRUE]
    <2>1. R \in Runtime /\ OfDingTalk(R.tools, u)
      <3>1. rt[u] \in Runtime /\ OfDingTalk(rt[u].tools, u)
        BY DEF RegistryInv, RegistryOK, OwnTools
      <3> QED  BY <3>1, ToolsKept
    <2>2. rt' = [rt EXCEPT ![u] = R] /\ UNCHANGED <<at, node>>
      BY <1>4 DEF Connect, turns, RegistryInv, RegistryOK, Runtime
    <2> HIDE DEF R
    <2> QED  BY <2>1, <2>2, EntryReplaced
  <1>5. ASSUME NEW c \in Conversations, EnsureUserTools(c)
        PROVE  RegistryInv'
    <2> DEFINE u == UserOf[c]
    <2>0. u \in Users /\ UNCHANGED <<at, node>>
      BY <1>5 DEF EnsureUserTools, turns
    <2>1. CASE ~stored[u].enabled
      <3> DEFINE R == [rt[u] EXCEPT !.known = TRUE, !.enabled = FALSE]
      <3>1. R \in Runtime /\ OfDingTalk(R.tools, u)
        <4>1. rt[u] \in Runtime /\ OfDingTalk(rt[u].tools, u)
          BY <2>0 DEF RegistryInv, RegistryOK, OwnTools
        <4> QED  BY <4>1, ToolsKept
      <3>2. rt' = [rt EXCEPT ![u] = R]
        BY <1>5, <2>0, <2>1 DEF EnsureUserTools, RegistryInv, RegistryOK, Runtime
      <3> HIDE DEF R, u
      <3> QED  BY <2>0, <3>1, <3>2, EntryReplaced
    <2>2. CASE stored[u].enabled
      <3>1. PICK T \in LoadMcpTools(ClientOf(u, stored[u].creds), {DingTalkServer}) :
                rt' = [rt EXCEPT ![u] = IF Loadable(T) THEN Loaded(T)
                                        ELSE [@ EXCEPT !.known = TRUE, !.failed = TRUE]]
        BY <1>5, <2>2 DEF EnsureUserTools
      <3>3. CASE Loadable(T)
        <4>0. T \subseteq Tool /\ OfDingTalk(T, u)
          BY <2>0, <3>3, LoadIsTheUsers
        <4>1. Loaded(T) \in Runtime /\ Loaded(T).tools = T
          BY <4>0 DEF Loaded, Runtime
        <4>2. rt' = [rt EXCEPT ![u] = Loaded(T)]
          BY <3>1, <3>3
        <4> HIDE DEF u
        <4> QED  BY <2>0, <4>0, <4>1, <4>2, EntryReplaced
      <3>4. CASE ~Loadable(T)
        <4> DEFINE R == [rt[u] EXCEPT !.known = TRUE, !.failed = TRUE]
        <4>1. R \in Runtime /\ OfDingTalk(R.tools, u)
          <5>1. rt[u] \in Runtime /\ OfDingTalk(rt[u].tools, u)
            BY <2>0 DEF RegistryInv, RegistryOK, OwnTools
          <5> QED  BY <5>1, ToolsKept
        <4>2. rt' = [rt EXCEPT ![u] = R]
          BY <2>0, <3>1, <3>4 DEF RegistryInv, RegistryOK
        <4> HIDE DEF R, u
        <4> QED  BY <2>0, <4>1, <4>2, EntryReplaced
      <3> QED  BY <3>3, <3>4
    <2> QED  BY <2>1, <2>2
  <1>6. ASSUME NEW c \in Conversations,
               \/ Begin(c) \/ AgentBinds(c) \/ TurnEnds(c) \/ ToolsRetry(c) \/ ToolsEnd(c)
               \/ \E cs \in SeqOf(Call, MaxCalls) \ {<<>>} : ModelCalls(c, cs)
        PROVE  RegistryInv'
    <2>1. UNCHANGED rt
      BY <1>6 DEF Begin, AgentBinds, TurnEnds, ToolsRetry, ToolsEnd, ModelCalls
    <2>2. at' \in [Conversations -> {"idle", "agent", "asking", "tools", "running"}]
      BY <1>6 DEF Begin, AgentBinds, TurnEnds, ToolsRetry, ToolsEnd, ModelCalls,
                  RegistryInv, RegistryOK
    <2>3. node' \in [Conversations -> SUBSET Tool]
      BY <1>6 DEF Begin, AgentBinds, TurnEnds, ToolsRetry, ToolsEnd, ModelCalls,
                  RegistryInv, RegistryOK
    <2> QED  BY <2>1, <2>2, <2>3, TurnStep
  <1>7. ASSUME NEW c \in Conversations, ToolsStart(c)
        PROVE  RegistryInv'
    <2>1. UserTools(UserOf[c]) \subseteq Tool
      BY DEF UserTools, RegistryInv, RegistryOK, Runtime
    <2>2. UNCHANGED rt
          /\ at' \in [Conversations -> {"idle", "agent", "asking", "tools", "running"}]
          /\ node' \in [Conversations -> SUBSET Tool]
      BY <1>7, <2>1 DEF ToolsStart, RegistryInv, RegistryOK
    <2> QED  BY <2>2, TurnStep
  <1>8. CASE Restart
    BY <1>8 DEF Restart, RegistryInv, RegistryOK, OwnTools, OfDingTalk, NoRuntime, Runtime
  <1>9. CASE UNCHANGED vars
    BY <1>9 DEF vars, RegistryInv, RegistryOK, OwnTools
  <1> QED
    BY <1>1, <1>2, <1>3, <1>4, <1>5, <1>6, <1>7, <1>8, <1>9 DEF Next

-----------------------------------------------------------------------------
\* Only ToolsStart lets the calls run.
LEMMA OnlyToolsStartRuns ==
    ASSUME RegistryInv, [Next]_vars, NEW c \in Conversations,
           at[c] = "tools", at'[c] = "running"
    PROVE  ToolsStart(c)
  <1>1. at \in [Conversations -> {"idle", "agent", "asking", "tools", "running"}]
    BY DEF RegistryInv, RegistryOK
  <1>2. ASSUME NEW u \in Users, Enable(u) \/ EnableFails(u) \/ Disable(u) \/ Connect(u)
        PROVE  FALSE
    BY <1>2 DEF Enable, EnableFails, Disable, Connect, turns
  <1>3. ASSUME NEW d \in Conversations,
               \/ Begin(d) \/ EnsureUserTools(d) \/ AgentBinds(d) \/ TurnEnds(d)
               \/ ToolsRetry(d) \/ ToolsEnd(d)
               \/ \E cs \in SeqOf(Call, MaxCalls) \ {<<>>} : ModelCalls(d, cs)
        PROVE  FALSE
    BY <1>1, <1>3 DEF Begin, EnsureUserTools, AgentBinds, TurnEnds, ToolsRetry, ToolsEnd,
                      ModelCalls, turns
  <1>4. ASSUME NEW d \in Conversations, ToolsStart(d)
        PROVE  d = c
    BY <1>1, <1>4 DEF ToolsStart
  <1>5. ~Restart
    BY DEF Restart
  <1>6. ~UNCHANGED vars
    BY DEF vars
  <1> QED
    BY <1>2, <1>3, <1>4, <1>5, <1>6 DEF Next

\* A tools step runs DingTalk tools only of the user whose conversation it is,
\* and only while they are enabled.
THEOREM RunsOwnToolsHolds == Spec => RunsOwnTools
  <1> DEFINE Own ==
        \A c \in Conversations : at[c] = "tools" /\ at'[c] = "running" =>
          \A t \in Runs(c)' :
              /\ rt[UserOf[c]].enabled
              /\ t.server = DingTalkServer
              /\ t.client \in {UserOf[c], Deployment}
  <1>1. RegistryInv /\ [Next]_vars => [Own]_vars
    <2> SUFFICES ASSUME RegistryInv, [Next]_vars,
                        NEW c \in Conversations, at[c] = "tools", at'[c] = "running",
                        NEW t \in Runs(c)'
                 PROVE  /\ rt[UserOf[c]].enabled
                        /\ t.server = DingTalkServer
                        /\ t.client \in {UserOf[c], Deployment}
        OBVIOUS
    <2>1. ToolsStart(c)
      BY OnlyToolsStartRuns
    <2>2. t \in node'[c]
      BY DEF Runs
    <2>3. t \in UserTools(UserOf[c])
      BY <2>1, <2>2 DEF ToolsStart, RegistryInv, RegistryOK
    <2>4. rt[UserOf[c]].enabled /\ t \in rt[UserOf[c]].tools
      BY <2>3 DEF UserTools
    <2>5. UserOf[c] \in Users
      BY TurnToolsAssumption
    <2> QED  BY <2>4, <2>5 DEF RegistryInv, OwnTools, OfDingTalk
  <1> QED
    BY <1>1, RegistryInitially, RegistryPreserved, PTL DEF Spec, RunsOwnTools

-----------------------------------------------------------------------------
(***************************************************************************)
(* Folds.  FoldLeft is a recursive function over the sets of positions; it *)
(* exists when what is folded stays in a set V, and then it goes through   *)
(* the positions one after the other.                                      *)
(***************************************************************************)
\* Induction over the natural numbers, for a set instead of a predicate.
LEMMA NatSetInduction ==
    ASSUME NEW S, 0 \in S, \A n \in Nat : n \in S => n + 1 \in S
    PROVE  Nat \subseteq S
  <1> SUFFICES ASSUME Nat \ S # {}
               PROVE  FALSE
      OBVIOUS
  <1> DEFINE R == OpToRel(<, Nat)
  <1>1. IsWellFoundedOn(R, Nat)
    BY NatLessThanWellFounded
  <1>2. \A k, n \in Nat : k < n => <<k, n>> \in R
    BY DEF OpToRel
  <1> HIDE DEF R
  <1>3. PICK m \in Nat \ S : \A k \in Nat \ S : ~(<<k, m>> \in R)
    BY <1>1, WFMin
  <1>4. m # 0 /\ m - 1 \in Nat /\ m - 1 < m /\ m - 1 + 1 = m
    BY <1>3
  <1>5. m - 1 \in S
    BY <1>2, <1>3, <1>4
  <1> QED  BY <1>3, <1>4, <1>5

\* A set of positions that is not empty has a last one.
LEMMA LastPosition ==
    ASSUME NEW n \in Nat, NEW S \in SUBSET (1 .. n), S # {}
    PROVE  \E i \in S : \A j \in S : j <= i
  <1> DEFINE T == {m \in Nat : \A U \in SUBSET (1 .. m) :
                                  U # {} => \E i \in U : \A j \in U : j <= i}
  <1>1. 0 \in T
    <2>1. 1 .. 0 = {}
      OBVIOUS
    <2> QED  BY <2>1
  <1>2. ASSUME NEW m \in Nat, m \in T
        PROVE  m + 1 \in T
    <2> SUFFICES ASSUME NEW U \in SUBSET (1 .. m + 1), U # {}
                 PROVE  \E i \in U : \A j \in U : j <= i
        OBVIOUS
    <2>1. CASE m + 1 \in U
      BY <2>1
    <2>2. CASE m + 1 \notin U
      <3>1. U \in SUBSET (1 .. m)
        BY <2>2
      <3> QED  BY <1>2, <3>1
    <2> QED  BY <2>1, <2>2
  <1> HIDE DEF T
  <1>3. n \in T
    BY <1>1, <1>2, NatSetInduction
  <1> QED  BY <1>3 DEF T

\* Its last position is the one that FoldLeft takes next.
LEMMA MaxOfPositions ==
    ASSUME NEW m \in Nat, NEW s \in SUBSET (1 .. m), s # {}
    PROVE  Max(s) \in s /\ \A j \in s : j <= Max(s)
  <1>1. \E i \in s : \A j \in s : i >= j
    BY LastPosition
  <1> QED  BY <1>1 DEF Max

\* The recursive function of a fold, when step[i] is what it does at i.
IsFold(iter, m, V, b, step) ==
    /\ iter \in [SUBSET (1 .. m) -> V]
    /\ \A s \in SUBSET (1 .. m) :
          iter[s] = IF s = {} THEN b ELSE step[Max(s)][iter[s \ {Max(s)}]]

\* There is such a function.
LEMMA FoldExists ==
    ASSUME NEW m \in Nat, NEW V, NEW b \in V, NEW step \in [1 .. m -> [V -> V]]
    PROVE  \E iter : IsFold(iter, m, V, b, step)
  <1> DEFINE Iter(f, k) == IsFold(f, k, V, b, step)
             S == {k \in Nat : k <= m => \E f : Iter(f, k)}
  <1> HIDE DEF Iter, IsFold
  <1>1. 0 \in S
    <2>1. 1 .. 0 = {}
      OBVIOUS
    <2>2. Iter([s \in SUBSET (1 .. 0) |-> b], 0)
      BY <2>1 DEF Iter, IsFold
    <2> QED  BY <2>2
  <1>2. ASSUME NEW k \in Nat, k \in S
        PROVE  k + 1 \in S
    <2> SUFFICES ASSUME k + 1 <= m
                 PROVE  \E g : Iter(g, k + 1)
        OBVIOUS
    <2>1. PICK f : Iter(f, k)
      BY <1>2
    <2> DEFINE g == [s \in SUBSET (1 .. k + 1) |->
                        IF k + 1 \in s THEN step[k + 1][f[s \ {k + 1}]] ELSE f[s]]
    <2>2. ASSUME NEW s \in SUBSET (1 .. k + 1)
          PROVE  /\ g[s] \in V
                 /\ g[s] = IF s = {} THEN b ELSE step[Max(s)][g[s \ {Max(s)}]]
      <3>1. CASE k + 1 \in s
        <4>1. Max(s) \in s /\ \A j \in s : j <= Max(s)
          <5>1. k + 1 \in Nat /\ s # {}
            BY <3>1
          <5> QED  BY <5>1, MaxOfPositions
        <4>2. Max(s) = k + 1
          <5>1. Max(s) \in 1 .. k + 1 /\ k + 1 <= Max(s)
            BY <3>1, <4>1
          <5> HIDE DEF g
          <5> QED  BY <5>1
        <4>3. /\ s \ {k + 1} \in SUBSET (1 .. k) /\ s \ {k + 1} \in SUBSET (1 .. k + 1)
              /\ k + 1 \notin s \ {k + 1} /\ k + 1 \in 1 .. m
          OBVIOUS
        <4>4. g[s \ {k + 1}] = f[s \ {k + 1}] /\ f[s \ {k + 1}] \in V
          BY <2>1, <4>3 DEF Iter, IsFold
        <4>5. g[s] = step[k + 1][f[s \ {k + 1}]]
          BY <3>1
        <4> HIDE DEF g
        <4>6. g[s] \in V
          BY <4>3, <4>4, <4>5
        <4> QED  BY <3>1, <4>2, <4>4, <4>5, <4>6
      <3>2. CASE k + 1 \notin s
        <4>1. s \in SUBSET (1 .. k) /\ g[s] = f[s]
          BY <3>2
        <4>2. f[s] \in V /\ f[s] = IF s = {} THEN b ELSE step[Max(s)][f[s \ {Max(s)}]]
          BY <2>1, <4>1 DEF Iter, IsFold
        <4>3. g[s \ {Max(s)}] = f[s \ {Max(s)}]
          BY <3>2
        <4> HIDE DEF g
        <4> QED  BY <4>1, <4>2, <4>3
      <3> QED  BY <3>1, <3>2
    <2>3. g \in [SUBSET (1 .. k + 1) -> V]
      <3>1. g = [s \in SUBSET (1 .. k + 1) |-> g[s]]
        OBVIOUS
      <3> HIDE DEF g
      <3> QED  BY <2>2, <3>1
    <2> HIDE DEF g
    <2>4. Iter(g, k + 1)
      BY <2>2, <2>3 DEF Iter, IsFold
    <2> QED  BY <2>4
  <1> HIDE DEF S
  <1>3. m \in S
    BY <1>1, <1>2, NatSetInduction
  <1>4. PICK f : Iter(f, m)
    BY <1>3 DEF S
  <1> QED  BY <1>4 DEF Iter, IsFold

\* The positions up to k, and the last of them.
LEMMA Positions ==
    ASSUME NEW m \in Nat, NEW k \in 1 .. m
    PROVE  /\ 1 .. k \in SUBSET (1 .. m) /\ 1 .. k # {}
           /\ Max(1 .. k) = k
           /\ (1 .. k) \ {k} = 1 .. k - 1
  <1>1. 1 .. k \in SUBSET (1 .. m) /\ k \in 1 .. k /\ (1 .. k) \ {k} = 1 .. k - 1
    OBVIOUS
  <1>2. Max(1 .. k) \in 1 .. k /\ \A j \in 1 .. k : j <= Max(1 .. k)
    BY <1>1, MaxOfPositions
  <1>3. Max(1 .. k) = k
    BY <1>1, <1>2
  <1> QED  BY <1>1, <1>3

\* _reduce_promoted goes through the names of the update.
MergesIn(m, V, b, s) ==
    /\ m \in Nat /\ b \in V /\ DOMAIN s = 1 .. m
    /\ \A v \in V, i \in 1 .. m : Merge(v, s[i]) \in V

\* So the reducer merges them one after the other.
LEMMA ReducePromotedGoes ==
    ASSUME NEW m, NEW V, NEW b, NEW s, MergesIn(m, V, b, s)
    PROVE  \E g : /\ g[0] = b
                  /\ \A k \in 1 .. m : g[k] \in V /\ g[k] = Merge(g[k - 1], s[k])
                  /\ ReducePromoted(b, s) = g[m]
  <1> USE DEF MergesIn
  <1> DEFINE Folds(f) == f = [p \in SUBSET DOMAIN s |->
                                 IF p = {} THEN b ELSE Merge(f[p \ {Max(p)}], s[Max(p)])]
             iter == CHOOSE f : Folds(f)
             result == ReducePromoted(b, s)
  <1>1. result = iter[DOMAIN s]
    BY DEF ReducePromoted, FoldLeft, MapThenFoldSet
  <1> HIDE DEF result
  <1>2. \E f : f \in [SUBSET DOMAIN s -> V] /\ Folds(f)
    <2> DEFINE step == [i \in 1 .. m |-> [v \in V |-> Merge(v, s[i])]]
    <2>1. step \in [1 .. m -> [V -> V]]
      OBVIOUS
    <2>2. \A v \in V, i \in 1 .. m : step[i][v] = Merge(v, s[i])
      OBVIOUS
    <2> HIDE DEF step
    <2>3. PICK f : IsFold(f, m, V, b, step)
      BY <2>1, FoldExists
    <2>4. ASSUME NEW p \in SUBSET (1 .. m)
          PROVE  f[p] = IF p = {} THEN b ELSE Merge(f[p \ {Max(p)}], s[Max(p)])
      <3>1. CASE p # {}
        <4>1. Max(p) \in 1 .. m
          BY <3>1, MaxOfPositions
        <4>2. f[p \ {Max(p)}] \in V
          BY <2>3 DEF IsFold
        <4> QED  BY <2>2, <2>3, <3>1, <4>1, <4>2 DEF IsFold
      <3> QED  BY <2>3, <3>1 DEF IsFold
    <2>5. Folds(f)
      <3>1. f = [p \in SUBSET DOMAIN s |-> f[p]]
        BY <2>3 DEF IsFold
      <3> QED  BY <2>4, <3>1
    <2> QED  BY <2>3, <2>5 DEF IsFold
  <1>3. Folds(iter)
    BY <1>2
  <1> HIDE DEF iter
  <1>4. iter[{}] = b
    BY <1>3
  <1>5. ASSUME NEW k \in 1 .. m
        PROVE  iter[1 .. k] = Merge(iter[1 .. k - 1], s[k])
    <2>1. 1 .. k \in SUBSET DOMAIN s /\ 1 .. k # {} /\ Max(1 .. k) = k
          /\ (1 .. k) \ {k} = 1 .. k - 1
      BY Positions
    <2> QED  BY <1>3, <2>1
  <1> HIDE DEF Folds
  <1> DEFINE g == [k \in 0 .. m |-> iter[1 .. k]]
             Goes == {k \in Nat : k <= m => g[k] \in V}
  <1>6. g[0] = b /\ 0 \in Goes
    <2>1. 1 .. 0 = {} /\ 0 \in 0 .. m
      OBVIOUS
    <2> QED  BY <1>4, <2>1
  <1>7. \A k \in 1 .. m : k - 1 \in 0 .. m /\ g[k] = Merge(g[k - 1], s[k])
    BY <1>5
  <1>8. g[m] = result
    BY <1>1
  <1> HIDE DEF g
  <1>9. ASSUME NEW k \in Nat, k \in Goes
        PROVE  k + 1 \in Goes
    <2> SUFFICES ASSUME k + 1 <= m
                 PROVE  g[k + 1] \in V
        OBVIOUS
    <2>1. k + 1 \in 1 .. m /\ (k + 1) - 1 = k /\ g[k] \in V
      BY <1>9
    <2>2. g[k + 1] = Merge(g[k], s[k + 1])
      BY <1>7, <2>1
    <2> QED  BY <2>1, <2>2
  <1> HIDE DEF Goes
  <1>10. \A k \in 1 .. m : g[k] \in V
    <2>1. Nat \subseteq Goes
      BY <1>6, <1>9, NatSetInduction
    <2> QED  BY <2>1 DEF Goes
  <1> QED  BY <1>6, <1>7, <1>8, <1>10 DEF result

\* The reducer gets what the calls found in their order.
ReducesIn(m, V, b, s) ==
    /\ m \in Nat /\ b \in V /\ DOMAIN s = 1 .. m
    /\ \A v \in V, i \in 1 .. m : ReducePromoted(v, s[i]) \in V

\* So the findings of a step are reduced one after the other.
LEMMA SearchesGo ==
    ASSUME NEW m, NEW V, NEW b, NEW s, ReducesIn(m, V, b, s)
    PROVE  \E g : /\ g[0] = b
                  /\ \A k \in 1 .. m : g[k] \in V /\ g[k] = ReducePromoted(g[k - 1], s[k])
                  /\ ReduceAll(b, s) = g[m]
  <1> USE DEF ReducesIn
  <1> DEFINE Folds(f) == f = [p \in SUBSET DOMAIN s |->
                                 IF p = {} THEN b ELSE ReducePromoted(f[p \ {Max(p)}], s[Max(p)])]
             iter == CHOOSE f : Folds(f)
             result == ReduceAll(b, s)
  <1>1. result = iter[DOMAIN s]
    BY Zenon DEF ReduceAll, FoldLeft, MapThenFoldSet
  <1> HIDE DEF result
  <1>2. \E f : f \in [SUBSET DOMAIN s -> V] /\ Folds(f)
    <2> DEFINE step == [i \in 1 .. m |-> [v \in V |-> ReducePromoted(v, s[i])]]
    <2>1. step \in [1 .. m -> [V -> V]]
      OBVIOUS
    <2>2. \A v \in V, i \in 1 .. m : step[i][v] = ReducePromoted(v, s[i])
      OBVIOUS
    <2> HIDE DEF step
    <2>3. PICK f : IsFold(f, m, V, b, step)
      BY <2>1, FoldExists
    <2>4. ASSUME NEW p \in SUBSET (1 .. m)
          PROVE  f[p] = IF p = {} THEN b ELSE ReducePromoted(f[p \ {Max(p)}], s[Max(p)])
      <3>1. CASE p # {}
        <4>1. Max(p) \in 1 .. m
          BY <3>1, MaxOfPositions
        <4>2. f[p \ {Max(p)}] \in V
          BY <2>3 DEF IsFold
        <4> QED  BY <2>2, <2>3, <3>1, <4>1, <4>2 DEF IsFold
      <3> QED  BY <2>3, <3>1 DEF IsFold
    <2>5. Folds(f)
      <3>1. f = [p \in SUBSET DOMAIN s |-> f[p]]
        BY <2>3 DEF IsFold
      <3> QED  BY <2>4, <3>1
    <2> QED  BY <2>3, <2>5 DEF IsFold
  <1>3. Folds(iter)
    BY <1>2
  <1> HIDE DEF iter
  <1>4. iter[{}] = b
    BY <1>3
  <1>5. ASSUME NEW k \in 1 .. m
        PROVE  iter[1 .. k] = ReducePromoted(iter[1 .. k - 1], s[k])
    <2>1. 1 .. k \in SUBSET DOMAIN s /\ 1 .. k # {} /\ Max(1 .. k) = k
          /\ (1 .. k) \ {k} = 1 .. k - 1
      BY Positions
    <2> QED  BY <1>3, <2>1
  <1> HIDE DEF Folds
  <1> DEFINE g == [k \in 0 .. m |-> iter[1 .. k]]
             Goes == {k \in Nat : k <= m => g[k] \in V}
  <1>6. g[0] = b /\ 0 \in Goes
    <2>1. 1 .. 0 = {} /\ 0 \in 0 .. m
      OBVIOUS
    <2> QED  BY <1>4, <2>1
  <1>7. \A k \in 1 .. m : k - 1 \in 0 .. m /\ g[k] = ReducePromoted(g[k - 1], s[k])
    BY <1>5
  <1>8. g[m] = result
    BY <1>1
  <1> HIDE DEF g
  <1>9. ASSUME NEW k \in Nat, k \in Goes
        PROVE  k + 1 \in Goes
    <2> SUFFICES ASSUME k + 1 <= m
                 PROVE  g[k + 1] \in V
        OBVIOUS
    <2>1. k + 1 \in 1 .. m /\ (k + 1) - 1 = k /\ g[k] \in V
      BY <1>9
    <2>2. g[k + 1] = ReducePromoted(g[k], s[k + 1])
      BY <1>7, <2>1
    <2> QED  BY <2>1, <2>2
  <1> HIDE DEF Goes
  <1>10. \A k \in 1 .. m : g[k] \in V
    <2>1. Nat \subseteq Goes
      BY <1>6, <1>9, NatSetInduction
    <2> QED  BY <2>1 DEF Goes
  <1> QED  BY <1>6, <1>7, <1>8, <1>10 DEF result

\* get_model_with_tools goes through the promoted names.
GivesIn(m, V, b, s, u) ==
    /\ m \in Nat /\ b \in V /\ DOMAIN s = 1 .. m /\ b = CoreTools(u)
    /\ \A v \in V, i \in 1 .. m : GiveTool(u, v, s[i]) \in V

\* So the tools are given one after the other.
LEMMA BindListGoes ==
    ASSUME NEW m, NEW V, NEW b, NEW s, NEW u, GivesIn(m, V, b, s, u)
    PROVE  \E g : /\ g[0] = b
                  /\ \A k \in 1 .. m : g[k] \in V /\ g[k] = GiveTool(u, g[k - 1], s[k])
                  /\ BindList(u, s) = g[m]
  <1> USE DEF GivesIn
  <1> DEFINE Folds(f) == f = [p \in SUBSET DOMAIN s |->
                                 IF p = {} THEN b ELSE GiveTool(u, f[p \ {Max(p)}], s[Max(p)])]
             iter == CHOOSE f : Folds(f)
             result == BindList(u, s)
  <1>1. result = iter[DOMAIN s]
    BY Zenon DEF BindList, FoldLeft, MapThenFoldSet
  <1> HIDE DEF result
  <1>2. \E f : f \in [SUBSET DOMAIN s -> V] /\ Folds(f)
    <2> DEFINE step == [i \in 1 .. m |-> [v \in V |-> GiveTool(u, v, s[i])]]
    <2>1. step \in [1 .. m -> [V -> V]]
      OBVIOUS
    <2>2. \A v \in V, i \in 1 .. m : step[i][v] = GiveTool(u, v, s[i])
      OBVIOUS
    <2> HIDE DEF step
    <2>3. PICK f : IsFold(f, m, V, b, step)
      BY <2>1, FoldExists
    <2>4. ASSUME NEW p \in SUBSET (1 .. m)
          PROVE  f[p] = IF p = {} THEN b ELSE GiveTool(u, f[p \ {Max(p)}], s[Max(p)])
      <3>1. CASE p # {}
        <4>1. Max(p) \in 1 .. m
          BY <3>1, MaxOfPositions
        <4>2. f[p \ {Max(p)}] \in V
          BY <2>3 DEF IsFold
        <4> QED  BY <2>2, <2>3, <3>1, <4>1, <4>2 DEF IsFold
      <3> QED  BY <2>3, <3>1 DEF IsFold
    <2>5. Folds(f)
      <3>1. f = [p \in SUBSET DOMAIN s |-> f[p]]
        BY <2>3 DEF IsFold
      <3> QED  BY <2>4, <3>1
    <2> QED  BY <2>3, <2>5 DEF IsFold
  <1>3. Folds(iter)
    BY <1>2
  <1> HIDE DEF iter
  <1>4. iter[{}] = b
    BY <1>3
  <1>5. ASSUME NEW k \in 1 .. m
        PROVE  iter[1 .. k] = GiveTool(u, iter[1 .. k - 1], s[k])
    <2>1. 1 .. k \in SUBSET DOMAIN s /\ 1 .. k # {} /\ Max(1 .. k) = k
          /\ (1 .. k) \ {k} = 1 .. k - 1
      BY Positions
    <2> QED  BY <1>3, <2>1
  <1> HIDE DEF Folds
  <1> DEFINE g == [k \in 0 .. m |-> iter[1 .. k]]
             Goes == {k \in Nat : k <= m => g[k] \in V}
  <1>6. g[0] = b /\ 0 \in Goes
    <2>1. 1 .. 0 = {} /\ 0 \in 0 .. m
      OBVIOUS
    <2> QED  BY <1>4, <2>1
  <1>7. \A k \in 1 .. m : k - 1 \in 0 .. m /\ g[k] = GiveTool(u, g[k - 1], s[k])
    BY <1>5
  <1>8. g[m] = result
    BY <1>1
  <1> HIDE DEF g
  <1>9. ASSUME NEW k \in Nat, k \in Goes
        PROVE  k + 1 \in Goes
    <2> SUFFICES ASSUME k + 1 <= m
                 PROVE  g[k + 1] \in V
        OBVIOUS
    <2>1. k + 1 \in 1 .. m /\ (k + 1) - 1 = k /\ g[k] \in V
      BY <1>9
    <2>2. g[k + 1] = GiveTool(u, g[k], s[k + 1])
      BY <1>7, <2>1
    <2> QED  BY <2>1, <2>2
  <1> HIDE DEF Goes
  <1>10. \A k \in 1 .. m : g[k] \in V
    <2>1. Nat \subseteq Goes
      BY <1>6, <1>9, NatSetInduction
    <2> QED  BY <2>1 DEF Goes
  <1> QED  BY <1>6, <1>7, <1>8, <1>10 DEF result

-----------------------------------------------------------------------------
(***************************************************************************)
(* What the folds of the model compute.                                    *)
(***************************************************************************)
Distinct(S) == {s \in Seq(S) : IsInjective(s)}

\* One element more.
LEMMA OneMore ==
    ASSUME NEW S, NEW s \in Seq(S), NEW e \in S
    PROVE  /\ Append(s, e) \in Seq(S)
           /\ ToSet(Append(s, e)) = ToSet(s) \cup {e}
           /\ IsInjective(s) /\ e \notin ToSet(s) => IsInjective(Append(s, e))
  <1> DEFINE t == Append(s, e)
  <1>1. /\ t \in Seq(S) /\ Len(s) \in Nat
        /\ DOMAIN s = 1 .. Len(s) /\ DOMAIN t = 1 .. Len(s) + 1
        /\ t[Len(s) + 1] = e /\ \A i \in 1 .. Len(s) : t[i] = s[i]
    OBVIOUS
  <1> HIDE DEF t
  <1>2. ToSet(t) = ToSet(s) \cup {e}
    <2>1. ASSUME NEW x \in ToSet(t)
          PROVE  x \in ToSet(s) \cup {e}
      BY <1>1, <2>1 DEF ToSet
    <2>2. ASSUME NEW x \in ToSet(s) \cup {e}
          PROVE  x \in ToSet(t)
      <3>1. CASE x = e
        BY <1>1, <3>1 DEF ToSet
      <3>2. CASE x \in ToSet(s)
        <4>1. PICK i \in 1 .. Len(s) : x = s[i]
          BY <1>1, <3>2 DEF ToSet
        <4>2. i \in DOMAIN t /\ t[i] = x
          BY <1>1, <4>1
        <4> QED  BY <4>2 DEF ToSet
      <3> QED  BY <3>1, <3>2
    <2> QED  BY <2>1, <2>2
  <1>3. ASSUME IsInjective(s), e \notin ToSet(s)
        PROVE  IsInjective(t)
    <2>1. \A i \in 1 .. Len(s) : s[i] # e
      BY <1>1, <1>3 DEF ToSet
    <2>2. ASSUME NEW i \in 1 .. Len(s) + 1, NEW j \in 1 .. Len(s) + 1, t[i] = t[j]
          PROVE  i = j
      BY <1>1, <1>3, <2>1, <2>2 DEF IsInjective
    <2> QED  BY <1>1, <2>2 DEF IsInjective
  <1> QED  BY <1>1, <1>2, <1>3 DEF t

\* A name is merged once.
LEMMA MergeIs ==
    ASSUME NEW S, NEW s \in Distinct(S), NEW n \in S
    PROVE  Merge(s, n) \in Distinct(S) /\ ToSet(Merge(s, n)) = ToSet(s) \cup {n}
  <1>1. CASE n \in ToSet(s)
    BY <1>1 DEF Merge
  <1>2. CASE n \notin ToSet(s)
    <2>1. Merge(s, n) = Append(s, n) /\ s \in Seq(S) /\ IsInjective(s)
      BY <1>2 DEF Merge, Distinct
    <2> QED  BY <1>2, <2>1, OneMore DEF Distinct
  <1> QED  BY <1>1, <1>2

\* What was promoted stays, the names of the update come to it, and none of
\* them twice.
LEMMA ReducePromotedIs ==
    ASSUME NEW S, NEW b \in Distinct(S), NEW s \in Seq(S)
    PROVE  /\ ReducePromoted(b, s) \in Distinct(S)
           /\ ToSet(ReducePromoted(b, s)) = ToSet(b) \cup ToSet(s)
  <1> DEFINE m == Len(s)
  <1>1. m \in Nat /\ DOMAIN s = 1 .. m /\ \A i \in 1 .. m : s[i] \in S
    OBVIOUS
  <1> HIDE DEF m
  <1>2. \A v \in Distinct(S), i \in 1 .. m : Merge(v, s[i]) \in Distinct(S)
    BY <1>1, MergeIs
  <1>3. PICK g : /\ g[0] = b
                 /\ \A k \in 1 .. m : g[k] \in Distinct(S) /\ g[k] = Merge(g[k - 1], s[k])
                 /\ ReducePromoted(b, s) = g[m]
    <2> DEFINE V == Distinct(S)
    <2>1. MergesIn(m, V, b, s)
      BY <1>1, <1>2 DEF MergesIn
    <2> HIDE DEF V
    <2>2. \E g : /\ g[0] = b
                 /\ \A k \in 1 .. m : g[k] \in V /\ g[k] = Merge(g[k - 1], s[k])
                 /\ ReducePromoted(b, s) = g[m]
      BY <2>1, ReducePromotedGoes
    <2> QED  BY <2>2 DEF V
  <1> DEFINE Holds(k) == /\ g[k] \in Distinct(S)
                         /\ ToSet(g[k]) = ToSet(b) \cup {s[i] : i \in 1 .. k}
             T == {k \in Nat : k <= m => Holds(k)}
  <1>4. 0 \in T
    BY <1>3
  <1>5. ASSUME NEW k \in Nat, k \in T
        PROVE  k + 1 \in T
    <2> SUFFICES ASSUME k + 1 <= m
                 PROVE  Holds(k + 1)
        OBVIOUS
    <2>1. Holds(k) /\ k + 1 \in 1 .. m /\ (k + 1) - 1 = k
      BY <1>1, <1>5
    <2>2. g[k + 1] = Merge(g[k], s[k + 1]) /\ s[k + 1] \in S
      BY <1>1, <1>3, <2>1
    <2>3. g[k + 1] \in Distinct(S) /\ ToSet(g[k + 1]) = ToSet(g[k]) \cup {s[k + 1]}
      BY <2>1, <2>2, MergeIs
    <2>4. {s[i] : i \in 1 .. k + 1} = {s[i] : i \in 1 .. k} \cup {s[k + 1]}
      OBVIOUS
    <2> QED  BY <2>1, <2>3, <2>4
  <1> HIDE DEF T
  <1>6. m \in T
    BY <1>1, <1>4, <1>5, NatSetInduction
  <1>7. Holds(m)
    BY <1>1, <1>6 DEF T
  <1> QED  BY <1>1, <1>3, <1>7 DEF ToSet

\* Of all searches of a step nothing is lost.
LEMMA SearchesAre ==
    ASSUME NEW S, NEW b \in Distinct(S), NEW m \in Nat, NEW f, DOMAIN f = 1 .. m,
           \A i \in 1 .. m : f[i] \in Seq(S)
    PROVE  /\ ReduceAll(b, f) \in Distinct(S)
           /\ ToSet(ReduceAll(b, f)) =
                  ToSet(b) \cup UNION {ToSet(f[i]) : i \in DOMAIN f}
  <1> DEFINE result == ReduceAll(b, f)
  <1>1. \A v \in Distinct(S), i \in 1 .. m : ReducePromoted(v, f[i]) \in Distinct(S)
    BY ReducePromotedIs
  <1>2. PICK g : /\ g[0] = b
                 /\ \A k \in 1 .. m : g[k] \in Distinct(S) /\ g[k] = ReducePromoted(g[k - 1], f[k])
                 /\ result = g[m]
    <2> DEFINE V == Distinct(S)
    <2>1. ReducesIn(m, V, b, f)
      BY <1>1 DEF ReducesIn
    <2> HIDE DEF V
    <2>2. \E g : /\ g[0] = b
                 /\ \A k \in 1 .. m : g[k] \in V /\ g[k] = ReducePromoted(g[k - 1], f[k])
                 /\ result = g[m]
      BY <2>1, SearchesGo
    <2> QED  BY <2>2 DEF V
  <1> HIDE DEF result
  <1> DEFINE Holds(k) == /\ g[k] \in Distinct(S)
                         /\ ToSet(g[k]) = ToSet(b) \cup UNION {ToSet(f[i]) : i \in 1 .. k}
             T == {k \in Nat : k <= m => Holds(k)}
  <1>3. 0 \in T
    BY <1>2
  <1>4. ASSUME NEW k \in Nat, k \in T
        PROVE  k + 1 \in T
    <2> SUFFICES ASSUME k + 1 <= m
                 PROVE  Holds(k + 1)
        OBVIOUS
    <2>1. Holds(k) /\ k + 1 \in 1 .. m /\ (k + 1) - 1 = k
      BY <1>4
    <2>2. g[k + 1] = ReducePromoted(g[k], f[k + 1]) /\ f[k + 1] \in Seq(S)
      BY <1>2, <2>1
    <2>3. g[k + 1] \in Distinct(S) /\ ToSet(g[k + 1]) = ToSet(g[k]) \cup ToSet(f[k + 1])
      BY <2>1, <2>2, ReducePromotedIs
    <2>4. UNION {ToSet(f[i]) : i \in 1 .. k + 1} =
              (UNION {ToSet(f[i]) : i \in 1 .. k}) \cup ToSet(f[k + 1])
      <3>1. 1 .. k + 1 = (1 .. k) \cup {k + 1}
        OBVIOUS
      <3> HIDE DEF Holds
      <3>2. {ToSet(f[i]) : i \in 1 .. k + 1} = {ToSet(f[i]) : i \in 1 .. k} \cup {ToSet(f[k + 1])}
        BY <3>1
      <3> QED  BY <3>2
    <2> QED  BY <2>1, <2>3, <2>4
  <1> HIDE DEF T
  <1>5. m \in T
    BY <1>3, <1>4, NatSetInduction
  <1>6. Holds(m)
    BY <1>5 DEF T
  <1> QED  BY <1>2, <1>6 DEF result

\* The promoted tools that get_model_with_tools adds for u.
Given(u, n) ==
    n \in NamesOf(UserTools(u)) \ {"core", "tool_search"} /\ SchemaOf[n] # Unparseable

Bindable == {"core", "tool_search"} \cup Names

\* Every core tool, and every promoted tool that can be given, is bound once.
LEMMA BindListIs ==
    ASSUME NEW u, NEW s \in Distinct(Names)
    PROVE  /\ BindList(u, s) \in Distinct(Bindable)
           /\ ToSet(BindList(u, s)) = ToSet(CoreTools(u)) \cup {n \in ToSet(s) : Given(u, n)}
  <1> DEFINE m == Len(s)
             V == Seq(Bindable)
             b == CoreTools(u)
             result == BindList(u, s)
  <1>1. m \in Nat /\ DOMAIN s = 1 .. m /\ (\A i \in 1 .. m : s[i] \in Names) /\ IsInjective(s)
    BY DEF Distinct
  <1> HIDE DEF m
  <1>2. b \in Distinct(Bindable) /\ ToSet(b) \subseteq {"core", "tool_search"}
    <2>1. CASE b = <<"core", "tool_search">>
      BY <2>1 DEF Distinct, Bindable, ToSet, IsInjective
    <2>2. CASE b = <<"core">>
      BY <2>2 DEF Distinct, Bindable, ToSet, IsInjective
    <2> QED  BY <2>1, <2>2 DEF CoreTools
  <1> HIDE DEF b
  <1>3. ASSUME NEW v \in V, NEW n \in Names
        PROVE  /\ GiveTool(u, v, n) = IF Given(u, n) THEN Append(v, n) ELSE v
               /\ GiveTool(u, v, n) \in V
    <2>1. n \in Bindable
      BY DEF Bindable
    <2> QED  BY <2>1, OneMore DEF GiveTool, Given
  <1>4. PICK g : /\ g[0] = b
                 /\ \A k \in 1 .. m : g[k] \in V /\ g[k] = GiveTool(u, g[k - 1], s[k])
                 /\ result = g[m]
    <2>1. b \in V
      BY <1>2 DEF Distinct
    <2> HIDE DEF V
    <2>2. GivesIn(m, V, b, s, u)
      BY <1>1, <1>3, <2>1 DEF GivesIn, b
    <2> QED  BY <2>2, BindListGoes
  <1> HIDE DEF result
  <1> DEFINE given(k) == {s[i] : i \in {j \in 1 .. k : Given(u, s[j])}}
             Holds(k) == /\ g[k] \in Distinct(Bindable)
                         /\ ToSet(g[k]) = ToSet(b) \cup given(k)
             T == {k \in Nat : k <= m => Holds(k)}
  <1>5. 0 \in T
    BY <1>2, <1>4
  <1>6. ASSUME NEW k \in Nat, k \in T
        PROVE  k + 1 \in T
    <2> SUFFICES ASSUME k + 1 <= m
                 PROVE  Holds(k + 1)
        OBVIOUS
    <2>1. Holds(k) /\ k + 1 \in 1 .. m /\ (k + 1) - 1 = k
      BY <1>1, <1>6
    <2>2. s[k + 1] \in Names /\ s[k + 1] \in Bindable /\ g[k] \in V
      BY <1>1, <2>1 DEF Distinct, Bindable
    <2>3. g[k + 1] = IF Given(u, s[k + 1]) THEN Append(g[k], s[k + 1]) ELSE g[k]
      BY <1>3, <1>4, <2>1, <2>2
    <2>4. given(k + 1) = given(k) \cup (IF Given(u, s[k + 1]) THEN {s[k + 1]} ELSE {})
      <3>1. 1 .. k + 1 = (1 .. k) \cup {k + 1}
        OBVIOUS
      <3> HIDE DEF Holds
      <3> QED  BY <3>1
    <2>5. CASE Given(u, s[k + 1])
      <3>1. s[k + 1] \notin ToSet(g[k])
        <4>1. s[k + 1] \notin ToSet(b)
          BY <1>2, <2>5 DEF Given
        <4>2. s[k + 1] \notin given(k)
          <5>1. \A i \in 1 .. k : i \in DOMAIN s /\ k + 1 \in DOMAIN s /\ i # k + 1
            BY <1>1, <2>1
          <5> QED  BY <1>1, <5>1 DEF IsInjective
        <4> QED  BY <2>1, <4>1, <4>2
      <3>2. g[k + 1] = Append(g[k], s[k + 1]) /\ IsInjective(g[k])
        BY <2>1, <2>3, <2>5 DEF Distinct
      <3>3. /\ g[k + 1] \in Seq(Bindable) /\ IsInjective(g[k + 1])
            /\ ToSet(g[k + 1]) = ToSet(g[k]) \cup {s[k + 1]}
        BY <2>2, <3>1, <3>2, OneMore
      <3> HIDE DEF given
      <3> QED  BY <2>1, <2>4, <2>5, <3>3 DEF Distinct
    <2>6. CASE ~Given(u, s[k + 1])
      BY <2>1, <2>3, <2>4, <2>6
    <2> QED  BY <2>5, <2>6
  <1> HIDE DEF T
  <1>7. m \in T
    BY <1>1, <1>5, <1>6, NatSetInduction
  <1>8. Holds(m)
    BY <1>1, <1>7 DEF T
  <1>9. given(m) = {n \in ToSet(s) : Given(u, n)}
    BY <1>1 DEF ToSet
  <1> QED  BY <1>4, <1>8, <1>9 DEF result, b

-----------------------------------------------------------------------------
(***************************************************************************)
(* Types, and that a tool once found stays promoted.                       *)
(***************************************************************************)
FetchedIsPromoted == \A c \in Conversations : fetched[c] \subseteq ToSet(promoted[c])

ToolsInv == TypeOK /\ FetchedIsPromoted

\* A message holds a bounded sequence of calls.
LEMMA CallsAreASequence ==
    ASSUME NEW S, NEW n \in Nat
    PROVE  /\ <<>> \in SeqOf(S, n)
           /\ \A f \in SeqOf(S, n) : \E m \in 0 .. n : f \in [1 .. m -> S] /\ f \in Seq(S)
  <1>1. <<>> \in [1 .. 0 -> S] /\ 0 \in 0 .. n
    OBVIOUS
  <1>2. ASSUME NEW f \in SeqOf(S, n)
        PROVE  \E m \in 0 .. n : f \in [1 .. m -> S] /\ f \in Seq(S)
    <2>1. PICK m \in 0 .. n : f \in [1 .. m -> S]
      BY DEF SeqOf
    <2>2. f \in Seq(S)
      BY <2>1
    <2> QED  BY <2>1, <2>2
  <1> QED  BY <1>1, <1>2 DEF SeqOf

\* A new conversation has promoted and bound nothing.
LEMMA NothingPromoted ==
    <<>> \in Distinct(Names) /\ <<>> \in Seq(Bindable) /\ ToSet(<<>>) = {}
  BY DEF Distinct, IsInjective, ToSet

\* The types that RegistryOK leaves out.
ConversationOK ==
    /\ file \in Files
    /\ stored \in [Users -> Config]
    /\ promoted \in [Conversations -> Distinct(Names)]
    /\ bound \in [Conversations -> Seq(Bindable)]
    /\ calls \in [Conversations -> SeqOf(Call, MaxCalls)]
    /\ fetched \in [Conversations -> SUBSET Names]

\* The two halves of the type invariant.
LEMMA TypesTogether == TypeOK <=> RegistryOK /\ ConversationOK
  BY DEF TypeOK, RegistryOK, ConversationOK, Distinct, Bindable

\* At the start nothing was found.
LEMMA ToolsInitially == Init => ToolsInv
  <1> SUFFICES ASSUME Init  PROVE ToolsInv
      OBVIOUS
  <1>1. RegistryOK
    BY RegistryInitially DEF RegistryInv
  <1>2. MaxCalls \in Nat /\ <<>> \in SeqOf(Call, MaxCalls)
    BY CallsAreASequence, TurnToolsAssumption
  <1>3. ConversationOK
    BY <1>2, NothingPromoted DEF Init, ConversationOK, Config
  <1>4. FetchedIsPromoted
    BY DEF Init, FetchedIsPromoted
  <1> QED  BY <1>1, <1>3, <1>4, TypesTogether DEF ToolsInv

\* The names that the searches of a step return go through the reducer.
LEMMA ToolsEndKeeps ==
    ASSUME ConversationOK, RegistryOK, FetchedIsPromoted, NEW c \in Conversations, ToolsEnd(c)
    PROVE  ConversationOK' /\ FetchedIsPromoted'
  <1> USE TurnToolsAssumption
  <1>1. PICK f \in Found(c) :
            /\ promoted' = [promoted EXCEPT ![c] = ReduceAll(@, f)]
            /\ fetched' = [fetched EXCEPT ![c] = @ \cup UNION {ToSet(f[i]) : i \in DOMAIN f}]
    BY DEF ToolsEnd
  <1>2. promoted[c] \in Distinct(Names) /\ fetched[c] \subseteq Names
        /\ calls[c] \in SeqOf(Call, MaxCalls) /\ node[c] \subseteq Tool
    BY DEF ConversationOK, RegistryOK
  <1>3. PICK m \in Nat : DOMAIN calls[c] = 1 .. m
    BY <1>2, CallsAreASequence
  <1>4. DOMAIN f = 1 .. m /\ \A i \in 1 .. m : f[i] \in SeqOf(NamesOf(node[c]), MaxResults)
    <2>1. f \in [DOMAIN calls[c] -> SeqOf(NamesOf(node[c]), MaxResults)]
      BY DEF Found
    <2> QED  BY <1>3, <2>1
  <1>5. NamesOf(node[c]) \subseteq Names
    BY <1>2 DEF NamesOf, Tool
  <1>6. ASSUME NEW i \in 1 .. m
        PROVE  f[i] \in Seq(Names) /\ ToSet(f[i]) \subseteq Names
    <2>1. PICK k \in 0 .. MaxResults : f[i] \in [1 .. k -> NamesOf(node[c])]
      BY <1>4, CallsAreASequence
    <2>2. f[i] \in [1 .. k -> Names]
      BY <1>5, <2>1
    <2> QED  BY <2>2 DEF ToSet
  <1> DEFINE found == UNION {ToSet(f[i]) : i \in DOMAIN f}
             names == ReduceAll(promoted[c], f)
  <1>7. names \in Distinct(Names) /\ ToSet(names) = ToSet(promoted[c]) \cup found
    BY <1>2, <1>4, <1>6, SearchesAre
  <1>8. found \subseteq Names
    BY <1>4, <1>6
  <1>9. promoted' = [promoted EXCEPT ![c] = names]
        /\ fetched' = [fetched EXCEPT ![c] = fetched[c] \cup found]
    BY <1>1
  <1> HIDE DEF found, names
  <1>10. promoted' \in [Conversations -> Distinct(Names)]
         /\ fetched' \in [Conversations -> SUBSET Names]
    BY <1>2, <1>7, <1>8, <1>9 DEF ConversationOK
  <1>11. FetchedIsPromoted'
    <2>1. ASSUME NEW d \in Conversations
          PROVE  fetched'[d] \subseteq ToSet(promoted'[d])
      <3>1. CASE d = c
        BY <1>7, <1>9, <3>1 DEF ConversationOK, FetchedIsPromoted
      <3>2. CASE d # c
        BY <1>9, <3>2 DEF ConversationOK, FetchedIsPromoted
      <3> QED  BY <3>1, <3>2
    <2> QED  BY <2>1 DEF FetchedIsPromoted
  <1>12. /\ UNCHANGED <<file, stored, bound>>
         /\ calls' \in [Conversations -> SeqOf(Call, MaxCalls)]
    <2>1. <<>> \in SeqOf(Call, MaxCalls)
      BY CallsAreASequence
    <2> QED  BY <2>1 DEF ToolsEnd, ConversationOK
  <1> QED  BY <1>10, <1>11, <1>12 DEF ConversationOK

\* The other steps do not touch what was found.
LEMMA ConversationStep ==
    ASSUME ConversationOK, RegistryOK, FetchedIsPromoted, [Next]_vars
    PROVE  ConversationOK' /\ FetchedIsPromoted'
  <1> USE TurnToolsAssumption
  <1>0. <<>> \in SeqOf(Call, MaxCalls) /\ <<>> \in Seq(Bindable)
    BY CallsAreASequence, NothingPromoted
  <1>1. ASSUME NEW u \in Users, Enable(u) \/ EnableFails(u) \/ Disable(u) \/ Connect(u)
        PROVE  ConversationOK' /\ FetchedIsPromoted'
    <2>1. UNCHANGED <<file, promoted, bound, calls, fetched>>
      BY <1>1 DEF Enable, EnableFails, Disable, Connect, turns
    <2>2. stored[u] \in Config
      BY DEF ConversationOK
    <2>3. \A e \in BOOLEAN, k \in BOOLEAN : [enabled |-> e, creds |-> k] \in Config
      BY DEF Config
    <2>4. stored' \in [Users -> Config]
      <3>1. CASE Enable(u) \/ EnableFails(u)
        BY <2>3, <3>1 DEF Enable, EnableFails, ConversationOK
      <3>2. CASE Disable(u) \/ Connect(u)
        <4>1. \A e \in BOOLEAN : [stored[u] EXCEPT !.enabled = e] \in Config
          BY <2>2 DEF Config
        <4>2. CASE Disable(u)
          <5>1. stored' = [stored EXCEPT ![u] = [stored[u] EXCEPT !.enabled = FALSE]]
            BY <4>2 DEF Disable
          <5> QED  BY <4>1, <5>1 DEF ConversationOK
        <4>3. CASE Connect(u)
          <5>1. stored' = [stored EXCEPT ![u] = [stored[u] EXCEPT !.enabled = TRUE]]
            BY <4>3 DEF Connect
          <5> QED  BY <4>1, <5>1 DEF ConversationOK
        <4> QED  BY <3>2, <4>2, <4>3
      <3> QED  BY <1>1, <3>1, <3>2
    <2> QED  BY <2>1, <2>4 DEF ConversationOK, FetchedIsPromoted
  <1>2. ASSUME NEW c \in Conversations,
               \/ Begin(c) \/ EnsureUserTools(c) \/ ToolsStart(c) \/ ToolsRetry(c)
        PROVE  ConversationOK' /\ FetchedIsPromoted'
    <2>1. UNCHANGED <<file, stored, promoted, bound, calls, fetched>>
      BY <1>2 DEF Begin, EnsureUserTools, ToolsStart, ToolsRetry, turns
    <2> QED  BY <2>1 DEF ConversationOK, FetchedIsPromoted
  <1>3. ASSUME NEW c \in Conversations, AgentBinds(c)
        PROVE  ConversationOK' /\ FetchedIsPromoted'
    <2>1. promoted[c] \in Distinct(Names)
      BY DEF ConversationOK
    <2>2. BindList(UserOf[c], promoted[c]) \in Seq(Bindable)
      BY <2>1, BindListIs DEF Distinct
    <2>3. bound' \in [Conversations -> Seq(Bindable)]
          /\ UNCHANGED <<file, stored, promoted, calls, fetched>>
      BY <1>3, <2>2 DEF AgentBinds, ConversationOK
    <2> QED  BY <2>3 DEF ConversationOK, FetchedIsPromoted
  <1>4. ASSUME NEW c \in Conversations, TurnEnds(c)
        PROVE  ConversationOK' /\ FetchedIsPromoted'
    BY <1>0, <1>4 DEF TurnEnds, ConversationOK, FetchedIsPromoted
  <1>5. ASSUME NEW c \in Conversations, NEW cs \in SeqOf(Call, MaxCalls), ModelCalls(c, cs)
        PROVE  ConversationOK' /\ FetchedIsPromoted'
    BY <1>0, <1>5 DEF ModelCalls, ConversationOK, FetchedIsPromoted
  <1>6. CASE Restart
    BY <1>0, <1>6, NothingPromoted DEF Restart, ConversationOK, FetchedIsPromoted
  <1>7. CASE UNCHANGED vars
    BY <1>7 DEF vars, ConversationOK, FetchedIsPromoted
  <1> QED
    BY <1>1, <1>2, <1>3, <1>4, <1>5, <1>6, <1>7, ToolsEndKeeps DEF Next

\* A search adds what it found to what is promoted, and no step removes any.
LEMMA ToolsPreserved == ToolsInv /\ RegistryInv' /\ [Next]_vars => ToolsInv'
  <1> SUFFICES ASSUME ToolsInv, RegistryInv', [Next]_vars
               PROVE  ToolsInv'
      OBVIOUS
  <1>1. RegistryOK /\ ConversationOK /\ FetchedIsPromoted
    BY TypesTogether DEF ToolsInv
  <1>2. ConversationOK' /\ FetchedIsPromoted'
    BY <1>1, ConversationStep
  <1>3. RegistryOK'
    BY DEF RegistryInv
  <1>4. TypeOK'
    BY <1>2, <1>3 DEF TypeOK, RegistryOK, ConversationOK, Distinct, Bindable
  <1> QED  BY <1>2, <1>4 DEF ToolsInv

\* Types, registry and promoted tools are in order in every reachable state.
LEMMA ToolsInvariant == Spec => [](ToolsInv /\ RegistryInv)
  BY ToolsInitially, RegistryInitially, ToolsPreserved, RegistryPreserved, PTL DEF Spec

\* Type correctness: searches, however many calls of a message do them and
\* however often they are repeated, never promote a tool twice.
THEOREM ToolsTypeCorrect == Spec => []TypeOK
  BY ToolsInvariant, PTL DEF ToolsInv

-----------------------------------------------------------------------------
\* Only AgentBinds has the model asked.
LEMMA OnlyAgentBindsAsks ==
    ASSUME RegistryInv, [Next]_vars, NEW c \in Conversations,
           at[c] = "agent", at'[c] = "asking"
    PROVE  AgentBinds(c)
  <1>1. at \in [Conversations -> {"idle", "agent", "asking", "tools", "running"}]
    BY DEF RegistryInv, RegistryOK
  <1>2. ASSUME NEW u \in Users, Enable(u) \/ EnableFails(u) \/ Disable(u) \/ Connect(u)
        PROVE  FALSE
    BY <1>2 DEF Enable, EnableFails, Disable, Connect, turns
  <1>3. ASSUME NEW d \in Conversations,
               \/ Begin(d) \/ EnsureUserTools(d) \/ ToolsStart(d) \/ TurnEnds(d)
               \/ ToolsRetry(d) \/ ToolsEnd(d)
               \/ \E cs \in SeqOf(Call, MaxCalls) \ {<<>>} : ModelCalls(d, cs)
        PROVE  FALSE
    BY <1>1, <1>3 DEF Begin, EnsureUserTools, ToolsStart, TurnEnds, ToolsRetry, ToolsEnd,
                      ModelCalls, turns
  <1>4. ASSUME NEW d \in Conversations, AgentBinds(d)
        PROVE  d = c
    BY <1>1, <1>4 DEF AgentBinds
  <1>5. ~Restart
    BY DEF Restart
  <1>6. ~UNCHANGED vars
    BY DEF vars
  <1> QED
    BY <1>2, <1>3, <1>4, <1>5, <1>6 DEF Next

\* What the model is given.
LEMMA BoundIs ==
    ASSUME ToolsInv, RegistryInv, [Next]_vars, NEW c \in Conversations,
           at[c] = "agent", at'[c] = "asking"
    PROVE  /\ IsInjective(bound'[c])
           /\ ToSet(bound'[c]) = ToSet(CoreTools(UserOf[c]))
                                     \cup {n \in ToSet(promoted[c]) : Given(UserOf[c], n)}
  <1>1. promoted[c] \in Distinct(Names) /\ bound \in [Conversations -> Seq(Bindable)]
    BY TypesTogether DEF ToolsInv, ConversationOK
  <1>2. bound'[c] = BindList(UserOf[c], promoted[c])
    BY <1>1, OnlyAgentBindsAsks DEF AgentBinds
  <1> QED  BY <1>1, <1>2, BindListIs DEF Distinct

\* The core tools, and tool_search with them when there are
\* tools to search.
LEMMA CoreToolsAre ==
    ASSUME NEW u
    PROVE  ToSet(CoreTools(u)) = IF UserTools(u) # {} THEN {"core", "tool_search"} ELSE {"core"}
  <1>1. ToSet(<<"core", "tool_search">>) = {"core", "tool_search"}
    <2> DEFINE s == <<"core", "tool_search">>
    <2>1. DOMAIN s = {1, 2} /\ s[1] = "core" /\ s[2] = "tool_search"
      OBVIOUS
    <2> HIDE DEF s
    <2>2. ToSet(s) = {"core", "tool_search"}
      BY <2>1 DEF ToSet
    <2> QED  BY <2>2 DEF s
  <1>2. ToSet(<<"core">>) = {"core"}
    BY DEF ToSet
  <1> QED  BY <1>1, <1>2 DEF CoreTools

\* What the prompt offers the model can be converted.
LEMMA OffersConverted ==
    ASSUME RegistryInv, NEW c \in Conversations
    PROVE  Convertible(DeferredNames(UserOf[c]))
  <1>1. UserOf[c] \in Users
    BY TurnToolsAssumption
  <1>2. \A t \in UserTools(UserOf[c]) : SchemaOf[t.name] # Unparseable
    BY <1>1 DEF RegistryInv, OwnTools, OfDingTalk, UserTools
  <1> QED  BY <1>2 DEF DeferredNames, NamesOf, Convertible

\* Whatever the schemas of the server are, and whatever is switched, searched
\* or repeated: the request that reaches the model names no tool twice, only
\* tools that are loaded, tool_search when it can find something, and schemas
\* that the provider takes.
THEOREM BindingIsSoundHolds == Spec => BindingIsSound
  <1> DEFINE Sound(c) ==
          /\ IsInjective(bound'[c])
          /\ ("tool_search" \in ToSet(bound'[c])) <=> (DeferredNames(UserOf[c]) # {})
          /\ Convertible(DeferredNames(UserOf[c]))
          /\ \A n \in ToSet(bound'[c]) \ {"core", "tool_search"} :
              /\ n \in NamesOf(rt[UserOf[c]].tools)
              /\ Acceptable(SanitizeSchema(SchemaOf[n]))
              /\ \A p \in DOMAIN SchemaOf[n] :
                    SchemaOf[n][p].required \cup SchemaOf[n][p].misplaced
                        = SanitizeSchema(SchemaOf[n])[p].required
  <1>1. ASSUME ToolsInv, RegistryInv, [Next]_vars, NEW c \in Conversations,
               at[c] = "agent", at'[c] = "asking"
        PROVE  Sound(c)
    <2> DEFINE u == UserOf[c]
    <2>1. /\ IsInjective(bound'[c])
          /\ ToSet(bound'[c]) = ToSet(CoreTools(u)) \cup {n \in ToSet(promoted[c]) : Given(u, n)}
      BY <1>1, BoundIs
    <2>2. ToSet(CoreTools(u)) =
              IF UserTools(u) # {} THEN {"core", "tool_search"} ELSE {"core"}
      BY CoreToolsAre
    <2>3. ToSet(promoted[c]) \subseteq Names
      BY <1>1, TypesTogether DEF ToolsInv, ConversationOK, Distinct, ToSet
    <2>4. DeferredNames(u) # {} <=> UserTools(u) # {}
      BY DEF DeferredNames, NamesOf
    <2> HIDE DEF u
    <2>5. ("tool_search" \in ToSet(bound'[c])) <=> (DeferredNames(u) # {})
      BY <2>1, <2>2, <2>4 DEF Given
    <2>6. ASSUME NEW n \in ToSet(bound'[c]) \ {"core", "tool_search"}
          PROVE  /\ n \in NamesOf(rt[u].tools)
                 /\ Acceptable(SanitizeSchema(SchemaOf[n]))
                 /\ \A p \in DOMAIN SchemaOf[n] :
                       SchemaOf[n][p].required \cup SchemaOf[n][p].misplaced
                           = SanitizeSchema(SchemaOf[n])[p].required
      <3>1. Given(u, n) /\ n \in Names
        BY <2>1, <2>2, <2>3
      <3>2. n \in NamesOf(UserTools(u)) /\ SchemaOf[n] # Unparseable
        BY <3>1 DEF Given
      <3>3. n \in NamesOf(rt[u].tools)
        BY <3>2 DEF UserTools, NamesOf
      <3> DEFINE S == SchemaOf[n]
      <3>4. \A p \in DOMAIN S : S[p] \in Node
        BY <3>1, <3>2, TurnToolsAssumption
      <3> HIDE DEF S
      <3>5. ASSUME NEW p \in DOMAIN S
            PROVE  /\ SanitizeSchema(S)[p].standard /\ SanitizeSchema(S)[p].misplaced = {}
                   /\ SanitizeSchema(S)[p].required = S[p].required \cup S[p].misplaced
        BY <3>4 DEF SanitizeSchema, Node
      <3>6. Acceptable(SanitizeSchema(S))
        <4>1. DOMAIN SanitizeSchema(S) = DOMAIN S
          BY DEF SanitizeSchema
        <4> QED  BY <3>5, <4>1 DEF Acceptable
      <3> QED  BY <3>3, <3>5, <3>6 DEF S
    <2>7. Convertible(DeferredNames(u))
      BY <1>1, OffersConverted DEF u
    <2> QED  BY <2>1, <2>5, <2>6, <2>7 DEF u
  <1>2. ToolsInv /\ RegistryInv /\ [Next]_vars =>
          [\A c \in Conversations : at[c] = "agent" /\ at'[c] = "asking" => Sound(c)]_vars
    BY <1>1
  <1> QED  BY <1>2, ToolsInvariant, PTL DEF Spec, BindingIsSound

\* A tool once found needs no second search, for the rest of the conversation:
\* whenever the user has it, the model is given it.
THEOREM FetchedStaysCallableHolds == Spec => FetchedStaysCallable
  <1>1. ASSUME ToolsInv, RegistryInv, [Next]_vars, NEW c \in Conversations,
               at[c] = "agent", at'[c] = "asking",
               NEW n \in fetched[c] \cap DeferredNames(UserOf[c])
        PROVE  n \in ToSet(bound'[c])
    <2> DEFINE u == UserOf[c]
    <2>1. ToSet(bound'[c]) = ToSet(CoreTools(u)) \cup {x \in ToSet(promoted[c]) : Given(u, x)}
      BY <1>1, BoundIs
    <2>2. ToSet(CoreTools(u)) =
              IF UserTools(u) # {} THEN {"core", "tool_search"} ELSE {"core"}
      BY CoreToolsAre
    <2>3. n \in ToSet(promoted[c])
      BY <1>1 DEF ToolsInv, FetchedIsPromoted
    <2>4. n \in NamesOf(UserTools(u)) /\ UserTools(u) # {}
      BY <1>1 DEF DeferredNames, NamesOf
    <2>5. SchemaOf[n] # Unparseable
      BY <1>1, OffersConverted DEF Convertible
    <2> HIDE DEF u
    <2> QED  BY <2>1, <2>2, <2>3, <2>4, <2>5 DEF Given
  <1>2. ToolsInv /\ RegistryInv /\ [Next]_vars =>
          [\A c \in Conversations : at[c] = "agent" /\ at'[c] = "asking" =>
              \A n \in fetched[c] \cap DeferredNames(UserOf[c]) :
                  n \in ToSet(bound'[c])]_vars
    BY <1>1
  <1> QED  BY <1>2, ToolsInvariant, PTL DEF Spec, FetchedStaysCallable
=============================================================================
