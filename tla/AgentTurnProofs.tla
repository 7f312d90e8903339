-------------------------- MODULE AgentTurnProofs --------------------------
(***************************************************************************)
(* Module AgentTurn for any number of overlapping runs, turns and models,  *)
(* whatever fails and however often it is tried again.                     *)
(*                                                                         *)
(* AudioIsHeard: while the recording of a turn waits for transcribe_node,  *)
(* the copy that the run works on holds this recording and no other;       *)
(* afterwards the transcript, or the apology, is in the history, which a   *)
(* run only adds to.  TurnInv says so of every run.                        *)
(* TypeOK: the models that are asked are those of the failover chain, and  *)
(* the chain, a recursive function, is shown to hold no model twice.       *)
(* AnswerIsOwn, CallsDangleOnlyWhenCut: what one step adds to the history. *)
(* ApologyOnlyWhenAllFailed: the failures of a node name every attempt and *)
(* every position before the one that is asked; TriedInv says so, and that *)
(* the turn with which a run ends is the turn of no other run.             *)
(***************************************************************************)
EXTENDS AgentTurn, FiniteSetTheorems, SequenceTheorems, WellFoundedInduction, TLAPS

\* The types that the argument needs.
TurnTypes ==
    /\ saved.history \in Seq(Message) /\ saved.audio \in 0 .. MaxTurns
    /\ saved.next \in Nodes \cup {"end"}
    /\ turns \in 0 .. MaxTurns
    /\ at \in [Runs -> Nodes \cup {"idle"}]
    /\ mine \in [Runs -> Copy]
    /\ own \in [Runs -> Request]

\* What was recorded in a turn is in the history h.
HeardIn(h, turn) ==
    \E i \in DOMAIN h : h[i].turn = turn /\ h[i].kind \in {"transcript", "apology"}

Hears(r) ==
    at[r] # "idle" /\ own[r].audio =>
        IF at[r] = "transcription" THEN mine[r].audio = own[r].turn
        ELSE HeardIn(mine[r].history, own[r].turn)

TurnInv == TurnTypes /\ \A r \in Runs : Hears(r)

-----------------------------------------------------------------------------
\* A history is only added to, and what is in it stays.
LEMMA HeardStays ==
    ASSUME NEW h \in Seq(Message), NEW m \in Message, NEW turn
    PROVE  /\ Append(h, m) \in Seq(Message)
           /\ HeardIn(h, turn) => HeardIn(Append(h, m), turn)
           /\ m.turn = turn /\ m.kind \in {"transcript", "apology"}
                => HeardIn(Append(h, m), turn)
  <1> DEFINE g == Append(h, m)
  <1>1. g \in Seq(Message) /\ DOMAIN g = 1 .. Len(h) + 1 /\ DOMAIN h = 1 .. Len(h)
        /\ Len(h) \in Nat
    OBVIOUS
  <1>2. g[Len(h) + 1] = m /\ \A i \in 1 .. Len(h) : g[i] = h[i]
    OBVIOUS
  <1> HIDE DEF g
  <1>3. HeardIn(h, turn) => HeardIn(g, turn)
    <2> SUFFICES ASSUME NEW i \in 1 .. Len(h), h[i].turn = turn,
                        h[i].kind \in {"transcript", "apology"}
                 PROVE  HeardIn(g, turn)
        BY <1>1 DEF HeardIn
    <2>1. i \in DOMAIN g /\ g[i] = h[i]
      BY <1>1, <1>2
    <2> QED  BY <2>1 DEF HeardIn
  <1>4. m.turn = turn /\ m.kind \in {"transcript", "apology"} => HeardIn(g, turn)
    <2>1. Len(h) + 1 \in DOMAIN g
      BY <1>1
    <2> QED  BY <1>2, <2>1 DEF HeardIn
  <1> QED  BY <1>1, <1>3, <1>4 DEF g

\* A message of the turn that a run serves.
LEMMA SaysMessage ==
    ASSUME TurnTypes, NEW r \in Runs,
           NEW kind \in {"human", "calls", "tools", "note", "reply", "apology"}
    PROVE  /\ Says(r, kind) \in Seq(Message)
           /\ HeardIn(mine[r].history, own[r].turn) \/ kind = "apology"
                => HeardIn(Says(r, kind), own[r].turn)
  <1> DEFINE m == [kind |-> kind, turn |-> own[r].turn]
  <1>1. own[r].turn \in 0 .. MaxTurns
    BY DEF TurnTypes, Request
  <1>2. m \in Message /\ m.turn = own[r].turn /\ m.kind = kind
    BY <1>1 DEF Message
  <1>3. mine[r].history \in Seq(Message)
    BY DEF TurnTypes, Copy
  <1>4. Says(r, kind) = Append(mine[r].history, m)
    BY DEF Says
  <1> HIDE DEF m
  <1> QED  BY <1>2, <1>3, <1>4, HeardStays

\* The empty copy, request and history have their types.
LEMMA NothingTypes == EmptyCopy \in Copy /\ NoRequest \in Request /\ <<>> \in Seq(Message)
  <1>1. 0 \in 0 .. MaxTurns
    BY AgentTurnAssumption
  <1>2. <<>> \in Seq(Message)
    OBVIOUS
  <1> QED  BY <1>1, <1>2 DEF EmptyCopy, NoRequest, Copy, Request

\* A run that is done with a node keeps the invariant, if the history with
\* which it goes on holds what its turn recorded.
LEMMA LeavesKeeps ==
    ASSUME TurnInv, NEW r \in Runs, NEW h \in Seq(Message),
           NEW next \in {"agent", "tools", "hitl_node", "end"},
           own[r].audio => HeardIn(h, own[r].turn),
           Leaves(r, h, next)
    PROVE  TurnInv'
  <1> USE DEF TurnInv
  <1>0. at[r] \in Nodes \cup {"idle"} /\ mine[r] \in Copy /\ own[r] \in Request
    BY DEF TurnTypes
  <1>1. CASE next \in {"end", "hitl_node"}
    <2>1. /\ at' = [at EXCEPT ![r] = "idle"]
          /\ mine' = [mine EXCEPT ![r] = EmptyCopy]
          /\ own' = [own EXCEPT ![r] = NoRequest]
          /\ turns' = turns
      BY <1>1 DEF Leaves
    <2>2. EmptyCopy \in Copy /\ NoRequest \in Request
      BY NothingTypes
    <2>3. at' \in [Runs -> Nodes \cup {"idle"}] /\ mine' \in [Runs -> Copy]
          /\ own' \in [Runs -> Request]
      BY <2>1, <2>2 DEF TurnTypes
    <2>4. saved' = [history |-> h, audio |-> mine[r].audio, next |-> next]
      BY DEF Leaves
    <2>5. TurnTypes'
      BY <1>0, <2>1, <2>3, <2>4 DEF TurnTypes, Copy, Nodes
    <2>6. \A q \in Runs : Hears(q)'
      BY <2>1 DEF Hears, TurnTypes
    <2> QED  BY <2>5, <2>6
  <1>2. CASE next \notin {"end", "hitl_node"}
    <2> DEFINE c == [mine[r] EXCEPT !.history = h]
    <2>1. /\ at' = [at EXCEPT ![r] = next]
          /\ mine' = [mine EXCEPT ![r] = c]
          /\ own' = own /\ turns' = turns
      BY <1>2 DEF Leaves, TurnTypes
    <2>2. c \in Copy /\ c.history = h
      BY <1>0 DEF Copy
    <2> HIDE DEF c
    <2>0. next \in Nodes \cup {"idle"}
      BY <1>2 DEF Nodes
    <2>3. at' \in [Runs -> Nodes \cup {"idle"}] /\ mine' \in [Runs -> Copy]
          /\ own' \in [Runs -> Request]
      BY <2>0, <2>1, <2>2 DEF TurnTypes
    <2>4. saved' = [history |-> h, audio |-> mine[r].audio, next |-> next]
      BY DEF Leaves
    <2>5. TurnTypes'
      BY <1>0, <2>1, <2>3, <2>4 DEF TurnTypes, Copy, Nodes
    <2>6. ASSUME NEW q \in Runs  PROVE Hears(q)'
      <3>1. CASE q = r
        <4>1. at'[q] = next /\ mine'[q] = c /\ own'[q] = own[r]
          BY <2>1, <3>1 DEF TurnTypes
        <4> QED  BY <2>2, <4>1 DEF Hears
      <3>2. CASE q # r
        <4>1. at'[q] = at[q] /\ mine'[q] = mine[q] /\ own'[q] = own[q]
          BY <2>1, <3>2 DEF TurnTypes
        <4> QED  BY <4>1 DEF Hears
      <3> QED  BY <3>1, <3>2
    <2> QED  BY <2>5, <2>6
  <1> QED  BY <1>1, <1>2

\* So does one that goes on in the same node.
LEMMA SameNode ==
    ASSUME TurnInv, UNCHANGED <<saved, turns, at, mine, own>>
    PROVE  TurnInv'
  BY DEF TurnInv, TurnTypes, Hears, HeardIn

\* A failure: the node is tried again, or given up with an apology.
LEMMA FailsKeeps ==
    ASSUME TurnInv, NEW r \in Runs, NEW e, Fails(r, e)
    PROVE  TurnInv'
  <1>1. CASE Retry(r, e)
    BY <1>1, SameNode DEF Retry
  <1>2. CASE GiveUp(r, e)
    <2>1. PICK next \in {"agent", "end"} : Leaves(r, Says(r, "apology"), next)
      BY <1>2 DEF GiveUp
    <2>2. Says(r, "apology") \in Seq(Message) /\ HeardIn(Says(r, "apology"), own[r].turn)
      BY SaysMessage DEF TurnInv
    <2> QED  BY <2>1, <2>2, LeavesKeeps
  <1> QED  BY <1>1, <1>2 DEF Fails

\* A run that ends, or is not begun, has nothing to hear.
LEMMA IdleKeeps ==
    ASSUME TurnInv, NEW r \in Runs,
           at' = [at EXCEPT ![r] = "idle"], mine' = [mine EXCEPT ![r] = EmptyCopy],
           own' = [own EXCEPT ![r] = NoRequest], UNCHANGED <<saved, turns>>
    PROVE  TurnInv'
  <1>1. EmptyCopy \in Copy /\ NoRequest \in Request
    BY NothingTypes
  <1>2. TurnTypes'
    BY <1>1 DEF TurnInv, TurnTypes
  <1> QED  BY <1>2 DEF TurnInv, TurnTypes, Hears

\* A new turn reads the checkpoint and puts its own recording into its copy.
LEMMA StartKeeps ==
    ASSUME TurnInv, NEW r \in Runs, NEW endpoint \in {"chat", "stream", "job"},
           NEW text \in BOOLEAN, NEW recorded \in BOOLEAN,
           Start(r, endpoint, text, recorded)
    PROVE  TurnInv'
  <1> USE AgentTurnAssumption
  <1> DEFINE turn == turns + 1
             h == saved.history \o
                     (IF text THEN <<[kind |-> "human", turn |-> turn]>> ELSE <<>>)
             a == IF recorded THEN turn ELSE IF endpoint = "chat" THEN 0 ELSE saved.audio
             copy == [history |-> h, audio |-> a]
             req == [turn |-> turn, endpoint |-> endpoint, audio |-> recorded]
  <1>1. /\ turns' = turn /\ turns < MaxTurns
        /\ own' = [own EXCEPT ![r] = req]
        /\ mine' = [mine EXCEPT ![r] = copy]
        /\ at' = [at EXCEPT ![r] = RouteStart(copy)]
        /\ saved' = [history |-> copy.history, audio |-> copy.audio, next |-> RouteStart(copy)]
    BY DEF Start
  <1>2. turn \in 0 .. MaxTurns /\ turn # 0
    BY <1>1 DEF TurnInv, TurnTypes
  <1>3. saved.history \in Seq(Message) /\ saved.audio \in 0 .. MaxTurns /\ turns \in 0 .. MaxTurns
    BY DEF TurnInv, TurnTypes
  <1>4. h \in Seq(Message)
    <2>1. [kind |-> "human", turn |-> turn] \in Message
      BY <1>2 DEF Message
    <2> QED  BY <1>3, <2>1
  <1>5. a \in 0 .. MaxTurns /\ (recorded => a = turn)
    BY <1>2, <1>3
  <1> HIDE DEF h, a
  <1>6. copy \in Copy /\ copy.audio = a /\ copy.history = h
    BY <1>4, <1>5 DEF Copy
  <1>7. req \in Request /\ req.turn = turn /\ req.audio = recorded
    BY <1>2 DEF Request
  <1>8. RouteStart(copy) \in Nodes /\ (recorded => RouteStart(copy) = "transcription")
    BY <1>2, <1>5, <1>6 DEF RouteStart, Nodes
  <1> HIDE DEF turn, copy, req
  <1>9. TurnTypes'
    <2>1. at' \in [Runs -> Nodes \cup {"idle"}] /\ mine' \in [Runs -> Copy]
          /\ own' \in [Runs -> Request]
      BY <1>1, <1>6, <1>7, <1>8 DEF TurnInv, TurnTypes
    <2>2. saved'.history = h /\ saved'.audio = a /\ saved'.next = RouteStart(copy)
      BY <1>1, <1>6
    <2> QED  BY <1>1, <1>2, <1>4, <1>5, <1>8, <2>1, <2>2 DEF TurnTypes
  <1>10. ASSUME NEW q \in Runs  PROVE Hears(q)'
    <2>1. CASE q = r
      <3>1. at'[q] = RouteStart(copy) /\ mine'[q] = copy /\ own'[q] = req
        BY <1>1, <2>1 DEF TurnInv, TurnTypes
      <3> QED  BY <1>5, <1>6, <1>7, <1>8, <3>1 DEF Hears
    <2>2. CASE q # r
      <3>1. at'[q] = at[q] /\ mine'[q] = mine[q] /\ own'[q] = own[q]
        BY <1>1, <2>2 DEF TurnInv, TurnTypes
      <3> QED  BY <3>1 DEF TurnInv, Hears
    <2> QED  BY <2>1, <2>2
  <1> QED  BY <1>9, <1>10 DEF TurnInv

\* A resumed turn has no recording.
LEMMA ResumeKeeps ==
    ASSUME TurnInv, NEW r \in Runs, NEW endpoint \in {"chat", "job"}, Resume(r, endpoint)
    PROVE  TurnInv'
  <1> USE AgentTurnAssumption
  <1> DEFINE req == [turn |-> turns + 1, endpoint |-> endpoint, audio |-> FALSE]
             copy == [history |-> saved.history, audio |-> saved.audio]
  <1>1. /\ turns' = turns + 1 /\ turns < MaxTurns /\ saved.next # "end"
        /\ own' = [own EXCEPT ![r] = req]
        /\ mine' = [mine EXCEPT ![r] = copy]
        /\ at' = [at EXCEPT ![r] = saved.next]
        /\ saved' = saved
    BY DEF Resume
  <1>2. turns + 1 \in 0 .. MaxTurns
    BY <1>1 DEF TurnInv, TurnTypes
  <1>3. copy \in Copy /\ req \in Request /\ ~req.audio
    BY <1>2 DEF Copy, Request, TurnInv, TurnTypes
  <1> HIDE DEF copy, req
  <1>4. TurnTypes'
    BY <1>1, <1>2, <1>3 DEF TurnInv, TurnTypes
  <1>5. \A q \in Runs : Hears(q)'
    BY <1>1, <1>3 DEF TurnInv, TurnTypes, Hears
  <1> QED  BY <1>4, <1>5 DEF TurnInv

\* A step of a node only adds to the history of its run.
LEMMA NodeStepKeeps ==
    ASSUME TurnInv, NEW r \in Runs, NodeStep(r)
    PROVE  TurnInv'
  <1>0. TurnTypes /\ Hears(r) /\ mine[r] \in Copy /\ own[r] \in Request
    BY DEF TurnInv, TurnTypes
  <1>1. CASE Transcribes(r)
    <2> DEFINE m == [kind |-> "transcript", turn |-> mine[r].audio]
    <2>1. at[r] = "transcription" /\ Leaves(r, Append(mine[r].history, m), "agent")
      BY <1>1 DEF Transcribes, MovesOn
    <2>2. m \in Message /\ m.turn = mine[r].audio /\ m.kind = "transcript"
          /\ mine[r].history \in Seq(Message)
      BY <1>0 DEF Copy, Message
    <2> HIDE DEF m
    <2>3. own[r].audio => m.turn = own[r].turn
      BY <1>0, <2>1, <2>2 DEF Hears
    <2>4. /\ Append(mine[r].history, m) \in Seq(Message)
          /\ own[r].audio => HeardIn(Append(mine[r].history, m), own[r].turn)
      BY <2>2, <2>3, HeardStays
    <2> QED  BY <2>1, <2>4, LeavesKeeps
  <1>2. ASSUME NEW kind \in {"human", "calls", "tools", "note", "reply"},
               NEW next \in {"agent", "tools", "hitl_node", "end"},
               at[r] \notin {"idle", "transcription"},
               MovesOn(r, Says(r, kind), next)
        PROVE  TurnInv'
    <2>1. own[r].audio => HeardIn(mine[r].history, own[r].turn)
      BY <1>0, <1>2 DEF Hears
    <2>2. Says(r, kind) \in Seq(Message)
          /\ (own[r].audio => HeardIn(Says(r, kind), own[r].turn))
      BY <1>0, <2>1, SaysMessage
    <2>3. Leaves(r, Says(r, kind), next)
      BY <1>2 DEF MovesOn
    <2> QED  BY <2>2, <2>3, LeavesKeeps
  <1>3. CASE ModelAnswers(r) \/ ModelCallsTools(r)
    <2>1. PICK kind \in {"reply", "calls"} :
              at[r] = "agent" /\ MovesOn(r, Says(r, kind), RouteAfterAgent(Says(r, kind)))
      BY <1>3 DEF ModelAnswers, ModelCallsTools
    <2>2. RouteAfterAgent(Says(r, kind)) \in {"tools", "end"}
      BY DEF RouteAfterAgent
    <2> QED  BY <1>2, <2>1, <2>2
  <1>4. CASE ToolsReturn(r)
    BY <1>2, <1>4 DEF ToolsReturn
  <1>5. CASE HumanDecided(r)
    BY <1>2, <1>5 DEF HumanDecided
  <1>6. CASE \E e \in ModelErrors : ModelFails(r, e)
    <2>1. PICK e \in ModelErrors : ModelFails(r, e)
      BY <1>6
    <2>2. CASE AskNext(r, e)
      BY <2>2, SameNode DEF AskNext
    <2> QED  BY <2>1, <2>2, FailsKeeps DEF ModelFails
  <1>7. CASE ModelLacksKey(r)
    BY <1>7, FailsKeeps DEF ModelLacksKey
  <1>8. CASE NodeBreaks(r)
    BY <1>8, FailsKeeps DEF NodeBreaks
  <1> QED
    BY <1>1, <1>3, <1>4, <1>5, <1>6, <1>7, <1>8 DEF NodeStep

\* The invariant holds initially, and whatever a run does leaves the others be.
LEMMA TurnInvInductive ==
    /\ Init => TurnInv
    /\ TurnInv /\ [Next]_vars => TurnInv'
  <1> USE AgentTurnAssumption
  <1>1. Init => TurnInv
    <2> SUFFICES ASSUME Init  PROVE TurnInv
        OBVIOUS
    <2>1. EmptyCopy \in Copy /\ NoRequest \in Request /\ <<>> \in Seq(Message)
      BY NothingTypes
    <2>2. TurnTypes
      BY <2>1 DEF Init, TurnTypes
    <2> QED  BY <2>2 DEF Init, TurnInv, Hears
  <1>2. ASSUME TurnInv, Next
        PROVE  TurnInv'
    <2>1. CASE Restart
      <3>1. EmptyCopy \in Copy /\ NoRequest \in Request /\ <<>> \in Seq(Message)
        BY NothingTypes
      <3>2. TurnTypes'
        BY <1>2, <2>1, <3>1 DEF Restart, TurnInv, TurnTypes
      <3> QED  BY <2>1, <3>2 DEF Restart, TurnInv, Hears
    <2>2. ASSUME NEW r \in Runs, Cancel(r)
          PROVE  TurnInv'
      BY <1>2, <2>2, IdleKeeps DEF Cancel
    <2>3. QED
      BY <1>2, <2>1, <2>2, StartKeeps, ResumeKeeps, NodeStepKeeps DEF Next
  <1>3. TurnInv /\ UNCHANGED vars => TurnInv'
    BY SameNode DEF vars
  <1> QED  BY <1>1, <1>2, <1>3

-----------------------------------------------------------------------------
\* Every agent step of a turn with a recording finds the transcript, or the
\* apology, in the history: also after retries of transcribe_node, in a
\* conversation that other runs write at the same time, and when an older
\* recording is still in the checkpoint.
THEOREM AudioIsHeardHolds == Spec => []AudioIsHeard
  <1>1. TurnInv => AudioIsHeard
    BY DEF TurnInv, Hears, HeardIn, AudioIsHeard
  <1> QED
    BY <1>1, TurnInvInductive, PTL DEF Spec

-----------------------------------------------------------------------------
(***************************************************************************)
(* The chain of models.  It is a recursive function, so that it is what    *)
(* it should be takes two inductions: one for the function to exist, one   *)
(* for its values.                                                         *)
(***************************************************************************)
\* Induction over the natural numbers, for a set instead of a predicate.
LEMMA NatSetInduction ==
    ASSUME NEW S, 0 \in S, \A n \in Nat : n \in S => n + 1 \in S
    PROVE  Nat \subseteq S
  <1> SUFFICES ASSUME Nat \ S # {}
               PROVE  FALSE
      OBVIOUS
  <1> DEFINE R == OpToRel(<, Nat)
  <1>1. IsWellFoundedOn(R, Nat)
    BY NatLessThanWellFounded
  <1>2. \A k, n \in Nat : k < n => <<k, n>> \in R
    BY DEF OpToRel
  <1> HIDE DEF R
  <1>3. PICK m \in Nat \ S : \A k \in Nat \ S : ~(<<k, m>> \in R)
    BY <1>1, WFMin
  <1>4. m # 0 /\ m - 1 \in Nat /\ m - 1 < m /\ m - 1 + 1 = m
    BY <1>3
  <1>5. m - 1 \in S
    BY <1>2, <1>3, <1>4
  <1> QED  BY <1>3, <1>4, <1>5

\* A set of positions that is not empty has a last one.
LEMMA LastPosition ==
    ASSUME NEW n \in Nat, NEW S \in SUBSET (1 .. n), S # {}
    PROVE  \E i \in S : \A j \in S : j <= i
  <1> DEFINE T == {m \in Nat : \A U \in SUBSET (1 .. m) :
                                  U # {} => \E i \in U : \A j \in U : j <= i}
  <1>1. 0 \in T
    <2>1. 1 .. 0 = {}
      OBVIOUS
    <2> QED  BY <2>1
  <1>2. ASSUME NEW m \in Nat, m \in T
        PROVE  m + 1 \in T
    <2> SUFFICES ASSUME NEW U \in SUBSET (1 .. m + 1), U # {}
                 PROVE  \E i \in U : \A j \in U : j <= i
        OBVIOUS
    <2>1. CASE m + 1 \in U
      BY <2>1
    <2>2. CASE m + 1 \notin U
      <3>1. U \in SUBSET (1 .. m)
        BY <2>2
      <3> QED  BY <1>2, <3>1
    <2> QED  BY <2>1, <2>2
  <1> HIDE DEF T
  <1>3. n \in T
    BY <1>1, <1>2, NatSetInduction
  <1> QED  BY <1>3 DEF T

\* A chain of models: it begins, and no model is in it twice.
IsChain(s) ==
    /\ s \in Seq(Models) /\ s # <<>>
    /\ \A i, j \in DOMAIN s : s[i] = s[j] => i = j

\* The step of _build_failover_chain's loop keeps it one.
LEMMA WithFallbackIsChain ==
    ASSUME NEW c \in Config, NEW s, IsChain(s)
    PROVE  IsChain(WithFallback(c, s))
  <1> DEFINE target == c.fallback[s[Len(s)]]
  <1>1. /\ s \in Seq(Models) /\ Len(s) \in Nat /\ Len(s) # 0
        /\ DOMAIN s = 1 .. Len(s)
    BY DEF IsChain
  <1>2. s[Len(s)] \in Models
    BY <1>1
  <1>3. target \in Models \cup {NoModel}
    BY <1>2 DEF Config
  <1> HIDE DEF target
  <1>4. CASE target = NoModel \/ \E i \in DOMAIN s : s[i] = target
    BY <1>4 DEF WithFallback, target
  <1>5. CASE target # NoModel /\ \A i \in DOMAIN s : s[i] # target
    <2> DEFINE g == Append(s, target)
    <2>1. WithFallback(c, s) = g
      BY <1>5 DEF WithFallback, target
    <2>2. /\ g \in Seq(Models) /\ g # <<>>
          /\ DOMAIN g = 1 .. Len(s) + 1
          /\ g[Len(s) + 1] = target
          /\ \A i \in 1 .. Len(s) : g[i] = s[i]
      BY <1>1, <1>3, <1>5
    <2> HIDE DEF g
    <2>3. ASSUME NEW i \in DOMAIN g, NEW j \in DOMAIN g, g[i] = g[j]
          PROVE  i = j
      BY <1>1, <1>5, <2>2, <2>3 DEF IsChain
    <2> QED  BY <2>1, <2>2, <2>3 DEF IsChain
  <1> QED  BY <1>4, <1>5

\* The failover chain is one, and no longer than there are models.
LEMMA ChainIsChain ==
    ASSUME NEW c \in Config
    PROVE  /\ IsChain(Chain(c))
           /\ Len(Chain(c)) \in 1 .. Cardinality(Models)
           /\ Cardinality(Models) \in Nat
  <1> USE AgentTurnAssumption
  <1> DEFINE N == Cardinality(Models)
             Upto(f, k) == f = [n \in 0 .. k |->
                                  IF n = 0 THEN <<Active>> ELSE WithFallback(c, f[n - 1])]
  <1>1. N \in Nat
    BY FS_CardinalityType
  <1> HIDE DEF N
  <1>2. \E f : Upto(f, N)
    <2> DEFINE S == {k \in Nat : \E f : Upto(f, k)}
    <2>1. 0 \in S
      <3>1. Upto([n \in 0 .. 0 |-> <<Active>>], 0)
        OBVIOUS
      <3> QED  BY <3>1
    <2>2. ASSUME NEW k \in Nat, k \in S
          PROVE  k + 1 \in S
      <3>1. PICK f : Upto(f, k)
        BY <2>2
      <3> DEFINE g == [n \in 0 .. k + 1 |->
                          IF n = k + 1 THEN WithFallback(c, f[k]) ELSE f[n]]
      <3>2. ASSUME NEW n \in 0 .. k + 1
            PROVE  g[n] = IF n = 0 THEN <<Active>> ELSE WithFallback(c, g[n - 1])
        <4>1. CASE n = k + 1
          <5>1. n # 0 /\ n - 1 = k /\ k \in 0 .. k + 1 /\ k # k + 1
            BY <4>1
          <5> QED  BY <4>1, <5>1
        <4>2. CASE n # k + 1 /\ n # 0
          <5>1. n \in 0 .. k /\ n - 1 \in 0 .. k + 1 /\ n - 1 # k + 1
            BY <4>2
          <5>2. f[n] = WithFallback(c, f[n - 1])
            BY <3>1, <4>2, <5>1
          <5> QED  BY <4>2, <5>1, <5>2
        <4>3. CASE n = 0
          <5>1. n \in 0 .. k /\ n # k + 1
            BY <4>3
          <5>2. f[n] = <<Active>>
            BY <3>1, <4>3, <5>1
          <5> QED  BY <4>3, <5>1, <5>2
        <4> QED  BY <4>1, <4>2, <4>3
      <3>3. g = [n \in 0 .. k + 1 |-> g[n]]
        OBVIOUS
      <3> HIDE DEF g
      <3>4. Upto(g, k + 1)
        BY <3>2, <3>3
      <3> QED  BY <3>4
    <2> HIDE DEF S
    <2>3. N \in S
      BY <1>1, <2>1, <2>2, NatSetInduction
    <2> QED  BY <2>3 DEF S
  <1> DEFINE upto == CHOOSE f : Upto(f, N)
  <1>3. Upto(upto, N)
    BY <1>2
  <1>4. Chain(c) = upto[N]
    BY DEF Chain, N
  <1> HIDE DEF upto
  <1>5. /\ upto[0] = <<Active>>
        /\ \A n \in Nat : n + 1 \in 0 .. N => upto[n + 1] = WithFallback(c, upto[n])
    <2>1. 0 \in 0 .. N
      BY <1>1
    <2>2. ASSUME NEW n \in Nat, n + 1 \in 0 .. N
          PROVE  upto[n + 1] = WithFallback(c, upto[n])
      <3>1. n + 1 # 0 /\ (n + 1) - 1 = n
        OBVIOUS
      <3> QED  BY <1>3, <2>2, <3>1
    <2> QED  BY <1>3, <2>1, <2>2
  <1>6. IsChain(upto[N])
    <2> DEFINE T == {n \in Nat : n <= N => IsChain(upto[n])}
    <2>1. 0 \in T
      <3>1. IsChain(<<Active>>)
        BY DEF IsChain
      <3> QED  BY <1>5, <3>1
    <2>2. ASSUME NEW n \in Nat, n \in T
          PROVE  n + 1 \in T
      <3> SUFFICES ASSUME n + 1 <= N
                   PROVE  IsChain(upto[n + 1])
          OBVIOUS
      <3>1. n <= N /\ n + 1 \in 0 .. N
        BY <1>1
      <3> QED  BY <1>5, <2>2, <3>1, WithFallbackIsChain
    <2> HIDE DEF T
    <2>3. N \in T
      BY <1>1, <2>1, <2>2, NatSetInduction
    <2> QED  BY <1>1, <2>3 DEF T
  <1> DEFINE s == upto[N]
  <1>7. s \in Seq(Models) /\ Len(s) \in Nat /\ DOMAIN s = 1 .. Len(s) /\ Len(s) # 0
    BY <1>6 DEF IsChain
  <1>8. Len(s) <= N
    <2>1. s \in Injection(1 .. Len(s), Models)
      BY <1>6, <1>7 DEF IsChain, Injection, IsInjective
    <2>2. IsFiniteSet(1 .. Len(s)) /\ Cardinality(1 .. Len(s)) = Len(s)
      BY <1>7, FS_Interval
    <2>3. Cardinality(1 .. Len(s)) <= Cardinality(Models)
      BY <2>1, FS_Injection
    <2> QED  BY <2>2, <2>3 DEF N
  <1> QED  BY <1>1, <1>4, <1>6, <1>7, <1>8 DEF N

-----------------------------------------------------------------------------
(***************************************************************************)
(* What the steps of a node do, for all that follows.                      *)
(***************************************************************************)
\* A node of r is done: it has added the message m, and the run goes on at
\* next; S is what is left of the node's failures.
Wrote(r, m, next, S) ==
    /\ at[r] # "idle"
    /\ Leaves(r, Append(mine[r].history, m), next)
    /\ NewNode(r, S)
    /\ m.kind = "calls" <=> next = "tools"
    /\ next = "tools" => rounds[r] < MaxRounds
    /\ next = "end" => m.turn = own[r].turn /\ m.kind \in {"reply", "apology"}

\* The attempt is not over: another model is asked.
Asked(r, e) == at[r] = "agent" /\ AskNext(r, e)

\* It is over, and another begins.
Retried(r, e) ==
    /\ at[r] # "idle" /\ Retry(r, e)
    /\ at[r] = "agent" => e # "unkeyed"
    /\ at[r] = "agent" => ~(FailsOver(e) /\ asked[r] < Len(Chain(conf)))

\* The node gives up with an apology.
GaveUp(r, e) ==
    /\ at[r] # "idle" /\ GiveUp(r, e)
    /\ at[r] = "agent" => ~(FailsOver(e) /\ asked[r] < Len(Chain(conf)))

\* A node step succeeds, or its error leads to the next model, to the next
\* attempt or to the apology.
LEMMA FailuresOfANode ==
    ASSUME NEW r \in Runs, NodeStep(r)
    PROVE  \/ Transcribes(r) \/ ModelAnswers(r) \/ ModelCallsTools(r)
           \/ ToolsReturn(r) \/ HumanDecided(r)
           \/ \E e \in Errors : Asked(r, e) \/ Retried(r, e) \/ GaveUp(r, e)
  <1>1. CASE \E e \in ModelErrors : ModelFails(r, e)
    <2>1. PICK e \in ModelErrors : ModelFails(r, e)
      BY <1>1
    <2>2. e \in Errors /\ e # "unkeyed"
      BY DEF Errors, ModelErrors
    <2> QED
      BY <2>1, <2>2 DEF ModelFails, Fails, Asked, Retried, GaveUp
  <1>2. CASE ModelLacksKey(r)
    <2>1. "unkeyed" \in Errors /\ ~FailsOver("unkeyed") /\ ~RetryOn("unkeyed")
      BY DEF Errors, FailsOver, RetryOn
    <2> QED
      BY <1>2, <2>1 DEF ModelLacksKey, Fails, Retry, GaveUp
  <1>3. CASE NodeBreaks(r)
    <2>1. PICK e \in {"unlisted", "node_timeout"} : at[r] # "idle" /\ Fails(r, e)
      BY <1>3 DEF NodeBreaks
    <2>2. e \in Errors /\ ~FailsOver(e) /\ e # "unkeyed"
      BY DEF Errors, FailsOver
    <2> QED
      BY <2>1, <2>2 DEF Fails, Retried, GaveUp
  <1> QED
    BY <1>1, <1>2, <1>3 DEF NodeStep

\* Every step of a node writes one message, or begins a new try.
LEMMA NodeSteps ==
    ASSUME TurnTypes, NEW r \in Runs, NodeStep(r)
    PROVE  \/ \E m \in Message, next \in {"agent", "tools", "hitl_node", "end"} :
                \E S \in {{}} \cup {Failed(r, e) : e \in Errors} : Wrote(r, m, next, S)
           \/ \E e \in Errors : Asked(r, e) \/ Retried(r, e)
  <1> DEFINE Writes == \E m \in Message, next \in {"agent", "tools", "hitl_node", "end"} :
                \E S \in {{}} \cup {Failed(r, e) : e \in Errors} : Wrote(r, m, next, S)
             said(kind) == [kind |-> kind, turn |-> own[r].turn]
  <1>1. own[r].turn \in 0 .. MaxTurns /\ mine[r].audio \in 0 .. MaxTurns
    BY DEF TurnTypes, Request, Copy
  <1>2. ASSUME NEW kind \in {"human", "calls", "tools", "note", "reply", "apology"}
        PROVE  /\ said(kind) \in Message /\ said(kind).kind = kind
               /\ said(kind).turn = own[r].turn
               /\ Says(r, kind) = Append(mine[r].history, said(kind))
    BY <1>1, <1>2 DEF Message, Says
  <1>3. mine[r].history \in Seq(Message)
    BY DEF TurnTypes, Copy
  <1> HIDE DEF said
  <1>4. CASE Transcribes(r)
    <2> DEFINE m == [kind |-> "transcript", turn |-> mine[r].audio]
    <2>1. m \in Message /\ m.kind = "transcript"
      BY <1>1 DEF Message
    <2>2. /\ at[r] = "transcription" /\ NewNode(r, {})
          /\ Leaves(r, Append(mine[r].history, m), "agent")
      BY <1>4 DEF Transcribes, MovesOn, FreshNode
    <2> HIDE DEF m
    <2>3. Wrote(r, m, "agent", {})
      BY <2>1, <2>2 DEF Wrote
    <2> QED  BY <2>1, <2>3
  <1>5. ASSUME NEW kind \in {"human", "calls", "tools", "note", "reply"},
               NEW next \in {"agent", "tools", "hitl_node", "end"},
               at[r] # "idle", MovesOn(r, Says(r, kind), next),
               kind = "calls" <=> next = "tools",
               next = "tools" => rounds[r] < MaxRounds,
               next = "end" => kind = "reply"
        PROVE  Writes
    <2>1. /\ said(kind) \in Message /\ said(kind).kind = kind
          /\ said(kind).turn = own[r].turn
          /\ Says(r, kind) = Append(mine[r].history, said(kind))
      BY <1>2, <1>5
    <2>2. Wrote(r, said(kind), next, {})
      BY <1>5, <2>1 DEF Wrote, MovesOn, FreshNode
    <2> QED  BY <1>5, <2>1, <2>2
  <1>6. ASSUME NEW kind \in {"calls", "reply"}
        PROVE  RouteAfterAgent(Says(r, kind)) = IF kind = "calls" THEN "tools" ELSE "end"
    <2>1. /\ said(kind).kind = kind /\ said(kind) \in Message
          /\ Says(r, kind) = Append(mine[r].history, said(kind))
      BY <1>2, <1>6
    <2>2. Says(r, kind)[Len(Says(r, kind))] = said(kind)
      BY <1>3, <2>1
    <2> QED  BY <2>1, <2>2 DEF RouteAfterAgent
  <1>7. CASE ModelAnswers(r)
    <2>1. at[r] = "agent" /\ MovesOn(r, Says(r, "reply"), "end")
      BY <1>6, <1>7 DEF ModelAnswers
    <2> QED  BY <1>5, <2>1
  <1>8. CASE ModelCallsTools(r)
    <2>1. at[r] = "agent" /\ MovesOn(r, Says(r, "calls"), "tools") /\ rounds[r] < MaxRounds
      BY <1>6, <1>8 DEF ModelCallsTools
    <2> QED  BY <1>5, <2>1
  <1>9. CASE ToolsReturn(r)
    BY <1>5, <1>9 DEF ToolsReturn
  <1>10. CASE HumanDecided(r)
    BY <1>5, <1>10 DEF HumanDecided
  <1>11. ASSUME NEW e \in Errors, GaveUp(r, e)
         PROVE  Writes
    <2>1. PICK next \in {"agent", "end"} : Leaves(r, Says(r, "apology"), next)
      BY <1>11 DEF GaveUp, GiveUp
    <2>2. /\ said("apology") \in Message /\ said("apology").kind = "apology"
          /\ said("apology").turn = own[r].turn
          /\ Says(r, "apology") = Append(mine[r].history, said("apology"))
      BY <1>2
    <2>3. at[r] # "idle" /\ NewNode(r, Failed(r, e))
      BY <1>11 DEF GaveUp, GiveUp
    <2>4. Wrote(r, said("apology"), next, Failed(r, e))
      BY <2>1, <2>2, <2>3 DEF Wrote
    <2> QED  BY <2>2, <2>4
  <1> QED
    BY <1>4, <1>7, <1>8, <1>9, <1>10, <1>11, FailuresOfANode

-----------------------------------------------------------------------------
(***************************************************************************)
(* Types.                                                                  *)
(***************************************************************************)
\* _last_ai_content returns words of a turn, and after an answer or an apology
\* it returns these.
LEMMA LastWords ==
    ASSUME NEW h \in Seq(Message)
    PROVE  /\ LastAIContent(h) \in 0 .. MaxTurns
           /\ \A m \in Message : m.kind \in {"reply", "apology"} =>
                LastAIContent(Append(h, m)) = m.turn
  <1> USE AgentTurnAssumption
  <1>1. ASSUME NEW g \in Seq(Message),
               NEW i \in DOMAIN g, g[i].kind \in {"reply", "note", "apology"},
               \A j \in DOMAIN g : g[j].kind \in {"reply", "note", "apology"} => j <= i
        PROVE  LastAIContent(g) = g[i].turn
    <2> DEFINE said == {k \in DOMAIN g : g[k].kind \in {"reply", "note", "apology"}}
    <2>1. i \in said /\ \A j \in said : j <= i
      BY <1>1
    <2>2. said \subseteq Nat
      OBVIOUS
    <2>3. LastAIContent(g) = g[CHOOSE k \in said : \A j \in said : j <= k].turn
      BY <2>1 DEF LastAIContent
    <2> HIDE DEF said
    <2>4. (CHOOSE k \in said : \A j \in said : j <= k) = i
      <3> DEFINE last == CHOOSE k \in said : \A j \in said : j <= k
      <3>1. last \in said /\ \A j \in said : j <= last
        BY <2>1
      <3> HIDE DEF last
      <3>2. last <= i /\ i <= last /\ last \in Nat /\ i \in Nat
        BY <2>1, <2>2, <3>1
      <3>3. last = i
        BY <3>2
      <3> QED  BY <3>3 DEF last
    <2> QED  BY <2>3, <2>4
  <1>2. LastAIContent(h) \in 0 .. MaxTurns
    <2> DEFINE said == {k \in DOMAIN h : h[k].kind \in {"reply", "note", "apology"}}
    <2>1. CASE said = {}
      BY <2>1 DEF LastAIContent
    <2>2. CASE said # {}
      <3>1. Len(h) \in Nat /\ said \in SUBSET (1 .. Len(h))
        OBVIOUS
      <3>2. PICK i \in said : \A j \in said : j <= i
        BY <2>2, <3>1, LastPosition
      <3>3. LastAIContent(h) = h[i].turn
        BY <1>1, <3>2
      <3>4. h[i] \in Message
        BY <3>2
      <3> QED  BY <3>3, <3>4 DEF Message
    <2> QED  BY <2>1, <2>2
  <1>3. ASSUME NEW m \in Message, m.kind \in {"reply", "apology"}
        PROVE  LastAIContent(Append(h, m)) = m.turn
    <2> DEFINE g == Append(h, m)
    <2>1. /\ g \in Seq(Message) /\ Len(h) + 1 \in DOMAIN g
          /\ g[Len(h) + 1] = m
          /\ \A j \in DOMAIN g : j <= Len(h) + 1
      OBVIOUS
    <2> HIDE DEF g
    <2>2. LastAIContent(g) = m.turn
      BY <1>1, <1>3, <2>1
    <2> QED  BY <2>2 DEF g
  <1> QED  BY <1>2, <1>3

\* The types that TurnTypes leaves out.
NodeTypes ==
    /\ conf \in Config
    /\ saved \in [history : Seq(Message), audio : 0 .. MaxTurns, next : Nodes \cup {"end"}]
    /\ rounds \in [Runs -> 0 .. MaxRounds]
    /\ attempt \in [Runs -> 1 .. MaxAttempts]
    /\ asked \in [Runs -> 1 .. Cardinality(Models)]
    /\ seen \in [Runs -> SUBSET ((1 .. MaxAttempts) \X (1 .. Cardinality(Models)) \X Errors)]
    /\ reply \in [Runs -> 0 .. MaxTurns]

\* The two halves of the type invariant.
LEMMA TypesTogether == TypeOK <=> TurnTypes /\ NodeTypes
  BY DEF TypeOK, TurnTypes, NodeTypes

\* There is a model, so that the first of the chain can be asked.
LEMMA FirstCounts ==
    /\ 1 \in 1 .. MaxAttempts
    /\ 1 \in 1 .. Cardinality(Models)
    /\ Cardinality(Models) \in Nat
    /\ 0 \in 0 .. MaxRounds
    /\ 0 \in 0 .. MaxTurns
  <1> USE AgentTurnAssumption
  <1>1. Cardinality(Models) \in Nat
    BY FS_CardinalityType
  <1>2. Cardinality(Models) # 0
    BY FS_EmptySet
  <1> QED  BY <1>1, <1>2

\* What is noted of a failure has its type.
LEMMA FailedType ==
    ASSUME TypeOK, NEW r \in Runs, NEW e \in Errors
    PROVE  Failed(r, e) \subseteq (1 .. MaxAttempts) \X (1 .. Cardinality(Models)) \X Errors
  BY DEF Failed, TypeOK

\* What a node begins with has its type.
LEMMA NewNodeType ==
    ASSUME TypeOK, NEW r \in Runs, NEW S, NewNode(r, S),
           S \subseteq (1 .. MaxAttempts) \X (1 .. Cardinality(Models)) \X Errors
    PROVE  /\ attempt' \in [Runs -> 1 .. MaxAttempts]
           /\ asked' \in [Runs -> 1 .. Cardinality(Models)]
           /\ seen' \in [Runs -> SUBSET ((1 .. MaxAttempts) \X (1 .. Cardinality(Models))
                                            \X Errors)]
  BY FirstCounts DEF TypeOK, NewNode

\* So has all that a node step changes in its run's position.
LEMMA NodeStepType ==
    ASSUME TypeOK, NEW r \in Runs, NodeStep(r)
    PROVE  NodeTypes'
  <1> USE AgentTurnAssumption
  <1>1. TurnTypes
    BY TypesTogether
  <1>2. ASSUME NEW m \in Message, NEW next \in {"agent", "tools", "hitl_node", "end"},
               NEW S \in {{}} \cup {Failed(r, e) : e \in Errors},
               Wrote(r, m, next, S)
        PROVE  NodeTypes'
    <2> DEFINE h == Append(mine[r].history, m)
    <2>1. /\ mine[r].history \in Seq(Message) /\ mine[r].audio \in 0 .. MaxTurns
          /\ h \in Seq(Message)
      BY DEF TypeOK, Copy
    <2> HIDE DEF h
    <2>2. Leaves(r, h, next) /\ NewNode(r, S) /\ (next = "tools" => rounds[r] < MaxRounds)
      BY <1>2 DEF Wrote, h
    <2>3. S \subseteq (1 .. MaxAttempts) \X (1 .. Cardinality(Models)) \X Errors
      BY FailedType
    <2>4. conf' \in Config
          /\ saved' \in [history : Seq(Message), audio : 0 .. MaxTurns, next : Nodes \cup {"end"}]
      BY <2>1, <2>2 DEF Leaves, TypeOK, Nodes
    <2>5. rounds' \in [Runs -> 0 .. MaxRounds]
      <3>1. rounds[r] \in 0 .. MaxRounds /\ (next = "tools" => rounds[r] + 1 \in 0 .. MaxRounds)
        BY <2>2 DEF TypeOK
      <3>2. PICK k \in 0 .. MaxRounds : rounds' = [rounds EXCEPT ![r] = k]
        <4>1. CASE next \in {"end", "hitl_node"}
          BY <2>2, <4>1, FirstCounts DEF Leaves
        <4>2. CASE next = "tools"
          BY <2>2, <3>1, <4>2 DEF Leaves
        <4>3. CASE next = "agent"
          BY <2>2, <3>1, <4>3 DEF Leaves
        <4> QED  BY <4>1, <4>2, <4>3
      <3> QED  BY <3>2 DEF TypeOK
    <2>6. reply' \in [Runs -> 0 .. MaxTurns]
      <3>1. LastAIContent(h) \in 0 .. MaxTurns
        BY <2>1, LastWords
      <3>2. CASE next \in {"end", "hitl_node"}
        <4>1. reply' = [reply EXCEPT ![r] = LastAIContent(h)]
          BY <2>2, <3>2 DEF Leaves
        <4> QED  BY <3>1, <4>1 DEF TypeOK
      <3>3. CASE next \notin {"end", "hitl_node"}
        BY <2>2, <3>3 DEF Leaves, TypeOK
      <3> QED  BY <3>2, <3>3
    <2> QED  BY <2>2, <2>3, <2>4, <2>5, <2>6, NewNodeType DEF NodeTypes
  <1>3. ASSUME NEW e \in Errors, Asked(r, e) \/ Retried(r, e)
        PROVE  NodeTypes'
    <2>1. Failed(r, e) \subseteq (1 .. MaxAttempts) \X (1 .. Cardinality(Models)) \X Errors
      BY FailedType
    <2>2. seen' = [seen EXCEPT ![r] = Failed(r, e)]
          /\ UNCHANGED <<conf, saved, rounds, reply>>
      BY <1>3 DEF Asked, Retried, AskNext, Retry
    <2>3. seen' \in [Runs -> SUBSET ((1 .. MaxAttempts) \X (1 .. Cardinality(Models)) \X Errors)]
      BY <2>1, <2>2 DEF TypeOK
    <2>4. attempt' \in [Runs -> 1 .. MaxAttempts]
      <3>1. CASE Asked(r, e)
        BY <3>1 DEF Asked, AskNext, TypeOK
      <3>2. CASE Retried(r, e)
        <4>1. attempt[r] + 1 \in 1 .. MaxAttempts /\ attempt' = [attempt EXCEPT ![r] = @ + 1]
          BY <3>2 DEF Retried, Retry, TypeOK
        <4> QED  BY <4>1 DEF TypeOK
      <3> QED  BY <1>3, <3>1, <3>2
    <2>5. asked' \in [Runs -> 1 .. Cardinality(Models)]
      <3>1. CASE Asked(r, e)
        <4>1. Len(Chain(conf)) \in 1 .. Cardinality(Models) /\ Cardinality(Models) \in Nat
          BY ChainIsChain DEF TypeOK
        <4>2. asked[r] + 1 \in 1 .. Cardinality(Models)
          BY <3>1, <4>1 DEF Asked, AskNext, TypeOK
        <4> QED  BY <3>1, <4>2 DEF Asked, AskNext, TypeOK
      <3>2. CASE Retried(r, e)
        BY <3>2, FirstCounts DEF Retried, Retry, TypeOK
      <3> QED  BY <1>3, <3>1, <3>2
    <2> QED  BY <2>2, <2>3, <2>4, <2>5 DEF NodeTypes, TypeOK
  <1> QED  BY <1>1, <1>2, <1>3, NodeSteps

\* So has all that any step changes.
LEMMA StepType ==
    ASSUME TypeOK, TurnTypes', [Next]_vars
    PROVE  TypeOK'
  <1> SUFFICES NodeTypes'
      BY TypesTogether DEF TypeOK, TurnTypes, NodeTypes
  <1> USE AgentTurnAssumption
  <1>1. ASSUME NEW r \in Runs, NEW endpoint, NEW text, NEW recorded,
               Start(r, endpoint, text, recorded)
        PROVE  NodeTypes'
    <2>1. NewNode(r, {}) /\ UNCHANGED <<conf, rounds>>
          /\ reply' = [reply EXCEPT ![r] = 0]
      BY <1>1 DEF Start, FreshNode
    <2>2. saved' = [history |-> saved'.history, audio |-> saved'.audio, next |-> saved'.next]
      BY <1>1 DEF Start
    <2>3. saved' \in [history : Seq(Message), audio : 0 .. MaxTurns, next : Nodes \cup {"end"}]
      BY <2>2 DEF TurnTypes
    <2> QED  BY <2>1, <2>3, NewNodeType, FirstCounts DEF NodeTypes, TypeOK
  <1>2. ASSUME NEW r \in Runs, NEW endpoint, Resume(r, endpoint)
        PROVE  NodeTypes'
    <2>1. NewNode(r, {}) /\ UNCHANGED <<conf, saved, rounds>>
          /\ reply' = [reply EXCEPT ![r] = 0]
      BY <1>2 DEF Resume, FreshNode
    <2> QED  BY <2>1, NewNodeType, FirstCounts DEF NodeTypes, TypeOK
  <1>3. ASSUME NEW r \in Runs, Cancel(r)
        PROVE  NodeTypes'
    <2>1. NewNode(r, {}) /\ UNCHANGED <<conf, saved, reply>>
          /\ rounds' = [rounds EXCEPT ![r] = 0]
      BY <1>3 DEF Cancel, FreshNode
    <2> QED  BY <2>1, NewNodeType, FirstCounts DEF NodeTypes, TypeOK
  <1>4. CASE Restart
    <2>1. <<>> \in Seq(Message)
      OBVIOUS
    <2> QED  BY <1>4, <2>1, FirstCounts DEF Restart, NodeTypes, TypeOK
  <1>5. CASE UNCHANGED vars
    BY <1>5 DEF vars, node, NodeTypes, TypeOK
  <1> QED  BY <1>1, <1>2, <1>3, <1>4, <1>5, NodeStepType DEF Next

\* The types of copies and requests, and Hears, hold in every reachable state.
LEMMA TurnInvariant == Spec => []TurnInv
  BY TurnInvInductive, PTL DEF Spec

\* At the start every run is idle and has tried nothing.
LEMMA TypeInitially == Init => TypeOK
  <1> SUFFICES ASSUME Init  PROVE NodeTypes
      BY TypesTogether, TurnInvInductive DEF TurnInv
  <1>1. <<>> \in Seq(Message)
    OBVIOUS
  <1> QED  BY <1>1, FirstCounts DEF Init, NodeTypes

\* Type correctness: whatever is retried, no attempt is counted beyond the
\* policy's and no model asked beyond the failover chain, whose length
\* no configuration makes greater than the number of models.
THEOREM TurnTypeCorrect == Spec => []TypeOK
  <1>1. TurnInv' /\ TypeOK /\ [Next]_vars => TypeOK'
    BY StepType DEF TurnInv
  <1> QED  BY <1>1, TypeInitially, TurnInvariant, PTL DEF Spec

-----------------------------------------------------------------------------
(***************************************************************************)
(* What a step writes.                                                     *)
(***************************************************************************)
\* The words with which a turn returns were said in that turn, whatever the
\* other runs of the conversation have written in the meantime.
THEOREM AnswerIsOwnHolds == Spec => AnswerIsOwn
  <1> USE AgentTurnAssumption
  <1>1. ASSUME TypeOK, [Next]_vars, NEW r \in Runs,
               at[r] # "idle", at'[r] = "idle", saved' # saved, saved'.next = "end",
               turns' = turns, saved'.history # <<>>
        PROVE  reply'[r] = own[r].turn
    <2>0. TurnTypes /\ reply \in [Runs -> 0 .. MaxTurns]
      BY <1>1, TypesTogether DEF NodeTypes
    <2>1. ASSUME NEW q \in Runs, NEW m \in Message,
                 NEW next \in {"agent", "tools", "hitl_node", "end"}, NEW S,
                 Wrote(q, m, next, S)
          PROVE  reply'[r] = own[r].turn
      <3> DEFINE h == Append(mine[q].history, m)
      <3>1. Leaves(q, h, next)
        BY <2>1 DEF Wrote
      <3> HIDE DEF h
      <3>2. next = "end"
        BY <1>1, <3>1 DEF Leaves
      <3>3. q = r
        BY <1>1, <2>0, <3>1, <3>2 DEF Leaves, TurnTypes
      <3>4. m.turn = own[r].turn /\ m.kind \in {"reply", "apology"}
        BY <2>1, <3>2, <3>3 DEF Wrote
      <3>5. mine[q].history \in Seq(Message)
        BY <2>0 DEF TurnTypes, Copy
      <3>6. LastAIContent(h) = m.turn
        BY <3>4, <3>5, LastWords DEF h
      <3>7. reply' = [reply EXCEPT ![r] = LastAIContent(h)]
        BY <3>1, <3>2, <3>3 DEF Leaves
      <3> QED  BY <2>0, <3>4, <3>6, <3>7
    <2>2. ASSUME NEW q \in Runs, NodeStep(q)
          PROVE  reply'[r] = own[r].turn
      <3>1. CASE \E e \in Errors : Asked(q, e) \/ Retried(q, e)
        BY <1>1, <3>1 DEF Asked, Retried, AskNext, Retry
      <3> QED  BY <2>0, <2>1, <2>2, <3>1, NodeSteps
    <2>3. ASSUME NEW q \in Runs, NEW endpoint, NEW text, NEW recorded,
                 Start(q, endpoint, text, recorded) \/ Resume(q, endpoint)
          PROVE  FALSE
      BY <1>1, <2>0, <2>3 DEF Start, Resume, TurnTypes
    <2>4. ASSUME NEW q \in Runs, Cancel(q)
          PROVE  FALSE
      BY <1>1, <2>4 DEF Cancel
    <2>5. CASE Restart
      BY <1>1, <2>5 DEF Restart
    <2>6. CASE UNCHANGED vars
      BY <1>1, <2>6 DEF vars
    <2> QED  BY <1>1, <2>2, <2>3, <2>4, <2>5, <2>6 DEF Next
  <1>2. TypeOK /\ [Next]_vars =>
          [\A r \in Runs :
              at[r] # "idle" /\ at'[r] = "idle" /\ saved' # saved /\ saved'.next = "end"
              /\ turns' = turns /\ saved'.history # <<>> =>
                  reply'[r] = own[r].turn]_vars
    BY <1>1
  <1> QED  BY <1>2, TurnTypeCorrect, PTL DEF Spec, AnswerIsOwn

\* Calls that get their results may be followed by anything but calls; and
\* calls alone are without them.
LEMMA CallsAtTheEnd ==
    ASSUME NEW h \in Seq(Message), NEW m \in Message, Accepts(h)
    PROVE  /\ m.kind # "calls" => Accepts(Append(h, m))
           /\ SubSeq(Append(h, m), 1, Len(Append(h, m)) - 1) = h
  <1> DEFINE g == Append(h, m)
  <1>1. /\ g \in Seq(Message) /\ Len(g) = Len(h) + 1 /\ Len(h) \in Nat
        /\ DOMAIN g = 1 .. Len(h) + 1 /\ DOMAIN h = 1 .. Len(h)
        /\ g[Len(h) + 1] = m
        /\ \A i \in 1 .. Len(h) : g[i] = h[i]
    OBVIOUS
  <1> HIDE DEF g
  <1>2. ASSUME m.kind # "calls", NEW i \in DOMAIN g, g[i].kind = "calls"
        PROVE  i < Len(g) /\ g[i + 1].kind = "tools"
    <2>1. i \in DOMAIN h /\ h[i].kind = "calls"
      BY <1>1, <1>2
    <2>2. i < Len(h) /\ h[i + 1].kind = "tools"
      BY <2>1 DEF Accepts
    <2>3. i + 1 \in 1 .. Len(h)
      BY <1>1, <2>1, <2>2
    <2> QED  BY <1>1, <2>2, <2>3
  <1>3. m.kind # "calls" => Accepts(g)
    BY <1>2 DEF Accepts
  <1>4. SubSeq(g, 1, Len(g) - 1) = h
    <2> DEFINE f == SubSeq(g, 1, Len(g) - 1)
    <2>1. Len(g) - 1 = Len(h) /\ 1 \in Nat /\ Len(h) <= Len(g)
      BY <1>1
    <2>2. f \in Seq(Message) /\ Len(f) = Len(h) /\ \A i \in 1 .. Len(h) : f[i] = g[i]
      BY <1>1, <2>1
    <2> HIDE DEF f
    <2>3. f = h
      BY <1>1, <2>2
    <2> QED  BY <2>3 DEF f
  <1> QED  BY <1>3, <1>4 DEF g

\* No step of a node, no new message between the nodes, no cancelled run and
\* no restart leaves calls without results: only a message that arrives, or an
\* apology, while a tools step is unfinished does.
THEOREM CallsDangleOnlyWhenCutHolds == Spec => CallsDangleOnlyWhenCut
  <1> USE AgentTurnAssumption
  <1>1. ASSUME TurnTypes, [Next]_vars,
               ~Dangles(saved, saved.next), saved.next # "tools",
               \A r \in Runs : Accepts(mine[r].history)
        PROVE  ~Dangles(saved', saved'.next)
    <2>0. Accepts(saved.history) /\ saved.history \in Seq(Message)
      BY <1>1 DEF Dangles, TurnTypes
    <2>1. ASSUME NEW q \in Runs, NEW m \in Message,
                 NEW next \in {"agent", "tools", "hitl_node", "end"}, NEW S,
                 Wrote(q, m, next, S)
          PROVE  ~Dangles(saved', saved'.next)
      <3> DEFINE h == Append(mine[q].history, m)
      <3>1. mine[q].history \in Seq(Message) /\ Accepts(mine[q].history)
        BY <1>1 DEF TurnTypes, Copy
      <3>2. /\ m.kind # "calls" => Accepts(h)
            /\ SubSeq(h, 1, Len(h) - 1) = mine[q].history
        BY <3>1, CallsAtTheEnd
      <3>3. Leaves(q, h, next) /\ (m.kind = "calls" <=> next = "tools")
        BY <2>1 DEF Wrote
      <3> HIDE DEF h
      <3>4. saved'.history = h /\ saved'.next = next
        BY <3>3 DEF Leaves
      <3> QED  BY <3>1, <3>2, <3>3, <3>4 DEF Dangles
    <2>2. ASSUME NEW q \in Runs, NodeStep(q)
          PROVE  ~Dangles(saved', saved'.next)
      <3>1. CASE \E e \in Errors : Asked(q, e) \/ Retried(q, e)
        BY <1>1, <3>1 DEF Asked, Retried, AskNext, Retry
      <3> QED  BY <1>1, <2>1, <2>2, <3>1, NodeSteps
    <2>3. ASSUME NEW q \in Runs, NEW endpoint, NEW text \in BOOLEAN, NEW recorded \in BOOLEAN,
                 Start(q, endpoint, text, recorded)
          PROVE  ~Dangles(saved', saved'.next)
      <3> DEFINE m == [kind |-> "human", turn |-> turns + 1]
                 h == saved.history \o (IF text THEN <<m>> ELSE <<>>)
      <3>1. saved'.history = h
        BY <2>3 DEF Start
      <3>2. m \in Message /\ m.kind # "calls"
        BY <1>1, <2>3 DEF Start, TurnTypes, Message
      <3> HIDE DEF m
      <3>3. h = IF text THEN Append(saved.history, m) ELSE saved.history
        <4>1. saved.history \o <<>> = saved.history
          BY <2>0
        <4>2. saved.history \o <<m>> = Append(saved.history, m)
          BY <2>0, <3>2, AppendIsConcat
        <4> QED  BY <4>1, <4>2
      <3>4. Accepts(h)
        BY <2>0, <3>2, <3>3, CallsAtTheEnd
      <3> QED  BY <3>1, <3>4 DEF Dangles
    <2>4. ASSUME NEW q \in Runs, NEW endpoint, Resume(q, endpoint) \/ Cancel(q)
          PROVE  ~Dangles(saved', saved'.next)
      BY <1>1, <2>4 DEF Resume, Cancel
    <2>5. CASE Restart
      BY <2>5 DEF Restart, Dangles, Accepts
    <2>6. CASE UNCHANGED vars
      BY <1>1, <2>6 DEF vars
    <2> QED  BY <1>1, <2>2, <2>3, <2>4, <2>5, <2>6 DEF Next
  <1>2. TurnInv /\ [Next]_vars =>
          [Dangles(saved', saved'.next) =>
              \/ Dangles(saved, saved.next) \/ saved.next = "tools"
              \/ \E r \in Runs : ~Accepts(mine[r].history)]_vars
    BY <1>1 DEF TurnInv
  <1> QED  BY <1>2, TurnInvariant, PTL DEF Spec, CallsDangleOnlyWhenCut

-----------------------------------------------------------------------------
(***************************************************************************)
(* What was tried before a user is told that the service is not available. *)
(* Positions of the chain are asked one after the other, so those before   *)
(* the one that is asked have failed in this attempt; and an attempt ends  *)
(* only after the last of them, or with a failure of another kind.         *)
(***************************************************************************)
TriedIn(r) ==
    /\ asked[r] \in DOMAIN Chain(conf)
    /\ at[r] = "agent" =>
        /\ \A n \in 1 .. attempt[r] - 1 : TriedAll(seen[r], n) \/ CutShort(seen[r], n)
        /\ \A i \in 1 .. asked[r] - 1 :
              \E e \in {"server_error", "connection"} : <<attempt[r], i, e>> \in seen[r]

\* The runs that are going on serve turns of their own.
TurnsAreOwn ==
    /\ \A r \in Runs : at[r] # "idle" => own[r].turn \in 1 .. turns
    /\ \A r, q \in Runs :
          at[r] # "idle" /\ at[q] # "idle" /\ own[r].turn = own[q].turn => r = q

\* A turn that has ended is over: no run that goes on serves it.
EndedByAnother ==
    saved.next = "end" /\ saved.history # <<>> =>
        \A r \in Runs : at[r] # "idle" =>
            saved.history[Len(saved.history)].turn # own[r].turn

TriedInv == TurnsAreOwn /\ EndedByAnother /\ \A r \in Runs : TriedIn(r)

\* Failures are not forgotten while a node is tried.
LEMMA FailedStays ==
    ASSUME NEW r \in Runs, NEW e, NEW n
    PROVE  /\ TriedAll(seen[r], n) => TriedAll(Failed(r, e), n)
           /\ CutShort(seen[r], n) => CutShort(Failed(r, e), n)
           /\ <<attempt[r], asked[r], e>> \in Failed(r, e)
           /\ seen[r] \subseteq Failed(r, e)
  BY DEF TriedAll, CutShort, Failed

\* An attempt of the agent that ends with a failure after which another could
\* help, has tried every model of the chain or was cut short.
LEMMA AttemptIsOver ==
    ASSUME TypeOK, NEW r \in Runs, TriedIn(r), at[r] = "agent", NEW e \in Errors,
           RetryOn(e), ~(FailsOver(e) /\ asked[r] < Len(Chain(conf)))
    PROVE  \A n \in 1 .. attempt[r] : TriedAll(Failed(r, e), n) \/ CutShort(Failed(r, e), n)
  <1> USE AgentTurnAssumption
  <1>1. /\ DOMAIN Chain(conf) = 1 .. Len(Chain(conf)) /\ Len(Chain(conf)) \in Nat
        /\ asked[r] \in DOMAIN Chain(conf) /\ attempt[r] \in Nat
    BY ChainIsChain DEF TriedIn, IsChain, TypeOK
  <1>2. ASSUME NEW n \in 1 .. attempt[r], n # attempt[r]
        PROVE  TriedAll(Failed(r, e), n) \/ CutShort(Failed(r, e), n)
    <2>1. n \in 1 .. attempt[r] - 1
      BY <1>1, <1>2
    <2> QED  BY <2>1, FailedStays DEF TriedIn
  <1>3. CASE e \in {"server_error", "connection"}
    <2>1. asked[r] = Len(Chain(conf))
      BY <1>1, <1>3 DEF FailsOver
    <2>2. ASSUME NEW i \in DOMAIN Chain(conf)
          PROVE  \E d \in {"server_error", "connection"} : <<attempt[r], i, d>> \in Failed(r, e)
      <3>1. CASE i = asked[r]
        BY <1>3, <3>1, FailedStays
      <3>2. CASE i # asked[r]
        <4>1. i \in 1 .. asked[r] - 1
          BY <1>1, <2>1, <3>2
        <4> QED  BY <4>1, FailedStays DEF TriedIn
      <3> QED  BY <3>1, <3>2
    <2> QED  BY <1>2, <2>2 DEF TriedAll
  <1>4. CASE e \notin {"server_error", "connection"}
    <2>1. e \in {"unlisted", "node_timeout"}
      BY <1>4 DEF RetryOn
    <2>2. CutShort(Failed(r, e), attempt[r])
      BY <1>1, <2>1, FailedStays DEF CutShort
    <2> QED  BY <1>2, <2>2
  <1> QED  BY <1>3, <1>4

\* A run that begins a node has asked nobody.
LEMMA NewNodeTried ==
    ASSUME TypeOK, conf' = conf, NEW r \in Runs, NEW S, NewNode(r, S),
           \A q \in Runs \ {r} : TriedIn(q), \A q \in Runs \ {r} : at'[q] = at[q]
    PROVE  \A q \in Runs : TriedIn(q)'
  <1>1. attempt'[r] = 1 /\ asked'[r] = 1
    BY DEF NewNode, TypeOK
  <1>2. 1 \in DOMAIN Chain(conf)
    BY ChainIsChain DEF IsChain, TypeOK
  <1>3. TriedIn(r)'
    BY <1>1, <1>2 DEF TriedIn
  <1>4. ASSUME NEW q \in Runs \ {r}
        PROVE  TriedIn(q)'
    <2>1. attempt'[q] = attempt[q] /\ asked'[q] = asked[q] /\ seen'[q] = seen[q]
          /\ at'[q] = at[q]
      BY DEF NewNode, TypeOK
    <2>2. TriedIn(q)
      BY <1>4
    <2> QED  BY <2>1, <2>2 DEF TriedIn, TriedAll, CutShort
  <1> QED  BY <1>3, <1>4

\* Asking the next model, or trying the node again, leaves behind a failure in
\* the position it comes from.
LEMMA AskedTried ==
    ASSUME TypeOK, NEW r \in Runs, NEW e \in Errors, Asked(r, e) \/ Retried(r, e),
           \A q \in Runs : TriedIn(q)
    PROVE  \A q \in Runs : TriedIn(q)'
  <1> USE AgentTurnAssumption
  <1>1. seen' = [seen EXCEPT ![r] = Failed(r, e)] /\ conf' = conf /\ at' = at
    BY DEF Asked, Retried, AskNext, Retry
  <1>2. ASSUME NEW q \in Runs \ {r}
        PROVE  TriedIn(q)'
    <2>1. attempt'[q] = attempt[q] /\ asked'[q] = asked[q] /\ seen'[q] = seen[q]
          /\ at'[q] = at[q]
      BY <1>1 DEF Asked, Retried, AskNext, Retry, TypeOK
    <2>2. TriedIn(q)
      BY <1>2
    <2> QED  BY <1>1, <2>1, <2>2 DEF TriedIn, TriedAll, CutShort
  <1>3. seen'[r] = Failed(r, e) /\ asked[r] \in Nat /\ attempt[r] \in Nat
    BY <1>1 DEF TypeOK
  <1>4. DOMAIN Chain(conf) = 1 .. Len(Chain(conf)) /\ Len(Chain(conf)) \in Nat
        /\ 1 \in DOMAIN Chain(conf)
    BY ChainIsChain DEF IsChain, TypeOK
  <1>5. CASE Asked(r, e)
    <2>1. /\ asked'[r] = asked[r] + 1 /\ attempt'[r] = attempt[r]
          /\ FailsOver(e) /\ asked[r] < Len(Chain(conf)) /\ at[r] = "agent"
      BY <1>5 DEF Asked, AskNext, TypeOK
    <2>2. asked[r] + 1 \in DOMAIN Chain(conf)
      BY <1>3, <1>4, <2>1
    <2>3. ASSUME NEW i \in 1 .. asked[r]
          PROVE  \E d \in {"server_error", "connection"} : <<attempt[r], i, d>> \in Failed(r, e)
      <3>1. CASE i = asked[r]
        BY <2>1, <3>1, FailedStays DEF FailsOver
      <3>2. CASE i # asked[r]
        <4>1. i \in 1 .. asked[r] - 1
          BY <1>3, <3>2
        <4> QED  BY <2>1, <4>1, FailedStays DEF TriedIn
      <3> QED  BY <3>1, <3>2
    <2>4. \A n \in 1 .. attempt[r] - 1 :
              TriedAll(Failed(r, e), n) \/ CutShort(Failed(r, e), n)
      BY <2>1, FailedStays DEF TriedIn
    <2>5. asked'[r] - 1 = asked[r]
      BY <1>3, <2>1
    <2>6. asked'[r] \in DOMAIN Chain(conf')
      BY <1>1, <2>1, <2>2
    <2>7. \A n \in 1 .. attempt'[r] - 1 : (TriedAll(seen[r], n) \/ CutShort(seen[r], n))'
      BY <1>1, <1>3, <2>1, <2>4 DEF TriedAll, CutShort
    <2>8. \A i \in 1 .. asked'[r] - 1 : \E d \in {"server_error", "connection"} :
              <<attempt'[r], i, d>> \in seen'[r]
      BY <1>3, <2>1, <2>3, <2>5
    <2>9. TriedIn(r)'
      BY <2>6, <2>7, <2>8 DEF TriedIn
    <2> QED  BY <1>2, <2>9
  <1>6. CASE Retried(r, e)
    <2>1. /\ asked'[r] = 1 /\ attempt'[r] = attempt[r] + 1 /\ RetryOn(e)
          /\ at[r] = "agent" => ~(FailsOver(e) /\ asked[r] < Len(Chain(conf)))
      BY <1>6 DEF Retried, Retry, TypeOK
    <2>2. at[r] = "agent" => \A n \in 1 .. attempt[r] :
              TriedAll(Failed(r, e), n) \/ CutShort(Failed(r, e), n)
      BY <2>1, AttemptIsOver
    <2>3. attempt'[r] - 1 = attempt[r] /\ 1 .. asked'[r] - 1 = {}
      BY <1>3, <2>1
    <2>4. asked'[r] \in DOMAIN Chain(conf')
      BY <1>1, <1>4, <2>1
    <2>5. at[r] = "agent" => \A n \in 1 .. attempt'[r] - 1 :
              (TriedAll(seen[r], n) \/ CutShort(seen[r], n))'
      BY <1>1, <1>3, <2>2, <2>3 DEF TriedAll, CutShort
    <2>6. TriedIn(r)'
      BY <1>1, <2>3, <2>4, <2>5 DEF TriedIn
    <2> QED  BY <1>2, <2>6
  <1> QED  BY <1>5, <1>6

\* No turn has ended and no node has tried anything.
LEMMA TriedInvInitially == Init => TriedInv
  <1> SUFFICES ASSUME Init  PROVE TriedInv
      OBVIOUS
  <1>1. TypeOK
    BY TypeInitially
  <1>2. 1 \in DOMAIN Chain(conf)
    BY <1>1, ChainIsChain DEF IsChain, TypeOK
  <1>3. \A r \in Runs : TriedIn(r)
    BY <1>2 DEF Init, TriedIn
  <1>4. TurnsAreOwn /\ EndedByAnother
    BY DEF Init, TurnsAreOwn, EndedByAnother
  <1> QED  BY <1>3, <1>4 DEF TriedInv

\* A message is written, and the run that wrote it may be over.
LEMMA WroteTried ==
    ASSUME TypeOK, TriedInv, NEW r \in Runs, NEW m \in Message,
           NEW next \in {"agent", "tools", "hitl_node", "end"}, NEW S,
           Wrote(r, m, next, S)
    PROVE  TriedInv'
  <1> DEFINE h == Append(mine[r].history, m)
  <1>1. Leaves(r, h, next) /\ NewNode(r, S) /\ at[r] # "idle"
        /\ (next = "end" => m.turn = own[r].turn)
    BY DEF Wrote
  <1>2. mine[r].history \in Seq(Message) /\ h[Len(h)] = m
    BY DEF TypeOK, Copy
  <1> HIDE DEF h
  <1>3. saved'.history = h /\ saved'.next = next /\ turns' = turns /\ conf' = conf
    BY <1>1 DEF Leaves
  <1>4. ASSUME NEW q \in Runs \ {r}
        PROVE  at'[q] = at[q] /\ own'[q] = own[q]
    <2>1. CASE next \in {"end", "hitl_node"}
      BY <1>1, <2>1 DEF Leaves, TypeOK
    <2>2. CASE next \notin {"end", "hitl_node"}
      BY <1>1, <2>2 DEF Leaves, TypeOK
    <2> QED  BY <2>1, <2>2
  <1>5. IF next \in {"end", "hitl_node"} THEN at'[r] = "idle" ELSE own'[r] = own[r]
    BY <1>1 DEF Leaves, TypeOK
  <1>6. TurnsAreOwn'
    BY <1>1, <1>3, <1>4, <1>5 DEF TriedInv, TurnsAreOwn
  <1>7. EndedByAnother'
    BY <1>1, <1>2, <1>3, <1>4, <1>5 DEF TriedInv, TurnsAreOwn, EndedByAnother
  <1>8. \A q \in Runs : TriedIn(q)'
    BY <1>1, <1>3, <1>4, NewNodeTried DEF TriedInv
  <1> QED  BY <1>6, <1>7, <1>8 DEF TriedInv

\* A turn is begun: it has a number of its own.
LEMMA BegunTried ==
    ASSUME TypeOK, TriedInv, NEW r \in Runs, NEW endpoint, NEW text, NEW recorded,
           Start(r, endpoint, text, recorded) \/ Resume(r, endpoint)
    PROVE  TriedInv'
  <1> USE AgentTurnAssumption
  <1>1. /\ at[r] = "idle" /\ turns' = turns + 1 /\ conf' = conf /\ turns \in Nat
        /\ FreshNode(r)
    BY DEF Start, Resume, TypeOK
  <1>2. own'[r].turn = turns + 1
    BY DEF Start, Resume, TypeOK
  <1>3. \A q \in Runs \ {r} : at'[q] = at[q] /\ own'[q] = own[q]
    BY DEF Start, Resume, TypeOK
  <1>4. saved'.next # "end"
    <2>1. CASE Start(r, endpoint, text, recorded)
      <3>1. PICK c : saved'.next = RouteStart(c)
        BY <2>1 DEF Start
      <3> QED  BY <3>1 DEF RouteStart
    <2>2. CASE Resume(r, endpoint)
      BY <2>2 DEF Resume
    <2> QED  BY <2>1, <2>2
  <1>5. \A q \in Runs : at[q] # "idle" => own[q].turn \in 1 .. turns
    BY DEF TriedInv, TurnsAreOwn
  <1>6. TurnsAreOwn'
    <2>1. ASSUME NEW q \in Runs, at'[q] # "idle"
          PROVE  own'[q].turn \in 1 .. turns'
      <3>1. CASE q = r
        BY <1>1, <1>2, <3>1
      <3>2. CASE q # r
        BY <1>1, <1>3, <1>5, <2>1, <3>2
      <3> QED  BY <3>1, <3>2
    <2>2. ASSUME NEW q \in Runs, NEW p \in Runs, at'[q] # "idle", at'[p] # "idle",
                 own'[q].turn = own'[p].turn
          PROVE  q = p
      <3>1. CASE q # r /\ p # r
        BY <1>3, <2>2, <3>1 DEF TriedInv, TurnsAreOwn
      <3>2. CASE q = r /\ p # r
        <4>1. own[p].turn \in 1 .. turns /\ own[p].turn = turns + 1
          BY <1>2, <1>3, <1>5, <2>2, <3>2
        <4> QED  BY <1>1, <4>1
      <3>3. CASE q # r /\ p = r
        <4>1. own[q].turn \in 1 .. turns /\ own[q].turn = turns + 1
          BY <1>2, <1>3, <1>5, <2>2, <3>3
        <4> QED  BY <1>1, <4>1
      <3> QED  BY <3>1, <3>2, <3>3
    <2> QED  BY <2>1, <2>2 DEF TurnsAreOwn
  <1>7. \A q \in Runs : TriedIn(q)'
    BY <1>1, <1>3, NewNodeTried DEF TriedInv, FreshNode
  <1> QED  BY <1>4, <1>6, <1>7 DEF TriedInv, EndedByAnother

\* Every step keeps the account of what was tried.
LEMMA TriedInvStep ==
    ASSUME TypeOK, TriedInv, [Next]_vars
    PROVE  TriedInv'
  <1>0. TurnTypes
    BY TypesTogether
  <1>1. ASSUME NEW r \in Runs, NodeStep(r)
        PROVE  TriedInv'
    <2>1. ASSUME NEW e \in Errors, Asked(r, e) \/ Retried(r, e)
          PROVE  TriedInv'
      <3>1. \A q \in Runs : TriedIn(q)'
        BY <2>1, AskedTried DEF TriedInv
      <3>2. UNCHANGED <<saved, turns, at, own>>
        BY <2>1 DEF Asked, Retried, AskNext, Retry
      <3> QED  BY <3>1, <3>2 DEF TriedInv, TurnsAreOwn, EndedByAnother
    <2> QED  BY <1>0, <1>1, <2>1, NodeSteps, WroteTried
  <1>2. ASSUME NEW r \in Runs, Cancel(r)
        PROVE  TriedInv'
    <2>1. /\ UNCHANGED <<conf, saved, turns>> /\ NewNode(r, {})
          /\ at'[r] = "idle" /\ \A q \in Runs \ {r} : at'[q] = at[q] /\ own'[q] = own[q]
      BY <1>2 DEF Cancel, FreshNode, TypeOK
    <2>2. \A q \in Runs : TriedIn(q)'
      BY <2>1, NewNodeTried DEF TriedInv
    <2>3. TurnsAreOwn' /\ EndedByAnother'
      BY <2>1 DEF TriedInv, TurnsAreOwn, EndedByAnother
    <2> QED  BY <2>2, <2>3 DEF TriedInv
  <1>3. CASE Restart
    <2>1. 1 \in DOMAIN Chain(conf)
      BY ChainIsChain DEF IsChain, TypeOK
    <2>2. \A q \in Runs : TriedIn(q)'
      BY <1>3, <2>1 DEF Restart, TriedIn
    <2>3. TurnsAreOwn' /\ EndedByAnother'
      BY <1>3 DEF Restart, TurnsAreOwn, EndedByAnother
    <2> QED  BY <2>2, <2>3 DEF TriedInv
  <1>4. CASE UNCHANGED vars
    BY <1>4 DEF vars, node, TriedInv, TriedIn, TriedAll, CutShort, TurnsAreOwn, EndedByAnother
  <1> QED  BY <1>1, <1>2, <1>3, <1>4, BegunTried DEF Next

\* The account of what was tried holds in every reachable state.
LEMMA TriedInvariant == Spec => []TriedInv
  BY TriedInvInitially, TriedInvStep, TurnTypeCorrect, PTL DEF Spec

\* The step in which a turn of the agent ends with an apology is the one in
\* which its run gives up, and no other run's that says the same.
LEMMA ApologyGivesUp ==
    ASSUME TypeOK, TriedInv, [Next]_vars, NEW r \in Runs, at[r] = "agent",
           saved'.next = "end", saved'.history = Says(r, "apology")
    PROVE  \E e \in Errors : GaveUp(r, e)
  <1>0. TurnTypes
    BY TypesTogether
  <1> DEFINE a == [kind |-> "apology", turn |-> own[r].turn]
             h == Says(r, "apology")
  <1>1. a.kind = "apology" /\ a.turn = own[r].turn
    OBVIOUS
  <1>2. h # <<>> /\ h[Len(h)] = a
    BY DEF Says, TypeOK, Copy
  <1> HIDE DEF a, h
  <1>3. saved'.history = h
    BY DEF h
  <1>4. ASSUME UNCHANGED saved
        PROVE  FALSE
    BY <1>1, <1>2, <1>3, <1>4 DEF TriedInv, EndedByAnother
  <1>5. ASSUME NEW q \in Runs, NEW m \in Message,
               NEW next \in {"agent", "tools", "hitl_node", "end"}, NEW S,
               Wrote(q, m, next, S)
        PROVE  q = r /\ m.kind = "apology"
    <2> DEFINE g == Append(mine[q].history, m)
    <2>1. g[Len(g)] = m
      BY DEF TypeOK, Copy
    <2>2. Leaves(q, g, next) /\ at[q] # "idle"
          /\ (next = "end" => m.turn = own[q].turn)
      BY <1>5 DEF Wrote
    <2> HIDE DEF g
    <2>3. g = h /\ next = "end"
      BY <1>3, <2>2 DEF Leaves
    <2>4. m = a
      BY <1>2, <2>1, <2>3
    <2> QED  BY <1>1, <2>2, <2>3, <2>4 DEF TriedInv, TurnsAreOwn
  <1>6. ASSUME NEW q \in Runs, NodeStep(q)
        PROVE  \E e \in Errors : GaveUp(r, e)
    <2>1. CASE \E e \in Errors : Asked(q, e) \/ Retried(q, e)
      BY <1>4, <2>1 DEF Asked, Retried, AskNext, Retry
    <2>2. CASE ~\E e \in Errors : Asked(q, e) \/ Retried(q, e)
      <3>1. q = r
        BY <1>0, <1>5, <1>6, <2>2, NodeSteps
      <3>2. ~ModelAnswers(r)
        <4> SUFFICES ASSUME ModelAnswers(r)  PROVE FALSE
            OBVIOUS
        <4> DEFINE m == [kind |-> "reply", turn |-> own[r].turn]
                   g == Append(mine[r].history, m)
        <4>1. g[Len(g)] = m /\ m.kind = "reply"
          BY DEF TypeOK, Copy
        <4>2. PICK next : Leaves(r, g, next)
          BY DEF ModelAnswers, MovesOn, Says
        <4> HIDE DEF g, m
        <4>3. g = h
          BY <1>3, <4>2 DEF Leaves
        <4> QED  BY <1>1, <1>2, <4>1, <4>3
      <3>3. ~ModelCallsTools(r)
        <4> SUFFICES ASSUME ModelCallsTools(r)  PROVE FALSE
            OBVIOUS
        <4> DEFINE m == [kind |-> "calls", turn |-> own[r].turn]
                   g == Append(mine[r].history, m)
        <4>1. g[Len(g)] = m /\ m.kind = "calls"
          BY DEF TypeOK, Copy
        <4>2. PICK next : Leaves(r, g, next)
          BY DEF ModelCallsTools, MovesOn, Says
        <4> HIDE DEF g, m
        <4>3. g = h
          BY <1>3, <4>2 DEF Leaves
        <4> QED  BY <1>1, <1>2, <4>1, <4>3
      <3> QED
        BY <1>6, <2>2, <3>1, <3>2, <3>3, FailuresOfANode
           DEF Transcribes, ToolsReturn, HumanDecided
    <2> QED  BY <2>1, <2>2
  <1>7. ASSUME NEW q \in Runs, NEW endpoint, NEW text, NEW recorded,
               Start(q, endpoint, text, recorded)
        PROVE  FALSE
    <2>1. PICK c : saved'.next = RouteStart(c)
      BY <1>7 DEF Start
    <2> QED  BY <2>1 DEF RouteStart
  <1>8. ASSUME NEW q \in Runs, NEW endpoint, Resume(q, endpoint) \/ Cancel(q)
        PROVE  FALSE
    BY <1>4, <1>8 DEF Resume, Cancel
  <1>9. CASE Restart
    BY <1>2, <1>3, <1>9 DEF Restart
  <1>10. CASE UNCHANGED vars
    BY <1>4, <1>10 DEF vars
  <1> QED  BY <1>6, <1>7, <1>8, <1>9, <1>10 DEF Next

\* Whoever is told that the service is not available has a failure that nothing
\* could have helped, or MaxAttempts attempts of which each asked every model of
\* the failover chain or was cut short: for every chain, and every number of
\* attempts, of models and of runs in the conversation.
THEOREM ApologyOnlyWhenAllFailedHolds == Spec => ApologyOnlyWhenAllFailed
  <1> USE AgentTurnAssumption
  <1>1. ASSUME TypeOK, TriedInv, [Next]_vars, NEW r \in Runs, at[r] = "agent",
               saved'.next = "end", saved'.history = Says(r, "apology")
        PROVE  \/ \E e \in {"bad_request", "denied", "unkeyed"} :
                     <<attempt[r], asked[r], e>> \in seen'[r]
               \/ \A n \in 1 .. MaxAttempts :
                     TriedAll(seen'[r], n) \/ CutShort(seen'[r], n)
    <2>1. PICK e \in Errors : GaveUp(r, e)
      BY <1>1, ApologyGivesUp
    <2>2. /\ seen'[r] = Failed(r, e)
          /\ ~(RetryOn(e) /\ attempt[r] < MaxAttempts)
          /\ ~(FailsOver(e) /\ asked[r] < Len(Chain(conf)))
      BY <1>1, <2>1 DEF GaveUp, GiveUp, NewNode, TypeOK
    <2>3. CASE e \in {"bad_request", "denied", "unkeyed"}
      BY <2>2, <2>3, FailedStays
    <2>4. CASE e \notin {"bad_request", "denied", "unkeyed"}
      <3>1. RetryOn(e)
        BY <2>4 DEF Errors, RetryOn
      <3>2. attempt[r] = MaxAttempts
        BY <1>1, <2>2, <3>1 DEF TypeOK
      <3>3. \A n \in 1 .. attempt[r] : TriedAll(Failed(r, e), n) \/ CutShort(Failed(r, e), n)
        BY <1>1, <2>2, <3>1, AttemptIsOver DEF TriedInv
      <3> QED  BY <2>2, <3>2, <3>3
    <2> QED  BY <2>3, <2>4
  <1>2. TypeOK /\ TriedInv /\ [Next]_vars =>
          [\A r \in Runs :
              at[r] = "agent" /\ saved'.next = "end" /\ saved'.history = Says(r, "apology") =>
                  \/ \E e \in {"bad_request", "denied", "unkeyed"} :
                        <<attempt[r], asked[r], e>> \in seen'[r]
                  \/ \A n \in 1 .. MaxAttempts :
                        TriedAll(seen'[r], n) \/ CutShort(seen'[r], n)]_vars
    BY <1>1
  <1> QED
    BY <1>2, TurnTypeCorrect, TriedInvariant, PTL DEF Spec, ApologyOnlyWhenAllFailed
=============================================================================
