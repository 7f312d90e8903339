-------------------------- MODULE TaskApprovalProofs --------------------------
(***************************************************************************)
(* Theorems about TaskApproval for every value of its constants: any       *)
(* number of conversations, tasks, tool calls and attempts, a store that   *)
(* may raise at any call and that returns pages of any size.               *)
(***************************************************************************)
EXTENDS TaskApproval, SequenceTheorems, TLAPS

-----------------------------------------------------------------------------
(***************************************************************************)
(* Lemmas about sequences and the operators the actions are built from.    *)
(***************************************************************************)
\* A function on 1 .. n is a sequence.
LEMMA FunctionIsSeq ==
    ASSUME NEW S, NEW n \in Nat, NEW f \in [1 .. n -> S]
    PROVE  f \in Seq(S) /\ Len(f) = n
  OBVIOUS

\* What has an element for every element of a sequence is one as long.
LEMMA SameShape ==
    ASSUME NEW S, NEW T, NEW s \in Seq(S), NEW r \in [DOMAIN s -> T]
    PROVE  r \in Seq(T) /\ Len(r) = Len(s)
  <1>1. DOMAIN s = 1 .. Len(s) /\ Len(s) \in Nat
    BY LenProperties
  <1>. QED
    BY <1>1, FunctionIsSeq

\* A call of a conversation is a call.
LEMMA CallType ==
    ASSUME TypeOK, NEW t \in Threads, NEW i \in DOMAIN calls[t]
    PROVE  calls[t][i] \in Call
  <1>1. calls[t] \in Seq(Call)
    BY DEF TypeOK
  <1>. QED
    BY <1>1, LenProperties, ElementOfSeq

\* Replacing a call by another, wherever it is, keeps the calls of every
\* conversation and their number.
LEMMA ReplacedCall ==
    ASSUME TypeOK, NEW t \in Threads, NEW i, NEW new,
           i \in DOMAIN calls[t] => new \in Call
    PROVE  /\ [calls EXCEPT ![t] = [calls[t] EXCEPT ![i] = new]] \in [Threads -> Seq(Call)]
           /\ \A u \in Threads :
                Len([calls EXCEPT ![t] = [calls[t] EXCEPT ![i] = new]][u]) = Len(calls[u])
  <1>. DEFINE seq == [calls[t] EXCEPT ![i] = new]
  <1>1. calls[t] \in Seq(Call) /\ calls \in [Threads -> Seq(Call)]
    BY DEF TypeOK
  <1>2. seq \in [DOMAIN calls[t] -> Call]
    BY CallType
  <1>. HIDE DEF seq
  <1>3. seq \in Seq(Call) /\ Len(seq) = Len(calls[t])
    BY <1>1, <1>2, SameShape
  <1>. QED
    BY <1>1, <1>3 DEF seq

\* So does setting the state of a call.
LEMMA SetCallType ==
    ASSUME TypeOK, NEW t \in Threads, NEW i,
           NEW to \in {"ready", "running", "raised", "done"}, SetCall(t, i, to)
    PROVE  /\ calls' \in [Threads -> Seq(Call)]
           /\ \A u \in Threads : Len(calls'[u]) = Len(calls[u])
  <1>. DEFINE new == [calls[t][i] EXCEPT !.at = to]
  <1>1. i \in DOMAIN calls[t] => new \in Call
    BY CallType DEF Call
  <1>2. calls' = [calls EXCEPT ![t] = [calls[t] EXCEPT ![i] = new]]
    BY DEF SetCall
  <1>. HIDE DEF new
  <1>. QED
    BY <1>1, <1>2, ReplacedCall

\* An update keeps a task a task.
LEMMA MergedType ==
    ASSUME NEW base \in Task, NEW p \in Patches
    PROVE  Merged(base, p) \in Task
  BY TaskApprovalAssumption DEF TaskApprovalAssumption, Merged, Task

\* No card is a card without proposals, no decision one that names no task.
LEMMA Nothing == NoCard \in Cards /\ NoDecision \in Decisions
  <1>1. NoCard \in [{} -> Task \cup {NoTask}] /\ NoCard \in [{} -> Task]
    BY DEF NoCard
  <1>2. {} \in SUBSET Keys
    OBVIOUS
  <1>3. NoCard \in Cards
    BY <1>1, <1>2 DEF Cards
  <1>4. NoCard \in UNION {[S -> Task] : S \in SUBSET Keys}
    BY <1>1, <1>2
  <1>. QED
    BY <1>3, <1>4 DEF NoDecision, Decisions

\* A card is a function into tasks and deletions.
LEMMA CardType ==
    ASSUME NEW c \in Cards
    PROVE  /\ DOMAIN c \subseteq Keys
           /\ \A k \in DOMAIN c : c[k] \in Task \cup {NoTask}
  BY DEF Cards

\* What an approval makes of a task on a card is a task or a deletion.
LEMMA OutcomeType ==
    ASSUME NEW c \in Cards, NEW d \in Decisions, NEW k \in DOMAIN c
    PROVE  Outcome(c, d, k) \in Task \cup {NoTask}
  <1>1. k \in DOMAIN d.edited => d.edited[k] \in Task
    BY DEF Decisions
  <1>. QED
    BY <1>1, CardType DEF Outcome

\* Applying an approval keeps the store's type and writes accepted keys only,
\* each to its outcome.
LEMMA AppliedType ==
    ASSUME TypeOK, NEW c \in Cards, NEW d \in Decisions
    PROVE  /\ Applied(c, d) \in [Keys -> Task \cup {NoTask}]
           /\ \A k \in Accepted(c, d) : Applied(c, d)[k] = Outcome(c, d, k)
           /\ \A k \in Keys \ Accepted(c, d) : Applied(c, d)[k] = tasks[k]
  <1>1. Accepted(c, d) \subseteq DOMAIN c /\ DOMAIN c \subseteq Keys
    BY CardType DEF Accepted
  <1>2. \A k \in Accepted(c, d) : Outcome(c, d, k) \in Task \cup {NoTask}
    BY <1>1, OutcomeType
  <1>3. tasks \in [Keys -> Task \cup {NoTask}]
    BY DEF TypeOK
  <1>. QED
    BY <1>1, <1>2, <1>3 DEF Applied

\* A failed attempt writes accepted keys only, each to its outcome.
LEMMA PartlyType ==
    ASSUME TypeOK, NEW c \in Cards, NEW d \in Decisions, NEW s \in Partly(c, d)
    PROVE  /\ s \in [Keys -> Task \cup {NoTask}]
           /\ \A k \in Keys : s[k] # tasks[k] =>
                /\ k \in Accepted(c, d)
                /\ s[k] = Outcome(c, d, k)
  <1>. DEFINE all == Applied(c, d)
  <1>1. PICK done \in SUBSET Accepted(c, d) :
            s = [k \in Keys |-> IF k \in done THEN all[k] ELSE tasks[k]]
    BY DEF Partly
  <1>2. /\ all \in [Keys -> Task \cup {NoTask}]
        /\ \A k \in Accepted(c, d) : all[k] = Outcome(c, d, k)
    BY AppliedType
  <1>3. tasks \in [Keys -> Task \cup {NoTask}]
    BY DEF TypeOK
  <1>. HIDE DEF all
  <1>. QED
    BY <1>1, <1>2, <1>3

\* Proposals in the last message are what the scan for proposals finds.
LEMMA ParseFindsLast ==
    ASSUME NEW msgs \in Seq(Cards), msgs # <<>>, RoutesToApproval(msgs)
    PROVE  Parse(msgs) = msgs[Len(msgs)]
  <1>. DEFINE found == {i \in DOMAIN msgs : msgs[i] # NoCard}
              last  == CHOOSE i \in found : \A j \in found : j <= i
  <1>1. DOMAIN msgs = 1 .. Len(msgs) /\ Len(msgs) \in Nat
    BY LenProperties
  <1>2. Len(msgs) \in found /\ \A j \in found : j <= Len(msgs)
    BY <1>1 DEF RoutesToApproval
  <1>3. last \in found /\ \A j \in found : j <= last
    BY <1>2
  <1>4. last = Len(msgs)
    BY <1>1, <1>2, <1>3
  <1>. QED
    BY <1>2, <1>4 DEF Parse

-----------------------------------------------------------------------------
(***************************************************************************)
(* The inductive invariant: the card is the last message of its            *)
(* conversation, which it is because a tools step has at least one call,   *)
(* so that the last message is one of that step.                           *)
(***************************************************************************)
ToolsHaveCalls == \A t \in Threads : at[t] = "tools" => Len(calls[t]) > 0

Inv == TypeOK /\ CardIsCurrent /\ ToolsHaveCalls

\* Cards stay current while no conversation pauses anew and no messages come.
LEMMA CardsUndisturbed ==
    ASSUME CardIsCurrent, outputs' = outputs,
           \A t \in Threads : at'[t] \in {"paused", "applying"} =>
                at[t] \in {"paused", "applying"} /\ card'[t] = card[t]
    PROVE  CardIsCurrent'
  BY DEF CardIsCurrent

\* A tools step keeps its calls while none begins and their number stays.
LEMMA CallsUndisturbed ==
    ASSUME ToolsHaveCalls,
           \A t \in Threads : at'[t] = "tools" =>
                at[t] = "tools" /\ Len(calls'[t]) = Len(calls[t])
    PROVE  ToolsHaveCalls'
  BY DEF ToolsHaveCalls

\* Leaving a card behind keeps the types and disturbs no other conversation.
LEMMA LeavesType ==
    ASSUME TypeOK, NEW t \in Threads, NEW next \in {"idle", "agent"}, Leaves(t, next)
    PROVE  /\ at' \in [Threads -> {"idle", "agent", "tools", "paused", "dropped", "applying"}]
           /\ card' \in [Threads -> Cards]
           /\ \A u \in Threads : at'[u] \in {"paused", "applying", "tools"} =>
                at[u] = at'[u] /\ card'[u] = card[u]
  BY Nothing DEF TypeOK, Leaves

\* Initially there is neither a card nor a tools step.
LEMMA InitInv == Init => Inv
  <1>. SUFFICES ASSUME Init PROVE Inv
    OBVIOUS
  <1>2. TypeOK
    BY Nothing, TaskApprovalAssumption DEF Init, TypeOK, TaskApprovalAssumption
  <1>. QED
    BY <1>2 DEF Init, Inv, CardIsCurrent, ToolsHaveCalls

\* The steps of the agent and of the human keep the invariant.
LEMMA TalkInv ==
    ASSUME Inv, NEW t \in Threads,
           \/ MessageArrives(t) \/ AgentAnswers(t) \/ AgentCallsTools(t)
           \/ Reject(t) \/ Approve(t) \/ DecideInVain(t)
    PROVE  Inv'
  <1>. USE DEF Inv
  <1>1. CASE \/ MessageArrives(t) \/ Reject(t) \/ DecideInVain(t)
    <2>1. Leaves(t, "agent")
          /\ UNCHANGED <<tasks, outputs, calls, attempt, decision, edits, patching>>
      BY <1>1 DEF MessageArrives, Reject, DecideInVain
    <2>2. TypeOK'
      BY <2>1, LeavesType DEF TypeOK
    <2>. QED
      BY <2>1, <2>2, LeavesType, CardsUndisturbed, CallsUndisturbed
  <1>2. CASE AgentAnswers(t)
    <2>1. TypeOK'
      BY <1>2 DEF AgentAnswers, TypeOK
    <2>. QED
      BY <2>1, <1>2, CardsUndisturbed, CallsUndisturbed DEF AgentAnswers, TypeOK
  <1>3. CASE AgentCallsTools(t)
    <2>7. PICK n \in 1 .. MaxCalls : \E cs \in [1 .. n -> NewCalls] :
            calls' = [calls EXCEPT ![t] = cs]
      BY <1>3 DEF AgentCallsTools
    <2>1. PICK cs \in [1 .. n -> NewCalls] : calls' = [calls EXCEPT ![t] = cs]
      BY <2>7
    <2>2. NewCalls \subseteq Call
      BY Nothing DEF NewCalls, NewCall, Call
    <2>3. cs \in Seq(Call) /\ Len(cs) = n /\ n \in Nat /\ n > 0
      <3>1. n \in Nat /\ n > 0 /\ cs \in [1 .. n -> Call]
        BY <2>2, TaskApprovalAssumption DEF TaskApprovalAssumption
      <3>. QED
        BY <3>1, FunctionIsSeq
    <2>4. TypeOK'
      BY <1>3, <2>1, <2>3, TaskApprovalAssumption
         DEF AgentCallsTools, TypeOK, TaskApprovalAssumption
    <2>5. CardIsCurrent'
      BY <1>3, CardsUndisturbed DEF AgentCallsTools, TypeOK
    <2>6. ToolsHaveCalls'
      BY <1>3, <2>1, <2>3 DEF AgentCallsTools, TypeOK, ToolsHaveCalls
    <2>. QED
      BY <2>4, <2>5, <2>6
  <1>4. CASE Approve(t)
    <2>1. TypeOK'
      <3>1. PICK R \in SUBSET Keys, S \in SUBSET Keys : \E f \in [S -> Drafts] :
                decision' = [decision EXCEPT ![t] = [rejected |-> R, edited |-> f]]
        BY <1>4 DEF Approve
      <3>2. PICK f \in [S -> Drafts] :
                decision' = [decision EXCEPT ![t] = [rejected |-> R, edited |-> f]]
        BY <3>1
      <3>3. f \in UNION {[X -> Task] : X \in SUBSET Keys}
        BY TaskApprovalAssumption DEF TaskApprovalAssumption
      <3>4. [rejected |-> R, edited |-> f] \in Decisions
        BY <3>3 DEF Decisions
      <3>. QED
        BY <1>4, <3>2, <3>4, TaskApprovalAssumption
           DEF Approve, TypeOK, TaskApprovalAssumption
    <2>2. CardIsCurrent'
      BY <1>4, CardsUndisturbed DEF Approve, TypeOK
    <2>3. ToolsHaveCalls'
      BY <1>4, CallsUndisturbed DEF Approve, TypeOK
    <2>. QED
      BY <2>1, <2>2, <2>3
  <1>. QED
    BY <1>1, <1>2, <1>3, <1>4

\* The end of a tools step: the last message is that of its last call, and when
\* it leads to the card it is what the card shows.
LEMMA ToolsEndInv ==
    ASSUME Inv, NEW t \in Threads, ToolsEnd(t)
    PROVE  Inv'
  <1>. DEFINE results == [i \in DOMAIN calls[t] |-> calls[t][i].proposed]
              msgs    == outputs[t] \o results
  <1>1. results \in Seq(Cards) /\ Len(results) = Len(calls[t])
    <2>1. calls[t] \in Seq(Call)
      BY DEF Inv, TypeOK
    <2>2. \A i \in DOMAIN calls[t] : calls[t][i].proposed \in Cards
      BY CallType DEF Inv, Call
    <2>3. results \in [DOMAIN calls[t] -> Cards]
      BY <2>2
    <2>. HIDE DEF results
    <2>. QED
      BY <2>1, <2>3, SameShape
  <1>2. /\ outputs[t] \in Seq(Cards)
        /\ Len(calls[t]) \in Nat /\ Len(calls[t]) > 0
    BY LenProperties DEF Inv, TypeOK, ToolsHaveCalls, ToolsEnd
  <1>3. outputs' = [outputs EXCEPT ![t] = msgs]
    BY DEF ToolsEnd
  <1>4. IF RoutesToApproval(msgs)
        THEN /\ at' = [at EXCEPT ![t] = "paused"]
             /\ card' = [card EXCEPT ![t] = Parse(msgs)]
        ELSE at' = [at EXCEPT ![t] = "agent"] /\ card' = card
    BY DEF ToolsEnd
  <1>. HIDE DEF results
  <1>5. msgs \in Seq(Cards) /\ Len(msgs) \in Nat /\ Len(msgs) > 0
    <2>1. msgs \in Seq(Cards) /\ Len(msgs) = Len(outputs[t]) + Len(results)
      BY <1>1, <1>2, ConcatProperties
    <2>2. Len(outputs[t]) \in Nat
      BY <1>2, LenProperties
    <2>3. Len(results) \in Nat /\ Len(results) > 0
      BY <1>1, <1>2
    <2>. HIDE DEF msgs
    <2>4. Len(msgs) \in Nat /\ Len(msgs) > 0
      BY <2>1, <2>2, <2>3
    <2>. QED
      BY <2>1, <2>4
  <1>. HIDE DEF msgs
  <1>6. msgs # <<>> /\ msgs[Len(msgs)] \in Cards
    BY <1>5, ElementOfSeq
  <1>7. RoutesToApproval(msgs) => Parse(msgs) = msgs[Len(msgs)]
    BY <1>5, <1>6, ParseFindsLast
  <1>8. TypeOK'
    <2>1. card' \in [Threads -> Cards]
      BY <1>4, <1>6, <1>7 DEF Inv, TypeOK
    <2>2. at' \in [Threads -> {"idle", "agent", "tools", "paused", "dropped", "applying"}]
      BY <1>4 DEF Inv, TypeOK
    <2>3. outputs' \in [Threads -> Seq(Cards)]
      BY <1>3, <1>5 DEF Inv, TypeOK
    <2>4. calls' \in [Threads -> Seq(Call)] /\ attempt' \in [Threads -> 1 .. MaxAttempts]
      <3>1. <<>> \in Seq(Call) /\ 1 \in 1 .. MaxAttempts
        BY TaskApprovalAssumption DEF TaskApprovalAssumption
      <3>. QED
        BY <3>1 DEF Inv, TypeOK, ToolsEnd
    <2>. QED
      BY <2>1, <2>2, <2>3, <2>4 DEF Inv, TypeOK, ToolsEnd
  <1>9. CardIsCurrent'
    <2>. SUFFICES ASSUME NEW u \in Threads, at'[u] \in {"paused", "applying"}
                  PROVE  /\ outputs'[u] # <<>>
                         /\ card'[u] = outputs'[u][Len(outputs'[u])]
                         /\ card'[u] # NoCard
      BY DEF CardIsCurrent
    <2>1. CASE u = t
      <3>1. RoutesToApproval(msgs) /\ card'[t] = msgs[Len(msgs)] /\ outputs'[t] = msgs
        BY <2>1, <1>3, <1>4, <1>7 DEF Inv, TypeOK
      <3>. QED
        BY <3>1, <2>1, <1>6 DEF RoutesToApproval
    <2>2. CASE u # t
      <3>1. at'[u] = at[u] /\ card'[u] = card[u] /\ outputs'[u] = outputs[u]
        BY <2>2, <1>3, <1>4 DEF Inv, TypeOK
      <3>. QED
        BY <3>1 DEF Inv, CardIsCurrent
    <2>. QED
      BY <2>1, <2>2
  <1>10. ToolsHaveCalls'
    <2>1. \A u \in Threads : at'[u] = "tools" => u # t /\ at[u] = "tools"
      BY <1>4 DEF Inv, TypeOK
    <2>2. \A u \in Threads \ {t} : calls'[u] = calls[u]
      BY DEF Inv, TypeOK, ToolsEnd
    <2>. QED
      BY <2>1, <2>2, CallsUndisturbed DEF Inv
  <1>. QED
    BY <1>8, <1>9, <1>10 DEF Inv

\* A tools step that breaks runs all its calls again, or is over.
LEMMA ToolsBreakInv ==
    ASSUME Inv, NEW t \in Threads, ToolsBreak(t)
    PROVE  Inv'
  <1>. USE DEF Inv
  <1>1. Abandoned(t) \subseteq Edit
    BY DEF TypeOK, Abandoned, Edit
  <1>2. CASE /\ attempt[t] < MaxAttempts
             /\ attempt' = [attempt EXCEPT ![t] = @ + 1]
             /\ calls' = [calls EXCEPT ![t] =
                   [i \in DOMAIN @ |-> NewCall(@[i].tool, @[i].patch)]]
             /\ at' = at
    <2>. DEFINE again == [i \in DOMAIN calls[t] |->
                            NewCall(calls[t][i].tool, calls[t][i].patch)]
    <2>1. again \in [DOMAIN calls[t] -> Call]
      <3>1. \A i \in DOMAIN calls[t] : calls[t][i] \in Call
        BY CallType
      <3>. QED
        BY <3>1, Nothing DEF NewCall, Call
    <2>2. calls' = [calls EXCEPT ![t] = again]
      BY <1>2
    <2>. HIDE DEF again
    <2>3. again \in Seq(Call) /\ Len(again) = Len(calls[t])
      <3>1. calls[t] \in Seq(Call)
        BY DEF TypeOK
      <3>. QED
        BY <3>1, <2>1, SameShape
    <2>4. attempt' \in [Threads -> 1 .. MaxAttempts]
      BY <1>2, TaskApprovalAssumption DEF TypeOK, TaskApprovalAssumption
    <2>5. TypeOK'
      BY <1>1, <1>2, <2>2, <2>3, <2>4 DEF ToolsBreak, TypeOK
    <2>6. CardIsCurrent'
      BY <1>2, CardsUndisturbed DEF ToolsBreak
    <2>7. ToolsHaveCalls'
      BY <1>2, <2>2, <2>3, CallsUndisturbed DEF TypeOK
    <2>. QED
      BY <2>5, <2>6, <2>7
  <1>3. CASE /\ \E next \in {"idle", "agent"} : at' = [at EXCEPT ![t] = next]
             /\ calls' = [calls EXCEPT ![t] = <<>>]
             /\ attempt' = [attempt EXCEPT ![t] = 1]
    <2>1. 1 \in 1 .. MaxAttempts /\ <<>> \in Seq(Call)
      BY TaskApprovalAssumption DEF TaskApprovalAssumption
    <2>2. TypeOK'
      BY <1>1, <1>3, <2>1 DEF ToolsBreak, TypeOK
    <2>3. CardIsCurrent'
      BY <1>3, CardsUndisturbed DEF ToolsBreak, TypeOK
    <2>4. ToolsHaveCalls'
      BY <1>3, CallsUndisturbed DEF TypeOK
    <2>. QED
      BY <2>2, <2>3, <2>4
  <1>. QED
    BY <1>2, <1>3 DEF ToolsBreak

\* What hitl_node finds in the messages is what the card has shown.
LEMMA ParseIsCard ==
    ASSUME Inv, NEW t \in Threads, at[t] = "applying"
    PROVE  Parse(outputs[t]) = card[t] /\ card[t] \in Cards /\ decision[t] \in Decisions
  <1>1. outputs[t] \in Seq(Cards) /\ outputs[t] # <<>> /\ RoutesToApproval(outputs[t])
    BY DEF Inv, TypeOK, CardIsCurrent, RoutesToApproval
  <1>2. Parse(outputs[t]) = outputs[t][Len(outputs[t])]
    BY <1>1, ParseFindsLast
  <1>. QED
    BY <1>2 DEF Inv, TypeOK, CardIsCurrent

\* Applying an approval, wholly or partly, keeps the invariant.
LEMMA ApplyInv ==
    ASSUME Inv, NEW t \in Threads, ApplySucceeds(t) \/ ApplyBreaks(t)
    PROVE  Inv'
  <1>. USE DEF Inv
  <1>1. /\ at[t] = "applying"
        /\ tasks' \in [Keys -> Task \cup {NoTask}]
    <2>1. at[t] = "applying"
      BY DEF ApplySucceeds, ApplyBreaks
    <2>2. CASE ApplySucceeds(t)
      BY <2>1, <2>2, ParseIsCard, AppliedType DEF ApplySucceeds
    <2>3. CASE ApplyBreaks(t)
      BY <2>1, <2>3, ParseIsCard, PartlyType DEF ApplyBreaks
    <2>. QED
      BY <2>1, <2>2, <2>3
  <1>2. CASE /\ attempt[t] < MaxAttempts
             /\ attempt' = [attempt EXCEPT ![t] = @ + 1]
             /\ UNCHANGED <<at, card, decision, outputs, calls, edits, patching>>
    <2>1. attempt' \in [Threads -> 1 .. MaxAttempts]
      BY <1>2, TaskApprovalAssumption DEF TypeOK, TaskApprovalAssumption
    <2>2. TypeOK'
      BY <1>1, <1>2, <2>1 DEF TypeOK
    <2>. QED
      BY <1>2, <2>2, CardsUndisturbed, CallsUndisturbed
  <1>3. CASE /\ \E next \in {"idle", "agent"} : Leaves(t, next)
             /\ attempt' = [attempt EXCEPT ![t] = 1]
             /\ decision' = [decision EXCEPT ![t] = NoDecision]
             /\ UNCHANGED <<outputs, calls, edits, patching>>
    <2>1. attempt' \in [Threads -> 1 .. MaxAttempts]
          /\ decision' \in [Threads -> Decisions]
      BY <1>3, Nothing, TaskApprovalAssumption DEF TypeOK, TaskApprovalAssumption
    <2>2. TypeOK'
      BY <1>1, <1>3, <2>1, LeavesType DEF TypeOK
    <2>. QED
      BY <1>3, <2>2, LeavesType, CardsUndisturbed, CallsUndisturbed
  <1>. QED
    BY <1>2, <1>3 DEF ApplySucceeds, ApplyBreaks

\* The steps of tool calls keep the invariant: they end no tools step.
LEMMA CallInv ==
    ASSUME Inv, NEW t \in Threads, NEW i \in DOMAIN calls[t], CallStep(t, i)
    PROVE  Inv'
  <1>. USE DEF Inv
  <1>1. UNCHANGED <<tasks, at, outputs, attempt, card, decision, patching>>
    BY DEF CallStep, UpdateTasksStarts, UpdateTasksEnds, OtherToolRuns, ToolSearches,
           ToolErrorReported
  <1>2. SUFFICES /\ calls' \in [Threads -> Seq(Call)]
                 /\ \A u \in Threads : Len(calls'[u]) = Len(calls[u])
                 /\ edits' \subseteq Edit
    <2>1. TypeOK'
      BY <1>1, <1>2 DEF TypeOK
    <2>. QED
      BY <1>1, <1>2, <2>1, CardsUndisturbed, CallsUndisturbed
  <1>3. CASE UpdateTasksStarts(t, i)
    <2>1. PICK page \in Pages : \E c \in Proposals(page) :
            calls' = [calls EXCEPT ![t][i].at = "running", ![t][i].proposed = c]
      BY <1>3 DEF UpdateTasksStarts
    <2>2. PICK c \in Proposals(page) :
            calls' = [calls EXCEPT ![t][i].at = "running", ![t][i].proposed = c]
      BY <2>1
    <2>. DEFINE new == [calls[t][i] EXCEPT !.at = "running", !.proposed = c]
    <2>3. c \in Cards
      BY DEF Proposals
    <2>4. new \in Call
      BY <2>3, CallType DEF Call
    <2>5. calls' = [calls EXCEPT ![t] = [calls[t] EXCEPT ![i] = new]]
      BY <2>2 DEF TypeOK
    <2>. HIDE DEF new
    <2>6. /\ calls' \in [Threads -> Seq(Call)]
          /\ \A u \in Threads : Len(calls'[u]) = Len(calls[u])
      BY <2>4, <2>5, ReplacedCall
    <2>. QED
      BY <1>3, <2>6 DEF UpdateTasksStarts, TypeOK
  <1>4. CASE UpdateTasksEnds(t, i) \/ OtherToolRuns(t, i) \/ ToolErrorReported(t, i)
    <2>1. SetCall(t, i, "done") /\ edits' = edits
      BY <1>4 DEF UpdateTasksEnds, OtherToolRuns, ToolErrorReported
    <2>. QED
      BY <2>1, SetCallType DEF TypeOK
  <1>5. CASE ToolSearches(t, i)
    <2>1. PICK to \in {"ready", "running", "raised", "done"} : SetCall(t, i, to)
      BY <1>5 DEF ToolSearches
    <2>2. edits' \subseteq Edit
      <3>1. CASE edits' = edits
        BY <3>1 DEF TypeOK
      <3>2. CASE \E page \in Pages : \E k \in page :
                   edits' = edits \cup
                     {[of |-> t, call |-> i, attempt |-> attempt[t], waited |-> TRUE,
                       key |-> k, patch |-> calls[t][i].patch, base |-> NoTask]}
        <4>1. PICK page \in Pages, k \in Keys :
                   edits' = edits \cup
                     {[of |-> t, call |-> i, attempt |-> attempt[t], waited |-> TRUE,
                       key |-> k, patch |-> calls[t][i].patch, base |-> NoTask]}
          BY <3>2 DEF Pages, Stored
        <4>2. i \in Nat /\ attempt[t] \in Nat /\ calls[t][i].patch \in SUBSET Patches
          <5>1. calls[t] \in Seq(Call)
            BY DEF TypeOK
          <5>2. i \in Nat
            BY <5>1, LenProperties
          <5>3. attempt[t] \in Nat
            BY TaskApprovalAssumption DEF TypeOK, TaskApprovalAssumption
          <5>. QED
            BY <5>2, <5>3, CallType DEF Call
        <4>. DEFINE new == [of |-> t, call |-> i, attempt |-> attempt[t], waited |-> TRUE,
                            key |-> k, patch |-> calls[t][i].patch, base |-> NoTask]
        <4>3. new \in Edit
          BY <4>2 DEF Edit
        <4>4. edits' = edits \cup {new}
          BY <4>1
        <4>. HIDE DEF new
        <4>. QED
          BY <4>3, <4>4 DEF TypeOK
      <3>. QED
        BY <1>5, <3>1, <3>2 DEF ToolSearches
    <2>. QED
      BY <2>1, <2>2, SetCallType
  <1>. QED
    BY <1>3, <1>4, <1>5 DEF CallStep

\* The steps of tools in threads keep the invariant.
LEMMA EditInv ==
    ASSUME Inv, NEW e \in edits, EditStep(e)
    PROVE  Inv'
  <1>. USE DEF Inv
  <1>1. UNCHANGED <<at, outputs, attempt, card, decision, patching>>
    BY DEF EditStep, EditReads, EditWrites, ToolDeletes, EditBreaks, EditEnds, graph
  <1>2. SUFFICES /\ tasks' \in [Keys -> Task \cup {NoTask}]
                 /\ calls' \in [Threads -> Seq(Call)]
                 /\ \A u \in Threads : Len(calls'[u]) = Len(calls[u])
                 /\ edits' \subseteq Edit
    <2>1. TypeOK'
      BY <1>1, <1>2 DEF TypeOK
    <2>. QED
      BY <1>1, <1>2, <2>1, CardsUndisturbed, CallsUndisturbed
  <1>3. e \in Edit
    BY DEF TypeOK
  <1>4. ASSUME NEW how \in {"raised", "done"}, EditEnds(e, how)
        PROVE  /\ calls' \in [Threads -> Seq(Call)]
               /\ \A u \in Threads : Len(calls'[u]) = Len(calls[u])
               /\ edits' \subseteq Edit
    <2>1. e.of \in Threads /\ edits' \subseteq Edit
      BY <1>3, <1>4 DEF Edit, EditEnds, TypeOK
    <2>2. CASE e.waited
      BY <2>1, <2>2, <1>4, SetCallType DEF EditEnds
    <2>3. CASE ~e.waited
      BY <2>1, <2>3, <1>4 DEF EditEnds, TypeOK
    <2>. QED
      BY <2>1, <2>2, <2>3
  <1>5. CASE EditReads(e)
    <2>1. CASE /\ tasks[e.key] # NoTask
               /\ edits' = (edits \ {e}) \cup {[e EXCEPT !.base = tasks[e.key]]}
               /\ UNCHANGED <<graph, patching>>
      <3>1. [e EXCEPT !.base = tasks[e.key]] \in Edit
        BY <1>3 DEF Edit, TypeOK
      <3>. QED
        BY <1>5, <2>1, <3>1 DEF EditReads, graph, TypeOK
    <2>2. CASE EditEnds(e, "raised")
      BY <1>4, <1>5, <2>2 DEF EditReads, TypeOK
    <2>. QED
      BY <1>5, <2>1, <2>2 DEF EditReads
  <1>6. CASE EditWrites(e)
    <2>1. e.base \in Task /\ e.patch \subseteq Patches
      BY <1>3, <1>6 DEF Edit, EditWrites
    <2>2. tasks' \in [Keys -> Task \cup {NoTask}]
      <3>1. PICK p \in Patches : tasks' = [tasks EXCEPT ![e.key] = Merged(e.base, p)]
        BY <1>6, <2>1 DEF EditWrites
      <3>2. Merged(e.base, p) \in Task
        BY <2>1, MergedType
      <3>. QED
        BY <3>1, <3>2 DEF TypeOK
    <2>3. EditEnds(e, "done")
      BY <1>6 DEF EditWrites
    <2>. QED
      BY <1>4, <2>2, <2>3
  <1>7. CASE ToolDeletes(e)
    BY <1>4, <1>7 DEF ToolDeletes, TypeOK
  <1>8. CASE EditBreaks(e)
    BY <1>4, <1>8 DEF EditBreaks, TypeOK
  <1>. QED
    BY <1>5, <1>6, <1>7, <1>8 DEF EditStep

\* A notification drops a card or leaves everything as it is.
LEMMA NotifiedType ==
    ASSUME TypeOK, Notified
    PROVE  /\ at' \in [Threads -> {"idle", "agent", "tools", "paused", "dropped", "applying"}]
           /\ \A t \in Threads : at'[t] # "dropped" => at'[t] = at[t]
  BY DEF TypeOK, Notified

\* The REST endpoints keep the invariant.
LEMMA RestInv ==
    ASSUME Inv,
           \/ \E k \in Keys : RestDelete(k) \/ \E p \in Patches : RestPatchReads(k, p)
           \/ RestDeleteAll \/ RestPatchWrites \/ RestPatchBreaks
    PROVE  Inv'
  <1>. USE DEF Inv
  <1>1. UNCHANGED <<outputs, calls, attempt, card, decision, edits>>
    BY DEF RestDelete, RestPatchReads, RestDeleteAll, RestPatchWrites, RestPatchBreaks, graph
  <1>2. Notified
    BY DEF RestDelete, RestPatchReads, RestDeleteAll, RestPatchWrites, RestPatchBreaks,
           graph, Notified
  <1>3. tasks' \in [Keys -> Task \cup {NoTask}]
    <2>1. CASE \E k \in Keys : RestDelete(k)
      BY <2>1 DEF RestDelete, TypeOK
    <2>2. CASE \E k \in Keys, p \in Patches : RestPatchReads(k, p)
      BY <2>2 DEF RestPatchReads, TypeOK
    <2>3. CASE RestDeleteAll
      BY <2>3 DEF RestDeleteAll, TypeOK
    <2>4. CASE RestPatchWrites
      <3>1. PICK q \in patching :
              tasks' = [tasks EXCEPT ![q.key] = Merged(q.base, q.patch)]
        BY <2>4 DEF RestPatchWrites
      <3>2. Merged(q.base, q.patch) \in Task
        BY MergedType DEF TypeOK
      <3>. QED
        BY <3>1, <3>2 DEF TypeOK
    <2>5. CASE RestPatchBreaks
      BY <2>5 DEF RestPatchBreaks, TypeOK
    <2>. QED
      BY <2>1, <2>2, <2>3, <2>4, <2>5
  <1>4. patching' \subseteq [key : Keys, patch : Patches, base : Task]
    <2>1. CASE \E k \in Keys, p \in Patches : RestPatchReads(k, p)
      <3>1. PICK k \in Keys, p \in Patches : RestPatchReads(k, p)
        BY <2>1
      <3>2. tasks[k] \in Task
        BY <3>1 DEF RestPatchReads, TypeOK
      <3>. QED
        BY <3>1, <3>2 DEF RestPatchReads
    <2>2. CASE patching' = patching \/ patching' = {}
      BY <2>2 DEF TypeOK
    <2>. QED
      BY <2>1, <2>2 DEF RestDelete, RestDeleteAll, RestPatchWrites, RestPatchBreaks
  <1>5. TypeOK'
    BY <1>1, <1>2, <1>3, <1>4, NotifiedType DEF TypeOK
  <1>. QED
    BY <1>1, <1>2, <1>5, NotifiedType, CardsUndisturbed, CallsUndisturbed

\* A restart forgets the conversations.
LEMMA RestartInv == ASSUME Inv, Restart PROVE Inv'
  <1>1. TypeOK'
    BY Nothing, TaskApprovalAssumption DEF Inv, TypeOK, Restart, TaskApprovalAssumption
  <1>. QED
    BY <1>1 DEF Inv, Restart, CardIsCurrent, ToolsHaveCalls

\* Every step keeps the invariant.
LEMMA StepInv == Inv /\ [Next]_vars => Inv'
  <1>. SUFFICES ASSUME Inv, [Next]_vars PROVE Inv'
    OBVIOUS
  <1>1. CASE \E t \in Threads :
               \/ MessageArrives(t) \/ AgentAnswers(t) \/ AgentCallsTools(t)
               \/ Reject(t) \/ Approve(t) \/ DecideInVain(t)
    BY <1>1, TalkInv
  <1>2. CASE \E t \in Threads : \E i \in DOMAIN calls[t] : CallStep(t, i)
    BY <1>2, CallInv
  <1>3. CASE \E t \in Threads : ToolsBreak(t)
    BY <1>3, ToolsBreakInv
  <1>4. CASE \E t \in Threads : ToolsEnd(t)
    BY <1>4, ToolsEndInv
  <1>5. CASE \E t \in Threads : ApplySucceeds(t) \/ ApplyBreaks(t)
    BY <1>5, ApplyInv
  <1>6. CASE \E e \in edits : EditStep(e)
    BY <1>6, EditInv
  <1>7. CASE \/ \E k \in Keys : RestDelete(k) \/ \E p \in Patches : RestPatchReads(k, p)
             \/ RestDeleteAll \/ RestPatchWrites \/ RestPatchBreaks
    BY <1>7, RestInv
  <1>8. CASE Restart
    BY <1>8, RestartInv
  <1>9. CASE UNCHANGED vars
    BY <1>9 DEF vars, graph, Inv, TypeOK, CardIsCurrent, ToolsHaveCalls
  <1>. QED
    BY <1>1, <1>2, <1>3, <1>4, <1>5, <1>6, <1>7, <1>8, <1>9 DEF Next

\* The invariant holds in every behaviour.
LEMMA InvHolds == Spec => []Inv
  BY InitInv, StepInv, PTL DEF Spec

-----------------------------------------------------------------------------
(***************************************************************************)
(* The theorems.                                                           *)
(***************************************************************************)
\* The variables keep their types: tasks stay whole tasks whatever interleaving
\* of patches, deletions and approvals wrote them.
THEOREM TypeCorrect == Spec => []TypeOK
  BY InvHolds, PTL DEF Inv

\* A card shows the proposals of the tools step that has just ended, however
\* many older ones the messages of the conversation hold.
THEOREM CardIsCurrentHolds == Spec => []CardIsCurrent
  BY InvHolds, PTL DEF Inv

\* A step in which t's run of hitl_node writes the store is an attempt of that
\* run, and of no other.
LEMMA AppliesOnly ==
    ASSUME Inv, [Next]_vars, NEW t \in Threads, Applies(t), tasks' # tasks
    PROVE  ApplySucceeds(t) \/ ApplyBreaks(t)
  <1>. USE DEF Inv, Applies
  <1>1. ASSUME NEW u \in Threads,
               \/ MessageArrives(u) \/ AgentAnswers(u) \/ AgentCallsTools(u)
               \/ Reject(u) \/ Approve(u) \/ DecideInVain(u)
               \/ ToolsBreak(u) \/ ToolsEnd(u)
        PROVE  FALSE
    BY <1>1 DEF MessageArrives, AgentAnswers, AgentCallsTools, Reject, Approve,
                DecideInVain, ToolsBreak, ToolsEnd
  <1>2. ASSUME NEW u \in Threads, NEW i \in DOMAIN calls[u], CallStep(u, i)
        PROVE  FALSE
    BY <1>2 DEF CallStep, UpdateTasksStarts, UpdateTasksEnds, OtherToolRuns, ToolSearches,
                ToolErrorReported
  <1>3. ASSUME NEW u \in Threads, u # t, ApplySucceeds(u) \/ ApplyBreaks(u)
        PROVE  FALSE
    BY <1>3 DEF ApplySucceeds, ApplyBreaks, Leaves, TypeOK
  <1>4. ASSUME NEW e \in edits, EditStep(e)
        PROVE  FALSE
    BY <1>4 DEF EditStep, EditReads, EditWrites, ToolDeletes, EditBreaks, EditEnds, graph
  <1>5. ASSUME Notified, UNCHANGED attempt
        PROVE  FALSE
    BY <1>5 DEF Notified, TypeOK
  <1>6. ASSUME \/ \E k \in Keys : RestDelete(k) \/ \E p \in Patches : RestPatchReads(k, p)
               \/ RestDeleteAll \/ RestPatchWrites \/ RestPatchBreaks
        PROVE  FALSE
    <2>1. Notified /\ UNCHANGED attempt
      BY <1>6 DEF RestDelete, RestPatchReads, RestDeleteAll, RestPatchWrites,
                  RestPatchBreaks, graph, Notified
    <2>. QED
      BY <2>1, <1>5
  <1>7. ~Restart /\ ~UNCHANGED vars
    BY DEF Restart, vars
  <1>. QED
    BY <1>1, <1>2, <1>3, <1>4, <1>6, <1>7 DEF Next

\* hitl_node writes nothing but what the card showed and the human accepted, as
\* the human left it, in every attempt.
THEOREM ApplyWritesWhatWasApprovedHolds == Spec => ApplyWritesWhatWasApproved
  <1>1. ASSUME Inv, [Next]_vars, NEW t \in Threads, Applies(t),
               NEW k \in Keys, tasks'[k] # tasks[k]
        PROVE  /\ k \in DOMAIN card[t] \ decision[t].rejected
               /\ tasks'[k] = Outcome(card[t], decision[t], k)
    <2>1. ApplySucceeds(t) \/ ApplyBreaks(t)
      BY <1>1, AppliesOnly
    <2>2. /\ Parse(outputs[t]) = card[t]
          /\ card[t] \in Cards /\ decision[t] \in Decisions
      BY <1>1, ParseIsCard DEF Applies
    <2>3. k \in Accepted(card[t], decision[t])
          /\ tasks'[k] = Outcome(card[t], decision[t], k)
      <3>1. CASE ApplySucceeds(t)
        BY <1>1, <2>2, <3>1, AppliedType DEF ApplySucceeds, Inv
      <3>2. CASE ApplyBreaks(t)
        BY <1>1, <2>2, <3>2, PartlyType DEF ApplyBreaks, Inv
      <3>. QED
        BY <2>1, <3>1, <3>2
    <2>. QED
      BY <2>3 DEF Accepted
  <1>2. Inv /\ [Next]_vars =>
            [\A t \in Threads : Applies(t) =>
                \A k \in Keys : tasks'[k] # tasks[k] =>
                    /\ k \in DOMAIN card[t] \ decision[t].rejected
                    /\ tasks'[k] = Outcome(card[t], decision[t], k)]_vars
    BY <1>1
  <1>. QED
    BY <1>2, InvHolds, PTL DEF Spec, ApplyWritesWhatWasApproved

\* An approval that is reported to the agent has been applied as a whole.
THEOREM ApprovalTakesEffectHolds == Spec => ApprovalTakesEffect
  <1>1. ASSUME Inv, NEW t \in Threads, ApplySucceeds(t),
               NEW k \in DOMAIN card[t] \ decision[t].rejected
        PROVE  tasks'[k] = Outcome(card[t], decision[t], k)
    <2>1. /\ Parse(outputs[t]) = card[t]
          /\ card[t] \in Cards /\ decision[t] \in Decisions
      BY <1>1, ParseIsCard DEF ApplySucceeds
    <2>. QED
      BY <1>1, <2>1, AppliedType DEF ApplySucceeds, Accepted, Inv
  <1>2. Inv /\ [Next]_vars =>
            [\A t \in Threads : ApplySucceeds(t) =>
                \A k \in DOMAIN card[t] \ decision[t].rejected :
                    tasks'[k] = Outcome(card[t], decision[t], k)]_vars
    BY <1>1
  <1>. QED
    BY <1>2, InvHolds, PTL DEF Spec, ApprovalTakesEffect
=============================================================================
