------------------------------ MODULE JobsProofs ------------------------------
(***************************************************************************)
(* Theorems about Jobs for every value of its constants: any number of     *)
(* jobs, sessions and rounds, any timeouts, store calls that may raise,    *)
(* any number of crashes.                                                  *)
(***************************************************************************)
EXTENDS Jobs, TLAPS

-----------------------------------------------------------------------------
(***************************************************************************)
(* Lemmas about the operators the actions are built from.                  *)
(***************************************************************************)
\* Settling, orphaning and pruning leave a record of every job, with its
\* creation time.
LEMMA ClearedType ==
    ASSUME TypeOK, NEW settled, NEW holder, NEW pruned
    PROVE  /\ Cleared(settled, holder, pruned) \in [Jobs -> Record]
           /\ \A i \in Jobs :
                Cleared(settled, holder, pruned)[i].created = rec[i].created
  <1>1. 0 \in Rounds
    BY ConstantsAssumption DEF ConstantsAssumption, Rounds
  <1>. QED
    BY <1>1 DEF TypeOK, Cleared, Record, TerminalStatuses

\* The finally block keeps the types of the registries and of the locals.
LEMMA CleanUpType ==
    ASSUME TypeOK, NEW j \in Jobs, CleanUp(j)
    PROVE  /\ live' \in SUBSET Jobs
           /\ event' \in [Jobs -> {"none", "unset", "set"}]
           /\ decision' \in [Jobs -> Rounds]
           /\ pc' \in [Jobs -> PC]
           /\ held' \in [Jobs -> Rounds]
           /\ round' \in [Jobs -> Rounds]
           /\ command' \in [Jobs -> Rounds]
           /\ deadline' \in [Jobs -> Nat]
  <1>1. 0 \in Rounds
    BY ConstantsAssumption DEF ConstantsAssumption, Rounds
  <1>. QED
    BY <1>1 DEF TypeOK, CleanUp, RunnerGone, PC

\* A save keeps the type of the store and every creation time.
LEMMA SavedType ==
    ASSUME TypeOK, NEW j \in Jobs, NEW p \in Rounds,
           NEW s \in ActiveStatuses \cup TerminalStatuses
    PROVE  /\ Saved(j, s, p) \in [Jobs -> Record]
           /\ \A i \in Jobs : Saved(j, s, p)[i].created = rec[i].created
           /\ \A i \in Jobs \ {j} : Saved(j, s, p)[i] = rec[i]
           /\ Saved(j, s, p)[j].status = s
           /\ Saved(j, s, p)[j].interrupt = p
  BY DEF TypeOK, Saved, Record

\* Ending with an exception keeps every type.
LEMMA RunnerRaisesType ==
    ASSUME TypeOK, NEW j \in Jobs, NEW p \in Rounds, RunnerRaises(j, p)
    PROVE  TypeOK'
  <1>1. rec' \in [Jobs -> Record]
    BY SavedType DEF RunnerRaises, TypeOK, TerminalStatuses
  <1>. QED
    BY <1>1, CleanUpType DEF RunnerRaises, TypeOK

-----------------------------------------------------------------------------
(***************************************************************************)
(* Types.                                                                  *)
(***************************************************************************)
\* Every step of a runner coroutine keeps the types.
LEMMA RunnerStepType ==
    ASSUME TypeOK, NEW j \in Jobs, RunnerStep(j)
    PROVE  TypeOK'
  <1>1. /\ 0 \in Rounds
        /\ RunTimeout \in Nat /\ ResumeTimeout \in Nat /\ FilterTimeout \in Nat
        /\ rec[j].interrupt \in Rounds
        /\ held[j] \in Rounds
        /\ round[j] < MaxRounds => round[j] + 1 \in Rounds
    BY ConstantsAssumption DEF ConstantsAssumption, Rounds, TypeOK, Record
  <1>2. CASE ExecuteStart(j)
    <2>1. CASE RunnerRaises(j, rec[j].interrupt)
      BY <2>1, <1>1, RunnerRaisesType
    <2>2. CASE /\ rec' = Saved(j, "running", rec[j].interrupt)
               /\ held' = [held EXCEPT ![j] = rec[j].interrupt]
               /\ StartTurn(j)
               /\ UNCHANGED <<now, crashes, process, round, command, seen, crowded>>
      <3>1. rec' \in [Jobs -> Record]
        BY <2>2, <1>1, SavedType DEF ActiveStatuses
      <3>. QED
        BY <3>1, <2>2, <1>1 DEF TypeOK, StartTurn, process, PC
    <2>. QED
      BY <2>1, <2>2, <1>2 DEF ExecuteStart
  <1>3. CASE ExecuteAborts(j)
    BY <1>3, <1>1 DEF ExecuteAborts, RunnerGone, TypeOK, process, PC
  <1>4. CASE TurnInterrupts(j)
    <2>1. CASE StoreMayFail /\ RunnerRaises(j, round[j] + 1)
      BY <2>1, <1>1, <1>4, RunnerRaisesType DEF TurnInterrupts
    <2>2. CASE /\ event' = [event EXCEPT ![j] = NewEvent(j)]
               /\ round' = [round EXCEPT ![j] = @ + 1]
               /\ held' = [held EXCEPT ![j] = round[j] + 1]
               /\ rec' = Saved(j, "interrupt", round[j] + 1)
               /\ pc' = [pc EXCEPT ![j] = "paused"]
               /\ deadline' = [deadline EXCEPT ![j] = ResumeDeadline]
               /\ UNCHANGED <<now, crashes, live, decision, command, seen, crowded>>
      <3>1. round[j] + 1 \in Rounds
        BY <1>4, <1>1 DEF TurnInterrupts
      <3>2. rec' \in [Jobs -> Record]
        BY <2>2, <3>1, SavedType DEF ActiveStatuses
      <3>. QED
        BY <3>1, <3>2, <2>2, <1>1 DEF NewEvent, ResumeDeadline, TypeOK, PC
    <2>. QED
      BY <2>1, <2>2, <1>4 DEF TurnInterrupts
  <1>5. CASE TurnCompletes(j)
    BY <1>5, <1>1 DEF TurnCompletes, TypeOK, store, process, PC
  <1>6. CASE TurnFails(j)
    BY <1>6, <1>1, RunnerRaisesType DEF TurnFails
  <1>16. CASE TurnCancelled(j)
    BY <1>16, CleanUpType DEF TurnCancelled, TypeOK
  <1>7. CASE TurnTimesOut(j)
    <2>1. rec' \in [Jobs -> Record]
      BY <1>7, <1>1, SavedType DEF TurnTimesOut, TypeOK, TerminalStatuses
    <2>. QED
      BY <2>1, <1>7, CleanUpType DEF TurnTimesOut, TypeOK
  <1>8. CASE PauseWakes(j)
    BY <1>8, <1>1 DEF PauseWakes, StartTurn, TypeOK, PC
  <1>9. CASE PauseTimesOut(j)
    <2>1. rec' \in [Jobs -> Record]
      BY <1>9, <1>1, SavedType DEF PauseTimesOut, TypeOK, TerminalStatuses
    <2>. QED
      BY <2>1, <1>9, CleanUpType DEF PauseTimesOut, TypeOK
  <1>10. CASE FilterCompletes(j)
    <2>1. CASE RunnerRaises(j, held[j])
      BY <2>1, <1>1, RunnerRaisesType
    <2>2. CASE /\ rec' = Saved(j, "done", held[j])
               /\ CleanUp(j)
               /\ UNCHANGED <<now, crashes, seen, crowded>>
      <3>1. rec' \in [Jobs -> Record]
        BY <2>2, <1>1, SavedType DEF TerminalStatuses
      <3>. QED
        BY <3>1, <2>2, CleanUpType DEF TypeOK
    <2>. QED
      BY <2>1, <2>2, <1>10 DEF FilterCompletes
  <1>. QED
    BY <1>2, <1>3, <1>4, <1>5, <1>6, <1>7, <1>8, <1>9, <1>10, <1>16 DEF RunnerStep

\* Every HTTP request keeps the types.
LEMMA ClientStepType ==
    ASSUME TypeOK, NEW j \in Jobs, ClientStep(j)
    PROVE  TypeOK'
  <1>1. 0 \in Rounds
    BY ConstantsAssumption DEF ConstantsAssumption, Rounds
  <1>2. CASE SubmitAdmitted(j)
    <2>1. PICK settled, holder, pruned :
            rec' = [Cleared(settled, holder, pruned) EXCEPT
                        ![j] = [status |-> "pending", interrupt |-> 0,
                                created |-> now]]
      BY <1>2 DEF SubmitAdmitted
    <2>2. rec' \in [Jobs -> Record]
      BY <2>1, <1>1, ClearedType DEF TypeOK, Record, ActiveStatuses
    <2>3. SessionOf[j] \in Sessions
      BY ConstantsAssumption DEF ConstantsAssumption
    <2>4. crowded' \in SUBSET Sessions
      BY <2>3, <1>2 DEF SubmitAdmitted, TypeOK
    <2>5. live' \in SUBSET Jobs /\ pc' \in [Jobs -> PC]
      BY <1>2 DEF SubmitAdmitted, TypeOK, PC
    <2>. QED
      BY <2>2, <2>4, <2>5, <1>2 DEF SubmitAdmitted, TypeOK
  <1>3. CASE SubmitConflict(j)
    BY <1>3, ClearedType DEF SubmitConflict, TypeOK, process, runner
  <1>4. CASE SubmitBreaks(j)
    <2>1. PICK settled, holder, pruned : rec' = Cleared(settled, holder, pruned)
      BY <1>4 DEF SubmitBreaks
    <2>. QED
      BY <2>1, <1>4, ClearedType DEF SubmitBreaks, TypeOK, process, runner
  <1>5. CASE Poll(j)
    <2>1. rec' \in [Jobs -> Record]
      BY <1>5, ClearedType DEF LazilyExpired, Poll, TypeOK
    <2>2. seen' \in [Jobs -> SUBSET Rounds]
      BY <1>5 DEF Poll, TypeOK, Record
    <2>. QED
      BY <2>1, <2>2, <1>5 DEF Poll, TypeOK, process, runner
  <1>6. ASSUME NEW r \in Rounds, ResumeDelivered(j, r)
        PROVE  TypeOK'
    <2>1. rec' \in [Jobs -> Record]
      BY <1>6, <1>1, SavedType DEF Flipped, ResumeDelivered, TypeOK, ActiveStatuses
    <2>. QED
      BY <2>1, <1>6 DEF ResumeDelivered, TypeOK, runner
  <1>7. CASE ResumeOrphan(j)
    <2>1. rec' \in [Jobs -> Record]
      BY <1>7, <1>1, SavedType DEF ResumeOrphan, TerminalStatuses
    <2>. QED
      BY <2>1, <1>7 DEF ResumeOrphan, TypeOK, process, runner
  <1>8. CASE ResumeExpired(j)
    BY <1>8, ClearedType DEF LazilyExpired, ResumeExpired, TypeOK, process, runner
  <1>. QED
    BY <1>2, <1>3, <1>4, <1>5, <1>6, <1>7, <1>8 DEF ClientStep

\* The records a process may start with are well formed.
LEMMA InitType == Init => TypeOK
  <1> SUFFICES ASSUME Init
               PROVE  TypeOK
    OBVIOUS
  <1>1. 0 \in Rounds /\ OldAge \in Nat
    BY ConstantsAssumption DEF ConstantsAssumption, Rounds
  <1>2. NoRecord \in Record /\ OldRecord \in Record
    BY <1>1 DEF NoRecord, OldRecord, Record, TerminalStatuses
  <1>3. rec \in [Jobs -> Record]
    BY <1>2 DEF Init
  <1>. QED
    BY <1>1, <1>3 DEF Init, TypeOK, PC

\* Type correctness: records, registries and coroutine locals of app/jobs only
\* take the values of their declared types.
THEOREM TypeCorrect == Spec => []TypeOK
  <1>1. Init => TypeOK
    BY InitType
  <1>2. TypeOK /\ [Next]_vars => TypeOK'
    <2> SUFFICES ASSUME TypeOK, [Next]_vars
                 PROVE  TypeOK'
      OBVIOUS
    <2>1. ASSUME NEW j \in Jobs, RunnerStep(j)
          PROVE  TypeOK'
      BY <2>1, RunnerStepType
    <2>2. ASSUME NEW j \in Jobs, ClientStep(j)
          PROVE  TypeOK'
      BY <2>2, ClientStepType
    <2>3. CASE Crash
      BY <2>3, ConstantsAssumption
      DEF Crash, ConstantsAssumption, TypeOK, Rounds, PC
    <2>4. CASE Tick
      BY <2>4 DEF Tick, TypeOK, store, process, runner
    <2>5. CASE UNCHANGED vars
      BY <2>5 DEF vars, store, process, runner, TypeOK
    <2>. QED
      BY <2>1, <2>2, <2>3, <2>4, <2>5 DEF Next
  <1>. QED
    BY <1>1, <1>2, PTL DEF Spec

-----------------------------------------------------------------------------
(***************************************************************************)
(* The hand-over between a paused runner and resume().  RunnerInv adds to  *)
(* the properties what the coroutine's place tells of its locals.          *)
(***************************************************************************)
\* Rounds count from the first turn, and a paused runner has an event, whose
\* setting was preceded by the decision.
RunnerLocals(j) ==
    /\ pc[j] \in {"none", "scheduled", "gone"} => round[j] = 0
    /\ pc[j] = "paused" =>
        round[j] > 0 /\ event[j] # "none"
    /\ pc[j] = "paused" /\ event[j] = "set" => decision[j] # 0

RunnerInv ==
    /\ TypeOK
    /\ NoLostWakeup
    /\ EveryResumeHasADecision
    /\ RegistriesFollowRunners
    /\ \A j \in Jobs : RunnerLocals(j)

\* What RunnerInv says of one job.
JobInv(j) ==
    /\ Alive(j) /\ rec[j].status = "interrupt"
            => /\ pc[j] = "paused"
               /\ event[j] = "unset"
               /\ rec[j].interrupt = round[j]
    /\ pc[j] = "turn" /\ round[j] > 0 => command[j] # 0
    /\ Alive(j) => j \in live
    /\ event[j] # "none" => Alive(j) /\ round[j] > 0
    /\ decision[j] # 0 => pc[j] = "paused"
    /\ RunnerLocals(j)

LEMMA RunnerInvPerJob ==
    RunnerInv <=> TypeOK /\ \A j \in Jobs : JobInv(j)
  BY DEF RunnerInv, JobInv, NoLostWakeup, EveryResumeHasADecision,
         RegistriesFollowRunners

\* Settling and pruning never make a record an interrupted one.
LEMMA ClearedInterrupt ==
    ASSUME TypeOK, NEW settled, NEW holder, NEW pruned, NEW i \in Jobs,
           Cleared(settled, holder, pruned)[i].status = "interrupt"
    PROVE  Cleared(settled, holder, pruned)[i] = rec[i]
  BY DEF TypeOK, Cleared, Record

\* A step that touches nothing of a job but its record, and does not make it
\* an interrupted one, keeps the job's invariant.
LEMMA JobInvFrame ==
    ASSUME NEW i \in Jobs, JobInv(i),
           pc'[i] = pc[i], event'[i] = event[i], decision'[i] = decision[i],
           round'[i] = round[i], command'[i] = command[i],
           i \in live => i \in live',
           rec'[i].status = "interrupt" => rec'[i] = rec[i]
    PROVE  JobInv(i)'
  BY DEF JobInv, Alive, RunnerLocals

\* A job whose coroutine has run its finally block satisfies the invariant.
LEMMA CleanUpInv ==
    ASSUME TypeOK, NEW j \in Jobs, CleanUp(j)
    PROVE  JobInv(j)'
  BY DEF TypeOK, CleanUp, RunnerGone, JobInv, Alive, RunnerLocals

\* The finally block of j's coroutine leaves the other jobs' invariants alone.
LEMMA CleanUpOthers ==
    ASSUME TypeOK, NEW j \in Jobs, CleanUp(j), NEW i \in Jobs, i # j,
           JobInv(i), rec'[i] = rec[i]
    PROVE  JobInv(i)'
  <1>. /\ pc'[i] = pc[i] /\ event'[i] = event[i] /\ decision'[i] = decision[i]
       /\ round'[i] = round[i] /\ command'[i] = command[i]
       /\ i \in live => i \in live'
    BY DEF TypeOK, CleanUp, RunnerGone
  <1>. QED
    BY JobInvFrame

\* A step of j's coroutine keeps every job's invariant.
LEMMA RunnerStepInv ==
    ASSUME RunnerInv, NEW j \in Jobs, RunnerStep(j), NEW i \in Jobs
    PROVE  JobInv(i)'
  <1>1. TypeOK /\ JobInv(j) /\ JobInv(i)
    BY RunnerInvPerJob
  <1>2. /\ rec[j].interrupt \in Rounds /\ held[j] \in Rounds
        /\ round[j] \in Nat
        /\ round[j] < MaxRounds => round[j] + 1 \in Rounds
    BY <1>1, ConstantsAssumption
    DEF ConstantsAssumption, Rounds, TypeOK, Record
  <1>3. ASSUME CleanUp(j), rec' # rec => \E s, p : rec' = Saved(j, s, p)
        PROVE  JobInv(i)'
    <2>1. i # j => rec'[i] = rec[i]
      BY <1>1, <1>3 DEF Saved, TypeOK
    <2>. QED
      BY <2>1, <1>1, <1>3, CleanUpInv, CleanUpOthers
  <1>4. ASSUME NEW p, RunnerRaises(j, p)
        PROVE  JobInv(i)'
    BY <1>3, <1>4 DEF RunnerRaises
  <1>5. CASE ExecuteStart(j)
    <2>1. CASE RunnerRaises(j, rec[j].interrupt)
      BY <2>1, <1>4
    <2>2. CASE /\ rec' = Saved(j, "running", rec[j].interrupt)
               /\ held' = [held EXCEPT ![j] = rec[j].interrupt]
               /\ StartTurn(j)
               /\ UNCHANGED <<now, crashes, process, round, command, seen, crowded>>
      <3>1. CASE i = j
        BY <3>1, <2>2, <1>1, <1>2, <1>5
        DEF ExecuteStart, Saved, StartTurn, process, TypeOK, JobInv, Alive,
            RunnerLocals
      <3>2. CASE i # j
        BY <3>2, <2>2, <1>1, JobInvFrame
        DEF Saved, StartTurn, process, TypeOK
      <3>. QED
        BY <3>1, <3>2
    <2>. QED
      BY <2>1, <2>2, <1>5 DEF ExecuteStart
  <1>6. CASE ExecuteAborts(j)
    <2>1. CASE i = j
      BY <2>1, <1>6, <1>1
      DEF ExecuteAborts, RunnerGone, process, TypeOK, JobInv, Alive, RunnerLocals
    <2>2. CASE i # j
      BY <2>2, <1>6, <1>1, JobInvFrame
      DEF ExecuteAborts, RunnerGone, process, TypeOK
    <2>. QED
      BY <2>1, <2>2
  <1>7. CASE TurnInterrupts(j)
    <2>1. CASE RunnerRaises(j, round[j] + 1)
      BY <2>1, <1>4
    <2>2. CASE /\ event' = [event EXCEPT ![j] = NewEvent(j)]
               /\ round' = [round EXCEPT ![j] = @ + 1]
               /\ held' = [held EXCEPT ![j] = round[j] + 1]
               /\ rec' = Saved(j, "interrupt", round[j] + 1)
               /\ pc' = [pc EXCEPT ![j] = "paused"]
               /\ deadline' = [deadline EXCEPT ![j] = ResumeDeadline]
               /\ UNCHANGED <<now, crashes, live, decision, command, seen, crowded>>
      <3>1. CASE i = j
        BY <3>1, <2>2, <1>1, <1>2, <1>7
        DEF NewEvent, ResumeDeadline, TurnInterrupts, Saved, TypeOK, JobInv, Alive, RunnerLocals, Record
      <3>2. CASE i # j
        BY <3>2, <2>2, <1>1, JobInvFrame DEF Saved, TypeOK
      <3>. QED
        BY <3>1, <3>2
    <2>. QED
      BY <2>1, <2>2, <1>7 DEF TurnInterrupts
  <1>8. CASE TurnCompletes(j)
    <2>1. CASE i = j
      BY <2>1, <1>8, <1>1
      DEF TurnCompletes, store, process, TypeOK, JobInv, Alive, RunnerLocals
    <2>2. CASE i # j
      BY <2>2, <1>8, <1>1, JobInvFrame
      DEF TurnCompletes, store, process, TypeOK
    <2>. QED
      BY <2>1, <2>2
  <1>9. CASE TurnFails(j)
    BY <1>9, <1>4 DEF TurnFails
  <1>16. CASE TurnCancelled(j)
    BY <1>16, <1>3 DEF TurnCancelled
  <1>10. CASE TurnTimesOut(j)
    BY <1>10, <1>3 DEF TurnTimesOut
  <1>11. CASE PauseWakes(j)
    <2>1. CASE i = j
      BY <2>1, <1>11, <1>1
      DEF PauseWakes, StartTurn, TypeOK, JobInv, Alive, RunnerLocals
    <2>2. CASE i # j
      BY <2>2, <1>11, <1>1, JobInvFrame DEF PauseWakes, StartTurn, TypeOK
    <2>. QED
      BY <2>1, <2>2
  <1>12. CASE PauseTimesOut(j)
    BY <1>12, <1>3 DEF PauseTimesOut
  <1>13. CASE FilterCompletes(j)
    <2>1. CASE RunnerRaises(j, held[j])
      BY <2>1, <1>4
    <2>2. CASE rec' = Saved(j, "done", held[j]) /\ CleanUp(j)
      BY <2>2, <1>3
    <2>. QED
      BY <2>1, <2>2, <1>13 DEF FilterCompletes
  <1>. QED
    BY <1>5, <1>6, <1>7, <1>8, <1>9, <1>10, <1>11, <1>12, <1>13, <1>16 DEF RunnerStep

\* So does every HTTP request.
LEMMA ClientStepInv ==
    ASSUME RunnerInv, NEW j \in Jobs, ClientStep(j), NEW i \in Jobs
    PROVE  JobInv(i)'
  <1>1. TypeOK /\ JobInv(j) /\ JobInv(i)
    BY RunnerInvPerJob
  <1>2. ASSUME NEW s, NEW h, NEW p, rec' = Cleared(s, h, p),
               UNCHANGED <<process, runner>>
        PROVE  JobInv(i)'
    BY <1>1, <1>2, ClearedInterrupt, JobInvFrame DEF process, runner
  <1>3. CASE SubmitAdmitted(j)
    <2>1. PICK settled, holder, pruned :
            rec' = [Cleared(settled, holder, pruned) EXCEPT
                        ![j] = [status |-> "pending", interrupt |-> 0,
                                created |-> now]]
      BY <1>3 DEF SubmitAdmitted
    <2>2. Cleared(settled, holder, pruned) \in [Jobs -> Record]
      BY <1>1, ClearedType
    <2>3. CASE i = j
      BY <2>1, <2>2, <2>3, <1>1, <1>3
      DEF SubmitAdmitted, CanSubmit, TypeOK, JobInv, Alive, RunnerLocals
    <2>4. CASE i # j
      <3>1. rec'[i] = Cleared(settled, holder, pruned)[i]
        BY <2>1, <2>2, <2>4
      <3>2. rec'[i].status = "interrupt" => rec'[i] = rec[i]
        BY <3>1, <1>1, ClearedInterrupt
      <3>. QED
        BY <3>2, <2>4, <1>1, <1>3, JobInvFrame DEF SubmitAdmitted, TypeOK
    <2>. QED
      BY <2>3, <2>4
  <1>4. CASE SubmitConflict(j)
    BY <1>2, <1>4 DEF SubmitConflict
  <1>5. CASE SubmitBreaks(j)
    BY <1>2, <1>5 DEF SubmitBreaks
  <1>6. CASE Poll(j)
    <2>1. rec' = rec \/ rec' = Cleared({j}, {}, {})
      BY <1>6 DEF LazilyExpired, Poll
    <2>2. CASE rec' = rec
      BY <2>2, <1>1, <1>6, JobInvFrame DEF Poll, process, runner
    <2>. QED
      BY <2>1, <2>2, <1>2, <1>6 DEF Poll
  <1>7. ASSUME NEW r \in Rounds, ResumeDelivered(j, r)
        PROVE  JobInv(i)'
    <2>1. CASE i = j
      <3>1. /\ pc[j] = "paused" /\ round[j] > 0
            /\ decision'[j] # 0
            /\ pc' = pc /\ round' = round /\ command' = command /\ live' = live
        BY <1>1, <1>7
        DEF ResumeDelivered, runner, TypeOK, JobInv, Alive, RunnerLocals
      <3>2. CASE UNCHANGED <<rec, event>>
        BY <3>1, <3>2, <2>1, <1>1 DEF JobInv, Alive, RunnerLocals
      <3>3. CASE /\ rec' = Flipped(j)
                 /\ event' = [event EXCEPT ![j] = "set"]
        <4>1. rec'[j].status = "running" /\ event'[j] = "set"
          BY <3>3, <1>1 DEF Flipped, Saved, TypeOK
        <4>. QED
          BY <4>1, <3>1, <2>1, <1>1 DEF JobInv, Alive, RunnerLocals
      <3>. QED
        BY <3>2, <3>3, <1>7 DEF ResumeDelivered
    <2>2. CASE i # j
      BY <2>2, <1>1, <1>7, JobInvFrame
      DEF Flipped, ResumeDelivered, runner, Saved, TypeOK
    <2>. QED
      BY <2>1, <2>2
  <1>8. CASE ResumeOrphan(j)
    <2>1. rec'[i].status = "interrupt" => rec'[i] = rec[i]
      BY <1>1, <1>8 DEF ResumeOrphan, Saved, TypeOK, Record
    <2>. QED
      BY <2>1, <1>1, <1>8, JobInvFrame DEF ResumeOrphan, process, runner
  <1>9. CASE ResumeExpired(j)
    BY <1>2, <1>9 DEF LazilyExpired, ResumeExpired
  <1>. QED
    BY <1>3, <1>4, <1>5, <1>6, <1>7, <1>8, <1>9 DEF ClientStep

LEMMA RunnerInvariant == Spec => []RunnerInv
  <1>1. Init => RunnerInv
    <2>1. Init => TypeOK
      BY InitType
    <2>2. Init => \A j \in Jobs : JobInv(j)
      BY DEF Init, JobInv, Alive, RunnerLocals
    <2>. QED
      BY <2>1, <2>2, RunnerInvPerJob
  <1>2. TypeOK' /\ RunnerInv /\ [Next]_vars => RunnerInv'
    <2> SUFFICES ASSUME TypeOK', RunnerInv, [Next]_vars, NEW i \in Jobs
                 PROVE  JobInv(i)'
      BY RunnerInvPerJob
      DEF RunnerInv, JobInv, NoLostWakeup, EveryResumeHasADecision,
          RegistriesFollowRunners
    <2>0. TypeOK /\ JobInv(i)
      BY RunnerInvPerJob
    <2>1. ASSUME NEW j \in Jobs, RunnerStep(j)
          PROVE  JobInv(i)'
      BY <2>1, RunnerStepInv
    <2>2. ASSUME NEW j \in Jobs, ClientStep(j)
          PROVE  JobInv(i)'
      BY <2>2, ClientStepInv
    <2>3. CASE Crash
      BY <2>3, <2>0 DEF Crash, TypeOK, JobInv, Alive, RunnerLocals
    <2>4. CASE Tick
      BY <2>4, <2>0, JobInvFrame DEF Tick, store, process, runner
    <2>5. CASE UNCHANGED vars
      BY <2>5, <2>0, JobInvFrame DEF vars, store, process, runner
    <2>. QED
      BY <2>1, <2>2, <2>3, <2>4, <2>5 DEF Next
  <1>. QED
    BY <1>1, <1>2, TypeCorrect, PTL DEF Spec

\* An approval card a client can see of a running job can be answered: the
\* runner waits, and on an event that is not set (_pause_for_hitl, resume()).
THEOREM NoLostWakeupHolds == Spec => []NoLostWakeup
  <1>1. RunnerInv => NoLostWakeup
    BY DEF RunnerInv
  <1>. QED
    BY <1>1, RunnerInvariant, PTL

\* The runner never resumes the graph with the {} default of its pop().
THEOREM EveryResumeHasADecisionHolds == Spec => []EveryResumeHasADecision
  <1>1. RunnerInv => EveryResumeHasADecision
    BY DEF RunnerInv
  <1>. QED
    BY <1>1, RunnerInvariant, PTL

-----------------------------------------------------------------------------
(***************************************************************************)
(* The session lock.  Nothing is assumed of the size of a page: a submit   *)
(* that searches a crowded namespace puts its session into crowded.        *)
(***************************************************************************)
\* The lock with what it rests on: submit() settles a record as an orphan only
\* if its job is not in _live_jobs, and there every runner is.
LockInv ==
    /\ TypeOK
    /\ SessionLock
    /\ \A j \in Jobs : Alive(j) => j \in live

\* A step that activates no record but a runner's own, starts no runner and
\* settles no runner inside its lifetime keeps the lock.
LEMMA LockFrame ==
    ASSUME LockInv, now' \in Nat, now' >= now, crowded' = crowded,
           \A i \in Jobs :
              /\ rec'[i].created = rec[i].created
              /\ Active(i)' => Active(i) \/ Alive(i)
              /\ Alive(i)' => Alive(i)
              /\ Alive(i)' /\ Active(i) /\ ~Expired(i) => Active(i)'
    PROVE  SessionLock'
  <1>1. \A i \in Jobs : rec[i].created \in Nat
    BY DEF LockInv, TypeOK, Record
  <1>2. Expiry \in Nat /\ now \in Nat
    BY ConstantsAssumption DEF ConstantsAssumption, Expiry, LockInv, TypeOK
  <1>3. \A i \in Jobs : Expired(i) => Expired(i)'
    BY <1>1, <1>2 DEF Expired, Expiry
  <1>4. \A i \in Jobs : Fresh(i)' => Fresh(i)
    BY <1>3 DEF Fresh, LockInv, SessionLock
  <1>. QED
    BY <1>3, <1>4 DEF LockInv, SessionLock

\* What Cleared leaves of a record under submit()'s conditions.
LEMMA ClearedLock ==
    ASSUME LockInv, NEW settled, NEW holder, NEW pruned, NEW i \in Jobs,
           \A k \in settled : Stale(k),
           Orphaned(holder),
           \A k \in pruned : Terminal(k) \/ k \in settled \cup holder
    PROVE  /\ Cleared(settled, holder, pruned)[i].status \in ActiveStatuses
                => Active(i) /\ i \notin settled /\ i \notin holder
           /\ Alive(i) /\ Active(i) /\ ~Expired(i)
                => Cleared(settled, holder, pruned)[i] = rec[i]
  BY DEF Orphaned, LockInv, TypeOK, Record, Cleared, Stale, Active, Terminal,
         ActiveStatuses, TerminalStatuses

\* A step of j's coroutine keeps the lock.
LEMMA RunnerStepLock ==
    ASSUME LockInv, NEW j \in Jobs, RunnerStep(j)
    PROVE  SessionLock' /\ \A i \in Jobs : Alive(i)' => i \in live'
  <1>1. /\ TypeOK /\ now \in Nat /\ now >= now /\ Alive(j)
        /\ crowded' = crowded
    BY DEF LockInv, TypeOK, RunnerStep, Alive, RunnerRaises, ExecuteStart,
           ExecuteAborts, TurnInterrupts, TurnCompletes, TurnFails,
           TurnCancelled, TurnTimesOut, PauseWakes, PauseTimesOut,
           FilterCompletes
  <1>2. /\ rec[j].interrupt \in Rounds /\ held[j] \in Rounds
        /\ round[j] < MaxRounds => round[j] + 1 \in Rounds
    BY <1>1, ConstantsAssumption DEF ConstantsAssumption, Rounds, TypeOK, Record
  <1>3. ASSUME CleanUp(j), now' = now,
               rec' = rec \/ \E s \in TerminalStatuses, p \in Rounds :
                                rec' = Saved(j, s, p)
        PROVE  SessionLock' /\ \A i \in Jobs : Alive(i)' => i \in live'
    <2>1. /\ ~Alive(j)'
          /\ \A i \in Jobs \ {j} : pc'[i] = pc[i] /\ (i \in live => i \in live')
      BY <1>1, <1>3 DEF CleanUp, RunnerGone, TypeOK, Alive
    <2>2. \A i \in Jobs : /\ rec'[i].created = rec[i].created
                          /\ i # j => rec'[i] = rec[i]
                          /\ rec'[j] = rec[j] \/ rec'[j].status \in TerminalStatuses
      BY <1>1, <1>3, SavedType
    <2>3. SessionLock'
      BY <2>1, <2>2, <1>1, <1>3, LockFrame
      DEF Alive, Active, ActiveStatuses, TerminalStatuses
    <2>. QED
      BY <2>1, <2>3 DEF LockInv, Alive
  <1>4. ASSUME NEW p \in Rounds, RunnerRaises(j, p)
        PROVE  SessionLock' /\ \A i \in Jobs : Alive(i)' => i \in live'
    BY <1>3, <1>4 DEF RunnerRaises, TerminalStatuses
  <1>5. ASSUME NEW s \in ActiveStatuses, NEW p \in Rounds,
               rec' = Saved(j, s, p), now' = now, live' = live,
               \A i \in Jobs : Alive(i)' => Alive(i)
        PROVE  SessionLock' /\ \A i \in Jobs : Alive(i)' => i \in live'
    <2>1. \A i \in Jobs : /\ rec'[i].created = rec[i].created
                          /\ i # j => rec'[i] = rec[i]
                          /\ rec'[j].status \in ActiveStatuses
      BY <1>1, <1>5, SavedType
    <2>2. SessionLock'
      BY <2>1, <1>1, <1>5, LockFrame DEF Active
    <2>. QED
      BY <2>2, <1>5 DEF LockInv
  <1>6. ASSUME rec' = rec, now' = now, live' = live,
               \A i \in Jobs : Alive(i)' => Alive(i)
        PROVE  SessionLock' /\ \A i \in Jobs : Alive(i)' => i \in live'
    BY <1>6, <1>1, LockFrame DEF Active, LockInv
  <1>7. CASE ExecuteStart(j)
    <2>1. CASE RunnerRaises(j, rec[j].interrupt)
      BY <2>1, <1>2, <1>4
    <2>2. CASE /\ rec' = Saved(j, "running", rec[j].interrupt)
               /\ StartTurn(j)
               /\ UNCHANGED <<now, crashes, process, round, command, seen, crowded>>
      <3>1. \A i \in Jobs : Alive(i)' => Alive(i)
        BY <2>2, <1>1 DEF StartTurn, TypeOK, Alive
      <3>. QED
        BY <3>1, <2>2, <1>2, <1>5 DEF process, ActiveStatuses
    <2>. QED
      BY <2>1, <2>2, <1>7 DEF ExecuteStart
  <1>8. CASE ExecuteAborts(j)
    <2>1. \A i \in Jobs : Alive(i)' => Alive(i)
      BY <1>8, <1>1 DEF ExecuteAborts, RunnerGone, TypeOK, Alive
    <2>. QED
      BY <2>1, <1>8, <1>6 DEF ExecuteAborts, process
  <1>9. CASE TurnInterrupts(j)
    <2>1. CASE RunnerRaises(j, round[j] + 1)
      BY <2>1, <1>2, <1>4, <1>9 DEF TurnInterrupts
    <2>2. CASE /\ rec' = Saved(j, "interrupt", round[j] + 1)
               /\ pc' = [pc EXCEPT ![j] = "paused"]
               /\ UNCHANGED <<now, crashes, live, decision, command, seen, crowded>>
      <3>1. \A i \in Jobs : Alive(i)' => Alive(i)
        BY <2>2, <1>1 DEF TypeOK, Alive
      <3>. QED
        BY <3>1, <2>2, <1>2, <1>5, <1>9 DEF TurnInterrupts, ActiveStatuses
    <2>. QED
      BY <2>1, <2>2, <1>9 DEF TurnInterrupts
  <1>10. CASE TurnCompletes(j)
    <2>1. \A i \in Jobs : Alive(i)' => Alive(i)
      BY <1>10, <1>1 DEF TurnCompletes, TypeOK, Alive
    <2>. QED
      BY <2>1, <1>10, <1>6 DEF TurnCompletes, store, process
  <1>11. CASE TurnFails(j)
    BY <1>11, <1>2, <1>4 DEF TurnFails
  <1>16. CASE TurnCancelled(j)
    BY <1>16, <1>3 DEF TurnCancelled
  <1>12. CASE TurnTimesOut(j)
    BY <1>12, <1>2, <1>3 DEF TurnTimesOut, TerminalStatuses
  <1>13. CASE PauseWakes(j)
    <2>1. \A i \in Jobs : Alive(i)' => Alive(i)
      BY <1>13, <1>1 DEF PauseWakes, StartTurn, TypeOK, Alive
    <2>. QED
      BY <2>1, <1>13, <1>6 DEF PauseWakes
  <1>14. CASE PauseTimesOut(j)
    BY <1>14, <1>2, <1>3 DEF PauseTimesOut, TerminalStatuses
  <1>15. CASE FilterCompletes(j)
    BY <1>15, <1>2, <1>3, <1>4 DEF FilterCompletes, TerminalStatuses
  <1>. QED
    BY <1>7, <1>8, <1>9, <1>10, <1>11, <1>12, <1>13, <1>14, <1>15, <1>16
    DEF RunnerStep

\* A submit that is let in by a search of the whole namespace finds the session
\* free: whoever held it has been settled, and no runner inside its lifetime is
\* among the settled ones.
LEMMA SubmitLock ==
    ASSUME LockInv, NEW j \in Jobs, SubmitAdmitted(j)
    PROVE  SessionLock' /\ \A i \in Jobs : Alive(i)' => i \in live'
  <1>1. PICK settled \in SUBSET Existing, holder \in SUBSET Existing :
            /\ FindActive(j, settled, holder)
            /\ Orphaned(holder)
            /\ \E pruned \in PruneResults(settled, holder) :
                rec' = [Cleared(settled, holder, pruned) EXCEPT
                            ![j] = [status |-> "pending", interrupt |-> 0,
                                    created |-> now]]
    BY DEF SubmitAdmitted
  <1>2. PICK pruned \in PruneResults(settled, holder) :
            rec' = [Cleared(settled, holder, pruned) EXCEPT
                        ![j] = [status |-> "pending", interrupt |-> 0,
                                created |-> now]]
    BY <1>1
  <1>3. /\ TypeOK
        /\ Cleared(settled, holder, pruned) \in [Jobs -> Record]
        /\ \A i \in Jobs :
             Cleared(settled, holder, pruned)[i].created = rec[i].created
    BY ClearedType DEF LockInv
  <1>4. /\ rec'[j].status = "pending" /\ rec'[j].created = now
        /\ \A i \in Jobs \ {j} : rec'[i] = Cleared(settled, holder, pruned)[i]
    BY <1>2, <1>3
  <1>5. /\ now' = now /\ live' = live \cup {j}
        /\ \A i \in Jobs \ {j} : pc'[i] = pc[i]
        /\ now \in Nat /\ Expiry \in Nat
        /\ crowded \subseteq crowded'
        /\ ~PageHoldsAll => SessionOf[j] \in crowded'
    BY <1>3, ConstantsAssumption
    DEF SubmitAdmitted, TypeOK, Expiry, ConstantsAssumption
  <1>6. /\ \A k \in settled : Stale(k)
        /\ \A k \in pruned : Terminal(k) \/ k \in settled \cup holder
    BY <1>1 DEF FindActive, PruneResults
  <1>7. ASSUME NEW i \in Jobs, i # j, SessionOf[i] = SessionOf[j]
        PROVE  Fresh(i)' => SessionOf[j] \in crowded'
    <2> SUFFICES ASSUME Fresh(i)', SessionOf[j] \notin crowded'
                 PROVE  FALSE
      OBVIOUS
    <2>1. /\ Cleared(settled, holder, pruned)[i].status \in ActiveStatuses
          /\ ~Expired(i)
      BY <1>3, <1>4, <1>5, <1>7 DEF Fresh, Active, Expired, Expiry
    <2>2. Active(i) /\ i \notin holder
      BY <2>1, <1>1, <1>6, ClearedLock
    <2>3. i \in Existing /\ Fresh(i)
      BY <2>1, <2>2 DEF Existing, Fresh, Active, ActiveStatuses
    <2>4. PageHoldsAll /\ \A found \in SearchResults : found = Existing
      BY <1>5 DEF SearchResults
    <2>5. PICK found \in SearchResults :
            \/ {k \in found : Fresh(k) /\ SessionOf[k] = SessionOf[j]} = {}
            \/ \E a \in {k \in found : Fresh(k) /\ SessionOf[k] = SessionOf[j]} :
                  holder = {a}
      BY <1>1 DEF FindActive
    <2>6. i \in {k \in found : Fresh(k) /\ SessionOf[k] = SessionOf[j]}
      BY <2>3, <2>4, <2>5, <1>7
    <2>7. PICK a \in Jobs : /\ holder = {a}
                            /\ Fresh(a) /\ SessionOf[a] = SessionOf[j]
      BY <2>4, <2>5, <2>6 DEF Existing
    <2>. QED
      BY <2>2, <2>3, <2>7, <1>5, <1>7 DEF LockInv, SessionLock
  <1>8. ASSUME NEW i \in Jobs, i # j, Fresh(i)'
        PROVE  Fresh(i)
    <2>1. /\ Cleared(settled, holder, pruned)[i].status \in ActiveStatuses
          /\ ~Expired(i)
      BY <1>3, <1>4, <1>5, <1>8 DEF Fresh, Active, Expired, Expiry
    <2>. QED
      BY <2>1, <1>1, <1>6, ClearedLock DEF Fresh
  <1>9. ASSUME NEW i \in Jobs, Alive(i)', ~Expired(i)'
        PROVE  Active(i)'
    <2>1. CASE i = j
      BY <2>1, <1>4 DEF Active, ActiveStatuses
    <2>2. CASE i # j
      <3>1. Alive(i) /\ ~Expired(i)
        BY <2>2, <1>3, <1>4, <1>5, <1>9 DEF Alive, Expired, Expiry
      <3>2. Active(i)
        BY <3>1 DEF LockInv, SessionLock
      <3>3. Cleared(settled, holder, pruned)[i] = rec[i]
        BY <3>1, <3>2, <1>1, <1>6, ClearedLock
      <3>. QED
        BY <3>2, <3>3, <2>2, <1>4 DEF Active
    <2>. QED
      BY <2>1, <2>2
  <1>10. SessionLock'
    BY <1>5, <1>7, <1>8, <1>9 DEF LockInv, SessionLock
  <1>11. \A i \in Jobs : Alive(i)' => i \in live'
    BY <1>5 DEF LockInv, Alive
  <1>. QED
    BY <1>10, <1>11

\* Every other request activates nothing and settles only stale records, or
\* orphans, which have no runner.
LEMMA ClientStepLock ==
    ASSUME LockInv, NoLostWakeup, NEW j \in Jobs, ClientStep(j)
    PROVE  SessionLock' /\ \A i \in Jobs : Alive(i)' => i \in live'
  <1>1. TypeOK /\ now \in Nat
    BY DEF LockInv, TypeOK
  <1>2. ASSUME NEW settled, NEW holder, NEW pruned,
               \A k \in settled : Stale(k),
               Orphaned(holder),
               \A k \in pruned : Terminal(k) \/ k \in settled \cup holder,
               rec' = Cleared(settled, holder, pruned),
               UNCHANGED <<now, process, runner, crowded>>
        PROVE  SessionLock' /\ \A i \in Jobs : Alive(i)' => i \in live'
    <2>1. \A i \in Jobs : rec'[i].created = rec[i].created
      BY <1>1, <1>2, ClearedType
    <2>2. \A i \in Jobs : Active(i)' => Active(i)
      BY <1>2, ClearedLock DEF Active
    <2>3. \A i \in Jobs : Alive(i) /\ Active(i) /\ ~Expired(i) => rec'[i] = rec[i]
      BY <1>2, ClearedLock
    <2>4. \A i \in Jobs : Alive(i)' <=> Alive(i)
      BY <1>2 DEF Alive, runner
    <2>5. SessionLock'
      BY <2>1, <2>2, <2>3, <2>4, <1>1, <1>2, LockFrame DEF Active
    <2>. QED
      BY <2>4, <2>5, <1>2 DEF LockInv, process
  <1>3. CASE SubmitAdmitted(j)
    BY <1>3, SubmitLock
  <1>4. CASE SubmitConflict(j)
    <2>1. PICK settled : /\ rec' = Cleared(settled, {}, {})
                         /\ \A k \in settled : Stale(k)
      BY <1>4 DEF SubmitConflict, FindActive
    <2>. QED
      BY <2>1, <1>2, <1>4 DEF SubmitConflict, Orphaned
  <1>5. CASE SubmitBreaks(j)
    <2>1. PICK settled, holder, pruned :
            /\ rec' = Cleared(settled, holder, pruned)
            /\ \A k \in settled : Stale(k)
            /\ Orphaned(holder)
            /\ \A k \in pruned : Terminal(k) \/ k \in settled \cup holder
      <3>1. CASE \E settled \in SUBSET {i \in Jobs : Stale(i)} :
                    rec' = Cleared(settled, {}, {})
        BY <3>1 DEF Orphaned
      <3>2. CASE \E settled \in SUBSET Existing, holder \in SUBSET Existing :
                    /\ FindActive(j, settled, holder)
                    /\ Orphaned(holder)
                    /\ \E prunable \in PruneResults(settled, holder) :
                        \E pruned \in SUBSET prunable :
                            rec' = Cleared(settled, holder, pruned)
        BY <3>2 DEF FindActive, PruneResults
      <3>. QED
        BY <3>1, <3>2, <1>5 DEF SubmitBreaks
    <2>. QED
      BY <2>1, <1>2, <1>5 DEF SubmitBreaks
  <1>6. ASSUME rec' = rec, UNCHANGED <<now, live, runner, crowded>>
        PROVE  SessionLock' /\ \A i \in Jobs : Alive(i)' => i \in live'
    BY <1>6, <1>1, LockFrame DEF Active, Alive, LockInv, runner
  <1>7. CASE Poll(j)
    BY <1>7, <1>2, <1>6 DEF LazilyExpired, Orphaned, Poll, process, runner
  <1>8. ASSUME NEW r \in Rounds, ResumeDelivered(j, r)
        PROVE  SessionLock' /\ \A i \in Jobs : Alive(i)' => i \in live'
    <2>1. CASE rec' = rec
      BY <2>1, <1>6, <1>8 DEF ResumeDelivered
    <2>2. CASE rec' = Flipped(j)
      <3>1. 0 \in Rounds
        BY ConstantsAssumption DEF ConstantsAssumption, Rounds
      <3>2. \A i \in Jobs : /\ rec'[i].created = rec[i].created
                            /\ i # j => rec'[i] = rec[i]
                            /\ rec'[j].status \in ActiveStatuses
        BY <2>2, <3>1, <1>1, SavedType DEF Flipped, ActiveStatuses
      <3>3. Active(j) /\ \A i \in Jobs : Alive(i)' <=> Alive(i)
        BY <1>8 DEF ResumeDelivered, Active, ActiveStatuses, Alive, runner
      <3>4. now' = now /\ live' = live /\ crowded' = crowded
        BY <1>8 DEF ResumeDelivered
      <3>5. SessionLock'
        BY <3>2, <3>3, <3>4, <1>1, LockFrame DEF Active
      <3>. QED
        BY <3>3, <3>4, <3>5 DEF LockInv
    <2>. QED
      BY <2>1, <2>2, <1>8 DEF ResumeDelivered
  <1>9. CASE ResumeExpired(j)
    BY <1>9, <1>2 DEF LazilyExpired, Orphaned, ResumeExpired
  <1>10. CASE ResumeOrphan(j)
    <2>1. ~Alive(j)
      BY <1>10 DEF ResumeOrphan, NoLostWakeup
    <2>2. 0 \in Rounds
      BY ConstantsAssumption DEF ConstantsAssumption, Rounds
    <2>3. \A i \in Jobs : /\ rec'[i].created = rec[i].created
                          /\ i # j => rec'[i] = rec[i]
                          /\ rec'[j].status = "timeout"
      BY <1>10, <2>2, <1>1, SavedType DEF ResumeOrphan, TerminalStatuses
    <2>4. /\ now' = now /\ live' = live /\ crowded' = crowded
          /\ \A i \in Jobs : Alive(i)' <=> Alive(i)
      BY <1>10 DEF ResumeOrphan, process, runner, Alive
    <2>5. SessionLock'
      BY <2>1, <2>3, <2>4, <1>1, LockFrame DEF Active, ActiveStatuses
    <2>. QED
      BY <2>4, <2>5 DEF LockInv
  <1>. QED
    BY <1>3, <1>4, <1>5, <1>7, <1>8, <1>9, <1>10 DEF ClientStep

\* Whatever the timeouts, crashes, store failures and the size of a page: at
\* most one record of a session is active and unexpired unless a submit of the
\* session searched a crowded namespace, and a runner inside its job's lifetime
\* has an active record (find_active_job, submit).
THEOREM SessionLockHolds == Spec => []SessionLock
  <1>1. Init => LockInv
    <2>1. Init => TypeOK
      BY InitType
    <2>. QED
      BY <2>1 DEF Init, LockInv, SessionLock, Fresh, Active, Alive, NoRecord,
                  OldRecord, ActiveStatuses
  <1>2. TypeOK' /\ NoLostWakeup /\ LockInv /\ [Next]_vars => LockInv'
    <2> SUFFICES ASSUME TypeOK', NoLostWakeup, LockInv, [Next]_vars
                 PROVE  SessionLock' /\ \A i \in Jobs : Alive(i)' => i \in live'
      BY DEF LockInv, Alive
    <2>1. TypeOK /\ now \in Nat
      BY DEF LockInv, TypeOK
    <2>2. ASSUME NEW j \in Jobs, RunnerStep(j)
          PROVE  SessionLock' /\ \A i \in Jobs : Alive(i)' => i \in live'
      BY <2>2, RunnerStepLock
    <2>3. ASSUME NEW j \in Jobs, ClientStep(j)
          PROVE  SessionLock' /\ \A i \in Jobs : Alive(i)' => i \in live'
      BY <2>3, ClientStepLock
    <2>4. CASE Crash
      <3>1. \A i \in Jobs : ~Alive(i)'
        BY <2>1, <2>4 DEF Crash, Alive, TypeOK
      <3>2. SessionLock'
        BY <3>1, <2>1, <2>4, LockFrame DEF Crash, Active
      <3>. QED
        BY <3>1, <3>2
    <2>5. CASE Tick \/ UNCHANGED vars
      <3>1. /\ now' \in Nat /\ now' >= now
            /\ rec' = rec /\ live' = live /\ pc' = pc /\ crowded' = crowded
        BY <2>1, <2>5 DEF Tick, vars, store, process, runner
      <3>2. SessionLock'
        BY <3>1, LockFrame DEF Active, Alive
      <3>. QED
        BY <3>1, <3>2 DEF LockInv, Alive
    <2>. QED
      BY <2>2, <2>3, <2>4, <2>5 DEF Next
  <1>3. LockInv => SessionLock
    BY DEF LockInv
  <1>. QED
    BY <1>1, <1>2, <1>3, TypeCorrect, NoLostWakeupHolds, PTL DEF Spec

\* Hence two runners share a conversation only after one of them has outlived
\* the expiry of its job, or after a submit on a crowded namespace.
THEOREM SharedThreadHasACauseHolds == Spec => []SharedThreadHasACause
  <1>1. SessionLock => SharedThreadHasACause
    BY DEF SessionLock, SharedThreadHasACause, Fresh
  <1>. QED
    BY <1>1, SessionLockHolds, PTL
=============================================================================
