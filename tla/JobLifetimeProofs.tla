--------------------------- MODULE JobLifetimeProofs ---------------------------
(***************************************************************************)
(* More theorems about Jobs for every value of its constants: how long a   *)
(* runner lives, what a step may never do to a record or to a decision,    *)
(* and the documented lifecycle of the records.                            *)
(*                                                                         *)
(* They all rest on one lemma, StepsOfAJob: seen from one job, every step  *)
(* of the system is one of ten moves.                                      *)
(***************************************************************************)
EXTENDS JobsProofs

-----------------------------------------------------------------------------
(***************************************************************************)
(* The moves of one job.                                                   *)
(***************************************************************************)
\* The step leaves the coroutine of i and its event alone, and the decision of
\* an event that is set.
RunnerKept(i) ==
    /\ pc'[i] = pc[i]
    /\ event'[i] = event[i]
    /\ round'[i] = round[i]
    /\ deadline'[i] = deadline[i]
    /\ event[i] = "set" => decision'[i] = decision[i]

\* A request, or the coroutine of another job, leaves the record of i alone or
\* settles it: an expired one, or one whose coroutine is gone.
Settled(i) ==
    /\ now' = now
    /\ RunnerKept(i)
    /\ \/ rec'[i] = rec[i]
       \/ /\ Active(i)
          /\ Stale(i) \/ ~Alive(i)
          /\ rec'[i].status = "timeout"
          /\ rec'[i].created = rec[i].created

\* A submit prunes the record of i.
Pruned(i) ==
    /\ now' = now
    /\ RunnerKept(i)
    /\ Terminal(i) \/ Stale(i) \/ (Active(i) /\ ~Alive(i))
    /\ now > rec[i].created + PruneAge
    /\ rec'[i].status = "absent"
    /\ rec'[i].created = rec[i].created

\* The submit of i itself.
Created(i) ==
    /\ SubmitAdmitted(i)
    /\ now' = now
    /\ pc[i] = "none" /\ pc'[i] = "scheduled"
    /\ event'[i] = event[i]
    /\ rec'[i].status = "pending"
    /\ rec'[i].created = now

\* A decision is accepted, which get_job's expiry allows only in time.
Answered(i) ==
    /\ now' = now
    /\ ~Expired(i)
    /\ rec[i].status = "interrupt" /\ rec'[i].status = "running"
    /\ rec'[i].created = rec[i].created
    /\ event[i] # "none" /\ event'[i] = "set"
    /\ pc'[i] = pc[i]
    /\ round'[i] = round[i]
    /\ deadline'[i] = deadline[i]

\* The coroutine of i starts its first turn.
Started(i) ==
    /\ now' = now
    /\ pc[i] = "scheduled" /\ pc'[i] = "turn"
    /\ rec'[i].status = "running"
    /\ rec'[i].created = rec[i].created
    /\ round'[i] = round[i]
    /\ deadline'[i] = now + RunTimeout

\* A turn of i ends at an interrupt: the coroutine pauses.
Paused(i) ==
    /\ now' = now
    /\ pc[i] = "turn" /\ pc'[i] = "paused"
    /\ event'[i] = "unset"
    /\ rec'[i].status = "interrupt"
    /\ rec'[i].created = rec[i].created
    /\ round'[i] = round[i] + 1
    /\ deadline'[i] = now + ResumeTimeout

\* The turn ends with a reply for the filter; or a decision starts the next
\* turn.
Continued(i) ==
    /\ now' = now
    /\ rec'[i] = rec[i]
    /\ event'[i] = event[i]
    /\ round'[i] = round[i]
    /\ \/ /\ pc[i] = "turn" /\ pc'[i] = "filter"
          /\ deadline'[i] = now + FilterTimeout
       \/ /\ pc[i] = "paused" /\ pc'[i] = "turn"
          /\ event[i] = "set"
          /\ command'[i] = decision[i]
          /\ deadline'[i] = now + RunTimeout

\* The coroutine of i ends, with or without a last save.
Ended(i) ==
    /\ now' = now
    /\ Alive(i) /\ pc'[i] = "gone"
    /\ pc[i] = "paused" => now >= deadline[i]
    /\ \/ rec'[i] = rec[i]
       \/ /\ rec'[i].status \in {"failed", "timeout"}
          /\ rec'[i].created = rec[i].created
       \/ /\ pc[i] = "filter"
          /\ rec'[i].status = "done"
          /\ rec'[i].created = rec[i].created

\* The process dies.
Died(i) ==
    /\ now' = now
    /\ crashes' = crashes + 1
    /\ rec'[i] = rec[i]
    /\ pc'[i] = IF Alive(i) THEN "gone" ELSE pc[i]

\* Time passes: the loop has nothing to do for i.
Waited(i) ==
    /\ now' = now + 1
    /\ ~Due(i)
    /\ RunnerKept(i)
    /\ rec'[i] = rec[i]

JobMoves(i) ==
    \/ Settled(i) \/ Pruned(i) \/ Created(i) \/ Answered(i) \/ Started(i)
    \/ Paused(i) \/ Continued(i) \/ Ended(i) \/ Died(i) \/ Waited(i)

-----------------------------------------------------------------------------
(***************************************************************************)
(* Every step is such a move.                                              *)
(***************************************************************************)
\* What submit() and the lazy expiry leave of a record: nothing changed, a
\* settled record, or a pruned one.
LEMMA ClearedMoves ==
    ASSUME RunnerInv, NEW settled, NEW holder, NEW pruned, NEW i \in Jobs,
           \A k \in settled : Stale(k),
           \A k \in holder : Active(k) /\ ~Alive(k),
           \A k \in pruned : /\ Terminal(k) \/ k \in settled \cup holder
                             /\ now > rec[k].created + PruneAge,
           now' = now, RunnerKept(i),
           rec'[i] = Cleared(settled, holder, pruned)[i]
    PROVE  JobMoves(i)
  <1>1. rec[i] \in Record
    BY DEF RunnerInv, TypeOK
  <1>2. CASE i \in pruned
    <2>1. rec'[i].status = "absent" /\ rec'[i].created = rec[i].created
      BY <1>1, <1>2 DEF Cleared, Record
    <2>. QED
      BY <2>1, <1>2 DEF JobMoves, Pruned
  <1>3. CASE i \notin pruned /\ i \in settled \cup holder
    <2>1. rec'[i].status = "timeout" /\ rec'[i].created = rec[i].created
      BY <1>1, <1>3 DEF Cleared, Record
    <2>. QED
      BY <2>1, <1>3 DEF JobMoves, Settled, Stale
  <1>4. CASE i \notin pruned \cup settled \cup holder
    BY <1>4 DEF Cleared, JobMoves, Settled
  <1>. QED
    BY <1>2, <1>3, <1>4

\* The holder that find_active_job returns is active, and a holder that is not
\* in _live_jobs has no coroutine.
LEMMA HolderIsOrphan ==
    ASSUME RunnerInv, NEW j \in Jobs, NEW settled, NEW holder,
           FindActive(j, settled, holder), Orphaned(holder)
    PROVE  /\ \A k \in settled : Stale(k)
           /\ \A k \in holder : Active(k) /\ ~Alive(k)
  <1>1. \A found \in SearchResults : found \subseteq Jobs
    BY DEF SearchResults, Existing
  <1>2. \A k \in Jobs : Alive(k) => k \in live
    BY DEF RunnerInv, RegistriesFollowRunners
  <1>. QED
    BY <1>1, <1>2 DEF FindActive, Orphaned, Fresh

\* The finally block of a coroutine ends it; no other job notices.
LEMMA CleanUpMoves ==
    ASSUME RunnerInv, NEW j \in Jobs, CleanUp(j), NEW i \in Jobs, now' = now,
           Alive(j), pc[j] = "paused" => now >= deadline[j],
           \/ rec' = rec
           \/ \E s \in {"failed", "timeout"}, p \in Rounds : rec' = Saved(j, s, p)
           \/ pc[j] = "filter" /\ \E p \in Rounds : rec' = Saved(j, "done", p)
    PROVE  JobMoves(i)
  <1>1. TypeOK
    BY DEF RunnerInv
  <1>2. CASE i = j
    <2>1. pc'[j] = "gone"
      BY <1>1 DEF CleanUp, RunnerGone, TypeOK
    <2>2. \/ rec'[j] = rec[j]
          \/ /\ rec'[j].status \in {"failed", "timeout"}
             /\ rec'[j].created = rec[j].created
          \/ /\ pc[j] = "filter"
             /\ rec'[j].status = "done"
             /\ rec'[j].created = rec[j].created
      BY <1>1, SavedType DEF TerminalStatuses
    <2>. QED
      BY <1>2, <2>1, <2>2 DEF JobMoves, Ended
  <1>3. CASE i # j
    <2>1. RunnerKept(i)
      BY <1>1, <1>3 DEF CleanUp, RunnerGone, TypeOK, RunnerKept
    <2>2. rec'[i] = rec[i]
      BY <1>1, <1>3, SavedType DEF TerminalStatuses
    <2>. QED
      BY <2>1, <2>2 DEF JobMoves, Settled
  <1>. QED
    BY <1>2, <1>3

\* A step of the coroutine of j that leaves i's record and coroutine alone.
LEMMA OtherMoves ==
    ASSUME NEW i \in Jobs, now' = now, RunnerKept(i), rec'[i] = rec[i]
    PROVE  JobMoves(i)
  BY DEF JobMoves, Settled

\* Every step of a coroutine.
LEMMA RunnerStepMoves ==
    ASSUME RunnerInv, NEW j \in Jobs, RunnerStep(j), NEW i \in Jobs
    PROVE  JobMoves(i)
  <1>1. TypeOK /\ JobInv(j)
    BY RunnerInvPerJob
  <1>2. /\ rec[j].interrupt \in Rounds /\ held[j] \in Rounds
        /\ round[j] < MaxRounds => round[j] + 1 \in Rounds
    BY <1>1, ConstantsAssumption DEF ConstantsAssumption, Rounds, TypeOK, Record
  <1>3. ASSUME NEW p \in Rounds, RunnerRaises(j, p), Alive(j), pc[j] # "paused"
        PROVE  JobMoves(i)
    BY <1>3, CleanUpMoves DEF RunnerRaises
  <1>4. CASE ExecuteStart(j)
    <2>1. CASE RunnerRaises(j, rec[j].interrupt)
      BY <2>1, <1>2, <1>3, <1>4 DEF ExecuteStart, Alive
    <2>2. CASE /\ rec' = Saved(j, "running", rec[j].interrupt)
               /\ StartTurn(j)
               /\ UNCHANGED <<now, crashes, process, round, command, seen, crowded>>
      <3>1. CASE i = j
        <4>1. rec'[j].status = "running" /\ rec'[j].created = rec[j].created
          BY <2>2, <1>1, <1>2, SavedType DEF ActiveStatuses
        <4>2. /\ pc[j] = "scheduled" /\ pc'[j] = "turn"
              /\ round'[j] = round[j] /\ now' = now
              /\ deadline'[j] = now + RunTimeout
          BY <2>2, <1>1, <1>4 DEF ExecuteStart, StartTurn, TypeOK
        <4>. QED
          BY <3>1, <4>1, <4>2 DEF JobMoves, Started
      <3>2. CASE i # j
        BY <3>2, <2>2, <1>1, OtherMoves
        DEF StartTurn, Saved, TypeOK, RunnerKept, process
      <3>. QED
        BY <3>1, <3>2
    <2>. QED
      BY <2>1, <2>2, <1>4 DEF ExecuteStart
  <1>5. CASE ExecuteAborts(j)
    <2>1. CASE i = j
      BY <2>1, <1>5, <1>1
      DEF ExecuteAborts, RunnerGone, TypeOK, JobMoves, Ended, Alive
    <2>2. CASE i # j
      BY <2>2, <1>5, <1>1, OtherMoves
      DEF ExecuteAborts, RunnerGone, process, TypeOK, RunnerKept
    <2>. QED
      BY <2>1, <2>2
  <1>6. CASE TurnInterrupts(j)
    <2>1. CASE RunnerRaises(j, round[j] + 1)
      BY <2>1, <1>2, <1>3, <1>6 DEF TurnInterrupts, Alive
    <2>2. CASE /\ event' = [event EXCEPT ![j] = NewEvent(j)]
               /\ round' = [round EXCEPT ![j] = @ + 1]
               /\ rec' = Saved(j, "interrupt", round[j] + 1)
               /\ pc' = [pc EXCEPT ![j] = "paused"]
               /\ deadline' = [deadline EXCEPT ![j] = ResumeDeadline]
               /\ UNCHANGED <<now, crashes, live, decision, command, seen, crowded>>
      <3>1. round[j] + 1 \in Rounds
        BY <1>2, <1>6 DEF TurnInterrupts
      <3>2. CASE i = j
        <4>1. rec'[j].status = "interrupt" /\ rec'[j].created = rec[j].created
          BY <2>2, <3>1, <1>1, SavedType DEF ActiveStatuses
        <4>. QED
          BY <3>2, <4>1, <2>2, <1>1, <1>6
          DEF TurnInterrupts, NewEvent, ResumeDeadline, TypeOK, JobMoves, Paused
      <3>3. CASE i # j
        BY <3>3, <2>2, <1>1, OtherMoves DEF Saved, TypeOK, RunnerKept
      <3>. QED
        BY <3>2, <3>3
    <2>. QED
      BY <2>1, <2>2, <1>6 DEF TurnInterrupts
  <1>7. CASE TurnCompletes(j)
    <2>1. CASE i = j
      BY <2>1, <1>7, <1>1
      DEF TurnCompletes, store, process, TypeOK, JobMoves, Continued
    <2>2. CASE i # j
      BY <2>2, <1>7, <1>1, OtherMoves
      DEF TurnCompletes, store, process, TypeOK, RunnerKept
    <2>. QED
      BY <2>1, <2>2
  <1>8. CASE TurnFails(j)
    BY <1>8, <1>2, <1>3 DEF TurnFails, Alive
  <1>9. CASE TurnCancelled(j)
    BY <1>9, CleanUpMoves DEF TurnCancelled, Alive
  <1>10. CASE TurnTimesOut(j)
    BY <1>10, <1>2, CleanUpMoves DEF TurnTimesOut, Alive
  <1>11. CASE PauseWakes(j)
    <2>1. CASE i = j
      BY <2>1, <1>11, <1>1
      DEF PauseWakes, StartTurn, TypeOK, JobMoves, Continued
    <2>2. CASE i # j
      BY <2>2, <1>11, <1>1, OtherMoves
      DEF PauseWakes, StartTurn, TypeOK, RunnerKept
    <2>. QED
      BY <2>1, <2>2
  <1>12. CASE PauseTimesOut(j)
    BY <1>12, <1>2, CleanUpMoves DEF PauseTimesOut, Alive
  <1>13. CASE FilterCompletes(j)
    <2>1. CASE RunnerRaises(j, held[j])
      BY <2>1, <1>2, <1>3, <1>13 DEF FilterCompletes, Alive
    <2>2. CASE /\ rec' = Saved(j, "done", held[j])
               /\ CleanUp(j)
               /\ UNCHANGED <<now, crashes, seen, crowded>>
      BY <2>2, <1>2, <1>13, CleanUpMoves DEF FilterCompletes, Alive
    <2>. QED
      BY <2>1, <2>2, <1>13 DEF FilterCompletes
  <1>. QED
    BY <1>4, <1>5, <1>6, <1>7, <1>8, <1>9, <1>10, <1>11, <1>12, <1>13
    DEF RunnerStep

\* Every request.
LEMMA ClientStepMoves ==
    ASSUME RunnerInv, NEW j \in Jobs, ClientStep(j), NEW i \in Jobs
    PROVE  JobMoves(i)
  <1>1. TypeOK /\ JobInv(i)
    BY RunnerInvPerJob
  <1>2. 0 \in Rounds
    BY ConstantsAssumption DEF ConstantsAssumption, Rounds
  <1>3. CASE SubmitAdmitted(j)
    <2>1. PICK settled, holder, pruned :
            /\ FindActive(j, settled, holder)
            /\ Orphaned(holder)
            /\ pruned \in PruneResults(settled, holder)
            /\ rec' = [Cleared(settled, holder, pruned) EXCEPT
                        ![j] = [status |-> "pending", interrupt |-> 0,
                                created |-> now]]
      BY <1>3 DEF SubmitAdmitted
    <2>2. Cleared(settled, holder, pruned) \in [Jobs -> Record]
      BY <1>1, ClearedType
    <2>3. CASE i = j
      BY <2>1, <2>2, <2>3, <1>1, <1>3
      DEF SubmitAdmitted, CanSubmit, TypeOK, JobMoves, Created
    <2>4. CASE i # j
      <3>1. rec'[i] = Cleared(settled, holder, pruned)[i]
        BY <2>1, <2>2, <2>4
      <3>2. now' = now /\ RunnerKept(i)
        BY <2>4, <1>1, <1>3 DEF SubmitAdmitted, RunnerKept, TypeOK
      <3>3. \A k \in pruned : /\ Terminal(k) \/ k \in settled \cup holder
                              /\ now > rec[k].created + PruneAge
        BY <2>1 DEF PruneResults
      <3>4. /\ \A k \in settled : Stale(k)
            /\ \A k \in holder : Active(k) /\ ~Alive(k)
        BY <2>1, HolderIsOrphan
      <3>. QED
        BY <3>1, <3>2, <3>3, <3>4, ClearedMoves
    <2>. QED
      BY <2>3, <2>4
  <1>4. ASSUME NEW settled, \A k \in settled : Stale(k),
               rec' = Cleared(settled, {}, {}), now' = now, RunnerKept(i)
        PROVE  JobMoves(i)
    BY <1>4, ClearedMoves
  <1>5. CASE SubmitConflict(j)
    <2>1. PICK settled : /\ rec' = Cleared(settled, {}, {})
                         /\ \A k \in settled : Stale(k)
      BY <1>5 DEF SubmitConflict, FindActive
    <2>. QED
      BY <2>1, <1>4, <1>5 DEF SubmitConflict, process, runner, RunnerKept
  <1>6. CASE SubmitBreaks(j)
    <2>1. now' = now /\ RunnerKept(i)
      BY <1>6 DEF SubmitBreaks, process, runner, RunnerKept
    <2>2. CASE \E settled \in SUBSET {k \in Jobs : Stale(k)} :
                  rec' = Cleared(settled, {}, {})
      BY <2>1, <2>2, <1>4
    <2>3. ASSUME NEW settled, NEW holder, FindActive(j, settled, holder),
                 Orphaned(holder),
                 NEW prunable \in PruneResults(settled, holder),
                 NEW pruned \in SUBSET prunable,
                 rec' = Cleared(settled, holder, pruned)
          PROVE  JobMoves(i)
      <3>1. \A k \in pruned : /\ Terminal(k) \/ k \in settled \cup holder
                              /\ now > rec[k].created + PruneAge
        BY <2>3 DEF PruneResults
      <3>2. /\ \A k \in settled : Stale(k)
            /\ \A k \in holder : Active(k) /\ ~Alive(k)
        BY <2>3, HolderIsOrphan
      <3>. QED
        BY <3>1, <3>2, <2>1, <2>3, ClearedMoves
    <2>. QED
      BY <2>2, <2>3, <1>6 DEF SubmitBreaks
  <1>7. ASSUME rec' = rec \/ (Stale(j) /\ rec' = Cleared({j}, {}, {})),
               UNCHANGED <<now, process, runner>>
        PROVE  JobMoves(i)
    <2>1. now' = now /\ RunnerKept(i)
      BY <1>7 DEF process, runner, RunnerKept
    <2>. QED
      BY <2>1, <1>4, <1>7, OtherMoves
  <1>8. CASE Poll(j)
    BY <1>8, <1>7 DEF Poll, LazilyExpired
  <1>9. ASSUME NEW r \in Rounds, ResumeDelivered(j, r)
        PROVE  JobMoves(i)
    <2>1. CASE i # j
      BY <2>1, <1>1, <1>9, OtherMoves
      DEF Flipped, ResumeDelivered, runner, Saved, TypeOK, RunnerKept
    <2>2. CASE i = j
      <3>1. /\ now' = now /\ pc'[i] = pc[i] /\ round'[i] = round[i]
            /\ deadline'[i] = deadline[i] /\ ~Expired(i)
            /\ rec[i].status = "interrupt" /\ event[i] # "none"
        BY <2>2, <1>9 DEF ResumeDelivered, runner
      <3>2. CASE UNCHANGED <<rec, event>>
        <4>1. event[i] # "set"
          BY <3>1, <1>1 DEF JobInv
        <4>. QED
          BY <3>1, <3>2, <4>1, OtherMoves DEF RunnerKept
      <3>3. CASE /\ rec' = Flipped(j)
                 /\ event' = [event EXCEPT ![j] = "set"]
        <4>1. /\ rec'[i].status = "running"
              /\ rec'[i].created = rec[i].created
          BY <2>2, <3>3, <1>1, <1>2, SavedType DEF Flipped, ActiveStatuses
        <4>2. event'[i] = "set"
          BY <2>2, <3>3, <1>1 DEF TypeOK
        <4>. QED
          BY <3>1, <4>1, <4>2 DEF JobMoves, Answered
      <3>. QED
        BY <3>2, <3>3, <1>9 DEF ResumeDelivered
    <2>. QED
      BY <2>1, <2>2
  <1>10. CASE ResumeOrphan(j)
    <2>1. now' = now /\ RunnerKept(i)
      BY <1>10 DEF ResumeOrphan, process, runner, RunnerKept
    <2>2. CASE i # j
      BY <2>1, <2>2, <1>1, <1>10, OtherMoves DEF ResumeOrphan, Saved, TypeOK
    <2>3. CASE i = j
      <3>1. rec'[i].status = "timeout" /\ rec'[i].created = rec[i].created
        BY <2>3, <1>1, <1>2, <1>10, SavedType DEF ResumeOrphan, TerminalStatuses
      <3>2. Active(i) /\ ~Alive(i)
        BY <2>3, <1>1, <1>10 DEF ResumeOrphan, JobInv, Active, ActiveStatuses
      <3>. QED
        BY <2>1, <3>1, <3>2 DEF JobMoves, Settled
    <2>. QED
      BY <2>2, <2>3
  <1>11. CASE ResumeExpired(j)
    BY <1>11, <1>7 DEF ResumeExpired, LazilyExpired
  <1>. QED
    BY <1>3, <1>5, <1>6, <1>8, <1>9, <1>10, <1>11 DEF ClientStep

\* Seen from one job, every step of the system is one of the ten moves, or
\* leaves the whole state as it is.
LEMMA StepsOfAJob ==
    ASSUME RunnerInv, [Next]_vars, NEW i \in Jobs
    PROVE  JobMoves(i)
  <1>1. TypeOK
    BY DEF RunnerInv
  <1>2. ASSUME NEW j \in Jobs, RunnerStep(j)
        PROVE  JobMoves(i)
    BY <1>2, RunnerStepMoves
  <1>3. ASSUME NEW j \in Jobs, ClientStep(j)
        PROVE  JobMoves(i)
    BY <1>3, ClientStepMoves
  <1>4. CASE Crash
    BY <1>1, <1>4 DEF Crash, TypeOK, JobMoves, Died
  <1>5. CASE Tick
    BY <1>5 DEF Tick, store, process, runner, RunnerKept, JobMoves, Waited
  <1>6. CASE UNCHANGED vars
    BY <1>6, OtherMoves DEF vars, store, process, runner, RunnerKept
  <1>. QED
    BY <1>2, <1>3, <1>4, <1>5, <1>6 DEF Next

-----------------------------------------------------------------------------
(***************************************************************************)
(* The registries and the decisions.                                       *)
(***************************************************************************)
\* Registry entries belong to coroutines that exist: the finally block of
\* _execute, and a crash, leave none behind.
THEOREM RegistriesFollowRunnersHolds == Spec => []RegistriesFollowRunners
  <1>1. RunnerInv => RegistriesFollowRunners
    BY DEF RunnerInv
  <1>. QED
    BY <1>1, RunnerInvariant, PTL

\* A decision that resume() has accepted reaches the next turn: no second
\* request replaces it, and nothing drops it but the end of the wait at that
\* very moment or the death of the process.
THEOREM AcceptedDecisionCountsHolds == Spec => AcceptedDecisionCounts
  <1>1. ASSUME RunnerInv, [Next]_vars, NEW j \in Jobs,
               pc[j] = "paused", event[j] = "set"
        PROVE  \/ pc'[j] = "paused" /\ decision'[j] = decision[j]
               \/ pc'[j] = "turn" /\ command'[j] = decision[j]
               \/ now >= deadline[j]
               \/ crashes' # crashes
    <2>1. JobMoves(j) /\ JobInv(j) /\ Alive(j) /\ crashes \in Nat
      BY <1>1, StepsOfAJob, RunnerInvPerJob DEF Alive, RunnerInv, TypeOK
    <2>2. rec[j].status # "interrupt"
      BY <1>1, <2>1 DEF JobInv
    <2>. QED
      BY <1>1, <2>1, <2>2
      DEF JobMoves, Settled, Pruned, RunnerKept, Created, Answered, Started,
          Paused, Continued, Ended, Died, Waited
  <1>2. RunnerInv /\ [Next]_vars =>
          [\A j \in Jobs :
              pc[j] = "paused" /\ event[j] = "set"
                  => \/ pc'[j] = "paused" /\ decision'[j] = decision[j]
                     \/ pc'[j] = "turn" /\ command'[j] = decision[j]
                     \/ now >= deadline[j]
                     \/ crashes' # crashes]_vars
    BY <1>1
  <1>. QED
    BY <1>2, RunnerInvariant, PTL DEF Spec, AcceptedDecisionCounts

-----------------------------------------------------------------------------
(***************************************************************************)
(* Settled records: a submit that misses a holder settles nobody.          *)
(***************************************************************************)
\* A runner inside its job's lifetime has an active record, and a job that was
\* never submitted has no record.
HolderInv ==
    \A i \in Jobs : /\ Alive(i) /\ ~Expired(i) => Active(i)
                    /\ pc[i] = "none" => rec[i].status = "absent"

\* Holders are in order in every reachable state: submit creates a record before
\* its runner, and only the runner's last step settles it while it is fresh.
LEMMA HolderInvariant == Spec => []HolderInv
  <1>1. Init => HolderInv
    BY DEF Init, HolderInv, Alive, NoRecord, OldRecord
  <1>2. RunnerInv /\ RunnerInv' /\ HolderInv /\ [Next]_vars => HolderInv'
    <2> SUFFICES ASSUME RunnerInv, RunnerInv', HolderInv, [Next]_vars,
                        NEW i \in Jobs
                 PROVE  /\ Alive(i)' /\ ~Expired(i)' => Active(i)'
                        /\ pc'[i] = "none" => rec'[i].status = "absent"
      BY DEF HolderInv
    <2>1. JobMoves(i)
      BY StepsOfAJob
    <2>2. /\ now \in Nat /\ rec[i].created \in Nat /\ rec'[i].created \in Nat
          /\ now' \in Nat /\ Expiry \in Nat
      BY ConstantsAssumption
      DEF RunnerInv, TypeOK, Record, Expiry, ConstantsAssumption
    <2>3. /\ Alive(i) /\ ~Expired(i) => Active(i)
          /\ pc[i] = "none" => rec[i].status = "absent"
      BY DEF HolderInv
    <2>4. CASE Settled(i) \/ Pruned(i)
      BY <2>2, <2>3, <2>4
      DEF Settled, Pruned, RunnerKept, Alive, Active, Terminal, Stale, Expired,
          Expiry, ActiveStatuses, TerminalStatuses
    <2>5. CASE Created(i) \/ Answered(i) \/ Started(i) \/ Paused(i)
      BY <2>3, <2>5
      DEF Created, Answered, Started, Paused, Active, ActiveStatuses
    <2>6. CASE Continued(i) \/ Ended(i) \/ Died(i) \/ Waited(i)
      BY <2>2, <2>3, <2>6
      DEF Continued, Ended, Died, Waited, RunnerKept, Alive, Active, Expired,
          Expiry
    <2>. QED
      BY <2>1, <2>4, <2>5, <2>6 DEF JobMoves
  <1>. QED
    BY <1>1, <1>2, RunnerInvariant, PTL DEF Spec

\* Who may change a settled record: its own coroutine, and only after the
\* expiry of its job.
LEMMA SettledMoves ==
    ASSUME RunnerInv, HolderInv, [Next]_vars, NEW j \in Jobs, Terminal(j),
           rec'[j].status \notin {rec[j].status, "absent"}
    PROVE  Alive(j) /\ Expired(j)
  <1>1. /\ JobMoves(j)
        /\ Alive(j) /\ ~Expired(j) => Active(j)
        /\ pc[j] = "none" => rec[j].status = "absent"
    BY StepsOfAJob DEF HolderInv
  <1>2. /\ ~Active(j)
        /\ rec[j].status # "absent"
        /\ rec[j].status # "interrupt"
    BY DEF Terminal, Active, TerminalStatuses, ActiveStatuses
  <1>. QED
    BY <1>1, <1>2
    DEF JobMoves, Settled, Pruned, Created, Answered, Started, Paused,
        Continued, Ended, Died, Waited, Alive

\* A settled job changes only by being pruned, unless its own coroutine is
\* still there after the job's expiry and saves its stale copy.
THEOREM SettledStaysSettledHolds == Spec => SettledStaysSettled
  <1>1. RunnerInv /\ HolderInv /\ [Next]_vars =>
          [\A j \in Jobs :
              Terminal(j) /\ rec'[j].status \notin {rec[j].status, "absent"}
                  => Alive(j) /\ Expired(j)]_vars
    BY SettledMoves
  <1>. QED
    BY <1>1, RunnerInvariant, HolderInvariant, PTL DEF Spec, SettledStaysSettled

-----------------------------------------------------------------------------
(***************************************************************************)
(* The life of a runner.  The loop runs a due timer before time passes, so *)
(* the deadline of every wait bounds the clock.  A turn starts at once or  *)
(* with a decision, and resume() accepts none after the expiry: the number *)
(* of rounds does not matter.                                              *)
(***************************************************************************)
LifeOf(i) ==
    /\ pc[i] = "scheduled" => now = rec[i].created
    /\ pc[i] \in {"turn", "paused", "filter"} =>
            rec[i].created <= now /\ now <= deadline[i]
    /\ pc[i] = "turn" => deadline[i] <= rec[i].created + Expiry + RunTimeout
    /\ pc[i] \in {"paused", "filter"} =>
            deadline[i] <= rec[i].created + LongestLife
    /\ pc[i] = "paused" /\ event[i] = "set" => now <= rec[i].created + Expiry

LifeInv == \A i \in Jobs : LifeOf(i)

\* The time budgets are natural numbers.
LEMMA BudgetType ==
    /\ RunTimeout \in Nat /\ ResumeTimeout \in Nat /\ FilterTimeout \in Nat
    /\ Expiry \in Nat /\ LongestWait \in Nat /\ LongestLife \in Nat
    /\ PruneAge \in Nat
    /\ ResumeTimeout <= LongestWait /\ FilterTimeout <= LongestWait
    /\ LongestLife = Expiry + RunTimeout + LongestWait
  BY ConstantsAssumption
  DEF ConstantsAssumption, Expiry, LongestWait, LongestLife

\* What is left of a runner's timers never reaches beyond its longest life.
LEMMA LifeInvariant == Spec => []LifeInv
  <1>1. Init => LifeInv
    BY DEF Init, LifeInv, LifeOf
  <1>2. RunnerInv /\ RunnerInv' /\ LifeInv /\ [Next]_vars => LifeInv'
    <2> SUFFICES ASSUME RunnerInv, RunnerInv', LifeInv, [Next]_vars,
                        NEW i \in Jobs
                 PROVE  LifeOf(i)'
      BY DEF LifeInv
    <2>1. JobMoves(i) /\ LifeOf(i)
      BY StepsOfAJob DEF LifeInv
    <2>2. /\ now \in Nat /\ rec[i].created \in Nat /\ rec'[i].created \in Nat
          /\ now' \in Nat /\ deadline[i] \in Nat /\ deadline'[i] \in Nat
      BY DEF RunnerInv, TypeOK, Record
    <2>3. /\ Expiry' = Expiry /\ LongestLife' = LongestLife
          /\ RunTimeout' = RunTimeout
      BY DEF Expiry, LongestLife, LongestWait
    <2>4. CASE Settled(i) \/ Pruned(i)
      BY <2>1, <2>3, <2>4 DEF Settled, Pruned, RunnerKept, LifeOf
    <2>5. CASE Created(i) \/ Died(i)
      BY <2>1, <2>5 DEF Created, Died, LifeOf, Alive
    <2>6. CASE Answered(i)
      BY <2>1, <2>2, <2>3, <2>6, BudgetType DEF Answered, LifeOf, Expired
    <2>7. CASE Started(i)
      BY <2>1, <2>2, <2>3, <2>7, BudgetType DEF Started, LifeOf
    <2>8. CASE Paused(i)
      BY <2>1, <2>2, <2>3, <2>8, BudgetType DEF Paused, LifeOf
    <2>9. CASE Continued(i)
      BY <2>1, <2>2, <2>3, <2>9, BudgetType DEF Continued, LifeOf
    <2>10. CASE Ended(i)
      BY <2>10 DEF Ended, LifeOf
    <2>11. CASE Waited(i)
      BY <2>1, <2>2, <2>3, <2>11 DEF Waited, RunnerKept, LifeOf, Due
    <2>. QED
      BY <2>1, <2>4, <2>5, <2>6, <2>7, <2>8, <2>9, <2>10, <2>11 DEF JobMoves
  <1>. QED
    BY <1>1, <1>2, RunnerInvariant, PTL DEF Spec

\* No runner outlives LongestLife, counted from its submit.
LEMMA LifeIsBounded ==
    ASSUME RunnerInv, LifeInv, NEW i \in Jobs, Alive(i)
    PROVE  now <= rec[i].created + LongestLife
  <1>1. now \in Nat /\ rec[i].created \in Nat /\ deadline[i] \in Nat
    BY DEF RunnerInv, TypeOK, Record
  <1>2. LifeOf(i)
    BY DEF LifeInv
  <1>. QED
    BY <1>1, <1>2, BudgetType DEF LifeOf, Alive

\* Whatever the timeouts and however many rounds: a runner is gone one turn and
\* one wait after the last moment at which resume() accepts a decision.
THEOREM RunnerLifeIsBoundedHolds == Spec => []RunnerLifeIsBounded
  <1>1. RunnerInv /\ LifeInv => RunnerLifeIsBounded
    BY LifeIsBounded DEF RunnerLifeIsBounded
  <1>. QED
    BY <1>1, RunnerInvariant, LifeInvariant, PTL

-----------------------------------------------------------------------------
(***************************************************************************)
(* Pruning.                                                                *)
(***************************************************************************)
\* The age at which prune_old_jobs deletes a record exceeds the longest life of
\* a runner: 24 hours against a little more than two.
PruneCovers == LongestLife <= PruneAge

\* Pruning deletes no record of a job that may still be going on: neither one
\* that holds its session nor one whose runner is still to write it.
THEOREM PruneSparesRunnersHolds == PruneCovers => (Spec => PruneSparesRunners)
  <1> SUFFICES ASSUME PruneCovers
               PROVE  Spec => PruneSparesRunners
    OBVIOUS
  <1>1. ASSUME RunnerInv, LifeInv, [Next]_vars, NEW j \in Jobs,
               rec[j].status # "absent", rec'[j].status = "absent"
        PROVE  ~Alive(j) /\ ~Fresh(j)
    <2>1. JobMoves(j)
      BY <1>1, StepsOfAJob
    <2>2. Pruned(j)
      BY <1>1, <2>1
      DEF JobMoves, Settled, Created, Answered, Started, Paused, Continued,
          Ended, Died, Waited
    <2>3. /\ now \in Nat /\ rec[j].created \in Nat /\ PruneAge \in Nat
          /\ LongestLife \in Nat /\ Expiry \in Nat /\ Expiry <= LongestLife
      BY <1>1, BudgetType DEF RunnerInv, TypeOK, Record
    <2>4. now > rec[j].created + LongestLife /\ Expired(j)
      BY <2>2, <2>3 DEF Pruned, PruneCovers, Expired
    <2>5. ~Alive(j)
      BY <1>1, <2>3, <2>4, LifeIsBounded
    <2>. QED
      BY <2>4, <2>5 DEF Fresh
  <1>2. RunnerInv /\ LifeInv /\ [Next]_vars =>
          [\A j \in Jobs :
              rec[j].status # "absent" /\ rec'[j].status = "absent"
                  => ~Alive(j) /\ ~Fresh(j)]_vars
    BY <1>1
  <1>. QED
    BY <1>2, RunnerInvariant, LifeInvariant, PTL
    DEF Spec, PruneSparesRunners

-----------------------------------------------------------------------------
(***************************************************************************)
(* The lifecycle.  JobLifecycle knows neither registries nor a clock; what *)
(* ties the records to the coroutines is StatusInv, and what it says of a  *)
(* submit is SessionLock.                                                  *)
(***************************************************************************)
\* The record of a job with a coroutine has the status of the place where the
\* coroutine is suspended; resume() flips it when it wakes a paused one.
StatusOf(i) ==
    /\ pc[i] = "scheduled" => rec[i].status = "pending"
    /\ pc[i] \in {"turn", "filter"} => rec[i].status = "running"
    /\ pc[i] = "paused" =>
            rec[i].status = IF event[i] = "set" THEN "running" ELSE "interrupt"

\* Unless the job is past its expiry and a read has settled the record.
StatusInv ==
    \A i \in Jobs :
        /\ StatusOf(i) \/ (Expired(i) /\ ~Active(i))
        /\ pc[i] = "scheduled" => rec[i].status = "pending" /\ ~Expired(i)

\* No move takes the record of a coroutine inside its job's lifetime away.
LEMMA StatusInvariant == Spec => []StatusInv
  <1>1. Init => StatusInv
    BY DEF Init, StatusInv, StatusOf
  <1>2. RunnerInv /\ RunnerInv' /\ LifeInv /\ LifeInv' /\ StatusInv /\ [Next]_vars
            => StatusInv'
    <2> SUFFICES ASSUME RunnerInv, RunnerInv', LifeInv, LifeInv', StatusInv,
                        [Next]_vars, NEW i \in Jobs
                 PROVE  /\ StatusOf(i)' \/ (Expired(i)' /\ ~Active(i)')
                        /\ pc'[i] = "scheduled"
                              => rec'[i].status = "pending" /\ ~Expired(i)'
      BY DEF StatusInv
    <2>1. /\ JobMoves(i) /\ JobInv(i) /\ LifeOf(i) /\ LifeOf(i)'
          /\ StatusOf(i) \/ (Expired(i) /\ ~Active(i))
          /\ pc[i] = "scheduled" => rec[i].status = "pending" /\ ~Expired(i)
      BY StepsOfAJob, RunnerInvPerJob DEF StatusInv, LifeInv
    <2>2. /\ now \in Nat /\ now' \in Nat
          /\ rec[i].created \in Nat /\ rec'[i].created \in Nat
      BY DEF RunnerInv, TypeOK, Record
    <2>3. /\ Expiry' = Expiry
          /\ now' = rec'[i].created => ~Expired(i)'
          /\ now' >= now /\ rec'[i].created = rec[i].created
                => (Expired(i) => Expired(i)')
      BY <2>2, BudgetType DEF Expired, Expiry
    <2>4. CASE Settled(i) \/ Pruned(i)
      <3>1. /\ pc'[i] = pc[i] /\ event'[i] = event[i] /\ now' = now
            /\ rec'[i].created = rec[i].created
            /\ rec'[i] = rec[i] \/ ~Active(i)'
            /\ rec'[i] = rec[i] \/ Terminal(i) \/ Stale(i) \/ ~Alive(i)
        BY <2>4
        DEF Settled, Pruned, RunnerKept, Active, ActiveStatuses
      <3>2. Expired(i) <=> Expired(i)'
        BY <2>2, <2>3, <3>1 DEF Expired
      <3>3. CASE rec'[i] = rec[i]
        BY <2>1, <3>1, <3>2, <3>3 DEF StatusOf, Active
      <3>4. CASE ~Alive(i)
        BY <3>1, <3>4 DEF StatusOf, Alive
      <3>5. CASE Terminal(i) \/ Stale(i)
        <4>1. pc[i] # "scheduled"
          BY <2>1, <3>5 DEF Terminal, Stale, TerminalStatuses
        <4>2. Alive(i) => Expired(i)
          BY <2>1, <3>5, <4>1
          DEF Terminal, Stale, StatusOf, Alive, TerminalStatuses
        <4>. QED
          BY <3>1, <3>2, <3>3, <3>4, <4>1, <4>2
      <3>. QED
        BY <3>1, <3>3, <3>4, <3>5
    <2>5. CASE Answered(i)
      BY <2>1, <2>5
      DEF Answered, StatusOf, Active, ActiveStatuses, JobInv, Alive
    <2>6. CASE Created(i)
      BY <2>2, <2>3, <2>6 DEF Created, StatusOf
    <2>7. CASE Started(i) \/ Paused(i)
      BY <2>7 DEF Started, Paused, StatusOf
    <2>8. CASE Continued(i)
      <3>1. Expired(i) => Expired(i)'
        BY <2>2, <2>3, <2>8 DEF Continued
      <3>. QED
        BY <2>1, <2>8, <3>1 DEF Continued, StatusOf, Active
    <2>9. CASE Ended(i) \/ Died(i)
      BY <2>9 DEF Ended, Died, StatusOf, Alive
    <2>10. CASE Waited(i)
      <3>1. Expired(i) => Expired(i)'
        BY <2>2, <2>3, <2>10 DEF Waited
      <3>2. pc[i] # "scheduled"
        BY <2>10 DEF Waited, Due
      <3>. QED
        BY <2>1, <2>10, <3>1, <3>2 DEF Waited, RunnerKept, StatusOf, Active
    <2>. QED
      BY <2>1, <2>4, <2>5, <2>6, <2>7, <2>8, <2>9, <2>10 DEF JobMoves
  <1>. QED
    BY <1>1, <1>2, RunnerInvariant, LifeInvariant, PTL DEF Spec

\* A session that is crowded once stays so.
LEMMA CrowdedGrows ==
    ASSUME [Next]_vars
    PROVE  crowded \subseteq crowded'
  <1>1. ASSUME NEW j \in Jobs, RunnerStep(j)
        PROVE  crowded' = crowded
    BY <1>1 DEF RunnerStep, RunnerRaises, ExecuteStart, ExecuteAborts,
                TurnInterrupts, TurnCompletes, TurnFails, TurnCancelled,
                TurnTimesOut, PauseWakes, PauseTimesOut, FilterCompletes
  <1>2. ASSUME NEW j \in Jobs, ClientStep(j)
        PROVE  crowded \subseteq crowded'
    <2>1. CASE SubmitAdmitted(j)
      BY <2>1 DEF SubmitAdmitted
    <2>2. CASE ~SubmitAdmitted(j)
      BY <1>2, <2>2 DEF ClientStep, SubmitConflict, SubmitBreaks, Poll,
                        ResumeDelivered, ResumeOrphan, ResumeExpired
    <2>. QED
      BY <2>1, <2>2
  <1>. QED
    BY <1>1, <1>2 DEF Next, Crash, Tick, vars

\* Every move of one job is a move of its record in JobLifecycle.
LEMMA LifecycleMoves ==
    ASSUME RunnerInv, RunnerInv', HolderInv, StatusInv, SessionLock',
           [Next]_vars, NEW i \in Jobs
    PROVE  \/ Lifecycle!Created(i) /\ Lifecycle!CreatedAlone(i)
           \/ /\ Lifecycle!Moved(i)
              /\ Alive(i)' => Alive(i)
              /\ Expired(i) => Expired(i)'
  <1>1. /\ JobMoves(i)
        /\ pc[i] = "none" => rec[i].status = "absent"
        /\ StatusOf(i) \/ (Expired(i) /\ ~Active(i))
        /\ pc[i] = "scheduled" => rec[i].status = "pending"
    BY StepsOfAJob DEF HolderInv, StatusInv
  <1>2. /\ now \in Nat /\ now' \in Nat
        /\ rec[i].created \in Nat /\ rec'[i].created \in Nat
        /\ rec[i].status \in ActiveStatuses \cup TerminalStatuses \cup {"absent"}
        /\ Expiry \in Nat /\ Expiry' = Expiry
    BY BudgetType DEF RunnerInv, TypeOK, Record, Expiry
  <1>3. rec'[i].created = rec[i].created /\ (now' = now \/ now' = now + 1)
            => (Expired(i) => Expired(i)')
    BY <1>2 DEF Expired
  <1>4. CASE Created(i)
    <2>1. /\ rec[i].status = "absent" /\ rec'[i].status = "pending"
          /\ ~Alive(i) /\ Alive(i)' /\ Fresh(i)'
      BY <1>1, <1>2, <1>4
      DEF Created, Alive, Fresh, Active, ActiveStatuses, Expired
    <2>2. ASSUME NEW k \in Jobs \ {i}, SessionOf[k] = SessionOf[i],
                 rec'[k].status \in ActiveStatuses
          PROVE  Expired(k)' \/ SessionOf[i] \in crowded'
      BY <2>1, <2>2 DEF SessionLock, Fresh, Active
    <2>3. Lifecycle!CreatedAlone(i)
      BY <2>1, <2>2
      DEF Lifecycle!CreatedAlone, Lifecycle!ActiveStatuses, ActiveStatuses, Fresh
    <2>. QED
      BY <2>1, <2>3 DEF Lifecycle!Created
  <1>5. CASE Settled(i) \/ Pruned(i) \/ Continued(i) \/ Died(i) \/ Waited(i)
    <2>1. rec'[i].created = rec[i].created /\ (now' = now \/ now' = now + 1)
      BY <1>5 DEF Settled, Pruned, Continued, Died, Waited
    <2>2. Alive(i)' => Alive(i)
      BY <1>5 DEF Settled, Pruned, Continued, Died, Waited, RunnerKept, Alive
    <2>3. \/ rec'[i].status = rec[i].status
          \/ Active(i) /\ rec'[i].status \in {"timeout", "absent"}
          \/ Terminal(i) /\ rec'[i].status = "absent"
      BY <1>5 DEF Settled, Pruned, Continued, Died, Waited, Stale
    <2>4. Lifecycle!Moved(i)
      BY <2>3
      DEF Active, Terminal, ActiveStatuses, TerminalStatuses, Lifecycle!Moved,
          Lifecycle!Moves, Lifecycle!SettledAndPruned,
          Lifecycle!ActiveStatuses, Lifecycle!TerminalStatuses
    <2>. QED
      BY <1>3, <2>1, <2>2, <2>4
  <1>6. CASE Answered(i) \/ Started(i) \/ Paused(i) \/ Ended(i)
    <2>1. /\ rec[i].status # rec'[i].status
                => rec'[i].created = rec[i].created
          /\ rec'[i] = rec[i] \/ rec'[i].created = rec[i].created
          /\ now' = now
      BY <1>6 DEF Answered, Started, Paused, Ended
    <2>2. Alive(i)' => Alive(i)
      BY <1>6 DEF Answered, Started, Paused, Ended, Alive
    <2>3. \/ rec'[i].status = rec[i].status
          \/ <<rec[i].status, rec'[i].status>> \in Lifecycle!Moves
          \/ /\ Alive(i) /\ Expired(i) /\ ~Active(i)
             /\ rec'[i].status \in {"interrupt"} \cup TerminalStatuses
      <3>1. CASE Answered(i) \/ Started(i)
        BY <1>1, <3>1 DEF Answered, Started, Lifecycle!Moves
      <3>2. CASE Paused(i)
        BY <1>1, <3>2 DEF Paused, StatusOf, Alive, Lifecycle!Moves
      <3>3. CASE Ended(i) /\ Expired(i) /\ ~Active(i)
        BY <3>3 DEF Ended, TerminalStatuses
      <3>4. CASE Ended(i) /\ StatusOf(i)
        BY <3>4 DEF Ended, StatusOf, Alive, Lifecycle!Moves,
                    Lifecycle!ActiveStatuses
      <3>. QED
        BY <1>1, <1>6, <3>1, <3>2, <3>3, <3>4
    <2>4. Lifecycle!Moved(i)
      BY <1>2, <2>3
      DEF Active, ActiveStatuses, TerminalStatuses, Lifecycle!Moved,
          Lifecycle!LateSaves, Lifecycle!TerminalStatuses
    <2>. QED
      BY <1>3, <2>1, <2>2, <2>4
  <1>. QED
    BY <1>1, <1>4, <1>5, <1>6 DEF JobMoves

\* The records of app/jobs implement JobLifecycle, whatever the timeouts, the
\* store failures, the crashes and the size of a search: the documented moves,
\* one active job per session, and the two exceptions that module names.
THEOREM LifecycleSpecHolds == Spec => LifecycleSpec
  <1>1. Init => Lifecycle!Init
    BY DEF Init, NoRecord, OldRecord, Alive, Lifecycle!Init,
           Lifecycle!TerminalStatuses
  <1>2. RunnerInv /\ RunnerInv' /\ HolderInv /\ StatusInv /\ SessionLock'
            /\ [Next]_vars
        => Lifecycle!Next
    <2> SUFFICES ASSUME RunnerInv, RunnerInv', HolderInv, StatusInv,
                        SessionLock', [Next]_vars
                 PROVE  Lifecycle!Next
      OBVIOUS
    <2>1. [i \in Jobs |-> rec[i].status]'
            \in [Jobs -> ActiveStatuses \cup TerminalStatuses \cup {"absent"}]
      BY DEF RunnerInv, TypeOK, Record
    <2>. QED
      BY <2>1, CrowdedGrows, LifecycleMoves
      DEF Lifecycle!Next, ActiveStatuses, TerminalStatuses,
          Lifecycle!ActiveStatuses, Lifecycle!TerminalStatuses
  <1>. QED
    BY <1>1, <1>2, RunnerInvariant, HolderInvariant, StatusInvariant,
       SessionLockHolds, PTL
    DEF Spec, LifecycleSpec, Lifecycle!Spec
=============================================================================
