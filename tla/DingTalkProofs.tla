---------------------------- MODULE DingTalkProofs ----------------------------
(***************************************************************************)
(* Theorems about DingTalk for every value of its constants: any number of *)
(* agent turns, enable requests, load tasks and OAuth states, any          *)
(* credentials, store writes that may raise.                               *)
(***************************************************************************)
EXTENDS DingTalk, TLAPS

-----------------------------------------------------------------------------
(***************************************************************************)
(* Type correctness.                                                       *)
(***************************************************************************)
\* What the operations make of a runtime is a runtime.
LEMMA RuntimeType ==
    ASSUME NEW r \in Runtime, NEW creds \in Creds
    PROVE  /\ NoCreds \in Creds
           /\ FreshRuntime \in Runtime
           /\ NoRuntime \in Runtime
           /\ Default(r) \in Runtime
           /\ Loaded(creds) \in Runtime
           /\ Connected(r) \in Runtime
           /\ Disabled(r) \in Runtime
           /\ EnableFailed(r, creds) \in Runtime
           /\ LazyFailed(r) \in Runtime
  <1>1. NoCreds \in Creds
    BY DingTalkAssumption DEF NoCreds, Creds
  <1>2. FreshRuntime \in Runtime /\ NoRuntime \in Runtime
    BY <1>1 DEF FreshRuntime, NoRuntime, Runtime
  <1>3. Default(r) \in Runtime
    BY <1>2 DEF Default
  <1>. QED
    BY <1>1, <1>2, <1>3
    DEF Loaded, Connected, Disabled, EnableFailed, LazyFailed, Runtime

\* A toggle's write keeps the type of the config and of the histories.
LEMMA PersistType ==
    ASSUME TypeOK, NEW new \in Config, NEW settling \in BOOLEAN,
           Persist(new, settling)
    PROVE  cfg' \in Config /\ split' \in BOOLEAN /\ spawned' \in BOOLEAN
  BY DEF TypeOK, Persist, LoadUnderWay

\* An awaited load leaves every type in place.
LEMMA CollectType ==
    ASSUME TypeOK, NEW l \in Loads, NEW ts \in SUBSET Turns, Collect(ts, l)
    PROVE  /\ rt' \in Runtime
           /\ task' \in Loads \cup {NoLoad}
           /\ load' \in [Loads -> [at : {"free", "flying", "ok", "failed", "cancelled"},
                                   creds : Creds]]
           /\ turn' \in [Turns -> [at : {"idle", "waiting", "cancelling", "bound", "hurt"},
                                   load : Loads \cup {NoLoad}]]
  <1>1. NoCreds \in Creds
    BY DingTalkAssumption DEF NoCreds, Creds
  <1>2. rt' \in Runtime
    BY <1>1, RuntimeType DEF TypeOK, Collect, Answer
  <1>3. task' \in Loads \cup {NoLoad}
    BY DEF TypeOK, Collect, Answer
  <1>4. load' \in [Loads -> [at : {"free", "flying", "ok", "failed", "cancelled"},
                             creds : Creds]]
    BY <1>1 DEF TypeOK, Collect, FreeLoad
  <1>5. turn' \in [Turns -> [at : {"idle", "waiting", "cancelling", "bound", "hurt"},
                             load : Loads \cup {NoLoad}]]
    BY DEF TypeOK, Collect, Answer, Bind, IdleTurn
  <1>. QED
    BY <1>2, <1>3, <1>4, <1>5

LEMMA InitType == Init => TypeOK
  <1>1. NoCreds \in Creds
    BY DingTalkAssumption DEF NoCreds, Creds
  <1>2. NoRuntime \in Runtime
    BY <1>1 DEF NoRuntime, FreshRuntime, Runtime
  <1>3. NoConfig \in Config
    BY <1>1 DEF NoConfig, Config
  <1>. SUFFICES ASSUME Init
                PROVE  TypeOK
    OBVIOUS
  <1>4. rt \in Runtime /\ cfg \in Config /\ task \in Loads \cup {NoLoad}
    BY <1>2, <1>3 DEF Init
  <1>5. load \in [Loads -> [at : {"free", "flying", "ok", "failed", "cancelled"},
                            creds : Creds]]
    BY <1>1 DEF Init, FreeLoad
  <1>6. turn \in [Turns -> [at : {"idle", "waiting", "cancelling", "bound", "hurt"},
                            load : Loads \cup {NoLoad}]]
    BY DEF Init, IdleTurn
  <1>7. /\ req \in [Requests -> SUBSET Creds]
        /\ oauth \in [Grants -> {"none", "issued", "exchanging"}]
    BY DEF Init
  <1>8. split \in BOOLEAN /\ spawned \in BOOLEAN
    BY DEF Init
  <1>. QED
    BY <1>4, <1>5, <1>6, <1>7, <1>8 DEF TypeOK

\* Every step keeps the types.
LEMMA NextType == TypeOK /\ [Next]_vars => TypeOK'
  <1>. SUFFICES ASSUME TypeOK, [Next]_vars
                PROVE  TypeOK'
    OBVIOUS
  <1>0. NoCreds \in Creds
    BY DingTalkAssumption DEF NoCreds, Creds
  <1>1. ASSUME NEW r \in Requests, NEW new \in Updates, EnableStarts(r, new)
        PROVE  TypeOK'
    <2>1. Merged(cfg.creds, new) \in Creds
      BY DingTalkAssumption DEF Merged, Creds, TypeOK, Config
    <2>. QED
      BY <1>1, <2>1 DEF EnableStarts, TypeOK
  <1>2. ASSUME NEW r \in Requests, EnableSucceeds(r)
        PROVE  TypeOK'
    <2>. PICK creds \in req[r] :
            /\ rt' = Loaded(creds)
            /\ Persist([known |-> TRUE, enabled |-> TRUE, creds |-> creds], TRUE)
            /\ req' = [req EXCEPT ![r] = {}]
            /\ UNCHANGED <<task, load, turn, oauth>>
      BY <1>2 DEF EnableSucceeds
    <2>1. creds \in Creds
      BY DEF TypeOK
    <2>2. [known |-> TRUE, enabled |-> TRUE, creds |-> creds] \in Config
      BY <2>1 DEF Config
    <2>3. rt' \in Runtime
      BY <2>1, RuntimeType DEF TypeOK
    <2>. QED
      BY <2>2, <2>3, PersistType DEF TypeOK
  <1>3. ASSUME NEW r \in Requests, EnableFails(r)
        PROVE  TypeOK'
    <2>. PICK creds \in req[r] :
            /\ rt' = EnableFailed(rt, creds)
            /\ Persist([known |-> TRUE, enabled |-> FALSE, creds |-> creds], TRUE)
            /\ req' = [req EXCEPT ![r] = {}]
            /\ UNCHANGED <<task, load, turn, oauth>>
      BY <1>3 DEF EnableFails
    <2>1. creds \in Creds
      BY DEF TypeOK
    <2>2. [known |-> TRUE, enabled |-> FALSE, creds |-> creds] \in Config
      BY <2>1 DEF Config
    <2>3. rt' \in Runtime
      BY <2>1, RuntimeType DEF TypeOK
    <2>. QED
      BY <2>2, <2>3, PersistType DEF TypeOK
  <1>4. ASSUME Disable
        PROVE  TypeOK'
    <2>1. [cfg EXCEPT !.known = TRUE, !.enabled = FALSE] \in Config
      BY DEF TypeOK, Config
    <2>2. rt' \in Runtime
      BY <1>0, <1>4, RuntimeType DEF Disable, TypeOK
    <2>. QED
      BY <1>4, <2>1, <2>2, PersistType DEF Disable, TypeOK
  <1>5. ASSUME NEW g \in Grants,
               Authorize(g) \/ CallbackArrives(g) \/ CallbackFails(g)
        PROVE  TypeOK'
    BY <1>5 DEF Authorize, CallbackArrives, CallbackFails, TypeOK
  <1>6. ASSUME NEW g \in Grants, MarkUserConnected(g)
        PROVE  TypeOK'
    <2>1. [cfg EXCEPT !.known = TRUE, !.enabled = TRUE] \in Config
      BY DEF TypeOK, Config
    <2>2. rt' \in Runtime
      BY <1>0, <1>6, RuntimeType DEF MarkUserConnected, TypeOK
    <2>. QED
      BY <1>6, <2>1, <2>2, PersistType DEF MarkUserConnected, TypeOK
  <1>7. ASSUME NEW t \in Turns, EnsureHits(t) \/ TurnEnds(t)
        PROVE  TypeOK'
    BY <1>7 DEF EnsureHits, TurnEnds, Bind, IdleTurn, TypeOK
  <1>8. ASSUME NEW t \in Turns, EnsureDisabled(t)
        PROVE  TypeOK'
    <2>1. Default(rt) \in Runtime
      BY <1>0, RuntimeType DEF TypeOK
    <2>2. rt' \in Runtime
      BY <1>8, <2>1 DEF EnsureDisabled, Runtime
    <2>. QED
      BY <1>8, <2>2 DEF EnsureDisabled, Bind, IdleTurn, TypeOK
  <1>9. ASSUME NEW t \in Turns, NEW l \in Loads, EnsureLoads(t, l)
        PROVE  TypeOK'
    <2>1. Default(rt) \in Runtime
      BY <1>0, RuntimeType DEF TypeOK
    <2>2. cfg.creds \in Creds
      BY DEF TypeOK, Config
    <2>3. rt' \in Runtime
      BY <1>9, <2>1, <2>2 DEF EnsureLoads, Runtime
    <2>. QED
      BY <1>9, <2>2, <2>3 DEF EnsureLoads, IdleTurn, TypeOK
  <1>10. ASSUME NEW t \in Turns, EnsureJoins(t)
         PROVE  TypeOK'
    <2>1. task \in Loads
      BY <1>10 DEF EnsureJoins, LoadRegistered, TypeOK
    <2>2. CASE /\ load[task].at = "flying"
               /\ turn' = [turn EXCEPT ![t] = [IdleTurn EXCEPT !.at = "waiting", !.load = task]]
               /\ UNCHANGED <<rt, task, load>>
      BY <1>10, <2>1, <2>2 DEF EnsureJoins, IdleTurn, TypeOK
    <2>3. CASE Collect({t}, task)
      <3>1. {t} \in SUBSET Turns
        OBVIOUS
      <3>. QED
        BY <1>10, <2>1, <2>3, <3>1, CollectType DEF EnsureJoins, TypeOK
    <2>. QED
      BY <1>10, <2>2, <2>3 DEF EnsureJoins
  <1>11. ASSUME NEW t \in Turns, TurnCancelled(t)
         PROVE  TypeOK'
    BY <1>0, <1>11 DEF TurnCancelled, IdleTurn, TypeOK
  <1>12. ASSUME NEW l \in Loads, LoadEnds(l)
         PROVE  TypeOK'
    <2>1. load[l].creds \in Creds
      BY DEF TypeOK
    <2>2. rt' \in Runtime
      BY <1>12, <2>1, RuntimeType DEF LoadEnds, TypeOK
    <2>. QED
      BY <1>0, <1>12, <2>2 DEF LoadEnds, TypeOK
  <1>13. ASSUME NEW l \in Loads, TurnsWake(l)
         PROVE  TypeOK'
    BY <1>13, CollectType DEF TurnsWake, TypeOK
  <1>14. ASSUME Restart
         PROVE  TypeOK'
    BY <1>0, <1>14, RuntimeType DEF Restart, FreeLoad, IdleTurn, TypeOK
  <1>15. CASE UNCHANGED vars
    BY <1>15 DEF vars, TypeOK
  <1>. QED
    BY <1>1, <1>2, <1>3, <1>4, <1>5, <1>6, <1>7, <1>8, <1>9, <1>10, <1>11, <1>12,
       <1>13, <1>14, <1>15 DEF Next

\* The variables of DingTalk keep their types.
THEOREM TypeCorrect == Spec => []TypeOK
  BY InitType, NextType, PTL DEF Spec

-----------------------------------------------------------------------------
(***************************************************************************)
(* The inductive invariant.  While no toggle has overlapped a load (~split)*)
(* there is one load at a time and it is the registered one; whoever waits *)
(* for another one finds the registry settled.                             *)
(***************************************************************************)
\* The load of this epoch has left its mark on the runtime.
Settled == rt.known /\ ~rt.loading /\ (rt.tools # {} \/ rt.failed)

\* A registered task: its runtime exists, loading until the task succeeds.
TaskInv ==
    task # NoLoad =>
        /\ rt.known
        /\ spawned
        /\ load[task].at = "ok" => ~rt.loading /\ rt.tools # {}
        /\ load[task].at # "ok" => rt.loading

\* A load in flight is the registered one, with the stored credentials.
LoadInv ==
    \A l \in Loads : load[l].at = "flying" =>
        /\ task = l
        /\ cfg.enabled
        /\ load[l].creds = cfg.creds

\* Turns wait for the registered load, or for one that has been dealt with.
TurnInv ==
    \A t \in Turns : turn[t].load # NoLoad =>
        /\ spawned
        /\ task \in {turn[t].load, NoLoad}

SpawnInv == spawned /\ task = NoLoad => Settled

\* What holds of an epoch without overlaps.
Quiet == TaskInv /\ LoadInv /\ TurnInv /\ SpawnInv

Inv == (~split => Quiet) /\ MemoryMatchesStore

\* A toggle that overlapped nothing leaves no load behind.
LEMMA ToggleQuiet ==
    ASSUME TypeOK, NEW new, NEW settling, Persist(new, settling),
           UNCHANGED <<task, load, turn>>
    PROVE  ~split' => Quiet'
  <1>. SUFFICES ASSUME ~split'
                PROVE  Quiet'
    OBVIOUS
  <1>1. ~LoadUnderWay /\ spawned' = FALSE
    BY DEF Persist
  <1>2. /\ task' = NoLoad
        /\ \A l \in Loads : load'[l].at # "flying"
        /\ \A t \in Turns : turn'[t].load = NoLoad
    BY <1>1 DEF LoadUnderWay
  <1>. QED
    BY <1>1, <1>2 DEF Quiet, TaskInv, LoadInv, TurnInv, SpawnInv

\* A turn that finds nothing registered and no usable answer is the first of
\* its epoch: no load runs, no turn waits.
LEMMA FirstOfEpoch ==
    ASSUME TypeOK, Quiet, ~RegistryHit, ~LoadRegistered
    PROVE  /\ ~spawned
           /\ task = NoLoad
           /\ \A l \in Loads : load[l].at # "flying"
           /\ \A t \in Turns : turn[t].load = NoLoad
  <1>1. task = NoLoad
    BY DEF LoadRegistered
  <1>2. ~Settled
    BY DEF RegistryHit, Settled
  <1>3. ~spawned
    BY <1>1, <1>2 DEF Quiet, SpawnInv
  <1>. QED
    BY <1>1, <1>3, DingTalkAssumption DEF Quiet, LoadInv, TurnInv

\* Turns that collect the load of their epoch leave the registry settled,
\* unless that load was cancelled, in which case it stays registered.
LEMMA CollectQuiet ==
    ASSUME TypeOK, Quiet, MemoryMatchesStore, ~split,
           NEW l \in Loads, NEW ts \in SUBSET Turns,
           spawned, task \in {l, NoLoad}, Collect(ts, l),
           UNCHANGED <<cfg, split, spawned>>
    PROVE  Quiet' /\ MemoryMatchesStore'
  <1>1. NoLoad \notin Loads
    BY DingTalkAssumption
  <1>2. \A k \in Loads : load[k].at # "flying" /\ load'[k].at # "flying"
    <2>1. load[l].at # "flying"
      BY DEF Collect, Answer
    <2>2. \A k \in Loads : load[k].at # "flying"
      BY <1>1, <2>1 DEF Quiet, LoadInv
    <2>. QED
      BY <2>2 DEF Collect, FreeLoad, TypeOK
  <1>3. LoadInv'
    BY <1>2 DEF LoadInv
  <1>4. \A t \in Turns : turn'[t].load = turn[t].load \/ turn'[t].load = NoLoad
    BY DEF Collect, Answer, Bind, IdleTurn, TypeOK
  <1>5. CASE /\ load[l].at = "ok"
             /\ task' = NoLoad
             /\ rt' = rt
    <2>1. Settled
      BY <1>1, <1>5 DEF Quiet, TaskInv, SpawnInv, Settled
    <2>2. Settled' /\ TaskInv' /\ SpawnInv'
      BY <1>5, <2>1 DEF Settled, TaskInv, SpawnInv
    <2>3. TurnInv'
      BY <1>4, <1>5 DEF TurnInv
    <2>4. MemoryMatchesStore'
      BY <1>5 DEF MemoryMatchesStore
    <2>. QED
      BY <1>3, <2>2, <2>3, <2>4 DEF Quiet
  <1>6. CASE /\ load[l].at = "failed"
             /\ task' = NoLoad
             /\ rt' = LazyFailed(rt)
    <2>1. rt.known
      BY <1>1 DEF Quiet, TaskInv, SpawnInv, Settled
    <2>2. rt'.known /\ ~rt'.loading /\ rt'.failed
      BY <1>6, <2>1 DEF LazyFailed, TypeOK, Runtime
    <2>3. TaskInv' /\ SpawnInv'
      BY <1>6, <2>2 DEF Settled, TaskInv, SpawnInv
    <2>4. TurnInv'
      BY <1>4, <1>6 DEF TurnInv
    <2>5. MemoryMatchesStore'
      BY <2>2 DEF MemoryMatchesStore
    <2>. QED
      BY <1>3, <2>3, <2>4, <2>5 DEF Quiet
  <1>7. CASE /\ load[l].at = "cancelled"
             /\ UNCHANGED <<task, rt>>
    <2>1. task # NoLoad => task = l /\ load'[l] = load[l]
      BY <1>1, <1>7 DEF Collect, TypeOK
    <2>2. TaskInv'
      BY <1>1, <1>7, <2>1 DEF Quiet, TaskInv
    <2>3. TurnInv'
      BY <1>4, <1>7 DEF Quiet, TurnInv
    <2>4. SpawnInv'
      BY <1>7 DEF Quiet, SpawnInv, Settled
    <2>5. MemoryMatchesStore'
      BY <1>7 DEF MemoryMatchesStore
    <2>. QED
      BY <1>3, <2>2, <2>3, <2>4, <2>5 DEF Quiet
  <1>. QED
    BY <1>5, <1>6, <1>7 DEF Collect, Answer

LEMMA InitInv == Init => Inv
  <1>. SUFFICES ASSUME Init
                PROVE  Inv
    OBVIOUS
  <1>1. Quiet
    BY DEF Init, Quiet, TaskInv, LoadInv, TurnInv, SpawnInv, FreeLoad, IdleTurn
  <1>2. MemoryMatchesStore
    BY DEF Init, MemoryMatchesStore, NoRuntime, FreshRuntime
  <1>. QED
    BY <1>1, <1>2 DEF Inv

\* Every step keeps the invariant.
LEMMA NextInv == TypeOK /\ Inv /\ [Next]_vars => Inv'
  <1>. SUFFICES ASSUME TypeOK, Inv, [Next]_vars
                PROVE  Inv'
    OBVIOUS
  <1>0. NoLoad \notin Loads
    BY DingTalkAssumption
  <1>1. ASSUME NEW r \in Requests, NEW new \in Updates, EnableStarts(r, new)
        PROVE  Inv'
    BY <1>1 DEF EnableStarts, Inv, Quiet, TaskInv, LoadInv, TurnInv, SpawnInv,
                Settled, MemoryMatchesStore
  <1>2. ASSUME NEW r \in Requests, EnableSucceeds(r)
        PROVE  Inv'
    <2>. PICK creds \in req[r] :
            /\ rt' = Loaded(creds)
            /\ Persist([known |-> TRUE, enabled |-> TRUE, creds |-> creds], TRUE)
            /\ req' = [req EXCEPT ![r] = {}]
            /\ UNCHANGED <<task, load, turn, oauth>>
      BY <1>2 DEF EnableSucceeds
    <2>1. rt'.enabled = TRUE /\ rt'.tools = {creds}
      BY DEF Loaded
    <2>2. ~split' => cfg'.enabled = TRUE /\ cfg'.creds = creds
      BY DEF Persist
    <2>3. MemoryMatchesStore'
      BY <2>1, <2>2 DEF MemoryMatchesStore
    <2>. QED
      BY <2>3, ToggleQuiet DEF Inv
  <1>3. ASSUME NEW r \in Requests, EnableFails(r)
        PROVE  Inv'
    <2>. PICK creds \in req[r] :
            /\ rt' = EnableFailed(rt, creds)
            /\ Persist([known |-> TRUE, enabled |-> FALSE, creds |-> creds], TRUE)
            /\ req' = [req EXCEPT ![r] = {}]
            /\ UNCHANGED <<task, load, turn, oauth>>
      BY <1>3 DEF EnableFails
    <2>1. Default(rt) \in Runtime
      BY <1>3, RuntimeType DEF EnableFails, TypeOK
    <2>2. rt'.failed
      BY <2>1 DEF EnableFailed, Runtime
    <2>3. MemoryMatchesStore'
      BY <2>2 DEF MemoryMatchesStore
    <2>. QED
      BY <2>3, ToggleQuiet DEF Inv
  <1>4. ASSUME Disable
        PROVE  Inv'
    <2>1. Default(rt) \in Runtime
      <3>1. cfg.creds \in Creds
        BY DEF TypeOK, Config
      <3>. QED
        BY <3>1, RuntimeType DEF TypeOK
    <2>2. ~rt'.enabled /\ rt'.tools = {}
      BY <1>4, <2>1 DEF Disable, Disabled, Runtime
    <2>3. ~split' => ~cfg'.enabled
      BY <1>4 DEF Disable, Persist, TypeOK, Config
    <2>4. rt' \in Runtime /\ cfg' \in Config
      BY <1>4, NextType DEF TypeOK, Next
    <2>5. MemoryMatchesStore'
      BY <2>2, <2>3, <2>4 DEF MemoryMatchesStore, Runtime, Config
    <2>. QED
      BY <1>4, <2>5, ToggleQuiet DEF Disable, Inv
  <1>5. ASSUME NEW g \in Grants,
               Authorize(g) \/ CallbackArrives(g) \/ CallbackFails(g)
        PROVE  Inv'
    BY <1>5 DEF Authorize, CallbackArrives, CallbackFails, Inv, Quiet, TaskInv,
                LoadInv, TurnInv, SpawnInv, Settled, MemoryMatchesStore
  <1>6. ASSUME NEW g \in Grants, MarkUserConnected(g)
        PROVE  Inv'
    <2>1. Default(rt) \in Runtime
      <3>1. cfg.creds \in Creds
        BY DEF TypeOK, Config
      <3>. QED
        BY <3>1, RuntimeType DEF TypeOK
    <2>2. /\ rt'.enabled = TRUE /\ rt'.tools = Default(rt).tools
          /\ rt'.loading = Default(rt).loading /\ rt'.failed = Default(rt).failed
      BY <1>6, <2>1 DEF MarkUserConnected, Connected, Runtime
    <2>3. ~split' => ~split /\ cfg'.enabled = TRUE /\ cfg'.creds = cfg.creds
      BY <1>6 DEF MarkUserConnected, Persist, TypeOK, Config
    <2>4. MemoryMatchesStore'
      <3>1. CASE rt.known
        BY <2>2, <2>3, <3>1 DEF Inv, MemoryMatchesStore, Default
      <3>2. CASE ~rt.known
        BY <2>2, <2>3, <3>2 DEF MemoryMatchesStore, Default, FreshRuntime
      <3>. QED
        BY <3>1, <3>2
    <2>. QED
      BY <1>6, <2>4, ToggleQuiet DEF MarkUserConnected, Inv
  <1>7. ASSUME NEW t \in Turns, EnsureHits(t) \/ TurnEnds(t)
        PROVE  Inv'
    <2>1. UNCHANGED <<rt, cfg, task, load, split, spawned>>
      BY <1>7 DEF EnsureHits, TurnEnds
    <2>2. \A u \in Turns : turn'[u].load = turn[u].load \/ turn'[u].load = NoLoad
      BY <1>7 DEF EnsureHits, TurnEnds, Bind, IdleTurn, TypeOK
    <2>. QED
      BY <2>1, <2>2 DEF Inv, Quiet, TaskInv, LoadInv, TurnInv, SpawnInv, Settled,
                        MemoryMatchesStore
  <1>8. ASSUME NEW t \in Turns, EnsureDisabled(t)
        PROVE  Inv'
    <2>1. UNCHANGED <<cfg, task, load, split, spawned>> /\ ~cfg.enabled
      BY <1>8 DEF EnsureDisabled
    <2>2. ~split => ~spawned /\ task = NoLoad /\ \A l \in Loads : load[l].at # "flying"
      BY <1>8, FirstOfEpoch DEF EnsureDisabled, Inv
    <2>3. ~split => \A u \in Turns : turn'[u].load = NoLoad
      BY <1>8, FirstOfEpoch DEF EnsureDisabled, Inv, Bind, IdleTurn
    <2>4. ~split => Quiet'
      BY <2>1, <2>2, <2>3 DEF Quiet, TaskInv, LoadInv, TurnInv, SpawnInv
    <2>5. Default(rt) \in Runtime
      <3>1. cfg.creds \in Creds
        BY DEF TypeOK, Config
      <3>. QED
        BY <3>1, RuntimeType DEF TypeOK
    <2>6. /\ rt'.enabled = FALSE /\ rt'.tools = Default(rt).tools
          /\ rt'.loading = Default(rt).loading /\ rt'.failed = Default(rt).failed
      BY <1>8, <2>5 DEF EnsureDisabled, Runtime
    <2>7. cfg'.enabled = FALSE
      BY <2>1 DEF TypeOK, Config
    <2>8. MemoryMatchesStore'
      <3>1. CASE rt.known
        BY <1>8, <2>6, <2>7, <3>1
        DEF EnsureDisabled, RegistryHit, MemoryMatchesStore, Default
      <3>2. CASE ~rt.known
        BY <2>6, <2>7, <3>2 DEF MemoryMatchesStore, Default, FreshRuntime
      <3>. QED
        BY <3>1, <3>2
    <2>. QED
      BY <2>1, <2>4, <2>8 DEF Inv
  <1>9. ASSUME NEW t \in Turns, NEW l \in Loads, EnsureLoads(t, l)
        PROVE  Inv'
    <2>1. /\ UNCHANGED <<cfg, split>> /\ cfg.enabled
          /\ task' = l /\ spawned' = TRUE
          /\ load' = [load EXCEPT ![l] = [at |-> "flying", creds |-> cfg.creds]]
      BY <1>9 DEF EnsureLoads
    <2>2. Default(rt) \in Runtime /\ Default(rt).known
      <3>1. cfg.creds \in Creds
        BY DEF TypeOK, Config
      <3>. QED
        BY <3>1, RuntimeType DEF TypeOK, Default, FreshRuntime
    <2>3. rt'.known /\ rt'.loading
      BY <1>9, <2>2 DEF EnsureLoads, Runtime
    <2>4. load'[l].at = "flying" /\ load'[l].creds = cfg.creds
      BY <2>1 DEF TypeOK
    <2>5. ~split => TaskInv' /\ SpawnInv'
      BY <1>0, <2>1, <2>3, <2>4 DEF TaskInv, SpawnInv
    <2>6. ~split => LoadInv'
      <3>1. ~split => \A k \in Loads : k # l => load'[k].at # "flying"
        BY <1>9, <2>1, FirstOfEpoch DEF EnsureLoads, Inv, TypeOK
      <3>. QED
        BY <2>1, <2>4, <3>1 DEF LoadInv
    <2>7. ~split => TurnInv'
      <3>1. ~split => \A u \in Turns : turn'[u].load \in {l, NoLoad}
        BY <1>9, FirstOfEpoch DEF EnsureLoads, Inv, IdleTurn, TypeOK
      <3>. QED
        BY <2>1, <3>1 DEF TurnInv
    <2>8. MemoryMatchesStore'
      BY <2>3 DEF MemoryMatchesStore
    <2>. QED
      BY <2>1, <2>5, <2>6, <2>7, <2>8 DEF Inv, Quiet
  <1>10. ASSUME NEW t \in Turns, EnsureJoins(t)
         PROVE  Inv'
    <2>1. task \in Loads /\ UNCHANGED <<cfg, split, spawned>>
      BY <1>10 DEF EnsureJoins, LoadRegistered, TypeOK
    <2>2. CASE /\ load[task].at = "flying"
               /\ turn' = [turn EXCEPT ![t] = [IdleTurn EXCEPT !.at = "waiting", !.load = task]]
               /\ UNCHANGED <<rt, task, load>>
      <3>1. \A u \in Turns : turn'[u].load = turn[u].load \/ turn'[u].load = task
        BY <2>2 DEF IdleTurn, TypeOK
      <3>2. ~split => TurnInv'
        BY <1>0, <2>1, <2>2, <3>1 DEF Inv, Quiet, TaskInv, TurnInv
      <3>3. ~split => TaskInv' /\ LoadInv' /\ SpawnInv'
        BY <2>1, <2>2 DEF Inv, Quiet, TaskInv, LoadInv, SpawnInv, Settled
      <3>4. MemoryMatchesStore'
        BY <2>1, <2>2 DEF Inv, MemoryMatchesStore
      <3>. QED
        BY <2>1, <3>2, <3>3, <3>4 DEF Inv, Quiet
    <2>3. CASE Collect({t}, task)
      <3>1. CASE split
        BY <2>1, <3>1 DEF Inv, MemoryMatchesStore
      <3>2. CASE ~split
        <4>1. spawned
          BY <1>0, <2>1, <3>2 DEF Inv, Quiet, TaskInv
        <4>2. {t} \in SUBSET Turns
          OBVIOUS
        <4>. QED
          BY <2>1, <2>3, <3>2, <4>1, <4>2, CollectQuiet DEF Inv
      <3>. QED
        BY <3>1, <3>2
    <2>. QED
      BY <1>10, <2>2, <2>3 DEF EnsureJoins
  <1>11. ASSUME NEW t \in Turns, TurnCancelled(t)
         PROVE  Inv'
    <2>1. UNCHANGED <<rt, cfg, task, split, spawned>>
      BY <1>11 DEF TurnCancelled
    <2>2. \A u \in Turns : turn'[u].load = turn[u].load \/ turn'[u].load = NoLoad
      BY <1>11 DEF TurnCancelled, IdleTurn, TypeOK
    <2>3. \A l \in Loads : load'[l] # load[l] =>
             load[l].at = "flying" /\ load'[l].at = "cancelled"
      BY <1>11 DEF TurnCancelled, TypeOK
    <2>4. ~split => TaskInv'
      BY <1>0, <2>1, <2>3 DEF Inv, Quiet, TaskInv, TypeOK
    <2>5. ~split => LoadInv'
      BY <2>1, <2>3 DEF Inv, Quiet, LoadInv
    <2>6. ~split => TurnInv' /\ SpawnInv'
      BY <2>1, <2>2 DEF Inv, Quiet, TurnInv, SpawnInv, Settled
    <2>7. MemoryMatchesStore'
      BY <2>1 DEF Inv, MemoryMatchesStore
    <2>. QED
      BY <2>1, <2>4, <2>5, <2>6, <2>7 DEF Inv, Quiet
  <1>12. ASSUME NEW l \in Loads, LoadEnds(l)
         PROVE  Inv'
    <2>1. UNCHANGED <<cfg, task, turn, split, spawned>> /\ load[l].at = "flying"
      BY <1>12 DEF LoadEnds
    <2>2. \A k \in Loads : k # l => load'[k] = load[k]
      BY <1>12 DEF LoadEnds, TypeOK
    <2>3. load'[l].at \in {"ok", "failed"}
      BY <1>12 DEF LoadEnds, TypeOK
    <2>4. ~split => task = l /\ cfg.enabled /\ load[l].creds = cfg.creds
      BY <2>1 DEF Inv, Quiet, LoadInv
    <2>5. ~split => LoadInv' /\ TurnInv'
      BY <2>1, <2>2, <2>3 DEF Inv, Quiet, LoadInv, TurnInv
    <2>6. ~split => TaskInv' /\ SpawnInv'
      <3>1. CASE rt' = Loaded(load[l].creds)
        <4>1. rt'.known /\ ~rt'.loading /\ rt'.tools # {}
          BY <3>1 DEF Loaded
        <4>2. load'[l].at = "ok" \/ UNCHANGED rt
          BY <1>12 DEF LoadEnds, TypeOK
        <4>3. ~split => rt.loading
          BY <1>0, <2>1, <2>4 DEF Inv, Quiet, TaskInv
        <4>. QED
          BY <1>0, <2>1, <2>4, <4>1, <4>2, <4>3 DEF Inv, Quiet, TaskInv, SpawnInv
      <3>2. CASE rt' = rt /\ load' = [load EXCEPT ![l] = [at |-> "failed", creds |-> NoCreds]]
        <4>1. load'[l].at = "failed"
          BY <3>2 DEF TypeOK
        <4>. QED
          BY <1>0, <2>1, <2>4, <3>2, <4>1 DEF Inv, Quiet, TaskInv, SpawnInv
      <3>. QED
        BY <1>12, <3>1, <3>2 DEF LoadEnds
    <2>7. MemoryMatchesStore'
      <3>1. CASE rt' = rt
        BY <2>1, <3>1 DEF Inv, MemoryMatchesStore
      <3>2. CASE rt' = Loaded(load[l].creds)
        <4>1. rt'.enabled = TRUE /\ rt'.tools = {load[l].creds}
          BY <3>2 DEF Loaded
        <4>2. cfg.enabled \in BOOLEAN
          BY DEF TypeOK, Config
        <4>. QED
          BY <2>1, <2>4, <4>1, <4>2 DEF MemoryMatchesStore
      <3>. QED
        BY <1>12, <3>1, <3>2 DEF LoadEnds
    <2>. QED
      BY <2>1, <2>5, <2>6, <2>7 DEF Inv, Quiet
  <1>13. ASSUME NEW l \in Loads, TurnsWake(l)
         PROVE  Inv'
    <2>. DEFINE ts == {t \in Turns : turn[t].load = l}
    <2>1. /\ Collect(ts, l) /\ ts # {}
          /\ UNCHANGED <<cfg, req, oauth, split, spawned>>
      BY <1>13 DEF TurnsWake
    <2>2. CASE split
      BY <2>1, <2>2 DEF Inv, MemoryMatchesStore
    <2>3. CASE ~split
      <3>1. PICK t \in Turns : turn[t].load = l
        BY <2>1
      <3>2. spawned /\ task \in {l, NoLoad}
        BY <1>0, <2>3, <3>1 DEF Inv, Quiet, TurnInv
      <3>3. ts \in SUBSET Turns
        OBVIOUS
      <3>. QED
        BY <2>1, <2>3, <3>2, <3>3, CollectQuiet DEF Inv
    <2>. QED
      BY <2>2, <2>3
  <1>14. ASSUME Restart
         PROVE  Inv'
    <2>1. Quiet'
      BY <1>14 DEF Restart, Quiet, TaskInv, LoadInv, TurnInv, SpawnInv, FreeLoad,
                   IdleTurn
    <2>2. MemoryMatchesStore'
      BY <1>14 DEF Restart, MemoryMatchesStore, NoRuntime, FreshRuntime
    <2>. QED
      BY <2>1, <2>2 DEF Inv
  <1>15. CASE UNCHANGED vars
    BY <1>15 DEF vars, Inv, Quiet, TaskInv, LoadInv, TurnInv, SpawnInv, Settled,
                 MemoryMatchesStore
  <1>. QED
    BY <1>1, <1>2, <1>3, <1>4, <1>5, <1>6, <1>7, <1>8, <1>9, <1>10, <1>11, <1>12,
       <1>13, <1>14, <1>15 DEF Next

LEMMA Invariant == Spec => [](TypeOK /\ Inv)
  BY InitType, NextType, InitInv, NextInv, PTL DEF Spec

-----------------------------------------------------------------------------
(***************************************************************************)
(* What follows from it.                                                   *)
(***************************************************************************)
\* Memory and store agree, and the usable tools carry the stored credentials.
THEOREM MemoryMatchesStoreHolds == Spec => []MemoryMatchesStore
  <1>1. Inv => MemoryMatchesStore
    BY DEF Inv
  <1>. QED
    BY Invariant, <1>1, PTL

\* The turns of a user share one lazy load.
THEOREM AtMostOneLazyLoadHolds == Spec => []AtMostOneLazyLoad
  <1>1. Inv => AtMostOneLazyLoad
    BY DEF Inv, Quiet, LoadInv, AtMostOneLazyLoad
  <1>. QED
    BY Invariant, <1>1, PTL

\* A failed load is not retried without a toggle or a restart.
THEOREM NoRespawnHolds == Spec => NoRespawn
  <1>. DEFINE A == \A l \in Loads :
                      load[l].at # "flying" /\ load'[l].at = "flying"
                          => ~spawned \/ split
  <1>1. TypeOK /\ Inv /\ [Next]_vars => [A]_vars
    <2>. SUFFICES ASSUME TypeOK, Inv, Next, NEW k \in Loads,
                         load[k].at # "flying", load'[k].at = "flying", ~split
                  PROVE  ~spawned
      BY DEF vars
    <2>1. CASE \E t \in Turns, l \in Loads : EnsureLoads(t, l)
      BY <2>1, FirstOfEpoch DEF EnsureLoads, Inv
    <2>2. ASSUME NEW l \in Loads, NEW ts \in SUBSET Turns, Collect(ts, l)
          PROVE  FALSE
      BY <2>2 DEF Collect, FreeLoad, TypeOK
    <2>3. ASSUME NEW t \in Turns, EnsureJoins(t)
          PROVE  FALSE
      <3>1. task \in Loads /\ {t} \in SUBSET Turns
        BY <2>3 DEF EnsureJoins, LoadRegistered, TypeOK
      <3>. QED
        BY <2>2, <2>3, <3>1 DEF EnsureJoins
    <2>4. ASSUME NEW l \in Loads, LoadEnds(l) \/ TurnsWake(l)
          PROVE  FALSE
      BY <2>2, <2>4 DEF LoadEnds, TurnsWake, TypeOK
    <2>5. ASSUME NEW t \in Turns, TurnCancelled(t)
          PROVE  FALSE
      BY <2>5 DEF TurnCancelled, TypeOK
    <2>6. CASE Restart
      BY <2>6 DEF Restart, FreeLoad
    <2>. QED
      BY <2>1, <2>3, <2>4, <2>5, <2>6
      DEF Next, EnableStarts, EnableSucceeds, EnableFails, Disable, Authorize,
          CallbackArrives, CallbackFails, MarkUserConnected, EnsureHits,
          EnsureDisabled, TurnEnds
  <1>. QED
    BY Invariant, <1>1, PTL DEF Spec, NoRespawn

\* A settled registry without a failure offers the tools of a connected user.
LEMMA SettledBrings ==
    ASSUME TypeOK, MemoryMatchesStore, ~split, cfg.enabled, ~rt.failed,
           rt.known, ~rt.loading, rt.tools # {} \/ ~rt.enabled
    PROVE  BoundTools(rt) = {cfg.creds}
  <1>1. rt.enabled = cfg.enabled /\ rt.tools \subseteq {cfg.creds}
    BY DEF MemoryMatchesStore
  <1>2. rt.tools = {cfg.creds}
    BY <1>1
  <1>. QED
    BY <1>1, <1>2 DEF BoundTools

\* A turn that collects a load and goes on finds those tools.
LEMMA CollectBrings ==
    ASSUME TypeOK, Quiet, MemoryMatchesStore, ~split,
           NEW l \in Loads, NEW ts \in SUBSET Turns,
           spawned, task \in {l, NoLoad}, Collect(ts, l),
           NEW t \in Turns, turn[t].at # "bound", turn'[t].at = "bound",
           cfg.enabled, ~rt'.failed
    PROVE  BoundTools(rt') = {cfg.creds}
  <1>1. NoLoad \notin Loads
    BY DingTalkAssumption
  <1>2. CASE load[l].at = "ok" /\ rt' = rt
    <2>1. rt.known /\ ~rt.loading /\ rt.tools # {}
      BY <1>1, <1>2 DEF Quiet, TaskInv, SpawnInv, Settled
    <2>. QED
      BY <1>2, <2>1, SettledBrings
  <1>3. CASE rt' = LazyFailed(rt)
    <2>1. rt.known
      BY <1>1 DEF Quiet, TaskInv, SpawnInv, Settled
    <2>. QED
      BY <1>3, <2>1 DEF LazyFailed, TypeOK, Runtime
  <1>4. CASE turn' = [u \in Turns |->
                        IF u \notin ts THEN turn[u]
                        ELSE IF turn[u].at = "cancelling" THEN IdleTurn
                        ELSE [IdleTurn EXCEPT !.at = "hurt"]]
    BY <1>4 DEF IdleTurn
  <1>. QED
    BY <1>2, <1>3, <1>4 DEF Collect, Answer

\* A turn of a connected user is bound to tools with the stored credentials,
\* unless their load has failed.
THEOREM EnsureBringsToolsHolds == Spec => EnsureBringsTools
  <1>. DEFINE A == \A t \in Turns :
                      turn[t].at # "bound" /\ turn'[t].at = "bound"
                          /\ cfg.enabled /\ ~rt'.failed /\ ~split
                          => BoundTools(rt') = {cfg.creds}
  <1>1. TypeOK /\ Inv /\ [Next]_vars => [A]_vars
    <2>. SUFFICES ASSUME TypeOK, Inv, Next, NEW t \in Turns,
                         turn[t].at # "bound", turn'[t].at = "bound",
                         cfg.enabled, ~rt'.failed, ~split
                  PROVE  BoundTools(rt') = {cfg.creds}
      BY DEF vars
    <2>0. NoLoad \notin Loads
      BY DingTalkAssumption
    <2>1. ASSUME NEW u \in Turns, EnsureHits(u)
          PROVE  BoundTools(rt') = {cfg.creds}
      BY <2>1, SettledBrings DEF EnsureHits, RegistryHit, Inv
    <2>2. ASSUME NEW u \in Turns, EnsureJoins(u)
          PROVE  BoundTools(rt') = {cfg.creds}
      <3>1. task \in Loads /\ {u} \in SUBSET Turns
        BY <2>2 DEF EnsureJoins, LoadRegistered, TypeOK
      <3>2. spawned
        BY <2>0, <3>1 DEF Inv, Quiet, TaskInv
      <3>3. Collect({u}, task)
        BY <2>2 DEF EnsureJoins, IdleTurn, TypeOK
      <3>. QED
        BY <3>1, <3>2, <3>3, CollectBrings DEF Inv
    <2>3. ASSUME NEW l \in Loads, TurnsWake(l)
          PROVE  BoundTools(rt') = {cfg.creds}
      <3>. DEFINE ts == {u \in Turns : turn[u].load = l}
      <3>1. Collect(ts, l) /\ ts # {} /\ ts \in SUBSET Turns
        BY <2>3 DEF TurnsWake
      <3>2. PICK u \in Turns : turn[u].load = l
        BY <3>1
      <3>3. spawned /\ task \in {l, NoLoad}
        BY <2>0, <3>2 DEF Inv, Quiet, TurnInv
      <3>. QED
        BY <3>1, <3>3, CollectBrings DEF Inv
    <2>4. ASSUME NEW u \in Turns, EnsureDisabled(u)
          PROVE  FALSE
      BY <2>4 DEF EnsureDisabled
    <2>5. ASSUME NEW u \in Turns, NEW l \in Loads, EnsureLoads(u, l)
          PROVE  FALSE
      BY <2>5 DEF EnsureLoads, IdleTurn, TypeOK
    <2>6. ASSUME NEW u \in Turns, TurnCancelled(u)
          PROVE  FALSE
      BY <2>6 DEF TurnCancelled, IdleTurn, TypeOK
    <2>7. ASSUME NEW u \in Turns, TurnEnds(u)
          PROVE  FALSE
      BY <2>7 DEF TurnEnds, IdleTurn, TypeOK
    <2>8. CASE Restart
      BY <2>8 DEF Restart, IdleTurn
    <2>. QED
      BY <2>1, <2>2, <2>3, <2>4, <2>5, <2>6, <2>7, <2>8
      DEF Next, EnableStarts, EnableSucceeds, EnableFails, Disable, Authorize,
          CallbackArrives, CallbackFails, MarkUserConnected, LoadEnds
  <1>. QED
    BY Invariant, <1>1, PTL DEF Spec, EnsureBringsTools
=============================================================================
