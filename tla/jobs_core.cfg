SPECIFICATION PolledSpec
CONSTANTS
    j1 = j1
    j2 = j2
    j3 = j3
    s1 = s1
    s2 = s2
    Jobs <- ThreeJobs
    Old <- LastJob
    OldAge = 4
    Sessions <- TwoSessions
    SessionOf <- MixedSessions
    RunTimeout = 1
    ResumeTimeout = 1
    Slack = 0
    FilterTimeout = 0
    PruneAge = 4
    SearchLimit = 1
    StoreMayFail = TRUE
    MaxRounds = 2
    MaxCrashes = 1
    LastSubmit = 7
    MaxTime = 11
INVARIANTS
    TypeOK
    SessionLock
    SharedThreadHasACause
    NoLostWakeup
    EveryResumeHasADecision
    RegistriesFollowRunners
    RunnerLifeIsBounded
PROPERTIES
    SettledStaysSettled
    AcceptedDecisionCounts
    PruneSparesRunners
    LifecycleSpec
    RunnerEnds
    PolledJobSettles
