SPECIFICATION Spec
CONSTANTS
    j1 = j1
    j2 = j2
    j3 = j3
    s1 = s1
    s2 = s2
    Jobs <- TwoJobs
    Old <- NoJobs
    OldAge = 0
    Sessions <- OneSession
    SessionOf <- SameSession
    RunTimeout = 5
    ResumeTimeout = 60
    Slack = 1
    FilterTimeout = 1
    PruneAge = 1440
    SearchLimit = 10
    StoreMayFail = FALSE
    MaxRounds = 1
    MaxCrashes = 0
    LastSubmit = 67
    MaxTime = 72
INVARIANT OneRunnerPerSession
