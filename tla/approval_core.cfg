CONSTANTS
    Threads = {t1}
    Keys = {k1, k2}
    Fields <- TaskFields
    Values <- Either
    NoTask = NoTask
    Drafts <- Untouched
    Patches <- OnePatch
    MaxCalls = 2
    MaxOutputs = 2
    MaxRunning = 1
    MaxAttempts = 2
    SearchLimit = 2
    StoreMayFail = TRUE
SPECIFICATION Spec
INVARIANTS
    TypeOK
    CardIsCurrent
PROPERTIES
    ApplyWritesWhatWasApproved
    ApprovalTakesEffect
