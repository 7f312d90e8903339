CONSTANTS
    Threads = {t1}
    Keys = {k1}
    Fields <- TaskFields
    Values <- Either
    NoTask = NoTask
    Drafts <- Untouched
    Patches <- OnePatch
    MaxCalls = 2
    MaxOutputs = 2
    MaxRunning = 1
    MaxAttempts = 1
    SearchLimit = 1
    StoreMayFail = FALSE
SPECIFICATION Spec
PROPERTY ProposalsArePresented
