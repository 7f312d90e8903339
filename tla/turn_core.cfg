CONSTANTS
    Runs = {r1}
    Models = {m1, m2}
    Active = m1
    NoModel = NoModel
    Failures <- OneOfEach
    MaxAttempts = 2
    MaxRounds = 1
    MaxTurns = 2
SPECIFICATION Spec
INVARIANTS
    TypeOK
    AudioIsHeard
PROPERTIES
    ApologyOnlyWhenAllFailed
    TurnEnds
