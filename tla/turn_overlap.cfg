CONSTANTS
    Runs = {r1, r2}
    Models = {m1}
    Active = m1
    NoModel = NoModel
    Failures <- TriedAgain
    MaxAttempts = 2
    MaxRounds = 1
    MaxTurns = 2
SYMMETRY Symmetric
SPECIFICATION Spec
PROPERTIES
    CallsDangleOnlyWhenCut
    AnswerIsOwn
