CONSTANTS
    Checks = {c1, c2}
    Tokens = {t1, t2, t3, t4}
    NoToken = NoToken
    MaxRetries = 2
SPECIFICATION Spec
INVARIANTS
    TypeOK
    RiskPassesOnlyUnchecked
