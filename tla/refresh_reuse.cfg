\* Two requests, three tokens: retries, reuse, revocation and the janitor.
SPECIFICATION Spec
CONSTANTS
    Requests = {q1, q2}
    MaxTokens = 3
    Grace = 1
    Life = 2
    FamilyLife = 2
    SessionLife = 1
    SessionRetention = 0
    TokenRetention = 0
    Lag = 1
    MaxTime = 3
SYMMETRY RequestSymmetry
CHECK_DEADLOCK FALSE
INVARIANTS
    OneHeir
    DeadMintsNothing
    FamilyAgesOut
    SessionGuards
    KillHolds
    NoFalseAlarm
    HeldIsUsable
