\* Two requests answer one challenge while factors and codes change.
SPECIFICATION Spec
CONSTANTS
    Requests = {q1, q2}
    Handles = {h1}
    NoHandle = NoHandle
    Factors = {f1}
    NoFactor = NoFactor
    Batches = {b1, b2}
    PerBatch = 1
    NoCode = NoCode
    MaxAttempts = 2
    MaxPerWindow = 2
    Window = 2
    TTL = 1
    Skew = 1
    HasPasskey = TRUE
    MaxTime = 2
SYMMETRY MfaSymmetry
INVARIANTS
    AcceptedOnce
    
PROPERTIES
    GoneIsFinal
CHECK_DEADLOCK FALSE
