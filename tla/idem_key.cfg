\* Two requests, any of two bodies each time, through claims that expire.
SPECIFICATION FairSpec
CONSTANTS
    Requests = {q1, q2}
    Bodies = {a, b}
    NoBody = NoBody
    TTL = 2
    Lag = 1
    MaxTime = 7
CHECK_DEADLOCK FALSE
INVARIANTS
    OneHolder
    NoRerun
    ReplayIsOwn
PROPERTIES
    KeyIsFreed
