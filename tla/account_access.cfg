\* Two requests on one account, which is evicted while they run.
SPECIFICATION Spec
CONSTANTS
    Requests = {q1, q2}
    Sessions = {s1, s2}
    Links = {l1, l2, l3}
    Passwords = {p1, p2}
    NoPassword = NoPassword
    NoSession = NoSession
    NoLink = NoLink
SYMMETRY AccountSymmetry
INVARIANTS
    
    LinkSetsOnce
PROPERTIES
    DeactivationHolds
CHECK_DEADLOCK FALSE
