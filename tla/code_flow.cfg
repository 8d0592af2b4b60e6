\* Two authorization requests, by clients of two organizations, and one user.
SPECIFICATION Spec
CONSTANTS
    c1 = c1
    c2 = c2
    u1 = u1
    Requests = {q1, q2}
    Asks = {a1, a2}
    Codes = {k1, k2}
    Sessions = {s1, s2}
    MaxWaiting = 1
    Clients = {c1, c2}
    Users = {u1}
    Org <- OrgOf
    NoAsk = NoAsk
    NoClient = NoClient
    NoUser = NoUser
    NoSession = NoSession
SYMMETRY Symmetric
INVARIANTS
    SessionIsCurrent
    MandateHolds
PROPERTIES
    ImplementsGrant
