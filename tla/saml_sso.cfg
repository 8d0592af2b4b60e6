\* One AuthnRequest and one sign-on started here, two tabs, a registration that is
\* removed and made again.
SPECIFICATION SignOnSpec
CONSTANTS
    home1 = home1
    other1 = other1
    Requests = {q1, q2}
    Ids = {i1}
    Registrations = {r1, r2}
    Sessions = {s1, s2}
    Orgs = {home1, other1}
    Org <- OrgOf
    Entity <- EntityOf
    MaxRecords = 2
    MaxAnswers = 2
    NoId = NoId
    NoSP = NoSP
    NoSession = NoSession
    NoOrg = NoOrg
SYMMETRY Symmetric
INVARIANTS
    AnswersFit
    
    OnceThroughLogin
CHECK_DEADLOCK FALSE
