\* One holder of one role, direct or through a grant, one administrator, one check.
SPECIFICATION Spec
CONSTANTS
    Users = {u}
    NoUser = NoUser
    Roles = {admin}
    ProjectGrants = {g}
    Delegable <- DelegateAll
    NoGrant = NoGrant
    Definitions = Definitions
    Nothing = Nothing
    Checks = {c}
    Admins = {a}
    TTL = 1
    GenTTL = 3
    Lag = 1
    MaxRevokes = 2
    MaxTime = 3
INVARIANTS
    StalenessBounded
    RevokedIsDenied
