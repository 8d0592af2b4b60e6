\* Two roles, two project grants to two organizations, and a user of each side.
SPECIFICATION DelegationSpec
CONSTANTS
    o1 = o1
    o2 = o2
    own = own
    u0 = u0
    u1 = u1
    Role = {k1, k2}
    Grant = {g1, g2}
    Org = {o1, o2}
    Owner = own
    User = {u0, u1}
    Home <- HomeOf
    Direct = Direct
    Nobody = Nobody
    Admin = {a1, a2}
SYMMETRY Symmetric
INVARIANTS DelegationTypeOK DelegationHolds NoOtherPath NamedRolesExist
PROPERTY ImplementsTables
