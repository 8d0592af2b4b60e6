----------------------------- MODULE RoleTables -----------------------------
(***************************************************************************)
(* What the role API promises its callers: every request takes effect at   *)
(* one moment, on the tables as they are at that moment.  Roles are        *)
(* assigned under a project grant while it is active, within the roles it  *)
(* delegates and to users of the organization it is made to; a user holds  *)
(* the roles of a project along one path at a time, and a revoked project  *)
(* grant is never active again.  Delegation, whose requests check and      *)
(* write at different moments, implements it.                              *)
(***************************************************************************)
CONSTANTS Role, Grant, Org, Owner, User, Home, Direct, Nobody

VARIABLES
    grants, \* the project grants: none yet, active or revoked
    rows    \* how each user holds roles, and which

tables == <<grants, rows>>

NotMade == [status |-> "none"]
Nothing == [via |-> Nobody, keys |-> {}]

Sets == (SUBSET Role) \ {{}}

Init ==
    /\ grants = [g \in Grant |-> NotMade]
    /\ rows = [u \in User |-> Nothing]

\* One active project grant to an organization.
Delegate(g, o) ==
    /\ grants[g] = NotMade
    /\ \A h \in Grant : grants[h].status = "active" => grants[h].org # o
    /\ \E keys \in Sets :
         grants' = [grants EXCEPT ![g] =
                       [status |-> "active", org |-> o, keys |-> keys]]
    /\ UNCHANGED rows

Revoke(g) ==
    /\ grants[g].status = "active"
    /\ grants' = [grants EXCEPT ![g].status = "revoked"]
    /\ UNCHANGED rows

\* The roles the user may be given along the path via.
Allowed(via, u) ==
    IF via = Direct THEN {keys \in Sets : Home[u] = Owner}
    ELSE {keys \in Sets : /\ grants[via].status = "active"
                          /\ grants[via].org = Home[u]
                          /\ keys \subseteq grants[via].keys}

Hold(via, u) ==
    /\ \E keys \in Allowed(via, u) :
         rows' = [rows EXCEPT ![u] = [via |-> via, keys |-> keys]]
    /\ UNCHANGED grants

\* The user holds nothing, or what a revoked project grant left behind.
Assign(via, u) ==
    /\ \/ rows[u] = Nothing
       \/ /\ via # Direct /\ rows[u].via \in Grant
          /\ grants[rows[u].via].status = "revoked"
    /\ Hold(via, u)

\* The path stays.
Replace(u) == rows[u] # Nothing /\ Hold(rows[u].via, u)

Remove(u) ==
    /\ rows' = [rows EXCEPT ![u] = Nothing]
    /\ UNCHANGED grants

Next ==
    \/ \E g \in Grant : Revoke(g) \/ \E o \in Org : Delegate(g, o)
    \/ \E u \in User :
         \/ \E via \in Grant \cup {Direct} : Assign(via, u)
         \/ Replace(u) \/ Remove(u)

Spec == Init /\ [][Next]_tables
=============================================================================
