----------------------------- MODULE Delegation -----------------------------
(***************************************************************************)
(* The roles of one project, the grants that lend it to other              *)
(* organizations, and the rows that give its roles to users                *)
(* (backend/internal/role, grant, projectgrant and the triggers of         *)
(* backend/migrations).                                                    *)
(*                                                                         *)
(* The organization that owns the project grants its own users roles       *)
(* directly.  It also delegates a set of roles to a receiving              *)
(* organization, by a project grant; that organization then assigns them   *)
(* to its users.  Every write is a transaction at READ COMMITTED: what it  *)
(* checks and what it commits are two steps here, and between them the     *)
(* transaction of another administrator may commit unless a row is locked. *)
(* A project grant is locked FOR SHARE from the check to the commit of a   *)
(* write under it.  Roles are not locked by anyone.                        *)
(*                                                                         *)
(* A role that is built in is never deleted and is not in Role.            *)
(***************************************************************************)
EXTENDS Integers, FiniteSets

CONSTANTS
    Role,       \* role keys of the project
    Grant,      \* the project grants that are ever made
    Org,        \* receiving organizations
    Owner,      \* the organization that owns the project
    User,
    Home,       \* the organization of each user
    Direct,     \* how a user holds roles without a project grant
    Nobody,     \* how a user without a row holds none
    Admin       \* the administrators, each with one transaction at a time

ASSUME PartiesAssumption ==
    /\ Owner \notin Org
    /\ Home \in [User -> Org \cup {Owner}]
    /\ Direct \notin Grant
    /\ Nobody \notin Grant \cup {Direct}

VARIABLES
    roles,      \* roles: the keys that exist
    accepts,    \* the receiving organizations that are live and active
    grants,     \* project_grants
    rows,       \* user_grants: how each user holds roles, and which
    txn,        \* the transaction of each administrator
    raced       \* keys written by one transaction while another deleted them

delegationVars == <<roles, accepts, grants, rows, txn, raced>>

\* delegatedKeys, roleKeys and validateKeys refuse an empty set.
KeySets == (SUBSET Role) \ {{}}

NoGrant == [status |-> "none"]
GrantRecords ==
    {NoGrant} \cup [status : {"active", "revoked"}, org : Org, keys : KeySets]

NoRow == [via |-> Nobody, keys |-> {}]
Rows == {NoRow} \cup [via : Grant \cup {Direct}, keys : KeySets]

Idle == [op |-> "idle"]
Transactions ==
    {Idle}
        \cup [op : {"countGrants", "deleteRole"}, keys : KeySets]
        \cup [op : {"createGrant"}, org : Org, keys : KeySets]
        \cup [op : {"assign", "replace"}, grant : Grant, user : User, keys : KeySets]
        \cup [op : {"direct", "patch"}, user : User, keys : KeySets]

-----------------------------------------------------------------------------
(* What a transaction in flight holds.                                     *)

Running(a, ops) == txn[a].op \in ops

\* The handlers as they would be if they read the grant without a lock, and
\* only the trigger of a direct write took it.
SharedByTrigger(g) ==
    \E a \in Admin : Running(a, {"patch"}) /\ rows[txn[a].user].via = g

\* The grant a transaction has read FOR SHARE and not yet released.
Shared(g) ==
    \E a \in Admin :
        \/ Running(a, {"assign", "replace"}) /\ txn[a].grant = g
        \/ Running(a, {"patch"}) /\ rows[txn[a].user].via = g

\* The row an UPDATE has locked before its triggers ran.
RowLocked(u) == \E a \in Admin : Running(a, {"patch"}) /\ txn[a].user = u

Writing(k) ==
    \E a \in Admin :
        /\ Running(a, {"createGrant", "assign", "replace", "direct", "patch"})
        /\ k \in txn[a].keys

Deleting(k) ==
    \E a \in Admin : Running(a, {"countGrants", "deleteRole"}) /\ k \in txn[a].keys

\* The trigger user_grants_delegation_closed, and requireAssignable.
Assignable(g, u, keys) ==
    /\ grants[g].status = "active"
    /\ grants[g].org = Home[u]
    /\ keys \subseteq grants[g].keys

Begin(a, t) ==
    /\ txn[a] = Idle
    /\ txn' = [txn EXCEPT ![a] = t]
    /\ UNCHANGED <<roles, accepts, grants, rows, raced>>

Finish(a) == txn' = [txn EXCEPT ![a] = Idle]

\* A key written here is being deleted elsewhere.
NoteRace(keys) == raced' = raced \cup {k \in keys : Deleting(k)}

\* The user's row becomes r and the transaction of a commits.
CommitRow(a, u, r) ==
    /\ rows' = [rows EXCEPT ![u] = r]
    /\ NoteRace(r.keys)
    /\ Finish(a)
    /\ UNCHANGED <<roles, accepts, grants>>

\* The transaction leaves nothing behind, whatever it is refused for.
Refuse(a) ==
    /\ Finish(a)
    /\ UNCHANGED <<roles, accepts, grants, rows, raced>>

-----------------------------------------------------------------------------
(* Roles.                                                                  *)

\* Store.Create: a key is taken once in a project.
InsertRole(k) == k \notin roles /\ roles' = roles \cup {k}

CreateRole(k) ==
    /\ InsertRole(k)
    /\ UNCHANGED <<accepts, grants, rows, txn, raced>>

\* Store.Delete, first statement: no row may name the key.
CountRows(a, k) ==
    /\ k \in roles
    /\ \A u \in User : k \notin rows[u].keys
    /\ Begin(a, [op |-> "countGrants", keys |-> {k}])

\* The count as it was before there were project grants.
ActiveWithNone(keys) == {}

\* The active project grants that delegate one of keys.
ActiveWith(keys) ==
    {g \in Grant : grants[g].status = "active" /\ keys \cap grants[g].keys # {}}

\* Second statement: no active grant may name it.
CountGrants(a) ==
    /\ txn[a].op = "countGrants"
    /\ txn' = [txn EXCEPT ![a] = IF ActiveWith(txn[a].keys) = {}
                                 THEN [op |-> "deleteRole", keys |-> txn[a].keys]
                                 ELSE Idle]
    /\ UNCHANGED <<roles, accepts, grants, rows, raced>>

\* Third statement, and the commit.
DeleteRole(a) ==
    /\ txn[a].op = "deleteRole"
    /\ roles' = roles \ txn[a].keys
    /\ raced' = raced \cup {k \in txn[a].keys : Writing(k)}
    /\ Finish(a)
    /\ UNCHANGED <<accepts, grants, rows>>

-----------------------------------------------------------------------------
(* Project grants, by the organization that owns the project.              *)

\* A receiving organization is suspended, deleted or made active again.
ChangeOrganization(o) ==
    /\ accepts' = IF o \in accepts THEN accepts \ {o} ELSE accepts \cup {o}
    /\ UNCHANGED <<roles, grants, rows, txn, raced>>

\* Store.Create reads the organization and the roles.
CheckGrant(a, o, keys) ==
    /\ o \in accepts
    /\ keys \subseteq roles
    /\ Begin(a, [op |-> "createGrant", org |-> o, keys |-> keys])

CreateProjectGrant(a) == \E o \in Org, keys \in KeySets : CheckGrant(a, o, keys)

\* The insert as it would be without the index.
HasActiveUnseen(o) == FALSE

\* The unique index project_grants_project_granted_org_key.
HasActive(o) == \E g \in Grant : grants[g].status = "active" /\ grants[g].org = o

\* Store.Create inserts.
InsertGrant(a) ==
    /\ txn[a].op = "createGrant"
    /\ ~ HasActive(txn[a].org)
    /\ \E g \in Grant :
         /\ grants[g] = NoGrant
         /\ grants' = [grants EXCEPT ![g] = [status |-> "active",
                           org |-> txn[a].org, keys |-> txn[a].keys]]
    /\ NoteRace(txn[a].keys)
    /\ Finish(a)
    /\ UNCHANGED <<roles, accepts, rows>>

\* Store.Revoke: FOR UPDATE waits for every transaction that shares the grant.
RevokeGrant(g) ==
    /\ grants[g].status = "active"
    /\ ~ Shared(g)
    /\ grants' = [grants EXCEPT ![g].status = "revoked"]
    /\ UNCHANGED <<roles, accepts, rows, txn, raced>>

-----------------------------------------------------------------------------
(* Delegated roles, by the receiving organization.                         *)

\* Received, requireAssignable and requireMember.
Receive(a, op, g, u, keys) ==
    /\ Assignable(g, u, keys)
    /\ Begin(a, [op |-> op, grant |-> g, user |-> u, keys |-> keys])

\* Store.AssignDelegated: the user has no row, or one under a revoked grant,
\* which is deleted.
Free(u) ==
    \/ rows[u].via = Nobody
    \/ rows[u].via \in Grant /\ grants[rows[u].via].status = "revoked"

Assign(a) ==
    /\ txn[a].op = "assign"
    /\ ~ RowLocked(txn[a].user)
    /\ Free(txn[a].user)
    /\ CommitRow(a, txn[a].user, [via |-> txn[a].grant, keys |-> txn[a].keys])

\* Store.ReplaceDelegated.
Replace(a) ==
    /\ txn[a].op = "replace"
    /\ ~ RowLocked(txn[a].user)
    /\ rows[txn[a].user].via = txn[a].grant
    /\ CommitRow(a, txn[a].user, [rows[txn[a].user] EXCEPT !.keys = txn[a].keys])

-----------------------------------------------------------------------------
(* Direct grants, by the organization of the user.                         *)

\* GrantRolesToUser: the triggers find the roles and the project, which only
\* its owner sees.
GrantRoles(a, u, keys) ==
    /\ Home[u] = Owner
    /\ keys \subseteq roles
    /\ Begin(a, [op |-> "direct", user |-> u, keys |-> keys])

CommitGrant(a) ==
    /\ txn[a].op = "direct"
    /\ rows[txn[a].user].via = Nobody
    /\ CommitRow(a, txn[a].user, [via |-> Direct, keys |-> txn[a].keys])

\* The triggers as they fired before they covered role_keys.
PatchRowUnchecked(a, u, keys) ==
    /\ ~ RowLocked(u)
    /\ \/ rows[u].via = Direct /\ keys \subseteq roles
       \/ rows[u].via \in Grant
    /\ Begin(a, [op |-> "patch", user |-> u, keys |-> keys])

\* ReplaceUserGrant reaches any row of the user, delegated ones too: each kind
\* has its trigger.
PatchRow(a, u, keys) ==
    /\ ~ RowLocked(u)
    /\ \/ rows[u].via = Direct /\ keys \subseteq roles
       \/ rows[u].via \in Grant /\ Assignable(rows[u].via, u, keys)
    /\ Begin(a, [op |-> "patch", user |-> u, keys |-> keys])

CommitPatch(a) ==
    /\ txn[a].op = "patch"
    /\ CommitRow(a, txn[a].user, [rows[txn[a].user] EXCEPT !.keys = txn[a].keys])

\* The row emptied instead.
RemoveKeys(u) ==
    /\ rows[u].via # Nobody
    /\ ~ RowLocked(u)
    /\ rows' = [rows EXCEPT ![u].keys = {}]
    /\ UNCHANGED <<roles, accepts, grants, txn, raced>>

\* RevokeUserGrant and RemoveDelegatedRoles: one DELETE, under a revoked grant
\* as well.
RemoveRow(u) ==
    /\ rows[u].via # Nobody
    /\ ~ RowLocked(u)
    /\ rows' = [rows EXCEPT ![u] = NoRow]
    /\ UNCHANGED <<roles, accepts, grants, txn, raced>>

\* A write that finds its row taken, gone or held otherwise, or that fails for
\* any other reason, rolls back.
RollBack(a) == txn[a] # Idle /\ Refuse(a)

-----------------------------------------------------------------------------

DelegationInit ==
    /\ roles = {}
    /\ accepts = Org
    /\ grants = [g \in Grant |-> NoGrant]
    /\ rows = [u \in User |-> NoRow]
    /\ txn = [a \in Admin |-> Idle]
    /\ raced = {}

Statement(a) ==
    \/ CountGrants(a) \/ DeleteRole(a) \/ InsertGrant(a)
    \/ Assign(a) \/ Replace(a) \/ CommitGrant(a) \/ CommitPatch(a)
    \/ RollBack(a)

Request(a) ==
    \/ \E k \in Role : CountRows(a, k)
    \/ CreateProjectGrant(a)
    \/ \E g \in Grant, u \in User, keys \in KeySets, op \in {"assign", "replace"} :
         Receive(a, op, g, u, keys)
    \/ \E u \in User, keys \in KeySets : GrantRoles(a, u, keys) \/ PatchRow(a, u, keys)

DelegationNext ==
    \/ \E a \in Admin : Request(a) \/ Statement(a)
    \/ \E k \in Role : CreateRole(k)
    \/ \E o \in Org : ChangeOrganization(o)
    \/ \E g \in Grant : RevokeGrant(g)
    \/ \E u \in User : RemoveRow(u)

DelegationSpec == DelegationInit /\ [][DelegationNext]_delegationVars

-----------------------------------------------------------------------------
(* Properties.                                                             *)

\* Every part of the state is of its type: a row names at least one role, and
\* a grant that was made keeps the organization and the roles it was made with.
DelegationTypeOK ==
    /\ roles \subseteq Role
    /\ accepts \subseteq Org
    /\ grants \in [Grant -> GrantRecords]
    /\ rows \in [User -> Rows]
    /\ txn \in [Admin -> Transactions]
    /\ raced \subseteq Role

\* A delegated row stays within its project grant, active or revoked: a user of
\* the organization it was granted to, and roles it delegates.  Rows are
\* written by three handlers, and the trigger stands behind each.  A direct row
\* belongs to a user of the owner.
DelegationHolds ==
    \A u \in User :
        /\ rows[u].via = Direct => Home[u] = Owner
        /\ rows[u].via \in Grant =>
             /\ grants[rows[u].via].status # "none"
             /\ grants[rows[u].via].org = Home[u]
             /\ rows[u].keys \subseteq grants[rows[u].via].keys

\* When AssignDelegated comes to write, the user holds nothing in the project,
\* or holds it under the same grant or under a revoked one: the branch it calls
\* unreachable is.
NoOtherPath ==
    \A a \in Admin : Running(a, {"assign"}) =>
        \/ Free(txn[a].user)
        \/ rows[txn[a].user].via = txn[a].grant

\* A role key that a row or an active project grant names exists, unless it was
\* written by one transaction while another was deleting it.
NamedRolesExist ==
    \A k \in Role \ (roles \cup raced) :
        /\ \A g \in Grant : grants[g].status = "active" => k \notin grants[g].keys
        /\ \A u \in User : k \notin rows[u].keys

\* Checks and writes, two statements of a transaction, are as good as one: each
\* write to either table is one that RoleTables allows at the moment it
\* commits.  In particular an assignment never lands after a revocation, and an
\* update never widens a row past the grant it came through.
Tables == INSTANCE RoleTables

ImplementsTables == Tables!Spec

-----------------------------------------------------------------------------
(* What makes them inductive.                                              *)

\* What each transaction in flight has checked still holds: the grant it shares
\* is active and covers what it is about to write, and a row whose update has
\* fired its triggers is there.
CheckedInv ==
    \A a \in Admin :
        /\ Running(a, {"assign", "replace"}) =>
              Assignable(txn[a].grant, txn[a].user, txn[a].keys)
        /\ Running(a, {"direct"}) => Home[txn[a].user] = Owner
        /\ Running(a, {"patch"}) =>
              LET via == rows[txn[a].user].via
              IN  /\ via # Nobody
                  /\ via \in Grant => Assignable(via, txn[a].user, txn[a].keys)

\* One update at a time has a row locked.
LockInv ==
    \A a, b \in Admin :
        Running(a, {"patch"}) /\ Running(b, {"patch"}) /\ txn[a].user = txn[b].user
            => a = b

\* The unique index: one active project grant to an organization.
OneActive ==
    \A g, h \in Grant :
        grants[g].status = "active" /\ grants[h].status = "active"
            /\ grants[g].org = grants[h].org => g = h

\* The keys that a transaction is about to write exist, or were deleted under
\* it; and what a deletion has counted to none is still named nowhere, but for
\* keys written while it counted.
RaceInv ==
    /\ \A k \in Role \ (roles \cup raced) : ~ Writing(k)
    /\ \A a \in Admin : \A k \in Role \ raced :
          /\ Running(a, {"countGrants", "deleteRole"}) /\ k \in txn[a].keys =>
                \A u \in User : k \notin rows[u].keys
          /\ Running(a, {"deleteRole"}) /\ k \in txn[a].keys =>
                \A g \in Grant : grants[g].status = "active" => k \notin grants[g].keys

DelegationInv ==
    /\ DelegationTypeOK /\ CheckedInv /\ LockInv /\ OneActive
    /\ DelegationHolds /\ NamedRolesExist /\ RaceInv

=============================================================================
