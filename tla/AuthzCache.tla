----------------------------- MODULE AuthzCache -----------------------------
(***************************************************************************)
(* Authorization checks in one project: which role keys a user effectively *)
(* holds and which roles carry the permission asked about, each read       *)
(* through an entry of its own in Redis (src/backend/internal/authz), and  *)
(* the administration that changes them in PostgreSQL and then invalidates *)
(* (grant, projectgrant, role).                                            *)
(*                                                                         *)
(* A user of the project's own organization holds keys directly; a user of *)
(* the one partner organization holds them through a Project Grant, and a  *)
(* cached answer that came through one is stamped with the grant's         *)
(* generation, a counter that every revocation of the grant increments.    *)
(*                                                                         *)
(* One unit of time is half a minute: the TTL, and the longest a request   *)
(* may run.  The day a counter is kept is scaled down to two units.        *)
(***************************************************************************)
EXTENDS Naturals, FiniteSets

CONSTANTS
    Users,         \* users asked about
    NoUser,        \* not one of them
    Roles,         \* role keys of the project
    ProjectGrants, \* grants of the project to the partner, one after another
    Delegable,     \* Delegable[g]: granted_role_keys, which never change
    NoGrant,       \* no Project Grant: a null project_grant_id, an empty Via
    Definitions,   \* the entry authz:roles: which roles carry the permission
    Nothing,       \* nothing to invalidate
    Checks,        \* requests at /v1/authz/check, at any instance
    Admins,        \* administrators' requests, at any instance
    TTL,           \* DefaultTTL
    GenTTL,        \* generationTTL
    Lag,           \* how long one request may run before it is cut off
    MaxRevokes,    \* bound: how often one grant's counter is incremented
    MaxTime        \* bound: where the clock of the model stops

ASSUME CacheAssumption ==
    /\ Delegable \in [ProjectGrants -> SUBSET Roles]
    /\ NoGrant \notin ProjectGrants /\ {Definitions, NoUser} \cap Users = {}
    /\ Nothing \notin Users \cup ProjectGrants /\ Nothing # Definitions
    /\ (Users \cup {Definitions}) \cap ProjectGrants = {}
    /\ TTL \in Nat \ {0} /\ Lag \in Nat /\ MaxRevokes \in Nat /\ MaxTime \in Nat

\* A grant's counter outlives every entry that could have been stamped before it
\* was incremented: the one a request in progress may still write, and the one
\* another request has read in its last instant and is yet to compare.
ASSUME GenerationAssumption == GenTTL \in Nat /\ Lag + TTL + Lag <= GenTTL

VARIABLES
    now,      \* the clock of the instances and of Redis
    partners, \* the users of the partner organization, which never changes
    row,      \* row[u]: the user_grants row of u
    grant,    \* grant[g]: the status of the project_grants row
    carries,  \* the roles whose definition carries the permission
    entry,    \* entry[e]: what the key of e holds, and until when
    counter,  \* counter[g]: the key authz:grantgen, and until when it holds
    check,    \* check[c]: the progress of c
    todo,     \* todo[a]: what a has changed and has not invalidated yet
    changed,  \* history: when the truth about e last changed
    told,     \* history: what was taken away, with the invalidation done
    barred,   \* history: barred[c]: told when c began, and not given back since
    missed    \* history: whether an invalidation was lost or overtaken

database == <<partners, row, grant, carries>>
redis    == <<entry, counter>>
history  == <<changed, told, barred, missed>>
vars     == <<now, database, redis, check, todo, history>>

Time == 0..MaxTime

Deadline == 0..(MaxTime + TTL + GenTTL)

Never == MaxTime + TTL + GenTTL

Entries == Users \cup {Definitions}

NoRow == [keys |-> {}, via |-> NoGrant]

\* grantsql.EffectiveRoleKeys: nothing through a grant that is not active, and
\* never more than it delegates.
Effective(u) ==
    IF row[u].via = NoGrant THEN row[u].keys
    ELSE IF grant[row[u].via] = "active" THEN row[u].keys \cap Delegable[row[u].via]
    ELSE {}

\* What the database would answer about an entry.
Truth(e) == IF e = Definitions THEN carries ELSE Effective(e)

Cached(e) == entry[e].until > now

\* Cache.generation: a counter that is missing counts as 0.
Generation(g) == counter[g].n

-----------------------------------------------------------------------------
(* Types and the initial state                                              *)

NoCounter == [n |-> 0, until |-> 0]

NoEntry == [keys |-> {}, via |-> NoGrant, gen |-> 0, until |-> 0]

EntryState ==
    [keys  : SUBSET Roles,
     via   : ProjectGrants \cup {NoGrant},
     gen   : 0..MaxRevokes,
     until : Deadline]

\* A check at its beginning, for a user and with the time of the request.
Fresh(u, pc, at) ==
    [pc |-> pc, user |-> u, at |-> at, keys |-> {}, via |-> NoGrant, gen |-> 0,
     perms |-> {}, need |-> {}]

NoCheck == Fresh(NoUser, "idle", 0)

CheckState ==
    [pc    : {"idle", "keys", "generation", "roles", "readKeys", "stamp",
              "putKeys", "readRoles", "putRoles", "done"},
     user  : Users \cup {NoUser},
     at    : Time,
     keys  : SUBSET Roles,                  \* the role keys it has read
     via   : ProjectGrants \cup {NoGrant},  \* the grant they came through
     gen   : 0..MaxRevokes,                 \* and the generation
     perms : SUBSET Roles,                  \* the definitions it has read
     need  : SUBSET {"keys", "roles"}]      \* what the cache did not hold

TypeOK ==
    /\ now \in Time
    /\ partners \in SUBSET Users
    /\ row \in [Users -> [keys : SUBSET Roles, via : ProjectGrants \cup {NoGrant}]]
    /\ grant \in [ProjectGrants -> {"none", "active", "revoked"}]
    /\ carries \in SUBSET Roles
    /\ entry \in [Entries -> EntryState]
    /\ counter \in [ProjectGrants -> [n : 0..MaxRevokes, until : Deadline]]
    /\ check \in [Checks -> CheckState]
    /\ todo \in [Admins -> Entries \cup ProjectGrants \cup {Nothing}]
    /\ changed \in [Entries -> Time]
    /\ told \in SUBSET (Entries \X Roles)
    /\ barred \in [Checks -> SUBSET (Entries \X Roles)]
    /\ missed \in {"no", "yes"}

\* A project without roles and grants.
Init ==
    /\ now = 0
    /\ partners \in SUBSET Users
    /\ row = [u \in Users |-> NoRow]
    /\ grant = [g \in ProjectGrants |-> "none"]
    /\ carries = {}
    /\ entry = [e \in Entries |-> NoEntry]
    /\ counter = [g \in ProjectGrants |-> NoCounter]
    /\ check = [c \in Checks |-> NoCheck]
    /\ todo = [a \in Admins |-> Nothing]
    /\ changed = [e \in Entries |-> 0]
    /\ told = {}
    /\ barred = [c \in Checks |-> {}]
    /\ missed = "no"

\* A key of Redis is gone once its time is up.
Lapsed(f, none) == [k \in DOMAIN f |-> IF f[k].until > now + 1 THEN f[k] ELSE none]

\* A request that has run for Lag is cut off.
Tick ==
    /\ now < MaxTime
    /\ \A c \in Checks : check[c].pc # "idle" => now < check[c].at + Lag
    /\ now' = now + 1
    /\ entry' = Lapsed(entry, NoEntry)
    /\ counter' = Lapsed(counter, NoCounter)
    /\ UNCHANGED <<database, check, todo, history>>

-----------------------------------------------------------------------------
(* Administration: the transaction                                          *)

\* What the histories make of a committed change: what is given back is no
\* longer taken away from anybody.
Recorded ==
    LET still(S) == {x \in S : x[2] \notin Truth(x[1])'}
    IN  /\ changed' = [e \in Entries |->
                          IF Truth(e)' = Truth(e) THEN changed[e] ELSE now]
        /\ told' = still(told)
        /\ barred' = [c \in Checks |-> still(barred[c])]

\* The administrator's request goes on to invalidate t once it has committed.
Committed(a, t) ==
    /\ todo[a] = Nothing
    /\ todo' = [todo EXCEPT ![a] = t]
    /\ Recorded
    /\ UNCHANGED <<now, redis, check, missed>>

\* GrantRolesToUser: a first row for the user.
GrantRoles(a, u, keys) ==
    /\ u \notin partners /\ row[u].keys = {} /\ keys # {}
    /\ row' = [row EXCEPT ![u] = [keys |-> keys, via |-> NoGrant]]
    /\ UNCHANGED <<partners, grant, carries>>
    /\ Committed(a, u)

ReplaceGrant(a, u, keys) ==
    /\ u \notin partners /\ row[u].keys # {} /\ keys # {}
    /\ row' = [row EXCEPT ![u] = [keys |-> keys, via |-> NoGrant]]
    /\ UNCHANGED <<partners, grant, carries>>
    /\ Committed(a, u)

RevokeGrant(a, u) ==
    /\ u \notin partners /\ row[u].keys # {}
    /\ row' = [row EXCEPT ![u] = NoRow]
    /\ UNCHANGED <<partners, grant, carries>>
    /\ Committed(a, u)

\* CreateRole, UpdateRole or DeleteRole: a role gains or loses the permission.
ChangeRole(a, r) ==
    /\ carries' = IF r \in carries THEN carries \ {r} ELSE carries \cup {r}
    /\ UNCHANGED <<partners, row, grant>>
    /\ Committed(a, Definitions)

\* RevokeProjectGrant: revoking again succeeds, and invalidates again.
RevokeProjectGrant(a, g) ==
    /\ grant[g] # "none"
    /\ grant' = [grant EXCEPT ![g] = "revoked"]
    /\ UNCHANGED <<partners, row, carries>>
    /\ Committed(a, g)

\* These invalidate nothing.
Uncached ==
    /\ Recorded
    /\ UNCHANGED <<now, redis, check, todo, missed>>

\* One grant to one organization is active at a time.
CreateProjectGrant(g) ==
    /\ grant[g] = "none"
    /\ \A h \in ProjectGrants : grant[h] # "active"
    /\ grant' = [grant EXCEPT ![g] = "active"]
    /\ UNCHANGED <<partners, row, carries>>
    /\ Uncached

\* AssignDelegatedRoles: where the user holds nothing, or something through a
\* grant that has been revoked.
AssignDelegated(g, u, keys) ==
    /\ u \in partners /\ grant[g] = "active"
    /\ keys # {} /\ keys \subseteq Delegable[g]
    /\ \/ row[u].via = NoGrant
       \/ row[u].via \notin {NoGrant, g} /\ grant[row[u].via] = "revoked"
    /\ row' = [row EXCEPT ![u] = [keys |-> keys, via |-> g]]
    /\ UNCHANGED <<partners, grant, carries>>
    /\ Uncached

ReplaceDelegated(g, u, keys) ==
    /\ grant[g] = "active" /\ row[u].via = g
    /\ keys # {} /\ keys \subseteq Delegable[g]
    /\ row' = [row EXCEPT ![u] = [keys |-> keys, via |-> g]]
    /\ UNCHANGED <<partners, grant, carries>>
    /\ Uncached

\* Allowed under a revoked grant too.
RemoveDelegated(g, u) ==
    /\ row[u].via = g
    /\ row' = [row EXCEPT ![u] = NoRow]
    /\ UNCHANGED <<partners, grant, carries>>
    /\ Uncached

-----------------------------------------------------------------------------
(* Administration: the invalidation, after the commit                       *)

\* A check that has read S and will yet write it to the entry e.
Holds(c, e, S) ==
    \/ /\ e = Definitions /\ check[c].pc = "putRoles" /\ check[c].perms = S
    \/ /\ e = check[c].user /\ check[c].pc = "putKeys"
       /\ check[c].via = NoGrant /\ check[c].keys = S

\* InvalidateUser, InvalidateProjectRoles: DEL of the entry.  It is overtaken if
\* a check still holds what was read before the change.
Drop(e) ==
    /\ entry' = [entry EXCEPT ![e] = NoEntry]
    /\ UNCHANGED counter
    /\ told' = told \cup {x \in {e} \X Roles : x[2] \notin Truth(e)}
    /\ missed' = IF \E c \in Checks, S \in SUBSET Roles :
                       Holds(c, e, S) /\ ~(S \subseteq Truth(e))
                 THEN "yes" ELSE missed

\* INCR of the counter, and EXPIRE, whose failure is ignored.
Incremented(g, until) ==
    counter' = [counter EXCEPT ![g] = [n |-> Generation(g) + 1, until |-> until]]

\* The answers that came through g.
Through(g) == {u \in Users : row[u].via = g}

\* InvalidateGrant.  It is overtaken by a check that has read the keys before
\* the revocation and is yet to ask for the generation, or by another grant's
\* revocation that has not been pushed yet.
Retire(a, g) ==
    /\ Generation(g) < MaxRevokes
    /\ UNCHANGED entry
    /\ \/ Incremented(g, now + GenTTL)
       \/ Incremented(g, IF counter[g] = NoCounter THEN Never ELSE counter[g].until)
    /\ told' = told \cup {x \in Through(g) \X Roles : x[2] \notin Truth(x[1])}
    /\ missed' = IF \/ \E c \in Checks :
                          /\ check[c].pc = "stamp" /\ check[c].via = g
                          /\ check[c].keys # {}
                    \/ \E b \in Admins \ {a} : todo[b] \in ProjectGrants \ {g}
                 THEN "yes" ELSE missed

Invalidate(a) ==
    /\ \/ todo[a] \in Entries /\ Drop(todo[a])
       \/ todo[a] \in ProjectGrants /\ Retire(a, todo[a])
    /\ todo' = [todo EXCEPT ![a] = Nothing]
    /\ UNCHANGED <<now, database, check, changed, barred>>

\* Redis does not do it, which is logged at most and never reported, or the
\* instance stops first.
InvalidateFails(a) ==
    /\ todo[a] # Nothing
    /\ todo' = [todo EXCEPT ![a] = Nothing]
    /\ missed' = "yes"
    /\ UNCHANGED <<now, database, redis, check, changed, told, barred>>

-----------------------------------------------------------------------------
(* A check, one action per round trip                                       *)

Begin(c, u) ==
    /\ check[c].pc = "idle"
    /\ check' = [check EXCEPT ![c] = Fresh(u, "keys", now)]
    /\ barred' = [barred EXCEPT ![c] = told]
    /\ UNCHANGED <<now, database, redis, todo, changed, told, missed>>

\* The check goes on with the keys it has and how they came.
Keys(c, pc, keys, via, gen, need) ==
    /\ check' = [check EXCEPT ![c] =
          [pc |-> pc, user |-> check[c].user, at |-> check[c].at, keys |-> keys,
           via |-> via, gen |-> gen, perms |-> check[c].perms, need |-> need]]
    /\ UNCHANGED <<now, database, todo, history>>

\* And with the definitions, when the keys are known or known to be missing.
Perms(c, pc, perms, need) ==
    /\ check' = [check EXCEPT ![c] =
          [pc |-> pc, user |-> check[c].user, at |-> check[c].at,
           keys |-> check[c].keys, via |-> NoGrant, gen |-> 0,
           perms |-> perms, need |-> need]]
    /\ UNCHANGED <<now, database, todo, history>>

Miss(c) == Keys(c, "roles", {}, NoGrant, 0, {"keys"})

\* Cache.RoleKeys: GET of the entry.  No answer is a miss.
GetKeys(c) ==
    LET e == entry[check[c].user]
    IN  /\ check[c].pc = "keys"
        /\ UNCHANGED redis
        /\ \/ /\ Cached(check[c].user)
              /\ IF e.via = NoGrant
                 THEN Keys(c, "roles", e.keys, NoGrant, 0, {})
                 ELSE Keys(c, "generation", e.keys, e.via, e.gen, {})
           \/ Miss(c)

\* Mutant of GetGeneration: a generation that cannot be read is taken to match.
GetGenerationTrusting(c) ==
    /\ check[c].pc = "generation"
    /\ UNCHANGED redis
    /\ Keys(c, "roles", check[c].keys, NoGrant, 0, {})

\* Then GET of the generation, if the keys came through a grant.
GetGeneration(c) ==
    /\ check[c].pc = "generation"
    /\ UNCHANGED redis
    /\ \/ /\ Generation(check[c].via) = check[c].gen
          /\ Keys(c, "roles", check[c].keys, NoGrant, 0, {})
       \/ Miss(c)

\* Cache.Roles, and whether the database is needed at all.
GetRoles(c) ==
    /\ check[c].pc = "roles"
    /\ UNCHANGED redis
    /\ \/ /\ Cached(Definitions)
          /\ Perms(c, IF check[c].need = {} THEN "done" ELSE "readKeys",
                   entry[Definitions].keys, {})
       \/ Perms(c, IF check[c].need = {} THEN "readRoles" ELSE "readKeys",
                {}, {"roles"})

\* Where a check goes once it has its keys.
AfterKeys(c) == IF check[c].need = {} THEN "done" ELSE "readRoles"

\* readRoleKeys: the keys and the grant they came through, in one statement.
ReadKeys(c) ==
    LET u == check[c].user
    IN  /\ check[c].pc = "readKeys"
        /\ UNCHANGED redis
        /\ Keys(c, IF row[u].via = NoGrant THEN "putKeys" ELSE "stamp",
                Effective(u), row[u].via, 0, check[c].need)

\* PutRoleKeys asks for the generation now; unread, nothing is cached.
Stamp(c) ==
    /\ check[c].pc = "stamp"
    /\ UNCHANGED redis
    /\ \/ Keys(c, "putKeys", check[c].keys, check[c].via,
               Generation(check[c].via), check[c].need)
       \/ Keys(c, AfterKeys(c), check[c].keys, NoGrant, 0, check[c].need)

\* Mutant of Put: the entry is kept as long as a generation.
PutAsLong(e, keys, via, gen) ==
    /\ entry' = [entry EXCEPT ![e] = [keys |-> keys, via |-> via, gen |-> gen,
                                      until |-> now + GenTTL]]
    /\ UNCHANGED counter

\* SET with the TTL.  A failure costs the entry and nothing else.
Put(e, keys, via, gen) ==
    /\ \/ entry' = [entry EXCEPT ![e] = [keys |-> keys, via |-> via, gen |-> gen,
                                         until |-> now + TTL]]
       \/ UNCHANGED entry
    /\ UNCHANGED counter

PutKeys(c) ==
    /\ check[c].pc = "putKeys"
    /\ Put(check[c].user, check[c].keys, check[c].via, check[c].gen)
    /\ Keys(c, AfterKeys(c), check[c].keys, NoGrant, 0, check[c].need)

\* readRoleDefinitions.
ReadRoles(c) ==
    /\ check[c].pc = "readRoles"
    /\ UNCHANGED redis
    /\ Perms(c, "putRoles", carries, {})

PutRoles(c) ==
    /\ check[c].pc = "putRoles"
    /\ Put(Definitions, check[c].perms, NoGrant, 0)
    /\ Perms(c, "done", check[c].perms, {})

\* The decision is given, or the database does not answer and none is reached.
Reply(c) ==
    /\ check[c].pc \in {"readKeys", "readRoles", "done"}
    /\ check' = [check EXCEPT ![c] = NoCheck]
    /\ barred' = [barred EXCEPT ![c] = {}]
    /\ UNCHANGED <<now, database, redis, todo, changed, told, missed>>

-----------------------------------------------------------------------------
DirectStep(a, u) ==
    \/ \E keys \in SUBSET Roles : GrantRoles(a, u, keys) \/ ReplaceGrant(a, u, keys)
    \/ RevokeGrant(a, u)

DelegatedStep(g, u) ==
    \/ \E keys \in SUBSET Roles :
          AssignDelegated(g, u, keys) \/ ReplaceDelegated(g, u, keys)
    \/ RemoveDelegated(g, u)

CheckStep(c) ==
    \/ GetKeys(c) \/ GetGeneration(c) \/ GetRoles(c)
    \/ ReadKeys(c) \/ Stamp(c) \/ PutKeys(c)
    \/ ReadRoles(c) \/ PutRoles(c) \/ Reply(c)

Next ==
    \/ Tick
    \/ \E a \in Admins, u \in Users : DirectStep(a, u)
    \/ \E a \in Admins, r \in Roles : ChangeRole(a, r)
    \/ \E a \in Admins, g \in ProjectGrants : RevokeProjectGrant(a, g)
    \/ \E g \in ProjectGrants : CreateProjectGrant(g)
    \/ \E g \in ProjectGrants, u \in Users : DelegatedStep(g, u)
    \/ \E a \in Admins : Invalidate(a) \/ InvalidateFails(a)
    \/ \E c \in Checks, u \in Users : Begin(c, u)
    \/ \E c \in Checks : CheckStep(c)

Spec == Init /\ [][Next]_vars

-----------------------------------------------------------------------------
(* Properties                                                               *)

\* What a check was told about an entry.
Answered(c, e) == IF e = Definitions THEN check[c].perms ELSE check[c].keys

Decided(c, e) == check[c].pc = "done" /\ e \in {check[c].user, Definitions}

\* Whatever is lost, never pushed or overtaken, a decision rests on nothing that
\* ceased to be true longer ago than one request and one TTL: in both
\* directions, for direct and delegated keys and for the definitions.
StalenessBounded ==
    \A c \in Checks : \A e \in Entries :
       Decided(c, e) /\ changed[e] + Lag + TTL <= check[c].at =>
          Answered(c, e) = Truth(e)

\* Once what was taken away has been invalidated, no check that begins later is
\* answered with it, whoever holds it through the revoked grant, unless some
\* invalidation was lost, or overtaken by a check holding an older read.
RevokedIsDenied ==
    missed = "no" =>
       \A c \in Checks : \A x \in barred[c] :
          Decided(c, x[1]) => x[2] \notin Answered(c, x[1])

\* An answer that came through the grant via, and may be served until then, no
\* longer matches the generation, and will not for as long as it is about.
Retired(via, gen, until) ==
    gen < counter[via].n /\ until + Lag <= counter[via].until

\* The grant of an answer about u is still active, or the first revocation of it
\* is yet to be pushed.
Current(u, via) == grant[via] = "active" /\ row[u].via \in {via, NoGrant}

Pending(via) == \E a \in Admins : todo[a] = via

Unretired(u, via) == counter[via].n = 0 /\ (Current(u, via) \/ Pending(via))

\* A check that has read what it will yet write to the entry e.
Writing(c, e) ==
    \/ e = Definitions /\ check[c].pc = "putRoles"
    \/ e = check[c].user /\ check[c].pc \in {"stamp", "putKeys"}

\* Until when what c is about to write may be served.
Latest(c) == check[c].at + Lag + TTL

TimeInv ==
    /\ \A e \in Entries : entry[e].until <= now + TTL
    /\ \A c \in Checks : check[c].pc # "idle" =>
          /\ check[c].user \in Users
          /\ check[c].at <= now /\ now <= check[c].at + Lag

\* The rows and what is left to be done about them.
RowInv ==
    /\ \A u \in Users :
          /\ row[u].via # NoGrant => u \in partners /\ grant[row[u].via] # "none"
          /\ row[u].via = NoGrant /\ u \in partners => row[u].keys = {}
    /\ \A g, h \in ProjectGrants : grant[g] = "active" /\ grant[h] = "active" => g = h
    /\ \A g \in ProjectGrants :
          /\ grant[g] # "revoked" => counter[g].n = 0
          /\ counter[g].n = 0 => counter[g] = NoCounter
    /\ \A a \in Admins :
          /\ todo[a] \in Users => todo[a] \notin partners
          /\ todo[a] \in ProjectGrants => grant[todo[a]] = "revoked"

\* Where an answer came from.
Sourced(e, via, keys) ==
    /\ via # NoGrant => e \in partners /\ grant[via] # "none"
    /\ via = NoGrant /\ e \in partners => keys = {}

SourceInv ==
    /\ \A e \in Entries : Sourced(e, entry[e].via, entry[e].keys)
    /\ \A c \in Checks :
          /\ check[c].pc \in {"stamp", "putKeys"} =>
                Sourced(check[c].user, check[c].via, check[c].keys)
          /\ check[c].pc = "stamp" => check[c].via # NoGrant

\* Keys that came through a grant are current, pending or retired.
GrantInv ==
    /\ \A u \in Users : entry[u].via # NoGrant /\ entry[u].keys # {} =>
          \/ entry[u].gen = 0 /\ Unretired(u, entry[u].via)
          \/ Retired(entry[u].via, entry[u].gen, entry[u].until)
    /\ \A c \in Checks : check[c].via # NoGrant /\ check[c].keys # {} =>
          /\ check[c].pc = "stamp" => Unretired(check[c].user, check[c].via)
          /\ check[c].pc = "putKeys" =>
                \/ check[c].gen = 0 /\ Unretired(check[c].user, check[c].via)
                \/ Retired(check[c].via, check[c].gen, Latest(c))

\* What has been taken away is neither cached nor about to be,
\* unless it has been retired.
ToldInv ==
    \A x \in told :
       /\ x[2] \in entry[x[1]].keys =>
             /\ entry[x[1]].via # NoGrant
             /\ Retired(entry[x[1]].via, entry[x[1]].gen, entry[x[1]].until)
       /\ \A c \in Checks : Writing(c, x[1]) /\ x[2] \in Answered(c, x[1]) =>
             /\ check[c].pc = "putKeys" /\ check[c].via # NoGrant
             /\ Retired(check[c].via, check[c].gen, Latest(c))

\* And a check that began since has not been answered with it.
BarredInv ==
    \A c \in Checks : \A x \in barred[c] :
       /\ x[1] = Definitions => x[2] \notin check[c].perms
       /\ x[1] = check[c].user /\ x[2] \in check[c].keys =>
             /\ check[c].pc = "generation" /\ check[c].via # NoGrant
             /\ Retired(check[c].via, check[c].gen, check[c].at + 1)

\* What has been taken away has not been given back since.
HistoryInv ==
    /\ \A x \in told : x[2] \notin Truth(x[1])
    /\ \A c \in Checks : barred[c] \subseteq told

\* The inductive invariant behind RevokedIsDenied.
RevocationInv ==
    /\ TypeOK /\ TimeInv /\ RowInv /\ SourceInv /\ HistoryInv
    /\ missed = "no" => GrantInv /\ ToldInv /\ BarredInv

\* Whether c has read e, from the cache or from the database.
Read(c, e) ==
    \/ /\ e = Definitions
       /\ \/ check[c].pc \in {"putRoles", "done"}
          \/ check[c].pc \in {"readKeys", "stamp", "putKeys"} /\ check[c].need = {}
    \/ /\ e = check[c].user
       /\ \/ check[c].pc \in {"generation", "stamp", "putKeys", "readRoles",
                              "putRoles", "done"}
          \/ check[c].pc = "roles" /\ check[c].need = {}

\* The inductive invariant behind StalenessBounded: what is no longer true was
\* read, cached or not, before it changed.
StalenessInv ==
    /\ TypeOK /\ TimeInv
    /\ \A e \in Entries :
          entry[e].keys # Truth(e) => entry[e].until <= changed[e] + Lag + TTL
    /\ \A c \in Checks : \A e \in Entries : Answered(c, e) # Truth(e) =>
          /\ Read(c, e) => check[c].at < changed[e] + Lag + TTL
          /\ Writing(c, e) => check[c].at <= changed[e]

\* What the comments say: a revocation is immediate in the normal case, when its
\* invalidation was not lost.  The code does not keep it: RevokedIsDenied is
\* what remains.
RevocationIsImmediate ==
    \A c \in Checks : \A x \in barred[c] :
       Decided(c, x[1]) => x[2] \notin Answered(c, x[1])

\* What the comments and the guide say the TTL is for: invalidations that were
\* lost.  With none lost, overtaken or yet to come, an entry that a check would
\* be served takes nothing for granted that has been taken away.  The delegated
\* writes, which invalidate nothing, break it: StalenessBounded is what remains.
Served(e) ==
    Cached(e) /\ (entry[e].via = NoGrant \/ entry[e].gen = Generation(entry[e].via))

OnlyLossIsStale ==
    missed = "no" /\ (\A a \in Admins : todo[a] = Nothing) =>
       \A e \in Entries : Served(e) => entry[e].keys \subseteq Truth(e)
=============================================================================
