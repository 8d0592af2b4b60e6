-------------------------- MODULE AuthzCacheProofs --------------------------
(***************************************************************************)
(* Theorems about AuthzCache for every number of users, roles, grants,     *)
(* checks and administrators, every TTL and every bound.                   *)
(***************************************************************************)
EXTENDS AuthzCache, TLAPS

\* A change of the database, whether or not an invalidation follows.
Write ==
    \/ \E a \in Admins, u \in Users : DirectStep(a, u)
    \/ \E a \in Admins, r \in Roles : ChangeRole(a, r)
    \/ \E a \in Admins, g \in ProjectGrants : RevokeProjectGrant(a, g)
    \/ \E g \in ProjectGrants : CreateProjectGrant(g)
    \/ \E g \in ProjectGrants, u \in Users : DelegatedStep(g, u)

\* The longest anything is kept fits the range of deadlines.
LEMMA DeadlineTyped ==
    ASSUME now \in Time
    PROVE  /\ now + TTL \in Deadline /\ now + GenTTL \in Deadline
           /\ Never \in Deadline /\ 0 \in Deadline /\ 0 \in Time
           /\ 0 \in 0..MaxRevokes
BY CacheAssumption, GenerationAssumption DEF Time, Deadline, Never

\* What the database answers about an entry is a set of roles.
LEMMA TruthTyped ==
    ASSUME TypeOK, NEW e \in Entries
    PROVE  Truth(e) \in SUBSET Roles
BY DEF TypeOK, Entries, Truth, Effective

\* The initial state is well typed.
LEMMA TypeInit == Init => TypeOK
<1>1. 0 \in Deadline /\ 0 \in Time /\ 0 \in 0..MaxRevokes
  BY CacheAssumption, GenerationAssumption DEF Time, Deadline
<1>2. /\ NoEntry \in EntryState /\ NoCheck \in CheckState
      /\ NoCounter \in [n : 0..MaxRevokes, until : Deadline]
  BY <1>1 DEF NoEntry, EntryState, NoCheck, Fresh, CheckState, NoCounter
<1>3. QED
  BY <1>1, <1>2 DEF Init, TypeOK, NoRow

\* Histories stay well typed when the database changes.
LEMMA RecordedTyped ==
    ASSUME TypeOK, Recorded
    PROVE  /\ changed' \in [Entries -> Time]
           /\ told' \in SUBSET (Entries \X Roles)
           /\ barred' \in [Checks -> SUBSET (Entries \X Roles)]
BY DEF TypeOK, Recorded

\* A committed change keeps everything but the database well typed.
LEMMA CommittedTyped ==
    ASSUME TypeOK, NEW a \in Admins, NEW t \in Entries \cup ProjectGrants,
           Committed(a, t),
           row' \in [Users -> [keys : SUBSET Roles, via : ProjectGrants \cup {NoGrant}]],
           grant' \in [ProjectGrants -> {"none", "active", "revoked"}],
           carries' \in SUBSET Roles, partners' = partners
    PROVE  TypeOK'
BY RecordedTyped DEF TypeOK, Committed, redis

\* So does one that is not invalidated.
LEMMA UncachedTyped ==
    ASSUME TypeOK, Uncached,
           row' \in [Users -> [keys : SUBSET Roles, via : ProjectGrants \cup {NoGrant}]],
           grant' \in [ProjectGrants -> {"none", "active", "revoked"}],
           carries' = carries, partners' = partners
    PROVE  TypeOK'
BY RecordedTyped DEF TypeOK, Uncached, redis

\* Moving a check on keeps checks well typed.
LEMMA KeysTyped ==
    ASSUME TypeOK, NEW c \in Checks, NEW pc, NEW keys \in SUBSET Roles,
           NEW via \in ProjectGrants \cup {NoGrant}, NEW gen \in 0..MaxRevokes,
           NEW need \in SUBSET {"keys", "roles"},
           pc \in {"generation", "roles", "stamp", "putKeys", "readRoles", "done"},
           Keys(c, pc, keys, via, gen, need)
    PROVE  check' \in [Checks -> CheckState]
<1>1. check[c] \in CheckState
  BY DEF TypeOK
<1>2. [pc |-> pc, user |-> check[c].user, at |-> check[c].at, keys |-> keys,
       via |-> via, gen |-> gen, perms |-> check[c].perms, need |-> need]
          \in CheckState
  BY <1>1 DEF CheckState
<1>3. QED
  BY <1>2 DEF Keys, TypeOK

\* The same, with the definitions.
LEMMA PermsTyped ==
    ASSUME TypeOK, NEW c \in Checks, NEW pc, NEW perms \in SUBSET Roles,
           NEW need \in SUBSET {"keys", "roles"},
           pc \in {"readKeys", "readRoles", "putRoles", "done"},
           Perms(c, pc, perms, need)
    PROVE  check' \in [Checks -> CheckState]
<1>1. check[c] \in CheckState /\ 0 \in 0..MaxRevokes
  BY CacheAssumption DEF TypeOK
<1>2. [pc |-> pc, user |-> check[c].user, at |-> check[c].at,
       keys |-> check[c].keys, via |-> NoGrant, gen |-> 0,
       perms |-> perms, need |-> need] \in CheckState
  BY <1>1 DEF CheckState
<1>3. QED
  BY <1>2 DEF Perms, TypeOK

\* An entry written is well typed.
LEMMA PutTyped ==
    ASSUME TypeOK, NEW e \in Entries, NEW keys \in SUBSET Roles,
           NEW via \in ProjectGrants \cup {NoGrant}, NEW gen \in 0..MaxRevokes,
           Put(e, keys, via, gen)
    PROVE  entry' \in [Entries -> EntryState] /\ counter' = counter
<1>1. now + TTL \in Deadline
  BY DeadlineTyped DEF TypeOK
<1>2. [keys |-> keys, via |-> via, gen |-> gen, until |-> now + TTL] \in EntryState
  BY <1>1 DEF EntryState
<1>3. QED
  BY <1>2 DEF Put, TypeOK

\* What a check has done so far is well typed.
LEMMA CheckTyped ==
    ASSUME TypeOK, NEW c \in Checks
    PROVE  /\ check[c] \in CheckState
           /\ check[c].user \in Users \cup {NoUser} /\ check[c].at \in Time
           /\ check[c].keys \in SUBSET Roles /\ check[c].perms \in SUBSET Roles
           /\ check[c].via \in ProjectGrants \cup {NoGrant}
           /\ check[c].gen \in 0..MaxRevokes
           /\ check[c].need \in SUBSET {"keys", "roles"}
BY DEF TypeOK, CheckState

\* What an entry holds is well typed.
LEMMA EntryTyped ==
    ASSUME TypeOK, NEW e \in Entries
    PROVE  /\ entry[e] \in EntryState
           /\ entry[e].keys \in SUBSET Roles
           /\ entry[e].via \in ProjectGrants \cup {NoGrant}
           /\ entry[e].gen \in 0..MaxRevokes
           /\ entry[e].until \in Deadline
BY DEF TypeOK, EntryState

\* A change of the database keeps the state well typed.
LEMMA WriteTyped ==
    ASSUME TypeOK, Write
    PROVE  TypeOK'
<1> USE DEF TypeOK
<1>1. ASSUME NEW a \in Admins, NEW u \in Users, NEW keys \in SUBSET Roles,
             GrantRoles(a, u, keys) \/ ReplaceGrant(a, u, keys) \/ RevokeGrant(a, u)
      PROVE  TypeOK'
  <2>1. u \in Entries \cup ProjectGrants /\ Committed(a, u)
    BY <1>1 DEF Entries, GrantRoles, ReplaceGrant, RevokeGrant
  <2>2. row' \in [Users -> [keys : SUBSET Roles, via : ProjectGrants \cup {NoGrant}]]
    BY <1>1 DEF GrantRoles, ReplaceGrant, RevokeGrant, NoRow
  <2>3. partners' = partners /\ grant' = grant /\ carries' = carries
    BY <1>1 DEF GrantRoles, ReplaceGrant, RevokeGrant
  <2>4. QED
    BY <2>1, <2>2, <2>3, CommittedTyped
<1>2. ASSUME NEW a \in Admins, NEW r \in Roles, ChangeRole(a, r) PROVE TypeOK'
  <2>1. Definitions \in Entries \cup ProjectGrants /\ Committed(a, Definitions)
    BY <1>2 DEF Entries, ChangeRole
  <2>2. carries' \in SUBSET Roles
    BY <1>2 DEF ChangeRole
  <2>3. QED
    BY <1>2, <2>1, <2>2, CommittedTyped DEF ChangeRole
<1>3. ASSUME NEW a \in Admins, NEW g \in ProjectGrants, RevokeProjectGrant(a, g)
      PROVE  TypeOK'
  BY <1>3, CommittedTyped DEF RevokeProjectGrant
<1>4. ASSUME NEW g \in ProjectGrants, CreateProjectGrant(g) PROVE TypeOK'
  BY <1>4, UncachedTyped DEF CreateProjectGrant
<1>5. ASSUME NEW g \in ProjectGrants, NEW u \in Users, NEW keys \in SUBSET Roles,
             \/ AssignDelegated(g, u, keys) \/ ReplaceDelegated(g, u, keys)
             \/ RemoveDelegated(g, u)
      PROVE  TypeOK'
  <2>1. row' \in [Users -> [keys : SUBSET Roles, via : ProjectGrants \cup {NoGrant}]]
    BY <1>5 DEF AssignDelegated, ReplaceDelegated, RemoveDelegated, NoRow
  <2>2. /\ partners' = partners /\ grant' = grant /\ carries' = carries
        /\ Uncached
    BY <1>5 DEF AssignDelegated, ReplaceDelegated, RemoveDelegated
  <2>3. QED
    BY <2>1, <2>2, UncachedTyped
<1>6. {} \in SUBSET Roles
  OBVIOUS
<1>7. QED
  BY <1>1, <1>2, <1>3, <1>4, <1>5, <1>6 DEF Write, DirectStep, DelegatedStep

\* One step of the system keeps the state well typed.
LEMMA TypeStep ==
    ASSUME TypeOK, TimeInv, SourceInv, [Next]_vars
    PROVE  TypeOK'
<1> USE CacheAssumption DEF TypeOK, database, redis, history
<1>1. CASE Tick
  <2>1. NoEntry \in EntryState /\ NoCounter \in [n : 0..MaxRevokes, until : Deadline]
    BY DeadlineTyped DEF NoEntry, NoCounter, EntryState
  <2>2. now' \in Time
    BY <1>1 DEF Tick, Time
  <2>3. QED
    BY <1>1, <2>1, <2>2 DEF Tick, Lapsed
<1>2. CASE Write
  BY <1>2, WriteTyped
<1>3. ASSUME NEW a \in Admins, Invalidate(a) PROVE TypeOK'
  <2>1. ASSUME NEW e \in Entries, Drop(e)
        PROVE  /\ entry' \in [Entries -> EntryState] /\ counter' = counter
               /\ told' \in SUBSET (Entries \X Roles) /\ missed' \in {"no", "yes"}
    <3>1. NoEntry \in EntryState
      BY DeadlineTyped DEF NoEntry, EntryState
    <3>2. QED
      BY <2>1, <3>1 DEF Drop
  <2>2. ASSUME NEW g \in ProjectGrants, Retire(a, g)
        PROVE  /\ entry' = entry
               /\ counter' \in [ProjectGrants -> [n : 0..MaxRevokes, until : Deadline]]
               /\ told' \in SUBSET (Entries \X Roles) /\ missed' \in {"no", "yes"}
    <3>1. Generation(g) + 1 \in 0..MaxRevokes
      BY <2>2 DEF Retire, Generation
    <3>2. /\ now + GenTTL \in Deadline
          /\ (IF counter[g] = NoCounter THEN Never ELSE counter[g].until) \in Deadline
      BY DeadlineTyped
    <3>3. counter' \in [ProjectGrants -> [n : 0..MaxRevokes, until : Deadline]]
      BY <2>2, <3>1, <3>2 DEF Retire, Incremented
    <3>4. QED
      BY <2>2, <3>3 DEF Retire, Through, Entries
  <2>3. QED
    BY <1>3, <2>1, <2>2 DEF Invalidate
<1>4. ASSUME NEW a \in Admins, InvalidateFails(a) PROVE TypeOK'
  BY <1>4 DEF InvalidateFails
<1>5. ASSUME NEW c \in Checks, NEW u \in Users, Begin(c, u) PROVE TypeOK'
  <2>1. Fresh(u, "keys", now) \in CheckState
    BY DEF Fresh, CheckState
  <2>2. QED
    BY <1>5, <2>1 DEF Begin
<1>6. ASSUME NEW c \in Checks, CheckStep(c) PROVE TypeOK'
  <2> DEFINE u == check[c].user
  <2>2. 0 \in 0..MaxRevokes
    OBVIOUS
  <2>3. CASE GetKeys(c)
    <3>1. u \in Entries
      BY <2>3 DEF GetKeys, TimeInv, Entries
    <3>2. check' \in [Checks -> CheckState]
      BY <2>2, <2>3, <3>1, KeysTyped, EntryTyped DEF GetKeys, Miss
    <3>3. QED
      BY <2>3, <3>2 DEF GetKeys, Miss, Keys
  <2>4. CASE GetGeneration(c)
    <3>1. check' \in [Checks -> CheckState]
      BY <2>2, <2>4, CheckTyped, KeysTyped DEF GetGeneration, Miss
    <3>2. QED
      BY <2>4, <3>1 DEF GetGeneration, Miss, Keys
  <2>5. CASE GetRoles(c)
    <3>1. entry[Definitions].keys \in SUBSET Roles
      BY EntryTyped DEF Entries
    <3>2. check' \in [Checks -> CheckState]
      BY <2>5, <3>1, PermsTyped DEF GetRoles
    <3>3. QED
      BY <2>5, <3>2 DEF GetRoles, Perms
  <2>6. CASE ReadKeys(c)
    <3>1. u \in Users
      BY <2>6 DEF TimeInv, ReadKeys
    <3>2. Effective(u) \in SUBSET Roles /\ row[u].via \in ProjectGrants \cup {NoGrant}
      BY <3>1 DEF Effective
    <3>3. check' \in [Checks -> CheckState]
      BY <2>2, <2>6, <3>2, CheckTyped, KeysTyped DEF ReadKeys
    <3>4. QED
      BY <2>6, <3>3 DEF ReadKeys, Keys
  <2>7. CASE Stamp(c)
    <3>1. check' \in [Checks -> CheckState]
      <4>1. check[c].via \in ProjectGrants
        BY <2>7, CheckTyped DEF Stamp, SourceInv
      <4>2. Generation(check[c].via) \in 0..MaxRevokes
        BY <4>1 DEF Generation
      <4>3. QED
        BY <2>2, <2>7, <4>2, CheckTyped, KeysTyped DEF Stamp, AfterKeys
    <3>2. QED
      BY <2>7, <3>1 DEF Stamp, Keys
  <2>8. CASE PutKeys(c)
    <3>1. u \in Entries
      BY <2>8 DEF TimeInv, Entries, PutKeys
    <3>2. check' \in [Checks -> CheckState]
      BY <2>2, <2>8, CheckTyped, KeysTyped DEF PutKeys, AfterKeys
    <3>3. entry' \in [Entries -> EntryState] /\ counter' = counter
      BY <2>8, <3>1, CheckTyped, PutTyped DEF PutKeys
    <3>4. QED
      BY <2>8, <3>2, <3>3 DEF PutKeys, Keys
  <2>9. CASE ReadRoles(c)
    <3>1. check' \in [Checks -> CheckState]
      BY <2>9, PermsTyped DEF ReadRoles
    <3>2. QED
      BY <2>9, <3>1 DEF ReadRoles, Perms
  <2>10. CASE PutRoles(c)
    <3>1. check' \in [Checks -> CheckState]
      BY <2>10, CheckTyped, PermsTyped DEF PutRoles
    <3>2. entry' \in [Entries -> EntryState] /\ counter' = counter
      BY <2>2, <2>10, CheckTyped, PutTyped DEF PutRoles, Entries
    <3>3. QED
      BY <2>10, <3>1, <3>2 DEF PutRoles, Perms
  <2>11. CASE Reply(c)
    <3>1. NoCheck \in CheckState
      BY DeadlineTyped DEF NoCheck, Fresh, CheckState
    <3>2. QED
      BY <2>11, <3>1 DEF Reply
  <2>12. QED
    BY <1>6, <2>3, <2>4, <2>5, <2>6, <2>7, <2>8, <2>9, <2>10, <2>11 DEF CheckStep
<1>7. CASE UNCHANGED vars
  BY <1>7 DEF vars
<1>8. QED
  BY <1>1, <1>2, <1>3, <1>4, <1>5, <1>6, <1>7 DEF Next, Write

-----------------------------------------------------------------------------
(* What a step does, in terms the invariants share                          *)

\* What the database answers depends on the database alone.
LEMMA SameTruth ==
    ASSUME UNCHANGED <<row, grant, carries>>, NEW e
    PROVE  Truth(e)' = Truth(e)
BY DEF Truth, Effective

\* A change of the database leaves Redis and the checks alone, revokes a grant
\* only with an invalidation to follow, and gives a user keys through an active
\* grant or directly.
LEMMA WriteEffect ==
    ASSUME TypeOK, RowInv, Write
    PROVE  /\ Recorded
           /\ UNCHANGED <<now, partners, entry, counter, check, missed>>
           /\ \A g \in ProjectGrants :
                 \/ grant'[g] = grant[g]
                 \/ /\ grant[g] = "none" /\ grant'[g] = "active"
                    /\ \A h \in ProjectGrants :
                          grant[h] # "active" /\ (h # g => grant'[h] = grant[h])
                 \/ /\ grant[g] # "none" /\ grant'[g] = "revoked"
                    /\ \E a \in Admins : todo'[a] = g
           /\ \A u \in Users :
                 \/ row'[u] = row[u]
                 \/ row'[u].via = NoGrant /\ (u \in partners => row'[u].keys = {})
                 \/ /\ u \in partners /\ row'[u].via \in ProjectGrants
                    /\ grant[row'[u].via] = "active" /\ grant' = grant
           /\ \A a \in Admins :
                 \/ todo'[a] = todo[a]
                 \/ /\ todo[a] = Nothing
                    /\ todo'[a] \in Users => todo'[a] \notin partners
                    /\ todo'[a] \in ProjectGrants => grant'[todo'[a]] = "revoked"
<1> USE CacheAssumption DEF TypeOK, redis, history
<1>1. ASSUME NEW a \in Admins, NEW u \in Users, DirectStep(a, u)
      PROVE  /\ Committed(a, u) /\ u \notin partners
             /\ UNCHANGED <<partners, grant, carries>>
             /\ \E k : row' = [row EXCEPT ![u] = [keys |-> k, via |-> NoGrant]]
  BY <1>1 DEF DirectStep, GrantRoles, ReplaceGrant, RevokeGrant, NoRow
<1>2. ASSUME NEW g \in ProjectGrants, NEW u \in Users, DelegatedStep(g, u)
      PROVE  /\ Uncached /\ u \in partners
             /\ UNCHANGED <<partners, grant, carries>>
             /\ \/ row' = [row EXCEPT ![u] = [keys |-> {}, via |-> NoGrant]]
                \/ /\ grant[g] = "active"
                   /\ \E k : row' = [row EXCEPT ![u] = [keys |-> k, via |-> g]]
  BY <1>2 DEF DelegatedStep, AssignDelegated, ReplaceDelegated, RemoveDelegated,
              NoRow, RowInv
<1>3. CASE \E a \in Admins, u \in Users : DirectStep(a, u)
  BY <1>1, <1>3 DEF Committed
<1>4. CASE \E a \in Admins, r \in Roles : ChangeRole(a, r)
  BY <1>4 DEF ChangeRole, Committed
<1>5. CASE \E a \in Admins, g \in ProjectGrants : RevokeProjectGrant(a, g)
  BY <1>5 DEF RevokeProjectGrant, Committed
<1>6. CASE \E g \in ProjectGrants : CreateProjectGrant(g)
  BY <1>6 DEF CreateProjectGrant, Uncached
<1>7. CASE \E g \in ProjectGrants, u \in Users : DelegatedStep(g, u)
  BY <1>2, <1>7 DEF Uncached
<1>8. QED
  BY <1>3, <1>4, <1>5, <1>6, <1>7 DEF Write

\* A step of a check leaves everything but the check and one entry alone.
LEMMA CheckEffect ==
    ASSUME TypeOK, NEW c \in Checks, CheckStep(c)
    PROVE  /\ UNCHANGED <<now, database, counter, todo, changed, told, missed>>
           /\ \A d \in Checks \ {c} : check'[d] = check[d] /\ barred'[d] = barred[d]
           /\ \/ /\ barred' = barred /\ check[c].pc # "idle"
                 /\ check'[c].pc # "idle" /\ check'[c].user = check[c].user
                 /\ check'[c].at = check[c].at
              \/ /\ check'[c] = NoCheck /\ barred'[c] = {} /\ entry' = entry
           /\ \A e \in Entries : entry'[e] = entry[e] \/ entry'[e].until = now + TTL
<1> USE DEF TypeOK, database, redis, history, Keys, Perms
<1>1. CASE GetKeys(c)
  BY <1>1 DEF GetKeys, Miss
<1>2. CASE GetGeneration(c)
  BY <1>2 DEF GetGeneration, Miss
<1>3. CASE GetRoles(c)
  BY <1>3 DEF GetRoles
<1>4. CASE ReadKeys(c)
  BY <1>4 DEF ReadKeys
<1>5. CASE Stamp(c)
  BY <1>5 DEF Stamp, AfterKeys
<1>6. CASE PutKeys(c)
  <2>1. counter' = counter
    BY <1>6 DEF PutKeys, Put
  <2>2. \A e \in Entries : entry'[e] = entry[e] \/ entry'[e].until = now + TTL
    BY <1>6 DEF PutKeys, Put
  <2>3. QED
    BY <1>6, <2>1, <2>2 DEF PutKeys, AfterKeys
<1>7. CASE ReadRoles(c)
  BY <1>7 DEF ReadRoles
<1>8. CASE PutRoles(c)
  <2>1. counter' = counter
    BY <1>8 DEF PutRoles, Put
  <2>2. \A e \in Entries : entry'[e] = entry[e] \/ entry'[e].until = now + TTL
    BY <1>8 DEF PutRoles, Put
  <2>3. QED
    BY <1>8, <2>1, <2>2 DEF PutRoles
<1>9. CASE Reply(c)
  BY <1>9 DEF Reply
<1>10. QED
  BY <1>1, <1>2, <1>3, <1>4, <1>5, <1>6, <1>7, <1>8, <1>9 DEF CheckStep

-----------------------------------------------------------------------------
(* Times, rows and where answers come from                                  *)

\* No entry is kept for more than the TTL, no check runs for more than Lag.
LEMMA TimeStep ==
    ASSUME TypeOK, RowInv, TimeInv, [Next]_vars
    PROVE  TimeInv'
<1> USE CacheAssumption DEF TypeOK, Time
<1>1. CASE Tick
  <2>1. ASSUME NEW e \in Entries PROVE entry'[e].until <= now' + TTL
    <3>1. entry[e].until \in Nat
      BY EntryTyped DEF Deadline
    <3>2. entry'[e] = entry[e] \/ entry'[e] = NoEntry
      BY <1>1 DEF Tick, Lapsed
    <3>3. QED
      BY <1>1, <3>1, <3>2 DEF Tick, TimeInv, NoEntry
  <2>2. ASSUME NEW c \in Checks, check'[c].pc # "idle"
        PROVE  /\ check'[c].user \in Users
               /\ check'[c].at <= now' /\ now' <= check'[c].at + Lag
    BY <1>1, <2>2, CheckTyped DEF Tick, TimeInv
  <2>3. QED
    BY <2>1, <2>2 DEF TimeInv
<1>2. CASE Write
  BY <1>2, WriteEffect DEF TimeInv
<1>3. ASSUME NEW a \in Admins, Invalidate(a) PROVE TimeInv'
  <2>1. UNCHANGED <<now, check>>
    BY <1>3 DEF Invalidate
  <2>2. ASSUME NEW e \in Entries PROVE entry'[e].until <= now + TTL
    <3>1. entry'[e] = entry[e] \/ entry'[e] = NoEntry
      BY <1>3 DEF Invalidate, Drop, Retire
    <3>2. QED
      BY <3>1 DEF TimeInv, NoEntry
  <2>3. QED
    BY <2>1, <2>2 DEF TimeInv
<1>4. ASSUME NEW a \in Admins, InvalidateFails(a) PROVE TimeInv'
  BY <1>4 DEF InvalidateFails, redis, TimeInv
<1>5. ASSUME NEW c \in Checks, NEW u \in Users, Begin(c, u) PROVE TimeInv'
  BY <1>5 DEF Begin, redis, TimeInv, Fresh
<1>6. ASSUME NEW c \in Checks, CheckStep(c) PROVE TimeInv'
  <2>1. ASSUME NEW e \in Entries PROVE entry'[e].until <= now + TTL
    BY <1>6, CheckEffect DEF TimeInv
  <2>2. ASSUME NEW d \in Checks, check'[d].pc # "idle"
        PROVE  /\ check'[d].user \in Users
               /\ check'[d].at <= now /\ now <= check'[d].at + Lag
    BY <1>6, <2>2, CheckEffect DEF TimeInv, NoCheck, Fresh
  <2>3. QED
    BY <1>6, <2>1, <2>2, CheckEffect DEF TimeInv
<1>7. CASE UNCHANGED vars
  BY <1>7 DEF vars, redis, TimeInv
<1>8. QED
  BY <1>1, <1>2, <1>3, <1>4, <1>5, <1>6, <1>7 DEF Next, Write

\* A pushed revocation increments the counter of a grant that is revoked.
LEMMA RetireEffect ==
    ASSUME TypeOK, NEW a \in Admins, NEW g \in ProjectGrants, Retire(a, g)
    PROVE  /\ entry' = entry
           /\ \A h \in ProjectGrants \ {g} : counter'[h] = counter[h]
           /\ counter'[g].n = counter[g].n + 1
           /\ \/ counter'[g].until = now + GenTTL
              \/ counter[g] = NoCounter /\ counter'[g].until = Never
              \/ counter[g] # NoCounter /\ counter'[g].until = counter[g].until
BY DEF TypeOK, Retire, Incremented, Generation

\* Keys through a grant are the partner's; one grant at a time is active; only a
\* revoked grant has a counter; what is to be invalidated has been changed.
LEMMA RowStep ==
    ASSUME TypeOK, RowInv, SourceInv, [Next]_vars
    PROVE  RowInv'
<1> USE CacheAssumption DEF TypeOK, database, redis, history
<1>1. CASE Tick
  <2>1. \A g \in ProjectGrants : counter'[g] = counter[g] \/ counter'[g] = NoCounter
    BY <1>1 DEF Tick, Lapsed
  <2>2. \A g \in ProjectGrants : counter'[g].n = 0 => counter'[g] = NoCounter
    BY <2>1 DEF RowInv
  <2>3. \A g \in ProjectGrants : grant'[g] # "revoked" => counter'[g].n = 0
    BY <1>1, <2>1 DEF Tick, RowInv, NoCounter
  <2>4. QED
    BY <1>1, <2>2, <2>3 DEF Tick, RowInv
<1>2. CASE Write
  <2>1. \A u \in Users :
          /\ row'[u].via # NoGrant => u \in partners /\ grant'[row'[u].via] # "none"
          /\ row'[u].via = NoGrant /\ u \in partners => row'[u].keys = {}
    BY <1>2, WriteEffect DEF RowInv
  <2>2. \A g, h \in ProjectGrants :
          grant'[g] = "active" /\ grant'[h] = "active" => g = h
    BY <1>2, WriteEffect DEF RowInv
  <2>3. \A g \in ProjectGrants :
          /\ grant'[g] # "revoked" => counter'[g].n = 0
          /\ counter'[g].n = 0 => counter'[g] = NoCounter
    BY <1>2, WriteEffect DEF RowInv
  <2>4. \A a \in Admins :
          /\ todo'[a] \in Users => todo'[a] \notin partners
          /\ todo'[a] \in ProjectGrants => grant'[todo'[a]] = "revoked"
    BY <1>2, WriteEffect DEF RowInv
  <2>5. QED
    BY <1>2, <2>1, <2>2, <2>3, <2>4, WriteEffect DEF RowInv
<1>3. ASSUME NEW a \in Admins, Invalidate(a) PROVE RowInv'
  <2>1. UNCHANGED <<partners, row, grant>> /\ todo' = [todo EXCEPT ![a] = Nothing]
    BY <1>3 DEF Invalidate
  <2>2. CASE todo[a] \in ProjectGrants /\ Retire(a, todo[a])
    <3>1. \A g \in ProjectGrants :
            /\ grant[g] # "revoked" => counter'[g].n = 0
            /\ counter'[g].n = 0 => counter'[g] = NoCounter
      BY <2>2, RetireEffect DEF RowInv
    <3>2. QED
      BY <2>1, <3>1 DEF RowInv
  <2>3. CASE todo[a] \in Entries /\ Drop(todo[a])
    BY <2>1, <2>3 DEF Drop, RowInv
  <2>4. QED
    BY <1>3, <2>2, <2>3 DEF Invalidate
<1>4. ASSUME NEW a \in Admins, InvalidateFails(a) PROVE RowInv'
  BY <1>4 DEF InvalidateFails, RowInv
<1>5. ASSUME NEW c \in Checks, NEW u \in Users, Begin(c, u) PROVE RowInv'
  BY <1>5 DEF Begin, RowInv
<1>6. ASSUME NEW c \in Checks, CheckStep(c) PROVE RowInv'
  BY <1>6, CheckEffect DEF RowInv
<1>7. CASE UNCHANGED vars
  BY <1>7 DEF vars, RowInv
<1>8. QED
  BY <1>1, <1>2, <1>3, <1>4, <1>5, <1>6, <1>7 DEF Next, Write


\* The partner organization never changes, and no grant is forgotten.
LEMMA GrantsStay ==
    ASSUME TypeOK, RowInv, [Next]_vars
    PROVE  /\ partners' = partners
           /\ \A g \in ProjectGrants : grant[g] # "none" => grant'[g] # "none"
<1>1. CASE Write
  BY <1>1, WriteEffect
<1>2. CASE UNCHANGED <<partners, grant>>
  BY <1>2
<1>3. ASSUME NEW c \in Checks, CheckStep(c) PROVE UNCHANGED <<partners, grant>>
  BY <1>3, CheckEffect DEF database
<1>4. QED
  BY <1>1, <1>2, <1>3 DEF Next, Write, vars, database, Tick, Invalidate,
                          InvalidateFails, Begin

\* What an entry or a check holds came through a grant that was made, if a
\* partner holds it, and directly otherwise.
LEMMA SourceStep ==
    ASSUME TypeOK, TimeInv, RowInv, SourceInv, [Next]_vars
    PROVE  SourceInv'
<1> USE CacheAssumption DEF TypeOK, database, redis, history, SourceInv, Sourced
<1>1. /\ partners' = partners
      /\ \A g \in ProjectGrants : grant[g] # "none" => grant'[g] # "none"
  BY GrantsStay
<1>2. ASSUME UNCHANGED <<entry, check>> PROVE SourceInv'
  <2>1. \A e \in Entries : entry[e].via \in ProjectGrants \cup {NoGrant}
    BY EntryTyped
  <2>2. \A c \in Checks : check[c].via \in ProjectGrants \cup {NoGrant}
    BY CheckTyped
  <2>3. QED
    BY <1>1, <1>2, <2>1, <2>2
<1>3. ASSUME UNCHANGED check,
             \A e \in Entries : entry'[e] = entry[e] \/ entry'[e] = NoEntry
      PROVE  SourceInv'
  <2>1. \A e \in Entries : entry[e].via \in ProjectGrants \cup {NoGrant}
    BY EntryTyped
  <2>2. \A c \in Checks : check[c].via \in ProjectGrants \cup {NoGrant}
    BY CheckTyped
  <2>3. \A e \in Entries : Sourced(e, entry'[e].via, entry'[e].keys)
    BY <1>3 DEF NoEntry
  <2>4. \A e \in Entries : entry'[e].via \in ProjectGrants \cup {NoGrant}
    BY <1>3, <2>1 DEF NoEntry
  <2>5. QED
    BY <1>1, <1>3, <2>2, <2>3, <2>4
<1>4. CASE Tick
  BY <1>3, <1>4 DEF Tick, Lapsed
<1>5. CASE Write
  BY <1>2, <1>5, WriteEffect
<1>6. ASSUME NEW a \in Admins, Invalidate(a) PROVE SourceInv'
  BY <1>3, <1>6 DEF Invalidate, Drop, Retire
<1>7. ASSUME NEW a \in Admins, InvalidateFails(a) PROVE SourceInv'
  BY <1>2, <1>7 DEF InvalidateFails
<1>8. ASSUME NEW c \in Checks, NEW u \in Users, Begin(c, u) PROVE SourceInv'
  <2>1. check'[c].pc = "keys" /\ \A d \in Checks \ {c} : check'[d] = check[d]
    BY <1>8 DEF Begin, Fresh
  <2>2. \A d \in Checks : check[d].via \in ProjectGrants \cup {NoGrant}
    BY CheckTyped
  <2>3. \A e \in Entries : entry[e].via \in ProjectGrants \cup {NoGrant}
    BY EntryTyped
  <2>4. QED
    BY <1>1, <1>8, <2>1, <2>2, <2>3 DEF Begin
<1>9. ASSUME NEW c \in Checks, CheckStep(c) PROVE SourceInv'
  <2> DEFINE k == check[c]
  <2>1. UNCHANGED <<partners, grant>> /\ \A d \in Checks \ {c} : check'[d] = check[d]
    BY <1>9, CheckEffect
  <2>2. ASSUME NEW e \in Entries
        PROVE  Sourced(e, entry'[e].via, entry'[e].keys)
    <3>1. CASE entry' = entry
      BY <3>1
    <3>2. CASE PutKeys(c)
      <4>1. Sourced(k.user, k.via, k.keys)
        BY <3>2 DEF PutKeys
      <4>2. entry'[e] = entry[e]
              \/ (e = k.user /\ entry'[e].via = k.via /\ entry'[e].keys = k.keys)
        <5>1. Put(k.user, k.keys, k.via, k.gen)
          BY <3>2 DEF PutKeys
        <5>2. QED
          BY <5>1 DEF Put
      <4>3. QED
        BY <4>1, <4>2
    <3>3. CASE PutRoles(c)
      <4>1. Definitions \notin partners
        OBVIOUS
      <4>2. entry'[e] = entry[e] \/ (e = Definitions /\ entry'[e].via = NoGrant)
        <5>1. Put(Definitions, k.perms, NoGrant, 0)
          BY <3>3 DEF PutRoles
        <5>2. QED
          BY <5>1 DEF Put
      <4>3. QED
        BY <4>1, <4>2
    <3>4. QED
      BY <1>9, <3>1, <3>2, <3>3
      DEF CheckStep, GetKeys, GetGeneration, GetRoles, ReadKeys, Stamp, ReadRoles,
          Reply
  <2>3. /\ check'[c].pc \in {"stamp", "putKeys"} =>
              Sourced(check'[c].user, check'[c].via, check'[c].keys)
        /\ check'[c].pc = "stamp" => check'[c].via # NoGrant
    <3>1. CASE ReadKeys(c)
      <4>1. k.user \in Users
        BY <3>1 DEF ReadKeys, TimeInv
      <4>2. Sourced(k.user, row[k.user].via, Effective(k.user))
        BY <4>1 DEF RowInv, Effective
      <4>3. QED
        BY <3>1, <4>2 DEF ReadKeys, Keys
    <3>2. CASE Stamp(c)
      BY <3>2 DEF Stamp, Keys, AfterKeys
    <3>3. CASE GetKeys(c) \/ GetGeneration(c)
      BY <3>3 DEF GetKeys, GetGeneration, Keys, Miss
    <3>4. CASE GetRoles(c) \/ ReadRoles(c) \/ PutRoles(c)
      BY <3>4 DEF GetRoles, ReadRoles, PutRoles, Perms
    <3>5. CASE PutKeys(c) \/ Reply(c)
      BY <3>5 DEF PutKeys, Keys, AfterKeys, Reply, NoCheck, Fresh
    <3>6. QED
      BY <1>9, <3>1, <3>2, <3>3, <3>4, <3>5 DEF CheckStep
  <2>4. QED
    BY <2>1, <2>2, <2>3
<1>10. CASE UNCHANGED vars
  BY <1>2, <1>10 DEF vars
<1>11. QED
  BY <1>4, <1>5, <1>6, <1>7, <1>8, <1>9, <1>10 DEF Next, Write

\* What has been taken away stays so until the histories forget it.
LEMMA HistoryStep ==
    ASSUME TypeOK, TypeOK', RowInv, HistoryInv, [Next]_vars
    PROVE  HistoryInv'
<1> USE DEF TypeOK, database, redis, history, HistoryInv
<1>1. CASE Write
  <2>1. Recorded
    BY <1>1, WriteEffect
  <2>2. \A x \in told' : x[2] \notin Truth(x[1])'
    BY <2>1 DEF Recorded
  <2>3. ASSUME NEW c \in Checks PROVE barred'[c] \subseteq told'
    BY <2>1 DEF Recorded
  <2>4. QED
    BY <2>2, <2>3
<1>2. ASSUME UNCHANGED <<row, grant, carries>>,
             \A x \in told' : x \in told \/ x[2] \notin Truth(x[1]),
             \A c \in Checks : barred'[c] \subseteq told'
      PROVE  HistoryInv'
  BY <1>2, SameTruth
<1>3. ASSUME NEW a \in Admins, Invalidate(a) PROVE HistoryInv'
  <2>1. CASE todo[a] \in Entries /\ Drop(todo[a])
    BY <1>2, <1>3, <2>1 DEF Invalidate, Drop
  <2>2. CASE todo[a] \in ProjectGrants /\ Retire(a, todo[a])
    BY <1>2, <1>3, <2>2 DEF Invalidate, Retire
  <2>3. QED
    BY <1>3, <2>1, <2>2 DEF Invalidate
<1>4. ASSUME NEW c \in Checks, NEW u \in Users, Begin(c, u) PROVE HistoryInv'
  BY <1>2, <1>4 DEF Begin
<1>5. ASSUME NEW c \in Checks, CheckStep(c) PROVE HistoryInv'
  BY <1>2, <1>5, CheckEffect
<1>6. CASE Tick \/ (\E a \in Admins : InvalidateFails(a)) \/ UNCHANGED vars
  BY <1>2, <1>6 DEF Tick, InvalidateFails, vars
<1>7. QED
  BY <1>1, <1>3, <1>4, <1>5, <1>6 DEF Next, Write


-----------------------------------------------------------------------------
(* Generations                                                              *)

\* Only the clock and a pushed revocation touch a counter.
LEMMA CounterStep ==
    ASSUME TypeOK, RowInv, [Next]_vars, NEW g \in ProjectGrants
    PROVE  \/ counter'[g] = counter[g]
           \/ Tick /\ counter[g].until <= now + 1 /\ counter'[g] = NoCounter
           \/ \E a \in Admins : Invalidate(a) /\ todo[a] = g /\ Retire(a, g)
<1> USE DEF TypeOK
<1>1. CASE Tick
  <2>1. counter[g].until \in Nat /\ now \in Nat
    BY DEF Deadline, Time
  <2>2. QED
    BY <1>1, <2>1 DEF Tick, Lapsed
<1>2. ASSUME NEW a \in Admins, Invalidate(a)
      PROVE  counter'[g] = counter[g] \/ (todo[a] = g /\ Retire(a, g))
  BY <1>2, RetireEffect DEF Invalidate, Drop
<1>3. CASE Write
  BY <1>3, WriteEffect
<1>4. ASSUME NEW c \in Checks, CheckStep(c) PROVE counter' = counter
  BY <1>4, CheckEffect
<1>5. QED
  BY <1>1, <1>2, <1>3, <1>4
  DEF Next, Write, InvalidateFails, Begin, redis, vars

\* An answer that is retired stays so for as long as it is about.
LEMMA RetiredStays ==
    ASSUME TypeOK, RowInv, [Next]_vars,
           NEW g \in ProjectGrants, NEW gen \in Nat, NEW until \in Nat,
           Retired(g, gen, until), until <= now + Lag + TTL,
           Tick => now + 1 < until + Lag
    PROVE  Retired(g, gen, until)'
<1> USE CacheAssumption, GenerationAssumption DEF Retired
<1>1. /\ now \in Nat /\ counter[g].n \in Nat /\ counter[g].until \in Nat
  BY DEF TypeOK, Time, Deadline
<1>2. CASE counter'[g] = counter[g]
  BY <1>2
<1>3. CASE Tick /\ counter[g].until <= now + 1
  BY <1>1, <1>3
<1>4. CASE \E a \in Admins : Retire(a, g)
  <2>1. counter[g] # NoCounter
    BY <1>1 DEF NoCounter
  <2>2. /\ counter'[g].n = counter[g].n + 1
        /\ counter'[g].until \in {now + GenTTL, counter[g].until}
    BY <1>4, <2>1, RetireEffect
  <2>3. QED
    BY <1>1, <2>2
<1>5. QED
  BY <1>2, <1>3, <1>4, CounterStep

\* An answer through a grant that is current or pending stays so until the
\* revocation is pushed, unless an invalidation is lost.
LEMMA UnretiredStays ==
    ASSUME TypeOK, RowInv, [Next]_vars, missed' = "no",
           NEW g \in ProjectGrants, NEW u \in partners, Unretired(u, g),
           \A a \in Admins : ~Retire(a, g)
    PROVE  Unretired(u, g)'
<1> USE CacheAssumption DEF TypeOK, Unretired
<1>1. counter'[g].n = 0
  BY CounterStep DEF NoCounter
<1>2. CASE Write
  <2>1. u \in Users
    OBVIOUS
  <2>2. CASE Current(u, g)
    <3>1. grant'[g] = "active" \/ Pending(g)'
      BY <1>2, <2>2, WriteEffect DEF Current, Pending
    <3>2. row'[u].via \in {g, NoGrant}
      BY <1>2, <2>1, <2>2, WriteEffect DEF Current, RowInv
    <3>3. QED
      BY <1>1, <3>1, <3>2 DEF Current
  <2>3. CASE Pending(g)
    <3>1. Pending(g)'
      BY <1>2, <2>3, WriteEffect DEF Pending
    <3>2. QED
      BY <1>1, <3>1
  <2>4. QED
    BY <2>2, <2>3
<1>3. ASSUME NEW a \in Admins, Invalidate(a) PROVE Unretired(u, g)'
  <2>1. todo[a] # g /\ todo' = [todo EXCEPT ![a] = Nothing]
    BY <1>3 DEF Invalidate, Entries
  <2>2. UNCHANGED <<row, grant>>
    BY <1>3 DEF Invalidate, database
  <2>3. QED
    BY <1>1, <2>1, <2>2 DEF Current, Pending
<1>4. ASSUME UNCHANGED <<row, grant, todo>> PROVE Unretired(u, g)'
  BY <1>1, <1>4 DEF Current, Pending
<1>5. ASSUME NEW c \in Checks, CheckStep(c) PROVE UNCHANGED <<row, grant, todo>>
  BY <1>5, CheckEffect DEF database
<1>6. ASSUME NEW a \in Admins, InvalidateFails(a) PROVE FALSE
  BY <1>6 DEF InvalidateFails
<1>7. QED
  BY <1>2, <1>3, <1>4, <1>5, <1>6 DEF Next, Write, Tick, Begin, database, vars

\* So an answer through a grant is current, pending or retired in every state
\* after one in which it was, for as long as it is about.
LEMMA KeptStays ==
    ASSUME TypeOK, RowInv, [Next]_vars, missed' = "no",
           NEW g \in ProjectGrants, NEW u \in partners, NEW gen \in Nat,
           NEW until \in Nat, until <= now + Lag + TTL,
           Tick => now + 1 < until + Lag,
           (gen = 0 /\ Unretired(u, g)) \/ Retired(g, gen, until)
    PROVE  ((gen = 0 /\ Unretired(u, g)) \/ Retired(g, gen, until))'
<1>1. CASE Retired(g, gen, until)
  BY <1>1, RetiredStays
<1>2. CASE gen = 0 /\ Unretired(u, g) /\ \A a \in Admins : ~Retire(a, g)
  BY <1>2, UnretiredStays
<1>3. ASSUME NEW a \in Admins, Retire(a, g), gen = 0, Unretired(u, g)
      PROVE  Retired(g, gen, until)'
  <2>1. counter[g].n = 0 /\ counter[g] = NoCounter
    BY <1>3 DEF Unretired, RowInv
  <2>2. counter'[g].n = 1 /\ counter'[g].until \in {now + GenTTL, Never}
    BY <1>3, <2>1, RetireEffect
  <2>3. now \in Nat /\ now <= MaxTime
    BY CacheAssumption DEF TypeOK, Time
  <2>4. QED
    BY <1>3, <2>2, <2>3, CacheAssumption, GenerationAssumption DEF Retired, Never
<1>4. QED
  BY <1>1, <1>2, <1>3


-----------------------------------------------------------------------------
(* Where entries and checks come from                                       *)

\* An entry is gone, or still the one it was, or what a check has put there.
LEMMA EntryStep ==
    ASSUME TypeOK, RowInv, [Next]_vars, NEW e \in Entries
    PROVE  \/ entry'[e] = NoEntry
           \/ entry'[e] = entry[e] /\ (Tick => now + 1 < entry[e].until)
           \/ \E c \in Checks :
                 /\ PutKeys(c) /\ e = check[c].user
                 /\ entry'[e] = [keys |-> check[c].keys, via |-> check[c].via,
                                 gen |-> check[c].gen, until |-> now + TTL]
           \/ \E c \in Checks :
                 /\ PutRoles(c) /\ e = Definitions
                 /\ entry'[e] = [keys |-> check[c].perms, via |-> NoGrant,
                                 gen |-> 0, until |-> now + TTL]
<1> USE DEF TypeOK
<1>1. CASE Tick
  <2>1. entry[e].until \in Nat /\ now \in Nat
    BY EntryTyped DEF Deadline, Time
  <2>2. QED
    BY <1>1, <2>1 DEF Tick, Lapsed
<1>2. CASE entry' = entry /\ now' = now
  BY <1>2 DEF Tick, Time
<1>3. CASE Write
  BY <1>2, <1>3, WriteEffect
<1>4. ASSUME NEW a \in Admins, Invalidate(a)
      PROVE  entry'[e] = NoEntry \/ (entry'[e] = entry[e] /\ now' = now)
  BY <1>4 DEF Invalidate, Drop, Retire
<1>5. ASSUME NEW c \in Checks, PutKeys(c)
      PROVE  \/ entry'[e] = entry[e] /\ now' = now
             \/ /\ e = check[c].user
                /\ entry'[e] = [keys |-> check[c].keys, via |-> check[c].via,
                                gen |-> check[c].gen, until |-> now + TTL]
  BY <1>5 DEF PutKeys, Put, Keys
<1>6. ASSUME NEW c \in Checks, PutRoles(c)
      PROVE  \/ entry'[e] = entry[e] /\ now' = now
             \/ /\ e = Definitions
                /\ entry'[e] = [keys |-> check[c].perms, via |-> NoGrant,
                                gen |-> 0, until |-> now + TTL]
  BY <1>6 DEF PutRoles, Put, Perms
<1>7. ASSUME NEW c \in Checks, CheckStep(c), ~PutKeys(c), ~PutRoles(c)
      PROVE  entry' = entry /\ now' = now
  BY <1>7 DEF CheckStep, GetKeys, GetGeneration, GetRoles, ReadKeys, Stamp,
              ReadRoles, Reply, Miss, Keys, Perms, redis
<1>8. ASSUME now' = now PROVE ~Tick
  BY <1>8 DEF Tick, Time
<1>9. QED
  BY <1>1, <1>2, <1>3, <1>4, <1>5, <1>6, <1>7, <1>8
  DEF Next, Write, InvalidateFails, Begin, redis, vars

\* A check is still where it was, with the histories of it, or begins, or goes on.
LEMMA CheckChange ==
    ASSUME TypeOK, RowInv, [Next]_vars, NEW c \in Checks
    PROVE  \/ /\ check'[c] = check[c] /\ barred'[c] \subseteq barred[c]
              /\ Tick => check[c].pc = "idle" \/ now < check[c].at + Lag
           \/ \E u \in Users : Begin(c, u)
           \/ CheckStep(c)
<1> USE DEF TypeOK
<1>1. CASE Tick
  BY <1>1 DEF Tick, history
<1>2. ASSUME now' = now PROVE ~Tick
  BY <1>2 DEF Tick, Time
<1>3. CASE Write
  BY <1>2, <1>3, WriteEffect DEF Recorded
<1>4. ASSUME NEW d \in Checks, NEW u \in Users, Begin(d, u), d # c
      PROVE  check'[c] = check[c] /\ barred'[c] = barred[c] /\ now' = now
  BY <1>4 DEF Begin
<1>5. ASSUME NEW d \in Checks, CheckStep(d), d # c
      PROVE  check'[c] = check[c] /\ barred'[c] = barred[c] /\ now' = now
  BY <1>5, CheckEffect
<1>6. ASSUME NEW a \in Admins, Invalidate(a) \/ InvalidateFails(a)
      PROVE  check'[c] = check[c] /\ barred'[c] = barred[c] /\ now' = now
  BY <1>6 DEF Invalidate, InvalidateFails
<1>7. CASE UNCHANGED vars
  BY <1>2, <1>7 DEF vars, history
<1>8. QED
  BY <1>1, <1>2, <1>3, <1>4, <1>5, <1>6, <1>7 DEF Next, Write

\* Keys that came through a grant are current, pending or retired.
LEMMA GrantStep ==
    ASSUME TypeOK, TypeOK', TimeInv, RowInv, SourceInv, GrantInv, [Next]_vars,
           missed' = "no"
    PROVE  GrantInv'
<1> USE CacheAssumption
<1>1. now \in Nat
  BY DEF TypeOK, Time
<1>2. ASSUME NEW u \in Users, entry'[u].via # NoGrant, entry'[u].keys # {}
      PROVE  (\/ entry[u].gen = 0 /\ Unretired(u, entry[u].via)
              \/ Retired(entry[u].via, entry[u].gen, entry[u].until))'
  <2> DEFINE e == entry'[u]
  <2>1. u \in Entries /\ e # NoEntry
    BY <1>2 DEF Entries, NoEntry
  <2>2. CASE e = entry[u] /\ (Tick => now + 1 < entry[u].until)
    <3>1. /\ entry[u].via \in ProjectGrants /\ entry[u].gen \in Nat
          /\ entry[u].until \in Nat /\ entry[u].until <= now + TTL
      BY <1>2, <2>1, <2>2, EntryTyped DEF Deadline, TimeInv
    <3>2. u \in partners
      BY <1>2, <2>1, <2>2 DEF SourceInv, Sourced
    <3>3. \/ entry[u].gen = 0 /\ Unretired(u, entry[u].via)
          \/ Retired(entry[u].via, entry[u].gen, entry[u].until)
      BY <1>2, <2>2 DEF GrantInv
    <3>4. /\ entry[u].until <= now + Lag + TTL
          /\ Tick => now + 1 < entry[u].until + Lag
      BY <1>1, <2>2, <3>1
    <3>5. ASSUME NEW v \in ProjectGrants, NEW gen \in Nat, NEW until \in Nat,
                 v = entry[u].via, gen = entry[u].gen, until = entry[u].until
          PROVE  ((gen = 0 /\ Unretired(u, v)) \/ Retired(v, gen, until))'
      BY <3>2, <3>3, <3>4, <3>5, KeptStays
    <3>6. QED
      BY <2>2, <3>1, <3>5
  <2>3. ASSUME NEW c \in Checks, PutKeys(c), u = check[c].user,
               e = [keys |-> check[c].keys, via |-> check[c].via,
                    gen |-> check[c].gen, until |-> now + TTL]
        PROVE  (\/ entry[u].gen = 0 /\ Unretired(u, entry[u].via)
                \/ Retired(entry[u].via, entry[u].gen, entry[u].until))'
    <3>1. check[c].via \in ProjectGrants /\ check[c].gen \in Nat
      BY <1>2, <2>3, CheckTyped
    <3>2. /\ check[c].pc = "putKeys" /\ check[c].keys # {}
          /\ now <= check[c].at + Lag /\ check[c].at \in Nat
      BY <1>2, <2>3, CheckTyped DEF PutKeys, TimeInv, Time
    <3>3. u \in partners
      BY <2>3, <3>1, <3>2 DEF SourceInv, Sourced
    <3>4. counter[check[c].via].until \in Nat
      BY <3>1 DEF TypeOK, Deadline
    <3>5. \/ check[c].gen = 0 /\ Unretired(u, check[c].via)
          \/ Retired(check[c].via, check[c].gen, now + TTL)
      BY <1>1, <2>3, <3>1, <3>2, <3>4 DEF GrantInv, Retired, Latest
    <3>6. now + TTL \in Nat /\ now + TTL <= now + Lag + TTL /\ ~Tick
      BY <1>1, <2>3 DEF Tick, PutKeys, Keys
    <3>7. ASSUME NEW v \in ProjectGrants, NEW gen \in Nat, NEW until \in Nat,
                 v = check[c].via, gen = check[c].gen, until = now + TTL
          PROVE  ((gen = 0 /\ Unretired(u, v)) \/ Retired(v, gen, until))'
      BY <3>3, <3>5, <3>6, <3>7, KeptStays
    <3>8. QED
      BY <2>3, <3>1, <3>6, <3>7
  <2>4. ~\E c \in Checks :
            /\ PutRoles(c) /\ u = Definitions
            /\ entry'[u] = [keys |-> check[c].perms, via |-> NoGrant,
                            gen |-> 0, until |-> now + TTL]
    OBVIOUS
  <2>5. QED
    BY <2>1, <2>2, <2>3, <2>4, EntryStep
<1>3. ASSUME NEW c \in Checks, check'[c].via # NoGrant, check'[c].keys # {}
      PROVE  (/\ check[c].pc = "stamp" => Unretired(check[c].user, check[c].via)
              /\ check[c].pc = "putKeys" =>
                    \/ check[c].gen = 0 /\ Unretired(check[c].user, check[c].via)
                    \/ Retired(check[c].via, check[c].gen, Latest(c)))'
  <2> DEFINE k == check[c]
  <2>1. CASE check'[c] = k /\ (Tick => k.pc = "idle" \/ now < k.at + Lag)
    <3>1. /\ k.via \in ProjectGrants /\ k.gen \in Nat /\ k.at \in Nat
          /\ k.via # NoGrant /\ k.keys # {}
      BY <1>3, <2>1, CheckTyped DEF Time
    <3>2. SUFFICES ASSUME k.pc \in {"stamp", "putKeys"}
                   PROVE  (/\ check[c].pc = "stamp" =>
                                 Unretired(check[c].user, check[c].via)
                           /\ check[c].pc = "putKeys" =>
                                 \/ /\ check[c].gen = 0
                                    /\ Unretired(check[c].user, check[c].via)
                                 \/ Retired(check[c].via, check[c].gen, Latest(c)))'
      BY <2>1
    <3>3. /\ k.user \in partners /\ k.at <= now /\ now <= k.at + Lag
      BY <3>1, <3>2 DEF SourceInv, Sourced, TimeInv
    <3>4. ASSUME NEW v \in ProjectGrants, NEW u \in partners,
                 v = k.via, u = k.user, k.pc = "stamp"
          PROVE  Unretired(u, v)'
      <4>1. Unretired(u, v)
        BY <3>1, <3>4 DEF GrantInv
      <4>2. ASSUME NEW a \in Admins, Invalidate(a), todo[a] = v, Retire(a, v)
            PROVE  FALSE
        BY <3>1, <3>4, <4>2 DEF Retire
      <4>3. counter'[v].n = 0
        BY <4>1, <4>2, CounterStep DEF Unretired, NoCounter
      <4>4. ASSUME NEW a \in Admins, Retire(a, v) PROVE FALSE
        BY <4>1, <4>3, <4>4, RetireEffect DEF Unretired
      <4>5. QED
        BY <4>1, <4>4, UnretiredStays
    <3>5. ASSUME NEW v \in ProjectGrants, NEW u \in partners, NEW gen \in Nat,
                 NEW until \in Nat, until = k.at + Lag + TTL,
                 v = k.via, u = k.user, gen = k.gen, k.pc = "putKeys"
          PROVE  ((gen = 0 /\ Unretired(u, v)) \/ Retired(v, gen, until))'
      <4>1. (gen = 0 /\ Unretired(u, v)) \/ Retired(v, gen, until)
        BY <3>1, <3>5 DEF GrantInv, Latest
      <4>2. until <= now + Lag + TTL /\ (Tick => now + 1 < until + Lag)
        BY <1>1, <2>1, <3>1, <3>3, <3>5
      <4>3. QED
        BY <4>1, <4>2, KeptStays
    <3>6. k.at + Lag + TTL \in Nat /\ Latest(c)' = k.at + Lag + TTL
      BY <2>1, <3>1 DEF Latest
    <3>7. QED
      BY <2>1, <3>1, <3>3, <3>4, <3>5, <3>6
  <2>2. CASE \E u \in Users : Begin(c, u)
    BY <1>3, <2>2 DEF Begin, Fresh, TypeOK
  <2>3. CASE CheckStep(c)
    <3>1. UNCHANGED <<row, grant, counter, todo>>
      BY <2>3, CheckEffect DEF database
    <3>2. CASE ReadKeys(c)
      <4> DEFINE u == k.user
      <4>1. /\ u \in Users /\ row[u].via \in ProjectGrants \cup {NoGrant}
        BY <3>2 DEF ReadKeys, TimeInv, TypeOK
      <4>2. check'[c].user = u /\ check'[c].via = row[u].via
            /\ check'[c].keys = Effective(u)
            /\ check'[c].pc = IF row[u].via = NoGrant THEN "putKeys" ELSE "stamp"
        BY <3>2 DEF ReadKeys, Keys, TypeOK
      <4>3. row[u].via # NoGrant /\ grant[row[u].via] = "active"
        BY <1>3, <4>2 DEF Effective
      <4>4. Unretired(u, row[u].via)
        BY <4>1, <4>3 DEF Unretired, Current, RowInv
      <4>5. QED
        BY <3>1, <4>2, <4>3, <4>4 DEF Unretired, Current, Pending
    <3>3. CASE Stamp(c)
      <4>1. /\ check'[c].user = k.user /\ k.pc = "stamp"
            /\ check'[c].via # NoGrant => 
                  /\ check'[c].pc = "putKeys" /\ check'[c].keys = k.keys
                  /\ check'[c].via = k.via /\ check'[c].gen = Generation(k.via)
        BY <3>3 DEF Stamp, Keys, AfterKeys, TypeOK
      <4>2. Unretired(k.user, k.via)
        BY <1>3, <4>1 DEF GrantInv
      <4>3. QED
        BY <1>3, <3>1, <4>1, <4>2 DEF Unretired, Current, Pending, Generation
    <3>4. CASE ~ReadKeys(c) /\ ~Stamp(c)
      <4>1. check'[c].pc \notin {"stamp", "putKeys"}
        BY <2>3, <3>4
        DEF CheckStep, GetKeys, GetGeneration, GetRoles, PutKeys, ReadRoles,
            PutRoles, Reply, Miss, Keys, Perms, AfterKeys, NoCheck, Fresh, TypeOK
      <4>2. QED
        BY <4>1
    <3>5. QED
      BY <3>2, <3>3, <3>4
  <2>4. QED
    BY <2>1, <2>2, <2>3, CheckChange
<1>4. QED
  BY <1>2, <1>3 DEF GrantInv


-----------------------------------------------------------------------------
(* What has been taken away                                                 *)

\* An invalidation that was lost or overtaken is never made good.
LEMMA MissedStep ==
    ASSUME TypeOK, RowInv, [Next]_vars, missed' = "no"
    PROVE  missed = "no"
<1>1. CASE Write
  BY <1>1, WriteEffect
<1>2. ASSUME NEW a \in Admins, Invalidate(a) PROVE missed = "no"
  BY <1>2 DEF Invalidate, Drop, Retire
<1>3. ASSUME NEW c \in Checks, CheckStep(c) PROVE missed = "no"
  BY <1>3, CheckEffect
<1>4. QED
  BY <1>1, <1>2, <1>3
  DEF Next, Write, Tick, InvalidateFails, Begin, history, vars

\* What was taken away before a step comes back to no entry but as retired.
LEMMA ToldEntryStep ==
    ASSUME TypeOK, TimeInv, RowInv, SourceInv, ToldInv, [Next]_vars,
           NEW x \in told, x[2] \in entry'[x[1]].keys
    PROVE  (/\ entry[x[1]].via # NoGrant
            /\ Retired(entry[x[1]].via, entry[x[1]].gen, entry[x[1]].until))'
<1> USE CacheAssumption
<1> DEFINE e == x[1]
<1>1. now \in Nat /\ e \in Entries
  BY DEF TypeOK, Time
<1>2. CASE entry'[e] = entry[e] /\ (Tick => now + 1 < entry[e].until)
  <2>1. /\ entry[e].via # NoGrant
        /\ Retired(entry[e].via, entry[e].gen, entry[e].until)
    BY <1>2 DEF ToldInv
  <2>2. /\ entry[e].via \in ProjectGrants /\ entry[e].gen \in Nat
        /\ entry[e].until \in Nat /\ entry[e].until <= now + TTL
    BY <1>1, <2>1, EntryTyped DEF Deadline, TimeInv
  <2>3. /\ entry[e].until <= now + Lag + TTL
        /\ Tick => now + 1 < entry[e].until + Lag
    BY <1>1, <1>2, <2>2
  <2>4. ASSUME NEW v \in ProjectGrants, NEW gen \in Nat, NEW until \in Nat,
               v = entry[e].via, gen = entry[e].gen, until = entry[e].until
        PROVE  Retired(v, gen, until)'
    BY <2>1, <2>3, <2>4, RetiredStays
  <2>5. QED
    BY <1>2, <2>1, <2>2, <2>4
<1>3. ASSUME NEW c \in Checks, PutKeys(c), e = check[c].user,
             entry'[e] = [keys |-> check[c].keys, via |-> check[c].via,
                          gen |-> check[c].gen, until |-> now + TTL]
      PROVE  (/\ entry[e].via # NoGrant
              /\ Retired(entry[e].via, entry[e].gen, entry[e].until))'
  <2>1. /\ check[c].pc = "putKeys" /\ check[c].user \in Users
        /\ now <= check[c].at + Lag /\ check[c].at \in Nat
    BY <1>3, CheckTyped DEF PutKeys, TimeInv, Time
  <2>2. Writing(c, e) /\ e # Definitions /\ x[2] \in Answered(c, e)
    BY <1>3, <2>1 DEF Writing, Answered
  <2>3. /\ check[c].via # NoGrant
        /\ Retired(check[c].via, check[c].gen, Latest(c))
    BY <2>2 DEF ToldInv
  <2>4. /\ check[c].via \in ProjectGrants /\ check[c].gen \in Nat
        /\ counter[check[c].via].until \in Nat
    BY <2>3, CheckTyped DEF TypeOK, Deadline
  <2>5. Retired(check[c].via, check[c].gen, now + TTL)
    BY <1>1, <2>1, <2>3, <2>4 DEF Retired, Latest
  <2>6. now + TTL \in Nat /\ now + TTL <= now + Lag + TTL /\ ~Tick
    BY <1>1, <1>3 DEF Tick, PutKeys, Keys
  <2>7. ASSUME NEW v \in ProjectGrants, NEW gen \in Nat, NEW until \in Nat,
               v = check[c].via, gen = check[c].gen, until = now + TTL
        PROVE  Retired(v, gen, until)'
    BY <2>5, <2>6, <2>7, RetiredStays
  <2>8. QED
    BY <1>3, <2>3, <2>4, <2>6, <2>7
<1>4. ASSUME NEW c \in Checks, PutRoles(c), e = Definitions,
             entry'[e] = [keys |-> check[c].perms, via |-> NoGrant,
                          gen |-> 0, until |-> now + TTL]
      PROVE  FALSE
  BY <1>4 DEF PutRoles, Writing, Answered, ToldInv
<1>5. CASE entry'[e] = NoEntry
  BY <1>5 DEF NoEntry
<1>6. QED
  BY <1>1, <1>2, <1>3, <1>4, <1>5, EntryStep

\* And no check is about to write it, but as retired.
LEMMA ToldCheckStep ==
    ASSUME TypeOK, TimeInv, RowInv, SourceInv, HistoryInv, ToldInv, [Next]_vars,
           NEW x \in told, NEW c \in Checks,
           Writing(c, x[1])', x[2] \in Answered(c, x[1])'
    PROVE  (/\ check[c].pc = "putKeys" /\ check[c].via # NoGrant
            /\ Retired(check[c].via, check[c].gen, Latest(c)))'
<1> USE CacheAssumption
<1> DEFINE e == x[1]
           k == check[c]
<1>1. now \in Nat /\ e \in Entries /\ x[2] \notin Truth(e)
  BY DEF TypeOK, Time, HistoryInv
<1>2. CASE check'[c] = k /\ (Tick => k.pc = "idle" \/ now < k.at + Lag)
  <2>1. Writing(c, e) /\ x[2] \in Answered(c, e)
    BY <1>2 DEF Writing, Answered
  <2>2. /\ k.pc = "putKeys" /\ k.via # NoGrant
        /\ Retired(k.via, k.gen, Latest(c))
    BY <2>1 DEF ToldInv
  <2>3. /\ k.via \in ProjectGrants /\ k.gen \in Nat /\ k.at \in Nat
        /\ k.at <= now /\ now <= k.at + Lag
    BY <2>2, CheckTyped DEF TimeInv, Time
  <2>4. /\ Latest(c) \in Nat /\ Latest(c) <= now + Lag + TTL
        /\ Tick => now + 1 < Latest(c) + Lag
        /\ Latest(c)' = Latest(c)
    BY <1>1, <1>2, <2>2, <2>3 DEF Latest
  <2>5. ASSUME NEW v \in ProjectGrants, NEW gen \in Nat, NEW until \in Nat,
               v = k.via, gen = k.gen, until = Latest(c)
        PROVE  Retired(v, gen, until)'
    BY <2>2, <2>4, <2>5, RetiredStays
  <2>6. QED
    BY <1>2, <2>2, <2>3, <2>4, <2>5
<1>3. CASE \E u \in Users : Begin(c, u)
  BY <1>3 DEF Begin, Fresh, Writing, TypeOK
<1>4. CASE CheckStep(c)
  <2>1. CASE ReadKeys(c)
    <3>1. k.user \in Users
      BY <2>1 DEF ReadKeys, TimeInv
    <3>2. /\ check'[c].pc \in {"putKeys", "stamp"} /\ check'[c].user = k.user
          /\ check'[c].keys = Effective(k.user)
      BY <2>1 DEF ReadKeys, Keys, TypeOK
    <3>3. e = k.user /\ x[2] \in Truth(e)
      BY <3>1, <3>2 DEF Writing, Answered, Truth
    <3>4. QED
      BY <1>1, <3>3
  <2>2. CASE ReadRoles(c)
    <3>1. check'[c].pc = "putRoles" /\ check'[c].perms = carries
      BY <2>2 DEF ReadRoles, Perms, TypeOK
    <3>2. e = Definitions /\ x[2] \in Truth(e)
      BY <3>1 DEF Writing, Answered, Truth
    <3>3. QED
      BY <1>1, <3>2
  <2>3. CASE Stamp(c)
    <3>1. /\ k.pc = "stamp" /\ k.user \in Users /\ check'[c].pc # "putRoles"
          /\ check'[c].keys = k.keys /\ check'[c].user = k.user
      BY <2>3 DEF Stamp, Keys, AfterKeys, TypeOK, TimeInv
    <3>2. e = k.user /\ x[2] \in k.keys
      BY <3>1 DEF Writing, Answered
    <3>3. Writing(c, e) /\ x[2] \in Answered(c, e)
      BY <3>1, <3>2 DEF Writing, Answered
    <3>4. QED
      BY <3>1, <3>3 DEF ToldInv
  <2>4. CASE ~ReadKeys(c) /\ ~ReadRoles(c) /\ ~Stamp(c)
    <3>1. check'[c].pc \notin {"stamp", "putKeys", "putRoles"}
      BY <1>4, <2>4
      DEF CheckStep, GetKeys, GetGeneration, GetRoles, PutKeys,
          PutRoles, Reply, Miss, Keys, Perms, AfterKeys, NoCheck, Fresh, TypeOK
    <3>2. QED
      BY <3>1 DEF Writing
  <2>5. QED
    BY <2>1, <2>2, <2>3, <2>4
<1>5. QED
  BY <1>2, <1>3, <1>4, CheckChange


\* An invalidation takes the entry itself away, and every check that held an
\* older read of it would have overtaken it.
LEMMA DropTold ==
    ASSUME TypeOK, TimeInv, RowInv, SourceInv, missed' = "no",
           NEW a \in Admins, Invalidate(a), todo[a] \in Entries, Drop(todo[a]),
           NEW x \in {todo[a]} \X Roles, x[2] \notin Truth(x[1])
    PROVE  (/\ x[2] \notin entry[x[1]].keys
            /\ \A c \in Checks : ~(Writing(c, x[1]) /\ x[2] \in Answered(c, x[1])))'
<1> USE CacheAssumption
<1> DEFINE e == x[1]
<1>1. e = todo[a] /\ e \in Entries
  OBVIOUS
<1>2. entry'[e] = NoEntry
  BY <1>1 DEF Drop, TypeOK
<1>3. ASSUME NEW c \in Checks, Writing(c, e), x[2] \in Answered(c, e)
      PROVE  FALSE
  <2>1. ~\E S \in SUBSET Roles : Holds(c, e, S) /\ ~(S \subseteq Truth(e))
    BY <1>1 DEF Drop
  <2>2. CASE e = Definitions /\ check[c].pc = "putRoles"
    <3>1. Holds(c, e, check[c].perms) /\ x[2] \in check[c].perms
      BY <1>3, <2>2 DEF Holds, Answered
    <3>2. QED
      BY <2>1, <3>1, CheckTyped
  <2>3. CASE e = check[c].user /\ check[c].pc \in {"stamp", "putKeys"}
    <3>1. e \in Users /\ e # Definitions /\ e \notin partners
      BY <1>1, <2>3 DEF TimeInv, RowInv
    <3>2. check[c].via = NoGrant /\ check[c].pc = "putKeys"
      BY <2>3, <3>1 DEF SourceInv, Sourced
    <3>3. Holds(c, e, check[c].keys) /\ x[2] \in check[c].keys
      BY <1>3, <2>3, <3>1, <3>2 DEF Holds, Answered
    <3>4. QED
      BY <2>1, <3>3, CheckTyped
  <2>4. QED
    BY <1>3, <2>2, <2>3 DEF Writing
<1>4. check' = check
  BY DEF Invalidate
<1>5. \A c \in Checks : ~(Writing(c, e) /\ x[2] \in Answered(c, e))'
  BY <1>3, <1>4 DEF Writing, Answered
<1>6. QED
  BY <1>2, <1>5 DEF NoEntry

\* A pushed revocation retires every answer through the grant.
LEMMA RetireTold ==
    ASSUME TypeOK, TypeOK', TimeInv, RowInv, SourceInv, SourceInv', GrantInv',
           missed' = "no",
           NEW a \in Admins, Invalidate(a), todo[a] \in ProjectGrants,
           Retire(a, todo[a]), NEW x \in Through(todo[a]) \X Roles
    PROVE  (/\ x[2] \in entry[x[1]].keys =>
                  /\ entry[x[1]].via # NoGrant
                  /\ Retired(entry[x[1]].via, entry[x[1]].gen, entry[x[1]].until)
            /\ \A c \in Checks : Writing(c, x[1]) /\ x[2] \in Answered(c, x[1]) =>
                  /\ check[c].pc = "putKeys" /\ check[c].via # NoGrant
                  /\ Retired(check[c].via, check[c].gen, Latest(c)))'
<1> USE CacheAssumption
<1> DEFINE u == x[1]
           g == todo[a]
<1>1. /\ u \in Users /\ u \in Entries /\ u # Definitions /\ u \in partners
      /\ row[u].via = g
  BY DEF Through, RowInv, Entries
<1>2. /\ UNCHANGED <<partners, row, grant, check, entry>>
      /\ todo' = [todo EXCEPT ![a] = Nothing]
  BY DEF Invalidate, database, Retire
<1>3. ASSUME NEW v \in ProjectGrants, Unretired(u, v)' PROVE FALSE
  <2>1. counter'[v].n = 0 /\ v # g
    BY <1>3, RetireEffect DEF Unretired, TypeOK
  <2>2. CASE Current(u, v)'
    BY <1>1, <1>2, <2>1, <2>2 DEF Current
  <2>3. CASE Pending(v)'
    <3>1. PICK b \in Admins : todo'[b] = v
      BY <2>3 DEF Pending
    <3>2. b # a /\ todo[b] = v
      BY <1>2, <3>1 DEF TypeOK
    <3>3. QED
      BY <2>1, <3>2 DEF Retire
  <2>4. QED
    BY <1>3, <2>2, <2>3 DEF Unretired
<1>4. ASSUME x[2] \in entry'[u].keys
      PROVE  (/\ entry[u].via # NoGrant
              /\ Retired(entry[u].via, entry[u].gen, entry[u].until))'
  <2>1. entry'[u].via \in ProjectGrants
    BY <1>1, <1>2, <1>4, EntryTyped DEF SourceInv, Sourced
  <2>2. ~(Unretired(u, entry[u].via)')
    BY <1>2, <1>3, <2>1
  <2>3. QED
    BY <1>1, <1>4, <2>1, <2>2 DEF GrantInv
<1>5. ASSUME NEW c \in Checks, Writing(c, u)', x[2] \in Answered(c, u)'
      PROVE  (/\ check[c].pc = "putKeys" /\ check[c].via # NoGrant
              /\ Retired(check[c].via, check[c].gen, Latest(c)))'
  <2>1. /\ check'[c].user = u /\ check'[c].pc \in {"stamp", "putKeys"}
        /\ x[2] \in check'[c].keys
    BY <1>1, <1>5 DEF Writing, Answered
  <2>2. check'[c].via \in ProjectGrants
    BY <1>1, <1>2, <2>1, CheckTyped DEF SourceInv, Sourced
  <2>3. ~(Unretired(check[c].user, check[c].via)')
    BY <1>2, <1>3, <2>1, <2>2
  <2>4. QED
    BY <2>1, <2>2, <2>3 DEF GrantInv
<1>6. QED
  BY <1>4, <1>5

\* What has been taken away is neither cached nor about to be, unless retired.
LEMMA ToldStep ==
    ASSUME TypeOK, TypeOK', TimeInv, RowInv, SourceInv, SourceInv', HistoryInv,
           GrantInv', ToldInv, [Next]_vars, missed' = "no"
    PROVE  ToldInv'
<1>1. SUFFICES ASSUME NEW x \in told'
      PROVE  (/\ x[2] \in entry[x[1]].keys =>
                    /\ entry[x[1]].via # NoGrant
                    /\ Retired(entry[x[1]].via, entry[x[1]].gen, entry[x[1]].until)
              /\ \A c \in Checks : Writing(c, x[1]) /\ x[2] \in Answered(c, x[1]) =>
                    /\ check[c].pc = "putKeys" /\ check[c].via # NoGrant
                    /\ Retired(check[c].via, check[c].gen, Latest(c)))'
  BY DEF ToldInv
<1>2. CASE x \in told
  BY <1>2, ToldEntryStep, ToldCheckStep
<1>3. ASSUME NEW a \in Admins, Invalidate(a), x \notin told
      PROVE  (/\ x[2] \in entry[x[1]].keys =>
                    /\ entry[x[1]].via # NoGrant
                    /\ Retired(entry[x[1]].via, entry[x[1]].gen, entry[x[1]].until)
              /\ \A c \in Checks : Writing(c, x[1]) /\ x[2] \in Answered(c, x[1]) =>
                    /\ check[c].pc = "putKeys" /\ check[c].via # NoGrant
                    /\ Retired(check[c].via, check[c].gen, Latest(c)))'
  <2>1. CASE todo[a] \in Entries /\ Drop(todo[a])
    <3>1. x \in {todo[a]} \X Roles /\ x[2] \notin Truth(x[1])
      BY <1>3, <2>1 DEF Drop
    <3>2. QED
      BY <1>3, <2>1, <3>1, DropTold
  <2>2. CASE todo[a] \in ProjectGrants /\ Retire(a, todo[a])
    <3>1. x \in Through(todo[a]) \X Roles
      BY <1>3, <2>2 DEF Retire
    <3>2. QED
      BY <1>3, <2>2, <3>1, RetireTold
  <2>3. QED
    BY <1>3, <2>1, <2>2 DEF Invalidate
<1>4. CASE Write
  BY <1>2, <1>4, WriteEffect DEF Recorded
<1>5. ASSUME NEW c \in Checks, CheckStep(c) PROVE x \in told
  BY <1>5, CheckEffect
<1>6. QED
  BY <1>2, <1>3, <1>4, <1>5
  DEF Next, Write, Tick, InvalidateFails, Begin, history, vars

\* No check that began since has been answered with it.
LEMMA BarredStep ==
    ASSUME TypeOK, TimeInv, RowInv, SourceInv, HistoryInv, ToldInv, BarredInv,
           [Next]_vars
    PROVE  BarredInv'
<1> USE CacheAssumption
<1>1. SUFFICES ASSUME NEW c \in Checks, NEW x \in barred'[c]
      PROVE  (/\ x[1] = Definitions => x[2] \notin check[c].perms
              /\ x[1] = check[c].user /\ x[2] \in check[c].keys =>
                    /\ check[c].pc = "generation" /\ check[c].via # NoGrant
                    /\ Retired(check[c].via, check[c].gen, check[c].at + 1))'
  BY DEF BarredInv
<1> DEFINE k == check[c]
<1>2. now \in Nat
  BY DEF TypeOK, Time
<1>3. CASE /\ check'[c] = k /\ barred'[c] \subseteq barred[c]
           /\ Tick => k.pc = "idle" \/ now < k.at + Lag
  <2>1. x[1] = Definitions => x[2] \notin k.perms
    BY <1>3 DEF BarredInv
  <2>2. ASSUME x[1] = k.user, x[2] \in k.keys
        PROVE  /\ k.pc = "generation" /\ k.via # NoGrant
               /\ Retired(k.via, k.gen, k.at + 1)'
    <3>1. /\ k.pc = "generation" /\ k.via # NoGrant
          /\ Retired(k.via, k.gen, k.at + 1)
      BY <1>3, <2>2 DEF BarredInv
    <3>2. /\ k.via \in ProjectGrants /\ k.gen \in Nat /\ k.at \in Nat
          /\ k.at <= now
      BY <3>1, CheckTyped DEF TimeInv, Time
    <3>3. /\ k.at + 1 \in Nat /\ k.at + 1 <= now + Lag + TTL
          /\ Tick => now + 1 < k.at + 1 + Lag
      BY <1>2, <1>3, <3>1, <3>2
    <3>4. ASSUME NEW v \in ProjectGrants, NEW gen \in Nat, NEW until \in Nat,
                 v = k.via, gen = k.gen, until = k.at + 1
          PROVE  Retired(v, gen, until)'
      BY <3>1, <3>3, <3>4, RetiredStays
    <3>5. QED
      BY <1>3, <3>1, <3>2, <3>3, <3>4
  <2>3. QED
    BY <1>3, <2>1, <2>2
<1>4. CASE \E u \in Users : Begin(c, u)
  BY <1>4 DEF Begin, Fresh, TypeOK
<1>5. ASSUME CheckStep(c), ~Reply(c)
      PROVE  (/\ x[1] = Definitions => x[2] \notin check[c].perms
              /\ x[1] = check[c].user /\ x[2] \in check[c].keys =>
                    /\ check[c].pc = "generation" /\ check[c].via # NoGrant
                    /\ Retired(check[c].via, check[c].gen, check[c].at + 1))'
  <2>1. /\ UNCHANGED <<counter, barred>> /\ k.pc # "idle"
        /\ check'[c].user = k.user /\ check'[c].at = k.at
    BY <1>5 DEF CheckStep, GetKeys, GetGeneration, GetRoles, ReadKeys, Stamp,
                PutKeys, ReadRoles, PutRoles, Miss, Keys, Perms, AfterKeys,
                Put, redis, history, TypeOK
  <2>2. /\ k.user \in Users /\ k.at \in Nat /\ k.at <= now
    BY <2>1, CheckTyped DEF TimeInv, Time
  <2>3. x \in barred[c] /\ x \in told /\ x[2] \notin Truth(x[1])
    BY <2>1 DEF HistoryInv
  <2>4. /\ x[1] = Definitions => x[2] \notin k.perms
        /\ x[1] = k.user /\ x[2] \in k.keys =>
              /\ k.pc = "generation" /\ k.via # NoGrant
              /\ Retired(k.via, k.gen, k.at + 1)
    BY <2>3 DEF BarredInv
  <2>5. x[1] = Definitions => x[2] \notin check'[c].perms
    <3>1. CASE check'[c].perms \in {k.perms, {}}
      BY <2>4, <3>1
    <3>2. CASE check'[c].perms = carries
      BY <2>3, <3>2 DEF Truth
    <3>3. CASE check'[c].perms = entry[Definitions].keys
      <4>1. entry[Definitions].via = NoGrant
        BY DEF SourceInv, Sourced, Entries, TypeOK
      <4>2. QED
        BY <2>3, <3>3, <4>1 DEF ToldInv
    <3>4. QED
      BY <1>5, <3>1, <3>2, <3>3
      DEF CheckStep, GetKeys, GetGeneration, GetRoles, ReadKeys, Stamp,
          PutKeys, ReadRoles, PutRoles, Miss, Keys, Perms, TypeOK
  <2>6. ASSUME x[1] = k.user, x[2] \in check'[c].keys
        PROVE  /\ check'[c].pc = "generation" /\ check'[c].via # NoGrant
               /\ Retired(check[c].via, check[c].gen, check[c].at + 1)'
    <3>1. CASE GetKeys(c)
      <4>1. /\ Cached(k.user) /\ check'[c].keys = entry[k.user].keys
            /\ check'[c].via = entry[k.user].via
            /\ entry[k.user].via # NoGrant =>
                  /\ check'[c].pc = "generation"
                  /\ check'[c].gen = entry[k.user].gen
        BY <2>6, <3>1 DEF GetKeys, Miss, Keys, TypeOK
      <4>2. /\ entry[k.user].via # NoGrant
            /\ Retired(entry[k.user].via, entry[k.user].gen, entry[k.user].until)
        BY <2>3, <2>6, <4>1 DEF ToldInv
      <4>3. /\ entry[k.user].via \in ProjectGrants /\ entry[k.user].until \in Nat
            /\ counter[entry[k.user].via].until \in Nat
        BY <2>2, <4>2, EntryTyped DEF Entries, Deadline, TypeOK
      <4>4. k.at + 1 <= entry[k.user].until
        BY <1>2, <2>2, <4>1, <4>3 DEF Cached
      <4>5. QED
        BY <2>1, <2>2, <4>1, <4>2, <4>3, <4>4 DEF Retired
    <3>2. CASE GetGeneration(c)
      <4>1. Generation(k.via) = k.gen /\ check'[c].keys = k.keys
        BY <2>6, <3>2 DEF GetGeneration, Miss, Keys, TypeOK
      <4>2. k.via # NoGrant /\ k.gen < counter[k.via].n
        BY <2>4, <2>6, <4>1 DEF Retired
      <4>3. k.via \in ProjectGrants
        BY <4>2, CheckTyped
      <4>4. QED
        BY <4>1, <4>2, <4>3 DEF Generation, TypeOK
    <3>3. CASE ReadKeys(c)
      <4>1. check'[c].keys = Truth(k.user)
        BY <2>2, <3>3 DEF ReadKeys, Keys, Truth, TypeOK
      <4>2. QED
        BY <2>3, <2>6, <4>1
    <3>4. CASE ~GetKeys(c) /\ ~GetGeneration(c) /\ ~ReadKeys(c)
      <4>1. check'[c].keys = k.keys /\ k.pc # "generation"
        BY <1>5, <3>4
        DEF CheckStep, GetRoles, Stamp, PutKeys, ReadRoles, PutRoles, Keys,
            Perms, AfterKeys, TypeOK
      <4>2. QED
        BY <2>4, <2>6, <4>1
    <3>5. QED
      BY <3>1, <3>2, <3>3, <3>4
  <2>7. QED
    BY <2>1, <2>5, <2>6
<1>6. CASE Reply(c)
  BY <1>6 DEF Reply, TypeOK
<1>7. QED
  BY <1>3, <1>4, <1>5, <1>6, CheckChange


-----------------------------------------------------------------------------
(* Staleness                                                                *)

\* What a check has read it read before the step, or reads now, from the database
\* or from a live entry; what it is about to write it has from the database.
LEMMA AnswerStep ==
    ASSUME TypeOK, TimeInv, NEW c \in Checks, CheckStep(c), NEW e \in Entries
    PROVE  /\ Read(c, e)' => \/ Answered(c, e)' = Truth(e)
                             \/ Answered(c, e)' = Answered(c, e) /\ Read(c, e)
                             \/ Answered(c, e)' = entry[e].keys /\ Cached(e)
           /\ Writing(c, e)' => \/ Answered(c, e)' = Truth(e)
                                \/ /\ Answered(c, e)' = Answered(c, e)
                                   /\ Writing(c, e)
<1> DEFINE k == check[c]
<1> USE DEF TypeOK, Read, Writing, Answered
<1>0. {"keys"} # {} /\ {"roles"} # {}
  OBVIOUS
<1>1. CASE Reply(c)
  BY <1>1 DEF Reply, NoCheck, Fresh
<1>2. CASE ~Reply(c)
  <2>1. k.user \in Users /\ Definitions \notin Users /\ k.user # Definitions
    BY <1>2, CacheAssumption
    DEF TimeInv, CheckStep, GetKeys, GetGeneration, GetRoles, ReadKeys, Stamp,
        PutKeys, ReadRoles, PutRoles
  <2>2. CASE GetKeys(c)
    <3>1. /\ check'[c].user = k.user /\ check'[c].pc \in {"roles", "generation"}
          /\ \/ Cached(k.user) /\ check'[c].keys = entry[k.user].keys
             \/ check'[c].pc = "roles" /\ check'[c].need = {"keys"}
      BY <2>2 DEF GetKeys, Miss, Keys
    <3>2. QED
      BY <1>0, <2>1, <3>1
  <2>3. CASE GetGeneration(c)
    <3>1. /\ k.pc = "generation" /\ check'[c].user = k.user
          /\ check'[c].pc = "roles"
          /\ check'[c].keys = k.keys \/ check'[c].need = {"keys"}
      BY <2>3 DEF GetGeneration, Miss, Keys
    <3>2. QED
      BY <1>0, <2>1, <3>1
  <2>4. CASE GetRoles(c)
    <3>1. /\ k.pc = "roles" /\ check'[c].user = k.user /\ check'[c].keys = k.keys
          /\ check'[c].pc \in {"done", "readRoles"} => k.need = {}
          /\ check'[c].pc \in {"done", "readKeys", "readRoles"}
      BY <2>4 DEF GetRoles, Perms
    <3>2. \/ Cached(Definitions) /\ check'[c].perms = entry[Definitions].keys
          \/ /\ check'[c].need = {"roles"}
             /\ check'[c].pc \in {"readKeys", "readRoles"}
      BY <2>4 DEF GetRoles, Perms
    <3>3. QED
      BY <1>0, <2>1, <3>1, <3>2
  <2>5. CASE ReadKeys(c)
    BY <2>1, <2>5 DEF ReadKeys, Keys, Truth
  <2>6. CASE Stamp(c)
    BY <2>1, <2>6 DEF Stamp, AfterKeys, Keys
  <2>7. CASE PutKeys(c)
    BY <2>1, <2>7 DEF PutKeys, AfterKeys, Keys
  <2>8. CASE ReadRoles(c)
    BY <2>1, <2>8 DEF ReadRoles, Perms, Truth
  <2>9. CASE PutRoles(c)
    BY <2>1, <2>9 DEF PutRoles, Perms
  <2>10. QED
    BY <1>2, <2>2, <2>3, <2>4, <2>5, <2>6, <2>7, <2>8, <2>9 DEF CheckStep
<1>3. QED
  BY <1>1, <1>2

\* The truth about an entry changes only with its history.
LEMMA TruthStep ==
    ASSUME TypeOK, RowInv, [Next]_vars, NEW e \in Entries
    PROVE  \/ Truth(e)' = Truth(e) /\ changed'[e] = changed[e]
           \/ changed'[e] = now /\ check' = check /\ entry' = entry
<1>1. CASE Write
  BY <1>1, WriteEffect DEF Recorded
<1>2. ASSUME UNCHANGED <<row, grant, carries, changed>>
      PROVE  Truth(e)' = Truth(e) /\ changed'[e] = changed[e]
  BY <1>2, SameTruth
<1>3. ASSUME NEW c \in Checks, CheckStep(c)
      PROVE  UNCHANGED <<row, grant, carries, changed>>
  BY <1>3, CheckEffect DEF database
<1>4. QED
  BY <1>1, <1>2, <1>3
  DEF Next, Write, Tick, Invalidate, InvalidateFails, Begin, database, history, vars

\* Whatever is no longer true was read, cached or not, before it changed.
LEMMA StalenessStep ==
    ASSUME RowInv, TypeOK', TimeInv', StalenessInv, [Next]_vars
    PROVE  StalenessInv'
<1> USE CacheAssumption
<1>1. TypeOK /\ TimeInv
  BY DEF StalenessInv
<1>2. /\ now \in Nat /\ \A e \in Entries : changed[e] \in Nat
      /\ Lag \in Nat /\ TTL \in Nat \ {0}
  BY <1>1 DEF TypeOK, Time
<1>3. ASSUME NEW e \in Entries, entry'[e].keys # Truth(e)'
      PROVE  entry'[e].until <= changed'[e] + Lag + TTL
  <2>1. entry[e].until \in Nat /\ entry[e].until <= now + TTL
    BY <1>1, EntryTyped DEF TimeInv, Deadline
  <2>2. CASE changed'[e] = now /\ entry' = entry
    BY <1>2, <2>1, <2>2
  <2>3. CASE Truth(e)' = Truth(e) /\ changed'[e] = changed[e]
    <3>1. CASE entry'[e] = NoEntry
      BY <1>2, <2>3, <3>1 DEF NoEntry
    <3>2. CASE entry'[e] = entry[e]
      BY <1>3, <2>3, <3>2 DEF StalenessInv
    <3>3. ASSUME NEW c \in Checks, Writing(c, e), Answered(c, e) # Truth(e),
                 entry'[e].until = now + TTL
          PROVE  entry'[e].until <= changed'[e] + Lag + TTL
      <4>1. check[c].at <= changed[e]
        BY <3>3 DEF StalenessInv
      <4>2. check[c].at \in Nat /\ now <= check[c].at + Lag
        BY <1>1, <3>3, CheckTyped DEF TimeInv, Time, Writing
      <4>3. QED
        BY <1>2, <2>3, <3>3, <4>1, <4>2
    <3>4. ASSUME NEW c \in Checks, PutKeys(c), e = check[c].user,
                 entry'[e] = [keys |-> check[c].keys, via |-> check[c].via,
                              gen |-> check[c].gen, until |-> now + TTL]
          PROVE  entry'[e].until <= changed'[e] + Lag + TTL
      <4>1. e # Definitions
        BY <1>1, <3>4 DEF TimeInv, PutKeys
      <4>2. /\ Writing(c, e) /\ Answered(c, e) # Truth(e)
            /\ entry'[e].until = now + TTL
        BY <1>3, <2>3, <3>4, <4>1 DEF Writing, Answered, PutKeys
      <4>3. QED
        BY <3>3, <4>2
    <3>5. ASSUME NEW c \in Checks, PutRoles(c), e = Definitions,
                 entry'[e] = [keys |-> check[c].perms, via |-> NoGrant,
                              gen |-> 0, until |-> now + TTL]
          PROVE  entry'[e].until <= changed'[e] + Lag + TTL
      <4>1. /\ Writing(c, e) /\ Answered(c, e) # Truth(e)
            /\ entry'[e].until = now + TTL
        BY <1>3, <2>3, <3>5 DEF Writing, Answered, PutRoles
      <4>2. QED
        BY <3>3, <4>1
    <3>6. QED
      BY <1>1, <3>1, <3>2, <3>4, <3>5, EntryStep
  <2>4. QED
    BY <1>1, <2>2, <2>3, TruthStep
<1>4. ASSUME NEW c \in Checks, NEW e \in Entries, Answered(c, e)' # Truth(e)'
      PROVE  (/\ Read(c, e) => check[c].at < changed[e] + Lag + TTL
              /\ Writing(c, e) => check[c].at <= changed[e])'
  <2> DEFINE k == check[c]
  <2>1. k.at \in Nat /\ (k.pc # "idle" => k.at <= now)
    BY <1>1, CheckTyped DEF TimeInv, Time
  <2>2. CASE changed'[e] = now /\ check' = check
    BY <1>2, <2>1, <2>2 DEF Read, Writing
  <2>3. CASE Truth(e)' = Truth(e) /\ changed'[e] = changed[e]
    <3>1. CASE check'[c] = k
      <4>1. /\ Answered(c, e)' = Answered(c, e) /\ Read(c, e)' = Read(c, e)
            /\ Writing(c, e)' = Writing(c, e)
        BY <3>1 DEF Answered, Read, Writing
      <4>2. QED
        BY <1>4, <2>3, <3>1, <4>1 DEF StalenessInv
    <3>2. CASE \E u \in Users : Begin(c, u)
      BY <1>1, <3>2 DEF Begin, Fresh, Read, Writing, TypeOK
    <3>3. CASE CheckStep(c)
      <4>1. CASE check'[c] = NoCheck
        BY <4>1 DEF NoCheck, Fresh, Read, Writing
      <4>2. CASE check'[c].at = k.at /\ k.pc # "idle"
        <5>1. CASE Answered(c, e)' = Answered(c, e)
          BY <1>1, <1>2, <1>4, <2>1, <2>3, <3>3, <4>2, <5>1, AnswerStep, EntryTyped
          DEF StalenessInv, Cached, Deadline
        <5>2. ASSUME Answered(c, e)' # Answered(c, e), Read(c, e)'
              PROVE  k.at < changed[e] + Lag + TTL
          <6>1. Answered(c, e)' = entry[e].keys /\ Cached(e)
            BY <1>1, <1>4, <2>3, <3>3, <5>2, AnswerStep
          <6>2. /\ entry[e].until <= changed[e] + Lag + TTL
                /\ entry[e].until \in Nat /\ now < entry[e].until
            BY <1>1, <1>4, <2>3, <6>1, EntryTyped DEF StalenessInv, Cached, Deadline
          <6>3. QED
            BY <1>2, <2>1, <4>2, <6>2
        <5>3. Answered(c, e)' # Answered(c, e) => ~Writing(c, e)'
          BY <1>1, <1>4, <2>3, <3>3, AnswerStep
        <5>4. QED
          BY <2>3, <4>2, <5>1, <5>2, <5>3
      <4>3. QED
        BY <1>1, <3>3, <4>1, <4>2, CheckEffect
    <3>4. QED
      BY <1>1, <3>1, <3>2, <3>3, CheckChange
  <2>4. QED
    BY <1>1, <2>2, <2>3, TruthStep
<1>5. QED
  BY <1>3, <1>4 DEF StalenessInv

-----------------------------------------------------------------------------
(* The theorems                                                             *)

\* The invariant behind RevokedIsDenied holds in the initial state.
LEMMA RevocationInit == Init => RevocationInv
<1> SUFFICES ASSUME Init PROVE RevocationInv
  OBVIOUS
<1> USE CacheAssumption DEF Init
<1>1. TypeOK
  BY TypeInit
<1>2. TimeInv
  BY DEF TimeInv, NoEntry, NoCheck, Fresh
<1>3. RowInv
  <2>1. \A u \in Users : row[u] = NoRow
    OBVIOUS
  <2>2. \A g \in ProjectGrants : grant[g] = "none" /\ counter[g] = NoCounter
    OBVIOUS
  <2>3. \A a \in Admins : todo[a] = Nothing
    OBVIOUS
  <2>4. QED
    BY <2>1, <2>2, <2>3 DEF RowInv, NoRow, NoCounter
<1>4. SourceInv
  <2>1. /\ \A e \in Entries : entry[e] = NoEntry
        /\ \A c \in Checks : check[c].pc = "idle"
    BY DEF NoCheck, Fresh
  <2>2. QED
    BY <2>1 DEF SourceInv, Sourced, NoEntry
<1>5. HistoryInv
  BY DEF HistoryInv
<1>6. GrantInv
  <2>1. /\ \A u \in Users : entry[u].via = NoGrant
        /\ \A c \in Checks : check[c].via = NoGrant
    BY DEF NoCheck, Fresh, Entries, NoEntry
  <2>2. QED
    BY <2>1, Zenon DEF GrantInv
<1>7. ToldInv /\ BarredInv
  BY DEF ToldInv, BarredInv
<1>8. QED
  BY <1>1, <1>2, <1>3, <1>4, <1>5, <1>6, <1>7 DEF RevocationInv

\* And every step preserves it.
LEMMA RevocationStep == RevocationInv /\ [Next]_vars => RevocationInv'
<1> SUFFICES ASSUME RevocationInv, [Next]_vars PROVE RevocationInv'
  OBVIOUS
<1>1. TypeOK /\ TimeInv /\ RowInv /\ SourceInv /\ HistoryInv
  BY DEF RevocationInv
<1>2. TypeOK' /\ TimeInv' /\ RowInv' /\ SourceInv'
  BY <1>1, TypeStep, TimeStep, RowStep, SourceStep
<1>3. HistoryInv'
  BY <1>1, <1>2, HistoryStep
<1>4. ASSUME missed' = "no" PROVE GrantInv' /\ ToldInv' /\ BarredInv'
  <2>1. GrantInv /\ ToldInv /\ BarredInv
    BY <1>1, <1>4, MissedStep DEF RevocationInv
  <2>2. GrantInv'
    BY <1>1, <1>2, <1>4, <2>1, GrantStep
  <2>3. ToldInv'
    BY <1>1, <1>2, <1>4, <2>1, <2>2, ToldStep
  <2>4. BarredInv'
    BY <1>1, <2>1, BarredStep
  <2>5. QED
    BY <2>2, <2>3, <2>4
<1>5. QED
  BY <1>2, <1>3, <1>4 DEF RevocationInv

\* The inductive invariant: entries, checks and counters agree with the rows, or
\* what disagrees is retired, or an invalidation was lost or overtaken.
THEOREM RevocationInvariant == Spec => []RevocationInv
<1>1. QED
  BY RevocationInit, RevocationStep, PTL DEF Spec

\* The state is well typed in every reachable state.
THEOREM TypeCorrect == Spec => []TypeOK
<1>1. RevocationInv => TypeOK
  BY DEF RevocationInv
<1>2. QED
  BY <1>1, RevocationInvariant, PTL

\* Once a revocation has been invalidated, and while no invalidation is lost or
\* overtaken, no check that begins later is answered with what was taken away.
THEOREM RevokedStaysDenied == Spec => []RevokedIsDenied
<1>1. ASSUME RevocationInv, missed = "no", NEW c \in Checks, NEW x \in barred[c],
             Decided(c, x[1]), x[2] \in Answered(c, x[1])
      PROVE  FALSE
  <2>1. check[c].pc = "done" /\ x[1] \in {check[c].user, Definitions}
    BY <1>1 DEF Decided
  <2>2. CASE x[1] = Definitions
    BY <1>1, <2>2 DEF RevocationInv, BarredInv, Answered
  <2>3. CASE x[1] = check[c].user /\ x[1] # Definitions
    BY <1>1, <2>1, <2>3 DEF RevocationInv, BarredInv, Answered
  <2>4. QED
    BY <2>1, <2>2, <2>3
<1>2. RevocationInv => RevokedIsDenied
  BY <1>1 DEF RevokedIsDenied
<1>3. QED
  BY <1>2, RevocationInvariant, PTL

\* The inductive invariant behind StalenessBounded: entries and answers that are
\* no longer true are older than the change.
THEOREM StalenessInvariant == Spec => []StalenessInv
<1>1. Init => StalenessInv
  <2> SUFFICES ASSUME Init PROVE StalenessInv
    OBVIOUS
  <2>1. TypeOK /\ TimeInv
    BY RevocationInit DEF RevocationInv
  <2>2. \A e \in Entries : entry[e].until = 0 /\ changed[e] \in Nat
    BY DEF Init, NoEntry
  <2>3. \A c \in Checks : check[c].pc = "idle"
    BY DEF Init, NoCheck, Fresh
  <2>4. QED
    BY <2>1, <2>2, <2>3, CacheAssumption DEF StalenessInv, Read, Writing
<1>2. RevocationInv /\ RevocationInv' /\ StalenessInv /\ [Next]_vars
        => StalenessInv'
  BY StalenessStep DEF RevocationInv
<1>3. QED
  BY <1>1, <1>2, RevocationInvariant, PTL DEF Spec

\* Whatever is lost, no decision rests on anything that ceased to be true longer
\* ago than one request and one TTL.
THEOREM StalenessIsBounded == Spec => []StalenessBounded
<1>1. ASSUME StalenessInv, NEW c \in Checks, NEW e \in Entries, Decided(c, e),
             changed[e] + Lag + TTL <= check[c].at, Answered(c, e) # Truth(e)
      PROVE  FALSE
  <2>1. Read(c, e)
    BY <1>1 DEF Decided, Read
  <2>2. /\ check[c].at < changed[e] + Lag + TTL
        /\ check[c].at \in Nat /\ changed[e] \in Nat
    BY <1>1, <2>1, CheckTyped DEF StalenessInv, TypeOK, Time
  <2>3. QED
    BY <1>1, <2>2, CacheAssumption
<1>2. StalenessInv => StalenessBounded
  BY <1>1 DEF StalenessBounded
<1>3. QED
  BY <1>2, StalenessInvariant, PTL
=============================================================================
