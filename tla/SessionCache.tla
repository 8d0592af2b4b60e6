---------------------------- MODULE SessionCache ----------------------------
(***************************************************************************)
(* Browser sessions: the authoritative rows in PostgreSQL, the lookup copy *)
(* in Redis, and the tombstones a revocation leaves there                  *)
(* (src/backend/internal/session).  Several service instances share both   *)
(* stores, so every lookup and every revocation is a process whose steps   *)
(* interleave at each round trip to a store.                               *)
(*                                                                         *)
(* Time is a counter; one unit is the longest a request may run (half a    *)
(* minute: the HTTP write timeout), so the cache TTL and the touch         *)
(* interval of one minute are two units.                                   *)
(***************************************************************************)
EXTENDS Naturals, FiniteSets

CONSTANTS
    Sessions,       \* sessions that may come to exist
    Lookups,        \* requests resolving a cookie, at any instance
    Cookie,         \* Cookie[p]: the session whose token request p presents
    Revokers,       \* requests ending sessions, at any instance
    Absolute,       \* the organization's session lifetime, after Sanitize
    MaxAbsolute,    \* MaxAbsoluteLifetime, the ceiling Sanitize clamps to
    Idle,           \* the idle timeout; 0 means no idle bound
    TTL,            \* Cache.TTL
    TouchInterval,  \* touchInterval
    Lag,            \* how long one request may run before it is cut off
    Retain,         \* the janitor's retention of dead rows
    MaxTime         \* bound: where the clock of the model stops

ASSUME DurationsAssumption ==
    /\ Absolute \in Nat \ {0} /\ MaxAbsolute \in Nat /\ Absolute <= MaxAbsolute
    /\ Idle \in Nat /\ TTL \in Nat \ {0} /\ TouchInterval \in Nat
    /\ Cookie \in [Lookups -> Sessions]
    /\ Lag \in Nat /\ Retain \in Nat /\ MaxTime \in Nat

VARIABLES
    now,        \* the clock every instance and both stores read
    row,        \* row[s]: what the sessions table holds for s
    seen,       \* last_seen_at
    expires,    \* expires_at
    revokedAt,  \* revoked_at, meaningful once row[s] = "revoked"
    cacheUntil, \* when the key session:<hash> lapses; 0 if it was never set
    cacheSeen,  \* the LastSeenAt of the cached copy
    tomb,       \* when the key session:revoked:<hash> lapses; 0 if never set
    look,       \* look[p]: the local state of a lookup
    rev,        \* rev[r]: the local state of a revocation
    org,        \* the transaction deleting the organization, while open
    ended,      \* history: sessions some caller was told are ended
    late,       \* history: lookups that began after their session had ended
    lastUse     \* history: when s was last used (created, or served)

rows  == <<row, seen, expires, revokedAt>>
redis == <<cacheUntil, cacheSeen, tomb>>
vars  == <<now, rows, redis, look, rev, org, ended, late, lastUse>>

Time == 0..MaxTime

Deadline == 0..(MaxTime + MaxAbsolute + 1)

AtMost(a, b) == IF a <= b THEN a ELSE b

AtLeast(a, b) == IF a >= b THEN a ELSE b

-----------------------------------------------------------------------------
(* Session, Policy and Cache predicates                                     *)

\* A copy last used at t is past the idle bound for a request made at time at.
ExpiredIdle(t, at) == Idle > 0 /\ at > t + Idle

ExpiredAbsolute(s, at) == at >= expires[s]

\* Recorded activity is old enough to be worth a write.
NeedsTouch(t, at) == at >= t + TouchInterval

\* A GET of the cached copy would find it.
Cached(s) == cacheUntil[s] > now

\* The populate script would find the tombstone and refuse to write.
Tombstoned(s) == tomb[s] > now

\* What a lookup of s can be answered from: a row session_by_token_hash
\* returns to a request made at time at.
RowLive(s, at) == row[s] = "live" /\ expires[s] > at

\* Rows the deletion of the organization has updated and not yet committed.
Locked(s) == s \in org.hit

-----------------------------------------------------------------------------
(* Types and the initial state                                              *)

NoLookup == [pc |-> "idle", verdict |-> "none", at |-> 0, seen |-> 0]

LookupState ==
    [pc      : {"idle", "get", "read", "put", "touch"},
     verdict : {"none", "served", "idle", "refused", "error"},
     at      : Time,
     seen    : Time]

NoRevocation == [pc |-> "idle", hit |-> {}, todo |-> {}, until |-> 0,
                 failed |-> {}]

RevocationState ==
    [pc     : {"idle", "invalidating", "nothing"},
     hit    : SUBSET Sessions,
     todo   : SUBSET Sessions,
     until  : Deadline,
     failed : SUBSET Sessions]

NoOrg == [hit |-> {}, todo |-> {}, until |-> 0]

OrgState == [hit : SUBSET Sessions, todo : SUBSET Sessions, until : Deadline]

TypeOK ==
    /\ now \in Time
    /\ row \in [Sessions -> {"none", "live", "revoked", "gone"}]
    /\ seen \in [Sessions -> Time]
    /\ expires \in [Sessions -> Deadline]
    /\ revokedAt \in [Sessions -> Time]
    /\ cacheUntil \in [Sessions -> Deadline]
    /\ cacheSeen \in [Sessions -> Time]
    /\ tomb \in [Sessions -> Deadline]
    /\ look \in [Lookups -> LookupState]
    /\ rev \in [Revokers -> RevocationState]
    /\ org \in OrgState
    /\ ended \in SUBSET Sessions
    /\ late \in SUBSET Lookups
    /\ lastUse \in [Sessions -> Time]

Init ==
    /\ now = 0
    /\ row = [s \in Sessions |-> "none"]
    /\ seen = [s \in Sessions |-> 0]
    /\ expires = [s \in Sessions |-> 0]
    /\ revokedAt = [s \in Sessions |-> 0]
    /\ cacheUntil = [s \in Sessions |-> 0]
    /\ cacheSeen = [s \in Sessions |-> 0]
    /\ tomb = [s \in Sessions |-> 0]
    /\ look = [p \in Lookups |-> NoLookup]
    /\ rev = [r \in Revokers |-> NoRevocation]
    /\ org = NoOrg
    /\ ended = {}
    /\ late = {}
    /\ lastUse = [s \in Sessions |-> 0]

-----------------------------------------------------------------------------
(* Creation and the clock                                                   *)

\* Store.Create: the row and its audit event commit together; nothing is
\* cached here.
Create(s) ==
    /\ row[s] = "none"
    /\ row' = [row EXCEPT ![s] = "live"]
    /\ seen' = [seen EXCEPT ![s] = now]
    /\ expires' = [expires EXCEPT ![s] = now + Absolute]
    /\ lastUse' = [lastUse EXCEPT ![s] = now]
    /\ UNCHANGED <<now, revokedAt, redis, look, rev, org, ended, late>>

\* A request that has run for Lag units is cut off before the clock moves on
\* (the write timeout cancels its context).
Tick ==
    /\ now < MaxTime
    /\ \A p \in Lookups : look[p].pc # "idle" => now < look[p].at + Lag
    /\ now' = now + 1
    /\ UNCHANGED <<rows, redis, look, rev, org, ended, late, lastUse>>

-----------------------------------------------------------------------------
(* Manager.Lookup, one action per round trip                                *)

\* The lookup's next step, holding the last_seen_at it has read.
Go(p, pc, t) ==
    look' = [look EXCEPT ![p] = [pc |-> pc, verdict |-> "none",
                                 at |-> look[p].at, seen |-> t]]

Answer(p, v) ==
    look' = [look EXCEPT ![p] = [pc |-> "idle", verdict |-> v,
                                 at |-> look[p].at, seen |-> 0]]

\* A request that did any work with the session counts as a use of it.
Used(p) == lastUse' = [lastUse EXCEPT ![Cookie[p]] =
                           AtLeast(lastUse[Cookie[p]], look[p].at)]

\* The request arrives; its clock is read once and used throughout.
LookupBegin(p) ==
    /\ look[p].pc = "idle"
    /\ row[Cookie[p]] # "none"
    /\ look' = [look EXCEPT ![p] = [pc |-> "get", verdict |-> "none",
                                    at |-> now, seen |-> 0]]
    /\ late' = IF Cookie[p] \in ended THEN late \cup {p} ELSE late \ {p}
    /\ UNCHANGED <<now, rows, redis, rev, org, ended, lastUse>>

\* Cache.Get hits: the copy is judged by Session.Live with the time of the
\* request, and the database is touched only if the copy looks stale.
LookupHit(p) ==
    LET s == Cookie[p]
    IN  /\ look[p].pc = "get"
        /\ Cached(s)
        /\ \/ /\ ExpiredAbsolute(s, look[p].at)
              /\ Answer(p, "refused")
              /\ UNCHANGED lastUse
           \/ /\ ~ExpiredAbsolute(s, look[p].at)
              /\ ExpiredIdle(cacheSeen[s], look[p].at)
              /\ Answer(p, "idle")
              /\ UNCHANGED lastUse
           \/ /\ ~ExpiredAbsolute(s, look[p].at)
              /\ ~ExpiredIdle(cacheSeen[s], look[p].at)
              /\ IF NeedsTouch(cacheSeen[s], look[p].at)
                 THEN Go(p, "touch", 0)
                 ELSE Answer(p, "served")
              /\ Used(p)
        /\ UNCHANGED <<now, rows, redis, rev, org, ended, late>>

\* Cache.Get misses: no key, or Redis did not answer.  Both are a miss.
LookupMiss(p) ==
    /\ look[p].pc = "get"
    /\ Go(p, "read", 0)
    /\ UNCHANGED <<now, rows, redis, rev, org, ended, late, lastUse>>

\* Seeded fault: only the cached copy is held to the idle bound.
LookupReadNoIdle(p) ==
    LET s == Cookie[p]
    IN  /\ look[p].pc = "read"
        /\ IF RowLive(s, look[p].at)
           THEN Go(p, "put", seen[s]) /\ Used(p)
           ELSE Answer(p, "refused") /\ UNCHANGED lastUse
        /\ UNCHANGED <<now, rows, redis, rev, org, ended, late>>

\* Store.LookupByTokenHash, then the idle bound.
LookupRead(p) ==
    LET s == Cookie[p]
    IN  /\ look[p].pc = "read"
        /\ \/ /\ ~RowLive(s, look[p].at)
              /\ Answer(p, "refused")
              /\ UNCHANGED lastUse
           \/ /\ RowLive(s, look[p].at)
              /\ ExpiredIdle(seen[s], look[p].at)
              /\ Answer(p, "idle")
              /\ UNCHANGED lastUse
           \/ /\ RowLive(s, look[p].at)
              /\ ~ExpiredIdle(seen[s], look[p].at)
              /\ Go(p, "put", seen[s])
              /\ Used(p)
        /\ UNCHANGED <<now, rows, redis, rev, org, ended, late>>

\* The database does not answer, or the request has been cut off.
LookupReadFails(p) ==
    /\ look[p].pc = "read"
    /\ Answer(p, "error")
    /\ UNCHANGED <<now, rows, redis, rev, org, ended, late, lastUse>>

\* Seeded fault: a plain SET, which does not ask for the tombstone.
PopulateBlindly(s, copySeen) ==
    /\ cacheUntil' = [cacheUntil EXCEPT ![s] = AtMost(now + TTL, expires[s])]
    /\ cacheSeen' = [cacheSeen EXCEPT ![s] = copySeen]
    /\ UNCHANGED tomb

\* Seeded fault: the copy lives as long as the session.
PopulateUncapped(s, copySeen) ==
    IF ~Tombstoned(s) /\ expires[s] > now
    THEN /\ cacheUntil' = [cacheUntil EXCEPT ![s] = expires[s]]
         /\ cacheSeen' = [cacheSeen EXCEPT ![s] = copySeen]
         /\ UNCHANGED tomb
    ELSE UNCHANGED redis

\* The script populate: refused by a tombstone, and never past the session's
\* own expiry.
Populate(s, copySeen) ==
    IF ~Tombstoned(s) /\ expires[s] > now
    THEN /\ cacheUntil' = [cacheUntil EXCEPT ![s] = AtMost(now + TTL, expires[s])]
         /\ cacheSeen' = [cacheSeen EXCEPT ![s] = copySeen]
         /\ UNCHANGED tomb
    ELSE UNCHANGED redis

\* Seeded fault: a Put that fails starts the lookup again.
LookupPutRetries(p) ==
    LET stale == NeedsTouch(look[p].seen, look[p].at)
    IN  /\ look[p].pc = "put"
        /\ \/ /\ Populate(Cookie[p], IF stale THEN look[p].at ELSE look[p].seen)
              /\ IF stale THEN Go(p, "touch", 0) ELSE Answer(p, "served")
           \/ UNCHANGED redis /\ Go(p, "get", 0)
        /\ UNCHANGED <<now, rows, rev, org, ended, late, lastUse>>

\* Cache.Put of the copy that carries the activity this lookup will record;
\* a Redis that does not answer costs the copy and nothing else.
LookupPut(p) ==
    LET stale == NeedsTouch(look[p].seen, look[p].at)
    IN  /\ look[p].pc = "put"
        /\ \/ Populate(Cookie[p], IF stale THEN look[p].at ELSE look[p].seen)
           \/ UNCHANGED redis
        /\ IF stale THEN Go(p, "touch", 0) ELSE Answer(p, "served")
        /\ UNCHANGED <<now, rows, rev, org, ended, late, lastUse>>

\* Manager.touch: an unconditional UPDATE of the row, if it is still there.
\* The write waits for a transaction that holds the row.
LookupTouch(p) ==
    LET s == Cookie[p]
    IN  /\ look[p].pc = "touch"
        /\ ~Locked(s)
        /\ seen' = IF row[s] = "gone" THEN seen
                   ELSE [seen EXCEPT ![s] = look[p].at]
        /\ Answer(p, "served")
        /\ UNCHANGED <<now, row, expires, revokedAt, redis, rev, org, ended,
                       late, lastUse>>

\* The touch fails, which is logged and nothing else: the session is served.
LookupTouchFails(p) ==
    /\ look[p].pc = "touch"
    /\ Answer(p, "served")
    /\ UNCHANGED <<now, rows, redis, rev, org, ended, late, lastUse>>

LookupStep(p) ==
    \/ LookupHit(p) \/ LookupMiss(p)
    \/ LookupRead(p) \/ LookupReadFails(p)
    \/ LookupPut(p) \/ LookupTouch(p) \/ LookupTouchFails(p)

-----------------------------------------------------------------------------
(* Revocation: commit first, then invalidate                                *)

\* The one database transaction of Revoke, RevokeOwned, RevokeAllForUser and
\* RevokeOthers: the rows in hit are marked revoked and committed, and the
\* request goes on to invalidate them one by one.
CommitRevocation(r, hit, until) ==
    /\ row' = [s \in Sessions |-> IF s \in hit THEN "revoked" ELSE row[s]]
    /\ revokedAt' = [s \in Sessions |-> IF s \in hit THEN now ELSE revokedAt[s]]
    /\ rev' = [rev EXCEPT ![r] = [pc |-> "invalidating", hit |-> hit,
                                  todo |-> hit, until |-> until,
                                  failed |-> {}]]

\* Nothing matched: the caller is answered at once, with nothing to invalidate.
FindNothing(r, asked) ==
    rev' = [rev EXCEPT ![r] = [pc |-> "nothing", hit |-> asked, todo |-> {},
                               until |-> 0, failed |-> {}]]

\* Manager.Revoke (logout) ends a live row whatever its expiry; the tombstone
\* lasts until the session would have expired.
RevokeOne(r, s) ==
    /\ rev[r].pc = "idle"
    /\ row[s] # "none" /\ ~Locked(s)
    /\ \/ /\ row[s] = "live"
          /\ CommitRevocation(r, {s}, expires[s])
       \/ /\ row[s] # "live"
          /\ FindNothing(r, {s})
          /\ UNCHANGED <<row, revokedAt>>
    /\ UNCHANGED <<now, seen, expires, redis, look, org, ended, late, lastUse>>

\* Manager.RevokeOwned (the sessions screen) leaves an expired session alone.
RevokeOwned(r, s) ==
    /\ rev[r].pc = "idle"
    /\ row[s] # "none" /\ ~Locked(s)
    /\ \/ /\ RowLive(s, now)
          /\ CommitRevocation(r, {s}, expires[s])
       \/ /\ ~RowLive(s, now)
          /\ FindNothing(r, {s})
          /\ UNCHANGED <<row, revokedAt>>
    /\ UNCHANGED <<now, seen, expires, redis, look, org, ended, late, lastUse>>

\* RevokeAllForUser, and RevokeOthers which keeps one: a far tombstone for
\* every session that was ended.
RevokeMany(r, keep) ==
    LET hit == {s \in Sessions \ keep : RowLive(s, now)}
    IN  /\ rev[r].pc = "idle"
        /\ \A s \in hit : ~Locked(s)
        /\ hit # {}
        /\ CommitRevocation(r, hit, now + MaxAbsolute)
        /\ UNCHANGED <<now, seen, expires, redis, look, org, ended, late, lastUse>>

\* DEL of the copy and SET of the tombstone, in one MULTI/EXEC.
Tombstone(s, until) ==
    /\ cacheUntil' = [cacheUntil EXCEPT ![s] = 0]
    /\ tomb' = [tomb EXCEPT ![s] = AtLeast(until, now + 1)]
    /\ UNCHANGED cacheSeen

Invalidated(r, s, lost) ==
    /\ rev[r].pc = "invalidating" /\ s \in rev[r].todo
    /\ rev' = [rev EXCEPT ![r] = [pc |-> "invalidating", hit |-> rev[r].hit,
                                  todo |-> rev[r].todo \ {s},
                                  until |-> rev[r].until,
                                  failed |-> rev[r].failed \cup lost]]
    /\ UNCHANGED <<now, rows, look, org, ended, late, lastUse>>

\* Cache.Invalidate of one of the sessions.
Invalidate(r, s) == Invalidated(r, s, {}) /\ Tombstone(s, rev[r].until)

\* Redis answers with an error, or the reply to what it did is lost.
InvalidateFails(r, s) ==
    /\ Invalidated(r, s, {s})
    /\ Tombstone(s, rev[r].until) \/ UNCHANGED redis

\* Seeded fault: an invalidation that failed is logged and not reported.
RevokeReturnAnyway(r) ==
    /\ rev[r].pc # "idle"
    /\ rev[r].todo = {}
    /\ rev' = [rev EXCEPT ![r] = NoRevocation]
    /\ ended' = IF rev[r].pc = "invalidating"
                THEN ended \cup rev[r].hit ELSE ended
    /\ UNCHANGED <<now, rows, redis, look, org, late, lastUse>>

\* The caller is answered: ended, or an error because an invalidation failed.
RevokeReturn(r) ==
    /\ rev[r].pc # "idle"
    /\ rev[r].todo = {}
    /\ rev' = [rev EXCEPT ![r] = NoRevocation]
    /\ ended' = IF rev[r].pc = "invalidating" /\ rev[r].failed = {}
                THEN ended \cup rev[r].hit ELSE ended
    /\ UNCHANGED <<now, rows, redis, look, org, late, lastUse>>

\* The instance stops between the commit and the end of the invalidations.
RevokerCrash(r) ==
    /\ rev[r].pc = "invalidating"
    /\ rev' = [rev EXCEPT ![r] = NoRevocation]
    /\ UNCHANGED <<now, rows, redis, look, org, ended, late, lastUse>>

-----------------------------------------------------------------------------
(* Deleting an organization: invalidate inside the transaction              *)

\* RevokeOrganization updates every live row; nothing is committed yet, so
\* readers still see the rows live while writers of them wait.
OrgBegin ==
    LET hit == {s \in Sessions : RowLive(s, now)}
    IN  /\ org = NoOrg
        /\ hit # {}
        /\ org' = [hit |-> hit, todo |-> hit, until |-> now + MaxAbsolute]
        /\ UNCHANGED <<now, rows, redis, look, rev, ended, late, lastUse>>

OrgInvalidate ==
    /\ \E s \in org.todo :
          /\ Tombstone(s, org.until)
          /\ org' = [hit |-> org.hit, todo |-> org.todo \ {s},
                     until |-> org.until]
    /\ UNCHANGED <<now, rows, look, rev, ended, late, lastUse>>

\* SoftDelete and the audit event follow, and the transaction commits.
OrgCommit ==
    /\ org # NoOrg /\ org.todo = {}
    /\ row' = [s \in Sessions |-> IF s \in org.hit THEN "revoked" ELSE row[s]]
    /\ revokedAt' = [s \in Sessions |->
                        IF s \in org.hit THEN now ELSE revokedAt[s]]
    /\ ended' = ended \cup org.hit
    /\ org' = NoOrg
    /\ UNCHANGED <<now, seen, expires, redis, look, rev, late, lastUse>>

\* An invalidation, SoftDelete, the audit write or the commit fails, or the
\* instance stops: WithTenant rolls the whole transaction back.
OrgRollback ==
    /\ org # NoOrg
    /\ org' = NoOrg
    /\ UNCHANGED <<now, rows, redis, look, rev, ended, late, lastUse>>

\* sweep_expired_sessions: the row is deleted once it has been dead for longer
\* than the retention.
Sweep(s) ==
    /\ ~Locked(s)
    /\ \/ row[s] = "live" /\ now > expires[s] + Retain
       \/ row[s] = "revoked" /\ now > AtMost(expires[s], revokedAt[s]) + Retain
    /\ row' = [row EXCEPT ![s] = "gone"]
    /\ UNCHANGED <<now, seen, expires, revokedAt, redis, look, rev, org, ended,
                   late, lastUse>>

-----------------------------------------------------------------------------
RevokerStep(r) ==
    \/ \E s \in Sessions : Invalidate(r, s) \/ InvalidateFails(r, s)
    \/ RevokeReturn(r)

OrgStep == OrgInvalidate \/ OrgCommit \/ OrgRollback

Next ==
    \/ Tick
    \/ \E s \in Sessions : Create(s) \/ Sweep(s)
    \/ \E p \in Lookups : LookupBegin(p) \/ LookupStep(p)
    \/ \E r \in Revokers, s \in Sessions : RevokeOne(r, s) \/ RevokeOwned(r, s)
    \/ \E r \in Revokers, keep \in {{}} \cup {{s} : s \in Sessions} :
          RevokeMany(r, keep)
    \/ \E r \in Revokers : RevokerStep(r) \/ RevokerCrash(r)
    \/ OrgBegin \/ OrgStep

Spec == Init /\ [][Next]_vars

\* Requests run to their end, and an open transaction is committed or rolled
\* back: the Go scheduler runs every goroutine and PostgreSQL ends a
\* transaction whose connection is lost.  Nobody is obliged to make a request.
Fairness ==
    /\ \A p \in Lookups : WF_vars(LookupStep(p))
    /\ \A r \in Revokers : WF_vars(RevokerStep(r))
    /\ WF_vars(OrgStep)

FairSpec == Spec /\ Fairness

-----------------------------------------------------------------------------
(* Properties                                                               *)

\* A revocation is effective on the next request: once a caller has been told
\* that a session is ended (the invalidation is done and acknowledged, or the
\* organization's deletion has committed), no lookup that begins afterwards is
\* served it.  At stake are a reader that holds a live snapshot across the
\* revocation and populates the cache late, and the deletion of an
\* organization, which invalidates before it commits.
RevocationIsImmediate ==
    \A p \in Lookups : look[p].verdict = "served" => p \notin late

\* When the invalidation failed or the instance stopped before it, the TTL is
\* the backstop: a revoked session is served from the cache no longer than one
\* request plus one TTL after the revocation committed.
StalenessBounded ==
    \A s \in Sessions :
       row[s] \in {"revoked", "gone"} /\ Cached(s) =>
          now < AtMost(expires[s], revokedAt[s] + Lag + TTL)

\* Idle is over: a session unused for longer than the idle timeout is never
\* served again, although its recorded activity is written rarely, late and out
\* of order, and is served from copies made before.
IdleIsFinal ==
    [][\A s \in Sessions :
          row[s] # "none" /\ lastUse'[s] # lastUse[s] /\ Idle > 0 =>
             lastUse'[s] <= lastUse[s] + Idle]_lastUse

\* Nothing can be served from the cache, now or later: there is no copy, and
\* the tombstone lasts until nothing could be populated anyway.
Sealed(s) == ~Cached(s) /\ tomb[s] >= expires[s]

Dead(s) == row[s] \in {"revoked", "gone"}

\* What a session ended for good looks like, in every store.
EndedInv == \A s \in ended : Dead(s) /\ Sealed(s)

\* A revocation under way has committed, and has sealed what it is done with.
RevokerInv ==
    \A r \in Revokers : rev[r].pc = "invalidating" =>
       \A s \in rev[r].hit :
          /\ Dead(s)
          /\ s \in rev[r].todo => rev[r].until >= expires[s]
          /\ s \notin rev[r].todo \cup rev[r].failed => Sealed(s)

\* An open deletion has committed nothing, and has sealed what it is done with.
OrgInv ==
    \A s \in org.hit :
       /\ row[s] # "none"
       /\ s \in org.todo => org.until >= expires[s]
       /\ s \notin org.todo => Sealed(s)

\* A tombstone set for MaxAbsoluteLifetime outlasts every session there is.
ExpiryInv == \A s \in Sessions : row[s] # "none" => expires[s] <= now + MaxAbsolute

\* A lookup that began too late has nothing to be served from.
LateInv ==
    \A p \in late : /\ Cookie[p] \in ended
                    /\ look[p].pc \notin {"put", "touch"}
                    /\ look[p].verdict # "served"

\* Requests in progress have not been answered, and the work left to a
\* revocation or a deletion is part of what it set out to do.
ProgressInv ==
    /\ \A p \in Lookups : look[p].pc # "idle" => look[p].verdict = "none"
    /\ org.todo \subseteq org.hit
    /\ \A r \in Revokers : rev[r].todo \subseteq rev[r].hit

\* The inductive invariant behind RevocationIsImmediate: from the moment a
\* revocation is acknowledged the tombstone, and not the absence of a copy, is
\* what keeps every reader still holding a live snapshot from reviving it.
RevocationInv ==
    /\ TypeOK /\ ProgressInv /\ ExpiryInv
    /\ EndedInv /\ RevokerInv /\ OrgInv /\ LateInv

\* A request runs for Lag units at most, for a session that exists; a session
\* that does not exist yet has no copy.
AgeInv ==
    /\ \A p \in Lookups : look[p].pc # "idle" =>
          /\ row[Cookie[p]] # "none"
          /\ look[p].at <= now /\ now <= look[p].at + Lag
    /\ \A s \in Sessions : row[s] = "none" => cacheUntil[s] = 0

\* Unless the session would have expired by now anyway, whoever is about to
\* populate the cache with a dead session read it before it died, and what
\* was populated lapses one TTL after the last of them is cut off.
CopyInv ==
    /\ \A s \in Sessions :
          cacheUntil[s] <= expires[s] /\ cacheUntil[s] <= now + TTL
    /\ \A p \in Lookups : LET s == Cookie[p] IN
          look[p].pc = "put" /\ Dead(s) /\ now <= expires[s] =>
             look[p].at <= revokedAt[s]
    /\ \A s \in Sessions : Dead(s) /\ now <= expires[s] =>
          cacheUntil[s] <= revokedAt[s] + Lag + TTL

\* The inductive invariant behind StalenessBounded.
StaleInv == TypeOK /\ AgeInv /\ CopyInv

\* No record of activity, in the row, in the copy or in a request about to
\* write either, is ahead of the last use there was.
ActivityInv ==
    /\ \A s \in Sessions :
          lastUse[s] <= now /\ seen[s] <= lastUse[s] /\ cacheSeen[s] <= lastUse[s]
    /\ \A p \in Lookups : look[p].pc \in {"put", "touch"} =>
          /\ look[p].at <= lastUse[Cookie[p]]
          /\ look[p].seen <= lastUse[Cookie[p]]

\* The inductive invariant behind IdleIsFinal.
IdleInv == TypeOK /\ AgeInv /\ ActivityInv

-----------------------------------------------------------------------------
(* The refinement                                                           *)

Authority == INSTANCE SessionAuthority WITH
    ended  <- ended,
    asked  <- [p \in Lookups |-> IF look[p].pc = "idle" THEN "none"
                                 ELSE IF p \in late THEN "ended" ELSE "open"],
    answer <- [p \in Lookups |->
                 IF look[p].verdict \in {"none", "served"} THEN look[p].verdict
                 ELSE "denied"]

\* The cache, the tombstones and the interleaving of every step with every
\* other implement the simple promise: ended is ended at once and for good.
ImplementsAuthority == Authority!Spec

\* Every lookup is answered, whatever Redis does and however long another
\* transaction holds the row its touch waits for.
ImplementsFairAuthority == Authority!FairSpec
=============================================================================
