# Zed Auth in TLA+

Zed Auth is an identity provider: a Go service (`src/backend`) run as several
instances over one PostgreSQL database and one Redis, with a React console and
a documentation site around it. This directory holds TLA+ models of the parts
of it that are hard to get right and hard to test, TLC configurations that
check them on small instances, and proofs, checked by TLAPS, that the most
important properties hold for every number of users, requests, sessions, keys
and tokens and every choice of lifetimes.

All paths below are relative to `src/backend/internal` unless they begin with
`backend/`, `deploy/`, `docs/` or `public-site/`.

## The system

| Component | Keeps | Does | Hard behaviour | Correct when | Module |
|---|---|---|---|---|---|
| `session`, `sessionapi` | `sessions` rows; Redis copies `session:<hash>` and tombstones `session:revoked:<hash>` | create, look up, touch, revoke one / owned / all / all others / an organization's, sweep | a cache filled from a read made before a revocation; invalidation after commit and before it; lost invalidation | an answered revocation is immediate and final; a lost one is bounded by the TTL | `SessionAuthority`, `SessionCache` |
| `oauth/token` | `refresh_tokens` rows, linked into families | issue, rotate, detect reuse, kill a family, revoke, introspect | every statement of a request is a step of its own; retries in a grace window look like reuse | one heir per token; dead tokens mint nothing; honest clients are not signed out | `RefreshTokens` |
| `management` (idempotency) | `idempotency_records` rows | claim, replay, reclaim, complete, release, sweep | two requests with one key, a crash between claim and answer, expiry | one handler runs per key; recorded answers are not rerun; keys are freed | `Idempotency` |
| `authz`, `grantsql` | Redis entries `authz:grants:*`, `authz:roles:*`, counters `authz:grantgen:*` | answer `/v1/authz/check` | stale reads written after an invalidation; a counter that must outlive what was stamped with it | what was taken away is denied; staleness is bounded | `AuthzCache` |
| `grant`, `role`, `projectgrant` | `user_grants`, `roles`, `project_grants` rows | give, replace and take away role keys, directly and by delegation | checks and writes are statements of READ COMMITTED transactions; three handlers and two triggers write one table | delegated roles stay within their project grant, and are written only while it is active | `RoleTables`, `Delegation`; decisions in `AuthzCache` |
| `organization` | `organizations` rows and settings | create, update, delete | deletion revokes sessions inside its transaction; a mandate changes under logins | all or nothing | parts of `SessionCache`, `CodeFlow`, `Delegation` |
| `mfa`, `mfaapi` | challenges and attempt windows in Redis; `user_mfa_factors`, `user_recovery_codes` | raise and answer a challenge, enrol, remove, recover, reset | concurrent answers to one challenge or with one code; a count read before and written after the verification; an old copy written back | guesses are bounded; a code is accepted once; a challenge that is gone stays gone | `MfaChallenge` |
| `user`, `account`, links of `login` | `users`, `user_tokens` rows | invite, reset, report a strange sign-in, change a password, deactivate, reactivate | logins, links and rehashes that read the account before an eviction and act after it | who was shut out is out; a link sets one password; a deactivated account stays so | `AccountAccess` |
| `oauth/authorize`, `login`, `oauth/client` | codes, pending requests, challenges and enrolments in Redis | authorize, log in, resume, issue and redeem a code | tabs that finish one request at once; a session, a factor or the mandate that changes on the way | one code and one exchange; from a current session; of a user who meets the mandate | `CodeGrant`, `CodeFlow` |
| `signing`, `backend/cmd/keyctl` | `signing_keys` rows, private key files, a key set cached per instance | generate, rotate, roll back, retire, sign, verify, publish | instances and consumers with key sets of different ages; loads that fail | what was signed verifies everywhere for as long as it lives | `SigningKeys` |
| `ratelimit` | counters in Redis | bound failed passwords | load and save are separate calls; every call may fail | a cooldown ends, and is not given up early | `LoginLimiter` |
| `saml`, `samlapi` | `saml_authn_requests`, `saml_service_providers` rows | single sign-on for SAML providers | two tabs finish one login; the registration is removed and made again | each filed request is answered once, for whom it was filed, from a session that fits | `SamlSignOn` |
| `maintenance`, `backend/cmd/authservice` | nothing of its own | sweeps expired rows | deletes what other requests still rely on | deletes nothing live | the sweeps of each module |
| `anomaly`, `audit`, `auditlog`, `mail`, `observability`, `httpserver`, `oidc`, `oauth/userinfo`, `project`, `config`, `storage/postgres`, generated `api` | | | stateless, append-only, or pure I/O | | |

Components share the database, one transaction per request as a rule
(`storage/postgres`), and Redis, where nothing is transactional but a script.
Calls to Redis are never inside what a rollback undoes; that is where most of
the interesting interleavings are. A request is cut off after half a minute
(`httpserver/middleware.go`, `Timeout`, configured from the write timeout), and
that bound, `Lag` in the models that have a clock, is what the proofs about
lateness rest on. Row-level security keeps each query to one tenant; each model
takes that as given.

How the models meet: a login of `CodeFlow` passes the limiter
(`LoginLimiter`), waits for an answer to a challenge (`MfaChallenge`) and opens
a session (`SessionCache`); its code is redeemed for the first token of a
family (`RefreshTokens`). `AccountAccess` follows the same login from the side
of the account, and `SamlSignOn` ends it in an assertion instead of a code.
`Delegation` writes the rows that `AuthzCache` caches. The models are separate
because each has a state space of its own to exhaust; where one needs another,
it takes what the other promises (a session is live or ended, an answer to a
challenge is right or not).

## Modules

Each component has a module with its state, one action per statement or round
trip, and its properties; an `MC` module with the definitions its configuration
needs; and theorems in a `Proofs` module: its own, or one for two components
that serve one purpose. `ManagementProofs` extends `Idempotency` and
`Delegation`, `AccountProofs` `AccountAccess` and `LoginLimiter`,
`SigningProofs` `SigningKeys` and `SamlSignOn`. So that the two can be extended
together, the second has names of its own for its specification
(`DelegationSpec`, `LimiterSpec`, `SignOnSpec`). Properties come last in a
module and are stated in a comment above them. Mutations of an action (commented
`Seeded fault: ...` or `Mutant of ...`, or described as the code "as it would
be") stand beside the action they mutate: each is a bug the code could have, and
each property has one that breaks it.

### SessionAuthority, SessionCache

`SessionAuthority` is what session management promises: a set `ended` that only
grows, requests that ask and are answered, and no answer *served* for a session
that had been ended when the request asked. `SessionCache` is the code:

- `row`, `seen`, `expires`, `revokedAt` are the row; `cacheUntil`, `cacheSeen`
  the Redis copy; `tomb` the tombstone. `look[p]` is the progress of a request
  at `Manager.Lookup`, `rev[r]` of one at `Manager.Revoke*`, `org` the open
  transaction of `DeleteOrganization`.
- A lookup is `LookupBegin`, then `LookupHit` or `LookupMiss`, `LookupRead`,
  `LookupPut` (the script `populate`, which refuses where there is a
  tombstone), `LookupTouch`; each may fail where the code goes on without it.
- A revocation commits (`RevokeOne`, `RevokeOwned`, `RevokeMany`), then leaves a
  tombstone and deletes the copy, session by session (`Invalidate`, or
  `InvalidateFails`), then answers (`RevokeReturn`) or dies (`RevokerCrash`).
- The deletion of an organization does it the other way round: `OrgInvalidate`
  before `OrgCommit` or `OrgRollback`.

History variables: `ended` (what some caller was told has ended), `late`
(lookups that began after that), `lastUse`.

### RefreshTokens

One family of one client and one session. `next`, `parent`, `revoked`,
`famExpires`, `expires` are columns; `rows` the rows that exist. `ask[q]` is
what request `q` presented and how things stood then (history), `req[q]` its
progress: `Present`, `DetectReuse` (lineage), `KillFamily`, `Lookup`,
`CheckSession`, `Rotate`, one database statement or function each.
`RefuseOtherwise` stands for every refusal that changes nothing: a client
mismatch, a policy, a scope, a database error. The revocation endpoint
(`Resolve`, `Destroy`), logout, `EndSessionAndTokens` and both sweeps race with
them. The client is external: until `Leak` it holds one token and tries again
only within the grace period and only after an attempt that brought no answer;
after `Leak` anybody presents anything. A client that sends a second copy of a
request it had an answer to is outside that assumption, and can be mistaken for
a thief.

`session = "gone"` is both the missing row and the null `session_id`: the
foreign key sets the one when the other happens. A kill whose snapshot misses a
successor that is being inserted is the same as the kill before the rotation.

### Idempotency

One key of one caller. `status`, `hash`, `until`, `answer` are the record;
`req[q]` the progress of a request through `Idempotency.Wrap`: `Claim` (the
`INSERT ... ON CONFLICT DO NOTHING`), `Read`, `Reclaim` (the `UPDATE` of an
expired record), `Handle`, `Complete`, `Release`, each with its failures,
heard and unheard. The sweep is two steps, `SweepScan` and `SweepDelete`: its
rows are chosen and then deleted by key. `stray` records that two requests met
on an expired record, or the sweep deleted one that had just been reclaimed;
what the code says of that is among the claims below that do not hold.

### AuthzCache

Checks in one project. `row[u]` is the `user_grants` row of a user,
`grant[g]` the status of a project grant to the partner organization, and
`carries` the roles whose definition carries the permission asked about. A
missing row is one with no keys: keys in a row are validated to be non-empty.
`entry[e]` is the Redis entry of a user, or of the definitions; `counter[g]`
the generation of a grant. A check goes through `GetKeys`, `GetGeneration`,
`GetRoles`, `ReadKeys`, `Stamp`, `PutKeys`, `ReadRoles`, `PutRoles`, `Reply`:
one action per round trip, and each Redis call may go unanswered. A write by an
administrator commits (`GrantRoles`, `ReplaceGrant`, `RevokeGrant`,
`ChangeRole`, `RevokeProjectGrant`) and invalidates later (`Invalidate`), or
never (`InvalidateFails`); the delegated writes, and the creation of a project
grant, do not invalidate at all (`Uncached`).

History: `changed[e]` (when the truth about `e` last changed), `told` (what has
been taken away, with the invalidation done), `barred[c]` (`told` when check
`c` began, less what has been given back), `missed` (an invalidation was lost,
or overtaken by a check that had read before the change and wrote after the
invalidation). A `DEL` or `INCR` that Redis carries out but nobody hears of is
`Invalidate`. A restart of Redis that loses counters and keeps entries is not
modelled.

### MfaChallenge

The second factors of one user. `challenge[h]` is what Redis holds, or is about
to hold, under handle `h`, `stored` the keys that have not been deleted (`Live`
adds the expiry); `count[w]` the counter of a window of guesses; `factor[f]`
and `last[f]` the status and the `last_used_counter` of a TOTP row; `unspent`
the recovery codes with `used_at` null. `req[q]` is the progress of a request.

- `Require` reads the factors and `Put` stores the challenge.
- `AnswerType`, `AnswerRecovery` and `AnswerWebAuthn` read the challenge, and
  go on alike: `Permit` (`Allowed`), the verification, and either `Consume` or
  `Fail`, `Replace` and perhaps `Discard`. `Confirm` takes the same way for a
  pending enrolment, without a challenge, and its clock is read once, where an
  answer reads it at `Permit` and again at `Fail`.
- A TOTP code is verified in two steps of one transaction, the read of the
  secret (`CheckTotp`) and the conditional update (`SpendTotp`); a recovery
  code in one update (`SpendCode`), which waits for a `DELETE` that has locked
  its row; a passkey verifies or does not (`CheckPasskey`).
- Issuing recovery codes is `DeleteCodes`, which takes the rows it can see, and
  `InsertCodes` with the commit. `Begin`, `RemoveTotp` and `Reset` are single
  transactions.

A code of the model is the TOTP step it belongs to, so that "the same code
twice" can be said; a code of no step is 0. `GiveUp` stands for every call that
fails where the code returns an error, for a refusal by the bound, and for a
crash; failures that the code logs and passes over are branches of `Fail` and
`Replace`, and of `Consume` and `Discard` through `GiveUp`.

History: `accepted`, `misused` (a step or code was accepted twice, or after it
was taken away) and `refused[w]`, the wrong guesses that window `w` permitted
and that were counted.

### AccountAccess

One account, and what gives access to it. `status`, `password` and `weak` (a
hash at an older cost) are the row in `users`; `session[s]` the session row
and `family[s]` its refresh family, which is a code before it is redeemed;
`link[l]` and `purpose[l]` a row in `user_tokens`. `req[q].pc` is where a
request is:

- a login is `Submit`, then `Rehash` if the hash is weak, `Challenge` and
  `Answer` if a factor is asked for, `OpenSession`, then `Resume` (or
  `Authorize` from a session there is) and `Redeem`, which makes the code a
  family;
- a link is asked for by an administrator (`AskLink`), the forgotten-password
  page (`AskReset`) or a notice of a strange sign-in (`NotifyAnomaly`), which
  read the user; `Retire` and `InsertLink` are the two statements of
  `IssueToken`. `OpenLink` and `SetPassword`, and `OpenReport` and `Report`,
  are the pages behind a link; `CreateUser` sends the first one;
- `VerifyCurrent` and `ChangePassword` are a change of password by the user,
  whose session and password are read first; `RaiseCost` is a deployment with
  a higher hashing cost;
- `Deactivate`, `ReadDeactivated` and `Reactivate` are an administrator's
  update of the status, which is read in one statement and written in another.

`EndSession`, `EndFamily` and `LinkLapses` stand for everything else that ends
something, at any moment: there is no clock. History: `stray`, the sessions
and links made by a request that an eviction had overtaken, which
`EvictedStayOut` has to except, and `misspent`, whether a link has set two
passwords.

### CodeGrant, CodeFlow

`CodeGrant` is what the code flow promises a client: an authorization request
is given at most one code (`Give`) from a session that was current for it, and
a code is spent once, by the client it was given to (`Spend`). `CodeFlow` is
the code:

- `client`, `prompt` of a request; `pending` (the requests saved for a login),
  `waiting` (logins that wait for a factor, an enrolment, or in front of the
  recovery codes) and `live` (codes) are keys of Redis; `session`, `owner` the
  session rows; `answer`, `from` and `bought` what each code was given for,
  from which session, and who exchanged it; `factor`, `mandate` what users
  have and organizations demand.
- The authorization endpoint: `Ask`, then `FindSession` and `MeetMandate`, or
  `NoSessionFound`, and `SavePending`, or `Issue`.
- The login page: `Login`, then `Challenge` and `Answer`, `ForceEnrolment` and
  `Enrol` (perhaps `Continue`), or `SkipFactor`; `OpenSession`; `Resume`, a
  `GETDEL` whose answer may be lost (`ResumeLost`); `Issue`.
- The token endpoint: `Redeem`, by any client with any request it remembers.

Anything in Redis may lapse at any moment (`Lapse`), sessions end
(`EndSession`), policies and factors change (`ChangePolicy`), and any call may
fail (`GiveUp`). Browsers are not told apart: a request may carry any session
and any handle. The mandate is that of a deployment that wires enrolment.
History: `stale[i]`, the sessions too old for request `i`; `bare[i]`, the users
who have never met the mandate since `i` was asked.

### SigningKeys

The keys of one purpose. `status`, `before`, `since` and `readable` are the
rows in `signing_keys` and the files beside them; `loaded`, `signs`,
`published` and `age` the snapshot an instance caches; `jwks` and `held` the
set a consumer keeps; `live[k]` how much longer the youngest token that `k`
signed is good. The operator of `deploy/vm/RUNBOOK-key-rotation.md` runs
`Generate`, `MakeReadable`, `Rotate`, `RollBack` and `Retire`, waiting
`Publish` before a rotation and `Overlap` before a retirement; an instance
starts (`Start`), reloads when its snapshot is older than `TTL`, or goes on
with it for `Grace` while loads fail, and signs and verifies (`Sign`, `Verify`,
with the reload in them: `Get`); a consumer fetches the set from any instance
(`Fetch`). Ages stop where being older makes no difference, so the state space
is finite without a bound on time. The model starts with one current key, as
`keyctl` leaves it after the first generation.

### RoleTables, Delegation

`RoleTables` is what the role API promises: a request takes effect at one
moment, on `project_grants` and `user_grants` as they are then. A project grant
is made to an organization that has no active one (`Delegate`) and revoked for
good (`Revoke`); a user is given roles along one path at a time (`Assign`),
within what the path allows at that moment (`Allowed`), and they are changed
under the same condition (`Replace`) and taken away (`Remove`). `Delegation` is
the code, in which a request checks in one statement and writes in another.

The rows of one project: `roles`, `grants` (project grants), `rows`
(`user_grants`) and `accepts` (the receiving organizations that are active).
`txn[a]` is the transaction an administrator has open. Transactions are READ
COMMITTED: what one checks and what it commits are two steps, and another may
commit in between unless a row is locked. `Shared` is the lock `FOR SHARE` on a
project grant that `RevokeGrant` (`FOR UPDATE`) waits for; `RowLocked` the lock
of an update that has fired its triggers. Roles are locked by nobody, which is
why `raced` records the keys that one transaction wrote while another deleted
them.

- The owner: `CreateRole`, `CountRows`, `CountGrants`, `DeleteRole` (the three
  statements of `Store.Delete`), `CreateProjectGrant` and `InsertGrant`,
  `RevokeGrant`.
- The receiving organization: `Receive`, then `Assign` or `Replace`.
- Direct grants: `GrantRoles` and `CommitGrant`, `PatchRow` and `CommitPatch`;
  `RemoveRow` for either kind.

### LoginLimiter

The two counters a failed password touches, that of the address and that of
the client's IP: `state[k]` is the value in Redis, `ttl[k]` how long it stays,
`attempt[r]` the progress of a request. `Check` reads both, `Verify` verifies the
password, `Load` and `Save` are the two calls of a failure for each counter,
`Succeed` clears the address; each call may fail, and the login goes on
(`CheckFails`, `FailFails`). Time is relative: `until` is how far ahead the end
of a cooldown lies, and `age` how long ago a request read the clock it computes
with, because the account page computes a failure with the time its request
began. `Backoff` and `Advance` are `ratelimit.go`, with the number of rounds
capped where the delay has reached `Cap`. History: `locked[k]`, for how long
the key has been cooling down without a break.

### SamlSignOn

Registrations (`registered`, `past`, `invited`), rows of `saml_authn_requests`
(`filed`, `sp`, `overdue`), sessions, and requests at the endpoints. `Ask` is
an AuthnRequest, `Initiate` a sign-on that starts here. `FindSession` answers
from a session; otherwise `ToLogin` or `ToLoginForInitiate` files the request
and the user logs in (`Login`, `OpenSession`), which resumes it: `Resume`, with
`Consume`, marks the row in one statement, `ResumeFor` loads the registration
again and `Issue` makes the assertion. Applications and their registrations are
created, updated and deleted (`CreateApplication`, `UpdateApplication`,
`Remove`), rows expire and are swept (`Expire`, `Prune`), sessions open for
something else and end. A user who is deactivated is a refusal (`GiveUp`).

The ids of distinct AuthnRequests are taken to be distinct, an entity id is
never changed in place, and documents, signatures and the subject are not
modelled. History: `recorded` (how often an id was filed), `answers`, `made`
and `stale` (the sessions that were there when a request that demands a fresh
authentication was made).

## Runs

Times are with two workers. The inductive invariants are theorems (below) and
are not repeated in the runs, nor are most type invariants; those of
`Delegation` and `LoginLimiter` say more than types, that nothing is granted
without a role and that no cooldown is longer than its cap.

| Run | Checks | Instance |
|---|---|---|
| `session_cache` | `RevocationIsImmediate`, `StalenessBounded`, `IdleIsFinal`, `ImplementsAuthority`, `ImplementsFairAuthority` | one session, two lookups, a revoker and the organization; three units of time, as long as the session may live; 1.3 M states, 2.5 min |
| `refresh_reuse` | `OneHeir`, `DeadMintsNothing`, `FamilyAgesOut`, `SessionGuards`, `KillHolds`, `NoFalseAlarm`, `HeldIsUsable` | two requests, three tokens, lifetimes of two, three units of time; 2.3 M states, 1 min |
| `idem_key` | `OneHolder`, `NoRerun`, `ReplayIsOwn`, `KeyIsFreed` | two requests that come again and again, two bodies; 0.35 M states, 20 s |
| `authz_revoke` | `StalenessBounded`, `RevokedIsDenied` | one user of either organization, one role, one project grant, one administrator, one check; three units of time, two increments; 4.7 M states, 1.5 min |
| `mfa_answer` | `AcceptedOnce`, `GuessesBounded`, `GoneIsFinal` | two requests, one challenge of two attempts, one TOTP factor beside a passkey, two batches of one recovery code, two guesses a window, two units of time; 5.1 M states, 2 min |
| `account_access` | `EvictedStayOut`, `LinkSetsOnce`, `DeactivationHolds` | two requests, two sessions, three links, two passwords; 3.7 M states, 3 min |
| `account_rehash` | finding | as `account_access`, with one session and two links |
| `code_flow` | `SessionIsCurrent`, `MandateHolds`, `ImplementsGrant` | two requests, two authorization requests, two codes, two sessions, clients of two organizations, one user, one login waiting at a time; 1.3 M states, 1.5 min |
| `signing_keys` | `LiveTokensVerify`, `RotationLands` | three keys, two instances, one consumer; 0.9 M states, 40 s |
| `delegation` | `DelegationTypeOK`, `DelegationHolds`, `NoOtherPath`, `NamedRolesExist`, `ImplementsTables` | two roles, two project grants to two organizations, a user of the owner and one of a receiver, two administrators; 1.7 M states, 2 min |
| `limiter` | `LimiterTypeOK`, `CooldownEnds`, `CooldownKept` | two requests, an address with one free failure and an IP with two; 4.4 M states, 1 min |
| `saml_sso` | `AnswersFit`, `AnswersStayHome`, `OnceThroughLogin` | two requests, one id that is an AuthnRequest or a sign-on started here, two registrations that take turns at one entity id, two sessions, two organizations; 5.9 M states, 2.5 min |

What each property says is in the comment above it. In a sentence each, the
newer ones: nobody gets in with what an eviction took away, except through a
request it overtook (`EvictedStayOut`); a link sets at most one password
(`LinkSetsOnce`); only an administrator's reactivation ends a deactivation
(`DeactivationHolds`); every code rests on a session that is current for its
request (`SessionIsCurrent`), whose user has met the mandate since it was asked
(`MandateHolds`), is one code per request, and is redeemed once by its own
client (`ImplementsGrant`); no verifier refuses a token that is alive
(`LiveTokensVerify`) and no instance signs with a key a rotation has replaced
once the waits are over (`RotationLands`); delegated rows stay within the
project grant (`DelegationHolds`), are reached by nobody else (`NoOtherPath`),
name roles that exist unless two transactions raced (`NamedRolesExist`) and are
written only as the tables allow when the write commits, under a grant that is
active then (`ImplementsTables`); a cooldown is over
after its bound (`CooldownEnds`) and is not given up early but by a success or a
lost update (`CooldownKept`); an assertion goes to the registration its request
came from, by a session that is fresh enough for it (`AnswersFit`), in the
session's own organization (`AnswersStayHome`), and what went through the login
page is answered once for every time it was filed (`OnceThroughLogin`).

### Bounds

`MaxTime` stops the clock. In `session_cache` a session can be idle, expire and
be revoked with a copy of it in the cache; the sweep of a row that expired
without being revoked lies beyond its horizon, and is covered by the theorems.
One session is enough for the races of sessions, which never relate two of them.
Three tokens are the shortest chain in which a token, its superseded successor
and the replacement of that successor coexist; two requests are enough for
every race named in the code, and the theorems cover more. In `authz_revoke`
one administrator and one check suffice for a check to be overtaken, because
the two are concurrent with each other, and three units of time for a counter
to lapse after `GenTTL`. A row that moves from a revoked project grant to its
successor needs two grants: with `ProjectGrants = {g1, g2}`, `MaxTime = 2` and
`MaxRevokes = 1` TLC finds no error in its 9.3 M states either, in 2.5 minutes,
and the theorems cover any number of grants. `GenerationAssumption`
(`GenTTL >= 2 Lag + TTL`, against a day, half a minute and half a minute in the
code) is what the argument needs. `MaxRevokes` bounds the counter.

In `mfa_answer` one challenge is enough for a wrong answer to be written back
after a right one, and for two answers to share a count; the confirmation of an
enrolment is the second way to present a step. Two guesses a window and two
requests make the overshoot that `GuessesBounded` admits happen and the next
one a violation. Time 2 with windows of two lets a request read one window's
counter and increment the next one's. With two challenges and no passkey TLC
finds no error in 4.4 M states either; the theorems cover any number.

`account_access` has no clock: what lapses may lapse at any moment. Two
sessions are what a change of password needs to end one and keep one, and three
links let two be live at once, which the code allows, beside one that was used.
In `code_flow` two authorization requests let a browser finish one with the
handle of another; two codes and two sessions let one request be answered
twice if the code let it. `MaxWaiting` is the number of half-finished logins:
one is what two requests can share. In `signing_keys` the third key is one
generated while the rotation from the first to the second is still unfinished
somewhere; TTL 2 and grace 1 make the two ways of being late different; ages
are cut off where they stop to matter, so nothing else is bounded. The
`delegation` instance has no bound but its sets, and `limiter` none but
`Rounds` (beyond which the delay is at its cap) and `Lag`, the time a failure
may take between the clock it read and the counter it saves. In `saml_sso`
`MaxRecords` and `MaxAnswers` bound the history: filed twice and answered twice
is the first violation of each kind.

`CHECK_DEADLOCK FALSE` is set where a model comes to rest because its clock has
stopped or its sessions, links, codes, tokens or ids are used up.

### Fairness

`SessionCache!FairSpec` assumes weak fairness of the steps of a request in
progress and of an open transaction: a goroutine that can run is scheduled, a
call to Redis or PostgreSQL returns or fails, and the server cuts requests off.
It assumes nothing of revokers, of the janitor or of arrivals.
`Idempotency!FairSpec` adds the clock, the sweep, which the janitor repeats for
as long as the service runs, and its deletion. The other runs check safety only
and assume nothing.

## Theorems

Proved for all values of the constants that satisfy the `ASSUME` of the module.

- **SessionCacheProofs.** `RevocationInv` is inductive; from it
  `RevocationIsImmediate`, and `CacheImplementsAuthority`: every step of
  `SessionCache` is a step of `SessionAuthority` or a stutter.
  `RevocationIsImmediate` alone is not inductive: a lookup that is about to
  fill the cache with an old copy must find a tombstone, and one that lasts
  until the session would have expired anyway. `Sealed` says that, `EndedInv`
  says it of every ended session, `RevokerInv` and `OrgInv` of those a
  revocation has dealt with so far, `ExpiryInv` makes the fixed lifetime of an
  organization's tombstones long enough, and `LateInv` draws the conclusion for
  requests. Of the assumptions the proof needs `Absolute <= MaxAbsolute`: that
  the policy is clamped (`Policy.Sanitize`) is what makes it true.
  `LostInvalidationIsBounded` (`StalenessBounded`) rests on a second invariant,
  `StaleInv`: whatever is lost, who is about to fill the cache with a dead
  session read it before it died, less than a `Lag` ago (`AgeInv`, `CopyInv`).
  `IdleSessionsStayIdle` (`IdleIsFinal`) rests on a third, `IdleInv`: no record
  of activity, in the row, in the copy or in a request about to write either,
  is ahead of the last use there was (`ActivityInv`).
- **RefreshTokensProofs.** `FamilyInv` is inductive, and gives `OneHeir`,
  `DeadMintsNothing`, `KillHolds`, `SessionGuards`, `FamilyAgesOut`. `OneHeir`
  needs that links point to rows that have been issued (`RowsInv`);
  `DeadMintsNothing` that death is permanent (`DeadInv`); `KillHolds` that
  nothing is past its lookup (`KillInv`); `SessionGuards` that a request that
  saw no session saw a deleted one (`SessionInv`). `NoFalseAlarms` and
  `HeldStaysUsable` are about a patient client, and need `ClientInv`: until the
  token is copied every request is about the one the client holds, within the
  grace of its first presentation, and the successor an earlier attempt left
  was minted since and is itself unused (`LinkInv`, `HolderInv`), so that the
  retry finds nothing that looks like reuse.
- **ManagementProofs.** Of `Idempotency`: `KeyInv` is inductive, and gives
  `OneHolder`, `NoRerun`, `ReplayIsOwn`. Its core is `HolderInv`: the record is
  that of its holder, down to its expiry, so that a second request can neither
  claim nor reclaim it while the holder runs. This is where `Lag < TTL` is used.

  Of `Delegation`: `DelegationInv` is inductive, and gives `DelegationIsHeld`
  (`DelegationHolds`), `RolesExist` (`NamedRolesExist`), `NoPathBeside`
  (`NoOtherPath`) and `TablesImplemented` (`ImplementsTables`): a write is a
  step of `RoleTables`, everything else a stutter. `DelegationHolds` speaks of
  rows that are written; its proof and the refinement need that what a
  transaction in flight has checked is still so when it writes (`CheckedInv`),
  which is what the shared lock of its project grant and the lock of a row under
  `UPDATE` are for (`LockInv`). `NoOtherPath` needs the unique index on active
  project grants (`OneActive`) besides. `NamedRolesExist` needs `RaceInv`: a
  deletion has counted to none keys that are still named nowhere, except those
  written while it counted, which is the exception the property makes.
- **AuthzCacheProofs.** Two inductive invariants. `RevocationInv` gives
  `RevokedIsDenied`: as long as nothing was lost or overtaken, keys that came
  through a grant are current, or their revocation is on its way, or they are
  *retired*, that is stamped with a generation the counter has left behind and
  will not forget while they can be served (`GrantInv`); what was told to be
  taken away is in no entry and in no check about to write one, unless retired
  (`ToldInv`); and no check that began since was answered with it
  (`BarredInv`). `RetiredStays` is where `GenerationAssumption` is used.
  `StalenessInv` gives `StalenessBounded`, whatever is lost: what is no longer
  true was read before it changed, from the database or from an entry that
  lapses in time.
- **MfaChallengeProofs.** `MfaInv` is inductive, and gives `AcceptedOnce`,
  `GuessesBounded` and, as an action property, `GoneIsFinal`. Types alone are
  not inductive: `Coherence` says that what a request holds is what its next
  step needs, for instance that a challenge was not spent when it was read.
  `AcceptedInv` keeps every accepted step at or below `last` of its row and
  every accepted code out of `unspent`. `GuessesBounded` needs `BoundInv`: up to
  the current window every counted refusal is in the counter, so that a counter
  that still permits leaves room for all requests; the counter of a window that
  has passed may lag behind its refusals, but is read only by confirmations that
  began in the window, and these were counted as claims on it then. The only
  assumption on the requests is that they are finitely many.
- **AccountProofs.** Of `AccountAccess`: `AccountInv` is inductive, and gives
  `EvictedStayOut`, `LinkSetsOnce` and, as an action property,
  `DeactivationHolds`. It adds to the types what each step relies on
  (`Coherence`), that a request that may yet let somebody in knows what overtook
  it (`Overtaken`), and that a barred account is left with nothing but the
  sessions, codes and links of such requests (`Outside`): codes, because a code
  that is redeemed makes the family that `EvictedStayOut` speaks of.

  Of `LoginLimiter`: `LimiterInv` is inductive, and gives `CooldownsEnd`
  (`CooldownEnds`) and, as an action property, `CooldownsAreKept`
  (`CooldownKept`). A counter is loaded, advanced and saved in separate calls,
  so the proof is about stale copies (`CopyInv`): a copy whose cooldown still
  runs when it is saved ends in time, counted from when the key began to cool
  down; one that has none starts it at the clock of the request that saves it,
  which no cooldown it missed is older than. So the bound does not depend on
  `Lag`. The exponents of `Backoff` are opaque to the provers: it is written so
  that a delay outside `0 .. Cap` is `Cap`, which needs nothing to be known of
  them.
- **CodeFlowProofs.** `FlowInv` is inductive, and gives `SessionIsCurrent`,
  `MandateHolds` and `GrantImplemented`: every step of `CodeFlow` is a step of
  `CodeGrant` or a stutter. Its parts say, of requests, of waiting logins and
  of codes, that what they carry was live, current and mandated when they got
  it (`SoundRequests`, `SoundWaits`, `SoundCodes`, `SoundHistory`). `OnePlace`
  is why there is one code: an authorization request is carried by one request,
  or is on file, or has its answer, and never two of these, because every
  step that takes it over also removes it from where it was.
- **SigningProofs.** Of `SigningKeys`, under `Prepared` (the operator makes the
  file of a key readable before rotating to it) and `WaitsAssumption`
  (`Publish >= TTL + Grace + CacheAge`, `Overlap >= TTL + Grace + Lifetime`),
  `KeysInv` is inductive and gives `LiveTokensVerify` and `RotationLands`. Its
  argument is a race of ages: a key that may sign somewhere has been published
  for longer than any consumer keeps its copy, and one that is retired has not
  signed, anywhere, for longer than its tokens live.

  Of `SamlSignOn`: `SignOnInv` is inductive, and gives `AnswersAreFit`
  (`AnswersFit`), `AnswersAreHome` (`AnswersStayHome`) and `OneLoginOneAnswer`
  (`OnceThroughLogin`). The first two are properties of answers; of a request on
  its way to one, `Handled` says for each place what it has made sure of so far,
  and that stays true because a session keeps its user, loses no factor and is
  never added to those too old for a request it was opened for (`StaleInv`,
  `UnseenInv`). `OnceThroughLogin` is an account (`OnceInv`): each time an id
  was filed pays for the row on file, or for the one login that consumed it and
  is about to answer, or for its answer. No finiteness is assumed: only the
  logins that have consumed a row are counted.

Model-checked only: the two properties that need fairness,
`ImplementsFairAuthority` and `KeyIsFreed`, since liveness and ENABLED are
beyond the prover. `RehashKeepsPassword` is refuted, not proved (see below).

## Findings

`account_rehash` is a run that TLC ends with a counterexample to a comment:
`authn/user.go:216` says of the upgrade of a hash at login that "the password
did not change, only the cost of storing it did", but `RecordRehash` updates by
user id alone, two Argon2 computations after the hash was read. A login that
races a change of the password writes the old one back. After a user's "this
was not me", which clears the password, it puts it back too.

### Claims that do not hold as written

The models state these claims of comments and documents as definitions. None is
in a run; adding one to the configuration of its module makes TLC show how it
fails. The properties in the runs are what remains true.

| Definition | Claim | What happens |
|---|---|---|
| `RefreshTokens!EntireFamilyRevoked` (with `Life = FamilyLife = 3`, so that the family outlives the detection) | reuse revokes the whole family (`oauth/token/rotation.go:190`) | a request past its lookup inserts a live token after the kill |
| `RefreshTokens!SignedOutMintsNothing` | a signed-out session mints nothing (`oauth/token/handler.go:308`) | the janitor deletes the session row, the foreign key clears the column, and the token works again |
| `Idempotency!ExactlyOneWins` | exactly one request reclaims an expired record (`management/idempotency.go:150`) | both read it expired; the `UPDATE` of each names only the key, so both handlers run. Likewise the sweep chooses an expired record, a request reclaims it, the sweep deletes it by key and a third request claims it |
| `AuthzCache!RevocationIsImmediate` | invalidating after the commit closes the window (`authz/handler.go:172`) | a check that read before the commit writes after the invalidation |
| `AuthzCache!OnlyLossIsStale` | only a lost invalidation leaves stale keys (`projectgrant/delegated.go:470`) | replacing and removing delegated roles invalidates nothing |
| `MfaChallenge!OneBatch` | regenerating leaves one batch of codes (`mfa/recoverystore.go:53`) | each of two `DELETE`s misses the rows the other request has not committed; both batches work |
| `SigningKeys!StartsWithKeys` (with `Careful = FALSE`) | an instance that cannot read the signing key does not serve (`deploy/vm/RUNBOOK-key-rotation.md:194`) | `backend/cmd/authservice/main.go:871` warns and goes on |
| `SamlSignOn!AnsweredOnce` | an AuthnRequest is answered once (`docs/IDENTITY-PROTOCOL/04-SAML-20-FEDERATION.md:23`) | one that is answered from a session is never filed; presented again it is answered again |

### Lesser observations

Sessions and tokens:

- The worst case of a stale decision is one request plus one TTL after the
  change, not one TTL: a check in progress may write what it read just before
  it (`StalenessBounded` has the exact bound).
- The grace window of a refresh slides: every supersession by a retry starts it
  again. And a family may hold two live successors for a while, when a retry
  supersedes a token that another request is rotating
  (`oauth/token/rotation.go:173`).
- A revocation repeated after one whose invalidation failed finds no live row,
  reports success and leaves the cached copy (`session/manager.go:177`), for as
  long as `StalenessBounded` allows.
- `authz` `Cache.Invalidate` has no caller outside the tests.

Second factors and accounts:

- The five attempts of a challenge are a read, an increment and a write back:
  concurrent wrong answers count as one (`mfa/framework.go:370`). The bound of
  the user holds in their place, up to the overlap that `GuessesBounded` states.
- Two answers that overlap, each with a code of its own, both complete one
  challenge (`mfa/framework.go:352`), where a comment says that a consumed
  challenge cannot be answered twice.
- A login that a deactivation overtakes may still open a session, though
  `docs/API/09-USER-API.md:69` says the deactivation is complete before it is
  answered; and one that a change of password overtakes survives it, though
  `docs/API/14-SESSION-API.md:65` says the change ends every other session.
- Two issues of a link for one purpose leave two live links
  (`user/tokens.go:112`).
- `Reactivate` chooses the status from what it read; a password set in between
  leaves an account invited that has a password.
- Posting "Continue" twice after the recovery codes opens two sessions.

Delegation:

- `projectgrant/store.go:92` says that a role deleted between the check and the
  write cannot leave a grant that names it. Under READ COMMITTED it can: the
  deletion does not see the grant that is not committed yet, nor the grant the
  deletion. `NamedRolesExist` excepts exactly that (`raced`).
- Since migration 37 the count of `user_grants` that guards the deletion of a
  role sees delegated rows, also those under revoked grants, which the owner
  has no way to remove; and a project whose project grants are all revoked
  cannot be deleted, because rows still refer to them.

Limits:

- Concurrent failures may both be told that they start the cooldown. A save
  that comes late erases a cooldown or lowers the count; `CooldownKept` excepts
  such an overlap.
- A cooldown at its cap ends when its key expires, since cap and window are
  both a quarter of an hour (`ratelimit/ratelimit.go:34`), so the number of
  rounds is forgotten just then. The window slides with every failure.
- The account page computes a failure with the time its request began.

Keys and SAML:

- The wait before a rotation has to be TTL plus grace plus the cache age of
  consumers; the runbook (line 111) counts the cache of the consumers, from the
  moment one instance shows the key. A key that cannot be read keeps every load
  failing.
- The sweep deletes expired requests, answered ones too, so their ids can be
  filed again, and a login that looked at the old filing can consume the new.
- Whether the registration allows a sign-on started here is tested when it
  starts and not again after the login.
- A sign-on from a session there is does not test the organization's mandate
  for a second factor, as the authorization endpoint does.
- The SAML metadata leaves out the previous key (`samlapi/keys.go`), with which
  another instance may still sign for as long as its key set is old.

## Not modelled

See the component list of `PROJECT.json` for each part and the reason. Of the
code that no definition maps, most is generated (`api/api.gen.go` alone is a
fifth of the implementation), wiring (`backend/cmd`, `httpserver`, `config`),
rendering and decoding of requests and pages, the console and the site, scripts,
or single-statement reads and writes behind a constraint of the database.

Within the modelled parts: the text of tokens and cookies, hashing, audit
events, metrics and paging; clock skew between instances (one clock); and the
loss of Redis data other than by expiry. Parts with state that no module has:

- quotas, each an atomic script over one counter per fixed window;
- of the second factors, the registration and the counter of passkeys, and the
  attempts at an enrolment that a login forces (`login/enrol.go`);
- of SAML, XML and signatures, the guard against replayed messages, the subject
  of an assertion, and changing an entity id in place;
- the bootstrap of a first administrator and of the first keys, the SAML key
  set, the owners of grants, the deletion of projects, built-in roles.

## Plan

Done: sessions, refresh tokens, idempotency, authorization decisions, second
factors, accounts, the code flow, signing keys, delegation, the limiter, SAML.
Every safety property of a run is a theorem. Left, in this order:

1. The counter of a passkey and the attempts of a forced enrolment, in
   `MfaChallenge`.
2. The published SAML keys, as a second purpose in `SigningKeys`.
3. Quotas, against a reference count.
