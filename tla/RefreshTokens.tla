---------------------------- MODULE RefreshTokens ----------------------------
(***************************************************************************)
(* One family of refresh tokens: everything descended from one redeemed    *)
(* authorization code, in the refresh_tokens table                         *)
(* (src/backend/internal/oauth/token).  A refresh reads the lineage of the *)
(* token it is handed, looks the token up, asks whether its session is     *)
(* live and rotates it, each in a database round trip or transaction of    *)
(* its own, so requests interleave between them with each other and with   *)
(* everything that revokes.                                                *)
(*                                                                         *)
(* One unit of time is half a minute: the longest a request may run, and   *)
(* the rotation grace.  The lifetimes are scaled down to a few units.      *)
(*                                                                         *)
(* While nothing has leaked, the one holder of the family is its client,   *)
(* which tries a token again only when an attempt has ended without an     *)
(* answer.  Once a token is copied, anyone may present any of them.        *)
(***************************************************************************)
EXTENDS Naturals, FiniteSets

CONSTANTS
    Requests,         \* requests at /oauth/token and /oauth/revoke
    MaxTokens,        \* bound: how many tokens the family may come to hold
    Grace,            \* RotationGrace
    Life,             \* RefreshTokenLifetime
    FamilyLife,       \* FamilyLifetime
    SessionLife,      \* what is left of the session when the family begins
    SessionRetention, \* how long the janitor keeps a dead session
    TokenRetention,   \* how long it keeps an expired refresh token
    Lag,              \* how long one request may run before it is cut off
    MaxTime           \* bound: where the clock of the model stops

ASSUME LifetimesAssumption ==
    /\ MaxTokens \in Nat \ {0} /\ MaxTime \in Nat
    /\ Grace \in Nat /\ Lag \in Nat
    /\ Life \in Nat \ {0} /\ FamilyLife \in Nat /\ Life <= FamilyLife
    /\ SessionLife \in Nat
    /\ SessionRetention \in Nat /\ TokenRetention \in Nat

VARIABLES
    now,        \* the clock of the instances and of the database
    count,      \* tokens issued so far; token n is the n-th
    rows,       \* tokens whose row exists
    revoked,    \* tokens whose row is marked revoked
    next,       \* next[t]: replaced_by, 0 if null
    made,       \* created_at
    expires,    \* expires_at
    famExpires, \* family_expires_at
    parent,     \* history: the token whose presentation minted t, 0 if none
    session,    \* the row of the session the family was issued through
    endedAt,    \* its revoked_at, Never if it is null
    ask,        \* ask[q]: what q was handed, and how that stood when it arrived
    req,        \* req[q]: the progress of q
    killed,     \* history: whether the whole family was revoked, and by whom
    raced,      \* history: whether a refresh was past its lookup just then
    copied,     \* history: whether anyone but the client holds a token
    held,       \* the newest token the client has received, while not copied
    triedAt     \* when the client first presented it, Never if it has not

tokens  == <<count, rows, revoked, next, made, expires, famExpires, parent>>
browser == <<session, endedAt>>
history == <<killed, raced>>
holders == <<copied, held, triedAt>>
vars    == <<now, tokens, browser, ask, req, history, holders>>

Tokens == 1..MaxTokens

Time == 0..MaxTime

Never == MaxTime + 1

Deadline == 0..(MaxTime + FamilyLife)

AtMost(a, b) == IF a <= b THEN a ELSE b

\* refresh_tokens.session_id is null exactly when the session's row is gone: it
\* is written from a row that exists, and is ON DELETE SET NULL.
Linked == session # "gone"

\* session_live, for a request made at time at.
SessionLive(at) == session = "live" /\ SessionLife > at

\* refresh_token_by_hash returns the row to a request made at time at.
TokenLive(t, at) ==
    t \in rows \ revoked /\ expires[t] > at /\ famExpires[t] > at

\* successor_spent: the replacement has itself been used or revoked.
Spent(t) == t \in revoked \/ next[t] # 0

\* Seeded fault: the grace excludes its last instant.
LegitimateRetryStrict(t, at) ==
    /\ t \notin revoked /\ ~Spent(next[t])
    /\ at < made[next[t]] + Grace

\* Lineage.LegitimateRetry for a rotated token: the replacement is untouched
\* and is no older than the grace.
LegitimateRetry(t, at) ==
    /\ t \notin revoked /\ ~Spent(next[t])
    /\ at <= made[next[t]] + Grace

-----------------------------------------------------------------------------
NoAsk == [tok |-> 0, at |-> 0, dead |-> "no", session |-> "open"]

AskState ==
    [tok     : 0..MaxTokens,
     at      : Time,
     dead    : {"no", "yes"},                   \* revoked, expired or unknown
     session : {"open", "lapsed", "signedOut"}]

NoRequest == [pc |-> "idle", supersede |-> 0, linked |-> "no", heir |-> 0]

RequestState ==
    [pc        : {"idle", "lineage", "kill", "lookup", "session", "rotate",
                  "resolve", "destroy"},
     supersede : 0..MaxTokens,
     linked    : {"no", "yes"},
     heir      : 0..MaxTokens]                   \* what it was answered, 0: no

TypeOK ==
    /\ now \in Time
    /\ count \in 0..MaxTokens
    /\ rows \in SUBSET Tokens /\ revoked \in SUBSET Tokens
    /\ next \in [Tokens -> 0..MaxTokens]
    /\ made \in [Tokens -> Time]
    /\ expires \in [Tokens -> Deadline] /\ famExpires \in [Tokens -> Deadline]
    /\ parent \in [Tokens -> 0..MaxTokens]
    /\ session \in {"live", "revoked", "gone"} /\ endedAt \in 0..Never
    /\ ask \in [Requests -> AskState]
    /\ req \in [Requests -> RequestState]
    /\ killed \in {"no", "asked", "reuse"} /\ raced \in {"no", "yes"}
    /\ copied \in BOOLEAN /\ held \in 0..MaxTokens /\ triedAt \in 0..Never

\* A session has just been created, and a code for it is about to be redeemed.
Init ==
    /\ now = 0 /\ count = 0 /\ rows = {} /\ revoked = {}
    /\ next = [t \in Tokens |-> 0]
    /\ made = [t \in Tokens |-> 0]
    /\ expires = [t \in Tokens |-> 0] /\ famExpires = [t \in Tokens |-> 0]
    /\ parent = [t \in Tokens |-> 0]
    /\ session = "live" /\ endedAt = Never
    /\ ask = [q \in Requests |-> NoAsk]
    /\ req = [q \in Requests |-> NoRequest]
    /\ killed = "no" /\ raced = "no"
    /\ copied = FALSE /\ held = 0 /\ triedAt = Never

Tick ==
    /\ now < MaxTime
    /\ \A q \in Requests : req[q].pc # "idle" => now < ask[q].at + Lag
    /\ now' = now + 1
    /\ UNCHANGED <<tokens, browser, ask, req, history, holders>>

-----------------------------------------------------------------------------
(* Issuing and rotating                                                     *)

\* INSERT of the next row of the family, minted by a presentation of p.
Insert(p, until, famUntil) ==
    LET n == count + 1
    IN  /\ count' = n
        /\ rows' = rows \cup {n}
        /\ made' = [made EXCEPT ![n] = now]
        /\ expires' = [expires EXCEPT ![n] = until]
        /\ famExpires' = [famExpires EXCEPT ![n] = famUntil]
        /\ parent' = [parent EXCEPT ![n] = p]

\* The authorization_code grant: RefreshStore.Issue starts the family.  The
\* session is not asked about; it only has to exist for the foreign key.
Issue ==
    /\ count = 0
    /\ Linked
    /\ Insert(0, now + Life, now + FamilyLife)
    /\ held' = 1
    /\ UNCHANGED <<now, revoked, next, browser, ask, req, history, copied, triedAt>>

\* The client may present what it holds: for the first time, or again within
\* the grace when nothing came of an attempt.
ClientPresents(t) ==
    /\ t = held
    /\ \A q \in Requests : req[q].pc = "idle"
    /\ triedAt # Never => now <= triedAt + Grace

Arrive(q, t, pc) ==
    /\ req[q].pc = "idle"
    /\ t <= count
    /\ ask' = [ask EXCEPT ![q] =
          [tok |-> t, at |-> now,
           dead |-> IF TokenLive(t, now) THEN "no" ELSE "yes",
           session |-> IF SessionLive(now) THEN "open"
                       ELSE IF endedAt = Never THEN "lapsed" ELSE "signedOut"]]
    /\ req' = [req EXCEPT ![q] = [pc |-> pc, supersede |-> 0, linked |-> "no",
                                  heir |-> 0]]

\* A refresh_token grant arrives.
Present(q, t) ==
    /\ copied \/ ClientPresents(t)
    /\ Arrive(q, t, "lineage")
    /\ triedAt' = IF t = held /\ triedAt = Never THEN now ELSE triedAt
    /\ UNCHANGED <<now, tokens, browser, history, copied, held>>

Go(q, pc, supersede, linked) ==
    req' = [req EXCEPT ![q] = [pc |-> pc, supersede |-> supersede,
                               linked |-> linked, heir |-> 0]]

Proceed(q, pc, supersede, linked) ==
    Go(q, pc, supersede, linked) /\ UNCHANGED ask

\* A refused request is over: nothing more is asked of it.
Refuse(q) ==
    /\ Go(q, "idle", 0, "no")
    /\ ask' = [ask EXCEPT ![q] = NoAsk]

\* LookupLineage, dead or alive: a token that was never issued, or is swept, has
\* no lineage.
Rotated(t) == t \in rows /\ next[t] # 0

\* detectReuse: not rotated, a retry within the grace, a token already revoked,
\* or reuse.
DetectReuse(q) ==
    LET t == ask[q].tok
    IN  /\ req[q].pc = "lineage"
        /\ \/ ~Rotated(t) /\ Proceed(q, "lookup", 0, "no")
           \/ /\ Rotated(t) /\ LegitimateRetry(t, ask[q].at)
              /\ Proceed(q, "lookup", next[t], "no")
           \/ Rotated(t) /\ t \in revoked /\ Refuse(q)
           \/ /\ Rotated(t) /\ t \notin revoked /\ ~LegitimateRetry(t, ask[q].at)
              /\ Proceed(q, "kill", 0, "no")
        /\ UNCHANGED <<now, tokens, browser, history, holders>>

\* A refresh that has looked its token up and may still rotate it.
Racing(q) == req[q].pc \in {"session", "rotate"}

\* Seeded fault: only the newest token of the family is marked.
RevokeNewest(by) ==
    /\ revoked' = revoked \cup (rows \cap {count})
    /\ IF rows = {} THEN UNCHANGED history
       ELSE /\ killed' = by
            /\ raced' = IF \E q \in Requests : Racing(q) THEN "yes" ELSE "no"

\* RevokeFamily, RevokeAllForUser, or the rows of one session: every row of the
\* family is marked in one UPDATE, if there is any.
RevokeRows(by) ==
    /\ revoked' = revoked \cup rows
    /\ IF rows = {} THEN UNCHANGED history
       ELSE /\ killed' = by
            /\ raced' = IF \E q \in Requests : Racing(q) THEN "yes" ELSE "no"

\* killFamily: the revocation and its audit event in one transaction, whose
\* failure is logged only.  The request is refused either way.
KillFamily(q) ==
    /\ req[q].pc = "kill"
    /\ Refuse(q)
    /\ \/ RevokeRows("reuse")
       \/ UNCHANGED <<revoked, history>>
    /\ UNCHANGED <<now, count, rows, next, made, expires, famExpires, parent,
                   browser, holders>>

\* Seeded fault: the row is judged by its expiry alone.
LookupUnexpired(q) ==
    LET t == ask[q].tok
        found == t \in rows /\ expires[t] > ask[q].at /\ famExpires[t] > ask[q].at
    IN  /\ req[q].pc = "lookup"
        /\ IF found
           THEN Proceed(q, "session", req[q].supersede, IF Linked THEN "yes" ELSE "no")
           ELSE Refuse(q)
        /\ UNCHANGED <<now, tokens, browser, history, holders>>

\* RefreshStore.Lookup: only a live row is returned, with its session.
Lookup(q) ==
    /\ req[q].pc = "lookup"
    /\ \/ /\ ~TokenLive(ask[q].tok, ask[q].at)
          /\ Refuse(q)
       \/ /\ TokenLive(ask[q].tok, ask[q].at)
          /\ Proceed(q, "session", req[q].supersede, IF Linked THEN "yes" ELSE "no")
    /\ UNCHANGED <<now, tokens, browser, history, holders>>

\* Seeded fault: a session whose row exists is taken to be live.
CheckSessionExists(q) ==
    /\ req[q].pc = "session"
    /\ IF req[q].linked = "yes" /\ ~Linked THEN Refuse(q)
       ELSE Proceed(q, "rotate", req[q].supersede, req[q].linked)
    /\ UNCHANGED <<now, tokens, browser, history, holders>>

\* A token that names no session is not asked about one.
CheckSession(q) ==
    /\ req[q].pc = "session"
    /\ \/ /\ req[q].linked = "yes" /\ ~SessionLive(ask[q].at)
          /\ Refuse(q)
       \/ /\ req[q].linked = "yes" => SessionLive(ask[q].at)
          /\ Proceed(q, "rotate", req[q].supersede, req[q].linked)
    /\ UNCHANGED <<now, tokens, browser, history, holders>>

\* Another client's token, an unmet MFA mandate, a scope that was not granted,
\* or a read or a transaction that fails.
RefuseOtherwise(q) ==
    /\ req[q].pc \in {"lineage", "lookup", "session", "rotate"}
    /\ Refuse(q)
    /\ UNCHANGED <<now, tokens, browser, history, holders>>

\* Seeded fault: the link moves wherever it points.
LinkMovesAlways(q) == ask[q].tok \in rows

\* The link of the presented token moves only from where this rotation expects
\* it: null, or the successor that a retry replaces.
LinkMoves(q) == next[ask[q].tok] = req[q].supersede

\* Seeded fault: a rotation starts a fresh family lifetime.
FamilyRenewed(t, at) == at + FamilyLife

\* A successor carries its family's expiry.
FamilyExpiry(t, at) == famExpires[t]

\* Seeded fault: the predecessor is revoked with the rotation.
RevokesPredecessor(q) == {ask[q].tok}

\* What a rotation revokes: nothing, or the successor a retry replaces.
Superseded(q) == IF req[q].supersede = 0 THEN {} ELSE {req[q].supersede}

\* Rotate, committed: the successor, the end of the one it supersedes and the
\* link, in one transaction.  The family's expiry is inherited.
Rotate(q) ==
    LET t == ask[q].tok
        until == FamilyExpiry(t, ask[q].at)
    IN  /\ req[q].pc = "rotate"
        /\ count < MaxTokens
        /\ t \in rows /\ famExpires[t] > ask[q].at
        /\ req[q].linked = "yes" => Linked
        /\ LinkMoves(q)
        /\ Insert(t, AtMost(ask[q].at + Life, until), until)
        /\ revoked' = revoked \cup Superseded(q)
        /\ next' = [next EXCEPT ![t] = count + 1]
        /\ req' = [req EXCEPT ![q] = [pc |-> "idle", supersede |-> 0,
                                      linked |-> "no", heir |-> count + 1]]
        /\ UNCHANGED <<now, browser, ask, history, holders>>

\* Rotate, rolled back: the row or the session's row has been deleted, the
\* family has aged out, or another request moved the link first.
RotateLoses(q) ==
    /\ req[q].pc = "rotate"
    /\ \/ ask[q].tok \notin rows
       \/ ask[q].tok \in rows /\ famExpires[ask[q].tok] <= ask[q].at
       \/ req[q].linked = "yes" /\ ~Linked
       \/ ~LinkMoves(q)
    /\ Refuse(q)
    /\ UNCHANGED <<now, tokens, browser, history, holders>>

-----------------------------------------------------------------------------
(* The holders                                                              *)

\* The answer to its last request reaches the client, unless it has already
\* tried again.  An answer that is lost is one for which this never happens.
Receive(q) ==
    /\ ~copied
    /\ \A p \in Requests : req[p].pc = "idle"
    /\ ask[q].tok = held /\ req[q].heir # 0 /\ next[held] = req[q].heir
    /\ held' = req[q].heir
    /\ triedAt' = Never
    /\ UNCHANGED <<now, tokens, browser, ask, req, history, copied>>

\* Somebody else comes to hold the tokens, or the client stops being careful.
Leak ==
    /\ ~copied /\ count > 0
    /\ copied' = TRUE /\ held' = 0 /\ triedAt' = Never
    /\ UNCHANGED <<now, tokens, browser, ask, req, history>>

-----------------------------------------------------------------------------
(* Revocation                                                               *)

\* POST /oauth/revoke with a refresh token.
PresentForRevocation(q, t) ==
    /\ copied \/ ClientPresents(t)
    /\ Arrive(q, t, "resolve")
    /\ UNCHANGED <<now, tokens, browser, history, holders>>

Resolve(q) ==
    /\ req[q].pc = "resolve"
    /\ IF TokenLive(ask[q].tok, ask[q].at) THEN Proceed(q, "destroy", 0, "no")
       ELSE Refuse(q)
    /\ UNCHANGED <<now, tokens, browser, history, holders>>

\* destroy: the whole family, not the one row; a failed transaction is an error.
Destroy(q) ==
    /\ req[q].pc = "destroy"
    /\ Refuse(q)
    /\ \/ RevokeRows("asked")
       \/ UNCHANGED <<revoked, history>>
    /\ UNCHANGED <<now, count, rows, next, made, expires, famExpires, parent,
                   browser, holders>>

\* POST /oauth/revoke with an access token: the rows of its session and client.
RevokeByAccessToken ==
    /\ Linked /\ count > 0
    /\ RevokeRows("asked")
    /\ UNCHANGED <<now, count, rows, next, made, expires, famExpires, parent,
                   browser, ask, req, holders>>

EndSession ==
    /\ session = "live"
    /\ session' = "revoked"
    /\ endedAt' = now

\* Logout of one session: its refresh tokens are left to the session check.
Logout ==
    /\ EndSession
    /\ UNCHANGED <<now, tokens, ask, req, history, holders>>

\* Logout everywhere, or the sessions screen: the session and the tokens
\* end in one transaction.
EndSessionAndTokens ==
    /\ EndSession
    /\ RevokeRows("asked")
    /\ UNCHANGED <<now, count, rows, next, made, expires, famExpires, parent,
                   ask, req, holders>>

-----------------------------------------------------------------------------
(* The janitor                                                              *)

SweepSession ==
    /\ \/ session = "live" /\ now > SessionLife + SessionRetention
       \/ session = "revoked" /\ now > AtMost(SessionLife, endedAt) + SessionRetention
    /\ session' = "gone"
    /\ UNCHANGED <<now, tokens, endedAt, ask, req, history, holders>>

\* The row goes, and with it every link to it.
SweepToken(t) ==
    /\ t \in rows /\ now > expires[t] + TokenRetention
    /\ rows' = rows \ {t}
    /\ next' = [u \in Tokens |-> IF next[u] = t THEN 0 ELSE next[u]]
    /\ UNCHANGED <<now, count, revoked, made, expires, famExpires, parent,
                   browser, ask, req, history, holders>>

-----------------------------------------------------------------------------
\* refreshToken, in this order.
RefreshStep(q) ==
    \/ DetectReuse(q) \/ KillFamily(q) \/ Lookup(q) \/ CheckSession(q)
    \/ RefuseOtherwise(q) \/ Rotate(q) \/ RotateLoses(q)

RequestStep(q) == RefreshStep(q) \/ Resolve(q) \/ Destroy(q)

Next ==
    \/ Tick
    \/ Issue
    \/ \E q \in Requests, t \in Tokens : Present(q, t) \/ PresentForRevocation(q, t)
    \/ \E q \in Requests : RequestStep(q) \/ Receive(q)
    \/ Leak
    \/ RevokeByAccessToken \/ Logout \/ EndSessionAndTokens
    \/ SweepSession \/ (\E t \in Tokens : SweepToken(t))

Spec == Init /\ [][Next]_vars

-----------------------------------------------------------------------------
(* Properties                                                               *)

\* However many requests present one token at once, at most one of the
\* successors it was given is not revoked, and it is the one it points to.
OneHeir ==
    \A c \in rows \ revoked :
       (parent[c] # 0 /\ parent[c] \in rows) => next[parent[c]] = c

\* A refresh that begins after its token has been revoked, has expired or has
\* been deleted is refused, although the lineage, the row and the session are
\* read one after the other while others rotate and revoke.
DeadMintsNothing ==
    \A q \in Requests : ask[q].dead = "yes" => req[q].heir = 0

\* Refreshing does not extend a family: nothing is minted for a request made
\* after the lifetime of the first token's family.
FamilyAgesOut ==
    \A q \in Requests : req[q].heir # 0 => ask[q].at < made[1] + FamilyLife

\* A refresh that begins after the session is over is refused for as long as
\* the session's row is kept.
SessionGuards ==
    \A q \in Requests :
       ask[q].session # "open" /\ req[q].heir # 0 => session = "gone"

\* When the family is revoked as a whole and no refresh was then between its
\* lookup and its rotation, no token of the family is ever live again.
KillHolds == killed # "no" /\ raced = "no" => rows \subseteq revoked

\* Reuse is detected only once a token has been copied: a client that tries
\* again only within the grace, after an attempt that brought no answer, does
\* not have its family killed.
NoFalseAlarm == ~copied => \A q \in Requests : req[q].pc # "kill"

\* And what it holds stays usable until somebody revokes: not rotated, or
\* rotated to a successor that is still untouched, for a retry to replace.
HeldIsUsable ==
    ~copied /\ killed = "no" /\ held \in rows =>
       /\ held \notin revoked
       /\ next[held] # 0 => ~Spent(next[held])

\* Rows, links and questions are about tokens that have been issued.
RowsInv ==
    /\ rows \subseteq 1..count /\ revoked \subseteq 1..count
    /\ \A t \in Tokens : next[t] <= count /\ parent[t] <= count
    /\ \A q \in Requests : ask[q].tok <= count /\ req[q].supersede <= count
    /\ killed # "no" => count # 0

\* A family revoked while nothing raced has no live row, and nothing in progress
\* has got past its lookup since.
KillInv ==
    killed # "no" /\ raced = "no" =>
       rows \subseteq revoked /\ \A q \in Requests : ~Racing(q)

\* A token that was dead on arrival stays dead, and its request does not pass
\* its lookup.
DeadInv ==
    \A q \in Requests : ask[q].dead = "yes" =>
       /\ ~TokenLive(ask[q].tok, ask[q].at)
       /\ ~Racing(q) /\ req[q].heir = 0

\* A request that found no session to ask about has found the row deleted, and
\* nothing but that lets it past the session's end.
SessionInv ==
    \A q \in Requests :
       /\ Racing(q) /\ req[q].linked = "no" => session = "gone"
       /\ ask[q].session # "open" =>
             /\ ~SessionLive(ask[q].at)
             /\ req[q].pc = "rotate" => req[q].linked = "no"
             /\ req[q].heir # 0 => session = "gone"

\* Every row carries the expiry its family began with.
AgeInv ==
    /\ \A t \in rows : famExpires[t] = made[1] + FamilyLife
    /\ FamilyAgesOut
    /\ \A q \in Requests : req[q].heir # 0 => count # 0

\* Links lead to later tokens, and none leads from one not yet issued.
LinkInv ==
    \A t \in Tokens : next[t] # t /\ (t > count => next[t] = 0)

\* While the family has one holder: every request is about the token the client
\* holds, and is made within the grace of the first presentation; a successor
\* was minted after that, is itself unused, and has gone only if the token has.
HolderInv ==
    ~copied =>
       /\ held <= count /\ (held = 0 => count = 0)
       /\ triedAt # Never => triedAt <= now
       /\ \A q \in Requests : req[q].pc # "idle" =>
             /\ held # 0 /\ ask[q].tok = held
             /\ req[q].pc # "kill"
             /\ req[q].pc \in {"lineage", "lookup", "session", "rotate"} =>
                   triedAt # Never /\ ask[q].at <= triedAt + Grace
       /\ held # 0 /\ next[held] # 0 =>
             /\ triedAt # Never /\ triedAt <= made[next[held]]
             /\ next[next[held]] = 0
             /\ killed = "no" \/ held \in rows \ revoked =>
                   next[held] \notin revoked
       /\ killed = "no" => held \notin revoked

\* The inductive invariant.
FamilyInv ==
    TypeOK /\ RowsInv /\ OneHeir /\ KillInv /\ DeadInv /\ SessionInv /\ AgeInv

\* The inductive invariant of a family with one holder.
ClientInv == FamilyInv /\ LinkInv /\ HolderInv

-----------------------------------------------------------------------------
(* What the comments claim and the code does not keep (see Findings)         *)

\* Reuse revokes the entire family.
EntireFamilyRevoked == killed = "reuse" => \A t \in Tokens : ~TokenLive(t, now)

\* A refresh token does not outlive a revoked session.
SignedOutMintsNothing ==
    \A q \in Requests : ask[q].session = "signedOut" => req[q].heir = 0
=============================================================================
