--------------------------- MODULE AccountAccess ---------------------------
(***************************************************************************)
(* One account and everything that gives access to it: its status and      *)
(* password in users, the emailed links in user_tokens, the logins in      *)
(* progress, and the sessions, codes and refresh families they lead to     *)
(* (src/backend/internal/user, login, account and authn).  Deactivation    *)
(* and a report of a strange sign-in evict whoever is in; they run beside  *)
(* logins that read the account before them and write after.               *)
(*                                                                         *)
(* A transaction is one step when nothing it read can have changed by the  *)
(* time it writes, and otherwise one step for each read and one for the    *)
(* writes.  There is no clock: a link, a code or a session may lapse at    *)
(* any moment.  A session has one code or family at a time, and whoever    *)
(* holds a password or a link may use it.                                  *)
(***************************************************************************)
EXTENDS Naturals

CONSTANTS
    Requests,   \* goroutines that serve the account
    Sessions,   \* bound: the sessions that may be opened
    Links,      \* bound: the links that may be issued
    Passwords,
    NoPassword, \* password_hash is null
    NoSession, NoLink

ASSUME AccountAssumption ==
    /\ NoPassword \notin Passwords /\ NoSession \notin Sessions /\ NoLink \notin Links
    /\ Sessions \cap Links = {}

VARIABLES
    status,   \* users.status, "absent" before there is a row
    password, \* the password that password_hash verifies
    weak,     \* the hash was stored at a lower cost than the current one
    session,  \* session[s]: the row of s
    family,   \* family[s]: the code or the refresh tokens issued through s
    purpose,  \* purpose[l]: what the link l is for
    link,     \* link[l]: the row of l; one that is used or expired is spent
    req,      \* req[q]: what q is doing
    stray,    \* history: sessions and links of requests an eviction overtook
    misspent  \* history: a link set a password that it could not set

credentials == <<status, password, weak>>
access      == <<session, family>>
links       == <<purpose, link>>
history     == <<stray, misspent>>
vars == <<credentials, access, links, req, history>>

-----------------------------------------------------------------------------
Purposes == {"invite", "reset", "report"}

Evictions == {"deactivation", "report"}

\* What a request is doing, and what it goes by: the password it verified, its
\* session or link, the links its UPDATE has locked, the status it will write,
\* and the evictions that came after what it read.
Request ==
    [pc : {"idle", "rehash", "verified", "challenged", "proven", "resume",
           "changing", "retire", "insert", "setting", "reporting", "restoring"},
     password : Passwords \cup {NoPassword}, session : Sessions \cup {NoSession},
     link : Links \cup {NoLink}, purpose : Purposes, doomed : SUBSET Links,
     target : {"invited", "active"}, late : SUBSET Evictions]

NoRequest ==
    [pc |-> "idle", password |-> NoPassword, session |-> NoSession,
     link |-> NoLink, purpose |-> "reset", doomed |-> {},
     target |-> "active", late |-> {}]

TypeOK ==
    /\ status \in {"absent", "invited", "active", "deactivated"}
    /\ password \in Passwords \cup {NoPassword} /\ weak \in BOOLEAN
    /\ session \in [Sessions -> {"none", "live", "ended"}]
    /\ family \in [Sessions -> {"none", "code", "live", "ended"}]
    /\ purpose \in [Links -> Purposes]
    /\ link \in [Links -> {"none", "live", "spent"}]
    /\ req \in [Requests -> Request]
    /\ stray \in SUBSET (Sessions \cup Links) /\ misspent \in BOOLEAN

Init ==
    /\ status = "absent" /\ password = NoPassword /\ weak = FALSE
    /\ session = [s \in Sessions |-> "none"] /\ family = [s \in Sessions |-> "none"]
    /\ purpose = [l \in Links |-> "reset"] /\ link = [l \in Links |-> "none"]
    /\ req = [q \in Requests |-> NoRequest]
    /\ stray = {} /\ misspent = FALSE

Go(q, r) == req' = [req EXCEPT ![q] = r]

Done(q) == Go(q, NoRequest)

\* What q makes is stray if an eviction overtook q.
Marked(q, x) == IF req[q].late = {} THEN stray ELSE stray \cup {x}

\* A login, or a link being issued: what may yet give access.
Entering == {"rehash", "verified", "challenged", "proven", "resume", "retire", "insert"}

\* The eviction e by r overtakes the other requests, and the codes it leaves.
Overtakes(e, r) ==
    /\ req' = [q \in Requests |->
          IF q = r THEN NoRequest
          ELSE IF req[q].pc \in Entering THEN [req[q] EXCEPT !.late = @ \cup {e}]
          ELSE req[q]]
    /\ stray' = stray \cup {s \in Sessions : family[s] = "code"}

LiveSessions == {s \in Sessions : session[s] = "live"}

\* The sessions of S end, and so do the refresh families issued through them.
Ended(S) ==
    /\ session' = [s \in Sessions |-> IF s \in S /\ session[s] = "live" THEN "ended"
                                      ELSE session[s]]
    /\ family' = [s \in Sessions |-> IF s \in S /\ family[s] = "live" THEN "ended"
                                     ELSE family[s]]

\* RetireTokens: every link not used yet.
Retired == [l \in Links |-> IF link[l] = "live" THEN "spent" ELSE link[l]]

\* Seeded fault: setting a password puts the account in use.
StoredActive(p) ==
    password' = p /\ weak' = FALSE /\ status' = "active"

\* Store.SetPassword: the status is decided in the UPDATE.
Stored(p) ==
    /\ password' = p /\ weak' = FALSE
    /\ status' = IF status = "invited" THEN "active" ELSE status

-----------------------------------------------------------------------------
(* Logging in                                                               *)

\* verify: the password is right and the account may sign in, both from one
\* read of the row.  Every refusal leaves the account as it is.
Submit(q, p) ==
    /\ req[q].pc = "idle"
    /\ password = p /\ status = "active"
    /\ \/ weak /\ Go(q, [NoRequest EXCEPT !.pc = "rehash", !.password = p])
       \/ ~weak /\ Go(q, [NoRequest EXCEPT !.pc = "verified"])
    /\ UNCHANGED <<credentials, access, links, history>>

\* RecordRehash writes the hash of the password that was verified.  A failure
\* to hash is logged and the login goes on.
Rehash(q) ==
    /\ req[q].pc = "rehash"
    /\ \/ password' = req[q].password /\ weak' = FALSE
       \/ UNCHANGED <<password, weak>>
    /\ Go(q, [NoRequest EXCEPT !.pc = "verified", !.late = req[q].late])
    /\ UNCHANGED <<status, access, links, history>>

\* The user has a factor, or the organization demands that one be enrolled: the
\* login waits for it in another request.
Challenge(q) ==
    /\ req[q].pc = "verified"
    /\ Go(q, [req[q] EXCEPT !.pc = "challenged"])
    /\ UNCHANGED <<credentials, access, links, history>>

\* Seeded fault: the login goes on with what was read at the password step.
AnswerUnchecked(q) ==
    /\ req[q].pc = "challenged"
    /\ Go(q, [req[q] EXCEPT !.pc = "proven", !.late = @ \ {"deactivation"}])
    /\ UNCHANGED <<credentials, access, links, history>>

\* completeChallenge and completeEnrolment: the factor is proven, and the
\* status is read again (userForChallenge).
Answer(q) ==
    /\ req[q].pc = "challenged" /\ status = "active"
    /\ Go(q, [req[q] EXCEPT !.pc = "proven", !.late = @ \ {"deactivation"}])
    /\ UNCHANGED <<credentials, access, links, history>>

\* issue: a session is created, and the one this browser had is replaced.
OpenSession(q, s, previous) ==
    /\ req[q].pc \in {"verified", "proven"} /\ session[s] = "none"
    /\ previous \in LiveSessions \cup {NoSession}
    /\ session' = [t \in Sessions |-> IF t = s THEN "live"
                                      ELSE IF t = previous THEN "ended"
                                      ELSE session[t]]
    /\ stray' = Marked(q, s)
    /\ Go(q, [NoRequest EXCEPT !.pc = "resume", !.session = s, !.late = req[q].late])
    /\ UNCHANGED <<credentials, family, links, misspent>>

\* A browser with a session comes for a code.
Authorize(q, s) ==
    /\ req[q].pc = "idle" /\ session[s] = "live"
    /\ Go(q, [NoRequest EXCEPT !.pc = "resume", !.session = s])
    /\ UNCHANGED <<credentials, access, links, history>>

\* The code is stored, whatever became of the session.
Resume(q) ==
    LET s == req[q].session
    IN  /\ req[q].pc = "resume" /\ family[s] \in {"none", "ended"}
        /\ family' = [family EXCEPT ![s] = "code"]
        /\ stray' = Marked(q, s)
        /\ Done(q)
        /\ UNCHANGED <<credentials, session, links, misspent>>

\* The code is redeemed and a refresh family begins.
Redeem(s) ==
    /\ family[s] = "code"
    /\ family' = [family EXCEPT ![s] = "live"]
    /\ UNCHANGED <<credentials, session, links, req, history>>

\* A code lapses, or a family ends by itself.
EndFamily(s) ==
    /\ family[s] \in {"code", "live"}
    /\ family' = [family EXCEPT ![s] = IF family[s] = "code" THEN "none" ELSE "ended"]
    /\ UNCHANGED <<credentials, session, links, req, history>>

\* A session expires or signs out, which leaves its family to be refused later,
\* or is revoked with it.
EndSession(s) ==
    /\ session[s] = "live"
    /\ \/ Ended({s})
       \/ session' = [session EXCEPT ![s] = "ended"] /\ UNCHANGED family
    /\ UNCHANGED <<credentials, links, req, history>>

-----------------------------------------------------------------------------
(* Changing the password                                                    *)

\* ChangeMyPassword verifies the current password of a caller with a session.
VerifyCurrent(q, s, p) ==
    /\ req[q].pc = "idle" /\ session[s] = "live" /\ password = p
    /\ Go(q, [NoRequest EXCEPT !.pc = "changing", !.password = p, !.session = s])
    /\ UNCHANGED <<credentials, access, links, history>>

\* And stores the new one, and ends every session but the caller's.
ChangePassword(q, p) ==
    /\ req[q].pc = "changing" /\ p # req[q].password
    /\ Stored(p)
    /\ Ended(LiveSessions \ {req[q].session})
    /\ Done(q)
    /\ UNCHANGED <<links, history>>

\* The cost of new hashes is raised.
RaiseCost ==
    /\ password # NoPassword /\ ~weak
    /\ weak' = TRUE
    /\ UNCHANGED <<status, password, access, links, req, history>>

-----------------------------------------------------------------------------
(* Links                                                                    *)

\* A link that the UPDATE of an uncommitted issue has locked.
Locked(l) == \E q \in Requests : l \in req[q].doomed

\* The user is read, here by ResetUserPassword, to be sent a link.
AskLink(q, u) ==
    /\ req[q].pc = "idle" /\ status \notin {"absent", "deactivated"}
    /\ Go(q, [NoRequest EXCEPT !.pc = "retire", !.purpose = u])
    /\ UNCHANGED <<credentials, access, links, history>>

\* issueReset, of which the browser learns nothing.
AskReset(q) == AskLink(q, "reset")

\* NotifyAnomaly, which issues the token in a transaction of its own.
NotifyAnomaly(q) == AskLink(q, "report")

\* The UPDATE of IssueToken sees the links committed when it starts.
Retire(q) ==
    /\ req[q].pc = "retire"
    /\ Go(q, [req[q] EXCEPT !.pc = "insert", !.doomed =
              {l \in Links : link[l] = "live" /\ purpose[l] = req[q].purpose}])
    /\ UNCHANGED <<credentials, access, links, history>>

\* The INSERT of IssueToken and its commit.
InsertLink(q, l) ==
    /\ req[q].pc = "insert" /\ link[l] = "none"
    /\ link' = [k \in Links |-> IF k = l THEN "live"
                                ELSE IF k \in req[q].doomed THEN "spent"
                                ELSE link[k]]
    /\ purpose' = [purpose EXCEPT ![l] = req[q].purpose]
    /\ stray' = Marked(q, l)
    /\ Done(q)
    /\ UNCHANGED <<credentials, access, misspent>>

\* LookupToken finds the link, and SetsPassword allows what it is for.
OpenLink(q, l) ==
    /\ req[q].pc = "idle" /\ link[l] = "live" /\ purpose[l] \in {"invite", "reset"}
    /\ Go(q, [NoRequest EXCEPT !.pc = "setting", !.link = l])
    /\ UNCHANGED <<credentials, access, links, history>>

\* LookupToken finds the link of a notice.
OpenReport(q, l) ==
    /\ req[q].pc = "idle" /\ link[l] = "live" /\ purpose[l] = "report"
    /\ Go(q, [NoRequest EXCEPT !.pc = "reporting", !.link = l])
    /\ UNCHANGED <<credentials, access, links, history>>

\* Seeded fault: the link is marked used whatever its row says by now.
ConsumableLookedUp(l) == ~Locked(l)

\* ConsumeToken finds the row not used and not expired.
Consumable(l) == link[l] = "live" /\ ~Locked(l)

\* SetPassword consumes the link and stores the password in one transaction.
SetPassword(q, p) ==
    LET l == req[q].link
    IN  /\ req[q].pc = "setting" /\ Consumable(l)
        /\ link' = [link EXCEPT ![l] = "spent"]
        /\ misspent' = (misspent \/ link[l] # "live"
                                 \/ purpose[l] \notin {"invite", "reset"})
        /\ Stored(p)
        /\ Done(q)
        /\ UNCHANGED <<access, purpose, stray>>

\* A link expires.
LinkLapses(l) ==
    /\ link[l] = "live"
    /\ link' = [link EXCEPT ![l] = "spent"]
    /\ UNCHANGED <<credentials, access, purpose, req, history>>

-----------------------------------------------------------------------------
(* Creating and evicting                                                    *)

\* CreateUser: an invited user and the link of the invitation.
CreateUser(l) ==
    /\ status = "absent" /\ link[l] = "none"
    /\ status' = "invited"
    /\ link' = [link EXCEPT ![l] = "live"]
    /\ purpose' = [purpose EXCEPT ![l] = "invite"]
    /\ UNCHANGED <<password, weak, access, req, history>>

\* reportNotMe: everybody out, no password, and a link to choose another, which
\* a deactivated user or a service without mail does not get.
Report(q, l) ==
    /\ req[q].pc = "reporting" /\ Consumable(req[q].link)
    /\ password' = NoPassword /\ weak' = FALSE
    /\ Ended(Sessions)
    /\ \/ /\ status # "deactivated" /\ link[l] = "none"
          /\ link' = [Retired EXCEPT ![l] = "live"]
          /\ purpose' = [purpose EXCEPT ![l] = "reset"]
       \/ link' = Retired /\ UNCHANGED purpose
    /\ Overtakes("report", q)
    /\ UNCHANGED <<status, misspent>>

\* Seeded fault: refresh tokens outlive the deactivation.
DeactivateSessions(q) ==
    /\ req[q].pc = "idle" /\ status # "absent"
    /\ status' = "deactivated"
    /\ session' = [s \in Sessions |-> IF session[s] = "live" THEN "ended" ELSE session[s]]
    /\ link' = Retired
    /\ Overtakes("deactivation", q)
    /\ UNCHANGED <<password, weak, family, purpose, misspent>>

\* DeactivateUser, which may be repeated.  A session or a link that commits
\* beside its statements is not seen by them, as if it came after.
Deactivate(q) ==
    /\ req[q].pc = "idle" /\ status # "absent"
    /\ status' = "deactivated"
    /\ Ended(Sessions)
    /\ link' = Retired
    /\ Overtakes("deactivation", q)
    /\ UNCHANGED <<password, weak, purpose, misspent>>

\* ReactivateUser reads that the account is deactivated, and whether it has a
\* password.
ReadDeactivated(q) ==
    /\ req[q].pc = "idle" /\ status = "deactivated"
    /\ Go(q, [NoRequest EXCEPT !.pc = "restoring",
              !.target = IF password = NoPassword THEN "invited" ELSE "active"])
    /\ UNCHANGED <<credentials, access, links, history>>

\* And writes the status it decided on.
Reactivate(q) ==
    /\ req[q].pc = "restoring"
    /\ status' = req[q].target
    /\ Done(q)
    /\ UNCHANGED <<password, weak, access, links, history>>

\* A check fails, a transaction rolls back, the user leaves or the process stops.
GiveUp(q) ==
    /\ req[q].pc # "idle"
    /\ Done(q)
    /\ UNCHANGED <<credentials, access, links, history>>

-----------------------------------------------------------------------------
LoginStep(q) ==
    \/ \E p \in Passwords : Submit(q, p)
    \/ Rehash(q) \/ Challenge(q) \/ Answer(q) \/ Resume(q) \/ GiveUp(q)
    \/ \E s \in Sessions : Authorize(q, s)
    \/ \E s \in Sessions, previous \in Sessions \cup {NoSession} :
          OpenSession(q, s, previous)

PasswordStep(q) ==
    \/ \E s \in Sessions, p \in Passwords : VerifyCurrent(q, s, p)
    \/ \E p \in Passwords : ChangePassword(q, p) \/ SetPassword(q, p)
    \/ AskReset(q) \/ NotifyAnomaly(q) \/ Retire(q)
    \/ \E l \in Links : InsertLink(q, l) \/ OpenLink(q, l) \/ OpenReport(q, l)

EvictStep(q) ==
    \/ \E l \in Links : Report(q, l)
    \/ Deactivate(q) \/ ReadDeactivated(q) \/ Reactivate(q)

Next ==
    \/ \E q \in Requests : LoginStep(q) \/ PasswordStep(q) \/ EvictStep(q)
    \/ \E s \in Sessions : Redeem(s) \/ EndFamily(s) \/ EndSession(s)
    \/ \E l \in Links : CreateUser(l) \/ LinkLapses(l)
    \/ RaiseCost

Spec == Init /\ [][Next]_vars

-----------------------------------------------------------------------------
(* Properties                                                               *)

\* Nobody may be in: the account is deactivated, or it has no password because
\* none was chosen yet or a report cleared it.
Barred == status = "deactivated" \/ password = NoPassword

\* A barred account has no session and no refresh family but those of requests
\* that had read the account before it was barred, and of codes issued before;
\* a login that waits at a factor is not among them, for it reads the status
\* again.  A deactivated account has no link but of such a request.
EvictedStayOut ==
    /\ Barred => \A s \in Sessions :
          session[s] = "live" \/ family[s] = "live" => s \in stray
    /\ status = "deactivated" => \A l \in Links : link[l] = "live" => l \in stray

\* A link sets one password at most, however many submissions of it overlap, and
\* none once it was retired, or if it came in a notice.
LinkSetsOnce == ~misspent

\* Nothing but a reactivation puts a deactivated account back into use: not the
\* password or the invitation that somebody was completing meanwhile.
DeactivationHolds ==
    [][status = "deactivated" =>
          status' = status \/ \E q \in Requests : Reactivate(q)]_vars

\* What RecordRehash says: the password did not change, only the cost of
\* storing it did.
RehashKeepsPassword ==
    [][(\E q \in Requests : Rehash(q)) => password' = password]_vars

-----------------------------------------------------------------------------
(* Inductive invariants                                                     *)

\* What a request holds is what its step needs.
Coherent(r) ==
    /\ r.pc = "rehash" => r.password \in Passwords
    /\ r.pc = "resume" => r.session \in Sessions
    /\ r.pc = "setting" => /\ r.link \in Links /\ link[r.link] # "none"
                           /\ purpose[r.link] \in {"invite", "reset"}

Coherence == \A q \in Requests : Coherent(req[q])

\* A request that may yet let somebody in knows what overtook it.
Overtaken(r) ==
    /\ r.pc \in {"rehash", "verified", "challenged", "proven"} =>
          /\ status = "deactivated" => "deactivation" \in r.late
          /\ password = NoPassword => "report" \in r.late
    /\ r.pc = "resume" => (Barred => r.late # {} \/ r.session \in stray)
    /\ r.pc \in {"retire", "insert"} => (status = "deactivated" => r.late # {})

\* And nothing but its sessions and codes is left to a barred account.
Outside ==
    /\ Barred => \A s \in Sessions :
          session[s] = "live" \/ family[s] \in {"code", "live"} => s \in stray
    /\ status = "deactivated" => \A l \in Links : link[l] = "live" => l \in stray

AccountInv ==
    /\ TypeOK /\ Coherence /\ ~misspent
    /\ \A q \in Requests : Overtaken(req[q])
    /\ Outside
=============================================================================
