------------------------------ MODULE CodeFlow ------------------------------
(***************************************************************************)
(* The authorization code flow: a client sends a browser to the            *)
(* authorization endpoint (src/backend/internal/oauth/authorize), which    *)
(* answers with a code from a session the browser has or keeps the request *)
(* in Redis while the user logs in (internal/login), with a second factor  *)
(* where the account or the mandate of the organization wants one; the     *)
(* code is exchanged at the token endpoint (internal/oauth/token).         *)
(*                                                                         *)
(* Browsers are not told apart: a request may carry any session or handle, *)
(* and an exchange any code and verifier.  There is no clock: what Redis   *)
(* keeps, and a session, may lapse at any moment, max_age may be exceeded  *)
(* whenever it is looked at, and any call may fail.                        *)
(***************************************************************************)
EXTENDS Naturals, Sequences, FiniteSets

CONSTANTS
    Requests, \* goroutines of the authorization endpoint and the login page
    Asks,     \* bound: the authorization requests made
    Codes,    \* bound: the codes issued
    Sessions, \* bound: the sessions opened
    MaxWaiting, \* bound: the logins that wait for a factor at once
    Clients, Users,
    Org(_),   \* the organization of a client or a user
    NoAsk, NoClient, NoUser, NoSession

ASSUME FlowAssumption ==
    /\ NoAsk \notin Asks /\ NoClient \notin Clients
    /\ NoUser \notin Users /\ NoSession \notin Sessions

VARIABLES
    client,  \* client[i]: who made the authorization request i
    prompt,  \* prompt[i]: how it wants the user to be asked
    pending, \* the authorization requests in Redis, waiting for a login
    waiting, \* <<i, u, w>>: a login of u for i waits for w, in Redis
    session, \* session[s]: the row of s
    owner,   \* owner[s]: the user who opened s
    live,    \* the codes in Redis
    answer,  \* answer[k]: the request that k answers
    from,    \* from[k]: the session that k was issued through
    bought,  \* bought[k]: the clients that exchanged k for tokens, in order
    factor,  \* the users who have a second factor
    mandate, \* the organizations where the grace without a factor is over
    req,     \* req[q]: what q is doing
    stale,   \* history: stale[i]: the sessions that had ended when i was made
             \* and, if i wants the user to log in, all there were
    bare     \* history: bare[i]: who lacked a factor they need ever since

asked   == <<client, prompt>>
redis   == <<pending, waiting>>
rows    == <<session, owner>>
codes   == <<live, answer, from, bought>>
policy  == <<factor, mandate>>
history == <<stale, bare>>
vars == <<asked, redis, rows, codes, policy, req, history>>

-----------------------------------------------------------------------------
Prompts == {"any", "login", "none"}

Orgs == {Org(u) : u \in Users}

Waits == {"factor", "enrolment", "codes"}

\* What a request is doing, for which authorization request, the user it has
\* identified, the session it goes by, and the mandate it read.
Request ==
    [pc : {"idle", "lookup", "mandate", "save", "verified", "proven", "resume", "issue"},
     ask : Asks \cup {NoAsk}, user : Users \cup {NoUser},
     session : Sessions \cup {NoSession}, mandated : BOOLEAN]

NoRequest == [pc |-> "idle", ask |-> NoAsk, user |-> NoUser,
              session |-> NoSession, mandated |-> FALSE]

TypeOK ==
    /\ client \in [Asks -> Clients \cup {NoClient}] /\ prompt \in [Asks -> Prompts]
    /\ pending \in SUBSET Asks
    /\ waiting \in SUBSET (Asks \X Users \X Waits)
    /\ session \in [Sessions -> {"none", "live", "ended"}]
    /\ owner \in [Sessions -> Users \cup {NoUser}]
    /\ live \in SUBSET Codes
    /\ answer \in [Codes -> Asks \cup {NoAsk}]
    /\ from \in [Codes -> Sessions \cup {NoSession}]
    /\ \A k \in Codes : answer[k] = NoAsk <=> from[k] = NoSession
    /\ bought \in [Codes -> Seq(Clients)]
    /\ factor \in SUBSET Users /\ mandate \in SUBSET Orgs
    /\ req \in [Requests -> Request]
    /\ stale \in [Asks -> SUBSET Sessions] /\ bare \in [Asks -> SUBSET Users]

Init ==
    /\ client = [i \in Asks |-> NoClient] /\ prompt = [i \in Asks |-> "any"]
    /\ pending = {} /\ waiting = {} /\ live = {}
    /\ session = [s \in Sessions |-> "none"] /\ owner = [s \in Sessions |-> NoUser]
    /\ answer = [k \in Codes |-> NoAsk] /\ from = [k \in Codes |-> NoSession]
    /\ bought = [k \in Codes |-> <<>>]
    /\ factor \in SUBSET Users /\ mandate \in SUBSET Orgs
    /\ req = [q \in Requests |-> NoRequest]
    /\ stale = [i \in Asks |-> {}] /\ bare = [i \in Asks |-> {}]

Go(q, r) == req' = [req EXCEPT ![q] = r]

Step(q, pc) == Go(q, [req[q] EXCEPT !.pc = pc])

Done(q) == Go(q, NoRequest)

\* RequireMFA, once the grace is over.
Bare(u, factors, mandates) == u \notin factors /\ Org(u) \in mandates

\* Peek of the login page.
Awaited(q, i) == req[q].pc = "idle" /\ i \in pending

-----------------------------------------------------------------------------
(* The authorization endpoint                                               *)

\* Seeded fault: prompt=login is answered from the session there is.
AskSilently(q, i, c, p) ==
    /\ req[q].pc = "idle" /\ client[i] = NoClient
    /\ client' = [client EXCEPT ![i] = c] /\ prompt' = [prompt EXCEPT ![i] = p]
    /\ stale' = [stale EXCEPT ![i] = {s \in Sessions :
                    session[s] = "ended" \/ (session[s] = "live" /\ p = "login")}]
    /\ bare' = [bare EXCEPT ![i] = {u \in Users :
                    Org(u) = Org(c) /\ Bare(u, factor, mandate)}]
    /\ Go(q, [NoRequest EXCEPT !.pc = "lookup", !.ask = i])
    /\ UNCHANGED <<redis, rows, codes, policy>>

\* ServeHTTP, as far as the session: the client, its redirect URI and its
\* parameters are in order.  A request that is not is refused and leaves nothing.
Ask(q, i, c, p) ==
    /\ req[q].pc = "idle" /\ client[i] = NoClient
    /\ client' = [client EXCEPT ![i] = c] /\ prompt' = [prompt EXCEPT ![i] = p]
    /\ stale' = [stale EXCEPT ![i] = {s \in Sessions :
                    session[s] = "ended" \/ (session[s] = "live" /\ p = "login")}]
    /\ bare' = [bare EXCEPT ![i] = {u \in Users :
                    Org(u) = Org(c) /\ Bare(u, factor, mandate)}]
    /\ Go(q, [NoRequest EXCEPT !.pc = IF p = "login" THEN "save" ELSE "lookup", !.ask = i])
    /\ UNCHANGED <<redis, rows, codes, policy>>

\* Seeded fault: the organization of the session is not compared.
FindAnySession(q, s) ==
    /\ req[q].pc = "lookup" /\ session[s] = "live"
    /\ Go(q, [req[q] EXCEPT !.pc = "mandate", !.session = s])
    /\ UNCHANGED <<asked, redis, rows, codes, policy, history>>

\* session: the cookie names a live session of the client's organization.
FindSession(q, s) ==
    /\ req[q].pc = "lookup" /\ session[s] = "live"
    /\ Org(owner[s]) = Org(client[req[q].ask])
    /\ Go(q, [req[q] EXCEPT !.pc = "mandate", !.session = s])
    /\ UNCHANGED <<asked, redis, rows, codes, policy, history>>

\* Seeded fault: a session is good for a code whatever the mandate says.
IgnoreMandate(q) ==
    /\ req[q].pc = "mandate"
    /\ Step(q, "issue")
    /\ UNCHANGED <<asked, redis, rows, codes, policy, history>>

\* Its user satisfies the mandate (Mandate.Unmet).
MeetMandate(q) ==
    /\ req[q].pc = "mandate"
    /\ ~Bare(owner[req[q].session], factor, mandate)
    /\ Step(q, "issue")
    /\ UNCHANGED <<asked, redis, rows, codes, policy, history>>

\* No cookie, a session that is over, of another organization or too old for
\* max_age, an unmet mandate, or a read that fails: the user must log in, which
\* prompt=none refuses.
NoSessionFound(q) ==
    /\ req[q].pc \in {"lookup", "mandate"}
    /\ IF prompt[req[q].ask] = "none" THEN Done(q)
       ELSE Go(q, [req[q] EXCEPT !.pc = "save", !.session = NoSession])
    /\ UNCHANGED <<asked, redis, rows, codes, policy, history>>

\* toLogin: SavePending.
SavePending(q) ==
    /\ req[q].pc = "save"
    /\ pending' = pending \cup {req[q].ask}
    /\ Done(q)
    /\ UNCHANGED <<asked, waiting, rows, codes, policy, history>>

-----------------------------------------------------------------------------
(* The login page                                                           *)

\* verify: u of the client's organization gives the right password, and the
\* policy of the organization is read.
Login(q, i, u) ==
    /\ Awaited(q, i) /\ Org(u) = Org(client[i])
    /\ Go(q, [NoRequest EXCEPT !.pc = "verified", !.ask = i, !.user = u,
                               !.mandated = Org(u) \in mandate])
    /\ UNCHANGED <<asked, redis, rows, codes, policy, history>>

\* The login of q waits for w, in a state of its own in Redis.
Wait(q, w) ==
    /\ Cardinality(waiting) < MaxWaiting
    /\ waiting' = waiting \cup {<<req[q].ask, req[q].user, w>>}
    /\ Done(q)
    /\ UNCHANGED <<asked, pending, rows, codes, policy, history>>

\* authenticate: a user with a factor is challenged.
Challenge(q) ==
    /\ req[q].pc = "verified" /\ req[q].user \in factor
    /\ Wait(q, "factor")

\* A user without one who needs one is made to enrol.
ForceEnrolment(q) ==
    /\ req[q].pc = "verified" /\ req[q].user \notin factor /\ req[q].mandated
    /\ Wait(q, "enrolment")

\* The password is enough.
SkipFactor(q) ==
    /\ req[q].pc = "verified" /\ req[q].user \notin factor /\ ~req[q].mandated
    /\ Step(q, "proven")
    /\ UNCHANGED <<asked, redis, rows, codes, policy, history>>

\* Seeded fault: an answer completes whichever request its form names.
AnswerAnother(q, i, u) ==
    /\ Awaited(q, i) /\ \E j \in Asks : <<j, u, "factor">> \in waiting
    /\ UNCHANGED waiting
    /\ Go(q, [NoRequest EXCEPT !.pc = "proven", !.ask = i, !.user = u])
    /\ UNCHANGED <<asked, pending, rows, codes, policy, history>>

\* AnswerType, AnswerRecovery or AnswerWebAuthn accepts, for the request that
\* the challenge was raised for.  The challenge goes, unless another handle of
\* the same user and request is left, or the deletion failed.
Answer(q, i, u) ==
    /\ Awaited(q, i) /\ <<i, u, "factor">> \in waiting
    /\ waiting' \in {waiting, waiting \ {<<i, u, "factor">>}}
    /\ Go(q, [NoRequest EXCEPT !.pc = "proven", !.ask = i, !.user = u])
    /\ UNCHANGED <<asked, pending, rows, codes, policy, history>>

\* completeEnrolment: the factor was just proven.
CompleteEnrolment(q, i, u) ==
    Go(q, [NoRequest EXCEPT !.pc = "proven", !.ask = i, !.user = u])

\* submitEnrolment: the first code activates the factor.  The user is shown the
\* recovery codes that come with it, has some and is logged in, or must try again.
Enrol(q, i, u) ==
    /\ Awaited(q, i) /\ <<i, u, "enrolment">> \in waiting
    /\ factor' = factor \cup {u}
    /\ bare' = [j \in Asks |-> bare[j] \ {u}]
    /\ \/ /\ waiting' \in {waiting \cup {<<i, u, "codes">>},
                           (waiting \ {<<i, u, "enrolment">>}) \cup {<<i, u, "codes">>}}
          /\ UNCHANGED req
       \/ CompleteEnrolment(q, i, u) /\ UNCHANGED waiting
       \/ UNCHANGED <<waiting, req>>
    /\ UNCHANGED <<asked, pending, rows, codes, mandate, stale>>

\* And continues from the page that showed them.
Continue(q, i, u) ==
    /\ Awaited(q, i) /\ <<i, u, "codes">> \in waiting
    /\ CompleteEnrolment(q, i, u)
    /\ UNCHANGED <<asked, redis, rows, codes, policy, history>>

\* issue: a session, in place of one of the same user that the browser had.  The
\* state of an enrolment that led here is deleted, or that fails.
OpenSession(q, s, previous) ==
    LET u == req[q].user
    IN  /\ req[q].pc = "proven" /\ session[s] = "none"
        /\ previous \in {t \in Sessions : session[t] = "live" /\ owner[t] = u} \cup {NoSession}
        /\ session' = [t \in Sessions |-> IF t = s THEN "live"
                                          ELSE IF t = previous THEN "ended"
                                          ELSE session[t]]
        /\ owner' = [owner EXCEPT ![s] = u]
        /\ waiting' \in {waiting, waiting \ ({<<req[q].ask, u>>} \X {"enrolment", "codes"})}
        /\ Go(q, [req[q] EXCEPT !.pc = "resume", !.session = s])
        /\ UNCHANGED <<asked, pending, codes, policy, history>>

\* Seeded fault: the request is read and left for the next tab.
ResumeUnspent(q) ==
    LET i == req[q].ask
    IN  /\ req[q].pc = "resume" /\ i \in pending
        /\ UNCHANGED pending
        /\ Step(q, "issue")
        /\ UNCHANGED <<asked, waiting, rows, codes, policy, history>>

\* Resume: GETDEL takes the request, and the session must belong to the
\* organization of its client.
Resume(q) ==
    LET i == req[q].ask
    IN  /\ req[q].pc = "resume" /\ i \in pending
        /\ pending' = pending \ {i}
        /\ IF Org(owner[req[q].session]) = Org(client[i]) THEN Step(q, "issue") ELSE Done(q)
        /\ UNCHANGED <<asked, waiting, rows, codes, policy, history>>

\* Its answer is lost: the request is gone all the same.
ResumeLost(q) ==
    /\ req[q].pc = "resume"
    /\ pending' = pending \ {req[q].ask}
    /\ Done(q)
    /\ UNCHANGED <<asked, waiting, rows, codes, policy, history>>

\* IssueCode, whether or not the redirect that carries the code arrives.
Issue(q, k) ==
    /\ req[q].pc = "issue" /\ answer[k] = NoAsk
    /\ live' = live \cup {k}
    /\ answer' = [answer EXCEPT ![k] = req[q].ask]
    /\ from' = [from EXCEPT ![k] = req[q].session]
    /\ Done(q)
    /\ UNCHANGED <<asked, redis, rows, bought, policy, history>>

\* A call fails, the process stops or, for a resumed request, it was gone.
GiveUp(q) ==
    /\ req[q].pc # "idle"
    /\ Done(q)
    /\ UNCHANGED <<asked, redis, rows, codes, policy, history>>

-----------------------------------------------------------------------------
(* The token endpoint                                                       *)

\* Seeded fault: the client that presents the code is not compared with the one
\* it was issued to.
RedeemForAnyone(k, c, i) ==
    /\ k \in live
    /\ live' = live \ {k}
    /\ \/ answer[k] = i /\ bought' = [bought EXCEPT ![k] = Append(@, c)]
       \/ UNCHANGED bought
    /\ UNCHANGED <<asked, redis, rows, answer, from, policy, req, history>>

\* GETDEL takes the code, whatever comes of it.
RedeemCode(k) == k \in live /\ live' = live \ {k}

\* authorizationCode: the client c that was authenticated must be the one the
\* code was issued to, and the redirect URI and the verifier, which c keeps for
\* its request i, those of that request.  Signing, storing or answering may fail
\* after that.
Redeem(k, c, i) ==
    /\ RedeemCode(k)
    /\ \/ /\ client[answer[k]] = c /\ answer[k] = i
          /\ bought' = [bought EXCEPT ![k] = Append(@, c)]
       \/ UNCHANGED bought
    /\ UNCHANGED <<asked, redis, rows, answer, from, policy, req, history>>

-----------------------------------------------------------------------------
(* The rest of the system                                                   *)

\* What Redis keeps lapses: a request after ten minutes, a challenge after five,
\* an enrolment after fifteen, a code after thirty seconds.
Lapse ==
    /\ \/ \E i \in pending : pending' = pending \ {i} /\ UNCHANGED <<waiting, live>>
       \/ \E w \in waiting : waiting' = waiting \ {w} /\ UNCHANGED <<pending, live>>
       \/ \E k \in live : live' = live \ {k} /\ UNCHANGED redis
    /\ UNCHANGED <<asked, rows, answer, from, bought, policy, req, history>>

\* A session signs out, is revoked or expires.
EndSession(s) ==
    /\ session[s] = "live"
    /\ session' = [session EXCEPT ![s] = "ended"]
    /\ UNCHANGED <<asked, redis, owner, codes, policy, req, history>>

\* A user adds or loses a factor, or the mandate of an organization starts to
\* bind or is lifted.
ChangePolicy ==
    /\ \/ \E u \in Users : factor' \in {factor \cup {u}, factor \ {u}} /\ UNCHANGED mandate
       \/ \E o \in Orgs : mandate' \in {mandate \cup {o}, mandate \ {o}} /\ UNCHANGED factor
    /\ bare' = [i \in Asks |-> {u \in bare[i] : Bare(u, factor', mandate')}]
    /\ UNCHANGED <<asked, redis, rows, codes, req, stale>>

AuthorizeStep(q) ==
    \/ \E i \in Asks, c \in Clients, p \in Prompts : Ask(q, i, c, p)
    \/ \E s \in Sessions : FindSession(q, s)
    \/ MeetMandate(q) \/ NoSessionFound(q) \/ SavePending(q)
    \/ Resume(q) \/ ResumeLost(q) \/ GiveUp(q)
    \/ \E k \in Codes : Issue(q, k)

LoginStep(q) ==
    \/ \E i \in Asks, u \in Users :
          Login(q, i, u) \/ Answer(q, i, u) \/ Enrol(q, i, u) \/ Continue(q, i, u)
    \/ Challenge(q) \/ ForceEnrolment(q) \/ SkipFactor(q)
    \/ \E s \in Sessions, previous \in Sessions \cup {NoSession} :
          OpenSession(q, s, previous)

Next ==
    \/ \E q \in Requests : AuthorizeStep(q) \/ LoginStep(q)
    \/ \E k \in Codes, c \in Clients, i \in Asks : Redeem(k, c, i)
    \/ \E s \in Sessions : EndSession(s)
    \/ Lapse \/ ChangePolicy

Spec == Init /\ [][Next]_vars

-----------------------------------------------------------------------------
(* Properties                                                               *)

\* The flow keeps the promises of CodeGrant: one code for a request, however
\* many tabs finish its login (Resume), one exchange for a code, however many
\* present it, and by the client that asked (authorizationCode), for a user of
\* its organization (session, Resume).
Grant == INSTANCE CodeGrant WITH
    user <- [k \in Codes |-> IF from[k] = NoSession THEN NoUser ELSE owner[from[k]]]

ImplementsGrant == Grant!Spec

\* A code rests on a session of after its request: one that was live at some
\* moment since, and for prompt=login one that was opened since, whichever
\* handlers, in whichever tabs, it went through on the way (ServeHTTP, session
\* and Resume).
SessionIsCurrent ==
    \A k \in Codes : answer[k] # NoAsk => from[k] \notin stale[answer[k]]

\* A user who at no moment since the request had what the mandate of their
\* organization demands gets no code for it, neither from a session of before
\* nor through a login: not by an answer to an older challenge, and not past a
\* policy that changes on the way (Mandate.Unmet, authenticate).
MandateHolds ==
    \A k \in Codes : answer[k] # NoAsk => owner[from[k]] \notin bare[answer[k]]
=============================================================================
