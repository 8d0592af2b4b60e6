----------------------------- MODULE SamlSignOn -----------------------------
(***************************************************************************)
(* Single sign-on for SAML service providers (src/backend/internal/samlapi *)
(* and saml/pending.go).  A provider sends a browser with an AuthnRequest: *)
(* it is answered from a session the browser has, or filed while the user  *)
(* logs in and answered when the login resumes it.  A sign-on that starts  *)
(* here is filed under an id of this service, and answers no request.      *)
(*                                                                         *)
(* Browsers are not told apart: a request may carry any session and any    *)
(* id.  There is no clock: a filed request may expire, and a session end,  *)
(* at any moment, and any call may fail.                                   *)
(***************************************************************************)
EXTENDS Naturals, FiniteSets

CONSTANTS
    Requests,      \* goroutines of the sign-on endpoints and the login page
    Ids,           \* ids, of AuthnRequests and of sign-ons started here
    Registrations, \* the rows of service providers that may come to exist
    Sessions,      \* bound: the sessions opened
    Orgs,
    Org(_),        \* the organization of a registration
    Entity(_),     \* the entity id of a registration, or the Issuer of an id
    MaxRecords,    \* bound: how often one id is filed
    MaxAnswers,    \* bound: the assertions issued
    NoId, NoSP, NoSession, NoOrg

ASSUME SignOnAssumption ==
    /\ NoId \notin Ids
    /\ NoSP \notin Registrations /\ NoSession \notin Sessions /\ NoOrg \notin Orgs
    /\ \A r \in Registrations : Org(r) \in Orgs
    /\ MaxRecords \in Nat /\ MaxAnswers \in Nat

VARIABLES
    own,        \* the ids that this service makes for a sign-on it starts
    forced,     \* the AuthnRequests that demand a fresh authentication
    strong,     \* the AuthnRequests that ask for more than one factor
    registered, \* the registrations there are
    past,       \* the registrations that were removed
    invited,    \* the registrations that accept a sign-on started here
    filed,      \* filed[i]: none, open, or spent (consumed_at is set)
    sp,         \* sp[i]: the registration that the row of i belongs to
    overdue,    \* the filed ids that are past expires_at
    session,    \* session[s]: the row of s
    home,       \* home[s]: the organization of s
    multi,      \* the sessions opened with a second factor
    req,        \* req[q]: what q is doing
    recorded,   \* history: recorded[i]: how often i was filed
    answers,    \* history: the assertions issued
    made,       \* history: the forced AuthnRequests that have been presented
    stale       \* history: stale[i]: the sessions there were when i, which is
                \* forced, was first presented

asked      == <<own, forced, strong>>
provider   == <<registered, past, invited>>
filings    == <<filed, sp, overdue>>
sessions   == <<session, home, multi>>
history    == <<recorded, answers, made, stale>>
signOnVars == <<asked, provider, filings, sessions, req, history>>

-----------------------------------------------------------------------------
\* What a request is doing, for which id, which registration it read, the
\* session it goes by and, once it has resumed a login, whose login it was.
Request ==
    [pc : {"idle", "lookup", "login", "resume", "fit", "issue"},
     ask : Ids \cup {NoId}, to : Registrations \cup {NoSP},
     session : Sessions \cup {NoSession}, began : Registrations \cup {NoSP}]

NoRequest == [pc |-> "idle", ask |-> NoId, to |-> NoSP,
              session |-> NoSession, began |-> NoSP]

Answers == [ask : Ids \cup {NoId}, to : Registrations, session : Sessions,
            began : Registrations \cup {NoSP}]

SignOnTypeOK ==
    /\ own \in SUBSET Ids /\ forced \in SUBSET Ids /\ strong \in SUBSET Ids
    /\ registered \in SUBSET Registrations /\ past \in SUBSET Registrations
    /\ invited \in SUBSET Registrations
    /\ filed \in [Ids -> {"none", "open", "spent"}]
    /\ sp \in [Ids -> Registrations \cup {NoSP}] /\ overdue \in SUBSET Ids
    /\ session \in [Sessions -> {"none", "live", "ended"}]
    /\ home \in [Sessions -> Orgs \cup {NoOrg}] /\ multi \in SUBSET Sessions
    /\ req \in [Requests -> Request]
    /\ recorded \in [Ids -> 0..MaxRecords] /\ answers \in SUBSET Answers
    /\ made \in SUBSET Ids /\ stale \in [Ids -> SUBSET Sessions]

SignOnInit ==
    /\ own \in SUBSET Ids
    /\ forced \in SUBSET (Ids \ own) /\ strong \in SUBSET (Ids \ own)
    /\ registered = {} /\ past = {} /\ invited = {}
    /\ filed = [i \in Ids |-> "none"] /\ sp = [i \in Ids |-> NoSP] /\ overdue = {}
    /\ session = [s \in Sessions |-> "none"] /\ home = [s \in Sessions |-> NoOrg]
    /\ multi = {}
    /\ req = [q \in Requests |-> NoRequest]
    /\ recorded = [i \in Ids |-> 0] /\ answers = {}
    /\ made = {} /\ stale = [i \in Ids |-> {}]

Go(q, r) == req' = [req EXCEPT ![q] = r]

Step(q, pc) == Go(q, [req[q] EXCEPT !.pc = pc])

Done(q) == Go(q, NoRequest)

\* CheckAuthnContext, for the class of several factors.  An id of this service
\* asks for none.
Satisfies(i, s) == i \in strong => s \in multi

\* The registrations that a lookup by an issuer, and by a row's id, can find.
ByEntityID(e) == {r \in registered : Entity(r) = e}

\* Seeded fault: the registration is looked up by the entity id it had.
ByName(sp0) == {r \in registered : Entity(r) = Entity(sp0)}

ByID(sp0) == registered \cap {sp0}

-----------------------------------------------------------------------------
(* The sign-on endpoints                                                    *)

\* sso, as far as the session: the issuer names a live registration, r
\* (ByEntityID), and the signature r wants is there.
Ask(q, i, r) ==
    /\ req[q].pc = "idle" /\ i \notin own /\ r \in ByEntityID(Entity(i))
    /\ Go(q, [NoRequest EXCEPT !.pc = "lookup", !.ask = i, !.to = r])
    /\ made' = made \cup ({i} \cap forced)
    /\ stale' = IF i \in made' \ made
                THEN [stale EXCEPT ![i] = {s \in Sessions : session[s] # "none"}]
                ELSE stale
    /\ UNCHANGED <<asked, provider, filings, sessions, recorded, answers>>

\* Initiate: the registration must accept a sign-on that starts here.
Initiate(q, r) ==
    /\ req[q].pc = "idle" /\ r \in registered \cap invited
    /\ Go(q, [NoRequest EXCEPT !.pc = "lookup", !.to = r])
    /\ UNCHANGED <<asked, provider, filings, sessions, history>>

\* Seeded fault: ForceAuthn is answered from the session there is.
FindOldSession(q, s) ==
    LET i == req[q].ask
    IN  /\ req[q].pc = "lookup" /\ session[s] = "live"
        /\ home[s] = Org(req[q].to)
        /\ IF Satisfies(i, s) THEN Go(q, [req[q] EXCEPT !.pc = "issue", !.session = s])
           ELSE Done(q)
        /\ UNCHANGED <<asked, provider, filings, sessions, history>>

\* current: the cookie names a live session of the provider's organization, and
\* the request can be answered from it, or be told that it cannot.
FindSession(q, s) ==
    LET i == req[q].ask
    IN  /\ req[q].pc = "lookup" /\ session[s] = "live"
        /\ home[s] = Org(req[q].to) /\ i \notin forced
        /\ IF Satisfies(i, s) THEN Go(q, [req[q] EXCEPT !.pc = "issue", !.session = s])
           ELSE Done(q)
        /\ UNCHANGED <<asked, provider, filings, sessions, history>>

\* Requests.Record: the id must not be on file, and the row refers to the
\* registration, which must stand.
Record(i, r) ==
    /\ filed[i] = "none" /\ r \in registered /\ recorded[i] < MaxRecords
    /\ filed' = [filed EXCEPT ![i] = "open"]
    /\ sp' = [sp EXCEPT ![i] = r]
    /\ overdue' = overdue \ {i}
    /\ recorded' = [recorded EXCEPT ![i] = @ + 1]

\* No cookie, a session that is over or of another organization, ForceAuthn, or
\* a lookup that fails: the request is filed and the user must log in.
ToLogin(q) ==
    /\ req[q].pc = "lookup" /\ req[q].ask # NoId
    /\ Record(req[q].ask, req[q].to)
    /\ Done(q)
    /\ UNCHANGED <<asked, provider, sessions, answers, made, stale>>

\* The same for a sign-on that starts here, which gets an id of its own.
ToLoginForInitiate(q, i) ==
    /\ req[q].pc = "lookup" /\ req[q].ask = NoId
    /\ i \in own /\ recorded[i] = 0
    /\ Record(i, req[q].to)
    /\ Done(q)
    /\ UNCHANGED <<asked, provider, sessions, answers, made, stale>>

-----------------------------------------------------------------------------
(* The login page and what resumes it                                       *)

\* Requests.Peek finds a request that is not answered, expired or not.
Peek(i) == IF filed[i] = "open" THEN sp[i] ELSE NoSP

\* The login page is shown for a request on file, of a registration that stands.
Login(q, i) ==
    /\ req[q].pc = "idle" /\ ByID(Peek(i)) # {}
    /\ Go(q, [NoRequest EXCEPT !.pc = "login", !.ask = i, !.to = sp[i]])
    /\ UNCHANGED <<asked, provider, filings, sessions, history>>

\* A session of organization o, with or without a second factor.
Open(s, o) ==
    /\ session[s] = "none"
    /\ session' = [session EXCEPT ![s] = "live"] /\ home' = [home EXCEPT ![s] = o]
    /\ multi' \in {multi, multi \cup {s}}

\* issue of the login page: the user is one of the provider's organization.
OpenSession(q, s) ==
    /\ req[q].pc = "login" /\ Open(s, Org(req[q].to))
    /\ Go(q, [req[q] EXCEPT !.pc = "resume", !.session = s])
    /\ UNCHANGED <<asked, provider, filings, history>>

\* Seeded fault: an answered request is consumed again.
ConsumeAgain(i, o) ==
    /\ filed[i] # "none" /\ i \notin overdue /\ Org(sp[i]) = o
    /\ filed' = [filed EXCEPT ![i] = "spent"]

\* Requests.Consume, in the scope of organization o: one statement marks a
\* request that is open and has not expired.
Consume(i, o) ==
    /\ filed[i] = "open" /\ i \notin overdue /\ Org(sp[i]) = o
    /\ filed' = [filed EXCEPT ![i] = "spent"]

\* Resume, with the session just opened, as far as the transaction.
Resume(q) ==
    LET r == req[q]
    IN  /\ r.pc = "resume"
        /\ Consume(r.ask, home[r.session])
        /\ Go(q, [r EXCEPT !.pc = "fit", !.to = sp[r.ask], !.began = sp[r.ask]])
        /\ UNCHANGED <<asked, provider, sp, overdue, sessions, history>>

\* The rest of Resume: the registration the request was filed for still stands,
\* is of the session's organization, and the session is what was asked for.
ResumeFor(q, r) ==
    /\ req[q].pc = "fit" /\ r \in ByID(req[q].to)
    /\ Org(r) = home[req[q].session]
    /\ Satisfies(req[q].ask, req[q].session)
    /\ Go(q, [req[q] EXCEPT !.pc = "issue", !.to = r])
    /\ UNCHANGED <<asked, provider, filings, sessions, history>>

\* issue: the subject is read together with the application, which must stand,
\* and the assertion answers the request, or none if the id is our own.
Issue(q) ==
    LET r == req[q]
    IN  /\ r.pc = "issue" /\ r.to \in registered /\ Cardinality(answers) < MaxAnswers
        /\ answers' = answers \cup
              {[ask |-> IF r.ask \in own THEN NoId ELSE r.ask,
                to |-> r.to, session |-> r.session, began |-> r.began]}
        /\ Done(q)
        /\ UNCHANGED <<asked, provider, filings, sessions, recorded, made, stale>>

\* A refusal, a call that fails, or a process that stops.
GiveUp(q) ==
    /\ req[q].pc # "idle"
    /\ Done(q)
    /\ UNCHANGED <<asked, provider, filings, sessions, history>>

-----------------------------------------------------------------------------
(* The rest of the system                                                   *)

\* Registrations.Create: one live registration to an entity id.
Register(r) ==
    /\ ByEntityID(Entity(r)) = {}
    /\ registered' = registered \cup {r} /\ invited' \in {invited, invited \cup {r}}

\* The application and its registration come to exist in one transaction.
CreateApplication(r) ==
    /\ r \notin registered \cup past
    /\ Register(r)
    /\ UNCHANGED <<asked, past, filings, sessions, req, history>>

\* Registrations.Update, of the one setting that is modelled.
Update(r) == invited' \in {invited \cup {r}, invited \ {r}}

UpdateApplication(r) ==
    /\ r \in registered
    /\ Update(r)
    /\ UNCHANGED <<asked, registered, past, filings, sessions, req, history>>

\* The application is deleted: its registration and the requests on file for it
\* go with it.
Remove(r) ==
    LET gone == {i \in Ids : sp[i] = r}
    IN  /\ r \in registered
        /\ registered' = registered \ {r} /\ past' = past \cup {r}
        /\ invited' = invited \ {r}
        /\ filed' = [i \in Ids |-> IF i \in gone THEN "none" ELSE filed[i]]
        /\ sp' = [i \in Ids |-> IF i \in gone THEN NoSP ELSE sp[i]]
        /\ overdue' = overdue \ gone
        /\ UNCHANGED <<asked, sessions, req, history>>

\* PendingLifetime passes.
Expire(i) ==
    /\ filed[i] # "none" /\ i \notin overdue
    /\ overdue' = overdue \cup {i}
    /\ UNCHANGED <<asked, provider, filed, sp, sessions, req, history>>

\* Requests.Prune and its sweep function, answered or not.
Prune(i) ==
    /\ i \in overdue
    /\ filed' = [filed EXCEPT ![i] = "none"] /\ sp' = [sp EXCEPT ![i] = NoSP]
    /\ overdue' = overdue \ {i}
    /\ UNCHANGED <<asked, provider, sessions, req, history>>

\* A session is opened by a login for something else.
OpenElsewhere(s, o) ==
    /\ Open(s, o)
    /\ UNCHANGED <<asked, provider, filings, req, history>>

\* A session signs out, is revoked, replaced or expires.
EndSession(s) ==
    /\ session[s] = "live"
    /\ session' = [session EXCEPT ![s] = "ended"]
    /\ UNCHANGED <<asked, provider, filings, home, multi, req, history>>

Handle(q) ==
    \/ \E i \in Ids, r \in Registrations : Ask(q, i, r)
    \/ \E r \in Registrations : Initiate(q, r) \/ ResumeFor(q, r)
    \/ \E s \in Sessions : FindSession(q, s) \/ OpenSession(q, s)
    \/ \E i \in Ids : ToLoginForInitiate(q, i) \/ Login(q, i)
    \/ ToLogin(q) \/ Resume(q) \/ Issue(q) \/ GiveUp(q)

Environment ==
    \/ \E r \in Registrations : CreateApplication(r) \/ UpdateApplication(r) \/ Remove(r)
    \/ \E i \in Ids : Expire(i) \/ Prune(i)
    \/ \E s \in Sessions : EndSession(s) \/ \E o \in Orgs : OpenElsewhere(s, o)

SignOnNext == (\E q \in Requests : Handle(q)) \/ Environment

SignOnSpec == SignOnInit /\ [][SignOnNext]_signOnVars

-----------------------------------------------------------------------------
(* Properties                                                               *)

\* An answer rests on a session that is what its request asked for, whether the
\* browser had it or a login opened it, and however often the request was
\* presented or filed: opened since the request was made if it demanded a fresh
\* authentication (sso), and with a second factor if it asked for one (sso and
\* Resume).
AnswersFit ==
    \A a \in answers :
        a.ask # NoId => a.session \notin stale[a.ask] /\ Satisfies(a.ask, a.session)

\* An assertion is about a user of the provider's own organization, and a login
\* that began for one registration is never completed for another, not even one
\* that has taken over its entity id in the meantime (Resume, ByID).
AnswersStayHome ==
    \A a \in answers :
        /\ home[a.session] = Org(a.to)
        /\ a.began # NoSP => a.began = a.to

\* The answers to i that a login gave.
AnsweredByLogin(i) == {a \in answers : a.ask = i /\ a.began # NoSP}

\* A request on file is answered by one login, in however many tabs it is
\* finished at once (Requests.Consume).  Only when it has expired and been swept
\* can its id be filed, and answered, again.
OnceThroughLogin ==
    \A i \in Ids : Cardinality(AnsweredByLogin(i)) <= recorded[i]

\* What saml/pending.go says, and docs/IDENTITY-PROTOCOL/04-SAML-20-FEDERATION.md
\* demands: one AuthnRequest is answered once.  It is not so: a request that is
\* answered from a session is not filed, and may be presented again.
AnsweredOnce ==
    \A a, b \in answers : a.ask = b.ask /\ a.ask # NoId => a = b

-----------------------------------------------------------------------------
(* What makes them inductive                                                *)

\* The sessions that are too old for a request are sessions, and only a request
\* that demands a fresh one, and has been presented, has any.
StaleInv ==
    \A i \in Ids : /\ \A s \in stale[i] : session[s] # "none"
                   /\ stale[i] # {} => i \in forced \cap made

\* Nothing is known of a forced request that was never presented.
UnseenInv ==
    /\ own \cap (forced \cup strong) = {}
    /\ \A i \in forced \ made :
          /\ filed[i] = "none"
          /\ \A q \in Requests : req[q].ask # i
          /\ \A a \in answers : a.ask # i

\* What a request that does r has made sure of.
Handled(r) ==
    /\ r.pc = "lookup" => r.began = NoSP
    /\ r.pc = "login" => r.to # NoSP
    /\ r.pc \in {"login", "resume"} => r.ask # NoId
    /\ r.pc = "fit" => r.began = r.to
    /\ r.pc \in {"resume", "fit", "issue"} =>
          /\ r.session \in Sessions
          /\ session[r.session] # "none"
          /\ r.ask # NoId => r.session \notin stale[r.ask]
    /\ r.pc = "issue" =>
          /\ r.ask # NoId => Satisfies(r.ask, r.session)
          /\ home[r.session] = Org(r.to)
          /\ r.began \in {NoSP, r.to}

HandledInv == \A q \in Requests : Handled(req[q])

\* An answer names a session there was.
AnswersInv == \A a \in answers : session[a.session] # "none"

\* The logins that have consumed i and are about to answer it.
Answering(i) ==
    {q \in Requests : /\ req[q].pc \in {"fit", "issue"}
                      /\ req[q].ask = i /\ req[q].began # NoSP}

\* Each time an id was filed is either still open, or was consumed by one login,
\* which is about to answer, has answered, or has been lost.
OnceInv ==
    \A i \in Ids :
        /\ IsFiniteSet(AnsweredByLogin(i)) /\ IsFiniteSet(Answering(i))
        /\ Cardinality(AnsweredByLogin(i)) + Cardinality(Answering(i))
              + (IF filed[i] = "open" THEN 1 ELSE 0) <= recorded[i]

\* The inductive invariant.
SignOnInv ==
    /\ SignOnTypeOK /\ StaleInv /\ UnseenInv /\ HandledInv
    /\ AnswersInv /\ AnswersFit /\ AnswersStayHome /\ OnceInv

=============================================================================
