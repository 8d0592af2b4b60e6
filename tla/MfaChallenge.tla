---------------------------- MODULE MfaChallenge ----------------------------
(***************************************************************************)
(* The second factors of one user (src/backend/internal/mfa): the          *)
(* challenges that logins wait behind, in Redis with the counters that     *)
(* bound guessing, and the factors and recovery codes that answer them, in *)
(* PostgreSQL.  Every answer is a chain of round trips, and nothing holds  *)
(* the challenge, the counter or the factor from one to the next.          *)
(*                                                                         *)
(* One unit of time is one TOTP step; the lifetime of a challenge and the  *)
(* window of the attempt bound are scaled down to a few.  A code is the    *)
(* step it belongs to, step 0 standing for a code of no step.  Whether an  *)
(* assertion of a passkey verifies is left open.                           *)
(***************************************************************************)
EXTENDS Naturals, FiniteSets

CONSTANTS
    Requests,     \* goroutines that serve the user
    Handles,      \* bound: the challenges that may be raised
    Factors,      \* bound: the TOTP factors that may be enrolled
    NoHandle, NoFactor,
    Batches,      \* bound: the batches of recovery codes that may be issued
    PerBatch,     \* RecoveryCodeCount
    NoCode,       \* a recovery code nobody was issued
    MaxAttempts,
    MaxPerWindow, \* MaxAttemptsPerWindow
    Window,       \* AttemptWindow
    TTL,          \* ChallengeTTL
    Skew,         \* TOTPSkew
    HasPasskey,   \* whether the user has a passkey, which stays as it is here
    MaxTime       \* bound: where the clock of the model stops

Codes == Batches \X (1..PerBatch)

ASSUME ChallengeAssumption ==
    /\ IsFiniteSet(Requests)
    /\ MaxAttempts \in Nat \ {0} /\ MaxPerWindow \in Nat \ {0}
    /\ Window \in Nat \ {0} /\ TTL \in Nat \ {0}
    /\ Skew \in Nat /\ MaxTime \in Nat \ {0}
    /\ PerBatch \in Nat \ {0}
    /\ NoHandle \notin Handles /\ NoFactor \notin Factors /\ NoCode \notin Codes
    /\ Factors \cap Batches = {} /\ HasPasskey \in BOOLEAN

VARIABLES
    now,       \* the clock of the instances and of the stores
    raised,    \* handles issued so far
    stored,    \* handles whose key has not been deleted
    challenge, \* challenge[h]: what is stored under h, or about to be
    count,     \* count[w]: the counter of window w, 0 if there is none
    factor,    \* factor[f]: the status of the row of f
    last,      \* last[f]: last_used_counter, 0 if null
    unspent,   \* recovery codes whose row exists with used_at null
    issued,    \* batches issued so far
    req,       \* req[q]: what q is doing
    accepted,  \* history: the steps and recovery codes that were accepted
    misused,   \* history: one was accepted again, or after its removal
    refused    \* history: refused[w]: wrong guesses permitted in w, once counted

challenges  == <<raised, stored, challenge>>
credentials == <<factor, last, unspent, issued>>
history     == <<accepted, misused, refused>>
vars == <<now, challenges, count, credentials, req, history>>

Time == 1..MaxTime

\* A code for a step the clock never reaches is as good as any wrong one.
Steps == 0..MaxTime

WindowOf(t) == t \div Window

Windows == 0..MaxTime

-----------------------------------------------------------------------------
Challenge ==
    [attempts : 0..MaxAttempts,
     names    : SUBSET Factors,     \* the TOTP factors that may answer
     expires  : 0..(MaxTime + TTL)]

NoChallenge == [attempts |-> 0, names |-> {}, expires |-> 0]

\* A guess: a TOTP code, a recovery code or a signed assertion.
Guess ==
    [kind : {"totp", "recovery", "passkey"}, step : Steps,
     code : Codes \cup {NoCode}]

Totp(s) == [kind |-> "totp", step |-> s, code |-> NoCode]

Recovery(c) == [kind |-> "recovery", step |-> 0, code |-> c]

Passkey == [kind |-> "passkey", step |-> 0, code |-> NoCode]

\* What a request is doing, and what it goes by: the challenge and its attempts
\* when it was read, the window of its permission, the TOTP factor that answers
\* or is confirmed, and the recovery codes its DELETE has locked.
Request ==
    [pc : {"idle", "raise", "permit", "check", "spend", "count", "replace",
           "discard", "consume", "remaining", "delete", "insert"},
     confirms : BOOLEAN, handle : Handles \cup {NoHandle}, guess : Guess,
     seen : 0..MaxAttempts, window : Windows, by : Factors \cup {NoFactor},
     doomed : SUBSET Codes]

NoRequest ==
    [pc |-> "idle", confirms |-> FALSE, handle |-> NoHandle, guess |-> Passkey,
     seen |-> 0, window |-> 0, by |-> NoFactor, doomed |-> {}]

TypeOK ==
    /\ now \in Time
    /\ raised \in SUBSET Handles /\ stored \in SUBSET Handles
    /\ challenge \in [Handles -> Challenge]
    /\ count \in [Windows -> Nat]
    /\ factor \in [Factors -> {"none", "pending", "active", "removed"}]
    /\ last \in [Factors -> Steps]
    /\ unspent \in SUBSET Codes /\ issued \in SUBSET Batches
    /\ req \in [Requests -> Request]
    /\ accepted \in SUBSET (Codes \cup (Factors \X Steps))
    /\ misused \in BOOLEAN
    /\ refused \in [Windows -> Nat]

\* A user with a password and nothing else.
Init ==
    /\ now = 1 /\ raised = {} /\ stored = {}
    /\ challenge = [h \in Handles |-> NoChallenge]
    /\ count = [w \in Windows |-> 0]
    /\ factor = [f \in Factors |-> "none"] /\ last = [f \in Factors |-> 0]
    /\ unspent = {} /\ issued = {}
    /\ req = [q \in Requests |-> NoRequest]
    /\ accepted = {} /\ misused = FALSE
    /\ refused = [w \in Windows |-> 0]

Tick ==
    /\ now < MaxTime
    /\ now' = now + 1
    /\ UNCHANGED <<challenges, count, credentials, req, history>>

Go(q, r) == req' = [req EXCEPT ![q] = r]

Done(q) == Go(q, NoRequest)

\* The key of h is there and has not expired.
Live(h) == h \in stored /\ now < challenge[h].expires

Active == {f \in Factors : factor[f] = "active"}

-----------------------------------------------------------------------------
(* Raising a challenge and reading it                                       *)

\* Required reads the confirmed factors of a user whose password was proven.
\* Without one there is no challenge.
Require(q, h) ==
    /\ req[q].pc = "idle" /\ h \notin raised
    /\ Active # {} \/ HasPasskey
    /\ raised' = raised \cup {h}
    /\ challenge' = [challenge EXCEPT ![h] =
          [NoChallenge EXCEPT !.names = Active]]
    /\ Go(q, [NoRequest EXCEPT !.pc = "raise", !.handle = h])
    /\ UNCHANGED <<now, stored, count, credentials, history>>

\* Put: SET NX under a fresh handle, for the lifetime of a challenge.
Put(q) ==
    LET h == req[q].handle
    IN  /\ req[q].pc = "raise"
        /\ stored' = stored \cup {h}
        /\ challenge' = [challenge EXCEPT ![h].expires = now + TTL]
        /\ Done(q)
        /\ UNCHANGED <<now, raised, count, credentials, history>>

\* An answer arrives and the challenge is read, the same way for each kind of
\* guess.  A TOTP code is for the one factor of that type that the
\* challenge names and the user still has; that factorType reads it again before
\* Check does changes nothing more.  A spent challenge is deleted.
Answer(q, h, g) ==
    \E f \in Factors \cup {NoFactor} :
        /\ req[q].pc = "idle" /\ Live(h)
        /\ IF g.kind = "totp" THEN f \in Active \cap challenge[h].names
           ELSE f = NoFactor
        /\ \/ /\ challenge[h].attempts >= MaxAttempts
              /\ Go(q, [NoRequest EXCEPT !.pc = "discard", !.handle = h])
           \/ /\ challenge[h].attempts < MaxAttempts
              /\ g.kind = "passkey" => HasPasskey
              /\ Go(q, [NoRequest EXCEPT !.pc = "permit", !.handle = h, !.guess = g,
                        !.seen = challenge[h].attempts, !.by = f])
        /\ UNCHANGED <<now, challenges, count, credentials, history>>

\* The three ways to answer; no code is the recovery code of nobody.
AnswerType(q, h, s) == Answer(q, h, Totp(s))

AnswerRecovery(q, h, c) == Answer(q, h, Recovery(c))

AnswerWebAuthn(q, h) == Answer(q, h, Passkey)

\* A code for a pending enrolment arrives.  The clock is read once, here.
Confirm(q, f, s) ==
    /\ req[q].pc = "idle" /\ factor[f] = "pending"
    /\ Go(q, [NoRequest EXCEPT !.pc = "permit", !.confirms = TRUE,
              !.guess = Totp(s), !.by = f, !.window = WindowOf(now)])
    /\ UNCHANGED <<now, challenges, count, credentials, history>>

\* The window whose counter a request reads or increments now.
Charged(q) == IF req[q].confirms THEN req[q].window ELSE WindowOf(now)

\* Seeded fault: the guess after the last is allowed.
PermitOneMore(q) ==
    /\ req[q].pc = "permit"
    /\ count[Charged(q)] <= MaxPerWindow
    /\ Go(q, [req[q] EXCEPT !.pc = "check", !.window = Charged(q)])
    /\ UNCHANGED <<now, challenges, count, credentials, history>>

\* Allowed: the user has guesses left in this window.
Permit(q) ==
    /\ req[q].pc = "permit"
    /\ count[Charged(q)] < MaxPerWindow
    /\ Go(q, [req[q] EXCEPT !.pc = "check", !.window = Charged(q)])
    /\ UNCHANGED <<now, challenges, count, credentials, history>>

-----------------------------------------------------------------------------
(* Verifying                                                                *)

\* The answer is wrong, whatever the reason.
Refuse(q) ==
    /\ Go(q, [req[q] EXCEPT !.pc = "count", !.guess = Passkey, !.by = NoFactor])
    /\ UNCHANGED <<now, challenges, count, credentials, history>>

\* The answer is right, and the step or code k is spent.
Accept(k, stands) ==
    /\ accepted' = accepted \cup {k}
    /\ misused' = (misused \/ k \in accepted \/ ~stands)

\* A right answer goes on to complete the login.
Prove(q) == Go(q, [NoRequest EXCEPT !.pc = "consume", !.handle = req[q].handle])

Matches(s) == s # 0 /\ s <= now + Skew /\ now <= s + Skew

\* TOTP.check reads the secret and the status of the factor: active to answer a
\* challenge, pending to be confirmed.
CheckTotp(q) ==
    LET r == req[q]
    IN  /\ r.pc = "check" /\ r.guess.kind = "totp"
        /\ factor[r.by] = IF r.confirms THEN "pending" ELSE "active"
        /\ \/ /\ Matches(r.guess.step)
              /\ Go(q, [r EXCEPT !.pc = "spend"])
              /\ UNCHANGED <<now, challenges, count, credentials, history>>
           \/ ~Matches(r.guess.step) /\ Refuse(q)

\* Seeded fault: the step used last may be used again.
FreshAgain(f, s) == factor[f] \in {"pending", "active"} /\ last[f] <= s

\* RecordUse finds the row and no step as late in it.
Fresh(f, s) == factor[f] \in {"pending", "active"} /\ last[f] < s

\* RecordUse, and for a confirmation Activate, committed.  A step that was
\* spent, or a row that is gone, is a wrong code.
SpendTotp(q) ==
    LET r == req[q]
        f == r.by
        s == r.guess.step
    IN  /\ r.pc = "spend"
        /\ \/ /\ Fresh(f, s)
              /\ r.confirms => factor[f] = "pending"
              /\ last' = [last EXCEPT ![f] = s]
              /\ factor' = [factor EXCEPT ![f] = "active"]
              /\ Accept(<<f, s>>, factor[f] \in {"pending", "active"})
              /\ IF r.confirms THEN Go(q, [NoRequest EXCEPT !.pc = "remaining"])
                 ELSE Prove(q)
              /\ UNCHANGED <<now, challenges, count, unspent, issued, refused>>
           \/ ~Fresh(f, s) /\ Refuse(q)

\* A row that an uncommitted DELETE has locked makes an UPDATE wait.
Locked(c) == \E q \in Requests : c \in req[q].doomed

\* RecoveryStore.Consume: one UPDATE of the row with used_at null.
SpendCode(q) ==
    LET c == req[q].guess.code
    IN  /\ req[q].pc = "check" /\ req[q].guess.kind = "recovery"
        /\ ~Locked(c)
        /\ \/ /\ c \in unspent
              /\ unspent' = unspent \ {c}
              /\ Accept(c, c \in unspent)
              /\ Prove(q)
              /\ UNCHANGED <<now, challenges, count, factor, last, issued, refused>>
           \/ c \notin unspent /\ Refuse(q)

\* FinishLogin: an assertion verifies or does not.  Its counter is not modelled.
CheckPasskey(q) ==
    /\ req[q].pc = "check" /\ req[q].guess.kind = "passkey"
    /\ \/ /\ Prove(q)
          /\ UNCHANGED <<now, challenges, count, credentials, history>>
       \/ Refuse(q)

-----------------------------------------------------------------------------
(* After the answer                                                         *)

Delete(h) ==
    /\ stored' = stored \ {h}
    /\ challenge' = [challenge EXCEPT ![h] = NoChallenge]

\* A right answer consumes the challenge.
Consume(q) ==
    /\ req[q].pc = "consume"
    /\ Delete(req[q].handle)
    /\ Done(q)
    /\ UNCHANGED <<now, raised, count, credentials, history>>

\* What follows the count: a wrong code for an enrolment is over.
Counted(q) ==
    IF req[q].confirms THEN Done(q) ELSE Go(q, [req[q] EXCEPT !.pc = "replace"])

\* Fail: the counter of the user is incremented, or that fails and is logged.
Fail(q) ==
    /\ req[q].pc = "count"
    /\ Counted(q)
    /\ \/ /\ count' = [count EXCEPT ![Charged(q)] = @ + 1]
          /\ refused' = [refused EXCEPT ![req[q].window] = @ + 1]
       \/ UNCHANGED <<count, refused>>
    /\ UNCHANGED <<now, challenges, credentials, accepted, misused>>

\* Seeded fault: SET without XX and KEEPTTL.
ReplaceAnyway(q) ==
    LET h == req[q].handle
        attempts == req[q].seen + 1
    IN  /\ req[q].pc = "replace"
        /\ stored' = stored \cup {h}
        /\ challenge' = [challenge EXCEPT ![h].attempts = attempts,
                                         ![h].expires = now + TTL]
        /\ IF attempts >= MaxAttempts THEN Go(q, [req[q] EXCEPT !.pc = "discard"])
           ELSE Done(q)
        /\ UNCHANGED <<now, raised, count, credentials, history>>

\* Replace: SET XX KEEPTTL of the copy read when the answer arrived, with one
\* more attempt.  A failure is logged, and the copy decides what follows.
Replace(q) ==
    LET h == req[q].handle
        attempts == req[q].seen + 1
    IN  /\ req[q].pc = "replace"
        /\ \/ Live(h) /\ challenge' = [challenge EXCEPT ![h].attempts = attempts]
           \/ UNCHANGED challenge
        /\ IF attempts >= MaxAttempts THEN Go(q, [req[q] EXCEPT !.pc = "discard"])
           ELSE Done(q)
        /\ UNCHANGED <<now, raised, stored, count, credentials, history>>

\* The challenge is spent.
Discard(q) ==
    /\ req[q].pc = "discard"
    /\ Delete(req[q].handle)
    /\ Done(q)
    /\ UNCHANGED <<now, raised, count, credentials, history>>

\* A call fails, a bound refuses, a transaction rolls back or the process stops.
GiveUp(q) ==
    /\ req[q].pc # "idle"
    /\ Done(q)
    /\ UNCHANGED <<now, challenges, count, credentials, history>>

-----------------------------------------------------------------------------
(* Managing factors                                                         *)

\* TOTP.Begin: an abandoned enrolment is discarded, an active factor is not
\* replaced, and a user has one row of the type.
Begin(f) ==
    /\ factor[f] = "none" /\ Active = {}
    /\ factor' = [g \in Factors |-> IF g = f THEN "pending"
                                    ELSE IF factor[g] = "pending" THEN "removed"
                                    ELSE factor[g]]
    /\ UNCHANGED <<now, challenges, count, last, unspent, issued, req, history>>

\* Codes come with the first factor, when the user holds none.
Remaining(q) ==
    /\ req[q].pc = "remaining" /\ unspent = {}
    /\ Go(q, [NoRequest EXCEPT !.pc = "delete"])
    /\ UNCHANGED <<now, challenges, count, credentials, history>>

\* RegenerateMyRecoveryCodes, for a user with a factor.
Regenerate(q) ==
    /\ req[q].pc = "idle" /\ (Active # {} \/ HasPasskey)
    /\ Go(q, [NoRequest EXCEPT !.pc = "delete"])
    /\ UNCHANGED <<now, challenges, count, credentials, history>>

\* The DELETE of Issue sees the codes committed when it starts.
DeleteCodes(q) ==
    /\ req[q].pc = "delete"
    /\ Go(q, [NoRequest EXCEPT !.pc = "insert", !.doomed = unspent])
    /\ UNCHANGED <<now, challenges, count, credentials, history>>

\* The INSERT of Issue and its commit.
InsertCodes(q, b) ==
    /\ req[q].pc = "insert" /\ b \notin issued
    /\ issued' = issued \cup {b}
    /\ unspent' = (unspent \ req[q].doomed) \cup ({b} \X (1..PerBatch))
    /\ Done(q)
    /\ UNCHANGED <<now, challenges, count, factor, last, history>>

\* RemoveMyFactor of an active authenticator app.
RemoveTotp(f) ==
    /\ factor[f] = "active"
    /\ factor' = [factor EXCEPT ![f] = "removed"]
    /\ UNCHANGED <<now, challenges, count, last, unspent, issued, req, history>>

\* ResetUserMfa: every factor and every recovery code, in one transaction.
Reset ==
    /\ factor' = [f \in Factors |-> IF factor[f] = "none" THEN "none" ELSE "removed"]
    /\ unspent' = {}
    /\ UNCHANGED <<now, challenges, count, last, issued, req, history>>

-----------------------------------------------------------------------------
AnswerStep(q) ==
    \/ \E h \in Handles : Require(q, h)
    \/ \E h \in Handles, s \in Steps : AnswerType(q, h, s)
    \/ \E h \in Handles, c \in Codes \cup {NoCode} : AnswerRecovery(q, h, c)
    \/ \E h \in Handles : AnswerWebAuthn(q, h)
    \/ Put(q) \/ Permit(q)
    \/ CheckTotp(q) \/ SpendTotp(q) \/ SpendCode(q) \/ CheckPasskey(q)
    \/ Consume(q) \/ Fail(q) \/ Replace(q) \/ Discard(q) \/ GiveUp(q)

ManageStep(q) ==
    \/ \E f \in Factors, s \in Steps : Confirm(q, f, s)
    \/ Remaining(q) \/ Regenerate(q) \/ DeleteCodes(q)
    \/ \E b \in Batches : InsertCodes(q, b)

Next ==
    \/ Tick
    \/ \E q \in Requests : AnswerStep(q) \/ ManageStep(q)
    \/ \E f \in Factors : Begin(f) \/ RemoveTotp(f)
    \/ Reset

Spec == Init /\ [][Next]_vars

-----------------------------------------------------------------------------
(* Properties                                                               *)

\* A TOTP step and a recovery code are accepted once at most, whichever
\* challenges or confirmations they are presented to and however these
\* interleave, and never after the factor or the code was taken away.
AcceptedOnce == ~misused

\* A request whose guess a window has permitted, and that may yet be refused.
Guessing(q, w) ==
    req[q].pc \in {"check", "spend", "count"} /\ req[q].window = w

Guessers(w) == {q \in Requests : Guessing(q, w)}

\* Over all challenges and confirmations of the user, the guesses that a window
\* permits and that turn out wrong, with those not decided yet, exceed its bound
\* by no more than the requests that can be between the read of the counter and
\* its increment.  Refusals that Redis failed to count do not count.
GuessesBounded ==
    \A w \in Windows :
        refused[w] + Cardinality(Guessers(w)) < MaxPerWindow + Cardinality(Requests)

\* A challenge that was consumed, spent or has expired is never there again:
\* a wrong answer that is recorded late does not bring it back.
Gone(h) ==
    /\ h \in raised /\ ~Live(h)
    /\ \A q \in Requests : req[q].pc = "raise" => req[q].handle # h

GoneIsFinal == [][\A h \in Handles : Gone(h) => Gone(h)']_vars

\* What RecoveryStore.Issue says: there is no moment when the codes of two
\* batches work.  The code does not keep it (see Findings in the README).
OneBatch == \A c, d \in unspent : c[1] = d[1]

-----------------------------------------------------------------------------
(* Inductive invariants                                                     *)

\* What a request holds is what its step needs: a handle to act on, a challenge
\* that was not spent when it was read, and a factor when a code is for one.
Coherent(r) ==
    /\ r.pc \in {"raise", "replace", "discard", "consume"} => r.handle \in Handles
    /\ r.pc \in {"permit", "check", "spend", "count"} /\ ~r.confirms =>
          r.handle \in Handles /\ r.seen < MaxAttempts
    /\ r.pc = "replace" => r.seen < MaxAttempts
    /\ r.pc \in {"permit", "check", "spend"} =>
          /\ r.confirms \/ r.pc = "spend" => r.guess.kind = "totp"
          /\ r.guess.kind = "totp" => r.by \in Factors

Coherence == \A q \in Requests : Coherent(req[q])

\* What was accepted is behind the row it was accepted from, and a code that is
\* not spent was issued and not accepted.
AcceptedInv ==
    /\ ~misused
    /\ \A f \in Factors, s \in Steps : <<f, s>> \in accepted => s <= last[f]
    /\ unspent \cap accepted = {}
    /\ \A c \in Codes : c \in unspent \cup accepted => c[1] \in issued

\* A confirmation that will read the counter of window w.
Confirming(q, w) ==
    req[q].pc = "permit" /\ req[q].confirms /\ req[q].window = w

Claimants(w) == {q \in Requests : Guessing(q, w) \/ Confirming(q, w)}

\* Up to the current window every counted refusal is in the counter, so that one
\* that permits leaves room for every request; the counter of a window that has
\* passed is still read by the confirmations that began in it.
BoundInv ==
    /\ \A q \in Requests : req[q].window <= WindowOf(now)
    /\ \A w \in Windows : w >= WindowOf(now) => refused[w] <= count[w]
    /\ GuessesBounded
    /\ \A w \in Windows : count[w] < MaxPerWindow =>
          refused[w] + Cardinality(Claimants(w)) < MaxPerWindow + Cardinality(Requests)

MfaInv == TypeOK /\ Coherence /\ AcceptedInv /\ BoundInv
=============================================================================
