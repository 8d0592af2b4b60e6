------------------------- MODULE MfaChallengeProofs -------------------------
(***************************************************************************)
(* Theorems about MfaChallenge for every number of requests, challenges,   *)
(* factors and codes, and every bound, lifetime and window.                *)
(***************************************************************************)
EXTENDS MfaChallenge, FiniteSetTheorems, TLAPS

\* The windows of a clock that moves on are never behind those before.
LEMMA WindowMoves ==
    ASSUME NEW t \in Nat
    PROVE  /\ WindowOf(t) \in Nat /\ WindowOf(t) <= t
           /\ WindowOf(t) <= WindowOf(t + 1)
<1>1. Window \in Nat \ {0}
  BY ChallengeAssumption
<1>2. WindowOf(t) \in Nat /\ WindowOf(t) <= t
  BY <1>1, SMTT(30) DEF WindowOf
<1>3. WindowOf(t) <= WindowOf(t + 1)
  BY <1>1, SMTT(30) DEF WindowOf
<1>4. QED
  BY <1>2, <1>3

\* The requests and challenges the actions write are of the right type.
LEMMA Typed ==
    ASSUME TypeOK
    PROVE  /\ NoRequest \in Request /\ NoChallenge \in Challenge
           /\ WindowOf(now) \in Windows
           /\ \A s \in Steps : Totp(s) \in Guess
           /\ \A c \in Codes \cup {NoCode} : Recovery(c) \in Guess
           /\ Passkey \in Guess
           /\ \A q \in Requests : Charged(q) \in Windows
<1>1. Passkey \in Guess /\ (\A s \in Steps : Totp(s) \in Guess)
      /\ (\A c \in Codes \cup {NoCode} : Recovery(c) \in Guess)
  BY ChallengeAssumption DEF Passkey, Totp, Recovery, Guess, Steps
<1>2. NoRequest \in Request /\ NoChallenge \in Challenge
  BY <1>1, ChallengeAssumption DEF NoRequest, Request, NoChallenge, Challenge, Windows
<1>3. WindowOf(now) \in Windows
  <2>1. now \in Nat /\ now <= MaxTime /\ MaxTime \in Nat
    BY ChallengeAssumption DEF TypeOK, Time
  <2>2. WindowOf(now) \in Nat /\ WindowOf(now) <= now
    BY <2>1, WindowMoves
  <2>3. QED
    BY <2>1, <2>2 DEF Windows
<1>4. \A q \in Requests : Charged(q) \in Windows
  <2>1. \A q \in Requests : req[q] \in Request
    BY DEF TypeOK
  <2>2. QED
    BY <1>3, <2>1 DEF Charged, Request
<1>5. QED
  BY <1>1, <1>2, <1>3, <1>4

\* Moving a request on keeps requests well typed and coherent.
LEMMA GoTyped ==
    ASSUME TypeOK, Coherence, NEW q \in Requests, NEW r \in Request, Coherent(r), Go(q, r)
    PROVE  req' \in [Requests -> Request] /\ Coherence'
<1>1. req' \in [Requests -> Request]
  BY DEF TypeOK, Go
<1>2. \A p \in Requests : req'[p] = req[p] \/ req'[p] = r
  BY DEF TypeOK, Go
<1>3. QED
  BY <1>1, <1>2 DEF Coherence

\* A request that is over is coherent, whatever it was doing.
LEMMA DoneTyped ==
    ASSUME TypeOK, Coherence, NEW q \in Requests, Done(q)
    PROVE  req' \in [Requests -> Request] /\ Coherence'
<1>1. NoRequest \in Request
  BY Typed
<1>2. Coherent(NoRequest)
  BY DEF Coherent, NoRequest
<1>3. QED
  BY <1>1, <1>2, GoTyped DEF Done

\* The initial state is well typed.
LEMMA TypeInit == Init => TypeOK /\ Coherence
<1> SUFFICES ASSUME Init PROVE TypeOK /\ Coherence
  OBVIOUS
<1>2. NoRequest \in Request /\ NoChallenge \in Challenge
  <2>1. Passkey \in Guess
    BY ChallengeAssumption DEF Passkey, Guess, Steps
  <2>2. QED
    BY <2>1, ChallengeAssumption DEF NoRequest, Request, NoChallenge, Challenge, Windows
<1>3. Coherence
  <2>1. Coherent(NoRequest)
    BY DEF Coherent, NoRequest
  <2>2. \A q \in Requests : req[q] = NoRequest
    BY DEF Init
  <2>3. QED
    BY <2>1, <2>2 DEF Coherence
<1>4. TypeOK
  <2>1. now \in Time /\ 0 \in Steps
    BY ChallengeAssumption DEF Init, Time, Steps
  <2>2. QED
    BY <1>2, <2>1 DEF Init, TypeOK
<1>5. QED
  BY <1>3, <1>4

\* A refused answer is counted next.
LEMMA RefuseTyped ==
    ASSUME TypeOK, Coherence, NEW q \in Requests, req[q].pc \in {"check", "spend"},
           Refuse(q)
    PROVE  TypeOK' /\ Coherence'
<1> DEFINE r == [req[q] EXCEPT !.pc = "count", !.guess = Passkey, !.by = NoFactor]
<1>1. req[q] \in Request /\ Coherent(req[q])
  BY DEF TypeOK, Coherence
<1>2. r \in Request
  BY <1>1, Typed DEF Request
<1>3. Coherent(r)
  BY <1>1 DEF Coherent, Request
<1>4. req' \in [Requests -> Request] /\ Coherence'
  BY <1>2, <1>3, GoTyped DEF Refuse
<1>5. QED
  BY <1>4 DEF Refuse, TypeOK, challenges, credentials, history

\* A right answer that is not a confirmation has a challenge to consume.
LEMMA ProveTyped ==
    ASSUME TypeOK, Coherence, NEW q \in Requests, req[q].pc \in {"check", "spend"},
           ~req[q].confirms, Prove(q)
    PROVE  req' \in [Requests -> Request] /\ Coherence'
<1> DEFINE r == [NoRequest EXCEPT !.pc = "consume", !.handle = req[q].handle]
<1>1. req[q] \in Request /\ Coherent(req[q])
  BY DEF TypeOK, Coherence
<1>2. r \in Request
  BY <1>1, Typed DEF Request
<1>3. Coherent(r)
  BY <1>1 DEF Coherent, NoRequest
<1>4. QED
  BY <1>2, <1>3, GoTyped DEF Prove

\* A challenge is raised and stored.
LEMMA RaiseTyped ==
    ASSUME TypeOK, Coherence, NEW q \in Requests,
           (\E h \in Handles : Require(q, h)) \/ Put(q)
    PROVE  TypeOK' /\ Coherence'
<1>1. ASSUME NEW h \in Handles, Require(q, h)
      PROVE  TypeOK' /\ Coherence'
  <2> DEFINE r == [NoRequest EXCEPT !.pc = "raise", !.handle = h]
             c == [NoChallenge EXCEPT !.names = Active]
  <2>1. r \in Request
    BY Typed DEF Request
  <2>2. Coherent(r)
    BY DEF Coherent, NoRequest
  <2>3. req' \in [Requests -> Request] /\ Coherence'
    BY <1>1, <2>1, <2>2, GoTyped DEF Require
  <2>4. c \in Challenge
    BY Typed DEF Challenge, Active
  <2>5. challenge' \in [Handles -> Challenge]
    BY <1>1, <2>4 DEF Require, TypeOK
  <2>6. QED
    BY <1>1, <2>3, <2>5 DEF Require, TypeOK, credentials, history
<1>2. CASE Put(q)
  <2> DEFINE h == req[q].handle
             c == [challenge[h] EXCEPT !.expires = now + TTL]
  <2>1. req' \in [Requests -> Request] /\ Coherence'
    BY <1>2, DoneTyped DEF Put
  <2>2. h \in Handles
    BY <1>2 DEF Put, Coherence, Coherent
  <2>3. now + TTL \in 0..(MaxTime + TTL)
    BY ChallengeAssumption DEF TypeOK, Time
  <2>4. challenge[h] \in Challenge
    BY <2>2 DEF TypeOK
  <2>5. c \in Challenge
    BY <2>3, <2>4 DEF Challenge
  <2>6. challenge' = [challenge EXCEPT ![h] = c]
    BY <1>2 DEF Put, TypeOK
  <2>7. challenge' \in [Handles -> Challenge]
    BY <2>5, <2>6 DEF TypeOK
  <2>8. QED
    BY <1>2, <2>1, <2>2, <2>7 DEF Put, TypeOK, credentials, history
<1>3. QED
  BY <1>1, <1>2

\* An answer or the code of an enrolment arrives and is permitted.
LEMMA ArriveTyped ==
    ASSUME TypeOK, Coherence, NEW q \in Requests,
           \/ \E h \in Handles, g \in Guess : Answer(q, h, g)
           \/ \E f \in Factors, s \in Steps : Confirm(q, f, s)
           \/ Permit(q)
    PROVE  TypeOK' /\ Coherence'
<1>1. ASSUME NEW h \in Handles, NEW g \in Guess, Answer(q, h, g)
      PROVE  TypeOK' /\ Coherence'
  <2>1. PICK f \in Factors \cup {NoFactor} :
            /\ g.kind = "totp" => f \in Factors
            /\ \/ /\ challenge[h].attempts < MaxAttempts
                  /\ Go(q, [NoRequest EXCEPT !.pc = "permit", !.handle = h, !.guess = g,
                            !.seen = challenge[h].attempts, !.by = f])
               \/ Go(q, [NoRequest EXCEPT !.pc = "discard", !.handle = h])
    BY <1>1 DEF Answer, Active
  <2> DEFINE p == [NoRequest EXCEPT !.pc = "permit", !.handle = h, !.guess = g,
                                    !.seen = challenge[h].attempts, !.by = f]
             d == [NoRequest EXCEPT !.pc = "discard", !.handle = h]
  <2>2. challenge[h].attempts \in 0..MaxAttempts
    BY DEF TypeOK, Challenge
  <2>3. p \in Request /\ d \in Request
    BY <2>2, Typed DEF Request
  <2>4. Coherent(d)
    BY DEF Coherent, NoRequest
  <2>5. challenge[h].attempts < MaxAttempts => Coherent(p)
    BY <2>1 DEF Coherent, NoRequest
  <2>6. req' \in [Requests -> Request] /\ Coherence'
    BY <2>1, <2>3, <2>4, <2>5, GoTyped
  <2>7. QED
    BY <1>1, <2>6 DEF Answer, TypeOK, challenges, credentials, history
<1>2. ASSUME NEW f \in Factors, NEW s \in Steps, Confirm(q, f, s)
      PROVE  TypeOK' /\ Coherence'
  <2> DEFINE r == [NoRequest EXCEPT !.pc = "permit", !.confirms = TRUE,
                     !.guess = Totp(s), !.by = f, !.window = WindowOf(now)]
  <2>1. r \in Request
    BY Typed DEF Request
  <2>2. Coherent(r)
    BY DEF Coherent, NoRequest, Totp
  <2>3. req' \in [Requests -> Request] /\ Coherence'
    BY <1>2, <2>1, <2>2, GoTyped DEF Confirm
  <2>4. QED
    BY <1>2, <2>3 DEF Confirm, TypeOK, challenges, credentials, history
<1>3. CASE Permit(q)
  <2> DEFINE r == [req[q] EXCEPT !.pc = "check", !.window = Charged(q)]
  <2>1. req[q] \in Request /\ Coherent(req[q])
    BY DEF TypeOK, Coherence
  <2>2. r \in Request
    BY <2>1, Typed DEF Request
  <2>3. Coherent(r)
    BY <1>3, <2>1 DEF Coherent, Request, Permit
  <2>4. req' \in [Requests -> Request] /\ Coherence'
    BY <1>3, <2>2, <2>3, GoTyped DEF Permit
  <2>5. QED
    BY <1>3, <2>4 DEF Permit, TypeOK, challenges, credentials, history
<1>4. QED
  BY <1>1, <1>2, <1>3

\* An answer is verified, and the step or the code it is spent.
LEMMA VerifyTyped ==
    ASSUME TypeOK, Coherence, NEW q \in Requests,
           CheckTotp(q) \/ SpendTotp(q) \/ SpendCode(q) \/ CheckPasskey(q)
    PROVE  TypeOK' /\ Coherence'
<1> DEFINE r == req[q]
<1>1. r \in Request /\ Coherent(r)
  BY DEF TypeOK, Coherence
<1>2. r.pc \in {"check", "spend"}
  BY DEF CheckTotp, SpendTotp, SpendCode, CheckPasskey
<1>3. CASE Refuse(q)
  BY <1>2, <1>3, RefuseTyped
<1>4. CASE CheckTotp(q) /\ ~Refuse(q)
  <2> DEFINE s == [r EXCEPT !.pc = "spend"]
  <2>1. s \in Request
    BY <1>1 DEF Request
  <2>2. Coherent(s)
    BY <1>1, <1>4 DEF Coherent, Request, CheckTotp
  <2>3. req' \in [Requests -> Request] /\ Coherence'
    BY <1>4, <2>1, <2>2, GoTyped DEF CheckTotp
  <2>4. QED
    BY <1>4, <2>3 DEF CheckTotp, TypeOK, challenges, credentials, history
<1>5. CASE SpendTotp(q) /\ ~Refuse(q)
  <2> DEFINE s == [NoRequest EXCEPT !.pc = "remaining"]
             k == <<r.by, r.guess.step>>
  <2>1. r.by \in Factors /\ r.guess.step \in Steps
    BY <1>1, <1>5 DEF SpendTotp, Coherent, Request, Guess
  <2>2. s \in Request
    BY Typed DEF Request
  <2>3. Coherent(s)
    BY DEF Coherent, NoRequest
  <2>4. req' \in [Requests -> Request] /\ Coherence'
    <3>1. CASE r.confirms
      BY <1>5, <2>2, <2>3, <3>1, GoTyped DEF SpendTotp
    <3>2. CASE ~r.confirms
      BY <1>2, <1>5, <3>2, ProveTyped DEF SpendTotp
    <3>3. QED
      BY <3>1, <3>2
  <2>5. factor' \in [Factors -> {"none", "pending", "active", "removed"}]
        /\ last' \in [Factors -> Steps]
    BY <1>5, <2>1 DEF SpendTotp, TypeOK
  <2>6. accepted' \in SUBSET (Codes \cup (Factors \X Steps)) /\ misused' \in BOOLEAN
    <3>1. Accept(k, factor[r.by] \in {"pending", "active"})
      BY <1>5 DEF SpendTotp
    <3>2. k \in Factors \X Steps
      BY <2>1
    <3>3. accepted' = accepted \cup {k} /\ misused' \in BOOLEAN
      BY <3>1 DEF Accept
    <3>4. QED
      BY <3>2, <3>3 DEF TypeOK
  <2>7. UNCHANGED <<now, challenges, count, unspent, issued, refused>>
    BY <1>5 DEF SpendTotp
  <2>8. QED
    BY <2>4, <2>5, <2>6, <2>7 DEF TypeOK, challenges
<1>6. CASE SpendCode(q) /\ ~Refuse(q)
  <2>1. /\ r.guess.code \in unspent /\ unspent' = unspent \ {r.guess.code}
        /\ Accept(r.guess.code, r.guess.code \in unspent) /\ Prove(q)
        /\ UNCHANGED <<now, challenges, count, factor, last, issued, refused>>
    BY <1>6 DEF SpendCode
  <2>2. ~r.confirms
    BY <1>1, <1>6 DEF SpendCode, Coherent, Request
  <2>3. req' \in [Requests -> Request] /\ Coherence'
    BY <1>2, <2>1, <2>2, ProveTyped
  <2>4. accepted' \in SUBSET (Codes \cup (Factors \X Steps)) /\ misused' \in BOOLEAN
    BY <2>1 DEF TypeOK, Accept
  <2>5. QED
    BY <2>1, <2>3, <2>4 DEF TypeOK, challenges
<1>7. CASE CheckPasskey(q) /\ ~Refuse(q)
  <2>1. ~r.confirms
    BY <1>1, <1>7 DEF CheckPasskey, Coherent, Request
  <2>2. req' \in [Requests -> Request] /\ Coherence'
    BY <1>2, <1>7, <2>1, ProveTyped DEF CheckPasskey
  <2>3. QED
    BY <1>7, <2>2 DEF CheckPasskey, TypeOK, challenges, credentials, history
<1>8. QED
  BY <1>3, <1>4, <1>5, <1>6, <1>7

\* An answer ends: the challenge is consumed or spent, or the guess is counted
\* and recorded in the challenge.
LEMMA SettleTyped ==
    ASSUME TypeOK, Coherence, NEW q \in Requests,
           Consume(q) \/ Discard(q) \/ Fail(q) \/ Replace(q) \/ GiveUp(q)
    PROVE  TypeOK' /\ Coherence'
<1> DEFINE r == req[q]
           d == [r EXCEPT !.pc = "discard"]
           n == [r EXCEPT !.pc = "replace"]
<1>1. r \in Request /\ Coherent(r)
  BY DEF TypeOK, Coherence
<1>2. d \in Request /\ n \in Request
  BY <1>1 DEF Request
<1>3. CASE Consume(q) \/ Discard(q)
  <2>1. req' \in [Requests -> Request] /\ Coherence'
    BY <1>3, DoneTyped DEF Consume, Discard
  <2>2. stored' \in SUBSET Handles /\ challenge' \in [Handles -> Challenge]
    BY <1>3, Typed DEF Consume, Discard, Delete, TypeOK
  <2>3. QED
    BY <1>3, <2>1, <2>2 DEF Consume, Discard, TypeOK, credentials, history
<1>4. CASE Fail(q)
  <2>1. ~r.confirms => Coherent(n)
    BY <1>1, <1>4 DEF Fail, Coherent, Request
  <2>2. req' \in [Requests -> Request] /\ Coherence'
    <3>1. CASE r.confirms
      BY <1>4, <3>1, DoneTyped DEF Fail, Counted
    <3>2. CASE ~r.confirms
      BY <1>2, <1>4, <2>1, <3>2, GoTyped DEF Fail, Counted
    <3>3. QED
      BY <3>1, <3>2
  <2>3. count' \in [Windows -> Nat] /\ refused' \in [Windows -> Nat]
    BY <1>4 DEF Fail, TypeOK
  <2>4. QED
    BY <1>4, <2>2, <2>3 DEF Fail, TypeOK, challenges, credentials
<1>5. CASE Replace(q)
  <2> DEFINE c == [challenge[r.handle] EXCEPT !.attempts = r.seen + 1]
  <2>1. r.handle \in Handles /\ r.seen + 1 \in 0..MaxAttempts
    BY <1>1, <1>5, ChallengeAssumption DEF Replace, Coherent, Request
  <2>2. Coherent(d)
    BY <2>1, <1>1 DEF Coherent, Request
  <2>3. req' \in [Requests -> Request] /\ Coherence'
    <3>1. CASE r.seen + 1 >= MaxAttempts
      BY <1>2, <1>5, <2>2, <3>1, GoTyped DEF Replace
    <3>2. CASE ~(r.seen + 1 >= MaxAttempts)
      BY <1>5, <3>2, DoneTyped DEF Replace
    <3>3. QED
      BY <3>1, <3>2
  <2>4. c \in Challenge
    BY <2>1 DEF TypeOK, Challenge
  <2>5. UNCHANGED challenge \/ challenge' = [challenge EXCEPT ![r.handle] = c]
    BY <1>5 DEF Replace
  <2>6. challenge' \in [Handles -> Challenge]
    BY <2>4, <2>5 DEF TypeOK
  <2>7. UNCHANGED <<now, raised, stored, count, credentials, history>>
    BY <1>5 DEF Replace
  <2>8. QED
    BY <2>3, <2>6, <2>7 DEF TypeOK, credentials, history
<1>6. CASE GiveUp(q)
  <2>1. req' \in [Requests -> Request] /\ Coherence'
    BY <1>6, DoneTyped DEF GiveUp
  <2>2. QED
    BY <1>6, <2>1 DEF GiveUp, TypeOK, challenges, credentials, history
<1>7. QED
  BY <1>3, <1>4, <1>5, <1>6

\* Recovery codes are issued.
LEMMA IssueTyped ==
    ASSUME TypeOK, Coherence, NEW q \in Requests,
           \/ Remaining(q) \/ Regenerate(q) \/ DeleteCodes(q)
           \/ \E b \in Batches : InsertCodes(q, b)
    PROVE  TypeOK' /\ Coherence'
<1> DEFINE d == [NoRequest EXCEPT !.pc = "delete"]
           i == [NoRequest EXCEPT !.pc = "insert", !.doomed = unspent]
<1>1. d \in Request /\ i \in Request
  BY Typed DEF Request, TypeOK
<1>2. Coherent(d) /\ Coherent(i)
  BY DEF Coherent, NoRequest
<1>3. CASE Remaining(q) \/ Regenerate(q) \/ DeleteCodes(q)
  <2>1. req' \in [Requests -> Request] /\ Coherence'
    BY <1>1, <1>2, <1>3, GoTyped DEF Remaining, Regenerate, DeleteCodes
  <2>2. QED
    BY <1>3, <2>1
    DEF Remaining, Regenerate, DeleteCodes, TypeOK, challenges, credentials, history
<1>4. ASSUME NEW b \in Batches, InsertCodes(q, b)
      PROVE  TypeOK' /\ Coherence'
  <2>1. req' \in [Requests -> Request] /\ Coherence'
    BY <1>4, DoneTyped DEF InsertCodes
  <2>2. unspent' \in SUBSET Codes /\ issued' \in SUBSET Batches
    BY <1>4 DEF InsertCodes, TypeOK, Codes
  <2>3. QED
    BY <1>4, <2>1, <2>2 DEF InsertCodes, TypeOK, challenges, history
<1>5. QED
  BY <1>3, <1>4

\* Every step keeps the state well typed and the requests coherent.
LEMMA TypeStep == TypeOK /\ Coherence /\ [Next]_vars => TypeOK' /\ Coherence'
<1> SUFFICES ASSUME TypeOK, Coherence, [Next]_vars PROVE TypeOK' /\ Coherence'
  OBVIOUS
<1>1. CASE UNCHANGED vars
  BY <1>1
  DEF vars, challenges, credentials, history, TypeOK, Coherence
<1>2. CASE Tick
  BY <1>2, ChallengeAssumption
  DEF Tick, Time, challenges, credentials, history, TypeOK, Coherence
<1>3. ASSUME NEW q \in Requests, AnswerStep(q)
      PROVE  TypeOK' /\ Coherence'
  <2>1. ASSUME NEW h \in Handles, NEW g \in Guess, Answer(q, h, g)
        PROVE  TypeOK' /\ Coherence'
    BY <2>1, ArriveTyped
  <2>2. CASE \E h \in Handles, s \in Steps : Answer(q, h, Totp(s))
    BY <2>1, <2>2, Typed
  <2>3. CASE \E h \in Handles, c \in Codes \cup {NoCode} : Answer(q, h, Recovery(c))
    BY <2>1, <2>3, Typed
  <2>4. CASE \E h \in Handles : Answer(q, h, Passkey)
    BY <2>1, <2>4, Typed
  <2>5. QED
    BY <1>3, <2>2, <2>3, <2>4, RaiseTyped, ArriveTyped, VerifyTyped, SettleTyped
    DEF AnswerStep, AnswerType, AnswerRecovery, AnswerWebAuthn
<1>4. ASSUME NEW q \in Requests, ManageStep(q)
      PROVE  TypeOK' /\ Coherence'
  BY <1>4, ArriveTyped, IssueTyped DEF ManageStep
<1>5. ASSUME NEW f \in Factors, Begin(f) \/ RemoveTotp(f)
      PROVE  TypeOK' /\ Coherence'
  BY <1>5 DEF Begin, RemoveTotp, TypeOK, Coherence, challenges, history
<1>6. CASE Reset
  BY <1>6 DEF Reset, TypeOK, Coherence, challenges, history
<1>7. QED
  BY <1>1, <1>2, <1>3, <1>4, <1>5, <1>6 DEF Next

-----------------------------------------------------------------------------
(* Steps and codes                                                          *)

\* The steps that accept nothing and issue or remove no recovery code.
LEMMA SpentFrame ==
    ASSUME [Next]_vars,
           ~ \E q \in Requests :
                \/ SpendTotp(q) /\ ~Refuse(q)
                \/ SpendCode(q) /\ ~Refuse(q)
                \/ \E b \in Batches : InsertCodes(q, b),
           ~ Reset
    PROVE  UNCHANGED <<last, unspent, issued, accepted, misused>>
<1>1. CASE UNCHANGED vars \/ Tick
  BY <1>1 DEF vars, Tick, credentials, history
<1>2. ASSUME NEW q \in Requests, Refuse(q)
      PROVE  UNCHANGED <<last, unspent, issued, accepted, misused>>
  BY <1>2 DEF Refuse, credentials, history
<1>3. ASSUME NEW q \in Requests, AnswerStep(q)
      PROVE  UNCHANGED <<last, unspent, issued, accepted, misused>>
  BY <1>2, <1>3
  DEF AnswerStep, AnswerType, AnswerRecovery, AnswerWebAuthn, Require, Put,
      Answer, Permit, CheckTotp, CheckPasskey, Consume, Fail, Replace, Discard,
      GiveUp, credentials, history
<1>4. ASSUME NEW q \in Requests, ManageStep(q)
      PROVE  UNCHANGED <<last, unspent, issued, accepted, misused>>
  BY <1>4
  DEF ManageStep, Confirm, Remaining, Regenerate, DeleteCodes, credentials, history
<1>5. ASSUME NEW f \in Factors, Begin(f) \/ RemoveTotp(f)
      PROVE  UNCHANGED <<last, unspent, issued, accepted, misused>>
  BY <1>5 DEF Begin, RemoveTotp, history
<1>6. QED
  BY <1>1, <1>3, <1>4, <1>5 DEF Next

\* What is accepted stays behind its row through every step.
LEMMA AcceptedStep ==
    ASSUME TypeOK, Coherence, AcceptedInv, [Next]_vars
    PROVE  AcceptedInv'
<1> USE DEF AcceptedInv
<1>0. \A f \in Factors, s \in Steps : <<f, s>> \notin Codes
  BY ChallengeAssumption DEF Codes
<1>1. ASSUME NEW q \in Requests, SpendTotp(q), ~Refuse(q)
      PROVE  AcceptedInv'
  <2> DEFINE f == req[q].by
             s == req[q].guess.step
  <2>1. req[q] \in Request /\ Coherent(req[q])
    BY DEF TypeOK, Coherence
  <2>2. f \in Factors /\ s \in Steps
    BY <1>1, <2>1 DEF SpendTotp, Coherent, Request, Guess
  <2>3. /\ Fresh(f, s) /\ last' = [last EXCEPT ![f] = s]
        /\ Accept(<<f, s>>, factor[f] \in {"pending", "active"})
        /\ UNCHANGED <<unspent, issued>>
    BY <1>1 DEF SpendTotp
  <2>4. last[f] \in Nat /\ s \in Nat /\ last[f] < s
    BY <2>2, <2>3 DEF TypeOK, Fresh, Steps
  <2>5. <<f, s>> \notin accepted
    BY <2>2, <2>4
  <2>6. ~misused'
    BY <2>3, <2>5 DEF Accept, Fresh
  <2>7. accepted' = accepted \cup {<<f, s>>}
    BY <2>3 DEF Accept
  <2>8. ASSUME NEW g \in Factors, NEW t \in Steps, <<g, t>> \in accepted'
        PROVE  t <= last'[g]
    <3>1. CASE g = f
      BY <2>2, <2>3, <2>4, <2>7, <2>8, <3>1 DEF TypeOK, Steps
    <3>2. CASE g # f
      BY <2>2, <2>3, <2>7, <2>8, <3>2 DEF TypeOK
    <3>3. QED
      BY <3>1, <3>2
  <2>9. <<f, s>> \notin Codes
    BY <1>0, <2>2
  <2>10. unspent' \cap accepted' = {}
    BY <2>3, <2>7, <2>9 DEF TypeOK
  <2>11. \A c \in Codes : c \in unspent' \cup accepted' => c[1] \in issued'
    BY <2>3, <2>7, <2>9
  <2>12. QED
    BY <2>6, <2>8, <2>10, <2>11
<1>2. ASSUME NEW q \in Requests, SpendCode(q), ~Refuse(q)
      PROVE  AcceptedInv'
  <2> DEFINE c == req[q].guess.code
  <2>1. /\ c \in unspent /\ unspent' = unspent \ {c}
        /\ Accept(c, c \in unspent) /\ UNCHANGED <<last, issued>>
    BY <1>2 DEF SpendCode
  <2>2. c \in Codes /\ c \notin accepted
    BY <2>1 DEF TypeOK
  <2>3. accepted' = accepted \cup {c} /\ ~misused'
    BY <2>1, <2>2 DEF Accept
  <2>4. \A f \in Factors, s \in Steps : <<f, s>> \in accepted' => s <= last'[f]
    BY <1>0, <2>1, <2>2, <2>3
  <2>5. unspent' \cap accepted' = {}
    BY <2>1, <2>3
  <2>6. \A d \in Codes : d \in unspent' \cup accepted' => d[1] \in issued'
    BY <2>1, <2>3
  <2>7. QED
    BY <2>3, <2>4, <2>5, <2>6
<1>3. ASSUME NEW q \in Requests, NEW b \in Batches, InsertCodes(q, b)
      PROVE  AcceptedInv'
  <2>1. /\ b \notin issued /\ issued' = issued \cup {b}
        /\ unspent' = (unspent \ req[q].doomed) \cup ({b} \X (1..PerBatch))
        /\ UNCHANGED <<last, accepted, misused>>
    BY <1>3 DEF InsertCodes, history
  <2>2. \A c \in {b} \X (1..PerBatch) : c \in Codes /\ c[1] = b
    BY DEF Codes
  <2>3. unspent' \cap accepted' = {}
    BY <2>1, <2>2
  <2>4. \A c \in Codes : c \in unspent' \cup accepted' => c[1] \in issued'
    BY <2>1, <2>2
  <2>5. QED
    BY <2>1, <2>3, <2>4
<1>4. CASE Reset
  BY <1>4 DEF Reset, history
<1>5. CASE UNCHANGED <<last, unspent, issued, accepted, misused>>
  BY <1>5
<1>6. QED
  BY <1>1, <1>2, <1>3, <1>4, <1>5, SpentFrame

-----------------------------------------------------------------------------
(* Challenges that are gone                                                 *)

\* Only Require begins to raise a challenge.
LEMMA RaiseFrame ==
    ASSUME TypeOK, [Next]_vars,
           ~ \E q \in Requests, h \in Handles : Require(q, h)
    PROVE  /\ raised' = raised
           /\ \A p \in Requests : req'[p] = req[p] \/ req'[p].pc # "raise"
<1> DEFINE Kept == \A p \in Requests : req'[p] = req[p] \/ req'[p].pc # "raise"
<1>1. \A q \in Requests : req[q] \in Request
  BY DEF TypeOK
<1>2. ASSUME NEW q \in Requests, NEW r, r.pc # "raise", Go(q, r)
      PROVE  Kept
  BY <1>2 DEF Go, TypeOK
<1>3. ASSUME NEW q \in Requests, Done(q) PROVE Kept
  BY <1>2, <1>3 DEF Done, NoRequest
<1>4. ASSUME NEW q \in Requests, Refuse(q) \/ Prove(q) PROVE Kept
  BY <1>1, <1>2, <1>4 DEF Refuse, Prove, NoRequest, Request
<1>5. ASSUME NEW q \in Requests, AnswerStep(q)
      PROVE  raised' = raised /\ Kept
  <2>1. raised' = raised
    BY <1>5
    DEF AnswerStep, AnswerType, AnswerRecovery, AnswerWebAuthn, Put, Answer,
        Permit, CheckTotp, CheckPasskey, Consume, Fail, Replace, Discard,
        GiveUp, SpendTotp, SpendCode, Refuse, challenges
  <2>2. CASE Put(q) \/ Consume(q) \/ Discard(q) \/ GiveUp(q)
    BY <2>1, <1>3, <2>2 DEF Put, Consume, Discard, GiveUp
  <2>3. ASSUME NEW h \in Handles, NEW g, Answer(q, h, g) PROVE Kept
    BY <1>2, <2>3 DEF Answer, NoRequest
  <2>4. CASE Permit(q)
    BY <2>1, <1>1, <1>2, <2>4 DEF Permit, Request
  <2>5. CASE CheckTotp(q)
    BY <2>1, <1>1, <1>2, <1>4, <2>5 DEF CheckTotp, Request
  <2>6. CASE SpendTotp(q)
    BY <2>1, <1>2, <1>4, <2>6 DEF SpendTotp, NoRequest
  <2>7. CASE SpendCode(q) \/ CheckPasskey(q)
    BY <2>1, <1>4, <2>7 DEF SpendCode, CheckPasskey
  <2>8. CASE Fail(q)
    BY <2>1, <1>1, <1>2, <1>3, <2>8 DEF Fail, Counted, Request
  <2>9. CASE Replace(q)
    BY <2>1, <1>1, <1>2, <1>3, <2>9 DEF Replace, Request
  <2>10. QED
    BY <1>5, <2>1, <2>2, <2>3, <2>4, <2>5, <2>6, <2>7, <2>8, <2>9
    DEF AnswerStep, AnswerType, AnswerRecovery, AnswerWebAuthn
<1>6. ASSUME NEW q \in Requests, ManageStep(q)
      PROVE  raised' = raised /\ Kept
  <2>1. raised' = raised
    BY <1>6 DEF ManageStep, Confirm, Remaining, Regenerate, DeleteCodes,
       InsertCodes, challenges
  <2>2. Kept
    BY <1>2, <1>3, <1>6 DEF ManageStep, Confirm, Remaining, Regenerate,
       DeleteCodes, InsertCodes, NoRequest
  <2>3. QED
    BY <2>1, <2>2
<1>7. ASSUME req' = req PROVE Kept
  BY <1>7
<1>8. QED
  BY <1>5, <1>6, <1>7 DEF Next, vars, Tick, Begin, RemoveTotp, Reset, challenges

\* Only Put makes a challenge live.
LEMMA LiveFrame ==
    ASSUME TypeOK, Coherence, [Next]_vars, NEW h \in raised,
           ~ \E q \in Requests : Put(q) /\ req[q].handle = h,
           Live(h)'
    PROVE  Live(h)
<1> USE DEF Live
<1>1. h \in Handles /\ challenge[h].expires \in Nat /\ now \in Nat
  BY ChallengeAssumption DEF TypeOK, Challenge, Time
<1>2. CASE UNCHANGED <<now, challenges>>
  BY <1>2 DEF challenges
<1>3. CASE Tick
  BY <1>1, <1>3 DEF Tick, challenges
<1>4. ASSUME NEW q \in Requests, NEW g \in Handles, Require(q, g)
      PROVE  Live(h)
  BY <1>1, <1>4 DEF Require, TypeOK
<1>5. ASSUME NEW q \in Requests, Put(q) PROVE Live(h)
  BY <1>1, <1>5 DEF Put, TypeOK
<1>6. ASSUME NEW q \in Requests, Consume(q) \/ Discard(q)
      PROVE  Live(h)
  BY <1>1, <1>6 DEF Consume, Discard, Delete, TypeOK
<1>7. ASSUME NEW q \in Requests, Replace(q) PROVE Live(h)
  <2>1. stored' = stored /\ now' = now
    BY <1>7 DEF Replace
  <2>2. challenge'[h].expires = challenge[h].expires
    <3>1. CASE req[q].handle = h
      BY <1>1, <1>7, <3>1 DEF Replace, TypeOK, Challenge
    <3>2. CASE req[q].handle # h
      BY <1>1, <1>7, <3>2 DEF Replace, TypeOK
    <3>3. QED
      BY <3>1, <3>2
  <2>3. QED
    BY <2>1, <2>2
<1>8. ASSUME NEW q \in Requests, AnswerStep(q) PROVE Live(h)
  BY <1>2, <1>4, <1>5, <1>6, <1>7, <1>8
  DEF AnswerStep, AnswerType, AnswerRecovery, AnswerWebAuthn, Answer, Permit,
      CheckTotp, SpendTotp, SpendCode, CheckPasskey, Fail, GiveUp, Refuse
<1>9. ASSUME NEW q \in Requests, ManageStep(q) PROVE Live(h)
  BY <1>2, <1>9
  DEF ManageStep, Confirm, Remaining, Regenerate, DeleteCodes, InsertCodes
<1>10. QED
  BY <1>2, <1>3, <1>8, <1>9 DEF Next, vars, Begin, RemoveTotp, Reset

\* A challenge that is gone is gone after every step.
LEMMA GoneStep ==
    ASSUME TypeOK, Coherence, [Next]_vars, NEW h \in Handles, Gone(h)
    PROVE  Gone(h)'
<1> USE DEF Gone
<1>1. ~Live(h)'
  BY LiveFrame DEF Put
<1>2. CASE \E q \in Requests, g \in Handles : Require(q, g)
  <2>1. PICK q \in Requests, g \in Handles : Require(q, g)
    BY <1>2
  <2>2. g # h /\ h \in raised'
    BY <2>1 DEF Require
  <2>3. \A p \in Requests : req'[p] = req[p] \/ req'[p].handle = g
    BY <2>1, Typed DEF Require, Go, TypeOK, Request
  <2>4. QED
    BY <1>1, <2>2, <2>3
<1>3. CASE ~ \E q \in Requests, g \in Handles : Require(q, g)
  BY <1>1, <1>3, RaiseFrame
<1>4. QED
  BY <1>2, <1>3

-----------------------------------------------------------------------------
(* Guesses                                                                  *)

\* What a step of request q leaves of its claim on a window: it gains none.
Yields(q) ==
    /\ req'[q].window \in {req[q].window, 0}
    /\ \A w \in Windows : Guessing(q, w)' => Guessing(q, w)
    /\ \A w \in Windows : Confirming(q, w)' => Confirming(q, w)

\* Only Confirm and Permit claim, and only Fail counts.
LEMMA ClaimFrame ==
    ASSUME TypeOK, Coherence, [Next]_vars,
           ~ \E q \in Requests :
                \/ \E f \in Factors, s \in Steps : Confirm(q, f, s)
                \/ Permit(q) \/ Fail(q)
    PROVE  /\ UNCHANGED <<count, refused>>
           /\ now' = now \/ now' = now + 1
           /\ \A q \in Requests : Yields(q)
<1> DEFINE Kept == \A p \in Requests : Yields(p)
           Quiet == UNCHANGED <<count, refused>> /\ (now' = now \/ now' = now + 1)
<1> USE DEF Yields, Guessing, Confirming
<1>1. \A q \in Requests : req[q] \in Request
  BY DEF TypeOK
<1>2. ASSUME NEW q \in Requests, NEW r,
             /\ r.window \in {req[q].window, 0}
             /\ r.pc \in {"check", "spend", "count"} =>
                   req[q].pc \in {"check", "spend", "count"} /\ r.window = req[q].window
             /\ ~(r.pc = "permit" /\ r.confirms),
             Go(q, r)
      PROVE  Kept
  <2>1. req'[q] = r /\ \A p \in Requests \ {q} : req'[p] = req[p]
    BY <1>2 DEF Go, TypeOK
  <2>2. Yields(q)
    BY <1>2, <2>1
  <2>3. ASSUME NEW p \in Requests \ {q} PROVE Yields(p)
    BY <2>1
  <2>4. QED
    BY <2>2, <2>3
<1>3. ASSUME NEW q \in Requests, Done(q) PROVE Kept
  BY <1>2, <1>3 DEF Done, NoRequest
<1>4. ASSUME NEW q \in Requests, Refuse(q), req[q].pc \in {"check", "spend"} PROVE Kept
  BY <1>1, <1>2, <1>4 DEF Refuse, Request
<1>5. ASSUME NEW q \in Requests, Prove(q) PROVE Kept
  BY <1>1, <1>2, <1>5 DEF Prove, NoRequest
<1>6. ASSUME NEW q \in Requests, AnswerStep(q)
      PROVE  Quiet /\ Kept
  <2>1. Quiet
    BY <1>6
    DEF AnswerStep, AnswerType, AnswerRecovery, AnswerWebAuthn, Require, Put,
        Answer, CheckTotp, CheckPasskey, Consume, Replace, Discard, GiveUp,
        SpendTotp, SpendCode, Refuse, history
  <2>2. CASE Put(q) \/ Consume(q) \/ Discard(q) \/ GiveUp(q)
    BY <1>3, <2>1, <2>2 DEF Put, Consume, Discard, GiveUp
  <2>3. ASSUME NEW h \in Handles, NEW g, Answer(q, h, g) PROVE Kept
    BY <1>2, <2>3 DEF Answer, NoRequest
  <2>4. ASSUME NEW h \in Handles, Require(q, h) PROVE Kept
    BY <1>2, <2>4 DEF Require, NoRequest
  <2>5. CASE CheckTotp(q)
    BY <1>1, <1>2, <1>4, <2>1, <2>5 DEF CheckTotp, Request
  <2>6. CASE SpendTotp(q)
    BY <1>2, <1>4, <1>5, <2>1, <2>6 DEF SpendTotp, NoRequest
  <2>7. CASE SpendCode(q) \/ CheckPasskey(q)
    BY <1>4, <1>5, <2>1, <2>7 DEF SpendCode, CheckPasskey
  <2>8. CASE Replace(q)
    BY <1>1, <1>2, <1>3, <2>1, <2>8 DEF Replace, Request
  <2>9. QED
    BY <1>6, <2>1, <2>2, <2>3, <2>4, <2>5, <2>6, <2>7, <2>8
    DEF AnswerStep, AnswerType, AnswerRecovery, AnswerWebAuthn
<1>7. ASSUME NEW q \in Requests, ManageStep(q)
      PROVE  Quiet /\ Kept
  <2>1. Quiet
    BY <1>7 DEF ManageStep, Remaining, Regenerate, DeleteCodes, InsertCodes, history
  <2>2. Kept
    BY <1>2, <1>3, <1>7 DEF ManageStep, Remaining, Regenerate, DeleteCodes,
       InsertCodes, NoRequest
  <2>3. QED
    BY <2>1, <2>2
<1>8. ASSUME req' = req PROVE Kept
  BY <1>8
<1>9. QED
  BY <1>6, <1>7, <1>8 DEF Next, vars, Tick, Begin, RemoveTotp, Reset, history

\* How the requests with a claim on a window are counted.
LEMMA ClaimsFinite ==
    ASSUME TypeOK, NEW w
    PROVE  /\ IsFiniteSet(Guessers(w)) /\ Cardinality(Guessers(w)) \in Nat
           /\ IsFiniteSet(Claimants(w)) /\ Cardinality(Claimants(w)) \in Nat
           /\ Cardinality(Requests) \in Nat
           /\ Cardinality(Guessers(w)) <= Cardinality(Claimants(w))
           /\ Cardinality(Claimants(w)) <= Cardinality(Requests)
<1>1. IsFiniteSet(Requests)
  BY ChallengeAssumption
<1>2. Claimants(w) \in SUBSET Requests /\ Guessers(w) \in SUBSET Claimants(w)
  BY DEF Claimants, Guessers
<1>3. IsFiniteSet(Claimants(w)) /\ Cardinality(Claimants(w)) <= Cardinality(Requests)
  BY <1>1, <1>2, FS_Subset
<1>4. IsFiniteSet(Guessers(w)) /\ Cardinality(Guessers(w)) <= Cardinality(Claimants(w))
  BY <1>2, <1>3, FS_Subset
<1>5. QED
  BY <1>1, <1>3, <1>4, FS_CardinalityType

\* A step that claims and counts nothing keeps the bound.
LEMMA BoundFrame ==
    ASSUME TypeOK, TypeOK', BoundInv, UNCHANGED <<count, refused>>,
           now' = now \/ now' = now + 1, \A q \in Requests : Yields(q)
    PROVE  BoundInv'
<1>1. /\ now \in Nat /\ now' \in Nat /\ WindowOf(now) \in Nat /\ WindowOf(now') \in Nat
      /\ WindowOf(now) <= WindowOf(now')
  <2>1. now \in Nat
    BY DEF TypeOK, Time
  <2>2. QED
    BY <2>1, WindowMoves
<1>2. \A q \in Requests : req'[q].window <= WindowOf(now')
  <2>1. ASSUME NEW q \in Requests PROVE req'[q].window <= WindowOf(now')
    <3>1. req[q].window \in Nat /\ req[q].window <= WindowOf(now)
      BY DEF TypeOK, Request, Windows, BoundInv
    <3>2. QED
      BY <1>1, <3>1 DEF Yields
  <2>2. QED
    BY <2>1
<1>3. \A w \in Windows : w >= WindowOf(now') => refused'[w] <= count'[w]
  BY <1>1 DEF BoundInv, Windows
<1>4. ASSUME NEW w \in Windows
      PROVE  /\ Cardinality(Guessers(w))' <= Cardinality(Guessers(w))
             /\ Cardinality(Claimants(w))' <= Cardinality(Claimants(w))
             /\ Cardinality(Guessers(w)) \in Nat /\ Cardinality(Guessers(w))' \in Nat
             /\ Cardinality(Claimants(w)) \in Nat /\ Cardinality(Claimants(w))' \in Nat
  <2>1. Guessers(w)' \in SUBSET Guessers(w) /\ Claimants(w)' \in SUBSET Claimants(w)
    BY DEF Yields, Guessers, Claimants
  <2>2. QED
    BY <2>1, ClaimsFinite, FS_Subset, FS_CardinalityType
<1>5. GuessesBounded'
  <2>1. ASSUME NEW w \in Windows
        PROVE  refused'[w] + Cardinality(Guessers(w))'
                   < MaxPerWindow + Cardinality(Requests)
    <3>1. refused[w] + Cardinality(Guessers(w)) < MaxPerWindow + Cardinality(Requests)
      BY DEF BoundInv, GuessesBounded
    <3>2. refused[w] \in Nat /\ MaxPerWindow \in Nat /\ Cardinality(Requests) \in Nat
      BY ClaimsFinite, ChallengeAssumption DEF TypeOK
    <3>3. QED
      BY <1>4, <3>1, <3>2
  <2>2. QED
    BY <2>1 DEF GuessesBounded
<1>6. ASSUME NEW w \in Windows, count'[w] < MaxPerWindow
      PROVE  refused'[w] + Cardinality(Claimants(w))'
                 < MaxPerWindow + Cardinality(Requests)
  <2>1. refused[w] + Cardinality(Claimants(w)) < MaxPerWindow + Cardinality(Requests)
    BY <1>6 DEF BoundInv
  <2>2. refused[w] \in Nat /\ MaxPerWindow \in Nat /\ Cardinality(Requests) \in Nat
    BY ClaimsFinite, ChallengeAssumption DEF TypeOK
  <2>3. QED
    BY <1>4, <2>1, <2>2
<1>7. QED
  BY <1>2, <1>3, <1>5, <1>6 DEF BoundInv

\* A request claims the window wc: there is room for all of them in it, or it
\* claimed the window before.
LEMMA BoundClaim ==
    ASSUME TypeOK, TypeOK', BoundInv, UNCHANGED <<now, count, refused>>,
           NEW wc \in Windows,
           \A q \in Requests : req'[q].window <= WindowOf(now),
           \A w \in Windows \ {wc} : /\ Guessers(w)' \in SUBSET Guessers(w)
                                     /\ Claimants(w)' \in SUBSET Claimants(w),
           count[wc] < MaxPerWindow \/ Guessers(wc)' \in SUBSET Guessers(wc),
           refused[wc] <= count[wc] \/ Claimants(wc)' \in SUBSET Claimants(wc)
    PROVE  BoundInv'
<1>1. ASSUME NEW w \in Windows
      PROVE  /\ refused[w] \in Nat /\ count[w] \in Nat /\ MaxPerWindow \in Nat
             /\ Cardinality(Requests) \in Nat
             /\ Cardinality(Guessers(w)) \in Nat /\ Cardinality(Guessers(w))' \in Nat
             /\ Cardinality(Claimants(w)) \in Nat /\ Cardinality(Claimants(w))' \in Nat
             /\ Cardinality(Guessers(w))' <= Cardinality(Claimants(w))'
             /\ Cardinality(Claimants(w))' <= Cardinality(Requests)
             /\ Guessers(w)' \in SUBSET Guessers(w) =>
                   Cardinality(Guessers(w))' <= Cardinality(Guessers(w))
             /\ Claimants(w)' \in SUBSET Claimants(w) =>
                   Cardinality(Claimants(w))' <= Cardinality(Claimants(w))
  <2>1. /\ IsFiniteSet(Guessers(w)) /\ Cardinality(Guessers(w)) \in Nat
        /\ IsFiniteSet(Claimants(w)) /\ Cardinality(Claimants(w)) \in Nat
        /\ Cardinality(Requests) \in Nat
    BY ClaimsFinite
  <2>2. IsFiniteSet(Requests) /\ Claimants(w)' \in SUBSET Requests
        /\ Guessers(w)' \in SUBSET Claimants(w)'
    BY ChallengeAssumption DEF Claimants, Guessers
  <2>3. IsFiniteSet(Claimants(w)') /\ Cardinality(Claimants(w)') <= Cardinality(Requests)
    BY <2>2, FS_Subset
  <2>4. IsFiniteSet(Guessers(w)')
        /\ Cardinality(Guessers(w)') <= Cardinality(Claimants(w)')
    BY <2>2, <2>3, FS_Subset
  <2>5. Cardinality(Claimants(w)') \in Nat /\ Cardinality(Guessers(w)') \in Nat
    BY <2>3, <2>4, FS_CardinalityType
  <2>6. Guessers(w)' \in SUBSET Guessers(w) =>
            Cardinality(Guessers(w)') <= Cardinality(Guessers(w))
    BY <2>1, FS_Subset
  <2>7. Claimants(w)' \in SUBSET Claimants(w) =>
            Cardinality(Claimants(w)') <= Cardinality(Claimants(w))
    BY <2>1, FS_Subset
  <2>8. refused[w] \in Nat /\ count[w] \in Nat /\ MaxPerWindow \in Nat
    BY ChallengeAssumption DEF TypeOK
  <2>9. QED
    BY <2>1, <2>3, <2>4, <2>5, <2>6, <2>7, <2>8
<1>2. ASSUME NEW w \in Windows, count[w] < MaxPerWindow
      PROVE  refused[w] + Cardinality(Claimants(w))' < MaxPerWindow + Cardinality(Requests)
  <2>1. refused[w] + Cardinality(Claimants(w)) < MaxPerWindow + Cardinality(Requests)
    BY <1>2 DEF BoundInv
  <2>2. CASE Claimants(w)' \in SUBSET Claimants(w)
    BY <1>1, <2>1, <2>2
  <2>3. CASE refused[w] <= count[w]
    BY <1>1, <1>2, <2>3
  <2>4. QED
    BY <2>2, <2>3
<1>3. ASSUME NEW w \in Windows
      PROVE  refused[w] + Cardinality(Guessers(w))' < MaxPerWindow + Cardinality(Requests)
  <2>1. CASE Guessers(w)' \in SUBSET Guessers(w)
    <3>1. refused[w] + Cardinality(Guessers(w)) < MaxPerWindow + Cardinality(Requests)
      BY DEF BoundInv, GuessesBounded
    <3>2. QED
      BY <1>1, <2>1, <3>1
  <2>2. CASE count[w] < MaxPerWindow
    <3>1. refused[w] + Cardinality(Claimants(w))' < MaxPerWindow + Cardinality(Requests)
      BY <1>2, <2>2
    <3>2. QED
      BY <1>1, <3>1
  <2>3. QED
    BY <2>1, <2>2
<1>4. GuessesBounded'
  BY <1>3 DEF GuessesBounded
<1>5. QED
  BY <1>2, <1>4 DEF BoundInv

\* A guess is permitted, or is about to be in the window it will be counted in.
LEMMA BoundPermit ==
    ASSUME TypeOK, TypeOK', Coherence, BoundInv, NEW q \in Requests,
           (\E f \in Factors, s \in Steps : Confirm(q, f, s)) \/ Permit(q)
    PROVE  BoundInv'
<1> USE DEF Guessing, Confirming, Guessers, Claimants
<1>1. WindowOf(now) \in Windows /\ Charged(q) \in Windows /\ req[q] \in Request
  BY Typed DEF TypeOK
<1>2. \A p \in Requests : req[p].window <= WindowOf(now)
  BY DEF BoundInv
<1>3. ASSUME NEW f \in Factors, NEW s \in Steps, Confirm(q, f, s)
      PROVE  BoundInv'
  <2>0. PICK wc \in Windows : wc = WindowOf(now)
    BY <1>1
  <2> DEFINE r == [NoRequest EXCEPT !.pc = "permit", !.confirms = TRUE,
                     !.guess = Totp(s), !.by = f, !.window = wc]
  <2>1. req' = [req EXCEPT ![q] = r] /\ UNCHANGED <<now, count, refused>>
    BY <1>3, <2>0 DEF Confirm, Go, history
  <2>2. r.pc = "permit" /\ r.window = wc
    BY DEF NoRequest
  <2>3. req'[q] = r /\ \A p \in Requests \ {q} : req'[p] = req[p]
    BY <2>1 DEF TypeOK
  <2>4. wc >= WindowOf(now) /\ wc <= WindowOf(now)
    BY <2>0 DEF Windows
  <2>5. \A p \in Requests : req'[p].window <= WindowOf(now)
    BY <1>2, <2>2, <2>3, <2>4
  <2>6. \A w \in Windows : Guessers(w)' \in SUBSET Guessers(w)
    BY <2>2, <2>3
  <2>7. \A w \in Windows \ {wc} : Claimants(w)' \in SUBSET Claimants(w)
    BY <2>2, <2>3
  <2>8. refused[wc] <= count[wc]
    BY <1>1, <2>4 DEF BoundInv
  <2>9. QED
    BY <1>1, <2>1, <2>5, <2>6, <2>7, <2>8, BoundClaim
<1>4. CASE Permit(q)
  <2>0. PICK wc \in Windows : wc = Charged(q)
    BY <1>1
  <2> DEFINE r == [req[q] EXCEPT !.pc = "check", !.window = wc]
  <2>1. /\ req[q].pc = "permit" /\ count[wc] < MaxPerWindow
        /\ req' = [req EXCEPT ![q] = r] /\ UNCHANGED <<now, count, refused>>
    BY <1>4, <2>0 DEF Permit, Go, history
  <2>2. r.pc = "check" /\ r.window = wc
    BY <1>1 DEF Request
  <2>3. req'[q] = r /\ \A p \in Requests \ {q} : req'[p] = req[p]
    BY <2>1 DEF TypeOK
  <2>4. wc <= WindowOf(now)
    BY <1>1, <1>2, <2>0 DEF Charged, Windows
  <2>5. \A p \in Requests : req'[p].window <= WindowOf(now)
    BY <1>2, <2>2, <2>3, <2>4
  <2>6. \A w \in Windows \ {wc} : /\ Guessers(w)' \in SUBSET Guessers(w)
                                  /\ Claimants(w)' \in SUBSET Claimants(w)
    BY <2>2, <2>3
  <2>7. CASE req[q].confirms
    <3>1. Claimants(wc)' \in SUBSET Claimants(wc)
      BY <2>0, <2>1, <2>2, <2>3, <2>7 DEF Charged
    <3>2. QED
      BY <2>1, <2>5, <2>6, <3>1, BoundClaim
  <2>8. CASE ~req[q].confirms
    <3>1. wc = WindowOf(now) /\ wc >= WindowOf(now)
      BY <1>1, <2>0, <2>8 DEF Charged, Windows
    <3>2. refused[wc] <= count[wc]
      BY <1>1, <3>1 DEF BoundInv
    <3>3. QED
      BY <1>1, <2>1, <2>5, <2>6, <3>2, BoundClaim
  <2>9. QED
    BY <2>7, <2>8
<1>5. QED
  BY <1>3, <1>4

\* A wrong guess is counted: its claim becomes a refusal.
LEMMA BoundFail ==
    ASSUME TypeOK, TypeOK', BoundInv, NEW q \in Requests, Fail(q)
    PROVE  BoundInv'
<1> USE DEF Guessing, Confirming, Guessers, Claimants
<1> DEFINE wc == req[q].window
<1>1. /\ req[q].pc = "count" /\ now' = now /\ req[q] \in Request /\ wc \in Windows
      /\ WindowOf(now) \in Windows /\ Charged(q) \in Windows
      /\ wc <= WindowOf(now)
  BY Typed DEF Fail, TypeOK, Request, BoundInv
<1>2. /\ req'[q].window \in {wc, 0}
      /\ req'[q].pc \in {"idle", "replace"}
      /\ \A p \in Requests \ {q} : req'[p] = req[p]
  BY <1>1 DEF Fail, Counted, Done, Go, NoRequest, TypeOK, Request
<1>3. \A p \in Requests : req'[p].window <= WindowOf(now')
  <2>1. 0 <= WindowOf(now)
    BY <1>1 DEF Windows
  <2>2. QED
    BY <1>1, <1>2, <2>1 DEF BoundInv
<1>4. \A w \in Windows : /\ Guessers(w)' = Guessers(w) \ {q}
                         /\ Claimants(w)' = Claimants(w) \ {q}
  BY <1>2
<1>5. CASE UNCHANGED <<count, refused>>
  <2>1. \A p \in Requests : Yields(p)
    BY <1>1, <1>2 DEF Yields
  <2>2. QED
    BY <1>1, <1>5, <2>1, BoundFrame
<1>6. CASE /\ count' = [count EXCEPT ![Charged(q)] = @ + 1]
           /\ refused' = [refused EXCEPT ![wc] = @ + 1]
  <2>1. ASSUME NEW w \in Windows
        PROVE  /\ refused[w] \in Nat /\ count[w] \in Nat
               /\ refused'[w] = (IF w = wc THEN refused[w] + 1 ELSE refused[w])
               /\ count'[w] = (IF w = Charged(q) THEN count[w] + 1 ELSE count[w])
    BY <1>1, <1>6 DEF TypeOK
  <2>2. q \in Guessers(wc) /\ q \in Claimants(wc)
    BY <1>1
  <2>3. ASSUME NEW w \in Windows
        PROVE  /\ Cardinality(Guessers(w)) \in Nat /\ Cardinality(Claimants(w)) \in Nat
               /\ Cardinality(Guessers(w))' \in Nat /\ Cardinality(Claimants(w))' \in Nat
               /\ Cardinality(Guessers(w))' <= Cardinality(Guessers(w))
               /\ Cardinality(Claimants(w))' <= Cardinality(Claimants(w))
               /\ w = wc => /\ Cardinality(Guessers(w))' = Cardinality(Guessers(w)) - 1
                            /\ Cardinality(Claimants(w))' = Cardinality(Claimants(w)) - 1
    <3>1. /\ IsFiniteSet(Guessers(w)) /\ Cardinality(Guessers(w)) \in Nat
          /\ IsFiniteSet(Claimants(w)) /\ Cardinality(Claimants(w)) \in Nat
      BY ClaimsFinite
    <3>2. /\ IsFiniteSet(Guessers(w) \ {q})
          /\ Cardinality(Guessers(w) \ {q}) =
                IF q \in Guessers(w) THEN Cardinality(Guessers(w)) - 1
                ELSE Cardinality(Guessers(w))
      BY <3>1, FS_RemoveElement
    <3>3. /\ IsFiniteSet(Claimants(w) \ {q})
          /\ Cardinality(Claimants(w) \ {q}) =
                IF q \in Claimants(w) THEN Cardinality(Claimants(w)) - 1
                ELSE Cardinality(Claimants(w))
      BY <3>1, FS_RemoveElement
    <3>4. Cardinality(Guessers(w) \ {q}) \in Nat /\ Cardinality(Claimants(w) \ {q}) \in Nat
      BY <3>2, <3>3, FS_CardinalityType
    <3>5. Guessers(w)' = Guessers(w) \ {q} /\ Claimants(w)' = Claimants(w) \ {q}
      BY <1>4
    <3> HIDE DEF Guessers, Claimants
    <3>6. QED
      BY <2>2, <3>1, <3>2, <3>3, <3>4, <3>5
  <2> HIDE DEF Guessers, Claimants
  <2>4. ASSUME NEW w \in Windows, w >= WindowOf(now')
        PROVE  refused'[w] <= count'[w]
    <3>1. refused[w] <= count[w]
      BY <1>1, <2>4 DEF BoundInv
    <3>2. w = wc => w = Charged(q)
      BY <1>1, <2>4 DEF Charged, Windows
    <3>3. QED
      BY <2>1, <3>1, <3>2
  <2>5. MaxPerWindow \in Nat /\ Cardinality(Requests) \in Nat
    BY ClaimsFinite, ChallengeAssumption
  <2>6. ASSUME NEW w \in Windows
        PROVE  refused'[w] + Cardinality(Guessers(w))'
                   < MaxPerWindow + Cardinality(Requests)
    <3>1. refused[w] + Cardinality(Guessers(w)) < MaxPerWindow + Cardinality(Requests)
      BY DEF BoundInv, GuessesBounded
    <3>2. QED
      BY <2>1, <2>3, <2>5, <3>1
  <2>7. ASSUME NEW w \in Windows, count'[w] < MaxPerWindow
        PROVE  refused'[w] + Cardinality(Claimants(w))'
                   < MaxPerWindow + Cardinality(Requests)
    <3>1. count[w] < MaxPerWindow
      BY <2>1, <2>5, <2>7
    <3>2. refused[w] + Cardinality(Claimants(w)) < MaxPerWindow + Cardinality(Requests)
      BY <3>1 DEF BoundInv
    <3>3. QED
      BY <2>1, <2>3, <2>5, <3>2
  <2>8. GuessesBounded'
    BY <2>6 DEF GuessesBounded
  <2>9. QED
    BY <1>3, <2>4, <2>7, <2>8 DEF BoundInv
<1>7. QED
  BY <1>5, <1>6 DEF Fail

\* No claim is held at first.
LEMMA BoundInit == Init /\ TypeOK => BoundInv
<1> SUFFICES ASSUME Init, TypeOK PROVE BoundInv
  OBVIOUS
<1>1. WindowOf(now) \in Nat
  BY Typed DEF Windows
<1>2. \A q \in Requests : req[q].window <= WindowOf(now) /\ req[q].pc = "idle"
  BY <1>1 DEF Init, NoRequest
<1>3. \A w \in Windows : refused[w] = 0 /\ count[w] = 0
  BY DEF Init
<1>4. ASSUME NEW w \in Windows PROVE Guessers(w) = {} /\ Claimants(w) = {}
  BY <1>2 DEF Guessers, Claimants, Guessing, Confirming
<1>5. Cardinality({}) = 0 /\ Cardinality(Requests) \in Nat /\ MaxPerWindow \in Nat \ {0}
  BY FS_EmptySet, ClaimsFinite, ChallengeAssumption
<1>6. GuessesBounded
  BY <1>3, <1>4, <1>5 DEF GuessesBounded
<1>7. QED
  BY <1>2, <1>3, <1>4, <1>5, <1>6 DEF BoundInv

-----------------------------------------------------------------------------
(* Theorems                                                                 *)

\* The inductive invariant: types and coherence, what accepted steps and codes
\* left behind, and the claims on the counters.
THEOREM MfaInvariant == Spec => []MfaInv
<1>1. Init => MfaInv
  <2>1. Init => AcceptedInv
    BY DEF Init, AcceptedInv
  <2>2. QED
    BY <2>1, TypeInit, BoundInit DEF MfaInv
<1>2. MfaInv /\ [Next]_vars => MfaInv'
  <2> SUFFICES ASSUME MfaInv, [Next]_vars PROVE MfaInv'
    OBVIOUS
  <2>1. TypeOK /\ Coherence /\ AcceptedInv /\ BoundInv
    BY DEF MfaInv
  <2>2. TypeOK' /\ Coherence'
    BY <2>1, TypeStep
  <2>3. AcceptedInv'
    BY <2>1, AcceptedStep
  <2>4. BoundInv'
    <3>1. CASE \E q \in Requests :
                  \/ \E f \in Factors, s \in Steps : Confirm(q, f, s)
                  \/ Permit(q)
      BY <2>1, <2>2, <3>1, BoundPermit
    <3>2. CASE \E q \in Requests : Fail(q)
      BY <2>1, <2>2, <3>2, BoundFail
    <3>3. CASE ~ \E q \in Requests :
                    \/ \E f \in Factors, s \in Steps : Confirm(q, f, s)
                    \/ Permit(q) \/ Fail(q)
      BY <2>1, <2>2, <3>3, ClaimFrame, BoundFrame
    <3>4. QED
      BY <3>1, <3>2, <3>3
  <2>5. QED
    BY <2>2, <2>3, <2>4 DEF MfaInv
<1>3. QED
  BY <1>1, <1>2, PTL DEF Spec

\* The challenges, counters, factors and codes always have their types.
THEOREM TypeCorrect == Spec => []TypeOK
<1>1. MfaInv => TypeOK
  BY DEF MfaInv
<1>2. QED
  BY <1>1, MfaInvariant, PTL

\* RecordUse and Consume accept a TOTP step and a recovery code once at most,
\* however many requests present it and whatever is removed meanwhile.
THEOREM CodesAreAcceptedOnce == Spec => []AcceptedOnce
<1>1. MfaInv => AcceptedOnce
  BY DEF MfaInv, AcceptedInv, AcceptedOnce
<1>2. QED
  BY <1>1, MfaInvariant, PTL

\* The gap between Allowed and Fail lets through no more wrong guesses than there
\* are requests in it.
THEOREM GuessesAreBounded == Spec => []GuessesBounded
<1>1. MfaInv => GuessesBounded
  BY DEF MfaInv, BoundInv
<1>2. QED
  BY <1>1, MfaInvariant, PTL

\* A challenge that was consumed, spent or has expired never comes back, whatever
\* copy of it a request still has to write.
THEOREM GoneChallengesStayGone == Spec => GoneIsFinal
<1>1. MfaInv /\ [Next]_vars => [\A h \in Handles : Gone(h) => Gone(h)']_vars
  BY GoneStep DEF MfaInv
<1>2. QED
  BY <1>1, MfaInvariant, PTL DEF Spec, GoneIsFinal
=============================================================================
