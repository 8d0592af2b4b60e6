-------------------------- MODULE CodeFlowProofs --------------------------
(***************************************************************************)
(* CodeFlow keeps the promises of CodeGrant, and its two invariants hold,  *)
(* for any requests, clients, users, sessions and codes.  The inductive    *)
(* invariant says that an authorization request is in one place at a time  *)
(* on its way to a code, and that the session or user that is to answer it *)
(* fits it.                                                                *)
(***************************************************************************)
EXTENDS CodeFlow, TLAPS

\* On its way to a code otherwise than in Redis.
Carries(r) == r.pc \in {"lookup", "mandate", "save", "issue"}

\* The session s may answer the authorization request i.
Fits(s, i) ==
    /\ s \in Sessions /\ session[s] # "none" /\ s \notin stale[i]
    /\ Org(owner[s]) = Org(client[i])

\* The user u may log in for it, and has what the mandate demands.
Belongs(u, i) == u \in Users /\ Org(u) = Org(client[i])

Sound(r) ==
    /\ r.pc # "idle" => r.ask \in Asks /\ client[r.ask] # NoClient
    /\ r.pc = "lookup" => \A s \in stale[r.ask] : session[s] = "ended"
    /\ r.pc \in {"mandate", "resume", "issue"} => Fits(r.session, r.ask)
    /\ r.pc \in {"resume", "issue"} => owner[r.session] \notin bare[r.ask]
    /\ r.pc \in {"verified", "proven"} => Belongs(r.user, r.ask)
    /\ r.pc = "proven" \/ (r.pc = "verified" /\ ~r.mandated) => r.user \notin bare[r.ask]

SoundRequests == \A q \in Requests : Sound(req[q])

SoundWaits ==
    \A w \in waiting :
        /\ client[w[1]] # NoClient /\ Belongs(w[2], w[1])
        /\ w[3] \in {"factor", "codes"} => w[2] \notin bare[w[1]]

SoundCodes ==
    /\ \A k \in Codes : answer[k] # NoAsk =>
          /\ client[answer[k]] # NoClient
          /\ Fits(from[k], answer[k]) /\ owner[from[k]] \notin bare[answer[k]]
    /\ \A k \in live : answer[k] # NoAsk /\ bought[k] = <<>>
    /\ \A k \in Codes : answer[k] = NoAsk => bought[k] = <<>>

SoundHistory ==
    /\ \A s \in Sessions : session[s] # "none" => owner[s] \in Users
    /\ \A i \in Asks : \A s \in stale[i] : session[s] # "none"
    /\ \A i \in Asks : \A u \in bare[i] : Bare(u, factor, mandate)

\* A request is in one place at a time.
OnePlace ==
    /\ \A i \in pending :
          /\ client[i] # NoClient
          /\ \A q \in Requests : Carries(req[q]) => req[q].ask # i
          /\ \A k \in Codes : answer[k] # i
    /\ \A q, r \in Requests :
          q # r /\ Carries(req[q]) /\ Carries(req[r]) => req[q].ask # req[r].ask
    /\ \A q \in Requests, k \in Codes : Carries(req[q]) => answer[k] # req[q].ask
    /\ \A j, k \in Codes : j # k /\ answer[j] # NoAsk => answer[j] # answer[k]

FlowInv ==
    /\ TypeOK
    /\ SoundRequests /\ SoundWaits /\ SoundCodes /\ SoundHistory /\ OnePlace


-----------------------------------------------------------------------------
LEMMA InitInv == Init => FlowInv
<1> SUFFICES ASSUME Init PROVE FlowInv
  OBVIOUS
<1>1. TypeOK
  BY FlowAssumption DEF Init, TypeOK, NoRequest, Request, Prompts
<1>2. SoundRequests /\ OnePlace
  BY DEF Init, SoundRequests, OnePlace, Sound, Carries, NoRequest
<1>3. SoundWaits /\ SoundCodes /\ SoundHistory
  BY DEF Init, SoundWaits, SoundCodes, SoundHistory
<1> QED
  BY <1>1, <1>2, <1>3 DEF FlowInv

LEMMA NoRequestTyped == NoRequest \in Request /\ NoRequest.pc = "idle"
  BY DEF NoRequest, Request

\* A step of one request that moves on, or stops, and writes nothing else.
LEMMA MoveInv ==
  ASSUME FlowInv, NEW q \in Requests, NEW r \in Request, Go(q, r),
         Sound(r), Carries(r) => Carries(req[q]) /\ r.ask = req[q].ask,
         UNCHANGED <<asked, redis, rows, codes, policy, history>>
  PROVE  FlowInv'
<1> USE DEF asked, redis, rows, codes, policy, history
<1>1. TypeOK'
  BY DEF FlowInv, TypeOK, Go
<1>2. req' \in [Requests -> Request] /\ req'[q] = r
      /\ \A p \in Requests : p # q => req'[p] = req[p]
  BY DEF FlowInv, TypeOK, Go
<1>3. SoundRequests'
  <2> SUFFICES ASSUME NEW p \in Requests PROVE Sound(req[p])'
    BY DEF SoundRequests
  <2>1. Sound(req'[p])
    BY <1>2 DEF FlowInv, SoundRequests
  <2>2. QED
    BY <2>1 DEF Sound, Fits, Belongs
<1>4. SoundWaits' /\ SoundCodes' /\ SoundHistory'
  BY DEF FlowInv, SoundWaits, SoundCodes, SoundHistory, Fits, Belongs
<1>5. OnePlace'
  BY <1>2 DEF FlowInv, OnePlace, Carries
<1> QED
  BY <1>1, <1>3, <1>4, <1>5 DEF FlowInv


LEMMA FindSessionInv ==
  ASSUME FlowInv, NEW q \in Requests, NEW s \in Sessions, FindSession(q, s)
  PROVE  FlowInv'
<1> DEFINE r == [req[q] EXCEPT !.pc = "mandate", !.session = s]
<1> USE DEF Carries
<1>1. r \in Request
  BY DEF FlowInv, TypeOK, Request, NoRequest
<1>2. Sound(r)
  BY DEF FlowInv, FindSession, SoundRequests, Sound, Fits
<1>3. Carries(r) => Carries(req[q]) /\ r.ask = req[q].ask
  BY DEF FindSession, NoRequest, FlowInv, TypeOK, Request
<1> QED
  BY <1>1, <1>2, <1>3, MoveInv DEF FindSession, Step, Done


LEMMA MeetMandateInv ==
  ASSUME FlowInv, NEW q \in Requests, MeetMandate(q)
  PROVE  FlowInv'
<1> DEFINE r == [req[q] EXCEPT !.pc = "issue"]
<1> USE DEF Carries
<1>1. r \in Request
  BY DEF FlowInv, TypeOK, Request, NoRequest
<1>2. Sound(r)
  BY DEF FlowInv, MeetMandate, SoundRequests, SoundHistory, Sound
<1>3. Carries(r) => Carries(req[q]) /\ r.ask = req[q].ask
  BY DEF MeetMandate, NoRequest, FlowInv, TypeOK, Request
<1> QED
  BY <1>1, <1>2, <1>3, MoveInv DEF MeetMandate, Step, Done


LEMMA LoginInv ==
  ASSUME FlowInv, NEW q \in Requests, NEW i \in Asks, NEW u \in Users, Login(q, i, u)
  PROVE  FlowInv'
<1> DEFINE r == [NoRequest EXCEPT !.pc = "verified", !.ask = i, !.user = u, !.mandated = Org(u) \in mandate]
<1> USE DEF Carries
<1>0. (Org(u) \in mandate) \in BOOLEAN
  OBVIOUS
<1>1. r \in Request
  BY <1>0 DEF FlowInv, TypeOK, Request, NoRequest
<1>2. Sound(r)
  BY DEF FlowInv, NoRequest, Login, SoundHistory, OnePlace, Sound, Belongs,
    Bare, Awaited
<1>3. Carries(r) => Carries(req[q]) /\ r.ask = req[q].ask
  BY DEF Login, NoRequest, FlowInv, TypeOK, Request
<1> QED
  BY <1>1, <1>2, <1>3, MoveInv DEF Login, Step, Done


LEMMA SkipFactorInv ==
  ASSUME FlowInv, NEW q \in Requests, SkipFactor(q)
  PROVE  FlowInv'
<1> DEFINE r == [req[q] EXCEPT !.pc = "proven"]
<1> USE DEF Carries
<1>1. r \in Request
  BY DEF FlowInv, TypeOK, Request, NoRequest
<1>2. Sound(r)
  BY DEF FlowInv, SkipFactor, SoundRequests, Sound
<1>3. Carries(r) => Carries(req[q]) /\ r.ask = req[q].ask
  BY DEF SkipFactor, NoRequest, FlowInv, TypeOK, Request
<1> QED
  BY <1>1, <1>2, <1>3, MoveInv DEF SkipFactor, Step, Done


LEMMA ContinueInv ==
  ASSUME FlowInv, NEW q \in Requests, NEW i \in Asks, NEW u \in Users, Continue(q, i, u)
  PROVE  FlowInv'
<1> DEFINE r == [NoRequest EXCEPT !.pc = "proven", !.ask = i, !.user = u]
<1> USE DEF Carries
<1>1. r \in Request
  BY DEF FlowInv, TypeOK, Request, NoRequest
<1>2. Sound(r)
  BY DEF FlowInv, Continue, SoundWaits, Sound
<1>3. Carries(r) => Carries(req[q]) /\ r.ask = req[q].ask
  BY DEF Continue, NoRequest, FlowInv, TypeOK, Request, CompleteEnrolment
<1> QED
  BY <1>1, <1>2, <1>3, MoveInv DEF Continue, Step, Done, CompleteEnrolment


LEMMA GiveUpInv ==
  ASSUME FlowInv, NEW q \in Requests, GiveUp(q)
  PROVE  FlowInv'
<1> DEFINE r == NoRequest
<1> USE DEF Carries
<1>1. r \in Request
  BY DEF FlowInv, TypeOK, Request, NoRequest
<1>2. Sound(r)
  BY DEF NoRequest, Sound
<1>3. Carries(r) => Carries(req[q]) /\ r.ask = req[q].ask
  BY DEF GiveUp, NoRequest, FlowInv, TypeOK, Request
<1> QED
  BY <1>1, <1>2, <1>3, MoveInv DEF GiveUp, Step, Done


LEMMA AskInv ==
  ASSUME FlowInv, NEW q \in Requests, NEW i \in Asks, NEW c \in Clients, NEW p \in Prompts, Ask(q, i, c, p)
  PROVE  FlowInv'
<1> USE DEF asked, redis, rows, codes, policy, history, FlowInv
<1>1. TypeOK'
  BY FlowAssumption DEF Ask, TypeOK, Request, NoRequest, Go, Done, Step, Prompts
<1>2. SoundRequests'
  <2> SUFFICES ASSUME NEW r \in Requests PROVE Sound(req[r])'
    BY DEF SoundRequests
  <2> QED
    BY FlowAssumption DEF Ask, TypeOK, Go, SoundRequests, Sound, Fits, Belongs
<1>3. SoundWaits'
  BY DEF Ask, Belongs, SoundWaits
<1>4. SoundCodes'
  BY DEF Ask, Fits, SoundCodes
<1>5. SoundHistory'
  BY DEF Ask, SoundHistory
<1>6. OnePlace'
  <2>1. req' \in [Requests -> Request] /\ req'[q].ask = i /\ \A r \in Requests \ {q} : req'[r] = req[r]
    BY <1>1 DEF Ask, TypeOK, Go, NoRequest, Request
  <2>2. i \notin pending /\ \A k \in Codes : answer[k] # i
    BY FlowAssumption DEF Ask, OnePlace, SoundCodes, TypeOK
  <2>3. \A r \in Requests : Carries(req[r]) => req[r].ask # i
    BY DEF Ask, SoundRequests, Sound, Carries
  <2>4. pending' = pending /\ answer' = answer /\ \A j \in Asks : client[j] # NoClient => client'[j] # NoClient
    BY FlowAssumption DEF Ask, TypeOK
  <2>5. \A r \in Requests : Carries(req'[r]) => req'[r].ask = (IF r = q THEN i ELSE req[r].ask)
                                       /\ (r = q \/ Carries(req[r]))
    BY <2>1 DEF Carries
  <2>6. \A j \in pending' : client'[j] # NoClient
                           /\ (\A r \in Requests : Carries(req'[r]) => req'[r].ask # j)
                           /\ \A k \in Codes : answer'[k] # j
    BY <2>2, <2>4, <2>5 DEF OnePlace, TypeOK
  <2>7. \A r, t \in Requests : r # t /\ Carries(req'[r]) /\ Carries(req'[t]) => req'[r].ask # req'[t].ask
    BY <2>3, <2>5 DEF OnePlace
  <2>8. \A r \in Requests, k \in Codes : Carries(req'[r]) => answer'[k] # req'[r].ask
    BY <2>2, <2>4, <2>5 DEF OnePlace
  <2> QED
    BY <2>4, <2>6, <2>7, <2>8 DEF OnePlace, Carries
<1> QED
  BY <1>1, <1>2, <1>3, <1>4, <1>5, <1>6


LEMMA SavePendingInv ==
  ASSUME FlowInv, NEW q \in Requests, SavePending(q)
  PROVE  FlowInv'
<1> USE DEF asked, redis, rows, codes, policy, history, FlowInv
<1>1. TypeOK'
  <2>1. req[q] \in Request /\ req[q].ask \in Asks
    BY DEF SavePending, TypeOK, SoundRequests, Sound
  <2>2. pending' \in SUBSET Asks
    BY <2>1 DEF SavePending, TypeOK
  <2>3. req' \in [Requests -> Request]
    BY NoRequestTyped DEF SavePending, Done, Go, TypeOK
  <2> QED
    BY <2>2, <2>3 DEF SavePending, TypeOK
<1>2. SoundRequests'
  <2> SUFFICES ASSUME NEW r \in Requests PROVE Sound(req[r])'
    BY DEF SoundRequests
  <2> QED
    BY DEF SavePending, NoRequest, Go, Done, SoundRequests, Sound, Fits, Belongs
<1>3. SoundWaits'
  BY DEF SavePending, Belongs, SoundWaits
<1>4. SoundCodes'
  BY DEF SavePending, Fits, SoundCodes
<1>5. SoundHistory'
  BY DEF SavePending, SoundHistory
<1>6. OnePlace'
  BY DEF SavePending, TypeOK, NoRequest, Go, Done, SoundRequests, Sound,
    OnePlace, Carries
<1> QED
  BY <1>1, <1>2, <1>3, <1>4, <1>5, <1>6


LEMMA ChallengeInv ==
  ASSUME FlowInv, NEW q \in Requests, Challenge(q)
  PROVE  FlowInv'
<1> USE DEF asked, redis, rows, codes, policy, history, FlowInv
<1>0. <<req[q].ask, req[q].user, "factor">> \in Asks \X Users \X Waits
  BY DEF Challenge, SoundRequests, Sound, Belongs, Waits
<1>1. TypeOK'
  <2>1. req' \in [Requests -> Request]
    BY NoRequestTyped DEF Challenge, Wait, Done, Go, TypeOK
  <2>2. waiting' \in SUBSET (Asks \X Users \X Waits)
    BY <1>0 DEF Challenge, Wait, TypeOK
  <2> QED
    BY <2>1, <2>2 DEF Challenge, Wait, TypeOK
<1>2. SoundRequests'
  <2> SUFFICES ASSUME NEW r \in Requests PROVE Sound(req[r])'
    BY DEF SoundRequests
  <2> QED
    BY DEF Challenge, NoRequest, Go, Done, SoundRequests, Sound, Fits,
      Belongs, Wait
<1>3. SoundWaits'
  <2>1. req[q].user \in Users /\ Org(req[q].user) = Org(client[req[q].ask]) /\ client[req[q].ask] # NoClient
        /\ req[q].ask \in Asks
    BY DEF Challenge, SoundRequests, Sound, Belongs
  <2>2. SUFFICES ASSUME NEW w \in waiting'
                 PROVE  client[w[1]] # NoClient /\ Belongs(w[2], w[1])
                        /\ (w[3] \in {"factor", "codes"} => w[2] \notin bare[w[1]])
    BY DEF Challenge, Wait, SoundWaits, Belongs
  <2>3. CASE w \in waiting
    BY <2>3 DEF SoundWaits
  <2>4. CASE w = <<req[q].ask, req[q].user, "factor">>
    BY <2>1, <2>4 DEF Belongs, Challenge, SoundHistory, Bare
  <2> QED
    BY <2>3, <2>4 DEF Challenge, Wait
<1>4. SoundCodes'
  BY DEF Challenge, Wait, SoundCodes, Fits
<1>5. SoundHistory'
  BY DEF Challenge, SoundHistory, Wait
<1>6. OnePlace'
  BY DEF Challenge, NoRequest, Go, Done, OnePlace, Carries, Wait
<1> QED
  BY <1>1, <1>2, <1>3, <1>4, <1>5, <1>6


LEMMA ForceEnrolmentInv ==
  ASSUME FlowInv, NEW q \in Requests, ForceEnrolment(q)
  PROVE  FlowInv'
<1> USE DEF asked, redis, rows, codes, policy, history, FlowInv
<1>0. <<req[q].ask, req[q].user, "enrolment">> \in Asks \X Users \X Waits
  BY DEF ForceEnrolment, SoundRequests, Sound, Belongs, Waits
<1>1. TypeOK'
  <2>1. req' \in [Requests -> Request]
    BY NoRequestTyped DEF ForceEnrolment, Wait, Done, Go, TypeOK
  <2>2. waiting' \in SUBSET (Asks \X Users \X Waits)
    BY <1>0 DEF ForceEnrolment, Wait, TypeOK
  <2> QED
    BY <2>1, <2>2 DEF ForceEnrolment, Wait, TypeOK
<1>2. SoundRequests'
  <2> SUFFICES ASSUME NEW r \in Requests PROVE Sound(req[r])'
    BY DEF SoundRequests
  <2> QED
    BY DEF ForceEnrolment, NoRequest, Go, Done, SoundRequests, Sound, Fits,
      Belongs, Wait
<1>3. SoundWaits'
  <2>1. req[q].user \in Users /\ Org(req[q].user) = Org(client[req[q].ask]) /\ client[req[q].ask] # NoClient
        /\ req[q].ask \in Asks
    BY DEF ForceEnrolment, SoundRequests, Sound, Belongs
  <2>2. SUFFICES ASSUME NEW w \in waiting'
                 PROVE  client[w[1]] # NoClient /\ Belongs(w[2], w[1])
                        /\ (w[3] \in {"factor", "codes"} => w[2] \notin bare[w[1]])
    BY DEF ForceEnrolment, Wait, SoundWaits, Belongs
  <2>3. CASE w \in waiting
    BY <2>3 DEF SoundWaits
  <2>4. CASE w = <<req[q].ask, req[q].user, "enrolment">>
    BY <2>1, <2>4 DEF Belongs, ForceEnrolment, SoundHistory, Bare
  <2> QED
    BY <2>3, <2>4 DEF ForceEnrolment, Wait
<1>4. SoundCodes'
  BY DEF ForceEnrolment, Wait, SoundCodes, Fits
<1>5. SoundHistory'
  BY DEF ForceEnrolment, SoundHistory, Wait
<1>6. OnePlace'
  BY DEF ForceEnrolment, NoRequest, Go, Done, OnePlace, Carries, Wait
<1> QED
  BY <1>1, <1>2, <1>3, <1>4, <1>5, <1>6


LEMMA AnswerInv ==
  ASSUME FlowInv, NEW q \in Requests, NEW i \in Asks, NEW u \in Users, Answer(q, i, u)
  PROVE  FlowInv'
<1> USE DEF asked, redis, rows, codes, policy, history, FlowInv
<1>1. TypeOK'
  BY DEF Answer, TypeOK, Request, NoRequest, Go
<1>2. SoundRequests'
  <2> SUFFICES ASSUME NEW r \in Requests PROVE Sound(req[r])'
    BY DEF SoundRequests
  <2> QED
    BY DEF Answer, Go, SoundRequests, Sound, Fits, Belongs, SoundWaits
<1>3. SoundWaits'
  BY DEF Answer, Belongs, SoundWaits
<1>4. SoundCodes'
  BY DEF Answer, Fits, SoundCodes
<1>5. SoundHistory'
  BY DEF Answer, SoundHistory
<1>6. OnePlace'
  BY DEF Answer, Go, OnePlace, Carries
<1> QED
  BY <1>1, <1>2, <1>3, <1>4, <1>5, <1>6


LEMMA EnrolInv ==
  ASSUME FlowInv, NEW q \in Requests, NEW i \in Asks, NEW u \in Users, Enrol(q, i, u)
  PROVE  FlowInv'
<1> USE DEF asked, redis, rows, codes, policy, history, FlowInv
<1>0. \/ req' = req
      \/ Go(q, [NoRequest EXCEPT !.pc = "proven", !.ask = i, !.user = u])
  BY DEF Enrol, CompleteEnrolment
<1>1. TypeOK'
  <2>1. [NoRequest EXCEPT !.pc = "proven", !.ask = i, !.user = u] \in Request
    BY DEF NoRequest, Request
  <2>2. req' \in [Requests -> Request]
    BY <1>0, <2>1 DEF Go, TypeOK
  <2>3. <<i, u, "codes">> \in Asks \X Users \X Waits
    BY DEF Waits
  <2>4. waiting' \in SUBSET (Asks \X Users \X Waits) /\ factor' \in SUBSET Users
    BY <2>3 DEF Enrol, TypeOK, CompleteEnrolment
  <2> QED
    BY <2>2, <2>4 DEF Enrol, TypeOK, CompleteEnrolment
<1>2. SoundRequests'
  <2> SUFFICES ASSUME NEW r \in Requests PROVE Sound(req[r])'
    BY DEF SoundRequests
  <2>1. \A j \in Asks : bare'[j] = bare[j] \ {u}
    BY DEF Enrol, CompleteEnrolment
  <2>2. CASE req'[r] = req[r]
    <3>1. Sound(req[r]) /\ req[r] \in Request
      BY DEF SoundRequests, TypeOK
    <3> QED
      BY <2>2, <3>1 DEF Enrol, Sound, Fits, Belongs
  <2>3. CASE req'[r] = [NoRequest EXCEPT !.pc = "proven", !.ask = i, !.user = u]
    BY <2>3 DEF Enrol, Sound, Belongs, SoundWaits
  <2> QED
    BY <2>2, <2>3, <1>0 DEF Go, TypeOK
<1>3. SoundWaits'
  <2> SUFFICES ASSUME NEW w \in waiting'
               PROVE  client[w[1]] # NoClient /\ Belongs(w[2], w[1])
                      /\ (w[3] \in {"factor", "codes"} => w[2] \notin bare'[w[1]])
    BY DEF Enrol, SoundWaits, Belongs, CompleteEnrolment
  <2>1. \A j \in Asks : bare'[j] = bare[j] \ {u}
    BY DEF Enrol, CompleteEnrolment
  <2>2. CASE w \in waiting
    <3>1. w[1] \in Asks
      BY <2>2 DEF TypeOK
    <3> QED
      BY <2>1, <2>2, <3>1 DEF SoundWaits
  <2>3. CASE w = <<i, u, "codes">>
    BY <2>1, <2>3 DEF Enrol, Awaited, SoundWaits, Belongs, CompleteEnrolment
  <2> QED
    BY <2>2, <2>3 DEF Enrol, CompleteEnrolment
<1>4. SoundCodes'
  BY DEF Enrol, TypeOK, Fits, SoundCodes
<1>5. SoundHistory'
  BY DEF Enrol, SoundHistory, Bare
<1>6. OnePlace'
  <2>1. \A r \in Requests : Carries(req'[r]) => req'[r] = req[r]
    BY <1>0 DEF Go, TypeOK, Carries, NoRequest
  <2> QED
    BY <2>1 DEF Enrol, OnePlace, CompleteEnrolment
<1> QED
  BY <1>1, <1>2, <1>3, <1>4, <1>5, <1>6


LEMMA OpenSessionInv ==
  ASSUME FlowInv, NEW q \in Requests, NEW s \in Sessions, NEW previous \in Sessions \cup {NoSession}, OpenSession(q, s, previous)
  PROVE  FlowInv'
<1> USE DEF asked, redis, rows, codes, policy, history, FlowInv
<1>1. TypeOK'
  <2>1. [req[q] EXCEPT !.pc = "resume", !.session = s] \in Request
    BY DEF TypeOK, Request
  <2>2. req' \in [Requests -> Request]
    BY <2>1 DEF OpenSession, Go, TypeOK
  <2>3. session' \in [Sessions -> {"none", "live", "ended"}]
    BY DEF OpenSession, TypeOK
  <2>4. owner' \in [Sessions -> Users \cup {NoUser}] /\ waiting' \in SUBSET (Asks \X Users \X Waits)
    BY DEF OpenSession, TypeOK, Request
  <2> QED
    BY <2>2, <2>3, <2>4 DEF OpenSession, TypeOK
<1>2. SoundRequests'
  <2> SUFFICES ASSUME NEW r \in Requests PROVE Sound(req[r])'
    BY DEF SoundRequests
  <2> QED
    BY DEF OpenSession, TypeOK, Go, SoundRequests, Sound, Fits, Belongs,
      SoundHistory
<1>3. SoundWaits'
  <2>1. waiting' \subseteq waiting
    BY DEF OpenSession
  <2> QED
    BY <2>1 DEF OpenSession, SoundWaits, Belongs
<1>4. SoundCodes'
  BY DEF OpenSession, Fits, SoundCodes
<1>5. SoundHistory'
  BY FlowAssumption DEF OpenSession, TypeOK, SoundRequests, Sound, Belongs,
    SoundHistory
<1>6. OnePlace'
  BY DEF OpenSession, Go, OnePlace, Carries
<1> QED
  BY <1>1, <1>2, <1>3, <1>4, <1>5, <1>6


LEMMA ResumeInv ==
  ASSUME FlowInv, NEW q \in Requests, Resume(q)
  PROVE  FlowInv'
<1> USE DEF asked, redis, rows, codes, policy, history, FlowInv
<1>1. TypeOK'
  <2>1. \E r \in Request : Go(q, r)
    <3>1. [req[q] EXCEPT !.pc = "issue"] \in Request
      BY DEF TypeOK, Request
    <3> QED
      BY <3>1, NoRequestTyped DEF Resume, Step, Done
  <2>2. req' \in [Requests -> Request]
    BY <2>1 DEF Go, TypeOK
  <2> QED
    BY <2>2 DEF Resume, TypeOK
<1>2. SoundRequests'
  <2> SUFFICES ASSUME NEW r \in Requests PROVE Sound(req[r])'
    BY DEF SoundRequests
  <2>1. CASE req'[r] = req[r]
    BY <2>1 DEF Resume, SoundRequests, Sound, Fits, Belongs
  <2>2. CASE r = q /\ req'[q] = [req[q] EXCEPT !.pc = "issue"]
    BY <2>2 DEF Resume, SoundRequests, TypeOK, Request, Sound, Fits, Belongs
  <2>3. CASE r = q /\ req'[q] = NoRequest
    BY <2>3 DEF NoRequest, Sound
  <2> QED
    BY <2>1, <2>2, <2>3 DEF Resume, Step, Done, Go, TypeOK
<1>3. SoundWaits'
  BY DEF Resume, Belongs, SoundWaits
<1>4. SoundCodes'
  BY DEF Resume, Fits, SoundCodes
<1>5. SoundHistory'
  BY DEF Resume, SoundHistory
<1>6. OnePlace'
  <2>1. req' \in [Requests -> Request] /\ \A r \in Requests \ {q} : req'[r] = req[r]
    BY <1>1 DEF Resume, TypeOK, Step, Done, Go
  <2>2. Carries(req'[q]) => req'[q].ask = req[q].ask
    BY DEF Resume, TypeOK, Request, Step, Done, Go, Carries, NoRequest
  <2>3. req[q].ask \in pending
    BY DEF Resume
  <2>4. pending' = pending \ {req[q].ask} /\ answer' = answer /\ client' = client
    BY DEF Resume
  <2>5. \A r \in Requests : Carries(req'[r]) => req'[r].ask = req[r].ask /\ (r = q \/ Carries(req[r]))
    BY <2>1, <2>2 DEF Carries
  <2>6. \A r \in Requests : Carries(req[r]) => req[r].ask # req[q].ask
    BY <2>3 DEF OnePlace
  <2>7. \A k \in Codes : answer[k] # req[q].ask
    BY <2>3 DEF OnePlace
  <2>8. \A j \in pending' : client'[j] # NoClient
                           /\ (\A r \in Requests : Carries(req'[r]) => req'[r].ask # j)
                           /\ \A k \in Codes : answer'[k] # j
    BY <2>4, <2>5 DEF OnePlace
  <2>9. \A r, t \in Requests : r # t /\ Carries(req'[r]) /\ Carries(req'[t]) => req'[r].ask # req'[t].ask
    BY <2>5, <2>6 DEF OnePlace
  <2>10. \A r \in Requests, k \in Codes : Carries(req'[r]) => answer'[k] # req'[r].ask
    BY <2>4, <2>5, <2>7 DEF OnePlace
  <2> QED
    BY <2>4, <2>8, <2>9, <2>10 DEF OnePlace, Carries
<1> QED
  BY <1>1, <1>2, <1>3, <1>4, <1>5, <1>6


LEMMA ResumeLostInv ==
  ASSUME FlowInv, NEW q \in Requests, ResumeLost(q)
  PROVE  FlowInv'
<1> USE DEF asked, redis, rows, codes, policy, history, FlowInv
<1>1. TypeOK'
  BY DEF ResumeLost, TypeOK, Request, NoRequest, Go, Done
<1>2. SoundRequests'
  <2> SUFFICES ASSUME NEW r \in Requests PROVE Sound(req[r])'
    BY DEF SoundRequests
  <2> QED
    BY DEF ResumeLost, NoRequest, Go, Done, SoundRequests, Sound, Fits, Belongs
<1>3. SoundWaits'
  BY DEF ResumeLost, Belongs, SoundWaits
<1>4. SoundCodes'
  BY DEF ResumeLost, Fits, SoundCodes
<1>5. SoundHistory'
  BY DEF ResumeLost, SoundHistory
<1>6. OnePlace'
  BY DEF ResumeLost, NoRequest, Go, Done, OnePlace, Carries
<1> QED
  BY <1>1, <1>2, <1>3, <1>4, <1>5, <1>6


LEMMA IssueInv ==
  ASSUME FlowInv, NEW q \in Requests, NEW k \in Codes, Issue(q, k)
  PROVE  FlowInv'
<1> USE DEF asked, redis, rows, codes, policy, history, FlowInv
<1>1. TypeOK'
  <2>1. req[q].ask \in Asks /\ req[q].session \in Sessions
    BY DEF Issue, SoundRequests, Sound, Fits
  <2>2. req' \in [Requests -> Request]
    BY NoRequestTyped DEF Issue, Done, Go, TypeOK
  <2>3. answer' \in [Codes -> Asks \cup {NoAsk}] /\ from' \in [Codes -> Sessions \cup {NoSession}]
        /\ live' \in SUBSET Codes
    BY <2>1 DEF Issue, TypeOK
  <2>4. \A j \in Codes : answer'[j] = NoAsk <=> from'[j] = NoSession
    BY <2>1, FlowAssumption DEF Issue, TypeOK
  <2> QED
    BY <2>2, <2>3, <2>4 DEF Issue, TypeOK
<1>2. SoundRequests'
  <2> SUFFICES ASSUME NEW r \in Requests PROVE Sound(req[r])'
    BY DEF SoundRequests
  <2> QED
    BY DEF Issue, NoRequest, Go, Done, SoundRequests, Sound, Fits, Belongs
<1>3. SoundWaits'
  BY DEF Issue, Belongs, SoundWaits
<1>4. SoundCodes'
  BY FlowAssumption DEF Issue, TypeOK, SoundRequests, Sound, Fits, SoundCodes
<1>5. SoundHistory'
  BY DEF Issue, SoundHistory
<1>6. OnePlace'
  BY DEF Issue, TypeOK, NoRequest, Go, Done, OnePlace, Carries
<1> QED
  BY <1>1, <1>2, <1>3, <1>4, <1>5, <1>6


LEMMA RedeemInv ==
  ASSUME FlowInv, NEW k \in Codes, NEW c \in Clients, NEW i \in Asks, Redeem(k, c, i)
  PROVE  FlowInv'
<1> USE DEF asked, redis, rows, codes, policy, history, FlowInv
<1>1. TypeOK'
  <2>1. bought' \in [Codes -> Seq(Clients)]
    <3>1. Append(bought[k], c) \in Seq(Clients)
      BY DEF TypeOK
    <3> QED
      BY <3>1 DEF Redeem, RedeemCode, TypeOK
  <2> QED
    BY <2>1 DEF Redeem, RedeemCode, TypeOK
<1>2. SoundRequests'
  <2> SUFFICES ASSUME NEW r \in Requests PROVE Sound(req[r])'
    BY DEF SoundRequests
  <2> QED
    BY DEF Redeem, SoundRequests, Sound, Fits, Belongs
<1>3. SoundWaits'
  BY DEF Redeem, Belongs, SoundWaits
<1>4. SoundCodes'
  BY DEF Redeem, RedeemCode, TypeOK, Fits, SoundCodes
<1>5. SoundHistory'
  BY DEF Redeem, SoundHistory
<1>6. OnePlace'
  BY DEF Redeem, OnePlace
<1> QED
  BY <1>1, <1>2, <1>3, <1>4, <1>5, <1>6


LEMMA LapseInv ==
  ASSUME FlowInv, Lapse
  PROVE  FlowInv'
<1> USE DEF asked, redis, rows, codes, policy, history, FlowInv
<1>1. TypeOK'
  BY DEF Lapse, TypeOK
<1>2. SoundRequests'
  <2> SUFFICES ASSUME NEW r \in Requests PROVE Sound(req[r])'
    BY DEF SoundRequests
  <2> QED
    BY DEF Lapse, SoundRequests, Sound, Fits, Belongs
<1>3. SoundWaits'
  BY DEF Lapse, Belongs, SoundWaits
<1>4. SoundCodes'
  BY DEF Lapse, Fits, SoundCodes
<1>5. SoundHistory'
  BY DEF Lapse, SoundHistory
<1>6. OnePlace'
  BY DEF Lapse, OnePlace
<1> QED
  BY <1>1, <1>2, <1>3, <1>4, <1>5, <1>6


LEMMA EndSessionInv ==
  ASSUME FlowInv, NEW s \in Sessions, EndSession(s)
  PROVE  FlowInv'
<1> USE DEF asked, redis, rows, codes, policy, history, FlowInv
<1>1. TypeOK'
  BY DEF EndSession, TypeOK
<1>2. SoundRequests'
  <2> SUFFICES ASSUME NEW r \in Requests PROVE Sound(req[r])'
    BY DEF SoundRequests
  <2> QED
    BY DEF EndSession, SoundRequests, Sound, Fits, Belongs
<1>3. SoundWaits'
  BY DEF EndSession, Belongs, SoundWaits
<1>4. SoundCodes'
  BY DEF EndSession, Fits, SoundCodes
<1>5. SoundHistory'
  BY DEF EndSession, SoundHistory
<1>6. OnePlace'
  BY DEF EndSession, OnePlace
<1> QED
  BY <1>1, <1>2, <1>3, <1>4, <1>5, <1>6


LEMMA ChangePolicyInv ==
  ASSUME FlowInv, ChangePolicy
  PROVE  FlowInv'
<1> USE DEF asked, redis, rows, codes, policy, history, FlowInv
<1>1. TypeOK'
  BY DEF ChangePolicy, TypeOK
<1>2. SoundRequests'
  <2> SUFFICES ASSUME NEW r \in Requests PROVE Sound(req[r])'
    BY DEF SoundRequests
  <2> QED
    BY DEF ChangePolicy, SoundRequests, Sound, Fits, Belongs
<1>3. SoundWaits'
  BY DEF ChangePolicy, TypeOK, Belongs, SoundWaits
<1>4. SoundCodes'
  BY DEF ChangePolicy, TypeOK, Fits, SoundCodes
<1>5. SoundHistory'
  BY DEF ChangePolicy, SoundHistory
<1>6. OnePlace'
  BY DEF ChangePolicy, OnePlace
<1> QED
  BY <1>1, <1>2, <1>3, <1>4, <1>5, <1>6

LEMMA NoSessionFoundInv ==
  ASSUME FlowInv, NEW q \in Requests, NoSessionFound(q)
  PROVE  FlowInv'
<1> DEFINE r == [req[q] EXCEPT !.pc = "save", !.session = NoSession]
<1>1. CASE Done(q)
  BY <1>1, NoRequestTyped, MoveInv DEF NoSessionFound, Done, Sound, Carries
<1>2. CASE Go(q, r)
  <2>1. r \in Request
    BY DEF FlowInv, TypeOK, Request
  <2>2. Sound(r)
    BY DEF NoSessionFound, FlowInv, TypeOK, Request, SoundRequests, Sound
  <2>3. Carries(r) => Carries(req[q]) /\ r.ask = req[q].ask
    BY DEF NoSessionFound, FlowInv, TypeOK, Request, Carries
  <2> QED
    BY <1>2, <2>1, <2>2, <2>3, MoveInv DEF NoSessionFound
<1> QED
  BY <1>1, <1>2 DEF NoSessionFound

LEMMA StepInv == FlowInv /\ [Next]_vars => FlowInv'
<1> SUFFICES ASSUME FlowInv, [Next]_vars PROVE FlowInv'
  OBVIOUS
<1>1. ASSUME NEW q \in Requests, AuthorizeStep(q) PROVE FlowInv'
  BY <1>1, AskInv, FindSessionInv, MeetMandateInv, NoSessionFoundInv,
    SavePendingInv,
     ResumeInv, ResumeLostInv, GiveUpInv, IssueInv DEF AuthorizeStep
<1>2. ASSUME NEW q \in Requests, LoginStep(q) PROVE FlowInv'
  BY <1>2, LoginInv, AnswerInv, EnrolInv, ContinueInv, ChallengeInv,
    ForceEnrolmentInv,
     SkipFactorInv, OpenSessionInv DEF LoginStep
<1>3. CASE UNCHANGED vars
  <2> USE <1>3 DEF vars, asked, redis, rows, codes, policy, history
  <2>1. TypeOK' /\ SoundRequests'
    BY DEF FlowInv, TypeOK, SoundRequests, Sound, Fits, Belongs
  <2>2. SoundWaits' /\ SoundCodes' /\ SoundHistory'
    BY DEF FlowInv, SoundWaits, SoundCodes, SoundHistory, Fits, Belongs, Bare
  <2>3. OnePlace'
    BY DEF FlowInv, OnePlace, Carries
  <2> QED
    BY <2>1, <2>2, <2>3 DEF FlowInv
<1> QED
  BY <1>1, <1>2, <1>3, RedeemInv, EndSessionInv, LapseInv, ChangePolicyInv DEF
    Next

-----------------------------------------------------------------------------
\* The inductive invariant of the flow: an authorization request is in one
\* place at a time, and what is on its way to answer it fits it (the handlers
\* of oauth/authorize and login, in any number of tabs).
THEOREM FlowInvariant == Spec => []FlowInv
<1>1. FlowInv /\ [Next]_vars => FlowInv'
  BY StepInv
<1> QED
  BY InitInv, <1>1, PTL DEF Spec

\* The flow stays well typed: no code is stored without its session.
THEOREM TypeCorrect == Spec => []TypeOK
<1>1. FlowInv => TypeOK
  BY DEF FlowInv
<1> QED
  BY FlowInvariant, <1>1, PTL

\* However many tabs and handlers a request goes through, the session that
\* answers it was live at some moment since it was made, and was opened since
\* if its client asked for a login.
THEOREM SessionsAreCurrent == Spec => []SessionIsCurrent
<1>1. FlowInv => SessionIsCurrent
  BY DEF FlowInv, SoundCodes, Fits, SessionIsCurrent
<1> QED
  BY FlowInvariant, <1>1, PTL

\* Whatever changes while a login is on its way, nobody gets a code who at no
\* moment since the request had what the mandate demands.
THEOREM MandateIsHeld == Spec => []MandateHolds
<1>1. FlowInv => MandateHolds
  BY DEF FlowInv, SoundCodes, MandateHolds
<1> QED
  BY FlowInvariant, <1>1, PTL

-----------------------------------------------------------------------------
LEMMA UserOf ==
  ASSUME FlowInv, NEW k \in Codes
  PROVE  answer[k] # NoAsk =>
            /\ from[k] \in Sessions /\ from[k] # NoSession
            /\ owner[from[k]] \in Users /\ session[from[k]] # "none"
  BY FlowAssumption DEF FlowInv, SoundCodes, SoundHistory, Fits

LEMMA GrantInit == Init => Grant!Init
  BY DEF Init, Grant!Init

\* A step that leaves requests, codes and the owners of opened sessions alone.
LEMMA GrantStutter ==
  ASSUME FlowInv, UNCHANGED <<client, answer, from, bought>>,
         \A s \in Sessions : session[s] # "none" => owner'[s] = owner[s]
  PROVE  UNCHANGED Grant!grant
<1>1. ASSUME NEW k \in Codes
      PROVE (IF from'[k] = NoSession THEN NoUser ELSE owner'[from'[k]])
            = (IF from[k] = NoSession THEN NoUser ELSE owner[from[k]])
  BY <1>1, UserOf DEF FlowInv, TypeOK
<1> QED
  BY <1>1 DEF Grant!grant

LEMMA GrantStep == FlowInv /\ [Next]_vars => [Grant!Next]_Grant!grant
<1> SUFFICES ASSUME FlowInv, [Next]_vars PROVE [Grant!Next]_Grant!grant
  OBVIOUS
<1> USE DEF asked, redis, rows, codes, policy, history
<1>1. ASSUME NEW q \in Requests, NEW i \in Asks, NEW c \in Clients, NEW p \in Prompts,
             Ask(q, i, c, p)
      PROVE  Grant!Next
  <2>1. Grant!Make(i, c)
    BY <1>1 DEF Ask, Grant!Make
  <2> QED
    BY <2>1 DEF Grant!Next
<1>2. ASSUME NEW q \in Requests, NEW k \in Codes, Issue(q, k) PROVE Grant!Next
  <2> DEFINE i == req[q].ask
             s == req[q].session
  <2>1. i \in Asks /\ client[i] # NoClient /\ s \in Sessions /\ s # NoSession
        /\ session[s] # "none" /\ Org(owner[s]) = Org(client[i])
    BY <1>2, FlowAssumption DEF Issue, FlowInv, SoundRequests, Sound, Fits
  <2>2. owner[s] \in Users
    BY <2>1 DEF FlowInv, SoundHistory
  <2>3. \A j \in Codes : answer[j] # i
    BY <1>2 DEF Issue, FlowInv, OnePlace, Carries
  <2>4. [j \in Codes |-> IF from'[j] = NoSession THEN NoUser ELSE owner'[from'[j]]]
        = [[j \in Codes |-> IF from[j] = NoSession THEN NoUser ELSE owner[from[j]]]
              EXCEPT ![k] = owner[s]]
    BY <1>2, <2>1 DEF Issue, FlowInv, TypeOK
  <2>5. PICK j \in Asks, u \in Users : j = i /\ u = owner[s]
    BY <2>1, <2>2
  <2>6. Grant!Give(j, k, u)
    BY <1>2, <2>1, <2>3, <2>4, <2>5 DEF Issue, Grant!Give
  <2> QED
    BY <2>6 DEF Grant!Next
<1>3. ASSUME NEW k \in Codes, NEW c \in Clients, NEW i \in Asks, Redeem(k, c, i)
      PROVE  Grant!Next \/ UNCHANGED Grant!grant
  <2>1. CASE UNCHANGED bought
    BY <1>3, <2>1, GrantStutter DEF Redeem, RedeemCode
  <2>2. CASE /\ client[answer[k]] = c /\ bought' = [bought EXCEPT ![k] = Append(@, c)]
    <3>1. answer[k] # NoAsk /\ bought[k] = <<>>
      BY <1>3 DEF Redeem, RedeemCode, FlowInv, SoundCodes
    <3>2. Append(bought[k], c) = <<client[answer[k]]>>
      BY <2>2, <3>1
    <3>3. Grant!Spend(k)
      BY <1>3, <2>2, <3>1, <3>2 DEF Redeem, RedeemCode, Grant!Spend
    <3> QED
      BY <3>3 DEF Grant!Next
  <2> QED
    BY <1>3, <2>1, <2>2 DEF Redeem, RedeemCode
<1>4. ASSUME NEW q \in Requests, AuthorizeStep(q)
      PROVE  Grant!Next \/ UNCHANGED Grant!grant
  <2>1. CASE \/ \E s \in Sessions : FindSession(q, s)
             \/ MeetMandate(q) \/ NoSessionFound(q) \/ SavePending(q)
             \/ Resume(q) \/ ResumeLost(q) \/ GiveUp(q)
    BY <2>1, GrantStutter
    DEF FindSession, MeetMandate, NoSessionFound, SavePending, Resume, ResumeLost, GiveUp
  <2> QED
    BY <1>1, <1>2, <1>4, <2>1 DEF AuthorizeStep
<1>5. ASSUME NEW q \in Requests, LoginStep(q) PROVE UNCHANGED Grant!grant
  <2>1. CASE \E s \in Sessions, previous \in Sessions \cup {NoSession} :
                OpenSession(q, s, previous)
    BY <2>1, GrantStutter DEF OpenSession, FlowInv, TypeOK
  <2>2. CASE \/ \E i \in Asks, u \in Users :
                   Login(q, i, u) \/ Answer(q, i, u) \/ Enrol(q, i, u) \/ Continue(q, i, u)
             \/ Challenge(q) \/ ForceEnrolment(q) \/ SkipFactor(q)
    BY <2>2, GrantStutter
    DEF Login, Answer, Enrol, Continue, Challenge, ForceEnrolment, SkipFactor, Wait, CompleteEnrolment
  <2> QED
    BY <1>5, <2>1, <2>2 DEF LoginStep
<1>6. CASE (\E s \in Sessions : EndSession(s)) \/ Lapse \/ ChangePolicy \/ UNCHANGED vars
  BY <1>6, GrantStutter DEF EndSession, Lapse, ChangePolicy, vars
<1> QED
  BY <1>3, <1>4, <1>5, <1>6 DEF Next

\* The handlers, with Redis between them, implement the promises of CodeGrant:
\* a request is answered with one code at most and a code buys tokens once at
\* most, for its client, whatever calls race, fail or are repeated.
THEOREM GrantImplemented == Spec => ImplementsGrant
<1>1. FlowInv /\ [Next]_vars => [Grant!Next]_Grant!grant
  BY GrantStep
<1>2. Init => Grant!Init
  BY GrantInit
<1> QED
  BY FlowInvariant, <1>1, <1>2, PTL DEF Spec, ImplementsGrant, Grant!Spec
=============================================================================
