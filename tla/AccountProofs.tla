---------------------------- MODULE AccountProofs ----------------------------
(***************************************************************************)
(* Theorems about an account: who gets into it, for every number of        *)
(* requests, sessions, links and passwords (AccountAccess), and how wrong  *)
(* passwords for it are slowed down, for every number of attempts and      *)
(* every policy (LoginLimiter).                                            *)
(***************************************************************************)
EXTENDS AccountAccess, LoginLimiter, TLAPS

LEMMA IdleRequest == NoRequest \in Request
BY AccountAssumption DEF NoRequest, Request, Purposes, Evictions

\* The initial state.
LEMMA AccountInit == Init => AccountInv
<1> SUFFICES ASSUME Init PROVE AccountInv
  OBVIOUS
<1>1. TypeOK
  BY IdleRequest DEF Init, TypeOK, Purposes
<1>2. \A q \in Requests : req[q] = NoRequest
  BY DEF Init
<1>a. Coherent(NoRequest)
  BY DEF Coherent, NoRequest
<1>b. Overtaken(NoRequest)
  BY DEF Overtaken, NoRequest
<1>3. Coherence
  BY <1>2, <1>a DEF Coherence
<1>4. \A q \in Requests : Overtaken(req[q])
  BY <1>2, <1>b
<1>5. Outside
  BY DEF Init, Outside, Barred
<1>6. QED
  BY <1>1, <1>3, <1>4, <1>5 DEF AccountInv, Init

\* What holds of a request holds after a step that bars the account no further
\* and takes no link back.
LEMMA Carries ==
    ASSUME NEW r \in Request,
           status' = "deactivated" => status = "deactivated",
           password' = NoPassword => password = NoPassword,
           \A x \in stray : x \in stray',
           \A l \in Links : link[l] # "none" =>
               link'[l] # "none" /\ purpose'[l] = purpose[l]
    PROVE  /\ Coherent(r) => Coherent(r)'
           /\ Overtaken(r) => Overtaken(r)'
<1>1. Coherent(r) => Coherent(r)'
  BY DEF Coherent
<1>2. Barred' => Barred
  BY DEF Barred
<1>3. Overtaken(r) => Overtaken(r)'
  BY <1>2 DEF Overtaken
<1>4. QED
  BY <1>1, <1>3

\* The same of all requests when one of them moves on.
LEMMA MovesOn ==
    ASSUME AccountInv, NEW q \in Requests, NEW r \in Request, Go(q, r),
           Coherent(r)', Overtaken(r)',
           status' = "deactivated" => status = "deactivated",
           password' = NoPassword => password = NoPassword,
           \A x \in stray : x \in stray',
           \A l \in Links : link[l] # "none" =>
               link'[l] # "none" /\ purpose'[l] = purpose[l]
    PROVE  /\ req' \in [Requests -> Request] /\ Coherence'
           /\ \A p \in Requests : Overtaken(req[p])'
<1>1. req \in [Requests -> Request]
  BY DEF AccountInv, TypeOK
<1>2. req' \in [Requests -> Request]
  BY <1>1 DEF Go
<1>3. \A p \in Requests : req'[p] = req[p] \/ req'[p] = r
  BY <1>1 DEF Go
<1>4. \A p \in Requests : Coherent(req[p])' /\ Overtaken(req[p])'
  <2> SUFFICES ASSUME NEW p \in Requests
               PROVE  Coherent(req[p])' /\ Overtaken(req[p])'
    OBVIOUS
  <2>1. CASE req'[p] = r
    BY <2>1 DEF Coherent, Overtaken
  <2>2. CASE req'[p] = req[p]
    <3>1. req[p] \in Request /\ Coherent(req[p]) /\ Overtaken(req[p])
      BY <1>1 DEF AccountInv, Coherence
    <3> DEFINE x == req[p]
    <3>2. \A y \in Request : (Coherent(y) => Coherent(y)') /\ (Overtaken(y) => Overtaken(y)')
      BY Carries
    <3>3. PICK y \in Request : y = req[p]
      BY <3>1
    <3>4. Coherent(y)' /\ Overtaken(y)'
      BY <3>1, <3>2, <3>3
    <3>5. QED
      BY <2>2, <3>3, <3>4 DEF Coherent, Overtaken
  <2>3. QED
    BY <1>3, <2>1, <2>2
<1>5. QED
  BY <1>2, <1>4 DEF Coherence

\* Nothing changes but what a request is doing.
LEMMA OnlyMoves ==
    ASSUME AccountInv, NEW q \in Requests, NEW r \in Request, Go(q, r),
           Coherent(r), Overtaken(r), UNCHANGED <<credentials, access, links, history>>
    PROVE  AccountInv'
<1> USE DEF credentials, access, links, history
<1>1. Coherent(r)' /\ Overtaken(r)'
  BY Carries
<1>2. /\ req' \in [Requests -> Request] /\ Coherence'
      /\ \A p \in Requests : Overtaken(req[p])'
  BY <1>1, MovesOn
<1>3. TypeOK' /\ ~misspent'
  BY <1>2 DEF AccountInv, TypeOK
<1>4. Outside'
  BY DEF AccountInv, Outside, Barred
<1>5. QED
  BY <1>2, <1>3, <1>4 DEF AccountInv

\* The steps of a login that write nothing.
LEMMA LoginMoves ==
    ASSUME AccountInv, NEW q \in Requests,
           \/ \E p \in Passwords : Submit(q, p)
           \/ Challenge(q) \/ Answer(q) \/ GiveUp(q)
           \/ \E s \in Sessions : Authorize(q, s)
    PROVE  AccountInv'
<1>0. req[q] \in Request /\ Coherent(req[q]) /\ Overtaken(req[q])
  BY DEF AccountInv, TypeOK, Coherence
<1>1. ASSUME NEW p \in Passwords, Submit(q, p)
      PROVE  AccountInv'
  <2> DEFINE a == [NoRequest EXCEPT !.pc = "rehash", !.password = p]
             b == [NoRequest EXCEPT !.pc = "verified"]
  <2>1. a \in Request /\ b \in Request
    BY IdleRequest DEF Request
  <2>2. ~Barred
    BY <1>1, AccountAssumption DEF Submit, Barred
  <2>3. Coherent(a) /\ Coherent(b)
    BY DEF Coherent, NoRequest
  <2>4. Overtaken(a) /\ Overtaken(b)
    BY <2>2 DEF Overtaken, NoRequest, Barred
  <2>5. Go(q, a) \/ Go(q, b)
    BY <1>1 DEF Submit
  <2>6. QED
    BY <1>1, <2>1, <2>3, <2>4, <2>5, OnlyMoves DEF Submit
<1>2. ASSUME Challenge(q)
      PROVE  AccountInv'
  <2> DEFINE a == [req[q] EXCEPT !.pc = "challenged"]
  <2>1. a \in Request
    BY <1>0 DEF Request
  <2>2. Coherent(a)
    BY <1>0 DEF Coherent, Request
  <2>3. Overtaken(a)
    BY <1>0, <1>2 DEF Overtaken, Challenge, Request
  <2>4. QED
    BY <1>2, <2>1, <2>2, <2>3, OnlyMoves DEF Challenge
<1>3. ASSUME Answer(q)
      PROVE  AccountInv'
  <2> DEFINE a == [req[q] EXCEPT !.pc = "proven", !.late = @ \ {"deactivation"}]
  <2>1. a \in Request
    BY <1>0 DEF Request
  <2>2. Coherent(a)
    BY <1>0 DEF Coherent, Request
  <2>3. Overtaken(a)
    BY <1>0, <1>3 DEF Overtaken, Answer, Request
  <2>4. QED
    BY <1>3, <2>1, <2>2, <2>3, OnlyMoves DEF Answer
<1>4. ASSUME GiveUp(q)
      PROVE  AccountInv'
  <2>1. Coherent(NoRequest) /\ Overtaken(NoRequest)
    BY DEF Coherent, Overtaken, NoRequest
  <2>2. QED
    BY <1>4, <2>1, IdleRequest, OnlyMoves DEF GiveUp, Done
<1>5. ASSUME NEW s \in Sessions, Authorize(q, s)
      PROVE  AccountInv'
  <2> DEFINE a == [NoRequest EXCEPT !.pc = "resume", !.session = s]
  <2>1. a \in Request
    BY IdleRequest DEF Request
  <2>2. Coherent(a)
    BY DEF Coherent, NoRequest
  <2>3. Barred => s \in stray
    BY <1>5 DEF AccountInv, Outside, Authorize
  <2>4. Overtaken(a)
    BY <2>3 DEF Overtaken, NoRequest
  <2>5. QED
    BY <1>5, <2>1, <2>2, <2>4, OnlyMoves DEF Authorize
<1>6. QED
  BY <1>1, <1>2, <1>3, <1>4, <1>5

\* The other steps that write nothing.
LEMMA AccountMoves ==
    ASSUME AccountInv, NEW q \in Requests,
           \/ \E s \in Sessions, p \in Passwords : VerifyCurrent(q, s, p)
           \/ \E u \in Purposes : AskLink(q, u)
           \/ Retire(q) \/ ReadDeactivated(q)
           \/ \E l \in Links : OpenLink(q, l) \/ OpenReport(q, l)
    PROVE  AccountInv'
<1>0. req[q] \in Request /\ Coherent(req[q]) /\ Overtaken(req[q])
  BY DEF AccountInv, TypeOK, Coherence
<1>1. ASSUME NEW s \in Sessions, NEW p \in Passwords, VerifyCurrent(q, s, p)
      PROVE  AccountInv'
  <2> DEFINE a == [NoRequest EXCEPT !.pc = "changing", !.password = p, !.session = s]
  <2>1. a \in Request
    BY IdleRequest DEF Request
  <2>2. Coherent(a) /\ Overtaken(a)
    BY DEF Coherent, Overtaken, NoRequest
  <2>3. QED
    BY <1>1, <2>1, <2>2, OnlyMoves DEF VerifyCurrent
<1>2. ASSUME NEW u \in Purposes, AskLink(q, u)
      PROVE  AccountInv'
  <2> DEFINE a == [NoRequest EXCEPT !.pc = "retire", !.purpose = u]
  <2>1. a \in Request
    BY IdleRequest DEF Request
  <2>2. Coherent(a)
    BY DEF Coherent, NoRequest
  <2>3. Overtaken(a)
    BY <1>2 DEF Overtaken, NoRequest, AskLink
  <2>4. QED
    BY <1>2, <2>1, <2>2, <2>3, OnlyMoves DEF AskLink
<1>3. ASSUME Retire(q)
      PROVE  AccountInv'
  <2> DEFINE D == {l \in Links : link[l] = "live" /\ purpose[l] = req[q].purpose}
             a == [req[q] EXCEPT !.pc = "insert", !.doomed = D]
  <2>1. a \in Request
    <3> D \in SUBSET Links
      OBVIOUS
    <3> QED
      BY <1>0 DEF Request
  <2> HIDE DEF D
  <2>2. Coherent(a)
    BY <1>0 DEF Coherent, Request
  <2>3. Overtaken(a)
    BY <1>0, <1>3 DEF Overtaken, Retire, Request
  <2>4. QED
    BY <1>3, <2>1, <2>2, <2>3, OnlyMoves DEF Retire, D
<1>4. ASSUME ReadDeactivated(q)
      PROVE  AccountInv'
  <2> DEFINE a == [NoRequest EXCEPT !.pc = "restoring",
                      !.target = IF password = NoPassword THEN "invited" ELSE "active"]
  <2>1. a \in Request
    BY IdleRequest DEF Request
  <2>2. Coherent(a) /\ Overtaken(a)
    BY DEF Coherent, Overtaken, NoRequest
  <2>3. QED
    BY <1>4, <2>1, <2>2, OnlyMoves DEF ReadDeactivated
<1>5. ASSUME NEW l \in Links, OpenLink(q, l)
      PROVE  AccountInv'
  <2> DEFINE a == [NoRequest EXCEPT !.pc = "setting", !.link = l]
  <2>1. a \in Request
    BY IdleRequest DEF Request
  <2>2. Coherent(a) /\ Overtaken(a)
    BY <1>5 DEF Coherent, Overtaken, NoRequest, OpenLink
  <2>3. QED
    BY <1>5, <2>1, <2>2, OnlyMoves DEF OpenLink
<1>6. ASSUME NEW l \in Links, OpenReport(q, l)
      PROVE  AccountInv'
  <2> DEFINE a == [NoRequest EXCEPT !.pc = "reporting", !.link = l]
  <2>1. a \in Request
    BY IdleRequest DEF Request
  <2>2. Coherent(a) /\ Overtaken(a)
    BY DEF Coherent, Overtaken, NoRequest
  <2>3. QED
    BY <1>6, <2>1, <2>2, OnlyMoves DEF OpenReport
<1>7. QED
  BY <1>1, <1>2, <1>3, <1>4, <1>5, <1>6

\* Steps of no request: what requests hold stays as it is.
LEMMA Aside ==
    ASSUME AccountInv, UNCHANGED req,
           status' = "deactivated" => status = "deactivated",
           password' = NoPassword => password = NoPassword,
           \A x \in stray : x \in stray',
           \A l \in Links : link[l] # "none" =>
               link'[l] # "none" /\ purpose'[l] = purpose[l]
    PROVE  Coherence' /\ \A p \in Requests : Overtaken(req[p])'
<1> SUFFICES ASSUME NEW p \in Requests
             PROVE  Coherent(req[p])' /\ Overtaken(req[p])'
  BY DEF Coherence
<1>1. req[p] \in Request /\ Coherent(req[p]) /\ Overtaken(req[p])
  BY DEF AccountInv, TypeOK, Coherence
<1>2. \A y \in Request : (Coherent(y) => Coherent(y)') /\ (Overtaken(y) => Overtaken(y)')
  BY Carries
<1>3. PICK y \in Request : y = req[p]
  BY <1>1
<1>4. Coherent(y)' /\ Overtaken(y)'
  BY <1>1, <1>2, <1>3
<1>5. QED
  BY <1>3, <1>4 DEF Coherent, Overtaken

\* A hash is upgraded, a session opened, a code stored.
LEMMA LoginWrites ==
    ASSUME AccountInv, NEW q \in Requests,
           \/ Rehash(q) \/ Resume(q)
           \/ \E s \in Sessions, previous \in Sessions \cup {NoSession} :
                 OpenSession(q, s, previous)
    PROVE  AccountInv'
<1>0. req[q] \in Request /\ Coherent(req[q]) /\ Overtaken(req[q])
  BY DEF AccountInv, TypeOK, Coherence
<1>1. ASSUME Rehash(q)
      PROVE  AccountInv'
  <2> DEFINE a == [NoRequest EXCEPT !.pc = "verified", !.late = req[q].late]
  <2>1. a \in Request
    BY <1>0, IdleRequest DEF Request
  <2>2. password' = NoPassword => password = NoPassword
    BY <1>0, <1>1, AccountAssumption DEF Rehash, Coherent
  <2>a. PICK r \in Request : r = a
    BY <2>1
  <2>3. Coherent(r)'
    BY <2>a DEF Coherent, NoRequest
  <2>4. Overtaken(r)'
    BY <1>0, <1>1, <2>2, <2>a DEF Overtaken, NoRequest, Rehash
  <2>5. /\ req' \in [Requests -> Request] /\ Coherence'
        /\ \A p \in Requests : Overtaken(req[p])'
    BY <1>1, <2>a, <2>2, <2>3, <2>4, MovesOn DEF Rehash, links, history
  <2>6. TypeOK' /\ ~misspent'
    BY <1>0, <1>1, <2>5 DEF AccountInv, TypeOK, Rehash, access, links, history, Request
  <2>7. Outside'
    BY <1>1, <2>2 DEF AccountInv, Outside, Barred, Rehash, access, links, history
  <2>8. QED
    BY <2>5, <2>6, <2>7 DEF AccountInv
<1>2. ASSUME Resume(q)
      PROVE  AccountInv'
  <2>0. req[q].session \in Sessions
    BY <1>0, <1>2 DEF Coherent, Resume
  <2>1. Coherent(NoRequest)' /\ Overtaken(NoRequest)'
    BY DEF Coherent, Overtaken, NoRequest
  <2>2. \A x \in stray : x \in stray'
    BY <1>2 DEF Resume, Marked
  <2>3. /\ req' \in [Requests -> Request] /\ Coherence'
        /\ \A p \in Requests : Overtaken(req[p])'
    BY <1>2, <2>1, <2>2, IdleRequest, MovesOn DEF Resume, Done, credentials, links
  <2>4. TypeOK' /\ ~misspent'
    BY <1>2, <2>0, <2>3
       DEF AccountInv, TypeOK, Resume, Marked, credentials, links
  <2>5. Outside'
    <3>1. Barred' => Barred
      BY <1>2 DEF Barred, Resume, credentials
    <3>2. Barred => req[q].session \in stray'
      BY <1>0, <1>2 DEF Overtaken, Resume, Marked
    <3>3. \A s \in Sessions : s # req[q].session => family'[s] = family[s]
      BY <1>2 DEF Resume, AccountInv, TypeOK
    <3>4. QED
      BY <1>2, <2>2, <3>1, <3>2, <3>3 DEF AccountInv, Outside, Resume,
         credentials, links
  <2>6. QED
    BY <2>3, <2>4, <2>5 DEF AccountInv
<1>3. ASSUME NEW s \in Sessions, NEW previous \in Sessions \cup {NoSession},
             OpenSession(q, s, previous)
      PROVE  AccountInv'
  <2> DEFINE a == [NoRequest EXCEPT !.pc = "resume", !.session = s,
                      !.late = req[q].late]
  <2>1. a \in Request
    BY <1>0, IdleRequest DEF Request
  <2>2. Barred => req[q].late # {}
    BY <1>0, <1>3 DEF Overtaken, Barred, OpenSession
  <2>3. \A x \in stray : x \in stray'
    BY <1>3 DEF OpenSession, Marked
  <2>4. Barred' => Barred
    BY <1>3 DEF Barred, OpenSession, credentials
  <2>a. PICK r \in Request : r = a
    BY <2>1
  <2>5. Coherent(r)'
    BY <2>a DEF Coherent, NoRequest
  <2>6. Overtaken(r)'
    BY <2>2, <2>4, <2>a DEF Overtaken, NoRequest
  <2>7. /\ req' \in [Requests -> Request] /\ Coherence'
        /\ \A p \in Requests : Overtaken(req[p])'
    BY <1>3, <2>a, <2>3, <2>5, <2>6, MovesOn DEF OpenSession, credentials, links
  <2>8. TypeOK' /\ ~misspent'
    BY <1>3, <2>7 DEF AccountInv, TypeOK, OpenSession, Marked, credentials, links
  <2>9. Outside'
    <3>1. Barred => s \in stray'
      BY <1>3, <2>2 DEF OpenSession, Marked
    <3>2. \A t \in Sessions : session'[t] = "live" => t = s \/ session[t] = "live"
      BY <1>3 DEF OpenSession
    <3>3. QED
      BY <1>3, <2>3, <2>4, <3>1, <3>2
         DEF AccountInv, Outside, OpenSession, credentials, links
  <2>10. QED
    BY <2>7, <2>8, <2>9 DEF AccountInv
<1>4. QED
  BY <1>1, <1>2, <1>3

\* Sessions, codes and links end, a code is redeemed, the cost is raised.
LEMMA Endings ==
    ASSUME AccountInv,
           \/ \E s \in Sessions : Redeem(s) \/ EndFamily(s) \/ EndSession(s)
           \/ \E l \in Links : LinkLapses(l)
           \/ RaiseCost
    PROVE  AccountInv'
<1> USE DEF credentials, access, links, history
<1>1. ASSUME NEW s \in Sessions, Redeem(s) \/ EndFamily(s) \/ EndSession(s)
      PROVE  AccountInv'
  <2>1. UNCHANGED <<credentials, links, req, history>>
    BY <1>1 DEF Redeem, EndFamily, EndSession
  <2>2. Coherence' /\ \A p \in Requests : Overtaken(req[p])'
    BY <2>1, Aside
  <2>3. TypeOK' /\ ~misspent'
    BY <1>1, <2>1 DEF AccountInv, TypeOK, Redeem, EndFamily, EndSession, Ended
  <2>4. \A t \in Sessions :
           /\ session'[t] = "live" => session[t] = "live"
           /\ family'[t] \in {"code", "live"} => family[t] \in {"code", "live"}
    BY <1>1 DEF AccountInv, TypeOK, Redeem, EndFamily, EndSession, Ended
  <2>5. Outside'
    BY <2>1, <2>4 DEF AccountInv, Outside, Barred
  <2>6. QED
    BY <2>2, <2>3, <2>5 DEF AccountInv
<1>2. ASSUME NEW l \in Links, LinkLapses(l)
      PROVE  AccountInv'
  <2>1. Coherence' /\ \A p \in Requests : Overtaken(req[p])'
    BY <1>2, Aside DEF LinkLapses, AccountInv, TypeOK
  <2>2. TypeOK' /\ ~misspent'
    BY <1>2 DEF AccountInv, TypeOK, LinkLapses
  <2>3. Outside'
    BY <1>2 DEF AccountInv, TypeOK, Outside, Barred, LinkLapses
  <2>4. QED
    BY <2>1, <2>2, <2>3 DEF AccountInv
<1>3. ASSUME RaiseCost
      PROVE  AccountInv'
  <2>1. Coherence' /\ \A p \in Requests : Overtaken(req[p])'
    BY <1>3, Aside DEF RaiseCost
  <2>2. TypeOK' /\ ~misspent'
    BY <1>3 DEF AccountInv, TypeOK, RaiseCost
  <2>3. Outside'
    BY <1>3 DEF AccountInv, Outside, Barred, RaiseCost
  <2>4. QED
    BY <2>1, <2>2, <2>3 DEF AccountInv
<1>4. QED
  BY <1>1, <1>2, <1>3

\* A request is over, having chosen a password, issued a link or reactivated.
LEMMA Finishes ==
    ASSUME AccountInv, NEW q \in Requests, Done(q),
           status' = "deactivated" => status = "deactivated",
           password' = NoPassword => password = NoPassword,
           \A x \in stray : x \in stray',
           \A l \in Links : link[l] # "none" =>
               link'[l] # "none" /\ purpose'[l] = purpose[l]
    PROVE  /\ req' \in [Requests -> Request] /\ Coherence'
           /\ \A p \in Requests : Overtaken(req[p])'
<1>1. Coherent(NoRequest)' /\ Overtaken(NoRequest)'
  BY DEF Coherent, Overtaken, NoRequest
<1>2. QED
  BY <1>1, IdleRequest, MovesOn DEF Done

\* A password is chosen by its owner, through a link or a session.
LEMMA Choosing ==
    ASSUME AccountInv, NEW q \in Requests, NEW p \in Passwords,
           ChangePassword(q, p) \/ SetPassword(q, p)
    PROVE  AccountInv'
<1>0. req[q] \in Request /\ Coherent(req[q])
  BY DEF AccountInv, TypeOK, Coherence
<1>1. /\ Stored(p) /\ Done(q) /\ stray' = stray /\ purpose' = purpose
      /\ password' # NoPassword /\ (status' = "deactivated" <=> status = "deactivated")
  BY AccountAssumption DEF ChangePassword, SetPassword, Stored, links, history
<1>2. \A l \in Links :
         /\ link[l] # "none" => link'[l] # "none"
         /\ link'[l] = "live" => link[l] = "live"
  BY DEF ChangePassword, SetPassword, links, AccountInv, TypeOK
<1>3. /\ req' \in [Requests -> Request] /\ Coherence'
      /\ \A r \in Requests : Overtaken(req[r])'
  BY <1>1, <1>2, Finishes
<1>4. \A s \in Sessions :
         /\ session'[s] = "live" => session[s] = "live"
         /\ family'[s] \in {"code", "live"} => family[s] \in {"code", "live"}
  BY DEF ChangePassword, SetPassword, access, Ended, AccountInv, TypeOK
<1>5. TypeOK'
  <2>1. session' \in [Sessions -> {"none", "live", "ended"}]
        /\ family' \in [Sessions -> {"none", "code", "live", "ended"}]
    BY DEF ChangePassword, SetPassword, access, Ended, AccountInv, TypeOK
  <2>2. link' \in [Links -> {"none", "live", "spent"}] /\ misspent' \in BOOLEAN
    BY DEF ChangePassword, SetPassword, links, history, AccountInv, TypeOK
  <2>3. QED
    BY <1>1, <1>3, <2>1, <2>2 DEF AccountInv, TypeOK, Stored
<1>6. ~misspent'
  BY <1>0 DEF ChangePassword, SetPassword, history, AccountInv, Coherent, Consumable
<1>7. Outside'
  BY <1>1, <1>2, <1>4 DEF AccountInv, Outside, Barred
<1>8. QED
  BY <1>3, <1>5, <1>6, <1>7 DEF AccountInv

\* A link is issued, or an account put back into use.
LEMMA Granting ==
    ASSUME AccountInv, NEW q \in Requests,
           \/ \E l \in Links : InsertLink(q, l)
           \/ Reactivate(q)
    PROVE  AccountInv'
<1>0. req[q] \in Request /\ Overtaken(req[q])
  BY DEF AccountInv, TypeOK
<1>1. ASSUME NEW l \in Links, InsertLink(q, l)
      PROVE  AccountInv'
  <2>1. \A k \in Links :
           /\ link[k] # "none" => link'[k] # "none" /\ purpose'[k] = purpose[k]
           /\ link'[k] = "live" => k = l \/ link[k] = "live"
    BY <1>1 DEF InsertLink, AccountInv, TypeOK
  <2>2. \A x \in stray : x \in stray'
    BY <1>1 DEF InsertLink, Marked
  <2>3. /\ req' \in [Requests -> Request] /\ Coherence'
        /\ \A p \in Requests : Overtaken(req[p])'
    BY <1>1, <2>1, <2>2, Finishes DEF InsertLink, credentials
  <2>4. TypeOK' /\ ~misspent'
    BY <1>0, <1>1, <2>3
       DEF AccountInv, TypeOK, InsertLink, Marked, credentials, access, Request
  <2>5. status = "deactivated" => l \in stray'
    BY <1>0, <1>1 DEF Overtaken, InsertLink, Marked
  <2>6. Outside'
    BY <1>1, <2>1, <2>2, <2>5
       DEF AccountInv, Outside, Barred, InsertLink, credentials, access
  <2>7. QED
    BY <2>3, <2>4, <2>6 DEF AccountInv
<1>2. ASSUME Reactivate(q)
      PROVE  AccountInv'
  <2>1. status' \in {"invited", "active"}
    BY <1>0, <1>2 DEF Reactivate, Request
  <2>2. /\ req' \in [Requests -> Request] /\ Coherence'
        /\ \A p \in Requests : Overtaken(req[p])'
    BY <1>2, <2>1, Finishes DEF Reactivate, links, history
  <2>3. TypeOK' /\ ~misspent'
    BY <1>2, <2>1, <2>2 DEF AccountInv, TypeOK, Reactivate, access, links, history
  <2>4. Outside'
    BY <1>2, <2>1
       DEF AccountInv, Outside, Barred, Reactivate, access, links, history
  <2>5. QED
    BY <2>2, <2>3, <2>4 DEF AccountInv
<1>3. QED
  BY <1>1, <1>2

\* What an eviction leaves: no session and no family, codes that are stray, and
\* requests that know of it.
LEMMA Evicted ==
    ASSUME AccountInv, NEW q \in Requests, NEW e \in Evictions,
           Ended(Sessions), Overtakes(e, q),
           status' \in {status, "deactivated"},
           status' = "deactivated" => status = "deactivated" \/ e = "deactivation",
           password' = NoPassword => password = NoPassword \/ e = "report",
           \A l \in Links : link[l] # "none" =>
               link'[l] # "none" /\ purpose'[l] = purpose[l]
    PROVE  /\ req' \in [Requests -> Request] /\ Coherence'
           /\ \A p \in Requests : Overtaken(req[p])'
           /\ stray \in SUBSET stray' /\ stray' \in SUBSET (Sessions \cup Links)
           /\ session' \in [Sessions -> {"none", "live", "ended"}]
           /\ family' \in [Sessions -> {"none", "code", "live", "ended"}]
           /\ \A s \in Sessions :
                 session'[s] = "live" \/ family'[s] \in {"code", "live"} => s \in stray'
<1>1. req \in [Requests -> Request]
  BY DEF AccountInv, TypeOK
<1>2. \A p \in Requests :
         \/ req'[p] = NoRequest
         \/ req'[p] = req[p] /\ req[p].pc \notin Entering
         \/ req'[p] = [req[p] EXCEPT !.late = @ \cup {e}]
  BY DEF Overtakes
<1>3. req' \in [Requests -> Request]
  <2>1. \A p \in Requests : [req[p] EXCEPT !.late = @ \cup {e}] \in Request
    BY <1>1 DEF Request
  <2>2. req' = [p \in Requests |-> req'[p]]
    BY DEF Overtakes
  <2>3. \A p \in Requests : req'[p] \in Request
    BY <1>1, <1>2, <2>1, IdleRequest
  <2>4. QED
    BY <2>2, <2>3
<1>4. \A p \in Requests : Coherent(req[p])' /\ Overtaken(req[p])'
  <2> SUFFICES ASSUME NEW p \in Requests
               PROVE  Coherent(req[p])' /\ Overtaken(req[p])'
    OBVIOUS
  <2>0. req[p] \in Request /\ Coherent(req[p]) /\ Overtaken(req[p])
    BY <1>1 DEF AccountInv, Coherence
  <2>1. CASE req'[p] = NoRequest
    BY <2>1 DEF Coherent, Overtaken, NoRequest
  <2>2. CASE req'[p] = req[p] /\ req[p].pc \notin Entering
    <3>1. Coherent(req[p])'
      BY <2>0, <2>2 DEF Coherent
    <3>2. Overtaken(req[p])'
      BY <2>2 DEF Overtaken, Entering
    <3>3. QED
      BY <3>1, <3>2
  <2>3. CASE req'[p] = [req[p] EXCEPT !.late = @ \cup {e}]
    <3>1. /\ req'[p].pc = req[p].pc /\ req'[p].late = req[p].late \cup {e}
          /\ req'[p].link = req[p].link /\ req'[p].session = req[p].session
          /\ req'[p].password = req[p].password
      BY <2>0, <2>3 DEF Request
    <3>2. Coherent(req[p])'
      BY <2>0, <3>1 DEF Coherent
    <3>3. Overtaken(req[p])'
      BY <2>0, <3>1 DEF Overtaken
    <3>4. QED
      BY <3>2, <3>3
  <2>4. QED
    BY <1>2, <2>1, <2>2, <2>3
<1>5. stray \in SUBSET stray' /\ stray' \in SUBSET (Sessions \cup Links)
  BY DEF Overtakes, AccountInv, TypeOK
<1>6. /\ session' \in [Sessions -> {"none", "live", "ended"}]
      /\ family' \in [Sessions -> {"none", "code", "live", "ended"}]
  BY DEF Ended, AccountInv, TypeOK
<1>7. \A s \in Sessions :
         session'[s] = "live" \/ family'[s] \in {"code", "live"} => s \in stray'
  BY DEF Ended, Overtakes
<1>8. QED
  BY <1>3, <1>4, <1>5, <1>6, <1>7 DEF Coherence

\* A report and a deactivation.
LEMMA Evicting ==
    ASSUME AccountInv, NEW q \in Requests,
           (\E l \in Links : Report(q, l)) \/ Deactivate(q)
    PROVE  AccountInv'
<1>1. ASSUME NEW l \in Links, Report(q, l)
      PROVE  AccountInv'
  <2>1. \A k \in Links : link[k] # "none" =>
           link'[k] # "none" /\ purpose'[k] = purpose[k]
    BY <1>1 DEF Report, Retired, AccountInv, TypeOK
  <2>2. "report" \in Evictions
    BY DEF Evictions
  <2>3. /\ Ended(Sessions) /\ Overtakes("report", q)
        /\ status' = status /\ misspent' = misspent
    BY <1>1 DEF Report
  <2>4. /\ req' \in [Requests -> Request] /\ Coherence'
        /\ \A p \in Requests : Overtaken(req[p])'
        /\ stray \in SUBSET stray' /\ stray' \in SUBSET (Sessions \cup Links)
        /\ session' \in [Sessions -> {"none", "live", "ended"}]
        /\ family' \in [Sessions -> {"none", "code", "live", "ended"}]
        /\ \A s \in Sessions :
              session'[s] = "live" \/ family'[s] \in {"code", "live"} => s \in stray'
    BY <2>1, <2>2, <2>3, Evicted
  <2>a. link' \in [Links -> {"none", "live", "spent"}]
    <3>1. Retired \in [Links -> {"none", "live", "spent"}]
      BY DEF AccountInv, TypeOK, Retired
    <3>2. link' = Retired \/ link' = [Retired EXCEPT ![l] = "live"]
      BY <1>1 DEF Report
    <3>3. QED
      BY <3>1, <3>2
  <2>b. purpose' \in [Links -> Purposes]
    BY <1>1 DEF AccountInv, TypeOK, Report, Purposes
  <2>c. password' = NoPassword /\ weak' = FALSE
    BY <1>1 DEF Report
  <2>5. TypeOK' /\ ~misspent'
    BY <2>3, <2>4, <2>a, <2>b, <2>c DEF AccountInv, TypeOK
  <2>6. status' = "deactivated" => \A k \in Links : link'[k] # "live"
    BY <1>1 DEF Report, Retired, AccountInv, TypeOK
  <2>7. QED
    BY <2>4, <2>5, <2>6 DEF AccountInv, Outside
<1>2. ASSUME Deactivate(q)
      PROVE  AccountInv'
  <2>1. \A k \in Links : link[k] # "none" =>
           link'[k] # "none" /\ purpose'[k] = purpose[k]
    BY <1>2 DEF Deactivate, Retired
  <2>2. "deactivation" \in Evictions
    BY DEF Evictions
  <2>3. /\ Ended(Sessions) /\ Overtakes("deactivation", q)
        /\ status' = "deactivated" /\ password' = password /\ misspent' = misspent
    BY <1>2 DEF Deactivate
  <2>4. /\ req' \in [Requests -> Request] /\ Coherence'
        /\ \A p \in Requests : Overtaken(req[p])'
        /\ stray \in SUBSET stray' /\ stray' \in SUBSET (Sessions \cup Links)
        /\ session' \in [Sessions -> {"none", "live", "ended"}]
        /\ family' \in [Sessions -> {"none", "code", "live", "ended"}]
        /\ \A s \in Sessions :
              session'[s] = "live" \/ family'[s] \in {"code", "live"} => s \in stray'
    BY <2>1, <2>2, <2>3, Evicted
  <2>a. link' \in [Links -> {"none", "live", "spent"}]
    BY <1>2 DEF AccountInv, TypeOK, Deactivate, Retired
  <2>5. TypeOK' /\ ~misspent'
    BY <1>2, <2>3, <2>4, <2>a DEF AccountInv, TypeOK, Deactivate
  <2>6. \A k \in Links : link'[k] # "live"
    BY <1>2 DEF Deactivate, Retired
  <2>7. QED
    BY <2>4, <2>5, <2>6 DEF AccountInv, Outside
<1>3. QED
  BY <1>1, <1>2

\* Every step keeps the invariant.
LEMMA AccountNext == AccountInv /\ [Next]_vars => AccountInv'
<1> SUFFICES ASSUME AccountInv, [Next]_vars PROVE AccountInv'
  OBVIOUS
<1>1. CASE UNCHANGED vars
  <2>1. UNCHANGED <<credentials, access, links, req, history>>
    BY <1>1 DEF vars
  <2>2. Coherence' /\ \A p \in Requests : Overtaken(req[p])'
    BY <2>1, Aside DEF credentials, access, links, history
  <2>3. TypeOK' /\ ~misspent' /\ Outside'
    BY <2>1 DEF AccountInv, TypeOK, Outside, Barred, credentials, access, links, history
  <2>4. QED
    BY <2>2, <2>3 DEF AccountInv
<1>2. ASSUME NEW q \in Requests, LoginStep(q)
      PROVE  AccountInv'
  BY <1>2, LoginMoves, LoginWrites DEF LoginStep
<1>3. ASSUME NEW q \in Requests, PasswordStep(q)
      PROVE  AccountInv'
  BY <1>3, AccountMoves, Choosing, Granting
  DEF PasswordStep, AskReset, NotifyAnomaly, Purposes
<1>4. ASSUME NEW q \in Requests, EvictStep(q)
      PROVE  AccountInv'
  BY <1>4, AccountMoves, Granting, Evicting DEF EvictStep
<1>5. ASSUME NEW l \in Links, CreateUser(l)
      PROVE  AccountInv'
  <2>1. \A k \in Links : link[k] # "none" =>
           link'[k] # "none" /\ purpose'[k] = purpose[k]
    BY <1>5 DEF CreateUser, AccountInv, TypeOK
  <2>2. Coherence' /\ \A p \in Requests : Overtaken(req[p])'
    BY <1>5, <2>1, Aside DEF CreateUser, history
  <2>3. TypeOK' /\ ~misspent'
    BY <1>5 DEF AccountInv, TypeOK, CreateUser, access, history, Purposes
  <2>4. Outside'
    BY <1>5 DEF AccountInv, Outside, Barred, CreateUser, access, history
  <2>5. QED
    BY <2>2, <2>3, <2>4 DEF AccountInv
<1>6. QED
  BY <1>1, <1>2, <1>3, <1>4, <1>5, Endings DEF Next

\* The invariant holds.
LEMMA AccountInvariance == Spec => []AccountInv
<1>1. QED
  BY AccountInit, AccountNext, PTL DEF Spec

\* Every variable stays in its type.
THEOREM TypeCorrect == Spec => []TypeOK
<1>1. AccountInv => TypeOK
  BY DEF AccountInv
<1>2. QED
  BY <1>1, AccountInvariance, PTL

\* Whoever was evicted stays out, but for what the eviction overtook.
THEOREM EvictionHolds == Spec => []EvictedStayOut
<1>1. AccountInv => EvictedStayOut
  BY DEF AccountInv, Outside, EvictedStayOut
<1>2. QED
  BY <1>1, AccountInvariance, PTL

\* A link sets one password at most.
THEOREM LinksSetOnce == Spec => []LinkSetsOnce
<1>1. AccountInv => LinkSetsOnce
  BY DEF AccountInv, LinkSetsOnce
<1>2. QED
  BY <1>1, AccountInvariance, PTL

\* Only a reactivation ends a deactivation.
THEOREM DeactivationIsKept == Spec => DeactivationHolds
<1>1. [Next]_vars => [status = "deactivated" =>
          status' = status \/ \E q \in Requests : Reactivate(q)]_vars
  <2> SUFFICES ASSUME Next, status = "deactivated"
               PROVE  status' = status \/ \E q \in Requests : Reactivate(q)
    OBVIOUS
  <2>1. ASSUME NEW q \in Requests, LoginStep(q)
        PROVE  status' = status
    BY <2>1 DEF LoginStep, Submit, Rehash, Challenge, Answer, Resume, GiveUp,
                Authorize, OpenSession, credentials
  <2>2. ASSUME NEW q \in Requests, PasswordStep(q)
        PROVE  status' = status
    BY <2>2 DEF PasswordStep, VerifyCurrent, ChangePassword, SetPassword, Stored,
                AskLink, AskReset, NotifyAnomaly, Retire, InsertLink, OpenLink,
                OpenReport, credentials
  <2>3. ASSUME NEW q \in Requests, EvictStep(q)
        PROVE  status' = status \/ Reactivate(q)
    BY <2>3 DEF EvictStep, Report, Deactivate, ReadDeactivated, credentials
  <2>4. ASSUME NEW s \in Sessions, Redeem(s) \/ EndFamily(s) \/ EndSession(s)
        PROVE  status' = status
    BY <2>4 DEF Redeem, EndFamily, EndSession, credentials
  <2>5. ASSUME NEW l \in Links, CreateUser(l) \/ LinkLapses(l)
        PROVE  status' = status
    BY <2>5 DEF CreateUser, LinkLapses, credentials
  <2>6. QED
    BY <2>1, <2>2, <2>3, <2>4, <2>5 DEF Next, RaiseCost
<1>2. QED
  BY <1>1, PTL DEF Spec, DeactivationHolds

-----------------------------------------------------------------------------
(***************************************************************************)
(* LoginLimiter: counters that are loaded, advanced and saved by requests  *)
(* that do not see each other.                                             *)
(*                                                                         *)
(* What must be shown is that a stale save does no harm but the one its    *)
(* property names.  A request saves what it loaded, aged by the time it    *)
(* took: if the cooldown it loaded still runs, that one ends in time; if   *)
(* none runs in its copy, it starts one at its own clock, and no cooldown  *)
(* it missed is older than the request (CopyInv).                          *)
(***************************************************************************)

\* No backoff is longer than Cap.
LEMMA BackoffBounded == \A rounds : Backoff(rounds) \in 0 .. Cap
BY PolicyAssumption DEF Backoff

\* What a recorded failure makes of a state.
LEMMA AfterOk ==
    ASSUME NEW k \in Key, NEW s \in States, NEW age \in 0 .. Lag,
           s.failures <= Free[k]
    PROVE  /\ After(k, s, age) \in States
           /\ After(k, s, age).failures <= Free[k]
           /\ Running(s, age) => After(k, s, age) = s
           /\ ~ Running(s, age) => After(k, s, age).until + age <= Cap
                                     \/ After(k, s, age).until = Past
<1>1. /\ Free[k] \in Nat /\ Lag \in Nat /\ Cap \in Nat /\ Rounds \in Nat
      /\ Past \in Int /\ Past <= 0 /\ Past = -Lag
  BY PolicyAssumption DEF Past
<1>2. s.failures \in Nat /\ s.rounds \in 0 .. Rounds /\ s.until \in Past .. Cap
  BY DEF States
<1>3. CASE Running(s, age)
  BY <1>3 DEF After
<1>4. CASE ~ Running(s, age) /\ s.failures + 1 > Free[k]
  <2> DEFINE rounds == Min2(s.rounds + 1, Rounds)
  <2>1. rounds \in 0 .. Rounds
    BY <1>1, <1>2 DEF Min2
  <2> DEFINE d == Backoff(rounds)
  <2>2. d \in 0 .. Cap
    BY BackoffBounded
  <2> DEFINE u == Max2(d - age, Past)
  <2>3. After(k, s, age) = [failures |-> 0, rounds |-> rounds, until |-> u]
    BY <1>4 DEF After, Advance
  <2> HIDE DEF rounds, d
  <2>4. u \in Past .. Cap /\ (u + age <= Cap \/ u = Past)
    BY <1>1, <2>2 DEF Max2
  <2> HIDE DEF u
  <2>5. QED
    BY <1>1, <1>4, <2>1, <2>3, <2>4 DEF States
<1>5. CASE ~ Running(s, age) /\ ~ (s.failures + 1 > Free[k])
  <2>1. After(k, s, age) = [failures |-> s.failures + 1, rounds |-> s.rounds,
                            until |-> Past]
    BY <1>5 DEF After, Advance
  <2>2. QED
    BY <1>1, <1>2, <1>5, <2>1 DEF States
<1>6. QED
  BY <1>3, <1>4, <1>5

\* What a tick makes of a state and of the age of a request.
LEMMA LaterOk ==
    ASSUME NEW s \in States
    PROVE  /\ Later(s) \in States
           /\ Later(s).failures = s.failures
           /\ Later(s).until = s.until - 1 \/ (Later(s).until = Past /\ s.until = Past)
<1>1. /\ Lag \in Nat /\ Cap \in Nat /\ Past \in Int /\ Past <= 0
  BY PolicyAssumption DEF Past
<1>2. s.until \in Past .. Cap
  BY DEF States
<1> DEFINE u == Max2(s.until - 1, Past)
<1>3. u \in Past .. Cap /\ (u = s.until - 1 \/ (u = Past /\ s.until = Past))
  BY <1>1, <1>2 DEF Max2
<1>4. Later(s) = [s EXCEPT !.until = u]
  BY DEF Later
<1> HIDE DEF u
<1>5. QED
  BY <1>3, <1>4 DEF States

LEMMA FreshOk ==
    /\ Fresh \in States /\ Fresh.failures = 0 /\ Fresh.until = Past
    /\ Past \in Int /\ Past <= 0 /\ Past = -Lag /\ Address \in Key /\ Ip \in Key
    /\ Idle \in Attempts /\ Idle.at = "idle"
BY PolicyAssumption DEF Fresh, States, Past, Idle, Attempts, Key

\* A request that goes on to the next counter, or is done.
LEMMA FollowingOk ==
    ASSUME LimiterTypeOK, NEW r \in Attempt, NEW at \in {"check", "load"},
           NEW done \in Attempts, done.at # "save"
    PROVE  Following(r, at, done) \in Attempts /\ Following(r, at, done).at # "save"
BY FreshOk DEF Following, LimiterTypeOK, Attempts

\* A step of one request that leaves the counters alone and saves nothing.
LEMMA QuietKeeps ==
    ASSUME LimiterInv, NEW r \in Attempt, NEW x \in Attempts, x.at # "save",
           Step(r, x), UNCHANGED <<state, ttl, locked>>
    PROVE  LimiterInv'
<1>1. /\ attempt' \in [Attempt -> Attempts] /\ attempt'[r] = x
      /\ \A q \in Attempt \ {r} : attempt'[q] = attempt[q]
  BY DEF Step, LimiterInv, LimiterTypeOK
<1>2. LimiterTypeOK'
  BY <1>1 DEF LimiterInv, LimiterTypeOK
<1>3. CooldownEnds' /\ CountInv'
  BY DEF LimiterInv, CooldownEnds, CountInv
<1>4. CopyInv'
  BY <1>1 DEF LimiterInv, CopyInv, Running
<1>5. QED
  BY <1>2, <1>3, <1>4 DEF LimiterInv

LEMMA LoadKeeps ==
    ASSUME LimiterInv, NEW r \in Attempt, Load(r)
    PROVE  LimiterInv'
<1>1. attempt[r] \in Attempts /\ attempt[r].key \in Key /\ attempt[r].age \in 0 .. Lag
  BY DEF LimiterInv, LimiterTypeOK, Attempts
<1> DEFINE k == attempt[r].key
           x == [attempt[r] EXCEPT !.at = "save", !.copy = state[k]]
<1>2. /\ state[k] \in States /\ state[k].failures <= Free[k]
      /\ state[k].until > 0 => locked[k] + state[k].until <= Cap
      /\ state[k].until <= 0 => locked[k] = 0
      /\ state[k].until \in Int /\ locked[k] \in Nat
  BY <1>1, FreshOk, PolicyAssumption
     DEF LimiterInv, LimiterTypeOK, CooldownEnds, CountInv, States
<1>3. /\ x \in Attempts /\ x.copy = state[k] /\ x.key = k /\ x.age = attempt[r].age
  BY <1>1, <1>2 DEF Attempts
<1>4. /\ attempt' \in [Attempt -> Attempts] /\ attempt'[r] = x
      /\ \A q \in Attempt \ {r} : attempt'[q] = attempt[q]
      /\ UNCHANGED <<state, ttl, locked>>
  BY <1>3 DEF Load, Step, LimiterInv, LimiterTypeOK
<1>5. LimiterTypeOK'
  BY <1>4 DEF LimiterInv, LimiterTypeOK
<1>6. CooldownEnds' /\ CountInv'
  BY <1>4 DEF LimiterInv, CooldownEnds, CountInv
<1>7. ~ Running(x.copy, x.age) => locked[k] <= x.age
  BY <1>1, <1>2, <1>3, PolicyAssumption DEF Running
<1> HIDE DEF k, x
<1>8. CopyInv'
  <2>1. ASSUME NEW q \in Attempt, attempt'[q].at = "save"
        PROVE  /\ attempt'[q].copy.failures <= Free[attempt'[q].key]
               /\ attempt'[q].copy.until > 0 =>
                      locked[attempt'[q].key] + attempt'[q].copy.until <= Cap
               /\ ~ Running(attempt'[q].copy, attempt'[q].age) =>
                      locked[attempt'[q].key] <= attempt'[q].age
    <3>1. CASE q = r
      BY <1>2, <1>3, <1>4, <1>7, <3>1
    <3>2. CASE q # r
      BY <1>4, <2>1, <3>2 DEF LimiterInv, CopyInv
    <3>3. QED
      BY <3>1, <3>2
  <2>2. QED
    BY <1>4, <2>1 DEF CopyInv, Running
<1>9. QED
  BY <1>5, <1>6, <1>8 DEF LimiterInv

LEMMA SaveKeeps ==
    ASSUME LimiterInv, NEW r \in Attempt, Save(r)
    PROVE  LimiterInv'
<1>0. /\ Cap \in Nat /\ Lag \in Nat /\ Window \in Nat
  BY PolicyAssumption
<1> DEFINE k == attempt[r].key
           c == attempt[r].copy
           age == attempt[r].age
           n == After(k, c, age)
           x == Following(r, "load", Idle)
<1>1. /\ attempt[r] \in Attempts /\ k \in Key /\ age \in 0 .. Lag /\ c \in States
      /\ attempt[r].at = "save"
  BY DEF LimiterInv, LimiterTypeOK, Attempts, Save
<1>2. /\ c.failures <= Free[k]
      /\ c.until > 0 => locked[k] + c.until <= Cap
      /\ ~ Running(c, age) => locked[k] <= age
  BY <1>1 DEF LimiterInv, CopyInv
<1>3. /\ n \in States /\ n.failures <= Free[k]
      /\ Running(c, age) => n = c
      /\ ~ Running(c, age) => n.until + age <= Cap \/ n.until = Past
  BY <1>1, <1>2, AfterOk
<1>4. x \in Attempts /\ x.at # "save"
  BY FollowingOk, FreshOk DEF LimiterInv
<1>5. /\ attempt' \in [Attempt -> Attempts] /\ attempt'[r] = x
      /\ \A q \in Attempt \ {r} : attempt'[q] = attempt[q]
      /\ state' = [state EXCEPT ![k] = n]
      /\ ttl' = [ttl EXCEPT ![k] = TTL(n, age)]
      /\ locked' = [locked EXCEPT ![k] = IF n.until > 0 THEN @ ELSE 0]
  BY <1>4 DEF Save, Step, LimiterInv, LimiterTypeOK
<1> HIDE DEF n, x, k, c, age
<1>6. n.until \in Past .. Cap /\ n.until \in Int /\ Past \in Int /\ Past <= 0
  BY <1>0, <1>3, FreshOk DEF States
<1>7. /\ TTL(n, age) \in 0 .. Max2(Window, Cap + Lag)
      /\ n.until <= TTL(n, age)
  BY <1>0, <1>1, <1>6 DEF TTL, Max2
<1> DEFINE l == IF n.until > 0 THEN locked[k] ELSE 0
<1>8. /\ locked[k] \in Nat /\ l \in Nat /\ l <= locked[k]
      /\ n.until <= 0 => l = 0
  BY <1>1, <1>6 DEF LimiterInv, LimiterTypeOK
<1>9. n.until > 0 => l + n.until <= Cap
  BY <1>0, <1>1, <1>2, <1>3, <1>6, <1>8
<1>10. /\ state' \in [Key -> States] /\ state'[k] = n
       /\ ttl' \in [Key -> 0 .. Max2(Window, Cap + Lag)] /\ ttl'[k] = TTL(n, age)
       /\ locked' \in [Key -> Nat] /\ locked'[k] = l
       /\ \A j \in Key \ {k} :
            state'[j] = state[j] /\ ttl'[j] = ttl[j] /\ locked'[j] = locked[j]
  BY <1>1, <1>3, <1>5, <1>7, <1>8 DEF LimiterInv, LimiterTypeOK
<1> HIDE DEF l
<1>11. LimiterTypeOK'
  BY <1>3, <1>5, <1>10 DEF LimiterInv, LimiterTypeOK
<1>12. CooldownEnds'
  BY <1>7, <1>9, <1>10 DEF LimiterInv, CooldownEnds
<1>13. CountInv'
  BY <1>8, <1>10 DEF LimiterInv, CountInv
<1>14. \A j \in Key : locked[j] \in Nat /\ locked'[j] \in Nat /\ locked'[j] <= locked[j]
  BY <1>8, <1>10 DEF LimiterInv, LimiterTypeOK
<1>15. CopyInv'
  <2>1. ASSUME NEW q \in Attempt, attempt'[q].at = "save"
        PROVE  /\ attempt'[q] = attempt[q] /\ attempt[q] \in Attempts
               /\ attempt[q].copy.failures <= Free[attempt[q].key]
               /\ attempt[q].copy.until > 0 =>
                     locked[attempt[q].key] + attempt[q].copy.until <= Cap
               /\ ~ Running(attempt[q].copy, attempt[q].age) =>
                     locked[attempt[q].key] <= attempt[q].age
    BY <1>4, <1>5, <2>1 DEF LimiterInv, LimiterTypeOK, CopyInv
  <2>2. ASSUME NEW q \in Attempt, attempt'[q].at = "save"
        PROVE  /\ attempt[q].copy.until > 0 =>
                     locked'[attempt[q].key] + attempt[q].copy.until <= Cap
               /\ ~ Running(attempt[q].copy, attempt[q].age) =>
                     locked'[attempt[q].key] <= attempt[q].age
    <3>1. attempt[q].key \in Key /\ attempt[q].copy.until \in Int
             /\ attempt[q].age \in Int
      BY <2>1, <2>2, FreshOk, <1>0 DEF Attempts, States
    <3>2. PICK old, new \in Nat : /\ old = locked[attempt[q].key]
                                  /\ new = locked'[attempt[q].key]
                                  /\ new <= old
      BY <1>14, <3>1
    <3>3. QED
      BY <1>0, <2>1, <2>2, <3>1, <3>2
  <2>3. QED
    BY <2>1, <2>2 DEF CopyInv, Running
<1>16. QED
  BY <1>11, <1>12, <1>13, <1>15 DEF LimiterInv

LEMMA SucceedKeeps ==
    ASSUME LimiterInv, NEW r \in Attempt, Succeed(r)
    PROVE  LimiterInv'
<1>0. Cap \in Nat /\ Lag \in Nat /\ Window \in Nat /\ Free \in [Key -> Nat]
  BY PolicyAssumption
<1>1. /\ attempt' \in [Attempt -> Attempts] /\ attempt'[r] = Idle
      /\ \A q \in Attempt \ {r} : attempt'[q] = attempt[q]
  BY FreshOk DEF Succeed, Step, LimiterInv, LimiterTypeOK
<1>2. 0 \in 0 .. Max2(Window, Cap + Lag)
  BY <1>0 DEF Max2
<1>3. /\ state' \in [Key -> States] /\ state'[Address] = Fresh
      /\ ttl' \in [Key -> 0 .. Max2(Window, Cap + Lag)] /\ ttl'[Address] = 0
      /\ locked' \in [Key -> Nat] /\ locked'[Address] = 0
      /\ \A j \in Key \ {Address} :
            state'[j] = state[j] /\ ttl'[j] = ttl[j] /\ locked'[j] = locked[j]
  BY <1>2, FreshOk DEF Succeed, LimiterInv, LimiterTypeOK
<1>4. Fresh.failures <= Free[Address] /\ Fresh.until <= 0
  BY <1>0, FreshOk
<1>5. LimiterTypeOK'
  BY <1>1, <1>3, <1>4 DEF LimiterInv, LimiterTypeOK
<1>6. CooldownEnds' /\ CountInv'
  BY <1>3, <1>4, FreshOk DEF LimiterInv, CooldownEnds, CountInv
<1>7. CopyInv'
  <2>1. ASSUME NEW q \in Attempt, attempt'[q].at = "save"
        PROVE  /\ attempt'[q] = attempt[q] /\ attempt[q] \in Attempts
               /\ attempt[q].copy.failures <= Free[attempt[q].key]
               /\ attempt[q].copy.until > 0 =>
                     locked[attempt[q].key] + attempt[q].copy.until <= Cap
               /\ ~ Running(attempt[q].copy, attempt[q].age) =>
                     locked[attempt[q].key] <= attempt[q].age
    BY <1>1, <2>1, FreshOk DEF LimiterInv, LimiterTypeOK, CopyInv
  <2>2. ASSUME NEW q \in Attempt, attempt'[q].at = "save"
        PROVE  /\ attempt[q].copy.until > 0 =>
                     locked'[attempt[q].key] + attempt[q].copy.until <= Cap
               /\ ~ Running(attempt[q].copy, attempt[q].age) =>
                     locked'[attempt[q].key] <= attempt[q].age
    <3>1. /\ attempt[q].key \in Key /\ attempt[q].copy.until \in Int
          /\ attempt[q].copy.until <= Cap /\ attempt[q].age \in Nat
      BY <2>1, <2>2, FreshOk, <1>0 DEF Attempts, States
    <3>2. CASE attempt[q].key = Address
      BY <1>0, <1>3, <3>1, <3>2
    <3>3. CASE attempt[q].key # Address
      BY <1>3, <2>1, <2>2, <3>1, <3>3
    <3>4. QED
      BY <3>2, <3>3
  <2>3. QED
    BY <2>1, <2>2 DEF CopyInv, Running
<1>8. QED
  BY <1>5, <1>6, <1>7 DEF LimiterInv

\* A tick, at one key.
LEMMA TickAtKey ==
    ASSUME LimiterInv, Tick, NEW k \in Key
    PROVE  /\ state'[k] \in States /\ state'[k].failures <= Free[k]
           /\ ttl'[k] \in 0 .. Max2(Window, Cap + Lag)
           /\ locked'[k] \in Nat
           /\ locked'[k] = 0 \/ locked'[k] = locked[k] + 1
           /\ state'[k].until > 0 =>
                 /\ state'[k].until = state[k].until - 1
                 /\ locked'[k] = locked[k] + 1
                 /\ state'[k].until <= ttl'[k]
           /\ state'[k].until <= 0 => locked'[k] = 0
           /\ state[k].until > 1 => state'[k].until = state[k].until - 1
<1>0. Cap \in Nat /\ Lag \in Nat /\ Window \in Nat /\ Free[k] \in Nat
  BY PolicyAssumption
<1>1. /\ state[k] \in States /\ state[k].failures <= Free[k]
      /\ state[k].until \in Int
      /\ state[k].until > 0 => state[k].until <= ttl[k]
      /\ ttl[k] \in 0 .. Max2(Window, Cap + Lag) /\ locked[k] \in Nat
  BY FreshOk, <1>0 DEF LimiterInv, LimiterTypeOK, CooldownEnds, States
<1> DEFINE s == IF ttl[k] <= 1 THEN Fresh ELSE Later(state[k])
           t == Max2(ttl[k] - 1, 0)
           l == IF s.until > 0 THEN locked[k] + 1 ELSE 0
<1>2. state'[k] = s /\ ttl'[k] = t /\ locked'[k] = l
  BY DEF Tick
<1>3. /\ s \in States /\ s.failures <= Free[k] /\ s.until \in Int
      /\ s.until > 0 => s.until = state[k].until - 1 /\ ttl[k] > 1
      /\ state[k].until > 1 => s.until = state[k].until - 1
  <2>1. CASE ttl[k] <= 1
    BY <1>0, <1>1, <2>1, FreshOk
  <2>2. CASE ~ (ttl[k] <= 1)
    BY <1>0, <1>1, <2>2, FreshOk, LaterOk DEF States
  <2>3. QED
    BY <2>1, <2>2
<1> HIDE DEF s
<1>4. t \in 0 .. Max2(Window, Cap + Lag) /\ (ttl[k] > 1 => t = ttl[k] - 1)
  BY <1>0, <1>1 DEF Max2
<1> HIDE DEF t
<1>5. s.until > 0 => s.until <= t
  BY <1>0, <1>1, <1>3, <1>4 DEF Max2
<1>6. l \in Nat /\ (l = 0 \/ l = locked[k] + 1)
  BY <1>1
<1>7. (s.until > 0 => l = locked[k] + 1) /\ (s.until <= 0 => l = 0)
  BY <1>3
<1> HIDE DEF l
<1>8. QED
  BY <1>2, <1>3, <1>4, <1>5, <1>6, <1>7

\* A tick, for one request that is about to save.
LEMMA TickAtRequest ==
    ASSUME LimiterInv, Tick, NEW r \in Attempt, attempt'[r].at = "save"
    PROVE  /\ attempt'[r].copy.failures <= Free[attempt'[r].key]
           /\ attempt'[r].copy.until > 0 =>
                 locked'[attempt'[r].key] + attempt'[r].copy.until <= Cap
           /\ ~ Running(attempt'[r].copy, attempt'[r].age) =>
                 locked'[attempt'[r].key] <= attempt'[r].age
<1>0. Cap \in Nat /\ Lag \in Nat
  BY PolicyAssumption
<1>1. attempt[r] \in Attempts
  BY DEF LimiterInv, LimiterTypeOK
<1> DEFINE k == attempt[r].key
           c == attempt[r].copy
           age == attempt[r].age
           later == Later(c)
<1>2. /\ attempt[r].at = "save" /\ age < Lag
      /\ attempt'[r].key = k /\ attempt'[r].copy = later /\ attempt'[r].age = age + 1
  BY <1>1 DEF Tick, Attempts
<1>3. k \in Key /\ c \in States /\ age \in 0 .. Lag
  BY <1>1 DEF Attempts
<1>4. /\ c.failures <= Free[k]
      /\ c.until > 0 => locked[k] + c.until <= Cap
      /\ ~ (c.until + age > 0) => locked[k] <= age
  BY <1>2 DEF LimiterInv, CopyInv, Running
<1>5. /\ later.failures = c.failures
      /\ later.until = c.until - 1 \/ (later.until = Past /\ c.until = Past)
      /\ c.until \in Int /\ later.until \in Int
  BY <1>3, LaterOk, FreshOk, <1>0 DEF States
<1> HIDE DEF k, c, age, later
<1>6. PICK old, new \in Nat : /\ old = locked[k] /\ new = locked'[k]
                              /\ new = 0 \/ new = old + 1
  BY <1>3, TickAtKey DEF LimiterInv, LimiterTypeOK
<1>7. later.until > 0 => new + later.until <= Cap
  <2> SUFFICES ASSUME later.until > 0 PROVE new + later.until <= Cap
    OBVIOUS
  <2>1. later.until = c.until - 1 /\ c.until > 0
    BY <1>5, FreshOk
  <2>2. old + c.until <= Cap
    BY <1>4, <1>6, <2>1
  <2>3. QED
    BY <1>0, <1>5, <1>6, <2>1, <2>2
<1>8. ~ (later.until + (age + 1) > 0) => new <= age + 1
  <2> SUFFICES ASSUME ~ (later.until + (age + 1) > 0) PROVE new <= age + 1
    OBVIOUS
  <2>1. ~ (c.until + age > 0)
    BY <1>0, <1>2, <1>3, <1>5, FreshOk
  <2>2. old <= age
    BY <1>4, <1>6, <2>1
  <2>3. QED
    BY <1>3, <1>6, <2>2
<1>9. QED
  BY <1>2, <1>4, <1>5, <1>6, <1>7, <1>8 DEF Running

LEMMA TickKeeps ==
    ASSUME LimiterInv, Tick
    PROVE  LimiterInv'
<1>1. /\ DOMAIN state' = Key /\ DOMAIN ttl' = Key /\ DOMAIN locked' = Key
      /\ state' = [k \in Key |-> state'[k]] /\ ttl' = [k \in Key |-> ttl'[k]]
      /\ locked' = [k \in Key |-> locked'[k]]
  BY DEF Tick
<1>2. attempt' \in [Attempt -> Attempts]
  <2>1. ASSUME NEW r \in Attempt PROVE attempt'[r] \in Attempts
    <3>1. attempt[r] \in Attempts /\ attempt[r].copy \in States
             /\ attempt[r].age \in 0 .. Lag
      BY DEF LimiterInv, LimiterTypeOK, Attempts
    <3>2. CASE attempt[r].at = "idle"
      BY <3>1, <3>2 DEF Tick
    <3>3. CASE attempt[r].at # "idle"
      <4> DEFINE c == Later(attempt[r].copy)
                 a == attempt[r].age + 1
      <4>1. attempt'[r] = [attempt[r] EXCEPT !.age = a, !.copy = c]
               /\ attempt[r].age < Lag
        BY <3>3 DEF Tick
      <4>2. c \in States /\ a \in 0 .. Lag
        BY <3>1, <4>1, LaterOk, PolicyAssumption
      <4> HIDE DEF c, a
      <4>3. QED
        BY <3>1, <4>1, <4>2 DEF Attempts
    <3>4. QED
      BY <3>2, <3>3
  <2>2. attempt' = [r \in Attempt |-> attempt'[r]]
    BY DEF Tick
  <2>3. QED
    BY <2>1, <2>2
<1>3. LimiterTypeOK'
  BY <1>1, <1>2, TickAtKey DEF LimiterTypeOK
<1>4. CountInv'
  BY TickAtKey DEF CountInv
<1>5. CooldownEnds'
  <2>1. ASSUME NEW k \in Key, state'[k].until > 0
        PROVE  locked'[k] + state'[k].until <= Cap
    <3>1. /\ state'[k].until = state[k].until - 1 /\ locked'[k] = locked[k] + 1
          /\ state[k].until \in Int /\ locked[k] \in Nat
      BY <2>1, TickAtKey, FreshOk, PolicyAssumption DEF LimiterInv,
         LimiterTypeOK, States
    <3>2. PICK old, s \in Int : old = locked[k] /\ s = state[k].until
      BY <3>1
    <3>3. state'[k].until = s - 1 /\ locked'[k] = old + 1 /\ s - 1 > 0
      BY <2>1, <3>1, <3>2
    <3>4. old + s <= Cap
      BY <3>2, <3>3 DEF LimiterInv, CooldownEnds
    <3>5. QED
      BY <3>3, <3>4, PolicyAssumption
  <2>2. QED
    BY <2>1, TickAtKey DEF CooldownEnds
<1>6. CopyInv'
  BY TickAtRequest DEF CopyInv, Running
<1>7. QED
  BY <1>3, <1>4, <1>5, <1>6 DEF LimiterInv

-----------------------------------------------------------------------------

LEMMA LimiterInitially == LimiterInit => LimiterInv
<1> SUFFICES ASSUME LimiterInit PROVE LimiterInv
  OBVIOUS
<1>1. 0 \in 0 .. Max2(Window, Cap + Lag) /\ \A k \in Key : Free[k] \in Nat
  BY PolicyAssumption DEF Max2
<1>2. QED
  BY <1>1, FreshOk DEF LimiterInit, LimiterInv, LimiterTypeOK, CooldownEnds,
     CountInv, CopyInv

LEMMA LimiterStep == LimiterInv /\ [LimiterNext]_limiterVars => LimiterInv'
<1> SUFFICES ASSUME LimiterInv, [LimiterNext]_limiterVars PROVE LimiterInv'
  OBVIOUS
<1>1. CASE Tick
  BY <1>1, TickKeeps
<1>2. ASSUME NEW r \in Attempt, Move(r) PROVE LimiterInv'
  <2>0. /\ attempt[r] \in Attempts
        /\ Idle \in Attempts /\ Idle.at # "save"
        /\ Verifying(r) \in Attempts /\ Verifying(r).at = "verify"
    BY FreshOk DEF LimiterInv, LimiterTypeOK, Attempts, Verifying
  <2>1. CASE Arrive(r)
    <3> PICK ip \in BOOLEAN : Step(r, [Idle EXCEPT !.at = "check", !.ip = ip])
      BY <2>1 DEF Arrive
    <3> DEFINE x == [Idle EXCEPT !.at = "check", !.ip = ip]
    <3>1. x \in Attempts /\ x.at # "save"
      BY <2>0 DEF Attempts
    <3>2. QED
      BY <2>1, <3>1, QuietKeeps DEF Arrive
  <2>2. CASE Check(r)
    <3> DEFINE x == IF Running(state[attempt[r].key], attempt[r].age) THEN Idle
                    ELSE Following(r, "check", Verifying(r))
    <3>1. x \in Attempts /\ x.at # "save"
      BY <2>0, FollowingOk DEF LimiterInv
    <3>2. QED
      BY <2>2, <3>1, QuietKeeps DEF Check
  <2>3. CASE CheckFails(r)
    BY <2>0, <2>3, QuietKeeps DEF CheckFails
  <2>4. CASE Verify(r)
    <3> DEFINE age == IF attempt[r].ip THEN 0 ELSE attempt[r].age
               x == [attempt[r] EXCEPT !.at = "load", !.age = age]
               y == [attempt[r] EXCEPT !.at = "clear"]
    <3>1. age \in 0 .. Lag
      BY <2>0, PolicyAssumption DEF Attempts
    <3>2. Step(r, x) \/ Step(r, y) \/ Step(r, Idle)
      BY <2>4 DEF Verify
    <3> HIDE DEF age
    <3>3. x \in Attempts /\ x.at # "save" /\ y \in Attempts /\ y.at # "save"
      BY <2>0, <3>1 DEF Attempts
    <3>4. QED
      BY <2>0, <2>4, <3>2, <3>3, QuietKeeps DEF Verify
  <2>5. CASE Load(r)
    BY <2>5, LoadKeeps
  <2>6. CASE Save(r)
    BY <2>6, SaveKeeps
  <2>7. CASE FailFails(r)
    <3> DEFINE x == Following(r, "load", Idle)
    <3>1. x \in Attempts /\ x.at # "save"
      BY <2>0, FollowingOk DEF LimiterInv
    <3>2. QED
      BY <2>7, <3>1, QuietKeeps DEF FailFails
  <2>8. CASE Succeed(r)
    BY <2>8, SucceedKeeps
  <2>9. CASE Abandon(r)
    BY <2>0, <2>9, QuietKeeps DEF Abandon
  <2>10. QED
    BY <1>2, <2>1, <2>2, <2>3, <2>4, <2>5, <2>6, <2>7, <2>8, <2>9 DEF Move
<1>3. CASE UNCHANGED limiterVars
  BY <1>3 DEF limiterVars, LimiterInv, LimiterTypeOK, CooldownEnds, CountInv,
     CopyInv, Running
<1>4. QED
  BY <1>1, <1>2, <1>3 DEF LimiterNext

\* What a request is about to save goes on fitting what others have saved since it
\* loaded its copy, for every number of requests, every policy and
\* however long a request takes.
THEOREM LimiterInvariant == LimiterSpec => []LimiterInv
<1>1. LimiterInit => LimiterInv
  BY LimiterInitially
<1>2. LimiterInv /\ [LimiterNext]_limiterVars => LimiterInv'
  BY LimiterStep
<1>3. QED
  BY <1>1, <1>2, PTL DEF LimiterSpec

\* The counters, their expiry and the requests are what the limiter keeps.
THEOREM LimiterTypeCorrect == LimiterSpec => []LimiterTypeOK
<1>1. LimiterInv => LimiterTypeOK
  BY DEF LimiterInv
<1>2. QED
  BY <1>1, LimiterInvariant, PTL

\* No sequence of failures, however they interleave, keeps a key cooling down for
\* longer than Cap without a break: a cooldown that runs is never lengthened.
THEOREM CooldownsEnd == LimiterSpec => []CooldownEnds
<1>1. LimiterInv => CooldownEnds
  BY DEF LimiterInv
<1>2. QED
  BY <1>1, LimiterInvariant, PTL

\* A cooldown is never cut short but by a success at the address, or by a request
\* that loaded the counter before the cooldown began and saves it now: a failure
\* recorded on top of a running cooldown leaves it alone.
THEOREM CooldownsAreKept == LimiterSpec => CooldownKept
<1> DEFINE Kept(k) ==
        state[k].until > 1 /\ state'[k].until < state[k].until - 1 =>
            \/ k = Address /\ \E r \in Attempt : attempt[r].at = "clear"
            \/ \E r \in Attempt : /\ attempt[r].at = "save"
                                  /\ attempt[r].key = k
                                  /\ attempt[r].copy.until < state[k].until
<1>1. ASSUME LimiterInv, NEW r \in Attempt, Save(r), NEW k \in Key PROVE Kept(k)
  <2> DEFINE c == attempt[r].copy
             age == attempt[r].age
  <2>1. /\ attempt[r].at = "save" /\ attempt[r].key \in Key /\ c \in States
        /\ age \in 0 .. Lag /\ state[k] \in States
        /\ state' = [state EXCEPT ![attempt[r].key] = After(attempt[r].key, c, age)]
    BY <1>1 DEF LimiterInv, LimiterTypeOK, Attempts, Save
  <2>2. /\ c.until \in Int /\ state[k].until \in Int /\ age \in Nat
        /\ state \in [Key -> States]
    BY <1>1, <2>1, FreshOk, PolicyAssumption DEF States, LimiterInv, LimiterTypeOK
  <2>3. CASE attempt[r].key # k
    BY <2>1, <2>2, <2>3
  <2>4. CASE attempt[r].key = k /\ c.until < state[k].until
    BY <2>1, <2>4
  <2>5. CASE attempt[r].key = k /\ ~ (c.until < state[k].until)
    <3> SUFFICES ASSUME state[k].until > 1
                 PROVE  ~ (state'[k].until < state[k].until - 1)
      OBVIOUS
    <3>1. After(k, c, age) = c
      BY <2>2, <2>5 DEF After, Running
    <3>2. state'[k] = c
      BY <2>1, <2>2, <2>5, <3>1
    <3>3. QED
      BY <2>2, <2>5, <3>2
  <2>6. QED
    BY <2>3, <2>4, <2>5
<1>2. ASSUME LimiterInv, Tick, NEW k \in Key PROVE Kept(k)
  <2>1. state[k].until \in Int
    BY <1>2, FreshOk, PolicyAssumption DEF LimiterInv, LimiterTypeOK, States
  <2>2. QED
    BY <1>2, <2>1, TickAtKey
<1>3. ASSUME LimiterInv, NEW r \in Attempt, Succeed(r), NEW k \in Key PROVE Kept(k)
  <2>1. state[k].until \in Int /\ state \in [Key -> States]
    BY <1>3, FreshOk, PolicyAssumption DEF LimiterInv, LimiterTypeOK, States
  <2>2. QED
    BY <1>3, <2>1 DEF Succeed
<1>4. ASSUME LimiterInv, UNCHANGED state, NEW k \in Key PROVE Kept(k)
  <2>1. state[k].until \in Int
    BY <1>4, FreshOk, PolicyAssumption DEF LimiterInv, LimiterTypeOK, States
  <2>2. QED
    BY <1>4, <2>1
<1>5. LimiterInv /\ [LimiterNext]_limiterVars => [\A k \in Key : Kept(k)]_limiterVars
  <2> SUFFICES ASSUME LimiterInv, [LimiterNext]_limiterVars, NEW k \in Key PROVE Kept(k)
    OBVIOUS
  <2> HIDE DEF Kept
  <2>1. CASE \E r \in Attempt : Save(r) \/ Succeed(r)
    BY <1>1, <1>3, <2>1
  <2>2. CASE Tick
    BY <1>2, <2>2
  <2>3. CASE UNCHANGED state
    BY <1>4, <2>3
  <2>4. QED
    BY <2>1, <2>2, <2>3 DEF LimiterNext, Move, Arrive, Check, CheckFails, Verify, Load,
       FailFails, Abandon, limiterVars
<1>6. QED
  BY <1>5, LimiterInvariant, PTL DEF LimiterSpec, CooldownKept

=============================================================================
