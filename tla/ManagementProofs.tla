-------------------------- MODULE ManagementProofs ---------------------------
(***************************************************************************)
(* Theorems about the management API: a request that is repeated under     *)
(* its idempotency key, for any number of requests and bodies and every    *)
(* life of a record longer than a request (Idempotency); and what          *)
(* requests that change who may do what write to the database, for every   *)
(* number of users, roles, project grants and administrators               *)
(* (Delegation).                                                           *)
(***************************************************************************)
EXTENDS Idempotency, Delegation, TLAPS

Steps == {"idle", "claim", "read", "reclaim", "run", "complete", "release"}

\* What Go does to the requests.
LEMMA GoMoves ==
    ASSUME TypeOK, NEW q \in Requests, NEW pc \in Steps, Go(q, pc)
    PROVE  /\ req' \in [Requests -> RequestState]
           /\ req'[q] = [pc |-> pc, at |-> req[q].at, body |-> req[q].body,
                         got |-> NoBody]
           /\ \A p \in Requests : p # q => req'[p] = req[p]
BY DEF TypeOK, Go, RequestState, Steps

\* A request in progress has a body, and its claim fits the clock.
LEMMA ClaimFits ==
    ASSUME TypeOK, TimeInv, NEW q \in Requests, req[q].pc # "idle"
    PROVE  /\ req[q].body \in Bodies /\ req[q].at \in Time
           /\ req[q].at + TTL \in Time
BY LifetimesAssumption DEF TypeOK, TimeInv, RequestState, Time

\* The initial state satisfies the inductive invariant.
LEMMA KeyInit == Init => KeyInv
<1>1. NoRequest \in RequestState
  BY LifetimesAssumption DEF NoRequest, RequestState, Time
<1>2. Init => TypeOK
  BY <1>1, LifetimesAssumption DEF Init, TypeOK, Time, Never
<1>3. Init => Holders = {}
  BY DEF Init, Holders, NoRequest
<1>4. QED
  BY <1>2, <1>3 DEF Init, KeyInv, TimeInv, HolderInv, AnswerInv, OneHolder,
                    ReplayIsOwn, NoRequest

\* One step keeps the state well typed.
LEMMA TypeStep ==
    ASSUME TypeOK, TimeInv, [Next]_vars
    PROVE  TypeOK'
<1> USE LifetimesAssumption DEF TypeOK, record
<1>1. CASE Tick
  BY <1>1 DEF Tick, Time
<1>2. ASSUME NEW q \in Requests, NEW b \in Bodies, Arrive(q, b) PROVE TypeOK'
  BY <1>2 DEF Arrive, RequestState
<1>3. ASSUME NEW q \in Requests, req[q].pc # "idle", Claimed(q)
      PROVE  /\ status' \in {"none", "open", "answered"}
             /\ hash' \in Bodies \cup {NoBody} /\ answer' \in Bodies \cup {NoBody}
             /\ until' \in Time
  BY <1>3, ClaimFits DEF Claimed
<1>4. ASSUME NEW q \in Requests, Claim(q) PROVE TypeOK'
  BY <1>3, <1>4, GoMoves DEF Claim, Steps
<1>5. ASSUME NEW q \in Requests, Read(q) PROVE TypeOK'
  <2>1. CASE \E pc \in Steps : Go(q, pc)
    BY <1>5, <2>1, GoMoves DEF Read
  <2>2. CASE req' = [req EXCEPT ![q] = [pc |-> "idle", at |-> req[q].at,
                                       body |-> req[q].body, got |-> answer]]
    BY <1>5, <2>2 DEF Read, RequestState
  <2>3. QED
    BY <1>5, <2>1, <2>2 DEF Read, Steps
<1>6. ASSUME NEW q \in Requests, Reclaim(q) PROVE TypeOK'
  BY <1>3, <1>6, GoMoves DEF Reclaim, TakeOver, Steps
<1>7. ASSUME NEW q \in Requests, BeginFails(q) PROVE TypeOK'
  BY <1>3, <1>7, GoMoves DEF BeginFails, TakeOver, Steps
<1>8. ASSUME NEW q \in Requests, Handle(q) \/ Abandon(q) PROVE TypeOK'
  BY <1>8, GoMoves DEF Handle, Abandon, Steps
<1>9. ASSUME NEW q \in Requests, Complete(q) \/ CompleteFails(q) PROVE TypeOK'
  <2>1. req' \in [Requests -> RequestState]
    BY <1>9, GoMoves DEF Complete, CompleteFails, Steps
  <2>2. req[q].body \in Bodies
    BY <1>9, ClaimFits DEF Complete, CompleteFails
  <2>3. QED
    BY <1>9, <2>1, <2>2 DEF Complete, CompleteFails, Answered
<1>10. ASSUME NEW q \in Requests, Release(q) PROVE TypeOK'
  <2>1. req' \in [Requests -> RequestState]
    BY <1>10, GoMoves DEF Release, Steps
  <2>2. Never \in 0..Never
    BY DEF Never
  <2>3. QED
    BY <1>10, <2>1, <2>2 DEF Release
<1>11. CASE SweepScan \/ SweepDelete
  BY <1>11 DEF SweepScan, SweepDelete, Time, Never
<1>12. CASE UNCHANGED vars
  BY <1>12 DEF vars
<1>13. QED
  BY <1>1, <1>2, <1>4, <1>5, <1>6, <1>7, <1>8, <1>9, <1>10, <1>11, <1>12
     DEF Next, RequestStep

\* One step keeps requests no older than Lag.
LEMMA TimeStep ==
    ASSUME TypeOK, TimeInv, [Next]_vars
    PROVE  TimeInv'
<1> USE LifetimesAssumption
<1>1. CASE Tick
  <2>1. SUFFICES ASSUME NEW q \in Requests, req[q].pc # "idle"
                 PROVE  req[q].at <= now' /\ now' <= req[q].at + Lag
    BY <1>1 DEF Tick, TimeInv
  <2>2. req[q].at \in Nat /\ now \in Nat
    BY DEF TypeOK, RequestState, Time
  <2>3. QED
    BY <1>1, <2>1, <2>2 DEF Tick, TimeInv
<1>2. ASSUME NEW q \in Requests, NEW b \in Bodies, Arrive(q, b) PROVE TimeInv'
  BY <1>2 DEF Arrive, TimeInv, TypeOK, RequestState, Time
<1>3. ASSUME NEW q \in Requests, RequestStep(q) \/ Abandon(q) PROVE TimeInv'
  <2>1. /\ now' = now /\ req[q].pc # "idle"
        /\ \A p \in Requests : p # q => req'[p] = req[p]
        /\ req'[q].pc = "idle" \/ (/\ req'[q].at = req[q].at
                                   /\ req'[q].body = req[q].body)
    <3>1. CASE \E pc \in Steps : Go(q, pc)
      <4>1. now' = now /\ req[q].pc # "idle"
        BY <1>3 DEF RequestStep, Claim, Read, Reclaim, BeginFails, Handle,
                    Complete, CompleteFails, Release, Abandon
      <4>2. PICK pc \in Steps : Go(q, pc)
        BY <3>1
      <4>3. /\ req'[q] = [pc |-> pc, at |-> req[q].at, body |-> req[q].body,
                          got |-> NoBody]
            /\ \A p \in Requests : p # q => req'[p] = req[p]
        BY <4>2, GoMoves
      <4>4. req'[q].at = req[q].at /\ req'[q].body = req[q].body
        BY <4>3
      <4>5. QED
        BY <4>1, <4>3, <4>4
    <3>2. CASE Read(q)
      BY <3>2 DEF Read, Go, TypeOK
    <3>3. QED
      BY <1>3, <3>1, <3>2
         DEF RequestStep, Claim, Reclaim, BeginFails, Handle, Complete,
             CompleteFails, Release, Abandon, Steps
  <2>2. QED
    BY <2>1 DEF TimeInv
<1>4. CASE SweepScan \/ SweepDelete \/ UNCHANGED vars
  BY <1>4 DEF SweepScan, SweepDelete, vars, TimeInv
<1>5. QED
  BY <1>1, <1>2, <1>3, <1>4 DEF Next
-----------------------------------------------------------------------------
(* The key                                                                  *)

\* What the inductive invariant says while nothing has collided.
Settled ==
    /\ HolderInv /\ AnswerInv
    /\ \A p, q \in Holders : p = q
    /\ \A q \in Requests : req[q].got # NoBody => req[q].got = req[q].body

\* A record that is gone or has expired has no holder, and no answer to replay.
LEMMA FreeUnheld ==
    ASSUME TypeOK, TimeInv, Settled, status = "none" \/ until <= now
    PROVE  Holders = {} /\ kept <= now
<1>1. ASSUME NEW q \in Holders PROVE FALSE
  <2>1. /\ status # "none" /\ until = req[q].at + TTL
        /\ q \in Requests /\ req[q].pc # "idle"
    BY DEF Settled, HolderInv, Holders
  <2>2. req[q].at \in Nat /\ now \in Nat
    BY <2>1 DEF TypeOK, RequestState, Time
  <2>3. now <= req[q].at + Lag
    BY <2>1 DEF TimeInv
  <2>4. QED
    BY <2>1, <2>2, <2>3, LifetimesAssumption
<1>2. kept \in Nat /\ now \in Nat /\ until \in Nat
  BY LifetimesAssumption DEF TypeOK, Time
<1>3. kept <= now
  BY <1>2 DEF Settled, AnswerInv
<1>4. QED
  BY <1>1, <1>3

\* A request that holds nothing after its step changes nothing for the others.
LEMMA Passes ==
    ASSUME TypeOK, Settled, NEW q \in Requests,
           \A p \in Requests : p # q => req'[p] = req[p],
           req'[q].pc \notin {"run", "complete", "release"},
           req'[q].got \in {NoBody, req'[q].body},
           UNCHANGED <<now, record, kept>>
    PROVE  Settled'
BY DEF Settled, HolderInv, AnswerInv, Holders, record

\* In particular one that goes on without the key.
LEMMA StepsAside ==
    ASSUME TypeOK, Settled, NEW q \in Requests,
           NEW pc \in {"idle", "read", "reclaim"}, Go(q, pc),
           UNCHANGED <<now, record, kept>>
    PROVE  Settled'
<1>1. /\ req'[q] = [pc |-> pc, at |-> req[q].at, body |-> req[q].body,
                    got |-> NoBody]
      /\ \A p \in Requests : p # q => req'[p] = req[p]
  BY GoMoves DEF Steps
<1>2. /\ req'[q].pc \notin {"run", "complete", "release"}
      /\ req'[q].got \in {NoBody, req'[q].body}
  BY <1>1
<1>3. QED
  BY <1>1, <1>2, Passes

\* A request that claims a record nobody holds is its one holder, or, when it
\* has not heard of its commit, leaves it without one.
LEMMA Claims ==
    ASSUME TypeOK, Settled, NEW q \in Requests, NEW pc \in {"run", "idle"},
           Holders = {}, kept <= now, Claimed(q), Go(q, pc),
           UNCHANGED <<now, kept>>
    PROVE  Settled'
<1>1. /\ req'[q] = [pc |-> pc, at |-> req[q].at, body |-> req[q].body,
                    got |-> NoBody]
      /\ \A p \in Requests : p # q => req'[p] = req[p]
  BY GoMoves DEF Steps
<1>2. Holders' \subseteq {q}
  BY <1>1 DEF Holders
<1>3. HolderInv'
  BY <1>1, <1>2 DEF HolderInv, Claimed
<1>4. AnswerInv'
  <2>1. kept \in Nat /\ now \in Nat
    BY LifetimesAssumption DEF TypeOK, Time
  <2>2. QED
    BY <2>1 DEF AnswerInv, Claimed
<1>5. \A p \in Requests : req'[p].got # NoBody => req'[p].got = req'[p].body
  BY <1>1 DEF Settled
<1>6. QED
  BY <1>2, <1>3, <1>4, <1>5 DEF Settled

\* A holder's own step, and that of its last one, settle the key again.
LEMMA Holds ==
    ASSUME TypeOK, Settled, NEW q \in Holders,
           Handle(q) \/ Complete(q) \/ CompleteFails(q) \/ Release(q)
    PROVE  Settled'
<1>1. /\ q \in Requests /\ Holders = {q}
      /\ until = req[q].at + TTL /\ hash = req[q].body
      /\ status = "open" \/ (req[q].pc = "release" /\ status = "answered")
  BY DEF Settled, HolderInv, Holders
<1>2. PICK pc \in {"idle", "complete", "release"} : Go(q, pc)
  BY DEF Handle, Complete, CompleteFails, Release
<1>3. /\ req'[q] = [pc |-> pc, at |-> req[q].at, body |-> req[q].body,
                    got |-> NoBody]
      /\ \A p \in Requests : p # q => req'[p] = req[p]
  BY <1>1, <1>2, GoMoves DEF Steps
<1>4. /\ \A p \in Requests : req'[p].got # NoBody => req'[p].got = req'[p].body
      /\ Holders' \subseteq {q}
  BY <1>1, <1>3 DEF Settled, Holders
<1>5. kept \in Nat /\ now \in Nat /\ now' = now
  BY LifetimesAssumption
     DEF TypeOK, Time, Handle, Complete, CompleteFails, Release
<1>6. HolderInv' /\ AnswerInv'
  <2>1. CASE Handle(q) \/ (UNCHANGED <<record, kept>> /\ req'[q].pc # "complete")
    <3>1. UNCHANGED <<status, hash, answer, until, kept>>
      BY <2>1 DEF Handle, record
    <3>2. HolderInv'
      BY <1>1, <1>3, <1>4, <2>1, <3>1 DEF HolderInv, Holders, Handle
    <3>3. AnswerInv'
      BY <1>5, <3>1 DEF Settled, AnswerInv
    <3>4. QED
      BY <3>2, <3>3
  <2>2. CASE Answered(q) /\ req[q].pc = "complete" /\ req'[q].pc \in {"idle", "release"}
    BY <1>1, <1>3, <1>4, <1>5, <2>2
       DEF HolderInv, AnswerInv, Answered, Holders
  <2>3. CASE Release(q)
    <3>1. Holders' = {}
      BY <1>1, <1>2, <1>3, <1>4, <2>3 DEF Release, Holders, Go, TypeOK
    <3>2. HolderInv'
      BY <3>1 DEF HolderInv
    <3>3. AnswerInv'
      BY <1>1, <1>5, <2>3 DEF Settled, AnswerInv, Release
    <3>4. QED
      BY <3>2, <3>3
  <2>4. QED
    BY <1>1, <1>3, <2>1, <2>2, <2>3 DEF Complete, CompleteFails, Go, TypeOK
<1>7. QED
  BY <1>4, <1>6 DEF Settled

\* One step that collides with nothing leaves the key settled.
LEMMA SettledStep ==
    ASSUME TypeOK, TimeInv, Settled, [Next]_vars, stray' = "no"
    PROVE  Settled'
<1>1. CASE Tick
  BY <1>1, LifetimesAssumption
     DEF Tick, Settled, HolderInv, AnswerInv, Holders, record, TypeOK, Time
<1>2. ASSUME NEW q \in Requests, NEW b \in Bodies, Arrive(q, b) PROVE Settled'
  BY <1>2, Passes DEF Arrive, TypeOK
<1>3. ASSUME NEW q \in Requests, Claim(q) PROVE Settled'
  <2>1. CASE status = "none"
    BY <1>3, <2>1, FreeUnheld, Claims DEF Claim
  <2>2. CASE status # "none"
    <3>1. Go(q, "read") /\ UNCHANGED <<now, record, kept>>
      BY <1>3, <2>2 DEF Claim
    <3>2. QED
      BY <3>1, StepsAside
  <2>3. QED
    BY <2>1, <2>2
<1>4. ASSUME NEW q \in Requests, Read(q) PROVE Settled'
  <2>1. CASE Go(q, "reclaim") \/ Go(q, "idle")
    <3>1. UNCHANGED <<now, record, kept>>
      BY <1>4 DEF Read
    <3>2. QED
      BY <2>1, <3>1, StepsAside
  <2>2. CASE /\ status = "answered" /\ hash = req[q].body
             /\ req' = [req EXCEPT ![q] = [pc |-> "idle", at |-> req[q].at,
                                           body |-> req[q].body, got |-> answer]]
    BY <1>4, <2>2, Passes DEF Read, TypeOK, Settled, AnswerInv
  <2>3. QED
    BY <1>4, <2>1, <2>2 DEF Read
<1>5. ASSUME NEW q \in Requests, req[q].pc = "reclaim", TakeOver(q)
      PROVE  Claimed(q) /\ Holders = {} /\ kept <= now
  <2>1. status # "none" /\ Expired(q)
    BY <1>5 DEF TakeOver
  <2>2. until <= now
    <3>1. req[q].at <= now
      BY <1>5 DEF TimeInv
    <3>2. until \in Nat /\ req[q].at \in Nat /\ now \in Nat
      BY LifetimesAssumption DEF TypeOK, RequestState, Time
    <3>3. QED
      BY <2>1, <3>1, <3>2 DEF Expired
  <2>3. QED
    BY <1>5, <2>1, <2>2, FreeUnheld DEF TakeOver
<1>6. ASSUME NEW q \in Requests, Reclaim(q) PROVE Settled'
  BY <1>5, <1>6, Claims DEF Reclaim
<1>7. ASSUME NEW q \in Requests, BeginFails(q) PROVE Settled'
  <2>1. CASE UNCHANGED record
    <3>1. Go(q, "idle") /\ UNCHANGED <<now, record, kept>>
      BY <1>7, <2>1 DEF BeginFails
    <3>2. QED
      BY <3>1, StepsAside
  <2>2. CASE status = "none" /\ Claimed(q)
    BY <1>7, <2>2, FreeUnheld, Claims DEF BeginFails
  <2>3. CASE req[q].pc = "reclaim" /\ TakeOver(q)
    BY <1>5, <1>7, <2>3, Claims DEF BeginFails
  <2>4. QED
    BY <1>7, <2>1, <2>2, <2>3 DEF BeginFails
<1>8. ASSUME NEW q \in Requests,
             Handle(q) \/ Complete(q) \/ CompleteFails(q) \/ Release(q)
      PROVE  Settled'
  <2>1. q \in Holders
    BY <1>8 DEF Handle, Complete, CompleteFails, Release, Holders
  <2>2. QED
    BY <1>8, <2>1, Holds
<1>9. ASSUME NEW q \in Requests, Abandon(q) PROVE Settled'
  <2>1. Go(q, "idle") /\ UNCHANGED <<now, record, kept>>
    BY <1>9 DEF Abandon
  <2>2. QED
    BY <2>1, StepsAside
<1>10. CASE SweepDelete
  <2>1. until < now /\ now' = now /\ req' = req /\ kept' = kept /\ status' = "none"
    BY <1>10 DEF SweepDelete
  <2>2. until \in Nat /\ now \in Nat
    BY LifetimesAssumption DEF TypeOK, Time
  <2>3. Holders = {} /\ kept <= now
    BY <2>1, <2>2, FreeUnheld
  <2>4. QED
    BY <2>1, <2>2, <2>3, LifetimesAssumption
       DEF Settled, HolderInv, AnswerInv, Holders, TypeOK, Time
<1>11. CASE SweepScan \/ UNCHANGED vars
  BY <1>11
     DEF SweepScan, vars, Settled, HolderInv, AnswerInv, Holders, record
<1>12. QED
  BY <1>1, <1>2, <1>3, <1>4, <1>6, <1>7, <1>8, <1>9, <1>10, <1>11
     DEF Next, RequestStep

\* A collision is not forgotten.
LEMMA StrayStays ==
    ASSUME TypeOK, [Next]_vars, stray' = "no"
    PROVE  stray = "no"
BY DEF TypeOK, Next, RequestStep, vars, Tick, Arrive, Claim, Read, Reclaim,
       TakeOver, BeginFails, Handle, Complete, CompleteFails, Release, Abandon,
       SweepScan, SweepDelete

-----------------------------------------------------------------------------
(* The theorems                                                             *)

\* The key and its requests are always well typed, each request runs for no
\* longer than Lag, and while nothing has collided the record is that of its
\* one holder and its answer is the answer to what it was claimed for.
THEOREM KeyInvariant == Spec => []KeyInv
<1>1. KeyInv /\ [Next]_vars => KeyInv'
  <2>1. SUFFICES ASSUME KeyInv, [Next]_vars PROVE KeyInv'
    OBVIOUS
  <2>2. TypeOK' /\ TimeInv'
    BY <2>1, TypeStep, TimeStep DEF KeyInv
  <2>3. stray' = "no" => Settled'
    <3>1. stray = "no" => Settled
      BY <2>1 DEF KeyInv, Settled, OneHolder, ReplayIsOwn
    <3>2. QED
      BY <2>1, <3>1, StrayStays, SettledStep DEF KeyInv
  <2>4. QED
    BY <2>2, <2>3 DEF KeyInv, Settled, OneHolder, ReplayIsOwn
<1>2. QED
  BY <1>1, KeyInit, PTL DEF Spec

\* The state is always well typed.
THEOREM TypeCorrect == Spec => []TypeOK
<1>1. KeyInv => TypeOK
  BY DEF KeyInv
<1>2. QED
  BY <1>1, KeyInvariant, PTL

\* Two requests do not hold the key at once unless an expired record was
\* reclaimed, swept or both by two at the same moment.
THEOREM KeyHasOneHolder == Spec => []OneHolder
<1>1. KeyInv => OneHolder
  BY DEF KeyInv
<1>2. QED
  BY <1>1, KeyInvariant, PTL

\* No handler runs while an earlier answer is still to be replayed.
THEOREM AnswersAreNotRerun == Spec => []NoRerun
<1>1. KeyInv => NoRerun
  <2>1. SUFFICES ASSUME KeyInv, stray = "no", NEW q \in Requests, req[q].pc = "run"
                 PROVE  kept <= now
    BY DEF NoRerun
  <2>2. status = "open" /\ (kept > now => status = "answered")
    BY <2>1 DEF KeyInv, HolderInv, AnswerInv, Holders
  <2>3. kept \in Nat /\ now \in Nat
    BY <2>1, LifetimesAssumption DEF KeyInv, TypeOK, Time
  <2>4. QED
    BY <2>2, <2>3
<1>2. QED
  BY <1>1, KeyInvariant, PTL

\* A replayed answer was given to the same request.
THEOREM ReplaysAreOwn == Spec => []ReplayIsOwn
<1>1. KeyInv => ReplayIsOwn
  BY DEF KeyInv
<1>2. QED
  BY <1>1, KeyInvariant, PTL

-----------------------------------------------------------------------------
(***************************************************************************)
(* Delegation: what a transaction has checked still holds when it writes.  *)
(*                                                                         *)
(* A transaction shares the project grant it checked until it ends, so     *)
(* the grant can be neither revoked nor narrowed meanwhile, and the        *)
(* triggers make each UPDATE of a row check again under the lock of that   *)
(* row.  Only the roles are not locked: the keys deleted under a           *)
(* transaction that names them are the ones in raced.                      *)
(***************************************************************************)

Writers == {"createGrant", "assign", "replace", "direct", "patch"}
Deleters == {"countGrants", "deleteRole"}

\* What a transaction carries, by what it does.
LEMMA Carried ==
    ASSUME NEW t \in Transactions
    PROVE  /\ t.op \in {"idle"} \cup Writers \cup Deleters
           /\ t.op = "idle" => t = Idle
           /\ t.op \in Writers \cup Deleters => t.keys \in KeySets
           /\ t.op = "createGrant" => t.org \in Org
           /\ t.op \in {"assign", "replace"} => t.grant \in Grant
           /\ t.op \in {"assign", "replace", "direct", "patch"} => t.user \in User
BY DEF Transactions, Idle, Writers, Deleters

LEMMA Recorded ==
    ASSUME DelegationTypeOK
    PROVE  /\ \A u \in User : /\ rows[u].via \in Grant \cup {Direct, Nobody}
                              /\ rows[u].keys \subseteq Role
                              /\ rows[u].via = Nobody => rows[u] = NoRow
                              /\ rows[u].via # Nobody => rows[u].keys \in KeySets
           /\ \A g \in Grant :
                 /\ grants[g].status \in {"none", "active", "revoked"}
                 /\ grants[g].status = "none" => grants[g] = NoGrant
                 /\ grants[g].status # "none" =>
                      /\ grants[g].org \in Org /\ grants[g].keys \in KeySets
                      /\ grants[g] = [status |-> grants[g].status,
                              org |-> grants[g].org, keys |-> grants[g].keys]
<1>1. \A u \in User : rows[u] \in Rows
  BY DEF DelegationTypeOK
<1>2. \A g \in Grant : grants[g] \in GrantRecords
  BY DEF DelegationTypeOK
<1>3. \A r \in Rows : r.via \in Grant \cup {Direct, Nobody} /\ r.keys \subseteq Role
  BY DEF Rows, NoRow, KeySets
<1>4. \A r \in Rows : r.via = Nobody => r = NoRow
  BY PartiesAssumption DEF Rows
<1>5. \A r \in Rows : r.via # Nobody => r.keys \in KeySets
  BY DEF Rows, NoRow
<1>6. \A g \in GrantRecords :
         /\ g.status \in {"none", "active", "revoked"}
         /\ g.status = "none" => g = NoGrant
         /\ g.status # "none" =>
              /\ g.org \in Org /\ g.keys \in KeySets
              /\ g = [status |-> g.status, org |-> g.org, keys |-> g.keys]
  BY DEF GrantRecords, NoGrant
<1>7. ASSUME NEW u \in User
      PROVE  /\ rows[u].via \in Grant \cup {Direct, Nobody}
             /\ rows[u].keys \subseteq Role
             /\ rows[u].via = Nobody => rows[u] = NoRow
             /\ rows[u].via # Nobody => rows[u].keys \in KeySets
  <2>1. rows[u] \in Rows
    BY <1>1
  <2>2. rows[u].via \in Grant \cup {Direct, Nobody} /\ rows[u].keys \subseteq Role
    BY <1>3, <2>1
  <2>3. rows[u].via = Nobody => rows[u] = NoRow
    BY <1>4, <2>1
  <2>4. rows[u].via # Nobody => rows[u].keys \in KeySets
    BY <1>5, <2>1
  <2>5. QED
    BY <2>2, <2>3, <2>4
<1>8. QED
  BY <1>2, <1>6, <1>7

LEMMA DelegationInitially == DelegationInit => DelegationInv
<1> SUFFICES ASSUME DelegationInit PROVE DelegationInv
  OBVIOUS
<1>1. DelegationTypeOK
  BY DEF DelegationInit, DelegationTypeOK, GrantRecords, Rows, Transactions
<1>2. /\ \A a \in Admin : txn[a].op = "idle"
      /\ \A u \in User : rows[u].via = Nobody /\ rows[u].keys = {}
      /\ \A g \in Grant : grants[g].status = "none"
  BY DEF DelegationInit, Idle, NoRow, NoGrant
<1>3. CheckedInv /\ LockInv
  BY <1>2 DEF CheckedInv, LockInv, Running
<1>4. OneActive /\ DelegationHolds /\ NamedRolesExist
  BY <1>2, PartiesAssumption DEF OneActive, DelegationHolds, NamedRolesExist
<1>5. RaceInv
  BY <1>2 DEF RaceInv, Running, Writing
<1>6. QED
  BY <1>1, <1>3, <1>4, <1>5 DEF DelegationInv

\* The beginning of a transaction that has checked what it must.
LEMMA BeginKeeps ==
    ASSUME DelegationInv, NEW a \in Admin, NEW t \in Transactions, Begin(a, t),
           t.op \in {"assign", "replace"} => Assignable(t.grant, t.user, t.keys),
           t.op = "direct" => Home[t.user] = Owner,
           t.op = "patch" =>
               /\ ~ RowLocked(t.user)
               /\ rows[t.user].via # Nobody
               /\ rows[t.user].via \in Grant =>
                     Assignable(rows[t.user].via, t.user, t.keys),
           t.op \in Writers => t.keys \subseteq roles \cup raced,
           t.op = "countGrants" => \A k \in t.keys : \A u \in User : k \notin rows[u].keys,
           t.op # "deleteRole"
    PROVE  DelegationInv'
<1>1. /\ txn' \in [Admin -> Transactions] /\ txn'[a] = t
      /\ \A b \in Admin \ {a} : txn'[b] = txn[b]
  BY DEF Begin, DelegationInv, DelegationTypeOK
<1>2. UNCHANGED <<roles, accepts, grants, rows, raced>>
  BY DEF Begin
<1>3. DelegationTypeOK'
  BY <1>1, <1>2 DEF DelegationInv, DelegationTypeOK
<1>4. CheckedInv'
  BY <1>1, <1>2 DEF DelegationInv, CheckedInv, Running, Assignable
<1>5. LockInv'
  BY <1>1, <1>2 DEF DelegationInv, LockInv, Running, RowLocked
<1>6. OneActive' /\ DelegationHolds' /\ NamedRolesExist'
  BY <1>2 DEF DelegationInv, OneActive, DelegationHolds, NamedRolesExist
<1>7. RaceInv'
  <2>1. ASSUME NEW k \in Role \ (roles \cup raced), Writing(k)' PROVE FALSE
    BY <1>1, <1>2, <2>1 DEF DelegationInv, RaceInv, Running, Writing, Writers
  <2>2. ASSUME NEW b \in Admin, NEW k \in Role \ raced, k \in txn'[b].keys,
               Running(b, {"countGrants", "deleteRole"})'
        PROVE  \A u \in User : k \notin rows[u].keys
    BY <1>1, <1>2, <2>2 DEF DelegationInv, RaceInv, Running
  <2>3. ASSUME NEW b \in Admin, NEW k \in Role \ raced, k \in txn'[b].keys,
               Running(b, {"deleteRole"})'
        PROVE  \A g \in Grant : grants[g].status = "active" => k \notin grants[g].keys
    BY <1>1, <1>2, <2>3 DEF DelegationInv, RaceInv, Running
  <2>4. QED
    BY <1>2, <2>1, <2>2, <2>3 DEF RaceInv
<1>8. QED
  BY <1>3, <1>4, <1>5, <1>6, <1>7 DEF DelegationInv

\* The end of a transaction leaves the others as they are.
LEMMA FinishKeeps ==
    ASSUME DelegationTypeOK, NEW a \in Admin, Finish(a)
    PROVE  /\ txn' \in [Admin -> Transactions] /\ txn'[a].op = "idle"
           /\ \A b \in Admin : txn'[b].op # "idle" => b # a /\ txn'[b] = txn[b]
BY DEF Finish, DelegationTypeOK, Transactions, Idle

\* The commit of a row whose transaction has checked what it must.
LEMMA CommitKeeps ==
    ASSUME DelegationInv, NEW a \in Admin, NEW u \in User, NEW r \in Rows,
           CommitRow(a, u, r), Running(a, Writers), r.keys = txn[a].keys,
           r.via # Nobody,
           \A b \in Admin : Running(b, {"patch"}) /\ txn[b].user = u => b = a,
           r.via = Direct => Home[u] = Owner,
           r.via \in Grant => Assignable(r.via, u, r.keys)
    PROVE  DelegationInv'
<1>1. /\ txn' \in [Admin -> Transactions] /\ txn'[a].op = "idle"
      /\ \A b \in Admin : txn'[b].op # "idle" => b # a /\ txn'[b] = txn[b]
  BY FinishKeeps DEF CommitRow, DelegationInv
<1>2. /\ rows' \in [User -> Rows] /\ rows'[u] = r
      /\ \A v \in User \ {u} : rows'[v] = rows[v]
      /\ UNCHANGED <<roles, accepts, grants>>
  BY DEF CommitRow, DelegationInv, DelegationTypeOK
<1>3. /\ raced' = raced \cup {k \in r.keys : Deleting(k)}
      /\ r.keys \subseteq Role
  BY DEF CommitRow, NoteRace, Rows, NoRow, KeySets
<1>4. \A k \in Role \ (roles \cup raced) : k \notin r.keys
  BY DEF DelegationInv, RaceInv, Writing, Running, Writers
<1>5. DelegationTypeOK'
  BY <1>1, <1>2, <1>3 DEF DelegationInv, DelegationTypeOK
<1>6. CheckedInv'
  <2>1. ASSUME NEW b \in Admin
        PROVE  /\ Running(b, {"assign", "replace"})' =>
                     Assignable(txn[b].grant, txn[b].user, txn[b].keys)
               /\ Running(b, {"direct"})' => Home[txn[b].user] = Owner
    BY <1>1, <2>1 DEF DelegationInv, CheckedInv, Running
  <2>2. ASSUME NEW b \in Admin, Running(b, {"patch"})'
        PROVE  /\ txn'[b] = txn[b] /\ rows'[txn[b].user] = rows[txn[b].user]
               /\ Running(b, {"patch"})
    BY <1>1, <1>2, <2>2, Carried DEF Running
  <2>3. QED
    BY <1>1, <1>2, <2>1, <2>2 DEF DelegationInv, CheckedInv, Running, Assignable
<1>7. LockInv'
  BY <1>1 DEF DelegationInv, LockInv, Running
<1>8. OneActive' /\ DelegationHolds'
  BY <1>2 DEF DelegationInv, OneActive, DelegationHolds, Assignable
<1>9. NamedRolesExist'
  BY <1>2, <1>3, <1>4 DEF DelegationInv, NamedRolesExist
<1>10. RaceInv'
  <2>1. ASSUME NEW k \in Role \ (roles \cup raced'), Writing(k)' PROVE FALSE
    BY <1>1, <1>2, <1>3, <2>1 DEF DelegationInv, RaceInv, Running, Writing
  <2>2. ASSUME NEW b \in Admin, NEW k \in Role \ raced', k \in txn'[b].keys,
               Running(b, {"countGrants", "deleteRole"})'
        PROVE  /\ \A v \in User : k \notin rows'[v].keys
               /\ Running(b, {"deleteRole"})' =>
                    \A g \in Grant : grants[g].status = "active" =>
                        k \notin grants[g].keys
    <3>1. txn'[b] = txn[b] /\ k \notin raced
      BY <1>1, <1>3, <2>2 DEF Running
    <3>2. Deleting(k)
      BY <2>2, <3>1 DEF Deleting, Running
    <3>3. k \notin r.keys
      BY <1>3, <2>2, <3>2
    <3>4. QED
      BY <1>2, <2>2, <3>1, <3>3 DEF DelegationInv, RaceInv, Running
  <2>3. QED
    BY <1>2, <2>1, <2>2 DEF RaceInv, Running
<1>11. QED
  BY <1>5, <1>6, <1>7, <1>8, <1>9, <1>10 DEF DelegationInv

-----------------------------------------------------------------------------
\* The requests.

LEMMA CountRowsKeeps ==
    ASSUME DelegationInv, NEW a \in Admin, NEW k \in Role, CountRows(a, k)
    PROVE  DelegationInv'
<1> DEFINE t == [op |-> "countGrants", keys |-> {k}]
<1>1. t \in Transactions
  <2>1. {k} \in SUBSET Role
    BY Zenon
  <2>2. {k} \notin {{}}
    BY Zenon
  <2>3. {k} \in KeySets
    BY <2>1, <2>2, Zenon DEF KeySets
  <2> DEFINE s == {k}
  <2>4. s \in KeySets
    BY <2>3
  <2> HIDE DEF s
  <2>5. [op |-> "countGrants", keys |-> s] \in Transactions
    BY <2>4 DEF Transactions
  <2>6. QED
    BY <2>5 DEF s
<1>2. Begin(a, t) /\ \A j \in t.keys : \A u \in User : j \notin rows[u].keys
  BY DEF CountRows
<1>3. QED
  BY <1>1, <1>2, BeginKeeps DEF Writers

LEMMA CreateProjectGrantKeeps ==
    ASSUME DelegationInv, NEW a \in Admin, CreateProjectGrant(a)
    PROVE  DelegationInv'
<1> PICK o \in Org, keys \in KeySets : CheckGrant(a, o, keys)
  BY DEF CreateProjectGrant
<1> DEFINE t == [op |-> "createGrant", org |-> o, keys |-> keys]
<1>1. t \in Transactions
  BY DEF Transactions
<1>2. Begin(a, t) /\ t.keys \subseteq roles
  BY DEF CheckGrant
<1>3. QED
  BY <1>1, <1>2, BeginKeeps

LEMMA ReceiveKeeps ==
    ASSUME DelegationInv, NEW a \in Admin, NEW op \in {"assign", "replace"},
           NEW g \in Grant, NEW u \in User, NEW keys \in KeySets,
           Receive(a, op, g, u, keys)
    PROVE  DelegationInv'
<1> DEFINE t == [op |-> op, grant |-> g, user |-> u, keys |-> keys]
<1>1. t \in Transactions
  BY DEF Transactions
<1>2. Begin(a, t) /\ Assignable(g, u, keys)
  BY DEF Receive
<1>3. keys \subseteq roles \cup raced
  BY <1>2 DEF Assignable, DelegationInv, NamedRolesExist, KeySets
<1>4. QED
  BY <1>1, <1>2, <1>3, BeginKeeps

LEMMA GrantRolesKeeps ==
    ASSUME DelegationInv, NEW a \in Admin, NEW u \in User, NEW keys \in KeySets,
           GrantRoles(a, u, keys)
    PROVE  DelegationInv'
<1> DEFINE t == [op |-> "direct", user |-> u, keys |-> keys]
<1>1. t \in Transactions
  BY DEF Transactions
<1>2. Begin(a, t) /\ Home[u] = Owner /\ keys \subseteq roles
  BY DEF GrantRoles
<1>3. QED
  BY <1>1, <1>2, BeginKeeps

LEMMA PatchRowKeeps ==
    ASSUME DelegationInv, NEW a \in Admin, NEW u \in User, NEW keys \in KeySets,
           PatchRow(a, u, keys)
    PROVE  DelegationInv'
<1> DEFINE t == [op |-> "patch", user |-> u, keys |-> keys]
<1>1. t \in Transactions
  BY DEF Transactions
<1>2. /\ Begin(a, t) /\ ~ RowLocked(u) /\ rows[u].via # Nobody
      /\ rows[u].via \in Grant => Assignable(rows[u].via, u, keys)
  BY PartiesAssumption DEF PatchRow
<1>3. keys \subseteq roles \cup raced
  BY DEF PatchRow, Assignable, DelegationInv, NamedRolesExist, KeySets
<1>4. QED
  BY <1>1, <1>2, <1>3, BeginKeeps

-----------------------------------------------------------------------------
\* The statements that follow.

LEMMA CountGrantsKeeps ==
    ASSUME DelegationInv, NEW a \in Admin, CountGrants(a)
    PROVE  DelegationInv'
<1> DEFINE t == IF ActiveWith(txn[a].keys) = {}
                THEN [op |-> "deleteRole", keys |-> txn[a].keys] ELSE Idle
<1>1. txn[a].op = "countGrants" /\ txn[a] \in Transactions
  BY DEF CountGrants, DelegationInv, DelegationTypeOK
<1>2. t \in Transactions
  BY <1>1, Carried DEF Transactions, Deleters
<1>3. /\ txn' \in [Admin -> Transactions] /\ txn'[a] = t
      /\ \A b \in Admin \ {a} : txn'[b] = txn[b]
      /\ UNCHANGED <<roles, accepts, grants, rows, raced>>
  BY <1>2 DEF CountGrants, DelegationInv, DelegationTypeOK
<1>4. t.op \in {"idle", "deleteRole"}
  BY DEF Idle
<1>5. DelegationTypeOK'
  BY <1>3 DEF DelegationInv, DelegationTypeOK
<1>6. CheckedInv' /\ LockInv'
  BY <1>3, <1>4 DEF DelegationInv, CheckedInv, LockInv, Running, Assignable
<1>7. OneActive' /\ DelegationHolds' /\ NamedRolesExist'
  BY <1>3 DEF DelegationInv, OneActive, DelegationHolds, NamedRolesExist
<1>8. \A k \in Role \ (roles \cup raced) : ~ Writing(k)'
  BY <1>3, <1>4 DEF DelegationInv, RaceInv, Running, Writing
<1>9. t.op = "deleteRole" =>
        /\ t.keys = txn[a].keys
        /\ \A k \in t.keys : \A g \in Grant :
              grants[g].status = "active" => k \notin grants[g].keys
  BY DEF ActiveWith, Idle
<1>10. RaceInv'
  <2>1. ASSUME NEW b \in Admin, NEW k \in Role \ raced, k \in txn'[b].keys,
               Running(b, {"countGrants", "deleteRole"})'
        PROVE  /\ \A u \in User : k \notin rows[u].keys
               /\ Running(b, {"deleteRole"})' =>
                    \A g \in Grant : grants[g].status = "active" =>
                        k \notin grants[g].keys
    <3>1. CASE b = a
      BY <1>1, <1>3, <1>4, <1>9, <2>1, <3>1 DEF DelegationInv, RaceInv, Running
    <3>2. CASE b # a
      BY <1>3, <2>1, <3>2 DEF DelegationInv, RaceInv, Running
    <3>3. QED
      BY <3>1, <3>2
  <2>2. QED
    BY <1>3, <1>8, <2>1 DEF RaceInv, Running
<1>11. QED
  BY <1>5, <1>6, <1>7, <1>10 DEF DelegationInv

LEMMA DeleteRoleKeeps ==
    ASSUME DelegationInv, NEW a \in Admin, DeleteRole(a)
    PROVE  DelegationInv'
<1>1. /\ txn' \in [Admin -> Transactions] /\ txn'[a].op = "idle"
      /\ \A b \in Admin : txn'[b].op # "idle" => b # a /\ txn'[b] = txn[b]
  BY FinishKeeps DEF DeleteRole, DelegationInv
<1>2. /\ roles' = roles \ txn[a].keys
      /\ raced' = raced \cup {k \in txn[a].keys : Writing(k)}
      /\ UNCHANGED <<accepts, grants, rows>> /\ txn[a].op = "deleteRole"
  BY DEF DeleteRole
<1>3. txn[a].keys \subseteq Role
  BY <1>2, Carried DEF DelegationInv, DelegationTypeOK, Deleters, KeySets
<1>4. DelegationTypeOK'
  BY <1>1, <1>2, <1>3 DEF DelegationInv, DelegationTypeOK
<1>5. CheckedInv' /\ LockInv'
  BY <1>1, <1>2 DEF DelegationInv, CheckedInv, LockInv, Running, Assignable
<1>6. OneActive' /\ DelegationHolds'
  BY <1>2 DEF DelegationInv, OneActive, DelegationHolds
<1>7. NamedRolesExist'
  BY <1>2 DEF DelegationInv, NamedRolesExist, RaceInv, Running
<1>8. \A k \in Role \ (roles' \cup raced') : ~ Writing(k)'
  BY <1>1, <1>2 DEF DelegationInv, RaceInv, Running, Writing
<1>9. QED
  BY <1>1, <1>2, <1>4, <1>5, <1>6, <1>7, <1>8 DEF DelegationInv, RaceInv, Running

LEMMA InsertGrantKeeps ==
    ASSUME DelegationInv, NEW a \in Admin, InsertGrant(a)
    PROVE  DelegationInv'
<1>1. /\ txn' \in [Admin -> Transactions] /\ txn'[a].op = "idle"
      /\ \A b \in Admin : txn'[b].op # "idle" => b # a /\ txn'[b] = txn[b]
  BY FinishKeeps DEF InsertGrant, DelegationInv
<1>2. /\ txn[a].op = "createGrant" /\ txn[a].org \in Org /\ txn[a].keys \in KeySets
      /\ UNCHANGED <<roles, accepts, rows>>
      /\ raced' = raced \cup {k \in txn[a].keys : Deleting(k)}
  BY Carried DEF InsertGrant, DelegationInv, DelegationTypeOK, Writers, NoteRace
<1> DEFINE n == [status |-> "active", org |-> txn[a].org, keys |-> txn[a].keys]
<1>3. n \in GrantRecords
  BY <1>2 DEF GrantRecords
<1>4. PICK g \in Grant : grants[g] = NoGrant /\ grants' = [grants EXCEPT ![g] = n]
  BY DEF InsertGrant
<1>5. /\ grants' \in [Grant -> GrantRecords] /\ grants'[g] = n
      /\ \A h \in Grant \ {g} : grants'[h] = grants[h]
  BY <1>3, <1>4 DEF DelegationInv, DelegationTypeOK
<1>6. grants[g].status = "none"
  BY <1>4 DEF NoGrant
<1>7. DelegationTypeOK'
  BY <1>1, <1>2, <1>5 DEF DelegationInv, DelegationTypeOK, KeySets
<1>8. \A h \in Grant : grants[h].status # "none" => grants'[h] = grants[h]
  BY <1>5, <1>6
<1>9. CheckedInv' /\ LockInv'
  <2>1. ASSUME NEW b \in Admin, NEW h \in Grant, NEW u \in User, NEW keys,
               Assignable(h, u, keys)
        PROVE  Assignable(h, u, keys)'
    BY <1>8, <2>1 DEF Assignable
  <2>2. \A b \in Admin : txn[b] \in Transactions
    BY DEF DelegationInv, DelegationTypeOK
  <2>3. QED
    BY <1>1, <1>2, <2>1, <2>2, Carried DEF DelegationInv, CheckedInv, LockInv, Running
<1>10. OneActive'
  BY <1>5 DEF DelegationInv, OneActive, InsertGrant, HasActive
<1>11. DelegationHolds'
  BY <1>2, <1>8 DEF DelegationInv, DelegationHolds
<1>12. \A k \in Role \ (roles \cup raced) : k \notin txn[a].keys
  BY <1>2 DEF DelegationInv, RaceInv, Writing, Running
<1>13. NamedRolesExist'
  BY <1>2, <1>5, <1>12 DEF DelegationInv, NamedRolesExist
<1>14. RaceInv'
  <2>1. ASSUME NEW k \in Role \ (roles \cup raced'), Writing(k)' PROVE FALSE
    BY <1>1, <1>2, <2>1 DEF DelegationInv, RaceInv, Running, Writing
  <2>2. ASSUME NEW b \in Admin, NEW k \in Role \ raced', k \in txn'[b].keys,
               Running(b, {"countGrants", "deleteRole"})'
        PROVE  /\ \A v \in User : k \notin rows'[v].keys
               /\ Running(b, {"deleteRole"})' =>
                    \A h \in Grant : grants'[h].status = "active" =>
                        k \notin grants'[h].keys
    <3>1. txn'[b] = txn[b] /\ k \notin raced
      BY <1>1, <1>2, <2>2 DEF Running
    <3>2. Deleting(k)
      BY <2>2, <3>1 DEF Deleting, Running
    <3>3. k \notin n.keys
      BY <1>2, <2>2, <3>2
    <3>4. QED
      BY <1>2, <1>5, <2>2, <3>1, <3>3 DEF DelegationInv, RaceInv, Running
  <2>3. QED
    BY <1>2, <2>1, <2>2 DEF RaceInv, Running
<1>15. QED
  BY <1>7, <1>9, <1>10, <1>11, <1>13, <1>14 DEF DelegationInv

LEMMA WritesKeep ==
    ASSUME DelegationInv, NEW a \in Admin,
           Assign(a) \/ Replace(a) \/ CommitGrant(a) \/ CommitPatch(a)
    PROVE  DelegationInv'
<1>1. txn[a] \in Transactions
  BY DEF DelegationInv, DelegationTypeOK
<1>2. /\ txn[a].op \in {"assign", "replace", "direct", "patch"}
      /\ txn[a].user \in User /\ txn[a].keys \in KeySets
      /\ txn[a].op \in {"assign", "replace"} => txn[a].grant \in Grant
  BY <1>1, Carried DEF Assign, Replace, CommitGrant, CommitPatch, Writers
<1> DEFINE u == txn[a].user
<1>3. /\ rows[u].via \in Grant \cup {Direct, Nobody}
      /\ \A k : [rows[u] EXCEPT !.keys = k] = [via |-> rows[u].via, keys |-> k]
  BY <1>2 DEF DelegationInv, DelegationTypeOK, Rows, NoRow
<1>4. CASE Assign(a)
  <2> DEFINE r == [via |-> txn[a].grant, keys |-> txn[a].keys]
  <2>1. CommitRow(a, u, r) /\ ~ RowLocked(u) /\ Running(a, {"assign"})
    BY <1>4 DEF Assign, Running
  <2>2. r \in Rows /\ r.via \in Grant
    BY <1>2, <2>1 DEF Rows, Running
  <2>3. Assignable(r.via, u, r.keys)
    BY <2>1 DEF DelegationInv, CheckedInv, Running
  <2>4. QED
    BY <2>1, <2>2, <2>3, <1>2, CommitKeeps, PartiesAssumption
       DEF RowLocked, Running, Writers
<1>5. CASE Replace(a)
  <2> DEFINE r == [rows[u] EXCEPT !.keys = txn[a].keys]
  <2>1. /\ CommitRow(a, u, r) /\ ~ RowLocked(u) /\ Running(a, {"replace"})
        /\ rows[u].via = txn[a].grant
    BY <1>5 DEF Replace, Running
  <2>2. r \in Rows /\ r.via = txn[a].grant /\ r.keys = txn[a].keys /\ r.via \in Grant
    BY <1>2, <1>3, <2>1 DEF Rows, Running
  <2>3. Assignable(r.via, u, r.keys)
    BY <2>1, <2>2 DEF DelegationInv, CheckedInv, Running
  <2>4. Running(a, Writers) /\ \A b \in Admin : ~ (Running(b, {"patch"}) /\ txn[b].user = u)
    BY <2>1 DEF RowLocked, Running, Writers
  <2> HIDE DEF r
  <2>5. QED
    BY <2>1, <2>2, <2>3, <2>4, <1>2, CommitKeeps, PartiesAssumption
<1>6. CASE CommitGrant(a)
  <2> DEFINE r == [via |-> Direct, keys |-> txn[a].keys]
  <2>1. CommitRow(a, u, r) /\ rows[u].via = Nobody /\ Running(a, {"direct"})
    BY <1>6 DEF CommitGrant, Running
  <2>2. r \in Rows /\ Home[u] = Owner
    BY <1>2, <2>1 DEF Rows, DelegationInv, CheckedInv, Running
  <2>3. \A b \in Admin : ~ (Running(b, {"patch"}) /\ txn[b].user = u)
    BY <2>1 DEF DelegationInv, CheckedInv
  <2>4. QED
    BY <2>1, <2>2, <2>3, <1>2, CommitKeeps, PartiesAssumption DEF Running, Writers
<1>7. CASE CommitPatch(a)
  <2> DEFINE r == [rows[u] EXCEPT !.keys = txn[a].keys]
  <2>1. CommitRow(a, u, r) /\ Running(a, {"patch"})
    BY <1>7 DEF CommitPatch, Running
  <2>2. /\ rows[u].via # Nobody
        /\ rows[u].via \in Grant => Assignable(rows[u].via, u, txn[a].keys)
        /\ rows[u].via = Direct => Home[u] = Owner
    BY <1>2, <2>1 DEF DelegationInv, CheckedInv, DelegationHolds
  <2>3. r \in Rows /\ r.via = rows[u].via /\ r.keys = txn[a].keys
    BY <1>2, <1>3, <2>2 DEF Rows
  <2>4. \A b \in Admin : Running(b, {"patch"}) /\ txn[b].user = u => b = a
    BY <2>1 DEF DelegationInv, LockInv
  <2>5. Running(a, Writers)
    BY <2>1 DEF Running, Writers
  <2> HIDE DEF r
  <2>6. QED
    BY <1>2, <2>1, <2>2, <2>3, <2>4, <2>5, CommitKeeps
<1>8. QED
  BY <1>4, <1>5, <1>6, <1>7

LEMMA RollBackKeeps ==
    ASSUME DelegationInv, NEW a \in Admin, RollBack(a)
    PROVE  DelegationInv'
<1>1. /\ txn' \in [Admin -> Transactions] /\ txn'[a].op = "idle"
      /\ \A b \in Admin : txn'[b].op # "idle" => b # a /\ txn'[b] = txn[b]
      /\ UNCHANGED <<roles, accepts, grants, rows, raced>>
  BY FinishKeeps DEF RollBack, Refuse, DelegationInv
<1>2. DelegationTypeOK'
  BY <1>1 DEF DelegationInv, DelegationTypeOK
<1>3. CheckedInv' /\ LockInv'
  BY <1>1 DEF DelegationInv, CheckedInv, LockInv, Running, Assignable
<1>4. OneActive' /\ DelegationHolds' /\ NamedRolesExist'
  BY <1>1 DEF DelegationInv, OneActive, DelegationHolds, NamedRolesExist
<1>5. RaceInv'
  BY <1>1 DEF DelegationInv, RaceInv, Running, Writing
<1>6. QED
  BY <1>2, <1>3, <1>4, <1>5 DEF DelegationInv

-----------------------------------------------------------------------------
\* What is done in one statement.

LEMMA CreateRoleKeeps ==
    ASSUME DelegationInv, NEW k \in Role, CreateRole(k)
    PROVE  DelegationInv'
<1>1. roles' = roles \cup {k} /\ UNCHANGED <<accepts, grants, rows, txn, raced>>
  BY DEF CreateRole, InsertRole
<1>2. DelegationTypeOK'
  BY <1>1 DEF DelegationInv, DelegationTypeOK
<1>3. CheckedInv' /\ LockInv' /\ OneActive' /\ DelegationHolds'
  BY <1>1 DEF DelegationInv, CheckedInv, LockInv, OneActive, DelegationHolds,
     Running, Assignable
<1>4. NamedRolesExist' /\ RaceInv'
  BY <1>1 DEF DelegationInv, NamedRolesExist, RaceInv, Running, Writing
<1>5. QED
  BY <1>2, <1>3, <1>4 DEF DelegationInv

\* A grant that is shared is not revoked, so what was checked of it stands.
LEMMA RevokeGrantKeeps ==
    ASSUME DelegationInv, NEW g \in Grant, RevokeGrant(g)
    PROVE  DelegationInv'
<1>1. /\ grants[g].status = "active" /\ ~ Shared(g)
      /\ grants' = [grants EXCEPT ![g].status = "revoked"]
      /\ UNCHANGED <<roles, accepts, rows, txn, raced>>
  BY DEF RevokeGrant
<1>2. /\ grants[g] = [status |-> "active", org |-> grants[g].org, keys |-> grants[g].keys]
      /\ grants[g].org \in Org /\ grants[g].keys \in KeySets
  BY <1>1, Recorded DEF DelegationInv
<1>3. /\ grants' \in [Grant -> GrantRecords]
      /\ grants'[g] = [status |-> "revoked", org |-> grants[g].org, keys |-> grants[g].keys]
      /\ \A h \in Grant \ {g} : grants'[h] = grants[h]
  BY <1>1, <1>2 DEF DelegationInv, DelegationTypeOK, GrantRecords
<1>4. DelegationTypeOK'
  BY <1>1, <1>3 DEF DelegationInv, DelegationTypeOK
<1>5. CheckedInv'
  <2>1. \A b \in Admin : txn[b] \in Transactions
    BY DEF DelegationInv, DelegationTypeOK
  <2>2. ASSUME NEW b \in Admin
        PROVE  /\ Running(b, {"assign", "replace"}) =>
                     Assignable(txn[b].grant, txn[b].user, txn[b].keys)'
               /\ Running(b, {"patch"}) /\ rows[txn[b].user].via \in Grant =>
                     Assignable(rows[txn[b].user].via, txn[b].user, txn[b].keys)'
    BY <1>1, <1>3, <2>1, Carried
       DEF DelegationInv, CheckedInv, Running, Assignable, Shared
  <2>3. QED
    BY <1>1, <2>2 DEF DelegationInv, CheckedInv, Running
<1>6. LockInv' /\ OneActive' /\ DelegationHolds'
  <2>1. LockInv'
    BY <1>1 DEF DelegationInv, LockInv, Running
  <2>2. OneActive'
    BY <1>3 DEF DelegationInv, OneActive
  <2>3. DelegationHolds'
    <3>1. \A h \in Grant : /\ grants'[h].status = "none" <=> grants[h].status = "none"
                           /\ grants'[h].org = grants[h].org
                           /\ grants'[h].keys = grants[h].keys
      BY <1>1, <1>3
    <3>2. QED
      BY <1>1, <3>1 DEF DelegationInv, DelegationHolds
  <2>4. QED
    BY <2>1, <2>2, <2>3
<1>7. NamedRolesExist' /\ RaceInv'
  BY <1>1, <1>3 DEF DelegationInv, NamedRolesExist, RaceInv, Running, Writing
<1>8. QED
  BY <1>4, <1>5, <1>6, <1>7 DEF DelegationInv

LEMMA RemoveRowKeeps ==
    ASSUME DelegationInv, NEW u \in User, RemoveRow(u)
    PROVE  DelegationInv'
<1>1. /\ ~ RowLocked(u) /\ rows' \in [User -> Rows]
      /\ rows'[u] = NoRow /\ \A v \in User \ {u} : rows'[v] = rows[v]
      /\ UNCHANGED <<roles, accepts, grants, txn, raced>>
  BY DEF RemoveRow, DelegationInv, DelegationTypeOK, Rows
<1>2. NoRow.via = Nobody /\ NoRow.keys = {}
  BY DEF NoRow
<1>3. DelegationTypeOK'
  BY <1>1 DEF DelegationInv, DelegationTypeOK
<1>4. CheckedInv'
  <2>1. ASSUME NEW b \in Admin, Running(b, {"patch"})
        PROVE  rows'[txn[b].user] = rows[txn[b].user]
    BY <1>1, <2>1, Carried DEF DelegationInv, DelegationTypeOK, RowLocked, Running
  <2>2. QED
    BY <1>1, <2>1 DEF DelegationInv, CheckedInv, Running, Assignable
<1>5. LockInv' /\ OneActive'
  BY <1>1 DEF DelegationInv, LockInv, OneActive, Running
<1>6. DelegationHolds'
  BY <1>1, <1>2, PartiesAssumption DEF DelegationInv, DelegationHolds
<1>7. NamedRolesExist' /\ RaceInv'
  BY <1>1, <1>2 DEF DelegationInv, NamedRolesExist, RaceInv, Running, Writing
<1>8. QED
  BY <1>3, <1>4, <1>5, <1>6, <1>7 DEF DelegationInv

LEMMA OtherwiseKeeps ==
    ASSUME DelegationInv,
           (\E o \in Org : ChangeOrganization(o)) \/ UNCHANGED delegationVars
    PROVE  DelegationInv'
<1>1. accepts' \subseteq Org /\ UNCHANGED <<roles, grants, rows, txn, raced>>
  BY DEF ChangeOrganization, delegationVars, DelegationInv, DelegationTypeOK
<1>2. DelegationTypeOK'
  BY <1>1 DEF DelegationInv, DelegationTypeOK
<1>3. CheckedInv' /\ LockInv' /\ OneActive' /\ DelegationHolds' /\ NamedRolesExist'
  BY <1>1 DEF DelegationInv, CheckedInv, LockInv, OneActive, DelegationHolds,
     NamedRolesExist, Running, Assignable
<1>4. RaceInv'
  BY <1>1 DEF DelegationInv, RaceInv, Running, Writing
<1>5. QED
  BY <1>2, <1>3, <1>4 DEF DelegationInv

LEMMA DelegationStep == DelegationInv /\ [DelegationNext]_delegationVars =>
    DelegationInv'
<1> SUFFICES ASSUME DelegationInv, [DelegationNext]_delegationVars PROVE DelegationInv'
  OBVIOUS
<1>1. ASSUME NEW a \in Admin, Request(a) PROVE DelegationInv'
  BY <1>1, CountRowsKeeps, CreateProjectGrantKeeps, ReceiveKeeps, GrantRolesKeeps,
     PatchRowKeeps DEF Request
<1>2. ASSUME NEW a \in Admin, Statement(a) PROVE DelegationInv'
  BY <1>2, CountGrantsKeeps, DeleteRoleKeeps, InsertGrantKeeps, WritesKeep,
     RollBackKeeps DEF Statement
<1>3. QED
  BY <1>1, <1>2, CreateRoleKeeps, RevokeGrantKeeps, RemoveRowKeeps, OtherwiseKeeps
     DEF DelegationNext

-----------------------------------------------------------------------------
\* What the transactions in flight have checked goes on holding, for every number
\* of users, roles, grants and administrators: the locks they take, and the
\* triggers their statements fire, keep every other transaction from undoing it.
THEOREM DelegationInvariant == DelegationSpec => []DelegationInv
<1>1. DelegationInit => DelegationInv
  BY DelegationInitially
<1>2. DelegationInv /\ [DelegationNext]_delegationVars => DelegationInv'
  BY DelegationStep
<1>3. QED
  BY <1>1, <1>2, PTL DEF DelegationSpec

\* Rows, project grants and transactions are what the tables and handlers hold.
THEOREM DelegationTypeCorrect == DelegationSpec => []DelegationTypeOK
<1>1. DelegationInv => DelegationTypeOK
  BY DEF DelegationInv
<1>2. QED
  BY <1>1, DelegationInvariant, PTL

\* No row of user_grants ever names more than the project grant it came through
\* covers, nor does one belong to a user of another organization, whatever is
\* revoked, narrowed or written beside it (the trigger user_grants_delegation_closed
\* stands behind the three handlers that write rows).
THEOREM DelegationIsHeld == DelegationSpec => []DelegationHolds
<1>1. DelegationInv => DelegationHolds
  BY DEF DelegationInv
<1>2. QED
  BY <1>1, DelegationInvariant, PTL

\* A key that a row or an active project grant names is a role of the project,
\* or was deleted while a transaction that names it was under way (DeleteRole
\* counts the keys before it deletes, and nothing locks the role between the
\* two).
THEOREM RolesExist == DelegationSpec => []NamedRolesExist
<1>1. DelegationInv => NamedRolesExist
  BY DEF DelegationInv
<1>2. QED
  BY <1>1, DelegationInvariant, PTL

\* When AssignDelegated comes to write, a user who already holds something through
\* an active project grant holds it through the same one, so the branch it calls
\* unreachable is: only one active grant goes to an organization
\* (project_grants_project_granted_org_key), and the check keeps that one locked.
THEOREM NoPathBeside == DelegationSpec => []NoOtherPath
<1>1. DelegationInv => NoOtherPath
  <2> SUFFICES ASSUME DelegationInv, NEW a \in Admin, Running(a, {"assign"}),
                      ~ Free(txn[a].user)
               PROVE  rows[txn[a].user].via = txn[a].grant
    BY DEF NoOtherPath
  <2> DEFINE u == txn[a].user  g == txn[a].grant
  <2>1. u \in User /\ g \in Grant
    BY Carried DEF DelegationInv, DelegationTypeOK, Running
  <2>2. grants[g].status = "active" /\ grants[g].org = Home[u] /\ grants[g].org \in Org
    BY <2>1, Recorded DEF DelegationInv, CheckedInv, Running, Assignable
  <2>3. rows[u].via \in Grant
    BY <2>1, <2>2, Recorded, PartiesAssumption DEF DelegationInv, DelegationHolds, Free
  <2>4. /\ grants[rows[u].via].status = "active"
        /\ grants[rows[u].via].org = Home[u]
    BY <2>1, <2>3, Recorded DEF DelegationInv, DelegationHolds, Free
  <2>5. QED
    BY <2>1, <2>2, <2>3, <2>4 DEF DelegationInv, OneActive
<1>2. QED
  BY <1>1, DelegationInvariant, PTL

-----------------------------------------------------------------------------
\* Delegation implements RoleTables: what a transaction has checked still holds
\* when it writes, so that its write is one the tables allow at that moment.

LEMMA TablesInit == DelegationInit => Tables!Init
BY DEF DelegationInit, Tables!Init, NoGrant, NoRow, Tables!NotMade, Tables!Nothing

\* A user with something holds it along a path and is not written as nothing.
LEMMA Pathless ==
    ASSUME DelegationTypeOK, NEW u \in User
    PROVE  /\ rows[u].via = Nobody <=> rows[u] = Tables!Nothing
           /\ rows[u].via \in Grant \cup {Direct, Nobody}
           /\ \A k : [rows[u] EXCEPT !.keys = k] = [via |-> rows[u].via, keys |-> k]
BY PartiesAssumption DEF DelegationTypeOK, Rows, NoRow, Tables!Nothing

LEMMA AssignMaps ==
    ASSUME DelegationInv, NEW a \in Admin, Assign(a)
    PROVE  Tables!Next
<1> DEFINE u == txn[a].user  g == txn[a].grant  keys == txn[a].keys
<1>1. u \in User /\ g \in Grant /\ keys \in Tables!Sets
  BY Carried DEF DelegationInv, DelegationTypeOK, Assign, KeySets, Tables!Sets
<1>2. keys \in Tables!Allowed(g, u)
  BY <1>1, PartiesAssumption DEF DelegationInv, CheckedInv, Running, Assignable,
     Assign, Tables!Allowed
<1>3. Tables!Hold(g, u)
  BY <1>2 DEF Assign, CommitRow, Tables!Hold
<1>4. Tables!Assign(g, u)
  BY <1>1, <1>3, Pathless, PartiesAssumption
     DEF DelegationInv, Assign, Free, Tables!Assign
<1>5. QED
  BY <1>1, <1>4 DEF Tables!Next

LEMMA GrantMaps ==
    ASSUME DelegationInv, NEW a \in Admin, CommitGrant(a)
    PROVE  Tables!Next
<1> DEFINE u == txn[a].user  keys == txn[a].keys
<1>1. u \in User /\ keys \in Tables!Sets
  BY Carried DEF DelegationInv, DelegationTypeOK, CommitGrant, KeySets, Tables!Sets
<1>2. keys \in Tables!Allowed(Direct, u)
  BY <1>1 DEF DelegationInv, CheckedInv, Running, CommitGrant, Tables!Allowed
<1>3. Tables!Hold(Direct, u)
  BY <1>2 DEF CommitGrant, CommitRow, Tables!Hold
<1>4. Tables!Assign(Direct, u)
  BY <1>1, <1>3, Pathless DEF DelegationInv, CommitGrant, Tables!Assign
<1>5. QED
  BY <1>1, <1>4 DEF Tables!Next

LEMMA ReplaceMaps ==
    ASSUME DelegationInv, NEW a \in Admin, Replace(a) \/ CommitPatch(a)
    PROVE  Tables!Next
<1> DEFINE u == txn[a].user  via == rows[u].via  keys == txn[a].keys
<1>1. /\ u \in User /\ keys \in Tables!Sets
      /\ Replace(a) => txn[a].grant \in Grant
  BY Carried DEF DelegationInv, DelegationTypeOK, Replace, CommitPatch, KeySets,
     Tables!Sets
<1>2. via \in Grant \cup {Direct, Nobody}
  BY <1>1, Pathless DEF DelegationInv
<1>3. via # Nobody /\ (via \in Grant => Assignable(via, u, keys))
  BY <1>1, PartiesAssumption
     DEF DelegationInv, CheckedInv, Running, Replace, CommitPatch
<1>4. keys \in Tables!Allowed(via, u)
  BY <1>1, <1>2, <1>3
     DEF DelegationInv, DelegationHolds, Assignable, Tables!Allowed
<1>5. Tables!Hold(via, u)
  <2>1. CommitRow(a, u, [rows[u] EXCEPT !.keys = keys])
    BY DEF Replace, CommitPatch
  <2>2. QED
    BY <1>1, <1>4, <2>1, Pathless DEF DelegationInv, CommitRow, Tables!Hold
<1>6. Tables!Replace(u)
  BY <1>1, <1>3, <1>5, Pathless DEF DelegationInv, Tables!Replace
<1>7. QED
  BY <1>1, <1>6 DEF Tables!Next

LEMMA InsertMaps ==
    ASSUME DelegationInv, NEW a \in Admin, InsertGrant(a)
    PROVE  Tables!Next
<1>1. txn[a].org \in Org /\ txn[a].keys \in Tables!Sets
  BY Carried DEF DelegationInv, DelegationTypeOK, InsertGrant, KeySets, Tables!Sets
<1>2. \A h \in Grant : grants[h].status = "active" => grants[h].org # txn[a].org
  BY DEF InsertGrant, HasActive
<1>3. PICK g \in Grant :
        /\ grants[g] = NoGrant
        /\ grants' = [grants EXCEPT ![g] = [status |-> "active",
                          org |-> txn[a].org, keys |-> txn[a].keys]]
  BY DEF InsertGrant
<1>4. Tables!Delegate(g, txn[a].org)
  BY <1>1, <1>2, <1>3 DEF InsertGrant, NoGrant, Tables!Delegate, Tables!NotMade
<1>5. QED
  BY <1>1, <1>3, <1>4 DEF Tables!Next

LEMMA TablesStep ==
    DelegationInv /\ [DelegationNext]_delegationVars => [Tables!Next]_Tables!tables
<1> SUFFICES ASSUME DelegationInv, [DelegationNext]_delegationVars,
                    ~ UNCHANGED <<grants, rows>>
             PROVE  Tables!Next
  BY DEF Tables!tables
<1>1. ASSUME NEW a \in Admin, Request(a) PROVE FALSE
  BY <1>1 DEF Request, CountRows, CreateProjectGrant, CheckGrant, Receive,
     GrantRoles, PatchRow, Begin
<1>2. ASSUME NEW a \in Admin, Statement(a) PROVE Tables!Next
  <2>1. ~ (CountGrants(a) \/ DeleteRole(a) \/ RollBack(a))
    BY DEF CountGrants, DeleteRole, RollBack, Refuse
  <2>2. QED
    BY <1>2, <2>1, AssignMaps, GrantMaps, ReplaceMaps, InsertMaps DEF Statement
<1>3. ASSUME NEW g \in Grant, RevokeGrant(g) PROVE Tables!Next
  BY <1>3 DEF RevokeGrant, Tables!Next, Tables!Revoke
<1>4. ASSUME NEW u \in User, RemoveRow(u) PROVE Tables!Next
  BY <1>4 DEF RemoveRow, NoRow, Tables!Next, Tables!Remove, Tables!Nothing
<1>5. QED
  BY <1>1, <1>2, <1>3, <1>4
     DEF DelegationNext, CreateRole, ChangeOrganization, delegationVars

\* Requests that check in one statement and write in a later one are as good as
\* requests that do both at once: whatever else commits in between, a write to
\* project_grants or user_grants is one that RoleTables allows when it commits.
\* The project grant an assignment was checked against stays locked FOR SHARE,
\* against the FOR UPDATE of its revocation; an update whose triggers have fired
\* keeps its row locked.
THEOREM TablesImplemented == DelegationSpec => ImplementsTables
<1>1. DelegationInit => Tables!Init
  BY TablesInit
<1>2. DelegationInv /\ [DelegationNext]_delegationVars => [Tables!Next]_Tables!tables
  BY TablesStep
<1>3. QED
  BY DelegationInvariant, <1>1, <1>2, PTL
     DEF DelegationSpec, ImplementsTables, Tables!Spec
=============================================================================
