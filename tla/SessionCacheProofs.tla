------------------------- MODULE SessionCacheProofs -------------------------
(***************************************************************************)
(* Theorems about SessionCache for every set of sessions, requests and     *)
(* instances, every policy and every cache TTL.                            *)
(***************************************************************************)
EXTENDS SessionCache, TLAPS

\* One step of the system keeps the state well typed.
LEMMA TypeStep ==
    ASSUME TypeOK, [Next]_vars
    PROVE  TypeOK'
<1> USE DurationsAssumption DEF TypeOK, rows, redis
<1>1. CASE Tick
  BY <1>1 DEF Tick, Time
<1>2. ASSUME NEW s \in Sessions, Create(s) PROVE TypeOK'
  BY <1>2 DEF Create, Time, Deadline
<1>3. ASSUME NEW s \in Sessions, Sweep(s) PROVE TypeOK'
  BY <1>3 DEF Sweep
<1>4. ASSUME NEW p \in Lookups, LookupBegin(p) PROVE TypeOK'
  BY <1>4 DEF LookupBegin, NoLookup, LookupState, Time
<1>5. ASSUME NEW p \in Lookups, LookupHit(p) PROVE TypeOK'
  BY <1>5 DEF LookupHit, Go, Answer, Used, LookupState, AtLeast, Time
<1>6. ASSUME NEW p \in Lookups, LookupMiss(p) PROVE TypeOK'
  BY <1>6 DEF LookupMiss, Go, LookupState, Time
<1>7. ASSUME NEW p \in Lookups, LookupRead(p) PROVE TypeOK'
  BY <1>7 DEF LookupRead, Go, Answer, Used, LookupState, AtLeast, Time
<1>8. ASSUME NEW p \in Lookups, LookupReadFails(p) PROVE TypeOK'
  BY <1>8 DEF LookupReadFails, Answer, LookupState, Time
<1>9. ASSUME NEW p \in Lookups, LookupPut(p) PROVE TypeOK'
  <2>1. look' \in [Lookups -> LookupState]
    BY <1>9 DEF LookupPut, Go, Answer, LookupState, Time
  <2>2. \/ \E t \in Time : Populate(Cookie[p], t)
        \/ UNCHANGED redis
    BY <1>9 DEF LookupPut, LookupState
  <2>3. /\ cacheUntil' \in [Sessions -> Deadline]
        /\ cacheSeen' \in [Sessions -> Time]
        /\ tomb' \in [Sessions -> Deadline]
    BY <2>2 DEF Populate, AtMost, Time, Deadline
  <2>4. QED
    BY <1>9, <2>1, <2>3 DEF LookupPut
<1>10. ASSUME NEW p \in Lookups, LookupTouch(p) PROVE TypeOK'
  BY <1>10 DEF LookupTouch, Answer, LookupState, Time
<1>11. ASSUME NEW p \in Lookups, LookupTouchFails(p) PROVE TypeOK'
  BY <1>11 DEF LookupTouchFails, Answer, LookupState, Time
<1>12. ASSUME NEW r \in Revokers, NEW s \in Sessions, RevokeOne(r, s)
       PROVE  TypeOK'
  <2>1. CASE CommitRevocation(r, {s}, expires[s])
    <3>1. expires[s] \in Deadline
      BY DEF Time, Deadline
    <3>2. rev' \in [Revokers -> RevocationState]
      BY <2>1, <3>1 DEF CommitRevocation, RevocationState
    <3>3. /\ row' \in [Sessions -> {"none", "live", "revoked", "gone"}]
          /\ revokedAt' \in [Sessions -> Time]
      BY <2>1 DEF CommitRevocation
    <3>4. QED
      BY <1>12, <3>2, <3>3 DEF RevokeOne
  <2>2. CASE FindNothing(r, {s}) /\ UNCHANGED <<row, revokedAt>>
    <3>1. rev' \in [Revokers -> RevocationState]
      BY <2>2 DEF FindNothing, RevocationState, Deadline
    <3>2. QED
      BY <1>12, <2>2, <3>1 DEF RevokeOne
  <2>3. QED
    BY <1>12, <2>1, <2>2 DEF RevokeOne
<1>13. ASSUME NEW r \in Revokers, NEW s \in Sessions, RevokeOwned(r, s)
       PROVE  TypeOK'
  <2>1. CASE CommitRevocation(r, {s}, expires[s])
    <3>1. expires[s] \in Deadline
      BY DEF Time, Deadline
    <3>2. rev' \in [Revokers -> RevocationState]
      BY <2>1, <3>1 DEF CommitRevocation, RevocationState
    <3>3. /\ row' \in [Sessions -> {"none", "live", "revoked", "gone"}]
          /\ revokedAt' \in [Sessions -> Time]
      BY <2>1 DEF CommitRevocation
    <3>4. QED
      BY <1>13, <3>2, <3>3 DEF RevokeOwned
  <2>2. CASE FindNothing(r, {s}) /\ UNCHANGED <<row, revokedAt>>
    <3>1. rev' \in [Revokers -> RevocationState]
      BY <2>2 DEF FindNothing, RevocationState, Deadline
    <3>2. QED
      BY <1>13, <2>2, <3>1 DEF RevokeOwned
  <2>3. QED
    BY <1>13, <2>1, <2>2 DEF RevokeOwned
<1>14. ASSUME NEW r \in Revokers, NEW keep \in {{}} \cup {{s} : s \in Sessions},
              RevokeMany(r, keep)
       PROVE  TypeOK'
  <2>1. now + MaxAbsolute \in Deadline
    BY DEF Time, Deadline
  <2>2. QED
    BY <1>14, <2>1 DEF RevokeMany, CommitRevocation, RevocationState
<1>15. ASSUME NEW r \in Revokers, NEW s \in Sessions, NEW lost \in SUBSET {s},
              Invalidated(r, s, lost),
              Tombstone(s, rev[r].until) \/ UNCHANGED redis
       PROVE  TypeOK'
  <2>1. rev' \in [Revokers -> RevocationState]
    BY <1>15 DEF Invalidated, RevocationState
  <2>2. /\ cacheUntil' \in [Sessions -> Deadline]
        /\ tomb' \in [Sessions -> Deadline]
        /\ cacheSeen' = cacheSeen
    BY <1>15 DEF Tombstone, RevocationState, AtLeast, Time, Deadline
  <2>3. QED
    BY <1>15, <2>1, <2>2 DEF Invalidated
<1>16. ASSUME NEW r \in Revokers, RevokeReturn(r) PROVE TypeOK'
  BY <1>16 DEF RevokeReturn, NoRevocation, RevocationState, Deadline
<1>17. ASSUME NEW r \in Revokers, RevokerCrash(r) PROVE TypeOK'
  BY <1>17 DEF RevokerCrash, NoRevocation, RevocationState, Deadline
<1>18. CASE OrgBegin
  BY <1>18 DEF OrgBegin, OrgState, Time, Deadline
<1>19. CASE OrgInvalidate
  BY <1>19 DEF OrgInvalidate, Tombstone, OrgState, AtLeast, Time, Deadline
<1>20. CASE OrgCommit
  BY <1>20 DEF OrgCommit, NoOrg, OrgState, Deadline
<1>21. CASE OrgRollback
  BY <1>21 DEF OrgRollback, NoOrg, OrgState, Deadline
<1>22. CASE UNCHANGED vars
  BY <1>22 DEF vars
<1>23. QED
  BY <1>1, <1>2, <1>3, <1>4, <1>5, <1>6, <1>7, <1>8, <1>9, <1>10, <1>11,
     <1>12, <1>13, <1>14, <1>15, <1>16, <1>17, <1>18, <1>19, <1>20, <1>21,
     <1>22 DEF Next, LookupStep, RevokerStep, OrgStep, Invalidate,
     InvalidateFails

\* The initial state is well typed.
LEMMA TypeInit == Init => TypeOK
BY DurationsAssumption DEF Init, TypeOK, Time, Deadline, NoLookup, LookupState,
   NoRevocation, RevocationState, NoOrg, OrgState

\* The state of the model stays well typed: in particular no lookup, revocation
\* or deletion is ever left in a state its code does not have.
THEOREM TypeCorrect == Spec => []TypeOK
<1>1. Init => TypeOK
  BY TypeInit
<1>2. TypeOK /\ [Next]_vars => TypeOK'
  BY TypeStep
<1>3. QED
  BY <1>1, <1>2, PTL DEF Spec

-----------------------------------------------------------------------------
(* The invariant behind immediate revocation                                *)

\* Once created a session keeps its expiry, and once dead its row stays dead:
\* in particular the deletion of an organization commits no row it has not
\* locked against the sweep.
LEMMA RowStable ==
    ASSUME TypeOK, [Next]_vars, NEW s \in Sessions, row[s] # "none"
    PROVE  /\ row'[s] # "none" /\ expires'[s] = expires[s]
           /\ Dead(s) => Dead(s)'
<1> USE DEF TypeOK, rows, Dead
<1> DEFINE Kept == /\ row'[s] # "none" /\ expires'[s] = expires[s]
                   /\ Dead(s) => Dead(s)'
<1>1. ASSUME NEW t \in Sessions, Create(t) \/ Sweep(t) PROVE Kept
  BY <1>1 DEF Create, Sweep
<1>2. ASSUME NEW r \in Revokers, NEW t \in Sessions,
             RevokeOne(r, t) \/ RevokeOwned(r, t)
      PROVE  Kept
  BY <1>2 DEF RevokeOne, RevokeOwned, CommitRevocation
<1>3. ASSUME NEW r \in Revokers, NEW keep, RevokeMany(r, keep) PROVE Kept
  BY <1>3 DEF RevokeMany, CommitRevocation
<1>4. ASSUME OrgCommit PROVE Kept
  BY <1>4 DEF OrgCommit
<1>5. ASSUME UNCHANGED <<row, expires>> PROVE Kept
  BY <1>5
<1>6. QED
  BY <1>1, <1>2, <1>3, <1>4, <1>5 DEF Next, vars, Tick, LookupStep, LookupBegin,
     LookupHit, LookupMiss, LookupRead, LookupReadFails, LookupPut, LookupTouch,
     LookupTouchFails, RevokerStep, Invalidate, InvalidateFails, Invalidated,
     RevokeReturn, RevokerCrash, OrgBegin, OrgStep, OrgInvalidate, OrgRollback

\* A tombstone written for a session under revocation lasts as long as it.
LEMMA TombstoneSeals ==
    ASSUME TypeOK, NEW t \in Sessions, NEW until \in Deadline,
           until >= expires[t], Tombstone(t, until), expires' = expires,
           now' = now, NEW s \in Sessions
    PROVE  /\ Sealed(t)'
           /\ Sealed(s) => Sealed(s)'
BY DurationsAssumption DEF TypeOK, Tombstone, AtLeast, Sealed, Cached, Time,
   Deadline

\* No step makes a sealed session servable again: the clock only moves past a
\* copy, a populate meets the tombstone or the session's own expiry, and a later
\* tombstone lasts as long as the session too.
LEMMA SealedStable ==
    ASSUME RevocationInv, [Next]_vars, NEW s \in Sessions, row[s] # "none",
           Sealed(s)
    PROVE  Sealed(s)'
<1> USE DEF RevocationInv, rows, redis
<1>1. /\ now \in Nat /\ expires[s] \in Nat /\ tomb[s] \in Nat
      /\ cacheUntil[s] \in Nat
  BY DurationsAssumption DEF TypeOK, Time, Deadline
<1>2. expires'[s] = expires[s]
  BY RowStable
<1>3. CASE Tick
  BY <1>1, <1>2, <1>3 DEF Tick, Sealed, Cached
<1>4. ASSUME NEW p \in Lookups, LookupPut(p) PROVE Sealed(s)'
  <2>1. CASE UNCHANGED redis
    BY <1>2, <1>4, <2>1 DEF LookupPut, Sealed, Cached
  <2>2. ASSUME NEW t, Populate(Cookie[p], t) PROVE Sealed(s)'
    BY <1>1, <1>2, <1>4, <2>2 DEF LookupPut, Populate, Tombstoned, Sealed,
       Cached, TypeOK
  <2>3. QED
    BY <1>4, <2>1, <2>2 DEF LookupPut
<1>5. ASSUME NEW r \in Revokers, NEW t \in Sessions, NEW lost \in SUBSET {t},
             Invalidated(r, t, lost),
             Tombstone(t, rev[r].until) \/ UNCHANGED redis
      PROVE  Sealed(s)'
  <2>1. CASE UNCHANGED redis
    BY <1>5, <2>1 DEF Invalidated, Sealed, Cached
  <2>2. CASE Tombstone(t, rev[r].until)
    <3>1. rev[r].until \in Deadline /\ rev[r].until >= expires[t]
      BY <1>5 DEF Invalidated, RevokerInv, ProgressInv, TypeOK, RevocationState
    <3>2. TypeOK /\ expires' = expires /\ now' = now
      BY <1>5 DEF Invalidated
    <3>3. QED
      BY <2>2, <3>1, <3>2, TombstoneSeals
  <2>3. QED
    BY <1>5, <2>1, <2>2
<1>6. CASE OrgInvalidate
  <2>1. PICK t \in org.todo : Tombstone(t, org.until)
    BY <1>6 DEF OrgInvalidate
  <2>2. t \in Sessions /\ org.until \in Deadline /\ org.until >= expires[t]
    BY <2>1 DEF OrgInv, ProgressInv, TypeOK, OrgState
  <2>3. QED
    BY <1>6, <2>1, <2>2, TombstoneSeals DEF OrgInvalidate
<1>7. CASE UNCHANGED <<now, redis>>
  BY <1>2, <1>7 DEF Sealed, Cached
<1>8. QED
  BY <1>3, <1>4, <1>5, <1>6, <1>7 DEF Next, vars, Create, Sweep, LookupStep,
     LookupBegin, LookupHit, LookupMiss, LookupRead, LookupReadFails,
     LookupTouch, LookupTouchFails, RevokeOne, RevokeOwned, RevokeMany,
     RevokerStep, Invalidate, InvalidateFails, RevokeReturn, RevokerCrash,
     OrgBegin, OrgStep, OrgCommit, OrgRollback

\* What is acknowledged as ended is dead and sealed, and stays so.
LEMMA EndedStep ==
    ASSUME RevocationInv, [Next]_vars
    PROVE  EndedInv'
<1> SUFFICES ASSUME NEW s \in ended' PROVE (Dead(s) /\ Sealed(s))'
  BY DEF EndedInv
<1> USE DEF RevocationInv
<1> TypeOK'
  BY TypeStep
<1> s \in Sessions
  BY DEF TypeOK
<1>1. ASSUME Dead(s), Sealed(s) PROVE (Dead(s) /\ Sealed(s))'
  BY <1>1, RowStable, SealedStable DEF Dead
<1>2. CASE s \in ended
  BY <1>1, <1>2 DEF EndedInv
<1>3. ASSUME NEW r \in Revokers, RevokeReturn(r), s \notin ended
      PROVE  (Dead(s) /\ Sealed(s))'
  <2>1. /\ rev[r].pc = "invalidating" /\ rev[r].failed = {}
        /\ rev[r].todo = {} /\ s \in rev[r].hit
    BY <1>3 DEF RevokeReturn
  <2>2. QED
    BY <1>1, <2>1 DEF RevokerInv
<1>4. ASSUME OrgCommit, s \notin ended PROVE (Dead(s) /\ Sealed(s))'
  <2>1. s \in org.hit /\ org.todo = {}
    BY <1>4 DEF OrgCommit
  <2>2. Sealed(s) /\ row[s] # "none"
    BY <2>1 DEF OrgInv
  <2>3. Sealed(s)'
    BY <2>2, SealedStable
  <2>4. QED
    BY <1>4, <2>1, <2>3 DEF OrgCommit, Dead
<1>5. CASE ended' = ended
  BY <1>2, <1>5
<1>6. QED
  BY <1>2, <1>3, <1>4, <1>5 DEF Next, vars, Tick, Create, Sweep, LookupBegin,
     LookupStep, LookupHit, LookupMiss, LookupRead, LookupReadFails, LookupPut,
     LookupTouch, LookupTouchFails, RevokeOne, RevokeOwned, RevokeMany,
     RevokerStep, Invalidate, InvalidateFails, Invalidated, RevokerCrash,
     OrgBegin, OrgStep, OrgInvalidate, OrgRollback

\* No expiry lies further ahead than the longest lifetime there can be.
LEMMA ExpiryStep ==
    ASSUME RevocationInv, [Next]_vars
    PROVE  ExpiryInv'
<1> SUFFICES ASSUME NEW s \in Sessions, row'[s] # "none"
             PROVE  expires'[s] <= now' + MaxAbsolute
  BY DEF ExpiryInv
<1> USE DurationsAssumption DEF RevocationInv
<1> /\ now \in Nat /\ expires[s] \in Nat
  BY DEF TypeOK, Time, Deadline
<1>1. CASE row[s] # "none"
  <2>1. expires'[s] = expires[s] /\ expires[s] <= now + MaxAbsolute
    BY <1>1, RowStable DEF ExpiryInv
  <2>2. now' = now \/ now' = now + 1
    BY DEF Next, vars, Tick, Create, Sweep, LookupBegin,
       LookupStep, LookupHit, LookupMiss, LookupRead, LookupReadFails, LookupPut,
       LookupTouch, LookupTouchFails, RevokeOne, RevokeOwned, RevokeMany,
       RevokerStep, Invalidate, InvalidateFails, Invalidated, RevokeReturn,
       RevokerCrash, OrgBegin, OrgStep, OrgInvalidate, OrgCommit, OrgRollback
  <2>3. QED
    BY <2>1, <2>2
<1>2. CASE Create(s)
  BY <1>2 DEF Create, TypeOK
<1>3. CASE row[s] = "none" /\ ~Create(s)
  <2>1. row'[s] = "none"
    BY <1>3 DEF Next, vars, Tick, Create, Sweep, LookupBegin, TypeOK, rows,
       LookupStep, LookupHit, LookupMiss, LookupRead, LookupReadFails, LookupPut,
       LookupTouch, LookupTouchFails, RevokeOne, RevokeOwned, RevokeMany,
       CommitRevocation, RowLive, OrgInv,
       RevokerStep, Invalidate, InvalidateFails, Invalidated, RevokeReturn,
       RevokerCrash, OrgBegin, OrgStep, OrgInvalidate, OrgCommit, OrgRollback
  <2>2. QED
    BY <2>1
<1>4. QED
  BY <1>1, <1>2, <1>3

\* A revocation seals every session it invalidates, and nobody undoes it.
LEMMA RevokerInvStep ==
    ASSUME RevocationInv, [Next]_vars
    PROVE  RevokerInv'
<1> DEFINE Good(r, s) ==
              /\ Dead(s)
              /\ s \in rev[r].todo => rev[r].until >= expires[s]
              /\ s \notin rev[r].todo \cup rev[r].failed => Sealed(s)
<1> SUFFICES ASSUME NEW r \in Revokers, rev'[r].pc = "invalidating",
                    NEW s \in rev'[r].hit
             PROVE  Good(r, s)'
  BY DEF RevokerInv
<1> USE DEF RevocationInv
<1> TypeOK'
  BY TypeStep
<1> s \in Sessions
  BY DEF TypeOK, RevocationState
<1>1. CASE rev'[r] = rev[r]
  <2>1. Good(r, s)
    BY <1>1 DEF RevokerInv
  <2>2. /\ Dead(s)' /\ expires'[s] = expires[s]
        /\ Sealed(s) => Sealed(s)'
    BY <2>1, RowStable, SealedStable DEF Dead
  <2>3. QED
    BY <1>1, <2>1, <2>2
<1>2. ASSUME NEW hit \in SUBSET Sessions, NEW until,
             CommitRevocation(r, hit, until), expires' = expires,
             \A t \in hit : until >= expires[t]
      PROVE  Good(r, s)'
  BY <1>2 DEF CommitRevocation, Dead, TypeOK
<1>3. ASSUME NEW t \in Sessions, RevokeOne(r, t) \/ RevokeOwned(r, t)
      PROVE  Good(r, s)'
  <2>1. rev'[r].pc # "invalidating" \/ CommitRevocation(r, {t}, expires[t])
    BY <1>3 DEF RevokeOne, RevokeOwned, FindNothing, TypeOK
  <2>2. expires' = expires /\ expires[t] >= expires[t]
    BY <1>3 DEF RevokeOne, RevokeOwned, TypeOK, Deadline
  <2>3. QED
    BY <1>2, <2>1, <2>2
<1>4. ASSUME NEW keep, RevokeMany(r, keep) PROVE Good(r, s)'
  <2> DEFINE hit == {t \in Sessions \ keep : RowLive(t, now)}
  <2>1. CommitRevocation(r, hit, now + MaxAbsolute) /\ expires' = expires
    BY <1>4 DEF RevokeMany
  <2>2. \A t \in hit : now + MaxAbsolute >= expires[t]
    BY DurationsAssumption DEF ExpiryInv, RowLive, TypeOK, Time, Deadline
  <2>3. QED
    BY <1>2, <2>1, <2>2
<1>5. ASSUME NEW t \in Sessions, NEW lost \in SUBSET {t},
             Invalidated(r, t, lost),
             (lost = {} /\ Tombstone(t, rev[r].until)) \/ lost = {t}
      PROVE  Good(r, s)'
  <2>1. /\ rev'[r].hit = rev[r].hit /\ rev[r].pc = "invalidating"
        /\ rev'[r].todo = rev[r].todo \ {t} /\ rev'[r].until = rev[r].until
        /\ rev'[r].failed = rev[r].failed \cup lost /\ t \in rev[r].todo
    BY <1>5 DEF Invalidated, TypeOK
  <2>2. Good(r, s)
    BY <2>1 DEF RevokerInv
  <2>3. /\ Dead(s)' /\ expires'[s] = expires[s]
        /\ Sealed(s) => Sealed(s)'
    BY <2>2, RowStable, SealedStable DEF Dead
  <2>4. CASE s = t /\ lost = {}
    <3>1. Tombstone(t, rev[r].until) /\ rev[r].until >= expires[t]
      BY <1>5, <2>1, <2>2, <2>4
    <3>2. /\ rev[r].until \in Deadline /\ expires' = expires /\ now' = now
      BY <1>5 DEF Invalidated, TypeOK, RevocationState, rows
    <3>3. Sealed(s)'
      BY <2>4, <3>1, <3>2, TombstoneSeals
    <3>4. QED
      BY <2>1, <2>2, <2>3, <3>3
  <2>5. CASE s # t \/ lost = {t}
    BY <2>1, <2>2, <2>3, <2>5
  <2>6. QED
    BY <1>5, <2>4, <2>5
<1>6. ASSUME RevokeReturn(r) \/ RevokerCrash(r) PROVE Good(r, s)'
  BY <1>6 DEF RevokeReturn, RevokerCrash, NoRevocation, TypeOK
<1>7. ASSUME NEW q \in Revokers \ {r}, NEW f, rev' = [rev EXCEPT ![q] = f]
      PROVE  Good(r, s)'
  BY <1>1, <1>7 DEF TypeOK
<1>8. QED
  <2>1. CASE \E q \in Revokers, t \in Sessions : RevokeOne(q, t) \/ RevokeOwned(q, t)
    BY <1>3, <1>7, <2>1 DEF RevokeOne, RevokeOwned, CommitRevocation, FindNothing
  <2>2. CASE \E q \in Revokers, keep \in {{}} \cup {{t} : t \in Sessions} :
                RevokeMany(q, keep)
    BY <1>4, <1>7, <2>2 DEF RevokeMany, CommitRevocation
  <2>3. CASE \E q \in Revokers : RevokerStep(q) \/ RevokerCrash(q)
    <3>1. PICK q \in Revokers : RevokerStep(q) \/ RevokerCrash(q)
      BY <2>3
    <3>2. CASE q # r
      <4>1. \E f : rev' = [rev EXCEPT ![q] = f]
        BY <3>1 DEF RevokerStep, RevokerCrash, RevokeReturn, Invalidate,
           InvalidateFails, Invalidated
      <4>2. QED
        BY <1>7, <3>2, <4>1
    <3>3. ASSUME NEW t \in Sessions, Invalidate(r, t) PROVE Good(r, s)'
      BY <1>5, <3>3 DEF Invalidate
    <3>4. ASSUME NEW t \in Sessions, InvalidateFails(r, t) PROVE Good(r, s)'
      BY <1>5, <3>4 DEF InvalidateFails
    <3>5. QED
      BY <1>6, <3>1, <3>2, <3>3, <3>4 DEF RevokerStep
  <2>4. CASE rev' = rev
    BY <1>1, <2>4
  <2>5. QED
    BY <2>1, <2>2, <2>3, <2>4 DEF Next, vars, Tick, Create, Sweep, LookupBegin,
       LookupStep, LookupHit, LookupMiss, LookupRead, LookupReadFails,
       LookupPut, LookupTouch, LookupTouchFails, OrgBegin, OrgStep,
       OrgInvalidate, OrgCommit, OrgRollback

\* The deletion of an organization seals each session before it commits.
LEMMA OrgInvStep ==
    ASSUME RevocationInv, [Next]_vars
    PROVE  OrgInv'
<1> DEFINE Good(s) ==
              /\ row[s] # "none"
              /\ s \in org.todo => org.until >= expires[s]
              /\ s \notin org.todo => Sealed(s)
<1> SUFFICES ASSUME NEW s \in org'.hit PROVE Good(s)'
  BY DEF OrgInv
<1> USE DEF RevocationInv
<1> TypeOK'
  BY TypeStep
<1> s \in Sessions
  BY DEF TypeOK, OrgState
<1>1. ASSUME Good(s), s \in org.hit
      PROVE  /\ row'[s] # "none" /\ expires'[s] = expires[s]
             /\ Sealed(s) => Sealed(s)'
  BY <1>1, RowStable, SealedStable
<1>2. CASE org' = org
  BY <1>1, <1>2 DEF OrgInv
<1>3. CASE OrgBegin
  BY <1>3, DurationsAssumption DEF OrgBegin, ExpiryInv, RowLive, rows, TypeOK,
     Time, Deadline
<1>4. CASE OrgInvalidate
  <2>1. PICK t \in org.todo : /\ Tombstone(t, org.until)
                              /\ org' = [hit |-> org.hit,
                                         todo |-> org.todo \ {t},
                                         until |-> org.until]
    BY <1>4 DEF OrgInvalidate
  <2>2. /\ t \in Sessions /\ t \in org.hit /\ org.until \in Deadline
        /\ org.until >= expires[t] /\ expires' = expires /\ now' = now
    BY <1>4, <2>1 DEF OrgInvalidate, OrgInv, ProgressInv, TypeOK, OrgState, rows
  <2>3. Sealed(t)'
    BY <2>1, <2>2, TombstoneSeals
  <2>4. Good(s) /\ s \in org.hit
    BY <2>1 DEF OrgInv
  <2>5. QED
    BY <1>1, <2>1, <2>3, <2>4
<1>5. CASE OrgCommit \/ OrgRollback
  BY <1>5 DEF OrgCommit, OrgRollback, NoOrg
<1>6. QED
  BY <1>2, <1>3, <1>4, <1>5 DEF Next, vars, Tick, Create, Sweep, LookupBegin,
     LookupStep, LookupHit, LookupMiss, LookupRead, LookupReadFails, LookupPut,
     LookupTouch, LookupTouchFails, RevokeOne, RevokeOwned, RevokeMany,
     RevokerStep, Invalidate, InvalidateFails, Invalidated, RevokeReturn,
     RevokerCrash, OrgStep

\* A lookup that began after the end finds no copy and no live row.
LEMMA LateInvStep ==
    ASSUME RevocationInv, [Next]_vars
    PROVE  LateInv'
<1> DEFINE Good(p) == /\ Cookie[p] \in ended
                      /\ look[p].pc \notin {"put", "touch"}
                      /\ look[p].verdict # "served"
<1> SUFFICES ASSUME NEW p \in late' PROVE Good(p)'
  BY DEF LateInv
<1> USE DEF RevocationInv
<1> TypeOK'
  BY TypeStep
<1> p \in Lookups
  BY DEF TypeOK
<1>1. ended \subseteq ended'
  BY DEF Next, vars, Tick, Create, Sweep, LookupBegin, LookupStep, LookupHit,
     LookupMiss, LookupRead, LookupReadFails, LookupPut, LookupTouch,
     LookupTouchFails, RevokeOne, RevokeOwned, RevokeMany, RevokerStep,
     Invalidate, InvalidateFails, Invalidated, RevokeReturn, RevokerCrash,
     OrgBegin, OrgStep, OrgInvalidate, OrgCommit, OrgRollback
<1>2. ASSUME p \in late, look'[p] = look[p] PROVE Good(p)'
  BY <1>1, <1>2 DEF LateInv
<1>3. ASSUME LookupBegin(p) PROVE Good(p)'
  BY <1>3 DEF LookupBegin, TypeOK
<1>4. ASSUME LookupStep(p), p \in late PROVE Good(p)'
  <2>1. /\ Cookie[p] \in ended /\ look[p].pc \notin {"put", "touch"}
        /\ Dead(Cookie[p]) /\ ~Cached(Cookie[p])
    BY <1>4 DEF LateInv, EndedInv, Sealed
  <2>2. LookupMiss(p) \/ LookupRead(p) \/ LookupReadFails(p)
    BY <1>4, <2>1 DEF LookupStep, LookupHit, LookupPut, LookupTouch,
       LookupTouchFails
  <2>3. ~RowLive(Cookie[p], look[p].at)
    BY <2>1 DEF RowLive, Dead
  <2>4. look'[p].pc \notin {"put", "touch"} /\ look'[p].verdict # "served"
    BY <2>2, <2>3 DEF LookupMiss, LookupRead, LookupReadFails, Go, Answer, TypeOK
  <2>5. QED
    BY <1>1, <2>1, <2>4
<1>5. ASSUME NEW q \in Lookups \ {p}, LookupBegin(q) \/ LookupStep(q)
      PROVE  Good(p)'
  <2>1. look'[p] = look[p]
    BY <1>5 DEF LookupBegin, LookupStep, LookupHit, LookupMiss, LookupRead,
       LookupReadFails, LookupPut, LookupTouch, LookupTouchFails, Go, Answer,
       TypeOK
  <2>2. p \in late
    BY <1>5 DEF LookupBegin, LookupStep, LookupHit, LookupMiss, LookupRead,
       LookupReadFails, LookupPut, LookupTouch, LookupTouchFails
  <2>3. QED
    BY <1>2, <2>1, <2>2
<1>6. ASSUME LookupStep(p) PROVE p \in late
  BY <1>6 DEF LookupStep, LookupHit, LookupMiss, LookupRead, LookupReadFails,
     LookupPut, LookupTouch, LookupTouchFails
<1>7. CASE UNCHANGED <<late, look>>
  BY <1>2, <1>7
<1>8. QED
  <2>1. CASE \E q \in Lookups : LookupBegin(q) \/ LookupStep(q)
    BY <1>3, <1>4, <1>5, <1>6, <2>1
  <2>2. QED
    BY <1>7, <2>1 DEF Next, vars, Tick, Create, Sweep, RevokeOne, RevokeOwned,
       RevokeMany, RevokerStep, Invalidate, InvalidateFails, Invalidated,
       RevokeReturn, RevokerCrash, OrgBegin, OrgStep, OrgInvalidate, OrgCommit,
       OrgRollback

\* A request is answered once, and a revocation only works on what it hit.
LEMMA ProgressStep ==
    ASSUME RevocationInv, [Next]_vars
    PROVE  ProgressInv'
<1> USE DEF RevocationInv, ProgressInv, TypeOK
<1>1. ASSUME NEW p \in Lookups, LookupBegin(p) \/ LookupStep(p)
      PROVE  ProgressInv'
  BY <1>1 DEF LookupBegin, LookupStep, LookupHit, LookupMiss, LookupRead,
     LookupReadFails, LookupPut, LookupTouch, LookupTouchFails, Go, Answer
<1>2. ASSUME NEW r \in Revokers, NEW t \in Sessions,
             RevokeOne(r, t) \/ RevokeOwned(r, t)
      PROVE  ProgressInv'
  BY <1>2 DEF RevokeOne, RevokeOwned, CommitRevocation, FindNothing
<1>3. ASSUME NEW r \in Revokers, NEW keep, RevokeMany(r, keep)
      PROVE  ProgressInv'
  BY <1>3 DEF RevokeMany, CommitRevocation
<1>4. ASSUME NEW r \in Revokers, RevokerStep(r) \/ RevokerCrash(r)
      PROVE  ProgressInv'
  BY <1>4 DEF RevokerStep, RevokerCrash, RevokeReturn, Invalidate,
     InvalidateFails, Invalidated, NoRevocation
<1>5. CASE OrgBegin \/ OrgStep
  BY <1>5 DEF OrgBegin, OrgStep, OrgInvalidate, OrgCommit, OrgRollback, NoOrg
<1>6. CASE UNCHANGED <<look, rev, org>>
  BY <1>6
<1>7. QED
  BY <1>1, <1>2, <1>3, <1>4, <1>5, <1>6 DEF Next, vars, Tick, Create, Sweep

\* The invariant holds of every behaviour, whatever the durations, the number
\* of sessions and the number of requests racing for them.
THEOREM RevocationInvariant == Spec => []RevocationInv
<1>1. Init => RevocationInv
  <2> SUFFICES ASSUME Init PROVE RevocationInv
    OBVIOUS
  <2>1. TypeOK
    BY TypeInit
  <2>2. QED
    BY <2>1 DEF Init, RevocationInv, ProgressInv, ExpiryInv, EndedInv,
       RevokerInv, OrgInv, LateInv, NoLookup, NoRevocation, NoOrg
<1>2. RevocationInv /\ [Next]_vars => RevocationInv'
  BY TypeStep, ProgressStep, ExpiryStep, EndedStep, RevokerInvStep, OrgInvStep,
     LateInvStep DEF RevocationInv
<1>3. QED
  BY <1>1, <1>2, PTL DEF Spec

\* Revocation is immediate: nobody who asks after a session was acknowledged as
\* ended is served it, by any instance, from the cache or from the database.
THEOREM ImmediateRevocation == Spec => []RevocationIsImmediate
<1>1. RevocationInv => RevocationIsImmediate
  BY DEF RevocationInv, LateInv, RevocationIsImmediate
<1>2. QED
  BY <1>1, RevocationInvariant, PTL

-----------------------------------------------------------------------------
(* The backstop of a lost invalidation                                      *)

\* The clock does not go back, and an existing session keeps its expiry.
LEMMA ClockStep ==
    ASSUME TypeOK, [Next]_vars
    PROVE  now' = now \/ Tick
BY DEF Next, vars, Create, Sweep, LookupBegin, LookupStep, LookupHit, LookupMiss,
   LookupRead, LookupReadFails, LookupPut, LookupTouch, LookupTouchFails,
   RevokeOne, RevokeOwned, RevokeMany, RevokerStep, Invalidate, InvalidateFails,
   Invalidated, RevokeReturn, RevokerCrash, OrgBegin, OrgStep, OrgInvalidate,
   OrgCommit, OrgRollback

\* Every step leaves the lookups as they are, begins one, or advances one.
LEMMA LookupFrame ==
    ASSUME TypeOK, [Next]_vars, look' # look
    PROVE  \E p \in Lookups :
              /\ LookupBegin(p) \/ LookupStep(p)
              /\ \A q \in Lookups \ {p} : look'[q] = look[q]
<1>1. PICK p \in Lookups : LookupBegin(p) \/ LookupStep(p)
  BY DEF Next, vars, Tick, Create, Sweep, RevokeOne, RevokeOwned, RevokeMany,
     RevokerStep, Invalidate, InvalidateFails, Invalidated, RevokeReturn,
     RevokerCrash, OrgBegin, OrgStep, OrgInvalidate, OrgCommit, OrgRollback
<1>2. \A q \in Lookups \ {p} : look'[q] = look[q]
  BY <1>1 DEF TypeOK, LookupBegin, LookupStep, LookupHit, LookupMiss, LookupRead,
     LookupReadFails, LookupPut, LookupTouch, LookupTouchFails, Go, Answer
<1>3. QED
  BY <1>1, <1>2

\* The copy of a session is dropped, kept, or populated by a lookup of it.
LEMMA CopyFrame ==
    ASSUME TypeOK, OrgInv, ProgressInv, [Next]_vars, NEW s \in Sessions
    PROVE  \/ cacheUntil'[s] = cacheUntil[s] /\ cacheSeen'[s] = cacheSeen[s]
           \/ cacheUntil'[s] = 0 /\ cacheSeen'[s] = cacheSeen[s]
           \/ \E p \in Lookups :
                 /\ Cookie[p] = s /\ LookupPut(p) /\ expires[s] > now
                 /\ cacheUntil'[s] = AtMost(now + TTL, expires[s])
                 /\ \/ cacheSeen'[s] = look[p].at
                    \/ cacheSeen'[s] = look[p].seen
<1> USE DurationsAssumption DEF TypeOK
<1>1. ASSUME NEW p \in Lookups, LookupPut(p), ~UNCHANGED redis
      PROVE  \/ cacheUntil'[s] = cacheUntil[s] /\ cacheSeen'[s] = cacheSeen[s]
             \/ /\ Cookie[p] = s /\ expires[s] > now
                /\ cacheUntil'[s] = AtMost(now + TTL, expires[s])
                /\ \/ cacheSeen'[s] = look[p].at
                   \/ cacheSeen'[s] = look[p].seen
  <2>1. \E t \in {look[p].at, look[p].seen} :
           Populate(Cookie[p], t) /\ ~UNCHANGED redis
    BY <1>1 DEF LookupPut
  <2>2. QED
    BY <2>1 DEF Populate
<1>2. ASSUME NEW t \in Sessions, NEW until, Tombstone(t, until)
      PROVE  /\ cacheUntil'[s] = cacheUntil[s] \/ cacheUntil'[s] = 0
             /\ cacheSeen'[s] = cacheSeen[s]
  BY <1>2 DEF Tombstone
<1>3. CASE UNCHANGED redis
  BY <1>3 DEF redis
<1>4. CASE \E r \in Revokers, t \in Sessions : Invalidate(r, t) \/ InvalidateFails(r, t)
  BY <1>2, <1>3, <1>4 DEF Invalidate, InvalidateFails
<1>5. CASE OrgInvalidate
  BY <1>2, <1>5 DEF OrgInvalidate, OrgState
<1>6. CASE \E p \in Lookups : LookupPut(p)
  BY <1>1, <1>3, <1>6
<1>7. QED
  BY <1>3, <1>4, <1>5, <1>6 DEF Next, vars, Tick, Create, Sweep, LookupBegin,
     LookupStep, LookupHit, LookupMiss, LookupRead, LookupReadFails, LookupTouch,
     LookupTouchFails, RevokeOne, RevokeOwned, RevokeMany, RevokerStep,
     RevokeReturn, RevokerCrash, OrgBegin, OrgStep, OrgCommit, OrgRollback

\* No request outlives its bound, and no copy precedes its session.
LEMMA AgeStep ==
    ASSUME RevocationInv, AgeInv, [Next]_vars
    PROVE  AgeInv'
<1> USE DurationsAssumption DEF RevocationInv
<1> DEFINE Timely(p) == look[p].pc # "idle" =>
                           /\ row[Cookie[p]] # "none"
                           /\ look[p].at <= now /\ now <= look[p].at + Lag
<1>1. ASSUME NEW p \in Lookups PROVE Timely(p)'
  <2>1. Cookie[p] \in Sessions /\ now \in Nat /\ look[p].at \in Nat
    BY DEF TypeOK, LookupState, Time
  <2>2. CASE look'[p] = look[p]
    <3>1. look[p].pc # "idle" => row'[Cookie[p]] # "none"
      BY <2>1, RowStable DEF AgeInv
    <3>2. CASE now' = now
      BY <2>2, <3>1, <3>2 DEF AgeInv
    <3>3. CASE Tick
      BY <2>1, <2>2, <3>1, <3>3 DEF Tick, AgeInv
    <3>4. QED
      BY <3>2, <3>3, ClockStep
  <2>3. CASE LookupBegin(p)
    BY <2>1, <2>3 DEF LookupBegin, TypeOK, rows
  <2>4. CASE LookupStep(p)
    <3>1. /\ look[p].pc # "idle" /\ look'[p].at = look[p].at
          /\ now' = now /\ row' = row
      BY <2>4 DEF LookupStep, LookupHit, LookupMiss, LookupRead, LookupReadFails,
         LookupPut, LookupTouch, LookupTouchFails, Go, Answer, TypeOK, rows
    <3>2. QED
      BY <3>1 DEF AgeInv
  <2>5. QED
    BY <2>2, <2>3, <2>4, LookupFrame
<1>2. ASSUME NEW s \in Sessions, row'[s] = "none" PROVE cacheUntil'[s] = 0
  <2>1. row[s] = "none" /\ cacheUntil[s] = 0
    BY <1>2, RowStable DEF AgeInv
  <2>2. ASSUME NEW p \in Lookups, LookupPut(p) PROVE Cookie[p] # s
    BY <2>1, <2>2 DEF LookupPut, AgeInv
  <2>3. QED
    BY <2>1, <2>2, CopyFrame
<1>3. QED
  BY <1>1, <1>2 DEF AgeInv

\* A session dies by a commit of this moment, or of old age.
LEMMA DeathStep ==
    ASSUME TypeOK, OrgInv, [Next]_vars, NEW s \in Sessions, Dead(s)'
    PROVE  \/ Dead(s) /\ revokedAt'[s] = revokedAt[s]
           \/ revokedAt'[s] = now /\ now' = now
           \/ now > expires[s] /\ now' = now /\ expires'[s] = expires[s]
<1> USE DurationsAssumption DEF TypeOK, rows, Dead
<1>1. ASSUME NEW r \in Revokers, NEW t \in Sessions,
             RevokeOne(r, t) \/ RevokeOwned(r, t)
      PROVE  \/ Dead(s) /\ revokedAt'[s] = revokedAt[s]
             \/ revokedAt'[s] = now /\ now' = now
  BY <1>1 DEF RevokeOne, RevokeOwned, CommitRevocation
<1>2. ASSUME NEW r \in Revokers, NEW keep, RevokeMany(r, keep)
      PROVE  \/ Dead(s) /\ revokedAt'[s] = revokedAt[s]
             \/ revokedAt'[s] = now /\ now' = now
  BY <1>2 DEF RevokeMany, CommitRevocation
<1>3. CASE OrgCommit
  BY <1>3 DEF OrgCommit
<1>4. ASSUME NEW t \in Sessions, Sweep(t)
      PROVE  \/ Dead(s) /\ revokedAt'[s] = revokedAt[s]
             \/ now > expires[s] /\ now' = now /\ expires'[s] = expires[s]
  BY <1>4 DEF Sweep, Time, Deadline
<1>5. ASSUME NEW t \in Sessions, Create(t)
      PROVE  Dead(s) /\ revokedAt'[s] = revokedAt[s]
  BY <1>5 DEF Create
<1>6. CASE UNCHANGED <<row, revokedAt>>
  BY <1>6
<1>7. QED
  BY <1>1, <1>2, <1>3, <1>4, <1>5, <1>6 DEF Next, vars, Tick, LookupStep,
     LookupBegin, LookupHit, LookupMiss, LookupRead, LookupReadFails, LookupPut,
     LookupTouch, LookupTouchFails, RevokerStep, Invalidate, InvalidateFails,
     Invalidated, RevokeReturn, RevokerCrash, OrgBegin, OrgStep, OrgInvalidate,
     OrgRollback

\* What is populated after a death was read before it, and lapses in time.
LEMMA CopyStep ==
    ASSUME RevocationInv, StaleInv, [Next]_vars
    PROVE  CopyInv'
<1> USE DEF RevocationInv, StaleInv
<1> TTL \in Nat /\ Lag \in Nat
  BY DurationsAssumption
<1> TypeOK' /\ AgeInv'
  BY TypeStep, AgeStep
<1>0. PICK n \in Nat : now \in Nat /\ now' = n /\ n >= now
  <2>1. now \in Nat /\ (now' = now \/ now' = now + 1)
    BY ClockStep, DurationsAssumption DEF TypeOK, Time, Tick
  <2>2. now + 1 \in Nat /\ now + 1 >= now
    BY <2>1
  <2>3. QED
    BY <2>1, <2>2
<1>1. /\ now \in Nat /\ now' \in Nat /\ now' >= now
      /\ \A s \in Sessions : /\ cacheUntil[s] \in Nat /\ cacheUntil'[s] \in Nat
                             /\ expires[s] \in Nat /\ expires'[s] \in Nat
                             /\ revokedAt[s] \in Nat /\ revokedAt'[s] \in Nat
      /\ \A p \in Lookups : look[p].at \in Nat /\ look'[p].at \in Nat
  BY <1>0, DurationsAssumption DEF TypeOK, Time, Deadline, LookupState
<1>2. ASSUME NEW s \in Sessions
      PROVE  cacheUntil'[s] <= expires'[s] /\ cacheUntil'[s] <= now' + TTL
  <2>1. CASE row[s] = "none"
    <3>1. cacheUntil'[s] = 0
      <4>1. ASSUME NEW p \in Lookups, LookupPut(p) PROVE Cookie[p] # s
        BY <2>1, <4>1 DEF LookupPut, AgeInv
      <4>2. QED
        BY <2>1, <4>1, CopyFrame DEF AgeInv
    <3>2. QED
      BY <1>0, <1>1, <3>1
  <2>2. CASE row[s] # "none"
    <3>1. expires'[s] = expires[s]
      BY <2>2, RowStable
    <3>2. QED
      BY <1>0, <1>1, <3>1, CopyFrame DEF CopyInv, AtMost
  <2>3. QED
    BY <2>1, <2>2
<1>3. ASSUME NEW p \in Lookups, NEW s, s = Cookie[p], look'[p].pc = "put",
             Dead(s)', now' <= expires'[s]
      PROVE  look'[p].at <= revokedAt'[s]
  <2>1. s \in Sessions /\ look'[p].at <= now'
    BY <1>3, DurationsAssumption DEF TypeOK, AgeInv
  <2>2. CASE revokedAt'[s] = now /\ now' = now
    BY <1>1, <2>1, <2>2
  <2>3. CASE now > expires[s] /\ now' = now /\ expires'[s] = expires[s]
    BY <1>1, <1>3, <2>1, <2>3
  <2>4. CASE Dead(s) /\ revokedAt'[s] = revokedAt[s]
    <3>1. expires'[s] = expires[s]
      BY <2>1, <2>4, RowStable DEF Dead
    <3>2. look'[p] = look[p]
      <4>1. ~LookupBegin(p)
        BY <1>3 DEF LookupBegin, TypeOK
      <4>2. ~RowLive(s, look[p].at)
        BY <2>4 DEF RowLive, Dead
      <4>3. ~LookupStep(p)
        BY <1>3, <4>2 DEF LookupStep, LookupHit, LookupMiss, LookupRead,
           LookupReadFails, LookupPut, LookupTouch, LookupTouchFails, Go, Answer,
           TypeOK
      <4>4. QED
        BY <4>1, <4>3, LookupFrame
    <3>3. now <= expires[s]
      BY <1>1, <1>3, <2>1, <3>1
    <3>4. QED
      BY <1>3, <2>4, <3>2, <3>3 DEF CopyInv
  <2>5. QED
    BY <1>3, <2>1, <2>2, <2>3, <2>4, DeathStep
<1>4. ASSUME NEW s \in Sessions, Dead(s)', now' <= expires'[s]
      PROVE  cacheUntil'[s] <= revokedAt'[s] + Lag + TTL
  <2>1. cacheUntil'[s] <= now' + TTL
    BY <1>2
  <2>2. CASE revokedAt'[s] = now /\ now' = now
    BY <1>1, <2>1, <2>2
  <2>3. CASE now > expires[s] /\ now' = now /\ expires'[s] = expires[s]
    BY <1>1, <1>4, <2>3
  <2>4. CASE Dead(s) /\ revokedAt'[s] = revokedAt[s]
    <3>1. expires'[s] = expires[s]
      BY <2>4, RowStable DEF Dead
    <3>2. now <= expires[s]
      BY <1>1, <1>4, <3>1
    <3>3. cacheUntil[s] <= revokedAt[s] + Lag + TTL
      BY <2>4, <3>2 DEF CopyInv
    <3>4. ASSUME NEW p \in Lookups, Cookie[p] = s, LookupPut(p)
          PROVE  now + TTL <= revokedAt[s] + Lag + TTL
      <4>1. look[p].at <= revokedAt[s] /\ now <= look[p].at + Lag
        BY <2>4, <3>2, <3>4 DEF CopyInv, AgeInv, LookupPut
      <4>2. QED
        BY <1>1, <4>1
    <3>5. QED
      BY <1>1, <2>4, <3>3, <3>4, CopyFrame DEF AtMost
  <2>5. QED
    BY <1>4, <2>2, <2>3, <2>4, DeathStep
<1>5. QED
  BY <1>2, <1>3, <1>4 DEF CopyInv

\* However late a lookup populates the cache, and whether or not any of the
\* invalidations happens: a session that was revoked is in the cache for no
\* longer than one request and one TTL.
THEOREM LostInvalidationIsBounded == Spec => []StalenessBounded
<1>1. Init => StaleInv
  <2> SUFFICES ASSUME Init PROVE StaleInv
    OBVIOUS
  <2>1. TypeOK
    BY TypeInit
  <2>2. QED
    BY <2>1, DurationsAssumption
    DEF Init, StaleInv, AgeInv, CopyInv, NoLookup, Dead
<1>2. RevocationInv /\ StaleInv /\ [Next]_vars => StaleInv'
  BY TypeStep, AgeStep, CopyStep DEF StaleInv
<1>3. StaleInv => StalenessBounded
  <2> SUFFICES ASSUME StaleInv, NEW s \in Sessions, Dead(s), Cached(s)
               PROVE  now < AtMost(expires[s], revokedAt[s] + Lag + TTL)
    BY DEF StalenessBounded, Dead
  <2>1. /\ now \in Nat /\ cacheUntil[s] \in Nat /\ expires[s] \in Nat
        /\ revokedAt[s] \in Nat
    BY DurationsAssumption DEF StaleInv, TypeOK, Time, Deadline
  <2>2. now < cacheUntil[s] /\ cacheUntil[s] <= expires[s]
    BY DEF Cached, StaleInv, CopyInv
  <2>3. cacheUntil[s] <= revokedAt[s] + Lag + TTL
    BY <2>1, <2>2 DEF StaleInv, CopyInv
  <2>4. QED
    BY <2>1, <2>2, <2>3, DurationsAssumption DEF AtMost
<1>4. QED
  BY <1>1, <1>2, <1>3, RevocationInvariant, PTL DEF Spec

-----------------------------------------------------------------------------
(* The idle timeout                                                         *)

\* The last use of a session grows: at its creation, and with every request
\* that finds it in the cache or in the database.
LEMMA UseStep ==
    ASSUME RevocationInv, IdleInv, [Next]_vars, NEW s \in Sessions
    PROVE  /\ lastUse[s] <= lastUse'[s] /\ lastUse'[s] <= now'
           /\ row[s] # "none" /\ Idle > 0 => lastUse'[s] <= lastUse[s] + Idle
<1> USE DurationsAssumption DEF RevocationInv, IdleInv
<1>1. /\ now \in Nat /\ lastUse[s] \in Nat /\ lastUse[s] <= now
      /\ cacheSeen[s] \in Nat /\ seen[s] \in Nat
      /\ seen[s] <= lastUse[s] /\ cacheSeen[s] <= lastUse[s]
  BY DEF TypeOK, Time, ActivityInv
<1>2. CASE lastUse'[s] = lastUse[s]
  BY <1>1, <1>2, ClockStep DEF Tick
<1>3. CASE Create(s)
  BY <1>1, <1>3 DEF Create, TypeOK
<1>4. ASSUME NEW p \in Lookups, LookupHit(p) \/ LookupRead(p), Cookie[p] = s,
             lastUse'[s] # lastUse[s]
      PROVE  /\ lastUse[s] <= lastUse'[s] /\ lastUse'[s] <= now'
             /\ row[s] # "none" /\ Idle > 0 => lastUse'[s] <= lastUse[s] + Idle
  <2>1. look[p].at \in Nat /\ look[p].at <= now /\ now' = now
    BY <1>4 DEF LookupHit, LookupRead, AgeInv, TypeOK, LookupState, Time
  <2>2. lastUse'[s] = AtLeast(lastUse[s], look[p].at)
    BY <1>4 DEF LookupHit, LookupRead, Used, TypeOK
  <2>3. ~ExpiredIdle(cacheSeen[s], look[p].at) \/ ~ExpiredIdle(seen[s], look[p].at)
    BY <1>4 DEF LookupHit, LookupRead
  <2>4. QED
    BY <1>1, <2>1, <2>2, <2>3 DEF ExpiredIdle, AtLeast
<1>5. QED
  <2>1. ASSUME NEW t \in Sessions \ {s}, Create(t) PROVE lastUse'[s] = lastUse[s]
    BY <2>1 DEF Create, TypeOK
  <2>2. ASSUME NEW p \in Lookups, Cookie[p] # s, LookupHit(p) \/ LookupRead(p)
        PROVE  lastUse'[s] = lastUse[s]
    BY <2>2 DEF LookupHit, LookupRead, Used, TypeOK
  <2>3. QED
    BY <1>2, <1>3, <1>4, <2>1, <2>2 DEF Next, vars, Tick, Sweep, LookupBegin,
       LookupStep, LookupMiss, LookupReadFails, LookupPut, LookupTouch,
       LookupTouchFails, RevokeOne, RevokeOwned, RevokeMany, RevokerStep,
       Invalidate, InvalidateFails, Invalidated, RevokeReturn, RevokerCrash,
       OrgBegin, OrgStep, OrgInvalidate, OrgCommit, OrgRollback

\* The activity in the row is that of its creation or of a lookup touching it.
LEMMA SeenFrame ==
    ASSUME TypeOK, [Next]_vars, NEW s \in Sessions
    PROVE  \/ seen'[s] = seen[s]
           \/ seen'[s] = now /\ lastUse'[s] = now
           \/ \E p \in Lookups : /\ Cookie[p] = s /\ look[p].pc = "touch"
                                 /\ seen'[s] = look[p].at
<1> USE DEF TypeOK
<1>1. ASSUME NEW t \in Sessions, Create(t)
      PROVE  seen'[s] = seen[s] \/ (seen'[s] = now /\ lastUse'[s] = now)
  BY <1>1 DEF Create
<1>2. ASSUME NEW p \in Lookups, LookupTouch(p)
      PROVE  \/ seen'[s] = seen[s]
             \/ Cookie[p] = s /\ look[p].pc = "touch" /\ seen'[s] = look[p].at
  BY <1>2 DEF LookupTouch
<1>3. QED
  BY <1>1, <1>2 DEF Next, vars, rows, Tick, Sweep, LookupBegin, LookupStep,
     LookupHit, LookupMiss, LookupRead, LookupReadFails, LookupPut,
     LookupTouchFails, RevokeOne, RevokeOwned, RevokeMany, RevokerStep,
     Invalidate, InvalidateFails, Invalidated, RevokeReturn, RevokerCrash,
     OrgBegin, OrgStep, OrgInvalidate, OrgCommit, OrgRollback

\* No recorded activity gets ahead of the last use.
LEMMA ActivityStep ==
    ASSUME RevocationInv, IdleInv, [Next]_vars
    PROVE  ActivityInv'
<1> USE DurationsAssumption DEF RevocationInv, IdleInv
<1> TypeOK'
  BY TypeStep
<1>1. \A s \in Sessions : /\ lastUse[s] \in Nat /\ lastUse'[s] \in Nat
                          /\ seen[s] \in Nat /\ cacheSeen[s] \in Nat
  BY DEF TypeOK, Time
<1>2. \A p \in Lookups : /\ Cookie[p] \in Sessions
                         /\ look[p].at \in Nat /\ look[p].seen \in Nat
  BY DEF TypeOK, LookupState, Time
<1>3. ASSUME NEW s \in Sessions
      PROVE  /\ lastUse'[s] <= now' /\ seen'[s] <= lastUse'[s]
             /\ cacheSeen'[s] <= lastUse'[s]
  <2>1. lastUse[s] <= lastUse'[s] /\ lastUse'[s] <= now'
    BY UseStep
  <2>2. seen'[s] <= lastUse'[s]
    BY <1>1, <1>2, <2>1, SeenFrame DEF ActivityInv
  <2>3. cacheSeen'[s] = cacheSeen[s]
        \/ \E p \in Lookups : /\ Cookie[p] = s /\ LookupPut(p)
                              /\ cacheSeen'[s] \in {look[p].at, look[p].seen}
    BY CopyFrame
  <2>4. cacheSeen'[s] <= lastUse'[s]
    BY <1>1, <1>2, <2>1, <2>3 DEF ActivityInv, LookupPut
  <2>5. QED
    BY <2>1, <2>2, <2>4
<1>4. ASSUME NEW p \in Lookups, look'[p].pc \in {"put", "touch"}
      PROVE  /\ look'[p].at <= lastUse'[Cookie[p]]
             /\ look'[p].seen <= lastUse'[Cookie[p]]
  <2> DEFINE s == Cookie[p]
  <2>1. lastUse[s] <= lastUse'[s]
    BY <1>2, UseStep
  <2>2. CASE look'[p] = look[p]
    BY <1>1, <1>2, <1>4, <2>1, <2>2 DEF ActivityInv
  <2>3. CASE LookupPut(p)
    <3>1. /\ look'[p].at = look[p].at /\ look'[p].seen = 0
          /\ look[p].pc = "put"
      BY <1>4, <2>3 DEF LookupPut, Go, Answer, TypeOK
    <3>2. QED
      BY <1>1, <1>2, <2>1, <3>1 DEF ActivityInv
  <2>4. CASE LookupHit(p) \/ LookupRead(p)
    <3>1. /\ look'[p].at = look[p].at
          /\ look'[p].seen = 0 \/ look'[p].seen = seen[s]
          /\ lastUse'[s] = AtLeast(lastUse[s], look[p].at)
      BY <1>4, <2>4 DEF LookupHit, LookupRead, Go, Answer, Used, TypeOK
    <3>2. seen[s] <= lastUse[s]
      BY <1>2 DEF ActivityInv
    <3>3. QED
      BY <1>1, <1>2, <3>1, <3>2 DEF AtLeast
  <2>5. QED
    <3>1. CASE LookupBegin(p)
      BY <1>4, <3>1 DEF LookupBegin, TypeOK
    <3>2. CASE LookupStep(p)
      BY <1>4, <2>3, <2>4, <3>2 DEF LookupStep, LookupMiss, LookupReadFails,
         LookupTouch, LookupTouchFails, Go, Answer, TypeOK
    <3>3. QED
      BY <2>2, <3>1, <3>2, LookupFrame
<1>5. QED
  BY <1>3, <1>4 DEF ActivityInv

\* Whatever the order in which touches and late copies are written, a session
\* that went unused for longer than the idle timeout is never served again.
THEOREM IdleSessionsStayIdle == Spec => IdleIsFinal
<1> DEFINE Timely == \A s \in Sessions :
                        row[s] # "none" /\ lastUse'[s] # lastUse[s] /\ Idle > 0 =>
                           lastUse'[s] <= lastUse[s] + Idle
<1>1. Init => IdleInv
  <2> SUFFICES ASSUME Init PROVE IdleInv
    OBVIOUS
  <2>1. TypeOK
    BY TypeInit
  <2>2. QED
    BY <2>1 DEF Init, IdleInv, AgeInv, ActivityInv, NoLookup
<1>2. RevocationInv /\ IdleInv /\ [Next]_vars => IdleInv'
  BY TypeStep, AgeStep, ActivityStep DEF IdleInv
<1>3. RevocationInv /\ IdleInv /\ [Next]_vars => [Timely]_lastUse
  BY UseStep
<1>4. QED
  BY <1>1, <1>2, <1>3, RevocationInvariant, PTL DEF Spec, IdleIsFinal

-----------------------------------------------------------------------------
(* The refinement                                                           *)

\* Beginning a lookup is the abstract Ask; every intermediate round trip is a
\* stutter; an answer is the abstract Reply, which may serve only a request
\* that is not late.
LEMMA LookupRefines ==
    ASSUME RevocationInv, RevocationInv', NEW p \in Lookups,
           LookupBegin(p) \/ LookupStep(p)
    PROVE  Authority!Ask(p) \/ Authority!Reply(p) \/ UNCHANGED Authority!vars
<1> USE DEF RevocationInv, TypeOK
<1> DEFINE asked(q) == IF look[q].pc = "idle" THEN "none"
                       ELSE IF q \in late THEN "ended" ELSE "open"
           answer(q) == IF look[q].verdict \in {"none", "served"}
                        THEN look[q].verdict ELSE "denied"
<1>1. CASE LookupBegin(p)
  <2>1. /\ look[p].pc = "idle" /\ ended' = ended
        /\ look' = [look EXCEPT ![p] = [pc |-> "get", verdict |-> "none",
                                        at |-> now, seen |-> 0]]
        /\ late' = IF Cookie[p] \in ended THEN late \cup {p} ELSE late \ {p}
    BY <1>1 DEF LookupBegin
  <2>2. /\ asked(p) = "none"
        /\ asked(p)' = IF Cookie[p] \in ended THEN "ended" ELSE "open"
        /\ answer(p)' = "none"
        /\ \A q \in Lookups \ {p} : asked(q)' = asked(q) /\ answer(q)' = answer(q)
    BY <2>1
  <2>3. Authority!Ask(p)
    BY <2>1, <2>2 DEF Authority!Ask
  <2>4. QED
    BY <2>3
<1>2. CASE LookupStep(p)
  <2>1. /\ ended' = ended /\ late' = late
        /\ look[p].pc # "idle" /\ look[p].verdict = "none"
        /\ \A q \in Lookups \ {p} : look'[q] = look[q]
    BY <1>2 DEF LookupStep, LookupHit, LookupMiss, LookupRead, LookupReadFails,
       LookupPut, LookupTouch, LookupTouchFails, Go, Answer, ProgressInv
  <2>2. \A q \in Lookups \ {p} : asked(q)' = asked(q) /\ answer(q)' = answer(q)
    BY <2>1
  <2>3. CASE look'[p].pc # "idle"
    <3>1. look'[p].verdict = "none"
      BY <2>3 DEF ProgressInv
    <3>2. asked(p)' = asked(p) /\ answer(p)' = answer(p)
      BY <2>1, <2>3, <3>1
    <3>3. UNCHANGED Authority!vars
      BY <2>1, <2>2, <3>2 DEF Authority!vars
    <3>4. QED
      BY <3>3
  <2>4. CASE look'[p].pc = "idle"
    <3>1. asked(p) # "none" /\ asked(p)' = "none" /\ answer(p) = "none"
      BY <2>1, <2>4
    <3>2. look'[p].verdict # "none"
      BY <1>2, <2>4 DEF LookupStep, LookupHit, LookupMiss, LookupRead,
         LookupReadFails, LookupPut, LookupTouch, LookupTouchFails, Go, Answer
    <3>3. look'[p].verdict = "served" => asked(p) = "open"
      BY <2>1 DEF LateInv
    <3>4. answer(p)' = "denied" \/ (asked(p) = "open" /\ answer(p)' = "served")
      BY <3>2, <3>3
    <3>5. Authority!Reply(p)
      BY <2>1, <2>2, <3>1, <3>4 DEF Authority!Reply
    <3>6. QED
      BY <3>5
  <2>5. QED
    BY <2>3, <2>4
<1>3. QED
  BY <1>1, <1>2

\* Every other step ends some sessions for good, or stutters.
LEMMA OthersRefine ==
    ASSUME RevocationInv, [Next]_vars, look' = look, late' = late
    PROVE  \/ \E S \in SUBSET Sessions : Authority!End(S)
           \/ UNCHANGED Authority!vars
<1> USE DEF RevocationInv, TypeOK
<1>1. \/ ended' = ended
      \/ \E S \in SUBSET Sessions : ended' = ended \cup S
  BY DEF Next, vars, Tick, Create, Sweep, LookupBegin, LookupStep, LookupHit,
     LookupMiss, LookupRead, LookupReadFails, LookupPut, LookupTouch,
     LookupTouchFails, RevokeOne, RevokeOwned, RevokeMany, RevokerStep,
     Invalidate, InvalidateFails, Invalidated, RevokeReturn, RevokerCrash,
     OrgBegin, OrgStep, OrgInvalidate, OrgCommit, OrgRollback,
     RevocationState, OrgState
<1>2. QED
  BY <1>1 DEF Authority!End, Authority!vars

\* SessionCache implements SessionAuthority: the abstract promise holds of the
\* rows, the copies, the tombstones and every interleaving of their readers and
\* writers.
THEOREM CacheImplementsAuthority == Spec => ImplementsAuthority
<1>1. Init => Authority!Init
  BY DEF Init, Authority!Init, NoLookup
<1>2. RevocationInv /\ RevocationInv' /\ [Next]_vars
        => [Authority!Next]_(Authority!vars)
  <2> SUFFICES ASSUME RevocationInv, RevocationInv', [Next]_vars
               PROVE  Authority!Next \/ UNCHANGED Authority!vars
    OBVIOUS
  <2>1. CASE \E p \in Lookups : LookupBegin(p) \/ LookupStep(p)
    BY <2>1, LookupRefines DEF Authority!Next
  <2>2. CASE look' = look /\ late' = late
    BY <2>2, OthersRefine DEF Authority!Next
  <2>3. QED
    BY <2>1, <2>2 DEF Next, vars, Tick, Create, Sweep, RevokeOne, RevokeOwned,
       RevokeMany, RevokerStep, Invalidate, InvalidateFails, Invalidated,
       RevokeReturn, RevokerCrash, OrgBegin, OrgStep, OrgInvalidate, OrgCommit,
       OrgRollback
<1>3. QED
  BY <1>1, <1>2, RevocationInvariant, PTL
  DEF Spec, ImplementsAuthority, Authority!Spec
=============================================================================
