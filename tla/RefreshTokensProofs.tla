------------------------- MODULE RefreshTokensProofs -------------------------
(***************************************************************************)
(* Theorems about RefreshTokens for every number of requests and tokens,   *)
(* every lifetime, grace and retention.                                    *)
(***************************************************************************)
EXTENDS RefreshTokens, TLAPS

\* The initial state is well typed.
LEMMA TypeInit == Init => TypeOK
<1>1. /\ 0 \in Time /\ 0 \in Deadline /\ 0 \in 0..MaxTokens
      /\ Never \in 0..Never
  BY LifetimesAssumption DEF Time, Deadline, Never
<1>2. NoAsk \in AskState /\ NoRequest \in RequestState
  BY <1>1 DEF NoAsk, AskState, NoRequest, RequestState
<1>3. QED
  BY <1>1, <1>2 DEF Init, TypeOK

\* A row inserted for a well-typed expiry keeps the table well typed.
LEMMA InsertTyped ==
    ASSUME TypeOK, NEW p \in 0..MaxTokens, NEW u \in Deadline, NEW f \in Deadline,
           count < MaxTokens, Insert(p, u, f)
    PROVE  /\ count' \in 0..MaxTokens /\ rows' \in SUBSET Tokens
           /\ made' \in [Tokens -> Time]
           /\ expires' \in [Tokens -> Deadline]
           /\ famExpires' \in [Tokens -> Deadline]
           /\ parent' \in [Tokens -> 0..MaxTokens]
BY LifetimesAssumption DEF TypeOK, Insert, Tokens

\* Moving a request on keeps requests well typed.
LEMMA GoTyped ==
    ASSUME TypeOK, NEW q \in Requests, NEW pc, NEW supersede \in 0..MaxTokens,
           NEW linked \in {"no", "yes"},
           pc \in {"idle", "lineage", "kill", "lookup", "session", "rotate",
                   "resolve", "destroy"},
           Go(q, pc, supersede, linked)
    PROVE  req' \in [Requests -> RequestState]
BY LifetimesAssumption DEF TypeOK, Go, RequestState

\* Refusing a request keeps requests well typed.
LEMMA RefuseTyped ==
    ASSUME TypeOK, NEW q \in Requests, Refuse(q)
    PROVE  /\ req' \in [Requests -> RequestState]
           /\ ask' \in [Requests -> AskState]
<1>1. req' \in [Requests -> RequestState]
  BY GoTyped, LifetimesAssumption DEF Refuse
<1>2. NoAsk \in AskState
  BY LifetimesAssumption DEF NoAsk, AskState, Time
<1>3. QED
  BY <1>1, <1>2 DEF Refuse, TypeOK

\* A whole revocation keeps the table and the history well typed.
LEMMA RevokeTyped ==
    ASSUME TypeOK, NEW by \in {"asked", "reuse"}, RevokeRows(by)
    PROVE  /\ revoked' \in SUBSET Tokens
           /\ killed' \in {"no", "asked", "reuse"} /\ raced' \in {"no", "yes"}
BY DEF TypeOK, RevokeRows, history

\* One step of the system keeps the state well typed.
LEMMA TypeStep ==
    ASSUME TypeOK, [Next]_vars
    PROVE  TypeOK'
<1> USE LifetimesAssumption DEF TypeOK, tokens, browser, history, holders
<1>1. CASE Tick
  BY <1>1 DEF Tick, Time
<1>2. CASE Issue
  <2>1. now + Life \in Deadline /\ now + FamilyLife \in Deadline
    BY DEF Time, Deadline
  <2>2. 0 \in 0..MaxTokens /\ count < MaxTokens
    BY <1>2 DEF Issue
  <2>3. QED
    BY <1>2, <2>1, <2>2, InsertTyped DEF Issue
<1>3. ASSUME NEW q \in Requests, NEW t \in Tokens, NEW pc \in {"lineage", "resolve"},
             Arrive(q, t, pc)
      PROVE  req' \in [Requests -> RequestState] /\ ask' \in [Requests -> AskState]
  BY <1>3 DEF Arrive, RequestState, AskState, Tokens
<1>4. ASSUME NEW q \in Requests, NEW t \in Tokens, Present(q, t) PROVE TypeOK'
  BY <1>3, <1>4 DEF Present, Time, Never
<1>5. ASSUME NEW q \in Requests, NEW t \in Tokens, PresentForRevocation(q, t)
      PROVE  TypeOK'
  BY <1>3, <1>5 DEF PresentForRevocation
<1>6. ASSUME NEW q \in Requests, DetectReuse(q) PROVE TypeOK'
  <2>1. CASE Refuse(q)
    BY <1>6, <2>1, RefuseTyped DEF DetectReuse
  <2>2. CASE Proceed(q, "lookup", 0, "no") \/ Proceed(q, "kill", 0, "no")
    BY <1>6, <2>2, GoTyped DEF DetectReuse, Proceed
  <2>3. CASE ask[q].tok \in rows /\ Proceed(q, "lookup", next[ask[q].tok], "no")
    BY <1>6, <2>3, GoTyped DEF DetectReuse, Proceed
  <2>4. QED
    BY <1>6, <2>1, <2>2, <2>3 DEF DetectReuse, Rotated
<1>7. ASSUME NEW q \in Requests, KillFamily(q) \/ Destroy(q) PROVE TypeOK'
  <2>1. Refuse(q)
    BY <1>7 DEF KillFamily, Destroy
  <2>2. /\ revoked' \in SUBSET Tokens
        /\ killed' \in {"no", "asked", "reuse"} /\ raced' \in {"no", "yes"}
    BY <1>7, RevokeTyped DEF KillFamily, Destroy
  <2>3. QED
    BY <1>7, <2>1, <2>2, RefuseTyped DEF KillFamily, Destroy
<1>8. ASSUME NEW q \in Requests, Lookup(q) PROVE TypeOK'
  <2>1. req[q].supersede \in 0..MaxTokens
    BY DEF RequestState
  <2>2. QED
    BY <1>8, <2>1, RefuseTyped, GoTyped DEF Lookup, Proceed
<1>9. ASSUME NEW q \in Requests, CheckSession(q) PROVE TypeOK'
  <2>1. req[q].supersede \in 0..MaxTokens /\ req[q].linked \in {"no", "yes"}
    BY DEF RequestState
  <2>2. QED
    BY <1>9, <2>1, RefuseTyped, GoTyped DEF CheckSession, Proceed
<1>10. ASSUME NEW q \in Requests, RefuseOtherwise(q) \/ RotateLoses(q) PROVE TypeOK'
  BY <1>10, RefuseTyped DEF RefuseOtherwise, RotateLoses
<1>11. ASSUME NEW q \in Requests, Resolve(q) PROVE TypeOK'
  BY <1>11, RefuseTyped, GoTyped DEF Resolve, Proceed
<1>12. ASSUME NEW q \in Requests, Rotate(q) PROVE TypeOK'
  <2> DEFINE t == ask[q].tok
             f == famExpires[t]
             u == AtMost(ask[q].at + Life, f)
  <2>1. t \in Tokens /\ t \in 0..MaxTokens /\ ask[q].at \in Nat
    BY <1>12 DEF Rotate, AskState, Time
  <2>2. f \in Deadline
    BY <2>1
  <2>3. u \in Deadline
    BY <2>1, <2>2 DEF AtMost, Deadline
  <2>4. count < MaxTokens /\ Insert(t, u, f)
    BY <1>12 DEF Rotate, FamilyExpiry
  <2>5. /\ count' \in 0..MaxTokens /\ rows' \in SUBSET Tokens
        /\ made' \in [Tokens -> Time]
        /\ expires' \in [Tokens -> Deadline]
        /\ famExpires' \in [Tokens -> Deadline]
        /\ parent' \in [Tokens -> 0..MaxTokens]
    BY <2>1, <2>2, <2>3, <2>4, InsertTyped
  <2>6. revoked' \in SUBSET Tokens
    <3>1. req[q].supersede \in 0..MaxTokens
      BY DEF RequestState
    <3>2. Superseded(q) \in SUBSET Tokens
      BY <3>1 DEF Superseded, Tokens
    <3>3. revoked' = revoked \cup Superseded(q)
      BY <1>12 DEF Rotate
    <3>4. QED
      BY <3>2, <3>3
  <2>7. count + 1 \in 0..MaxTokens
    BY <2>4
  <2>8. next' \in [Tokens -> 0..MaxTokens]
    BY <1>12, <2>7 DEF Rotate
  <2>9. req' \in [Requests -> RequestState]
    BY <1>12, <2>7 DEF Rotate, RequestState
  <2>10. QED
    BY <1>12, <2>5, <2>6, <2>8, <2>9 DEF Rotate
<1>13. ASSUME NEW q \in Requests, Receive(q) PROVE TypeOK'
  BY <1>13 DEF Receive, RequestState, Never, Time
<1>14. CASE Leak
  BY <1>14 DEF Leak, Never, Time
<1>15. CASE RevokeByAccessToken
  BY <1>15, RevokeTyped DEF RevokeByAccessToken
<1>16. CASE Logout
  BY <1>16 DEF Logout, EndSession, Never, Time
<1>17. CASE EndSessionAndTokens
  BY <1>17, RevokeTyped DEF EndSessionAndTokens, EndSession, Never, Time
<1>18. CASE SweepSession
  BY <1>18 DEF SweepSession
<1>19. ASSUME NEW t \in Tokens, SweepToken(t) PROVE TypeOK'
  BY <1>19 DEF SweepToken
<1>20. CASE UNCHANGED vars
  BY <1>20 DEF vars
<1>21. QED
  BY <1>1, <1>2, <1>4, <1>5, <1>6, <1>7, <1>8, <1>9, <1>10, <1>11, <1>12,
     <1>13, <1>14, <1>15, <1>16, <1>17, <1>18, <1>19, <1>20
     DEF Next, RequestStep, RefreshStep

\* The state of the model stays well typed: no request is left in a state the
\* token endpoint does not have, and no row claims a lifetime past the longest.
THEOREM TypeCorrect == Spec => []TypeOK
<1>1. TypeOK /\ [Next]_vars => TypeOK'
  BY TypeStep
<1>2. QED
  BY <1>1, TypeInit, PTL DEF Spec

-----------------------------------------------------------------------------
(* The parts of the inductive invariant                                     *)

\* Rows, links and questions stay about tokens that have been issued.
LEMMA RowsStep ==
    ASSUME TypeOK, RowsInv, [Next]_vars
    PROVE  RowsInv'
<1> USE DEF RowsInv, tokens, browser, history, holders
<1>1. /\ count \in Nat /\ Tokens \subseteq Nat
      /\ next \in [Tokens -> Nat] /\ parent \in [Tokens -> Nat]
      /\ ask \in [Requests -> AskState] /\ req \in [Requests -> RequestState]
      /\ \A q \in Requests : ask[q].tok \in Nat /\ req[q].supersede \in Nat
  BY LifetimesAssumption DEF TypeOK, AskState, RequestState, Tokens
<1>2. CASE Issue
  <2>1. /\ count = 0 /\ count' = 1 /\ rows' = rows \cup {1}
        /\ parent' = [parent EXCEPT ![1] = 0]
        /\ UNCHANGED <<next, revoked, ask, req, killed>>
    BY <1>2 DEF Issue, Insert
  <2>2. QED
    BY <1>1, <2>1
<1>3. ASSUME NEW q \in Requests, NEW t \in Tokens,
             Present(q, t) \/ PresentForRevocation(q, t)
      PROVE  RowsInv'
  <2>1. PICK pc : Arrive(q, t, pc)
    BY <1>3 DEF Present, PresentForRevocation
  <2>2. \A p \in Requests : ask'[p].tok <= count /\ req'[p].supersede <= count
    BY <1>1, <2>1 DEF Arrive
  <2>3. UNCHANGED <<count, rows, revoked, next, parent, killed>>
    BY <1>3 DEF Present, PresentForRevocation
  <2>4. QED
    BY <2>2, <2>3
<1>4. ASSUME NEW q \in Requests, Refuse(q),
             UNCHANGED <<count, rows, revoked, next, parent, killed>>
      PROVE  RowsInv'
  BY <1>1, <1>4 DEF Refuse, Go, NoAsk
<1>5. ASSUME NEW q \in Requests, NEW pc, NEW supersede, NEW linked,
             Proceed(q, pc, supersede, linked), supersede <= count,
             UNCHANGED <<count, rows, revoked, next, parent, killed>>
      PROVE  RowsInv'
  BY <1>1, <1>5 DEF Proceed, Go
<1>6. ASSUME NEW by, RevokeRows(by), UNCHANGED <<count, rows, next, parent, ask, req>>
      PROVE  RowsInv'
  BY <1>1, <1>6 DEF RevokeRows
<1>7. ASSUME NEW q \in Requests, KillFamily(q) \/ Destroy(q) PROVE RowsInv'
  <2>1. Refuse(q) /\ UNCHANGED <<count, rows, next, parent>>
    BY <1>7 DEF KillFamily, Destroy
  <2>2. CASE UNCHANGED <<revoked, history>>
    BY <1>4, <2>1, <2>2
  <2>3. ASSUME NEW by, RevokeRows(by) PROVE RowsInv'
    BY <1>1, <2>1, <2>3 DEF RevokeRows, Refuse, Go, NoAsk
  <2>4. QED
    BY <1>7, <2>2, <2>3 DEF KillFamily, Destroy
<1>8. ASSUME NEW q \in Requests,
             \/ DetectReuse(q) \/ Lookup(q) \/ CheckSession(q)
             \/ RefuseOtherwise(q) \/ RotateLoses(q) \/ Resolve(q)
      PROVE  RowsInv'
  <2>1. UNCHANGED <<count, rows, revoked, next, parent, killed>>
    BY <1>8 DEF DetectReuse, Lookup, CheckSession, RefuseOtherwise,
       RotateLoses, Resolve
  <2>2. \/ Refuse(q)
        \/ \E pc, linked : \/ Proceed(q, pc, 0, linked)
                           \/ Proceed(q, pc, req[q].supersede, linked)
                           \/ /\ ask[q].tok \in rows
                              /\ Proceed(q, pc, next[ask[q].tok], linked)
    BY <1>8 DEF DetectReuse, Rotated, Lookup, CheckSession, RefuseOtherwise,
       RotateLoses, Resolve
  <2>3. rows \subseteq Tokens
    BY DEF TypeOK
  <2>4. QED
    BY <1>1, <1>4, <1>5, <2>1, <2>2, <2>3
<1>9. ASSUME NEW q \in Requests, Rotate(q) PROVE RowsInv'
  <2>1. /\ ask[q].tok \in rows
        /\ count' = count + 1 /\ rows' = rows \cup {count + 1}
        /\ parent' = [parent EXCEPT ![count + 1] = ask[q].tok]
        /\ next' = [next EXCEPT ![ask[q].tok] = count + 1]
        /\ revoked' = revoked \cup Superseded(q)
        /\ req' = [req EXCEPT ![q] = [pc |-> "idle", supersede |-> 0,
                                      linked |-> "no", heir |-> count + 1]]
        /\ UNCHANGED <<ask, killed>>
    BY <1>9 DEF Rotate, Insert
  <2>2. Superseded(q) \subseteq 1..count
    <3>1. req[q].supersede \in Nat /\ req[q].supersede <= count
      BY <1>1
    <3>2. QED
      BY <1>1, <3>1 DEF Superseded
  <2>3. rows' \subseteq 1..count' /\ revoked' \subseteq 1..count'
    <3>1. 1..count \subseteq 1..(count + 1) /\ count + 1 \in 1..(count + 1)
      BY <1>1
    <3>2. QED
      BY <2>1, <2>2, <3>1
  <2>4. \A t \in Tokens : next'[t] <= count' /\ parent'[t] <= count'
    BY <1>1, <2>1
  <2>5. \A p \in Requests : ask'[p].tok <= count' /\ req'[p].supersede <= count'
    BY <1>1, <2>1
  <2>6. killed' # "no" => count' # 0
    BY <1>1, <2>1
  <2>7. QED
    BY <2>3, <2>4, <2>5, <2>6
<1>10. ASSUME NEW t \in Tokens, SweepToken(t) PROVE RowsInv'
  BY <1>1, <1>10 DEF SweepToken
<1>11. CASE RevokeByAccessToken \/ EndSessionAndTokens
  BY <1>6, <1>11 DEF RevokeByAccessToken, EndSessionAndTokens
<1>12. ASSUME UNCHANGED <<count, rows, revoked, next, parent, ask, req, killed>>
       PROVE  RowsInv'
  BY <1>12
<1>13. QED
  BY <1>2, <1>3, <1>7, <1>8, <1>9, <1>10, <1>11, <1>12
     DEF Next, RequestStep, RefreshStep, vars, Tick, Receive, Leak, Logout,
         SweepSession

\* However rotations of one token interleave, only the newest heir is not
\* revoked: an ordinary rotation finds the link null, so there was none, and a
\* retry revokes the heir the link pointed to.
LEMMA OneHeirStep ==
    ASSUME TypeOK, RowsInv, OneHeir, [Next]_vars
    PROVE  OneHeir'
<1> USE DEF OneHeir, tokens, browser, history, holders
<1>1. /\ count \in Nat /\ rows \subseteq 1..count /\ rows \subseteq Tokens
      /\ next \in [Tokens -> Nat] /\ parent \in [Tokens -> Nat]
  BY LifetimesAssumption DEF RowsInv, TypeOK, Tokens
<1>2. CASE Issue
  <2>1. /\ count = 0 /\ rows' = rows \cup {1}
        /\ parent' = [parent EXCEPT ![1] = 0]
    BY <1>2 DEF Issue, Insert
  <2>2. rows = {} /\ 1 \in Tokens
    BY <1>1, <2>1, LifetimesAssumption DEF Tokens
  <2>3. QED
    BY <1>1, <2>1, <2>2
<1>3. ASSUME NEW q \in Requests, Rotate(q) PROVE OneHeir'
  <2> DEFINE t == ask[q].tok
             n == count + 1
  <2>1. /\ t \in rows /\ t \in Tokens /\ n \in Tokens /\ t # n
        /\ next[t] = req[q].supersede
        /\ rows' = rows \cup {n}
        /\ parent' = [parent EXCEPT ![n] = t]
        /\ next' = [next EXCEPT ![t] = n]
        /\ revoked' = revoked \cup Superseded(q)
    <3>1. /\ t \in rows /\ next[t] = req[q].supersede /\ count < MaxTokens
          /\ rows' = rows \cup {n}
          /\ parent' = [parent EXCEPT ![n] = t]
          /\ next' = [next EXCEPT ![t] = n]
          /\ revoked' = revoked \cup Superseded(q)
      BY <1>3 DEF Rotate, Insert, LinkMoves
    <3>2. t \in Tokens /\ n \in Tokens /\ t # n
      BY <1>1, <3>1, LifetimesAssumption DEF Tokens
    <3>3. QED
      BY <3>1, <3>2
  <2>2. SUFFICES ASSUME NEW c \in rows' \ revoked', parent'[c] # 0,
                        parent'[c] \in rows'
                 PROVE  next'[parent'[c]] = c
    OBVIOUS
  <2>3. CASE c = n
    <3>1. parent'[c] = t
      BY <1>1, <2>1, <2>3
    <3>2. QED
      BY <1>1, <2>1, <2>3, <3>1
  <2>4. CASE c # n
    <3>1. /\ c \in rows \ revoked /\ c \in Tokens /\ c \in 1..count
          /\ parent'[c] = parent[c]
      BY <1>1, <2>1, <2>4
    <3>2. parent[c] # n /\ parent[c] \in rows
      BY <1>1, <2>1, <2>2, <3>1 DEF RowsInv
    <3>3. next[parent[c]] = c
      BY <2>2, <3>1, <3>2
    <3>4. parent[c] # t
      <4>1. SUFFICES ASSUME parent[c] = t PROVE FALSE
        OBVIOUS
      <4>2. req[q].supersede = c
        BY <2>1, <3>3, <4>1
      <4>3. c \in revoked'
        BY <1>1, <2>1, <3>1, <4>2 DEF Superseded
      <4>4. QED
        BY <4>3
    <3>5. QED
      BY <2>1, <3>1, <3>2, <3>3, <3>4
  <2>5. QED
    BY <2>3, <2>4
<1>4. ASSUME NEW t \in Tokens, SweepToken(t) PROVE OneHeir'
  BY <1>1, <1>4 DEF SweepToken
<1>5. ASSUME UNCHANGED <<rows, next, parent>>, revoked \subseteq revoked'
      PROVE  OneHeir'
  BY <1>5
<1>6. QED
  BY <1>2, <1>3, <1>4, <1>5
     DEF Next, RequestStep, RefreshStep, vars, Tick, Present,
         PresentForRevocation, DetectReuse, KillFamily, Lookup,
         CheckSession, RefuseOtherwise, RotateLoses, Resolve, Destroy, Receive,
         Leak, RevokeByAccessToken, Logout, EndSessionAndTokens, SweepSession,
         RevokeRows

-----------------------------------------------------------------------------
(* What a step can do to one request, one token and the session             *)

\* The ways in which a step moves a request: none, a refusal, an arrival, a
\* move short of its lookup's success, that success, that of the session check,
\* and its rotation.
LEMMA RequestMoves ==
    ASSUME TypeOK, [Next]_vars, NEW q \in Requests
    PROVE  \/ ask'[q] = ask[q] /\ req'[q] = req[q]
           \/ ask'[q] = NoAsk /\ req'[q] = NoRequest
           \/ /\ \E t, pc : Arrive(q, t, pc) /\ pc \in {"lineage", "resolve"}
              /\ UNCHANGED <<now, tokens, browser, history>>
           \/ ask'[q] = ask[q] /\ ~Racing(q)' /\ req'[q].heir = 0
           \/ /\ TokenLive(ask[q].tok, ask[q].at)
              /\ ask'[q] = ask[q]
              /\ req'[q] = [pc |-> "session", supersede |-> req[q].supersede,
                            linked |-> IF Linked THEN "yes" ELSE "no", heir |-> 0]
              /\ UNCHANGED <<tokens, browser, history>>
           \/ /\ req[q].pc = "session" /\ ask'[q] = ask[q]
              /\ req[q].linked = "yes" => SessionLive(ask[q].at)
              /\ req'[q] = [pc |-> "rotate", supersede |-> req[q].supersede,
                            linked |-> req[q].linked, heir |-> 0]
              /\ UNCHANGED <<tokens, browser, history>>
           \/ Rotate(q)
<1> DEFINE Moves(p) ==
      \/ ask'[q] = ask[q] /\ req'[q] = req[q]
      \/ ask'[q] = NoAsk /\ req'[q] = NoRequest
      \/ /\ \E t, pc : Arrive(q, t, pc) /\ pc \in {"lineage", "resolve"}
         /\ UNCHANGED <<now, tokens, browser, history>>
      \/ ask'[q] = ask[q] /\ ~Racing(q)' /\ req'[q].heir = 0
      \/ /\ TokenLive(ask[q].tok, ask[q].at)
         /\ ask'[q] = ask[q]
         /\ req'[q] = [pc |-> "session", supersede |-> req[q].supersede,
                       linked |-> IF Linked THEN "yes" ELSE "no", heir |-> 0]
         /\ UNCHANGED <<tokens, browser, history>>
      \/ /\ req[q].pc = "session" /\ ask'[q] = ask[q]
         /\ req[q].linked = "yes" => SessionLive(ask[q].at)
         /\ req'[q] = [pc |-> "rotate", supersede |-> req[q].supersede,
                       linked |-> req[q].linked, heir |-> 0]
         /\ UNCHANGED <<tokens, browser, history>>
      \/ Rotate(q)
<1>1. ask \in [Requests -> AskState] /\ req \in [Requests -> RequestState]
  BY DEF TypeOK
<1>2. ASSUME NEW p \in Requests, Refuse(p) PROVE Moves(q)
  BY <1>1, <1>2 DEF Refuse, Go, NoRequest
<1>3. ASSUME NEW p \in Requests, NEW t,
             Present(p, t) \/ PresentForRevocation(p, t)
      PROVE  Moves(q)
  <2>1. PICK pc \in {"lineage", "resolve"} : Arrive(p, t, pc)
    BY <1>3 DEF Present, PresentForRevocation
  <2>2. CASE p = q
    BY <1>3, <2>1, <2>2 DEF Present, PresentForRevocation
  <2>3. CASE p # q
    BY <1>1, <2>1, <2>3 DEF Arrive
  <2>4. QED
    BY <2>2, <2>3
<1>4. ASSUME NEW p \in Requests, NEW pc \in {"lookup", "kill", "destroy"},
             NEW supersede, NEW linked, Proceed(p, pc, supersede, linked)
      PROVE  Moves(q)
  BY <1>1, <1>4 DEF Proceed, Go, Racing
<1>5. ASSUME NEW p \in Requests, Lookup(p) PROVE Moves(q)
  BY <1>1, <1>2, <1>5 DEF Lookup, Proceed, Go
<1>6. ASSUME NEW p \in Requests, CheckSession(p) PROVE Moves(q)
  BY <1>1, <1>2, <1>6 DEF CheckSession, Proceed, Go
<1>7. ASSUME NEW p \in Requests, Rotate(p) PROVE Moves(q)
  BY <1>1, <1>7 DEF Rotate
<1>8. ASSUME NEW p \in Requests,
             \/ DetectReuse(p) \/ KillFamily(p) \/ RefuseOtherwise(p)
             \/ RotateLoses(p) \/ Resolve(p) \/ Destroy(p)
      PROVE  Moves(q)
  BY <1>2, <1>4, <1>8 DEF DetectReuse, KillFamily, RefuseOtherwise,
     RotateLoses, Resolve, Destroy
<1>9. ASSUME UNCHANGED <<ask, req>> PROVE Moves(q)
  BY <1>9
<1>10. Moves(q)
  BY <1>3, <1>5, <1>6, <1>7, <1>8, <1>9
  DEF Next, RequestStep, RefreshStep, vars, Tick, Issue, Receive, Leak,
      RevokeByAccessToken, Logout, EndSessionAndTokens, SweepSession,
      SweepToken
<1>11. QED
  BY <1>10

\* What a step can do to the rows: insert the next one, or mark and delete some.
LEMMA RowsMove ==
    ASSUME [Next]_vars
    PROVE  \/ Issue
           \/ \E q \in Requests : Rotate(q)
           \/ /\ UNCHANGED <<count, made, expires, famExpires>>
              /\ rows' \subseteq rows /\ revoked \subseteq revoked'
BY DEF Next, RequestStep, RefreshStep, vars, tokens, Tick, Present,
   PresentForRevocation, DetectReuse, KillFamily, Lookup,
   CheckSession, RefuseOtherwise, RotateLoses, Resolve, Destroy, Receive, Leak,
   RevokeByAccessToken, Logout, EndSessionAndTokens, SweepSession, SweepToken,
   RevokeRows

\* A token that is dead for a request stays dead for it.
LEMMA TokenStaysDead ==
    ASSUME TypeOK, RowsInv, [Next]_vars, NEW t \in Nat, t <= count, NEW at,
           TokenLive(t, at)'
    PROVE  TokenLive(t, at)
<1>1. count \in Nat /\ t # count + 1
  BY DEF TypeOK
<1>2. rows \subseteq Tokens /\ expires \in [Tokens -> Deadline]
      /\ famExpires \in [Tokens -> Deadline]
  BY DEF TypeOK
<1>3. CASE \E p, u, f : Insert(p, u, f) /\ revoked \subseteq revoked'
  BY <1>1, <1>2, <1>3 DEF TokenLive, Insert
<1>4. CASE Issue
  BY <1>3, <1>4 DEF Issue
<1>5. ASSUME NEW q \in Requests, Rotate(q) PROVE TokenLive(t, at)
  BY <1>3, <1>5 DEF Rotate
<1>6. CASE /\ UNCHANGED <<count, made, expires, famExpires>>
           /\ rows' \subseteq rows /\ revoked \subseteq revoked'
  BY <1>6 DEF TokenLive
<1>7. QED
  BY <1>4, <1>5, <1>6, RowsMove

\* A session that is over stays over, and one whose row is gone stays gone.
LEMMA SessionStaysOver ==
    ASSUME [Next]_vars, NEW at
    PROVE  /\ SessionLive(at)' => SessionLive(at)
           /\ session = "gone" => session' = "gone"
<1>1. session' = session \/ session = "live" \/ session' = "gone"
  BY DEF Next, RequestStep, RefreshStep, vars, browser, Tick, Issue, Present,
     PresentForRevocation, DetectReuse, KillFamily, Lookup,
     CheckSession, RefuseOtherwise, Rotate, RotateLoses, Resolve, Destroy,
     Receive, Leak, RevokeByAccessToken, Logout, EndSessionAndTokens,
     EndSession, SweepSession, SweepToken
<1>2. QED
  BY <1>1 DEF SessionLive

-----------------------------------------------------------------------------
(* The other parts of the inductive invariant                               *)

\* A family revoked as a whole while nothing raced stays revoked: no row is
\* left that a lookup returns, and only a request past its lookup inserts one.
LEMMA KillStep ==
    ASSUME TypeOK, RowsInv, KillInv, [Next]_vars
    PROVE  KillInv'
<1> USE DEF KillInv
<1>1. ASSUME UNCHANGED <<killed, raced>>, rows' \subseteq rows,
             revoked \subseteq revoked',
             \A p \in Requests : Racing(p)' => Racing(p)
      PROVE  KillInv'
  BY <1>1
<1>2. CASE Issue
  BY <1>2 DEF Issue, RowsInv, history
<1>3. ASSUME NEW by, RevokeRows(by), rows' = rows,
             \A p \in Requests : Racing(p)' => Racing(p)
      PROVE  KillInv'
  <2>1. CASE rows = {}
    BY <1>1, <1>3, <2>1 DEF RevokeRows, history
  <2>2. CASE rows # {}
    BY <1>3, <2>2 DEF RevokeRows
  <2>3. QED
    BY <2>1, <2>2
<1>4. ASSUME NEW q \in Requests, Refuse(q) PROVE \A p \in Requests : Racing(p)' => Racing(p)
  BY <1>4 DEF Refuse, Go, Racing, TypeOK
<1>5. ASSUME NEW q \in Requests, KillFamily(q) \/ Destroy(q) PROVE KillInv'
  BY <1>1, <1>3, <1>4, <1>5 DEF KillFamily, Destroy, history
<1>6. CASE RevokeByAccessToken \/ EndSessionAndTokens
  BY <1>3, <1>6 DEF RevokeByAccessToken, EndSessionAndTokens, Racing
<1>7. ASSUME NEW q \in Requests, NEW t,
             Present(q, t) \/ PresentForRevocation(q, t)
      PROVE  KillInv'
  <2>1. \A p \in Requests : Racing(p)' => Racing(p)
    BY <1>7 DEF Present, PresentForRevocation, Arrive, Racing, TypeOK
  <2>2. QED
    BY <1>1, <1>7, <2>1 DEF Present, PresentForRevocation, tokens, history
<1>8. ASSUME NEW q \in Requests, NEW pc \in {"lookup", "kill", "destroy"},
             NEW supersede, NEW linked, Proceed(q, pc, supersede, linked)
      PROVE  \A p \in Requests : Racing(p)' => Racing(p)
  BY <1>8 DEF Proceed, Go, Racing, TypeOK
<1>9. ASSUME NEW q \in Requests,
             \/ DetectReuse(q) \/ RefuseOtherwise(q)
             \/ RotateLoses(q) \/ Resolve(q)
      PROVE  KillInv'
  <2>1. \A p \in Requests : Racing(p)' => Racing(p)
    BY <1>4, <1>8, <1>9
    DEF DetectReuse, RefuseOtherwise, RotateLoses, Resolve
  <2>2. QED
    BY <1>1, <1>9, <2>1
    DEF DetectReuse, RefuseOtherwise, RotateLoses, Resolve, tokens,
        history
<1>10. ASSUME NEW q \in Requests, Lookup(q) PROVE KillInv'
  <2>1. CASE Refuse(q)
    BY <1>1, <1>4, <1>10, <2>1 DEF Lookup, tokens, history
  <2>2. CASE TokenLive(ask[q].tok, ask[q].at)
    <3>1. ~(rows \subseteq revoked)
      BY <2>2 DEF TokenLive
    <3>2. QED
      BY <1>10, <3>1 DEF Lookup, tokens, history
  <2>3. QED
    BY <1>10, <2>1, <2>2 DEF Lookup
<1>11. ASSUME NEW q \in Requests, CheckSession(q) \/ Rotate(q) PROVE KillInv'
  <2>1. Racing(q) /\ UNCHANGED <<killed, raced>>
    BY <1>11 DEF CheckSession, Rotate, Racing, history
  <2>2. QED
    BY <2>1
<1>12. ASSUME UNCHANGED <<killed, raced, req, revoked>>, rows' \subseteq rows
       PROVE  KillInv'
  BY <1>1, <1>12 DEF Racing
<1>13. QED
  BY <1>2, <1>5, <1>6, <1>7, <1>9, <1>10, <1>11, <1>12
     DEF Next, RequestStep, RefreshStep, vars, tokens, history, Tick, Receive,
         Leak, Logout, SweepSession, SweepToken

\* A request whose token was dead when it arrived does not pass its lookup.
LEMMA DeadStep ==
    ASSUME TypeOK, RowsInv, DeadInv, [Next]_vars
    PROVE  DeadInv'
<1>1. SUFFICES ASSUME NEW q \in Requests, ask'[q].dead = "yes"
               PROVE  /\ ~TokenLive(ask[q].tok, ask[q].at)'
                      /\ ~Racing(q)' /\ req'[q].heir = 0
  BY DEF DeadInv
<1>2. ASSUME ask'[q] = ask[q]
      PROVE  /\ ask[q].dead = "yes" /\ ~TokenLive(ask[q].tok, ask[q].at)
             /\ ~Racing(q) /\ req[q].heir = 0
             /\ ~TokenLive(ask[q].tok, ask[q].at)'
  <2>1. /\ ask[q].dead = "yes" /\ ~TokenLive(ask[q].tok, ask[q].at)
        /\ ~Racing(q) /\ req[q].heir = 0
    BY <1>1, <1>2 DEF DeadInv
  <2>2. ask[q].tok \in Nat /\ ask[q].tok <= count
    BY DEF TypeOK, AskState, RowsInv
  <2>3. PICK u, v : u = ask[q].tok /\ v = ask[q].at
    OBVIOUS
  <2>4. ~TokenLive(u, v)'
    BY <2>1, <2>2, <2>3, TokenStaysDead
  <2>5. QED
    BY <1>2, <2>1, <2>3, <2>4 DEF TokenLive
<1>3. CASE ask'[q] = ask[q] /\ req'[q] = req[q]
  BY <1>2, <1>3 DEF Racing
<1>4. CASE ask'[q] = NoAsk
  BY <1>1, <1>4 DEF NoAsk
<1>5. CASE /\ \E t, pc : Arrive(q, t, pc) /\ pc \in {"lineage", "resolve"}
           /\ UNCHANGED <<now, tokens, browser, history>>
  <2>1. PICK t, pc : Arrive(q, t, pc) /\ pc \in {"lineage", "resolve"}
    BY <1>5
  <2>2. /\ ask'[q].tok = t /\ ask'[q].at = now
        /\ ask'[q].dead = IF TokenLive(t, now) THEN "no" ELSE "yes"
        /\ req'[q].pc = pc /\ req'[q].heir = 0
    BY <2>1 DEF Arrive, TypeOK
  <2>3. ~TokenLive(t, now)
    BY <1>1, <2>2
  <2>4. QED
    BY <1>5, <2>1, <2>2, <2>3 DEF TokenLive, Racing, tokens
<1>6. CASE ask'[q] = ask[q] /\ ~Racing(q)' /\ req'[q].heir = 0
  BY <1>2, <1>6
<1>7. CASE TokenLive(ask[q].tok, ask[q].at) /\ ask'[q] = ask[q]
  BY <1>2, <1>7
<1>8. CASE req[q].pc = "session" /\ ask'[q] = ask[q]
  BY <1>2, <1>8 DEF Racing
<1>9. CASE Rotate(q)
  BY <1>2, <1>9 DEF Rotate, Racing
<1>10. QED
  BY <1>3, <1>4, <1>5, <1>6, <1>7, <1>8, <1>9, RequestMoves

\* Only a request that found its token without a session, because the session's
\* row was gone, passes the check of a session that is over.
LEMMA SessionStep ==
    ASSUME TypeOK, SessionInv, [Next]_vars
    PROVE  SessionInv'
<1> DEFINE Good(q) ==
      /\ Racing(q) /\ req[q].linked = "no" => session = "gone"
      /\ ask[q].session # "open" =>
            /\ ~SessionLive(ask[q].at)
            /\ req[q].pc = "rotate" => req[q].linked = "no"
            /\ req[q].heir # 0 => session = "gone"
<1>1. SUFFICES ASSUME NEW q \in Requests PROVE Good(q)'
  BY DEF SessionInv
<1>2. Good(q)
  BY DEF SessionInv
<1>3. session = "gone" => session' = "gone"
  BY SessionStaysOver
<1>4. ASSUME ask'[q] = ask[q] PROVE (~SessionLive(ask[q].at))' \/ SessionLive(ask[q].at)
  <2>1. PICK v : v = ask[q].at
    OBVIOUS
  <2>2. SessionLive(v)' => SessionLive(v)
    BY SessionStaysOver
  <2>3. QED
    BY <1>4, <2>1, <2>2 DEF SessionLive
<1>5. CASE ask'[q] = ask[q] /\ req'[q] = req[q]
  BY <1>2, <1>3, <1>4, <1>5 DEF Racing
<1>6. CASE ask'[q] = NoAsk /\ req'[q] = NoRequest
  BY <1>6 DEF NoAsk, NoRequest, Racing
<1>7. CASE /\ \E t, pc : Arrive(q, t, pc) /\ pc \in {"lineage", "resolve"}
           /\ UNCHANGED <<now, tokens, browser, history>>
  <2>1. PICK t, pc : Arrive(q, t, pc) /\ pc \in {"lineage", "resolve"}
    BY <1>7
  <2>2. /\ ask'[q].at = now /\ req'[q].pc = pc /\ req'[q].heir = 0
        /\ ask'[q].session # "open" => ~SessionLive(now)
    BY <2>1 DEF Arrive, TypeOK
  <2>3. QED
    BY <1>7, <2>1, <2>2 DEF SessionLive, Racing, browser
<1>8. CASE ask'[q] = ask[q] /\ ~Racing(q)' /\ req'[q].heir = 0
  BY <1>2, <1>4, <1>8 DEF Racing
<1>9. CASE /\ ask'[q] = ask[q]
           /\ req'[q] = [pc |-> "session", supersede |-> req[q].supersede,
                         linked |-> IF Linked THEN "yes" ELSE "no", heir |-> 0]
           /\ UNCHANGED <<tokens, browser, history>>
  BY <1>2, <1>4, <1>9 DEF Racing, Linked, browser
<1>10. CASE /\ req[q].pc = "session" /\ ask'[q] = ask[q]
            /\ req[q].linked = "yes" => SessionLive(ask[q].at)
            /\ req'[q] = [pc |-> "rotate", supersede |-> req[q].supersede,
                          linked |-> req[q].linked, heir |-> 0]
            /\ UNCHANGED <<tokens, browser, history>>
  <2>1. req[q].linked \in {"no", "yes"}
    BY DEF TypeOK, RequestState
  <2>2. QED
    BY <1>2, <1>4, <1>10, <2>1 DEF Racing, browser
<1>11. CASE Rotate(q)
  <2>1. /\ req[q].pc = "rotate" /\ ask'[q] = ask[q] /\ session' = session
        /\ req'[q].pc = "idle"
    BY <1>11 DEF Rotate, TypeOK, browser
  <2>2. QED
    BY <1>2, <1>4, <2>1 DEF Racing
<1>12. QED
  BY <1>5, <1>6, <1>7, <1>8, <1>9, <1>10, <1>11, RequestMoves

\* Every rotation inherits the expiry the family began with.
LEMMA AgeStep ==
    ASSUME TypeOK, RowsInv, AgeInv, [Next]_vars
    PROVE  AgeInv'
<1> USE DEF AgeInv, FamilyAgesOut
<1>1. /\ count \in 0..MaxTokens /\ rows \subseteq 1..count
      /\ made \in [Tokens -> Time] /\ famExpires \in [Tokens -> Deadline]
      /\ MaxTokens \in Nat \ {0}
  BY LifetimesAssumption DEF TypeOK, RowsInv
<1>2. CASE Issue
  <2>1. /\ count = 0 /\ rows' = rows \cup {1}
        /\ made' = [made EXCEPT ![1] = now] /\ count' = 1
        /\ famExpires' = [famExpires EXCEPT ![1] = now + FamilyLife]
        /\ UNCHANGED <<ask, req>>
    BY <1>2 DEF Issue, Insert
  <2>2. rows = {} /\ 1 \in Tokens
    BY <1>1, <2>1 DEF Tokens
  <2>3. \A t \in rows' : famExpires'[t] = made'[1] + FamilyLife
    BY <1>1, <2>1, <2>2
  <2>4. QED
    BY <2>1, <2>3
<1>3. ASSUME NEW q \in Requests, Rotate(q) PROVE AgeInv'
  <2> DEFINE t == ask[q].tok
  <2>1. /\ t \in rows /\ count < MaxTokens
        /\ famExpires[t] > ask[q].at
        /\ rows' = rows \cup {count + 1} /\ count' = count + 1
        /\ made' = [made EXCEPT ![count + 1] = now]
        /\ famExpires' = [famExpires EXCEPT ![count + 1] = famExpires[t]]
        /\ req' = [req EXCEPT ![q] = [pc |-> "idle", supersede |-> 0,
                                      linked |-> "no", heir |-> count + 1]]
        /\ UNCHANGED ask
    BY <1>3 DEF Rotate, Insert, FamilyExpiry
  <2>2. /\ count # 0 /\ count' # 0 /\ count + 1 \in Tokens /\ 1 \in Tokens
        /\ count + 1 # 1 /\ count + 1 \notin rows /\ t \in Tokens
    <3>1. count \in Nat /\ MaxTokens \in Nat
      BY <1>1
    <3>2. t \in 1..count /\ count < MaxTokens /\ count' = count + 1
      BY <1>1, <2>1
    <3>3. count + 1 \notin rows
      BY <1>1, <3>1
    <3>4. QED
      BY <3>1, <3>2, <3>3 DEF Tokens
  <2>3. made'[1] = made[1]
    BY <1>1, <2>1, <2>2
  <2>4. \A u \in rows' : famExpires'[u] = made'[1] + FamilyLife
    <3>1. \A u \in rows : famExpires[u] = made[1] + FamilyLife
      OBVIOUS
    <3>2. \A u \in rows : famExpires'[u] = famExpires[u]
      BY <1>1, <2>1, <2>2
    <3>3. famExpires'[count + 1] = famExpires[t]
      BY <1>1, <2>1, <2>2
    <3>4. QED
      BY <2>1, <2>3, <3>1, <3>2, <3>3
  <2>5. ask[q].at < made[1] + FamilyLife
    <3>1. famExpires[t] = made[1] + FamilyLife
      BY <2>1
    <3>2. famExpires[t] \in Nat /\ ask[q].at \in Nat
      BY <1>1, <2>2, LifetimesAssumption DEF TypeOK, AskState, Time, Deadline
    <3>3. QED
      BY <2>1, <3>1, <3>2
  <2>6. \A p \in Requests : req'[p].heir # 0 => ask'[p].at < made'[1] + FamilyLife
    <3>1. SUFFICES ASSUME NEW p \in Requests, req'[p].heir # 0
                   PROVE  ask'[p].at < made'[1] + FamilyLife
      OBVIOUS
    <3>2. CASE p = q
      BY <2>1, <2>3, <2>5, <3>2
    <3>3. CASE p # q
      BY <2>1, <2>3, <3>1, <3>3 DEF TypeOK
    <3>4. QED
      BY <3>2, <3>3
  <2>7. QED
    BY <2>2, <2>4, <2>6
<1>4. CASE /\ UNCHANGED <<count, made, expires, famExpires>>
           /\ rows' \subseteq rows /\ \A q \in Requests : ~Rotate(q)
  <2>1. SUFFICES ASSUME NEW q \in Requests, req'[q].heir # 0
                 PROVE  ask'[q].at < made[1] + FamilyLife /\ count # 0
    BY <1>4
  <2>2. ask'[q] = ask[q] /\ req'[q].heir = req[q].heir
    <3>1. CASE \E t, pc : Arrive(q, t, pc)
      BY <2>1, <3>1 DEF Arrive, TypeOK
    <3>2. CASE req'[q] = NoRequest
      BY <2>1, <3>2 DEF NoRequest
    <3>3. ASSUME NEW pc, NEW supersede, NEW linked,
                 req'[q] = [pc |-> pc, supersede |-> supersede,
                            linked |-> linked, heir |-> 0]
          PROVE  FALSE
      BY <2>1, <3>3
    <3>4. QED
      BY <1>4, <2>1, <3>1, <3>2, <3>3, RequestMoves
  <2>3. QED
    BY <2>1, <2>2
<1>5. QED
  BY <1>2, <1>3, <1>4, RowsMove

-----------------------------------------------------------------------------
(* A family with one holder                                                 *)

\* A link leads from an issued token to the one just minted, never to itself.
LEMMA LinkStep ==
    ASSUME TypeOK, RowsInv, LinkInv, [Next]_vars
    PROVE  LinkInv'
<1> USE DEF LinkInv, tokens
<1>1. /\ count \in Nat /\ Tokens \subseteq Nat /\ rows \subseteq 1..count
      /\ next \in [Tokens -> Nat]
  BY LifetimesAssumption DEF TypeOK, RowsInv, Tokens
<1>2. CASE Issue
  BY <1>1, <1>2 DEF Issue, Insert
<1>3. ASSUME NEW q \in Requests, Rotate(q) PROVE LinkInv'
  <2>1. /\ ask[q].tok \in rows /\ count' = count + 1
        /\ next' = [next EXCEPT ![ask[q].tok] = count + 1]
    BY <1>3 DEF Rotate, Insert
  <2>2. QED
    BY <1>1, <2>1
<1>4. ASSUME NEW t \in Tokens, SweepToken(t) PROVE LinkInv'
  BY <1>1, <1>4, LifetimesAssumption DEF SweepToken, Tokens
<1>5. CASE UNCHANGED <<count, next>>
  BY <1>5
<1>6. QED
  BY <1>2, <1>3, <1>4, <1>5
     DEF Next, RequestStep, RefreshStep, vars, Tick, Present,
         PresentForRevocation, DetectReuse, KillFamily, Lookup,
         CheckSession, RefuseOtherwise, RotateLoses, Resolve, Destroy, Receive,
         Leak, RevokeByAccessToken, Logout, EndSessionAndTokens, SweepSession

\* The states of a request in which it is a refresh that may yet rotate.
Refreshing(pc) == pc \in {"lineage", "lookup", "session", "rotate"}

\* A step that only moves a request on, or ends it, disturbs no holder.
LEMMA HolderFrame ==
    ASSUME HolderInv, UNCHANGED <<tokens, killed, holders>>, now <= now',
           now \in Nat, now' \in Nat, TypeOK,
           \A p \in Requests : req'[p].pc # "idle" =>
              /\ ask'[p] = ask[p] /\ req[p].pc # "idle" /\ req'[p].pc # "kill"
              /\ Refreshing(req'[p].pc) => Refreshing(req[p].pc)
    PROVE  HolderInv'
<1> USE DEF HolderInv, tokens, holders, Refreshing
<1>1. SUFFICES ASSUME ~copied PROVE HolderInv'
  OBVIOUS
<1>2. triedAt \in Nat /\ Never' = Never
  BY LifetimesAssumption DEF TypeOK, Never
<1>3. triedAt' # Never => triedAt' <= now'
  BY <1>1, <1>2
<1>4. QED
  BY <1>1, <1>2, <1>3

\* A whole revocation takes what the client holds with its successor.
LEMMA HolderRevoke ==
    ASSUME HolderInv, NEW by \in {"asked", "reuse"}, RevokeRows(by),
           UNCHANGED <<now, count, rows, next, made, holders>>,
           \A p \in Requests : req'[p].pc # "idle" =>
              ask'[p] = ask[p] /\ req'[p] = req[p]
    PROVE  HolderInv'
<1> USE DEF HolderInv, holders
<1>1. CASE rows = {}
  BY <1>1 DEF RevokeRows, history
<1>2. CASE rows # {}
  <2>1. killed' # "no" /\ revoked' = revoked \cup rows
    BY <1>2 DEF RevokeRows
  <2>2. held \notin rows' \ revoked'
    BY <2>1
  <2>3. QED
    BY <2>1, <2>2
<1>3. QED
  BY <1>1, <1>2

\* While nothing has leaked, a token is presented by its one holder and a retry
\* finds the successor of the attempt before it, still fresh and untouched.
LEMMA HolderStep ==
    ASSUME FamilyInv, LinkInv, HolderInv, [Next]_vars
    PROVE  HolderInv'
<1> USE DEF tokens, browser, history, holders
<1>1. TypeOK /\ RowsInv /\ AgeInv
  BY DEF FamilyInv
<1>2. /\ now \in Nat /\ count \in Nat /\ held \in Nat /\ triedAt \in Nat
      /\ Tokens \subseteq Nat /\ rows \subseteq 1..count /\ revoked \subseteq 1..count
      /\ next \in [Tokens -> Nat] /\ made \in [Tokens -> Nat]
      /\ Grace \in Nat /\ Never \in Nat /\ now # Never /\ held \in 0..MaxTokens
      /\ next \in [Tokens -> 0..MaxTokens] /\ 0 \notin Tokens
  BY <1>1, LifetimesAssumption DEF TypeOK, RowsInv, Tokens, Time, Never
<1>3. \A q \in Requests : /\ ask[q].tok \in Nat /\ ask[q].at \in Nat
                          /\ ask[q].at \in Time
                          /\ req[q].supersede \in Nat
  BY <1>1, LifetimesAssumption DEF TypeOK, AskState, RequestState, Time
<1>4. ASSUME NEW q \in Requests, Refuse(q),
             UNCHANGED <<now, tokens, killed, holders>>
      PROVE  HolderInv'
  <2>1. \A p \in Requests : req'[p].pc # "idle" =>
           ask'[p] = ask[p] /\ req'[p] = req[p] /\ p # q
    BY <1>1, <1>4 DEF Refuse, Go, TypeOK
  <2>2. QED
    BY <1>1, <1>2, <1>4, <2>1, HolderFrame DEF HolderInv
<1>5. ASSUME NEW q \in Requests, NEW pc, NEW supersede, NEW linked,
             Proceed(q, pc, supersede, linked), pc # "kill", req[q].pc # "idle",
             Refreshing(pc) => Refreshing(req[q].pc),
             UNCHANGED <<now, tokens, killed, holders>>
      PROVE  HolderInv'
  <2>1. CASE copied
    BY <1>5, <2>1 DEF HolderInv
  <2>2. CASE ~copied
    <3>1. \A p \in Requests : req'[p].pc # "idle" =>
             /\ ask'[p] = ask[p] /\ req[p].pc # "idle" /\ req'[p].pc # "kill"
             /\ Refreshing(req'[p].pc) => Refreshing(req[p].pc)
      BY <1>1, <1>5, <2>2 DEF Proceed, Go, TypeOK, HolderInv
    <3>2. QED
      BY <1>1, <1>2, <1>5, <3>1, HolderFrame
  <2>3. QED
    BY <2>1, <2>2
<1>6. CASE Tick
  <2>1. \A p \in Requests : req[p].pc = "kill" => copied
    BY DEF HolderInv
  <2>2. now' \in Nat /\ now <= now'
    BY <1>2, <1>6 DEF Tick
  <2>3. CASE copied
    BY <1>6, <2>3 DEF Tick, HolderInv
  <2>4. CASE ~copied
    BY <1>1, <1>2, <1>6, <2>1, <2>2, <2>4, HolderFrame DEF Tick
  <2>5. QED
    BY <2>3, <2>4
<1>7. CASE Issue
  <2>1. /\ count = 0 /\ count' = 1 /\ held' = 1
        /\ UNCHANGED <<now, revoked, next, ask, req, killed, copied, triedAt>>
    BY <1>7 DEF Issue, Insert
  <2>2. SUFFICES ASSUME ~copied PROVE HolderInv'
    BY <2>1 DEF HolderInv
  <2>3. held = 0 /\ \A p \in Requests : req[p].pc = "idle"
    BY <1>2, <2>1, <2>2 DEF HolderInv
  <2>4. 1 \in Tokens /\ next[1] = 0 /\ revoked = {}
    BY <1>2, <2>1, LifetimesAssumption DEF LinkInv, Tokens
  <2>5. QED
    BY <2>1, <2>2, <2>3, <2>4 DEF HolderInv
<1>8. ASSUME NEW q \in Requests, NEW t \in Tokens, Present(q, t) PROVE HolderInv'
  <2>1. /\ Arrive(q, t, "lineage")
        /\ triedAt' = IF t = held /\ triedAt = Never THEN now ELSE triedAt
        /\ UNCHANGED <<now, count, rows, revoked, next, made, killed, copied, held>>
    BY <1>8 DEF Present
  <2>2. SUFFICES ASSUME ~copied PROVE HolderInv'
    BY <2>1 DEF HolderInv
  <2>3. /\ t = held /\ \A p \in Requests : req[p].pc = "idle"
        /\ triedAt # Never => now <= triedAt + Grace
    BY <1>8, <2>2 DEF Present, ClientPresents
  <2>4. /\ triedAt' # Never /\ triedAt' <= now /\ now <= triedAt' + Grace
    BY <1>2, <2>1, <2>2, <2>3 DEF HolderInv
  <2>5. \A p \in Requests : req'[p].pc # "idle" =>
           /\ ask'[p].tok = held /\ ask'[p].at = now /\ req'[p].pc = "lineage"
    BY <1>1, <2>1, <2>3 DEF Arrive, TypeOK
  <2>6. held # 0 /\ next[held] # 0 => triedAt' = triedAt
    BY <2>1, <2>2 DEF HolderInv
  <2>7. QED
    BY <1>2, <2>1, <2>2, <2>3, <2>4, <2>5, <2>6 DEF HolderInv
<1>9. ASSUME NEW q \in Requests, NEW t \in Tokens, PresentForRevocation(q, t)
      PROVE  HolderInv'
  <2>1. Arrive(q, t, "resolve") /\ UNCHANGED <<now, tokens, killed, holders>>
    BY <1>9 DEF PresentForRevocation
  <2>2. SUFFICES ASSUME ~copied PROVE HolderInv'
    BY <2>1 DEF HolderInv
  <2>3. t = held /\ \A p \in Requests : req[p].pc = "idle"
    BY <1>9, <2>2 DEF PresentForRevocation, ClientPresents
  <2>4. \A p \in Requests : req'[p].pc # "idle" =>
           ask'[p].tok = held /\ req'[p].pc = "resolve"
    BY <1>1, <2>1, <2>3 DEF Arrive, TypeOK
  <2>5. held # 0
    BY <1>2, <2>3
  <2>6. QED
    BY <2>1, <2>2, <2>4, <2>5 DEF HolderInv
<1>10. ASSUME NEW q \in Requests, DetectReuse(q) PROVE HolderInv'
  <2> DEFINE t == ask[q].tok
  <2>1. req[q].pc = "lineage" /\ UNCHANGED <<now, tokens, killed, holders>>
    BY <1>10 DEF DetectReuse
  <2>2. CASE Refuse(q)
    BY <1>4, <2>1, <2>2
  <2>3. ASSUME NEW supersede, Proceed(q, "lookup", supersede, "no")
        PROVE  HolderInv'
    BY <1>5, <2>1, <2>3 DEF Refreshing
  <2>4. CASE copied
    BY <2>1, <2>4 DEF HolderInv
  <2>5. CASE ~copied /\ t \in rows /\ next[t] # 0 /\ t \notin revoked
    <3>1. /\ t = held /\ held # 0 /\ triedAt # Never
          /\ ask[q].at <= triedAt + Grace
      BY <2>1, <2>5 DEF HolderInv
    <3>2. /\ triedAt <= made[next[t]] /\ next[next[t]] = 0
          /\ next[t] \notin revoked
      BY <2>5, <3>1 DEF HolderInv
    <3>3. t \in Tokens /\ next[t] \in Tokens
      BY <1>2, <2>5, <3>1 DEF Tokens
    <3>4. made[next[t]] \in Nat
      BY <1>2, <3>3
    <3>5. ask[q].at <= made[next[t]] + Grace
      BY <1>2, <1>3, <3>1, <3>2, <3>4
    <3>6. LegitimateRetry(t, ask[q].at)
      BY <2>5, <3>2, <3>5 DEF LegitimateRetry, Spent
    <3>7. QED
      BY <1>10, <2>2, <2>3, <2>5, <3>6 DEF DetectReuse, Rotated
  <2>6. QED
    BY <1>10, <2>2, <2>3, <2>4, <2>5 DEF DetectReuse, Rotated
<1>11. ASSUME NEW q \in Requests, KillFamily(q) \/ Destroy(q) PROVE HolderInv'
  <2>1. Refuse(q) /\ UNCHANGED <<now, count, rows, next, made, holders>>
    BY <1>11 DEF KillFamily, Destroy
  <2>2. CASE UNCHANGED <<revoked, history>>
    BY <1>4, <1>11, <2>1, <2>2 DEF KillFamily, Destroy
  <2>3. ASSUME NEW by \in {"asked", "reuse"}, RevokeRows(by) PROVE HolderInv'
    <3>1. \A p \in Requests : req'[p].pc # "idle" =>
             ask'[p] = ask[p] /\ req'[p] = req[p]
      BY <1>1, <2>1 DEF Refuse, Go, TypeOK
    <3>2. QED
      BY <2>1, <2>3, <3>1, HolderRevoke
  <2>4. QED
    BY <1>11, <2>2, <2>3 DEF KillFamily, Destroy
<1>12. ASSUME NEW q \in Requests,
              Lookup(q) \/ CheckSession(q) \/ Resolve(q)
              \/ RefuseOtherwise(q) \/ RotateLoses(q)
       PROVE  HolderInv'
  <2>1. UNCHANGED <<now, tokens, killed, holders>>
    BY <1>12 DEF Lookup, CheckSession, Resolve, RefuseOtherwise, RotateLoses
  <2>2. CASE Refuse(q)
    BY <1>4, <2>1, <2>2
  <2>3. CASE Lookup(q) /\ ~Refuse(q)
    BY <1>5, <2>1, <2>3 DEF Lookup, Refreshing
  <2>4. CASE CheckSession(q) /\ ~Refuse(q)
    BY <1>5, <2>1, <2>4 DEF CheckSession, Refreshing
  <2>5. CASE Resolve(q) /\ ~Refuse(q)
    BY <1>5, <2>1, <2>5 DEF Resolve, Refreshing
  <2>6. QED
    BY <1>12, <2>2, <2>3, <2>4, <2>5 DEF RefuseOtherwise, RotateLoses
<1>13. ASSUME NEW q \in Requests, Rotate(q) PROVE HolderInv'
  <2> DEFINE n == count + 1
             t == ask[q].tok
  <2>1. /\ req[q].pc = "rotate" /\ count < MaxTokens /\ t \in rows
        /\ next[t] = req[q].supersede
        /\ count' = n /\ rows' = rows \cup {n}
        /\ made' = [made EXCEPT ![n] = now]
        /\ revoked' = revoked \cup Superseded(q)
        /\ next' = [next EXCEPT ![t] = n]
        /\ req' = [req EXCEPT ![q] = [pc |-> "idle", supersede |-> 0,
                                      linked |-> "no", heir |-> n]]
        /\ UNCHANGED <<now, ask, killed, copied, held, triedAt>>
    BY <1>13 DEF Rotate, Insert, LinkMoves
  <2>2. SUFFICES ASSUME ~copied PROVE HolderInv'
    BY <2>1 DEF HolderInv
  <2>3. /\ t = held /\ held # 0 /\ triedAt # Never /\ triedAt <= now
        /\ held <= count
    BY <2>1, <2>2 DEF HolderInv
  <2>4. /\ n \in Tokens /\ held \in Tokens /\ n # held /\ n \notin revoked
        /\ next[n] = 0
    <3>1. count \in Nat /\ count < MaxTokens /\ MaxTokens \in Nat
      BY <1>2, <2>1, LifetimesAssumption
    <3>2. n \in Tokens /\ held \in Tokens /\ n # held
      BY <1>2, <2>3, <3>1 DEF Tokens
    <3>3. n \notin revoked
      BY <1>2, <3>1
    <3>4. QED
      BY <3>1, <3>2, <3>3 DEF LinkInv
  <2>5. next'[held] = n /\ next'[n] = 0 /\ made'[n] = now
    BY <1>2, <2>1, <2>3, <2>4
  <2>6. n \notin Superseded(q) /\ held \notin Superseded(q)
    <3>1. next[held] # held /\ next[held] <= count /\ next[held] \in Nat
      BY <1>1, <1>2, <2>4 DEF LinkInv, RowsInv
    <3>2. QED
      BY <1>2, <2>1, <2>3, <3>1 DEF Superseded
  <2>7. n \notin revoked' /\ (killed' = "no" => held' \notin revoked')
    BY <2>1, <2>2, <2>4, <2>6 DEF HolderInv
  <2>8. \A p \in Requests : req'[p].pc # "idle" =>
           ask'[p] = ask[p] /\ req'[p] = req[p]
    BY <1>1, <2>1 DEF TypeOK
  <2>9. held' <= count' /\ held' # 0
    BY <1>2, <2>1, <2>3
  <2>10. QED
    BY <2>1, <2>2, <2>3, <2>5, <2>7, <2>8, <2>9 DEF HolderInv
<1>14. ASSUME NEW q \in Requests, Receive(q) PROVE HolderInv'
  <2>1. /\ ~copied /\ req[q].heir # 0 /\ next[held] = req[q].heir
        /\ \A p \in Requests : req[p].pc = "idle"
        /\ held' = req[q].heir /\ triedAt' = Never
        /\ UNCHANGED <<now, tokens, ask, req, killed, copied>>
    BY <1>14 DEF Receive
  <2>2. held # 0
    BY <1>1, <2>1 DEF HolderInv, AgeInv
  <2>3. held \in Tokens /\ held' = next[held] /\ held' # 0
    BY <1>2, <2>1, <2>2 DEF Tokens
  <2>4. next[held'] = 0 /\ (killed = "no" => held' \notin revoked)
    BY <2>1, <2>2, <2>3 DEF HolderInv
  <2>5. held' <= count
    BY <1>1, <2>3 DEF RowsInv
  <2>6. QED
    BY <2>1, <2>3, <2>4, <2>5 DEF HolderInv
<1>15. CASE Leak
  BY <1>15 DEF Leak, HolderInv
<1>16. CASE RevokeByAccessToken \/ EndSessionAndTokens
  BY <1>16, HolderRevoke DEF RevokeByAccessToken, EndSessionAndTokens
<1>17. ASSUME NEW t \in Tokens, SweepToken(t) PROVE HolderInv'
  <2>1. /\ rows' = rows \ {t}
        /\ next' = [u \in Tokens |-> IF next[u] = t THEN 0 ELSE next[u]]
        /\ UNCHANGED <<now, count, revoked, made, ask, req, killed, holders>>
    BY <1>17 DEF SweepToken
  <2>2. SUFFICES ASSUME ~copied PROVE HolderInv'
    BY <2>1 DEF HolderInv
  <2>3. ASSUME held # 0, next'[held] # 0
        PROVE  /\ next'[held] = next[held] /\ next[held] # 0
               /\ next'[next'[held]] = 0
    <3>1. held \in Tokens
      BY <1>2, <2>3 DEF Tokens
    <3>2. next'[held] = next[held] /\ next[held] # 0
      BY <2>1, <2>3, <3>1
    <3>3. next[held] \in Tokens /\ next[next[held]] = 0
      BY <1>2, <2>2, <2>3, <3>1, <3>2 DEF HolderInv, Tokens
    <3>4. QED
      BY <2>1, <3>2, <3>3
  <2>4. QED
    BY <2>1, <2>2, <2>3 DEF HolderInv
<1>18. CASE UNCHANGED <<now, tokens, ask, req, killed, holders>>
  BY <1>18 DEF HolderInv
<1>19. QED
  BY <1>6, <1>7, <1>8, <1>9, <1>10, <1>11, <1>12, <1>13, <1>14, <1>15, <1>16,
     <1>17, <1>18
     DEF Next, RequestStep, RefreshStep, vars, Logout, SweepSession

-----------------------------------------------------------------------------
(* The theorems                                                             *)

\* The inductive invariant holds of the initial state.
LEMMA FamilyInit == Init => FamilyInv
BY TypeInit DEF Init, FamilyInv, RowsInv, OneHeir, KillInv, DeadInv, SessionInv,
   AgeInv, FamilyAgesOut, NoAsk, NoRequest, Racing, TokenLive, Tokens

\* Every reachable state of the family satisfies the inductive invariant.
THEOREM FamilyInvariant == Spec => []FamilyInv
<1>1. FamilyInv /\ [Next]_vars => FamilyInv'
  BY TypeStep, RowsStep, OneHeirStep, KillStep, DeadStep, SessionStep, AgeStep
     DEF FamilyInv
<1>2. QED
  BY <1>1, FamilyInit, PTL DEF Spec

\* However many requests present a token, at most one successor it was given
\* is not revoked.
THEOREM AtMostOneHeir == Spec => []OneHeir
<1>1. FamilyInv => OneHeir
  BY DEF FamilyInv
<1>2. QED
  BY <1>1, FamilyInvariant, PTL

\* A refresh that begins after its token is dead is refused.
THEOREM DeadTokensMintNothing == Spec => []DeadMintsNothing
<1>1. FamilyInv => DeadMintsNothing
  BY DEF FamilyInv, DeadInv, DeadMintsNothing
<1>2. QED
  BY <1>1, FamilyInvariant, PTL

\* A family revoked while no refresh was between its lookup and its rotation
\* stays revoked.
THEOREM UnracedKillIsFinal == Spec => []KillHolds
<1>1. FamilyInv => KillHolds
  BY DEF FamilyInv, KillInv, KillHolds
<1>2. QED
  BY <1>1, FamilyInvariant, PTL

\* A refresh that begins after the session is over is refused for as long as the
\* session's row is kept.
THEOREM SessionsGuardWhileKept == Spec => []SessionGuards
<1>1. FamilyInv => SessionGuards
  BY DEF FamilyInv, SessionInv, SessionGuards
<1>2. QED
  BY <1>1, FamilyInvariant, PTL

\* Refreshing does not extend a family past the lifetime it began with.
THEOREM FamiliesAgeOut == Spec => []FamilyAgesOut
<1>1. FamilyInv => FamilyAgesOut
  BY DEF FamilyInv, AgeInv
<1>2. QED
  BY <1>1, FamilyInvariant, PTL

\* Every reachable state satisfies the invariant of a family with one holder.
THEOREM ClientInvariant == Spec => []ClientInv
<1>1. Init => ClientInv
  BY FamilyInit, LifetimesAssumption
     DEF Init, ClientInv, LinkInv, HolderInv, NoRequest, Tokens
<1>2. ClientInv /\ [Next]_vars => ClientInv'
  <2>1. SUFFICES ASSUME ClientInv, [Next]_vars PROVE ClientInv'
    OBVIOUS
  <2>2. TypeOK /\ RowsInv /\ LinkInv /\ FamilyInv /\ HolderInv
    BY <2>1 DEF ClientInv, FamilyInv
  <2>3. FamilyInv'
    BY <2>1, <2>2, TypeStep, RowsStep, OneHeirStep, KillStep, DeadStep,
       SessionStep, AgeStep DEF FamilyInv
  <2>4. QED
    BY <2>1, <2>2, <2>3, LinkStep, HolderStep DEF ClientInv
<1>3. QED
  BY <1>1, <1>2, PTL DEF Spec

\* A client that tries again only within the grace, after an attempt that
\* brought no answer, does not have its family killed.
THEOREM NoFalseAlarms == Spec => []NoFalseAlarm
<1>1. ClientInv => NoFalseAlarm
  BY DEF ClientInv, HolderInv, NoFalseAlarm
<1>2. QED
  BY <1>1, ClientInvariant, PTL

\* And what it holds stays usable until somebody revokes.
THEOREM HeldStaysUsable == Spec => []HeldIsUsable
<1>1. ASSUME ClientInv PROVE HeldIsUsable
  <2>1. SUFFICES ASSUME ~copied, killed = "no", held \in rows
                 PROVE  /\ held \notin revoked
                        /\ next[held] # 0 => ~Spent(next[held])
    BY DEF HeldIsUsable
  <2>2. held # 0
    BY <1>1, <2>1 DEF ClientInv, FamilyInv, TypeOK, Tokens
  <2>3. QED
    BY <1>1, <2>1, <2>2 DEF ClientInv, HolderInv, Spent
<1>2. QED
  BY <1>1, ClientInvariant, PTL
=============================================================================
