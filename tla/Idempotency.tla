----------------------------- MODULE Idempotency -----------------------------
(***************************************************************************)
(* One Idempotency-Key of one client: its row in idempotency_records and   *)
(* the requests that carry it (src/backend/internal/management).  Claiming *)
(* the key, running the handler, storing the answer and giving up the      *)
(* claim are transactions of their own, and claiming takes up to three     *)
(* statements, so requests interleave at each of them, with each other and *)
(* with the janitor.                                                       *)
(*                                                                         *)
(* One unit of time is half a minute, the longest a request may run.  The  *)
(* life of a record, 24 hours, is scaled down to a few units.              *)
(***************************************************************************)
EXTENDS Naturals, FiniteSets

CONSTANTS
    Requests,  \* requests carrying the key, at any instance
    Bodies,    \* what HashRequest tells apart: method, path and body
    NoBody,    \* not one of them
    TTL,       \* IdempotencyTTL
    Lag,       \* how long one request may run before it is cut off
    MaxTime    \* bound: where the clock of the model stops

ASSUME LifetimesAssumption ==
    /\ NoBody \notin Bodies
    /\ TTL \in Nat /\ Lag \in Nat /\ Lag < TTL
    /\ MaxTime \in Nat

VARIABLES
    now,      \* the clock of the instances
    status,   \* the record: none, "open" (status is null) or "answered"
    hash,     \* its request_hash
    answer,   \* whose answer it holds
    until,    \* its expires_at
    doomed,   \* when the janitor's scan picked it, Never if it has not
    req,      \* req[q]: the progress of q
    kept,     \* history: until when the last answer stored was to be replayed
    stray     \* history: whether two steps about an expired record collided

record == <<status, hash, answer, until>>
vars   == <<now, record, doomed, req, kept, stray>>

Time == 0..MaxTime

Never == MaxTime + 1

-----------------------------------------------------------------------------
NoRequest == [pc |-> "idle", at |-> 0, body |-> NoBody, got |-> NoBody]

RequestState ==
    [pc   : {"idle", "claim", "read", "reclaim", "run", "complete", "release"},
     at   : Time,
     body : Bodies \cup {NoBody},
     got  : Bodies \cup {NoBody}]   \* whose stored answer it was given

TypeOK ==
    /\ now \in Time
    /\ status \in {"none", "open", "answered"}
    /\ hash \in Bodies \cup {NoBody} /\ answer \in Bodies \cup {NoBody}
    /\ until \in Time
    /\ doomed \in 0..Never
    /\ req \in [Requests -> RequestState]
    /\ kept \in Time
    /\ stray \in {"no", "yes"}

Init ==
    /\ now = 0
    /\ status = "none" /\ hash = NoBody /\ answer = NoBody /\ until = 0
    /\ doomed = Never
    /\ req = [q \in Requests |-> NoRequest]
    /\ kept = 0 /\ stray = "no"

\* A request, or a statement of the janitor, that has run for Lag is cut off.
Tick ==
    /\ now < MaxTime
    /\ \A q \in Requests : req[q].pc # "idle" => now < req[q].at + Lag
    /\ doomed # Never => now < doomed + Lag
    /\ now' = now + 1
    /\ UNCHANGED <<record, doomed, req, kept, stray>>

-----------------------------------------------------------------------------
(* Begin                                                                    *)

Go(q, pc) == req' = [req EXCEPT ![q] = [pc |-> pc, at |-> req[q].at,
                                        body |-> req[q].body, got |-> NoBody]]

\* A new or a repeated request.  Bound: only while the life of the record it
\* may write fits the clock.
Arrive(q, b) ==
    /\ req[q].pc = "idle"
    /\ now + TTL < MaxTime
    /\ req' = [req EXCEPT ![q] = [pc |-> "claim", at |-> now, body |-> b,
                                  got |-> NoBody]]
    /\ UNCHANGED <<now, record, doomed, kept, stray>>

\* The row as a claim of q leaves it, inserted or taken over.
Claimed(q) ==
    /\ status' = "open" /\ hash' = req[q].body /\ answer' = NoBody
    /\ until' = req[q].at + TTL

\* Seeded fault: ON CONFLICT DO UPDATE when the conflict is with one's own body.
ClaimUpsert(q) ==
    /\ req[q].pc = "claim"
    /\ \/ /\ status = "none" \/ (status = "open" /\ hash = req[q].body)
          /\ Claimed(q) /\ Go(q, "run")
       \/ status # "none" /\ UNCHANGED record /\ Go(q, "read")
    /\ UNCHANGED <<now, doomed, kept, stray>>

\* INSERT ... ON CONFLICT DO NOTHING: the insert is the lock.
Claim(q) ==
    /\ req[q].pc = "claim"
    /\ \/ status = "none" /\ Claimed(q) /\ Go(q, "run")
       \/ status # "none" /\ UNCHANGED record /\ Go(q, "read")
    /\ UNCHANGED <<now, doomed, kept, stray>>

Expired(q) == until <= req[q].at

\* Seeded fault: an answer is replayed whatever was asked.
ReadUnhashed(q) ==
    /\ req[q].pc = "read"
    /\ \/ /\ status # "none" /\ Expired(q)
          /\ Go(q, "reclaim")
       \/ /\ status = "answered" /\ ~Expired(q)
          /\ req' = [req EXCEPT ![q] = [pc |-> "idle", at |-> req[q].at,
                                        body |-> req[q].body, got |-> answer]]
       \/ /\ status = "none" \/ (~Expired(q) /\ status = "open")
          /\ Go(q, "idle")
    /\ UNCHANGED <<now, record, doomed, kept, stray>>

\* Somebody else holds the key: gone again, expired, for another request, in
\* flight, or answered.
Read(q) ==
    /\ req[q].pc = "read"
    /\ \/ /\ status # "none" /\ Expired(q)
          /\ Go(q, "reclaim")
       \/ /\ status = "answered" /\ ~Expired(q) /\ hash = req[q].body
          /\ req' = [req EXCEPT ![q] = [pc |-> "idle", at |-> req[q].at,
                                        body |-> req[q].body, got |-> answer]]
       \/ /\ \/ status = "none"
             \/ ~Expired(q) /\ (hash # req[q].body \/ status = "open")
          /\ Go(q, "idle")
    /\ UNCHANGED <<now, record, doomed, kept, stray>>

\* The UPDATE that takes over an expired record names the key and nothing else:
\* it takes over whatever is there by now, or finds nothing, and is content.
TakeOver(q) ==
    /\ IF status = "none" THEN UNCHANGED record ELSE Claimed(q)
    /\ stray' = IF status # "none" /\ Expired(q) THEN stray ELSE "yes"

Reclaim(q) ==
    /\ req[q].pc = "reclaim"
    /\ TakeOver(q)
    /\ Go(q, "run")
    /\ UNCHANGED <<now, doomed, kept>>

\* The transaction fails and is rolled back, or its commit is not heard of: the
\* claim stands and nobody will release it.
BeginFails(q) ==
    /\ req[q].pc \in {"claim", "read", "reclaim"}
    /\ Go(q, "idle")
    /\ \/ UNCHANGED <<record, stray>>
       \/ req[q].pc = "claim" /\ status = "none" /\ Claimed(q) /\ UNCHANGED stray
       \/ req[q].pc = "reclaim" /\ TakeOver(q)
    /\ UNCHANGED <<now, doomed, kept>>

-----------------------------------------------------------------------------
(* The handler, Complete and Release                                        *)

\* The handler has answered: with something worth storing, or with an error, a
\* panic, or an answer too large or not JSON.
Handle(q) ==
    /\ req[q].pc = "run"
    /\ Go(q, "complete") \/ Go(q, "release")
    /\ UNCHANGED <<now, record, doomed, kept, stray>>

\* The UPDATE of Complete names the key and nothing else.
Answered(q) ==
    IF status = "none" THEN UNCHANGED <<record, kept>>
    ELSE /\ status' = "answered" /\ answer' = req[q].body
         /\ kept' = until
         /\ UNCHANGED <<hash, until>>

Complete(q) ==
    /\ req[q].pc = "complete"
    /\ Answered(q)
    /\ Go(q, "idle")
    /\ UNCHANGED <<now, doomed, stray>>

\* It fails, or its commit is not heard of, or the caller is gone and the
\* context cancelled: the deferred release follows.
CompleteFails(q) ==
    /\ req[q].pc = "complete"
    /\ Answered(q) \/ UNCHANGED <<record, kept>>
    /\ Go(q, "release")
    /\ UNCHANGED <<now, doomed, stray>>

\* Seeded fault: the DELETE does not ask whether the claim holds an answer.
ReleaseAny(q) ==
    /\ req[q].pc = "release"
    /\ Go(q, "idle")
    /\ status' = "none" /\ doomed' = Never
    /\ UNCHANGED <<now, hash, answer, until, kept, stray>>

\* DELETE of a claim that holds no answer.  A sweep that has picked the row
\* finds its last version deleted.
Release(q) ==
    /\ req[q].pc = "release"
    /\ Go(q, "idle")
    /\ IF status = "open" THEN status' = "none" /\ doomed' = Never
       ELSE UNCHANGED <<status, doomed>>
    /\ UNCHANGED <<now, hash, answer, until, kept, stray>>

\* The release fails, which is logged, or the instance stops.
Abandon(q) ==
    /\ req[q].pc \in {"run", "complete", "release"}
    /\ Go(q, "idle")
    /\ UNCHANGED <<now, record, doomed, kept, stray>>

-----------------------------------------------------------------------------
(* The janitor                                                              *)

\* Seeded fault: only answered records are swept.
SweepAnswered ==
    /\ status = "answered" /\ until < now /\ doomed = Never
    /\ doomed' = now
    /\ UNCHANGED <<now, record, req, kept, stray>>

\* sweep_idempotency_records picks an expired row by a scan of its own ...
SweepScan ==
    /\ status # "none" /\ until < now /\ doomed = Never
    /\ doomed' = now
    /\ UNCHANGED <<now, record, req, kept, stray>>

\* ... and deletes it by its key, whatever an update has made of it meanwhile.
SweepDelete ==
    /\ doomed # Never
    /\ status' = "none" /\ doomed' = Never
    /\ stray' = IF until < now THEN stray ELSE "yes"
    /\ UNCHANGED <<now, hash, answer, until, req, kept>>

-----------------------------------------------------------------------------
RequestStep(q) ==
    \/ Claim(q) \/ Read(q) \/ Reclaim(q) \/ BeginFails(q)
    \/ Handle(q) \/ Complete(q) \/ CompleteFails(q) \/ Release(q)

Next ==
    \/ Tick
    \/ \E q \in Requests, b \in Bodies : Arrive(q, b)
    \/ \E q \in Requests : RequestStep(q) \/ Abandon(q)
    \/ SweepScan \/ SweepDelete

Spec == Init /\ [][Next]_vars

\* Requests run to their end, time passes, and the janitor comes round.
Fairness ==
    /\ \A q \in Requests : WF_vars(RequestStep(q))
    /\ WF_vars(Tick)
    /\ WF_vars(SweepScan \/ SweepDelete)

FairSpec == Spec /\ Fairness

-----------------------------------------------------------------------------
(* Properties                                                               *)

\* The requests that have been told the key is theirs.
Holders == {q \in Requests : req[q].pc \in {"run", "complete", "release"}}

\* Whatever fails between the claim, the handler, the answer and the release,
\* two requests do not hold the key at once, unless an expired record was
\* reclaimed, swept or both by two at the same moment.
OneHolder ==
    stray = "no" => \A p, q \in Holders : p = q

\* No handler runs while an earlier answer is still to be replayed, although
\* the request that stored it may not know it has and releases its claim.
NoRerun ==
    stray = "no" => \A q \in Requests : req[q].pc = "run" => kept <= now

\* A replayed answer was given to the same request: a key that changes hands
\* does not carry an answer from one body to another.
ReplayIsOwn ==
    stray = "no" =>
       \A q \in Requests : req[q].got # NoBody => req[q].got = req[q].body

\* A claim does not block its key for good, whatever became of its holder: it
\* is answered, released, or expires and is taken over or swept.
KeyIsFreed == status = "open" ~> status # "open"

\* A request in progress is not older than Lag.
TimeInv ==
    \A q \in Requests : req[q].pc # "idle" =>
       /\ req[q].at <= now /\ now <= req[q].at + Lag
       /\ req[q].at + TTL < MaxTime
       /\ req[q].body \in Bodies

\* The record is its holder's, and is open until the holder answers.
HolderInv ==
    \A q \in Holders :
       /\ until = req[q].at + TTL /\ hash = req[q].body
       /\ status = "open" \/ (req[q].pc = "release" /\ status = "answered")

\* An answer in the record is the answer to the request it was claimed for, and
\* an answer still to be replayed is in the record.
AnswerInv ==
    /\ status = "answered" => answer = hash
    /\ kept > now => status = "answered" /\ until = kept

\* The inductive invariant.
KeyInv ==
    /\ TypeOK /\ TimeInv
    /\ stray = "no" => HolderInv /\ AnswerInv
    /\ OneHolder /\ ReplayIsOwn

\* What Begin's comment says: of the requests that race for a key exactly one
\* wins.  The code does not keep it: OneHolder is what remains.
ExactlyOneWins == \A p, q \in Holders : p = q
=============================================================================
