-------------------------- MODULE SessionAuthority --------------------------
(***************************************************************************)
(* What session management promises, with no store, no cache and no clock: *)
(* a set of sessions that have been ended, which only grows, and requests  *)
(* that ask about a session and are told whether it may be used.  The one  *)
(* obligation is that nobody who asks after a session was ended is served. *)
(* SessionCache is shown to implement this.                                *)
(***************************************************************************)
CONSTANTS
    Sessions,  \* sessions that may come to exist
    Lookups,   \* requests that present a session's token
    Cookie     \* Cookie[p]: the session request p presents

VARIABLES
    ended,  \* sessions whose end has been acknowledged
    asked,  \* asked[p]: how the session stood when p asked, "none" if p has not
    answer  \* answer[p]: what p was told last

vars == <<ended, asked, answer>>

Init ==
    /\ ended = {}
    /\ asked = [p \in Lookups |-> "none"]
    /\ answer = [p \in Lookups |-> "none"]

\* A request arrives.
Ask(p) ==
    /\ asked[p] = "none"
    /\ asked' = [asked EXCEPT ![p] = IF Cookie[p] \in ended THEN "ended"
                                     ELSE "open"]
    /\ answer' = [answer EXCEPT ![p] = "none"]
    /\ UNCHANGED ended

\* It is answered.  A session may always be denied (it may have expired); it is
\* served only if it had not been ended when the request arrived.
Reply(p) ==
    /\ asked[p] # "none"
    /\ asked' = [asked EXCEPT ![p] = "none"]
    /\ \/ answer' = [answer EXCEPT ![p] = "denied"]
       \/ asked[p] = "open" /\ answer' = [answer EXCEPT ![p] = "served"]
    /\ UNCHANGED ended

\* Some sessions are ended for good.
End(S) ==
    /\ ended' = ended \cup S
    /\ UNCHANGED <<asked, answer>>

Next ==
    \/ \E p \in Lookups : Ask(p) \/ Reply(p)
    \/ \E S \in SUBSET Sessions : End(S)

Spec == Init /\ [][Next]_vars

\* Every request is answered.
FairSpec == Spec /\ \A p \in Lookups : WF_vars(Reply(p))
=============================================================================
