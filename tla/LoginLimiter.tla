---------------------------- MODULE LoginLimiter ----------------------------
(***************************************************************************)
(* The cooldowns of the login limiter (backend/internal/ratelimit) and the *)
(* password checks it bounds (backend/internal/login, account).            *)
(*                                                                         *)
(* One counter is kept in Redis for the submitted address and one for the  *)
(* client's IP.  A request checks both, verifies the password, and then    *)
(* records a failure in both or clears the one of the address.  Every call *)
(* to Redis is a step, may fail, and a failed call lets the login go on:   *)
(* in particular a failure is loaded, advanced and saved in two steps, and *)
(* what other requests have saved in between is overwritten.               *)
(*                                                                         *)
(* Time passes in ticks and every time is relative: until is how far ahead *)
(* the end of a cooldown lies, and a request's age is how long ago it read *)
(* the clock it computes with.                                             *)
(***************************************************************************)
EXTENDS Integers

CONSTANTS
    Attempt,    \* the requests that verify a password
    Address,    \* the counter of the submitted address
    Ip,         \* the counter of the client's IP
    Free,       \* Policy.Free of each counter
    Window,     \* Policy.Window
    Base,       \* Policy.Base
    Cap,        \* Policy.Cap
    Rounds,     \* a number of rounds at which the backoff has reached Cap
    Lag         \* the longest a request takes

Key == {Address, Ip}

ASSUME PolicyAssumption ==
    /\ Address # Ip
    /\ Free \in [Key -> Nat]
    /\ Window \in Nat \ {0}
    /\ Base \in Nat \ {0}
    /\ Cap \in Nat
    /\ Rounds \in Nat
    /\ Base * 2 ^ (Rounds - 1) >= Cap
    /\ Lag \in Nat

VARIABLES
    state,      \* the State stored under each key
    ttl,        \* how much longer the key is kept; 0: it is not there
    attempt,    \* attempt[r]: what r is doing
    locked      \* for how many ticks a key has been cooling down

limiterVars == <<state, ttl, attempt, locked>>

\* An end so long past that no running request can take it for the future;
\* also a State with no cooldown.
Past == -Lag

Fresh == [failures |-> 0, rounds |-> 0, until |-> Past]

States == [failures : Nat, rounds : 0 .. Rounds, until : Past .. Cap]

Attempts ==
    [at : {"idle", "check", "verify", "load", "save", "clear"}, key : Key,
     ip : BOOLEAN, copy : States, age : 0 .. Lag]

Idle == [at |-> "idle", key |-> Address, ip |-> FALSE, copy |-> Fresh, age |-> 0]

Max2(a, b) == IF a >= b THEN a ELSE b

Min2(a, b) == IF a <= b THEN a ELSE b

-----------------------------------------------------------------------------
(* The policy: pure functions of a State and of the time.                  *)

\* The doubling without its ceiling.
BackoffUncapped(rounds) == Base * 2 ^ rounds

Backoff(rounds) ==
    LET delay == Base * 2 ^ (rounds - 1) IN IF delay \in 0 .. Cap THEN delay ELSE Cap

\* Whether a cooldown runs, for a request whose clock is age old.
Running(s, age) == s.until + age > 0

\* One more failure: past the free allowance a cooldown begins, longer by the
\* round, and the count starts again.
Advance(k, s, age) ==
    IF s.failures + 1 > Free[k]
    THEN LET rounds == Min2(s.rounds + 1, Rounds)
         IN  [failures |-> 0, rounds |-> rounds,
              until |-> Max2(Backoff(rounds) - age, Past)]
    ELSE [failures |-> s.failures + 1, rounds |-> s.rounds, until |-> Past]

\* Attempts made during a cooldown would count, towards the next one.
AdvanceAlways(k, s, age) ==
    LET n == Advance(k, s, age) IN
    IF n.until > Past THEN n ELSE [n EXCEPT !.until = s.until]

\* The state after a failure; one recorded during a cooldown does not count.
After(k, s, age) == IF Running(s, age) THEN s ELSE Advance(k, s, age)

\* How long a key is worth remembering.
TTL(s, age) == Max2(Window, s.until + age)

-----------------------------------------------------------------------------
(* A request.                                                              *)

Step(r, x) == attempt' = [attempt EXCEPT ![r] = x]

\* After the address comes the IP, for a request that has one.
Following(r, at, done) ==
    IF attempt[r].key = Address /\ attempt[r].ip
    THEN [attempt[r] EXCEPT !.at = at, !.key = Ip, !.copy = Fresh]
    ELSE done

\* A login has an IP; a change of password at the account page has none.
Arrive(r) ==
    /\ attempt[r].at = "idle"
    /\ \E ip \in BOOLEAN : Step(r, [Idle EXCEPT !.at = "check", !.ip = ip])
    /\ UNCHANGED <<state, ttl, locked>>

Verifying(r) == [attempt[r] EXCEPT !.at = "verify", !.key = Address]

\* Limiter.Check, one load.  An attempt refused by it is over.
Check(r) ==
    /\ attempt[r].at = "check"
    /\ Step(r, IF Running(state[attempt[r].key], attempt[r].age)
               THEN Idle
               ELSE Following(r, "check", Verifying(r)))
    /\ UNCHANGED <<state, ttl, locked>>

\* The store cannot be reached: allowed, whatever is left to check.
CheckFails(r) ==
    /\ attempt[r].at = "check"
    /\ Step(r, Verifying(r))
    /\ UNCHANGED <<state, ttl, locked>>

\* The password is right, is wrong, or the attempt ends for another reason.  To
\* record a failure a login reads the clock again; the account page goes by the
\* time at which it began.
Verify(r) ==
    /\ attempt[r].at = "verify"
    /\ \/ Step(r, [attempt[r] EXCEPT !.at = "load",
                       !.age = IF attempt[r].ip THEN 0 ELSE @])
       \/ Step(r, [attempt[r] EXCEPT !.at = "clear"])
       \/ Step(r, Idle)
    /\ UNCHANGED <<state, ttl, locked>>

\* Limiter.Fail, the load of one counter.
Load(r) ==
    /\ attempt[r].at = "load"
    /\ Step(r, [attempt[r] EXCEPT !.at = "save", !.copy = state[attempt[r].key]])
    /\ UNCHANGED <<state, ttl, locked>>

\* Limiter.Fail, the save.
Save(r) ==
    /\ attempt[r].at = "save"
    /\ LET k == attempt[r].key
           n == After(k, attempt[r].copy, attempt[r].age)
       IN  /\ state' = [state EXCEPT ![k] = n]
           /\ ttl' = [ttl EXCEPT ![k] = TTL(n, attempt[r].age)]
           /\ locked' = [locked EXCEPT ![k] = IF n.until > 0 THEN @ ELSE 0]
    /\ Step(r, Following(r, "load", Idle))

\* The store cannot be reached: this counter is left as it is.
FailFails(r) ==
    /\ attempt[r].at \in {"load", "save"}
    /\ Step(r, Following(r, "load", Idle))
    /\ UNCHANGED <<state, ttl, locked>>

\* Limiter.Succeed deletes the address's counter, and never the IP's.
Succeed(r) ==
    /\ attempt[r].at = "clear"
    /\ Step(r, Idle)
    /\ state' = [state EXCEPT ![Address] = Fresh]
    /\ ttl' = [ttl EXCEPT ![Address] = 0]
    /\ locked' = [locked EXCEPT ![Address] = 0]

\* The request is cut off, or its delete fails.
Abandon(r) ==
    /\ attempt[r].at # "idle"
    /\ Step(r, Idle)
    /\ UNCHANGED <<state, ttl, locked>>

-----------------------------------------------------------------------------
(* Time.                                                                   *)

Later(s) == [s EXCEPT !.until = Max2(s.until - 1, Past)]

\* A tick: keys expire, and no request outlives Lag.
Tick ==
    /\ \A r \in Attempt : attempt[r].at # "idle" => attempt[r].age < Lag
    /\ ttl' = [k \in Key |-> Max2(ttl[k] - 1, 0)]
    /\ state' = [k \in Key |-> IF ttl[k] <= 1 THEN Fresh ELSE Later(state[k])]
    /\ locked' = [k \in Key |-> IF state'[k].until > 0 THEN locked[k] + 1 ELSE 0]
    /\ attempt' = [r \in Attempt |-> IF attempt[r].at = "idle" THEN attempt[r]
                 ELSE [attempt[r] EXCEPT !.age = @ + 1, !.copy = Later(@)]]

-----------------------------------------------------------------------------

LimiterInit ==
    /\ state = [k \in Key |-> Fresh]
    /\ ttl = [k \in Key |-> 0]
    /\ attempt = [r \in Attempt |-> Idle]
    /\ locked = [k \in Key |-> 0]

Move(r) ==
    \/ Arrive(r) \/ Check(r) \/ CheckFails(r) \/ Verify(r) \/ Load(r) \/ Save(r)
    \/ FailFails(r) \/ Succeed(r) \/ Abandon(r)

LimiterNext == Tick \/ \E r \in Attempt : Move(r)

LimiterSpec == LimiterInit /\ [][LimiterNext]_limiterVars

-----------------------------------------------------------------------------
(* Properties.                                                             *)

\* Every part of the state is of its type; a counter never passes the free
\* allowance and no cooldown is longer than Cap.
LimiterTypeOK ==
    /\ state \in [Key -> States]
    /\ \A k \in Key : state[k].failures <= Free[k]
    /\ ttl \in [Key -> 0 .. Max2(Window, Cap + Lag)]
    /\ locked \in [Key -> Nat]
    /\ attempt \in [Attempt -> Attempts]

\* A cooldown is never a lockout: counted from the moment the key began to
\* cool down, it ends within Cap, however many attempts are made during it and
\* however late the ones that were under way record their failure.  And a key
\* is remembered for as long as its cooldown runs.
CooldownEnds ==
    \A k \in Key : state[k].until > 0 =>
        /\ locked[k] + state[k].until <= Cap
        /\ state[k].until <= ttl[k]

\* A cooldown is given up before its time only for a success, or by a request
\* that had loaded the counter before the cooldown began and saves it now.  A
\* failure recorded on top of a running cooldown leaves it alone.
CooldownKept ==
    [][\A k \in Key :
         state[k].until > 1 /\ state'[k].until < state[k].until - 1 =>
             \/ k = Address /\ \E r \in Attempt : attempt[r].at = "clear"
             \/ \E r \in Attempt :
                  /\ attempt[r].at = "save"
                  /\ attempt[r].key = k
                  /\ attempt[r].copy.until < state[k].until]_limiterVars

-----------------------------------------------------------------------------
(* What makes them inductive.                                              *)

\* A key that does not cool down has no cooldown to count.
CountInv == \A k \in Key : state[k].until <= 0 => locked[k] = 0

\* What a request may save on top of what others have saved since it loaded:
\* the cooldown it loaded ends in time as well, and a cooldown of its own
\* starts at its clock, which no cooldown it did not see can be older than.
CopyInv ==
    \A r \in Attempt : attempt[r].at = "save" =>
        /\ attempt[r].copy.failures <= Free[attempt[r].key]
        /\ attempt[r].copy.until > 0 =>
               locked[attempt[r].key] + attempt[r].copy.until <= Cap
        /\ ~ Running(attempt[r].copy, attempt[r].age) =>
               locked[attempt[r].key] <= attempt[r].age

\* The inductive invariant.
LimiterInv == LimiterTypeOK /\ CooldownEnds /\ CountInv /\ CopyInv

=============================================================================
