---------------------------- MODULE SigningKeys ----------------------------
(***************************************************************************)
(* The keys that sign access tokens and ID tokens, and their rotation      *)
(* (backend/internal/signing, backend/cmd/keyctl).                         *)
(*                                                                         *)
(* A key's row goes from next (published, does not sign) to current (the   *)
(* one that signs) to previous (published, no longer signs) to retired.    *)
(* An operator moves it with keyctl; every instance of the service reads   *)
(* the rows through a cache it trusts for TTL, and every consumer of the   *)
(* published set keeps what it fetched for CacheAge.  A token names the    *)
(* key that signed it, and is good for Lifetime.  Nobody is told of a      *)
(* rotation: the four ages below are all that keeps a good token from      *)
(* being refused.                                                          *)
(*                                                                         *)
(* Time passes in ticks.  Grace is how long past its TTL a snapshot may    *)
(* still be used, because the loads that should replace it fail or are     *)
(* slow; Publish and Overlap are how long the operator waits before a      *)
(* rotation and before a retirement.  The clocks are ages, each stopped    *)
(* where being older makes no difference.                                  *)
(***************************************************************************)
EXTENDS Integers

CONSTANTS
    Key,        \* the keys that are ever generated
    Instance,   \* the processes of the service
    Consumer,   \* applications that cache the published key set
    NoKey,      \* a snapshot in which no key signs
    TTL,        \* DefaultCacheTTL
    Grace,      \* how long a snapshot may be used past the TTL
    CacheAge,   \* how long a consumer keeps the set it fetched
    Lifetime,   \* AccessTokenLifetime, the longer of the two
    Publish,    \* the operator's wait between generate and rotate
    Overlap,    \* the operator's wait between rotate and retire
    Careful     \* whether the operator makes a key readable before rotating

ASSUME TimesAssumption ==
    /\ TTL \in Nat \ {0}
    /\ Grace \in Nat
    /\ CacheAge \in Nat
    /\ Lifetime \in Nat \ {0}
    /\ Publish \in Nat
    /\ Overlap \in Nat
    /\ Careful \in BOOLEAN
    /\ NoKey \notin Key

\* What the operator has to wait for: a rotation until every snapshot and
\* every consumer's copy has been replaced since the key was generated, a
\* retirement until no snapshot can sign with the key and what it signed has
\* expired.
ASSUME WaitsAssumption ==
    /\ Publish >= TTL + Grace + CacheAge
    /\ Overlap >= TTL + Grace + Lifetime

VARIABLES
    status,     \* signing_keys.status of each key
    before,     \* the rows that were there when the key's row was inserted
    since,      \* the age of the key's status
    readable,   \* the keys whose private file the service can read
    serving,    \* the instances that have been started
    loaded,     \* the instances whose cache holds a snapshot
    signs,      \* the current key of an instance's snapshot
    published,  \* the keys of an instance's snapshot
    age,        \* the age of an instance's snapshot
    jwks,       \* the set a consumer fetched last
    held,       \* the age of that set
    live        \* how long the youngest token a key signed is still good

rows  == <<status, before, since, readable>>
cache == <<loaded, signs, published, age>>
world == <<serving, jwks, held, live>>
vars  == <<rows, cache, world>>

Stages == {"absent", "next", "current", "previous", "retired"}

\* The age from which a snapshot is no longer used.
Worn == TTL + Grace

\* The age at which the operator has nothing left to wait for.
Waited == IF Publish >= Overlap THEN Publish ELSE Overlap

Min2(a, b) == IF a <= b THEN a ELSE b

-----------------------------------------------------------------------------
(* The rows, and what a load reads.                                        *)

\* Every key that is not retired: what Load selects and Verifying keeps.
Verifying == {k \in Key : status[k] \in {"next", "current", "previous"}}

Current == {k \in Key : status[k] = "current"}

\* Only the current key's private half is resolved; if it cannot be read the
\* load fails as a whole.
Loadable == Current \subseteq readable

\* The snapshot of instance i becomes what the rows say.
Load(i) ==
    /\ Loadable
    /\ loaded' = [loaded EXCEPT ![i] = TRUE]
    /\ published' = [published EXCEPT ![i] = Verifying]
    /\ \E k \in Key \cup {NoKey} :
         /\ IF Current = {} THEN k = NoKey ELSE k \in Current
         /\ signs' = [signs EXCEPT ![i] = k]
    /\ age' = [age EXCEPT ![i] = 0]

-----------------------------------------------------------------------------
(* The operator.                                                           *)

\* keyctl generate: the private file is written, then the row.
Generate(k) ==
    /\ status[k] = "absent"
    /\ status' = [status EXCEPT ![k] = "next"]
    /\ before' = [before EXCEPT ![k] = {j \in Key : status[j] # "absent"}]
    /\ since' = [since EXCEPT ![k] = 0]
    /\ UNCHANGED <<readable, cache, world>>

\* secrets.sh fix: the service becomes the owner of the private file.
MakeReadable(k) ==
    /\ status[k] # "absent"
    /\ k \notin readable
    /\ readable' = readable \cup {k}
    /\ UNCHANGED <<status, before, since, cache, world>>

\* The faulty choice: the newest key in the next state.
Newest(k) ==
    /\ status[k] = "next"
    /\ \A j \in Key \ {k} : status[j] = "next" => j \in before[k]

\* The oldest key in the next state.
Oldest(k) ==
    /\ status[k] = "next"
    /\ \A j \in Key \ {k} : status[j] = "next" => j \notin before[k]

\* What the operator has waited for: some generated key has been published
\* long enough, and its file is readable.
Announced ==
    \E j \in Key : /\ status[j] = "next"
                   /\ since[j] >= Publish
                   /\ Careful => {k \in Key : status[k] = "next"} \subseteq readable

\* The statuses after key k takes over from the current one.
Promoted(k) ==
    [j \in Key |-> IF j = k THEN "current"
                   ELSE IF status[j] = "current" THEN "previous"
                   ELSE status[j]]

Restarted(k) ==
    [j \in Key |-> IF j = k \/ status[j] = "current" THEN 0 ELSE since[j]]

\* keyctl rotate: one transaction promotes the oldest next key and demotes
\* the current one.
Rotate(k) ==
    /\ Announced
    /\ Oldest(k)
    /\ status' = Promoted(k)
    /\ since' = Restarted(k)
    /\ UNCHANGED <<before, readable, cache, world>>

\* The operator's way back while the old key is still previous.
RollBack(k) ==
    /\ status[k] = "previous"
    /\ status' = Promoted(k)
    /\ since' = Restarted(k)
    /\ UNCHANGED <<before, readable, cache, world>>

\* keyctl retire: only a previous key can be retired.
Retire(k) ==
    /\ status[k] = "previous"
    /\ since[k] >= Overlap
    /\ status' = [status EXCEPT ![k] = "retired"]
    /\ UNCHANGED <<before, since, readable, cache, world>>

-----------------------------------------------------------------------------
(* An instance's cache.  After Get the snapshot, refreshed or not, is what *)
(* the caller is given.                                                    *)

Fresh(i) == loaded[i] /\ age[i] < TTL

\* The faulty cache: a load that fails makes the old snapshot fresh again.
GetForever(i) ==
    \/ Fresh(i) /\ UNCHANGED cache
    \/ ~Fresh(i) /\ Load(i)
    \/ /\ loaded[i] /\ ~Fresh(i)
       /\ age[i] < Worn \/ ~Loadable
       /\ age' = [age EXCEPT ![i] = 0]
       /\ UNCHANGED <<loaded, signs, published>>

\* A fresh snapshot, else a reload, else - the load failed - the old one.
Get(i) ==
    \/ Fresh(i) /\ UNCHANGED cache
    \/ ~Fresh(i) /\ Load(i)
    \/ /\ loaded[i] /\ ~Fresh(i)
       /\ age[i] < Worn \/ ~Loadable
       /\ UNCHANGED cache

\* A process starts with an empty cache and asks for the keys once.  When it
\* gets none it logs a warning and serves.
Start(i) ==
    /\ serving' = [serving EXCEPT ![i] = TRUE]
    /\ \/ Load(i)
       \/ /\ ~Loadable
          /\ loaded' = [loaded EXCEPT ![i] = FALSE]
          /\ UNCHANGED <<signs, published, age>>
    /\ UNCHANGED <<rows, jwks, held, live>>

\* Sign: a token by the current key of the instance's snapshot.
Sign(i) ==
    /\ serving[i]
    /\ Get(i)
    /\ signs'[i] # NoKey
    /\ live' = [live EXCEPT ![signs'[i]] = Lifetime]
    /\ UNCHANGED <<rows, serving, jwks, held>>

\* Verify: the instance looks a token's key up in its snapshot.
Verify(i) ==
    /\ serving[i]
    /\ Get(i)
    /\ UNCHANGED <<rows, world>>

\* A consumer fetches the published set from some instance.
Fetch(c, i) ==
    /\ serving[i]
    /\ Get(i)
    /\ jwks' = [jwks EXCEPT ![c] = published'[i]]
    /\ held' = [held EXCEPT ![c] = 0]
    /\ UNCHANGED <<rows, serving, live>>

-----------------------------------------------------------------------------
(* Time.                                                                   *)

Tick ==
    /\ since' = [k \in Key |-> Min2(since[k] + 1, Waited)]
    /\ age' = [i \in Instance |-> Min2(age[i] + 1, Worn)]
    /\ held' = [c \in Consumer |-> Min2(held[c] + 1, CacheAge)]
    /\ live' = [k \in Key |-> IF live[k] = 0 THEN 0 ELSE live[k] - 1]
    /\ UNCHANGED <<status, before, readable, serving, loaded, signs, published, jwks>>

-----------------------------------------------------------------------------

\* A deployment with one key, before its instances are started.
Init ==
    /\ \E first \in Key :
         /\ status = [k \in Key |-> IF k = first THEN "current" ELSE "absent"]
         /\ readable = {first}
    /\ before = [k \in Key |-> {}]
    /\ since = [k \in Key |-> 0]
    /\ serving = [i \in Instance |-> FALSE]
    /\ loaded = [i \in Instance |-> FALSE]
    /\ signs = [i \in Instance |-> NoKey]
    /\ published = [i \in Instance |-> {}]
    /\ age = [i \in Instance |-> 0]
    /\ jwks = [c \in Consumer |-> {}]
    /\ held = [c \in Consumer |-> CacheAge]
    /\ live = [k \in Key |-> 0]

Next ==
    \/ \E k \in Key : Generate(k) \/ MakeReadable(k) \/ Rotate(k) \/ RollBack(k) \/ Retire(k)
    \/ \E i \in Instance : Start(i) \/ Sign(i) \/ Verify(i)
    \/ \E c \in Consumer, i \in Instance : Fetch(c, i)
    \/ Tick

Spec == Init /\ [][Next]_vars

-----------------------------------------------------------------------------
(* Properties.                                                             *)

\* Every variable has its type.  Load, Rotate and Tick together keep the one
\* row that signs and the ages within their bounds.
TypeOK ==
    /\ status \in [Key -> Stages]
    /\ before \in [Key -> SUBSET Key]
    /\ since \in [Key -> 0..Waited]
    /\ readable \subseteq Key
    /\ serving \in [Instance -> BOOLEAN]
    /\ loaded \in [Instance -> BOOLEAN]
    /\ signs \in [Instance -> Key \cup {NoKey}]
    /\ published \in [Instance -> SUBSET Key]
    /\ age \in [Instance -> 0..Worn]
    /\ jwks \in [Consumer -> SUBSET Key]
    /\ held \in [Consumer -> 0..CacheAge]
    /\ live \in [Key -> 0..Lifetime]
    /\ \E k \in Key : Current = {k}

\* An instance whose snapshot may still be handed out.
Usable(i) == loaded[i] /\ age[i] < Worn

\* A token is good until it expires, wherever it is presented: the key that
\* signed it is in the rows a load would read, in every snapshot an instance
\* may still use and in every set a consumer still keeps, throughout any
\* sequence of rotations, rollbacks, retirements, restarts and failed loads.
LiveTokensVerify ==
    \A k \in Key : live[k] > 0 =>
        /\ k \in Verifying
        /\ \A i \in Instance : Usable(i) => k \in published[i]
        /\ \A c \in Consumer : held[c] < CacheAge => k \in jwks[c]

\* A rotation lands: once a key has been demoted for the life of a snapshot no
\* instance signs with it any more, although no instance was told.
RotationLands ==
    \A k \in Key, i \in Instance :
        status[k] \in {"previous", "retired"} /\ since[k] >= Worn
            => ~(Usable(i) /\ signs[i] = k)

\* What the runbook says of a service that cannot read its signing key: it
\* does not start.  (Violated: the failure of the first load is a warning.)
StartsWithKeys == \A i \in Instance : serving[i] => loaded[i]

=============================================================================
