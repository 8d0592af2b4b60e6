---------------------------- MODULE SigningProofs ----------------------------
(***************************************************************************)
(* For any number of keys, instances and consumers, and any times that     *)
(* satisfy WaitsAssumption: with an operator who makes a key readable      *)
(* before rotating to it, no good token is refused and every rotation      *)
(* lands.                                                                  *)
(*                                                                         *)
(* The invariant relates the age of a key's status to the age of whatever  *)
(* may still disagree with it.  A key in the next state is in every copy   *)
(* younger than itself; once promoted it is in every copy still in use; a  *)
(* demoted key signs only in snapshots older than its demotion, and what   *)
(* it signed expires by the time it may be retired.                        *)
(*                                                                         *)
(* Then the answers the service signs (SamlSignOn): theorems for any       *)
(* number of requests, ids, registrations, sessions and organizations.     *)
(***************************************************************************)
EXTENDS SigningKeys, SamlSignOn, FiniteSetTheorems, TLAPS

\* What the operator promises.
Prepared == Careful = TRUE

\* Rows are inserted one after the other, and an earlier row is older.
InsertedInOrder ==
    \A j, k \in Key :
        /\ j \in before[k] => status[j] # "absent"
        /\ status[j] = "next" /\ status[k] = "next" /\ j # k =>
               /\ j \in before[k] \/ k \in before[j]
               /\ j \in before[k] => since[k] <= since[j]

\* A key that has been promoted can be read.
SignersReadable ==
    \A k \in Key : status[k] \in {"current", "previous", "retired"} => k \in readable

\* A key that was never promoted has signed nothing.
NeverSigned ==
    \A k \in Key : status[k] \in {"absent", "next"} =>
        /\ live[k] = 0
        /\ \A i \in Instance : signs[i] # k

\* A generated key reaches a snapshot and a consumer's set as they are
\* replaced.
SpreadToInstances ==
    \A k \in Key, i \in Instance :
        status[k] = "next" /\ Usable(i) /\ age[i] < since[k] => k \in published[i]

SpreadToConsumers ==
    \A k \in Key, c \in Consumer :
        status[k] = "next" /\ held[c] < CacheAge /\ held[c] + Worn <= since[k]
            => k \in jwks[c]

\* A key that signs, or signed until lately, is known everywhere.
KnownToInstances ==
    \A k \in Key, i \in Instance :
        status[k] \in {"current", "previous"} /\ Usable(i) => k \in published[i]

KnownToConsumers ==
    \A k \in Key, c \in Consumer :
        status[k] \in {"current", "previous"} /\ held[c] < CacheAge => k \in jwks[c]

\* Who still signs with a demoted key has not looked since.
SignersAreOld ==
    \A k \in Key, i \in Instance :
        status[k] \in {"previous", "retired"} /\ Usable(i) /\ signs[i] = k
            => since[k] <= age[i]

\* What a demoted key signed runs out.
TokensRunOut ==
    \A k \in Key :
        status[k] \in {"previous", "retired"} /\ live[k] > 0
            => live[k] + since[k] < Worn + Lifetime

RetiredLate == \A k \in Key : status[k] = "retired" => since[k] >= Overlap

KeysInv ==
    /\ TypeOK
    /\ InsertedInOrder
    /\ SignersReadable
    /\ NeverSigned
    /\ SpreadToInstances
    /\ SpreadToConsumers
    /\ KnownToInstances
    /\ KnownToConsumers
    /\ SignersAreOld
    /\ TokensRunOut
    /\ RetiredLate

-----------------------------------------------------------------------------

LEMMA Times ==
    /\ Worn \in Nat \ {0}
    /\ TTL \in Nat \ {0} /\ TTL <= Worn
    /\ CacheAge \in Nat /\ Lifetime \in Nat \ {0}
    /\ Publish \in Nat /\ Overlap \in Nat /\ Waited \in Nat
    /\ Publish <= Waited /\ Overlap <= Waited
    /\ Worn + CacheAge <= Publish
    /\ Worn + Lifetime <= Overlap
    /\ NoKey \notin Key
BY TimesAssumption, WaitsAssumption DEF Worn, Waited

LEMMA Smaller ==
    ASSUME NEW a \in Nat, NEW b \in Nat
    PROVE  /\ Min2(a, b) \in 0..b
           /\ Min2(a, b) <= a
           /\ Min2(a, b) < b => Min2(a, b) = a
           /\ \A n \in Nat : n <= a /\ n <= b => n <= Min2(a, b)
BY DEF Min2

\* The facts the initial state establishes.
LEMMA InitKeys ==
    ASSUME Prepared, Init
    PROVE  KeysInv
<1> USE Times
<1>1. TypeOK
  <2>1. PICK first \in Key :
           /\ status = [k \in Key |-> IF k = first THEN "current" ELSE "absent"]
           /\ readable = {first}
    BY DEF Init
  <2>2. Current = {first}
    BY <2>1 DEF Current
  <2> QED BY <2>1, <2>2 DEF Init, TypeOK, Stages
<1>2. \A k \in Key : /\ status[k] \in {"current", "absent"}
                     /\ status[k] = "current" => k \in readable
                     /\ live[k] = 0
                     /\ before[k] = {}
  BY DEF Init
<1>3. \A i \in Instance : loaded[i] = FALSE /\ signs[i] = NoKey
  BY DEF Init
<1>4. \A c \in Consumer : held[c] = CacheAge
  BY DEF Init
<1>5. InsertedInOrder /\ SignersReadable /\ TokensRunOut /\ RetiredLate
  BY <1>2 DEF InsertedInOrder, SignersReadable, TokensRunOut, RetiredLate
<1>6. NeverSigned
  BY <1>2, <1>3 DEF NeverSigned
<1>7. SpreadToInstances /\ KnownToInstances /\ SignersAreOld
  BY <1>3 DEF SpreadToInstances, KnownToInstances, SignersAreOld, Usable
<1>8. SpreadToConsumers /\ KnownToConsumers
  BY <1>4 DEF SpreadToConsumers, KnownToConsumers
<1> QED BY <1>1, <1>5, <1>6, <1>7, <1>8 DEF KeysInv

-----------------------------------------------------------------------------
(* The operator's steps change the rows and leave every copy alone.        *)

LEMMA OneSigns ==
    ASSUME TypeOK
    PROVE  \E f \in Key : status[f] = "current"
                          /\ \A k \in Key : status[k] = "current" => k = f
BY DEF TypeOK, Current

LEMMA GenerateKeeps ==
    ASSUME KeysInv, NEW n \in Key, Generate(n)
    PROVE  KeysInv'
<1> USE Times DEF cache, world
<1>1. /\ status[n] = "absent" /\ status'[n] = "next" /\ since'[n] = 0
      /\ before'[n] = {j \in Key : status[j] # "absent"}
      /\ \A k \in Key \ {n} : /\ status'[k] = status[k]
                              /\ since'[k] = since[k]
                              /\ before'[k] = before[k]
  BY DEF Generate, KeysInv, TypeOK
<1>2. \A k \in Key : since[k] \in Nat
  BY DEF KeysInv, TypeOK
<1>3. /\ UNCHANGED <<readable, serving, loaded, signs, published, age, jwks, held, live>>
      /\ \A i \in Instance : Usable(i)' <=> Usable(i)
  BY DEF Generate, Usable
<1>4. TypeOK'
  <2>1. Current' = Current
    BY <1>1 DEF Current
  <2> QED BY <2>1, <1>3 DEF Generate, KeysInv, TypeOK, Stages
<1>5. InsertedInOrder'
  <2> SUFFICES ASSUME NEW j \in Key, NEW k \in Key
               PROVE  /\ j \in before'[k] => status'[j] # "absent"
                      /\ status'[j] = "next" /\ status'[k] = "next" /\ j # k =>
                           /\ j \in before'[k] \/ k \in before'[j]
                           /\ j \in before'[k] => since'[k] <= since'[j]
    BY DEF InsertedInOrder
  <2>1. /\ j \in before[k] => status[j] # "absent"
        /\ status[j] = "next" /\ status[k] = "next" /\ j # k =>
             /\ j \in before[k] \/ k \in before[j]
             /\ j \in before[k] => since[k] <= since[j]
    BY DEF KeysInv, InsertedInOrder
  <2>2. CASE k = n
    BY <1>1, <1>2, <2>1, <2>2
  <2>3. CASE j = n /\ k # n
    BY <1>1, <1>2, <2>1, <2>3
  <2>4. CASE k # n /\ j # n
    BY <1>1, <2>1, <2>4
  <2> QED BY <2>2, <2>3, <2>4
<1>6. SignersReadable' /\ NeverSigned'
  BY <1>1, <1>3 DEF KeysInv, SignersReadable, NeverSigned
<1>7. SpreadToInstances'
  <2>1. \A i \in Instance : age[i] \in Nat
    BY DEF KeysInv, TypeOK
  <2> QED BY <1>1, <1>3, <2>1 DEF KeysInv, SpreadToInstances
<1>8. SpreadToConsumers'
  <2>1. \A c \in Consumer : held[c] \in Nat
    BY DEF KeysInv, TypeOK
  <2> QED BY <1>1, <1>3, <2>1 DEF KeysInv, SpreadToConsumers
<1>9. KnownToInstances' /\ KnownToConsumers' /\ SignersAreOld'
  BY <1>1, <1>3 DEF KeysInv, KnownToInstances, KnownToConsumers, SignersAreOld
<1>10. TokensRunOut' /\ RetiredLate'
  BY <1>1, <1>3 DEF KeysInv, TokensRunOut, RetiredLate
<1> QED BY <1>4, <1>5, <1>6, <1>7, <1>8, <1>9, <1>10 DEF KeysInv

LEMMA MakeReadableKeeps ==
    ASSUME KeysInv, NEW n \in Key, MakeReadable(n)
    PROVE  KeysInv'
<1>1. /\ UNCHANGED <<status, before, since, serving, loaded, signs, published, age, jwks,
                     held, live>>
      /\ readable' = readable \cup {n}
  BY DEF MakeReadable, cache, world
<1>2. TypeOK'
  BY <1>1 DEF KeysInv, TypeOK, Current
<1>3. InsertedInOrder' /\ SignersReadable' /\ NeverSigned'
  BY <1>1 DEF KeysInv, InsertedInOrder, SignersReadable, NeverSigned
<1>4. SpreadToInstances' /\ SpreadToConsumers' /\ KnownToInstances' /\ KnownToConsumers'
  BY <1>1 DEF KeysInv, SpreadToInstances, SpreadToConsumers, KnownToInstances,
              KnownToConsumers, Usable
<1>5. SignersAreOld' /\ TokensRunOut' /\ RetiredLate'
  BY <1>1 DEF KeysInv, SignersAreOld, TokensRunOut, RetiredLate, Usable
<1> QED BY <1>2, <1>3, <1>4, <1>5 DEF KeysInv

\* The oldest next key has waited as long as the one the operator watched.
LEMMA OldestHasWaited ==
    ASSUME KeysInv, Prepared, NEW n \in Key, Oldest(n), Announced
    PROVE  since[n] >= Publish /\ n \in readable
<1> USE Times
<1>1. PICK j \in Key : /\ status[j] = "next"
                       /\ since[j] >= Publish
                       /\ {k \in Key : status[k] = "next"} \subseteq readable
  BY DEF Announced, Prepared
<1>2. since[j] \in Nat /\ since[n] \in Nat
  BY DEF KeysInv, TypeOK
<1>3. CASE j = n
  BY <1>1, <1>3 DEF Oldest
<1>4. CASE j # n
  <2>1. n \in before[j] /\ (n \in before[j] => since[j] <= since[n])
    BY <1>1, <1>4 DEF KeysInv, InsertedInOrder, Oldest
  <2> QED BY <1>1, <1>2, <2>1 DEF Oldest
<1> QED BY <1>3, <1>4

\* A key that is known everywhere, or has been spread long enough, takes over.
LEMMA PromotionKeeps ==
    ASSUME KeysInv, NEW n \in Key, status[n] \in {"next", "previous"}, n \in readable,
           status[n] = "next" => since[n] >= Publish,
           status' = Promoted(n), since' = Restarted(n),
           UNCHANGED <<before, readable, cache, world>>
    PROVE  KeysInv'
<1> USE Times DEF cache, world
<1>1. PICK f \in Key : /\ status[f] = "current"
                       /\ \A k \in Key : status[k] = "current" => k = f
  BY OneSigns DEF KeysInv
<1>2. /\ status'[n] = "current" /\ since'[n] = 0
      /\ status'[f] = "previous" /\ since'[f] = 0
      /\ n # f
      /\ \A k \in Key \ {n, f} : status'[k] = status[k] /\ since'[k] = since[k]
  BY <1>1 DEF Promoted, Restarted
<1>3. /\ \A k \in Key : since[k] \in Nat /\ live[k] \in 0..Lifetime
      /\ \A i \in Instance : age[i] \in Nat
      /\ \A c \in Consumer : held[c] \in Nat
  BY DEF KeysInv, TypeOK
<1>4. /\ UNCHANGED <<before, readable, serving, loaded, signs, published, age, jwks, held, live>>
      /\ \A i \in Instance : Usable(i)' <=> Usable(i)
  BY DEF Usable
<1>5. TypeOK'
  <2>1. Current' = {n}
    BY <1>1, <1>2 DEF Current
  <2>2. status' \in [Key -> Stages]
    BY DEF KeysInv, TypeOK, Stages, Promoted
  <2>3. since' \in [Key -> 0..Waited]
    BY DEF KeysInv, TypeOK, Restarted
  <2> QED BY <2>1, <2>2, <2>3, <1>4 DEF KeysInv, TypeOK
<1>6. InsertedInOrder'
  BY <1>1, <1>2, <1>4 DEF KeysInv, InsertedInOrder
<1>7. SignersReadable' /\ NeverSigned'
  BY <1>1, <1>2, <1>4 DEF KeysInv, SignersReadable, NeverSigned
<1>8. SpreadToInstances' /\ SpreadToConsumers'
  BY <1>1, <1>2, <1>4 DEF KeysInv, SpreadToInstances, SpreadToConsumers
<1>9. \A i \in Instance : Usable(i) => n \in published[i]
  <2> SUFFICES ASSUME NEW i \in Instance, Usable(i) PROVE n \in published[i]
    OBVIOUS
  <2>1. CASE status[n] = "next"
    BY <1>3, <2>1 DEF KeysInv, SpreadToInstances, Usable
  <2>2. CASE status[n] = "previous"
    BY <2>2 DEF KeysInv, KnownToInstances
  <2> QED BY <2>1, <2>2
<1>10. \A c \in Consumer : held[c] < CacheAge => n \in jwks[c]
  <2> SUFFICES ASSUME NEW c \in Consumer, held[c] < CacheAge PROVE n \in jwks[c]
    OBVIOUS
  <2>1. CASE status[n] = "next"
    BY <1>3, <2>1 DEF KeysInv, SpreadToConsumers
  <2>2. CASE status[n] = "previous"
    BY <2>2 DEF KeysInv, KnownToConsumers
  <2> QED BY <2>1, <2>2
<1>11. KnownToInstances' /\ KnownToConsumers'
  BY <1>1, <1>2, <1>4, <1>9, <1>10 DEF KeysInv, KnownToInstances, KnownToConsumers
<1>12. SignersAreOld'
  BY <1>1, <1>2, <1>3, <1>4 DEF KeysInv, SignersAreOld
<1>13. TokensRunOut' /\ RetiredLate'
  BY <1>1, <1>2, <1>3, <1>4 DEF KeysInv, TokensRunOut, RetiredLate
<1> QED BY <1>5, <1>6, <1>7, <1>8, <1>11, <1>12, <1>13 DEF KeysInv

LEMMA RetireKeeps ==
    ASSUME KeysInv, NEW n \in Key, Retire(n)
    PROVE  KeysInv'
<1> USE Times DEF cache, world
<1>1. /\ status[n] = "previous" /\ since[n] >= Overlap /\ status'[n] = "retired"
      /\ \A k \in Key \ {n} : status'[k] = status[k]
  BY DEF Retire, KeysInv, TypeOK
<1>2. /\ UNCHANGED <<before, since, readable, serving, loaded, signs, published, age, jwks,
                     held, live>>
      /\ \A i \in Instance : Usable(i)' <=> Usable(i)
  BY DEF Retire, Usable
<1>3. TypeOK'
  <2>1. Current' = Current
    BY <1>1 DEF Current
  <2> QED BY <2>1, <1>2 DEF Retire, KeysInv, TypeOK, Stages
<1>4. InsertedInOrder' /\ SignersReadable' /\ NeverSigned'
  BY <1>1, <1>2 DEF KeysInv, InsertedInOrder, SignersReadable, NeverSigned
<1>5. SpreadToInstances' /\ SpreadToConsumers' /\ KnownToInstances' /\ KnownToConsumers'
  BY <1>1, <1>2 DEF KeysInv, SpreadToInstances, SpreadToConsumers, KnownToInstances,
                    KnownToConsumers
<1>6. SignersAreOld' /\ TokensRunOut' /\ RetiredLate'
  BY <1>1, <1>2 DEF KeysInv, SignersAreOld, TokensRunOut, RetiredLate
<1> QED BY <1>3, <1>4, <1>5, <1>6 DEF KeysInv

-----------------------------------------------------------------------------
(* The service's steps leave the rows alone.                               *)

\* What the invariant says of the instances' snapshots.
SnapshotsInv ==
    /\ SpreadToInstances
    /\ KnownToInstances
    /\ SignersAreOld
    /\ \A k \in Key : status[k] \in {"absent", "next"} =>
           \A i \in Instance : signs[i] # k

CacheTyped ==
    /\ loaded \in [Instance -> BOOLEAN]
    /\ signs \in [Instance -> Key \cup {NoKey}]
    /\ published \in [Instance -> SUBSET Key]
    /\ age \in [Instance -> 0..Worn]

\* A load reads a set with everything that may be asked of it.
LEMMA LoadKeeps ==
    ASSUME KeysInv, NEW i \in Instance, Load(i), UNCHANGED rows
    PROVE  /\ SnapshotsInv' /\ CacheTyped' /\ Usable(i)'
           /\ published'[i] = Verifying
           /\ signs'[i] \in Current
<1> USE Times DEF rows
<1>1. PICK k \in Key \cup {NoKey} :
         /\ IF Current = {} THEN k = NoKey ELSE k \in Current
         /\ signs' = [signs EXCEPT ![i] = k]
  BY DEF Load
<1>2. k \in Current /\ k \in Key /\ status[k] = "current"
  BY <1>1 DEF KeysInv, TypeOK, Current
<1>3. /\ loaded' = [loaded EXCEPT ![i] = TRUE]
      /\ published' = [published EXCEPT ![i] = Verifying]
      /\ age' = [age EXCEPT ![i] = 0]
  BY DEF Load
<1>4. CacheTyped'
  BY <1>1, <1>2, <1>3 DEF KeysInv, TypeOK, CacheTyped, Verifying
<1>5. /\ loaded'[i] = TRUE /\ published'[i] = Verifying /\ age'[i] = 0 /\ signs'[i] = k
      /\ \A o \in Instance \ {i} : /\ loaded'[o] = loaded[o] /\ published'[o] = published[o]
                                   /\ age'[o] = age[o] /\ signs'[o] = signs[o]
                                   /\ Usable(o)' <=> Usable(o)
  BY <1>1, <1>3 DEF KeysInv, TypeOK, Usable
<1>6. status' = status /\ since' = since
  OBVIOUS
<1>7. SpreadToInstances' /\ KnownToInstances'
  BY <1>5, <1>6 DEF KeysInv, SpreadToInstances, KnownToInstances, Verifying
<1>8. SignersAreOld'
  BY <1>2, <1>5, <1>6 DEF KeysInv, SignersAreOld
<1>9. \A j \in Key : status'[j] \in {"absent", "next"} =>
          \A o \in Instance : signs'[o] # j
  BY <1>2, <1>5, <1>6 DEF KeysInv, NeverSigned
<1>10. Usable(i)'
  BY <1>5 DEF Usable
<1> QED BY <1>2, <1>4, <1>5, <1>7, <1>8, <1>9, <1>10 DEF SnapshotsInv

LEMMA CacheStays ==
    ASSUME KeysInv, UNCHANGED <<rows, cache>>
    PROVE  SnapshotsInv' /\ CacheTyped'
<1> USE DEF rows, cache
<1>1. SnapshotsInv'
  BY DEF KeysInv, SnapshotsInv, SpreadToInstances, KnownToInstances, SignersAreOld,
         NeverSigned, Usable
<1>2. CacheTyped'
  BY DEF KeysInv, TypeOK, CacheTyped
<1> QED BY <1>1, <1>2

\* Get answers with a snapshot that is still in use, and its signer is known.
LEMMA GetKeeps ==
    ASSUME KeysInv, NEW i \in Instance, Get(i), UNCHANGED rows
    PROVE  SnapshotsInv' /\ CacheTyped' /\ Usable(i)'
<1> USE Times DEF cache
<1>1. Loadable
  BY DEF Loadable, Current, KeysInv, SignersReadable
<1>2. age[i] \in Nat
  BY DEF KeysInv, TypeOK
<1>3. (Usable(i) /\ UNCHANGED cache) \/ Load(i)
  BY <1>1, <1>2 DEF Get, Fresh, Usable
<1>4. CASE Usable(i) /\ UNCHANGED cache
  <2>1. Usable(i)'
    BY <1>4 DEF Usable
  <2> QED BY <1>4, <2>1, CacheStays DEF cache
<1>5. CASE Load(i)
  BY <1>5, LoadKeeps
<1> QED BY <1>3, <1>4, <1>5

\* The rest of the invariant does not mention the snapshots.
LEMMA RowsStay ==
    ASSUME KeysInv, UNCHANGED rows
    PROVE  /\ InsertedInOrder' /\ SignersReadable' /\ RetiredLate'
           /\ status' \in [Key -> Stages] /\ before' \in [Key -> SUBSET Key]
           /\ since' \in [Key -> 0..Waited] /\ readable' \subseteq Key
           /\ \E k \in Key : Current' = {k}
BY DEF KeysInv, TypeOK, rows, InsertedInOrder, SignersReadable, RetiredLate, Current

\* A step of the service that keeps the consumers' sets and signs nothing.
LEMMA QuietKeeps ==
    ASSUME KeysInv, UNCHANGED <<rows, jwks, held, live>>,
           SnapshotsInv', CacheTyped', serving' \in [Instance -> BOOLEAN]
    PROVE  KeysInv'
<1>1. TypeOK'
  BY RowsStay DEF KeysInv, TypeOK, CacheTyped
<1>2. SpreadToConsumers' /\ KnownToConsumers' /\ TokensRunOut'
  BY DEF KeysInv, rows, SpreadToConsumers, KnownToConsumers, TokensRunOut
<1>3. NeverSigned'
  BY DEF KeysInv, rows, NeverSigned, SnapshotsInv
<1> QED BY <1>1, <1>2, <1>3, RowsStay DEF KeysInv, SnapshotsInv

LEMMA StartKeeps ==
    ASSUME KeysInv, NEW i \in Instance, Start(i)
    PROVE  KeysInv'
<1>1. Loadable
  BY DEF Loadable, Current, KeysInv, SignersReadable
<1>2. Load(i) /\ UNCHANGED <<rows, jwks, held, live>>
  BY <1>1 DEF Start
<1>3. serving' \in [Instance -> BOOLEAN]
  BY DEF Start, KeysInv, TypeOK
<1> QED BY <1>2, <1>3, LoadKeeps, QuietKeeps

LEMMA VerifyKeeps ==
    ASSUME KeysInv, NEW i \in Instance, Verify(i)
    PROVE  KeysInv'
<1>1. Get(i) /\ UNCHANGED <<rows, jwks, held, live>> /\ UNCHANGED serving
  BY DEF Verify, world
<1>2. serving' \in [Instance -> BOOLEAN]
  BY <1>1 DEF KeysInv, TypeOK
<1> QED BY <1>1, <1>2, GetKeeps, QuietKeeps

LEMMA SignKeeps ==
    ASSUME KeysInv, NEW i \in Instance, Sign(i)
    PROVE  KeysInv'
<1> USE Times
<1>1. /\ SnapshotsInv' /\ CacheTyped' /\ Usable(i)'
      /\ UNCHANGED <<rows, serving, jwks, held>>
  BY GetKeeps DEF Sign
<1> DEFINE s == signs'[i]
<1>2. s \in Key
  BY <1>1 DEF Sign, CacheTyped
<1>3. PICK n \in Key : n = s
  BY <1>2
<1>4. live' = [live EXCEPT ![n] = Lifetime]
  BY <1>3 DEF Sign
<1>5. live' \in [Key -> 0..Lifetime]
  BY <1>4 DEF KeysInv, TypeOK
<1>6. \A k \in Key : live'[k] = IF k = n THEN Lifetime ELSE live[k]
  BY <1>4 DEF KeysInv, TypeOK
<1>7. TypeOK'
  BY <1>1, <1>5, RowsStay DEF KeysInv, TypeOK, CacheTyped
<1>8. SpreadToConsumers' /\ KnownToConsumers'
  BY <1>1 DEF KeysInv, rows, SpreadToConsumers, KnownToConsumers
<1>9. NeverSigned'
  BY <1>1, <1>3, <1>6 DEF KeysInv, rows, NeverSigned, SnapshotsInv
<1>10. TokensRunOut'
  <2>1. /\ status' = status /\ since' = since
        /\ \A k \in Key : since[k] \in Nat
        /\ age'[i] \in 0..Worn
    BY <1>1 DEF rows, KeysInv, TypeOK, CacheTyped
  <2>2. status'[n] \in {"previous", "retired"} => since'[n] <= age'[i] /\ age'[i] < Worn
    BY <1>1, <1>3 DEF SnapshotsInv, SignersAreOld, Usable
  <2>3. status'[n] \in {"previous", "retired"} => Lifetime + since'[n] < Worn + Lifetime
    BY <2>1, <2>2
  <2> QED BY <1>6, <2>1, <2>3 DEF KeysInv, TokensRunOut
<1> QED BY <1>1, <1>7, <1>8, <1>9, <1>10, RowsStay DEF KeysInv, SnapshotsInv

LEMMA FetchKeeps ==
    ASSUME KeysInv, NEW c \in Consumer, NEW i \in Instance, Fetch(c, i)
    PROVE  KeysInv'
<1> USE Times
<1>1. /\ SnapshotsInv' /\ CacheTyped' /\ Usable(i)'
      /\ UNCHANGED <<rows, serving, live>>
      /\ jwks' = [jwks EXCEPT ![c] = published'[i]]
      /\ held' = [held EXCEPT ![c] = 0]
  BY GetKeeps DEF Fetch
<1>2. jwks' \in [Consumer -> SUBSET Key] /\ held' \in [Consumer -> 0..CacheAge]
  BY <1>1 DEF KeysInv, TypeOK, CacheTyped
<1>3. TypeOK'
  BY <1>1, <1>2, RowsStay DEF KeysInv, TypeOK, CacheTyped
<1>4. /\ jwks'[c] = published'[i] /\ held'[c] = 0
      /\ \A o \in Consumer \ {c} : jwks'[o] = jwks[o] /\ held'[o] = held[o]
      /\ age'[i] \in Nat /\ age'[i] < Worn
      /\ \A k \in Key : since[k] \in Nat
      /\ status' = status /\ since' = since
  BY <1>1 DEF KeysInv, TypeOK, CacheTyped, Usable, rows
<1>5. SpreadToConsumers'
  <2> SUFFICES ASSUME NEW k \in Key, NEW o \in Consumer,
                      status'[k] = "next", held'[o] < CacheAge, held'[o] + Worn <= since'[k]
               PROVE  k \in jwks'[o]
    BY DEF SpreadToConsumers
  <2>1. CASE o = c
    <3>1. age'[i] < since'[k]
      BY <1>4, <2>1
    <3> QED BY <1>1, <1>4, <2>1, <3>1 DEF SnapshotsInv, SpreadToInstances
  <2>2. CASE o # c
    BY <1>4, <2>2 DEF KeysInv, SpreadToConsumers
  <2> QED BY <2>1, <2>2
<1>6. KnownToConsumers'
  BY <1>1, <1>4 DEF KeysInv, KnownToConsumers, SnapshotsInv, KnownToInstances
<1>7. NeverSigned' /\ TokensRunOut'
  BY <1>1 DEF KeysInv, rows, NeverSigned, SnapshotsInv, TokensRunOut
<1> QED BY <1>1, <1>3, <1>5, <1>6, <1>7, RowsStay DEF KeysInv, SnapshotsInv

-----------------------------------------------------------------------------
(* Time: whatever may disagree with a key's status ages as fast as the     *)
(* status does.                                                            *)

LEMMA TickKeeps ==
    ASSUME KeysInv, Tick
    PROVE  KeysInv'
<1> USE Times
<1>1. /\ UNCHANGED <<status, before, readable, serving, loaded, signs, published, jwks>>
      /\ \A k \in Key : /\ since'[k] = Min2(since[k] + 1, Waited)
                        /\ live'[k] = IF live[k] = 0 THEN 0 ELSE live[k] - 1
      /\ \A i \in Instance : age'[i] = Min2(age[i] + 1, Worn)
      /\ \A c \in Consumer : held'[c] = Min2(held[c] + 1, CacheAge)
  BY DEF Tick
<1>2. /\ \A k \in Key : since[k] \in 0..Waited /\ live[k] \in 0..Lifetime
      /\ \A i \in Instance : age[i] \in 0..Worn
      /\ \A c \in Consumer : held[c] \in 0..CacheAge
  BY DEF KeysInv, TypeOK
<1>3. \A k \in Key : /\ since'[k] \in 0..Waited
                     /\ since'[k] <= since[k] + 1
                     /\ since[k] <= since'[k]
                     /\ live'[k] \in 0..Lifetime
                     /\ live'[k] > 0 => live'[k] = live[k] - 1
                     /\ live[k] = 0 => live'[k] = 0
  BY <1>1, <1>2 DEF Min2
<1>4. \A i \in Instance : /\ age'[i] \in 0..Worn
                          /\ age[i] <= age'[i]
                          /\ Usable(i)' => Usable(i) /\ age'[i] = age[i] + 1
  BY <1>1, <1>2 DEF Min2, Usable
<1>5. \A c \in Consumer : /\ held'[c] \in 0..CacheAge
                          /\ held'[c] < CacheAge =>
                                 held'[c] = held[c] + 1 /\ held[c] < CacheAge
  BY <1>1, <1>2 DEF Min2
<1>6. TypeOK'
  <2>1. since' \in [Key -> 0..Waited] /\ live' \in [Key -> 0..Lifetime]
    BY <1>3 DEF Tick
  <2>2. age' \in [Instance -> 0..Worn] /\ held' \in [Consumer -> 0..CacheAge]
    BY <1>4, <1>5 DEF Tick
  <2> QED BY <1>1, <2>1, <2>2 DEF KeysInv, TypeOK, Current
<1>7. InsertedInOrder'
  <2> SUFFICES ASSUME NEW j \in Key, NEW k \in Key
               PROVE  /\ j \in before'[k] => status'[j] # "absent"
                      /\ status'[j] = "next" /\ status'[k] = "next" /\ j # k =>
                           /\ j \in before'[k] \/ k \in before'[j]
                           /\ j \in before'[k] => since'[k] <= since'[j]
    BY DEF InsertedInOrder
  <2>1. since[k] <= since[j] => since'[k] <= since'[j]
    BY <1>1, <1>2 DEF Min2
  <2> QED BY <1>1, <2>1 DEF KeysInv, InsertedInOrder
<1>8. SignersReadable' /\ NeverSigned'
  BY <1>1, <1>3 DEF KeysInv, SignersReadable, NeverSigned
<1>9. SpreadToInstances'
  <2> SUFFICES ASSUME NEW k \in Key, NEW i \in Instance,
                      status'[k] = "next", Usable(i)', age'[i] < since'[k]
               PROVE  k \in published'[i]
    BY DEF SpreadToInstances
  <2>1. Usable(i) /\ age[i] < since[k]
    BY <1>2, <1>3, <1>4
  <2> QED BY <1>1, <2>1 DEF KeysInv, SpreadToInstances
<1>10. SpreadToConsumers'
  <2> SUFFICES ASSUME NEW k \in Key, NEW c \in Consumer,
                      status'[k] = "next", held'[c] < CacheAge, held'[c] + Worn <= since'[k]
               PROVE  k \in jwks'[c]
    BY DEF SpreadToConsumers
  <2>1. held[c] < CacheAge /\ held[c] + Worn <= since[k]
    BY <1>2, <1>3, <1>5
  <2> QED BY <1>1, <2>1 DEF KeysInv, SpreadToConsumers
<1>11. KnownToInstances' /\ KnownToConsumers'
  BY <1>1, <1>4, <1>5 DEF KeysInv, KnownToInstances, KnownToConsumers
<1>12. SignersAreOld'
  <2> SUFFICES ASSUME NEW k \in Key, NEW i \in Instance,
                      status'[k] \in {"previous", "retired"}, Usable(i)', signs'[i] = k
               PROVE  since'[k] <= age'[i]
    BY DEF SignersAreOld
  <2>1. since[k] <= age[i]
    BY <1>1, <1>4 DEF KeysInv, SignersAreOld
  <2> QED BY <1>2, <1>3, <1>4, <2>1
<1>13. TokensRunOut'
  <2> SUFFICES ASSUME NEW k \in Key, status'[k] \in {"previous", "retired"},
                      live'[k] > 0
               PROVE  live'[k] + since'[k] < Worn + Lifetime
    BY DEF TokensRunOut
  <2>1. live[k] > 0 /\ live'[k] = live[k] - 1
    BY <1>2, <1>3
  <2>2. live[k] + since[k] < Worn + Lifetime
    BY <1>1, <2>1 DEF KeysInv, TokensRunOut
  <2> QED BY <1>2, <1>3, <2>1, <2>2
<1>14. RetiredLate'
  <2> SUFFICES ASSUME NEW k \in Key, status'[k] = "retired" PROVE since'[k] >= Overlap
    BY DEF RetiredLate
  <2>1. since[k] >= Overlap
    BY <1>1 DEF KeysInv, RetiredLate
  <2> QED BY <1>2, <1>3, <2>1
<1> QED BY <1>6, <1>7, <1>8, <1>9, <1>10, <1>11, <1>12, <1>13, <1>14 DEF KeysInv

-----------------------------------------------------------------------------

LEMMA NextKeeps ==
    ASSUME Prepared, KeysInv, [Next]_vars
    PROVE  KeysInv'
<1>1. CASE UNCHANGED vars
  <2>1. UNCHANGED <<status, before, since, readable, serving, loaded, signs, published, age,
                    jwks, held, live>>
    BY <1>1 DEF vars, rows, cache, world
  <2>2. SnapshotsInv' /\ CacheTyped'
    BY <2>1, CacheStays DEF rows, cache
  <2>3. serving' \in [Instance -> BOOLEAN]
    BY <2>1 DEF KeysInv, TypeOK
  <2> QED BY <2>1, <2>2, <2>3, QuietKeeps DEF rows
<1>2. ASSUME NEW k \in Key, Generate(k) PROVE KeysInv'
  BY <1>2, GenerateKeeps
<1>3. ASSUME NEW k \in Key, MakeReadable(k) PROVE KeysInv'
  BY <1>3, MakeReadableKeeps
<1>4. ASSUME NEW k \in Key, Rotate(k) PROVE KeysInv'
  <2>1. Oldest(k) /\ Announced
    BY <1>4 DEF Rotate
  <2>2. status[k] = "next" /\ since[k] >= Publish /\ k \in readable
    BY <2>1, OldestHasWaited DEF Oldest
  <2> QED BY <1>4, <2>2, PromotionKeeps DEF Rotate
<1>5. ASSUME NEW k \in Key, RollBack(k) PROVE KeysInv'
  <2>1. status[k] = "previous" /\ k \in readable
    BY <1>5 DEF RollBack, KeysInv, SignersReadable
  <2> QED BY <1>5, <2>1, PromotionKeeps DEF RollBack
<1>6. ASSUME NEW k \in Key, Retire(k) PROVE KeysInv'
  BY <1>6, RetireKeeps
<1>7. ASSUME NEW i \in Instance, Start(i) PROVE KeysInv'
  BY <1>7, StartKeeps
<1>8. ASSUME NEW i \in Instance, Sign(i) PROVE KeysInv'
  BY <1>8, SignKeeps
<1>9. ASSUME NEW i \in Instance, Verify(i) PROVE KeysInv'
  BY <1>9, VerifyKeeps
<1>10. ASSUME NEW c \in Consumer, NEW i \in Instance, Fetch(c, i) PROVE KeysInv'
  BY <1>10, FetchKeeps
<1>11. CASE Tick
  BY <1>11, TickKeeps
<1> QED
  BY <1>1, <1>2, <1>3, <1>4, <1>5, <1>6, <1>7, <1>8, <1>9, <1>10, <1>11 DEF Next

\* The ages of the rows, the snapshots and the consumers' sets stay related as
\* KeysInv says.
THEOREM KeysInvariant ==
    ASSUME Prepared
    PROVE  Spec => []KeysInv
<1>1. Init => KeysInv
  BY InitKeys
<1>2. KeysInv /\ [Next]_vars => KeysInv'
  BY NextKeeps
<1> QED BY <1>1, <1>2, PTL DEF Spec

\* Type correctness, with exactly one key that signs at any time.
THEOREM TypeCorrect ==
    ASSUME Prepared
    PROVE  Spec => []TypeOK
<1>1. KeysInv => TypeOK
  BY DEF KeysInv
<1> QED BY <1>1, KeysInvariant, PTL

\* No good token is refused by an instance, restarted or not, or by a consumer
\* that keeps the published set for CacheAge, through any rotations.
THEOREM NoTokenRefused ==
    ASSUME Prepared
    PROVE  Spec => []LiveTokensVerify
<1>1. ASSUME KeysInv PROVE LiveTokensVerify
  <2> USE Times
  <2> SUFFICES ASSUME NEW k \in Key, live[k] > 0
               PROVE  status[k] \in {"current", "previous"}
    BY <1>1 DEF LiveTokensVerify, KeysInv, KnownToInstances, KnownToConsumers, Verifying
  <2>1. status[k] \in Stages /\ live[k] \in Nat /\ since[k] \in Nat
    BY <1>1 DEF KeysInv, TypeOK
  <2>2. status[k] \notin {"absent", "next"}
    BY <1>1, <2>1 DEF KeysInv, NeverSigned
  <2>3. ASSUME status[k] = "retired" PROVE FALSE
    <3>1. live[k] + since[k] < Worn + Lifetime
      BY <1>1, <2>3 DEF KeysInv, TokensRunOut
    <3>2. since[k] >= Overlap
      BY <1>1, <2>3 DEF KeysInv, RetiredLate
    <3> QED BY <2>1, <3>1, <3>2
  <2> QED BY <2>1, <2>2, <2>3 DEF Stages
<1> QED BY <1>1, KeysInvariant, PTL

\* A demoted key is out of use as soon as every snapshot has been replaced.
THEOREM EveryRotationLands ==
    ASSUME Prepared
    PROVE  Spec => []RotationLands
<1>1. ASSUME KeysInv PROVE RotationLands
  <2> USE Times
  <2> SUFFICES ASSUME NEW k \in Key, NEW i \in Instance,
                      status[k] \in {"previous", "retired"}, since[k] >= Worn,
                      Usable(i), signs[i] = k
               PROVE  FALSE
    BY DEF RotationLands
  <2>1. since[k] <= age[i] /\ age[i] < Worn
    BY <1>1 DEF KeysInv, SignersAreOld, Usable
  <2>2. since[k] \in Nat /\ age[i] \in Nat
    BY <1>1 DEF KeysInv, TypeOK
  <2> QED BY <2>1, <2>2
<1> QED BY <1>1, KeysInvariant, PTL

-----------------------------------------------------------------------------
(***************************************************************************)
(* SamlSignOn: an answer is as good as what its request made sure of.      *)
(*                                                                         *)
(* The facts a request has established survive whatever happens between    *)
(* its steps, because a session never changes hands or loses a factor,     *)
(* and one opened for a request is never too old for it (Handled).  That   *)
(* a login answers once is an account: each time an id was filed pays for  *)
(* the row on file, or for the one login that consumed it, or for its      *)
(* answer (OnceInv).                                                       *)
(***************************************************************************)

\* What the steps have in common.

\* No step forgets a session, or whose it is, or its factors.
Grows ==
    /\ \A s \in Sessions : session[s] # "none" =>
          session'[s] # "none" /\ home'[s] = home[s]
    /\ multi \subseteq multi'

LEMMA NoRequestOk ==
    /\ NoRequest \in Request
    /\ NoRequest.pc = "idle" /\ NoRequest.ask = NoId /\ NoRequest.began = NoSP
    /\ NoRequest.session = NoSession /\ NoRequest.to = NoSP
    /\ NoId \notin Ids /\ Handled(NoRequest)
BY SignOnAssumption DEF NoRequest, Request, Handled

\* A request that moves on leaves the others where they are.
LEMMA Moves ==
    ASSUME SignOnTypeOK, NEW q \in Requests, NEW r \in Request, Go(q, r)
    PROVE  /\ req' \in [Requests -> Request] /\ req'[q] = r
           /\ \A p \in Requests \ {q} : req'[p] = req[p]
BY DEF Go, SignOnTypeOK

LEMMA HandledKept ==
    ASSUME SignOnTypeOK, NEW r \in Request, Handled(r), Grows, UNCHANGED asked,
           r.ask \in Ids => stale'[r.ask] = stale[r.ask]
    PROVE  Handled(r)'
<1>1. strong' = strong /\ (r.ask # NoId => r.ask \in Ids)
  BY DEF asked, Request
<1>2. Satisfies(r.ask, r.session) => Satisfies(r.ask, r.session)'
  BY <1>1 DEF Satisfies, Grows
<1>3. r.session \in Sessions /\ session[r.session] # "none" =>
        session'[r.session] # "none" /\ home'[r.session] = home[r.session]
  BY DEF Grows
<1>4. r.ask # NoId /\ r.session \notin stale[r.ask] => r.session \notin stale'[r.ask]
  BY <1>1
<1>5. QED
  BY <1>2, <1>3, <1>4 DEF Handled

LEMMA AllHandled ==
    ASSUME SignOnTypeOK, Grows, UNCHANGED asked,
           \A p \in Requests : \E r \in Request :
              r = req'[p] /\ Handled(r) /\ (r.ask \in Ids => stale'[r.ask] = stale[r.ask])
    PROVE  HandledInv'
<1> SUFFICES ASSUME NEW p \in Requests PROVE Handled(req[p])'
  BY DEF HandledInv
<1>1. PICK r \in Request :
         r = req'[p] /\ Handled(r) /\ (r.ask \in Ids => stale'[r.ask] = stale[r.ask])
  OBVIOUS
<1>2. Handled(r)'
  BY <1>1, HandledKept
<1>3. QED
  BY <1>1, <1>2 DEF Handled, Satisfies

LEMMA AnswersKept ==
    ASSUME SignOnTypeOK, AnswersInv, AnswersFit, AnswersStayHome, Grows,
           UNCHANGED <<asked, answers>>,
           \A a \in answers : a.ask \in Ids => stale'[a.ask] = stale[a.ask]
    PROVE  AnswersInv' /\ AnswersFit' /\ AnswersStayHome'
<1>1. strong' = strong
  BY DEF asked
<1>2. \A a \in answers : a.session \in Sessions /\ (a.ask # NoId => a.ask \in Ids)
  BY DEF SignOnTypeOK, Answers
<1>3. AnswersInv'
  BY <1>2 DEF AnswersInv, Grows
<1>4. AnswersFit'
  <2> SUFFICES ASSUME NEW a \in answers, a.ask # NoId
               PROVE  a.session \notin stale'[a.ask] /\ Satisfies(a.ask, a.session)'
    BY DEF AnswersFit
  <2>1. a.session \notin stale[a.ask] /\ Satisfies(a.ask, a.session)
    BY DEF AnswersFit
  <2>2. stale'[a.ask] = stale[a.ask]
    BY <1>2
  <2>3. QED
    BY <1>1, <2>1, <2>2 DEF Satisfies, Grows
<1>5. AnswersStayHome'
  BY <1>2 DEF AnswersStayHome, AnswersInv, Grows
<1>6. QED
  BY <1>3, <1>4, <1>5

LEMMA StaleKept ==
    ASSUME SignOnTypeOK, StaleInv, Grows, UNCHANGED <<stale, forced>>,
           made \subseteq made'
    PROVE  StaleInv'
<1>1. \A i \in Ids : stale[i] \subseteq Sessions
  BY DEF SignOnTypeOK
<1>2. \A s \in Sessions : session[s] # "none" => session'[s] # "none"
  BY DEF Grows
<1>3. stale' = stale /\ forced' = forced
  OBVIOUS
<1>4. ASSUME NEW i \in Ids
      PROVE  /\ \A s \in stale[i] : session'[s] # "none"
             /\ stale[i] # {} => i \in forced \cap made'
  BY <1>1, <1>2 DEF StaleInv
<1>5. QED
  BY <1>3, <1>4 DEF StaleInv

\* The account of an id: what can be counted, and that it is balanced.
LEMMA Account ==
    ASSUME SignOnTypeOK, OnceInv, NEW i \in Ids
    PROVE  \E a, b, m \in Nat :
              /\ IsFiniteSet(AnsweredByLogin(i)) /\ a = Cardinality(AnsweredByLogin(i))
              /\ IsFiniteSet(Answering(i)) /\ b = Cardinality(Answering(i))
              /\ m = recorded[i]
              /\ a + b + (IF filed[i] = "open" THEN 1 ELSE 0) <= m
<1>1. /\ IsFiniteSet(AnsweredByLogin(i)) /\ IsFiniteSet(Answering(i))
      /\ Cardinality(AnsweredByLogin(i)) + Cardinality(Answering(i))
              + (IF filed[i] = "open" THEN 1 ELSE 0) <= recorded[i]
  BY DEF OnceInv
<1>2. /\ Cardinality(AnsweredByLogin(i)) \in Nat /\ Cardinality(Answering(i)) \in Nat
      /\ recorded[i] \in Nat
  BY <1>1, FS_CardinalityType, SignOnAssumption DEF SignOnTypeOK
<1>3. QED
  BY <1>1, <1>2

LEMMA SmallerSet ==
    ASSUME NEW S, IsFiniteSet(S), NEW T, T \subseteq S
    PROVE  /\ IsFiniteSet(T) /\ Cardinality(T) \in Nat /\ Cardinality(S) \in Nat
           /\ Cardinality(T) <= Cardinality(S)
<1>1. T \in SUBSET S
  OBVIOUS
<1>2. IsFiniteSet(T) /\ Cardinality(T) <= Cardinality(S)
  BY <1>1, FS_Subset
<1>3. QED
  BY <1>2, FS_CardinalityType

\* A step that answers nothing, files nothing and resumes nothing.
LEMMA OnceKept ==
    ASSUME SignOnTypeOK, OnceInv, UNCHANGED <<answers, recorded>>,
           \A i \in Ids : /\ Answering(i)' \subseteq Answering(i)
                          /\ filed'[i] = "open" => filed[i] = "open"
    PROVE  OnceInv'
<1> SUFFICES ASSUME NEW i \in Ids
             PROVE  /\ IsFiniteSet(AnsweredByLogin(i)) /\ IsFiniteSet(Answering(i)')
                    /\ Cardinality(AnsweredByLogin(i)) + Cardinality(Answering(i)')
                          + (IF filed'[i] = "open" THEN 1 ELSE 0) <= recorded[i]
  BY DEF OnceInv, AnsweredByLogin
<1>1. PICK a, b, m \in Nat :
              /\ IsFiniteSet(AnsweredByLogin(i)) /\ a = Cardinality(AnsweredByLogin(i))
              /\ IsFiniteSet(Answering(i)) /\ b = Cardinality(Answering(i))
              /\ m = recorded[i]
              /\ a + b + (IF filed[i] = "open" THEN 1 ELSE 0) <= m
  BY Account
<1> DEFINE S == Answering(i)
           T == Answering(i)'
<1>2. T \subseteq S /\ IsFiniteSet(S)
  BY <1>1
<1> HIDE DEF S, T
<1>3. PICK c \in Nat : c = Cardinality(T) /\ c <= Cardinality(S) /\ IsFiniteSet(T)
  BY <1>2, SmallerSet
<1>4. IsFiniteSet(T) /\ a + c + (IF filed'[i] = "open" THEN 1 ELSE 0) <= m
  BY <1>1, <1>3 DEF S
<1>5. QED
  BY <1>1, <1>3, <1>4 DEF T

\* A request that moves on without resuming a login.
LEMMA AnsweringKept ==
    ASSUME SignOnTypeOK, NEW q \in Requests, NEW r \in Request, Go(q, r),
           r.pc \in {"fit", "issue"} /\ r.began # NoSP =>
               /\ req[q].pc \in {"fit", "issue"} /\ req[q].began # NoSP
               /\ req[q].ask = r.ask
    PROVE  \A i \in Ids : Answering(i)' \subseteq Answering(i)
BY Moves DEF Answering

LEMMA RequestKeeps ==
    ASSUME SignOnInv, NEW q \in Requests, NEW r \in Request, Go(q, r),
           UNCHANGED <<asked, provider, filings, sessions, history>>,
           Handled(r), r.ask \notin forced \ made,
           r.pc \in {"fit", "issue"} /\ r.began # NoSP =>
               /\ req[q].pc \in {"fit", "issue"} /\ req[q].began # NoSP
               /\ req[q].ask = r.ask
    PROVE  SignOnInv'
<1>1. /\ req' \in [Requests -> Request] /\ req'[q] = r
      /\ \A p \in Requests \ {q} : req'[p] = req[p]
  BY Moves DEF SignOnInv
<1>2. /\ SignOnTypeOK
      /\ UNCHANGED <<own, forced, strong, registered, past, invited, filed, sp,
            overdue, session, home, multi, recorded, answers, made, stale>>
  BY DEF SignOnInv, asked, provider, filings, sessions, history
<1>3. SignOnTypeOK'
  BY <1>1, <1>2 DEF SignOnTypeOK
<1>4. Grows
  BY <1>2 DEF Grows
<1>5. StaleInv' /\ AnswersInv' /\ AnswersFit' /\ AnswersStayHome'
  BY <1>2, <1>4, StaleKept, AnswersKept DEF SignOnInv
<1>6. UnseenInv'
  BY <1>1, <1>2 DEF SignOnInv, UnseenInv
<1>7. HandledInv'
  <2>1. \A p \in Requests : req'[p] \in Request /\ Handled(req'[p])
    BY <1>1 DEF SignOnInv, HandledInv
  <2>2. QED
    BY <1>2, <1>4, <2>1, AllHandled
<1>8. OnceInv'
  BY <1>2, AnsweringKept, OnceKept DEF SignOnInv
<1>9. QED
  BY <1>3, <1>5, <1>6, <1>7, <1>8 DEF SignOnInv

-----------------------------------------------------------------------------
\* The sign-on endpoints.

LEMMA AskKeeps ==
    ASSUME SignOnInv, NEW q \in Requests, NEW i \in Ids, NEW r \in Registrations,
           Ask(q, i, r)
    PROVE  SignOnInv'
<1> DEFINE x == [NoRequest EXCEPT !.pc = "lookup", !.ask = i, !.to = r]
<1>1. /\ x \in Request /\ x.pc = "lookup" /\ x.ask = i /\ x.began = NoSP
  BY NoRequestOk DEF Request
<1> HIDE DEF x
<1>2. Go(q, x)
  BY DEF Ask, x
<1>3. /\ req' \in [Requests -> Request] /\ req'[q] = x
      /\ \A p \in Requests \ {q} : req'[p] = req[p]
  BY <1>1, <1>2, Moves DEF SignOnInv
<1>4. /\ SignOnTypeOK /\ i \notin own
      /\ UNCHANGED <<asked, own, forced, strong, registered, past,
           invited, filed, sp, overdue, session, home, multi, recorded, answers>>
      /\ made' = made \cup ({i} \cap forced)
      /\ stale' = IF i \in made' \ made
                  THEN [stale EXCEPT ![i] = {s \in Sessions : session[s] # "none"}]
                  ELSE stale
  BY DEF Ask, SignOnInv, asked, provider, filings, sessions
<1>5. /\ made' \in SUBSET Ids /\ stale' \in [Ids -> SUBSET Sessions]
      /\ \A j \in Ids : j # i \/ j \notin forced \ made => stale'[j] = stale[j]
      /\ i \in forced \ made => stale'[i] = {s \in Sessions : session[s] # "none"}
      /\ \A j \in Ids : j \in forced \cap made' <=> j \in forced /\ (j \in made \/ j = i)
  BY <1>4 DEF SignOnTypeOK
<1>6. SignOnTypeOK'
  BY <1>3, <1>4, <1>5 DEF SignOnTypeOK
<1>7. Grows
  BY <1>4 DEF Grows
<1>8. StaleInv'
  BY <1>4, <1>5 DEF SignOnInv, StaleInv
<1>9. UnseenInv'
  BY <1>1, <1>3, <1>4, <1>5 DEF SignOnInv, UnseenInv
<1>10. \A a \in answers : a.ask \in Ids => stale'[a.ask] = stale[a.ask]
  BY <1>5 DEF SignOnInv, UnseenInv
<1>11. AnswersInv' /\ AnswersFit' /\ AnswersStayHome'
  BY <1>4, <1>7, <1>10, AnswersKept DEF SignOnInv
<1>12. HandledInv'
  <2>1. Handled(x)'
    BY <1>1 DEF Handled
  <2>2. ASSUME NEW p \in Requests \ {q} PROVE Handled(req[p])'
    <3>1. PICK y \in Request : y = req[p] /\ y = req'[p] /\ Handled(y)
      BY <1>3, <1>4 DEF SignOnInv, HandledInv, SignOnTypeOK
    <3>2. y.ask \in Ids => stale'[y.ask] = stale[y.ask]
      BY <1>5, <3>1 DEF SignOnInv, UnseenInv
    <3>3. Handled(y)'
      BY <1>4, <1>7, <3>1, <3>2, HandledKept
    <3>4. QED
      BY <3>1, <3>3 DEF Handled, Satisfies
  <2>3. QED
    BY <1>3, <2>1, <2>2 DEF HandledInv, Handled, Satisfies
<1>13. OnceInv'
  BY <1>1, <1>2, <1>4, AnsweringKept, OnceKept DEF SignOnInv
<1>14. QED
  BY <1>6, <1>8, <1>9, <1>11, <1>12, <1>13 DEF SignOnInv

\* A request is filed for the first time, or again after it was swept.
LEMMA RecordKeeps ==
    ASSUME SignOnInv, NEW q \in Requests, NEW i \in Ids, NEW r \in Registrations,
           Record(i, r), Done(q), i \notin forced \ made,
           UNCHANGED <<asked, provider, sessions, answers, made, stale>>
    PROVE  SignOnInv'
<1>1. /\ req' \in [Requests -> Request] /\ req'[q] = NoRequest
      /\ \A p \in Requests \ {q} : req'[p] = req[p]
  BY NoRequestOk, Moves DEF Done, SignOnInv
<1>2. /\ SignOnTypeOK /\ UNCHANGED <<own, forced, strong, registered, past,
           invited, session, home, multi, answers, made, stale>>
  BY DEF SignOnInv, asked, provider, sessions
<1>3. recorded[i] + 1 \in 0 .. MaxRecords
  BY <1>2, SignOnAssumption DEF Record, SignOnTypeOK
<1>4. /\ filed[i] = "none" /\ filed' = [filed EXCEPT ![i] = "open"]
      /\ filed' \in [Ids -> {"none", "open", "spent"}]
      /\ sp' \in [Ids -> Registrations \cup {NoSP}] /\ overdue' \in SUBSET Ids
      /\ recorded' = [recorded EXCEPT ![i] = recorded[i] + 1]
      /\ recorded' \in [Ids -> 0 .. MaxRecords]
  BY <1>2, <1>3 DEF Record, SignOnTypeOK
<1>5. SignOnTypeOK'
  BY <1>1, <1>2, <1>4 DEF SignOnTypeOK
<1>6. Grows
  BY <1>2 DEF Grows
<1>7. StaleInv' /\ AnswersInv' /\ AnswersFit' /\ AnswersStayHome'
  BY <1>2, <1>6, StaleKept, AnswersKept DEF SignOnInv
<1>8. UnseenInv'
  BY <1>1, <1>2, <1>4, NoRequestOk DEF SignOnInv, UnseenInv, SignOnTypeOK
<1>9. HandledInv'
  <2>1. \A p \in Requests : req'[p] \in Request /\ Handled(req'[p])
    BY <1>1, NoRequestOk DEF SignOnInv, HandledInv
  <2>2. QED
    BY <1>2, <1>6, <2>1, AllHandled
<1>10. OnceInv'
  <2> SUFFICES ASSUME NEW j \in Ids
               PROVE  /\ IsFiniteSet(AnsweredByLogin(j)) /\ IsFiniteSet(Answering(j)')
                      /\ Cardinality(AnsweredByLogin(j)) + Cardinality(Answering(j)')
                          + (IF filed'[j] = "open" THEN 1 ELSE 0) <= recorded'[j]
    BY <1>2 DEF OnceInv, AnsweredByLogin
  <2>1. PICK a, b, m \in Nat :
              /\ IsFiniteSet(AnsweredByLogin(j)) /\ a = Cardinality(AnsweredByLogin(j))
              /\ IsFiniteSet(Answering(j)) /\ b = Cardinality(Answering(j))
              /\ m = recorded[j]
              /\ a + b + (IF filed[j] = "open" THEN 1 ELSE 0) <= m
    BY Account DEF SignOnInv
  <2>2. Answering(j)' \subseteq Answering(j)
    BY <1>2, NoRequestOk, AnsweringKept DEF Done
  <2> DEFINE S == Answering(j)
             T == Answering(j)'
  <2>3. T \subseteq S /\ IsFiniteSet(S)
    BY <2>1, <2>2
  <2> HIDE DEF S, T
  <2>4. PICK c \in Nat : c = Cardinality(T) /\ c <= Cardinality(S) /\ IsFiniteSet(T)
    BY <2>3, SmallerSet
  <2>5. c <= b
    BY <2>1, <2>4 DEF S
  <2>6. PICK n \in Nat : /\ n = recorded'[j]
                         /\ a + c + (IF filed'[j] = "open" THEN 1 ELSE 0) <= n
    <3>1. CASE j = i
      <4>1. recorded'[j] = m + 1 /\ a + b <= m
        BY <1>2, <1>4, <2>1, <3>1 DEF SignOnTypeOK
      <4>2. a + c + (IF filed'[j] = "open" THEN 1 ELSE 0) <= m + 1
        BY <2>5, <4>1
      <4>3. QED
        BY <4>1, <4>2
    <3>2. CASE j # i
      <4>1. recorded'[j] = m /\ filed'[j] = filed[j]
        BY <1>2, <1>4, <2>1, <3>2 DEF SignOnTypeOK
      <4>2. a + c + (IF filed'[j] = "open" THEN 1 ELSE 0) <= m
        BY <2>1, <2>5, <4>1
      <4>3. QED
        BY <4>1, <4>2
    <3>3. QED
      BY <3>1, <3>2
  <2>7. QED
    BY <2>1, <2>4, <2>6 DEF T
<1>11. QED
  BY <1>5, <1>7, <1>8, <1>9, <1>10 DEF SignOnInv

LEMMA FindSessionKeeps ==
    ASSUME SignOnInv, NEW q \in Requests, NEW s \in Sessions, FindSession(q, s)
    PROVE  SignOnInv'
<1> DEFINE x == [req[q] EXCEPT !.pc = "issue", !.session = s]
<1>1. /\ req[q] \in Request /\ req[q].pc = "lookup" /\ req[q].began = NoSP
      /\ session[s] # "none" /\ home[s] = Org(req[q].to) /\ req[q].ask \notin forced
      /\ UNCHANGED <<asked, provider, filings, sessions, history>>
  BY DEF FindSession, SignOnInv, SignOnTypeOK, HandledInv, Handled
<1>2. CASE Satisfies(req[q].ask, s)
  <2>1. Go(q, x)
    BY <1>2 DEF FindSession
  <2>2. /\ x \in Request /\ x.pc = "issue" /\ x.session = s /\ x.ask = req[q].ask
        /\ x.to = req[q].to /\ x.began = NoSP
    BY <1>1 DEF Request
  <2>3. x.ask # NoId => stale[x.ask] = {}
    BY <1>1, <2>2 DEF SignOnInv, StaleInv, Request
  <2> HIDE DEF x
  <2>4. Handled(x)
    BY <1>1, <1>2, <2>2, <2>3 DEF Handled
  <2>5. QED
    BY <1>1, <2>1, <2>2, <2>4, RequestKeeps
<1>3. CASE ~ Satisfies(req[q].ask, s)
  <2>1. Go(q, NoRequest)
    BY <1>3 DEF FindSession, Done
  <2>2. NoRequest.ask \notin forced \ made
    BY NoRequestOk DEF SignOnInv, SignOnTypeOK
  <2>3. QED
    BY <1>1, <2>1, <2>2, NoRequestOk, RequestKeeps
<1>4. QED
  BY <1>2, <1>3

-----------------------------------------------------------------------------
\* The login page and what resumes it.

LEMMA LoginKeeps ==
    ASSUME SignOnInv, NEW q \in Requests, NEW i \in Ids, Login(q, i)
    PROVE  SignOnInv'
<1> DEFINE x == [NoRequest EXCEPT !.pc = "login", !.ask = i, !.to = sp[i]]
<1>1. /\ filed[i] = "open" /\ sp[i] \in Registrations
      /\ UNCHANGED <<asked, provider, filings, sessions, history>> /\ Go(q, x)
  BY SignOnAssumption DEF Login, Peek, ByID, SignOnInv, SignOnTypeOK
<1>2. /\ x \in Request /\ x.pc = "login" /\ x.ask = i /\ x.to = sp[i]
  BY <1>1, NoRequestOk DEF Request
<1>3. Handled(x) /\ i \notin forced \ made
  BY <1>1, <1>2, SignOnAssumption DEF Handled, SignOnInv, UnseenInv
<1> HIDE DEF x
<1>4. QED
  BY <1>1, <1>2, <1>3, RequestKeeps

\* What a session that is opened leaves in place.
LEMMA OpenGrows ==
    ASSUME SignOnTypeOK, NEW s \in Sessions, NEW o \in Orgs, Open(s, o)
    PROVE  /\ Grows /\ session[s] = "none" /\ session'[s] = "live" /\ home'[s] = o
           /\ session' \in [Sessions -> {"none", "live", "ended"}]
           /\ home' \in [Sessions -> Orgs \cup {NoOrg}] /\ multi' \in SUBSET Sessions
BY DEF Open, SignOnTypeOK, Grows

LEMMA OpenSessionKeeps ==
    ASSUME SignOnInv, NEW q \in Requests, NEW s \in Sessions, OpenSession(q, s)
    PROVE  SignOnInv'
<1> DEFINE next == [req[q] EXCEPT !.pc = "resume", !.session = s]
<1>0. /\ next \in Request /\ next.pc = "resume" /\ next.session = s
      /\ next.ask = req[q].ask
  <2>1. req[q] \in Request
    BY DEF SignOnInv, SignOnTypeOK
  <2>2. QED
    BY <2>1 DEF Request
<1> HIDE DEF next
<1> PICK x \in Request :
       x = next /\ x.pc = "resume" /\ x.session = s /\ x.ask = req[q].ask
  BY <1>0
<1>1. /\ SignOnTypeOK /\ req[q] \in Request /\ req[q].pc = "login" /\ req[q].ask # NoId
      /\ req[q].to \in Registrations /\ Go(q, x) /\ Open(s, Org(req[q].to))
      /\ UNCHANGED <<asked, own, forced, strong, registered, past, invited, filed, sp, overdue,
            recorded, answers, made, stale>>
  BY DEF next, OpenSession, SignOnInv, SignOnTypeOK, HandledInv, Handled,
     Request, asked, provider, filings, history
<1>2. x \in Request /\ x.pc = "resume" /\ x.session = s /\ x.ask = req[q].ask
  OBVIOUS
<1>3. /\ req' \in [Requests -> Request] /\ req'[q] = x
      /\ \A p \in Requests \ {q} : req'[p] = req[p]
  BY <1>1, <1>2, Moves
<1>4. /\ Grows /\ session[s] = "none" /\ session'[s] = "live"
      /\ session' \in [Sessions -> {"none", "live", "ended"}]
      /\ home' \in [Sessions -> Orgs \cup {NoOrg}] /\ multi' \in SUBSET Sessions
  BY <1>1, OpenGrows, SignOnAssumption
<1>5. SignOnTypeOK'
  BY <1>1, <1>3, <1>4 DEF SignOnTypeOK
<1>6. StaleInv' /\ AnswersInv' /\ AnswersFit' /\ AnswersStayHome'
  BY <1>1, <1>4, StaleKept, AnswersKept DEF SignOnInv
<1>7. UnseenInv'
  BY <1>1, <1>2, <1>3 DEF SignOnInv, UnseenInv
<1>8. HandledInv'
  <2>1. x.ask # NoId => s \notin stale[x.ask]
    BY <1>2, <1>4 DEF SignOnInv, StaleInv, Request
  <2>2. Handled(x)'
    BY <1>1, <1>2, <1>4, <2>1 DEF Handled
  <2>3. ASSUME NEW p \in Requests \ {q} PROVE Handled(req[p])'
    <3>1. PICK y \in Request : y = req[p] /\ y = req'[p] /\ Handled(y)
      BY <1>1, <1>3 DEF SignOnInv, HandledInv, SignOnTypeOK
    <3>2. Handled(y)'
      BY <1>1, <1>4, <3>1, HandledKept
    <3>3. QED
      BY <3>1, <3>2 DEF Handled, Satisfies
  <2>4. QED
    BY <1>3, <2>2, <2>3 DEF HandledInv, Handled, Satisfies
<1>9. OnceInv'
  BY <1>1, <1>2, AnsweringKept, OnceKept DEF SignOnInv
<1>10. QED
  BY <1>5, <1>6, <1>7, <1>8, <1>9 DEF SignOnInv

LEMMA ResumeKeeps ==
    ASSUME SignOnInv, NEW q \in Requests, Resume(q)
    PROVE  SignOnInv'
<1> DEFINE i == req[q].ask
           x == [req[q] EXCEPT !.pc = "fit", !.to = sp[i], !.began = sp[i]]
<1>1. /\ SignOnTypeOK /\ req[q] \in Request /\ req[q].pc = "resume" /\ Handled(req[q])
      /\ filed[i] = "open" /\ filed' = [filed EXCEPT ![i] = "spent"] /\ Go(q, x)
      /\ UNCHANGED <<asked, own, forced, strong, registered, past, invited, sp, overdue,
            session, home, multi, recorded, answers, made, stale>>
  BY DEF Resume, Consume, SignOnInv, SignOnTypeOK, HandledInv, asked, provider, filings,
         sessions, history
<1>2. i \in Ids
  BY <1>1 DEF Handled, Request
<1>3. /\ x \in Request /\ x.pc = "fit" /\ x.ask = i /\ x.began = x.to
      /\ x.session = req[q].session
  BY <1>1, <1>2 DEF Request, SignOnTypeOK
<1>4. Handled(x)
  BY <1>1, <1>3 DEF Handled
<1> HIDE DEF x, i
<1>5. /\ req' \in [Requests -> Request] /\ req'[q] = x
      /\ \A p \in Requests \ {q} : req'[p] = req[p]
  BY <1>1, <1>3, Moves
<1>6. /\ filed' \in [Ids -> {"none", "open", "spent"}] /\ filed'[i] = "spent"
      /\ \A j \in Ids \ {i} : filed'[j] = filed[j]
  BY <1>1, <1>2 DEF SignOnTypeOK
<1>7. SignOnTypeOK'
  BY <1>1, <1>5, <1>6 DEF SignOnTypeOK
<1>8. Grows
  BY <1>1 DEF Grows
<1>9. StaleInv' /\ AnswersInv' /\ AnswersFit' /\ AnswersStayHome'
  BY <1>1, <1>8, StaleKept, AnswersKept DEF SignOnInv
<1>10. UnseenInv'
  BY <1>1, <1>2, <1>3, <1>5, <1>6 DEF SignOnInv, UnseenInv
<1>11. HandledInv'
  <2>1. \A p \in Requests : req'[p] \in Request /\ Handled(req'[p])
    BY <1>4, <1>5 DEF SignOnInv, HandledInv
  <2>2. QED
    BY <1>1, <1>8, <2>1, AllHandled
<1>12. OnceInv'
  <2> SUFFICES ASSUME NEW j \in Ids
               PROVE  /\ IsFiniteSet(AnsweredByLogin(j)) /\ IsFiniteSet(Answering(j)')
                      /\ Cardinality(AnsweredByLogin(j)) + Cardinality(Answering(j)')
                          + (IF filed'[j] = "open" THEN 1 ELSE 0) <= recorded[j]
    BY <1>1 DEF OnceInv, AnsweredByLogin
  <2>1. PICK a, b, m \in Nat :
              /\ IsFiniteSet(AnsweredByLogin(j)) /\ a = Cardinality(AnsweredByLogin(j))
              /\ IsFiniteSet(Answering(j)) /\ b = Cardinality(Answering(j))
              /\ m = recorded[j]
              /\ a + b + (IF filed[j] = "open" THEN 1 ELSE 0) <= m
    BY Account DEF SignOnInv
  <2> DEFINE T == Answering(j)'
             S == Answering(j)
             U == S \cup {q}
  <2>2. T \subseteq U /\ (j # i => T \subseteq S)
    BY <1>3, <1>5 DEF Answering
  <2> HIDE DEF T, S
  <2>3. IsFiniteSet(S) /\ b = Cardinality(S)
    BY <2>1 DEF S
  <2>4. PICK d \in Nat : d = Cardinality(U) /\ d <= b + 1 /\ IsFiniteSet(U)
    BY <2>3, FS_AddElement
  <2> HIDE DEF U
  <2>5. PICK c \in Nat : c = Cardinality(T) /\ IsFiniteSet(T) /\ c <= d
    BY <2>2, <2>4, SmallerSet
  <2>6. j # i => c <= b
    BY <2>2, <2>3, <2>5, SmallerSet
  <2>7. a + c + (IF filed'[j] = "open" THEN 1 ELSE 0) <= m
    <3>1. CASE j = i
      BY <1>1, <1>6, <2>1, <2>4, <2>5, <3>1
    <3>2. CASE j # i
      BY <1>6, <2>1, <2>6, <3>2
    <3>3. QED
      BY <3>1, <3>2
  <2>8. QED
    BY <2>1, <2>5, <2>7 DEF T
<1>13. QED
  BY <1>7, <1>9, <1>10, <1>11, <1>12 DEF SignOnInv

LEMMA ResumeForKeeps ==
    ASSUME SignOnInv, NEW q \in Requests, NEW r \in Registrations, ResumeFor(q, r)
    PROVE  SignOnInv'
<1> DEFINE x == [req[q] EXCEPT !.pc = "issue", !.to = r]
<1>1. /\ req[q] \in Request /\ req[q].pc = "fit" /\ Handled(req[q]) /\ r = req[q].to
      /\ Org(r) = home[req[q].session] /\ Satisfies(req[q].ask, req[q].session)
      /\ Go(q, x) /\ UNCHANGED <<asked, provider, filings, sessions, history>>
  BY DEF ResumeFor, ByID, SignOnInv, SignOnTypeOK, HandledInv
<1>2. /\ x \in Request /\ x.pc = "issue" /\ x.ask = req[q].ask /\ x.to = r
      /\ x.session = req[q].session /\ x.began = req[q].began
  BY <1>1 DEF Request
<1>3. Handled(x)
  BY <1>1, <1>2 DEF Handled
<1>4. x.ask \notin forced \ made
  BY <1>2 DEF SignOnInv, UnseenInv
<1> HIDE DEF x
<1>5. QED
  BY <1>1, <1>2, <1>3, <1>4, RequestKeeps

\* What an answer that is issued counts for.
LEMMA IssueAccount ==
    ASSUME SignOnInv, NEW q \in Requests, Issue(q), NEW j \in Ids
    PROVE  /\ IsFiniteSet(AnsweredByLogin(j)') /\ IsFiniteSet(Answering(j)')
           /\ Cardinality(AnsweredByLogin(j)') + Cardinality(Answering(j)')
                + (IF filed[j] = "open" THEN 1 ELSE 0) <= recorded[j]
<1> DEFINE i == req[q].ask
           n == [ask |-> IF i \in own THEN NoId ELSE i, to |-> req[q].to,
                 session |-> req[q].session, began |-> req[q].began]
           counted == n.ask = j /\ n.began # NoSP
<1>1. /\ SignOnTypeOK /\ req[q].pc = "issue" /\ answers' = answers \cup {n}
      /\ n.began = req[q].began /\ (n.ask = j => i = j)
      /\ req' \in [Requests -> Request] /\ req'[q] = NoRequest
      /\ \A p \in Requests \ {q} : req'[p] = req[p]
  BY NoRequestOk, Moves DEF Issue, Done, SignOnInv
<1> HIDE DEF n, i
<1>2. PICK a, b, m \in Nat :
              /\ IsFiniteSet(AnsweredByLogin(j)) /\ a = Cardinality(AnsweredByLogin(j))
              /\ IsFiniteSet(Answering(j)) /\ b = Cardinality(Answering(j))
              /\ m = recorded[j]
              /\ a + b + (IF filed[j] = "open" THEN 1 ELSE 0) <= m
  BY Account DEF SignOnInv
<1> DEFINE A == AnsweredByLogin(j)
           B == Answering(j)
           A1 == AnsweredByLogin(j)'
           B1 == Answering(j)'
<1>3. /\ counted => A1 \subseteq A \cup {n} /\ B1 \subseteq B \ {q} /\ q \in B
      /\ ~ counted => A1 \subseteq A /\ B1 \subseteq B
  BY <1>1, NoRequestOk DEF AnsweredByLogin, Answering, i
<1> HIDE DEF A1, B1, A, B
<1>4. IsFiniteSet(A) /\ a = Cardinality(A) /\ IsFiniteSet(B) /\ b = Cardinality(B)
  BY <1>2 DEF A, B
<1>5. PICK c, d \in Nat :
         /\ IsFiniteSet(A1) /\ c = Cardinality(A1)
         /\ IsFiniteSet(B1) /\ d = Cardinality(B1)
         /\ c + d <= a + b
  <2>1. CASE counted
    <3> DEFINE S == A \cup {n}
               T == B \ {q}
    <3>1. IsFiniteSet(S) /\ Cardinality(S) \in Nat /\ Cardinality(S) <= a + 1
      <4>1. IsFiniteSet(S) /\ Cardinality(S) = IF n \in A THEN a ELSE a + 1
        BY <1>4, FS_AddElement, Zenon
      <4>2. QED
        BY <4>1
    <3>2. IsFiniteSet(T) /\ Cardinality(T) = b - 1
      BY <1>3, <1>4, <2>1, FS_RemoveElement
    <3>3. A1 \subseteq S /\ B1 \subseteq T
      BY <1>3, <2>1
    <3> HIDE DEF S, T
    <3>4. /\ IsFiniteSet(A1) /\ Cardinality(A1) \in Nat /\ Cardinality(A1) <= a + 1
          /\ IsFiniteSet(B1) /\ Cardinality(B1) \in Nat /\ Cardinality(B1) <= b - 1
      BY <3>1, <3>2, <3>3, SmallerSet
    <3>5. QED
      BY <3>4
  <2>2. CASE ~ counted
    <3>1. /\ IsFiniteSet(A1) /\ Cardinality(A1) \in Nat /\ Cardinality(A1) <= a
          /\ IsFiniteSet(B1) /\ Cardinality(B1) \in Nat /\ Cardinality(B1) <= b
      BY <1>3, <1>4, <2>2, SmallerSet
    <3>2. QED
      BY <3>1
  <2>3. QED
    BY <2>1, <2>2
<1>6. c + d + (IF filed[j] = "open" THEN 1 ELSE 0) <= m
  BY <1>2, <1>5
<1>7. QED
  BY <1>2, <1>5, <1>6 DEF A1, B1

LEMMA IssueKeeps ==
    ASSUME SignOnInv, NEW q \in Requests, Issue(q)
    PROVE  SignOnInv'
<1> DEFINE i == req[q].ask
           n == [ask |-> IF i \in own THEN NoId ELSE i, to |-> req[q].to,
                 session |-> req[q].session, began |-> req[q].began]
<1>1. /\ SignOnTypeOK /\ req[q] \in Request /\ req[q].pc = "issue" /\ Handled(req[q])
      /\ req[q].to \in Registrations /\ answers' = answers \cup {n} /\ Done(q)
      /\ UNCHANGED <<asked, own, forced, strong, registered, past, invited, filed, sp, overdue,
            session, home, multi, recorded, made, stale>>
  BY DEF Issue, SignOnInv, SignOnTypeOK, HandledInv, asked, provider, filings, sessions
<1>2. /\ req' \in [Requests -> Request] /\ req'[q] = NoRequest
      /\ \A p \in Requests \ {q} : req'[p] = req[p]
  BY <1>1, NoRequestOk, Moves DEF Done
<1>3. /\ i \in Ids \cup {NoId} /\ i \notin forced \ made
      /\ req[q].session \in Sessions /\ session[req[q].session] # "none"
      /\ i # NoId => req[q].session \notin stale[i] /\ Satisfies(i, req[q].session)
      /\ home[req[q].session] = Org(req[q].to)
      /\ req[q].began \in Registrations \cup {NoSP}
      /\ req[q].began \in {NoSP, req[q].to}
  BY <1>1 DEF Request, Handled, SignOnInv, UnseenInv
<1>4. /\ n \in Answers /\ n.session = req[q].session /\ n.to = req[q].to
      /\ n.began = req[q].began /\ n.ask \in {NoId, i}
  BY <1>1, <1>3 DEF Answers
<1> HIDE DEF n, i
<1>5. answers' \subseteq Answers
  BY <1>1, <1>4 DEF SignOnTypeOK
<1>6. SignOnTypeOK'
  BY <1>1, <1>2, <1>5 DEF SignOnTypeOK
<1>7. Grows
  BY <1>1 DEF Grows
<1>8. StaleInv'
  BY <1>1, <1>7, StaleKept DEF SignOnInv
<1>9. AnswersInv'
  BY <1>1, <1>3, <1>4 DEF SignOnInv, AnswersInv
<1>10. AnswersFit'
  BY <1>1, <1>3, <1>4 DEF SignOnInv, AnswersFit, Satisfies
<1>11. AnswersStayHome'
  BY <1>1, <1>3, <1>4 DEF SignOnInv, AnswersStayHome
<1>12. UnseenInv'
  <2>1. n.ask \notin forced \ made
    BY <1>1, <1>3, <1>4, NoRequestOk DEF SignOnTypeOK
  <2>2. QED
    BY <1>1, <1>2, <2>1, NoRequestOk DEF SignOnInv, UnseenInv, SignOnTypeOK
<1>13. HandledInv'
  <2>1. \A p \in Requests : req'[p] \in Request /\ Handled(req'[p])
    BY <1>2, NoRequestOk DEF SignOnInv, HandledInv
  <2>2. QED
    BY <1>1, <1>7, <2>1, AllHandled
<1>14. OnceInv'
  BY <1>1, IssueAccount DEF OnceInv
<1>15. QED
  BY <1>6, <1>8, <1>9, <1>10, <1>11, <1>12, <1>13, <1>14 DEF SignOnInv

-----------------------------------------------------------------------------
\* The rest of the system.

\* What stays in place while nobody handles a request.
LEMMA EnvironmentKeeps ==
    ASSUME SignOnInv, SignOnTypeOK', Grows, UNCHANGED <<asked, req, history>>,
           \A i \in Ids : filed'[i] = "none" \/ filed'[i] = filed[i]
    PROVE  SignOnInv'
<1>1. SignOnTypeOK /\ UNCHANGED <<own, forced, strong, recorded, answers, made, stale>>
  BY DEF SignOnInv, asked, history
<1>2. StaleInv' /\ AnswersInv' /\ AnswersFit' /\ AnswersStayHome'
  BY <1>1, StaleKept, AnswersKept DEF SignOnInv
<1>3. UnseenInv'
  <2>1. ASSUME NEW i \in forced \ made
        PROVE  /\ filed'[i] = "none"
               /\ \A q \in Requests : req'[q].ask # i
               /\ \A a \in answers : a.ask # i
    <3>1. i \in Ids
      BY <1>1 DEF SignOnTypeOK
    <3>2. /\ filed[i] = "none"
          /\ \A q \in Requests : req[q].ask # i
          /\ \A a \in answers : a.ask # i
      BY DEF SignOnInv, UnseenInv
    <3>3. QED
      BY <3>1, <3>2
  <2>2. QED
    BY <1>1, <2>1 DEF SignOnInv, UnseenInv
<1>4. HandledInv'
  <2>1. \A p \in Requests : req'[p] \in Request /\ Handled(req'[p])
    BY <1>1 DEF SignOnInv, HandledInv, SignOnTypeOK
  <2>2. QED
    BY <1>1, <2>1, AllHandled
<1>5. OnceInv'
  <2>1. \A i \in Ids : Answering(i)' \subseteq Answering(i)
    BY DEF Answering
  <2>2. \A i \in Ids : filed'[i] = "open" => filed[i] = "open"
    OBVIOUS
  <2>3. QED
    BY <1>1, <2>1, <2>2, OnceKept DEF SignOnInv
<1>6. QED
  BY <1>2, <1>3, <1>4, <1>5 DEF SignOnInv

LEMMA ProvidersKeep ==
    ASSUME SignOnInv, NEW r \in Registrations,
           CreateApplication(r) \/ UpdateApplication(r)
    PROVE  SignOnInv'
<1>1. /\ UNCHANGED <<asked, filings, sessions, req, history>> /\ past' = past
      /\ registered' \in SUBSET Registrations /\ invited' \in SUBSET Registrations
  BY DEF CreateApplication, Register, UpdateApplication, Update, SignOnInv, SignOnTypeOK
<1>2. SignOnTypeOK'
  BY <1>1 DEF SignOnInv, SignOnTypeOK, asked, filings, sessions, history
<1>3. Grows /\ \A i \in Ids : filed'[i] = filed[i]
  BY <1>1 DEF Grows, sessions, filings
<1>4. QED
  BY <1>1, <1>2, <1>3, EnvironmentKeeps

LEMMA RemoveKeeps ==
    ASSUME SignOnInv, NEW r \in Registrations, Remove(r)
    PROVE  SignOnInv'
<1> DEFINE gone == {i \in Ids : sp[i] = r}
<1>1. /\ UNCHANGED <<asked, sessions, req, history>>
      /\ registered' \in SUBSET Registrations /\ past' \in SUBSET Registrations
      /\ invited' \in SUBSET Registrations /\ overdue' \in SUBSET Ids
      /\ filed' = [i \in Ids |-> IF i \in gone THEN "none" ELSE filed[i]]
      /\ sp' = [i \in Ids |-> IF i \in gone THEN NoSP ELSE sp[i]]
  BY DEF Remove, SignOnInv, SignOnTypeOK
<1> HIDE DEF gone
<1>2. /\ filed' \in [Ids -> {"none", "open", "spent"}]
      /\ sp' \in [Ids -> Registrations \cup {NoSP}]
      /\ \A i \in Ids : filed'[i] = "none" \/ filed'[i] = filed[i]
  BY <1>1 DEF SignOnInv, SignOnTypeOK
<1>3. SignOnTypeOK'
  BY <1>1, <1>2 DEF SignOnInv, SignOnTypeOK, asked, sessions, history
<1>4. Grows
  BY <1>1 DEF Grows, sessions
<1>5. QED
  BY <1>1, <1>2, <1>3, <1>4, EnvironmentKeeps

LEMMA FilesKeep ==
    ASSUME SignOnInv, NEW i \in Ids, Expire(i) \/ Prune(i)
    PROVE  SignOnInv'
<1>1. /\ UNCHANGED <<asked, provider, sessions, req, history>>
      /\ overdue' \in SUBSET Ids
      /\ filed' = filed \/ filed' = [filed EXCEPT ![i] = "none"]
      /\ sp' = sp \/ sp' = [sp EXCEPT ![i] = NoSP]
  BY DEF Expire, Prune, SignOnInv, SignOnTypeOK
<1>2. /\ filed' \in [Ids -> {"none", "open", "spent"}]
      /\ sp' \in [Ids -> Registrations \cup {NoSP}]
      /\ \A j \in Ids : filed'[j] = "none" \/ filed'[j] = filed[j]
  BY <1>1 DEF SignOnInv, SignOnTypeOK
<1>3. SignOnTypeOK'
  BY <1>1, <1>2 DEF SignOnInv, SignOnTypeOK, asked, provider, sessions, history
<1>4. Grows
  BY <1>1 DEF Grows, sessions
<1>5. QED
  BY <1>1, <1>2, <1>3, <1>4, EnvironmentKeeps

LEMMA SessionsKeep ==
    ASSUME SignOnInv, NEW s \in Sessions,
           EndSession(s) \/ \E o \in Orgs : OpenElsewhere(s, o)
    PROVE  SignOnInv'
<1>1. UNCHANGED <<asked, provider, filings, req, history>>
  BY DEF EndSession, OpenElsewhere
<1>2. /\ Grows /\ session' \in [Sessions -> {"none", "live", "ended"}]
      /\ home' \in [Sessions -> Orgs \cup {NoOrg}] /\ multi' \in SUBSET Sessions
  <2>1. CASE EndSession(s)
    BY <2>1 DEF EndSession, Grows, SignOnInv, SignOnTypeOK
  <2>2. CASE \E o \in Orgs : OpenElsewhere(s, o)
    BY <2>2, OpenGrows DEF OpenElsewhere, SignOnInv
  <2>3. QED
    BY <2>1, <2>2
<1>3. SignOnTypeOK'
  BY <1>1, <1>2 DEF SignOnInv, SignOnTypeOK, asked, provider, filings, history
<1>4. \A i \in Ids : filed'[i] = filed[i]
  BY <1>1 DEF filings
<1>5. QED
  BY <1>1, <1>2, <1>3, <1>4, EnvironmentKeeps

-----------------------------------------------------------------------------

LEMMA SignOnInitially == SignOnInit => SignOnInv
<1> SUFFICES ASSUME SignOnInit PROVE SignOnInv
  OBVIOUS
<1>1. SignOnTypeOK
  BY SignOnAssumption, NoRequestOk DEF SignOnInit, SignOnTypeOK
<1>2. StaleInv /\ UnseenInv /\ AnswersInv /\ AnswersFit /\ AnswersStayHome
  BY NoRequestOk DEF SignOnInit, StaleInv, UnseenInv, AnswersInv, AnswersFit,
     AnswersStayHome
<1>3. HandledInv
  BY NoRequestOk DEF SignOnInit, HandledInv
<1>4. OnceInv
  <2> SUFFICES ASSUME NEW i \in Ids
               PROVE  /\ AnsweredByLogin(i) = {} /\ Answering(i) = {}
                      /\ filed[i] # "open" /\ recorded[i] = 0
    BY FS_EmptySet DEF OnceInv
  <2>1. QED
    BY NoRequestOk DEF SignOnInit, AnsweredByLogin, Answering
<1>5. QED
  BY <1>1, <1>2, <1>3, <1>4 DEF SignOnInv

LEMMA HandleKeeps ==
    ASSUME SignOnInv, NEW q \in Requests, Handle(q)
    PROVE  SignOnInv'
<1>0. NoRequest.ask \notin forced \ made /\ NoRequest.pc \notin {"fit", "issue"}
  BY NoRequestOk DEF SignOnInv, SignOnTypeOK
<1>1. ASSUME NEW i \in Ids, NEW r \in Registrations, Ask(q, i, r) PROVE SignOnInv'
  BY <1>1, AskKeeps
<1>2. ASSUME NEW r \in Registrations, Initiate(q, r) PROVE SignOnInv'
  <2> DEFINE x == [NoRequest EXCEPT !.pc = "lookup", !.to = r]
  <2>1. x \in Request /\ x.pc = "lookup" /\ x.ask = NoId /\ x.began = NoSP
    BY NoRequestOk DEF Request
  <2>2. Handled(x) /\ x.ask \notin forced \ made
    BY <1>0, <2>1, NoRequestOk DEF Handled
  <2>3. Go(q, x) /\ UNCHANGED <<asked, provider, filings, sessions, history>>
    BY <1>2 DEF Initiate
  <2> HIDE DEF x
  <2>4. QED
    BY <2>1, <2>2, <2>3, RequestKeeps
<1>3. ASSUME NEW r \in Registrations, ResumeFor(q, r) PROVE SignOnInv'
  BY <1>3, ResumeForKeeps
<1>4. ASSUME NEW s \in Sessions, FindSession(q, s) PROVE SignOnInv'
  BY <1>4, FindSessionKeeps
<1>5. ASSUME NEW s \in Sessions, OpenSession(q, s) PROVE SignOnInv'
  BY <1>5, OpenSessionKeeps
<1>6. ASSUME NEW i \in Ids, ToLoginForInitiate(q, i) PROVE SignOnInv'
  <2>1. /\ req[q].to \in Registrations /\ i \notin forced \ made
        /\ Record(i, req[q].to) /\ Done(q)
        /\ UNCHANGED <<asked, provider, sessions, answers, made, stale>>
    BY <1>6 DEF ToLoginForInitiate, Record, SignOnInv, SignOnTypeOK, UnseenInv
  <2>2. QED
    BY <2>1, RecordKeeps
<1>7. ASSUME NEW i \in Ids, Login(q, i) PROVE SignOnInv'
  BY <1>7, LoginKeeps
<1>8. CASE ToLogin(q)
  <2> DEFINE i == req[q].ask
  <2>1. /\ i \in Ids /\ req[q].to \in Registrations /\ i \notin forced \ made
        /\ Record(i, req[q].to) /\ Done(q)
        /\ UNCHANGED <<asked, provider, sessions, answers, made, stale>>
    BY <1>8 DEF ToLogin, Record, SignOnInv, SignOnTypeOK, UnseenInv, Request
  <2>2. QED
    BY <2>1, RecordKeeps
<1>9. CASE Resume(q)
  BY <1>9, ResumeKeeps
<1>10. CASE Issue(q)
  BY <1>10, IssueKeeps
<1>11. CASE GiveUp(q)
  BY <1>0, <1>11, NoRequestOk, RequestKeeps DEF GiveUp, Done
<1>12. QED
  BY <1>1, <1>2, <1>3, <1>4, <1>5, <1>6, <1>7, <1>8, <1>9, <1>10, <1>11 DEF Handle

LEMMA SignOnStep == SignOnInv /\ [SignOnNext]_signOnVars => SignOnInv'
<1> SUFFICES ASSUME SignOnInv, [SignOnNext]_signOnVars PROVE SignOnInv'
  OBVIOUS
<1>1. CASE \E q \in Requests : Handle(q)
  BY <1>1, HandleKeeps
<1>2. CASE Environment
  BY <1>2, ProvidersKeep, RemoveKeeps, FilesKeep, SessionsKeep DEF Environment
<1>3. CASE UNCHANGED signOnVars
  <2>1. UNCHANGED <<asked, provider, filings, sessions, req, history>>
    BY <1>3 DEF signOnVars
  <2>2. SignOnTypeOK'
    BY <2>1 DEF SignOnInv, SignOnTypeOK, asked, provider, filings, sessions, history
  <2>3. Grows /\ \A i \in Ids : filed'[i] = filed[i]
    BY <2>1 DEF Grows, sessions, filings
  <2>4. QED
    BY <2>1, <2>2, <2>3, EnvironmentKeeps
<1>4. QED
  BY <1>1, <1>2, <1>3 DEF SignOnNext

\* What a request has made sure of on its way to an answer goes on holding, for
\* every number of requests, sessions, providers and organizations, whatever other
\* requests, sign-outs and administrators do between its steps.
THEOREM SignOnInvariant == SignOnSpec => []SignOnInv
<1>1. SignOnInit => SignOnInv
  BY SignOnInitially
<1>2. SignOnInv /\ [SignOnNext]_signOnVars => SignOnInv'
  BY SignOnStep
<1>3. QED
  BY <1>1, <1>2, PTL DEF SignOnSpec

\* Requests on file, sessions and answers are what the service keeps of them.
THEOREM SignOnTypeCorrect == SignOnSpec => []SignOnTypeOK
<1>1. SignOnInv => SignOnTypeOK
  BY DEF SignOnInv
<1>2. QED
  BY <1>1, SignOnInvariant, PTL

\* An answer rests on a session as fresh, and with as many factors, as the request
\* asked for: what sso and Resume check when they look is still so when the answer
\* is signed.
THEOREM AnswersAreFit == SignOnSpec => []AnswersFit
<1>1. SignOnInv => AnswersFit
  BY DEF SignOnInv
<1>2. QED
  BY <1>1, SignOnInvariant, PTL

\* An answer is about a user of the provider's own organization, and goes to the
\* registration its login began for, even if another has taken over the entity id
\* since.
THEOREM AnswersAreHome == SignOnSpec => []AnswersStayHome
<1>1. SignOnInv => AnswersStayHome
  BY DEF SignOnInv
<1>2. QED
  BY <1>1, SignOnInvariant, PTL

\* A request that is filed is answered by one login at most, in however many tabs
\* it is finished at once: the delete of Consume finds its row once.
THEOREM OneLoginOneAnswer == SignOnSpec => []OnceThroughLogin
<1>1. ASSUME SignOnInv, NEW i \in Ids
      PROVE  Cardinality(AnsweredByLogin(i)) <= recorded[i]
  <2>1. PICK a, b, m \in Nat :
              /\ IsFiniteSet(AnsweredByLogin(i)) /\ a = Cardinality(AnsweredByLogin(i))
              /\ IsFiniteSet(Answering(i)) /\ b = Cardinality(Answering(i))
              /\ m = recorded[i]
              /\ a + b + (IF filed[i] = "open" THEN 1 ELSE 0) <= m
    BY <1>1, Account DEF SignOnInv
  <2>2. a <= m
    BY <2>1
  <2>3. QED
    BY <2>1, <2>2
<1>2. SignOnInv => OnceThroughLogin
  BY <1>1 DEF OnceThroughLogin
<1>3. QED
  BY <1>2, SignOnInvariant, PTL

=============================================================================
