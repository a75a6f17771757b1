--------------------------- MODULE VerifierProofs ---------------------------
(***************************************************************************)
(* Verification over the signing-key cache, for any keys, scopes, slots,   *)
(* hash, requests, skew and limits.  Three invariants, one on the other:   *)
(* IInv, what a slot or a request holds as the key of an id was derived    *)
(* for that id; VIInv, what each stage knows of its credential, and that   *)
(* the id asked of the cache is made of it; TIInv, what the clock checks   *)
(* of each form have left behind.                                          *)
(***************************************************************************)
EXTENDS Verifier, TLAPS

DerivedFor(k, i) ==
    /\ k \in SigningKeyID
    /\ k.accessKeyID = i.accessKeyID
    /\ k.scope = i.scope
    /\ k.version >= i.version
    /\ i.accessKeyID \notin Remote => k.version = i.version

Typed ==
    /\ secret \in [KeyIDs -> 0 .. MaxGen]
    /\ slots \in [Slots -> [id : SigningKeyID, key : SigningKeyID] \cup {Empty}]
    /\ pc \in [Requests -> {"idle", "get", "derive", "store", "verify"}]
    /\ id \in [Requests -> SigningKeyID \cup {None}]
    /\ key \in [Requests -> SigningKeyID \cup {None}]

IInv ==
    /\ Typed
    /\ \A s \in Slots : slots[s] # Empty => DerivedFor(slots[s].key, slots[s].id)
    /\ \A r \in Requests : pc[r] # "idle" => id[r] \in SigningKeyID
    /\ \A r \in Requests : pc[r] \in {"store", "verify"} => DerivedFor(key[r], id[r])

LEMMA InitIInv == Init => IInv
<1> SUFFICES ASSUME Init PROVE IInv
  OBVIOUS
<1>1. secret \in [KeyIDs -> 0 .. MaxGen]
  BY SignerCacheAssumption DEF Init
<1>2. /\ slots \in [Slots -> [id : SigningKeyID, key : SigningKeyID] \cup {Empty}]
      /\ \A s \in Slots : slots[s] = Empty
  BY Zenon DEF Init
<1>3. /\ pc \in [Requests -> {"idle", "get", "derive", "store", "verify"}]
      /\ \A r \in Requests : pc[r] = "idle"
      /\ id \in [Requests -> SigningKeyID \cup {None}]
      /\ key \in [Requests -> SigningKeyID \cup {None}]
  BY Zenon DEF Init
<1> QED BY Zenon, <1>1, <1>2, <1>3 DEF IInv, Typed

LEMMA NextIInv == IInv /\ [Next]_vars => IInv'
<1> SUFFICES ASSUME IInv, [Next]_vars PROVE IInv'
  OBVIOUS
<1>1. ASSUME NEW k \in KeyIDs, Rotate(k) PROVE IInv'
  <2>1. secret[k] + 1 \in 0 .. MaxGen
    BY <1>1, SignerCacheAssumption DEF Rotate, IInv, Typed
  <2>2. secret' \in [KeyIDs -> 0 .. MaxGen]
    BY Zenon, <1>1, <2>1 DEF Rotate, IInv, Typed
  <2> QED BY Zenon, <1>1, <2>2 DEF Rotate, IInv, Typed
<1>2. ASSUME NEW r \in Requests, NEW k \in KeyIDs, NEW g \in 0 .. secret[k], NEW sc \in Scopes,
             signingKey(r, k, g, sc)
      PROVE  IInv'
  <2>0. g \in 0 .. MaxGen
    BY SignerCacheAssumption DEF IInv, Typed
  <2>1. [accessKeyID |-> k, version |-> g, scope |-> sc] \in SigningKeyID
    BY Zenon, <2>0 DEF SigningKeyID
  <2> QED BY Zenon, <1>2, <2>1 DEF signingKey, Goto, IInv, Typed
<1>3. ASSUME NEW r \in Requests, pc[r] = "get" PROVE id[r] \in SigningKeyID /\ Slot(r) \in Slots
  BY Zenon, <1>3, SignerCacheAssumption DEF IInv, Slot, SigningKeyID
<1>4. ASSUME NEW r \in Requests, Hit(r) PROVE IInv'
  <2>1. id[r] \in SigningKeyID /\ Slot(r) \in Slots
    BY Zenon, <1>3, <1>4 DEF Hit
  <2>2. id[r] # None
    <3>1. id[r].accessKeyID \in KeyIDs
      BY Zenon, <2>1 DEF SigningKeyID
    <3> QED BY <3>1, SignerCacheAssumption DEF None
  <2>3. slots[Slot(r)] # Empty
    BY <1>4, <2>2 DEF Hit, Empty
  <2>4. DerivedFor(slots[Slot(r)].key, id[r])
    BY Zenon, <1>4, <2>1, <2>3 DEF Hit, IInv
  <2>5. slots[Slot(r)].key \in SigningKeyID
    BY Zenon, <2>4 DEF DerivedFor
  <2> QED BY Zenon, <1>4, <2>1, <2>4, <2>5 DEF Hit, Goto, IInv, Typed
<1>5. ASSUME NEW r \in Requests, Miss(r) PROVE IInv'
  BY Zenon, <1>5 DEF Miss, Goto, IInv, Typed
<1>6. ASSUME NEW r \in Requests, Derive(r) PROVE IInv'
  <2>1. id[r] \in SigningKeyID
    BY Zenon, <1>6 DEF Derive, IInv
  <2>2. PICK g \in id[r].version .. secret[id[r].accessKeyID] :
          /\ id[r].accessKeyID \notin Remote => g = id[r].version
          /\ key' = [key EXCEPT ![r] = [id[r] EXCEPT !.version = g]]
    BY Zenon, <1>6 DEF Derive
  <2> DEFINE k == [id[r] EXCEPT !.version = g]
  <2>3. g \in 0 .. MaxGen /\ g >= id[r].version
    BY <2>1, <2>2, SignerCacheAssumption DEF IInv, Typed, SigningKeyID
  <2>4. DerivedFor(k, id[r])
    <3>1. k = [accessKeyID |-> id[r].accessKeyID, version |-> g, scope |-> id[r].scope]
      BY <2>1 DEF SigningKeyID
    <3>2. id[r].accessKeyID \in KeyIDs /\ id[r].scope \in Scopes
      BY Zenon, <2>1 DEF SigningKeyID
    <3>3. k \in SigningKeyID
      BY Zenon, <2>3, <3>1, <3>2 DEF SigningKeyID
    <3> QED BY Zenon, <2>2, <2>3, <3>1, <3>3 DEF DerivedFor
  <2>5. k \in SigningKeyID
    BY Zenon, <2>4 DEF DerivedFor
  <2>6. key' = [key EXCEPT ![r] = k]
    BY Zenon, <2>2
  <2> HIDE DEF k
  <2> QED BY Zenon, <1>6, <2>1, <2>4, <2>5, <2>6 DEF Derive, Goto, IInv, Typed
<1>7. ASSUME NEW r \in Requests, DeriveFails(r) PROVE IInv'
  BY Zenon, <1>7 DEF DeriveFails, Release, Goto, IInv, Typed
<1>8. ASSUME NEW r \in Requests, Store(r) PROVE IInv'
  <2>1. id[r] \in SigningKeyID /\ DerivedFor(key[r], id[r])
    BY Zenon, <1>8 DEF Store, IInv
  <2>2. Slot(r) \in Slots
    BY Zenon, <2>1, SignerCacheAssumption DEF Slot, SigningKeyID
  <2> DEFINE e == [id |-> id[r], key |-> key[r]]
  <2>3. e \in [id : SigningKeyID, key : SigningKeyID] /\ DerivedFor(e.key, e.id)
    BY Zenon, <2>1 DEF DerivedFor
  <2>4. slots' = [slots EXCEPT ![Slot(r)] = e]
    BY Zenon, <1>8 DEF Store
  <2> HIDE DEF e
  <2> QED BY Zenon, <1>8, <2>1, <2>2, <2>3, <2>4 DEF Store, Goto, IInv, Typed
<1>9. ASSUME NEW r \in Requests, Verify(r) PROVE IInv'
  BY Zenon, <1>9 DEF Verify, Release, Goto, IInv, Typed
<1>10. CASE UNCHANGED vars
  BY Zenon, <1>10 DEF vars, IInv, Typed
<1> QED BY Zenon, <1>1, <1>2, <1>4, <1>5, <1>6, <1>7, <1>8, <1>9, <1>10 DEF Next, Get

\* For any cache size, hash and interleaving: no signature is verified with
\* the key of another access key, scope or an older secret.
THEOREM NeverStale == Spec => []KeyIsCurrent
<1>1. IInv => KeyIsCurrent
  BY Zenon DEF IInv, KeyIsCurrent, DerivedFor
<1> QED BY <1>1, InitIInv, NextIInv, PTL DEF Spec

-----------------------------------------------------------------------------
(* No key is ahead of the store *)

\* No key in a slot or in hand is of a secret the store has not had.
KeysHeld ==
    /\ \A s \in Slots : slots[s] # Empty =>
          slots[s].key.version <= secret[slots[s].key.accessKeyID]
    /\ \A r \in Requests : pc[r] \in {"store", "verify"} =>
          key[r].version <= secret[key[r].accessKeyID]

\* Secrets are only ever replaced by later ones.
LEMMA SecretGrows ==
    ASSUME IInv, [Next]_vars, NEW k \in KeyIDs
    PROVE  secret'[k] \in Nat /\ secret[k] \in Nat /\ secret[k] <= secret'[k]
<1>1. secret \in [KeyIDs -> Nat]
  BY SignerCacheAssumption DEF IInv, Typed
<1>2. ASSUME NEW j \in KeyIDs, Rotate(j) PROVE secret'[k] \in Nat /\ secret[k] <= secret'[k]
  BY <1>1, <1>2 DEF Rotate
<1>3. ASSUME UNCHANGED secret PROVE secret'[k] \in Nat /\ secret[k] <= secret'[k]
  BY <1>1, <1>3
<1>4. ASSUME NEW r \in Requests, Get(r) PROVE UNCHANGED secret
  BY Zenon, <1>4 DEF Get, Hit, Miss, Derive, DeriveFails, Store, Verify
<1>5. ASSUME NEW r \in Requests, NEW j \in KeyIDs, NEW g \in 0 .. secret[j], NEW sc \in Scopes,
             signingKey(r, j, g, sc)
      PROVE  UNCHANGED secret
  BY Zenon, <1>5 DEF signingKey
<1>6. CASE UNCHANGED vars
  BY <1>1, <1>6 DEF vars
<1> QED BY Zenon, <1>1, <1>2, <1>3, <1>4, <1>5, <1>6 DEF Next

\* What was derived was derived from a secret the store has had.
LEMMA CacheKeysHeld == IInv /\ KeysHeld /\ [Next]_vars => KeysHeld'
<1> SUFFICES ASSUME IInv, KeysHeld, [Next]_vars PROVE KeysHeld'
  OBVIOUS
<1>1. \A s \in Slots : slots[s] # Empty =>
         /\ slots[s].key.accessKeyID \in KeyIDs
         /\ slots[s].key.version \in Nat
         /\ slots[s].key.version <= secret[slots[s].key.accessKeyID]
  BY DEF IInv, KeysHeld, DerivedFor, SigningKeyID
<1>2. \A r \in Requests : pc[r] \in {"store", "verify"} =>
         /\ key[r].accessKeyID \in KeyIDs
         /\ key[r].version \in Nat
         /\ key[r].version <= secret[key[r].accessKeyID]
  BY DEF IInv, KeysHeld, DerivedFor, SigningKeyID
<1>3. \A k \in KeyIDs : secret'[k] \in Nat /\ secret[k] \in Nat /\ secret[k] <= secret'[k]
  BY Zenon, SecretGrows
<1>4. ASSUME slots' = slots, pc' = pc, key' = key PROVE KeysHeld'
  <2>1. \A s \in Slots : slots[s] # Empty =>
           slots[s].key.version <= secret'[slots[s].key.accessKeyID]
    BY <1>1, <1>3
  <2>2. \A r \in Requests : pc[r] \in {"store", "verify"} =>
           key[r].version <= secret'[key[r].accessKeyID]
    BY <1>2, <1>3
  <2> QED BY Zenon, <1>4, <2>1, <2>2 DEF KeysHeld
<1>5. ASSUME NEW k \in KeyIDs, Rotate(k) PROVE KeysHeld'
  BY Zenon, <1>4, <1>5 DEF Rotate
<1>6. ASSUME NEW r \in Requests, NEW k \in KeyIDs, NEW g \in 0 .. secret[k], NEW sc \in Scopes,
             signingKey(r, k, g, sc)
      PROVE  KeysHeld'
  BY Zenon, <1>6 DEF signingKey, Goto, KeysHeld, IInv, Typed
<1>7. ASSUME NEW r \in Requests, Hit(r) PROVE KeysHeld'
  <2>1. id[r] \in SigningKeyID /\ id[r].accessKeyID \in KeyIDs
    BY Zenon, <1>7 DEF Hit, IInv, SigningKeyID
  <2>2. Slot(r) \in Slots
    BY Zenon, <2>1, SignerCacheAssumption DEF Slot
  <2>3. id[r] # None
    BY <2>1, SignerCacheAssumption DEF None
  <2>4. slots[Slot(r)] # Empty
    BY <1>7, <2>3 DEF Hit, Empty
  <2>5. slots[Slot(r)].key.version <= secret[slots[Slot(r)].key.accessKeyID]
    BY Zenon, <1>1, <2>2, <2>4
  <2> QED BY Zenon, <1>7, <2>5 DEF Hit, Goto, KeysHeld, IInv, Typed
<1>8. ASSUME NEW r \in Requests, Miss(r) PROVE KeysHeld'
  BY Zenon, <1>8 DEF Miss, Goto, KeysHeld, IInv, Typed
<1>9. ASSUME NEW r \in Requests, Derive(r) PROVE KeysHeld'
  <2>1. id[r] \in SigningKeyID
    BY Zenon, <1>9 DEF Derive, IInv
  <2>2. PICK g \in id[r].version .. secret[id[r].accessKeyID] :
          key' = [key EXCEPT ![r] = [id[r] EXCEPT !.version = g]]
    BY Zenon, <1>9 DEF Derive
  <2>3. /\ [id[r] EXCEPT !.version = g].version = g
        /\ [id[r] EXCEPT !.version = g].accessKeyID = id[r].accessKeyID
    BY Zenon, <2>1 DEF SigningKeyID
  <2>4. id[r].accessKeyID \in KeyIDs /\ id[r].version \in Nat
    BY <2>1 DEF SigningKeyID
  <2>5. g <= secret[id[r].accessKeyID]
    BY <1>3, <2>2, <2>4
  <2>6. key'[r].version <= secret[key'[r].accessKeyID]
    BY Zenon, <2>2, <2>3, <2>5 DEF IInv, Typed
  <2>7. \A q \in Requests \ {r} : key'[q] = key[q] /\ pc'[q] = pc[q]
    BY Zenon, <1>9, <2>2 DEF Derive, Goto, IInv, Typed
  <2>8. secret' = secret /\ slots' = slots
    BY Zenon, <1>9 DEF Derive
  <2> QED BY Zenon, <2>6, <2>7, <2>8 DEF KeysHeld
<1>10. ASSUME NEW r \in Requests, DeriveFails(r) PROVE KeysHeld'
  BY Zenon, <1>10 DEF DeriveFails, Release, Goto, KeysHeld, IInv, Typed
<1>11. ASSUME NEW r \in Requests, Store(r) PROVE KeysHeld'
  <2>1. key[r].version <= secret[key[r].accessKeyID]
    BY Zenon, <1>2, <1>11 DEF Store
  <2>2. slots' = [slots EXCEPT ![Slot(r)] = [id |-> id[r], key |-> key[r]]]
        /\ secret' = secret /\ key' = key /\ pc' = [pc EXCEPT ![r] = "verify"]
    BY Zenon, <1>11 DEF Store, Goto
  <2>3. ASSUME NEW s \in Slots, slots'[s] # Empty
        PROVE  slots'[s].key.version <= secret[slots'[s].key.accessKeyID]
    BY Zenon, <1>1, <2>1, <2>2, <2>3 DEF IInv, Typed
  <2>4. ASSUME NEW q \in Requests, pc'[q] \in {"store", "verify"}
        PROVE  key[q].version <= secret[key[q].accessKeyID]
    BY Zenon, <1>2, <2>1, <2>2, <2>4 DEF IInv, Typed
  <2> QED BY Zenon, <2>2, <2>3, <2>4 DEF KeysHeld
<1>12. ASSUME NEW r \in Requests, Verify(r) PROVE KeysHeld'
  BY Zenon, <1>12 DEF Verify, Release, Goto, KeysHeld, IInv, Typed
<1>13. CASE UNCHANGED vars
  BY Zenon, <1>4, <1>13 DEF vars
<1> QED BY Zenon, <1>5, <1>6, <1>7, <1>8, <1>9, <1>10, <1>11, <1>12, <1>13 DEF Next, Get

-----------------------------------------------------------------------------
(* The verifier over the cache *)

Pending == {"arrived", "fresh", "looked", "signing", "accepted"}

AllInputs == UNION {Inputs[r] : r \in Requests}

VTyped ==
    /\ now \in Nat
    /\ stage \in [Requests -> Stages]
    /\ req \in [Requests -> AllInputs \cup {NoRequest}]
    /\ cred \in [Requests -> Int] /\ at \in [Requests -> Int] /\ since \in [Requests -> Int]

SigningID(r) ==
    [accessKeyID |-> req[r].akid, version |-> cred[r], scope |-> <<req[r].date, req[r].region>>]

SignedWell(r) ==
    /\ req[r].sig.key.accessKeyID = req[r].akid
    /\ req[r].sig.key.version \in since[r] .. secret[req[r].akid]
    /\ \E g \in since[r] .. req[r].sig.key.version : TokenOf[req[r].akid][g] = Presented(req[r])

Known(r) ==
    /\ stage[r] \in Pending => req[r] \in Inputs[r]
    /\ stage[r] \in Pending /\ req[r].akid \in KeyIDs => since[r] <= secret[req[r].akid]
    /\ stage[r] \in {"looked", "signing"} =>
          /\ req[r].akid \in KeyIDs
          /\ since[r] <= cred[r]
          /\ TokenOf[req[r].akid][cred[r]] = Presented(req[r])
    /\ stage[r] # "signing" => pc[r] = "idle"
    /\ stage[r] = "signing" => pc[r] # "idle" /\ id[r] = SigningID(r)
    /\ stage[r] = "accepted" => req[r].akid \in KeyIDs /\ SignedWell(r)

VIInv == IInv /\ KeysHeld /\ VTyped /\ \A r \in Requests : Known(r)

-----------------------------------------------------------------------------
(* Verification *)

LEMMA CacheStep == VIInv /\ [VNext]_<<vars, verifierVars>> => [Next]_vars
<1> SUFFICES ASSUME VIInv, [VNext]_<<vars, verifierVars>> PROVE [Next]_vars
  OBVIOUS
<1>1. ASSUME NEW r \in Requests, checkSignature(r) PROVE Next
  <2>1. req[r].akid \in KeyIDs
    BY Zenon, <1>1 DEF checkSignature, VIInv, Known
  <2>2. req[r] \in Inputs[r]
    BY Zenon, <1>1 DEF checkSignature, VIInv, Known, Pending
  <2>3. <<req[r].date, req[r].region>> \in Scopes
    BY Zenon, <2>2, VerifierAssumption
  <2>4. signingKey(r, req[r].akid, cred[r], <<req[r].date, req[r].region>>)
    BY Zenon, <1>1 DEF checkSignature
  <2>5. cred[r] \in 0 .. secret[req[r].akid]
    BY Zenon, <2>4 DEF signingKey
  <2> QED BY Zenon, <2>1, <2>3, <2>4, <2>5 DEF Next
<1>2. ASSUME NEW r \in Requests, UseCache(r) PROVE Next
  BY Zenon, <1>2 DEF UseCache, Next, Get
<1>3. ASSUME NEW r \in Requests, derivationFails(r) PROVE Next
  BY Zenon, <1>3 DEF derivationFails, Next, Get
<1>4. ASSUME NEW r \in Requests, Mismatch(r) \/ Accept(r) PROVE Next
  BY Zenon, <1>4 DEF Mismatch, Accept, Next, Get
<1>5. ASSUME NEW k \in KeyIDs, RotateKey(k) PROVE Next
  BY Zenon, <1>5 DEF RotateKey, Next
<1>6. ASSUME NEW r \in Requests,
             Arrive(r) \/ verifyPresignedRequest(r) \/ lookupSecret(r) \/ lookupFails(r) \/ Refuse(r)
      PROVE  UNCHANGED vars
  BY Zenon, <1>6 DEF Arrive, verifyPresignedRequest, lookupSecret, lookupFails, Refuse
<1>7. ASSUME Tick PROVE UNCHANGED vars
  BY Zenon, <1>7 DEF Tick
<1> QED BY Zenon, <1>1, <1>2, <1>3, <1>4, <1>5, <1>6, <1>7 DEF VNext

LEMMA VInitIInv == VInit => VIInv
<1> SUFFICES ASSUME VInit PROVE VIInv
  OBVIOUS
<1>1. IInv
  BY Zenon, InitIInv DEF VInit
<1>2. KeysHeld
  BY Zenon DEF VInit, Init, KeysHeld
<1>3. VTyped
  BY DEF VInit, VTyped, Stages
<1>4. \A r \in Requests : Known(r)
  BY Zenon DEF VInit, Init, Known, Pending
<1> QED BY Zenon, <1>1, <1>2, <1>3, <1>4 DEF VIInv

\* What is known of a request stays known while others move.
LEMMA KnownStays ==
    ASSUME VIInv, NEW r \in Requests,
           stage'[r] = stage[r], req'[r] = req[r], cred'[r] = cred[r], since'[r] = since[r],
           pc'[r] = pc[r] \/ (pc[r] # "idle" /\ pc'[r] # "idle"), id'[r] = id[r],
           \A k \in KeyIDs : secret'[k] \in Nat /\ secret[k] \in Nat /\ secret[k] <= secret'[k]
    PROVE  Known(r)'
<1>1. Known(r) /\ since[r] \in Int /\ cred[r] \in Int
  BY Zenon DEF VIInv, VTyped
<1>2. req[r].akid \in KeyIDs /\ since[r] <= secret[req[r].akid] => since[r] <= secret'[req[r].akid]
  BY <1>1
<1>3. stage[r] = "accepted" => SignedWell(r)'
  <2>1. SUFFICES ASSUME stage[r] = "accepted" PROVE SignedWell(r)'
    OBVIOUS
  <2>2. req[r].akid \in KeyIDs /\ SignedWell(r)
    BY Zenon, <1>1, <2>1 DEF Known
  <2>3. req[r].sig.key.version \in since[r] .. secret'[req[r].akid]
    BY <1>1, <2>2 DEF SignedWell
  <2> QED BY Zenon, <2>2, <2>3 DEF SignedWell, Presented, Source
<1>4. SigningID(r)' = SigningID(r) /\ Presented(req[r])' = Presented(req[r])
  BY Zenon DEF SigningID, Presented, Source
<1> QED BY Zenon, <1>1, <1>2, <1>3, <1>4 DEF Known

\* And a refused request needs nothing to be known of it.
LEMMA RefusedKnown ==
    ASSUME VTyped, NEW r \in Requests, Refused(r), pc'[r] = "idle"
    PROVE  VTyped' /\ Known(r)'
<1>1. stage'[r] = "refused"
  BY Zenon DEF Refused, At, VTyped
<1>2. Known(r)'
  BY Zenon, <1>1 DEF Known, Pending
<1>3. VTyped'
  BY DEF Refused, At, VTyped, Stages
<1> QED BY Zenon, <1>2, <1>3

\* A request that only moves on keeps the types.
LEMMA StageTyped ==
    ASSUME VTyped, NEW r \in Requests, NEW s \in Stages, stage' = [stage EXCEPT ![r] = s],
           UNCHANGED <<now, req, at, since>>, cred' \in [Requests -> Int]
    PROVE  VTyped'
<1>1. stage' \in [Requests -> Stages]
  BY Zenon DEF VTyped
<1> QED BY Zenon, <1>1 DEF VTyped

LEMMA VNextIInv == VIInv /\ [VNext]_<<vars, verifierVars>> => VIInv'
<1> SUFFICES ASSUME VIInv, [VNext]_<<vars, verifierVars>> PROVE VIInv'
  OBVIOUS
<1>1. [Next]_vars
  BY Zenon, CacheStep
<1>2. IInv' /\ KeysHeld'
  BY Zenon, <1>1, NextIInv, CacheKeysHeld DEF VIInv
<1>3. \A k \in KeyIDs : secret'[k] \in Nat /\ secret[k] \in Nat /\ secret[k] <= secret'[k]
  BY Zenon, <1>1, SecretGrows DEF VIInv
<1>4. IInv /\ Typed /\ VTyped /\ \A r \in Requests : Known(r)
  BY Zenon DEF VIInv, IInv
<1> SUFFICES VTyped' /\ \A r \in Requests : Known(r)'
  BY Zenon, <1>2 DEF VIInv
<1>5. ASSUME UNCHANGED verifierVars, UNCHANGED <<pc, id>> PROVE VTyped' /\ \A r \in Requests : Known(r)'
  <2>1. VTyped'
    BY Zenon, <1>4, <1>5 DEF VTyped, verifierVars
  <2>2. ASSUME NEW r \in Requests PROVE Known(r)'
    BY Zenon, <1>3, <1>5, KnownStays DEF verifierVars
  <2> QED BY Zenon, <2>1, <2>2
<1>6. ASSUME Tick PROVE VTyped' /\ \A r \in Requests : Known(r)'
  <2>1. VTyped'
    BY <1>4, <1>6 DEF VTyped, Tick
  <2>2. ASSUME NEW r \in Requests PROVE Known(r)'
    BY Zenon, <1>3, <1>6, KnownStays DEF Tick, vars
  <2> QED BY Zenon, <2>1, <2>2
<1>7. ASSUME NEW k \in KeyIDs, RotateKey(k) PROVE VTyped' /\ \A r \in Requests : Known(r)'
  BY Zenon, <1>5, <1>7 DEF RotateKey, Rotate
\* A step of request r leaves the others' state alone.
<1>8. ASSUME NEW r \in Requests, NEW q \in Requests \ {r},
             stage'[q] = stage[q], req'[q] = req[q], cred'[q] = cred[q], since'[q] = since[q],
             pc'[q] = pc[q], id'[q] = id[q]
      PROVE  Known(q)'
  BY Zenon, <1>3, <1>8, KnownStays
<1>9. ASSUME NEW r \in Requests, Arrive(r) PROVE VTyped' /\ \A q \in Requests : Known(q)'
  <2>1. PICK q \in Inputs[r] :
          /\ req' = [req EXCEPT ![r] = q]
          /\ since' = [since EXCEPT ![r] = IF q.akid \in KeyIDs THEN secret[q.akid] ELSE 0]
    BY ZenonT(40), <1>9 DEF Arrive
  <2>2. /\ stage[r] = "new" /\ stage' = [stage EXCEPT ![r] = "arrived"]
        /\ at' = [at EXCEPT ![r] = now] /\ now' = now /\ cred' = cred
        /\ secret' = secret /\ pc' = pc /\ id' = id
    BY Zenon, <1>9 DEF Arrive, At, vars
  <2>3. VTyped'
    <3>1. (IF q.akid \in KeyIDs THEN secret[q.akid] ELSE 0) \in Int
      BY <1>3
    <3>2. q \in AllInputs
      BY Zenon, <2>1 DEF AllInputs
    <3>3. since' \in [Requests -> Int] /\ req' \in [Requests -> AllInputs \cup {NoRequest}]
      BY Zenon, <1>4, <2>1, <3>1, <3>2 DEF VTyped
    <3>4. at' \in [Requests -> Int] /\ now' \in Nat /\ cred' \in [Requests -> Int]
      BY <1>4, <2>2 DEF VTyped
    <3>5. stage' \in [Requests -> Stages]
      BY Zenon, <1>4, <2>2 DEF VTyped, Stages
    <3> QED BY Zenon, <3>3, <3>4, <3>5 DEF VTyped
  <2>4. Known(r)'
    <3>1. stage'[r] = "arrived" /\ req'[r] = q /\ pc[r] = "idle"
      BY Zenon, <1>4, <2>1, <2>2 DEF VTyped, Known
    <3>2. q.akid \in KeyIDs => since'[r] = secret[q.akid]
      BY Zenon, <1>4, <2>1 DEF VTyped
    <3>3. q.akid \in KeyIDs => since'[r] <= secret'[q.akid]
      BY Zenon, <1>3, <2>2, <3>2
    <3> QED BY Zenon, <2>1, <2>2, <3>1, <3>3 DEF Known, Pending
  <2>5. ASSUME NEW x \in Requests \ {r} PROVE Known(x)'
    BY Zenon, <1>4, <1>8, <2>1, <2>2 DEF VTyped
  <2> QED BY Zenon, <2>3, <2>4, <2>5
<1>10. ASSUME NEW r \in Requests, verifyPresignedRequest(r) PROVE VTyped' /\ \A q \in Requests : Known(q)'
  <2>1. /\ stage[r] = "arrived" /\ stage' = [stage EXCEPT ![r] = "fresh"]
        /\ UNCHANGED <<now, req, cred, at, since, secret, pc, id>>
    BY Zenon, <1>10 DEF verifyPresignedRequest, At, vars
  <2>2. VTyped'
    <3>1. "fresh" \in Stages /\ cred' \in [Requests -> Int]
      BY Zenon, <1>4, <2>1 DEF VTyped, Stages
    <3> QED BY ZenonT(40), <1>4, <2>1, <3>1, StageTyped
  <2>3. Known(r)'
    BY Zenon, <1>4, <2>1 DEF VTyped, Known, Pending
  <2>4. ASSUME NEW x \in Requests \ {r} PROVE Known(x)'
    BY Zenon, <1>4, <1>8, <2>1 DEF VTyped
  <2> QED BY Zenon, <2>2, <2>3, <2>4
<1>11. ASSUME NEW r \in Requests, lookupSecret(r) PROVE VTyped' /\ \A q \in Requests : Known(q)'
  <2> DEFINE k == req[r].akid
  <2>1. /\ Looking(r) /\ k \in KeyIDs
        /\ TokenOf[k][secret[k]] = Presented(req[r])
        /\ cred' = [cred EXCEPT ![r] = secret[k]]
        /\ stage' = [stage EXCEPT ![r] = "looked"]
        /\ UNCHANGED <<now, req, at, since, secret, pc, id>>
    BY Zenon, <1>11 DEF lookupSecret, validateSessionToken, At, vars
  <2>2. VTyped'
    <3>1. secret[k] \in Int
      BY <1>3, <2>1
    <3>2. cred' \in [Requests -> Int]
      BY Zenon, <1>4, <2>1, <3>1 DEF VTyped
    <3>3. "looked" \in Stages
      BY Zenon DEF Stages
    <3> QED BY ZenonT(40), <1>4, <2>1, <3>2, <3>3, StageTyped
  <2>3. Known(r)'
    <3>1. stage[r] \in Pending /\ stage[r] # "signing"
      BY ZenonT(40), <2>1 DEF Looking, Pending
    <3>2. req[r] \in Inputs[r] /\ since[r] <= secret[k] /\ pc[r] = "idle"
      BY Zenon, <1>4, <2>1, <3>1 DEF Known
    <3>3. stage'[r] = "looked" /\ cred'[r] = secret[k]
      BY Zenon, <1>4, <2>1 DEF VTyped
    <3>4. Presented(req[r])' = Presented(req[r])
      BY Zenon, <2>1 DEF Presented, Source
    <3> QED BY Zenon, <2>1, <3>2, <3>3, <3>4 DEF Known, Pending
  <2>4. ASSUME NEW x \in Requests \ {r} PROVE Known(x)'
    BY Zenon, <1>4, <1>8, <2>1 DEF VTyped
  <2> QED BY Zenon, <2>2, <2>3, <2>4
<1>12. ASSUME NEW r \in Requests, lookupFails(r) \/ Refuse(r) PROVE VTyped' /\ \A q \in Requests : Known(q)'
  <2>1. stage[r] # "signing" /\ Refused(r) /\ UNCHANGED <<secret, pc, id>>
    BY Zenon, <1>12 DEF lookupFails, Refuse, Looking, vars
  <2>2. pc'[r] = "idle"
    BY Zenon, <1>4, <2>1 DEF Known
  <2>3. ASSUME NEW x \in Requests \ {r} PROVE Known(x)'
    BY Zenon, <1>4, <1>8, <2>1 DEF VTyped, Refused, At
  <2> QED BY Zenon, <1>4, <2>1, <2>2, <2>3, RefusedKnown
<1>13. ASSUME NEW r \in Requests, checkSignature(r) PROVE VTyped' /\ \A q \in Requests : Known(q)'
  <2>1. /\ stage[r] = "looked" /\ stage' = [stage EXCEPT ![r] = "signing"]
        /\ UNCHANGED <<now, req, cred, at, since, secret>>
        /\ pc' = [pc EXCEPT ![r] = "get"]
        /\ id' = [id EXCEPT ![r] = SigningID(r)]
    BY Zenon, <1>13 DEF checkSignature, signingKey, Goto, At, SigningID
  <2>2. VTyped'
    <3>1. "signing" \in Stages /\ cred' \in [Requests -> Int]
      BY Zenon, <1>4, <2>1 DEF VTyped, Stages
    <3> QED BY ZenonT(40), <1>4, <2>1, <3>1, StageTyped
  <2>3. Known(r)'
    <3>1. stage'[r] = "signing" /\ pc'[r] = "get" /\ id'[r] = SigningID(r)
      BY Zenon, <1>4, <2>1 DEF VTyped, Typed
    <3>2. SigningID(r)' = SigningID(r) /\ Presented(req[r])' = Presented(req[r])
      BY Zenon, <2>1 DEF SigningID, Presented, Source
    <3> QED BY Zenon, <1>4, <2>1, <3>1, <3>2 DEF Known, Pending
  <2>4. ASSUME NEW x \in Requests \ {r} PROVE Known(x)'
    BY Zenon, <1>4, <1>8, <2>1 DEF VTyped, Typed
  <2> QED BY Zenon, <2>2, <2>3, <2>4
<1>14. ASSUME NEW r \in Requests, UseCache(r) PROVE VTyped' /\ \A q \in Requests : Known(q)'
  <2>1. /\ UNCHANGED <<now, stage, req, cred, at, since, id, secret>>
        /\ pc[r] # "idle" /\ pc'[r] # "idle"
        /\ \A x \in Requests \ {r} : pc'[x] = pc[x]
    BY Zenon, <1>4, <1>14 DEF UseCache, Hit, Miss, Derive, Store, Goto, verifierVars, Typed
  <2>2. VTyped'
    BY Zenon, <1>4, <2>1 DEF VTyped
  <2>3. ASSUME NEW x \in Requests PROVE Known(x)'
    BY Zenon, <1>3, <2>1, KnownStays
  <2> QED BY Zenon, <2>2, <2>3
<1>15. ASSUME NEW r \in Requests, derivationFails(r) \/ Mismatch(r) PROVE VTyped' /\ \A q \in Requests : Known(q)'
  <2>1. Refused(r) /\ Release(r) /\ secret' = secret
    BY Zenon, <1>15 DEF derivationFails, Mismatch, DeriveFails, Verify
  <2>2. pc'[r] = "idle"
    BY Zenon, <1>4, <2>1 DEF Release, Goto, Typed
  <2>3. ASSUME NEW x \in Requests \ {r} PROVE Known(x)'
    BY Zenon, <1>4, <1>8, <2>1 DEF VTyped, Refused, At, Release, Goto, Typed
  <2> QED BY Zenon, <1>4, <2>1, <2>2, <2>3, RefusedKnown
<1>16. ASSUME NEW r \in Requests, Accept(r) PROVE VTyped' /\ \A q \in Requests : Known(q)'
  <2>1. /\ pc[r] = "verify" /\ Release(r) /\ secret' = secret
        /\ req[r].sig.key = key[r]
        /\ stage' = [stage EXCEPT ![r] = "accepted"]
        /\ UNCHANGED <<now, req, cred, at, since>>
    BY <1>16 DEF Accept, Verify, Signature, At
  <2>2. VTyped'
    <3>1. "accepted" \in Stages /\ cred' \in [Requests -> Int]
      BY Zenon, <1>4, <2>1 DEF VTyped, Stages
    <3> QED BY ZenonT(40), <1>4, <2>1, <3>1, StageTyped
  <2>3. stage[r] = "signing"
    BY Zenon, <1>4, <2>1 DEF Known
  <2>4. /\ req[r].akid \in KeyIDs /\ since[r] <= cred[r] /\ id[r] = SigningID(r)
        /\ TokenOf[req[r].akid][cred[r]] = Presented(req[r])
    BY Zenon, <1>4, <2>3 DEF Known
  <2>5. DerivedFor(key[r], id[r]) /\ key[r].version <= secret[key[r].accessKeyID]
    BY Zenon, <1>4, <2>1 DEF IInv, KeysHeld, VIInv
  <2>6. /\ key[r].accessKeyID = req[r].akid
        /\ key[r].version \in Int /\ cred[r] <= key[r].version
        /\ key[r].version <= secret[req[r].akid]
    BY <2>4, <2>5 DEF DerivedFor, SigningID, SigningKeyID
  <2>7. since[r] \in Int /\ cred[r] \in Int /\ secret[req[r].akid] \in Int
    BY <1>3, <1>4, <2>4 DEF VTyped
  <2>8. /\ key[r].version \in since[r] .. secret[req[r].akid]
        /\ cred[r] \in since[r] .. key[r].version
    BY <2>4, <2>6, <2>7
  <2>9. SignedWell(r)
    BY ZenonT(40), <2>1, <2>4, <2>6, <2>8 DEF SignedWell
  <2>10. SignedWell(r)'
    BY ZenonT(40), <2>1, <2>9 DEF SignedWell, Presented, Source
  <2>11. stage'[r] = "accepted" /\ pc'[r] = "idle"
    BY Zenon, <1>4, <2>1 DEF VTyped, Release, Goto, Typed
  <2>12. req'[r] \in Inputs[r] /\ since'[r] <= secret'[req[r].akid]
    BY ZenonT(40), <1>4, <2>1, <2>3, <2>4 DEF Known, Pending
  <2>13. Known(r)'
    BY ZenonT(40), <2>1, <2>4, <2>10, <2>11, <2>12 DEF Known
  <2>14. ASSUME NEW x \in Requests \ {r} PROVE Known(x)'
    BY Zenon, <1>4, <1>8, <2>1 DEF VTyped, Release, Goto, Typed
  <2> QED BY Zenon, <2>2, <2>13, <2>14
<1>17. CASE UNCHANGED <<vars, verifierVars>>
  BY Zenon, <1>5, <1>17 DEF vars
<1> QED BY Zenon, <1>6, <1>7, <1>9, <1>10, <1>11, <1>12, <1>13, <1>14, <1>15, <1>16, <1>17 DEF VNext

\* Verification uses the cache as SignerCache says, for any requests and
\* any interleaving.
THEOREM Refinement == VSpec => KeepsCache
<1>1. VInit => Init
  BY Zenon DEF VInit
<1> QED BY <1>1, VInitIInv, VNextIInv, CacheStep, PTL DEF VSpec, KeepsCache, Spec

\* So no signature is compared with a key of another access key or scope, or
\* of an older secret than was looked up.
THEOREM KeysCurrent == VSpec => []KeyIsCurrent
  BY Refinement, NeverStale, PTL DEF KeepsCache

\* Whatever is accepted was signed with a secret that was current while it
\* was verified, and carries the session token that goes with one that was.
THEOREM CurrentSecretOnly == VSpec => []SignedByCurrentSecret
<1>1. VIInv => SignedByCurrentSecret
  BY Zenon DEF VIInv, Known, SignedWell, SignedByCurrentSecret
<1> QED BY <1>1, VInitIInv, VNextIInv, PTL DEF VSpec

-----------------------------------------------------------------------------
(* The clock *)

Within(q, c) ==
    /\ Time(q) - Skew <= c
    /\ IF q.form = "header"
       THEN c <= Time(q) + Skew
       ELSE c <= Time(q) + Week /\ c <= Time(q) + q.query["expires"]

TimeKnown(r) ==
    /\ stage[r] \in Pending => at[r] <= now
    /\ stage[r] \in {"fresh", "looked", "signing", "accepted"} /\ req[r].form # "header" =>
          \E c \in at[r] .. now : Within(req[r], c)
    /\ stage[r] \in {"signing", "accepted"} => \E c \in at[r] .. now : Within(req[r], c)

TIInv == VIInv /\ \A r \in Requests : TimeKnown(r)

\* Comparing durations compares times.
LEMMA Scaled ==
    ASSUME NEW a \in Int, NEW t \in Int, NEW w \in Int, NEW e \in Int,
           a * Second <= t * Second + w, w <= e * Second
    PROVE  a <= t + e
<1>1. Second \in Nat \ {0}
  BY Zenon, VerifierAssumption
<1> DEFINE s == Second
<1>2. s \in Nat \ {0} /\ a * s <= t * s + w /\ w <= e * s
  BY Zenon, <1>1
<1> HIDE DEF s
<1>3. a * s \in Int /\ t * s \in Int /\ e * s \in Int
  BY <1>2
<1>4. a * s <= t * s + e * s
  BY <1>2, <1>3
<1>5. t * s + e * s = (t + e) * s
  BY <1>2
<1>6. a * s <= (t + e) * s
  BY Zenon, <1>4, <1>5
<1> QED BY <1>2, <1>6

LEMMA Remainder == ASSUME NEW d \in Nat, NEW m \in Nat \ {0} PROVE d % m <= d /\ d % m \in Nat
  OBVIOUS

\* A duration that overflows is never longer than it was meant to be.
LEMMA WrapShortens == ASSUME NEW d \in Nat PROVE Wrap(d) <= d /\ Wrap(d) \in Int
<1>1. Half \in Nat /\ 2 * Half \in Nat \ {0} /\ d + Half \in Nat
  BY VerifierAssumption
<1> DEFINE m == 2 * Half
           n == d + Half
<1>2. m \in Nat \ {0} /\ n \in Nat
  BY Zenon, <1>1
<1>3. n % m <= n /\ n % m \in Nat
  <2> HIDE DEF m, n
  <2> QED BY Zenon, <1>2, Remainder
<1>4. Wrap(d) = (n % m) - Half
  BY Zenon DEF Wrap
<1>5. n = d + Half
  OBVIOUS
<1> HIDE DEF m, n
<1> QED BY <1>1, <1>3, <1>4, <1>5

LEMMA ReadTimes ==
    ASSUME NEW r \in Requests, NEW q \in Inputs[r]
    PROVE  /\ Has(Source(q), "date") => Time(q) \in Nat
           /\ Has(q.query, "expires") => q.query["expires"] \in 0 .. Half - 1
  BY VerifierAssumption, Zenon

LEMMA FreshWithin ==
    ASSUME NEW r \in Requests, NEW q \in Inputs[r], now \in Nat, q.form = "presigned", Fresh(q)
    PROVE  Within(q, now)
<1>1. Has(Source(q), "date") /\ Has(q.query, "expires")
  BY Zenon DEF Fresh, ScopeMatches
<1>2. Time(q) \in Int /\ q.query["expires"] \in Nat
  BY <1>1, ReadTimes
<1> DEFINE e == q.query["expires"]
           t == Time(q)
<1>3. Second \in Nat /\ Week \in Int /\ Skew \in Int
  BY VerifierAssumption
<1>4. e * Second \in Nat
  BY <1>2, <1>3
<1>5. Expires(q) <= e * Second /\ Expires(q) \in Int
  BY Zenon, <1>4, WrapShortens DEF Expires
<1>6. /\ Expires(q) <= Week * Second
      /\ now * Second <= t * Second + Expires(q)
      /\ t <= now + Skew
  BY Zenon DEF Fresh
<1>7. now \in Int /\ t \in Int /\ e \in Int
  BY <1>2
<1> HIDE DEF e, t
<1>8. now <= t + Week
  BY Zenon, <1>3, <1>5, <1>6, <1>7, Scaled
<1>9. now <= t + e
  BY Zenon, <1>5, <1>6, <1>7, Scaled
<1>10. t - Skew <= now
  BY <1>3, <1>6, <1>7
<1> QED BY Zenon, <1>8, <1>9, <1>10 DEF Within, e, t

LEMMA SkewWithin ==
    ASSUME NEW r \in Requests, NEW q \in Inputs[r], now \in Nat, q.form = "header", InSkew(q)
    PROVE  Within(q, now)
<1>1. Time(q) \in Int /\ Skew \in Int
  BY VerifierAssumption, ReadTimes DEF InSkew, ScopeMatches
<1>2. now - Time(q) \in -Skew .. Skew
  BY Zenon DEF InSkew
<1> QED BY <1>1, <1>2 DEF Within

\* Time only passes for a request that does not move.
LEMMA TimeStays ==
    ASSUME VIInv, NEW r \in Requests, TimeKnown(r), now' \in Nat, now <= now',
           stage'[r] = stage[r], req'[r] = req[r], at'[r] = at[r]
    PROVE  TimeKnown(r)'
<1>1. at[r] \in Int /\ now \in Nat
  BY Zenon DEF VIInv, VTyped
<1>2. at[r] .. now \subseteq at[r] .. now'
  BY <1>1
<1>3. ASSUME NEW c \in at[r] .. now, Within(req[r], c) PROVE c \in at'[r] .. now' /\ Within(req[r], c)'
  BY Zenon, <1>2, <1>3 DEF Within, Time, Source
<1> QED BY <1>1, <1>3 DEF TimeKnown

LEMMA TNext == TIInv /\ [VNext]_<<vars, verifierVars>> => TIInv'
<1> SUFFICES ASSUME TIInv, [VNext]_<<vars, verifierVars>> PROVE \A r \in Requests : TimeKnown(r)'
  BY Zenon, VNextIInv DEF TIInv
<1>1. VTyped /\ VIInv /\ \A r \in Requests : TimeKnown(r) /\ Known(r)
  BY Zenon DEF TIInv, VIInv
<1>2. ASSUME now' = now, NEW r \in Requests, stage'[r] = stage[r], req'[r] = req[r], at'[r] = at[r]
      PROVE  TimeKnown(r)'
  BY <1>1, <1>2, TimeStays DEF VTyped
<1>3. ASSUME NEW r \in Requests, stage'[r] = "refused" PROVE TimeKnown(r)'
  BY ZenonT(40), <1>3 DEF TimeKnown, Pending
<1>4. ASSUME Tick PROVE \A r \in Requests : TimeKnown(r)'
  <2>1. now' \in Nat /\ now <= now'
    BY <1>1, <1>4 DEF Tick, VTyped
  <2> QED BY Zenon, <1>1, <1>4, <2>1, TimeStays DEF Tick
<1>5. ASSUME NEW k \in KeyIDs, RotateKey(k) PROVE \A r \in Requests : TimeKnown(r)'
  BY Zenon, <1>2, <1>5 DEF RotateKey, verifierVars
<1>6. ASSUME NEW r \in Requests, Arrive(r) PROVE \A q \in Requests : TimeKnown(q)'
  <2>1. stage'[r] = "arrived" /\ at'[r] = now /\ now' = now /\ now \in Nat
    BY Zenon, <1>1, <1>6 DEF Arrive, At, VTyped
  <2>2. TimeKnown(r)'
    BY <2>1 DEF TimeKnown
  <2>3. ASSUME NEW x \in Requests \ {r} PROVE TimeKnown(x)'
    BY Zenon, <1>1, <1>2, <1>6 DEF Arrive, At, VTyped
  <2> QED BY Zenon, <2>2, <2>3
<1>7. ASSUME NEW r \in Requests, verifyPresignedRequest(r) PROVE \A q \in Requests : TimeKnown(q)'
  <2>1. /\ stage[r] = "arrived" /\ stage'[r] = "fresh" /\ UNCHANGED <<now, req, at>>
        /\ req[r].form = "presigned" /\ Fresh(req[r])
    BY ZenonT(40), <1>1, <1>7 DEF verifyPresignedRequest, At, VTyped
  <2>2. now \in Nat /\ at[r] \in Int /\ at[r] <= now /\ req[r] \in Inputs[r]
    BY Zenon, <1>1, <2>1 DEF VTyped, TimeKnown, Known, Pending
  <2>3. Within(req[r], now)
    BY Zenon, <2>1, <2>2, FreshWithin
  <2>4. Within(req[r], now)' /\ now' \in at'[r] .. now'
    BY <2>1, <2>2, <2>3 DEF Within, Time, Source
  <2>5. TimeKnown(r)'
    BY Zenon, <2>1, <2>2, <2>4 DEF TimeKnown
  <2>6. ASSUME NEW x \in Requests \ {r} PROVE TimeKnown(x)'
    BY Zenon, <1>1, <1>2, <1>7 DEF verifyPresignedRequest, At, VTyped
  <2> QED BY Zenon, <2>5, <2>6
<1>8. ASSUME NEW r \in Requests, lookupSecret(r) PROVE \A q \in Requests : TimeKnown(q)'
  <2>1. Looking(r) /\ stage'[r] = "looked" /\ UNCHANGED <<now, req, at>>
    BY Zenon, <1>1, <1>8 DEF lookupSecret, At, VTyped
  <2>2. stage[r] \in Pending /\ (stage[r] = "fresh" \/ req[r].form = "header")
    BY ZenonT(40), <2>1 DEF Looking, Pending
  <2>3. TimeKnown(r)'
    BY Zenon, <1>1, <2>1, <2>2 DEF TimeKnown, Within, Time, Source
  <2>4. ASSUME NEW x \in Requests \ {r} PROVE TimeKnown(x)'
    BY ZenonT(40), <1>1, <1>2, <1>8 DEF lookupSecret, At, VTyped
  <2> QED BY ZenonT(40), <2>3, <2>4
<1>9. ASSUME NEW r \in Requests, lookupFails(r) \/ Refuse(r) \/ derivationFails(r) \/ Mismatch(r)
      PROVE  \A q \in Requests : TimeKnown(q)'
  <2>1. Refused(r)
    BY ZenonT(40), <1>9 DEF lookupFails, Refuse, derivationFails, Mismatch
  <2>2. stage'[r] = "refused"
    BY Zenon, <1>1, <2>1 DEF Refused, At, VTyped
  <2>3. ASSUME NEW x \in Requests \ {r} PROVE TimeKnown(x)'
    BY Zenon, <1>1, <1>2, <2>1 DEF Refused, At, VTyped
  <2> QED BY Zenon, <1>3, <2>2, <2>3
<1>10. ASSUME NEW r \in Requests, checkSignature(r) PROVE \A q \in Requests : TimeKnown(q)'
  <2>1. /\ stage[r] = "looked" /\ stage'[r] = "signing" /\ UNCHANGED <<now, req, at>>
        /\ req[r].form = "header" => InSkew(req[r])
    BY Zenon, <1>1, <1>10 DEF checkSignature, At, VTyped
  <2>2. now \in Nat /\ at[r] \in Int /\ at[r] <= now /\ req[r] \in Inputs[r]
    BY ZenonT(40), <1>1, <2>1 DEF VTyped, TimeKnown, Known, Pending
  <2>3. \E c \in at[r] .. now : Within(req[r], c)
    <3>1. CASE req[r].form = "header"
      <4>1. Within(req[r], now)
        BY Zenon, <2>1, <2>2, <3>1, SkewWithin
      <4>2. now \in at[r] .. now
        BY <2>2
      <4> QED BY Zenon, <4>1, <4>2
    <3>2. CASE req[r].form # "header"
      BY ZenonT(40), <1>1, <2>1, <3>2 DEF TimeKnown
    <3> QED BY Zenon, <3>1, <3>2
  <2>4. TimeKnown(r)'
    BY Zenon, <2>1, <2>2, <2>3 DEF TimeKnown, Within, Time, Source
  <2>5. ASSUME NEW x \in Requests \ {r} PROVE TimeKnown(x)'
    BY Zenon, <1>1, <1>2, <1>10 DEF checkSignature, At, VTyped
  <2> QED BY Zenon, <2>4, <2>5
<1>11. ASSUME NEW r \in Requests, UseCache(r) PROVE \A q \in Requests : TimeKnown(q)'
  BY ZenonT(40), <1>2, <1>11 DEF UseCache, verifierVars
<1>12. ASSUME NEW r \in Requests, Accept(r) PROVE \A q \in Requests : TimeKnown(q)'
  <2>1. pc[r] = "verify" /\ stage'[r] = "accepted" /\ UNCHANGED <<now, req, at>>
    BY SMTT(30), <1>1, <1>12 DEF Accept, Verify, At, VTyped
  <2>2. stage[r] = "signing"
    BY ZenonT(40), <1>1, <2>1 DEF Known
  <2>3. TimeKnown(r)'
    BY ZenonT(40), <1>1, <2>1, <2>2 DEF TimeKnown, Within, Time, Source, Pending
  <2>4. ASSUME NEW x \in Requests \ {r} PROVE TimeKnown(x)'
    BY Zenon, <1>1, <1>2, <1>12 DEF Accept, At, VTyped
  <2> QED BY Zenon, <2>3, <2>4
<1>13. CASE UNCHANGED <<vars, verifierVars>>
  BY ZenonT(40), <1>2, <1>13 DEF verifierVars
<1> QED BY Zenon, <1>4, <1>5, <1>6, <1>7, <1>8, <1>9, <1>10, <1>11, <1>12, <1>13 DEF VNext

LEMMA TInit == VInit => TIInv
<1>1. VInit => \A r \in Requests : TimeKnown(r)
  BY ZenonT(40) DEF VInit, TimeKnown, Pending
<1> QED BY Zenon, <1>1, VInitIInv DEF TIInv

\* Whatever is accepted was within its time, for any skew, limit and width of
\* the durations.
THEOREM InTimeOnly == VSpec => []AcceptedInTime
<1>1. VInit => TIInv
  BY Zenon, TInit
<1>2. TIInv => AcceptedInTime
  BY Zenon DEF TIInv, TimeKnown, Within, AcceptedInTime
<1> QED BY <1>1, <1>2, TNext, PTL DEF VSpec

-----------------------------------------------------------------------------
(* What the signature covers *)

\* The value v of attribute n is in what was signed.
Covers(c, n, v) ==
    \/ Has(c.headers, n) /\ c.headers[n] = v
    \/ \E p \in DOMAIN c.query : lower[p] = n /\ c.query[p] = v

SeenSigned(r) ==
    \A n \in DOMAIN seen[r] : Covers(req[r].sig.canonical, n, seen[r][n])

\* A request past its first checks has every x-amz header signed and, past its
\* clock checks, a scope of its own date; what the handler of an accepted one
\* reads was signed.
SignedKnown(r) ==
    /\ stage[r] \in {"fresh", "looked", "signing"} => requireSignedAmzHeaders(req[r])
    /\ stage[r] \in {"fresh", "looked"} /\ req[r].form # "header" => ScopeMatches(req[r])
    /\ stage[r] = "signing" => ScopeMatches(req[r])
    /\ stage[r] = "accepted" => SeenSigned(r)

SIInv ==
    /\ TIInv
    /\ seen = [r \in Requests |-> seen[r]]
    /\ \A r \in Requests : SignedKnown(r)

LEMMA SignedStays ==
    ASSUME NEW r \in Requests, SignedKnown(r),
           stage'[r] = stage[r], req'[r] = req[r], seen'[r] = seen[r]
    PROVE  SignedKnown(r)'
<1>1. requireSignedAmzHeaders(req[r])' <=> requireSignedAmzHeaders(req[r])
  BY Zenon DEF requireSignedAmzHeaders
<1>2. ScopeMatches(req[r])' <=> ScopeMatches(req[r])
  BY Zenon DEF ScopeMatches, Source, Time, Has
<1>3. SeenSigned(r)' <=> SeenSigned(r)
  BY DEF SeenSigned, Covers, Has
<1> QED BY Zenon, <1>1, <1>2, <1>3 DEF SignedKnown

\* promoteHoistedQueryParams shows a handler only what was signed, once
\* requireSignedAmzHeaders has passed.
LEMMA PromotedSigned ==
    ASSUME NEW q, requireSignedAmzHeaders(q), NEW h \in promoteHoistedQueryParams(q),
           NEW n \in DOMAIN h
    PROVE  Covers(canonicalRequest(q), n, h[n])
<1> DEFINE c == canonicalRequest(q)
<1>1. /\ n \in Attributes(q)
      /\ IF Sent(q, n) THEN h[n] = q.headers[n]
                       ELSE \E p \in Hoisted(q) : lower[p] = n /\ h[n] = q.query[p]
  BY Zenon DEF promoteHoistedQueryParams
<1>2. c.query = q.query /\ c.headers = [m \in q.list |-> q.headers[m]]
  BY DEF canonicalRequest
<1>3. CASE Sent(q, n)
  <2>1. n \in q.list
    BY Zenon, <1>1, <1>3 DEF Attributes, Sent, Has, requireSignedAmzHeaders
  <2>2. n \in DOMAIN c.headers /\ c.headers[n] = h[n]
    BY Zenon, <1>1, <1>2, <1>3, <2>1
  <2> QED BY Zenon, <2>2 DEF Covers, Has
<1>4. CASE ~Sent(q, n)
  BY Zenon, <1>1, <1>2, <1>4 DEF Covers, Hoisted
<1> QED BY Zenon, <1>3, <1>4

LEMMA SNext == SIInv /\ [VNext]_<<vars, verifierVars>> => SIInv'
<1> SUFFICES ASSUME SIInv, [VNext]_<<vars, verifierVars>>
             PROVE  seen' = [r \in Requests |-> seen'[r]] /\ \A r \in Requests : SignedKnown(r)'
  BY Zenon, TNext DEF SIInv
<1>1. /\ VTyped /\ VIInv /\ seen = [r \in Requests |-> seen[r]]
      /\ \A r \in Requests : SignedKnown(r) /\ Known(r)
  BY Zenon DEF SIInv, TIInv, VIInv
<1> DEFINE Kept == seen' = [r \in Requests |-> seen'[r]] /\ \A r \in Requests : SignedKnown(r)'
<1>2. ASSUME NEW r \in Requests, stage'[r] = stage[r], req'[r] = req[r], seen' = seen
      PROVE  SignedKnown(r)'
  BY Zenon, <1>1, <1>2, SignedStays
<1>3. ASSUME NEW r \in Requests, stage'[r] \in {"refused", "arrived"} PROVE SignedKnown(r)'
  BY Zenon, <1>3 DEF SignedKnown
<1>4. ASSUME seen' = seen, stage' = stage, req' = req PROVE Kept
  BY Zenon, <1>1, <1>2, <1>4
<1>5. ASSUME Tick \/ \E k \in KeyIDs : RotateKey(k) PROVE Kept
  BY Zenon, <1>4, <1>5 DEF Tick, RotateKey, verifierVars
<1>6. ASSUME NEW r \in Requests, Arrive(r) PROVE Kept
  <2>1. stage'[r] = "arrived" /\ seen' = seen
    BY Zenon, <1>1, <1>6 DEF Arrive, At, VTyped
  <2>2. ASSUME NEW x \in Requests \ {r} PROVE SignedKnown(x)'
    BY Zenon, <1>1, <1>2, <1>6, <2>1 DEF Arrive, At, VTyped
  <2> QED BY Zenon, <1>1, <1>3, <2>1, <2>2
<1>7. ASSUME NEW r \in Requests, lookupFails(r) \/ Refuse(r) \/ derivationFails(r) \/ Mismatch(r)
      PROVE  Kept
  <2>1. Refused(r)
    BY Zenon, <1>7 DEF lookupFails, Refuse, derivationFails, Mismatch
  <2>2. stage'[r] = "refused" /\ seen' = seen
    BY Zenon, <1>1, <2>1 DEF Refused, At, VTyped
  <2>3. ASSUME NEW x \in Requests \ {r} PROVE SignedKnown(x)'
    BY Zenon, <1>1, <1>2, <2>1 DEF Refused, At, VTyped
  <2> QED BY Zenon, <1>1, <1>3, <2>2, <2>3
\* The three steps that only move a pending request on.
<1>8. ASSUME NEW r \in Requests, NEW s \in {"fresh", "looked", "signing"},
             stage' = [stage EXCEPT ![r] = s], req' = req, seen' = seen,
             requireSignedAmzHeaders(req[r]),
             s = "signing" \/ req[r].form # "header" => ScopeMatches(req[r])
      PROVE  Kept
  <2>1. stage'[r] = s
    BY Zenon, <1>1, <1>8 DEF VTyped
  <2>2. requireSignedAmzHeaders(req[r])'
    BY Zenon, <1>8 DEF requireSignedAmzHeaders
  <2>3. ScopeMatches(req[r])' <=> ScopeMatches(req[r])
    BY Zenon, <1>8 DEF ScopeMatches, Source, Time, Has
  <2>4. SignedKnown(r)'
    BY Zenon, <1>8, <2>1, <2>2, <2>3 DEF SignedKnown
  <2>5. ASSUME NEW x \in Requests \ {r} PROVE SignedKnown(x)'
    BY Zenon, <1>1, <1>2, <1>8 DEF VTyped
  <2> QED BY Zenon, <1>1, <1>8, <2>4, <2>5
<1>9. ASSUME NEW r \in Requests, verifyPresignedRequest(r) PROVE Kept
  <2>1. /\ stage' = [stage EXCEPT ![r] = "fresh"] /\ req' = req /\ seen' = seen
        /\ requireSignedAmzHeaders(req[r]) /\ ScopeMatches(req[r])
    BY Zenon, <1>9 DEF verifyPresignedRequest, At, Admissible, Fresh
  <2> QED BY Zenon, <1>8, <2>1
<1>10. ASSUME NEW r \in Requests, lookupSecret(r) PROVE Kept
  <2>1. /\ stage' = [stage EXCEPT ![r] = "looked"] /\ req' = req /\ seen' = seen /\ Looking(r)
    BY Zenon, <1>10 DEF lookupSecret, At
  <2>2. requireSignedAmzHeaders(req[r]) /\ (req[r].form # "header" => ScopeMatches(req[r]))
    BY Zenon, <1>1, <2>1 DEF Looking, Admissible, SignedKnown
  <2> QED BY Zenon, <1>8, <2>1, <2>2
<1>11. ASSUME NEW r \in Requests, checkSignature(r) PROVE Kept
  <2>1. /\ stage[r] = "looked" /\ stage' = [stage EXCEPT ![r] = "signing"]
        /\ req' = req /\ seen' = seen
        /\ req[r].form = "header" => ScopeMatches(req[r])
    BY Zenon, <1>11 DEF checkSignature, At, InSkew
  <2>2. requireSignedAmzHeaders(req[r]) /\ ScopeMatches(req[r])
    BY Zenon, <1>1, <2>1 DEF SignedKnown
  <2> QED BY Zenon, <1>8, <2>1, <2>2
<1>12. ASSUME NEW r \in Requests, UseCache(r) PROVE Kept
  BY Zenon, <1>4, <1>12 DEF UseCache, verifierVars
<1>13. ASSUME NEW r \in Requests, Accept(r) PROVE Kept
  <2>1. PICK h \in promoteHoistedQueryParams(req[r]) : seen' = [seen EXCEPT ![r] = h]
    BY Zenon, <1>13 DEF Accept
  <2>2. /\ pc[r] = "verify" /\ req' = req /\ stage' = [stage EXCEPT ![r] = "accepted"]
        /\ req[r].sig.canonical = canonicalRequest(req[r])
    BY <1>13 DEF Accept, Verify, At, Signature
  <2>3. stage[r] = "signing"
    BY Zenon, <1>1, <2>2 DEF Known
  <2>4. requireSignedAmzHeaders(req[r])
    BY Zenon, <1>1, <2>3 DEF SignedKnown
  <2>5. seen'[r] = h /\ seen' = [x \in Requests |-> seen'[x]] /\ stage'[r] = "accepted"
    BY <1>1, <2>1, <2>2 DEF VTyped
  <2>6. SeenSigned(r)'
    <3>1. \A n \in DOMAIN h : Covers(req[r].sig.canonical, n, h[n])
      BY Zenon, <2>2, <2>4, PromotedSigned
    <3> QED BY <2>2, <2>5, <3>1 DEF SeenSigned, Covers, Has
  <2>7. SignedKnown(r)'
    BY Zenon, <2>5, <2>6 DEF SignedKnown
  <2>8. ASSUME NEW x \in Requests \ {r} PROVE SignedKnown(x)'
    <3>1. stage'[x] = stage[x] /\ req'[x] = req[x] /\ seen'[x] = seen[x]
      BY Zenon, <1>1, <2>1, <2>2 DEF VTyped
    <3> QED BY Zenon, <1>1, <3>1, SignedStays
  <2> QED BY Zenon, <2>5, <2>7, <2>8
<1>14. CASE UNCHANGED <<vars, verifierVars>>
  BY Zenon, <1>4, <1>14 DEF verifierVars
<1> QED BY Zenon, <1>5, <1>6, <1>7, <1>9, <1>10, <1>11, <1>12, <1>13, <1>14 DEF VNext

LEMMA SInit == VInit => SIInv
<1>1. VInit => seen = [r \in Requests |-> seen[r]] /\ \A r \in Requests : SignedKnown(r)
  BY Zenon DEF VInit, SignedKnown
<1> QED BY Zenon, <1>1, TInit DEF SIInv

\* A handler reads only attributes the signer signed, whatever headers and
\* parameters the request carries.
THEOREM AttributesSigned == VSpec => []ReadAsSigned
<1>1. SIInv => ReadAsSigned
  BY Zenon DEF SIInv, SignedKnown, SeenSigned, Covers, ReadAsSigned
<1> QED BY <1>1, SInit, SNext, PTL DEF VSpec

LEMMA DivMonotone ==
    ASSUME NEW a \in Int, NEW b \in Int, NEW d \in Nat \ {0}, a <= b
    PROVE  a \div d \in Int /\ b \div d \in Int /\ a \div d <= b \div d
  OBVIOUS

\* A SigningKeyFunc is only asked for recent dates, for any skew, limit and
\* length of a day.
THEOREM RecentDatesOnly == VSpec => []DerivedForRecentDates
<1>1. SIInv => DerivedForRecentDates
  <2> SUFFICES ASSUME SIInv, NEW r \in Requests, pc[r] = "derive"
               PROVE  id[r].scope[1] \in ((at[r] - Week) \div Day) .. ((now + Skew) \div Day)
    BY Zenon DEF DerivedForRecentDates
  <2>1. VTyped /\ SignedKnown(r) /\ TimeKnown(r) /\ Known(r)
    BY Zenon DEF SIInv, TIInv, VIInv
  <2>2. stage[r] = "signing" /\ id[r] = SigningID(r) /\ req[r] \in Inputs[r]
    BY Zenon, <2>1 DEF Known, Pending
  <2>3. ScopeMatches(req[r])
    BY Zenon, <2>1, <2>2 DEF SignedKnown
  <2> DEFINE t == Time(req[r])
  <2>4. id[r].scope[1] = t \div Day
    <3>1. id[r].scope[1] = req[r].date
      BY <2>2 DEF SigningID
    <3> QED BY Zenon, <2>3, <3>1 DEF ScopeMatches
  <2>5. t \in Int /\ now \in Int /\ at[r] \in Int /\ Skew \in Nat /\ Week \in Nat /\ Skew <= Week
        /\ Day \in Nat \ {0}
    <3>1. t \in Nat
      BY Zenon, <2>2, <2>3, ReadTimes DEF ScopeMatches
    <3> QED BY <2>1, <3>1, VerifierAssumption DEF VTyped
  <2>6. PICK c \in at[r] .. now : Within(req[r], c)
    BY Zenon, <2>1, <2>2 DEF TimeKnown
  <2>7. t - Skew <= c /\ (c <= t + Skew \/ c <= t + Week)
    BY Zenon, <2>6 DEF Within
  <2> HIDE DEF t
  <2>8. at[r] - Week <= t /\ t <= now + Skew
    BY <2>5, <2>6, <2>7
  <2>9. /\ (at[r] - Week) \div Day <= t \div Day /\ t \div Day <= (now + Skew) \div Day
        /\ t \div Day \in Int /\ (at[r] - Week) \div Day \in Int /\ (now + Skew) \div Day \in Int
    <3>1. at[r] - Week \in Int /\ now + Skew \in Int
      BY <2>5
    <3> QED BY Zenon, <2>5, <2>8, <3>1, DivMonotone
  <2> QED BY <2>4, <2>9
<1> QED BY <1>1, SInit, SNext, PTL DEF VSpec

-----------------------------------------------------------------------------
(* Types *)

Counters == gets \in 0 .. MaxGets /\ hits \in Nat /\ misses \in Nat /\ displacements \in Nat

LEMMA CountersNext == Counters /\ [Next]_vars => Counters'
<1> SUFFICES ASSUME Counters, [Next]_vars PROVE Counters'
  OBVIOUS
<1>1. ASSUME NEW r \in Requests, Hit(r) \/ Miss(r) \/ Derive(r) \/ DeriveFails(r) \/ Verify(r) PROVE Counters'
  BY <1>1 DEF Counters, counters, Hit, Miss, Derive, DeriveFails, Verify
<1>2. ASSUME NEW r \in Requests, Store(r) PROVE Counters'
  BY <1>2 DEF Counters, Store
<1>3. ASSUME NEW k \in KeyIDs, Rotate(k) PROVE Counters'
  BY <1>3 DEF Counters, counters, Rotate
<1>4. ASSUME NEW r \in Requests, NEW k, NEW g, NEW sc, signingKey(r, k, g, sc) PROVE Counters'
  BY <1>4, SignerCacheAssumption DEF Counters, signingKey
<1>5. CASE UNCHANGED vars
  BY Zenon, <1>5 DEF Counters, counters, vars
<1> QED BY Zenon, <1>1, <1>2, <1>3, <1>4, <1>5 DEF Next, Get

\* The cache's types, for any slots and hash, its bounded lookups included.
THEOREM CacheTypes == Spec => []TypeOK
<1>1. Init => Counters
  BY SignerCacheAssumption DEF Init, Counters
<1>2. IInv /\ Counters => TypeOK
  BY Zenon DEF IInv, Typed, Counters, TypeOK
<1> QED BY <1>1, <1>2, InitIInv, NextIInv, CountersNext, PTL DEF Spec

\* What is kept of a request: only the credential, clock and generation of one
\* that is pending or accepted.
Bounds ==
    /\ now \in 0 .. MaxNow
    /\ \A r \in Requests : stage[r] \in {"new", "refused"} <=> req[r] = NoRequest
    /\ cred \in [Requests -> 0 .. MaxGen]
    /\ at \in [Requests -> 0 .. MaxNow]
    /\ since \in [Requests -> 0 .. MaxGen]

LEMMA BoundsNext == VIInv /\ Bounds /\ [VNext]_<<vars, verifierVars>> => Bounds'
<1> SUFFICES ASSUME VIInv, Bounds, [VNext]_<<vars, verifierVars>> PROVE Bounds'
  OBVIOUS
<1>1. VTyped /\ Typed /\ \A r \in Requests : Known(r)
  BY Zenon DEF VIInv, IInv
<1>2. 0 \in 0 .. MaxGen /\ 0 \in 0 .. MaxNow
  BY SignerCacheAssumption, VerifierAssumption
<1>3. ASSUME UNCHANGED verifierVars PROVE Bounds'
  BY Zenon, <1>3 DEF Bounds, verifierVars
<1>4. ASSUME Tick PROVE Bounds'
  <2>1. now' \in 0 .. MaxNow
    BY <1>4, VerifierAssumption DEF Tick, Bounds
  <2> QED BY Zenon, <1>4, <2>1 DEF Tick, Bounds
<1>5. ASSUME NEW k \in KeyIDs, RotateKey(k) PROVE Bounds'
  BY Zenon, <1>3, <1>5 DEF RotateKey
<1>6. ASSUME NEW r \in Requests, Arrive(r) PROVE Bounds'
  <2>1. PICK q \in Inputs[r] :
          /\ req' = [req EXCEPT ![r] = q]
          /\ since' = [since EXCEPT ![r] = IF q.akid \in KeyIDs THEN secret[q.akid] ELSE 0]
    BY ZenonT(40), <1>6 DEF Arrive
  <2>2. q # NoRequest
    BY Zenon, VerifierAssumption
  <2>3. (IF q.akid \in KeyIDs THEN secret[q.akid] ELSE 0) \in 0 .. MaxGen
    BY Zenon, <1>1, <1>2 DEF Typed
  <2>4. since' \in [Requests -> 0 .. MaxGen]
    BY Zenon, <2>1, <2>3 DEF Bounds
  <2>5. at' \in [Requests -> 0 .. MaxNow] /\ now' = now /\ cred' = cred
    BY Zenon, <1>6 DEF Arrive, Bounds
  <2>6. stage' = [stage EXCEPT ![r] = "arrived"]
    BY Zenon, <1>6 DEF Arrive, At
  <2>7. ASSUME NEW x \in Requests PROVE stage'[x] \in {"new", "refused"} <=> req'[x] = NoRequest
    BY Zenon, <1>1, <2>1, <2>2, <2>6 DEF Bounds, VTyped
  <2> QED BY Zenon, <2>4, <2>5, <2>7 DEF Bounds
\* A pending request moves on and keeps what it sent.
<1>7. ASSUME NEW r \in Requests, NEW s \in {"fresh", "looked", "signing", "accepted"},
             stage' = [stage EXCEPT ![r] = s], stage[r] \in Pending, UNCHANGED <<now, req, at, since>>,
             cred' \in [Requests -> 0 .. MaxGen]
      PROVE  Bounds'
  <2>1. ASSUME NEW x \in Requests PROVE stage'[x] \in {"new", "refused"} <=> req'[x] = NoRequest
    BY Zenon, <1>1, <1>7 DEF Bounds, VTyped, Pending
  <2> QED BY Zenon, <1>7, <2>1 DEF Bounds
<1>8. ASSUME NEW r \in Requests, verifyPresignedRequest(r) PROVE Bounds'
  BY Zenon, <1>7, <1>8 DEF verifyPresignedRequest, At, Pending, Bounds
<1>9. ASSUME NEW r \in Requests, lookupSecret(r) PROVE Bounds'
  <2>1. stage[r] \in Pending /\ secret[req[r].akid] \in 0 .. MaxGen
    BY Zenon, <1>1, <1>9 DEF lookupSecret, Looking, Pending, Typed
  <2>2. cred' \in [Requests -> 0 .. MaxGen]
    BY Zenon, <1>9, <2>1 DEF lookupSecret, Bounds
  <2> QED BY Zenon, <1>7, <1>9, <2>1, <2>2 DEF lookupSecret, At
<1>10. ASSUME NEW r \in Requests, checkSignature(r) PROVE Bounds'
  BY Zenon, <1>7, <1>10 DEF checkSignature, At, Pending, Bounds
<1>11. ASSUME NEW r \in Requests, lookupFails(r) \/ Refuse(r) \/ derivationFails(r) \/ Mismatch(r)
       PROVE  Bounds'
  <2>1. Refused(r)
    BY Zenon, <1>11 DEF lookupFails, Refuse, derivationFails, Mismatch
  <2>2. /\ cred' \in [Requests -> 0 .. MaxGen] /\ at' \in [Requests -> 0 .. MaxNow]
        /\ since' \in [Requests -> 0 .. MaxGen] /\ now' \in 0 .. MaxNow
    BY Zenon, <1>2, <2>1 DEF Refused, Bounds
  <2>3. ASSUME NEW x \in Requests PROVE stage'[x] \in {"new", "refused"} <=> req'[x] = NoRequest
    BY Zenon, <1>1, <2>1 DEF Refused, At, Bounds, VTyped
  <2> QED BY Zenon, <2>2, <2>3 DEF Bounds
<1>12. ASSUME NEW r \in Requests, UseCache(r) PROVE Bounds'
  BY Zenon, <1>3, <1>12 DEF UseCache
<1>13. ASSUME NEW r \in Requests, Accept(r) PROVE Bounds'
  <2>1. stage[r] = "signing"
    BY Zenon, <1>1, <1>13 DEF Accept, Verify, Known
  <2> QED BY Zenon, <1>7, <1>13, <2>1 DEF Accept, At, Pending, Bounds
<1>14. CASE UNCHANGED <<vars, verifierVars>>
  BY Zenon, <1>3, <1>14
<1> QED BY Zenon, <1>4, <1>5, <1>6, <1>8, <1>9, <1>10, <1>11, <1>12, <1>13, <1>14 DEF VNext

\* The verifier's types, for any requests and inputs: a request refused or not
\* yet made leaves nothing behind.
THEOREM VerifierTypes == VSpec => []VTypeOK
<1>1. VInit => Bounds
  BY SignerCacheAssumption, VerifierAssumption DEF VInit, Bounds
<1>2. VIInv /\ TypeOK /\ Bounds => VTypeOK
  BY Zenon DEF VIInv, VTyped, Bounds, VTypeOK
<1>3. VSpec => []TypeOK
  BY Refinement, CacheTypes, PTL DEF KeepsCache
<1> QED BY <1>1, <1>2, <1>3, VInitIInv, VNextIInv, BoundsNext, PTL DEF VSpec

=============================================================================
