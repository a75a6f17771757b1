---------------------------- MODULE SignerCache ----------------------------
(***************************************************************************)
(* The signing-key cache of sigv4/signer.go under concurrent verification  *)
(* and secret rotation.  A verification looks its credential up in the     *)
(* store, then reads its slot, and on a miss derives the key and writes    *)
(* the slot; between any two of these other verifications and a rotation   *)
(* may come.  A derived key is modelled by what it was derived from: the   *)
(* access key, the generation of its secret and the scope (date, region).  *)
(* Verifier.tla composes this cache with the verification that calls it.     *)
(***************************************************************************)
EXTENDS Integers, FiniteSets

CONSTANTS Requests,
          KeyIDs,      \* access key ids
          Remote,      \* those whose key comes from a SigningKeyFunc
          Scopes,      \* dates and regions
          Slots, slotOf,   \* the slots and the hash
          MaxGen, MaxGets  \* bounds: rotations of a secret, lookups in all

ASSUME SignerCacheAssumption ==
    /\ Remote \subseteq KeyIDs /\ "unset" \notin KeyIDs
    /\ slotOf \in [KeyIDs -> Slots]
    /\ MaxGen \in Nat /\ MaxGets \in Nat

VARIABLES secret,       \* the store: the generation of each key's secret
          slots,        \* id and signingKey of each slot, or Empty
          pc, id, key,  \* of each verification: its signingKeyID and signing key
          gets, hits, misses, displacements

counters == <<gets, hits, misses, displacements>>
vars == <<secret, slots, pc, id, key, counters>>

SigningKeyID == [accessKeyID : KeyIDs, version : 0 .. MaxGen, scope : Scopes]

\* The zero signingKeyID, and the slot nothing was stored in.
None == [accessKeyID |-> "unset", version |-> 0, scope |-> <<0, "unset">>]
Empty == [id |-> None, key |-> None]

\* Types: a slot is empty or holds a key with the id it was derived for
\* (signerSlot); a failed derivation stores nothing.
TypeOK ==
    /\ secret \in [KeyIDs -> 0 .. MaxGen]
    /\ slots \in [Slots -> [id : SigningKeyID, key : SigningKeyID] \cup {Empty}]
    /\ pc \in [Requests -> {"idle", "get", "derive", "store", "verify"}]
    /\ id \in [Requests -> SigningKeyID \cup {None}]
    /\ key \in [Requests -> SigningKeyID \cup {None}]
    /\ gets \in 0 .. MaxGets
    /\ hits \in Nat /\ misses \in Nat /\ displacements \in Nat

Init ==
    /\ secret = [k \in KeyIDs |-> 0]
    /\ slots = [s \in Slots |-> Empty]
    /\ pc = [r \in Requests |-> "idle"]
    /\ id = [r \in Requests |-> None]
    /\ key = [r \in Requests |-> None]
    /\ gets = 0 /\ hits = 0 /\ misses = 0 /\ displacements = 0

Goto(r, label) == pc' = [pc EXCEPT ![r] = label]

\* The store rotates a secret; SecretVersion changes with it.
Rotate(k) ==
    /\ secret[k] < MaxGen
    /\ secret' = [secret EXCEPT ![k] = @ + 1]
    /\ UNCHANGED <<slots, pc, id, key, counters>>

\* signingKey: the id names the secret as some earlier lookup found it, which
\* the store may have rotated since.
signingKey(r, k, g, sc) ==
    /\ pc[r] = "idle"
    /\ gets < MaxGets
    /\ g \in 0 .. secret[k]
    /\ id' = [id EXCEPT ![r] = [accessKeyID |-> k, version |-> g, scope |-> sc]]
    /\ key' = [key EXCEPT ![r] = None]
    /\ gets' = gets + 1
    /\ Goto(r, "get")
    /\ UNCHANGED <<secret, slots, hits, misses, displacements>>

-----------------------------------------------------------------------------
(* signerCache.get *)

Slot(r) == slotOf[id[r].accessKeyID]

\* Faulty hit: the access key alone is compared.
HitAnyScope(r) ==
    /\ pc[r] = "get"
    /\ slots[Slot(r)] # Empty /\ slots[Slot(r)].id.accessKeyID = id[r].accessKeyID
    /\ key' = [key EXCEPT ![r] = slots[Slot(r)].key]
    /\ hits' = hits + 1
    /\ Goto(r, "verify")
    /\ UNCHANGED <<secret, slots, id, gets, misses, displacements>>

\* Under the read lock the slot's id and key belong together.
Hit(r) ==
    /\ pc[r] = "get"
    /\ slots[Slot(r)].id = id[r]
    /\ key' = [key EXCEPT ![r] = slots[Slot(r)].key]
    /\ hits' = hits + 1
    /\ Goto(r, "verify")
    /\ UNCHANGED <<secret, slots, id, gets, misses, displacements>>

Miss(r) ==
    /\ pc[r] = "get"
    /\ slots[Slot(r)].id # id[r]
    /\ misses' = misses + 1
    /\ Goto(r, "derive")
    /\ UNCHANGED <<secret, slots, id, key, gets, hits, displacements>>

\* deriveSigningKey takes the secret in the id; a SigningKeyFunc the one it
\* finds behind the key when it runs, which may be newer.
Derive(r) ==
    /\ pc[r] = "derive"
    /\ \E g \in id[r].version .. secret[id[r].accessKeyID] :
          /\ id[r].accessKeyID \notin Remote => g = id[r].version
          /\ key' = [key EXCEPT ![r] = [id[r] EXCEPT !.version = g]]
    /\ Goto(r, "store")
    /\ UNCHANGED <<secret, slots, id, counters>>

\* The request's own copies end with it.
Release(r) ==
    /\ id' = [id EXCEPT ![r] = None]
    /\ key' = [key EXCEPT ![r] = None]
    /\ Goto(r, "idle")

\* A SigningKeyFunc fails or returns a key of the wrong length.
DeriveFails(r) ==
    /\ pc[r] = "derive"
    /\ id[r].accessKeyID \in Remote
    /\ Release(r)
    /\ UNCHANGED <<secret, slots, counters>>

\* Under the write lock: another access key in the slot is displaced.
Store(r) ==
    /\ pc[r] = "store"
    /\ LET s == slots[Slot(r)]
       IN  displacements' = displacements +
               (IF s # Empty /\ s.id.accessKeyID # id[r].accessKeyID THEN 1 ELSE 0)
    /\ slots' = [slots EXCEPT ![Slot(r)] = [id |-> id[r], key |-> key[r]]]
    /\ Goto(r, "verify")
    /\ UNCHANGED <<secret, id, key, gets, hits, misses>>

Verify(r) ==
    /\ pc[r] = "verify"
    /\ Release(r)
    /\ UNCHANGED <<secret, slots, counters>>

-----------------------------------------------------------------------------
Get(r) == Hit(r) \/ Miss(r) \/ Derive(r) \/ DeriveFails(r) \/ Store(r) \/ Verify(r)

Next ==
    \/ \E k \in KeyIDs : Rotate(k)
    \/ \E r \in Requests : Get(r)
    \/ \E r \in Requests : \E k \in KeyIDs : \E g \in 0 .. secret[k] : \E sc \in Scopes :
          signingKey(r, k, g, sc)

Spec == Init /\ [][Next]_vars

-----------------------------------------------------------------------------
\* A signature is checked with a key of the request's own access key and
\* scope, and of the secret the store gave for it or a later one: "a secret
\* changed under the same access key id never verifies against the old one's
\* key", whatever the cache holds and whoever wrote it (signerCache.get).
KeyIsCurrent ==
    \A r \in Requests : pc[r] = "verify" =>
        /\ key[r].accessKeyID = id[r].accessKeyID
        /\ key[r].scope = id[r].scope
        /\ key[r].version >= id[r].version
        /\ id[r].accessKeyID \notin Remote => key[r].version = id[r].version
=============================================================================
