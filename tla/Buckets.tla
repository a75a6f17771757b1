------------------------------- MODULE Buckets -------------------------------
(***************************************************************************)
(* Buckets that come and go while a tenant lists them page by page.  The   *)
(* s3tests harness creates and deletes buckets in front of the gateway: it *)
(* registers names in memStore and makes them on the backend, whose        *)
(* answers may be lost and whose effects may be late.  The gateway's       *)
(* ListBuckets reads the same store, one page per request; the client      *)
(* follows the continuation tokens.  Bucket names are numbers, in the      *)
(* order the gateway sorts them.                                           *)
(***************************************************************************)
EXTENDS Naturals, FiniteSets, Sequences, Functions

CONSTANTS Requests, Tenants,
          Names,        \* a set of positive numbers
          Invalid,      \* those ValidateBucketName refuses
          Asked,        \* those that requests create and delete
          Nobody,       \* no tenant
          Lister,       \* the tenant that lists its buckets
          PageSizes     \* the max-buckets values it asks for

ASSUME BucketsAssumption ==
    /\ Names \subseteq Nat \ {0} /\ IsFiniteSet(Names)
    /\ Invalid \subseteq Names /\ Asked \subseteq Names
    /\ Lister \in Tenants /\ Nobody \notin Tenants
    /\ PageSizes \subseteq Nat \ {0}
    /\ Requests \cap {"none", "earlier"} = {}

VARIABLES buckets,    \* memStore.buckets: the owner, and the request that claimed
          backend,    \* the buckets the backend has
          late,       \* calls given up whose effect may still come
          doubtful,   \* history: names of which a DeleteBucket was given up
          pc, op,     \* of each request: where it is, what it asks
          held,       \* history: its tenant owned the name while it was served
          walk        \* the listing under way

vars == <<buckets, backend, late, doubtful, pc, op, held, walk>>

Free == [tenant |-> Nobody, by |-> "none"]
Rec == [tenant : Tenants, by : Requests \cup {"earlier"}] \cup {Free}
Methods == {"PUT", "DELETE", "GET"}
Op == [method : Methods, bare : BOOLEAN, bucket : Asked, tenant : Tenants]
NoOp == [method |-> "none", bare |-> FALSE, bucket |-> 0, tenant |-> Nobody]
NoWalk == [state |-> "none", token |-> 0, listed |-> <<>>, kept |-> {}, ever |-> {}]

\* Types; no invalid name is registered, and a request is kept exactly while it is
\* being served: of an answered one only the answer is left.
TypeOK ==
    /\ buckets \in [Names -> Rec]
    /\ \A n \in Invalid : buckets[n] = Free
    /\ backend \subseteq Names
    /\ late \subseteq [method : {"PUT", "DELETE"}, bucket : Names]
    /\ doubtful \subseteq Names
    /\ pc \in [Requests -> {"new", "create", "claimed", "made", "failed",
                            "delete", "owned", "deleted", "ok", "refused"}]
    /\ op \in [Requests -> Op \cup {NoOp}]
    /\ \A r \in Requests : pc[r] \in {"new", "ok", "refused"} <=> op[r] = NoOp
    /\ held \in [Requests -> BOOLEAN]
    /\ walk.state \in {"none", "walking", "end"}
    /\ walk.token \in Names \cup {0}
    /\ Range(walk.listed) \subseteq Names

\* What earlier requests and earlier runs of the harness leave behind.
Init ==
    /\ buckets \in [Names -> {Free} \cup [tenant : Tenants, by : {"earlier"}]]
    /\ \A n \in Invalid : buckets[n] = Free
    /\ \E leftover \in SUBSET (Asked \ Invalid) :
          backend = leftover \cup {n \in Names : buckets[n] # Free}
    /\ late = {} /\ doubtful = {}
    /\ pc = [r \in Requests |-> "new"]
    /\ op = [r \in Requests |-> NoOp]
    /\ held = [r \in Requests |-> FALSE]
    /\ walk = NoWalk

Mine(b) == {n \in Names : b[n].tenant = Lister}

\* What the histories note of a step.
NoteHeld ==
    held' = [r \in Requests |->
               /\ op'[r] # NoOp
               /\ held[r] \/ buckets'[op'[r].bucket].tenant = op'[r].tenant]

NoteWalk ==
    walk' = IF walk.state = "walking"
            THEN [walk EXCEPT !.kept = @ \cap Mine(buckets'), !.ever = @ \cup Mine(buckets')]
            ELSE walk

Observe == NoteHeld /\ NoteWalk

Goto(r, label) == pc' = [pc EXCEPT ![r] = label] /\ UNCHANGED op
finish(r, label) == pc' = [pc EXCEPT ![r] = label] /\ op' = [op EXCEPT ![r] = NoOp]
Register(n, rec) == buckets' = [buckets EXCEPT ![n] = rec]
Bucket(r) == op[r].bucket
Give(r, method) == late' = late \cup {[method |-> method, bucket |-> Bucket(r)]}

-----------------------------------------------------------------------------
(* bucketInterceptor *)

\* A create or delete of a bare bucket; all else is the gateway's.
interceptedBucket(o) == o.method \in {"PUT", "DELETE"} /\ o.bare

\* ServeHTTP; a bad signature is refused.
ServeHTTP(r) ==
    /\ pc[r] = "new"
    /\ \/ \E o \in Op :
             /\ interceptedBucket(o)
             /\ op' = [op EXCEPT ![r] = o]
             /\ pc' = [pc EXCEPT ![r] = IF o.method = "PUT" THEN "create" ELSE "delete"]
       \/ finish(r, "refused")
    /\ UNCHANGED <<buckets, backend, late, doubtful>>
    /\ Observe

\* Faulty claim: the name is not validated.
claimInvalid(r) ==
    /\ pc[r] = "create"
    /\ \/ /\ buckets[Bucket(r)] = Free
          /\ Register(Bucket(r), [tenant |-> op[r].tenant, by |-> r])
          /\ Goto(r, "claimed")
       \/ /\ buckets[Bucket(r)] # Free
          /\ finish(r, "refused")
          /\ UNCHANGED buckets
    /\ UNCHANGED <<backend, late, doubtful>>
    /\ Observe

\* memStore.claim, if the name is valid.
claim(r) ==
    /\ pc[r] = "create"
    /\ \/ /\ Bucket(r) \notin Invalid
          /\ buckets[Bucket(r)] = Free
          /\ Register(Bucket(r), [tenant |-> op[r].tenant, by |-> r])
          /\ Goto(r, "claimed")
       \/ /\ Bucket(r) \in Invalid \/ buckets[Bucket(r)] # Free
          /\ finish(r, "refused")
          /\ UNCHANGED buckets
    /\ UNCHANGED <<backend, late, doubtful>>
    /\ Observe

\* backend.CreateBucket: made, or it was there already, which is as good.
CreateBucket(r) ==
    /\ pc[r] = "claimed"
    /\ backend' = backend \cup {Bucket(r)}
    /\ Goto(r, "made")
    /\ UNCHANGED <<buckets, late, doubtful>>
    /\ Observe

\* It fails, or its answer is lost and the bucket is made at any later time.
CreateBucketFails(r) ==
    /\ pc[r] = "claimed"
    /\ UNCHANGED late \/ Give(r, "PUT")
    /\ Goto(r, "failed")
    /\ UNCHANGED <<buckets, backend, doubtful>>
    /\ Observe

\* Faulty createBucket: a failure leaves the claim.
createBucketKeepsClaim(r) ==
    /\ pc[r] \in {"made", "failed"}
    /\ finish(r, IF pc[r] = "made" THEN "ok" ELSE "refused")
    /\ UNCHANGED <<buckets, backend, late, doubtful>>
    /\ Observe

\* The rest of createBucket: a failure gives the name back.
createBucket(r) ==
    /\ \/ /\ pc[r] = "made"
          /\ finish(r, "ok")
          /\ UNCHANGED buckets
       \/ /\ pc[r] = "failed"
          /\ Register(Bucket(r), Free)
          /\ finish(r, "refused")
    /\ UNCHANGED <<backend, late, doubtful>>
    /\ Observe

\* Faulty owner check: the bucket need only exist.
ownerAny(r) ==
    /\ pc[r] = "delete"
    /\ IF buckets[Bucket(r)] # Free THEN Goto(r, "owned") ELSE finish(r, "refused")
    /\ UNCHANGED <<buckets, backend, late, doubtful>>
    /\ Observe

\* memStore.owner: the bucket must exist and be the requester's.
owner(r) ==
    /\ pc[r] = "delete"
    /\ \/ buckets[Bucket(r)].tenant = op[r].tenant /\ Goto(r, "owned")
       \/ buckets[Bucket(r)].tenant # op[r].tenant /\ finish(r, "refused")
    /\ UNCHANGED <<buckets, backend, late, doubtful>>
    /\ Observe

DeleteBucket(r) ==
    /\ pc[r] = "owned"
    /\ Bucket(r) \in backend
    /\ backend' = backend \ {Bucket(r)}
    /\ Goto(r, "deleted")
    /\ UNCHANGED <<buckets, late, doubtful>>
    /\ Observe

\* It fails (not empty, not there), or its answer is lost: the registration
\* is kept.
DeleteBucketFails(r) ==
    /\ pc[r] = "owned"
    /\ \/ UNCHANGED <<late, doubtful>>
       \/ Give(r, "DELETE") /\ doubtful' = doubtful \cup {Bucket(r)}
    /\ finish(r, "refused")
    /\ UNCHANGED <<buckets, backend>>
    /\ Observe

\* Faulty order: the answer is given and the name stays registered.
deleteBucketKeepsName(r) ==
    /\ pc[r] = "deleted"
    /\ finish(r, "ok")
    /\ UNCHANGED <<buckets, backend, late, doubtful>>
    /\ Observe

\* The rest of deleteBucket.
deleteBucket(r) ==
    /\ pc[r] = "deleted"
    /\ Register(Bucket(r), Free)
    /\ finish(r, "ok")
    /\ UNCHANGED <<backend, late, doubtful>>
    /\ Observe

\* The backend gets round to a call nobody waits for, or never does.
Late(c) ==
    /\ c \in late
    /\ late' = late \ {c}
    /\ backend' = IF c.method = "PUT" THEN backend \cup {c.bucket} ELSE backend \ {c.bucket}
    /\ UNCHANGED <<buckets, doubtful, pc, op>>
    /\ Observe

-----------------------------------------------------------------------------
(* ListBuckets *)

\* memStore.ListBuckets, sorted.
Entries ==
    CHOOSE s \in [1 .. Cardinality(Mine(buckets)) -> Mine(buckets)] :
        \A i, j \in DOMAIN s : i < j => s[i] < s[j]

StartWalk ==
    /\ walk.state = "none"
    /\ walk' = [NoWalk EXCEPT !.state = "walking", !.kept = Mine(buckets), !.ever = Mine(buckets)]
    /\ UNCHANGED <<buckets, backend, late, doubtful, pc, op, held>>

\* Faulty search: it stops at the token's own bucket.
SearchInclusive(entries, token) ==
    CHOOSE i \in 1 .. Len(entries) + 1 :
        /\ \A j \in 1 .. i - 1 : entries[j] < token
        /\ i <= Len(entries) => entries[i] >= token

\* sort.Search: the first name greater than the token.
Search(entries, token) ==
    CHOOSE i \in 1 .. Len(entries) + 1 :
        /\ \A j \in 1 .. i - 1 : entries[j] <= token
        /\ i <= Len(entries) => entries[i] > token

After(entries, token) == SubSeq(entries, Search(entries, token), Len(entries))

\* One page, and the token of the next one if there is more.
listBuckets(maxBuckets) ==
    /\ walk.state = "walking"
    /\ LET entries == After(Entries, walk.token)
           more == Len(entries) > maxBuckets
           page == IF more THEN SubSeq(entries, 1, maxBuckets) ELSE entries
       IN  walk' = [walk EXCEPT !.listed = @ \o page,
                                !.token = IF more THEN page[maxBuckets] ELSE 0,
                                !.state = IF more THEN "walking" ELSE "end"]
    /\ UNCHANGED <<buckets, backend, late, doubtful, pc, op, held>>

-----------------------------------------------------------------------------
Next ==
    \/ \E r \in Requests :
          \/ ServeHTTP(r)
          \/ claim(r) \/ CreateBucket(r) \/ CreateBucketFails(r) \/ createBucket(r)
          \/ owner(r) \/ DeleteBucket(r) \/ DeleteBucketFails(r) \/ deleteBucket(r)
    \/ \E c \in late : Late(c)
    \/ StartWalk
    \/ \E m \in PageSizes : listBuckets(m)

Spec == Init /\ [][Next]_vars

-----------------------------------------------------------------------------
\* The requests of tenants that owned a name while they were served are the
\* only ones to take its registration away (deleteBucket, the rollback of
\* createBucket), however stale the owner they looked up has become.
OnlyOwnersRemove ==
    [][\A n \in Names : buckets[n] # Free /\ buckets'[n] = Free =>
          \E r \in Requests : pc'[r] # pc[r] /\ Bucket(r) = n /\ held[r]]_vars

\* A create that was answered with an error leaves no claim of its own
\* behind (createBucket's rollback).
FailedClaimGone ==
    \A n \in Names : \A r \in Requests :
        buckets[n].by = r => pc[r] # "refused"

\* A registered name has its bucket on the backend, unless a request that
\* will settle the matter is under way or the answer to a DeleteBucket was
\* lost, after which the name is kept (deleteBucket, createBucket).
RegisteredExists ==
    \A n \in Names : buckets[n] # Free =>
        \/ n \in backend \cup doubtful
        \/ \E r \in Requests : Bucket(r) = n /\ pc[r] \in {"claimed", "failed", "deleted"}

\* A walk over the pages lists every bucket the tenant has throughout, each
\* once and in order, and none it did not have meanwhile, whatever is created
\* or removed between two pages, the token's own bucket included (listBuckets).
ListedOnce ==
    walk.state = "end" =>
        /\ walk.kept \subseteq Range(walk.listed)
        /\ Range(walk.listed) \subseteq walk.ever
        /\ \A i, j \in DOMAIN walk.listed : i < j => walk.listed[i] < walk.listed[j]
=============================================================================
