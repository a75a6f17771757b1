---------------------------- MODULE BucketsProofs ----------------------------
(***************************************************************************)
(* What the bucket interceptor does with its registrations, for any        *)
(* requests, tenants, names and page sizes.  The invariant: a request that *)
(* is past its claim or its owner check did own its name; a registration   *)
(* points to the request that claimed it; a DELETE that may still come is  *)
(* one that was noted as given up.  A second one, WInv, is about the walk  *)
(* through the pages: what was there throughout is listed up to the token, *)
(* and nothing beyond it.                                                  *)
(***************************************************************************)
EXTENDS Buckets, FiniteSetTheorems, WellFoundedInduction, TLAPS

Labels == {"new", "create", "claimed", "made", "failed",
           "delete", "owned", "deleted", "ok", "refused"}
Claimed == {"claimed", "made", "failed"}
Busy == {"create", "delete", "owned", "deleted"} \cup Claimed

Typed ==
    /\ buckets \in [Names -> Rec]
    /\ late \subseteq [method : {"PUT", "DELETE"}, bucket : Names]
    /\ pc \in [Requests -> Labels]
    /\ op \in [Requests -> Op \cup {NoOp}]
    /\ \A r \in Requests : pc[r] \in Busy => op[r] \in Op

Owned == \A r \in Requests : pc[r] \in Claimed \cup {"owned", "deleted"} => held[r]

Claims ==
    \A n \in Names, r \in Requests : buckets[n].by = r =>
        /\ pc[r] \in Claimed \cup {"ok"}
        /\ pc[r] \in Claimed => Bucket(r) = n

GivenUp == \A c \in late : c.method = "DELETE" => c.bucket \in doubtful

IInv == Typed /\ Owned /\ Claims /\ GivenUp /\ RegisteredExists

\* What a walk over the pages does not touch.
registered == <<buckets, backend, late, doubtful, pc, op, held>>

LEMMA OpFacts ==
    /\ NoOp \notin Op
    /\ \A o \in Op : o.bucket \in Names /\ o.tenant \in Tenants /\ o.method \in Methods
  BY Zenon, BucketsAssumption DEF Op, NoOp, Methods

LEMMA RecFacts ==
    /\ Free \in Rec /\ Free.by = "none" /\ Free.tenant = Nobody
    /\ \A rec \in Rec : rec # Free <=> rec.tenant \in Tenants
    /\ \A t \in Tenants, r \in Requests : [tenant |-> t, by |-> r] \in Rec
  BY BucketsAssumption DEF Free, Rec

LEMMA InitIInv == Init => IInv
<1> SUFFICES ASSUME Init PROVE IInv
  OBVIOUS
<1>1. /\ buckets \in [Names -> Rec]
      /\ \A n \in Names : buckets[n].by \in {"none", "earlier"}
  BY DEF Init, Rec, Free
<1>2. \A r \in Requests : pc[r] = "new"
  BY Zenon DEF Init
<1>3. Typed
  BY Zenon, <1>1, <1>2 DEF Init, Typed, Labels, Busy, Claimed
<1>4. Owned
  BY Zenon, <1>2 DEF Owned, Claimed
<1>5. Claims
  BY Zenon, <1>1, BucketsAssumption DEF Claims
<1>6. GivenUp /\ RegisteredExists
  BY Zenon DEF Init, GivenUp, RegisteredExists
<1> QED
  BY Zenon, <1>3, <1>4, <1>5, <1>6 DEF IInv

\* A step of request r alone: where it goes, and what it owned stays noted.
LEMMA HeldKept ==
    ASSUME IInv, Observe, NEW q \in Requests, op'[q] = op[q], pc[q] \in Busy, held[q]
    PROVE  held'[q]
<1>1. op[q] # NoOp
  BY Zenon, OpFacts DEF IInv, Typed
<1> QED
  BY Zenon, <1>1 DEF Observe, NoteHeld

LEMMA HeldNow ==
    ASSUME Observe, NEW q \in Requests, op'[q] \in Op,
           buckets'[op'[q].bucket].tenant = op'[q].tenant
    PROVE  held'[q]
  BY Zenon, OpFacts DEF Observe, NoteHeld

\* The steps of one request r: it moves to l, and other requests do not move.
Moves(r, l) ==
    /\ pc' = [pc EXCEPT ![r] = l]
    /\ \A q \in Requests \ {r} : op'[q] = op[q]

LEMMA OwnedKept ==
    ASSUME IInv, Observe, NEW r \in Requests, NEW l \in Labels, Moves(r, l),
           l \in Claimed \cup {"owned", "deleted"} => held'[r]
    PROVE  Owned'
<1> SUFFICES ASSUME NEW q \in Requests, pc'[q] \in Claimed \cup {"owned", "deleted"}
             PROVE  held'[q]
  BY Zenon DEF Owned
<1>1. CASE q = r
  BY Zenon, <1>1 DEF Moves, IInv, Typed
<1>2. CASE q # r
  <2>1. pc[q] \in Claimed \cup {"owned", "deleted"} /\ op'[q] = op[q]
    BY Zenon, <1>2 DEF Moves, IInv, Typed
  <2>2. held[q] /\ pc[q] \in Busy
    BY Zenon, <2>1 DEF IInv, Owned, Busy
  <2> QED
    BY Zenon, <2>1, <2>2, HeldKept
<1> QED
  BY Zenon, <1>1, <1>2

LEMMA TypedKept ==
    ASSUME IInv, NEW r \in Requests, NEW l \in Labels, Moves(r, l),
           buckets' \in [Names -> Rec],
           late' \subseteq [method : {"PUT", "DELETE"}, bucket : Names],
           op' \in [Requests -> Op \cup {NoOp}],
           l \in Busy => op'[r] \in Op
    PROVE  Typed'
<1>1. pc' \in [Requests -> Labels]
  BY Zenon DEF Moves, IInv, Typed
<1>2. \A q \in Requests : pc'[q] \in Busy => op'[q] \in Op
  BY Zenon DEF Moves, IInv, Typed
<1> QED
  BY Zenon, <1>1, <1>2 DEF Typed

\* Registrations stay, and r does not leave a claim of its own behind.
LEMMA ClaimsKept ==
    ASSUME IInv, NEW r \in Requests, NEW l \in Labels, Moves(r, l),
           \A n \in Names : buckets'[n] = buckets[n] \/ buckets'[n] = Free,
           \A n \in Names : buckets'[n].by = r =>
               l \in Claimed \cup {"ok"} /\ (l \in Claimed => op'[r].bucket = n)
    PROVE  Claims'
<1> SUFFICES ASSUME NEW n \in Names, NEW q \in Requests, buckets'[n].by = q
             PROVE  /\ pc'[q] \in Claimed \cup {"ok"}
                    /\ pc'[q] \in Claimed => op'[q].bucket = n
  BY Zenon DEF Claims, Bucket
<1>1. CASE q = r
  BY Zenon, <1>1 DEF Moves, IInv, Typed
<1>2. CASE q # r
  <2>1. buckets[n].by = q
    BY Zenon, BucketsAssumption, RecFacts
  <2>2. pc'[q] = pc[q] /\ op'[q] = op[q]
    BY Zenon, <1>2 DEF Moves, IInv, Typed
  <2> QED
    BY <2>1, <2>2 DEF IInv, Claims, Bucket
<1> QED
  BY Zenon, <1>1, <1>2

\* What r takes away or no longer vouches for is settled by the step itself.
LEMMA ExistsKept ==
    ASSUME IInv, NEW r \in Requests, NEW l \in Labels, Moves(r, l),
           doubtful \subseteq doubtful',
           \A n \in Names : \/ buckets'[n] \in {buckets[n], Free}
                            \/ l = "claimed" /\ op'[r].bucket = n,
           \A n \in backend \ backend' : l = "deleted" /\ op'[r].bucket = n,
           pc[r] \in {"claimed", "failed", "deleted"} =>
               \/ Bucket(r) \in backend'
               \/ l \in {"claimed", "failed", "deleted"} /\ op'[r] = op[r]
               \/ buckets'[Bucket(r)] = Free
    PROVE  RegisteredExists'
<1> SUFFICES ASSUME NEW n \in Names, buckets'[n] # Free, n \notin backend' \cup doubtful'
             PROVE  \E q \in Requests :
                        op'[q].bucket = n /\ pc'[q] \in {"claimed", "failed", "deleted"}
  BY Zenon DEF RegisteredExists, Bucket
<1>1. pc'[r] = l
  BY Zenon DEF Moves, IInv, Typed
<1>2. CASE l \in {"claimed", "deleted"} /\ op'[r].bucket = n
  BY Zenon, <1>1, <1>2
<1>3. CASE ~(l \in {"claimed", "deleted"} /\ op'[r].bucket = n)
  <2>1. buckets[n] # Free /\ n \notin backend \cup doubtful
    BY Zenon, <1>3
  <2>2. PICK q \in Requests : Bucket(q) = n /\ pc[q] \in {"claimed", "failed", "deleted"}
    BY Zenon, <2>1 DEF IInv, RegisteredExists
  <2>3. CASE q = r
    BY Zenon, <1>1, <2>2, <2>3 DEF Bucket
  <2>4. CASE q # r
    <3>1. pc'[q] = pc[q] /\ op'[q] = op[q]
      BY Zenon, <2>4 DEF Moves, IInv, Typed
    <3> QED
      BY Zenon, <2>2, <3>1 DEF Bucket
  <2> QED
    BY Zenon, <2>3, <2>4
<1> QED
  BY Zenon, <1>2, <1>3

\* A request that goes on keeps what it asks, one that is answered asks no more.
LEMMA GotoMoves ==
    ASSUME IInv, NEW r \in Requests, NEW l \in Labels, Goto(r, l)
    PROVE  Moves(r, l) /\ op' = op /\ op' \in [Requests -> Op \cup {NoOp}]
  BY Zenon DEF Goto, Moves, IInv, Typed

LEMMA finishMoves ==
    ASSUME IInv, NEW r \in Requests, NEW l \in {"ok", "refused"}, finish(r, l)
    PROVE  Moves(r, l) /\ op' \in [Requests -> Op \cup {NoOp}] /\ l \in Labels
  BY Zenon DEF finish, Moves, IInv, Typed, Labels

\* An answer that leaves every registration alone.
LEMMA AnswerStep ==
    ASSUME IInv, NEW r \in Requests, NEW l \in {"ok", "refused"}, finish(r, l), Observe,
           buckets' = buckets, backend' = backend,
           doubtful \subseteq doubtful', GivenUp',
           late' \subseteq [method : {"PUT", "DELETE"}, bucket : Names],
           pc[r] \notin {"claimed", "failed", "deleted"},
           \A n \in Names : buckets[n].by = r => l = "ok"
    PROVE  IInv'
<1>1. Moves(r, l) /\ op' \in [Requests -> Op \cup {NoOp}] /\ l \in Labels
  BY finishMoves
<1>2. l \notin Busy /\ l \notin Claimed \cup {"owned", "deleted"}
  BY Zenon DEF Busy, Claimed
<1>3. Typed'
  BY Zenon, <1>1, <1>2, TypedKept DEF IInv, Typed
<1>4. Owned'
  BY Zenon, <1>1, <1>2, OwnedKept
<1>5. Claims'
  BY Zenon, <1>1, <1>2, ClaimsKept
<1>6. RegisteredExists'
  BY Zenon, <1>1, ExistsKept
<1> QED
  BY Zenon, <1>3, <1>4, <1>5, <1>6 DEF IInv

\* A step forward that registers and removes nothing: to l, from a place where
\* r has no part in any registration or keeps its part.
LEMMA ForwardStep ==
    ASSUME IInv, NEW r \in Requests, NEW l \in Labels, Goto(r, l), Observe, pc[r] \in Busy,
           buckets' = buckets, doubtful' = doubtful, GivenUp',
           late' \subseteq [method : {"PUT", "DELETE"}, bucket : Names],
           l \in Claimed \cup {"owned", "deleted"} => held'[r],
           pc[r] \in Claimed => l \in Claimed,
           \A n \in backend \ backend' : l = "deleted" /\ Bucket(r) = n,
           pc[r] \in {"claimed", "failed", "deleted"} =>
               Bucket(r) \in backend' \/ l \in {"claimed", "failed", "deleted"}
    PROVE  IInv'
<1>1. Moves(r, l) /\ op' = op /\ op' \in [Requests -> Op \cup {NoOp}]
  BY Zenon, GotoMoves
<1>2. op[r] \in Op
  BY Zenon DEF IInv, Typed
<1>3. Typed'
  BY SMTT(30), <1>1, <1>2, TypedKept DEF IInv, Typed
<1>4. Owned'
  BY Zenon, <1>1, OwnedKept
<1>5. Claims'
  <2>1. \A n \in Names : buckets[n].by = r => pc[r] \in Claimed /\ Bucket(r) = n
    BY Zenon DEF IInv, Claims, Busy, Claimed
  <2> QED
    BY Zenon, <1>1, <2>1, ClaimsKept DEF Bucket
<1>6. RegisteredExists'
  BY Zenon, <1>1, ExistsKept DEF Bucket
<1> QED
  BY Zenon, <1>3, <1>4, <1>5, <1>6 DEF IInv

LEMMA ServeHTTPStep ==
    ASSUME IInv, NEW r \in Requests, ServeHTTP(r)
    PROVE  IInv'
<1>1. GivenUp' /\ buckets' = buckets /\ backend' = backend /\ doubtful' = doubtful /\ late' = late
  BY Zenon DEF ServeHTTP, IInv, GivenUp
<1>2. \A n \in Names : buckets[n].by # r
  BY Zenon DEF ServeHTTP, IInv, Claims, Claimed
<1>3. late' \subseteq [method : {"PUT", "DELETE"}, bucket : Names]
  BY Zenon, <1>1 DEF IInv, Typed
<1>4. CASE finish(r, "refused")
  BY SMTT(30), <1>1, <1>2, <1>3, <1>4, AnswerStep DEF ServeHTTP
<1>5. CASE ~finish(r, "refused")
  <2>0. PICK o \in Op : /\ op' = [op EXCEPT ![r] = o]
                        /\ pc' = [pc EXCEPT ![r] = IF o.method = "PUT" THEN "create" ELSE "delete"]
    BY Zenon, <1>5 DEF ServeHTTP
  <2> DEFINE l == IF o.method = "PUT" THEN "create" ELSE "delete"
  <2>1. op' = [op EXCEPT ![r] = o] /\ pc' = [pc EXCEPT ![r] = l]
    BY Zenon, <2>0
  <2>2. l \in Labels /\ l \notin Claimed \cup {"ok", "owned", "deleted", "claimed", "failed"}
    BY Zenon DEF Labels, Claimed
  <2>3. Moves(r, l) /\ op' \in [Requests -> Op \cup {NoOp}] /\ op'[r] \in Op
    BY Zenon, <2>1 DEF Moves, IInv, Typed
  <2> HIDE DEF l
  <2>4. Typed'
    BY SMTT(30), <1>1, <1>3, <2>2, <2>3, TypedKept DEF IInv, Typed
  <2>5. Owned'
    BY Zenon, <2>2, <2>3, OwnedKept DEF ServeHTTP
  <2>6. Claims'
    BY SMTT(30), <1>1, <1>2, <2>2, <2>3, ClaimsKept
  <2>7. RegisteredExists'
    BY SMTT(30), <1>1, <2>2, <2>3, ExistsKept DEF ServeHTTP
  <2> QED
    BY Zenon, <1>1, <2>4, <2>5, <2>6, <2>7 DEF IInv
<1> QED
  BY Zenon, <1>4, <1>5

LEMMA claimStep ==
    ASSUME IInv, NEW r \in Requests, claim(r)
    PROVE  IInv'
<1>1. GivenUp' /\ backend' = backend /\ doubtful' = doubtful /\ late' = late /\ Observe
  BY Zenon DEF claim, IInv, GivenUp
<1>2. late' \subseteq [method : {"PUT", "DELETE"}, bucket : Names]
  BY Zenon, <1>1 DEF IInv, Typed
<1>3. /\ pc[r] = "create" /\ op[r] \in Op /\ Bucket(r) \in Names
      /\ \A n \in Names : buckets[n].by # r
  <2>1. pc[r] = "create" /\ op[r] \in Op
    BY Zenon DEF claim, IInv, Typed, Busy
  <2>2. \A n \in Names : buckets[n].by # r
    BY Zenon, <2>1 DEF IInv, Claims, Claimed
  <2> QED
    BY Zenon, <2>1, <2>2, OpFacts DEF Bucket
<1>4. CASE finish(r, "refused") /\ buckets' = buckets
  BY SMTT(30), <1>1, <1>2, <1>3, <1>4, AnswerStep
<1>5. CASE /\ Register(Bucket(r), [tenant |-> op[r].tenant, by |-> r])
           /\ Goto(r, "claimed")
           /\ buckets[Bucket(r)] = Free
  <2>1. Moves(r, "claimed") /\ op' = op /\ op' \in [Requests -> Op \cup {NoOp}]
    BY SMTT(30), <1>5, GotoMoves DEF Labels
  <2>2. /\ buckets' \in [Names -> Rec]
        /\ buckets'[Bucket(r)] = [tenant |-> op[r].tenant, by |-> r]
        /\ \A n \in Names \ {Bucket(r)} : buckets'[n] = buckets[n]
    BY SMTT(30), <1>3, <1>5, OpFacts, RecFacts DEF Register, IInv, Typed
  <2>3. Typed'
    BY SMTT(30), <1>2, <1>3, <2>1, <2>2, TypedKept DEF Labels
  <2>4. held'[r]
    BY SMTT(30), <1>1, <1>3, <2>1, <2>2, HeldNow DEF Bucket
  <2>5. Owned'
    BY SMTT(30), <1>1, <2>1, <2>4, OwnedKept DEF Labels
  <2>6. RegisteredExists'
    BY SMTT(30), <1>1, <1>3, <2>1, <2>2, ExistsKept DEF Labels, Bucket
  <2>7. Claims'
    <3> SUFFICES ASSUME NEW n \in Names, NEW q \in Requests, buckets'[n].by = q
                 PROVE  /\ pc'[q] \in Claimed \cup {"ok"}
                        /\ pc'[q] \in Claimed => op'[q].bucket = n
      BY Zenon DEF Claims, Bucket
    <3>1. CASE n = Bucket(r)
      <4>1. q = r /\ pc'[r] = "claimed"
        BY SMTT(30), <2>1, <2>2, <3>1 DEF Moves, IInv, Typed
      <4> QED
        BY SMTT(30), <2>1, <3>1, <4>1 DEF Claimed, Bucket
    <3>2. CASE n # Bucket(r)
      <4>1. buckets[n].by = q /\ q # r
        BY SMTT(30), <1>3, <2>2, <3>2
      <4>2. pc'[q] = pc[q]
        BY Zenon, <2>1, <4>1 DEF Moves, IInv, Typed
      <4> QED
        BY SMTT(30), <2>1, <4>1, <4>2 DEF IInv, Claims, Bucket
    <3> QED
      BY Zenon, <3>1, <3>2
  <2> QED
    BY SMTT(30), <1>1, <2>3, <2>5, <2>6, <2>7 DEF IInv
<1> QED
  BY Zenon, <1>4, <1>5 DEF claim

\* What r asks while it is served.
LEMMA BusyFacts ==
    ASSUME IInv, NEW r \in Requests, pc[r] \in Busy
    PROVE  op[r] \in Op /\ Bucket(r) \in Names
  BY Zenon, OpFacts DEF IInv, Typed, Bucket

\* To give a name back: no registration but Free is added, and r is answered.
LEMMA FreeStep ==
    ASSUME IInv, NEW r \in Requests, NEW l \in {"ok", "refused"}, finish(r, l), Observe,
           pc[r] \in {"failed", "deleted"}, Register(Bucket(r), Free),
           backend' = backend, late' = late, doubtful' = doubtful
    PROVE  IInv'
<1>1. Moves(r, l) /\ op' \in [Requests -> Op \cup {NoOp}] /\ l \in Labels
  BY finishMoves
<1>2. pc[r] \in Busy /\ l \notin Busy /\ l \notin Claimed \cup {"owned", "deleted"}
  BY Zenon DEF Busy, Claimed
<1>3. Bucket(r) \in Names
  BY Zenon, <1>2, BusyFacts
<1>4. /\ buckets' \in [Names -> Rec]
      /\ buckets'[Bucket(r)] = Free
      /\ \A n \in Names \ {Bucket(r)} : buckets'[n] = buckets[n]
  BY Zenon, <1>3, RecFacts DEF Register, IInv, Typed
<1>5. Typed'
  BY SMTT(30), <1>1, <1>2, <1>4, TypedKept DEF IInv, Typed
<1>6. Owned'
  BY SMTT(30), <1>1, <1>2, OwnedKept
<1>7. Claims'
  <2>1. \A n \in Names : buckets'[n].by # r
    BY SMTT(30), <1>4, RecFacts, BucketsAssumption DEF IInv, Claims, Claimed
  <2> QED
    BY SMTT(30), <1>1, <1>4, <2>1, ClaimsKept
<1>8. RegisteredExists'
  BY Zenon, <1>1, <1>4, ExistsKept
<1>9. GivenUp'
  BY Zenon DEF IInv, GivenUp
<1> QED
  BY SMTT(30), <1>5, <1>6, <1>7, <1>8, <1>9 DEF IInv

LEMMA CreateBucketStep ==
    ASSUME IInv, NEW r \in Requests, CreateBucket(r)
    PROVE  IInv'
<1>1. pc[r] \in Busy /\ pc[r] \in Claimed /\ held[r]
  BY Zenon DEF CreateBucket, IInv, Owned, Busy, Claimed
<1>2. held'[r]
  BY Zenon, <1>1, HeldKept DEF CreateBucket, Goto
<1>3. GivenUp' /\ late' \subseteq [method : {"PUT", "DELETE"}, bucket : Names]
  BY Zenon DEF CreateBucket, IInv, GivenUp, Typed
<1>4. "made" \in Labels /\ "made" \in Claimed
  BY Zenon DEF Labels, Claimed
<1> QED
  BY SMTT(30), <1>1, <1>2, <1>3, <1>4, ForwardStep DEF CreateBucket

LEMMA CreateBucketFailsStep ==
    ASSUME IInv, NEW r \in Requests, CreateBucketFails(r)
    PROVE  IInv'
<1>1. pc[r] \in Busy /\ pc[r] \in Claimed /\ held[r]
  BY Zenon DEF CreateBucketFails, IInv, Owned, Busy, Claimed
<1>2. held'[r]
  BY Zenon, <1>1, HeldKept DEF CreateBucketFails, Goto
<1>3. Bucket(r) \in Names
  BY Zenon, <1>1, BusyFacts
<1>4. GivenUp' /\ late' \subseteq [method : {"PUT", "DELETE"}, bucket : Names]
  BY <1>3 DEF CreateBucketFails, Give, IInv, GivenUp, Typed
<1>5. "failed" \in Labels /\ "failed" \in Claimed
  BY Zenon DEF Labels, Claimed
<1> QED
  BY SMTT(30), <1>1, <1>2, <1>4, <1>5, ForwardStep DEF CreateBucketFails

LEMMA createBucketStep ==
    ASSUME IInv, NEW r \in Requests, createBucket(r)
    PROVE  IInv'
<1>1. CASE pc[r] = "failed"
  BY Zenon, <1>1, FreeStep DEF createBucket
<1>2. CASE pc[r] = "made"
  <2>1. GivenUp' /\ late' \subseteq [method : {"PUT", "DELETE"}, bucket : Names]
    BY Zenon DEF createBucket, IInv, GivenUp, Typed
  <2> QED
    BY Zenon, <1>2, <2>1, AnswerStep DEF createBucket
<1> QED
  BY Zenon, <1>1, <1>2 DEF createBucket

LEMMA ownerStep ==
    ASSUME IInv, NEW r \in Requests, owner(r)
    PROVE  IInv'
<1>1. pc[r] = "delete" /\ pc[r] \in Busy /\ pc[r] \notin Claimed
  BY Zenon DEF owner, Busy, Claimed
<1>2. op[r] \in Op /\ \A n \in Names : buckets[n].by # r
  BY Zenon, <1>1, BusyFacts DEF IInv, Claims, Claimed
<1>3. GivenUp' /\ late' \subseteq [method : {"PUT", "DELETE"}, bucket : Names]
  BY Zenon DEF owner, IInv, GivenUp, Typed
<1>4. CASE finish(r, "refused")
  BY SMTT(30), <1>1, <1>2, <1>3, <1>4, AnswerStep DEF owner
<1>5. CASE Goto(r, "owned") /\ buckets[Bucket(r)].tenant = op[r].tenant
  <2>1. held'[r]
    BY SMTT(30), <1>2, <1>5, HeldNow DEF owner, Goto, Bucket
  <2> QED
    BY SMTT(30), <1>1, <1>3, <1>5, <2>1, ForwardStep DEF owner, Labels
<1> QED
  BY Zenon, <1>4, <1>5 DEF owner

LEMMA DeleteBucketStep ==
    ASSUME IInv, NEW r \in Requests, DeleteBucket(r)
    PROVE  IInv'
<1>1. pc[r] = "owned" /\ pc[r] \in Busy /\ pc[r] \notin Claimed /\ held[r]
  BY Zenon DEF DeleteBucket, IInv, Owned, Busy, Claimed
<1>2. held'[r]
  BY Zenon, <1>1, HeldKept DEF DeleteBucket, Goto
<1>3. GivenUp' /\ late' \subseteq [method : {"PUT", "DELETE"}, bucket : Names]
  BY Zenon DEF DeleteBucket, IInv, GivenUp, Typed
<1> QED
  BY Zenon, <1>1, <1>2, <1>3, ForwardStep DEF DeleteBucket, Labels

LEMMA DeleteBucketFailsStep ==
    ASSUME IInv, NEW r \in Requests, DeleteBucketFails(r)
    PROVE  IInv'
<1>1. pc[r] = "owned" /\ pc[r] \in Busy
  BY Zenon DEF DeleteBucketFails, Busy
<1>2. Bucket(r) \in Names /\ \A n \in Names : buckets[n].by # r
  BY Zenon, <1>1, BusyFacts DEF IInv, Claims, Claimed
<1>3. /\ doubtful \subseteq doubtful' /\ GivenUp'
      /\ late' \subseteq [method : {"PUT", "DELETE"}, bucket : Names]
  BY <1>2 DEF DeleteBucketFails, Give, IInv, GivenUp, Typed
<1> QED
  BY Zenon, <1>1, <1>2, <1>3, AnswerStep DEF DeleteBucketFails

LEMMA deleteBucketStep ==
    ASSUME IInv, NEW r \in Requests, deleteBucket(r)
    PROVE  IInv'
  BY Zenon, FreeStep DEF deleteBucket

LEMMA LateStep ==
    ASSUME IInv, NEW c \in late, Late(c)
    PROVE  IInv'
<1>1. /\ buckets' = buckets /\ doubtful' = doubtful /\ pc' = pc /\ op' = op
      /\ late' \subseteq late /\ Observe
  BY Zenon DEF Late
<1>2. Typed'
  BY Zenon, <1>1 DEF IInv, Typed
<1>3. Owned'
  <2> SUFFICES ASSUME NEW q \in Requests, pc[q] \in Claimed \cup {"owned", "deleted"}
               PROVE  held'[q]
    BY Zenon, <1>1 DEF Owned
  <2>1. held[q] /\ pc[q] \in Busy
    BY Zenon DEF IInv, Owned, Busy
  <2> QED
    BY Zenon, <1>1, <2>1, HeldKept
<1>4. Claims' /\ GivenUp'
  BY Zenon, <1>1 DEF IInv, Claims, GivenUp, Bucket
<1>5. \A n \in backend : n \in backend' \cup doubtful
  BY Zenon DEF Late, IInv, GivenUp, Typed
<1>6. RegisteredExists'
  BY Zenon, <1>1, <1>5 DEF IInv, RegisteredExists, Bucket
<1> QED
  BY SMTT(30), <1>2, <1>3, <1>4, <1>6 DEF IInv

LEMMA WalkStep ==
    ASSUME IInv, UNCHANGED registered
    PROVE  IInv'
  BY DEF registered, IInv, Typed, Owned, Claims, GivenUp, RegisteredExists, Bucket

LEMMA NextIInv == IInv /\ [Next]_vars => IInv'
<1> SUFFICES ASSUME IInv, [Next]_vars PROVE IInv'
  OBVIOUS
<1>1. ASSUME NEW r \in Requests, ServeHTTP(r) PROVE IInv'
  BY Zenon, <1>1, ServeHTTPStep
<1>2. ASSUME NEW r \in Requests, claim(r) PROVE IInv'
  BY Zenon, <1>2, claimStep
<1>3. ASSUME NEW r \in Requests, CreateBucket(r) PROVE IInv'
  BY Zenon, <1>3, CreateBucketStep
<1>4. ASSUME NEW r \in Requests, CreateBucketFails(r) PROVE IInv'
  BY Zenon, <1>4, CreateBucketFailsStep
<1>5. ASSUME NEW r \in Requests, createBucket(r) PROVE IInv'
  BY Zenon, <1>5, createBucketStep
<1>6. ASSUME NEW r \in Requests, owner(r) PROVE IInv'
  BY Zenon, <1>6, ownerStep
<1>7. ASSUME NEW r \in Requests, DeleteBucket(r) PROVE IInv'
  BY Zenon, <1>7, DeleteBucketStep
<1>8. ASSUME NEW r \in Requests, DeleteBucketFails(r) PROVE IInv'
  BY Zenon, <1>8, DeleteBucketFailsStep
<1>9. ASSUME NEW r \in Requests, deleteBucket(r) PROVE IInv'
  BY Zenon, <1>9, deleteBucketStep
<1>10. ASSUME NEW c \in late, Late(c) PROVE IInv'
  BY Zenon, <1>10, LateStep
<1>11. CASE StartWalk
  <2>1. UNCHANGED registered
    BY Zenon, <1>11 DEF StartWalk, registered
  <2> QED
    BY Zenon, <2>1, WalkStep
<1>12. ASSUME NEW m \in PageSizes, listBuckets(m) PROVE IInv'
  <2>1. UNCHANGED registered
    BY Zenon, <1>12 DEF listBuckets, registered
  <2> QED
    BY Zenon, <2>1, WalkStep
<1>13. CASE UNCHANGED vars
  <2>1. UNCHANGED registered
    BY Zenon, <1>13 DEF vars, registered
  <2> QED
    BY Zenon, <2>1, WalkStep
<1> QED
  BY SMTT(30), <1>1, <1>2, <1>3, <1>4, <1>5, <1>6, <1>7, <1>8, <1>9, <1>10, <1>11, <1>12, <1>13 DEF Next

\* IInv is an invariant: whatever requests do to names and buckets, and whichever
\* answers of the backend are lost.
THEOREM Invariance == Spec => []IInv
<1>1. Init => IInv
  BY Zenon, InitIInv
<1>2. IInv /\ [Next]_vars => IInv'
  BY Zenon, NextIInv
<1> QED
  BY <1>1, <1>2, PTL DEF Spec

\* A creation answered with an error has left no claim behind, for any number of
\* requests and whatever the backend did (createBucket's rollback).
THEOREM NoFailedClaims == Spec => []FailedClaimGone
<1>1. IInv => FailedClaimGone
  BY Zenon DEF IInv, Claims, FailedClaimGone, Claimed
<1> QED
  BY <1>1, Invariance, PTL

\* A registered name has its bucket on the backend, or a request that will settle
\* the matter is under way, or a DeleteBucket of it was given up.
THEOREM RegisteredOnBackend == Spec => []RegisteredExists
<1>1. IInv => RegisteredExists
  BY Zenon DEF IInv
<1> QED
  BY <1>1, Invariance, PTL

\* The step removes a registration only on behalf of a request whose tenant owned
\* the name while it was served.
RemovedByOwner ==
    \A n \in Names : buckets[n] # Free /\ buckets'[n] = Free =>
        \E r \in Requests : pc'[r] # pc[r] /\ Bucket(r) = n /\ held[r]

LEMMA NextRemovedByOwner == IInv /\ [Next]_vars => RemovedByOwner
<1> SUFFICES ASSUME IInv, [Next]_vars,
                    NEW n \in Names, buckets[n] # Free, buckets'[n] = Free
             PROVE  \E r \in Requests : pc'[r] # pc[r] /\ Bucket(r) = n /\ held[r]
  BY Zenon DEF RemovedByOwner
<1>1. ASSUME NEW r \in Requests, claim(r) PROVE FALSE
  <2>1. pc[r] \in Busy /\ buckets \in [Names -> Rec]
    BY Zenon, <1>1 DEF claim, Busy, IInv, Typed
  <2>2. op[r] \in Op /\ Bucket(r) \in Names
    BY SMTT(30), <2>1, BusyFacts
  <2>3. [tenant |-> op[r].tenant, by |-> r] # Free
    BY SMTT(30), <2>2, OpFacts, RecFacts, BucketsAssumption DEF Free
  <2> QED
    BY SMTT(30), <1>1, <2>1, <2>2, <2>3 DEF claim, Register
<1>2. ASSUME NEW r \in Requests, NEW l \in Labels, pc[r] \in {"failed", "deleted"},
             l \in {"ok", "refused"}, finish(r, l), Register(Bucket(r), Free)
      PROVE  pc'[r] # pc[r] /\ Bucket(r) = n /\ held[r]
  <2>1. pc'[r] # pc[r]
    BY Zenon, <1>2 DEF finish, IInv, Typed
  <2>2. held[r]
    BY Zenon, <1>2 DEF IInv, Owned, Claimed
  <2>3. Bucket(r) = n
    BY SMTT(30), <1>2 DEF Register, IInv, Typed
  <2> QED
    BY Zenon, <2>1, <2>2, <2>3
<1>3. ASSUME NEW r \in Requests, createBucket(r)
      PROVE  pc'[r] # pc[r] /\ Bucket(r) = n /\ held[r]
  BY SMTT(30), <1>2, <1>3 DEF createBucket, Labels
<1>4. ASSUME NEW r \in Requests, deleteBucket(r)
      PROVE  pc'[r] # pc[r] /\ Bucket(r) = n /\ held[r]
  BY Zenon, <1>2, <1>4 DEF deleteBucket, Labels
<1>5. CASE \E r \in Requests : createBucket(r) \/ deleteBucket(r)
  BY Zenon, <1>3, <1>4, <1>5
<1>6. CASE ~\E r \in Requests : createBucket(r) \/ deleteBucket(r) \/ claim(r)
  <2>1. buckets' = buckets
    BY <1>6, Zenon DEF Next, ServeHTTP, CreateBucket, CreateBucketFails, owner, DeleteBucket,
                DeleteBucketFails, Late, StartWalk, listBuckets, vars
  <2> QED
    BY Zenon, <2>1
<1> QED
  BY SMTT(30), <1>1, <1>5, <1>6

\* OnlyOwnersRemove, for any requests, tenants and names.
THEOREM RemovedByOwners == Spec => OnlyOwnersRemove
<1>1. IInv /\ [Next]_vars => [RemovedByOwner]_vars
  BY Zenon, NextRemovedByOwner
<1>2. Spec => [][RemovedByOwner]_vars
  BY <1>1, Invariance, PTL DEF Spec
<1> QED
  BY Zenon, <1>2 DEF OnlyOwnersRemove, RemovedByOwner

-----------------------------------------------------------------------------
(* The listing *)

Increasing(s) == \A i, j \in DOMAIN s : i < j => s[i] < s[j]

\* A set of numbers that is not empty has a least one.
LEMMA Least ==
    ASSUME NEW S \in SUBSET Nat, S # {}
    PROVE  \E m \in S : \A n \in S : m <= n
<1> DEFINE R == OpToRel(<, Nat)
<1>1. IsWellFoundedOn(R, Nat)
  BY Zenon, NatLessThanWellFounded
<1>2. \A m, n \in Nat : <<n, m>> \in R <=> n < m
  BY Zenon DEF OpToRel
<1> HIDE DEF R
<1>3. PICK m \in S : \A n \in S : ~(<<n, m>> \in R)
  BY <1>1, WFMin, Zenon
<1>4. \A n \in S : n \in Nat /\ m \in Nat /\ ~(n < m)
  BY <1>2, <1>3, Zenon
<1>5. \A n \in S : m <= n
  BY <1>4
<1> QED
  BY Zenon, <1>5

\* There is an increasing enumeration of S: sort.Slice has something to find.
Enumerable(S) == \E s \in [1 .. Cardinality(S) -> S] : Increasing(s)

LEMMA EnumerateOneMore ==
    ASSUME NEW S \in SUBSET Nat, IsFiniteSet(S), NEW m \in S, \A n \in S : m <= n,
           Enumerable(S \ {m})
    PROVE  Enumerable(S)
<1> DEFINE k == Cardinality(S)
<1>1. Cardinality(S \ {m}) = k - 1 /\ k \in Nat
  BY Zenon, FS_RemoveElement, FS_CardinalityType
<1>2. PICK s \in [1 .. k - 1 -> S \ {m}] : Increasing(s)
  BY Zenon, <1>1 DEF Enumerable
<1> HIDE DEF k
<1> DEFINE t == [j \in 1 .. k |-> IF j = 1 THEN m ELSE s[j - 1]]
<1>3. \A j \in 1 .. k : j # 1 => j - 1 \in 1 .. k - 1
  BY <1>1
<1>4. \A j \in 1 .. k - 1 : s[j] \in S /\ s[j] # m
  BY Zenon, <1>2
<1>5. \A n \in S : n \in Nat /\ m \in Nat /\ (n # m => m < n)
  OBVIOUS
<1>6. t \in [1 .. k -> S]
  BY Zenon, <1>3, <1>4
<1>7. ASSUME NEW i \in 1 .. k, NEW j \in 1 .. k, i < j PROVE t[i] < t[j]
  <2>1. j # 1 /\ t[j] = s[j - 1] /\ j - 1 \in 1 .. k - 1
    BY <1>1, <1>3, <1>7
  <2>2. CASE i = 1
    BY Zenon, <2>1, <2>2, <1>4, <1>5
  <2>3. CASE i # 1
    <3>1. t[i] = s[i - 1] /\ i - 1 \in 1 .. k - 1 /\ i - 1 < j - 1
      BY <2>3, <1>3, <1>7
    <3> QED
      BY Zenon, <2>1, <3>1, <1>2 DEF Increasing
  <2> QED
    BY Zenon, <2>2, <2>3
<1>8. Increasing(t)
  BY Zenon, <1>7 DEF Increasing
<1> QED
  BY Zenon, <1>6, <1>8 DEF Enumerable, k

LEMMA EnumerationExists ==
    ASSUME NEW S \in SUBSET Nat, IsFiniteSet(S)
    PROVE  Enumerable(S)
<1> DEFINE Bad == {T \in SUBSET S : ~Enumerable(T)}
           Sizes == {Cardinality(T) : T \in Bad}
<1>1. \A T \in SUBSET S : IsFiniteSet(T) /\ Cardinality(T) \in Nat /\ T \in SUBSET Nat
  BY Zenon, FS_Subset, FS_CardinalityType
<1> SUFFICES ASSUME Bad # {} PROVE FALSE
  OBVIOUS
<1>2. Sizes # {} /\ Sizes \in SUBSET Nat
  BY <1>1
<1>3. PICK c \in Sizes : \A n \in Sizes : c <= n
  <2> HIDE DEF Sizes
  <2> QED
    BY <1>2, Least, Zenon
<1>4. PICK T \in Bad : Cardinality(T) = c
  BY Zenon, <1>3
<1>5. T # {}
  <2>1. Enumerable({})
    <3>1. Cardinality({}) = 0 /\ 1 .. 0 = {}
      BY FS_EmptySet
    <3>2. [j \in {} |-> j] \in [1 .. Cardinality({}) -> {}] /\ Increasing([j \in {} |-> j])
      BY Zenon, <3>1 DEF Increasing
    <3> QED
      BY Zenon, <3>2 DEF Enumerable
  <2> QED
    BY Zenon, <2>1, <1>4
<1>6. PICK m \in T : \A n \in T : m <= n
  BY Zenon, <1>1, <1>4, <1>5, Least
<1>7. T \ {m} \in SUBSET S /\ Cardinality(T \ {m}) = c - 1 /\ c \in Nat
  BY Zenon, <1>1, <1>4, <1>6, FS_RemoveElement
<1>8. Enumerable(T \ {m})
  BY <1>3, <1>7
<1>9. Enumerable(T)
  BY Zenon, <1>1, <1>4, <1>6, <1>8, EnumerateOneMore
<1> QED
  BY Zenon, <1>4, <1>9

LEMMA NameFacts == \A n \in Names : n \in Nat /\ n > 0
<1>1. \A n \in Names : n \in Nat /\ n # 0
  BY BucketsAssumption, Zenon
<1> QED
  BY <1>1

\* sort.Slice: the tenant's buckets in order, all of them.
LEMMA EntriesFacts ==
    /\ Entries \in Seq(Mine(buckets)) /\ Increasing(Entries)
    /\ \A n \in Mine(buckets) : \E i \in 1 .. Len(Entries) : Entries[i] = n
<1> DEFINE S == Mine(buckets)
           k == Cardinality(S)
           s == Entries
           R == {s[i] : i \in 1 .. k}
<1>1. S \in SUBSET Nat /\ S \in SUBSET Names /\ IsFiniteSet(S)
  BY Zenon, BucketsAssumption, FS_Subset DEF Mine
<1>2. k \in Nat
  BY Zenon, <1>1, FS_CardinalityType
<1>3. s \in [1 .. k -> S] /\ Increasing(s)
  <2>1. Enumerable(S)
    BY Zenon, <1>1, EnumerationExists
  <2> QED
    BY Zenon, <2>1 DEF Enumerable, Increasing, Entries
<1> HIDE DEF S, k, s
<1>4. s \in Seq(S) /\ Len(s) = k
  BY <1>2, <1>3
<1>5. \A i, j \in 1 .. k : s[i] = s[j] => i = j
  <2> TAKE i, j \in 1 .. k
  <2>1. s[i] \in Nat /\ s[j] \in Nat
    <3>1. s[i] \in S /\ s[j] \in S
      BY Zenon, <1>3
    <3> QED
      BY <1>1, <3>1, Zenon
  <2>2. (i < j => s[i] < s[j]) /\ (j < i => s[j] < s[i])
    BY Zenon, <1>3 DEF Increasing
  <2> QED
    BY <2>1, <2>2
<1>6. ExistsBijection(1 .. k, R)
  <2>1. s \in Bijection(1 .. k, R)
    BY Zenon, <1>3, <1>5 DEF Bijection, Injection, Surjection, IsInjective
  <2> QED
    BY Zenon, <2>1 DEF ExistsBijection
<1>7. Cardinality(R) = k
  <2>1. IsFiniteSet(1 .. k) /\ Cardinality(1 .. k) = k
    BY <1>2, FS_Interval
  <2> QED
    BY Zenon, <2>1, <1>6, FS_Bijection
<1>8. R = S
  <2>1. R \in SUBSET S
    BY Zenon, <1>3
  <2> QED
    BY Zenon, <2>1, <1>1, <1>7, FS_Subset DEF k
<1> QED
  BY Zenon, <1>3, <1>4, <1>8 DEF s, S

\* sort.Search on names in order: what it skips is not after the token, what it
\* leaves is.
LEMMA SearchFacts ==
    ASSUME NEW s \in Seq(Names), Increasing(s), NEW token \in Nat
    PROVE  /\ Search(s, token) \in 1 .. Len(s) + 1
           /\ \A j \in 1 .. Len(s) : j < Search(s, token) <=> s[j] <= token
<1> DEFINE I == {i \in 1 .. Len(s) + 1 : i <= Len(s) => s[i] > token}
<1>1. Len(s) \in Nat /\ DOMAIN s = 1 .. Len(s) /\ \A j \in 1 .. Len(s) : s[j] \in Nat
  BY NameFacts
<1>2. I \in SUBSET Nat /\ Len(s) + 1 \in I
  BY <1>1
<1>3. PICK i \in I : \A j \in I : i <= j
  <2> HIDE DEF I
  <2> QED
    BY <1>2, Least, Zenon
<1>4. /\ i \in 1 .. Len(s) + 1
      /\ \A j \in 1 .. i - 1 : s[j] <= token
      /\ i <= Len(s) => s[i] > token
  BY <1>1, <1>3
<1>5. LET f == Search(s, token)
      IN  /\ f \in 1 .. Len(s) + 1
          /\ \A j \in 1 .. f - 1 : s[j] <= token
          /\ f <= Len(s) => s[f] > token
  BY <1>4, Zenon DEF Search
<1> DEFINE f == Search(s, token)
<1> HIDE DEF f
<1>6. /\ f \in 1 .. Len(s) + 1
      /\ \A j \in 1 .. f - 1 : s[j] <= token
      /\ f <= Len(s) => s[f] > token
  BY <1>5, Zenon DEF f
<1>7. ASSUME NEW j \in 1 .. Len(s) PROVE j < f <=> s[j] <= token
  <2>1. CASE j < f
    BY <1>1, <1>6, <2>1
  <2>2. CASE ~(j < f)
    <3>1. f \in 1 .. Len(s) /\ s[f] > token /\ f \in Nat /\ j \in Nat
      BY <1>1, <1>6, <2>2
    <3>2. f = j \/ s[f] < s[j]
      BY <1>1, <2>2, <3>1 DEF Increasing
    <3> QED
      BY <1>1, <2>2, <3>1, <3>2
  <2> QED
    BY Zenon, <2>1, <2>2
<1> QED
  BY Zenon, <1>6, <1>7 DEF f

\* What is left of the entries: those after the token, in order.
LEMMA AfterFacts ==
    ASSUME NEW s \in Seq(Names), Increasing(s), NEW token \in Nat
    PROVE  LET a == After(s, token)
           IN  /\ a \in Seq(Names) /\ Increasing(a)
               /\ \A k \in 1 .. Len(a) :
                      a[k] > token /\ \E j \in 1 .. Len(s) : a[k] = s[j]
               /\ \A j \in 1 .. Len(s) :
                      s[j] > token => \E k \in 1 .. Len(a) : a[k] = s[j]
<1> DEFINE f == Search(s, token)
           a == SubSeq(s, f, Len(s))
<1>1. /\ f \in 1 .. Len(s) + 1
      /\ \A j \in 1 .. Len(s) : j < f <=> s[j] <= token
  BY SearchFacts, Zenon
<1> HIDE DEF f
<1>2. /\ Len(s) \in Nat /\ f \in Nat /\ DOMAIN s = 1 .. Len(s)
      /\ \A j \in 1 .. Len(s) : s[j] \in Nat
  BY <1>1, NameFacts
<1>3. /\ a \in Seq(Names) /\ Len(a) = Len(s) - f + 1 /\ DOMAIN a = 1 .. Len(a)
      /\ \A k \in 1 .. Len(a) : a[k] = s[k + f - 1]
  BY <1>1, <1>2
<1> HIDE DEF a
<1>4. \A k \in 1 .. Len(a) : k + f - 1 \in 1 .. Len(s) /\ ~(k + f - 1 < f)
  BY <1>1, <1>2, <1>3
<1>5. ASSUME NEW k \in 1 .. Len(a)
      PROVE  a[k] > token /\ \E j \in 1 .. Len(s) : a[k] = s[j]
  <2>1. ~(s[k + f - 1] <= token) /\ s[k + f - 1] \in Nat
    BY Zenon, <1>1, <1>2, <1>4
  <2> QED
    BY <1>3, <1>4, <2>1
<1>6. ASSUME NEW j \in 1 .. Len(s), s[j] > token
      PROVE  \E k \in 1 .. Len(a) : a[k] = s[j]
  <2>1. ~(j < f)
    BY <1>1, <1>2, <1>6
  <2>2. j - f + 1 \in 1 .. Len(a) /\ (j - f + 1) + f - 1 = j
    BY <1>2, <1>3, <2>1
  <2> QED
    BY Zenon, <1>3, <2>2
<1>7. Increasing(a)
  <2> SUFFICES ASSUME NEW k \in 1 .. Len(a), NEW l \in 1 .. Len(a), k < l
               PROVE  a[k] < a[l]
    BY <1>3, Zenon DEF Increasing
  <2>1. k + f - 1 < l + f - 1
    BY <1>2, <1>3
  <2> QED
    BY Zenon, <1>2, <1>3, <1>4, <2>1 DEF Increasing
<1> QED
  BY Zenon, <1>3, <1>5, <1>6, <1>7 DEF a, f, After

\* The page leaves out nothing of what is kept up to its own last name, the next
\* token, and lists nothing that an earlier page has listed.
WalkTyped ==
    walk \in [state : {"none", "walking", "end"}, token : Names \cup {0}, listed : Seq(Names),
              kept : SUBSET Names, ever : SUBSET Names]

Listed(n) == \E i \in 1 .. Len(walk.listed) : walk.listed[i] = n

WInv ==
    /\ WalkTyped
    /\ Increasing(walk.listed)
    /\ \A i \in 1 .. Len(walk.listed) : walk.listed[i] \in walk.ever
    /\ walk.state = "walking" =>
          /\ \A i \in 1 .. Len(walk.listed) : walk.listed[i] <= walk.token
          /\ \A n \in walk.kept : n <= walk.token => Listed(n)
          /\ walk.kept \subseteq Mine(buckets) /\ Mine(buckets) \subseteq walk.ever
    /\ walk.state = "end" => \A n \in walk.kept : Listed(n)

LEMMA MineFacts == Mine(buckets) \subseteq Names /\ Mine(buckets)' \subseteq Names
  BY Zenon DEF Mine

LEMMA InitWInv == Init => WInv
<1> SUFFICES ASSUME Init PROVE WInv
  OBVIOUS
<1>1. walk = NoWalk
  BY Zenon DEF Init
<1>2. /\ walk.state = "none" /\ walk.token = 0 /\ walk.listed = <<>>
      /\ walk.kept = {} /\ walk.ever = {}
  BY <1>1, Zenon DEF NoWalk
<1>3. WalkTyped
  BY <1>1 DEF WalkTyped, NoWalk
<1>4. Increasing(walk.listed) /\ Len(walk.listed) = 0
  BY <1>2 DEF Increasing
<1> QED
  BY <1>2, <1>3, <1>4 DEF WInv

\* What the other requests do between two pages.
LEMMA NoteWalkStep ==
    ASSUME WInv, NoteWalk
    PROVE  WInv'
<1>1. CASE walk.state # "walking"
  <2>1. walk' = walk
    BY <1>1, Zenon DEF NoteWalk
  <2> QED
    BY <1>1, <2>1, Zenon DEF WInv, WalkTyped, Listed, Increasing
<1>2. CASE walk.state = "walking"
  <2> DEFINE M == Mine(buckets)'
  <2>1. M \subseteq Names
    BY MineFacts, Zenon
  <2>2. walk' = [walk EXCEPT !.kept = @ \cap M, !.ever = @ \cup M]
    BY <1>2, Zenon DEF NoteWalk, Mine
  <2> HIDE DEF M
  <2>3. /\ walk'.state = walk.state /\ walk'.token = walk.token /\ walk'.listed = walk.listed
        /\ walk'.kept = walk.kept \cap M /\ walk'.ever = walk.ever \cup M
        /\ WalkTyped'
    BY Zenon, <2>1, <2>2 DEF WInv, WalkTyped
  <2>4. Increasing(walk.listed)'
    BY <2>3, Zenon DEF WInv, Increasing
  <2>5. \A n : Listed(n) => Listed(n)'
    BY <2>3, Zenon DEF Listed
  <2>6. \A n \in walk'.kept : n <= walk'.token => Listed(n)'
    BY <1>2, <2>3, <2>5, Zenon DEF WInv
  <2>7. /\ walk'.kept \subseteq Mine(buckets)' /\ Mine(buckets)' \subseteq walk'.ever
        /\ \A i \in 1 .. Len(walk'.listed) :
               walk'.listed[i] \in walk'.ever /\ walk'.listed[i] <= walk'.token
    BY <1>2, <2>3, Zenon DEF WInv, M
  <2> QED
    BY <1>2, <2>3, <2>4, <2>6, <2>7, Zenon DEF WInv
<1> QED
  BY Zenon, <1>1, <1>2

LEMMA StartWalkStep ==
    ASSUME WInv, StartWalk
    PROVE  WInv'
<1>1. walk' = [NoWalk EXCEPT !.state = "walking", !.kept = Mine(buckets), !.ever = Mine(buckets)]
  BY Zenon DEF StartWalk
<1>2. Mine(buckets)' = Mine(buckets)
  BY Zenon DEF StartWalk, Mine
<1> DEFINE M == Mine(buckets)
<1>3. M \subseteq Names
  BY MineFacts, Zenon
<1> HIDE DEF M
<1>4. /\ walk'.state = "walking" /\ walk'.token = 0 /\ walk'.listed = <<>>
      /\ walk'.kept = M /\ walk'.ever = M
      /\ WalkTyped'
  <2>1. walk' = [state |-> "walking", token |-> 0, listed |-> <<>>, kept |-> M, ever |-> M]
    BY Zenon, <1>1 DEF NoWalk, M
  <2>2. <<>> \in Seq(Names)
    OBVIOUS
  <2>3. WalkTyped'
    BY <1>3, <2>1, <2>2, Zenon DEF WalkTyped
  <2> QED
    BY <2>1, <2>3, Zenon
<1>5. Increasing(walk.listed)' /\ Len(walk'.listed) = 0
  BY <1>4 DEF Increasing
<1>6. \A i \in 1 .. Len(walk'.listed) : FALSE
  BY <1>5
<1>7. \A n \in M : ~(n <= 0)
  BY <1>3, NameFacts
<1> QED
  BY <1>2, <1>4, <1>5, <1>6, <1>7, Zenon DEF WInv, M

\* One page p follows what is listed: its names are after the token.
LEMMA PageAppended ==
    ASSUME NEW s \in Seq(Names), NEW p \in Seq(Names), NEW token \in Nat,
           Increasing(s), Increasing(p),
           \A i \in 1 .. Len(s) : s[i] <= token,
           \A i \in 1 .. Len(p) : p[i] > token
    PROVE  /\ s \o p \in Seq(Names) /\ Increasing(s \o p)
           /\ \A k \in 1 .. Len(s \o p) : \/ \E i \in 1 .. Len(s) : (s \o p)[k] = s[i]
                                          \/ \E i \in 1 .. Len(p) : (s \o p)[k] = p[i]
           /\ \A i \in 1 .. Len(s) : \E k \in 1 .. Len(s \o p) : (s \o p)[k] = s[i]
           /\ \A i \in 1 .. Len(p) : \E k \in 1 .. Len(s \o p) : (s \o p)[k] = p[i]
<1> DEFINE c == s \o p
<1>1. /\ c \in Seq(Names) /\ Len(c) = Len(s) + Len(p) /\ DOMAIN c = 1 .. Len(c)
      /\ \A k \in 1 .. Len(c) : c[k] = IF k <= Len(s) THEN s[k] ELSE p[k - Len(s)]
  OBVIOUS
<1> HIDE DEF c
<1>2. /\ Len(s) \in Nat /\ Len(p) \in Nat /\ DOMAIN s = 1 .. Len(s) /\ DOMAIN p = 1 .. Len(p)
      /\ \A i \in 1 .. Len(s) : s[i] \in Nat
      /\ \A i \in 1 .. Len(p) : p[i] \in Nat
  BY NameFacts
<1>3. \A k \in 1 .. Len(c) : \/ k <= Len(s) /\ k \in 1 .. Len(s) /\ c[k] = s[k]
                             \/ ~(k <= Len(s)) /\ k - Len(s) \in 1 .. Len(p) /\ c[k] = p[k - Len(s)]
  <2> TAKE k \in 1 .. Len(c)
  <2>1. CASE k <= Len(s)
    <3>1. k \in 1 .. Len(s)
      BY <1>1, <1>2, <2>1
    <3> QED
      BY <1>1, <2>1, <3>1, Zenon
  <2>2. CASE ~(k <= Len(s))
    <3>1. k - Len(s) \in 1 .. Len(p)
      BY <1>1, <1>2, <2>2
    <3> QED
      BY <1>1, <2>2, <3>1, Zenon
  <2> QED
    BY Zenon, <2>1, <2>2
<1>4. \A i \in 1 .. Len(s) : i \in 1 .. Len(c) /\ c[i] = s[i]
  BY <1>1, <1>2
<1>5. \A i \in 1 .. Len(p) : i + Len(s) \in 1 .. Len(c) /\ c[i + Len(s)] = p[i]
  BY <1>1, <1>2
<1>6. ASSUME NEW k \in 1 .. Len(c), NEW l \in 1 .. Len(c), k < l PROVE c[k] < c[l]
  <2>1. CASE l <= Len(s)
    <3>1. k \in 1 .. Len(s) /\ l \in 1 .. Len(s) /\ c[k] = s[k] /\ c[l] = s[l]
      BY <1>1, <1>2, <1>6, <2>1
    <3> QED
      BY <1>2, <1>6, <3>1, Zenon DEF Increasing
  <2>2. CASE ~(k <= Len(s))
    <3>1. /\ k - Len(s) \in 1 .. Len(p) /\ l - Len(s) \in 1 .. Len(p) /\ k - Len(s) < l - Len(s)
          /\ c[k] = p[k - Len(s)] /\ c[l] = p[l - Len(s)]
      BY <1>1, <1>2, <1>6, <2>2
    <3> QED
      BY <1>2, <3>1, Zenon DEF Increasing
  <2>3. CASE k <= Len(s) /\ ~(l <= Len(s))
    <3>1. /\ k \in 1 .. Len(s) /\ l - Len(s) \in 1 .. Len(p)
          /\ c[k] = s[k] /\ c[l] = p[l - Len(s)]
      BY <1>3, <2>3, Zenon
    <3>2. c[k] <= token /\ c[l] > token /\ c[k] \in Nat /\ c[l] \in Nat
      BY <1>2, <3>1, Zenon
    <3> QED
      BY <3>2
  <2> QED
    BY Zenon, <2>1, <2>2, <2>3
<1>7. Increasing(c)
  BY <1>1, <1>6, Zenon DEF Increasing
<1> QED
  BY <1>1, <1>3, <1>4, <1>5, <1>7, Zenon DEF c

\* One page of a listing e after the token.
LEMMA PageFacts ==
    ASSUME NEW a \in Seq(Names), Increasing(a), NEW m \in Nat \ {0}, Len(a) > m
    PROVE  LET p == SubSeq(a, 1, m)
           IN  /\ p \in Seq(Names) /\ Increasing(p) /\ p[m] \in Names
               /\ \A i \in 1 .. Len(p) :
                      p[i] <= p[m] /\ \E k \in 1 .. Len(a) : p[i] = a[k]
               /\ \A k \in 1 .. Len(a) :
                      a[k] <= p[m] => \E i \in 1 .. Len(p) : p[i] = a[k]
<1> DEFINE p == SubSeq(a, 1, m)
<1>1. /\ p \in Seq(Names) /\ Len(p) = m /\ DOMAIN p = 1 .. m
      /\ \A i \in 1 .. m : p[i] = a[i]
  OBVIOUS
<1> HIDE DEF p
<1>2. /\ Len(a) \in Nat /\ DOMAIN a = 1 .. Len(a) /\ m \in Nat /\ m \in 1 .. m
      /\ \A i \in 1 .. m : i \in 1 .. Len(a) /\ i \in Nat
  OBVIOUS
<1>3. \A i \in 1 .. Len(a) : a[i] \in Nat /\ a[i] \in Names
  BY NameFacts
<1>4. \A i, j \in 1 .. Len(a) : i < j => a[i] < a[j]
  BY <1>2, Zenon DEF Increasing
<1>5. Increasing(p)
  BY <1>1, <1>2, <1>4, Zenon DEF Increasing
<1>6. \A i \in 1 .. m : a[i] <= a[m]
  <2> TAKE i \in 1 .. m
  <2>1. i = m \/ a[i] < a[m]
    <3>1. i = m \/ i < m
      OBVIOUS
    <3> QED
      BY <1>2, <1>4, <3>1, Zenon
  <2> QED
    BY <1>2, <1>3, <2>1
<1>7. ASSUME NEW k \in 1 .. Len(a), a[k] <= a[m] PROVE k \in 1 .. m
  <2>1. CASE k <= m
    BY <2>1
  <2>2. CASE ~(k <= m)
    <3>1. m < k
      BY <2>2
    <3>2. a[m] < a[k]
      BY <1>2, <1>4, <3>1, Zenon
    <3> QED
      BY <1>2, <1>3, <1>7, <3>2
  <2> QED
    BY Zenon, <2>1, <2>2
<1> QED
  BY <1>1, <1>2, <1>3, <1>5, <1>6, <1>7, Zenon DEF p

\* A page p after the token, up to the new token t: nothing kept is left out.
LEMMA PageStep ==
    ASSUME WInv, walk.state = "walking",
           NEW p \in Seq(Names), Increasing(p),
           \A i \in 1 .. Len(p) : p[i] > walk.token /\ p[i] \in Mine(buckets),
           NEW st \in {"walking", "end"}, NEW t \in Names \cup {0},
           walk' = [walk EXCEPT !.listed = @ \o p, !.token = t, !.state = st],
           buckets' = buckets,
           st = "walking" => \A i \in 1 .. Len(p) : p[i] <= t,
           st = "walking" => walk.token <= t,
           \A n \in Mine(buckets) :
               n > walk.token /\ (st = "walking" => n <= t) => \E i \in 1 .. Len(p) : p[i] = n
    PROVE  WInv'
<1> DEFINE s == walk.listed
           c == s \o p
<1>1. /\ s \in Seq(Names) /\ Increasing(s) /\ walk.token \in Nat
      /\ \A i \in 1 .. Len(s) : s[i] <= walk.token
  <2>1. walk.token \in Names \cup {0} /\ s \in Seq(Names)
    BY Zenon DEF WInv, WalkTyped
  <2>2. walk.token \in Nat
    BY <2>1, NameFacts
  <2> QED
    BY <2>1, <2>2, Zenon DEF WInv
<1>2. /\ c \in Seq(Names) /\ Increasing(c)
      /\ \A k \in 1 .. Len(c) : \/ \E i \in 1 .. Len(s) : c[k] = s[i]
                                \/ \E i \in 1 .. Len(p) : c[k] = p[i]
      /\ \A i \in 1 .. Len(s) : \E k \in 1 .. Len(c) : c[k] = s[i]
      /\ \A i \in 1 .. Len(p) : \E k \in 1 .. Len(c) : c[k] = p[i]
  BY <1>1, PageAppended, Zenon
<1>3. /\ walk'.listed = c /\ walk'.token = t /\ walk'.state = st
      /\ walk'.kept = walk.kept /\ walk'.ever = walk.ever
  <2> HIDE DEF c
  <2> QED
    BY Zenon DEF WInv, WalkTyped, c
<1>4. WalkTyped'
  <2> HIDE DEF c
  <2>1. walk' = [walk EXCEPT !.listed = c, !.token = t, !.state = st]
    BY Zenon DEF c
  <2>2. walk \in [state : {"none", "walking", "end"}, token : Names \cup {0},
                  listed : Seq(Names), kept : SUBSET Names, ever : SUBSET Names]
    BY Zenon DEF WInv, WalkTyped
  <2> QED
    BY Zenon, <1>2, <2>1, <2>2 DEF WalkTyped
<1>5. Mine(buckets)' = Mine(buckets)
  BY Zenon DEF Mine
<1> HIDE DEF c
<1>6. /\ \A i \in 1 .. Len(s) : s[i] \in walk.ever
      /\ walk.kept \subseteq Mine(buckets) /\ Mine(buckets) \subseteq walk.ever
      /\ \A n \in walk.kept : n <= walk.token => \E i \in 1 .. Len(s) : s[i] = n
  BY Zenon DEF WInv, Listed
<1> HIDE DEF s
<1>7. \A k \in 1 .. Len(c) : c[k] \in walk.ever
  BY <1>2, <1>6, Zenon
<1>8. st = "walking" => \A k \in 1 .. Len(c) : c[k] <= t
  <2> SUFFICES ASSUME st = "walking" PROVE \A k \in 1 .. Len(c) : c[k] <= t
    OBVIOUS
  <2>1. \A i \in 1 .. Len(s) : s[i] <= t
    <3> TAKE i \in 1 .. Len(s)
    <3>1. s[i] \in Names /\ s[i] <= walk.token /\ walk.token <= t
      BY <1>1
    <3>2. s[i] \in Nat /\ t \in Nat
      BY <3>1, NameFacts
    <3> QED
      BY <1>1, <3>1, <3>2
  <2> QED
    BY <1>2, <2>1, Zenon
<1>9. ASSUME NEW n \in walk.kept, st = "walking" => n <= t
      PROVE  \E k \in 1 .. Len(c) : c[k] = n
  <2>1. n \in Mine(buckets) /\ n \in Names
    BY <1>6, MineFacts, Zenon
  <2>2. n \in Nat
    BY <2>1, NameFacts, Zenon
  <2>3. n <= walk.token \/ n > walk.token
    BY <1>1, <2>2
  <2>4. CASE n <= walk.token
    <3>1. PICK i \in 1 .. Len(s) : s[i] = n
      BY <1>6, <2>4, Zenon
    <3> QED
      BY <1>2, <3>1, Zenon
  <2>5. CASE n > walk.token
    <3>1. PICK i \in 1 .. Len(p) : p[i] = n
      BY <1>9, <2>1, <2>5, Zenon
    <3> QED
      BY <1>2, <3>1, Zenon
  <2> QED
    BY <2>3, <2>4, <2>5, Zenon
<1>10. Increasing(walk.listed)' /\ \A i \in 1 .. Len(walk'.listed) : walk'.listed[i] \in walk'.ever
  BY <1>2, <1>3, <1>7, Zenon DEF Increasing
<1>11. \A n \in walk'.kept : (st = "walking" => n <= t) => Listed(n)'
  BY <1>3, <1>9, Zenon DEF Listed
<1>12. walk'.state = "walking" =>
         /\ \A i \in 1 .. Len(walk'.listed) : walk'.listed[i] <= walk'.token
         /\ \A n \in walk'.kept : n <= walk'.token => Listed(n)'
         /\ walk'.kept \subseteq Mine(buckets)' /\ Mine(buckets)' \subseteq walk'.ever
  BY <1>3, <1>5, <1>6, <1>8, <1>11, Zenon
<1>13. walk'.state = "end" => \A n \in walk'.kept : Listed(n)'
  BY Zenon, <1>3, <1>11
<1> QED
  BY <1>4, <1>10, <1>12, <1>13, Zenon DEF WInv

LEMMA listBucketsStep ==
    ASSUME WInv, NEW m \in PageSizes, listBuckets(m)
    PROVE  WInv'
<1> DEFINE M == Mine(buckets)
           e == Entries
           token == walk.token
           a == After(e, token)
           p == SubSeq(a, 1, m)
<1>1. /\ e \in Seq(Names) /\ Increasing(e)
      /\ \A i \in 1 .. Len(e) : e[i] \in M
      /\ \A n \in M : \E i \in 1 .. Len(e) : e[i] = n
  <2> HIDE DEF e, M
  <2>1. e \in Seq(M) /\ Increasing(e) /\ \A n \in M : \E i \in 1 .. Len(e) : e[i] = n
    BY EntriesFacts, Zenon DEF e, M
  <2>2. M \subseteq Names
    BY MineFacts, Zenon DEF M
  <2>3. e \in Seq(Names) /\ \A i \in 1 .. Len(e) : e[i] \in M
    BY <2>1, <2>2
  <2> QED
    BY <2>1, <2>3, Zenon
<1>2. token \in Nat /\ m \in Nat \ {0}
  <2>1. token \in Names \cup {0}
    BY Zenon DEF WInv, WalkTyped
  <2>2. token \in Nat
    BY <2>1, NameFacts
  <2>3. m \in Nat \ {0}
    BY BucketsAssumption, Zenon
  <2> QED
    BY <2>2, <2>3, Zenon
<1>3. /\ walk.state = "walking" /\ buckets' = buckets
      /\ IF Len(a) > m
         THEN walk' = [walk EXCEPT !.listed = @ \o p, !.token = p[m], !.state = "walking"]
         ELSE walk' = [walk EXCEPT !.listed = @ \o a, !.token = 0, !.state = "end"]
  BY Zenon DEF listBuckets
<1> HIDE DEF e, M
<1>4. /\ a \in Seq(Names) /\ Increasing(a)
      /\ \A k \in 1 .. Len(a) : a[k] > token /\ \E j \in 1 .. Len(e) : a[k] = e[j]
      /\ \A j \in 1 .. Len(e) : e[j] > token => \E k \in 1 .. Len(a) : a[k] = e[j]
  BY <1>1, <1>2, AfterFacts, Zenon
<1> HIDE DEF a
<1>5. /\ \A k \in 1 .. Len(a) : a[k] > token /\ a[k] \in M
      /\ \A n \in M : n > token => \E k \in 1 .. Len(a) : a[k] = n
  BY <1>1, <1>4, Zenon
<1>6. CASE ~(Len(a) > m)
  <2>1. walk' = [walk EXCEPT !.listed = @ \o a, !.token = 0, !.state = "end"]
    BY <1>3, <1>6, Zenon
  <2> QED
    BY <1>3, <1>4, <1>5, <2>1, PageStep, Zenon DEF M
<1>7. CASE Len(a) > m
  <2>1. walk' = [walk EXCEPT !.listed = @ \o p, !.token = p[m], !.state = "walking"]
    BY <1>3, <1>7, Zenon
  <2>2. /\ p \in Seq(Names) /\ Increasing(p) /\ p[m] \in Names
        /\ \A i \in 1 .. Len(p) : p[i] <= p[m] /\ \E k \in 1 .. Len(a) : p[i] = a[k]
        /\ \A k \in 1 .. Len(a) : a[k] <= p[m] => \E i \in 1 .. Len(p) : p[i] = a[k]
    BY <1>2, <1>4, <1>7, PageFacts, Zenon
  <2>3. \E k \in 1 .. Len(a) : p[m] = a[k]
    BY <1>2, <1>4, <1>7
  <2> HIDE DEF p
  <2>4. \A i \in 1 .. Len(p) : p[i] > token /\ p[i] \in M
    BY <1>5, <2>2, Zenon
  <2>5. token <= p[m]
    <3>1. p[m] > token /\ p[m] \in Nat
      BY <1>5, <2>2, <2>3, NameFacts, Zenon
    <3> QED
      BY <1>2, <3>1
  <2>6. \A n \in M : n > token /\ n <= p[m] => \E i \in 1 .. Len(p) : p[i] = n
    BY <1>5, <2>2, Zenon
  <2> DEFINE t == p[m]
             st == "walking"
  <2>7. /\ t \in Names \cup {0} /\ token <= t
        /\ walk' = [walk EXCEPT !.listed = @ \o p, !.token = t, !.state = st]
        /\ \A i \in 1 .. Len(p) : p[i] <= t
        /\ \A n \in M : n > token /\ n <= t => \E i \in 1 .. Len(p) : p[i] = n
    BY <2>1, <2>2, <2>5, <2>6, Zenon
  <2>8. st \in {"walking", "end"} /\ st = "walking"
    OBVIOUS
  <2> HIDE DEF t, st
  <2>9. /\ \A n \in Mine(buckets) :
              n > walk.token /\ (st = "walking" => n <= t) => \E i \in 1 .. Len(p) : p[i] = n
        /\ \A i \in 1 .. Len(p) : p[i] > walk.token /\ p[i] \in Mine(buckets)
        /\ st = "walking" => \A i \in 1 .. Len(p) : p[i] <= t
        /\ st = "walking" => walk.token <= t
    BY <2>4, <2>7, <2>8, Zenon DEF M
  <2>10. /\ walk.state = "walking" /\ buckets' = buckets
         /\ p \in Seq(Names) /\ Increasing(p) /\ t \in Names \cup {0}
         /\ walk' = [walk EXCEPT !.listed = @ \o p, !.token = t, !.state = st]
    BY <1>3, <2>2, <2>7, Zenon
  <2> HIDE DEF token
  <2> QED
    BY <2>8, <2>9, <2>10, PageStep, Zenon
<1> QED
  BY Zenon, <1>6, <1>7

LEMMA NextWInv == WInv /\ [Next]_vars => WInv'
<1> SUFFICES ASSUME WInv, [Next]_vars PROVE WInv'
  OBVIOUS
<1>1. CASE NoteWalk
  BY Zenon, <1>1, NoteWalkStep
<1>2. CASE StartWalk
  BY Zenon, <1>2, StartWalkStep
<1>3. ASSUME NEW m \in PageSizes, listBuckets(m) PROVE WInv'
  BY Zenon, <1>3, listBucketsStep
<1>4. CASE UNCHANGED vars
  <2>1. walk' = walk /\ Mine(buckets)' = Mine(buckets)
    BY <1>4, Zenon DEF vars, Mine
  <2> QED
    BY <2>1, Zenon DEF WInv, WalkTyped, Listed, Increasing
<1>5. \/ NoteWalk \/ StartWalk \/ UNCHANGED vars
      \/ \E m \in PageSizes : listBuckets(m)
  BY Zenon DEF Next, ServeHTTP, claim, CreateBucket, CreateBucketFails, createBucket, owner,
               DeleteBucket, DeleteBucketFails, deleteBucket, Late, Observe
<1> QED
  BY Zenon, <1>1, <1>2, <1>3, <1>4, <1>5

\* WInv is an invariant: whatever is created and removed between two pages.
THEOREM WalkInvariance == Spec => []WInv
<1>1. Init => WInv
  BY Zenon, InitWInv
<1>2. WInv /\ [Next]_vars => WInv'
  BY Zenon, NextWInv
<1> QED
  BY <1>1, <1>2, PTL DEF Spec

\* A walk lists every bucket the tenant has throughout, each once and in order, and
\* none it did not have meanwhile, for any names and page sizes (listBuckets).
THEOREM WalkComplete == Spec => []ListedOnce
<1>1. WInv => ListedOnce
  <2> SUFFICES ASSUME WInv, walk.state = "end" PROVE ListedOnce
    BY Zenon DEF ListedOnce
  <2>1. walk.listed \in Seq(Names)
    BY Zenon DEF WInv, WalkTyped
  <2>2. DOMAIN walk.listed = 1 .. Len(walk.listed)
    BY <2>1
  <2> QED
    BY <2>2, Zenon DEF WInv, ListedOnce, Listed, Increasing, Range
<1> QED
  BY <1>1, WalkInvariance, PTL

-----------------------------------------------------------------------------
(* Types *)

\* The part of TypeOK that neither IInv nor WInv has.
Valid ==
    /\ \A n \in Invalid : buckets[n] = Free
    /\ backend \subseteq Names
    /\ doubtful \subseteq Names
    /\ held \in [Requests -> BOOLEAN]
    /\ \A r \in Requests : pc[r] \in {"new", "ok", "refused"} => op[r] = NoOp

LEMMA InitValid == Init => Valid
<1> SUFFICES ASSUME Init PROVE Valid
  OBVIOUS
<1>1. backend \subseteq Names /\ doubtful \subseteq Names
  BY BucketsAssumption, Zenon DEF Init
<1>2. held \in [Requests -> BOOLEAN] /\ \A r \in Requests : op[r] = NoOp
  BY Zenon DEF Init
<1> QED
  BY <1>1, <1>2, Zenon DEF Valid, Init

LEMMA NextValid == IInv /\ Valid /\ [Next]_vars => Valid'
<1> SUFFICES ASSUME IInv, Valid, [Next]_vars PROVE Valid'
  OBVIOUS
<1>1. held' \in [Requests -> BOOLEAN]
  <2>1. CASE NoteHeld
    BY <2>1, Zenon DEF NoteHeld
  <2>2. CASE held' = held
    BY <2>2, Zenon DEF Valid
  <2>3. NoteHeld \/ held' = held
    BY Zenon DEF Next, ServeHTTP, claim, CreateBucket, CreateBucketFails, createBucket, owner,
                 DeleteBucket, DeleteBucketFails, deleteBucket, Late, Observe,
                 StartWalk, listBuckets, vars
  <2> QED
    BY Zenon, <2>1, <2>2, <2>3
<1>2. \A r \in Requests : pc[r] \in {"claimed", "owned"} => Bucket(r) \in Names
  BY BusyFacts, Zenon DEF Busy, Claimed
<1>3. \A c \in late : c.bucket \in Names
  BY Zenon DEF IInv, Typed
<1>4. backend' \subseteq Names
  <2>1. \/ backend' \subseteq backend
        \/ \E r \in Requests : pc[r] = "claimed" /\ backend' = backend \cup {Bucket(r)}
        \/ \E c \in late : backend' = backend \cup {c.bucket}
    BY Zenon DEF Next, ServeHTTP, claim, CreateBucket, CreateBucketFails, createBucket, owner,
                 DeleteBucket, DeleteBucketFails, deleteBucket, Late, StartWalk, listBuckets, vars
  <2> QED
    BY <1>2, <1>3, <2>1 DEF Valid
<1>5. doubtful' \subseteq Names
  <2>1. \/ doubtful' = doubtful
        \/ \E r \in Requests : pc[r] = "owned" /\ doubtful' = doubtful \cup {Bucket(r)}
    BY Zenon DEF Next, ServeHTTP, claim, CreateBucket, CreateBucketFails, createBucket, owner,
                 DeleteBucket, DeleteBucketFails, deleteBucket, Late, StartWalk, listBuckets, vars
  <2> QED
    BY <1>2, <2>1 DEF Valid
<1>6. \A n \in Invalid : buckets'[n] = Free
  <2>1. \/ buckets' = buckets
        \/ \E r \in Requests : Register(Bucket(r), Free)
        \/ \E r \in Requests : \E rec : Bucket(r) \notin Invalid /\ Register(Bucket(r), rec)
    BY Zenon DEF Next, ServeHTTP, claim, CreateBucket, CreateBucketFails, createBucket, owner,
                 DeleteBucket, DeleteBucketFails, deleteBucket, Late, StartWalk, listBuckets, vars
  <2>2. buckets \in [Names -> Rec] /\ Invalid \subseteq Names
    BY BucketsAssumption, Zenon DEF IInv, Typed
  <2> QED
    BY <2>1, <2>2, Zenon DEF Valid, Register
<1>7. ASSUME NEW q \in Requests, pc'[q] \in {"new", "ok", "refused"} PROVE op'[q] = NoOp
  <2> DEFINE goes(r, l) == pc' = [pc EXCEPT ![r] = l]
  <2>1. \/ pc' = pc /\ op' = op
        \/ \E r \in Requests : \E l \in Busy : goes(r, l) /\ op' = op
        \/ \E r \in Requests : \E l \in Busy : \E o : goes(r, l) /\ op' = [op EXCEPT ![r] = o]
        \/ \E r \in Requests : \E l : goes(r, l) /\ op' = [op EXCEPT ![r] = NoOp]
    BY Zenon DEF Next, ServeHTTP, claim, CreateBucket, CreateBucketFails, createBucket, owner,
                 DeleteBucket, DeleteBucketFails, deleteBucket, Late, StartWalk, listBuckets, vars,
                 Goto, finish, Busy, Claimed
  <2>2. pc \in [Requests -> Labels] /\ op \in [Requests -> Op \cup {NoOp}]
    BY Zenon DEF IInv, Typed
  <2>3. pc'[q] \notin Busy
    BY <1>7 DEF Busy, Claimed
  <2> QED
    BY Zenon, <1>7, <2>1, <2>2, <2>3 DEF Valid
<1> QED
  BY <1>1, <1>4, <1>5, <1>6, <1>7, Zenon DEF Valid

\* Types; no invalid name is ever registered (claim validates it first), and nothing
\* of an answered request is left but its answer.
THEOREM TypeCorrect == Spec => []TypeOK
<1>1. Init => Valid
  BY Zenon, InitValid
<1>2. IInv /\ Valid /\ [Next]_vars => Valid'
  BY Zenon, NextValid
<1>3. IInv /\ WInv /\ Valid => TypeOK
  <2> SUFFICES ASSUME IInv, WInv, Valid PROVE TypeOK
    OBVIOUS
  <2>1. /\ walk.state \in {"none", "walking", "end"} /\ walk.token \in Names \cup {0}
        /\ walk.listed \in Seq(Names)
    BY Zenon DEF WInv, WalkTyped
  <2>2. Range(walk.listed) \subseteq Names
    BY <2>1 DEF Range
  <2>3. ASSUME NEW r \in Requests, op[r] = NoOp PROVE pc[r] \in {"new", "ok", "refused"}
    <3>1. pc[r] \notin Busy /\ pc[r] \in Labels
      BY Zenon, <2>3, OpFacts DEF IInv, Typed
    <3> QED
      BY <3>1 DEF Busy, Claimed, Labels
  <2> QED
    BY <2>1, <2>2, <2>3, Zenon DEF TypeOK, IInv, Typed, Valid, Labels
<1> QED
  BY <1>1, <1>2, <1>3, Invariance, WalkInvariance, PTL DEF Spec

=============================================================================
