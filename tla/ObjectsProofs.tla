---------------------------- MODULE ObjectsProofs ----------------------------
(***************************************************************************)
(* The object operations for any requests, operations, keys and limits.    *)
(* The invariant reads the versions of a key as a set: each was written by *)
(* a request that was sent, as that request listed it, is locked as its    *)
(* writers asked and encrypted under a key they may use.  What each        *)
(* backend call makes of such a bucket is established first, operation by  *)
(* operation; the steps of a request follow from it.                       *)
(***************************************************************************)
EXTENDS Objects, TLAPS

Range(s) == {s[n] : n \in DOMAIN s}

\* A sequence, of whatever elements.
Listing(s) == \E S : s \in Seq(S)

-----------------------------------------------------------------------------
(* Sequences of versions *)

LEMMA ListingFacts ==
  ASSUME NEW s, Listing(s)
  PROVE  Len(s) \in Nat /\ DOMAIN s = 1 .. Len(s)
<1>1. PICK S : s \in Seq(S)
  BY Zenon DEF Listing
<1> QED BY <1>1

\* A version put in front of the others, or of none.
LEMMA InFront ==
  ASSUME NEW s, Listing(s), NEW v
  PROVE  /\ Listing(<<v>> \o s) /\ Range(<<v>> \o s) = {v} \cup Range(s)
         /\ Listing(<<v>>) /\ Range(<<v>>) = {v} /\ Len(<<v>>) = 1
<1>1. PICK S : s \in Seq(S)
  BY Zenon DEF Listing
<1> DEFINE T == S \cup {v}
           t == <<v>> \o s
<1>2. <<v>> \in Seq(T) /\ s \in Seq(T) /\ Len(<<v>>) = 1 /\ <<v>>[1] = v
  BY <1>1
<1>3. t \in Seq(T) /\ Len(t) = Len(s) + 1 /\ Len(s) \in Nat
  BY <1>2
<1>4. t[1] = v /\ \A n \in 1 .. Len(s) : t[n + 1] = s[n]
  BY <1>1, <1>2
<1>5. DOMAIN t = 1 .. Len(s) + 1 /\ DOMAIN s = 1 .. Len(s) /\ DOMAIN <<v>> = 1 .. 1
  BY <1>2, <1>3
<1> HIDE DEF t, T
<1>6. ASSUME NEW n \in DOMAIN t PROVE t[n] \in {v} \cup Range(s)
  <2>1. CASE n = 1
    BY Zenon, <1>4, <2>1
  <2>2. CASE n # 1
    <3>1. n - 1 \in 1 .. Len(s) /\ (n - 1) + 1 = n
      BY <1>3, <1>5, <2>2
    <3>2. t[n] = s[n - 1]
      BY Zenon, <1>4, <3>1
    <3> QED BY <1>5, <3>1, <3>2, Zenon DEF Range
  <2> QED BY <2>1, <2>2, Zenon
<1>7. v \in Range(t)
  <2>1. 1 \in DOMAIN t
    BY <1>3, <1>5
  <2> QED BY <1>4, <2>1, Zenon DEF Range
<1>8. ASSUME NEW n \in DOMAIN s PROVE s[n] \in Range(t)
  <2>1. n + 1 \in DOMAIN t
    BY <1>3, <1>5
  <2> QED BY <1>4, <1>5, <2>1, Zenon DEF Range
<1>9. Range(t) = {v} \cup Range(s)
  BY <1>6, <1>7, <1>8, Zenon DEF Range
<1>10. Range(<<v>>) = {v}
  BY <1>2, <1>5 DEF Range
<1> QED BY <1>2, <1>3, <1>9, <1>10, Zenon DEF Listing, t

\* All but one element of a listing: the others are still there.
LEMMA AllButOne ==
  ASSUME NEW s, Listing(s), NEW n \in 1 .. Len(s)
  PROVE  LET t == SubSeq(s, 1, n - 1) \o SubSeq(s, n + 1, Len(s))
         IN  /\ Listing(t) /\ Len(t) = Len(s) - 1
             /\ \A x \in Range(t) : x \in Range(s)
             /\ \A x \in Range(s) : x = s[n] \/ x \in Range(t)
<1>1. PICK S : s \in Seq(S)
  BY Zenon DEF Listing
<1>2. Len(s) \in Nat /\ DOMAIN s = 1 .. Len(s)
  BY <1>1
<1> DEFINE a == SubSeq(s, 1, n - 1)
           b == SubSeq(s, n + 1, Len(s))
           t == a \o b
<1>3. a \in Seq(S) /\ Len(a) = n - 1 /\ \A m \in 1 .. n - 1 : a[m] = s[m]
  BY <1>1, <1>2
<1>4. b \in Seq(S) /\ Len(b) = Len(s) - n /\ \A m \in 1 .. Len(b) : b[m] = s[n + m]
  BY <1>1
<1>a. t = a \o b
  OBVIOUS
<1> HIDE DEF a, b, t
<1>b. t \in Seq(S) /\ Len(t) = Len(s) - 1
  <2>1. a \in Seq(S) /\ b \in Seq(S)
    BY <1>3, <1>4, Zenon
  <2>2. a \o b \in Seq(S) /\ Len(a \o b) = Len(a) + Len(b)
    BY <2>1
  <2> QED BY <1>2, <1>3, <1>4, <1>a, <2>2
<1>5. t \in Seq(S) /\ Len(t) = Len(s) - 1 /\ DOMAIN t = 1 .. Len(s) - 1
  BY <1>b
<1>6. \A m \in 1 .. Len(t) : t[m] = IF m <= Len(a) THEN a[m] ELSE b[m - Len(a)]
  BY <1>3, <1>4, <1>a
<1>7. \A m \in 1 .. n - 1 : t[m] = s[m]
  BY <1>2, <1>3, <1>5, <1>6
<1>8. \A m \in n .. Len(s) - 1 : t[m] = s[m + 1]
  <2> TAKE m \in n .. Len(s) - 1
  <2>1. /\ m - Len(a) \in 1 .. Len(b) /\ n + (m - Len(a)) = m + 1 /\ ~(m <= Len(a))
        /\ m \in 1 .. Len(t)
    BY <1>2, <1>3, <1>4, <1>5
  <2>2. t[m] = b[m - Len(a)] /\ b[m - Len(a)] = s[n + (m - Len(a))]
    BY <1>4, <1>6, <2>1, Zenon
  <2> QED BY <2>1, <2>2, Zenon
<1>9. ASSUME NEW m \in DOMAIN t PROVE t[m] \in Range(s)
  <2>1. CASE m \in 1 .. n - 1
    <3>1. m \in DOMAIN s
      BY <1>2, <2>1
    <3> QED BY <1>7, <2>1, <3>1, Zenon DEF Range
  <2>2. CASE m \in n .. Len(s) - 1
    <3>1. m + 1 \in DOMAIN s
      BY <1>2, <2>2
    <3> QED BY <1>8, <2>2, <3>1, Zenon DEF Range
  <2> QED BY <1>2, <1>5, <2>1, <2>2
<1>10. ASSUME NEW m \in DOMAIN s PROVE s[m] = s[n] \/ s[m] \in Range(t)
  <2>1. CASE m < n
    <3>1. m \in DOMAIN t /\ m \in 1 .. n - 1
      BY <1>2, <1>5, <2>1
    <3>2. t[m] = s[m]
      BY <1>7, <3>1, Zenon
    <3> QED BY <3>1, <3>2, Zenon DEF Range
  <2>2. CASE m > n
    <3>1. m - 1 \in DOMAIN t /\ m - 1 \in n .. Len(s) - 1 /\ (m - 1) + 1 = m
      BY <1>2, <1>5, <2>2
    <3>2. t[m - 1] = s[m]
      BY Zenon, <1>8, <3>1
    <3> QED BY <3>1, <3>2, Zenon DEF Range
  <2>3. m < n \/ m > n \/ m = n
    BY <1>2
  <2> QED BY <2>1, <2>2, <2>3, Zenon
<1>11. (\A x \in Range(t) : x \in Range(s)) /\ (\A x \in Range(s) : x = s[n] \/ x \in Range(t))
  BY <1>9, <1>10, Zenon DEF Range
<1> QED BY <1>5, <1>11, Zenon DEF Listing, t, a, b

-----------------------------------------------------------------------------
(* What a call may make of the bucket *)

\* The keys anything may be encrypted under, with a mapper installed.
HeldKeys == {"", DefaultKey} \cup {KeyMap[id] : id \in DOMAIN KeyMap}

\* A lock protects as the one asked for would: only its date may differ.
SameLock(asked, lock) == asked.mode = lock.mode /\ asked.hold = lock.hold

\* A version is locked as was asked, not at all in an unversioned bucket, and
\* encrypted under one of those keys.
GoodVersion(v) ==
    /\ v \in [id : {v.id}, data : {v.data}, kms : {v.kms}, lock : Lock, asked : Lock, tags : {v.tags}]
    /\ SameLock(v.asked, v.lock)
    /\ ~versioned => ~Protects(v.lock)
    /\ Mapper => v.kms \in HeldKeys

\* The content is what the list of parts names.
AsListed(data, parts) ==
    parts # <<>> => /\ DOMAIN data = DOMAIN parts
                    /\ \A n \in DOMAIN parts : parts[n].etag \in {Always, data[n]}

\* Request r, which asked o, wrote v.
Written(v, r, o) == v.id[1] = r /\ AsListed(v.data, o.parts)

\* The operation o may remove v.
MayGo(v, o) ==
    ~Protects(v.asked) \/ (v.asked.hold = "OFF" /\ o.kind = "delete" /\ o.bypass = "true")

Bucket ==
    /\ versioned \in BOOLEAN
    /\ objects \in [Keys -> Range(objects)]
    /\ \A k \in Keys : /\ Listing(objects[k])
                       /\ ~versioned => Len(objects[k]) <= 1
                       /\ \A v \in Versions(k) : GoodVersion(v)

\* The versions t are what o, asked by r, may make of those of key k.
KeyStep(r, o, k, t) ==
    /\ Listing(t)
    /\ ~versioned => Len(t) <= 1
    /\ \A w \in Range(t) :
         /\ GoodVersion(w)
         /\ Written(w, r, o) \/ \E v \in Versions(k) : w.id = v.id /\ w.data = v.data
    /\ \A v \in Versions(k) : MayGo(v, o) \/ \E w \in Range(t) : w.id = v.id

BucketStep(r, o, objs) ==
    /\ objs \in [Keys -> Range(objs)]
    /\ \A k \in Keys : KeyStep(r, o, k, objs[k])

LEMMA VersionsRange == \A k : Versions(k) = Range(objects[k])
  BY Zenon DEF Versions, Range

\* A call may leave a key as it is.
LEMMA SameKey ==
  ASSUME Bucket, NEW r, NEW o, NEW k \in Keys PROVE KeyStep(r, o, k, objects[k])
<1>1. /\ Listing(objects[k]) /\ (~versioned => Len(objects[k]) <= 1)
      /\ \A v \in Versions(k) : GoodVersion(v)
  BY Zenon DEF Bucket
<1>2. Versions(k) = Range(objects[k])
  BY VersionsRange, Zenon
<1> QED BY <1>1, <1>2, Zenon DEF KeyStep

LEMMA SameBucket ==
  ASSUME Bucket, NEW r, NEW o PROVE BucketStep(r, o, objects)
  BY SameKey, Zenon DEF Bucket, BucketStep

\* To change one key it is enough that this key's versions may become t.
LEMMA OneKey ==
  ASSUME Bucket, NEW r, NEW o, NEW k \in Keys, NEW t, KeyStep(r, o, k, t)
  PROVE  BucketStep(r, o, [objects EXCEPT ![k] = t])
<1> DEFINE new == [objects EXCEPT ![k] = t]
<1>1. DOMAIN objects = Keys /\ objects = [j \in Keys |-> objects[j]]
  BY Zenon DEF Bucket
<1>2. new = [j \in Keys |-> IF j = k THEN t ELSE objects[j]]
  BY Zenon, <1>1
<1> HIDE DEF new
<1>3. \A j \in Keys : new[j] = IF j = k THEN t ELSE objects[j]
  BY <1>2, Zenon
<1>4. DOMAIN new = Keys
  BY <1>2, Zenon
<1>5. new \in [Keys -> Range(new)]
  BY Zenon, <1>2, <1>3, <1>4 DEF Range
<1>6. \A j \in Keys : KeyStep(r, o, j, new[j])
  BY <1>3, SameKey, Zenon
<1> QED BY <1>5, <1>6, Zenon DEF BucketStep, new

LEMMA PushStep ==
  ASSUME Bucket, NEW r, NEW o, NEW k \in Keys, NEW v, GoodVersion(v), Written(v, r, o)
  PROVE  BucketStep(r, o, Push(k, v))
<1> DEFINE s == objects[k]
           t == IF versioned THEN <<v>> \o s ELSE <<v>>
<1>1. /\ Listing(s) /\ \A w \in Range(s) : GoodVersion(w)
      /\ Versions(k) = Range(s)
  BY VersionsRange, Zenon DEF Bucket
<1>2. /\ Listing(<<v>> \o s) /\ Range(<<v>> \o s) = {v} \cup Range(s)
      /\ Listing(<<v>>) /\ Range(<<v>>) = {v} /\ Len(<<v>>) = 1
  BY <1>1, InFront, Zenon
<1>3. CASE versioned
  <2>1. KeyStep(r, o, k, <<v>> \o s)
    BY <1>1, <1>2, <1>3, Zenon DEF KeyStep
  <2>2. Push(k, v) = [objects EXCEPT ![k] = <<v>> \o s]
    BY Zenon, <1>3 DEF Push
  <2>3. BucketStep(r, o, [objects EXCEPT ![k] = <<v>> \o s])
    BY <2>1, OneKey, Zenon
  <2> QED BY Zenon, <2>2, <2>3
<1>4. CASE ~versioned
  <2>1. \A w \in Range(s) : MayGo(w, o)
    BY <1>1, <1>4, Zenon DEF GoodVersion, MayGo, SameLock, Protects
  <2>2. Len(<<v>>) <= 1
    BY <1>2
  <2>3. KeyStep(r, o, k, <<v>>)
    BY <1>1, <1>2, <2>1, <2>2, Zenon DEF KeyStep
  <2>4. Push(k, v) = [objects EXCEPT ![k] = <<v>>]
    BY Zenon, <1>4 DEF Push
  <2>5. BucketStep(r, o, [objects EXCEPT ![k] = <<v>>])
    BY <2>3, OneKey, Zenon
  <2> QED BY Zenon, <2>4, <2>5
<1> QED BY <1>3, <1>4, Zenon

LEMMA UpdateStep ==
  ASSUME Bucket, NEW r, NEW o, NEW k \in Keys, NEW v \in Versions(k), NEW w,
         GoodVersion(w), w.id = v.id, w.data = v.data
  PROVE  BucketStep(r, o, Update(k, w))
<1> DEFINE s == objects[k]
           t == [n \in DOMAIN s |-> IF s[n].id = w.id THEN w ELSE s[n]]
<1>1. /\ Listing(s) /\ (~versioned => Len(s) <= 1) /\ \A x \in Range(s) : GoodVersion(x)
      /\ Versions(k) = Range(s)
  BY VersionsRange, Zenon DEF Bucket
<1>2. Len(s) \in Nat /\ DOMAIN s = 1 .. Len(s)
  BY Zenon, <1>1, ListingFacts
<1>3. Listing(t) /\ Len(t) = Len(s) /\ DOMAIN t = DOMAIN s
  <2>1. t \in Seq(Range(s) \cup {w})
    BY <1>2 DEF Range
  <2>2. Len(t) = Len(s)
    BY <1>2, <2>1
  <2> QED BY <2>1, <2>2, Zenon DEF Listing
<1>4. \A n \in DOMAIN s : t[n] = IF s[n].id = w.id THEN w ELSE s[n]
  BY Zenon
<1>5. Update(k, w) = [objects EXCEPT ![k] = t]
  BY Zenon DEF Update
<1> HIDE DEF t
<1>6. ASSUME NEW x \in Range(t)
      PROVE  GoodVersion(x) /\ \E y \in Versions(k) : x.id = y.id /\ x.data = y.data
  <2>1. PICK n \in DOMAIN s : x = t[n]
    BY <1>3, Zenon DEF Range
  <2>2. s[n] \in Range(s)
    BY <2>1, Zenon DEF Range
  <2>3. CASE s[n].id = w.id
    <3>1. x = w
      BY <1>4, <2>1, <2>3, Zenon
    <3> QED BY <3>1, Zenon
  <2>4. CASE s[n].id # w.id
    <3>1. x = s[n]
      BY <1>4, <2>1, <2>4, Zenon
    <3> QED BY <1>1, <2>2, <3>1, Zenon
  <2> QED BY <2>3, <2>4, Zenon
<1>7. ASSUME NEW x \in Versions(k) PROVE \E y \in Range(t) : y.id = x.id
  <2>1. PICK n \in DOMAIN s : x = s[n]
    BY Zenon DEF Versions
  <2>2. t[n] \in Range(t)
    BY <1>3, <2>1, Zenon DEF Range
  <2>3. t[n].id = x.id
    BY <1>4, <2>1, Zenon
  <2> QED BY <2>2, <2>3, Zenon
<1>8. KeyStep(r, o, k, t)
  <2>1. ~versioned => Len(t) <= 1
    BY Zenon, <1>1, <1>3
  <2> QED BY <1>3, <1>6, <1>7, <2>1, Zenon DEF KeyStep
<1>9. BucketStep(r, o, [objects EXCEPT ![k] = t])
  BY <1>8, OneKey, Zenon
<1> QED BY Zenon, <1>5, <1>9

LEMMA WithoutStep ==
  ASSUME Bucket, NEW r, NEW o, NEW k \in Keys, NEW v \in Versions(k), MayGo(v, o)
  PROVE  BucketStep(r, o, Without(k, v))
<1> DEFINE s == objects[k]
           n == CHOOSE m \in DOMAIN s : s[m] = v
           t == SubSeq(s, 1, n - 1) \o SubSeq(s, n + 1, Len(s))
<1>1. /\ Listing(s) /\ (~versioned => Len(s) <= 1) /\ \A x \in Range(s) : GoodVersion(x)
      /\ Versions(k) = Range(s)
  BY VersionsRange, Zenon DEF Bucket
<1>2. Len(s) \in Nat /\ DOMAIN s = 1 .. Len(s)
  BY Zenon, <1>1, ListingFacts
<1>3. n \in 1 .. Len(s) /\ s[n] = v
  <2>1. \E m \in DOMAIN s : s[m] = v
    BY Zenon DEF Versions
  <2> HIDE DEF s
  <2>2. n \in DOMAIN s /\ s[n] = v
    BY <2>1, Zenon
  <2> QED BY <1>2, <2>2, Zenon
<1>4. Without(k, v) = [objects EXCEPT ![k] = t]
  BY Zenon DEF Without
<1> HIDE DEF n
<1>5. /\ Listing(t) /\ Len(t) = Len(s) - 1
      /\ \A x \in Range(t) : x \in Range(s)
      /\ \A x \in Range(s) : x = s[n] \/ x \in Range(t)
  BY <1>1, <1>3, AllButOne, Zenon
<1> HIDE DEF t
<1>6. ~versioned => Len(t) <= 1
  BY <1>1, <1>2, <1>5
<1>7. KeyStep(r, o, k, t)
  BY <1>1, <1>3, <1>5, <1>6, Zenon DEF KeyStep
<1>8. BucketStep(r, o, [objects EXCEPT ![k] = t])
  BY <1>7, OneKey, Zenon
<1> QED BY Zenon, <1>4, <1>8

-----------------------------------------------------------------------------
(* What the handlers ask of the backend *)

\* The gateway hands on a lock that protects as what was asked for.
LEMMA LockHeaders ==
  ASSUME NEW lock \in Lock
  PROVE  /\ applyObjectLockHeaders(lock) \in Lock
         /\ SameLock(lock, applyObjectLockHeaders(lock))
<1> DEFINE until == IF lock.until = "bad" THEN "none" ELSE lock.until
<1>1. until \in {"none", "date", "bad"}
  BY Zenon DEF Lock
<1>2. applyObjectLockHeaders(lock) = [lock EXCEPT !.until = until]
  BY Zenon DEF applyObjectLockHeaders
<1> HIDE DEF until
<1> QED BY Zenon, <1>1, <1>2 DEF SameLock, Lock

LEMMA PutInput ==
  ASSUME NEW o, o.kind = "put"
  PROVE  /\ Input(o).kind = "put" /\ Input(o).key = o.key /\ Input(o).cond = o.cond
         /\ Input(o).lock = applyObjectLockHeaders(o.lock)
         /\ Input(o).sse = o.sse /\ Input(o).id = applySSE(o)
<1>1. Input(o) = putObject(o)
  BY Zenon DEF Input
<1> QED BY <1>1 DEF putObject, Blank

LEMMA CopyInput ==
  ASSUME NEW o, o.kind = "copy"
  PROVE  /\ Input(o).kind = "copy" /\ Input(o).key = o.key /\ Input(o).cond = Always
         /\ Input(o).from = o.from 
         /\ Input(o).fromCond = applyConditionalHeaders(o.fromCond)
         /\ Input(o).lock = applyObjectLockHeaders(o.lock)
         /\ Input(o).sse = o.sse /\ Input(o).id = applySSE(o)
<1>1. Input(o) = copyObject(o)
  BY Zenon DEF Input
<1> QED BY <1>1 DEF copyObject, Blank

LEMMA CreateInput ==
  ASSUME NEW o, o.kind = "create"
  PROVE  /\ Input(o).kind = "create" /\ Input(o).key = o.key
         /\ Input(o).lock = applyObjectLockHeaders(o.lock)
         /\ Input(o).sse = o.sse /\ Input(o).id = applySSE(o)
<1>1. Input(o) = createMultipartUpload(o)
  BY Zenon DEF Input
<1> QED BY <1>1 DEF createMultipartUpload, Blank

LEMMA UploadInput ==
  ASSUME NEW o
  PROVE  /\ o.kind = "part" => Input(o).kind = "part"
         /\ o.kind = "partcopy" => Input(o).kind = "partcopy"
         /\ o.kind = "abort" => Input(o).kind = "abort"
<1>1. CASE o.kind = "part"
  <2>1. Input(o) = uploadPart(o)
    BY Zenon, <1>1 DEF Input
  <2> QED BY Zenon, <1>1, <2>1 DEF uploadPart, Blank
<1>2. CASE o.kind = "partcopy"
  <2>1. Input(o) = uploadPartCopy(o)
    BY Zenon, <1>2 DEF Input
  <2> QED BY Zenon, <1>2, <2>1 DEF uploadPartCopy, Blank
<1>3. CASE o.kind = "abort"
  <2>1. Input(o) = abortMultipartUpload(o)
    BY Zenon, <1>3 DEF Input
  <2> QED BY Zenon, <1>3, <2>1 DEF abortMultipartUpload, Blank
<1> QED BY <1>1, <1>2, <1>3, Zenon

LEMMA CompleteInput ==
  ASSUME NEW o, o.kind = "complete"
  PROVE  /\ Input(o).kind = "complete" /\ Input(o).key = o.key /\ Input(o).cond = o.cond
         /\ Input(o).upload = o.upload /\ Input(o).parts = o.parts
<1>1. Input(o) = completeMultipartUpload(o)
  BY Zenon DEF Input
<1> QED BY <1>1 DEF completeMultipartUpload, Blank

LEMMA DeleteInput ==
  ASSUME NEW o, o.kind = "delete"
  PROVE  /\ Input(o).kind = "delete" /\ Input(o).key = o.key /\ Input(o).cond = o.cond
         /\ Input(o).version = o.version /\ (Input(o).bypass = "true" => o.bypass = "true")
<1> DEFINE bypass == IF bypassGovernanceRetention(o) THEN "true" ELSE ""
<1>1. Input(o) = deleteObject(o)
  BY Zenon DEF Input
<1>2. bypass = "true" => o.bypass = "true"
  BY Zenon DEF bypassGovernanceRetention
<1> HIDE DEF bypass
<1> QED BY Zenon, <1>1, <1>2 DEF deleteObject, Blank, bypass

LEMMA HeadInput ==
  ASSUME NEW o, o.kind = "head"
  PROVE  /\ Input(o).kind = "head" /\ Input(o).key = o.key
         /\ Input(o).cond = applyConditionalHeaders(o.cond) /\ Input(o).version = o.version
<1>1. Input(o) = headObject(o)
  BY Zenon DEF Input
<1> QED BY <1>1 DEF headObject, Blank

LEMMA TagInput ==
  ASSUME NEW o, o.kind \in {"tag", "untag"}
  PROVE  Input(o).kind = "tag" /\ Input(o).key = o.key
<1>1. CASE o.kind = "tag"
  <2>1. Input(o) = putObjectTagging(o)
    BY Zenon, <1>1 DEF Input
  <2> QED BY Zenon, <2>1 DEF putObjectTagging, Blank
<1>2. CASE o.kind = "untag"
  <2>1. Input(o) = deleteObjectTagging(o)
    BY Zenon, <1>2 DEF Input
  <2> QED BY Zenon, <2>1 DEF deleteObjectTagging, Blank
<1> QED BY Zenon, <1>1, <1>2

LEMMA RetentionInput ==
  ASSUME NEW o, o.kind = "retention", o.lock \in Lock
  PROVE  /\ Input(o).kind = "retention" /\ Input(o).key = o.key
         /\ Input(o).lock \in Lock /\ Input(o).lock.mode = o.lock.mode
<1> DEFINE i == putObjectRetention(o)
           lock == [NoLock EXCEPT !.mode = o.lock.mode, !.until = o.lock.until]
<1>1. Input(o) = putObjectRetention(o)
  BY Zenon DEF Input
<1>2. lock \in Lock /\ lock.mode = o.lock.mode
  BY Zenon DEF NoLock, Lock
<1>3. i.kind = "retention" /\ i.key = o.key
  BY Zenon DEF putObjectRetention, Blank
<1>4. i.lock = lock
  BY Zenon DEF putObjectRetention, Blank
<1> HIDE DEF lock, i
<1>5. Input(o) = i
  BY Zenon, <1>1 DEF i
<1> QED BY Zenon, <1>2, <1>3, <1>4, <1>5

LEMMA HoldInput ==
  ASSUME NEW o, o.kind = "hold"
  PROVE  /\ Input(o).kind = "hold" /\ Input(o).key = o.key
         /\ Input(o).lock.hold = o.lock.hold
<1>1. Input(o) = putObjectLegalHold(o)
  BY Zenon DEF Input
<1> QED BY <1>1 DEF putObjectLegalHold, Blank, NoLock

\* With a mapper, what the handlers have encrypted is encrypted under its choice or
\* the bucket's default.
LEMMA KeyForHeld ==
  ASSUME NEW o \in Ops, checkSSE(o), Mapper
  PROVE  KeyFor(o.sse, applySSE(o)) \in HeldKeys
<1>1. o.id \in DOMAIN KeyMap
  BY ObjectsAssumption, Zenon
<1>2. CASE o.sse = "aws:kms"
  BY Zenon, <1>1, <1>2 DEF KeyFor, applySSE, HeldKeys
<1>3. CASE o.sse # "aws:kms"
  <2>1. o.id = "" /\ applySSE(o) = ""
    BY <1>3, Zenon DEF checkSSE, applySSE
  <2> QED BY Zenon, <2>1 DEF KeyFor, HeldKeys
<1> QED BY <1>2, <1>3, Zenon

-----------------------------------------------------------------------------
(* What the backend makes of each call *)

GoodUpload(u) ==
    /\ u \in [kms : {u.kms}, lock : Lock, asked : Lock, parts : {u.parts}]
    /\ SameLock(u.asked, u.lock)
    /\ ~versioned => ~Protects(u.lock)
    /\ Mapper /\ u # NoUpload => u.kms \in HeldKeys

GoodUploads(ups) ==
    /\ ups \in [Requests \cup {Old} -> Range(ups)]
    /\ \A u \in Requests \cup {Old} : GoodUpload(ups[u])

\* The preconditions of o that can be read hold for the bucket as it is.
CondsHold(o) ==
    /\ o.kind \in {"put", "complete", "delete"} => Holds(o.cond, o.key)
    /\ o.kind = "head" => o.cond = Malformed \/ Holds(o.cond, o.key)
    /\ o.kind = "copy" => o.fromCond = Malformed \/ Holds(o.fromCond, o.from)

\* The outcome d of a call that r makes for o.
Outcome(r, o, d) ==
    /\ BucketStep(r, o, d.objects)
    /\ GoodUploads(d.uploads)
    /\ Mapper => d.key \in HeldKeys
    /\ IF d.code = "ok" THEN CondsHold(o) ELSE d.objects = objects

LEMMA DoneFields ==
  ASSUME NEW code, NEW key, NEW objs, NEW ups
  PROVE  /\ Done(code, key, objs, ups).code = code /\ Done(code, key, objs, ups).key = key
         /\ Done(code, key, objs, ups).objects = objs /\ Done(code, key, objs, ups).uploads = ups
  BY Zenon DEF Done

LEMMA RefuseOutcome ==
  ASSUME Bucket, GoodUploads(uploads), NEW r, NEW o, NEW code, code # "ok"
  PROVE  Outcome(r, o, Refuse(code))
<1>1. "" \in HeldKeys
  BY Zenon DEF HeldKeys
<1>2. /\ Refuse(code).code = code /\ Refuse(code).key = ""
      /\ Refuse(code).objects = objects /\ Refuse(code).uploads = uploads
  BY Zenon DEF Refuse, Done
<1> QED BY Zenon, <1>1, <1>2, SameBucket DEF Outcome

\* A write that is not refused puts one new version in front.
LEMMA WriteOutcome ==
  ASSUME Bucket, GoodUploads(uploads), NEW r, NEW o, NEW i, i.key \in Keys,
         NEW id, id[1] = r, NEW data, AsListed(data, o.parts),
         NEW kms, Mapper => kms \in HeldKeys, NEW lock \in Lock, NEW asked \in Lock,
         SameLock(asked, lock),
         NEW ups, GoodUploads(ups), Holds(i.cond, i.key) => CondsHold(o)
  PROVE  Outcome(r, o, Write(i, id, data, kms, lock, asked, ups))
<1> DEFINE v == Version(id, data, kms, lock, asked)
           d == Write(i, id, data, kms, lock, asked, ups)
<1>1. CASE ~Holds(i.cond, i.key)
  <2>1. d = Refuse("PreconditionFailed")
    BY <1>1, Zenon DEF Write
  <2> QED BY Zenon, <2>1, RefuseOutcome
<1>2. CASE Holds(i.cond, i.key) /\ ~Lockable(lock)
  <2>1. d = Refuse("InvalidRequest")
    BY <1>2, Zenon DEF Write
  <2> QED BY Zenon, <2>1, RefuseOutcome
<1>3. CASE Holds(i.cond, i.key) /\ Lockable(lock)
  <2>1. d = Done("ok", kms, Push(i.key, v), ups)
    BY <1>3, Zenon DEF Write
  <2>2. /\ v = [id |-> id, data |-> data, kms |-> kms, lock |-> lock, asked |-> asked, tags |-> <<>>]
        /\ v.id = id /\ v.data = data /\ v.kms = kms /\ v.lock = lock /\ v.asked = asked
        /\ v.tags = <<>>
    BY Zenon DEF Version
  <2> HIDE DEF v
  <2>3. v \in [id : {v.id}, data : {v.data}, kms : {v.kms}, lock : Lock, asked : Lock, tags : {v.tags}]
    BY Zenon, <2>2
  <2>4. GoodVersion(v)
    <3>1. ~versioned => ~Protects(lock)
      BY <1>3, Zenon DEF Lockable
    <3> QED BY Zenon, <2>2, <2>3, <3>1 DEF GoodVersion
  <2>5. Written(v, r, o)
    BY Zenon, <2>2 DEF Written
  <2>6. BucketStep(r, o, Push(i.key, v))
    BY <2>4, <2>5, PushStep, Zenon
  <2>7. d.code = "ok" /\ d.key = kms /\ d.objects = Push(i.key, v) /\ d.uploads = ups
    BY <2>1, DoneFields
  <2> HIDE DEF d
  <2>8. Outcome(r, o, d)
    BY Zenon, <1>3, <2>6, <2>7 DEF Outcome
  <2> QED BY Zenon, <2>8 DEF d
<1> QED BY <1>1, <1>2, <1>3, Zenon

\* The version that CHOOSE takes of those named is one of the key's.
LEMMA NamedVersion ==
  ASSUME Bucket, NEW k \in Keys, NEW version, Named(k, version) # {}
  PROVE  (CHOOSE x \in Named(k, version) : TRUE) \in Named(k, version) \cap Versions(k)
<1>1. Named(k, version) \subseteq Versions(k)
  <2>1. CASE version = <<>>
    <3>1. Named(k, version) = IF Exists(k) THEN {Newest(k)} ELSE {}
      BY <2>1, Zenon DEF Named
    <3>2. ASSUME Exists(k) PROVE Newest(k) \in Versions(k)
      <4>1. objects[k] # <<>>
        BY Zenon, <3>2 DEF Exists, Newest, Marker, Version
      <4>2. Newest(k) = objects[k][1]
        BY <4>1, Zenon DEF Newest
      <4>3. Listing(objects[k])
        BY Zenon DEF Bucket
      <4>4. 1 \in DOMAIN objects[k]
        <5>1. PICK S : objects[k] \in Seq(S)
          BY <4>3, Zenon DEF Listing
        <5> QED BY <4>1, <5>1
      <4> QED BY <4>2, <4>4, Zenon DEF Versions
    <3> QED BY <3>1, <3>2
  <2>2. CASE version # <<>>
    BY <2>2, Zenon DEF Named
  <2> QED BY <2>1, <2>2, Zenon
<1> QED BY <1>1, Zenon

\* Setting an attribute of the version named.
LEMMA SetAttributeOutcome ==
  ASSUME Bucket, GoodUploads(uploads), NEW r, NEW o, NEW i, i.key \in Keys, NEW setting,
         \A v \in Named(i.key, i.version) \cap Versions(i.key) :
            GoodVersion(setting[v]) /\ setting[v].id = v.id /\ setting[v].data = v.data,
         CondsHold(o)
  PROVE  Outcome(r, o, SetAttribute(i, setting))
<1> DEFINE d == SetAttribute(i, setting)
           N == Named(i.key, i.version)
<1>1. CASE N = {}
  <2>1. d = Refuse("NoSuchKey")
    BY <1>1, Zenon DEF SetAttribute
  <2> QED BY Zenon, <2>1, RefuseOutcome
<1>2. CASE N # {}
  <2> DEFINE v == CHOOSE x \in N : TRUE
  <2>1. d = Done("ok", "", Update(i.key, setting[v]), uploads)
    BY <1>2, Zenon DEF SetAttribute
  <2>2. v \in N \cap Versions(i.key)
    BY <1>2, NamedVersion, Zenon
  <2> HIDE DEF v
  <2>3. BucketStep(r, o, Update(i.key, setting[v]))
    <3>1. GoodVersion(setting[v]) /\ setting[v].id = v.id /\ setting[v].data = v.data
      BY <2>2, Zenon
    <3>2. v \in Versions(i.key)
      BY <2>2, Zenon
    <3> QED BY <3>1, <3>2, UpdateStep, Zenon
  <2>4. d.code = "ok" /\ d.key = "" /\ d.objects = Update(i.key, setting[v]) /\ d.uploads = uploads
    <3> HIDE DEF d
    <3> QED BY Zenon, <2>1 DEF Done
  <2>5. "" \in HeldKeys
    BY Zenon DEF HeldKeys
  <2> HIDE DEF d
  <2>6. Outcome(r, o, d)
    BY Zenon, <2>3, <2>4, <2>5 DEF Outcome
  <2> QED BY Zenon, <2>6 DEF d
<1> QED BY <1>1, <1>2, Zenon

LEMMA UploadsExcept ==
  ASSUME GoodUploads(uploads), NEW x \in Requests \cup {Old}, NEW u, GoodUpload(u)
  PROVE  GoodUploads([uploads EXCEPT ![x] = u])
<1> DEFINE U == Requests \cup {Old}
           new == [uploads EXCEPT ![x] = u]
<1>1. uploads = [y \in U |-> uploads[y]] /\ DOMAIN uploads = U
  BY Zenon DEF GoodUploads
<1>2. new = [y \in U |-> IF y = x THEN u ELSE uploads[y]]
  BY Zenon, <1>1
<1> HIDE DEF new, U
<1>3. \A y \in U : new[y] = IF y = x THEN u ELSE uploads[y]
  BY <1>2, Zenon
<1>4. DOMAIN new = U
  BY <1>2, Zenon
<1>5. new \in [U -> Range(new)]
  BY Zenon, <1>2, <1>3, <1>4 DEF Range
<1>6. \A y \in U : GoodUpload(new[y])
  BY <1>3, Zenon DEF GoodUploads, U
<1> QED BY <1>5, <1>6, Zenon DEF GoodUploads, U, new

\* An outcome that leaves the objects alone.
LEMMA UploadOutcome ==
  ASSUME Bucket, NEW r, NEW o, NEW key, Mapper => key \in HeldKeys, NEW ups, GoodUploads(ups),
         CondsHold(o)
  PROVE  Outcome(r, o, Done("ok", key, objects, ups))
<1> DEFINE d == Done("ok", key, objects, ups)
<1>1. d.code = "ok" /\ d.key = key /\ d.objects = objects /\ d.uploads = ups
  BY Zenon DEF Done
<1> HIDE DEF d
<1>2. Outcome(r, o, d)
  BY Zenon, <1>1, SameBucket DEF Outcome
<1> QED BY Zenon, <1>2 DEF d

NewId(r) == <<r, rq[r].effects + 1>>

LEMMA OpFacts ==
  ASSUME NEW o \in Ops, ~Refused(o)
  PROVE  /\ o.key \in Keys /\ o.lock \in Lock /\ o.kind \in Kinds
         /\ checkSSE(o)
         /\ o.kind # "complete" => \A data : AsListed(data, o.parts)
<1>1. /\ o.key \in Keys /\ o.lock \in Lock /\ o.kind \in Kinds
      /\ o.kind # "complete" => o.parts = <<>>
  BY ObjectsAssumption, Zenon
<1> QED BY <1>1, Zenon DEF Refused, AsListed

LEMMA PutOutcome ==
  ASSUME Bucket, GoodUploads(uploads), NEW r, NEW o \in Ops, ~Refused(o), o.kind = "put"
  PROVE  Outcome(r, o, Backend(r, Input(o), o))
<1> DEFINE i == Input(o)
<1>1. /\ i.kind = "put" /\ i.key = o.key /\ i.cond = o.cond
      /\ i.lock = applyObjectLockHeaders(o.lock)
      /\ i.sse = o.sse /\ i.id = applySSE(o)
  BY PutInput, Zenon
<1>2. /\ o.key \in Keys /\ o.lock \in Lock /\ checkSSE(o) /\ AsListed(<<r>>, o.parts)
  BY Zenon, OpFacts
<1> HIDE DEF i
<1>3. Backend(r, i, o) = Write(i, NewId(r), <<r>>, KeyFor(i.sse, i.id), i.lock, o.lock, uploads)
  BY Zenon, <1>1 DEF Backend, NewId
<1>4. Mapper => KeyFor(i.sse, i.id) \in HeldKeys
  BY Zenon, <1>1, <1>2, KeyForHeld
<1>5. Holds(i.cond, i.key) => CondsHold(o)
  BY Zenon, <1>1 DEF CondsHold
<1>6. NewId(r)[1] = r /\ i.key \in Keys /\ i.lock \in Lock /\ SameLock(o.lock, i.lock)
  BY Zenon, <1>1, <1>2, LockHeaders DEF NewId
<1>7. Outcome(r, o, Write(i, NewId(r), <<r>>, KeyFor(i.sse, i.id), i.lock, o.lock, uploads))
  BY <1>2, <1>4, <1>5, <1>6, WriteOutcome, Zenon
<1> QED BY Zenon, <1>3, <1>7 DEF i

LEMMA CopyOutcome ==
  ASSUME Bucket, GoodUploads(uploads), NEW r, NEW o \in Ops, ~Refused(o), o.kind = "copy"
  PROVE  Outcome(r, o, Backend(r, Input(o), o))
<1> DEFINE i == Input(o)
           data == Newest(i.from).data
<1>1. /\ i.kind = "copy" /\ i.key = o.key /\ i.from = o.from
      /\ i.lock = applyObjectLockHeaders(o.lock)
      /\ i.fromCond = applyConditionalHeaders(o.fromCond) /\ i.sse = o.sse /\ i.id = applySSE(o)
  BY CopyInput, Zenon
<1>2. /\ o.key \in Keys /\ o.lock \in Lock /\ checkSSE(o) /\ AsListed(data, o.parts)
  BY Zenon, OpFacts
<1> HIDE DEF i
<1>3. Backend(r, i, o)
        = IF ~Exists(i.from) THEN Refuse("NoSuchKey")
          ELSE IF ~Holds(i.fromCond, i.from) THEN Refuse("PreconditionFailed")
          ELSE Write(i, NewId(r), data, KeyFor(i.sse, i.id), i.lock, o.lock, uploads)
  BY Zenon, <1>1 DEF Backend, NewId
<1>4. CASE ~Exists(i.from)
  BY Zenon, <1>3, <1>4, RefuseOutcome DEF i
<1>5. CASE Exists(i.from) /\ ~Holds(i.fromCond, i.from)
  BY Zenon, <1>3, <1>5, RefuseOutcome DEF i
<1>6. CASE Exists(i.from) /\ Holds(i.fromCond, i.from)
  <2>1. Mapper => KeyFor(i.sse, i.id) \in HeldKeys
    BY Zenon, <1>1, <1>2, KeyForHeld
  <2>2. CondsHold(o)
    BY Zenon, <1>1, <1>6 DEF CondsHold, applyConditionalHeaders
  <2>3. NewId(r)[1] = r /\ i.key \in Keys /\ i.lock \in Lock /\ SameLock(o.lock, i.lock)
    BY Zenon, <1>1, <1>2, LockHeaders DEF NewId
  <2> HIDE DEF data
  <2>4. Outcome(r, o, Write(i, NewId(r), data, KeyFor(i.sse, i.id), i.lock, o.lock, uploads))
    BY <1>2, <2>1, <2>2, <2>3, WriteOutcome, Zenon
  <2> QED BY Zenon, <1>3, <1>6, <2>4 DEF i
<1> QED BY <1>4, <1>5, <1>6, Zenon

LEMMA CreateOutcome ==
  ASSUME Bucket, GoodUploads(uploads), NEW r \in Requests, NEW o \in Ops, ~Refused(o),
         o.kind = "create"
  PROVE  Outcome(r, o, Backend(r, Input(o), o))
<1> DEFINE i == Input(o)
           kms == KeyFor(i.sse, i.id)
           u == [kms |-> kms, lock |-> i.lock, asked |-> o.lock, parts |-> <<>>]
<1>1. /\ i.kind = "create" /\ i.lock = applyObjectLockHeaders(o.lock) /\ i.sse = o.sse /\ i.id = applySSE(o)
  BY CreateInput, Zenon
<1>2. o.lock \in Lock /\ checkSSE(o)
  BY OpFacts, Zenon
<1> HIDE DEF i
<1>3. Backend(r, i, o) = IF ~Lockable(i.lock) THEN Refuse("InvalidRequest")
                         ELSE Done("ok", kms, objects, [uploads EXCEPT ![r] = u])
  BY Zenon, <1>1 DEF Backend
<1>4. Mapper => kms \in HeldKeys
  BY Zenon, <1>1, <1>2, KeyForHeld
<1>5. CondsHold(o)
  BY Zenon DEF CondsHold
<1>6. CASE ~Lockable(i.lock)
  BY Zenon, <1>3, <1>6, RefuseOutcome DEF i
<1>7. CASE Lockable(i.lock)
  <2>1. GoodUpload(u)
    <3>1. i.lock \in Lock /\ SameLock(o.lock, i.lock) /\ (~versioned => ~Protects(i.lock))
      BY Zenon, <1>1, <1>2, <1>7, LockHeaders DEF Lockable
    <3> HIDE DEF kms
    <3> QED BY Zenon, <1>2, <1>4, <3>1 DEF GoodUpload
  <2> HIDE DEF u, kms
  <2>2. GoodUploads([uploads EXCEPT ![r] = u])
    BY Zenon, <2>1, UploadsExcept
  <2>3. Outcome(r, o, Done("ok", kms, objects, [uploads EXCEPT ![r] = u]))
    BY <1>4, <1>5, <2>2, UploadOutcome, Zenon
  <2> QED BY Zenon, <1>3, <1>7, <2>3 DEF i
<1> QED BY <1>6, <1>7, Zenon

\* An upload the backend has open.
LEMMA OpenUpload ==
  ASSUME GoodUploads(uploads), NEW x, x \in DOMAIN uploads /\ uploads[x] # NoUpload
  PROVE  /\ x \in Requests \cup {Old} /\ GoodUpload(uploads[x])
         /\ Mapper => uploads[x].kms \in HeldKeys
<1>1. DOMAIN uploads = Requests \cup {Old}
  BY Zenon DEF GoodUploads
<1>2. x \in Requests \cup {Old} /\ GoodUpload(uploads[x])
  BY <1>1, Zenon DEF GoodUploads
<1> QED BY <1>2, Zenon DEF GoodUpload

LEMMA AbortOutcome ==
  ASSUME Bucket, GoodUploads(uploads), NEW r, NEW o, o.kind = "abort"
  PROVE  Outcome(r, o, Backend(r, Input(o), o))
<1> DEFINE i == Input(o)
           x == i.upload
           open == x \in DOMAIN uploads /\ uploads[x] # NoUpload
<1>1. i.kind = "abort"
  BY UploadInput, Zenon
<1> HIDE DEF i
<1>2. Backend(r, i, o) = IF ~open THEN Refuse("NoSuchUpload")
                         ELSE Done("ok", "", objects, [uploads EXCEPT ![x] = NoUpload])
  BY Zenon, <1>1 DEF Backend
<1>3. CASE ~open
  BY Zenon, <1>2, <1>3, RefuseOutcome DEF i
<1>4. CASE open
  <2>1. GoodUpload(NoUpload)
    BY Zenon DEF GoodUpload, NoUpload, NoLock, Lock, SameLock, Protects
  <2>2. GoodUploads([uploads EXCEPT ![x] = NoUpload])
    BY <1>4, <2>1, OpenUpload, UploadsExcept, Zenon
  <2>3. "" \in HeldKeys /\ CondsHold(o)
    BY Zenon DEF HeldKeys, CondsHold
  <2>4. Outcome(r, o, Done("ok", "", objects, [uploads EXCEPT ![x] = NoUpload]))
    BY <2>2, <2>3, UploadOutcome, Zenon
  <2> QED BY Zenon, <1>2, <1>4, <2>4 DEF i
<1> QED BY <1>3, <1>4, Zenon

LEMMA PartOutcome ==
  ASSUME Bucket, GoodUploads(uploads), NEW r, NEW o, o.kind \in {"part", "partcopy"}
  PROVE  Outcome(r, o, Backend(r, Input(o), o))
<1> DEFINE i == Input(o)
           x == i.upload
           open == x \in DOMAIN uploads /\ uploads[x] # NoUpload
           data == IF i.kind = "part" THEN <<r>> ELSE Newest(i.from).data
           parts == [n \in DOMAIN uploads[x].parts \cup {i.part} |->
                       IF n = i.part THEN data ELSE uploads[x].parts[n]]
           ups == [uploads EXCEPT ![x].parts = parts]
<1>1. i.kind \in {"part", "partcopy"}
  BY Zenon, UploadInput
<1> HIDE DEF i
<1>2. Backend(r, i, o) = IF ~open THEN Refuse("NoSuchUpload")
                         ELSE IF i.kind = "partcopy" /\ ~Exists(i.from) THEN Refuse("NoSuchKey")
                         ELSE Done("ok", uploads[x].kms, objects, ups)
  BY Zenon, <1>1 DEF Backend
<1>3. CASE ~open
  BY Zenon, <1>2, <1>3, RefuseOutcome DEF i
<1>4. CASE open /\ i.kind = "partcopy" /\ ~Exists(i.from)
  BY Zenon, <1>2, <1>4, RefuseOutcome DEF i
<1>5. CASE open /\ ~(i.kind = "partcopy" /\ ~Exists(i.from))
  <2> DEFINE u == [uploads[x] EXCEPT !.parts = parts]
  <2>1. x \in Requests \cup {Old} /\ GoodUpload(uploads[x]) /\ (Mapper => uploads[x].kms \in HeldKeys)
    BY <1>5, OpenUpload, Zenon
  <2>2. ups = [uploads EXCEPT ![x] = u]
    OBVIOUS
  <2>3. GoodUpload(u)
    <3> HIDE DEF parts
    <3>1. uploads[x] \in [kms : {uploads[x].kms}, lock : Lock, asked : Lock, parts : {uploads[x].parts}]
      BY <2>1, Zenon DEF GoodUpload
    <3>2. /\ u \in [kms : {u.kms}, lock : Lock, asked : Lock, parts : {u.parts}]
          /\ u.kms = uploads[x].kms /\ u.lock = uploads[x].lock /\ u.asked = uploads[x].asked
      BY Zenon, <3>1
    <3> QED BY Zenon, <2>1, <3>2 DEF GoodUpload
  <2> HIDE DEF u, ups
  <2>4. GoodUploads(ups)
    BY Zenon, <2>1, <2>2, <2>3, UploadsExcept
  <2>5. CondsHold(o)
    BY Zenon DEF CondsHold
  <2>6. Outcome(r, o, Done("ok", uploads[x].kms, objects, ups))
    BY <2>1, <2>4, <2>5, UploadOutcome, Zenon
  <2> QED BY Zenon, <1>2, <1>5, <2>6 DEF i
<1> QED BY <1>3, <1>4, <1>5, Zenon

\* What a completion writes is what its list names.
LEMMA CompleteOutcome ==
  ASSUME Bucket, GoodUploads(uploads), NEW r, NEW o \in Ops, ~Refused(o), o.kind = "complete"
  PROVE  Outcome(r, o, Backend(r, Input(o), o))
<1> DEFINE i == Input(o)
           x == i.upload
           u == uploads[x]
           open == x \in DOMAIN uploads /\ uploads[x] # NoUpload
           data == Assemble(u, i.parts)
           ups == [uploads EXCEPT ![x] = NoUpload]
<1>1. i.kind = "complete" /\ i.key = o.key /\ i.cond = o.cond /\ i.parts = o.parts
  BY CompleteInput, Zenon
<1>2. o.key \in Keys
  BY OpFacts, Zenon
<1> HIDE DEF i
<1>3. Backend(r, i, o) = IF ~open THEN Refuse("NoSuchUpload")
                         ELSE IF ~PartsThere(u, i.parts) THEN Refuse("InvalidPart")
                         ELSE Write(i, NewId(r), data, u.kms, u.lock, u.asked, ups)
  BY Zenon, <1>1 DEF Backend, NewId
<1>4. CASE ~open
  BY Zenon, <1>3, <1>4, RefuseOutcome DEF i
<1>5. CASE open /\ ~PartsThere(u, i.parts)
  BY Zenon, <1>3, <1>5, RefuseOutcome DEF i
<1>6. CASE open /\ PartsThere(u, i.parts)
  <2>1. AsListed(data, o.parts)
    BY Zenon, <1>1, <1>6 DEF PartsThere, Assemble, AsListed
  <2>2. x \in Requests \cup {Old} /\ GoodUpload(u) /\ (Mapper => u.kms \in HeldKeys)
    BY <1>6, OpenUpload, Zenon
  <2>3. u.lock \in Lock /\ u.asked \in Lock /\ SameLock(u.asked, u.lock)
    <3>1. /\ u \in [kms : {u.kms}, lock : Lock, asked : Lock, parts : {u.parts}]
          /\ SameLock(u.asked, u.lock)
      BY <2>2, Zenon DEF GoodUpload
    <3> HIDE DEF u
    <3> QED BY Zenon, <3>1
  <2>4. GoodUploads(ups)
    <3>1. GoodUpload(NoUpload)
      BY Zenon DEF GoodUpload, NoUpload, NoLock, Lock, SameLock, Protects
    <3> QED BY <2>2, <3>1, UploadsExcept, Zenon
  <2>5. Holds(i.cond, i.key) => CondsHold(o)
    BY Zenon, <1>1 DEF CondsHold
  <2>6. NewId(r)[1] = r /\ i.key \in Keys
    BY Zenon, <1>1, <1>2 DEF NewId
  <2> HIDE DEF data, u, ups
  <2>7. Outcome(r, o, Write(i, NewId(r), data, u.kms, u.lock, u.asked, ups))
    BY <2>1, <2>2, <2>3, <2>4, <2>5, <2>6, WriteOutcome, Zenon
  <2> QED BY Zenon, <1>3, <1>6, <2>7 DEF i
<1> QED BY <1>4, <1>5, <1>6, Zenon

\* Only a delete removes a version, and a locked one only if it says it bypasses.
LEMMA DeleteOutcome ==
  ASSUME Bucket, GoodUploads(uploads), NEW r, NEW o \in Ops, ~Refused(o), o.kind = "delete"
  PROVE  Outcome(r, o, Backend(r, Input(o), o))
<1> DEFINE i == Input(o)
           N == Named(i.key, i.version)
           v == CHOOSE y \in N : TRUE
<1>1. /\ i.kind = "delete" /\ i.key = o.key /\ i.cond = o.cond
      /\ i.bypass = "true" => o.bypass = "true"
  BY DeleteInput, Zenon
<1>2. o.key \in Keys /\ \A data : AsListed(data, o.parts)
  BY Zenon, OpFacts
<1> HIDE DEF i
<1>3. Backend(r, i, o) = BackendDelete(i, NewId(r))
  BY Zenon, <1>1 DEF Backend, NewId
<1>4. BackendDelete(i, NewId(r))
        = IF ~Holds(i.cond, i.key) THEN Refuse("PreconditionFailed")
          ELSE IF versioned /\ i.version = <<>>
          THEN Done("ok", "", Push(i.key, Marker(NewId(r))), uploads)
          ELSE IF \E y \in N : Locked(y, i.bypass) THEN Refuse("AccessDenied")
          ELSE Done("ok", "", IF N = {} THEN objects ELSE Without(i.key, v), uploads)
  BY Zenon DEF BackendDelete
<1>5. "" \in HeldKeys
  BY Zenon DEF HeldKeys
<1>6. ASSUME Holds(i.cond, i.key), NEW objs, BucketStep(r, o, objs)
      PROVE  Outcome(r, o, Done("ok", "", objs, uploads))
  <2> DEFINE d == Done("ok", "", objs, uploads)
  <2>1. d.code = "ok" /\ d.key = "" /\ d.objects = objs /\ d.uploads = uploads
    BY Zenon DEF Done
  <2>2. CondsHold(o)
    BY Zenon, <1>1, <1>6 DEF CondsHold
  <2> HIDE DEF d
  <2>3. Outcome(r, o, d)
    BY Zenon, <1>5, <1>6, <2>1, <2>2 DEF Outcome
  <2> QED BY Zenon, <2>3 DEF d
<1>7. CASE ~Holds(i.cond, i.key)
  BY Zenon, <1>3, <1>4, <1>7, RefuseOutcome DEF i
<1>8. CASE Holds(i.cond, i.key) /\ versioned /\ i.version = <<>>
  <2> DEFINE m == Marker(NewId(r))
  <2>1. GoodVersion(m) /\ Written(m, r, o)
    BY Zenon, <1>2, <1>5 DEF Marker, Version, GoodVersion, Written, NewId, NoLock, Lock, SameLock, Protects
  <2> HIDE DEF m
  <2>2. BucketStep(r, o, Push(i.key, m))
    BY Zenon, <1>1, <1>2, <2>1, PushStep
  <2>3. Outcome(r, o, Done("ok", "", Push(i.key, m), uploads))
    BY <1>6, <1>8, <2>2, Zenon
  <2> QED BY Zenon, <1>3, <1>4, <1>8, <2>3 DEF i, m
<1>9. CASE /\ Holds(i.cond, i.key) /\ ~(versioned /\ i.version = <<>>)
           /\ \E y \in N : Locked(y, i.bypass)
  BY Zenon, <1>3, <1>4, <1>9, RefuseOutcome DEF i
<1>10. CASE /\ Holds(i.cond, i.key) /\ ~(versioned /\ i.version = <<>>)
            /\ ~\E y \in N : Locked(y, i.bypass)
  <2> DEFINE objs == IF N = {} THEN objects ELSE Without(i.key, v)
  <2>1. BucketStep(r, o, objs)
    <3>1. CASE N = {}
      BY <3>1, SameBucket, Zenon
    <3>2. CASE N # {}
      <4>1. v \in N \cap Versions(i.key)
        BY Zenon, <1>1, <1>2, <3>2, NamedVersion
      <4>2. GoodVersion(v) /\ ~Locked(v, i.bypass)
        BY Zenon, <1>1, <1>2, <1>10, <4>1 DEF Bucket
      <4> HIDE DEF v
      <4>3. SameLock(v.asked, v.lock) /\ v.asked.hold \in {"ON", "OFF"}
        BY Zenon, <4>2 DEF GoodVersion, Lock
      <4>4. MayGo(v, o)
        BY Zenon, <1>1, <4>2, <4>3 DEF Locked, MayGo, SameLock, Protects
      <4>5. BucketStep(r, o, Without(i.key, v))
        BY Zenon, <1>1, <1>2, <4>1, <4>4, WithoutStep
      <4> QED BY Zenon, <3>2, <4>5 DEF v
    <3> QED BY <3>1, <3>2, Zenon
  <2> HIDE DEF objs
  <2>2. Outcome(r, o, Done("ok", "", objs, uploads))
    BY <1>6, <1>10, <2>1, Zenon
  <2> QED BY Zenon, <1>3, <1>4, <1>10, <2>2 DEF i, objs
<1> QED BY <1>7, <1>8, <1>9, <1>10, Zenon

LEMMA HeadOutcome ==
  ASSUME Bucket, GoodUploads(uploads), NEW r, NEW o \in Ops, ~Refused(o), o.kind = "head"
  PROVE  Outcome(r, o, Backend(r, Input(o), o))
<1> DEFINE i == Input(o)
           N == Named(i.key, i.version)
           v == CHOOSE y \in N : TRUE
<1>1. i.kind = "head" /\ i.key = o.key /\ i.cond = applyConditionalHeaders(o.cond)
  BY HeadInput, Zenon
<1>2. o.key \in Keys
  BY OpFacts, Zenon
<1> HIDE DEF i
<1>3. Backend(r, i, o) = IF N = {} THEN Refuse("NoSuchKey")
                         ELSE IF ~Holds(i.cond, i.key) THEN Refuse("PreconditionFailed")
                         ELSE Done("ok", v.kms, objects, uploads)
  BY Zenon, <1>1 DEF Backend
<1>4. CASE N = {}
  BY Zenon, <1>3, <1>4, RefuseOutcome DEF i
<1>5. CASE N # {} /\ ~Holds(i.cond, i.key)
  BY Zenon, <1>3, <1>5, RefuseOutcome DEF i
<1>6. CASE N # {} /\ Holds(i.cond, i.key)
  <2>1. v \in Versions(i.key)
    BY <1>1, <1>2, <1>6, NamedVersion, Zenon
  <2> HIDE DEF v
  <2>2. Mapper => v.kms \in HeldKeys
    BY <1>1, <1>2, <2>1, Zenon DEF Bucket, GoodVersion
  <2>3. CondsHold(o)
    BY Zenon, <1>1, <1>6 DEF CondsHold, applyConditionalHeaders
  <2>4. Outcome(r, o, Done("ok", v.kms, objects, uploads))
    BY <2>2, <2>3, UploadOutcome, Zenon
  <2> QED BY Zenon, <1>3, <1>6, <2>4 DEF i, v
<1> QED BY <1>4, <1>5, <1>6, Zenon

LEMMA TagOutcome ==
  ASSUME Bucket, GoodUploads(uploads), NEW r, NEW o \in Ops, ~Refused(o), o.kind \in {"tag", "untag"}
  PROVE  Outcome(r, o, Backend(r, Input(o), o))
<1> DEFINE i == Input(o)
           N == Named(i.key, i.version)
           setting == [v \in N |-> [v EXCEPT !.tags = i.tags]]
<1>1. i.kind = "tag" /\ i.key = o.key
  BY TagInput
<1>2. o.key \in Keys
  BY OpFacts, Zenon
<1> HIDE DEF i
<1>3. Backend(r, i, o) = SetAttribute(i, setting)
  BY Zenon, <1>1 DEF Backend
<1>4. ASSUME NEW v \in N \cap Versions(i.key)
      PROVE  GoodVersion(setting[v]) /\ setting[v].id = v.id /\ setting[v].data = v.data
  <2> DEFINE w == [v EXCEPT !.tags = i.tags]
  <2>1. setting[v] = w
    BY Zenon
  <2>2. GoodVersion(v)
    BY <1>1, <1>2, Zenon DEF Bucket
  <2>3. v \in [id : {v.id}, data : {v.data}, kms : {v.kms}, lock : Lock, asked : Lock, tags : {v.tags}]
    BY <2>2, Zenon DEF GoodVersion
  <2>4. /\ w \in [id : {w.id}, data : {w.data}, kms : {w.kms}, lock : Lock, asked : Lock, tags : {w.tags}]
        /\ w.id = v.id /\ w.data = v.data /\ w.kms = v.kms /\ w.lock = v.lock /\ w.asked = v.asked
    BY Zenon, <2>3
  <2> HIDE DEF w, setting
  <2>5. GoodVersion(w)
    BY Zenon, <2>2, <2>4 DEF GoodVersion
  <2> QED BY Zenon, <2>1, <2>4, <2>5
<1>5. CondsHold(o)
  BY Zenon DEF CondsHold
<1> HIDE DEF setting
<1>6. Outcome(r, o, SetAttribute(i, setting))
  BY Zenon, <1>1, <1>2, <1>4, <1>5, SetAttributeOutcome
<1> QED BY Zenon, <1>3, <1>6 DEF i

\* A change of lock as was asked.
LEMMA Relocked ==
  ASSUME versioned, NEW v, GoodVersion(v), NEW w, NEW lock \in Lock, NEW asked \in Lock,
         SameLock(asked, lock), w = [v EXCEPT !.lock = lock, !.asked = asked]
  PROVE  GoodVersion(w) /\ w.id = v.id /\ w.data = v.data
<1>1. v \in [id : {v.id}, data : {v.data}, kms : {v.kms}, lock : Lock, asked : Lock, tags : {v.tags}]
  BY Zenon DEF GoodVersion
<1>2. /\ w \in [id : {w.id}, data : {w.data}, kms : {w.kms}, lock : Lock, asked : Lock, tags : {w.tags}]
      /\ w.id = v.id /\ w.data = v.data /\ w.kms = v.kms /\ w.lock = lock /\ w.asked = asked
  BY Zenon, <1>1
<1> QED BY Zenon, <1>2 DEF GoodVersion

LEMMA RetentionOutcome ==
  ASSUME Bucket, GoodUploads(uploads), NEW r, NEW o \in Ops, ~Refused(o), o.kind = "retention"
  PROVE  Outcome(r, o, Backend(r, Input(o), o))
<1> DEFINE i == Input(o)
           N == Named(i.key, i.version)
           kept == \E v \in N : v.lock.mode # "none" /\ i.lock.mode = "none" /\ i.bypass # "true"
           lock(v) == [i.lock EXCEPT !.hold = v.lock.hold]
           asked(v) == [o.lock EXCEPT !.hold = v.asked.hold]
           setting == [v \in N |-> [v EXCEPT !.lock = lock(v), !.asked = asked(v)]]
<1>1. o.key \in Keys /\ o.lock \in Lock
  BY OpFacts, Zenon
<1>2. i.kind = "retention" /\ i.key = o.key /\ i.lock \in Lock /\ i.lock.mode = o.lock.mode
  BY <1>1, RetentionInput, Zenon
<1> HIDE DEF i
<1>3. Backend(r, i, o) = BackendRetention(i, o)
  BY Zenon, <1>2 DEF Backend
<1>4. BackendRetention(i, o) = IF ~versioned \/ ~Lockable(i.lock) THEN Refuse("InvalidRequest")
                               ELSE IF kept THEN Refuse("AccessDenied")
                               ELSE SetAttribute(i, setting)
  BY Zenon DEF BackendRetention
<1>5. CASE ~versioned \/ ~Lockable(i.lock)
  BY Zenon, <1>3, <1>4, <1>5, RefuseOutcome DEF i
<1>6. CASE versioned /\ Lockable(i.lock) /\ kept
  BY Zenon, <1>3, <1>4, <1>6, RefuseOutcome DEF i
<1>7. CASE versioned /\ Lockable(i.lock) /\ ~kept
  <2>1. ASSUME NEW v \in N \cap Versions(i.key)
        PROVE  GoodVersion(setting[v]) /\ setting[v].id = v.id /\ setting[v].data = v.data
    <3> DEFINE w == [v EXCEPT !.lock = lock(v), !.asked = asked(v)]
    <3>1. setting[v] = w
      BY Zenon
    <3>2. GoodVersion(v)
      BY <1>1, <1>2, Zenon DEF Bucket
    <3>3. SameLock(v.asked, v.lock) /\ v.lock \in Lock /\ v.asked \in Lock
      BY Zenon, <3>2 DEF GoodVersion
    <3>4. lock(v) \in Lock /\ asked(v) \in Lock /\ SameLock(asked(v), lock(v))
      BY Zenon, <1>1, <1>2, <3>3 DEF Lock, SameLock
    <3>5. w = [v EXCEPT !.lock = lock(v), !.asked = asked(v)]
      BY Zenon
    <3> HIDE DEF w, lock, asked, setting
    <3>6. GoodVersion(w) /\ w.id = v.id /\ w.data = v.data
      BY <1>7, <3>2, <3>4, <3>5, Relocked, Zenon
    <3> QED BY Zenon, <3>1, <3>6
  <2>2. CondsHold(o)
    BY Zenon DEF CondsHold
  <2> HIDE DEF setting
  <2>3. Outcome(r, o, SetAttribute(i, setting))
    BY Zenon, <1>1, <1>2, <2>1, <2>2, SetAttributeOutcome
  <2> QED BY Zenon, <1>3, <1>4, <1>7, <2>3 DEF i
<1> QED BY <1>5, <1>6, <1>7, Zenon

LEMMA HoldOutcome ==
  ASSUME Bucket, GoodUploads(uploads), NEW r, NEW o \in Ops, ~Refused(o), o.kind = "hold"
  PROVE  Outcome(r, o, Backend(r, Input(o), o))
<1> DEFINE i == Input(o)
           N == Named(i.key, i.version)
           setting == [v \in N |-> [v EXCEPT !.lock.hold = i.lock.hold, !.asked.hold = o.lock.hold]]
<1>1. i.kind = "hold" /\ i.key = o.key /\ i.lock.hold = o.lock.hold
  BY HoldInput, Zenon
<1>2. o.key \in Keys /\ o.lock \in Lock
  BY OpFacts, Zenon
<1> HIDE DEF i
<1>3. Backend(r, i, o) = BackendHold(i, o)
  BY Zenon, <1>1 DEF Backend
<1>4. BackendHold(i, o) = IF ~versioned THEN Refuse("InvalidRequest") ELSE SetAttribute(i, setting)
  BY Zenon DEF BackendHold
<1>5. CASE ~versioned
  BY Zenon, <1>3, <1>4, <1>5, RefuseOutcome DEF i
<1>6. CASE versioned
  <2>1. ASSUME NEW v \in N \cap Versions(i.key)
        PROVE  GoodVersion(setting[v]) /\ setting[v].id = v.id /\ setting[v].data = v.data
    <3> DEFINE w == [v EXCEPT !.lock.hold = i.lock.hold, !.asked.hold = o.lock.hold]
               lock == [v.lock EXCEPT !.hold = o.lock.hold]
               asked == [v.asked EXCEPT !.hold = o.lock.hold]
    <3>1. setting[v] = w
      BY Zenon
    <3>2. GoodVersion(v)
      BY <1>1, <1>2, Zenon DEF Bucket
    <3>3. SameLock(v.asked, v.lock) /\ v.lock \in Lock /\ v.asked \in Lock
      BY Zenon, <3>2 DEF GoodVersion
    <3>4. w = [v EXCEPT !.lock = lock, !.asked = asked]
      BY Zenon, <1>1
    <3>5. lock \in Lock /\ asked \in Lock /\ SameLock(asked, lock)
      BY Zenon, <1>2, <3>3 DEF Lock, SameLock
    <3> HIDE DEF w, lock, asked, setting
    <3>6. GoodVersion(w) /\ w.id = v.id /\ w.data = v.data
      BY <1>6, <3>2, <3>4, <3>5, Relocked, Zenon
    <3> QED BY Zenon, <3>1, <3>6
  <2>2. CondsHold(o)
    BY Zenon DEF CondsHold
  <2> HIDE DEF setting
  <2>3. Outcome(r, o, SetAttribute(i, setting))
    BY Zenon, <1>1, <1>2, <2>1, <2>2, SetAttributeOutcome
  <2> QED BY Zenon, <1>3, <1>4, <1>6, <2>3 DEF i
<1> QED BY <1>5, <1>6, Zenon

\* Any call that a handler makes.
LEMMA CallOutcome ==
  ASSUME Bucket, GoodUploads(uploads), NEW r \in Requests, NEW o \in Ops, ~Refused(o)
  PROVE  Outcome(r, o, Backend(r, Input(o), o))
<1>1. o.kind \in Kinds
  BY OpFacts, Zenon
<1>2. CASE o.kind = "put"
  BY <1>2, PutOutcome, Zenon
<1>3. CASE o.kind = "copy"
  BY <1>3, CopyOutcome, Zenon
<1>4. CASE o.kind = "create"
  BY <1>4, CreateOutcome, Zenon
<1>5. CASE o.kind \in {"part", "partcopy"}
  BY <1>5, PartOutcome
<1>6. CASE o.kind = "complete"
  BY <1>6, CompleteOutcome, Zenon
<1>7. CASE o.kind = "abort"
  BY <1>7, AbortOutcome, Zenon
<1>8. CASE o.kind = "delete"
  BY <1>8, DeleteOutcome, Zenon
<1>9. CASE o.kind = "head"
  BY <1>9, HeadOutcome, Zenon
<1>10. CASE o.kind \in {"tag", "untag"}
  BY <1>10, TagOutcome, Zenon
<1>11. CASE o.kind = "retention"
  BY <1>11, RetentionOutcome, Zenon
<1>12. CASE o.kind = "hold"
  BY <1>12, HoldOutcome, Zenon
<1> QED BY <1>1, <1>2, <1>3, <1>4, <1>5, <1>6, <1>7, <1>8, <1>9, <1>10, <1>11, <1>12, Zenon DEF Kinds
-----------------------------------------------------------------------------
(* The requests *)

\* The fields of a request.
Shaped(q) ==
    q \in [pc : {"idle", "calling", "returned", "answered", "done"}, op : {q.op}, in : {q.in},
           out : [code : {q.out.code}, key : {q.out.key}], sdk : 0 .. MaxSDK, effects : Nat,
           lost : {"yes", "no"}]

\* What a call is made for was not refused, and is what its input says.
Handled(q) ==
    /\ q.pc \in {"calling", "returned", "answered"} => q.op \in Ops
    /\ q.pc \in {"calling", "returned"} => ~Refused(q.op) /\ q.in = Input(q.op)

\* The call in hand, if any, has taken effect.
Succeeded(q) == q.pc \in {"returned", "answered"} /\ q.out.code = "ok"

\* Each effect but the last cost a fault, of f in all; one that the client
\* has not heard of and will not hear of is a lost answer.
Counted(q, f) ==
    /\ q.effects <= IF Succeeded(q) THEN f + 1 ELSE f
    /\ Succeeded(q) => q.effects > 0
    /\ q.lost = "no" /\ ~Succeeded(q) => q.effects = 0

\* A key id is named for the client before it is shown.
Shown(q) ==
    Mapper => /\ q.pc = "returned" => q.out.key \in HeldKeys
              /\ q.pc = "answered" => q.out.key \notin DOMAIN KeyNames

GoodRequest(q, f) == Shaped(q) /\ Handled(q) /\ Counted(q, f) /\ Shown(q)

\* A version names the request that wrote it, and is as that one lists it.
Authored ==
    \A k \in Keys : \A v \in Versions(k) : \A r \in Requests :
        v.id[1] = r => rq[r].pc # "idle" /\ AsListed(v.data, rq[r].op.parts)

IInv ==
    /\ Bucket
    /\ GoodUploads(uploads)
    /\ rq \in [Requests -> Range(rq)]
    /\ faults \in 0 .. MaxFaults
    /\ \A r \in Requests : GoodRequest(rq[r], faults)
    /\ Authored

LEMMA Limits == MaxSDK \in Nat /\ MaxFaults \in Nat /\ {0, 1} \subseteq 0 .. MaxSDK
<1>1. MaxSDK \in Nat \ {0} /\ MaxFaults \in Nat
  BY ObjectsAssumption, Zenon
<1> QED BY <1>1

\* More faults account for as many effects.
LEMMA MoreFaults ==
  ASSUME NEW q, NEW f \in Nat, NEW g \in Nat, f <= g, GoodRequest(q, f)
  PROVE  GoodRequest(q, g)
<1>1. q.effects \in Nat
  BY Zenon DEF GoodRequest, Shaped
<1>2. Counted(q, g)
  BY <1>1 DEF GoodRequest, Counted
<1> QED BY <1>2, Zenon DEF GoodRequest

LEMMA SameState ==
  ASSUME Bucket, GoodUploads(uploads), versioned' = versioned, objects' = objects, uploads' = uploads
  PROVE  Bucket' /\ GoodUploads(uploads)' /\ \A k : Versions(k)' = Versions(k)
<1>1. \A k : Versions(k)' = Versions(k)
  BY Zenon DEF Versions
<1>2. \A v : GoodVersion(v)' <=> GoodVersion(v)
  BY Zenon DEF GoodVersion
<1>3. \A u : GoodUpload(u)' <=> GoodUpload(u)
  BY Zenon DEF GoodUpload
<1>4. Bucket'
  <2>1. versioned' \in BOOLEAN /\ objects' \in [Keys -> Range(objects')]
    BY Zenon DEF Bucket
  <2>2. ASSUME NEW k \in Keys
        PROVE  /\ Listing(objects'[k]) /\ (~versioned' => Len(objects'[k]) <= 1)
               /\ \A v \in Versions(k)' : GoodVersion(v)'
    BY Zenon, <1>1, <1>2 DEF Bucket
  <2>3. \A k \in Keys : Listing(objects[k])'
    BY <2>2, Zenon DEF Listing
  <2>4. Range(objects)' = Range(objects')
    BY Zenon DEF Range
  <2> QED BY <2>1, <2>2, <2>3, <2>4, Zenon DEF Bucket
<1>5. GoodUploads(uploads)'
  <2>1. uploads' \in [Requests \cup {Old} -> Range(uploads')]
    BY Zenon DEF GoodUploads
  <2>2. \A u \in Requests \cup {Old} : GoodUpload(uploads[u])'
    BY Zenon DEF GoodUploads, GoodUpload
  <2>3. Range(uploads)' = Range(uploads')
    BY Zenon DEF Range
  <2> QED BY <2>1, <2>2, <2>3, Zenon DEF GoodUploads
<1> QED BY <1>1, <1>4, <1>5, Zenon

LEMMA StepFacts ==
  ASSUME IInv, NEW r \in Requests, NEW q, Step(r, q)
  PROVE  /\ rq' \in [Requests -> Range(rq')]
         /\ \A x \in Requests : rq'[x] = IF x = r THEN q ELSE rq[x]
<1>1. rq' = [rq EXCEPT ![r] = q] /\ rq \in [Requests -> Range(rq)]
  BY Zenon DEF IInv, Step
<1>2. DOMAIN rq' = Requests /\ \A x \in Requests : rq'[x] = IF x = r THEN q ELSE rq[x]
  BY Zenon, <1>1
<1>3. rq' = [x \in Requests |-> rq'[x]]
  BY Zenon, <1>1
<1>4. \A x \in Requests : rq'[x] \in Range(rq')
  BY <1>2, Zenon DEF Range
<1> QED BY Zenon, <1>2, <1>3, <1>4

\* The client and the gateway at work, which leaves the bucket alone.
Aside(r, q) ==
    /\ Step(r, q)
    /\ GoodRequest(q, faults')
    /\ q.pc \notin {"idle", "returned"}
    /\ rq[r].pc = "idle" \/ q.op.parts = rq[r].op.parts
    /\ faults' \in faults .. MaxFaults
    /\ UNCHANGED <<versioned, objects, uploads>>

LEMMA AsideKeeps ==
  ASSUME IInv, NEW r \in Requests, NEW q, Aside(r, q)
  PROVE  IInv' /\ \A x \in Requests : ~TakesEffect(x)
<1>1. /\ rq' \in [Requests -> Range(rq')]
      /\ \A x \in Requests : rq'[x] = IF x = r THEN q ELSE rq[x]
  BY Zenon, StepFacts DEF Aside
<1>2. /\ versioned' = versioned /\ objects' = objects /\ uploads' = uploads
      /\ faults' \in faults .. MaxFaults
  BY Zenon DEF Aside
<1>3. faults \in Nat /\ faults' \in 0 .. MaxFaults /\ faults' \in Nat /\ faults <= faults'
  <2>1. faults \in 0 .. MaxFaults
    BY Zenon DEF IInv
  <2> QED BY <1>2, <2>1, Limits
<1>4. Bucket' /\ GoodUploads(uploads)' /\ \A k : Versions(k)' = Versions(k)
  BY Zenon, <1>2, SameState DEF IInv
<1>5. ASSUME NEW x \in Requests PROVE GoodRequest(rq[x], faults)'
  <2>1. CASE x = r
    BY <1>1, <2>1, Zenon DEF Aside, GoodRequest, Shaped, Handled, Counted, Succeeded, Shown
  <2>2. CASE x # r
    <3>1. GoodRequest(rq[x], faults')
      BY Zenon, <1>3, MoreFaults DEF IInv
    <3>2. rq'[x] = rq[x]
      BY Zenon, <1>1, <2>2
    <3> QED BY <3>1, <3>2, Zenon DEF GoodRequest, Shaped, Handled, Counted, Succeeded, Shown
  <2> QED BY <2>1, <2>2, Zenon
<1>6. Authored'
  <2> SUFFICES ASSUME NEW k \in Keys, NEW v \in Versions(k), NEW x \in Requests, v.id[1] = x
               PROVE  rq'[x].pc # "idle" /\ AsListed(v.data, rq'[x].op.parts)
    BY Zenon, <1>4 DEF Authored, AsListed
  <2>1. rq[x].pc # "idle" /\ AsListed(v.data, rq[x].op.parts)
    BY Zenon DEF IInv, Authored
  <2>2. CASE x = r
    <3>1. rq'[x] = q /\ q.pc # "idle" /\ q.op.parts = rq[x].op.parts
      BY Zenon, <1>1, <2>1, <2>2 DEF Aside
    <3> QED BY Zenon, <2>1, <3>1
  <2>3. CASE x # r
    BY Zenon, <1>1, <2>1, <2>3
  <2> QED BY <2>2, <2>3, Zenon
<1>7. ASSUME NEW x \in Requests PROVE ~TakesEffect(x)
  BY Zenon, <1>1 DEF Aside, TakesEffect
<1> QED BY <1>1, <1>3, <1>4, <1>5, <1>6, <1>7, Zenon DEF IInv

\* A request is a record: what it says of itself after a change of some fields.
LEMMA ShapedFields ==
  ASSUME NEW q, Shaped(q)
  PROVE  /\ q.pc \in {"idle", "calling", "returned", "answered", "done"} /\ q.sdk \in 0 .. MaxSDK
         /\ q.effects \in Nat /\ q.lost \in {"yes", "no"}
  BY Zenon DEF Shaped

LEMMA ShapedRefused ==
  ASSUME NEW q, Shaped(q), NEW new, new = [q EXCEPT !.pc = "answered", !.out.code = "refused"]
  PROVE  /\ Shaped(new) /\ new.pc = "answered" /\ new.op = q.op
         /\ new.out.code = "refused" /\ new.out.key = q.out.key
         /\ new.effects = q.effects /\ new.lost = q.lost
  BY Zenon DEF Shaped

LEMMA FreshShaped ==
  Shaped(Fresh) /\ Fresh.out.key = "" /\ Fresh.effects = 0 /\ Fresh.lost = "no"
<1>1. 0 \in 0 .. MaxSDK
  BY Limits, Zenon
<1>2. /\ Fresh.pc = "idle" /\ Fresh.sdk = 0 /\ Fresh.effects = 0 /\ Fresh.lost = "no"
      /\ Fresh.out = NoOut
  BY Zenon DEF Fresh
<1>3. NoOut.key = "" /\ NoOut \in [code : {NoOut.code}, key : {NoOut.key}]
  BY Zenon DEF NoOut
<1>4. NoOut \in [code : {Fresh.out.code}, key : {Fresh.out.key}]
  BY Zenon, <1>2, <1>3
<1> HIDE DEF NoOut
<1>5. Shaped(Fresh)
  BY Zenon, <1>1, <1>4 DEF Fresh, Shaped
<1> QED BY Zenon, <1>2, <1>3, <1>5

LEMMA HandledRequest ==
  ASSUME NEW p, Shaped(p), p.op \in Ops, NEW f \in Nat, p.effects <= f,
         p.lost = "no" => p.effects = 0, p.out.key = ""
  PROVE  /\ GoodRequest(Handle(p), f)
         /\ Handle(p).pc \notin {"idle", "returned"} /\ Handle(p).op = p.op
<1>1. CASE Refused(p.op)
  <2> DEFINE q == Handle(p)
  <2>1. q = [p EXCEPT !.pc = "answered", !.out.code = "refused"]
    BY Zenon, <1>1 DEF Handle
  <2> HIDE DEF q
  <2>2. /\ Shaped(q) /\ q.pc = "answered" /\ q.op = p.op /\ q.out.code = "refused"
        /\ q.out.key = p.out.key /\ q.effects = p.effects /\ q.lost = p.lost
    BY <2>1, ShapedRefused, Zenon
  <2>3. Handled(q) /\ Counted(q, f) /\ Shown(q)
    BY Zenon, <2>2, ObjectsAssumption DEF Handled, Counted, Succeeded, Shown
  <2> QED BY Zenon, <2>2, <2>3 DEF GoodRequest, q
<1>2. CASE ~Refused(p.op)
  <2> DEFINE i == Input(p.op)
             q == Handle(p)
  <2> HIDE DEF i
  <2>1. q = [p EXCEPT !.pc = "calling", !.in = i, !.sdk = 1]
    BY Zenon, <1>2 DEF Handle, i
  <2> HIDE DEF q
  <2>2. /\ Shaped(q) /\ q.pc = "calling" /\ q.op = p.op /\ q.in = i /\ q.effects = p.effects
        /\ q.lost = p.lost
    <3>1. 1 \in 0 .. MaxSDK
      BY Limits, Zenon
    <3> QED BY Zenon, <2>1, <3>1 DEF Shaped
  <2>3. Handled(q) /\ Counted(q, f) /\ Shown(q)
    BY Zenon, <1>2, <2>2 DEF Handled, Counted, Succeeded, Shown, i
  <2> QED BY Zenon, <2>2, <2>3 DEF GoodRequest, q
<1> QED BY <1>1, <1>2, Zenon
LEMMA SendAside ==
  ASSUME IInv, NEW r \in Requests, NEW o \in Ops, Send(r, o)
  PROVE  \E q : Aside(r, q)
<1> DEFINE p == [Fresh EXCEPT !.op = o]
<1>1. Shaped(p) /\ p.op = o /\ p.effects = 0 /\ p.out.key = ""
  BY Zenon, FreshShaped DEF Shaped
<1>2. faults \in 0 .. MaxFaults /\ MaxFaults \in Nat
  BY Limits, Zenon DEF IInv
<1>3. faults' = faults /\ faults' \in Nat /\ faults' \in faults .. MaxFaults
  BY <1>2 DEF Send
<1> HIDE DEF p
<1>4. GoodRequest(Handle(p), faults') /\ Handle(p).pc \notin {"idle", "returned"}
  <2>1. p.op \in Ops /\ p.effects <= faults' /\ (p.lost = "no" => p.effects = 0)
    <3>1. faults' \in Nat
      BY <1>3, Zenon
    <3>2. 0 <= faults'
      BY <3>1
    <3> QED BY Zenon, <1>1, <3>2
  <2> QED BY <1>1, <1>3, <2>1, HandledRequest, Zenon
<1>5. Aside(r, Handle(p))
  BY Zenon, <1>3, <1>4 DEF Aside, Send, p
<1> QED BY <1>5, Zenon

LEMMA ResendAside ==
  ASSUME IInv, NEW r \in Requests, Resend(r)
  PROVE  \E q : Aside(r, q)
<1> DEFINE lost == IF rq[r].out.code = "error" THEN rq[r].lost ELSE "yes"
           n == rq[r].effects
           o == rq[r].op
           p == [Fresh EXCEPT !.op = o, !.effects = n, !.lost = lost]
<1>1. GoodRequest(rq[r], faults) /\ rq[r].pc = "answered"
  BY Zenon DEF IInv, Resend
<1>2. o \in Ops /\ n \in Nat /\ lost \in {"yes", "no"}
  BY Zenon, <1>1 DEF GoodRequest, Shaped, Handled
<1>3. faults \in Nat /\ faults' \in Nat /\ faults' \in faults .. MaxFaults
      /\ (faults' = faults \/ faults' = faults + 1) /\ (rq[r].out.code # "error" => faults' = faults + 1)
  <2>1. faults \in 0 .. MaxFaults /\ MaxFaults \in Nat
    BY Limits, Zenon DEF IInv
  <2>2. IF rq[r].out.code = "error" THEN faults' = faults ELSE faults < MaxFaults /\ faults' = faults + 1
    BY Zenon DEF Resend, Fault
  <2> QED BY <2>1, <2>2
<1>4. n <= faults' /\ (lost = "no" => n = 0)
  <2>1. Counted(rq[r], faults)
    BY <1>1, Zenon DEF GoodRequest
  <2> QED BY <1>1, <1>2, <1>3, <2>1 DEF Counted, Succeeded
<1>5. Step(r, Handle(p)) /\ versioned' = versioned /\ objects' = objects /\ uploads' = uploads
  BY Zenon DEF Resend
<1> HIDE DEF lost, n, o
<1>6. Shaped(p) /\ p.op = o /\ p.effects = n /\ p.lost = lost /\ p.out.key = ""
  <2>1. p = [Fresh EXCEPT !.op = o, !.effects = n, !.lost = lost]
    OBVIOUS
  <2>2. n \in Nat /\ lost \in {"yes", "no"}
    BY Zenon, <1>2
  <2> HIDE DEF p
  <2> QED BY Zenon, <2>1, <2>2, FreshShaped DEF Shaped
<1> HIDE DEF p
<1>7. /\ GoodRequest(Handle(p), faults') /\ Handle(p).pc \notin {"idle", "returned"}
      /\ Handle(p).op = p.op
  BY Zenon, <1>2, <1>3, <1>4, <1>6, HandledRequest
<1>8. Aside(r, Handle(p))
  BY Zenon, <1>3, <1>5, <1>6, <1>7 DEF Aside, o
<1> QED BY <1>8, Zenon

LEMMA FinishAside ==
  ASSUME IInv, NEW r \in Requests, Finish(r)
  PROVE  \E q : Aside(r, q)
<1> DEFINE parts == rq[r].op.parts
           q == [Fresh EXCEPT !.pc = "done", !.op.parts = parts]
<1>1. Step(r, q) /\ faults' = faults /\ UNCHANGED <<versioned, objects, uploads>>
  BY Zenon DEF Finish
<1>2. faults \in Nat /\ faults \in faults .. MaxFaults
  <2>1. faults \in 0 .. MaxFaults /\ MaxFaults \in Nat
    BY Limits, Zenon DEF IInv
  <2> QED BY <2>1
<1> HIDE DEF parts
<1>3. Shaped(q) /\ q.pc = "done" /\ q.effects = 0 /\ q.op.parts = parts
  <2> DEFINE op == [Fresh.op EXCEPT !.parts = parts]
  <2>1. op.parts = parts
    BY Zenon DEF Fresh, Blank
  <2>2. q = [Fresh EXCEPT !.pc = "done", !.op = op]
    OBVIOUS
  <2> HIDE DEF op, q
  <2>3. Shaped(q) /\ q.pc = "done" /\ q.effects = 0 /\ q.op = op
    BY Zenon, <2>2, FreshShaped DEF Shaped
  <2> QED BY Zenon, <2>1, <2>3
<1> HIDE DEF q
<1>4. GoodRequest(q, faults)
  BY <1>2, <1>3 DEF GoodRequest, Handled, Counted, Succeeded, Shown
<1>5. Aside(r, q)
  BY Zenon, <1>1, <1>2, <1>3, <1>4 DEF Aside, parts
<1> QED BY <1>5, Zenon
\* A failed call, which the SDK repeats or the handler reports, costs a fault.
LEMMA FailAside ==
  ASSUME IInv, NEW r \in Requests, rq[r].pc \in {"calling", "returned"}, Fault,
         NEW lost \in {"yes", "no"}, rq[r].pc = "returned" => lost = "yes",
         rq[r].pc = "calling" => lost = rq[r].lost,
         Fail(r, lost), UNCHANGED <<versioned, objects, uploads>>
  PROVE  \E q : Aside(r, q)
<1> DEFINE p == rq[r]
           repeat == Retryable(p.in) /\ p.sdk < MaxSDK
           out == [code |-> "error", key |-> ""]
           again == [p EXCEPT !.pc = "calling", !.sdk = @ + 1, !.out = NoOut, !.lost = lost]
           failed == [p EXCEPT !.pc = "answered", !.sdk = 0, !.out = out, !.lost = lost]
           q == IF repeat THEN again ELSE failed
<1>1. GoodRequest(p, faults)
  BY Zenon DEF IInv
<1>2. Step(r, q)
  BY Zenon DEF Fail
<1>3. /\ faults \in Nat /\ faults' = faults + 1 /\ faults' \in Nat /\ faults' \in faults .. MaxFaults
  <2>1. faults \in 0 .. MaxFaults /\ MaxFaults \in Nat
    BY Limits, Zenon DEF IInv
  <2> QED BY <2>1 DEF Fault
<1>4. p.effects <= faults' /\ (lost = "no" => p.effects = 0)
  <2>1. Counted(p, faults) /\ p.effects \in Nat
    BY Zenon, <1>1 DEF GoodRequest, Shaped
  <2> HIDE DEF p
  <2>2. p.effects <= faults'
    BY <1>3, <2>1 DEF Counted
  <2>3. lost = "no" => p.lost = "no" /\ p.pc = "calling"
    BY Zenon DEF p
  <2>4. lost = "no" => p.effects = 0
    BY Zenon, <2>1, <2>3 DEF Counted, Succeeded
  <2> QED BY Zenon, <2>2, <2>4
<1>5. p.pc \in {"calling", "returned"} /\ p.op \in Ops /\ ~Refused(p.op) /\ p.in = Input(p.op)
  BY Zenon, <1>1 DEF GoodRequest, Handled
<1>6. Shaped(p)
  BY <1>1, Zenon DEF GoodRequest
<1> HIDE DEF p
<1>7. CASE repeat
  <2>1. q = again
    BY Zenon, <1>7
  <2>2. p.sdk + 1 \in 0 .. MaxSDK
    BY <1>6, <1>7, Limits DEF Shaped
  <2>3. NoOut \in [code : {NoOut.code}, key : {NoOut.key}]
    BY Zenon DEF NoOut
  <2>4. /\ Shaped(again) /\ again.pc = "calling" /\ again.op = p.op /\ again.in = p.in
        /\ again.effects = p.effects /\ again.lost = lost
    BY Zenon, <1>6, <2>2, <2>3 DEF Shaped
  <2> HIDE DEF again, q
  <2>5. Handled(again) /\ Counted(again, faults') /\ Shown(again)
    BY Zenon, <1>4, <1>5, <2>4 DEF Handled, Counted, Succeeded, Shown
  <2>6. Aside(r, q)
    BY Zenon, <1>2, <1>3, <2>1, <2>4, <2>5 DEF Aside, GoodRequest, p
  <2> QED BY <2>6, Zenon
<1>8. CASE ~repeat
  <2>1. q = failed
    BY Zenon, <1>8
  <2>2. out.code = "error" /\ out.key = "" /\ out \in [code : {out.code}, key : {out.key}]
    OBVIOUS
  <2>3. 0 \in 0 .. MaxSDK
    BY Limits
  <2> HIDE DEF out
  <2>4. /\ Shaped(failed) /\ failed.pc = "answered" /\ failed.op = p.op /\ failed.out = out
        /\ failed.effects = p.effects /\ failed.lost = lost
    BY Zenon, <1>6, <2>2, <2>3 DEF Shaped
  <2> HIDE DEF failed, q
  <2>5. Handled(failed) /\ Counted(failed, faults') /\ Shown(failed)
    BY Zenon, <1>4, <1>5, <2>2, <2>4, ObjectsAssumption DEF Handled, Counted, Succeeded, Shown
  <2>6. Aside(r, q)
    BY Zenon, <1>2, <1>3, <2>1, <2>4, <2>5 DEF Aside, GoodRequest, p
  <2> QED BY <2>6, Zenon
<1> QED BY <1>7, <1>8, Zenon

\* The client is shown the mapper's name for the key.
LEMMA RespondAside ==
  ASSUME IInv, NEW r \in Requests, Respond(r)
  PROVE  \E q : Aside(r, q)
<1> DEFINE p == rq[r]
           key == clientKMSKeyID(p.out.key)
           q == [p EXCEPT !.pc = "answered", !.sdk = 0, !.out.key = key]
<1>1. GoodRequest(p, faults) /\ p.pc = "returned"
  BY Zenon DEF IInv, Respond
<1>2. Step(r, q) /\ faults' = faults /\ UNCHANGED <<versioned, objects, uploads>>
  BY Zenon DEF Respond
<1>3. faults' \in faults .. MaxFaults
  <2>1. faults \in 0 .. MaxFaults /\ MaxFaults \in Nat
    BY Limits, Zenon DEF IInv
  <2> QED BY <1>2, <2>1
<1> HIDE DEF p
<1>4. Mapper => key \notin DOMAIN KeyNames
  <2> SUFFICES ASSUME Mapper PROVE key \notin DOMAIN KeyNames
    BY Zenon
  <2>1. p.out.key \in HeldKeys
    BY <1>1, Zenon DEF GoodRequest, Shown
  <2>2. /\ "" \notin DOMAIN KeyNames /\ DefaultKey \in DOMAIN KeyNames
        /\ \A id \in DOMAIN KeyMap : KeyMap[id] \in DOMAIN KeyNames \cup {""}
        /\ \A id \in DOMAIN KeyNames : KeyNames[id] \notin DOMAIN KeyNames
    BY ObjectsAssumption, Zenon
  <2>3. p.out.key = "" \/ p.out.key \in DOMAIN KeyNames
    BY Zenon, <2>1, <2>2 DEF HeldKeys
  <2> QED BY Zenon, <2>2, <2>3 DEF clientKMSKeyID
<1> HIDE DEF key
<1>5. /\ Shaped(q) /\ q.pc = "answered" /\ q.op = p.op /\ q.out.code = p.out.code /\ q.out.key = key
      /\ q.effects = p.effects /\ q.lost = p.lost
  <2>1. Shaped(p)
    BY <1>1, Zenon DEF GoodRequest
  <2>2. 0 \in 0 .. MaxSDK
    BY Limits
  <2> QED BY Zenon, <2>1, <2>2 DEF Shaped
<1> HIDE DEF q
<1>6. Handled(q) /\ Counted(q, faults) /\ Shown(q)
  BY Zenon, <1>1, <1>4, <1>5 DEF GoodRequest, Handled, Counted, Succeeded, Shown
<1>7. Aside(r, q)
  BY Zenon, <1>2, <1>3, <1>5, <1>6 DEF Aside, GoodRequest, p
<1> QED BY <1>7, Zenon

\* Every step but the backend's leaves the bucket alone.
LEMMA EveryStep ==
  ASSUME IInv, NEW r \in Requests,
         (\E o \in Ops : Send(r, o)) \/ CallFails(r) \/ AnswerLost(r) \/ Respond(r) \/ Finish(r) \/ Resend(r)
  PROVE  \E q : Aside(r, q)
<1>1. CASE \E o \in Ops : Send(r, o)
  BY <1>1, SendAside, Zenon
<1>2. CASE CallFails(r)
  <2>1. rq[r].lost \in {"yes", "no"}
    BY Zenon DEF IInv, GoodRequest, Shaped
  <2> QED BY Zenon, <1>2, <2>1, FailAside DEF CallFails
<1>3. CASE AnswerLost(r)
  BY Zenon, <1>3, FailAside DEF AnswerLost
<1>4. CASE Respond(r)
  BY <1>4, RespondAside, Zenon
<1>5. CASE Finish(r)
  BY <1>5, FinishAside, Zenon
<1>6. CASE Resend(r)
  BY <1>6, ResendAside, Zenon
<1> QED BY <1>1, <1>2, <1>3, <1>4, <1>5, <1>6, Zenon

\* The backend's step: what it makes of the bucket, and who is told.
LEMMA CallFacts ==
  ASSUME IInv, NEW r \in Requests, Call(r)
  PROVE  LET p == rq[r]
             d == Backend(r, Input(p.op), p.op)
             new == rq'[r]
         IN  /\ Outcome(r, p.op, d) /\ objects' = d.objects /\ uploads' = d.uploads
             /\ versioned' = versioned /\ faults' = faults
             /\ Shaped(new) /\ Handled(new) /\ new.op = p.op /\ new.pc = "returned"
             /\ new.out.code = d.code /\ new.out.key = d.key /\ new.lost = p.lost
             /\ new.effects = IF d.code = "ok" THEN p.effects + 1 ELSE p.effects
             /\ \A x \in Requests : x # r => rq'[x] = rq[x]
             /\ rq' \in [Requests -> Range(rq')]
<1> DEFINE p == rq[r]
           d == Backend(r, Input(p.op), p.op)
           new == rq'[r]
           n == IF d.code = "ok" THEN p.effects + 1 ELSE p.effects
           out == [code |-> d.code, key |-> d.key]
           q == [p EXCEPT !.pc = "returned", !.out = out, !.effects = n]
<1>1. GoodRequest(p, faults) /\ p.pc = "calling"
  BY Zenon DEF IInv, Call
<1>2. p.op \in Ops /\ ~Refused(p.op) /\ p.in = Input(p.op) /\ Shaped(p)
  BY Zenon, <1>1 DEF GoodRequest, Handled
<1>3. Outcome(r, p.op, d)
  BY <1>2, CallOutcome, Zenon DEF IInv
<1>4. /\ objects' = d.objects /\ uploads' = d.uploads /\ versioned' = versioned /\ faults' = faults
      /\ Step(r, q)
  <2> DEFINE e == Backend(r, p.in, p.op)
  <2>1. /\ objects' = e.objects /\ uploads' = e.uploads /\ versioned' = versioned /\ faults' = faults
        /\ Step(r, [p EXCEPT !.pc = "returned", !.out = [code |-> e.code, key |-> e.key],
                             !.effects = IF e.code = "ok" THEN @ + 1 ELSE @])
    BY Zenon DEF Call
  <2> QED BY Zenon, <1>2, <2>1
<1> HIDE DEF d, q
<1>5. /\ rq' \in [Requests -> Range(rq')]
      /\ \A x \in Requests : rq'[x] = IF x = r THEN q ELSE rq[x]
  BY <1>4, StepFacts, Zenon
<1>6. new = q /\ \A x \in Requests : x # r => rq'[x] = rq[x]
  BY Zenon, <1>5
<1>7. /\ Shaped(q) /\ q.pc = "returned" /\ q.op = p.op /\ q.in = p.in /\ q.out.code = d.code
      /\ q.out.key = d.key /\ q.lost = p.lost /\ q.effects = n
  <2>1. out.code = d.code /\ out.key = d.key /\ out \in [code : {out.code}, key : {out.key}]
    OBVIOUS
  <2>2. n \in Nat
    BY <1>2 DEF Shaped
  <2>3. q = [p EXCEPT !.pc = "returned", !.out = out, !.effects = n]
    BY Zenon DEF q
  <2> HIDE DEF out, n, p
  <2>4. /\ Shaped(q) /\ q.pc = "returned" /\ q.op = p.op /\ q.in = p.in /\ q.out = out
        /\ q.lost = p.lost /\ q.effects = n
    BY Zenon, <1>2, <2>1, <2>2, <2>3 DEF Shaped
  <2> QED BY Zenon, <2>1, <2>4
<1> HIDE DEF n
<1>8. Handled(q)
  <2> HIDE DEF p
  <2> QED BY Zenon, <1>2, <1>7 DEF Handled
<1>9. /\ Outcome(r, p.op, d) /\ objects' = d.objects /\ uploads' = d.uploads
      /\ versioned' = versioned /\ faults' = faults
      /\ Shaped(new) /\ Handled(new) /\ new.op = p.op /\ new.pc = "returned"
      /\ new.out.code = d.code /\ new.out.key = d.key /\ new.lost = p.lost
      /\ new.effects = n
      /\ \A x \in Requests : x # r => rq'[x] = rq[x]
      /\ rq' \in [Requests -> Range(rq')]
  <2> HIDE DEF p, new
  <2> QED BY Zenon, <1>3, <1>4, <1>5, <1>6, <1>7, <1>8
<1> QED BY Zenon, <1>9 DEF d, n

LEMMA CallKeeps ==
  ASSUME IInv, NEW r \in Requests, Call(r)
  PROVE  IInv'
<1> DEFINE p == rq[r]
           d == Backend(r, Input(p.op), p.op)
           new == rq'[r]
<1>1. /\ Outcome(r, p.op, d) /\ objects' = d.objects /\ uploads' = d.uploads
      /\ versioned' = versioned /\ faults' = faults
      /\ Shaped(new) /\ Handled(new) /\ new.op = p.op /\ new.pc = "returned"
      /\ new.out.code = d.code /\ new.out.key = d.key /\ new.lost = p.lost
      /\ new.effects = IF d.code = "ok" THEN p.effects + 1 ELSE p.effects
      /\ \A x \in Requests : x # r => rq'[x] = rq[x]
      /\ rq' \in [Requests -> Range(rq')]
  BY Zenon, CallFacts
<1> HIDE DEF d
<1>2. BucketStep(r, p.op, objects') /\ GoodUploads(uploads')
  BY Zenon, <1>1 DEF Outcome
<1>3. \A v : GoodVersion(v)' <=> GoodVersion(v)
  BY Zenon, <1>1 DEF GoodVersion
<1>4. \A k : Versions(k)' = Range(objects'[k])
  BY Zenon DEF Versions, Range
<1>5. Bucket'
  <2>1. versioned' \in BOOLEAN /\ objects' \in [Keys -> Range(objects')]
    BY <1>1, <1>2, Zenon DEF IInv, Bucket, BucketStep
  <2>2. ASSUME NEW k \in Keys
        PROVE  /\ Listing(objects'[k]) /\ (~versioned' => Len(objects'[k]) <= 1)
               /\ \A v \in Versions(k)' : GoodVersion(v)'
    <3>1. KeyStep(r, p.op, k, objects'[k])
      BY <1>2, Zenon DEF BucketStep
    <3>2. /\ Listing(objects'[k]) /\ (~versioned => Len(objects'[k]) <= 1)
          /\ \A v \in Range(objects'[k]) : GoodVersion(v)
      BY <3>1, Zenon DEF KeyStep
    <3> QED BY Zenon, <1>1, <1>3, <1>4, <3>2
  <2>3. \A k \in Keys : Listing(objects[k])'
    BY <2>2, Zenon DEF Listing
  <2>4. Range(objects)' = Range(objects')
    BY Zenon DEF Range
  <2> QED BY <2>1, <2>2, <2>3, <2>4, Zenon DEF Bucket
<1>6. GoodUploads(uploads)'
  <2>1. uploads' \in [Requests \cup {Old} -> Range(uploads')]
    BY <1>2, Zenon DEF GoodUploads
  <2>2. \A u \in Requests \cup {Old} : GoodUpload(uploads'[u])
    BY <1>2, Zenon DEF GoodUploads
  <2>3. \A u : GoodUpload(u)' <=> GoodUpload(u)
    BY Zenon, <1>1 DEF GoodUpload
  <2>4. \A u \in Requests \cup {Old} : GoodUpload(uploads[u])'
    BY Zenon, <1>1, <2>2 DEF GoodUpload
  <2>5. Range(uploads)' = Range(uploads')
    BY Zenon DEF Range
  <2> QED BY <2>1, <2>4, <2>5, Zenon DEF GoodUploads
<1>7. GoodRequest(new, faults)
  <2>1. GoodRequest(p, faults) /\ p.pc = "calling" /\ faults \in Nat /\ p.effects \in Nat
    <3>1. GoodRequest(p, faults) /\ p.pc = "calling" /\ faults \in 0 .. MaxFaults
      BY Zenon DEF IInv, Call
    <3>2. p.effects \in Nat
      BY Zenon, <3>1 DEF GoodRequest, Shaped
    <3> QED BY <3>1, <3>2
  <2>2. Counted(p, faults) /\ (Mapper => d.key \in HeldKeys)
    BY <1>1, <2>1, Zenon DEF GoodRequest, Outcome
  <2> HIDE DEF p, new
  <2>3. p.effects <= faults /\ (p.lost = "no" => p.effects = 0)
    BY Zenon, <2>1, <2>2 DEF Counted, Succeeded
  <2>4. Counted(new, faults)
    <3>1. /\ new.pc = "returned" /\ new.out.code = d.code /\ new.lost = p.lost
          /\ new.effects = IF d.code = "ok" THEN p.effects + 1 ELSE p.effects
      BY <1>1, Zenon
    <3> QED BY <2>1, <2>3, <3>1 DEF Counted, Succeeded
  <2>5. Shown(new)
    BY Zenon, <1>1, <2>2 DEF Shown
  <2> QED BY <1>1, <2>4, <2>5, Zenon DEF GoodRequest
<1>8. ASSUME NEW x \in Requests PROVE GoodRequest(rq[x], faults)'
  <2>1. GoodRequest(rq'[x], faults')
    <3>1. CASE x = r
      BY Zenon, <1>1, <1>7, <3>1
    <3>2. CASE x # r
      <4>1. rq'[x] = rq[x] /\ faults' = faults /\ GoodRequest(rq[x], faults)
        BY <1>1, <3>2, Zenon DEF IInv
      <4> QED BY Zenon, <4>1
    <3> QED BY <3>1, <3>2, Zenon
  <2> QED BY <2>1, Zenon DEF GoodRequest, Shaped, Handled, Counted, Succeeded, Shown
<1>9. Authored'
  <2> SUFFICES ASSUME NEW k \in Keys, NEW w \in Range(objects'[k]), NEW x \in Requests, w.id[1] = x
               PROVE  rq'[x].pc # "idle" /\ AsListed(w.data, rq'[x].op.parts)
    BY Zenon, <1>4 DEF Authored, AsListed
  <2>1. Written(w, r, p.op) \/ \E v \in Versions(k) : w.id = v.id /\ w.data = v.data
    BY <1>2, Zenon DEF BucketStep, KeyStep
  <2>2. CASE Written(w, r, p.op)
    <3>1. x = r /\ AsListed(w.data, p.op.parts)
      BY Zenon, <2>2 DEF Written
    <3> QED BY Zenon, <1>1, <3>1
  <2>3. CASE \E v \in Versions(k) : w.id = v.id /\ w.data = v.data
    <3>1. rq[x].pc # "idle" /\ AsListed(w.data, rq[x].op.parts)
      BY <2>3, Zenon DEF IInv, Authored
    <3>2. CASE x = r
      BY Zenon, <1>1, <3>1, <3>2
    <3>3. CASE x # r
      BY Zenon, <1>1, <3>1, <3>3
    <3> QED BY <3>2, <3>3, Zenon
  <2> QED BY <2>1, <2>2, <2>3, Zenon
<1>10. faults' \in 0 .. MaxFaults /\ rq' \in [Requests -> Range(rq')] /\ Range(rq)' = Range(rq')
  BY Zenon, <1>1 DEF IInv, Range
<1> QED BY <1>5, <1>6, <1>8, <1>9, <1>10, Zenon DEF IInv
LEMMA InitHolds == ASSUME Init PROVE IInv
<1> DEFINE lock == IF versioned THEN Retained ELSE NoLock
           first(k) == Version(<<Old, 1>>, <<Old, k>>, DefaultKey, lock, lock)
           open == [kms |-> DefaultKey, lock |-> lock, asked |-> lock,
                    parts |-> <<<<Old, "1">>, <<Old, "2">>>>]
<1>1. /\ versioned \in BOOLEAN /\ objects = [k \in Keys |-> <<first(k)>>]
      /\ uploads = [u \in Requests \cup {Old} |-> IF u # Old THEN NoUpload ELSE open]
      /\ rq = [r \in Requests |-> Fresh] /\ faults = 0
  BY Zenon DEF Init
<1>2. /\ lock \in Lock /\ SameLock(lock, lock) /\ (~versioned => ~Protects(lock))
      /\ DefaultKey \in HeldKeys
  BY Zenon, <1>1 DEF NoLock, Retained, Lock, HeldKeys, SameLock, Protects
<1>3. ASSUME NEW k \in Keys
      PROVE  /\ GoodVersion(first(k)) /\ first(k).id[1] = Old /\ Listing(objects[k])
             /\ Versions(k) = {first(k)} /\ Len(objects[k]) <= 1
  <2>1. GoodVersion(first(k)) /\ first(k).id[1] = Old
    <3> HIDE DEF lock
    <3> QED BY Zenon, <1>2 DEF Version, GoodVersion
  <2> HIDE DEF first
  <2>2. objects[k] = <<first(k)>>
    BY Zenon, <1>1
  <2>3. objects[k] \in Seq({first(k)}) /\ Len(objects[k]) <= 1 /\ Versions(k) = {first(k)}
    BY <2>2 DEF Versions
  <2> QED BY <2>1, <2>3, Zenon DEF Listing
<1>4. Bucket
  <2> HIDE DEF first
  <2>1. objects \in [Keys -> Range(objects)]
    BY Zenon, <1>1 DEF Range
  <2> QED BY Zenon, <1>1, <1>3, <2>1 DEF Bucket
<1>5. GoodUploads(uploads)
  <2>1. GoodUpload(NoUpload)
    BY Zenon DEF GoodUpload, NoUpload, NoLock, Lock, SameLock, Protects
  <2>2. GoodUpload(open)
    <3> HIDE DEF lock
    <3> QED BY Zenon, <1>2 DEF GoodUpload
  <2> HIDE DEF open
  <2>3. uploads \in [Requests \cup {Old} -> Range(uploads)]
    BY Zenon, <1>1 DEF Range
  <2>4. \A u \in Requests \cup {Old} : uploads[u] = IF u # Old THEN NoUpload ELSE open
    BY Zenon, <1>1
  <2> QED BY Zenon, <2>1, <2>2, <2>3, <2>4 DEF GoodUploads
<1>6. /\ rq \in [Requests -> Range(rq)] /\ faults \in 0 .. MaxFaults
      /\ \A r \in Requests : rq[r] = Fresh
  BY <1>1, Limits DEF Range
<1>7. GoodRequest(Fresh, faults)
  <2>1. Fresh.pc = "idle" /\ Shaped(Fresh) /\ Fresh.effects = 0
    BY Zenon, FreshShaped DEF Fresh
  <2>2. faults = 0
    BY <1>1, Zenon
  <2>3. Handled(Fresh) /\ Counted(Fresh, faults) /\ Shown(Fresh)
    BY <2>1, <2>2 DEF Handled, Counted, Succeeded, Shown
  <2> QED BY <2>1, <2>3, Zenon DEF GoodRequest
<1>8. Authored
  BY Zenon, <1>3, ObjectsAssumption DEF Authored
<1> QED BY Zenon, <1>4, <1>5, <1>6, <1>7, <1>8 DEF IInv

LEMMA Stutters ==
  ASSUME IInv, UNCHANGED vars
  PROVE  /\ IInv' /\ (\A x \in Requests : ~TakesEffect(x))
         /\ \A k \in Keys : Versions(k)' = Versions(k)
<1>1. /\ versioned' = versioned /\ objects' = objects /\ uploads' = uploads /\ rq' = rq
      /\ faults' = faults
  BY Zenon DEF vars
<1>2. Bucket' /\ GoodUploads(uploads)' /\ \A k : Versions(k)' = Versions(k)
  BY Zenon, <1>1, SameState DEF IInv
<1>3. ASSUME NEW x \in Requests PROVE GoodRequest(rq[x], faults)'
  BY <1>1, Zenon DEF IInv, GoodRequest, Shaped, Handled, Counted, Succeeded, Shown
<1>4. Authored'
  BY <1>1, <1>2 DEF IInv, Authored, AsListed
<1>5. faults' \in 0 .. MaxFaults /\ rq' \in [Requests -> Range(rq')] /\ Range(rq)' = Range(rq')
  BY Zenon, <1>1 DEF IInv, Range
<1>6. \A x \in Requests : ~TakesEffect(x)
  BY Zenon, <1>1 DEF TakesEffect
<1> QED BY <1>2, <1>3, <1>4, <1>5, <1>6, Zenon DEF IInv

\* A step is the backend carrying out a call, or takes no effect and changes no object.
LEMMA StepCases ==
  ASSUME IInv, [Next]_vars
  PROVE  \/ \E r \in Requests : Call(r)
         \/ /\ IInv' /\ (\A x \in Requests : ~TakesEffect(x))
            /\ \A k \in Keys : Versions(k)' = Versions(k)
<1>1. CASE UNCHANGED vars
  BY <1>1, Stutters, Zenon
<1>2. CASE Next
  <2>1. PICK r \in Requests : \/ \E o \in Ops : Send(r, o)
                              \/ Call(r) \/ CallFails(r) \/ AnswerLost(r)
                              \/ Respond(r) \/ Finish(r) \/ Resend(r)
    BY <1>2, Zenon DEF Next
  <2>2. CASE ~Call(r)
    <3>1. PICK q : Aside(r, q)
      BY <2>1, <2>2, EveryStep, Zenon
    <3>2. objects' = objects
      BY Zenon, <3>1 DEF Aside
    <3>3. \A k \in Keys : Versions(k)' = Versions(k)
      BY Zenon, <3>2 DEF Versions
    <3> QED BY <3>1, <3>3, AsideKeeps, Zenon
  <2> QED BY <2>2, Zenon
<1> QED BY <1>1, <1>2, Zenon

\* The invariant holds whatever clients ask, in whatever order calls are made,
\* repeated or lost.
THEOREM Inductive == Spec => []IInv
<1>1. Init => IInv
  BY InitHolds, Zenon
<1>2. IInv /\ [Next]_vars => IInv'
  BY StepCases, CallKeeps, Zenon
<1> QED BY <1>1, <1>2, PTL DEF Spec

\* Types hold, the SDK makes a call at most MaxSDK times, a request takes effect
\* at most once more than there were faults, and an unversioned bucket keeps one
\* version of a key.
THEOREM TypeCorrect == Spec => []TypeOK
<1>1. IInv => TypeOK
  <2> SUFFICES ASSUME IInv PROVE TypeOK
    BY Zenon
  <2>1. /\ versioned \in BOOLEAN
        /\ \A k \in Keys : \A v \in Versions(k) :
             v \in [id : {v.id}, data : {v.data}, kms : {v.kms}, lock : Lock, asked : Lock, tags : {v.tags}]
        /\ ~versioned => \A k \in Keys : Len(objects[k]) <= 1
    BY Zenon DEF IInv, Bucket, GoodVersion
  <2>2. \A u \in Requests \cup {Old} :
          uploads[u] \in [kms : {uploads[u].kms}, lock : Lock, asked : Lock, parts : {uploads[u].parts}]
    BY Zenon DEF IInv, GoodUploads, GoodUpload
  <2>3. faults \in 0 .. MaxFaults
    BY Zenon DEF IInv
  <2>4. ASSUME NEW r \in Requests
        PROVE  rq[r] \in [pc : {"idle", "calling", "returned", "answered", "done"}, op : {rq[r].op},
                          in : {rq[r].in}, out : [code : {rq[r].out.code}, key : {rq[r].out.key}],
                          sdk : 0 .. MaxSDK, effects : 0 .. MaxFaults + 1, lost : {"yes", "no"}]
    <3> DEFINE q == rq[r]
    <3>1. Shaped(q) /\ Counted(q, faults)
      BY Zenon DEF IInv, GoodRequest
    <3> HIDE DEF q
    <3>2. q.effects \in Nat
      BY Zenon, <3>1 DEF Shaped
    <3>3. q.effects \in 0 .. MaxFaults + 1
      BY <2>3, <3>1, <3>2, Limits DEF Counted
    <3>4. q \in [pc : {"idle", "calling", "returned", "answered", "done"}, op : {q.op},
                 in : {q.in}, out : [code : {q.out.code}, key : {q.out.key}],
                 sdk : 0 .. MaxSDK, effects : 0 .. MaxFaults + 1, lost : {"yes", "no"}]
      BY Zenon, <3>1, <3>3 DEF Shaped
    <3> QED BY Zenon, <3>4 DEF q
  <2> QED BY <2>1, <2>2, <2>3, <2>4, Zenon DEF TypeOK
<1> QED BY <1>1, Inductive, PTL

\* An object made by completing an upload consists of the parts its client listed,
\* whatever is uploaded, completed or repeated meanwhile (completeMultipartUpload).
THEOREM CompletesAsListed == Spec => []CompletedIsListed
<1>1. IInv => CompletedIsListed
  BY Zenon DEF IInv, Authored, AsListed, CompletedIsListed
<1> QED BY <1>1, Inductive, PTL

\* Success means that the operation took effect, and a refusal that it did not,
\* unless an earlier answer was lost (the handlers' answers, FromSDKError).
THEOREM TellsTheTruth == Spec => []AnswersTruthful
<1>1. IInv => AnswersTruthful
  <2> SUFFICES ASSUME IInv, NEW r \in Requests, rq[r].pc = "answered"
               PROVE  /\ rq[r].out.code = "ok" => rq[r].effects > 0
                      /\ rq[r].out.code \notin {"ok", "error"} /\ rq[r].lost = "no"
                           => rq[r].effects = 0
    BY Zenon DEF AnswersTruthful
  <2>1. Counted(rq[r], faults)
    BY Zenon DEF IInv, GoodRequest
  <2> QED BY Zenon, <2>1 DEF Counted, Succeeded
<1> QED BY <1>1, Inductive, PTL

\* With a mapper, no client is shown a key id of the backend's, and nothing is
\* encrypted under another key (applySSE, clientKMSKeyID).
THEOREM HidesKeys == Spec => []KeysHidden
<1>1. IInv => KeysHidden
  <2> SUFFICES ASSUME IInv, Mapper
               PROVE  /\ \A r \in Requests : rq[r].pc = "answered" => rq[r].out.key \notin DOMAIN KeyNames
                      /\ \A k \in Keys : \A v \in Versions(k) : v.kms \in HeldKeys
    BY Zenon DEF KeysHidden, HeldKeys
  <2>1. \A r \in Requests : rq[r].pc = "answered" => rq[r].out.key \notin DOMAIN KeyNames
    BY Zenon DEF IInv, GoodRequest, Shown
  <2>2. \A k \in Keys : \A v \in Versions(k) : v.kms \in HeldKeys
    BY Zenon DEF IInv, Bucket, GoodVersion
  <2> QED BY <2>1, <2>2, Zenon
<1> QED BY <1>1, Inductive, PTL

\* An operation that comes with a precondition takes effect only on a bucket in
\* which it holds, however late its call is made or repeated (putObject,
\* completeMultipartUpload, deleteObject); a read or a copy may also have come with
\* a date that cannot be read, which is dropped (headObject, copyObject).
THEOREM KeepsConditions == Spec => ConditionsHold
<1> DEFINE P(r) == TakesEffect(r) =>
             LET o == rq[r].op IN
             /\ o.kind \in {"put", "complete", "delete"} => Holds(o.cond, o.key)
             /\ o.kind = "head" => o.cond = Malformed \/ Holds(o.cond, o.key)
             /\ o.kind = "copy" => o.fromCond = Malformed \/ Holds(o.fromCond, o.from)
<1>1. IInv /\ [Next]_vars => \A r \in Requests : P(r)
  <2> SUFFICES ASSUME IInv, [Next]_vars, NEW r \in Requests, TakesEffect(r)
               PROVE  CondsHold(rq[r].op)
    BY Zenon DEF CondsHold
  <2>1. PICK x \in Requests : Call(x)
    BY StepCases, Zenon
  <2>2. r = x
    <3>1. CASE r # x
      <4>1. rq'[r] = rq[r]
        BY Zenon, <2>1, <3>1, CallFacts
      <4> QED BY Zenon, <4>1 DEF TakesEffect
    <3> QED BY <3>1, Zenon
  <2> DEFINE d == Backend(r, Input(rq[r].op), rq[r].op)
  <2>3. Outcome(r, rq[r].op, d) /\ rq'[r].out.code = d.code
    BY Zenon, <2>1, <2>2, CallFacts
  <2> HIDE DEF d
  <2> QED BY Zenon, <2>3 DEF TakesEffect, Outcome
<1>2. IInv /\ [Next]_vars => [\A r \in Requests : P(r)]_vars
  BY <1>1, Zenon
<1> QED BY <1>2, Inductive, PTL DEF Spec, ConditionsHold

\* A version whose writers asked for retention or a legal hold goes only by a delete
\* that says "true" to bypassing governance retention, and never under a hold
\* (applyObjectLockHeaders, bypassGovernanceRetention).
THEOREM KeepsLocked == Spec => LockedStays
<1> DEFINE P(k, v) == Protects(v.asked) /\ (\A w \in Versions(k)' : w.id # v.id) =>
             /\ v.asked.hold = "OFF"
             /\ \E r \in Requests : TakesEffect(r) /\ rq[r].op.kind = "delete" /\ rq[r].op.bypass = "true"
<1>1. IInv /\ [Next]_vars => \A k \in Keys : \A v \in Versions(k) : P(k, v)
  <2> SUFFICES ASSUME IInv, [Next]_vars, NEW k \in Keys, NEW v \in Versions(k),
                      Protects(v.asked), \A w \in Versions(k)' : w.id # v.id
               PROVE  /\ v.asked.hold = "OFF"
                      /\ \E r \in Requests :
                           TakesEffect(r) /\ rq[r].op.kind = "delete" /\ rq[r].op.bypass = "true"
    BY Zenon
  <2>1. PICK r \in Requests : Call(r)
    BY StepCases, Zenon
  <2> DEFINE d == Backend(r, Input(rq[r].op), rq[r].op)
  <2>2. /\ Outcome(r, rq[r].op, d) /\ objects' = d.objects
        /\ rq'[r].out.code = d.code /\ rq'[r].pc = "returned" /\ rq[r].pc = "calling"
    BY Zenon, <2>1, CallFacts DEF Call
  <2> HIDE DEF d
  <2>3. \A w \in Range(objects'[k]) : w.id # v.id
    BY Zenon DEF Versions, Range
  <2>4. MayGo(v, rq[r].op)
    <3>1. KeyStep(r, rq[r].op, k, objects'[k])
      BY Zenon, <2>2 DEF Outcome, BucketStep
    <3> QED BY <2>3, <3>1, Zenon DEF KeyStep
  <2>5. d.code = "ok"
    <3>1. CASE d.code # "ok"
      <4>1. objects' = objects
        BY Zenon, <2>2, <3>1 DEF Outcome
      <4>2. v \in Range(objects'[k])
        BY Zenon, <4>1 DEF Versions, Range
      <4> QED BY <2>3, <4>2, Zenon
    <3> QED BY <3>1, Zenon
  <2>6. TakesEffect(r)
    BY Zenon, <2>2, <2>5 DEF TakesEffect
  <2> QED BY <2>4, <2>6, Zenon DEF MayGo
<1>2. IInv /\ [Next]_vars => [\A k \in Keys : \A v \in Versions(k) : P(k, v)]_vars
  BY <1>1, Zenon
<1> QED BY <1>2, Inductive, PTL DEF Spec, LockedStays
=============================================================================
