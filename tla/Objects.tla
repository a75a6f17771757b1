------------------------------- MODULE Objects -------------------------------
(***************************************************************************)
(* The object operations of s3gw (proxy.go, multipart.go, copy.go,         *)
(* objectlock.go, tagging.go, sse.go) as calls on one backend bucket: each *)
(* handler turns a request into the backend's input, and the answer back.  *)
(* Requests run concurrently; a call may fail before or after it took      *)
(* effect, the SDK repeats one that has no body to stream, and a client    *)
(* repeats a request it has no answer to.                                  *)
(*                                                                         *)
(* The backend is external.  Content is the request whose body it is, or   *)
(* the sequence of its parts' contents, and an ETag is that content: a     *)
(* body arrives whole or the call fails (RequestBody).  A bucket holds a   *)
(* sequence of versions per key, newest first, of which an unversioned one *)
(* keeps at most one.                                                      *)
(***************************************************************************)
EXTENDS Integers, Sequences, FiniteSets

CONSTANTS Requests,    \* requests clients make, each naming the body it carries
          Ops,         \* what they may ask
          Keys,
          Old,         \* the writer of what was there before
          Mapper,      \* whether a KMSKeyMapper is installed
          KeyMap,      \* KMSKeyMapper.ToBackend, of client key ids ("" is none)
          KeyNames,    \* KMSKeyMapper.ToClient, of backend key ids
          DefaultKey,  \* the key of the bucket's default encryption
          MaxSDK,      \* times the SDK makes a call
          MaxActive,   \* requests in flight at once
          MaxFaults    \* calls that fail and answers that are lost, in all

VARIABLES versioned,   \* the bucket keeps versions
          objects,     \* the versions of each key
          uploads,     \* open multipart uploads, by the request that made them
          rq,          \* each request, in the client and in the gateway
          faults       \* what has failed or was lost so far

vars == <<versioned, objects, uploads, rq, faults>>

Always == <<"any">>           \* no precondition
Absent == <<"absent">>     \* If-None-Match: *
Malformed == <<"bad">>     \* a date or size that is none; else an If-Match

\* A retention mode with the date it lasts until, here later than any step, and
\* a legal hold; a date may be one that cannot be read.
Lock == [mode : {"none", "GOVERNANCE"}, until : {"none", "date", "bad"}, hold : {"ON", "OFF"}]
NoLock == [mode |-> "none", until |-> "none", hold |-> "OFF"]
Retained == [mode |-> "GOVERNANCE", until |-> "date", hold |-> "OFF"]

Protects(lock) == lock.mode # "none" \/ lock.hold = "ON"

Kinds == {"put", "copy", "create", "part", "partcopy", "complete", "abort", "delete", "head",
          "tag", "untag", "retention", "hold"}

\* A request, and the input of a backend call.
Blank == [kind |-> "none", key |-> "none", cond |-> Always, from |-> "none", fromCond |-> Always,
          sse |-> "", id |-> "", lock |-> NoLock, bypass |-> "", version |-> <<>>,
          upload |-> Old, part |-> 0, parts |-> <<>>, tags |-> <<>>]

NoOut == [code |-> "none", key |-> ""]

Fresh == [pc |-> "idle", op |-> Blank, in |-> Blank, out |-> NoOut, sdk |-> 0,
          effects |-> 0, lost |-> "no"]

\* Only a completion lists parts, and only preconditions of reads, deletes and copy
\* sources have dates or sizes in them.  A KMSKeyMapper knows every id it is given, and
\* what it names for clients is no id of the backend's.
ASSUME ObjectsAssumption ==
    /\ Old \notin Requests
    /\ \A o \in Ops :
         /\ o.kind \in Kinds /\ o.key \in Keys /\ o.lock \in Lock
         /\ o.kind # "complete" => o.parts = <<>>
         /\ o.kind \notin {"delete", "head"} => o.cond # Malformed
         /\ Mapper => o.id \in DOMAIN KeyMap
    /\ Mapper =>
         /\ "" \notin DOMAIN KeyNames
         /\ DefaultKey \in DOMAIN KeyNames
         /\ \A id \in DOMAIN KeyMap : KeyMap[id] \in DOMAIN KeyNames \cup {""}
         /\ \A id \in DOMAIN KeyNames : KeyNames[id] \notin DOMAIN KeyNames
    /\ MaxSDK \in Nat \ {0} /\ MaxFaults \in Nat

NoUpload == [kms |-> "none", lock |-> NoLock, asked |-> NoLock, parts |-> <<>>]

\* A version as the backend keeps it; asked is the lock its writers asked for.
Version(id, data, kms, lock, asked) ==
    [id |-> id, data |-> data, kms |-> kms, lock |-> lock, asked |-> asked, tags |-> <<>>]

Marker(id) == Version(id, <<>>, "", NoLock, NoLock)

-----------------------------------------------------------------------------
(* The backend *)

Versions(k) == {objects[k][n] : n \in DOMAIN objects[k]}

Newest(k) == IF objects[k] = <<>> THEN Marker(<<Old, 0>>) ELSE objects[k][1]

Exists(k) == Newest(k).data # <<>>

Holds(cond, k) ==
    \/ cond = Always
    \/ cond = Absent /\ ~Exists(k)
    \/ cond \notin {Always, Absent} /\ Exists(k) /\ cond = Newest(k).data

\* The version a request names, or the newest: a set of one or none.
Named(k, version) ==
    IF version = <<>> THEN (IF Exists(k) THEN {Newest(k)} ELSE {})
    ELSE {v \in Versions(k) : v.id = version}

Push(k, v) == [objects EXCEPT ![k] = IF versioned THEN <<v>> \o @ ELSE <<v>>]

Update(k, v) == [objects EXCEPT ![k] = [i \in DOMAIN @ |-> IF @[i].id = v.id THEN v ELSE @[i]]]

Without(k, v) ==
    LET n == CHOOSE m \in DOMAIN objects[k] : objects[k][m] = v
    IN  [objects EXCEPT ![k] = SubSeq(@, 1, n - 1) \o SubSeq(@, n + 1, Len(@))]

\* The key an object is encrypted under.
KeyFor(sse, id) == IF sse = "AES256" THEN "" ELSE IF id = "" THEN DefaultKey ELSE id

Locked(v, bypass) == v.lock.hold = "ON" \/ (v.lock.mode # "none" /\ bypass # "true")

\* Locks are for buckets that keep versions, a mode comes with a date, and
\* a date with a mode.
Lockable(lock) ==
    /\ versioned \/ ~Protects(lock)
    /\ (lock.mode = "none") = (lock.until = "none")

\* The outcome of a call and what it leaves of the bucket.
Done(code, key, objs, ups) == [code |-> code, key |-> key, objects |-> objs, uploads |-> ups]

Refuse(code) == Done(code, "", objects, uploads)

\* A new version, unless a precondition or the bucket refuses it.
Write(i, id, data, kms, lock, asked, ups) ==
    IF ~Holds(i.cond, i.key) THEN Refuse("PreconditionFailed")
    ELSE IF ~Lockable(lock) THEN Refuse("InvalidRequest")
    ELSE Done("ok", kms, Push(i.key, Version(id, data, kms, lock, asked)), ups)

\* Every listed part is there under the ETag the list gives it.
PartsThere(u, parts) ==
    \A n \in DOMAIN parts :
        /\ parts[n].part \in DOMAIN u.parts
        /\ parts[n].etag \in {Always, u.parts[parts[n].part]}

Assemble(u, parts) == [n \in DOMAIN parts |-> u.parts[parts[n].part]]

\* An attribute set on the version named: setting says what becomes of it.
SetAttribute(i, setting) ==
    IF Named(i.key, i.version) = {} THEN Refuse("NoSuchKey")
    ELSE LET v == CHOOSE x \in Named(i.key, i.version) : TRUE
         IN  Done("ok", "", Update(i.key, setting[v]), uploads)

BackendDelete(i, id) ==
    IF ~Holds(i.cond, i.key) THEN Refuse("PreconditionFailed")
    ELSE IF versioned /\ i.version = <<>>
    THEN Done("ok", "", Push(i.key, Marker(id)), uploads)
    ELSE IF \E v \in Named(i.key, i.version) : Locked(v, i.bypass) THEN Refuse("AccessDenied")
    ELSE LET gone == Named(i.key, i.version) IN
         Done("ok", "", IF gone = {} THEN objects ELSE Without(i.key, CHOOSE v \in gone : TRUE), uploads)

\* A retention may be set, or taken off by who bypasses it.
BackendRetention(i, o) ==
    IF ~versioned \/ ~Lockable(i.lock) THEN Refuse("InvalidRequest")
    ELSE IF \E v \in Named(i.key, i.version) :
         v.lock.mode # "none" /\ i.lock.mode = "none" /\ i.bypass # "true"
    THEN Refuse("AccessDenied")
    ELSE SetAttribute(i, [v \in Named(i.key, i.version) |->
                            [v EXCEPT !.lock = [i.lock EXCEPT !.hold = v.lock.hold],
                                      !.asked = [o.lock EXCEPT !.hold = v.asked.hold]]])

BackendHold(i, o) ==
    IF ~versioned THEN Refuse("InvalidRequest")
    ELSE SetAttribute(i, [v \in Named(i.key, i.version) |->
                            [v EXCEPT !.lock.hold = i.lock.hold, !.asked.hold = o.lock.hold]])

\* What the backend does with input i of request r, which asked o.
Backend(r, i, o) ==
    LET id == <<r, rq[r].effects + 1>>
        open == i.upload \in DOMAIN uploads /\ uploads[i.upload] # NoUpload
        u == uploads[i.upload]
    IN
    CASE i.kind = "put" ->
           Write(i, id, <<r>>, KeyFor(i.sse, i.id), i.lock, o.lock, uploads)
      [] i.kind = "copy" ->
           IF ~Exists(i.from) THEN Refuse("NoSuchKey")
           ELSE IF ~Holds(i.fromCond, i.from) THEN Refuse("PreconditionFailed")
           ELSE Write(i, id, Newest(i.from).data, KeyFor(i.sse, i.id), i.lock, o.lock, uploads)
      [] i.kind = "create" ->
           IF ~Lockable(i.lock) THEN Refuse("InvalidRequest")
           ELSE Done("ok", KeyFor(i.sse, i.id), objects,
                     [uploads EXCEPT ![r] = [kms |-> KeyFor(i.sse, i.id), lock |-> i.lock,
                                             asked |-> o.lock, parts |-> <<>>]])
      [] i.kind = "abort" ->
           IF ~open THEN Refuse("NoSuchUpload")
           ELSE Done("ok", "", objects, [uploads EXCEPT ![i.upload] = NoUpload])
      [] i.kind \in {"part", "partcopy"} ->
           IF ~open THEN Refuse("NoSuchUpload")
           ELSE IF i.kind = "partcopy" /\ ~Exists(i.from) THEN Refuse("NoSuchKey")
           ELSE LET data == IF i.kind = "part" THEN <<r>> ELSE Newest(i.from).data IN
                Done("ok", u.kms, objects,
                     [uploads EXCEPT ![i.upload].parts =
                        [n \in DOMAIN @ \cup {i.part} |-> IF n = i.part THEN data ELSE @[n]]])
      [] i.kind = "complete" ->
           IF ~open THEN Refuse("NoSuchUpload")
           ELSE IF ~PartsThere(u, i.parts) THEN Refuse("InvalidPart")
           ELSE Write(i, id, Assemble(u, i.parts), u.kms, u.lock, u.asked,
                      [uploads EXCEPT ![i.upload] = NoUpload])
      [] i.kind = "delete" -> BackendDelete(i, id)
      [] i.kind = "head" ->
           IF Named(i.key, i.version) = {} THEN Refuse("NoSuchKey")
           ELSE IF ~Holds(i.cond, i.key) THEN Refuse("PreconditionFailed")
           ELSE Done("ok", (CHOOSE v \in Named(i.key, i.version) : TRUE).kms, objects, uploads)
      [] i.kind = "tag" ->
           SetAttribute(i, [v \in Named(i.key, i.version) |-> [v EXCEPT !.tags = i.tags]])
      [] i.kind = "retention" -> BackendRetention(i, o)
      [] i.kind = "hold" -> BackendHold(i, o)

-----------------------------------------------------------------------------
(* The handlers: the backend's input for what was asked *)

\* checkSSE succeeds
checkSSE(o) ==
    /\ o.sse \in {"", "AES256", "aws:kms"}
    /\ o.id # "" => o.sse = "aws:kms"

\* The key id applySSE puts on the input.
applySSE(o) == IF o.sse = "aws:kms" /\ Mapper THEN KeyMap[o.id] ELSE o.id

\* A date that cannot be read is dropped, and with it the precondition.
applyConditionalHeaders(cond) == IF cond = Malformed THEN Always ELSE cond

\* So is one of a retention, whose mode stays.
applyObjectLockHeaders(lock) == [lock EXCEPT !.until = IF @ = "bad" THEN "none" ELSE @]

\* Faulty bypassGovernanceRetention: that the header is there is enough.
bypassWhenPresent(o) == o.bypass # ""

bypassGovernanceRetention(o) == o.bypass = "true"

putObject(o) ==
    [Blank EXCEPT !.kind = "put", !.key = o.key, !.cond = o.cond, !.sse = o.sse,
                  !.id = applySSE(o), !.lock = applyObjectLockHeaders(o.lock)]

\* Preconditions on the target are not among what is forwarded; those on the
\* source are, as on reads.
copyObject(o) ==
    [Blank EXCEPT !.kind = "copy", !.key = o.key, !.from = o.from,
                  !.fromCond = applyConditionalHeaders(o.fromCond),
                  !.sse = o.sse, !.id = applySSE(o), !.lock = applyObjectLockHeaders(o.lock)]

createMultipartUpload(o) ==
    [Blank EXCEPT !.kind = "create", !.key = o.key, !.sse = o.sse, !.id = applySSE(o),
                  !.lock = applyObjectLockHeaders(o.lock)]

uploadPart(o) == [Blank EXCEPT !.kind = "part", !.key = o.key, !.upload = o.upload, !.part = o.part]

\* Nor are preconditions on the source, here.
uploadPartCopy(o) ==
    [Blank EXCEPT !.kind = "partcopy", !.key = o.key, !.upload = o.upload, !.part = o.part,
                  !.from = o.from]

\* Faulty completeMultipartUpload: preconditions are not forwarded.
completeMultipartUploadBlindly(o) ==
    [Blank EXCEPT !.kind = "complete", !.key = o.key, !.upload = o.upload, !.parts = o.parts]

\* Faulty completeMultipartUpload: parts are listed by number alone.
completeMultipartUploadByNumber(o) ==
    [Blank EXCEPT !.kind = "complete", !.key = o.key, !.upload = o.upload, !.cond = o.cond,
                  !.parts = [n \in DOMAIN o.parts |-> [o.parts[n] EXCEPT !.etag = Always]]]

completeMultipartUpload(o) ==
    [Blank EXCEPT !.kind = "complete", !.key = o.key, !.upload = o.upload, !.cond = o.cond,
                  !.parts = o.parts]

abortMultipartUpload(o) == [Blank EXCEPT !.kind = "abort", !.key = o.key, !.upload = o.upload]

deleteObject(o) ==
    [Blank EXCEPT !.kind = "delete", !.key = o.key, !.version = o.version, !.cond = o.cond,
                  !.bypass = IF bypassGovernanceRetention(o) THEN "true" ELSE ""]

headObject(o) ==
    [Blank EXCEPT !.kind = "head", !.key = o.key, !.version = o.version,
                  !.cond = applyConditionalHeaders(o.cond)]

putObjectTagging(o) ==
    [Blank EXCEPT !.kind = "tag", !.key = o.key, !.version = o.version, !.tags = o.tags]

deleteObjectTagging(o) == [Blank EXCEPT !.kind = "tag", !.key = o.key, !.version = o.version]

putObjectRetention(o) ==
    [Blank EXCEPT !.kind = "retention", !.key = o.key, !.version = o.version,
                  !.lock = [NoLock EXCEPT !.mode = o.lock.mode, !.until = o.lock.until],
                  !.bypass = IF bypassGovernanceRetention(o) THEN "true" ELSE ""]

putObjectLegalHold(o) ==
    [Blank EXCEPT !.kind = "hold", !.key = o.key, !.version = o.version, !.lock.hold = o.lock.hold]

Input(o) ==
    CASE o.kind = "put" -> putObject(o)
      [] o.kind = "copy" -> copyObject(o)
      [] o.kind = "create" -> createMultipartUpload(o)
      [] o.kind = "part" -> uploadPart(o)
      [] o.kind = "partcopy" -> uploadPartCopy(o)
      [] o.kind = "complete" -> completeMultipartUpload(o)
      [] o.kind = "abort" -> abortMultipartUpload(o)
      [] o.kind = "delete" -> deleteObject(o)
      [] o.kind = "head" -> headObject(o)
      [] o.kind = "tag" -> putObjectTagging(o)
      [] o.kind = "untag" -> deleteObjectTagging(o)
      [] o.kind = "retention" -> putObjectRetention(o)
      [] o.kind = "hold" -> putObjectLegalHold(o)

\* The request is refused before the backend is called: by checkSSE in
\* dispatch, for a list of no parts, for a precondition of a delete or a date
\* in a retention document that cannot be read.
Refused(o) ==
    \/ ~checkSSE(o)
    \/ o.kind = "complete" /\ o.parts = <<>>
    \/ o.kind = "delete" /\ o.cond = Malformed
    \/ o.kind = "retention" /\ o.lock.until = "bad"

-----------------------------------------------------------------------------
(* A request *)

Step(r, new) == rq' = [rq EXCEPT ![r] = new]

\* A request reaches its handler, which builds the input or answers at once.
Handle(q) ==
    IF Refused(q.op) THEN [q EXCEPT !.pc = "answered", !.out.code = "refused"]
    ELSE [q EXCEPT !.pc = "calling", !.in = Input(q.op), !.sdk = 1]

\* The client sends what it has to ask.
Send(r, o) ==
    /\ rq[r].pc = "idle"
    /\ Cardinality({q \in Requests : rq[q].pc \notin {"idle", "done"}}) < MaxActive
    /\ Step(r, Handle([Fresh EXCEPT !.op = o]))
    /\ UNCHANGED <<versioned, objects, uploads, faults>>

\* The backend carries out the call; its answer is on the way.
Call(r) ==
    /\ rq[r].pc = "calling"
    /\ LET done == Backend(r, rq[r].in, rq[r].op) IN
       /\ objects' = done.objects
       /\ uploads' = done.uploads
       /\ Step(r, [rq[r] EXCEPT !.pc = "returned", !.out = [code |-> done.code, key |-> done.key],
                                !.effects = IF done.code = "ok" THEN @ + 1 ELSE @])
    /\ UNCHANGED <<versioned, faults>>

\* A streamed body cannot be sent again.
Retryable(i) == i.kind \notin {"put", "part"}

\* The SDK sees a call fail: it makes it again, or the handler answers with an
\* error.
Fail(r, lost) ==
    Step(r, IF Retryable(rq[r].in) /\ rq[r].sdk < MaxSDK
            THEN [rq[r] EXCEPT !.pc = "calling", !.sdk = @ + 1, !.out = NoOut, !.lost = lost]
            ELSE [rq[r] EXCEPT !.pc = "answered", !.sdk = 0, !.out = [code |-> "error", key |-> ""],
                               !.lost = lost])

Fault == faults < MaxFaults /\ faults' = faults + 1

\* The backend cannot be reached, or the body breaks off or fails its checks,
\* and the call has no effect.
CallFails(r) ==
    /\ rq[r].pc = "calling"
    /\ Fault
    /\ Fail(r, rq[r].lost)
    /\ UNCHANGED <<versioned, objects, uploads>>

\* The backend's answer does not arrive.
AnswerLost(r) ==
    /\ rq[r].pc = "returned"
    /\ Fault
    /\ Fail(r, "yes")
    /\ UNCHANGED <<versioned, objects, uploads>>

\* Faulty clientKMSKeyID: an id the mapper has no name for is shown as it is.
clientKMSKeyIDUnnamed(id) ==
    IF id = "" \/ ~Mapper \/ KeyNames[id] = "" THEN id ELSE KeyNames[id]

\* The key id shown to the client for the backend's.
clientKMSKeyID(id) == IF id = "" \/ ~Mapper THEN id ELSE KeyNames[id]

\* Faulty Respond: aborting an upload always succeeds.
RespondAborted(r) ==
    /\ rq[r].pc = "returned"
    /\ Step(r, [rq[r] EXCEPT !.pc = "answered", !.sdk = 0, !.out.key = clientKMSKeyID(@),
                             !.out.code = IF rq[r].op.kind = "abort" THEN "ok" ELSE @])
    /\ UNCHANGED <<versioned, objects, uploads, faults>>

\* The handler writes the response.
Respond(r) ==
    /\ rq[r].pc = "returned"
    /\ Step(r, [rq[r] EXCEPT !.pc = "answered", !.sdk = 0, !.out.key = clientKMSKeyID(@)])
    /\ UNCHANGED <<versioned, objects, uploads, faults>>

\* The client has its answer, or gives up waiting for it.
Finish(r) ==
    /\ rq[r].pc = "answered"
    /\ Step(r, [Fresh EXCEPT !.pc = "done", !.op.parts = rq[r].op.parts])
    /\ UNCHANGED <<versioned, objects, uploads, faults>>

\* The client got an error or no answer and sends the request again.
Resend(r) ==
    /\ rq[r].pc = "answered"
    /\ IF rq[r].out.code = "error" THEN UNCHANGED faults ELSE Fault
    /\ Step(r, Handle([Fresh EXCEPT !.op = rq[r].op, !.effects = rq[r].effects,
                                    !.lost = IF rq[r].out.code = "error" THEN rq[r].lost ELSE "yes"]))
    /\ UNCHANGED <<versioned, objects, uploads>>

\* Every key holds an object, and an upload with two parts is open, all under
\* retention where the bucket can.
Init ==
    /\ versioned \in BOOLEAN
    /\ LET lock == IF versioned THEN Retained ELSE NoLock IN
       /\ objects = [k \in Keys |-> <<Version(<<Old, 1>>, <<Old, k>>, DefaultKey, lock, lock)>>]
       /\ uploads = [u \in Requests \cup {Old} |->
                       IF u # Old THEN NoUpload
                       ELSE [kms |-> DefaultKey, lock |-> lock, asked |-> lock,
                             parts |-> <<<<Old, "1">>, <<Old, "2">>>>]]
    /\ rq = [r \in Requests |-> Fresh]
    /\ faults = 0

Next ==
    \E r \in Requests :
        \/ \E o \in Ops : Send(r, o)
        \/ Call(r)
        \/ CallFails(r)
        \/ AnswerLost(r)
        \/ Respond(r)
        \/ Finish(r)
        \/ Resend(r)

Spec == Init /\ [][Next]_vars

-----------------------------------------------------------------------------
(* Properties *)

\* Types; the SDK gives a call up in the end, and an unversioned bucket keeps
\* one version.
TypeOK ==
    /\ versioned \in BOOLEAN
    /\ \A k \in Keys : \A v \in Versions(k) :
         v \in [id : {v.id}, data : {v.data}, kms : {v.kms}, lock : Lock, asked : Lock, tags : {v.tags}]
    /\ ~versioned => \A k \in Keys : Len(objects[k]) <= 1
    /\ \A u \in Requests \cup {Old} :
         uploads[u] \in [kms : {uploads[u].kms}, lock : Lock, asked : Lock, parts : {uploads[u].parts}]
    /\ \A r \in Requests :
         rq[r] \in [pc : {"idle", "calling", "returned", "answered", "done"}, op : {rq[r].op},
                    in : {rq[r].in}, out : [code : {rq[r].out.code}, key : {rq[r].out.key}],
                    sdk : 0 .. MaxSDK, effects : 0 .. MaxFaults + 1, lost : {"yes", "no"}]
    /\ faults \in 0 .. MaxFaults

\* The step is the backend carrying out what r asked.
TakesEffect(r) ==
    rq[r].pc = "calling" /\ rq'[r].pc = "returned" /\ rq'[r].out.code = "ok"

\* A put, a completion or a delete that came with a precondition takes effect only
\* on a bucket in which it holds, however late the call is made or repeated:
\* "dropping them would make the write unconditional while the client believes
\* it is protected" (putObject).  So does a read, and a copy for the precondition
\* on its source, unless that is a date that cannot be read, which
\* applyConditionalHeaders and copyObject drop.
ConditionsHold ==
    [][\A r \in Requests : TakesEffect(r) =>
         LET o == rq[r].op IN
         /\ o.kind \in {"put", "complete", "delete"} => Holds(o.cond, o.key)
         /\ o.kind = "head" => o.cond = Malformed \/ Holds(o.cond, o.key)
         /\ o.kind = "copy" => o.fromCond = Malformed \/ Holds(o.fromCond, o.from)]_vars

\* An object made by completing an upload consists of the parts its client
\* listed, in that order, each with the content its ETag, if any, names, also when a part
\* is uploaded again or an upload is completed again meanwhile
\* (completeMultipartUpload).
CompletedIsListed ==
    \A k \in Keys : \A v \in Versions(k) : \A r \in Requests :
        LET parts == rq[r].op.parts IN
        v.id[1] = r /\ parts # <<>> =>
            /\ DOMAIN v.data = DOMAIN parts
            /\ \A n \in DOMAIN parts : parts[n].etag \in {Always, v.data[n]}

\* What a client is told is true: success means that the operation took effect,
\* and a refusal that it did not, unless an earlier answer to the same request
\* was lost, when a repetition may be refused for what the first one did.
AnswersTruthful ==
    \A r \in Requests : rq[r].pc = "answered" =>
        /\ rq[r].out.code = "ok" => rq[r].effects > 0
        /\ rq[r].out.code \notin {"ok", "error"} /\ rq[r].lost = "no" => rq[r].effects = 0

\* A version whose writers asked for retention or a legal hold, also for one with
\* a date that was dropped, stays until a request that says "true" to bypassing
\* governance retention deletes it, or the lock was taken off by one that may: no
\* handler drops a mode or a hold, or adds a bypass (applyObjectLockHeaders,
\* bypassGovernanceRetention).
LockedStays ==
    [][\A k \in Keys : \A v \in Versions(k) :
         Protects(v.asked) /\ (\A w \in Versions(k)' : w.id # v.id) =>
            /\ v.asked.hold = "OFF"
            /\ \E r \in Requests : TakesEffect(r) /\ rq[r].op.kind = "delete" /\ rq[r].op.bypass = "true"]_vars

\* With a KMSKeyMapper installed no client is shown a key id of the backend's
\* ("never the backend's raw id", setSSEHeaders), and nothing is encrypted under
\* a key but the mapper's choice or the bucket's default.
KeysHidden ==
    Mapper =>
        /\ \A r \in Requests : rq[r].pc = "answered" => rq[r].out.key \notin DOMAIN KeyNames
        /\ \A k \in Keys : \A v \in Versions(k) :
             v.kms \in {"", DefaultKey} \cup {KeyMap[id] : id \in DOMAIN KeyMap}
=============================================================================
