------------------------------ MODULE Gateway ------------------------------
(***************************************************************************)
(* The life of a request in s3gw: wrapHandler, handleRequest,              *)
(* resolveBucket, dispatch, resolveCopySource and runOp.  Each request p   *)
(* is a goroutine whose steps are separated where it calls something       *)
(* outside it: the store, which changes under it, the hooks of the         *)
(* service, the backend and the client's connection.  Any of these, and    *)
(* the handler itself, may panic.  The checks between two such calls are   *)
(* one step.                                                               *)
(***************************************************************************)
EXTENDS Cors

CONSTANTS Procs,        \* the requests in flight
          Request,      \* what a client may send
          Key,          \* the keys a store may hold, with their id
          Bucket,       \* the buckets a store may hold, with their name
          MaxChanges    \* bound on the changes of the store

ASSUME GatewayAssumption == MaxChanges \in Nat

NoKey == [id |-> "none"]
NoBucket == [name |-> "none"]

\* A request: kind ("preflight", "list" or "op"), the key id and secret it is
\* signed with, its source address, the bucket, the actions of its route with
\* those its headers add, the bucket and action of its copy source ("none" when
\* it has none), whether the answer's body is an object or a document, and what
\* Cors reads of it.
Ids == {r.id : r \in Request}
Names == {r.bucket : r \in Request} \cup ({r.src : r \in Request} \ {"none"})
Origins == {r.origin : r \in Request}

VARIABLES keys, buckets,           \* the store
          changes,                 \* how often it changed
          pc, req,
          vr, bkt, src,            \* what the request read from the store
          ret,                     \* the handler's error: "none", "nil" or "error"
          fault,                   \* "none", "panic", or "abort" for ErrAbortHandler
          op,                      \* info.Op: "none" or "set"
          call,                    \* the operation itself: "none" or "run"
          sw,                      \* what statusWriter has let through
          client,                  \* what the client got in the end
          cors,                    \* the origin its CORS headers name, or "none"
          rec,                     \* the observer's calls and the Code it was given
          seenKeys, seenBuckets    \* history: the records the store held meanwhile

storeVars == <<keys, buckets, changes>>
reqVars == <<pc, req, vr, bkt, src, ret, fault, op, call, sw, cors, client, rec>>
vars == <<storeVars, reqVars, seenKeys, seenBuckets>>

\* A response begun but not finished is "sized" when Content-Length was set.
Begun == {"sized", "chunked", "complete"}

Handling == {"handle", "resolve", "byName", "dispatch", "copy", "authorizer", "before",
             "run", "wait", "write", "after"}

\* Types: every request is at one step, holds records of the store's types, and
\* is reported to the observer at most once (wrapHandler).
TypeOK ==
    /\ keys \in [Ids -> Key \cup {NoKey}]
    /\ buckets \in [Names -> Bucket \cup {NoBucket}]
    /\ changes \in 0 .. MaxChanges
    /\ pc \in [Procs -> Handling \cup {"idle", "report", "recover", "done"}]
    /\ req \in [Procs -> Request]
    /\ vr \in [Procs -> Key \cup {NoKey}]
    /\ bkt \in [Procs -> Bucket \cup {NoBucket}]
    /\ src \in [Procs -> Bucket \cup {NoBucket}]
    /\ ret \in [Procs -> {"none", "nil", "error"}]
    /\ fault \in [Procs -> {"none", "panic", "abort"}]
    /\ op \in [Procs -> {"none", "set"}]
    /\ call \in [Procs -> {"none", "run"}]
    /\ sw \in [Procs -> Begun \cup {"none", "errdoc"}]
    /\ cors \in [Procs -> {"none", "*"} \cup Origins]
    /\ client \in [Procs -> Begun \cup {"none", "empty", "errdoc", "broken", "truncated"}]
    /\ rec \in [Procs -> [calls : 0 .. 1, code : {"empty", "set"}]]
    /\ seenKeys \in [Procs -> SUBSET (Key \cup {NoKey})]
    /\ seenBuckets \in [Procs -> SUBSET (Bucket \cup {NoBucket})]

Init ==
    /\ keys \in [Ids -> Key \cup {NoKey}]
    /\ \A k \in Ids : keys[k].id \in {k, "none"}
    /\ buckets \in [Names -> Bucket \cup {NoBucket}]
    /\ \A n \in Names : buckets[n].name \in {n, "none"}
    /\ changes = 0
    /\ pc = [p \in Procs |-> "idle"]
    /\ req \in [Procs -> Request]
    /\ vr = [p \in Procs |-> NoKey]
    /\ bkt = [p \in Procs |-> NoBucket]
    /\ src = [p \in Procs |-> NoBucket]
    /\ ret = [p \in Procs |-> "none"]
    /\ fault = [p \in Procs |-> "none"]
    /\ op = [p \in Procs |-> "none"]
    /\ call = [p \in Procs |-> "none"]
    /\ sw = [p \in Procs |-> "none"]
    /\ cors = [p \in Procs |-> "none"]
    /\ client = [p \in Procs |-> "none"]
    /\ rec = [p \in Procs |-> [calls |-> 0, code |-> "empty"]]
    /\ seenKeys = [p \in Procs |-> {}]
    /\ seenBuckets = [p \in Procs |-> {}]

-----------------------------------------------------------------------------
(* The store, which the service changes whenever it likes. *)

ChangeKey(id, k) ==
    /\ changes < MaxChanges
    /\ k.id \in {id, "none"}
    /\ keys' = [keys EXCEPT ![id] = k]
    /\ changes' = changes + 1
    /\ seenKeys' = [p \in Procs |-> seenKeys[p] \cup {k}]
    /\ UNCHANGED <<buckets, reqVars, seenBuckets>>

ChangeBucket(n, b) ==
    /\ changes < MaxChanges
    /\ b.name \in {n, "none"}
    /\ buckets' = [buckets EXCEPT ![n] = b]
    /\ changes' = changes + 1
    /\ seenBuckets' = [p \in Procs |-> seenBuckets[p] \cup {b}]
    /\ UNCHANGED <<keys, reqVars, seenKeys>>

GetBucketByName(n) == buckets[n]

\* Another tenant's bucket is not found.
GetBucket(tenant, n) ==
    IF buckets[n] # NoBucket /\ buckets[n].tenant = tenant THEN buckets[n] ELSE NoBucket

-----------------------------------------------------------------------------
(* The request. *)

Goto(p, label) == pc' = [pc EXCEPT ![p] = label]

\* The handler returns to report, past the interceptors when they were entered.
Return(p, err) ==
    /\ ret' = [ret EXCEPT ![p] = err]
    /\ Goto(p, "report")

Arrive(p) ==
    /\ pc[p] = "idle"
    /\ Goto(p, "handle")
    /\ seenKeys' = [seenKeys EXCEPT ![p] = {keys[k] : k \in Ids}]
    /\ seenBuckets' = [seenBuckets EXCEPT ![p] = {buckets[n] : n \in Names}]
    /\ UNCHANGED <<storeVars, req, vr, bkt, src, ret, fault, op, call, sw, cors, client, rec>>

\* What a step between two calls leaves alone, whatever else it does.
Unmoved == UNCHANGED <<storeVars, req, fault, client, rec, seenKeys, seenBuckets>>
Quiet == Unmoved /\ UNCHANGED cors

\* An error before the operation: a check or a lookup failed, a policy or a
\* hook refused.
Refuse(p) ==
    /\ pc[p] \in {"handle", "resolve", "byName", "dispatch", "copy", "authorizer", "before"}
    /\ Return(p, "error")
    /\ Quiet
    /\ UNCHANGED <<vr, bkt, src, op, call, sw>>

\* A rule of the bucket allows it, otherwise Refuse.
handlePreflight(p) ==
    /\ pc[p] = "handle"
    /\ req[p].kind = "preflight" /\ "none" \notin {req[p].origin, req[p].method}
    /\ GetBucketByName(req[p].bucket) # NoBucket
    /\ LET allowed == AllowPreflight(GetBucketByName(req[p].bucket).CORS, req[p]) IN
       allowed # "none" /\ cors' = [cors EXCEPT ![p] = allowed]
    /\ sw' = [sw EXCEPT ![p] = "complete"]
    /\ Return(p, "nil")
    /\ Unmoved
    /\ UNCHANGED <<vr, bkt, src, op, call>>

\* The identity is the key record the secret came from.  The checks of the
\* headers and the target follow.
verifyRequest(p) ==
    /\ pc[p] = "handle"
    /\ req[p].kind # "preflight"
    /\ keys[req[p].id] # NoKey
    /\ keys[req[p].id].secret = req[p].secret
    /\ vr' = [vr EXCEPT ![p] = keys[req[p].id]]
    /\ Goto(p, IF req[p].kind = "list" THEN "dispatch" ELSE "resolve")
    /\ Quiet
    /\ UNCHANGED <<bkt, src, ret, op, call, sw>>

\* The requester authorize sees: the key's identity and the source address.
Requester(p) ==
    [tenant |-> vr[p].tenant, user |-> vr[p].user, policy |-> vr[p].policy,
     source |-> req[p].source]

\* The bucket's rules decorate the response, whatever it will be.
Resolved(p, b) ==
    /\ bkt' = [bkt EXCEPT ![p] = b]
    /\ cors' = [cors EXCEPT ![p] = SetHeaders(b.CORS, req[p])]
    /\ Goto(p, "dispatch")
    /\ Unmoved
    /\ UNCHANGED <<vr, src, ret, op, call, sw>>

\* resolveBucket, first lookup: within the requester's tenant.
ResolveOwn(p) ==
    /\ pc[p] = "resolve"
    /\ GetBucket(vr[p].tenant, req[p].bucket) # NoBucket
    /\ Resolved(p, GetBucket(vr[p].tenant, req[p].bucket))

NotOwn(p) ==
    /\ pc[p] = "resolve"
    /\ GetBucket(vr[p].tenant, req[p].bucket) = NoBucket
    /\ Goto(p, "byName")
    /\ Quiet
    /\ UNCHANGED <<vr, bkt, src, ret, op, call, sw>>

\* Faulty ResolveByName: the bucket need only exist.
ResolveByNameUngated(p) ==
    /\ pc[p] = "byName"
    /\ GetBucketByName(req[p].bucket) # NoBucket
    /\ Resolved(p, GetBucketByName(req[p].bucket))

\* resolveBucket, second lookup: any tenant's, if its policy mentions the requester.
ResolveByName(p) ==
    /\ pc[p] = "byName"
    /\ GetBucketByName(req[p].bucket) # NoBucket
    /\ MentionsPrincipal(GetBucketByName(req[p].bucket).policy, Principal(vr[p]))
    /\ Resolved(p, GetBucketByName(req[p].bucket))

\* Faulty authorizeRoute: only the unconditional action is authorized, those
\* the headers add are not.
authorizeRouteFirst(p) ==
    authorize(Requester(p), bkt[p], req[p].actions[1], req[p].bucket) = Granted

authorizeRoute(p) ==
    \A a \in 1 .. Len(req[p].actions) :
        authorize(Requester(p), bkt[p], req[p].actions[a], req[p].bucket) = Granted

\* ListBuckets has no bucket, so the user policy alone decides.
Permitted(p) ==
    IF req[p].kind = "list"
    THEN UserDecide(vr[p].policy, "ListAllMyBuckets").effect = "Allow"
    ELSE authorizeRoute(p)

\* dispatch up to the copy source: route, parameters, header values, policies.
\* The same step of handleRequest for ListBuckets.
dispatch(p) ==
    /\ pc[p] = "dispatch"
    /\ Permitted(p)
    /\ Goto(p, IF req[p].src # "none" THEN "copy" ELSE "authorizer")
    /\ op' = [op EXCEPT ![p] = IF req[p].src # "none" THEN @ ELSE "set"]
    /\ Quiet
    /\ UNCHANGED <<vr, bkt, src, ret, call, sw>>

\* The source's read is authorized, and it is on the target's backend.
CopySource(p, b) ==
    /\ pc[p] = "copy"
    /\ b # NoBucket
    /\ authorize(Requester(p), b, req[p].srcAction, req[p].src) = Granted
    /\ b.backend = bkt[p].backend
    /\ src' = [src EXCEPT ![p] = b]
    /\ op' = [op EXCEPT ![p] = "set"]
    /\ Goto(p, "authorizer")
    /\ Quiet
    /\ UNCHANGED <<vr, bkt, ret, call, sw>>

\* The source is looked up in the requester's tenant only.
resolveCopySource(p) == CopySource(p, GetBucket(vr[p].tenant, req[p].src))

-----------------------------------------------------------------------------
(* runOp: the hooks around the operation. *)

\* The authorizer, and the interceptors up to next, let the request on.
Proceed(p) ==
    /\ pc[p] \in {"authorizer", "before"}
    /\ Goto(p, IF pc[p] = "authorizer" THEN "before" ELSE "run")
    /\ Quiet
    /\ UNCHANGED <<vr, bkt, src, ret, op, call, sw>>

\* An interceptor returns nil without calling next.
Swallow(p) ==
    /\ pc[p] = "before"
    /\ Return(p, "nil")
    /\ Quiet
    /\ UNCHANGED <<vr, bkt, src, op, call, sw>>

\* The handler returns into the interceptors.
HandlerReturns(p, err) ==
    /\ ret' = [ret EXCEPT ![p] = err]
    /\ Goto(p, "after")
    /\ Quiet
    /\ UNCHANGED <<vr, bkt, src, op, call>>

\* The handler refuses what it parses, or its call fails.
HandlerFails(p) ==
    /\ pc[p] \in {"run", "wait"}
    /\ HandlerReturns(p, "error")
    /\ UNCHANGED sw

\* The handler calls the backend (the store, for ListBuckets).
Run(p) ==
    /\ pc[p] = "run"
    /\ call' = [call EXCEPT ![p] = "run"]
    /\ Goto(p, "wait")
    /\ Quiet
    /\ UNCHANGED <<vr, bkt, src, ret, op, sw>>

\* The call's answer begins the response.
Answer(p) ==
    /\ pc[p] = "wait"
    /\ \E b \in {"sized", "chunked"} : sw' = [sw EXCEPT ![p] = b]
    /\ Goto(p, "write")
    /\ Quiet
    /\ UNCHANGED <<vr, bkt, src, ret, op, call>>

\* The body is written out, or breaks off, which neither getObject nor
\* s3xml.Write returns as an error.
Write(p) ==
    /\ pc[p] = "write"
    /\ sw' \in {sw, [sw EXCEPT ![p] = "complete"]}
    /\ HandlerReturns(p, "nil")

\* The interceptors after next pass its error on or return their own.
InterceptAfter(p) ==
    /\ pc[p] = "after"
    /\ \E e \in {"nil", "error"} : Return(p, e)
    /\ Quiet
    /\ UNCHANGED <<vr, bkt, src, op, call, sw>>

\* Anything between arrival and return may panic.
Panic(p) ==
    /\ pc[p] \in Handling
    /\ \E f \in {"panic", "abort"} : fault' = [fault EXCEPT ![p] = f]
    /\ Goto(p, "recover")
    /\ UNCHANGED <<storeVars, req, vr, bkt, src, ret, op, call, sw, cors, client, rec, seenKeys, seenBuckets>>

-----------------------------------------------------------------------------
(* wrapHandler: the answer and the observer. *)

\* Faulty report: an error document is written whatever has been sent.
reportAlways(p, err) ==
    /\ sw' = [sw EXCEPT ![p] = IF err = "error" THEN "errdoc" ELSE @]
    /\ rec' = [rec EXCEPT ![p] = [calls |-> @.calls + 1,
                                  code |-> IF err = "error" THEN "set" ELSE "empty"]]

\* report: an error is answered by a document unless the response has begun,
\* and the observer called, its own panic being recovered.
report(p, err) ==
    LET document == err = "error" /\ sw[p] = "none"
    IN  /\ sw' = [sw EXCEPT ![p] = IF document THEN "errdoc" ELSE @]
        /\ rec' = [rec EXCEPT ![p] = [calls |-> @.calls + 1,
                                      code |-> IF document THEN "set" ELSE "empty"]]

\* What net/http makes of the response once the handler has returned (external).
Ended(s) ==
    IF s = "none" THEN "empty"             \* an implicit 200 without a body
    ELSE IF s = "sized" THEN "broken"      \* shorter than its Content-Length
    ELSE IF s = "chunked" THEN "truncated" \* ended like a complete one
    ELSE s

Untouched == UNCHANGED <<storeVars, req, vr, bkt, src, ret, fault, op, call, cors, seenKeys, seenBuckets>>

\* The handler returned.
Report(p) ==
    /\ pc[p] = "report"
    /\ report(p, ret[p])
    /\ client' = [client EXCEPT ![p] = Ended(sw'[p])]
    /\ Goto(p, "done")
    /\ Untouched

\* The deferred function passes ErrAbortHandler on in silence.
Abort(p) ==
    /\ pc[p] = "recover"
    /\ fault[p] = "abort"
    /\ client' = [client EXCEPT ![p] = "broken"]
    /\ Goto(p, "done")
    /\ Untouched
    /\ UNCHANGED <<sw, rec>>

\* Faulty recovery: ErrAbortHandler is taken for any other panic.
RecoverAll(p) ==
    /\ pc[p] = "recover"
    /\ report(p, "error")
    /\ client' = [client EXCEPT ![p] = IF sw[p] = "none" THEN Ended(sw'[p]) ELSE "broken"]
    /\ Goto(p, "done")
    /\ Untouched

\* Faulty recovery: sw.started is read after report wrote the document.
RecoverLate(p) ==
    /\ pc[p] = "recover"
    /\ fault[p] = "panic"
    /\ report(p, "error")
    /\ client' = [client EXCEPT ![p] = "broken"]
    /\ Goto(p, "done")
    /\ Untouched

\* Any other panic is reported; a response that had begun is aborted.
Recover(p) ==
    /\ pc[p] = "recover"
    /\ fault[p] = "panic"
    /\ report(p, "error")
    /\ client' = [client EXCEPT ![p] = IF sw[p] = "none" THEN Ended(sw'[p]) ELSE "broken"]
    /\ Goto(p, "done")
    /\ Untouched

-----------------------------------------------------------------------------
Serve(p) ==
    \/ Refuse(p) \/ handlePreflight(p) \/ verifyRequest(p)
    \/ ResolveOwn(p) \/ NotOwn(p) \/ ResolveByName(p)
    \/ dispatch(p) \/ resolveCopySource(p) \/ Proceed(p) \/ Swallow(p)
    \/ HandlerFails(p) \/ Run(p) \/ Answer(p) \/ Write(p) \/ InterceptAfter(p)
    \/ Panic(p) \/ Report(p) \/ Abort(p) \/ Recover(p)

Next ==
    \/ \E id \in Ids : \E k \in Key \cup {NoKey} : ChangeKey(id, k)
    \/ \E n \in Names : \E b \in Bucket \cup {NoBucket} : ChangeBucket(n, b)
    \/ \E p \in Procs : Arrive(p) \/ Serve(p)

Spec == Init /\ [][Next]_vars

-----------------------------------------------------------------------------
(* Properties *)

\* Every action the request needs was granted by the policies of one key
\* record and one bucket record, and the copy source's read by the policies
\* of a bucket of the requester's own tenant on the target's backend.
Authorized(p) ==
    IF req[p].kind = "list"
    THEN UserDecide(vr[p].policy, "ListAllMyBuckets").effect = "Allow"
    ELSE /\ \A a \in 1 .. Len(req[p].actions) :
              authorize(Requester(p), bkt[p], req[p].actions[a], req[p].bucket) = Granted
         /\ req[p].src # "none" =>
              /\ src[p].tenant = vr[p].tenant
              /\ src[p].backend = bkt[p].backend
              /\ authorize(Requester(p), src[p], req[p].srcAction, req[p].src) = Granted

\* An operation runs only for a request that its signature, the visibility
\* gate and the policies let through (dispatch, resolveCopySource), decided on
\* records the store held while the request was served: a key or policy
\* withdrawn before the request arrived never lets it through, although the
\* store changes between the lookups.
OnlyAuthorized ==
    \A p \in Procs : call[p] = "run" =>
        /\ vr[p] \in seenKeys[p] \ {NoKey} /\ vr[p].secret = req[p].secret
        /\ req[p].kind = "op" =>
             /\ bkt[p] \in seenBuckets[p] \ {NoBucket}
             /\ req[p].src # "none" => src[p] \in seenBuckets[p] \ {NoBucket}
        /\ Authorized(p)

\* A rule of b lets a browser do what the request does, or asks for, and the
\* response may name the origin given.
LetsBrowser(b, q, named) ==
    \E i \in 1 .. Len(b.CORS) :
        /\ q.origin \in b.CORS[i].origins /\ q.method \in b.CORS[i].methods
        /\ q.kind = "preflight" => q.headers \subseteq b.CORS[i].headers
        /\ named = IF b.CORS[i].any THEN "*" ELSE q.origin

\* CORS headers come from the rules of a bucket record held meanwhile that allow
\* them; and but for preflights, from no bucket of another tenant whose policy
\* never mentions the requester: "the gate also keeps requesters the policy never
\* mentions from reaching the foreign bucket's backend client and CORS headers"
\* (resolveBucket).
CORSWhereVisible ==
    \A p \in Procs : cors[p] # "none" =>
        \E b \in seenBuckets[p] \ {NoBucket} :
            /\ LetsBrowser(b, req[p], cors[p])
            /\ req[p].kind # "preflight" =>
                 /\ vr[p] \in seenKeys[p] \ {NoKey} /\ vr[p].secret = req[p].secret
                 /\ b.tenant = vr[p].tenant \/ MentionsPrincipal(b.policy, Principal(vr[p]))

\* report hands the record to the observer exactly once per request, whether
\* the handler returned or panicked, and not at all for ErrAbortHandler; the
\* Code in it is set exactly when the client was sent an error document, and
\* the operation is on record whenever it ran.
ObservedOnce ==
    \A p \in Procs :
        IF pc[p] # "done" THEN rec[p].calls = 0
        ELSE /\ rec[p].calls = (IF fault[p] = "abort" THEN 0 ELSE 1)
             /\ rec[p].code = "set" <=> client[p] = "errdoc"
             /\ call[p] = "run" => op[p] = "set"

\* A panic is answered with an error document when nothing had been sent, and
\* with a broken connection otherwise: never with something the client could
\* take for the operation's answer (wrapHandler's recover).
PanicAnswered ==
    \A p \in Procs : pc[p] = "done" /\ fault[p] = "panic" =>
        /\ client[p] \in {"errdoc", "broken"}
        /\ client[p] = "errdoc" <=> sw[p] = "errdoc"

\* Once a response has begun, an error found later is not appended to it.
NoDocumentAfterStart ==
    [][\A p \in Procs : sw[p] \in Begun => sw'[p] # "errdoc"]_sw
=============================================================================
