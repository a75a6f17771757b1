---------------------------- MODULE DeleteObjects ----------------------------
(***************************************************************************)
(* The DeleteObjects handler of s3gw/proxy.go: one request names many      *)
(* objects, each authorized on its own with the precomputed per-object     *)
(* authorizers; the permitted ones go to the backend in one call, the      *)
(* others are reported as errors inside the answer and, summed up by       *)
(* deciding statement, to the observer.                                    *)
(***************************************************************************)
EXTENDS Policy, FiniteSets

CONSTANTS Requests,    \* the requests a client may send, with who and where
          MaxObjects   \* 1000 in the code

Object == [key : STRING, version : {"none", "named"}, date : {"none", "valid", "invalid"}]

\* A request carries its verified requester vr, the bucket b, the objects
\* named in its body, the Quiet flag and the bypass-governance header.  The effects
\* in a bucket's policy are the two that Parse lets through: Decide takes any other
\* for an Allow, the precomputed evaluators for nothing.
ASSUME DeleteObjectsAssumption ==
    /\ MaxObjects \in Nat
    /\ \A r \in Requests : /\ r.objects \in Seq(Object)
                           /\ Len(r.b.policy) \in Nat
                           /\ KnownEffects(r.b.policy)

VARIABLES req,       \* the request being served
          pc,        \* "resolve", "read", "check", "sent" or "done"
          i,         \* the object the loop is at
          objects,   \* objects permitted so far
          errors,    \* objects refused so far (result.Errors)
          denials,   \* op.Denials: deciding (layer, statement) -> number of keys
          sent,      \* what the backend was asked to delete
          answer     \* its status "none", "hidden" (no bucket), "error" or "ok", with
                     \* the refused objects and the positions in sent of those the
                     \* backend lists as failed and as deleted

vars == <<req, pc, i, objects, errors, denials, sent, answer>>

\* An answer that lists nothing.
Empty(status) == [status |-> status, errors |-> <<>>, failed |-> {}, deleted |-> {}]

Init ==
    /\ req \in Requests
    /\ pc = "resolve"
    /\ i = 1
    /\ objects = <<>>
    /\ errors = <<>>
    /\ denials = <<>>
    /\ sent = <<>>
    /\ answer = Empty("none")

\* resolveBucket lets through requesters of the bucket's own tenant and those
\* the bucket policy mentions; to others the bucket does not exist.
Visible(r) ==
    r.b.tenant = r.vr.tenant \/ MentionsPrincipal(r.b.policy, Principal(r.vr))

resolveBucket ==
    /\ pc = "resolve"
    /\ \/ Visible(req) /\ pc' = "read" /\ UNCHANGED answer
       \/ ~Visible(req) /\ pc' = "done" /\ answer' = Empty("hidden")
    /\ UNCHANGED <<req, i, objects, errors, denials, sent>>

-----------------------------------------------------------------------------
(* The handler *)

AuthFor(action) == perObjectAuthorizer(req.vr, req.b, action)

DeleteAction(o) == IF o.version = "named" THEN "DeleteObjectVersion" ELSE "DeleteObject"

\* Some authorizer the request needs can refuse some object.
checkPerObject ==
    \/ \E k \in 1 .. Len(req.objects) : ~allowsEverything(AuthFor(DeleteAction(req.objects[k])))
    \/ req.bypass /\ ~allowsEverything(AuthFor("BypassGovernanceRetention"))

\* The action whose authorizer decides about o: the delete, else the bypass.
DecidingAction(o) ==
    IF req.bypass /\ ~denies(AuthFor(DeleteAction(o)), o.key)
    THEN "BypassGovernanceRetention" ELSE DeleteAction(o)

denied(o) == denies(AuthFor(DecidingAction(o)), o.key)

\* op.addDenial: one entry per (layer, statement).
addDenial(d, r) ==
    [x \in DOMAIN d \cup {r} |->
        (IF x \in DOMAIN d THEN d[x] ELSE 0) + (IF x = r THEN 1 ELSE 0)]

Fail ==
    /\ pc' = "done"
    /\ answer' = Empty("error")
    /\ UNCHANGED <<req, i, objects, errors, denials, sent>>

\* The body does not read or parse, or names no object or too many.
Refuse ==
    /\ pc = "read"
    /\ Fail

Read ==
    /\ pc = "read"
    /\ IF Len(req.objects) \in 1 .. MaxObjects
       THEN pc' = "check" /\ UNCHANGED <<req, i, objects, errors, denials, sent, answer>>
       ELSE Fail

\* One iteration of the loop over req.Objects.
CheckObject ==
    /\ pc = "check" /\ i <= Len(req.objects)
    /\ LET o == req.objects[i] IN
       \/ /\ checkPerObject /\ denied(o)
          /\ errors' = Append(errors, o)
          /\ denials' = addDenial(denials, denyReason(AuthFor(DecidingAction(o)), o.key))
          /\ i' = i + 1
          /\ UNCHANGED <<req, pc, objects, sent, answer>>
       \/ /\ ~(checkPerObject /\ denied(o))
          /\ IF o.date = "invalid" THEN Fail
             ELSE /\ objects' = Append(objects, o)
                  /\ i' = i + 1
                  /\ UNCHANGED <<req, pc, errors, denials, sent, answer>>

\* Faulty Result: the backend's answer replaces the refusals.
ResultBackendOnly(refused, failed, deleted) ==
    [status |-> "ok", errors |-> <<>>, failed |-> failed, deleted |-> deleted]

\* result.Errors holds the refused objects, then what the backend failed on;
\* result.Deleted what it lists as deleted.
Result(refused, failed, deleted) ==
    [status |-> "ok", errors |-> refused, failed |-> failed, deleted |-> deleted]

\* With nothing permitted the handler answers at once, else it calls the
\* backend.
Send ==
    /\ pc = "check" /\ i > Len(req.objects)
    /\ IF objects = <<>>
       THEN /\ pc' = "done"
            /\ answer' = Result(errors, {}, {})
            /\ UNCHANGED sent
       ELSE /\ pc' = "sent"
            /\ sent' = objects
            /\ UNCHANGED answer
    /\ UNCHANGED <<req, i, objects, errors, denials>>

\* The backend deletes some objects and fails on the others; in quiet mode it
\* lists only the failed ones.
BackendAnswers ==
    /\ pc = "sent"
    /\ \E failed \in SUBSET (1 .. Len(sent)) :
          answer' = Result(errors, failed,
                           IF req.quiet THEN {} ELSE (1 .. Len(sent)) \ failed)
    /\ pc' = "done"
    /\ UNCHANGED <<req, i, objects, errors, denials, sent>>

\* The call fails as a whole: FromSDKError.
BackendFails ==
    /\ pc = "sent"
    /\ Fail

Next == resolveBucket \/ Refuse \/ Read \/ CheckObject \/ Send \/ BackendAnswers \/ BackendFails

Spec == Init /\ [][Next]_vars

-----------------------------------------------------------------------------
(* Properties *)

\* What a request for o alone would need: the whole check of authorize.
Authorized(o) ==
    /\ authorize(req.vr, req.b, DeleteAction(o), o.key) = Granted
    /\ req.bypass => authorize(req.vr, req.b, "BypassGovernanceRetention", o.key) = Granted

\* No statement lets this requester of another tenant do the action.
NoAllow(action) ==
    /\ req.b.tenant # req.vr.tenant
    /\ \A k \in 1 .. Len(req.b.policy) :
          req.b.policy[k].effect = "Allow"
            => ~Applies(req.b.policy[k], Principal(req.vr), action, req.vr.source)

\* Why a request for o alone would be refused, as authorize reports it: the delete
\* first, then the bypass.  Where no Allow applies the summary names the cross-tenant
\* baseline, even for a key that authorize would blame on a Deny.
Reason(o) ==
    LET action == IF authorize(req.vr, req.b, DeleteAction(o), o.key) # Granted
                  THEN DeleteAction(o) ELSE "BypassGovernanceRetention"
        reason == authorize(req.vr, req.b, action, o.key)
    IN  IF reason.layer = "bucket-policy" /\ NoAllow(action)
        THEN [layer |-> "cross-tenant", statement |-> NoStatement] ELSE reason

\* The sequence s has the request's objects at the positions J, in their order.
InOrder(s, J) ==
    \E f \in [1 .. Len(s) -> J] :
        /\ \A a, c \in 1 .. Len(s) : a < c => f[a] < f[c]
        /\ \A a \in 1 .. Len(s) : s[a] = req.objects[f[a]]
        /\ \A j \in J : \E a \in 1 .. Len(s) : f[a] = j

\* The positions, up to n, of the objects the requester may and may not delete.
Permitted(n) == {j \in 1 .. n : Authorized(req.objects[j])}
Refused(n) == {j \in 1 .. n : ~Authorized(req.objects[j])}

\* The summary d counts, under each reason, the objects at the positions J that were
\* refused for it, and has an entry for no other reason.
Summary(d, J) ==
    /\ DOMAIN d = {Reason(req.objects[j]) : j \in J}
    /\ \A r \in DOMAIN d : d[r] = Cardinality({j \in J : Reason(req.objects[j]) = r})

\* Types: the loop stays within the request's objects, and the backend is never
\* asked to delete more of them than the handler's limit.
TypeOK ==
    /\ req \in Requests
    /\ pc \in {"resolve", "read", "check", "sent", "done"}
    /\ i \in 1 .. Len(req.objects) + 1
    /\ objects \in Seq(Object) /\ errors \in Seq(Object) /\ sent \in Seq(Object)
    /\ Len(sent) <= MaxObjects
    /\ answer.status \in {"none", "hidden", "error", "ok"}

\* The backend is never asked to delete an object the requester may not
\* delete on its own, whichever shortcut of the per-object check was taken.
OnlyAuthorized == \A k \in 1 .. Len(sent) : Authorized(sent[k])

\* The visibility gate hides a bucket only from requesters who could not delete
\* any of their objects anyway: it reads neither NotPrincipal nor conditions, and
\* relies on what a parsed policy cannot say (MentionsPrincipal, authorize).
HiddenIsDenied ==
    answer.status = "hidden" /\ validate(req.b.policy) =>
        \A k \in 1 .. Len(req.objects) : ~Authorized(req.objects[k])

\* The precomputed check also refuses nothing the whole check permits: the
\* backend is sent exactly the permitted objects, in the request's order.
PermittedSent == sent # <<>> => InOrder(sent, Permitted(Len(req.objects)))

\* An answer accounts for every object of the request, unless Quiet leaves
\* out the deleted ones; then it still lists every refused one, in the request's
\* order.  The observer's summary has one entry for each reason, counting the
\* objects refused for it as lone requests would be (addDenial, denyReason).
Accounted ==
    answer.status = "ok" =>
        /\ ~req.quiet => Len(answer.errors) + Cardinality(answer.failed)
                           + Cardinality(answer.deleted) = Len(req.objects)
        /\ InOrder(answer.errors, Refused(Len(req.objects)))
        /\ Summary(denials, Refused(Len(req.objects)))
=============================================================================
