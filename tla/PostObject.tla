----------------------------- MODULE PostObject -----------------------------
(***************************************************************************)
(* Browser-based POST uploads: handlePostObject and postPutObject of       *)
(* s3gw/postobject.go with VerifyPost of sigv4/postpolicy.go.              *)
(*                                                                         *)
(* Uploads run concurrently against one backend bucket.  Up to the call of *)
(* the backend an upload shares nothing with the others and is one step;   *)
(* then the file streams, the backend stores it, and an upload that turns  *)
(* out too short is deleted again, other uploads coming in between.        *)
(*                                                                         *)
(* A form is [fields, filename, size, form, doc, sig, date]: its fields    *)
(* (name -> value), the file's name and size (NoFile without one), whether *)
(* the rest of it is in order ("ok" or "bad": query, SSE-C and amz         *)
(* headers, multipart syntax, field sizes, credential), the policy         *)
(* document, what was signed, and the signing date.  A value is a sequence *)
(* of parts, so that it has prefixes; Filename is the part ${filename}.    *)
(* The field "credential" stands for the algorithm, credential, date and   *)
(* token fields, and "policy" for the policy and the signature.            *)
(***************************************************************************)
EXTENDS Integers, Sequences, FiniteSetsExt

CONSTANTS Uploads,
          Form,            \* the forms a browser may submit
          Secret,          \* of the access key the forms name
          Target,          \* the bucket the URL targets, as a value
          Now, Skew, MaxAge,      \* v.now(), maxClockSkew and maxPresignExpires
          MaxPostFields, MaxConditions,
          Unlimited        \* math.MaxInt64

ASSUME PostObjectAssumption ==
    /\ Now \in Int /\ Skew \in Nat /\ MaxAge \in Nat
    /\ MaxPostFields \in Nat /\ MaxConditions \in Nat /\ Unlimited \in Nat

VARIABLES versioning,     \* of the backend bucket: "enabled" or "off"
          pc, form,
          n,          \* lengthBoundedBody.n: bytes read of each file
          bucket,     \* the backend's objects [by, key, size, fields]
          hidden,     \* the keys whose newest version is a delete marker
          answer      \* of each upload: "none", "refused", "failed", "small", "ok"

vars == <<versioning, pc, form, n, bucket, hidden, answer>>

NoFile == -1
Filename == "${filename}"

Init ==
    /\ versioning \in {"enabled", "off"}
    /\ pc = [u \in Uploads |-> "submit"]
    /\ form \in [Uploads -> Form]
    /\ n = [u \in Uploads |-> 0]
    /\ bucket = {}
    /\ hidden = {}
    /\ answer = [u \in Uploads |-> "none"]

-----------------------------------------------------------------------------
(* The form *)

Ignored == {"x-ignore-a"}
Mapped == {"key", "bucket", "acl", "content-type", "credential", "policy"}

\* strings.ReplaceAll(keyField, "${filename}", filename)
Substituted(f) ==
    LET key == f.fields["key"]
        upTo[i \in 0 .. Len(key)] ==
            IF i = 0 THEN <<>>
            ELSE upTo[i - 1] \o (IF key[i] = Filename THEN f.filename ELSE <<key[i]>>)
    IN  upTo[Len(key)]

\* Faulty: the file's name is put into the key after the conditions were checked.
fieldsRawKey(f) ==
    [x \in (DOMAIN f.fields \ Ignored) \cup {"bucket"} |->
        IF x = "bucket" THEN Target ELSE f.fields[x]]

\* The fields the conditions are evaluated against.
fields(f) ==
    [x \in (DOMAIN f.fields \ Ignored) \cup {"bucket"} |->
        CASE x = "bucket" -> Target
          [] x = "key" -> Substituted(f)
          [] OTHER -> f.fields[x]]

readPostForm(f) == f.size # NoFile /\ Cardinality(DOMAIN f.fields) <= MaxPostFields

HasKey(f) == "key" \in DOMAIN f.fields /\ f.fields["key"] # <<>> /\ Substituted(f) # <<>>

-----------------------------------------------------------------------------
(* The policy document: [expiration, conds], a condition being             *)
(* [op, field, value] or [op |-> "content-length-range", min, max].        *)

Ranges(doc) == {c \in Range(doc.conds) : c.op = "content-length-range"}
Conds(doc) == Range(doc.conds) \ Ranges(doc)

\* Sizes and bounds are int64.
ASSUME FormAssumption ==
    \A f \in Form :
        /\ f.size \in Int
        /\ \A c \in Ranges(f.doc) : c.min \in Int /\ c.max \in Int /\ c.max <= Unlimited

\* Faulty: repeated ranges are joined, not intersected.
MinLengthJoined(doc) == Min({Unlimited} \cup {c.min : c \in Ranges(doc)})

\* Repeated ranges are intersected.
MinLength(doc) == Max({0} \cup {c.min : c \in Ranges(doc)})
MaxLength(doc) == Min({Unlimited} \cup {c.max : c \in Ranges(doc)})

parsePostPolicy(doc) ==
    /\ Len(doc.conds) <= MaxConditions
    /\ \A c \in Conds(doc) : c.op \in {"eq", "starts-with"}
    /\ \A c \in Ranges(doc) : 0 <= c.min /\ c.min <= c.max
    /\ MinLength(doc) <= MaxLength(doc)

HasPrefix(v, prefix) == Len(prefix) <= Len(v) /\ SubSeq(v, 1, Len(prefix)) = prefix

\* Every condition holds, and every field but the policy's own is named by one.
evaluatePostPolicy(doc, fs) ==
    /\ \A c \in Conds(doc) :
        /\ c.field \in DOMAIN fs
        /\ IF c.op = "eq" THEN fs[c.field] = c.value ELSE HasPrefix(fs[c.field], c.value)
    /\ DOMAIN fs \ {"policy"} \subseteq {c.field : c \in Conds(doc)}

VerifyPost(f) ==
    /\ {"credential", "policy"} \subseteq DOMAIN f.fields
    /\ f.date <= Now + Skew
    /\ Now - f.date <= MaxAge
    /\ f.sig = [secret |-> Secret, doc |-> f.doc]
    /\ parsePostPolicy(f.doc)
    /\ Now <= f.doc.expiration
    /\ evaluatePostPolicy(f.doc, fields(f))

checkPostFields(f) == DOMAIN fields(f) \subseteq Mapped

PrivateACL(f) ==
    "acl" \in DOMAIN f.fields =>
        f.fields["acl"] \in {<<>>, <<"private">>, <<"bucket-owner-full-control">>}

Accepted(f) ==
    /\ f.form = "ok"
    /\ readPostForm(f) /\ HasKey(f)
    /\ VerifyPost(f)
    /\ PrivateACL(f) /\ checkPostFields(f)

-----------------------------------------------------------------------------
(* The upload *)

Goto(u, label) == pc' = [pc EXCEPT ![u] = label]
Answer(u, a) == answer' = [answer EXCEPT ![u] = a] /\ Goto(u, "done")

\* The form does not pass, or the bucket, the policies or a hook refuse it
\* (module Gateway has those).
Refuse(u) ==
    /\ pc[u] = "submit"
    /\ Answer(u, "refused")
    /\ UNCHANGED <<versioning, form, n, bucket, hidden>>

\* handlePostObject up to the call of the backend.
handlePostObject(u) ==
    /\ pc[u] = "submit"
    /\ Accepted(form[u])
    /\ Goto(u, "stream")
    /\ UNCHANGED <<versioning, form, n, bucket, hidden, answer>>

\* Faulty: the bound is compared with what was read before.
ReadLate(u, k) ==
    /\ pc[u] = "stream"
    /\ n[u] + k <= form[u].size
    /\ n' = [n EXCEPT ![u] = @ + k]
    /\ IF n[u] > MaxLength(form[u].doc)
       THEN Answer(u, "failed")
       ELSE UNCHANGED <<pc, answer>>
    /\ UNCHANGED <<versioning, form, bucket, hidden>>

\* lengthBoundedBody.Read: an error from it makes PutObject fail.
Read(u, k) ==
    /\ pc[u] = "stream"
    /\ n[u] + k <= form[u].size
    /\ n' = [n EXCEPT ![u] = @ + k]
    /\ IF n'[u] > MaxLength(form[u].doc)
       THEN Answer(u, "failed")
       ELSE UNCHANGED <<pc, answer>>
    /\ UNCHANGED <<versioning, form, bucket, hidden>>

\* The backend stores the whole body: a new version, or in place of the object
\* the key had.
Stored(u) ==
    LET key == Substituted(form[u])
        o == [by |-> u, key |-> key, size |-> n[u],
              fields |-> [fields(form[u]) EXCEPT !["key"] = key]]
        kept == IF versioning = "enabled" THEN bucket ELSE {x \in bucket : x.key # key}
    IN  /\ pc[u] = "stream" /\ n[u] = form[u].size
        /\ bucket' = kept \cup {o}
        /\ hidden' = hidden \ {key}

\* The version id PutObject returns, as a set: with versioning that of the version
\* u has just written, else none.
VersionId(u) == IF versioning = "enabled" THEN {u} ELSE {}

\* The backend deletes the version that is named.  When none is, it deletes the
\* object, or with versioning puts a delete marker on top of the key's versions.
DeleteObject(key, id) ==
    LET marker == id = {} /\ versioning = "enabled"
    IN  /\ bucket' = {o \in bucket : \/ marker
                                     \/ id # {} /\ o.by \notin id
                                     \/ id = {} /\ o.key # key}
        /\ hidden' = IF marker THEN hidden \cup {key} ELSE hidden

\* PutObject returns; postPutObject looks at the size that is known now.
PutObject(u) ==
    /\ Stored(u)
    /\ IF n[u] < MinLength(form[u].doc)
       THEN Goto(u, "undo") /\ UNCHANGED answer
       ELSE Answer(u, "ok")
    /\ UNCHANGED <<versioning, form, n>>

\* The backend stores the object but its answer is lost.
PutObjectLost(u) ==
    /\ Stored(u)
    /\ Answer(u, "failed")
    /\ UNCHANGED <<versioning, form, n>>

\* The backend fails, or the client's connection breaks off.
PutObjectFails(u) ==
    /\ pc[u] = "stream"
    /\ Answer(u, "failed")
    /\ UNCHANGED <<versioning, form, n, bucket, hidden>>

\* Faulty: the version is not named.
UndoUnnamed(u) ==
    /\ pc[u] = "undo"
    /\ DeleteObject(Substituted(form[u]), {})
    /\ Answer(u, "small")
    /\ UNCHANGED <<versioning, form, n>>

\* DeleteObject of the version PutObject returned, or of the key when it
\* returned none.
Undo(u) ==
    /\ pc[u] = "undo"
    /\ DeleteObject(Substituted(form[u]), VersionId(u))
    /\ Answer(u, "small")
    /\ UNCHANGED <<versioning, form, n>>

\* Its error is not looked at.
UndoFails(u) ==
    /\ pc[u] = "undo"
    /\ Answer(u, "small")
    /\ UNCHANGED <<versioning, form, n, bucket, hidden>>

Step(u) ==
    \/ Refuse(u)
    \/ handlePostObject(u)
    \/ \E k \in 1 .. form[u].size : Read(u, k)
    \/ PutObject(u)
    \/ PutObjectLost(u)
    \/ PutObjectFails(u)
    \/ Undo(u)
    \/ UndoFails(u)

Next == \E u \in Uploads : Step(u)

Spec == Init /\ [][Next]_vars

-----------------------------------------------------------------------------
(* Properties *)

\* Types: while a file streams, no more of it has been handed to the backend
\* than the policy permits (lengthBoundedBody).
TypeOK ==
    /\ versioning \in {"enabled", "off"}
    /\ pc \in [Uploads -> {"submit", "stream", "undo", "done"}]
    /\ form \in [Uploads -> Form]
    /\ \A u \in Uploads : pc[u] = "stream" => n[u] \in 0 .. MaxLength(form[u].doc)
    /\ answer \in [Uploads -> {"none", "refused", "failed", "small", "ok"}]

\* Whatever is in the bucket, for however short a time, was stored as a policy
\* signed with the account's secret permits: each condition holds of the key
\* and fields it really has, after ${filename} was put in, each field is named
\* by a condition, and it is no longer than any range allows (VerifyPost).
StoredAsSigned ==
    \A o \in bucket :
        LET doc == form[o.by].doc
        IN  /\ form[o.by].sig = [secret |-> Secret, doc |-> doc]
            /\ o.fields["key"] = o.key /\ o.fields["bucket"] = Target
            /\ evaluatePostPolicy(doc, o.fields)
            /\ \A c \in Ranges(doc) : o.size <= c.max

\* An upload is answered with success only when its size is in every range of
\* the document ("intersected when repeated").
AcceptedInRange ==
    \A u \in Uploads : answer[u] = "ok" =>
        \A c \in Ranges(form[u].doc) : form[u].size \in c.min .. c.max

\* With versioning the undo of a short upload takes away its own version only ("the
\* version id targets the exact version just written - a plain delete would only add
\* a delete marker on top of it"): what another upload to the same key was told is
\* stored is still there, under no delete marker.
AcceptedKept ==
    versioning = "enabled" =>
        \A u \in Uploads : answer[u] = "ok" =>
            /\ \E o \in bucket : o.by = u
            /\ Substituted(form[u]) \notin hidden
=============================================================================
