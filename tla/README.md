# A TLA+ verification of s3rp

s3rp is a multi-tenant S3 API gateway. A request is authenticated against a
definition store, its bucket is resolved, policies decide about it, and it is
translated into calls to the backend that holds the bucket. This directory has
TLA+ models of its parts, TLC runs that check them on small instances, and
TLAPS proofs of the properties that matter most. `PROJECT.json` lists the
components, runs, mutants, hazards and theorems, and maps every definition to
the lines it models.

Run `tlc -config MCGateway.cfg MCGateway` (and likewise for the other pairs of
configuration and module), and `tlapm GatewayProofs.tla` (and likewise for
every `*Proofs` module).

## The system and its parts

| part | source | module | status |
|---|---|---|---|
| request lifecycle: routing, error documents, panics, the observer | `s3gw/handler.go`, `observe.go`, `panic.go` | `Gateway` | partly |
| bucket resolution, copy sources | `s3gw/handler.go`, `copy.go` | `Gateway`, `DeleteObjects` | partly |
| CORS | `s3gw/cors.go`, `cors/cors.go` | `Cors`, `Gateway` | partly |
| hooks of the service: authorizer, interceptors | `s3gw/intercept.go` | `Gateway` | partly |
| policy evaluation and validation | `policy/`, `s3gw/bucketpolicy.go`, `denyreason.go` | `Policy`, `Glob` | partly |
| signature verification | `sigv4/sigv4.go`, `canonical.go` | `Verifier` | modelled |
| signing key cache | `sigv4/signer.go` | `SignerCache` | modelled |
| request bodies | `s3gw/proxy.go`, `checksums.go` | `RequestBody` | modelled |
| aws-chunked decoding | `sigv4/chunked.go` | `ChunkedReader` | modelled |
| object operations, multipart uploads, copies, tags, object lock, SSE keys | `s3gw/proxy.go`, `multipart.go`, `copy.go`, `tagging.go`, `objectlock.go`, `sse.go` | `Objects` | partly |
| DeleteObjects | `s3gw/proxy.go` | `DeleteObjects` | modelled |
| browser POST upload | `s3gw/postobject.go`, `sigv4/postpolicy.go` | `PostObject` | partly |
| ListBuckets, and the test harness's bucket interceptor | `s3gw/proxy.go`, `s3tests/harness/` | `Buckets` | modelled |
| circuit breaker | `s3gw/breaker.go` | `Breaker`, `BreakerPromise` | modelled |
| backend client cache | `s3gw/gateway.go`, `gateway_api.go` | `ClientCache` | partly |
| server and shutdown | `s3rp.go` | `Server` | partly |
| addressing, configuration, operation catalog, metrics | see `PROJECT.json` | | not modelled |

How they interact: each request is a goroutine. Requests share the store,
which the service changes under them, and three things inside the gateway: the
signing key cache, the client cache and one breaker per backend. Everything
else belongs to one request. `Gateway` therefore has the store as shared state
and the three shared structures have modules of their own, each with its
concurrent users. Three compositions are checked as such: `Verifier` extends
`SignerCache`, so that verification is checked over the very cache it uses;
`RequestBody` extends `ChunkedReader` in the same way; and `Gateway` and
`DeleteObjects` extend `Policy` (`Gateway` through `Cors`), so that one
translation of the policy code decides in both. What clients see of object
operations depends on the backend that all requests share, and `Objects` has
that backend, with calls that fail and answers that are lost.

## The modules

**Gateway.** One process per request. A step ends where the goroutine calls
something outside it (the store, a hook, the backend, the client's connection),
for that is where others run: `Arrive`, `handlePreflight`, `verifyRequest`,
`ResolveOwn` and `ResolveByName` (the two lookups of `resolveBucket`),
`dispatch`, `resolveCopySource`, `Proceed` and `Swallow` (a hook that calls
next, or does not), `Run`, `Answer`, `Write`, `InterceptAfter`, and the end of
`wrapHandler`: `Report`, `Recover`, `Abort`. `Panic` may happen wherever code
runs. `sw` is what `statusWriter` has let through, `client` what the client
has in the end, `rec` what the observer was given. `seenKeys` and
`seenBuckets` are history: the records the store held since the request
arrived. A signature is valid when the request was signed with the secret in
the key record (`Verifier` has the verification itself). `cors` is the origin
the response's CORS headers name.

**Cors.** `Match`, `AllowPreflight`, `SetHeaders` and `setAllowOrigin`. A
rule's patterns are the sets of origins and headers they match.

**Policy.** `Decide`, `UserPolicy.Decide`, `MentionsPrincipal`, the
precomputed evaluators, `authorize` and `perObjectAuthorizer` with the reasons
they give; `validate`, which a policy has passed once it was accepted. `Decide`
takes every effect but Deny for an Allow, as the code does; the precomputed
evaluators only those that say Allow. A statement's action and resource patterns are the sets they match, its condition
the sets of addresses it names and whether its values parsed.

**Glob.** `matchRunes`, one loop iteration per step, against what the two
wildcards mean: an alignment of the pattern with the value, which says how far
into the value each character of the pattern gets. Being a function that exists
rather than a recursion, it can be cut and joined in proofs.

**DeleteObjects.** The handler from the gate of `resolveBucket` (which
`HiddenIsDenied` compares with `authorize` for policies that pass `validate`)
to the answer: limits, the shortcut that skips the per-object check, one step per
object, the backend's partial answer or failure, Quiet, the denials for the
observer.

**Breaker and BreakerPromise.** `ConsecutiveFailures` as the middleware around
every attempt of every request, with the SDK's retries (external), clients
that leave and a backend that goes up and down. The code uses its two time
stamps only as ages compared with the cooldown, so the model keeps the ages,
capped at `Cooldown`. `BreakerPromise` says what a breaker owes its backend
without any of the breaker's own states; `Breaker` implements it under the
mapping in `Promise`. Its `row`, the failures in a row, is counted from how
attempts ended and not from how `classifyAttempt` classed them, so that an
outcome put in the wrong class breaks the promise.

**ChunkedReader.** `Read` and its helpers for the three kinds of stream, fed
any stream at all: chunks missing, repeated, resized, altered, cut short. A
signature is its position in the client's chain, a hash is what it was computed
over, so the model assumes that neither can be made without the key or the
bytes. The consumer may stop at the declared length, as the SDK does.

**RequestBody.** `requestBody` picks a reader by the signed payload hash: the
decoder of `ChunkedReader`, a `payloadVerifier` or the body as it comes, or
refuses trailers and lengths that do not fit. The consumer is the SDK, which
stops at the declared length, or `readXMLBody`, which stops at a limit. A
failing bandwidth limiter is a failing read.

**PostObject.** Browser uploads, concurrent and to one backend bucket with or
without versioning. Up to the backend call an upload shares nothing with
others and is one step (`handlePostObject`, with `VerifyPost` and the policy
document's conditions as predicates on the form); then `Read` streams the file
through `lengthBoundedBody`, `PutObject` stores it, its answer may get lost,
and `Undo` deletes an upload that was too short, by the version id the backend
gave it; without one, a versioned bucket gets a delete marker that hides the key
(`hidden`), and an unversioned one loses what the key holds. Form values are sequences of
parts, so that they have prefixes and `${filename}` is a part.

**SignerCache.** `signerCache.get` as lookup, derivation and store, with other
verifications and rotations between; a derived key is what it was derived
from. `SetSignerCacheSize` is documented as a call made before serving and is
left out.

**Verifier.** `Verify` over `SignerCache`: both forms with their checks in
the order of the code (the header form reads the clock after the lookup, the
presigned form before it), the session token, the key cache's steps, the
comparison, and `promoteHoistedQueryParams`. A signature is the record of what
was signed. `Duration` arithmetic wraps around at a scaled width. `at` and
`since` are history: the clock and the key's generation at arrival.

**Objects.** Each handler is an operator from what was asked to the backend's
input (`putObject`, `copyObject`, `completeMultipartUpload`, ...); a request
sends, calls, is answered, and is repeated: by the SDK where there is no body
to stream, by the client where there was no answer. The backend (external)
keeps versions, uploads, locks and keys, and checks preconditions. It refuses a
retention or a legal hold where there is no versioning, and a retention mode
without a date or a date without a mode, as S3 does; a retention outlasts the
behaviour. Dates that cannot be read are refused or dropped as each handler
does. Content is the request whose body it is, or the sequence of its parts'
contents.

**Buckets.** The interceptor's `createBucket` (claim, backend call, rollback)
and `deleteBucket` (owner check, backend call, release), with answers that are
lost and effects that come late, under the gateway's `listBuckets` walked page
by page.

**Server.** `Run`, `Serve`, the goroutine that calls `http.Server.Shutdown`,
and the deferred functions.

**ClientCache.** `backendClient`, `SetBackend` and `SetClientCacheSize` over
an LRU cache (external). `SetClientCacheSize` first stores the capacity that is
reported (`clientCacheCap`) and then resizes the LRU (`size`), and requests come
between; it is called by one goroutine at a time. The counters are state of the model, because `Converges` speaks of
requests served before the first eviction or substitution. Its specification is
called `CacheSpec` (and so on), because `BackendProofs` extends it together with
`Breaker`.

Definitions marked "Faulty" are mutants. Each changes one definition the way
a plausible mistake in that code would, and breaks the property it is listed
with in `PROJECT.json`.

## The runs

| run | distinct states | what it shows |
|---|---|---|
| `gateway` | 333,170 | an operation runs only for a request let through by records the store held while it was served; CORS headers come from no bucket the requester may not see; every request is observed once; a panic never looks like an answer; no error document follows a response that has begun |
| `delete_objects` | 754,192 | the gate hides a bucket only from requesters every object would be refused to; the backend is sent exactly the permitted objects; the answer and the denials account for the others |
| `verify` | 599,921 | what is accepted was in its time, signed with a secret and token current during its verification, and is read as signed; signing keys are derived only for recent dates, and never used for another id, scope or secret |
| `body` | 10,150 | what a consumer takes for the whole body is the payload the client vouched for, for every kind of body |
| `objects` | 1,030,762 | preconditions hold when a call takes effect; a completed object is what was listed; answers are true even after lost ones; locked versions stay; the backend's key ids stay hidden |
| `buckets` | 549,848 | a failed creation leaves no claim; registered names have their bucket; only owners remove; a walk lists what was there throughout, once |
| `breaker` | 4,744 | the breaker keeps its promise; it is never wedged half-open, and closes for good once the backend stays up |
| `client_cache` | 1,880,388 | each request has a client of its own backend; concurrent misses share one; but for the moment of a resize the cache holds no more than the capacity reported |
| `post_object` | 222,274 | what is in the bucket, even for a moment, is what a signed policy permits; an upload answered with success is in every length range; with versioning no undo takes away or hides another upload's object |
| `glob` | 182,252 | the matcher says yes only to what the wildcards mean, returns exactly that for values without a `*`, loses no match by going back to the last star alone, and always returns |

Some of what is proved for all constants has no run of its own: the types of
`Gateway`, `DeleteObjects`, `Glob`, `Breaker`, `RequestBody`, `Verifier` and
`Objects`; `ProbeSpacing`,
`Integrity`, `Bounded`, `ChunkBoundary` and `KeepsCache`; `OnlyAuthorized` of
`DeleteObjects`; and `Progresses` of `Glob`.

Two runs end in a violation: places where the code does something other than
its comments say.

- `glob_star`: the literal case of `matchRunes` precedes the wildcard case.
  Where the value holds a `*` under the pattern's `*`, the two are matched as
  equal characters and the star is forgotten: `Match("*", "*a")` is false.
- `server_graceful`: `Serve` does not wait for the goroutine that calls
  `Shutdown`. `ListenAndServe` returns as soon as the listener is closed, so
  the metrics are flushed, the store is closed and the process ends while
  requests are in flight.

### Seen while modelling, without a run

- An interceptor that returns nil without calling next does not refuse the
  request, as `intercept.go:208` says; the client gets an empty 200.
- A relayed body without a Content-Length that breaks off is ended like a
  complete one (`"truncated"` in `Gateway`); the comment at `proxy.go:123`
  expects a broken body.
- `postobject.go:321` undoes an upload that was too short; the delete's result
  is not looked at and it runs in the request's context, so when it fails the
  short object stays.
- `docs/s3-api.md:74` says the gateway never drops a precondition silently;
  `copyObject` does not forward those on the target, `uploadPartCopy` not those
  on the source, and a date that cannot be read is dropped on reads and copy
  sources (`applyConditionalHeaders`). `ConditionsHold` therefore speaks of puts,
  completions, deletes, reads, and the source of a copy, the last two without
  such dates.
- `applyObjectLockHeaders` drops a retain-until date that cannot be read and
  keeps the mode. `LockedStays` counts such a version as one whose writer asked
  for a lock; it holds because the backend is taken to refuse a mode without a
  date.
- Of query parameters that differ only in case, one is promoted, and the order
  of a Go map says which; both are signed, which is what `ReadAsSigned` asks.
- Two deletes of one name: the second may have looked the owner up before the
  first removed the name and another tenant claimed it, and then removes the
  new bucket. `OnlyOwnersRemove` says what does hold: its tenant owned the
  name while the request was served.
- A DELETE of a bucket whose answer is lost leaves the name registered, while
  the bucket may be gone. `RegisteredExists` makes an exception of such names.
- A completion whose answer was lost is repeated and then answered with an error
  although the object is there, as `docs/building-a-service.md:662` says;
  `AnswersTruthful` allows it.
- For a cross-tenant requester without a matching Allow, `denyReason` gives the
  cross-tenant default even when a Deny statement matched as well; the refusal
  is right. `DenyReasonAgrees` proves that this is the only difference between
  the summary and what `authorize` reports.
- Without versioning the undo of a short upload can only delete the key, and so
  takes with it what another upload stored there before or meanwhile;
  `AcceptedKept` is therefore about versioned buckets, which is what the
  code's comment speaks of.

### Bounds, and why they are enough

- `gateway`: one request, two changes of the store. Requests share only the
  store, so other requests add nothing to one that a changing store does not;
  two changes are enough to change a record before and after each of the
  lookups it is compared with. The records cover a rotated secret, a key moved
  to another tenant, a bucket that changes owner, policy, backend and CORS
  rules (two rules, of which the first match decides), and a copy source. The
  proofs cover any number of requests and changes.
- `delete_objects`: the limit is 2 in place of 1000, with requests of none, one,
  two and three objects; policies of one statement, or an Allow and a Deny, over
  two keys, two actions and the bypass action, with principals by user, by
  tenant, by exclusion and everyone, and conditions that hold, fail or do not
  parse; requesters of the bucket's own tenant and of another.
- `breaker`: threshold 2, cooldown 3, three requests with two attempts, so that
  two late reports can surround a probe; no symmetry, for the sake of liveness.
- `body`: three payload bytes of two values in two chunks, one equal to a
  part of the other, declared lengths up to four, so that too short, exact and
  too long all occur; the limit on documents is one below the longest body.
- `verify`: two access keys that share a slot, one with session tokens and a
  remote signing key, one rotation each. One request is any of some thirty:
  well signed ones of both forms on both sides of skew and expiry, and others
  that differ in one thing; a second one shares the cache. A `Duration` has 64
  values, and three expiries lie on both sides of where it wraps around.
- `objects`: three requests, two at a time, over two keys, with and without
  versioning; two faults in all and two attempts of the SDK, which lose an
  answer and then fail its repetition. Preconditions, dates and locks come
  well-formed and unreadable, bypass headers with "true" and with another value;
  tags are set but not removed, which no property tells apart.
  Requests are symmetric.
- `buckets`: three requests of two tenants over three names of which one is
  invalid, and a fourth that stays, pages of one and two: enough for a delete
  overtaken by a delete and a creation, and for a page to end at a name that
  goes away. The name that stays is the walking tenant's from the start.
  Requests are symmetric.
- `client_cache`: two endpoints, one with a rotated secret, two concurrent
  requests, at most three clients built, four lookups, sizes 0 (taken as 1), 1
  and 3: enough to evict a client while another request is about to add one.
- `post_object`: two uploads, each with any of some 105 forms: every set of
  fields (covered, uncovered, ignored, unknown, without a key) under every
  document (equality, prefix, one range, two ranges, disjoint ranges, an unknown
  operator, too many conditions), then sizes on both sides of each bound, dates
  on both sides of skew and age, a stale policy and a wrong signature.
- `glob`: patterns of `a`, `b` and the wildcards and values of `a`, `b` and `*`,
  up to four characters each; two stars with text before, between and after them
  need no more.

### Fairness

Only two specifications have any. `Glob` is a loop without waiting, so its
next step is weakly fair. In `Breaker` time passes; clients keep coming; an
attempt that is in flight ends (the SDK's transport has timeouts, and a client
that leaves ends it too); and, when attempts keep ending, not all of them end
because the client left, which is strong fairness of `Finish`. `NeverWedged`
and `Recovers` need these: with no further request nothing can probe, and if
every probe is abandoned nothing is ever learnt.

## The proofs

All theorems are checked by TLAPS for every value of the constants: any number
of requests, keys, tenants, backends and statements, any limits. Every safety
property of the passing runs is proved.

The assumptions are the named ones of the modules, and TLC evaluates them on
every run. Most give the types and sizes of the constants. Those that say more:
`VerifierAssumption`, what a parsed request's fields range over, and that the
clock skew is no longer than the week a presigned URL may live;
`FormAssumption`, that sizes and length bounds are integers up to `Unlimited`;
`ClientCacheAssumption`, that a backend is its endpoint and secret;
`DeleteObjectsAssumption`, that a body names a sequence of objects and that the
effects of a bucket policy are Allow and Deny, which `validate` sees to before a
policy is accepted (in `GlobAssumption` patterns and values are sequences of characters, no more);
`ObjectsAssumption`, that only completions list parts, that the preconditions of
puts and completions are ETags (the headers have no dates), and that a key mapper knows every id a client may send and gives no client a name that is itself an
id of the backend.

- **GatewayProofs** (`TypeCorrect`, `RunsOnlyAuthorized`, `CORSGuarded`,
  `Observed`, `PanicsAnswered`, `NothingAppended`). `OnlyAuthorized` speaks of requests
  that run; `IInv` says what holds at each stage before that: `Tracked`, the
  store's records are among those seen since arrival; `Stages`, what has been
  established at each program counter (a verified key, a target bucket, the
  granted actions, the source); `Answers`, what has been written and reported
  so far; `Decorated`, that CORS headers are set by the step that resolves the
  bucket and come from a record the request may see. Each step establishes the
  clause of the stage it goes to.
- **PolicyProofs**. Five theorems need no state machine. `StricterGrantsLess`: of
  two bucket policies, one with at least the Deny and at most the Allow statements
  of the other grants no more, whatever the order and number of the statements, so
  two policies of the same statements grant the same. `UserPolicyNarrows`: a user
  policy only takes away. `PerObjectAgrees`, `GrantedIsVisible` and
  `DenyReasonAgrees`: for every requester, action and key the precomputed
  evaluators grant only what `authorize` grants, and all of it when the policy's
  effects are Allow and Deny; under a validated policy, what `authorize` grants a requester of another tenant needs
  an Allow statement that mentions them; and the reason read off the evaluators
  is the one `authorize` gives, but for the case noted above. From
  `PerObjectAgrees` and `GrantedIsVisible`, with the invariant that every object
  collected so far is authorized, follow `DeletesOnlyAuthorized`, `HidesFromNoOne` and `TypeCorrect`. For
  `SendsAllPermitted` and `AccountsForAll` the invariant `CInv` says that the
  loop has split the objects up to `i - 1`: the permitted ones are in `objects`
  and the refused ones in `errors`, in order, and `denials` counts the refused
  ones by reason. "In order" is an increasing function from positions to
  positions, so a step extends that function and no induction over the list is
  needed.

  The matcher (`GlobTypeCorrect`, `YesIsRight`, `MatchesPlain`, `LastStarOnly`,
  `GetsFurther`) has an invariant of two halves. `Sound`: the pattern up to its
  cursor stands for the value up to its cursor, so does the pattern up to the last
  star for the value up to the star's start, and since then the two cursors have
  moved in step. `Complete`, for values without a `*`: there is no star in the
  pattern since the last, and if there is a match at all then there is one from
  the cursors, or one that starts later after the last star (`Ahead`). The step
  that opens a new star and forgets the old one is the hard one: a match that
  would have needed the old star to take more passes the new star later than the
  value's cursor (`Onward`), so the new star can take the difference. That where
  there is no star each character takes one (`Lockstep`), and that alignments
  only rise (`Rising`), are inductions over positions, done with a least
  counterexample. The proof shows where a value with a `*` breaks the claim: only
  `Complete` needs `Plain`, and only in the literal case; the matcher never says
  yes wrongly.
- **BackendProofs**. The breaker (`TypeCorrect`, `ProbesSpaced`, `Refinement`):
  the invariant ties the two ages (an open breaker's `since` is no older than
  its last probe), and ties the failures counted to those reported since the
  last success (`row`, kept apart from the breaker's own count so that the
  promise is about how attempts ended); without the first, reopening could
  shorten the distance of two probes. The client cache (`CacheTypeCorrect`,
  `OwnBackend`, `MissesConverge`): `CacheInv` reads the LRU list as the set of
  its entries, one for each key and each under the key of the backend its client
  was built from; a request that builds or uses a client has one of its own
  backend (`Owns`), and as long as nothing was evicted or substituted the client
  in use is the cached one (`Shares`). The list is bounded by the LRU's own
  size, which is the capacity reported unless a resize is under way. Moving an entry to the front, adding and
  trimming are lemmas about the set.
- **RequestBodyProofs**. First the stream reader by itself (`TypeCorrect`,
  `NeverOverlong`, `ChunksInOrder`, `StoredIsPayload`). While the reader has not
  failed, every declared byte is handed out, in the current chunk or still to
  come (`Accounting`), what was handed out is the verified chunks and the hashed
  part of the current one (`Tracked`), and a stream that ended was verified to
  its end (`Ended`). `Integrity` is about declared lengths above zero: an empty
  body is complete before anything is read. Then every kind of body
  (`StreamRefined`, `BodyTypeCorrect`, `TakenIsVouchedFor`): reading through the
  decoder implements `ChunkedReader`, so its invariant carries over; for the
  verifier, `Hashed` says that what was handed out is what was hashed, and that
  the hash was compared when the declared length is reached.
- **VerifierProofs**. Four invariants, each on top of the one before. `IInv`:
  every slot of the cache holds a key derived for the id stored with it,
  whichever verification wrote it, and so does every request past its lookup
  (`NeverStale`, `CacheTypes`). `VIInv`: no cached key is of a generation the
  store has not reached, a looked-up generation is no older than the arrival and
  its token is the one presented, and the key asked of the cache is for the
  request's own id, scope and generation (`KeysCurrent`, `CurrentSecretOnly`,
  `VerifierTypes`); every step of a verification is a step of `SignerCache` or
  leaves it alone (`Refinement`). `TIInv`: what the clock checks left behind
  (`InTimeOnly`); that the product in `Fresh` may wrap around is harmless
  because it only gets shorter (`WrapShortens`). `SIInv`: past the first checks
  every `x-amz-` header is signed and past the clock checks the scope is of the
  request's own date, so what the handler reads, promoted query parameters
  included, was signed (`AttributesSigned`), and keys are derived only for
  recent dates (`RecentDatesOnly`).
- **BucketsProofs**. Registrations (`NoFailedClaims`, `RegisteredOnBackend`,
  `RemovedByOwners`): `Claims` ties a name's claim to the request that made it
  while it is being served, `Owned` says that whoever may release a name has
  owned it, `GivenUp` that late deletes are only of names known to be doubtful.
  The walk (`WalkComplete`, `TypeCorrect`): `WInv` says that the names listed
  are increasing, that none is past the token, and that up to the token no name
  that was there throughout is missing. That a page is the least names beyond
  its token comes from every set of numbers that is not empty having a least
  one (`Least`, from the library's well-founded minimum), which takes the
  place of induction.
- **PostObjectProofs** (`TypeCorrect`, `OnlyAsSigned`, `SizesInRange`,
  `UndoKeepsOthers`). An upload past its submission has an accepted form, what
  was read of it is within the tightest bound of its document, and its object
  has the key and fields that were checked; in a versioned bucket an upload
  answered with success is still there, as an undo deletes only its own version. `MinFacts` and its counterpart for the
  greatest element give what the code's running bounds are for any number of
  ranges.
- **ObjectsProofs** (`TypeCorrect`, `CompletesAsListed`, `TellsTheTruth`,
  `HidesKeys`, `KeepsConditions`, `KeepsLocked`). First, for each operation,
  what its call makes of any bucket: it fails and changes no object, or its
  conditions held and the versions it leaves, read as a set, are those before,
  less what was permitted to go, and the one it wrote. `IInv` then says of each
  version that the request it names was sent and listed it so (`Authored`) and
  that it is locked as its writers asked and encrypted under a key they may use
  (`Bucket`); and of each request that its call is that of its operation (`Handled`), that a key
  is named for the client before it is shown (`Shown`), and that each effect but
  the last has cost a fault and one the client never hears of is a lost answer
  (`Counted`), which is why a success after a repetition is still the truth.

Only model-checked: liveness (`NeverWedged`, `Recovers`, `Returns`), which needs
fairness and ENABLED. Of `Returns`, `GetsFurther` proves the part that is about
the code: each iteration returns, or opens a later star, or moves the start of
the last one, or moves on through the value, and all of these are bounded by
`GlobTypeOK`. `Server` has only the run that ends in a violation.

## Not modelled

Data is abstracted where no property tells it apart: names, keys and payloads
are small sets, headers and query parameters that only cause a refusal are one
refusal, and the texts of errors, logging and XML layout are left out.

- Addressing (`s3gw/addressing.go`) and the parsers of policy dialects: pure
  functions of strings. What follows from an accepted policy is `validate`.
- Configuration (`config.go`): one sequential pass over a file at start.
- Listings of objects, versions, uploads and parts, bucket configuration,
  attributes and ACLs: each handler translates one call and its answer and
  keeps nothing; `Gateway` has what they share (a call, an answer that begins a
  response, a body that may break off).
- The tables of operations, query parameters and headers, storage class
  mapping, byte counts and metrics: tables and counters without control.
- Error and XML documents: formatting, but for whether one is written.
- The SDK's signing of backend calls, the LRU, `net/http` and the backend are
  external; they are modelled by how the code uses them.
