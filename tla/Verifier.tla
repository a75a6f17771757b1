------------------------------ MODULE Verifier ------------------------------
(***************************************************************************)
(* sigv4.Verifier.Verify over the signing-key cache: concurrent requests,  *)
(* each signed in its Authorization header or in its query (presigned),    *)
(* while the clock advances and the store rotates secrets.  The header     *)
(* form looks the credential up and then reads the clock, the presigned    *)
(* form the other way round; both end in checkSignature.  A signature is   *)
(* the record of what was signed: key, time and canonical request.         *)
(***************************************************************************)
EXTENDS SignerCache

CONSTANTS Inputs,       \* the requests each r may carry
          TokenOf,      \* session token of each key and generation, or NoToken
          NoToken,
          Region, AnyRegion,   \* SetRegion; AnyRegion when unset
          Amz,          \* the x-amz-* names (amzPrefix)
          AuthParams,   \* those that carry the authentication itself
          lower,        \* strings.ToLower on parameter names
          Skew, Day, Week,     \* maxClockSkew, a day, maxPresignExpires; seconds
          Second,       \* time.Second, in units of time.Duration
          Half,         \* a Duration ranges over -Half .. Half - 1
          MaxNow        \* bound: the clock

VARIABLES now,
          stage, req,     \* of each request: where it is, what was sent
          cred,           \* the generation lookupSecret found
          at, since,      \* history: clock and generation at its arrival
          seen            \* the x-amz attributes its handler reads

verifierVars == <<now, stage, req, cred, at, since, seen>>

NoRequest == [form |-> "none", akid |-> "unset"]
Stages == {"new", "arrived", "fresh", "looked", "signing", "accepted", "refused"}

\* Types, SignerCache's included; only a pending or accepted request is kept.
VTypeOK ==
    /\ TypeOK
    /\ now \in 0 .. MaxNow
    /\ stage \in [Requests -> Stages]
    /\ \A r \in Requests : stage[r] \in {"new", "refused"} <=> req[r] = NoRequest
    /\ cred \in [Requests -> 0 .. MaxGen]
    /\ at \in [Requests -> 0 .. MaxNow]
    /\ since \in [Requests -> 0 .. MaxGen]

VInit ==
    /\ Init
    /\ now = 0
    /\ stage = [r \in Requests |-> "new"]
    /\ req = [r \in Requests |-> NoRequest]
    /\ cred = [r \in Requests |-> 0]
    /\ at = [r \in Requests |-> 0]
    /\ since = [r \in Requests |-> 0]
    /\ seen = [r \in Requests |-> <<>>]

At(r, s) == stage' = [stage EXCEPT ![r] = s]

\* An error is returned: nothing of the request is looked at again.
Refused(r) ==
    /\ At(r, "refused")
    /\ req' = [req EXCEPT ![r] = NoRequest]
    /\ cred' = [cred EXCEPT ![r] = 0]
    /\ at' = [at EXCEPT ![r] = 0]
    /\ since' = [since EXCEPT ![r] = 0]
    /\ UNCHANGED <<now, seen>>

-----------------------------------------------------------------------------
(* What a request carries *)

Has(f, n) == n \in DOMAIN f

\* An attribute sent with an empty value is read as absent (http.Header.Get).
Sent(q, n) == Has(q.headers, n) /\ q.headers[n] # ""

\* Where the date, the token and the expiry are read from.
Source(q) == IF q.form = "presigned" THEN q.query ELSE q.headers
Time(q) == Source(q)["date"]
Presented(q) == IF Has(Source(q), "token") THEN Source(q)["token"] ELSE NoToken

ASSUME VerifierAssumption ==
    /\ MaxNow \in Nat /\ Skew \in Nat /\ Week \in Nat /\ Skew <= Week
    /\ Day \in Nat \ {0} /\ Second \in Nat \ {0} /\ Half \in Nat \ {0}
    /\ \A r \in Requests : \A q \in Inputs[r] :
          /\ q # NoRequest /\ <<q.date, q.region>> \in Scopes
          /\ Has(Source(q), "date") => Time(q) \in Nat
          /\ Has(q.query, "expires") => q.query["expires"] \in 0 .. Half - 1

\* Faulty requireSignedAmzHeaders: only the request's own list is looked at.
requireSignedUnchecked(q) == q.list # {}

\* Every x-amz-* header must be listed as signed.
requireSignedAmzHeaders(q) == DOMAIN q.headers \cap Amz \subseteq q.list

\* The checks before either form's first effect: it parses, service s3, the
\* pinned region, no unsigned header.
Admissible(q) ==
    /\ q.shape # "malformed"
    /\ Region # AnyRegion => q.region = Region
    /\ requireSignedAmzHeaders(q)

\* What the signature covers; the payload hash of a presigned request that
\* sends none is UNSIGNED-PAYLOAD.
canonicalRequest(q) ==
    [query |-> q.query,
     headers |-> [n \in q.list |-> q.headers[n]],
     payload |-> IF Has(q.headers, "sha256") THEN q.headers["sha256"] ELSE "UNSIGNED-PAYLOAD"]

\* checkSignedHeaderList, and every listed header is there.
Canonical(q) == q.shape # "unsorted" /\ q.list \subseteq DOMAIN q.headers

-----------------------------------------------------------------------------
(* The clock *)

\* Faulty date check: the scope's date is taken as it is.
ScopeUnchecked(q) == Has(Source(q), "date")

ScopeMatches(q) == Has(Source(q), "date") /\ q.date = Time(q) \div Day

InSkew(q) ==
    /\ ScopeMatches(q)
    /\ now - Time(q) \in -Skew .. Skew
    /\ Has(q.headers, "sha256")

\* time.Duration arithmetic: 64-bit two's complement, scaled down.
Wrap(d) == ((d + Half) % (2 * Half)) - Half
Expires(q) == Wrap(q.query["expires"] * Second)

\* Faulty Fresh: no upper limit on the expiry.
FreshForever(q) ==
    /\ ScopeMatches(q)
    /\ Has(q.query, "expires") /\ q.query["expires"] >= 1
    /\ now * Second <= Time(q) * Second + Expires(q)
    /\ Time(q) <= now + Skew

\* The expiry is checked and applied as the same product.
Fresh(q) ==
    /\ ScopeMatches(q)
    /\ Has(q.query, "expires") /\ q.query["expires"] >= 1
    /\ Expires(q) <= Week * Second
    /\ now * Second <= Time(q) * Second + Expires(q)
    /\ Time(q) <= now + Skew

-----------------------------------------------------------------------------
(* Actions *)

Tick ==
    /\ now < MaxNow
    /\ now' = now + 1
    /\ UNCHANGED <<vars, stage, req, cred, at, since, seen>>

RotateKey(k) == Rotate(k) /\ UNCHANGED verifierVars

Arrive(r) ==
    /\ stage[r] = "new"
    /\ \E q \in Inputs[r] :
          /\ req' = [req EXCEPT ![r] = q]
          /\ since' = [since EXCEPT ![r] = IF q.akid \in KeyIDs THEN secret[q.akid] ELSE 0]
    /\ at' = [at EXCEPT ![r] = now]
    /\ At(r, "arrived")
    /\ UNCHANGED <<vars, now, cred, seen>>

\* verifyPresignedRequest as far as its clock checks.
verifyPresignedRequest(r) ==
    /\ stage[r] = "arrived"
    /\ req[r].form = "presigned"
    /\ Admissible(req[r]) /\ Fresh(req[r])
    /\ At(r, "fresh")
    /\ UNCHANGED <<vars, now, req, cred, at, since, seen>>

\* Both forms reach lookupSecret, the header form without a look at the clock.
Looking(r) ==
    \/ stage[r] = "fresh"
    \/ stage[r] = "arrived" /\ req[r].form = "header" /\ Admissible(req[r])

\* Faulty validateSessionToken: a key without a token takes any.
TokenOptional(k, g, token) == TokenOf[k][g] \in {NoToken, token}

validateSessionToken(k, g, token) == TokenOf[k][g] = token

lookupSecret(r) ==
    /\ Looking(r)
    /\ LET k == req[r].akid
       IN  /\ k \in KeyIDs
           /\ validateSessionToken(k, secret[k], Presented(req[r]))
           /\ cred' = [cred EXCEPT ![r] = secret[k]]
    /\ At(r, "looked")
    /\ UNCHANGED <<vars, now, req, at, since, seen>>

\* Unknown key, wrong token, or the store fails.
lookupFails(r) ==
    /\ Looking(r)
    /\ Refused(r)
    /\ UNCHANGED vars

\* checkSignature up to the cache; the header form has its clock check here.
checkSignature(r) ==
    /\ stage[r] = "looked"
    /\ req[r].form = "header" => InSkew(req[r])
    /\ Canonical(req[r])
    /\ signingKey(r, req[r].akid, cred[r], <<req[r].date, req[r].region>>)
    /\ At(r, "signing")
    /\ UNCHANGED <<now, req, cred, at, since, seen>>

Refuse(r) ==
    /\ LET q == req[r]
       IN  \/ /\ stage[r] = "arrived"
              /\ \/ q.form \notin {"header", "presigned"}
                 \/ ~Admissible(q)
                 \/ q.form = "presigned" /\ ~Fresh(q)
           \/ /\ stage[r] = "looked"
              /\ (q.form = "header" /\ ~InSkew(q)) \/ ~Canonical(q)
    /\ Refused(r)
    /\ UNCHANGED vars

\* signerCache.get, one of its steps.
UseCache(r) ==
    /\ Hit(r) \/ Miss(r) \/ Derive(r) \/ Store(r)
    /\ UNCHANGED verifierVars

derivationFails(r) ==
    /\ DeriveFails(r)
    /\ Refused(r)

\* The parameters promoteHoistedQueryParams takes, and the headers it leaves
\* the handlers: a header sent keeps its value; of parameters that differ in
\* case only one is promoted, and Go's map order says which.
Hoisted(q) ==
    {p \in DOMAIN q.query : q.form = "presigned" /\ lower[p] \in Amz \ AuthParams}
Attributes(q) ==
    {n \in Amz \ AuthParams : Sent(q, n) \/ \E p \in Hoisted(q) : lower[p] = n}
promoteHoistedQueryParams(q) ==
    {h \in [Attributes(q) -> {q.headers[n] : n \in {m \in Attributes(q) : Sent(q, m)}}
                             \cup {q.query[p] : p \in Hoisted(q)}] :
        \A n \in Attributes(q) :
            IF Sent(q, n) THEN h[n] = q.headers[n]
                          ELSE \E p \in Hoisted(q) : lower[p] = n /\ h[n] = q.query[p]}

\* The signature the verifier computes.
Signature(r) ==
    [key |-> key[r], time |-> Time(req[r]), canonical |-> canonicalRequest(req[r])]

Mismatch(r) ==
    /\ Verify(r)
    /\ req[r].sig # Signature(r)
    /\ Refused(r)

Accept(r) ==
    /\ Verify(r)
    /\ req[r].sig = Signature(r)
    /\ \E h \in promoteHoistedQueryParams(req[r]) : seen' = [seen EXCEPT ![r] = h]
    /\ At(r, "accepted")
    /\ UNCHANGED <<now, req, cred, at, since>>

-----------------------------------------------------------------------------
VNext ==
    \/ Tick
    \/ \E k \in KeyIDs : RotateKey(k)
    \/ \E r \in Requests :
          \/ Arrive(r) \/ verifyPresignedRequest(r)
          \/ lookupSecret(r) \/ lookupFails(r) \/ checkSignature(r) \/ Refuse(r)
          \/ UseCache(r) \/ derivationFails(r)
          \/ Mismatch(r) \/ Accept(r)

VSpec == VInit /\ [][VNext]_<<vars, verifierVars>>

-----------------------------------------------------------------------------
\* Seen from the cache, verification does nothing but what SignerCache allows:
\* the safety specification that module's theorem is about.
KeepsCache == Spec

\* Whatever is accepted was within its time at some instant of its
\* verification: 15 minutes around the date of a signed header, and for a
\* presigned URL until it expires and never later than a week, even where
\* X-Amz-Expires overflows a Duration (verifyPresignedRequest).
AcceptedInTime ==
    \A r \in Requests : stage[r] = "accepted" =>
        \E c \in at[r] .. now :
            /\ Time(req[r]) - Skew <= c
            /\ IF req[r].form = "header"
               THEN c <= Time(req[r]) + Skew
               ELSE /\ c <= Time(req[r]) + Week
                    /\ c <= Time(req[r]) + req[r].query["expires"]

\* A handler reads no x-amz attribute the signer did not put there: its value
\* is the signed header's or a signed parameter's, whatever was added or
\* changed on the way (requireSignedAmzHeaders, promoteHoistedQueryParams).
ReadAsSigned ==
    \A r \in Requests : stage[r] = "accepted" =>
        LET c == req[r].sig.canonical
        IN  \A n \in DOMAIN seen[r] :
               \/ Has(c.headers, n) /\ c.headers[n] = seen[r][n]
               \/ \E p \in DOMAIN c.query : lower[p] = n /\ c.query[p] = seen[r][n]

\* A secret rotated before the request arrived never signs for it, whatever
\* the cache still holds, and neither does its session token: the request was
\* signed with the secret and carries the token of one generation that was
\* current during its verification (lookupSecret, signerCache.get).
SignedByCurrentSecret ==
    \A r \in Requests : stage[r] = "accepted" =>
        /\ req[r].sig.key.accessKeyID = req[r].akid
        /\ req[r].sig.key.version \in since[r] .. secret[req[r].akid]
        /\ \E g \in since[r] .. req[r].sig.key.version : TokenOf[req[r].akid][g] = Presented(req[r])

\* A SigningKeyFunc is only asked for a date of the last seven days or within
\* the clock skew, "only after the request's timestamp has passed the
\* clock-skew or expiry checks" (SigningKeyFunc), although clients choose it.
DerivedForRecentDates ==
    \A r \in Requests : pc[r] = "derive" =>
        id[r].scope[1] \in ((at[r] - Week) \div Day) .. ((now + Skew) \div Day)
=============================================================================
