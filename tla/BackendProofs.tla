---------------------------- MODULE BackendProofs ----------------------------
(***************************************************************************)
(* What stands between a request and its backend, for every number of      *)
(* requests, backends and every limit: the circuit breaker and the client  *)
(* cache.                                                                  *)
(*                                                                         *)
(* The breaker's types, the spacing of its probes and its refinement of    *)
(* BreakerPromise rest on the inductive invariant IInv.  The client        *)
(* cache's types, that a request uses its own backend's client and that    *)
(* concurrent misses converge rest on CacheInv, which reads the LRU list   *)
(* as the set of its entries, each under the key of the backend its client *)
(* was built from.                                                         *)
(***************************************************************************)
EXTENDS Breaker, ClientCache, TLAPS

-----------------------------------------------------------------------------
(* The circuit breaker *)

\* A request's attempt count fits where it is in its retry loop; the age of
\* lastProbe is the age of the last probe; an open breaker opened no earlier
\* than that probe; failures are counted only while closed, and are then the
\* attempts that failed since the last answer; and only Threshold of them open it.
IInv ==
    /\ TypeOK
    /\ \A r \in Requests : /\ pc[r] = "idle" => tries[r] = 0
                           /\ pc[r] = "retry" => tries[r] < MaxAttempts
    /\ gap = probeAge
    /\ state = "open" => sinceAge <= probeAge
    /\ state # "closed" => failures = 0 /\ row = Threshold
    /\ state = "closed" => failures = row

LEMMA ThresholdPositive == Threshold \in Nat /\ Threshold >= 1
  BY BreakerAssumption DEF Threshold

LEMMA InitIInv == Init => IInv
  BY BreakerAssumption, ThresholdPositive DEF Init, IInv, TypeOK, breakerState

\* A report leaves the breaker's part of the invariant as it was.
LEMMA ReportIInv ==
  ASSUME IInv, UNCHANGED gap,
         \/ ReportOk /\ row' = 0
         \/ ReportFailure /\ row' = Counted(row)
         \/ UNCHANGED <<breakerVars, row>>
  PROVE  /\ state' \in breakerState
         /\ failures' \in 0 .. Threshold - 1
         /\ sinceAge' \in 0 .. Cooldown
         /\ probeAge' \in 0 .. Cooldown
         /\ gap' \in 0 .. Cooldown
         /\ gap' = probeAge'
         /\ state' = "open" => sinceAge' <= probeAge'
         /\ row' \in 0 .. Threshold
         /\ state' # "closed" => failures' = 0 /\ row' = Threshold
         /\ state' = "closed" => failures' = row'
<1> USE BreakerAssumption, ThresholdPositive DEF IInv, TypeOK, breakerState, breakerVars
<1>1. CASE ReportOk /\ row' = 0
  BY <1>1 DEF ReportOk
<1>2. CASE ReportFailure /\ row' = Counted(row)
  <2>1. CASE state = "closed" /\ failures + 1 < Threshold
    BY <1>2, <2>1 DEF ReportFailure, Open, Counted
  <2>2. CASE state = "closed" /\ failures + 1 >= Threshold
    BY <1>2, <2>2 DEF ReportFailure, Open, Counted
  <2>3. CASE state # "closed"
    BY <1>2, <2>3 DEF ReportFailure, Open, Counted
  <2> QED BY <2>1, <2>2, <2>3
<1>3. CASE UNCHANGED <<breakerVars, row>>
  BY <1>3
<1> QED BY <1>1, <1>2, <1>3

\* classifyAttempt reports an attempt as what it was.
LEMMA Reported ==
  ASSUME NEW r \in Requests, NEW o \in Outcome, EndAttempt(r, o)
  PROVE  \/ ReportOk /\ row' = 0
         \/ ReportFailure /\ row' = Counted(row)
         \/ UNCHANGED <<breakerVars, row>>
<1>1. /\ o.raw \in {0, 404, 503} /\ o.errStatus \in {0, 404, 503}
      /\ o.err \in {"nil", "canceled", "deadline", "other"}
  BY DEF Outcome, Status
<1>2. CASE o.err = "canceled"
  <2>1. classifyAttempt(o) = "nothing" /\ row' = row
    BY <1>2 DEF classifyAttempt, EndAttempt, NoteRow
  <2> QED BY Zenon, <2>1 DEF EndAttempt
<1>3. CASE o.err # "canceled" /\ Answered(o)
  <2>1. classifyAttempt(o) = "ok"
    BY <1>1, <1>3 DEF classifyAttempt, Answered
  <2>2. row' = 0
    BY Zenon, <1>3 DEF EndAttempt, NoteRow
  <2> QED BY Zenon, <2>1, <2>2 DEF EndAttempt
<1>4. CASE o.err # "canceled" /\ ~Answered(o)
  <2>1. classifyAttempt(o) = "failure"
    BY <1>1, <1>4 DEF classifyAttempt, Answered
  <2>2. row' = Counted(row)
    BY Zenon, <1>4 DEF EndAttempt, NoteRow
  <2> QED BY Zenon, <2>1, <2>2 DEF EndAttempt
<1> QED BY Zenon, <1>2, <1>3, <1>4

LEMMA NextIInv == IInv /\ [Next]_vars => IInv'
<1> SUFFICES ASSUME IInv, [Next]_vars PROVE IInv'
  OBVIOUS
<1> USE BreakerAssumption, ThresholdPositive
<1>1. CASE Tick
  BY <1>1 DEF Tick, Aged, IInv, TypeOK, breakerState
<1>2. CASE BackendChanges
  BY <1>2 DEF BackendChanges, IInv, TypeOK, breakerState, breakerVars
<1>3. ASSUME NEW r \in Requests, Send(r) PROVE IInv'
  <2>1. tries[r] < MaxAttempts
    BY <1>3 DEF Send, IInv, TypeOK
  <2>2. /\ pc' \in [Requests -> {"idle", "retry", "flight"}]
        /\ tries' \in [Requests -> 0 .. MaxAttempts]
        /\ \A q \in Requests : /\ pc'[q] = "idle" => tries'[q] = 0
                               /\ pc'[q] = "retry" => tries'[q] < MaxAttempts
    BY <1>3, <2>1 DEF Send, IInv, TypeOK
  <2>3. CASE state = "closed"
    BY <1>3, <2>2, <2>3 DEF Send, Allow, IInv, TypeOK, breakerState, breakerVars
  <2>4. CASE state # "closed"
    BY <1>3, <2>2, <2>4 DEF Send, Allow, IInv, TypeOK, breakerState
  <2> QED BY <2>3, <2>4
<1>4. ASSUME NEW r \in Requests, Refuse(r) PROVE IInv'
  BY <1>4 DEF Refuse, IInv, TypeOK, breakerState, breakerVars
<1>5. ASSUME NEW r \in Requests, NEW o \in Outcome, EndAttempt(r, o) PROVE IInv'
  <2>1. /\ pc' \in [Requests -> {"idle", "retry", "flight"}]
        /\ tries' \in [Requests -> 0 .. MaxAttempts]
        /\ \A q \in Requests : /\ pc'[q] = "idle" => tries'[q] = 0
                               /\ pc'[q] = "retry" => tries'[q] < MaxAttempts
    <3>1. CASE pc' = [pc EXCEPT ![r] = "idle"] /\ tries' = [tries EXCEPT ![r] = 0]
      BY <3>1 DEF IInv, TypeOK
    <3>2. CASE /\ tries[r] < MaxAttempts
               /\ pc' = [pc EXCEPT ![r] = "retry"]
               /\ UNCHANGED tries
      BY <3>2 DEF IInv, TypeOK
    <3> QED BY <1>5, <3>1, <3>2 DEF EndAttempt
  <2>2. \/ ReportOk /\ row' = 0
        \/ ReportFailure /\ row' = Counted(row)
        \/ UNCHANGED <<breakerVars, row>>
    BY Zenon, <1>5, Reported
  <2>3. UNCHANGED <<up, gap>>
    BY <1>5 DEF EndAttempt
  <2> QED BY <2>1, <2>2, <2>3, ReportIInv DEF IInv, TypeOK
<1>6. CASE UNCHANGED vars
  BY <1>6 DEF vars, IInv, TypeOK, breakerState
<1> QED BY <1>1, <1>2, <1>3, <1>4, <1>5, <1>6 DEF Next, Finish, Abandon

\* Every reachable state of the breaker satisfies IInv.
THEOREM Inductive == Spec => []IInv
  BY InitIInv, NextIInv, PTL DEF Spec

\* Type correctness: in particular failures never reaches the threshold at
\* rest (Report opens the breaker first) and no request exceeds its attempts.
THEOREM TypeCorrect == Spec => []TypeOK
<1>1. IInv => TypeOK
  BY DEF IInv
<1> QED BY <1>1, Inductive, PTL

\* Probes are at least a cooldown apart, however reports of other attempts
\* interleave with them.
THEOREM ProbesSpaced == Spec => ProbeSpacing
<1>1. ASSUME IInv, [Next]_vars
      PROVE  [\A r \in Requests : Send(r) /\ state # "closed" => gap = Cooldown]_vars
  <2> SUFFICES ASSUME NEW r \in Requests, Send(r), state # "closed" PROVE gap = Cooldown
    OBVIOUS
  <2> QED BY <1>1, BreakerAssumption DEF IInv, TypeOK, breakerState, Send, Allow, Admits
<1> QED BY <1>1, Inductive, PTL DEF Spec, ProbeSpacing

\* The breaker implements BreakerPromise: it guards the backend when Threshold
\* attempts in a row went unanswered, and admits one attempt per quiet cooldown.
THEOREM Refinement == Spec => KeepsPromise
<1> USE BreakerAssumption, ThresholdPositive
<1>1. Init => Promise!PromiseInit
  BY DEF Init, Promise!PromiseInit
<1>2. ASSUME IInv, [Next]_vars PROVE [Promise!PromiseNext]_(Promise!promiseVars)
  <2> USE DEF Promise!promiseVars, Promise!PromiseNext
  <2>1. CASE Tick
    BY <1>2, <2>1 DEF Tick, Aged, IInv, TypeOK, breakerState, Promise!Elapse
  <2>2. CASE UNCHANGED <<breakerVars, row>>
    BY <2>2 DEF breakerVars
  <2>3. CASE Allow /\ UNCHANGED row
    BY <1>2, <2>3 DEF Allow, Admits, breakerVars, IInv, TypeOK, breakerState, Promise!Probe
  <2>4. CASE ReportOk /\ row' = 0
    BY <2>4 DEF ReportOk, Promise!Succeed
  <2>5. CASE ReportFailure /\ row' = Counted(row)
    <3> USE DEF Counted
    <3>1. CASE state = "closed" /\ failures + 1 < Threshold
      BY <1>2, <2>5, <3>1 DEF ReportFailure, Open, IInv, TypeOK, Promise!Fail
    <3>2. CASE state = "closed" /\ failures + 1 >= Threshold
      BY <1>2, <2>5, <3>2 DEF ReportFailure, Open, IInv, TypeOK, Promise!Fail
    <3>3. CASE state = "half-open"
      BY <1>2, <2>5, <3>3 DEF ReportFailure, Open, IInv, Promise!Relapse
    <3>4. CASE state = "open"
      BY <1>2, <2>5, <3>4 DEF ReportFailure, breakerVars, IInv
    <3>5. \/ state = "closed" /\ failures + 1 < Threshold
          \/ state = "closed" /\ failures + 1 >= Threshold
          \/ state \in {"half-open", "open"}
      BY <1>2 DEF IInv, TypeOK, breakerState
    <3> HIDE DEF Promise!promiseVars, Promise!PromiseNext
    <3> QED BY <3>1, <3>2, <3>3, <3>4, <3>5
  <2>6. ASSUME NEW r \in Requests, Finish(r) \/ Abandon(r)
        PROVE  \/ ReportOk /\ row' = 0
               \/ ReportFailure /\ row' = Counted(row)
               \/ UNCHANGED <<breakerVars, row>>
    BY Zenon, <2>6, Reported DEF Finish, Abandon
  <2> HIDE DEF Promise!promiseVars, Promise!PromiseNext
  <2> QED
    BY <1>2, <2>1, <2>2, <2>3, <2>4, <2>5, <2>6
    DEF Next, vars, breakerVars, Send, Refuse, BackendChanges
<1> QED BY <1>1, <1>2, Inductive, PTL DEF Spec, KeepsPromise, Promise!PromiseSpec

-----------------------------------------------------------------------------
(* The client cache *)


Client == [id : Nat, backend : Backend]
Entry == {<<clientCacheKey(c.backend), c>> : c \in Client}

Entries(c) == {c[i] : i \in 1 .. Len(c)}
Unique(c) == \A i, j \in 1 .. Len(c) : c[i][1] = c[j][1] => i = j

\* A key names one backend.
LEMMA KeyInjective ==
    ASSUME NEW a \in Backend, NEW b \in Backend, clientCacheKey(a) = clientCacheKey(b)
    PROVE  a = b
<1>1. a.endpoint = b.endpoint /\ a.secret = b.secret
  BY DEF clientCacheKey
<1>2. /\ a = [endpoint |-> a.endpoint, secret |-> a.secret]
      /\ b = [endpoint |-> b.endpoint, secret |-> b.secret]
  BY ClientCacheAssumption
<1> QED BY <1>1, <1>2

\* The first entry that has the key, and everything but it.
LEMMA PlaceFound ==
    ASSUME cache \in Seq(Entry), NEW k, Position(k) # {}
    PROVE  /\ Place(k) \in 1 .. Len(cache) /\ cache[Place(k)][1] = k
           /\ cache[Place(k)] = <<k, Cached(k)>> /\ Cached(k) \in Client
           /\ k = clientCacheKey(Cached(k).backend)
<1>1. Place(k) \in Position(k)
  BY Zenon DEF Place
<1>2. Place(k) \in 1 .. Len(cache) /\ cache[Place(k)][1] = k
  BY Zenon, <1>1 DEF Position
<1>3. cache[Place(k)] \in Entry
  BY <1>2
<1>4. PICK c \in Client : cache[Place(k)] = <<clientCacheKey(c.backend), c>>
  BY Zenon, <1>3 DEF Entry
<1>5. Cached(k) = c /\ k = clientCacheKey(c.backend)
  BY <1>2, <1>4 DEF Cached
<1> QED BY Zenon, <1>2, <1>4, <1>5

LEMMA WithoutKey ==
    ASSUME cache \in Seq(Entry), Unique(cache), NEW k
    PROVE  /\ Without(k) \in Seq(Entry) /\ Unique(Without(k))
           /\ Entries(Without(k)) = {e \in Entries(cache) : e[1] # k}
           /\ Len(Without(k)) = Len(cache) - (IF Position(k) = {} THEN 0 ELSE 1)
<1>1. CASE Position(k) = {}
  BY <1>1 DEF Without, Entries, Position
<1>2. CASE Position(k) # {}
  <2> DEFINE p == Place(k)
             w == SubSeq(cache, 1, p - 1) \o SubSeq(cache, p + 1, Len(cache))
  <2>1. p \in 1 .. Len(cache) /\ cache[p][1] = k
    BY <1>2, PlaceFound
  <2>2. Without(k) = w
    BY Zenon, <1>2 DEF Without
  <2> HIDE DEF p
  <2> DEFINE a == SubSeq(cache, 1, p - 1)
             b == SubSeq(cache, p + 1, Len(cache))
  <2>a. a \in Seq(Entry) /\ Len(a) = p - 1 /\ \A i \in 1 .. p - 1 : a[i] = cache[i]
    BY <2>1
  <2>b. b \in Seq(Entry) /\ Len(b) = Len(cache) - p /\ \A i \in 1 .. Len(b) : b[i] = cache[p + i]
    BY <2>1
  <2>c. w = a \o b
    OBVIOUS
  <2> HIDE DEF a, b, w
  <2>3. w \in Seq(Entry) /\ Len(w) = Len(cache) - 1
    BY <2>1, <2>a, <2>b, <2>c
  <2>4. \A i \in 1 .. Len(w) : w[i] = IF i < p THEN cache[i] ELSE cache[i + 1]
    <3>1. \A i \in 1 .. Len(w) : w[i] = IF i <= Len(a) THEN a[i] ELSE b[i - Len(a)]
      BY <2>a, <2>b, <2>c
    <3> SUFFICES ASSUME NEW i \in 1 .. Len(w) PROVE w[i] = IF i < p THEN cache[i] ELSE cache[i + 1]
      OBVIOUS
    <3>2. CASE i < p
      BY <2>1, <2>a, <3>1, <3>2
    <3>3. CASE ~(i < p)
      <4>1. i - Len(a) \in 1 .. Len(b) /\ p + (i - Len(a)) = i + 1 /\ ~(i <= Len(a))
        BY <2>1, <2>3, <2>a, <2>b, <3>3
      <4>2. w[i] = b[i - Len(a)] /\ b[i - Len(a)] = cache[p + (i - Len(a))]
        BY <2>b, <3>1, <4>1
      <4> QED BY Zenon, <3>3, <4>1, <4>2
    <3> QED BY Zenon, <3>2, <3>3
  <2>5. Unique(w)
    BY <2>1, <2>3, <2>4 DEF Unique
  <2>6. ASSUME NEW e \in Entries(w) PROVE e \in Entries(cache) /\ e[1] # k
    <3>1. PICK i \in 1 .. Len(w) : e = w[i]
      BY Zenon DEF Entries
    <3>2. PICK j \in 1 .. Len(cache) : e = cache[j] /\ j # p
      BY <2>1, <2>3, <2>4, <3>1
    <3> QED BY <2>1, <3>2 DEF Entries, Unique
  <2>7. ASSUME NEW e \in Entries(cache), e[1] # k PROVE e \in Entries(w)
    <3>1. PICK j \in 1 .. Len(cache) : e = cache[j]
      BY Zenon DEF Entries
    <3>2. j # p
      BY <2>1, <2>7, <3>1
    <3>3. PICK i \in 1 .. Len(w) : w[i] = cache[j]
      <4>1. CASE j < p
        BY <2>1, <2>3, <2>4, <4>1
      <4>2. CASE j > p
        <5>1. j - 1 \in 1 .. Len(w) /\ w[j - 1] = cache[j]
          BY <2>1, <2>3, <2>4, <4>2
        <5> QED BY Zenon, <5>1
      <4> QED BY <2>1, <3>2, <4>1, <4>2
    <3> QED BY Zenon, <3>1, <3>3 DEF Entries
  <2> QED BY <1>2, <2>2, <2>3, <2>5, <2>6, <2>7
<1> QED BY Zenon, <1>1, <1>2

\* An entry put in front of the others.
LEMMA InFront ==
    ASSUME cache \in Seq(Entry), Unique(cache), NEW k, NEW c, <<k, c>> \in Entry
    PROVE  LET n == <<<<k, c>>>> \o Without(k)
           IN  /\ n \in Seq(Entry) /\ Unique(n) /\ n # <<>>
               /\ Entries(n) = {<<k, c>>} \cup {e \in Entries(cache) : e[1] # k}
               /\ Len(n) = Len(Without(k)) + 1 /\ n[1] = <<k, c>>
<1> DEFINE x == <<k, c>>
           w == Without(k)
           n == <<x>> \o w
<1>1. /\ w \in Seq(Entry) /\ Unique(w)
      /\ Entries(w) = {e \in Entries(cache) : e[1] # k}
  BY Zenon, WithoutKey
<1>2. x \in Entry /\ x[1] = k
  OBVIOUS
<1> HIDE DEF w, x
<1>3. n \in Seq(Entry) /\ Len(n) = Len(w) + 1 /\ n[1] = x
  BY <1>1, <1>2
<1>4. \A i \in 2 .. Len(n) : n[i] = w[i - 1]
  BY <1>1, <1>2
<1> HIDE DEF n
<1>5. \A i \in 2 .. Len(n) : n[i] \in Entries(w) /\ n[i][1] # k
  BY <1>1, <1>3, <1>4 DEF Entries
<1>6. Unique(n)
  <2>1. SUFFICES ASSUME NEW i \in 1 .. Len(n), NEW j \in 1 .. Len(n), n[i][1] = n[j][1] PROVE i = j
    BY Zenon DEF Unique
  <2>2. CASE i = 1 \/ j = 1
    BY <1>1, <1>2, <1>3, <1>5, <2>1, <2>2
  <2>3. CASE i # 1 /\ j # 1
    <3>1. i - 1 \in 1 .. Len(w) /\ j - 1 \in 1 .. Len(w) /\ i \in 2 .. Len(n) /\ j \in 2 .. Len(n)
      BY <1>1, <1>3, <2>3
    <3>2. w[i - 1][1] = w[j - 1][1]
      BY Zenon, <1>4, <2>1, <3>1
    <3>3. i - 1 = j - 1
      BY Zenon, <1>1, <3>1, <3>2 DEF Unique
    <3> QED BY <3>3
  <2> QED BY Zenon, <2>2, <2>3
<1>7. ASSUME NEW e \in Entries(n) PROVE e \in {x} \cup Entries(w)
  <2>1. PICK i \in 1 .. Len(n) : e = n[i]
    BY Zenon DEF Entries
  <2> QED BY <1>1, <1>3, <1>5, <2>1
<1>8. ASSUME NEW e \in {x} \cup Entries(w) PROVE e \in Entries(n)
  <2>1. CASE e = x
    BY <1>1, <1>3, <2>1 DEF Entries
  <2>2. CASE e \in Entries(w)
    <3>1. PICK i \in 1 .. Len(w) : e = w[i]
      BY Zenon, <2>2 DEF Entries
    <3>2. i + 1 \in 1 .. Len(n) /\ n[i + 1] = e
      BY <1>1, <1>3, <1>4, <3>1
    <3> QED BY Zenon, <3>2 DEF Entries
  <2> QED BY Zenon, <2>1, <2>2
<1>9. n # <<>>
  BY <1>1, <1>3
<1> QED BY Zenon, <1>1, <1>3, <1>6, <1>7, <1>8, <1>9 DEF n, w, x

\* Cutting down keeps the front, and everything unless it is counted.
LEMMA CutDown ==
    ASSUME NEW c \in Seq(Entry), Unique(c), NEW n \in Nat
    PROVE  /\ Trimmed(c, n) \in Seq(Entry) /\ Unique(Trimmed(c, n))
           /\ Len(Trimmed(c, n)) <= n /\ Len(Trimmed(c, n)) <= Len(c)
           /\ Len(Trimmed(c, n)) \in Nat
           /\ Entries(Trimmed(c, n)) \subseteq Entries(c)
           /\ Len(Trimmed(c, n)) = Len(c) => Trimmed(c, n) = c
<1> DEFINE m == IF Len(c) < n THEN Len(c) ELSE n
           t == SubSeq(c, 1, m)
<1>1. Trimmed(c, n) = t
  BY DEF Trimmed
<1>2. m \in 0 .. Len(c) /\ m <= n
  OBVIOUS
<1> HIDE DEF m
<1>3. t \in Seq(Entry) /\ Len(t) = m
  BY <1>2
<1>4. \A i \in 1 .. m : t[i] = c[i]
  BY <1>2
<1>5. m = Len(c) => t = c
  BY <1>2
<1> HIDE DEF t
<1>6. Unique(t)
  BY <1>2, <1>3, <1>4 DEF Unique
<1>7. Entries(t) \subseteq Entries(c)
  BY <1>2, <1>3, <1>4 DEF Entries
<1> QED BY <1>1, <1>2, <1>3, <1>5, <1>6, <1>7

-----------------------------------------------------------------------------
(* The invariant *)

Typed ==
    /\ size \in Nat \ {0} /\ clientCacheCap \in Nat \ {0} /\ resizing \in BOOLEAN
    /\ ~resizing => size = clientCacheCap
    /\ built \in 0 .. MaxClients
    /\ at \in [Callers -> {"idle", "build", "add", "use"}]
    /\ backend \in [Callers -> Backend]
    /\ client \in [Callers -> Client]
    /\ evictions \in Nat /\ substituted \in Nat

\* The list is a map from keys to clients that were built.
ListInv(c, max, b) ==
    /\ c \in Seq(Entry) /\ Unique(c) /\ Len(c) <= max
    /\ \A e \in Entries(c) : e[2].id \in 1 .. b

\* A request past its lookup has a client of its backend, and it is the cached
\* one unless an entry was evicted or substituted.
Owns(r) ==
    at[r] \in {"add", "use"} => client[r].backend = backend[r] /\ client[r].id \in 1 .. built
Shares(r) ==
    at[r] = "use" => \E e \in Entries(cache) : e = <<clientCacheKey(backend[r]), client[r]>>

CacheInv ==
    /\ Typed
    /\ ListInv(cache, size, built)
    /\ \A r \in Callers : Owns(r)
    /\ evictions = 0 /\ substituted = 0 => \A r \in Callers : Shares(r)

\* The invariant after a step, in terms of the primed variables.
LEMMA CacheInvNext ==
    ASSUME Typed', ListInv(cache', size', built'),
           \A r \in Callers : at'[r] \in {"add", "use"} =>
              client'[r].backend = backend'[r] /\ client'[r].id \in 1 .. built',
           evictions' = 0 /\ substituted' = 0 => \A r \in Callers : at'[r] = "use" =>
              <<clientCacheKey(backend'[r]), client'[r]>> \in Entries(cache')
    PROVE  CacheInv'
<1>1. ListInv(cache, size, built)'
  BY Zenon DEF ListInv, Unique, Entries
<1>2. \A r \in Callers : Owns(r)'
  BY Zenon DEF Owns
<1>3. evictions' = 0 /\ substituted' = 0 => \A r \in Callers : Shares(r)'
  BY Zenon DEF Shares, Entries, clientCacheKey
<1> QED BY Zenon, <1>1, <1>2, <1>3 DEF CacheInv

LEMMA CacheInvNow ==
    ASSUME CacheInv
    PROVE  /\ Typed /\ ListInv(cache, size, built)
           /\ cache \in Seq(Entry) /\ Unique(cache) /\ Len(cache) <= size
           /\ \A e \in Entries(cache) : e[2].id \in 1 .. built
           /\ \A r \in Callers : at[r] \in {"add", "use"} =>
                client[r].backend = backend[r] /\ client[r].id \in 1 .. built
           /\ evictions = 0 /\ substituted = 0 => \A r \in Callers : at[r] = "use" =>
                <<clientCacheKey(backend[r]), client[r]>> \in Entries(cache)
  BY Zenon DEF CacheInv, ListInv, Owns, Shares

LEMMA InitCacheInv == CacheInit => CacheInv
<1> SUFFICES ASSUME CacheInit PROVE CacheInv
  OBVIOUS
<1>1. cache \in Seq(Entry) /\ Unique(cache) /\ Entries(cache) = {} /\ Len(cache) = 0
  BY DEF CacheInit, Unique, Entries
<1>2. /\ size \in Nat \ {0} /\ clientCacheCap = size /\ resizing = FALSE
      /\ built \in 0 .. MaxClients /\ evictions \in Nat /\ substituted \in Nat
  BY ClientCacheAssumption DEF CacheInit
<1>3. client \in [Callers -> Client]
  BY DEF CacheInit, Client
<1>4. at = [r \in Callers |-> "idle"] /\ backend \in [Callers -> Backend]
  BY Zenon DEF CacheInit
<1>5. Typed
  BY Zenon, <1>2, <1>3, <1>4 DEF Typed
<1>6. \A r \in Callers : Owns(r) /\ Shares(r)
  BY <1>4 DEF Owns, Shares
<1>7. ListInv(cache, size, built)
  BY <1>1, <1>2 DEF ListInv
<1> QED BY Zenon, <1>5, <1>6, <1>7 DEF CacheInv

LEMMA OneEntry ==
    ASSUME Unique(cache), NEW e \in Entries(cache), NEW f \in Entries(cache), e[1] = f[1]
    PROVE  e = f
<1>1. PICK i \in 1 .. Len(cache) : e = cache[i]
  BY Zenon DEF Entries
<1>2. PICK j \in 1 .. Len(cache) : f = cache[j]
  BY Zenon DEF Entries
<1> QED BY Zenon, <1>1, <1>2 DEF Unique

LEMMA EntryOf ==
    ASSUME NEW c \in Client
    PROVE  <<clientCacheKey(c.backend), c>> \in Entry
  BY Zenon DEF Entry

\* Hit: the same entries in another order.
LEMMA HitCacheInv == ASSUME CacheInv, NEW r \in Callers, NEW b \in Backend, Hit(r, b) PROVE CacheInv'
<1> DEFINE k == clientCacheKey(b)
           x == Cached(k)
           w == Without(k)
           n == <<<<k, x>>>> \o w
<1>1. cache \in Seq(Entry) /\ Unique(cache)
  BY Zenon, CacheInvNow DEF Typed
<1>2. /\ Position(k) # {} /\ client' = [client EXCEPT ![r] = x] /\ cache' = n
      /\ backend' = [backend EXCEPT ![r] = b] /\ at' = [at EXCEPT ![r] = "use"]
      /\ UNCHANGED <<size, clientCacheCap, resizing, built, evictions, substituted>>
  BY DEF Hit, Goto, config
<1>3. /\ Place(k) \in 1 .. Len(cache) /\ cache[Place(k)] = <<k, x>> /\ x \in Client
      /\ k = clientCacheKey(x.backend)
  BY Zenon, <1>1, <1>2, PlaceFound
<1>4. <<k, x>> \in Entries(cache) /\ <<k, x>> \in Entry
  BY Zenon, <1>3, EntryOf DEF Entries
<1>5. /\ n \in Seq(Entry) /\ Unique(n)
      /\ Entries(n) = {<<k, x>>} \cup {e \in Entries(cache) : e[1] # k}
      /\ Len(n) = Len(w) + 1
  BY Zenon, <1>1, <1>4, InFront
<1>6. Len(n) = Len(cache)
  <2>1. Len(w) = Len(cache) - 1
    BY Zenon, <1>1, <1>2, WithoutKey
  <2> QED BY <1>1, <1>5, <2>1
<1>7. ASSUME NEW e \in Entries(cache), e[1] = k PROVE e = <<k, x>>
  <2>1. <<k, x>>[1] = k
    OBVIOUS
  <2> QED BY Zenon, <1>1, <1>4, <1>7, <2>1, OneEntry
<1>8. Entries(n) = Entries(cache)
  BY Zenon, <1>4, <1>5, <1>7
<1>9. x.backend = b
  <2>1. x.backend \in Backend
    BY <1>3 DEF Client
  <2> QED BY Zenon, <1>3, <2>1, KeyInjective
<1>10. x.id \in 1 .. built
  <2>1. <<k, x>>[2].id \in 1 .. built
    BY Zenon, <1>4, CacheInvNow DEF Typed
  <2> QED BY <2>1
<1> HIDE DEF k, x, w, n
<1>11. /\ at' \in [Callers -> {"idle", "build", "add", "use"}]
       /\ backend' \in [Callers -> Backend] /\ client' \in [Callers -> Client]
  BY Zenon, <1>2, <1>3, CacheInvNow DEF Typed
<1>12. /\ at'[r] = "use" /\ backend'[r] = b /\ client'[r] = x
       /\ \A q \in Callers \ {r} : at'[q] = at[q] /\ backend'[q] = backend[q] /\ client'[q] = client[q]
  BY Zenon, <1>2, CacheInvNow DEF Typed
<1>13. \A q \in Callers : at'[q] \in {"add", "use"} =>
          client'[q].backend = backend'[q] /\ client'[q].id \in 1 .. built
  BY Zenon, <1>9, <1>10, <1>12, CacheInvNow DEF Typed
<1>14. evictions = 0 /\ substituted = 0 => \A q \in Callers : at'[q] = "use" =>
          <<clientCacheKey(backend'[q]), client'[q]>> \in Entries(cache)
  BY Zenon, <1>4, <1>12, CacheInvNow DEF Typed, k
<1>15. Entries(cache') = Entries(cache)
  BY Zenon, <1>2, <1>8
<1>16. Typed'
  BY Zenon, <1>2, <1>11, CacheInvNow DEF Typed
<1>17. ListInv(cache', size', built')
  BY Zenon, <1>2, <1>5, <1>6, <1>15, CacheInvNow DEF ListInv
<1>18. evictions' = 0 /\ substituted' = 0 => \A q \in Callers : at'[q] = "use" =>
          <<clientCacheKey(backend'[q]), client'[q]>> \in Entries(cache')
  BY Zenon, <1>2, <1>14, <1>15
<1> QED BY Zenon, <1>2, <1>13, <1>16, <1>17, <1>18, CacheInvNext

\* Add of a client just built: it is in front, and what is not evicted stays.
LEMMA AddKeeps ==
    ASSUME CacheInv, NEW c \in Client, NEW k, k = clientCacheKey(c.backend), Add(k, c), size' = size
    PROVE  /\ cache' \in Seq(Entry) /\ Unique(cache') /\ Len(cache') <= size
           /\ <<k, c>> \in Entries(cache')
           /\ Entries(cache') \subseteq Entries(cache) \cup {<<k, c>>}
           /\ evictions' \in Nat
           /\ evictions' = 0 => /\ evictions = 0
                                /\ \A e \in Entries(cache) : e[1] # k => e \in Entries(cache')
<1> DEFINE n == <<<<k, c>>>> \o Without(k)
<1>1. cache \in Seq(Entry) /\ Unique(cache) /\ size \in Nat \ {0} /\ evictions \in Nat
  BY Zenon, CacheInvNow DEF Typed
<1>2. <<k, c>> \in Entry
  BY Zenon, EntryOf
<1>3. /\ n \in Seq(Entry) /\ Unique(n) /\ n # <<>> /\ n[1] = <<k, c>>
      /\ Entries(n) = {<<k, c>>} \cup {e \in Entries(cache) : e[1] # k}
  BY Zenon, <1>1, <1>2, InFront
<1>4. cache' = Trimmed(n, size) /\ evictions' = evictions + Len(n) - Len(cache')
  BY Zenon DEF Add
<1> HIDE DEF n
<1>5. /\ cache' \in Seq(Entry) /\ Unique(cache') /\ Len(cache') <= size
      /\ Len(cache') <= Len(n) /\ Len(cache') \in Nat
      /\ Entries(cache') \subseteq Entries(n)
      /\ Len(cache') = Len(n) => cache' = n
  <2>1. size \in Nat
    BY <1>1
  <2> QED BY Zenon, <1>3, <1>4, <2>1, CutDown
<1>6. <<k, c>> \in Entries(cache')
  <2>1. Len(n) >= 1 /\ 1 \in 1 .. (IF Len(n) < size THEN Len(n) ELSE size)
    BY <1>1, <1>3
  <2>2. 1 \in 1 .. Len(cache') /\ cache'[1] = n[1]
    BY <1>1, <1>3, <1>4, <2>1 DEF Trimmed
  <2> QED BY Zenon, <1>3, <2>2 DEF Entries
<1>7. evictions' \in Nat /\ (evictions' = 0 => evictions = 0 /\ Len(cache') = Len(n))
  BY <1>1, <1>3, <1>4, <1>5
<1> QED BY Zenon, <1>3, <1>5, <1>6, <1>7

LEMMA PeekOrAddCacheInv == ASSUME CacheInv, NEW r \in Callers, PeekOrAdd(r) PROVE CacheInv'
<1> DEFINE k == clientCacheKey(backend[r])
<1>1. /\ at[r] = "add" /\ at' = [at EXCEPT ![r] = "use"]
      /\ UNCHANGED <<size, clientCacheCap, resizing, backend, built, substituted>>
  BY Zenon DEF PeekOrAdd, Goto, config
<1>2. /\ client[r] \in Client /\ client[r].backend = backend[r] /\ client[r].id \in 1 .. built
      /\ backend[r] \in Backend
  BY Zenon, <1>1, CacheInvNow DEF Typed
<1>3. at' \in [Callers -> {"idle", "build", "add", "use"}]
  BY Zenon, <1>1, CacheInvNow DEF Typed
<1>4. at'[r] = "use" /\ \A q \in Callers \ {r} : at'[q] = at[q]
  BY Zenon, <1>1, CacheInvNow DEF Typed
<1>5. CASE Position(k) # {} /\ client' = [client EXCEPT ![r] = Cached(k)] /\ UNCHANGED <<cache, evictions>>
  <2> DEFINE x == Cached(k)
  <2>1. /\ Place(k) \in 1 .. Len(cache) /\ cache[Place(k)] = <<k, x>> /\ x \in Client
        /\ k = clientCacheKey(x.backend)
    BY Zenon, <1>5, PlaceFound, CacheInvNow DEF Typed
  <2>2. <<k, x>> \in Entries(cache)
    BY Zenon, <2>1 DEF Entries
  <2>3. x.backend = backend[r]
    <3>1. x.backend \in Backend
      BY <2>1 DEF Client
    <3> QED BY Zenon, <1>2, <2>1, <3>1, KeyInjective
  <2>4. x.id \in 1 .. built
    <3>1. <<k, x>>[2].id \in 1 .. built
      BY Zenon, <2>2, CacheInvNow DEF Typed
    <3> QED BY <3>1
  <2> HIDE DEF x
  <2>5. client' \in [Callers -> Client] /\ client'[r] = x /\ \A q \in Callers \ {r} : client'[q] = client[q]
    BY Zenon, <1>5, <2>1, CacheInvNow DEF Typed, x
  <2>6. \A q \in Callers : at'[q] \in {"add", "use"} =>
           client'[q].backend = backend[q] /\ client'[q].id \in 1 .. built
    BY Zenon, <1>4, <2>3, <2>4, <2>5, CacheInvNow DEF Typed
  <2>7. evictions = 0 /\ substituted = 0 => \A q \in Callers : at'[q] = "use" =>
           <<clientCacheKey(backend[q]), client'[q]>> \in Entries(cache)
    BY Zenon, <1>4, <2>2, <2>5, CacheInvNow DEF Typed
  <2>8. Typed' /\ ListInv(cache', size', built')
    BY Zenon, <1>1, <1>3, <1>5, <2>5, CacheInvNow DEF Typed
  <2>9. evictions' = 0 /\ substituted' = 0 => \A q \in Callers : at'[q] = "use" =>
           <<clientCacheKey(backend'[q]), client'[q]>> \in Entries(cache')
    BY Zenon, <1>1, <1>5, <2>7
  <2> QED BY Zenon, <1>1, <2>6, <2>8, <2>9, CacheInvNext
<1>6. CASE Position(k) = {} /\ Add(k, client[r]) /\ UNCHANGED client
  <2> DEFINE x == <<k, client[r]>>
  <2>1. /\ cache' \in Seq(Entry) /\ Unique(cache') /\ Len(cache') <= size
        /\ x \in Entries(cache')
        /\ Entries(cache') \subseteq Entries(cache) \cup {x}
        /\ evictions' \in Nat
        /\ evictions' = 0 => evictions = 0 /\ \A e \in Entries(cache) : e[1] # k => e \in Entries(cache')
    BY Zenon, <1>1, <1>2, <1>6, AddKeeps
  <2>2. ASSUME NEW e \in Entries(cache) PROVE e[1] # k
    BY Zenon, <1>6 DEF Entries, Position
  <2>3. ASSUME NEW e \in Entries(cache') PROVE e[2].id \in 1 .. built
    <3>1. x[2] = client[r]
      OBVIOUS
    <3> QED BY Zenon, <1>2, <2>1, <3>1, CacheInvNow DEF Typed
  <2>4. \A q \in Callers : at'[q] \in {"add", "use"} =>
           client[q].backend = backend[q] /\ client[q].id \in 1 .. built
    BY Zenon, <1>2, <1>4, CacheInvNow DEF Typed
  <2>5. evictions' = 0 /\ substituted = 0 => \A q \in Callers : at'[q] = "use" =>
           <<clientCacheKey(backend[q]), client[q]>> \in Entries(cache')
    BY Zenon, <1>4, <2>1, <2>2, CacheInvNow DEF Typed
  <2> HIDE DEF x
  <2>6. Typed'
    BY Zenon, <1>1, <1>3, <1>6, <2>1, CacheInvNow DEF Typed
  <2>7. ListInv(cache', size', built')
    BY Zenon, <1>1, <2>1, <2>3 DEF ListInv
  <2>8. evictions' = 0 /\ substituted' = 0 => \A q \in Callers : at'[q] = "use" =>
           <<clientCacheKey(backend'[q]), client'[q]>> \in Entries(cache')
    BY Zenon, <1>1, <1>6, <2>5
  <2> QED BY Zenon, <1>1, <1>6, <2>4, <2>6, <2>7, <2>8, CacheInvNext
<1> QED BY Zenon, <1>5, <1>6 DEF PeekOrAdd

LEMMA SetBackendCacheInv == ASSUME CacheInv, NEW b \in Backend, SetBackend(b) PROVE CacheInv'
<1> DEFINE c == [id |-> built + 1, backend |-> b]
           k == clientCacheKey(b)
<1>1. /\ built < MaxClients /\ built' = built + 1 /\ Add(k, c) /\ substituted' = substituted + 1
      /\ UNCHANGED <<size, clientCacheCap, resizing, at, backend, client>>
  BY Zenon DEF SetBackend, config
<1>2. built \in Nat /\ built' \in 0 .. MaxClients /\ 1 .. built \subseteq 1 .. built' /\ built + 1 \in 1 .. built'
  BY <1>1, ClientCacheAssumption, CacheInvNow DEF Typed
<1>3. c \in Client /\ k = clientCacheKey(c.backend) /\ c.id = built + 1
  BY <1>2 DEF Client
<1> HIDE DEF c, k
<1>4. /\ cache' \in Seq(Entry) /\ Unique(cache') /\ Len(cache') <= size
      /\ Entries(cache') \subseteq Entries(cache) \cup {<<k, c>>}
      /\ evictions' \in Nat
  BY Zenon, <1>1, <1>3, AddKeeps
<1>5. ASSUME NEW e \in Entries(cache') PROVE e[2].id \in 1 .. built'
  <2>1. <<k, c>>[2] = c
    OBVIOUS
  <2> QED BY Zenon, <1>2, <1>3, <1>4, <2>1, CacheInvNow DEF Typed
<1>6. substituted' \in Nat /\ substituted' # 0
  BY <1>1, CacheInvNow DEF Typed
<1>7. \A q \in Callers : at[q] \in {"add", "use"} =>
           client[q].backend = backend[q] /\ client[q].id \in 1 .. built'
  BY Zenon, <1>2, CacheInvNow DEF Typed
<1>8. Typed'
  BY Zenon, <1>1, <1>2, <1>4, <1>6, CacheInvNow DEF Typed
<1>9. ListInv(cache', size', built')
  BY Zenon, <1>1, <1>4, <1>5 DEF ListInv
<1> QED BY Zenon, <1>1, <1>6, <1>7, <1>8, <1>9, CacheInvNext

LEMMA SetSizeCacheInv == ASSUME CacheInv, NEW n \in Sizes, SetClientCacheSize(n) PROVE CacheInv'
<1>1. /\ clientCacheCap' = (IF n < 1 THEN 1 ELSE n) /\ resizing' = TRUE
      /\ UNCHANGED <<cache, size, at, backend, client, built, evictions, substituted>>
  BY Zenon DEF SetClientCacheSize, counters
<1>2. clientCacheCap' \in Nat \ {0}
  BY <1>1, ClientCacheAssumption
<1>3. Typed' /\ ListInv(cache', size', built')
  BY Zenon, <1>1, <1>2, CacheInvNow DEF Typed
<1> QED BY Zenon, <1>1, <1>3, CacheInvNow, CacheInvNext

LEMMA ResizeCacheInv == ASSUME CacheInv, Resize PROVE CacheInv'
<1>1. /\ size' = clientCacheCap /\ clientCacheCap' = clientCacheCap /\ resizing' = FALSE
      /\ cache' = Trimmed(cache, size')
      /\ evictions' = evictions + Len(cache) - Len(cache')
      /\ UNCHANGED <<at, backend, client, built, substituted>>
  BY Zenon DEF Resize
<1>2. size' \in Nat \ {0}
  BY Zenon, <1>1, CacheInvNow DEF Typed
<1>3. /\ cache' \in Seq(Entry) /\ Unique(cache') /\ Len(cache') <= size'
      /\ Len(cache') <= Len(cache) /\ Len(cache') \in Nat
      /\ Entries(cache') \subseteq Entries(cache)
      /\ Len(cache') = Len(cache) => cache' = cache
  <2>1. size' \in Nat
    BY <1>2
  <2> QED BY Zenon, <1>1, <2>1, CutDown, CacheInvNow DEF Typed
<1>4. evictions' \in Nat /\ (evictions' = 0 => evictions = 0 /\ cache' = cache)
  <2>1. cache \in Seq(Entry) /\ evictions \in Nat
    BY Zenon, CacheInvNow DEF Typed
  <2> QED BY <1>1, <1>3, <2>1
<1>5. ASSUME NEW e \in Entries(cache') PROVE e[2].id \in 1 .. built
  BY Zenon, <1>3, CacheInvNow DEF Typed
<1>6. evictions' = 0 /\ substituted = 0 => \A q \in Callers : at[q] = "use" =>
         <<clientCacheKey(backend[q]), client[q]>> \in Entries(cache')
  BY Zenon, <1>4, CacheInvNow DEF Typed
<1>7. Typed'
  BY Zenon, <1>1, <1>2, <1>4, CacheInvNow DEF Typed
<1>8. ListInv(cache', size', built')
  BY Zenon, <1>1, <1>3, <1>5 DEF ListInv
<1>9. evictions' = 0 /\ substituted' = 0 => \A q \in Callers : at'[q] = "use" =>
         <<clientCacheKey(backend'[q]), client'[q]>> \in Entries(cache')
  BY Zenon, <1>1, <1>6
<1> QED BY Zenon, <1>1, <1>7, <1>8, <1>9, CacheInvNow, CacheInvNext

\* The steps that leave the cache alone.
LEMMA OtherCacheInv ==
    ASSUME CacheInv, NEW r \in Callers,
           \/ \E b \in Backend : Miss(r, b)
           \/ Build(r) \/ BuildFails(r) \/ Release(r)
    PROVE  CacheInv'
<1>1. ASSUME NEW b \in Backend, Miss(r, b) PROVE CacheInv'
  <2>1. /\ at' = [at EXCEPT ![r] = "build"] /\ backend' = [backend EXCEPT ![r] = b]
        /\ UNCHANGED <<cache, size, clientCacheCap, resizing, client, built, evictions, substituted>>
    BY Zenon, <1>1 DEF Miss, Goto, config
  <2>2. Typed' /\ ListInv(cache', size', built')
    BY Zenon, <2>1, CacheInvNow DEF Typed
  <2>3. at'[r] = "build" /\ \A q \in Callers \ {r} : at'[q] = at[q] /\ backend'[q] = backend[q]
    BY Zenon, <2>1, CacheInvNow DEF Typed
  <2>4. \A q \in Callers : at'[q] \in {"add", "use"} =>
           client'[q].backend = backend'[q] /\ client'[q].id \in 1 .. built'
    BY Zenon, <2>1, <2>3, CacheInvNow
  <2>5. evictions' = 0 /\ substituted' = 0 => \A q \in Callers : at'[q] = "use" =>
           <<clientCacheKey(backend'[q]), client'[q]>> \in Entries(cache')
    BY Zenon, <2>1, <2>3, CacheInvNow
  <2> QED BY Zenon, <2>2, <2>4, <2>5, CacheInvNext
<1>2. ASSUME Build(r) PROVE CacheInv'
  <2>1. built \in Nat /\ built' \in 0 .. MaxClients /\ 1 .. built \subseteq 1 .. built' /\ built + 1 \in 1 .. built'
    BY <1>2, ClientCacheAssumption, CacheInvNow DEF Build, Typed
  <2> DEFINE c == [id |-> built + 1, backend |-> backend[r]]
  <2>2. c \in Client /\ c.id = built + 1 /\ c.backend = backend[r]
    BY <2>1, CacheInvNow DEF Client, Typed
  <2>3. /\ client' = [client EXCEPT ![r] = c] /\ at' = [at EXCEPT ![r] = "add"]
        /\ UNCHANGED <<cache, size, clientCacheCap, resizing, backend, evictions, substituted>>
    BY Zenon, <1>2 DEF Build, Goto, config, counters
  <2> HIDE DEF c
  <2>4. /\ client' \in [Callers -> Client] /\ at' \in [Callers -> {"idle", "build", "add", "use"}]
        /\ at'[r] = "add" /\ client'[r] = c
        /\ \A q \in Callers \ {r} : at'[q] = at[q] /\ client'[q] = client[q]
    BY Zenon, <2>2, <2>3, CacheInvNow DEF Typed
  <2>5. \A q \in Callers : at'[q] \in {"add", "use"} =>
           client'[q].backend = backend[q] /\ client'[q].id \in 1 .. built'
    BY Zenon, <2>1, <2>2, <2>4, CacheInvNow DEF Typed
  <2>6. evictions = 0 /\ substituted = 0 => \A q \in Callers : at'[q] = "use" =>
           <<clientCacheKey(backend[q]), client'[q]>> \in Entries(cache)
    BY Zenon, <2>4, CacheInvNow DEF Typed
  <2>7. \A e \in Entries(cache) : e[2].id \in 1 .. built'
    BY Zenon, <2>1, CacheInvNow DEF Typed
  <2>8. Typed'
    BY Zenon, <2>1, <2>3, <2>4, CacheInvNow DEF Typed
  <2>9. ListInv(cache', size', built')
    BY Zenon, <2>3, <2>7, CacheInvNow DEF ListInv
  <2> QED BY Zenon, <2>3, <2>5, <2>6, <2>8, <2>9, CacheInvNext
<1>3. ASSUME BuildFails(r) \/ Release(r) PROVE CacheInv'
  <2>1. /\ at' = [at EXCEPT ![r] = "idle"]
        /\ UNCHANGED <<cache, size, clientCacheCap, resizing, backend, client, built, evictions, substituted>>
    BY Zenon, <1>3 DEF BuildFails, Release, Goto, config, counters
  <2>2. Typed' /\ ListInv(cache', size', built')
    BY Zenon, <2>1, CacheInvNow DEF Typed
  <2>3. \A q \in Callers : at'[q] \in {"add", "use"} => at'[q] = at[q]
    BY Zenon, <2>1, CacheInvNow DEF Typed
  <2>4. \A q \in Callers : at'[q] \in {"add", "use"} =>
           client'[q].backend = backend'[q] /\ client'[q].id \in 1 .. built'
    BY Zenon, <2>1, <2>3, CacheInvNow
  <2>5. evictions' = 0 /\ substituted' = 0 => \A q \in Callers : at'[q] = "use" =>
           <<clientCacheKey(backend'[q]), client'[q]>> \in Entries(cache')
    BY Zenon, <2>1, <2>3, CacheInvNow
  <2> QED BY Zenon, <2>2, <2>4, <2>5, CacheInvNext
<1> QED BY Zenon, <1>1, <1>2, <1>3

LEMMA NextCacheInv == CacheInv /\ [CacheNext]_cacheVars => CacheInv'
<1> SUFFICES ASSUME CacheInv, [CacheNext]_cacheVars PROVE CacheInv'
  OBVIOUS
<1>1. CASE UNCHANGED cacheVars
  <2>1. UNCHANGED <<cache, size, clientCacheCap, resizing, at, backend, client, built, evictions, substituted>>
    BY Zenon, <1>1 DEF cacheVars, config, counters
  <2>2. Typed' /\ ListInv(cache', size', built')
    BY Zenon, <2>1, CacheInvNow DEF Typed
  <2> QED BY Zenon, <2>1, <2>2, CacheInvNow, CacheInvNext
<1> QED BY Zenon, <1>1, HitCacheInv, PeekOrAddCacheInv, SetBackendCacheInv, SetSizeCacheInv,
           ResizeCacheInv, OtherCacheInv DEF CacheNext

\* The invariant, for any requests, backends, sizes and interleaving.
THEOREM CacheInductive == CacheSpec => []CacheInv
  BY InitCacheInv, NextCacheInv, PTL DEF CacheSpec

\* One client per key and, outside SetClientCacheSize, never more of them than the
\* reported capacity, however the cache is resized and filled.
THEOREM CacheTypeCorrect == CacheSpec => []CacheTypeOK
<1>1. CacheInv => CacheTypeOK
  BY Zenon DEF CacheInv, Typed, ListInv, CacheTypeOK, Unique, Entries
<1> QED BY <1>1, CacheInductive, PTL

\* A request uses a client of its own backend and its current secret.
THEOREM OwnBackend == CacheSpec => []RightClient
<1>1. CacheInv => RightClient
  BY Zenon DEF CacheInv, Owns, RightClient
<1> QED BY <1>1, CacheInductive, PTL

\* Without an eviction or a substitution concurrent misses converge.
THEOREM MissesConverge == CacheSpec => []Converges
<1>1. CacheInv => Converges
  <2> SUFFICES ASSUME CacheInv, evictions = 0, substituted = 0, NEW r \in Callers, at[r] = "use"
               PROVE  /\ Position(clientCacheKey(backend[r])) # {}
                      /\ client[r] = Cached(clientCacheKey(backend[r]))
    BY Zenon DEF Converges
  <2> DEFINE k == clientCacheKey(backend[r])
  <2>1. cache \in Seq(Entry) /\ Unique(cache) /\ <<k, client[r]>> \in Entries(cache)
    BY Zenon, CacheInvNow
  <2>2. Position(k) # {}
    BY <2>1 DEF Position, Entries
  <2>3. Place(k) \in 1 .. Len(cache) /\ cache[Place(k)] = <<k, Cached(k)>>
    BY Zenon, <2>1, <2>2, PlaceFound
  <2>4. <<k, Cached(k)>> \in Entries(cache)
    BY Zenon, <2>3 DEF Entries
  <2>5. <<k, Cached(k)>>[1] = <<k, client[r]>>[1]
    OBVIOUS
  <2>6. <<k, Cached(k)>> = <<k, client[r]>>
    BY Zenon, <2>1, <2>4, <2>5, OneEntry
  <2> QED BY <2>2, <2>6
<1> QED BY <1>1, CacheInductive, PTL

=============================================================================
