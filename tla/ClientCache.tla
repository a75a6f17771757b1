---------------------------- MODULE ClientCache ----------------------------
(***************************************************************************)
(* The backend client cache of s3gw/gateway.go: an LRU cache (external,    *)
(* golang-lru) that requests consult, fill and converge on concurrently,   *)
(* while the service resizes it and substitutes clients.                   *)
(***************************************************************************)
EXTENDS Integers, Sequences

CONSTANTS Callers,      \* requests that call backendClient
          Backend,      \* backend definitions [endpoint, secret]
          Sizes,        \* sizes given to SetClientCacheSize
          MaxClients,   \* bound on the clients ever built
          MaxGets       \* bound on the lookups

ASSUME ClientCacheAssumption ==
    /\ \A b \in Backend : b = [endpoint |-> b.endpoint, secret |-> b.secret]
    /\ Sizes \subseteq Int /\ MaxClients \in Nat /\ MaxGets \in Nat

VARIABLES cache,       \* <<key, client>> pairs, the most recently used first
          size,        \* how many of them the LRU keeps
          clientCacheCap,        \* the capacity ClientCacheStats reports
          resizing,    \* SetClientCacheSize is between its two statements
          at, backend, client,   \* of each caller
          built,       \* number of clients built so far; a client is [id, backend]
          hits, misses, evictions, substituted

config == <<size, clientCacheCap, resizing>>
counters == <<hits, misses, evictions>>
cacheVars == <<cache, config, at, backend, client, built, counters, substituted>>

\* Faulty key: a rotated secret finds the old client.
clientCacheKeyEndpointOnly(b) == [endpoint |-> b.endpoint, secret |-> "any"]

\* newClientCacheKey: all that a client is built from but the bucket.
clientCacheKey(b) == [endpoint |-> b.endpoint, secret |-> b.secret]

\* Where the LRU list (external) has the key, what it has there, and the rest.
Position(key) == {i \in 1 .. Len(cache) : cache[i][1] = key}
Place(key) == CHOOSE i \in Position(key) : TRUE
Cached(key) == cache[Place(key)][2]
Without(key) ==
    IF Position(key) = {} THEN cache
    ELSE SubSeq(cache, 1, Place(key) - 1) \o SubSeq(cache, Place(key) + 1, Len(cache))

\* The cache cut down to n entries, the least recently used ones evicted.
Trimmed(c, n) == SubSeq(c, 1, IF Len(c) < n THEN Len(c) ELSE n)

\* Types: the LRU holds one client per key and only clients that were built, and
\* unless SetClientCacheSize is at work never more of them than the capacity that
\* ClientCacheStats reports beside its length.
CacheTypeOK ==
    /\ \A i \in 1 .. Len(cache) : cache[i][2].id \in 1 .. built
    /\ \A i, j \in 1 .. Len(cache) : cache[i][1] = cache[j][1] => i = j
    /\ size \in Nat /\ clientCacheCap \in Nat /\ resizing \in BOOLEAN
    /\ ~resizing => Len(cache) <= clientCacheCap
    /\ at \in [Callers -> {"idle", "build", "add", "use"}]
    /\ built \in 0 .. MaxClients

CacheInit ==
    /\ cache = <<>>
    /\ size \in {n \in Sizes : n >= 1}
    /\ clientCacheCap = size
    /\ resizing = FALSE
    /\ at = [r \in Callers |-> "idle"]
    /\ backend \in [Callers -> Backend]
    /\ client = [r \in Callers |-> [id |-> 0, backend |-> backend[r]]]
    /\ built = 0
    /\ hits = 0 /\ misses = 0 /\ evictions = 0 /\ substituted = 0

-----------------------------------------------------------------------------
(* backendClient *)

Goto(r, label) == at' = [at EXCEPT ![r] = label]

\* clients.Get: a hit moves to the front.
Hit(r, b) ==
    /\ at[r] = "idle"
    /\ hits + misses < MaxGets
    /\ LET key == clientCacheKey(b)
       IN  /\ Position(key) # {}
           /\ client' = [client EXCEPT ![r] = Cached(key)]
           /\ cache' = <<<<key, Cached(key)>>>> \o Without(key)
    /\ backend' = [backend EXCEPT ![r] = b]
    /\ hits' = hits + 1
    /\ Goto(r, "use")
    /\ UNCHANGED <<config, built, misses, evictions, substituted>>

Miss(r, b) ==
    /\ at[r] = "idle"
    /\ hits + misses < MaxGets
    /\ Position(clientCacheKey(b)) = {}
    /\ backend' = [backend EXCEPT ![r] = b]
    /\ misses' = misses + 1
    /\ Goto(r, "build")
    /\ UNCHANGED <<cache, config, client, built, hits, evictions, substituted>>

\* g.newClient
Build(r) ==
    /\ at[r] = "build"
    /\ built < MaxClients
    /\ built' = built + 1
    /\ client' = [client EXCEPT ![r] = [id |-> built + 1, backend |-> backend[r]]]
    /\ Goto(r, "add")
    /\ UNCHANGED <<cache, config, backend, counters, substituted>>

BuildFails(r) ==
    /\ at[r] = "build"
    /\ Goto(r, "idle")
    /\ UNCHANGED <<cache, config, backend, client, built, counters, substituted>>

\* clients.Add (external): to the front, over what the key had.
Add(key, c) ==
    LET added == <<<<key, c>>>> \o Without(key)
    IN  /\ cache' = Trimmed(added, size)
        /\ evictions' = evictions + Len(added) - Len(cache')

\* Faulty end: what another request cached meanwhile is overwritten.
AddOver(r) ==
    /\ at[r] = "add"
    /\ Add(clientCacheKey(backend[r]), client[r])
    /\ Goto(r, "use")
    /\ UNCHANGED <<config, backend, client, built, hits, misses, substituted>>

\* clients.PeekOrAdd: the client cached meanwhile wins.
PeekOrAdd(r) ==
    /\ at[r] = "add"
    /\ LET key == clientCacheKey(backend[r])
       IN  \/ /\ Position(key) # {}
              /\ client' = [client EXCEPT ![r] = Cached(key)]
              /\ UNCHANGED <<cache, evictions>>
           \/ /\ Position(key) = {}
              /\ Add(key, client[r])
              /\ UNCHANGED client
    /\ Goto(r, "use")
    /\ UNCHANGED <<config, backend, built, hits, misses, substituted>>

\* The request is over; its client may stay cached.
Release(r) ==
    /\ at[r] = "use"
    /\ Goto(r, "idle")
    /\ UNCHANGED <<cache, config, backend, client, built, counters, substituted>>

-----------------------------------------------------------------------------
SetBackend(b) ==
    /\ built < MaxClients
    /\ built' = built + 1
    /\ Add(clientCacheKey(b), [id |-> built + 1, backend |-> b])
    /\ substituted' = substituted + 1
    /\ UNCHANGED <<config, at, backend, client, hits, misses>>

\* SetClientCacheSize, called by one goroutine at a time: it stores the capacity that
\* is reported.
SetClientCacheSize(n) ==
    /\ ~resizing
    /\ clientCacheCap' = (IF n < 1 THEN 1 ELSE n)
    /\ resizing' = TRUE
    /\ UNCHANGED <<cache, size, at, backend, client, built, counters, substituted>>

\* Faulty end of SetClientCacheSize: the LRU is not resized.
ResizeForgotten ==
    /\ resizing
    /\ resizing' = FALSE
    /\ UNCHANGED <<cache, size, clientCacheCap, at, backend, client, built, counters, substituted>>

\* Then it resizes the LRU.
Resize ==
    /\ resizing
    /\ size' = clientCacheCap
    /\ cache' = Trimmed(cache, size')
    /\ evictions' = evictions + Len(cache) - Len(cache')
    /\ resizing' = FALSE
    /\ UNCHANGED <<clientCacheCap, at, backend, client, built, hits, misses, substituted>>

CacheNext ==
    \/ \E r \in Callers : \E b \in Backend : Hit(r, b) \/ Miss(r, b)
    \/ \E r \in Callers : Build(r) \/ BuildFails(r) \/ PeekOrAdd(r) \/ Release(r)
    \/ \E b \in Backend : SetBackend(b)
    \/ \E n \in Sizes : SetClientCacheSize(n)
    \/ Resize

CacheSpec == CacheInit /\ [][CacheNext]_cacheVars

-----------------------------------------------------------------------------
\* A request talks to its bucket's backend with that backend's credentials,
\* however the cache was filled, refilled and cut down meanwhile.
RightClient == \A r \in Callers : at[r] = "use" => client[r].backend = backend[r]

\* backendClient: concurrent misses "converge on the one already cached so a
\* backend keeps a single connection pool".  Unless an entry was evicted or
\* substituted, all requests to a backend hold the one client the cache has.
Converges ==
    evictions = 0 /\ substituted = 0 =>
        \A r \in Callers : at[r] = "use" =>
            /\ Position(clientCacheKey(backend[r])) # {}
            /\ client[r] = Cached(clientCacheKey(backend[r]))
=============================================================================
