----------------------------- MODULE MCVerifier -----------------------------
(***************************************************************************)
(* Verifier for TLC.  Two access keys share a slot: "a" is long-lived with *)
(* its secret in the store, "b" temporary with a token per generation and  *)
(* a remote signing key.  The requests are well-signed ones of both forms  *)
(* and ones that differ from them in one thing.                            *)
(***************************************************************************)
EXTENDS Verifier, TLC

CONSTANTS r1, r2

MCRequests == {r1, r2}
MCSlotOf == [k \in KeyIDs |-> 1]
MCScopes == {<<d, "us">> : d \in 0 .. 3} \cup {<<0, "eu">>}
MCTokenOf == [a |-> [g \in 0 .. MaxGen |-> "none"], b |-> [g \in 0 .. MaxGen |-> <<"t0", "t1">>[g + 1]]]
MCAmz == {"date", "sha256", "token", "meta", "class"}
MCAuthParams == {"date", "token", "expires"}
MCLower == [p \in {"v", "date", "token", "expires", "meta", "class"} |-> p] @@ ("Meta" :> "meta")

Sign(q, g) ==
    [q EXCEPT !.sig =
        [key |-> [accessKeyID |-> q.akid, version |-> g, scope |-> <<q.date, q.region>>],
         time |-> Time(q), canonical |-> canonicalRequest(q)]]

Token(k, g) == IF k = "b" THEN [token |-> MCTokenOf[k][g]] ELSE <<>>

\* A request signed in its header, and one in its query, by generation g at t.
Unsigned(form, k, t, headers, query) ==
    [form |-> form, shape |-> "ok", akid |-> k, date |-> t \div Day, region |-> "us",
     list |-> DOMAIN headers, headers |-> headers, query |-> query, sig |-> "none"]

HeaderOf(k, g, t) ==
    Unsigned("header", k, t,
             [host |-> "h", date |-> t, sha256 |-> "p", meta |-> "m"] @@ Token(k, g), [v |-> "1"])
QueryOf(k, g, t, e, more) ==
    Unsigned("presigned", k, t, [host |-> "h"], [v |-> "1", date |-> t, expires |-> e] @@ Token(k, g) @@ more)

Header(k, g, t) == Sign(HeaderOf(k, g, t), g)
Presigned(k, g, t, e) == Sign(QueryOf(k, g, t, e, [meta |-> "m"]), g)

A == HeaderOf("a", 0, 1)
P == QueryOf("a", 0, 1, 2, <<>>)

Different ==
    {\* refused before anything is looked up
     [Header("a", 0, 1) EXCEPT !.form = "both"],
     [Header("a", 0, 1) EXCEPT !.shape = "malformed"],
     Sign([A EXCEPT !.region = "eu"], 0),
     [Header("a", 0, 1) EXCEPT !.headers = @ @@ [class |-> "cold"]],
     \* an unknown key, and tokens that do not match
     [Header("a", 0, 1) EXCEPT !.akid = "z"],
     Sign([HeaderOf("b", 0, 1) EXCEPT !.headers.token = "t1"], 0),
     Sign([A EXCEPT !.headers = @ @@ [token |-> "t0"], !.list = @ \cup {"token"}], 0),
     \* scope, list and payload hash
     Sign([A EXCEPT !.date = 1], 0),
     [Header("a", 0, 1) EXCEPT !.shape = "unsorted"],
     [Header("a", 0, 1) EXCEPT !.list = @ \cup {"class"}],
     Sign(Unsigned("header", "a", 1, [host |-> "h", date |-> 1], [v |-> "1"]), 0),
     \* changed after it was signed
     [Header("a", 0, 1) EXCEPT !.headers.meta = "n"],
     [Presigned("a", 0, 1, 1) EXCEPT !.query.expires = 2],
     [Presigned("a", 0, 1, 2) EXCEPT !.headers = @ @@ [class |-> "cold"]],
     \* parameters that differ in case, or repeat a header
     Sign(QueryOf("a", 0, 1, 2, [meta |-> "m"] @@ ("Meta" :> "n")), 0),
     Sign([P EXCEPT !.headers = @ @@ [meta |-> "n"], !.list = @ \cup {"meta"},
                    !.query = @ @@ [meta |-> "m"]], 0),
     Sign([P EXCEPT !.headers = @ @@ [meta |-> ""], !.list = @ \cup {"meta"},
                    !.query = @ @@ [meta |-> "m"]], 0)}

Timed ==
    {Header("a", g, t) : g \in 0 .. 1, t \in {1, 4}} \cup {Header("b", g, 1) : g \in 0 .. 1}
    \cup {Presigned("a", 0, t, e) : t \in {0, 1}, e \in {1, 2}}
    \cup {Presigned("a", 0, 1, e) : e \in {15, 16, 17}} \cup {Presigned("a", 0, 0, 3)}
    \cup {Sign([QueryOf("a", 0, 0, 2, <<>>) EXCEPT !.date = 3], 0)}

MCInputs == (r1 :> Timed \cup Different)
         @@ (r2 :> {Header("a", 0, 1), Header("b", 0, 1)})
=============================================================================
