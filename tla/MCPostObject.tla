---------------------------- MODULE MCPostObject ----------------------------
(***************************************************************************)
(* PostObject for TLC: forms whose key contains the file's name or not,    *)
(* with fields that are covered, uncovered, ignored and unknown, and       *)
(* policies whose conditions they meet, miss or do not name.               *)
(***************************************************************************)
EXTENDS PostObject, TLC

Eq(f, v) == [op |-> "eq", field |-> f, value |-> v]
StartsWith(f, v) == [op |-> "starts-with", field |-> f, value |-> v]
Size(lo, hi) == [op |-> "content-length-range", min |-> lo, max |-> hi]

MCTarget == <<"b">>

\* The conditions every usable policy has, and those on the key.
Base == <<Eq("bucket", <<"b">>), StartsWith("credential", <<>>)>>

MCConditions ==
    {Base \o k \o r :
        k \in {<<Eq("key", <<"up", "x">>)>>, <<StartsWith("key", <<"up">>)>>},
        r \in {<<>>, <<Size(2, 3)>>, <<Size(0, 2), Size(1, 9)>>}}
    \cup {Base \o <<StartsWith("key", <<>>), StartsWith("acl", <<>>), Size(2, 2)>>,
          Base \o <<Eq("key", <<"up", Filename>>)>>,
          Base \o <<StartsWith("key", <<>>), [op |-> "matches", field |-> "key", value |-> <<>>]>>,
          Base \o <<StartsWith("key", <<>>), Size(0, 1), Size(2, 3)>>,
          Base \o Base \o Base}

MCDocs == {[expiration |-> 5, conds |-> c] : c \in MCConditions}

Auth == [credential |-> <<"id">>, policy |-> <<"doc">>]

MCFields ==
    {[key |-> <<"up", Filename>>] @@ Auth,
     [key |-> <<"up", "x">>] @@ Auth,
     [key |-> <<Filename>>, acl |-> <<"private">>] @@ Auth,
     [key |-> <<"up", "x">>, acl |-> <<"public">>] @@ Auth,
     [key |-> <<"up", "x">>, bucket |-> <<"c">>] @@ ("x-ignore-a" :> <<"i">>) @@ Auth,
     [key |-> <<"up", "x">>, other |-> <<"o">>] @@ Auth,
     Auth}

Plain == [fields |-> [key |-> <<"up", Filename>>] @@ Auth, filename |-> <<"x">>, size |-> 2,
          form |-> "ok", doc |-> [expiration |-> 5, conds |-> Base], date |-> 4,
          sig |-> [secret |-> "s", doc |-> [expiration |-> 5, conds |-> Base]]]

Signed(f, doc) == [f EXCEPT !.doc = doc, !.sig = [secret |-> "s", doc |-> doc]]

Good == CHOOSE doc \in MCDocs : doc.conds = Base \o <<StartsWith("key", <<"up">>), Size(2, 3)>>

Narrow == CHOOSE doc \in MCDocs :
    doc.conds = Base \o <<Eq("key", <<"up", "x">>), Size(0, 2), Size(1, 9)>>

\* Every field set under every document; then sizes, names, dates, signatures.
MCForm ==
    {Signed([Plain EXCEPT !.fields = fs], doc) : fs \in MCFields, doc \in MCDocs}
    \cup {Signed([Plain EXCEPT !.size = s, !.filename = name], doc) :
             s \in {NoFile, 0, 1, 3, 4}, name \in {<<>>, <<"x">>}, doc \in {Good, Narrow}}
    \cup {Signed([Plain EXCEPT !.date = d], Good) : d \in {1, 2, 6, 7}}
    \cup {Signed(Plain, [Good EXCEPT !.expiration = 3]),
          [Signed(Plain, Good) EXCEPT !.sig.secret = "other"],
          [Signed(Plain, Good) EXCEPT !.doc.expiration = 9],
          [Signed(Plain, Good) EXCEPT !.form = "bad"]}

Symmetry == Permutations(Uploads)
=============================================================================
