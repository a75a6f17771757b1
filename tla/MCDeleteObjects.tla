--------------------------- MODULE MCDeleteObjects ---------------------------
(***************************************************************************)
(* DeleteObjects for TLC: two keys, every list of up to two objects and    *)
(* some that are too long, bucket policies of one statement or an Allow    *)
(* and a Deny out of a set that mixes principals, actions, resources and   *)
(* conditions, and requesters of the bucket's own tenant and of another    *)
(* one, with and without a user policy.                                    *)
(***************************************************************************)
EXTENDS DeleteObjects, SequencesExt

Delete == "DeleteObject"
DeleteVersion == "DeleteObjectVersion"
Bypass == "BypassGovernanceRetention"

Always == [valid |-> TRUE, ip |-> {}, notIp |-> {}]

MCPrincipals ==
    {[kind |-> "users", names |-> {<<"other", "*">>, <<"own", "u">>}],
     [kind |-> "not", names |-> {<<"own", "u">>}]}

MCAllStatements ==
    [effect : {"Allow", "Deny"},
     principal : MCPrincipals,
     action : {{Delete, DeleteVersion}, {Bypass, DeleteVersion}},
     resource : {{"a"}, {"a", "b"}},
     condition : {Always}]
    \cup
    [effect : {"Allow", "Deny"},
     principal : {[kind |-> "all", names |-> {}]},
     action : {{Delete}},
     resource : {{"a"}},
     condition : {[valid |-> TRUE, ip |-> {"inside"}, notIp |-> {}],
                  [valid |-> TRUE, ip |-> {}, notIp |-> {"inside"}],
                  [valid |-> FALSE, ip |-> {}, notIp |-> {}]}]

\* A parsed policy has NotPrincipal with Deny only (Statement.validate); one that
\* was built otherwise may have it with Allow.
MCStatements ==
    {st \in MCAllStatements : st.effect = "Allow" => st.principal.kind # "not"}

Of(effect) == {st \in MCStatements : st.effect = effect}

MCPolicies ==
    BoundedSeq(MCAllStatements, 1) \cup (Of("Allow") \X Of("Deny"))

MCUserPolicies ==
    {<<>>,
     <<[effect |-> "Allow", action |-> {Delete, Bypass}]>>}

MCRequesters ==
    [tenant : {"own", "other"}, user : {"u"}, policy : MCUserPolicies, source : {"inside", Unknown}]

MCObjects ==
    {[key |-> k, version |-> v, date |-> "none"] : k \in {"a", "b"}, v \in {"none", "named"}}
    \cup {[key |-> "a", version |-> "none", date |-> "invalid"]}

MCRequests ==
    [vr : MCRequesters,
     b : {[tenant |-> "own", policy |-> p] : p \in MCPolicies},
     objects : BoundedSeq(MCObjects, 2) \cup {<<o, o, o>> : o \in MCObjects},
     bypass : BOOLEAN,
     quiet : BOOLEAN]
=============================================================================
