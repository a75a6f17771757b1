------------------------------- MODULE Policy -------------------------------
(***************************************************************************)
(* Policy evaluation: package policy and s3gw/bucketpolicy.go.             *)
(*                                                                         *)
(* A bucket policy is a sequence of statements                             *)
(*    [effect, principal, action, resource, condition]                     *)
(* where action and resource are the sets the statement's patterns match   *)
(* (module Glob has the matching itself), principal is [kind, names]       *)
(* with kind "all" ("*"), "users" (Principal) or "not" (NotPrincipal), and *)
(* condition is [valid, ip, notIp]: whether its values parse, and the sets *)
(* of addresses its prefixes contain, an absent operator being {}.  A name *)
(* is <<tenant, user>>, its user "*" for the whole tenant.  A missing      *)
(* policy is the empty one, which every caller treats alike.  A user       *)
(* policy is a sequence of [effect, action].  Statements are numbered from *)
(* 1, 0 standing for the code's -1.                                        *)
(***************************************************************************)
EXTENDS Integers, Sequences

NoStatement == 0

Unknown == "unknown"   \* the zero netip.Addr: a source that did not parse

\* The loop returns the least index with the property it looks for.
First(S) == CHOOSE i \in S : \A j \in S : i <= j

Decided(effect, statement) == [effect |-> effect, statement |-> statement]

-----------------------------------------------------------------------------
(* package policy *)

matchAnyPrincipal(names, principal) ==
    \E n \in names : n = principal \/ (n[2] = "*" /\ n[1] = principal[1])

matchPrincipal(st, principal) ==
    \/ st.principal.kind = "all"
    \/ st.principal.kind = "users" /\ matchAnyPrincipal(st.principal.names, principal)
    \/ st.principal.kind = "not" /\ ~matchAnyPrincipal(st.principal.names, principal)

\* Condition.match: an unknown source fails IpAddress and passes NotIpAddress.
match(c, source) ==
    /\ c.ip # {} => source # Unknown /\ source \in c.ip
    /\ source # Unknown => source \notin c.notIp

\* With a condition that does not parse an Allow applies to nobody and a Deny
\* to everybody.
matchCondition(st, source) ==
    IF st.condition.valid THEN match(st.condition, source) ELSE st.effect = "Deny"

\* The statement applies to the principal and action, whatever the resource.
Applies(st, principal, action, source) ==
    matchPrincipal(st, principal) /\ matchCondition(st, source) /\ action \in st.action

\* UserPolicy.Decide
UserDecide(up, action) ==
    LET hits(effect) == {i \in 1 .. Len(up) : up[i].effect = effect /\ action \in up[i].action}
    IN  IF up = <<>> THEN Decided("Allow", NoStatement)
        ELSE IF hits("Deny") # {} THEN Decided("Deny", First(hits("Deny")))
        ELSE IF hits("Allow") # {} THEN Decided("Allow", First(hits("Allow")))
        ELSE Decided("Deny", NoStatement)

\* Policy.Decide: the first matching Deny, else the first matching statement, which
\* is taken for an Allow whatever its effect says.
Decide(p, principal, action, resource, source) ==
    LET hits == {i \in 1 .. Len(p) : /\ Applies(p[i], principal, action, source)
                                     /\ resource \in p[i].resource}
        denials == {i \in hits : p[i].effect = "Deny"}
    IN  IF denials # {} THEN Decided("Deny", First(denials))
        ELSE IF hits # {} THEN Decided("Allow", First(hits))
        ELSE Decided("None", NoStatement)

\* MentionsPrincipal: the visibility gate, which reads no condition.
MentionsPrincipal(p, principal) ==
    \E i \in 1 .. Len(p) :
        /\ p[i].effect = "Allow"
        /\ \/ p[i].principal.kind = "all"
           \/ p[i].principal.kind = "users" /\ matchAnyPrincipal(p[i].principal.names, principal)

\* DenyEvaluatorFor and AllowEvaluatorFor: the resources of the statements
\* that apply, each with its statement's number.
EvaluatorFor(p, effect, principal, action, source) ==
    {<<p[i].resource, i>> :
        i \in {j \in 1 .. Len(p) : p[j].effect = effect /\ Applies(p[j], principal, action, source)}}

\* DeniesRunes and AllowsRunes
Matches(e, resource) == \E x \in e : resource \in x[1]

DenyingStatement(e, resource) ==
    LET hits == {x[2] : x \in {y \in e : resource \in y[1]}}
    IN  IF hits = {} THEN NoStatement ELSE First(hits)

\* Faulty Statement.validate: NotPrincipal may go with either effect.
validateStatementAnyEffect(st) ==
    /\ st.effect \in {"Allow", "Deny"}
    /\ st.principal.kind \in {"all", "users", "not"}
    /\ st.condition.valid

\* Statement.validate; kind "none" stands for neither or both of Principal and
\* NotPrincipal, or for NotPrincipal "*".  A list of patterns that is empty, or too
\* long, is not told apart from one that matches nothing.
validateStatement(st) ==
    /\ st.effect \in {"Allow", "Deny"}
    /\ st.principal.kind \in {"all", "users", "not"}
    /\ st.principal.kind = "not" => st.effect = "Deny"
    /\ st.condition.valid

\* What validate says of the effects.
KnownEffects(p) == \A i \in 1 .. Len(p) : p[i].effect \in {"Allow", "Deny"}

\* Policy.validate, which every document that Parse accepts has passed.
validate(p) == p # <<>> /\ \A i \in 1 .. Len(p) : validateStatement(p[i])

-----------------------------------------------------------------------------
(* s3gw: authorize and perObjectAuthorizer, for a requester                *)
(* vr = [tenant, user, policy, source] and a bucket b = [tenant, policy].  *)

Principal(vr) == <<vr.tenant, vr.user>>

Granted == [layer |-> "none", statement |-> NoStatement]

userPolicyReason(d) == [layer |-> "user-policy", statement |-> d.statement]

bucketPolicyReason(d) ==
    IF d.effect = "Deny" THEN [layer |-> "bucket-policy", statement |-> d.statement]
    ELSE [layer |-> "cross-tenant", statement |-> NoStatement]

\* authorize: Granted, or the DenyReason of the refusal.
authorize(vr, b, action, resource) ==
    LET u == UserDecide(vr.policy, action)
        d == Decide(b.policy, Principal(vr), action, resource, vr.source)
        refused == IF b.tenant # vr.tenant THEN d.effect # "Allow" ELSE d.effect = "Deny"
    IN  IF u.effect # "Allow" THEN userPolicyReason(u)
        ELSE IF refused THEN bucketPolicyReason(d)
        ELSE Granted

\* perObjectAuthorizer: the evaluators are left empty on the early returns.
perObjectAuthorizer(vr, b, action) ==
    LET u == UserDecide(vr.policy, action)
        cross == b.tenant # vr.tenant
        allow == EvaluatorFor(b.policy, "Allow", Principal(vr), action, vr.source)
        deny == EvaluatorFor(b.policy, "Deny", Principal(vr), action, vr.source)
    IN  IF u.effect # "Allow"
        THEN [user |-> u, denyAll |-> TRUE, requireAllow |-> FALSE, allow |-> {}, deny |-> {}]
        ELSE IF cross /\ allow = {}
        THEN [user |-> u, denyAll |-> TRUE, requireAllow |-> TRUE, allow |-> {}, deny |-> {}]
        ELSE [user |-> u, denyAll |-> FALSE, requireAllow |-> cross,
              allow |-> IF cross THEN allow ELSE {}, deny |-> deny]

\* Faulty denies: a Deny that applies is taken to match every key.
deniesAnyKey(a, resource) ==
    a.denyAll \/ (a.requireAllow /\ ~Matches(a.allow, resource)) \/ a.deny # {}

denies(a, resource) ==
    \/ a.denyAll
    \/ a.requireAllow /\ ~Matches(a.allow, resource)
    \/ Matches(a.deny, resource)

allowsEverything(a) == ~a.denyAll /\ ~a.requireAllow /\ a.deny = {}

denyReason(a, resource) ==
    IF a.user.effect # "Allow" THEN userPolicyReason(a.user)
    ELSE IF DenyingStatement(a.deny, resource) # NoStatement
    THEN [layer |-> "bucket-policy", statement |-> DenyingStatement(a.deny, resource)]
    ELSE [layer |-> "cross-tenant", statement |-> NoStatement]
=============================================================================
