-------------------------------- MODULE Cors --------------------------------
(***************************************************************************)
(* Package cors: what a bucket's rules let browsers do.  A rule is         *)
(* [origins, any, methods, headers]: the origins its patterns match,       *)
(* whether "*" is one of them, its methods, and the header names its       *)
(* patterns match, names being compared without regard to case.  A request *)
(* has an origin ("none" without one), a method, and for a preflight the   *)
(* method and the headers asked for.  The maximum age and the exposed      *)
(* headers are copied from the rule that matched.                          *)
(***************************************************************************)
EXTENDS Policy

Allows(rule, q) == q.origin \in rule.origins /\ q.method \in rule.methods

\* Match: the first rule allowing the origin and method, in a set that is empty
\* when no rule does.
Match(rules, q) ==
    {rules[i] : i \in {i \in 1 .. Len(rules) :
                         Allows(rules[i], q) /\ \A j \in 1 .. i - 1 : ~Allows(rules[j], q)}}

\* setAllowOrigin: Access-Control-Allow-Origin; credentials are allowed with an
\* origin and not with "*".
setAllowOrigin(rule, origin) == IF rule.any THEN "*" ELSE origin

\* headerAllowed, of every header the preflight asks for, by the rule that
\* matched and no other.
headersAllowed(rule, q) == q.headers \subseteq rule.headers

\* What a response says under the rules left: the origin allowed, or "none".
Naming(rules, q) == IF rules = {} THEN "none" ELSE setAllowOrigin(CHOOSE r \in rules : TRUE, q.origin)

\* AllowPreflight: what the preflight is answered with, "none" to refuse it.
AllowPreflight(rules, q) == Naming({r \in Match(rules, q) : headersAllowed(r, q)}, q)

\* SetHeaders: what any other response is decorated with.
SetHeaders(rules, q) == IF q.origin = "none" THEN "none" ELSE Naming(Match(rules, q), q)
=============================================================================
