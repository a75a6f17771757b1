---------------------------- MODULE PolicyProofs ----------------------------
(***************************************************************************)
(* The precomputed per-object check of DeleteObjects is the whole check of *)
(* authorize, for every policy whose effects are Allow and Deny, every     *)
(* requester and object; hence exactly the objects the requester may       *)
(* delete go to the backend, and the others are reported, in order and     *)
(* under the right reason.  And the wildcard matcher that the statements   *)
(* of a policy are matched with finds what the pattern stands for.         *)
(***************************************************************************)
EXTENDS DeleteObjects, Glob, FiniteSetTheorems, WellFoundedInduction, TLAPS

\* An evaluator matches a resource when some statement of its effect applies
\* and covers the resource.
LEMMA EvaluatorMatches ==
  ASSUME NEW pol, NEW effect, NEW who, NEW action, NEW source, NEW resource
  PROVE  Matches(EvaluatorFor(pol, effect, who, action, source), resource)
           <=> \E k \in 1 .. Len(pol) : /\ pol[k].effect = effect
                                        /\ Applies(pol[k], who, action, source)
                                        /\ resource \in pol[k].resource
<1> DEFINE J == {k \in 1 .. Len(pol) : pol[k].effect = effect /\ Applies(pol[k], who, action, source)}
           E == EvaluatorFor(pol, effect, who, action, source)
<1>1. \A x : x \in E <=> \E k \in J : x = <<pol[k].resource, k>>
  BY Zenon DEF EvaluatorFor
<1>2. ASSUME Matches(E, resource) PROVE \E k \in J : resource \in pol[k].resource
  <2>1. PICK x \in E : resource \in x[1]
    BY Zenon, <1>2 DEF Matches
  <2>2. PICK k \in J : x = <<pol[k].resource, k>>
    BY Zenon, <1>1, <2>1
  <2>3. x[1] = pol[k].resource
    BY Zenon, <2>2
  <2> QED BY Zenon, <2>1, <2>2, <2>3
<1>3. ASSUME NEW k \in J, resource \in pol[k].resource PROVE Matches(E, resource)
  <2>1. <<pol[k].resource, k>> \in E
    BY Zenon, <1>1
  <2> HIDE DEF E
  <2> QED BY Zenon, <1>3, <2>1 DEF Matches
<1> QED BY Zenon, <1>2, <1>3

\* What Decide says in terms of the statements that match.
LEMMA DecideEffect ==
  ASSUME NEW pol, NEW who, NEW action, NEW source, NEW resource
  PROVE  LET hit(k) == Applies(pol[k], who, action, source) /\ resource \in pol[k].resource
             barred == \E k \in 1 .. Len(pol) : pol[k].effect = "Deny" /\ hit(k)
             d == Decide(pol, who, action, resource, source)
         IN  /\ d.effect = "Deny" <=> barred
             /\ d.effect = "Allow" <=> (\E k \in 1 .. Len(pol) : hit(k)) /\ ~barred
  BY Zenon DEF Decide, Decided

\* denies, of the authorizer built for an action, says what authorize says of
\* that action on each resource.  Of a policy with some other effect, which no
\* document that Parse accepts has, it grants no more than authorize does.
THEOREM PerObjectAgrees ==
  ASSUME NEW vr, NEW b, NEW action, NEW resource
  PROVE  LET barred == denies(perObjectAuthorizer(vr, b, action), resource)
             refused == authorize(vr, b, action, resource) # Granted
         IN  /\ refused => barred
             /\ KnownEffects(b.policy) => (barred => refused)
<1> DEFINE u == UserDecide(vr.policy, action)
           d == Decide(b.policy, Principal(vr), action, resource, vr.source)
           allow == EvaluatorFor(b.policy, "Allow", Principal(vr), action, vr.source)
           deny == EvaluatorFor(b.policy, "Deny", Principal(vr), action, vr.source)
<1>1. /\ d.effect = "Deny" <=> Matches(deny, resource)
      /\ Matches(allow, resource) /\ ~Matches(deny, resource) => d.effect = "Allow"
      /\ KnownEffects(b.policy) => (d.effect = "Allow" => Matches(allow, resource))
  <2> DEFINE hit(k) == /\ Applies(b.policy[k], Principal(vr), action, vr.source)
                       /\ resource \in b.policy[k].resource
  <2>1. /\ d.effect = "Deny" <=> \E k \in 1 .. Len(b.policy) : b.policy[k].effect = "Deny" /\ hit(k)
        /\ d.effect = "Allow" <=> /\ \E k \in 1 .. Len(b.policy) : hit(k)
                                  /\ ~\E k \in 1 .. Len(b.policy) : b.policy[k].effect = "Deny" /\ hit(k)
    BY Zenon, DecideEffect
  <2>2. Matches(deny, resource) <=> \E k \in 1 .. Len(b.policy) : b.policy[k].effect = "Deny" /\ hit(k)
    BY EvaluatorMatches
  <2>3. Matches(allow, resource) <=> \E k \in 1 .. Len(b.policy) : b.policy[k].effect = "Allow" /\ hit(k)
    BY EvaluatorMatches
  <2> HIDE DEF d, allow, deny, hit
  <2> QED BY Zenon, <2>1, <2>2, <2>3 DEF KnownEffects
<1>2. authorize(vr, b, action, resource) # Granted
        <=> \/ u.effect # "Allow"
            \/ b.tenant # vr.tenant /\ d.effect # "Allow"
            \/ b.tenant = vr.tenant /\ d.effect = "Deny"
  BY Zenon DEF authorize, Granted, userPolicyReason, bucketPolicyReason
<1>3. CASE u.effect # "Allow"
  BY Zenon, <1>2, <1>3 DEF perObjectAuthorizer, denies
<1>4. CASE u.effect = "Allow" /\ b.tenant # vr.tenant /\ allow = {}
  <2>1. ~Matches(allow, resource)
    BY Zenon, <1>4 DEF Matches
  <2>2. denies(perObjectAuthorizer(vr, b, action), resource)
    BY Zenon, <1>4 DEF perObjectAuthorizer, denies
  <2> QED BY Zenon, <1>1, <1>2, <1>4, <2>1, <2>2
<1>5. CASE u.effect = "Allow" /\ b.tenant # vr.tenant /\ allow # {}
  <2>1. perObjectAuthorizer(vr, b, action)
          = [user |-> u, denyAll |-> FALSE, requireAllow |-> TRUE, allow |-> allow, deny |-> deny]
    BY ZenonT(40), <1>5 DEF perObjectAuthorizer
  <2> QED BY <1>1, <1>2, <1>5, <2>1 DEF denies
<1>6. CASE u.effect = "Allow" /\ b.tenant = vr.tenant
  <2>1. perObjectAuthorizer(vr, b, action)
          = [user |-> u, denyAll |-> FALSE, requireAllow |-> FALSE, allow |-> {}, deny |-> deny]
    BY ZenonT(40), <1>6 DEF perObjectAuthorizer
  <2> QED BY <1>1, <1>2, <1>6, <2>1 DEF denies
<1> QED BY Zenon, <1>3, <1>4, <1>5, <1>6

\* Whoever a parsed policy lets into another tenant's bucket passes the visibility
\* gate of resolveBucket: the two read the statements' principals alike.
THEOREM GrantedIsVisible ==
  ASSUME NEW vr, NEW b, NEW action, NEW resource, validate(b.policy),
         authorize(vr, b, action, resource) = Granted
  PROVE  b.tenant = vr.tenant \/ MentionsPrincipal(b.policy, Principal(vr))
<1> SUFFICES ASSUME b.tenant # vr.tenant PROVE MentionsPrincipal(b.policy, Principal(vr))
  OBVIOUS
<1> DEFINE d == Decide(b.policy, Principal(vr), action, resource, vr.source)
<1>1. d.effect = "Allow"
  BY Zenon DEF authorize, Granted, userPolicyReason, bucketPolicyReason
<1>2. PICK k \in 1 .. Len(b.policy) : /\ b.policy[k].effect # "Deny"
                                      /\ Applies(b.policy[k], Principal(vr), action, vr.source)
  BY Zenon, <1>1, DecideEffect
<1>3. b.policy[k].effect = "Allow" /\ b.policy[k].principal.kind # "not"
  BY Zenon, <1>2 DEF validate, validateStatement
<1> QED BY Zenon, <1>2, <1>3 DEF Applies, matchPrincipal, MentionsPrincipal

\* Of two buckets of a tenant, c is under at least the Deny statements of b and at
\* most its other statements, in whatever order and number.
Stricter(c, b) ==
  /\ c.tenant = b.tenant
  /\ \A k \in 1 .. Len(b.policy) : b.policy[k].effect = "Deny" =>
        \E m \in 1 .. Len(c.policy) : c.policy[m] = b.policy[k]
  /\ \A m \in 1 .. Len(c.policy) : c.policy[m].effect # "Deny" =>
        \E k \in 1 .. Len(b.policy) : b.policy[k] = c.policy[m]

\* Adding Deny statements to a bucket policy or taking Allow statements away grants
\* nobody anything that authorize had refused; nor does the order in which Decide
\* meets the statements, or repeating them, grant or refuse anything.
THEOREM StricterGrantsLess ==
  ASSUME NEW vr, NEW b, NEW c, NEW action, NEW resource, Stricter(c, b),
         authorize(vr, c, action, resource) = Granted
  PROVE  authorize(vr, b, action, resource) = Granted
<1> DEFINE who == Principal(vr)
           covers(st) == Applies(st, who, action, vr.source) /\ resource \in st.resource
           barred(pol) == \E k \in 1 .. Len(pol) : pol[k].effect = "Deny" /\ covers(pol[k])
           hit(pol) == \E k \in 1 .. Len(pol) : covers(pol[k])
           db == Decide(b.policy, who, action, resource, vr.source)
           dc == Decide(c.policy, who, action, resource, vr.source)
<1>1. /\ db.effect = "Deny" <=> barred(b.policy)
      /\ db.effect = "Allow" <=> hit(b.policy) /\ ~barred(b.policy)
  BY Zenon, DecideEffect
<1>2. /\ dc.effect = "Deny" <=> barred(c.policy)
      /\ dc.effect = "Allow" <=> hit(c.policy) /\ ~barred(c.policy)
  BY Zenon, DecideEffect
<1>3. barred(b.policy) => barred(c.policy)
  BY Zenon DEF Stricter
<1>4. hit(c.policy) /\ ~barred(c.policy) => hit(b.policy)
  BY Zenon DEF Stricter
<1> HIDE DEF hit, barred, db, dc
<1>5. /\ UserDecide(vr.policy, action).effect = "Allow"
      /\ ~(IF c.tenant # vr.tenant THEN dc.effect # "Allow" ELSE dc.effect = "Deny")
  BY Zenon DEF authorize, Granted, userPolicyReason, bucketPolicyReason, dc
<1>6. ~(IF b.tenant # vr.tenant THEN db.effect # "Allow" ELSE db.effect = "Deny")
  BY Zenon, <1>1, <1>2, <1>3, <1>4, <1>5 DEF Stricter
<1> QED BY Zenon, <1>5, <1>6 DEF authorize, db

\* A user policy only narrows what authorize grants: who is granted something with
\* one is granted it without.
THEOREM UserPolicyNarrows ==
  ASSUME NEW vr, NEW free, NEW b, NEW action, NEW resource,
         free.tenant = vr.tenant, free.user = vr.user, free.source = vr.source, free.policy = <<>>,
         authorize(vr, b, action, resource) = Granted
  PROVE  authorize(free, b, action, resource) = Granted
<1> DEFINE d(who) == Decide(b.policy, Principal(who), action, resource, who.source)
           refused(who) == IF b.tenant # who.tenant THEN d(who).effect # "Allow" ELSE d(who).effect = "Deny"
<1>1. ~refused(vr)
  BY Zenon DEF authorize, Granted, userPolicyReason, bucketPolicyReason
<1>2. d(free) = d(vr)
  BY Zenon DEF Principal
<1>3. ~refused(free)
  BY Zenon, <1>1, <1>2
<1>4. UserDecide(free.policy, action).effect = "Allow"
  BY DEF UserDecide, Decided
<1> QED BY Zenon, <1>3, <1>4 DEF authorize

-----------------------------------------------------------------------------
(* Why an object is refused *)

\* A nonempty set of naturals has a least element.
LEMMA Least ==
  ASSUME NEW S \in SUBSET Nat, S # {}
  PROVE  \E m \in S : \A k \in S : m <= k
<1> DEFINE R == OpToRel(<, Nat)
<1>1. IsWellFoundedOn(R, Nat)
  BY NatLessThanWellFounded, Zenon
<1>2. \A m, k \in Nat : <<k, m>> \in R <=> k < m
  BY Zenon DEF OpToRel
<1> HIDE DEF R
<1>3. PICK m \in S : \A k \in S : ~(<<k, m>> \in R)
  BY <1>1, WFMin, Zenon
<1>4. \A k \in S : k \in Nat /\ m \in Nat /\ ~(k < m)
  BY <1>2, <1>3, Zenon
<1>5. \A k \in S : m <= k
  BY <1>4
<1> QED BY Zenon, <1>5

\* First is a member of its set: the number of a statement, never NoStatement.
LEMMA FirstFacts ==
  ASSUME NEW n \in Nat, NEW S \in SUBSET (1 .. n), S # {}
  PROVE  First(S) \in S /\ First(S) # NoStatement
<1>1. S \in SUBSET Nat
  OBVIOUS
<1>2. \E m \in S : \A k \in S : m <= k
  BY <1>1, Least, Zenon
<1>3. First(S) \in S
  BY <1>2, Zenon DEF First
<1> QED BY <1>3 DEF NoStatement

\* The statement that DenyingStatement names is the one that Decide names.
LEMMA DenyingStatementAgrees ==
  ASSUME NEW pol, Len(pol) \in Nat, NEW who, NEW action, NEW source, NEW resource
  PROVE  LET d == Decide(pol, who, action, resource, source)
             n == DenyingStatement(EvaluatorFor(pol, "Deny", who, action, source), resource)
         IN  IF d.effect = "Deny" THEN n = d.statement /\ n # NoStatement ELSE n = NoStatement
<1> DEFINE S == {k \in 1 .. Len(pol) : /\ pol[k].effect = "Deny"
                                       /\ Applies(pol[k], who, action, source)
                                       /\ resource \in pol[k].resource}
           J == {k \in 1 .. Len(pol) : pol[k].effect = "Deny" /\ Applies(pol[k], who, action, source)}
           E == EvaluatorFor(pol, "Deny", who, action, source)
           H == {x[2] : x \in {y \in E : resource \in y[1]}}
           d == Decide(pol, who, action, resource, source)
<1>1. \A x : x \in E <=> \E k \in J : x = <<pol[k].resource, k>>
  BY Zenon DEF EvaluatorFor
<1>2. ASSUME NEW k \in S PROVE k \in H
  <2>1. k \in J /\ <<pol[k].resource, k>> \in E
    BY Zenon, <1>1
  <2>2. <<pol[k].resource, k>>[1] = pol[k].resource /\ <<pol[k].resource, k>>[2] = k
    OBVIOUS
  <2> HIDE DEF E
  <2> QED BY Zenon, <2>1, <2>2
<1>3. ASSUME NEW k \in H PROVE k \in S
  <2>1. PICK x \in E : resource \in x[1] /\ k = x[2]
    OBVIOUS
  <2>2. PICK m \in J : x = <<pol[m].resource, m>>
    BY Zenon, <1>1, <2>1
  <2>3. x[1] = pol[m].resource /\ x[2] = m
    BY Zenon, <2>2
  <2> QED BY Zenon, <2>1, <2>2, <2>3
<1>4. H = S
  <2> HIDE DEF H, S
  <2> QED BY Zenon, <1>2, <1>3
<1>5. DenyingStatement(E, resource) = IF S = {} THEN NoStatement ELSE First(S)
  <2>1. DenyingStatement(E, resource) = IF H = {} THEN NoStatement ELSE First(H)
    BY Zenon DEF DenyingStatement
  <2> HIDE DEF H, S, E
  <2> QED BY Zenon, <1>4, <2>1
<1>6. S # {} => d = Decided("Deny", First(S))
  BY Zenon DEF Decide
<1>7. S = {} => d.effect # "Deny"
  BY Zenon, DecideEffect
<1>8. S # {} => First(S) # NoStatement
  <2>1. S \in SUBSET (1 .. Len(pol))
    OBVIOUS
  <2> HIDE DEF S
  <2> QED BY Zenon, <2>1, FirstFacts
<1> HIDE DEF S, E, d
<1>9. S # {} => d.effect = "Deny" /\ d.statement = First(S)
  BY <1>6 DEF Decided
<1>10. IF d.effect = "Deny" THEN /\ DenyingStatement(E, resource) = d.statement
                                 /\ DenyingStatement(E, resource) # NoStatement
       ELSE DenyingStatement(E, resource) = NoStatement
  BY Zenon, <1>5, <1>7, <1>8, <1>9
<1> QED BY Zenon, <1>10 DEF d, E

\* No statement of the policy lets the requester, of another tenant, do the action.
Unreached(vr, b, action) ==
    /\ b.tenant # vr.tenant
    /\ \A k \in 1 .. Len(b.policy) :
          b.policy[k].effect = "Allow"
            => ~Applies(b.policy[k], Principal(vr), action, vr.source)

\* denyReason, read off the precomputed authorizer, is the reason authorize gives,
\* except that the cross-tenant baseline comes first where no Allow applies.
THEOREM DenyReasonAgrees ==
  ASSUME NEW vr, NEW b, Len(b.policy) \in Nat, NEW action, NEW resource,
         authorize(vr, b, action, resource) # Granted
  PROVE  LET reason == authorize(vr, b, action, resource)
         IN  denyReason(perObjectAuthorizer(vr, b, action), resource)
               = IF reason.layer = "bucket-policy" /\ Unreached(vr, b, action)
                 THEN [layer |-> "cross-tenant", statement |-> NoStatement] ELSE reason
<1> DEFINE u == UserDecide(vr.policy, action)
           d == Decide(b.policy, Principal(vr), action, resource, vr.source)
           allow == EvaluatorFor(b.policy, "Allow", Principal(vr), action, vr.source)
           deny == EvaluatorFor(b.policy, "Deny", Principal(vr), action, vr.source)
           n == DenyingStatement(deny, resource)
           reason == authorize(vr, b, action, resource)
           cross == [layer |-> "cross-tenant", statement |-> NoStatement]
           a == perObjectAuthorizer(vr, b, action)
<1>1. IF d.effect = "Deny" THEN n = d.statement /\ n # NoStatement ELSE n = NoStatement
  BY DenyingStatementAgrees, Zenon
<1>2. Unreached(vr, b, action) <=> b.tenant # vr.tenant /\ allow = {}
  <2>1. allow = {} <=> \A k \in 1 .. Len(b.policy) :
                         ~(b.policy[k].effect = "Allow"
                             /\ Applies(b.policy[k], Principal(vr), action, vr.source))
    BY Zenon DEF EvaluatorFor
  <2> QED BY <2>1, Zenon DEF Unreached
<1>3. reason = IF u.effect # "Allow" THEN userPolicyReason(u) ELSE bucketPolicyReason(d)
  BY ZenonT(30) DEF authorize
<1>4. DenyingStatement({}, resource) = NoStatement
  BY Zenon DEF DenyingStatement
<1>5. a.user = u /\ a.deny = IF u.effect # "Allow" \/ (b.tenant # vr.tenant /\ allow = {})
                             THEN {} ELSE deny
  BY Zenon DEF perObjectAuthorizer
<1> HIDE DEF u, d, allow, deny, reason, a
<1>6. denyReason(a, resource)
        = IF u.effect # "Allow" THEN userPolicyReason(u)
          ELSE IF Unreached(vr, b, action) \/ n = NoStatement THEN cross
          ELSE [layer |-> "bucket-policy", statement |-> n]
  BY Zenon, <1>2, <1>4, <1>5 DEF denyReason
<1>7. CASE u.effect # "Allow"
  BY <1>3, <1>6, <1>7 DEF userPolicyReason, reason, a
<1>8. CASE u.effect = "Allow" /\ d.effect = "Deny"
  <2>1. reason = [layer |-> "bucket-policy", statement |-> n]
    BY Zenon, <1>1, <1>3, <1>8 DEF bucketPolicyReason
  <2>2. reason.layer = "bucket-policy"
    BY Zenon, <2>1
  <2> QED BY Zenon, <1>1, <1>6, <1>8, <2>1, <2>2 DEF reason, a
<1>9. CASE u.effect = "Allow" /\ d.effect # "Deny"
  <2>1. reason = cross /\ reason.layer # "bucket-policy"
    BY Zenon, <1>3, <1>9 DEF bucketPolicyReason
  <2> QED BY Zenon, <1>1, <1>6, <1>9, <2>1 DEF reason, a
<1> QED BY Zenon, <1>7, <1>8, <1>9

\* An authorizer that allows everything denies nothing.
LEMMA AllowsEverything ==
  ASSUME NEW a, NEW resource, allowsEverything(a) PROVE ~denies(a, resource)
  BY Zenon DEF allowsEverything, denies, Matches

\* An object the loop lets pass is one its requester may delete.
LEMMA PassedIsAuthorized ==
  ASSUME NEW k \in 1 .. Len(req.objects), ~(checkPerObject /\ denied(req.objects[k]))
  PROVE  Authorized(req.objects[k])
<1> DEFINE o == req.objects[k]
           del == AuthFor(DeleteAction(o))
           bypass == AuthFor("BypassGovernanceRetention")
<1>1. ~denies(del, o.key) /\ (req.bypass => ~denies(bypass, o.key))
  <2>1. CASE ~checkPerObject
    BY Zenon, <2>1, AllowsEverything DEF checkPerObject
  <2>2. CASE ~denied(o)
    BY Zenon, <2>2 DEF denied, DecidingAction
  <2> QED BY Zenon, <2>1, <2>2
<1> QED BY Zenon, <1>1, PerObjectAgrees DEF Authorized, AuthFor

-----------------------------------------------------------------------------
(* What the loop has collected *)

\* An object the loop refuses is one its requester may not delete.
LEMMA RefusedIsUnauthorized ==
  ASSUME NEW k \in 1 .. Len(req.objects), checkPerObject /\ denied(req.objects[k]),
         KnownEffects(req.b.policy)
  PROVE  ~Authorized(req.objects[k])
<1> DEFINE o == req.objects[k]
           del == AuthFor(DeleteAction(o))
           bypass == AuthFor("BypassGovernanceRetention")
<1>1. denies(del, o.key) \/ (req.bypass /\ denies(bypass, o.key))
  BY Zenon DEF denied, DecidingAction
<1> QED BY Zenon, <1>1, PerObjectAgrees DEF Authorized, AuthFor

\* It is counted under the reason a request for it alone would be refused for.
LEMMA RefusedForReason ==
  ASSUME NEW k \in 1 .. Len(req.objects), checkPerObject /\ denied(req.objects[k]),
         Len(req.b.policy) \in Nat, KnownEffects(req.b.policy)
  PROVE  denyReason(AuthFor(DecidingAction(req.objects[k])), req.objects[k].key)
           = Reason(req.objects[k])
<1> DEFINE o == req.objects[k]
           action == IF authorize(req.vr, req.b, DeleteAction(o), o.key) # Granted
                     THEN DeleteAction(o) ELSE "BypassGovernanceRetention"
           reason == authorize(req.vr, req.b, action, o.key)
<1>1. denies(AuthFor(DeleteAction(o)), o.key)
        <=> authorize(req.vr, req.b, DeleteAction(o), o.key) # Granted
  BY PerObjectAgrees, Zenon DEF AuthFor
<1>2. denies(AuthFor(DecidingAction(o)), o.key)
  BY Zenon DEF denied
<1>3. DecidingAction(o) = action
  BY <1>1, <1>2, Zenon DEF DecidingAction
<1>4. denies(perObjectAuthorizer(req.vr, req.b, action), o.key)
  BY <1>2, <1>3, Zenon DEF AuthFor
<1>5. Reason(o) = IF reason.layer = "bucket-policy" /\ Unreached(req.vr, req.b, action)
                  THEN [layer |-> "cross-tenant", statement |-> NoStatement] ELSE reason
  BY Zenon DEF Reason, NoAllow, Unreached
<1> HIDE DEF action
<1>6. reason # Granted
  BY <1>4, PerObjectAgrees, Zenon
<1>7. denyReason(perObjectAuthorizer(req.vr, req.b, action), o.key)
        = IF reason.layer = "bucket-policy" /\ Unreached(req.vr, req.b, action)
          THEN [layer |-> "cross-tenant", statement |-> NoStatement] ELSE reason
  BY <1>6, DenyReasonAgrees, Zenon
<1> QED BY <1>3, <1>5, <1>7, Zenon DEF AuthFor

\* Appending the next object extends an ordered selection by its position.
LEMMA InOrderAppend ==
  ASSUME NEW s \in Seq(Object), NEW n \in Nat, NEW J \in SUBSET (1 .. n), InOrder(s, J)
  PROVE  InOrder(Append(s, req.objects[n + 1]), J \cup {n + 1})
<1> DEFINE o == req.objects[n + 1]
           t == Append(s, o)
           m == Len(s)
<1>1. PICK f \in [1 .. m -> J] :
         /\ \A a, c \in 1 .. m : a < c => f[a] < f[c]
         /\ \A a \in 1 .. m : s[a] = req.objects[f[a]]
         /\ \A j \in J : \E a \in 1 .. m : f[a] = j
  BY Zenon DEF InOrder
<1>2. m \in Nat /\ Len(t) = m + 1 /\ t[m + 1] = o /\ \A a \in 1 .. m : t[a] = s[a]
  OBVIOUS
<1> DEFINE g == [a \in 1 .. m + 1 |-> IF a = m + 1 THEN n + 1 ELSE f[a]]
<1> HIDE DEF t, o, m
<1>3. \A a \in 1 .. m + 1 : a = m + 1 \/ (a \in 1 .. m /\ a # m + 1)
  BY <1>2
<1>4. \A a \in 1 .. m : a # m + 1 /\ a \in 1 .. m + 1 /\ f[a] \in J /\ f[a] < n + 1
  <2>1. \A a \in 1 .. m : f[a] \in J
    BY Zenon
  <2>2. \A j \in J : j < n + 1
    OBVIOUS
  <2>3. \A a \in 1 .. m : a # m + 1 /\ a \in 1 .. m + 1
    BY <1>2
  <2> QED BY <2>1, <2>2, <2>3, Zenon
<1>5. m + 1 \in 1 .. m + 1 /\ g[m + 1] = n + 1 /\ \A a \in 1 .. m : g[a] = f[a]
  BY <1>2, <1>4
<1>6. g \in [1 .. m + 1 -> J \cup {n + 1}]
  BY Zenon, <1>3, <1>4
<1> HIDE DEF g
<1>7. ASSUME NEW a \in 1 .. m + 1, NEW c \in 1 .. m + 1, a < c PROVE g[a] < g[c]
  <2>1. a \in 1 .. m
    BY <1>2, <1>7
  <2> QED BY Zenon, <1>1, <1>3, <1>4, <1>5, <1>7, <2>1
<1>8. \A a \in 1 .. m + 1 : t[a] = req.objects[g[a]]
  BY Zenon, <1>1, <1>2, <1>3, <1>5 DEF o
<1>9. \A j \in J \cup {n + 1} : \E a \in 1 .. m + 1 : g[a] = j
  BY Zenon, <1>1, <1>4, <1>5
<1>10. \E h \in [1 .. Len(t) -> J \cup {n + 1}] :
          /\ \A a, c \in 1 .. Len(t) : a < c => h[a] < h[c]
          /\ \A a \in 1 .. Len(t) : t[a] = req.objects[h[a]]
          /\ \A j \in J \cup {n + 1} : \E a \in 1 .. Len(t) : h[a] = j
  <2>1. \A a, c \in 1 .. m + 1 : a < c => g[a] < g[c]
    BY <1>7, Zenon
  <2>2. Len(t) = m + 1
    BY Zenon, <1>2
  <2> SUFFICES \E h \in [1 .. m + 1 -> J \cup {n + 1}] :
                 /\ \A a, c \in 1 .. m + 1 : a < c => h[a] < h[c]
                 /\ \A a \in 1 .. m + 1 : t[a] = req.objects[h[a]]
                 /\ \A j \in J \cup {n + 1} : \E a \in 1 .. m + 1 : h[a] = j
    BY <2>2
  <2> QED BY <1>6, <1>8, <1>9, <2>1, Zenon
<1>11. InOrder(t, J \cup {n + 1})
  BY <1>10, Zenon DEF InOrder
<1> QED BY Zenon, <1>11 DEF t, o

\* addDenial counts one more refused object under its reason.
LEMMA SummaryAdd ==
  ASSUME NEW d, NEW n \in Nat, NEW J \in SUBSET (1 .. n), Summary(d, J)
  PROVE  Summary(addDenial(d, Reason(req.objects[n + 1])), J \cup {n + 1})
<1> DEFINE R(j) == Reason(req.objects[j])
           r == R(n + 1)
           e == addDenial(d, r)
           K == J \cup {n + 1}
           Of(I, x) == {j \in I : R(j) = x}
<1>1. /\ DOMAIN d = {R(j) : j \in J}
      /\ \A x \in DOMAIN d : d[x] = Cardinality(Of(J, x))
  BY Zenon DEF Summary
<1>2. /\ DOMAIN e = DOMAIN d \cup {r}
      /\ \A x \in DOMAIN d \cup {r} :
            e[x] = (IF x \in DOMAIN d THEN d[x] ELSE 0) + (IF x = r THEN 1 ELSE 0)
  BY Zenon DEF addDenial
<1>3. IsFiniteSet(J)
  <2>1. IsFiniteSet(1 .. n)
    BY FS_Interval
  <2> QED BY <2>1, FS_Subset, Zenon
<1>4. n + 1 \notin J
  OBVIOUS
<1> HIDE DEF R, e
<1>5. DOMAIN e = {R(j) : j \in K}
  BY Zenon, <1>1, <1>2 DEF r
<1>6. ASSUME NEW x \in DOMAIN e PROVE e[x] = Cardinality(Of(K, x))
  <2>1. IsFiniteSet(Of(J, x)) /\ Cardinality(Of(J, x)) \in Nat
    <3>1. Of(J, x) \in SUBSET J
      OBVIOUS
    <3> HIDE DEF Of
    <3>2. IsFiniteSet(Of(J, x))
      BY <1>3, <3>1, FS_Subset, Zenon
    <3> QED BY <3>2, FS_CardinalityType, Zenon
  <2>2. x \in DOMAIN d \cup {r}
    BY <1>2, Zenon
  <2>3. (IF x \in DOMAIN d THEN d[x] ELSE 0) = Cardinality(Of(J, x))
    <3>1. CASE x \in DOMAIN d
      BY <1>1, <3>1, Zenon
    <3>2. CASE x \notin DOMAIN d
      <4>1. Of(J, x) = {}
        BY Zenon, <1>1, <3>2
      <4> QED BY <3>2, <4>1, FS_EmptySet, Zenon
    <3> QED BY <3>1, <3>2, Zenon
  <2>4. CASE x = r
    <3>1. Of(K, x) = Of(J, x) \cup {n + 1} /\ n + 1 \notin Of(J, x)
      BY Zenon, <1>4, <2>4
    <3> HIDE DEF Of, K
    <3>2. Cardinality(Of(J, x) \cup {n + 1}) = Cardinality(Of(J, x)) + 1
      BY <2>1, <3>1, FS_AddElement, Zenon
    <3>3. e[x] = Cardinality(Of(J, x)) + 1
      BY <1>2, <2>2, <2>3, <2>4, Zenon
    <3> QED BY <3>1, <3>2, <3>3, Zenon
  <2>5. CASE x # r
    <3>1. Of(K, x) = Of(J, x)
      BY Zenon, <1>4, <2>5
    <3> HIDE DEF Of, K, r
    <3>2. e[x] = Cardinality(Of(J, x)) + 0
      BY <1>2, <2>2, <2>3, <2>5, Zenon
    <3> QED BY <2>1, <3>1, <3>2
  <2> QED BY <2>4, <2>5, Zenon
<1>7. Summary(e, K)
  <2>1. \A x \in DOMAIN e : e[x] = Cardinality(Of(K, x))
    BY <1>6, Zenon
  <2> QED BY <1>5, <2>1, Zenon DEF Summary, R
<1> QED BY Zenon, <1>7 DEF e, R

\* The inductive invariant: everything collected, or sent, is authorized.
IInv ==
    /\ TypeOK
    /\ pc = "check" => Len(req.objects) <= MaxObjects
    /\ Len(objects) < i
    /\ \A k \in 1 .. Len(objects) : Authorized(objects[k])
    /\ OnlyAuthorized
    /\ answer.status = "hidden" => ~Visible(req)

LEMMA InitIInv == Init => IInv
<1> SUFFICES ASSUME Init PROVE IInv
  OBVIOUS
<1>1. Len(req.objects) \in Nat
  BY DeleteObjectsAssumption DEF Init
<1>2. Len(objects) = 0 /\ Len(sent) = 0 /\ i = 1 /\ pc = "resolve" /\ MaxObjects \in Nat
  BY Zenon, DeleteObjectsAssumption DEF Init
<1>3. TypeOK
  BY <1>1, <1>2 DEF Init, TypeOK, Empty
<1>4. answer.status # "hidden"
  BY Zenon DEF Init, Empty
<1> QED BY <1>2, <1>3, <1>4 DEF IInv, OnlyAuthorized

LEMMA AuthorizedStable ==
  ASSUME UNCHANGED req, NEW o PROVE Authorized(o)' <=> Authorized(o)
  BY Zenon DEF Authorized

LEMMA NextIInv == IInv /\ [Next]_vars => IInv'
<1> SUFFICES ASSUME IInv, [Next]_vars PROVE IInv'
  OBVIOUS
<1>1. req.objects \in Seq(Object) /\ Len(req.objects) \in Nat
  BY DeleteObjectsAssumption DEF IInv, TypeOK
<1>2. ASSUME Fail PROVE IInv'
  BY Zenon, <1>2, AuthorizedStable DEF Fail, Empty, IInv, TypeOK, OnlyAuthorized
<1>8. CASE resolveBucket
  <2>1. UNCHANGED <<req, i, objects, errors, sent>> /\ pc' \in {"read", "done"}
    BY Zenon, <1>8 DEF resolveBucket
  <2>2. answer'.status \in {"none", "hidden", "error", "ok"}
    BY <1>8 DEF resolveBucket, Empty, IInv, TypeOK
  <2>3. answer'.status = "hidden" => ~Visible(req)
    BY Zenon, <1>8 DEF resolveBucket, Empty, IInv
  <2> QED BY Zenon, <2>1, <2>2, <2>3, AuthorizedStable DEF IInv, TypeOK, OnlyAuthorized, Visible
<1>3. CASE Read
  <2>1. CASE Len(req.objects) \in 1 .. MaxObjects
    BY <1>3, <2>1, AuthorizedStable, DeleteObjectsAssumption
      DEF Read, IInv, TypeOK, OnlyAuthorized
  <2>2. CASE Len(req.objects) \notin 1 .. MaxObjects
    BY Zenon, <1>2, <1>3, <2>2 DEF Read
  <2> QED BY Zenon, <2>1, <2>2
<1>4. CASE CheckObject
  <2> DEFINE o == req.objects[i]
  <2>1. i \in 1 .. Len(req.objects) /\ i + 1 \in 1 .. Len(req.objects) + 1 /\ o \in Object
    BY <1>1, <1>4 DEF CheckObject, IInv, TypeOK
  <2>2. CASE checkPerObject /\ denied(o)
    <3>1. /\ errors' = Append(errors, o) /\ i' = i + 1
          /\ UNCHANGED <<req, pc, objects, sent, answer>>
      BY Zenon, <1>4, <2>2 DEF CheckObject
    <3>2. Append(errors, o) \in Seq(Object)
      BY <2>1 DEF IInv, TypeOK
    <3> QED BY <2>1, <3>1, <3>2, AuthorizedStable DEF IInv, TypeOK, OnlyAuthorized
  <2>3. CASE ~(checkPerObject /\ denied(o)) /\ o.date # "invalid"
    <3>1. /\ objects' = Append(objects, o) /\ i' = i + 1
          /\ UNCHANGED <<req, pc, errors, denials, sent, answer>>
      BY Zenon, <1>4, <2>3 DEF CheckObject
    <3>2. Authorized(o)
      BY Zenon, <2>1, <2>3, PassedIsAuthorized
    <3>3. /\ Append(objects, o) \in Seq(Object)
          /\ \A k \in 1 .. Len(Append(objects, o)) : Authorized(Append(objects, o)[k])
      BY <2>1, <3>2 DEF IInv, TypeOK
    <3>4. Len(objects') < i'
      <4>1. Len(Append(objects, o)) = Len(objects) + 1 /\ Len(objects) \in Nat
        BY <2>1 DEF IInv, TypeOK
      <4> QED BY <2>1, <3>1, <4>1 DEF IInv
    <3> HIDE DEF o
    <3>5. TypeOK'
      BY Zenon, <2>1, <3>1, <3>3 DEF IInv, TypeOK
    <3> QED BY Zenon, <3>1, <3>3, <3>4, <3>5, AuthorizedStable DEF IInv, OnlyAuthorized
  <2>4. CASE ~(checkPerObject /\ denied(o)) /\ o.date = "invalid"
    BY Zenon, <1>2, <1>4, <2>4 DEF CheckObject
  <2> QED BY Zenon, <2>2, <2>3, <2>4
<1>5. CASE Send
  <2>1. Len(objects) <= MaxObjects
    <3>1. Len(objects) \in Nat /\ i \in 1 .. Len(req.objects) + 1 /\ Len(objects) < i
      BY DEF IInv, TypeOK
    <3>2. Len(req.objects) <= MaxObjects
      BY Zenon, <1>5 DEF Send, IInv
    <3> QED BY <1>1, <3>1, <3>2, DeleteObjectsAssumption
  <2>2. CASE objects = <<>>
    BY <1>5, <2>2, AuthorizedStable DEF Send, Result, IInv, TypeOK, OnlyAuthorized
  <2>3. CASE objects # <<>>
    BY Zenon, <1>5, <2>1, <2>3, AuthorizedStable DEF Send, IInv, TypeOK, OnlyAuthorized
  <2> QED BY Zenon, <2>2, <2>3
<1>6. CASE BackendAnswers
  <2>1. /\ pc' = "done" /\ answer'.status = "ok"
        /\ UNCHANGED <<req, i, objects, errors, denials, sent>>
    BY <1>6 DEF BackendAnswers, Result
  <2> QED BY Zenon, <2>1, AuthorizedStable DEF IInv, TypeOK, OnlyAuthorized
<1>7. CASE UNCHANGED vars
  BY Zenon, <1>7, AuthorizedStable DEF vars, IInv, TypeOK, OnlyAuthorized
<1> QED BY Zenon, <1>2, <1>3, <1>4, <1>5, <1>6, <1>7, <1>8 DEF Next, Refuse, BackendFails

-----------------------------------------------------------------------------
(* Nothing is lost *)

\* After n objects the loop has split them in two, each part in the request's order,
\* and summed up the refused ones.
Split(os, es, d, n) ==
    /\ InOrder(os, Permitted(n))
    /\ InOrder(es, Refused(n))
    /\ Len(os) + Len(es) = n
    /\ Summary(d, Refused(n))

\* The invariant behind PermittedSent and Accounted: the split holds at every turn of
\* the loop, what is sent is all that was permitted, and only the last step answers.
CInv ==
    /\ Split(objects, errors, denials, i - 1)
    /\ pc # "done" => answer.status = "none"
    /\ pc = "sent" => sent = objects /\ i = Len(req.objects) + 1
    /\ PermittedSent
    /\ Accounted

LEMMA InitCInv == Init => CInv
<1> SUFFICES ASSUME Init PROVE CInv
  OBVIOUS
<1>1. i - 1 = 0 /\ Len(<<>>) = 0 /\ pc = "resolve" /\ answer.status = "none"
  BY DEF Init, Empty
<1>2. objects = <<>> /\ errors = <<>> /\ denials = <<>> /\ sent = <<>>
  BY Zenon DEF Init
<1>3. Permitted(0) = {} /\ Refused(0) = {}
  BY DEF Permitted, Refused
<1>4. InOrder(<<>>, {})
  <2>1. 1 .. Len(<<>>) = {}
    BY <1>1
  <2>2. [x \in {} |-> x] \in [{} -> {}]
    OBVIOUS
  <2> QED BY Zenon, <2>1, <2>2 DEF InOrder
<1>5. Summary(<<>>, {})
  BY DEF Summary
<1>6. Split(<<>>, <<>>, <<>>, 0)
  <2>1. Len(<<>>) + Len(<<>>) = 0
    BY <1>1
  <2>2. InOrder(<<>>, Permitted(0)) /\ InOrder(<<>>, Refused(0))
    BY Zenon, <1>3, <1>4
  <2>3. Summary(<<>>, Refused(0))
    BY Zenon, <1>3, <1>5
  <2> QED BY Zenon, <2>1, <2>2, <2>3 DEF Split
<1> QED BY Zenon, <1>1, <1>2, <1>6 DEF CInv, PermittedSent, Accounted

\* These are facts about the request, which no step changes.
LEMMA RequestStable ==
  ASSUME UNCHANGED req
  PROVE  /\ \A n : Permitted(n)' = Permitted(n) /\ Refused(n)' = Refused(n)
         /\ \A s, J : InOrder(s, J)' <=> InOrder(s, J)
         /\ \A d, J : Summary(d, J)' <=> Summary(d, J)
<1>1. \A o : Authorized(o)' <=> Authorized(o)
  BY AuthorizedStable, Zenon
<1>2. \A o : Reason(o)' = Reason(o)
  BY Zenon DEF Reason, NoAllow
<1>3. \A n : Permitted(n)' = Permitted(n) /\ Refused(n)' = Refused(n)
  BY Zenon, <1>1 DEF Permitted, Refused
<1>4. \A s, J : InOrder(s, J)' <=> InOrder(s, J)
  BY Zenon DEF InOrder
<1>5. \A d, J : Summary(d, J)' <=> Summary(d, J)
  BY Zenon, <1>2 DEF Summary
<1> QED BY <1>3, <1>4, <1>5, Zenon

LEMMA SplitStable ==
  ASSUME UNCHANGED req, NEW os, NEW es, NEW d, NEW n
  PROVE  Split(os, es, d, n)' <=> Split(os, es, d, n)
  BY Zenon, RequestStable DEF Split

\* What was sent, and the answer given, stay right as long as they stay.
LEMMA SentStable ==
  ASSUME UNCHANGED <<req, sent>>, PermittedSent PROVE PermittedSent'
  BY Zenon, RequestStable DEF PermittedSent

\* One more object splits off to the side that Authorized says.
LEMMA SplitStep ==
  ASSUME NEW os \in Seq(Object), NEW es \in Seq(Object), NEW d, NEW n \in Nat,
         Split(os, es, d, n), req.objects[n + 1] \in Object
  PROVE  /\ Authorized(req.objects[n + 1])
              => Split(Append(os, req.objects[n + 1]), es, d, n + 1)
         /\ ~Authorized(req.objects[n + 1])
              => Split(os, Append(es, req.objects[n + 1]),
                       addDenial(d, Reason(req.objects[n + 1])), n + 1)
<1> DEFINE o == req.objects[n + 1]
<1>1. Permitted(n) \in SUBSET (1 .. n) /\ Refused(n) \in SUBSET (1 .. n)
  BY Zenon DEF Permitted, Refused
<1>2. \A j : j \in 1 .. n + 1 <=> j \in 1 .. n \/ j = n + 1
  OBVIOUS
<1>3. ASSUME Authorized(o)
      PROVE  Permitted(n + 1) = Permitted(n) \cup {n + 1} /\ Refused(n + 1) = Refused(n)
  BY <1>2, <1>3, Zenon DEF Permitted, Refused
<1>4. ASSUME ~Authorized(o)
      PROVE  Permitted(n + 1) = Permitted(n) /\ Refused(n + 1) = Refused(n) \cup {n + 1}
  BY <1>2, <1>4, Zenon DEF Permitted, Refused
<1>5. /\ Len(os) \in Nat /\ Len(es) \in Nat /\ Len(os) + Len(es) = n
      /\ Len(Append(os, o)) = Len(os) + 1 /\ Len(Append(es, o)) = Len(es) + 1
  BY DEF Split
<1>6. Len(Append(os, o)) + Len(es) = n + 1 /\ Len(os) + Len(Append(es, o)) = n + 1
  BY <1>5
<1>7. InOrder(os, Permitted(n)) /\ InOrder(es, Refused(n)) /\ Summary(d, Refused(n))
  BY Zenon DEF Split
<1>8. /\ InOrder(Append(os, o), Permitted(n) \cup {n + 1})
      /\ InOrder(Append(es, o), Refused(n) \cup {n + 1})
  BY <1>1, <1>7, InOrderAppend, Zenon
<1>9. Summary(addDenial(d, Reason(o)), Refused(n) \cup {n + 1})
  BY <1>1, <1>7, SummaryAdd, Zenon
<1>10. ASSUME Authorized(o) PROVE Split(Append(os, o), es, d, n + 1)
  BY <1>3, <1>6, <1>7, <1>8, <1>10, Zenon DEF Split
<1>11. ASSUME ~Authorized(o)
       PROVE  Split(os, Append(es, o), addDenial(d, Reason(o)), n + 1)
  BY <1>4, <1>6, <1>7, <1>8, <1>9, <1>11, Zenon DEF Split
<1> QED BY <1>10, <1>11, Zenon

\* The refused objects and what the backend lists add up to the request.
LEMMA ListedAddUp ==
  ASSUME NEW n \in Nat, NEW failed \in SUBSET (1 .. n)
  PROVE  Cardinality(failed) + Cardinality((1 .. n) \ failed) = n
<1>1. IsFiniteSet(1 .. n) /\ Cardinality(1 .. n) = n
  BY FS_Interval
<1>2. (1 .. n) \cap failed = failed
  BY Zenon
<1>3. Cardinality(failed) \in Nat
  BY <1>1, FS_Subset, FS_CardinalityType, Zenon
<1>4. Cardinality((1 .. n) \ failed) = n - Cardinality(failed)
  <2>1. Cardinality((1 .. n) \ failed) = Cardinality(1 .. n) - Cardinality((1 .. n) \cap failed)
    BY <1>1, FS_Difference, Zenon
  <2> QED BY Zenon, <1>1, <1>2, <2>1
<1> QED BY <1>3, <1>4

\* An answer built from the complete split accounts for every object.
LEMMA ResultAccounts ==
  ASSUME NEW os, NEW es, NEW d, NEW n \in Nat, n = Len(req.objects), Split(os, es, d, n),
         Len(os) \in Nat, Len(es) \in Nat, NEW failed \in SUBSET (1 .. Len(os)),
         NEW a, a = Result(es, failed, IF req.quiet THEN {} ELSE (1 .. Len(os)) \ failed)
  PROVE  /\ ~req.quiet => Len(a.errors) + Cardinality(a.failed) + Cardinality(a.deleted)
                            = Len(req.objects)
         /\ InOrder(a.errors, Refused(Len(req.objects)))
         /\ Summary(d, Refused(Len(req.objects)))
<1>1. /\ a.errors = es /\ a.failed = failed
      /\ ~req.quiet => a.deleted = (1 .. Len(os)) \ failed
  BY Zenon DEF Result
<1>2. Len(os) + Len(es) = n
  BY Zenon DEF Split
<1>3. Cardinality(failed) + Cardinality((1 .. Len(os)) \ failed) = Len(os)
  BY ListedAddUp, Zenon
<1>4. Cardinality(failed) \in Nat /\ Cardinality((1 .. Len(os)) \ failed) \in Nat
  <2>1. IsFiniteSet(1 .. Len(os))
    BY FS_Interval
  <2>2. (1 .. Len(os)) \ failed \in SUBSET (1 .. Len(os))
    OBVIOUS
  <2> QED BY <2>1, <2>2, FS_Subset, FS_CardinalityType, Zenon
<1>5. Len(es) + Cardinality(failed) + Cardinality((1 .. Len(os)) \ failed) = n
  BY <1>2, <1>3, <1>4, SMTT(30)
<1> QED BY <1>1, <1>5, Zenon DEF Split

\* For every set of requests: only objects their requester may delete on
\* their own reach the backend.
THEOREM DeletesOnlyAuthorized == Spec => []OnlyAuthorized
<1>1. IInv => OnlyAuthorized
  BY Zenon DEF IInv
<1> QED BY <1>1, InitIInv, NextIInv, PTL DEF Spec

\* The gate hides a bucket from no requester who may delete one of the objects.
THEOREM HidesFromNoOne == Spec => []HiddenIsDenied
<1>1. IInv => HiddenIsDenied
  BY Zenon, GrantedIsVisible DEF IInv, HiddenIsDenied, Authorized, Visible
<1> QED BY <1>1, InitIInv, NextIInv, PTL DEF Spec

\* Type correctness of the handler's state.
THEOREM TypeCorrect == Spec => []TypeOK
<1>1. IInv => TypeOK
  BY Zenon DEF IInv
<1> QED BY <1>1, InitIInv, NextIInv, PTL DEF Spec
\* A step that leaves the split and the request alone keeps what was established.
LEMMA CInvFrame ==
  ASSUME CInv, UNCHANGED <<req, i, objects, errors, denials, sent>>, pc' # "sent",
         \/ pc' = "done" /\ answer'.status # "ok"
         \/ answer'.status = "none"
  PROVE  CInv'
<1>1. Split(objects, errors, denials, i - 1)'
  BY Zenon, SplitStable DEF CInv
<1>2. PermittedSent'
  BY Zenon, SentStable DEF CInv
<1> QED BY Zenon, <1>1, <1>2 DEF CInv, Accounted

\* A turn of the loop that extends the split keeps the invariant.
LEMMA CheckedCInv ==
  ASSUME CInv, pc = "check", i \in Nat, i' = i + 1, Split(objects', errors', denials', i),
         UNCHANGED <<req, pc, sent, answer>>
  PROVE  CInv'
<1>1. i' - 1 = i
  OBVIOUS
<1>2. Split(objects, errors, denials, i - 1)'
  BY Zenon, <1>1, SplitStable
<1>3. PermittedSent'
  BY Zenon, SentStable DEF CInv
<1> QED BY Zenon, <1>2, <1>3 DEF CInv, Accounted

\* So does the step that answers from the complete split.
LEMMA AnsweredCInv ==
  ASSUME CInv, pc' = "done", UNCHANGED <<req, i, objects, errors, denials, sent>>,
         Split(objects, errors, denials, Len(req.objects)), Len(req.objects) \in Nat,
         Len(objects) \in Nat, Len(errors) \in Nat, NEW failed \in SUBSET (1 .. Len(objects)),
         answer' = Result(errors, failed, IF req.quiet THEN {} ELSE (1 .. Len(objects)) \ failed)
  PROVE  CInv'
<1>1. Split(objects, errors, denials, i - 1)'
  BY Zenon, SplitStable DEF CInv
<1>2. PermittedSent'
  BY Zenon, SentStable DEF CInv
<1>3. /\ ~req.quiet => Len(answer'.errors) + Cardinality(answer'.failed)
                         + Cardinality(answer'.deleted) = Len(req.objects)
      /\ InOrder(answer'.errors, Refused(Len(req.objects)))
      /\ Summary(denials, Refused(Len(req.objects)))
  BY Zenon, ResultAccounts
<1>4. Accounted'
  BY Zenon, <1>3, RequestStable DEF Accounted
<1> QED BY Zenon, <1>1, <1>2, <1>4 DEF CInv

LEMMA NextCInv == IInv /\ CInv /\ [Next]_vars => CInv'
<1> SUFFICES ASSUME IInv, CInv, [Next]_vars PROVE CInv'
  OBVIOUS
<1>1. /\ req.objects \in Seq(Object) /\ Len(req.objects) \in Nat /\ Len(req.b.policy) \in Nat
      /\ i \in 1 .. Len(req.objects) + 1 /\ objects \in Seq(Object) /\ errors \in Seq(Object)
      /\ KnownEffects(req.b.policy)
  BY DeleteObjectsAssumption DEF IInv, TypeOK
<1>2. ASSUME Fail PROVE CInv'
  BY Zenon, <1>2, CInvFrame DEF Fail, Empty
<1>3. CASE resolveBucket
  BY <1>3, CInvFrame DEF resolveBucket, Empty, CInv
<1>4. CASE Read
  <2>1. CASE Len(req.objects) \in 1 .. MaxObjects
    BY Zenon, <1>4, <2>1, CInvFrame DEF Read, CInv
  <2>2. CASE Len(req.objects) \notin 1 .. MaxObjects
    BY Zenon, <1>2, <1>4, <2>2 DEF Read
  <2> QED BY Zenon, <2>1, <2>2
<1>5. CASE CheckObject
  <2> DEFINE o == req.objects[i]
             n == i - 1
  <2>1. n \in Nat /\ n + 1 = i /\ i \in 1 .. Len(req.objects) /\ o \in Object
    BY <1>1, <1>5 DEF CheckObject
  <2>2. CASE ~(checkPerObject /\ denied(o)) /\ o.date = "invalid"
    BY Zenon, <1>2, <1>5, <2>2 DEF CheckObject
  <2>3. Split(objects, errors, denials, n)
    BY Zenon DEF CInv
  <2>4. /\ Authorized(o) => Split(Append(objects, o), errors, denials, i)
        /\ ~Authorized(o) => Split(objects, Append(errors, o), addDenial(denials, Reason(o)), i)
    <3> HIDE DEF n
    <3>1. req.objects[n + 1] = o
      BY Zenon, <2>1
    <3> HIDE DEF o
    <3>2. /\ Authorized(o) => Split(Append(objects, o), errors, denials, n + 1)
          /\ ~Authorized(o) => Split(objects, Append(errors, o), addDenial(denials, Reason(o)), n + 1)
      BY Zenon, <1>1, <2>1, <2>3, <3>1, SplitStep
    <3> QED BY Zenon, <2>1, <3>2
  <2>5. CASE checkPerObject /\ denied(o)
    <3>1. ~Authorized(o)
      BY Zenon, <1>1, <2>1, <2>5, RefusedIsUnauthorized
    <3>2. denyReason(AuthFor(DecidingAction(o)), o.key) = Reason(o)
      BY Zenon, <1>1, <2>1, <2>5, RefusedForReason
    <3>3. /\ errors' = Append(errors, o) /\ i' = i + 1
          /\ denials' = addDenial(denials, denyReason(AuthFor(DecidingAction(o)), o.key))
          /\ UNCHANGED <<req, pc, objects, sent, answer>>
      BY Zenon, <1>5, <2>5 DEF CheckObject
    <3>4. Split(objects', errors', denials', i)
      BY Zenon, <2>4, <3>1, <3>2, <3>3
    <3> QED BY <2>1, <3>3, <3>4, CheckedCInv, <1>5 DEF CheckObject
  <2>6. CASE ~(checkPerObject /\ denied(o)) /\ o.date # "invalid"
    <3>1. Authorized(o)
      BY Zenon, <2>1, <2>6, PassedIsAuthorized
    <3>2. /\ objects' = Append(objects, o) /\ i' = i + 1
          /\ UNCHANGED <<req, pc, errors, denials, sent, answer>>
      BY Zenon, <1>5, <2>6 DEF CheckObject
    <3>3. Split(objects', errors', denials', i)
      BY Zenon, <2>4, <3>1, <3>2
    <3> QED BY <2>1, <3>2, <3>3, CheckedCInv, <1>5 DEF CheckObject
  <2> QED BY Zenon, <2>2, <2>5, <2>6
<1>6. CASE Send
  <2>1. i - 1 = Len(req.objects)
    BY <1>1, <1>6 DEF Send
  <2>2. Split(objects, errors, denials, Len(req.objects))
    BY Zenon, <2>1 DEF CInv
  <2>3. Split(objects, errors, denials, i - 1)'
    BY Zenon, <1>6, SplitStable DEF Send, CInv
  <2>4. CASE objects = <<>>
    <3>1. /\ pc' = "done" /\ answer' = Result(errors, {}, {})
          /\ UNCHANGED <<req, i, objects, errors, denials, sent>>
      BY Zenon, <1>6, <2>4 DEF Send
    <3> QED BY <1>1, <2>2, <2>4, <3>1, AnsweredCInv
  <2>5. CASE objects # <<>>
    <3>1. /\ pc' = "sent" /\ sent' = objects /\ UNCHANGED <<req, i, objects, errors, denials, answer>>
      BY Zenon, <1>6, <2>5 DEF Send
    <3>2. answer'.status = "none"
      BY Zenon, <1>6, <3>1 DEF Send, CInv
    <3>3. PermittedSent'
      <4>1. InOrder(objects, Permitted(Len(req.objects)))
        BY Zenon, <2>2 DEF Split
      <4> QED BY Zenon, <3>1, <4>1, RequestStable DEF PermittedSent
    <3> QED BY <1>1, <2>1, <2>3, <3>1, <3>2, <3>3 DEF CInv, Accounted
  <2> QED BY Zenon, <2>4, <2>5
<1>7. CASE BackendAnswers
  <2>1. sent = objects /\ i = Len(req.objects) + 1 /\ i - 1 = Len(req.objects)
    BY <1>1, <1>7 DEF BackendAnswers, CInv
  <2>2. PICK failed \in SUBSET (1 .. Len(objects)) :
          answer' = Result(errors, failed, IF req.quiet THEN {} ELSE (1 .. Len(objects)) \ failed)
    BY Zenon, <1>7, <2>1 DEF BackendAnswers
  <2>3. pc' = "done" /\ UNCHANGED <<req, i, objects, errors, denials, sent>>
    BY Zenon, <1>7 DEF BackendAnswers
  <2>4. Split(objects, errors, denials, Len(req.objects))
    BY Zenon, <2>1 DEF CInv
  <2>5. Len(objects) \in Nat /\ Len(errors) \in Nat
    BY <1>1
  <2> QED BY <1>1, <2>2, <2>3, <2>4, <2>5, AnsweredCInv, Zenon
<1>8. CASE UNCHANGED vars
  <2>1. UNCHANGED <<req, pc, i, objects, errors, denials, sent, answer>>
    BY Zenon, <1>8 DEF vars
  <2>2. Split(objects, errors, denials, i - 1)'
    BY Zenon, <2>1, SplitStable DEF CInv
  <2>3. PermittedSent'
    BY Zenon, <2>1, SentStable DEF CInv
  <2>4. Accounted'
    BY Zenon, <2>1, RequestStable DEF CInv, Accounted
  <2> QED BY Zenon, <2>1, <2>2, <2>3, <2>4 DEF CInv
<1> QED BY Zenon, <1>2, <1>3, <1>4, <1>5, <1>6, <1>7, <1>8 DEF Next, Refuse, BackendFails

\* Exactly the objects the requester may delete reach the backend, in the order the
\* request names them.
THEOREM SendsAllPermitted == Spec => []PermittedSent
<1>1. CInv => PermittedSent
  BY Zenon DEF CInv
<1> QED BY <1>1, InitIInv, InitCInv, NextIInv, NextCInv, PTL DEF Spec

\* An answer accounts for every object, and the observer's summary counts every
\* refusal under the reason a request for that object alone would be refused for.
THEOREM AccountsForAll == Spec => []Accounted
<1>1. CInv => Accounted
  BY Zenon DEF CInv
<1> QED BY <1>1, InitIInv, InitCInv, NextIInv, NextCInv, PTL DEF Spec

-----------------------------------------------------------------------------
(* The wildcard matcher: what a part of a pattern stands for *)

\* Each character of the pattern begins where the one before it ends.
Follows(s, t, at, h, j) == \A n \in h + 1 .. j : Takes(s, t, n, at[n - 1], at[n])

LEMMA Rising ==
    ASSUME NEW s, NEW t, NEW h \in Nat, NEW j \in Nat, NEW at, \A n \in h .. j : at[n] \in Int, Follows(s, t, at, h, j),
           NEW m \in h .. j, NEW n \in m .. j
    PROVE  at[m] <= at[n]
<1> DEFINE S == {k \in m .. j : at[k] < at[m]}
<1>1. \A k \in h + 1 .. j : at[k - 1] <= at[k]
  BY DEF Follows, Takes
<1>2. ASSUME S # {} PROVE FALSE
  <2>1. S \in SUBSET Nat
    OBVIOUS
  <2>2. PICK k \in S : \A l \in S : k <= l
    BY <1>2, <2>1, Least, Zenon
  <2>3. k \in m + 1 .. j /\ k - 1 \in m .. j /\ k - 1 \notin S
    BY <2>2
  <2> QED BY <1>1, <2>2, <2>3
<1> QED BY <1>2

\* Where there is no star, each character takes one.
LEMMA Lockstep ==
    ASSUME NEW s, NEW t, NEW h \in Nat, NEW j \in Nat, NEW at, \A n \in h .. j : at[n] \in Int, Follows(s, t, at, h, j),
           NEW m \in h .. j, \A n \in h + 1 .. m : s[n] # "*"
    PROVE  at[m] = at[h] + (m - h)
<1> DEFINE S == {k \in h .. m : at[k] # at[h] + (k - h)}
<1>1. \A k \in h + 1 .. m : at[k] = at[k - 1] + 1
  BY DEF Follows, Takes
<1>2. ASSUME S # {} PROVE FALSE
  <2>1. S \in SUBSET Nat
    OBVIOUS
  <2>2. PICK k \in S : \A l \in S : k <= l
    BY <1>2, <2>1, Least, Zenon
  <2>3. k \in h + 1 .. m /\ k - 1 \in h .. m /\ k - 1 \notin S
    BY <2>2
  <2> QED BY <1>1, <2>2, <2>3
<1> QED BY <1>2

LEMMA SpansSelf ==
    ASSUME NEW s, NEW t, NEW h \in Nat, NEW a \in Nat
    PROVE  Spans(s, t, h, a, h, a)
<1> DEFINE at == [n \in h .. h |-> a]
<1>1. at \in [h .. h -> a .. a] /\ at[h] = a /\ \A n \in h + 1 .. h : Takes(s, t, n, at[n - 1], at[n])
  OBVIOUS
<1> QED BY <1>1, Zenon DEF Spans

LEMMA SpansOne ==
    ASSUME NEW s, NEW t, NEW h \in Nat, NEW a \in Nat, NEW b \in Nat, Takes(s, t, h + 1, a, b)
    PROVE  Spans(s, t, h, a, h + 1, b)
<1> DEFINE at == [n \in h .. h + 1 |-> IF n = h THEN a ELSE b]
<1>1. a <= b
  BY DEF Takes
<1>2. at \in [h .. h + 1 -> a .. b] /\ at[h] = a /\ at[h + 1] = b
  BY <1>1
<1>3. ASSUME NEW n \in h + 1 .. h + 1 PROVE Takes(s, t, n, at[n - 1], at[n])
  <2>1. n = h + 1 /\ n - 1 = h
    OBVIOUS
  <2> QED BY <2>1, <1>2
<1> HIDE DEF at
<1> QED BY <1>2, <1>3, Zenon DEF Spans

LEMMA Join ==
    ASSUME NEW s, NEW t, NEW h \in Nat, NEW j \in Nat, NEW k \in Nat, NEW a \in Nat, NEW b \in Nat, NEW c \in Nat,
           Spans(s, t, h, a, j, b), Spans(s, t, j, b, k, c), h <= j, j <= k
    PROVE  Spans(s, t, h, a, k, c)
<1>1. PICK f \in [h .. j -> a .. b] : f[h] = a /\ f[j] = b /\ \A n \in h + 1 .. j : Takes(s, t, n, f[n - 1], f[n])
  BY Zenon DEF Spans
<1>2. PICK g \in [j .. k -> b .. c] : g[j] = b /\ g[k] = c /\ \A n \in j + 1 .. k : Takes(s, t, n, g[n - 1], g[n])
  BY Zenon DEF Spans
<1> DEFINE at == [n \in h .. k |-> IF n <= j THEN f[n] ELSE g[n]]
<1>3. a <= b /\ b <= c
  BY <1>1, <1>2
<1>4. at \in [h .. k -> a .. c]
  BY <1>1, <1>2, <1>3
<1>5. at[h] = a /\ at[k] = c
  BY <1>1, <1>2
<1>6. ASSUME NEW n \in h + 1 .. k PROVE Takes(s, t, n, at[n - 1], at[n])
  <2>1. CASE n <= j
    <3>1. n \in h + 1 .. j /\ at[n - 1] = f[n - 1] /\ at[n] = f[n]
      BY <2>1
    <3> QED BY <1>1, <3>1
  <2>2. CASE n > j
    <3>1. n \in j + 1 .. k /\ n - 1 \in j .. k /\ at[n] = g[n]
      BY <2>2
    <3>2. at[n - 1] = g[n - 1]
      <4>1. CASE n - 1 = j
        BY <4>1, <1>1, <1>2
      <4>2. CASE n - 1 # j
        BY <4>2, <3>1
      <4> QED BY <4>1, <4>2
    <3> QED BY <1>2, <3>1, <3>2
  <2> QED BY <2>1, <2>2
<1> HIDE DEF at
<1> QED BY <1>4, <1>5, <1>6, Zenon DEF Spans

\* What follows a character of the pattern stands for what is left by it.
LEMMA Rest ==
    ASSUME NEW s, NEW t, NEW h \in Nat, NEW j \in Nat, NEW a \in Nat, NEW b \in Nat, NEW at \in [h .. j -> a .. b],
           at[h] = a, at[j] = b, Follows(s, t, at, h, j), NEW m \in h .. j
    PROVE  Spans(s, t, m, at[m], j, b)
<1> DEFINE g == [n \in m .. j |-> at[n]]
<1>0. \A n \in h .. j : at[n] \in Int
  OBVIOUS
<1>1. \A n \in m .. j : at[m] <= at[n]
  BY <1>0, Rising, Zenon
<1>2. g \in [m .. j -> at[m] .. b] /\ g[m] = at[m] /\ g[j] = b
  BY <1>1
<1>3. ASSUME NEW n \in m + 1 .. j PROVE Takes(s, t, n, g[n - 1], g[n])
  <2>1. n \in h + 1 .. j /\ g[n - 1] = at[n - 1] /\ g[n] = at[n]
    OBVIOUS
  <2> QED BY <2>1 DEF Follows
<1> HIDE DEF g
<1> QED BY <1>2, <1>3, Zenon DEF Spans

\* A star may take more.
LEMMA StarMore ==
    ASSUME NEW s, NEW t, NEW h \in Nat, NEW a \in Nat, NEW b \in Nat,
           s[h + 1] = "*", Spans(s, t, 0, 0, h + 1, a), a <= b
    PROVE  Spans(s, t, 0, 0, h + 1, b)
<1>1. PICK at \in [0 .. h + 1 -> 0 .. a] :
        at[0] = 0 /\ at[h + 1] = a /\ \A n \in 0 + 1 .. h + 1 : Takes(s, t, n, at[n - 1], at[n])
  BY Zenon DEF Spans
<1> DEFINE g == [at EXCEPT ![h + 1] = b]
<1>2. g \in [0 .. h + 1 -> 0 .. b] /\ g[0] = 0 /\ g[h + 1] = b
  BY <1>1
<1>3. ASSUME NEW n \in 0 + 1 .. h + 1 PROVE Takes(s, t, n, g[n - 1], g[n])
  <2>1. n - 1 \in 0 .. h /\ g[n - 1] = at[n - 1] /\ at[n - 1] \in 0 .. a
    BY <1>1
  <2>2. CASE n = h + 1
    BY <1>2, <2>1, <2>2 DEF Takes
  <2>3. CASE n # h + 1
    <3>1. g[n] = at[n]
      BY <2>3
    <3> QED BY <1>1, <2>1, <3>1
  <2> QED BY <2>2, <2>3
<1> HIDE DEF g
<1> QED BY <1>2, <1>3, Zenon DEF Spans

\* Stars alone stand for nothing, too, and nothing else does.
LEMMA OnlyStars ==
    ASSUME NEW s, NEW t, NEW h \in Nat, NEW j \in Nat, NEW a \in Nat, h <= j
    PROVE  Spans(s, t, h, a, j, a) <=> \A n \in h + 1 .. j : s[n] = "*"
<1>1. ASSUME \A n \in h + 1 .. j : s[n] = "*" PROVE Spans(s, t, h, a, j, a)
  <2> DEFINE at == [n \in h .. j |-> a]
  <2>1. at \in [h .. j -> a .. a] /\ at[h] = a /\ at[j] = a
    OBVIOUS
  <2>2. ASSUME NEW n \in h + 1 .. j PROVE Takes(s, t, n, at[n - 1], at[n])
    BY <1>1 DEF Takes
  <2> HIDE DEF at
  <2> QED BY <2>1, <2>2, Zenon DEF Spans
<1>2. ASSUME Spans(s, t, h, a, j, a), NEW n \in h + 1 .. j PROVE s[n] = "*"
  <2>1. PICK at \in [h .. j -> a .. a] : \A k \in h + 1 .. j : Takes(s, t, k, at[k - 1], at[k])
    BY <1>2, Zenon DEF Spans
  <2>2. at[n - 1] = a /\ at[n] = a
    BY <2>1
  <2> QED BY <2>1, <2>2 DEF Takes
<1> QED BY <1>1, <1>2

-----------------------------------------------------------------------------
(* The loop of the matcher *)

\* The characters passed are accounted for, also when the last star takes them;
\* and the cursors have moved on together since that star.
Sound ==
    /\ GlobTypeOK
    /\ Spans(pat, val, 0, 0, p, v)
    /\ star >= 0 => pat[star + 1] = "*" /\ Spans(pat, val, 0, 0, star + 1, starV)
    /\ v - starV = p - (star + 1)
    /\ NeverOvermatches

\* A match goes on from the cursors, or from a later start after the last star.
Ahead ==
    \/ MatchFrom(p, v)
    \/ star >= 0 /\ \E k \in starV + 1 .. Len(val) : MatchFrom(star + 1, k)

\* With a value that has no star, there is none in the pattern since the last,
\* and no match is given up.
Complete ==
    Plain => /\ \A n \in star + 2 .. p : pat[n] # "*"
             /\ result = "none" /\ Match(pat, val) => Ahead
             /\ result = "false" => ~Match(pat, val)

GInv == Sound /\ Complete

LEMMA Lengths ==
    ASSUME GlobTypeOK
    PROVE  /\ pat \in Seq(STRING) /\ val \in Seq(STRING) /\ Len(pat) \in Nat /\ Len(val) \in Nat
           /\ p \in Nat /\ v \in Nat /\ p <= Len(pat) /\ v <= Len(val)
           /\ star \in Int /\ -1 <= star /\ star < p /\ starV \in Nat /\ starV <= v
<1>1. pat \in Seq(STRING) /\ val \in Seq(STRING)
  BY GlobAssumption, Zenon DEF GlobTypeOK
<1> QED BY <1>1 DEF GlobTypeOK

LEMMA InitGInv == GlobInit => GInv
<1> SUFFICES ASSUME GlobInit PROVE GInv
  OBVIOUS
<1>1. pat \in Seq(STRING) /\ val \in Seq(STRING)
  BY GlobAssumption, Zenon DEF GlobInit
<1>2. GlobTypeOK
  BY <1>1 DEF GlobInit, GlobTypeOK
<1>3. Spans(pat, val, 0, 0, p, v)
  BY SpansSelf DEF GlobInit
<1>4. Sound
  BY <1>2, <1>3 DEF GlobInit, Sound, NeverOvermatches
<1>5. Complete
  <2>1. \A n \in star + 2 .. p : pat[n] # "*"
    BY DEF GlobInit
  <2>2. p = 0 /\ v = 0
    BY DEF GlobInit
  <2>3. Match(pat, val) => Ahead
    BY <2>2, Zenon DEF Ahead, MatchFrom, Match
  <2> QED BY <2>1, <2>3 DEF GlobInit, Complete
<1> QED BY <1>4, <1>5 DEF GInv

LEMMA SoundStep == Sound /\ [GlobNext]_globVars => Sound'
<1> SUFFICES ASSUME Sound, [GlobNext]_globVars PROVE Sound'
  OBVIOUS
<1>0. /\ GlobTypeOK /\ Spans(pat, val, 0, 0, p, v)
      /\ star >= 0 => pat[star + 1] = "*" /\ Spans(pat, val, 0, 0, star + 1, starV)
      /\ v - starV = p - (star + 1)
      /\ NeverOvermatches
  BY Zenon DEF Sound
<1>T. /\ pat \in Seq(STRING) /\ val \in Seq(STRING) /\ Len(pat) \in Nat /\ Len(val) \in Nat
      /\ p \in Nat /\ v \in Nat /\ p <= Len(pat) /\ v <= Len(val)
      /\ star \in Int /\ -1 <= star /\ star < p /\ starV \in Nat /\ starV <= v
  BY <1>0, Lengths, Zenon
<1>1. CASE MatchOne
  <2>1. /\ p' = p + 1 /\ v' = v + 1 /\ pat' = pat /\ val' = val /\ star' = star /\ starV' = starV
        /\ result' = result /\ result = "none" /\ v < Len(val)
        /\ p < Len(pat) /\ pat[p + 1] \in {"?", val[v + 1]}
    BY <1>1 DEF MatchOne, InLoop, Literal
  <2>2. Takes(pat, val, p + 1, v, v + 1)
    BY <1>T, <2>1 DEF Takes
  <2>3. Spans(pat, val, p, v, p + 1, v + 1)
    BY <1>T, <2>2, SpansOne
  <2>4. Spans(pat, val, 0, 0, p + 1, v + 1)
    BY <1>0, <1>T, <2>3, Join
  <2>5. GlobTypeOK'
    BY <1>0, <1>T, <2>1 DEF GlobTypeOK
  <2>6. v' - starV' = p' - (star' + 1)
    BY <1>0, <1>T, <2>1
  <2> QED BY <1>0, <2>1, <2>4, <2>5, <2>6, Zenon DEF Sound, NeverOvermatches
<1>2. CASE OpenStar
  <2>1. /\ p' = p + 1 /\ v' = v /\ pat' = pat /\ val' = val /\ star' = p /\ starV' = v
        /\ result' = result /\ result = "none" /\ v < Len(val)
        /\ p < Len(pat) /\ pat[p + 1] = "*"
    BY <1>2 DEF OpenStar, InLoop, AtStar
  <2>2. Takes(pat, val, p + 1, v, v)
    BY <1>T, <2>1 DEF Takes
  <2>3. Spans(pat, val, p, v, p + 1, v)
    BY <1>T, <2>2, SpansOne
  <2>4. Spans(pat, val, 0, 0, p + 1, v)
    BY <1>0, <1>T, <2>3, Join
  <2>5. GlobTypeOK'
    BY <1>0, <1>T, <2>1 DEF GlobTypeOK
  <2>6. v' - starV' = p' - (star' + 1)
    BY <1>T, <2>1
  <2> QED BY <1>0, <2>1, <2>4, <2>5, <2>6, Zenon DEF Sound, NeverOvermatches
<1>3. CASE Backtrack
  <2>1. /\ p' = star + 1 /\ v' = starV + 1 /\ pat' = pat /\ val' = val /\ star' = star
        /\ starV' = starV + 1 /\ result' = result /\ result = "none" /\ v < Len(val) /\ star >= 0
    BY <1>3 DEF Backtrack, InLoop
  <2>2. Spans(pat, val, 0, 0, star + 1, starV + 1)
    <3>1. star \in Nat /\ starV + 1 \in Nat /\ starV <= starV + 1
      BY <1>T, <2>1
    <3> QED BY <1>0, <1>T, <2>1, <3>1, StarMore, Zenon
  <2>5. GlobTypeOK'
    BY <1>0, <1>T, <2>1 DEF GlobTypeOK
  <2>6. v' - starV' = p' - (star' + 1)
    BY <1>T, <2>1
  <2> QED BY <1>0, <2>1, <2>2, <2>5, <2>6, Zenon DEF Sound, NeverOvermatches
<1>4. CASE Mismatch
  <2>1. /\ UNCHANGED <<pat, val, p, v, star, starV>> /\ result' = "false"
    BY <1>4 DEF Mismatch
  <2>2. GlobTypeOK'
    BY <1>0, <2>1 DEF GlobTypeOK
  <2> QED BY <1>0, <2>1, <2>2 DEF Sound, NeverOvermatches
<1>5. CASE Finish
  <2>1. /\ UNCHANGED <<pat, val, p, v, star, starV>> /\ v = Len(val)
        /\ result' = IF \A h \in p + 1 .. Len(pat) : pat[h] = "*" THEN "true" ELSE "false"
    BY <1>5, <1>T DEF Finish
  <2>2. GlobTypeOK'
    BY <1>0, <2>1 DEF GlobTypeOK
  <2>3. ASSUME result' = "true" PROVE Match(pat, val)
    <3>1. \A h \in p + 1 .. Len(pat) : pat[h] = "*"
      BY <2>1, <2>3
    <3>2. Spans(pat, val, p, v, Len(pat), v)
      BY <1>T, <3>1, OnlyStars
    <3> QED BY <1>0, <1>T, <2>1, <3>2, Join DEF Match
  <2> QED BY <1>0, <2>1, <2>2, <2>3 DEF Sound, NeverOvermatches
<1>6. CASE UNCHANGED globVars
  BY <1>0, <1>6 DEF globVars, Sound, NeverOvermatches, GlobTypeOK
<1> QED BY <1>1, <1>2, <1>3, <1>4, <1>5, <1>6 DEF GlobNext

\* What a match from the h-th character makes of the next one.
LEMMA StepOn ==
    ASSUME GlobTypeOK, NEW h \in 0 .. Len(pat), NEW m \in 0 .. Len(val), MatchFrom(h, m)
    PROVE  /\ h = Len(pat) => m = Len(val)
           /\ h < Len(pat) => \E k \in m .. Len(val) : Takes(pat, val, h + 1, m, k) /\ MatchFrom(h + 1, k)
<1>T. Len(pat) \in Nat /\ Len(val) \in Nat
  BY Lengths, Zenon
<1>1. PICK at \in [h .. Len(pat) -> m .. Len(val)] :
        /\ at[h] = m /\ at[Len(pat)] = Len(val)
        /\ \A n \in h + 1 .. Len(pat) : Takes(pat, val, n, at[n - 1], at[n])
  BY Zenon DEF MatchFrom, Spans
<1>2. ASSUME h < Len(pat)
      PROVE  \E k \in m .. Len(val) : Takes(pat, val, h + 1, m, k) /\ MatchFrom(h + 1, k)
  <2>1. h + 1 \in h .. Len(pat) /\ h + 1 \in h + 1 .. Len(pat) /\ (h + 1) - 1 = h /\ h \in Nat /\ m \in Nat
    BY <1>2, <1>T
  <2>2. Follows(pat, val, at, h, Len(pat))
    BY <1>1, Zenon DEF Follows
  <2>3. Spans(pat, val, h + 1, at[h + 1], Len(pat), Len(val))
    BY <1>1, <1>T, <2>1, <2>2, Rest, Zenon
  <2>4. Takes(pat, val, h + 1, m, at[h + 1])
    BY <1>1, <2>1
  <2> QED BY <1>1, <2>1, <2>3, <2>4, Zenon DEF MatchFrom
<1> QED BY <1>1, <1>2

\* A match from a later start after the last star passes the cursor of the pattern
\* later than that of the value is.
LEMMA Onward ==
    ASSUME Sound, \A n \in star + 2 .. p : pat[n] # "*", star >= 0,
           NEW k \in starV + 1 .. Len(val), MatchFrom(star + 1, k)
    PROVE  \E m \in v + 1 .. Len(val) : MatchFrom(p, m)
<1>T. /\ Len(pat) \in Nat /\ Len(val) \in Nat /\ p \in Nat /\ v \in Nat /\ p <= Len(pat) /\ v <= Len(val)
      /\ star \in Nat /\ star < p /\ starV \in Nat /\ starV <= v /\ v - starV = p - (star + 1)
  BY Lengths DEF Sound
<1> DEFINE h == star + 1
<1>0. h \in Nat /\ k \in Nat /\ p \in h .. Len(pat) /\ \A n \in h + 1 .. p : pat[n] # "*"
  BY <1>T
<1>1. PICK at \in [h .. Len(pat) -> k .. Len(val)] :
        /\ at[h] = k /\ at[Len(pat)] = Len(val)
        /\ \A n \in h + 1 .. Len(pat) : Takes(pat, val, n, at[n - 1], at[n])
  BY Zenon DEF MatchFrom, Spans
<1>2. Follows(pat, val, at, h, Len(pat)) /\ \A n \in h .. Len(pat) : at[n] \in Int
  BY <1>T, <1>0, <1>1 DEF Follows
<1> HIDE DEF h
<1>L. Len(pat) \in Nat /\ Len(val) \in Nat
  BY <1>T
<1>3. at[p] = at[h] + (p - h)
  <2>1. Len(pat) \in Nat /\ h \in Nat
    BY <1>L, <1>0
  <2>2. p \in h .. Len(pat)
    BY <1>0
  <2>3. \A n \in h + 1 .. p : pat[n] # "*"
    BY <1>0
  <2> QED BY <1>2, <2>1, <2>2, <2>3, Lockstep, SMTT(30)
<1>4. Spans(pat, val, p, at[p], Len(pat), Len(val))
  BY <1>L, <1>0, <1>1, <1>2, Rest, Zenon
<1>5. at[p] \in v + 1 .. Len(val)
  <2>1. at[p] \in k .. Len(val)
    BY <1>0, <1>1, Zenon
  <2>2. at[p] = k + (p - h)
    BY <1>1, <1>3
  <2>3. p - h = v - starV /\ k >= starV + 1
    BY <1>T DEF h
  <2> QED BY <1>T, <1>0, <2>1, <2>2, <2>3
<1> QED BY <1>4, <1>5, Zenon DEF MatchFrom

\* Where neither the literal nor the star case applies there is no match from the
\* cursors.
LEMMA Stuck ==
    ASSUME GlobTypeOK, InLoop, ~Literal, ~AtStar
    PROVE  ~MatchFrom(p, v)
<1>T. /\ Len(pat) \in Nat /\ Len(val) \in Nat /\ p \in Nat /\ v \in Nat /\ p <= Len(pat) /\ v < Len(val)
  BY Lengths DEF InLoop
<1> SUFFICES ASSUME MatchFrom(p, v) PROVE FALSE
  OBVIOUS
<1>1. /\ p = Len(pat) => v = Len(val)
      /\ p < Len(pat) => \E k \in v .. Len(val) : Takes(pat, val, p + 1, v, k)
  <2>1. p \in 0 .. Len(pat) /\ v \in 0 .. Len(val)
    BY <1>T
  <2> QED BY <2>1, StepOn, Zenon
<1>2. p < Len(pat)
  BY <1>1, <1>T
<1>3. PICK k \in v .. Len(val) : Takes(pat, val, p + 1, v, k)
  BY <1>1, <1>2
<1>4. k = v + 1 /\ pat[p + 1] \in {"?", val[v + 1]}
  BY <1>2, <1>3 DEF Takes, AtStar
<1> QED BY <1>2, <1>4 DEF Literal

LEMMA CompleteStep == Sound /\ Complete /\ [GlobNext]_globVars => Complete'
<1> SUFFICES ASSUME Sound, Complete, [GlobNext]_globVars, Plain' PROVE
        /\ \A n \in star' + 2 .. p' : pat'[n] # "*"
        /\ result' = "none" /\ Match(pat', val') => Ahead'
        /\ result' = "false" => ~Match(pat', val')
  BY Zenon DEF Complete
<1>T. /\ pat \in Seq(STRING) /\ val \in Seq(STRING) /\ Len(pat) \in Nat /\ Len(val) \in Nat
      /\ p \in Nat /\ v \in Nat /\ p <= Len(pat) /\ v <= Len(val)
      /\ star \in Int /\ -1 <= star /\ star < p /\ starV \in Nat /\ starV <= v
      /\ p \in 0 .. Len(pat) /\ v \in 0 .. Len(val) /\ GlobTypeOK
  <2>1. GlobTypeOK
    BY Zenon DEF Sound
  <2>2. p \in 0 .. Len(pat) /\ v \in 0 .. Len(val)
    BY <2>1, Zenon DEF GlobTypeOK
  <2> QED BY <2>1, <2>2, Lengths, Zenon
<1>V. pat' = pat /\ val' = val
  BY DEF GlobNext, MatchOne, OpenStar, Backtrack, Mismatch, Finish, globVars
<1>P. \A n \in 1 .. Len(val) : val[n] # "*"
  BY <1>V DEF Plain
<1>C. /\ \A n \in star + 2 .. p : pat[n] # "*"
      /\ result = "none" /\ Match(pat, val) => Ahead
      /\ result = "false" => ~Match(pat, val)
  BY <1>P, Zenon DEF Complete, Plain
<1>1. CASE MatchOne
  <2>1. /\ p' = p + 1 /\ v' = v + 1 /\ star' = star /\ starV' = starV
        /\ result' = result /\ result = "none" /\ v < Len(val)
        /\ p < Len(pat) /\ pat[p + 1] \in {"?", val[v + 1]}
    BY <1>1 DEF MatchOne, InLoop, Literal
  <2>2. pat[p + 1] # "*"
    <3>1. v + 1 \in 1 .. Len(val)
      BY <1>T, <2>1
    <3> QED BY <1>P, <2>1, <3>1
  <2>3. \A n \in star' + 2 .. p' : pat'[n] # "*"
    BY <1>T, <1>V, <1>C, <2>1, <2>2
  <2>4. ASSUME MatchFrom(p, v) PROVE MatchFrom(p + 1, v + 1)
    <3>1. PICK k \in v .. Len(val) : Takes(pat, val, p + 1, v, k) /\ MatchFrom(p + 1, k)
      BY <1>T, <2>1, <2>4, StepOn, Zenon
    <3>2. k = v + 1
      BY <2>2, <3>1 DEF Takes
    <3> QED BY <3>1, <3>2
  <2>5. ASSUME Match(pat, val) PROVE Ahead'
    BY <1>C, <1>V, <2>1, <2>4, <2>5, Zenon DEF Ahead, MatchFrom
  <2> QED BY <1>V, <2>1, <2>3, <2>5
<1>2. CASE OpenStar
  <2>1. /\ p' = p + 1 /\ v' = v /\ star' = p /\ starV' = v
        /\ result' = result /\ result = "none" /\ v < Len(val)
        /\ p < Len(pat) /\ pat[p + 1] = "*"
    BY <1>2 DEF OpenStar, InLoop, AtStar
  <2>2. \A n \in star' + 2 .. p' : pat'[n] # "*"
    BY <1>T, <2>1
  <2>3. ASSUME NEW m \in v .. Len(val), MatchFrom(p, m) PROVE Ahead'
    <3>1. m \in 0 .. Len(val)
      BY <1>T
    <3>2. PICK k \in m .. Len(val) : MatchFrom(p + 1, k)
      BY <1>T, <2>1, <2>3, <3>1, StepOn, Zenon
    <3>3. CASE k = v
      <4>1. Spans(pat', val', p', v', Len(pat'), Len(val'))
        BY <1>V, <2>1, <3>2, <3>3, Zenon DEF MatchFrom
      <4> QED BY <4>1, Zenon DEF Ahead, MatchFrom
    <3>4. CASE k # v
      <4>1. k \in starV' + 1 .. Len(val') /\ star' >= 0
        BY <1>T, <1>V, <2>1, <3>4
      <4>2. Spans(pat', val', star' + 1, k, Len(pat'), Len(val'))
        BY <1>V, <2>1, <3>2, Zenon DEF MatchFrom
      <4> QED BY <4>1, <4>2, Zenon DEF Ahead, MatchFrom
    <3> QED BY <3>3, <3>4
  <2>4. ASSUME Match(pat, val) PROVE Ahead'
    <3>1. Ahead
      BY <1>C, <2>1, <2>4
    <3>2. CASE MatchFrom(p, v)
      <4>1. v \in v .. Len(val)
        BY <1>T
      <4> QED BY <2>3, <3>2, <4>1, Zenon
    <3>3. CASE star >= 0 /\ \E k \in starV + 1 .. Len(val) : MatchFrom(star + 1, k)
      <4>1. PICK m \in v + 1 .. Len(val) : MatchFrom(p, m)
        BY <1>C, <3>3, Onward, Zenon
      <4>2. m \in v .. Len(val)
        BY <1>T
      <4> QED BY <2>3, <4>1, <4>2, Zenon
    <3> QED BY <3>1, <3>2, <3>3, Zenon DEF Ahead
  <2> QED BY <1>V, <2>1, <2>2, <2>4
<1>3. CASE Backtrack
  <2>1. /\ p' = star + 1 /\ v' = starV + 1 /\ star' = star
        /\ starV' = starV + 1 /\ result' = result /\ result = "none" /\ star >= 0
    BY <1>3 DEF Backtrack, InLoop
  <2>2. \A n \in star' + 2 .. p' : pat'[n] # "*"
    BY <1>T, <2>1
  <2>3. ASSUME Match(pat, val) PROVE Ahead'
    <3>1. ~MatchFrom(p, v)
      BY <1>3, <1>T, Stuck, Zenon DEF Backtrack
    <3>2. PICK k \in starV + 1 .. Len(val) : MatchFrom(star + 1, k)
      BY <1>C, <2>1, <2>3, <3>1, Zenon DEF Ahead
    <3>3. CASE k = starV + 1
      <4>1. Spans(pat', val', p', v', Len(pat'), Len(val'))
        BY <1>V, <2>1, <3>2, <3>3, Zenon DEF MatchFrom
      <4> QED BY <4>1, Zenon DEF Ahead, MatchFrom
    <3>4. CASE k # starV + 1
      <4>1. k \in starV' + 1 .. Len(val') /\ star' >= 0
        BY <1>T, <1>V, <2>1, <3>4
      <4>2. Spans(pat', val', star' + 1, k, Len(pat'), Len(val'))
        BY <1>V, <2>1, <3>2, Zenon DEF MatchFrom
      <4> QED BY <4>1, <4>2, Zenon DEF Ahead, MatchFrom
    <3> QED BY <3>3, <3>4
  <2> QED BY <1>V, <2>1, <2>2, <2>3
<1>4. CASE Mismatch
  <2>1. /\ UNCHANGED <<pat, val, p, v, star, starV>> /\ result' = "false" /\ result = "none" /\ star < 0
    BY <1>4 DEF Mismatch, InLoop
  <2>2. ~MatchFrom(p, v)
    BY <1>4, <1>T, Stuck, Zenon DEF Mismatch
  <2>3. ~Ahead
    BY <1>T, <2>1, <2>2 DEF Ahead
  <2> QED BY <1>C, <2>1, <2>3
<1>5. CASE Finish
  <2>1. /\ UNCHANGED <<pat, val, p, v, star, starV>> /\ v = Len(val) /\ result = "none"
        /\ result' = IF \A h \in p + 1 .. Len(pat) : pat[h] = "*" THEN "true" ELSE "false"
    BY <1>5, <1>T DEF Finish
  <2>2. ASSUME result' = "false" PROVE ~Ahead
    <3>1. ~(\A h \in p + 1 .. Len(pat) : pat[h] = "*")
      BY <2>1, <2>2
    <3>2. ~MatchFrom(p, v)
      <4>1. Spans(pat, val, p, v, Len(pat), v) <=> \A n \in p + 1 .. Len(pat) : pat[n] = "*"
        BY <1>T, OnlyStars, Zenon
      <4> QED BY <2>1, <3>1, <4>1, Zenon DEF MatchFrom
    <3>3. ASSUME star >= 0, NEW k \in starV + 1 .. Len(val), MatchFrom(star + 1, k) PROVE FALSE
      <4>1. \E m \in v + 1 .. Len(val) : MatchFrom(p, m)
        BY <1>C, <3>3, Onward, Zenon
      <4> QED BY <1>T, <2>1, <4>1
    <3> QED BY <3>2, <3>3, Zenon DEF Ahead
  <2>3. result' # "none"
    BY <2>1
  <2> QED BY <1>C, <2>1, <2>2, <2>3
<1>6. CASE UNCHANGED globVars
  BY <1>C, <1>6, Zenon DEF globVars, Ahead, MatchFrom
<1> QED BY <1>1, <1>2, <1>3, <1>4, <1>5, <1>6 DEF GlobNext

\* The two cursors and the last star of matchRunes hold what is known of the match.
THEOREM GlobInductive == GlobSpec => []GInv
<1>1. GInv /\ [GlobNext]_globVars => GInv'
  BY SoundStep, CompleteStep, Zenon DEF GInv
<1> QED BY InitGInv, <1>1, PTL DEF GlobSpec

\* The matcher never reads its pattern or its value out of range.
THEOREM GlobTypeCorrect == GlobSpec => []GlobTypeOK
<1>1. GInv => GlobTypeOK
  BY Zenon DEF GInv, Sound
<1> QED BY GlobInductive, <1>1, PTL

\* matchRunes says yes only to values that the pattern stands for, whatever the
\* two hold.
THEOREM YesIsRight == GlobSpec => []NeverOvermatches
<1>1. GInv => NeverOvermatches
  BY Zenon DEF GInv, Sound
<1> QED BY GlobInductive, <1>1, PTL

\* For values without a "*" matchRunes returns what the comment of Match says.
THEOREM MatchesPlain == GlobSpec => []PlainMatched
<1>1. GInv => PlainMatched
  <2> SUFFICES ASSUME GInv, Plain, result # "none" PROVE (result = "true") = Match(pat, val)
    BY DEF PlainMatched, MatchesAsDocumented
  <2>1. result \in {"true", "false"}
    BY DEF GInv, Sound, GlobTypeOK
  <2>2. result = "true" => Match(pat, val)
    BY Zenon DEF GInv, Sound, NeverOvermatches
  <2>3. result = "false" => ~Match(pat, val)
    BY Zenon DEF GInv, Complete
  <2>4. Match(pat, val) \in BOOLEAN
    BY Zenon DEF Match, Spans
  <2>5. CASE result = "true"
    BY <2>2, <2>4, <2>5, Zenon
  <2>6. CASE result = "false"
    <3>1. result # "true"
      BY <2>6
    <3> QED BY <2>3, <2>4, <2>6, <3>1, Zenon
  <2> QED BY <2>1, <2>5, <2>6
<1> QED BY GlobInductive, <1>1, PTL

\* Going back to the last star alone loses no match.
THEOREM LastStarOnly == GlobSpec => []LastStarSuffices
<1>1. GInv => LastStarSuffices
  <2> SUFFICES ASSUME GInv, Plain, result = "none" PROVE Match(pat, val) = Ahead
    BY Zenon DEF LastStarSuffices, Ahead
  <2>T. /\ Len(pat) \in Nat /\ Len(val) \in Nat /\ p \in Nat /\ v \in Nat /\ p <= Len(pat)
        /\ star \in Int /\ star < p /\ starV \in Nat
    BY Lengths, Zenon DEF GInv, Sound
  <2>1. Match(pat, val) => Ahead
    BY Zenon DEF GInv, Complete
  <2>2. ASSUME MatchFrom(p, v) PROVE Match(pat, val)
    <3>1. Spans(pat, val, 0, 0, p, v)
      BY Zenon DEF GInv, Sound
    <3> QED BY <2>T, <2>2, <3>1, Join DEF MatchFrom, Match
  <2>3. ASSUME star >= 0, NEW k \in starV + 1 .. Len(val), MatchFrom(star + 1, k) PROVE Match(pat, val)
    <3>1. pat[star + 1] = "*" /\ Spans(pat, val, 0, 0, star + 1, starV)
      BY <2>3, Zenon DEF GInv, Sound
    <3>2. star \in Nat /\ star + 1 \in Nat /\ k \in Nat /\ starV <= k /\ star + 1 <= Len(pat) /\ 0 <= star + 1
      BY <2>T, <2>3
    <3>3. Spans(pat, val, 0, 0, star + 1, k)
      BY <2>T, <3>1, <3>2, StarMore, Zenon
    <3> QED BY <2>T, <2>3, <3>2, <3>3, Join DEF MatchFrom, Match
  <2>4. Match(pat, val) <=> Ahead
    BY <2>1, <2>2, <2>3, Zenon DEF Ahead
  <2>5. Match(pat, val) \in BOOLEAN /\ Ahead \in BOOLEAN
    BY Zenon DEF Match, Spans, Ahead, MatchFrom
  <2> QED BY <2>4, <2>5
<1> QED BY GlobInductive, <1>1, PTL

\* Every iteration of matchRunes gets further.
THEOREM GetsFurther == GlobSpec => Progresses
<1>1. GInv /\ [GlobNext]_globVars =>
        [\/ result' # "none"
         \/ star' > star
         \/ star' = star /\ starV' > starV
         \/ star' = star /\ starV' = starV /\ v' > v]_globVars
  <2> SUFFICES ASSUME GInv, GlobNext
               PROVE  \/ result' # "none"
                      \/ star' > star
                      \/ star' = star /\ starV' > starV
                      \/ star' = star /\ starV' = starV /\ v' > v
    OBVIOUS
  <2>1. star \in Int /\ starV \in Nat /\ v \in Nat /\ p \in Nat /\ star < p
    BY Lengths, Zenon DEF GInv, Sound
  <2>2. CASE MatchOne
    BY <2>1, <2>2 DEF MatchOne
  <2>3. CASE OpenStar
    BY <2>1, <2>3 DEF OpenStar
  <2>4. CASE Backtrack
    BY <2>1, <2>4 DEF Backtrack
  <2>5. CASE Mismatch
    BY <2>5 DEF Mismatch
  <2>6. CASE Finish
    BY <2>6 DEF Finish
  <2> QED BY <2>2, <2>3, <2>4, <2>5, <2>6 DEF GlobNext
<1> QED BY GlobInductive, <1>1, PTL DEF GlobSpec, Progresses
=============================================================================
