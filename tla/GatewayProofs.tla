--------------------------- MODULE GatewayProofs ---------------------------
(***************************************************************************)
(* Proofs about Gateway for any requests, keys and buckets.  The invariant *)
(* says, for each stage of a request, what it has established so far.      *)
(***************************************************************************)
EXTENDS Gateway, TLAPS

Hooks == {"authorizer", "before", "run", "wait", "write", "after"}

\* The store's records are among those seen since the request arrived.
Tracked(p) ==
    pc[p] # "idle" =>
        /\ \A id \in Ids : keys[id] \in seenKeys[p]
        /\ \A n \in Names : buckets[n] \in seenBuckets[p]

\* The key record a request past verification holds.
Verified(p) == vr[p] \in seenKeys[p] \ {NoKey} /\ vr[p].secret = req[p].secret

Target(p) == req[p].kind = "op" => bkt[p] \in seenBuckets[p] \ {NoBucket}

Source(p) == req[p].kind = "op" /\ req[p].src # "none" => src[p] \in seenBuckets[p] \ {NoBucket}

Stages(p) ==
    /\ pc[p] \in {"resolve", "byName", "dispatch", "copy"} \cup Hooks => Verified(p)
    /\ pc[p] \in {"dispatch", "copy"} \cup Hooks => Target(p)
    /\ pc[p] = "copy" => Permitted(p) /\ req[p].src # "none"
    /\ pc[p] \in Hooks => Source(p) /\ Authorized(p) /\ op[p] = "set"
    /\ call[p] = "run" => Verified(p) /\ Target(p) /\ Source(p) /\ Authorized(p) /\ op[p] = "set"
    /\ call[p] = "run" => pc[p] \in {"wait", "write", "after", "report", "recover", "done"}

\* The bookkeeping of the answer.
Answers(p) ==
    /\ pc[p] # "done" => rec[p].calls = 0 /\ sw[p] # "errdoc" /\ rec[p].code = "empty"
    /\ pc[p] = "done" =>
         /\ rec[p].calls = (IF fault[p] = "abort" THEN 0 ELSE 1)
         /\ rec[p].code = "set" <=> client[p] = "errdoc"
         /\ fault[p] = "panic" => /\ client[p] \in {"errdoc", "broken"}
                                  /\ client[p] = "errdoc" <=> sw[p] = "errdoc"
    /\ pc[p] \in Handling \cup {"report"} => fault[p] = "none"
    /\ pc[p] = "recover" => fault[p] # "none"
    /\ pc[p] = "idle" => fault[p] = "none"
    /\ pc[p] = "report" => ret[p] # "none"

\* The rules of record b, which the request may see, let the response name the
\* origin it does.
Visible(p, b) ==
    req[p].kind # "preflight" =>
        /\ Verified(p)
        /\ b.tenant = vr[p].tenant \/ MentionsPrincipal(b.policy, Principal(vr[p]))

Shared(p) == \E b \in seenBuckets[p] \ {NoBucket} : LetsBrowser(b, req[p], cors[p]) /\ Visible(p, b)

\* CORS headers are set by the step that resolves the bucket, or answers the
\* preflight, and stay as they are.
Decorated(p) ==
    /\ pc[p] \in {"idle", "handle", "resolve", "byName"} => cors[p] = "none"
    /\ pc[p] \in {"resolve", "byName"} => req[p].kind # "preflight"
    /\ cors[p] # "none" => Shared(p)

IInv == TypeOK /\ \A p \in Procs : Tracked(p) /\ Stages(p) /\ Answers(p) /\ Decorated(p)

LEMMA InitIInv == Init => IInv
<1> SUFFICES ASSUME Init PROVE IInv
  OBVIOUS
<1>1. TypeOK
  BY GatewayAssumption DEF Init, TypeOK, Handling, Begun
<1>2. \A p \in Procs : Tracked(p) /\ Stages(p) /\ Answers(p) /\ Decorated(p)
  BY Zenon DEF Init, Tracked, Stages, Answers, Decorated, Hooks, Handling
<1> QED BY Zenon, <1>1, <1>2 DEF IInv

-----------------------------------------------------------------------------
(* Type correctness of each step. *)

LEMMA EndedErrdoc == \A s : Ended(s) = "errdoc" <=> s = "errdoc"
  BY Zenon DEF Ended

LEMMA KnownTarget ==
  ASSUME TypeOK, NEW p \in Procs
  PROVE  /\ req[p] \in Request /\ req[p].id \in Ids /\ req[p].bucket \in Names
         /\ req[p].src # "none" => req[p].src \in Names
         /\ keys[req[p].id] \in Key \cup {NoKey}
         /\ buckets[req[p].bucket] \in Bucket \cup {NoBucket}
  BY DEF TypeOK, Ids, Names

LEMMA NamingType ==
  ASSUME NEW rules, NEW q
  PROVE  /\ AllowPreflight(rules, q) \in {"none", "*", q.origin}
         /\ SetHeaders(rules, q) \in {"none", "*", q.origin}
  BY Zenon DEF AllowPreflight, SetHeaders, Naming, setAllowOrigin

LEMMA TypeNext == IInv /\ [Next]_vars => TypeOK'
<1> SUFFICES ASSUME IInv, [Next]_vars PROVE TypeOK'
  OBVIOUS
<1>t. TypeOK
  BY Zenon DEF IInv
<1>1. ASSUME NEW id \in Ids, NEW k \in Key \cup {NoKey}, ChangeKey(id, k) PROVE TypeOK'
  BY <1>1, <1>t, GatewayAssumption DEF ChangeKey, TypeOK, reqVars
<1>2. ASSUME NEW n \in Names, NEW b \in Bucket \cup {NoBucket}, ChangeBucket(n, b) PROVE TypeOK'
  BY <1>2, <1>t, GatewayAssumption DEF ChangeBucket, TypeOK, reqVars
<1>3. ASSUME NEW p \in Procs, Arrive(p) PROVE TypeOK'
  BY <1>3, <1>t DEF Arrive, TypeOK, Goto, storeVars, Handling
<1>4. ASSUME NEW p \in Procs, Refuse(p) PROVE TypeOK'
  BY Zenon, <1>4, <1>t DEF Refuse, TypeOK, Goto, Return, Quiet, Unmoved, storeVars
<1>5. ASSUME NEW p \in Procs, handlePreflight(p) PROVE TypeOK'
  <2>1. cors' \in [Procs -> {"none", "*"} \cup Origins]
    BY <1>5, <1>t, NamingType DEF handlePreflight, TypeOK, Origins
  <2> QED BY Zenon, <1>5, <1>t, <2>1 DEF handlePreflight, TypeOK, Goto, Return, Quiet, Unmoved, storeVars, Begun
<1>6. ASSUME NEW p \in Procs, verifyRequest(p) PROVE TypeOK'
  BY Zenon, <1>6, <1>t, KnownTarget DEF verifyRequest, TypeOK, Goto, Quiet, Unmoved, storeVars, Handling
<1>7. ASSUME NEW p \in Procs, NEW b \in Bucket \cup {NoBucket}, Resolved(p, b) PROVE TypeOK'
  <2>1. cors' \in [Procs -> {"none", "*"} \cup Origins]
    BY <1>7, <1>t, NamingType DEF Resolved, TypeOK, Origins
  <2> QED BY Zenon, <1>7, <1>t, <2>1 DEF Resolved, TypeOK, Goto, Quiet, Unmoved, storeVars, Handling
<1>8. ASSUME NEW p \in Procs, ResolveOwn(p) PROVE TypeOK'
  BY Zenon, <1>7, <1>8, <1>t, KnownTarget DEF ResolveOwn, GetBucket
<1>9. ASSUME NEW p \in Procs, NotOwn(p) PROVE TypeOK'
  BY Zenon, <1>9, <1>t DEF NotOwn, TypeOK, Goto, Quiet, Unmoved, storeVars, Handling
<1>10. ASSUME NEW p \in Procs, ResolveByName(p) PROVE TypeOK'
  BY Zenon, <1>7, <1>10, <1>t, KnownTarget DEF ResolveByName, GetBucketByName
<1>11. ASSUME NEW p \in Procs, dispatch(p) PROVE TypeOK'
  BY Zenon, <1>11, <1>t DEF dispatch, TypeOK, Goto, Quiet, Unmoved, storeVars, Handling
<1>12. ASSUME NEW p \in Procs, resolveCopySource(p) PROVE TypeOK'
  <2>1. GetBucket(vr[p].tenant, req[p].src) \in Bucket \cup {NoBucket}
    BY <1>12, <1>t, KnownTarget DEF resolveCopySource, CopySource, GetBucket, IInv, Stages, TypeOK
  <2> QED BY <1>12, <1>t, <2>1, SMTT(30)
          DEF resolveCopySource, CopySource, TypeOK, Goto, Quiet, Unmoved, storeVars, Handling
<1>13. ASSUME NEW p \in Procs, Proceed(p) PROVE TypeOK'
  BY Zenon, <1>13, <1>t DEF Proceed, TypeOK, Goto, Quiet, Unmoved, storeVars, Handling
<1>14. ASSUME NEW p \in Procs, Swallow(p) PROVE TypeOK'
  BY Zenon, <1>14, <1>t DEF Swallow, TypeOK, Goto, Return, Quiet, Unmoved, storeVars
<1>15. ASSUME NEW p \in Procs, HandlerFails(p) PROVE TypeOK'
  BY Zenon, <1>15, <1>t DEF HandlerFails, HandlerReturns, TypeOK, Goto, Quiet, Unmoved, storeVars, Handling
<1>16. ASSUME NEW p \in Procs, Run(p) PROVE TypeOK'
  BY Zenon, <1>16, <1>t DEF Run, TypeOK, Goto, Quiet, Unmoved, storeVars, Handling
<1>17. ASSUME NEW p \in Procs, Answer(p) PROVE TypeOK'
  BY <1>17, <1>t DEF Answer, TypeOK, Goto, Quiet, Unmoved, storeVars, Handling, Begun
<1>18. ASSUME NEW p \in Procs, Write(p) PROVE TypeOK'
  BY <1>18, <1>t DEF Write, HandlerReturns, TypeOK, Goto, Quiet, Unmoved, storeVars, Handling, Begun
<1>19. ASSUME NEW p \in Procs, InterceptAfter(p) PROVE TypeOK'
  BY <1>19, <1>t DEF InterceptAfter, TypeOK, Goto, Return, Quiet, Unmoved, storeVars
<1>20. ASSUME NEW p \in Procs, Panic(p) PROVE TypeOK'
  BY <1>20, <1>t DEF Panic, TypeOK, Goto, storeVars
<1>21. ASSUME NEW p \in Procs, NEW e \in {"nil", "error"}, pc[p] # "done",
              report(p, e), NEW c \in Begun \cup {"empty", "errdoc", "broken", "truncated"},
              client' = [client EXCEPT ![p] = c], Goto(p, "done"), Untouched
       PROVE TypeOK'
  <2>1. rec[p].calls = 0
    BY Zenon, <1>21 DEF IInv, Answers
  <2>2. rec' \in [Procs -> [calls : 0 .. 1, code : {"empty", "set"}]]
    BY <1>21, <1>t, <2>1 DEF report, TypeOK
  <2>3. sw' \in [Procs -> Begun \cup {"none", "errdoc"}]
    BY Zenon, <1>21, <1>t DEF report, TypeOK
  <2> QED BY Zenon, <1>21, <1>t, <2>2, <2>3 DEF TypeOK, Goto, Untouched, storeVars
<1>22. ASSUME NEW p \in Procs, Report(p) PROVE TypeOK'
  <2>1. ret[p] \in {"nil", "error"}
    BY <1>22, <1>t DEF Report, IInv, Answers, TypeOK
  <2>2. sw'[p] \in Begun \cup {"none", "errdoc"}
    BY Zenon, <1>22, <1>t DEF Report, report, TypeOK
  <2>3. Ended(sw'[p]) \in Begun \cup {"empty", "errdoc", "broken", "truncated"}
    BY Zenon, <2>2 DEF Ended, Begun
  <2> QED BY ZenonT(40), <1>21, <1>22, <2>1, <2>3 DEF Report
<1>23. ASSUME NEW p \in Procs, Abort(p) PROVE TypeOK'
  BY Zenon, <1>23, <1>t DEF Abort, TypeOK, Goto, Untouched, storeVars
<1>24. ASSUME NEW p \in Procs, Recover(p) PROVE TypeOK'
  <2>2. sw'[p] \in Begun \cup {"none", "errdoc"}
    BY Zenon, <1>24, <1>t DEF Recover, report, TypeOK
  <2>3. Ended(sw'[p]) \in Begun \cup {"empty", "errdoc", "broken", "truncated"}
    BY Zenon, <2>2 DEF Ended, Begun
  <2> QED BY ZenonT(40), <1>21, <1>24, <2>3 DEF Recover
<1>25. ASSUME UNCHANGED vars PROVE TypeOK'
  BY Zenon, <1>25, <1>t DEF vars, storeVars, reqVars, TypeOK
<1> QED BY Zenon, <1>1, <1>2, <1>3, <1>4, <1>5, <1>6, <1>8, <1>9, <1>10, <1>11, <1>12, <1>13, <1>14,
           <1>15, <1>16, <1>17, <1>18, <1>19, <1>20, <1>22, <1>23, <1>24, <1>25 DEF Next, Serve

-----------------------------------------------------------------------------
(* What a request has established is its own: other requests leave it      *)
(* alone, and the store only adds to the records seen.                     *)

Same(q) ==
    /\ pc'[q] = pc[q] /\ req'[q] = req[q] /\ vr'[q] = vr[q] /\ bkt'[q] = bkt[q]
    /\ src'[q] = src[q] /\ ret'[q] = ret[q] /\ fault'[q] = fault[q] /\ op'[q] = op[q]
    /\ call'[q] = call[q] /\ sw'[q] = sw[q] /\ cors'[q] = cors[q]
    /\ client'[q] = client[q] /\ rec'[q] = rec[q]

LEMMA PermittedStable ==
  ASSUME NEW q \in Procs, req'[q] = req[q], vr'[q] = vr[q], bkt'[q] = bkt[q]
  PROVE  Permitted(q)' <=> Permitted(q)
  BY Zenon DEF Permitted, authorizeRoute, Requester

LEMMA AuthorizedStable ==
  ASSUME NEW q \in Procs, req'[q] = req[q], vr'[q] = vr[q], bkt'[q] = bkt[q], src'[q] = src[q]
  PROVE  Authorized(q)' <=> Authorized(q)
  BY Zenon DEF Authorized, Requester

LEMMA HeldStable ==
  ASSUME NEW q \in Procs, req'[q] = req[q], vr'[q] = vr[q], bkt'[q] = bkt[q], src'[q] = src[q],
         seenKeys[q] \subseteq seenKeys'[q], seenBuckets[q] \subseteq seenBuckets'[q]
  PROVE  /\ Verified(q) => Verified(q)'
         /\ Target(q) => Target(q)'
         /\ Source(q) => Source(q)'
  BY Zenon DEF Verified, Target, Source

LEMMA SharedStable ==
  ASSUME NEW q \in Procs, req'[q] = req[q], vr'[q] = vr[q], cors'[q] = cors[q], Shared(q),
         seenKeys[q] \subseteq seenKeys'[q], seenBuckets[q] \subseteq seenBuckets'[q]
  PROVE  Shared(q)'
<1>1. PICK b \in seenBuckets[q] \ {NoBucket} : LetsBrowser(b, req[q], cors[q]) /\ Visible(q, b)
  BY Zenon DEF Shared
<1>2. Visible(q, b)'
  BY Zenon, <1>1 DEF Visible, Verified
<1>3. LetsBrowser(b, req'[q], cors'[q])
  BY Zenon, <1>1
<1> QED BY Zenon, <1>1, <1>2, <1>3 DEF Shared

LEMMA SameKeeps ==
  ASSUME NEW q \in Procs, Same(q), Stages(q), Answers(q), Decorated(q),
         seenKeys[q] \subseteq seenKeys'[q], seenBuckets[q] \subseteq seenBuckets'[q]
  PROVE  Stages(q)' /\ Answers(q)' /\ Decorated(q)'
<1>1. Stages(q)'
  BY Zenon, PermittedStable, AuthorizedStable, HeldStable DEF Same, Stages
<1>2. Answers(q)'
  BY Zenon DEF Same, Answers
<1>3. Decorated(q)'
  BY Zenon, SharedStable DEF Same, Decorated
<1> QED BY Zenon, <1>1, <1>2, <1>3

LEMMA TrackedNext == IInv /\ [Next]_vars => \A q \in Procs : Tracked(q)'
<1> SUFFICES ASSUME IInv, [Next]_vars, NEW q \in Procs PROVE Tracked(q)'
  OBVIOUS
<1>0. TypeOK /\ Tracked(q)
  BY Zenon DEF IInv
<1>1. ASSUME NEW id \in Ids, NEW k \in Key \cup {NoKey}, ChangeKey(id, k) PROVE Tracked(q)'
  BY Zenon, <1>0, <1>1 DEF ChangeKey, Tracked, TypeOK, reqVars
<1>2. ASSUME NEW n \in Names, NEW b \in Bucket \cup {NoBucket}, ChangeBucket(n, b) PROVE Tracked(q)'
  BY ZenonT(20), <1>0, <1>2 DEF ChangeBucket, Tracked, TypeOK, reqVars
<1>3. ASSUME NEW p \in Procs, Arrive(p) PROVE Tracked(q)'
  BY <1>0, <1>3 DEF Arrive, Goto, Tracked, TypeOK, storeVars
<1>4. ASSUME UNCHANGED <<keys, buckets, seenKeys, seenBuckets>>, NEW p \in Procs, pc[p] # "idle",
             NEW l, Goto(p, l)
      PROVE  Tracked(q)'
  BY ZenonT(20), <1>0, <1>4 DEF Goto, Tracked, TypeOK
<1>5. ASSUME NEW p \in Procs, Serve(p) PROVE Tracked(q)'
  <2>1. UNCHANGED <<keys, buckets, seenKeys, seenBuckets>>
    BY <1>5, Zenon DEF Serve, Refuse, handlePreflight, verifyRequest, ResolveOwn, NotOwn, ResolveByName,
       Resolved, dispatch, resolveCopySource, CopySource, Proceed, Swallow, HandlerFails,
       HandlerReturns, Run, Answer, Write, InterceptAfter, Panic, Report, Abort, Recover,
       Quiet, Unmoved, Untouched, storeVars
  <2>2. pc[p] # "idle"
    BY <1>5, SMTT(30) DEF Serve, Refuse, handlePreflight, verifyRequest, ResolveOwn, NotOwn, ResolveByName,
       dispatch, resolveCopySource, CopySource, Proceed, Swallow, HandlerFails, Run, Answer,
       Write, InterceptAfter, Panic, Handling, Report, Abort, Recover
  <2>3. \E l : Goto(p, l)
    BY Zenon, <1>5 DEF Serve, Refuse, handlePreflight, verifyRequest, ResolveOwn, NotOwn, ResolveByName,
       Resolved, dispatch, resolveCopySource, CopySource, Proceed, Swallow, HandlerFails,
       HandlerReturns, Run, Answer, Write, InterceptAfter, Panic, Report, Abort, Recover, Return
  <2> QED BY Zenon, <1>4, <2>1, <2>2, <2>3
<1>6. ASSUME UNCHANGED vars PROVE Tracked(q)'
  BY Zenon, <1>0, <1>6 DEF vars, storeVars, reqVars, Tracked
<1> QED BY Zenon, <1>1, <1>2, <1>3, <1>5, <1>6 DEF Next

LEMMA OthersSame ==
  ASSUME IInv, NEW p \in Procs, Arrive(p) \/ Serve(p), NEW q \in Procs, q # p
  PROVE  Same(q) /\ seenKeys'[q] = seenKeys[q] /\ seenBuckets'[q] = seenBuckets[q]
<1>0. TypeOK
  BY Zenon DEF IInv
<1>1. CASE Arrive(p)
  BY <1>0, <1>1 DEF Arrive, Goto, Same, TypeOK
<1>2. CASE Refuse(p)
  BY ZenonT(20), <1>0, <1>2 DEF Refuse, Return, Goto, Quiet, Unmoved, Same, TypeOK
<1>3. CASE handlePreflight(p)
  BY <1>0, <1>3 DEF handlePreflight, Return, Goto, Quiet, Unmoved, Same, TypeOK
<1>4. CASE verifyRequest(p)
  BY <1>0, <1>4 DEF verifyRequest, Goto, Quiet, Unmoved, Same, TypeOK
<1>5. CASE ResolveOwn(p)
  BY <1>0, <1>5 DEF ResolveOwn, Resolved, Goto, Quiet, Unmoved, Same, TypeOK
<1>6. CASE NotOwn(p)
  BY ZenonT(20), <1>0, <1>6 DEF NotOwn, Goto, Quiet, Unmoved, Same, TypeOK
<1>7. CASE ResolveByName(p)
  BY <1>0, <1>7 DEF ResolveByName, Resolved, Goto, Quiet, Unmoved, Same, TypeOK
<1>8. CASE dispatch(p)
  BY <1>0, <1>8 DEF dispatch, Goto, Quiet, Unmoved, Same, TypeOK
<1>9. CASE resolveCopySource(p)
  BY <1>0, <1>9 DEF resolveCopySource, CopySource, Goto, Quiet, Unmoved, Same, TypeOK
<1>10. CASE Proceed(p)
  BY Zenon, <1>0, <1>10 DEF Proceed, Goto, Quiet, Unmoved, Same, TypeOK
<1>11. CASE Swallow(p)
  BY <1>0, <1>11 DEF Swallow, Return, Goto, Quiet, Unmoved, Same, TypeOK
<1>12. CASE HandlerFails(p)
  BY ZenonT(20), <1>0, <1>12 DEF HandlerFails, HandlerReturns, Goto, Quiet, Unmoved, Same, TypeOK
<1>13. CASE Run(p)
  BY <1>0, <1>13 DEF Run, Goto, Quiet, Unmoved, Same, TypeOK
<1>14. CASE Answer(p)
  BY <1>0, <1>14 DEF Answer, Goto, Quiet, Unmoved, Same, TypeOK
<1>15. CASE Write(p)
  BY <1>0, <1>15 DEF Write, HandlerReturns, Goto, Quiet, Unmoved, Same, TypeOK
<1>16. CASE InterceptAfter(p)
  BY <1>0, <1>16 DEF InterceptAfter, Return, Goto, Quiet, Unmoved, Same, TypeOK
<1>17. CASE Panic(p)
  BY <1>0, <1>17 DEF Panic, Goto, Same, TypeOK
<1>18. CASE Report(p)
  BY <1>0, <1>18 DEF Report, report, Goto, Untouched, Same, TypeOK
<1>19. CASE Abort(p)
  BY ZenonT(20), <1>0, <1>19 DEF Abort, Goto, Untouched, Same, TypeOK
<1>20. CASE Recover(p)
  BY <1>0, <1>20 DEF Recover, report, Goto, Untouched, Same, TypeOK
<1> QED BY Zenon, <1>1, <1>2, <1>3, <1>4, <1>5, <1>6, <1>7, <1>8, <1>9, <1>10, <1>11, <1>12, <1>13,
           <1>14, <1>15, <1>16, <1>17, <1>18, <1>19, <1>20, Zenon DEF Serve

-----------------------------------------------------------------------------
(* The stages of the request that takes the step. *)

LEMMA StagesNext ==
  ASSUME IInv, NEW p \in Procs, Arrive(p) \/ Serve(p)
  PROVE  Stages(p)'
<1>0. TypeOK /\ Tracked(p) /\ Stages(p)
  BY Zenon DEF IInv
<1>1. CASE Arrive(p)
  BY Zenon, <1>0, <1>1 DEF Arrive, Goto, Stages, TypeOK, Hooks
<1>2. ASSUME UNCHANGED <<req, vr, bkt, src, seenKeys, seenBuckets>>
      PROVE  /\ Permitted(p)' <=> Permitted(p)
             /\ Authorized(p)' <=> Authorized(p)
             /\ Verified(p) => Verified(p)'
             /\ Target(p) => Target(p)'
             /\ Source(p) => Source(p)'
  BY <1>2, PermittedStable, AuthorizedStable, HeldStable, Zenon
<1>3. CASE verifyRequest(p)
  <2>1. keys[req[p].id] \in seenKeys[p]
    BY <1>0, <1>3, KnownTarget, ZenonT(40) DEF verifyRequest, Tracked
  <2>2. Verified(p)'
    BY <1>0, <1>3, <2>1, ZenonT(40) DEF verifyRequest, Verified, TypeOK, Quiet, Unmoved
  <2>3. call'[p] # "run" /\ pc'[p] \in {"dispatch", "resolve"}
    BY <1>0, <1>3, SMTT(30) DEF verifyRequest, Goto, Stages, TypeOK
  <2>4. pc'[p] = "dispatch" => req'[p].kind = "list"
    BY Zenon, <1>0, <1>3 DEF verifyRequest, Goto, TypeOK, Quiet, Unmoved
  <2>5. pc'[p] = "dispatch" => Target(p)'
    BY Zenon, <2>4 DEF Target
  <2> QED BY <2>2, <2>3, <2>5, Zenon DEF Stages, Hooks
<1>4. ASSUME NEW b \in seenBuckets[p] \ {NoBucket}, pc[p] \in {"resolve", "byName"}, Resolved(p, b)
      PROVE  Stages(p)'
  <2>1. Verified(p)'
    BY <1>0, <1>4, ZenonT(40) DEF Resolved, Stages, Verified, Quiet, Unmoved
  <2>2. Target(p)'
    BY ZenonT(20), <1>0, <1>4 DEF Resolved, Target, TypeOK, Quiet, Unmoved
  <2>3. call'[p] # "run" /\ pc'[p] = "dispatch"
    BY <1>0, <1>4, SMTT(30) DEF Resolved, Goto, Stages, TypeOK
  <2> QED BY <2>1, <2>2, <2>3, Zenon DEF Stages, Hooks
<1>5. CASE ResolveOwn(p)
  BY Zenon, <1>0, <1>4, <1>5, KnownTarget DEF ResolveOwn, GetBucket, Tracked
<1>6. CASE ResolveByName(p)
  BY <1>0, <1>4, <1>6, KnownTarget, Zenon DEF ResolveByName, GetBucketByName, Tracked
<1>7. CASE dispatch(p)
  <2>1. /\ Permitted(p) /\ pc[p] = "dispatch" /\ call'[p] # "run"
        /\ UNCHANGED <<req, vr, bkt, src, seenKeys, seenBuckets>>
    BY Zenon, <1>0, <1>7 DEF dispatch, Stages, Quiet, Unmoved, TypeOK
  <2>2. /\ pc'[p] = IF req[p].src # "none" THEN "copy" ELSE "authorizer"
        /\ req[p].src = "none" => op'[p] = "set"
    BY <1>0, <1>7 DEF dispatch, Goto, TypeOK
  <2>3. Verified(p)' /\ Target(p)'
    BY <1>0, <1>2, <2>1, Zenon DEF Stages
  <2>4. req[p].src = "none" => Source(p)' /\ Authorized(p)'
    BY <1>2, <2>1, Zenon DEF Permitted, authorizeRoute, Authorized, Source
  <2> QED BY <1>2, <2>1, <2>2, <2>3, <2>4, ZenonT(40) DEF Stages, Hooks
<1>8. CASE resolveCopySource(p)
  <2> DEFINE b == GetBucket(vr[p].tenant, req[p].src)
  <2>1. /\ pc[p] = "copy" /\ Permitted(p) /\ req[p].src # "none" /\ call'[p] # "run"
        /\ b # NoBucket /\ b.backend = bkt[p].backend
        /\ authorize(Requester(p), b, req[p].srcAction, req[p].src) = Granted
        /\ UNCHANGED <<req, vr, bkt, seenKeys, seenBuckets>>
    BY <1>0, <1>8, ZenonT(40) DEF resolveCopySource, CopySource, Stages, Quiet, Unmoved
  <2>2. pc'[p] = "authorizer" /\ op'[p] = "set" /\ src'[p] = b
    BY <1>0, <1>8, SMTT(30) DEF resolveCopySource, CopySource, Goto, TypeOK
  <2>3. b \in seenBuckets[p] /\ b.tenant = vr[p].tenant
    BY <1>0, <2>1, KnownTarget, ZenonT(40) DEF GetBucket, Tracked
  <2>4. Verified(p)' /\ Target(p)'
    BY <1>0, <2>1, Zenon DEF Stages, Verified, Target
  <2>5. Source(p)'
    BY <2>1, <2>2, <2>3, ZenonT(40) DEF Source
  <2>6. Requester(p)' = Requester(p)
    BY <2>1, Zenon DEF Requester
  <2>7. Authorized(p)'
    BY <2>1, <2>2, <2>3, <2>6, Zenon DEF Authorized, Permitted, authorizeRoute
  <2> QED BY <2>1, <2>2, <2>4, <2>5, <2>7, ZenonT(40) DEF Stages, Hooks
<1>9. CASE Refuse(p)
  BY Zenon, <1>0, <1>2, <1>9 DEF Refuse, Return, Goto, Quiet, Unmoved, Stages, TypeOK, Hooks
<1>10. CASE handlePreflight(p)
  BY ZenonT(20), <1>0, <1>2, <1>10 DEF handlePreflight, Return, Goto, Quiet, Unmoved, Stages, TypeOK, Hooks
<1>11. CASE NotOwn(p)
  BY Zenon, <1>0, <1>2, <1>11 DEF NotOwn, Goto, Quiet, Unmoved, Stages, TypeOK, Hooks
<1>12. CASE Proceed(p)
  BY ZenonT(20), <1>0, <1>2, <1>12 DEF Proceed, Goto, Quiet, Unmoved, Stages, TypeOK, Hooks
<1>13. CASE Swallow(p)
  BY ZenonT(20), <1>0, <1>2, <1>13 DEF Swallow, Return, Goto, Quiet, Unmoved, Stages, TypeOK, Hooks
<1>14. CASE HandlerFails(p)
  BY Zenon, <1>0, <1>2, <1>14 DEF HandlerFails, HandlerReturns, Goto, Quiet, Unmoved, Stages, TypeOK, Hooks
<1>15. CASE Run(p)
  BY Zenon, <1>0, <1>2, <1>15 DEF Run, Goto, Quiet, Unmoved, Stages, TypeOK, Hooks
<1>16. CASE Answer(p)
  BY Zenon, <1>0, <1>2, <1>16 DEF Answer, Goto, Quiet, Unmoved, Stages, TypeOK, Hooks
<1>17. CASE Write(p)
  BY Zenon, <1>0, <1>2, <1>17 DEF Write, HandlerReturns, Goto, Quiet, Unmoved, Stages, TypeOK, Hooks
<1>18. CASE InterceptAfter(p)
  BY <1>0, <1>2, <1>18 DEF InterceptAfter, Return, Goto, Quiet, Unmoved, Stages, TypeOK, Hooks
<1>19. CASE Panic(p)
  BY Zenon, <1>0, <1>2, <1>19 DEF Panic, Goto, Stages, TypeOK, Hooks
<1>20. CASE Report(p)
  BY Zenon, <1>0, <1>2, <1>20 DEF Report, Goto, Untouched, Stages, TypeOK, Hooks
<1>21. CASE Abort(p)
  BY Zenon, <1>0, <1>2, <1>21 DEF Abort, Goto, Untouched, Stages, TypeOK, Hooks
<1>22. CASE Recover(p)
  BY Zenon, <1>0, <1>2, <1>22 DEF Recover, Goto, Untouched, Stages, TypeOK, Hooks
<1> QED BY Zenon, <1>1, <1>3, <1>5, <1>6, <1>7, <1>8, <1>9, <1>10, <1>11, <1>12, <1>13, <1>14,
           <1>15, <1>16, <1>17, <1>18, <1>19, <1>20, <1>21, <1>22 DEF Serve

LEMMA AnswersNext ==
  ASSUME IInv, NEW p \in Procs, Arrive(p) \/ Serve(p)
  PROVE  Answers(p)'
<1>0. TypeOK /\ Answers(p)
  BY Zenon DEF IInv
<1>1. CASE Arrive(p)
  BY ZenonT(20), <1>0, <1>1 DEF Arrive, Goto, Answers, TypeOK, Handling
<1>2. CASE Refuse(p)
  BY <1>0, <1>2 DEF Refuse, Return, Goto, Quiet, Unmoved, Answers, TypeOK, Handling
<1>3. CASE handlePreflight(p)
  BY <1>0, <1>3, SMTT(30) DEF handlePreflight, Return, Goto, Quiet, Unmoved, Answers, TypeOK, Handling
<1>4. CASE verifyRequest(p)
  BY ZenonT(20), <1>0, <1>4 DEF verifyRequest, Goto, Quiet, Unmoved, Answers, TypeOK, Handling
<1>5. CASE ResolveOwn(p)
  BY Zenon, <1>0, <1>5 DEF ResolveOwn, Resolved, Goto, Quiet, Unmoved, Answers, TypeOK, Handling
<1>6. CASE NotOwn(p)
  BY Zenon, <1>0, <1>6 DEF NotOwn, Goto, Quiet, Unmoved, Answers, TypeOK, Handling
<1>7. CASE ResolveByName(p)
  BY Zenon, <1>0, <1>7 DEF ResolveByName, Resolved, Goto, Quiet, Unmoved, Answers, TypeOK, Handling
<1>8. CASE dispatch(p)
  BY ZenonT(20), <1>0, <1>8 DEF dispatch, Goto, Quiet, Unmoved, Answers, TypeOK, Handling
<1>9. CASE resolveCopySource(p)
  BY Zenon, <1>0, <1>9 DEF resolveCopySource, CopySource, Goto, Quiet, Unmoved, Answers, TypeOK, Handling
<1>10. CASE Proceed(p)
  BY ZenonT(20), <1>0, <1>10 DEF Proceed, Goto, Quiet, Unmoved, Answers, TypeOK, Handling
<1>11. CASE Swallow(p)
  BY <1>0, <1>11 DEF Swallow, Return, Goto, Quiet, Unmoved, Answers, TypeOK, Handling
<1>12. CASE HandlerFails(p)
  BY Zenon, <1>0, <1>12 DEF HandlerFails, HandlerReturns, Goto, Quiet, Unmoved, Answers, TypeOK, Handling
<1>13. CASE Run(p)
  BY ZenonT(20), <1>0, <1>13 DEF Run, Goto, Quiet, Unmoved, Answers, TypeOK, Handling
<1>14. CASE Answer(p)
  BY <1>0, <1>14 DEF Answer, Goto, Quiet, Unmoved, Answers, TypeOK, Handling
<1>15. CASE Write(p)
  BY <1>0, <1>15 DEF Write, HandlerReturns, Goto, Quiet, Unmoved, Answers, TypeOK, Handling
<1>16. CASE InterceptAfter(p)
  BY <1>0, <1>16 DEF InterceptAfter, Return, Goto, Quiet, Unmoved, Answers, TypeOK, Handling
<1>17. CASE Panic(p)
  BY <1>0, <1>17 DEF Panic, Goto, Answers, TypeOK, Handling
<1>18. CASE Abort(p)
  BY ZenonT(20), <1>0, <1>18 DEF Abort, Goto, Untouched, Answers, TypeOK, Handling
<1>19. ASSUME NEW e \in {"nil", "error"}, pc[p] # "done", report(p, e)
       PROVE  /\ rec'[p].calls = 1
              /\ rec'[p].code = "set" <=> sw'[p] = "errdoc"
              /\ sw'[p] = "errdoc" <=> e = "error" /\ sw[p] = "none"
              /\ sw'[p] = "none" => e # "error"
  BY <1>0, <1>19 DEF report, Answers, TypeOK, Begun
<1>20. CASE Report(p)
  <2>1. ret[p] \in {"nil", "error"} /\ fault'[p] = "none" /\ pc'[p] = "done"
    BY Zenon, <1>0, <1>20 DEF Report, Untouched, Answers, TypeOK, Goto
  <2>2. client'[p] = Ended(sw'[p])
    BY ZenonT(20), <1>0, <1>20 DEF Report, TypeOK
  <2>3. client'[p] = "errdoc" <=> sw'[p] = "errdoc"
    BY <2>2, EndedErrdoc, ZenonT(40)
  <2>4. rec'[p].calls = 1 /\ (rec'[p].code = "set" <=> sw'[p] = "errdoc")
    BY <1>19, <1>20, <2>1, Zenon DEF Report
  <2> QED BY <2>1, <2>3, <2>4, Zenon DEF Answers, Handling
<1>21. CASE Recover(p)
  <2>1. fault'[p] = "panic" /\ pc'[p] = "done"
    BY Zenon, <1>0, <1>21 DEF Recover, Untouched, TypeOK, Goto
  <2>2. client'[p] = IF sw[p] = "none" THEN Ended(sw'[p]) ELSE "broken"
    BY ZenonT(20), <1>0, <1>21 DEF Recover, TypeOK
  <2>3. /\ rec'[p].calls = 1
        /\ rec'[p].code = "set" <=> sw'[p] = "errdoc"
        /\ sw'[p] = "errdoc" <=> sw[p] = "none"
    BY <1>19, <1>21, Zenon DEF Recover
  <2>4. client'[p] \in {"errdoc", "broken"} /\ (client'[p] = "errdoc" <=> sw'[p] = "errdoc")
    <3>1. CASE sw[p] = "none"
      BY <2>2, <2>3, <3>1, EndedErrdoc, ZenonT(40)
    <3>2. CASE sw[p] # "none"
      BY <2>2, <2>3, <3>2, ZenonT(40)
    <3> QED BY <3>1, <3>2, ZenonT(40)
  <2> QED BY <2>1, <2>3, <2>4, ZenonT(40) DEF Answers, Handling
<1> QED BY Zenon, <1>1, <1>2, <1>3, <1>4, <1>5, <1>6, <1>7, <1>8, <1>9, <1>10, <1>11, <1>12,
           <1>13, <1>14, <1>15, <1>16, <1>17, <1>18, <1>20, <1>21 DEF Serve

-----------------------------------------------------------------------------
(* The CORS headers of the request that takes the step. *)

LEMMA NamedByRule ==
  ASSUME NEW b, NEW q, NEW S, S \subseteq Match(b.CORS, q), Naming(S, q) # "none",
         q.kind = "preflight" => \A r \in S : headersAllowed(r, q)
  PROVE  LetsBrowser(b, q, Naming(S, q))
<1> DEFINE r == CHOOSE r \in S : TRUE
<1>1. r \in S
  BY Zenon DEF Naming
<1>2. Naming(S, q) = setAllowOrigin(r, q.origin)
  BY Zenon, <1>1 DEF Naming
<1>3. PICK i \in 1 .. Len(b.CORS) : r = b.CORS[i] /\ Allows(b.CORS[i], q)
  BY Zenon, <1>1 DEF Match
<1> HIDE DEF r
<1> QED BY ZenonT(40), <1>1, <1>2, <1>3 DEF LetsBrowser, Allows, headersAllowed, setAllowOrigin

LEMMA DecoratedNext ==
  ASSUME IInv, NEW p \in Procs, Arrive(p) \/ Serve(p)
  PROVE  Decorated(p)'
<1>0. TypeOK /\ Tracked(p) /\ Stages(p) /\ Decorated(p)
  BY Zenon DEF IInv
<1>g. \A l : Goto(p, l) => pc'[p] = l
  BY <1>0, SMTT(30) DEF Goto, TypeOK
<1>1. ASSUME UNCHANGED <<req, vr, cors, seenKeys, seenBuckets>>, pc[p] # "idle",
             pc[p] \notin {"handle", "resolve", "byName"} =>
                 pc'[p] \notin {"idle", "handle", "resolve", "byName"},
             pc'[p] \in {"resolve", "byName"} => req[p].kind # "preflight"
      PROVE  Decorated(p)'
  BY Zenon, <1>0, <1>1, SharedStable DEF Decorated
<1>2. CASE Arrive(p)
  BY Zenon, <1>0, <1>2 DEF Arrive, Goto, Decorated, TypeOK
<1>3. CASE handlePreflight(p)
  <2> DEFINE b == GetBucketByName(req[p].bucket)
             S == {r \in Match(b.CORS, req[p]) : headersAllowed(r, req[p])}
  <2>1. b \in seenBuckets[p] \ {NoBucket}
    BY <1>0, <1>3, KnownTarget, Zenon DEF handlePreflight, GetBucketByName, Tracked
  <2>2. cors'[p] = Naming(S, req[p]) /\ cors'[p] # "none"
    BY ZenonT(20), <1>0, <1>3 DEF handlePreflight, AllowPreflight, TypeOK
  <2>3. LetsBrowser(b, req[p], cors'[p])
    <3> HIDE DEF b
    <3> QED BY <2>2, NamedByRule, Zenon
  <2>4. req'[p] = req[p] /\ seenBuckets'[p] = seenBuckets[p] /\ req[p].kind = "preflight"
    BY <1>3, ZenonT(40) DEF handlePreflight, Unmoved
  <2>5. pc'[p] = "report"
    BY Zenon, <1>0, <1>3 DEF handlePreflight, Return, Goto, TypeOK
  <2> HIDE DEF b
  <2>6. Shared(p)'
    BY <2>1, <2>3, <2>4, Zenon DEF Shared, Visible
  <2> QED BY Zenon, <2>5, <2>6 DEF Decorated
<1>4. ASSUME NEW b \in seenBuckets[p] \ {NoBucket}, pc[p] \in {"resolve", "byName"}, Resolved(p, b),
             b.tenant = vr[p].tenant \/ MentionsPrincipal(b.policy, Principal(vr[p]))
      PROVE  Decorated(p)'
  <2>1. cors'[p] = SetHeaders(b.CORS, req[p]) /\ pc'[p] = "dispatch"
    BY <1>0, <1>4, Zenon DEF Resolved, Goto, TypeOK
  <2>2. UNCHANGED <<req, vr, seenKeys, seenBuckets>> /\ req[p].kind # "preflight" /\ Verified(p)
    BY <1>0, <1>4, Zenon DEF Resolved, Unmoved, Decorated, Stages
  <2>3. cors'[p] # "none" => LetsBrowser(b, req[p], cors'[p])
    BY <2>1, <2>2, NamedByRule, Zenon DEF SetHeaders
  <2>4. Visible(p, b)'
    BY <1>4, <2>2, ZenonT(40) DEF Visible, Verified
  <2>5. cors'[p] # "none" => Shared(p)'
    BY Zenon, <1>4, <2>2, <2>3, <2>4 DEF Shared
  <2> QED BY Zenon, <2>1, <2>5 DEF Decorated
<1>5. CASE ResolveOwn(p)
  BY <1>0, <1>4, <1>5, KnownTarget, ZenonT(40) DEF ResolveOwn, GetBucket, Tracked
<1>6. CASE ResolveByName(p)
  BY <1>0, <1>4, <1>6, KnownTarget, ZenonT(40) DEF ResolveByName, GetBucketByName, Tracked
<1>7. CASE verifyRequest(p)
  BY <1>0, <1>1, <1>7, Zenon DEF verifyRequest, Quiet, Unmoved, Goto, Decorated, TypeOK
<1>8. CASE NotOwn(p)
  BY <1>0, <1>1, <1>g, <1>8, ZenonT(40) DEF NotOwn, Quiet, Unmoved, Decorated
<1>9. CASE Refuse(p)
  BY <1>0, <1>1, <1>g, <1>9, ZenonT(40) DEF Refuse, Return, Quiet, Unmoved, Decorated
<1>10. CASE dispatch(p)
  BY Zenon, <1>0, <1>1, <1>g, <1>10 DEF dispatch, Quiet, Unmoved, Decorated
<1>11. CASE Proceed(p)
  BY <1>0, <1>1, <1>g, <1>11, ZenonT(40) DEF Proceed, Quiet, Unmoved, Decorated
<1>12. CASE Swallow(p)
  BY SMTT(30), <1>0, <1>1, <1>g, <1>12 DEF Swallow, Return, Quiet, Unmoved, Decorated
<1>13. CASE HandlerFails(p)
  BY Zenon, <1>0, <1>1, <1>g, <1>13 DEF HandlerFails, HandlerReturns, Quiet, Unmoved, Decorated
<1>14. CASE Run(p)
  BY Zenon, <1>0, <1>1, <1>g, <1>14 DEF Run, Quiet, Unmoved, Decorated
<1>15. CASE Answer(p)
  BY Zenon, <1>0, <1>1, <1>g, <1>15 DEF Answer, Quiet, Unmoved, Decorated
<1>16. CASE Write(p)
  BY Zenon, <1>0, <1>1, <1>g, <1>16 DEF Write, HandlerReturns, Quiet, Unmoved, Decorated
<1>17. CASE InterceptAfter(p)
  BY SMTT(30), <1>0, <1>1, <1>g, <1>17 DEF InterceptAfter, Return, Quiet, Unmoved, Decorated
<1>18. CASE Panic(p)
  BY Zenon, <1>0, <1>1, <1>g, <1>18 DEF Panic, Handling, Decorated
<1>19. CASE Report(p)
  BY <1>0, <1>1, <1>g, <1>19, ZenonT(40) DEF Report, Untouched, Decorated
<1>20. CASE Abort(p)
  BY SMTT(30), <1>0, <1>1, <1>g, <1>20 DEF Abort, Untouched, Decorated
<1>21. CASE Recover(p)
  BY Zenon, <1>0, <1>1, <1>g, <1>21 DEF Recover, Untouched, Decorated
<1>22. CASE resolveCopySource(p)
  <2>1. UNCHANGED <<req, vr, cors, seenKeys, seenBuckets>> /\ pc[p] = "copy" /\ pc'[p] = "authorizer"
    BY ZenonT(20), <1>0, <1>22 DEF resolveCopySource, CopySource, Quiet, Unmoved, Goto, TypeOK
  <2> QED BY <1>1, <2>1, ZenonT(40)
<1> QED BY Zenon, <1>2, <1>3, <1>5, <1>6, <1>7, <1>8, <1>9, <1>10, <1>11, <1>12, <1>13, <1>14,
           <1>15, <1>16, <1>17, <1>18, <1>19, <1>20, <1>21, <1>22 DEF Serve

LEMMA NextIInv == IInv /\ [Next]_vars => IInv'
<1> SUFFICES ASSUME IInv, [Next]_vars PROVE IInv'
  OBVIOUS
<1>1. TypeOK' /\ \A q \in Procs : Tracked(q)'
  BY Zenon, TypeNext, TrackedNext
<1> SUFFICES ASSUME NEW q \in Procs PROVE Stages(q)' /\ Answers(q)' /\ Decorated(q)'
  BY Zenon, <1>1 DEF IInv
<1>0. TypeOK /\ Stages(q) /\ Answers(q) /\ Decorated(q)
  BY Zenon DEF IInv
<1>2. ASSUME NEW id \in Ids, NEW k \in Key \cup {NoKey}, ChangeKey(id, k)
      PROVE  Stages(q)' /\ Answers(q)' /\ Decorated(q)'
  <2>1. Same(q) /\ seenKeys[q] \subseteq seenKeys'[q] /\ seenBuckets[q] \subseteq seenBuckets'[q]
    BY Zenon, <1>0, <1>2 DEF ChangeKey, reqVars, Same
  <2> QED BY <1>0, <2>1, SameKeeps, ZenonT(40)
<1>3. ASSUME NEW n \in Names, NEW b \in Bucket \cup {NoBucket}, ChangeBucket(n, b)
      PROVE  Stages(q)' /\ Answers(q)' /\ Decorated(q)'
  <2>1. Same(q) /\ seenKeys[q] \subseteq seenKeys'[q] /\ seenBuckets[q] \subseteq seenBuckets'[q]
    BY Zenon, <1>0, <1>3 DEF ChangeBucket, reqVars, Same
  <2> QED BY <1>0, <2>1, SameKeeps, ZenonT(40)
<1>4. ASSUME NEW p \in Procs, Arrive(p) \/ Serve(p) PROVE Stages(q)' /\ Answers(q)' /\ Decorated(q)'
  <2>1. CASE q = p
    BY Zenon, <1>4, <2>1, StagesNext, AnswersNext, DecoratedNext
  <2>2. CASE q # p
    BY <1>0, <1>4, <2>2, OthersSame, SameKeeps, Zenon
  <2> QED BY Zenon, <2>1, <2>2
<1>5. CASE UNCHANGED vars
  <2>1. Same(q) /\ seenKeys[q] \subseteq seenKeys'[q] /\ seenBuckets[q] \subseteq seenBuckets'[q]
    BY Zenon, <1>5 DEF vars, reqVars, Same
  <2> QED BY <1>0, <2>1, SameKeeps, Zenon
<1> QED BY Zenon, <1>2, <1>3, <1>4, <1>5 DEF Next

-----------------------------------------------------------------------------
\* IInv is an invariant, whatever clients send and the store holds.
THEOREM Inductive == Spec => []IInv
BY InitIInv, NextIInv, PTL DEF Spec

\* Type correctness of the request's state.
THEOREM TypeCorrect == Spec => []TypeOK
<1>1. IInv => TypeOK
  BY Zenon DEF IInv
<1> QED BY <1>1, Inductive, PTL

\* For any store, policies and requests: an operation runs only for a request
\* let through by records the store held while it was served.
THEOREM RunsOnlyAuthorized == Spec => []OnlyAuthorized
<1>1. IInv => OnlyAuthorized
  BY Zenon DEF IInv, Stages, Verified, Target, Source, OnlyAuthorized
<1> QED BY <1>1, Inductive, PTL

\* For any requests in flight: one observer call each, none for
\* ErrAbortHandler, and a record that says what the client was told.
THEOREM Observed == Spec => []ObservedOnce
<1>1. IInv => ObservedOnce
  BY ZenonT(40) DEF IInv, Stages, Answers, ObservedOnce
<1> QED BY <1>1, Inductive, PTL

\* For any rules, policies and store: a response carries CORS headers only where a
\* rule of a bucket the requester may see allows them.
THEOREM CORSGuarded == Spec => []CORSWhereVisible
<1>1. IInv => CORSWhereVisible
  BY ZenonT(40) DEF IInv, Decorated, Shared, Visible, Verified, CORSWhereVisible
<1> QED BY <1>1, Inductive, PTL

\* A panic never leaves the client with what looks like an answer.
THEOREM PanicsAnswered == Spec => []PanicAnswered
<1>1. IInv => PanicAnswered
  BY Zenon DEF IInv, Answers, PanicAnswered
<1> QED BY <1>1, Inductive, PTL

\* For any requests: an error document never follows the beginning of another
\* response.
THEOREM NothingAppended == Spec => NoDocumentAfterStart
<1>1. ASSUME IInv, [Next]_vars PROVE [\A p \in Procs : sw[p] \in Begun => sw'[p] # "errdoc"]_sw
  <2> SUFFICES ASSUME NEW q \in Procs, sw[q] \in Begun PROVE sw'[q] # "errdoc"
    OBVIOUS
  <2>1. sw[q] # "errdoc" /\ sw[q] # "none"
    BY Zenon DEF Begun
  <2>2. CASE UNCHANGED sw
    BY Zenon, <2>1, <2>2
  <2>3. ASSUME NEW p \in Procs, Arrive(p) \/ Serve(p) PROVE sw'[q] # "errdoc"
    <3>1. CASE q # p
      BY <1>1, <2>1, <2>3, <3>1, OthersSame, Zenon DEF Same
    <3>2. CASE q = p /\ pc'[p] # "done"
      BY <1>1, <2>3, <3>2, AnswersNext, Zenon DEF Answers
    <3>3. CASE q = p /\ pc'[p] = "done"
      <4>0. \A l : Goto(p, l) => l = "done"
        BY ZenonT(20), <1>1, <3>3 DEF IInv, TypeOK, Goto
      <4>1. Report(p) \/ Recover(p) \/ Abort(p)
        <5>1. /\ ~Arrive(p) /\ ~Refuse(p) /\ ~handlePreflight(p) /\ ~verifyRequest(p)
              /\ ~ResolveOwn(p) /\ ~NotOwn(p) /\ ~ResolveByName(p) /\ ~dispatch(p)
          BY Zenon, <4>0 DEF Arrive, Refuse, handlePreflight, verifyRequest, ResolveOwn, NotOwn,
                      ResolveByName, Resolved, dispatch, Return
        <5>2. /\ ~resolveCopySource(p) /\ ~Proceed(p) /\ ~Swallow(p) /\ ~HandlerFails(p)
              /\ ~Run(p) /\ ~Answer(p) /\ ~Write(p) /\ ~InterceptAfter(p) /\ ~Panic(p)
          BY <4>0, Zenon DEF resolveCopySource, CopySource, Proceed, Swallow, HandlerFails,
                      HandlerReturns, Run, Answer, Write, InterceptAfter, Panic, Return
        <5> QED BY <2>3, <5>1, <5>2, SMTT(30) DEF Serve
      <4>2. ASSUME NEW e, report(p, e) PROVE sw'[p] = sw[p]
        BY ZenonT(20), <1>1, <2>1, <3>3, <4>2 DEF report, IInv, TypeOK
      <4> QED BY Zenon, <2>1, <2>2, <3>3, <4>1, <4>2 DEF Report, Recover, Abort
    <3> QED BY Zenon, <3>1, <3>2, <3>3
  <2> QED BY Zenon, <1>1, <2>2, <2>3 DEF Next, ChangeKey, ChangeBucket, reqVars, vars
<1> QED BY <1>1, Inductive, PTL DEF Spec, NoDocumentAfterStart
=============================================================================
