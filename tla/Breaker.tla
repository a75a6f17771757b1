------------------------------- MODULE Breaker -------------------------------
(***************************************************************************)
(* The per-backend circuit breaker of s3gw/breaker.go: ConsecutiveFailures *)
(* as SDK middleware around every attempt of every request to one backend. *)
(*                                                                         *)
(* Requests run concurrently.  Each is the SDK's retry loop: an attempt    *)
(* asks Allow, is refused or sent, and its outcome is classified and       *)
(* reported, possibly long after the breaker changed state.  The breaker   *)
(* reads the clock only as now().Sub(since) and now().Sub(lastProbe),      *)
(* compared with the cooldown, so the model keeps these two ages, capped   *)
(* at Cooldown, in place of the time stamps; Allow and Report hold the     *)
(* mutex throughout and are single steps.                                  *)
(***************************************************************************)
EXTENDS Integers

CONSTANTS Requests,    \* concurrent requests to the backend
          N,           \* NewConsecutiveFailures' n
          Cooldown,    \* NewConsecutiveFailures' cooldown
          MaxAttempts  \* attempts the SDK makes for one request (3 by default)

ASSUME BreakerAssumption ==
    /\ N \in Int
    /\ Cooldown \in Nat
    /\ MaxAttempts \in Nat \ {0}

VARIABLES state,      \* breakerState
          failures,   \* consecutive failures while closed
          sinceAge,   \* now().Sub(since), at most Cooldown
          probeAge,   \* now().Sub(lastProbe), at most Cooldown
          pc,         \* where each request is in its retry loop
          tries,      \* attempts each request has made
          up,         \* does the backend answer below 500?
          gap,        \* history: time since a probe was admitted, at most Cooldown
          row         \* history: attempts the backend failed to answer since it last
                      \* answered one, at most Threshold

breakerVars == <<state, failures, sinceAge, probeAge>>
vars == <<state, failures, sinceAge, probeAge, pc, tries, up, gap, row>>

breakerState == {"closed", "open", "half-open"}

\* n < 1 is treated as 1.
Threshold == IF N < 1 THEN 1 ELSE N

\* Types: the failure count stays below the threshold (ReportFailure opens at
\* it) and a request never makes more attempts than the SDK allows.
TypeOK ==
    /\ state \in breakerState
    /\ failures \in 0 .. Threshold - 1
    /\ sinceAge \in 0 .. Cooldown
    /\ probeAge \in 0 .. Cooldown
    /\ pc \in [Requests -> {"idle", "retry", "flight"}]
    /\ tries \in [Requests -> 0 .. MaxAttempts]
    /\ up \in BOOLEAN
    /\ gap \in 0 .. Cooldown
    /\ row \in 0 .. Threshold

\* The zero time.Time of since and lastProbe is long ago.
Init ==
    /\ state = "closed"
    /\ failures = 0
    /\ sinceAge = Cooldown
    /\ probeAge = Cooldown
    /\ pc = [r \in Requests |-> "idle"]
    /\ tries = [r \in Requests |-> 0]
    /\ up \in BOOLEAN
    /\ gap = Cooldown
    /\ row = 0

-----------------------------------------------------------------------------
(* ConsecutiveFailures *)

\* When Allow returns true, by state.
Admits ==
    \/ state = "closed"
    \/ state = "open" /\ sinceAge >= Cooldown
    \/ state = "half-open" /\ probeAge >= Cooldown

\* Faulty Allow: a half-open breaker whose probe was lost admits no other.
AllowWedged ==
    \/ state = "closed" /\ UNCHANGED <<breakerVars, gap>>
    \/ /\ state = "open" /\ sinceAge >= Cooldown
       /\ state' = "half-open"
       /\ probeAge' = 0
       /\ gap' = 0
       /\ UNCHANGED <<failures, sinceAge>>

\* Allow returning true: an attempt passes while closed, a probe otherwise.
Allow ==
    \/ state = "closed" /\ UNCHANGED <<breakerVars, gap>>
    \/ /\ state # "closed" /\ Admits
       /\ state' = "half-open"
       /\ probeAge' = 0
       /\ gap' = 0
       /\ UNCHANGED <<failures, sinceAge>>

\* open()
Open ==
    /\ state' = "open"
    /\ failures' = 0
    /\ sinceAge' = 0
    /\ UNCHANGED probeAge

\* Faulty Report(true): the consecutive failures are not reset.
ReportOkKeepsFailures ==
    /\ state' = "closed"
    /\ UNCHANGED <<failures, sinceAge, probeAge>>

\* Report(true) closes the breaker whatever its state.
ReportOk ==
    /\ state' = "closed"
    /\ failures' = 0
    /\ UNCHANGED <<sinceAge, probeAge>>

\* Report(false) counts while closed, re-opens while half-open and is
\* ignored while open.
ReportFailure ==
    \/ /\ state = "closed" /\ failures + 1 < Threshold
       /\ failures' = failures + 1
       /\ UNCHANGED <<state, sinceAge, probeAge>>
    \/ /\ \/ state = "closed" /\ failures + 1 >= Threshold
          \/ state = "half-open"
       /\ Open
    \/ state = "open" /\ UNCHANGED breakerVars

\* The clock advances; an age past Cooldown stays at Cooldown.
Aged(age) == IF age < Cooldown THEN age + 1 ELSE age

Tick ==
    /\ sinceAge' = Aged(sinceAge)
    /\ probeAge' = Aged(probeAge)
    /\ gap' = Aged(gap)
    /\ UNCHANGED <<state, failures, pc, tries, up, row>>

-----------------------------------------------------------------------------
(* Requests: breakerMiddleware inside the SDK's retry loop *)

Status == {0, 404, 503}   \* no answer, an answer below 500, one that is not

\* How an attempt can end: the raw response's status, the error next returned
\* and the status that error carries when it is a ResponseError.
Outcome ==
    [raw : Status, err : {"nil", "canceled", "deadline", "other"}, errStatus : Status]

\* Faulty classifyAttempt: only a nil error counts as an answer, so a 404 is a
\* failure.
classifyAttemptByError(o) ==
    CASE o.err = "canceled" -> "nothing"
      [] o.err = "nil" -> "ok"
      [] OTHER -> "failure"

\* What the breaker is told about an outcome: ok for any answer below 500, a
\* failure for a 5xx, a timeout or no answer, nothing for a canceled request.
classifyAttempt(o) ==
    CASE o.err = "canceled" -> "nothing"
      [] o.err = "deadline" -> "failure"
      [] o.err \in {"nil", "other"} /\ o.raw >= 100 ->
            IF o.raw < 500 THEN "ok" ELSE "failure"
      [] o.err = "nil" /\ o.raw < 100 -> "ok"
      [] o.err = "other" /\ o.raw < 100 ->
            IF o.errStatus >= 100 /\ o.errStatus < 500 THEN "ok" ELSE "failure"

\* The outcomes of an attempt a working backend answered.
Answered(o) ==
    /\ o.err \in {"nil", "other"}
    /\ \/ o.raw = 404
       \/ o.raw = 0 /\ (o.err = "nil" \/ o.errStatus = 404)

\* The outcomes the SDK may retry: a 5xx or no answer, the caller still there.
Retryable(o) == o.err = "other" /\ ~Answered(o)

\* The breaker lets the attempt through and it is sent.
Send(r) ==
    /\ pc[r] \in {"idle", "retry"}
    /\ Allow
    /\ pc' = [pc EXCEPT ![r] = "flight"]
    /\ tries' = [tries EXCEPT ![r] = @ + 1]
    /\ UNCHANGED <<up, row>>

\* Allow is false: the request ends with ServiceUnavailable, which the SDK
\* does not retry (BreakerOpen.RetryableError).
Refuse(r) ==
    /\ pc[r] \in {"idle", "retry"}
    /\ ~Admits
    /\ pc' = [pc EXCEPT ![r] = "idle"]
    /\ tries' = [tries EXCEPT ![r] = 0]
    /\ UNCHANGED <<breakerVars, up, gap, row>>

\* The history goes by how the attempt ended, whatever it was classified as.
Counted(k) == IF k < Threshold THEN k + 1 ELSE k

NoteRow(o) ==
    row' = IF o.err = "canceled" THEN row ELSE IF Answered(o) THEN 0 ELSE Counted(row)

\* The attempt of r ends with outcome o, which is reported unless it says
\* nothing; the SDK then ends the request or makes another attempt.
EndAttempt(r, o) ==
    /\ pc[r] = "flight"
    /\ \/ classifyAttempt(o) = "ok" /\ ReportOk
       \/ classifyAttempt(o) = "failure" /\ ReportFailure
       \/ classifyAttempt(o) = "nothing" /\ UNCHANGED breakerVars
    /\ NoteRow(o)
    /\ \/ /\ pc' = [pc EXCEPT ![r] = "idle"]
          /\ tries' = [tries EXCEPT ![r] = 0]
       \/ /\ Retryable(o) /\ tries[r] < MaxAttempts
          /\ pc' = [pc EXCEPT ![r] = "retry"]
          /\ UNCHANGED tries
    /\ UNCHANGED <<up, gap>>

\* The backend decides the outcome.
Finish(r) ==
    \E o \in Outcome : o.err # "canceled" /\ (Answered(o) <=> up) /\ EndAttempt(r, o)

\* The client goes away, before or after the backend answered.
Abandon(r) ==
    \E o \in Outcome : o.err = "canceled" /\ EndAttempt(r, o)

\* The backend goes down or comes back.
BackendChanges ==
    /\ up' = ~up
    /\ UNCHANGED <<breakerVars, pc, tries, gap, row>>

Next ==
    \/ Tick
    \/ BackendChanges
    \/ \E r \in Requests : Send(r) \/ Refuse(r) \/ Finish(r) \/ Abandon(r)

Spec == Init /\ [][Next]_vars

\* Time passes, clients keep coming, every attempt ends, and not all of them
\* because the client left.
Fairness ==
    /\ WF_vars(Tick)
    /\ WF_vars(\E r \in Requests : Send(r))
    /\ \A r \in Requests : WF_vars(Finish(r) \/ Abandon(r))
    /\ SF_vars(\E r \in Requests : Finish(r))

FairSpec == Spec /\ Fairness

-----------------------------------------------------------------------------
(* Properties *)

\* Two probes are never less than a cooldown apart, counted from when each
\* was admitted, even when late reports of other attempts closed or opened
\* the breaker in between (Allow, Report).
ProbeSpacing ==
    [][\A r \in Requests : Send(r) /\ state # "closed" => gap = Cooldown]_vars

\* The breaker keeps the promise of BreakerPromise: it opens after Threshold attempts
\* in a row that the backend failed to answer, timeouts among them and those a client
\* canceled not, no sooner and no later, and then admits one attempt per quiet
\* cooldown (classifyAttempt, Report, Allow).
Promise == INSTANCE BreakerPromise WITH
    guarding <- state # "closed",
    streak   <- row,
    quiet    <- CASE state = "closed" -> Cooldown
                  [] state = "open" -> sinceAge
                  [] state = "half-open" -> probeAge

KeepsPromise == Promise!PromiseSpec

\* A probe that is never reported does not wedge the breaker: until it closes
\* it goes on admitting probes ("so the breaker cannot wedge half-open").
NeverWedged == []<>(state = "closed" \/ gap = 0)

\* Once the backend answers for good, the breaker closes and stays closed,
\* whatever attempts were in flight and whoever abandons one.
Recovers == <>[]up => <>[](state = "closed")
=============================================================================
