--------------------------- MODULE BreakerPromise ---------------------------
(***************************************************************************)
(* What a circuit breaker promises its backend, with none of the breaker's *)
(* own states: it is either guarding the backend or not; it starts to      *)
(* guard only after Threshold failures with no success between them; and   *)
(* while it guards, Cooldown must pass in quiet before each attempt it     *)
(* lets through.  s3gw/breaker.go implements it (module Breaker).          *)
(***************************************************************************)
EXTENDS Naturals

CONSTANTS Threshold,  \* consecutive failures that make it guard
          Cooldown    \* the quiet time one attempt costs while guarding

VARIABLES guarding,   \* are attempts being held back?
          streak,     \* failures since the last success, up to Threshold
          quiet       \* time since the last opening or probe, up to Cooldown

promiseVars == <<guarding, streak, quiet>>

PromiseInit ==
    /\ guarding = FALSE
    /\ streak = 0
    /\ quiet = Cooldown

\* Time passes; beyond Cooldown it makes no difference.
Elapse ==
    /\ quiet < Cooldown
    /\ quiet' = quiet + 1
    /\ UNCHANGED <<guarding, streak>>

\* One attempt is let through although the backend is guarded.
Probe ==
    /\ guarding
    /\ quiet = Cooldown
    /\ quiet' = 0
    /\ UNCHANGED <<guarding, streak>>

\* A success, of a probe or of an attempt admitted earlier, ends the guarding.
Succeed ==
    /\ guarding' = FALSE
    /\ streak' = 0
    /\ quiet' = Cooldown

\* A failure extends the streak; the one that completes it starts the guarding.
Fail ==
    /\ ~guarding
    /\ streak' = streak + 1
    /\ IF streak + 1 < Threshold
       THEN UNCHANGED <<guarding, quiet>>
       ELSE guarding' = TRUE /\ quiet' = 0

\* A failure while guarding may restart the quiet time.
Relapse ==
    /\ guarding
    /\ quiet' = 0
    /\ UNCHANGED <<guarding, streak>>

PromiseNext == Elapse \/ Probe \/ Succeed \/ Fail \/ Relapse

PromiseSpec == PromiseInit /\ [][PromiseNext]_promiseVars
=============================================================================
