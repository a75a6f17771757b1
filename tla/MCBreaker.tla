------------------------------ MODULE MCBreaker ------------------------------
(***************************************************************************)
(* Breaker for TLC: three concurrent requests, so that two late reports    *)
(* can surround a probe.  No symmetry, for liveness is checked with it.    *)
(***************************************************************************)
EXTENDS Breaker
=============================================================================
