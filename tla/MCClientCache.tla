---------------------------- MODULE MCClientCache ----------------------------
(***************************************************************************)
(* ClientCache for TLC: two endpoints, the secret of one rotated.          *)
(***************************************************************************)
EXTENDS ClientCache, TLC

MCBackend ==
    {[endpoint |-> "x", secret |-> "1"], [endpoint |-> "x", secret |-> "2"],
     [endpoint |-> "y", secret |-> "1"]}

Symmetry == Permutations(Callers)
=============================================================================
