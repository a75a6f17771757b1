----------------------------- MODULE MCBuckets -----------------------------
(***************************************************************************)
(* Buckets for TLC: two tenants, three valid names and an invalid one.     *)
(* Whatever nobody asks for is the lister's, so that the walk meets it.    *)
(***************************************************************************)
EXTENDS Buckets, TLC

MCInit == Init /\ \A n \in Names \ Asked : buckets[n].tenant = Lister

MCSpec == MCInit /\ [][Next]_vars

Symmetry == Permutations(Requests)
=============================================================================
