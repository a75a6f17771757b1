------------------------------- MODULE MCGlob -------------------------------
(***************************************************************************)
(* Glob for TLC: every pattern against every value, up to the bounds.  A   *)
(* value may hold a "*", as an object key may.                             *)
(***************************************************************************)
EXTENDS Glob, SequencesExt

MaxPattern == 4
MaxValue == 4

MCPatterns == SeqOf({"a", "b", "*", "?"}, MaxPattern)
MCValues == SeqOf({"a", "b", "*"}, MaxValue)
=============================================================================
