---------------------------- MODULE MCRequestBody ----------------------------
(***************************************************************************)
(* RequestBody for TLC: three bytes over two values, signed as a chunk of  *)
(* two bytes and one of one byte, the latter equal to a part of the        *)
(* former, so that resized and repeated chunks can look alike.  Readers of *)
(* XML stop a byte before the longest body.                                *)
(***************************************************************************)
EXTENDS RequestBody

MCPayload == <<"a", "b", "a">>
MCCut == [k \in 0 .. 3 |-> CASE k = 0 -> 0 [] k = 1 -> 2 [] OTHER -> 3]
=============================================================================
