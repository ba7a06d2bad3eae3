---------------------------- MODULE MCRateLimit ----------------------------
(***************************************************************************)
(* RateLimit on a small instance: windows of four ticks, a tenth of a second *)
(* of three, so that a wait can be less than half a tenth.                   *)
(***************************************************************************)
EXTENDS RateLimit, TLC

CallSymmetry == Permutations(Calls)
============================================================================
