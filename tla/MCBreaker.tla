----------------------------- MODULE MCBreaker -----------------------------
(***************************************************************************)
(* Breaker on small instances.  There is a temporal property, so no symmetry. *)
(***************************************************************************)
EXTENDS Breaker
============================================================================
