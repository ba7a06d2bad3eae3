--------------------------- MODULE MCModActions ---------------------------
(***************************************************************************)
(* ModActions on small instances.                                           *)
(***************************************************************************)
EXTENDS ModActions, TLC

HandlerSymmetry == Permutations(Handlers)
=============================================================================
