----------------------------- MODULE MCGroups -----------------------------
(***************************************************************************)
(* Groups on small instances.                                               *)
(***************************************************************************)
EXTENDS Groups, TLC

Everything == AllKinds

HandlerSymmetry == Permutations(Handlers)
=============================================================================
