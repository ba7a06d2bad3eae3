---------------------------- MODULE MCWarnings ----------------------------
(***************************************************************************)
(* Warnings on small instances.                                             *)
(***************************************************************************)
EXTENDS Warnings, TLC

Everything == AllKinds

HandlerSymmetry == Permutations(Handlers)
=============================================================================
