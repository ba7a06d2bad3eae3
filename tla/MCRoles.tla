------------------------------ MODULE MCRoles ------------------------------
(***************************************************************************)
(* Roles on small instances: an owner and another user, three requests,      *)
(* two handlers.                                                            *)
(***************************************************************************)
EXTENDS Roles, TLC

Everything == AllKinds

HandlerSymmetry == Permutations(Handlers)
=============================================================================
