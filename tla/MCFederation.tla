---------------------------- MODULE MCFederation ----------------------------
(***************************************************************************)
(* Federation on small instances.  One primary chat, one or two ordinary    *)
(* groups; two or three handler instances.                                   *)
(***************************************************************************)
EXTENDS Federation, TLC

Everything == AllKinds

HandlerSymmetry == Permutations(Handlers)
=============================================================================
