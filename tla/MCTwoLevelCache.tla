------------------------- MODULE MCTwoLevelCache -------------------------
(***************************************************************************)
(* TwoLevelCache on small instances.                                        *)
(***************************************************************************)
EXTENDS TwoLevelCache

=============================================================================
