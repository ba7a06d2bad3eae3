----------------------------- MODULE MCAppeals -----------------------------
(***************************************************************************)
(* Appeals on small instances.  The windows keep the order of 12 h, 24 h    *)
(* and 72 h.                                                                *)
(***************************************************************************)
EXTENDS Appeals

=============================================================================
