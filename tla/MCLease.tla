------------------------------ MODULE MCLease ------------------------------
(***************************************************************************)
(* Lease on small instances.  A tick is 30 seconds, so the code's 90, 30 and *)
(* 60 seconds are 3, 1 and 2.  There is a temporal property: no symmetry.    *)
(***************************************************************************)
EXTENDS Lease
============================================================================
