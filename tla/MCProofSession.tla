--------------------------- MODULE MCProofSession ---------------------------
(***************************************************************************)
(* ProofSession on small instances: enough sessions that a successor can    *)
(* take the key, and updates to overlap an entry, a tap and a command.      *)
(***************************************************************************)
EXTENDS ProofSession
=============================================================================
