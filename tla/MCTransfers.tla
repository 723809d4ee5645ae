---------------------------- MODULE MCTransfers ----------------------------
(* Transfers on small instances.                                           *)
EXTENDS Transfers

=============================================================================
