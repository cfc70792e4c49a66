------------------------------ MODULE MCOutbox ------------------------------
(* The instance of Outbox for TLC.  A run with a liveness property uses no   *)
(* symmetry, so its values are only those of the configuration.              *)
EXTENDS Outbox
=============================================================================
