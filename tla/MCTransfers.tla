---------------------------- MODULE MCTransfers ----------------------------
(* Transfers on small sets of readers and connections. *)
EXTENDS Transfers, TLC

============================================================================
