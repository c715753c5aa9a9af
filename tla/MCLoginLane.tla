---------------------------- MODULE MCLoginLane ----------------------------
(* LoginLane on small sets of callers and connections. *)
EXTENDS LoginLane, TLC
============================================================================
