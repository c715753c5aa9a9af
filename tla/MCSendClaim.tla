---------------------------- MODULE MCSendClaim ----------------------------
(* SendClaim on a few requests for one message. *)
EXTENDS SendClaim, TLC

PostSymmetry == Permutations(Posts)
============================================================================
