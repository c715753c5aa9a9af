----------------------------- MODULE MCSessions -----------------------------
(* Accounts and requests; which is which does not matter. *)
EXTENDS Sessions, TLC

Symmetric == Permutations(Accounts) \cup Permutations(Requests)
=============================================================================
