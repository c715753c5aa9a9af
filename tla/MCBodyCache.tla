---------------------------- MODULE MCBodyCache ----------------------------
(* Two logins of an account; which is which does not matter. *)
EXTENDS BodyCache, TLC

Symmetric == Permutations(Logins) \cup Permutations(UIDs)
=============================================================================
