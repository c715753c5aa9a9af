------------------------------ MODULE MCMirror ------------------------------
(* Mirror on two objects. *)
EXTENDS Mirror, TLC

Interchangeable == Permutations(Names) \cup Permutations(Syncs) \cup Permutations(Writers)
=============================================================================
