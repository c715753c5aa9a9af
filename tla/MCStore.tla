------------------------------ MODULE MCStore ------------------------------
(* Names, data, and the fed calendars; which is which does not matter. *)
EXTENDS Store, TLC

Symmetric == Permutations(Names) \cup Permutations(Data) \cup Permutations(Fed)
=============================================================================
