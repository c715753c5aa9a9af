--------------------------- MODULE MCListingCache ---------------------------
(* ListingCache with few callers, goroutines and changes. *)
EXTENDS ListingCache, TLC

JobSymmetry == Permutations(Jobs)
=============================================================================
