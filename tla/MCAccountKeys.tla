--------------------------- MODULE MCAccountKeys ---------------------------
(***************************************************************************)
(* Logins of one account; which is which does not matter.  The run stops   *)
(* at a crossing and where a pair in use is discarded, after which         *)
(* NothingLost and LetGoOnceMoved say nothing.  Under the first password   *)
(* two logins are at work, with a collection, or one with a lease beside;  *)
(* under the second both are in and one is at work; under the third, for   *)
(* which rewrapKey may wrap a key that was replaced, one is in, with the   *)
(* record not moved yet.                                                   *)
(***************************************************************************)
EXTENDS AccountKeys, TLC

Symmetric == Permutations(Logins)

In == {l \in Logins : login[l].at # "out"}

Followed ==
    /\ ~crossed /\ ~discarded
    /\ ring.leased \/ password > 1 => Cardinality({l \in In : Busy(l)}) <= 1
    /\ password > 1 => ~ring.leased /\ file.coll = Instance
    /\ password > 2 => file.record = Instance /\ Cardinality(In) <= 1
=============================================================================
