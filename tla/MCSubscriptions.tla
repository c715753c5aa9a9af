--------------------------- MODULE MCSubscriptions ---------------------------
(* Two alborz and two requests, of which either may be any.  The clock of    *)
(* either may be ahead of the other's.                                       *)
EXTENDS Subscriptions

CONSTANTS i1, i2

MCTimes == [i \in {i1, i2} |-> IF i = i1 THEN {1, 4} ELSE {2, 3, 5}]
=============================================================================
