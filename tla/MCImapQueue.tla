--------------------------- MODULE MCImapQueue ---------------------------
(* ImapQueue with two interactive requests, which can overtake a background *)
(* one for ever; no symmetry, because liveness is checked with the rest.    *)
EXTENDS ImapQueue
==========================================================================
