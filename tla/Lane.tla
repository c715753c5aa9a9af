-------------------------------- MODULE Lane --------------------------------
(***************************************************************************)
(* What imapQueue promises its callers: at most one of them has the        *)
(* connection, it lies idle only while nobody wants it, and it passes to   *)
(* background work only when no interactive work wants it.  How a waiter   *)
(* learns of its turn, and in which order equals are served, is left to    *)
(* ImapQueue.                                                              *)
(***************************************************************************)
CONSTANTS Callers, Background

VARIABLES
    holders,  \* who has the connection: nobody, or one caller
    wants     \* who waits for it

lvars == <<holders, wants>>

LaneInit == holders = {} /\ wants = {}

Take(p) ==
    /\ holders = {}
    /\ wants = {}
    /\ holders' = {p}
    /\ UNCHANGED wants

Want(p) ==
    /\ holders # {}
    /\ p \notin wants \cup holders
    /\ wants' = wants \cup {p}
    /\ UNCHANGED holders

GiveUp(p) ==
    /\ p \in wants
    /\ wants' = wants \ {p}
    /\ UNCHANGED holders

Idle(p) ==
    /\ holders = {p}
    /\ wants = {}
    /\ holders' = {}
    /\ UNCHANGED wants

Pass(p, q) ==
    /\ holders = {p}
    /\ q \in wants
    /\ q \in Background => wants \subseteq Background
    /\ holders' = {q}
    /\ wants' = wants \ {q}

LaneNext ==
    \/ \E p \in Callers : Take(p) \/ Want(p) \/ GiveUp(p) \/ Idle(p)
    \/ \E p, q \in Callers : Pass(p, q)

LaneSpec == LaneInit /\ [][LaneNext]_lvars
=============================================================================
