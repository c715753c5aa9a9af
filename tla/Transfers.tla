----------------------------- MODULE Transfers -----------------------------
(***************************************************************************)
(* A login's downloads (login.go, DoIMAPTransfer): each takes one of       *)
(* maxIMAPTransfers slots from a channel, with the connection an earlier   *)
(* transfer left in it, and puts the slot back with its own connection if  *)
(* that is still good.  When the login ends the reaper empties the channel *)
(* and closes what lies in it.                                             *)
(*                                                                         *)
(* A definition whose name extends another's is the other with a plausible *)
(* mistake in it; no specification uses it.                                *)
(***************************************************************************)
EXTENDS Integers, Sequences, FiniteSets

CONSTANTS
    Readers,       \* callers of DoIMAPTransfer
    MaxTransfers,  \* maxIMAPTransfers
    Conns,         \* names for the connections dialled
    NoConn         \* a nil *imapclient.Client

ASSUME TransfersAssumption ==
    /\ MaxTransfers \in Nat \ {0}
    /\ NoConn \notin Conns

VARIABLES
    slots,    \* the channel Login.transfers: the connection in each slot
    at,       \* where each reader is in DoIMAPTransfer
    c,        \* the reader's variable c
    keep,     \* the reader's variable keep
    armed,    \* the readers whose AfterFunc has not run or been stopped
    cancels,  \* the readers whose context has ended
    open,     \* the connections whose socket is open
    done,     \* Login.closed is closed
    reaper    \* where reap is: "waits", "looks", "takes" or "gone"

vars == <<slots, at, c, keep, armed, cancels, open, done, reaper>>

\* Types, and that only a running transfer's timer is armed.
TypeOK ==
    /\ slots \in Seq(Conns \cup {NoConn})
    /\ at \in [Readers -> {"out", "wait", "check", "dial", "run", "put"}]
    /\ c \in [Readers -> Conns \cup {NoConn}]
    /\ keep \in [Readers -> BOOLEAN]
    /\ armed \subseteq {r \in Readers : at[r] = "run"}
    /\ cancels \subseteq Readers
    /\ open \subseteq Conns
    /\ done \in BOOLEAN
    /\ reaper \in {"waits", "looks", "takes", "gone"}

Init ==
    /\ slots = [i \in 1..MaxTransfers |-> NoConn]
    /\ at = [r \in Readers |-> "out"]
    /\ c = [r \in Readers |-> NoConn]
    /\ keep = [r \in Readers |-> FALSE]
    /\ armed = {}
    /\ cancels = {}
    /\ open = {}
    /\ done = FALSE
    /\ reaper = "waits"

----------------------------------------------------------------------------

Call(r) ==
    /\ at[r] = "out"
    /\ at' = [at EXCEPT ![r] = "wait"]
    /\ UNCHANGED <<slots, c, keep, armed, cancels, open, done, reaper>>

\* The select of a slot, the context or the login's end takes any that is
\* ready: a slot may still be taken from a closed login.
TakeSlot(r) ==
    /\ at[r] = "wait"
    /\ slots # <<>>
    /\ c' = [c EXCEPT ![r] = Head(slots)]
    /\ slots' = Tail(slots)
    /\ at' = [at EXCEPT ![r] = "check"]
    /\ UNCHANGED <<keep, armed, cancels, open, done, reaper>>

\* The call is over; the reader's next one has a context of its own.
Out(r) ==
    /\ at' = [at EXCEPT ![r] = "out"]
    /\ cancels' = cancels \ {r}

GiveUpOnCancel(r) ==
    /\ at[r] = "wait"
    /\ r \in cancels
    /\ Out(r)
    /\ UNCHANGED <<slots, c, keep, armed, open, done, reaper>>

GiveUp(r) ==
    /\ at[r] = "wait"
    /\ r \in cancels \/ done
    /\ Out(r)
    /\ UNCHANGED <<slots, c, keep, armed, open, done, reaper>>

\* A connection that is gone, or has idled half the stall limit, is closed.
Check(r) ==
    /\ at[r] = "check"
    /\ \/ /\ c[r] \in open
          /\ at' = [at EXCEPT ![r] = "run"]
          /\ armed' = armed \cup {r}
          /\ UNCHANGED <<c, open>>
       \/ /\ c' = [c EXCEPT ![r] = NoConn]
          /\ open' = open \ {c[r]}
          /\ at' = [at EXCEPT ![r] = "dial"]
          /\ UNCHANGED armed
    /\ UNCHANGED <<slots, keep, cancels, done, reaper>>

DialOk(r) ==
    /\ at[r] = "dial"
    /\ \E n \in Conns \ open :
        /\ n \notin {c[q] : q \in Readers} \cup {slots[i] : i \in 1..Len(slots)}
        /\ c' = [c EXCEPT ![r] = n]
        /\ open' = open \cup {n}
    /\ armed' = armed \cup {r}
    /\ at' = [at EXCEPT ![r] = "run"]
    /\ UNCHANGED <<slots, keep, cancels, done, reaper>>

DialFailsOut(r) ==
    /\ at[r] = "dial"
    /\ Out(r)
    /\ UNCHANGED <<slots, c, keep, armed, open, done, reaper>>

DialFails(r) ==
    /\ at[r] = "dial"
    /\ at' = [at EXCEPT ![r] = "put"]
    /\ UNCHANGED <<slots, c, keep, armed, cancels, open, done, reaper>>

\* AfterFunc: the reader's context, or the login's end once the goroutine that
\* watches it has called cancel().
TimerCloses(r) ==
    /\ r \in armed
    /\ r \in cancels \/ done
    /\ armed' = armed \ {r}
    /\ open' = open \ {c[r]}
    /\ UNCHANGED <<slots, at, c, keep, cancels, done, reaper>>

\* f returned: keep = stop() && err == nil.
Returns(r) ==
    /\ at[r] = "run"
    /\ \E ok \in BOOLEAN : keep' = [keep EXCEPT ![r] = r \in armed /\ ok]
    /\ armed' = armed \ {r}
    /\ at' = [at EXCEPT ![r] = "put"]
    /\ UNCHANGED <<slots, c, cancels, open, done, reaper>>

PutWhileLive(r) ==
    /\ at[r] = "put"
    /\ slots' = IF done THEN slots ELSE Append(slots, IF keep[r] THEN c[r] ELSE NoConn)
    /\ open' = IF keep[r] /\ ~done THEN open ELSE open \ {c[r]}
    /\ c' = [c EXCEPT ![r] = NoConn]
    /\ keep' = [keep EXCEPT ![r] = FALSE]
    /\ Out(r)
    /\ UNCHANGED <<armed, done, reaper>>

\* The deferred send on the channel, which has room for MaxTransfers slots.
Put(r) ==
    /\ at[r] = "put"
    /\ Len(slots) < MaxTransfers
    /\ slots' = Append(slots, IF keep[r] THEN c[r] ELSE NoConn)
    /\ open' = IF keep[r] THEN open ELSE open \ {c[r]}
    /\ c' = [c EXCEPT ![r] = NoConn]
    /\ keep' = [keep EXCEPT ![r] = FALSE]
    /\ Out(r)
    /\ UNCHANGED <<armed, done, reaper>>

----------------------------------------------------------------------------

Cancel(r) ==
    /\ at[r] # "out"
    /\ r \notin cancels
    /\ cancels' = cancels \cup {r}
    /\ UNCHANGED <<slots, at, c, keep, armed, open, done, reaper>>

Close ==
    /\ ~done
    /\ done' = TRUE
    /\ UNCHANGED <<slots, at, c, keep, armed, cancels, open, reaper>>

\* reap: for len(s.transfers) > 0 { t := <-s.transfers ... }: looking at the
\* channel and receiving from it are two steps.
ReaperLooks ==
    /\ \/ reaper = "waits" /\ done
       \/ reaper = "looks"
    /\ reaper' = IF slots # <<>> THEN "takes" ELSE "gone"
    /\ UNCHANGED <<slots, at, c, keep, armed, cancels, open, done>>

ReaperTakes ==
    /\ reaper = "takes"
    /\ slots # <<>>
    /\ open' = open \ {Head(slots)}
    /\ slots' = Tail(slots)
    /\ reaper' = "looks"
    /\ UNCHANGED <<at, c, keep, armed, cancels, done>>

ServerDrops(n) ==
    /\ n \in open
    /\ open' = open \ {n}
    /\ UNCHANGED <<slots, at, c, keep, armed, cancels, done, reaper>>

Next ==
    \/ \E r \in Readers :
        \/ Call(r) \/ TakeSlot(r) \/ GiveUp(r) \/ Check(r) \/ DialOk(r) \/ DialFails(r)
        \/ TimerCloses(r) \/ Returns(r) \/ Put(r) \/ Cancel(r)
    \/ Close
    \/ ReaperLooks
    \/ ReaperTakes
    \/ \E n \in Conns : ServerDrops(n)

Spec == Init /\ [][Next]_vars

\* Goroutines run; a transfer ends when its server has fallen silent for
\* transferStall, so f returns; nobody has to call, cancel or close.
Fairness ==
    /\ \A r \in Readers :
        /\ WF_vars(Check(r))
        /\ WF_vars(DialOk(r) \/ DialFails(r))
        /\ WF_vars(TimerCloses(r))
        /\ WF_vars(Returns(r))
        /\ WF_vars(Put(r))
        /\ SF_vars(TakeSlot(r) \/ GiveUp(r))
    /\ WF_vars(ReaperLooks)
    /\ SF_vars(ReaperTakes)

FairSpec == Spec /\ Fairness

----------------------------------------------------------------------------
(* Properties *)

Holding == {r \in Readers : at[r] \in {"check", "dial", "run", "put"}}

\* Every slot taken is given back: with those in use the channel accounts for
\* all of them, so the deferred send never finds it full and never blocks; and
\* no connection is open outside a slot or a running transfer, so a login has
\* never more than slots ("Dovecot allows ten connections per user and address
\* by default").
SlotsAccounted ==
    /\ Len(slots) + Cardinality(Holding) <= MaxTransfers
    /\ reaper = "waits" => Len(slots) + Cardinality(Holding) = MaxTransfers
    /\ \A n \in open : (\E r \in Holding : c[r] = n) \/ (\E i \in 1..Len(slots) : slots[i] = n)

\* A transfer asked for ends, also when all slots are in use and when the reaper
\* has emptied the channel under it.
TransfersEnd == \A r \in Readers : at[r] # "out" ~> at[r] = "out"

\* The login's reaper ends, although its receive may find the slot it saw gone.
ReaperEnds == done ~> reaper = "gone"
=============================================================================
