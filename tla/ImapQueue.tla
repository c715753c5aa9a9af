----------------------------- MODULE ImapQueue -----------------------------
(***************************************************************************)
(* The queue in front of one IMAP connection of a login (imap_queue.go).   *)
(* Callers of DoIMAPWork take the connection with acquire and give it back *)
(* with release; release hands it to a waiter without ever marking it      *)
(* free, and a caller whose context ends while it waits either leaves the  *)
(* queue or finds that the hand-off was faster and passes it on.           *)
(*                                                                         *)
(* Every action is one section of the code under q.mu, or one choice of    *)
(* the select in acquire.  What a caller does between acquire and release  *)
(* is the subject of LoginLane.                                            *)
(*                                                                         *)
(* A definition whose name extends another's (IsNextHead for IsNext) is    *)
(* the other with a plausible mistake in it; no specification uses it.     *)
(***************************************************************************)
EXTENDS Integers, Sequences, FiniteSets, SequencesExt

CONSTANTS
    Requests,    \* callers of DoIMAPWork, each with a context and a deadline
    Background,  \* those of class IMAPBackground
    Causes,      \* why a request's context may end
    Reaper,      \* loginManager.reap: acquires with done = nil, once
    QueueLimit   \* imapQueueLimit

ASSUME RequestsAssumption ==
    /\ Background \subseteq Requests
    /\ Reaper \notin Requests
    /\ "deadline" \in Causes  \* DoIMAPWork puts one on wait and run
    /\ QueueLimit \in Nat \ {0}

VARIABLES
    busy,      \* imapQueue.busy
    waiters,   \* imapQueue.waiters, each named by the caller it belongs to
    ready,     \* the callers whose imapWaiter.ready is closed and not yet seen
    pc,        \* where each caller is in acquire ... release
    ended,     \* why each request's context has ended, {} while it has not
    done       \* Login.closed is closed

qvars == <<busy, waiters, ready, pc, ended, done>>

Callers == Requests \cup {Reaper}

Queued(p) == \E i \in 1..Len(waiters) : waiters[i] = p

\* The caller owns the connection, knowingly or not.
Holds(p) == pc[p] \in {"owner", "handback"} \/ p \in ready

\* Types, and that a caller is queued at most once.
TypeOK ==
    /\ busy \in BOOLEAN
    /\ waiters \in Seq(Callers)
    /\ \A i, j \in 1..Len(waiters) : waiters[i] = waiters[j] => i = j
    /\ ready \subseteq Callers
    /\ pc \in [Callers -> {"idle", "waiting", "leaving", "handback", "owner", "out"}]
    /\ ended \in [Requests -> SUBSET Causes]
    /\ done \in BOOLEAN

Init ==
    /\ busy = FALSE
    /\ waiters = <<>>
    /\ ready = {}
    /\ pc = [p \in Callers |-> "idle"]
    /\ ended = [p \in Requests |-> {}]
    /\ done = FALSE

----------------------------------------------------------------------------
(* acquire *)

\* What acquire's done and ctx say of p; the reaper passes neither.
Withdrawn(p) == p \in Requests /\ (ended[p] # {} \/ done)

\* The reaper calls acquire only after its own s.Close().
MayCall(p) == pc[p] = "idle" /\ (p = Reaper => done)

\* A request that is over; the next one of this caller has a fresh context.
Over(p) ==
    /\ pc' = [pc EXCEPT ![p] = IF p = Reaper THEN "out" ELSE "idle"]
    /\ ended' = [q \in Requests |-> IF q = p THEN {} ELSE ended[q]]

AcquireRefused(p) ==
    /\ MayCall(p)
    /\ Withdrawn(p)
    /\ Over(p)
    /\ UNCHANGED <<busy, waiters, ready, done>>

AcquireFree(p) ==
    /\ MayCall(p)
    /\ ~Withdrawn(p)
    /\ ~busy
    /\ busy' = TRUE
    /\ pc' = [pc EXCEPT ![p] = "owner"]
    /\ UNCHANGED <<waiters, ready, ended, done>>

AcquireFull(p) ==
    /\ MayCall(p)
    /\ ~Withdrawn(p)
    /\ busy
    /\ p # Reaper
    /\ Len(waiters) >= QueueLimit
    /\ Over(p)
    /\ UNCHANGED <<busy, waiters, ready, done>>

AcquireWaitUnbounded(p) ==
    /\ MayCall(p)
    /\ ~Withdrawn(p)
    /\ busy
    /\ waiters' = Append(waiters, p)
    /\ pc' = [pc EXCEPT ![p] = "waiting"]
    /\ UNCHANGED <<busy, ready, ended, done>>

AcquireWait(p) ==
    /\ MayCall(p)
    /\ ~Withdrawn(p)
    /\ busy
    /\ p = Reaper \/ Len(waiters) < QueueLimit
    /\ waiters' = Append(waiters, p)
    /\ pc' = [pc EXCEPT ![p] = "waiting"]
    /\ UNCHANGED <<busy, ready, ended, done>>

\* The select: <-w.ready.  With several channels ready Go picks any of them,
\* so this and Withdraw may both be enabled.
TakeReady(p) ==
    /\ pc[p] = "waiting"
    /\ p \in ready
    /\ ready' = ready \ {p}
    /\ pc' = [pc EXCEPT ![p] = "owner"]
    /\ UNCHANGED <<busy, waiters, ended, done>>

WithdrawDoneOnly(p) ==
    /\ pc[p] = "waiting"
    /\ p \in Requests /\ done
    /\ pc' = [pc EXCEPT ![p] = "leaving"]
    /\ UNCHANGED <<busy, waiters, ready, ended, done>>

\* The select: <-ctx.Done() or <-done.
Withdraw(p) ==
    /\ pc[p] = "waiting"
    /\ Withdrawn(p)
    /\ pc' = [pc EXCEPT ![p] = "leaving"]
    /\ UNCHANGED <<busy, waiters, ready, ended, done>>

\* Under q.mu again: still queued, so leave the queue.
LeaveQueue(p) ==
    /\ pc[p] = "leaving"
    /\ \E i \in 1..Len(waiters) :
        /\ waiters[i] = p
        /\ waiters' = RemoveAt(waiters, i)
    /\ Over(p)
    /\ UNCHANGED <<busy, ready, done>>

FindGrantedForgets(p) ==
    /\ pc[p] = "leaving"
    /\ ~Queued(p)
    /\ ready' = ready \ {p}
    /\ Over(p)
    /\ UNCHANGED <<busy, waiters, done>>

FindGrantedUnchecked(p) ==
    /\ pc[p] = "leaving"
    /\ ready' = ready \ {p}
    /\ pc' = [pc EXCEPT ![p] = "handback"]
    /\ UNCHANGED <<busy, waiters, ended, done>>

\* No longer queued: ownership arrived at the same instant.
FindGranted(p) ==
    /\ pc[p] = "leaving"
    /\ ~Queued(p)
    /\ ready' = ready \ {p}
    /\ pc' = [pc EXCEPT ![p] = "handback"]
    /\ UNCHANGED <<busy, waiters, ended, done>>

----------------------------------------------------------------------------
(* release *)

Interactive(i) == waiters[i] \notin Background

IsNextHead(i) == i = 1

\* The first interactive waiter, or the head when all are background.
IsNext(i) ==
    \/ /\ Interactive(i)
       /\ \A j \in 1..(i - 1) : ~Interactive(j)
    \/ /\ i = 1
       /\ \A j \in 1..Len(waiters) : ~Interactive(j)

HandOffFrees(i) ==
    /\ waiters' = RemoveAt(waiters, i)
    /\ ready' = ready \cup {waiters[i]}
    /\ busy' = FALSE

HandOff(i) ==
    /\ waiters' = RemoveAt(waiters, i)
    /\ ready' = ready \cup {waiters[i]}
    /\ UNCHANGED busy

Free ==
    /\ waiters = <<>>
    /\ busy' = FALSE
    /\ UNCHANGED <<waiters, ready>>

release == Free \/ \E i \in 1..Len(waiters) : IsNext(i) /\ HandOff(i)

\* DoIMAPWork's deferred release, the reaper's, and the one in acquire.
Release(p) ==
    /\ pc[p] \in {"owner", "handback"}
    /\ release
    /\ Over(p)
    /\ UNCHANGED done

----------------------------------------------------------------------------
(* What happens to the callers *)

EndContext(p, cause) ==
    /\ cause \notin ended[p]
    /\ ended' = [ended EXCEPT ![p] = @ \cup {cause}]
    /\ UNCHANGED <<busy, waiters, ready, pc, done>>

\* Login.Close, whoever calls it.
Close ==
    /\ ~done
    /\ done' = TRUE
    /\ UNCHANGED <<busy, waiters, ready, pc, ended>>

Acquire(p) ==
    AcquireRefused(p) \/ AcquireFree(p) \/ AcquireFull(p) \/ AcquireWait(p)

Leave(p) == LeaveQueue(p) \/ FindGranted(p)

Next ==
    \/ \E p \in Callers :
        Acquire(p) \/ TakeReady(p) \/ Withdraw(p) \/ Leave(p) \/ Release(p)
    \/ \E p \in Requests, cause \in Causes : EndContext(p, cause)
    \/ Close

Spec == Init /\ [][Next]_qvars

\* A deadline is a timer, and an owner's run ends with it (LoginLane); the
\* goroutines of acquire are scheduled.  Nobody has to call, cancel or close,
\* except the reaper once the login is closed.
Fairness ==
    /\ \A p \in Callers :
        /\ WF_qvars(TakeReady(p) \/ Withdraw(p))
        /\ WF_qvars(Leave(p))
        /\ WF_qvars(Release(p))
    /\ \A p \in Requests : WF_qvars(EndContext(p, "deadline"))
    /\ WF_qvars(Acquire(Reaper))

FairSpec == Spec /\ Fairness

----------------------------------------------------------------------------
(* Properties *)

\* Exactly one caller holds a busy connection and none a free one: a hand-off
\* is never lost when it crosses a cancellation, and never doubled
\* (acquire's "Ownership may have arrived at the same instant").
OneHolder ==
    /\ \A p, q \in Callers : Holds(p) /\ Holds(q) => p = q
    /\ busy <=> \E p \in Callers : Holds(p)

\* A caller is between acquire's two critical sections exactly while its
\* waiter is queued or granted, and never both.
WaitersKnown ==
    \A p \in Callers :
        /\ pc[p] \in {"waiting", "leaving"} <=> Queued(p) \/ p \in ready
        /\ ~(Queued(p) /\ p \in ready)

\* Nobody waits behind a free connection, so release can mark it free only
\* with an empty queue and a newcomer never overtakes the queue.
NobodyWaitsForFree == waiters # <<>> => busy

\* Requests alone never exceed imapQueueLimit; the reaper, never refused,
\* may be one more.
QueueBounded == Len(waiters) <= QueueLimit + (IF Queued(Reaper) THEN 1 ELSE 0)

\* Who is handed the connection: no background waiter passes an interactive
\* one, and no waiter passes one of its own class that queued before it.
Outranked(i) ==
    \E j \in 1..Len(waiters) :
        \/ j < i /\ (Interactive(j) <=> Interactive(i))
        \/ Interactive(j) /\ ~Interactive(i)

HandOffInOrder ==
    [][\A i \in 1..Len(waiters) :
        waiters[i] \in ready' \ ready => ~Outranked(i)]_qvars

\* A caller that queued owns the connection or is told why not: the deadline
\* frees even a background waiter that interactive ones overtake for ever.
WaitEnds == \A p \in Callers : pc[p] \in {"waiting", "leaving"} ~> pc[p] \notin {"waiting", "leaving"}

\* The reaper, which no deadline frees, gets the connection of a closed login.
ReaperServed == done ~> pc[Reaper] \in {"owner", "out"}

\* imapQueue implements Lane: in every interleaving of calls, cancellations and
\* hand-offs it looks like a connection that at most one caller has.
lane == INSTANCE Lane WITH
            holders <- {p \in Callers : Holds(p)},
            wants <- {p \in Callers : Queued(p)}

ImplementsLane == lane!LaneSpec
=============================================================================
