----------------------------- MODULE LoginLane -----------------------------
(***************************************************************************)
(* One lane of a login: the queue of ImapQueue and the connection behind   *)
(* it, as DoIMAPWork and the reaper use them (login.go).  An owner checks  *)
(* the connection, dials a new one if it is gone, arms a timer that closes *)
(* it when the deadline passes or the login ends, runs its commands, and   *)
(* stops the timer before it releases the lane.                            *)
(*                                                                         *)
(* The lane's connection is a name from Conns; conn may go on naming a     *)
(* connection that is no longer open, as the code's pointer does.          *)
(*                                                                         *)
(* A definition whose name extends another's is the other with a plausible *)
(* mistake in it; no specification uses it.                                *)
(***************************************************************************)
EXTENDS ImapQueue

CONSTANTS
    Conns,   \* names for the connections dialled
    NoConn   \* a nil *imapclient.Client

ASSUME ConnsAssumption == NoConn \notin Conns

VARIABLES
    conn,    \* Login.imapConn or workConn
    open,    \* the connections whose socket is open: State() is not Logout
    step,    \* where the owner is in DoIMAPWork
    timer,   \* the owner's context.AfterFunc
    target   \* the connection c that AfterFunc closes

lanevars == <<conn, open, step, timer, target>>
vars == <<qvars, lanevars>>

LaneTypeOK ==
    /\ TypeOK
    /\ conn \in Conns \cup {NoConn}
    /\ open \subseteq Conns
    /\ step \in [Callers -> {"none", "dial", "run", "stop", "return"}]
    /\ timer \in [Requests -> {"off", "armed", "firing", "fired"}]
    /\ target \in [Requests -> Conns \cup {NoConn}]
    /\ \A p \in Callers : step[p] # "none" => pc[p] = "owner"

\* A login starts with the connection put signed in on; the work lane with none.
LaneInit ==
    /\ Init
    /\ conn \in Conns \cup {NoConn}
    /\ open = {conn} \ {NoConn}
    /\ step = [p \in Callers |-> "none"]
    /\ timer = [p \in Requests |-> "off"]
    /\ target = [p \in Requests |-> NoConn]

----------------------------------------------------------------------------
(* DoIMAPWork, once it owns the lane *)

Begins(p) == p \in Requests /\ pc[p] = "owner" /\ step[p] = "none"

\* The reader is gone, start() says no, the deadline has passed, or the
\* goroutine that watches Done cancelled before the context was looked at.
\* Not every caller has a start(), and only its own call tells.
BeginReturns(p) ==
    /\ Begins(p)
    /\ step' = [step EXCEPT ![p] = "return"]
    /\ UNCHANGED <<qvars, conn, open, timer, target>>

MayRun(p) == ended[p] = {}

Arm(p, c) ==
    /\ timer' = [timer EXCEPT ![p] = "armed"]
    /\ target' = [target EXCEPT ![p] = c]
    /\ step' = [step EXCEPT ![p] = "run"]

BeginReuse(p) ==
    /\ Begins(p)
    /\ MayRun(p)
    /\ conn \in open
    /\ Arm(p, conn)
    /\ UNCHANGED <<qvars, conn, open>>

\* Nil, or in the Logout state: closed for good and replaced.
BeginDial(p) ==
    /\ Begins(p)
    /\ MayRun(p)
    /\ conn \notin open
    /\ conn' = NoConn
    /\ step' = [step EXCEPT ![p] = "dial"]
    /\ UNCHANGED <<qvars, open, timer, target>>

\* connectIMAPContext: the sign-in may still win against the deadline or the
\* end of the login, and the timer armed next then fires at once.
DialOk(p) ==
    /\ step[p] = "dial"
    /\ \E c \in Conns \ (open \cup {conn}) :
        /\ conn' = c
        /\ open' = open \cup {c}
        /\ Arm(p, c)
    /\ UNCHANGED qvars

\* It fails, and leaves no connection; a refused password ends the login.  A
\* server that lacks what alborz needs (BaselineError) counts as one not reached:
\* it is logged out of before anybody has the connection.
DialFails(p) ==
    /\ step[p] = "dial"
    /\ step' = [step EXCEPT ![p] = "return"]
    /\ done' \in {done, TRUE}
    /\ UNCHANGED <<busy, waiters, ready, pc, ended, conn, open, timer, target>>

RunEndedByLogin(p) == done

\* The run's own context: the deadline, or the login's end by way of cancel().
\* The reader's going away does not end it.
RunEnded(p) == "deadline" \in ended[p] \/ done

TimerFires(p) ==
    /\ timer[p] = "armed"
    /\ RunEnded(p)
    /\ timer' = [timer EXCEPT ![p] = "firing"]
    /\ UNCHANGED <<qvars, conn, open, step, target>>

TimerClosesUnsignalled(p) ==
    /\ timer[p] = "firing"
    /\ open' = open \ {target[p]}
    /\ UNCHANGED <<qvars, conn, step, timer, target>>

TimerCloses(p) ==
    /\ timer[p] = "firing"
    /\ open' = open \ {target[p]}
    /\ timer' = [timer EXCEPT ![p] = "fired"]
    /\ UNCHANGED <<qvars, conn, step, target>>

\* f returns: its commands were answered, or its connection closed.
WorkReturns(p) ==
    /\ step[p] = "run"
    /\ step' = [step EXCEPT ![p] = "stop"]
    /\ UNCHANGED <<qvars, conn, open, timer, target>>

StopTimerKeepsConn(p) ==
    /\ step[p] = "stop"
    /\ step' = [step EXCEPT ![p] = "return"]
    /\ \/ timer[p] = "armed" /\ timer' = [timer EXCEPT ![p] = "off"]
       \/ timer[p] \in {"firing", "fired"} /\ UNCHANGED timer
    /\ UNCHANGED <<qvars, conn, open, target>>

\* The deferred stop(): in time, or too late, and then it waits for <-stopped
\* and forgets the connection.
StopTimer(p) ==
    /\ step[p] = "stop"
    /\ step' = [step EXCEPT ![p] = "return"]
    /\ \/ timer[p] = "armed" /\ UNCHANGED conn
       \/ timer[p] = "fired" /\ conn' = NoConn
    /\ timer' = [timer EXCEPT ![p] = "off"]
    /\ UNCHANGED <<qvars, open, target>>

ReaperForgets ==
    /\ pc[Reaper] = "owner"
    /\ step[Reaper] = "none"
    /\ conn' = NoConn
    /\ step' = [step EXCEPT ![Reaper] = "return"]
    /\ UNCHANGED <<qvars, open, timer, target>>

\* The reaper with the lane in hand: the connection goes, its name stays.
ReaperCloses ==
    /\ pc[Reaper] = "owner"
    /\ step[Reaper] = "none"
    /\ open' = open \ {conn}
    /\ step' = [step EXCEPT ![Reaper] = "return"]
    /\ UNCHANGED <<qvars, conn, timer, target>>

ReleaseLane(p) ==
    /\ pc[p] = "owner" => step[p] = "return"
    /\ Release(p)
    /\ step' = [step EXCEPT ![p] = "none"]
    /\ UNCHANGED <<conn, open, timer, target>>

\* The mail server, or the network, ends a connection.
ServerDrops(c) ==
    /\ c \in open
    /\ open' = open \ {c}
    /\ UNCHANGED <<qvars, conn, step, timer, target>>

----------------------------------------------------------------------------

QueueStep(p) ==
    /\ Acquire(p) \/ TakeReady(p) \/ Withdraw(p) \/ Leave(p)
    /\ UNCHANGED lanevars

Begin(p) == BeginReturns(p) \/ BeginReuse(p) \/ BeginDial(p)

Dial(p) == DialOk(p) \/ DialFails(p)

LaneNext ==
    \/ \E p \in Callers : QueueStep(p) \/ ReleaseLane(p)
    \/ \E p \in Requests :
        \/ Begin(p) \/ Dial(p) \/ TimerFires(p) \/ TimerCloses(p)
        \/ WorkReturns(p) \/ StopTimer(p)
    \/ ReaperCloses
    \/ \E p \in Requests, cause \in Causes : EndContext(p, cause) /\ UNCHANGED lanevars
    \/ Close /\ UNCHANGED lanevars
    \/ \E c \in Conns : ServerDrops(c)

LaneSpec == LaneInit /\ [][LaneNext]_vars

\* f is sure to return only once its connection is closed: a server that does
\* not answer holds the lane until the deadline.  Everything else is a
\* goroutine or a timer, and dialling has timeouts of its own.
LaneFairness ==
    /\ \A p \in Callers :
        /\ WF_vars((TakeReady(p) \/ Withdraw(p)) /\ UNCHANGED lanevars)
        /\ WF_vars(Leave(p) /\ UNCHANGED lanevars)
        /\ WF_vars(ReleaseLane(p))
    /\ \A p \in Requests :
        /\ WF_vars(EndContext(p, "deadline") /\ UNCHANGED lanevars)
        /\ WF_vars(Begin(p))
        /\ WF_vars(Dial(p))
        /\ WF_vars(TimerFires(p))
        /\ WF_vars(TimerCloses(p))
        /\ WF_vars(WorkReturns(p) /\ target[p] \notin open)
        /\ WF_vars(StopTimer(p))
    /\ WF_vars(ReaperCloses)
    /\ WF_vars(Acquire(Reaper) /\ UNCHANGED lanevars)

FairLaneSpec == LaneSpec /\ LaneFairness

----------------------------------------------------------------------------
(* Properties *)

\* The timer of a request closes the connection only while that request owns
\* the lane: a deadline that passes late never cuts the next request's
\* commands (login.go: the deferred stop waits for stopped).
TimerHitsOwnRun ==
    \A p \in Requests :
        timer[p] \in {"armed", "firing"} =>
            pc[p] = "owner" /\ step[p] \in {"run", "stop"} /\ target[p] = conn

\* No connection is open that the lane does not know: timeouts, refused
\* sign-ins, drops and the reaper lose none.
NoConnectionLost == open \subseteq {conn}

\* The queue's callers, owners included, behave as ImapQueue says, its
\* fairness included: whatever the server does, an owner releases the lane.
LaneKeepsQueue == FairSpec

\* A request that holds the lane gets rid of it even if the server never answers.
OwnerReturns == \A p \in Requests : pc[p] = "owner" ~> pc[p] = "idle"
=============================================================================
