--------------------------- MODULE Subscriptions ---------------------------
(***************************************************************************)
(* The calendars an account follows by their address                       *)
(* (pim/calendar/subscriptions.go): its list of subscriptions, one setting *)
(* that every alborz it signs in to reads and writes whole, and the fed    *)
(* calendars each alborz keeps, which reconcile makes agree with the list. *)
(* A page that opens the calendars runs it, and so does one that           *)
(* subscribes; each read, transaction and write of it is a step.           *)
(*                                                                         *)
(* Login.Update gives one alborz's changes of the list turns; the server's *)
(* METADATA has no compare-and-set, so two alborz may still write over     *)
(* each other.  A name and its colour are the time they were given at, by  *)
(* the clock of the alborz they were given on (ADR 62: "the clock of the   *)
(* instance that made the change"); each goes forward, and one may be any  *)
(* time behind another.  The objects of a calendar are Store's.            *)
(*                                                                         *)
(* A definition whose name extends another's is the other with a plausible *)
(* mistake in it; no specification uses it.                                *)
(***************************************************************************)
EXTENDS Naturals, FiniteSets

CONSTANTS
    Instances,    \* the alborz the account signs in to
    URLs,         \* the feeds
    Requests,     \* names for the requests under way
    Times,        \* the times each alborz's clock may show: no two show the same
    MaxCuts       \* bound on the requests cut short

ASSUME SubscriptionsAssumption ==
    /\ \A i \in Instances : Times[i] \subseteq Nat \ {0}
    /\ \A i, j \in Instances : i # j => Times[i] \cap Times[j] = {}
    /\ MaxCuts \in Nat

VARIABLES
    clock,    \* what each alborz's clock showed last
    list,     \* caldav.subscriptions: when each entry's name changed, 0 for no entry
    named,    \* Feed.Named of each alborz's calendars, 0 for no calendar
    dropped,  \* each alborz's Dropped records: when, 0 for none
    request,  \* the requests under way
    asked,    \* what the reader last asked for, where nothing was under way or dated later
    cuts      \* the requests cut short

svars == <<clock, list, named, dropped, request, asked, cuts>>

Nil == 0
Nothing == [u \in URLs |-> Nil]
Unclear == [does |-> "unclear", at |-> Nil]
Idle == [at |-> "idle", i |-> Nil, u |-> Nil, stamp |-> 0, read |-> Nothing, subs |-> Nothing,
         drop |-> {}, held |-> Nothing, todo |-> {}, relisted |-> FALSE, alone |-> FALSE]

SubsInit ==
    /\ clock = [i \in Instances |-> 0]
    /\ list = Nothing
    /\ named = [i \in Instances |-> Nothing] /\ dropped = [i \in Instances |-> Nothing]
    /\ request = [r \in Requests |-> Idle]
    /\ asked = [u \in URLs |-> Unclear]
    /\ cuts = 0

Listed(subs) == {u \in URLs : subs[u] # Nil}
Becomes(r, what) == request' = [request EXCEPT ![r] = what]
Begins(r, what) == request' = [q \in Requests |-> IF q = r THEN what ELSE [request[q] EXCEPT !.alone = FALSE]]
Rest == \A r \in Requests : request[r].at = "idle"

\* time.Now at i, which shows t.
Shows(i, t) == t \in Times[i] /\ t >= clock[i] /\ clock' = [clock EXCEPT ![i] = t]

\* What i dated t is the last on every clock.
InOrder(i, t) == clock[i] <= t /\ \A j \in Instances \ {i} : clock[j] < t

\* Login.Update's turn, from the read to the write.
TurnTaken(i) == \E r \in Requests : request[r].i = i /\ request[r].at \in {"adding", "read", "checked", "edits"}

\* Put writes what was read and edited, over whatever was written since.
Put(r) ==
    /\ list' = request[r].subs
    /\ asked' = IF list = request[r].read THEN asked ELSE [u \in URLs |-> Unclear]

----------------------------------------------------------------------------
(* reconcile *)

Opened(i) == [Idle EXCEPT !.at = "read", !.i = i, !.read = list, !.subs = list]

\* OpenWithFeeds: Update takes its turn and reads the list.
Open(r, i) ==
    /\ request[r].at = "idle" /\ ~TurnTaken(i)
    /\ Begins(r, Opened(i))
    /\ UNCHANGED <<clock, list, named, dropped, asked, cuts>>

\* st.Dropped: an entry not written after the delete leaves the list.
OutdatedAny(subs, gone, u) == gone[u] # Nil

Outdated(subs, gone, u) == gone[u] # Nil /\ subs[u] # Nil /\ subs[u] <= gone[u]

ReadDropped(r) ==
    LET q == request[r]
        gone == dropped[q.i]
        left == [u \in URLs |-> IF Outdated(q.subs, gone, u) THEN Nil ELSE q.subs[u]]
    IN /\ q.at = "read"
       /\ Becomes(r, [q EXCEPT !.at = "checked", !.subs = left, !.drop = Listed(gone), !.relisted = left # q.subs])
       /\ UNCHANGED <<clock, list, named, dropped, asked, cuts>>

\* st.Feeds
ReadFeeds(r) ==
    /\ request[r].at = "checked"
    /\ Becomes(r, [request[r] EXCEPT !.at = "edits", !.held = named[request[r].i], !.todo = Listed(request[r].subs)])
    /\ UNCHANGED <<clock, list, named, dropped, asked, cuts>>

\* The entry is no longer to do, and its calendar no longer one to delete.
Done(q, u) == [q EXCEPT !.todo = @ \ {u}, !.held[u] = Nil]

\* An entry with no calendar here: Create, which another may have made.
CreateCalendar(r, u) ==
    LET q == request[r]
    IN /\ q.at = "edits" /\ u \in q.todo /\ q.held[u] = Nil
       /\ IF named[q.i][u] = Nil
          THEN named' = [named EXCEPT ![q.i][u] = q.subs[u]] /\ dropped' = [dropped EXCEPT ![q.i][u] = Nil]
          ELSE UNCHANGED <<named, dropped>>
       /\ Becomes(r, Done(q, u))
       /\ UNCHANGED <<clock, list, asked, cuts>>

\* The calendar's name is the newer one, or is as new.
RelistUnwritten(r, u) ==
    LET q == request[r]
    IN /\ q.at = "edits" /\ u \in q.todo /\ q.held[u] >= q.subs[u]
       /\ Becomes(r, [Done(q, u) EXCEPT !.subs[u] = q.held[u]])
       /\ UNCHANGED <<clock, list, named, dropped, asked, cuts>>

Relist(r, u) ==
    LET q == request[r]
    IN /\ q.at = "edits" /\ u \in q.todo /\ q.held[u] >= q.subs[u]
       /\ Becomes(r, [Done(q, u) EXCEPT !.subs[u] = q.held[u], !.relisted = @ \/ q.held[u] > q.subs[u]])
       /\ UNCHANGED <<clock, list, named, dropped, asked, cuts>>

\* The entry's is: Update, which fails where the calendar was deleted meanwhile.
Rename(r, u) ==
    LET q == request[r]
    IN /\ q.at = "edits" /\ u \in q.todo /\ q.held[u] # Nil /\ q.held[u] < q.subs[u]
       /\ IF named[q.i][u] = Nil
          THEN Becomes(r, Idle) /\ UNCHANGED named
          ELSE Becomes(r, Done(q, u)) /\ named' = [named EXCEPT ![q.i][u] = q.subs[u]]
       /\ UNCHANGED <<clock, list, dropped, asked, cuts>>

\* The list is written only if it changed; the turn ends.
Write(r) ==
    LET q == request[r]
    IN /\ q.at = "edits" /\ q.todo = {}
       /\ IF q.relisted THEN Put(r) ELSE UNCHANGED <<list, asked>>
       /\ Becomes(r, [q EXCEPT !.at = "written"])
       /\ UNCHANGED <<clock, named, dropped, cuts>>

\* Delete of a calendar the list no longer names, which fails where it is gone.
DeleteUnlisted(r, u) ==
    LET q == request[r]
    IN /\ q.at = "written" /\ q.held[u] # Nil
       /\ IF named[q.i][u] = Nil
          THEN Becomes(r, Idle) /\ UNCHANGED <<clock, named, dropped>>
          ELSE \E t \in Times[q.i] :
                /\ Shows(q.i, t)
                /\ named' = [named EXCEPT ![q.i][u] = Nil]
                /\ dropped' = [dropped EXCEPT ![q.i][u] = t]
                /\ Becomes(r, [q EXCEPT !.held[u] = Nil, !.drop = @ \cup {u}])
       /\ UNCHANGED <<list, asked, cuts>>

\* Told, of those read and those deleted.
Told(r) ==
    LET q == request[r]
    IN /\ q.at = "written" /\ q.held = Nothing
       /\ dropped' = [dropped EXCEPT ![q.i] = [u \in URLs |-> IF u \in q.drop THEN Nil ELSE @[u]]]
       /\ Becomes(r, Idle)
       /\ UNCHANGED <<clock, list, named, asked, cuts>>

\* The server fails to answer, or the process dies.
CutShort(r) ==
    /\ request[r].at # "idle" /\ cuts < MaxCuts
    /\ cuts' = cuts + 1
    /\ Becomes(r, Idle)
    /\ UNCHANGED <<clock, list, named, dropped, asked>>

----------------------------------------------------------------------------
(* What the reader does *)

\* handleSubscribe: the entry is dated, then the feed is fetched.
AskToSubscribe(r, i, u) ==
    /\ request[r].at = "idle" /\ list[u] = Nil
    /\ \E t \in Times[i] \ {clock[i]} :
        /\ Shows(i, t)
        /\ Begins(r, [Idle EXCEPT !.at = "fetching", !.i = i, !.u = u, !.stamp = t, !.alone = Rest])
    /\ UNCHANGED <<list, named, dropped, asked, cuts>>

\* Subscribe reads the list, and leaves one that names the feed.
Subscribe(r) ==
    LET q == request[r]
    IN /\ q.at = "fetching" /\ ~TurnTaken(q.i)
       /\ Becomes(r, IF list[q.u] # Nil THEN Idle
                     ELSE [q EXCEPT !.at = "adding", !.read = list, !.subs = [list EXCEPT ![q.u] = q.stamp]])
       /\ UNCHANGED <<clock, list, named, dropped, asked, cuts>>

\* It is written, and Fill reconciles.
Subscribed(r) ==
    LET q == request[r]
    IN /\ q.at = "adding"
       /\ list' = q.subs
       /\ asked' = IF list # q.read THEN [u \in URLs |-> Unclear]
                   ELSE [asked EXCEPT ![q.u] = IF q.alone /\ InOrder(q.i, q.stamp) THEN [does |-> "on", at |-> q.i] ELSE Unclear]
       /\ Becomes(r, [Idle EXCEPT !.at = "fills", !.i = q.i])
       /\ UNCHANGED <<clock, named, dropped, cuts>>

FillCalendars(r) ==
    /\ request[r].at = "fills" /\ ~TurnTaken(request[r].i)
    /\ Becomes(r, Opened(request[r].i))
    /\ UNCHANGED <<clock, list, named, dropped, asked, cuts>>

\* Store.Delete, from a page or a DAV client: a fed calendar leaves a Dropped.
DeleteCalendar(i, u) ==
    /\ named[i][u] # Nil
    /\ named' = [named EXCEPT ![i][u] = Nil]
    /\ \E t \in Times[i] \ {clock[i]} :
        /\ Shows(i, t)
        /\ dropped' = [dropped EXCEPT ![i][u] = t]
        /\ asked' = [asked EXCEPT ![u] = IF Rest /\ InOrder(i, t) THEN [does |-> "off", at |-> i] ELSE Unclear]
    /\ UNCHANGED <<list, request, cuts>>

\* Store.Update of its name or colour; a rename after a delete counts as a new wish.
GiveName(i, u) ==
    /\ named[i][u] # Nil
    /\ \E t \in Times[i] \ {clock[i]} : Shows(i, t) /\ named' = [named EXCEPT ![i][u] = t]
    /\ asked' = IF asked[u].does = "off" THEN [asked EXCEPT ![u] = Unclear] ELSE asked
    /\ UNCHANGED <<list, dropped, request, cuts>>

----------------------------------------------------------------------------

Step(r) ==
    \/ ReadDropped(r) \/ ReadFeeds(r) \/ Write(r) \/ Told(r) \/ Subscribe(r) \/ Subscribed(r) \/ FillCalendars(r)
    \/ \E u \in URLs : CreateCalendar(r, u) \/ Relist(r, u) \/ Rename(r, u) \/ DeleteUnlisted(r, u)

SubsNext ==
    \/ \E r \in Requests : Step(r) \/ CutShort(r)
    \/ \E r \in Requests, i \in Instances : Open(r, i) \/ \E u \in URLs : AskToSubscribe(r, i, u)
    \/ \E i \in Instances, u \in URLs : DeleteCalendar(i, u) \/ GiveName(i, u)

\* A request goes on, and the reader opens the calendars on every alborz again
\* and again (ADR 62: changes "propagate only when a page opens the calendars").
Fairness ==
    /\ \A r \in Requests : WF_svars(Step(r))
    /\ \A i \in Instances : SF_svars(\E r \in Requests : Open(r, i))

SubsSpec == SubsInit /\ [][SubsNext]_svars /\ Fairness

----------------------------------------------------------------------------
(* Properties *)

\* What the reader asked for with nothing else under way, and dated after what
\* every other alborz dated, stands: a calendar deleted is not made again where
\* it was deleted, and a feed subscribed to stays on the list, until the reader
\* asks for something else; requests cut short, records not told yet, other
\* alborz that still have the calendar, and what one with a clock behind does
\* later notwithstanding (reconcile: "An entry written after the delete is the
\* reader subscribing again").
ReaderObeyed ==
    \A u \in URLs :
        /\ asked[u].does = "off" => named[asked[u].at][u] = Nil
        /\ asked[u].does = "on" => list[u] # Nil

\* Once the reader is done and opens the calendars everywhere, the list and every
\* alborz's calendars agree on what is followed and what it is called, and no
\* delete is left to tell of, whoever wrote over whom and whatever the clocks
\* showed before (reconcile: "makes the account's fed calendars here agree with
\* its list of subscriptions").
AgreeAtLast == <>[](\A i \in Instances : named[i] = list /\ dropped[i] = Nothing)
=============================================================================
