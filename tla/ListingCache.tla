---------------------------- MODULE ListingCache ----------------------------
(***************************************************************************)
(* The listing kept of one page of a folder (mail/cache.go, with           *)
(* prefetch.go, cacheevents.go and watch.go).  Readers are served what is  *)
(* held, and loads and revalidations replace it, while the account's own   *)
(* writes patch or evict it and the IDLE watcher applies what the server   *)
(* announces.  Pages share nothing but the account's generation and their  *)
(* view's order.                                                           *)
(*                                                                         *)
(* The folder's state is the sequence of changes made to it; a listing is  *)
(* the set of changes that went into it.  The generation is only ever      *)
(* compared with the present one, so whoever noted it keeps whether it     *)
(* still is: "current".  A listing's age is anything, so that one whose    *)
(* stamp is not zeroed may be found fresh or stale.  A fetch may begin at  *)
(* any time after it is asked for: which connection it waits for, and that *)
(* a reader takes over a speculative one still waiting, is left out.       *)
(*                                                                         *)
(* A definition whose name extends another's is the other with a plausible *)
(* mistake in it; no specification uses it.                                *)
(***************************************************************************)
EXTENDS Integers, Sequences, FiniteSets

CONSTANTS
    Readers,    \* requests for the page
    Ahead,      \* requests for the page before it, which fetch this one ahead
    Jobs,       \* names for the goroutines of load and revalidate
    Nobody,
    MaxChanges  \* bound on the changes made to the folder

ASSUME ListingAssumption ==
    /\ MaxChanges \in Nat
    /\ Nobody \notin Jobs
    /\ Readers \cap Ahead = {}

VARIABLES
    ordered,     \* the page is of a filtered view: its members come from its order
    kind,        \* what each change made to the folder is
    written,     \* the own write that is made and not yet in the caches, or 0
    confirmed,   \* the reader's own writes that are
    watch,       \* the watcher: "off", "selected" or "on"
    told,        \* how many changes its connection has told
    known,       \* the changes of membership the watcher has reported
    entry,       \* listingCache.entries
    order,       \* listingCache.orders: how many changes the held order shows
    refreshing,  \* listingCache.refreshing
    job,         \* the goroutines of load, which are the flights, and revalidate
    caller       \* where each request is

vars == <<ordered, kind, written, confirmed, watch, told, known, entry, order, refreshing, job, caller>>
folder == <<ordered, kind, written, confirmed>>
watcher == <<watch, told, known>>
cache == <<entry, order, refreshing>>

NoOrder == -1

\* The reader's own: flags set by hand, a message opened and so marked read, a
\* move.  Another client's: messages come or gone, flags set.
Own == {"flag", "seen", "move"}
Foreign == {"traffic", "remark"}
OfMembers(c) == kind[c] \in {"move", "traffic"}

NoEntry == [zeroed |-> FALSE, changed |-> FALSE, has |-> {}, snap |-> -1]

JobOff == [at |-> "off", flight |-> FALSE, current |-> FALSE, asked |-> FALSE, has |-> {}, snap |-> 0]

CallerOff == [at |-> "idle", job |-> Nobody, must |-> {}, snap |-> 0]

Requests == Readers \cup Ahead

\* The goroutines that claimed the page: revalidations and prefetches.
Revalidations == {j \in Jobs : job[j].at # "off" /\ ~job[j].flight}
Prefetches == {p \in Ahead : caller[p].at \in {"load", "wait", "release"}}

\* Types, and that the page is claimed exactly while one goroutine, a
\* revalidation or a prefetch, is at it.
TypeOK ==
    /\ ordered \in BOOLEAN
    /\ kind \in Seq(Own \cup Foreign) /\ Len(kind) <= MaxChanges
    /\ written \in 0..Len(kind)
    /\ confirmed \subseteq 1..Len(kind)
    /\ watch \in {"off", "selected", "on"}
    /\ told \in 0..Len(kind)
    /\ known \subseteq 1..Len(kind)
    /\ entry = NoEntry \/ entry.snap \in 0..Len(kind)
    /\ entry.has \subseteq 1..Len(kind)
    /\ order \in NoOrder..Len(kind)
    /\ \A j \in Jobs : job[j].at \in {"off", "look", "check", "refresh", "status", "rows", "order", "store", "close"}
    /\ \A p \in Readers : caller[p].at \in {"idle", "stale", "wait"}
    /\ \A p \in Ahead : caller[p].at \in {"idle", "missing", "load", "wait", "release"}
    /\ \A p \in Requests : caller[p].at = "wait" => job[caller[p].job].flight
    /\ Cardinality(Revalidations) + Cardinality(Prefetches) = IF refreshing THEN 1 ELSE 0

Init ==
    /\ ordered \in BOOLEAN
    /\ kind = <<>>
    /\ written = 0
    /\ confirmed = {}
    /\ watch = "off"
    /\ told = 0
    /\ known = {}
    /\ entry = NoEntry
    /\ order = NoOrder
    /\ refreshing = FALSE
    /\ job = [j \in Jobs |-> JobOff]
    /\ caller = [p \in Requests |-> CallerOff]

----------------------------------------------------------------------------
(* listing and load: the callers *)

\* lookup finds it and listing may serve it.
Held == entry # NoEntry /\ ~entry.changed

\* What a page asked for now has to show.
Due == confirmed \cup known

\* A fresh listing is served and nothing changes; a stale one is served and
\* then checked.
ReadStale(p) ==
    /\ caller[p].at = "idle"
    /\ Held
    /\ caller' = [caller EXCEPT ![p].at = "stale", ![p].snap = entry.snap]
    /\ UNCHANGED <<folder, watcher, cache, job>>

\* revalidate: claim and epoch, then a goroutine on the work connection.
Revalidate(p) ==
    /\ caller[p].at = "stale"
    /\ ~refreshing
    /\ \E j \in Jobs :
        /\ job[j].at = "off"
        /\ job' = [job EXCEPT ![j] = [JobOff EXCEPT !.at = "check", !.current = TRUE, !.snap = caller[p].snap]]
    /\ refreshing' = TRUE
    /\ caller' = [caller EXCEPT ![p] = CallerOff]
    /\ UNCHANGED <<folder, watcher, entry, order>>

\* prefetchPage: a page of which nothing is held,
LookAhead(p) ==
    /\ caller[p].at = "idle"
    /\ entry = NoEntry
    /\ caller' = [caller EXCEPT ![p].at = "missing"]
    /\ UNCHANGED <<folder, watcher, cache, job>>

\* and that nobody is at, is claimed, and a goroutine loads it.
Prefetch(p) ==
    /\ caller[p].at = "missing"
    /\ ~refreshing
    /\ refreshing' = TRUE
    /\ caller' = [caller EXCEPT ![p].at = "load"]
    /\ UNCHANGED <<folder, watcher, entry, order, job>>

\* Somebody is at it.
Claimed(p) ==
    /\ caller[p].at \in {"stale", "missing"}
    /\ refreshing
    /\ caller' = [caller EXCEPT ![p] = CallerOff]
    /\ UNCHANGED <<folder, watcher, cache, job>>

FlightOfAnyTime == {j \in Jobs : job[j].at # "off" /\ job[j].flight}

\* The flight of this page and generation, if there is one.
Flight == {j \in Jobs : job[j].at # "off" /\ job[j].flight /\ job[j].current}

\* Nobody sees what a prefetch is answered.
Waits(p, j) == [caller EXCEPT ![p] = [at |-> "wait", job |-> j, must |-> IF p \in Ahead THEN {} ELSE Due, snap |-> 0]]

\* load: for a listing that is not there or known to be wrong, for warmInbox
\* whatever is held, and for a prefetch.
Create(p) ==
    /\ caller[p].at = IF p \in Ahead THEN "load" ELSE "idle"
    /\ Flight = {}
    /\ \E j \in Jobs :
        /\ job[j].at = "off"
        /\ job' = [job EXCEPT ![j] = [JobOff EXCEPT !.at = "look", !.flight = TRUE, !.current = TRUE]]
        /\ caller' = Waits(p, j)
    /\ UNCHANGED <<folder, watcher, cache>>

Join(p) ==
    /\ caller[p].at = IF p \in Ahead THEN "load" ELSE "idle"
    /\ \E j \in Flight : caller' = Waits(p, j)
    /\ UNCHANGED <<folder, watcher, cache, job>>

\* A reader's context ends; the flight goes on.  A prefetch's never does.
Cancel(p) ==
    /\ caller[p].at = "wait"
    /\ caller' = [caller EXCEPT ![p] = CallerOff]
    /\ UNCHANGED <<folder, watcher, cache, job>>

\* A prefetch that has its answer, or a failure, gives the claim back.
Release(p) ==
    /\ caller[p].at = "release"
    /\ refreshing' = FALSE
    /\ caller' = [caller EXCEPT ![p] = CallerOff]
    /\ UNCHANGED <<folder, watcher, entry, order, job>>

----------------------------------------------------------------------------
(* The goroutines of load and revalidate *)

\* A flight is done: a reader has its answer, a prefetch is left with the claim.
Answered(j) ==
    caller' = [p \in Requests |->
                  IF caller[p].job # j THEN caller[p]
                  ELSE [CallerOff EXCEPT !.at = IF p \in Ahead THEN "release" ELSE "idle"]]

\* The flight leaves the table; a revalidation gives its claim back.
Ends(j) ==
    /\ job' = [job EXCEPT ![j] = JobOff]
    /\ Answered(j)
    /\ refreshing' = (refreshing /\ job[j].flight)
    /\ UNCHANGED <<folder, watcher, entry, order>>

Close(j) ==
    /\ job[j].at = "close"
    /\ Ends(j)

FailsClaimed(j) ==
    /\ job[j].at \in {"look", "check", "status", "rows"}
    /\ job' = [job EXCEPT ![j] = JobOff]
    /\ Answered(j)
    /\ UNCHANGED <<folder, watcher, cache>>

\* Refused by the queue, cancelled, timed out, or the server fails.
Fails(j) ==
    /\ job[j].at \in {"look", "check", "status", "rows"}
    /\ Ends(j)

\* A flight looks first, and takes what is fresh by now.
LookAgain(j) ==
    /\ job[j].at = "look"
    /\ Held /\ ~entry.zeroed
    /\ job' = [job EXCEPT ![j].at = "close", ![j].has = entry.has]
    /\ UNCHANGED <<folder, watcher, cache, caller>>

\* revalidate's STATUS: a folder that moved is sorted again and fetched.
Check(j) ==
    /\ job[j].at = "check"
    /\ IF job[j].snap = Len(kind)
       THEN job' = [job EXCEPT ![j].at = "refresh"] /\ UNCHANGED order
       ELSE job' = [job EXCEPT ![j].at = "status"] /\ order' = NoOrder
    /\ UNCHANGED <<folder, watcher, entry, refreshing, caller>>

\* One that did not leaves whatever listing is held by now fresh.
Refresh(j) ==
    /\ job[j].at = "refresh"
    /\ entry' = [entry EXCEPT !.zeroed = FALSE]
    /\ job' = [job EXCEPT ![j].at = "close", ![j].snap = 0]
    /\ UNCHANGED <<folder, watcher, order, refreshing, caller>>

\* startSidebar: the STATUS sent before the rows are asked for.
Status(j) ==
    /\ job[j].at \in {"look", "status"}
    /\ job' = [job EXCEPT ![j].at = "rows", ![j].snap = Len(kind)]
    /\ UNCHANGED <<folder, watcher, cache, caller>>

\* fetchRows: the folder's own page as it is now, a filtered view's from its order.
Rows(j) ==
    /\ job[j].at = "rows"
    /\ job' = IF ordered /\ order = NoOrder
              THEN [job EXCEPT ![j].at = "order", ![j].asked = TRUE, ![j].has = 1..Len(kind)]
              ELSE [job EXCEPT ![j].at = "store", ![j].has = 1..(IF ordered THEN order ELSE Len(kind))]
    /\ UNCHANGED <<folder, watcher, cache, caller>>

\* order holds the answer if the generation it noted still is.
HoldOrder(j) ==
    /\ job[j].at = "order"
    /\ order' = IF job[j].asked THEN Cardinality(job[j].has) ELSE order
    /\ job' = [job EXCEPT ![j].at = "store", ![j].asked = FALSE]
    /\ UNCHANGED <<folder, watcher, entry, refreshing, caller>>

\* So may the load of another page of the view.
OtherPage ==
    /\ ordered
    /\ order = NoOrder
    /\ order' = Len(kind)
    /\ UNCHANGED <<folder, watcher, entry, refreshing, job, caller>>

StoreAnyway(j) ==
    /\ job[j].at = "store"
    /\ entry' = [zeroed |-> FALSE, changed |-> FALSE, has |-> job[j].has, snap |-> job[j].snap]
    /\ job' = [job EXCEPT ![j].at = "close", ![j].snap = 0]
    /\ UNCHANGED <<folder, watcher, order, refreshing, caller>>

StoreLater(j) ==
    /\ job[j].at = "store"
    /\ entry' = IF job[j].current
                THEN [zeroed |-> FALSE, changed |-> FALSE, has |-> job[j].has, snap |-> Len(kind)]
                ELSE entry
    /\ job' = [job EXCEPT ![j].at = "close", ![j].snap = 0]
    /\ UNCHANGED <<folder, watcher, order, refreshing, caller>>

\* storeAt.
Store(j) ==
    /\ job[j].at = "store"
    /\ entry' = IF job[j].current
                THEN [zeroed |-> FALSE, changed |-> FALSE, has |-> job[j].has, snap |-> job[j].snap]
                ELSE entry
    /\ job' = [job EXCEPT ![j].at = "close", ![j].snap = 0]
    /\ UNCHANGED <<folder, watcher, order, refreshing, caller>>

----------------------------------------------------------------------------
(* What befalls the listing *)

\* generation[user]++
Bump == job' = [j \in Jobs |-> [job[j] EXCEPT !.current = FALSE, !.asked = FALSE]]

\* drop, for evict and evictAll.
Drop ==
    /\ Bump
    /\ entry' = NoEntry
    /\ order' = NoOrder

\* stale: known to be wrong.
Stale ==
    /\ Bump
    /\ entry' = IF entry = NoEntry THEN NoEntry ELSE [entry EXCEPT !.zeroed = TRUE, !.changed = TRUE]
    /\ order' = NoOrder

\* flags: a plain page is patched, and no longer fresh; others go.
Flags(c) ==
    /\ Bump
    /\ entry' = IF ordered \/ entry = NoEntry THEN NoEntry
                ELSE [entry EXCEPT !.zeroed = TRUE, !.has = @ \cup {c}]
    /\ order' = NoOrder

\* markSeen: by UID.
MarkSeen(c) ==
    /\ entry' = IF entry = NoEntry THEN NoEntry ELSE [entry EXCEPT !.has = @ \cup {c}]
    /\ UNCHANGED <<order, job>>

\* setFlags: by sequence number, in a page not known to be stale; in one that is
\* not numbered as the watcher's session is it hits another row.
Numbered == {c \in entry.has : OfMembers(c)} = {c \in 1..told : OfMembers(c)}

SetFlags(c) ==
    /\ entry' = IF entry = NoEntry \/ entry.zeroed \/ ~Numbered THEN entry
                ELSE [entry EXCEPT !.has = @ \cup {c}]
    /\ order' = NoOrder
    /\ UNCHANGED job

\* The reader's write, one at a time on the interactive connection.
Write(k) ==
    /\ Len(kind) < MaxChanges
    /\ written = 0
    /\ kind' = Append(kind, k)
    /\ written' = Len(kind) + 1
    /\ UNCHANGED <<ordered, confirmed, watcher, cache, job, caller>>

\* Confirmed by the server, it reaches the caches before the turn ends.
Confirm ==
    /\ written # 0
    /\ written' = 0
    /\ \/ kind[written] = "flag" /\ Flags(written) /\ confirmed' = confirmed \cup {written}
       \/ kind[written] = "move" /\ Drop /\ confirmed' = confirmed \cup {written}
       \/ kind[written] = "seen" /\ MarkSeen(written) /\ UNCHANGED confirmed
    /\ UNCHANGED <<ordered, kind, watcher, refreshing, caller>>

\* The answer is lost: the reader is told it failed, the caches nothing.
Unheard ==
    /\ written # 0
    /\ written' = 0
    /\ UNCHANGED <<ordered, kind, confirmed, watcher, cache, job, caller>>

\* Another client's change.
Elsewhere(k) ==
    /\ Len(kind) < MaxChanges
    /\ kind' = Append(kind, k)
    /\ UNCHANGED <<ordered, written, confirmed, watcher, cache, job, caller>>

\* The watcher's session tells every change in order, the reader's own too.
Announce ==
    /\ watch # "off"
    /\ told < Len(kind)
    /\ told' = told + 1
    /\ IF OfMembers(told + 1)
       THEN Stale /\ known' = known \cup {told + 1}
       ELSE SetFlags(told + 1) /\ UNCHANGED known
    /\ UNCHANGED <<folder, watch, refreshing, caller>>

WatchFails ==
    /\ watch # "off"
    /\ watch' = "off"
    /\ told' = 0
    /\ UNCHANGED <<folder, known, cache, job, caller>>

\* follow: a new session tells what changes from its SELECT on,
WatchSelects ==
    /\ watch = "off"
    /\ watch' = "selected"
    /\ told' = Len(kind)
    /\ UNCHANGED <<folder, known, cache, job, caller>>

\* and what was read before is dropped after it.
WatchClears ==
    /\ watch = "selected"
    /\ watch' = "on"
    /\ Drop
    /\ known' = {c \in 1..told : OfMembers(c)}
    /\ UNCHANGED <<folder, told, refreshing, caller>>

\* An expunge, a folder made or deleted, a view forgotten, a sign-out.
EvictAll ==
    /\ Drop
    /\ UNCHANGED <<folder, watcher, refreshing, caller>>

\* Another page's storeAt drops this one for its age or the cache's limit.
Evicted ==
    /\ entry # NoEntry
    /\ entry' = NoEntry
    /\ UNCHANGED <<folder, watcher, order, refreshing, job, caller>>

JobStep(j) ==
    \/ LookAgain(j) \/ Fails(j) \/ Check(j) \/ Refresh(j) \/ Status(j)
    \/ Rows(j) \/ HoldOrder(j) \/ Store(j) \/ Close(j)

Next ==
    \/ \E p \in Readers : ReadStale(p) \/ Revalidate(p) \/ Cancel(p)
    \/ \E p \in Ahead : LookAhead(p) \/ Prefetch(p) \/ Release(p)
    \/ \E p \in Requests : Claimed(p) \/ Create(p) \/ Join(p)
    \/ \E j \in Jobs : JobStep(j)
    \/ \E k \in Own : Write(k)
    \/ Confirm \/ Unheard
    \/ \E k \in Foreign : Elsewhere(k)
    \/ Announce \/ WatchFails \/ WatchSelects \/ WatchClears
    \/ EvictAll \/ Evicted \/ OtherPage

Spec == Init /\ [][Next]_vars

----------------------------------------------------------------------------
(* Properties *)

\* A listing that may be served shows every change the reader made by hand and
\* all traffic the watcher has reported, as does an order pages are cut from:
\* no load or check, however long in flight, puts an older one back
\* (ADR 6 rule 3, ADR 18 rule 11).
HeldCurrent ==
    /\ Held => Due \subseteq entry.has
    /\ order # NoOrder => Due \subseteq 1..order

\* The same of a page a reader waited for, whoever fetched it: it shows what was
\* due when the reader asked.
AnswersCurrent ==
    \A p \in Readers :
        caller[p].at = "wait" =>
            LET j == job[caller[p].job]
            IN  j.at \in {"store", "close"} => caller[p].must \subseteq j.has

\* A page of the folder itself shows all that the STATUS kept with it counted, so
\* the check behind a stale page never takes one for current that is not.
PlainVouched == ~ordered /\ entry # NoEntry => 1..entry.snap \subseteq entry.has
=============================================================================
