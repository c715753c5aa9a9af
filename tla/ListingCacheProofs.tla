------------------------ MODULE ListingCacheProofs ------------------------
(***************************************************************************)
(* Theorems about ListingCache, for every set of requests and goroutines   *)
(* and every number of changes to the folder.                              *)
(***************************************************************************)
EXTENDS ListingCache, FiniteSetTheorems, TLAPS

JobSteps == {"off", "look", "check", "refresh", "status", "rows", "order", "store", "close"}
Entries(n) == [zeroed : BOOLEAN, changed : BOOLEAN, has : SUBSET (1..n), snap : (-1)..n]
JobStates(n) == [at : JobSteps, flight : BOOLEAN, current : BOOLEAN, asked : BOOLEAN, has : SUBSET (1..n), snap : 0..n]
CallerSteps == {"idle", "stale", "missing", "load", "wait", "release"}
CallerStates(n) == [at : CallerSteps, job : Jobs \cup {Nobody}, must : SUBSET (1..n), snap : 0..n]

FolderTypes ==
    /\ ordered \in BOOLEAN
    /\ kind \in Seq(Own \cup Foreign) /\ Len(kind) <= MaxChanges
    /\ written \in 0..Len(kind)
    /\ confirmed \subseteq 1..Len(kind)

WatchTypes ==
    /\ watch \in {"off", "selected", "on"}
    /\ told \in 0..Len(kind)
    /\ known \subseteq 1..Len(kind)

EntryTypes ==
    /\ entry \in Entries(Len(kind))
    /\ entry # NoEntry => entry.snap # -1
    /\ order \in NoOrder..Len(kind)
    /\ refreshing \in BOOLEAN

JobTypes == job \in [Jobs -> JobStates(Len(kind))]

CallerTypes ==
    /\ caller \in [Requests -> CallerStates(Len(kind))]
    /\ \A p \in Readers : caller[p].at \in {"idle", "stale", "wait"}
    /\ \A p \in Ahead : caller[p].at # "stale"

Types == FolderTypes /\ WatchTypes /\ EntryTypes /\ JobTypes /\ CallerTypes

\* A reader waits for a flight under way.
WaitsForFlight ==
    \A p \in Requests :
        IF caller[p].at = "wait"
        THEN caller[p].job \in Jobs /\ job[caller[p].job].at # "off" /\ job[caller[p].job].flight
        ELSE caller[p].job = Nobody

\* The revalidations and prefetches under way: one of either while the page is
\* claimed, otherwise none.
Revalidates(j) == job[j].at # "off" /\ ~job[j].flight
Prefetching(p) == p \in Ahead /\ caller[p].at \in {"load", "wait", "release"}

OneClaim ==
    /\ \A j, k \in Jobs : Revalidates(j) /\ Revalidates(k) => j = k
    /\ \A p, q \in Requests : Prefetching(p) /\ Prefetching(q) => p = q
    /\ \A j \in Jobs, p \in Requests : ~(Revalidates(j) /\ Prefetching(p))
    /\ refreshing <=> (\E j \in Jobs : Revalidates(j)) \/ (\E p \in Requests : Prefetching(p))

\* What the watcher has reported are changes of membership, which a session
\* that was selected since has told or started from: so nothing due is ever
\* forgotten.
KnownTold ==
    /\ \A c \in known : OfMembers(c)
    /\ watch # "off" => known \subseteq 1..told

\* A reader's share of what is due is due still.
MustBeDue == \A p \in Requests : caller[p].at = "wait" => caller[p].must \subseteq Due

\* What a goroutine of this generation has read shows all that is due, and so
\* does an answer whose order may be held, which is all of the folder up to it.
JobsCurrent ==
    \A j \in Jobs :
        /\ job[j].current /\ (job[j].at \in {"order", "store"} \/ (job[j].at = "close" /\ job[j].flight)) => Due \subseteq job[j].has
        /\ job[j].asked => job[j].at = "order" /\ Due \subseteq job[j].has /\ \E n \in Nat : n <= Len(kind) /\ job[j].has = 1..n

\* Every reader's flight, once it has read, shows what the reader asked for.
FlightsAnswer ==
    \A p \in Requests :
        caller[p].at = "wait" /\ job[caller[p].job].at \in {"order", "store", "close"} =>
            caller[p].must \subseteq job[caller[p].job].has

\* What is about to be stored of a plain page shows what its STATUS counted.
PlainRead == ~ordered => \A j \in Jobs : job[j].at # "order" /\ (job[j].at = "store" => 1..job[j].snap \subseteq job[j].has)

\* Only a revalidation checks.
FlightsFetch == \A j \in Jobs : job[j].at \in {"check", "refresh"} => ~job[j].flight

\* What concerns readers and goroutines, and what is about the cache.
Work ==
    /\ WaitsForFlight /\ OneClaim /\ MustBeDue
    /\ JobsCurrent /\ FlightsAnswer /\ PlainRead /\ FlightsFetch

Content == HeldCurrent /\ PlainVouched

ListingInv == Types /\ KnownTold /\ Work /\ Content

LEMMA OffTypes ==
    ASSUME NEW n \in Nat
    PROVE  JobOff \in JobStates(n) /\ CallerOff \in CallerStates(n) /\ NoEntry \in Entries(n)
BY DEF JobOff, JobStates, JobSteps, CallerOff, CallerStates, CallerSteps, NoEntry, Entries

\* No entry stays none when its stamp is renewed.
LEMMA NothingUnzeroed == [NoEntry EXCEPT !.zeroed = FALSE] = NoEntry
<1>1. [NoEntry EXCEPT !.zeroed = FALSE] = [NoEntry EXCEPT !.zeroed = NoEntry.zeroed]
  BY DEF NoEntry
<1>2. [NoEntry EXCEPT !.zeroed = NoEntry.zeroed] = NoEntry
  BY DEF NoEntry
<1> QED  BY <1>1, <1>2

LEMMA InitListingInv == Init => ListingInv
<1> SUFFICES ASSUME Init PROVE ListingInv
  OBVIOUS
<1> USE ListingAssumption
<1>0. Len(kind) = 0 /\ kind \in Seq(Own \cup Foreign)
  <2>1. kind = << >>
    BY DEF Init
  <2> HIDE DEF Init
  <2> QED  BY <2>1
<1>1. FolderTypes /\ WatchTypes
  BY <1>0 DEF Init, FolderTypes, WatchTypes
<1>2. EntryTypes
  <2>1. entry = NoEntry /\ order = -1 /\ refreshing = FALSE
    BY DEF Init, NoOrder
  <2>2. NoEntry \in Entries(0)
    BY OffTypes
  <2>3. order \in NoOrder..Len(kind)
    BY <1>0, <2>1 DEF NoOrder
  <2> QED  BY <1>0, <2>1, <2>2, <2>3 DEF EntryTypes
<1>3. JobTypes
  BY <1>0, OffTypes DEF Init, JobTypes
<1>4. CallerTypes
  BY <1>0, OffTypes DEF Init, CallerTypes, Requests, CallerOff
<1>5. WaitsForFlight /\ OneClaim /\ KnownTold /\ MustBeDue /\ FlightsAnswer /\ FlightsFetch
  BY DEF Init, FlightsFetch, WaitsForFlight, OneClaim, Revalidates, Prefetching, Requests, KnownTold, MustBeDue, FlightsAnswer, CallerOff, JobOff
<1>6. JobsCurrent /\ HeldCurrent /\ PlainRead /\ PlainVouched
  BY DEF Init, JobsCurrent, HeldCurrent, Held, PlainRead, PlainVouched, JobOff, NoEntry, NoOrder, Due
<1> QED  BY <1>1, <1>2, <1>3, <1>4, <1>5, <1>6 DEF ListingInv, Types, Work, Content

----------------------------------------------------------------------------
(* Types *)

\* The folder only grows, and what was of it is of it still.
LEMMA Grows ==
    ASSUME NEW n \in Nat
    PROVE  /\ Entries(n) \subseteq Entries(n + 1)
           /\ JobStates(n) \subseteq JobStates(n + 1)
           /\ CallerStates(n) \subseteq CallerStates(n + 1)
<1>1. 1..n \subseteq 1..(n + 1) /\ 0..n \subseteq 0..(n + 1) /\ (-1)..n \subseteq (-1)..(n + 1)
  OBVIOUS
<1>2. SUBSET (1..n) \subseteq SUBSET (1..(n + 1))
  BY <1>1
<1> QED  BY <1>1, <1>2 DEF Entries, JobStates, CallerStates

\* The three ways the other parts stay as they are.
LEMMA TypesFrame ==
    ASSUME Types
    PROVE  /\ UNCHANGED folder => FolderTypes'
           /\ UNCHANGED <<kind, watcher>> => WatchTypes'
           /\ UNCHANGED <<kind, cache>> => EntryTypes'
           /\ UNCHANGED <<kind, job>> => JobTypes'
           /\ UNCHANGED <<kind, caller>> => CallerTypes'
BY DEF Types, folder, watcher, cache, FolderTypes, WatchTypes, EntryTypes, JobTypes, CallerTypes

\* A goroutine that is given another step, what it has read or its STATUS.
LEMMA JobMoves ==
    ASSUME Types, NEW j \in Jobs, NEW d \in JobStates(Len(kind)), job' = [job EXCEPT ![j] = d], UNCHANGED kind
    PROVE  JobTypes'
BY DEF Types, JobTypes

LEMMA BumpTypes ==
    ASSUME Types, Bump, UNCHANGED kind
    PROVE  /\ JobTypes'
           /\ \A j \in Jobs : /\ job'[j].at = job[j].at /\ job'[j].flight = job[j].flight
                              /\ job'[j].has = job[j].has /\ job'[j].snap = job[j].snap
                              /\ ~job'[j].current /\ ~job'[j].asked
<1>1. \A j \in Jobs : job[j] \in JobStates(Len(kind)) /\ job'[j] = [job[j] EXCEPT !.current = FALSE, !.asked = FALSE]
  BY DEF Types, JobTypes, Bump
<1>2. ASSUME NEW d \in JobStates(Len(kind)), NEW e, e = [d EXCEPT !.current = FALSE, !.asked = FALSE]
      PROVE  /\ e \in JobStates(Len(kind))
             /\ e.at = d.at /\ e.flight = d.flight /\ e.has = d.has /\ e.snap = d.snap /\ ~e.current /\ ~e.asked
  BY <1>2 DEF JobStates
<1>3. ASSUME NEW j \in Jobs
      PROVE  /\ job'[j] \in JobStates(Len(kind))
             /\ job'[j].at = job[j].at /\ job'[j].flight = job[j].flight
             /\ job'[j].has = job[j].has /\ job'[j].snap = job[j].snap
             /\ ~job'[j].current /\ ~job'[j].asked
  BY <1>1, <1>2
<1>4. JobTypes'
  BY <1>3 DEF JobTypes, Bump
<1> QED  BY <1>3, <1>4

LEMMA DropTypes ==
    ASSUME Types, Drop, UNCHANGED <<kind, refreshing>>
    PROVE  EntryTypes' /\ JobTypes'
<1>1. Len(kind) \in Nat
  BY DEF Types, FolderTypes
<1>2. EntryTypes'
  BY <1>1, OffTypes DEF Drop, Types, EntryTypes, NoOrder
<1> QED  BY <1>2, BumpTypes DEF Drop

\* What flags, markSeen, setFlags and stale do to the entry,
EntryStep(c) ==
    \/ entry' = entry \/ entry' = NoEntry
    \/ entry # NoEntry /\ entry' = [entry EXCEPT !.zeroed = TRUE, !.changed = TRUE]
    \/ entry # NoEntry /\ entry' = [entry EXCEPT !.zeroed = TRUE, !.has = @ \cup {c}]
    \/ entry # NoEntry /\ entry' = [entry EXCEPT !.has = @ \cup {c}]

\* and what they leave of it.
LEMMA EntryChanges ==
    ASSUME EntryTypes, NEW c \in 1..Len(kind), Len(kind) \in Nat, EntryStep(c)
    PROVE  /\ entry' \in Entries(Len(kind))
           /\ entry' # NoEntry =>
                /\ entry # NoEntry
                /\ entry'.snap = entry.snap
                /\ entry'.has = entry.has \/ entry'.has = entry.has \cup {c}
                /\ ~entry'.changed => ~entry.changed
<1>1. entry \in Entries(Len(kind))
  BY DEF EntryTypes
<1>2. CASE entry' = entry \/ entry' = NoEntry
  BY <1>1, <1>2, OffTypes
<1>3. CASE entry # NoEntry /\ entry' = [entry EXCEPT !.zeroed = TRUE, !.changed = TRUE]
  BY <1>1, <1>3 DEF Entries
<1>4. CASE entry # NoEntry /\ entry' = [entry EXCEPT !.zeroed = TRUE, !.has = @ \cup {c}]
  BY <1>1, <1>4 DEF Entries
<1>5. CASE entry # NoEntry /\ entry' = [entry EXCEPT !.has = @ \cup {c}]
  BY <1>1, <1>5 DEF Entries
<1> QED  BY <1>2, <1>3, <1>4, <1>5 DEF EntryStep

LEMMA NextTypes == ListingInv /\ [Next]_vars => Types'
<1> SUFFICES ASSUME ListingInv, [Next]_vars PROVE Types'
  OBVIOUS
<1>i. Types /\ JobsCurrent
  BY DEF ListingInv, Work
<1> USE ListingAssumption
<1>t. FolderTypes /\ WatchTypes /\ EntryTypes /\ JobTypes /\ CallerTypes
  BY <1>i DEF Types
<1>n. Len(kind) \in Nat /\ entry \in Entries(Len(kind)) /\ kind \in Seq(Own \cup Foreign)
  BY <1>t DEF FolderTypes, EntryTypes
<1>c. \A p \in Requests : caller[p] \in CallerStates(Len(kind))
  BY <1>t DEF CallerTypes
<1>j. \A j \in Jobs : job[j] \in JobStates(Len(kind))
  BY <1>t DEF JobTypes
<1>o. JobOff \in JobStates(Len(kind)) /\ CallerOff \in CallerStates(Len(kind)) /\ NoEntry \in Entries(Len(kind))
  BY <1>n, OffTypes
<1>z. 0 \in 0..Len(kind) /\ Len(kind) \in 0..Len(kind)
  BY <1>n
<1>h. ASSUME NEW p \in Requests, NEW c \in CallerStates(Len(kind)), caller' = [caller EXCEPT ![p] = c], UNCHANGED kind,
             c.at \in (IF p \in Readers THEN {"idle", "stale", "wait"} ELSE CallerSteps \ {"stale"})
      PROVE  CallerTypes'
  BY <1>t, <1>h, ListingAssumption DEF CallerTypes, Requests
<1>1. ASSUME NEW p \in Readers, ReadStale(p) PROVE Types'
  <2>1. entry.snap \in 0..Len(kind)
    BY <1>1, <1>t DEF ReadStale, Held, EntryTypes, Entries
  <2>2. [caller[p] EXCEPT !.at = "stale", !.snap = entry.snap] \in CallerStates(Len(kind))
    BY <1>c, <2>1 DEF CallerStates, CallerSteps, Requests
  <2>3. CallerTypes'
    <3>1. PICK c \in CallerStates(Len(kind)) : c = [caller[p] EXCEPT !.at = "stale", !.snap = entry.snap]
      BY <2>2
    <3>2. c.at = "stale" /\ caller' = [caller EXCEPT ![p] = c] /\ UNCHANGED kind /\ p \in Requests
      BY <1>1, <1>c, <3>1 DEF ReadStale, folder, CallerStates, Requests
    <3> QED  BY <1>h, <3>2
  <2> QED  BY <1>1, <2>3, <1>i, TypesFrame DEF ReadStale, Types, folder
<1>2. ASSUME NEW p \in Readers, Revalidate(p) PROVE Types'
  <2>1. PICK j \in Jobs : job' = [job EXCEPT ![j] = [JobOff EXCEPT !.at = "check", !.current = TRUE, !.snap = caller[p].snap]]
    BY <1>2 DEF Revalidate
  <2>2. caller[p].snap \in 0..Len(kind)
    BY <1>c DEF CallerStates, Requests
  <2>3. [JobOff EXCEPT !.at = "check", !.current = TRUE, !.snap = caller[p].snap] \in JobStates(Len(kind))
    BY <2>2, <1>o DEF JobStates, JobSteps
  <2>4. JobTypes'
    BY <1>2, <1>t, <2>1, <2>3 DEF Revalidate, folder, JobTypes
  <2>5. CallerTypes'
    <3>1. CallerOff.at = "idle" /\ caller' = [caller EXCEPT ![p] = CallerOff] /\ UNCHANGED kind /\ p \in Requests
      BY <1>2 DEF Revalidate, folder, Requests, CallerOff
    <3> QED  BY <1>h, <1>o, <3>1
  <2>6. EntryTypes'
    BY <1>2, <1>t DEF Revalidate, folder, EntryTypes
  <2> QED  BY <1>2, <2>4, <2>5, <2>6, <1>i, TypesFrame DEF Revalidate, Types, folder
<1>3. ASSUME NEW p \in Requests, Claimed(p) \/ Cancel(p) \/ Release(p) PROVE Types'
  <2>1. CallerTypes'
    BY <1>3, <1>o, <1>h DEF Claimed, Cancel, Release, folder, CallerOff, CallerSteps
  <2>2. EntryTypes'
    BY <1>3, <1>t DEF Claimed, Cancel, Release, folder, cache, EntryTypes
  <2> QED  BY <1>3, <2>1, <2>2, <1>i, TypesFrame DEF Claimed, Cancel, Release, Types, folder
<1>33. ASSUME NEW p \in Ahead, LookAhead(p) \/ Prefetch(p) PROVE Types'
  <2>1. PICK a \in {"missing", "load"} : caller' = [caller EXCEPT ![p] = [caller[p] EXCEPT !.at = a]]
    BY <1>33 DEF LookAhead, Prefetch
  <2>2. [caller[p] EXCEPT !.at = a] \in CallerStates(Len(kind)) /\ [caller[p] EXCEPT !.at = a].at = a
    BY <1>c DEF CallerStates, CallerSteps, Requests
  <2>3. p \in Requests /\ p \notin Readers /\ UNCHANGED kind
    BY <1>33 DEF Requests, LookAhead, Prefetch, folder
  <2>4. CallerTypes'
    <3>1. PICK c \in CallerStates(Len(kind)) : c = [caller[p] EXCEPT !.at = a]
      BY <2>2
    <3>2. c.at \in CallerSteps \ {"stale"}
      BY <2>2, <3>1 DEF CallerSteps
    <3> QED  BY <1>h, <2>1, <2>3, <3>1, <3>2
  <2>5. EntryTypes'
    BY <1>33, <1>t DEF LookAhead, Prefetch, folder, cache, EntryTypes
  <2> QED  BY <1>33, <2>4, <2>5, <1>i, TypesFrame DEF LookAhead, Prefetch, Types, folder
<1>w. ASSUME NEW p \in Requests, NEW j \in Jobs, caller' = Waits(p, j), UNCHANGED kind PROVE CallerTypes'
  <2>1. Due \subseteq 1..Len(kind)
    BY <1>t DEF FolderTypes, WatchTypes, Due
  <2>2. PICK c : c = [at |-> "wait", job |-> j, must |-> IF p \in Ahead THEN {} ELSE Due, snap |-> 0]
    OBVIOUS
  <2>3. c \in CallerStates(Len(kind)) /\ c.at = "wait"
    BY <1>n, <2>1, <2>2 DEF CallerStates, CallerSteps
  <2> QED  BY <1>w, <1>h, <2>2, <2>3 DEF Waits, CallerSteps
<1>4. ASSUME NEW p \in Requests, Create(p) PROVE Types'
  <2>1. PICK j \in Jobs : /\ job' = [job EXCEPT ![j] = [JobOff EXCEPT !.at = "look", !.flight = TRUE, !.current = TRUE]]
                          /\ caller' = Waits(p, j)
    BY <1>4 DEF Create
  <2>2. [JobOff EXCEPT !.at = "look", !.flight = TRUE, !.current = TRUE] \in JobStates(Len(kind))
    BY <1>o DEF JobStates, JobSteps
  <2>3. JobTypes' /\ CallerTypes'
    BY <1>4, <1>t, <1>w, <2>1, <2>2 DEF Create, folder, JobTypes
  <2> QED  BY <1>4, <2>3, <1>i, TypesFrame DEF Create, Types, folder
<1>5. ASSUME NEW p \in Requests, Join(p) PROVE Types'
  <2>1. PICK j \in Jobs : caller' = Waits(p, j)
    BY <1>5 DEF Join, Flight
  <2>2. CallerTypes'
    BY <1>5, <1>w, <2>1 DEF Join, folder
  <2> QED  BY <1>5, <2>2, <1>i, TypesFrame DEF Join, Types, folder
<1>6. ASSUME NEW j \in Jobs, Close(j) \/ Fails(j) PROVE Types'
  <2>1. Ends(j)
    BY <1>6 DEF Close, Fails
  <2>2. JobTypes' /\ CallerTypes'
    <3>1. \A a \in CallerSteps : [CallerOff EXCEPT !.at = a] \in CallerStates(Len(kind)) /\ [CallerOff EXCEPT !.at = a].at = a
      BY <1>o DEF CallerStates, CallerSteps
    <3>2. CallerTypes'
      BY <1>t, <1>c, <2>1, <3>1 DEF Ends, Answered, folder, CallerTypes, CallerSteps, Requests
    <3> QED  BY <1>t, <1>o, <2>1, <3>2 DEF Ends, folder, JobTypes
  <2>3. EntryTypes'
    BY <1>t, <1>j, <2>1 DEF Ends, folder, EntryTypes, JobStates
  <2> QED  BY <2>1, <2>2, <2>3, <1>i, TypesFrame DEF Ends, Types, folder
<1>7. ASSUME NEW j \in Jobs, LookAgain(j) PROVE Types'
  <2>1. [job[j] EXCEPT !.at = "close", !.has = entry.has] \in JobStates(Len(kind))
    BY <1>j, <1>n DEF JobStates, JobSteps, Entries
  <2> QED  BY <1>7, <2>1, <1>i, JobMoves, TypesFrame DEF LookAgain, Types, folder
<1>8. ASSUME NEW j \in Jobs, Check(j) PROVE Types'
  <2>1. [job[j] EXCEPT !.at = "refresh"] \in JobStates(Len(kind)) /\ [job[j] EXCEPT !.at = "status"] \in JobStates(Len(kind))
    BY <1>j DEF JobStates, JobSteps
  <2>2. JobTypes'
    BY <1>8, <2>1, <1>i, JobMoves DEF Check, folder
  <2>3. EntryTypes'
    BY <1>8, <1>t, <1>n DEF Check, folder, EntryTypes, NoOrder
  <2> QED  BY <1>8, <2>2, <2>3, <1>i, TypesFrame DEF Check, Types, folder
<1>9. ASSUME NEW j \in Jobs, Refresh(j) PROVE Types'
  <2>1. [job[j] EXCEPT !.at = "close", !.snap = 0] \in JobStates(Len(kind))
    BY <1>j, <1>z DEF JobStates, JobSteps
  <2>2. [entry EXCEPT !.zeroed = FALSE] \in Entries(Len(kind)) /\ [entry EXCEPT !.zeroed = FALSE].snap = entry.snap
    BY <1>n DEF Entries
  <2>3. entry = NoEntry => [entry EXCEPT !.zeroed = FALSE] = NoEntry
    BY NothingUnzeroed
  <2>4. EntryTypes'
    BY <1>9, <1>t, <2>2, <2>3 DEF Refresh, folder, EntryTypes
  <2> QED  BY <1>9, <2>1, <2>4, <1>i, JobMoves, TypesFrame DEF Refresh, Types, folder
<1>10. ASSUME NEW j \in Jobs, Status(j) PROVE Types'
  <2>1. [job[j] EXCEPT !.at = "rows", !.snap = Len(kind)] \in JobStates(Len(kind))
    BY <1>j, <1>z DEF JobStates, JobSteps
  <2> QED  BY <1>10, <2>1, <1>i, JobMoves, TypesFrame DEF Status, Types, folder
<1>11. ASSUME NEW j \in Jobs, Rows(j) PROVE Types'
  <2>1. [job[j] EXCEPT !.at = "order", !.asked = TRUE, !.has = 1..Len(kind)] \in JobStates(Len(kind))
    BY <1>j DEF JobStates, JobSteps
  <2>2. \A n \in (-1)..Len(kind) : [job[j] EXCEPT !.at = "store", !.has = 1..n] \in JobStates(Len(kind))
    <3>1. \A n \in (-1)..Len(kind) : 1..n \subseteq 1..Len(kind)
      BY <1>n
    <3> QED  BY <1>j, <3>1 DEF JobStates, JobSteps
  <2>3. (IF ordered THEN order ELSE Len(kind)) \in (-1)..Len(kind)
    BY <1>t, <1>n DEF EntryTypes, NoOrder
  <2> QED  BY <1>11, <2>1, <2>2, <2>3, <1>i, JobMoves, TypesFrame DEF Rows, Types, folder
<1>12. ASSUME NEW j \in Jobs, Store(j) PROVE Types'
  <2>1. [job[j] EXCEPT !.at = "close", !.snap = 0] \in JobStates(Len(kind))
    BY <1>j, <1>z DEF JobStates, JobSteps
  <2>2. job[j].has \subseteq 1..Len(kind) /\ job[j].snap \in 0..Len(kind)
    BY <1>j DEF JobStates
  <2>3. [zeroed |-> FALSE, changed |-> FALSE, has |-> job[j].has, snap |-> job[j].snap] \in Entries(Len(kind))
    BY <2>2 DEF Entries
  <2>4. EntryTypes'
    BY <1>12, <1>t, <2>2, <2>3 DEF Store, folder, EntryTypes
  <2> QED  BY <1>12, <2>1, <2>4, <1>i, JobMoves, TypesFrame DEF Store, Types, folder
<1>q. UNCHANGED <<kind, entry, refreshing>> /\ order' \in NoOrder..Len(kind) => EntryTypes'
  BY <1>t DEF EntryTypes
<1>13. ASSUME NEW j \in Jobs, HoldOrder(j) PROVE Types'
  <2>1. [job[j] EXCEPT !.at = "store", !.asked = FALSE] \in JobStates(Len(kind))
    BY <1>j DEF JobStates, JobSteps
  <2>2. job[j].asked => Cardinality(job[j].has) \in Nat /\ Cardinality(job[j].has) <= Len(kind)
    <3> HAVE job[j].asked
    <3>1. PICK n \in Nat : n <= Len(kind) /\ job[j].has = 1..n
      BY <1>i DEF JobsCurrent
    <3>2. Cardinality(1..n) = n
      BY <3>1, FS_Interval
    <3> QED  BY <3>1, <3>2
  <2>3. order' \in NoOrder..Len(kind)
    BY <1>13, <1>t, <1>n, <2>2 DEF HoldOrder, EntryTypes, NoOrder
  <2> QED  BY <1>13, <1>q, <2>1, <2>3, <1>i, JobMoves, TypesFrame DEF HoldOrder, Types, folder
<1>14. ASSUME NEW k \in Own \cup Foreign, kind' = Append(kind, k), Len(kind) < MaxChanges, written' \in {written, Len(kind) + 1},
              UNCHANGED <<ordered, confirmed, watcher, cache, job, caller>>
       PROVE  Types'
  <2>1. Len(kind') = Len(kind) + 1 /\ kind' \in Seq(Own \cup Foreign)
    BY <1>n, <1>14
  <2>2. FolderTypes' /\ WatchTypes'
    BY <1>14, <1>t, <1>n, <2>1 DEF FolderTypes, WatchTypes, watcher
  <2>3. entry \in Entries(Len(kind) + 1) /\ order \in NoOrder..(Len(kind) + 1)
    BY <1>t, <1>n, Grows DEF EntryTypes, NoOrder
  <2>4. EntryTypes'
    BY <1>14, <1>t, <2>1, <2>3 DEF EntryTypes, cache
  <2>5. JobTypes' /\ CallerTypes'
    BY <1>14, <1>t, <1>n, <2>1, Grows DEF JobTypes, CallerTypes
  <2> QED  BY <2>2, <2>4, <2>5 DEF Types
<1>15. ASSUME NEW k \in Own, Write(k) PROVE Types'
  BY <1>14, <1>15 DEF Write
<1>16. ASSUME NEW k \in Foreign, Elsewhere(k) PROVE Types'
  BY <1>14, <1>16 DEF Elsewhere
<1>17. CASE Unheard
  <2>1. FolderTypes'
    BY <1>17, <1>t, <1>n DEF Unheard, FolderTypes
  <2> QED  BY <1>17, <1>i, <2>1, TypesFrame DEF Unheard, Types
<1>18. CASE Confirm
  <2>1. /\ written \in 1..Len(kind) /\ written' = 0 /\ UNCHANGED <<ordered, kind, watcher, refreshing, caller>>
        /\ confirmed' \in {confirmed, confirmed \cup {written}}
    BY <1>18, <1>t DEF Confirm, FolderTypes
  <2>2. FolderTypes'
    BY <1>t, <1>n, <2>1 DEF FolderTypes
  <2>3. CASE Flags(written)
    <3>1. entry' \in Entries(Len(kind)) /\ (entry' # NoEntry => entry'.snap = entry.snap /\ entry # NoEntry)
      <4>1. PICK c \in 1..Len(kind) : c = written
        BY <2>1
      <4>2. EntryStep(c)
        BY <2>3, <4>1 DEF Flags, EntryStep
      <4> QED  BY <1>n, <1>t, <4>2, EntryChanges
    <3>2. EntryTypes'
      BY <1>t, <1>n, <2>1, <2>3, <3>1 DEF EntryTypes, Flags, NoOrder
    <3> QED  BY <1>i, <2>1, <2>2, <2>3, <3>2, BumpTypes, TypesFrame DEF Flags, Types
  <2>4. CASE Drop
    BY <1>i, <2>1, <2>2, <2>4, DropTypes, TypesFrame DEF Types
  <2>5. CASE MarkSeen(written)
    <3>1. entry' \in Entries(Len(kind)) /\ (entry' # NoEntry => entry'.snap = entry.snap /\ entry # NoEntry)
      <4>1. PICK c \in 1..Len(kind) : c = written
        BY <2>1
      <4>2. EntryStep(c)
        BY <2>5, <4>1 DEF MarkSeen, EntryStep
      <4> QED  BY <1>n, <1>t, <4>2, EntryChanges
    <3>2. EntryTypes'
      BY <1>t, <2>1, <2>5, <3>1 DEF EntryTypes, MarkSeen
    <3> QED  BY <1>i, <2>1, <2>2, <2>5, <3>2, TypesFrame DEF MarkSeen, Types
  <2> QED  BY <1>18, <2>3, <2>4, <2>5 DEF Confirm
<1>19. CASE Announce
  <2>1. /\ told + 1 \in 1..Len(kind) /\ told' = told + 1 /\ UNCHANGED <<folder, watch, refreshing, caller>>
        /\ known' \in {known, known \cup {told + 1}}
    BY <1>19, <1>t, <1>n DEF Announce, WatchTypes
  <2>2. FolderTypes' /\ WatchTypes' /\ UNCHANGED kind
    <3>1. UNCHANGED kind
      BY <2>1 DEF folder
    <3>2. WatchTypes'
      BY <1>t, <1>n, <2>1, <3>1 DEF WatchTypes
    <3> QED  BY <1>i, <2>1, <3>1, <3>2, TypesFrame
  <2>3. CASE Stale
    <3>1. entry' \in Entries(Len(kind)) /\ (entry' # NoEntry => entry'.snap = entry.snap /\ entry # NoEntry)
      <4>1. PICK c \in 1..Len(kind) : c = told + 1
        BY <2>1
      <4>2. EntryStep(c)
        BY <2>3, <4>1 DEF Stale, EntryStep
      <4> QED  BY <1>n, <1>t, <4>2, EntryChanges
    <3>2. EntryTypes'
      BY <1>t, <1>n, <2>1, <2>2, <2>3, <3>1 DEF EntryTypes, Stale, NoOrder
    <3> QED  BY <1>i, <2>1, <2>2, <2>3, <3>2, BumpTypes, TypesFrame DEF Stale, Types
  <2>4. CASE SetFlags(told + 1)
    <3>0. PICK c \in 1..Len(kind) : c = told + 1
      BY <2>1
    <3>1. EntryStep(c)
      BY <2>4, <3>0 DEF SetFlags, EntryStep
    <3>2. entry' \in Entries(Len(kind)) /\ (entry' # NoEntry => entry'.snap = entry.snap /\ entry # NoEntry)
      BY <1>n, <1>t, <3>1, EntryChanges
    <3>3. EntryTypes'
      BY <1>t, <1>n, <2>1, <2>2, <2>4, <3>2 DEF EntryTypes, SetFlags, NoOrder
    <3> QED  BY <1>i, <2>1, <2>2, <2>4, <3>3, TypesFrame DEF SetFlags, Types
  <2> QED  BY <1>19, <2>3, <2>4 DEF Announce
<1>20. CASE WatchFails \/ WatchSelects
  <2>1. UNCHANGED <<kind, known>> /\ told' \in {0, Len(kind)} /\ watch' \in {"off", "selected"}
    BY <1>20 DEF WatchFails, WatchSelects, folder
  <2>2. WatchTypes'
    BY <1>z, <1>t, <2>1 DEF WatchTypes
  <2> QED  BY <1>20, <1>i, <2>2, TypesFrame DEF WatchFails, WatchSelects, Types, folder
<1>21. CASE WatchClears
  <2>1. WatchTypes'
    BY <1>21, <1>t, <1>n DEF WatchClears, WatchTypes, folder
  <2> QED  BY <1>21, <1>i, <2>1, DropTypes, TypesFrame DEF WatchClears, Types, folder
<1>22. CASE EvictAll
  BY <1>22, <1>i, DropTypes, TypesFrame DEF EvictAll, Types, folder
<1>23. CASE Evicted
  <2>1. EntryTypes'
    BY <1>23, <1>t, <1>o DEF Evicted, EntryTypes, folder
  <2> QED  BY <1>23, <1>i, <2>1, TypesFrame DEF Evicted, Types, folder
<1>24. CASE OtherPage
  <2>1. EntryTypes'
    BY <1>24, <1>n, <1>q DEF OtherPage, NoOrder, folder
  <2> QED  BY <1>24, <1>i, <2>1, TypesFrame DEF OtherPage, Types, folder
<1>25. CASE UNCHANGED vars
  BY <1>25, <1>i, TypesFrame DEF vars, Types, folder, watcher, cache
<1> QED
  BY <1>1, <1>2, <1>3, <1>33, <1>4, <1>5, <1>6, <1>7, <1>8, <1>9, <1>10, <1>11, <1>12, <1>13, <1>15, <1>16, <1>17, <1>18, <1>19,
     <1>20, <1>21, <1>22, <1>23, <1>24, <1>25 DEF Next, JobStep, Requests
----------------------------------------------------------------------------
(* The readers and the goroutines *)

\* Nothing but one request moves, which is done, joins a flight, or takes or
\* gives back the claim.
LEMMA CallerMoves ==
    ASSUME ListingInv, UNCHANGED <<folder, watcher, entry, order, job>>, NEW p \in Requests, OneClaim',
           \A q \in Requests \ {p} : caller'[q] = caller[q],
           IF caller'[p].at = "wait" THEN caller'[p].job \in Flight /\ caller'[p].must \subseteq Due ELSE caller'[p].job = Nobody
    PROVE  KnownTold' /\ Work' /\ Content'
<1>0. Types /\ KnownTold /\ Work /\ Content
  BY DEF ListingInv
<1>1. KnownTold'
  BY <1>0 DEF KnownTold, OfMembers, folder, watcher
<1>2. FlightsFetch'
  BY <1>0 DEF Work, FlightsFetch
<1>3. JobsCurrent' /\ PlainRead'
  BY <1>0 DEF Work, JobsCurrent, PlainRead, Due, folder, watcher
<1>4. Content'
  BY <1>0 DEF Content, HeldCurrent, Held, PlainVouched, Due, folder, watcher
<1>5. WaitsForFlight'
  BY <1>0 DEF Work, WaitsForFlight, Flight
<1>6. MustBeDue'
  BY <1>0 DEF Work, MustBeDue, Due, folder, watcher
<1>7. FlightsAnswer'
  BY <1>0 DEF Work, FlightsAnswer, JobsCurrent, Flight
<1> QED  BY <1>1, <1>2, <1>3, <1>4, <1>5, <1>6, <1>7 DEF Work

\* One goroutine goes on.
LEMMA JobGoesOn ==
    ASSUME ListingInv, UNCHANGED <<folder, watcher, refreshing, caller>>, NEW j \in Jobs,
           \A k \in Jobs \ {j} : job'[k] = job[k],
           job[j].at # "off", job'[j].at # "off", job'[j].flight = job[j].flight, job'[j].current = job[j].current,
           job'[j].at \in {"check", "refresh"} => ~job[j].flight,
           job[j].current /\ (job'[j].at \in {"order", "store"} \/ (job'[j].at = "close" /\ job[j].flight)) => Due \subseteq job'[j].has,
           job'[j].asked => job'[j].at = "order" /\ Due \subseteq job'[j].has /\ \E n \in Nat : n <= Len(kind) /\ job'[j].has = 1..n,
           job'[j].at \in {"order", "store", "close"} =>
               \A p \in Requests : caller[p].at = "wait" /\ caller[p].job = j => caller[p].must \subseteq job'[j].has,
           ~ordered => job'[j].at # "order" /\ (job'[j].at = "store" => 1..job'[j].snap \subseteq job'[j].has)
    PROVE  KnownTold' /\ Work'
<1>0. Types /\ KnownTold /\ Work
  BY DEF ListingInv
<1>1. KnownTold'
  BY <1>0 DEF KnownTold, OfMembers, folder, watcher
<1>2. \A k \in Jobs : Revalidates(k)' = Revalidates(k)
  BY DEF Revalidates
<1>3. OneClaim'
  BY <1>0, <1>2 DEF Work, OneClaim, Prefetching
<1>4. JobsCurrent'
  BY <1>0 DEF Work, JobsCurrent, Due, folder, watcher
<1>5. PlainRead' /\ FlightsFetch'
  BY <1>0 DEF Work, PlainRead, FlightsFetch, folder
<1>6. WaitsForFlight'
  BY <1>0 DEF Work, WaitsForFlight
<1>7. MustBeDue'
  BY <1>0 DEF Work, MustBeDue, Due, folder, watcher
<1>8. FlightsAnswer'
  BY <1>0 DEF Work, FlightsAnswer, WaitsForFlight
<1> QED  BY <1>1, <1>3, <1>4, <1>5, <1>6, <1>7, <1>8 DEF Work

\* The generation is another, and what is due may be more.
LEMMA BumpKeepsWork ==
    ASSUME ListingInv, Bump, UNCHANGED <<ordered, kind, refreshing, caller>>, Due \subseteq Due'
    PROVE  Work'
<1>0. Types /\ Work
  BY DEF ListingInv
<1>1. \A j \in Jobs : /\ job'[j].at = job[j].at /\ job'[j].flight = job[j].flight
                      /\ job'[j].has = job[j].has /\ job'[j].snap = job[j].snap
                      /\ ~job'[j].current /\ ~job'[j].asked
  BY <1>0, BumpTypes
<1>2. \A k \in Jobs : Revalidates(k)' = Revalidates(k)
  BY <1>1 DEF Revalidates
<1>3. OneClaim'
  BY <1>0, <1>2 DEF Work, OneClaim, Prefetching
<1>4. JobsCurrent' /\ PlainRead' /\ FlightsFetch'
  BY <1>0, <1>1 DEF Work, JobsCurrent, PlainRead, FlightsFetch
<1>5. WaitsForFlight' /\ FlightsAnswer'
  BY <1>0, <1>1 DEF Work, WaitsForFlight, FlightsAnswer
<1>6. MustBeDue'
  BY <1>0 DEF Work, MustBeDue
<1> QED  BY <1>3, <1>4, <1>5, <1>6 DEF Work

\* Neither readers nor goroutines move, nor is anything more due.
LEMMA WorkFrame ==
    ASSUME ListingInv, UNCHANGED <<ordered, confirmed, known, refreshing, job, caller>>, Len(kind') \in Nat, Len(kind') >= Len(kind)
    PROVE  Work'
<1>0. Types /\ Work
  BY DEF ListingInv
<1>n. Len(kind) \in Nat
  BY <1>0 DEF Types, FolderTypes
<1>1. OneClaim' /\ FlightsFetch' /\ PlainRead'
  BY <1>0 DEF Work, OneClaim, Revalidates, Prefetching, FlightsFetch, PlainRead
<1>2. WaitsForFlight' /\ FlightsAnswer' /\ MustBeDue'
  BY <1>0 DEF Work, WaitsForFlight, FlightsAnswer, MustBeDue, Due
<1>3. JobsCurrent'
  <2>1. \A n \in Nat : n <= Len(kind) => n <= Len(kind')
    BY <1>n
  <2> QED  BY <1>0, <2>1 DEF Work, JobsCurrent, Due
<1> QED  BY <1>1, <1>2, <1>3 DEF Work

\* What each step of the goroutines leaves of the cache.
LEMMA ContentFrame ==
    ASSUME ListingInv, UNCHANGED <<folder, watcher>>
    PROVE  /\ UNCHANGED entry /\ order' \in {order, NoOrder} => Content'
           /\ KnownTold'
<1>1. UNCHANGED entry /\ order' \in {order, NoOrder} => Content'
  BY DEF ListingInv, Content, HeldCurrent, Held, PlainVouched, Due, folder, watcher
<1>2. KnownTold'
  BY DEF ListingInv, KnownTold, OfMembers, folder, watcher
<1> QED  BY <1>1, <1>2

LEMMA JobStepKeeps ==
    ASSUME ListingInv, NEW j \in Jobs, JobStep(j)
    PROVE  KnownTold' /\ Work' /\ Content'
<1>0. Types /\ KnownTold /\ Work /\ Content
  BY DEF ListingInv
<1>t. FolderTypes /\ WatchTypes /\ EntryTypes /\ JobTypes /\ CallerTypes
  BY <1>0 DEF Types
<1>n. Len(kind) \in Nat /\ entry \in Entries(Len(kind)) /\ Due \subseteq 1..Len(kind)
  BY <1>t DEF FolderTypes, EntryTypes, WatchTypes, Due
<1>j. job \in [Jobs -> JobStates(Len(kind))] /\ job[j] \in JobStates(Len(kind))
  BY <1>t DEF JobTypes
<1>w. \A p \in Requests : caller[p].at = "wait" => caller[p].must \subseteq Due /\ (caller[p].job = j => job[j].flight /\ job[j].at # "off")
  BY <1>0 DEF Work, MustBeDue, WaitsForFlight
<1>c. /\ job[j].current /\ (job[j].at \in {"order", "store"} \/ (job[j].at = "close" /\ job[j].flight)) => Due \subseteq job[j].has
      /\ job[j].asked => job[j].at = "order" /\ Due \subseteq job[j].has /\ \E n \in Nat : n <= Len(kind) /\ job[j].has = 1..n
  BY <1>0 DEF Work, JobsCurrent
<1>a. job[j].at \in {"order", "store", "close"} =>
          \A p \in Requests : caller[p].at = "wait" /\ caller[p].job = j => caller[p].must \subseteq job[j].has
  BY <1>0 DEF Work, FlightsAnswer
<1>f. job[j].at \in {"check", "refresh"} => ~job[j].flight
  BY <1>0 DEF Work, FlightsFetch
<1>p. ~ordered => job[j].at # "order" /\ (job[j].at = "store" => 1..job[j].snap \subseteq job[j].has)
  BY <1>0 DEF Work, PlainRead
<1>1. CASE LookAgain(j)
  <2>1. /\ job[j].at = "look" /\ Held /\ UNCHANGED <<folder, watcher, cache, caller>>
        /\ job' = [job EXCEPT ![j] = [job[j] EXCEPT !.at = "close", !.has = entry.has]]
    BY <1>1 DEF LookAgain
  <2>2. PICK d \in JobStates(Len(kind)) : d = [job[j] EXCEPT !.at = "close", !.has = entry.has]
    BY <1>j, <1>n DEF JobStates, JobSteps, Entries
  <2>3. d.at = "close" /\ d.has = entry.has /\ d.flight = job[j].flight /\ d.current = job[j].current /\ d.asked = job[j].asked
    BY <1>j, <2>2 DEF JobStates
  <2>4. job'[j] = d /\ \A k \in Jobs \ {j} : job'[k] = job[k]
    BY <1>j, <2>1, <2>2
  <2>5. Due \subseteq entry.has
    BY <1>0, <2>1 DEF Content, HeldCurrent
  <2>6. KnownTold' /\ Work'
    BY <1>w, <1>c, <2>1, <2>3, <2>4, <2>5, JobGoesOn DEF cache
  <2> QED  BY <2>1, <2>6, ContentFrame DEF cache
<1>2. CASE Check(j)
  <2>1. /\ job[j].at = "check" /\ UNCHANGED <<folder, watcher, entry, refreshing, caller>> /\ order' \in {order, NoOrder}
        /\ \/ job' = [job EXCEPT ![j] = [job[j] EXCEPT !.at = "refresh"]]
           \/ job' = [job EXCEPT ![j] = [job[j] EXCEPT !.at = "status"]]
    BY <1>2 DEF Check
  <2>2. PICK d \in JobStates(Len(kind)) : /\ d = [job[j] EXCEPT !.at = "refresh"] \/ d = [job[j] EXCEPT !.at = "status"]
                                          /\ job' = [job EXCEPT ![j] = d]
    BY <1>j, <2>1 DEF JobStates, JobSteps
  <2>3. d.at \in {"refresh", "status"} /\ d.flight = job[j].flight /\ d.current = job[j].current /\ d.asked = job[j].asked
    BY <1>j, <2>2 DEF JobStates
  <2>4. job'[j] = d /\ \A k \in Jobs \ {j} : job'[k] = job[k]
    BY <1>j, <2>2
  <2>6. KnownTold' /\ Work'
    BY <1>c, <1>f, <2>1, <2>3, <2>4, JobGoesOn
  <2> QED  BY <2>1, <2>6, ContentFrame
<1>3. CASE Refresh(j)
  <2>1. /\ job[j].at = "refresh" /\ UNCHANGED <<folder, watcher, order, refreshing, caller>>
        /\ job' = [job EXCEPT ![j] = [job[j] EXCEPT !.at = "close", !.snap = 0]]
        /\ entry' = [entry EXCEPT !.zeroed = FALSE]
    BY <1>3 DEF Refresh
  <2>z. 0 \in 0..Len(kind)
    BY <1>n
  <2>2. PICK d \in JobStates(Len(kind)) : d = [job[j] EXCEPT !.at = "close", !.snap = 0]
    BY <1>j, <2>z DEF JobStates, JobSteps
  <2>3. d.at = "close" /\ d.flight = job[j].flight /\ d.current = job[j].current /\ d.asked = job[j].asked
    BY <1>j, <2>2 DEF JobStates
  <2>4. job'[j] = d /\ \A k \in Jobs \ {j} : job'[k] = job[k]
    BY <1>j, <2>1, <2>2
  <2>5. KnownTold' /\ Work'
    BY <1>c, <1>f, <1>w, <2>1, <2>3, <2>4, JobGoesOn
  <2>6. entry'.has = entry.has /\ entry'.snap = entry.snap /\ entry'.changed = entry.changed
    BY <1>n, <2>1 DEF Entries
  <2>7. entry' # NoEntry => entry # NoEntry
    BY <2>1, NothingUnzeroed
  <2>8. Content'
    BY <1>0, <2>1, <2>6, <2>7 DEF Content, HeldCurrent, Held, PlainVouched, Due, folder, watcher
  <2> QED  BY <2>5, <2>8
<1>4. CASE Status(j)
  <2>1. /\ job[j].at \in {"look", "status"} /\ UNCHANGED <<folder, watcher, cache, caller>>
        /\ job' = [job EXCEPT ![j] = [job[j] EXCEPT !.at = "rows", !.snap = Len(kind)]]
    BY <1>4 DEF Status
  <2>z. Len(kind) \in 0..Len(kind)
    BY <1>n
  <2>2. PICK d \in JobStates(Len(kind)) : d = [job[j] EXCEPT !.at = "rows", !.snap = Len(kind)]
    BY <1>j, <2>z DEF JobStates, JobSteps
  <2>3. d.at = "rows" /\ d.flight = job[j].flight /\ d.current = job[j].current /\ d.asked = job[j].asked
    BY <1>j, <2>2 DEF JobStates
  <2>4. job'[j] = d /\ \A k \in Jobs \ {j} : job'[k] = job[k]
    BY <1>j, <2>1, <2>2
  <2>5. KnownTold' /\ Work'
    BY <1>c, <2>1, <2>3, <2>4, JobGoesOn DEF cache
  <2> QED  BY <2>1, <2>5, ContentFrame DEF cache
<1>5. CASE Rows(j)
  <2>0. job[j].at = "rows" /\ UNCHANGED <<folder, watcher, cache, caller>>
    BY <1>5 DEF Rows
  <2>1. CASE ordered /\ order = NoOrder
    <3>1. job' = [job EXCEPT ![j] = [job[j] EXCEPT !.at = "order", !.asked = TRUE, !.has = 1..Len(kind)]]
      BY <1>5, <2>1 DEF Rows
    <3>2. PICK d \in JobStates(Len(kind)) : d = [job[j] EXCEPT !.at = "order", !.asked = TRUE, !.has = 1..Len(kind)]
      BY <1>j DEF JobStates, JobSteps
    <3>3. d.at = "order" /\ d.has = 1..Len(kind) /\ d.flight = job[j].flight /\ d.current = job[j].current
      BY <1>j, <3>2 DEF JobStates
    <3>4. job'[j] = d /\ \A k \in Jobs \ {j} : job'[k] = job[k]
      BY <1>j, <3>1, <3>2
    <3>5. \E n \in Nat : n <= Len(kind) /\ d.has = 1..n
      BY <1>n, <3>3
    <3>6. KnownTold' /\ Work'
      BY <1>w, <1>n, <2>0, <2>1, <3>3, <3>4, <3>5, JobGoesOn DEF cache
    <3> QED  BY <2>0, <3>6, ContentFrame DEF cache
  <2>2. CASE ~(ordered /\ order = NoOrder)
    <3>0. PICK m : m = IF ordered THEN order ELSE Len(kind)
      OBVIOUS
    <3>1. job' = [job EXCEPT ![j] = [job[j] EXCEPT !.at = "store", !.has = 1..m]]
      BY <1>5, <2>2, <3>0 DEF Rows
    <3>m. m \in (-1)..Len(kind) /\ Due \subseteq 1..m /\ (~ordered => m = Len(kind))
      BY <1>0, <1>t, <1>n, <2>2, <3>0 DEF EntryTypes, NoOrder, Content, HeldCurrent
    <3>s. 1..m \subseteq 1..Len(kind)
      BY <1>n, <3>m
    <3>2. PICK d \in JobStates(Len(kind)) : d = [job[j] EXCEPT !.at = "store", !.has = 1..m]
      BY <1>j, <3>s DEF JobStates, JobSteps
    <3>3. /\ d.at = "store" /\ d.has = 1..m /\ d.flight = job[j].flight /\ d.current = job[j].current /\ d.asked = job[j].asked
          /\ d.snap \in 0..Len(kind)
      BY <1>j, <3>2 DEF JobStates
    <3>4. job'[j] = d /\ \A k \in Jobs \ {j} : job'[k] = job[k]
      BY <1>j, <3>1, <3>2
    <3>5. ~ordered => 1..d.snap \subseteq d.has
      BY <1>n, <3>m, <3>3
    <3>6. KnownTold' /\ Work'
      BY <1>w, <1>c, <2>0, <3>m, <3>3, <3>4, <3>5, JobGoesOn DEF cache
    <3> QED  BY <2>0, <3>6, ContentFrame DEF cache
  <2> QED  BY <2>1, <2>2
<1>6. CASE HoldOrder(j)
  <2>1. /\ job[j].at = "order" /\ UNCHANGED <<folder, watcher, entry, refreshing, caller>>
        /\ job' = [job EXCEPT ![j] = [job[j] EXCEPT !.at = "store", !.asked = FALSE]]
        /\ order' = IF job[j].asked THEN Cardinality(job[j].has) ELSE order
    BY <1>6 DEF HoldOrder
  <2>2. PICK d \in JobStates(Len(kind)) : d = [job[j] EXCEPT !.at = "store", !.asked = FALSE]
    BY <1>j DEF JobStates, JobSteps
  <2>3. d.at = "store" /\ d.has = job[j].has /\ d.flight = job[j].flight /\ d.current = job[j].current /\ ~d.asked
    BY <1>j, <2>2 DEF JobStates
  <2>4. job'[j] = d /\ \A k \in Jobs \ {j} : job'[k] = job[k]
    BY <1>j, <2>1, <2>2
  <2>5. KnownTold' /\ Work'
    BY <1>c, <1>a, <1>p, <2>1, <2>3, <2>4, JobGoesOn
  <2>6. job[j].asked => Due \subseteq 1..order'
    <3> HAVE job[j].asked
    <3>1. PICK n \in Nat : n <= Len(kind) /\ job[j].has = 1..n
      BY <1>c
    <3>2. Cardinality(1..n) = n
      BY <3>1, FS_Interval
    <3> QED  BY <1>c, <2>1, <3>1, <3>2
  <2>7. order' # NoOrder => Due \subseteq 1..order'
    BY <1>0, <2>1, <2>6 DEF Content, HeldCurrent
  <2>8. Content'
    BY <1>0, <2>1, <2>7 DEF Content, HeldCurrent, Held, PlainVouched, Due, folder, watcher
  <2> QED  BY <2>5, <2>8
<1>7. CASE Store(j)
  <2>1. /\ job[j].at = "store" /\ UNCHANGED <<folder, watcher, order, refreshing, caller>>
        /\ job' = [job EXCEPT ![j] = [job[j] EXCEPT !.at = "close", !.snap = 0]]
        /\ \/ entry' = entry
           \/ job[j].current /\ entry' = [zeroed |-> FALSE, changed |-> FALSE, has |-> job[j].has, snap |-> job[j].snap]
    BY <1>7 DEF Store
  <2>z. 0 \in 0..Len(kind)
    BY <1>n
  <2>2. PICK d \in JobStates(Len(kind)) : d = [job[j] EXCEPT !.at = "close", !.snap = 0]
    BY <1>j, <2>z DEF JobStates, JobSteps
  <2>3. d.at = "close" /\ d.has = job[j].has /\ d.flight = job[j].flight /\ d.current = job[j].current /\ d.asked = job[j].asked
    BY <1>j, <2>2 DEF JobStates
  <2>4. job'[j] = d /\ \A k \in Jobs \ {j} : job'[k] = job[k]
    BY <1>j, <2>1, <2>2
  <2>5. KnownTold' /\ Work'
    BY <1>c, <1>a, <2>1, <2>3, <2>4, JobGoesOn
  <2>6. CASE entry' = entry
    BY <2>1, <2>5, <2>6, ContentFrame
  <2>7. CASE job[j].current /\ entry' = [zeroed |-> FALSE, changed |-> FALSE, has |-> job[j].has, snap |-> job[j].snap]
    <3>1. entry'.has = job[j].has /\ entry'.snap = job[j].snap
      BY <2>7
    <3>2. Content'
      BY <1>0, <1>c, <1>p, <2>1, <2>7, <3>1 DEF Content, HeldCurrent, Held, PlainVouched, Due, folder, watcher
    <3> QED  BY <2>5, <3>2
  <2> QED  BY <2>1, <2>6, <2>7
<1>8. CASE Close(j) \/ Fails(j)
  <2>1. job[j].at # "off" /\ Ends(j)
    BY <1>8 DEF Close, Fails
  <2>2. UNCHANGED <<folder, watcher, entry, order>> /\ refreshing' = (refreshing /\ job[j].flight)
    BY <2>1 DEF Ends
  <2>3. job'[j] = JobOff /\ \A k \in Jobs \ {j} : job'[k] = job[k]
    BY <1>j, <2>1 DEF Ends
  <2>5. /\ JobOff.at = "off" /\ ~JobOff.current /\ ~JobOff.asked /\ ~JobOff.flight
        /\ \A a : [CallerOff EXCEPT !.at = a].at = a /\ [CallerOff EXCEPT !.at = a].job = Nobody
    BY DEF JobOff, CallerOff
  <2>4. \A p \in Requests :
            IF caller[p].job = j THEN caller'[p].at = (IF p \in Ahead THEN "release" ELSE "idle") /\ caller'[p].job = Nobody
            ELSE caller'[p] = caller[p]
    <3> SUFFICES ASSUME NEW p \in Requests, caller[p].job = j
                 PROVE  caller'[p].at = (IF p \in Ahead THEN "release" ELSE "idle") /\ caller'[p].job = Nobody
      BY <2>1 DEF Ends, Answered
    <3>1. caller'[p] = [CallerOff EXCEPT !.at = IF p \in Ahead THEN "release" ELSE "idle"]
      BY <2>1 DEF Ends, Answered
    <3> QED  BY <2>5, <3>1
  <2>6. OneClaim'
    <3>1. ~Revalidates(j)' /\ \A k \in Jobs \ {j} : Revalidates(k)' = Revalidates(k)
      BY <2>3, <2>5 DEF Revalidates
    <3>2. Revalidates(j) <=> ~job[j].flight
      BY <2>1 DEF Revalidates
    <3>3. \A p \in Requests : Prefetching(p)' = Prefetching(p)
      <4> SUFFICES ASSUME NEW p \in Requests, p \in Ahead, caller[p].job = j PROVE Prefetching(p)' = Prefetching(p)
        BY <2>4 DEF Prefetching
      <4>1. caller[p].at = "wait"
        BY <1>0, ListingAssumption DEF Work, WaitsForFlight
      <4> QED  BY <2>4, <4>1 DEF Prefetching
    <3>4. refreshing \in BOOLEAN /\ job[j].flight \in BOOLEAN
      BY <1>t, <1>j DEF EntryTypes, JobStates
    <3> QED  BY <1>0, <2>2, <3>1, <3>2, <3>3, <3>4 DEF Work, OneClaim
  <2>7. JobsCurrent'
    BY <1>0, <2>2, <2>3, <2>5 DEF Work, JobsCurrent, Due, folder, watcher
  <2>8. PlainRead' /\ FlightsFetch'
    BY <1>0, <2>2, <2>3, <2>5 DEF Work, PlainRead, FlightsFetch, folder
  <2>9. WaitsForFlight' /\ FlightsAnswer'
    BY <1>0, <2>3, <2>4, <2>5 DEF Work, WaitsForFlight, FlightsAnswer
  <2>10. MustBeDue'
    BY <1>0, <2>2, <2>4, <2>5 DEF Work, MustBeDue, Due, folder, watcher
  <2> QED  BY <2>2, <2>6, <2>7, <2>8, <2>9, <2>10, ContentFrame DEF Work
<1> QED  BY <1>1, <1>2, <1>3, <1>4, <1>5, <1>6, <1>7, <1>8 DEF JobStep
LEMMA CallerStepKeeps ==
    ASSUME ListingInv, NEW p \in Requests,
           \/ p \in Readers /\ (ReadStale(p) \/ Revalidate(p) \/ Cancel(p))
           \/ p \in Ahead /\ (LookAhead(p) \/ Prefetch(p) \/ Release(p))
           \/ Claimed(p) \/ Create(p) \/ Join(p)
    PROVE  KnownTold' /\ Work' /\ Content'
<1>0. Types /\ KnownTold /\ Work /\ Content
  BY DEF ListingInv
<1>t. caller \in [Requests -> CallerStates(Len(kind))] /\ job \in [Jobs -> JobStates(Len(kind))]
  BY <1>0 DEF Types, CallerTypes, JobTypes
<1>r. (p \in Readers => p \notin Ahead) /\ OneClaim
  BY <1>0, ListingAssumption DEF Work
<1>o. JobOff.at = "off" /\ ~JobOff.current /\ ~JobOff.asked /\ ~JobOff.flight /\ CallerOff.at = "idle" /\ CallerOff.job = Nobody
  BY DEF JobOff, CallerOff
<1>f. caller[p].at # "wait" => caller[p].job = Nobody
  BY <1>0 DEF Work, WaitsForFlight
<1>c. ASSUME UNCHANGED <<job, refreshing>>, \A q \in Requests \ {p} : caller'[q] = caller[q], Prefetching(p)' = Prefetching(p)
      PROVE  OneClaim'
  <2>1. \A q \in Requests : Prefetching(q)' = Prefetching(q)
    BY <1>c DEF Prefetching
  <2> QED  BY <1>r, <1>c, <2>1 DEF OneClaim, Revalidates
<1>1. CASE p \in Readers /\ ReadStale(p)
  <2>1. caller' = [caller EXCEPT ![p] = [caller[p] EXCEPT !.at = "stale", !.snap = entry.snap]] /\ caller[p].at = "idle"
    BY <1>1 DEF ReadStale
  <2>2. \A q \in Requests \ {p} : caller'[q] = caller[q]
    BY <1>t, <2>1
  <2>3. caller'[p].at = "stale" /\ caller'[p].job = Nobody
    BY <1>t, <1>f, <2>1 DEF CallerStates
  <2>4. OneClaim'
    BY <1>c, <1>r, <1>1, <2>2 DEF Prefetching, ReadStale, cache
  <2> QED  BY <1>1, <2>2, <2>3, <2>4, CallerMoves DEF ReadStale, cache
<1>2. CASE Claimed(p) \/ (p \in Readers /\ Cancel(p))
  <2>1. caller' = [caller EXCEPT ![p] = CallerOff] /\ UNCHANGED <<folder, watcher, cache, job>> /\ ~Prefetching(p)
    BY <1>2, <1>r DEF Claimed, Cancel, Prefetching
  <2>2. caller'[p] = CallerOff /\ \A q \in Requests \ {p} : caller'[q] = caller[q]
    BY <1>t, <2>1
  <2>3. OneClaim'
    BY <1>c, <1>o, <2>1, <2>2 DEF Prefetching, cache
  <2> QED  BY <1>o, <2>1, <2>2, <2>3, CallerMoves DEF cache
<1>7. CASE p \in Ahead /\ (LookAhead(p) \/ Prefetch(p))
  <2>1. PICK a \in {"missing", "load"} :
            /\ caller' = [caller EXCEPT ![p] = [caller[p] EXCEPT !.at = a]] /\ caller[p].at \in {"idle", "missing"}
            /\ UNCHANGED <<folder, watcher, entry, order, job>>
            /\ IF a = "load" THEN ~refreshing /\ refreshing' ELSE UNCHANGED refreshing
    BY <1>7 DEF LookAhead, Prefetch, cache
  <2>2. caller'[p].at = a /\ caller'[p].job = Nobody
    BY <1>t, <1>f, <2>1 DEF CallerStates
  <2>3. \A q \in Requests \ {p} : caller'[q] = caller[q]
    BY <1>t, <2>1
  <2>4. CASE a = "missing"
    <3>1. OneClaim'
      BY <1>c, <2>1, <2>2, <2>3, <2>4 DEF Prefetching
    <3> QED  BY <2>1, <2>2, <2>3, <2>4, <3>1, CallerMoves
  <2>5. CASE a = "load"
    <3>1. Prefetching(p)' /\ \A q \in Requests \ {p} : Prefetching(q)' = Prefetching(q)
      BY <1>7, <2>2, <2>3, <2>5 DEF Prefetching
    <3>2. \A q \in Requests : ~Prefetching(q)
      BY <1>r, <2>1, <2>5 DEF OneClaim
    <3>3. \A k \in Jobs : ~Revalidates(k) /\ ~Revalidates(k)'
      BY <1>r, <2>1, <2>5 DEF OneClaim, Revalidates
    <3>4. OneClaim'
      BY <2>1, <2>5, <3>1, <3>2, <3>3 DEF OneClaim
    <3> QED  BY <2>1, <2>2, <2>3, <2>5, <3>4, CallerMoves
  <2> QED  BY <2>1, <2>4, <2>5
<1>8. CASE p \in Ahead /\ Release(p)
  <2>1. /\ caller' = [caller EXCEPT ![p] = CallerOff] /\ caller[p].at = "release" /\ ~refreshing'
        /\ UNCHANGED <<folder, watcher, entry, order, job>>
    BY <1>8 DEF Release
  <2>2. caller'[p] = CallerOff /\ \A q \in Requests \ {p} : caller'[q] = caller[q]
    BY <1>t, <2>1
  <2>3. Prefetching(p)
    BY <1>8, <2>1 DEF Prefetching
  <2>4. \A q \in Requests : ~Prefetching(q)'
    BY <1>r, <1>o, <2>2, <2>3 DEF OneClaim, Prefetching
  <2>5. \A k \in Jobs : ~Revalidates(k)'
    BY <1>r, <2>1, <2>3 DEF OneClaim, Revalidates
  <2>6. OneClaim'
    BY <2>1, <2>4, <2>5 DEF OneClaim
  <2> QED  BY <1>o, <2>1, <2>2, <2>6, CallerMoves
<1>p. ASSUME NEW j, caller' = Waits(p, j), Create(p) \/ Join(p)
      PROVE  /\ caller'[p].at = "wait" /\ caller'[p].job = j /\ caller'[p].must \subseteq Due
             /\ \A q \in Requests \ {p} : caller'[q] = caller[q]
             /\ \A q \in Requests : Prefetching(q)' = Prefetching(q)
  <2>1. caller' = [caller EXCEPT ![p] = [at |-> "wait", job |-> j, must |-> IF p \in Ahead THEN {} ELSE Due, snap |-> 0]]
    BY <1>p DEF Waits
  <2>2. caller'[p].at = "wait" /\ caller'[p].job = j /\ caller'[p].must \subseteq Due /\ \A q \in Requests \ {p} : caller'[q] = caller[q]
    BY <1>t, <2>1
  <2> QED  BY <1>p, <2>2 DEF Prefetching, Create, Join
<1>3. CASE Join(p)
  <2>1. PICK j \in Flight : caller' = Waits(p, j)
    BY <1>3 DEF Join
  <2>2. OneClaim'
    BY <1>c, <1>p, <1>3, <2>1 DEF Join, cache
  <2> QED  BY <1>3, <1>p, <2>1, <2>2, CallerMoves DEF Join, cache
<1>4. ASSUME NEW j \in Jobs, job[j].at = "off", NEW d, job' = [job EXCEPT ![j] = d],
             d.at \in {"check", "look"}, d.flight <=> d.at = "look", d.flight \in BOOLEAN, ~d.asked,
             NEW c, caller' = [caller EXCEPT ![p] = c],
             IF c.at = "wait" THEN d.flight /\ c.job = j /\ c.must \subseteq Due ELSE c.job = Nobody,
             \A q \in Requests : Prefetching(q)' = Prefetching(q),
             UNCHANGED <<folder, watcher, entry, order>>, refreshing' = (refreshing \/ ~d.flight), ~d.flight => ~refreshing
      PROVE  KnownTold' /\ Work' /\ Content'
  <2>1. job'[j] = d /\ \A k \in Jobs \ {j} : job'[k] = job[k]
    BY <1>t, <1>4
  <2>2. caller'[p] = c /\ \A q \in Requests \ {p} : caller'[q] = caller[q]
    BY <1>t, <1>4
  <2>3. \A q \in Requests : caller[q].at = "wait" => caller[q].job # j
    BY <1>0, <1>4 DEF Work, WaitsForFlight
  <2>4. OneClaim'
    <3>1. (Revalidates(j)' <=> ~d.flight) /\ ~Revalidates(j) /\ \A k \in Jobs \ {j} : Revalidates(k)' = Revalidates(k)
      BY <1>4, <2>1 DEF Revalidates
    <3> QED  BY <1>0, <1>4, <3>1 DEF Work, OneClaim
  <2>5. JobsCurrent'
    BY <1>0, <1>4, <2>1 DEF Work, JobsCurrent, Due, folder, watcher
  <2>6. PlainRead' /\ FlightsFetch'
    BY <1>0, <1>4, <2>1 DEF Work, PlainRead, FlightsFetch, folder
  <2>7. WaitsForFlight' /\ FlightsAnswer'
    BY <1>0, <1>4, <2>1, <2>2, <2>3 DEF Work, WaitsForFlight, FlightsAnswer
  <2>8. MustBeDue'
    BY <1>0, <1>4, <2>2 DEF Work, MustBeDue, Due, folder, watcher
  <2> QED  BY <1>4, <2>4, <2>5, <2>6, <2>7, <2>8, ContentFrame DEF Work
<1>5. CASE p \in Readers /\ Revalidate(p)
  <2>1. PICK j \in Jobs : /\ job[j].at = "off"
                          /\ job' = [job EXCEPT ![j] = [JobOff EXCEPT !.at = "check", !.current = TRUE, !.snap = caller[p].snap]]
    BY <1>5 DEF Revalidate
  <2>2. PICK d : d = [JobOff EXCEPT !.at = "check", !.current = TRUE, !.snap = caller[p].snap]
    OBVIOUS
  <2>3. d.at = "check" /\ d.flight = FALSE /\ ~d.asked
    BY <2>2 DEF JobOff
  <2>4. caller' = [caller EXCEPT ![p] = CallerOff]
    BY <1>5 DEF Revalidate
  <2>5. \A q \in Requests : Prefetching(q)' = Prefetching(q)
    BY <1>t, <1>r, <1>5, <2>4 DEF Prefetching
  <2> QED  BY <1>o, <1>4, <1>5, <2>1, <2>2, <2>3, <2>4, <2>5 DEF Revalidate
<1>6. CASE Create(p)
  <2>1. PICK j \in Jobs : /\ job[j].at = "off"
                          /\ job' = [job EXCEPT ![j] = [JobOff EXCEPT !.at = "look", !.flight = TRUE, !.current = TRUE]]
                          /\ caller' = Waits(p, j)
    BY <1>6 DEF Create
  <2>2. PICK d : d = [JobOff EXCEPT !.at = "look", !.flight = TRUE, !.current = TRUE]
    OBVIOUS
  <2>3. d.at = "look" /\ d.flight = TRUE /\ ~d.asked
    BY <2>2 DEF JobOff
  <2>4. PICK c : caller' = [caller EXCEPT ![p] = c]
    BY <2>1 DEF Waits
  <2>5. c.at = "wait" /\ c.job = j /\ c.must \subseteq Due /\ \A q \in Requests : Prefetching(q)' = Prefetching(q)
    BY <1>t, <1>p, <1>6, <2>1, <2>4
  <2>6. refreshing \in BOOLEAN /\ UNCHANGED <<folder, watcher, entry, order, refreshing>>
    BY <1>0, <1>6 DEF Create, cache, Types, EntryTypes
  <2> QED  BY <1>4, <2>1, <2>2, <2>3, <2>4, <2>5, <2>6
<1> QED  BY <1>1, <1>2, <1>3, <1>5, <1>6, <1>7, <1>8

----------------------------------------------------------------------------
(* What befalls the listing *)

LEMMA ConfirmKeeps ==
    ASSUME ListingInv, Confirm
    PROVE  KnownTold' /\ Work' /\ Content'
<1>0. Types /\ KnownTold /\ Work /\ Content
  BY DEF ListingInv
<1>t. FolderTypes /\ EntryTypes /\ Len(kind) \in Nat
  BY <1>0 DEF Types, FolderTypes
<1>1. /\ written \in 1..Len(kind) /\ UNCHANGED <<ordered, kind, watch, told, known, refreshing, caller>>
      /\ \/ Flags(written) /\ confirmed' = confirmed \cup {written}
         \/ Drop /\ confirmed' = confirmed \cup {written}
         \/ MarkSeen(written) /\ UNCHANGED confirmed
  BY <1>t DEF Confirm, FolderTypes, watcher
<1>2. KnownTold'
  BY <1>0, <1>1 DEF KnownTold, OfMembers
<1>3. PICK c \in 1..Len(kind) : c = written
  BY <1>1
<1>4. CASE Flags(c) /\ confirmed' = confirmed \cup {c}
  <2>1. Due' = Due \cup {c}
    BY <1>1, <1>4 DEF Due
  <2>2. Work'
    BY <1>1, <1>4, <2>1, BumpKeepsWork DEF Flags
  <2>3. EntryStep(c)
    BY <1>4 DEF Flags, EntryStep
  <2>4. /\ entry' # NoEntry =>
             /\ entry # NoEntry
             /\ entry'.snap = entry.snap
             /\ entry'.has = entry.has \/ entry'.has = entry.has \cup {c}
             /\ ~entry'.changed => ~entry.changed
    BY <1>t, <2>3, EntryChanges
  <2>5. entry' # NoEntry => c \in entry'.has
    BY <1>4, <1>t DEF Flags, EntryTypes, Entries
  <2>6. HeldCurrent'
    BY <1>0, <1>4, <2>1, <2>4, <2>5 DEF Content, HeldCurrent, Held, Flags
  <2>7. PlainVouched'
    BY <1>0, <1>1, <2>4 DEF Content, PlainVouched
  <2> QED  BY <1>2, <2>2, <2>6, <2>7 DEF Content
<1>5. CASE Drop /\ confirmed' = confirmed \cup {c}
  <2>1. Due \subseteq Due'
    BY <1>1, <1>5 DEF Due
  <2>2. Work'
    BY <1>1, <1>5, <2>1, BumpKeepsWork DEF Drop
  <2>3. Content'
    BY <1>5 DEF Drop, Content, HeldCurrent, Held, PlainVouched
  <2> QED  BY <1>2, <2>2, <2>3
<1>6. CASE MarkSeen(c) /\ UNCHANGED confirmed
  <2>1. Work'
    BY <1>1, <1>6, <1>t, WorkFrame DEF MarkSeen
  <2>2. EntryStep(c)
    BY <1>6 DEF MarkSeen, EntryStep
  <2>3. /\ entry' # NoEntry =>
             /\ entry # NoEntry
             /\ entry'.snap = entry.snap
             /\ entry'.has = entry.has \/ entry'.has = entry.has \cup {c}
             /\ ~entry'.changed => ~entry.changed
    BY <1>t, <2>2, EntryChanges
  <2>4. HeldCurrent'
    BY <1>0, <1>1, <1>6, <2>3 DEF Content, HeldCurrent, Held, Due, MarkSeen
  <2>5. PlainVouched'
    BY <1>0, <1>1, <2>3 DEF Content, PlainVouched
  <2> QED  BY <1>2, <2>1, <2>4, <2>5 DEF Content
<1> QED  BY <1>1, <1>3, <1>4, <1>5, <1>6

LEMMA AnnounceKeeps ==
    ASSUME ListingInv, Announce
    PROVE  KnownTold' /\ Work' /\ Content'
<1>0. Types /\ KnownTold /\ Work /\ Content
  BY DEF ListingInv
<1>t. FolderTypes /\ WatchTypes /\ EntryTypes /\ Len(kind) \in Nat /\ told \in Nat
  BY <1>0 DEF Types, FolderTypes, WatchTypes
<1>1. PICK c \in 1..Len(kind) : c = told + 1
  BY <1>t DEF Announce, WatchTypes
<1>2. /\ watch # "off" /\ told' = c /\ UNCHANGED <<ordered, kind, confirmed, watch, refreshing, caller>>
      /\ \/ OfMembers(c) /\ Stale /\ known' = known \cup {c}
         \/ SetFlags(c) /\ UNCHANGED known
  BY <1>1 DEF Announce, folder
<1>3. KnownTold'
  <2>1. known \subseteq 1..c /\ c \in 1..c
    BY <1>0, <1>1, <1>2, <1>t DEF KnownTold
  <2> QED  BY <1>0, <1>2, <2>1 DEF KnownTold, OfMembers
<1>4. CASE Stale /\ known' = known \cup {c}
  <2>1. Due \subseteq Due'
    BY <1>2, <1>4 DEF Due
  <2>2. Work'
    BY <1>2, <1>4, <2>1, BumpKeepsWork DEF Stale
  <2>3. EntryStep(c)
    BY <1>4 DEF Stale, EntryStep
  <2>4. /\ entry' # NoEntry =>
             /\ entry # NoEntry
             /\ entry'.snap = entry.snap
             /\ entry'.has = entry.has \/ entry'.has = entry.has \cup {c}
             /\ ~entry'.changed => ~entry.changed
    BY <1>t, <2>3, EntryChanges
  <2>5. entry' # NoEntry => entry'.changed
    BY <1>4, <1>t DEF Stale, EntryTypes, Entries
  <2>6. HeldCurrent'
    BY <1>4, <2>5 DEF HeldCurrent, Held, Stale
  <2>7. PlainVouched'
    BY <1>0, <1>2, <2>4 DEF Content, PlainVouched
  <2> QED  BY <1>3, <2>2, <2>6, <2>7 DEF Content
<1>5. CASE SetFlags(c) /\ UNCHANGED known
  <2>1. Work'
    BY <1>2, <1>5, <1>t, WorkFrame DEF SetFlags
  <2>2. EntryStep(c)
    BY <1>5 DEF SetFlags, EntryStep
  <2>3. /\ entry' # NoEntry =>
             /\ entry # NoEntry
             /\ entry'.snap = entry.snap
             /\ entry'.has = entry.has \/ entry'.has = entry.has \cup {c}
             /\ ~entry'.changed => ~entry.changed
    BY <1>t, <2>2, EntryChanges
  <2>4. HeldCurrent'
    BY <1>0, <1>2, <1>5, <2>3 DEF Content, HeldCurrent, Held, Due, SetFlags
  <2>5. PlainVouched'
    BY <1>0, <1>2, <2>3 DEF Content, PlainVouched
  <2> QED  BY <1>3, <2>1, <2>4, <2>5 DEF Content
<1> QED  BY <1>2, <1>4, <1>5

LEMMA OthersKeep ==
    ASSUME ListingInv,
           \/ \E k \in Own : Write(k)
           \/ \E k \in Foreign : Elsewhere(k)
           \/ Unheard \/ WatchFails \/ WatchSelects \/ WatchClears \/ EvictAll \/ Evicted \/ OtherPage
           \/ UNCHANGED vars
    PROVE  KnownTold' /\ Work' /\ Content'
<1>0. Types /\ KnownTold /\ Work /\ Content
  BY DEF ListingInv
<1>n. Len(kind) \in Nat /\ kind \in Seq(Own \cup Foreign) /\ told \in 0..Len(kind) /\ known \subseteq 1..Len(kind) /\ Due \subseteq 1..Len(kind)
  BY <1>0 DEF Types, FolderTypes, WatchTypes, Due
<1>1. ASSUME NEW k \in Own \cup Foreign, kind' = Append(kind, k), UNCHANGED <<ordered, confirmed, watcher, cache, job, caller>>
      PROVE  KnownTold' /\ Work' /\ Content'
  <2>1. Len(kind') = Len(kind) + 1 /\ \A c \in 1..Len(kind) : kind'[c] = kind[c]
    BY <1>1, <1>n
  <2>2. KnownTold'
    BY <1>0, <1>1, <1>n, <2>1 DEF KnownTold, OfMembers, watcher
  <2>3. Len(kind') \in Nat /\ Len(kind') >= Len(kind)
    BY <1>n, <2>1
  <2>4. Work'
    BY <1>1, <2>3, WorkFrame DEF watcher, cache
  <2>5. Content'
    BY <1>0, <1>1 DEF Content, HeldCurrent, Held, PlainVouched, Due, watcher, cache
  <2> QED  BY <2>2, <2>4, <2>5
<1>2. CASE (\E k \in Own : Write(k)) \/ (\E k \in Foreign : Elsewhere(k))
  BY <1>1, <1>2 DEF Write, Elsewhere
<1>l. UNCHANGED kind => Len(kind') \in Nat /\ Len(kind') >= Len(kind)
  BY <1>n
<1>3. CASE Unheard \/ UNCHANGED vars
  <2>1. UNCHANGED <<ordered, kind, confirmed, watch, told, known, entry, order, refreshing, job, caller>>
    BY <1>3 DEF Unheard, vars, watcher, cache
  <2>2. Work'
    BY <1>l, <2>1, WorkFrame
  <2> QED  BY <1>0, <2>1, <2>2 DEF KnownTold, OfMembers, Content, HeldCurrent, Held, PlainVouched, Due
<1>4. CASE WatchFails \/ WatchSelects
  <2>1. /\ UNCHANGED <<ordered, kind, confirmed, known, entry, order, refreshing, job, caller>>
        /\ watch' = "off" \/ told' = Len(kind)
    BY <1>4 DEF WatchFails, WatchSelects, folder, cache
  <2>2. Work'
    BY <1>l, <2>1, WorkFrame
  <2>3. KnownTold'
    BY <1>0, <1>n, <2>1 DEF KnownTold, OfMembers
  <2> QED  BY <1>0, <2>1, <2>2, <2>3 DEF Content, HeldCurrent, Held, PlainVouched, Due
<1>5. CASE WatchClears
  <2>1. /\ UNCHANGED <<ordered, kind, confirmed, told, refreshing, caller>> /\ Drop /\ watch = "selected"
        /\ known' = {c \in 1..told : OfMembers(c)}
    BY <1>5 DEF WatchClears, folder
  <2>2. known \subseteq known'
    BY <1>0, <2>1 DEF KnownTold
  <2>3. KnownTold'
    BY <2>1 DEF KnownTold, OfMembers
  <2>4. Due \subseteq Due'
    BY <2>1, <2>2 DEF Due
  <2>5. Work'
    BY <2>1, <2>4, BumpKeepsWork DEF Drop
  <2> QED  BY <2>1, <2>3, <2>5 DEF Drop, Content, HeldCurrent, Held, PlainVouched
<1>6. CASE EvictAll
  <2>1. UNCHANGED <<ordered, kind, confirmed, watch, told, known, refreshing, caller>> /\ Drop
    BY <1>6 DEF EvictAll, folder, watcher
  <2>2. Due \subseteq Due' /\ KnownTold'
    BY <1>0, <2>1 DEF Due, KnownTold, OfMembers
  <2>3. Work'
    BY <2>1, <2>2, BumpKeepsWork DEF Drop
  <2> QED  BY <2>1, <2>2, <2>3 DEF Drop, Content, HeldCurrent, Held, PlainVouched
<1>7. CASE Evicted \/ OtherPage
  <2>1. /\ UNCHANGED <<ordered, kind, confirmed, watch, told, known, refreshing, job, caller>>
        /\ \/ entry' = NoEntry /\ order' = order
           \/ entry' = entry /\ order' = Len(kind)
    BY <1>7 DEF Evicted, OtherPage, folder, watcher
  <2>2. Work'
    BY <1>l, <2>1, WorkFrame
  <2>3. KnownTold'
    BY <1>0, <2>1 DEF KnownTold, OfMembers
  <2>4. Content'
    BY <1>0, <1>n, <2>1 DEF Content, HeldCurrent, Held, PlainVouched, Due
  <2> QED  BY <2>2, <2>3, <2>4
<1> QED  BY <1>2, <1>3, <1>4, <1>5, <1>6, <1>7

LEMMA NextListingInv == ListingInv /\ [Next]_vars => ListingInv'
<1> SUFFICES ASSUME ListingInv, [Next]_vars PROVE ListingInv'
  OBVIOUS
<1>1. Types'
  BY NextTypes
<1>2. KnownTold' /\ Work' /\ Content'
  BY CallerStepKeeps, JobStepKeeps, ConfirmKeeps, AnnounceKeeps, OthersKeep DEF Next, Requests
<1> QED  BY <1>1, <1>2 DEF ListingInv

----------------------------------------------------------------------------
(* The theorems *)

LEMMA ListingInvTypeOK == ListingInv => TypeOK
<1> SUFFICES ASSUME ListingInv PROVE TypeOK
  OBVIOUS
<1>0. FolderTypes /\ WatchTypes /\ EntryTypes /\ JobTypes /\ CallerTypes /\ WaitsForFlight /\ OneClaim
  BY DEF ListingInv, Types, Work
<1>1. (entry = NoEntry \/ entry.snap \in 0..Len(kind)) /\ entry.has \subseteq 1..Len(kind)
  BY <1>0 DEF EntryTypes, Entries, FolderTypes
<1>2. /\ \A j \in Jobs : job[j].at \in JobSteps
      /\ \A p \in Readers : caller[p].at \in {"idle", "stale", "wait"}
      /\ \A p \in Ahead : caller[p].at \in {"idle", "missing", "load", "wait", "release"}
  BY <1>0 DEF JobTypes, JobStates, CallerTypes, CallerStates, CallerSteps, Requests
<1>3. /\ \A j : j \in Revalidations <=> j \in Jobs /\ Revalidates(j)
      /\ \A p : p \in Prefetches <=> p \in Requests /\ Prefetching(p)
  BY DEF Revalidations, Prefetches, Revalidates, Prefetching, Requests
<1>e. Cardinality({}) = 0 /\ \A x : Cardinality({x}) = 1
  BY FS_EmptySet, FS_Singleton
<1>4. Cardinality(Revalidations) + Cardinality(Prefetches) = IF refreshing THEN 1 ELSE 0
  <2>1. ASSUME NEW r \in Jobs, Revalidates(r) PROVE refreshing /\ Revalidations = {r} /\ Prefetches = {}
    BY <1>0, <1>3, <2>1 DEF OneClaim
  <2>2. ASSUME NEW r \in Requests, Prefetching(r) PROVE refreshing /\ Prefetches = {r} /\ Revalidations = {}
    BY <1>0, <1>3, <2>2 DEF OneClaim
  <2>3. ~refreshing => Prefetches = {} /\ Revalidations = {}
    BY <1>0, <1>3 DEF OneClaim
  <2>4. CASE refreshing
    <3>1. CASE \E r \in Jobs : Revalidates(r)
      <4>1. PICK r \in Jobs : Revalidates(r)
        BY <3>1
      <4>2. Cardinality(Revalidations) = 1 /\ Cardinality(Prefetches) = 0
        BY <1>e, <2>1, <4>1
      <4> QED  BY <2>4, <4>2
    <3>2. CASE \E r \in Requests : Prefetching(r)
      <4>1. PICK r \in Requests : Prefetching(r)
        BY <3>2
      <4>2. Cardinality(Revalidations) = 0 /\ Cardinality(Prefetches) = 1
        BY <1>e, <2>2, <4>1
      <4> QED  BY <2>4, <4>2
    <3> QED  BY <1>0, <2>4, <3>1, <3>2 DEF OneClaim
  <2>5. CASE ~refreshing
    <3>1. Cardinality(Revalidations) = 0 /\ Cardinality(Prefetches) = 0
      BY <1>e, <2>3, <2>5
    <3> QED  BY <2>5, <3>1
  <2> QED  BY <2>4, <2>5
<1>5. \A p \in Requests : caller[p].at = "wait" => job[caller[p].job].flight
  BY <1>0 DEF WaitsForFlight
<1> QED  BY <1>0, <1>1, <1>2, <1>3, <1>4, <1>5 DEF TypeOK, FolderTypes, WatchTypes, EntryTypes, JobSteps

\* The invariant the theorems follow from.
THEOREM ListingAlways == Spec => []ListingInv
<1>1. Init => ListingInv
  BY InitListingInv
<1>2. ListingInv /\ [Next]_vars => ListingInv'
  BY NextListingInv
<1> QED  BY <1>1, <1>2, PTL DEF Spec

\* The types, that a reader waits only for a flight, and that the page is claimed
\* exactly while one revalidation or one prefetch is under way: claim and release
\* in revalidate and prefetchPage, in every order of the goroutines' ends, the
\* flight a prefetch joined ending before it or failing included.
THEOREM ListingTypes == Spec => []TypeOK
<1>1. ListingInv => TypeOK
  BY ListingInvTypeOK
<1> QED  BY <1>1, ListingAlways, PTL

\* What listing may serve, and what order pages are cut from, shows every change
\* the reader made by hand and all traffic the watcher has reported: storeAt and
\* order compare the generation they noted, and each event advances it.
THEOREM ServesCurrent == Spec => []HeldCurrent
<1>1. ListingInv => HeldCurrent
  BY DEF ListingInv, Content
<1> QED  BY <1>1, ListingAlways, PTL

\* So does the answer of a flight, created or joined, for each of its waiters.
THEOREM FlightsServeCurrent == Spec => []AnswersCurrent
<1>1. ListingInv => AnswersCurrent
  BY DEF ListingInv, Work, FlightsAnswer, AnswersCurrent, Requests
<1> QED  BY <1>1, ListingAlways, PTL

\* The STATUS kept with a page of the folder itself counts nothing the page does
\* not show, as startSidebar asks for it before the rows.
THEOREM StatusVouches == Spec => []PlainVouched
<1>1. ListingInv => PlainVouched
  BY DEF ListingInv, Content
<1> QED  BY <1>1, ListingAlways, PTL
===========================================================================
