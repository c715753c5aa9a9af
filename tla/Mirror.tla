------------------------------- MODULE Mirror -------------------------------
(***************************************************************************)
(* The kept copy of one remote calendar or address book (pim/dav/mirror.go *)
(* and sync.go): background syncs bring what changed since the held token, *)
(* own writes go to the server and are then applied to the copy, signing   *)
(* out forgets the reader while its sync may still run, and the process    *)
(* may crash between any two steps; the copy on disk survives.             *)
(*                                                                         *)
(* The server numbers its changes; an object's content is the number of    *)
(* the change that wrote it, and a token is the number of the last change  *)
(* it covers.  The copy of a body answered without an ETag is the negated  *)
(* number: no listing's etag will match it.                                *)
(*                                                                         *)
(* A definition whose name extends another's is the other with a plausible *)
(* mistake in it; no specification uses it.                                *)
(***************************************************************************)
EXTENDS Integers, FiniteSets

CONSTANTS
    Names,       \* the collection's objects
    Syncs,       \* sync goroutines
    Writers,     \* requests that write
    Kinds,       \* what they do: "put", "delete", "move", "refused", "props"
    Reports,     \* what the server may do: TRUE speaks sync-collection
    May404,      \* the server may answer that the collection is not there
    MaxVersion,  \* bound on the server's changes
    MaxForgets,  \* bound on sign-outs
    MaxWrites    \* bound on a reader's own writes

ASSUME MirrorAssumption ==
    /\ Kinds \subseteq {"put", "delete", "move", "refused", "props"}
    /\ Reports \subseteq BOOLEAN
    /\ May404 \in BOOLEAN
    /\ MaxVersion \in Nat \ {0}
    /\ MaxForgets \in Nat
    /\ MaxWrites \in Nat
    /\ Syncs \cap Writers = {} /\ "nobody" \notin Syncs \cup Writers

VARIABLES
    reports,  \* the server speaks sync-collection; otherwise compare
    version,  \* the number of the server's last change
    mod,      \* the change that last touched each object
    there,    \* the objects that exist on the server
    held,     \* mirrored.Token or CTag of the held record, None without one
    copy,     \* the objects on disk, 0 where there is none
    reader,   \* which reader Mirror.readers holds; Forget makes way for another
    writes,   \* collection.writes of that reader
    syncing,  \* collection.syncing of that reader
    saving,   \* who holds Mirror.saving
    sync,     \* the sync goroutines
    write,    \* the writing requests
    late,     \* objects saved by a step that did not know of a later one
    missing   \* objects a drop took from under a step that then saved without them

vars == <<reports, version, mod, there, held, copy, reader, writes, syncing, saving, sync, write, late, missing>>
server == <<reports, version, mod, there>>
disk == <<held, copy, late, missing>>
memory == <<reader, writes, syncing>>

None == -1
Nobody == "nobody"
Versions == 0..MaxVersion

Content(n) == IF n \in there THEN mod[n] ELSE 0

SyncOff == [at |-> "off", reader |-> 0, written |-> 0, base |-> None, token |-> None,
            whole |-> FALSE, want |-> {}, gone |-> {}, put |-> [n \in Names |-> 0],
            dropped |-> FALSE, overtaken |-> FALSE]
WriteOff == [at |-> "off", kind |-> "put", name |-> Nobody,
             body |-> 0, etag |-> FALSE, held |-> None]

TypeOK ==
    /\ reports \in Reports
    /\ version \in Versions
    /\ mod \in [Names -> Versions]
    /\ there \subseteq Names
    /\ held \in Versions \cup {None}
    /\ copy \in [Names -> -MaxVersion..MaxVersion]
    /\ reader \in 0..MaxForgets
    /\ writes \in Nat
    /\ syncing \in BOOLEAN
    /\ saving \in Syncs \cup Writers \cup {Nobody}
    /\ late \subseteq Names
    /\ missing \subseteq Names
    /\ \A s \in Syncs : sync[s].at \in {"off", "began", "asked", "listing", "fetching", "pulled", "commit"}
    /\ \A w \in Writers : write[w].at \in {"off", "sent", "applying"}
    \* The saving mutex is held exactly in its critical sections.
    /\ \A s \in Syncs : sync[s].at = "commit" <=> saving = s
    /\ \A w \in Writers : write[w].at = "applying" <=> saving = w
    \* No copy of an object without a held record.
    /\ held = None => \A n \in Names : copy[n] = 0

Init ==
    /\ reports \in Reports
    /\ version = 1
    /\ mod = [n \in Names |-> 1]
    /\ there = Names
    /\ held \in {None, 1}
    /\ copy = [n \in Names |-> IF held = None THEN 0 ELSE 1]
    /\ reader = 0
    /\ writes = 0
    /\ syncing = FALSE
    /\ saving = Nobody
    /\ sync = [s \in Syncs |-> SyncOff]
    /\ write = [w \in Writers |-> WriteOff]
    /\ late = {}
    /\ missing = {}

----------------------------------------------------------------------------
(* The server, external *)

ServerChange(n, exists) ==
    /\ version < MaxVersion
    /\ UNCHANGED reports
    /\ version' = version + 1
    /\ mod' = [mod EXCEPT ![n] = version + 1]
    /\ there' = IF exists THEN there \cup {n} ELSE there \ {n}

Foreign(n) ==
    /\ ServerChange(n, TRUE) \/ (n \in there /\ ServerChange(n, FALSE))
    /\ UNCHANGED <<disk, memory, saving, sync, write>>

----------------------------------------------------------------------------
(* start and sync *)

\* One sync of the collection at a time, for the reader it has now.
Start(s) ==
    /\ sync[s].at = "off"
    /\ ~syncing
    /\ syncing' = TRUE
    /\ sync' = [sync EXCEPT ![s] = [SyncOff EXCEPT !.at = "began", !.reader = reader, !.written = writes]]
    /\ UNCHANGED <<server, disk, reader, writes, saving, write>>

\* sync's m.held, before it talks to the server.
ReadHeld(s) ==
    /\ sync[s].at = "began"
    /\ sync' = [sync EXCEPT ![s].at = "asked", ![s].base = held]
    /\ UNCHANGED <<server, disk, memory, saving, write>>

\* syncCollection from the held token, or from none when it has none or the
\* server refuses it: what changed since, and the token now.
Report(s) ==
    /\ reports
    /\ sync[s].at = "asked"
    /\ \E from \in {sync[s].base, None} :
        sync' = [sync EXCEPT ![s].at = "fetching",
                             ![s].base = None,
                             ![s].token = version,
                             ![s].whole = from = None,
                             ![s].dropped = @ /\ from # None,
                             ![s].want = {n \in there : mod[n] > from},
                             ![s].gone = {n \in Names \ there : from # None /\ mod[n] > from}]
    /\ UNCHANGED <<server, disk, memory, saving, write>>

\* compare: nothing while the ctag stands.
CTag(s) ==
    /\ ~reports
    /\ sync[s].at = "asked"
    /\ sync' = [sync EXCEPT ![s].at = IF version = sync[s].base THEN "pulled" ELSE "listing",
                            ![s].base = None,
                            ![s].token = version]
    /\ UNCHANGED <<server, disk, memory, saving, write>>

\* Otherwise the objects whose etag is not the copy's, and those not listed.
List(s) ==
    /\ sync[s].at = "listing"
    /\ sync' = [sync EXCEPT ![s].at = "fetching",
                            ![s].dropped = FALSE,
                            ![s].want = {n \in there : copy[n] # mod[n]},
                            ![s].gone = {n \in Names \ there : copy[n] # 0}]
    /\ UNCHANGED <<server, disk, memory, saving, write>>

\* multiget: the data as it is by now.
Fetch(s) ==
    /\ sync[s].at = "fetching"
    /\ sync' = [sync EXCEPT ![s].at = "pulled",
                            ![s].want = {},
                            ![s].put = [n \in Names |-> IF n \in sync[s].want THEN Content(n) ELSE 0]]
    /\ UNCHANGED <<server, disk, memory, saving, write>>

\* The goroutine of start ends; collection.syncing is its own reader's.
Ended(s) ==
    /\ sync' = [sync EXCEPT ![s] = SyncOff]
    /\ syncing' = (syncing /\ sync[s].reader # reader)

\* The server or the database fails, or syncBudget is spent.
PullFails(s) ==
    /\ sync[s].at \in {"began", "asked", "listing", "fetching"}
    /\ Ended(s)
    /\ UNCHANGED <<server, disk, reader, writes, saving, write>>

drop ==
    /\ held' = None
    /\ copy' = [n \in Names |-> 0]
    /\ late' = {}
    /\ missing' = {}

\* A drop outside saving: no sync in flight learns of it.
Unnoticed(syncs) ==
    [s \in Syncs |-> IF syncs[s].at \in {"off", "began", "listing"} \/ syncs[s].whole THEN syncs[s]
                     ELSE [syncs[s] EXCEPT !.dropped = TRUE]]

\* 404: the copy goes, outside saving.
PullGone(s) ==
    /\ May404
    /\ sync[s].at \in {"asked", "listing", "fetching"}
    /\ drop
    /\ sync' = Unnoticed([sync EXCEPT ![s] = SyncOff])
    /\ syncing' = (syncing /\ sync[s].reader # reader)
    /\ UNCHANGED <<server, reader, writes, saving, write>>

CurrentOfReader(s) == sync[s].reader = reader

\* Under saving: the reader is still the one, and wrote nothing since start.
Current(s) == sync[s].reader = reader /\ sync[s].written = writes

SaveCheck(s) ==
    /\ sync[s].at = "pulled"
    /\ saving = Nobody
    /\ IF Current(s)
       THEN /\ saving' = s
            /\ sync' = [sync EXCEPT ![s].at = "commit"]
            /\ UNCHANGED syncing
       ELSE Ended(s) /\ UNCHANGED saving
    /\ UNCHANGED <<server, disk, reader, writes, write>>

Saved(s) == {n \in Names : sync[s].put[n] # 0} \cup (IF sync[s].whole THEN Names ELSE sync[s].gone)

\* What is saved is noted: it closes the gaps in what it covers, and opens others
\* in what it does not if the copy is not the one the delta was made against.
\* A comparison made against the copy before this save is overtaken by it: there
\* is one only if the reader was forgotten between this sync's check and its save.
Note(s) ==
    LET rest == Names \ Saved(s)
    IN  /\ late' = (late \ Saved(s)) \cup (IF sync[s].overtaken THEN rest ELSE {})
        /\ missing' = (missing \ Saved(s)) \cup (IF sync[s].dropped THEN rest ELSE {})
        /\ sync' = [q \in Syncs |->
                     CASE q = s -> SyncOff
                       [] q # s /\ ~reports /\ sync[q].at \in {"fetching", "pulled"} ->
                            [sync[q] EXCEPT !.overtaken = TRUE]
                       [] OTHER -> sync[q]]
        /\ syncing' = (syncing /\ sync[s].reader # reader)

SaveCommitToken(s) ==
    /\ sync[s].at = "commit"
    /\ copy' = [n \in Names |-> IF n \in Saved(s) THEN sync[s].put[n] ELSE copy[n]]
    /\ held' = version
    /\ saving' = Nobody
    /\ Note(s)
    /\ UNCHANGED <<server, reader, writes, write>>

SaveCommit(s) ==
    /\ sync[s].at = "commit"
    /\ copy' = [n \in Names |-> IF n \in Saved(s) THEN sync[s].put[n] ELSE copy[n]]
    /\ held' = sync[s].token
    /\ saving' = Nobody
    /\ Note(s)
    /\ UNCHANGED <<server, reader, writes, write>>

\* The transaction fails and changes nothing.
SaveFails(s) ==
    /\ sync[s].at = "commit"
    /\ saving' = Nobody
    /\ Ended(s)
    /\ UNCHANGED <<server, disk, reader, writes, write>>

----------------------------------------------------------------------------
(* write and wrote *)

\* t.next.RoundTrip: the server has done it, or refused.  A write whose answer
\* is lost is never applied, and so no different from a Foreign one.
Send(w) ==
    /\ write[w].at = "off"
    /\ writes < MaxWrites
    /\ \E k \in Kinds, n \in Names, etag \in BOOLEAN :
        /\ \/ k = "put" /\ ServerChange(n, TRUE)
           \/ k \in {"delete", "move"} /\ n \in there /\ ServerChange(n, FALSE)
           \/ k \in {"refused", "props"} /\ UNCHANGED server
        /\ k = "put" \/ etag
        /\ write' = [write EXCEPT ![w] = [at |-> "sent", kind |-> k,
                                          name |-> IF k \in {"put", "delete"} THEN n ELSE Nobody,
                                          body |-> IF k = "put" THEN version + 1 ELSE 0,
                                          etag |-> etag, held |-> None]]
    /\ UNCHANGED <<disk, memory, saving, sync>>

\* MKCOL, MKCALENDAR, PROPPATCH and a collection's DELETE.
WroteProps(w) ==
    /\ write[w].at = "sent"
    /\ write[w].kind = "props"
    /\ drop
    /\ write' = [write EXCEPT ![w] = WriteOff]
    /\ sync' = Unnoticed(sync)
    /\ UNCHANGED <<server, memory, saving>>

WroteMove(w) ==
    /\ write[w].at = "sent"
    /\ write[w].kind = "move"
    /\ saving = Nobody
    /\ writes' = writes + 1
    /\ drop
    /\ write' = [write EXCEPT ![w] = WriteOff]
    /\ UNCHANGED <<server, reader, syncing, saving, sync>>

\* saving is taken, the write counted and the held record read; without one
\* there is nothing to apply to.
Wrote(w) ==
    /\ write[w].at = "sent"
    /\ write[w].kind \in {"put", "delete", "refused"}
    /\ saving = Nobody
    /\ writes' = writes + 1
    /\ IF held = None
       THEN write' = [write EXCEPT ![w] = WriteOff] /\ UNCHANGED saving
       ELSE write' = [write EXCEPT ![w].at = "applying", ![w].held = held] /\ saving' = w
    /\ UNCHANGED <<server, disk, reader, syncing, sync>>

\* The transaction: the object as sent, or gone, and the held record as read.
\* Noted are an object the server has changed again by then, and a copy dropped
\* since the record was read.
Apply(w) ==
    /\ write[w].at = "applying"
    /\ held' = write[w].held
    /\ LET saved == {write[w].name} \cap Names
           now == IF write[w].etag THEN write[w].body ELSE -write[w].body
       IN  /\ copy' = [n \in Names |-> IF n \in saved THEN now ELSE copy[n]]
           /\ late' = (late \ saved) \cup {n \in saved : write[w].body # Content(n)}
           /\ missing' = (IF held = None THEN Names ELSE missing) \ saved
    /\ saving' = Nobody
    /\ write' = [write EXCEPT ![w] = WriteOff]
    /\ UNCHANGED <<server, memory, sync>>

\* The transaction fails: the write is on the server and counted, not applied.
ApplyFails(w) ==
    /\ write[w].at = "applying"
    /\ saving' = Nobody
    /\ write' = [write EXCEPT ![w] = WriteOff]
    /\ UNCHANGED <<server, disk, memory, sync>>

----------------------------------------------------------------------------

\* Signing out: the reader goes, its sync runs on; a sign-in brings another.
Forget ==
    /\ reader < MaxForgets
    /\ reader' = reader + 1
    /\ writes' = 0
    /\ syncing' = FALSE
    /\ UNCHANGED <<server, disk, saving, sync, write>>

Crash ==
    /\ sync # [s \in Syncs |-> SyncOff] \/ write # [w \in Writers |-> WriteOff]
    /\ sync' = [s \in Syncs |-> SyncOff]
    /\ write' = [w \in Writers |-> WriteOff]
    /\ saving' = Nobody
    /\ writes' = 0
    /\ syncing' = FALSE
    /\ UNCHANGED <<server, disk, reader>>

SyncStep(s) ==
    \/ Start(s) \/ ReadHeld(s) \/ Report(s) \/ CTag(s) \/ List(s) \/ Fetch(s)
    \/ PullFails(s) \/ PullGone(s) \/ SaveCheck(s) \/ SaveCommit(s)
    \/ SaveFails(s)

WriteStep(w) ==
    \/ Send(w) \/ WroteProps(w) \/ WroteMove(w) \/ Wrote(w) \/ Apply(w)
    \/ ApplyFails(w)

Next ==
    \/ \E n \in Names : Foreign(n)
    \/ \E s \in Syncs : SyncStep(s)
    \/ \E w \in Writers : WriteStep(w)
    \/ Forget
    \/ Crash

Spec == Init /\ [][Next]_vars

----------------------------------------------------------------------------
(* Properties *)

\* The copy is of the server's last change to n, with its ETag or without.
Matches(n) == copy[n] \in {Content(n), -Content(n)}

\* ADR 53: the mirror keeps a collection's "sync token or ctag and every member's
\* name, ETag and data".  What the token covers is in the copy as the server has
\* it, and what changed later the next sync will bring; but for the two gaps noted:
\* objects saved by a step that did not know of a later one (an own write answered
\* late, a comparison that a sync for a signed-out reader overtook), and objects
\* dropped outside saving.  Syncs, own writes, moves, sign-outs, failures and
\* crashes in any order leave no other.
InStepUnlessRaced ==
    held # None => \A n \in Names \ (late \cup missing) : mod[n] <= held => Matches(n)

\* Whatever is dropped under a sync's or a write's feet, the copy lacks objects
\* at worst: none it has is wrong, but for those saved unknowing.
NothingWrong ==
    held # None =>
        \A n \in Names \ late : mod[n] <= held /\ copy[n] # 0 => Matches(n)
=============================================================================
