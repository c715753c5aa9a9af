----------------------------- MODULE BodyCache -----------------------------
(***************************************************************************)
(* The bodies held of one account's folder (mail/bodies.go, the reading of *)
(* mail/reading.go and the writes of mail/actions.go as they reach it      *)
(* through mail/cacheevents.go).  A body is fetched behind the listing     *)
(* without reading the message, with the flags it had; the page shown from *)
(* it then marks the message read by itself.  The account's logins share   *)
(* what is held.  Each has two connections: the reader's actions and the   *)
(* automatic read take turns on the interactive one, while a prefetch goes *)
(* on beside them on the work connection (DoIMAPWork).                     *)
(*                                                                         *)
(* A login runs one prefetch, one automatic read and one reader's action   *)
(* at a time here, so its name serves as the token bc.next counts out.  Of *)
(* the flags only \Seen is kept, of a body whose message it is; the body   *)
(* put out for room is any other one, as are those whose time is up.  What *)
(* other clients write, and the watcher's word of it, is left out.         *)
(*                                                                         *)
(* A definition whose name extends another's is the other with a plausible *)
(* mistake in it; no specification uses it.                                *)
(***************************************************************************)
EXTENDS Integers, FiniteSets

CONSTANTS
    Logins,       \* the account's logins
    UIDs,         \* the UIDs the folder may have
    Keep,         \* bodyKeepPerUser
    MaxValidity,  \* bound on the UIDVALIDITYs the folder has had
    MaxWork       \* bound on the prefetches, automatic reads and actions at once

ASSUME BodiesAssumption ==
    /\ Keep \in Nat \ {0} /\ MaxValidity \in Nat \ {0} /\ MaxWork \in Nat
    /\ "none" \notin Logins

VARIABLES
    server,    \* the folder: its UIDVALIDITY, the messages there, those seen
    known,     \* bc.validity of the folder, 0 for none
    entries,   \* bc.entries
    fetching,  \* bc.fetching: the login whose prefetch claimed a key
    reading,   \* bc.seen: the login whose automatic read is due
    prefetch,  \* prefetchBodies of each login
    auto,      \* markHeldSeen of each login
    act,       \* the reader's action of each login
    unsure     \* UIDs written by two at once, or by a write whose answer was lost

cache == <<known, entries, fetching, reading>>
vars == <<server, cache, prefetch, auto, act, unsure>>

Validities == 1..MaxValidity
Keys == Validities \X UIDs
None == "none"

IdlePrefetch == [at |-> "idle", v |-> 0, claimed |-> {}, active |-> {}, msgs |-> {}]
IdleAct == [at |-> "idle", does |-> None, uid |-> None]
\* off: the logins whose action called it off; over: those whose action landed since.
IdleAuto == [at |-> "idle", k |-> None, off |-> {}, over |-> {}]

Init ==
    /\ server = [validity |-> 1, there |-> UIDs, seen |-> {}]
    /\ known = 0 /\ entries = {}
    /\ fetching = [k \in Keys |-> None] /\ reading = [k \in Keys |-> None]
    /\ prefetch = [l \in Logins |-> IdlePrefetch]
    /\ auto = [l \in Logins |-> IdleAuto]
    /\ act = [l \in Logins |-> IdleAct]
    /\ unsure = {}

\* The login's interactive connection gives its turn to one of the two; the
\* work connection has nothing here but its one prefetch.
TurnTaken(l) == auto[l].at \in {"checked", "stored"} \/ act[l].at = "stored"

MayStart ==
    Cardinality({l \in Logins : prefetch[l].at # "idle"}) + Cardinality({l \in Logins : auto[l].at # "idle"})
        + Cardinality({l \in Logins : act[l].at # "idle"}) < MaxWork

Of(k) == {b \in entries : b.v = k[1] /\ b.uid = k[2]}

----------------------------------------------------------------------------
(* The cache *)

\* drop, of the keys that match.
Drop(match) ==
    /\ entries' = {b \in entries : <<b.v, b.uid>> \notin match}
    /\ fetching' = [k \in Keys |-> IF k \in match THEN None ELSE fetching[k]]
    /\ reading' = [k \in Keys |-> IF k \in match THEN None ELSE reading[k]]

\* discard
Discard(uids) == Drop({k \in Keys : k[2] \in uids}) /\ UNCHANGED known

\* observe
ObserveOnly(v) ==
    /\ known' = v
    /\ UNCHANGED <<entries, fetching, reading>>

Observe(v) ==
    IF v = known THEN UNCHANGED cache ELSE known' = v /\ Drop({k \in Keys : k[1] # v})

\* flags: what a prefetch took before the write would carry the old ones.
FlagsHeld(uid, seen) ==
    /\ entries' = {IF b.uid = uid THEN [b EXCEPT !.seen = seen] ELSE b : b \in entries}
    /\ UNCHANGED fetching

Flags(uid, seen) ==
    /\ entries' = {IF b.uid = uid THEN [b EXCEPT !.seen = seen] ELSE b : b \in entries}
    /\ fetching' = [k \in Keys |-> IF k[2] = uid THEN None ELSE fetching[k]]

\* put: by the one whose claim stands, in the folder as it is known.
MayPut(l, v, uid) == fetching[<<v, uid>>] = l /\ known = v

\* The entries after b comes in: those whose time is up go, then others for room.
Put(b) ==
    LET others == entries \ Of(<<b.v, b.uid>>)
    IN {kept \cup {b} : kept \in {s \in SUBSET others : Cardinality(s) < Keep}}

----------------------------------------------------------------------------
(* prefetchBodies, for a listing of the folder as it was under v *)

Claim(l, v) ==
    LET free == {uid \in UIDs : Of(<<v, uid>>) = {} /\ fetching[<<v, uid>>] = None}
    IN /\ prefetch[l].at = "idle" /\ MayStart
       /\ v \in 1..server.validity /\ free # {}
       /\ fetching' = [k \in Keys |-> IF k[1] = v /\ k[2] \in free THEN l ELSE fetching[k]]
       /\ prefetch' = [prefetch EXCEPT ![l] = [IdlePrefetch EXCEPT !.at = "claimed", !.v = v, !.claimed = free]]
       /\ UNCHANGED <<server, known, entries, reading, auto, act, unsure>>

\* Its turn on the work connection: which of its claims stand.
Check(l) ==
    LET active == {uid \in prefetch[l].claimed : fetching[<<prefetch[l].v, uid>>] = l}
    IN /\ prefetch[l].at = "claimed"
       /\ prefetch' = [prefetch EXCEPT ![l].at = IF active = {} THEN "fetched" ELSE "checked", ![l].active = active]
       /\ UNCHANGED <<server, cache, auto, act, unsure>>

\* What is there of them, with the flags it has.
Messages(l) ==
    {[v |-> prefetch[l].v, uid |-> uid, of |-> server.validity, seen |-> uid \in server.seen] :
        uid \in prefetch[l].active \cap server.there}

\* SELECT, then, in the folder the claims are for, FETCH.
Fetch(l) ==
    /\ prefetch[l].at = "checked"
    /\ Observe(server.validity)
    /\ prefetch' = [prefetch EXCEPT ![l].at = "fetched", ![l].msgs = IF server.validity = prefetch[l].v THEN Messages(l) ELSE {}]
    /\ UNCHANGED <<server, auto, act, unsure>>

PutOne(l) ==
    /\ prefetch[l].at = "fetched"
    /\ \E b \in prefetch[l].msgs :
        /\ prefetch' = [prefetch EXCEPT ![l].msgs = @ \ {b}]
        /\ IF MayPut(l, b.v, b.uid) THEN \E after \in Put(b) : entries' = after ELSE UNCHANGED entries
    /\ UNCHANGED <<server, known, fetching, reading, auto, act, unsure>>

\* The connection fails it.
PrefetchFails(l) ==
    /\ prefetch[l].at \in {"claimed", "checked"}
    /\ prefetch' = [prefetch EXCEPT ![l].at = "fetched"]
    /\ UNCHANGED <<server, cache, auto, act, unsure>>

\* The end: its claims are released, if they are still its own.
ReleaseActive(l) ==
    /\ prefetch[l].at = "fetched" /\ prefetch[l].msgs = {}
    /\ fetching' = [k \in Keys |-> IF k[2] \in prefetch[l].active /\ fetching[k] = l THEN None ELSE fetching[k]]
    /\ prefetch' = [prefetch EXCEPT ![l] = IdlePrefetch]
    /\ UNCHANGED <<server, known, entries, reading, auto, act, unsure>>

Release(l) ==
    /\ prefetch[l].at = "fetched" /\ prefetch[l].msgs = {}
    /\ fetching' = [k \in Keys |-> IF k[2] \in prefetch[l].claimed /\ fetching[k] = l THEN None ELSE fetching[k]]
    /\ prefetch' = [prefetch EXCEPT ![l] = IdlePrefetch]
    /\ UNCHANGED <<server, known, entries, reading, auto, act, unsure>>

----------------------------------------------------------------------------
(* Opening a message *)

\* current, where it has the body: shown unread, the page marks it read.
Open(l, uid) ==
    LET k == <<known, uid>>
    IN /\ known # 0
       /\ \E b \in Of(k) : ~b.seen
       /\ auto[l].at = "idle" /\ MayStart /\ reading[k] = None
       /\ reading' = [reading EXCEPT ![k] = l]
       /\ auto' = [auto EXCEPT ![l] = [IdleAuto EXCEPT !.at = "queued", !.k = k]]
       /\ UNCHANGED <<server, known, entries, fetching, prefetch, act, unsure>>

\* current, where the body's time is up.
Expired(uid) ==
    /\ known # 0 /\ Of(<<known, uid>>) # {}
    /\ entries' = entries \ Of(<<known, uid>>)
    /\ UNCHANGED <<server, known, fetching, reading, prefetch, auto, act, unsure>>

\* markHeldSeen's turn: whether it was called off.
AutoStart(l) ==
    /\ auto[l].at = "queued" /\ ~TurnTaken(l)
    /\ reading[auto[l].k] = l
    /\ auto' = [auto EXCEPT ![l].at = "checked"]
    /\ UNCHANGED <<server, cache, prefetch, act, unsure>>

\* The login has written to the message and not told the cache yet.
Midway(l, uid) ==
    \/ act[l].at = "stored" /\ act[l].uid = uid
    \/ auto[l].at = "stored" /\ auto[l].k[2] = uid

Stored(l, uid) == unsure' = IF \E m \in Logins \ {l} : Midway(m, uid) THEN unsure \cup {uid} ELSE unsure

AutoStore(l) ==
    LET uid == auto[l].k[2]
    IN /\ auto[l].at = "checked"
       /\ server' = [server EXCEPT !.seen = @ \cup ({uid} \cap server.there)]
       /\ auto' = [auto EXCEPT ![l].at = "stored"]
       /\ Stored(l, uid)
       /\ UNCHANGED <<cache, prefetch, act>>

\* It ends, and is due no more.
AutoEnds(l) ==
    /\ auto' = [auto EXCEPT ![l] = IdleAuto]
    /\ reading' = [reading EXCEPT ![auto[l].k] = IF @ = l THEN None ELSE @]

\* messageRead, on the same turn.
AutoTold(l) ==
    /\ auto[l].at = "stored"
    /\ Flags(auto[l].k[2], TRUE)
    /\ AutoEnds(l)
    /\ UNCHANGED <<server, known, prefetch, act, unsure>>

\* It was called off, or the connection fails it.
AutoFails(l) ==
    /\ auto[l].at # "idle"
    /\ unsure' = IF auto[l].at = "stored" THEN unsure \cup {auto[l].k[2]} ELSE unsure
    /\ AutoEnds(l)
    /\ UNCHANGED <<server, known, entries, fetching, prefetch, act>>

----------------------------------------------------------------------------
(* The reader's actions: announced, then queued for the interactive connection *)

\* The automatic reads of the message that are due, called off by l, and past it.
CalledOff(l, uid) ==
    [m \in Logins |-> IF auto[m].at # "idle" /\ auto[m].k[2] = uid THEN [auto[m] EXCEPT !.off = @ \cup {l}] ELSE auto[m]]
Landed(l) == [m \in Logins |-> IF l \in auto[m].off THEN [auto[m] EXCEPT !.over = @ \cup {l}] ELSE auto[m]]
Over(l) == [m \in Logins |-> [auto[m] EXCEPT !.off = @ \ {l}]]

\* flagWriteStarting and messagesLeaving call off the automatic read.  Opening
\* a message whose body is not held calls off nothing.
CancelNothing(does, uid) == UNCHANGED reading

CancelSeen(does, uid) ==
    reading' = [k \in Keys |-> IF does # "open" /\ k[2] = uid THEN None ELSE reading[k]]

Start(l, does, uid) ==
    /\ act[l].at = "idle" /\ MayStart /\ uid \in server.there
    /\ CancelSeen(does, uid)
    /\ auto' = IF does = "open" THEN auto ELSE CalledOff(l, uid)
    /\ act' = [act EXCEPT ![l] = [at |-> "queued", does |-> does, uid |-> uid]]
    /\ UNCHANGED <<server, known, entries, fetching, prefetch, unsure>>

\* The server takes it.  A message that is gone is not there to open; a flag
\* written to it does nothing.
Store(l) ==
    LET a == act[l]
    IN /\ a.at = "queued" /\ ~TurnTaken(l)
       /\ a.does = "open" => a.uid \in server.there
       /\ server' = [server EXCEPT !.seen = IF a.does \in {"open", "seen"} THEN @ \cup ({a.uid} \cap server.there)
                                            ELSE @ \ {a.uid},
                                   !.there = IF a.does = "move" THEN @ \ {a.uid} ELSE @]
       /\ act' = [act EXCEPT ![l].at = "stored"]
       /\ auto' = Landed(l)
       /\ Stored(l, a.uid)
       /\ UNCHANGED <<cache, prefetch>>

\* messagesFlagged, messagesMoved and messageRead.
Told(l) ==
    /\ act[l].at = "stored"
    /\ IF act[l].does = "move" THEN Discard({act[l].uid})
       ELSE Flags(act[l].uid, act[l].does # "unseen") /\ UNCHANGED <<known, reading>>
    /\ act' = [act EXCEPT ![l] = IdleAct]
    /\ auto' = Over(l)
    /\ UNCHANGED <<server, prefetch, unsure>>

ActFails(l) ==
    /\ act[l].at # "idle"
    /\ unsure' = IF act[l].at = "stored" THEN unsure \cup {act[l].uid} ELSE unsure
    /\ act' = [act EXCEPT ![l] = IdleAct]
    /\ auto' = Over(l)
    /\ UNCHANGED <<server, cache, prefetch>>

----------------------------------------------------------------------------
(* The folder, the account *)

\* storeAt: a listing names the folder as it was when the listing was read, which
\* may be before it was made anew.
Identify(v) ==
    /\ v \in 1..server.validity
    /\ Observe(v)
    /\ UNCHANGED <<server, prefetch, auto, act, unsure>>

\* The folder is emptied; the cache hears whether or not the server did it all.
Empty(l) ==
    /\ ~TurnTaken(l)
    /\ \E left \in {{}, server.there} : server' = [server EXCEPT !.there = left, !.seen = @ \cap left]
    /\ Discard(UIDs)
    /\ UNCHANGED <<prefetch, auto, act, unsure>>

\* forget: the account signed out.
Forget ==
    /\ known # 0
    /\ Drop(Keys) /\ known' = 0
    /\ UNCHANGED <<server, prefetch, auto, act, unsure>>

\* The folder is made anew: its UIDs name other messages.
Recreated ==
    /\ server.validity < MaxValidity
    /\ server' = [validity |-> server.validity + 1, there |-> UIDs, seen |-> {}]
    /\ unsure' = {uid \in UIDs : \E l \in Logins : Midway(l, uid)}
    /\ UNCHANGED <<cache, prefetch, auto, act>>

Next ==
    \/ \E l \in Logins :
        \/ \E v \in Validities : Claim(l, v)
        \/ Check(l) \/ Fetch(l) \/ PutOne(l) \/ PrefetchFails(l) \/ Release(l)
        \/ \E uid \in UIDs : Open(l, uid)
        \/ AutoStart(l) \/ AutoStore(l) \/ AutoTold(l) \/ AutoFails(l)
        \/ \E uid \in UIDs, does \in {"seen", "unseen", "move", "open"} : Start(l, does, uid)
        \/ Store(l) \/ Told(l) \/ ActFails(l)
        \/ Empty(l)
    \/ \E uid \in UIDs : Expired(uid)
    \/ \E v \in Validities : Identify(v)
    \/ Forget \/ Recreated

Spec == Init /\ [][Next]_vars

----------------------------------------------------------------------------
(* Properties *)

\* Types; no more bodies are held than bodyKeepPerUser, one of each message; and
\* a claim belongs to a prefetch, an automatic read that is due to its login, so
\* what is not being fetched can be claimed again.
TypeOK ==
    /\ server.validity \in Validities /\ server.seen \subseteq server.there /\ server.there \subseteq UIDs
    /\ known \in 0..MaxValidity
    /\ Cardinality(entries) <= Keep /\ \A k \in Keys : Cardinality(Of(k)) <= 1
    /\ \A b \in entries : <<b.v, b.uid>> \in Keys /\ b.of \in Validities /\ b.seen \in BOOLEAN
    /\ \A k \in Keys : fetching[k] # None => prefetch[fetching[k]].v = k[1] /\ k[2] \in prefetch[fetching[k]].claimed
    /\ \A k \in Keys : reading[k] # None => auto[reading[k]].at # "idle" /\ auto[reading[k]].k = k

\* A body held is of the folder as it was last identified, and is the message
\* its UID named there (mailboxIdentified: "Under a new UIDVALIDITY the held
\* UIDs name other messages").
HeldIdentified == \A b \in entries : b.v = known /\ b.of = b.v

\* With no write between the server and the cache, a body held tells of a
\* message that is there whether it is read, whatever was prefetched meanwhile
\* on the login's own work connection or another login's (flags: "Prefetches
\* taken before the write would carry the old flags"), unless two logins wrote to
\* it at once, or the answer to a write was lost.
HeldTellsTruth ==
    \A b \in entries :
        b.of = server.validity /\ b.uid \notin unsure /\ (\A l \in Logins : ~Midway(l, b.uid)) =>
            b.uid \in server.there /\ (b.seen <=> b.uid \in server.seen)

\* An automatic read never lands after an action of its login's reader that
\* called it off (flagWriteStarting, messagesLeaving).
ActionStands ==
    [][\A l \in Logins : auto[l].at = "checked" /\ auto'[l].at = "stored" => l \notin auto[l].over]_vars
=============================================================================
