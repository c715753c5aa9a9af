------------------------- MODULE BodyCacheProofs -------------------------
(***************************************************************************)
(* Theorems about BodyCache, for every set of logins and of UIDs, however  *)
(* many bodies are kept and however often the folder is made anew.         *)
(***************************************************************************)
EXTENDS BodyCache, FiniteSetTheorems, TLAPS

Deeds == {"seen", "unseen", "move", "open"}
Bodies == [v : Validities, uid : UIDs, of : Validities, seen : BOOLEAN]
Servers == [validity : Validities, there : SUBSET UIDs, seen : SUBSET UIDs]
Prefetches ==
    [at : {"idle", "claimed", "checked", "fetched"}, v : 0..MaxValidity,
     claimed : SUBSET UIDs, active : SUBSET UIDs, msgs : SUBSET Bodies]
Autos == [at : {"idle", "queued", "checked", "stored"}, k : Keys \cup {None}, off : SUBSET Logins, over : SUBSET Logins]
Acts == [at : {"idle", "queued", "stored"}, does : Deeds \cup {None}, uid : UIDs \cup {None}]

ServerTypes == server \in Servers /\ server.seen \subseteq server.there

\* One body of each message, and no more than are kept.
EntryTypes ==
    /\ known \in 0..MaxValidity
    /\ entries \subseteq Bodies
    /\ IsFiniteSet(entries) /\ Cardinality(entries) <= Keep
    /\ \A b, c \in entries : b.v = c.v /\ b.uid = c.uid => b = c

TableTypes ==
    /\ fetching \in [Keys -> Logins \cup {None}]
    /\ reading \in [Keys -> Logins \cup {None}]

PrefetchTypes ==
    /\ prefetch \in [Logins -> Prefetches]
    /\ \A l \in Logins : prefetch[l].at = "idle" => prefetch[l].claimed = {} /\ prefetch[l].msgs = {}
    /\ \A l \in Logins : prefetch[l].at # "idle" => prefetch[l].v \in Validities

AutoTypes ==
    /\ auto \in [Logins -> Autos]
    /\ \A l \in Logins : auto[l].at # "idle" => auto[l].k \in Keys
    /\ \A l \in Logins : auto[l].at = "idle" => auto[l].off = {} /\ auto[l].over = {}

ActTypes ==
    /\ act \in [Logins -> Acts]
    /\ \A l \in Logins : act[l].at # "idle" => act[l].uid \in UIDs /\ act[l].does \in Deeds

Types == ServerTypes /\ EntryTypes /\ TableTypes /\ PrefetchTypes /\ AutoTypes /\ ActTypes /\ unsure \subseteq UIDs

\* A claim is its prefetch's, and an automatic read that is due its login's.
ClaimsOwned == \A k \in Keys : fetching[k] # None => prefetch[fetching[k]].v = k[1] /\ k[2] \in prefetch[fetching[k]].claimed
DueOwned == \A k \in Keys : reading[k] # None => auto[reading[k]].at # "idle" /\ auto[reading[k]].k = k

\* What an action called off is due no more; what is past its check was not
\* called off by an action that has landed.
CalledOffStays ==
    \A l \in Logins :
        /\ auto[l].off \cup auto[l].over # {} => reading[auto[l].k] # l
        /\ auto[l].at = "checked" => l \notin auto[l].over

\* A login writes one thing at a time, on its interactive connection.
OneTurn == \A l \in Logins : ~(auto[l].at \in {"checked", "stored"} /\ act[l].at = "stored")

\* What is fetched is of the folder its claim is for.
Fetched == \A l \in Logins : \A b \in prefetch[l].msgs : b.v = b.of /\ b.of <= server.validity

HeldOnce == \A b \in entries : b.of <= server.validity

\* Only one login is midway in a message that is not unsure,
OneWriter == \A l, m \in Logins, uid \in UIDs : Midway(l, uid) /\ Midway(m, uid) /\ uid \notin unsure => l = m

\* and the server has what it wrote.
WriteStands ==
    \A l \in Logins :
        /\ act[l].at = "stored" /\ act[l].uid \notin unsure =>
            /\ act[l].does \in {"open", "seen"} => (act[l].uid \in server.there => act[l].uid \in server.seen)
            /\ act[l].does = "unseen" => act[l].uid \notin server.seen
            /\ act[l].does = "move" => act[l].uid \notin server.there
        /\ auto[l].at = "stored" /\ auto[l].k[2] \notin unsure => (auto[l].k[2] \in server.there => auto[l].k[2] \in server.seen)

\* A body of the folder as it is, of a message nothing is unsure about, is of one
\* that is there or being moved, and tells whether it is read or will be told.
Moved(uid) == \E l \in Logins : act[l].at = "stored" /\ act[l].uid = uid /\ act[l].does = "move"
Truth(b) ==
    b.of = server.validity /\ b.uid \notin unsure =>
        /\ b.uid \in server.there \/ Moved(b.uid)
        /\ (\A l \in Logins : ~Midway(l, b.uid)) => (b.seen <=> b.uid \in server.seen)

HeldTrue == \A b \in entries : Truth(b)

\* The same of a body that was fetched, while its claim stands.
FetchedTrue == \A l \in Logins : \A b \in prefetch[l].msgs : fetching[<<b.v, b.uid>>] = l => Truth(b)

Claims == ClaimsOwned /\ DueOwned /\ CalledOffStays /\ OneTurn
Origins == Fetched /\ HeldOnce /\ HeldIdentified
Writes == OneWriter /\ WriteStands
Truths == HeldTrue /\ FetchedTrue

BodiesInv == Types /\ Claims /\ Origins /\ Writes /\ Truths
LEMMA IdleTypes == IdlePrefetch \in Prefetches /\ IdleAuto \in Autos /\ IdleAct \in Acts
<1>1. 0 \in 0..MaxValidity
  BY BodiesAssumption
<1> QED  BY <1>1 DEF IdlePrefetch, Prefetches, IdleAuto, Autos, IdleAct, Acts

LEMMA InitBodiesInv == Init => BodiesInv
<1> SUFFICES ASSUME Init PROVE BodiesInv
  OBVIOUS
<1> USE BodiesAssumption
<1>v. 1 \in Validities /\ 0 \in 0..MaxValidity
  BY DEF Validities
<1>1. ServerTypes
  BY <1>v DEF Init, ServerTypes, Servers
<1>2. EntryTypes
  <2>1. entries = {} /\ known = 0
    BY DEF Init
  <2>2. IsFiniteSet({}) /\ Cardinality({}) = 0
    BY FS_EmptySet
  <2> QED  BY <1>v, <2>1, <2>2 DEF EntryTypes
<1>3. TableTypes
  BY DEF Init, TableTypes
<1>4. PrefetchTypes /\ AutoTypes /\ ActTypes
  BY IdleTypes DEF Init, PrefetchTypes, AutoTypes, ActTypes, IdlePrefetch, IdleAuto, IdleAct
<1>5. ClaimsOwned /\ DueOwned /\ CalledOffStays /\ OneTurn /\ OneWriter /\ WriteStands
  BY DEF Init, ClaimsOwned, DueOwned, CalledOffStays, OneTurn, OneWriter, WriteStands, Midway, IdlePrefetch, IdleAuto, IdleAct
<1>6. Fetched /\ HeldOnce /\ HeldIdentified /\ HeldTrue /\ FetchedTrue
  BY DEF Init, Fetched, HeldOnce, HeldIdentified, HeldTrue, FetchedTrue, IdlePrefetch
<1> QED  BY <1>1, <1>2, <1>3, <1>4, <1>5, <1>6 DEF BodiesInv, Types, Claims, Origins, Writes, Truths, Init

----------------------------------------------------------------------------
(* What the cache's operations leave *)

\* Fewer bodies are held.
LEMMA FewerHeld ==
    ASSUME EntryTypes, entries' \subseteq entries, known' \in 0..MaxValidity
    PROVE  EntryTypes'
<1>1. IsFiniteSet(entries') /\ Cardinality(entries') <= Cardinality(entries)
  BY FS_Subset DEF EntryTypes
<1>2. Cardinality(entries') \in Nat /\ Cardinality(entries) \in Nat
  BY <1>1, FS_CardinalityType DEF EntryTypes
<1>3. Cardinality(entries') <= Keep
  BY <1>1, <1>2, BodiesAssumption DEF EntryTypes
<1> QED  BY <1>1, <1>3 DEF EntryTypes

LEMMA DropLeaves ==
    ASSUME TableTypes, NEW match, Drop(match)
    PROVE  /\ entries' \subseteq entries
           /\ \A b \in entries' : <<b.v, b.uid>> \notin match
           /\ TableTypes'
           /\ \A k \in Keys : fetching'[k] = None \/ (k \notin match /\ fetching'[k] = fetching[k])
           /\ \A k \in Keys : reading'[k] = None \/ (k \notin match /\ reading'[k] = reading[k])
BY DEF Drop, TableTypes

\* observe, of a folder known by another UIDVALIDITY or by this one.
LEMMA ObserveLeaves ==
    ASSUME TableTypes, EntryTypes, HeldIdentified, NEW v \in 0..MaxValidity, Observe(v)
    PROVE  /\ entries' \subseteq entries
           /\ EntryTypes' /\ TableTypes' /\ HeldIdentified'
           /\ \A k \in Keys : fetching'[k] \in {None, fetching[k]}
           /\ \A k \in Keys : reading'[k] \in {None, reading[k]}
<1>1. CASE v = known
  <2>1. UNCHANGED <<known, entries, fetching, reading>>
    BY <1>1 DEF Observe, cache
  <2> QED  BY <2>1 DEF EntryTypes, TableTypes, HeldIdentified
<1>2. CASE v # known
  <2>1. known' = v /\ Drop({k \in Keys : k[1] # v})
    BY <1>2 DEF Observe
  <2>2. PICK match : match = {k \in Keys : k[1] # v}
    OBVIOUS
  <2>3. /\ entries' \subseteq entries
        /\ \A b \in entries' : <<b.v, b.uid>> \notin match
        /\ TableTypes'
        /\ \A k \in Keys : fetching'[k] = None \/ (k \notin match /\ fetching'[k] = fetching[k])
        /\ \A k \in Keys : reading'[k] = None \/ (k \notin match /\ reading'[k] = reading[k])
    BY <2>1, <2>2, DropLeaves
  <2>4. EntryTypes'
    BY <2>1, <2>3, FewerHeld
  <2>5. \A b \in entries' : b.v = v
    <3> TAKE b \in entries'
    <3>1. b \in Bodies
      BY <2>3 DEF EntryTypes
    <3>2. <<b.v, b.uid>> \in Keys
      BY <3>1 DEF Bodies, Keys
    <3> QED  BY <2>2, <2>3, <3>2
  <2>6. HeldIdentified'
    BY <2>1, <2>3, <2>5 DEF HeldIdentified
  <2> QED  BY <2>3, <2>4, <2>6
<1> QED  BY <1>1, <1>2

\* flags: the bodies of other messages, and those of this one told.
LEMMA FlagsLeave ==
    ASSUME EntryTypes, TableTypes, NEW uid \in UIDs, NEW seen \in BOOLEAN, Flags(uid, seen), UNCHANGED known
    PROVE  /\ EntryTypes' /\ fetching' \in [Keys -> Logins \cup {None}]
           /\ \A c \in entries' : \E b \in entries :
                c.v = b.v /\ c.uid = b.uid /\ c.of = b.of /\ (IF b.uid = uid THEN c.seen = seen ELSE c = b)
           /\ \A k \in Keys : fetching'[k] = None \/ (k[2] # uid /\ fetching'[k] = fetching[k])
<1>1. PICK f : f = [b \in entries |-> IF b.uid = uid THEN [b EXCEPT !.seen = seen] ELSE b]
  OBVIOUS
<1>2. entries' = {f[b] : b \in entries}
  BY <1>1 DEF Flags
<1>3. ASSUME NEW b \in entries
      PROVE  /\ f[b] \in Bodies /\ f[b].v = b.v /\ f[b].uid = b.uid /\ f[b].of = b.of
             /\ b.uid = uid => f[b].seen = seen
             /\ b.uid # uid => f[b] = b
  <2>1. b \in Bodies
    BY DEF EntryTypes
  <2>2. CASE b.uid = uid
    <3>1. f[b] = [b EXCEPT !.seen = seen]
      BY <1>1, <2>2
    <3> QED  BY <2>1, <2>2, <3>1 DEF Bodies
  <2>3. CASE b.uid # uid
    BY <1>1, <2>1, <2>3
  <2> QED  BY <2>2, <2>3
<1>4. f \in Surjection(entries, entries')
  <2>1. f \in [entries -> entries']
    BY <1>1, <1>2
  <2>2. \A c \in entries' : \E b \in entries : f[b] = c
    BY <1>2
  <2> QED  BY <2>1, <2>2 DEF Surjection
<1>5. IsFiniteSet(entries') /\ Cardinality(entries') <= Cardinality(entries)
  BY <1>4, FS_Surjection DEF EntryTypes
<1>6. Cardinality(entries') \in Nat /\ Cardinality(entries) \in Nat
  BY <1>5, FS_CardinalityType DEF EntryTypes
<1>7. Cardinality(entries') <= Keep
  BY <1>5, <1>6, BodiesAssumption DEF EntryTypes
<1>8. entries' \subseteq Bodies
  BY <1>2, <1>3
<1>9. ASSUME NEW c \in entries', NEW d \in entries', c.v = d.v, c.uid = d.uid
      PROVE  c = d
  <2>1. PICK b \in entries : c = f[b]
    BY <1>2
  <2>2. PICK e \in entries : d = f[e]
    BY <1>2
  <2>3. b.v = e.v /\ b.uid = e.uid
    BY <1>3, <1>9, <2>1, <2>2
  <2> QED  BY <2>1, <2>2, <2>3 DEF EntryTypes
<1>10. EntryTypes'
  BY <1>5, <1>7, <1>8, <1>9 DEF EntryTypes
<1>11. /\ fetching' \in [Keys -> Logins \cup {None}]
       /\ \A k \in Keys : fetching'[k] = None \/ (k[2] # uid /\ fetching'[k] = fetching[k])
  BY DEF Flags, TableTypes
<1>12. \A c \in entries' : \E b \in entries :
          c.v = b.v /\ c.uid = b.uid /\ c.of = b.of /\ (IF b.uid = uid THEN c.seen = seen ELSE c = b)
  BY <1>2, <1>3
<1> QED  BY <1>10, <1>11, <1>12

\* put: the body, and others that were held.
LEMMA PutLeaves ==
    ASSUME EntryTypes, NEW b \in Bodies, NEW after \in Put(b), entries' = after, UNCHANGED known
    PROVE  EntryTypes' /\ entries' \subseteq entries \cup {b}
<1>1. PICK kept \in SUBSET (entries \ Of(<<b.v, b.uid>>)) : Cardinality(kept) < Keep /\ after = kept \cup {b}
  BY DEF Put
<1>2. kept \subseteq entries
  BY <1>1
<1>3. IsFiniteSet(kept)
  BY <1>2, FS_Subset DEF EntryTypes
<1>4. Cardinality(kept) \in Nat
  BY <1>3, FS_CardinalityType
<1>5. IsFiniteSet(after) /\ Cardinality(after) \in {Cardinality(kept), Cardinality(kept) + 1}
  BY <1>1, <1>3, FS_AddElement
<1>6. Cardinality(after) <= Keep
  BY <1>1, <1>4, <1>5, BodiesAssumption
<1>7. \A c \in kept : ~(c.v = b.v /\ c.uid = b.uid)
  <2> SUFFICES ASSUME NEW c \in kept, c.v = b.v, c.uid = b.uid PROVE FALSE
    OBVIOUS
  <2>1. c \in entries /\ c \notin Of(<<b.v, b.uid>>)
    BY <1>1
  <2>2. <<b.v, b.uid>>[1] = b.v /\ <<b.v, b.uid>>[2] = b.uid
    OBVIOUS
  <2> QED  BY <2>1, <2>2 DEF Of
<1>8. \A c, d \in after : c.v = d.v /\ c.uid = d.uid => c = d
  BY <1>1, <1>2, <1>7 DEF EntryTypes
<1>9. after \subseteq Bodies /\ after \subseteq entries \cup {b}
  BY <1>1, <1>2 DEF EntryTypes
<1> QED  BY <1>5, <1>6, <1>8, <1>9 DEF EntryTypes
----------------------------------------------------------------------------
(* What is left alone *)

\* Nothing is written, and no login becomes midway.
LEMMA WritesFrame ==
    ASSUME Writes, UNCHANGED server, unsure \subseteq unsure',
           \A l \in Logins : act'[l].at = "stored" => act'[l] = act[l],
           \A l \in Logins : auto'[l].at = "stored" => auto[l].at = "stored" /\ auto'[l].k = auto[l].k
    PROVE  Writes'
<1>1. \A l \in Logins, uid \in UIDs : Midway(l, uid)' => Midway(l, uid)
  BY DEF Midway
<1>2. OneWriter'
  BY <1>1 DEF Writes, OneWriter
<1>3. WriteStands'
  BY DEF Writes, WriteStands
<1> QED  BY <1>2, <1>3 DEF Writes

\* Nothing about the message has changed, or it is unsure.
LEMMA TruthKept ==
    ASSUME NEW b, Truth(b), server'.validity = server.validity,
           b.uid \notin unsure' =>
               /\ b.uid \notin unsure
               /\ b.uid \in server'.there <=> b.uid \in server.there
               /\ b.uid \in server'.seen <=> b.uid \in server.seen
               /\ Moved(b.uid) => Moved(b.uid)'
               /\ \A l \in Logins : Midway(l, b.uid) => Midway(l, b.uid)'
    PROVE  Truth(b)'
BY DEF Truth

LEMMA TruthFrame ==
    ASSUME NEW b, Truth(b), UNCHANGED <<server, act, unsure>>,
           \A l \in Logins : auto[l].at = "stored" => auto'[l].at = "stored" /\ auto'[l].k = auto[l].k
    PROVE  Truth(b)'
<1>1. Moved(b.uid) => Moved(b.uid)'
  BY DEF Moved
<1>2. \A l \in Logins : Midway(l, b.uid) => Midway(l, b.uid)'
  BY DEF Midway
<1> QED  BY <1>1, <1>2, TruthKept

\* Claims and reads due are withdrawn, or stay as they are.
LEMMA ClaimsKept ==
    ASSUME Types, Claims,
           \A k \in Keys : fetching'[k] \in {None, fetching[k]},
           \A k \in Keys : reading'[k] \in {None, reading[k]},
           \A l \in Logins : prefetch'[l].v = prefetch[l].v /\ prefetch'[l].claimed = prefetch[l].claimed,
           \A l \in Logins : auto'[l].k = auto[l].k /\ (auto[l].at # "idle" => auto'[l].at # "idle")
    PROVE  ClaimsOwned' /\ DueOwned'
<1>1. \A k \in Keys : (fetching[k] # None => fetching[k] \in Logins) /\ (reading[k] # None => reading[k] \in Logins)
  BY DEF Types, TableTypes
<1>2. ClaimsOwned'
  <2> SUFFICES ASSUME NEW k \in Keys, fetching'[k] # None
               PROVE  prefetch'[fetching'[k]].v = k[1] /\ k[2] \in prefetch'[fetching'[k]].claimed
    BY DEF ClaimsOwned
  <2>1. fetching'[k] = fetching[k] /\ fetching[k] \in Logins
    BY <1>1
  <2> QED  BY <2>1 DEF Claims, ClaimsOwned
<1>3. DueOwned'
  <2> SUFFICES ASSUME NEW k \in Keys, reading'[k] # None
               PROVE  auto'[reading'[k]].at # "idle" /\ auto'[reading'[k]].k = k
    BY DEF DueOwned
  <2>1. reading'[k] = reading[k] /\ reading[k] \in Logins
    BY <1>1
  <2> QED  BY <2>1 DEF Claims, DueOwned
<1> QED  BY <1>2, <1>3

LEMMA CalledOffKept ==
    ASSUME Types, Claims, UNCHANGED auto, \A k \in Keys : reading'[k] \in {None, reading[k]}
    PROVE  CalledOffStays'
<1> SUFFICES ASSUME NEW l \in Logins
             PROVE  /\ auto[l].off \cup auto[l].over # {} => reading'[auto[l].k] # l
                    /\ auto[l].at = "checked" => l \notin auto[l].over
  BY DEF CalledOffStays
<1>1. auto[l].off \cup auto[l].over # {} => auto[l].k \in Keys
  BY DEF Types, AutoTypes, Autos
<1>2. l # None
  BY BodiesAssumption DEF None
<1> QED  BY <1>1, <1>2 DEF Claims, CalledOffStays

----------------------------------------------------------------------------
(* prefetchBodies *)

LEMMA PrefetchKeeps ==
    ASSUME BodiesInv, NEW l \in Logins,
           (\E v \in Validities : Claim(l, v)) \/ Check(l) \/ Fetch(l) \/ PutOne(l) \/ PrefetchFails(l) \/ Release(l)
    PROVE  BodiesInv'
<1>0. Types /\ Claims /\ Origins /\ Writes /\ Truths
  BY DEF BodiesInv
<1>t. ServerTypes /\ EntryTypes /\ TableTypes /\ PrefetchTypes /\ AutoTypes /\ ActTypes /\ unsure \subseteq UIDs
  BY <1>0 DEF Types
<1>q. prefetch \in [Logins -> Prefetches] /\ prefetch[l] \in Prefetches
  BY <1>t DEF PrefetchTypes
<1>u. UNCHANGED <<server, auto, act, unsure>>
  BY DEF Claim, Check, Fetch, PutOne, PrefetchFails, Release
<1>n. l # None
  BY BodiesAssumption DEF None
<1>w. Writes' /\ ServerTypes' /\ AutoTypes' /\ ActTypes' /\ unsure' \subseteq UIDs
  <2>1. Writes'
    BY <1>0, <1>u, WritesFrame
  <2> QED  BY <1>t, <1>u, <2>1 DEF ServerTypes, AutoTypes, ActTypes
<1>b. \A b : Truth(b) => Truth(b)'
  BY <1>u, TruthFrame
\* A prefetch that goes on, of a login whose claims may be withdrawn.
<1>1. ASSUME NEW d \in Prefetches, prefetch' = [prefetch EXCEPT ![l] = d],
             prefetch[l].at # "idle", d.at # "idle", d.v = prefetch[l].v, d.claimed = prefetch[l].claimed,
             \A b \in d.msgs \ prefetch[l].msgs : b.v = b.of /\ b.of <= server.validity /\ Truth(b),
             EntryTypes', TableTypes', HeldIdentified',
             \A k \in Keys : fetching'[k] \in {None, fetching[k]},
             \A k \in Keys : reading'[k] \in {None, reading[k]},
             \A b \in entries' : b \in entries \/ (b \in prefetch[l].msgs /\ fetching[<<b.v, b.uid>>] = l)
      PROVE  BodiesInv'
  <2>1. prefetch'[l] = d /\ \A m \in Logins \ {l} : prefetch'[m] = prefetch[m]
    BY <1>q, <1>1
  <2>2. PrefetchTypes'
    BY <1>t, <1>q, <1>1, <2>1 DEF PrefetchTypes
  <2>3. ClaimsOwned' /\ DueOwned'
    BY <1>0, <1>u, <1>1, <2>1, ClaimsKept
  <2>4. CalledOffStays'
    BY <1>0, <1>u, <1>1, CalledOffKept
  <2>5. OneTurn'
    BY <1>0, <1>u DEF Claims, OneTurn
  <2>6. Fetched'
    BY <1>0, <1>u, <1>1, <2>1 DEF Origins, Fetched
  <2>7. HeldOnce'
    BY <1>0, <1>u, <1>1 DEF Origins, HeldOnce, Fetched
  <2>8. HeldTrue'
    BY <1>0, <1>b, <1>1 DEF Truths, HeldTrue, FetchedTrue
  <2>9. FetchedTrue'
    <3> SUFFICES ASSUME NEW m \in Logins, NEW b \in prefetch'[m].msgs, fetching'[<<b.v, b.uid>>] = m
                 PROVE  Truth(b)'
      BY DEF FetchedTrue
    <3>1. b \in Bodies
      BY <2>2 DEF PrefetchTypes, Prefetches
    <3>2. <<b.v, b.uid>> \in Keys
      BY <3>1 DEF Bodies, Keys
    <3>3. m # None
      BY BodiesAssumption DEF None
    <3>4. fetching[<<b.v, b.uid>>] = m
      BY <1>1, <3>2, <3>3
    <3>5. CASE b \in prefetch[m].msgs
      BY <1>0, <1>b, <3>4, <3>5 DEF Truths, FetchedTrue
    <3>6. CASE b \notin prefetch[m].msgs
      BY <1>b, <1>1, <2>1, <3>6
    <3> QED  BY <3>5, <3>6
  <2> QED  BY <1>1, <1>w, <2>2, <2>3, <2>4, <2>5, <2>6, <2>7, <2>8, <2>9 DEF BodiesInv, Types, Claims, Origins, Truths
<1>2. CASE \E v \in Validities : Claim(l, v)
  <2>1. PICK v \in Validities : Claim(l, v)
    BY <1>2
  <2>2. PICK free \in SUBSET UIDs : /\ \A uid \in free : fetching[<<v, uid>>] = None
                                    /\ fetching' = [k \in Keys |-> IF k[1] = v /\ k[2] \in free THEN l ELSE fetching[k]]
                                    /\ prefetch' = [prefetch EXCEPT ![l] = [IdlePrefetch EXCEPT !.at = "claimed", !.v = v, !.claimed = free]]
    <3>1. PICK free : free = {uid \in UIDs : Of(<<v, uid>>) = {} /\ fetching[<<v, uid>>] = None}
      OBVIOUS
    <3> QED  BY <2>1, <3>1 DEF Claim
  <2>3. prefetch[l].at = "idle" /\ UNCHANGED <<known, entries, reading>>
    BY <2>1 DEF Claim
  <2>v. v \in 0..MaxValidity
    BY BodiesAssumption DEF Validities
  <2>4. PICK d \in Prefetches : d = [IdlePrefetch EXCEPT !.at = "claimed", !.v = v, !.claimed = free]
    BY <2>v, IdleTypes DEF Prefetches
  <2>5. d.at = "claimed" /\ d.v = v /\ d.claimed = free /\ d.msgs = {}
    BY <2>4 DEF IdlePrefetch
  <2>6. prefetch'[l] = d /\ \A m \in Logins \ {l} : prefetch'[m] = prefetch[m]
    BY <1>q, <2>2, <2>4
  <2>7. PrefetchTypes'
    <3>1. prefetch' \in [Logins -> Prefetches]
      BY <1>q, <2>2, <2>4
    <3> QED  BY <1>t, <2>5, <2>6, <3>1 DEF PrefetchTypes
  <2>8. TableTypes' /\ EntryTypes'
    BY <1>t, <2>2, <2>3 DEF TableTypes, EntryTypes
  <2>9. \A k \in Keys : fetching[k] # l
    BY <1>0, <1>t, <1>n, <2>3 DEF Claims, ClaimsOwned, PrefetchTypes
  <2>10. ClaimsOwned'
    <3> SUFFICES ASSUME NEW k \in Keys, fetching'[k] # None
                 PROVE  prefetch'[fetching'[k]].v = k[1] /\ k[2] \in prefetch'[fetching'[k]].claimed
      BY DEF ClaimsOwned
    <3>1. CASE k[1] = v /\ k[2] \in free
      BY <2>2, <2>5, <2>6, <3>1
    <3>2. CASE ~(k[1] = v /\ k[2] \in free)
      <4>1. fetching'[k] = fetching[k]
        BY <2>2, <3>2
      <4>2. fetching[k] \in Logins \ {l}
        BY <1>t, <2>9, <4>1 DEF TableTypes
      <4> QED  BY <1>0, <2>6, <4>1, <4>2 DEF Claims, ClaimsOwned
    <3> QED  BY <3>1, <3>2
  <2>11. DueOwned' /\ CalledOffStays'
    BY <1>0, <1>u, <2>3 DEF Claims, DueOwned, CalledOffStays
  <2>12. OneTurn'
    BY <1>0, <1>u, <2>5, <2>6 DEF Claims, OneTurn
  <2>13. Origins'
    BY <1>0, <1>u, <2>3, <2>5, <2>6 DEF Origins, Fetched, HeldOnce, HeldIdentified
  <2>14. HeldTrue'
    BY <1>0, <1>b, <2>3 DEF Truths, HeldTrue
  <2>15. FetchedTrue'
    <3> SUFFICES ASSUME NEW m \in Logins, NEW b \in prefetch'[m].msgs, fetching'[<<b.v, b.uid>>] = m
                 PROVE  Truth(b)'
      BY DEF FetchedTrue
    <3>1. m # l /\ b \in prefetch[m].msgs
      BY <2>5, <2>6
    <3>2. b \in Bodies
      BY <2>7 DEF PrefetchTypes, Prefetches
    <3>3. <<b.v, b.uid>> \in Keys
      BY <3>2 DEF Bodies, Keys
    <3>4. fetching[<<b.v, b.uid>>] = m
      BY <2>2, <3>1, <3>3
    <3> QED  BY <1>0, <1>b, <3>1, <3>4 DEF Truths, FetchedTrue
  <2> QED  BY <1>w, <2>7, <2>8, <2>10, <2>11, <2>12, <2>13, <2>14, <2>15 DEF BodiesInv, Types, Claims, Truths
<1>c. UNCHANGED cache => /\ EntryTypes' /\ TableTypes' /\ HeldIdentified'
                         /\ \A k \in Keys : fetching'[k] \in {None, fetching[k]}
                         /\ \A k \in Keys : reading'[k] \in {None, reading[k]}
                         /\ entries' = entries
  BY <1>0, <1>t DEF cache, EntryTypes, TableTypes, Origins, HeldIdentified
<1>3. CASE Check(l)
  <2>1. PICK active \in SUBSET UIDs : prefetch' = [prefetch EXCEPT ![l] = [prefetch[l] EXCEPT !.at = IF active = {} THEN "fetched" ELSE "checked", !.active = active]]
    <3>1. PICK active : active = {uid \in prefetch[l].claimed : fetching[<<prefetch[l].v, uid>>] = l}
      OBVIOUS
    <3>2. active \in SUBSET UIDs
      BY <1>q, <3>1 DEF Prefetches
    <3> QED  BY <1>3, <3>1, <3>2 DEF Check
  <2>2. PICK d : d = [prefetch[l] EXCEPT !.at = IF active = {} THEN "fetched" ELSE "checked", !.active = active]
    OBVIOUS
  <2>3. d \in Prefetches /\ d.at \in {"fetched", "checked"} /\ d.v = prefetch[l].v /\ d.claimed = prefetch[l].claimed /\ d.msgs = prefetch[l].msgs
    BY <1>q, <2>2 DEF Prefetches
  <2>4. prefetch[l].at = "claimed" /\ UNCHANGED cache
    BY <1>3 DEF Check
  <2> QED  BY <1>1, <1>c, <2>1, <2>2, <2>3, <2>4
<1>4. CASE PrefetchFails(l)
  <2>1. prefetch' = [prefetch EXCEPT ![l] = [prefetch[l] EXCEPT !.at = "fetched"]] /\ prefetch[l].at \in {"claimed", "checked"} /\ UNCHANGED cache
    BY <1>4 DEF PrefetchFails
  <2>2. PICK d : d = [prefetch[l] EXCEPT !.at = "fetched"]
    OBVIOUS
  <2>3. d \in Prefetches /\ d.at = "fetched" /\ d.v = prefetch[l].v /\ d.claimed = prefetch[l].claimed /\ d.msgs = prefetch[l].msgs
    BY <1>q, <2>2 DEF Prefetches
  <2> QED  BY <1>1, <1>c, <2>1, <2>2, <2>3
<1>5. CASE Fetch(l)
  <2>0. PICK ms : ms = IF server.validity = prefetch[l].v THEN Messages(l) ELSE {}
    OBVIOUS
  <2>1. prefetch' = [prefetch EXCEPT ![l] = [prefetch[l] EXCEPT !.at = "fetched", !.msgs = ms]] /\ prefetch[l].at = "checked" /\ Observe(server.validity)
    BY <1>5, <2>0 DEF Fetch
  <2>2. \A b \in ms : /\ b \in Bodies /\ b.v = server.validity /\ b.of = server.validity
                      /\ b.uid \in server.there /\ (b.seen <=> b.uid \in server.seen)
    <3> SUFFICES ASSUME NEW b \in ms PROVE /\ b \in Bodies /\ b.v = server.validity /\ b.of = server.validity
                                           /\ b.uid \in server.there /\ (b.seen <=> b.uid \in server.seen)
      OBVIOUS
    <3>1. server.validity = prefetch[l].v /\ b \in Messages(l)
      BY <2>0
    <3>2. PICK uid \in prefetch[l].active \cap server.there : b = [v |-> prefetch[l].v, uid |-> uid, of |-> server.validity, seen |-> uid \in server.seen]
      BY <3>1 DEF Messages
    <3>3. uid \in UIDs /\ server.validity \in Validities
      BY <1>t, <1>q DEF Prefetches, ServerTypes, Servers
    <3>4. b.v = server.validity /\ b.uid = uid /\ b.of = server.validity /\ b.seen = (uid \in server.seen)
      BY <3>1, <3>2
    <3>5. b \in Bodies
      BY <3>1, <3>2, <3>3 DEF Bodies
    <3> QED  BY <3>2, <3>4, <3>5
  <2>3. PICK d : d = [prefetch[l] EXCEPT !.at = "fetched", !.msgs = ms]
    OBVIOUS
  <2>4. d \in Prefetches /\ d.at = "fetched" /\ d.v = prefetch[l].v /\ d.claimed = prefetch[l].claimed /\ d.msgs = ms
    BY <1>q, <2>2, <2>3 DEF Prefetches
  <2>v. server.validity \in 0..MaxValidity /\ server.validity <= server.validity
    BY <1>t, BodiesAssumption DEF ServerTypes, Servers, Validities
  <2>5. \A b \in ms : Truth(b)
    BY <2>2 DEF Truth
  <2>6. /\ entries' \subseteq entries
        /\ EntryTypes' /\ TableTypes' /\ HeldIdentified'
        /\ \A k \in Keys : fetching'[k] \in {None, fetching[k]}
        /\ \A k \in Keys : reading'[k] \in {None, reading[k]}
    <3>1. PICK w \in 0..MaxValidity : w = server.validity
      BY <2>v
    <3>2. Observe(w)
      BY <2>1, <3>1
    <3> QED  BY <1>0, <1>t, <3>2, ObserveLeaves DEF Origins
  <2>7. \A b \in d.msgs \ prefetch[l].msgs : b.v = b.of /\ b.of <= server.validity /\ Truth(b)
    BY <2>2, <2>4, <2>5, <2>v
  <2>8. \A b \in entries' : b \in entries \/ (b \in prefetch[l].msgs /\ fetching[<<b.v, b.uid>>] = l)
    BY <2>6
  <2>9. prefetch' = [prefetch EXCEPT ![l] = d]
    BY <2>1, <2>3
  <2> QED  BY <1>1, <2>1, <2>4, <2>6, <2>7, <2>8, <2>9
<1>6. CASE PutOne(l)
  <2>1. PICK b \in prefetch[l].msgs :
            /\ prefetch' = [prefetch EXCEPT ![l] = [prefetch[l] EXCEPT !.msgs = prefetch[l].msgs \ {b}]]
            /\ IF MayPut(l, b.v, b.uid) THEN \E after \in Put(b) : entries' = after ELSE UNCHANGED entries
    BY <1>6 DEF PutOne
  <2>2. prefetch[l].at = "fetched" /\ UNCHANGED <<known, fetching, reading>>
    BY <1>6 DEF PutOne
  <2>3. PICK d : d = [prefetch[l] EXCEPT !.msgs = prefetch[l].msgs \ {b}]
    OBVIOUS
  <2>4. d \in Prefetches /\ d.at = prefetch[l].at /\ d.v = prefetch[l].v /\ d.claimed = prefetch[l].claimed /\ d.msgs \subseteq prefetch[l].msgs
    BY <1>q, <2>3 DEF Prefetches
  <2>5. b \in Bodies /\ b.v = b.of
    BY <1>0, <1>q, <2>1 DEF Prefetches, Origins, Fetched
  <2>6. TableTypes' /\ (\A k \in Keys : fetching'[k] \in {None, fetching[k]}) /\ (\A k \in Keys : reading'[k] \in {None, reading[k]})
    BY <1>t, <2>2 DEF TableTypes
  <2>7. EntryTypes' /\ HeldIdentified' /\ \A c \in entries' : c \in entries \/ (c = b /\ fetching[<<b.v, b.uid>>] = l)
    <3>1. CASE MayPut(l, b.v, b.uid)
      <4>1. PICK after \in Put(b) : entries' = after
        BY <2>1, <3>1
      <4>2. EntryTypes' /\ entries' \subseteq entries \cup {b}
        BY <1>t, <2>2, <2>5, <4>1, PutLeaves
      <4>3. known = b.v /\ fetching[<<b.v, b.uid>>] = l
        BY <3>1 DEF MayPut
      <4> QED  BY <1>0, <2>2, <2>5, <4>2, <4>3 DEF Origins, HeldIdentified
    <3>2. CASE ~MayPut(l, b.v, b.uid)
      <4>1. UNCHANGED <<known, entries>>
        BY <2>1, <2>2, <3>2
      <4> QED  BY <1>0, <1>t, <4>1 DEF EntryTypes, Origins, HeldIdentified
    <3> QED  BY <3>1, <3>2
  <2>8. \A c \in entries' : c \in entries \/ (c \in prefetch[l].msgs /\ fetching[<<c.v, c.uid>>] = l)
    BY <2>1, <2>7
  <2> QED  BY <1>1, <2>1, <2>2, <2>3, <2>4, <2>6, <2>7, <2>8
<1>7. CASE Release(l)
  <2>1. /\ fetching' = [k \in Keys |-> IF k[2] \in prefetch[l].claimed /\ fetching[k] = l THEN None ELSE fetching[k]]
        /\ prefetch' = [prefetch EXCEPT ![l] = IdlePrefetch]
        /\ prefetch[l].msgs = {} /\ UNCHANGED <<known, entries, reading>>
    BY <1>7 DEF Release
  <2>2. prefetch'[l] = IdlePrefetch /\ \A m \in Logins \ {l} : prefetch'[m] = prefetch[m]
    BY <1>q, <2>1
  <2>3. IdlePrefetch.at = "idle" /\ IdlePrefetch.claimed = {} /\ IdlePrefetch.msgs = {}
    BY DEF IdlePrefetch
  <2>4. PrefetchTypes'
    <3>1. prefetch' \in [Logins -> Prefetches]
      BY <1>q, <2>1, IdleTypes
    <3> QED  BY <1>t, <2>2, <2>3, <3>1 DEF PrefetchTypes
  <2>5. TableTypes' /\ EntryTypes'
    BY <1>t, <2>1 DEF TableTypes, EntryTypes
  <2>6. \A k \in Keys : fetching'[k] = None \/ (fetching'[k] = fetching[k] /\ fetching[k] \in Logins \ {l})
    BY <1>0, <1>t, <2>1 DEF TableTypes, Claims, ClaimsOwned
  <2>7. ClaimsOwned'
    BY <1>0, <2>2, <2>6 DEF Claims, ClaimsOwned
  <2>8. DueOwned' /\ CalledOffStays'
    BY <1>0, <1>u, <2>1 DEF Claims, DueOwned, CalledOffStays
  <2>9. OneTurn'
    BY <1>0, <1>u, <2>2, <2>3 DEF Claims, OneTurn
  <2>10. Origins'
    BY <1>0, <1>u, <2>1, <2>2, <2>3 DEF Origins, Fetched, HeldOnce, HeldIdentified
  <2>11. HeldTrue'
    BY <1>0, <1>b, <2>1 DEF Truths, HeldTrue
  <2>12. FetchedTrue'
    <3> SUFFICES ASSUME NEW m \in Logins, NEW b \in prefetch'[m].msgs, fetching'[<<b.v, b.uid>>] = m
                 PROVE  Truth(b)'
      BY DEF FetchedTrue
    <3>1. m # l /\ b \in prefetch[m].msgs
      BY <2>2, <2>3
    <3>2. b \in Bodies
      BY <2>4 DEF PrefetchTypes, Prefetches
    <3>3. <<b.v, b.uid>> \in Keys /\ m # None
      BY <3>2, BodiesAssumption DEF Bodies, Keys, None
    <3>4. fetching[<<b.v, b.uid>>] = m
      BY <2>6, <3>1, <3>3
    <3> QED  BY <1>0, <1>b, <3>1, <3>4 DEF Truths, FetchedTrue
  <2> QED  BY <1>w, <2>4, <2>5, <2>7, <2>8, <2>9, <2>10, <2>11, <2>12 DEF BodiesInv, Types, Claims, Truths
<1> QED  BY <1>2, <1>3, <1>4, <1>5, <1>6, <1>7
----------------------------------------------------------------------------
(* The automatic read *)

\* The bodies, held and fetched, where neither they nor their claims change.
LEMMA BodiesFrame ==
    ASSUME Types, Origins, UNCHANGED <<entries, fetching, prefetch>>, server'.validity = server.validity
    PROVE  /\ PrefetchTypes'
           /\ UNCHANGED known => EntryTypes' /\ Origins'
           /\ Truths /\ (\A b : Truth(b) => Truth(b)') => Truths'
<1>1. PrefetchTypes'
  BY DEF Types, PrefetchTypes
<1>2. UNCHANGED known => EntryTypes' /\ Origins'
  BY DEF Types, EntryTypes, Origins, Fetched, HeldOnce, HeldIdentified
<1>3. Truths /\ (\A b : Truth(b) => Truth(b)') => Truths'
  BY DEF Truths, HeldTrue, FetchedTrue
<1> QED  BY <1>1, <1>2, <1>3

\* It ends: the login's read is due no more.
LEMMA AutoEndsLeaves ==
    ASSUME Types, Claims, NEW l \in Logins, auto[l].at # "idle", AutoEnds(l), UNCHANGED <<act, prefetch>>,
           \A k \in Keys : fetching'[k] \in {None, fetching[k]}
    PROVE  /\ AutoTypes' /\ reading' \in [Keys -> Logins \cup {None}] /\ Claims'
           /\ auto'[l] = IdleAuto /\ \A m \in Logins \ {l} : auto'[m] = auto[m]
<1>t. TableTypes /\ AutoTypes /\ auto[l].k \in Keys
  BY DEF Types, AutoTypes
<1>1. auto'[l] = IdleAuto /\ \A m \in Logins \ {l} : auto'[m] = auto[m]
  BY <1>t DEF AutoEnds, AutoTypes
<1>2. IdleAuto.at = "idle" /\ IdleAuto.off = {} /\ IdleAuto.over = {}
  BY DEF IdleAuto
<1>3. AutoTypes'
  <2>1. auto' \in [Logins -> Autos]
    BY <1>t, IdleTypes DEF AutoEnds, AutoTypes
  <2> QED  BY <1>t, <1>1, <1>2, <2>1 DEF AutoTypes
<1>4. reading' \in [Keys -> Logins \cup {None}]
  BY <1>t DEF AutoEnds, TableTypes
<1>5. \A k \in Keys : reading'[k] \in {None, reading[k]} /\ (k = auto[l].k => reading'[k] # l)
  <2>1. l # None
    BY BodiesAssumption DEF None
  <2> QED  BY <1>t, <2>1 DEF AutoEnds, TableTypes
<1>6. ClaimsOwned'
  <2> SUFFICES ASSUME NEW k \in Keys, fetching'[k] # None
               PROVE  prefetch[fetching'[k]].v = k[1] /\ k[2] \in prefetch[fetching'[k]].claimed
    BY DEF ClaimsOwned
  <2> QED  BY DEF Claims, ClaimsOwned
<1>7. DueOwned'
  <2> SUFFICES ASSUME NEW k \in Keys, reading'[k] # None
               PROVE  auto'[reading'[k]].at # "idle" /\ auto'[reading'[k]].k = k
    BY DEF DueOwned
  <2>1. reading'[k] = reading[k] /\ auto[reading[k]].at # "idle" /\ auto[reading[k]].k = k /\ reading[k] \in Logins
    BY <1>5, <1>t DEF Claims, DueOwned, TableTypes
  <2>2. reading[k] # l
    BY <1>5, <2>1
  <2> QED  BY <1>1, <2>1, <2>2
<1>8. CalledOffStays'
  <2> SUFFICES ASSUME NEW m \in Logins
               PROVE  /\ auto'[m].off \cup auto'[m].over # {} => reading'[auto'[m].k] # m
                      /\ auto'[m].at = "checked" => m \notin auto'[m].over
    BY DEF CalledOffStays
  <2>1. CASE m = l
    BY <1>1, <1>2, <2>1
  <2>2. CASE m # l
    <3>1. auto'[m] = auto[m] /\ (auto[m].off \cup auto[m].over # {} => auto[m].k \in Keys) /\ m # None
      BY <1>1, <1>t, <2>2, BodiesAssumption DEF AutoTypes, Autos, None
    <3> QED  BY <1>5, <3>1 DEF Claims, CalledOffStays
  <2> QED  BY <2>1, <2>2
<1>9. OneTurn'
  BY <1>1, <1>2 DEF Claims, OneTurn
<1> QED  BY <1>1, <1>3, <1>4, <1>6, <1>7, <1>8, <1>9 DEF Claims

LEMMA AutoKeeps ==
    ASSUME BodiesInv, NEW l \in Logins,
           (\E uid \in UIDs : Open(l, uid)) \/ AutoStart(l) \/ AutoStore(l) \/ AutoTold(l) \/ AutoFails(l)
    PROVE  BodiesInv'
<1>0. Types /\ Claims /\ Origins /\ Writes /\ Truths
  BY DEF BodiesInv
<1>t. ServerTypes /\ EntryTypes /\ TableTypes /\ PrefetchTypes /\ AutoTypes /\ ActTypes /\ unsure \subseteq UIDs
  BY <1>0 DEF Types
<1>a. auto \in [Logins -> Autos] /\ auto[l] \in Autos
  BY <1>t DEF AutoTypes
<1>u. UNCHANGED <<known, prefetch, act>>
  BY DEF Open, AutoStart, AutoStore, AutoTold, AutoFails, cache
<1>c. ActTypes'
  BY <1>t, <1>u DEF ActTypes
<1>n. \A m \in Logins : m # None
  BY BodiesAssumption DEF None
<1>k. \A k \in Keys : k[2] \in UIDs
  BY DEF Keys
<1>1. CASE \E uid \in UIDs : Open(l, uid)
  <2>1. PICK uid \in UIDs : Open(l, uid)
    BY <1>1
  <2>2. PICK k : k = <<known, uid>>
    OBVIOUS
  <2>3. /\ known # 0 /\ auto[l].at = "idle" /\ reading[k] = None
        /\ reading' = [reading EXCEPT ![k] = l]
        /\ auto' = [auto EXCEPT ![l] = [IdleAuto EXCEPT !.at = "queued", !.k = k]]
        /\ UNCHANGED <<server, entries, fetching, unsure>>
    BY <2>1, <2>2 DEF Open
  <2>4. k \in Keys
    <3>1. known \in Validities
      BY <1>t, <2>3, BodiesAssumption DEF EntryTypes, Validities
    <3> QED  BY <2>2, <3>1 DEF Keys
  <2>5. PICK d : d = [IdleAuto EXCEPT !.at = "queued", !.k = k]
    OBVIOUS
  <2>6. d \in Autos /\ d.at = "queued" /\ d.k = k /\ d.off = {} /\ d.over = {}
    BY <2>4, <2>5 DEF IdleAuto, Autos
  <2>7. auto'[l] = d /\ \A m \in Logins \ {l} : auto'[m] = auto[m]
    BY <1>a, <2>3, <2>5
  <2>8. AutoTypes'
    <3>1. auto' \in [Logins -> Autos]
      BY <1>a, <2>3, <2>5, <2>6
    <3> QED  BY <1>t, <2>4, <2>6, <2>7, <3>1 DEF AutoTypes
  <2>9. TableTypes' /\ ServerTypes' /\ unsure' \subseteq UIDs
    BY <1>t, <2>3, <2>4 DEF TableTypes, ServerTypes
  <2>10. reading'[k] = l /\ \A x \in Keys \ {k} : reading'[x] = reading[x]
    BY <1>t, <2>3, <2>4 DEF TableTypes
  <2>11. ClaimsOwned'
    BY <1>0, <1>u, <2>3 DEF Claims, ClaimsOwned
  <2>12. DueOwned'
    <3> SUFFICES ASSUME NEW x \in Keys, reading'[x] # None
                 PROVE  auto'[reading'[x]].at # "idle" /\ auto'[reading'[x]].k = x
      BY DEF DueOwned
    <3>1. CASE x = k
      BY <2>6, <2>7, <2>10, <3>1
    <3>2. CASE x # k
      <4>1. reading'[x] = reading[x] /\ reading[x] \in Logins /\ auto[reading[x]].at # "idle" /\ auto[reading[x]].k = x
        BY <1>0, <1>t, <2>10, <3>2 DEF Claims, DueOwned, TableTypes
      <4>2. reading[x] # l
        BY <2>3, <4>1
      <4> QED  BY <2>7, <4>1, <4>2
    <3> QED  BY <3>1, <3>2
  <2>13. CalledOffStays'
    <3> SUFFICES ASSUME NEW m \in Logins
                 PROVE  /\ auto'[m].off \cup auto'[m].over # {} => reading'[auto'[m].k] # m
                        /\ auto'[m].at = "checked" => m \notin auto'[m].over
      BY DEF CalledOffStays
    <3>1. CASE m = l
      BY <2>6, <2>7, <3>1
    <3>2. CASE m # l
      <4>1. auto'[m] = auto[m] /\ (auto[m].off \cup auto[m].over # {} => auto[m].k \in Keys)
        BY <1>t, <2>7, <3>2 DEF AutoTypes, Autos
      <4> QED  BY <1>0, <2>10, <3>2, <4>1 DEF Claims, CalledOffStays
    <3> QED  BY <3>1, <3>2
  <2>14. OneTurn'
    BY <1>0, <1>u, <2>6, <2>7 DEF Claims, OneTurn
  <2>15. Writes'
    BY <1>0, <1>u, <2>3, <2>6, <2>7, WritesFrame
  <2>16. \A b : Truth(b) => Truth(b)'
    BY <1>u, <2>3, <2>7, TruthFrame
  <2>17. Truths' /\ Origins' /\ EntryTypes' /\ PrefetchTypes'
    BY <1>0, <1>u, <2>3, <2>16, BodiesFrame
  <2> QED  BY <1>c, <2>8, <2>9, <2>11, <2>12, <2>13, <2>14, <2>15, <2>17 DEF BodiesInv, Types, Claims
<1>2. CASE AutoStart(l) \/ AutoStore(l)
  <2>1. PICK at \in {"checked", "stored"} : /\ auto' = [auto EXCEPT ![l] = [auto[l] EXCEPT !.at = at]]
                                            /\ at = "checked" => auto[l].at = "queued" /\ ~TurnTaken(l) /\ reading[auto[l].k] = l /\ UNCHANGED <<server, unsure>>
                                            /\ at = "stored" => auto[l].at = "checked" /\ AutoStore(l)
    BY <1>2 DEF AutoStart, AutoStore
  <2>2. UNCHANGED <<entries, fetching, reading>>
    BY <1>2 DEF AutoStart, AutoStore, cache
  <2>3. PICK d : d = [auto[l] EXCEPT !.at = at]
    OBVIOUS
  <2>4. d \in Autos /\ d.at = at /\ d.k = auto[l].k /\ d.off = auto[l].off /\ d.over = auto[l].over
    BY <1>a, <2>3 DEF Autos
  <2>5. auto'[l] = d /\ \A m \in Logins \ {l} : auto'[m] = auto[m]
    BY <1>a, <2>1, <2>3
  <2>6. auto[l].at # "idle" /\ auto[l].k \in Keys
    BY <1>t, <2>1 DEF AutoTypes
  <2>7. AutoTypes' /\ TableTypes'
    <3>1. auto' \in [Logins -> Autos]
      BY <1>a, <2>1, <2>3, <2>4
    <3> QED  BY <1>t, <2>1, <2>2, <2>4, <2>5, <2>6, <3>1 DEF AutoTypes, TableTypes
  <2>8. ClaimsOwned' /\ DueOwned'
    <3>1. \A m \in Logins : auto'[m].k = auto[m].k /\ (auto[m].at # "idle" => auto'[m].at # "idle")
      BY <2>1, <2>4, <2>5
    <3> QED  BY <1>0, <1>u, <2>2, <3>1, ClaimsKept
  <2>9. CalledOffStays'
    <3>1. at = "checked" => auto[l].over = {}
      BY <1>0, <2>1 DEF Claims, CalledOffStays
    <3> QED  BY <1>0, <2>2, <2>4, <2>5, <3>1 DEF Claims, CalledOffStays
  <2>10. OneTurn'
    BY <1>0, <1>u, <2>1, <2>4, <2>5 DEF Claims, OneTurn, TurnTaken
  <2>11. CASE at = "checked"
    <3>1. Writes'
      BY <1>0, <1>u, <2>1, <2>4, <2>5, <2>11, WritesFrame
    <3>2. \A b : Truth(b) => Truth(b)'
      BY <1>u, <2>1, <2>5, <2>11, TruthFrame
    <3>3. Truths' /\ Origins' /\ EntryTypes' /\ PrefetchTypes'
      BY <1>0, <1>u, <2>1, <2>2, <2>11, <3>2, BodiesFrame
    <3>4. ServerTypes' /\ unsure' \subseteq UIDs
      BY <1>t, <2>1, <2>11 DEF ServerTypes
    <3> QED  BY <1>c, <2>7, <2>8, <2>9, <2>10, <3>1, <3>3, <3>4 DEF BodiesInv, Types, Claims
  <2>12. CASE at = "stored"
    <3>0. AutoStore(l)
      BY <2>1, <2>12
    <3>1. PICK uid \in UIDs : uid = auto[l].k[2]
      BY <1>k, <2>6
    <3>2. /\ server' = [server EXCEPT !.seen = server.seen \cup ({uid} \cap server.there)]
          /\ unsure' = IF \E m \in Logins \ {l} : Midway(m, uid) THEN unsure \cup {uid} ELSE unsure
      BY <3>0, <3>1 DEF AutoStore, Stored
    <3>3. /\ server' \in Servers /\ server'.validity = server.validity /\ server'.there = server.there
          /\ server'.seen = server.seen \cup ({uid} \cap server.there)
      BY <1>t, <3>2 DEF ServerTypes, Servers
    <3>4. ServerTypes' /\ unsure' \subseteq UIDs
      BY <1>t, <3>2, <3>3 DEF ServerTypes
    <3>5. act[l].at # "stored" /\ auto[l].at = "checked"
      BY <1>0, <2>1, <2>12 DEF Claims, OneTurn
    <3>6. \A m \in Logins, x \in UIDs : Midway(m, x)' <=> (Midway(m, x) \/ (m = l /\ x = uid))
      BY <1>u, <2>4, <2>5, <2>12, <3>1, <3>5 DEF Midway
    <3>7. OneWriter'
      BY <1>0, <3>2, <3>6 DEF Writes, OneWriter
    <3>8. WriteStands'
      <4> SUFFICES ASSUME NEW m \in Logins
                   PROVE  /\ act[m].at = "stored" /\ act[m].uid \notin unsure' =>
                              /\ act[m].does \in {"open", "seen"} => (act[m].uid \in server'.there => act[m].uid \in server'.seen)
                              /\ act[m].does = "unseen" => act[m].uid \notin server'.seen
                              /\ act[m].does = "move" => act[m].uid \notin server'.there
                          /\ auto'[m].at = "stored" /\ auto'[m].k[2] \notin unsure' => (auto'[m].k[2] \in server'.there => auto'[m].k[2] \in server'.seen)
        BY <1>u DEF WriteStands
      <4>1. CASE m = l
        BY <2>4, <2>5, <3>1, <3>3, <3>5, <4>1
      <4>2. CASE m # l
        <5>1. auto'[m] = auto[m]
          BY <2>5, <4>2
        <5>2. act[m].at = "stored" /\ act[m].uid = uid => uid \in unsure'
          BY <3>2, <4>2 DEF Midway
        <5> QED  BY <1>0, <3>2, <3>3, <5>1, <5>2 DEF Writes, WriteStands
      <4> QED  BY <4>1, <4>2
    <3>9. \A b : Truth(b) => Truth(b)'
      <4> SUFFICES ASSUME NEW b, Truth(b) PROVE Truth(b)'
        OBVIOUS
      <4>1. Moved(b.uid)' = Moved(b.uid)
        BY <1>u DEF Moved
      <4>2. CASE b.uid = uid
        <5>1. Midway(l, b.uid)'
          BY <3>6, <4>2
        <5> QED  BY <3>2, <3>3, <4>1, <5>1 DEF Truth
      <4>3. CASE b.uid # uid
        <5>1. \A m \in Logins : Midway(m, b.uid) => Midway(m, b.uid)'
          BY <1>u, <2>4, <2>5, <2>12, <3>5 DEF Midway
        <5> QED  BY <3>2, <3>3, <4>1, <4>3, <5>1, TruthKept
      <4> QED  BY <4>2, <4>3
    <3>10. Truths' /\ Origins' /\ EntryTypes' /\ PrefetchTypes'
      BY <1>0, <1>u, <2>2, <3>3, <3>9, BodiesFrame
    <3> QED  BY <1>c, <2>7, <2>8, <2>9, <2>10, <3>4, <3>7, <3>8, <3>10 DEF BodiesInv, Types, Claims, Writes
  <2> QED  BY <2>1, <2>11, <2>12
<1>3. CASE AutoTold(l)
  <2>1. auto[l].at = "stored" /\ Flags(auto[l].k[2], TRUE) /\ AutoEnds(l) /\ UNCHANGED <<server, unsure>>
    BY <1>3 DEF AutoTold
  <2>2. auto[l].k \in Keys
    BY <1>t, <2>1 DEF AutoTypes
  <2>3. PICK uid \in UIDs : uid = auto[l].k[2]
    BY <1>k, <2>2
  <2>4. /\ EntryTypes' /\ fetching' \in [Keys -> Logins \cup {None}]
        /\ \A c \in entries' : \E b \in entries :
             c.v = b.v /\ c.uid = b.uid /\ c.of = b.of /\ (IF b.uid = uid THEN c.seen = TRUE ELSE c = b)
        /\ \A k \in Keys : fetching'[k] = None \/ (k[2] # uid /\ fetching'[k] = fetching[k])
    <3>1. Flags(uid, TRUE)
      BY <2>1, <2>3
    <3> QED  BY <1>t, <1>u, <3>1, FlagsLeave
  <2>5. /\ AutoTypes' /\ reading' \in [Keys -> Logins \cup {None}] /\ Claims'
        /\ auto'[l] = IdleAuto /\ \A m \in Logins \ {l} : auto'[m] = auto[m]
    BY <1>0, <1>u, <2>1, <2>4, AutoEndsLeaves
  <2>6. IdleAuto.at = "idle"
    BY DEF IdleAuto
  <2>7. TableTypes' /\ ServerTypes' /\ PrefetchTypes' /\ unsure' \subseteq UIDs
    BY <1>t, <1>u, <2>1, <2>4, <2>5 DEF TableTypes, ServerTypes, PrefetchTypes
  <2>8. Writes'
    BY <1>0, <1>u, <2>1, <2>5, <2>6, WritesFrame
  <2>9. Origins'
    <3>1. Fetched'
      BY <1>0, <1>u, <2>1 DEF Origins, Fetched
    <3>2. HeldOnce' /\ HeldIdentified'
      BY <1>0, <1>u, <2>1, <2>4 DEF Origins, HeldOnce, HeldIdentified
    <3> QED  BY <3>1, <3>2 DEF Origins
  <2>10. \A b : Truth(b) /\ b.uid # uid => Truth(b)'
    <3> SUFFICES ASSUME NEW b, Truth(b), b.uid # uid PROVE Truth(b)'
      OBVIOUS
    <3>1. Moved(b.uid) => Moved(b.uid)'
      BY <1>u DEF Moved
    <3>2. \A m \in Logins : Midway(m, b.uid) => Midway(m, b.uid)'
      BY <1>u, <2>3, <2>5 DEF Midway
    <3> QED  BY <2>1, <3>1, <3>2, TruthKept
  <2>11. ASSUME NEW b \in entries, NEW c, c.uid = b.uid, c.of = b.of, b.uid = uid, c.seen = TRUE
         PROVE  Truth(c)'
    <3> SUFFICES ASSUME c.of = server.validity, uid \notin unsure
                 PROVE  /\ uid \in server.there
                        /\ uid \in server.seen
      BY <1>u, <2>1, <2>11 DEF Truth
    <3>1. uid \in server.there \/ Moved(uid)
      BY <1>0, <2>11 DEF Truths, HeldTrue, Truth
    <3>2. ~Moved(uid)
      <4> SUFFICES ASSUME NEW m \in Logins, act[m].at = "stored", act[m].uid = uid PROVE FALSE
        BY DEF Moved
      <4>1. Midway(m, uid) /\ Midway(l, uid)
        BY <2>1, <2>3 DEF Midway
      <4>2. m = l
        BY <1>0, <4>1 DEF Writes, OneWriter
      <4> QED  BY <1>0, <2>1, <4>2 DEF Claims, OneTurn
    <3>3. uid \in server.there => uid \in server.seen
      BY <1>0, <2>1, <2>3 DEF Writes, WriteStands
    <3> QED  BY <3>1, <3>2, <3>3
  <2>12. HeldTrue'
    <3> SUFFICES ASSUME NEW c \in entries' PROVE Truth(c)'
      BY DEF HeldTrue
    <3>1. PICK b \in entries : c.v = b.v /\ c.uid = b.uid /\ c.of = b.of /\ (IF b.uid = uid THEN c.seen = TRUE ELSE c = b)
      BY <2>4
    <3>2. CASE b.uid = uid
      BY <2>11, <3>1, <3>2
    <3>3. CASE b.uid # uid
      BY <1>0, <2>10, <3>1, <3>3 DEF Truths, HeldTrue
    <3> QED  BY <3>2, <3>3
  <2>13. FetchedTrue'
    <3> SUFFICES ASSUME NEW m \in Logins, NEW b \in prefetch[m].msgs, fetching'[<<b.v, b.uid>>] = m
                 PROVE  Truth(b)'
      BY <1>u DEF FetchedTrue
    <3>1. b \in Bodies
      BY <1>t DEF PrefetchTypes, Prefetches
    <3>2. <<b.v, b.uid>> \in Keys /\ <<b.v, b.uid>>[2] = b.uid
      BY <3>1 DEF Bodies, Keys
    <3>3. b.uid # uid /\ fetching[<<b.v, b.uid>>] = m
      BY <1>n, <2>4, <3>2
    <3> QED  BY <1>0, <2>10, <3>3 DEF Truths, FetchedTrue
  <2> QED  BY <1>c, <2>4, <2>5, <2>7, <2>8, <2>9, <2>12, <2>13 DEF BodiesInv, Types, Truths
<1>4. CASE AutoFails(l)
  <2>1. /\ auto[l].at # "idle" /\ AutoEnds(l) /\ UNCHANGED <<server, entries, fetching>>
        /\ unsure' = IF auto[l].at = "stored" THEN unsure \cup {auto[l].k[2]} ELSE unsure
    BY <1>4 DEF AutoFails
  <2>2. auto[l].k \in Keys
    BY <1>t, <2>1 DEF AutoTypes
  <2>3. unsure' \subseteq UIDs /\ unsure \subseteq unsure'
    BY <1>t, <1>k, <2>1, <2>2
  <2>4. /\ AutoTypes' /\ reading' \in [Keys -> Logins \cup {None}] /\ Claims'
        /\ auto'[l] = IdleAuto /\ \A m \in Logins \ {l} : auto'[m] = auto[m]
    BY <1>0, <1>u, <2>1, AutoEndsLeaves
  <2>5. IdleAuto.at = "idle"
    BY DEF IdleAuto
  <2>6. TableTypes' /\ ServerTypes'
    BY <1>t, <2>1, <2>4 DEF TableTypes, ServerTypes
  <2>7. Writes'
    BY <1>0, <1>u, <2>1, <2>3, <2>4, <2>5, WritesFrame
  <2>8. \A b : Truth(b) => Truth(b)'
    <3> SUFFICES ASSUME NEW b, Truth(b) PROVE Truth(b)'
      OBVIOUS
    <3>1. Moved(b.uid) => Moved(b.uid)'
      BY <1>u DEF Moved
    <3>2. b.uid \notin unsure' => \A m \in Logins : Midway(m, b.uid) => Midway(m, b.uid)'
      BY <1>u, <2>1, <2>4 DEF Midway
    <3> QED  BY <2>1, <2>3, <3>1, <3>2, TruthKept
  <2>9. Truths' /\ Origins' /\ EntryTypes' /\ PrefetchTypes'
    BY <1>0, <1>u, <2>1, <2>8, BodiesFrame
  <2> QED  BY <1>c, <2>3, <2>4, <2>6, <2>7, <2>9 DEF BodiesInv, Types
<1> QED  BY <1>1, <1>2, <1>3, <1>4
----------------------------------------------------------------------------
(* The reader's actions *)

\* An automatic read with other marks is the same read.
LEMMA CalledOffMarks ==
    ASSUME AutoTypes, NEW l \in Logins, NEW uid, auto' = CalledOff(l, uid)
    PROVE  /\ AutoTypes'
           /\ \A m \in Logins :
                /\ auto'[m].at = auto[m].at /\ auto'[m].k = auto[m].k /\ auto'[m].over = auto[m].over
                /\ auto'[m].off = auto[m].off \/ (auto[m].at # "idle" /\ auto[m].k[2] = uid)
<1>1. ASSUME NEW m \in Logins
      PROVE  /\ auto'[m] \in Autos /\ auto'[m].at = auto[m].at /\ auto'[m].k = auto[m].k /\ auto'[m].over = auto[m].over
             /\ auto'[m].off = auto[m].off \/ (auto[m].at # "idle" /\ auto[m].k[2] = uid)
  <2>1. auto[m] \in Autos
    BY DEF AutoTypes
  <2>2. CASE auto[m].at # "idle" /\ auto[m].k[2] = uid
    <3>1. auto'[m] = [auto[m] EXCEPT !.off = auto[m].off \cup {l}]
      BY <2>2 DEF CalledOff
    <3> QED  BY <2>1, <2>2, <3>1 DEF Autos
  <2>3. CASE ~(auto[m].at # "idle" /\ auto[m].k[2] = uid)
    <3>1. auto'[m] = auto[m]
      BY <2>3 DEF CalledOff
    <3> QED  BY <2>1, <3>1
  <2> QED  BY <2>2, <2>3
<1>2. auto' \in [Logins -> Autos]
  BY <1>1 DEF CalledOff
<1>3. AutoTypes'
  BY <1>1, <1>2 DEF AutoTypes
<1> QED  BY <1>1, <1>3

LEMMA LandedMarks ==
    ASSUME AutoTypes, NEW l \in Logins, auto' = Landed(l)
    PROVE  /\ AutoTypes'
           /\ \A m \in Logins :
                /\ auto'[m].at = auto[m].at /\ auto'[m].k = auto[m].k /\ auto'[m].off = auto[m].off
                /\ auto'[m].over = auto[m].over \/ (l \in auto[m].off /\ auto'[m].over = auto[m].over \cup {l})
<1>1. ASSUME NEW m \in Logins
      PROVE  /\ auto'[m] \in Autos /\ auto'[m].at = auto[m].at /\ auto'[m].k = auto[m].k /\ auto'[m].off = auto[m].off
             /\ auto'[m].over = auto[m].over \/ (l \in auto[m].off /\ auto'[m].over = auto[m].over \cup {l})
  <2>1. auto[m] \in Autos
    BY DEF AutoTypes
  <2>2. CASE l \in auto[m].off
    <3>1. auto'[m] = [auto[m] EXCEPT !.over = auto[m].over \cup {l}]
      BY <2>2 DEF Landed
    <3> QED  BY <2>1, <2>2, <3>1 DEF Autos
  <2>3. CASE l \notin auto[m].off
    <3>1. auto'[m] = auto[m]
      BY <2>3 DEF Landed
    <3> QED  BY <2>1, <3>1
  <2> QED  BY <2>2, <2>3
<1>2. auto' \in [Logins -> Autos]
  BY <1>1 DEF Landed
<1>3. AutoTypes'
  BY <1>1, <1>2 DEF AutoTypes
<1> QED  BY <1>1, <1>3

LEMMA OverMarks ==
    ASSUME AutoTypes, NEW l \in Logins, auto' = Over(l)
    PROVE  /\ AutoTypes'
           /\ \A m \in Logins :
                /\ auto'[m].at = auto[m].at /\ auto'[m].k = auto[m].k /\ auto'[m].over = auto[m].over
                /\ auto'[m].off \subseteq auto[m].off
<1>1. ASSUME NEW m \in Logins
      PROVE  /\ auto'[m] \in Autos /\ auto'[m].at = auto[m].at /\ auto'[m].k = auto[m].k /\ auto'[m].over = auto[m].over
             /\ auto'[m].off \subseteq auto[m].off
  <2>1. auto[m] \in Autos
    BY DEF AutoTypes
  <2>2. auto'[m] = [auto[m] EXCEPT !.off = auto[m].off \ {l}]
    BY DEF Over
  <2> QED  BY <2>1, <2>2 DEF Autos
<1>2. auto' \in [Logins -> Autos]
  BY <1>1 DEF Over
<1>3. AutoTypes'
  BY <1>1, <1>2 DEF AutoTypes
<1> QED  BY <1>1, <1>3

LEMMA ActKeeps ==
    ASSUME BodiesInv, NEW l \in Logins,
           (\E uid \in UIDs, does \in Deeds : Start(l, does, uid)) \/ Store(l) \/ Told(l) \/ ActFails(l)
    PROVE  BodiesInv'
<1>0. Types /\ Claims /\ Origins /\ Writes /\ Truths
  BY DEF BodiesInv
<1>t. ServerTypes /\ EntryTypes /\ TableTypes /\ PrefetchTypes /\ AutoTypes /\ ActTypes /\ unsure \subseteq UIDs
  BY <1>0 DEF Types
<1>a. act \in [Logins -> Acts] /\ act[l] \in Acts
  BY <1>t DEF ActTypes
<1>u. UNCHANGED prefetch
  BY DEF Start, Store, Told, ActFails
<1>n. \A m \in Logins : m # None
  BY BodiesAssumption DEF None
<1>k. \A m \in Logins : auto[m].off \cup auto[m].over # {} => auto[m].k \in Keys /\ auto[m].at # "idle"
  BY <1>t DEF AutoTypes, Autos
\* The automatic reads stay, and are due no longer than before.
<1>r. ASSUME \A k \in Keys : fetching'[k] \in {None, fetching[k]},
             \A k \in Keys : reading'[k] \in {None, reading[k]},
             \A m \in Logins : auto'[m].at = auto[m].at /\ auto'[m].k = auto[m].k
      PROVE  ClaimsOwned' /\ DueOwned'
  BY <1>0, <1>u, <1>r, ClaimsKept
<1>1. CASE \E uid \in UIDs, does \in Deeds : Start(l, does, uid)
  <2>1. PICK uid \in UIDs, does \in Deeds : Start(l, does, uid)
    BY <1>1
  <2>2. /\ act[l].at = "idle" /\ UNCHANGED <<server, known, entries, fetching, unsure>>
        /\ reading' = [k \in Keys |-> IF does # "open" /\ k[2] = uid THEN None ELSE reading[k]]
        /\ act' = [act EXCEPT ![l] = [at |-> "queued", does |-> does, uid |-> uid]]
    BY <2>1 DEF Start, CancelSeen
  <2>3. PICK d : d = [at |-> "queued", does |-> does, uid |-> uid]
    OBVIOUS
  <2>4. d \in Acts /\ d.at = "queued" /\ d.uid = uid /\ d.does = does
    BY <2>3 DEF Acts
  <2>5. act'[l] = d /\ \A m \in Logins \ {l} : act'[m] = act[m]
    BY <1>a, <2>2, <2>3
  <2>6. ActTypes'
    <3>1. act' \in [Logins -> Acts]
      BY <1>a, <2>2, <2>3, <2>4
    <3> QED  BY <1>t, <2>4, <2>5, <3>1 DEF ActTypes
  <2>7. /\ AutoTypes'
        /\ \A m \in Logins :
             /\ auto'[m].at = auto[m].at /\ auto'[m].k = auto[m].k /\ auto'[m].over = auto[m].over
             /\ auto'[m].off = auto[m].off \/ (does # "open" /\ auto[m].at # "idle" /\ auto[m].k[2] = uid)
    <3>1. CASE does = "open"
      <4>1. auto' = auto
        BY <2>1, <3>1 DEF Start
      <4> QED  BY <1>t, <4>1 DEF AutoTypes
    <3>2. CASE does # "open"
      <4>1. auto' = CalledOff(l, uid)
        BY <2>1, <3>2 DEF Start
      <4> QED  BY <1>t, <3>2, <4>1, CalledOffMarks
    <3> QED  BY <3>1, <3>2
  <2>8. TableTypes' /\ ServerTypes' /\ \A k \in Keys : reading'[k] \in {None, reading[k]}
    BY <1>t, <2>2 DEF TableTypes, ServerTypes
  <2>9. ClaimsOwned' /\ DueOwned'
    BY <1>r, <2>2, <2>7, <2>8
  <2>10. CalledOffStays'
    <3> SUFFICES ASSUME NEW m \in Logins
                 PROVE  /\ auto'[m].off \cup auto'[m].over # {} => reading'[auto'[m].k] # m
                        /\ auto'[m].at = "checked" => m \notin auto'[m].over
      BY DEF CalledOffStays
    <3>1. auto'[m].at = "checked" => m \notin auto'[m].over
      BY <1>0, <2>7 DEF Claims, CalledOffStays
    <3>2. CASE auto'[m].off = auto[m].off
      BY <1>0, <1>k, <1>n, <2>7, <2>8, <3>1, <3>2 DEF Claims, CalledOffStays
    <3>3. CASE auto'[m].off # auto[m].off
      <4>1. does # "open" /\ auto[m].k \in Keys /\ auto[m].k[2] = uid
        BY <1>t, <2>7, <3>3 DEF AutoTypes
      <4>2. reading'[auto[m].k] = None
        BY <2>2, <4>1
      <4> QED  BY <1>n, <2>7, <3>1, <4>2
    <3> QED  BY <3>2, <3>3
  <2>11. OneTurn'
    BY <1>0, <1>u, <2>4, <2>5, <2>7 DEF Claims, OneTurn
  <2>12. Writes'
    BY <1>0, <2>2, <2>4, <2>5, <2>7, WritesFrame
  <2>13. \A b : Truth(b) => Truth(b)'
    <3> SUFFICES ASSUME NEW b, Truth(b) PROVE Truth(b)'
      OBVIOUS
    <3>1. Moved(b.uid) => Moved(b.uid)'
      BY <2>2, <2>5 DEF Moved
    <3>2. \A m \in Logins : Midway(m, b.uid) => Midway(m, b.uid)'
      BY <2>2, <2>5, <2>7 DEF Midway
    <3> QED  BY <2>2, <3>1, <3>2, TruthKept
  <2>14. Truths' /\ Origins' /\ EntryTypes' /\ PrefetchTypes'
    BY <1>0, <1>u, <2>2, <2>13, BodiesFrame
  <2> QED  BY <1>t, <2>2, <2>6, <2>7, <2>8, <2>9, <2>10, <2>11, <2>12, <2>14 DEF BodiesInv, Types, Claims
<1>2. CASE Store(l)
  <2>1. PICK a \in Acts : a = act[l]
    BY <1>a
  <2>2. /\ a.at = "queued" /\ ~TurnTaken(l) /\ auto' = Landed(l) /\ UNCHANGED <<known, entries, fetching, reading>>
        /\ server' = [server EXCEPT !.seen = IF a.does \in {"open", "seen"} THEN server.seen \cup ({a.uid} \cap server.there)
                                             ELSE server.seen \ {a.uid},
                                    !.there = IF a.does = "move" THEN server.there \ {a.uid} ELSE server.there]
        /\ act' = [act EXCEPT ![l] = [a EXCEPT !.at = "stored"]]
        /\ unsure' = IF \E m \in Logins \ {l} : Midway(m, a.uid) THEN unsure \cup {a.uid} ELSE unsure
    BY <1>2, <2>1 DEF Store, Stored, cache
  <2>3. a.uid \in UIDs /\ a.does \in Deeds
    BY <1>t, <2>1, <2>2 DEF ActTypes
  <2>4. PICK d : d = [a EXCEPT !.at = "stored"]
    OBVIOUS
  <2>5. d \in Acts /\ d.at = "stored" /\ d.uid = a.uid /\ d.does = a.does
    BY <2>4 DEF Acts
  <2>6. act'[l] = d /\ \A m \in Logins \ {l} : act'[m] = act[m]
    BY <1>a, <2>2, <2>4
  <2>7. ActTypes'
    <3>1. act' \in [Logins -> Acts]
      BY <1>a, <2>2, <2>4, <2>5
    <3> QED  BY <1>t, <2>3, <2>5, <2>6, <3>1 DEF ActTypes
  <2>8. /\ AutoTypes'
        /\ \A m \in Logins :
             /\ auto'[m].at = auto[m].at /\ auto'[m].k = auto[m].k /\ auto'[m].off = auto[m].off
             /\ auto'[m].over = auto[m].over \/ (l \in auto[m].off /\ auto'[m].over = auto[m].over \cup {l})
    BY <1>t, <2>2, LandedMarks
  <2>9. /\ server'.validity = server.validity
        /\ server'.seen = IF a.does \in {"open", "seen"} THEN server.seen \cup ({a.uid} \cap server.there) ELSE server.seen \ {a.uid}
        /\ server'.there = IF a.does = "move" THEN server.there \ {a.uid} ELSE server.there
        /\ server' \in Servers
    <3>1. PICK s \in SUBSET UIDs : s = IF a.does \in {"open", "seen"} THEN server.seen \cup ({a.uid} \cap server.there) ELSE server.seen \ {a.uid}
      BY <1>t, <2>3 DEF ServerTypes, Servers
    <3>2. PICK h \in SUBSET UIDs : h = IF a.does = "move" THEN server.there \ {a.uid} ELSE server.there
      BY <1>t, <2>3 DEF ServerTypes, Servers
    <3>3. server' = [server EXCEPT !.seen = s, !.there = h]
      BY <2>2, <3>1, <3>2
    <3>4. server'.validity = server.validity /\ server'.seen = s /\ server'.there = h /\ server' \in Servers
      BY <1>t, <3>3 DEF ServerTypes, Servers
    <3> QED  BY <3>1, <3>2, <3>4
  <2>10. ServerTypes' /\ unsure' \subseteq UIDs /\ TableTypes' /\ unsure \subseteq unsure'
    BY <1>t, <2>2, <2>3, <2>9 DEF ServerTypes, TableTypes
  <2>11. ClaimsOwned' /\ DueOwned'
    BY <1>r, <2>2, <2>8
  <2>12. auto[l].at \notin {"checked", "stored"}
    BY <2>2 DEF TurnTaken
  <2>13. CalledOffStays'
    <3> SUFFICES ASSUME NEW m \in Logins
                 PROVE  /\ auto'[m].off \cup auto'[m].over # {} => reading[auto'[m].k] # m
                        /\ auto'[m].at = "checked" => m \notin auto'[m].over
      BY <2>2 DEF CalledOffStays
    <3>1. auto'[m].off \cup auto'[m].over # {} => auto[m].off \cup auto[m].over # {}
      BY <2>8
    <3>2. auto'[m].at = "checked" => m \notin auto'[m].over
      BY <1>0, <2>8, <2>12 DEF Claims, CalledOffStays
    <3> QED  BY <1>0, <2>8, <3>1, <3>2 DEF Claims, CalledOffStays
  <2>14. OneTurn'
    BY <1>0, <1>u, <2>6, <2>8, <2>12 DEF Claims, OneTurn
  <2>15. \A m \in Logins, x \in UIDs : Midway(m, x)' <=> (Midway(m, x) \/ (m = l /\ x = a.uid))
    BY <2>1, <2>2, <2>5, <2>6, <2>8, <2>12 DEF Midway
  <2>16. OneWriter'
    BY <1>0, <2>2, <2>15 DEF Writes, OneWriter
  <2>17. WriteStands'
    <3> SUFFICES ASSUME NEW m \in Logins
                 PROVE  /\ act'[m].at = "stored" /\ act'[m].uid \notin unsure' =>
                            /\ act'[m].does \in {"open", "seen"} => (act'[m].uid \in server'.there => act'[m].uid \in server'.seen)
                            /\ act'[m].does = "unseen" => act'[m].uid \notin server'.seen
                            /\ act'[m].does = "move" => act'[m].uid \notin server'.there
                        /\ auto'[m].at = "stored" /\ auto'[m].k[2] \notin unsure' => (auto'[m].k[2] \in server'.there => auto'[m].k[2] \in server'.seen)
      BY DEF WriteStands
    <3>1. CASE m = l
      BY <2>5, <2>6, <2>8, <2>9, <2>12, <3>1
    <3>2. CASE m # l
      <4>1. act'[m] = act[m] /\ auto'[m].at = auto[m].at /\ auto'[m].k = auto[m].k
        BY <2>6, <2>8, <3>2
      <4>2. (act[m].at = "stored" /\ act[m].uid = a.uid) \/ (auto[m].at = "stored" /\ auto[m].k[2] = a.uid) => a.uid \in unsure'
        BY <2>2, <3>2 DEF Midway
      <4>3. \A x : x # a.uid => (x \in server'.there <=> x \in server.there) /\ (x \in server'.seen <=> x \in server.seen)
        BY <2>9
      <4>4. act'[m].at = "stored" /\ act'[m].uid \notin unsure' =>
                /\ act'[m].does \in {"open", "seen"} => (act'[m].uid \in server'.there => act'[m].uid \in server'.seen)
                /\ act'[m].does = "unseen" => act'[m].uid \notin server'.seen
                /\ act'[m].does = "move" => act'[m].uid \notin server'.there
        BY <1>0, <2>10, <4>1, <4>2, <4>3 DEF Writes, WriteStands
      <4>5. auto'[m].at = "stored" /\ auto'[m].k[2] \notin unsure' => (auto'[m].k[2] \in server'.there => auto'[m].k[2] \in server'.seen)
        BY <1>0, <2>10, <4>1, <4>2, <4>3 DEF Writes, WriteStands
      <4> QED  BY <4>4, <4>5
    <3> QED  BY <3>1, <3>2
  <2>18. \A b : Truth(b) => Truth(b)'
    <3> SUFFICES ASSUME NEW b, Truth(b) PROVE Truth(b)'
      OBVIOUS
    <3>1. Moved(b.uid) => Moved(b.uid)'
      BY <2>1, <2>2, <2>6 DEF Moved
    <3>2. CASE b.uid = a.uid
      <4>1. Midway(l, b.uid)'
        BY <2>3, <2>15, <3>2
      <4>2. a.does = "move" => Moved(b.uid)'
        BY <2>5, <2>6, <3>2 DEF Moved
      <4>3. a.does # "move" => server'.there = server.there
        BY <2>9
      <4> QED  BY <2>9, <2>10, <3>1, <4>1, <4>2, <4>3 DEF Truth
    <3>3. CASE b.uid # a.uid
      <4>1. \A m \in Logins : Midway(m, b.uid) => Midway(m, b.uid)'
        BY <2>1, <2>2, <2>6, <2>8 DEF Midway
      <4>2. (b.uid \in server'.there <=> b.uid \in server.there) /\ (b.uid \in server'.seen <=> b.uid \in server.seen)
        BY <2>9, <3>3
      <4> QED  BY <2>9, <2>10, <3>1, <4>1, <4>2, TruthKept
    <3> QED  BY <3>2, <3>3
  <2>19. Truths' /\ Origins' /\ EntryTypes' /\ PrefetchTypes'
    BY <1>0, <1>u, <2>2, <2>9, <2>18, BodiesFrame
  <2> QED  BY <2>7, <2>8, <2>10, <2>11, <2>13, <2>14, <2>16, <2>17, <2>19 DEF BodiesInv, Types, Claims, Writes
\* The action is over.
<1>o. ASSUME act[l].at # "idle", act' = [act EXCEPT ![l] = IdleAct], auto' = Over(l), UNCHANGED server, unsure \subseteq unsure',
             \A k \in Keys : fetching'[k] \in {None, fetching[k]},
             \A k \in Keys : reading'[k] \in {None, reading[k]}
      PROVE  /\ AutoTypes' /\ ActTypes' /\ Claims' /\ Writes'
             /\ act'[l].at = "idle" /\ \A m \in Logins \ {l} : act'[m] = act[m]
             /\ \A m \in Logins : auto'[m].at = auto[m].at /\ auto'[m].k = auto[m].k
  <2>1. /\ AutoTypes'
        /\ \A m \in Logins :
             /\ auto'[m].at = auto[m].at /\ auto'[m].k = auto[m].k /\ auto'[m].over = auto[m].over
             /\ auto'[m].off \subseteq auto[m].off
    BY <1>t, <1>o, OverMarks
  <2>2. act'[l] = IdleAct /\ IdleAct.at = "idle" /\ \A m \in Logins \ {l} : act'[m] = act[m]
    BY <1>a, <1>o DEF IdleAct
  <2>3. ActTypes'
    <3>1. act' \in [Logins -> Acts]
      BY <1>a, <1>o, IdleTypes
    <3> QED  BY <1>t, <2>2, <3>1 DEF ActTypes
  <2>4. ClaimsOwned' /\ DueOwned'
    BY <1>r, <1>o, <2>1
  <2>5. CalledOffStays'
    <3> SUFFICES ASSUME NEW m \in Logins
                 PROVE  /\ auto'[m].off \cup auto'[m].over # {} => reading'[auto'[m].k] # m
                        /\ auto'[m].at = "checked" => m \notin auto'[m].over
      BY DEF CalledOffStays
    <3>1. auto'[m].off \cup auto'[m].over # {} => auto[m].off \cup auto[m].over # {}
      BY <2>1
    <3> QED  BY <1>0, <1>k, <1>n, <1>o, <2>1, <3>1 DEF Claims, CalledOffStays
  <2>6. OneTurn'
    BY <1>0, <1>u, <2>1, <2>2 DEF Claims, OneTurn
  <2>7. Writes'
    BY <1>0, <1>o, <2>1, <2>2, WritesFrame
  <2> QED  BY <2>1, <2>2, <2>3, <2>4, <2>5, <2>6, <2>7 DEF Claims
<1>3. CASE Told(l)
  <2>1. act[l].at = "stored" /\ act' = [act EXCEPT ![l] = IdleAct] /\ auto' = Over(l) /\ UNCHANGED <<server, unsure>>
    BY <1>3 DEF Told
  <2>2. PICK uid \in UIDs : uid = act[l].uid
    BY <1>t, <2>1 DEF ActTypes
  \* Another message is as it was.
  <2>3. ASSUME NEW b, Truth(b), b.uid # uid,
               act'[l].at = "idle", \A m \in Logins \ {l} : act'[m] = act[m],
               \A m \in Logins : auto'[m].at = auto[m].at /\ auto'[m].k = auto[m].k
        PROVE  Truth(b)'
    <3>1. Moved(b.uid) => Moved(b.uid)'
      BY <2>2, <2>3 DEF Moved
    <3>2. \A m \in Logins : Midway(m, b.uid) => Midway(m, b.uid)'
      BY <2>2, <2>3 DEF Midway
    <3> QED  BY <2>1, <2>3, <3>1, <3>2, TruthKept
  \* No claim is left on this one.
  <2>4. ASSUME \A k \in Keys : fetching'[k] = None \/ (k[2] # uid /\ fetching'[k] = fetching[k]),
               act'[l].at = "idle", \A m \in Logins \ {l} : act'[m] = act[m],
               \A m \in Logins : auto'[m].at = auto[m].at /\ auto'[m].k = auto[m].k
        PROVE  FetchedTrue'
    <3> SUFFICES ASSUME NEW m \in Logins, NEW b \in prefetch[m].msgs, fetching'[<<b.v, b.uid>>] = m
                 PROVE  Truth(b)'
      BY <1>u DEF FetchedTrue
    <3>1. b \in Bodies
      BY <1>t DEF PrefetchTypes, Prefetches
    <3>2. <<b.v, b.uid>> \in Keys /\ <<b.v, b.uid>>[2] = b.uid
      BY <3>1 DEF Bodies, Keys
    <3>3. b.uid # uid /\ fetching[<<b.v, b.uid>>] = m
      BY <1>n, <2>4, <3>2
    <3>4. Truth(b)
      BY <1>0, <3>3 DEF Truths, FetchedTrue
    <3> QED  BY <2>3, <2>4, <3>3, <3>4
  <2>5. ServerTypes' /\ PrefetchTypes' /\ unsure' \subseteq UIDs /\ Fetched'
    BY <1>0, <1>t, <1>u, <2>1 DEF ServerTypes, PrefetchTypes, Origins, Fetched
  <2>6. CASE act[l].does = "move"
    <3>1. PICK match : match = {k \in Keys : k[2] \in {uid}}
      OBVIOUS
    <3>2. Drop(match) /\ UNCHANGED known
      BY <1>3, <2>2, <2>6, <3>1 DEF Told, Discard
    <3>3. /\ entries' \subseteq entries
          /\ \A b \in entries' : <<b.v, b.uid>> \notin match
          /\ TableTypes'
          /\ \A k \in Keys : fetching'[k] = None \/ (k \notin match /\ fetching'[k] = fetching[k])
          /\ \A k \in Keys : reading'[k] = None \/ (k \notin match /\ reading'[k] = reading[k])
      BY <1>t, <3>2, DropLeaves
    <3>4. EntryTypes'
      <4>1. known' \in 0..MaxValidity
        BY <1>t, <3>2 DEF EntryTypes
      <4> QED  BY <1>t, <3>3, <4>1, FewerHeld
    <3>5. /\ AutoTypes' /\ ActTypes' /\ Claims' /\ Writes'
          /\ act'[l].at = "idle" /\ \A m \in Logins \ {l} : act'[m] = act[m]
          /\ \A m \in Logins : auto'[m].at = auto[m].at /\ auto'[m].k = auto[m].k
      BY <1>o, <2>1, <3>3
    <3>6. Origins'
      BY <1>0, <2>1, <2>5, <3>2, <3>3 DEF Origins, HeldOnce, HeldIdentified
    <3>7. HeldTrue'
      <4> SUFFICES ASSUME NEW b \in entries' PROVE Truth(b)'
        BY DEF HeldTrue
      <4>1. b \in Bodies
        BY <3>4 DEF EntryTypes
      <4>2. <<b.v, b.uid>> \in Keys /\ <<b.v, b.uid>>[2] = b.uid
        BY <4>1 DEF Bodies, Keys
      <4>3. b.uid # uid /\ Truth(b)
        BY <1>0, <3>1, <3>3, <4>2 DEF Truths, HeldTrue
      <4> QED  BY <2>3, <3>5, <4>3
    <3>8. \A k \in Keys : fetching'[k] = None \/ (k[2] # uid /\ fetching'[k] = fetching[k])
      BY <3>1, <3>3
    <3>9. FetchedTrue'
      BY <2>4, <3>5, <3>8
    <3> QED  BY <2>5, <3>3, <3>4, <3>5, <3>6, <3>7, <3>9 DEF BodiesInv, Types, Truths
  <2>7. CASE act[l].does # "move"
    <3>1. PICK seen \in BOOLEAN : seen = (act[l].does # "unseen")
      OBVIOUS
    <3>2. Flags(uid, seen) /\ UNCHANGED <<known, reading>>
      BY <1>3, <2>2, <2>7, <3>1 DEF Told
    <3>3. /\ EntryTypes' /\ fetching' \in [Keys -> Logins \cup {None}]
          /\ \A c \in entries' : \E b \in entries :
               c.v = b.v /\ c.uid = b.uid /\ c.of = b.of /\ (IF b.uid = uid THEN c.seen = seen ELSE c = b)
          /\ \A k \in Keys : fetching'[k] = None \/ (k[2] # uid /\ fetching'[k] = fetching[k])
      BY <1>t, <3>2, FlagsLeave
    <3>4. /\ AutoTypes' /\ ActTypes' /\ Claims' /\ Writes'
          /\ act'[l].at = "idle" /\ \A m \in Logins \ {l} : act'[m] = act[m]
          /\ \A m \in Logins : auto'[m].at = auto[m].at /\ auto'[m].k = auto[m].k
      BY <1>o, <2>1, <3>2, <3>3
    <3>5. TableTypes'
      BY <1>t, <3>2, <3>3 DEF TableTypes
    <3>6. Origins'
      <4>1. HeldOnce' /\ HeldIdentified'
        BY <1>0, <2>1, <3>2, <3>3 DEF Origins, HeldOnce, HeldIdentified
      <4> QED  BY <2>5, <4>1 DEF Origins
    <3>7. ASSUME NEW b \in entries, NEW c, c.uid = b.uid, c.of = b.of, b.uid = uid, c.seen = seen
          PROVE  Truth(c)'
      <4> SUFFICES ASSUME c.of = server.validity, uid \notin unsure
                   PROVE  /\ uid \in server.there
                          /\ c.seen <=> uid \in server.seen
        BY <2>1, <3>7 DEF Truth
      <4>1. uid \in server.there \/ Moved(uid)
        BY <1>0, <3>7 DEF Truths, HeldTrue, Truth
      <4>2. ~Moved(uid)
        <5> SUFFICES ASSUME NEW m \in Logins, act[m].at = "stored", act[m].uid = uid, act[m].does = "move" PROVE FALSE
          BY DEF Moved
        <5>1. Midway(m, uid) /\ Midway(l, uid)
          BY <2>1, <2>2 DEF Midway
        <5>2. m = l
          BY <1>0, <5>1 DEF Writes, OneWriter
        <5> QED  BY <2>7, <5>2
      <4>3. act[l].does \in {"open", "seen", "unseen"}
        BY <1>t, <2>1, <2>7 DEF ActTypes, Deeds
      <4>4. /\ act[l].does \in {"open", "seen"} => (uid \in server.there => uid \in server.seen)
            /\ act[l].does = "unseen" => uid \notin server.seen
        BY <1>0, <2>1, <2>2 DEF Writes, WriteStands
      <4> QED  BY <3>1, <3>7, <4>1, <4>2, <4>3, <4>4
    <3>8. HeldTrue'
      <4> SUFFICES ASSUME NEW c \in entries' PROVE Truth(c)'
        BY DEF HeldTrue
      <4>1. PICK b \in entries : c.v = b.v /\ c.uid = b.uid /\ c.of = b.of /\ (IF b.uid = uid THEN c.seen = seen ELSE c = b)
        BY <3>3
      <4>2. CASE b.uid = uid
        BY <3>7, <4>1, <4>2
      <4>3. CASE b.uid # uid
        BY <1>0, <2>3, <3>4, <4>1, <4>3 DEF Truths, HeldTrue
      <4> QED  BY <4>2, <4>3
    <3>9. FetchedTrue'
      BY <2>4, <3>3, <3>4
    <3> QED  BY <2>5, <3>3, <3>4, <3>5, <3>6, <3>8, <3>9 DEF BodiesInv, Types, Truths
  <2> QED  BY <2>6, <2>7
<1>4. CASE ActFails(l)
  <2>1. /\ act[l].at # "idle" /\ act' = [act EXCEPT ![l] = IdleAct] /\ auto' = Over(l)
        /\ UNCHANGED <<server, known, entries, fetching, reading>>
        /\ unsure' = IF act[l].at = "stored" THEN unsure \cup {act[l].uid} ELSE unsure
    BY <1>4 DEF ActFails, cache
  <2>2. unsure' \subseteq UIDs /\ unsure \subseteq unsure'
    BY <1>t, <2>1 DEF ActTypes
  <2>3. /\ AutoTypes' /\ ActTypes' /\ Claims' /\ Writes'
        /\ act'[l].at = "idle" /\ \A m \in Logins \ {l} : act'[m] = act[m]
        /\ \A m \in Logins : auto'[m].at = auto[m].at /\ auto'[m].k = auto[m].k
    BY <1>o, <2>1, <2>2
  <2>4. TableTypes' /\ ServerTypes'
    BY <1>t, <2>1 DEF TableTypes, ServerTypes
  <2>5. \A b : Truth(b) => Truth(b)'
    <3> SUFFICES ASSUME NEW b, Truth(b) PROVE Truth(b)'
      OBVIOUS
    <3>1. b.uid \notin unsure' /\ Moved(b.uid) => Moved(b.uid)'
      BY <2>1, <2>3 DEF Moved
    <3>2. b.uid \notin unsure' => \A m \in Logins : Midway(m, b.uid) => Midway(m, b.uid)'
      BY <2>1, <2>3 DEF Midway
    <3> QED  BY <2>1, <2>2, <3>1, <3>2, TruthKept
  <2>6. Truths' /\ Origins' /\ EntryTypes' /\ PrefetchTypes'
    BY <1>0, <1>u, <2>1, <2>5, BodiesFrame
  <2> QED  BY <2>2, <2>3, <2>4, <2>6 DEF BodiesInv, Types
<1> QED  BY <1>1, <1>2, <1>3, <1>4

----------------------------------------------------------------------------
(* The folder, the account *)

\* Bodies, claims and reads due may go; no login does anything.
LEMMA CacheShrinks ==
    ASSUME BodiesInv, UNCHANGED <<prefetch, auto, act>>,
           ServerTypes', EntryTypes', TableTypes', HeldIdentified', Writes', unsure' \subseteq UIDs,
           server.validity <= server'.validity,
           entries' \subseteq entries,
           \A k \in Keys : fetching'[k] \in {None, fetching[k]},
           \A k \in Keys : reading'[k] \in {None, reading[k]},
           \A b \in entries' : Truth(b) => Truth(b)',
           \A m \in Logins : \A b \in prefetch[m].msgs : fetching'[<<b.v, b.uid>>] = m /\ Truth(b) => Truth(b)'
    PROVE  BodiesInv'
<1>0. Types /\ Claims /\ Origins /\ Writes /\ Truths
  BY DEF BodiesInv
<1>t. ServerTypes /\ EntryTypes /\ TableTypes /\ PrefetchTypes /\ AutoTypes /\ ActTypes
  BY <1>0 DEF Types
<1>1. PrefetchTypes' /\ AutoTypes' /\ ActTypes'
  BY <1>t DEF PrefetchTypes, AutoTypes, ActTypes
<1>2. ClaimsOwned' /\ DueOwned' /\ CalledOffStays'
  BY <1>0, ClaimsKept, CalledOffKept
<1>3. OneTurn'
  BY <1>0 DEF Claims, OneTurn
<1>4. server.validity \in Int /\ server'.validity \in Int
  BY <1>t DEF ServerTypes, Servers, Validities
<1>5. \A b \in Bodies : b.of \in Int
  BY DEF Bodies, Validities
<1>6. Fetched'
  <2> SUFFICES ASSUME NEW l \in Logins, NEW b \in prefetch[l].msgs PROVE b.v = b.of /\ b.of <= server'.validity
    BY DEF Fetched
  <2>1. b \in Bodies
    BY <1>t DEF PrefetchTypes, Prefetches
  <2>2. b.v = b.of /\ b.of <= server.validity
    BY <1>0 DEF Origins, Fetched
  <2> QED  BY <1>4, <1>5, <2>1, <2>2
<1>7. HeldOnce'
  <2> SUFFICES ASSUME NEW b \in entries' PROVE b.of <= server'.validity
    BY DEF HeldOnce
  <2>1. b \in entries /\ b \in Bodies
    BY <1>t DEF EntryTypes
  <2>2. b.of <= server.validity
    BY <1>0, <2>1 DEF Origins, HeldOnce
  <2> QED  BY <1>4, <1>5, <2>1, <2>2
<1>8. HeldTrue'
  BY <1>0 DEF Truths, HeldTrue
<1>9. FetchedTrue'
  <2> SUFFICES ASSUME NEW m \in Logins, NEW b \in prefetch[m].msgs, fetching'[<<b.v, b.uid>>] = m
               PROVE  Truth(b)'
    BY DEF FetchedTrue
  <2>1. b \in Bodies
    BY <1>t DEF PrefetchTypes, Prefetches
  <2>2. <<b.v, b.uid>> \in Keys
    BY <2>1 DEF Bodies, Keys
  <2>3. m # None
    BY BodiesAssumption DEF None
  <2>4. fetching[<<b.v, b.uid>>] = m
    BY <2>2, <2>3
  <2> QED  BY <1>0, <2>4 DEF Truths, FetchedTrue
<1> QED  BY <1>1, <1>2, <1>3, <1>6, <1>7, <1>8, <1>9 DEF BodiesInv, Types, Claims, Origins, Truths

LEMMA FolderKeeps ==
    ASSUME BodiesInv,
           \/ \E l \in Logins : Empty(l)
           \/ \E uid \in UIDs : Expired(uid)
           \/ \E v \in Validities : Identify(v)
           \/ Forget \/ Recreated \/ UNCHANGED vars
    PROVE  BodiesInv'
<1>0. Types /\ Claims /\ Origins /\ Writes /\ Truths
  BY DEF BodiesInv
<1>t. ServerTypes /\ EntryTypes /\ TableTypes /\ PrefetchTypes /\ AutoTypes /\ ActTypes /\ unsure \subseteq UIDs
  BY <1>0 DEF Types
<1>v. server.validity \in 1..MaxValidity /\ MaxValidity \in Nat /\ HeldIdentified
  BY <1>0, <1>t, BodiesAssumption DEF ServerTypes, Servers, Validities, Origins
<1>u. UNCHANGED <<prefetch, auto, act>>
  BY DEF Empty, Expired, Identify, Forget, Recreated, vars, cache
\* The folder itself is as it was.
<1>s. ASSUME UNCHANGED <<server, unsure>>
      PROVE  /\ Writes' /\ ServerTypes' /\ unsure' \subseteq UIDs /\ server.validity <= server'.validity
             /\ \A b : Truth(b) => Truth(b)'
  <2>1. Writes'
    BY <1>0, <1>u, <1>s, WritesFrame
  <2>2. \A b : Truth(b) => Truth(b)'
    BY <1>u, <1>s, TruthFrame
  <2>3. ServerTypes' /\ unsure' \subseteq UIDs /\ server.validity <= server'.validity
    BY <1>t, <1>v, <1>s DEF ServerTypes
  <2> QED  BY <2>1, <2>2, <2>3
\* Everything held is dropped.
<1>d. ASSUME NEW match, Drop(match), Keys \subseteq match, known' \in 0..MaxValidity
      PROVE  /\ entries' = {} /\ EntryTypes' /\ TableTypes' /\ HeldIdentified'
             /\ \A k \in Keys : fetching'[k] = None /\ reading'[k] = None
  <2>1. /\ entries' \subseteq entries
        /\ \A b \in entries' : <<b.v, b.uid>> \notin match
        /\ TableTypes'
        /\ \A k \in Keys : fetching'[k] = None \/ (k \notin match /\ fetching'[k] = fetching[k])
        /\ \A k \in Keys : reading'[k] = None \/ (k \notin match /\ reading'[k] = reading[k])
    BY <1>t, <1>d, DropLeaves
  <2>2. EntryTypes'
    BY <1>t, <1>d, <2>1, FewerHeld
  <2>3. entries' = {}
    <3> SUFFICES ASSUME NEW b \in entries' PROVE FALSE
      OBVIOUS
    <3>1. b \in Bodies
      BY <2>2 DEF EntryTypes
    <3>2. <<b.v, b.uid>> \in Keys
      BY <3>1 DEF Bodies, Keys
    <3> QED  BY <1>d, <2>1, <3>2
  <2> QED  BY <1>d, <2>1, <2>2, <2>3 DEF HeldIdentified
<1>1. CASE \E l \in Logins : Empty(l)
  <2>1. PICK l \in Logins : Empty(l)
    BY <1>1
  <2>2. PICK left : left \in {{}, server.there} /\ server' = [server EXCEPT !.there = left, !.seen = @ \cap left]
    BY <2>1 DEF Empty
  <2>3. PICK match : match = {k \in Keys : k[2] \in UIDs}
    OBVIOUS
  <2>4. Drop(match) /\ UNCHANGED <<known, unsure>>
    BY <2>1, <2>3 DEF Empty, Discard
  <2>5. Keys \subseteq match
    BY <2>3 DEF Keys
  <2>6. /\ entries' = {} /\ EntryTypes' /\ TableTypes' /\ HeldIdentified'
        /\ \A k \in Keys : fetching'[k] = None /\ reading'[k] = None
    <3>1. known' \in 0..MaxValidity
      BY <1>t, <2>4 DEF EntryTypes
    <3> QED  BY <1>d, <2>4, <2>5, <3>1
  <2>7. server'.validity = server.validity /\ server'.there = left /\ server'.seen = server.seen \cap left /\ server' \in Servers
    BY <1>t, <2>2 DEF ServerTypes, Servers
  <2>8. left \subseteq server.there
    BY <2>2
  <2>9. ServerTypes' /\ unsure' \subseteq UIDs /\ server.validity <= server'.validity
    BY <1>t, <1>v, <2>4, <2>7 DEF ServerTypes
  <2>10. OneWriter'
    BY <1>0, <1>u, <2>4 DEF Writes, OneWriter, Midway
  <2>11. WriteStands'
    <3>1. \A x : x \in server'.there => x \in server.there /\ (x \in server.seen => x \in server'.seen)
      BY <2>7, <2>8
    <3>2. \A x : x \in server'.seen => x \in server.seen
      BY <2>7
    <3> QED  BY <1>0, <1>u, <2>4, <3>1, <3>2 DEF Writes, WriteStands
  <2>12. ASSUME NEW m \in Logins, NEW b \in prefetch[m].msgs PROVE fetching'[<<b.v, b.uid>>] # m
    <3>1. b \in Bodies
      BY <1>t DEF PrefetchTypes, Prefetches
    <3>2. <<b.v, b.uid>> \in Keys
      BY <3>1 DEF Bodies, Keys
    <3>3. m # None
      BY BodiesAssumption DEF None
    <3> QED  BY <2>6, <3>2, <3>3
  <2> QED  BY <1>u, <2>6, <2>9, <2>10, <2>11, <2>12, CacheShrinks DEF Writes
<1>2. CASE \E uid \in UIDs : Expired(uid)
  <2>1. entries' \subseteq entries /\ UNCHANGED <<server, known, fetching, reading, unsure>>
    BY <1>2 DEF Expired
  <2>2. EntryTypes' /\ TableTypes' /\ HeldIdentified'
    <3>1. known' \in 0..MaxValidity
      BY <1>t, <2>1 DEF EntryTypes
    <3>2. EntryTypes'
      BY <1>t, <2>1, <3>1, FewerHeld
    <3> QED  BY <1>t, <1>v, <2>1, <3>2 DEF TableTypes, HeldIdentified
  <2> QED  BY <1>u, <1>s, <2>1, <2>2, CacheShrinks
<1>3. CASE \E v \in Validities : Identify(v)
  <2>1. PICK v \in Validities : Identify(v)
    BY <1>3
  <2>2. Observe(v) /\ UNCHANGED <<server, unsure>>
    BY <2>1 DEF Identify
  <2>3. v \in 0..MaxValidity
    BY <1>v DEF Validities
  <2>4. /\ entries' \subseteq entries
        /\ EntryTypes' /\ TableTypes' /\ HeldIdentified'
        /\ \A k \in Keys : fetching'[k] \in {None, fetching[k]}
        /\ \A k \in Keys : reading'[k] \in {None, reading[k]}
    BY <1>t, <1>v, <2>2, <2>3, ObserveLeaves
  <2> QED  BY <1>u, <1>s, <2>2, <2>4, CacheShrinks
<1>4. CASE Forget
  <2>1. PICK match : match = Keys
    OBVIOUS
  <2>2. Drop(match) /\ known' = 0 /\ UNCHANGED <<server, unsure>>
    BY <1>4, <2>1 DEF Forget
  <2>3. known' \in 0..MaxValidity
    BY <1>v, <2>2
  <2>4. /\ entries' = {} /\ EntryTypes' /\ TableTypes' /\ HeldIdentified'
        /\ \A k \in Keys : fetching'[k] = None /\ reading'[k] = None
    BY <1>d, <2>1, <2>2, <2>3
  <2> QED  BY <1>u, <1>s, <2>2, <2>4, CacheShrinks
<1>5. CASE Recreated
  <2>1. /\ server.validity < MaxValidity
        /\ server' = [validity |-> server.validity + 1, there |-> UIDs, seen |-> {}]
        /\ unsure' = {uid \in UIDs : \E l \in Logins : Midway(l, uid)}
        /\ UNCHANGED <<known, entries, fetching, reading>>
    BY <1>5 DEF Recreated, cache
  <2>2. server'.validity = server.validity + 1 /\ server'.there = UIDs /\ server'.seen = {}
    BY <2>1
  <2>3. server.validity + 1 \in Validities /\ server.validity <= server'.validity
    BY <1>v, <2>1, <2>2 DEF Validities
  <2>4. ServerTypes' /\ unsure' \subseteq UIDs
    BY <2>1, <2>2, <2>3 DEF ServerTypes, Servers
  <2>5. EntryTypes' /\ TableTypes' /\ HeldIdentified'
    BY <1>t, <1>v, <2>1 DEF EntryTypes, TableTypes, HeldIdentified
  \* Whoever is midway in a message is so in one that is unsure.
  <2>6. \A l \in Logins, uid \in UIDs : Midway(l, uid) => uid \in unsure'
    BY <2>1
  <2>7. OneWriter'
    BY <1>u, <2>6 DEF OneWriter, Midway
  <2>8. WriteStands'
    <3> SUFFICES ASSUME NEW l \in Logins
                 PROVE  /\ act[l].at = "stored" => act[l].uid \in unsure'
                        /\ auto[l].at = "stored" => auto[l].k[2] \in unsure'
      BY <1>u DEF WriteStands
    <3>1. act[l].at = "stored" => act[l].uid \in UIDs
      BY <1>t DEF ActTypes
    <3>2. auto[l].at = "stored" => auto[l].k[2] \in UIDs
      BY <1>t DEF AutoTypes, Keys
    <3> QED  BY <2>6, <3>1, <3>2 DEF Midway
  \* What was held or fetched is of the folder before.
  <2>9. \A b \in Bodies : b.of <= server.validity => b.of # server'.validity
    BY <1>v, <2>2 DEF Bodies, Validities
  <2>10. \A b \in entries' : Truth(b)'
    <3> SUFFICES ASSUME NEW b \in entries' PROVE Truth(b)'
      OBVIOUS
    <3>1. b \in Bodies /\ b.of <= server.validity
      BY <1>0, <1>t, <2>1 DEF EntryTypes, Origins, HeldOnce
    <3> QED  BY <2>9, <3>1 DEF Truth
  <2>11. \A m \in Logins : \A b \in prefetch[m].msgs : Truth(b)'
    <3> SUFFICES ASSUME NEW m \in Logins, NEW b \in prefetch[m].msgs PROVE Truth(b)'
      OBVIOUS
    <3>1. b \in Bodies
      BY <1>t DEF PrefetchTypes, Prefetches
    <3>2. b.of <= server.validity
      BY <1>0 DEF Origins, Fetched
    <3> QED  BY <2>9, <3>1, <3>2 DEF Truth
  <2> QED  BY <1>u, <2>1, <2>3, <2>4, <2>5, <2>7, <2>8, <2>10, <2>11, CacheShrinks DEF Writes
<1>6. CASE UNCHANGED vars
  <2>1. UNCHANGED <<server, known, entries, fetching, reading, unsure>>
    BY <1>6 DEF vars, cache
  <2>2. EntryTypes' /\ TableTypes' /\ HeldIdentified'
    BY <1>t, <1>v, <2>1 DEF EntryTypes, TableTypes, HeldIdentified
  <2> QED  BY <1>u, <1>s, <2>1, <2>2, CacheShrinks
<1> QED  BY <1>1, <1>2, <1>3, <1>4, <1>5, <1>6

LEMMA NextBodiesInv == BodiesInv /\ [Next]_vars => BodiesInv'
<1> SUFFICES ASSUME BodiesInv, [Next]_vars PROVE BodiesInv'
  OBVIOUS
<1> QED  BY PrefetchKeeps, AutoKeeps, ActKeeps, FolderKeeps DEF Next, Deeds

----------------------------------------------------------------------------
(* The theorems *)

LEMMA BodiesInvTypeOK == BodiesInv => TypeOK
<1> SUFFICES ASSUME BodiesInv PROVE TypeOK
  OBVIOUS
<1>0. ServerTypes /\ EntryTypes /\ TableTypes /\ ClaimsOwned /\ DueOwned
  BY DEF BodiesInv, Types, Claims
<1>1. \A k \in Keys : Cardinality(Of(k)) <= 1
  <2> TAKE k \in Keys
  <2>1. CASE Of(k) = {}
    BY <2>1, FS_EmptySet
  <2>2. CASE Of(k) # {}
    <3>1. PICK b \in Of(k) : TRUE
      BY <2>2
    <3>2. Of(k) = {b}
      BY <1>0, <3>1 DEF Of, EntryTypes
    <3>3. Cardinality(Of(k)) = 1
      BY <3>2, FS_Singleton
    <3> QED  BY <3>3
  <2> QED  BY <2>1, <2>2
<1>2. \A b \in entries : <<b.v, b.uid>> \in Keys /\ b.of \in Validities /\ b.seen \in BOOLEAN
  BY <1>0 DEF EntryTypes, Bodies, Keys
<1>3. server.validity \in Validities /\ server.seen \subseteq server.there /\ server.there \subseteq UIDs
  BY <1>0 DEF ServerTypes, Servers
<1>4. known \in 0..MaxValidity /\ Cardinality(entries) <= Keep
  BY <1>0 DEF EntryTypes
<1> QED  BY <1>0, <1>1, <1>2, <1>3, <1>4 DEF TypeOK, ClaimsOwned, DueOwned

\* The invariant the theorems follow from.
THEOREM BodiesAlways == Spec => []BodiesInv
<1>1. Init => BodiesInv
  BY InitBodiesInv
<1>2. BodiesInv /\ [Next]_vars => BodiesInv'
  BY NextBodiesInv
<1> QED  BY <1>1, <1>2, PTL DEF Spec

\* put keeps to bodyKeepPerUser and to one body of each message; a claim in
\* bc.fetching is of a prefetch that will release it, and an entry of bc.seen of
\* an automatic read that will end it, whatever dropped them in between.
THEOREM BodiesTypes == Spec => []TypeOK
<1>1. BodiesInv => TypeOK
  BY BodiesInvTypeOK
<1> QED  BY <1>1, BodiesAlways, PTL

\* What is held is of the folder as it was last identified: observe drops the
\* rest, and put compares the UIDVALIDITY the body was fetched under.
THEOREM BodiesIdentified == Spec => []HeldIdentified
<1>1. BodiesInv => HeldIdentified
  BY DEF BodiesInv, Origins
<1> QED  BY <1>1, BodiesAlways, PTL

\* A body held tells whether its message is read once the writes to it have been
\* told to the cache: flags withdraws the claims of prefetches that fetched before
\* the write, on whichever login's connection they run.
THEOREM BodiesTellTruth == Spec => []HeldTellsTruth
<1>1. BodiesInv => HeldTellsTruth
  <2> SUFFICES ASSUME BodiesInv, NEW b \in entries, b.of = server.validity, b.uid \notin unsure,
                      \A l \in Logins : ~Midway(l, b.uid)
               PROVE  b.uid \in server.there /\ (b.seen <=> b.uid \in server.seen)
    BY DEF HeldTellsTruth
  <2>1. Truth(b)
    BY DEF BodiesInv, Truths, HeldTrue
  <2>2. ~Moved(b.uid)
    BY DEF Moved, Midway
  <2> QED  BY <2>1, <2>2 DEF Truth
<1> QED  BY <1>1, BodiesAlways, PTL

\* An automatic read that an action of the same login called off never reaches
\* the server after that action: it finds bc.seen without it on its turn.
THEOREM ActionsStand == Spec => ActionStands
<1>1. BodiesInv => \A l \in Logins : auto[l].at = "checked" /\ auto'[l].at = "stored" => l \notin auto[l].over
  BY DEF BodiesInv, Claims, CalledOffStays
<1> QED  BY <1>1, BodiesAlways, PTL DEF ActionStands
===========================================================================
