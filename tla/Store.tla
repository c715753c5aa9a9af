------------------------------- MODULE Store -------------------------------
(***************************************************************************)
(* alborz's own calendars and address books (pim/store/store.go): one      *)
(* account's collections with their objects, the index of UIDs, the shares *)
(* with their index by guest, the public addresses, and the counter the    *)
(* ctags come from.  Every method of Store is one transaction and one      *)
(* step; a page reads a share in one and writes it in another              *)
(* (pim/share.go, pim/web/sharing.go), a feed is fetched between two       *)
(* (pim/calendar/subscriptions.go) and a DAV client reads a ctag before    *)
(* the objects, so those take more.                                        *)
(*                                                                         *)
(* An ETag is the data it names.  Every object has a UID; a fed one's is   *)
(* its name (UIDs that SafeObjectName runs together are left out).  The    *)
(* last day of a share, its right to write (who writes an object does not  *)
(* matter here), the sealing of the records and the telling of the         *)
(* watchers are left out; the keys are in AccountKeys, the Dropped records *)
(* in Subscriptions.                                                       *)
(*                                                                         *)
(* A definition whose name extends another's is the other with a plausible *)
(* mistake in it; no specification uses it.                                *)
(***************************************************************************)
EXTENDS Naturals, FiniteSets

CONSTANTS
    Refs,       \* the names of collections
    Fed,        \* those of calendars filled from the feed, of several accounts
    Shown,      \* those the owner shares and publishes
    Guests,     \* the accounts the owner may share with
    Names,      \* the names of objects, and their UIDs
    Data,       \* what an object may say
    Secrets,    \* the secrets of public addresses
    None,       \* no name, no data, no secret
    MaxCTag,    \* bound on the ctags given
    MaxVersion, \* bound on the versions of the feed
    MaxBusy     \* bound on the client, page, fetch and subscriber at work at once

ASSUME StoreAssumption ==
    /\ Fed \subseteq Refs /\ Shown \subseteq Refs
    /\ None \notin Names \cup Data \cup Secrets \cup Refs
    /\ MaxCTag \in Nat /\ MaxVersion \in Nat /\ MaxBusy \in Nat

VARIABLES
    last,        \* the ctag given last
    collection,  \* each collection's ctag, public secret and feed ETag; ctag 0 for none
    objects,     \* each collection's objects
    uids,        \* the name each UID is at
    share,       \* each guest's share
    received,    \* the index of shares by guest
    public,      \* the collection each secret leads to
    client,      \* a DAV client's copy of a collection
    page,        \* a page of the owner's that changes a share
    feed,        \* the feed's versions
    fetch,       \* feeds.refresh
    subscriber,  \* a page that subscribes, and fills the calendar it makes
    said,        \* shares the guest's yes stands for
    redone,      \* shares written as they were before the guest or the owner ended them
    stale        \* calendars given the ETag they had before another filled or made them

vars == <<last, collection, objects, uids, share, received, public,
          client, page, feed, fetch, subscriber, said, redone, stale>>

NoObject == [uid |-> None, data |-> None]
Objects == [uid : Names, data : Data] \cup {NoObject}
Empty == [n \in Names |-> NoObject]
Unindexed == [n \in Names |-> None]
NoCollection == [ctag |-> 0, secret |-> None, etag |-> 0]
NoShare == [there |-> FALSE, accepted |-> FALSE]

NoCopy == [at |-> "none", ref |-> None, ctag |-> 0, objects |-> Empty]
NoPage == [at |-> "idle", ref |-> None, guest |-> None, sh |-> NoShare, crossed |-> FALSE]
NoFetch == [at |-> "idle", fed |-> {}, crossed |-> {}, etag |-> 0, changed |-> FALSE]
NoSubscriber == [at |-> "idle", ref |-> None, etag |-> 0]

There(ref) == collection[ref].ctag # 0
Contents == [Names -> Objects]

Busy == Cardinality({who \in 1..4 : <<client.at # "none", page.at # "idle", fetch.at # "idle", subscriber.at # "idle">>[who]})

Init ==
    /\ last = 0
    /\ collection = [ref \in Refs |-> NoCollection]
    /\ objects = [ref \in Refs |-> Empty]
    /\ uids = [ref \in Refs |-> Unindexed]
    /\ share = [ref \in Refs |-> [g \in Guests |-> NoShare]]
    /\ received = {}
    /\ public = [s \in Secrets |-> None]
    /\ client = NoCopy /\ page = NoPage /\ fetch = NoFetch /\ subscriber = NoSubscriber
    /\ feed = [version |-> 0, content |-> [v \in 1..MaxVersion |-> Empty]]
    /\ said = {} /\ redone = {} /\ stale = {}

\* stamp and put: the collection as c, with a ctag no collection has had.
StampOfItsOwn(ref, c) ==
    /\ last < MaxCTag
    /\ last' = last + 1
    /\ collection' = [collection EXCEPT ![ref] = [c EXCEPT !.ctag = @ + 1]]

Stamp(ref, c) ==
    /\ last < MaxCTag
    /\ last' = last + 1
    /\ collection' = [collection EXCEPT ![ref] = [c EXCEPT !.ctag = last + 1]]

\* A fetch under way has read the calendar, which another fills or makes now.
CrossFetch(ref) ==
    fetch' = IF ref \in fetch.fed THEN [fetch EXCEPT !.crossed = @ \cup {ref}] ELSE fetch

\* The guest, or the owner, ends the share a page of the owner's has read.
CrossPage(Ended(_, _)) ==
    /\ said' = {p \in said : ~Ended(p[1], p[2])}
    /\ redone' = {p \in redone : ~Ended(p[1], p[2])}
    /\ page' = IF page.at = "read" /\ Ended(page.ref, page.guest) THEN [page EXCEPT !.crossed = TRUE] ELSE page

----------------------------------------------------------------------------
(* Collections *)

Create(ref) ==
    /\ ~There(ref)
    /\ Stamp(ref, NoCollection)
    /\ CrossFetch(ref)
    /\ UNCHANGED <<objects, uids, share, received, public, client, page, feed, subscriber, said, redone, stale>>

\* publish, of the secret given or of none: the one before leads nowhere.
publish(ref, secret) ==
    [s \in Secrets |-> IF s = secret THEN ref ELSE IF s = collection[ref].secret THEN None ELSE public[s]]

\* Update: another name or colour, published, or no longer.
Update(ref, secret) ==
    /\ There(ref)
    /\ secret = collection[ref].secret \/ secret = None \/ (secret \in Secrets /\ ref \in Shown /\ public[secret] = None)
    /\ Stamp(ref, [collection[ref] EXCEPT !.secret = secret])
    /\ public' = publish(ref, secret)
    /\ UNCHANGED <<objects, uids, share, received, client, page, feed, fetch, subscriber, said, redone, stale>>

\* Delete, with the objects, the index, the shares and the address.
Delete(ref) ==
    LET Of(r, g) == r = ref
    IN /\ There(ref)
       /\ collection' = [collection EXCEPT ![ref] = NoCollection]
       /\ objects' = [objects EXCEPT ![ref] = Empty]
       /\ uids' = [uids EXCEPT ![ref] = Unindexed]
       /\ share' = [share EXCEPT ![ref] = [g \in Guests |-> NoShare]]
       /\ received' = {p \in received : p[1] # ref}
       /\ public' = publish(ref, None)
       /\ CrossPage(Of)
       /\ stale' = stale \ {ref}
       /\ UNCHANGED <<last, client, feed, fetch, subscriber>>

----------------------------------------------------------------------------
(* Objects *)

\* writable: nobody writes in a fed calendar but its feed.
Writable(ref) == There(ref) /\ ref \notin Fed

\* PutObject refuses another UID at the name, and a UID another object has.
UIDConflictUnread(ref, n, uid) == objects[ref][n] # NoObject /\ objects[ref][n].uid # uid

UIDConflict(ref, n, uid) ==
    \/ objects[ref][n] # NoObject /\ objects[ref][n].uid # uid
    \/ /\ uids[ref][uid] \notin {n, None}
       /\ objects[ref][uids[ref][uid]].uid = uid

PutObject(ref, n, o) ==
    /\ Writable(ref)
    /\ ~UIDConflict(ref, n, o.uid)
    /\ objects' = [objects EXCEPT ![ref][n] = o]
    /\ uids' = [uids EXCEPT ![ref][o.uid] = n]
    /\ Stamp(ref, collection[ref])
    /\ UNCHANGED <<share, received, public, client, page, feed, fetch, subscriber, said, redone, stale>>

RemoveObject(ref, n) ==
    LET old == objects[ref][n]
    IN /\ Writable(ref) /\ old # NoObject
       /\ objects' = [objects EXCEPT ![ref][n] = NoObject]
       /\ uids' = [uids EXCEPT ![ref][old.uid] = None]
       /\ Stamp(ref, collection[ref])
       /\ UNCHANGED <<share, received, public, client, page, feed, fetch, subscriber, said, redone, stale>>

----------------------------------------------------------------------------
(* Shares *)

\* pim.Share and HandleAccess read the share, and say what it is to be: a yes
\* already given is kept.
ReadShare(ref, g) ==
    LET was == share[ref][g]
    IN /\ page.at = "idle" /\ Busy < MaxBusy /\ There(ref) /\ ref \in Shown
       /\ page' = [NoPage EXCEPT !.at = "read", !.ref = ref, !.guest = g,
                                 !.sh = [there |-> TRUE, accepted |-> was.accepted]]
       /\ UNCHANGED <<last, collection, objects, uids, share, received, public, client, feed, fetch, subscriber, said, redone, stale>>

\* PutShare
PutShare ==
    LET ref == page.ref
        g == page.guest
    IN /\ page.at = "read"
       /\ IF There(ref)
          THEN /\ share' = [share EXCEPT ![ref][g] = page.sh]
               /\ received' = received \cup {<<ref, g>>}
               /\ redone' = IF page.crossed THEN redone \cup {<<ref, g>>} ELSE redone
          ELSE UNCHANGED <<share, received, redone>>
       /\ page' = NoPage
       /\ UNCHANGED <<last, collection, objects, uids, public, client, feed, fetch, subscriber, said, stale>>

\* Answer: the guest's yes.
Accept(ref, g) ==
    /\ share[ref][g].there
    /\ share' = [share EXCEPT ![ref][g].accepted = TRUE]
    /\ said' = said \cup {<<ref, g>>}
    /\ UNCHANGED <<last, collection, objects, uids, received, public, client, page, feed, fetch, subscriber, redone, stale>>

\* Its no, before or after: the share stays, for the owner to see.
DeclineOffer(ref, g) ==
    LET Of(r, h) == r = ref /\ h = g
    IN /\ share[ref][g].there
       /\ CrossPage(Of)
       /\ UNCHANGED <<last, collection, objects, uids, share, received, public, client, feed, fetch, subscriber, stale>>

Decline(ref, g) ==
    LET Of(r, h) == r = ref /\ h = g
    IN /\ share[ref][g].there
       /\ share' = [share EXCEPT ![ref][g].accepted = FALSE]
       /\ CrossPage(Of)
       /\ UNCHANGED <<last, collection, objects, uids, received, public, client, feed, fetch, subscriber, stale>>

RemoveShare(ref, g) ==
    LET Of(r, h) == r = ref /\ h = g
    IN /\ share[ref][g].there
       /\ share' = [share EXCEPT ![ref][g] = NoShare]
       /\ received' = received \ {<<ref, g>>}
       /\ CrossPage(Of)
       /\ UNCHANGED <<last, collection, objects, uids, public, client, feed, fetch, subscriber, stale>>

----------------------------------------------------------------------------
(* Feeds *)

\* The publisher's next version, whose UIDs are its names.
FeedContents == {c \in Contents : \A n \in Names : c[n] # NoObject => c[n].uid = n}

NewVersion(content) ==
    /\ feed.version < MaxVersion
    /\ feed.version > 0 => content # feed.content[feed.version]
    /\ feed' = [version |-> feed.version + 1, content |-> [feed.content EXCEPT ![feed.version + 1] = content]]
    /\ UNCHANGED <<last, collection, objects, uids, share, received, public, client, page, fetch, subscriber, said, redone, stale>>

Indexed(content) == [n \in Names |-> IF content[n] = NoObject THEN None ELSE n]

\* replace compares the number of objects, and each one's ETag.
Differs(old, new) == old # new

\* Fill: the feed's ETag, and all its objects in one write, stamped if one changed.
Fill(ref, etag, content) ==
    IF Differs(objects[ref], content)
    THEN /\ Stamp(ref, [collection[ref] EXCEPT !.etag = etag])
         /\ objects' = [objects EXCEPT ![ref] = content]
         /\ uids' = [uids EXCEPT ![ref] = Indexed(content)]
    ELSE /\ collection' = [collection EXCEPT ![ref].etag = etag]
         /\ UNCHANGED <<last, objects, uids>>

\* refresh: the calendars of the feed, and the ETag if every one has the same.
ConditionOfNewest(fed) == CHOOSE e \in {collection[ref].etag : ref \in fed} : \A ref \in fed : collection[ref].etag <= e

Condition(fed) == IF \E e \in 0..MaxVersion : \A ref \in fed : collection[ref].etag = e
                  THEN CHOOSE e \in 0..MaxVersion : \A ref \in fed : collection[ref].etag = e
                  ELSE 0

Refresh ==
    LET fed == {ref \in Fed : There(ref)}
    IN /\ fetch.at = "idle" /\ Busy < MaxBusy /\ fed # {}
       /\ fetch' = [NoFetch EXCEPT !.at = "asked", !.fed = fed, !.etag = Condition(fed)]
       /\ UNCHANGED <<last, collection, objects, uids, share, received, public, client, page, feed, subscriber, said, redone, stale>>

\* fetchFeed: not modified, or the version as it is now.
Answered ==
    /\ fetch.at = "asked" /\ feed.version > 0
    /\ fetch' = [fetch EXCEPT !.at = "got", !.etag = feed.version, !.changed = fetch.etag # feed.version]
    /\ UNCHANGED <<last, collection, objects, uids, share, received, public, client, page, feed, subscriber, said, redone, stale>>

FetchFails ==
    /\ fetch.at # "idle"
    /\ fetch' = NoFetch
    /\ UNCHANGED <<last, collection, objects, uids, share, received, public, client, page, feed, subscriber, said, redone, stale>>

\* Each calendar in turn; one that is gone ends it.
FillFetched(ref) ==
    /\ fetch.at = "got" /\ ref \in fetch.fed
    /\ fetch' = IF There(ref) /\ fetch.fed # {ref} THEN [fetch EXCEPT !.fed = @ \ {ref}] ELSE NoFetch
    /\ IF ~There(ref)
       THEN UNCHANGED <<last, collection, objects, uids, stale>>
       ELSE IF fetch.changed
       THEN Fill(ref, fetch.etag, feed.content[fetch.etag]) /\ stale' = stale \ {ref}
       ELSE /\ collection' = [collection EXCEPT ![ref].etag = fetch.etag]
            /\ stale' = IF ref \in fetch.crossed THEN stale \cup {ref} ELSE stale
            /\ UNCHANGED <<last, objects, uids>>
    /\ UNCHANGED <<share, received, public, client, page, feed, subscriber, said, redone>>

\* handleSubscribe fetches the feed, has the calendar made, and fills it if it made it.
FetchToSubscribe(ref) ==
    /\ subscriber.at = "idle" /\ Busy < MaxBusy /\ ref \in Fed /\ ~There(ref) /\ feed.version > 0
    /\ subscriber' = [at |-> "fetched", ref |-> ref, etag |-> feed.version]
    /\ UNCHANGED <<last, collection, objects, uids, share, received, public, client, page, feed, fetch, said, redone, stale>>

MakeSubscribed ==
    LET ref == subscriber.ref
    IN /\ subscriber.at = "fetched"
       /\ IF There(ref)
          THEN subscriber' = NoSubscriber /\ UNCHANGED <<last, collection, fetch>>
          ELSE /\ Stamp(ref, NoCollection) /\ CrossFetch(ref)
               /\ subscriber' = [subscriber EXCEPT !.at = "made"]
       /\ UNCHANGED <<objects, uids, share, received, public, client, page, feed, said, redone, stale>>

FillSubscribed ==
    LET ref == subscriber.ref
    IN /\ subscriber.at = "made"
       /\ subscriber' = NoSubscriber
       /\ IF There(ref)
          THEN /\ Fill(ref, subscriber.etag, feed.content[subscriber.etag])
               /\ CrossFetch(ref) /\ stale' = stale \ {ref}
          ELSE UNCHANGED <<last, collection, objects, uids, fetch, stale>>
       /\ UNCHANGED <<share, received, public, client, page, feed, said, redone>>

----------------------------------------------------------------------------
(* A DAV client *)

ReadCTag(ref) ==
    /\ client.at # "none" \/ Busy < MaxBusy
    /\ There(ref)
    /\ client' = [NoCopy EXCEPT !.at = "asked", !.ref = ref, !.ctag = collection[ref].ctag]
    /\ UNCHANGED <<last, collection, objects, uids, share, received, public, page, feed, fetch, subscriber, said, redone, stale>>

ReadObjects ==
    /\ client.at = "asked"
    /\ client' = IF There(client.ref) THEN [client EXCEPT !.at = "held", !.objects = objects[client.ref]] ELSE NoCopy
    /\ UNCHANGED <<last, collection, objects, uids, share, received, public, page, feed, fetch, subscriber, said, redone, stale>>

----------------------------------------------------------------------------

Next ==
    \/ \E ref \in Refs :
        \/ Create(ref) \/ Delete(ref) \/ FillFetched(ref) \/ FetchToSubscribe(ref) \/ ReadCTag(ref)
        \/ \E secret \in Secrets \cup {None} : Update(ref, secret)
        \/ \E n \in Names :
            RemoveObject(ref, n) \/ \E o \in Objects \ {NoObject} : PutObject(ref, n, o)
        \/ \E g \in Guests :
            Accept(ref, g) \/ Decline(ref, g) \/ RemoveShare(ref, g) \/ ReadShare(ref, g)
    \/ \E content \in FeedContents : NewVersion(content)
    \/ PutShare \/ Refresh \/ Answered \/ FetchFails \/ MakeSubscribed \/ FillSubscribed \/ ReadObjects

Spec == Init /\ [][Next]_vars

----------------------------------------------------------------------------
(* Properties *)

\* A copy a DAV client took is what the collection holds for as long as the
\* collection has the ctag it was taken under, through fills, writes, and a
\* collection deleted and made again under its name (ctagKey: "so a name made
\* again cannot reuse ctags a client holds").
CTagTells ==
    client.at = "held" /\ collection[client.ref].ctag = client.ctag => objects[client.ref] = client.objects

\* Every object is found by its UID, so no two of a collection have the same
\* (PutObject: ErrUIDConflict, where "an index entry is believed only where its
\* object agrees").
UIDsIndexed ==
    \A ref \in Refs, n \in Names : objects[ref][n] # NoObject => uids[ref][objects[ref][n].uid] = n

\* A guest finds the shares there are, and no share or object is of a collection
\* that is gone, or that was made again since.
SharesListed ==
    \A ref \in Refs :
        /\ \A g \in Guests : share[ref][g].there <=> <<ref, g>> \in received
        /\ ~There(ref) => objects[ref] = Empty /\ share[ref] = [g \in Guests |-> NoShare]

\* A secret leads to the collection published under it and, once that is
\* published anew, taken back or deleted, nowhere (publish).
SecretsLead ==
    \A s \in Secrets, ref \in Refs : public[s] = ref <=> collection[ref].secret = s

\* What is kept to find a record by says what the records say.
IndexesAgree == UIDsIndexed /\ SharesListed /\ SecretsLead

\* A guest has access only by a yes of its own that no later no, revocation or
\* delete took back (pim.Share: "changing a share keeps a yes already given, and
\* sharing again after a no is a new invitation"), unless the page that changed
\* the share had read it before that.
AccessByConsent ==
    \A ref \in Refs, g \in Guests : share[ref][g].accepted => <<ref, g>> \in said \cup redone

\* A calendar that has the ETag of a version of its feed has that version's
\* objects, so that a 304 is right to leave them (refresh: "A condition holds
\* only for a copy every calendar has"), unless another filled or made it
\* between the question and the 304.
FedTruly ==
    \A ref \in Fed : collection[ref].etag # 0 /\ ref \notin stale => objects[ref] = feed.content[collection[ref].etag]
=============================================================================
