---------------------------- MODULE StoreProofs ----------------------------
(***************************************************************************)
(* Theorems about Store, for every set of collections, guests, names,      *)
(* data and secrets and every length of its histories; and about           *)
(* Subscriptions, the list of the feeds that are subscribed to.            *)
(***************************************************************************)
EXTENDS Store, Subscriptions, TLAPS

Collections == [ctag : Nat, secret : Secrets \cup {None}, etag : 0..MaxVersion]
Shares == [there : BOOLEAN, accepted : BOOLEAN]

\* The types of the store's records, and of the records of whoever is at work,
\* which has a collection.
StoreTypes ==
    /\ last \in Nat
    /\ collection \in [Refs -> Collections]
    /\ objects \in [Refs -> Contents]
    /\ uids \in [Refs -> [Names -> Names \cup {None}]]
    /\ share \in [Refs -> [Guests -> Shares]]
    /\ public \in [Secrets -> Refs \cup {None}]

ClientType ==
    /\ client \in [at : {"none", "asked", "held"}, ref : Refs \cup {None}, ctag : Nat, objects : Contents]
    /\ client.at # "none" => client.ref \in Refs

PageType ==
    /\ page \in [at : {"idle", "read"}, ref : Refs \cup {None}, guest : Guests \cup {None}, sh : Shares, crossed : BOOLEAN]
    /\ page.at = "read" => page.ref \in Refs /\ page.guest \in Guests

FeedType == feed \in [version : 0..MaxVersion, content : [1..MaxVersion -> FeedContents]]

FetchType ==
    fetch \in [at : {"idle", "asked", "got"}, fed : SUBSET Fed, crossed : SUBSET Refs, etag : 0..MaxVersion, changed : BOOLEAN]

SubscriberType ==
    /\ subscriber \in [at : {"idle", "fetched", "made"}, ref : Refs \cup {None}, etag : 0..MaxVersion]
    /\ subscriber.at # "idle" => subscriber.ref \in Fed

Types == StoreTypes /\ ClientType /\ PageType /\ FeedType /\ FetchType /\ SubscriberType

\* No ctag is ahead of the counter, a client's included, so the next one is
\* new to everybody; a client's names a collection that was there.
CTagsGiven ==
    /\ \A ref \in Refs : collection[ref].ctag <= last
    /\ client.ctag <= last
    /\ client.at # "none" => client.ctag # 0

\* Nothing is left of a collection that is gone.
GoneIsGone == \A ref \in Refs : ~There(ref) => collection[ref] = NoCollection

\* What is said is said of shares.
SaidOfShares == said \subseteq Refs \X Guests /\ redone \subseteq Refs \X Guests

\* What a page is to put is a share.
PagePuts == page.at = "read" => page.sh.there

\* A page that keeps a yes has read one that stands, unless it was crossed.
PageKeepsYes ==
    page.at = "read" /\ page.sh.accepted => <<page.ref, page.guest>> \in said \cup redone \/ page.crossed

\* No ETag is of a version the publisher has not made.
ETagsPublished ==
    /\ \A ref \in Refs : collection[ref].etag <= feed.version
    /\ fetch.etag <= feed.version
    /\ fetch.at = "got" => fetch.etag # 0
    /\ subscriber.at # "idle" => subscriber.etag # 0 /\ subscriber.etag <= feed.version

\* A question with a condition is asked, and answered with no change, for
\* calendars that still have the ETag it was asked with, unless crossed.
AskedOfAll ==
    \A ref \in fetch.fed \ fetch.crossed :
        There(ref) /\ ((fetch.at = "asked" /\ fetch.etag # 0) \/ (fetch.at = "got" /\ ~fetch.changed))
            => collection[ref].etag = fetch.etag

StoreInv ==
    /\ Types /\ CTagsGiven /\ CTagTells /\ GoneIsGone /\ IndexesAgree
    /\ SaidOfShares /\ PagePuts /\ PageKeepsYes /\ AccessByConsent /\ ETagsPublished /\ AskedOfAll /\ FedTruly

----------------------------------------------------------------------------
(* The operators *)

\* A record with one field changed, field by field.
LEMMA Changed ==
    ASSUME NEW c \in Collections, NEW n
    PROVE  /\ [c EXCEPT !.ctag = n] = [ctag |-> n, secret |-> c.secret, etag |-> c.etag]
           /\ [c EXCEPT !.secret = n] = [ctag |-> c.ctag, secret |-> n, etag |-> c.etag]
           /\ [c EXCEPT !.etag = n] = [ctag |-> c.ctag, secret |-> c.secret, etag |-> n]
BY DEF Collections

\* A stamped collection is as given, with a ctag above all before.
LEMMA StampDoes ==
    ASSUME Types, NEW ref \in Refs, NEW c \in Collections, Stamp(ref, c)
    PROVE  /\ last' = last + 1 /\ last' \in Nat
           /\ collection' \in [Refs -> Collections]
           /\ collection'[ref].ctag = last + 1
           /\ collection'[ref].secret = c.secret /\ collection'[ref].etag = c.etag
           /\ \A r \in Refs \ {ref} : collection'[r] = collection[r]
<1>1. PICK d \in Collections : /\ d = [c EXCEPT !.ctag = last + 1]
                             /\ d.ctag = last + 1 /\ d.secret = c.secret /\ d.etag = c.etag
  <2>1. [c EXCEPT !.ctag = last + 1] = [ctag |-> last + 1, secret |-> c.secret, etag |-> c.etag]
    BY Changed
  <2>2. last + 1 \in Nat
    BY DEF Types, StoreTypes
  <2> QED  BY <2>1, <2>2 DEF Collections
<1>2. collection' = [collection EXCEPT ![ref] = d] /\ last' = last + 1
  BY <1>1 DEF Stamp
<1> QED  BY <1>1, <1>2 DEF Types, StoreTypes

LEMMA EmptyTypes ==
    /\ NoObject \in Objects /\ Empty \in Contents /\ Empty \in FeedContents
    /\ Unindexed \in [Names -> Names \cup {None}]
    /\ NoCollection \in Collections /\ NoShare \in Shares
BY StoreAssumption DEF NoObject, Objects, Empty, Contents, FeedContents, Unindexed, NoCollection, Collections, NoShare, Shares

\* A filled calendar has the objects and the ETag it is filled with, and
\* another ctag if an object changed.
LEMMA FillDoes ==
    ASSUME Types, NEW ref \in Refs, NEW e \in 0..MaxVersion, NEW content \in Contents, Fill(ref, e, content)
    PROVE  /\ last' \in {last, last + 1} /\ last' \in Nat
           /\ collection' \in [Refs -> Collections]
           /\ objects' = [objects EXCEPT ![ref] = content]
           /\ objects' # objects => collection'[ref].ctag = last + 1 /\ last' = last + 1
           /\ objects' = objects => collection'[ref].ctag = collection[ref].ctag /\ last' = last
           /\ uids' = IF objects' = objects THEN uids ELSE [uids EXCEPT ![ref] = Indexed(content)]
           /\ collection'[ref].secret = collection[ref].secret /\ collection'[ref].etag = e
           /\ \A r \in Refs \ {ref} : collection'[r] = collection[r]
<1>1. PICK d \in Collections : /\ d = [collection[ref] EXCEPT !.etag = e] /\ d.etag = e
                             /\ d.ctag = collection[ref].ctag /\ d.secret = collection[ref].secret
  <2>1. collection[ref] \in Collections
    BY DEF Types, StoreTypes
  <2>2. [collection[ref] EXCEPT !.etag = e] = [ctag |-> collection[ref].ctag, secret |-> collection[ref].secret, etag |-> e]
    BY <2>1, Changed
  <2> QED  BY <2>1, <2>2 DEF Collections
<1>2. CASE objects[ref] # content
  <2>1. Stamp(ref, d) /\ objects' = [objects EXCEPT ![ref] = content]
        /\ uids' = [uids EXCEPT ![ref] = Indexed(content)]
    BY <1>1, <1>2 DEF Fill, Differs
  <2>2. objects' # objects
    BY <1>2, <2>1 DEF Types, StoreTypes
  <2> QED  BY <1>1, <2>1, <2>2, StampDoes
<1>3. CASE objects[ref] = content
  <2>1. collection' = [collection EXCEPT ![ref] = d] /\ UNCHANGED <<last, objects, uids>>
    BY <1>1, <1>3 DEF Fill, Differs
  <2> QED  BY <1>1, <1>3, <2>1 DEF Types, StoreTypes
<1> QED  BY <1>2, <1>3

LEMMA FillTypes ==
    ASSUME Types, NEW ref \in Refs, NEW e \in 0..MaxVersion, NEW content \in Contents, Fill(ref, e, content)
    PROVE  /\ last' \in Nat
           /\ collection' \in [Refs -> Collections]
           /\ objects' \in [Refs -> Contents]
           /\ uids' \in [Refs -> [Names -> Names \cup {None}]]
<1>1. Indexed(content) \in [Names -> Names \cup {None}]
  BY DEF Indexed
<1>2. uids' = uids \/ uids' = [uids EXCEPT ![ref] = Indexed(content)]
  BY FillDoes
<1>3. objects' = [objects EXCEPT ![ref] = content] /\ last' \in Nat /\ collection' \in [Refs -> Collections]
  BY FillDoes
<1> QED  BY <1>1, <1>2, <1>3 DEF Types, StoreTypes

\* A share with another answer.
LEMMA AnswerTypes ==
    ASSUME Types, NEW ref \in Refs, NEW g \in Guests, NEW yes \in BOOLEAN, share' = [share EXCEPT ![ref][g].accepted = yes]
    PROVE  /\ share' \in [Refs -> [Guests -> Shares]]
           /\ share'[ref][g].accepted = yes /\ share'[ref][g].there = share[ref][g].there
           /\ \A h \in Guests \ {g} : share'[ref][h] = share[ref][h]
           /\ \A r \in Refs \ {ref} : share'[r] = share[r]
<1>1. share \in [Refs -> [Guests -> Shares]] /\ share[ref][g] \in Shares
  BY DEF Types, StoreTypes
<1>2. PICK sh \in Shares : sh = [share[ref][g] EXCEPT !.accepted = yes] /\ sh.accepted = yes /\ sh.there = share[ref][g].there
  <2>1. [share[ref][g] EXCEPT !.accepted = yes] = [there |-> share[ref][g].there, accepted |-> yes]
    BY <1>1 DEF Shares
  <2> QED  BY <1>1, <2>1 DEF Shares
<1>3. share' = [share EXCEPT ![ref][g] = sh]
  BY <1>2
<1> QED  BY <1>1, <1>2, <1>3

\* The condition asked with is the ETag all the calendars have, or none.
LEMMA ConditionIs ==
    ASSUME Types, NEW fed \in SUBSET Fed
    PROVE  /\ Condition(fed) \in 0..MaxVersion
           /\ Condition(fed) # 0 => \A ref \in fed : collection[ref].etag = Condition(fed)
<1>1. 0 \in 0..MaxVersion
  BY StoreAssumption
<1>2. CASE \E e \in 0..MaxVersion : \A ref \in fed : collection[ref].etag = e
  BY <1>2 DEF Condition
<1>3. CASE ~\E e \in 0..MaxVersion : \A ref \in fed : collection[ref].etag = e
  BY <1>1, <1>3 DEF Condition
<1> QED  BY <1>2, <1>3
----------------------------------------------------------------------------
(* Types *)

LEMMA InitStoreInv == Init => StoreInv
<1> SUFFICES ASSUME Init PROVE StoreInv
  OBVIOUS
<1> USE StoreAssumption
<1>1. Types
  <2>1. client \in [at : {"none", "asked", "held"}, ref : Refs \cup {None}, ctag : Nat, objects : Contents] /\ client.at = "none"
    BY EmptyTypes DEF Init, NoCopy
  <2>2. page \in [at : {"idle", "read"}, ref : Refs \cup {None}, guest : Guests \cup {None}, sh : Shares, crossed : BOOLEAN] /\ page.at = "idle"
    BY EmptyTypes DEF Init, NoPage
  <2>3. feed \in [version : 0..MaxVersion, content : [1..MaxVersion -> FeedContents]]
    BY EmptyTypes DEF Init
  <2>4. fetch \in [at : {"idle", "asked", "got"}, fed : SUBSET Fed, crossed : SUBSET Refs, etag : 0..MaxVersion, changed : BOOLEAN]
    BY DEF Init, NoFetch
  <2>5. subscriber \in [at : {"idle", "fetched", "made"}, ref : Refs \cup {None}, etag : 0..MaxVersion] /\ subscriber.at = "idle"
    BY DEF Init, NoSubscriber
  <2> QED  BY <2>1, <2>2, <2>3, <2>4, <2>5, EmptyTypes DEF Init, Types, StoreTypes, ClientType, PageType, FeedType, FetchType, SubscriberType
<1>2. CTagsGiven /\ CTagTells /\ GoneIsGone /\ ETagsPublished
  BY DEF Init, CTagsGiven, CTagTells, GoneIsGone, ETagsPublished, NoCollection, NoCopy, NoFetch, NoSubscriber
<1>3. IndexesAgree
  BY DEF Init, IndexesAgree, UIDsIndexed, SharesListed, SecretsLead, NoCollection, Empty, NoShare
<1>4. SaidOfShares /\ PagePuts /\ PageKeepsYes /\ AccessByConsent /\ AskedOfAll /\ FedTruly
  BY DEF Init, SaidOfShares, PagePuts, PageKeepsYes, AccessByConsent, AskedOfAll, FedTruly, NoPage, NoFetch, NoShare, NoCollection
<1> QED  BY <1>1, <1>2, <1>3, <1>4 DEF StoreInv

\* The four at work, when a step leaves them alone.
LEMMA WorkFrame ==
    ASSUME Types
    PROVE  /\ UNCHANGED client => ClientType'
           /\ UNCHANGED page => PageType'
           /\ UNCHANGED feed => FeedType'
           /\ UNCHANGED fetch => FetchType'
           /\ UNCHANGED subscriber => SubscriberType'
BY DEF Types, ClientType, PageType, FeedType, FetchType, SubscriberType

LEMMA CrossTypes ==
    ASSUME Types
    PROVE  /\ \A ref \in Refs : CrossFetch(ref) => FetchType'
           /\ page' = [page EXCEPT !.crossed = TRUE] => PageType'
<1>1. ASSUME NEW ref \in Refs, CrossFetch(ref) PROVE FetchType'
  <2>1. FetchType
    BY DEF Types
  <2>2. CASE ref \in fetch.fed
    <3>1. fetch' = [fetch EXCEPT !.crossed = @ \cup {ref}]
      BY <1>1, <2>2 DEF CrossFetch
    <3> QED  BY <2>1, <3>1 DEF FetchType
  <2> QED  BY <1>1, <2>1, <2>2 DEF CrossFetch, FetchType
<1>2. ASSUME page' = [page EXCEPT !.crossed = TRUE] PROVE PageType'
  BY <1>2 DEF Types, PageType
<1> QED  BY <1>1, <1>2

LEMMA ContentType ==
    ASSUME Types, NEW v \in 0..MaxVersion, v # 0
    PROVE  feed.content[v] \in FeedContents /\ feed.content[v] \in Contents
<1>1. v \in 1..MaxVersion
  BY StoreAssumption
<1> QED  BY <1>1 DEF Types, FeedType, FeedContents

LEMMA NextTypes == StoreInv /\ [Next]_vars => Types'
<1> SUFFICES ASSUME StoreInv, [Next]_vars PROVE Types'
  OBVIOUS
<1> USE StoreAssumption
<1>t. Types /\ StoreTypes /\ ClientType /\ PageType /\ FeedType /\ FetchType /\ SubscriberType
  BY DEF StoreInv, Types
<1>1. ASSUME NEW ref \in Refs, Create(ref) PROVE Types'
  <2>1. StoreTypes'
    BY <1>1, <1>t, StampDoes, EmptyTypes DEF Create, StoreTypes
  <2> QED  BY <1>1, <1>t, <2>1, WorkFrame, CrossTypes DEF Create, Types
<1>2. ASSUME NEW ref \in Refs, Delete(ref) PROVE Types'
  <2>1. StoreTypes'
    BY <1>2, <1>t, EmptyTypes DEF Delete, CrossPage, StoreTypes, publish
  <2>2. PageType'
    BY <1>2, <1>t, WorkFrame, CrossTypes DEF Delete, CrossPage
  <2> QED  BY <1>2, <1>t, <2>1, <2>2, WorkFrame DEF Delete, CrossPage, Types
<1>3. ASSUME NEW ref \in Refs, FillFetched(ref) PROVE Types'
  <2>1. FetchType'
    <3>1. FetchType /\ fetch' \in {[fetch EXCEPT !.fed = @ \ {ref}], NoFetch}
      BY <1>3, <1>t DEF FillFetched
    <3>2. CASE fetch' = [fetch EXCEPT !.fed = @ \ {ref}]
      BY <3>1, <3>2 DEF FetchType
    <3>3. CASE fetch' = NoFetch
      BY <3>3 DEF FetchType, NoFetch
    <3> QED  BY <3>1, <3>2, <3>3
  <2>2. StoreTypes'
    <3>0. fetch.etag \in 0..MaxVersion /\ fetch.etag # 0
      BY <1>3, <1>t DEF FetchType, FillFetched, StoreInv, ETagsPublished
    <3>1. CASE UNCHANGED <<last, collection, objects, uids>>
      BY <1>3, <1>t, <3>1 DEF FillFetched, StoreTypes
    <3>2. CASE Fill(ref, fetch.etag, feed.content[fetch.etag])
      <4>1. feed.content[fetch.etag] \in Contents
        BY <1>t, <3>0, ContentType
      <4> QED  BY <1>3, <1>t, <3>0, <3>2, <4>1, FillTypes DEF FillFetched, StoreTypes
    <3>3. CASE collection' = [collection EXCEPT ![ref].etag = fetch.etag] /\ UNCHANGED <<last, objects, uids>>
      <4>1. [collection[ref] EXCEPT !.etag = fetch.etag] \in Collections
        <5>1. collection[ref] \in Collections
          BY <1>t DEF StoreTypes
        <5> QED  BY <3>0, <5>1, Changed DEF Collections
      <4> QED  BY <1>3, <1>t, <3>3, <4>1 DEF FillFetched, StoreTypes
    <3> QED  BY <1>3, <3>1, <3>2, <3>3 DEF FillFetched
  <2> QED  BY <1>3, <1>t, <2>1, <2>2, WorkFrame DEF FillFetched, Types
<1>4. ASSUME NEW ref \in Refs, FetchToSubscribe(ref) PROVE Types'
  <2>1. SubscriberType'
    BY <1>4, <1>t DEF FetchToSubscribe, SubscriberType, FeedType
  <2> QED  BY <1>4, <1>t, <2>1, WorkFrame DEF FetchToSubscribe, Types, StoreTypes
<1>5. ASSUME NEW ref \in Refs, ReadCTag(ref) PROVE Types'
  <2>1. ClientType'
    <3>1. collection[ref].ctag \in Nat /\ Empty \in Contents
      BY <1>t, EmptyTypes DEF StoreTypes, Collections
    <3> QED  BY <1>5, <3>1 DEF ReadCTag, ClientType, NoCopy
  <2> QED  BY <1>5, <1>t, <2>1, WorkFrame DEF ReadCTag, Types, StoreTypes
<1>6. ASSUME NEW ref \in Refs, NEW secret \in Secrets \cup {None}, Update(ref, secret) PROVE Types'
  <2>1. StoreTypes'
    <3>1. [collection[ref] EXCEPT !.secret = secret] \in Collections
      <4>1. collection[ref] \in Collections
        BY <1>t DEF StoreTypes
      <4> QED  BY <4>1, Changed DEF Collections
    <3>2. public' \in [Secrets -> Refs \cup {None}]
      BY <1>6, <1>t DEF Update, publish, StoreTypes
    <3> QED  BY <1>6, <1>t, <3>1, <3>2, StampDoes DEF Update, StoreTypes
  <2> QED  BY <1>6, <1>t, <2>1, WorkFrame DEF Update, Types
<1>7. ASSUME NEW ref \in Refs, NEW n \in Names, RemoveObject(ref, n) PROVE Types'
  <2>1. collection[ref] \in Collections /\ objects[ref][n].uid \in Names
    BY <1>7, <1>t DEF RemoveObject, StoreTypes, Contents, Objects
  <2>2. StoreTypes'
    BY <1>7, <1>t, <2>1, StampDoes, EmptyTypes DEF RemoveObject, StoreTypes, Contents
  <2> QED  BY <1>7, <1>t, <2>2, WorkFrame DEF RemoveObject, Types
<1>8. ASSUME NEW ref \in Refs, NEW n \in Names, NEW o \in Objects \ {NoObject}, PutObject(ref, n, o) PROVE Types'
  <2>1. collection[ref] \in Collections /\ o.uid \in Names
    BY <1>t DEF StoreTypes, Objects
  <2>2. StoreTypes'
    BY <1>8, <1>t, <2>1, StampDoes DEF PutObject, StoreTypes, Contents
  <2> QED  BY <1>8, <1>t, <2>2, WorkFrame DEF PutObject, Types
<1>9. ASSUME NEW ref \in Refs, NEW g \in Guests, Accept(ref, g) PROVE Types'
  <2>1. StoreTypes'
    BY <1>9, <1>t, AnswerTypes DEF Accept, StoreTypes
  <2> QED  BY <1>9, <1>t, <2>1, WorkFrame DEF Accept, Types
<1>10. ASSUME NEW ref \in Refs, NEW g \in Guests, Decline(ref, g) PROVE Types'
  <2>1. StoreTypes'
    BY <1>10, <1>t, AnswerTypes DEF Decline, CrossPage, StoreTypes
  <2>2. PageType'
    BY <1>10, <1>t, WorkFrame, CrossTypes DEF Decline, CrossPage
  <2> QED  BY <1>10, <1>t, <2>1, <2>2, WorkFrame DEF Decline, CrossPage, Types
<1>11. ASSUME NEW ref \in Refs, NEW g \in Guests, RemoveShare(ref, g) PROVE Types'
  <2>1. StoreTypes'
    BY <1>11, <1>t, EmptyTypes DEF RemoveShare, CrossPage, StoreTypes
  <2>2. PageType'
    BY <1>11, <1>t, WorkFrame, CrossTypes DEF RemoveShare, CrossPage
  <2> QED  BY <1>11, <1>t, <2>1, <2>2, WorkFrame DEF RemoveShare, CrossPage, Types
<1>12. ASSUME NEW ref \in Refs, NEW g \in Guests, ReadShare(ref, g) PROVE Types'
  <2>1. PageType'
    <3>1. [there |-> TRUE, accepted |-> share[ref][g].accepted] \in Shares
      BY <1>t DEF StoreTypes, Shares
    <3> QED  BY <1>12, <3>1 DEF ReadShare, PageType, NoPage
  <2> QED  BY <1>12, <1>t, <2>1, WorkFrame DEF ReadShare, Types, StoreTypes
<1>13. ASSUME NEW content \in FeedContents, NewVersion(content) PROVE Types'
  <2>1. FeedType'
    BY <1>13, <1>t DEF NewVersion, FeedType
  <2> QED  BY <1>13, <1>t, <2>1, WorkFrame DEF NewVersion, Types, StoreTypes
<1>14. CASE PutShare
  <2>1. PageType'
    BY <1>14, EmptyTypes DEF PutShare, PageType, NoPage
  <2>2. StoreTypes'
    <3>1. PICK ref \in Refs, g \in Guests, sh \in Shares : ref = page.ref /\ g = page.guest /\ sh = page.sh
      BY <1>14, <1>t DEF PutShare, PageType
    <3>2. share' = share \/ share' = [share EXCEPT ![ref][g] = sh]
      BY <1>14, <3>1 DEF PutShare
    <3>3. share' \in [Refs -> [Guests -> Shares]]
      <4>1. share \in [Refs -> [Guests -> Shares]]
        BY <1>t DEF StoreTypes
      <4>2. CASE share' = [share EXCEPT ![ref][g] = sh]
        BY <4>1, <4>2
      <4> QED  BY <3>2, <4>1, <4>2
    <3> QED  BY <1>14, <1>t, <3>3 DEF PutShare, StoreTypes
  <2> QED  BY <1>14, <1>t, <2>1, <2>2, WorkFrame DEF PutShare, Types
<1>15. CASE Refresh
  <2>1. FetchType'
    <3>1. Condition({ref \in Fed : There(ref)}) \in 0..MaxVersion
      BY <1>t, ConditionIs
    <3> QED  BY <1>15, <3>1 DEF Refresh, FetchType, NoFetch
  <2> QED  BY <1>15, <1>t, <2>1, WorkFrame DEF Refresh, Types, StoreTypes
<1>16. CASE Answered
  <2>1. FetchType'
    BY <1>16, <1>t DEF Answered, FetchType, FeedType
  <2> QED  BY <1>16, <1>t, <2>1, WorkFrame DEF Answered, Types, StoreTypes
<1>17. CASE FetchFails
  <2>1. FetchType'
    BY <1>17 DEF FetchFails, FetchType, NoFetch
  <2> QED  BY <1>17, <1>t, <2>1, WorkFrame DEF FetchFails, Types, StoreTypes
<1>18. CASE MakeSubscribed
  <2>1. subscriber.ref \in Refs
    BY <1>18, <1>t DEF MakeSubscribed, SubscriberType
  <2>2. SubscriberType'
    BY <1>18, <1>t DEF MakeSubscribed, SubscriberType, NoSubscriber
  <2>3. StoreTypes'
    BY <1>18, <1>t, <2>1, StampDoes, EmptyTypes DEF MakeSubscribed, StoreTypes
  <2>4. FetchType'
    BY <1>18, <1>t, <2>1, WorkFrame, CrossTypes DEF MakeSubscribed
  <2> QED  BY <1>18, <1>t, <2>2, <2>3, <2>4, WorkFrame DEF MakeSubscribed, Types
<1>19. CASE FillSubscribed
  <2>1. subscriber.ref \in Refs /\ subscriber.etag \in 0..MaxVersion /\ subscriber.etag # 0
    BY <1>19, <1>t DEF FillSubscribed, SubscriberType, StoreInv, ETagsPublished
  <2>2. SubscriberType'
    BY <1>19 DEF FillSubscribed, SubscriberType, NoSubscriber
  <2>3. StoreTypes'
    <3>1. feed.content[subscriber.etag] \in Contents
      BY <1>t, <2>1, ContentType
    <3>2. CASE There(subscriber.ref)
      BY <1>19, <1>t, <2>1, <3>1, <3>2, FillTypes DEF FillSubscribed, StoreTypes
    <3> QED  BY <1>19, <1>t, <3>2 DEF FillSubscribed, StoreTypes
  <2>4. FetchType'
    BY <1>19, <1>t, <2>1, WorkFrame, CrossTypes DEF FillSubscribed
  <2> QED  BY <1>19, <1>t, <2>2, <2>3, <2>4, WorkFrame DEF FillSubscribed, Types
<1>20. CASE ReadObjects
  <2>1. ClientType'
    <3>1. NoCopy \in [at : {"none", "asked", "held"}, ref : Refs \cup {None}, ctag : Nat, objects : Contents] /\ NoCopy.at = "none"
      BY EmptyTypes DEF NoCopy
    <3>2. client.ref \in Refs /\ objects[client.ref] \in Contents
      BY <1>20, <1>t DEF ReadObjects, ClientType, StoreTypes
    <3> QED  BY <1>20, <1>t, <3>1, <3>2 DEF ReadObjects, ClientType
  <2> QED  BY <1>20, <1>t, <2>1, WorkFrame DEF ReadObjects, Types, StoreTypes
<1>21. CASE UNCHANGED vars
  BY <1>21, <1>t, WorkFrame DEF vars, Types, StoreTypes
<1> QED
  BY <1>1, <1>2, <1>3, <1>4, <1>5, <1>6, <1>7, <1>8, <1>9, <1>10, <1>11, <1>12, <1>13, <1>14, <1>15, <1>16, <1>17, <1>18,
     <1>19, <1>20, <1>21 DEF Next

----------------------------------------------------------------------------
(* Ctags *)

\* Objects change only with a ctag nobody has had, or with the collection gone.
ObjectsKeepCTag ==
    /\ last' \in {last, last + 1}
    /\ \A r \in Refs :
        \/ collection'[r].ctag = 0
        \/ collection'[r].ctag = last + 1 /\ last' = last + 1
        \/ collection'[r].ctag = collection[r].ctag /\ objects'[r] = objects[r]

LEMMA StampKeeps ==
    ASSUME Types, NEW ref \in Refs, NEW c \in Collections, Stamp(ref, c), \A r \in Refs \ {ref} : objects'[r] = objects[r]
    PROVE  ObjectsKeepCTag
BY StampDoes DEF ObjectsKeepCTag

LEMMA FillKeeps ==
    ASSUME Types, NEW ref \in Refs, NEW e \in 0..MaxVersion, NEW content \in Contents, Fill(ref, e, content)
    PROVE  ObjectsKeepCTag
<1>1. \A r \in Refs \ {ref} : collection'[r] = collection[r] /\ objects'[r] = objects[r]
  BY FillDoes DEF Types, StoreTypes
<1>2. CASE objects' = objects
  BY <1>1, <1>2, FillDoes DEF ObjectsKeepCTag
<1>3. CASE objects' # objects
  BY <1>1, <1>3, FillDoes DEF ObjectsKeepCTag
<1> QED  BY <1>2, <1>3

LEMMA StepKeepsCTag == StoreInv /\ [Next]_vars => ObjectsKeepCTag
<1> SUFFICES ASSUME StoreInv, [Next]_vars PROVE ObjectsKeepCTag
  OBVIOUS
<1> USE StoreAssumption
<1>t. Types /\ StoreTypes /\ FetchType /\ SubscriberType /\ ETagsPublished
  BY DEF StoreInv, Types
<1>c. \A ref \in Refs : collection[ref] \in Collections
  BY <1>t DEF StoreTypes
<1>1. ASSUME NEW ref \in Refs, Create(ref) PROVE ObjectsKeepCTag
  BY <1>1, <1>t, StampKeeps, EmptyTypes DEF Create
<1>2. ASSUME NEW ref \in Refs, Delete(ref) PROVE ObjectsKeepCTag
  BY <1>2, <1>t DEF Delete, CrossPage, NoCollection, ObjectsKeepCTag, StoreTypes
<1>3. ASSUME NEW ref \in Refs, FillFetched(ref) PROVE ObjectsKeepCTag
  <2>1. CASE UNCHANGED <<last, collection, objects>>
    BY <2>1 DEF ObjectsKeepCTag
  <2>2. CASE Fill(ref, fetch.etag, feed.content[fetch.etag])
    <3>1. fetch.etag \in 0..MaxVersion /\ fetch.etag # 0
      BY <1>3, <1>t DEF FillFetched, FetchType, ETagsPublished
    <3> QED  BY <1>t, <2>2, <3>1, ContentType, FillKeeps
  <2>3. CASE collection' = [collection EXCEPT ![ref].etag = fetch.etag] /\ UNCHANGED <<last, objects>>
    <3>1. [collection[ref] EXCEPT !.etag = fetch.etag].ctag = collection[ref].ctag
      BY <1>c, Changed
    <3>2. \A r \in Refs : collection'[r].ctag = collection[r].ctag
      BY <1>t, <2>3, <3>1 DEF StoreTypes
    <3> QED  BY <2>3, <3>2 DEF ObjectsKeepCTag
  <2> QED  BY <1>3, <2>1, <2>2, <2>3 DEF FillFetched
<1>4. ASSUME NEW ref \in Refs, NEW secret \in Secrets \cup {None}, Update(ref, secret) PROVE ObjectsKeepCTag
  <2>1. [collection[ref] EXCEPT !.secret = secret] \in Collections
    BY <1>c, Changed DEF Collections
  <2> QED  BY <1>4, <1>t, <2>1, StampKeeps DEF Update
<1>5. ASSUME NEW ref \in Refs, NEW n \in Names, RemoveObject(ref, n) PROVE ObjectsKeepCTag
  BY <1>5, <1>t, <1>c, StampKeeps DEF RemoveObject, StoreTypes
<1>6. ASSUME NEW ref \in Refs, NEW n \in Names, NEW o \in Objects \ {NoObject}, PutObject(ref, n, o) PROVE ObjectsKeepCTag
  BY <1>6, <1>t, <1>c, StampKeeps DEF PutObject, StoreTypes
<1>7. CASE MakeSubscribed
  <2>1. subscriber.ref \in Refs
    BY <1>7, <1>t DEF MakeSubscribed, SubscriberType
  <2>2. CASE There(subscriber.ref)
    BY <1>7, <2>2 DEF MakeSubscribed, ObjectsKeepCTag
  <2>3. CASE ~There(subscriber.ref)
    BY <1>7, <1>t, <2>1, <2>3, StampKeeps, EmptyTypes DEF MakeSubscribed
  <2> QED  BY <2>2, <2>3
<1>8. CASE FillSubscribed
  <2>1. subscriber.ref \in Refs /\ subscriber.etag \in 0..MaxVersion /\ subscriber.etag # 0
    BY <1>8, <1>t DEF FillSubscribed, SubscriberType, ETagsPublished
  <2>2. CASE There(subscriber.ref)
    BY <1>8, <1>t, <2>1, <2>2, ContentType, FillKeeps DEF FillSubscribed
  <2>3. CASE ~There(subscriber.ref)
    BY <1>8, <2>3 DEF FillSubscribed, ObjectsKeepCTag
  <2> QED  BY <2>2, <2>3
<1>9. CASE UNCHANGED <<last, collection, objects>>
  BY <1>9 DEF ObjectsKeepCTag
<1>10. ASSUME NEW ref \in Refs, FetchToSubscribe(ref) \/ ReadCTag(ref) PROVE ObjectsKeepCTag
  BY <1>9, <1>10 DEF FetchToSubscribe, ReadCTag
<1>11. ASSUME NEW ref \in Refs, NEW g \in Guests, Accept(ref, g) \/ Decline(ref, g) \/ RemoveShare(ref, g) \/ ReadShare(ref, g)
       PROVE  ObjectsKeepCTag
  BY <1>9, <1>11 DEF Accept, Decline, RemoveShare, ReadShare, CrossPage
<1>12. ASSUME NEW content \in FeedContents, NewVersion(content) PROVE ObjectsKeepCTag
  BY <1>9, <1>12 DEF NewVersion
<1>13. CASE PutShare \/ Refresh \/ Answered \/ FetchFails \/ ReadObjects \/ UNCHANGED vars
  BY <1>9, <1>13 DEF PutShare, Refresh, Answered, FetchFails, ReadObjects, vars
<1> QED
  BY <1>1, <1>2, <1>3, <1>4, <1>5, <1>6, <1>7, <1>8, <1>10, <1>11, <1>12, <1>13 DEF Next

\* Only the client's own two steps change its copy.
LEMMA ClientSteps ==
    [Next]_vars => UNCHANGED client \/ (\E ref \in Refs : ReadCTag(ref)) \/ ReadObjects
<1>1. ASSUME NEW ref \in Refs, Create(ref) \/ Delete(ref) \/ FillFetched(ref) \/ FetchToSubscribe(ref) PROVE UNCHANGED client
  BY <1>1 DEF Create, Delete, FillFetched, FetchToSubscribe, CrossPage
<1>2. ASSUME NEW ref \in Refs, NEW s, Update(ref, s) PROVE UNCHANGED client
  BY <1>2 DEF Update
<1>3. ASSUME NEW ref \in Refs, NEW n, RemoveObject(ref, n) \/ \E o \in Objects \ {NoObject} : PutObject(ref, n, o)
      PROVE  UNCHANGED client
  BY <1>3 DEF RemoveObject, PutObject
<1>4. ASSUME NEW ref \in Refs, NEW g, Accept(ref, g) \/ Decline(ref, g) \/ RemoveShare(ref, g) \/ ReadShare(ref, g)
      PROVE  UNCHANGED client
  BY <1>4 DEF Accept, Decline, RemoveShare, ReadShare, CrossPage
<1>5. ASSUME NEW c, NewVersion(c) PROVE UNCHANGED client
  BY <1>5 DEF NewVersion
<1>6. ASSUME PutShare \/ Refresh \/ Answered \/ FetchFails \/ MakeSubscribed \/ FillSubscribed \/ UNCHANGED vars PROVE UNCHANGED client
  BY <1>6 DEF PutShare, Refresh, Answered, FetchFails, MakeSubscribed, FillSubscribed, vars
<1> QED  BY <1>1, <1>2, <1>3, <1>4, <1>5, <1>6 DEF Next

LEMMA NextCTags == StoreInv /\ [Next]_vars => CTagsGiven' /\ CTagTells'
<1> SUFFICES ASSUME StoreInv, [Next]_vars PROVE CTagsGiven' /\ CTagTells'
  OBVIOUS
<1>t. /\ last \in Nat /\ last' \in Nat /\ ClientType /\ CTagsGiven /\ CTagTells
      /\ \A r \in Refs : collection[r].ctag \in Nat /\ collection'[r].ctag \in Nat
  BY NextTypes DEF StoreInv, Types, StoreTypes, Collections
<1>k. ObjectsKeepCTag
  BY StepKeepsCTag
<1>g. \A r \in Refs : collection'[r].ctag <= last'
  BY <1>t, <1>k DEF ObjectsKeepCTag, CTagsGiven
<1>1. CASE UNCHANGED client
  <2>1. client.ctag \in Nat /\ client.ctag <= last /\ (client.at # "none" => client.ctag # 0 /\ client.ref \in Refs)
    BY <1>t DEF CTagsGiven, ClientType
  <2>2. CTagsGiven'
    BY <1>t, <1>k, <1>g, <1>1, <2>1 DEF CTagsGiven, ObjectsKeepCTag
  <2>3. ASSUME client.at = "held", collection'[client.ref].ctag = client.ctag PROVE objects'[client.ref] = client.objects
    <3>1. client.ref \in Refs /\ client.ctag # 0 /\ client.ctag # last + 1
      BY <1>t, <2>1, <2>3
    <3>2. collection'[client.ref].ctag = collection[client.ref].ctag /\ objects'[client.ref] = objects[client.ref]
      BY <1>k, <2>3, <3>1 DEF ObjectsKeepCTag
    <3> QED  BY <1>t, <2>3, <3>2 DEF CTagTells
  <2> QED  BY <1>1, <2>2, <2>3 DEF CTagTells
<1>2. ASSUME NEW ref \in Refs, ReadCTag(ref) PROVE CTagsGiven' /\ CTagTells'
  <2>1. /\ client'.at = "asked" /\ client'.ctag = collection[ref].ctag /\ collection[ref].ctag # 0
        /\ UNCHANGED <<last, collection>>
    BY <1>2 DEF ReadCTag, NoCopy, There
  <2> QED  BY <1>t, <1>g, <2>1 DEF CTagsGiven, CTagTells
<1>3. CASE ReadObjects
  <2>1. UNCHANGED <<last, collection, objects>>
    BY <1>3 DEF ReadObjects
  <2>2. CASE client' = [client EXCEPT !.at = "held", !.objects = objects[client.ref]]
    <3>1. client'.ctag = client.ctag /\ client'.ref = client.ref /\ client'.objects = objects[client.ref] /\ client.at # "none"
      BY <1>3, <1>t, <2>2 DEF ClientType, ReadObjects
    <3> QED  BY <1>t, <1>g, <2>1, <3>1 DEF CTagsGiven, CTagTells
  <2>3. CASE client' = NoCopy
    <3>1. client'.at = "none" /\ client'.ctag = 0
      BY <2>3 DEF NoCopy
    <3> QED  BY <1>t, <1>g, <3>1 DEF CTagsGiven, CTagTells
  <2> QED  BY <1>3, <2>2, <2>3 DEF ReadObjects
<1> QED  BY <1>1, <1>2, <1>3, ClientSteps

----------------------------------------------------------------------------
(* The indexes *)

\* A collection that is stamped, or left as it is, leaves nothing of one gone.
LEMMA GoneFrame ==
    ASSUME GoneIsGone, SharesListed, UNCHANGED <<share, received>>,
           \A r \in Refs : There(r)' \/ (collection'[r] = collection[r] /\ objects'[r] = objects[r])
    PROVE  GoneIsGone' /\ SharesListed'
BY DEF GoneIsGone, SharesListed, There

LEMMA SecretsFrame ==
    ASSUME SecretsLead, UNCHANGED public, \A r \in Refs : collection'[r].secret = collection[r].secret
    PROVE  SecretsLead'
BY DEF SecretsLead

LEMMA StampThere ==
    ASSUME Types, NEW ref \in Refs, NEW c \in Collections, Stamp(ref, c)
    PROVE  There(ref)' /\ \A r \in Refs \ {ref} : collection'[r] = collection[r]
<1>1. last + 1 # 0
  BY DEF Types, StoreTypes
<1> QED  BY <1>1, StampDoes DEF There

\* A fill keeps the indexes, a feed's UIDs being its names.
LEMMA FillIndexes ==
    ASSUME Types, GoneIsGone, IndexesAgree, NEW ref \in Refs, NEW e \in 0..MaxVersion, NEW content \in FeedContents,
           Fill(ref, e, content), There(ref), UNCHANGED <<share, received, public>>
    PROVE  GoneIsGone' /\ IndexesAgree'
<1>0. content \in Contents
  BY DEF FeedContents
<1>1. \A r \in Refs \ {ref} : collection'[r] = collection[r] /\ objects'[r] = objects[r]
  BY <1>0, FillDoes DEF Types, StoreTypes
<1>2. There(ref)'
  <2>1. last + 1 # 0
    BY DEF Types, StoreTypes
  <2> QED  BY <1>0, <2>1, FillDoes DEF There
<1>3. GoneIsGone' /\ SharesListed'
  BY <1>1, <1>2, GoneFrame DEF IndexesAgree
<1>4. SecretsLead'
  BY <1>0, <1>1, FillDoes, SecretsFrame DEF IndexesAgree
<1>5. UIDsIndexed'
  <2>1. CASE objects' = objects
    BY <1>0, <2>1, FillDoes DEF IndexesAgree, UIDsIndexed
  <2>2. CASE objects' # objects
    <3>1. objects' = [objects EXCEPT ![ref] = content] /\ uids' = [uids EXCEPT ![ref] = Indexed(content)]
      BY <1>0, <2>2, FillDoes
    <3>2. \A r \in Refs \ {ref} : objects'[r] = objects[r] /\ uids'[r] = uids[r]
      BY <3>1 DEF Types, StoreTypes
    <3>3. objects'[ref] = content /\ uids'[ref] = Indexed(content)
      BY <3>1 DEF Types, StoreTypes
    <3>4. \A n \in Names : content[n] # NoObject => content[n].uid = n /\ Indexed(content)[n] = n
      BY DEF FeedContents, Indexed
    <3> QED  BY <3>2, <3>3, <3>4 DEF IndexesAgree, UIDsIndexed
  <2> QED  BY <2>1, <2>2
<1> QED  BY <1>3, <1>4, <1>5 DEF IndexesAgree

LEMMA NextIndexes == StoreInv /\ [Next]_vars => GoneIsGone' /\ IndexesAgree'
<1> DEFINE Agree == GoneIsGone /\ IndexesAgree
<1> SUFFICES ASSUME StoreInv, [Next]_vars PROVE Agree'
  OBVIOUS
<1> USE StoreAssumption
<1>t. /\ Types /\ StoreTypes /\ PageType /\ FetchType /\ SubscriberType /\ ETagsPublished
      /\ Agree /\ GoneIsGone /\ UIDsIndexed /\ SharesListed /\ SecretsLead
  BY DEF StoreInv, Types, IndexesAgree
<1>c. \A ref \in Refs : collection[ref] \in Collections
  BY <1>t DEF StoreTypes
<1>p. Agree' <=> GoneIsGone' /\ UIDsIndexed' /\ SharesListed' /\ SecretsLead'
  BY DEF IndexesAgree
<1> HIDE DEF Agree
<1>1. ASSUME NEW ref \in Refs, Create(ref) PROVE Agree'
  <2>1. \A r \in Refs : There(r)' \/ (collection'[r] = collection[r] /\ objects'[r] = objects[r])
    BY <1>1, <1>t, StampThere, EmptyTypes DEF Create
  <2>2. \A r \in Refs : collection'[r].secret = collection[r].secret
    BY <1>1, <1>t, StampDoes, EmptyTypes DEF Create, GoneIsGone
  <2>3. UIDsIndexed'
    BY <1>1, <1>t DEF Create, UIDsIndexed
  <2> QED  BY <1>1, <1>t, <1>p, <2>1, <2>2, <2>3, GoneFrame, SecretsFrame DEF Create
<1>2. ASSUME NEW ref \in Refs, Delete(ref) PROVE Agree'
  <2>1. /\ collection' = [collection EXCEPT ![ref] = NoCollection] /\ objects' = [objects EXCEPT ![ref] = Empty]
        /\ uids' = [uids EXCEPT ![ref] = Unindexed] /\ share' = [share EXCEPT ![ref] = [g \in Guests |-> NoShare]]
        /\ received' = {p \in received : p[1] # ref} /\ public' = publish(ref, None)
    BY <1>2 DEF Delete, CrossPage
  <2>2. GoneIsGone'
    BY <1>t, <2>1 DEF GoneIsGone, There, StoreTypes
  <2>3. UIDsIndexed'
    BY <1>t, <2>1 DEF UIDsIndexed, StoreTypes, Empty
  <2>4. SharesListed'
    BY <1>t, <2>1 DEF SharesListed, There, StoreTypes, NoShare
  <2>5. SecretsLead'
    <3>1. \A s \in Secrets : public'[s] = IF s = collection[ref].secret THEN None ELSE public[s]
      BY <2>1 DEF publish
    <3>2. \A r \in Refs : collection'[r].secret = IF r = ref THEN None ELSE collection[r].secret
      BY <1>t, <2>1 DEF StoreTypes, NoCollection
    <3> QED  BY <1>t, <3>1, <3>2 DEF SecretsLead
  <2> QED  BY <1>p, <2>2, <2>3, <2>4, <2>5
<1>3. ASSUME NEW ref \in Refs, FillFetched(ref) PROVE Agree'
  <2>0. UNCHANGED <<share, received, public>>
    BY <1>3 DEF FillFetched
  <2>1. CASE ~There(ref)
    BY <1>3, <1>t, <1>p, <2>1 DEF FillFetched, GoneIsGone, UIDsIndexed, SharesListed, SecretsLead, There
  <2>2. CASE There(ref) /\ fetch.changed
    <3>1. fetch.etag \in 0..MaxVersion /\ fetch.etag # 0
      BY <1>3, <1>t DEF FillFetched, FetchType, ETagsPublished
    <3>2. Fill(ref, fetch.etag, feed.content[fetch.etag])
      BY <1>3, <2>2 DEF FillFetched
    <3> QED  BY <1>t, <2>0, <2>2, <3>1, <3>2, ContentType, FillIndexes DEF IndexesAgree, Agree
  <2>3. CASE There(ref) /\ ~fetch.changed
    <3>1. collection' = [collection EXCEPT ![ref] = [collection[ref] EXCEPT !.etag = fetch.etag]] /\ UNCHANGED <<objects, uids>>
      BY <1>3, <2>3 DEF FillFetched
    <3>2. /\ [collection[ref] EXCEPT !.etag = fetch.etag].ctag = collection[ref].ctag
          /\ [collection[ref] EXCEPT !.etag = fetch.etag].secret = collection[ref].secret
      BY <1>c, Changed
    <3>3. /\ collection'[ref].ctag = collection[ref].ctag /\ collection'[ref].secret = collection[ref].secret
          /\ \A r \in Refs \ {ref} : collection'[r] = collection[r]
      BY <1>t, <3>1, <3>2 DEF StoreTypes
    <3>4. GoneIsGone' /\ SharesListed'
      BY <1>t, <2>0, <2>3, <3>1, <3>3, GoneFrame DEF There
    <3>5. SecretsLead'
      BY <1>t, <2>0, <3>3, SecretsFrame
    <3>6. UIDsIndexed'
      BY <1>t, <3>1 DEF UIDsIndexed
    <3> QED  BY <1>p, <3>4, <3>5, <3>6
  <2> QED  BY <2>1, <2>2, <2>3
<1>4. ASSUME NEW ref \in Refs, NEW secret \in Secrets \cup {None}, Update(ref, secret) PROVE Agree'
  <2>0. PICK d \in Collections : d = [collection[ref] EXCEPT !.secret = secret] /\ d.secret = secret
    <3>1. [collection[ref] EXCEPT !.secret = secret] = [ctag |-> collection[ref].ctag, secret |-> secret, etag |-> collection[ref].etag]
      BY <1>c, Changed
    <3>2. [ctag |-> collection[ref].ctag, secret |-> secret, etag |-> collection[ref].etag] \in Collections
      BY <1>c DEF Collections
    <3> QED  BY <3>1, <3>2
  <2>1. Stamp(ref, d) /\ UNCHANGED objects
    BY <1>4, <2>0 DEF Update
  <2>2. \A r \in Refs : There(r)' \/ (collection'[r] = collection[r] /\ objects'[r] = objects[r])
    BY <1>t, <2>1, StampThere
  <2>3. \A r \in Refs : collection'[r].secret = IF r = ref THEN secret ELSE collection[r].secret
    <3>1. collection'[ref].secret = d.secret /\ \A r \in Refs \ {ref} : collection'[r] = collection[r]
      BY <1>t, <2>1, StampDoes
    <3> QED  BY <2>0, <3>1
  <2>4. \A s \in Secrets : public'[s] = IF s = secret THEN ref ELSE IF s = collection[ref].secret THEN None ELSE public[s]
    BY <1>4 DEF Update, publish
  <2>5. secret = collection[ref].secret \/ secret = None \/ (secret \in Secrets /\ public[secret] = None)
    BY <1>4 DEF Update
  <2>6. SecretsLead'
    BY <1>t, <2>3, <2>4, <2>5 DEF SecretsLead
  <2>7. GoneIsGone' /\ SharesListed'
    BY <1>4, <1>t, <2>2, GoneFrame DEF Update
  <2>8. UIDsIndexed'
    BY <1>4, <1>t DEF Update, UIDsIndexed
  <2> QED  BY <1>p, <2>6, <2>7, <2>8
<1>5. ASSUME NEW ref \in Refs, NEW n \in Names, RemoveObject(ref, n) PROVE Agree'
  <2>0. UNCHANGED <<share, received, public>> /\ Stamp(ref, collection[ref])
    BY <1>5 DEF RemoveObject
  <2>1. There(ref)' /\ collection'[ref].secret = collection[ref].secret /\ \A r \in Refs \ {ref} : collection'[r] = collection[r]
    BY <1>c, <1>t, <2>0, StampThere, StampDoes
  <2>2. /\ \A r \in Refs \ {ref} : objects'[r] = objects[r] /\ uids'[r] = uids[r]
        /\ objects'[ref] = [objects[ref] EXCEPT ![n] = NoObject]
        /\ uids'[ref] = [uids[ref] EXCEPT ![objects[ref][n].uid] = None]
        /\ objects[ref][n] # NoObject
    BY <1>5, <1>t DEF RemoveObject, StoreTypes
  <2>3. GoneIsGone' /\ SharesListed'
    BY <1>t, <2>0, <2>1, <2>2, GoneFrame
  <2>4. SecretsLead'
    BY <1>t, <2>0, <2>1, SecretsFrame
  <2>5. UIDsIndexed'
    <3>1. objects[ref] \in [Names -> Objects] /\ uids[ref] \in [Names -> Names \cup {None}]
      BY <1>t DEF StoreTypes, Contents
    <3>2. \A m \in Names : objects[ref][m] # NoObject => objects[ref][m].uid \in Names /\ uids[ref][objects[ref][m].uid] = m
      BY <1>t, <3>1 DEF UIDsIndexed, Objects
    <3>3. \A m \in Names : objects'[ref][m] # NoObject => uids'[ref][objects'[ref][m].uid] = m
      BY <2>2, <3>1, <3>2
    <3>6. ASSUME NEW r \in Refs, NEW m \in Names, objects'[r][m] # NoObject PROVE uids'[r][objects'[r][m].uid] = m
      <4>1. CASE r = ref
        BY <3>3, <3>6, <4>1
      <4>2. CASE r # ref
        BY <1>t, <2>2, <3>6, <4>2 DEF UIDsIndexed
      <4> QED  BY <4>1, <4>2
    <3> QED  BY <3>6 DEF UIDsIndexed
  <2> QED  BY <1>p, <2>3, <2>4, <2>5
<1>6. ASSUME NEW ref \in Refs, NEW n \in Names, NEW o \in Objects \ {NoObject}, PutObject(ref, n, o) PROVE Agree'
  <2>0. UNCHANGED <<share, received, public>> /\ Stamp(ref, collection[ref])
    BY <1>6 DEF PutObject
  <2>1. There(ref)' /\ collection'[ref].secret = collection[ref].secret /\ \A r \in Refs \ {ref} : collection'[r] = collection[r]
    BY <1>c, <1>t, <2>0, StampThere, StampDoes
  <2>2. /\ \A r \in Refs \ {ref} : objects'[r] = objects[r] /\ uids'[r] = uids[r]
        /\ objects'[ref] = [objects[ref] EXCEPT ![n] = o]
        /\ uids'[ref] = [uids[ref] EXCEPT ![o.uid] = n]
    BY <1>6, <1>t DEF PutObject, StoreTypes
  <2>3. GoneIsGone' /\ SharesListed'
    BY <1>t, <2>0, <2>1, <2>2, GoneFrame
  <2>4. SecretsLead'
    BY <1>t, <2>0, <2>1, SecretsFrame
  <2>5. UIDsIndexed'
    <3>1. objects[ref] \in [Names -> Objects] /\ uids[ref] \in [Names -> Names \cup {None}] /\ o.uid \in Names
      BY <1>t DEF StoreTypes, Contents, Objects
    <3>2. \A m \in Names : objects[ref][m] # NoObject => objects[ref][m].uid \in Names /\ uids[ref][objects[ref][m].uid] = m
      BY <1>t, <3>1 DEF UIDsIndexed, Objects
    <3>3. /\ objects[ref][n] # NoObject => objects[ref][n].uid = o.uid
          /\ uids[ref][o.uid] \in {n, None} \/ objects[ref][uids[ref][o.uid]].uid # o.uid
      BY <1>6 DEF PutObject, UIDConflict
    <3>4. \A m \in Names \ {n} : objects[ref][m] # NoObject => objects[ref][m].uid # o.uid
      BY <3>2, <3>3
    <3>5. \A m \in Names : objects'[ref][m] # NoObject => uids'[ref][objects'[ref][m].uid] = m
      BY <2>2, <3>1, <3>2, <3>4
    <3>6. ASSUME NEW r \in Refs, NEW m \in Names, objects'[r][m] # NoObject PROVE uids'[r][objects'[r][m].uid] = m
      <4>1. CASE r = ref
        BY <3>5, <3>6, <4>1
      <4>2. CASE r # ref
        BY <1>t, <2>2, <3>6, <4>2 DEF UIDsIndexed
      <4> QED  BY <4>1, <4>2
    <3> QED  BY <3>6 DEF UIDsIndexed
  <2> QED  BY <1>p, <2>3, <2>4, <2>5
<1>7. CASE MakeSubscribed
  <2>1. subscriber.ref \in Refs
    BY <1>7, <1>t DEF MakeSubscribed, SubscriberType
  <2>2. CASE There(subscriber.ref)
    BY <1>7, <1>t, <1>p, <2>2 DEF MakeSubscribed, GoneIsGone, UIDsIndexed, SharesListed, SecretsLead, There
  <2>3. CASE ~There(subscriber.ref)
    <3>1. \A r \in Refs : There(r)' \/ (collection'[r] = collection[r] /\ objects'[r] = objects[r])
      BY <1>7, <1>t, <2>1, <2>3, StampThere, EmptyTypes DEF MakeSubscribed
    <3>2. \A r \in Refs : collection'[r].secret = collection[r].secret
      BY <1>7, <1>t, <2>1, <2>3, StampDoes, EmptyTypes DEF MakeSubscribed, GoneIsGone
    <3>3. UIDsIndexed'
      BY <1>7, <1>t DEF MakeSubscribed, UIDsIndexed
    <3> QED  BY <1>7, <1>t, <1>p, <3>1, <3>2, <3>3, GoneFrame, SecretsFrame DEF MakeSubscribed
  <2> QED  BY <2>2, <2>3
<1>8. CASE FillSubscribed
  <2>1. subscriber.ref \in Refs /\ subscriber.etag \in 0..MaxVersion /\ subscriber.etag # 0
    BY <1>8, <1>t DEF FillSubscribed, SubscriberType, ETagsPublished
  <2>2. CASE There(subscriber.ref)
    <3>1. Fill(subscriber.ref, subscriber.etag, feed.content[subscriber.etag]) /\ UNCHANGED <<share, received, public>>
      BY <1>8, <2>2 DEF FillSubscribed
    <3> QED  BY <1>t, <2>1, <2>2, <3>1, ContentType, FillIndexes DEF IndexesAgree, Agree
  <2>3. CASE ~There(subscriber.ref)
    BY <1>8, <1>t, <1>p, <2>3 DEF FillSubscribed, GoneIsGone, UIDsIndexed, SharesListed, SecretsLead, There
  <2> QED  BY <2>2, <2>3
<1>9. CASE UNCHANGED <<collection, objects, uids, share, received, public>>
  BY <1>9, <1>t, <1>p DEF GoneIsGone, UIDsIndexed, SharesListed, SecretsLead, There
<1>10. CASE UNCHANGED <<collection, objects, uids, public>> /\ SharesListed'
  BY <1>10, <1>t, <1>p DEF GoneIsGone, UIDsIndexed, SecretsLead, There
<1>11. ASSUME NEW ref \in Refs, NEW g \in Guests, Accept(ref, g) \/ Decline(ref, g) PROVE Agree'
  <2>1. UNCHANGED <<collection, objects, uids, public, received>> /\ share[ref][g].there
    BY <1>11 DEF Accept, Decline, CrossPage
  <2>2. /\ share'[ref][g].there = share[ref][g].there
        /\ \A h \in Guests \ {g} : share'[ref][h] = share[ref][h]
        /\ \A r \in Refs \ {ref} : share'[r] = share[r]
    BY <1>11, <1>t, AnswerTypes DEF Accept, Decline, CrossPage
  <2>3. There(ref)
    BY <1>t, <2>1 DEF SharesListed, NoShare
  <2>4. \A x \in Refs, h \in Guests : share'[x][h].there = share[x][h].there
    BY <2>2
  <2>5. \A x \in Refs : ~There(x) => share'[x] = share[x]
    BY <2>2, <2>3
  <2>6. SharesListed'
    BY <1>t, <2>1, <2>4, <2>5 DEF SharesListed, There
  <2> QED  BY <1>10, <2>1, <2>6
<1>12. ASSUME NEW ref \in Refs, NEW g \in Guests, RemoveShare(ref, g) PROVE Agree'
  <2>1. /\ UNCHANGED <<collection, objects, uids, public>> /\ share[ref][g].there
        /\ received' = received \ {<<ref, g>>} /\ share' = [share EXCEPT ![ref][g] = NoShare]
    BY <1>12 DEF RemoveShare, CrossPage
  <2>2. /\ ~share'[ref][g].there
        /\ \A h \in Guests \ {g} : share'[ref][h] = share[ref][h]
        /\ \A r \in Refs \ {ref} : share'[r] = share[r]
    BY <1>t, <2>1 DEF StoreTypes, NoShare
  <2>3. There(ref)
    BY <1>t, <2>1 DEF SharesListed, NoShare
  <2>4. SharesListed'
    BY <1>t, <2>1, <2>2, <2>3 DEF SharesListed, There
  <2> QED  BY <1>10, <2>1, <2>4
<1>13. CASE PutShare
  <2>1. PICK ref \in Refs, g \in Guests, sh \in Shares : ref = page.ref /\ g = page.guest /\ sh = page.sh
    BY <1>13, <1>t DEF PutShare, PageType
  <2>2. CASE ~There(ref)
    BY <1>9, <1>13, <2>1, <2>2 DEF PutShare
  <2>3. CASE There(ref)
    <3>1. /\ UNCHANGED <<collection, objects, uids, public>>
          /\ received' = received \cup {<<ref, g>>} /\ share' = [share EXCEPT ![ref][g] = sh]
      BY <1>13, <2>1, <2>3 DEF PutShare
    <3>2. /\ share'[ref][g] = sh
          /\ \A h \in Guests \ {g} : share'[ref][h] = share[ref][h]
          /\ \A r \in Refs \ {ref} : share'[r] = share[r]
      BY <1>t, <3>1 DEF StoreTypes
    <3>3. sh.there
      BY <1>13, <2>1 DEF StoreInv, PutShare, PagePuts
    <3>4. SharesListed'
      BY <1>t, <2>3, <3>1, <3>2, <3>3 DEF SharesListed, There
    <3> QED  BY <1>10, <3>1, <3>4
  <2> QED  BY <2>2, <2>3
<1>14. ASSUME NEW ref \in Refs, FetchToSubscribe(ref) \/ ReadCTag(ref) \/ \E g \in Guests : ReadShare(ref, g) PROVE Agree'
  BY <1>9, <1>14 DEF FetchToSubscribe, ReadCTag, ReadShare
<1>15. ASSUME NEW content \in FeedContents, NewVersion(content) PROVE Agree'
  BY <1>9, <1>15 DEF NewVersion
<1>16. CASE Refresh \/ Answered \/ FetchFails \/ ReadObjects \/ UNCHANGED vars
  BY <1>9, <1>16 DEF Refresh, Answered, FetchFails, ReadObjects, vars
<1> QED
  BY <1>1, <1>2, <1>3, <1>4, <1>5, <1>6, <1>7, <1>8, <1>11, <1>12, <1>13, <1>14, <1>15, <1>16 DEF Next

----------------------------------------------------------------------------
(* Consent *)

\* Ended shares lose their yes together with the word that stands for it, and
\* a page that has read one is marked.
LEMMA NextConsent == StoreInv /\ [Next]_vars => PagePuts' /\ PageKeepsYes' /\ AccessByConsent'
<1> DEFINE Consent == PagePuts /\ PageKeepsYes /\ AccessByConsent
<1> SUFFICES ASSUME StoreInv, [Next]_vars PROVE Consent'
  OBVIOUS
<1>t. Types /\ StoreTypes /\ PageType /\ PagePuts /\ PageKeepsYes /\ AccessByConsent
  BY DEF StoreInv, Types
<1>p. Consent' <=> PagePuts' /\ PageKeepsYes' /\ AccessByConsent'
  OBVIOUS
<1> HIDE DEF Consent
<1>1. CASE UNCHANGED <<share, page, said, redone>>
  BY <1>1, <1>t, <1>p DEF PagePuts, PageKeepsYes, AccessByConsent
<1>2. ASSUME NEW ref \in Refs,
             Create(ref) \/ FillFetched(ref) \/ FetchToSubscribe(ref) \/ ReadCTag(ref)
                \/ \E secret \in Secrets \cup {None} : Update(ref, secret)
      PROVE  Consent'
  BY <1>1, <1>2 DEF Create, FillFetched, FetchToSubscribe, ReadCTag, Update
<1>3. ASSUME NEW ref \in Refs, NEW n \in Names, RemoveObject(ref, n) \/ \E o \in Objects \ {NoObject} : PutObject(ref, n, o)
      PROVE  Consent'
  BY <1>1, <1>3 DEF RemoveObject, PutObject
<1>4. ASSUME NEW content \in FeedContents, NewVersion(content) PROVE Consent'
  BY <1>1, <1>4 DEF NewVersion
<1>5. CASE Refresh \/ Answered \/ FetchFails \/ MakeSubscribed \/ FillSubscribed \/ ReadObjects \/ UNCHANGED vars
  BY <1>1, <1>5 DEF Refresh, Answered, FetchFails, MakeSubscribed, FillSubscribed, ReadObjects, vars
<1>6. ASSUME NEW ref \in Refs, NEW g \in Guests, Accept(ref, g) PROVE Consent'
  <2>1. said' = said \cup {<<ref, g>>} /\ UNCHANGED <<page, redone>>
    BY <1>6 DEF Accept
  <2>2. /\ \A h \in Guests \ {g} : share'[ref][h] = share[ref][h]
        /\ \A r \in Refs \ {ref} : share'[r] = share[r]
    BY <1>6, <1>t, AnswerTypes DEF Accept
  <2> QED  BY <1>t, <1>p, <2>1, <2>2 DEF PagePuts, PageKeepsYes, AccessByConsent
<1>7. ASSUME NEW ref \in Refs, NEW g \in Guests, ReadShare(ref, g) PROVE Consent'
  <2>1. /\ page'.at = "read" /\ page'.ref = ref /\ page'.guest = g /\ page'.sh.there
        /\ page'.sh.accepted = share[ref][g].accepted /\ UNCHANGED <<share, said, redone>>
    BY <1>7 DEF ReadShare, NoPage
  <2> QED  BY <1>t, <1>p, <2>1 DEF PagePuts, PageKeepsYes, AccessByConsent
<1>8. CASE PutShare
  <2>1. PICK ref \in Refs, g \in Guests, sh \in Shares : ref = page.ref /\ g = page.guest /\ sh = page.sh /\ page.at = "read"
    BY <1>8, <1>t DEF PutShare, PageType
  <2>2. page'.at = "idle" /\ UNCHANGED said
    BY <1>8 DEF PutShare, NoPage
  <2>3. CASE ~There(ref)
    BY <1>8, <1>t, <1>p, <2>1, <2>2, <2>3 DEF PutShare, PagePuts, PageKeepsYes, AccessByConsent
  <2>4. CASE There(ref)
    <3>1. /\ share' = [share EXCEPT ![ref][g] = sh]
          /\ redone' = IF page.crossed THEN redone \cup {<<ref, g>>} ELSE redone
      BY <1>8, <2>1, <2>4 DEF PutShare
    <3>2. /\ share'[ref][g] = sh
          /\ \A h \in Guests \ {g} : share'[ref][h] = share[ref][h]
          /\ \A r \in Refs \ {ref} : share'[r] = share[r]
      BY <1>t, <3>1 DEF StoreTypes
    <3>3. sh.accepted => <<ref, g>> \in said \cup redone'
      BY <1>t, <2>1, <3>1 DEF PageKeepsYes
    <3>4. redone \subseteq redone'
      BY <3>1
    <3>5. AccessByConsent'
      BY <1>t, <2>2, <3>2, <3>3, <3>4 DEF AccessByConsent
    <3> QED  BY <1>p, <2>2, <3>5 DEF PagePuts, PageKeepsYes
  <2> QED  BY <2>3, <2>4
<1>9. ASSUME NEW E, E \subseteq Refs \X Guests,
             said' = said \ E, redone' = redone \ E,
             \/ UNCHANGED page /\ (page.at = "read" => <<page.ref, page.guest>> \notin E)
             \/ page' = [page EXCEPT !.crossed = TRUE],
             \A r \in Refs, h \in Guests : share'[r][h].accepted => share[r][h].accepted /\ <<r, h>> \notin E
      PROVE  Consent'
  <2>1. AccessByConsent'
    BY <1>9, <1>t DEF AccessByConsent
  <2>2. CASE UNCHANGED page /\ (page.at = "read" => <<page.ref, page.guest>> \notin E)
    BY <1>9, <1>t, <1>p, <2>1, <2>2 DEF PagePuts, PageKeepsYes
  <2>3. CASE page' = [page EXCEPT !.crossed = TRUE]
    <3>1. page'.at = page.at /\ page'.sh = page.sh /\ page'.crossed
      BY <1>t, <2>3 DEF PageType
    <3> QED  BY <1>t, <1>p, <2>1, <3>1 DEF PagePuts, PageKeepsYes
  <2> QED  BY <1>9, <2>2, <2>3
<1>10. ASSUME NEW ref \in Refs, NEW g \in Guests, Decline(ref, g) \/ RemoveShare(ref, g) PROVE Consent'
  <2>1. /\ said' = {p \in said : ~(p[1] = ref /\ p[2] = g)} /\ redone' = {p \in redone : ~(p[1] = ref /\ p[2] = g)}
        /\ page' = IF page.at = "read" /\ page.ref = ref /\ page.guest = g THEN [page EXCEPT !.crossed = TRUE] ELSE page
    BY <1>10 DEF Decline, RemoveShare, CrossPage
  <2>2. ~share'[ref][g].accepted
    <3>1. CASE Decline(ref, g)
      BY <1>t, <3>1, AnswerTypes DEF Decline, CrossPage
    <3>2. CASE RemoveShare(ref, g)
      <4>1. share' = [share EXCEPT ![ref][g] = NoShare] /\ share \in [Refs -> [Guests -> Shares]]
        BY <1>t, <3>2 DEF RemoveShare, CrossPage, StoreTypes
      <4>2. share'[ref][g] = NoShare
        BY <4>1
      <4> QED  BY <4>2 DEF NoShare
    <3> QED  BY <1>10, <3>1, <3>2
  <2>3. /\ \A h \in Guests \ {g} : share'[ref][h] = share[ref][h]
        /\ \A r \in Refs \ {ref} : share'[r] = share[r]
    BY <1>10, <1>t, AnswerTypes DEF Decline, RemoveShare, CrossPage, StoreTypes
  <2>4. said \subseteq Refs \X Guests /\ redone \subseteq Refs \X Guests
    BY DEF StoreInv, SaidOfShares
  <2>5. said' = said \ {<<ref, g>>} /\ redone' = redone \ {<<ref, g>>}
    BY <2>1, <2>4
  <2>6. \A r \in Refs, h \in Guests : share'[r][h].accepted => share[r][h].accepted /\ <<r, h>> \notin {<<ref, g>>}
    BY <2>2, <2>3
  <2>7. /\ {<<ref, g>>} \subseteq Refs \X Guests
        /\ \/ UNCHANGED page /\ (page.at = "read" => <<page.ref, page.guest>> \notin {<<ref, g>>})
           \/ page' = [page EXCEPT !.crossed = TRUE]
    BY <2>1
  <2> QED  BY <1>9, <2>5, <2>6, <2>7
<1>11. ASSUME NEW ref \in Refs, Delete(ref) PROVE Consent'
  <2>1. /\ said' = {p \in said : ~(p[1] = ref)} /\ redone' = {p \in redone : ~(p[1] = ref)}
        /\ page' = IF page.at = "read" /\ page.ref = ref THEN [page EXCEPT !.crossed = TRUE] ELSE page
        /\ share' = [share EXCEPT ![ref] = [g \in Guests |-> NoShare]]
    BY <1>11 DEF Delete, CrossPage
  <2>2. said \subseteq Refs \X Guests /\ redone \subseteq Refs \X Guests
    BY DEF StoreInv, SaidOfShares
  <2>3. said' = said \ ({ref} \X Guests) /\ redone' = redone \ ({ref} \X Guests)
    BY <2>1, <2>2
  <2>4. \A r \in Refs, h \in Guests : share'[r][h].accepted => share[r][h].accepted /\ <<r, h>> \notin {ref} \X Guests
    BY <1>t, <2>1 DEF StoreTypes, NoShare
  <2>5. {ref} \X Guests \subseteq Refs \X Guests
    OBVIOUS
  <2> QED  BY <1>9, <2>1, <2>3, <2>4, <2>5
<1> QED
  BY <1>2, <1>3, <1>4, <1>5, <1>6, <1>7, <1>8, <1>10, <1>11 DEF Next

LEMMA NextSaid == StoreInv /\ [Next]_vars => SaidOfShares'
<1> SUFFICES ASSUME StoreInv, [Next]_vars PROVE SaidOfShares'
  OBVIOUS
<1>t. PageType /\ SaidOfShares
  BY DEF StoreInv, Types
<1>1. CASE said' \subseteq said /\ redone' \subseteq redone
  BY <1>1, <1>t DEF SaidOfShares
<1>2. ASSUME NEW ref \in Refs,
             Create(ref) \/ Delete(ref) \/ FillFetched(ref) \/ FetchToSubscribe(ref) \/ ReadCTag(ref)
                \/ \E secret \in Secrets \cup {None} : Update(ref, secret)
      PROVE  SaidOfShares'
  BY <1>1, <1>2 DEF Create, Delete, CrossPage, FillFetched, FetchToSubscribe, ReadCTag, Update
<1>3. ASSUME NEW ref \in Refs, NEW n \in Names, RemoveObject(ref, n) \/ \E o \in Objects \ {NoObject} : PutObject(ref, n, o)
      PROVE  SaidOfShares'
  BY <1>1, <1>3 DEF RemoveObject, PutObject
<1>4. ASSUME NEW ref \in Refs, NEW g \in Guests, Decline(ref, g) \/ RemoveShare(ref, g) \/ ReadShare(ref, g) PROVE SaidOfShares'
  BY <1>1, <1>4 DEF Decline, RemoveShare, ReadShare, CrossPage
<1>5. ASSUME NEW ref \in Refs, NEW g \in Guests, Accept(ref, g) PROVE SaidOfShares'
  BY <1>5, <1>t DEF Accept, SaidOfShares
<1>6. CASE PutShare
  BY <1>6, <1>t DEF PutShare, PageType, SaidOfShares
<1>7. ASSUME NEW content \in FeedContents, NewVersion(content) PROVE SaidOfShares'
  BY <1>1, <1>7 DEF NewVersion
<1>8. CASE Refresh \/ Answered \/ FetchFails \/ MakeSubscribed \/ FillSubscribed \/ ReadObjects \/ UNCHANGED vars
  BY <1>1, <1>8 DEF Refresh, Answered, FetchFails, MakeSubscribed, FillSubscribed, ReadObjects, vars
<1> QED  BY <1>2, <1>3, <1>4, <1>5, <1>6, <1>7, <1>8 DEF Next

----------------------------------------------------------------------------
(* Feeds *)

\* A crossed calendar is one the fetch no longer answers for.
LEMMA CrossFetchDoes ==
    ASSUME Types, NEW ref \in Refs, CrossFetch(ref)
    PROVE  /\ fetch'.at = fetch.at /\ fetch'.fed = fetch.fed /\ fetch'.etag = fetch.etag /\ fetch'.changed = fetch.changed
           /\ fetch.crossed \subseteq fetch'.crossed
           /\ ref \notin fetch'.fed \ fetch'.crossed
<1>1. CASE ref \in fetch.fed
  <2>1. fetch' = [fetch EXCEPT !.crossed = @ \cup {ref}]
    BY <1>1 DEF CrossFetch
  <2> QED  BY <2>1 DEF Types, FetchType
<1>2. CASE ref \notin fetch.fed
  BY <1>2 DEF CrossFetch
<1> QED  BY <1>1, <1>2

\* One calendar is made or filled, with the fetch crossed.
LEMMA CrossedFed ==
    ASSUME Types, ETagsPublished, AskedOfAll, FedTruly, NEW ref \in Refs, NEW c, CrossFetch(ref),
           \A r \in Refs \ {ref} : collection'[r] = collection[r] /\ objects'[r] = objects[r],
           collection'[ref].etag = c, c \in Nat, c <= feed.version, c # 0 => objects'[ref] = feed.content[c],
           UNCHANGED feed, stale \subseteq stale' \cup {ref},
           subscriber'.at # "idle" => subscriber.at # "idle" /\ subscriber'.etag = subscriber.etag
    PROVE  ETagsPublished' /\ AskedOfAll' /\ FedTruly'
<1>1. ETagsPublished'
  BY CrossFetchDoes DEF ETagsPublished
<1>2. AskedOfAll'
  BY CrossFetchDoes, StoreAssumption DEF AskedOfAll, There, Types, FetchType
<1>3. FedTruly'
  BY StoreAssumption DEF FedTruly
<1> QED  BY <1>1, <1>2, <1>3

LEMMA NextFed == StoreInv /\ [Next]_vars => ETagsPublished' /\ AskedOfAll' /\ FedTruly'
<1> DEFINE Feeds == ETagsPublished /\ AskedOfAll /\ FedTruly
<1> SUFFICES ASSUME StoreInv, [Next]_vars PROVE Feeds'
  OBVIOUS
<1> USE StoreAssumption
<1>t. Types /\ StoreTypes /\ FeedType /\ FetchType /\ SubscriberType /\ ETagsPublished /\ AskedOfAll /\ FedTruly
  BY DEF StoreInv, Types
<1>c. \A ref \in Refs : collection[ref] \in Collections /\ collection[ref].etag \in Nat
  BY <1>t DEF StoreTypes, Collections
<1>v. feed.version \in Nat /\ fetch.fed \subseteq Refs
  BY <1>t DEF FeedType, FetchType
<1>p. Feeds' <=> ETagsPublished' /\ AskedOfAll' /\ FedTruly'
  OBVIOUS
<1> HIDE DEF Feeds
<1>1. CASE /\ UNCHANGED <<feed, fetch, subscriber, stale>>
           /\ \A r \in Refs : collection'[r].etag = collection[r].etag /\ (There(r)' => There(r))
           /\ \A r \in Fed : objects'[r] = objects[r]
  <2>1. ETagsPublished'
    BY <1>1, <1>t DEF ETagsPublished
  <2>2. AskedOfAll'
    BY <1>1, <1>t, <1>v DEF AskedOfAll
  <2>3. FedTruly'
    BY <1>1, <1>t DEF FedTruly
  <2> QED  BY <1>p, <2>1, <2>2, <2>3
<1>2. CASE UNCHANGED <<collection, objects, feed, fetch, subscriber, stale>>
  BY <1>1, <1>2 DEF There
<1>3. ASSUME NEW ref \in Refs, ReadCTag(ref) PROVE Feeds'
  BY <1>2, <1>3 DEF ReadCTag
<1>4. ASSUME NEW ref \in Refs, NEW g \in Guests, Accept(ref, g) \/ Decline(ref, g) \/ RemoveShare(ref, g) \/ ReadShare(ref, g)
      PROVE  Feeds'
  BY <1>2, <1>4 DEF Accept, Decline, RemoveShare, ReadShare, CrossPage
<1>5. CASE PutShare \/ ReadObjects \/ UNCHANGED vars
  BY <1>2, <1>5 DEF PutShare, ReadObjects, vars
<1>6. ASSUME NEW ref \in Refs, NEW n \in Names, RemoveObject(ref, n) \/ \E o \in Objects \ {NoObject} : PutObject(ref, n, o)
      PROVE  Feeds'
  <2>1. Stamp(ref, collection[ref]) /\ There(ref) /\ ref \notin Fed /\ UNCHANGED <<feed, fetch, subscriber, stale>>
    BY <1>6 DEF RemoveObject, PutObject, Writable
  <2>2. \A r \in Refs : collection'[r].etag = collection[r].etag /\ (There(r)' => There(r))
    BY <1>t, <1>c, <2>1, StampDoes DEF There
  <2>3. \A r \in Fed : objects'[r] = objects[r]
    BY <1>6, <1>t, <2>1 DEF RemoveObject, PutObject, StoreTypes
  <2> QED  BY <1>1, <2>1, <2>2, <2>3
<1>7. ASSUME NEW ref \in Refs, NEW secret \in Secrets \cup {None}, Update(ref, secret) PROVE Feeds'
  <2>1. PICK d \in Collections : d = [collection[ref] EXCEPT !.secret = secret] /\ d.etag = collection[ref].etag
    <3>1. [collection[ref] EXCEPT !.secret = secret] = [ctag |-> collection[ref].ctag, secret |-> secret, etag |-> collection[ref].etag]
      BY <1>c, Changed
    <3>2. [ctag |-> collection[ref].ctag, secret |-> secret, etag |-> collection[ref].etag] \in Collections
      BY <1>c DEF Collections
    <3> QED  BY <3>1, <3>2
  <2>2. Stamp(ref, d) /\ There(ref) /\ UNCHANGED <<objects, feed, fetch, subscriber, stale>>
    BY <1>7, <2>1 DEF Update
  <2>3. collection'[ref].etag = d.etag /\ \A r \in Refs \ {ref} : collection'[r] = collection[r]
    BY <1>t, <2>2, StampDoes
  <2> QED  BY <1>1, <2>1, <2>2, <2>3 DEF There
<1>8. ASSUME NEW ref \in Refs, Delete(ref) PROVE Feeds'
  <2>1. /\ collection' = [collection EXCEPT ![ref] = NoCollection] /\ objects' = [objects EXCEPT ![ref] = Empty]
        /\ stale' = stale \ {ref} /\ UNCHANGED <<feed, fetch, subscriber>>
    BY <1>8 DEF Delete, CrossPage
  <2>2. /\ collection'[ref].ctag = 0 /\ collection'[ref].etag = 0
        /\ \A r \in Refs \ {ref} : collection'[r] = collection[r] /\ objects'[r] = objects[r]
    BY <1>t, <2>1 DEF StoreTypes, NoCollection
  <2>3. ETagsPublished'
    BY <1>t, <1>v, <2>1, <2>2 DEF ETagsPublished
  <2>4. AskedOfAll'
    BY <1>t, <1>v, <2>1, <2>2 DEF AskedOfAll, There
  <2>5. FedTruly'
    BY <1>t, <2>1, <2>2 DEF FedTruly
  <2> QED  BY <1>p, <2>3, <2>4, <2>5
<1>9. ASSUME NEW ref \in Refs, Create(ref) PROVE Feeds'
  <2>1. Stamp(ref, NoCollection) /\ CrossFetch(ref) /\ UNCHANGED <<objects, feed, subscriber, stale>>
    BY <1>9 DEF Create
  <2>2. collection'[ref].etag = 0 /\ \A r \in Refs \ {ref} : collection'[r] = collection[r]
    BY <1>t, <2>1, StampDoes, EmptyTypes DEF NoCollection
  <2> QED  BY <1>t, <1>v, <1>p, <2>1, <2>2, CrossedFed
<1>10. ASSUME NEW ref \in Refs, FetchToSubscribe(ref) PROVE Feeds'
  <2>1. /\ subscriber'.etag = feed.version /\ feed.version # 0
        /\ UNCHANGED <<collection, objects, feed, fetch, stale>>
    BY <1>10, <1>v DEF FetchToSubscribe
  <2>2. ETagsPublished'
    BY <1>t, <1>v, <2>1 DEF ETagsPublished
  <2> QED  BY <1>t, <1>p, <2>1, <2>2 DEF AskedOfAll, FedTruly, There
<1>11. ASSUME NEW content \in FeedContents, NewVersion(content) PROVE Feeds'
  <2>1. /\ feed'.version = feed.version + 1 /\ feed'.content = [feed.content EXCEPT ![feed.version + 1] = content]
        /\ UNCHANGED <<collection, objects, fetch, subscriber, stale>>
    BY <1>11 DEF NewVersion
  <2>2. ETagsPublished'
    <3>1. fetch.etag \in Nat /\ subscriber.etag \in Nat
      BY <1>t DEF FetchType, SubscriberType
    <3> QED  BY <1>t, <1>c, <1>v, <2>1, <3>1 DEF ETagsPublished
  <2>3. AskedOfAll'
    BY <1>t, <2>1 DEF AskedOfAll, There
  <2>4. FedTruly'
    <3>1. \A v \in 1..MaxVersion : v <= feed.version => feed'.content[v] = feed.content[v]
      BY <1>t, <1>v, <2>1 DEF FeedType
    <3>2. \A r \in Refs : collection[r].etag # 0 => collection[r].etag \in 1..MaxVersion /\ collection[r].etag <= feed.version
      BY <1>t DEF StoreTypes, Collections, ETagsPublished
    <3> QED  BY <1>t, <2>1, <3>1, <3>2 DEF FedTruly
  <2> QED  BY <1>p, <2>2, <2>3, <2>4
<1>12. CASE Refresh
  <2>1. PICK fed \in SUBSET Fed, e \in 0..MaxVersion :
            /\ fed = {ref \in Fed : There(ref)} /\ fed # {} /\ e = Condition(fed)
            /\ fetch' = [NoFetch EXCEPT !.at = "asked", !.fed = fed, !.etag = e]
    BY <1>12, <1>t, ConditionIs DEF Refresh
  <2>2. e # 0 => \A ref \in fed : collection[ref].etag = e
    BY <1>t, <2>1, ConditionIs
  <2>3. fetch'.at = "asked" /\ fetch'.fed = fed /\ fetch'.etag = e
    BY <2>1 DEF NoFetch
  <2>4. UNCHANGED <<collection, objects, feed, subscriber, stale>>
    BY <1>12 DEF Refresh
  <2>5. ETagsPublished'
    <3>1. e <= feed.version
      BY <1>t, <1>v, <2>1, <2>2 DEF ETagsPublished
    <3> QED  BY <1>t, <2>3, <2>4, <3>1 DEF ETagsPublished
  <2>6. AskedOfAll'
    BY <2>2, <2>3, <2>4 DEF AskedOfAll
  <2> QED  BY <1>t, <1>p, <2>4, <2>5, <2>6 DEF FedTruly
<1>13. CASE Answered
  <2>1. /\ fetch.at = "asked" /\ feed.version # 0 /\ UNCHANGED <<collection, objects, feed, subscriber, stale>>
        /\ fetch' = [fetch EXCEPT !.at = "got", !.etag = feed.version, !.changed = (fetch.etag # feed.version)]
    BY <1>13, <1>v DEF Answered
  <2>2. /\ fetch'.at = "got" /\ fetch'.etag = feed.version /\ fetch'.fed = fetch.fed /\ fetch'.crossed = fetch.crossed
        /\ fetch'.changed = (fetch.etag # feed.version)
    BY <1>t, <2>1 DEF FetchType
  <2>3. ETagsPublished'
    BY <1>t, <1>v, <2>1, <2>2 DEF ETagsPublished
  <2>4. AskedOfAll'
    BY <1>t, <2>1, <2>2 DEF AskedOfAll, There
  <2> QED  BY <1>t, <1>p, <2>1, <2>3, <2>4 DEF FedTruly
<1>14. CASE FetchFails
  <2>1. fetch'.at = "idle" /\ fetch'.etag = 0 /\ UNCHANGED <<collection, objects, feed, subscriber, stale>>
    BY <1>14 DEF FetchFails, NoFetch
  <2> QED  BY <1>t, <1>v, <1>p, <2>1 DEF ETagsPublished, AskedOfAll, FedTruly
<1>15. ASSUME NEW ref \in Refs, FillFetched(ref) PROVE Feeds'
  <2>0. fetch.at = "got" /\ ref \in fetch.fed /\ fetch.etag \in 0..MaxVersion /\ fetch.etag # 0 /\ fetch.etag <= feed.version
    BY <1>15, <1>t DEF FillFetched, FetchType, ETagsPublished
  <2>1. /\ UNCHANGED <<feed, subscriber>>
        /\ fetch' = NoFetch \/ fetch' = [fetch EXCEPT !.fed = @ \ {ref}]
    BY <1>15 DEF FillFetched
  <2>2. \/ fetch'.at = "idle" /\ fetch'.etag = 0
        \/ /\ fetch'.at = fetch.at /\ fetch'.fed = fetch.fed \ {ref} /\ fetch'.etag = fetch.etag
           /\ fetch'.changed = fetch.changed /\ fetch'.crossed = fetch.crossed
    BY <1>t, <2>1 DEF FetchType, NoFetch
  <2>3. ASSUME \A r \in Refs \ {ref} : collection'[r] = collection[r],
               \A r \in Refs : collection'[r].etag = collection[r].etag \/ collection'[r].etag = fetch.etag,
               FedTruly'
        PROVE  Feeds'
    <3>1. ETagsPublished'
      BY <1>t, <1>v, <2>0, <2>1, <2>2, <2>3 DEF ETagsPublished
    <3>2. AskedOfAll'
      <4>1. CASE fetch'.at = "idle"
        BY <4>1 DEF AskedOfAll
      <4>2. CASE fetch'.at # "idle"
        BY <1>t, <1>v, <2>2, <2>3, <4>2 DEF AskedOfAll, There
      <4> QED  BY <4>1, <4>2
    <3> QED  BY <1>p, <2>3, <3>1, <3>2
  <2>4. CASE ~There(ref)
    <3>1. UNCHANGED <<collection, objects, stale>>
      BY <1>15, <2>4 DEF FillFetched
    <3>2. FedTruly'
      BY <1>t, <2>1, <3>1 DEF FedTruly
    <3> QED  BY <2>3, <3>1, <3>2
  <2>5. CASE There(ref) /\ fetch.changed
    <3>1. Fill(ref, fetch.etag, feed.content[fetch.etag]) /\ stale' = stale \ {ref}
      BY <1>15, <2>5 DEF FillFetched
    <3>2. /\ objects' = [objects EXCEPT ![ref] = feed.content[fetch.etag]] /\ collection'[ref].etag = fetch.etag
          /\ \A r \in Refs \ {ref} : collection'[r] = collection[r]
      BY <1>t, <2>0, <3>1, ContentType, FillDoes
    <3>3. objects'[ref] = feed.content[fetch.etag] /\ \A r \in Refs \ {ref} : objects'[r] = objects[r]
      BY <1>t, <3>2 DEF StoreTypes
    <3>4. FedTruly'
      BY <1>t, <2>1, <3>1, <3>2, <3>3 DEF FedTruly
    <3> QED  BY <2>3, <3>2, <3>4
  <2>6. CASE There(ref) /\ ~fetch.changed
    <3>1. /\ collection' = [collection EXCEPT ![ref] = [collection[ref] EXCEPT !.etag = fetch.etag]] /\ UNCHANGED objects
          /\ stale' = IF ref \in fetch.crossed THEN stale \cup {ref} ELSE stale
      BY <1>15, <2>6 DEF FillFetched
    <3>2. [collection[ref] EXCEPT !.etag = fetch.etag].etag = fetch.etag
      BY <1>c, Changed
    <3>3. collection'[ref].etag = fetch.etag /\ \A r \in Refs \ {ref} : collection'[r] = collection[r]
      BY <1>t, <3>1, <3>2 DEF StoreTypes
    <3>4. ref \notin fetch.crossed => collection[ref].etag = fetch.etag
      BY <1>t, <2>0, <2>6 DEF AskedOfAll
    <3>5. FedTruly'
      BY <1>t, <2>1, <3>1, <3>3, <3>4 DEF FedTruly
    <3> QED  BY <2>3, <3>3, <3>5
  <2> QED  BY <2>4, <2>5, <2>6
<1>16. CASE MakeSubscribed
  <2>1. subscriber.ref \in Refs /\ subscriber.at = "fetched"
    BY <1>16, <1>t DEF MakeSubscribed, SubscriberType
  <2>2. CASE There(subscriber.ref)
    <3>1. subscriber'.at = "idle" /\ UNCHANGED <<collection, objects, feed, fetch, stale>>
      BY <1>16, <2>2 DEF MakeSubscribed, NoSubscriber
    <3> QED  BY <1>t, <1>p, <3>1 DEF ETagsPublished, AskedOfAll, FedTruly, There
  <2>3. CASE ~There(subscriber.ref)
    <3>1. /\ Stamp(subscriber.ref, NoCollection) /\ CrossFetch(subscriber.ref) /\ UNCHANGED <<objects, feed, stale>>
          /\ subscriber' = [subscriber EXCEPT !.at = "made"]
      BY <1>16, <2>3 DEF MakeSubscribed
    <3>2. collection'[subscriber.ref].etag = 0 /\ \A r \in Refs \ {subscriber.ref} : collection'[r] = collection[r]
      BY <1>t, <2>1, <3>1, StampDoes, EmptyTypes DEF NoCollection
    <3>3. subscriber'.etag = subscriber.etag
      BY <1>t, <3>1 DEF SubscriberType
    <3> QED  BY <1>t, <1>v, <1>p, <2>1, <3>1, <3>2, <3>3, CrossedFed
  <2> QED  BY <2>2, <2>3
<1>17. CASE FillSubscribed
  <2>1. /\ subscriber.ref \in Refs /\ subscriber.etag \in 0..MaxVersion /\ subscriber.etag # 0 /\ subscriber.etag <= feed.version
        /\ subscriber'.at = "idle" /\ UNCHANGED feed
    BY <1>17, <1>t DEF FillSubscribed, SubscriberType, ETagsPublished, NoSubscriber
  <2>2. CASE ~There(subscriber.ref)
    <3>1. UNCHANGED <<collection, objects, fetch, stale>>
      BY <1>17, <2>2 DEF FillSubscribed
    <3> QED  BY <1>t, <1>p, <2>1, <3>1 DEF ETagsPublished, AskedOfAll, FedTruly, There
  <2>3. CASE There(subscriber.ref)
    <3>1. /\ Fill(subscriber.ref, subscriber.etag, feed.content[subscriber.etag])
          /\ CrossFetch(subscriber.ref) /\ stale' = stale \ {subscriber.ref}
      BY <1>17, <2>3 DEF FillSubscribed
    <3>2. /\ objects' = [objects EXCEPT ![subscriber.ref] = feed.content[subscriber.etag]]
          /\ collection'[subscriber.ref].etag = subscriber.etag
          /\ \A r \in Refs \ {subscriber.ref} : collection'[r] = collection[r]
      BY <1>t, <2>1, <3>1, ContentType, FillDoes
    <3>3. /\ objects'[subscriber.ref] = feed.content[subscriber.etag]
          /\ \A r \in Refs \ {subscriber.ref} : objects'[r] = objects[r]
      BY <1>t, <2>1, <3>2 DEF StoreTypes
    <3>4. subscriber.etag \in Nat /\ stale \subseteq stale' \cup {subscriber.ref}
      BY <2>1, <3>1
    <3> QED  BY <1>t, <1>p, <2>1, <3>1, <3>2, <3>3, <3>4, CrossedFed
  <2> QED  BY <2>2, <2>3
<1> QED
  BY <1>3, <1>4, <1>5, <1>6, <1>7, <1>8, <1>9, <1>10, <1>11, <1>12, <1>13, <1>14, <1>15, <1>16, <1>17 DEF Next

----------------------------------------------------------------------------

LEMMA StoreInvHolds == Spec => []StoreInv
<1>1. StoreInv /\ [Next]_vars => StoreInv'
  BY NextTypes, NextCTags, NextIndexes, NextConsent, NextSaid, NextFed DEF StoreInv
<1> QED  BY <1>1, InitStoreInv, PTL DEF Spec

\* A client's copy is what the collection holds while the collection has the
\* ctag it was taken under, through a name deleted and made again too.
THEOREM CTagsTell == Spec => []CTagTells
<1>1. StoreInv => CTagTells
  BY DEF StoreInv
<1> QED  BY <1>1, StoreInvHolds, PTL

\* The indexes by UID, by guest and by secret say what the records say, and
\* nothing outlives its collection.
THEOREM IndexesStayAgreed == Spec => []IndexesAgree
<1>1. StoreInv => IndexesAgree
  BY DEF StoreInv
<1> QED  BY <1>1, StoreInvHolds, PTL

\* No guest has access but by a yes of its own that stands, a page that had
\* read the share before it was ended excepted.
THEOREM AccessNeedsConsent == Spec => []AccessByConsent
<1>1. StoreInv => AccessByConsent
  BY DEF StoreInv
<1> QED  BY <1>1, StoreInvHolds, PTL

\* A calendar with a version's ETag has that version's objects, one that was
\* made or filled between a fetch's question and its 304 excepted.
THEOREM CalendarsFedTruly == Spec => []FedTruly
<1>1. StoreInv => FedTruly
  BY DEF StoreInv
<1> QED  BY <1>1, StoreInvHolds, PTL

----------------------------------------------------------------------------
(***************************************************************************)
(* The list of subscriptions, for every set of alborz, feeds and requests. *)
(***************************************************************************)

Stamps == [URLs -> Nat]

Stages == {"idle", "read", "checked", "edits", "written", "fetching", "adding", "fills"}

RequestSet ==
    [at : Stages, i : Instances \cup {Nil}, u : URLs \cup {Nil}, stamp : Nat, read : Stamps, subs : Stamps,
     drop : SUBSET URLs, held : Stamps, todo : SUBSET URLs, relisted : BOOLEAN, alone : BOOLEAN]

SubsTypes ==
    /\ clock \in [Instances -> Nat]
    /\ list \in Stamps
    /\ named \in [Instances -> Stamps] /\ dropped \in [Instances -> Stamps]
    /\ request \in [Requests -> RequestSet]
    /\ asked \in [URLs -> [does : {"on", "off", "unclear"}, at : Instances \cup {Nil}]]
    /\ \A u \in URLs : asked[u].does = "off" => asked[u].at \in Instances

InTurn(q) == q.at \in {"adding", "read", "checked", "edits"}
Reconciles(q) == q.at \in {"read", "checked", "edits"}

\* What a request knows of: the alborz it is at, the feed it is for, and what
\* its edits made of the list it read.
Shaped(q) ==
    /\ q.at # "idle" => q.i \in Instances
    /\ q.at \in {"fetching", "adding"} => q.u \in URLs /\ q.stamp # 0
    /\ q.at = "adding" => \A v \in URLs : q.subs[v] = IF v = q.u THEN q.stamp ELSE q.read[v]
    /\ q.at = "read" => q.subs = q.read
    /\ Reconciles(q) => \A v \in URLs : q.subs[v] # 0 => q.read[v] # 0
    /\ q.at \in {"checked", "edits"} /\ ~q.relisted => q.subs = q.read
    /\ q.at = "edits" => \A v \in q.todo : q.subs[v] # 0

\* No name is dated ahead of every clock, no record of a delete and no request
\* ahead of its own alborz's.
Dated(d, c) == d = 0 \/ \E j \in Instances : d <= c[j]

DatedRequest(q) ==
    /\ q.at # "idle" => q.stamp <= clock[q.i]
    /\ \A u \in URLs : Dated(q.subs[u], clock) /\ Dated(q.held[u], clock)

DatedStores ==
    /\ \A u \in URLs : Dated(list[u], clock)
    /\ \A i \in Instances, u \in URLs : Dated(named[i][u], clock) /\ dropped[i][u] <= clock[i]

\* Login.Update's turn is one request's at an alborz.
OneTurn ==
    \A r, s \in Requests : InTurn(request[r]) /\ InTurn(request[s]) /\ request[r].i = request[s].i => r = s

\* A request that has been alone since it was asked for is, and nothing was
\* deleted at its alborz since unless the clock there went on.
AloneIs ==
    \A r \in Requests : request[r].alone =>
        /\ request[r].at \in {"fetching", "adding"}
        /\ \A s \in Requests \ {r} : request[s].at = "idle"
        /\ clock[request[r].i] <= request[r].stamp => \A u \in URLs : dropped[request[r].i][u] < request[r].stamp

\* While the reader's last word on u is to follow it: the entry is newer than any
\* delete, in the list and in what a request makes of it, so that nobody takes
\* it out, and no request is about to delete the calendar.
FitsOn(u, q) ==
    /\ InTurn(q) => \A i \in Instances : dropped[i][u] < q.subs[u]
    /\ q.at = "edits" /\ q.held[u] # 0 => u \in q.todo
    /\ q.at = "written" => q.held[u] = 0

KeptOn(u) ==
    /\ list[u] # 0
    /\ \A i \in Instances : dropped[i][u] < list[u]
    /\ \A r \in Requests : FitsOn(u, request[r])

\* While it is to drop u, asked at i: an entry still on the list is older than
\* the delete i has on record, and so is all that others know of u; i's own
\* requests leave the entry out, and the record goes only once the list has
\* none.  No entry comes back.
Wrote(i) == \E r \in Requests : request[r].i = i /\ request[r].at = "written"

FitsOff(u, i, q) ==
    /\ Reconciles(q) /\ list[u] # 0 => q.subs[u] <= dropped[i][u] /\ q.read[u] # 0
    /\ q.at = "edits" /\ list[u] # 0 => q.held[u] <= dropped[i][u]
    /\ q.i = i /\ q.at \in {"checked", "edits"} => q.subs[u] = 0
    /\ q.i = i /\ q.at = "read" => q.subs[u] = 0 \/ q.subs[u] <= dropped[i][u]
    /\ q.i = i /\ q.at = "read" /\ Wrote(i) => q.subs[u] = 0

KeptOff(u, i) ==
    /\ named[i][u] = 0
    /\ list[u] # 0 => list[u] <= dropped[i][u] /\ \A j \in Instances : named[j][u] <= dropped[i][u]
    /\ Wrote(i) => list[u] = 0
    /\ \A r \in Requests : FitsOff(u, i, request[r])

Wishes ==
    \A u \in URLs :
        /\ asked[u].does = "on" => KeptOn(u)
        /\ asked[u].does = "off" => KeptOff(u, asked[u].at)

SubsInv ==
    /\ SubsTypes
    /\ \A r \in Requests : Shaped(request[r]) /\ DatedRequest(request[r])
    /\ DatedStores /\ OneTurn /\ AloneIs
    /\ Wishes

LEMMA IdleIsIdle ==
    /\ Idle \in RequestSet
    /\ Idle.at = "idle" /\ Idle.stamp = 0 /\ ~Idle.alone
    /\ \A u \in URLs : Idle.subs[u] = 0 /\ Idle.held[u] = 0
    /\ Nothing \in Stamps
BY DEF Idle, Nothing, Nil, RequestSet, Stages, Stamps

\* A date stays one while the clocks go forward.
LEMMA DatedLater ==
    ASSUME NEW c \in [Instances -> Nat], NEW d \in [Instances -> Nat], \A j \in Instances : c[j] <= d[j],
           NEW x \in Nat, Dated(x, c)
    PROVE  Dated(x, d)
BY DEF Dated

LEMMA NoDate == \A c : Dated(0, c)
BY DEF Dated

\* A clock that shows a time goes forward to it.
LEMMA ClockShows ==
    ASSUME clock \in [Instances -> Nat], NEW i \in Instances, NEW t, Shows(i, t)
    PROVE  /\ t \in Nat /\ t # 0 /\ clock[i] <= t
           /\ clock' \in [Instances -> Nat] /\ clock' = [clock EXCEPT ![i] = t] /\ clock'[i] = t
           /\ \A j \in Instances : clock[j] <= clock'[j] /\ (j # i => clock'[j] = clock[j])
<1>1. t \in Nat /\ t # 0 /\ clock[i] <= t /\ clock' = [clock EXCEPT ![i] = t]
  BY SubscriptionsAssumption DEF Shows
<1>2. clock' \in [Instances -> Nat] /\ clock'[i] = t /\ \A j \in Instances : j # i => clock'[j] = clock[j]
  BY <1>1
<1>3. \A j \in Instances : clock[j] <= clock'[j]
  BY <1>1, <1>2
<1> QED BY <1>1, <1>2, <1>3

\* A request is not ahead of clocks that went forward.
LEMMA StillDated ==
    ASSUME NEW q \in RequestSet, Shaped(q), DatedRequest(q),
           clock \in [Instances -> Nat], clock' \in [Instances -> Nat], \A j \in Instances : clock[j] <= clock'[j]
    PROVE  DatedRequest(q)'
<1>1. q.at # "idle" => q.stamp <= clock'[q.i]
  BY DEF DatedRequest, Shaped, RequestSet
<1>2. \A u \in URLs : Dated(q.subs[u], clock') /\ Dated(q.held[u], clock')
  BY DatedLater DEF DatedRequest, RequestSet, Stamps
<1> QED BY <1>1, <1>2 DEF DatedRequest

\* A step of a request that changes nothing else keeps the invariant if what the
\* request becomes fits.
LEMMA RequestMoves ==
    ASSUME SubsInv, NEW r \in Requests, NEW p \in RequestSet,
           request[r].at # "idle",
           request' = [request EXCEPT ![r] = p],
           UNCHANGED <<clock, list, named, dropped, asked>>,
           Shaped(p), DatedRequest(p),
           p.alone => request[r].alone /\ p.at \in {"fetching", "adding"} /\ p.stamp = request[r].stamp /\ p.i = request[r].i,
           p.at # "written" \/ request[r].at = "written",
           InTurn(p) => (InTurn(request[r]) /\ request[r].i = p.i) \/ ~TurnTaken(p.i),
           p.at = "written" => request[r].i = p.i,
           \A u \in URLs : asked[u].does = "on" => FitsOn(u, p),
           \A u \in URLs : asked[u].does = "off" => FitsOff(u, asked[u].at, p)
    PROVE  SubsInv'
<1>1. request'[r] = p /\ \A s \in Requests \ {r} : request'[s] = request[s]
  BY DEF SubsInv, SubsTypes
<1>2. SubsTypes'
  BY DEF SubsInv, SubsTypes
<1>3. ASSUME NEW s \in Requests PROVE Shaped(request[s])' /\ DatedRequest(request[s])'
  <2>1. CASE s = r
    BY <1>1, <2>1 DEF Shaped, DatedRequest, Reconciles
  <2>2. CASE s # r
    BY <1>1, <2>2 DEF SubsInv, Shaped, DatedRequest, Reconciles
  <2> QED BY <2>1, <2>2
<1>4. DatedStores'
  BY DEF SubsInv, DatedStores
<1>5. OneTurn'
  BY <1>1 DEF SubsInv, OneTurn, InTurn, TurnTaken
<1>6. AloneIs'
  BY <1>1 DEF SubsInv, AloneIs
<1>7. ASSUME NEW i, Wrote(i)' PROVE Wrote(i)
  BY <1>1, <1>7 DEF Wrote
<1>8. ASSUME NEW u \in URLs, asked[u].does = "on" PROVE KeptOn(u)'
  <2>1. KeptOn(u)
    BY <1>8 DEF SubsInv, Wishes
  <2>2. ASSUME NEW s \in Requests PROVE FitsOn(u, request[s])'
    <3>1. CASE s = r
      BY <1>1, <1>8, <3>1 DEF FitsOn, InTurn
    <3>2. CASE s # r
      BY <1>1, <2>1, <3>2 DEF KeptOn, FitsOn, InTurn
    <3> QED BY <3>1, <3>2
  <2> QED BY <2>1, <2>2 DEF KeptOn
<1>9. ASSUME NEW u \in URLs, asked[u].does = "off" PROVE KeptOff(u, asked[u].at)'
  <2>0. PICK i \in Instances : i = asked[u].at /\ KeptOff(u, i)
    BY <1>9 DEF SubsInv, Wishes, SubsTypes
  <2>2. ASSUME NEW s \in Requests PROVE FitsOff(u, i, request[s])'
    <3>1. CASE s = r
      BY <1>1, <1>7, <1>9, <2>0, <3>1 DEF FitsOff, Reconciles
    <3>2. CASE s # r
      BY <1>1, <1>7, <2>0, <3>2 DEF KeptOff, FitsOff, Reconciles
    <3> QED BY <3>1, <3>2
  <2>3. KeptOff(u, i)'
    BY <1>7, <2>0, <2>2 DEF KeptOff
  <2> QED BY <2>0, <2>3
<1> QED BY <1>2, <1>3, <1>4, <1>5, <1>6, <1>8, <1>9 DEF SubsInv, Wishes

LEMMA IdleFits ==
    ASSUME SubsInv
    PROVE  /\ Shaped(Idle) /\ DatedRequest(Idle)
           /\ \A u \in URLs : FitsOn(u, Idle) /\ \A i : FitsOff(u, i, Idle)
BY IdleIsIdle, NoDate DEF SubsInv, SubsTypes, Shaped, DatedRequest, FitsOn, FitsOff, InTurn, Reconciles

LEMMA RequestEnds ==
    ASSUME SubsInv, NEW r \in Requests, request[r].at # "idle", Becomes(r, Idle),
           UNCHANGED <<clock, list, named, dropped, asked>>
    PROVE  SubsInv'
BY IdleIsIdle, IdleFits, RequestMoves DEF Becomes, InTurn

LEMMA ReadDroppedKeeps ==
    ASSUME SubsInv, NEW r \in Requests, ReadDropped(r)
    PROVE  SubsInv'
<1> USE DEF Nil
<1>0. UNCHANGED <<clock, list, named, dropped, asked>>
  BY DEF ReadDropped
<1>1. PICK q \in RequestSet : q = request[r]
  BY DEF SubsInv, SubsTypes
<1>2. q.at = "read" /\ q.i \in Instances /\ q.subs = q.read /\ ~q.alone /\ DatedRequest(q)
  BY <1>1 DEF ReadDropped, SubsInv, Shaped, AloneIs
<1>3. PICK left \in Stamps : left = [u \in URLs |-> IF Outdated(q.subs, dropped[q.i], u) THEN 0 ELSE q.subs[u]]
  BY <1>1, <1>2 DEF SubsInv, SubsTypes, Stamps, RequestSet
<1>4. \A u \in URLs : left[u] = q.subs[u] \/ (left[u] = 0 /\ q.subs[u] # 0 /\ q.subs[u] <= dropped[q.i][u])
  BY <1>3 DEF Outdated
<1>5. PICK p \in RequestSet :
        /\ request' = [request EXCEPT ![r] = p]
        /\ p = [q EXCEPT !.at = "checked", !.subs = left, !.drop = Listed(dropped[q.i]), !.relisted = left # q.subs]
  <2>1. Listed(dropped[q.i]) \in SUBSET URLs
    BY DEF Listed
  <2>2. [q EXCEPT !.at = "checked", !.subs = left, !.drop = Listed(dropped[q.i]), !.relisted = left # q.subs] \in RequestSet
    <3>1. PICK drop \in SUBSET URLs, relisted \in BOOLEAN : drop = Listed(dropped[q.i]) /\ relisted = (left # q.subs)
      BY <2>1
    <3>2. [q EXCEPT !.at = "checked", !.subs = left, !.drop = drop, !.relisted = relisted] \in RequestSet
      BY <1>1, <1>3 DEF RequestSet, Stages
    <3> QED BY <3>1, <3>2
  <2> QED BY <1>1, <1>3, <2>2 DEF ReadDropped, Becomes
<1>6. /\ p.at = "checked" /\ p.i = q.i /\ p.subs = left /\ p.read = q.read /\ p.held = q.held /\ p.stamp = q.stamp
      /\ p.alone = q.alone /\ p.relisted = (left # q.subs)
  BY <1>5 DEF RequestSet
<1>7. Shaped(p) /\ DatedRequest(p)
  <2>2. DatedRequest(p)
    BY <1>2, <1>4, <1>6, NoDate DEF DatedRequest
  <2>3. ~p.relisted => p.subs = p.read
    BY <1>2, <1>6
  <2>4. \A u \in URLs : p.subs[u] # 0 => p.read[u] # 0
    BY <1>2, <1>4, <1>6
  <2>5. Shaped(p)
    BY <1>2, <1>6, <2>3, <2>4 DEF Shaped
  <2> QED BY <2>2, <2>5
<1>8. ASSUME NEW u \in URLs, asked[u].does = "on" PROVE FitsOn(u, p)
  <2>1. FitsOn(u, q) /\ q.subs[u] \in Nat /\ \A i \in Instances : dropped[i][u] \in Nat
    BY <1>1, <1>8 DEF SubsInv, Wishes, KeptOn, SubsTypes, Stamps, RequestSet
  <2> QED BY <1>2, <1>4, <1>6, <2>1 DEF FitsOn, InTurn
<1>9. ASSUME NEW u \in URLs, asked[u].does = "off" PROVE FitsOff(u, asked[u].at, p)
  <2>1. PICK i \in Instances : i = asked[u].at /\ FitsOff(u, i, q) /\ KeptOff(u, i)
    BY <1>1, <1>9 DEF SubsInv, Wishes, KeptOff, SubsTypes
  <2>2. q.subs[u] \in Nat /\ \A j \in Instances : dropped[j][u] \in Nat
    BY <1>1 DEF SubsInv, SubsTypes, Stamps, RequestSet
  <2>3. CASE q.i = i
    <3>1. q.subs[u] = 0 \/ (q.subs[u] # 0 /\ q.subs[u] <= dropped[i][u])
      BY <1>2, <2>1, <2>3 DEF FitsOff
    <3>2. left[u] = 0
      BY <1>3, <2>3, <3>1, <2>2 DEF Outdated
    <3> QED BY <1>2, <1>6, <2>1, <2>2, <3>2 DEF FitsOff, Reconciles
  <2>4. CASE q.i # i
    BY <1>2, <1>4, <1>6, <2>1, <2>2, <2>4 DEF FitsOff, Reconciles
  <2> QED BY <2>1, <2>3, <2>4
<1>10. /\ request' = [request EXCEPT ![r] = p] /\ request[r].at # "idle" /\ p.at # "written" /\ ~p.alone
       /\ InTurn(request[r]) /\ request[r].i = p.i
  BY <1>1, <1>2, <1>5, <1>6 DEF InTurn
<1> QED
  BY <1>0, <1>7, <1>8, <1>9, <1>10, RequestMoves

LEMMA ReadFeedsKeeps ==
    ASSUME SubsInv, NEW r \in Requests, ReadFeeds(r)
    PROVE  SubsInv'
<1> USE DEF Nil
<1>0. UNCHANGED <<clock, list, named, dropped, asked>>
  BY DEF ReadFeeds
<1>1. PICK q \in RequestSet : q = request[r]
  BY DEF SubsInv, SubsTypes
<1>2. q.at = "checked" /\ q.i \in Instances /\ ~q.alone /\ DatedRequest(q) /\ Shaped(q)
  BY <1>1 DEF ReadFeeds, SubsInv, Shaped, AloneIs
<1>3. named[q.i] \in Stamps /\ \A u \in URLs : Dated(named[q.i][u], clock)
  BY <1>2 DEF SubsInv, SubsTypes, DatedStores
<1>5. PICK p \in RequestSet :
        /\ request' = [request EXCEPT ![r] = p]
        /\ p = [q EXCEPT !.at = "edits", !.held = named[q.i], !.todo = Listed(q.subs)]
  <2>1. Listed(q.subs) \in SUBSET URLs
    BY DEF Listed
  <2>2. [q EXCEPT !.at = "edits", !.held = named[q.i], !.todo = Listed(q.subs)] \in RequestSet
    BY <1>1, <1>3, <2>1 DEF RequestSet, Stages
  <2> QED BY <1>1, <2>2 DEF ReadFeeds, Becomes
<1>6. /\ p.at = "edits" /\ p.i = q.i /\ p.subs = q.subs /\ p.read = q.read /\ p.held = named[q.i] /\ p.stamp = q.stamp
      /\ p.alone = q.alone /\ p.relisted = q.relisted /\ p.todo = {u \in URLs : q.subs[u] # 0}
  BY <1>5 DEF RequestSet, Listed
<1>7. Shaped(p) /\ DatedRequest(p)
  BY <1>2, <1>3, <1>6 DEF Shaped, DatedRequest, Reconciles
<1>8. ASSUME NEW u \in URLs, asked[u].does = "on" PROVE FitsOn(u, p)
  <2>1. FitsOn(u, q) /\ q.subs[u] \in Nat /\ \A i \in Instances : dropped[i][u] \in Nat
    BY <1>1, <1>8 DEF SubsInv, Wishes, KeptOn, SubsTypes, Stamps, RequestSet
  <2>2. q.subs[u] # 0
    BY <1>2, <2>1 DEF FitsOn, InTurn
  <2> QED BY <1>2, <1>6, <2>1, <2>2 DEF FitsOn, InTurn
<1>9. ASSUME NEW u \in URLs, asked[u].does = "off" PROVE FitsOff(u, asked[u].at, p)
  <2>1. PICK i \in Instances : i = asked[u].at /\ FitsOff(u, i, q) /\ KeptOff(u, i)
    BY <1>1, <1>9 DEF SubsInv, Wishes, KeptOff, SubsTypes
  <2> QED BY <1>2, <1>6, <2>1 DEF FitsOff, Reconciles, KeptOff
<1>10. /\ request' = [request EXCEPT ![r] = p] /\ request[r].at # "idle" /\ p.at # "written" /\ ~p.alone
       /\ InTurn(request[r]) /\ request[r].i = p.i
  BY <1>1, <1>2, <1>5, <1>6 DEF InTurn
<1> QED
  BY <1>0, <1>7, <1>8, <1>9, <1>10, RequestMoves

LEMMA RelistKeeps ==
    ASSUME SubsInv, NEW r \in Requests, NEW v \in URLs, Relist(r, v)
    PROVE  SubsInv'
<1> USE DEF Nil
<1>0. UNCHANGED <<clock, list, named, dropped, asked>>
  BY DEF Relist
<1>1. PICK q \in RequestSet : q = request[r]
  BY DEF SubsInv, SubsTypes
<1>2. /\ q.at = "edits" /\ q.i \in Instances /\ ~q.alone /\ DatedRequest(q) /\ Shaped(q)
      /\ v \in q.todo /\ q.held[v] >= q.subs[v]
  BY <1>1 DEF Relist, SubsInv, Shaped, AloneIs
<1>5. PICK p \in RequestSet :
        /\ request' = [request EXCEPT ![r] = p]
        /\ p = [Done(q, v) EXCEPT !.subs[v] = q.held[v], !.relisted = @ \/ q.held[v] > q.subs[v]]
  <2>1. Done(q, v) \in RequestSet /\ Done(q, v).relisted = q.relisted
    BY <1>1 DEF RequestSet, Stages, Done, Stamps
  <2>2. [Done(q, v) EXCEPT !.subs[v] = q.held[v], !.relisted = @ \/ q.held[v] > q.subs[v]] \in RequestSet
    <3>1. PICK d \in RequestSet : d = Done(q, v)
      BY <2>1
    <3>2. PICK subs \in Stamps, relisted \in BOOLEAN :
            subs = [d.subs EXCEPT ![v] = q.held[v]] /\ relisted = (d.relisted \/ q.held[v] > q.subs[v])
      BY <1>1 DEF RequestSet, Stamps
    <3>3. [d EXCEPT !.subs = subs, !.relisted = relisted] \in RequestSet
      BY DEF RequestSet
    <3> QED BY <3>1, <3>2, <3>3
  <2> QED BY <1>1, <2>2 DEF Relist, Becomes
<1>6. /\ p.at = "edits" /\ p.i = q.i /\ p.read = q.read /\ p.stamp = q.stamp /\ p.alone = q.alone
      /\ p.relisted = (q.relisted \/ q.held[v] > q.subs[v]) /\ p.todo = q.todo \ {v}
      /\ p.subs = [q.subs EXCEPT ![v] = q.held[v]] /\ p.held = [q.held EXCEPT ![v] = 0]
  <2>1. PICK d : d = Done(q, v)
    OBVIOUS
  <2>2. /\ d.at = "edits" /\ d.i = q.i /\ d.read = q.read /\ d.stamp = q.stamp /\ d.alone = q.alone
        /\ d.relisted = q.relisted /\ d.todo = q.todo \ {v} /\ d.subs = q.subs /\ d.held = [q.held EXCEPT ![v] = 0]
        /\ d \in RequestSet
    BY <1>1, <1>2, <2>1 DEF RequestSet, Done, Stamps
  <2>3. p = [d EXCEPT !.subs[v] = q.held[v], !.relisted = @ \/ q.held[v] > q.subs[v]]
    BY <1>5, <2>1
  <2>4. /\ p.at = d.at /\ p.i = d.i /\ p.read = d.read /\ p.stamp = d.stamp /\ p.alone = d.alone
        /\ p.relisted = (d.relisted \/ q.held[v] > q.subs[v]) /\ p.todo = d.todo
        /\ p.subs = [d.subs EXCEPT ![v] = q.held[v]] /\ p.held = d.held
    BY <2>2, <2>3 DEF RequestSet
  <2> QED BY <2>2, <2>4
<1>7. /\ q.subs \in Stamps /\ q.held \in Stamps /\ p.subs \in Stamps /\ p.held \in Stamps
      /\ \A u \in URLs : p.subs[u] >= q.subs[u] /\ (p.subs[u] = q.subs[u] \/ (p.subs[u] = q.held[u] /\ q.subs[u] # 0))
      /\ \A u \in URLs : p.held[u] = (IF u = v THEN 0 ELSE q.held[u])
  <2>1. q.subs \in Stamps /\ q.held \in Stamps /\ p.subs \in Stamps /\ p.held \in Stamps
    BY DEF RequestSet
  <2> QED BY <1>2, <1>6, <2>1 DEF Stamps, Shaped
<1>71. ~p.relisted => p.subs = q.subs
  <2>1. ~p.relisted => q.held[v] = q.subs[v]
    <3>1. q.held[v] \in Nat /\ q.subs[v] \in Nat
      BY <1>7 DEF Stamps
    <3>2. q.held[v] > q.subs[v] \/ q.held[v] = q.subs[v]
      BY <1>2, <3>1
    <3> QED BY <1>6, <3>2
  <2> QED BY <1>6, <1>7, <2>1 DEF Stamps
<1>8. Shaped(p) /\ DatedRequest(p)
  <2>1. DatedRequest(p)
    BY <1>2, <1>6, <1>7, NoDate DEF DatedRequest
  <2>2. Shaped(p)
    <3>1. ~p.relisted => p.subs = p.read
      <4>1. ~p.relisted => ~q.relisted
        BY <1>6
      <4> QED BY <1>2, <1>6, <1>71, <4>1 DEF Shaped
    <3>2. \A u \in URLs : p.subs[u] # 0 => p.read[u] # 0
      BY <1>2, <1>6, <1>7 DEF Shaped, Reconciles
    <3>3. \A u \in p.todo : p.subs[u] # 0
      <4>1. \A u \in p.todo : u # v /\ u \in URLs /\ q.subs[u] # 0
        BY <1>2, <1>6 DEF Shaped, RequestSet
      <4> QED BY <1>6, <1>7, <4>1 DEF Stamps
    <3> QED BY <1>2, <1>6, <3>1, <3>2, <3>3 DEF Shaped
  <2> QED BY <2>1, <2>2
<1>9. ASSUME NEW u \in URLs, asked[u].does = "on" PROVE FitsOn(u, p)
  <2>1. FitsOn(u, q) /\ q.subs[u] \in Nat /\ p.subs[u] \in Nat /\ \A i \in Instances : dropped[i][u] \in Nat
    BY <1>1, <1>9 DEF SubsInv, Wishes, KeptOn, SubsTypes, Stamps, RequestSet
  <2> QED BY <1>2, <1>6, <1>7, <2>1 DEF FitsOn, InTurn
<1>10. ASSUME NEW u \in URLs, asked[u].does = "off" PROVE FitsOff(u, asked[u].at, p)
  <2>1. PICK i \in Instances : i = asked[u].at /\ FitsOff(u, i, q) /\ KeptOff(u, i)
    BY <1>1, <1>10 DEF SubsInv, Wishes, KeptOff, SubsTypes
  <2>2. dropped[i][u] \in Nat
    BY DEF SubsInv, SubsTypes, Stamps
  <2> QED BY <1>2, <1>6, <1>7, <2>1, <2>2 DEF FitsOff, Reconciles, KeptOff
<1>11. /\ request' = [request EXCEPT ![r] = p] /\ request[r].at # "idle" /\ p.at # "written" /\ ~p.alone
       /\ InTurn(request[r]) /\ request[r].i = p.i
  BY <1>1, <1>2, <1>5, <1>6 DEF InTurn
<1> QED
  BY <1>0, <1>8, <1>9, <1>10, <1>11, RequestMoves

LEMMA CutShortKeeps ==
    ASSUME SubsInv, NEW r \in Requests, CutShort(r)
    PROVE  SubsInv'
BY RequestEnds DEF CutShort

\* A request that has just read the list fits.
LEMMA OpenedFits ==
    ASSUME SubsInv, NEW i \in Instances
    PROVE  \E p \in RequestSet :
             /\ p = Opened(i) /\ p.at = "read" /\ p.i = i /\ ~p.alone /\ p.subs = list
             /\ Shaped(p) /\ DatedRequest(p)
             /\ \A u \in URLs : /\ asked[u].does = "on" => FitsOn(u, p)
                                /\ asked[u].does = "off" => FitsOff(u, asked[u].at, p)
<1>1. PICK p : p = Opened(i)
  OBVIOUS
<1>2. list \in Stamps /\ clock[i] \in Nat /\ \A u \in URLs : Dated(list[u], clock)
  BY DEF SubsInv, SubsTypes, DatedStores
<1>3. /\ p \in RequestSet /\ p.at = "read" /\ p.i = i /\ ~p.alone /\ p.read = list /\ p.subs = list /\ p.stamp = 0
      /\ p.held = Nothing
  BY <1>1, <1>2, IdleIsIdle DEF Opened, Idle, RequestSet, Stages
<1>4. Shaped(p)
  BY <1>3 DEF Shaped, Reconciles
<1>5. DatedRequest(p)
  BY <1>2, <1>3, NoDate DEF DatedRequest, Nothing, Nil
<1>6. ASSUME NEW u \in URLs, asked[u].does = "on" PROVE FitsOn(u, p)
  BY <1>3, <1>6 DEF SubsInv, Wishes, KeptOn, FitsOn
<1>7. ASSUME NEW u \in URLs, asked[u].does = "off" PROVE FitsOff(u, asked[u].at, p)
  BY <1>3, <1>7 DEF SubsInv, Wishes, KeptOff, FitsOff
<1> QED BY <1>1, <1>3, <1>4, <1>5, <1>6, <1>7

LEMMA FeedFillKeeps ==
    ASSUME SubsInv, NEW r \in Requests, FillCalendars(r)
    PROVE  SubsInv'
<1>1. request[r].at = "fills" /\ request[r].i \in Instances /\ ~TurnTaken(request[r].i)
  BY DEF FillCalendars, SubsInv, Shaped
<1>2. PICK p \in RequestSet :
        /\ p = Opened(request[r].i) /\ p.at = "read" /\ p.i = request[r].i /\ ~p.alone
        /\ Shaped(p) /\ DatedRequest(p)
        /\ \A u \in URLs : /\ asked[u].does = "on" => FitsOn(u, p)
                           /\ asked[u].does = "off" => FitsOff(u, asked[u].at, p)
  BY <1>1, OpenedFits
<1>3. request' = [request EXCEPT ![r] = p] /\ UNCHANGED <<clock, list, named, dropped, asked>>
  BY <1>2 DEF FillCalendars, Becomes
<1> QED BY <1>1, <1>2, <1>3, RequestMoves

LEMMA SubscribeKeeps ==
    ASSUME SubsInv, NEW r \in Requests, Subscribe(r)
    PROVE  SubsInv'
<1> USE DEF Nil
<1>0. UNCHANGED <<clock, list, named, dropped, asked>>
  BY DEF Subscribe
<1>1. PICK q \in RequestSet : q = request[r]
  BY DEF SubsInv, SubsTypes
<1>2. /\ q.at = "fetching" /\ ~TurnTaken(q.i) /\ q.i \in Instances /\ q.u \in URLs /\ q.stamp # 0
      /\ DatedRequest(q)
  BY <1>1 DEF Subscribe, SubsInv, Shaped
<1>3. CASE list[q.u] # 0
  BY <1>0, <1>1, <1>2, <1>3, RequestEnds DEF Subscribe
<1>4. CASE list[q.u] = 0
  <2>1. list \in Stamps /\ (\A u \in URLs : Dated(list[u], clock)) /\ q.stamp \in Nat /\ q.held \in Stamps
    BY DEF SubsInv, SubsTypes, DatedStores, RequestSet
  <2>2. PICK p : p = [q EXCEPT !.at = "adding", !.read = list, !.subs = [list EXCEPT ![q.u] = q.stamp]]
    OBVIOUS
  <2>3. request' = [request EXCEPT ![r] = p]
    BY <1>1, <1>4, <2>2 DEF Subscribe, Becomes
  <2>4. [list EXCEPT ![q.u] = q.stamp] \in Stamps
    BY <1>2, <2>1 DEF Stamps
  <2>5. p \in RequestSet
    BY <2>1, <2>2, <2>4 DEF RequestSet, Stages
  <2>6. /\ p.at = "adding" /\ p.i = q.i /\ p.u = q.u /\ p.stamp = q.stamp /\ p.read = list /\ p.held = q.held
        /\ p.subs = [list EXCEPT ![q.u] = q.stamp] /\ p.alone = q.alone
    BY <2>2 DEF RequestSet
  <2>7. \A v \in URLs : p.subs[v] = IF v = q.u THEN q.stamp ELSE list[v]
    BY <2>1, <2>6 DEF Stamps
  <2>8. Shaped(p) /\ DatedRequest(p)
    <3>1. Shaped(p)
      BY <1>2, <2>6, <2>7 DEF Shaped, Reconciles
    <3>2. DatedRequest(p)
      <4>1. Dated(q.stamp, clock)
        BY <1>2 DEF DatedRequest, Dated
      <4> QED BY <1>2, <2>1, <2>6, <2>7, <4>1 DEF DatedRequest
    <3> QED BY <3>1, <3>2
  <2>9. ASSUME NEW u \in URLs, asked[u].does = "on" PROVE FitsOn(u, p)
    <3>1. list[u] # 0 /\ \A i \in Instances : dropped[i][u] < list[u]
      BY <2>9 DEF SubsInv, Wishes, KeptOn
    <3> QED BY <1>4, <2>6, <2>7, <3>1 DEF FitsOn
  <2>10. ASSUME NEW u \in URLs, asked[u].does = "off" PROVE FitsOff(u, asked[u].at, p)
    BY <2>6 DEF FitsOff, Reconciles
  <2> QED BY <1>0, <1>1, <1>2, <2>3, <2>5, <2>6, <2>8, <2>9, <2>10, RequestMoves
<1> QED BY <1>3, <1>4

\* A request begins: nobody else is alone any more.
LEMMA RequestBegins ==
    ASSUME SubsInv, NEW r \in Requests, NEW p \in RequestSet, request[r].at = "idle",
           Begins(r, p),
           UNCHANGED <<list, named, dropped, asked>>,
           clock' \in [Instances -> Nat], \A j \in Instances : clock[j] <= clock'[j],
           Shaped(p), DatedRequest(p)', p.at # "written",
           InTurn(p) => ~TurnTaken(p.i),
           p.alone => /\ Rest /\ p.at = "fetching"
                      /\ \A u \in URLs : dropped[p.i][u] < p.stamp,
           \A u \in URLs : asked[u].does = "on" => FitsOn(u, p),
           \A u \in URLs : asked[u].does = "off" => FitsOff(u, asked[u].at, p)
    PROVE  SubsInv'
<1>1. /\ request'[r] = p
      /\ \A s \in Requests \ {r} : request'[s] = [request[s] EXCEPT !.alone = FALSE]
  BY DEF Begins
<1>2. ASSUME NEW s \in Requests \ {r}
      PROVE  /\ request'[s] \in RequestSet /\ ~request'[s].alone
             /\ request'[s].at = request[s].at /\ request'[s].i = request[s].i /\ request'[s].u = request[s].u
             /\ request'[s].stamp = request[s].stamp /\ request'[s].read = request[s].read
             /\ request'[s].subs = request[s].subs /\ request'[s].held = request[s].held
             /\ request'[s].todo = request[s].todo /\ request'[s].relisted = request[s].relisted
  <2>1. PICK x \in RequestSet : x = request[s]
    BY DEF SubsInv, SubsTypes
  <2>2. PICK y : y = [x EXCEPT !.alone = FALSE]
    OBVIOUS
  <2>3. /\ y \in RequestSet /\ ~y.alone
        /\ y.at = x.at /\ y.i = x.i /\ y.u = x.u /\ y.stamp = x.stamp /\ y.read = x.read
        /\ y.subs = x.subs /\ y.held = x.held /\ y.todo = x.todo /\ y.relisted = x.relisted
    BY <2>2 DEF RequestSet
  <2>4. request'[s] = y
    BY <1>1, <2>1, <2>2
  <2> QED BY <2>1, <2>3, <2>4
<1>3. SubsTypes'
  <2>1. request' \in [Requests -> RequestSet]
    BY <1>1, <1>2 DEF Begins
  <2> QED BY <2>1 DEF SubsInv, SubsTypes
<1>4. ASSUME NEW s \in Requests PROVE Shaped(request[s])' /\ DatedRequest(request[s])'
  <2>1. CASE s = r
    BY <1>1, <2>1 DEF Shaped, DatedRequest, Reconciles
  <2>2. CASE s # r
    <3>1. Shaped(request[s]) /\ DatedRequest(request[s])
      BY DEF SubsInv
    <3>2. Shaped(request[s])'
      BY <1>2, <2>2, <3>1 DEF Shaped, Reconciles
    <3>4. DatedRequest(request[s])'
      <4>1. PICK q : q = request'[s]
        OBVIOUS
      <4>2. DatedRequest(request[s]) /\ request[s] \in RequestSet /\ (request[s].at # "idle" => request[s].i \in Instances)
        BY <3>1 DEF Shaped, SubsInv, SubsTypes
      <4>3. q.at # "idle" => q.stamp <= clock'[q.i]
        BY <1>2, <2>2, <4>1, <4>2 DEF DatedRequest, SubsInv, SubsTypes, RequestSet
      <4>4. \A u \in URLs : Dated(q.subs[u], clock') /\ Dated(q.held[u], clock')
        BY <1>2, <2>2, <4>1, <4>2, DatedLater DEF DatedRequest, SubsInv, SubsTypes, RequestSet, Stamps
      <4> QED BY <4>1, <4>3, <4>4 DEF DatedRequest
    <3> QED BY <3>2, <3>4
  <2> QED BY <2>1, <2>2
<1>5. DatedStores'
  <2>1. \A u \in URLs : Dated(list[u], clock')
    BY DatedLater DEF SubsInv, SubsTypes, DatedStores, Stamps
  <2>2. ASSUME NEW i \in Instances, NEW u \in URLs PROVE Dated(named[i][u], clock')
    <3>1. named[i][u] \in Nat /\ Dated(named[i][u], clock) /\ clock \in [Instances -> Nat]
      BY DEF SubsInv, SubsTypes, DatedStores, Stamps
    <3> QED BY <3>1, DatedLater
  <2>3. \A i \in Instances, u \in URLs : dropped[i][u] <= clock'[i]
    BY DEF SubsInv, SubsTypes, DatedStores, Stamps
  <2> QED BY <2>1, <2>2, <2>3 DEF DatedStores
<1>6. OneTurn'
  BY <1>1, <1>2 DEF SubsInv, OneTurn, InTurn, TurnTaken
<1>7. AloneIs'
  BY <1>1, <1>2 DEF SubsInv, AloneIs, Rest
<1>8. ASSUME NEW i, Wrote(i)' PROVE Wrote(i)
  BY <1>1, <1>2, <1>8 DEF Wrote
<1>9. ASSUME NEW u \in URLs, asked[u].does = "on" PROVE KeptOn(u)'
  <2>1. KeptOn(u)
    BY <1>9 DEF SubsInv, Wishes
  <2>2. ASSUME NEW s \in Requests PROVE FitsOn(u, request[s])'
    <3>1. CASE s = r
      BY <1>1, <1>9, <3>1 DEF FitsOn, InTurn
    <3>2. CASE s # r
      BY <1>2, <2>1, <3>2 DEF KeptOn, FitsOn, InTurn
    <3> QED BY <3>1, <3>2
  <2> QED BY <2>1, <2>2 DEF KeptOn
<1>10. ASSUME NEW u \in URLs, asked[u].does = "off" PROVE KeptOff(u, asked[u].at)'
  <2>0. PICK i \in Instances : i = asked[u].at /\ KeptOff(u, i)
    BY <1>10 DEF SubsInv, Wishes, SubsTypes
  <2>2. ASSUME NEW s \in Requests PROVE FitsOff(u, i, request[s])'
    <3>1. CASE s = r
      BY <1>1, <1>8, <1>10, <2>0, <3>1 DEF FitsOff, Reconciles
    <3>2. CASE s # r
      BY <1>2, <1>8, <2>0, <3>2 DEF KeptOff, FitsOff, Reconciles
    <3> QED BY <3>1, <3>2
  <2>3. KeptOff(u, i)'
    BY <1>8, <2>0, <2>2 DEF KeptOff
  <2> QED BY <2>0, <2>3
<1> QED BY <1>3, <1>4, <1>5, <1>6, <1>7, <1>9, <1>10 DEF SubsInv, Wishes

LEMMA OpenKeeps ==
    ASSUME SubsInv, NEW r \in Requests, NEW i \in Instances, Open(r, i)
    PROVE  SubsInv'
<1>1. PICK p \in RequestSet :
        /\ p = Opened(i) /\ p.at = "read" /\ p.i = i /\ ~p.alone
        /\ Shaped(p) /\ DatedRequest(p)
        /\ \A u \in URLs : /\ asked[u].does = "on" => FitsOn(u, p)
                           /\ asked[u].does = "off" => FitsOff(u, asked[u].at, p)
  BY OpenedFits
<1>2. /\ request[r].at = "idle" /\ ~TurnTaken(i) /\ Begins(r, p)
      /\ UNCHANGED <<clock, list, named, dropped, asked>>
  BY <1>1 DEF Open
<1>3. clock' \in [Instances -> Nat] /\ (\A j \in Instances : clock[j] <= clock'[j]) /\ DatedRequest(p)'
  BY <1>1, <1>2 DEF SubsInv, SubsTypes, DatedRequest
<1> QED BY <1>1, <1>2, <1>3, RequestBegins

LEMMA AskToSubscribeKeeps ==
    ASSUME SubsInv, NEW r \in Requests, NEW i \in Instances, NEW v \in URLs, AskToSubscribe(r, i, v)
    PROVE  SubsInv'
<1>0. PICK t \in Times[i] \ {clock[i]} :
        /\ Shows(i, t)
        /\ Begins(r, [Idle EXCEPT !.at = "fetching", !.i = i, !.u = v, !.stamp = t, !.alone = Rest])
  BY DEF AskToSubscribe
<1>1. PICK p : p = [Idle EXCEPT !.at = "fetching", !.i = i, !.u = v, !.stamp = t, !.alone = Rest]
  OBVIOUS
<1>2. /\ UNCHANGED <<list, named, dropped, asked>> /\ request[r].at = "idle"
      /\ t \in Nat /\ t # 0 /\ clock[i] \in Nat /\ clock[i] < t
      /\ clock' \in [Instances -> Nat] /\ clock'[i] = t /\ \A j \in Instances : clock[j] <= clock'[j]
  <2>1. clock \in [Instances -> Nat] /\ clock[i] \in Nat /\ t # clock[i]
    BY <1>0 DEF SubsInv, SubsTypes
  <2>2. /\ t \in Nat /\ t # 0 /\ clock[i] <= t
        /\ clock' \in [Instances -> Nat] /\ clock'[i] = t /\ \A j \in Instances : clock[j] <= clock'[j]
    BY <1>0, <2>1, ClockShows
  <2>3. UNCHANGED <<list, named, dropped, asked>> /\ request[r].at = "idle"
    BY DEF AskToSubscribe
  <2> QED BY <2>1, <2>2, <2>3
<1>3. Begins(r, p)
  BY <1>0, <1>1
<1>4. /\ p \in RequestSet /\ p.at = "fetching" /\ p.i = i /\ p.u = v /\ p.stamp = t /\ p.alone = Rest
      /\ p.subs = Nothing /\ p.held = Nothing
  <2>1. PICK b \in BOOLEAN : b = Rest
    BY DEF Rest
  <2>2. PICK x : x = Idle
    OBVIOUS
  <2>3. x \in RequestSet /\ x.subs = Nothing /\ x.held = Nothing
    BY <2>2, IdleIsIdle DEF Idle
  <2>4. p = [x EXCEPT !.at = "fetching", !.i = i, !.u = v, !.stamp = t, !.alone = b]
    BY <1>1, <2>1, <2>2
  <2>5. p \in RequestSet
    BY <1>2, <2>3, <2>4 DEF RequestSet, Stages
  <2>6. p.at = "fetching" /\ p.i = i /\ p.u = v /\ p.stamp = t /\ p.alone = b /\ p.subs = x.subs /\ p.held = x.held
    BY <2>3, <2>4 DEF RequestSet
  <2> QED BY <2>1, <2>3, <2>5, <2>6
<1>5. Shaped(p) /\ DatedRequest(p)'
  BY <1>2, <1>4, NoDate DEF Shaped, DatedRequest, Reconciles, Nothing, Nil
<1>6. \A u \in URLs : dropped[p.i][u] < p.stamp
  BY <1>2, <1>4 DEF SubsInv, SubsTypes, DatedStores, Stamps
<1>7. \A u \in URLs : FitsOn(u, p) /\ FitsOff(u, asked[u].at, p)
  BY <1>4 DEF FitsOn, FitsOff, InTurn, Reconciles
<1> QED BY <1>2, <1>3, <1>4, <1>5, <1>6, <1>7, RequestBegins DEF InTurn

\* A request's step that changes the calendars or the records of deletes keeps
\* the invariant if no record is made for what is to be followed, and the one of
\* what is not is kept while it is needed.
LEMMA CalendarsMove ==
    ASSUME SubsInv, NEW r \in Requests, NEW p \in RequestSet,
           request[r].at # "idle",
           request' = [request EXCEPT ![r] = p],
           UNCHANGED <<list, asked>>,
           clock' \in [Instances -> Nat], \A j \in Instances : clock[j] <= clock'[j],
           named' \in [Instances -> Stamps], dropped' \in [Instances -> Stamps], DatedStores',
           Shaped(p), DatedRequest(p)', ~p.alone, ~request[r].alone,
           p.at = "written" => request[r].at = "written",
           InTurn(p) => InTurn(request[r]),
           p.at # "idle" => request[r].i = p.i,
           \A u \in URLs : asked[u].does = "on" =>
               (\A i \in Instances : dropped'[i][u] <= dropped[i][u]) /\ FitsOn(u, p)',
           \A u \in URLs, i \in Instances : asked[u].does = "off" /\ asked[u].at = i =>
               /\ named'[i][u] = 0
               /\ list[u] # 0 => \A j \in Instances : named'[j][u] <= dropped'[i][u]
               /\ dropped'[i][u] >= dropped[i][u] \/ Wrote(i)
               /\ FitsOff(u, i, p)'
    PROVE  SubsInv'
<1>1. request'[r] = p /\ \A s \in Requests \ {r} : request'[s] = request[s]
  BY DEF SubsInv, SubsTypes
<1>2. SubsTypes'
  BY DEF SubsInv, SubsTypes
<1>3. ASSUME NEW s \in Requests PROVE Shaped(request[s])' /\ DatedRequest(request[s])'
  <2>1. CASE s = r
    BY <1>1, <2>1 DEF Shaped, DatedRequest, Reconciles
  <2>2. CASE s # r
    <3>1. PICK q : q = request[s] /\ q = request'[s] /\ q \in RequestSet /\ Shaped(q) /\ DatedRequest(q)
      BY <1>1, <2>2 DEF SubsInv, SubsTypes
    <3>2. DatedRequest(q)'
      BY <3>1, StillDated DEF SubsInv, SubsTypes
    <3> QED BY <3>1, <3>2 DEF Shaped, DatedRequest, Reconciles
  <2> QED BY <2>1, <2>2
<1>5. OneTurn'
  BY <1>1 DEF SubsInv, OneTurn, InTurn
<1>6. AloneIs'
  BY <1>1 DEF SubsInv, AloneIs
<1>7. ASSUME NEW i, Wrote(i)' PROVE Wrote(i)
  BY <1>1, <1>7 DEF Wrote
<1>8. ASSUME NEW u \in URLs, asked[u].does = "on" PROVE KeptOn(u)'
  <2>1. KeptOn(u) /\ (\A i \in Instances : dropped'[i][u] <= dropped[i][u]) /\ FitsOn(u, p)'
    BY <1>8 DEF SubsInv, Wishes
  <2>2. /\ \A i \in Instances : dropped'[i][u] \in Nat /\ dropped[i][u] \in Nat
        /\ list[u] \in Nat /\ \A s \in Requests : request[s].subs[u] \in Nat
    BY DEF SubsInv, SubsTypes, Stamps, RequestSet
  <2>3. ASSUME NEW s \in Requests PROVE FitsOn(u, request[s])'
    <3>1. CASE s = r
      BY <1>1, <2>1, <3>1
    <3>2. CASE s # r
      BY <1>1, <2>1, <2>2, <3>2 DEF KeptOn, FitsOn, InTurn
    <3> QED BY <3>1, <3>2
  <2> QED BY <2>1, <2>2, <2>3 DEF KeptOn
<1>9. ASSUME NEW u \in URLs, asked[u].does = "off" PROVE KeptOff(u, asked[u].at)'
  <2>0. PICK i \in Instances : i = asked[u].at /\ KeptOff(u, i)
    BY <1>9 DEF SubsInv, Wishes, SubsTypes
  <2>1. /\ named'[i][u] = 0
        /\ list[u] # 0 => \A j \in Instances : named'[j][u] <= dropped'[i][u]
        /\ dropped'[i][u] >= dropped[i][u] \/ Wrote(i)
        /\ FitsOff(u, i, p)'
    BY <1>9, <2>0
  <2>2. /\ dropped'[i][u] \in Nat /\ dropped[i][u] \in Nat /\ list[u] \in Nat
        /\ \A s \in Requests : request[s].subs[u] \in Nat /\ request[s].held[u] \in Nat
    BY DEF SubsInv, SubsTypes, Stamps, RequestSet
  <2>3. ASSUME NEW s \in Requests PROVE FitsOff(u, i, request[s])'
    <3>1. CASE s = r
      BY <1>1, <2>1, <3>1
    <3>2. CASE s # r
      <4>1. FitsOff(u, i, request[s]) /\ (Wrote(i) => list[u] = 0)
        BY <2>0 DEF KeptOff
      <4> QED BY <1>1, <1>7, <2>1, <2>2, <3>2, <4>1 DEF FitsOff, Reconciles
    <3> QED BY <3>1, <3>2
  <2>4. KeptOff(u, i)'
    BY <1>7, <2>0, <2>1, <2>2, <2>3 DEF KeptOff
  <2> QED BY <2>0, <2>4
<1> QED BY <1>2, <1>3, <1>5, <1>6, <1>8, <1>9 DEF SubsInv, Wishes

\* An entry done with fits.
LEMMA DoneFits ==
    ASSUME SubsInv, NEW q \in RequestSet, NEW v \in URLs, q.at = "edits", Shaped(q), DatedRequest(q)
    PROVE  \E p \in RequestSet :
             /\ p = Done(q, v) /\ p.at = "edits" /\ p.i = q.i /\ p.alone = q.alone /\ p.read = q.read
             /\ p.subs = q.subs /\ p.todo = q.todo \ {v} /\ p.stamp = q.stamp
             /\ \A u \in URLs : p.held[u] = (IF u = v THEN 0 ELSE q.held[u])
             /\ Shaped(p) /\ DatedRequest(p)
<1>1. PICK p : p = Done(q, v)
  OBVIOUS
<1>2. q.held \in Stamps /\ q.todo \in SUBSET URLs
  BY DEF RequestSet
<1>3. [q.held EXCEPT ![v] = 0] \in Stamps
  BY <1>2 DEF Stamps
<1>4. /\ p \in RequestSet /\ p.at = "edits" /\ p.i = q.i /\ p.alone = q.alone /\ p.read = q.read
      /\ p.subs = q.subs /\ p.todo = q.todo \ {v} /\ p.stamp = q.stamp /\ p.held = [q.held EXCEPT ![v] = 0]
      /\ p.relisted = q.relisted
  BY <1>1, <1>2, <1>3 DEF Done, Nil, RequestSet
<1>5. \A u \in URLs : p.held[u] = (IF u = v THEN 0 ELSE q.held[u])
  BY <1>2, <1>4 DEF Stamps
<1>6. Shaped(p)
  BY <1>4 DEF Shaped, Reconciles
<1>7. DatedRequest(p)
  BY <1>4, <1>5, NoDate DEF DatedRequest
<1> QED BY <1>1, <1>4, <1>5, <1>6, <1>7

\* What is known of u by a request that edits.
LEMMA EditsFit ==
    ASSUME SubsInv, NEW r \in Requests, request[r].at = "edits"
    PROVE  /\ request[r] \in RequestSet /\ request[r].i \in Instances /\ ~request[r].alone
           /\ Shaped(request[r]) /\ DatedRequest(request[r])
           /\ \A u \in URLs : asked[u].does = "on" => FitsOn(u, request[r]) /\ KeptOn(u)
           /\ \A u \in URLs : asked[u].does = "off" =>
                FitsOff(u, asked[u].at, request[r]) /\ KeptOff(u, asked[u].at) /\ asked[u].at \in Instances
BY DEF SubsInv, SubsTypes, Shaped, AloneIs, Wishes, KeptOn, KeptOff

\* Create and Rename: the calendar at q.i gets the entry's date, or is left.
LEMMA CalendarNamed ==
    ASSUME SubsInv, NEW r \in Requests, NEW v \in URLs,
           request[r].at = "edits", v \in request[r].todo,
           Becomes(r, Done(request[r], v)),
           UNCHANGED <<clock, list, asked>>,
           named' = named \/ named' = [named EXCEPT ![request[r].i][v] = request[r].subs[v]],
           dropped' = dropped \/ (dropped' = [dropped EXCEPT ![request[r].i][v] = 0])
    PROVE  SubsInv'
<1>1. PICK q \in RequestSet : q = request[r] /\ q.i \in Instances /\ ~q.alone /\ Shaped(q) /\ DatedRequest(q)
  BY EditsFit
<1>2. PICK p \in RequestSet :
         /\ p = Done(q, v) /\ p.at = "edits" /\ p.i = q.i /\ p.alone = q.alone /\ p.read = q.read
         /\ p.subs = q.subs /\ p.todo = q.todo \ {v} /\ p.stamp = q.stamp
         /\ \A u \in URLs : p.held[u] = (IF u = v THEN 0 ELSE q.held[u])
         /\ Shaped(p) /\ DatedRequest(p)
  BY <1>1, DoneFits
<1>3. /\ q.subs[v] # 0 /\ q.subs[v] \in Nat /\ Dated(q.subs[v], clock)
      /\ clock \in [Instances -> Nat] /\ clock' = clock /\ \A j \in Instances : clock[j] <= clock'[j]
  BY <1>1 DEF Shaped, DatedRequest, RequestSet, Stamps, SubsInv, SubsTypes
<1>4. /\ named \in [Instances -> Stamps] /\ dropped \in [Instances -> Stamps]
      /\ \A i \in Instances, u \in URLs : named[i][u] \in Nat /\ dropped[i][u] \in Nat
  BY DEF SubsInv, SubsTypes, Stamps
<1>5. /\ named' \in [Instances -> Stamps] /\ dropped' \in [Instances -> Stamps]
      /\ \A i \in Instances, u \in URLs :
           /\ named'[i][u] = named[i][u] \/ (i = q.i /\ u = v /\ named'[i][u] = q.subs[v])
           /\ dropped'[i][u] = dropped[i][u] \/ (i = q.i /\ u = v /\ dropped'[i][u] = 0)
  <2>1. named' \in [Instances -> Stamps] /\ dropped' \in [Instances -> Stamps]
    <3>1. [named EXCEPT ![q.i][v] = q.subs[v]] \in [Instances -> Stamps]
      BY <1>1, <1>3, <1>4 DEF Stamps
    <3>2. [dropped EXCEPT ![q.i][v] = 0] \in [Instances -> Stamps]
      BY <1>1, <1>4 DEF Stamps
    <3> QED BY <1>1, <1>4, <3>1, <3>2
  <2>2. \A i \in Instances, u \in URLs : named'[i][u] = named[i][u] \/ (i = q.i /\ u = v /\ named'[i][u] = q.subs[v])
    BY <1>1, <1>4 DEF Stamps
  <2>3. \A i \in Instances, u \in URLs : dropped'[i][u] = dropped[i][u] \/ (i = q.i /\ u = v /\ dropped'[i][u] = 0)
    BY <1>1, <1>4 DEF Stamps
  <2> QED BY <2>1, <2>2, <2>3
<1>6. DatedStores' /\ DatedRequest(p)'
  <2>1. \A i \in Instances, u \in URLs : Dated(named'[i][u], clock')
    BY <1>3, <1>5 DEF SubsInv, DatedStores
  <2>2. \A i \in Instances, u \in URLs : dropped'[i][u] <= clock'[i]
    BY <1>3, <1>4, <1>5 DEF SubsInv, DatedStores
  <2>3. DatedRequest(p)'
    BY <1>2, <1>3 DEF DatedRequest
  <2> QED BY <1>3, <2>1, <2>2, <2>3 DEF SubsInv, DatedStores
<1>7. ASSUME NEW u \in URLs, asked[u].does = "on"
      PROVE  (\A i \in Instances : dropped'[i][u] <= dropped[i][u]) /\ FitsOn(u, p)'
  <2>1. FitsOn(u, q) /\ q.subs[u] \in Nat
    BY <1>1, <1>7, EditsFit DEF RequestSet, Stamps
  <2>2. \A i \in Instances : dropped'[i][u] <= dropped[i][u] /\ dropped'[i][u] \in Nat
    BY <1>4, <1>5
  <2> QED BY <1>1, <1>2, <1>4, <2>1, <2>2 DEF FitsOn, InTurn
<1>8. ASSUME NEW u \in URLs, NEW i \in Instances, asked[u].does = "off", asked[u].at = i
      PROVE  /\ named'[i][u] = 0
             /\ list[u] # 0 => \A j \in Instances : named'[j][u] <= dropped'[i][u]
             /\ dropped'[i][u] >= dropped[i][u] \/ Wrote(i)
             /\ FitsOff(u, i, p)'
  <2>1. FitsOff(u, i, q) /\ KeptOff(u, i)
    BY <1>1, <1>8, EditsFit
  <2>2. ~(q.i = i /\ u = v)
    BY <1>1, <1>3, <2>1 DEF FitsOff
  <2>3. dropped'[i][u] = dropped[i][u] /\ named'[i][u] = named[i][u]
    BY <1>5, <2>2
  <2>4. list[u] # 0 => \A j \in Instances : named'[j][u] <= dropped'[i][u]
    BY <1>1, <1>5, <2>1, <2>3 DEF KeptOff, FitsOff, Reconciles
  <2>5. FitsOff(u, i, p)'
    BY <1>1, <1>2, <1>4, <2>1, <2>3 DEF FitsOff, Reconciles
  <2> QED BY <1>4, <2>1, <2>3, <2>4, <2>5 DEF KeptOff
<1>9. request' = [request EXCEPT ![r] = p]
  BY <1>1, <1>2 DEF Becomes
<1>10. /\ request[r].at # "idle" /\ p.at # "written" /\ ~p.alone /\ ~request[r].alone
       /\ InTurn(request[r]) /\ request[r].i = p.i
  BY <1>1, <1>2 DEF InTurn
<1>11. named' \in [Instances -> Stamps] /\ dropped' \in [Instances -> Stamps]
  BY <1>5
<1>12. clock' \in [Instances -> Nat] /\ \A j \in Instances : clock[j] <= clock'[j]
  BY <1>3
<1>13. Shaped(p)
  BY <1>2
<1> QED BY <1>6, <1>7, <1>8, <1>9, <1>10, <1>11, <1>12, <1>13, CalendarsMove

LEMMA CreateKeeps ==
    ASSUME SubsInv, NEW r \in Requests, NEW v \in URLs, CreateCalendar(r, v)
    PROVE  SubsInv'
BY CalendarNamed DEF CreateCalendar, Nil

LEMMA RenameKeeps ==
    ASSUME SubsInv, NEW r \in Requests, NEW v \in URLs, Rename(r, v)
    PROVE  SubsInv'
<1>1. CASE named[request[r].i][v] = 0
  BY <1>1, RequestEnds DEF Rename, Nil
<1>2. CASE named[request[r].i][v] # 0
  BY <1>2, CalendarNamed DEF Rename, Nil
<1> QED BY <1>1, <1>2

LEMMA DeleteUnlistedKeeps ==
    ASSUME SubsInv, NEW r \in Requests, NEW v \in URLs, DeleteUnlisted(r, v)
    PROVE  SubsInv'
<1> USE DEF Nil
<1>1. PICK q \in RequestSet : q = request[r]
  BY DEF SubsInv, SubsTypes
<1>2. /\ q.at = "written" /\ q.i \in Instances /\ ~q.alone /\ q.held[v] # 0 /\ Shaped(q) /\ DatedRequest(q)
      /\ UNCHANGED <<list, asked>> /\ clock \in [Instances -> Nat]
  BY <1>1 DEF DeleteUnlisted, SubsInv, SubsTypes, Shaped, AloneIs
<1>3. CASE named[q.i][v] = 0
  BY <1>1, <1>2, <1>3, RequestEnds DEF DeleteUnlisted
<1>4. CASE named[q.i][v] # 0
  <2>1. PICK p : p = [q EXCEPT !.held[v] = 0, !.drop = @ \cup {v}]
    OBVIOUS
  <2>2. PICK t \in Times[q.i] :
           /\ request' = [request EXCEPT ![r] = p] /\ Shows(q.i, t)
           /\ named' = [named EXCEPT ![q.i][v] = 0] /\ dropped' = [dropped EXCEPT ![q.i][v] = t]
    BY <1>1, <1>4, <2>1 DEF DeleteUnlisted, Becomes
  <2>20. /\ t \in Nat /\ clock' \in [Instances -> Nat] /\ clock'[q.i] = t
         /\ \A j \in Instances : clock[j] <= clock'[j]
    BY <1>2, <2>2, ClockShows
  <2>3. q.held \in Stamps /\ q.drop \in SUBSET URLs /\ [q.held EXCEPT ![v] = 0] \in Stamps
    BY DEF RequestSet, Stamps
  <2>4. /\ p \in RequestSet /\ p.at = "written" /\ p.i = q.i /\ ~p.alone /\ p.subs = q.subs /\ p.stamp = q.stamp
        /\ p.held = [q.held EXCEPT ![v] = 0]
    BY <1>2, <2>1, <2>3 DEF RequestSet
  <2>5. /\ named \in [Instances -> Stamps] /\ dropped \in [Instances -> Stamps]
        /\ \A i \in Instances, u \in URLs : named[i][u] \in Nat /\ dropped[i][u] \in Nat
    BY DEF SubsInv, SubsTypes, Stamps
  <2>6. \A u \in URLs : p.held[u] = IF u = v THEN 0 ELSE q.held[u]
    BY <2>3, <2>4 DEF Stamps
  <2>7. Shaped(p) /\ DatedRequest(p)'
    <3>1. Shaped(p) /\ DatedRequest(p)
      BY <1>2, <2>4, <2>6, NoDate DEF Shaped, DatedRequest, Reconciles
    <3> QED BY <1>2, <2>4, <2>20, <3>1, StillDated
  <2>8. named' \in [Instances -> Stamps] /\ dropped' \in [Instances -> Stamps]
    BY <2>2, <2>20, <2>5 DEF Stamps
  <2>9. \A i \in Instances, u \in URLs :
           IF i = q.i /\ u = v THEN named'[i][u] = 0 /\ dropped'[i][u] = t
           ELSE named'[i][u] = named[i][u] /\ dropped'[i][u] = dropped[i][u]
    BY <2>2, <2>5 DEF Stamps
  <2>10. DatedStores'
    <3>1. \A u \in URLs : Dated(list[u], clock')
      BY <1>2, <2>20, DatedLater DEF SubsInv, SubsTypes, DatedStores, Stamps
    <3>2. \A i \in Instances, u \in URLs : Dated(named[i][u], clock) /\ dropped[i][u] <= clock[i]
      BY DEF SubsInv, DatedStores
    <3>3. ASSUME NEW i \in Instances, NEW u \in URLs PROVE Dated(named'[i][u], clock')
      <4>1. Dated(named[i][u], clock')
        BY <1>2, <2>20, <2>5, <3>2, DatedLater
      <4>2. named'[i][u] = 0 \/ named'[i][u] = named[i][u]
        BY <2>9
      <4> QED BY <4>1, <4>2, NoDate
    <3>4. ASSUME NEW i \in Instances, NEW u \in URLs PROVE dropped'[i][u] <= clock'[i]
      BY <1>2, <2>20, <2>5, <2>9, <3>2
    <3> QED BY <1>2, <3>1, <3>3, <3>4 DEF DatedStores
  <2>11. ASSUME NEW u \in URLs, asked[u].does = "on"
         PROVE  (\A i \in Instances : dropped'[i][u] <= dropped[i][u]) /\ FitsOn(u, p)'
    <3>1. FitsOn(u, q)
      BY <1>1, <2>11 DEF SubsInv, Wishes, KeptOn
    <3>2. u # v /\ q.held[u] = 0
      BY <1>2, <3>1 DEF FitsOn
    <3> QED BY <2>4, <2>5, <2>6, <2>9, <3>2 DEF FitsOn, InTurn
  <2>12. ASSUME NEW u \in URLs, NEW i \in Instances, asked[u].does = "off", asked[u].at = i
         PROVE  /\ named'[i][u] = 0
                /\ list[u] # 0 => \A j \in Instances : named'[j][u] <= dropped'[i][u]
                /\ dropped'[i][u] >= dropped[i][u] \/ Wrote(i)
                /\ FitsOff(u, i, p)'
    <3>1. KeptOff(u, i)
      BY <2>12 DEF SubsInv, Wishes
    <3>2. ~(i = q.i /\ u = v)
      BY <1>4, <3>1 DEF KeptOff
    <3>3. FitsOff(u, i, p)'
      BY <2>4 DEF FitsOff, Reconciles
    <3> QED BY <2>5, <2>9, <3>1, <3>2, <3>3 DEF KeptOff
  <2> QED BY <1>1, <1>2, <2>2, <2>20, <2>4, <2>7, <2>8, <2>10, <2>11, <2>12, CalendarsMove DEF InTurn
<1> QED BY <1>3, <1>4

LEMMA ToldKeeps ==
    ASSUME SubsInv, NEW r \in Requests, Told(r)
    PROVE  SubsInv'
<1> USE DEF Nil
<1>1. PICK q \in RequestSet : q = request[r]
  BY DEF SubsInv, SubsTypes
<1>2. q.at = "written" /\ q.i \in Instances /\ ~q.alone /\ UNCHANGED <<clock, list, named, asked>>
  BY <1>1 DEF Told, SubsInv, Shaped, AloneIs
<1>3. /\ named \in [Instances -> Stamps] /\ dropped \in [Instances -> Stamps] /\ clock \in [Instances -> Nat]
      /\ \A i \in Instances, u \in URLs : named[i][u] \in Nat /\ dropped[i][u] \in Nat /\ clock[i] \in Nat
      /\ clock' \in [Instances -> Nat] /\ \A i \in Instances : clock[i] <= clock'[i]
  BY <1>2 DEF SubsInv, SubsTypes, Stamps
<1>4. dropped' = [dropped EXCEPT ![q.i] = [u \in URLs |-> IF u \in q.drop THEN 0 ELSE dropped[q.i][u]]]
  BY <1>1, <1>2, <1>3 DEF Told
<1>5. [u \in URLs |-> IF u \in q.drop THEN 0 ELSE dropped[q.i][u]] \in Stamps
  BY <1>2, <1>3 DEF Stamps
<1>6. dropped' \in [Instances -> Stamps]
  BY <1>3, <1>4, <1>5
<1>7. \A i \in Instances, u \in URLs : dropped'[i][u] = dropped[i][u] \/ (i = q.i /\ dropped'[i][u] = 0)
  BY <1>3, <1>4
<1>8. DatedStores'
  BY <1>2, <1>3, <1>7 DEF SubsInv, DatedStores
<1>9. ASSUME NEW u \in URLs, asked[u].does = "on"
      PROVE  (\A i \in Instances : dropped'[i][u] <= dropped[i][u]) /\ FitsOn(u, Idle)'
  BY <1>3, <1>7, IdleIsIdle DEF FitsOn, InTurn
<1>10. ASSUME NEW u \in URLs, NEW i \in Instances, asked[u].does = "off", asked[u].at = i
       PROVE  /\ named'[i][u] = 0
              /\ list[u] # 0 => \A j \in Instances : named'[j][u] <= dropped'[i][u]
              /\ dropped'[i][u] >= dropped[i][u] \/ Wrote(i)
              /\ FitsOff(u, i, Idle)'
  <2>1. KeptOff(u, i)
    BY <1>10 DEF SubsInv, Wishes
  <2>2. i = q.i => Wrote(i)
    BY <1>1, <1>2 DEF Wrote
  <2>3. FitsOff(u, i, Idle)'
    BY IdleIsIdle DEF FitsOff, Reconciles
  <2> QED BY <1>2, <1>3, <1>7, <2>1, <2>2, <2>3 DEF KeptOff
<1>11. request' = [request EXCEPT ![r] = Idle]
  BY DEF Told, Becomes
<1> HIDE DEF Nil
<1>12. DatedRequest(Idle)'
  BY IdleIsIdle, NoDate DEF DatedRequest
<1> QED BY <1>1, <1>2, <1>3, <1>6, <1>8, <1>9, <1>10, <1>11, <1>12, IdleIsIdle, IdleFits, CalendarsMove DEF InTurn

LEMMA WriteKeeps ==
    ASSUME SubsInv, NEW r \in Requests, Write(r)
    PROVE  SubsInv'
<1> USE DEF Nil
<1>1. PICK q \in RequestSet : q = request[r] /\ q.i \in Instances /\ ~q.alone /\ Shaped(q) /\ DatedRequest(q)
  BY EditsFit DEF Write
<1>2. q.at = "edits" /\ q.todo = {} /\ UNCHANGED <<clock, named, dropped>>
  BY <1>1 DEF Write
<1>3. PICK p : p = [q EXCEPT !.at = "written"]
  OBVIOUS
<1>4. /\ p \in RequestSet /\ p.at = "written" /\ p.i = q.i /\ ~p.alone /\ p.subs = q.subs /\ p.held = q.held
      /\ p.stamp = q.stamp
  BY <1>1, <1>3 DEF RequestSet, Stages
<1>5. request' = [request EXCEPT ![r] = p]
  BY <1>1, <1>3 DEF Write, Becomes
<1>6. request'[r] = p /\ \A s \in Requests \ {r} : request'[s] = request[s]
  BY <1>5 DEF SubsInv, SubsTypes
<1>7. /\ list' \in Stamps /\ \A u \in URLs : Dated(list'[u], clock)
      /\ \/ \A u \in URLs : asked'[u] = Unclear
         \/ asked' = asked /\ q.relisted /\ list = q.read /\ list' = q.subs
         \/ asked' = asked /\ ~q.relisted /\ list' = list
      /\ asked' = asked \/ asked' = [u \in URLs |-> Unclear]
  <2>1. q.subs \in Stamps /\ list \in Stamps /\ \A u \in URLs : Dated(q.subs[u], clock) /\ Dated(list[u], clock)
    BY <1>1 DEF RequestSet, DatedRequest, SubsInv, SubsTypes, DatedStores
  <2>2. CASE q.relisted
    BY <1>1, <2>1, <2>2 DEF Write, Put
  <2>3. CASE ~q.relisted
    BY <1>1, <2>1, <2>3 DEF Write
  <2> QED BY <2>2, <2>3
<1>8. SubsTypes'
  <2>1. asked' \in [URLs -> [does : {"on", "off", "unclear"}, at : Instances \cup {Nil}]]
    BY <1>7 DEF Unclear, SubsInv, SubsTypes
  <2>2. \A u \in URLs : asked'[u].does = "off" => asked'[u].at \in Instances
    BY <1>7 DEF Unclear, SubsInv, SubsTypes
  <2> HIDE DEF Nil
  <2> QED BY <1>2, <1>4, <1>5, <1>7, <2>1, <2>2 DEF SubsInv, SubsTypes
<1>9. ASSUME NEW s \in Requests PROVE Shaped(request[s])' /\ DatedRequest(request[s])'
  <2>1. CASE s = r
    <3>1. Shaped(p)
      BY <1>1, <1>4 DEF Shaped, Reconciles
    <3>2. DatedRequest(p)'
      BY <1>1, <1>2, <1>4 DEF DatedRequest
    <3> QED BY <1>6, <2>1, <3>1, <3>2 DEF Shaped, Reconciles
  <2>2. CASE s # r
    BY <1>2, <1>6, <2>2 DEF SubsInv, Shaped, DatedRequest, Reconciles
  <2> QED BY <2>1, <2>2
<1>10. DatedStores'
  BY <1>2, <1>7 DEF SubsInv, DatedStores
<1>11. OneTurn'
  BY <1>4, <1>6 DEF SubsInv, OneTurn, InTurn
<1>12. AloneIs'
  BY <1>1, <1>2, <1>4, <1>6 DEF SubsInv, AloneIs
<1>13. ASSUME NEW u \in URLs, asked'[u].does = "on" PROVE KeptOn(u)'
  <2>1. asked' = asked
    BY <1>7, <1>13 DEF Unclear
  <2>2. KeptOn(u) /\ FitsOn(u, q)
    BY <1>1, <1>13, <2>1 DEF SubsInv, Wishes, KeptOn
  <2>3. \A i \in Instances : dropped[i][u] \in Nat
    BY DEF SubsInv, SubsTypes, Stamps
  <2>4. list' = q.subs \/ list' = list
    BY <1>7, <1>13 DEF Unclear
  <2>5. list'[u] # 0 /\ \A i \in Instances : dropped[i][u] < list'[u]
    <3>1. q.subs[u] \in Nat /\ (Instances # {}) /\ \A i \in Instances : dropped[i][u] < q.subs[u]
      BY <1>1, <1>2, <2>2 DEF FitsOn, InTurn, RequestSet, Stamps
    <3> QED BY <1>1, <2>2, <2>3, <2>4, <3>1 DEF KeptOn
  <2>6. ASSUME NEW s \in Requests PROVE FitsOn(u, request[s])'
    <3>1. CASE s = r
      BY <1>2, <1>4, <1>6, <2>2, <3>1 DEF FitsOn, InTurn
    <3>2. CASE s # r
      BY <1>2, <1>6, <2>2, <3>2 DEF KeptOn, FitsOn, InTurn
    <3> QED BY <3>1, <3>2
  <2> QED BY <1>2, <2>5, <2>6 DEF KeptOn
<1>14. ASSUME NEW u \in URLs, asked'[u].does = "off" PROVE KeptOff(u, asked[u].at)'
  <2>1. asked' = asked
    BY <1>7, <1>14 DEF Unclear
  <2>2. PICK i \in Instances : i = asked[u].at /\ KeptOff(u, i) /\ FitsOff(u, i, q)
    BY <1>1, <1>14, <2>1 DEF SubsInv, Wishes, KeptOff, SubsTypes
  <2>3. list'[u] # 0 => list[u] # 0 /\ list'[u] <= dropped[i][u]
    <3>1. \/ q.relisted /\ list = q.read /\ list' = q.subs
          \/ list' = list
      BY <1>7, <1>14 DEF Unclear
    <3>2. q.subs[u] # 0 => q.read[u] # 0
      BY <1>1, <1>2 DEF Shaped, Reconciles
    <3> QED BY <1>2, <2>2, <3>1, <3>2 DEF KeptOff, FitsOff, Reconciles
  <2>4. q.i = i => list'[u] = 0
    <3>1. q.i = i => q.subs[u] = 0
      BY <1>2, <2>2 DEF FitsOff
    <3>2. CASE q.relisted
      BY <1>7, <1>14, <3>1, <3>2 DEF Unclear
    <3>3. CASE ~q.relisted
      <4>1. q.subs = q.read /\ list' = list
        BY <1>1, <1>2, <1>7, <1>14, <3>3 DEF Shaped, Unclear
      <4> QED BY <1>2, <2>2, <3>1, <4>1 DEF FitsOff, Reconciles
    <3> QED BY <3>2, <3>3
  <2>5. Wrote(i)' => Wrote(i) \/ q.i = i
    BY <1>4, <1>6 DEF Wrote
  <2>6. ASSUME NEW s \in Requests PROVE FitsOff(u, i, request[s])'
    <3>1. CASE s = r
      BY <1>4, <1>6, <3>1 DEF FitsOff, Reconciles
    <3>2. CASE s # r
      <4>1. FitsOff(u, i, request[s])
        BY <2>2 DEF KeptOff
      <4>2. q.i = i => ~(request[s].i = i /\ request[s].at = "read")
        BY <1>1, <1>2, <3>2 DEF SubsInv, OneTurn, InTurn
      <4> QED BY <1>2, <1>6, <2>3, <2>5, <3>2, <4>1, <4>2 DEF FitsOff, Reconciles
    <3> QED BY <3>1, <3>2
  <2>7. KeptOff(u, i)'
    BY <1>2, <2>2, <2>3, <2>4, <2>5, <2>6 DEF KeptOff
  <2> QED BY <2>1, <2>2, <2>7
<1> QED BY <1>8, <1>9, <1>10, <1>11, <1>12, <1>13, <1>14 DEF SubsInv, Wishes

LEMMA SubscribedKeeps ==
    ASSUME SubsInv, NEW r \in Requests, Subscribed(r)
    PROVE  SubsInv'
<1> USE DEF Nil
<1>1. PICK q \in RequestSet : q = request[r]
  BY DEF SubsInv, SubsTypes
<1>2. /\ q.at = "adding" /\ q.i \in Instances /\ q.u \in URLs /\ q.stamp # 0 /\ Shaped(q) /\ DatedRequest(q)
      /\ UNCHANGED <<clock, named, dropped>> /\ list' = q.subs
  BY <1>1 DEF Subscribed, SubsInv, Shaped
<1>3. PICK p : p = [Idle EXCEPT !.at = "fills", !.i = q.i]
  OBVIOUS
<1>4. p \in RequestSet /\ p.at = "fills" /\ p.i = q.i /\ ~p.alone /\ p.subs = Nothing /\ p.held = Nothing /\ p.stamp = 0
  BY <1>2, <1>3, IdleIsIdle DEF RequestSet, Stages, Idle
<1>5. request' = [request EXCEPT ![r] = p]
  BY <1>1, <1>3 DEF Subscribed, Becomes
<1>6. request'[r] = p /\ \A s \in Requests \ {r} : request'[s] = request[s]
  BY <1>5 DEF SubsInv, SubsTypes
<1>7. q.subs \in Stamps /\ clock \in [Instances -> Nat] /\ q.stamp \in Nat /\ \A u \in URLs : Dated(q.subs[u], clock)
  BY <1>2 DEF RequestSet, DatedRequest, SubsInv, SubsTypes
<1>8. /\ asked' \in [URLs -> [does : {"on", "off", "unclear"}, at : Instances \cup {Nil}]]
      /\ \A u \in URLs :
           \/ asked'[u] = Unclear
           \/ list = q.read /\ u # q.u /\ asked'[u] = asked[u]
           \/ list = q.read /\ u = q.u /\ asked'[u] = [does |-> "on", at |-> q.i] /\ q.alone /\ InOrder(q.i, q.stamp)
  <2>0. asked \in [URLs -> [does : {"on", "off", "unclear"}, at : Instances \cup {Nil}]]
    BY DEF SubsInv, SubsTypes
  <2>1. CASE list # q.read
    BY <1>1, <2>1 DEF Subscribed, Unclear
  <2>2. CASE list = q.read
    <3>1. PICK a : a = IF q.alone /\ InOrder(q.i, q.stamp) THEN [does |-> "on", at |-> q.i] ELSE Unclear
      OBVIOUS
    <3>2. asked' = [asked EXCEPT ![q.u] = a]
      BY <1>1, <2>2, <3>1 DEF Subscribed
    <3>3. a \in [does : {"on", "off", "unclear"}, at : Instances \cup {Nil}]
      BY <1>2, <3>1 DEF Unclear
    <3>4. asked'[q.u] = a /\ \A u \in URLs \ {q.u} : asked'[u] = asked[u]
      BY <1>2, <2>0, <3>2
    <3>5. a = Unclear \/ (a = [does |-> "on", at |-> q.i] /\ q.alone /\ InOrder(q.i, q.stamp))
      BY <3>1
    <3> QED BY <2>0, <2>2, <3>2, <3>3, <3>4, <3>5
  <2> QED BY <2>1, <2>2
<1>9. SubsTypes'
  <2>1. \A u \in URLs : asked'[u].does = "off" => asked'[u].at \in Instances
    BY <1>8 DEF Unclear, SubsInv, SubsTypes
  <2>2. request' \in [Requests -> RequestSet]
    BY <1>4, <1>5 DEF SubsInv, SubsTypes
  <2> HIDE DEF Nil
  <2> QED BY <1>2, <1>7, <1>8, <2>1, <2>2 DEF SubsInv, SubsTypes
<1>10. ASSUME NEW s \in Requests PROVE Shaped(request[s])' /\ DatedRequest(request[s])'
  <2>1. CASE s = r
    BY <1>2, <1>4, <1>6, <1>7, <2>1, NoDate DEF Shaped, Reconciles, DatedRequest, Nothing
  <2>2. CASE s # r
    BY <1>2, <1>6, <2>2 DEF SubsInv, Shaped, DatedRequest, Reconciles
  <2> QED BY <2>1, <2>2
<1>11. DatedStores'
  BY <1>2, <1>7 DEF SubsInv, DatedStores
<1>12. OneTurn'
  BY <1>4, <1>6 DEF SubsInv, OneTurn, InTurn
<1>13. AloneIs'
  BY <1>1, <1>2, <1>4, <1>6 DEF SubsInv, AloneIs
<1>14. ASSUME NEW u \in URLs, u # q.u, list = q.read PROVE list'[u] = list[u]
  BY <1>2, <1>14 DEF Shaped
<1>15. ASSUME NEW u \in URLs, asked'[u].does = "on" PROVE KeptOn(u)'
  <2>1. CASE list = q.read /\ u # q.u /\ asked'[u] = asked[u]
    <3>1. KeptOn(u) /\ list'[u] = list[u]
      BY <1>14, <1>15, <2>1 DEF SubsInv, Wishes
    <3>2. ASSUME NEW s \in Requests PROVE FitsOn(u, request[s])'
      <4>1. CASE s = r
        BY <1>4, <1>6, <4>1 DEF FitsOn, InTurn
      <4>2. CASE s # r
        BY <1>2, <1>6, <3>1, <4>2 DEF KeptOn, FitsOn, InTurn
      <4> QED BY <4>1, <4>2
    <3> QED BY <1>2, <3>1, <3>2 DEF KeptOn
  <2>2. CASE u = q.u /\ q.alone /\ InOrder(q.i, q.stamp)
    <3>1. /\ \A s \in Requests \ {r} : request[s].at = "idle"
          /\ dropped[q.i][u] < q.stamp
      BY <1>1, <2>2 DEF SubsInv, AloneIs, InOrder
    <3>4. ASSUME NEW i \in Instances PROVE dropped[i][u] < q.stamp
      <4>1. dropped[i][u] \in Nat /\ clock[i] \in Nat /\ dropped[i][u] <= clock[i]
        BY DEF SubsInv, SubsTypes, DatedStores, Stamps
      <4> QED BY <1>7, <2>2, <3>1, <4>1 DEF InOrder
    <3>2. list'[u] = q.stamp
      BY <1>2, <2>2 DEF Shaped
    <3>3. ASSUME NEW s \in Requests PROVE FitsOn(u, request[s])'
      BY <1>4, <1>6, <3>1 DEF FitsOn, InTurn
    <3> QED BY <1>2, <2>2, <3>2, <3>3, <3>4 DEF KeptOn
  <2> QED BY <1>8, <1>15, <2>1, <2>2 DEF Unclear
<1>16. ASSUME NEW u \in URLs, asked'[u].does = "off" PROVE KeptOff(u, asked[u].at)'
  <2>1. list = q.read /\ u # q.u /\ asked'[u] = asked[u] /\ list'[u] = list[u]
    BY <1>8, <1>14, <1>16 DEF Unclear
  <2>2. PICK i \in Instances : i = asked[u].at /\ KeptOff(u, i)
    BY <1>16, <2>1 DEF SubsInv, Wishes, SubsTypes
  <2>3. Wrote(i)' => Wrote(i)
    BY <1>4, <1>6 DEF Wrote
  <2>4. ASSUME NEW s \in Requests PROVE FitsOff(u, i, request[s])'
    <3>1. CASE s = r
      BY <1>4, <1>6, <3>1 DEF FitsOff, Reconciles
    <3>2. CASE s # r
      BY <1>2, <1>6, <2>1, <2>2, <2>3, <3>2 DEF KeptOff, FitsOff, Reconciles
    <3> QED BY <3>1, <3>2
  <2>5. KeptOff(u, i)'
    BY <1>2, <2>1, <2>2, <2>3, <2>4 DEF KeptOff
  <2> QED BY <2>1, <2>2, <2>5
<1> QED BY <1>9, <1>10, <1>11, <1>12, <1>13, <1>15, <1>16 DEF SubsInv, Wishes

\* What the reader does to a calendar: the clock there goes forward, and requests
\* go on with what they had.
LEMMA ReaderActs ==
    ASSUME SubsInv, NEW i \in Instances, NEW v \in URLs,
           clock' \in [Instances -> Nat], clock[i] < clock'[i], \A j \in Instances : clock[j] <= clock'[j],
           named' \in [Instances -> Stamps], dropped' \in [Instances -> Stamps],
           \A j \in Instances, u \in URLs :
              /\ Dated(named'[j][u], clock') /\ dropped'[j][u] <= clock'[j]
              /\ u # v => named'[j][u] = named[j][u] /\ dropped'[j][u] = dropped[j][u]
              /\ j # i => dropped'[j][u] = dropped[j][u],
           asked' \in [URLs -> [does : {"on", "off", "unclear"}, at : Instances \cup {Nil}]],
           \A u \in URLs : asked'[u].does = "off" => asked'[u].at \in Instances,
           \A u \in URLs : u # v => asked'[u] = asked[u],
           asked'[v].does = "on" => KeptOn(v)',
           asked'[v].does = "off" => KeptOff(v, asked[v].at)',
           UNCHANGED <<list, request>>
    PROVE  SubsInv'
<1>0. clock \in [Instances -> Nat]
  BY DEF SubsInv, SubsTypes
<1>1. SubsTypes'
  BY DEF SubsInv, SubsTypes
<1>2. ASSUME NEW s \in Requests PROVE Shaped(request[s])' /\ DatedRequest(request[s])'
  <2>1. PICK q : q = request[s] /\ q = request'[s] /\ q \in RequestSet /\ Shaped(q) /\ DatedRequest(q)
    BY DEF SubsInv, SubsTypes
  <2>2. DatedRequest(q)'
    BY <1>0, <2>1, StillDated
  <2> QED BY <2>1, <2>2 DEF Shaped, DatedRequest, Reconciles
<1>3. DatedStores'
  <2>1. \A u \in URLs : Dated(list[u], clock')
    BY <1>0, DatedLater DEF SubsInv, SubsTypes, DatedStores, Stamps
  <2> QED BY <2>1 DEF DatedStores
<1>4. OneTurn'
  BY DEF SubsInv, OneTurn, InTurn
<1>5. AloneIs'
  <2>1. ASSUME NEW r \in Requests, request[r].alone, clock'[request[r].i] <= request[r].stamp, NEW u \in URLs
        PROVE  dropped'[request[r].i][u] < request[r].stamp
    <3>1. PICK q : q = request[r]
      OBVIOUS
    <3>2. q.i \in Instances /\ q.stamp \in Nat /\ q.stamp <= clock[q.i]
      BY <2>1, <3>1 DEF SubsInv, SubsTypes, AloneIs, Shaped, DatedRequest, RequestSet
    <3>3. q.i # i /\ clock[q.i] <= q.stamp
      BY <1>0, <2>1, <3>1, <3>2
    <3> QED BY <2>1, <3>1, <3>2, <3>3 DEF SubsInv, AloneIs
  <2> QED BY <2>1 DEF SubsInv, AloneIs
<1>6. ASSUME NEW u \in URLs, asked'[u].does = "on" PROVE KeptOn(u)'
  <2>1. CASE u = v
    BY <1>6, <2>1
  <2>2. CASE u # v
    <3>1. KeptOn(u)
      BY <1>6, <2>2 DEF SubsInv, Wishes
    <3>2. \A j \in Instances : dropped'[j][u] = dropped[j][u]
      BY <2>2
    <3> QED BY <3>1, <3>2 DEF KeptOn, FitsOn, InTurn
  <2> QED BY <2>1, <2>2
<1>7. ASSUME NEW u \in URLs, asked'[u].does = "off" PROVE KeptOff(u, asked[u].at)'
  <2>1. CASE u = v
    BY <1>7, <2>1
  <2>2. CASE u # v
    <3>1. PICK j \in Instances : j = asked[u].at /\ asked'[u].at = j /\ KeptOff(u, j)
      BY <1>7, <2>2 DEF SubsInv, Wishes, SubsTypes
    <3>2. \A k \in Instances : named'[k][u] = named[k][u] /\ dropped'[k][u] = dropped[k][u]
      BY <2>2
    <3>3. KeptOff(u, j)'
      BY <3>1, <3>2 DEF KeptOff, FitsOff, Reconciles, Wrote
    <3> QED BY <3>1, <3>3
  <2> QED BY <2>1, <2>2
<1> QED BY <1>1, <1>2, <1>3, <1>4, <1>5, <1>6, <1>7 DEF SubsInv, Wishes

LEMMA DeleteKeeps ==
    ASSUME SubsInv, NEW i \in Instances, NEW v \in URLs, DeleteCalendar(i, v)
    PROVE  SubsInv'
<1> USE DEF Nil
<1>1. /\ named \in [Instances -> Stamps] /\ dropped \in [Instances -> Stamps] /\ clock \in [Instances -> Nat]
      /\ \A j \in Instances, u \in URLs : /\ named[j][u] \in Nat /\ dropped[j][u] \in Nat /\ clock[j] \in Nat
                                          /\ Dated(named[j][u], clock) /\ dropped[j][u] <= clock[j]
      /\ \A u \in URLs : list[u] \in Nat /\ Dated(list[u], clock)
      /\ asked \in [URLs -> [does : {"on", "off", "unclear"}, at : Instances \cup {Nil}]]
  BY DEF SubsInv, SubsTypes, DatedStores, Stamps
<1>2. PICK t \in Times[i] \ {clock[i]} :
         /\ Shows(i, t) /\ UNCHANGED <<list, request>>
         /\ named' = [named EXCEPT ![i][v] = 0] /\ dropped' = [dropped EXCEPT ![i][v] = t]
         /\ asked' = [asked EXCEPT ![v] = IF Rest /\ InOrder(i, t) THEN [does |-> "off", at |-> i] ELSE Unclear]
  BY DEF DeleteCalendar
<1>20. /\ t \in Nat /\ clock[i] < t /\ clock' \in [Instances -> Nat] /\ clock'[i] = t /\ clock[i] < clock'[i]
       /\ \A j \in Instances : clock[j] <= clock'[j] /\ clock'[j] \in Nat
  <2>1. /\ t \in Nat /\ clock[i] <= t /\ clock' \in [Instances -> Nat] /\ clock'[i] = t
        /\ \A j \in Instances : clock[j] <= clock'[j]
    BY <1>1, <1>2, ClockShows
  <2>2. clock[i] \in Nat /\ t # clock[i]
    BY <1>1, <1>2
  <2>3. clock[i] < t
    BY <2>1, <2>2
  <2> QED BY <2>1, <2>3
<1>3. PICK a : a = IF Rest /\ InOrder(i, t) THEN [does |-> "off", at |-> i] ELSE Unclear
  OBVIOUS
<1>4. asked' = [asked EXCEPT ![v] = a]
  BY <1>2, <1>3
<1>5. a \in [does : {"on", "off", "unclear"}, at : Instances \cup {Nil}] /\ a.does # "on"
      /\ (a.does = "off" => a.at = i /\ Rest /\ InOrder(i, t))
  BY <1>3 DEF Unclear
<1>6. /\ asked' \in [URLs -> [does : {"on", "off", "unclear"}, at : Instances \cup {Nil}]]
      /\ asked'[v] = a /\ \A u \in URLs : u # v => asked'[u] = asked[u]
  BY <1>1, <1>4, <1>5
<1>7. named' \in [Instances -> Stamps] /\ dropped' \in [Instances -> Stamps]
  BY <1>1, <1>2, <1>20 DEF Stamps
<1>8. \A j \in Instances, u \in URLs :
         IF j = i /\ u = v THEN named'[j][u] = 0 /\ dropped'[j][u] = t
         ELSE named'[j][u] = named[j][u] /\ dropped'[j][u] = dropped[j][u]
  BY <1>1, <1>2 DEF Stamps
<1>9. ASSUME NEW j \in Instances, NEW u \in URLs
      PROVE  /\ Dated(named'[j][u], clock') /\ dropped'[j][u] <= clock'[j]
             /\ u # v => named'[j][u] = named[j][u] /\ dropped'[j][u] = dropped[j][u]
             /\ j # i => dropped'[j][u] = dropped[j][u]
  <2>1. Dated(named'[j][u], clock')
    <3>1. Dated(named[j][u], clock')
      BY <1>1, <1>20, DatedLater
    <3>2. named'[j][u] = 0 \/ named'[j][u] = named[j][u]
      BY <1>8
    <3> QED BY <3>1, <3>2, NoDate
  <2>2. dropped'[j][u] <= clock'[j]
    BY <1>1, <1>20, <1>8
  <2> QED BY <1>8, <2>1, <2>2
<1>10. \A u \in URLs : asked'[u].does = "off" => asked'[u].at \in Instances
  BY <1>5, <1>6 DEF SubsInv, SubsTypes
<1>11. ASSUME asked'[v].does = "off" PROVE KeptOff(v, asked[v].at)'
  <2>1. asked'[v].at = i /\ InOrder(i, t) /\ \A s \in Requests : request'[s].at = "idle"
    BY <1>2, <1>5, <1>6, <1>11 DEF Rest
  <2>2. named'[i][v] = 0 /\ dropped'[i][v] = t /\ list'[v] <= dropped'[i][v]
        /\ \A j \in Instances : named'[j][v] <= dropped'[i][v]
    <3>1. ASSUME NEW d \in Nat, Dated(d, clock) PROVE d <= t
      BY <1>1, <1>20, <2>1, <3>1 DEF Dated, InOrder
    <3>2. list[v] <= t /\ \A j \in Instances : named[j][v] <= t
      BY <1>1, <3>1
    <3> QED BY <1>2, <1>20, <1>8, <3>2
  <2>3. ~Wrote(i)' /\ \A s \in Requests : FitsOff(v, i, request[s])'
    BY <2>1 DEF Wrote, FitsOff, Reconciles
  <2>4. KeptOff(v, i)'
    BY <2>2, <2>3 DEF KeptOff
  <2> QED BY <2>1, <2>4
<1>21. \A j \in Instances, u \in URLs :
          /\ Dated(named'[j][u], clock') /\ dropped'[j][u] <= clock'[j]
          /\ u # v => named'[j][u] = named[j][u] /\ dropped'[j][u] = dropped[j][u]
          /\ j # i => dropped'[j][u] = dropped[j][u]
  BY <1>9
<1>22. /\ clock[i] < clock'[i] /\ clock' \in [Instances -> Nat] /\ \A j \in Instances : clock[j] <= clock'[j]
       /\ UNCHANGED <<list, request>>
  BY <1>2, <1>20
<1>23. asked'[v].does # "on"
  BY <1>5, <1>6
<1> HIDE DEF Nil
<1> QED BY <1>6, <1>7, <1>10, <1>11, <1>21, <1>22, <1>23, ReaderActs

LEMMA GiveNameKeeps ==
    ASSUME SubsInv, NEW i \in Instances, NEW v \in URLs, GiveName(i, v)
    PROVE  SubsInv'
<1>1. /\ named \in [Instances -> Stamps] /\ dropped \in [Instances -> Stamps] /\ clock \in [Instances -> Nat]
      /\ \A j \in Instances, u \in URLs : /\ named[j][u] \in Nat /\ dropped[j][u] \in Nat /\ clock[j] \in Nat
                                          /\ Dated(named[j][u], clock) /\ dropped[j][u] <= clock[j]
      /\ asked \in [URLs -> [does : {"on", "off", "unclear"}, at : Instances \cup {Nil}]]
  BY DEF SubsInv, SubsTypes, DatedStores, Stamps
<1>2. PICK t \in Times[i] \ {clock[i]} :
         /\ Shows(i, t) /\ UNCHANGED <<list, dropped, request>>
         /\ named' = [named EXCEPT ![i][v] = t]
  BY DEF GiveName
<1>20. /\ t \in Nat /\ clock[i] < t /\ clock' \in [Instances -> Nat] /\ clock'[i] = t /\ clock[i] < clock'[i]
       /\ \A j \in Instances : clock[j] <= clock'[j] /\ clock'[j] \in Nat
  <2>1. /\ t \in Nat /\ clock[i] <= t /\ clock' \in [Instances -> Nat] /\ clock'[i] = t
        /\ \A j \in Instances : clock[j] <= clock'[j]
    BY <1>1, <1>2, ClockShows
  <2>2. clock[i] \in Nat /\ t # clock[i]
    BY <1>1, <1>2
  <2>3. clock[i] < t
    BY <2>1, <2>2
  <2> QED BY <2>1, <2>3
<1>3. named' \in [Instances -> Stamps] /\ dropped' \in [Instances -> Stamps]
  BY <1>1, <1>2, <1>20 DEF Stamps
<1>4. \A j \in Instances, u \in URLs :
         IF j = i /\ u = v THEN named'[j][u] = t ELSE named'[j][u] = named[j][u]
  BY <1>1, <1>2 DEF Stamps
<1>5. ASSUME NEW j \in Instances, NEW u \in URLs
      PROVE  /\ Dated(named'[j][u], clock') /\ dropped'[j][u] <= clock'[j]
             /\ u # v => named'[j][u] = named[j][u] /\ dropped'[j][u] = dropped[j][u]
             /\ j # i => dropped'[j][u] = dropped[j][u]
  <2>1. Dated(t, clock')
    BY <1>20 DEF Dated
  <2>2. Dated(named'[j][u], clock')
    BY <1>1, <1>20, <1>4, <2>1, DatedLater
  <2>3. dropped'[j][u] <= clock'[j]
    <3>1. dropped'[j][u] = dropped[j][u] /\ dropped[j][u] \in Nat /\ dropped[j][u] <= clock[j] /\ clock[j] \in Nat
      BY <1>1, <1>2
    <3> QED BY <1>20, <3>1
  <2> QED BY <1>2, <1>4, <2>2, <2>3
<1>6. /\ asked' \in [URLs -> [does : {"on", "off", "unclear"}, at : Instances \cup {Nil}]]
      /\ \A u \in URLs : u # v => asked'[u] = asked[u]
      /\ asked'[v].does # "off" /\ (asked'[v].does = "on" => asked[v].does = "on")
  BY <1>1 DEF GiveName, Unclear
<1>7. \A u \in URLs : asked'[u].does = "off" => asked'[u].at \in Instances
  BY <1>6 DEF SubsInv, SubsTypes
<1>8. ASSUME asked'[v].does = "on" PROVE KeptOn(v)'
  <2>1. KeptOn(v)
    BY <1>6, <1>8 DEF SubsInv, Wishes
  <2> QED BY <1>2, <2>1 DEF KeptOn, FitsOn, InTurn
<1>21. \A j \in Instances, u \in URLs :
          /\ Dated(named'[j][u], clock') /\ dropped'[j][u] <= clock'[j]
          /\ u # v => named'[j][u] = named[j][u] /\ dropped'[j][u] = dropped[j][u]
          /\ j # i => dropped'[j][u] = dropped[j][u]
  BY <1>5
<1>22. /\ clock[i] < clock'[i] /\ clock' \in [Instances -> Nat] /\ \A j \in Instances : clock[j] <= clock'[j]
       /\ UNCHANGED <<list, request>>
  BY <1>2, <1>20
<1>23. dropped' \in [Instances -> Stamps]
  BY <1>1, <1>2
<1> QED BY <1>3, <1>6, <1>7, <1>8, <1>21, <1>22, <1>23, ReaderActs

LEMMA SubsInitial == SubsInit => SubsInv
<1> SUFFICES ASSUME SubsInit PROVE SubsInv
  OBVIOUS
<1>1. clock = [i \in Instances |-> 0] /\ (\A u \in URLs : asked[u] = Unclear) /\ \A r \in Requests : request[r] = Idle
  BY DEF SubsInit
<1>2. SubsTypes
  <2>1. asked \in [URLs -> [does : {"on", "off", "unclear"}, at : Instances \cup {Nil}]]
    BY DEF SubsInit, Unclear
  <2>2. \A u \in URLs : asked[u].does = "off" => asked[u].at \in Instances
    BY <1>1 DEF Unclear
  <2> QED BY <1>1, <2>1, <2>2, IdleIsIdle DEF SubsInit, SubsTypes
<1>3. \A r \in Requests : Shaped(request[r]) /\ DatedRequest(request[r])
  BY <1>1, IdleIsIdle, NoDate DEF Shaped, DatedRequest, Reconciles
<1>4. DatedStores
  BY <1>1, NoDate DEF SubsInit, Nothing, Nil, DatedStores
<1>5. OneTurn /\ AloneIs
  BY <1>1, IdleIsIdle DEF OneTurn, AloneIs, InTurn
<1>6. Wishes
  BY <1>1 DEF Wishes, Unclear
<1> QED BY <1>2, <1>3, <1>4, <1>5, <1>6 DEF SubsInv

LEMMA SubsUnchanged == SubsInv /\ UNCHANGED svars => SubsInv'
BY DEF SubsInv, svars, SubsTypes, Shaped, DatedRequest, DatedStores, OneTurn, AloneIs, Wishes, KeptOn, KeptOff,
       FitsOn, FitsOff, InTurn, Reconciles, Wrote

\* Every step keeps the invariant.
LEMMA SubsKept == SubsInv /\ [SubsNext]_svars => SubsInv'
<1> SUFFICES ASSUME SubsInv, [SubsNext]_svars PROVE SubsInv'
  OBVIOUS
<1>1. ASSUME NEW r \in Requests, Step(r) PROVE SubsInv'
  BY <1>1, ReadDroppedKeeps, ReadFeedsKeeps, WriteKeeps, ToldKeeps, SubscribeKeeps, SubscribedKeeps, FeedFillKeeps,
     CreateKeeps, RelistKeeps, RenameKeeps, DeleteUnlistedKeeps DEF Step
<1>2. ASSUME NEW r \in Requests, CutShort(r) PROVE SubsInv'
  BY <1>2, CutShortKeeps
<1>3. ASSUME NEW r \in Requests, NEW i \in Instances, Open(r, i) \/ \E u \in URLs : AskToSubscribe(r, i, u)
      PROVE  SubsInv'
  BY <1>3, OpenKeeps, AskToSubscribeKeeps
<1>4. ASSUME NEW i \in Instances, NEW u \in URLs, DeleteCalendar(i, u) \/ GiveName(i, u) PROVE SubsInv'
  BY <1>4, DeleteKeeps, GiveNameKeeps
<1>5. CASE UNCHANGED svars
  BY <1>5, SubsUnchanged
<1> QED BY <1>1, <1>2, <1>3, <1>4, <1>5 DEF SubsNext

\* What the reader asked for with nothing else under way, dated after what every
\* other alborz dated, stands, for every number of alborz, feeds and requests at
\* work, whatever their clocks show, and whoever is cut short (reconcile and
\* Subscribe, with Store.Delete).
THEOREM SubscriptionsObeyReader == SubsSpec => []ReaderObeyed
<1>1. SubsInv => ReaderObeyed
  BY DEF SubsInv, Wishes, KeptOn, KeptOff, ReaderObeyed, Nil
<1> QED BY <1>1, SubsInitial, SubsKept, PTL DEF SubsSpec

=============================================================================
