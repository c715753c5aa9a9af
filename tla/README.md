# alborz: TLA+ models of the webmail's concurrent core

alborz is a webmail server in Go. A browser session holds *logins* to mail
accounts; a login holds a few IMAP connections that requests, background work
and a reaper share. On top of them sit caches of listings, bodies and remote
calendars that are filled, patched and invalidated by goroutines that run
against each other. Beside them alborz keeps calendars and address books of its
own, seals what it keeps under keys of the account's, and remembers sessions over
a restart. This directory models those parts in TLA+, checks them with TLC on
small instances and proves the safety of all of them for every instance with
TLAPS.

Paths in this file are relative to the repository (`src/` in `PROJECT.json`).

## 1. The system and what is hard about it

| Part | State | Operations | Who else touches it |
|---|---|---|---|
| IMAP work queue, `imap_queue.go` | `busy`, `waiters`, each waiter's channel | `acquire`, `release` | every request and background job of a login, the reaper |
| Login lanes, `login.go` (`DoIMAPWork`) | two connections, each behind a queue; a deadline timer per run | dial, run, time out, close | server drops, `Close`, the reaper |
| Transfers, `login.go` (`DoIMAPTransfer`) | a channel of `maxIMAPTransfers` slots, each with an idle connection or none | take, dial, run, put back | the reaper, which empties the channel |
| Login life, `login.go`, `sieve.go` | `done`, the expiry timer, the Sieve connection | `Close`, `ping`, `reap` | sessions, sign-out |
| Sending once, `mail/send_claim.go`, `send.go`, `smtp.go` | claims in the database, `sendActive` in memory, draft and Sent on the server | `Submit`: claim, look up Sent, deliver, record, file, delete draft | a second submission, a crash, failing writes, lost answers |
| DAV mirror, `pim/dav/mirror.go`, `sync.go` | held record (token or ctag), objects, readers, write counters, `saving` | `start`/`sync`, own writes, `drop`, `Forget` | other clients of the collection, a crash |
| Listing cache, `mail/cache.go`, `prefetch.go`, `cacheevents.go`, `listing.go` | entries, orders, flights, claims, a generation per account | `lookup`, `load`, `revalidate`, `storeAt`, `flags`, `markSeen`, `setFlags`, `stale`, `drop` | own writes, the watcher, other clients |
| Watcher, `mail/watch.go` | one IDLE connection per login | `follow`, `idleOnce`, sweep | listing cache, push |
| Body cache, `mail/bodies.go` | bodies, pending automatic reads with tokens | fetch, put, `cancelSeen`, `observe` | listing cache, explicit flag writes |
| Memo, `internal/memo` | value, version, a running refresh per key | `Get`, `Stale`, `Forget` | every cache of small values |
| Sessions and lock, `web/session*.go`, `web/accounts.go`, `web/lock.go` | live sessions, saved records | look-up, sign-in, renewal, restore, sign-out, lock | requests of the same browser, another browser's sign-out, restarts |
| Keys, `internal/keyring`, `keys.go`, `internal/seal` | the account's key entry in its settings, the pair and what is sealed in the data file, the ring in memory | sign-in, `Encrypt`, `Decrypt`, `Recover`, `StartOver`, password change, lease | other logins, another alborz, a stop at any write |
| Personal data, `pim/store`, `pim/share.go` | collections, objects, UID index, shares, publications, ctags | transactions of `Store` | DAV clients, sharing pages, feeds |
| Subscriptions, `pim/calendar/subscriptions.go`, `store.go` | the account's list in its settings, fed calendars and `Dropped` records here | `reconcile`, `Subscribe`, `refresh` | every alborz the account signs in to |
| Calendar and contacts, `pim/calendar`, `pim/contacts` | reminders | forms, schedules | the mirror, the store |
| Push, `push.go`, `internal/webpush` | subscriptions, what was announced | announce, retry | watcher, reminders |

The hard behaviours are the ones a unit test does not order: a hand-off that
crosses a cancellation; a deadline that fires as the work returns; a server that
accepts a message and loses the answer; a crash between the acceptance and its
record; a fetch that began before a write and is stored after it; a drop that
takes no lock; everyone waiting for a connection nobody releases. `PROJECT.json`
lists them under `hazards`, each at its line, with the properties that would
catch it going wrong or a note on why none does yet.

What makes each part correct:

* queue: one holder, nobody waits behind a free connection, bounded, in order, every wait ends;
* lane: a timer never cuts another request's commands, no connection is lost, owners return whatever the server does;
* transfers: slots are conserved, connections are bounded, transfers and reaper end;
* sending: one copy in the claim's window, drafts outlive failures, no failure is reported for a message that went out;
* mirror: what the held token covers is in the copy as the server has it;
* listing cache: nothing older than what the reader did or the watcher reported is served or stored, and a page is never vouched for by a STATUS newer than its rows;
* body cache: a held body is the message its UID names and knows whether it is read; an automatic read does not undo what its reader does;
* memo: a result is stored only if nothing overtook it;
* sessions: a sign-out stays but for two gaps that are noted, and what is remembered is on record;
* keys: at every stop some key of the entry leads to everything kept until logins cross, and a move cut short goes on;
* store: a ctag names one content for ever, indexes agree with records, a guest has access by consent only;
* subscriptions: what the reader asked for, dated last, stands, and every alborz comes to agree.

## 2. Modules

| Module | Models | Composes |
|---|---|---|
| `Lane` | what the queue promises: at most one holder, idle only if nobody wants it, background last | |
| `ImapQueue` | `imapQueue.acquire` and `release`, the login's end, the reaper as a caller | implements `Lane` |
| `LoginLane` | one lane of `DoIMAPWork`: dialling, timer, run, release, reaper, drops | extends `ImapQueue` |
| `Transfers` | `DoIMAPTransfer` and the reaper's draining | |
| `SendClaim` | `Submit`, `claimSend`, `finishSend`, `endSend`, `deliverWithPhase`, `sendMessage` | |
| `Mirror` | one mirrored collection | |
| `ListingCache` | one page of one view, its order, the fetches ahead of it and the watcher | |
| `BodyCache` | the bodies held of one folder, prefetch, automatic read and the reader's actions of several logins | |
| `Sessions` | one browser's session, its record, its requests and sign-outs from elsewhere | |
| `AccountKeys` | one account's key entry, ring, pair, a sealed record and a collection | |
| `Store` | one owner's collections, shares, publications and feeds, with a DAV client, a page, a refresh and a subscriber at work | |
| `Subscriptions` | the list of subscriptions and the fed calendars of several alborz | |
| `LoginLaneProofs` | theorems about `ImapQueue` and `LoginLane` | extends `LoginLane` |
| `SessionsProofs` | theorems about `Sessions` and `AccountKeys` | extends both |
| `StoreProofs` | theorems about `Store` and `Subscriptions` | extends both |
| `TransfersProofs`, `SendClaimProofs`, `ListingCacheProofs`, `BodyCacheProofs`, `MirrorProofs` | theorems about the module each is named after | extends it |
| `MC*` | symmetry sets for the instances in the `.cfg` files | |

The specification of a module is its `Spec`; those of `LoginLane`, `AccountKeys`
and `Subscriptions` are `LaneSpec`, `KeysSpec` and `SubsSpec`, as each is extended
beside another.

In every module an action is a critical section or a call to the outside, so
two steps are separate exactly where the code gives up a lock or waits. A
definition whose name extends another's (`StoreAnyway` beside `Store`) is that
operation with a plausible mistake; no specification uses it. `PROJECT.json`
pairs each checked property with one of them, and TLC finds the property
violated when it takes the operation's place.

**ImapQueue.** `busy` and `waiters` are the struct's fields; `ready` is the set
of waiters whose channel is closed; `pc` says where a caller is in `acquire`;
`ended` what ended its context, one of `Causes`; `done` that the login is closed. `acquire` is
split where it unlocks: the entry section (`AcquireRefused`, `AcquireFree`,
`AcquireFull`, `AcquireWait`), the `select` (`TakeReady` or `Withdraw`; both may
be enabled, as Go's `select` chooses freely), and the second section
(`LeaveQueue`, or `FindGranted`, which passes on a connection it was handed at
the same instant). The reaper calls with no context and no `done`, so it is
never refused and nothing frees it but its turn.

**LoginLane.** Adds the connection (`conn` may name one that is closed, as the
code's pointer does; `open` is the set of open ones), what each owner is doing
(`step`), the connection its commands use (`target`) and its timer.
`StopTimer` is the deferred stop that waits for `stopped`. Its specification is
checked to keep `ImapQueue!FairSpec`.

**Transfers.** The channel is a sequence of idle connections or `NoConn`. The
reaper's `len` and its receive are two steps, so it may block on a slot that a
waiting transfer took in between.

**SendClaim.** One step per database transaction, per exchange with a server
and per answer. Database writes fail or commit; `ServerAccepts` may be followed
by a lost answer; `Crash` clears memory and keeps the database. `first` is a
history variable.

**Mirror.** The server numbers its changes; an object's content is the number of
the change that wrote it and a token the number it covers. Both kinds of server
are modelled: sync-collection (`Report`) and comparison (`CTag`, `List`,
`Fetch`, which read at different times). `late` and `missing` note the two gaps
described in section 6, so that the run can show there is no third.

**ListingCache.** The folder is the sequence of changes made to it; a listing is
the set of changes it shows, and its STATUS the number counted. The account's
generation is only compared with the present one, so each goroutine keeps
whether its own is still current. `ordered` pages belong to a filtered view
and take their members from an order other pages share. STATUS is taken to
tell any change, as with HIGHESTMODSEQ. A page is claimed by `revalidate` and by
`prefetchPage`, which a reader of the page before it starts (`Ahead`); `Claimed`,
`Release` and the ends of a revalidation are the only takers and givers of
`refreshing`, and a fetch ahead loads as a reader does and may join a reader's
flight. Which connection a fetch waits for, and
the takeover of a queued speculative fetch by a reader, are left out: either way
the fetch begins some time after it was asked for.

**BodyCache.** `entries`, `fetching`, `reading` (the code's `seen`) and `known`
(`validity`) are the cache's maps for one folder. A login has two connections
(`login.go:246`): its automatic read and its reader's action take turns on the
interactive one (`TurnTaken`), and its prefetch runs beside both on the work
connection, so that it may cross its own login's writes. The check of a claim,
the exchange with the server, and the word to the cache are separate steps. A login's name serves as the token. A body carries the
UIDVALIDITY it was really fetched under, so a body filed under another shows.
`unsure` holds messages two logins wrote to at once, or whose answer was lost:
nobody can know their flags.

**Sessions.** `live` is the session of one id, `object` the `Session` objects,
which requests keep after the session has another, and `record` what the next
start finds. Every section under `Session.mu` or `Sessions.mu` is a step.
A sign-in counts from `AddAccount`. `out` is the history: the accounts signed out
and not signed into since. `undone` has those of them that the code may bring
back: a sign-in was between `AddAccount` and `SetLoginToken`, which keeps the
password whatever happened meanwhile, or `LogoutAccount` found the login gone and
returned before the record was written.
`adrift` notes that an expired session was dropped, unclosed, under a request
that still had it; what that request then writes is outside the properties.

**AccountKeys.** A key is a number, what is sealed is the number of its key.
`unlock` takes seven steps: read, rewrap, `Retire`, `Hold`, the reseal of a record
and of a collection, and `Settled`; `Encrypt`, `Decrypt`, `Recover` and
`StartOver` write the entry and turn the ring before they join it. Up to
`Together` logins are at work at once, each anywhere in these steps. `stale` has
those with an entry in hand that was written since they read it; `crossed` notes
that one of them went on and the entry was written over what another wrote, or that
the ring was turned under a login that was moving what it keeps. Nothing in the
code keeps either from happening. What an entry's password opens (`opens`) is a
field beside the entry's name, since `rewrapKey` wraps the key held without
comparing it with the entry's as `unlock` does: after it the password may open a
key that was replaced. `Stop` is a crash at any step, `Elsewhere` another alborz
with the same entry.

**Store.** A method of `Store` is a transaction and a step. Objects have a UID
and data; an ETag is the data. What spans two transactions is modelled as such:
a sharing page reads a share and writes it, a refresh reads the feeds, asks and
fills, a subscription fetches, makes and fills, a DAV client reads a ctag and then
the objects. `said` is the guest's word; `redone` and `stale` note the two gaps
of section 6. Rights to write and the end dates of shares are left out.

**Subscriptions.** `reconcile` is split at each read and each transaction.
`Login.Update` serialises one alborz's changes of the list; two alborz may write
over each other, as METADATA has no compare-and-set. Names are the time they
were given at. Each alborz dates by its own `clock`, as the code does by
`time.Now()` (ADR 62: "the clock of the instance that made the change"); a clock
goes forward and may be any time behind another, and no two show the same time.
`asked` holds what the reader asked for while nothing else was under way and with
a date after what every other alborz has dated (`InOrder`); anything that overlaps
it, or a date some other clock is past, makes it unclear.

## 3. Runs

| Run | Instance | Distinct states | Shows |
|---|---|---|---|
| `queue` | 2 interactive, 2 background callers and the reaper, limit 2, contexts end by deadline | 20,368 | one holder, nobody behind a free connection, bound, order, refinement of `Lane`, every wait ends, the reaper is served |
| `login_lane` | 1 interactive, 1 background, reaper, 2 connection names | 71,028 | timer and connections stay with their owner; owners return whatever the server does; the queue's fair specification is kept |
| `transfers` | 3 readers, 2 slots, 2 connection names | 59,769 | slots conserved, transfers and reaper end |
| `send_claim` | 2 submissions of 1 message, window 2, clock to 4 | 320,322 | one copy in the window, drafts, claims and answers are right |
| `mirror` | 2 objects, 2 syncs, 1 writer, 3 server changes, 1 sign-out, 1 own write | 2,349,900 | the copy is in step but for the noted gaps, drops make nothing wrong |
| `listing` | 1 reader, 1 request ahead, 2 goroutines, 1 change of any of five kinds | 3,404,174 | what is held and answered shows all that is due; plain pages are vouched for; one claim at a time, always given back |
| `bodies` | 2 messages, 2 logins, 1 body kept, the folder made anew once, 2 jobs at once | 1,215,688 | bodies identified and true, claims given back, actions not undone |
| `sessions` | 2 accounts, 2 requests, 3 sign-ins, clock to 2 | 3,703,121 | signed out stays but for the noted gaps, remembered is on record |
| `keys` | 2 logins, both at work, 2 keys made, 3 passwords, followed until they cross | 1,755,080 | nothing lost, replaced keys let go only when nothing is under them, locked only for cause |
| `keys_move` | 2 logins, one at work at a time, 2 keys, 1 password | violated | a move cut short does not go on (section 6) |
| `store` | 1 shared collection, 2 fed calendars, 1 guest, 2 object names, 1 datum, 1 secret, 3 ctags, 2 feed versions, 2 at work at once | 1,151,439 | ctags, indexes, consent, feed ETags |
| `subscriptions` | 1 feed, 2 alborz whose clocks show 2 and 3 times, 2 requests, 1 request cut short | 825,296 | the reader is obeyed, all agree at last |

Bounds. *Queue*: with four requests a holder, a full queue of two and a refused
fourth exist at once, two waiters of each class can be in the queue, one can
leave from the middle, and two interactive callers that call again and again
overtake a background one for ever; beyond that the theorems hold for any number
and any cause. What ended a context makes no difference to the queue but for
liveness, where only the deadline is sure to come, so the run has that cause and
`login_lane` both. *Lane*: two requests and the reaper give every pair of
successive owners. Two connection names suffice because at most one is open
(`NoConnectionLost`) and a stale name must differ from it. *Transfers*: three
readers for two slots, so that one waits while the reaper drains. *SendClaim*:
two submissions may both be the first and the retry; the clock passes the window
and a half; copies beyond two count as two. *Mirror*: two objects, because a
delta must miss one and bring another; three changes, because a race needs an
old, a sent and a foreign body; refused writes are left out of the instance.
*ListingCache*: two goroutines, because an older load or check must run against a
newer one, and a fetch ahead must find the page claimed by a check, and a check by
a fetch ahead; a cancelled reader comes back as another. One change is enough for
each property to be broken by its mistake; it leaves out two changes with
different fates. *BodyCache*: two logins, because a write may be another's, on
connections of its own; two messages and room for one body, so that one puts the
other out; any two of prefetch, automatic read and action at once. *Sessions*:
two requests are a restore against a sign-out, two accounts are one that stays
while the other goes, three sign-ins are one for each account and one again, and
the clock passes one expiry. *AccountKeys*: two logins, because one alone crosses
nobody; two keys are a replaced one and its successor; three passwords, because
`rewrapKey` wraps a replaced key only for a password that is changed after another
change left the entry closed. `Followed`, a constraint of the run, says how far: it stops
at a crossing and at a pair discarded in use, after which the properties say
nothing; under the first password both logins are at work with a collection, or
one with a lease beside; under the second both are in and one is at work, and there is no collection;
under the third one is in, with the record not moved yet. The theorems have
none of these limits. *Store*: two fed calendars, because a condition must hold for both; two names
for a UID conflict; three ctags suffice to fill, delete and make again; two
versions of the feed are an old and a new one. *Subscriptions*: two alborz to write over each
other, two requests so that each has one; five dates in all, in an order that
lets either clock be ahead, to subscribe, rename, delete and subscribe again.

Symmetry is used where the members of a set are interchangeable and no liveness
is checked.

### Fairness

Four runs check liveness; the others use no fairness.

* A goroutine that can take a step takes it (weak fairness of `TakeReady`,
  `Withdraw`, `Leave`, `Release`, `Begin`, `StopTimer`, `ReaperCloses` and the
  like): Go's scheduler is fair and the mutexes are not held across waits.
* A request's deadline passes (`EndContext(p, "deadline")`, `TimerFires`):
  `DoIMAPWork` gives every request one. A cancellation by the client is not
  assumed.
* The server owes nothing. `WorkReturns` is fair only once the connection its
  commands use is closed, which is what the timer is for. Dialling ends because
  it has a timeout.
* In `Transfers` a caller blocked on the channel, and the reaper's receive, get
  strong fairness: a Go channel serves blocked receivers in order, so one that
  is again and again able to receive does.
* In `Subscriptions` every request under way goes on (weak fairness of its
  steps), and the reader opens the calendars on each alborz again and again
  (strong fairness of `Open` for each alborz, since a request under way there may
  have the turn): ADR 62 says changes propagate only when a page opens them. A
  request may still be cut short, once in the instance.

## 4. Proofs

Eight modules hold theorems. They prove each model's safety for every value of
the constants, from the assumption named in the model and no other: any number of
callers, readers, submissions, goroutines, logins, alborz or syncs, any number of objects and any bound on what happens. The bounds on counters
are constants of the models, so a theorem covers a history of every length. The layout is the
same everywhere: an inductive invariant as a conjunction of named parts, one
lemma for the initial states, one for each action or group of actions, one that
puts them together over `Next`, and the theorems at the end.

| Module | Theorem | States |
|---|---|---|
| `LoginLaneProofs`, queue | `QueueIsSafe` | types, `WaitersKnown`, `OneHolder`, `NobodyWaitsForFree` |
| | `NobodyWaitsBehindFree` | `NobodyWaitsForFree` |
| | `HandOffKeepsOrder` | `HandOffInOrder` |
| | `QueueStaysBounded` | `QueueBounded` |
| | `QueueImplementsLane` | `ImplementsLane`, the refinement of `Lane` |
| `LoginLaneProofs`, lane | `LaneIsQueue` | `LaneSpec` implies `ImapQueue`'s `Spec` |
| | `TimersHitOwnRun`, `LaneLosesNoConnection` | `TimerHitsOwnRun`, `NoConnectionLost` |
| `TransfersProofs` | `SlotsStayAccounted` | `SlotsAccounted` |
| | `PutFindsRoom` | the deferred put never blocks |
| | `ConnectionsUnshared` | no connection is at two places |
| `SendClaimProofs` | `SentOnceInWindow`, `DraftsOutliveSends`, `ClaimsTellTruth`, `FailedMeansUnsent` | `OneCopyInWindow`, `DraftOutlivesSend`, `ClaimTellsTruth`, `FailedIsUnsent` |
| `StoreProofs` | `CTagsTell`, `IndexesStayAgreed`, `AccessNeedsConsent`, `CalendarsFedTruly` | `CTagTells`, `IndexesAgree`, `AccessByConsent`, `FedTruly` |
| `StoreProofs`, subscriptions | `SubscriptionsObeyReader` | `ReaderObeyed` |
| `ListingCacheProofs` | `ListingTypes`, `ServesCurrent`, `FlightsServeCurrent`, `StatusVouches` | `TypeOK`, `HeldCurrent`, `AnswersCurrent`, `PlainVouched` |
| `BodyCacheProofs` | `BodiesTypes`, `BodiesIdentified`, `BodiesTellTruth`, `ActionsStand` | `TypeOK`, `HeldIdentified`, `HeldTellsTruth`, `ActionStands` |
| `MirrorProofs` | `MirrorTypes`, `MirrorInStep`, `MirrorNeverWrong` | `TypeOK`, `InStepUnlessRaced`, `NothingWrong` |
| `SessionsProofs` | `SessionsTypes`, `SignedOutForGood`, `RememberedOnRecord` | `TypeOK`, `SignedOutStays`, `OnRecord` |
| `SessionsProofs`, keys | `NoKeyIsLost`, `KeysLetGoOnceMoved`, `LockedForCause` | `NothingLost`, `LetGoOnceMoved`, `ShutForCause` |

The assumptions say that bounds are natural numbers (positive where the code's
constant is), that background callers are among the callers, and that a name for
"nobody" or "none" is no member of the set it stands beside. `MirrorAssumption`
also keeps the names of syncs and of writing requests apart: they are goroutines
of two kinds, and `saving` names its holder among both. `SessionsAssumption` says
that finitely many requests are under way at once, so that a new `Session` object
is one none of them has; `KeysAssumption` says the same of an account's logins,
so that a random key is one nothing refers to.

`SubscriptionsAssumption` says that what a clock shows is a positive
number and that no two alborz date anything by the same one; how far apart the
clocks are is not assumed.

The theorems on keys are about any number of logins at work together. What the
code cannot promise is in the properties and not in an assumption: an entry
written over what another wrote, or a ring turned under a login that moves, is
noted in `crossed`, and what the first one lost is not promised from there on
(section 6, 9).

**ImapQueue.** The inductive invariant is `QueueInv`, the four parts of
`QueueIsSafe`. None is inductive alone. `OneHolder` counts granted waiters as
holders, so its step for `LeaveQueue` needs `WaitersKnown` (a leaving caller is
queued or granted, never both), and its step for a hand-off needs that the
waiter handed to was not already granted. `WaitersKnown` needs from `TypeOK`
that no caller is queued twice, or taking one waiter out would leave the other.
`NobodyWaitsForFree` needs `OneHolder`, since only the holder releases, and is
needed by it, since `AcquireFree` takes a free connection past the queue.
`RemoveAtFacts`, `RemoveAtWithin` and `AppendWithin` say what the code's slice
operations do to order, membership and distinctness; `ReleaseQueue` says once
that `release` either finds the queue empty or moves one queued caller to
`ready`, and is used by the three actions that release. `HandOffKeepsOrder` shows
that only a release adds to `ready` and that `IsNext` picks a waiter nobody
outranks. `QueueStaysBounded` adds the bound to `QueueInv`: only `AcquireWait`
lengthens the queue, and the reaper queues at most once. `QueueImplementsLane`
maps holders and waiters to `Lane`'s two sets and each action to a step of it or
to none; `FindGranted` maps to `Pass` or `Idle` in the holder's name.

**LoginLane.** `LaneStepIsQueueStep` maps each step of the lane to one of the
queue or to none, so `QueueInv` holds of the lane. On top of it `LaneInv` says that a timer that
is not off belongs to the owner's run and aims at the connection the lane has
(`TimerOwned`), that one that has fired has closed it, and that an owner that
dials has put the old connection away. With `OneHolder` there is one owner, so
no other request's commands run while a timer can close, and a dial never
replaces an open connection.

**Transfers.** The count needs that holders are finitely many however many
readers there are, which `Counted` carries: there are as many as slots are
missing. `Found` (every open connection is in a slot or with a holder) needs
`NotShared`, since a holder that closes its connection or gives it back must not
take it from another. `PutFindsRoom` follows: a reader that puts is a holder.

**SendClaim.** `StepsInv` says what a submission has done when it is at a step
(accepted and counted, told nothing yet, filed before the draft's turn); the
properties on drafts, claims and answers are inductive with it. For the window,
`ClaimsSinceFirst` says that no claim is older than the message's first one, so
none is swept before the window ends, and `OneAtATime` that within it one
submission is behind the claim and that there is no copy yet while it has no
yes. Outside the window neither holds, which is why they are conditioned on it
and not on the claim.

**Store.** `CTagTells` needs that no ctag, a client's included, is ahead of the
counter (`CTagsGiven`), so that a stamp is new to everybody; `IndexesAgree` that
nothing is left of a collection that is gone (`GoneIsGone`); `AccessByConsent`
that a page that keeps a yes has read one that stands or was crossed
(`PageKeepsYes`); `FedTruly` that the calendars a conditional question was asked
for still have the ETag it was asked with, unless crossed (`AskedOfAll`), and
that no ETag is of a version not yet made.

**ListingCache.** `Due` is what a page must show: the reader's own writes and
what the watcher reported. The central part is `JobsCurrent`: what a goroutine
whose generation is current has read shows all that is due. It holds because
whatever adds to `Due` ends the generation in the same step. `KnownTold` is needed since a watcher that reconnects forgets what it
counted: what it reported is covered by the SELECT it starts from. `FlightsAnswer`
needs `MustBeDue`; `PlainVouched` needs `PlainRead` and that a page has one claim
(`OneClaim`), or a second revalidation could stamp the rows of a first. `OneClaim`
is the clause of `TypeOK` on `refreshing`, said without counting: no two goroutines
have the claim, whether each is a revalidation or a fetch ahead, and the page is
marked exactly while one has.

**BodyCache.** `HeldIdentified` rests on `Fetched`: what is in a prefetch's hands
is of the folder its claim is for. `HeldTellsTruth` needs the same truth of what
is fetched and not yet put, as long as its claim stands (`FetchedTrue`), which in
turn needs that a login writes one thing at a time (`OneTurn`; what it prefetches
meanwhile on its work connection is like any other login's: a write takes the claim of
the message from whoever has it), that one login is midway in a message nobody is unsure of
(`OneWriter`) and that the server has what it wrote (`WriteStands`). `ActionsStand`
is an action property: an action calls the automatic read off in the reader's own
table before it goes out, so the check that lets the read go on comes either
before the action's turn or finds it called off (`CalledOffStays`).

The proof found a mistake in the model. `Midway` had counted writes of *other* logins
only, so with a single login `HeldTellsTruth` would have had to hold between the
server's yes and the word to the cache, where it does not. The instance
has two logins and one of them always saw the other's write. `Midway` is now
about the login itself.

**Mirror.** A held token promises that everything up to it is in the copy
(`InStep`). A sync that may still save (`Live`: it has taken `saving`, or would
pass the checks before it) is right when no record it can meet has a later token
than its own (`Ahead`), when what it took for unchanged is in step
(`AskedInStep`, `RestInStep`), and when what it wants and got is the server's, or
has changed since its token (`WantedThere`, `PulledRight`). The hard case is a
sync of a signed-out reader that is already under `saving` when the reader comes
back and a new sync asks: it may put back older objects. `Behind` says that what
the new sync relies on is older still, so what the old one saves of it is right,
or the comparison is marked overtaken (the second gap of `late`). Three lemmas
carry the argument: `SyncGoesOn` (a sync left alone stays right), `SyncMoves` (one that
takes a step) and `SyncsLeft` (the others, when one does). `MirrorInv` was checked
by TLC on the run's instance before it was proved.

**Sessions.** A request keeps the object it looked up, so the heart is
`LiveOrEnded`: that object is the live one or was ended, unless a session was
dropped under a request (`adrift`). What is ended leaves no live session and no
record (`EndedIsGone`), hence a write through an ended object is harmless and
`lookup` cannot bring the session back. `OutOfLive` says that the live session
knows nothing of an account that is signed out, and `OutOfRecord` that the record does not
either once the sign-out is over; both are about `Stays`, what is out and not
noted in `undone`. A restore commits only the credential it read,
which a session that was signed out has no more; `SetLoginToken` needs
`AddedIsIn`, that an account whose sign-in is under way is not one that stays
out: a sign-out that crosses it is noted, and one that does not is over.
`LogoutAccount`'s early return takes the password from the object and leaves it on record,
so that account is noted too, unless another sign-out of it is still to write. `lookup`
from the record needs that no sign-out is under way then: its request would have
an object that is neither live nor ended. `LiveOnRecord` is stronger than
`OnRecord`: the record keeps up even while requests are at work. That
`Free` finds an object is a counting argument (`FreeIsFree`).

**AccountKeys.** `NothingLost` is about the entry and the data file, and every
step that moves something relies on what a login has in hand while others change
what it read. The inductive invariant `KeysInv` has the shapes of entry, file, ring and
logins (`KeptShapes`, `LoginShapes`) and, until somebody crosses, `Sound`. Its
first part is about what is stored (`StoresFit`): whatever the ring gives and the
pairs are under is a key of the entry, all pairs under one and the same
(`AllUnderKept`), the collection is wrapped to the pair or to a retired one
(`CollKept`, unless a start over discarded it), and what the entry's password
opens is one of its keys, if not always the one it is named for (`Opening`). Then
each login has its part by its step (`Fits`). `SignsIn`: the key in hand is the
entry's where the password opens that one, and what was read has the keys the
entry has unless the login is `stale`. `Acts`: what it is about to write keeps
every key of the entry unless it is `stale`, so `PutKey` loses none or crosses; the key
it turns to is one; and a start over has left no collection under the pair it
replaces. `MovesKept`: what the login has moved is under the ring's key, and the
pair is too unless it does not open, which is what `Settled` needs to let the
replaced keys and pairs go.

With logins at work together each step must leave the others' parts standing.
`Harmless` says what a step may do beside a login that does not take it: no key leaves the
entry, the ring's keys at hand stay while somebody holds the account, and what is
moved is moved to the same target. `OthersStand` shows once that a harmless step
leaves every other login fit, or has crossed it: a login whose
entry was written becomes `stale`, and one that moves while the ring turns is the
crossing itself. Each action then proves that it is harmless and that its own
login fits afterwards. `SettleKeeps` shows that settling a pair loses none and
leaves all under one key; it needs that a new pair differs from those there are
(`FreshPairIsNew`), a pigeonhole argument over a finite set and the least number
outside it (`UnusedIsNew`). `LockedForCause` is the same invariant read at the two
steps that can lock a login: with the entry's key in the ring the account stays locked
only if the pair does not open, and the key it is under is in the entry, hence a
replaced one (`ShutUnderReplaced`). `KeysInv` was checked by TLC on the run's
instance before it was proved.

**Subscriptions.** What could undo the reader is a request that read the list,
or the records here, before the reader spoke and writes after it. `Wishes` says
why it does not. While the last word on a feed is to follow it (`KeptOn`), its
entry is newer than every delete on record, in the list and in what any request
in its turn has made of it, so none takes it out or deletes the calendar. While
the last word is to drop it (`KeptOff`), an entry still listed, and whatever
others know of the calendar, is no newer than the delete on record where it was
asked for; requests there leave the entry out, and the record goes only once the
list has none. `KeptOff` needs that `Login.Update` gives one request of an alborz
its turn at a time (`OneTurn`), and both need that no name is dated ahead of every
clock (`Dated`), nor a delete or a request ahead of its own alborz's
(`DatedStores`, `DatedRequest`): a date after what every other alborz has dated, and
not before the alborz's own, is then newer than anything known. `AloneIs` makes a
subscription that nothing overlapped a wish; a delete at its alborz meanwhile has
moved the clock there past its date. `SubsInv` was checked by TLC on the run's
instance first.

## 5. Only model-checked

Liveness (`WaitEnds`, `ReaperServed`, `OwnerReturns`, `LaneKeepsQueue` with its
fairness, `TransfersEnd`, `ReaperEnds`, `AgreeAtLast`): the prover has no fairness
or ENABLED. `LaneKeepsQueue` without its fairness is the theorem `LaneIsQueue`.
Every invariant and every other action property that a passing run checks is
stated by a theorem of section 4.

## 6. Where the code differs from what it says

`keys_move` expects a violation and finds it (`keys.go:197`). `unlock` gives the
replaced keys its password opens to `Retire` and then calls `Hold`; each begins
with `get`, and `get` expires an account nobody holds, retired keys included. In
the trace another alborz makes key 1, a sign-in here makes the pair under it and is
cut short by a stop, and another alborz renews to key 2. The next sign-in here opens
both keys, `Retire` gives the ring key 1, `Hold` forgets it again and gives key 2
alone, the pair is still under key 1 and does not open, and the login is locked
although its password opens every key of the entry. The comment on `Sealer.Reseal` says that a move cut short goes on at
every sign-in. Nothing is lost (`NothingLost`): a recovery key still opens it.

The following are in the models, noted by a variable or admitted by a property's
condition, so that the runs show there is nothing beyond them:

1. `login.go:725`: a transfer that returns well just before the login closes puts
   its open connection into the channel after the reaper emptied it. The comment
   says only idle ones are left to close.
2. `mail/send.go:84`: a lost answer does not renew the claim's stamp, so the ten
   minutes run from the start of the submission. ADR 87 promises them after the
   drop. Within the window from the stamp `OneCopyInWindow` holds.
3. `pim/dav/mirror.go:601`: an own write's answer applied after a sync saved a
   later foreign change puts the older body back under the newer token (`late`).
4. `pim/dav/mirror.go:576`: a drop without `saving` and without counting a write
   lets a sync in flight save its delta onto an emptied copy (`missing`).
5. `mail/listing.go:408`: a page of a filtered view cut from an order made before
   another client's change keeps a STATUS from after it, and the check behind the
   page compares STATUS with STATUS and never renews it.
6. `mail/bodies.go:314`: an automatic read of one login may land after an unread
   through another login of the account. `ActionStands` is about the same login.
7. `web/sessions.go:116` and `web/accounts.go:204`: an account signed into between
   the look at what is left and the delete goes with the session. Sign-outs are
   undone in two ways (`undone`): `LogoutAccount` returns early where the login is
   gone already (`web/accounts.go:165`), by an earlier end of it, and the password on
   record stays for the next start; and a sign-out between a sign-in's `AddAccount`
   and its `SetLoginToken` is followed by the password being kept.
8. `web/session.go:230` and `:442`: an expired session is dropped without being
   closed, so a request that has it may still write its record (`adrift`).
9. `keys.go:267`: the key entry is read and written without a compare-and-set, so
   two actions at once, here or on two alborz, may write it over each other and lose a
   key; and an action may turn the ring under a login that is moving what is kept,
   whose `Settled` then lets go of a key or pair in use (`crossed`). `rewrapKey`
   (`keys.go:130`) wraps whatever key is held, without the comparison `unlock`
   makes at `:186`, so the entry's password may open a key that was replaced
   instead of the one the entry is named for; a login with that password then turns
   the ring back to the replaced key, and is locked where the pair is under the
   entry's own (`ShutForCause` has it in its first cause).
   `StartOver` (`keys.go:385`) drops a pair that may still open the collection
   (`discarded`).
10. `pim/share.go:41`, `pim/web/sharing.go:254`: a share is read and then written,
    so a no or a revocation in between is undone (`redone`).
11. `pim/calendar/subscriptions.go:174`: a 304 gives its ETag to a calendar that was
    made or filled since the condition was read (`stale`).
12. `pim/calendar/subscriptions.go:306`: a delete between the read of the `Dropped`
    records and that of the feeds is undone by `Create`; `Told` may forget a newer
    delete than the one it read. And each alborz dates by its own clock
    (`pim/calendar/web/collections.go:150`, `store.go:383`, `:406`; ADR 62 has it so):
    a delete on one whose clock is behind is older than the subscription, which
    counts as the reader subscribing again (`subscriptions.go:317`), and the
    calendar is made again. `ReaderObeyed` is about what was asked for with nothing
    else under way and dated after what every other alborz dated; `AgreeAtLast`
    holds regardless.

## 7. Not modelled

Rendering, routing, templates, locales, assets and command-line handling have no
state that outlives a request. Parsers and encoders (Sieve, iCalendar, vCard,
MIME, PGP) are conversions over libraries. Cryptography is opaque to a model
checker; `AccountKeys` models the order of writes around it. The content of
messages is a count or a number, so a truncated body (`mail/smtp.go:598`) is not
visible. Merged views, several pages and the rail's counts are outside
`ListingCache`, and so is the takeover of a queued speculative fetch; opened ("hot") copies, refresh rounds and `Drop` are outside
`Mirror`; other clients' writes are outside `BodyCache`; the lock by passkey, a
session ended from the list of sessions (`EndSession`) and attachments are outside
`Sessions`; a server that lacks IMAP4rev1 (`login.go:621`) is one not reached in
`LoginLane`; a key entry that does not decode, a data file
that cannot be written, the DAV password's envelope and guests' wraps are outside
`AccountKeys`. `PROJECT.json` lists every part with its status.

## 8. Plan

Modules still to be written, in this order:

1. **Memo** (`internal/memo`): an abstract "never older than the last Stale"
   specification that it implements.
2. **Takeover** of a speculative fetch, over `LoginLane`.
3. **Hot copies and refresh rounds** of the mirror.
4. **Login life**: sign-in, ping, expiry, Sieve, concurrent `Close`.
5. **Reminders and push**: announced once over restarts and reconnections.
6. **Pure algorithms**: search queries against the IMAP criteria made of them,
   page windows, record keeping; checked against reference definitions.

Proofs next: the safety of the modules above as they come.
