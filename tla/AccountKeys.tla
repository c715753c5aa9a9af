---------------------------- MODULE AccountKeys ----------------------------
(***************************************************************************)
(* The encryption of one account on one alborz (keys.go, internal/keyring, *)
(* with records.go, pim/store/sealed.go and passwd.go).  The account's own *)
(* keys are kept in an entry of its settings, wrapped under the mail       *)
(* password and under recovery keys, where every alborz it uses finds      *)
(* them.  The data file keeps the account's key pair and what is sealed    *)
(* under these keys; the ring in memory has the keys at hand.  Logins take *)
(* turns or overlap, the password changes, alborz stops at any time, and   *)
(* another one changes the entry.  Nothing keeps those at work from        *)
(* crossing: an entry is written over what another wrote since it was      *)
(* read, or the ring is turned while a login is moving what it keeps.      *)
(*                                                                         *)
(* A key is a number and what is sealed is the number of its key: 0 is the *)
(* instance's.  "record" stands for what is sealed under the own key itself*)
(* (the settings, a mirrored collection, a push device), "coll" for a      *)
(* collection, whose random key is wrapped to a pair: it is that pair.  A  *)
(* number nothing refers to may be given again.  An entry that does not    *)
(* decode, and a data file that cannot be written, are left out.           *)
(*                                                                         *)
(* A definition whose name extends another's is the other with a plausible *)
(* mistake in it; no specification uses it.                                *)
(***************************************************************************)
EXTENDS Integers, FiniteSets

CONSTANTS
    Logins,        \* names for the account's logins, a phone's included
    Together,      \* how many of them may be at work at once
    MaxKeys,       \* bound on the own keys made
    MaxPasswords   \* bound on the mail passwords the account has had

ASSUME KeysAssumption ==
    /\ IsFiniteSet(Logins) /\ Together \in Nat
    /\ MaxKeys \in Nat /\ MaxPasswords \in Nat

VARIABLES
    password,  \* the mail password, the server's
    entry,     \* accountKey, as the settings keep it
    file,      \* the data file: pairRecord, a sealed record, a collection
    ring,      \* keyring.account; its pair is the file's
    login,     \* where each login is
    discarded, \* a start over dropped a pair the collection was wrapped to
    stale,     \* logins with an entry in hand that was written since
    crossed    \* logins, or two alborz, have crossed

kvars == <<password, entry, file, ring, login, discarded, stale, crossed>>

Nil == 0        \* no key, no pair
Instance == 0    \* sealed under the instance's key
Gone == -1       \* deleted

NoEntry == [id |-> Nil, opens |-> Nil, off |-> FALSE, pw |-> 0, retired |-> {}]
NoPair == [id |-> Nil, under |-> Instance, retired |-> {}]
EmptyRing == [own |-> Nil, old |-> {}, on |-> FALSE, leased |-> FALSE]
Out == [at |-> "out", op |-> "none", pw |-> 0, locked |-> FALSE, failed |-> FALSE, k |-> NoEntry, own |-> Nil]

\* A new account, at its first sign-in.
KeysInit ==
    /\ password = 1
    /\ entry = NoEntry
    /\ file = [pair |-> NoPair, record |-> Instance, coll |-> Instance]
    /\ ring = EmptyRing
    /\ login = [l \in Logins |-> Out]
    /\ discarded = FALSE
    /\ stale = {} /\ crossed = FALSE

Busy(l) == login[l].at \notin {"out", "in"}
MayStart == Cardinality({l \in Logins : Busy(l)}) < Together

\* The least number not in S, and no other.
Unused(S) == {n \in 1..(Cardinality(S) + 1) : n \notin S /\ \A m \in 1..(n - 1) : m \in S}

----------------------------------------------------------------------------
(* The entry *)

Made(k) == k.id # Nil
On(k) == Made(k) /\ ~k.off
EntryKeys(k) == {r.id : r \in k.retired} \cup ({k.id} \ {Nil})

\* What the password pw opens: not always the key the entry is named for.
OpenWith(k, pw) == IF Made(k) /\ k.pw = pw THEN k.opens ELSE Nil
RetiredBy(k, pw) == {r.opens : r \in {r \in k.retired : r.pw = pw}}
Under(k, own, pw) == [k EXCEPT !.opens = own, !.pw = pw]

\* renewed: the key it replaces is retired.
RenewedForgetting(k, own, pw) ==
    [id |-> own, opens |-> own, off |-> FALSE, pw |-> pw, retired |-> k.retired]

Renewed(k, own, pw) ==
    [id |-> own, opens |-> own, off |-> FALSE, pw |-> pw,
     retired |-> k.retired \cup (IF Made(k) THEN {[id |-> k.id, opens |-> k.opens, pw |-> k.pw]} ELSE {})]

----------------------------------------------------------------------------
(* The ring *)

\* Between Hold and the end of the login; a lease does as much.
HoldsAccount(l) == login[l].at \notin {"out", "read", "rewrap", "retire", "hold"}
Held == ring.leased \/ \E l \in Logins : HoldsAccount(l)

\* expire, which get calls before anything else looks.
Expire(r, held) ==
    IF held THEN r ELSE [r EXCEPT !.own = Nil, !.old = {}, !.on = file.pair.under # Instance]

Get == Expire(ring, Held)

AtHand(r) == {Instance} \cup r.old \cup {r.own}
Target(r) == IF r.on THEN r.own ELSE Instance
Locked(r, p) == r.on /\ (r.own = Nil \/ (p.id # Nil /\ p.under \notin AtHand(r)))

\* The pairs whose private key one of keys opens.
PairsOpen(p, keys) ==
    {x.id : x \in {x \in p.retired \cup {[id |-> p.id, under |-> p.under]} : x.under \in keys}} \ {Nil}

RecordOpens(r) == file.record \in AtHand(r) \cup {Gone}
CollOpens(r) == file.coll \in {Instance, Gone} \cup PairsOpen(file.pair, AtHand(r))

\* A random key, and a random pair.
FreshKeys == Unused({ring.own, file.record, file.pair.under} \cup ring.old \cup {x.under : x \in file.pair.retired}
                    \cup EntryKeys(entry) \cup UNION {EntryKeys(login[l].k) \cup {login[l].own} : l \in Logins})
FreshPair == CHOOSE n \in Unused({file.pair.id, file.coll} \cup {x.id : x \in file.pair.retired}) : TRUE

\* settle: a pair made, or its private key sealed under the target; one going
\* under an own key is replaced, and retired.
Settle(r, p) ==
    IF (r.on /\ r.own = Nil) \/ (p.id # Nil /\ (p.under = Target(r) \/ p.under \notin AtHand(r))) THEN p
    ELSE LET moved == {[x EXCEPT !.under = IF @ \in AtHand(r) THEN Target(r) ELSE @] : x \in p.retired}
             was == IF p.id # Nil /\ r.on THEN {[id |-> p.id, under |-> Target(r)]} ELSE {}
         IN [id |-> IF p.id = Nil \/ r.on THEN FreshPair ELSE p.id, under |-> Target(r), retired |-> moved \cup was]

\* turn: the own key given takes the place of the one held, which is kept.
Turned(r, own, on) ==
    [r EXCEPT !.own = IF own = Nil THEN @ ELSE own,
              !.old = IF own # Nil /\ r.own \notin {Nil, own} THEN @ \cup {r.own} ELSE @,
              !.on = on]

Turn(own, on) ==
    /\ ring' = Turned(Get, own, on)
    /\ file' = [file EXCEPT !.pair = Settle(ring', @)]

----------------------------------------------------------------------------
(* Crossing *)

InTheWay(l) == login[l].at \in {"rewrap", "retire", "hold", "put", "turn"}
Moving(l) == login[l].at \in {"record", "coll", "settled"}
Unmoved(l) == login'[l] = login[l]

\* What a login moves everything under.
Ground == <<ring.own, ring.on, file.pair.id, file.pair.under, file.pair.under \in AtHand(ring)>>

WritesOver == entry' # entry /\ \E l \in stale : ~Unmoved(l)
TurnsUnder == Ground' # Ground /\ \E l \in Logins : Moving(l) /\ Unmoved(l)

Cross ==
    /\ stale' = {l \in Logins : InTheWay(l)' /\ (l \in stale \/ (entry' # entry /\ Unmoved(l)))}
    /\ crossed' = (crossed \/ WritesOver \/ TurnsUnder)

\* The rest stands, and what crossed is noted.
Leaves(rest) == UNCHANGED rest /\ Cross

----------------------------------------------------------------------------
(* Signing in: unlock *)

GoesTo(l, at) == login' = [login EXCEPT ![l].at = at]
EndsWork(l) == login' = [login EXCEPT ![l] = [@ EXCEPT !.at = "in", !.op = "none", !.k = NoEntry, !.own = Nil]]

\* After the ring's turn: in and locked by the key it read, or on to moving
\* what is kept.
Moves(l, shut) ==
    login' = [login EXCEPT ![l] = [@ EXCEPT !.at = IF shut THEN "in" ELSE "record", !.op = "none", !.locked = shut,
                                            !.failed = FALSE, !.k = NoEntry, !.own = Nil]]

SignIn(l) ==
    /\ login[l].at = "out" /\ MayStart
    /\ login' = [login EXCEPT ![l] = [Out EXCEPT !.at = "read", !.pw = password]]
    /\ Leaves(<<password, entry, file, ring, discarded>>)

\* keyOf
ReadKey(l) ==
    /\ login[l].at = "read"
    /\ login' = [login EXCEPT ![l].at = "rewrap", ![l].k = entry, ![l].own = OpenWith(entry, login[l].pw)]
    /\ Leaves(<<password, entry, file, ring, discarded>>)

\* A key the password does not open is taken from another login's hold, and
\* wrapped again.
Rewrap(l) ==
    LET held == Get.own
        k == login[l].k
    IN /\ login[l].at = "rewrap"
       /\ IF login[l].own = Nil /\ held # Nil /\ held = k.id
          THEN /\ entry' = Under(k, held, login[l].pw)
               /\ login' = [login EXCEPT ![l].at = "retire", ![l].own = held]
          ELSE GoesTo(l, "retire") /\ UNCHANGED entry
       /\ Leaves(<<password, file, ring, discarded>>)

\* Retire: the retired keys the password opens, and what the ring held when
\* that is not the entry's key.
Retire(l) ==
    LET k == login[l].k
    IN /\ login[l].at = "retire"
       /\ ring' = [Get EXCEPT !.old = @ \cup RetiredBy(k, login[l].pw) \cup ({Get.own} \ {Nil, k.id})]
       /\ GoesTo(l, "hold")
       /\ Leaves(<<password, entry, file, discarded>>)

\* Hold, and settle as far as deciding that the login is locked.
Hold(l) ==
    /\ login[l].at = "hold"
    /\ Turn(login[l].own, On(login[l].k))
    /\ Moves(l, Locked(ring', file'.pair))
    /\ Leaves(<<password, entry, discarded>>)

----------------------------------------------------------------------------
(* Moving what is kept: reseal, each part in a transaction, then Settled *)

\* settingsRecords.reseal
ResealRecordQuiet(l) ==
    /\ login[l].at = "record"
    /\ file' = [file EXCEPT !.record = IF Locked(Get, file.pair) \/ ~RecordOpens(Get) \/ @ = Gone THEN @ ELSE Target(Get)]
    /\ GoesTo(l, "coll")
    /\ Leaves(<<password, entry, ring, discarded>>)

ResealRecord(l) ==
    LET bad == Locked(Get, file.pair) \/ ~RecordOpens(Get)
    IN /\ login[l].at = "record"
       /\ file' = [file EXCEPT !.record = IF bad \/ @ = Gone THEN @ ELSE Target(Get)]
       /\ login' = [login EXCEPT ![l].at = "coll", ![l].failed = bad]
       /\ Leaves(<<password, entry, ring, discarded>>)

\* Store.Reseal of an own collection nobody shares: decrypt, rekey or encrypt.
\* One that does not open is passed over while the encryption is on.
ResealColl(l) ==
    /\ login[l].at = "coll"
    /\ file' = [file EXCEPT !.coll = IF @ = Gone \/ ~CollOpens(Get) THEN @
                                     ELSE IF Get.on THEN file.pair.id ELSE Instance]
    /\ login' = [login EXCEPT ![l].at = "settled", ![l].failed = @ \/ (~CollOpens(Get) /\ ~Get.on)]
    /\ Leaves(<<password, entry, ring, discarded>>)

\* Settled forgets the keys and pairs that were replaced, unless a part failed.
SettledAnyway(l) ==
    /\ login[l].at = "settled"
    /\ ring' = [Get EXCEPT !.old = {}]
    /\ file' = [file EXCEPT !.pair.retired = {}]
    /\ EndsWork(l)
    /\ Leaves(<<password, entry, discarded>>)

Settled(l) ==
    /\ login[l].at = "settled"
    /\ IF login[l].failed THEN UNCHANGED <<ring, file>>
       ELSE /\ ring' = [Get EXCEPT !.old = {}]
            /\ file' = [file EXCEPT !.pair.retired = {}]
    /\ EndsWork(l)
    /\ Leaves(<<password, entry, discarded>>)

----------------------------------------------------------------------------
(* The reader's actions *)

MayAct(l) == login[l].at = "in" /\ MayStart

\* What the login has in hand on its way to PutKey, TurnKey or Replace.
Starts(l, at, op, own, k) ==
    login' = [login EXCEPT ![l] = [@ EXCEPT !.at = at, !.op = op, !.own = own, !.k = k]]

\* Encrypt: a new key each time.
Encrypt(l) ==
    /\ MayAct(l) /\ ~login[l].locked
    /\ Cardinality(EntryKeys(entry)) < MaxKeys
    /\ \E own \in FreshKeys : Starts(l, "put", "encrypt", own, Renewed(entry, own, login[l].pw))
    /\ Leaves(<<password, entry, file, ring, discarded>>)

Decrypt(l) ==
    /\ MayAct(l) /\ ~login[l].locked
    /\ On(entry)
    /\ Starts(l, "put", "decrypt", Nil, [entry EXCEPT !.off = TRUE])
    /\ Leaves(<<password, entry, file, ring, discarded>>)

\* Recover with the current key's recovery key.
Recover(l) ==
    /\ MayAct(l)
    /\ Made(entry)
    /\ Starts(l, "put", "recover", entry.id, Under(entry, entry.id, login[l].pw))
    /\ Leaves(<<password, entry, file, ring, discarded>>)

\* Recover with a retired key's, while the current key is open.
RecoverRetired(l) ==
    /\ MayAct(l)
    /\ Get.own # Nil /\ Get.own = entry.id
    /\ \E x \in entry.retired : ring' = [Get EXCEPT !.old = @ \cup {x.id}]
    /\ Starts(l, "turn", "recover", Nil, entry)
    /\ Leaves(<<password, entry, file, discarded>>)

\* StartOver, with its Drops: what no key at hand opens is deleted.
StartOver(l) ==
    LET current == Get.own # Nil /\ Get.own = entry.id
    IN /\ MayAct(l) /\ login[l].locked
       /\ file' = [file EXCEPT !.record = IF RecordOpens(Get) THEN @ ELSE Gone,
                               !.coll = IF CollOpens(Get) THEN @ ELSE Gone]
       /\ \/ current /\ Starts(l, "turn", "startover", Get.own, entry)
          \/ /\ ~current /\ Cardinality(EntryKeys(entry)) < MaxKeys
             /\ \E own \in FreshKeys : Starts(l, "put", "startover", own, Renewed(entry, own, login[l].pw))
       /\ Leaves(<<password, entry, ring, discarded>>)

\* The entry is written, over what another wrote since it was read.
PutKey(l) ==
    /\ login[l].at = "put"
    /\ entry' = login[l].k
    /\ IF login[l].op = "password" THEN EndsWork(l) ELSE GoesTo(l, "turn")
    /\ Leaves(<<password, file, ring, discarded>>)

\* The settings do not take it.
PutRefused(l) ==
    /\ login[l].at = "put"
    /\ EndsWork(l)
    /\ Leaves(<<password, entry, file, ring, discarded>>)

TurnKey(l) ==
    /\ login[l].at = "turn" /\ login[l].op # "startover"
    /\ Turn(login[l].own, On(login[l].k))
    /\ Moves(l, login[l].op = "recover" /\ Locked(ring', file'.pair))
    /\ Leaves(<<password, entry, discarded>>)

\* Replace: a new pair under the key, the old one dropped.
Replace(l) ==
    /\ login[l].at = "turn" /\ login[l].op = "startover"
    /\ ring' = [ring EXCEPT !.own = login[l].own, !.old = {}, !.on = TRUE]
    /\ file' = [file EXCEPT !.pair = [id |-> FreshPair, under |-> login[l].own, retired |-> {}]]
    /\ Moves(l, FALSE)
    /\ discarded' = (discarded \/ file.coll \notin {Instance, Gone})
    /\ Leaves(<<password, entry>>)

\* rewrapKey: the key in hand, and the retired ones the login's password opens,
\* under the next.
Rewrapped(k, own, pw, next) ==
    [Under(k, own, next) EXCEPT !.retired = {[r EXCEPT !.pw = IF @ = pw THEN next ELSE @] : r \in k.retired}]

\* The key the login's password opens or, if none, whatever the ring holds: the
\* account's or one it replaced.
InHand(l) == IF OpenWith(entry, login[l].pw) # Nil THEN OpenWith(entry, login[l].pw) ELSE Get.own

\* ChangePassword: the server, which has the new one before the entry is
\* written, takes the old one from the page and not from the login.  The page
\* goes on with a SignIn of its own.
ChangePassword(l) ==
    /\ MayAct(l)
    /\ password < MaxPasswords
    /\ password' = password + 1
    /\ IF Made(entry) /\ InHand(l) # Nil
       THEN Starts(l, "put", "password", Nil, Rewrapped(entry, InHand(l), login[l].pw, password + 1))
       ELSE UNCHANGED login
    /\ Leaves(<<entry, file, ring, discarded>>)

\* settingsRecords.Put: nothing is written over a record that does not open.
WriteRecord(l) ==
    /\ login[l].at = "in"
    /\ ~Locked(Get, file.pair) /\ RecordOpens(Get)
    /\ file.record # Target(Get)
    /\ file' = [file EXCEPT !.record = Target(Get)]
    /\ Leaves(<<password, entry, ring, login, discarded>>)

----------------------------------------------------------------------------
(* The login ends, alborz stops, and what happens elsewhere *)

\* release, which expires.
Close(l) ==
    /\ login[l].at = "in"
    /\ login' = [login EXCEPT ![l] = Out]
    /\ ring' = Expire(ring, ring.leased \/ \E m \in Logins \ {l} : HoldsAccount(m))
    /\ Leaves(<<password, entry, file, discarded>>)

\* Unlock: a phone's login ends at once, and leaves the key on a lease.
Lease(l) ==
    /\ login[l].at = "in" /\ ~login[l].locked
    /\ ring.own # Nil
    /\ login' = [login EXCEPT ![l] = Out]
    /\ ring' = [ring EXCEPT !.leased = TRUE]
    /\ Leaves(<<password, entry, file, discarded>>)

LeaseEnds ==
    /\ ring.leased
    /\ ring' = Expire([ring EXCEPT !.leased = FALSE], \E l \in Logins : HoldsAccount(l))
    /\ Leaves(<<password, entry, file, login, discarded>>)

\* New reads the pair again.
Stop ==
    /\ \E l \in Logins : login[l].at # "out"
    /\ ring' = [EmptyRing EXCEPT !.on = file.pair.under # Instance]
    /\ login' = [l \in Logins |-> Out]
    /\ Leaves(<<password, entry, file, discarded>>)

ResetPassword ==
    /\ password < MaxPasswords
    /\ password' = password + 1
    /\ Leaves(<<entry, file, ring, login, discarded>>)

\* Another alborz, with the password or a recovery key: it makes a key, turns
\* the encryption off, or wraps a key it holds again.
Elsewhere ==
    /\ \/ /\ Cardinality(EntryKeys(entry)) < MaxKeys
          /\ \E own \in FreshKeys : entry' = Renewed(entry, own, password)
       \/ On(entry) /\ entry' = [entry EXCEPT !.off = TRUE]
       \/ /\ Made(entry) /\ entry.pw # password
          /\ \E own \in EntryKeys(entry) : entry' = Under(entry, own, password)
    /\ Leaves(<<password, file, ring, login, discarded>>)

----------------------------------------------------------------------------
KeysNext ==
    \/ \E l \in Logins :
        \/ SignIn(l) \/ ReadKey(l) \/ Rewrap(l) \/ Retire(l) \/ Hold(l)
        \/ ResealRecord(l) \/ ResealColl(l) \/ Settled(l)
        \/ Encrypt(l) \/ Decrypt(l) \/ Recover(l) \/ RecoverRetired(l) \/ StartOver(l) \/ ChangePassword(l)
        \/ PutKey(l) \/ PutRefused(l) \/ TurnKey(l) \/ Replace(l)
        \/ WriteRecord(l) \/ Close(l) \/ Lease(l)
    \/ LeaseEnds \/ Stop \/ ResetPassword \/ Elsewhere

KeysSpec == KeysInit /\ [][KeysNext]_kvars

----------------------------------------------------------------------------
(* Properties *)

\* Whatever happens, and whoever is at work, some key of the entry leads to
\* everything kept as long as nobody crossed: the record is under one, and the
\* collection is wrapped to a pair that opens with one (keyring.go: a replaced
\* pair is kept "until the wraps to it are made again").
NothingLost ==
    LET keys == {Instance} \cup EntryKeys(entry)
    IN \/ discarded \/ crossed
       \/ /\ file.record \in keys \cup {Gone}
          /\ file.coll \in {Instance, Gone} \cup PairsOpen(file.pair, keys)

\* The replaced keys and pairs are let go only once everything is under the key
\* the ring gives, whoever is at work beside (settle: "once all is moved, the
\* keys it replaced are let go"; the ring: "so no copy made before opens what
\* follows").
LetGoOnceMoved ==
    [][\A l \in Logins :
        login[l].at = "settled" /\ login'[l].at = "in" /\ ~login[l].failed /\ ~discarded /\ ~crossed
        /\ file.pair.under \in AtHand(ring) =>
            /\ file.record \in {Target(ring), Gone}
            /\ file.pair.under = Target(ring)
            /\ file.coll \in {Gone, IF ring.on THEN file.pair.id ELSE Instance}]_kvars

\* A login turns out locked only when its password does not open the account's
\* key and no login holds it, or the pair here is still under a key that was
\* replaced (unlock: "taken from another login that holds it ...; without one
\* the login is locked"), or the entry was written since the login read it.
TurnsOutLocked(l) == ~login[l].locked /\ login'[l].locked

ShutForCause ==
    [][\A l \in Logins : TurnsOutLocked(l) =>
        \/ OpenWith(login[l].k, login[l].pw) # login[l].k.id /\ ring'.own # login[l].k.id
        \/ file.pair.under \in {x.id : x \in login[l].k.retired}
        \/ l \in stale \/ crossed]_kvars

Quiet == \A l \in Logins : ~Busy(l)

\* A move cut short goes on at the next sign-in: a login that is in, and whose
\* password opens every key of the entry, is not locked and reads everything
\* (keys.go, on Reseal: "It runs at every sign-in, so a move cut short goes on").
MoveGoesOn ==
    \A l \in Logins :
        Quiet /\ login[l].at = "in" /\ (\A x \in entry.retired \cup {entry} : x.pw = login[l].pw /\ x.opens = x.id) =>
            discarded \/ crossed \/ (~login[l].locked /\ RecordOpens(ring) /\ CollOpens(ring))
=============================================================================
