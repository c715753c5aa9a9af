------------------------------ MODULE Sessions ------------------------------
(***************************************************************************)
(* One browser's session (web/session.go, with web/sessions.go and         *)
(* web/accounts.go): the Session objects in memory, the record that brings *)
(* it back after a restart, and the requests that use, renew and end it    *)
(* while it is signed out of an account from another browser.  A request   *)
(* keeps the object it looked up, so one that is no longer live may still  *)
(* be written to.  The objects' steps are those taken under Session.mu and *)
(* Sessions.mu.                                                            *)
(*                                                                         *)
(* A sealed password is the number of the sign-in that gave it.  The clock *)
(* moves by the time a sign-in is remembered for, and that a session with  *)
(* none stays; the browser that comes back to an expired one gets another  *)
(* id and leaves the model.  A data file that cannot be written is left    *)
(* out, and so is the lock.                                                *)
(*                                                                         *)
(* A definition whose name extends another's is the other with a plausible *)
(* mistake in it; no specification uses it.                                *)
(***************************************************************************)
EXTENDS Integers, FiniteSets

CONSTANTS
    Accounts,     \* the accounts the browser signs into
    Requests,     \* names for the requests under way, another browser's too
    MaxSignIns,   \* bound on the passwords given
    MaxTime       \* bound on the clock

ASSUME SessionsAssumption ==
    /\ MaxSignIns \in Nat /\ MaxTime \in Nat
    /\ IsFiniteSet(Requests)
    /\ 0 \notin Accounts

VARIABLES
    now,      \* the clock
    live,     \* Sessions.live of the id
    object,   \* the Session objects
    record,   \* the SessionRecord of the id
    request,  \* the requests under way
    signIns,  \* how many passwords were given
    out,      \* accounts signed out of, and not signed into since
    undone,   \* of these, those a sign-in under way, or the record, may bring back
    adrift    \* whether a session was dropped while a request had it

vars == <<now, live, object, record, request, signIns, out, undone, adrift>>

None == 0
Nothing == [a \in Accounts |-> None]
Objects == 1..(Cardinality(Requests) + 1)
NoObject == [remember |-> Nothing, logins |-> {}, seen |-> 0, expires |-> 0, ended |-> FALSE]
NoRecord == [remember |-> Nothing, expires |-> 0]
Idle == [at |-> "idle", o |-> None, account |-> None, sealed |-> None]

\* A session just made, with no account.
Init ==
    /\ now = 0
    /\ live = 1
    /\ object = [o \in Objects |-> NoObject]
    /\ record = NoRecord
    /\ request = [r \in Requests |-> Idle]
    /\ signIns = 0
    /\ out = {} /\ undone = {}
    /\ adrift = FALSE

Remembered(s) == s.remember # Nothing

\* expired
Expired(o) ==
    LET s == object[o]
    IN s.ended \/ (IF Remembered(s) THEN now >= s.expires ELSE now > s.seen)

LiveStands == live # None /\ ~Expired(live)
RecordStands == record # NoRecord /\ now < record.expires

Goes(r, at) == request' = [request EXCEPT ![r].at = at]
Ends(r) == request' = [request EXCEPT ![r] = Idle]
Back(r) == request' = [request EXCEPT ![r] = [@ EXCEPT !.at = "in", !.account = None, !.sealed = None]]

----------------------------------------------------------------------------
(* Sessions *)

\* An object no request has, and that is not live.
Free == CHOOSE o \in Objects : o # live /\ \A r \in Requests : request[r].o # o

Used(o) == o # None /\ \E r \in Requests : request[r].o = o

\* lookup: the live session, or the record's.
Lookup(r) ==
    /\ request[r].at = "idle"
    /\ \/ /\ LiveStands
          /\ UNCHANGED live
          /\ object' = IF Remembered(object[live]) THEN object ELSE [object EXCEPT ![live].seen = now]
       \/ /\ ~LiveStands /\ RecordStands
          /\ live' = Free
          /\ object' = [object EXCEPT ![Free] =
                [NoObject EXCEPT !.remember = record.remember, !.expires = record.expires, !.seen = now]]
    /\ request' = [request EXCEPT ![r] = [Idle EXCEPT !.at = "in", !.o = live']]
    /\ adrift' = (adrift \/ (live' # live /\ Used(live)))
    /\ UNCHANGED <<now, record, signIns, out, undone>>

\* get, from a page that looks at the session; nobody closes what it drops.
Dropped ==
    /\ live # None /\ Expired(live)
    /\ live' = None
    /\ adrift' = (adrift \/ Used(live))
    /\ UNCHANGED <<now, object, record, request, signIns, out, undone>>

\* Save
SaveEnded(o) == record' = [remember |-> object[o].remember, expires |-> object[o].expires]

Save(o) ==
    record' = IF object[o].ended THEN record
              ELSE IF Remembered(object[o]) THEN [remember |-> object[o].remember, expires |-> object[o].expires]
              ELSE NoRecord

\* delete
DeleteUnclosed ==
    /\ live' = None
    /\ record' = NoRecord
    /\ UNCHANGED object

Delete ==
    /\ live' = None
    /\ object' = IF live = None THEN object ELSE [object EXCEPT ![live].ended = TRUE]
    /\ record' = NoRecord

----------------------------------------------------------------------------
(* What a request does with its session *)

RequestEnds(r) ==
    /\ request[r].at = "in"
    /\ Ends(r)
    /\ UNCHANGED <<now, live, object, record, signIns, out, undone, adrift>>

\* The device changed, a passkey or the profile was written.
SaveSession(r) ==
    /\ request[r].at = "in"
    /\ Save(request[r].o)
    /\ UNCHANGED <<now, live, object, request, signIns, out, undone, adrift>>

\* saveRemembered, for a credential added or for none.
SaveRemembered(o, account, sealed) ==
    LET s == object[o]
        want == [a \in Accounts |-> IF a = account THEN sealed ELSE IF now < s.expires THEN s.remember[a] ELSE None]
    IN IF s.ended \/ want = Nothing \/ (account = None /\ now >= s.expires) THEN UNCHANGED <<object, record>>
       ELSE /\ object' = [object EXCEPT ![o].remember = want, ![o].seen = now, ![o].expires = now + 1]
            /\ record' = [remember |-> want, expires |-> now + 1]

\* renewRemembered
Renew(r) ==
    /\ request[r].at = "in"
    /\ SaveRemembered(request[r].o, None, None)
    /\ UNCHANGED <<now, live, request, signIns, out, undone, adrift>>

\* AddAccount, of a login the server took.
AddAccount(r, a) ==
    /\ request[r].at = "in" /\ signIns < MaxSignIns
    /\ signIns' = signIns + 1
    /\ object' = [object EXCEPT ![request[r].o].logins = @ \cup {a}]
    /\ request' = [request EXCEPT ![r] = [@ EXCEPT !.at = "adding", !.account = a, !.sealed = signIns + 1]]
    /\ out' = out \ {a} /\ undone' = undone \ {a}
    /\ UNCHANGED <<now, live, record, adrift>>

\* SetLoginToken, where it is to be remembered.
SetLoginToken(r) ==
    /\ request[r].at = "adding"
    /\ SaveRemembered(request[r].o, request[r].account, request[r].sealed)
    /\ Ends(r)
    /\ UNCHANGED <<now, live, signIns, out, undone, adrift>>

NotRemembered(r) ==
    /\ request[r].at = "adding"
    /\ Ends(r)
    /\ UNCHANGED <<now, live, object, record, signIns, out, undone, adrift>>

\* RestoreRememberedAccounts reads the credentials; here, what it does with one.
Restore(r, a) ==
    LET s == object[request[r].o]
    IN /\ request[r].at = "in"
       /\ s.remember[a] # None /\ now < s.expires
       /\ request' = [request EXCEPT ![r] = [@ EXCEPT !.at = "restoring", !.account = a, !.sealed = s.remember[a]]]
       /\ UNCHANGED <<now, live, object, record, signIns, out, undone, adrift>>

\* restored: only the credential that was read is committed.
MayRestoreAny(s, a, sealed) == ~s.ended /\ now < s.expires /\ a \notin s.logins

MayRestore(s, a, sealed) == ~s.ended /\ now < s.expires /\ a \notin s.logins /\ s.remember[a] = sealed

Restored(r) ==
    LET o == request[r].o
        a == request[r].account
    IN /\ request[r].at = "restoring"
       /\ object' = IF MayRestore(object[o], a, request[r].sealed) THEN [object EXCEPT ![o].logins = @ \cup {a}] ELSE object
       /\ Back(r)
       /\ UNCHANGED <<now, live, record, signIns, out, undone, adrift>>

\* The server refuses it: forgetRefused, then Save.
Refused(r) ==
    LET o == request[r].o
        a == request[r].account
        stands == ~object[o].ended /\ object[o].remember[a] = request[r].sealed
    IN /\ request[r].at = "restoring"
       /\ object' = IF stands THEN [object EXCEPT ![o].remember[a] = None] ELSE object
       /\ IF stands THEN Goes(r, "refused") ELSE Back(r)
       /\ UNCHANGED <<now, live, record, signIns, out, undone, adrift>>

SaveRefused(r) ==
    /\ request[r].at = "refused"
    /\ Save(request[r].o)
    /\ Back(r)
    /\ UNCHANGED <<now, live, object, signIns, out, undone, adrift>>

----------------------------------------------------------------------------
(* Signing out, here and from another browser *)

\* handleLogout finds the login, LogoutAccount takes it out.
Logout(r, a) ==
    /\ request[r].at = "in"
    /\ a \in object[request[r].o].logins
    /\ request' = [request EXCEPT ![r] = [@ EXCEPT !.at = "logout", !.account = a]]
    /\ UNCHANGED <<now, live, object, record, signIns, out, undone, adrift>>

\* A sign-in has added the account and may keep its password yet, a sign-out
\* meanwhile or not.
Adding(a) == \E r \in Requests : request[r].at = "adding" /\ request[r].account = a

\* A sign-out not over yet, which a restart cuts short.
SigningOut(a) == \E r \in Requests : request[r].account = a /\ request[r].at \in {"taken", "removed", "saving", "empty"}

\* saved: the record is or will be written.
SignedOut(a, saved) ==
    /\ out' = out \cup {a}
    /\ undone' = IF Adding(a) \/ (~saved /\ record.remember[a] # None) THEN undone \cup {a}
                 ELSE IF saved THEN undone \ {a} ELSE undone

\* SignOut: the live session is taken, or the record is written.
SignOut(r, a) ==
    /\ request[r].at = "idle"
    /\ IF live # None
       THEN /\ request' = [request EXCEPT ![r] = [Idle EXCEPT !.at = "signout", !.o = live, !.account = a]]
            /\ UNCHANGED <<record, out, undone>>
       ELSE LET left == [record EXCEPT !.remember[a] = None]
            IN /\ record # NoRecord
               /\ record' = IF Remembered(left) THEN left ELSE NoRecord
               /\ SignedOut(a, TRUE)
               /\ UNCHANGED request
    /\ UNCHANGED <<now, live, object, signIns, adrift>>

\* remove
Taken(s, a) == [s EXCEPT !.logins = @ \ {a}, !.remember[a] = None]

\* LogoutAccount returns where no login is left to take out: the password is
\* forgotten, and not on record.
Remove(r) ==
    LET o == request[r].o
        a == request[r].account
        at == request[r].at
        found == at = "signout" \/ a \in object[o].logins
    IN /\ at \in {"logout", "signout"}
       /\ object' = [object EXCEPT ![o] = Taken(@, a)]
       /\ IF at = "signout" THEN Goes(r, "removed") ELSE IF found THEN Goes(r, "taken") ELSE Ends(r)
       /\ SignedOut(a, found \/ SigningOut(a))
       /\ UNCHANGED <<now, live, record, signIns, adrift>>

\* forgetLoginToken forgets it again, one kept since with it.
Forget(r) ==
    /\ request[r].at = "taken"
    /\ object' = [object EXCEPT ![request[r].o].remember[request[r].account] = None]
    /\ Goes(r, "removed")
    /\ UNCHANGED <<now, live, record, signIns, out, undone, adrift>>

\* Whether an account is left is looked at before the session is saved or deleted.
Left(r) ==
    LET s == object[request[r].o]
    IN /\ request[r].at = "removed"
       /\ Goes(r, IF s.logins = {} /\ ~Remembered(s) THEN "empty" ELSE "saving")
       /\ UNCHANGED <<now, live, object, record, signIns, out, undone, adrift>>

SaveLeft(r) ==
    /\ request[r].at = "saving"
    /\ Save(request[r].o)
    /\ Ends(r)
    /\ UNCHANGED <<now, live, object, signIns, out, undone, adrift>>

DeleteEmpty(r) ==
    /\ request[r].at = "empty"
    /\ Delete
    /\ Ends(r)
    /\ UNCHANGED <<now, signIns, out, undone, adrift>>

----------------------------------------------------------------------------
(* Time and restarts *)

\* No request lasts as long as a session that is counted from its last use.
Tick ==
    /\ now < MaxTime
    /\ \A r \in Requests : request[r].o # None => Remembered(object[request[r].o])
    /\ now' = now + 1
    /\ UNCHANGED <<live, object, record, request, signIns, out, undone, adrift>>

LoginEnds(o, a) ==
    /\ a \in object[o].logins
    /\ object' = [object EXCEPT ![o].logins = @ \ {a}]
    /\ UNCHANGED <<now, live, record, request, signIns, out, undone, adrift>>

\* The next start sweeps what expired.
Restart ==
    /\ live' = None
    /\ object' = [o \in Objects |-> NoObject]
    /\ request' = [r \in Requests |-> Idle]
    /\ record' = IF RecordStands THEN record ELSE NoRecord
    /\ out' = {a \in out : ~SigningOut(a)}
    /\ UNCHANGED <<now, signIns, undone, adrift>>

Next ==
    \/ \E r \in Requests :
        \/ Lookup(r) \/ RequestEnds(r) \/ SaveSession(r) \/ Renew(r)
        \/ SetLoginToken(r) \/ NotRemembered(r) \/ Restored(r) \/ Refused(r) \/ SaveRefused(r)
        \/ Remove(r) \/ Forget(r) \/ Left(r) \/ SaveLeft(r) \/ DeleteEmpty(r)
        \/ \E a \in Accounts : AddAccount(r, a) \/ Restore(r, a) \/ Logout(r, a) \/ SignOut(r, a)
    \/ \E o \in Objects, a \in Accounts : LoginEnds(o, a)
    \/ Dropped \/ Tick \/ Restart

Spec == Init /\ [][Next]_vars

----------------------------------------------------------------------------
(* Properties *)

\* Sessions.Holds
Holds(a) ==
    \/ LiveStands /\ (object[live].remember[a] # None \/ a \in object[live].logins)
    \/ RecordStands /\ record.remember[a] # None

\* Types; a record is never kept empty.
TypeOK ==
    /\ now \in 0..MaxTime /\ live \in Objects \cup {None}
    /\ \A o \in Objects :
        /\ object[o].remember \in [Accounts -> 0..MaxSignIns] /\ object[o].logins \subseteq Accounts
        /\ object[o].expires \in 0..(MaxTime + 1) /\ object[o].ended \in BOOLEAN
    /\ record.expires \in 0..(MaxTime + 1)
    /\ record # NoRecord => Remembered(record)
    /\ \A r \in Requests : request[r].at # "idle" => request[r].o \in Objects

\* An account the browser was signed out of, from here or from another browser,
\* stays out until its password is given again: no restore in flight, no request
\* that holds the session, and no restart brings it back (lookup: "so an
\* in-flight restore cannot put it back").  Not so where the sign-out came while
\* a sign-in was about to keep the password, or where its login was gone already
\* and the record was left.
SignedOutStays == adrift \/ \A a \in out : Holds(a) => SigningOut(a) \/ a \in undone

\* With no request at work on it, what a live session remembers is on record,
\* with the same expiry, so a restart brings back no less (saveRemembered: "Save
\* first: a failed write must not promise a longer cookie").
OnRecord ==
    live # None /\ ~adrift /\ ~object[live].ended /\ (\A r \in Requests : request[r].at = "idle") =>
        \A a \in Accounts : object[live].remember[a] # None =>
            record.remember[a] = object[live].remember[a] /\ record.expires = object[live].expires
=============================================================================
