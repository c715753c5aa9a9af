--------------------------- MODULE SessionsProofs ---------------------------
(***************************************************************************)
(* Theorems about Sessions, for every set of accounts and requests, every  *)
(* number of sign-ins and every length of time; and about AccountKeys, the *)
(* keys of an account that is signed in, for every finite set of logins.   *)
(***************************************************************************)
EXTENDS Sessions, AccountKeys, FiniteSetTheorems, WellFoundedInduction, TLAPS

RequestSteps ==
    {"idle", "in", "adding", "restoring", "refused", "logout", "signout", "taken", "removed", "saving", "empty"}

Credentials == [Accounts -> 0..MaxSignIns]
ObjectStates ==
    [remember : Credentials, logins : SUBSET Accounts, seen : 0..MaxTime, expires : 0..(MaxTime + 1), ended : BOOLEAN]
RecordStates == [remember : Credentials, expires : 0..(MaxTime + 1)]
RequestStates == [at : RequestSteps, o : Objects \cup {None}, account : Accounts \cup {None}, sealed : 0..MaxSignIns]

SessionTypes ==
    /\ now \in 0..MaxTime /\ live \in Objects \cup {None}
    /\ object \in [Objects -> ObjectStates]
    /\ record \in RecordStates
    /\ signIns \in 0..MaxSignIns /\ out \subseteq Accounts /\ undone \subseteq Accounts /\ adrift \in BOOLEAN

\* What a request has at each step.
RequestTypes ==
    /\ request \in [Requests -> RequestStates]
    /\ \A r \in Requests :
        /\ request[r].at = "idle" <=> request[r].o = None
        /\ request[r].at \notin {"idle", "in"} => request[r].account \in Accounts
        /\ request[r].at \in {"adding", "restoring"} => request[r].sealed # None

\* A record is never kept empty.
RecordKept == record # NoRecord => Remembered(record)

Types == SessionTypes /\ RequestTypes /\ RecordKept

\* The live session is not ended; and what a request has is the live one or was
\* ended, unless one was dropped under a request.
LiveOrEnded ==
    /\ live # None => ~object[live].ended
    /\ ~adrift => \A r \in Requests : request[r].o \notin {None, live} => object[request[r].o].ended

\* What is ended leaves nothing behind, in memory or on record.
EndedIsGone == ~adrift /\ (\E o \in Objects : object[o].ended) => live = None /\ record = NoRecord

\* The accounts the browser must stay out of.
Stays == out \ undone

\* An account whose password was just given is none of them.
AddedIsIn == \A a \in Stays : ~Adding(a)

\* What the live session remembers is on record, whoever is at work on it.
LiveOnRecord ==
    ~adrift /\ live # None =>
        \A a \in Accounts : object[live].remember[a] # None =>
            record.remember[a] = object[live].remember[a] /\ record.expires = object[live].expires

\* The live session knows nothing of an account that is signed out, nor does
\* the record once the sign-out is over.
OutOfLive == ~adrift /\ live # None => \A a \in Stays : object[live].remember[a] = None /\ a \notin object[live].logins
OutOfRecord == ~adrift => \A a \in Stays : record.remember[a] # None => SigningOut(a)

SessionsInv ==
    /\ Types
    /\ LiveOrEnded /\ EndedIsGone /\ AddedIsIn
    /\ LiveOnRecord /\ OutOfLive /\ OutOfRecord

LEMMA EmptyTypes ==
    /\ Nothing \in Credentials /\ NoObject \in ObjectStates /\ NoRecord \in RecordStates /\ Idle \in RequestStates
    /\ Nothing = [a \in Accounts |-> 0] /\ NoObject.remember = Nothing /\ NoObject.logins = {} /\ ~NoObject.ended
    /\ NoRecord.remember = Nothing /\ Idle.at = "idle" /\ Idle.o = None /\ Idle.account = None /\ Idle.sealed = None
<1>1. 0 \in 0..MaxSignIns /\ 0 \in 0..MaxTime /\ 0 \in 0..(MaxTime + 1)
  BY SessionsAssumption
<1>2. Nothing \in Credentials /\ Nothing = [a \in Accounts |-> 0]
  BY <1>1 DEF Nothing, None, Credentials
<1> QED  BY <1>1, <1>2 DEF NoObject, ObjectStates, NoRecord, RecordStates, Idle, RequestStates, RequestSteps, None

LEMMA ObjectsAre == Cardinality(Requests) \in Nat /\ Objects = 1..(Cardinality(Requests) + 1) /\ None \notin Objects /\ 1 \in Objects
<1>1. Cardinality(Requests) \in Nat
  BY FS_CardinalityType, SessionsAssumption
<1> QED  BY <1>1 DEF Objects, None

\* There are more objects than requests and live sessions can have.
LEMMA FreeIsFree ==
    ASSUME Types, NEW r \in Requests, request[r].at = "idle"
    PROVE  Free \in Objects /\ Free # live /\ \A q \in Requests : request[q].o # Free
<1> DEFINE Others == Requests \ {r}
           f == [q \in Others |-> request[q].o]
           Had == {request[q].o : q \in Others}
<1>1. IsFiniteSet(Others) /\ Cardinality(Others) = Cardinality(Requests) - 1
  BY FS_RemoveElement, SessionsAssumption
<1>2. f \in Surjection(Others, Had)
  BY DEF Surjection
<1>3. IsFiniteSet(Had) /\ Cardinality(Had) <= Cardinality(Others)
  <2> HIDE DEF f, Others, Had
  <2> QED  BY <1>1, <1>2, FS_Surjection
<1>4. IsFiniteSet(Had \cup {live}) /\ Cardinality(Had \cup {live}) <= Cardinality(Requests)
  <2> HIDE DEF Others, Had
  <2>1. Cardinality(Had) \in Nat /\ Cardinality(Others) \in Nat
    BY <1>1, <1>3, FS_CardinalityType
  <2>2. /\ IsFiniteSet(Had \cup {live})
        /\ Cardinality(Had \cup {live}) = IF live \in Had THEN Cardinality(Had) ELSE Cardinality(Had) + 1
    BY <1>3, FS_AddElement
  <2>3. Cardinality(Had \cup {live}) <= Cardinality(Had) + 1
    BY <2>1, <2>2
  <2> QED  BY <1>1, <1>3, <2>1, <2>2, <2>3, ObjectsAre
<1>5. IsFiniteSet(Objects) /\ Cardinality(Objects) = Cardinality(Requests) + 1
  BY ObjectsAre, FS_Interval
<1>6. PICK o \in Objects : o \notin Had \cup {live}
  <2> SUFFICES ASSUME Objects \subseteq Had \cup {live} PROVE FALSE
    OBVIOUS
  <2> HIDE DEF Had
  <2>1. Cardinality(Objects) <= Cardinality(Had \cup {live})
    BY <1>4, FS_Subset
  <2> QED  BY <1>4, <1>5, <2>1, FS_CardinalityType, ObjectsAre
<1>7. request[r].o # o
  BY ObjectsAre DEF Types, RequestTypes
<1>8. o # live /\ \A q \in Requests : request[q].o # o
  BY <1>6, <1>7
<1> QED  BY <1>8 DEF Free

LEMMA InitSessionsInv == Init => SessionsInv
<1> SUFFICES ASSUME Init PROVE SessionsInv
  OBVIOUS
<1> USE SessionsAssumption, EmptyTypes, ObjectsAre
<1>1. Types
  <2>1. 0 \in 0..MaxSignIns /\ 0 \in 0..MaxTime
    OBVIOUS
  <2>2. SessionTypes
    BY <2>1 DEF Init, SessionTypes
  <2>3. RequestTypes
    BY DEF Init, RequestTypes
  <2> QED  BY <2>2, <2>3 DEF Init, Types, RecordKept
<1>2. LiveOrEnded /\ EndedIsGone /\ AddedIsIn
  BY DEF Init, LiveOrEnded, EndedIsGone, AddedIsIn, Stays
<1>3. LiveOnRecord /\ OutOfLive /\ OutOfRecord
  BY DEF Init, LiveOnRecord, OutOfLive, OutOfRecord, None, Stays
<1> QED  BY <1>1, <1>2, <1>3 DEF SessionsInv

----------------------------------------------------------------------------
(* Steps that leave the objects and the record alone *)

\* A request goes on with the object it has, or lets it go; no sign-out ends,
\* and no password is given.
LEMMA RequestsGoOn ==
    ASSUME SessionsInv, RequestTypes',
           UNCHANGED <<live, object, record, signIns, out, undone, adrift>>, now' \in 0..MaxTime,
           \A q \in Requests : request'[q].o \in {request[q].o, None},
           \A a \in Accounts : (Adding(a)' => Adding(a)) /\ (SigningOut(a) => SigningOut(a)')
    PROVE  SessionsInv'
<1>1. Types'
  BY DEF SessionsInv, Types, SessionTypes, RecordKept, Remembered
<1>2. LiveOrEnded' /\ EndedIsGone'
  BY DEF SessionsInv, LiveOrEnded, EndedIsGone
<1>3. AddedIsIn' /\ LiveOnRecord' /\ OutOfLive' /\ OutOfRecord'
  BY DEF SessionsInv, Types, SessionTypes, AddedIsIn, LiveOnRecord, OutOfLive, OutOfRecord, Stays
<1> QED  BY <1>1, <1>2, <1>3 DEF SessionsInv

LEMMA RequestEndsInv ==
    ASSUME SessionsInv, NEW r \in Requests, RequestEnds(r) \/ NotRemembered(r)
    PROVE  SessionsInv'
<1> USE EmptyTypes, ObjectsAre
<1>1. /\ request[r].at \in {"in", "adding"} /\ request' = [request EXCEPT ![r] = Idle]
      /\ UNCHANGED <<now, live, object, record, signIns, out, undone, adrift>>
  BY DEF RequestEnds, NotRemembered, Ends
<1>2. RequestTypes'
  BY <1>1 DEF SessionsInv, Types, RequestTypes
<1>3. \A a \in Accounts : (Adding(a)' => Adding(a)) /\ (SigningOut(a) => SigningOut(a)')
  BY <1>1 DEF SessionsInv, Types, RequestTypes, RequestStates, Adding, SigningOut
<1> QED  BY <1>1, <1>2, <1>3, RequestsGoOn DEF SessionsInv, Types, SessionTypes, RequestTypes

LEMMA RequestTurnsInv ==
    ASSUME SessionsInv, NEW r \in Requests,
           Left(r) \/ \E a \in Accounts : Restore(r, a) \/ Logout(r, a)
    PROVE  SessionsInv'
<1> USE EmptyTypes, ObjectsAre
<1>1. /\ UNCHANGED <<now, live, object, record, signIns, out, undone, adrift>>
      /\ request[r] \in RequestStates /\ request[r].o \in Objects
      /\ \/ request[r].at = "removed" /\ request'[r].at \in {"empty", "saving"} /\ request'[r].account = request[r].account
         \/ request[r].at = "in" /\ request'[r].at \in {"restoring", "logout"} /\ request'[r].account \in Accounts
      /\ request'[r].at = "restoring" => request'[r].sealed # None
      /\ request'[r].o = request[r].o /\ request'[r] \in RequestStates
      /\ request' = [request EXCEPT ![r] = request'[r]]
  <2>1. request[r] \in RequestStates /\ (request[r].at # "idle" => request[r].o \in Objects)
    BY DEF SessionsInv, Types, RequestTypes, RequestStates
  <2>2. CASE Left(r)
    BY <2>1, <2>2 DEF Left, Goes, SessionsInv, Types, RequestTypes, RequestStates, RequestSteps
  <2>3. ASSUME NEW a \in Accounts, Restore(r, a) PROVE <1>1!:
    <3>1. request[r].at = "in" /\ object[request[r].o].remember[a] \in 0..MaxSignIns
      <4>1. request[r].at = "in" /\ request[r].o \in Objects
        BY <2>1, <2>3 DEF Restore
      <4>2. object[request[r].o] \in ObjectStates
        BY <4>1 DEF SessionsInv, Types, SessionTypes
      <4> QED  BY <4>1, <4>2 DEF ObjectStates, Credentials
    <3>2. /\ request' = [request EXCEPT ![r] = request'[r]]
          /\ request'[r] = [at |-> "restoring", o |-> request[r].o, account |-> a, sealed |-> object[request[r].o].remember[a]]
          /\ object[request[r].o].remember[a] # None
      BY <2>1, <2>3 DEF Restore, SessionsInv, Types, RequestTypes, RequestStates
    <3>3. UNCHANGED <<now, live, object, record, signIns, out, undone, adrift>>
      BY <2>3 DEF Restore
    <3> QED  BY <2>1, <3>1, <3>2, <3>3 DEF RequestStates, RequestSteps
  <2>4. ASSUME NEW a \in Accounts, Logout(r, a) PROVE <1>1!:
    BY <2>1, <2>4 DEF Logout, SessionsInv, Types, RequestTypes, RequestStates, RequestSteps
  <2> QED  BY <2>2, <2>3, <2>4
<1>2. \A q \in Requests \ {r} : request'[q] = request[q]
  BY <1>1 DEF SessionsInv, Types, RequestTypes
<1>3. RequestTypes'
  <2>1. request' \in [Requests -> RequestStates]
    BY <1>1 DEF SessionsInv, Types, RequestTypes
  <2>2. request'[r].account \in Accounts
    BY <1>1 DEF SessionsInv, Types, RequestTypes
  <2> QED  BY <1>1, <1>2, <2>1, <2>2 DEF SessionsInv, Types, RequestTypes
<1>4. \A a \in Accounts : (Adding(a)' => Adding(a)) /\ (SigningOut(a) => SigningOut(a)')
  <2>1. request'[r].at # "adding"
    BY <1>1
  <2> QED  BY <1>1, <1>2, <2>1 DEF Adding, SigningOut
<1> QED  BY <1>1, <1>2, <1>3, <1>4, RequestsGoOn DEF SessionsInv, Types, SessionTypes, RequestTypes

\* The clock does not matter to what is kept and what is out.
LEMMA TickInv == SessionsInv /\ Tick => SessionsInv'
<1> SUFFICES ASSUME SessionsInv, Tick PROVE SessionsInv'
  OBVIOUS
<1>1. UNCHANGED <<live, object, record, request, signIns, out, undone, adrift>> /\ now' \in 0..MaxTime
  BY SessionsAssumption DEF Tick, SessionsInv, Types, SessionTypes
<1>2. RequestTypes'
  BY <1>1 DEF SessionsInv, Types, RequestTypes
<1>3. \A a \in Accounts : (Adding(a)' => Adding(a)) /\ (SigningOut(a) => SigningOut(a)')
  BY <1>1 DEF Adding, SigningOut
<1> QED  BY <1>1, <1>2, <1>3, RequestsGoOn

----------------------------------------------------------------------------
(* Steps of a request on the object it has *)

\* That is the live one, unless the session is over.
LEMMA HasLive ==
    ASSUME SessionsInv, NEW r \in Requests, request[r].at # "idle"
    PROVE  /\ request[r] \in RequestStates /\ request[r].o \in Objects /\ object[request[r].o] \in ObjectStates
           /\ ~adrift => request[r].o = live \/ object[request[r].o].ended
           /\ object' \in [Objects -> ObjectStates] => object'[request[r].o] \in ObjectStates
<1>1. request[r] \in RequestStates /\ request[r].o # None
  BY DEF SessionsInv, Types, RequestTypes
<1>2. request[r].o \in Objects
  BY <1>1 DEF RequestStates
<1> QED  BY <1>1, <1>2 DEF SessionsInv, Types, SessionTypes, LiveOrEnded

\* What such a step must see to: that the record keeps up with the object, and
\* that neither gets back what is signed out.
LEMMA ObjectStep ==
    ASSUME SessionsInv, Types', NEW o \in Objects, ~adrift => o = live \/ object[o].ended,
           UNCHANGED <<live, adrift>>,
           \A q \in Requests : request'[q].o \in {request[q].o, None},
           \A p \in Objects \ {o} : object'[p] = object[p],
           object'[o].ended = object[o].ended,
           object[o].ended => record' = record,
           ~adrift /\ o = live => \A a \in Accounts : object'[o].remember[a] # None =>
               record'.remember[a] = object'[o].remember[a] /\ record'.expires = object'[o].expires,
           ~adrift /\ o = live => \A a \in Stays' : object'[o].remember[a] = None /\ a \notin object'[o].logins,
           ~adrift => \A a \in Stays' : record'.remember[a] # None => SigningOut(a)',
           \A a \in Stays' : ~Adding(a)'
    PROVE  SessionsInv'
<1> USE ObjectsAre
<1>1. LiveOrEnded'
  <2>1. \A p \in Objects : object'[p].ended = object[p].ended
    OBVIOUS
  <2>2. live \in Objects \cup {None} /\ \A q \in Requests : request[q].o \in Objects \cup {None}
    BY DEF SessionsInv, Types, SessionTypes, RequestTypes, RequestStates
  <2> QED  BY <2>1, <2>2 DEF SessionsInv, LiveOrEnded
<1>2. EndedIsGone'
  BY DEF SessionsInv, EndedIsGone
<1>3. ~adrift /\ live # None => o = live
  BY DEF SessionsInv, EndedIsGone
<1>4. AddedIsIn' /\ LiveOnRecord' /\ OutOfLive' /\ OutOfRecord'
  BY <1>3 DEF AddedIsIn, LiveOnRecord, OutOfLive, OutOfRecord
<1> QED  BY <1>1, <1>2, <1>4 DEF SessionsInv

\* Save writes what the object remembers, unless it is ended.
LEMMA SaveDoes ==
    ASSUME SessionsInv, NEW o \in Objects, Save(o)
    PROVE  /\ record' \in RecordStates /\ RecordKept'
           /\ object[o].ended => record' = record
           /\ ~object[o].ended => /\ record'.remember = object[o].remember
                                  /\ Remembered(object[o]) => record'.expires = object[o].expires
<1> USE EmptyTypes
<1>1. object[o] \in ObjectStates /\ record \in RecordStates /\ RecordKept
  BY DEF SessionsInv, Types, SessionTypes
<1>2. CASE object[o].ended
  BY <1>1, <1>2 DEF Save, RecordKept, Remembered
<1>3. CASE ~object[o].ended /\ Remembered(object[o])
  <2>1. record' = [remember |-> object[o].remember, expires |-> object[o].expires]
    BY <1>3 DEF Save
  <2> QED  BY <1>1, <1>3, <2>1 DEF ObjectStates, RecordStates, RecordKept, Remembered
<1>4. CASE ~object[o].ended /\ ~Remembered(object[o])
  BY <1>4 DEF Save, RecordKept, Remembered
<1> QED  BY <1>2, <1>3, <1>4

\* The same for an object that stays as it is, whatever becomes of its request.
LEMMA SaveStep ==
    ASSUME SessionsInv, NEW r \in Requests, request[r].at # "idle", Save(request[r].o), RequestTypes',
           UNCHANGED <<now, live, object, signIns, out, undone, adrift>>,
           \A q \in Requests : request'[q].o \in {request[q].o, None},
           \A a \in Accounts : Adding(a)' => Adding(a)
    PROVE  SessionsInv'
<1> DEFINE o == request[r].o
<1>1. o \in Objects /\ object[o] \in ObjectStates /\ (~adrift => o = live \/ object[o].ended)
  BY HasLive
<1> HIDE DEF o
<1>2. /\ record' \in RecordStates /\ RecordKept'
      /\ object[o].ended => record' = record
      /\ ~object[o].ended => record'.remember = object[o].remember /\ (Remembered(object[o]) => record'.expires = object[o].expires)
  BY <1>1, SaveDoes DEF o
<1>3. Types'
  BY <1>2 DEF SessionsInv, Types, SessionTypes
<1>4. live # None => ~object[live].ended
  BY DEF SessionsInv, LiveOrEnded
<1>5. ~adrift /\ o = live => \A a \in Accounts : object[o].remember[a] # None =>
          record'.remember[a] = object[o].remember[a] /\ record'.expires = object[o].expires
  BY <1>1, <1>2, <1>4, ObjectsAre, EmptyTypes DEF Remembered, None
<1>6. ~adrift /\ o = live => \A a \in Stays : object[o].remember[a] = None /\ a \notin object[o].logins
  BY <1>1, ObjectsAre DEF SessionsInv, OutOfLive
<1>7. ~adrift => \A a \in Stays : record'.remember[a] = None
  <2> SUFFICES ASSUME ~adrift, NEW a \in Stays PROVE record'.remember[a] = None
    OBVIOUS
  <2>1. CASE o = live
    BY <1>1, <1>2, <1>4, <1>6, <2>1, ObjectsAre
  <2>2. CASE object[o].ended
    <3>1. record' = NoRecord /\ a \in Accounts
      BY <1>1, <1>2, <2>2 DEF SessionsInv, EndedIsGone, Types, SessionTypes, Stays
    <3> QED  BY <3>1, EmptyTypes DEF None
  <2> QED  BY <1>1, <2>1, <2>2
<1>8. Stays' = Stays /\ \A a \in Stays' : ~Adding(a)'
  BY DEF SessionsInv, Types, SessionTypes, AddedIsIn, Stays
<1> QED  BY <1>1, <1>2, <1>3, <1>5, <1>6, <1>7, <1>8, ObjectStep

\* A request becomes another that has what its step calls for.
LEMMA RequestBecomes ==
    ASSUME SessionsInv, NEW r \in Requests, NEW x \in RequestStates, request' = [request EXCEPT ![r] = x],
           x.at = "idle" <=> x.o = None,
           x.at \notin {"idle", "in"} => x.account \in Accounts,
           x.at \in {"adding", "restoring"} => x.sealed # None
    PROVE  RequestTypes' /\ request'[r] = x /\ \A q \in Requests \ {r} : request'[q] = request[q]
BY DEF SessionsInv, Types, RequestTypes

\* One that is done with its session, or with what it did to it.
LEMMA EndsBecomes ==
    ASSUME SessionsInv, NEW r \in Requests, request[r].at # "idle", Ends(r) \/ Back(r)
    PROVE  /\ RequestTypes' /\ \A q \in Requests \ {r} : request'[q] = request[q]
           /\ \A q \in Requests : request'[q].o \in {request[q].o, None}
           /\ request'[r].at \in {"idle", "in"}
           /\ \A a \in Accounts : Adding(a)' => Adding(a)
           /\ request[r].at \notin {"taken", "removed", "saving", "empty"} => \A a \in Accounts : SigningOut(a) => SigningOut(a)'
<1> USE EmptyTypes, ObjectsAre, HasLive
<1>1. PICK x \in RequestStates :
          /\ x.at \in {"idle", "in"} /\ (x.at = "idle" <=> x.o = None) /\ x.o \in {request[r].o, None}
          /\ request' = [request EXCEPT ![r] = x]
  <2>1. CASE Ends(r)
    BY <2>1 DEF Ends
  <2>2. CASE Back(r)
    <3> DEFINE x == [request[r] EXCEPT !.at = "in", !.account = None, !.sealed = None]
    <3>1. x \in RequestStates /\ x.at = "in" /\ x.o = request[r].o
      BY SessionsAssumption DEF RequestStates, RequestSteps, None
    <3>2. request' = [request EXCEPT ![r] = x]
      BY <2>2 DEF Back
    <3> HIDE DEF x
    <3>3. x.o # None
      BY <3>1 DEF SessionsInv, Types, RequestTypes
    <3> QED  BY <3>1, <3>2, <3>3
  <2> QED  BY <2>1, <2>2
<1>2. RequestTypes' /\ request'[r] = x /\ \A q \in Requests \ {r} : request'[q] = request[q]
  BY <1>1, RequestBecomes
<1> QED  BY <1>1, <1>2 DEF Adding, SigningOut

LEMMA SaveInv ==
    ASSUME SessionsInv, NEW r \in Requests, SaveSession(r) \/ SaveRefused(r) \/ SaveLeft(r)
    PROVE  SessionsInv'
<1>1. CASE SaveSession(r)
  <2>1. request[r].at # "idle" /\ Save(request[r].o) /\ UNCHANGED <<now, live, object, request, signIns, out, undone, adrift>>
    BY <1>1 DEF SaveSession
  <2>2. RequestTypes' /\ \A a \in Accounts : Adding(a)' => Adding(a)
    BY <2>1 DEF SessionsInv, Types, RequestTypes, Adding
  <2> QED  BY <2>1, <2>2, SaveStep
<1>2. CASE SaveRefused(r) \/ SaveLeft(r)
  <2>1. /\ request[r].at # "idle" /\ Save(request[r].o) /\ (Ends(r) \/ Back(r))
        /\ UNCHANGED <<now, live, object, signIns, out, undone, adrift>>
    BY <1>2 DEF SaveRefused, SaveLeft
  <2> QED  BY <2>1, EndsBecomes, SaveStep
<1> QED  BY <1>1, <1>2

\* saveRemembered gives the object and the record the same, none of it new but
\* the credential it is called with.
LEMMA SaveRememberedDoes ==
    ASSUME SessionsInv, NEW o \in Objects, NEW account \in Accounts \cup {None}, NEW sealed \in 0..MaxSignIns,
           SaveRemembered(o, account, sealed)
    PROVE  /\ object' \in [Objects -> ObjectStates] /\ record' \in RecordStates /\ RecordKept'
           /\ \A p \in Objects \ {o} : object'[p] = object[p]
           /\ object'[o].ended = object[o].ended /\ object'[o].logins = object[o].logins
           /\ object[o].ended => record' = record
           /\ \A a \in Accounts \ {account} : object'[o].remember[a] \in {object[o].remember[a], None}
           /\ \/ UNCHANGED <<object, record>>
              \/ record'.remember = object'[o].remember /\ record'.expires = object'[o].expires
<1> DEFINE want == [a \in Accounts |-> IF a = account THEN sealed ELSE IF now < object[o].expires THEN object[o].remember[a] ELSE None]
<1> USE EmptyTypes, SessionsAssumption
<1>1. /\ object[o] \in ObjectStates /\ object \in [Objects -> ObjectStates]
      /\ record \in RecordStates /\ RecordKept /\ now \in 0..MaxTime
  BY DEF SessionsInv, Types, SessionTypes
<1>2. CASE UNCHANGED <<object, record>>
  BY <1>1, <1>2 DEF RecordKept, Remembered
<1>3. CASE ~object[o].ended /\ want # Nothing
           /\ object' = [object EXCEPT ![o].remember = want, ![o].seen = now, ![o].expires = now + 1]
           /\ record' = [remember |-> want, expires |-> now + 1]
  <2>1. want \in Credentials /\ \A a \in Accounts \ {account} : want[a] \in {object[o].remember[a], None}
    BY <1>1 DEF ObjectStates, Credentials, None
  <2> HIDE DEF want
  <2>2. now + 1 \in 0..(MaxTime + 1)
    BY <1>1
  <2>3. PICK s \in ObjectStates : /\ object' = [object EXCEPT ![o] = s]
                                  /\ s.remember = want /\ s.expires = now + 1 /\ s.ended = object[o].ended /\ s.logins = object[o].logins
    <3> DEFINE s == [object[o] EXCEPT !.remember = want, !.seen = now, !.expires = now + 1]
    <3>1. s \in ObjectStates /\ s.remember = want /\ s.expires = now + 1 /\ s.ended = object[o].ended /\ s.logins = object[o].logins
      BY <1>1, <2>1, <2>2 DEF ObjectStates
    <3>2. object' = [object EXCEPT ![o] = s]
      BY <1>1, <1>3
    <3> QED  BY <3>1, <3>2
  <2>4. record' \in RecordStates /\ record'.remember = want /\ record'.expires = now + 1
    BY <1>3, <2>1, <2>2 DEF RecordStates
  <2>5. RecordKept'
    BY <1>3, <2>4 DEF RecordKept, Remembered
  <2>6. /\ object' \in [Objects -> ObjectStates] /\ object'[o] = s
        /\ \A p \in Objects \ {o} : object'[p] = object[p]
    BY <1>1, <2>3
  <2> QED  BY <1>3, <2>1, <2>3, <2>4, <2>5, <2>6
<1> QED  BY <1>2, <1>3 DEF SaveRemembered

LEMMA RememberedStep ==
    ASSUME SessionsInv, NEW r \in Requests, request[r].at # "idle",
           NEW account \in Accounts \cup {None}, NEW sealed \in 0..MaxSignIns, account \notin Stays,
           SaveRemembered(request[r].o, account, sealed), RequestTypes',
           UNCHANGED <<now, live, signIns, out, undone, adrift>>,
           \A q \in Requests : request'[q].o \in {request[q].o, None},
           \A a \in Accounts : (Adding(a)' => Adding(a)) /\ (SigningOut(a) => SigningOut(a)')
    PROVE  SessionsInv'
<1> DEFINE o == request[r].o
<1>1. o \in Objects /\ object[o] \in ObjectStates /\ (~adrift => o = live \/ object[o].ended)
  BY HasLive
<1> HIDE DEF o
<1>2. /\ object' \in [Objects -> ObjectStates] /\ record' \in RecordStates /\ RecordKept'
      /\ \A p \in Objects \ {o} : object'[p] = object[p]
      /\ object'[o].ended = object[o].ended /\ object'[o].logins = object[o].logins
      /\ object[o].ended => record' = record
      /\ \A a \in Accounts \ {account} : object'[o].remember[a] \in {object[o].remember[a], None}
      /\ \/ UNCHANGED <<object, record>>
         \/ record'.remember = object'[o].remember /\ record'.expires = object'[o].expires
  BY <1>1, SaveRememberedDoes DEF o
<1>3. Types' /\ out \subseteq Accounts
  BY <1>2 DEF SessionsInv, Types, SessionTypes
<1>4. ~adrift /\ o = live => \A a \in Accounts : object'[o].remember[a] # None =>
          record'.remember[a] = object'[o].remember[a] /\ record'.expires = object'[o].expires
  BY <1>1, <1>2, ObjectsAre DEF SessionsInv, LiveOnRecord
<1>5. ~adrift /\ o = live => \A a \in Stays : object'[o].remember[a] = None /\ a \notin object'[o].logins
  BY <1>1, <1>2, <1>3, ObjectsAre DEF SessionsInv, OutOfLive, Stays
<1>6. ~adrift => \A a \in Stays : record'.remember[a] # None => SigningOut(a)'
  <2>1. ~adrift => \A a \in Stays : record.remember[a] # None => SigningOut(a)'
    BY <1>3 DEF SessionsInv, OutOfRecord, Stays
  <2> QED  BY <1>1, <1>2, <1>5, <2>1
<1>7. Stays' = Stays /\ \A a \in Stays' : ~Adding(a)'
  BY <1>3 DEF SessionsInv, AddedIsIn, Stays
<1> QED  BY <1>1, <1>2, <1>3, <1>4, <1>5, <1>6, <1>7, ObjectStep

LEMMA RenewInv ==
    ASSUME SessionsInv, NEW r \in Requests, Renew(r)
    PROVE  SessionsInv'
<1>1. request[r].at # "idle" /\ SaveRemembered(request[r].o, None, None) /\ UNCHANGED <<now, live, request, signIns, out, undone, adrift>>
  BY DEF Renew
<1>2. None \in 0..MaxSignIns /\ None \notin Stays
  BY SessionsAssumption DEF None, SessionsInv, Types, SessionTypes, Stays
<1>3. RequestTypes' /\ \A a \in Accounts : (Adding(a)' => Adding(a)) /\ (SigningOut(a) => SigningOut(a)')
  BY <1>1 DEF SessionsInv, Types, RequestTypes, Adding, SigningOut
<1> QED  BY <1>1, <1>2, <1>3, RememberedStep

\* A password just given is remembered: its account is not signed out.
LEMMA SetLoginTokenInv ==
    ASSUME SessionsInv, NEW r \in Requests, SetLoginToken(r)
    PROVE  SessionsInv'
<1>1. /\ request[r].at = "adding" /\ SaveRemembered(request[r].o, request[r].account, request[r].sealed) /\ Ends(r)
      /\ UNCHANGED <<now, live, signIns, out, undone, adrift>>
  BY DEF SetLoginToken
<1>2. request[r].account \in Accounts /\ request[r].sealed \in 0..MaxSignIns
  BY <1>1 DEF SessionsInv, Types, RequestTypes, RequestStates
<1>3. request[r].account \notin Stays
  BY <1>1 DEF SessionsInv, AddedIsIn, Adding
<1> QED  BY <1>1, <1>2, <1>3, EndsBecomes, RememberedStep

\* A request changes its object and not the record: it forgets at most, and
\* signs in to nothing that is signed out.
LEMMA LoginsStep ==
    ASSUME SessionsInv, NEW r \in Requests, request[r].at # "idle", NEW s \in ObjectStates,
           object' = [object EXCEPT ![request[r].o] = s],
           s.ended = object[request[r].o].ended, s.expires = object[request[r].o].expires,
           \A b \in Accounts : s.remember[b] \in {object[request[r].o].remember[b], None},
           UNCHANGED <<now, live, record, adrift>>, signIns' \in 0..MaxSignIns, out' \subseteq Accounts, undone' \subseteq Accounts, RequestTypes',
           \A q \in Requests : request'[q].o \in {request[q].o, None},
           \A b \in Stays' : ~Adding(b)',
           ~adrift /\ request[r].o = live => \A b \in Stays' : s.remember[b] = None /\ b \notin s.logins,
           ~adrift => \A b \in Stays' : record.remember[b] # None => SigningOut(b)'
    PROVE  SessionsInv'
<1> USE ObjectsAre
<1> DEFINE o == request[r].o
<1>1. o \in Objects /\ object[o] \in ObjectStates /\ (~adrift => o = live \/ object[o].ended)
  BY HasLive
<1> HIDE DEF o
<1>2. object' \in [Objects -> ObjectStates] /\ object'[o] = s /\ \A p \in Objects \ {o} : object'[p] = object[p]
  BY <1>1 DEF o, SessionsInv, Types, SessionTypes
<1>3. Types'
  BY <1>2 DEF SessionsInv, Types, SessionTypes, RecordKept, Remembered
<1>4. ~adrift /\ o = live => \A b \in Accounts : object'[o].remember[b] # None =>
          record'.remember[b] = object'[o].remember[b] /\ record'.expires = object'[o].expires
  BY <1>1, <1>2 DEF o, SessionsInv, LiveOnRecord
<1>5. ~adrift => \A b \in Stays' : record'.remember[b] # None => SigningOut(b)'
  OBVIOUS
<1>6. ~adrift /\ o = live => \A b \in Stays' : object'[o].remember[b] = None /\ b \notin object'[o].logins
  BY <1>2 DEF o
<1>7. object'[o].ended = object[o].ended
  BY <1>2 DEF o
<1> QED  BY <1>1, <1>2, <1>3, <1>4, <1>5, <1>6, <1>7, ObjectStep

LEMMA AddAccountInv ==
    ASSUME SessionsInv, NEW r \in Requests, NEW a \in Accounts, AddAccount(r, a)
    PROVE  SessionsInv'
<1> USE ObjectsAre
<1> DEFINE x == [request[r] EXCEPT !.at = "adding", !.account = a, !.sealed = signIns + 1]
           s == [object[request[r].o] EXCEPT !.logins = @ \cup {a}]
<1>1. /\ request[r].at = "in" /\ request' = [request EXCEPT ![r] = x] /\ object' = [object EXCEPT ![request[r].o] = s]
      /\ out' = out \ {a} /\ undone' = undone \ {a} /\ UNCHANGED <<now, live, record, adrift>>
  BY DEF AddAccount
<1>2. request[r] \in RequestStates /\ request[r].o \in Objects /\ object[request[r].o] \in ObjectStates
  BY <1>1, HasLive
<1>3. signIns \in 0..MaxSignIns /\ signIns + 1 \in 0..MaxSignIns /\ signIns + 1 # None /\ signIns' = signIns + 1
  BY SessionsAssumption DEF AddAccount, SessionsInv, Types, SessionTypes, None
<1>4. x \in RequestStates /\ x.at = "adding" /\ x.account = a /\ x.sealed # None /\ x.o = request[r].o
  BY <1>2, <1>3 DEF RequestStates, RequestSteps
<1>5. s \in ObjectStates /\ s.ended = object[request[r].o].ended /\ s.remember = object[request[r].o].remember
      /\ s.expires = object[request[r].o].expires /\ s.logins = object[request[r].o].logins \cup {a}
  BY <1>2 DEF ObjectStates
<1> HIDE DEF x, s
<1>6. RequestTypes' /\ request'[r] = x /\ \A q \in Requests \ {r} : request'[q] = request[q]
  BY <1>1, <1>2, <1>4, RequestBecomes
<1>7. \A b \in Stays' : ~Adding(b)' /\ (SigningOut(b) => SigningOut(b)') /\ b \in Stays
  BY <1>1, <1>4, <1>6 DEF SessionsInv, AddedIsIn, Stays, Adding, SigningOut
<1>8. ~adrift /\ request[r].o = live => \A b \in Stays' : s.remember[b] = None /\ b \notin s.logins
  BY <1>1, <1>2, <1>5 DEF SessionsInv, OutOfLive, Stays
<1>9. out' \subseteq Accounts /\ undone' \subseteq Accounts /\ \A q \in Requests : request'[q].o \in {request[q].o, None}
  BY <1>1, <1>4, <1>6 DEF SessionsInv, Types, SessionTypes
<1>10. ~adrift => \A b \in Stays' : record.remember[b] # None => SigningOut(b)'
  BY <1>7 DEF SessionsInv, OutOfRecord
<1> QED  BY <1>1, <1>3, <1>5, <1>6, <1>7, <1>8, <1>9, <1>10, LoginsStep

\* A login is restored only from a credential that the session still has, and
\* that of an account that is signed out it has not.
LEMMA RestoredInv ==
    ASSUME SessionsInv, NEW r \in Requests, Restored(r)
    PROVE  SessionsInv'
<1> USE ObjectsAre
<1> DEFINE o == request[r].o
           a == request[r].account
           s == IF MayRestore(object[o], a, request[r].sealed) THEN [object[o] EXCEPT !.logins = @ \cup {a}] ELSE object[o]
<1>1. /\ request[r].at = "restoring" /\ Back(r) /\ UNCHANGED <<now, live, record, signIns, out, undone, adrift>>
      /\ a \in Accounts /\ request[r].sealed # None
  BY DEF Restored, SessionsInv, Types, RequestTypes
<1>2. o \in Objects /\ object[o] \in ObjectStates
  BY <1>1, HasLive
<1>3. object' = [object EXCEPT ![o] = s]
  BY <1>2 DEF Restored, SessionsInv, Types, SessionTypes
<1>4. s \in ObjectStates /\ s.ended = object[o].ended /\ s.remember = object[o].remember /\ s.expires = object[o].expires
  BY <1>1, <1>2 DEF ObjectStates
<1>5. s.logins = object[o].logins \/ (s.logins = object[o].logins \cup {a} /\ object[o].remember[a] # None)
  BY <1>1, <1>2 DEF ObjectStates, MayRestore
<1> HIDE DEF s
<1>6. ~adrift /\ o = live => \A b \in Stays' : s.remember[b] = None /\ b \notin s.logins
  BY <1>1, <1>2, <1>4, <1>5 DEF SessionsInv, OutOfLive, Stays
<1>7. out' \subseteq Accounts /\ undone' \subseteq Accounts /\ signIns' \in 0..MaxSignIns /\ Stays' = Stays
  BY <1>1 DEF SessionsInv, Types, SessionTypes, Stays
<1>8. /\ \A b \in Stays' : ~Adding(b)'
      /\ ~adrift => \A b \in Stays' : record.remember[b] # None => SigningOut(b)'
  BY <1>1, <1>7, EndsBecomes DEF SessionsInv, AddedIsIn, OutOfRecord, Stays
<1> QED  BY <1>1, <1>3, <1>4, <1>6, <1>7, <1>8, EndsBecomes, LoginsStep


\* A request goes on to a step with the object and account it has.
LEMMA GoesBecomes ==
    ASSUME SessionsInv, NEW r \in Requests, request[r].at \notin {"idle", "in"}, NEW at \in {"refused", "taken", "removed"}, Goes(r, at)
    PROVE  /\ RequestTypes' /\ \A q \in Requests \ {r} : request'[q] = request[q]
           /\ \A q \in Requests : request'[q].o \in {request[q].o, None}
           /\ request'[r].at = at /\ request'[r].account = request[r].account
<1> USE ObjectsAre
<1> DEFINE x == [request[r] EXCEPT !.at = at]
<1>1. request[r] \in RequestStates /\ request[r].o \in Objects /\ request[r].account \in Accounts
  BY HasLive DEF SessionsInv, Types, RequestTypes
<1>2. x \in RequestStates /\ x.at = at /\ x.o = request[r].o /\ x.account = request[r].account
  BY <1>1 DEF RequestStates, RequestSteps
<1>3. request' = [request EXCEPT ![r] = x]
  BY DEF Goes
<1> HIDE DEF x
<1>4. RequestTypes' /\ request'[r] = x /\ \A q \in Requests \ {r} : request'[q] = request[q]
  BY <1>1, <1>2, <1>3, RequestBecomes
<1> QED  BY <1>2, <1>4

\* What is remembered but for one account.
LEMMA Forgets ==
    ASSUME NEW s \in ObjectStates, NEW a \in Accounts
    PROVE  [s.remember EXCEPT ![a] = None] \in Credentials
<1>1. s.remember \in Credentials
  BY DEF ObjectStates
<1>2. 0 \in 0..MaxSignIns
  BY SessionsAssumption
<1> QED  BY <1>1, <1>2 DEF Credentials, None

LEMMA RefusedInv ==
    ASSUME SessionsInv, NEW r \in Requests, Refused(r)
    PROVE  SessionsInv'
<1> USE ObjectsAre
<1> DEFINE o == request[r].o
           a == request[r].account
           stands == ~object[o].ended /\ object[o].remember[a] = request[r].sealed
           s == IF stands THEN [object[o] EXCEPT !.remember[a] = None] ELSE object[o]
<1>1. /\ request[r].at = "restoring" /\ (Goes(r, "refused") \/ Back(r)) /\ UNCHANGED <<now, live, record, signIns, out, undone, adrift>>
      /\ a \in Accounts
  BY DEF Refused, SessionsInv, Types, RequestTypes
<1>2. o \in Objects /\ object[o] \in ObjectStates
  BY <1>1, HasLive
<1>3. object' = [object EXCEPT ![o] = s]
  BY <1>2 DEF Refused, SessionsInv, Types, SessionTypes
<1>4. /\ s \in ObjectStates /\ s.ended = object[o].ended /\ s.logins = object[o].logins /\ s.expires = object[o].expires
      /\ \A b \in Accounts : s.remember[b] \in {object[o].remember[b], None}
  <2>1. [object[o].remember EXCEPT ![a] = None] \in Credentials
    BY <1>1, <1>2, Forgets
  <2> QED  BY <1>1, <1>2, <2>1 DEF ObjectStates, Credentials
<1> HIDE DEF s
<1>5. out' \subseteq Accounts /\ undone' \subseteq Accounts /\ signIns' \in 0..MaxSignIns /\ Stays' = Stays /\ Stays \subseteq Accounts
  BY <1>1 DEF SessionsInv, Types, SessionTypes, Stays
<1>6. ~adrift /\ o = live => \A b \in Stays' : s.remember[b] = None /\ b \notin s.logins
  BY <1>1, <1>2, <1>4, <1>5 DEF SessionsInv, OutOfLive
<1>7. RequestTypes' /\ \A q \in Requests : request'[q].o \in {request[q].o, None}
  BY <1>1, EndsBecomes, GoesBecomes
<1>8. \A b \in Accounts : (Adding(b)' => Adding(b)) /\ (SigningOut(b) => SigningOut(b)')
  <2>1. CASE Back(r)
    BY <1>1, <2>1, EndsBecomes
  <2>2. CASE Goes(r, "refused")
    <3>1. request'[r].at = "refused" /\ \A q \in Requests \ {r} : request'[q] = request[q]
      BY <1>1, <2>2, GoesBecomes
    <3> QED  BY <1>1, <3>1 DEF Adding, SigningOut
  <2> QED  BY <1>1, <2>1, <2>2
<1>9. /\ \A b \in Stays' : ~Adding(b)'
      /\ ~adrift => \A b \in Stays' : record.remember[b] # None => SigningOut(b)'
  BY <1>1, <1>5, <1>8 DEF SessionsInv, AddedIsIn, OutOfRecord
<1> QED  BY <1>1, <1>3, <1>4, <1>5, <1>6, <1>7, <1>9, LoginsStep

\* What a sign-out leaves to stay out: not an account that a sign-in is about to
\* keep, and not one whose record is neither written nor about to be.
LEMMA SignedOutDoes ==
    ASSUME SessionsInv, NEW a \in Accounts, NEW saved \in BOOLEAN, SignedOut(a, saved)
    PROVE  /\ out' \subseteq Accounts /\ undone' \subseteq Accounts /\ Stays' \subseteq Stays \cup {a}
           /\ a \in Stays' => ~Adding(a) /\ (saved \/ record.remember[a] = None)
BY DEF SignedOut, Stays, SessionsInv, Types, SessionTypes

\* A sign-out takes the account from the session before it is told of; the
\* record follows while it is under way.
LEMMA RemoveInv ==
    ASSUME SessionsInv, NEW r \in Requests, Remove(r)
    PROVE  SessionsInv'
<1> USE ObjectsAre
<1>a. PICK a \in Accounts : a = request[r].account
  BY DEF Remove, SessionsInv, Types, RequestTypes
<1> DEFINE o == request[r].o
           s == Taken(object[o], a)
           found == request[r].at = "signout" \/ a \in object[o].logins
<1>1. /\ request[r].at \in {"logout", "signout"} /\ object' = [object EXCEPT ![o] = s]
      /\ UNCHANGED <<now, live, record, signIns, adrift>>
      /\ SignedOut(a, found \/ SigningOut(a))
      /\ IF found THEN Goes(r, "removed") \/ Goes(r, "taken") ELSE Ends(r)
  BY <1>a DEF Remove
<1>2. o \in Objects /\ object[o] \in ObjectStates
  BY <1>1, HasLive
<1>3. found \in BOOLEAN /\ SigningOut(a) \in BOOLEAN
  BY DEF SigningOut
<1>4. /\ s \in ObjectStates /\ s.ended = object[o].ended /\ s.logins = object[o].logins \ {a} /\ s.expires = object[o].expires
      /\ s.remember[a] = None
      /\ \A b \in Accounts : s.remember[b] \in {object[o].remember[b], None}
  <2>1. [object[o].remember EXCEPT ![a] = None] \in Credentials
    BY <1>1, <1>2, Forgets
  <2> QED  BY <1>1, <1>2, <2>1 DEF Taken, ObjectStates, Credentials
<1> HIDE DEF s, found
<1>5. /\ out' \subseteq Accounts /\ undone' \subseteq Accounts /\ Stays' \subseteq Stays \cup {a}
      /\ a \in Stays' => ~Adding(a) /\ (found \/ SigningOut(a) \/ record.remember[a] = None)
  BY <1>1, <1>3, SignedOutDoes
<1>6. signIns' \in 0..MaxSignIns /\ Stays \subseteq Accounts
  BY <1>1 DEF SessionsInv, Types, SessionTypes, Stays
<1>7. ~adrift /\ o = live => \A b \in Stays' : s.remember[b] = None /\ b \notin s.logins
  BY <1>1, <1>2, <1>4, <1>5, <1>6 DEF SessionsInv, OutOfLive
<1>8. RequestTypes' /\ \A q \in Requests : request'[q].o \in {request[q].o, None}
  BY <1>1, EndsBecomes, GoesBecomes
<1>9. /\ \A b \in Accounts : (Adding(b)' => Adding(b)) /\ (SigningOut(b) => SigningOut(b)')
      /\ found => SigningOut(a)'
  <2>1. CASE Ends(r) /\ ~found
    BY <1>1, <2>1, EndsBecomes
  <2>2. ASSUME NEW at \in {"taken", "removed"}, Goes(r, at) PROVE <1>9!:
    <3>1. /\ request'[r].at = at /\ request'[r].account = a
          /\ \A q \in Requests \ {r} : request'[q] = request[q]
      BY <1>a, <1>1, <2>2, GoesBecomes
    <3> QED  BY <1>1, <3>1 DEF Adding, SigningOut
  <2> QED  BY <1>1, <2>1, <2>2
<1>10. ASSUME NEW b \in Stays' PROVE ~Adding(b)' /\ (~adrift /\ record.remember[b] # None => SigningOut(b)')
  <2>1. CASE b \in Stays
    <3>1. b \in Accounts /\ ~Adding(b) /\ (~adrift /\ record.remember[b] # None => SigningOut(b))
      BY <1>6, <2>1 DEF SessionsInv, AddedIsIn, OutOfRecord
    <3> QED  BY <1>9, <3>1
  <2>2. CASE b = a
    BY <1>5, <1>9, <2>2
  <2> QED  BY <1>5, <2>1, <2>2
<1> QED  BY <1>1, <1>4, <1>5, <1>6, <1>7, <1>8, <1>10, LoginsStep

\* It forgets the password a second time and goes on.
LEMMA ForgetInv ==
    ASSUME SessionsInv, NEW r \in Requests, Forget(r)
    PROVE  SessionsInv'
<1> USE ObjectsAre
<1>a. PICK a \in Accounts : a = request[r].account
  BY DEF Forget, SessionsInv, Types, RequestTypes
<1> DEFINE o == request[r].o
           s == [object[o] EXCEPT !.remember[a] = None]
<1>1. /\ request[r].at = "taken" /\ object' = [object EXCEPT ![o].remember[a] = None]
      /\ UNCHANGED <<now, live, record, signIns, out, undone, adrift>> /\ Goes(r, "removed")
  BY <1>a DEF Forget
<1>2. o \in Objects /\ object[o] \in ObjectStates
  BY <1>1, HasLive
<1>3. object' = [object EXCEPT ![o] = s]
  BY <1>1, <1>2 DEF SessionsInv, Types, SessionTypes
<1>4. /\ s \in ObjectStates /\ s.ended = object[o].ended /\ s.logins = object[o].logins /\ s.expires = object[o].expires
      /\ \A b \in Accounts : s.remember[b] \in {object[o].remember[b], None}
  <2>1. [object[o].remember EXCEPT ![a] = None] \in Credentials
    BY <1>2, Forgets
  <2> QED  BY <1>2, <2>1 DEF ObjectStates, Credentials
<1> HIDE DEF s
<1>5. out' \subseteq Accounts /\ undone' \subseteq Accounts /\ signIns' \in 0..MaxSignIns /\ Stays' = Stays /\ Stays \subseteq Accounts
  BY <1>1 DEF SessionsInv, Types, SessionTypes, Stays
<1>6. ~adrift /\ o = live => \A b \in Stays' : s.remember[b] = None /\ b \notin s.logins
  BY <1>1, <1>2, <1>4, <1>5 DEF SessionsInv, OutOfLive
<1>7. RequestTypes' /\ \A q \in Requests : request'[q].o \in {request[q].o, None}
  BY <1>1, GoesBecomes
<1>8. \A b \in Accounts : (Adding(b)' => Adding(b)) /\ (SigningOut(b) => SigningOut(b)')
  <2>1. /\ request'[r].at = "removed" /\ request'[r].account = a
        /\ \A q \in Requests \ {r} : request'[q] = request[q]
    BY <1>a, <1>1, GoesBecomes
  <2> QED  BY <1>a, <1>1, <2>1 DEF Adding, SigningOut
<1>9. /\ \A b \in Stays' : ~Adding(b)'
      /\ ~adrift => \A b \in Stays' : record.remember[b] # None => SigningOut(b)'
  BY <1>1, <1>5, <1>8 DEF SessionsInv, AddedIsIn, OutOfRecord
<1> QED  BY <1>1, <1>3, <1>4, <1>5, <1>6, <1>7, <1>9, LoginsStep

----------------------------------------------------------------------------
(* Steps that change what is live *)

\* The session stays what it is, but for its last use and logins that end, and
\* a request may have come to it.
LEMMA SessionStays ==
    ASSUME SessionsInv, Types', UNCHANGED <<live, record, out, undone, adrift>>,
           \A p \in Objects : /\ object'[p].ended = object[p].ended /\ object'[p].remember = object[p].remember
                              /\ object'[p].expires = object[p].expires /\ object'[p].logins \subseteq object[p].logins,
           \A q \in Requests : request'[q].o \in {request[q].o, live},
           \A a \in Accounts : (Adding(a)' => Adding(a)) /\ (SigningOut(a) => SigningOut(a)')
    PROVE  SessionsInv'
<1> USE ObjectsAre
<1>1. /\ live \in Objects \cup {None} /\ \A q \in Requests : request[q].o \in Objects \cup {None}
      /\ out \subseteq Accounts
  BY DEF SessionsInv, Types, SessionTypes, RequestTypes, RequestStates
<1>2. LiveOrEnded' /\ EndedIsGone'
  BY <1>1 DEF SessionsInv, LiveOrEnded, EndedIsGone
<1>3. AddedIsIn' /\ LiveOnRecord' /\ OutOfLive' /\ OutOfRecord'
  BY <1>1 DEF SessionsInv, AddedIsIn, LiveOnRecord, OutOfLive, OutOfRecord, Stays
<1> QED  BY <1>2, <1>3 DEF SessionsInv

\* What a request that was idle becomes.
LEMMA ComesIn ==
    ASSUME SessionsInv, NEW r \in Requests, request[r].at = "idle", NEW o \in Objects,
           NEW at \in {"in", "signout"}, NEW account \in Accounts \cup {None}, at = "signout" => account \in Accounts,
           request' = [request EXCEPT ![r] = [Idle EXCEPT !.at = at, !.o = o, !.account = account]]
    PROVE  /\ RequestTypes' /\ request'[r].o = o /\ \A q \in Requests \ {r} : request'[q] = request[q]
           /\ \A a \in Accounts : (Adding(a)' => Adding(a)) /\ (SigningOut(a) => SigningOut(a)')
<1> USE EmptyTypes, ObjectsAre
<1> DEFINE x == [Idle EXCEPT !.at = at, !.o = o, !.account = account]
<1>1. x \in RequestStates /\ x.at = at /\ x.o = o /\ x.account = account
  BY DEF RequestStates, RequestSteps
<1>2. request' = [request EXCEPT ![r] = x]
  OBVIOUS
<1> HIDE DEF x
<1>3. RequestTypes' /\ request'[r] = x /\ \A q \in Requests \ {r} : request'[q] = request[q]
  BY <1>1, <1>2, RequestBecomes
<1> QED  BY <1>1, <1>3 DEF Adding, SigningOut

LEMMA LooksIn ==
    ASSUME SessionsInv, NEW r \in Requests, request[r].at = "idle", NEW o \in Objects,
           request' = [request EXCEPT ![r] = [Idle EXCEPT !.at = "in", !.o = o]]
    PROVE  /\ RequestTypes' /\ request'[r].o = o /\ \A q \in Requests \ {r} : request'[q] = request[q]
           /\ \A a \in Accounts : (Adding(a)' => Adding(a)) /\ (SigningOut(a) => SigningOut(a)')
<1> USE EmptyTypes, ObjectsAre
<1> DEFINE x == [Idle EXCEPT !.at = "in", !.o = o]
<1>1. x \in RequestStates /\ x.at = "in" /\ x.o = o
  BY DEF RequestStates, RequestSteps
<1>2. request' = [request EXCEPT ![r] = x]
  OBVIOUS
<1> HIDE DEF x
<1>3. RequestTypes' /\ request'[r] = x /\ \A q \in Requests \ {r} : request'[q] = request[q]
  BY <1>1, <1>2, RequestBecomes
<1> QED  BY <1>1, <1>3 DEF Adding, SigningOut

\* The record brings back a session no request has an object of, and then no
\* sign-out is under way.
LEMMA LookupInv ==
    ASSUME SessionsInv, NEW r \in Requests, Lookup(r)
    PROVE  SessionsInv'
<1> USE EmptyTypes, ObjectsAre
<1>0. /\ request[r].at = "idle" /\ UNCHANGED <<now, record, signIns, out, undone>>
      /\ request' = [request EXCEPT ![r] = [Idle EXCEPT !.at = "in", !.o = live']]
  BY DEF Lookup
<1>i. [Idle EXCEPT !.at = "in", !.o = live'] = [Idle EXCEPT !.at = "in", !.o = live', !.account = None]
  BY DEF Idle
<1>t. /\ object \in [Objects -> ObjectStates] /\ live \in Objects \cup {None} /\ now \in 0..MaxTime
      /\ record \in RecordStates /\ out \subseteq Accounts
  BY DEF SessionsInv, Types, SessionTypes
<1>1. CASE /\ LiveStands /\ UNCHANGED live
           /\ object' = IF Remembered(object[live]) THEN object ELSE [object EXCEPT ![live].seen = now]
  <2>1. live \in Objects /\ adrift' = adrift
    BY <1>1, <1>t DEF Lookup, LiveStands, SessionsInv, Types, SessionTypes
  <2>2. /\ object' \in [Objects -> ObjectStates]
        /\ \A p \in Objects : /\ object'[p].ended = object[p].ended /\ object'[p].remember = object[p].remember
                              /\ object'[p].expires = object[p].expires /\ object'[p].logins \subseteq object[p].logins
    <3>1. PICK s : s = [object[live] EXCEPT !.seen = now]
      OBVIOUS
    <3>2. /\ s \in ObjectStates
          /\ s.ended = object[live].ended /\ s.remember = object[live].remember
          /\ s.expires = object[live].expires /\ s.logins = object[live].logins
      BY <1>t, <2>1, <3>1 DEF ObjectStates
    <3>3. object' = object \/ object' = [object EXCEPT ![live] = s]
      BY <1>1, <3>1
    <3> QED BY <1>t, <2>1, <3>2, <3>3
  <2>3. /\ RequestTypes' /\ request'[r].o = live /\ \A q \in Requests \ {r} : request'[q] = request[q]
        /\ \A a \in Accounts : (Adding(a)' => Adding(a)) /\ (SigningOut(a) => SigningOut(a)')
    <3>1. request' = [request EXCEPT ![r] = [Idle EXCEPT !.at = "in", !.o = live]]
      BY <1>0, <1>1
    <3> QED BY <1>0, <2>1, <3>1, LooksIn
  <2>4. Types'
    BY <1>0, <1>1, <2>1, <2>2, <2>3 DEF SessionsInv, Types, SessionTypes, RecordKept, Remembered
  <2> QED  BY <1>0, <1>1, <2>1, <2>2, <2>3, <2>4, SessionStays
<1>2. CASE /\ ~LiveStands /\ RecordStands /\ live' = Free
           /\ object' = [object EXCEPT ![Free] =
                [NoObject EXCEPT !.remember = record.remember, !.expires = record.expires, !.seen = now]]
  <2> DEFINE s == [NoObject EXCEPT !.remember = record.remember, !.expires = record.expires, !.seen = now]
  <2>1. Free \in Objects /\ Free # live /\ \A q \in Requests : request[q].o # Free
    BY <1>0, FreeIsFree DEF SessionsInv
  <2>2. s \in ObjectStates /\ s.remember = record.remember /\ s.expires = record.expires /\ s.logins = {} /\ ~s.ended
    BY <1>t DEF ObjectStates, RecordStates
  <2> HIDE DEF s
  <2>3. object' \in [Objects -> ObjectStates] /\ object'[live'] = s /\ \A p \in Objects \ {Free} : object'[p] = object[p]
    BY <1>2, <1>t, <2>1, <2>2 DEF s
  <2>4. /\ RequestTypes' /\ request'[r].o = live' /\ \A q \in Requests \ {r} : request'[q] = request[q]
        /\ \A a \in Accounts : (Adding(a)' => Adding(a)) /\ (SigningOut(a) => SigningOut(a)')
    <3>1. PICK f \in Objects : f = live'
      BY <1>2, <2>1
    <3>2. request' = [request EXCEPT ![r] = [Idle EXCEPT !.at = "in", !.o = f, !.account = None]]
      BY <1>0, <1>i, <3>1
    <3>3. /\ RequestTypes' /\ request'[r].o = f /\ \A q \in Requests \ {r} : request'[q] = request[q]
          /\ \A a \in Accounts : (Adding(a)' => Adding(a)) /\ (SigningOut(a) => SigningOut(a)')
      <4>1. request[r].at = "idle"
        BY <1>0
      <4> QED  BY <4>1, <3>2, ComesIn
    <3> QED  BY <3>1, <3>3
  <2>5. adrift' \in BOOLEAN /\ (~adrift' => ~adrift /\ ~Used(live))
    BY <1>2, <2>1 DEF Lookup, SessionsInv, Types, SessionTypes
  <2>6. Types'
    BY <1>0, <1>2, <2>1, <2>3, <2>4, <2>5 DEF SessionsInv, Types, SessionTypes, RecordKept, Remembered
  <2>7. ~adrift' => /\ \A p \in Objects : ~object[p].ended
                    /\ \A q \in Requests : request[q].o = None /\ request[q].at = "idle"
    <3> SUFFICES ASSUME ~adrift' PROVE <2>7!2
      OBVIOUS
    <3>1. \A p \in Objects : ~object[p].ended
      BY <1>2, <2>5 DEF RecordStands, SessionsInv, EndedIsGone
    <3>2. ASSUME NEW q \in Requests PROVE request[q].o = None
      BY <2>5, <3>1 DEF Used, SessionsInv, LiveOrEnded, Types, RequestTypes, RequestStates
    <3> QED  BY <3>1, <3>2 DEF SessionsInv, Types, RequestTypes
  <2>8. ~adrift' => \A a \in Stays : record.remember[a] = None
    BY <2>5, <2>7 DEF SessionsInv, OutOfRecord, SigningOut
  <2>9. LiveOrEnded' /\ EndedIsGone'
    <3>1. ~adrift' => \A q \in Requests : request'[q].o \in {None, live'}
      BY <2>4, <2>7
    <3>2. ~adrift' => \A p \in Objects : ~object'[p].ended
      BY <1>2, <2>2, <2>3, <2>7
    <3> QED  BY <2>2, <2>3, <3>1, <3>2 DEF LiveOrEnded, EndedIsGone
  <2>10. AddedIsIn' /\ OutOfRecord'
    BY <1>0, <1>t, <2>4, <2>8 DEF SessionsInv, AddedIsIn, OutOfRecord, Stays
  <2>11. LiveOnRecord' /\ OutOfLive'
    BY <1>0, <1>t, <2>2, <2>3, <2>8 DEF LiveOnRecord, OutOfLive, Stays
  <2> QED  BY <2>6, <2>9, <2>10, <2>11 DEF SessionsInv
<1> QED  BY <1>1, <1>2 DEF Lookup

LEMMA LoginEndsInv ==
    ASSUME SessionsInv, NEW o \in Objects, NEW a \in Accounts, LoginEnds(o, a)
    PROVE  SessionsInv'
<1>1. /\ object' = [object EXCEPT ![o].logins = @ \ {a}] /\ object \in [Objects -> ObjectStates]
      /\ UNCHANGED <<now, live, record, request, signIns, out, undone, adrift>>
  BY DEF LoginEnds, SessionsInv, Types, SessionTypes
<1>2. /\ object' \in [Objects -> ObjectStates]
      /\ \A p \in Objects : /\ object'[p].ended = object[p].ended /\ object'[p].remember = object[p].remember
                            /\ object'[p].expires = object[p].expires /\ object'[p].logins \subseteq object[p].logins
  BY <1>1 DEF ObjectStates
<1>3. Types'
  BY <1>1, <1>2 DEF SessionsInv, Types, SessionTypes, RequestTypes, RecordKept, Remembered
<1>4. \A b \in Accounts : (Adding(b)' => Adding(b)) /\ (SigningOut(b) => SigningOut(b)')
  BY <1>1 DEF Adding, SigningOut
<1> QED  BY <1>1, <1>2, <1>3, <1>4, SessionStays

\* A sign-out from elsewhere comes to the live session, or edits the record.
LEMMA SignOutInv ==
    ASSUME SessionsInv, NEW r \in Requests, NEW a \in Accounts, SignOut(r, a)
    PROVE  SessionsInv'
<1> USE EmptyTypes, ObjectsAre
<1>0. UNCHANGED <<now, live, object, signIns, adrift>> /\ request[r].at = "idle"
  BY DEF SignOut
<1>1. CASE live # None
  <2>1. /\ request' = [request EXCEPT ![r] = [Idle EXCEPT !.at = "signout", !.o = live, !.account = a]]
        /\ UNCHANGED <<record, out, undone>> /\ live \in Objects
    BY <1>1 DEF SignOut, SessionsInv, Types, SessionTypes
  <2>2. /\ RequestTypes' /\ request'[r].o = live /\ \A q \in Requests \ {r} : request'[q] = request[q]
        /\ \A b \in Accounts : (Adding(b)' => Adding(b)) /\ (SigningOut(b) => SigningOut(b)')
    BY <1>0, <2>1, ComesIn
  <2>3. Types'
    BY <1>0, <2>1, <2>2 DEF SessionsInv, Types, SessionTypes, RecordKept, Remembered
  <2>4. \A q \in Requests : request'[q].o \in {request[q].o, live}
    BY <2>2
  <2> QED  BY <1>0, <2>1, <2>2, <2>3, <2>4, SessionStays
<1>2. CASE live = None
  <2> DEFINE left == [record EXCEPT !.remember[a] = None]
  <2>1. /\ record # NoRecord /\ record' = IF Remembered(left) THEN left ELSE NoRecord
        /\ UNCHANGED request /\ SignedOut(a, TRUE)
    BY <1>2 DEF SignOut
  <2>2. record \in RecordStates /\ record.remember \in Credentials /\ Stays \subseteq Accounts /\ 0 \in 0..MaxSignIns
    BY SessionsAssumption DEF SessionsInv, Types, SessionTypes, RecordStates, Stays
  <2>3. left \in RecordStates /\ left.remember = [record.remember EXCEPT ![a] = None]
    <3>1. [record.remember EXCEPT ![a] = None] \in Credentials
      BY <2>2 DEF Credentials, None
    <3> QED  BY <2>2, <3>1 DEF RecordStates
  <2>4. left.remember[a] = None /\ \A b \in Accounts : left.remember[b] \in {record.remember[b], None}
    BY <2>2, <2>3 DEF Credentials
  <2> HIDE DEF left
  <2>5. record' \in RecordStates /\ RecordKept'
    BY <2>1, <2>3 DEF RecordKept, Remembered
  <2>6. record'.remember[a] = None /\ \A b \in Accounts : record'.remember[b] \in {record.remember[b], None}
    BY <2>1, <2>4 DEF None
  <2>s. /\ out' \subseteq Accounts /\ undone' \subseteq Accounts /\ Stays' \subseteq Stays \cup {a}
        /\ a \in Stays' => ~Adding(a)
    BY <2>1, SignedOutDoes
  <2>7. Types'
    BY <1>0, <2>1, <2>2, <2>5, <2>s DEF SessionsInv, Types, SessionTypes, RequestTypes
  <2>8. LiveOrEnded' /\ EndedIsGone'
    BY <1>0, <1>2, <2>1 DEF SessionsInv, LiveOrEnded, EndedIsGone
  <2>9. AddedIsIn'
    BY <2>1, <2>s DEF SessionsInv, AddedIsIn, Adding
  <2>10. LiveOnRecord' /\ OutOfLive'
    BY <1>0, <1>2 DEF LiveOnRecord, OutOfLive
  <2>11. OutOfRecord'
    <3>1. \A b \in Accounts : SigningOut(b)' <=> SigningOut(b)
      BY <2>1 DEF SigningOut
    <3> QED  BY <1>0, <2>1, <2>2, <2>6, <2>s, <3>1 DEF SessionsInv, OutOfRecord
  <2> QED  BY <2>7, <2>8, <2>9, <2>10, <2>11 DEF SessionsInv
<1> QED  BY <1>1, <1>2

\* Nobody closes what get drops, so whoever has it is adrift.
LEMMA DroppedInv == SessionsInv /\ Dropped => SessionsInv'
<1> SUFFICES ASSUME SessionsInv, Dropped PROVE SessionsInv'
  OBVIOUS
<1>1. /\ live # None /\ live' = None /\ adrift' = (adrift \/ Used(live))
      /\ UNCHANGED <<now, object, record, request, signIns, out, undone>>
  BY DEF Dropped
<1>2. adrift' \in BOOLEAN /\ (~adrift' => ~adrift /\ \A r \in Requests : request[r].o # live)
  BY <1>1 DEF Used, SessionsInv, Types, SessionTypes
<1>3. Types'
  BY <1>1, <1>2 DEF SessionsInv, Types, SessionTypes, RequestTypes, RecordKept, Remembered
<1>4. LiveOrEnded' /\ EndedIsGone'
  BY <1>1, <1>2 DEF SessionsInv, LiveOrEnded, EndedIsGone
<1>5. AddedIsIn' /\ LiveOnRecord' /\ OutOfLive' /\ OutOfRecord'
  BY <1>1, <1>2 DEF SessionsInv, AddedIsIn, Adding, LiveOnRecord, OutOfLive, OutOfRecord, SigningOut, Stays
<1> QED  BY <1>3, <1>4, <1>5 DEF SessionsInv

\* delete ends the object, for every request that has it.
LEMMA DeleteEmptyInv ==
    ASSUME SessionsInv, NEW r \in Requests, DeleteEmpty(r)
    PROVE  SessionsInv'
<1> USE EmptyTypes, ObjectsAre
<1>1. /\ request[r].at = "empty" /\ Ends(r) /\ live' = None /\ record' = NoRecord
      /\ object' = IF live = None THEN object ELSE [object EXCEPT ![live].ended = TRUE]
      /\ UNCHANGED <<now, signIns, out, undone, adrift>>
  BY DEF DeleteEmpty, Delete
<1>2. object \in [Objects -> ObjectStates] /\ live \in Objects \cup {None} /\ out \subseteq Accounts
  BY DEF SessionsInv, Types, SessionTypes
<1>3. /\ object' \in [Objects -> ObjectStates]
      /\ \A p \in Objects : object[p].ended \/ p = live => object'[p].ended
  BY <1>1, <1>2 DEF ObjectStates
<1>4. /\ RequestTypes' /\ \A q \in Requests : request'[q].o \in {request[q].o, None}
      /\ \A a \in Accounts : Adding(a)' => Adding(a)
  BY <1>1, EndsBecomes
<1>5. Types'
  BY <1>1, <1>3, <1>4 DEF SessionsInv, Types, SessionTypes, RecordKept
<1>6. LiveOrEnded' /\ EndedIsGone'
  <2>1. \A q \in Requests : request[q].o \in Objects \cup {None}
    BY DEF SessionsInv, Types, RequestTypes, RequestStates
  <2> QED  BY <1>1, <1>2, <1>3, <1>4, <2>1 DEF SessionsInv, LiveOrEnded, EndedIsGone
<1>7. AddedIsIn' /\ LiveOnRecord' /\ OutOfLive' /\ OutOfRecord'
  BY <1>1, <1>2, <1>4 DEF SessionsInv, AddedIsIn, LiveOnRecord, OutOfLive, OutOfRecord, None, Stays
<1> QED  BY <1>5, <1>6, <1>7 DEF SessionsInv

\* A restart keeps the record, and with it a sign-out that was cut short.
LEMMA RestartInv == SessionsInv /\ Restart => SessionsInv'
<1> SUFFICES ASSUME SessionsInv, Restart PROVE SessionsInv'
  OBVIOUS
<1> USE EmptyTypes, ObjectsAre
<1>1. /\ live' = None /\ object' = [o \in Objects |-> NoObject] /\ request' = [r \in Requests |-> Idle]
      /\ record' \in {record, NoRecord} /\ Stays' = {a \in Stays : ~SigningOut(a)}
      /\ out' \subseteq out /\ UNCHANGED <<now, signIns, undone, adrift>>
  BY DEF Restart, Stays
<1>2. Types'
  BY <1>1 DEF SessionsInv, Types, SessionTypes, RequestTypes, RecordKept, Remembered
<1>3. LiveOrEnded' /\ EndedIsGone' /\ LiveOnRecord' /\ OutOfLive'
  BY <1>1 DEF LiveOrEnded, EndedIsGone, LiveOnRecord, OutOfLive
<1>4. AddedIsIn'
  BY <1>1 DEF AddedIsIn, Adding
<1>5. OutOfRecord'
  <2>1. ~adrift => \A a \in Stays' : record'.remember[a] = None
    BY <1>1 DEF SessionsInv, OutOfRecord, Types, SessionTypes, Stays, None
  <2> QED  BY <1>1, <2>1 DEF OutOfRecord
<1> QED  BY <1>2, <1>3, <1>4, <1>5 DEF SessionsInv

LEMMA NextSessionsInv == SessionsInv /\ [Next]_vars => SessionsInv'
<1> SUFFICES ASSUME SessionsInv, [Next]_vars PROVE SessionsInv'
  OBVIOUS
<1>1. ASSUME NEW r \in Requests, Lookup(r) \/ RequestEnds(r) \/ SaveSession(r) \/ Renew(r)
                 \/ SetLoginToken(r) \/ NotRemembered(r) \/ Restored(r) \/ Refused(r) \/ SaveRefused(r)
                 \/ Remove(r) \/ Forget(r) \/ Left(r) \/ SaveLeft(r) \/ DeleteEmpty(r)
      PROVE  SessionsInv'
  BY <1>1, LookupInv, RequestEndsInv, SaveInv, RenewInv, SetLoginTokenInv, RestoredInv, RefusedInv,
     RemoveInv, ForgetInv, RequestTurnsInv, DeleteEmptyInv
<1>2. ASSUME NEW r \in Requests, NEW a \in Accounts, AddAccount(r, a) \/ Restore(r, a) \/ Logout(r, a) \/ SignOut(r, a)
      PROVE  SessionsInv'
  BY <1>2, AddAccountInv, RequestTurnsInv, SignOutInv
<1>3. ASSUME NEW o \in Objects, NEW a \in Accounts, LoginEnds(o, a) PROVE SessionsInv'
  BY <1>3, LoginEndsInv
<1>4. CASE Dropped \/ Tick \/ Restart
  BY <1>4, DroppedInv, TickInv, RestartInv
<1>5. CASE UNCHANGED vars
  <2>1. UNCHANGED <<now, live, object, record, request, signIns, out, undone, adrift>>
    BY <1>5 DEF vars
  <2>2. RequestTypes' /\ now' \in 0..MaxTime /\ \A a \in Accounts : (Adding(a)' => Adding(a)) /\ (SigningOut(a) => SigningOut(a)')
    BY <2>1 DEF SessionsInv, Types, SessionTypes, RequestTypes, Adding, SigningOut
  <2> QED  BY <2>1, <2>2, RequestsGoOn
<1> QED  BY <1>1, <1>2, <1>3, <1>4, <1>5 DEF Next

----------------------------------------------------------------------------
(* Theorems *)

\* What requests, sign-outs, drops and restarts keep of a session in any order.
THEOREM SessionsAlways == Spec => []SessionsInv
BY InitSessionsInv, NextSessionsInv, PTL DEF Spec

\* The session, its record and its requests keep their types, and no record is
\* kept empty (Save).
THEOREM SessionsTypes == Spec => []TypeOK
<1>1. SessionsInv => TypeOK
  <2> SUFFICES ASSUME SessionsInv PROVE TypeOK
    OBVIOUS
  <2>1. /\ now \in 0..MaxTime /\ live \in Objects \cup {None} /\ object \in [Objects -> ObjectStates]
        /\ record \in RecordStates /\ RecordKept /\ request \in [Requests -> RequestStates]
        /\ \A r \in Requests : request[r].at = "idle" <=> request[r].o = None
    BY DEF SessionsInv, Types, SessionTypes, RequestTypes
  <2>2. \A o \in Objects :
          /\ object[o].remember \in [Accounts -> 0..MaxSignIns] /\ object[o].logins \subseteq Accounts
          /\ object[o].expires \in 0..(MaxTime + 1) /\ object[o].ended \in BOOLEAN
    BY <2>1 DEF ObjectStates, Credentials
  <2>3. record.expires \in 0..(MaxTime + 1) /\ \A r \in Requests : request[r].at # "idle" => request[r].o \in Objects
    BY <2>1 DEF RecordStates, RequestStates
  <2> QED  BY <2>1, <2>2, <2>3 DEF TypeOK, RecordKept
<1> QED  BY <1>1, SessionsAlways, PTL

\* An account signed out of stays out until its password is given again, for
\* any number of requests that hold the session, restores in flight, other
\* accounts and restarts (lookup, restored, SignOut), but for a sign-out that
\* came before SetLoginToken of a sign-in under way, and one that found the login
\* gone and left the record.
THEOREM SignedOutForGood == Spec => []SignedOutStays
<1>1. SessionsInv => SignedOutStays
  <2> SUFFICES ASSUME SessionsInv, ~adrift, NEW a \in Stays, Holds(a) PROVE SigningOut(a)
    BY DEF SignedOutStays, Stays, SessionsInv, Types, SessionTypes
  <2>1. live # None => object[live].remember[a] = None /\ a \notin object[live].logins
    BY DEF SessionsInv, OutOfLive
  <2> QED  BY <2>1 DEF Holds, LiveStands, SessionsInv, OutOfRecord
<1> QED  BY <1>1, SessionsAlways, PTL

\* What the live session remembers is on record with its expiry, so that a
\* restart brings back no less (saveRemembered, Save).
THEOREM RememberedOnRecord == Spec => []OnRecord
<1>1. SessionsInv => OnRecord
  BY DEF SessionsInv, LiveOnRecord, OnRecord
<1> QED  BY <1>1, SessionsAlways, PTL

----------------------------------------------------------------------------
(***************************************************************************)
(* The keys of one account, for every finite set of logins, however many   *)
(* are at work, until they cross: what is claimed of the entry, the data   *)
(* file and the ring is claimed while crossed is FALSE.                    *)
(***************************************************************************)

\* A record with these fields.  A key is whatever number was unused, so that
\* the fields are known and not what they hold.
Has(x, fields) == x = [f \in fields |-> x[f]]

EntryShape(k) ==
    /\ Has(k, {"id", "opens", "off", "pw", "retired"})
    /\ \A x \in k.retired : Has(x, {"id", "opens", "pw"})

LoginShape(q) ==
    /\ Has(q, {"at", "op", "pw", "locked", "failed", "k", "own"})
    /\ q.failed \in BOOLEAN /\ q.locked \in BOOLEAN
    /\ EntryShape(q.k)

PairShape(p) ==
    /\ Has(p, {"id", "under", "retired"})
    /\ \A x \in p.retired : Has(x, {"id", "under"})
    /\ IsFiniteSet(p.retired)

RingShape(r) == Has(r, {"own", "old", "on", "leased"}) /\ r.on \in BOOLEAN

KeptShapes ==
    /\ EntryShape(entry)
    /\ Has(file, {"pair", "record", "coll"}) /\ PairShape(file.pair)
    /\ RingShape(ring)

LoginShapes ==
    /\ login = [l \in Logins |-> login[l]]
    /\ \A l \in Logins : LoginShape(login[l])

\* The instance's key and those of the entry.
Kept == {0} \cup EntryKeys(entry)

\* Whatever the ring gives and the pairs are under is a key of the entry, and
\* all pairs are under one.
AllUnderKept ==
    /\ ring.own \in Kept
    /\ file.record \in Kept \cup {Gone}
    /\ file.pair.under \in Kept
    /\ \A x \in file.pair.retired : x.under = file.pair.under
    /\ file.pair.id = 0 => file.pair.under = 0

CollKept == file.coll \in {0, Gone, file.pair.id} \cup {x.id : x \in file.pair.retired}

\* What the password wrap opens is one of the entry's keys: rewrapKey may have
\* wrapped one that was replaced.
Opening(k) == k.opens \in {0} \cup EntryKeys(k)

StoresFit == AllUnderKept /\ (discarded \/ CollKept) /\ Opening(entry)

SameIds(a, b) == a.id = b.id /\ {x.id : x \in a.retired} = {x.id : x \in b.retired}

\* Signing in: the key in hand is the entry's where the password opens it, and
\* what was read of the entry stands unless it was written since.
SignsIn(l, q) ==
    q.at \in {"rewrap", "retire", "hold"} =>
        /\ q.own \in Kept
        /\ q.k.id # 0 /\ OpenWith(q.k, q.pw) = q.k.id => q.own = q.k.id
        /\ l \notin stale => SameIds(q.k, entry) /\ (q.at = "rewrap" => q.k = entry)

\* On the way to PutKey, and from there to the ring.
Acts(l, q) ==
    /\ q.at = "put" =>
        /\ q.own \in {0} \cup EntryKeys(q.k)
        /\ Opening(q.k)
        /\ q.op = "recover" => q.k.id # 0 /\ q.own = q.k.id
        /\ q.op = "startover" => q.own # 0
        /\ l \notin stale => EntryKeys(entry) \subseteq EntryKeys(q.k)
    /\ q.at = "turn" =>
        /\ q.own \in Kept
        /\ l \notin stale => SameIds(q.k, entry)
        /\ q.op = "startover" => q.own # 0
        /\ q.op = "recover" =>
            /\ q.k.id # 0
            /\ q.own = q.k.id \/ (ring.own # 0 /\ (file.pair.under = q.k.id => q.k.id \in AtHand(ring)))

\* Moving what is kept: what was moved is under the ring's key, and so is the
\* pair unless it does not open.
MovesKept(q) ==
    /\ q.at \in {"record", "coll", "settled"} =>
        \/ ring.on /\ ring.own = 0
        \/ file.pair.under = Target(ring)
        \/ file.pair.under \notin AtHand(ring)
    /\ q.at \in {"coll", "settled"} /\ ~q.failed =>
        ~Locked(ring, file.pair) /\ file.record \in {Target(ring), Gone}
    /\ q.at = "settled" /\ ~q.failed =>
        discarded \/ file.coll \in {Gone, IF ring.on THEN file.pair.id ELSE 0}

Fits(l, q) == SignsIn(l, q) /\ Acts(l, q) /\ MovesKept(q)

Sound == StoresFit /\ \A l \in Logins : Fits(l, login[l])

KeysInv == KeptShapes /\ LoginShapes /\ (crossed \/ Sound)

\* What a step may do to the stores beside the logins that are not in W.
Harmless(W) ==
    /\ Kept \subseteq Kept'
    /\ discarded => discarded'
    /\ (\E m \in Logins \ W : HoldsAccount(m)) =>
        /\ file'.record \in {file.record, Target(ring), Gone}
        /\ file'.coll \in {file.coll, Gone, IF ring.on THEN file.pair.id ELSE 0}
        /\ \/ file'.pair.under \in AtHand(ring')
           \/ file'.pair.under = file.pair.under /\ file.pair.under \notin AtHand(ring)
        /\ ring.own # 0 => ring'.own # 0

LEMMA LeastNatural ==
    ASSUME NEW T \in SUBSET Nat, T # {}
    PROVE  \E n \in T : \A m \in T : n <= m
<1>1. PICK n \in T : \A m \in T : ~(<<m, n>> \in OpToRel(<, Nat))
  BY NatLessThanWellFounded, WFMin
<1>2. \A m \in T : <<m, n>> \in OpToRel(<, Nat) <=> m < n
  BY DEF OpToRel
<1>3. \A m \in T : ~(m < n)
  BY <1>1, <1>2
<1>4. \A m \in T : n <= m
  BY <1>3
<1> QED BY <1>4

\* There is a number to give out, and it is new.
LEMMA UnusedIsNew ==
    ASSUME NEW S, IsFiniteSet(S)
    PROVE  Unused(S) # {} /\ Unused(S) \subseteq Nat \ {0}
<1>1. PICK c \in Nat : c = Cardinality(S)
  BY FS_CardinalityType
<1>2. \E n \in 1..(c + 1) : n \notin S
  <2>1. SUFFICES ASSUME 1..(c + 1) \subseteq S PROVE FALSE
    OBVIOUS
  <2>2. Cardinality(1..(c + 1)) <= c
    BY <1>1, <2>1, FS_Subset
  <2>3. Cardinality(1..(c + 1)) = c + 1
    BY FS_Interval
  <2> QED BY <2>2, <2>3
<1>3. PICK n \in 1..(c + 1) : n \notin S /\ \A m \in 1..(c + 1) : m \notin S => n <= m
  <2>1. PICK T : T = {m \in 1..(c + 1) : m \notin S}
    OBVIOUS
  <2>2. T \in SUBSET Nat /\ T # {}
    BY <1>2, <2>1
  <2> QED BY <2>1, <2>2, LeastNatural
<1>4. \A m \in 1..(n - 1) : m \in S
  BY <1>3
<1>5. \E m \in 1..(c + 1) : m \notin S /\ \A k \in 1..(m - 1) : k \in S
  BY <1>3, <1>4
<1>6. Unused(S) = {m \in 1..(c + 1) : m \notin S /\ \A k \in 1..(m - 1) : k \in S}
  BY <1>1 DEF Unused
<1> QED BY <1>5, <1>6

LEMMA FreshPairIsNew ==
    ASSUME KeptShapes
    PROVE  FreshPair \in Nat \ {0}
<1>1. IsFiniteSet({x.id : x \in file.pair.retired})
  <2>1. PICK R : R = file.pair.retired
    OBVIOUS
  <2>2. IsFiniteSet(R)
    BY <2>1 DEF KeptShapes, PairShape
  <2>3. PICK f : f = [x \in R |-> x.id]
    OBVIOUS
  <2>4. f \in Surjection(R, {x.id : x \in R})
    BY <2>3 DEF Surjection
  <2> QED BY <2>1, <2>2, <2>4, FS_Surjection
<1>2. IsFiniteSet({file.pair.id, file.coll})
  <2>1. IsFiniteSet({file.pair.id}) /\ IsFiniteSet({file.coll})
    BY FS_Singleton
  <2>2. IsFiniteSet({file.pair.id} \cup {file.coll})
    BY <2>1, FS_Union
  <2>3. {file.pair.id} \cup {file.coll} = {file.pair.id, file.coll}
    OBVIOUS
  <2> QED BY <2>2, <2>3
<1>3. IsFiniteSet({file.pair.id, file.coll} \cup {x.id : x \in file.pair.retired})
  BY <1>1, <1>2, FS_Union
<1>4. PICK U : U = Unused({file.pair.id, file.coll} \cup {x.id : x \in file.pair.retired})
  OBVIOUS
<1>5. U # {} /\ U \subseteq Nat \ {0}
  BY <1>3, <1>4, UnusedIsNew
<1> QED BY <1>4, <1>5 DEF FreshPair

LEMMA KeyIsMade == \A own \in FreshKeys : own # 0
BY DEF FreshKeys, Unused

\* While a login holds the account nothing expires.
LEMMA HeldStays ==
    ASSUME NEW l \in Logins, HoldsAccount(l)
    PROVE  Get = ring
BY DEF Get, Expire, Held

LEMMA GetIs ==
    ASSUME KeptShapes
    PROVE  /\ RingShape(Get)
           /\ Get.own \in {0, ring.own}
BY DEF Get, Expire, Nil, KeptShapes, RingShape, Has

\* Before a crossing.
LEMMA Uncrossed ==
    ASSUME KeysInv, Cross, ~crossed'
    PROVE  Sound /\ ~WritesOver /\ ~TurnsUnder
BY DEF KeysInv, Cross

LEMMA GroundStays ==
    ASSUME Ground' = Ground
    PROVE  /\ ring'.own = ring.own /\ ring'.on = ring.on
           /\ file'.pair.id = file.pair.id /\ file'.pair.under = file.pair.under
           /\ file'.pair.under \in AtHand(ring') <=> file.pair.under \in AtHand(ring)
BY DEF Ground

\* A login that does not move fits on, unless the step crosses it.
LEMMA OthersStand ==
    ASSUME Sound, Cross, ~WritesOver, ~TurnsUnder, NEW W, Harmless(W),
           NEW m \in Logins \ W, login'[m] = login[m]
    PROVE  Fits(m, login[m])'
<1>1. PICK q : q = login[m] /\ q = login'[m] /\ Fits(m, q)
  BY DEF Sound
<1>2. q.at \in {"rewrap", "retire", "hold", "put", "turn"} /\ m \notin stale' => m \notin stale /\ entry' = entry
  BY <1>1 DEF Cross, InTheWay, Unmoved
<1>3. Kept \subseteq Kept' /\ (discarded => discarded')
  BY DEF Harmless
<1>4. q.at \in {"record", "coll", "settled", "put", "turn"} =>
        /\ file'.record \in {file.record, Target(ring), Gone}
        /\ file'.coll \in {file.coll, Gone, IF ring.on THEN file.pair.id ELSE 0}
        /\ \/ file'.pair.under \in AtHand(ring')
           \/ file'.pair.under = file.pair.under /\ file.pair.under \notin AtHand(ring)
        /\ ring.own # 0 => ring'.own # 0
  BY <1>1 DEF Harmless, HoldsAccount
<1>5. SignsIn(m, q)'
  <2> SUFFICES ASSUME q.at \in {"rewrap", "retire", "hold"} PROVE SignsIn(m, q)'
    BY DEF SignsIn
  <2>1. /\ q.own \in Kept /\ (q.k.id # 0 /\ OpenWith(q.k, q.pw) = q.k.id => q.own = q.k.id)
        /\ m \notin stale => SameIds(q.k, entry) /\ (q.at = "rewrap" => q.k = entry)
    BY <1>1 DEF Fits, SignsIn
  <2>2. q.own \in Kept'
    BY <1>3, <2>1
  <2>3. m \notin stale' => SameIds(q.k, entry') /\ (q.at = "rewrap" => q.k = entry')
    BY <1>2, <2>1
  <2> QED BY <2>1, <2>2, <2>3 DEF SignsIn, OpenWith, Made, Nil, SameIds
<1>6. Acts(m, q)'
  <2>1. ASSUME q.at = "put"
        PROVE  /\ q.own \in {0} \cup EntryKeys(q.k)
               /\ Opening(q.k)
               /\ q.op = "recover" => q.k.id # 0 /\ q.own = q.k.id
               /\ q.op = "startover" => q.own # 0
               /\ m \notin stale' => EntryKeys(entry') \subseteq EntryKeys(q.k)
    BY <1>1, <1>2, <2>1 DEF Fits, Acts
  <2>2. ASSUME q.at = "turn"
        PROVE  /\ q.own \in Kept'
               /\ m \notin stale' => SameIds(q.k, entry')
               /\ q.op = "startover" => q.own # 0
               /\ q.op = "recover" =>
                    /\ q.k.id # 0
                    /\ q.own = q.k.id \/ (ring'.own # 0 /\ (file'.pair.under = q.k.id => q.k.id \in AtHand(ring')))
    <3>1. /\ q.own \in Kept
          /\ m \notin stale => SameIds(q.k, entry)
          /\ q.op = "startover" => q.own # 0
          /\ q.op = "recover" =>
                /\ q.k.id # 0
                /\ q.own = q.k.id \/ (ring.own # 0 /\ (file.pair.under = q.k.id => q.k.id \in AtHand(ring)))
      BY <1>1, <2>2 DEF Fits, Acts
    <3>2. /\ file'.pair.under \in AtHand(ring') \/ (file'.pair.under = file.pair.under /\ file.pair.under \notin AtHand(ring))
          /\ ring.own # 0 => ring'.own # 0
      BY <1>4, <2>2
    <3> QED BY <1>2, <1>3, <2>2, <3>1, <3>2
  <2> QED BY <2>1, <2>2 DEF Acts, Opening, EntryKeys, SameIds, AtHand
<1>7. MovesKept(q)'
  <2>1. CASE q.at \in {"record", "coll", "settled"}
    <3>1. Ground' = Ground
      BY <1>1, <2>1 DEF TurnsUnder, Moving, Unmoved
    <3>2. /\ ring'.own = ring.own /\ ring'.on = ring.on
          /\ file'.pair.id = file.pair.id /\ file'.pair.under = file.pair.under
          /\ file'.pair.under \in AtHand(ring') <=> file.pair.under \in AtHand(ring)
      BY <3>1, GroundStays
    <3>3. Target(ring') = Target(ring) /\ Locked(ring', file'.pair) = Locked(ring, file.pair)
      BY <3>2 DEF Target, Locked
    <3>4. MovesKept(q)
      BY <1>1 DEF Fits
    <3>5. /\ (ring'.on /\ ring'.own = 0) \/ file'.pair.under = Target(ring') \/ file'.pair.under \notin AtHand(ring')
          /\ q.at \in {"coll", "settled"} /\ ~q.failed =>
                ~Locked(ring', file'.pair) /\ file'.record \in {Target(ring'), Gone}
          /\ q.at = "settled" /\ ~q.failed =>
                discarded' \/ file'.coll \in {Gone, IF ring'.on THEN file'.pair.id ELSE 0}
      BY <1>3, <1>4, <2>1, <3>2, <3>3, <3>4 DEF MovesKept
    <3> QED BY <3>5 DEF MovesKept, Target, AtHand, Locked, Gone
  <2>2. CASE q.at \notin {"record", "coll", "settled"}
    BY <2>2 DEF MovesKept
  <2> QED BY <2>1, <2>2
<1> QED BY <1>1, <1>5, <1>6, <1>7 DEF Fits

\* A step of one login keeps the invariant if what it becomes fits.
LEMMA WorkerMoves ==
    ASSUME KeysInv, Cross, NEW l \in Logins, NEW p,
           login' = [login EXCEPT ![l] = p],
           LoginShape(p), KeptShapes',
           ~crossed' => StoresFit' /\ Harmless({l}) /\ Fits(l, p)'
    PROVE  KeysInv'
<1>1. login'[l] = p /\ \A m \in Logins \ {l} : login'[m] = login[m]
  BY DEF KeysInv, LoginShapes
<1>2. LoginShapes'
  <2>1. login' = [m \in Logins |-> login'[m]]
    BY DEF KeysInv, LoginShapes
  <2>2. \A m \in Logins : LoginShape(login'[m])
    BY <1>1 DEF KeysInv, LoginShapes
  <2> QED BY <2>1, <2>2 DEF LoginShapes, LoginShape, EntryShape, Has
<1>3. ASSUME ~crossed' PROVE Sound'
  <2>1. Sound /\ ~WritesOver /\ ~TurnsUnder
    BY <1>3, Uncrossed
  <2>2. ASSUME NEW m \in Logins PROVE Fits(m, login[m])'
    <3>1. CASE m = l
      BY <1>1, <1>3, <3>1
    <3>2. CASE m # l
      <4>1. m \in Logins \ {l}
        BY <3>2
      <4> QED BY <1>1, <1>3, <2>1, <4>1, OthersStand
    <3> QED BY <3>1, <3>2
  <2> QED BY <1>3, <2>2 DEF Sound
<1> QED BY <1>2, <1>3 DEF KeysInv

\* A login that neither signs in, nor acts, nor moves what is kept, fits.
LEMMA IdleFits ==
    ASSUME NEW l, NEW p, p.at \in {"out", "read", "in"}
    PROVE  Fits(l, p)'
BY DEF Fits, SignsIn, Acts, MovesKept

LEMMA SameIdsSameKeys ==
    ASSUME NEW a, NEW b, SameIds(a, b)
    PROVE  EntryKeys(a) = EntryKeys(b)
BY DEF SameIds, EntryKeys

\* What renewing, wrapping again and turning off leave of an entry's keys.
LEMMA RenewedKeeps ==
    ASSUME NEW k, EntryShape(k), NEW own, NEW pw, NEW n, n = Renewed(k, own, pw)
    PROVE  /\ EntryShape(n) /\ n.id = own
           /\ EntryKeys(k) \subseteq EntryKeys(n)
           /\ own \in {0} \cup EntryKeys(n)
           /\ Opening(n)
<1>1. /\ n.id = own /\ n.opens = own
      /\ n.retired = k.retired \cup (IF k.id # 0 THEN {[id |-> k.id, opens |-> k.opens, pw |-> k.pw]} ELSE {})
  BY DEF Renewed, Made, Nil
<1>2. Has(n, {"id", "opens", "off", "pw", "retired"})
  BY DEF Renewed, Has
<1>3. ASSUME NEW x \in n.retired PROVE Has(x, {"id", "opens", "pw"})
  <2>1. CASE x \in k.retired
    BY <2>1 DEF EntryShape
  <2>2. CASE x = [id |-> k.id, opens |-> k.opens, pw |-> k.pw]
    BY <2>2 DEF Has
  <2> QED BY <1>1, <1>3, <2>1, <2>2
<1>4. EntryKeys(k) \subseteq EntryKeys(n)
  <2>1. k.id # 0 => \E x \in n.retired : x.id = k.id
    <3>1. PICK w : w = [id |-> k.id, opens |-> k.opens, pw |-> k.pw]
      OBVIOUS
    <3>2. w.id = k.id /\ (k.id # 0 => w \in n.retired)
      BY <1>1, <3>1
    <3> QED BY <3>2
  <2> QED BY <1>1, <2>1 DEF EntryKeys, Nil
<1>5. own \in {0} \cup EntryKeys(n)
  BY <1>1 DEF EntryKeys, Nil
<1> QED BY <1>1, <1>2, <1>3, <1>4, <1>5 DEF EntryShape, Opening

LEMMA UnderKeeps ==
    ASSUME NEW k, EntryShape(k), NEW own, NEW pw, NEW n, n = Under(k, own, pw)
    PROVE  EntryShape(n) /\ SameIds(n, k) /\ n.opens = own
BY DEF Under, EntryShape, Has, SameIds

LEMMA OffKeeps ==
    ASSUME NEW k, EntryShape(k), NEW n, n = [k EXCEPT !.off = TRUE]
    PROVE  EntryShape(n) /\ SameIds(n, k) /\ n.opens = k.opens
BY DEF EntryShape, Has, SameIds

LEMMA RewrappedKeeps ==
    ASSUME NEW k, EntryShape(k), NEW own, NEW pw, NEW next, NEW n, n = Rewrapped(k, own, pw, next)
    PROVE  EntryShape(n) /\ SameIds(n, k) /\ n.opens = own
<1>1. PICK u : u = Under(k, own, next)
  OBVIOUS
<1>2. EntryShape(u) /\ u.id = k.id /\ u.retired = k.retired /\ u.opens = own
  BY <1>1 DEF Under, EntryShape, Has
<1>3. n = [u EXCEPT !.retired = {[r EXCEPT !.pw = IF @ = pw THEN next ELSE @] : r \in k.retired}]
  BY <1>1 DEF Rewrapped
<1>4. /\ n.id = k.id /\ n.opens = own /\ Has(n, {"id", "opens", "off", "pw", "retired"})
      /\ n.retired = {[r EXCEPT !.pw = IF r.pw = pw THEN next ELSE r.pw] : r \in k.retired}
  BY <1>2, <1>3 DEF EntryShape, Has
<1>5. ASSUME NEW r \in k.retired, NEW x, x = [r EXCEPT !.pw = IF r.pw = pw THEN next ELSE r.pw]
      PROVE  x.id = r.id /\ Has(x, {"id", "opens", "pw"})
  <2>1. Has(r, {"id", "opens", "pw"})
    BY DEF EntryShape
  <2> QED BY <1>5, <2>1 DEF Has
<1>6. \A x \in n.retired : Has(x, {"id", "opens", "pw"}) /\ \E r \in k.retired : x.id = r.id
  BY <1>4, <1>5
<1>7. ASSUME NEW r \in k.retired PROVE \E x \in n.retired : x.id = r.id
  <2>1. PICK x : x = [r EXCEPT !.pw = IF r.pw = pw THEN next ELSE r.pw]
    OBVIOUS
  <2>2. x \in n.retired
    BY <1>4, <2>1
  <2> QED BY <1>5, <2>1, <2>2
<1>8. {x.id : x \in n.retired} = {x.id : x \in k.retired}
  BY <1>6, <1>7
<1> QED BY <1>4, <1>6, <1>8 DEF EntryShape, SameIds

\* settle gives a pair, whatever it is given.
LEMMA SettleShape ==
    ASSUME KeptShapes, NEW r, RingShape(r), NEW p, p = file.pair, NEW s, s = Settle(r, p)
    PROVE  PairShape(s)
<1> USE DEF Nil, Instance
<1>1. PairShape(p)
  BY DEF KeptShapes
<1>2. CASE (r.on /\ r.own = 0) \/ (p.id # 0 /\ (p.under = Target(r) \/ p.under \notin AtHand(r)))
  BY <1>1, <1>2 DEF Settle
<1>3. CASE ~((r.on /\ r.own = 0) \/ (p.id # 0 /\ (p.under = Target(r) \/ p.under \notin AtHand(r))))
  <2>1. PICK t : t = Target(r)
    OBVIOUS
  <2>2. PICK moved : moved = {[x EXCEPT !.under = IF @ \in AtHand(r) THEN t ELSE @] : x \in p.retired}
    OBVIOUS
  <2>3. PICK was : was = IF p.id # 0 /\ r.on THEN {[id |-> p.id, under |-> t]} ELSE {}
    OBVIOUS
  <2>4. PICK i : i = IF p.id = 0 \/ r.on THEN FreshPair ELSE p.id
    OBVIOUS
  <2>5. s = [id |-> i, under |-> t, retired |-> moved \cup was]
    BY <1>3, <2>1, <2>2, <2>3, <2>4 DEF Settle
  <2>6. s.retired = moved \cup was /\ Has(s, {"id", "under", "retired"})
    BY <2>5 DEF Has
  <2>7. \A y \in moved : Has(y, {"id", "under"})
    <3>1. ASSUME NEW x \in p.retired, NEW u, NEW y, y = [x EXCEPT !.under = u] PROVE Has(y, {"id", "under"})
      <4>1. Has(x, {"id", "under"})
        BY <1>1 DEF PairShape
      <4> QED BY <3>1, <4>1 DEF Has
    <3> QED BY <2>2, <3>1
  <2>8. IsFiniteSet(moved)
    <3>1. PICK R : R = p.retired
      OBVIOUS
    <3>2. IsFiniteSet(R)
      BY <1>1, <3>1 DEF PairShape
    <3>3. PICK f : f = [x \in R |-> [x EXCEPT !.under = IF @ \in AtHand(r) THEN t ELSE @]]
      OBVIOUS
    <3>4. f \in Surjection(R, moved)
      BY <2>2, <3>1, <3>3 DEF Surjection
    <3> QED BY <3>2, <3>4, FS_Surjection
  <2>9. IsFiniteSet(was) /\ \A y \in was : Has(y, {"id", "under"})
    <3>1. CASE was = {}
      BY <3>1, FS_EmptySet
    <3>2. CASE was = {[id |-> p.id, under |-> t]}
      <4>1. PICK w : w = [id |-> p.id, under |-> t]
        OBVIOUS
      <4>2. Has(w, {"id", "under"})
        BY <4>1 DEF Has
      <4>3. was = {w}
        BY <3>2, <4>1
      <4> QED BY <4>2, <4>3, FS_Singleton
    <3> QED BY <2>3, <3>1, <3>2
  <2>10. IsFiniteSet(moved \cup was)
    BY <2>8, <2>9, FS_Union
  <2> QED BY <2>6, <2>7, <2>9, <2>10 DEF PairShape
<1> QED BY <1>2, <1>3

\* settle loses no pair, and leaves all of them under one key.
LEMMA SettleKeeps ==
    ASSUME KeptShapes, AllUnderKept, NEW r, RingShape(r), r.own \in Kept,
           NEW p, p = file.pair, NEW s, s = Settle(r, p)
    PROVE  /\ s.under \in Kept
           /\ \A x \in s.retired : x.under = s.under
           /\ s.id = 0 => s.under = 0
           /\ {p.id} \cup {x.id : x \in p.retired} \subseteq {0, s.id} \cup {x.id : x \in s.retired}
           /\ s = p \/ s.under = Target(r)
           /\ (r.on /\ r.own = 0) \/ s.under = Target(r) \/ s.under \notin AtHand(r)
<1> USE DEF Nil, Instance
<1>1. /\ PairShape(p) /\ p.under \in Kept /\ (\A x \in p.retired : x.under = p.under)
      /\ (p.id = 0 => p.under = 0)
  BY DEF KeptShapes, AllUnderKept
<1>2. Target(r) \in Kept /\ 0 \in AtHand(r) /\ Target(r) \in AtHand(r)
  BY DEF Target, Kept, AtHand, RingShape
<1>3. CASE (r.on /\ r.own = 0) \/ (p.id # 0 /\ (p.under = Target(r) \/ p.under \notin AtHand(r)))
  <2>1. s = p
    BY <1>3 DEF Settle
  <2> QED BY <1>1, <1>3, <2>1
<1>4. CASE ~((r.on /\ r.own = 0) \/ (p.id # 0 /\ (p.under = Target(r) \/ p.under \notin AtHand(r))))
  <2>1. p.under \in AtHand(r)
    BY <1>1, <1>2, <1>4
  <2>2. PICK t : t = Target(r)
    OBVIOUS
  <2>3. PICK moved : moved = {[x EXCEPT !.under = IF @ \in AtHand(r) THEN t ELSE @] : x \in p.retired}
    OBVIOUS
  <2>4. PICK was : was = IF p.id # 0 /\ r.on THEN {[id |-> p.id, under |-> t]} ELSE {}
    OBVIOUS
  <2>5. PICK i : i = IF p.id = 0 \/ r.on THEN FreshPair ELSE p.id
    OBVIOUS
  <2>6. s = [id |-> i, under |-> t, retired |-> moved \cup was]
    BY <1>4, <2>2, <2>3, <2>4, <2>5 DEF Settle
  <2>7. s.id = i /\ s.under = t /\ s.retired = moved \cup was
    BY <2>6
  <2>8. i # 0
    BY <2>5, FreshPairIsNew
  <2>9. ASSUME NEW x \in p.retired, NEW y, y = [x EXCEPT !.under = IF x.under \in AtHand(r) THEN t ELSE x.under]
        PROVE  y.id = x.id /\ y.under = t
    <3>1. Has(x, {"id", "under"}) /\ x.under \in AtHand(r)
      BY <1>1, <2>1 DEF PairShape
    <3> QED BY <2>9, <3>1 DEF Has
  <2>10. \A y \in moved : y.under = t
    BY <2>3, <2>9
  <2>11. ASSUME NEW x \in p.retired PROVE \E y \in moved : y.id = x.id
    <3>1. PICK y : y = [x EXCEPT !.under = IF x.under \in AtHand(r) THEN t ELSE x.under]
      OBVIOUS
    <3>2. y \in moved
      BY <2>3, <3>1
    <3> QED BY <2>9, <3>1, <3>2
  <2>12. (\A y \in was : y.under = t) /\ (p.id \in {0, i} \/ \E y \in was : y.id = p.id)
    <3>1. PICK w : w = [id |-> p.id, under |-> t]
      OBVIOUS
    <3>2. w.id = p.id /\ w.under = t /\ was = IF p.id # 0 /\ r.on THEN {w} ELSE {}
      BY <2>4, <3>1
    <3> QED BY <2>5, <3>2
  <2> QED BY <1>2, <2>2, <2>7, <2>8, <2>10, <2>11, <2>12
<1> QED BY <1>3, <1>4

\* turn, whatever the stores hold.
LEMMA TurnShapes ==
    ASSUME KeptShapes, NEW own, NEW on \in BOOLEAN, Turn(own, on), UNCHANGED entry
    PROVE  /\ KeptShapes'
           /\ RingShape(ring') /\ ring'.on = on /\ ring'.own = (IF own = 0 THEN Get.own ELSE own)
           /\ Get = ring => AtHand(ring) \subseteq AtHand(ring')
           /\ file'.record = file.record /\ file'.coll = file.coll
           /\ file'.pair = Settle(ring', file.pair)
<1> USE DEF Nil
<1>1. PICK g : g = Get /\ RingShape(g)
  BY GetIs
<1>2. PICK r : r = ring'
  OBVIOUS
<1>3. r = Turned(g, own, on)
  BY <1>1, <1>2 DEF Turn
<1>4. /\ RingShape(r) /\ r.on = on /\ r.own = IF own = 0 THEN g.own ELSE own
      /\ r.old = IF own # 0 /\ g.own \notin {0, own} THEN g.old \cup {g.own} ELSE g.old
  BY <1>1, <1>3 DEF Turned, RingShape, Has
<1>5. AtHand(g) \subseteq AtHand(r)
  BY <1>4 DEF AtHand, Instance
<1>6. PICK s : s = Settle(r, file.pair)
  OBVIOUS
<1>7. PairShape(s)
  BY <1>4, <1>6, SettleShape
<1>8. file' = [file EXCEPT !.pair = s]
  BY <1>2, <1>6 DEF Turn
<1>9. Has(file', {"pair", "record", "coll"}) /\ file'.pair = s /\ file'.record = file.record /\ file'.coll = file.coll
  BY <1>8 DEF KeptShapes, Has
<1>10. KeptShapes'
  BY <1>2, <1>4, <1>7, <1>9 DEF KeptShapes, RingShape, PairShape, EntryShape, Has
<1> QED BY <1>1, <1>2, <1>4, <1>5, <1>6, <1>9, <1>10

\* turn keeps what is kept, whichever key of the entry it is given.
LEMMA TurnKeeps ==
    ASSUME KeptShapes, StoresFit, NEW own \in Kept, NEW on \in BOOLEAN, Turn(own, on), UNCHANGED <<entry, discarded>>,
           NEW W
    PROVE  /\ StoresFit' /\ Harmless(W)
           /\ file'.pair = file.pair \/ file'.pair.under = Target(ring')
           /\ \/ ring'.on /\ ring'.own = 0
              \/ file'.pair.under = Target(ring')
              \/ file'.pair.under \notin AtHand(ring')
<1> USE DEF Nil
<1>1. AllUnderKept /\ (discarded \/ CollKept) /\ Opening(entry)
  BY DEF StoresFit
<1>2. PICK r : r = ring'
  OBVIOUS
<1>3. /\ RingShape(r) /\ r.on = on /\ r.own = (IF own = 0 THEN Get.own ELSE own)
      /\ Get = ring => AtHand(ring) \subseteq AtHand(r)
      /\ file'.record = file.record /\ file'.coll = file.coll
      /\ file'.pair = Settle(r, file.pair)
  BY <1>2, TurnShapes
<1>4. r.own \in Kept
  <2>1. Get.own \in {0, ring.own}
    BY GetIs
  <2> QED BY <1>1, <1>3, <2>1 DEF AllUnderKept, Kept
<1>5. PICK p : p = file.pair
  OBVIOUS
<1>6. PICK s : s = Settle(r, p)
  OBVIOUS
<1>7. /\ s.under \in Kept /\ (\A x \in s.retired : x.under = s.under) /\ (s.id = 0 => s.under = 0)
      /\ {p.id} \cup {x.id : x \in p.retired} \subseteq {0, s.id} \cup {x.id : x \in s.retired}
      /\ s = p \/ s.under = Target(r)
      /\ (r.on /\ r.own = 0) \/ s.under = Target(r) \/ s.under \notin AtHand(r)
  BY <1>1, <1>3, <1>4, <1>5, <1>6, SettleKeeps
<1>8. file'.pair = s
  BY <1>3, <1>5, <1>6
<1>9. Kept' = Kept
  BY DEF Kept, EntryKeys
<1>10. AllUnderKept'
  BY <1>1, <1>2, <1>3, <1>4, <1>7, <1>8, <1>9 DEF AllUnderKept, Gone
<1>11. (discarded \/ CollKept)'
  <2>1. ASSUME CollKept PROVE CollKept'
    <3>1. file.coll \in {0, Gone} \cup {p.id} \cup {x.id : x \in p.retired}
      BY <1>5, <2>1 DEF CollKept
    <3> QED BY <1>3, <1>7, <1>8, <3>1 DEF CollKept, Gone
  <2> QED BY <1>1, <2>1
<1>12. Harmless(W)
  <2>1. ASSUME NEW m \in Logins \ W, HoldsAccount(m)
        PROVE  /\ \/ file'.pair.under \in AtHand(ring')
                  \/ file'.pair.under = file.pair.under /\ file.pair.under \notin AtHand(ring)
               /\ ring.own # 0 => ring'.own # 0
    <3>1. AtHand(ring) \subseteq AtHand(r) /\ (ring.own # 0 => r.own # 0)
      BY <1>3, <2>1, HeldStays
    <3>2. Target(r) \in AtHand(r)
      BY <1>3 DEF Target, AtHand, RingShape
    <3> QED BY <1>2, <1>5, <1>7, <1>8, <3>1, <3>2
  <2> QED BY <1>3, <1>9, <2>1 DEF Harmless
<1>13. Opening(entry)'
  BY <1>1 DEF Opening, EntryKeys
<1> QED BY <1>2, <1>5, <1>7, <1>8, <1>10, <1>11, <1>12, <1>13 DEF StoresFit

LEMMA StoresStay ==
    ASSUME KeptShapes, UNCHANGED <<entry, file, ring, discarded>>, NEW W
    PROVE  KeptShapes' /\ Kept' = Kept /\ Harmless(W) /\ (StoresFit => StoresFit')
<1>1. Kept' = Kept
  BY DEF Kept, EntryKeys
<1>2. KeptShapes'
  BY DEF KeptShapes, EntryShape, PairShape, RingShape, Has
<1>3. Harmless(W)
  BY <1>1 DEF Harmless
<1>4. StoresFit => StoresFit'
  BY <1>1 DEF StoresFit, AllUnderKept, CollKept, Opening, EntryKeys, Gone
<1> QED BY <1>1, <1>2, <1>3, <1>4

LEMMA OutShape == LoginShape(Out) /\ Out.at = "out"
<1>1. PICK k : k = NoEntry
  OBVIOUS
<1>2. EntryShape(k)
  BY <1>1 DEF NoEntry, EntryShape, Has
<1>3. PICK q : q = Out
  OBVIOUS
<1>4. Has(q, {"at", "op", "pw", "locked", "failed", "k", "own"}) /\ q.k = k /\ q.at = "out" /\ ~q.failed /\ ~q.locked
      /\ q.failed \in BOOLEAN /\ q.locked \in BOOLEAN
  BY <1>1, <1>3 DEF Out, Has
<1> QED BY <1>2, <1>3, <1>4 DEF LoginShape

LEMMA NoEntryShape == EntryShape(NoEntry)
BY DEF NoEntry, EntryShape, Has

\* A step that only moves a login, to where it fits.
LEMMA OnlyMoves ==
    ASSUME KeysInv, Cross, NEW l \in Logins, NEW p, login' = [login EXCEPT ![l] = p], LoginShape(p),
           UNCHANGED <<entry, file, ring, discarded>>,
           Sound /\ ~crossed' => Fits(l, p)'
    PROVE  KeysInv'
<1>1. KeptShapes' /\ Harmless({l}) /\ (StoresFit => StoresFit')
  BY StoresStay DEF KeysInv
<1>2. ~crossed' => Sound
  BY Uncrossed
<1> QED BY <1>1, <1>2, WorkerMoves DEF Sound

LEMMA SignInKeeps ==
    ASSUME KeysInv, NEW l \in Logins, SignIn(l)
    PROVE  KeysInv'
<1>1. PICK o : o = Out
  OBVIOUS
<1>2. PICK p : p = [o EXCEPT !.at = "read", !.pw = password]
  OBVIOUS
<1>3. login' = [login EXCEPT ![l] = p] /\ UNCHANGED <<entry, file, ring, discarded>> /\ Cross
  BY <1>1, <1>2 DEF SignIn, Leaves
<1>4. LoginShape(p) /\ p.at = "read"
  BY <1>1, <1>2, OutShape DEF LoginShape, Has
<1>5. Fits(l, p)'
  BY <1>4, IdleFits
<1> QED BY <1>3, <1>4, <1>5, OnlyMoves

LEMMA ReadKeyKeeps ==
    ASSUME KeysInv, NEW l \in Logins, ReadKey(l)
    PROVE  KeysInv'
<1> USE DEF Nil
<1>1. PICK q : q = login[l] /\ LoginShape(q)
  BY DEF KeysInv, LoginShapes
<1>2. q.at = "read" /\ UNCHANGED <<entry, file, ring, discarded>> /\ Cross /\ EntryShape(entry)
  BY <1>1 DEF ReadKey, Leaves, KeysInv, KeptShapes
<1>3. PICK p : p = [q EXCEPT !.at = "rewrap", !.k = entry, !.own = OpenWith(entry, q.pw)]
  OBVIOUS
<1>4. /\ p.at = "rewrap" /\ p.k = entry /\ p.own = OpenWith(entry, q.pw) /\ p.pw = q.pw
      /\ LoginShape(p)
  BY <1>1, <1>2, <1>3 DEF LoginShape, Has
<1>5. login' = [login EXCEPT ![l] = p]
  BY <1>1, <1>3 DEF ReadKey
<1>6. ASSUME Sound PROVE Fits(l, p)'
  <2>1. p.own \in Kept
    BY <1>4, <1>6 DEF Sound, StoresFit, Opening, OpenWith, Kept
  <2>2. Kept' = Kept
    BY <1>2 DEF Kept, EntryKeys
  <2>3. SignsIn(l, p)'
    BY <1>2, <1>4, <2>1, <2>2 DEF SignsIn, SameIds, OpenWith, Made
  <2>4. Acts(l, p)' /\ MovesKept(p)'
    BY <1>4 DEF Acts, MovesKept
  <2> QED BY <2>3, <2>4 DEF Fits
<1> QED BY <1>2, <1>4, <1>5, <1>6, OnlyMoves

\* A login that ends its work.
LEMMA EndsFits ==
    ASSUME NEW l \in Logins, NEW q, q = login[l], LoginShape(q), EndsWork(l)
    PROVE  \E p : login' = [login EXCEPT ![l] = p] /\ LoginShape(p) /\ p.at = "in"
<1>1. PICK n : n = NoEntry
  OBVIOUS
<1>2. PICK p : p = [q EXCEPT !.at = "in", !.op = "none", !.k = n, !.own = Nil]
  OBVIOUS
<1>3. LoginShape(p) /\ p.at = "in"
  BY <1>1, <1>2, NoEntryShape DEF LoginShape, Has
<1>4. login' = [login EXCEPT ![l] = p]
  BY <1>1, <1>2 DEF EndsWork
<1> QED BY <1>3, <1>4

LEMMA PutRefusedKeeps ==
    ASSUME KeysInv, NEW l \in Logins, PutRefused(l)
    PROVE  KeysInv'
<1>1. UNCHANGED <<entry, file, ring, discarded>> /\ Cross
  BY DEF PutRefused, Leaves
<1>2. PICK p : login' = [login EXCEPT ![l] = p] /\ LoginShape(p) /\ p.at = "in"
  BY EndsFits DEF PutRefused, KeysInv, LoginShapes
<1>3. Fits(l, p)'
  BY <1>2, IdleFits
<1> QED BY <1>1, <1>2, <1>3, OnlyMoves

\* An action starts: the login takes what it is to put, or to turn.
LEMMA StartsFits ==
    ASSUME KeysInv, NEW l \in Logins, NEW at, NEW op, NEW own, NEW k, EntryShape(k), Starts(l, at, op, own, k)
    PROVE  \E p : /\ login' = [login EXCEPT ![l] = p] /\ LoginShape(p)
                  /\ p.at = at /\ p.op = op /\ p.own = own /\ p.k = k
<1>1. PICK q : q = login[l] /\ LoginShape(q)
  BY DEF KeysInv, LoginShapes
<1>2. PICK p : p = [q EXCEPT !.at = at, !.op = op, !.own = own, !.k = k]
  OBVIOUS
<1>3. LoginShape(p) /\ p.at = at /\ p.op = op /\ p.own = own /\ p.k = k
  BY <1>1, <1>2 DEF LoginShape, Has
<1>4. login' = [login EXCEPT ![l] = p]
  BY <1>1, <1>2 DEF Starts
<1> QED BY <1>3, <1>4

\* An action that goes on to PutKey with the entry's keys and more.
LEMMA StartsPut ==
    ASSUME KeysInv, Cross,
           NEW l \in Logins, NEW op, NEW own, NEW k, EntryShape(k), Starts(l, "put", op, own, k),
           UNCHANGED <<entry, file, ring, discarded>>,
           op = "recover" => k.id # 0 /\ own = k.id,
           op # "startover",
           Sound => EntryKeys(entry) \subseteq EntryKeys(k) /\ own \in {0} \cup EntryKeys(k) /\ Opening(k)
    PROVE  KeysInv'
<1>1. PICK p : /\ login' = [login EXCEPT ![l] = p] /\ LoginShape(p)
               /\ p.at = "put" /\ p.op = op /\ p.own = own /\ p.k = k
  BY StartsFits
<1>2. ASSUME Sound PROVE Fits(l, p)'
  <2>1. SignsIn(l, p)' /\ MovesKept(p)'
    BY <1>1 DEF SignsIn, MovesKept
  <2>2. Acts(l, p)'
    BY <1>1, <1>2 DEF Acts, EntryKeys, Opening
  <2> QED BY <2>1, <2>2 DEF Fits
<1> QED BY <1>1, <1>2, OnlyMoves

LEMMA EncryptKeeps ==
    ASSUME KeysInv, NEW l \in Logins, Encrypt(l)
    PROVE  KeysInv'
<1>1. PICK own \in FreshKeys : Starts(l, "put", "encrypt", own, Renewed(entry, own, login[l].pw))
  BY DEF Encrypt
<1>2. PICK k : k = Renewed(entry, own, login[l].pw)
  OBVIOUS
<1>3. Starts(l, "put", "encrypt", own, k) /\ UNCHANGED <<entry, file, ring, discarded>> /\ Cross
  BY <1>1, <1>2 DEF Encrypt, Leaves
<1>4. EntryShape(k) /\ EntryKeys(entry) \subseteq EntryKeys(k) /\ own \in {0} \cup EntryKeys(k) /\ Opening(k)
  BY <1>2, RenewedKeeps DEF KeysInv, KeptShapes
<1> QED BY <1>3, <1>4, StartsPut

LEMMA DecryptKeeps ==
    ASSUME KeysInv, NEW l \in Logins, Decrypt(l)
    PROVE  KeysInv'
<1>1. PICK k : k = [entry EXCEPT !.off = TRUE]
  OBVIOUS
<1>2. Starts(l, "put", "decrypt", 0, k) /\ UNCHANGED <<entry, file, ring, discarded>> /\ Cross
  BY <1>1 DEF Decrypt, Leaves, Nil
<1>3. EntryShape(k) /\ EntryKeys(entry) = EntryKeys(k) /\ k.opens = entry.opens
  BY <1>1, OffKeeps, SameIdsSameKeys DEF KeysInv, KeptShapes
<1>4. Sound => Opening(k)
  BY <1>3 DEF Sound, StoresFit, Opening
<1> QED BY <1>2, <1>3, <1>4, StartsPut

LEMMA RecoverKeeps ==
    ASSUME KeysInv, NEW l \in Logins, Recover(l)
    PROVE  KeysInv'
<1>1. PICK k : k = Under(entry, entry.id, login[l].pw)
  OBVIOUS
<1>2. /\ Starts(l, "put", "recover", entry.id, k) /\ entry.id # 0
      /\ UNCHANGED <<entry, file, ring, discarded>> /\ Cross
  BY <1>1 DEF Recover, Leaves, Nil, Made
<1>3. EntryShape(k) /\ SameIds(k, entry) /\ EntryKeys(entry) = EntryKeys(k) /\ k.opens = entry.id
  BY <1>1, UnderKeeps, SameIdsSameKeys DEF KeysInv, KeptShapes
<1>4. k.id = entry.id /\ entry.id \in {0} \cup EntryKeys(k) /\ Opening(k)
  BY <1>3 DEF EntryKeys, Nil, Opening, SameIds
<1> QED BY <1>2, <1>3, <1>4, StartsPut

LEMMA ChangePasswordKeeps ==
    ASSUME KeysInv, NEW l \in Logins, ChangePassword(l)
    PROVE  KeysInv'
<1>1. PICK own : own = InHand(l)
  OBVIOUS
<1>2. PICK k : k = Rewrapped(entry, own, login[l].pw, password + 1)
  OBVIOUS
<1>3. UNCHANGED <<entry, file, ring, discarded>> /\ Cross
  BY DEF ChangePassword, Leaves
<1>4. EntryShape(k) /\ EntryKeys(entry) = EntryKeys(k) /\ k.opens = own
  BY <1>2, RewrappedKeeps, SameIdsSameKeys DEF KeysInv, KeptShapes
<1>5. Sound => Opening(k)
  <2> SUFFICES ASSUME Sound PROVE own \in Kept
    BY <1>4 DEF Opening, Kept
  <2>1. OpenWith(entry, login[l].pw) \in Kept
    BY DEF Sound, StoresFit, Opening, OpenWith, Kept, Nil
  <2>2. Get.own \in Kept
    BY GetIs DEF KeysInv, Sound, StoresFit, AllUnderKept, Kept
  <2> QED BY <1>1, <2>1, <2>2 DEF InHand
<1>6. CASE Starts(l, "put", "password", 0, k)
  BY <1>3, <1>4, <1>5, <1>6, StartsPut
<1>7. CASE UNCHANGED login
  <2>1. PICK p : p = login[l] /\ LoginShape(p) /\ p.at = "in"
    BY DEF KeysInv, LoginShapes, ChangePassword, MayAct
  <2>2. login' = [login EXCEPT ![l] = p]
    BY <1>7, <2>1 DEF KeysInv, LoginShapes
  <2>3. Fits(l, p)'
    BY <2>1, IdleFits
  <2> QED BY <1>3, <2>1, <2>2, <2>3, OnlyMoves
<1> QED BY <1>1, <1>2, <1>6, <1>7 DEF ChangePassword, Nil

LEMMA RewrapKeeps ==
    ASSUME KeysInv, NEW l \in Logins, Rewrap(l)
    PROVE  KeysInv'
<1> USE DEF Nil
<1>1. PICK q : q = login[l] /\ LoginShape(q) /\ (Sound => SignsIn(l, q))
  BY DEF KeysInv, LoginShapes, Sound, Fits
<1>2. q.at = "rewrap" /\ UNCHANGED <<file, ring, discarded>> /\ Cross /\ KeptShapes
  BY <1>1 DEF Rewrap, Leaves, KeysInv
<1>3. PICK p : /\ login' = [login EXCEPT ![l] = p] /\ LoginShape(p)
               /\ p.at = "retire" /\ p.k = q.k /\ p.pw = q.pw
               /\ \/ p.own = q.own /\ entry' = entry
                  \/ p.own = q.k.id /\ entry' = Under(q.k, q.k.id, q.pw) /\ Get.own = q.k.id
  <2>1. CASE q.own = 0 /\ Get.own # 0 /\ Get.own = q.k.id
    <3>1. PICK p : p = [q EXCEPT !.at = "retire", !.own = q.k.id]
      OBVIOUS
    <3>2. LoginShape(p) /\ p.at = "retire" /\ p.k = q.k /\ p.pw = q.pw /\ p.own = q.k.id
      BY <1>1, <3>1 DEF LoginShape, Has
    <3>3. login' = [login EXCEPT ![l] = p] /\ entry' = Under(q.k, q.k.id, q.pw)
      BY <1>1, <2>1, <3>1 DEF Rewrap
    <3> QED BY <2>1, <3>2, <3>3
  <2>2. CASE ~(q.own = 0 /\ Get.own # 0 /\ Get.own = q.k.id)
    <3>1. PICK p : p = [q EXCEPT !.at = "retire"]
      OBVIOUS
    <3>2. LoginShape(p) /\ p.at = "retire" /\ p.k = q.k /\ p.pw = q.pw /\ p.own = q.own
      BY <1>1, <3>1 DEF LoginShape, Has
    <3>3. login' = [login EXCEPT ![l] = p] /\ entry' = entry
      BY <1>1, <2>2, <3>1 DEF Rewrap, GoesTo
    <3> QED BY <3>2, <3>3
  <2> QED BY <2>1, <2>2
<1>4. PICK e : e = entry'
  OBVIOUS
<1>5. EntryShape(e)
  BY <1>1, <1>2, <1>3, <1>4, UnderKeeps DEF KeptShapes, LoginShape
<1>6. KeptShapes'
  BY <1>2, <1>4, <1>5 DEF KeptShapes, EntryShape, PairShape, RingShape, Has
<1>7. ASSUME ~crossed' PROVE StoresFit' /\ Harmless({l}) /\ Fits(l, p)'
  <2>1. Sound /\ ~WritesOver
    BY <1>2, <1>7, Uncrossed
  <2>2. /\ q.own \in Kept /\ (q.k.id # 0 /\ OpenWith(q.k, q.pw) = q.k.id => q.own = q.k.id)
        /\ l \notin stale => q.k = entry
    BY <1>1, <1>2, <2>1 DEF SignsIn
  <2>3. login'[l] = p /\ p.at # q.at
    BY <1>2, <1>3 DEF KeysInv, LoginShapes
  <2>4. entry' = entry \/ l \notin stale
    BY <1>1, <2>1, <2>3 DEF WritesOver, Unmoved
  <2>5. l \notin stale' => l \notin stale
    BY <1>2, <1>3, <2>3 DEF Cross, InTheWay
  <2>6. SameIds(e, entry) /\ Opening(e)
    <3>1. CASE entry' = entry
      BY <1>4, <2>1, <3>1 DEF SameIds, Sound, StoresFit
    <3>2. CASE entry' # entry
      <4>1. e = Under(entry, entry.id, q.pw)
        BY <1>3, <1>4, <2>2, <2>4, <3>2
      <4>2. SameIds(e, entry) /\ e.opens = entry.id
        BY <1>2, <4>1, UnderKeeps DEF KeptShapes
      <4> QED BY <4>2 DEF SameIds, Opening, EntryKeys
    <3> QED BY <3>1, <3>2
  <2>7. Kept' = Kept
    <3>1. EntryKeys(e) = EntryKeys(entry)
      BY <2>6, SameIdsSameKeys
    <3> QED BY <1>4, <3>1 DEF Kept, EntryKeys
  <2>8. StoresFit'
    <3>1. Opening(entry)'
      BY <1>4, <2>6 DEF Opening, EntryKeys
    <3> QED BY <1>2, <2>1, <2>7, <3>1 DEF Sound, StoresFit, AllUnderKept, CollKept, Gone
  <2>9. Harmless({l})
    BY <1>2, <2>7 DEF Harmless
  <2>10. SignsIn(l, p)'
    <3>1. p.own \in Kept
      <4>1. Get.own \in Kept
        BY <1>2, <2>1, GetIs DEF Sound, StoresFit, AllUnderKept, Kept
      <4> QED BY <1>3, <2>2, <4>1
    <3>2. p.k.id # 0 /\ OpenWith(p.k, p.pw) = p.k.id => p.own = p.k.id
      BY <1>3, <2>2
    <3>3. l \notin stale' => SameIds(p.k, e)
      BY <1>3, <2>2, <2>5, <2>6 DEF SameIds
    <3> QED BY <1>3, <1>4, <2>7, <3>1, <3>2, <3>3 DEF SignsIn, OpenWith, Made, SameIds
  <2>11. Acts(l, p)' /\ MovesKept(p)'
    BY <1>3 DEF Acts, MovesKept
  <2> QED BY <2>8, <2>9, <2>10, <2>11 DEF Fits
<1> QED BY <1>2, <1>3, <1>6, <1>7, WorkerMoves

LEMMA RetireKeeps ==
    ASSUME KeysInv, NEW l \in Logins, Retire(l)
    PROVE  KeysInv'
<1> USE DEF Nil
<1>1. PICK q : q = login[l] /\ LoginShape(q) /\ (Sound => SignsIn(l, q))
  BY DEF KeysInv, LoginShapes, Sound, Fits
<1>2. q.at = "retire" /\ UNCHANGED <<entry, file, discarded>> /\ Cross /\ KeptShapes
  BY <1>1 DEF Retire, Leaves, KeysInv
<1>3. PICK p : p = [q EXCEPT !.at = "hold"]
  OBVIOUS
<1>4. LoginShape(p) /\ p.at = "hold" /\ p.k = q.k /\ p.pw = q.pw /\ p.own = q.own
  BY <1>1, <1>3 DEF LoginShape, Has
<1>5. login' = [login EXCEPT ![l] = p]
  BY <1>1, <1>3 DEF Retire, GoesTo
<1>6. PICK g : g = Get /\ RingShape(g) /\ g.own \in {0, ring.own}
  BY <1>2, GetIs
<1>7. PICK r : r = ring'
  OBVIOUS
<1>8. RingShape(r) /\ r.own = g.own /\ AtHand(g) \subseteq AtHand(r)
  <2>1. PICK more : r = [g EXCEPT !.old = @ \cup more]
    BY <1>1, <1>6, <1>7 DEF Retire
  <2>2. RingShape(r) /\ r.own = g.own /\ r.old = g.old \cup more
    BY <1>6, <2>1 DEF RingShape, Has
  <2> QED BY <2>2 DEF AtHand
<1>9. Kept' = Kept /\ 0 \in Kept
  BY <1>2 DEF Kept, EntryKeys
<1>10. KeptShapes'
  BY <1>2, <1>7, <1>8 DEF KeptShapes, EntryShape, PairShape, RingShape, Has
<1>11. ASSUME ~crossed' PROVE StoresFit' /\ Harmless({l}) /\ Fits(l, p)'
  <2>1. Sound
    BY <1>2, <1>11, Uncrossed
  <2>2. StoresFit'
    BY <1>2, <1>6, <1>7, <1>8, <1>9, <2>1 DEF Sound, StoresFit, AllUnderKept, CollKept, Opening, EntryKeys, Gone
  <2>3. Harmless({l})
    <3>1. ASSUME NEW m \in Logins, HoldsAccount(m) PROVE AtHand(ring) \subseteq AtHand(ring') /\ ring'.own = ring.own
      BY <1>6, <1>7, <1>8, <3>1, HeldStays
    <3> QED BY <1>2, <1>9, <3>1 DEF Harmless
  <2>4. l \notin stale' => l \notin stale
    BY <1>2, <1>4, <1>5 DEF Cross, InTheWay, KeysInv, LoginShapes
  <2>5. SignsIn(l, q)
    BY <1>1, <2>1
  <2>6. SignsIn(l, p)'
    BY <1>2, <1>4, <1>9, <2>4, <2>5 DEF SignsIn, SameIds, OpenWith, Made
  <2>7. Acts(l, p)' /\ MovesKept(p)'
    BY <1>4 DEF Acts, MovesKept
  <2> QED BY <2>2, <2>3, <2>6, <2>7 DEF Fits
<1> QED BY <1>2, <1>4, <1>5, <1>10, <1>11, WorkerMoves

\* What the ring's turn makes of the login.
LEMMA MovesFits ==
    ASSUME NEW l \in Logins, NEW q, q = login[l], LoginShape(q), NEW shut \in BOOLEAN, Moves(l, shut)
    PROVE  \E p : /\ login' = [login EXCEPT ![l] = p] /\ LoginShape(p) /\ p.locked = shut
                  /\ p.at = IF shut THEN "in" ELSE "record"
<1>1. PICK n : n = NoEntry
  OBVIOUS
<1>2. PICK a : a = IF shut THEN "in" ELSE "record"
  OBVIOUS
<1>3. PICK p : p = [q EXCEPT !.at = a, !.op = "none", !.locked = shut, !.failed = FALSE, !.k = n, !.own = Nil]
  OBVIOUS
<1>4. LoginShape(p) /\ p.at = a /\ p.locked = shut
  <2>1. Has(p, {"at", "op", "pw", "locked", "failed", "k", "own"}) /\ p.at = a /\ p.locked = shut /\ p.failed = FALSE /\ p.k = n
    BY <1>3 DEF LoginShape, Has
  <2> QED BY <1>1, <2>1, NoEntryShape DEF LoginShape
<1>5. login' = [login EXCEPT ![l] = p]
  BY <1>1, <1>2, <1>3 DEF Moves
<1> QED BY <1>2, <1>4, <1>5

\* The ring turns to a key of the entry: signing in, or after an action.
LEMMA TurnMoves ==
    ASSUME KeysInv, NEW l \in Logins, NEW own, NEW on \in BOOLEAN, NEW shut \in BOOLEAN,
           Turn(own, on), Moves(l, shut), Cross, UNCHANGED <<entry, discarded>>,
           Sound => own \in Kept
    PROVE  KeysInv'
<1>1. KeptShapes /\ KeptShapes'
  BY TurnShapes DEF KeysInv
<1>2. PICK p : login' = [login EXCEPT ![l] = p] /\ LoginShape(p) /\ p.at \in {"in", "record"}
  BY MovesFits DEF KeysInv, LoginShapes
<1>3. ASSUME ~crossed' PROVE StoresFit' /\ Harmless({l}) /\ Fits(l, p)'
  <2>1. own \in Kept /\ StoresFit
    BY <1>3, Uncrossed DEF Sound
  <2>2. PICK W : W = {l}
    OBVIOUS
  <2>3. /\ StoresFit' /\ Harmless(W)
        /\ \/ ring'.on /\ ring'.own = 0
           \/ file'.pair.under = Target(ring')
           \/ file'.pair.under \notin AtHand(ring')
    BY <1>1, <2>1, TurnKeeps
  <2>4. MovesKept(p)'
    BY <1>2, <2>3 DEF MovesKept, Target, AtHand
  <2>5. SignsIn(l, p)' /\ Acts(l, p)'
    BY <1>2 DEF SignsIn, Acts
  <2> QED BY <2>2, <2>3, <2>4, <2>5 DEF Fits
<1> QED BY <1>1, <1>2, <1>3, WorkerMoves

LEMMA HoldKeeps ==
    ASSUME KeysInv, NEW l \in Logins, Hold(l)
    PROVE  KeysInv'
<1>1. PICK q : q = login[l]
  OBVIOUS
<1>2. PICK on \in BOOLEAN : on = On(q.k)
  BY DEF On, Made
<1>3. PICK shut \in BOOLEAN : shut = Locked(ring', file'.pair)
  BY DEF Locked
<1>4. q.at = "hold" /\ Turn(q.own, on) /\ Moves(l, shut) /\ UNCHANGED <<entry, discarded>> /\ Cross
  BY <1>1, <1>2, <1>3 DEF Hold, Leaves
<1>5. Sound => q.own \in Kept
  BY <1>1, <1>4 DEF Sound, Fits, SignsIn
<1> QED BY <1>4, <1>5, TurnMoves

LEMMA TurnKeyKeeps ==
    ASSUME KeysInv, NEW l \in Logins, TurnKey(l)
    PROVE  KeysInv'
<1>1. PICK q : q = login[l]
  OBVIOUS
<1>2. PICK on \in BOOLEAN : on = On(q.k)
  BY DEF On, Made
<1>3. PICK shut \in BOOLEAN : shut = (q.op = "recover" /\ Locked(ring', file'.pair))
  OBVIOUS
<1>4. q.at = "turn" /\ Turn(q.own, on) /\ Moves(l, shut) /\ UNCHANGED <<entry, discarded>> /\ Cross
  BY <1>1, <1>2, <1>3 DEF TurnKey, Leaves
<1>5. Sound => q.own \in Kept
  BY <1>1, <1>4 DEF Sound, Fits, Acts
<1> QED BY <1>4, <1>5, TurnMoves

\* From Hold to the end of the login nothing expires.
LEMMA InHolds ==
    ASSUME NEW l \in Logins, login[l].at \in {"in", "record", "coll", "settled", "put", "turn"}
    PROVE  HoldsAccount(l) /\ Get = ring
<1>1. HoldsAccount(l)
  BY DEF HoldsAccount
<1> QED BY <1>1, HeldStays

LEMMA TargetIsKept ==
    ASSUME StoresFit
    PROVE  Target(ring) \in Kept
BY DEF StoresFit, AllUnderKept, Target, Instance, Kept

LEMMA ResealRecordKeeps ==
    ASSUME KeysInv, NEW l \in Logins, ResealRecord(l)
    PROVE  KeysInv'
<1>1. PICK q : q = login[l] /\ LoginShape(q) /\ (Sound => MovesKept(q))
  BY DEF KeysInv, LoginShapes, Sound, Fits
<1>2. q.at = "record" /\ UNCHANGED <<entry, ring, discarded>> /\ Cross /\ KeptShapes
  BY <1>1 DEF ResealRecord, Leaves, KeysInv
<1>3. Get = ring
  BY <1>1, <1>2, InHolds
<1>4. PICK bad \in BOOLEAN : bad = (Locked(ring, file.pair) \/ ~RecordOpens(ring))
  OBVIOUS
<1>5. PICK rec : rec = IF bad \/ file.record = Gone THEN file.record ELSE Target(ring)
  OBVIOUS
<1>6. file' = [file EXCEPT !.record = rec] /\ login' = [login EXCEPT ![l].at = "coll", ![l].failed = bad]
  BY <1>3, <1>4, <1>5 DEF ResealRecord
<1>7. Has(file', {"pair", "record", "coll"}) /\ file'.pair = file.pair /\ file'.record = rec /\ file'.coll = file.coll
  BY <1>2, <1>6 DEF KeptShapes, Has
<1>8. PICK p : p = [q EXCEPT !.at = "coll", !.failed = bad]
  OBVIOUS
<1>9. LoginShape(p) /\ p.at = "coll" /\ p.failed = bad
  BY <1>1, <1>8 DEF LoginShape, Has
<1>10. login' = [login EXCEPT ![l] = p]
  BY <1>1, <1>6, <1>8
<1>11. Kept' = Kept
  BY <1>2 DEF Kept, EntryKeys
<1>12. KeptShapes'
  BY <1>2, <1>7 DEF KeptShapes, EntryShape, PairShape, RingShape, Has
<1>13. ASSUME ~crossed' PROVE StoresFit' /\ Harmless({l}) /\ Fits(l, p)'
  <2>1. Sound
    BY <1>2, <1>13, Uncrossed
  <2>2. StoresFit'
    BY <1>2, <1>5, <1>7, <1>11, <2>1, TargetIsKept DEF Sound, StoresFit, AllUnderKept, CollKept, Opening, EntryKeys, Gone
  <2>3. Harmless({l})
    BY <1>2, <1>5, <1>7, <1>11 DEF Harmless
  <2>4. SignsIn(l, p)' /\ Acts(l, p)'
    BY <1>9 DEF SignsIn, Acts
  <2>5. MovesKept(p)'
    <3>1. ~bad => ~Locked(ring, file.pair) /\ rec \in {Target(ring), Gone}
      BY <1>4, <1>5
    <3> QED BY <1>1, <1>2, <1>7, <1>9, <2>1, <3>1 DEF MovesKept, Target, AtHand, Locked, Gone
  <2> QED BY <2>2, <2>3, <2>4, <2>5 DEF Fits
<1> QED BY <1>2, <1>9, <1>10, <1>12, <1>13, WorkerMoves

\* Where the pairs open, the collection does.
LEMMA CollOpensWithPair ==
    ASSUME KeptShapes, AllUnderKept, CollKept, NEW r, file.pair.under \in AtHand(r)
    PROVE  CollOpens(r)
<1> USE DEF Nil, Instance
<1>1. PICK p : p = file.pair /\ (\A x \in p.retired : x.under = p.under) /\ p.under \in AtHand(r)
  BY DEF AllUnderKept
<1>2. PICK cur : cur = [id |-> p.id, under |-> p.under]
  OBVIOUS
<1>3. cur.id = p.id /\ cur.under = p.under
  BY <1>2
<1>4. ASSUME NEW x \in p.retired \cup {cur}, x.id # 0 PROVE x.id \in PairsOpen(p, AtHand(r))
  <2>1. x.under \in AtHand(r)
    BY <1>1, <1>3
  <2> QED BY <1>2, <1>4, <2>1 DEF PairsOpen
<1>5. file.coll \in {0, Gone, cur.id} \cup {x.id : x \in p.retired}
  BY <1>1, <1>3 DEF CollKept
<1> QED BY <1>1, <1>4, <1>5 DEF CollOpens

LEMMA ResealCollKeeps ==
    ASSUME KeysInv, NEW l \in Logins, ResealColl(l)
    PROVE  KeysInv'
<1> USE DEF Nil, Instance
<1>1. PICK q : q = login[l] /\ LoginShape(q) /\ (Sound => MovesKept(q))
  BY DEF KeysInv, LoginShapes, Sound, Fits
<1>2. q.at = "coll" /\ UNCHANGED <<entry, ring, discarded>> /\ Cross /\ KeptShapes
  BY <1>1 DEF ResealColl, Leaves, KeysInv
<1>3. Get = ring
  BY <1>1, <1>2, InHolds
<1>4. PICK bad \in BOOLEAN : bad = (q.failed \/ (~CollOpens(ring) /\ ~ring.on))
  BY <1>1 DEF LoginShape
<1>5. PICK to : to = IF file.coll = Gone \/ ~CollOpens(ring) THEN file.coll
                     ELSE IF ring.on THEN file.pair.id ELSE 0
  OBVIOUS
<1>6. file' = [file EXCEPT !.coll = to] /\ login' = [login EXCEPT ![l].at = "settled", ![l].failed = bad]
  BY <1>1, <1>3, <1>4, <1>5 DEF ResealColl
<1>7. Has(file', {"pair", "record", "coll"}) /\ file'.pair = file.pair /\ file'.record = file.record /\ file'.coll = to
  BY <1>2, <1>6 DEF KeptShapes, Has
<1>8. PICK p : p = [q EXCEPT !.at = "settled", !.failed = bad]
  OBVIOUS
<1>9. LoginShape(p) /\ p.at = "settled" /\ p.failed = bad
  BY <1>1, <1>8 DEF LoginShape, Has
<1>10. login' = [login EXCEPT ![l] = p]
  BY <1>1, <1>6, <1>8
<1>11. Kept' = Kept
  BY <1>2 DEF Kept, EntryKeys
<1>12. KeptShapes'
  BY <1>2, <1>7 DEF KeptShapes, EntryShape, PairShape, RingShape, Has
<1>13. ASSUME ~crossed' PROVE StoresFit' /\ Harmless({l}) /\ Fits(l, p)'
  <2>1. Sound
    BY <1>2, <1>13, Uncrossed
  <2>2. StoresFit'
    BY <1>2, <1>5, <1>7, <1>11, <2>1 DEF Sound, StoresFit, AllUnderKept, CollKept, Opening, EntryKeys, Gone
  <2>3. Harmless({l})
    BY <1>2, <1>5, <1>7, <1>11 DEF Harmless
  <2>4. SignsIn(l, p)' /\ Acts(l, p)'
    BY <1>9 DEF SignsIn, Acts
  <2>5. ~bad => /\ ~Locked(ring, file.pair) /\ file.record \in {Target(ring), Gone}
                /\ discarded \/ to \in {Gone, IF ring.on THEN file.pair.id ELSE 0}
    <3> SUFFICES ASSUME ~bad PROVE /\ ~Locked(ring, file.pair) /\ file.record \in {Target(ring), Gone}
                                   /\ discarded \/ to \in {Gone, IF ring.on THEN file.pair.id ELSE 0}
      OBVIOUS
    <3>1. ~q.failed /\ (CollOpens(ring) \/ ring.on)
      BY <1>4
    <3>2. ~Locked(ring, file.pair) /\ file.record \in {Target(ring), Gone}
      BY <1>1, <1>2, <2>1, <3>1 DEF MovesKept
    <3>3. ASSUME ~CollOpens(ring), CollKept PROVE FALSE
      <4>1. ring.on /\ (file.pair.id = 0 \/ file.pair.under \in AtHand(ring))
        BY <3>1, <3>2, <3>3 DEF Locked
      <4>2. file.pair.under \in AtHand(ring)
        BY <2>1, <4>1 DEF Sound, StoresFit, AllUnderKept, AtHand
      <4> QED BY <1>2, <2>1, <3>3, <4>2, CollOpensWithPair DEF Sound, StoresFit
    <3> QED BY <1>5, <2>1, <3>2, <3>3 DEF Sound, StoresFit
  <2>6. MovesKept(p)'
    BY <1>1, <1>2, <1>7, <1>9, <2>1, <2>5 DEF MovesKept, Target, AtHand, Locked, Gone
  <2> QED BY <2>2, <2>3, <2>4, <2>6 DEF Fits
<1> QED BY <1>2, <1>9, <1>10, <1>12, <1>13, WorkerMoves

LEMMA SettledKeeps ==
    ASSUME KeysInv, NEW l \in Logins, Settled(l)
    PROVE  KeysInv'
<1>1. PICK q : q = login[l] /\ LoginShape(q) /\ (Sound => MovesKept(q))
  BY DEF KeysInv, LoginShapes, Sound, Fits
<1>2. q.at = "settled" /\ UNCHANGED <<entry, discarded>> /\ Cross /\ KeptShapes
  BY <1>1 DEF Settled, Leaves, KeysInv
<1>3. PICK p : login' = [login EXCEPT ![l] = p] /\ LoginShape(p) /\ p.at = "in"
  BY <1>1, EndsFits DEF Settled
<1>4. Fits(l, p)'
  BY <1>3, IdleFits
<1>5. CASE q.failed
  <2>1. UNCHANGED <<entry, file, ring, discarded>>
    BY <1>1, <1>2, <1>5 DEF Settled
  <2> QED BY <1>2, <1>3, <1>4, <2>1, OnlyMoves
<1>6. CASE ~q.failed
  <2>1. Get = ring
    BY <1>1, <1>2, InHolds
  <2>2. /\ ring' = [ring EXCEPT !.old = {}] /\ file' = [file EXCEPT !.pair.retired = {}]
    BY <1>1, <1>6, <2>1 DEF Settled
  <2>3. RingShape(ring') /\ ring'.own = ring.own /\ ring'.on = ring.on /\ ring'.old = {}
    BY <1>2, <2>2 DEF KeptShapes, RingShape, Has
  <2>4. PICK s : s = [file.pair EXCEPT !.retired = {}]
    OBVIOUS
  <2>5. PairShape(s) /\ s.id = file.pair.id /\ s.under = file.pair.under /\ s.retired = {}
    BY <1>2, <2>4, FS_EmptySet DEF KeptShapes, PairShape, Has
  <2>6. Has(file', {"pair", "record", "coll"}) /\ file'.pair = s /\ file'.record = file.record /\ file'.coll = file.coll
    BY <1>2, <2>2, <2>4 DEF KeptShapes, Has
  <2>7. Kept' = Kept
    BY <1>2 DEF Kept, EntryKeys
  <2>8. KeptShapes'
    BY <1>2, <2>3, <2>5, <2>6 DEF KeptShapes, EntryShape, PairShape, RingShape, Has
  <2>9. ASSUME ~crossed' PROVE StoresFit' /\ Harmless({l})
    <3>1. Sound /\ MovesKept(q)
      BY <1>1, <1>2, <2>9, Uncrossed
    <3>2. AllUnderKept'
      BY <2>3, <2>5, <2>6, <2>7, <3>1 DEF Sound, StoresFit, AllUnderKept, Gone
    <3>3. (discarded \/ CollKept)'
      BY <1>2, <1>6, <2>5, <2>6, <3>1 DEF MovesKept, CollKept, Gone
    <3>4. Opening(entry)'
      BY <1>2, <3>1 DEF Sound, StoresFit, Opening, EntryKeys
    <3>5. ~Locked(ring, file.pair)
      BY <1>2, <1>6, <3>1 DEF MovesKept
    <3>6. ASSUME file.pair.under \in AtHand(ring) PROVE file.pair.under = Target(ring)
      BY <1>2, <1>6, <3>1, <3>5, <3>6 DEF MovesKept, Locked, Nil
    <3>7. Target(ring) \in AtHand(ring')
      BY <2>3 DEF Target, AtHand
    <3>8. \/ file'.pair.under \in AtHand(ring')
          \/ file'.pair.under = file.pair.under /\ file.pair.under \notin AtHand(ring)
      BY <2>5, <2>6, <3>6, <3>7
    <3>9. Harmless({l})
      BY <1>2, <2>3, <2>6, <2>7, <3>8 DEF Harmless
    <3> QED BY <3>2, <3>3, <3>4, <3>9 DEF StoresFit
  <2> QED BY <1>2, <1>3, <1>4, <2>8, <2>9, WorkerMoves
<1> QED BY <1>1, <1>5, <1>6 DEF LoginShape

LEMMA RecoverRetiredKeeps ==
    ASSUME KeysInv, NEW l \in Logins, RecoverRetired(l)
    PROVE  KeysInv'
<1> USE DEF Nil
<1>1. login[l].at = "in" /\ UNCHANGED <<entry, file, discarded>> /\ Cross /\ KeptShapes
  BY DEF RecoverRetired, MayAct, Leaves, KeysInv
<1>2. Get = ring
  BY <1>1, InHolds
<1>3. PICK x \in entry.retired : ring' = [ring EXCEPT !.old = @ \cup {x.id}]
  BY <1>2 DEF RecoverRetired
<1>4. RingShape(ring') /\ ring'.own = ring.own /\ ring'.old = ring.old \cup {x.id}
  BY <1>1, <1>3 DEF KeptShapes, RingShape, Has
<1>5. ring.own # 0 /\ ring.own = entry.id /\ Starts(l, "turn", "recover", 0, entry)
  BY <1>2 DEF RecoverRetired
<1>6. PICK p : /\ login' = [login EXCEPT ![l] = p] /\ LoginShape(p)
               /\ p.at = "turn" /\ p.op = "recover" /\ p.own = 0 /\ p.k = entry
  BY <1>1, <1>5, StartsFits DEF KeptShapes
<1>7. Kept' = Kept /\ 0 \in Kept
  BY <1>1 DEF Kept, EntryKeys
<1>8. KeptShapes'
  BY <1>1, <1>4 DEF KeptShapes, EntryShape, PairShape, RingShape, Has
<1>9. AtHand(ring) \subseteq AtHand(ring')
  BY <1>4 DEF AtHand
<1>10. ASSUME ~crossed' PROVE StoresFit' /\ Harmless({l}) /\ Fits(l, p)'
  <2>1. Sound
    BY <1>1, <1>10, Uncrossed
  <2>2. StoresFit'
    BY <1>1, <1>4, <1>7, <2>1 DEF Sound, StoresFit, AllUnderKept, CollKept, Opening, EntryKeys, Gone
  <2>3. Harmless({l})
    BY <1>1, <1>4, <1>7, <1>9 DEF Harmless
  <2>4. SignsIn(l, p)' /\ MovesKept(p)'
    BY <1>6 DEF SignsIn, MovesKept
  <2>5. ring.own \in AtHand(ring')
    BY <1>9 DEF AtHand
  <2>6. Acts(l, p)'
    BY <1>1, <1>4, <1>5, <1>6, <1>7, <2>5 DEF Acts, SameIds
  <2> QED BY <2>2, <2>3, <2>4, <2>6 DEF Fits
<1> QED BY <1>1, <1>6, <1>8, <1>10, WorkerMoves

LEMMA StartOverKeeps ==
    ASSUME KeysInv, NEW l \in Logins, StartOver(l)
    PROVE  KeysInv'
<1> USE DEF Nil, Instance
<1>1. login[l].at = "in" /\ UNCHANGED <<entry, ring, discarded>> /\ Cross /\ KeptShapes
  BY DEF StartOver, MayAct, Leaves, KeysInv
<1>2. Get = ring
  BY <1>1, InHolds
<1>3. PICK rec : rec = IF RecordOpens(ring) THEN file.record ELSE Gone
  OBVIOUS
<1>4. PICK to : to = IF CollOpens(ring) THEN file.coll ELSE Gone
  OBVIOUS
<1>5. file' = [file EXCEPT !.record = rec, !.coll = to]
  BY <1>2, <1>3, <1>4 DEF StartOver
<1>6. Has(file', {"pair", "record", "coll"}) /\ file'.pair = file.pair /\ file'.record = rec /\ file'.coll = to
  BY <1>1, <1>5 DEF KeptShapes, Has
<1>7. PICK p : /\ login' = [login EXCEPT ![l] = p] /\ LoginShape(p) /\ p.op = "startover" /\ p.own # 0
               /\ \/ p.at = "turn" /\ p.own = ring.own /\ p.k = entry
                  \/ /\ p.at = "put" /\ EntryKeys(entry) \subseteq EntryKeys(p.k)
                     /\ p.own \in {0} \cup EntryKeys(p.k) /\ Opening(p.k)
  <2>1. CASE ring.own # 0 /\ Starts(l, "turn", "startover", ring.own, entry)
    BY <1>1, <2>1, StartsFits DEF KeptShapes
  <2>2. CASE \E own \in FreshKeys : Starts(l, "put", "startover", own, Renewed(entry, own, login[l].pw))
    <3>1. PICK own \in FreshKeys : Starts(l, "put", "startover", own, Renewed(entry, own, login[l].pw))
      BY <2>2
    <3>2. PICK k : k = Renewed(entry, own, login[l].pw)
      OBVIOUS
    <3>3. EntryShape(k) /\ EntryKeys(entry) \subseteq EntryKeys(k) /\ own \in {0} \cup EntryKeys(k) /\ Opening(k)
      BY <1>1, <3>2, RenewedKeeps DEF KeptShapes
    <3>4. Starts(l, "put", "startover", own, k)
      BY <3>1, <3>2
    <3> QED BY <3>3, <3>4, StartsFits, KeyIsMade
  <2> QED BY <1>2, <2>1, <2>2 DEF StartOver
<1>8. Kept' = Kept /\ EntryKeys(entry)' = EntryKeys(entry)
  BY <1>1 DEF Kept, EntryKeys
<1>9. KeptShapes'
  BY <1>1, <1>6 DEF KeptShapes, EntryShape, PairShape, RingShape, Has
<1>10. ASSUME ~crossed' PROVE StoresFit' /\ Harmless({l}) /\ Fits(l, p)'
  <2>1. Sound
    BY <1>1, <1>10, Uncrossed
  <2>2. StoresFit'
    BY <1>1, <1>3, <1>4, <1>6, <1>8, <2>1 DEF Sound, StoresFit, AllUnderKept, CollKept, Opening, EntryKeys, Gone
  <2>3. Harmless({l})
    BY <1>1, <1>3, <1>4, <1>6, <1>8 DEF Harmless
  <2>4. SignsIn(l, p)' /\ MovesKept(p)'
    BY <1>7 DEF SignsIn, MovesKept
  <2>5. ring.own \in Kept
    BY <2>1 DEF Sound, StoresFit, AllUnderKept
  <2>6. Acts(l, p)'
    BY <1>1, <1>7, <1>8, <2>5 DEF Acts, EntryKeys, SameIds, Opening
  <2> QED BY <2>2, <2>3, <2>4, <2>6 DEF Fits
<1> QED BY <1>1, <1>7, <1>9, <1>10, WorkerMoves

LEMMA PutKeyKeeps ==
    ASSUME KeysInv, NEW l \in Logins, PutKey(l)
    PROVE  KeysInv'
<1>1. PICK q : q = login[l] /\ LoginShape(q) /\ (Sound => Acts(l, q))
  BY DEF KeysInv, LoginShapes, Sound, Fits
<1>2. q.at = "put" /\ entry' = q.k /\ UNCHANGED <<file, ring, discarded>> /\ Cross /\ KeptShapes
  BY <1>1 DEF PutKey, Leaves, KeysInv
<1>3. KeptShapes'
  BY <1>1, <1>2 DEF KeptShapes, LoginShape, EntryShape, PairShape, RingShape, Has
<1>4. ASSUME ~crossed', login'[l].at # "put"
      PROVE  /\ StoresFit' /\ Harmless({l})
             /\ Kept' = {0} \cup EntryKeys(q.k)
             /\ q.own \in {0} \cup EntryKeys(q.k) /\ (q.op = "recover" => q.k.id # 0 /\ q.own = q.k.id)
             /\ q.op = "startover" => q.own # 0
  <2>1. Sound /\ ~WritesOver
    BY <1>2, <1>4, Uncrossed
  <2>2. /\ q.own \in {0} \cup EntryKeys(q.k) /\ Opening(q.k)
        /\ q.op = "recover" => q.k.id # 0 /\ q.own = q.k.id
        /\ q.op = "startover" => q.own # 0
        /\ l \notin stale => EntryKeys(entry) \subseteq EntryKeys(q.k)
    BY <1>1, <1>2, <2>1 DEF Acts
  <2>3. entry' = entry \/ l \notin stale
    BY <1>1, <1>2, <1>4, <2>1 DEF WritesOver, Unmoved
  <2>4. EntryKeys(entry) \subseteq EntryKeys(q.k)
    BY <1>2, <2>2, <2>3
  <2>5. Kept' = {0} \cup EntryKeys(q.k) /\ Kept \subseteq Kept'
    BY <1>2, <2>4 DEF Kept, EntryKeys
  <2>6. Opening(entry)'
    BY <1>2, <2>2 DEF Opening, EntryKeys
  <2>7. StoresFit'
    BY <1>2, <2>1, <2>5, <2>6 DEF Sound, StoresFit, AllUnderKept, CollKept, Gone
  <2>8. Harmless({l})
    BY <1>2, <2>5 DEF Harmless
  <2> QED BY <2>2, <2>5, <2>7, <2>8
<1>5. CASE q.op = "password"
  <2>1. PICK p : login' = [login EXCEPT ![l] = p] /\ LoginShape(p) /\ p.at = "in"
    BY <1>1, <1>5, EndsFits DEF PutKey
  <2>2. Fits(l, p)'
    BY <2>1, IdleFits
  <2>3. login'[l] = p
    BY <2>1 DEF KeysInv, LoginShapes
  <2> QED BY <1>2, <1>3, <1>4, <2>1, <2>2, <2>3, WorkerMoves
<1>6. CASE q.op # "password"
  <2>1. PICK p : p = [q EXCEPT !.at = "turn"]
    OBVIOUS
  <2>2. LoginShape(p) /\ p.at = "turn" /\ p.op = q.op /\ p.own = q.own /\ p.k = q.k
    BY <1>1, <2>1 DEF LoginShape, Has
  <2>3. login' = [login EXCEPT ![l] = p]
    BY <1>1, <1>6, <2>1 DEF PutKey, GoesTo
  <2>4. login'[l] = p
    BY <2>3 DEF KeysInv, LoginShapes
  <2>5. ASSUME ~crossed' PROVE Fits(l, p)'
    <3>1. SignsIn(l, p)' /\ MovesKept(p)'
      BY <2>2 DEF SignsIn, MovesKept
    <3>2. /\ Kept' = {0} \cup EntryKeys(q.k)
          /\ q.own \in {0} \cup EntryKeys(q.k) /\ (q.op = "recover" => q.k.id # 0 /\ q.own = q.k.id)
          /\ q.op = "startover" => q.own # 0
      BY <1>4, <2>2, <2>4, <2>5
    <3>3. Acts(l, p)'
      BY <1>2, <2>2, <3>2 DEF Acts, SameIds
    <3> QED BY <3>1, <3>3 DEF Fits
  <2> QED BY <1>2, <1>3, <1>4, <2>2, <2>3, <2>4, <2>5, WorkerMoves
<1> QED BY <1>5, <1>6

LEMMA ReplaceKeeps ==
    ASSUME KeysInv, NEW l \in Logins, Replace(l)
    PROVE  KeysInv'
<1>1. PICK q : q = login[l] /\ LoginShape(q) /\ (Sound => Acts(l, q))
  BY DEF KeysInv, LoginShapes, Sound, Fits
<1>2. /\ q.at = "turn" /\ q.op = "startover" /\ UNCHANGED entry /\ Cross /\ Moves(l, FALSE) /\ KeptShapes
      /\ discarded' = (discarded \/ file.coll \notin {0, Gone})
  BY <1>1 DEF Replace, Leaves, KeysInv, Instance
<1>3. PICK i \in Nat \ {0} : i = FreshPair
  BY <1>2, FreshPairIsNew
<1>4. PICK s : s = [id |-> i, under |-> q.own, retired |-> {}]
  OBVIOUS
<1>5. PairShape(s) /\ s.id # 0 /\ s.under = q.own /\ s.retired = {}
  BY <1>4, FS_EmptySet DEF PairShape, Has
<1>6. file' = [file EXCEPT !.pair = s] /\ ring' = [ring EXCEPT !.own = q.own, !.old = {}, !.on = TRUE]
  BY <1>1, <1>3, <1>4 DEF Replace
<1>7. Has(file', {"pair", "record", "coll"}) /\ file'.pair = s /\ file'.record = file.record /\ file'.coll = file.coll
  BY <1>2, <1>6 DEF KeptShapes, Has
<1>8. RingShape(ring') /\ ring'.own = q.own /\ ring'.on
  BY <1>2, <1>6 DEF KeptShapes, RingShape, Has
<1>9. Kept' = Kept
  BY <1>2 DEF Kept, EntryKeys
<1>10. KeptShapes'
  BY <1>2, <1>5, <1>7, <1>8 DEF KeptShapes, EntryShape, PairShape, RingShape, Has
<1>11. PICK p : login' = [login EXCEPT ![l] = p] /\ LoginShape(p) /\ p.at \in {"in", "record"}
  BY <1>1, <1>2, MovesFits
<1>12. ASSUME ~crossed' PROVE StoresFit' /\ Harmless({l}) /\ Fits(l, p)'
  <2>1. Sound
    BY <1>2, <1>12, Uncrossed
  <2>2. q.own \in Kept /\ q.own # 0
    BY <1>1, <1>2, <2>1 DEF Acts
  <2>3. StoresFit'
    BY <1>2, <1>5, <1>7, <1>8, <1>9, <2>1, <2>2
       DEF Sound, StoresFit, AllUnderKept, CollKept, Opening, EntryKeys, Gone
  <2>4. Harmless({l})
    BY <1>2, <1>5, <1>7, <1>8, <1>9, <2>2 DEF Harmless, AtHand
  <2>5. SignsIn(l, p)' /\ Acts(l, p)'
    BY <1>11 DEF SignsIn, Acts
  <2>6. MovesKept(p)'
    BY <1>5, <1>7, <1>8, <1>11 DEF MovesKept, Target
  <2> QED BY <2>3, <2>4, <2>5, <2>6 DEF Fits
<1> QED BY <1>2, <1>10, <1>11, <1>12, WorkerMoves

LEMMA WriteRecordKeeps ==
    ASSUME KeysInv, NEW l \in Logins, WriteRecord(l)
    PROVE  KeysInv'
<1>1. login[l].at = "in" /\ UNCHANGED <<entry, ring, login, discarded>> /\ Cross /\ KeptShapes
  BY DEF WriteRecord, Leaves, KeysInv
<1>2. Get = ring
  BY <1>1, InHolds
<1>3. PICK t : t = Target(ring)
  OBVIOUS
<1>4. file' = [file EXCEPT !.record = t]
  BY <1>2, <1>3 DEF WriteRecord
<1>5. Has(file', {"pair", "record", "coll"}) /\ file'.pair = file.pair /\ file'.record = t /\ file'.coll = file.coll
  BY <1>1, <1>4 DEF KeptShapes, Has
<1>6. Kept' = Kept
  BY <1>1 DEF Kept, EntryKeys
<1>7. KeptShapes'
  BY <1>1, <1>5 DEF KeptShapes, EntryShape, PairShape, RingShape, Has
<1>8. PICK p : p = login[l] /\ LoginShape(p) /\ p.at = "in"
  BY <1>1 DEF KeysInv, LoginShapes
<1>9. login' = [login EXCEPT ![l] = p] /\ Fits(l, p)'
  <2>1. login' = [login EXCEPT ![l] = p]
    BY <1>1, <1>8 DEF KeysInv, LoginShapes
  <2> QED BY <1>8, <2>1, IdleFits
<1>10. ASSUME ~crossed' PROVE StoresFit' /\ Harmless({l})
  <2>1. Sound /\ t \in Kept
    BY <1>1, <1>3, <1>10, Uncrossed, TargetIsKept DEF Sound
  <2>2. StoresFit'
    BY <1>1, <1>5, <1>6, <2>1 DEF Sound, StoresFit, AllUnderKept, CollKept, Opening, EntryKeys, Gone
  <2>3. Harmless({l})
    BY <1>1, <1>3, <1>5, <1>6 DEF Harmless
  <2> QED BY <2>2, <2>3
<1> QED BY <1>1, <1>7, <1>8, <1>9, <1>10, WorkerMoves

\* Logins end and the ring forgets, which a login that holds the account does
\* not notice.
LEMMA RingMoves ==
    ASSUME KeysInv, Cross, UNCHANGED <<entry, file, discarded>>,
           RingShape(ring'), ring'.own \in {0, ring.own},
           LoginShapes',
           \A m \in Logins : login'[m] = login[m] \/ login'[m] = Out,
           \A m \in Logins : HoldsAccount(m) /\ login'[m] = login[m] =>
               ring'.own = ring.own /\ AtHand(ring') = AtHand(ring)
    PROVE  KeysInv'
<1>1. Kept' = Kept /\ 0 \in Kept
  BY DEF Kept, EntryKeys
<1>2. KeptShapes'
  BY DEF KeysInv, KeptShapes, EntryShape, PairShape, RingShape, Has
<1>3. ASSUME ~crossed' PROVE Sound'
  <2>1. Sound /\ ~WritesOver /\ ~TurnsUnder
    BY <1>3, Uncrossed
  <2>2. StoresFit'
    BY <1>1, <2>1 DEF Sound, StoresFit, AllUnderKept, CollKept, Opening, EntryKeys, Gone
  <2>3. PICK W : W = {m \in Logins : login'[m] # login[m]}
    OBVIOUS
  <2>4. Harmless(W)
    <3>1. ASSUME NEW m \in Logins \ W, HoldsAccount(m) PROVE ring'.own = ring.own /\ AtHand(ring') = AtHand(ring)
      BY <2>3, <3>1
    <3> QED BY <1>1, <3>1 DEF Harmless
  <2>5. ASSUME NEW m \in Logins PROVE Fits(m, login[m])'
    <3>1. CASE m \in W
      <4>1. PICK o : o = login'[m] /\ o = Out
        BY <2>3, <3>1
      <4>2. Fits(m, o)'
        BY <4>1, OutShape, IdleFits
      <4> QED BY <4>1, <4>2
    <3>2. CASE m \notin W
      <4>1. m \in Logins \ W /\ login'[m] = login[m]
        BY <2>3, <3>2
      <4> QED BY <2>1, <2>4, <4>1, OthersStand
    <3> QED BY <3>1, <3>2
  <2> QED BY <2>2, <2>5 DEF Sound
<1> QED BY <1>2, <1>3 DEF KeysInv

LEMMA LoginOut ==
    ASSUME KeysInv, NEW l \in Logins, login' = [login EXCEPT ![l] = Out]
    PROVE  LoginShapes' /\ login'[l] = Out /\ \A m \in Logins \ {l} : login'[m] = login[m]
<1>1. login'[l] = Out /\ \A m \in Logins \ {l} : login'[m] = login[m]
  BY DEF KeysInv, LoginShapes
<1>2. login' = [m \in Logins |-> login'[m]]
  BY DEF KeysInv, LoginShapes
<1>3. \A m \in Logins : LoginShape(login'[m])
  BY <1>1, OutShape DEF KeysInv, LoginShapes
<1> QED BY <1>1, <1>2, <1>3 DEF LoginShapes, LoginShape, EntryShape, Has

LEMMA CloseKeeps ==
    ASSUME KeysInv, NEW l \in Logins, Close(l)
    PROVE  KeysInv'
<1>1. /\ login' = [login EXCEPT ![l] = Out] /\ UNCHANGED <<entry, file, discarded>> /\ Cross
      /\ ring' = Expire(ring, ring.leased \/ \E m \in Logins \ {l} : HoldsAccount(m))
      /\ login[l].at = "in"
  BY DEF Close, Leaves
<1>2. LoginShapes' /\ login'[l] = Out /\ \A m \in Logins \ {l} : login'[m] = login[m]
  BY <1>1, LoginOut
<1>3. RingShape(ring') /\ ring'.own \in {0, ring.own}
  BY <1>1 DEF KeysInv, KeptShapes, RingShape, Has, Expire, Nil
<1>4. (\E m \in Logins \ {l} : HoldsAccount(m)) => ring' = ring
  BY <1>1 DEF Expire
<1>5. login'[l] # login[l]
  BY <1>1, <1>2, OutShape
<1> QED BY <1>1, <1>2, <1>3, <1>4, <1>5, RingMoves

LEMMA LeaseKeeps ==
    ASSUME KeysInv, NEW l \in Logins, Lease(l)
    PROVE  KeysInv'
<1>1. /\ login' = [login EXCEPT ![l] = Out] /\ UNCHANGED <<entry, file, discarded>> /\ Cross
      /\ ring' = [ring EXCEPT !.leased = TRUE]
  BY DEF Lease, Leaves
<1>2. LoginShapes' /\ login'[l] = Out /\ \A m \in Logins \ {l} : login'[m] = login[m]
  BY <1>1, LoginOut
<1>3. RingShape(ring') /\ ring'.own = ring.own /\ ring'.old = ring.old
  BY <1>1 DEF KeysInv, KeptShapes, RingShape, Has
<1>4. AtHand(ring') = AtHand(ring)
  BY <1>3 DEF AtHand
<1> QED BY <1>1, <1>2, <1>3, <1>4, RingMoves

LEMMA LeaseEndsKeeps ==
    ASSUME KeysInv, LeaseEnds
    PROVE  KeysInv'
<1>1. PICK r : r = [ring EXCEPT !.leased = FALSE]
  OBVIOUS
<1>2. RingShape(r) /\ r.own = ring.own /\ r.old = ring.old
  BY <1>1 DEF KeysInv, KeptShapes, RingShape, Has
<1>3. ring' = Expire(r, \E l \in Logins : HoldsAccount(l)) /\ UNCHANGED <<entry, file, login, discarded>> /\ Cross
  BY <1>1 DEF LeaseEnds, Leaves
<1>4. RingShape(ring') /\ ring'.own \in {0, ring.own}
  BY <1>2, <1>3 DEF RingShape, Has, Expire, Nil
<1>5. (\E m \in Logins : HoldsAccount(m)) => ring'.own = ring.own /\ AtHand(ring') = AtHand(ring)
  BY <1>2, <1>3 DEF Expire, AtHand
<1>6. LoginShapes'
  BY <1>3 DEF KeysInv, LoginShapes, LoginShape, EntryShape, Has
<1> QED BY <1>3, <1>4, <1>5, <1>6, RingMoves

LEMMA StopKeeps ==
    ASSUME KeysInv, Stop
    PROVE  KeysInv'
<1>1. PICK on \in BOOLEAN : ring' = [EmptyRing EXCEPT !.on = on]
  BY DEF Stop
<1>2. RingShape(ring') /\ ring'.own = 0
  BY <1>1 DEF EmptyRing, RingShape, Has, Nil
<1>3. login' = [l \in Logins |-> Out] /\ UNCHANGED <<entry, file, discarded>> /\ Cross
  BY DEF Stop, Leaves
<1>4. LoginShapes' /\ \A m \in Logins : login'[m] = Out
  <2>1. \A m \in Logins : login'[m] = Out /\ LoginShape(login'[m])
    BY <1>3, OutShape
  <2>2. login' = [m \in Logins |-> login'[m]]
    BY <1>3
  <2> QED BY <2>1, <2>2 DEF LoginShapes, LoginShape, EntryShape, Has
<1>5. ASSUME NEW m \in Logins, HoldsAccount(m) PROVE login'[m] # login[m]
  BY <1>4, <1>5, OutShape DEF HoldsAccount
<1> QED BY <1>2, <1>3, <1>4, <1>5, RingMoves

LEMMA KeysStay ==
    ASSUME KeysInv, Cross, UNCHANGED <<entry, file, ring, login, discarded>>
    PROVE  KeysInv'
<1>1. LoginShapes'
  BY DEF KeysInv, LoginShapes, LoginShape, EntryShape, Has
<1>2. RingShape(ring') /\ ring'.own = ring.own /\ AtHand(ring') = AtHand(ring)
  BY DEF KeysInv, KeptShapes, RingShape, Has, AtHand
<1> QED BY <1>1, <1>2, RingMoves

LEMMA ElsewhereKeeps ==
    ASSUME KeysInv, Elsewhere
    PROVE  KeysInv'
<1>1. UNCHANGED <<file, ring, login, discarded>> /\ Cross /\ EntryShape(entry)
  BY DEF Elsewhere, Leaves, KeysInv, KeptShapes
<1>2. PICK e : e = entry'
  OBVIOUS
<1>3. EntryShape(e) /\ EntryKeys(entry) \subseteq EntryKeys(e) /\ (Opening(entry) => Opening(e))
  <2>1. ASSUME NEW own, e = Renewed(entry, own, password)
        PROVE  EntryShape(e) /\ EntryKeys(entry) \subseteq EntryKeys(e) /\ Opening(e)
    BY <1>1, <2>1, RenewedKeeps
  <2>2. CASE e = [entry EXCEPT !.off = TRUE]
    <3>1. EntryShape(e) /\ SameIds(e, entry) /\ e.opens = entry.opens
      BY <1>1, <2>2, OffKeeps
    <3> QED BY <3>1, SameIdsSameKeys DEF Opening
  <2>3. ASSUME NEW own \in EntryKeys(entry), e = Under(entry, own, password)
        PROVE  EntryShape(e) /\ EntryKeys(entry) \subseteq EntryKeys(e) /\ Opening(e)
    <3>1. EntryShape(e) /\ SameIds(e, entry) /\ e.opens = own
      BY <1>1, <2>3, UnderKeeps
    <3> QED BY <3>1, SameIdsSameKeys DEF Opening
  <2> QED BY <1>2, <2>1, <2>2, <2>3 DEF Elsewhere
<1>4. Kept \subseteq Kept'
  BY <1>2, <1>3 DEF Kept, EntryKeys
<1>5. KeptShapes'
  BY <1>1, <1>2, <1>3 DEF KeysInv, KeptShapes, EntryShape, PairShape, RingShape, Has
<1>6. LoginShapes'
  BY <1>1 DEF KeysInv, LoginShapes, LoginShape, EntryShape, Has
<1>7. ASSUME ~crossed' PROVE Sound'
  <2>1. Sound /\ ~WritesOver /\ ~TurnsUnder
    BY <1>1, <1>7, Uncrossed
  <2>2. Opening(entry)'
    BY <1>2, <1>3, <2>1 DEF Sound, StoresFit, Opening, EntryKeys
  <2>3. StoresFit'
    BY <1>1, <1>4, <2>1, <2>2 DEF Sound, StoresFit, AllUnderKept, CollKept, Gone
  <2>4. PICK W : W = {}
    OBVIOUS
  <2>5. Harmless(W)
    BY <1>1, <1>4 DEF Harmless, AtHand
  <2>6. ASSUME NEW m \in Logins PROVE Fits(m, login[m])'
    <3>1. m \in Logins \ W /\ login'[m] = login[m]
      BY <1>1, <2>4
    <3> QED BY <1>1, <2>1, <2>5, <3>1, OthersStand
  <2> QED BY <2>3, <2>6 DEF Sound
<1> QED BY <1>5, <1>6, <1>7 DEF KeysInv

LEMMA KeysInitial == KeysInit => KeysInv
<1> SUFFICES ASSUME KeysInit PROVE KeysInv
  OBVIOUS
<1>1. LoginShapes /\ \A m \in Logins : login[m].at = "out"
  <2>1. \A m \in Logins : login[m] = Out
    BY DEF KeysInit
  <2>2. login = [m \in Logins |-> login[m]]
    BY DEF KeysInit
  <2> QED BY <2>1, <2>2, OutShape DEF LoginShapes
<1>2. PICK s : s = NoPair
  OBVIOUS
<1>3. PairShape(s) /\ s.id = 0 /\ s.under = 0 /\ s.retired = {}
  BY <1>2, FS_EmptySet DEF NoPair, PairShape, Has, Nil, Instance
<1>4. Has(file, {"pair", "record", "coll"}) /\ file.pair = s /\ file.record = 0 /\ file.coll = 0
  BY <1>2 DEF KeysInit, Has, Instance
<1>5. RingShape(ring) /\ ring.own = 0
  BY DEF KeysInit, EmptyRing, RingShape, Has, Nil
<1>6. KeptShapes
  BY <1>3, <1>4, <1>5, NoEntryShape DEF KeysInit, KeptShapes
<1>7. AllUnderKept /\ CollKept
  BY <1>3, <1>4, <1>5 DEF AllUnderKept, CollKept, Kept
<1>8. Opening(entry)
  BY DEF KeysInit, NoEntry, Opening, Nil
<1>9. \A m \in Logins : Fits(m, login[m])
  BY <1>1 DEF Fits, SignsIn, Acts, MovesKept
<1> QED BY <1>1, <1>6, <1>7, <1>8, <1>9 DEF KeysInv, Sound, StoresFit

\* Every step keeps the invariant.
LEMMA KeysKept == KeysInv /\ [KeysNext]_kvars => KeysInv'
<1> SUFFICES ASSUME KeysInv, [KeysNext]_kvars PROVE KeysInv'
  OBVIOUS
<1>1. ASSUME NEW l \in Logins,
             \/ SignIn(l) \/ ReadKey(l) \/ Rewrap(l) \/ Retire(l) \/ Hold(l)
             \/ ResealRecord(l) \/ ResealColl(l) \/ Settled(l)
      PROVE  KeysInv'
  BY <1>1, SignInKeeps, ReadKeyKeeps, RewrapKeeps, RetireKeeps, HoldKeeps, ResealRecordKeeps, ResealCollKeeps, SettledKeeps
<1>2. ASSUME NEW l \in Logins,
             \/ Encrypt(l) \/ Decrypt(l) \/ Recover(l) \/ RecoverRetired(l) \/ StartOver(l)
             \/ ChangePassword(l)
      PROVE  KeysInv'
  BY <1>2, EncryptKeeps, DecryptKeeps, RecoverKeeps, RecoverRetiredKeeps, StartOverKeeps, ChangePasswordKeeps
<1>3. ASSUME NEW l \in Logins,
             \/ PutKey(l) \/ PutRefused(l) \/ TurnKey(l) \/ Replace(l)
             \/ WriteRecord(l) \/ Close(l) \/ Lease(l)
      PROVE  KeysInv'
  BY <1>3, PutKeyKeeps, PutRefusedKeeps, TurnKeyKeeps, ReplaceKeeps, WriteRecordKeeps, CloseKeeps, LeaseKeeps
<1>4. CASE ResetPassword
  BY <1>4, KeysStay DEF ResetPassword, Leaves
<1>5. CASE UNCHANGED kvars
  <2>1. UNCHANGED <<entry, file, ring, login, discarded, stale, crossed>>
    BY <1>5 DEF kvars
  <2>2. KeptShapes' /\ LoginShapes'
    BY <2>1 DEF KeysInv, KeptShapes, LoginShapes, LoginShape, EntryShape, PairShape, RingShape, Has
  <2>3. Sound => Sound'
    <3>1. Kept' = Kept
      BY <2>1 DEF Kept, EntryKeys
    <3>2. StoresFit => StoresFit'
      BY <2>1, <3>1 DEF StoresFit, AllUnderKept, CollKept, Opening, EntryKeys, Gone
    <3>3. ASSUME NEW m \in Logins, Fits(m, login[m]) PROVE Fits(m, login[m])'
      <4>1. PICK q : q = login[m] /\ q = login'[m] /\ Fits(m, q)
        BY <2>1, <3>3
      <4>2. SignsIn(m, q)'
        BY <2>1, <3>1, <4>1 DEF Fits, SignsIn, SameIds, OpenWith, Made
      <4>3. Acts(m, q)'
        BY <2>1, <3>1, <4>1 DEF Fits, Acts, SameIds, EntryKeys, Opening, AtHand
      <4>4. MovesKept(q)'
        BY <2>1, <4>1 DEF Fits, MovesKept, Target, AtHand, Locked, Gone
      <4> QED BY <4>1, <4>2, <4>3, <4>4 DEF Fits
    <3> QED BY <3>2, <3>3 DEF Sound
  <2> QED BY <2>1, <2>2, <2>3 DEF KeysInv
<1> QED BY <1>1, <1>2, <1>3, <1>4, <1>5, LeaseEndsKeeps, StopKeeps, ElsewhereKeeps DEF KeysNext

\* Until logins or two alborz cross, some key of the entry leads to everything
\* kept, however many logins are at work, whatever keys and passwords there have
\* been: the record is under one, and the collection is wrapped to a pair that
\* opens with one (keys.go's unlock, reseal and StartOver, with the ring's
\* settle and Settled).
THEOREM NoKeyIsLost == KeysSpec => []NothingLost
<1>1. KeysInv => NothingLost
  <2> SUFFICES ASSUME KeysInv, ~discarded, ~crossed PROVE NothingLost
    BY DEF NothingLost
  <2>1. KeptShapes /\ AllUnderKept /\ CollKept
    BY DEF KeysInv, Sound, StoresFit
  <2>2. PICK p : p = file.pair /\ (\A x \in p.retired : x.under = p.under) /\ p.under \in Kept
    BY <2>1 DEF AllUnderKept
  <2>3. PICK cur : cur = [id |-> p.id, under |-> p.under]
    OBVIOUS
  <2>4. cur.id = p.id /\ cur.under = p.under
    BY <2>3
  <2>5. ASSUME NEW x \in p.retired \cup {cur}, x.id # 0 PROVE x.id \in PairsOpen(p, Kept)
    <3>1. x.under \in Kept
      BY <2>2, <2>4
    <3> QED BY <2>3, <2>5, <3>1 DEF PairsOpen, Nil
  <2>6. file.coll \in {0, Gone} \cup PairsOpen(p, Kept)
    <3>1. file.coll \in {0, Gone, cur.id} \cup {x.id : x \in p.retired}
      BY <2>1, <2>2, <2>4 DEF CollKept
    <3> QED BY <2>5, <3>1
  <2>7. file.record \in Kept \cup {Gone}
    BY <2>1 DEF AllUnderKept
  <2> QED BY <2>2, <2>6, <2>7 DEF NothingLost, Kept, Instance
<1> QED BY <1>1, KeysInitial, KeysKept, PTL DEF KeysSpec

\* Until they cross, the replaced keys and pairs are let go only once everything
\* is under the key the ring gives, however many logins are at work (settle, and
\* Settled of the ring).
THEOREM KeysLetGoOnceMoved == KeysSpec => LetGoOnceMoved
<1>1. ASSUME KeysInv, NEW l \in Logins,
             login[l].at = "settled", ~login[l].failed, ~discarded, ~crossed, file.pair.under \in AtHand(ring)
      PROVE  /\ file.record \in {Target(ring), Gone}
             /\ file.pair.under = Target(ring)
             /\ file.coll \in {Gone, IF ring.on THEN file.pair.id ELSE Instance}
  <2>1. MovesKept(login[l])
    BY <1>1 DEF KeysInv, Sound, Fits
  <2>2. ~(ring.on /\ ring.own = 0)
    BY <1>1, <2>1 DEF MovesKept, Locked, Nil
  <2> QED BY <1>1, <2>1, <2>2 DEF MovesKept, Instance
<1>2. KeysInv /\ [KeysNext]_kvars =>
        [\A l \in Logins :
            login[l].at = "settled" /\ login'[l].at = "in" /\ ~login[l].failed /\ ~discarded /\ ~crossed
            /\ file.pair.under \in AtHand(ring) =>
                /\ file.record \in {Target(ring), Gone}
                /\ file.pair.under = Target(ring)
                /\ file.coll \in {Gone, IF ring.on THEN file.pair.id ELSE Instance}]_kvars
  BY <1>1
<1> QED BY <1>2, KeysInitial, KeysKept, PTL DEF KeysSpec, LetGoOnceMoved

NobodyShut == \A l \in Logins : ~TurnsOutLocked(l)

LEMMA OneMovesUnshut ==
    ASSUME LoginShapes, NEW l \in Logins, NEW p, login' = [login EXCEPT ![l] = p], p.locked => login[l].locked
    PROVE  NobodyShut
BY DEF LoginShapes, NobodyShut, TurnsOutLocked

LEMMA EndsShutsNobody ==
    ASSUME LoginShapes, NEW l \in Logins, EndsWork(l)
    PROVE  NobodyShut
<1>1. PICK q : q = login[l] /\ LoginShape(q)
  BY DEF LoginShapes
<1>2. PICK p : p = [q EXCEPT !.at = "in", !.op = "none", !.k = NoEntry, !.own = Nil]
  OBVIOUS
<1>3. p.locked = q.locked
  BY <1>1, <1>2 DEF LoginShape, Has
<1> QED BY <1>1, <1>2, <1>3, OneMovesUnshut DEF EndsWork

\* Only the ring's turn locks a login: on the way to it nothing does.
LEMMA SigningInShutsNobody ==
    ASSUME LoginShapes, NEW l \in Logins,
           \/ SignIn(l) \/ ReadKey(l) \/ Rewrap(l) \/ Retire(l)
           \/ ResealRecord(l) \/ ResealColl(l) \/ Settled(l)
    PROVE  NobodyShut
<1>1. PICK q : q = login[l] /\ LoginShape(q)
  BY DEF LoginShapes
<1>2. CASE SignIn(l)
  <2>1. PICK p : p = [Out EXCEPT !.at = "read", !.pw = password]
    OBVIOUS
  <2>2. ~p.locked
    BY <2>1 DEF Out
  <2> QED BY <1>2, <2>1, <2>2, OneMovesUnshut DEF SignIn
<1>3. ASSUME NEW at, NEW k, NEW own, login' = [login EXCEPT ![l].at = at, ![l].k = k, ![l].own = own] PROVE NobodyShut
  <2>1. PICK p : p = [q EXCEPT !.at = at, !.k = k, !.own = own]
    OBVIOUS
  <2>2. p.locked = q.locked
    BY <1>1, <2>1 DEF LoginShape, Has
  <2>3. login' = [login EXCEPT ![l] = p]
    BY <1>1, <1>3, <2>1
  <2> QED BY <1>1, <2>2, <2>3, OneMovesUnshut
<1>4. ASSUME NEW at, NEW own, login' = [login EXCEPT ![l].at = at, ![l].own = own] PROVE NobodyShut
  <2>1. PICK p : p = [q EXCEPT !.at = at, !.own = own]
    OBVIOUS
  <2>2. p.locked = q.locked
    BY <1>1, <2>1 DEF LoginShape, Has
  <2> QED BY <1>1, <1>4, <2>1, <2>2, OneMovesUnshut
<1>5. ASSUME NEW at, GoesTo(l, at) PROVE NobodyShut
  <2>1. PICK p : p = [q EXCEPT !.at = at]
    OBVIOUS
  <2>2. p.locked = q.locked
    BY <1>1, <2>1 DEF LoginShape, Has
  <2> QED BY <1>1, <1>5, <2>1, <2>2, OneMovesUnshut DEF GoesTo
<1>6. ASSUME NEW at, NEW failed, login' = [login EXCEPT ![l].at = at, ![l].failed = failed] PROVE NobodyShut
  <2>1. PICK p : p = [q EXCEPT !.at = at, !.failed = failed]
    OBVIOUS
  <2>2. p.locked = q.locked
    BY <1>1, <2>1 DEF LoginShape, Has
  <2> QED BY <1>1, <1>6, <2>1, <2>2, OneMovesUnshut
<1>7. CASE ReadKey(l)
  BY <1>3, <1>7 DEF ReadKey
<1>8. CASE Rewrap(l)
  BY <1>4, <1>5, <1>8 DEF Rewrap
<1>9. CASE Retire(l)
  BY <1>5, <1>9 DEF Retire
<1>10. CASE ResealRecord(l)
  BY <1>6, <1>10 DEF ResealRecord
<1>11. CASE ResealColl(l)
  <2>1. PICK bad : bad = (login[l].failed \/ (~CollOpens(Get) /\ ~Get.on))
    OBVIOUS
  <2>2. login' = [login EXCEPT ![l].at = "settled", ![l].failed = bad]
    BY <1>11, <2>1 DEF ResealColl
  <2> QED BY <1>6, <2>2
<1>12. CASE Settled(l)
  BY <1>12, EndsShutsNobody DEF Settled
<1> QED BY <1>2, <1>7, <1>8, <1>9, <1>10, <1>11, <1>12

LEMMA ActingShutsNobody ==
    ASSUME LoginShapes, NEW l \in Logins,
           \/ Encrypt(l) \/ Decrypt(l) \/ Recover(l) \/ RecoverRetired(l) \/ StartOver(l)
           \/ ChangePassword(l) \/ PutKey(l) \/ PutRefused(l) \/ Replace(l) \/ WriteRecord(l)
    PROVE  NobodyShut
<1>1. PICK q : q = login[l] /\ LoginShape(q)
  BY DEF LoginShapes
<1>2. ASSUME NEW at, NEW op, NEW own, NEW k, Starts(l, at, op, own, k) PROVE NobodyShut
  <2>1. PICK p : p = [q EXCEPT !.at = at, !.op = op, !.own = own, !.k = k]
    OBVIOUS
  <2>2. p.locked = q.locked
    BY <1>1, <2>1 DEF LoginShape, Has
  <2> QED BY <1>1, <1>2, <2>1, <2>2, OneMovesUnshut DEF Starts
<1>3. CASE UNCHANGED login
  BY <1>3 DEF NobodyShut, TurnsOutLocked
<1>4. ASSUME GoesTo(l, "turn") PROVE NobodyShut
  <2>1. PICK p : p = [q EXCEPT !.at = "turn"]
    OBVIOUS
  <2>2. p.locked = q.locked
    BY <1>1, <2>1 DEF LoginShape, Has
  <2> QED BY <1>1, <1>4, <2>1, <2>2, OneMovesUnshut DEF GoesTo
<1>5. CASE Replace(l)
  <2>1. Moves(l, FALSE)
    BY <1>5 DEF Replace
  <2>2. PICK p : login' = [login EXCEPT ![l] = p] /\ p.locked = FALSE
    BY <1>1, <2>1, MovesFits
  <2> QED BY <2>2, OneMovesUnshut
<1>6. CASE Encrypt(l)
  BY <1>2, <1>6 DEF Encrypt
<1>7. CASE Decrypt(l)
  BY <1>2, <1>7 DEF Decrypt
<1>8. CASE Recover(l)
  BY <1>2, <1>8 DEF Recover
<1>9. CASE RecoverRetired(l)
  BY <1>2, <1>9 DEF RecoverRetired
<1>10. CASE StartOver(l)
  BY <1>2, <1>10 DEF StartOver
<1>11. CASE ChangePassword(l)
  BY <1>2, <1>3, <1>11 DEF ChangePassword
<1>12. CASE PutKey(l)
  BY <1>4, <1>12, EndsShutsNobody DEF PutKey
<1>13. CASE PutRefused(l)
  BY <1>13, EndsShutsNobody DEF PutRefused
<1> QED BY <1>3, <1>5, <1>6, <1>7, <1>8, <1>9, <1>10, <1>11, <1>12, <1>13 DEF WriteRecord, Leaves

LEMMA EndingShutsNobody ==
    ASSUME LoginShapes,
           \/ \E l \in Logins : Close(l) \/ Lease(l)
           \/ LeaseEnds \/ Stop \/ ResetPassword \/ Elsewhere \/ UNCHANGED kvars
    PROVE  NobodyShut
<1>1. ~Out.locked
  BY DEF Out
<1>2. ASSUME NEW l \in Logins, login' = [login EXCEPT ![l] = Out] PROVE NobodyShut
  BY <1>1, <1>2, OneMovesUnshut
<1>3. CASE UNCHANGED login
  BY <1>3 DEF NobodyShut, TurnsOutLocked
<1>4. CASE login' = [l \in Logins |-> Out]
  BY <1>1, <1>4 DEF NobodyShut, TurnsOutLocked
<1> QED BY <1>2, <1>3, <1>4 DEF Close, Lease, LeaseEnds, Stop, ResetPassword, Elsewhere, Leaves, kvars

\* With the key it read in the ring, a login's turn leaves the account locked
\* only when the pair stays under a key that was replaced.
LEMMA ShutUnderReplaced ==
    ASSUME KeptShapes, StoresFit, NEW k, SameIds(k, entry), k.id # 0, NEW own \in Kept, NEW on \in BOOLEAN,
           Turn(own, on), UNCHANGED <<entry, discarded>>, Locked(ring', file'.pair),
           ring'.own # 0, file.pair.under = k.id => k.id \in AtHand(ring')
    PROVE  file.pair.under \in {x.id : x \in k.retired}
<1> USE DEF Nil, Instance
<1>1. PICK W : W = Logins
  OBVIOUS
<1>2. file'.pair = file.pair \/ file'.pair.under = Target(ring')
  BY <1>1, TurnKeeps
<1>3. file'.pair.under \notin AtHand(ring')
  BY DEF Locked
<1>4. file'.pair = file.pair /\ file.pair.under \notin {0, k.id}
  BY <1>2, <1>3 DEF AtHand, Target
<1>5. file.pair.under \in Kept
  BY DEF StoresFit, AllUnderKept
<1> QED BY <1>4, <1>5 DEF Kept, EntryKeys, SameIds

LEMMA HoldShutsForCause ==
    ASSUME KeysInv, ~crossed, NEW l \in Logins, Hold(l), NEW m \in Logins, TurnsOutLocked(m), m \notin stale
    PROVE  \/ OpenWith(login[m].k, login[m].pw) # login[m].k.id /\ ring'.own # login[m].k.id
           \/ file.pair.under \in {x.id : x \in login[m].k.retired}
<1> USE DEF Nil
<1>1. PICK q : q = login[l] /\ LoginShape(q) /\ SignsIn(l, q)
  BY DEF KeysInv, LoginShapes, Sound, Fits
<1>2. PICK on \in BOOLEAN : on = On(q.k)
  BY DEF On, Made
<1>3. PICK shut \in BOOLEAN : shut = Locked(ring', file'.pair)
  BY DEF Locked
<1>4. q.at = "hold" /\ Turn(q.own, on) /\ Moves(l, shut) /\ UNCHANGED <<entry, discarded>>
  BY <1>1, <1>2, <1>3 DEF Hold, Leaves
<1>5. m = l /\ shut
  <2>1. PICK p : login' = [login EXCEPT ![l] = p] /\ p.locked = shut
    BY <1>1, <1>4, MovesFits
  <2> QED BY <2>1 DEF KeysInv, LoginShapes, TurnsOutLocked
<1>6. SameIds(q.k, entry) /\ q.own \in Kept /\ (q.k.id # 0 /\ OpenWith(q.k, q.pw) = q.k.id => q.own = q.k.id)
  BY <1>1, <1>4, <1>5 DEF SignsIn
<1>7. KeptShapes /\ StoresFit
  BY DEF KeysInv, Sound
<1>8. ring'.on = on /\ ring'.own = (IF q.own = 0 THEN Get.own ELSE q.own)
  BY <1>4, <1>7, TurnShapes
<1>9. q.k.id # 0
  BY <1>2, <1>3, <1>5, <1>8 DEF Locked, On, Made
<1>10. CASE ring'.own = q.k.id
  <2>1. q.k.id \in AtHand(ring')
    BY <1>10 DEF AtHand
  <2> QED BY <1>1, <1>3, <1>4, <1>5, <1>6, <1>7, <1>9, <1>10, <2>1, ShutUnderReplaced
<1>11. CASE ring'.own # q.k.id
  BY <1>1, <1>5, <1>6, <1>8, <1>9, <1>11
<1> QED BY <1>10, <1>11

LEMMA RecoverShutsForCause ==
    ASSUME KeysInv, ~crossed, NEW l \in Logins, TurnKey(l), NEW m \in Logins, TurnsOutLocked(m), m \notin stale
    PROVE  file.pair.under \in {x.id : x \in login[m].k.retired}
<1> USE DEF Nil
<1>1. PICK q : q = login[l] /\ LoginShape(q) /\ Acts(l, q)
  BY DEF KeysInv, LoginShapes, Sound, Fits
<1>2. PICK on \in BOOLEAN : on = On(q.k)
  BY DEF On, Made
<1>3. PICK shut \in BOOLEAN : shut = (q.op = "recover" /\ Locked(ring', file'.pair))
  OBVIOUS
<1>4. q.at = "turn" /\ Turn(q.own, on) /\ Moves(l, shut) /\ UNCHANGED <<entry, discarded>>
  BY <1>1, <1>2, <1>3 DEF TurnKey, Leaves
<1>5. m = l /\ q.op = "recover" /\ Locked(ring', file'.pair)
  <2>1. PICK p : login' = [login EXCEPT ![l] = p] /\ p.locked = shut
    BY <1>1, <1>4, MovesFits
  <2> QED BY <1>3, <2>1 DEF KeysInv, LoginShapes, TurnsOutLocked
<1>6. /\ SameIds(q.k, entry) /\ q.k.id # 0 /\ q.own \in Kept
      /\ q.own = q.k.id \/ (ring.own # 0 /\ (file.pair.under = q.k.id => q.k.id \in AtHand(ring)))
  BY <1>1, <1>4, <1>5 DEF Acts
<1>7. KeptShapes /\ StoresFit
  BY DEF KeysInv, Sound
<1>8. Get = ring
  BY <1>1, <1>4, InHolds
<1>9. ring'.own = (IF q.own = 0 THEN ring.own ELSE q.own) /\ AtHand(ring) \subseteq AtHand(ring')
  BY <1>4, <1>7, <1>8, TurnShapes
<1>10. ring'.own # 0 /\ (file.pair.under = q.k.id => q.k.id \in AtHand(ring'))
  BY <1>6, <1>9 DEF AtHand
<1> QED BY <1>1, <1>4, <1>5, <1>6, <1>7, <1>10, ShutUnderReplaced

\* Until they cross, a login turns out locked only when its password does not
\* open the account's key and no login holds it, or the pair here is still under
\* a key that was replaced, or the entry was written since it read it; however
\* many logins are at work (unlock's keyOf, Rewrap and Hold, and Recover).
THEOREM LockedForCause == KeysSpec => ShutForCause
<1>1. KeysInv /\ [KeysNext]_kvars =>
        [\A l \in Logins : TurnsOutLocked(l) =>
            \/ OpenWith(login[l].k, login[l].pw) # login[l].k.id /\ ring'.own # login[l].k.id
            \/ file.pair.under \in {x.id : x \in login[l].k.retired}
            \/ l \in stale \/ crossed]_kvars
  <2> SUFFICES ASSUME KeysInv, [KeysNext]_kvars, NEW m \in Logins, TurnsOutLocked(m), m \notin stale, ~crossed
               PROVE  \/ OpenWith(login[m].k, login[m].pw) # login[m].k.id /\ ring'.own # login[m].k.id
                      \/ file.pair.under \in {x.id : x \in login[m].k.retired}
    OBVIOUS
  <2>1. LoginShapes /\ ~NobodyShut
    BY DEF KeysInv, NobodyShut
  <2>2. \E l \in Logins : Hold(l) \/ TurnKey(l)
    BY <2>1, SigningInShutsNobody, ActingShutsNobody, EndingShutsNobody DEF KeysNext
  <2> QED BY <2>2, HoldShutsForCause, RecoverShutsForCause
<1> QED BY <1>1, KeysInitial, KeysKept, PTL DEF KeysSpec, ShutForCause
=============================================================================
