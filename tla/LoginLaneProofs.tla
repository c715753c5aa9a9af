-------------------------- MODULE LoginLaneProofs --------------------------
(***************************************************************************)
(* Theorems about ImapQueue, for every set of requests and every limit,    *)
(* and about LoginLane, for every set of connections too: the lane is an   *)
(* ImapQueue, and whoever owns it is alone with the connection and the     *)
(* timer.                                                                  *)
(***************************************************************************)
EXTENDS LoginLane, TLAPS

\* The length and type of a concatenation.
LEMMA ConcatFacts ==
    ASSUME NEW S, NEW a \in Seq(S), NEW b \in Seq(S)
    PROVE  a \o b \in Seq(S) /\ Len(a \o b) = Len(a) + Len(b)
OBVIOUS

\* Taking the i-th element out of a sequence, the code's
\* append(s[:i], s[i+1:]...): what is left keeps its order.
LEMMA RemoveAtFacts ==
    ASSUME NEW S, NEW s \in Seq(S), NEW i \in 1..Len(s)
    PROVE  /\ RemoveAt(s, i) \in Seq(S)
           /\ Len(RemoveAt(s, i)) = Len(s) - 1
           /\ \A j \in 1..(Len(s) - 1) :
                RemoveAt(s, i)[j] = IF j < i THEN s[j] ELSE s[j + 1]
<1>1. PICK a : a = SubSeq(s, 1, i - 1)
  OBVIOUS
<1>2. PICK b : b = SubSeq(s, i + 1, Len(s))
  OBVIOUS
<1>3. Len(s) \in Nat
  OBVIOUS
<1>4. a \in Seq(S) /\ Len(a) = i - 1 /\ \A j \in 1..(i - 1) : a[j] = s[j]
  BY <1>1, <1>3
<1>5. b \in Seq(S) /\ Len(b) = Len(s) - i /\ \A j \in 1..(Len(s) - i) : b[j] = s[j + i]
  BY <1>2, <1>3
<1>6. RemoveAt(s, i) = a \o b
  BY <1>1, <1>2 DEF RemoveAt
<1>7. a \in Seq(S) /\ b \in Seq(S)
  BY <1>4, <1>5
<1>8. a \o b \in Seq(S) /\ Len(a \o b) = Len(a) + Len(b)
  <2> HIDE <1>1, <1>2
  <2> QED  BY <1>7, ConcatFacts
<1>9. i \in Int /\ Len(a) + Len(b) = Len(s) - 1
  BY <1>3, <1>4, <1>5
<1>10. ASSUME NEW j \in 1..(Len(s) - 1)
       PROVE  (a \o b)[j] = IF j < i THEN s[j] ELSE s[j + 1]
  <2>1. CASE j < i
    BY <2>1, <1>3, <1>4, <1>5
  <2>2. CASE j >= i
    <3>1. j \in 1..(Len(a) + Len(b)) /\ ~(j <= Len(a))
      BY <1>3, <1>4, <1>9, <2>2
    <3>2. (a \o b)[j] = b[j - Len(a)]
      BY <3>1, <1>4, <1>5
    <3>3. j - Len(a) \in 1..(Len(s) - i) /\ (j - Len(a)) + i = j + 1
      BY <1>3, <1>4, <2>2
    <3>4. b[j - Len(a)] = s[j + 1]
      BY <3>3, <1>5
    <3> QED  BY <3>2, <3>4, <2>2, <1>3
  <2> QED  BY <2>1, <2>2, <1>3, <1>9
<1> QED  BY <1>6, <1>8, <1>9, <1>10

Distinct(s) == \A i, j \in 1..Len(s) : s[i] = s[j] => i = j

Within(p, s) == \E i \in 1..Len(s) : s[i] = p

\* Out of a sequence without repetitions, exactly one element goes.
LEMMA RemoveAtWithin ==
    ASSUME NEW S, NEW s \in Seq(S), NEW i \in 1..Len(s), Distinct(s)
    PROVE  /\ Distinct(RemoveAt(s, i))
           /\ \A p : Within(p, RemoveAt(s, i)) <=> Within(p, s) /\ p # s[i]
<1>1. PICK r : r = RemoveAt(s, i)
  OBVIOUS
<1>2. /\ r \in Seq(S)
      /\ Len(r) = Len(s) - 1
      /\ \A j \in 1..(Len(s) - 1) : r[j] = IF j < i THEN s[j] ELSE s[j + 1]
  BY <1>1, RemoveAtFacts
<1>3. Len(s) \in Nat /\ i \in Int
  OBVIOUS
<1>4. Distinct(r)
  <2> SUFFICES ASSUME NEW j \in 1..Len(r), NEW k \in 1..Len(r), r[j] = r[k]
               PROVE  j = k
    BY DEF Distinct
  <2>1. PICK jj \in 1..Len(s) : r[j] = s[jj] /\ jj = IF j < i THEN j ELSE j + 1
    BY <1>2, <1>3
  <2>2. PICK kk \in 1..Len(s) : r[k] = s[kk] /\ kk = IF k < i THEN k ELSE k + 1
    BY <1>2, <1>3
  <2>3. jj = kk
    BY <2>1, <2>2 DEF Distinct
  <2> QED  BY <2>1, <2>2, <2>3, <1>2, <1>3
<1>5. ASSUME NEW p, Within(p, r)
      PROVE  Within(p, s) /\ p # s[i]
  <2>1. PICK j \in 1..Len(r) : r[j] = p
    BY <1>5 DEF Within
  <2>2. PICK jj \in 1..Len(s) : r[j] = s[jj] /\ jj = IF j < i THEN j ELSE j + 1
    BY <1>2, <1>3
  <2>3. jj # i
    BY <2>2, <1>2, <1>3
  <2>4. s[jj] # s[i]
    BY <2>3 DEF Distinct
  <2> QED  BY <2>1, <2>2, <2>4 DEF Within
<1>6. ASSUME NEW p, Within(p, s), p # s[i]
      PROVE  Within(p, r)
  <2>1. PICK j \in 1..Len(s) : s[j] = p
    BY <1>6 DEF Within
  <2>2. j # i
    BY <2>1, <1>6
  <2>3. PICK k \in 1..Len(r) : k = IF j < i THEN j ELSE j - 1
    BY <2>2, <1>2, <1>3
  <2>4. r[k] = s[j]
    BY <2>2, <2>3, <1>2, <1>3
  <2> QED  BY <2>1, <2>4 DEF Within
<1> QED  BY <1>1, <1>4, <1>5, <1>6

\* A newcomer joins at the end.
LEMMA AppendWithin ==
    ASSUME NEW S, NEW s \in Seq(S), NEW e \in S, Distinct(s), ~Within(e, s)
    PROVE  /\ Append(s, e) \in Seq(S)
           /\ Len(Append(s, e)) = Len(s) + 1
           /\ Distinct(Append(s, e))
           /\ \A p : Within(p, Append(s, e)) <=> Within(p, s) \/ p = e
<1>1. PICK r : r = Append(s, e)
  OBVIOUS
<1>2. /\ r \in Seq(S) /\ Len(r) = Len(s) + 1
      /\ \A j \in 1..Len(s) : r[j] = s[j]
      /\ r[Len(s) + 1] = e
  BY <1>1
<1>3. Len(s) \in Nat
  OBVIOUS
<1>4. Distinct(r)
  BY <1>2, <1>3 DEF Distinct, Within
<1>5. ASSUME NEW p
      PROVE  Within(p, r) <=> Within(p, s) \/ p = e
  BY <1>2, <1>3 DEF Within
<1> QED  BY <1>1, <1>2, <1>4, <1>5

----------------------------------------------------------------------------
(* The inductive invariant: OneHolder needs to know where a grant can sit, *)
(* which WaitersKnown says, and that a free connection has no queue.       *)

QueueInv == TypeOK /\ WaitersKnown /\ OneHolder /\ NobodyWaitsForFree

\* The queue in the vocabulary of the lemmas.
LEMMA QueueWords ==
    /\ \A p : Queued(p) <=> Within(p, waiters)
    /\ TypeOK => Distinct(waiters) /\ waiters \in Seq(Callers)
BY DEF Queued, Within, TypeOK, Distinct

LEMMA InitQueueInv == Init => QueueInv
<1> SUFFICES ASSUME Init PROVE QueueInv
  OBVIOUS
<1>1. waiters = <<>> /\ Len(waiters) = 0
  BY DEF Init
<1>2. \A p : ~Queued(p)
  BY <1>1 DEF Queued
<1>3. TypeOK
  <2>1. waiters \in Seq(Callers)
    BY <1>1
  <2>2. \A i, j \in 1..Len(waiters) : waiters[i] = waiters[j] => i = j
    BY <1>1
  <2> HIDE <1>1
  <2> QED  BY <2>1, <2>2 DEF Init, TypeOK
<1> QED  BY <1>1, <1>2, <1>3 DEF Init, QueueInv, WaitersKnown, OneHolder, NobodyWaitsForFree, Holds

\* What release does to the queue, whoever calls it.
LEMMA ReleaseQueue ==
    ASSUME QueueInv, release
    PROVE  \/ /\ waiters = <<>> /\ waiters' = waiters /\ ready' = ready /\ ~busy'
              /\ \A p : ~Queued(p)
           \/ \E w \in Callers :
                /\ Queued(w) /\ w \notin ready /\ ready' = ready \cup {w} /\ busy' = busy
                /\ waiters' \in Seq(Callers)
                /\ Distinct(waiters')
                /\ \A p : Queued(p)' <=> Queued(p) /\ p # w
                /\ w \in Background => \A p \in Callers : Queued(p) => p \in Background
<1>1. CASE Free
  <2>1. \A p : ~Queued(p)
    BY <1>1 DEF Free, Queued
  <2> QED  BY <1>1, <2>1 DEF Free
<1>2. ASSUME NEW i \in 1..Len(waiters), IsNext(i), HandOff(i)
      PROVE  \E w \in Callers :
                /\ Queued(w) /\ w \notin ready /\ ready' = ready \cup {w} /\ busy' = busy
                /\ waiters' \in Seq(Callers)
                /\ Distinct(waiters')
                /\ \A p : Queued(p)' <=> Queued(p) /\ p # w
                /\ w \in Background => \A p \in Callers : Queued(p) => p \in Background
  <2>1. waiters[i] \in Callers /\ Queued(waiters[i])
    BY DEF QueueInv, TypeOK, Queued
  <2>2. waiters[i] \notin ready
    BY <2>1 DEF QueueInv, WaitersKnown
  <2>3. waiters' = RemoveAt(waiters, i)
    BY <1>2 DEF HandOff
  <2>4. waiters' \in Seq(Callers) /\ Distinct(waiters')
    BY <2>3, QueueWords, RemoveAtFacts, RemoveAtWithin DEF QueueInv
  <2>5. \A p : Within(p, waiters') <=> Within(p, waiters) /\ p # waiters[i]
    BY <2>3, QueueWords, RemoveAtWithin DEF QueueInv
  <2>6. \A p : Queued(p)' <=> Queued(p) /\ p # waiters[i]
    BY <2>5 DEF Queued, Within
  <2>7. waiters[i] \in Background => \A p \in Callers : Queued(p) => p \in Background
    BY <1>2 DEF IsNext, Interactive, Queued
  <2> QED  BY <1>2, <2>1, <2>2, <2>4, <2>6, <2>7 DEF HandOff
<1> QED  BY <1>1, <1>2 DEF release

\* One step keeps the invariant.
LEMMA NextQueueInv == QueueInv /\ [Next]_qvars => QueueInv'
<1> SUFFICES ASSUME QueueInv, [Next]_qvars PROVE QueueInv'
  OBVIOUS
<1> USE RequestsAssumption DEF Callers
<1>1. ASSUME NEW p \in Callers, AcquireRefused(p) \/ AcquireFull(p) PROVE QueueInv'
  BY <1>1 DEF AcquireRefused, AcquireFull, MayCall, Over, QueueInv, TypeOK, WaitersKnown,
              OneHolder, NobodyWaitsForFree, Holds, Queued
<1>2. ASSUME NEW p \in Callers, AcquireFree(p) PROVE QueueInv'
  BY <1>2 DEF AcquireFree, MayCall, QueueInv, TypeOK, WaitersKnown,
              OneHolder, NobodyWaitsForFree, Holds, Queued
<1>3. ASSUME NEW p \in Callers, AcquireWait(p) PROVE QueueInv'
  <2>1. ~Within(p, waiters) /\ p \notin ready
    BY <1>3, QueueWords DEF AcquireWait, MayCall, QueueInv, WaitersKnown
  <2>2. waiters' \in Seq(Callers) /\ Distinct(waiters')
    BY <1>3, <2>1, QueueWords, AppendWithin DEF AcquireWait, QueueInv
  <2>3. \A q : Within(q, waiters') <=> Within(q, waiters) \/ q = p
    BY <1>3, <2>1, QueueWords, AppendWithin DEF AcquireWait, QueueInv
  <2>4. \A q : Queued(q)' <=> Queued(q) \/ q = p
    BY <2>3 DEF Queued, Within
  <2>5. TypeOK'
    BY <1>3, <2>2 DEF AcquireWait, QueueInv, TypeOK, Distinct
  <2>6. (WaitersKnown /\ OneHolder /\ NobodyWaitsForFree)'
    BY <1>3, <2>1, <2>4 DEF AcquireWait, MayCall, QueueInv, TypeOK, WaitersKnown,
              OneHolder, NobodyWaitsForFree, Holds
  <2> QED  BY <2>5, <2>6 DEF QueueInv
<1>4. ASSUME NEW p \in Callers, TakeReady(p) \/ FindGranted(p) PROVE QueueInv'
  <2>1. /\ p \in ready
        /\ ready' = ready \ {p} /\ UNCHANGED <<busy, waiters, ended, done>>
        /\ \E at \in {"owner", "handback"} : pc' = [pc EXCEPT ![p] = at]
    BY <1>4 DEF TakeReady, FindGranted, QueueInv, WaitersKnown
  <2>2. TypeOK'
    BY <2>1 DEF QueueInv, TypeOK
  <2>3. \A q \in Callers : Queued(q)' <=> Queued(q)
    BY <2>1 DEF Queued
  <2>4. \A q \in Callers : Holds(q)' <=> Holds(q)
    BY <2>1 DEF Holds, QueueInv, TypeOK
  <2>5. WaitersKnown'
    BY <2>1, <2>3 DEF QueueInv, TypeOK, WaitersKnown
  <2>6. OneHolder' /\ NobodyWaitsForFree'
    BY <2>1, <2>4 DEF QueueInv, OneHolder, NobodyWaitsForFree
  <2> QED  BY <2>2, <2>5, <2>6 DEF QueueInv
<1>5. ASSUME NEW p \in Callers, Withdraw(p) PROVE QueueInv'
  BY <1>5 DEF Withdraw, QueueInv, TypeOK, WaitersKnown,
              OneHolder, NobodyWaitsForFree, Holds, Queued
<1>6. ASSUME NEW p \in Callers, LeaveQueue(p) PROVE QueueInv'
  <2>1. PICK i \in 1..Len(waiters) : waiters[i] = p /\ waiters' = RemoveAt(waiters, i)
    BY <1>6 DEF LeaveQueue
  <2>2. waiters' \in Seq(Callers) /\ Distinct(waiters')
    BY <2>1, QueueWords, RemoveAtFacts, RemoveAtWithin DEF QueueInv
  <2>3. \A q : Within(q, waiters') <=> Within(q, waiters) /\ q # p
    BY <2>1, QueueWords, RemoveAtWithin DEF QueueInv
  <2>4. \A q : Queued(q)' <=> Queued(q) /\ q # p
    BY <2>3 DEF Queued, Within
  <2>5. Queued(p) /\ p \notin ready /\ busy
    BY <2>1 DEF Queued, QueueInv, WaitersKnown, NobodyWaitsForFree
  <2>6. TypeOK'
    BY <1>6, <2>2 DEF LeaveQueue, Over, QueueInv, TypeOK, Distinct
  <2>7. (WaitersKnown /\ OneHolder /\ NobodyWaitsForFree)'
    BY <1>6, <2>4, <2>5 DEF LeaveQueue, Over, QueueInv, TypeOK, WaitersKnown,
              OneHolder, NobodyWaitsForFree, Holds
  <2> QED  BY <2>6, <2>7 DEF QueueInv
<1>7. ASSUME NEW p \in Callers, Release(p) PROVE QueueInv'
  <2>1. Holds(p) /\ busy /\ p \notin ready
    BY <1>7 DEF Release, QueueInv, OneHolder, WaitersKnown, Holds
  <2>2. release
    BY <1>7 DEF Release
  <2>3. ready = {}
    BY <2>1 DEF QueueInv, OneHolder, Holds, TypeOK
  <2>4. CASE /\ waiters = <<>> /\ waiters' = waiters /\ ready' = ready /\ ~busy'
             /\ busy' \in BOOLEAN
             /\ \A q : ~Queued(q)
    BY <1>7, <2>1, <2>3, <2>4 DEF Release, Over, QueueInv, TypeOK, WaitersKnown,
              OneHolder, NobodyWaitsForFree, Holds, Queued
  <2>5. ASSUME NEW w \in Callers,
               Queued(w), w \notin ready, ready' = ready \cup {w}, busy' = busy,
               waiters' \in Seq(Callers), Distinct(waiters'),
               \A q : Queued(q)' <=> Queued(q) /\ q # w
        PROVE  QueueInv'
    <3>1. TypeOK'
      BY <1>7, <2>5 DEF Release, Over, QueueInv, TypeOK, Distinct
    <3>2. (WaitersKnown /\ OneHolder /\ NobodyWaitsForFree)'
      BY <1>7, <2>1, <2>3, <2>5 DEF Release, Over, QueueInv, TypeOK, WaitersKnown,
                OneHolder, NobodyWaitsForFree, Holds
    <3> QED  BY <3>1, <3>2 DEF QueueInv
  <2>6. busy' \in BOOLEAN
    BY <2>2 DEF release, Free, HandOff, QueueInv, TypeOK
  <2> QED  BY <2>2, <2>4, <2>5, <2>6, ReleaseQueue
<1>8. ASSUME NEW p \in Requests, NEW cause \in Causes, EndContext(p, cause) PROVE QueueInv'
  BY <1>8 DEF EndContext, QueueInv, TypeOK, WaitersKnown,
              OneHolder, NobodyWaitsForFree, Holds, Queued
<1>9. CASE Close
  BY <1>9 DEF Close, QueueInv, TypeOK, WaitersKnown,
              OneHolder, NobodyWaitsForFree, Holds, Queued
<1>10. CASE UNCHANGED qvars
  BY <1>10 DEF qvars, QueueInv, TypeOK, WaitersKnown,
              OneHolder, NobodyWaitsForFree, Holds, Queued
<1> QED
  BY <1>1, <1>2, <1>3, <1>4, <1>5, <1>6, <1>7, <1>8, <1>9, <1>10 DEF Next, Acquire, Leave

\* The queue never loses or doubles the connection: at every moment at most
\* one caller holds it, and it is busy exactly while one does.
THEOREM QueueIsSafe == Spec => [](TypeOK /\ WaitersKnown /\ OneHolder /\ NobodyWaitsForFree)
<1>1. Spec => []QueueInv
  BY InitQueueInv, NextQueueInv, PTL DEF Spec
<1>2. QueueInv => TypeOK /\ WaitersKnown /\ OneHolder /\ NobodyWaitsForFree
  BY DEF QueueInv
<1> QED  BY <1>1, <1>2, PTL

\* Nobody is left waiting for a connection that is free: release marks it free
\* only when the queue is empty, and whoever gives up meanwhile leaves it so.
THEOREM NobodyWaitsBehindFree == Spec => []NobodyWaitsForFree
<1>1. TypeOK /\ WaitersKnown /\ OneHolder /\ NobodyWaitsForFree => NobodyWaitsForFree
  OBVIOUS
<1> QED  BY <1>1, QueueIsSafe, PTL

\* Only the hand-off makes anybody ready, and it obeys class and arrival:
\* the connection never passes over a waiter that ranks before its new owner.
THEOREM HandOffKeepsOrder == Spec => HandOffInOrder
<1>1. ASSUME QueueInv, [Next]_qvars, NEW i \in 1..Len(waiters), waiters[i] \in ready' \ ready
      PROVE  ~Outranked(i)
  <2>1. ready' # ready
    BY <1>1
  <2>2. PICK p \in Callers : Release(p)
    BY <1>1, <2>1 DEF Next, qvars, Acquire, AcquireRefused, AcquireFree, AcquireFull, AcquireWait,
                  TakeReady, Withdraw, Leave, LeaveQueue, FindGranted, EndContext, Close
  <2>3. PICK k \in 1..Len(waiters) : IsNext(k) /\ HandOff(k)
    BY <2>1, <2>2 DEF Release, release, Free
  <2>4. waiters[i] = waiters[k]
    BY <1>1, <2>3 DEF HandOff
  <2>5. i = k
    BY <1>1, <2>4 DEF QueueInv, TypeOK
  <2>6. Len(waiters) \in Nat
    BY <1>1 DEF QueueInv, TypeOK
  <2> QED  BY <2>3, <2>5, <2>6 DEF Outranked, IsNext, Interactive
<1>2. QueueInv /\ [Next]_qvars =>
        [\A i \in 1..Len(waiters) : waiters[i] \in ready' \ ready => ~Outranked(i)]_qvars
  BY <1>1
<1> QED  BY <1>2, InitQueueInv, NextQueueInv, PTL DEF Spec, HandOffInOrder

\* The queue stays within imapQueueLimit, plus the reaper that is never refused.
THEOREM QueueStaysBounded == Spec => []QueueBounded
<1> USE RequestsAssumption DEF Callers
<1> DEFINE Room == QueueInv /\ QueueBounded
<1>1. Init => Room
  BY InitQueueInv DEF Init, QueueBounded, Queued
<1>2. ASSUME Room, [Next]_qvars PROVE Room'
  <2>1. QueueInv'
    BY <1>2, NextQueueInv
  <2>2. Len(waiters) \in Nat /\ waiters \in Seq(Callers) /\ Distinct(waiters)
    BY <1>2, QueueWords DEF QueueInv, TypeOK
  <2>3. ASSUME NEW p \in Callers, AcquireWait(p) PROVE QueueBounded'
    <3>1. ~Within(p, waiters)
      BY <1>2, <2>3, QueueWords DEF AcquireWait, MayCall, QueueInv, WaitersKnown
    <3>2. /\ Len(waiters') = Len(waiters) + 1
          /\ \A q : Within(q, waiters') <=> Within(q, waiters) \/ q = p
      BY <2>2, <2>3, <3>1, AppendWithin DEF AcquireWait
    <3>3. Queued(Reaper)' <=> Queued(Reaper) \/ Reaper = p
      BY <3>2 DEF Queued, Within
    <3> QED  BY <1>2, <2>2, <2>3, <3>1, <3>2, <3>3, QueueWords DEF AcquireWait, QueueBounded
  <2>4. ASSUME NEW i \in 1..Len(waiters), waiters' = RemoveAt(waiters, i) PROVE QueueBounded'
    <3>1. /\ Len(waiters') = Len(waiters) - 1
          /\ \A q : Within(q, waiters') <=> Within(q, waiters) /\ q # waiters[i]
      BY <2>2, <2>4, RemoveAtFacts, RemoveAtWithin
    <3>2. Queued(Reaper)' <=> Queued(Reaper) /\ Reaper # waiters[i]
      BY <3>1 DEF Queued, Within
    <3> QED  BY <1>2, <2>2, <3>1, <3>2 DEF QueueBounded
  <2>5. ASSUME waiters' = waiters PROVE QueueBounded'
    BY <1>2, <2>5 DEF QueueBounded, Queued
  <2>6. \/ waiters' = waiters
        \/ \E p \in Callers : AcquireWait(p)
        \/ \E i \in 1..Len(waiters) : waiters' = RemoveAt(waiters, i)
    BY <1>2 DEF Next, qvars, Acquire, AcquireRefused, AcquireFree, AcquireFull,
                TakeReady, Withdraw, Leave, LeaveQueue, FindGranted, Release, release,
                Free, HandOff, EndContext, Close
  <2> QED  BY <2>1, <2>3, <2>4, <2>5, <2>6
<1>3. Room => QueueBounded
  OBVIOUS
<1> QED  BY <1>1, <1>2, <1>3, PTL DEF Spec

\* imapQueue implements the abstract connection: every step of acquire,
\* release, a cancellation or a close is one step of Lane or none.
THEOREM QueueImplementsLane == Spec => ImplementsLane
<1> USE RequestsAssumption DEF Callers
<1> DEFINE H == {p \in Callers : Holds(p)}
           W == {p \in Callers : Queued(p)}
<1>1. Init => lane!LaneInit
  BY DEF Init, lane!LaneInit, Holds, Queued
<1>2. ASSUME QueueInv, [Next]_qvars PROVE [lane!LaneNext]_(lane!lvars)
  <2>0. QueueInv'
    BY <1>2, NextQueueInv
  <2>1. ASSUME H' = H, W' = W PROVE UNCHANGED lane!lvars
    BY <2>1 DEF lane!lvars
  <2>2. ASSUME NEW p \in Callers, AcquireRefused(p) \/ AcquireFull(p)
        PROVE  H' = H /\ W' = W
    BY <1>2, <2>2 DEF AcquireRefused, AcquireFull, MayCall, Over, Holds, Queued, QueueInv, TypeOK
  <2>3. ASSUME NEW p \in Callers, AcquireFree(p) PROVE lane!Take(p)
    <3>1. H = {} /\ W = {}
      BY <1>2, <2>3 DEF AcquireFree, QueueInv, OneHolder, NobodyWaitsForFree, Queued
    <3>2. H' = {p} /\ W' = W
      BY <1>2, <2>3, <3>1 DEF AcquireFree, QueueInv, TypeOK, Holds, Queued
    <3> QED  BY <3>1, <3>2 DEF lane!Take
  <2>4. ASSUME NEW p \in Callers, AcquireWait(p) PROVE lane!Want(p)
    <3>1. ~Within(p, waiters) /\ ~Holds(p) /\ H # {}
      BY <1>2, <2>4, QueueWords DEF AcquireWait, MayCall, QueueInv, WaitersKnown, OneHolder, Holds
    <3>2. \A q : Within(q, waiters') <=> Within(q, waiters) \/ q = p
      BY <1>2, <2>4, <3>1, QueueWords, AppendWithin DEF AcquireWait, QueueInv
    <3>3. W' = W \cup {p}
      BY <3>2 DEF Queued, Within
    <3>4. H' = H
      BY <1>2, <2>4 DEF AcquireWait, MayCall, Holds, QueueInv, TypeOK
    <3> QED  BY <3>1, <3>3, <3>4, QueueWords DEF lane!Want
  <2>5. ASSUME NEW p \in Callers, TakeReady(p) \/ FindGranted(p) \/ Withdraw(p)
        PROVE  H' = H /\ W' = W
    BY <1>2, <2>5 DEF TakeReady, FindGranted, Withdraw, Holds, Queued, QueueInv, TypeOK, WaitersKnown
  <2>6. ASSUME NEW p \in Callers, LeaveQueue(p) PROVE lane!GiveUp(p)
    <3>1. PICK i \in 1..Len(waiters) : waiters[i] = p /\ waiters' = RemoveAt(waiters, i)
      BY <2>6 DEF LeaveQueue
    <3>2. \A q : Within(q, waiters') <=> Within(q, waiters) /\ q # p
      BY <1>2, <3>1, QueueWords, RemoveAtWithin DEF QueueInv
    <3>3. W' = W \ {p} /\ p \in W
      BY <3>1, <3>2 DEF Queued, Within
    <3>4. H' = H
      BY <1>2, <2>6 DEF LeaveQueue, Over, Holds, QueueInv, TypeOK
    <3> QED  BY <3>3, <3>4 DEF lane!GiveUp
  <2>7. ASSUME NEW p \in Callers, Release(p)
        PROVE  lane!Idle(p) \/ \E q \in Callers : lane!Pass(p, q)
    <3>1. H = {p} /\ ready = {} /\ release
      BY <1>2, <2>7 DEF Release, QueueInv, OneHolder, WaitersKnown, TypeOK, Holds
    <3>2. \A q \in Callers : Holds(q)' <=> q \in ready'
      BY <1>2, <2>7, <3>1 DEF Release, Over, Holds, QueueInv, TypeOK
    <3>3. CASE /\ waiters = <<>> /\ waiters' = waiters /\ ready' = ready /\ ~busy'
               /\ \A q : ~Queued(q)
      <4>1. W = {} /\ W' = {} /\ H' = {}
        BY <3>1, <3>2, <3>3 DEF Queued
      <4> QED  BY <3>1, <4>1 DEF lane!Idle
    <3>4. ASSUME NEW w \in Callers,
                 Queued(w), w \notin ready, ready' = ready \cup {w},
                 \A q : Queued(q)' <=> Queued(q) /\ q # w,
                 w \in Background => \A q \in Callers : Queued(q) => q \in Background
          PROVE  lane!Pass(p, w)
      <4>1. W' = W \ {w} /\ w \in W /\ H' = {w}
        BY <3>1, <3>2, <3>4
      <4> QED  BY <3>1, <3>4, <4>1 DEF lane!Pass
    <3> QED  BY <1>2, <3>1, <3>3, <3>4, ReleaseQueue
  <2>8. ASSUME NEW p \in Requests, NEW cause \in Causes, EndContext(p, cause)
        PROVE  H' = H /\ W' = W
    BY <2>8 DEF EndContext, Holds, Queued
  <2>9. ASSUME Close \/ UNCHANGED qvars PROVE H' = H /\ W' = W
    BY <2>9 DEF Close, qvars, Holds, Queued
  <2> HIDE DEF H, W
  <2> QED  BY <1>2, <2>1, <2>2, <2>3, <2>4, <2>5, <2>6, <2>7, <2>8, <2>9
             DEF Next, Acquire, Leave, lane!LaneNext
<1> QED  BY <1>1, <1>2, InitQueueInv, NextQueueInv, PTL DEF Spec, ImplementsLane, lane!LaneSpec

----------------------------------------------------------------------------
(* The lane *)

\* Every step of DoIMAPWork, the timer, the server or the reaper is a step of
\* the queue, or none.
LEMMA LaneStepIsQueueStep == [LaneNext]_vars => [Next]_qvars
<1> SUFFICES ASSUME LaneNext \/ UNCHANGED vars PROVE Next \/ UNCHANGED qvars
  OBVIOUS
<1>1. ASSUME NEW p \in Callers, QueueStep(p) \/ ReleaseLane(p) PROVE Next
  BY <1>1 DEF QueueStep, ReleaseLane, Next
<1>2. ASSUME NEW p \in Requests, Begin(p) \/ DialOk(p) \/ TimerFires(p) \/ TimerCloses(p)
                                    \/ WorkReturns(p) \/ StopTimer(p)
      PROVE  UNCHANGED qvars
  BY <1>2 DEF Begin, BeginReturns, BeginReuse, BeginDial, DialOk, TimerFires, TimerCloses,
              WorkReturns, StopTimer
<1>3. ASSUME NEW p \in Requests, DialFails(p) PROVE Next \/ UNCHANGED qvars
  BY <1>3 DEF DialFails, Next, Close, qvars
<1>4. ASSUME ReaperCloses \/ \E c \in Conns : ServerDrops(c) PROVE UNCHANGED qvars
  BY <1>4 DEF ReaperCloses, ServerDrops
<1>5. ASSUME NEW p \in Requests, NEW cause \in Causes, EndContext(p, cause) PROVE Next
  BY <1>5 DEF Next
<1>6. CASE Close
  BY <1>6 DEF Next
<1>7. CASE UNCHANGED vars
  BY <1>7 DEF vars
<1> QED  BY <1>1, <1>2, <1>3, <1>4, <1>5, <1>6, <1>7 DEF LaneNext, Dial

\* The lane keeps the queue's rules: LaneKeepsQueue but for its fairness.
THEOREM LaneIsQueue == LaneSpec => Spec
<1>1. LaneInit => Init
  BY DEF LaneInit
<1> QED  BY <1>1, LaneStepIsQueueStep, PTL DEF LaneSpec, Spec

----------------------------------------------------------------------------
(* The inductive invariant: an armed timer and a dial in progress are the  *)
(* owner's, of whom OneHolder says that there is one.                      *)

\* A timer that is not off is that of the owner's run, and aims at the
\* connection the lane has.
TimerOwned ==
    \A p \in Requests :
        timer[p] # "off" => pc[p] = "owner" /\ step[p] \in {"run", "stop"} /\ target[p] = conn

\* One that has fired has closed it.
FiredClosed == \A p \in Requests : timer[p] = "fired" => conn \notin open

\* An owner that dials has put the old connection away.
DialsFromNone == \A p \in Requests : step[p] = "dial" => conn = NoConn

LaneInv ==
    /\ QueueInv /\ LaneTypeOK
    /\ TimerOwned /\ FiredClosed /\ DialsFromNone /\ NoConnectionLost

\* Two callers that are both in DoIMAPWork's part under the lane are one.
LEMMA OneOwner ==
    ASSUME LaneInv, NEW p \in Callers, NEW q \in Callers, pc[p] = "owner", pc[q] = "owner"
    PROVE  p = q
BY DEF LaneInv, QueueInv, OneHolder, Holds

LEMMA InitLaneInv == LaneInit => LaneInv
<1> SUFFICES ASSUME LaneInit PROVE LaneInv
  OBVIOUS
<1>1. QueueInv
  BY InitQueueInv DEF LaneInit
<1>2. TypeOK
  BY <1>1 DEF QueueInv
<1> QED  BY <1>1, <1>2, ConnsAssumption, RequestsAssumption
           DEF LaneInit, LaneInv, LaneTypeOK, TimerOwned, FiredClosed, DialsFromNone,
               NoConnectionLost, Callers

\* One step keeps the invariant.
LEMMA NextLaneInv == LaneInv /\ [LaneNext]_vars => LaneInv'
<1> SUFFICES ASSUME LaneInv, [LaneNext]_vars PROVE LaneInv'
  OBVIOUS
<1> USE RequestsAssumption, ConnsAssumption DEF Callers
<1>q. QueueInv' /\ TypeOK'
  BY LaneStepIsQueueStep, NextQueueInv DEF LaneInv, QueueInv
<1>t. /\ TypeOK /\ conn \in Conns \cup {NoConn} /\ open \subseteq Conns
      /\ step \in [Callers -> {"none", "dial", "run", "stop", "return"}]
      /\ timer \in [Requests -> {"off", "armed", "firing", "fired"}]
      /\ target \in [Requests -> Conns \cup {NoConn}]
      /\ \A p \in Callers : step[p] # "none" => pc[p] = "owner"
  BY DEF LaneInv, LaneTypeOK
<1>p. pc \in [Callers -> {"idle", "waiting", "leaving", "handback", "owner", "out"}]
  BY <1>t DEF TypeOK
<1>1. ASSUME NEW p \in Callers, QueueStep(p) PROVE LaneInv'
  <2>1. UNCHANGED <<conn, open, step, timer, target>>
    BY <1>1 DEF QueueStep, lanevars
  <2>2. \A q \in Callers : pc[q] = "owner" => pc'[q] = "owner"
    BY <1>1, <1>p DEF QueueStep, Acquire, AcquireRefused, AcquireFree, AcquireFull, AcquireWait,
                MayCall, Over, TakeReady, Withdraw, Leave, LeaveQueue, FindGranted
  <2> QED  BY <1>q, <1>t, <2>1, <2>2 DEF LaneInv, LaneTypeOK, TimerOwned, FiredClosed,
              DialsFromNone, NoConnectionLost
<1>2. ASSUME NEW p \in Callers, ReleaseLane(p) PROVE LaneInv'
  <2>1. /\ UNCHANGED <<conn, open, timer, target>>
        /\ step' = [step EXCEPT ![p] = "none"]
        /\ pc[p] = "owner" => step[p] = "return"
    BY <1>2 DEF ReleaseLane
  <2>2. \A q \in Callers : q # p => pc'[q] = pc[q]
    BY <1>2, <1>p DEF ReleaseLane, Release, Over
  <2> QED  BY <1>q, <1>t, <2>1, <2>2 DEF LaneInv, LaneTypeOK, TimerOwned, FiredClosed,
              DialsFromNone, NoConnectionLost
<1>3. ASSUME NEW p \in Requests, BeginReturns(p) \/ BeginReuse(p) PROVE LaneInv'
  BY <1>3, <1>q, <1>t DEF BeginReturns, BeginReuse, Begins, Arm, qvars, LaneInv, LaneTypeOK,
              TimerOwned, FiredClosed, DialsFromNone, NoConnectionLost
<1>4. ASSUME NEW p \in Requests, BeginDial(p) PROVE LaneInv'
  <2>1. pc[p] = "owner" /\ step[p] = "none" /\ conn' = NoConn /\ open = {}
    BY <1>4 DEF BeginDial, Begins, LaneInv, NoConnectionLost
  <2>2. \A q \in Requests : timer[q] = "off"
    BY <2>1, OneOwner DEF LaneInv, TimerOwned
  <2> QED  BY <1>4, <1>q, <1>t, <2>1, <2>2 DEF BeginDial, qvars, LaneInv, LaneTypeOK,
              TimerOwned, FiredClosed, DialsFromNone, NoConnectionLost
<1>5. ASSUME NEW p \in Requests, DialOk(p) PROVE LaneInv'
  <2>1. step[p] = "dial" /\ pc[p] = "owner" /\ conn = NoConn /\ open = {}
    BY <1>5, <1>t DEF DialOk, LaneInv, DialsFromNone, NoConnectionLost
  <2>2. \A q \in Requests : timer[q] = "off" /\ (step[q] = "dial" => q = p)
    BY <1>t, <2>1, OneOwner DEF LaneInv, TimerOwned
  <2> QED  BY <1>5, <1>q, <1>t, <2>1, <2>2 DEF DialOk, Arm, qvars, LaneInv, LaneTypeOK,
              TimerOwned, FiredClosed, DialsFromNone, NoConnectionLost
<1>6. ASSUME NEW p \in Requests, DialFails(p) PROVE LaneInv'
  BY <1>6, <1>q, <1>t DEF DialFails, LaneInv, LaneTypeOK,
              TimerOwned, FiredClosed, DialsFromNone, NoConnectionLost
<1>7. ASSUME NEW p \in Requests, TimerFires(p) PROVE LaneInv'
  BY <1>7, <1>q, <1>t DEF TimerFires, qvars, LaneInv, LaneTypeOK,
              TimerOwned, FiredClosed, DialsFromNone, NoConnectionLost
<1>8. ASSUME NEW p \in Requests, TimerCloses(p) PROVE LaneInv'
  <2>1. target[p] = conn
    BY <1>8 DEF TimerCloses, LaneInv, TimerOwned
  <2> QED  BY <1>8, <1>q, <1>t, <2>1 DEF TimerCloses, qvars, LaneInv, LaneTypeOK,
              TimerOwned, FiredClosed, DialsFromNone, NoConnectionLost
<1>9. ASSUME NEW p \in Requests, WorkReturns(p) PROVE LaneInv'
  BY <1>9, <1>q, <1>t DEF WorkReturns, qvars, LaneInv, LaneTypeOK,
              TimerOwned, FiredClosed, DialsFromNone, NoConnectionLost
<1>10. ASSUME NEW p \in Requests, StopTimer(p) PROVE LaneInv'
  <2>1. pc[p] = "owner" /\ step[p] = "stop"
    BY <1>10, <1>t DEF StopTimer
  <2>2. \A q \in Requests : q # p => timer[q] = "off"
    BY <2>1, OneOwner DEF LaneInv, TimerOwned
  <2>3. conn' = conn \/ (conn' = NoConn /\ open = {})
    BY <1>10 DEF StopTimer, LaneInv, FiredClosed, NoConnectionLost
  <2> QED  BY <1>10, <1>q, <1>t, <2>1, <2>2, <2>3 DEF StopTimer, qvars, LaneInv, LaneTypeOK,
              TimerOwned, FiredClosed, DialsFromNone, NoConnectionLost
<1>11. CASE ReaperCloses
  BY <1>11, <1>q, <1>t DEF ReaperCloses, qvars, LaneInv, LaneTypeOK,
              TimerOwned, FiredClosed, DialsFromNone, NoConnectionLost
<1>12. ASSUME UNCHANGED lanevars, pc' = pc PROVE LaneInv'
  BY <1>12, <1>q, <1>t DEF lanevars, LaneInv, LaneTypeOK,
              TimerOwned, FiredClosed, DialsFromNone, NoConnectionLost
<1>13. ASSUME NEW c \in Conns, ServerDrops(c) PROVE LaneInv'
  BY <1>13, <1>q, <1>t DEF ServerDrops, qvars, LaneInv, LaneTypeOK,
              TimerOwned, FiredClosed, DialsFromNone, NoConnectionLost
<1>14. ASSUME NEW p \in Requests, NEW cause \in Causes, EndContext(p, cause), UNCHANGED lanevars PROVE LaneInv'
  BY <1>12, <1>14 DEF EndContext
<1>15. CASE Close /\ UNCHANGED lanevars
  BY <1>12, <1>15 DEF Close
<1>16. CASE UNCHANGED vars
  BY <1>12, <1>16 DEF vars, qvars
<1> QED
  BY <1>1, <1>2, <1>3, <1>4, <1>5, <1>6, <1>7, <1>8, <1>9, <1>10, <1>11, <1>13, <1>14, <1>15, <1>16
     DEF LaneNext, Begin, Dial

\* A deadline that passes late never cuts the next request's commands: while a
\* timer may still close a connection, its request owns the lane and the
\* connection is the one it runs on (login.go: the deferred stop waits for
\* stopped).
THEOREM TimersHitOwnRun == LaneSpec => []TimerHitsOwnRun
<1>1. LaneInv => TimerHitsOwnRun
  BY DEF LaneInv, TimerOwned, TimerHitsOwnRun
<1> QED  BY <1>1, InitLaneInv, NextLaneInv, PTL DEF LaneSpec

\* The login loses no connection: whatever times out, is refused or dropped,
\* none is open but the one the lane names, which the next owner reuses or
\* puts away and the reaper closes.
THEOREM LaneLosesNoConnection == LaneSpec => []NoConnectionLost
<1>1. LaneInv => NoConnectionLost
  BY DEF LaneInv
<1> QED  BY <1>1, InitLaneInv, NextLaneInv, PTL DEF LaneSpec
=============================================================================
