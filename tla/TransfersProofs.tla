-------------------------- MODULE TransfersProofs --------------------------
(***************************************************************************)
(* Theorems about Transfers, for every set of readers and connections and  *)
(* every number of slots.                                                  *)
(***************************************************************************)
EXTENDS Transfers, FiniteSetTheorems, TLAPS

\* What taking the first element off a sequence leaves.
LEMMA TailFacts ==
    ASSUME NEW S, NEW s \in Seq(S), s # <<>>
    PROVE  /\ Head(s) \in S /\ Head(s) = s[1] /\ Tail(s) \in Seq(S)
           /\ Len(s) \in Nat \ {0} /\ Len(Tail(s)) = Len(s) - 1
           /\ \A i \in 1..(Len(s) - 1) : Tail(s)[i] = s[i + 1]
OBVIOUS

\* What putting one at the end adds.
LEMMA AppendFacts ==
    ASSUME NEW S, NEW s \in Seq(S), NEW e \in S
    PROVE  /\ Append(s, e) \in Seq(S)
           /\ Len(s) \in Nat /\ Len(Append(s, e)) = Len(s) + 1
           /\ \A i \in 1..Len(s) : Append(s, e)[i] = s[i]
           /\ Append(s, e)[Len(s) + 1] = e
OBVIOUS

In(n, s) == \E i \in 1..Len(s) : s[i] = n

----------------------------------------------------------------------------
(* The inductive invariant *)

\* A reader has a connection only from its slot or its dial to its put.
NoneBetween == \A r \in Readers : at[r] \in {"out", "wait", "dial"} => c[r] = NoConn

\* No connection is at two places at once: of two readers, of a reader and a
\* slot, of two slots.
NotShared ==
    /\ \A q, r \in Readers : c[q] = c[r] /\ c[r] # NoConn => q = r
    /\ \A r \in Readers : c[r] # NoConn => ~In(c[r], slots)
    /\ \A i, j \in 1..Len(slots) : slots[i] = slots[j] /\ slots[i] # NoConn => i = j

\* There are as many holders as slots are missing, so finitely many, however
\* many readers there are.
Counted ==
    /\ IsFiniteSet(Holding)
    /\ Len(slots) + Cardinality(Holding) <= MaxTransfers
    /\ reaper = "waits" => Len(slots) + Cardinality(Holding) = MaxTransfers

\* Every open connection is in a slot or with a holder.
Found == \A n \in open : (\E r \in Holding : c[r] = n) \/ In(n, slots)

TransfersInv == TypeOK /\ NoneBetween /\ NotShared /\ Counted /\ Found

LEMMA InitTransfersInv == Init => TransfersInv
<1> SUFFICES ASSUME Init PROVE TransfersInv
  OBVIOUS
<1> USE TransfersAssumption
<1>1. slots \in Seq(Conns \cup {NoConn}) /\ Len(slots) = MaxTransfers
  BY DEF Init
<1>2. \A i \in 1..Len(slots) : slots[i] = NoConn
  BY <1>1 DEF Init
<1>3. Holding = {}
  BY DEF Init, Holding
<1>4. TypeOK
  BY <1>1 DEF Init, TypeOK
<1>5. Counted
  BY <1>1, <1>3, FS_EmptySet DEF Counted
<1> QED  BY <1>2, <1>3, <1>4, <1>5 DEF Init, TransfersInv, NoneBetween, NotShared, Found

\* A slot taken: its connection, if any, is the reader's now and nowhere else.
LEMMA TakeSlotInv ==
    ASSUME TransfersInv, NEW r \in Readers, TakeSlot(r)
    PROVE  TransfersInv'
<1> USE TransfersAssumption
<1>1. /\ slots \in Seq(Conns \cup {NoConn}) /\ slots # <<>> /\ at[r] = "wait"
      /\ slots' = Tail(slots) /\ c' = [c EXCEPT ![r] = Head(slots)]
      /\ at' = [at EXCEPT ![r] = "check"]
      /\ UNCHANGED <<keep, armed, cancels, open, done, reaper>>
  BY DEF TakeSlot, TransfersInv, TypeOK
<1>2. /\ Head(slots) \in Conns \cup {NoConn} /\ Head(slots) = slots[1]
      /\ slots' \in Seq(Conns \cup {NoConn})
      /\ Len(slots) \in Nat \ {0} /\ Len(slots') = Len(slots) - 1
      /\ \A i \in 1..(Len(slots) - 1) : slots'[i] = slots[i + 1]
  BY <1>1, TailFacts
<1>3. TypeOK' /\ NoneBetween'
  BY <1>1, <1>2 DEF TransfersInv, TypeOK, NoneBetween
<1>4. \A n : In(n, slots) <=> n = slots[1] \/ In(n, slots')
  <2>1. ASSUME NEW n, In(n, slots) PROVE n = slots[1] \/ In(n, slots')
    <3>1. PICK i \in 1..Len(slots) : slots[i] = n
      BY <2>1 DEF In
    <3>2. CASE i # 1
      <4>1. i - 1 \in 1..Len(slots') /\ slots'[i - 1] = slots[i]
        BY <1>2, <3>2
      <4> QED  BY <3>1, <4>1 DEF In
    <3> QED  BY <3>1, <3>2
  <2>2. ASSUME NEW n, In(n, slots') PROVE In(n, slots)
    <3>1. PICK i \in 1..Len(slots') : slots'[i] = n
      BY <2>2 DEF In
    <3>2. i + 1 \in 1..Len(slots) /\ slots[i + 1] = n
      BY <1>2, <3>1
    <3> QED  BY <3>2 DEF In
  <2>3. In(slots[1], slots)
    BY <1>2 DEF In
  <2> QED  BY <2>1, <2>2, <2>3
<1>5. NotShared'
  <2>1. \A i \in 1..Len(slots') : slots'[i] = slots[1] => slots[1] = NoConn
    <3> SUFFICES ASSUME NEW i \in 1..Len(slots'), slots'[i] = slots[1], slots[1] # NoConn PROVE FALSE
      OBVIOUS
    <3>1. i + 1 \in 1..Len(slots) /\ 1 \in 1..Len(slots) /\ slots[i + 1] = slots[1] /\ i + 1 # 1
      BY <1>2
    <3> QED  BY <3>1 DEF TransfersInv, NotShared
  <2>2. \A q \in Readers : c[q] = slots[1] => slots[1] = NoConn
    BY <1>4 DEF TransfersInv, NotShared
  <2>3. \A i, j \in 1..Len(slots') : slots'[i] = slots'[j] /\ slots'[i] # NoConn => i = j
    <3> SUFFICES ASSUME NEW i \in 1..Len(slots'), NEW j \in 1..Len(slots'),
                        slots'[i] = slots'[j], slots'[i] # NoConn
                 PROVE  i = j
      OBVIOUS
    <3>1. i + 1 \in 1..Len(slots) /\ j + 1 \in 1..Len(slots)
          /\ slots[i + 1] = slots[j + 1] /\ slots[i + 1] # NoConn
      BY <1>2
    <3>2. i + 1 = j + 1
      BY <3>1 DEF TransfersInv, NotShared
    <3> QED  BY <3>2, <1>2
  <2>4. \A q \in Readers : c'[q] = IF q = r THEN slots[1] ELSE c[q]
    BY <1>1, <1>2 DEF TransfersInv, TypeOK
  <2>5. \A q, s \in Readers : c'[q] = c'[s] /\ c'[s] # NoConn => q = s
    BY <2>2, <2>4 DEF TransfersInv, NotShared
  <2>6. \A q \in Readers : c'[q] # NoConn => ~In(c'[q], slots')
    <3>1. slots[1] # NoConn => ~In(slots[1], slots')
      BY <2>1 DEF In
    <3>2. \A q \in Readers : c[q] # NoConn => ~In(c[q], slots')
      BY <1>4 DEF TransfersInv, NotShared
    <3> QED  BY <2>4, <3>1, <3>2
  <2> QED  BY <2>3, <2>5, <2>6 DEF NotShared, In
<1>6. Holding' = Holding \cup {r} /\ r \notin Holding
  BY <1>1 DEF Holding, TransfersInv, TypeOK
<1>7. Counted'
  <2>1. IsFiniteSet(Holding') /\ Cardinality(Holding') = Cardinality(Holding) + 1
    BY <1>6, FS_AddElement DEF TransfersInv, Counted
  <2>2. Cardinality(Holding) \in Nat
    BY FS_CardinalityType DEF TransfersInv, Counted
  <2>3. /\ Len(slots) \in Nat /\ Len(slots') = Len(slots) - 1
        /\ reaper' = reaper
    BY <1>1, <1>2
  <2>4. Len(slots') + Cardinality(Holding') = Len(slots) + Cardinality(Holding)
    BY <2>1, <2>2, <2>3
  <2> QED  BY <2>1, <2>3, <2>4 DEF TransfersInv, Counted
<1>8. Found'
  <2>1. \A q \in Holding : c'[q] = c[q] /\ q \in Holding'
    BY <1>1, <1>6 DEF TransfersInv, TypeOK, Holding
  <2>2. r \in Holding' /\ c'[r] = slots[1]
    BY <1>1, <1>2, <1>6 DEF TransfersInv, TypeOK
  <2>3. \A n \in open : (\E q \in Holding' : c'[q] = n) \/ In(n, slots')
    BY <1>4, <2>1, <2>2 DEF TransfersInv, Found
  <2> QED  BY <1>1, <2>3 DEF Found, In
<1> QED  BY <1>3, <1>5, <1>7, <1>8 DEF TransfersInv

\* A slot given back, with the reader's connection or none.
LEMMA PutInv ==
    ASSUME TransfersInv, NEW r \in Readers, Put(r)
    PROVE  TransfersInv'
<1> USE TransfersAssumption
<1> DEFINE e == IF keep[r] THEN c[r] ELSE NoConn
<1>1. /\ slots \in Seq(Conns \cup {NoConn}) /\ e \in Conns \cup {NoConn} /\ at[r] = "put"
      /\ slots' = Append(slots, e) /\ c' = [c EXCEPT ![r] = NoConn]
      /\ open' = (IF keep[r] THEN open ELSE open \ {c[r]})
      /\ keep' = [keep EXCEPT ![r] = FALSE]
      /\ at' = [at EXCEPT ![r] = "out"] /\ cancels' = cancels \ {r}
      /\ UNCHANGED <<armed, done, reaper>> /\ Len(slots) < MaxTransfers
  BY DEF Put, Out, TransfersInv, TypeOK
<1> HIDE DEF e
<1>2. /\ slots' \in Seq(Conns \cup {NoConn})
      /\ Len(slots) \in Nat /\ Len(slots') = Len(slots) + 1
      /\ \A i \in 1..Len(slots) : slots'[i] = slots[i]
      /\ slots'[Len(slots) + 1] = e
  BY <1>1, AppendFacts
<1>3. TypeOK' /\ NoneBetween'
  BY <1>1, <1>2 DEF TransfersInv, TypeOK, NoneBetween
<1>4. \A n : In(n, slots') <=> n = e \/ In(n, slots)
  BY <1>2 DEF In
<1>5. \A q \in Readers : c'[q] = IF q = r THEN NoConn ELSE c[q]
  BY <1>1 DEF TransfersInv, TypeOK
<1>6. e = NoConn \/ e = c[r]
  BY DEF e
<1>7. NotShared'
  <2>1. \A q, s \in Readers : c'[q] = c'[s] /\ c'[s] # NoConn => q = s
    BY <1>5 DEF TransfersInv, NotShared
  <2>2. \A q \in Readers : c'[q] # NoConn => ~In(c'[q], slots')
    BY <1>4, <1>5, <1>6 DEF TransfersInv, NotShared
  <2>3. e # NoConn => ~In(e, slots)
    BY <1>6 DEF TransfersInv, NotShared
  <2>4. \A i, j \in 1..Len(slots') : slots'[i] = slots'[j] /\ slots'[i] # NoConn => i = j
    BY <1>2, <2>3 DEF TransfersInv, NotShared, In
  <2> QED  BY <2>1, <2>2, <2>4 DEF NotShared, In
<1>8. Holding' = Holding \ {r} /\ r \in Holding
  BY <1>1 DEF Holding, TransfersInv, TypeOK
<1>9. Counted'
  <2>1. IsFiniteSet(Holding') /\ Cardinality(Holding') = Cardinality(Holding) - 1
    BY <1>8, FS_RemoveElement DEF TransfersInv, Counted
  <2>2. Cardinality(Holding) \in Nat
    BY FS_CardinalityType DEF TransfersInv, Counted
  <2> HIDE <1>8
  <2> QED  BY <1>1, <1>2, <2>1, <2>2 DEF TransfersInv, Counted
<1>10. Found'
  <2>1. \A n \in open' : n \in open /\ (n = c[r] => n = e)
    BY <1>1 DEF e
  <2>2. \A n \in open' : (\E q \in Holding' : c'[q] = n) \/ In(n, slots')
    BY <1>4, <1>5, <1>8, <2>1 DEF TransfersInv, Found, Holding
  <2> QED  BY <2>2 DEF Found, In
<1> QED  BY <1>3, <1>7, <1>9, <1>10 DEF TransfersInv

\* The reaper takes a slot for good, and closes what lies in it.
LEMMA ReaperTakesInv ==
    ASSUME TransfersInv, ReaperTakes
    PROVE  TransfersInv'
<1> USE TransfersAssumption
<1>1. /\ slots \in Seq(Conns \cup {NoConn}) /\ slots # <<>> /\ reaper = "takes" /\ reaper' = "looks"
      /\ slots' = Tail(slots) /\ open' = open \ {Head(slots)}
      /\ UNCHANGED <<at, c, keep, armed, cancels, done>>
  BY DEF ReaperTakes, TransfersInv, TypeOK
<1>2. /\ Head(slots) \in Conns \cup {NoConn} /\ Head(slots) = slots[1]
      /\ slots' \in Seq(Conns \cup {NoConn})
      /\ Len(slots) \in Nat \ {0} /\ Len(slots') = Len(slots) - 1
      /\ \A i \in 1..(Len(slots) - 1) : slots'[i] = slots[i + 1]
  BY <1>1, TailFacts
<1>3. TypeOK' /\ NoneBetween'
  BY <1>1, <1>2 DEF TransfersInv, TypeOK, NoneBetween
<1>4. \A n : In(n, slots') => In(n, slots)
  <2> SUFFICES ASSUME NEW n, NEW i \in 1..Len(slots'), slots'[i] = n PROVE In(n, slots)
    BY DEF In
  <2>1. i + 1 \in 1..Len(slots) /\ slots[i + 1] = n
    BY <1>2
  <2> QED  BY <2>1 DEF In
<1>5. \A n : In(n, slots) /\ n # slots[1] => In(n, slots')
  <2> SUFFICES ASSUME NEW n, NEW i \in 1..Len(slots), slots[i] = n, n # slots[1] PROVE In(n, slots')
    BY DEF In
  <2>1. i # 1
    OBVIOUS
  <2>2. i - 1 \in 1..Len(slots') /\ slots'[i - 1] = n
    BY <1>2, <2>1
  <2> QED  BY <2>2 DEF In
<1>6. NotShared'
  <2>1. \A i, j \in 1..Len(slots') : slots'[i] = slots'[j] /\ slots'[i] # NoConn => i = j
    <3> SUFFICES ASSUME NEW i \in 1..Len(slots'), NEW j \in 1..Len(slots'),
                        slots'[i] = slots'[j], slots'[i] # NoConn
                 PROVE  i = j
      OBVIOUS
    <3>1. i + 1 \in 1..Len(slots) /\ j + 1 \in 1..Len(slots)
          /\ slots[i + 1] = slots[j + 1] /\ slots[i + 1] # NoConn
      BY <1>2
    <3>2. i + 1 = j + 1
      BY <3>1 DEF TransfersInv, NotShared
    <3> QED  BY <3>2, <1>2
  <2>2. \A q \in Readers : c[q] # NoConn => ~In(c[q], slots')
    BY <1>4 DEF TransfersInv, NotShared
  <2> QED  BY <1>1, <2>1, <2>2 DEF TransfersInv, NotShared, In
<1>7. Holding' = Holding
  BY <1>1 DEF Holding
<1>8. Counted'
  <2>1. Cardinality(Holding) \in Nat
    BY FS_CardinalityType DEF TransfersInv, Counted
  <2> QED  BY <1>1, <1>2, <1>7, <2>1 DEF TransfersInv, Counted
<1>9. Found'
  <2>1. \A n \in open' : (\E q \in Holding : c[q] = n) \/ In(n, slots')
    BY <1>1, <1>2, <1>5 DEF TransfersInv, Found
  <2> QED  BY <1>1, <1>7, <2>1 DEF Found, In
<1> QED  BY <1>3, <1>6, <1>8, <1>9 DEF TransfersInv

\* The steps that leave the slots and who holds one alone.
LEMMA OtherStepsInv ==
    ASSUME TransfersInv, UNCHANGED slots, Holding' = Holding,
           reaper' = "waits" => reaper = "waits",
           TypeOK', NoneBetween',
           \A q, r \in Readers : c'[q] = c'[r] /\ c'[r] # NoConn => q = r,
           \A r \in Readers : c'[r] # NoConn => ~In(c'[r], slots),
           \A n \in open' : (\E r \in Holding : c'[r] = n) \/ In(n, slots)
    PROVE  TransfersInv'
BY DEF TransfersInv, Counted, NotShared, Found, In

LEMMA NextTransfersInv == TransfersInv /\ [Next]_vars => TransfersInv'
<1> SUFFICES ASSUME TransfersInv, [Next]_vars PROVE TransfersInv'
  OBVIOUS
<1> USE TransfersAssumption
<1>1. ASSUME NEW r \in Readers, Call(r) \/ GiveUp(r) \/ Cancel(r) PROVE TransfersInv'
  <2>1. UNCHANGED <<slots, c, open, reaper, keep, armed, done>>
    BY <1>1 DEF Call, GiveUp, Cancel
  <2>2. TypeOK' /\ NoneBetween' /\ Holding' = Holding
    BY <1>1, <2>1 DEF Call, GiveUp, Cancel, Out, TransfersInv, TypeOK, NoneBetween, Holding
  <2> QED  BY <2>1, <2>2, OtherStepsInv DEF TransfersInv, NotShared, Found
<1>2. ASSUME NEW r \in Readers, Check(r) PROVE TransfersInv'
  <2>1. UNCHANGED <<slots, reaper, keep, cancels, done>>
    BY <1>2 DEF Check
  <2>2. TypeOK' /\ NoneBetween' /\ Holding' = Holding
    BY <1>2, <2>1 DEF Check, TransfersInv, TypeOK, NoneBetween, Holding
  <2>3. \/ c' = c /\ open' = open
        \/ c' = [c EXCEPT ![r] = NoConn] /\ open' = open \ {c[r]}
    BY <1>2 DEF Check
  <2>4. /\ \A q \in Readers : c'[q] \in {c[q], NoConn}
        /\ \A n \in open' : n \in open /\ \A q \in Readers : c[q] = n => c'[q] = n
    BY <2>3 DEF TransfersInv, TypeOK
  <2>5. \A q, s \in Readers : c'[q] = c'[s] /\ c'[s] # NoConn => q = s
    BY <2>4 DEF TransfersInv, NotShared
  <2>6. \A q \in Readers : c'[q] # NoConn => ~In(c'[q], slots)
    BY <2>4 DEF TransfersInv, NotShared
  <2>7. \A n \in open' : (\E q \in Holding : c'[q] = n) \/ In(n, slots)
    BY <2>4 DEF TransfersInv, Found, Holding
  <2> QED  BY <2>1, <2>2, <2>5, <2>6, <2>7, OtherStepsInv
<1>3. ASSUME NEW r \in Readers, DialOk(r) PROVE TransfersInv'
  <2>1. PICK n \in Conns \ open :
            /\ n \notin {c[q] : q \in Readers} \cup {slots[i] : i \in 1..Len(slots)}
            /\ c' = [c EXCEPT ![r] = n] /\ open' = open \cup {n}
    BY <1>3 DEF DialOk
  <2>2. UNCHANGED <<slots, reaper, keep, cancels, done>> /\ at[r] = "dial"
    BY <1>3 DEF DialOk
  <2>3. TypeOK' /\ NoneBetween' /\ Holding' = Holding /\ r \in Holding
    BY <1>3, <2>1, <2>2 DEF DialOk, TransfersInv, TypeOK, NoneBetween, Holding
  <2>4. c[r] = NoConn /\ ~In(n, slots) /\ \A q \in Readers : c[q] # n
    BY <2>1, <2>2 DEF TransfersInv, NoneBetween, In
  <2>5. \A q \in Readers : c'[q] = IF q = r THEN n ELSE c[q]
    BY <2>1 DEF TransfersInv, TypeOK
  <2>6. \A q, s \in Readers : c'[q] = c'[s] /\ c'[s] # NoConn => q = s
    BY <2>4, <2>5 DEF TransfersInv, NotShared
  <2>7. \A q \in Readers : c'[q] # NoConn => ~In(c'[q], slots)
    BY <2>4, <2>5 DEF TransfersInv, NotShared
  <2>8. \A m \in open : m # NoConn
    BY DEF TransfersInv, TypeOK
  <2>9. \A m \in open' : (\E q \in Holding : c'[q] = m) \/ In(m, slots)
    BY <2>1, <2>3, <2>4, <2>5, <2>8 DEF TransfersInv, Found, Holding
  <2> QED  BY <2>2, <2>3, <2>6, <2>7, <2>9, OtherStepsInv
<1>4. ASSUME NEW r \in Readers, DialFails(r) \/ Returns(r) PROVE TransfersInv'
  <2>1. UNCHANGED <<slots, c, open, reaper, cancels, done>>
    BY <1>4 DEF DialFails, Returns
  <2>2. TypeOK' /\ NoneBetween' /\ Holding' = Holding
    BY <1>4, <2>1 DEF DialFails, Returns, TransfersInv, TypeOK, NoneBetween, Holding
  <2> QED  BY <2>1, <2>2, OtherStepsInv DEF TransfersInv, NotShared, Found
<1>5. ASSUME UNCHANGED <<slots, at, c, keep, cancels>>, armed' \subseteq armed, open' \subseteq open,
             done' \in BOOLEAN, reaper' \in {"waits", "looks", "takes", "gone"},
             reaper' = "waits" => reaper = "waits"
      PROVE  TransfersInv'
  <2>1. TypeOK' /\ NoneBetween' /\ Holding' = Holding
    BY <1>5 DEF TransfersInv, TypeOK, NoneBetween, Holding
  <2> QED  BY <1>5, <2>1, OtherStepsInv DEF TransfersInv, NotShared, Found
<1>6. ASSUME NEW r \in Readers, TimerCloses(r) PROVE TransfersInv'
  BY <1>5, <1>6 DEF TimerCloses, TransfersInv, TypeOK
<1>7. ASSUME Close \/ ReaperLooks \/ \E n \in Conns : ServerDrops(n) PROVE TransfersInv'
  BY <1>5, <1>7 DEF Close, ReaperLooks, ServerDrops, TransfersInv, TypeOK
<1>8. CASE UNCHANGED vars
  BY <1>5, <1>8 DEF vars, TransfersInv, TypeOK
<1> QED
  BY <1>1, <1>2, <1>3, <1>4, <1>6, <1>7, <1>8, TakeSlotInv, PutInv, ReaperTakesInv DEF Next

----------------------------------------------------------------------------

LEMMA TransfersInvHolds == Spec => []TransfersInv
BY InitTransfersInv, NextTransfersInv, PTL DEF Spec

\* Every slot DoIMAPTransfer takes is accounted for until the reaper drains the
\* channel, and no connection is open that is not in a slot or in use.
THEOREM SlotsStayAccounted == Spec => []SlotsAccounted
<1>1. TransfersInv => SlotsAccounted
  BY DEF TransfersInv, Counted, Found, In, SlotsAccounted
<1> QED  BY <1>1, TransfersInvHolds, PTL

\* The deferred send of the slot always finds room in the channel, so a
\* transfer that is over never blocks its caller.
THEOREM PutFindsRoom == Spec => [](\A r \in Readers : at[r] = "put" => Len(slots) < MaxTransfers)
<1>1. ASSUME TransfersInv, NEW r \in Readers, at[r] = "put" PROVE Len(slots) < MaxTransfers
  <2>1. r \in Holding
    BY <1>1 DEF Holding
  <2>2. IsFiniteSet(Holding) /\ Cardinality(Holding) \in Nat /\ Cardinality(Holding) # 0
    BY <1>1, <2>1, FS_EmptySet, FS_CardinalityType DEF TransfersInv, Counted
  <2>3. Len(slots) \in Nat
    BY <1>1 DEF TransfersInv, TypeOK
  <2> QED  BY <1>1, <2>2, <2>3, TransfersAssumption DEF TransfersInv, Counted
<1>2. TransfersInv => \A r \in Readers : at[r] = "put" => Len(slots) < MaxTransfers
  BY <1>1
<1> QED  BY <1>2, TransfersInvHolds, PTL

\* No two transfers run on one connection, and none on one that lies in a slot
\* for the next (DoIMAPTransfer takes the connection out of the slot it has).
THEOREM ConnectionsUnshared == Spec => []NotShared
<1>1. TransfersInv => NotShared
  BY DEF TransfersInv
<1> QED  BY <1>1, TransfersInvHolds, PTL
=============================================================================
