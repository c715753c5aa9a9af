-------------------------- MODULE SendClaimProofs --------------------------
(***************************************************************************)
(* Theorems about SendClaim, for every set of submissions and messages and *)
(* every length of time a claim is kept.                                   *)
(***************************************************************************)
EXTENDS SendClaim, TLAPS

----------------------------------------------------------------------------
(* What a submission has done when it is at a step *)

\* The server's yes is this submission's own, and is counted.
AcceptedCounted ==
    \A p \in Posts :
        /\ accepted[p] => copies[msg[p]] > 0
        /\ pc[p] \in {"claim", "sent", "deliver", "release"} => ~accepted[p]
        /\ pc[p] \in {"record", "answer", "file", "draft", "finish"} => accepted[p]

\* Nobody is told of a failure while DATA may still be taken, and DATA once
\* begun is marked so.
NotToldYet ==
    \A p \in Posts :
        /\ pc[p] \in {"claim", "sent", "deliver", "data"} => answer[p] = "none"
        /\ pc[p] = "data" => started[p]

\* The draft's turn comes once the copy is in Sent, and a follow-up that has
\* had no failure has done both.
FollowedUp ==
    \A p \in Posts :
        /\ pc[p] = "draft" => filed[msg[p]]
        /\ pc[p] = "finish" /\ ~after[p] => filed[msg[p]] /\ ~draft[msg[p]]

StepsInv ==
    /\ TypeOK /\ AcceptedCounted /\ NotToldYet /\ FollowedUp
    /\ DraftOutlivesSend /\ ClaimTellsTruth /\ FailedIsUnsent

----------------------------------------------------------------------------
(* What holds of a message within Keep of its first claim *)

InWindow(m) == first[m] # Never /\ now < first[m] + Keep

\* The submissions that are behind the message's claim.
Working(p, m) ==
    msg[p] = m /\ pc[p] \in {"sent", "deliver", "data", "record", "answer", "file", "draft", "finish", "release"}

\* A claim is no older than the first one, so none expires within the window;
\* before the first one nothing has happened to the message.
ClaimsSinceFirst ==
    \A m \in Messages :
        /\ first[m] <= now
        /\ claim[m] # NoClaim => first[m] # Never /\ claim[m].at >= first[m]
        /\ first[m] = Never => copies[m] = 0 /\ \A p \in Posts : ~Working(p, m)

\* One submission at a time is behind the claim, and it or an earlier one has
\* had the server's yes if there is a copy.
OneAtATime ==
    \A m \in Messages : InWindow(m) =>
        /\ \A p, q \in Posts : Working(p, m) /\ Working(q, m) => p = q
        /\ \A p \in Posts : Working(p, m) => claim[m] # NoClaim
        /\ claim[m] = NoClaim => copies[m] = 0
        /\ \A p \in Posts : Working(p, m) /\ ~accepted[p] => copies[m] = 0

WindowInv == ClaimsSinceFirst /\ OneAtATime /\ OneCopyInWindow

SendInv == StepsInv /\ WindowInv


LEMMA InitSendInv == Init => SendInv
<1> SUFFICES ASSUME Init PROVE SendInv
  OBVIOUS
<1> USE SendClaimAssumption
<1>1. TypeOK
  BY DEF Init, TypeOK, Times, NoClaim, Never, Steps, Answers
<1> QED  BY <1>1 DEF Init, SendInv, StepsInv, AcceptedCounted, NotToldYet, FollowedUp,
              DraftOutlivesSend, ClaimTellsTruth, FailedIsUnsent, WindowInv, ClaimsSinceFirst,
              OneAtATime, OneCopyInWindow, InWindow, Working, NoClaim, Never

----------------------------------------------------------------------------
(* Types *)

LEMMA SweptType ==
    ASSUME TypeOK, NEW t
    PROVE  /\ Swept(t) \in [Messages -> [state : {"none", "claiming", "accepted", "complete", "partial"}, at : Times]]
           /\ \A m \in Messages : Swept(t)[m] \in {claim[m], NoClaim} /\ Swept(t)[m].at <= now
<1>1. NoClaim \in [state : {"none", "claiming", "accepted", "complete", "partial"}, at : Times] /\ NoClaim.at <= now
  BY SendClaimAssumption DEF NoClaim, Times, TypeOK
<1> QED  BY <1>1 DEF Swept, TypeOK

LEMMA RecordType ==
    ASSUME TypeOK, NEW m \in Messages, NEW s \in {"none", "accepted", "complete", "partial"}, Record(m, s)
    PROVE  /\ claim' \in [Messages -> [state : {"none", "claiming", "accepted", "complete", "partial"}, at : Times]]
           /\ \A k \in Messages : claim'[k].at <= now
           /\ claim'[m] = IF s = "none" THEN NoClaim ELSE [state |-> s, at |-> now]
           /\ \A k \in Messages \ {m} : claim'[k] = claim[k]
BY SendClaimAssumption DEF Record, NoClaim, TypeOK, Times

LEMMA NextTypeOK == TypeOK /\ [Next]_vars => TypeOK'
<1> SUFFICES ASSUME TypeOK, [Next]_vars PROVE TypeOK'
  OBVIOUS
<1> USE SendClaimAssumption
<1>1. ASSUME NEW p \in Posts, Submit(p) PROVE TypeOK'
  <2>1. PICK m \in Messages : msg' = [msg EXCEPT ![p] = m]
    BY <1>1 DEF Submit
  <2>2. now <= now
    BY DEF TypeOK, Times
  <2> QED  BY <1>1, <2>1, <2>2 DEF Submit, Goto, Tell, TypeOK, Steps, Answers
<1>2. ASSUME NEW p \in Posts, ClaimFresh(p) PROVE TypeOK'
  <2>1. [state |-> "claiming", at |-> stamp[p]] \in [state : {"none", "claiming", "accepted", "complete", "partial"}, at : Times]
    BY DEF TypeOK
  <2>2. /\ claim' \in [Messages -> [state : {"none", "claiming", "accepted", "complete", "partial"}, at : Times]]
        /\ \A m \in Messages : claim'[m].at <= now
    BY <1>2, <2>1, SweptType DEF ClaimFresh, TypeOK
  <2> QED  BY <1>2, <2>2 DEF ClaimFresh, Goto, request, outside, TypeOK, Steps
<1>3. ASSUME NEW p \in Posts, ClaimHeld(p) PROVE TypeOK'
  <2>1. /\ claim' \in [Messages -> [state : {"none", "claiming", "accepted", "complete", "partial"}, at : Times]]
        /\ \A m \in Messages : claim'[m].at <= now
    BY <1>3, SweptType DEF ClaimHeld
  <2> QED  BY <1>3, <2>1 DEF ClaimHeld, Goto, Tell, outside, TypeOK, Steps, Answers
<1>4. ASSUME NEW p \in Posts, ClaimFails(p) PROVE TypeOK'
  BY <1>4 DEF ClaimFails, Goto, Tell, outside, TypeOK, Steps, Answers
<1>5. ASSUME NEW p \in Posts, FindSent(p) PROVE TypeOK'
  BY <1>5 DEF FindSent, Goto, Tell, outside, TypeOK, Steps, Answers
<1>6. ASSUME NEW p \in Posts, DeliverFails(p) PROVE TypeOK'
  BY <1>6 DEF DeliverFails, Goto, Tell, outside, TypeOK, Steps, Answers
<1>7. ASSUME NEW p \in Posts, StartData(p) PROVE TypeOK'
  BY <1>7 DEF StartData, Goto, outside, TypeOK, Steps, Answers
<1>8. ASSUME NEW p \in Posts, ServerAccepts(p) PROVE TypeOK'
  <2>1. \A k \in 0..2 : (IF k = 2 THEN 2 ELSE k + 1) \in 0..2
    OBVIOUS
  <2>2. copies' \in [Messages -> 0..2]
    BY <1>8, <2>1 DEF ServerAccepts, TypeOK
  <2> QED  BY <1>8, <2>2 DEF ServerAccepts, request, TypeOK
<1>9. ASSUME NEW p \in Posts, DataAccepted(p) PROVE TypeOK'
  BY <1>9 DEF DataAccepted, Goto, request, outside, TypeOK, Steps, Answers
<1>10. ASSUME NEW p \in Posts, DataRejected(p) PROVE TypeOK'
  BY <1>10 DEF DataRejected, Goto, Tell, outside, TypeOK, Steps, Answers
<1>11. ASSUME NEW p \in Posts, DataDrops(p) PROVE TypeOK'
  BY <1>11 DEF DataDrops, Goto, Tell, outside, TypeOK, Steps, Answers
<1>12. ASSUME NEW p \in Posts, ReleaseClaim(p) PROVE TypeOK'
  <2>1. /\ claim' \in [Messages -> [state : {"none", "claiming", "accepted", "complete", "partial"}, at : Times]]
        /\ \A m \in Messages : claim'[m].at <= now
    BY <1>12, RecordType DEF ReleaseClaim, TypeOK
  <2> QED  BY <1>12, <2>1 DEF ReleaseClaim, Goto, request, outside, TypeOK, Steps, Answers
<1>13. ASSUME NEW p \in Posts, RecordAccepted(p) PROVE TypeOK'
  <2>1. /\ claim' \in [Messages -> [state : {"none", "claiming", "accepted", "complete", "partial"}, at : Times]]
        /\ \A m \in Messages : claim'[m].at <= now
    BY <1>13, RecordType DEF RecordAccepted, TypeOK
  <2> QED  BY <1>13, <2>1 DEF RecordAccepted, Goto, outside, TypeOK, Steps, Answers
<1>14. ASSUME NEW p \in Posts, MarkAnswered(p) PROVE TypeOK'
  BY <1>14 DEF MarkAnswered, Goto, outside, TypeOK, Steps, Answers
<1>15. ASSUME NEW p \in Posts, FileInSent(p) PROVE TypeOK'
  BY <1>15 DEF FileInSent, Goto, TypeOK, Steps, Answers
<1>16. ASSUME NEW p \in Posts, DeleteDraft(p) PROVE TypeOK'
  BY <1>16 DEF DeleteDraft, Goto, TypeOK, Steps, Answers
<1>17. ASSUME NEW p \in Posts, FinishClaim(p) PROVE TypeOK'
  <2>1. /\ claim' \in [Messages -> [state : {"none", "claiming", "accepted", "complete", "partial"}, at : Times]]
        /\ \A m \in Messages : claim'[m].at <= now
    BY <1>17, RecordType DEF FinishClaim, TypeOK
  <2> QED  BY <1>17, <2>1 DEF FinishClaim, Goto, Tell, outside, TypeOK, Steps, Answers
<1>18. ASSUME NEW p \in Posts, EndSend(p) PROVE TypeOK'
  BY <1>18 DEF EndSend, Goto, request, outside, TypeOK, Steps, Answers
<1>19. CASE Crash
  BY <1>19 DEF Crash, outside, TypeOK, Steps, Answers
<1>20. CASE Tick
  BY <1>20 DEF Tick, request, outside, TypeOK, Times
<1>21. CASE UNCHANGED vars
  BY <1>21 DEF vars, TypeOK
<1> QED
  BY <1>1, <1>2, <1>3, <1>4, <1>5, <1>6, <1>7, <1>8, <1>9, <1>10, <1>11, <1>12, <1>13, <1>14, <1>15, <1>16, <1>17, <1>18, <1>19, <1>20, <1>21
     DEF Next, SubmitStep

----------------------------------------------------------------------------
(* The steps of a submission *)

\* One step keeps what is known of the submissions, claims and drafts.
LEMMA NextStepsInv == StepsInv /\ [Next]_vars => StepsInv'
<1> SUFFICES ASSUME StepsInv, [Next]_vars PROVE StepsInv'
  OBVIOUS
<1> DEFINE Rest == /\ AcceptedCounted /\ NotToldYet /\ FollowedUp
                   /\ DraftOutlivesSend /\ ClaimTellsTruth /\ FailedIsUnsent
<1>t. TypeOK /\ TypeOK' /\ Rest
  BY NextTypeOK DEF StepsInv
<1>s. SUFFICES Rest'
  BY <1>t DEF StepsInv
<1>m. \A p \in Posts : msg[p] \in Messages
  BY <1>t DEF TypeOK
<1> HIDE DEF Rest
<1>1. ASSUME NEW p \in Posts, Submit(p) PROVE Rest'
  BY <1>1, <1>t, <1>m DEF Rest, Submit, Goto, Tell, TypeOK, AcceptedCounted, NotToldYet, FollowedUp, DraftOutlivesSend, ClaimTellsTruth, FailedIsUnsent
<1>2. ASSUME NEW p \in Posts, ClaimFresh(p) PROVE Rest'
  <2>1. \A m \in Messages : claim'[m].state \notin {"accepted", "partial", "complete"} \/ claim'[m] = claim[m]
    BY <1>2, <1>t, <1>m, SweptType DEF ClaimFresh, TypeOK, NoClaim
  <2> QED  BY <1>2, <1>t, <2>1 DEF Rest, ClaimFresh, Goto, request, outside, TypeOK, AcceptedCounted, NotToldYet, FollowedUp, DraftOutlivesSend, ClaimTellsTruth, FailedIsUnsent
<1>3. ASSUME NEW p \in Posts, ClaimHeld(p) PROVE Rest'
  <2>1. /\ claim' = Swept(stamp[p]) /\ pc[p] = "claim"
        /\ pc' = [pc EXCEPT ![p] = "idle"] /\ answer' = [answer EXCEPT ![p] = "turned away"]
        /\ UNCHANGED <<msg, started, after, accepted, copies, filed, draft>>
    BY <1>3 DEF ClaimHeld, Goto, Tell, outside
  <2>2. \A m \in Messages : claim'[m] \in {claim[m], NoClaim}
    BY <1>t, <2>1, SweptType
  <2>3. ClaimTellsTruth'
    <3>1. NoClaim.state = "none"
      BY DEF NoClaim
    <3> QED  BY <1>t, <2>1, <2>2, <3>1 DEF Rest, ClaimTellsTruth
  <2>4. DraftOutlivesSend'
    BY <1>t, <2>1 DEF Rest, DraftOutlivesSend
  <2> QED  BY <1>t, <2>1, <2>3, <2>4 DEF Rest, TypeOK, AcceptedCounted, NotToldYet, FollowedUp, FailedIsUnsent
<1>4. ASSUME NEW p \in Posts, ClaimFails(p) PROVE Rest'
  BY <1>4, <1>t, <1>m DEF Rest, ClaimFails, Goto, Tell, outside, TypeOK, AcceptedCounted, NotToldYet, FollowedUp, DraftOutlivesSend, ClaimTellsTruth, FailedIsUnsent
<1>5. ASSUME NEW p \in Posts, FindSent(p) PROVE Rest'
  BY <1>5, <1>t, <1>m DEF Rest, FindSent, Goto, Tell, outside, TypeOK, AcceptedCounted, NotToldYet, FollowedUp, DraftOutlivesSend, ClaimTellsTruth, FailedIsUnsent
<1>6. ASSUME NEW p \in Posts, DeliverFails(p) PROVE Rest'
  BY <1>6, <1>t, <1>m DEF Rest, DeliverFails, Goto, Tell, outside, TypeOK, AcceptedCounted, NotToldYet, FollowedUp, DraftOutlivesSend, ClaimTellsTruth, FailedIsUnsent
<1>7. ASSUME NEW p \in Posts, StartData(p) PROVE Rest'
  BY <1>7, <1>t, <1>m DEF Rest, StartData, Goto, outside, TypeOK, AcceptedCounted, NotToldYet, FollowedUp, DraftOutlivesSend, ClaimTellsTruth, FailedIsUnsent
<1>8. ASSUME NEW p \in Posts, ServerAccepts(p) PROVE Rest'
  BY <1>8, <1>t, <1>m DEF Rest, ServerAccepts, request, TypeOK, AcceptedCounted, NotToldYet, FollowedUp, DraftOutlivesSend, ClaimTellsTruth, FailedIsUnsent
<1>9. ASSUME NEW p \in Posts, DataAccepted(p) PROVE Rest'
  BY <1>9, <1>t, <1>m DEF Rest, DataAccepted, Goto, request, outside, TypeOK, AcceptedCounted, NotToldYet, FollowedUp, DraftOutlivesSend, ClaimTellsTruth, FailedIsUnsent
<1>10. ASSUME NEW p \in Posts, DataRejected(p) PROVE Rest'
  BY <1>10, <1>t, <1>m DEF Rest, DataRejected, Goto, Tell, outside, TypeOK, AcceptedCounted, NotToldYet, FollowedUp, DraftOutlivesSend, ClaimTellsTruth, FailedIsUnsent
<1>11. ASSUME NEW p \in Posts, DataDrops(p) PROVE Rest'
  BY <1>11, <1>t, <1>m DEF Rest, DataDrops, Goto, Tell, outside, TypeOK, AcceptedCounted, NotToldYet, FollowedUp, DraftOutlivesSend, ClaimTellsTruth, FailedIsUnsent
<1>12. ASSUME NEW p \in Posts, ReleaseClaim(p) PROVE Rest'
  <2>1. \/ claim' = claim
        \/ /\ claim'[msg[p]].state = "none"
           /\ \A m \in Messages \ {msg[p]} : claim'[m] = claim[m]
    BY <1>12, <1>t, <1>m, RecordType DEF ReleaseClaim, NoClaim
  <2> QED  BY <1>12, <1>t, <1>m, <2>1 DEF Rest, ReleaseClaim, Goto, request, outside, TypeOK, AcceptedCounted, NotToldYet, FollowedUp, DraftOutlivesSend, ClaimTellsTruth, FailedIsUnsent
<1>13. ASSUME NEW p \in Posts, RecordAccepted(p) PROVE Rest'
  <2>1. \/ claim' = claim
        \/ /\ claim'[msg[p]].state = "accepted"
           /\ \A m \in Messages \ {msg[p]} : claim'[m] = claim[m]
    BY <1>13, <1>t, <1>m, RecordType DEF RecordAccepted, NoClaim
  <2> QED  BY <1>13, <1>t, <1>m, <2>1 DEF Rest, RecordAccepted, Goto, outside, TypeOK, AcceptedCounted, NotToldYet, FollowedUp, DraftOutlivesSend, ClaimTellsTruth, FailedIsUnsent
<1>14. ASSUME NEW p \in Posts, MarkAnswered(p) PROVE Rest'
  BY <1>14, <1>t, <1>m DEF Rest, MarkAnswered, Goto, outside, TypeOK, AcceptedCounted, NotToldYet, FollowedUp, DraftOutlivesSend, ClaimTellsTruth, FailedIsUnsent
<1>15. ASSUME NEW p \in Posts, FileInSent(p) PROVE Rest'
  BY <1>15, <1>t, <1>m DEF Rest, FileInSent, Goto, TypeOK, AcceptedCounted, NotToldYet, FollowedUp, DraftOutlivesSend, ClaimTellsTruth, FailedIsUnsent
<1>16. ASSUME NEW p \in Posts, DeleteDraft(p) PROVE Rest'
  BY <1>16, <1>t, <1>m DEF Rest, DeleteDraft, Goto, TypeOK, AcceptedCounted, NotToldYet, FollowedUp, DraftOutlivesSend, ClaimTellsTruth, FailedIsUnsent
<1>17. ASSUME NEW p \in Posts, FinishClaim(p) PROVE Rest'
  <2>1. \/ claim' = claim
        \/ /\ claim'[msg[p]].state = IF after[p] THEN "partial" ELSE "complete"
           /\ \A m \in Messages \ {msg[p]} : claim'[m] = claim[m]
    BY <1>17, <1>t, <1>m, RecordType DEF FinishClaim, NoClaim
  <2>2. /\ pc[p] = "finish" /\ pc' = [pc EXCEPT ![p] = "end"]
        /\ answer' = [answer EXCEPT ![p] = "warned"] \/ answer' = [answer EXCEPT ![p] = "sent"]
        /\ UNCHANGED <<msg, started, after, accepted, copies, filed, draft>>
    BY <1>17 DEF FinishClaim, Goto, Tell, outside
  <2>3. ClaimTellsTruth'
    <3>1. copies[msg[p]] > 0 /\ (~after[p] => filed[msg[p]] /\ ~draft[msg[p]])
      BY <1>t, <2>2 DEF Rest, AcceptedCounted, FollowedUp
    <3>2. CASE claim' = claim
      BY <1>t, <2>2, <3>2 DEF Rest, ClaimTellsTruth
    <3>3. CASE /\ claim'[msg[p]].state = IF after[p] THEN "partial" ELSE "complete"
               /\ \A m \in Messages \ {msg[p]} : claim'[m] = claim[m]
      BY <1>t, <1>m, <2>2, <3>1, <3>3 DEF Rest, ClaimTellsTruth
    <3> QED  BY <2>1, <3>2, <3>3
  <2>4. DraftOutlivesSend'
    BY <1>t, <2>2 DEF Rest, DraftOutlivesSend
  <2>5. AcceptedCounted' /\ FollowedUp'
    BY <1>t, <2>2 DEF Rest, TypeOK, AcceptedCounted, FollowedUp
  <2>6. NotToldYet' /\ FailedIsUnsent'
    BY <1>t, <2>2 DEF Rest, TypeOK, NotToldYet, FailedIsUnsent
  <2> QED  BY <2>3, <2>4, <2>5, <2>6 DEF Rest
<1>18. ASSUME NEW p \in Posts, EndSend(p) PROVE Rest'
  BY <1>18, <1>t, <1>m DEF Rest, EndSend, Goto, request, outside, TypeOK, AcceptedCounted, NotToldYet, FollowedUp, DraftOutlivesSend, ClaimTellsTruth, FailedIsUnsent
<1>19. CASE Crash
  BY <1>19, <1>t DEF Rest, Crash, outside, TypeOK, AcceptedCounted, NotToldYet, FollowedUp, DraftOutlivesSend, ClaimTellsTruth, FailedIsUnsent
<1>20. CASE Tick
  BY <1>20, <1>t DEF Rest, Tick, request, outside, AcceptedCounted, NotToldYet, FollowedUp, DraftOutlivesSend, ClaimTellsTruth, FailedIsUnsent
<1>21. CASE UNCHANGED vars
  BY <1>21, <1>t DEF Rest, vars, AcceptedCounted, NotToldYet, FollowedUp, DraftOutlivesSend, ClaimTellsTruth, FailedIsUnsent
<1> QED
  BY <1>1, <1>2, <1>3, <1>4, <1>5, <1>6, <1>7, <1>8, <1>9, <1>10, <1>11, <1>12, <1>13, <1>14, <1>15, <1>16, <1>17, <1>18, <1>19, <1>20, <1>21
     DEF Next, SubmitStep

----------------------------------------------------------------------------
(* The window *)

\* Within the window no claim is swept, whoever looks.
LEMMA NotSwept ==
    ASSUME TypeOK, WindowInv, NEW p \in Posts, NEW m \in Messages, InWindow(m)
    PROVE  Swept(stamp[p])[m] = claim[m]
<1>1. claim[m] # NoClaim => claim[m].at >= first[m]
  BY DEF WindowInv, ClaimsSinceFirst
<1>2. /\ stamp[p] \in Int /\ now \in Int /\ claim[m].at \in Int /\ first[m] \in Int
      /\ stamp[p] <= now
  BY DEF TypeOK, Times, Never
<1>3. ~Expired(m, stamp[p])
  BY <1>1, <1>2, SendClaimAssumption DEF Expired, InWindow
<1> QED  BY <1>3 DEF Swept

\* The steps that write no claim and count no copy.
LEMMA WindowFrame ==
    ASSUME TypeOK, WindowInv, TypeOK', UNCHANGED <<claim, copies, first>>, now <= now',
           \A p \in Posts, m \in Messages :
                Working(p, m)' => Working(p, m) /\ accepted'[p] = accepted[p]
    PROVE  WindowInv'
<1>1. \A m \in Messages : InWindow(m)' => InWindow(m)
  BY SendClaimAssumption DEF InWindow, TypeOK, Times, Never
<1>2. ClaimsSinceFirst'
  BY DEF WindowInv, ClaimsSinceFirst, TypeOK, Times, Never
<1>3. OneAtATime'
  BY <1>1 DEF WindowInv, OneAtATime
<1>4. OneCopyInWindow'
  BY <1>1 DEF WindowInv, OneCopyInWindow, InWindow
<1> QED  BY <1>2, <1>3, <1>4 DEF WindowInv

\* The claim of a working submission is written over with another.
LEMMA WindowRecorded ==
    ASSUME TypeOK, WindowInv, TypeOK', UNCHANGED <<copies, first, now, accepted>>, NEW p \in Posts, Working(p, msg[p]),
           claim'[msg[p]] # NoClaim, claim'[msg[p]].at = now,
           \A m \in Messages \ {msg[p]} : claim'[m] = claim[m],
           \A q \in Posts, m \in Messages : Working(q, m)' => Working(q, m)
    PROVE  WindowInv'
<1>1. \A m \in Messages : InWindow(m)' <=> InWindow(m)
  BY DEF InWindow
<1>2. msg[p] \in Messages
  BY DEF TypeOK
<1>3. ClaimsSinceFirst'
  <2>1. first[msg[p]] # Never /\ first[msg[p]] <= now
    BY <1>2 DEF WindowInv, ClaimsSinceFirst
  <2>2. first[msg[p]] \in Int /\ now \in Int
    BY <1>2 DEF TypeOK, Times, Never
  <2> QED  BY <2>1, <2>2 DEF WindowInv, ClaimsSinceFirst
<1>4. OneAtATime'
  <2>1. InWindow(msg[p]) => claim[msg[p]] # NoClaim
    BY <1>2 DEF WindowInv, OneAtATime
  <2> QED  BY <1>1, <1>2, <2>1 DEF WindowInv, OneAtATime
<1>5. OneCopyInWindow'
  BY <1>1 DEF WindowInv, OneCopyInWindow, InWindow
<1> QED  BY <1>3, <1>4, <1>5 DEF WindowInv

LEMMA NextWindowInv == SendInv /\ [Next]_vars => WindowInv'
<1> SUFFICES ASSUME SendInv, [Next]_vars PROVE WindowInv'
  OBVIOUS
<1> USE SendClaimAssumption
<1>t. TypeOK /\ TypeOK' /\ WindowInv /\ AcceptedCounted
  BY NextTypeOK DEF SendInv, StepsInv
<1>m. \A p \in Posts : msg[p] \in Messages
  BY <1>t DEF TypeOK
<1>n. now \in Int /\ now <= now
  BY <1>t DEF TypeOK, Times
<1>1. ASSUME NEW p \in Posts, Submit(p) \/ ClaimFails(p) \/ FindSent(p) \/ DeliverFails(p) \/ StartData(p)
                \/ DataAccepted(p) \/ DataRejected(p) \/ DataDrops(p) \/ MarkAnswered(p) \/ FileInSent(p)
                \/ DeleteDraft(p) \/ EndSend(p)
      PROVE  WindowInv'
  <2>1. UNCHANGED <<claim, copies, first, now>>
    BY <1>1 DEF Submit, ClaimFails, FindSent, DeliverFails, StartData, DataAccepted, DataRejected,
                DataDrops, MarkAnswered, FileInSent, DeleteDraft, EndSend, outside
  <2>2. \A q \in Posts, m \in Messages : Working(q, m)' => Working(q, m) /\ accepted'[q] = accepted[q]
    BY <1>1, <1>t DEF Submit, ClaimFails, FindSent, DeliverFails, StartData, DataAccepted, DataRejected,
                DataDrops, MarkAnswered, FileInSent, DeleteDraft, EndSend, outside, request, Goto, Working, TypeOK
  <2> QED  BY <1>t, <1>n, <2>1, <2>2, WindowFrame
<1>2. ASSUME NEW p \in Posts, ClaimFresh(p) PROVE WindowInv'
  <2>0. PICK m0 \in Messages : m0 = msg[p]
    BY <1>m
  <2>1. /\ m0 \in Messages /\ pc[p] = "claim" /\ Swept(stamp[p])[m0] = NoClaim
        /\ claim' = [Swept(stamp[p]) EXCEPT ![m0] = [state |-> "claiming", at |-> stamp[p]]]
        /\ first' = [first EXCEPT ![m0] = IF @ = Never \/ stamp[p] < @ THEN stamp[p] ELSE @]
        /\ UNCHANGED <<now, msg, accepted, copies>> /\ pc' = [pc EXCEPT ![p] = "sent"]
    BY <1>2, <2>0 DEF ClaimFresh, request, outside, Goto
  <2>2. stamp[p] \in Int /\ stamp[p] >= 0 /\ stamp[p] <= now /\ \A m \in Messages : first[m] \in Int /\ first[m] >= -1
    BY <1>t DEF TypeOK, Times, Never
  <2>3. /\ claim'[m0] = [state |-> "claiming", at |-> stamp[p]] /\ claim'[m0] # NoClaim /\ claim'[m0].at = stamp[p]
        /\ \A m \in Messages \ {m0} : claim'[m] = Swept(stamp[p])[m]
    BY <1>t, <2>1, SweptType DEF NoClaim
  <2>4. /\ first'[m0] = IF first[m0] = Never \/ stamp[p] < first[m0] THEN stamp[p] ELSE first[m0]
        /\ \A m \in Messages \ {m0} : first'[m] = first[m]
    BY <1>t, <2>1 DEF TypeOK
  <2>5. \A q \in Posts, m \in Messages : Working(q, m)' <=> Working(q, m) \/ (q = p /\ m = m0)
    BY <1>t, <2>0, <2>1 DEF Working, TypeOK
  <2>6. \A m \in Messages : InWindow(m)' => InWindow(m) \/ (m = m0 /\ first[m] = Never)
    BY <1>n, <2>1, <2>2, <2>4 DEF InWindow, Never
  <2>7. \A m \in Messages : InWindow(m) => Swept(stamp[p])[m] = claim[m]
    BY <1>t, NotSwept
  <2>8. InWindow(m0)' => copies[m0] = 0 /\ \A q \in Posts : ~Working(q, m0)
    <3>1. CASE first[m0] = Never
      BY <1>t, <2>1, <3>1 DEF WindowInv, ClaimsSinceFirst
    <3>2. CASE InWindow(m0)
      <4>1. claim[m0] = NoClaim
        BY <2>1, <2>7, <3>2
      <4> QED  BY <1>t, <2>1, <3>2, <4>1 DEF WindowInv, OneAtATime
    <3> QED  BY <2>1, <2>6, <3>1, <3>2
  <2>9. ClaimsSinceFirst'
    <3>1. ASSUME NEW m \in Messages
          PROVE  /\ first'[m] <= now'
                 /\ claim'[m] # NoClaim => first'[m] # Never /\ claim'[m].at >= first'[m]
                 /\ first'[m] = Never => copies'[m] = 0 /\ \A q \in Posts : ~Working(q, m)'
      <4>1. CASE m = m0
        BY <1>t, <2>1, <2>2, <2>3, <2>4, <4>1 DEF WindowInv, ClaimsSinceFirst, Never
      <4>2. CASE m # m0
        BY <1>t, <2>1, <2>3, <2>4, <2>5, <4>2, SweptType DEF WindowInv, ClaimsSinceFirst
      <4> QED  BY <4>1, <4>2
    <3> QED  BY <3>1 DEF ClaimsSinceFirst
  <2>10. OneAtATime'
    <3>1. ASSUME NEW m \in Messages, InWindow(m)'
          PROVE  /\ \A q, s \in Posts : Working(q, m)' /\ Working(s, m)' => q = s
                 /\ \A q \in Posts : Working(q, m)' => claim'[m] # NoClaim
                 /\ claim'[m] = NoClaim => copies'[m] = 0
                 /\ \A q \in Posts : Working(q, m)' /\ ~accepted'[q] => copies'[m] = 0
      <4>1. CASE m = m0
        BY <2>1, <2>3, <2>5, <2>8, <3>1, <4>1
      <4>2. CASE m # m0
        BY <1>t, <2>1, <2>3, <2>5, <2>6, <2>7, <3>1, <4>2 DEF WindowInv, OneAtATime
      <4> QED  BY <4>1, <4>2
    <3> QED  BY <3>1 DEF OneAtATime
  <2>11. OneCopyInWindow'
    <3>1. ASSUME NEW m \in Messages, InWindow(m)' PROVE copies'[m] <= 1
      <4>1. CASE m = m0
        BY <2>1, <2>8, <3>1, <4>1
      <4>2. CASE m # m0
        BY <1>t, <2>1, <2>6, <3>1, <4>2 DEF WindowInv, OneCopyInWindow, InWindow
      <4> QED  BY <4>1, <4>2
    <3> QED  BY <3>1 DEF OneCopyInWindow, InWindow
  <2> QED  BY <2>9, <2>10, <2>11 DEF WindowInv
<1>3. ASSUME NEW p \in Posts, ClaimHeld(p) PROVE WindowInv'
  <2>1. /\ claim' = Swept(stamp[p]) /\ UNCHANGED <<now, first, copies, accepted>>
    BY <1>3 DEF ClaimHeld, outside
  <2>2. \A q \in Posts, m \in Messages : Working(q, m)' => Working(q, m)
    BY <1>3, <1>t DEF ClaimHeld, Goto, Working, TypeOK
  <2>3. \A m \in Messages : InWindow(m)' => InWindow(m) /\ claim'[m] = claim[m]
    BY <1>t, <2>1, NotSwept DEF InWindow
  <2>4. \A m \in Messages : claim'[m] \in {claim[m], NoClaim}
    BY <1>t, <2>1, SweptType
  <2>5. ClaimsSinceFirst'
    BY <1>t, <2>1, <2>2, <2>4 DEF WindowInv, ClaimsSinceFirst
  <2>6. OneAtATime'
    BY <1>t, <2>1, <2>2, <2>3 DEF WindowInv, OneAtATime
  <2>7. OneCopyInWindow'
    BY <1>t, <2>1 DEF WindowInv, OneCopyInWindow
  <2> QED  BY <2>5, <2>6, <2>7 DEF WindowInv
<1>4. ASSUME NEW p \in Posts, ServerAccepts(p) PROVE WindowInv'
  <2>1. /\ pc[p] = "data" /\ ~accepted[p] /\ msg[p] \in Messages /\ Working(p, msg[p])
        /\ accepted' = [accepted EXCEPT ![p] = TRUE] /\ UNCHANGED <<now, claim, pc, msg, first>>
        /\ copies' = [copies EXCEPT ![msg[p]] = IF @ = 2 THEN 2 ELSE @ + 1]
    BY <1>4, <1>m DEF ServerAccepts, request, Working
  <2>2. InWindow(msg[p]) => copies[msg[p]] = 0 /\ copies'[msg[p]] = 1
    <3>1. InWindow(msg[p]) => copies[msg[p]] = 0
      BY <1>t, <2>1 DEF WindowInv, OneAtATime
    <3>2. copies'[msg[p]] = IF copies[msg[p]] = 2 THEN 2 ELSE copies[msg[p]] + 1
      BY <1>t, <2>1 DEF TypeOK
    <3> QED  BY <3>1, <3>2
  <2>3. \A m \in Messages \ {msg[p]} : copies'[m] = copies[m]
    BY <1>t, <2>1 DEF TypeOK
  <2>4. \A m \in Messages : (InWindow(m)' <=> InWindow(m)) /\ \A q \in Posts : Working(q, m)' <=> Working(q, m)
    BY <2>1 DEF InWindow, Working
  <2>5. ClaimsSinceFirst'
    BY <1>t, <2>1, <2>3, <2>4 DEF WindowInv, ClaimsSinceFirst
  <2>6. OneAtATime'
    <3>1. \A q \in Posts : accepted'[q] <=> accepted[q] \/ q = p
      BY <1>t, <2>1 DEF TypeOK
    <3> QED  BY <1>t, <2>1, <2>3, <2>4, <3>1 DEF WindowInv, OneAtATime
  <2>7. OneCopyInWindow'
    <3>1. \A m \in Messages : InWindow(m) => copies'[m] <= 1
      BY <1>t, <2>2, <2>3 DEF WindowInv, OneCopyInWindow, InWindow
    <3> QED  BY <2>4, <3>1 DEF OneCopyInWindow, InWindow
  <2> QED  BY <2>5, <2>6, <2>7 DEF WindowInv
<1>5. ASSUME NEW p \in Posts, ReleaseClaim(p) PROVE WindowInv'
  <2>1. /\ pc[p] = "release" /\ msg[p] \in Messages /\ Working(p, msg[p]) /\ ~accepted[p]
        /\ UNCHANGED <<now, first, copies, accepted, msg>> /\ pc' = [pc EXCEPT ![p] = "end"]
    BY <1>5, <1>t, <1>m DEF ReleaseClaim, Goto, request, outside, Working, AcceptedCounted
  <2>2. \A q \in Posts, m \in Messages : Working(q, m)' <=> Working(q, m) /\ q # p
    BY <1>t, <2>1 DEF Working, TypeOK
  <2>3. CASE claim' = claim
    BY <1>t, <1>n, <2>1, <2>2, <2>3, WindowFrame
  <2>4. CASE Record(msg[p], "none")
    <3>1. claim'[msg[p]] = NoClaim /\ \A m \in Messages \ {msg[p]} : claim'[m] = claim[m]
      BY <1>t, <2>1, <2>4, RecordType
    <3>2. \A m \in Messages : InWindow(m)' <=> InWindow(m)
      BY <2>1 DEF InWindow
    <3>3. InWindow(msg[p]) => copies[msg[p]] = 0 /\ \A q \in Posts : Working(q, msg[p]) => q = p
      BY <1>t, <2>1 DEF WindowInv, OneAtATime
    <3>4. ClaimsSinceFirst'
      BY <1>t, <2>1, <2>2, <3>1 DEF WindowInv, ClaimsSinceFirst
    <3>5. OneAtATime'
      BY <1>t, <2>1, <2>2, <3>1, <3>2, <3>3 DEF WindowInv, OneAtATime
    <3>6. OneCopyInWindow'
      BY <1>t, <2>1 DEF WindowInv, OneCopyInWindow
    <3> QED  BY <3>4, <3>5, <3>6 DEF WindowInv
  <2> QED  BY <1>5, <2>3, <2>4 DEF ReleaseClaim
<1>6. ASSUME NEW p \in Posts, RecordAccepted(p) \/ FinishClaim(p) PROVE WindowInv'
  <2>1. /\ Working(p, msg[p]) /\ msg[p] \in Messages /\ UNCHANGED <<now, first, copies, accepted>>
        /\ \A q \in Posts, m \in Messages : Working(q, m)' => Working(q, m)
    BY <1>6, <1>t, <1>m DEF RecordAccepted, FinishClaim, Goto, outside, Working, TypeOK
  <2>2. CASE claim' = claim
    BY <1>t, <1>n, <2>1, <2>2, WindowFrame
  <2>3. ASSUME NEW s \in {"accepted", "complete", "partial"}, Record(msg[p], s) PROVE WindowInv'
    <3>1. /\ claim'[msg[p]] = [state |-> s, at |-> now]
          /\ \A m \in Messages \ {msg[p]} : claim'[m] = claim[m]
      BY <1>t, <2>1, <2>3, RecordType
    <3>2. claim'[msg[p]] # NoClaim /\ claim'[msg[p]].at = now
      BY <3>1, <2>3 DEF NoClaim
    <3> QED  BY <1>t, <2>1, <3>1, <3>2, WindowRecorded
  <2> QED  BY <1>6, <2>2, <2>3 DEF RecordAccepted, FinishClaim
<1>7. CASE Crash
  <2>1. \A q \in Posts, m \in Messages : ~Working(q, m)'
    BY <1>7 DEF Crash, Working
  <2> QED  BY <1>7, <1>t, <1>n, <2>1, WindowFrame DEF Crash, outside
<1>8. CASE Tick
  <2>1. now <= now'
    BY <1>8, <1>n DEF Tick
  <2>2. \A q \in Posts, m \in Messages : Working(q, m)' => Working(q, m) /\ accepted'[q] = accepted[q]
    BY <1>8 DEF Tick, request, outside, Working
  <2> QED  BY <1>8, <1>t, <2>1, <2>2, WindowFrame DEF Tick, outside
<1>9. CASE UNCHANGED vars
  <2>1. \A q \in Posts, m \in Messages : Working(q, m)' => Working(q, m) /\ accepted'[q] = accepted[q]
    BY <1>9 DEF vars, Working
  <2> QED  BY <1>9, <1>t, <1>n, <2>1, WindowFrame DEF vars
<1> QED  BY <1>1, <1>2, <1>3, <1>4, <1>5, <1>6, <1>7, <1>8, <1>9 DEF Next, SubmitStep

----------------------------------------------------------------------------

LEMMA SendInvHolds == Spec => []SendInv
<1>1. SendInv /\ [Next]_vars => SendInv'
  BY NextStepsInv, NextWindowInv DEF SendInv
<1> QED  BY <1>1, InitSendInv, PTL DEF Spec

\* Within sendClaimKeep of its first claim a message is taken by the server at
\* most once, whatever crashes, lost answers, retries and failing writes happen.
THEOREM SentOnceInWindow == Spec => []OneCopyInWindow
<1>1. SendInv => OneCopyInWindow
  BY DEF SendInv, WindowInv
<1> QED  BY <1>1, SendInvHolds, PTL

\* No draft is deleted before its message is delivered and filed in Sent.
THEOREM DraftsOutliveSends == Spec => []DraftOutlivesSend
<1>1. SendInv => DraftOutlivesSend
  BY DEF SendInv, StepsInv
<1> QED  BY <1>1, SendInvHolds, PTL

\* What a claim says when it turns a retry away is so, after a restart too.
THEOREM ClaimsTellTruth == Spec => []ClaimTellsTruth
<1>1. SendInv => ClaimTellsTruth
  BY DEF SendInv, StepsInv
<1> QED  BY <1>1, SendInvHolds, PTL

\* Nobody whose message the server may have taken is told that it failed.
THEOREM FailedMeansUnsent == Spec => []FailedIsUnsent
<1>1. SendInv => FailedIsUnsent
  BY DEF SendInv, StepsInv
<1> QED  BY <1>1, SendInvHolds, PTL
=============================================================================
