----------------------------- MODULE SendClaim -----------------------------
(***************************************************************************)
(* Sending a composed message once (mail/send_claim.go, Submit in          *)
(* mail/send.go, deliverWithPhase and sendMessage in mail/smtp.go).  A     *)
(* submission claims its Message-ID in the database, looks up Sent,        *)
(* delivers by SMTP, records the acceptance and does the IMAP follow-up.   *)
(* A claim expires Keep after its stamp unless its submission is active in *)
(* this process; a claim that is not expired turns a retry away.           *)
(*                                                                         *)
(* Database writes may fail, the connections may fail at every exchange,   *)
(* the SMTP server may accept a message and its answer be lost, and the    *)
(* process may crash and restart: the database stays, memory goes.         *)
(*                                                                         *)
(* A definition whose name extends another's is the other with a plausible *)
(* mistake in it; no specification uses it.                                *)
(***************************************************************************)
EXTENDS Integers, FiniteSets

CONSTANTS
    Posts,     \* compose requests running Submit
    Messages,  \* account and Message-ID, the claim's name
    Keep,      \* sendClaimKeep
    MaxTime    \* bound on the clock

ASSUME SendClaimAssumption == Keep \in Nat \ {0} /\ MaxTime \in Nat

VARIABLES
    now,       \* time.Now()
    claim,     \* the claims in alborz.db
    active,    \* Mailboxes.sendActive, in memory
    pc,        \* where each request is in Submit
    msg,       \* the message it submits
    stamp,     \* claimSend's variable now, read before sendMu
    started,   \* dataStarted
    after,     \* a follow-up failed
    answer,    \* what the reader was last told
    accepted,  \* the SMTP server took this request's message
    copies,    \* how often the server took each message; two stands for more
    filed,     \* a copy is in Sent
    draft,     \* the draft is still there
    first      \* the earliest stamp any claim of each message has had

vars == <<now, claim, active, pc, msg, stamp, started, after, answer,
          accepted, copies, filed, draft, first>>
request == <<msg, stamp, started, after, answer>>
outside == <<accepted, copies, filed, draft>>

Times == 0..MaxTime
Never == -1
NoClaim == [state |-> "none", at |-> 0]

Steps == {"idle", "claim", "sent", "deliver", "data", "record", "answer",
          "file", "draft", "finish", "release", "end"}

Answers == {"none", "sent", "warned", "failed", "uncertain", "turned away"}

\* Types, and that no stamp lies in the future.
TypeOK ==
    /\ now \in Times
    /\ claim \in [Messages -> [state : {"none", "claiming", "accepted", "complete", "partial"}, at : Times]]
    /\ active \subseteq Messages
    /\ pc \in [Posts -> Steps]
    /\ msg \in [Posts -> Messages]
    /\ stamp \in [Posts -> Times]
    /\ started \in [Posts -> BOOLEAN]
    /\ after \in [Posts -> BOOLEAN]
    /\ answer \in [Posts -> Answers]
    /\ accepted \in [Posts -> BOOLEAN]
    /\ copies \in [Messages -> 0..2]
    /\ filed \in [Messages -> BOOLEAN]
    /\ draft \in [Messages -> BOOLEAN]
    /\ first \in [Messages -> Times \cup {Never}]
    /\ \A p \in Posts : stamp[p] <= now
    /\ \A m \in Messages : claim[m].at <= now

Init ==
    /\ now = 0
    /\ claim = [m \in Messages |-> NoClaim]
    /\ active = {}
    /\ pc = [p \in Posts |-> "idle"]
    /\ msg \in [Posts -> Messages]
    /\ stamp = [p \in Posts |-> 0]
    /\ started = [p \in Posts |-> FALSE]
    /\ after = [p \in Posts |-> FALSE]
    /\ answer = [p \in Posts |-> "none"]
    /\ accepted = [p \in Posts |-> FALSE]
    /\ copies = [m \in Messages |-> 0]
    /\ filed = [m \in Messages |-> FALSE]
    /\ draft = [m \in Messages |-> TRUE]
    /\ first = [m \in Messages |-> Never]

Goto(p, s) == pc' = [pc EXCEPT ![p] = s]

Tell(p, a) == answer' = [answer EXCEPT ![p] = a]

----------------------------------------------------------------------------
(* claimSend *)

\* A POST of the compose form; claimSend reads the clock before sendMu.
Submit(p) ==
    /\ pc[p] = "idle"
    /\ \E m \in Messages : msg' = [msg EXCEPT ![p] = m]
    /\ stamp' = [stamp EXCEPT ![p] = now]
    /\ started' = [started EXCEPT ![p] = FALSE]
    /\ after' = [after EXCEPT ![p] = FALSE]
    /\ accepted' = [accepted EXCEPT ![p] = FALSE]
    /\ Tell(p, "none")
    /\ Goto(p, "claim")
    /\ UNCHANGED <<now, claim, active, copies, filed, draft, first>>

\* kv.DeleteExpired: at or before now, and not active in this process.
Expired(m, t) ==
    /\ m \notin active
    /\ claim[m] # NoClaim
    /\ claim[m].at + Keep <= t

Swept(t) == [m \in Messages |-> IF Expired(m, t) THEN NoClaim ELSE claim[m]]

ClaimFresh(p) ==
    /\ pc[p] = "claim"
    /\ Swept(stamp[p])[msg[p]] = NoClaim
    /\ claim' = [Swept(stamp[p]) EXCEPT ![msg[p]] = [state |-> "claiming", at |-> stamp[p]]]
    /\ active' = active \cup {msg[p]}
    /\ first' = [first EXCEPT ![msg[p]] = IF @ = Never \/ stamp[p] < @ THEN stamp[p] ELSE @]
    /\ Goto(p, "sent")
    /\ UNCHANGED <<now, request, outside>>

\* An old claim answers the retry, in the words of its state.
ClaimHeld(p) ==
    /\ pc[p] = "claim"
    /\ Swept(stamp[p])[msg[p]] # NoClaim
    /\ claim' = Swept(stamp[p])
    /\ Tell(p, "turned away")
    /\ Goto(p, "idle")
    /\ UNCHANGED <<now, active, msg, stamp, started, after, outside, first>>

\* The transaction fails and changes nothing.
ClaimFails(p) ==
    /\ pc[p] = "claim"
    /\ Tell(p, "failed")
    /\ Goto(p, "idle")
    /\ UNCHANGED <<now, claim, active, msg, stamp, started, after, outside, first>>

----------------------------------------------------------------------------
(* Submit, once the claim is its own *)

\* finishSend: the transaction writes the state, or fails.
Record(m, s) ==
    claim' = [claim EXCEPT ![m] = IF s = "none" THEN NoClaim ELSE [state |-> s, at |-> now]]

FindSent(p) ==
    /\ pc[p] = "sent"
    /\ \/ Goto(p, "deliver") /\ UNCHANGED answer
       \/ Goto(p, "release") /\ Tell(p, "failed")
    /\ UNCHANGED <<now, claim, active, msg, stamp, started, after, outside, first>>

\* Any failure up to DATA's go-ahead, a refused sign-in included.
DeliverFails(p) ==
    /\ pc[p] = "deliver"
    /\ Goto(p, "release")
    /\ Tell(p, "failed")
    /\ UNCHANGED <<now, claim, active, msg, stamp, started, after, outside, first>>

StartDataUnmarked(p) ==
    /\ pc[p] = "deliver"
    /\ Goto(p, "data")
    /\ UNCHANGED <<now, claim, active, request, outside, first>>

StartData(p) ==
    /\ pc[p] = "deliver"
    /\ started' = [started EXCEPT ![p] = TRUE]
    /\ Goto(p, "data")
    /\ UNCHANGED <<now, claim, active, msg, stamp, after, answer, outside, first>>

\* The server decides before its answer is heard.
ServerAccepts(p) ==
    /\ pc[p] = "data"
    /\ ~accepted[p]
    /\ accepted' = [accepted EXCEPT ![p] = TRUE]
    /\ copies' = [copies EXCEPT ![msg[p]] = IF @ = 2 THEN 2 ELSE @ + 1]
    /\ UNCHANGED <<now, claim, active, pc, request, filed, draft, first>>

DataAccepted(p) ==
    /\ pc[p] = "data"
    /\ accepted[p]
    /\ Goto(p, "record")
    /\ UNCHANGED <<now, claim, active, request, outside, first>>

\* A 4xx or 5xx answer: sendMessage takes dataStarted back.
DataRejected(p) ==
    /\ pc[p] = "data"
    /\ ~accepted[p]
    /\ started' = [started EXCEPT ![p] = FALSE]
    /\ Tell(p, "failed")
    /\ Goto(p, "release")
    /\ UNCHANGED <<now, claim, active, msg, stamp, after, outside, first>>

DataDropsReleases(p) ==
    /\ pc[p] = "data"
    /\ Tell(p, "uncertain")
    /\ Goto(p, "release")
    /\ UNCHANGED <<now, claim, active, msg, stamp, started, after, outside, first>>

\* The write or the answer fails: uncertain if dataStarted says so.
DataDrops(p) ==
    /\ pc[p] = "data"
    /\ IF started[p]
       THEN Tell(p, "uncertain") /\ Goto(p, "end")
       ELSE Tell(p, "failed") /\ Goto(p, "release")
    /\ UNCHANGED <<now, claim, active, msg, stamp, started, after, outside, first>>

\* finishSend(0), which may fail and leave the claim.
ReleaseClaim(p) ==
    /\ pc[p] = "release"
    /\ Record(msg[p], "none") \/ UNCHANGED claim
    /\ Goto(p, "end")
    /\ UNCHANGED <<now, active, request, outside, first>>

RecordAccepted(p) ==
    /\ pc[p] = "record"
    /\ \/ Record(msg[p], "accepted") /\ UNCHANGED after
       \/ after' = [after EXCEPT ![p] = TRUE] /\ UNCHANGED claim
    /\ Goto(p, "answer")
    /\ UNCHANGED <<now, active, msg, stamp, started, answer, outside, first>>

\* Marking what was answered; a failed forward mark is only logged.
MarkAnswered(p) ==
    /\ pc[p] = "answer"
    /\ \E failed \in BOOLEAN : after' = [after EXCEPT ![p] = @ \/ failed]
    /\ Goto(p, "file")
    /\ UNCHANGED <<now, claim, active, msg, stamp, started, answer, outside, first>>

FileInSentAnyway(p) ==
    /\ pc[p] = "file"
    /\ \E heard, done \in BOOLEAN :
        /\ filed' = [filed EXCEPT ![msg[p]] = @ \/ done]
        /\ after' = [after EXCEPT ![p] = @ \/ ~heard]
        /\ Goto(p, "draft")
    /\ UNCHANGED <<now, claim, active, msg, stamp, started, answer, accepted, copies, draft, first>>

\* The append may be done and its answer lost; only a heard one lets the
\* draft go.
FileInSent(p) ==
    /\ pc[p] = "file"
    /\ \E heard, done \in BOOLEAN :
        /\ heard => done
        /\ filed' = [filed EXCEPT ![msg[p]] = @ \/ done]
        /\ after' = [after EXCEPT ![p] = @ \/ ~heard]
        /\ Goto(p, IF heard THEN "draft" ELSE "finish")
    /\ UNCHANGED <<now, claim, active, msg, stamp, started, answer, accepted, copies, draft, first>>

DeleteDraft(p) ==
    /\ pc[p] = "draft"
    /\ \E heard, done \in BOOLEAN :
        /\ heard => done
        /\ draft' = [draft EXCEPT ![msg[p]] = @ /\ ~done]
        /\ after' = [after EXCEPT ![p] = @ \/ ~heard]
    /\ Goto(p, "finish")
    /\ UNCHANGED <<now, claim, active, msg, stamp, started, answer, accepted, copies, filed, first>>

FinishClaimComplete(p) ==
    /\ pc[p] = "finish"
    /\ \/ Record(msg[p], "complete") /\ Tell(p, IF after[p] THEN "warned" ELSE "sent")
       \/ UNCHANGED claim /\ Tell(p, "warned")
    /\ Goto(p, "end")
    /\ UNCHANGED <<now, active, msg, stamp, started, after, outside, first>>

FinishClaim(p) ==
    /\ pc[p] = "finish"
    /\ \/ Record(msg[p], IF after[p] THEN "partial" ELSE "complete")
          /\ Tell(p, IF after[p] THEN "warned" ELSE "sent")
       \/ UNCHANGED claim /\ Tell(p, "warned")
    /\ Goto(p, "end")
    /\ UNCHANGED <<now, active, msg, stamp, started, after, outside, first>>

\* The deferred endSend.
EndSend(p) ==
    /\ pc[p] = "end"
    /\ active' = active \ {msg[p]}
    /\ Goto(p, "idle")
    /\ UNCHANGED <<now, claim, request, outside, first>>

----------------------------------------------------------------------------

\* The process dies and starts again: what was in DATA is lost with it.
Crash ==
    /\ \E p \in Posts : pc[p] # "idle"
    /\ pc' = [p \in Posts |-> "idle"]
    /\ active' = {}
    /\ answer' = [p \in Posts |-> "none"]
    /\ UNCHANGED <<now, claim, msg, stamp, started, after, outside, first>>

Tick ==
    /\ now < MaxTime
    /\ now' = now + 1
    /\ UNCHANGED <<claim, active, pc, request, outside, first>>

SubmitStep(p) ==
    \/ ClaimFresh(p) \/ ClaimHeld(p) \/ ClaimFails(p) \/ FindSent(p) \/ DeliverFails(p)
    \/ StartData(p) \/ DataAccepted(p) \/ DataRejected(p) \/ DataDrops(p)
    \/ ReleaseClaim(p) \/ RecordAccepted(p) \/ MarkAnswered(p) \/ FileInSent(p)
    \/ DeleteDraft(p) \/ FinishClaim(p) \/ EndSend(p)

Next ==
    \/ \E p \in Posts : Submit(p) \/ SubmitStep(p) \/ ServerAccepts(p)
    \/ Crash
    \/ Tick

Spec == Init /\ [][Next]_vars

----------------------------------------------------------------------------
(* Properties *)

\* Within Keep of its first claim's stamp the server takes a message at most once,
\* whatever crashes, drops, retries and failing writes happen in between.
OneCopyInWindow ==
    \A m \in Messages : first[m] # Never /\ now < first[m] + Keep => copies[m] <= 1

\* A draft goes only when the message it holds was delivered and filed in Sent
\* (ADR 87: "the draft MUST be kept if filing to Sent fails").
DraftOutlivesSend == \A m \in Messages : ~draft[m] => filed[m] /\ copies[m] > 0

\* What a stored claim says of its message is so, also after a restart: accepted
\* and partial were taken by the server, complete was filed and its draft is gone.
ClaimTellsTruth ==
    \A m \in Messages :
        /\ claim[m].state \in {"accepted", "partial", "complete"} => copies[m] > 0
        /\ claim[m].state = "complete" => filed[m] /\ ~draft[m]

\* A reader told that the send failed, and so invited to try again, has not sent
\* it: once DATA may have been taken the answer is uncertain, never failed.
FailedIsUnsent == \A p \in Posts : answer[p] = "failed" => ~accepted[p]
=============================================================================
