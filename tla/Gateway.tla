------------------------------ MODULE Gateway ------------------------------
(***************************************************************************)
(* The acquirer gateway between the POS and the issuer link: purchase      *)
(* requests (purchase.Service), cancellations, the orphan sweeper and the  *)
(* store-and-forward worker (package saf), which meet in tran_log and      *)
(* saf_queue.  Each runs on goroutines of its own and every action is one  *)
(* database statement or transaction, one send, or one received response.  *)
(*                                                                         *)
(* inbox and outbox are the issuer link: what the gateway wrote and the    *)
(* issuer has not read, and what the issuer answered and nobody has read.  *)
(* A message may stay there for ever (it is lost) and overtake others;     *)
(* sending a message again while a copy is unread is losing one of them.   *)
(***************************************************************************)
EXTENDS Integers, FiniteSets

CONSTANTS
    Txns,           \* purchases, each with the STAN, DE 7 and RRN of its 0200
    Cancels,        \* cancellation requests that may run at the same time
    MaxAttempts,    \* saf_queue.max_attempts
    Duplicates,     \* whether the chaos scenario DUPLICATE_REQUEST may be active
    MaxCrashes,     \* bound on gateway crashes
    Faults,         \* subset of {"db", "link", "token"}: statements that fail, a link that
                    \* drops, a card token that no longer resolves
    IssuerCodes,    \* the response codes an issuer may use, "" for no DE 39
    None

(* Response codes; "" stands for a missing DE 39 or a NULL response_code. *)
Codes == {"", "00", "05", "30", "51", "55", "61", "62", "65", "91", "94", "96"}

ASSUME GatewayAssumption ==
    /\ MaxAttempts \in Nat \ {0}
    /\ Duplicates \in BOOLEAN
    /\ MaxCrashes \in Nat
    /\ Faults \subseteq {"db", "link", "token"}
    /\ IssuerCodes \subseteq Codes
    /\ None \notin Txns

VARIABLES
    inbox,      \* messages towards the issuer
    outbox,     \* answers from the issuer
    up,         \* the supervisor has a signed-on connection
    state,      \* tran_log.state
    code,       \* tran_log.response_code
    old,        \* rows whose sent_at is older than the sweeper's age
    req,        \* the goroutine of each purchase request
    queued,     \* number of 0420 rows in saf_queue, per transaction
    adv,        \* the last of those rows
    cancel,     \* the transaction each cancellation has read as APPROVED
    orphans,    \* the sweeper's batch: the state it read of each row, or "NONE"
    claimed,    \* the worker's batch
    sending,    \* the advice the worker is sending, or None
    waiting,    \* the advice whose 0430 it waits for, or None
    crashes,
    left,       \* history: transactions whose 0200 was written to the link
    heard       \* history: code of the response whose MAC verified

linkVars == <<inbox, outbox, up>>
safVars == <<queued, adv>>
workerVars == <<claimed, sending, waiting>>
historyVars == <<left, heard>>
vars == <<linkVars, state, code, old, req, safVars, cancel, orphans, workerVars, crashes, historyVars>>

States == {"NONE", "CREATED", "SENT", "TIMED_OUT", "APPROVED", "DECLINED", "REVERSAL_PENDING", "REVERSED"}
Steps == {"new", "created", "marked", "duplicating", "ready", "waiting", "answered", "reversing", "done"}
SafStates == {"NONE", "PENDING", "IN_FLIGHT", "ACKED", "DEAD"}
Message(mti, t) == [mti |-> mti, orig |-> t, n |-> 1]

(* What a request remembers after its send: the status and code to record, whether the response
   failed its MAC, and the state finalizeSendResult believes the row is in. *)
Request(step, status, rc, macFailed, current) ==
    [pc |-> step, status |-> status, rc |-> rc, macFailed |-> macFailed, current |-> current]
Started(step) == Request(step, "NONE", "", FALSE, "NONE")
NoAdvice == [status |-> "NONE", attempts |-> 0, assigned |-> FALSE, due |-> FALSE]

Requests == [pc : Steps, status : States, rc : Codes, macFailed : BOOLEAN, current : States]
Advices == [status : SafStates, attempts : 0..(MaxAttempts - 1), assigned : BOOLEAN, due : BOOLEAN]

Init ==
    /\ inbox = {} /\ outbox = {} /\ up = TRUE
    /\ state = [t \in Txns |-> "NONE"]
    /\ code = [t \in Txns |-> ""]
    /\ old = {}
    /\ req = [t \in Txns |-> Started("new")]
    /\ queued = [t \in Txns |-> 0]
    /\ adv = [t \in Txns |-> NoAdvice]
    /\ cancel = [c \in Cancels |-> None]
    /\ orphans = [t \in Txns |-> "NONE"]
    /\ claimed = {} /\ sending = None /\ waiting = None
    /\ crashes = 0
    /\ left = {}
    /\ heard = [t \in Txns |-> ""]

(* Variants: the state is moved unconditionally; or only the advice is queued. *)
QueueUnguarded(t, from) ==
    /\ state' = [state EXCEPT ![t] = "REVERSAL_PENDING"]
    /\ queued' = [queued EXCEPT ![t] = @ + 1]
    /\ adv' = [adv EXCEPT ![t] = [status |-> "PENDING", attempts |-> 0, assigned |-> FALSE, due |-> TRUE]]
QueueOnly(t, from) ==
    /\ state[t] = from
    /\ queued' = [queued EXCEPT ![t] = @ + 1]
    /\ adv' = [adv EXCEPT ![t] = [status |-> "PENDING", attempts |-> 0, assigned |-> FALSE, due |-> TRUE]]
    /\ UNCHANGED state

(* ReversalQueuer.Queue: state and saf_queue row in one transaction, only from the state read. *)
Queue(t, from) ==
    /\ state[t] = from
    /\ state' = [state EXCEPT ![t] = "REVERSAL_PENDING"]
    /\ queued' = [queued EXCEPT ![t] = @ + 1]
    /\ adv' = [adv EXCEPT ![t] = [status |-> "PENDING", attempts |-> 0, assigned |-> FALSE, due |-> TRUE]]

(* Queue finds the row moved on (ErrNotReversible), or the database fails. *)
QueueFails(t, from) ==
    /\ state[t] # from \/ "db" \in Faults
    /\ UNCHANGED <<state, safVars>>

(***************************************************************************)
(* A purchase.                                                             *)
(***************************************************************************)
At(t, step) == req[t].pc = step
Goto(t, step) == req' = [req EXCEPT ![t] = Started(step)]

(* createPurchase up to Insert; on a link that is down the row is a decline and nothing is sent. *)
Create(t) ==
    /\ At(t, "new")
    /\ \/ /\ up
          /\ state' = [state EXCEPT ![t] = "CREATED"]
          /\ Goto(t, "created")
          /\ UNCHANGED code
       \/ /\ ~up
          /\ state' = [state EXCEPT ![t] = "DECLINED"]
          /\ code' = [code EXCEPT ![t] = "91"]
          /\ Goto(t, "done")
       \/ /\ "db" \in Faults
          /\ Goto(t, "done")
          /\ UNCHANGED <<state, code>>
    /\ UNCHANGED <<linkVars, old, safVars, cancel, orphans, workerVars, crashes, historyVars>>

(* attachMAC, AttachRRN, UpdateStatus SENT and its history row: an error before SENT leaves the
   row CREATED, an error in the history row leaves it SENT; either ends the request. *)
MarkSent(t) ==
    /\ At(t, "created")
    /\ \/ /\ state' = [state EXCEPT ![t] = "SENT"]
          /\ \/ Goto(t, IF Duplicates THEN "marked" ELSE "ready")
             \/ "db" \in Faults /\ Goto(t, "done")
       \/ /\ "db" \in Faults
          /\ Goto(t, "done")
          /\ UNCHANGED state
    /\ UNCHANGED <<linkVars, code, old, safVars, cancel, orphans, workerVars, crashes, historyVars>>

(* sendDuplicateIfActive: a first copy whose answer, or failure, is ignored. *)
SendDuplicate(t) ==
    /\ At(t, "marked")
    /\ \/ /\ up
          /\ inbox' = inbox \cup {Message("0200", t)}
          /\ left' = left \cup {t}
          /\ Goto(t, "duplicating")
       \/ /\ Goto(t, "ready")
          /\ UNCHANGED <<inbox, left>>
    /\ UNCHANGED <<outbox, up, state, code, old, safVars, cancel, orphans, workerVars, crashes, heard>>

DuplicateDone(t) ==
    /\ At(t, "duplicating")
    /\ \/ \E a \in outbox : a.mti = "0210" /\ a.orig = t /\ outbox' = outbox \ {a}
       \/ UNCHANGED outbox
    /\ Goto(t, "ready")
    /\ UNCHANGED <<inbox, up, state, code, old, safVars, cancel, orphans, workerVars, crashes, historyVars>>

Answered(t, status, rc, macFailed) ==
    req' = [req EXCEPT ![t] = Request("answered", status, rc, macFailed, "NONE")]

(* mux.Send, and SendFailureStatus when there is no connection to write to. *)
Send(t) ==
    /\ At(t, "ready")
    /\ \/ /\ up
          /\ inbox' = inbox \cup {Message("0200", t)}
          /\ left' = left \cup {t}
          /\ Goto(t, "waiting")
       \/ /\ ~up
          /\ Answered(t, "DECLINED", "91", FALSE)
          /\ UNCHANGED <<inbox, left>>
    /\ UNCHANGED <<outbox, up, state, code, old, safVars, cancel, orphans, workerVars, crashes, heard>>

(* ResponseCodeOf: a response without DE 39 reads as a format error. *)
ResponseCodeOf(a) == IF a.rc = "" THEN "30" ELSE a.rc

(* mapSendOutcome for a response that came in time. *)
Receive(t, a) ==
    /\ At(t, "waiting")
    /\ a \in outbox /\ a.mti = "0210" /\ a.orig = t
    /\ outbox' = outbox \ {a}
    /\ \/ /\ a.signed
          /\ Answered(t, IF ResponseCodeOf(a) = "00" THEN "APPROVED" ELSE "DECLINED", ResponseCodeOf(a), FALSE)
          /\ heard' = [heard EXCEPT ![t] = ResponseCodeOf(a)]
       \/ /\ ~a.signed
          /\ Answered(t, "DECLINED", "96", TRUE)
          /\ UNCHANGED heard
    /\ UNCHANGED <<inbox, up, state, code, old, safVars, cancel, orphans, workerVars, crashes, left>>

(* Variant: a timeout is a decline. *)
TimeOutDeclined(t) ==
    /\ At(t, "waiting")
    /\ Answered(t, "DECLINED", "05", FALSE)
    /\ UNCHANGED <<linkVars, state, code, old, safVars, cancel, orphans, workerVars, crashes, historyVars>>

(* No response in time, or the write or the caller failed. *)
TimeOut(t) ==
    /\ At(t, "waiting")
    /\ Answered(t, "TIMED_OUT", "", FALSE)
    /\ UNCHANGED <<linkVars, state, code, old, safVars, cancel, orphans, workerVars, crashes, historyVars>>

NeedsReversal(t) == req[t].status = "TIMED_OUT" \/ req[t].macFailed

(* The rest of finalizeSendResult, with the state it believes the row is in. *)
FinalizeFrom(t, current) ==
    req' = [req EXCEPT ![t] = [@ EXCEPT !.pc = IF NeedsReversal(t) THEN "reversing" ELSE "done",
                                        !.current = current]]

(* Variant: UpdateStatus instead of UpdateStatusFrom. *)
RecordStatusUnguarded(t) ==
    /\ At(t, "answered")
    /\ state' = [state EXCEPT ![t] = req[t].status]
    /\ code' = [code EXCEPT ![t] = req[t].rc]
    /\ FinalizeFrom(t, req[t].status)
    /\ UNCHANGED <<linkVars, old, safVars, cancel, orphans, workerVars, crashes, historyVars>>

(* finalizeSendResult up to the reversal: recordStatus moves the row from SENT, unless the
   sweeper moved it first (ErrStateMoved) or the database fails, perhaps after the commit. *)
RecordStatus(t) ==
    /\ At(t, "answered")
    /\ \/ /\ state[t] = "SENT"
          /\ state' = [state EXCEPT ![t] = req[t].status]
          /\ code' = [code EXCEPT ![t] = req[t].rc]
          /\ FinalizeFrom(t, req[t].status) \/ ("db" \in Faults /\ FinalizeFrom(t, "SENT"))
       \/ /\ state[t] # "SENT"
          /\ Goto(t, "done")
          /\ UNCHANGED <<state, code>>
       \/ /\ "db" \in Faults
          /\ FinalizeFrom(t, "SENT")
          /\ UNCHANGED <<state, code>>
    /\ UNCHANGED <<linkVars, old, safVars, cancel, orphans, workerVars, crashes, historyVars>>

(* finalizeSendResult: the reversal of an unknown outcome or a bad MAC. *)
QueueReversal(t) ==
    /\ At(t, "reversing")
    /\ Queue(t, req[t].current) \/ QueueFails(t, req[t].current)
    /\ Goto(t, "done")
    /\ UNCHANGED <<linkVars, code, old, cancel, orphans, workerVars, crashes, historyVars>>

(***************************************************************************)
(* CancelPurchase reads the row, then queues from the APPROVED it saw.     *)
(***************************************************************************)
CancelRead(c, t) ==
    /\ cancel[c] = None
    /\ state[t] = "APPROVED"
    /\ cancel' = [cancel EXCEPT ![c] = t]
    /\ UNCHANGED <<linkVars, state, code, old, req, safVars, orphans, workerVars, crashes, historyVars>>

CancelQueue(c) ==
    /\ cancel[c] # None
    /\ Queue(cancel[c], "APPROVED") \/ QueueFails(cancel[c], "APPROVED")
    /\ cancel' = [cancel EXCEPT ![c] = None]
    /\ UNCHANGED <<linkVars, code, old, req, orphans, workerVars, crashes, historyVars>>

(***************************************************************************)
(* The orphan sweeper.                                                     *)
(***************************************************************************)
(* Ninety seconds passed since the row was inserted with its sent_at. *)
GrowOld(t) ==
    /\ state[t] # "NONE" /\ t \notin old
    /\ old' = old \cup {t}
    /\ UNCHANGED <<linkVars, state, code, req, safVars, cancel, orphans, workerVars, crashes, historyVars>>

(* Variant: only rows that are still SENT. *)
OrphanSentOnly(t) == t \in old /\ state[t] = "SENT"

(* FindOrphans' WHERE clause. *)
Orphan(t) ==
    /\ t \in old
    /\ \/ state[t] = "SENT"
       \/ state[t] = "TIMED_OUT" /\ queued[t] = 0
       \/ state[t] = "DECLINED" /\ code[t] = "96" /\ queued[t] = 0

SweepOnce ==
    /\ \A t \in Txns : orphans[t] = "NONE"
    /\ \E t \in Txns : Orphan(t)
    /\ orphans' = [t \in Txns |-> IF Orphan(t) THEN state[t] ELSE "NONE"]
    /\ UNCHANGED <<linkVars, state, code, old, req, safVars, cancel, workerVars, crashes, historyVars>>

(* followUp: a SENT row is first moved to TIMED_OUT, unless its request recorded an outcome
   meanwhile; then the reversal is queued from the state known. *)
FollowUp(t) ==
    /\ \/ /\ orphans[t] = "SENT" /\ state[t] = "SENT"
          /\ state' = [state EXCEPT ![t] = "TIMED_OUT"]
          /\ orphans' = [orphans EXCEPT ![t] = "TIMED_OUT"]
          /\ UNCHANGED safVars
       \/ /\ orphans[t] = "SENT"
          /\ state[t] # "SENT" \/ "db" \in Faults
          /\ orphans' = [orphans EXCEPT ![t] = "NONE"]
          /\ UNCHANGED <<state, safVars>>
       \/ /\ orphans[t] \in {"TIMED_OUT", "DECLINED"}
          /\ Queue(t, orphans[t]) \/ QueueFails(t, orphans[t])
          /\ orphans' = [orphans EXCEPT ![t] = "NONE"]
    /\ UNCHANGED <<linkVars, code, old, req, cancel, workerVars, crashes, historyVars>>

(***************************************************************************)
(* The SAF worker.                                                         *)
(***************************************************************************)
(* next_retry_at, or the lease of a claim, runs out. *)
RetryDue(t) ==
    /\ adv[t].status = "IN_FLIGHT" /\ ~adv[t].due
    /\ adv' = [adv EXCEPT ![t] = [@ EXCEPT !.due = TRUE]]
    /\ UNCHANGED <<linkVars, state, code, old, req, queued, cancel, orphans, workerVars, crashes, historyVars>>

Due == {t \in Txns : adv[t].status \in {"PENDING", "IN_FLIGHT"} /\ adv[t].due}

ClaimDue ==
    /\ claimed = {} /\ sending = None
    /\ Due # {}
    /\ claimed' = Due
    /\ adv' = [t \in Txns |-> IF t \in Due THEN [adv[t] EXCEPT !.status = "IN_FLIGHT", !.due = FALSE]
                              ELSE adv[t]]
    /\ UNCHANGED <<linkVars, state, code, old, req, queued, cancel, orphans, sending, waiting, crashes, historyVars>>

(* MarkInFlight without counting an attempt. *)
WaitForLink(t) == adv' = [adv EXCEPT ![t] = [@ EXCEPT !.status = "IN_FLIGHT", !.due = FALSE]]

MarkDead(t) == adv' = [adv EXCEPT ![t] = [@ EXCEPT !.status = "DEAD"]]

(* retryLater: one attempt more, dead-lettered at max_attempts. *)
RetryLater(t) ==
    LET attempts == adv[t].attempts + 1 IN
    \/ attempts >= MaxAttempts /\ MarkDead(t)
    \/ /\ attempts < MaxAttempts
       /\ adv' = [adv EXCEPT ![t] = [@ EXCEPT !.status = "IN_FLIGHT", !.attempts = attempts, !.due = FALSE]]

(* deliverRow up to assignNetworkIdentity. *)
Assign(t) ==
    /\ t \in claimed /\ sending = None
    /\ claimed' = claimed \ {t}
    /\ \/ /\ adv[t].assigned \/ up
          /\ adv' = [adv EXCEPT ![t] = [@ EXCEPT !.assigned = TRUE]]
          /\ sending' = t
       \/ /\ ~adv[t].assigned /\ ~up
          /\ WaitForLink(t)
          /\ UNCHANGED sending
       \/ /\ "db" \in Faults
          /\ UNCHANGED <<adv, sending>>
    /\ UNCHANGED <<linkVars, state, code, old, req, queued, cancel, orphans, waiting, crashes, historyVars>>

(* deliverRow's frame and send. *)
SendAdvice ==
    /\ sending # None /\ waiting = None
    /\ \/ /\ "token" \in Faults
          /\ MarkDead(sending) \/ ("db" \in Faults /\ UNCHANGED adv)
          /\ sending' = None
          /\ UNCHANGED <<inbox, waiting>>
       \/ /\ ~up
          /\ WaitForLink(sending) \/ ("db" \in Faults /\ UNCHANGED adv)
          /\ sending' = None
          /\ UNCHANGED <<inbox, waiting>>
       \/ /\ up
          /\ inbox' = inbox \cup {Message("0420", sending)}
          /\ waiting' = sending
          /\ UNCHANGED <<adv, sending>>
    /\ UNCHANGED <<outbox, up, state, code, old, req, queued, cancel, orphans, claimed, crashes, historyVars>>

(* MarkAcked: the advice and, through finishOnAck, its transaction. *)
MarkAcked(t) ==
    /\ adv' = [adv EXCEPT ![t] = [@ EXCEPT !.status = "ACKED"]]
    /\ state' = IF state[t] = "REVERSAL_PENDING" THEN [state EXCEPT ![t] = "REVERSED"] ELSE state

(* settle: only a 00 whose MAC verifies acknowledges; 91 is the link's fault. *)
Settle(a) ==
    /\ waiting # None
    /\ a \in outbox /\ a.mti = "0430" /\ a.orig = waiting
    /\ outbox' = outbox \ {a}
    /\ \/ /\ a.rc = "00" /\ a.signed
          /\ MarkAcked(sending)
       \/ /\ a.rc = "91"
          /\ WaitForLink(sending)
          /\ UNCHANGED state
       \/ /\ a.rc \notin {"00", "91"} \/ (a.rc = "00" /\ ~a.signed)
          /\ RetryLater(sending)
          /\ UNCHANGED state
       \/ /\ "db" \in Faults
          /\ UNCHANGED <<adv, state>>
    /\ sending' = None /\ waiting' = None
    /\ UNCHANGED <<inbox, up, code, old, req, queued, cancel, orphans, claimed, crashes, historyVars>>

AdviceTimeOut ==
    /\ waiting # None
    /\ RetryLater(sending) \/ ("db" \in Faults /\ UNCHANGED adv)
    /\ sending' = None /\ waiting' = None
    /\ UNCHANGED <<linkVars, state, code, old, req, queued, cancel, orphans, claimed, crashes, historyVars>>

(***************************************************************************)
(* The link and the process.                                               *)
(***************************************************************************)
(* Mux.Serve finds no pending request; RecordLateResponse never touches the state. *)
LateResponse(a) ==
    /\ a \in outbox
    /\ a.mti = "0210" => req[a.orig].pc \notin {"duplicating", "waiting"}
    /\ a.mti = "0430" => a.orig # waiting
    /\ outbox' = outbox \ {a}
    /\ UNCHANGED <<inbox, up, state, code, old, req, safVars, cancel, orphans, workerVars, crashes, historyVars>>

LinkChanges ==
    /\ "link" \in Faults
    /\ up' = ~up
    /\ UNCHANGED <<inbox, outbox, state, code, old, req, safVars, cancel, orphans, workerVars, crashes, historyVars>>

Crash ==
    /\ crashes < MaxCrashes
    /\ crashes' = crashes + 1
    /\ req' = [t \in Txns |-> IF At(t, "new") THEN req[t] ELSE Started("done")]
    /\ cancel' = [c \in Cancels |-> None]
    /\ orphans' = [t \in Txns |-> "NONE"]
    /\ claimed' = {} /\ sending' = None /\ waiting' = None
    /\ UNCHANGED <<linkVars, state, code, old, safVars, historyVars>>

RequestStep(t) ==
    \/ Create(t) \/ MarkSent(t) \/ SendDuplicate(t) \/ DuplicateDone(t) \/ Send(t)
    \/ TimeOut(t) \/ RecordStatus(t) \/ QueueReversal(t)
    \/ \E a \in outbox : Receive(t, a)

SweeperStep == SweepOnce \/ \E t \in Txns : FollowUp(t)

WorkerStep ==
    \/ ClaimDue \/ SendAdvice \/ AdviceTimeOut
    \/ \E t \in Txns : Assign(t)
    \/ \E a \in outbox : Settle(a)

GatewayNext ==
    \/ \E t \in Txns : RequestStep(t) \/ GrowOld(t) \/ RetryDue(t)
    \/ \E c \in Cancels : CancelQueue(c) \/ \E t \in Txns : CancelRead(c, t)
    \/ SweeperStep \/ WorkerStep
    \/ \E a \in outbox : LateResponse(a)
    \/ LinkChanges \/ Crash

(***************************************************************************)
(* An issuer that answers what it likes, once for each message it reads.   *)
(***************************************************************************)
IssuerAnswers(m) ==
    /\ m \in inbox
    /\ inbox' = inbox \ {m}
    /\ \E rc \in IssuerCodes, signed \in BOOLEAN :
          outbox' = outbox \cup {[mti |-> IF m.mti = "0200" THEN "0210" ELSE "0430",
                                 orig |-> m.orig, n |-> m.n, rc |-> rc, signed |-> signed]}
    /\ UNCHANGED <<up, state, code, old, req, safVars, cancel, orphans, workerVars, crashes, historyVars>>

Next == GatewayNext \/ \E m \in inbox : IssuerAnswers(m)

Spec == Init /\ [][Next]_vars

(***************************************************************************)
(* Fairness: the goroutines run, every send is answered or times out, the  *)
(* sweeper and the worker tick for ever, and outages end: the supervisor   *)
(* dials a dropped link again for ever, so it is only the network that     *)
(* could keep it down.                                                     *)
(***************************************************************************)
Fairness ==
    /\ \A t \in Txns : /\ WF_vars(RequestStep(t) /\ ~At(t, "new"))
                       /\ WF_vars(GrowOld(t)) /\ WF_vars(RetryDue(t))
    /\ WF_vars(SweepOnce) /\ \A t \in Txns : WF_vars(FollowUp(t))
    /\ WF_vars(WorkerStep)
    /\ <>[]up

(***************************************************************************)
(* Properties.                                                             *)
(***************************************************************************)
(* The types of the state. *)
TypeOK ==
    /\ \A m \in inbox : \E mti \in {"0200", "0420"}, t \in Txns : m = Message(mti, t)
    /\ \A a \in outbox : a.mti \in {"0210", "0430"} /\ a.orig \in Txns /\ a.rc \in Codes /\ a.signed \in BOOLEAN
    /\ up \in BOOLEAN
    /\ state \in [Txns -> States] /\ code \in [Txns -> Codes] /\ old \subseteq Txns
    /\ req \in [Txns -> Requests]
    /\ queued \in [Txns -> Nat] /\ adv \in [Txns -> Advices]
    /\ cancel \in [Cancels -> Txns \cup {None}]
    /\ orphans \in [Txns -> {"NONE", "SENT", "TIMED_OUT", "DECLINED"}]
    /\ claimed \subseteq Txns /\ sending \in Txns \cup {None}
    /\ waiting \in {None, sending}
    /\ crashes \in 0..MaxCrashes
    /\ left \subseteq Txns /\ heard \in [Txns -> Codes]

(* A transaction has at most one reversal, however its request, its cancellations and the sweeper
   race for it, and the two tables agree: the advice is queued exactly when the row says so, and
   acknowledged exactly when the row says REVERSED.  Queue, finishOnAck. *)
OneReversal ==
    \A t \in Txns :
        /\ queued[t] = IF state[t] \in {"REVERSAL_PENDING", "REVERSED"} THEN 1 ELSE 0
        /\ state[t] = "REVERSAL_PENDING" <=> adv[t].status \in {"PENDING", "IN_FLIGHT", "DEAD"}
        /\ state[t] = "REVERSED" <=> adv[t].status = "ACKED"

(* A final outcome is one the issuer gave: an approval was heard, and so was a decline of a request
   that left, unless it is the 96 of a bad MAC that the sweeper still reverses, or the 91 of a link
   that dropped after the chaos duplicate was written.  An unknown outcome is never recorded as a
   decline.  mapSendOutcome, SendFailureStatus, sendDuplicateIfActive, followUp. *)
OutcomeWasHeard ==
    \A t \in Txns :
        /\ state[t] = "APPROVED" => heard[t] = "00"
        /\ state[t] = "DECLINED" /\ t \in left /\ code[t] # "96" =>
              heard[t] = code[t] \/ (Duplicates /\ code[t] = "91")

(* The states a row may move to from each state. *)
Successors(s) ==
    CASE s = "NONE"             -> {"CREATED", "DECLINED"}
      [] s = "CREATED"          -> {"SENT"}
      [] s = "SENT"             -> {"APPROVED", "DECLINED", "TIMED_OUT", "REVERSAL_PENDING"}
      [] s = "TIMED_OUT"        -> {"REVERSAL_PENDING"}
      [] s = "DECLINED"         -> {"REVERSAL_PENDING"}
      [] s = "APPROVED"         -> {"REVERSAL_PENDING"}
      [] s = "REVERSAL_PENDING" -> {"REVERSED"}
      [] s = "REVERSED"         -> {}

(* A row only moves forward: a late outcome never overwrites a row the sweeper or a cancellation
   moved, and a reversal is never taken back.  UpdateStatusFrom, MarkTimedOut, Queue. *)
OnlyForward ==
    [][\A t \in Txns : state'[t] # state[t] => state'[t] \in Successors(state[t])]_vars
=============================================================================
