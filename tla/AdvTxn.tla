------------------------------- MODULE AdvTxn -------------------------------
(***************************************************************************)
(* Pre-authorizations, completions, refunds and balance inquiries          *)
(* (advtxn.Service), with the orphan sweeper and the store-and-forward     *)
(* worker that follow up what a request left unknown.  A completion claims *)
(* its pre-auth (tran_log.completed_by) before its 0220 leaves; an unknown *)
(* completion is repeated as a 0221 until it is acknowledged, while any    *)
(* other unknown request is reversed with a 0420.                          *)
(*                                                                         *)
(* Every action is one database statement or transaction, one send, or one *)
(* received response.  The issuer has no hold and completion chain yet     *)
(* (docs/plans/MCN-603.md, ruling 1), so the link answers a waiting sender *)
(* with any code, signed or not, or never.                                 *)
(***************************************************************************)
EXTENDS Integers

CONSTANTS
    Txns,
    Scenarios,      \* the kinds and amounts of the requests that are explored
    Original,       \* the transaction each request names in its path, if it is a completion
    MaxAttempts,    \* saf_queue.max_attempts
    MaxFailures,    \* bound on database statements that fail
    MaxCrashes,     \* bound on gateway crashes
    Faults,         \* subset of {"link", "token"}
    IssuerCodes,
    None

Kinds == {"PREAUTH", "COMPLETION", "REFUND", "BALANCE"}
Codes == {"", "00", "10", "05", "30", "91", "96"}

ASSUME AdvTxnAssumption ==
    /\ Scenarios \subseteq [kind : [Txns -> Kinds], amount : [Txns -> Nat]]
    /\ Original \in [Txns -> Txns]
    /\ MaxAttempts \in Nat \ {0} /\ MaxFailures \in Nat /\ MaxCrashes \in Nat
    /\ Faults \subseteq {"link", "token"}
    /\ IssuerCodes \subseteq Codes
    /\ None \notin Txns

VARIABLES
    kind,       \* tran_log.tran_type, chosen once
    amount,     \* tran_log.amount, chosen once
    up,         \* the supervisor has a signed-on connection
    state,      \* tran_log.state
    code,       \* tran_log.response_code
    by,         \* tran_log.completed_by
    req,        \* the goroutine of each request
    saf,        \* the saf_queue rows of each transaction: its request's and the sweeper's
    orphans,    \* the sweeper's batch: the state it read of each row, or "NONE"
    sending,    \* the saf_queue row <<transaction, origin>> the worker waits on, or None
    crashes, failures,
    left,       \* history: transactions whose request, or its repeat, was written to the link
    torn        \* history: transactions one of whose statements failed

workVars == <<orphans, sending>>
vars == <<kind, amount, up, state, code, by, req, saf, workVars, crashes, failures, left, torn>>

States == {"NONE", "CREATED", "SENT", "TIMED_OUT", "APPROVED", "DECLINED", "REVERSAL_PENDING", "REVERSED"}
Steps == {"new", "checked", "created", "ready", "waiting", "answered", "releasing", "advising", "reversing", "done"}
Origins == {"request", "sweeper"}
Requests == [pc : Steps, status : States, rc : Codes, macFailed : BOOLEAN, current : States]
SafRows == [status : {"NONE", "PENDING", "ACKED", "DEAD"}, attempts : 0..(MaxAttempts - 1)]

Started(step) == [pc |-> step, status |-> "NONE", rc |-> "", macFailed |-> FALSE, current |-> "NONE"]
NoRow == [status |-> "NONE", attempts |-> 0]
Queued == [status |-> "PENDING", attempts |-> 0]

Init ==
    /\ \E s \in Scenarios : kind = s.kind /\ amount = s.amount
    /\ up = TRUE
    /\ state = [t \in Txns |-> "NONE"]
    /\ code = [t \in Txns |-> ""]
    /\ by = [t \in Txns |-> None]
    /\ req = [t \in Txns |-> Started("new")]
    /\ saf = [t \in Txns |-> [o \in Origins |-> NoRow]]
    /\ orphans = [t \in Txns |-> "NONE"]
    /\ sending = None
    /\ crashes = 0 /\ failures = 0
    /\ left = {} /\ torn = {}

(* A statement succeeds, or fails: before its commit, or after it with the reply lost. *)
Works == UNCHANGED <<failures, torn>>
Fails(t) ==
    /\ failures < MaxFailures
    /\ failures' = failures + 1
    /\ torn' = torn \cup {t}

IsCompletion(t) == kind[t] = "COMPLETION"
At(t, step) == req[t].pc = step
Goto(t, step) == req' = [req EXCEPT ![t] = Started(step)]

(***************************************************************************)
(* A request.                                                              *)
(***************************************************************************)
(* recordLinkDown: a decline that was never sent, and makes no claim. *)
RecordLinkDown(t) ==
    /\ state' = [state EXCEPT ![t] = "DECLINED"]
    /\ code' = [code EXCEPT ![t] = "91"]
    /\ Goto(t, "done")

(* nextSTAN and send, up to the insert. *)
Proceed(t) ==
    \/ up /\ Goto(t, "checked") /\ UNCHANGED <<state, code>>
    \/ ~up /\ RecordLinkDown(t)

(* A refused request leaves nothing behind. *)
Refuse(t) == Goto(t, "done") /\ UNCHANGED <<state, code>>

(* The card token, or in finalizeFields the terminal, is not known. *)
Unresolved(t) == "token" \in Faults /\ Refuse(t)

CreatePreAuth(t) == kind[t] = "PREAUTH" /\ (Unresolved(t) \/ Proceed(t))

CreateRefund(t) == kind[t] = "REFUND" /\ (Unresolved(t) \/ Proceed(t))

CreateBalanceInquiry(t) == kind[t] = "BALANCE" /\ (Unresolved(t) \/ Proceed(t))

(* createCompletion's quick refusal *)
Refused(t) ==
    LET p == Original[t] IN
    \/ kind[p] # "PREAUTH" \/ state[p] # "APPROVED" \/ by[p] # None
    \/ amount[t] > amount[p]

CreateCompletion(t) ==
    /\ IsCompletion(t)
    /\ IF Refused(t) THEN Refuse(t) ELSE Proceed(t)

Create(t) ==
    /\ At(t, "new")
    /\ CreatePreAuth(t) \/ CreateRefund(t) \/ CreateBalanceInquiry(t) \/ CreateCompletion(t)
    /\ Works
    /\ UNCHANGED <<kind, amount, up, by, saf, workVars, crashes, left>>

(* Variant: the claim looks at the state alone. *)
ClaimableIfApproved(t) ==
    LET p == Original[t] IN kind[p] = "PREAUTH" /\ state[p] = "APPROVED"

(* InsertCompletion's claim finds the row it updates. *)
Claimable(t) ==
    LET p == Original[t] IN kind[p] = "PREAUTH" /\ state[p] = "APPROVED" /\ by[p] = None

(* insert: a completion's row and its claim are one transaction. *)
Insert(t) ==
    /\ At(t, "checked")
    /\ \/ /\ IsCompletion(t) => Claimable(t)
          /\ state' = [state EXCEPT ![t] = "CREATED"]
          /\ by' = IF IsCompletion(t) THEN [by EXCEPT ![Original[t]] = t] ELSE by
          /\ (Works /\ Goto(t, "created")) \/ (Fails(t) /\ Goto(t, "done"))
       \/ /\ (IsCompletion(t) /\ ~Claimable(t) /\ Works) \/ Fails(t)
          /\ Goto(t, "done")
          /\ UNCHANGED <<state, by>>
    /\ UNCHANGED <<kind, amount, up, code, saf, workVars, crashes, left>>

(* markSending: AttachRRN fails when the key was reclaimed; an error after the UPDATE to SENT
   leaves the row SENT.  Either way the claim is released next. *)
MarkSending(t) ==
    /\ At(t, "created")
    /\ \/ /\ state' = [state EXCEPT ![t] = "SENT"]
          /\ (Works /\ Goto(t, "ready")) \/ (Fails(t) /\ Goto(t, "releasing"))
       \/ /\ Works
          /\ Goto(t, "releasing")
          /\ UNCHANGED state
    /\ UNCHANGED <<kind, amount, up, code, by, saf, workVars, crashes, left>>

Answered(t, status, rc, macFailed) ==
    req' = [req EXCEPT ![t] = [pc |-> "answered", status |-> status, rc |-> rc, macFailed |-> macFailed,
                               current |-> "NONE"]]

Send(t) ==
    /\ At(t, "ready")
    /\ \/ /\ up
          /\ left' = left \cup {t}
          /\ Goto(t, "waiting")
       \/ /\ ~up
          /\ Answered(t, "DECLINED", "91", FALSE)
          /\ UNCHANGED left
    /\ Works
    /\ UNCHANGED <<kind, amount, up, state, code, by, saf, workVars, crashes>>

(* Variant: a bad MAC declines a completion too. *)
OutcomeAlikeForAll(t, rc, signed) ==
    IF signed THEN Answered(t, IF rc \in {"00", "10"} THEN "APPROVED" ELSE "DECLINED", rc, FALSE)
    ELSE Answered(t, "DECLINED", "96", TRUE)

(* outcome, mapResponseToTransaction: a response whose MAC fails proves nothing of a completion,
   and declines anything else. *)
Outcome(t, rc, signed) ==
    \/ signed /\ Answered(t, IF rc \in {"00", "10"} THEN "APPROVED" ELSE "DECLINED", rc, FALSE)
    \/ ~signed /\ IsCompletion(t) /\ Answered(t, "TIMED_OUT", "", TRUE)
    \/ ~signed /\ ~IsCompletion(t) /\ Answered(t, "DECLINED", "96", TRUE)

Receive(t, rc, signed) ==
    /\ At(t, "waiting")
    /\ Outcome(t, rc, signed)
    /\ Works
    /\ UNCHANGED <<kind, amount, up, state, code, by, saf, workVars, crashes, left>>

TimeOut(t) ==
    /\ At(t, "waiting")
    /\ Answered(t, "TIMED_OUT", "", FALSE)
    /\ Works
    /\ UNCHANGED <<kind, amount, up, state, code, by, saf, workVars, crashes, left>>

(* Variant: the claim of a completion that timed out is released. *)
OwedReleasingUnknown(t) ==
    IF kind[t] = "BALANCE" THEN "done"
    ELSE IF req[t].status = "DECLINED" /\ ~req[t].macFailed THEN "releasing"
    ELSE IF req[t].status # "TIMED_OUT" /\ ~req[t].macFailed THEN "done"
    ELSE IF IsCompletion(t) /\ req[t].status = "TIMED_OUT" THEN "releasing"
    ELSE "reversing"

(* What finalize still owes the issuer once the status is recorded, or could not be. *)
Owed(t) ==
    IF kind[t] = "BALANCE" THEN "done"
    ELSE IF req[t].status = "DECLINED" /\ ~req[t].macFailed THEN "releasing"
    ELSE IF req[t].status # "TIMED_OUT" /\ ~req[t].macFailed THEN "done"
    ELSE IF IsCompletion(t) /\ req[t].status = "TIMED_OUT" THEN "advising"
    ELSE "reversing"

Finalize(t, current) == req' = [req EXCEPT ![t] = [Started(Owed(t)) EXCEPT !.current = current]]

(* Variant: UpdateStatus instead of UpdateStatusFrom. *)
RecordStatusUnguarded(t) ==
    /\ At(t, "answered")
    /\ state' = [state EXCEPT ![t] = req[t].status]
    /\ code' = [code EXCEPT ![t] = req[t].rc]
    /\ Finalize(t, req[t].status)
    /\ Works
    /\ UNCHANGED <<kind, amount, up, by, saf, workVars, crashes, left>>

(* recordStatus moves the row from SENT; a row the sweeper moved is left alone, and a failure lets
   the follow-up run from the state the row is believed to hold.  recordAmounts follows the code. *)
RecordStatus(t) ==
    /\ At(t, "answered")
    /\ \/ /\ state[t] = "SENT"
          /\ state' = [state EXCEPT ![t] = req[t].status]
          /\ code' = [code EXCEPT ![t] = req[t].rc]
          /\ (Works /\ Finalize(t, req[t].status)) \/ (Fails(t) /\ Finalize(t, "SENT"))
       \/ /\ state[t] # "SENT"
          /\ Works
          /\ Goto(t, "done")
          /\ UNCHANGED <<state, code>>
       \/ /\ Fails(t)
          /\ Finalize(t, "SENT")
          /\ UNCHANGED <<state, code>>
    /\ UNCHANGED <<kind, amount, up, by, saf, workVars, crashes, left>>

(* ReleaseCompletion: only the completion's own claim. *)
Released(t) == IF by[Original[t]] = t THEN [by EXCEPT ![Original[t]] = None] ELSE by

(* releaseClaim does nothing for the other kinds. *)
ReleaseClaim(t) ==
    /\ At(t, "releasing")
    /\ \/ by' = (IF IsCompletion(t) THEN Released(t) ELSE by) /\ Works
       \/ IsCompletion(t) /\ Fails(t) /\ UNCHANGED by
    /\ Goto(t, "done")
    /\ UNCHANGED <<kind, amount, up, state, code, saf, workVars, crashes, left>>

(* QueueAdvice asks nothing of the row's state. *)
QueueAdvice(t, origin) ==
    /\ saf' = [saf EXCEPT ![t][origin] = Queued]
    /\ UNCHANGED state

(* Queue: only from the state the caller read. *)
Queue(t, origin, from) ==
    /\ state[t] = from
    /\ state' = [state EXCEPT ![t] = "REVERSAL_PENDING"]
    /\ saf' = [saf EXCEPT ![t][origin] = Queued]

(* The follow-up of an unknown outcome. *)
FollowUpRequest(t) ==
    /\ \/ At(t, "advising") /\ QueueAdvice(t, "request") /\ Works
       \/ At(t, "reversing") /\ Queue(t, "request", req[t].current) /\ Works
       \/ At(t, "reversing") /\ state[t] # req[t].current /\ Works /\ UNCHANGED <<state, saf>>
       \/ (At(t, "advising") \/ At(t, "reversing")) /\ Fails(t) /\ UNCHANGED <<state, saf>>
    /\ Goto(t, "done")
    /\ UNCHANGED <<kind, amount, up, code, by, workVars, crashes, left>>

RequestStep(t) ==
    \/ Create(t) \/ Insert(t) \/ MarkSending(t) \/ Send(t) \/ TimeOut(t) \/ RecordStatus(t) \/ ReleaseClaim(t)
    \/ FollowUpRequest(t)
    \/ \E rc \in IssuerCodes, signed \in BOOLEAN : Receive(t, rc, signed)

(***************************************************************************)
(* The orphan sweeper.  Its age delays it, and no more: a row may be old   *)
(* while its request still runs.                                           *)
(***************************************************************************)
NothingQueued(t) == \A o \in Origins : saf[t][o] = NoRow

(* Variant: an unknown outcome is found only while it is SENT. *)
OrphanSentOnly(t) == state[t] = "SENT"

(* FindOrphans' WHERE clause. *)
Orphan(t) ==
    \/ state[t] = "SENT"
    \/ state[t] = "TIMED_OUT" /\ kind[t] # "BALANCE" /\ NothingQueued(t)
    \/ state[t] = "DECLINED" /\ code[t] = "96" /\ kind[t] \notin {"BALANCE", "COMPLETION"} /\ NothingQueued(t)

SweepOnce ==
    /\ \A t \in Txns : orphans[t] = "NONE"
    /\ \E t \in Txns : Orphan(t)
    /\ orphans' = [t \in Txns |-> IF Orphan(t) THEN state[t] ELSE "NONE"]
    /\ Works
    /\ UNCHANGED <<kind, amount, up, state, code, by, req, saf, sending, crashes, left>>

(* followUp: MarkTimedOut, then what the kind of the row owes. *)
FollowUp(t) ==
    /\ \/ /\ orphans[t] = "SENT" /\ state[t] = "SENT"
          /\ Works
          /\ state' = [state EXCEPT ![t] = "TIMED_OUT"]
          /\ orphans' = [orphans EXCEPT ![t] = IF kind[t] = "BALANCE" THEN "NONE" ELSE "TIMED_OUT"]
          /\ UNCHANGED saf
       \/ /\ orphans[t] = "SENT" /\ state[t] # "SENT"
          /\ Works
          /\ orphans' = [orphans EXCEPT ![t] = "NONE"]
          /\ UNCHANGED <<state, saf>>
       \/ /\ orphans[t] \in {"TIMED_OUT", "DECLINED"}
          /\ Works
          /\ \/ IsCompletion(t) /\ QueueAdvice(t, "sweeper")
             \/ ~IsCompletion(t) /\ Queue(t, "sweeper", orphans[t])
             \/ ~IsCompletion(t) /\ state[t] # orphans[t] /\ UNCHANGED <<state, saf>>
          /\ orphans' = [orphans EXCEPT ![t] = "NONE"]
       \/ /\ orphans[t] # "NONE"
          /\ Fails(t)
          /\ orphans' = [orphans EXCEPT ![t] = "NONE"]
          /\ UNCHANGED <<state, saf>>
    /\ UNCHANGED <<kind, amount, up, code, by, req, sending, crashes, left>>

(***************************************************************************)
(* The SAF worker.  A claimed row is leased, so a row whose outcome the    *)
(* worker could not write comes back: it stays PENDING here.               *)
(***************************************************************************)
SetSaf(r, row) == saf' = [saf EXCEPT ![r[1]][r[2]] = row]

RetryLater(r) ==
    LET row == saf[r[1]][r[2]] IN
    SetSaf(r, IF row.attempts + 1 >= MaxAttempts THEN [row EXCEPT !.status = "DEAD"]
              ELSE [row EXCEPT !.attempts = @ + 1])

(* deliverRow up to the send.  A 0220 carries no PAN, so only a 0420 needs its card token. *)
DeliverRow(r) ==
    /\ sending = None
    /\ saf[r[1]][r[2]].status = "PENDING"
    /\ \/ /\ up
          /\ sending' = r
          /\ left' = left \cup {r[1]}
          /\ UNCHANGED saf
       \/ /\ "token" \in Faults /\ ~IsCompletion(r[1])
          /\ SetSaf(r, [saf[r[1]][r[2]] EXCEPT !.status = "DEAD"])
          /\ UNCHANGED <<sending, left>>
    /\ Works
    /\ UNCHANGED <<kind, amount, up, state, code, by, req, orphans, crashes>>

(* finishOnAck: a reversal is REVERSED, an unknown completion APPROVED. *)
FinishOnAck(t) ==
    \/ /\ IsCompletion(t) /\ state[t] = "TIMED_OUT"
       /\ state' = [state EXCEPT ![t] = "APPROVED"]
       /\ code' = [code EXCEPT ![t] = "00"]
    \/ /\ ~IsCompletion(t) /\ state[t] = "REVERSAL_PENDING"
       /\ state' = [state EXCEPT ![t] = "REVERSED"]
       /\ UNCHANGED code
    \/ /\ state[t] # IF IsCompletion(t) THEN "TIMED_OUT" ELSE "REVERSAL_PENDING"
       /\ UNCHANGED <<state, code>>

(* settle, MarkAcked: only a 00 whose MAC verifies acknowledges; 91 counts no attempt. *)
Settle(rc, signed) ==
    /\ sending # None
    /\ \/ /\ rc = "00" /\ signed
          /\ SetSaf(sending, [saf[sending[1]][sending[2]] EXCEPT !.status = "ACKED"])
          /\ FinishOnAck(sending[1])
          /\ Works
       \/ /\ rc # "91" /\ (rc # "00" \/ ~signed)
          /\ RetryLater(sending)
          /\ Works
          /\ UNCHANGED <<state, code>>
       \/ /\ rc = "91"
          /\ Works
          /\ UNCHANGED <<saf, state, code>>
       \/ /\ Fails(sending[1])
          /\ UNCHANGED <<saf, state, code>>
    /\ sending' = None
    /\ UNCHANGED <<kind, amount, up, by, req, orphans, crashes, left>>

AdviceTimeOut ==
    /\ sending # None
    /\ RetryLater(sending)
    /\ sending' = None
    /\ Works
    /\ UNCHANGED <<kind, amount, up, state, code, by, req, orphans, crashes, left>>

SafKeys == Txns \X Origins
WorkerStep ==
    \/ AdviceTimeOut
    \/ \E r \in SafKeys : DeliverRow(r)
    \/ \E rc \in IssuerCodes, signed \in BOOLEAN : Settle(rc, signed)

(***************************************************************************)
(* The link and the process.                                               *)
(***************************************************************************)
LinkChanges ==
    /\ "link" \in Faults
    /\ up' = ~up
    /\ Works
    /\ UNCHANGED <<kind, amount, state, code, by, req, saf, workVars, crashes, left>>

Crash ==
    /\ crashes < MaxCrashes
    /\ crashes' = crashes + 1
    /\ req' = [t \in Txns |-> IF At(t, "new") THEN req[t] ELSE Started("done")]
    /\ orphans' = [t \in Txns |-> "NONE"]
    /\ sending' = None
    /\ Works
    /\ UNCHANGED <<kind, amount, up, state, code, by, saf, left>>

Next ==
    \/ \E t \in Txns : RequestStep(t) \/ FollowUp(t)
    \/ SweepOnce \/ WorkerStep \/ LinkChanges \/ Crash

Spec == Init /\ [][Next]_vars

(* The goroutines run, every send is answered or times out, the sweeper and the worker tick for
   ever, an outage ends, and so does a signed-off issuer's 91 (each one makes the supervisor sign
   on again). *)
FairSpec ==
    /\ Spec
    /\ \A t \in Txns : WF_vars(RequestStep(t) /\ ~At(t, "new")) /\ WF_vars(FollowUp(t))
    /\ WF_vars(SweepOnce) /\ WF_vars(WorkerStep)
    /\ SF_vars(AdviceTimeOut \/ \E rc \in IssuerCodes \ {"91"}, signed \in BOOLEAN : Settle(rc, signed))
    /\ <>[]up

(***************************************************************************)
(* Properties.                                                             *)
(***************************************************************************)
(* The types of the state. *)
TypeOK ==
    /\ [kind |-> kind, amount |-> amount] \in Scenarios /\ up \in BOOLEAN
    /\ state \in [Txns -> States] /\ code \in [Txns -> Codes]
    /\ by \in [Txns -> Txns \cup {None}]
    /\ req \in [Txns -> Requests]
    /\ saf \in [Txns -> [Origins -> SafRows]]
    /\ orphans \in [Txns -> {"NONE", "SENT", "TIMED_OUT", "DECLINED"}]
    /\ sending \in SafKeys \cup {None}
    /\ crashes \in 0..MaxCrashes /\ failures \in 0..MaxFailures
    /\ left \subseteq Txns /\ torn \subseteq Txns

(* A completion whose 0220 may be at the issuer keeps its pre-auth claimed until the issuer
   declines it, and the pre-auth it claims stays an approved one, unless one of the completion's
   own statements failed.  InsertCompletion, markSending, releaseClaim, QueueAdvice. *)
SentKeepsClaim ==
    \A c \in Txns :
        IsCompletion(c) /\ c \in left /\ state[c] # "DECLINED" /\ c \notin torn =>
            LET p == Original[c] IN by[p] = c /\ state[p] = "APPROVED" /\ amount[c] <= amount[p]

(* "a pre-auth is completed at most once even under concurrent requests" (InsertCompletion), as
   long as no statement of the two completions failed. *)
CompletedOnce ==
    \A c, d \in Txns :
        /\ c # d /\ IsCompletion(c) /\ IsCompletion(d) /\ Original[c] = Original[d]
        /\ state[c] = "APPROVED" /\ state[d] = "APPROVED"
        => c \in torn \/ d \in torn

(* The two tables agree on what is owed.  A completion is never reversed, its advices are queued
   for an outcome that is unknown (or was, when a statement failed), and an acknowledged one
   approved it, whichever of its two advices that was.  Any other request has one reversal, queued
   and acknowledged exactly when its row says so.  Queue, QueueAdvice, finishOnAck. *)
FollowedUpOnce ==
    \A t \in Txns :
        LET rows == {o \in Origins : saf[t][o] # NoRow}
            acked == {o \in Origins : saf[t][o].status = "ACKED"}
        IN  IF IsCompletion(t)
            THEN /\ state[t] \notin {"REVERSAL_PENDING", "REVERSED"}
                 /\ rows # {} /\ t \notin torn => state[t] \in {"TIMED_OUT", "APPROVED"}
                 /\ acked # {} /\ t \notin torn => state[t] = "APPROVED"
            ELSE /\ IF state[t] \in {"REVERSAL_PENDING", "REVERSED"} THEN \E o \in Origins : rows = {o} ELSE rows = {}
                 /\ acked # {} <=> state[t] = "REVERSED"

(* A row that holds an outcome keeps it: only a reversal follows an approval or a decline, and no
   late answer, repeat or acknowledgement overwrites what was recorded.  UpdateStatusFrom,
   MarkTimedOut, finishOnAck. *)
OutcomeKept ==
    [][\A t \in Txns : state[t] \in {"APPROVED", "DECLINED", "REVERSAL_PENDING", "REVERSED"} =>
          \/ state'[t] = state[t] /\ code'[t] = code[t]
          \/ state'[t] = "REVERSAL_PENDING" /\ state[t] = "DECLINED" /\ code[t] = "96" /\ ~IsCompletion(t)
          \/ state'[t] = "REVERSED" /\ state[t] = "REVERSAL_PENDING"]_vars

(* What a request left unknown does not stay so, through crashes, outages, lost messages and failed
   statements: its row reaches an outcome, or its advice is dead-lettered for an operator; only a
   balance inquiry may stay TIMED_OUT.  The exception is a completion whose status could not be
   written before its advice was acknowledged, when a crash then stops the sweeper half-way.
   SweepOnce, followUp, deliverOnce, settle. *)
EventuallySettled ==
    \A t \in Txns :
        <>[](\/ \E o \in Origins : saf[t][o].status = "DEAD"
             \/ state[t] = "TIMED_OUT" /\ kind[t] = "BALANCE"
             \/ state[t] \notin {"SENT", "TIMED_OUT", "REVERSAL_PENDING"}
             \/ IsCompletion(t) /\ t \in torn /\ crashes > 0)
=============================================================================
