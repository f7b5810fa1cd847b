------------------------------ MODULE Journey -------------------------------
(***************************************************************************)
(* A transaction's journey (package journey) and the records it is told    *)
(* from.  One request is sent by its handler, followed up by the sweeper   *)
(* and reversed by the SAF worker; each database statement, or database    *)
(* transaction, is a step, so the row, its tran_state_history and its      *)
(* saf_queue row are torn between steps and left torn by a failed          *)
(* statement or a crash.  A client asks for the journey at any time: the   *)
(* handler reads the row, then the history, then the reversal, and         *)
(* BuildJourney is evaluated on what the three reads saw.                  *)
(*                                                                         *)
(* Times are read from one clock.  An amount is 1.  Of the issuer there is *)
(* what moves the money: it books a request or declines it, perhaps after  *)
(* the gateway gave up on it, and a 0420 returns what is booked by then.   *)
(***************************************************************************)
EXTENDS Integers, Sequences, FiniteSetsExt

CONSTANTS
    Types,          \* the transaction types
    Start,          \* the clock's first reading
    MaxTime,        \* bound on the clock
    PerSecond,      \* clock readings in a second, the precision of DE 7
    Shift,          \* how far the seed backdates a transaction
    MaxViews,       \* bound on the journeys asked for
    None

RevStatuses == {"PENDING", "IN_FLIGHT", "ACKED", "DEAD"}

ASSUME JourneyAssumption ==
    /\ Types \subseteq {"PURCHASE", "PREAUTH", "COMPLETION", "REFUND", "BALANCE"}
    /\ Shift \in Nat /\ Start \in Nat /\ MaxTime \in Nat /\ Shift <= Start
    /\ PerSecond \in Nat \ {0} /\ MaxViews \in Nat
    /\ None \notin Int /\ None \notin [status : RevStatuses, sentAt : Int \cup {None}, ackedAt : Int \cup {None}]

VARIABLES
    clock,
    doing,      \* the request's handler: its step, the outcome it got and the state it left the row in
    row,        \* the tran_log row
    history,    \* its tran_state_history, in the order of created_at and id
    rev,        \* its saf_queue row for a 0420, None without
    advised,    \* a completion's 0220 is in saf_queue
    late,       \* an answer the mux has no pending request for is on its way
    held,       \* the issuer holds (or, for a refund, gave) the money
    deciding,   \* the issuer has the request and no row of it yet: past Deduplicate, before LogAndOutbox
    missed,     \* history: the 0420 was acknowledged out of reversal_without_original meanwhile
    view,       \* the client's request for the journey: its step and what it read
    shown,      \* the journey last answered
    views, backdated

issuerVars == <<held, deciding, missed>>
readerVars == <<view, shown, views>>
vars == <<clock, doing, row, history, rev, advised, late, issuerVars, readerVars, backdated>>

Statuses == {"NONE", "CREATED", "SENT", "APPROVED", "DECLINED", "TIMED_OUT", "REVERSAL_PENDING", "REVERSED"}
(* What mux.Send comes to: the status the response or SendFailureStatus gives, and the RC, 05 for
   every decline that is not of a bad MAC. *)
Outcome(status, rc) == [status |-> status, rc |-> rc]
Outcomes == {Outcome("APPROVED", "00"), Outcome("DECLINED", "05"), Outcome("DECLINED", "96"), Outcome("TIMED_OUT", "")}
(* Whether the issuer booked the request it answered so: Authorize may throw after its COMMIT took
   effect, and the 0210 without DE 39 is a decline to the gateway. *)
Booked(o) == IF o.rc = "00" THEN {TRUE} ELSE BOOLEAN

Idle == [at |-> "idle", outcome |-> Outcome("NONE", ""), current |-> "NONE"]

NoView == [at |-> "idle", row |-> None, history |-> <<>>]

Init ==
    /\ clock = Start
    /\ doing = Idle
    /\ \E type \in Types : row = [type |-> type, status |-> "NONE", rc |-> "", createdAt |-> Start,
                                  sentAt |-> None, lateAt |-> None]
    /\ history = <<>> /\ rev = None /\ advised = FALSE /\ late = FALSE
    /\ held = FALSE /\ deciding = FALSE /\ missed = FALSE
    /\ view = NoView /\ shown = None /\ views = 0 /\ backdated = FALSE

Tick ==
    /\ clock < MaxTime
    /\ clock' = clock + 1
    /\ UNCHANGED <<doing, row, history, rev, advised, late, issuerVars, readerVars, backdated>>

(***************************************************************************)
(* The records.                                                            *)
(***************************************************************************)
Records(status) == history' = Append(history, [to |-> status, at |-> clock])
Goes(step) == doing' = [doing EXCEPT !.at = step]
Done == doing' = [Idle EXCEPT !.at = "done"]

(* declinedTransaction and recordLinkDown: nothing is sent, and the row has no sent_at. *)
LinkDown ==
    /\ doing.at = "idle"
    /\ row' = [row EXCEPT !.status = "DECLINED", !.rc = "91", !.createdAt = clock]
    /\ Done
    /\ UNCHANGED <<clock, history, rev, advised, late, issuerVars, readerVars, backdated>>

(* sendPurchase and sendAndRecord up to Insert: sent_at is read before the row exists. *)
Begin ==
    /\ doing.at = "idle"
    /\ row' = [row EXCEPT !.sentAt = clock]
    /\ Goes("insert")
    /\ UNCHANGED <<clock, history, rev, advised, late, issuerVars, readerVars, backdated>>

Insert ==
    /\ doing.at = "insert"
    /\ row' = [row EXCEPT !.status = "CREATED", !.createdAt = clock]
    /\ Goes("mark")
    /\ UNCHANGED <<clock, history, rev, advised, late, issuerVars, readerVars, backdated>>

(* UpdateStatus to SENT, and the RecordStateTransition after it; nothing is sent when either fails. *)
MarkSent ==
    /\ doing.at = "mark"
    /\ row' = [row EXCEPT !.status = "SENT"]
    /\ Goes("record sent")
    /\ UNCHANGED <<clock, history, rev, advised, late, issuerVars, readerVars, backdated>>

RecordSent ==
    /\ doing.at = "record sent"
    /\ Records("SENT") /\ Goes("send")
    /\ UNCHANGED <<clock, row, rev, advised, late, issuerVars, readerVars, backdated>>

(* A completion whose 0230 fails its MAC stays an unknown outcome. *)
Learns(o) ==
    IF row.type = "COMPLETION" /\ o.rc = "96" THEN [o EXCEPT !.status = "TIMED_OUT", !.rc = ""] ELSE o

(* mux.Send, mapSendOutcome and outcome. The issuer may still be deciding a request given up on, or
   its answer may still come. *)
Send ==
    /\ doing.at = "send"
    /\ \E o \in Outcomes : \E booked \in Booked(o) :
        /\ doing' = [doing EXCEPT !.at = "decide", !.outcome = Learns(o)]
        /\ held' = (booked /\ row.type # "BALANCE")
        /\ deciding' \in (IF o.status = "TIMED_OUT" /\ ~booked THEN BOOLEAN ELSE {FALSE})
        /\ late' \in (IF o.status = "TIMED_OUT" /\ ~deciding' THEN BOOLEAN ELSE {FALSE})
    /\ UNCHANGED <<clock, row, history, rev, advised, missed, readerVars, backdated>>

(* LogAndOutbox and Authorize: the request is booked or declined, and answered too late or not at
   all. *)
IssuerDecides ==
    /\ deciding /\ deciding' = FALSE
    /\ held' \in {held, row.type # "BALANCE"}
    /\ late' \in {late, TRUE}
    /\ UNCHANGED <<clock, doing, row, history, rev, advised, missed, readerVars, backdated>>

(* recordStatus: UpdateStatusFrom SENT. A row the sweeper moved ends the request; a failed update
   leaves the row SENT, and what the outcome owes is still queued from there. *)
Decide ==
    /\ doing.at = "decide"
    /\ \/ /\ row.status = "SENT"
          /\ row' = [row EXCEPT !.status = doing.outcome.status, !.rc = doing.outcome.rc]
          /\ doing' = [doing EXCEPT !.at = "record", !.current = doing.outcome.status]
       \/ row.status # "SENT" /\ Done /\ UNCHANGED row
       \/ doing' = [doing EXCEPT !.at = "follow up", !.current = "SENT"] /\ UNCHANGED row
    /\ UNCHANGED <<clock, history, rev, advised, late, issuerVars, readerVars, backdated>>

(* RecordStateTransition, which may fail. *)
Record ==
    /\ doing.at = "record"
    /\ \/ Records(doing.outcome.status)
       \/ UNCHANGED history
    /\ Goes("follow up")
    /\ UNCHANGED <<clock, row, rev, advised, late, issuerVars, readerVars, backdated>>

(* ReversalQueuer.Queue: one transaction, only from the state the caller read. *)
Queue(from) ==
    /\ row.status = from
    /\ row' = [row EXCEPT !.status = "REVERSAL_PENDING"]
    /\ Records("REVERSAL_PENDING")
    /\ rev' = [status |-> "PENDING", sentAt |-> None, ackedAt |-> None]

(* What an outcome owes the issuer: finalizeSendResult, finalize and reverseIfOwed. *)
Owes(o) ==
    IF row.type = "BALANCE" THEN "nothing"
    ELSE IF o.status = "TIMED_OUT" THEN IF row.type = "COMPLETION" THEN "advice" ELSE "reversal"
    ELSE IF o.rc = "96" THEN "reversal" ELSE "nothing"

FollowUp ==
    /\ doing.at = "follow up"
    /\ Done
    /\ CASE Owes(doing.outcome) = "reversal" ->
              (Queue(doing.current) \/ UNCHANGED <<row, history, rev>>) /\ UNCHANGED advised
         [] Owes(doing.outcome) = "advice" -> advised' \in {TRUE, advised} /\ UNCHANGED <<row, history, rev>>
         [] OTHER -> UNCHANGED <<row, history, rev, advised>>
    /\ UNCHANGED <<clock, late, issuerVars, readerVars, backdated>>

(* A statement before the send fails, or the gateway stops: the handler takes no further step. *)
Stop ==
    /\ doing.at \notin {"idle", "done"}
    /\ Done
    /\ UNCHANGED <<clock, row, history, rev, advised, late, issuerVars, readerVars, backdated>>

(* FindOrphans. The sweeper's age exceeds the send timeout, so a request is not swept before its send
   has ended; a handler slow to record what it learnt finds its row moved. Once it has begun to, it
   ends within persistTimeout. *)
Orphan ==
    /\ doing.at \in {"decide", "done"}
    /\ \/ row.status = "SENT"
       \/ row.status = "TIMED_OUT" /\ row.type # "BALANCE" /\ rev = None /\ ~advised
       \/ row.status = "DECLINED" /\ row.rc = "96" /\ row.type \notin {"BALANCE", "COMPLETION"} /\ rev = None

(* MarkTimedOut: the row and its history in one transaction. *)
MarkTimedOut ==
    /\ Orphan /\ row.status = "SENT"
    /\ row' = [row EXCEPT !.status = "TIMED_OUT"]
    /\ Records("TIMED_OUT")
    /\ UNCHANGED <<clock, doing, rev, advised, late, issuerVars, readerVars, backdated>>

SweepQueues ==
    /\ Orphan /\ row.status # "SENT"
    /\ IF row.type = "COMPLETION"
       THEN advised' = TRUE /\ UNCHANGED <<row, history, rev>>
       ELSE Queue(row.status) /\ UNCHANGED advised
    /\ UNCHANGED <<clock, doing, late, issuerVars, readerVars, backdated>>

(* cancelPurchase *)
CancelPurchase ==
    /\ row.type = "PURCHASE" /\ row.status = "APPROVED"
    /\ Queue("APPROVED")
    /\ UNCHANGED <<clock, doing, advised, late, issuerVars, readerVars, backdated>>

(* assignNetworkIdentity: DE 7, of second precision, is stored before the first send. *)
SecondOf(t) == t - (t % PerSecond)

AssignNetworkIdentity ==
    /\ rev # None /\ rev.status \in {"PENDING", "IN_FLIGHT"} /\ rev.sentAt = None
    /\ rev' = [rev EXCEPT !.sentAt = SecondOf(clock), !.status = "IN_FLIGHT"]
    /\ UNCHANGED <<clock, doing, row, history, advised, late, issuerVars, readerVars, backdated>>

(* retryLater, after a send the issuer did not answer in time: it may have returned the money, and
   its 0430 may still come.  Any retry may be the last: max_attempts is not fixed here. *)
RetryLater ==
    /\ rev # None /\ rev.status = "IN_FLIGHT" /\ rev.sentAt # None
    /\ \E status \in {"IN_FLIGHT", "DEAD"} : rev' = [rev EXCEPT !.status = status]
    /\ \/ UNCHANGED <<held, late>>
       \/ held' = FALSE /\ late' = TRUE
    /\ UNCHANGED <<clock, doing, row, history, advised, deciding, missed, readerVars, backdated>>

(* settle and MarkAcked of a 0420: the advice, the row and the history in one transaction.
   LocateAndReverse has returned what was booked; a request without a row yet it has missed. *)
MarkAcked ==
    /\ rev # None /\ rev.status = "IN_FLIGHT" /\ rev.sentAt # None
    /\ rev' = [rev EXCEPT !.status = "ACKED", !.ackedAt = clock]
    /\ row' = [row EXCEPT !.status = "REVERSED"]
    /\ Records("REVERSED")
    /\ held' = FALSE /\ missed' = deciding
    /\ UNCHANGED <<clock, doing, advised, late, deciding, readerVars, backdated>>

(* MarkAcked of a 0220 *)
AdviceAcked ==
    /\ advised /\ row.status = "TIMED_OUT"
    /\ row' = [row EXCEPT !.status = "APPROVED", !.rc = "00"]
    /\ Records("APPROVED")
    /\ held' = TRUE
    /\ UNCHANGED <<clock, doing, rev, advised, late, deciding, missed, readerVars, backdated>>

(* newLateResponseHandler and RecordLateResponse, by DE 37: a completion's names its pre-auth. *)
RecordLateResponse ==
    /\ late /\ late' = FALSE
    /\ row' = IF row.status = "SENT" \/ row.type = "COMPLETION" THEN row ELSE [row EXCEPT !.lateAt = clock]
    /\ UNCHANGED <<clock, doing, history, rev, advised, issuerVars, readerVars, backdated>>

Earlier(t) == IF t = None THEN None ELSE t - Shift

(* Backdate, which the seed calls for a purchase it got an answer to, so never sent or with its
   outcome in the history: every stored time is moved, but DE 7, which is inside the advice. *)
Backdate ==
    /\ ~backdated /\ row.type = "PURCHASE" /\ doing.at = "done" /\ row.status # "NONE"
    /\ row.sentAt = None \/ \E i \in DOMAIN history : history[i].to \in {"APPROVED", "DECLINED", "TIMED_OUT"}
    /\ row' = [row EXCEPT !.createdAt = Earlier(@), !.sentAt = Earlier(@), !.lateAt = Earlier(@)]
    /\ history' = [i \in DOMAIN history |-> [history[i] EXCEPT !.at = Earlier(@)]]
    /\ rev' = IF rev = None THEN None ELSE [rev EXCEPT !.ackedAt = Earlier(@)]
    /\ backdated' = TRUE
    /\ UNCHANGED <<clock, doing, advised, late, issuerVars, readerVars>>

(***************************************************************************)
(* BuildJourney.  b holds the row, the history and the reversal as read;   *)
(* a time is None where the code's second result is false.                 *)
(***************************************************************************)
StartOf(b) ==
    Min({b.row.createdAt} \cup ({b.row.sentAt} \ {None})
        \cup {b.history[i].at : i \in DOMAIN b.history \cap {1}})

Reached(b, status) ==
    LET hits == {i \in 1..Len(b.history) : b.history[i].to = status}
    IN  IF hits = {} THEN None ELSE b.history[Min(hits)].at

At(code, t) == [code |-> code, at |-> t]
(* The step, when there is a time for it. *)
If(t, code) == IF t = None THEN <<>> ELSE <<At(code, t)>>

SentAt(b) == IF Reached(b, "SENT") # None THEN Reached(b, "SENT") ELSE b.row.sentAt

RequestSteps(b) ==
    <<At("POS_REQUEST", StartOf(b)),
      IF SentAt(b) = None THEN At("LOCAL_DECLINE", StartOf(b)) ELSE At("REQUEST_SENT", SentAt(b))>>

(* Variant: a reversal is told of while the row, and not its history, says it is pending. *)
ReversalQueuedNow(b) ==
    IF b.row.status = "REVERSAL_PENDING" THEN If(Reached(b, "REVERSAL_PENDING"), "REVERSAL_QUEUED") ELSE <<>>

ReversalQueued(b) == If(Reached(b, "REVERSAL_PENDING"), "REVERSAL_QUEUED")

OutcomeSteps(b) ==
    LET timedOut == Reached(b, "TIMED_OUT")
        approved == Reached(b, "APPROVED")
        declined == Reached(b, "DECLINED")
        unanswered == <<At("NO_RESPONSE", timedOut)>> \o ReversalQueued(b)
    IN  IF SentAt(b) = None THEN <<At("POS_RESULT", StartOf(b))>>
        ELSE IF timedOut # None THEN Append(unanswered, At("POS_RESULT", unanswered[Len(unanswered)].at))
        ELSE IF approved # None
        THEN <<At("ISSUER_APPROVED", approved), At("POS_RESULT", approved)>> \o ReversalQueued(b)
        ELSE IF declined # None
        THEN <<At("ISSUER_DECLINED", declined), At("POS_RESULT", declined)>> \o ReversalQueued(b)
        ELSE <<>>

ReversalSentAt(b) ==
    IF b.rev = None THEN Reached(b, "REVERSED")
    ELSE IF b.rev.sentAt # None /\ b.rev.ackedAt # None /\ b.rev.sentAt > b.rev.ackedAt THEN b.rev.ackedAt
    ELSE b.rev.sentAt

ReversalConfirmedAt(b) ==
    IF b.rev # None /\ b.rev.ackedAt # None THEN b.rev.ackedAt ELSE Reached(b, "REVERSED")

ReversalSteps(b) ==
    If(ReversalSentAt(b), "REVERSAL_SENT") \o If(ReversalConfirmedAt(b), "REVERSAL_CONFIRMED")

MsBetween(from, to) == Max({0, to - from})

(* Variant: a step keeps its own offset. *)
WithOffsetsAsRead(timed, start) ==
    [i \in DOMAIN timed |-> [code |-> timed[i].code, offset |-> MsBetween(start, timed[i].at)]]

(* Each offset is at least the ones before it. *)
WithOffsets(timed, start) ==
    [i \in DOMAIN timed |->
        [code |-> timed[i].code, offset |-> Max({MsBetween(start, timed[j].at) : j \in 1..i})]]

InsertAtOffset(steps, s) ==
    LET k == Min({Len(steps) + 1} \cup {i \in DOMAIN steps : steps[i].offset > s.offset})
    IN  SubSeq(steps, 1, k - 1) \o <<s>> \o SubSeq(steps, k, Len(steps))

LateResponse(b) == [code |-> "LATE_RESPONSE", offset |-> MsBetween(StartOf(b), b.row.lateAt)]

Steps(b) ==
    LET timed == RequestSteps(b) \o OutcomeSteps(b) \o ReversalSteps(b)
        steps == WithOffsets(timed, StartOf(b))
    IN  IF b.row.lateAt = None THEN steps ELSE InsertAtOffset(steps, LateResponse(b))

StepOf(steps, code) ==
    LET hits == {i \in 1..Len(steps) : steps[i].code = code}
    IN  IF hits = {} THEN 0 ELSE Min(hits)

MoneySign(type) == CASE type = "REFUND" -> 1 [] type = "BALANCE" -> 0 [] OTHER -> -1

(* Variant: a decline holds nothing, whatever was queued for it. *)
DebitStepOfAnswer(steps) ==
    IF StepOf(steps, "ISSUER_APPROVED") > 0 THEN StepOf(steps, "ISSUER_APPROVED") ELSE StepOf(steps, "NO_RESPONSE")

DebitStep(steps) ==
    IF StepOf(steps, "ISSUER_APPROVED") > 0 THEN StepOf(steps, "ISSUER_APPROVED")
    ELSE IF StepOf(steps, "NO_RESPONSE") > 0 THEN StepOf(steps, "NO_RESPONSE")
    ELSE IF StepOf(steps, "REVERSAL_QUEUED") > 0 THEN StepOf(steps, "ISSUER_DECLINED") ELSE 0

MoneyRow(delta, seq) == [delta |-> delta, atStep |-> seq]

MoneyRows(type, steps) ==
    LET sign == MoneySign(type)
        reversed == StepOf(steps, "REVERSAL_CONFIRMED")
    IN  IF DebitStep(steps) = 0 \/ sign = 0 THEN <<>>
        ELSE <<MoneyRow(sign, DebitStep(steps))>>
             \o (IF reversed > 0 THEN <<MoneyRow(-sign, reversed)>> ELSE <<>>)

(* With the status of the row, and what the history had, as they were read. *)
BuildJourney(b) ==
    [status |-> b.row.status, reached |-> {b.history[i].to : i \in DOMAIN b.history},
     steps |-> Steps(b), money |-> MoneyRows(b.row.type, Steps(b))]

(***************************************************************************)
(* handleGetTransactionJourney                                             *)
(***************************************************************************)
recordVars == <<clock, doing, row, history, rev, advised, late, issuerVars, backdated>>

(* Get: a request whose row is not there is answered 404. *)
GetRow ==
    /\ view.at = "idle" /\ views < MaxViews /\ row.status # "NONE"
    /\ view' = [NoView EXCEPT !.at = "history", !.row = row]
    /\ views' = views + 1
    /\ UNCHANGED <<recordVars, shown>>

ListStateHistory ==
    /\ view.at = "history"
    /\ view' = [view EXCEPT !.at = "reversal", !.history = history]
    /\ UNCHANGED <<recordVars, shown, views>>

(* Variant: the row is read last, when the page is put together. *)
FindReversalThenRow ==
    /\ view.at = "reversal"
    /\ shown' = BuildJourney([row |-> row, history |-> view.history,
                              rev |-> IF Reached(view, "REVERSAL_PENDING") = None THEN None ELSE rev])
    /\ view' = NoView
    /\ UNCHANGED <<recordVars, views>>

(* findReversal, which reads saf_queue only when the history has a reversal, and BuildJourney *)
FindReversal ==
    /\ view.at = "reversal"
    /\ shown' = BuildJourney([row |-> view.row, history |-> view.history,
                              rev |-> IF Reached(view, "REVERSAL_PENDING") = None THEN None ELSE rev])
    /\ view' = NoView
    /\ UNCHANGED <<recordVars, views>>

Handler == LinkDown \/ Begin \/ Insert \/ MarkSent \/ RecordSent \/ Send \/ Decide \/ Record \/ FollowUp \/ Stop
Sweeper == MarkTimedOut \/ SweepQueues
Worker == AssignNetworkIdentity \/ RetryLater \/ MarkAcked \/ AdviceAcked
Reader == GetRow \/ ListStateHistory \/ FindReversal

(* Bound: nothing more is followed once the last journey is answered. *)
Next ==
    /\ views < MaxViews \/ view.at # "idle"
    /\ \/ Tick \/ Handler \/ Sweeper \/ CancelPurchase \/ Worker \/ IssuerDecides \/ RecordLateResponse
       \/ Backdate \/ Reader

Spec == Init /\ [][Next]_vars

(***************************************************************************)
(* Properties                                                              *)
(***************************************************************************)
Place(code) == StepOf(shown.steps, code)
Net == FoldFunction(LAMBDA m, sum : sum + m.delta, 0, shown.money)

(* withOffsets and insertAtOffset: a journey is told in order, whatever the clocks of its parts say
   (a DE 7 of second precision, a history written by two processes, a backdated row). *)
OffsetsOrdered ==
    shown # None => \A i \in 2..Len(shown.steps) : shown.steps[i - 1].offset <= shown.steps[i].offset

(* handleGetTransactionJourney, findReversal and reversalSteps: the three reads tell one story of the
   reversal.  A journey of a row read as REVERSED has the confirmation; a confirmation comes after
   the send, and the send after the queueing, which is missing only while the history has no outcome;
   and what is told as confirmed the issuer does not hold, unless the 0420 missed a request that the
   issuer had not written down yet (LocateAndReverse). *)
ReversalTold ==
    shown # None =>
        LET queued == Place("REVERSAL_QUEUED")
            sent == Place("REVERSAL_SENT")
            confirmed == Place("REVERSAL_CONFIRMED")
        IN  /\ shown.status = "REVERSED" => confirmed > 0
            /\ confirmed > 0 => sent \in 1..(confirmed - 1) /\ (held => missed)
            /\ sent > 0 => \/ queued \in 1..(sent - 1)
                           \/ queued = 0 /\ shown.reached \cap {"TIMED_OUT", "APPROVED", "DECLINED"} = {}

(* debitStep and moneyRows: money the issuer holds, or gave, is in the journey, for an answer that was
   lost as for one whose MAC failed.  It is missing only while the history has no outcome; or after a
   decline without a reversal, one whose MAC failed and that has none yet or one the issuer sent
   although it had booked the request; or when the 0420 missed the request (LocateAndReverse). *)
NothingHidden ==
    shown # None /\ held /\ ~missed /\ Net # MoneySign(row.type) =>
        /\ shown.reached \cap {"TIMED_OUT", "APPROVED"} = {}
        /\ ~({"DECLINED", "REVERSAL_PENDING"} \subseteq shown.reached)

(* reached, outcomeSteps and findReversal: a client that asks again is told all it was told before. *)
StepsGrow ==
    [][shown # None => {shown.steps[i].code : i \in DOMAIN shown.steps}
                       \subseteq {shown'.steps[i].code : i \in DOMAIN shown'.steps}]_shown
=============================================================================
