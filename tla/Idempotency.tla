---------------------------- MODULE Idempotency ----------------------------
(***************************************************************************)
(* Idempotency keys of the acquirer gateway: purchase.Idempotent and the   *)
(* idempotency_record table behind it.                                     *)
(*                                                                         *)
(* A request is one HTTP call.  Several requests may carry the same key:   *)
(* they are the retries of a POS that got no answer.  Each request runs    *)
(* concurrently with the others and loses the processor between any two    *)
(* database statements; the gateway may stop at any point.  A request      *)
(* creates at most one transaction, so the request itself stands for its   *)
(* reservation token and for the RRN of its transaction.                   *)
(***************************************************************************)
EXTENDS Naturals

CONSTANTS
    Calls,      \* HTTP calls on one route, original calls and retries alike
    RequestKeys,       \* idempotency keys
    KeyOf,      \* the Idempotency-Key header of each request
    HashOf,     \* the request hash of each request
    Null,       \* SQL NULL: no token, no RRN, no body
    MaxEpoch    \* bound: how often one key may outlive its 24 h TTL

ASSUME IdempotencyAssumption ==
    /\ KeyOf \in [Calls -> RequestKeys]
    /\ Null \notin Calls
    /\ MaxEpoch \in Nat

VARIABLES
    rec,        \* idempotency_record, one row per key
    pc,         \* the next statement each request runs
    target,     \* the RRN a request recovers or answers with
    txn,        \* tran_log.state of the transaction each request creates
    sent,       \* requests whose 0200 was written to the issuer link
    epoch,      \* times the key was claimed afresh after its TTL (history)
    epochOf     \* the epoch in which a request took hold of its key (history)

idempotencyVars == <<rec, pc, target, txn, sent, epoch, epochOf>>

Hashes == {HashOf[r] : r \in Calls}
TxnStates == {"NONE", "CREATED", "SENT", "APPROVED", "DECLINED", "REVERSAL_PENDING", "REVERSED"}
Steps == {"idle", "lookup", "reclaim", "create", "attach", "mark", "send", "await",
          "recover", "store", "release", "done"}

(* Age of the row: up to staleAfter, past it, past the 24 h TTL. *)
Ages == {"fresh", "stale", "expired"}

(* A row: status 0 is "pending", an HTTP status is "stored"; "free" means no row.
   by is the RRN of the transaction in the stored body. *)
Rows == [status : {"free", "pending", "stored"}, hash : Hashes \cup {Null}, by : Calls \cup {Null},
         token : Calls \cup {Null}, rrn : Calls \cup {Null}, age : Ages]

FreeRow == [status |-> "free", hash |-> Null, by |-> Null, token |-> Null, rrn |-> Null, age |-> "fresh"]

Final(s) == s \notin {"NONE", "CREATED", "SENT"}

(* Every table and every request holds values the code can put there. *)
TypeOK ==
    /\ rec \in [RequestKeys -> Rows]
    /\ pc \in [Calls -> Steps]
    /\ target \in [Calls -> Calls \cup {Null}]
    /\ txn \in [Calls -> TxnStates]
    /\ sent \subseteq Calls
    /\ epoch \in [RequestKeys -> Nat]
    /\ epochOf \in [Calls -> Nat]

IdempotencyInit ==
    /\ rec = [k \in RequestKeys |-> FreeRow]
    /\ pc = [r \in Calls |-> "idle"]
    /\ target = [r \in Calls |-> Null]
    /\ txn = [r \in Calls |-> "NONE"]
    /\ sent = {}
    /\ epoch = [k \in RequestKeys |-> 0]
    /\ epochOf = [r \in Calls |-> 0]

Moves(r, step) == pc' = [pc EXCEPT ![r] = step]

(* The answer to r is the transaction of RRN q. *)
AnswerWith(r, q, step) ==
    /\ target' = [target EXCEPT ![r] = q]
    /\ Moves(r, step)

(***************************************************************************)
(* Reserve: an INSERT that claims a free key or one past its TTL, and,     *)
(* when it claimed nothing, a SELECT in a second statement.                *)
(***************************************************************************)
Claimable(k) == rec[k].status = "free" \/ rec[k].age = "expired"

Reserve(r) ==
    LET k == KeyOf[r] IN
    /\ pc[r] = "idle"
    /\ \/ /\ Claimable(k)
          /\ rec[k].status # "free" => epoch[k] < MaxEpoch
          /\ rec' = [rec EXCEPT ![k] = [status |-> "pending", hash |-> HashOf[r], by |-> Null,
                                        token |-> r, rrn |-> Null, age |-> "fresh"]]
          /\ epoch' = [epoch EXCEPT ![k] = IF rec[k].status = "free" THEN @ ELSE @ + 1]
          /\ epochOf' = [epochOf EXCEPT ![r] = epoch'[k]]
          /\ Moves(r, "create")
       \/ /\ ~Claimable(k)
          /\ Moves(r, "lookup")
          /\ UNCHANGED <<rec, epoch, epochOf>>
    /\ UNCHANGED <<target, txn, sent>>

(* What the row found by the SELECT means for r.  A request with another hash is refused. *)
Lookup(r) ==
    LET row == rec[KeyOf[r]] IN
    /\ pc[r] = "lookup"
    /\ \/ /\ \/ row.status = "free"                                \* released in between
             \/ row.hash # HashOf[r]                               \* ErrIdempotencyKeyMismatch
             \/ row.status = "pending" /\ row.age = "fresh"        \* InProgressError
          /\ Moves(r, "done")
          /\ UNCHANGED target
       \/ /\ row.status = "pending" /\ row.hash = HashOf[r] /\ row.age # "fresh" /\ row.rrn # Null
          /\ AnswerWith(r, row.rrn, "recover")
       \/ /\ row.status = "pending" /\ row.hash = HashOf[r] /\ row.age # "fresh" /\ row.rrn = Null
          /\ Moves(r, "reclaim")
          /\ UNCHANGED target
       \/ /\ row.status = "stored" /\ row.hash = HashOf[r]
          /\ AnswerWith(r, row.by, "done")
    /\ UNCHANGED <<rec, txn, sent, epoch, epochOf>>

(* Variant: the take-over does not look at the RRN. *)
ReclaimableIgnoringRRN(r) ==
    LET row == rec[KeyOf[r]] IN
    row.status = "pending" /\ row.hash = HashOf[r] /\ row.age # "fresh"

(* The row a stale key must still be for Reclaim's UPDATE to take it over. *)
Reclaimable(r) ==
    LET row == rec[KeyOf[r]] IN
    row.status = "pending" /\ row.hash = HashOf[r] /\ row.rrn = Null /\ row.age # "fresh"

Reclaim(r) ==
    /\ pc[r] = "reclaim"
    /\ \/ /\ Reclaimable(r)
          /\ rec' = [rec EXCEPT ![KeyOf[r]] = [@ EXCEPT !.token = r, !.age = "fresh"]]
          /\ epochOf' = [epochOf EXCEPT ![r] = epoch[KeyOf[r]]]
          /\ Moves(r, "create")
       \/ /\ ~Reclaimable(r)                                       \* another retry was first
          /\ Moves(r, "done")
          /\ UNCHANGED <<rec, epochOf>>
    /\ UNCHANGED <<target, txn, sent, epoch>>

(***************************************************************************)
(* create: the body of the handler that holds the key.                     *)
(***************************************************************************)

(* Unknown card or terminal, or a statement failed, before anything was sent. *)
CreateFails(r) ==
    /\ pc[r] \in {"create", "attach"}
    /\ Moves(r, "release")
    /\ UNCHANGED <<rec, target, txn, sent, epoch, epochOf>>

(* The link is down: the decline is logged and becomes the answer; no RRN is attached. *)
RecordLinkDown(r) ==
    /\ pc[r] = "create"
    /\ txn' = [txn EXCEPT ![r] = "DECLINED"]
    /\ AnswerWith(r, r, "store")
    /\ UNCHANGED <<rec, sent, epoch, epochOf>>

InsertCreated(r) ==
    /\ pc[r] = "create"
    /\ txn' = [txn EXCEPT ![r] = "CREATED"]
    /\ Moves(r, "attach")
    /\ UNCHANGED <<rec, target, sent, epoch, epochOf>>

Holds(r) == rec[KeyOf[r]].status = "pending" /\ rec[KeyOf[r]].token = r

(* The fencing UPDATE: a request that lost its key stops here, before the send. *)
AttachRRN(r) ==
    /\ pc[r] = "attach"
    /\ \/ /\ Holds(r)
          /\ rec' = [rec EXCEPT ![KeyOf[r]] = [@ EXCEPT !.rrn = r]]
          /\ Moves(r, "mark")
       \/ /\ ~Holds(r)                                             \* ErrReservationLost
          /\ Moves(r, "done")
          /\ UNCHANGED rec
    /\ UNCHANGED <<target, txn, sent, epoch, epochOf>>

(* SENT is written before the send; either of its two statements may fail. *)
MarkSent(r) ==
    /\ pc[r] = "mark"
    /\ \/ txn' = [txn EXCEPT ![r] = "SENT"] /\ Moves(r, "send")
       \/ txn' = [txn EXCEPT ![r] = "SENT"] /\ Moves(r, "release")  \* the history row failed
       \/ UNCHANGED txn /\ Moves(r, "release")
    /\ UNCHANGED <<rec, target, sent, epoch, epochOf>>

(* mux.Send writes the 0200, unless the link went away first. *)
Send(r) ==
    /\ pc[r] = "send"
    /\ \/ sent' = sent \cup {r}
       \/ UNCHANGED sent
    /\ Moves(r, "await")
    /\ UNCHANGED <<rec, target, txn, epoch, epochOf>>

(* The outcome: recorded and answered; or, when it cannot be recorded or the sweeper was
   first, answered from whatever tran_log holds (ErrAfterSend). *)
Record(r) ==
    /\ pc[r] = "await"
    /\ \/ /\ txn[r] = "SENT"
          /\ \E s \in {"APPROVED", "DECLINED", "REVERSAL_PENDING"} : txn' = [txn EXCEPT ![r] = s]
          /\ AnswerWith(r, r, "store")
       \/ /\ AnswerWith(r, r, "recover")
          /\ UNCHANGED txn
    /\ UNCHANGED <<rec, sent, epoch, epochOf>>

(* answerFromLog: a final state is stored as the key's response, any other only returned. *)
Recover(r) ==
    /\ pc[r] = "recover"
    /\ \/ Final(txn[target[r]]) /\ Moves(r, "store")
       \/ Moves(r, "done")                                          \* not final, or the read failed
    /\ UNCHANGED <<rec, target, txn, sent, epoch, epochOf>>

(* Variant: the upsert keeps the hash of the row it finds. *)
StoredKeepingHash(row, r) ==
    IF row.status = "free"
    THEN [FreeRow EXCEPT !.status = "stored", !.hash = HashOf[r], !.by = target[r]]
    ELSE [row EXCEPT !.status = "stored", !.by = target[r]]

(* Store upserts without looking at the token; it keeps the token, RRN and age of the row. *)
Stored(row, r) ==
    IF row.status = "free"
    THEN [FreeRow EXCEPT !.status = "stored", !.hash = HashOf[r], !.by = target[r]]
    ELSE [row EXCEPT !.status = "stored", !.hash = HashOf[r], !.by = target[r]]

Store(r) ==
    /\ pc[r] = "store"
    /\ \/ rec' = [rec EXCEPT ![KeyOf[r]] = Stored(@, r)]
       \/ UNCHANGED rec                                            \* the write failed
    /\ Moves(r, "done")
    /\ UNCHANGED <<target, txn, sent, epoch, epochOf>>

Release(r) ==
    /\ pc[r] = "release"
    /\ \/ /\ Holds(r)
          /\ rec' = [rec EXCEPT ![KeyOf[r]] = FreeRow]
       \/ UNCHANGED rec                                            \* not held, or the DELETE failed
    /\ Moves(r, "done")
    /\ UNCHANGED <<target, txn, sent, epoch, epochOf>>

(***************************************************************************)
(* The rest of the gateway.                                                *)
(***************************************************************************)

(* The orphan sweeper and the SAF worker move the row of a transaction on. *)
FollowUp(r) ==
    /\ \/ txn[r] = "SENT" /\ txn' = [txn EXCEPT ![r] = "REVERSAL_PENDING"]
       \/ txn[r] = "REVERSAL_PENDING" /\ txn' = [txn EXCEPT ![r] = "REVERSED"]
    /\ UNCHANGED <<rec, pc, target, sent, epoch, epochOf>>

(* Time passes for the row of a key. *)
Older(age) == IF age = "fresh" THEN "stale" ELSE "expired"

Age(k) ==
    /\ rec[k].status # "free" /\ rec[k].age # "expired"
    /\ rec' = [rec EXCEPT ![k] = [@ EXCEPT !.age = Older(rec[k].age)]]
    /\ UNCHANGED <<pc, target, txn, sent, epoch, epochOf>>

(* The gateway stops: every request under way is lost, the tables stay. *)
RequestsCrash ==
    /\ pc' = [r \in Calls |-> IF pc[r] = "idle" THEN "idle" ELSE "done"]
    /\ UNCHANGED <<rec, target, txn, sent, epoch, epochOf>>

Step(r) ==
    \/ Reserve(r) \/ Lookup(r) \/ Reclaim(r)
    \/ CreateFails(r) \/ RecordLinkDown(r) \/ InsertCreated(r) \/ AttachRRN(r) \/ MarkSent(r)
    \/ Send(r) \/ Record(r) \/ Recover(r) \/ Store(r) \/ Release(r)

IdempotencyNext ==
    \/ \E r \in Calls : Step(r) \/ FollowUp(r)
    \/ \E k \in RequestKeys : Age(k)
    \/ RequestsCrash

IdempotencySpec == IdempotencyInit /\ [][IdempotencyNext]_idempotencyVars

(***************************************************************************)
(* Properties.                                                             *)
(***************************************************************************)

(* Within one life of a key at most one request writes a 0200: whatever order
   the original, its retries, the take-over of a stale key and crashes run in,
   Idempotent never lets a retry send a second time. *)
AtMostOneSend ==
    \A r, q \in sent : KeyOf[r] = KeyOf[q] /\ epochOf[r] = epochOf[q] => r = q

(* A request is only ever answered with a transaction created for the same
   request hash: neither a replay, nor a recovery from tran_log, nor a take-over
   after the TTL hands out the answer of a different request. *)
AnswersSameRequest ==
    \A r \in Calls : target[r] # Null => HashOf[target[r]] = HashOf[r] /\ KeyOf[target[r]] = KeyOf[r]
=============================================================================
