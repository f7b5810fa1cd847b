----------------------------- MODULE PartsProofs -----------------------------
(***************************************************************************)
(* Theorems about three parts of the gateway that share no state: the      *)
(* supervision of the issuer link (Link), the idempotency keys             *)
(* (Idempotency) and the rotation of the link's MAC key (KeyRotation).     *)
(*                                                                         *)
(* They hold for any number of requests, keys, sends, breaks, rotations,   *)
(* crashes and operator's actions.                                         *)
(***************************************************************************)
EXTENDS KeyRotation, Link, Idempotency, TLAPS

(***************************************************************************)
(* Who may use the Mux.                                                    *)
(***************************************************************************)
(* The steps of the loop at which its Mux is published. *)
Published == {"signing", "up", "echoing", "resigning", "resigned", "closing"}

(* OneExchange, with what keeps it: the lock says whose exchange it is, and the Mux stays published
   until the loop has taken the lock. *)
Locking ==
    /\ sup.pc \in LoopSteps /\ manual \in [pc : {"idle", "waiting", "setting"}, op : Ops]
    /\ lock \in {Nobody, "loop", "manual"}
    /\ lock = "loop" <=> sup.pc \in {"echoing", "resigning"}
    /\ lock = "manual" <=> manual.pc = "waiting"
    /\ mux \in BOOLEAN
    /\ mux <=> sup.pc \in Published
    /\ manual.pc = "waiting" => mux

(* The step that Loop names. *)
LEMMA LoopFields ==
    \A step, n : Loop(step, n).pc = step
BY DEF Loop

(* Steps of requests, the reader, the network and the issuer. *)
LEMMA OtherLinkSteps ==
    ASSUME Locking, UNCHANGED <<sup, mux, lock, manual>>
    PROVE  Locking'
BY DEF Locking

(* The loop's steps before and after the link is up. *)
LEMMA ConnectionSteps ==
    ASSUME Locking, Dial \/ Publish \/ SignOnDone \/ ServeFails \/ Close \/ Down
    PROVE  Locking'
<1> USE DEF Locking, Published, LoopSteps, exchangeVars
<1>1. CASE Dial
  BY <1>1, LoopFields, LinkAssumption DEF Dial
<1>2. CASE Publish
  BY <1>2, LoopFields, LinkAssumption DEF Publish
<1>3. CASE SignOnDone
  BY <1>3, LoopFields, LinkAssumption DEF SignOnDone
<1>4. CASE ServeFails
  BY <1>4, LoopFields, LinkAssumption DEF ServeFails
<1>5. CASE Close
  <2>1. /\ sup.pc = "closing" /\ sup'.pc = "down" /\ mux' = FALSE /\ lock = Nobody
        /\ UNCHANGED <<lock, manual>>
    BY <1>5, LoopFields DEF Close
  <2> QED BY <2>1, LinkAssumption, Zenon
<1>6. CASE Down
  BY <1>6, LoopFields, LinkAssumption DEF Down
<1> QED BY <1>1, <1>2, <1>3, <1>4, <1>5, <1>6, Zenon

(* Its exchanges while the link is up. *)
LEMMA ExchangeSteps ==
    ASSUME Locking, EchoTick \/ EchoDone \/ ResignOn \/ ResignOnDone \/ ResignOnSetsStatus
    PROVE  Locking'
<1> USE DEF Locking, Published, LoopSteps, exchangeVars
<1>1. CASE EchoTick
  BY <1>1, LoopFields, LinkAssumption DEF EchoTick
<1>2. CASE EchoDone
  <2>1. sup'.pc \in {"up", "closing"}
    BY <1>2, LoopFields DEF EchoDone
  <2> QED BY <1>2, <2>1, LinkAssumption DEF EchoDone
<1>3. CASE ResignOn
  BY <1>3, LoopFields, LinkAssumption DEF ResignOn
<1>4. CASE ResignOnDone
  BY <1>4, LoopFields, LinkAssumption DEF ResignOnDone
<1>5. CASE ResignOnSetsStatus
  BY <1>5, LoopFields, LinkAssumption DEF ResignOnSetsStatus
<1> QED BY <1>1, <1>2, <1>3, <1>4, <1>5

(* The operator's steps: its exchange starts and ends with the lock, and its status comes after. *)
LEMMA OperatorSteps ==
    ASSUME Locking, TriggerDone \/ TriggerSetsStatus \/ \E op \in Ops : Trigger(op)
    PROVE  Locking'
<1> USE DEF Locking, linkVars
<1>1. ASSUME NEW op \in Ops, Trigger(op) PROVE Locking'
  BY <1>1, LinkAssumption DEF Trigger
<1>2. CASE TriggerDone
  <2>1. manual'.pc \in {"idle", "setting"}
    BY <1>2 DEF TriggerDone, NoManual
  <2>2. manual' \in [pc : {"idle", "waiting", "setting"}, op : Ops]
    BY <1>2 DEF TriggerDone, NoManual, Ops
  <2> QED BY <1>2, <2>1, <2>2, LinkAssumption DEF TriggerDone
<1>3. CASE TriggerSetsStatus
  BY <1>3, LinkAssumption DEF TriggerSetsStatus, NoManual, Ops
<1> QED BY <1>1, <1>2, <1>3

(* Every step preserves the invariant. *)
LEMMA LockingStep == Locking /\ [LinkNext]_allVars => Locking'
<1> SUFFICES ASSUME Locking, [LinkNext]_allVars PROVE Locking'
  OBVIOUS
<1>1. CASE LoopStep
  BY <1>1, ConnectionSteps, ExchangeSteps DEF LoopStep
<1>2. CASE Break
  BY <1>2, OtherLinkSteps DEF Break
<1>3. CASE TriggerDone \/ TriggerSetsStatus \/ \E op \in Ops : Trigger(op)
  BY <1>3, OperatorSteps
<1>4. CASE ReaderStep
  BY <1>4, OtherLinkSteps, Zenon DEF ReaderStep, Put, ServeLooksUp, linkVars, exchangeVars
<1>5. CASE \E r \in Reqs : MuxSend(r) \/ RequestStep(r) \/ IssuerReplies(r)
  BY <1>5, OtherLinkSteps, Zenon DEF MuxSend, RequestStep, Receive, TimeOut, IssuerReplies, linkVars, exchangeVars
<1>6. CASE \E m \in mgmt : IssuerHandles(m)
  BY <1>6, OtherLinkSteps DEF IssuerHandles, linkVars
<1>7. CASE UNCHANGED allVars
  BY <1>7, OtherLinkSteps DEF allVars, linkVars, exchangeVars
<1> QED BY <1>1, <1>2, <1>3, <1>4, <1>5, <1>6, <1>7 DEF LinkNext

(* The initial states satisfy it. *)
LEMMA LockingInit == LinkInit => Locking
<1> SUFFICES ASSUME LinkInit PROVE Locking
  OBVIOUS
<1>1. sup.pc = "dial" /\ mux = FALSE /\ lock = Nobody
  BY LoopFields DEF LinkInit
<1>2. manual \in [pc : {"idle", "waiting", "setting"}, op : Ops] /\ manual.pc = "idle"
  BY DEF LinkInit, NoManual, Ops
<1> QED BY <1>1, <1>2, LinkAssumption, Zenon DEF Locking, Published, LoopSteps

(* The invariant holds of every behaviour. *)
THEOREM LinkInductive == LinkSpec => []Locking
BY LockingInit, LockingStep, PTL DEF LinkSpec

(* triggerMu is held across one exchange at a time, and the operator's exchange never outlives the
   Mux it found (echoTick, resignOn, the Trigger functions, the deferred withdrawal in runOnce). *)
THEOREM ExchangesAreAlone == LinkSpec => []OneExchange
<1>1. Locking => OneExchange
  BY LinkAssumption DEF Locking, OneExchange, Published
<1> QED BY <1>1, LinkInductive, PTL

-----------------------------------------------------------------------------
(***************************************************************************)
(* Idempotency keys.                                                       *)
(***************************************************************************)
(* r has passed the fencing UPDATE of AttachRRN and may write, or has written, its 0200. *)
Committed(r) == r \in sent \/ pc[r] \in {"mark", "send", "await"}

(* The row of a key names the request that holds or held it, in the current epoch. *)
TokenInv ==
    \A k \in RequestKeys : rec[k].token # Null =>
        /\ KeyOf[rec[k].token] = k
        /\ epochOf[rec[k].token] = epoch[k]

(* An RRN is only ever attached by the holder, and ends all changes of holder. *)
RRNInv == \A k \in RequestKeys : rec[k].rrn # Null => rec[k].token = rec[k].rrn

FreeInv == \A k \in RequestKeys : rec[k].status = "free" => rec[k] = FreeRow

EpochInv == \A r \in Calls : epochOf[r] <= epoch[KeyOf[r]]

SentInv == \A r \in sent : pc[r] \in {"await", "recover", "store", "done"}

(* The key of a request that may have sent keeps that request's RRN for the epoch. *)
CommittedInv ==
    \A r \in Calls : Committed(r) /\ epochOf[r] = epoch[KeyOf[r]] => rec[KeyOf[r]].rrn = r

OneCommitted ==
    \A r, q \in Calls :
        Committed(r) /\ Committed(q) /\ KeyOf[r] = KeyOf[q] /\ epochOf[r] = epochOf[q] => r = q

IdempotencyInv ==
    /\ TypeOK
    /\ TokenInv
    /\ RRNInv
    /\ FreeInv
    /\ EpochInv
    /\ SentInv
    /\ CommittedInv
    /\ OneCommitted

-----------------------------------------------------------------------------
(* The constants of the state machine are members of the sets TypeOK names. *)
LEMMA Members ==
    /\ \A x \in {"idle", "lookup", "reclaim", "create", "attach", "mark", "send", "await",
                 "recover", "store", "release", "done"} : x \in Steps
    /\ \A x \in {"CREATED", "SENT", "APPROVED", "DECLINED", "REVERSAL_PENDING", "REVERSED"} : x \in TxnStates
    /\ FreeRow \in Rows
BY DEF Steps, TxnStates, FreeRow, Rows, Ages

(* What Reserve inserts is a row. *)
LEMMA ReservedRow ==
    ASSUME NEW r \in Calls
    PROVE  [status |-> "pending", hash |-> HashOf[r], by |-> Null,
            token |-> r, rrn |-> Null, age |-> "fresh"] \in Rows
BY DEF Rows, Ages, Hashes

(* A row is still one after Reclaim's UPDATE. *)
LEMMA ReclaimedRow ==
    ASSUME NEW row \in Rows, NEW r \in Calls
    PROVE  [row EXCEPT !.token = r, !.age = "fresh"] \in Rows
BY Zenon DEF Rows, Ages, Hashes

(* A row is still one after AttachRRN's UPDATE. *)
LEMMA AttachedRow ==
    ASSUME NEW row \in Rows, NEW r \in Calls
    PROVE  [row EXCEPT !.rrn = r] \in Rows
BY DEF Rows, Ages, Hashes

(* A row is still one after Store's upsert. *)
LEMMA StoredRow ==
    ASSUME NEW row \in Rows, NEW r \in Calls, NEW q \in Calls \cup {Null}
    PROVE  [row EXCEPT !.status = "stored", !.hash = HashOf[r], !.by = q] \in Rows
BY Zenon DEF Rows, Ages, Hashes

(* A row is still one when it gets older. *)
LEMMA AgedRow ==
    ASSUME NEW row \in Rows
    PROVE  [row EXCEPT !.age = Older(row.age)] \in Rows
BY DEF Rows, Ages, Hashes, Older

(* Every step keeps the variables in their types: no action writes a row,
   step, RRN or epoch outside the tables' columns. *)
LEMMA TypeStep == TypeOK /\ [IdempotencyNext]_idempotencyVars => TypeOK'
<1> SUFFICES ASSUME TypeOK, [IdempotencyNext]_idempotencyVars PROVE TypeOK'
    OBVIOUS
<1> USE IdempotencyAssumption, Members DEF TypeOK, Moves, AnswerWith
<1>1. ASSUME NEW r \in Calls, Reserve(r) PROVE TypeOK'
    <2>1. rec' \in [RequestKeys -> Rows]
        BY <1>1, ReservedRow DEF Reserve
    <2>2. epoch' \in [RequestKeys -> Nat]
        BY <1>1 DEF Reserve
    <2> QED
        BY <1>1, <2>1, <2>2 DEF Reserve
<1>2. ASSUME NEW r \in Calls, Lookup(r) PROVE TypeOK'
    <2>1. rec[KeyOf[r]].rrn \in Calls \cup {Null} /\ rec[KeyOf[r]].by \in Calls \cup {Null}
        BY DEF Rows
    <2> QED
        BY <1>2, <2>1 DEF Lookup
<1>3. ASSUME NEW r \in Calls, Reclaim(r) PROVE TypeOK'
    <2>1. [rec[KeyOf[r]] EXCEPT !.token = r, !.age = "fresh"] \in Rows
        BY ReclaimedRow, Zenon
    <2>2. rec' \in [RequestKeys -> Rows]
        BY <1>3, <2>1 DEF Reclaim
    <2> QED
        BY <1>3, <2>2 DEF Reclaim
<1>4. ASSUME NEW r \in Calls, CreateFails(r) \/ RecordLinkDown(r) \/ InsertCreated(r) PROVE TypeOK'
    BY <1>4 DEF CreateFails, RecordLinkDown, InsertCreated
<1>5. ASSUME NEW r \in Calls, AttachRRN(r) PROVE TypeOK'
    <2>1. rec' \in [RequestKeys -> Rows]
        BY <1>5, AttachedRow, rec[KeyOf[r]] \in Rows DEF AttachRRN
    <2> QED
        BY <1>5, <2>1 DEF AttachRRN
<1>6. ASSUME NEW r \in Calls, MarkSent(r) \/ Send(r) \/ Record(r) \/ Recover(r) PROVE TypeOK'
    BY <1>6 DEF MarkSent, Send, Record, Recover
<1>7. ASSUME NEW r \in Calls, Store(r) PROVE TypeOK'
    <2>1. Stored(rec[KeyOf[r]], r) \in Rows
        BY StoredRow, Zenon DEF Stored
    <2> QED
        BY <1>7, <2>1 DEF Store
<1>8. ASSUME NEW r \in Calls, Release(r) PROVE TypeOK'
    BY <1>8 DEF Release
<1>9. ASSUME NEW r \in Calls, FollowUp(r) PROVE TypeOK'
    BY <1>9 DEF FollowUp
<1>10. ASSUME NEW k \in RequestKeys, Age(k) PROVE TypeOK'
    <2>1. [rec[k] EXCEPT !.age = Older(rec[k].age)] \in Rows
        BY AgedRow
    <2>2. rec' \in [RequestKeys -> Rows]
        BY <1>10, <2>1 DEF Age
    <2> QED
        BY <1>10, <2>2 DEF Age
<1>11. CASE RequestsCrash
    BY <1>11 DEF RequestsCrash
<1>12. CASE UNCHANGED idempotencyVars
    BY <1>12 DEF idempotencyVars
<1> QED
    BY <1>1, <1>2, <1>3, <1>4, <1>5, <1>6, <1>7, <1>8, <1>9, <1>10, <1>11, <1>12, Zenon DEF IdempotencyNext, Step

(* A step that leaves the key's row and the epochs alone and commits no new request. *)
LEMMA QuietStep ==
    ASSUME IdempotencyInv, TypeOK', UNCHANGED <<rec, epoch, epochOf>>, SentInv',
           \A q \in Calls : Committed(q)' => Committed(q)
    PROVE  IdempotencyInv'
<1>1. TokenInv' /\ RRNInv' /\ FreeInv' /\ EpochInv'
    BY DEF IdempotencyInv, TokenInv, RRNInv, FreeInv, EpochInv
<1>2. CommittedInv' /\ OneCommitted'
    BY DEF IdempotencyInv, CommittedInv, OneCommitted
<1> QED
    BY <1>1, <1>2 DEF IdempotencyInv

(* Every action preserves the inductive invariant. *)
LEMMA IdempotencyInvStep == IdempotencyInv /\ [IdempotencyNext]_idempotencyVars => IdempotencyInv'
<1> SUFFICES ASSUME IdempotencyInv, [IdempotencyNext]_idempotencyVars PROVE IdempotencyInv'
    OBVIOUS
<1>0. TypeOK /\ TypeOK'
    BY TypeStep DEF IdempotencyInv
<1> USE IdempotencyAssumption, <1>0
<1>1. ASSUME NEW r \in Calls,
             Lookup(r) \/ CreateFails(r) \/ RecordLinkDown(r) \/ InsertCreated(r) \/ MarkSent(r)
             \/ Send(r) \/ Record(r) \/ Recover(r)
      PROVE  IdempotencyInv'
    <2>1. UNCHANGED <<rec, epoch, epochOf>>
        BY <1>1, Zenon DEF Lookup, CreateFails, RecordLinkDown, InsertCreated, MarkSent, Send, Record, Recover
    <2>2. SentInv' /\ \A q \in Calls : Committed(q)' => Committed(q)
        <3>1. CASE Lookup(r)
            BY <3>1, Zenon DEF Lookup, AnswerWith, Moves, IdempotencyInv, SentInv, Committed, TypeOK
        <3>2. CASE CreateFails(r)
            BY <3>2, Zenon DEF CreateFails, Moves, IdempotencyInv, SentInv, Committed, TypeOK
        <3>3. CASE RecordLinkDown(r)
            BY <3>3, Zenon DEF RecordLinkDown, AnswerWith, Moves, IdempotencyInv, SentInv, Committed, TypeOK
        <3>4. CASE InsertCreated(r)
            BY <3>4, Zenon DEF InsertCreated, Moves, IdempotencyInv, SentInv, Committed, TypeOK
        <3>5. CASE MarkSent(r)
            BY <3>5, Zenon DEF MarkSent, Moves, IdempotencyInv, SentInv, Committed, TypeOK
        <3>6. CASE Send(r)
            BY <3>6, Zenon DEF Send, Moves, IdempotencyInv, SentInv, Committed, TypeOK
        <3>7. CASE Record(r)
            BY <3>7, Zenon DEF Record, AnswerWith, Moves, IdempotencyInv, SentInv, Committed, TypeOK
        <3>8. CASE Recover(r)
            BY <3>8, Zenon DEF Recover, AnswerWith, Moves, IdempotencyInv, SentInv, Committed, TypeOK
        <3> QED
            BY <1>1, <3>1, <3>2, <3>3, <3>4, <3>5, <3>6, <3>7, <3>8, Zenon
    <2> QED
        BY <2>1, <2>2, QuietStep
<1>2. CASE RequestsCrash
    <2>1. SentInv' /\ \A q \in Calls : Committed(q)' => Committed(q)
        BY <1>2 DEF IdempotencyInv, SentInv, TypeOK, RequestsCrash, Committed
    <2> QED
        BY <1>2, <2>1, QuietStep DEF RequestsCrash
<1>3. CASE (\E r \in Calls : FollowUp(r)) \/ UNCHANGED idempotencyVars
    <2>1. SentInv' /\ \A q \in Calls : Committed(q)' => Committed(q)
        BY <1>3 DEF IdempotencyInv, SentInv, TypeOK, FollowUp, Committed, idempotencyVars
    <2> QED
        BY <1>3, <2>1, QuietStep DEF FollowUp, idempotencyVars
<1>4. ASSUME NEW k \in RequestKeys, Age(k) PROVE IdempotencyInv'
    <2>0. /\ UNCHANGED <<pc, sent, epoch, epochOf>>
          /\ \A j \in RequestKeys : /\ rec'[j].token = rec[j].token
                                    /\ rec'[j].rrn = rec[j].rrn
                                    /\ rec'[j].status = "free" => rec'[j] = rec[j]
        BY <1>4 DEF Age, TypeOK, Rows
    <2>1. TokenInv' /\ RRNInv' /\ EpochInv' /\ SentInv'
        BY <2>0 DEF IdempotencyInv, TokenInv, RRNInv, EpochInv, SentInv
    <2>2. FreeInv'
        BY <2>0, Zenon DEF IdempotencyInv, FreeInv
    <2>3. CommittedInv' /\ OneCommitted'
        BY <2>0 DEF IdempotencyInv, CommittedInv, OneCommitted, Committed
    <2> QED
        BY <2>1, <2>2, <2>3 DEF IdempotencyInv
<1>5. ASSUME NEW r \in Calls, Store(r) PROVE IdempotencyInv'
    <2> DEFINE k == KeyOf[r]
    <2>0. /\ UNCHANGED <<sent, epoch, epochOf>> /\ pc[r] = "store" /\ pc' = [pc EXCEPT ![r] = "done"]
          /\ \A j \in RequestKeys : /\ rec'[j].token = rec[j].token
                                    /\ rec'[j].rrn = rec[j].rrn
                                    /\ rec'[j].status = "free" => rec'[j] = rec[j]
        <3>1. /\ Stored(rec[k], r).token = rec[k].token /\ Stored(rec[k], r).rrn = rec[k].rrn
              /\ Stored(rec[k], r).status = "stored"
            BY DEF Stored, FreeRow, Rows, TypeOK, IdempotencyInv, FreeInv
        <3> QED
            BY <1>5, <3>1, Zenon DEF Store, Moves, TypeOK
    <2>1. TokenInv' /\ RRNInv' /\ EpochInv'
        BY <2>0 DEF IdempotencyInv, TokenInv, RRNInv, EpochInv
    <2>2. FreeInv'
        BY <2>0, Zenon DEF IdempotencyInv, FreeInv
    <2>3. SentInv' /\ \A q \in Calls : Committed(q)' => Committed(q)
        BY <2>0, Zenon DEF IdempotencyInv, SentInv, Committed, TypeOK
    <2>4. CommittedInv' /\ OneCommitted'
        BY <2>0, <2>3, Zenon DEF IdempotencyInv, CommittedInv, OneCommitted
    <2> QED
        BY <2>1, <2>2, <2>3, <2>4 DEF IdempotencyInv
<1>6. ASSUME NEW r \in Calls, Release(r) PROVE IdempotencyInv'
    <2>0. /\ UNCHANGED <<sent, epoch, epochOf>> /\ pc[r] = "release" /\ pc' = [pc EXCEPT ![r] = "done"]
        BY <1>6 DEF Release, Moves
    <2>1. SentInv' /\ \A q \in Calls : Committed(q)' => Committed(q)
        BY <2>0, Zenon DEF IdempotencyInv, SentInv, Committed, TypeOK
    <2>2. CASE UNCHANGED rec
        BY <2>0, <2>1, <2>2, QuietStep
    <2>3. CASE Holds(r) /\ rec' = [rec EXCEPT ![KeyOf[r]] = FreeRow]
        <3>1. TokenInv' /\ RRNInv' /\ FreeInv' /\ EpochInv'
            BY <2>0, <2>3, Zenon DEF IdempotencyInv, TokenInv, RRNInv, FreeInv, EpochInv, FreeRow, TypeOK
        <3>2. ~Committed(r)
            BY <2>0 DEF IdempotencyInv, SentInv, Committed
        <3>3. \A q \in Calls : Committed(q) /\ epochOf[q] = epoch[KeyOf[q]] => KeyOf[q] # KeyOf[r]
            BY <2>3, <3>2 DEF IdempotencyInv, CommittedInv, RRNInv, Holds
        <3>4. CommittedInv'
            BY <2>0, <2>1, <2>3, <3>3, Zenon DEF IdempotencyInv, CommittedInv, TypeOK
        <3>5. OneCommitted'
            BY <2>0, <2>1 DEF IdempotencyInv, OneCommitted
        <3> QED
            BY <2>1, <3>1, <3>4, <3>5 DEF IdempotencyInv
    <2> QED
        BY <1>6, <2>2, <2>3 DEF Release
<1>7. ASSUME NEW r \in Calls, AttachRRN(r) PROVE IdempotencyInv'
    <2>0. UNCHANGED <<sent, epoch, epochOf>> /\ pc[r] = "attach"
        BY <1>7 DEF AttachRRN
    <2>1. CASE ~Holds(r)
        <3>1. UNCHANGED rec /\ pc' = [pc EXCEPT ![r] = "done"]
            BY <1>7, <2>1 DEF AttachRRN, Moves
        <3>2. SentInv' /\ \A q \in Calls : Committed(q)' => Committed(q)
            BY <2>0, <3>1, Zenon DEF IdempotencyInv, SentInv, Committed, TypeOK
        <3> QED
            BY <2>0, <3>1, <3>2, QuietStep
    <2>2. CASE Holds(r)
        <3>1. /\ pc' = [pc EXCEPT ![r] = "mark"]
              /\ rec' = [rec EXCEPT ![KeyOf[r]] = [@ EXCEPT !.rrn = r]]
            BY <1>7, <2>2 DEF AttachRRN, Moves
        <3>2. /\ rec'[KeyOf[r]].rrn = r /\ rec'[KeyOf[r]].token = r
              /\ rec[KeyOf[r]].token = r /\ rec'[KeyOf[r]].status = "pending"
              /\ \A j \in RequestKeys : j # KeyOf[r] => rec'[j] = rec[j]
            BY <2>2, <3>1 DEF Holds, TypeOK, Rows
        <3>3. TokenInv' /\ RRNInv' /\ FreeInv' /\ EpochInv'
            BY <2>0, <3>2, SMTT(30) DEF IdempotencyInv, TokenInv, RRNInv, FreeInv, EpochInv
        <3>4. SentInv' /\ \A q \in Calls : q # r => (Committed(q)' <=> Committed(q))
            BY <2>0, <3>1 DEF IdempotencyInv, SentInv, Committed, TypeOK
        <3>5. epochOf[r] = epoch[KeyOf[r]]
            BY <3>2, Zenon DEF IdempotencyInv, TokenInv
        <3>6. \A q \in Calls : q # r /\ Committed(q) /\ KeyOf[q] = KeyOf[r] => epochOf[q] # epochOf[r]
            BY <3>2, <3>5, Zenon DEF IdempotencyInv, CommittedInv, RRNInv
        <3>7. CommittedInv'
            BY <2>0, <3>2, <3>4, <3>5, <3>6, Zenon DEF IdempotencyInv, CommittedInv
        <3>8. OneCommitted'
            BY <2>0, <3>4, <3>6, Zenon DEF IdempotencyInv, OneCommitted
        <3> QED
            BY <3>3, <3>4, <3>7, <3>8 DEF IdempotencyInv
    <2> QED
        BY <2>1, <2>2
<1>8. ASSUME NEW r \in Calls, Reclaim(r) PROVE IdempotencyInv'
    <2>0. UNCHANGED <<sent, epoch>> /\ pc[r] = "reclaim"
        BY <1>8 DEF Reclaim
    <2>1. CASE ~Reclaimable(r)
        <3>1. UNCHANGED <<rec, epochOf>> /\ pc' = [pc EXCEPT ![r] = "done"]
            BY <1>8, <2>1 DEF Reclaim, Moves
        <3>2. SentInv' /\ \A q \in Calls : Committed(q)' => Committed(q)
            BY <2>0, <3>1, Zenon DEF IdempotencyInv, SentInv, Committed, TypeOK
        <3> QED
            BY <2>0, <3>1, <3>2, QuietStep
    <2>2. CASE Reclaimable(r)
        <3>1. /\ pc' = [pc EXCEPT ![r] = "create"]
              /\ epochOf' = [epochOf EXCEPT ![r] = epoch[KeyOf[r]]]
              /\ rec' = [rec EXCEPT ![KeyOf[r]] = [@ EXCEPT !.token = r, !.age = "fresh"]]
            BY <1>8, <2>2 DEF Reclaim, Moves
        <3>2. /\ rec[KeyOf[r]].rrn = Null /\ rec'[KeyOf[r]].rrn = Null
              /\ rec'[KeyOf[r]].token = r /\ rec'[KeyOf[r]].status = "pending"
              /\ \A j \in RequestKeys : j # KeyOf[r] => rec'[j] = rec[j]
            BY <2>2, <3>1 DEF Reclaimable, TypeOK, Rows
        <3>3. TokenInv'
            BY <2>0, <3>1, <3>2 DEF IdempotencyInv, TokenInv, TypeOK
        <3>4. RRNInv' /\ FreeInv'
            BY <3>2 DEF IdempotencyInv, RRNInv, FreeInv
        <3>5. EpochInv'
            BY <2>0, <3>1 DEF IdempotencyInv, EpochInv, TypeOK
        <3>6. /\ SentInv' /\ ~Committed(r) /\ ~Committed(r)'
              /\ \A q \in Calls : q # r => (Committed(q)' <=> Committed(q)) /\ epochOf'[q] = epochOf[q]
            BY <2>0, <3>1 DEF IdempotencyInv, SentInv, Committed, TypeOK
        <3>7. CommittedInv'
            BY <2>0, <3>2, <3>6 DEF IdempotencyInv, CommittedInv
        <3>8. OneCommitted'
            BY <3>6, Zenon DEF IdempotencyInv, OneCommitted
        <3> QED
            BY <3>3, <3>4, <3>5, <3>6, <3>7, <3>8, Zenon DEF IdempotencyInv
    <2> QED
        BY <2>1, <2>2
<1>9. ASSUME NEW r \in Calls, Reserve(r) PROVE IdempotencyInv'
    <2> DEFINE k == KeyOf[r]
    <2>0. UNCHANGED sent /\ pc[r] = "idle"
        BY <1>9 DEF Reserve
    <2>1. CASE ~Claimable(k)
        <3>1. UNCHANGED <<rec, epoch, epochOf>> /\ pc' = [pc EXCEPT ![r] = "lookup"]
            BY <1>9, <2>1, SMTT(30) DEF Reserve, Moves
        <3>2. SentInv' /\ \A q \in Calls : Committed(q)' => Committed(q)
            BY <2>0, <3>1, Zenon DEF IdempotencyInv, SentInv, Committed, TypeOK
        <3> QED
            BY <2>0, <3>1, <3>2, QuietStep
    <2>2. CASE Claimable(k)
        <3>1. /\ pc' = [pc EXCEPT ![r] = "create"]
              /\ epoch' = [epoch EXCEPT ![k] = IF rec[k].status = "free" THEN @ ELSE @ + 1]
              /\ epochOf' = [epochOf EXCEPT ![r] = epoch'[k]]
              /\ rec' = [rec EXCEPT ![k] = [status |-> "pending", hash |-> HashOf[r], by |-> Null,
                                           token |-> r, rrn |-> Null, age |-> "fresh"]]
            BY <1>9, <2>2, Zenon DEF Reserve, Moves
        <3>2. /\ rec'[k].rrn = Null /\ rec'[k].token = r /\ rec'[k].status = "pending"
              /\ \A j \in RequestKeys : j # k => rec'[j] = rec[j]
            BY <3>1, Zenon DEF TypeOK
        <3>3. /\ \A j \in RequestKeys : j # k => epoch'[j] = epoch[j]
              /\ rec[k].status = "free" => epoch'[k] = epoch[k]
              /\ rec[k].status # "free" => epoch'[k] = epoch[k] + 1
              /\ epochOf'[r] = epoch'[k]
              /\ \A q \in Calls : q # r => epochOf'[q] = epochOf[q]
            BY <3>1, Zenon DEF TypeOK
        <3>4. TokenInv'
            <4>1. \A j \in RequestKeys : j # k /\ rec[j].token # Null => rec[j].token # r
                BY Zenon DEF IdempotencyInv, TokenInv
            <4>2. \A j \in RequestKeys : rec[j].token \in Calls \cup {Null}
                BY DEF TypeOK, Rows
            <4> SUFFICES ASSUME NEW j \in RequestKeys, rec'[j].token # Null
                         PROVE  KeyOf[rec'[j].token] = j /\ epochOf'[rec'[j].token] = epoch'[j]
                BY Zenon DEF TokenInv
            <4>3. CASE j = k
                BY <3>2, <3>3, <4>3, Zenon
            <4>4. CASE j # k
                <5>1. rec[j].token # Null /\ rec[j].token \in Calls /\ rec[j].token # r
                    BY <3>2, <4>1, <4>2, <4>4, Zenon
                <5>2. KeyOf[rec[j].token] = j /\ epochOf[rec[j].token] = epoch[j]
                    BY <5>1, Zenon DEF IdempotencyInv, TokenInv
                <5> QED
                    BY <3>2, <3>3, <4>4, <5>1, <5>2, Zenon
            <4> QED
                BY <4>3, <4>4, Zenon
        <3>5. RRNInv' /\ FreeInv'
            BY <3>2, Zenon DEF IdempotencyInv, RRNInv, FreeInv
        <3>6. EpochInv'
            BY <3>3, SMTT(30) DEF IdempotencyInv, EpochInv, TypeOK
        <3>7. /\ SentInv' /\ ~Committed(r) /\ ~Committed(r)'
              /\ \A q \in Calls : q # r => (Committed(q)' <=> Committed(q))
            BY <2>0, <3>1, Zenon DEF IdempotencyInv, SentInv, Committed, TypeOK
        <3>8. \A q \in Calls : Committed(q) /\ KeyOf[q] = k => epochOf[q] # epoch'[k]
            <4>1. CASE rec[k].status = "free"
                BY <3>3, <4>1, SMTT(30) DEF IdempotencyInv, CommittedInv, FreeInv, FreeRow
            <4>2. CASE rec[k].status # "free"
                BY <3>3, <4>2 DEF IdempotencyInv, EpochInv, TypeOK
            <4> QED
                BY <4>1, <4>2, Zenon
        <3>9. CommittedInv'
            <4> SUFFICES ASSUME NEW q \in Calls, Committed(q)', epochOf'[q] = epoch'[KeyOf[q]]
                         PROVE  rec'[KeyOf[q]].rrn = q
                BY Zenon DEF CommittedInv
            <4>1. q # r /\ Committed(q) /\ epochOf'[q] = epochOf[q]
                BY <3>3, <3>7, Zenon
            <4>2. KeyOf[q] # k
                BY <4>1, <3>8, Zenon
            <4>3. epoch'[KeyOf[q]] = epoch[KeyOf[q]] /\ rec'[KeyOf[q]] = rec[KeyOf[q]]
                BY <4>2, <3>2, <3>3, Zenon
            <4> QED
                BY <4>1, <4>3, Zenon DEF IdempotencyInv, CommittedInv
        <3>10. OneCommitted'
            <4> SUFFICES ASSUME NEW p \in Calls, NEW q \in Calls, Committed(p)', Committed(q)',
                                KeyOf[p] = KeyOf[q], epochOf'[p] = epochOf'[q]
                         PROVE  p = q
                BY DEF OneCommitted
            <4>1. p # r /\ q # r /\ Committed(p) /\ Committed(q)
                BY <3>7, Zenon
            <4>2. epochOf[p] = epochOf[q]
                BY <4>1, <3>3, Zenon
            <4> QED
                BY <4>1, <4>2, Zenon DEF IdempotencyInv, OneCommitted
        <3> QED
            BY <3>4, <3>5, <3>6, <3>7, <3>9, <3>10 DEF IdempotencyInv
    <2> QED
        BY <2>1, <2>2
<1> QED
    BY <1>1, <1>2, <1>3, <1>4, <1>5, <1>6, <1>7, <1>8, <1>9 DEF IdempotencyNext, Step

(* The initial state satisfies the inductive invariant. *)
LEMMA IdempotencyInvInit == IdempotencyInit => IdempotencyInv
<1> SUFFICES ASSUME IdempotencyInit PROVE IdempotencyInv
    OBVIOUS
<1>1. TypeOK
    BY IdempotencyAssumption, Members DEF IdempotencyInit, TypeOK, TxnStates
<1>2. TokenInv /\ RRNInv /\ FreeInv /\ EpochInv
    BY IdempotencyAssumption DEF IdempotencyInit, TokenInv, RRNInv, FreeInv, EpochInv, FreeRow
<1>3. SentInv /\ CommittedInv /\ OneCommitted
    BY Zenon DEF IdempotencyInit, SentInv, CommittedInv, OneCommitted, Committed
<1> QED
    BY <1>1, <1>2, <1>3 DEF IdempotencyInv

(* The inductive invariant holds in every reachable state. *)
THEOREM IdempotencyInductive == IdempotencySpec => []IdempotencyInv
BY IdempotencyInvInit, IdempotencyInvStep, PTL DEF IdempotencySpec

(* The table and the requests keep the types Idempotency's statements give them. *)
THEOREM TypeCorrect == IdempotencySpec => []TypeOK
<1>1. IdempotencyInv => TypeOK
  BY DEF IdempotencyInv
<1> QED
  BY <1>1, IdempotencyInductive, PTL


(* For every set of requests and keys, every interleaving, crash, take-over of a
   stale key and expiry: within one life of an idempotency key at most one request
   writes a 0200 to the issuer. *)
THEOREM OneSendPerKey == IdempotencySpec => []AtMostOneSend
<1>1. IdempotencyInv => AtMostOneSend
    BY DEF IdempotencyInv, OneCommitted, Committed, AtMostOneSend, TypeOK
<1> QED
    BY <1>1, IdempotencyInductive, PTL

-----------------------------------------------------------------------------
(* q is a transaction of the request that r repeats. *)
SameRequest(q, r) == q \in Calls /\ HashOf[q] = HashOf[r] /\ KeyOf[q] = KeyOf[r]

(* The columns of a row belong to the request whose hash the row carries. *)
RowFor(row, k) ==
    /\ row.status = "pending" => row.token \in Calls /\ KeyOf[row.token] = k /\ HashOf[row.token] = row.hash
    /\ row.status = "stored" => row.by \in Calls /\ KeyOf[row.by] = k /\ HashOf[row.by] = row.hash

RowInv == \A k \in RequestKeys : RowFor(rec[k], k)

TargetInv ==
    \A r \in Calls :
        /\ target[r] # Null => SameRequest(target[r], r)
        /\ pc[r] \in {"recover", "store"} => target[r] # Null

AnswerInv == RowInv /\ TargetInv

(* A step whose every row is as before, or again belongs to its own request, keeps RowInv. *)
LEMMA RowsStep ==
    ASSUME RowInv, \A k \in RequestKeys : rec'[k] = rec[k] \/ RowFor(rec'[k], k)
    PROVE  RowInv'
BY Zenon DEF RowInv

(* What RowFor says of a row just stored, and of one just reserved or taken over. *)
LEMMA RowWritten ==
    ASSUME NEW row, NEW k
    PROVE  /\ row.status = "stored" /\ row.by \in Calls /\ KeyOf[row.by] = k /\ HashOf[row.by] = row.hash
                => RowFor(row, k)
           /\ row.status = "pending" /\ row.token \in Calls /\ KeyOf[row.token] = k /\ HashOf[row.token] = row.hash
                => RowFor(row, k)
           /\ row.status \notin {"pending", "stored"} => RowFor(row, k)
<1>1. "stored" # "pending"
    OBVIOUS
<1> QED
    BY <1>1, Zenon DEF RowFor

(* A row with the columns of a row that belongs to its request, but perhaps taken over by another
   call of it, belongs to it as well. *)
LEMMA RowTaken ==
    ASSUME NEW old, NEW new, NEW k, RowFor(old, k),
           new.status = old.status /\ new.hash = old.hash /\ new.by = old.by,
           new.token = old.token \/ (new.token \in Calls /\ KeyOf[new.token] = k /\ HashOf[new.token] = old.hash)
    PROVE  RowFor(new, k)
BY Zenon DEF RowFor

(* A request moves, and takes its answer from a transaction of its own request if from any. *)
LEMMA TargetStep ==
    ASSUME TypeOK, TargetInv, NEW r \in Calls, NEW s, pc' = [pc EXCEPT ![r] = s],
           \/ target' = target /\ (s \in {"recover", "store"} => pc[r] \in {"recover", "store"})
           \/ \E q : SameRequest(q, r) /\ target' = [target EXCEPT ![r] = q]
    PROVE  TargetInv'
<1>1. /\ pc'[r] = s /\ \A q \in Calls : q # r => pc'[q] = pc[q]
    BY DEF TypeOK
<1>2. CASE target' = target /\ (s \in {"recover", "store"} => pc[r] \in {"recover", "store"})
    BY <1>1, <1>2, Zenon DEF TargetInv
<1>3. ASSUME NEW t, SameRequest(t, r), target' = [target EXCEPT ![r] = t]
      PROVE  TargetInv'
    <2>1. target'[r] = t /\ t # Null /\ \A q \in Calls : q # r => target'[q] = target[q]
        BY <1>3, IdempotencyAssumption, Zenon DEF TypeOK, SameRequest
    <2> QED
        BY <1>1, <1>3, <2>1, Zenon DEF TargetInv
<1> QED
    BY <1>2, <1>3, Zenon

(* Every action preserves the invariant behind AnswersSameRequest. *)
LEMMA AnswerInvStep == IdempotencyInv /\ AnswerInv /\ [IdempotencyNext]_idempotencyVars => AnswerInv'
<1> SUFFICES ASSUME IdempotencyInv, AnswerInv, [IdempotencyNext]_idempotencyVars PROVE AnswerInv'
    OBVIOUS
<1>0. TypeOK /\ TypeOK'
    BY TypeStep DEF IdempotencyInv
<1> USE IdempotencyAssumption, <1>0
<1>1. ASSUME NEW r \in Calls, Lookup(r) PROVE AnswerInv'
    <2>0. UNCHANGED rec
        BY <1>1, Zenon DEF Lookup
    <2>1. RowInv'
        BY <2>0, Zenon DEF AnswerInv, RowInv
    <2> DEFINE row == rec[KeyOf[r]]
    <2>2. /\ row.status = "pending" /\ row.hash = HashOf[r] /\ row.rrn # Null => SameRequest(row.rrn, r)
          /\ row.status = "stored" /\ row.hash = HashOf[r] => SameRequest(row.by, r)
        <3>1. KeyOf[r] \in RequestKeys
            BY Zenon
        <3>2. RowFor(row, KeyOf[r]) /\ (row.rrn # Null => row.token = row.rrn)
            BY <3>1, Zenon DEF AnswerInv, RowInv, IdempotencyInv, RRNInv
        <3> QED
            BY <3>2, Zenon DEF RowFor, SameRequest
    <2>3. \E t \in {"done", "recover", "reclaim"} :
            /\ pc' = [pc EXCEPT ![r] = t]
            /\ \/ target' = target /\ t \notin {"recover", "store"}
               \/ \E q : SameRequest(q, r) /\ target' = [target EXCEPT ![r] = q]
        <3>1. CASE Moves(r, "done") /\ UNCHANGED target
            BY <3>1, Zenon DEF Moves
        <3>2. CASE Moves(r, "reclaim") /\ UNCHANGED target
            BY <3>2, Zenon DEF Moves
        <3>3. CASE row.status = "pending" /\ row.hash = HashOf[r] /\ row.rrn # Null /\ AnswerWith(r, row.rrn, "recover")
            BY <2>2, <3>3, Zenon DEF AnswerWith, Moves
        <3>4. CASE row.status = "stored" /\ row.hash = HashOf[r] /\ AnswerWith(r, row.by, "done")
            BY <2>2, <3>4, Zenon DEF AnswerWith, Moves
        <3> QED
            BY <1>1, <3>1, <3>2, <3>3, <3>4, Zenon DEF Lookup
    <2>4. TargetInv'
        BY <2>3, TargetStep, Zenon DEF AnswerInv
    <2> QED
        BY <2>1, <2>4 DEF AnswerInv
<1>2. ASSUME NEW r \in Calls,
             CreateFails(r) \/ RecordLinkDown(r) \/ InsertCreated(r) \/ MarkSent(r)
             \/ Send(r) \/ Record(r) \/ Recover(r) \/ FollowUp(r)
      PROVE  AnswerInv'
    <2>1. UNCHANGED rec
        BY <1>2, Zenon DEF CreateFails, RecordLinkDown, InsertCreated, MarkSent, Send, Record, Recover, FollowUp
    <2>2. RowInv'
        BY <2>1, Zenon DEF AnswerInv, RowInv
    <2>3. CASE FollowUp(r)
        BY <2>2, <2>3, Zenon DEF FollowUp, AnswerInv, TargetInv
    <2>4. CASE CreateFails(r) \/ InsertCreated(r) \/ MarkSent(r) \/ Send(r)
        <3>1. UNCHANGED target /\ \E t \in {"release", "attach", "send", "await"} : pc' = [pc EXCEPT ![r] = t]
            BY <2>4, Zenon DEF CreateFails, InsertCreated, MarkSent, Send, Moves
        <3> QED
            BY <2>2, <3>1, TargetStep, Zenon DEF AnswerInv
    <2>5. CASE RecordLinkDown(r) \/ Record(r)
        <3>1. \E t : pc' = [pc EXCEPT ![r] = t] /\ target' = [target EXCEPT ![r] = r]
            BY <2>5, Zenon DEF RecordLinkDown, Record, AnswerWith, Moves
        <3>2. SameRequest(r, r)
            BY Zenon DEF SameRequest
        <3> QED
            BY <2>2, <3>1, <3>2, TargetStep, Zenon DEF AnswerInv
    <2>6. CASE Recover(r)
        <3>1. UNCHANGED target /\ pc[r] = "recover" /\ \E t : pc' = [pc EXCEPT ![r] = t]
            BY <2>6, Zenon DEF Recover, Moves
        <3> QED
            BY <2>2, <3>1, TargetStep, Zenon DEF AnswerInv
    <2> QED
        BY <1>2, <2>3, <2>4, <2>5, <2>6, Zenon
<1>3. CASE RequestsCrash \/ UNCHANGED idempotencyVars
    <2>1. UNCHANGED rec
        BY <1>3, Zenon DEF RequestsCrash, idempotencyVars
    <2>2. RowInv'
        BY <2>1, RowsStep, Zenon DEF AnswerInv
    <2>3. CASE RequestsCrash
        <3>1. target' = target /\ \A r \in Calls : pc'[r] \notin {"recover", "store"}
            BY <2>3 DEF RequestsCrash
        <3> QED
            BY <2>2, <3>1, Zenon DEF AnswerInv, TargetInv
    <2>4. CASE UNCHANGED idempotencyVars
        BY <2>2, <2>4, Zenon DEF idempotencyVars, AnswerInv, TargetInv
    <2> QED
        BY <1>3, <2>3, <2>4, Zenon
<1>4. ASSUME NEW k \in RequestKeys, Age(k) PROVE AnswerInv'
    <2>1. /\ UNCHANGED <<pc, target>>
          /\ \A j \in RequestKeys : /\ rec'[j].token = rec[j].token
                                    /\ rec'[j].by = rec[j].by
                                    /\ rec'[j].hash = rec[j].hash
                                    /\ rec'[j].status = rec[j].status
        BY <1>4 DEF Age, TypeOK, Rows
    <2>2. RowInv'
        BY <2>1, RowTaken, RowsStep, Zenon DEF AnswerInv, RowInv
    <2>3. TargetInv'
        BY <2>1, Zenon DEF AnswerInv, TargetInv
    <2> QED
        BY <2>2, <2>3 DEF AnswerInv
<1>5. ASSUME NEW r \in Calls, Store(r) PROVE AnswerInv'
    <2>1. /\ UNCHANGED target /\ pc[r] = "store" /\ pc' = [pc EXCEPT ![r] = "done"]
          /\ \A j \in RequestKeys : rec'[j] = rec[j] \/ (j = KeyOf[r] /\ rec'[j] = Stored(rec[j], r))
        BY <1>5, Zenon DEF Store, Moves, TypeOK
    <2>2. TargetInv'
        BY <2>1, TargetStep, Zenon DEF AnswerInv
    <2>3. SameRequest(target[r], r)
        BY <2>1, Zenon DEF AnswerInv, TargetInv
    <2>4. \A row \in Rows : /\ Stored(row, r).status = "stored"
                            /\ Stored(row, r).hash = HashOf[r]
                            /\ Stored(row, r).by = target[r]
        BY DEF Stored, FreeRow, Rows
    <2>5. \A j \in RequestKeys : rec[j] \in Rows
        BY Zenon DEF TypeOK
    <2>6. RowInv'
        <3>1. \A j \in RequestKeys :
                \/ rec'[j] = rec[j]
                \/ /\ rec'[j].status = "stored" /\ rec'[j].by \in Calls
                   /\ KeyOf[rec'[j].by] = j /\ HashOf[rec'[j].by] = rec'[j].hash
            <4> SUFFICES ASSUME NEW j \in RequestKeys, rec'[j] # rec[j]
                         PROVE  /\ rec'[j].status = "stored" /\ rec'[j].by \in Calls
                                /\ KeyOf[rec'[j].by] = j /\ HashOf[rec'[j].by] = rec'[j].hash
                BY Zenon
            <4>1. j = KeyOf[r] /\ rec'[j] = Stored(rec[j], r) /\ rec[j] \in Rows
                BY <2>1, <2>5, Zenon
            <4>2. rec'[j].status = "stored" /\ rec'[j].hash = HashOf[r] /\ rec'[j].by = target[r]
                BY <2>4, <4>1, Zenon
            <4> QED
                BY <2>3, <4>1, <4>2, Zenon DEF SameRequest
        <3> QED
            BY <3>1, RowWritten, RowsStep, Zenon DEF AnswerInv
    <2> QED
        BY <2>2, <2>6 DEF AnswerInv
<1>6. ASSUME NEW r \in Calls, Release(r) PROVE AnswerInv'
    <2>1. /\ UNCHANGED target /\ pc' = [pc EXCEPT ![r] = "done"]
          /\ \A j \in RequestKeys : rec'[j] = rec[j] \/ rec'[j] = FreeRow
        BY <1>6, Zenon DEF Release, Moves, TypeOK
    <2>2. FreeRow.status \notin {"pending", "stored"}
        BY DEF FreeRow
    <2>3. RowInv'
        BY <2>1, <2>2, RowWritten, RowsStep, Zenon DEF AnswerInv
    <2>4. TargetInv'
        BY <2>1, TargetStep, Zenon DEF AnswerInv
    <2> QED
        BY <2>3, <2>4, Zenon DEF AnswerInv
<1>7. ASSUME NEW r \in Calls, AttachRRN(r) \/ Reclaim(r) PROVE AnswerInv'
    <2>1. /\ UNCHANGED target
          /\ \E s \in {"mark", "done", "create"} : pc' = [pc EXCEPT ![r] = s]
        BY <1>7 DEF AttachRRN, Reclaim, Moves
    <2>2. TargetInv'
        BY <2>1, TargetStep, Zenon DEF AnswerInv
    <2>3. \A j \in RequestKeys :
            /\ rec'[j].status = rec[j].status /\ rec'[j].hash = rec[j].hash /\ rec'[j].by = rec[j].by
            /\ \/ rec'[j].token = rec[j].token
               \/ rec'[j].token = r /\ j = KeyOf[r] /\ rec[j].hash = HashOf[r]
        <3>1. CASE AttachRRN(r)
            BY <3>1 DEF AttachRRN, TypeOK, Rows
        <3>2. CASE Reclaim(r) /\ Reclaimable(r)
            <4>1. rec' = [rec EXCEPT ![KeyOf[r]] = [@ EXCEPT !.token = r, !.age = "fresh"]]
                BY <3>2 DEF Reclaim
            <4>2. rec[KeyOf[r]].hash = HashOf[r]
                BY <3>2, Zenon DEF Reclaimable
            <4> QED
                BY <4>1, <4>2 DEF TypeOK, Rows
        <3>3. CASE Reclaim(r) /\ ~Reclaimable(r)
            BY <3>3 DEF Reclaim
        <3> QED
            BY <1>7, <3>1, <3>2, <3>3, Zenon
    <2>4. RowInv'
        <3> SUFFICES ASSUME NEW j \in RequestKeys PROVE RowFor(rec'[j], j)
            BY RowsStep, Zenon DEF AnswerInv
        <3>1. RowFor(rec[j], j)
            BY Zenon DEF AnswerInv, RowInv
        <3>2. rec'[j].token = rec[j].token
              \/ (rec'[j].token \in Calls /\ KeyOf[rec'[j].token] = j /\ HashOf[rec'[j].token] = rec[j].hash)
            BY <2>3, Zenon
        <3> QED
            BY <2>3, <3>1, <3>2, RowTaken, Zenon
    <2> QED
        BY <2>2, <2>4 DEF AnswerInv
<1>8. ASSUME NEW r \in Calls, Reserve(r) PROVE AnswerInv'
    <2>1. /\ UNCHANGED target
          /\ \E s \in {"create", "lookup"} : pc' = [pc EXCEPT ![r] = s]
        BY <1>8, Zenon DEF Reserve, Moves
    <2>2. TargetInv'
        BY <2>1, TargetStep, Zenon DEF AnswerInv
    <2>3. \A j \in RequestKeys :
            \/ rec'[j] = rec[j]
            \/ j = KeyOf[r] /\ rec'[j].status = "pending" /\ rec'[j].token = r /\ rec'[j].hash = HashOf[r]
        <3>1. \/ rec' = rec
              \/ rec' = [rec EXCEPT ![KeyOf[r]] = [status |-> "pending", hash |-> HashOf[r], by |-> Null,
                                                  token |-> r, rrn |-> Null, age |-> "fresh"]]
            BY <1>8, Zenon DEF Reserve
        <3>2. rec \in [RequestKeys -> Rows]
            BY Zenon DEF TypeOK
        <3>3. CASE rec' = rec
            BY <3>3, Zenon
        <3> DEFINE new == [status |-> "pending", hash |-> HashOf[r], by |-> Null,
                           token |-> r, rrn |-> Null, age |-> "fresh"]
        <3>4. CASE rec' = [rec EXCEPT ![KeyOf[r]] = new]
            <4>1. new.status = "pending" /\ new.token = r /\ new.hash = HashOf[r]
                OBVIOUS
            <4> HIDE DEF new
            <4>2. \A j \in RequestKeys : rec'[j] = IF j = KeyOf[r] THEN new ELSE rec[j]
                BY <3>2, <3>4, Zenon
            <4> QED
                BY <4>1, <4>2, Zenon
        <3> QED
            BY <3>1, <3>3, <3>4, Zenon
    <2>4. RowInv'
        BY <2>3, RowWritten, RowsStep, Zenon DEF AnswerInv
    <2> QED
        BY <2>2, <2>4 DEF AnswerInv
<1> QED
    BY <1>1, <1>2, <1>3, <1>4, <1>5, <1>6, <1>7, <1>8, Zenon DEF IdempotencyNext, Step

(* Whatever a request is answered with - a replay, a recovered outcome or its own
   transaction - was created for the same key and the same request hash. *)
THEOREM AnswersOwnRequest == IdempotencySpec => []AnswersSameRequest
<1>1. IdempotencyInit => AnswerInv
    <2> SUFFICES ASSUME IdempotencyInit PROVE AnswerInv
        OBVIOUS
    <2>1. FreeRow.status \notin {"pending", "stored"}
        BY DEF FreeRow
    <2>2. RowInv
        BY <2>1, RowWritten, Zenon DEF IdempotencyInit, RowInv
    <2>3. TargetInv
        BY DEF IdempotencyInit, TargetInv
    <2> QED
        BY <2>2, <2>3, Zenon DEF AnswerInv
<1>2. AnswerInv => AnswersSameRequest
    BY Zenon DEF AnswerInv, TargetInv, SameRequest, AnswersSameRequest
<1> QED
    BY <1>1, <1>2, AnswerInvStep, IdempotencyInductive, PTL DEF IdempotencySpec

-----------------------------------------------------------------------------
(***************************************************************************)
(* Key rotation.                                                           *)
(***************************************************************************)
Begun == {k \in Rotations : rot[k].status # ""}
Newest(k) == \A j \in Rotations : j > k => rot[j].status = ""

RunSteps == {"idle", "insert", "generated", "send", "wait", "sent", "confirm", "activate", "activated", "reload",
             "complete", "fail", "retire"}

Statuses == {"", "RUNNING", "COMPLETED", "FAILED"}
Row == [status : Statuses, done : 0..4]
Run == [pc : RunSteps, k : Keys, n : Nat, rc : {"", "00", "57", "96"}]

(* The types the argument needs. *)
Typed ==
    /\ key \in [Keys -> {"", "PENDING", "ACTIVE", "RETIRED"}]
    /\ rot \in [Rotations -> Row]
    /\ run \in Run
    /\ phase \in {"down", "recovering", "serving"}
    /\ wire \subseteq Rotations \X Nat /\ handling \subseteq Rotations \X Nat
    /\ issActive \in Keys /\ declined \subseteq Rotations
    /\ late \in BOOLEAN /\ unreloaded \in BOOLEAN

(* Rotations begin one after another, and one at a time. *)
InOrder ==
    /\ \E n \in 0..MaxRotations : Begun = 1..n
    /\ \A k \in Rotations : rot[k].status = "" => key[k] = "" /\ rot[k].done = 0
    /\ run.pc # "idle" => run.k \in Begun /\ Newest(run.k)
    /\ phase # "serving" => run.pc = "idle"

OneActive == \E k \in Keys : \A j \in Keys : key[j] = "ACTIVE" <=> j = k

(* A key that the issuer may still be told of, or has confirmed, is kept by the gateway. *)
OnTheWay ==
    /\ \A m \in wire \cup handling :
        /\ m[1] \in Begun
        /\ Newest(m[1]) => key[m[1]] \in {"PENDING", "ACTIVE"} \/ m[1] \in declined
    /\ \A m \in handling : m[1] \notin declined
    /\ run.pc \in {"insert", "generated"} => \A m \in wire \cup handling : m[1] # run.k
    /\ run.pc = "retire" => run.k \in declined \/ \A m \in wire \cup handling : m[1] # run.k

(* What the running rotation knows. *)
Progress ==
    /\ run.pc = "insert" => key[run.k] = ""
    /\ run.pc \in {"generated", "send", "wait", "sent", "confirm", "activate"} => key[run.k] = "PENDING"
    /\ run.pc \in {"insert", "generated"} => issActive # run.k
    /\ run.pc = "retire" => issActive # run.k
    /\ run.pc \in {"insert", "generated", "send"} => run.rc = ""
    /\ run.pc \in {"sent", "confirm"} => run.rc \in {"00", "57"}
    /\ run.pc = "activate" => run.rc = "00"
    /\ run.pc \in {"wait", "sent", "confirm"} /\ run.rc = "57" => run.k \in declined
    /\ run.pc \in {"wait", "sent", "confirm", "activate"} /\ run.rc = "00" /\ ~late => issActive = run.k

Agreed(k) == Newest(k) /\ ~late => key[k] = "ACTIVE" /\ issActive = k

(* Both hosts use the key of a rotation that got through. *)
Through ==
    /\ \A k \in Rotations : rot[k].done = 4 \/ rot[k].status = "COMPLETED" => Agreed(k)
    /\ run.pc \in {"activated", "reload", "complete"} => Agreed(run.k)

(* And so does the key in memory. *)
InMemory ==
    /\ phase = "down" => zak = None
    /\ phase = "recovering" => zak = ActiveKey
    /\ run.pc = "complete" => zak = ActiveKey \/ unreloaded
    /\ \A k \in Rotations : rot[k].status = "COMPLETED" /\ Newest(k) /\ ~late => zak \in {k, None} \/ unreloaded

IssuerSide == issActive \notin declined /\ (issActive = 0 \/ issActive \in Begun) /\ IssuerKeyKept

IInv == Typed /\ InOrder /\ OneActive /\ OnTheWay /\ Progress /\ Through /\ InMemory /\ IssuerSide

-----------------------------------------------------------------------------
(* Rotations and keys are numbers; key 0 is no rotation's. *)
LEMMA Numbers ==
    /\ MaxRotations \in Nat /\ MaxFailures \in Nat /\ Rotations \subseteq Nat \ {0} /\ Keys \subseteq Nat
    /\ Rotations \subseteq Keys /\ 0 \in Keys
    /\ \A k \in Keys : k # 0 => k \in Rotations
BY RotationAssumption DEF Rotations, Keys

(* The last step's number is not that of a rotation with no step done; and a reply that saw one more
   activation, and fewer than two, had seen none. *)
LEMMA Counts ==
    /\ 4 # 0 /\ 0 < 2 /\ 0 # 1
    /\ \A n \in Nat : n + 1 < 2 => n = 0 /\ n + 1 = 1
OBVIOUS

(* Only one rotation is the newest. *)
LEMMA NewestUnique ==
    ASSUME NEW j \in Begun, NEW k \in Begun, Newest(j), Newest(k)
    PROVE  j = k
<1>1. j \in Nat /\ k \in Nat /\ ~(j > k) /\ ~(k > j)
  BY Numbers, Zenon DEF Begun, Newest
<1> QED BY <1>1

(* loadActiveZAK and reloadOnActivate find the one ACTIVE key. *)
LEMMA ActiveKeyIs ==
    ASSUME OneActive, NEW k \in Keys, key[k] = "ACTIVE"
    PROVE  ActiveKey = k
BY DEF OneActive, ActiveKey

(* The step of the running rotation and its fields. *)
LEMMA GotoFields ==
    ASSUME Typed, NEW step \in RunSteps, Goto(step)
    PROVE  /\ run' \in Run
           /\ run'.pc = step /\ run'.k = run.k /\ run'.n = run.n /\ run'.rc = run.rc
BY Zenon DEF Typed, Goto, Run

(* The status of a rotation, or its number of DONE steps, is written. *)
LEMMA StatusWritten ==
    ASSUME Typed, NEW k \in Rotations, NEW st \in Statuses, rot' = [rot EXCEPT ![k].status = st]
    PROVE  /\ rot' \in [Rotations -> Row]
           /\ rot'[k].status = st /\ rot'[k].done = rot[k].done
           /\ \A j \in Rotations : j # k => rot'[j] = rot[j]
<1>1. \A r \in Row : LET q == [r EXCEPT !.status = st] IN q \in Row /\ q.status = st /\ q.done = r.done
  BY DEF Row
<1>2. rot' = [rot EXCEPT ![k] = [rot[k] EXCEPT !.status = st]] /\ rot \in [Rotations -> Row]
  BY Zenon DEF Typed
<1> QED BY <1>1, <1>2

(* A step of one rotation is marked DONE. *)
LEMMA DoneWritten ==
    ASSUME Typed, NEW k \in Rotations, NEW n \in 0..4, rot' = [rot EXCEPT ![k].done = n]
    PROVE  /\ rot' \in [Rotations -> Row]
           /\ rot'[k].done = n /\ rot'[k].status = rot[k].status
           /\ \A j \in Rotations : j # k => rot'[j] = rot[j]
<1>1. \A r \in Row : LET q == [r EXCEPT !.done = n] IN q \in Row /\ q.done = n /\ q.status = r.status
  BY DEF Row
<1>2. rot' = [rot EXCEPT ![k] = [rot[k] EXCEPT !.done = n]] /\ rot \in [Rotations -> Row]
  BY Zenon DEF Typed
<1> QED BY <1>1, <1>2

(* A step that starts no rotation leaves their order alone. *)
LEMMA SameOrder ==
    ASSUME \A k \in Rotations : (rot'[k].status = "") <=> (rot[k].status = "")
    PROVE  Begun' = Begun /\ \A k \in Rotations : Newest(k)' <=> Newest(k)
BY Zenon DEF Begun, Newest

(* A step of the rotation under way that leaves the tables alone keeps the order of the rotations. *)
LEMMA KeepsOrder ==
    ASSUME InOrder, UNCHANGED <<rot, key, phase>>, run'.k = run.k, (run'.pc = "idle") <=> (run.pc = "idle")
    PROVE  InOrder'
<1>1. Begun' = Begun /\ (Newest(run.k)' <=> Newest(run.k))
  BY DEF Begun, Newest
<1>2. \E n \in 0..MaxRotations : Begun' = 1..n
  BY <1>1, Zenon DEF InOrder
<1>3. \A k \in Rotations : rot'[k].status = "" => key'[k] = "" /\ rot'[k].done = 0
  BY Zenon DEF InOrder
<1>4. run'.pc # "idle" => run'.k \in Begun /\ Newest(run.k)
  BY Zenon DEF InOrder
<1>5. phase' # "serving" => run'.pc = "idle"
  BY Zenon DEF InOrder
<1> QED BY <1>1, <1>2, <1>3, <1>4, <1>5, Zenon DEF InOrder

(* An idle runner. *)
LEMMA IdleFields ==
    /\ Idle \in Run
    /\ Idle.pc = "idle"
BY Numbers, Zenon DEF Idle, RunSteps, Run

(* Steps of the gateway that change neither a key nor a status: the rotation moves on. *)
LEMMA MovesOn ==
    ASSUME IInv, UNCHANGED <<key, wire, handling, issActive, declined, late, phase>>,
           run' \in Run,
           rot' \in [Rotations -> Row],
           run.pc # "idle", run'.k = run.k \/ run'.pc = "idle",
           \A k \in Rotations : (rot'[k].status = "") <=> (rot[k].status = ""),
           \A k \in Rotations : /\ rot[k].status = "" => rot'[k].done = 0
                                /\ rot'[k].done = 4 \/ rot'[k].status = "COMPLETED" => Agreed(k),
           OnTheWay', Progress', InMemory', unreloaded' \in BOOLEAN,
           run'.pc \in {"activated", "reload", "complete"} => Agreed(run.k)
    PROVE  IInv'
<1> USE DEF IInv
<1>1. Typed'
  BY Zenon DEF Typed
<1>2. Begun' = Begun /\ \A k \in Rotations : Newest(k)' <=> Newest(k)
  BY Zenon DEF Begun, Newest
<1>3. InOrder'
  BY <1>2, Zenon DEF InOrder, Begun
<1>4. OneActive' /\ IssuerSide'
  BY <1>2, Zenon DEF OneActive, IssuerSide, IssuerKeyKept
<1>5. \A k \in Rotations : Agreed(k)' <=> Agreed(k)
  BY <1>2, Zenon DEF Agreed
<1>6. Through'
  <2>1. run'.pc \in {"activated", "reload", "complete"} => run.k \in Rotations /\ run'.k = run.k
    BY Zenon DEF InOrder, Begun
  <2> QED BY <1>5, <2>1, Zenon DEF Through
<1> QED BY <1>1, <1>3, <1>4, <1>6, Zenon

(* Start: Begun is 1..n, so the new rotation is n + 1. *)
LEMMA StartStep ==
    ASSUME IInv, NEW k \in Rotations, Start(k)
    PROVE  IInv'
<1> USE DEF IInv
<1>1. PICK n \in 0..MaxRotations : Begun = 1..n
  BY Zenon DEF InOrder
<1>2. k \notin Begun /\ \A j \in 1..(k - 1) : j \in Rotations => j \in Begun
  BY Zenon DEF Start, Begun
<1>3. k = n + 1 /\ n \in Nat
  <2>1. \A j \in 1..(k - 1) : j \in 1..n
    BY <1>1, <1>2, Numbers DEF Rotations
  <2>2. k \notin 1..n /\ k \in 1..MaxRotations /\ MaxRotations \in Nat
    BY <1>1, <1>2, Numbers DEF Rotations
  <2>3. k - 1 <= n
    BY <2>1, <2>2
  <2> QED BY <2>2, <2>3
<1>7. /\ rot' \in [Rotations -> Row]
      /\ rot'[k].status = "RUNNING" /\ rot'[k].done = rot[k].done
      /\ \A j \in Rotations : j # k => rot'[j] = rot[j]
  <2>1. rot' = [rot EXCEPT ![k].status = "RUNNING"] /\ "RUNNING" \in Statuses
    BY Zenon DEF Start, Statuses
  <2> QED BY <2>1, StatusWritten, Zenon
<1>4. k \notin Begun /\ Begun' = 1..k /\ k \in 0..MaxRotations
  <2>1. Begun' = Begun \cup {k}
    BY <1>7, Zenon DEF Begun
  <2>2. 1..k = (1..n) \cup {k} /\ k \notin 1..n
    BY <1>3
  <2>3. k \in 0..MaxRotations
    BY Numbers DEF Rotations
  <2> QED BY <2>1, <2>2, <2>3, <1>1
<1>5. run' \in Run /\ (run'.pc = "idle" \/ (run'.pc = "insert" /\ run'.k = k /\ run'.rc = ""))
  <2>1. CASE run' = [Idle EXCEPT !.pc = "insert", !.k = k]
    BY <2>1, Numbers, Zenon DEF Idle, RunSteps, Run
  <2>2. CASE run' = run
    BY <2>2, Zenon DEF Typed, Start
  <2> QED BY <2>1, <2>2, Zenon DEF Start
<1>6. /\ UNCHANGED <<key, zak, phase, wire, handling, issActive, declined, late, unreloaded>>
      /\ phase = "serving" /\ run.pc = "idle"
  BY Zenon DEF Start, issuerVars
<1>8. Typed'
  BY <1>5, <1>6, <1>7, Zenon DEF Typed
<1>9. Newest(k)' /\ \A j \in Begun : ~Newest(j)'
  <2>1. \A j \in Rotations : j > k => j \notin 1..k
    BY Numbers
  <2>2. Newest(k)'
    BY <2>1, <1>4, Zenon DEF Newest, Begun
  <2>3. \A j \in 1..n : k > j
    BY <1>3
  <2> QED BY <2>2, <2>3, <1>1, <1>7, Zenon DEF Newest
<1>10. rot[k].status = "" /\ rot[k].done = 0 /\ key[k] = ""
  BY <1>4, Zenon DEF Begun, InOrder
<1>11. InOrder'
  <2>1. k \in Begun'
    BY <1>7, Zenon DEF Begun
  <2>2. \E i \in 0..MaxRotations : Begun' = 1..i
    BY <1>4
  <2>3. MaxRotations' = MaxRotations /\ Rotations' = Rotations
    BY DEF Rotations
  <2>4. \A j \in Rotations : rot'[j].status = "" => key'[j] = "" /\ rot'[j].done = 0
    BY <1>6, <1>7, Zenon DEF InOrder
  <2> QED BY <2>1, <2>2, <2>4, <1>5, <1>6, <1>9, Zenon DEF InOrder
<1>12. OneActive'
  BY <1>6 DEF OneActive
<1>13. OnTheWay'
  BY <1>4, <1>5, <1>6, <1>7, <1>9, Zenon DEF OnTheWay, Begun
<1>14. issActive # k
  BY <1>4, Numbers DEF IssuerSide
<1>15. Progress'
  <2>1. CASE run'.pc = "idle"
    BY <2>1, Zenon DEF Progress
  <2>2. CASE run'.pc = "insert" /\ run'.k = k /\ run'.rc = ""
    BY <2>2, <1>6, <1>10, <1>14, Zenon DEF Progress
  <2> QED BY <2>1, <2>2, <1>5, Zenon
<1>16. \A j \in Rotations : rot'[j].done = 4 \/ rot'[j].status = "COMPLETED" => j \in Begun
  <2> SUFFICES ASSUME NEW j \in Rotations, rot'[j].done = 4 \/ rot'[j].status = "COMPLETED"
               PROVE  j \in Begun
    BY Zenon
  <2>1. j # k
    <3>1. rot'[k].done = 0
      BY <1>7, <1>10, Zenon
    <3>2. 0 # 4
      BY Counts, Zenon
    <3>3. rot'[k].status # "COMPLETED"
      BY <1>7, Zenon
    <3> QED BY <3>1, <3>2, <3>3, Zenon
  <2>2. rot[j].done = 4 \/ rot[j].status = "COMPLETED"
    BY <2>1, <1>7, Zenon
  <2>3. 4 # 0
    BY Counts, Zenon
  <2>4. rot[j].status # ""
    BY <2>2, <2>3, Zenon DEF InOrder
  <2> QED BY <2>4, Zenon DEF Begun
<1>17. Through'
  BY <1>16, <1>9, <1>5 DEF Through, Agreed
<1>18. InMemory'
  BY <1>16, <1>9, <1>5, <1>6, Zenon DEF InMemory
<1>19. IssuerSide'
  BY <1>4, <1>6, <1>7, Zenon DEF IssuerSide, IssuerKeyKept, Begun
<1> QED BY <1>8, <1>11, <1>12, <1>13, <1>15, <1>17, <1>18, <1>19

(* SetNewKey, SENT_0800 and PARTNER_CONFIRM: a step is marked DONE, or it fails. *)
LEMMA StepDone ==
    ASSUME IInv, NEW at \in RunSteps, NEW step \in 0..4, step # 4, NEW next \in RunSteps, NEW onError \in RunSteps,
           CompleteStep(at, step, next, onError),
           \/ at = "generated" /\ next = "send" /\ onError = "retire" /\ run.rc = ""
           \/ at = "sent" /\ next = "confirm" /\ onError = "fail"
           \/ at = "confirm" /\ next = "activate" /\ onError = "fail" /\ run.rc = "00"
    PROVE  IInv'
<1>1. PICK to \in {next, onError} : Goto(to)
  BY Zenon DEF CompleteStep
<1>2. /\ run' \in Run
      /\ run'.pc = to /\ run'.k = run.k /\ run'.n = run.n /\ run'.rc = run.rc
  BY <1>1, GotoFields, Zenon DEF IInv
<1>3. /\ UNCHANGED <<key, zak, wire, handling, issActive, declined, late, phase>>
      /\ unreloaded' = unreloaded
      /\ run.pc = at
  BY Zenon DEF CompleteStep, IInv, Typed, issuerVars, At
<1>4. run.k \in Rotations /\ rot[run.k].status # "" /\ run.pc # "idle"
  BY <1>3, Zenon DEF IInv, InOrder, Begun
<1>5. /\ rot' \in [Rotations -> Row]
      /\ \A j \in Rotations : /\ rot'[j].status = rot[j].status
                              /\ rot'[j].done = 4 => rot[j].done = 4
                              /\ rot[j].status = "" => rot'[j].done = rot[j].done
  <2>1. CASE rot' = rot
    BY <2>1, Zenon DEF IInv, Typed
  <2>2. CASE rot' = [rot EXCEPT ![run.k].done = step]
    <3>1. Typed
      BY Zenon DEF IInv
    <3> QED BY <2>2, <3>1, <1>4, DoneWritten, ZenonT(30)
  <2> QED BY <2>1, <2>2, Zenon DEF CompleteStep
<1>0. \A j \in Rotations : (rot'[j].status = "") <=> (rot[j].status = "")
  BY <1>5, Zenon
<1>6. Begun' = Begun /\ \A k \in Rotations : Newest(k)' <=> Newest(k)
  BY <1>0, SameOrder, Zenon
<1>7. OnTheWay'
  <2>1. \A m \in wire \cup handling : m[1] \in Rotations
    BY Zenon DEF IInv, Typed
  <2>2. run'.pc \notin {"insert", "generated"}
    BY <1>2, Zenon
  <2>3. run'.pc = "retire" => run.pc = "generated"
    BY <1>2, <1>3, Zenon
  <2> QED BY <2>1, <2>2, <2>3, <1>2, <1>3, <1>6, Zenon DEF IInv, OnTheWay
<1>8. Progress'
  BY <1>2, <1>3, Zenon DEF IInv, Progress
<1>9. InMemory'
  <2>1. run'.pc # "complete"
    BY <1>2, Zenon
  <2>2. ActiveKey' = ActiveKey
    BY <1>3, Zenon DEF ActiveKey
  <2> QED BY <2>1, <2>2, <1>3, <1>5, <1>6, Zenon DEF IInv, InMemory
<1>10. run'.pc \notin {"activated", "reload", "complete"}
  BY <1>2, Zenon
<1>11. \A k \in Rotations : /\ rot[k].status = "" => rot'[k].done = 0
                            /\ rot'[k].done = 4 \/ rot'[k].status = "COMPLETED" => Agreed(k)
  BY <1>5, Zenon DEF IInv, InOrder, Through
<1>12. unreloaded' \in BOOLEAN
  BY <1>3, Zenon DEF IInv, Typed
<1> QED BY <1>0, <1>2, <1>3, <1>4, <1>5, <1>7, <1>8, <1>9, <1>10, <1>11, <1>12, MovesOn, Zenon

(* The 0810 is read, or the attempt's time is up. *)
LEMMA AnswerStep ==
    ASSUME IInv, Answer
    PROVE  IInv'
<1>1. /\ run' \in Run /\ run'.k = run.k /\ run'.n = run.n
      /\ \/ run.rc \in {"", "96"} /\ run'.pc = "send" /\ run'.rc = ""
         \/ run.rc \in {"00", "57"} /\ run'.pc = "sent" /\ run'.rc = run.rc
  BY Zenon DEF Answer, IInv, Typed, Run, RunSteps
<1>2. /\ UNCHANGED <<key, zak, rot, wire, handling, issActive, declined, late, phase, unreloaded>>
      /\ run.pc = "wait"
  BY DEF Answer, At, issuerVars, historyVars
<1>0. \A j \in Rotations : (rot'[j].status = "") <=> (rot[j].status = "")
  BY <1>2
<1>3. Begun' = Begun /\ \A k \in Rotations : Newest(k)' <=> Newest(k)
  BY <1>0, SameOrder, Zenon
<1>4. OnTheWay'
  <2>1. \A m \in wire \cup handling : m[1] \in Rotations
    BY Zenon DEF IInv, Typed
  <2> QED BY <2>1, <1>1, <1>2, <1>3, Zenon DEF IInv, OnTheWay
<1>5. Progress'
  BY <1>1, <1>2, Zenon DEF IInv, Progress
<1>6. InMemory'
  <2>1. ActiveKey' = ActiveKey
    BY <1>2 DEF ActiveKey
  <2> QED BY <2>1, <1>1, <1>2, <1>3, Zenon DEF IInv, InMemory
<1>7. \A k \in Rotations : /\ rot[k].status = "" => rot'[k].done = 0
                           /\ rot'[k].done = 4 \/ rot'[k].status = "COMPLETED" => Agreed(k)
  BY <1>2, Zenon DEF IInv, InOrder, Through
<1>9. run.pc # "idle" /\ run'.pc \notin {"activated", "reload", "complete"}
  BY <1>1, <1>2, Zenon
<1>8. rot' \in [Rotations -> Row] /\ unreloaded' \in BOOLEAN
  BY <1>2, Zenon DEF IInv, Typed
<1> QED BY <1>0, <1>1, <1>2, <1>4, <1>5, <1>6, <1>7, <1>8, <1>9, MovesOn, Zenon

(* runPartnerConfirm on a decline. *)
LEMMA DeclineStep ==
    ASSUME IInv, At("confirm"), run.rc # "00", Goto("retire"),
           UNCHANGED <<key, zak, rot, wire, handling, issActive, declined, late, phase, unreloaded>>
    PROVE  IInv'
<1>1. run' \in Run /\ run'.k = run.k /\ run'.pc = "retire"
  BY GotoFields, Zenon DEF IInv, RunSteps
<1>2. run.pc = "confirm" /\ run.k \in declined /\ issActive # run.k
  BY Zenon DEF At, IInv, Progress, IssuerSide
<1>3. \A j \in Rotations : (rot'[j].status = "") <=> (rot[j].status = "")
  BY Zenon
<1>4. Begun' = Begun /\ \A k \in Rotations : Newest(k)' <=> Newest(k)
  BY <1>3, SameOrder, Zenon
<1>5. OnTheWay'
  <2>1. \A m \in wire \cup handling : m[1] \in Rotations
    BY Zenon DEF IInv, Typed
  <2> QED BY <2>1, <1>1, <1>2, <1>4, Zenon DEF IInv, OnTheWay
<1>6. Progress'
  BY <1>1, <1>2, Zenon DEF Progress
<1>7. InMemory'
  <2>1. ActiveKey' = ActiveKey
    BY DEF ActiveKey
  <2> QED BY <2>1, <1>1, <1>4, Zenon DEF IInv, InMemory
<1>8. \A k \in Rotations : /\ rot[k].status = "" => rot'[k].done = 0
                           /\ rot'[k].done = 4 \/ rot'[k].status = "COMPLETED" => Agreed(k)
  BY Zenon DEF IInv, InOrder, Through
<1>9. rot' \in [Rotations -> Row] /\ unreloaded' \in BOOLEAN
  BY Zenon DEF IInv, Typed
<1>10. run.pc # "idle" /\ run'.pc \notin {"activated", "reload", "complete"}
  BY <1>1, <1>2, Zenon
<1> QED BY <1>1, <1>3, <1>5, <1>6, <1>7, <1>8, <1>9, <1>10, MovesOn, Zenon

(* The last DONE, of a key that both hosts have activated. *)
LEMMA ActivatedStep ==
    ASSUME IInv, Activated
    PROVE  IInv'
<1>1. PICK at \in {"reload", "fail"} : Goto(at)
  BY DEF Activated, CompleteStep
<1>2. run' \in Run /\ run'.pc = at /\ run'.k = run.k
  BY <1>1, GotoFields, Zenon DEF IInv, RunSteps
<1>3. /\ UNCHANGED <<key, zak, wire, handling, issActive, declined, late, phase>>
      /\ run.pc = "activated"
      /\ unreloaded' = (unreloaded \/ run'.pc = "fail")
  BY DEF Activated, CompleteStep, issuerVars, At
<1>4. run.k \in Rotations /\ rot[run.k].status # "" /\ run.pc # "idle" /\ Agreed(run.k)
  BY <1>3, Zenon DEF IInv, InOrder, Begun, Through
<1>5. /\ rot' \in [Rotations -> Row]
      /\ \A j \in Rotations : rot'[j].status = rot[j].status
      /\ \A j \in Rotations : j # run.k => rot'[j].done = rot[j].done
  <2>1. CASE rot' = rot
    BY <2>1, Zenon DEF IInv, Typed
  <2>2. CASE rot' = [rot EXCEPT ![run.k].done = 4]
    <3>1. Typed /\ 4 \in 0..4
      BY DEF IInv
    <3> QED BY <2>2, <3>1, <1>4, DoneWritten, Zenon
  <2> QED BY <2>1, <2>2 DEF Activated, CompleteStep
<1>6. \A j \in Rotations : (rot'[j].status = "") <=> (rot[j].status = "")
  BY <1>5, Zenon
<1>7. Begun' = Begun /\ \A k \in Rotations : Newest(k)' <=> Newest(k)
  BY <1>6, SameOrder, Zenon
<1>8. OnTheWay'
  <2>1. \A m \in wire \cup handling : m[1] \in Rotations
    BY Zenon DEF IInv, Typed
  <2> QED BY <2>1, <1>2, <1>3, <1>7, Zenon DEF IInv, OnTheWay
<1>9. Progress'
  BY <1>2, <1>3, Zenon DEF IInv, Progress
<1>10. InMemory'
  <2>1. ActiveKey' = ActiveKey
    BY <1>3 DEF ActiveKey
  <2>2. unreloaded => unreloaded'
    BY <1>3, Zenon
  <2> QED BY <2>1, <2>2, <1>2, <1>3, <1>5, <1>7, Zenon DEF IInv, InMemory
<1>11. \A k \in Rotations : rot[k].status = "" => rot'[k].done = 0
  BY <1>4, <1>5, Zenon DEF IInv, InOrder
<1>12. \A k \in Rotations : rot'[k].done = 4 \/ rot'[k].status = "COMPLETED" => Agreed(k)
  BY <1>4, <1>5, Zenon DEF IInv, Through
<1>13. unreloaded' \in BOOLEAN
  BY <1>3, Zenon DEF IInv, Typed
<1> QED BY <1>2, <1>3, <1>4, <1>5, <1>6, <1>8, <1>9, <1>10, <1>11, <1>12, <1>13, MovesOn, Zenon

(* The key in memory is read again. *)
LEMMA ReloadStep ==
    ASSUME IInv, ReloadActive
    PROVE  IInv'
<1>1. run' \in Run /\ run'.pc = "complete" /\ run'.k = run.k
  BY GotoFields, Zenon DEF ReloadActive, IInv, RunSteps
<1>2. /\ UNCHANGED <<key, rot, wire, handling, issActive, declined, late, phase>>
      /\ run.pc = "reload"
      /\ \/ zak' = ActiveKey /\ unreloaded' = FALSE
         \/ zak' = zak /\ unreloaded' = TRUE
  BY DEF ReloadActive, issuerVars, At
<1>3. run.k \in Rotations /\ run.pc # "idle" /\ Agreed(run.k) /\ phase = "serving"
  BY <1>2, Zenon DEF IInv, InOrder, Begun, Through
<1>4. \A j \in Rotations : (rot'[j].status = "") <=> (rot[j].status = "")
  BY <1>2, Zenon
<1>5. Begun' = Begun /\ \A k \in Rotations : Newest(k)' <=> Newest(k)
  BY <1>4, SameOrder, Zenon
<1>6. OnTheWay'
  <2>1. \A m \in wire \cup handling : m[1] \in Rotations
    BY Zenon DEF IInv, Typed
  <2> QED BY <2>1, <1>1, <1>2, <1>5, Zenon DEF IInv, OnTheWay
<1>7. Progress'
  BY <1>1, <1>2, Zenon DEF IInv, Progress
<1>8. InMemory'
  <2>1. ActiveKey' = ActiveKey
    BY <1>2 DEF ActiveKey
  <2>2. ASSUME NEW k \in Rotations, rot[k].status = "COMPLETED", Newest(k), ~late
        PROVE  ActiveKey = k
    <3>1. key[k] = "ACTIVE" /\ k \in Keys
      BY <2>2, Numbers, Zenon DEF IInv, Through, Agreed
    <3> QED BY <3>1, ActiveKeyIs DEF IInv
  <2>3. \A k \in Rotations : rot'[k].status = "COMPLETED" /\ Newest(k)' /\ ~late' =>
            zak' \in {k, None} \/ unreloaded'
    BY <2>2, <1>2, <1>5, Zenon
  <2> QED BY <2>1, <2>3, <1>2, <1>3, Zenon DEF InMemory
<1>9. \A k \in Rotations : rot[k].status = "" => rot'[k].done = 0
  BY <1>2, Zenon DEF IInv, InOrder
<1>10. \A k \in Rotations : rot'[k].done = 4 \/ rot'[k].status = "COMPLETED" => Agreed(k)
  BY <1>2, Zenon DEF IInv, Through
<1>11. rot' \in [Rotations -> Row] /\ unreloaded' \in BOOLEAN
  BY <1>2, Zenon DEF IInv, Typed
<1> QED BY <1>1, <1>2, <1>3, <1>4, <1>6, <1>7, <1>8, <1>9, <1>10, <1>11, MovesOn, Zenon

(* COMPLETED is written, or cannot be. *)
LEMMA CompletedStep ==
    ASSUME IInv, Complete
    PROVE  IInv'
<1>1. run' \in Run /\ run'.pc = "idle"
  BY IdleFields DEF Complete
<1>2. /\ UNCHANGED <<key, zak, wire, handling, issActive, declined, late, phase, unreloaded>>
      /\ run.pc = "complete"
      /\ rot' = rot \/ rot' = [rot EXCEPT ![run.k].status = "COMPLETED"]
  BY DEF Complete, issuerVars, At
<1>3. run.k \in Rotations /\ rot[run.k].status # "" /\ run.pc # "idle" /\ Agreed(run.k) /\ phase = "serving"
  BY <1>2, Zenon DEF IInv, InOrder, Begun, Through
<1>4. /\ rot' \in [Rotations -> Row]
      /\ rot'[run.k].status # ""
      /\ \A j \in Rotations : rot'[j].done = rot[j].done
      /\ \A j \in Rotations : j # run.k => rot'[j] = rot[j]
  <2>1. CASE rot' = rot
    BY <2>1, <1>3, Zenon DEF IInv, Typed
  <2>2. CASE rot' = [rot EXCEPT ![run.k].status = "COMPLETED"]
    BY <2>2, <1>3, StatusWritten, Zenon DEF IInv, Statuses
  <2> QED BY <2>1, <2>2, <1>2, Zenon
<1>5. \A j \in Rotations : (rot'[j].status = "") <=> (rot[j].status = "")
  BY <1>3, <1>4, Zenon
<1>6. Begun' = Begun /\ \A k \in Rotations : Newest(k)' <=> Newest(k)
  BY <1>5, SameOrder, Zenon
<1>7. OnTheWay'
  <2>1. \A m \in wire \cup handling : m[1] \in Rotations
    BY Zenon DEF IInv, Typed
  <2> QED BY <2>1, <1>1, <1>2, <1>6 DEF IInv, OnTheWay
<1>8. Progress'
  BY <1>1, Zenon DEF Progress
<1>9. InMemory'
  <2>1. ActiveKey' = ActiveKey
    BY <1>2 DEF ActiveKey
  <2>2. ASSUME Newest(run.k), ~late
        PROVE  ActiveKey = run.k
    <3>1. key[run.k] = "ACTIVE" /\ run.k \in Keys
      BY <2>2, <1>3, Numbers, Zenon DEF Agreed
    <3> QED BY <3>1, ActiveKeyIs DEF IInv
  <2>3. zak = ActiveKey \/ unreloaded
    BY <1>2 DEF IInv, InMemory
  <2>4. \A k \in Rotations : rot'[k].status = "COMPLETED" /\ Newest(k)' /\ ~late' =>
            zak' \in {k, None} \/ unreloaded'
    BY <2>2, <2>3, <1>2, <1>4, <1>6, Zenon DEF IInv, InMemory
  <2> QED BY <2>1, <2>4, <1>1, <1>2, <1>3, Zenon DEF InMemory
<1>10. \A k \in Rotations : rot[k].status = "" => rot'[k].done = 0
  BY <1>4, Zenon DEF IInv, InOrder
<1>11. \A k \in Rotations : rot'[k].done = 4 \/ rot'[k].status = "COMPLETED" => Agreed(k)
  BY <1>3, <1>4, Zenon DEF IInv, Through
<1>12. unreloaded' \in BOOLEAN
  BY <1>2, Zenon DEF IInv, Typed
<1> QED BY <1>1, <1>2, <1>3, <1>4, <1>5, <1>7, <1>8, <1>9, <1>10, <1>11, <1>12, MovesOn, Zenon

(* FAILED is written, or cannot be; the key of a rotation that never reached the issuer is retired. *)
LEMMA FailedStep ==
    ASSUME IInv, FailStep
    PROVE  IInv'
<1>1. run' \in Run /\ run'.pc = "idle"
  BY IdleFields DEF FailStep
<1>2. /\ UNCHANGED <<zak, wire, handling, issActive, declined, late, phase, unreloaded>>
      /\ run.pc \in {"fail", "retire"} /\ run.pc # "idle"
      /\ rot' = rot \/ rot' = [rot EXCEPT ![run.k].status = "FAILED"]
      /\ key' = key \/ (run.pc = "retire" /\ RetirePending(run.k))
  BY DEF FailStep, issuerVars
<1>3. run.k \in Rotations /\ run.k \in Begun /\ rot[run.k].status # "" /\ phase = "serving" /\ run.k \in Keys
  BY <1>2, Numbers, Zenon DEF IInv, InOrder, Begun
<1>4. /\ rot' \in [Rotations -> Row]
      /\ rot'[run.k].status # ""
      /\ rot'[run.k].status = "COMPLETED" => rot[run.k].status = "COMPLETED"
      /\ \A j \in Rotations : rot'[j].done = rot[j].done
      /\ \A j \in Rotations : j # run.k => rot'[j] = rot[j]
  <2>1. CASE rot' = rot
    BY <2>1, <1>3, Zenon DEF IInv, Typed
  <2>2. CASE rot' = [rot EXCEPT ![run.k].status = "FAILED"]
    BY <2>2, <1>3, StatusWritten, Zenon DEF IInv, Statuses
  <2> QED BY <2>1, <2>2, <1>2, Zenon
<1>5. \A j \in Rotations : (rot'[j].status = "") <=> (rot[j].status = "")
  BY <1>3, <1>4, Zenon
<1>6. Begun' = Begun /\ \A k \in Rotations : Newest(k)' <=> Newest(k)
  BY <1>5, SameOrder, Zenon
<1>7. /\ key' \in [Keys -> {"", "PENDING", "ACTIVE", "RETIRED"}]
      /\ \A k \in Keys : key'[k] # key[k] => k = run.k /\ run.pc = "retire" /\ key[k] = "PENDING" /\ key'[k] = "RETIRED"
  <2>1. CASE key' = key
    BY <2>1, Zenon DEF IInv, Typed
  <2>2. CASE run.pc = "retire" /\ RetirePending(run.k)
    BY <2>2, <1>3, Zenon DEF IInv, Typed, RetirePending
  <2> QED BY <2>1, <2>2, <1>2, Zenon
<1>8. \A k \in Keys : key'[k] = "ACTIVE" <=> key[k] = "ACTIVE"
  BY <1>7, Zenon
<1>9. ActiveKey' = ActiveKey /\ OneActive'
  BY <1>8 DEF ActiveKey, OneActive, IInv
<1>10. Typed'
  BY <1>1, <1>2, <1>4, <1>7, Zenon DEF IInv, Typed
<1>11. InOrder'
  <2>1. \A k \in Rotations : rot[k].status = "" => key'[k] = ""
    BY <1>3, <1>7, Numbers, Zenon DEF IInv, InOrder
  <2> QED BY <2>1, <1>1, <1>2, <1>3, <1>4, <1>5, <1>6, ZenonT(30) DEF IInv, InOrder
<1>12. OnTheWay'
  <2>1. ASSUME NEW m \in wire \cup handling
        PROVE  m[1] \in Rotations /\ (key'[m[1]] = key[m[1]] \/ m[1] \in declined)
    BY <1>2, <1>7, Numbers, Zenon DEF IInv, Typed, OnTheWay
  <2> QED BY <2>1, <1>1, <1>2, <1>6 DEF IInv, OnTheWay
<1>13. Progress'
  BY <1>1 DEF Progress
<1>14. \A k \in Rotations : Agreed(k) => Agreed(k)'
  BY <1>2, <1>6, <1>8, Numbers DEF Agreed
<1>15. Through'
  BY <1>1, <1>3, <1>4, <1>14, Zenon DEF IInv, Through
<1>16. InMemory'
  BY <1>1, <1>2, <1>3, <1>4, <1>6, <1>9, Zenon DEF IInv, InMemory
<1>17. IssuerSide'
  <2>1. run.pc = "retire" => issActive # run.k
    BY Zenon DEF IInv, Progress
  <2>2. key'[issActive] = key[issActive]
    BY <2>1, <1>7, Zenon DEF IInv, Typed
  <2> QED BY <2>2, <1>2, <1>6 DEF IInv, IssuerSide, IssuerKeyKept
<1> QED BY <1>9, <1>10, <1>11, <1>12, <1>13, <1>15, <1>16, <1>17 DEF IInv

(* The PENDING row is inserted. *)
LEMMA GenerateStep ==
    ASSUME IInv, Generate
    PROVE  IInv'
<1>1. PICK at \in {"generated", "fail"} : Goto(at) /\ (at = "generated" => key' = [key EXCEPT ![run.k] = "PENDING"])
                                                 /\ (at = "fail" => key' = key)
  BY DEF Generate
<1>2. run' \in Run /\ run'.pc = at /\ run'.k = run.k /\ run'.rc = run.rc
  BY <1>1, GotoFields, Zenon DEF IInv, RunSteps
<1>3. /\ UNCHANGED <<zak, rot, wire, handling, issActive, declined, late, phase, unreloaded>>
      /\ run.pc = "insert" /\ run.pc # "idle"
  BY DEF Generate, issuerVars, historyVars, At
<1>4. run.k \in Rotations /\ run.k \in Begun /\ phase = "serving" /\ run.k \in Keys /\ key[run.k] = ""
  BY <1>3, Numbers, Zenon DEF IInv, InOrder, Begun, Progress
<1>5. Begun' = Begun /\ \A k \in Rotations : Newest(k)' <=> Newest(k)
  BY <1>3, SameOrder, Zenon
<1>6. /\ key' \in [Keys -> {"", "PENDING", "ACTIVE", "RETIRED"}]
      /\ \A k \in Keys : key'[k] # key[k] => k = run.k /\ key'[k] = "PENDING"
      /\ at = "generated" => key'[run.k] = "PENDING"
  BY <1>1, <1>4, Zenon DEF IInv, Typed
<1>7. \A k \in Keys : key'[k] = "ACTIVE" <=> key[k] = "ACTIVE"
  BY <1>4, <1>6, Zenon
<1>8. ActiveKey' = ActiveKey /\ OneActive'
  BY <1>7 DEF ActiveKey, OneActive, IInv
<1>9. Typed'
  BY <1>2, <1>3, <1>6, Zenon DEF IInv, Typed
<1>10. InOrder'
  <2>1. \A k \in Rotations : rot[k].status = "" => key'[k] = ""
    BY <1>4, <1>6, Numbers, Zenon DEF IInv, InOrder, Begun
  <2> QED BY <2>1, <1>2, <1>3, <1>4, <1>5, Zenon DEF IInv, InOrder
<1>11. OnTheWay'
  <2>1. ASSUME NEW m \in wire \cup handling
        PROVE  m[1] \in Rotations /\ m[1] # run.k /\ key'[m[1]] = key[m[1]]
    BY <1>3, <1>6, Numbers, Zenon DEF IInv, Typed, OnTheWay
  <2> QED BY <2>1, <1>2, <1>3, <1>5, Zenon DEF IInv, OnTheWay
<1>12. Progress'
  BY <1>2, <1>3, <1>6, Zenon DEF IInv, Progress
<1>13. \A k \in Rotations : Agreed(k) => Agreed(k)'
  BY <1>3, <1>5, <1>7, Numbers, Zenon DEF Agreed
<1>14. Through'
  BY <1>2, <1>3, <1>13, Zenon DEF IInv, Through
<1>15. InMemory'
  BY <1>2, <1>3, <1>4, <1>5, <1>8, Zenon DEF IInv, InMemory
<1>16. IssuerSide'
  <2>1. key'[issActive] = key[issActive]
    BY <1>3, <1>6, Zenon DEF IInv, Typed, Progress
  <2> QED BY <2>1, <1>3, <1>5, Zenon DEF IInv, IssuerSide, IssuerKeyKept
<1> QED BY <1>8, <1>9, <1>10, <1>11, <1>12, <1>14, <1>15, <1>16 DEF IInv

-----------------------------------------------------------------------------
(* A step of the issuer.  It may take up the key of a message it handles; unless that comes late,  *)
(* the key is the newest rotation's, hence the one that the running rotation waits for.            *)
LEMMA IssuerStep ==
    ASSUME IInv, UNCHANGED <<key, zak, rot, phase, declined, unreloaded>>,
           run' \in Run, run'.pc = run.pc, run'.k = run.k,
           \/ run'.rc = run.rc
           \/ /\ run.pc = "wait"
              /\ run'.rc = "57" => run.k \in declined
              /\ run'.rc = "00" /\ ~late' => issActive' = run.k,
           wire' \subseteq wire, handling' \subseteq wire \cup handling,
           \A m \in handling' : m[1] \notin declined,
           late' \in BOOLEAN, late => late',
           \/ issActive' = issActive
           \/ /\ late' \/ Newest(issActive')
              /\ \E m \in handling : m[1] = issActive'
    PROVE  IInv'
<1>1. Begun' = Begun /\ \A k \in Rotations : Newest(k)' <=> Newest(k)
  BY SameOrder, Zenon
<1>2. /\ \A m \in wire \cup handling : m \in Rotations \X Nat /\ m[1] \in Rotations /\ m[1] \in Begun
      /\ wire' \cup handling' \subseteq wire \cup handling
  BY Zenon DEF IInv, Typed, OnTheWay
<1>3. ActiveKey' = ActiveKey /\ OneActive'
  BY Zenon DEF ActiveKey, OneActive, IInv
<1>4. issActive' # issActive => issActive' \in Begun /\ issActive' \in Rotations /\ issActive' \notin declined
  BY <1>2, Zenon DEF IInv, OnTheWay
<1>5. Typed'
  BY <1>2, <1>4, Numbers, Zenon DEF IInv, Typed
<1>6. InOrder'
  BY KeepsOrder, Zenon DEF IInv
<1>7. OnTheWay'
  BY <1>1, <1>2, Zenon DEF IInv, OnTheWay
<1>8. ASSUME NEW k \in Begun, Newest(k), ~late', issActive = k
      PROVE  issActive' = k
  BY <1>4, <1>8, NewestUnique, Zenon
<1>9. run.pc # "idle" => run.k \in Begun /\ Newest(run.k)
  BY Zenon DEF IInv, InOrder
<1>10. Progress'
  <2>1. run.pc \in {"insert", "generated", "retire"} => issActive' # run.k
    BY <1>4, Zenon DEF IInv, Progress, OnTheWay
  <2>2. run.pc \in {"wait", "sent", "confirm", "activate"} /\ run'.rc = "00" /\ ~late' => issActive' = run.k
    BY <1>8, <1>9, Zenon DEF IInv, Progress
  <2> QED BY <2>1, <2>2, Zenon DEF IInv, Progress
<1>11. \A k \in Begun : Agreed(k) => Agreed(k)'
  <2>1. \A k \in Begun : k \in Rotations
    BY Zenon DEF Begun
  <2> QED BY <2>1, <1>1, <1>8, Zenon DEF Agreed
<1>12. Through'
  <2>1. \A k \in Rotations : rot[k].done = 4 \/ rot[k].status = "COMPLETED" => k \in Begun
    <3>1. 4 # 0
      BY Counts, Zenon
    <3> QED BY <3>1, Zenon DEF IInv, InOrder, Begun
  <2> QED BY <2>1, <1>9, <1>11, Zenon DEF IInv, Through
<1>13. InMemory'
  BY <1>1, <1>3, Zenon DEF IInv, InMemory
<1>14. IssuerSide'
  <2>1. issActive' \notin declined /\ (issActive' = 0 \/ issActive' \in Begun)
    BY <1>4, Zenon DEF IInv, IssuerSide
  <2>2. ~late' => key[issActive'] \in {"PENDING", "ACTIVE"}
    BY <1>4, Zenon DEF IInv, IssuerSide, IssuerKeyKept, OnTheWay
  <2> QED BY <2>1, <2>2, <1>1, Zenon DEF IssuerSide, IssuerKeyKept
<1> QED BY <1>3, <1>5, <1>6, <1>7, <1>10, <1>12, <1>13, <1>14, Zenon DEF IInv

(* The 0810 changes at most the answer of the attempt that waits for it. *)
LEMMA ReplyFields ==
    ASSUME Typed, NEW m \in Rotations \X Nat, NEW rc \in {"00", "57", "96"}, Reply(m, rc)
    PROVE  /\ run' \in Run /\ run'.pc = run.pc /\ run'.k = run.k /\ run'.n = run.n
           /\ run'.rc = run.rc \/ (run.pc = "wait" /\ run.k = m[1] /\ run'.rc = rc)
<1>1. CASE run.pc = "wait" /\ <<run.k, run.n>> = m
  <2>1. run' = [run EXCEPT !.rc = rc] /\ run.k = m[1]
    BY <1>1 DEF Reply
  <2> QED BY <2>1, <1>1, Zenon DEF Typed, Run
<1>2. CASE ~(run.pc = "wait" /\ <<run.k, run.n>> = m)
  BY <1>2, Zenon DEF Reply, Typed
<1> QED BY <1>1, <1>2, Zenon

(* The issuer reads an 0800 and declines it, or goes on to activate its key. *)
LEMMA ReceiveStep ==
    ASSUME IInv, NEW m \in wire, ReceiveKeyChange(m)
    PROVE  IInv'
<1>1. /\ UNCHANGED <<key, zak, rot, phase, declined, unreloaded, late, issActive>>
      /\ wire' \subseteq wire
  BY Zenon DEF ReceiveKeyChange, historyVars
<1>2. m \in Rotations \X Nat /\ Typed /\ late' \in BOOLEAN
  BY <1>1, Zenon DEF IInv, Typed
<1>3. /\ run' \in Run /\ run'.pc = run.pc /\ run'.k = run.k
      /\ \/ run'.rc = run.rc
         \/ /\ run.pc = "wait"
            /\ run'.rc = "57" => run.k \in declined
            /\ run'.rc = "00" /\ ~late' => issActive' = run.k
  <2>1. CASE m[1] = issActive /\ Reply(m, "00")
    BY <2>1, <1>1, <1>2, ReplyFields, Zenon
  <2>2. CASE Reply(m, "96")
    BY <2>2, <1>1, <1>2, ReplyFields, Zenon
  <2>3. CASE m[1] \in declined /\ Reply(m, "57")
    BY <2>3, <1>1, <1>2, ReplyFields, Zenon
  <2>4. CASE run' = run
    BY <2>4, <1>2, Zenon DEF Typed
  <2> QED BY <2>1, <2>2, <2>3, <2>4, Zenon DEF ReceiveKeyChange
<1>4. handling' \subseteq wire \cup handling /\ \A q \in handling' : q[1] \notin declined
  BY Zenon DEF ReceiveKeyChange, IInv, OnTheWay
<1> QED BY <1>1, <1>2, <1>3, <1>4, IssuerStep, Zenon

(* The issuer's activation, with its audit entry, and its answer. *)
LEMMA IssuerActivatesStep ==
    ASSUME IInv, NEW m \in handling, IssuerActivates(m)
    PROVE  IInv'
<1>1. UNCHANGED <<key, zak, rot, phase, declined, unreloaded, wire>> /\ handling' \subseteq handling
  BY DEF IssuerActivates
<1>2. m \in Rotations \X Nat /\ Typed /\ m[1] \in Rotations
  BY Zenon DEF IInv, Typed
<1>3. /\ late' \in BOOLEAN /\ (late => late')
      /\ \/ issActive' = issActive
         \/ /\ late' \/ Newest(issActive')
            /\ \E q \in handling : q[1] = issActive'
  <2>1. CASE IssuerActivate(m[1])
    <3>1. issActive' = m[1] /\ late' = (late \/ (m[1] # issActive /\ \E j \in Rotations : j > m[1] /\ rot[j].status # ""))
      BY <2>1, Zenon DEF IssuerActivate
    <3> QED BY <3>1, <1>2, Zenon DEF Newest, Typed
  <2>2. CASE UNCHANGED <<issActive, late>>
    BY <2>2, <1>2, Zenon DEF Typed
  <2> QED BY <2>1, <2>2, Zenon DEF IssuerActivates
<1>4. /\ run' \in Run /\ run'.pc = run.pc /\ run'.k = run.k
      /\ \/ run'.rc = run.rc
         \/ /\ run.pc = "wait"
            /\ run'.rc = "57" => run.k \in declined
            /\ run'.rc = "00" /\ ~late' => issActive' = run.k
  <2>1. CASE issActive' = m[1] /\ Reply(m, "00")
    BY <2>1, <1>2, ReplyFields, Zenon
  <2>2. CASE Reply(m, "96")
    BY <2>2, <1>2, ReplyFields, Zenon
  <2>3. (issActive' = m[1] /\ Reply(m, "00")) \/ Reply(m, "96")
    BY Zenon DEF IssuerActivates, IssuerActivate
  <2> QED BY <2>1, <2>2, <2>3, Zenon
<1>5. \A q \in handling' : q[1] \notin declined
  BY <1>1, Zenon DEF IInv, OnTheWay
<1> QED BY <1>1, <1>3, <1>4, <1>5, IssuerStep, Zenon

(* A message, or the answer to one, is lost. *)
LEMMA LoseStep ==
    ASSUME IInv, NEW m \in wire \cup handling, Lose(m)
    PROVE  IInv'
<1>1. /\ UNCHANGED <<key, zak, rot, phase, run, declined, unreloaded, issActive, late>>
      /\ wire' \subseteq wire /\ handling' \subseteq handling
  BY DEF Lose, gatewayVars, historyVars
<1>2. run' \in Run /\ late' \in BOOLEAN /\ \A q \in handling' : q[1] \notin declined
  BY <1>1, Zenon DEF IInv, Typed, OnTheWay
<1> QED BY <1>1, <1>2, IssuerStep, Zenon

-----------------------------------------------------------------------------
(* An attempt is written to the link, or the link is down, or there is none left. *)
LEMMA SendStep ==
    ASSUME IInv, SendAttempt
    PROVE  IInv'
<1>1. /\ UNCHANGED <<key, zak, rot, handling, issActive, declined, late, phase, unreloaded>>
      /\ run.pc = "send" /\ run.pc # "idle"
  BY DEF SendAttempt, issuerVars, historyVars, At
<1>2. run.k \in Rotations /\ run.k \in Begun /\ key[run.k] = "PENDING" /\ run.rc = "" /\ run.n \in Nat /\ run \in Run
  BY <1>1, Zenon DEF IInv, InOrder, Begun, Progress, Typed, Run
<1>21. run.n + 1 \in Nat
  <2>1. \A n \in Nat : n + 1 \in Nat
    OBVIOUS
  <2> QED BY <2>1, <1>2, Zenon
<1>3. /\ run' \in Run /\ run'.k = run.k /\ run'.rc = run.rc
      /\ run'.pc \in {"wait", "send", "fail"}
  <2>1. CASE run' = [run EXCEPT !.n = @ + 1, !.pc = "wait"]
    <3>1. \A n \in Nat : [run EXCEPT !.n = n, !.pc = "wait"] \in Run
      BY <1>2, Zenon DEF Run, RunSteps
    <3> QED BY <3>1, <1>21, <2>1, <1>2, Zenon DEF Run
  <2>2. CASE run' = [run EXCEPT !.n = @ + 1]
    <3>1. \A n \in Nat : [run EXCEPT !.n = n] \in Run
      BY <1>2, Zenon DEF Run
    <3> QED BY <3>1, <1>21, <2>2, <1>1, <1>2, Zenon DEF Run
  <2>3. CASE run' = [run EXCEPT !.pc = "fail"]
    BY <2>3, <1>2, Zenon DEF Run, RunSteps
  <2> QED BY <2>1, <2>2, <2>3 DEF SendAttempt, Goto
<1> DEFINE sentNow == <<run.k, run.n + 1>>
<1>4. wire' \subseteq wire \cup {sentNow}
  <2>1. wire' = wire \/ wire' = wire \cup {sentNow}
    BY Zenon DEF SendAttempt
  <2> QED BY <2>1
<1>20. sentNow \in Rotations \X Nat /\ sentNow[1] = run.k
  <2>1. \A k \in Rotations, n \in Nat : <<k, n>> \in Rotations \X Nat /\ <<k, n>>[1] = k
    OBVIOUS
  <2> QED BY <2>1, <1>2, <1>21, Zenon
<1> HIDE DEF sentNow
<1>5. wire' \subseteq Rotations \X Nat
  BY <1>4, <1>20, Zenon DEF IInv, Typed
<1>6. Begun' = Begun /\ \A k \in Rotations : Newest(k)' <=> Newest(k)
  BY <1>1, SameOrder, Zenon
<1>7. Typed'
  BY <1>1, <1>3, <1>5, Zenon DEF IInv, Typed
<1>8. InOrder'
  <2>1. run'.pc # "idle"
    BY <1>3, Zenon
  <2> QED BY <2>1, <1>1, <1>3, KeepsOrder, Zenon DEF IInv
<1>9. ActiveKey' = ActiveKey /\ OneActive'
  BY <1>1 DEF ActiveKey, OneActive, IInv
<1>10. OnTheWay'
  <2>1. \A m \in wire' \cup handling' : m[1] \in Rotations /\ (m \in wire \cup handling \/ m[1] = run.k)
    BY <1>1, <1>2, <1>4, <1>20, Zenon DEF IInv, Typed
  <2> QED BY <2>1, <1>1, <1>2, <1>3, <1>6, Zenon DEF IInv, OnTheWay
<1>11. Progress'
  BY <1>1, <1>2, <1>3, Zenon DEF IInv, Progress
<1>12. Through'
  BY <1>1, <1>3, <1>6, Zenon DEF IInv, Through, Agreed
<1>13. InMemory'
  BY <1>1, <1>3, <1>6, <1>9, Zenon DEF IInv, InMemory
<1>14. IssuerSide'
  BY <1>1, <1>6, Zenon DEF IInv, IssuerSide, IssuerKeyKept
<1> QED BY <1>7, <1>8, <1>9, <1>10, <1>11, <1>12, <1>13, <1>14 DEF IInv

(* The key that the issuer has confirmed is activated. *)
LEMMA ActivateStep ==
    ASSUME IInv, run.pc = "activate", Activate(run.k), run' \in Run, run'.k = run.k,
           run'.pc \in {"activated", "fail"}, unreloaded' \in BOOLEAN, unreloaded => unreloaded',
           UNCHANGED <<zak, rot, phase, wire, handling, issActive, declined, late>>
    PROVE  IInv'
<1>1. /\ run.k \in Rotations /\ run.k \in Begun /\ Newest(run.k) /\ phase = "serving" /\ run.k \in Keys
      /\ ~late => issActive = run.k
  BY Numbers, Zenon DEF IInv, InOrder, Begun, Progress
<1>2. Begun' = Begun /\ \A k \in Rotations : Newest(k)' <=> Newest(k)
  BY SameOrder, Zenon
<1>3. /\ key' \in [Keys -> {"", "PENDING", "ACTIVE", "RETIRED"}]
      /\ key'[run.k] = "ACTIVE"
      /\ \A k \in Keys : k # run.k => key'[k] # "ACTIVE" /\ (key[k] = "" => key'[k] = "")
  BY <1>1, Zenon DEF IInv, Typed, Activate
<1>4. Typed'
  BY <1>3, Zenon DEF IInv, Typed
<1>5. InOrder'
  <2>1. \A k \in Rotations : rot[k].status = "" => key'[k] = ""
    BY <1>1, <1>3, Numbers, Zenon DEF IInv, InOrder, Begun
  <2> QED BY <2>1, <1>1, <1>2, Zenon DEF IInv, InOrder
<1>6. OneActive'
  BY <1>1, <1>3, Zenon DEF OneActive
<1>7. \A k \in Begun : Newest(k) => k = run.k
  BY <1>1, NewestUnique, Zenon
<1>8. OnTheWay'
  <2>1. \A m \in wire \cup handling : m[1] \in Rotations
    BY Zenon DEF IInv, Typed
  <2> QED BY <2>1, <1>2, <1>3, <1>7, Zenon DEF IInv, OnTheWay
<1>9. Progress'
  BY Zenon DEF Progress
<1>10. \A k \in Begun : Agreed(k)'
  <2>1. \A k \in Begun : k \in Rotations
    BY Zenon DEF Begun
  <2> QED BY <2>1, <1>1, <1>2, <1>3, <1>7, Zenon DEF Agreed
<1>11. Through'
  <2>1. \A k \in Rotations : rot[k].done = 4 \/ rot[k].status = "COMPLETED" => k \in Begun
    <3>1. 4 # 0
      BY Counts, Zenon
    <3> QED BY <3>1, Zenon DEF IInv, InOrder, Begun
  <2> QED BY <2>1, <1>1, <1>10, Zenon DEF Through
<1>12. InMemory'
  BY <1>1, <1>2, Zenon DEF IInv, InMemory
<1>13. IssuerSide'
  BY <1>1, <1>2, <1>3, Zenon DEF IInv, IssuerSide, IssuerKeyKept
<1> QED BY <1>4, <1>5, <1>6, <1>8, <1>9, <1>11, <1>12, <1>13, Zenon DEF IInv

(* runActivate: the transaction commits, or it does not, or it does and the error says it does not. *)
LEMMA ActivateKeyStep ==
    ASSUME IInv, ActivateKey
    PROVE  IInv'
<1>1. UNCHANGED <<zak, rot, phase, wire, handling, issActive, declined, late>> /\ run.pc = "activate" /\ run.pc # "idle"
  BY Zenon DEF ActivateKey, issuerVars, At
<1>2. PICK at \in {"activated", "fail"} : /\ Goto(at)
                                          /\ \/ Activate(run.k) /\ unreloaded' \in {unreloaded, TRUE}
                                             \/ at = "fail" /\ key' = key /\ unreloaded' = unreloaded
  BY Zenon DEF ActivateKey
<1>3. run' \in Run /\ run'.pc = at /\ run'.k = run.k
  BY <1>2, GotoFields, Zenon DEF IInv, RunSteps
<1>20. unreloaded \in BOOLEAN /\ rot' \in [Rotations -> Row]
  BY <1>1, Zenon DEF IInv, Typed
<1>4. CASE Activate(run.k) /\ unreloaded' \in {unreloaded, TRUE}
  BY <1>1, <1>3, <1>4, <1>20, ActivateStep, Zenon
<1>5. CASE at = "fail" /\ key' = key /\ unreloaded' = unreloaded
  <2>1. \A j \in Rotations : (rot'[j].status = "") <=> (rot[j].status = "")
    BY <1>1, Zenon
  <2>2. Begun' = Begun /\ \A k \in Rotations : Newest(k)' <=> Newest(k)
    BY <2>1, SameOrder, Zenon
  <2>3. OnTheWay'
    <3>1. \A m \in wire \cup handling : m[1] \in Rotations
      BY Zenon DEF IInv, Typed
    <3> QED BY <3>1, <1>1, <1>3, <1>5, <2>2, Zenon DEF IInv, OnTheWay
  <2>4. Progress'
    BY <1>3, <1>5, Zenon DEF Progress
  <2>5. InMemory'
    <3>1. ActiveKey' = ActiveKey
      BY <1>5 DEF ActiveKey
    <3> QED BY <3>1, <1>1, <1>3, <1>5, <2>2, Zenon DEF IInv, InMemory
  <2>6. \A k \in Rotations : rot[k].status = "" => rot'[k].done = 0
    BY <1>1, Zenon DEF IInv, InOrder
  <2>7. \A k \in Rotations : rot'[k].done = 4 \/ rot'[k].status = "COMPLETED" => Agreed(k)
    BY <1>1, Zenon DEF IInv, Through
  <2> QED BY <1>1, <1>3, <1>5, <1>20, <2>1, <2>3, <2>4, <2>5, <2>6, <2>7, MovesOn, Zenon
<1> QED BY <1>2, <1>4, <1>5, Zenon

-----------------------------------------------------------------------------
(* A crash, a restart and steps that concern neither key: the databases stay as they are. *)
LEMMA DatabasesStay ==
    ASSUME IInv, UNCHANGED <<key, rot, wire, handling, issActive, declined, late>>,
           run' \in Run, run' = run \/ run'.pc = "idle",
           phase' \in {"down", "recovering", "serving"}, phase' # "serving" => run'.pc = "idle",
           unreloaded' \in BOOLEAN, InMemory'
    PROVE  IInv'
<1>1. Begun' = Begun /\ \A k \in Rotations : Newest(k)' <=> Newest(k)
  BY SameOrder, Zenon
<1>2. \A m \in wire \cup handling : m[1] \in Rotations
  BY Zenon DEF IInv, Typed
<1>3. run.pc # "idle" => run.k \in Rotations
  BY Zenon DEF IInv, InOrder, Begun
<1>4. Typed'
  BY Zenon DEF IInv, Typed
<1>5. InOrder'
  <2>1. \E n \in 0..MaxRotations : Begun' = 1..n
    BY <1>1, Zenon DEF IInv, InOrder
  <2>2. \A k \in Rotations : rot'[k].status = "" => key'[k] = "" /\ rot'[k].done = 0
    BY Zenon DEF IInv, InOrder
  <2>3. run'.pc # "idle" => run' = run /\ run.k \in Begun /\ Newest(run.k)
    BY Zenon DEF IInv, InOrder
  <2> QED BY <2>1, <2>2, <2>3, <1>1, <1>3, Zenon DEF InOrder
<1>6. OneActive'
  BY DEF IInv, OneActive
<1>7. OnTheWay'
  BY <1>1, <1>2, Zenon DEF IInv, OnTheWay
<1>8. Progress'
  BY Zenon DEF IInv, Progress
<1>9. Through'
  <2>1. \A k \in Rotations : Agreed(k)' <=> Agreed(k)
    BY <1>1, Zenon DEF Agreed
  <2> QED BY <2>1, <1>3, Zenon DEF IInv, Through
<1>10. IssuerSide'
  BY <1>1, Zenon DEF IInv, IssuerSide, IssuerKeyKept
<1> QED BY <1>4, <1>5, <1>6, <1>7, <1>8, <1>9, <1>10, Zenon DEF IInv

(* The newest COMPLETED rotation's key is the ACTIVE one. *)
LEMMA CompletedIsActive ==
    ASSUME IInv, NEW k \in Rotations, rot[k].status = "COMPLETED", Newest(k), ~late
    PROVE  ActiveKey = k
<1>1. key[k] = "ACTIVE" /\ k \in Keys
  BY Numbers, Zenon DEF IInv, Through, Agreed
<1> QED BY <1>1, ActiveKeyIs, Zenon DEF IInv

(* The gateway stops. *)
LEMMA CrashStep ==
    ASSUME IInv, Crash
    PROVE  IInv'
<1>1. /\ UNCHANGED <<key, rot, wire, handling, issActive, declined, late, unreloaded>>
      /\ phase' = "down" /\ zak' = None
      /\ run' \in Run /\ run'.pc = "idle"
  BY IdleFields, Zenon DEF Crash, issuerVars
<1>2. InMemory'
  BY <1>1, Zenon DEF InMemory
<1>3. unreloaded' \in BOOLEAN
  BY <1>1, Zenon DEF IInv, Typed
<1> QED BY <1>1, <1>2, <1>3, DatabasesStay, Zenon

(* It starts again and loads the ACTIVE key. *)
LEMMA BootStep ==
    ASSUME IInv, Boot
    PROVE  IInv'
<1>1. /\ UNCHANGED <<key, rot, wire, handling, issActive, declined, late, run>>
      /\ phase = "down" /\ phase' = "recovering" /\ zak' = ActiveKey /\ unreloaded' = FALSE
  BY Zenon DEF Boot, issuerVars
<1>2. run' \in Run /\ run'.pc = "idle"
  BY <1>1, Zenon DEF IInv, Typed, InOrder
<1>3. InMemory'
  <2>1. ActiveKey' = ActiveKey
    BY <1>1 DEF ActiveKey
  <2>2. \A k \in Rotations : rot'[k].status = "COMPLETED" /\ Newest(k)' /\ ~late' => zak' \in {k, None}
    <3>1. \A k \in Rotations : Newest(k)' <=> Newest(k)
      BY <1>1, Zenon DEF Newest
    <3> QED BY <3>1, <1>1, CompletedIsActive, Zenon
  <2> QED BY <2>1, <2>2, <1>1, <1>2, Zenon DEF InMemory
<1> QED BY <1>1, <1>2, <1>3, DatabasesStay, Zenon

(* Every interrupted rotation is settled by how far it got. *)
LEMMA RecoverStep ==
    ASSUME IInv, RecoverInterrupted
    PROVE  IInv'
<1>1. /\ UNCHANGED <<key, zak, wire, handling, issActive, declined, late, unreloaded, run>>
      /\ phase = "recovering" /\ phase' = "serving"
      /\ \E left \in SUBSET Running :
            rot' = [k \in Rotations |-> IF k \in Running \ left THEN RecoverOne(k) ELSE rot[k]]
  BY Zenon DEF RecoverInterrupted, issuerVars
<1>2. run' \in Run /\ run'.pc = "idle" /\ zak = ActiveKey /\ unreloaded' \in BOOLEAN /\ Typed
  BY <1>1, Zenon DEF IInv, Typed, InOrder, InMemory
<1>3. /\ rot' \in [Rotations -> Row]
      /\ \A k \in Rotations : /\ (rot'[k].status = "") <=> (rot[k].status = "")
                              /\ rot'[k].done = rot[k].done
                              /\ rot'[k].status = "COMPLETED" => rot[k].status = "COMPLETED" \/ rot[k].done = 4
  <2>1. PICK left : rot' = [k \in Rotations |-> IF k \in Running \ left THEN RecoverOne(k) ELSE rot[k]]
    BY <1>1, Zenon
  <2>2. ASSUME NEW k \in Rotations
        PROVE  LET q == RecoverOne(k)
               IN  q \in Row /\ q.done = rot[k].done /\ q.status = IF rot[k].done = 4 THEN "COMPLETED" ELSE "FAILED"
    <3>1. rot[k] \in Row
      BY <1>2, Zenon DEF Typed
    <3>2. \A r \in Row : \A st \in Statuses :
              LET q == [r EXCEPT !.status = st] IN q \in Row /\ q.done = r.done /\ q.status = st
      BY DEF Row
    <3>3. (IF rot[k].done = 4 THEN "COMPLETED" ELSE "FAILED") \in Statuses
      BY DEF Statuses
    <3> QED BY <3>1, <3>2, <3>3 DEF RecoverOne
  <2>3. rot \in [Rotations -> Row]
    BY <1>2, Zenon DEF Typed
  <2>4. \A k \in Rotations : rot'[k] = IF k \in Running \ left THEN RecoverOne(k) ELSE rot[k]
    BY <2>1
  <2>5. rot' \in [Rotations -> Row]
    BY <2>1, <2>2, <2>3
  <2> QED BY <2>2, <2>4, <2>5, Zenon DEF Running
<1>4. Begun' = Begun /\ \A k \in Rotations : Newest(k)' <=> Newest(k)
  BY <1>3, SameOrder, Zenon
<1>5. Typed'
  BY <1>1, <1>2, <1>3, Zenon DEF Typed
<1>6. InOrder'
  <2>1. \E n \in 0..MaxRotations : Begun' = 1..n
    BY <1>4, Zenon DEF IInv, InOrder
  <2>2. \A k \in Rotations : rot'[k].status = "" => key'[k] = "" /\ rot'[k].done = 0
    BY <1>1, <1>3, Zenon DEF IInv, InOrder
  <2> QED BY <2>1, <2>2, <1>1, <1>2, Zenon DEF InOrder
<1>7. ActiveKey' = ActiveKey /\ OneActive'
  BY <1>1 DEF ActiveKey, OneActive, IInv
<1>8. OnTheWay'
  <2>1. \A m \in wire \cup handling : m[1] \in Rotations
    BY <1>2, Zenon DEF Typed
  <2> QED BY <2>1, <1>1, <1>2, <1>4, Zenon DEF IInv, OnTheWay
<1>9. Progress'
  BY <1>2, Zenon DEF Progress
<1>10. \A k \in Rotations : rot'[k].done = 4 \/ rot'[k].status = "COMPLETED" => Agreed(k)
  BY <1>3, Zenon DEF IInv, Through
<1>11. Through'
  <2>1. \A k \in Rotations : Agreed(k)' <=> Agreed(k)
    BY <1>1, <1>4 DEF Agreed
  <2> QED BY <2>1, <1>2, <1>10, Zenon DEF Through
<1>12. InMemory'
  <2>1. ASSUME NEW k \in Rotations, Agreed(k), Newest(k), ~late
        PROVE  ActiveKey = k
    <3>1. key[k] = "ACTIVE" /\ k \in Keys
      BY <2>1, Numbers DEF Agreed
    <3> QED BY <3>1, ActiveKeyIs DEF IInv
  <2>2. \A k \in Rotations : rot'[k].status = "COMPLETED" /\ Newest(k)' /\ ~late' => zak' \in {k, None}
    BY <2>1, <1>1, <1>2, <1>4, <1>10, Zenon
  <2> QED BY <2>2, <1>1, <1>2, Zenon DEF InMemory
<1>13. IssuerSide'
  BY <1>1, <1>4 DEF IInv, IssuerSide, IssuerKeyKept
<1> QED BY <1>5, <1>6, <1>7, <1>8, <1>9, <1>11, <1>12, <1>13 DEF IInv

-----------------------------------------------------------------------------
(* The initial states satisfy the invariant. *)
LEMMA InductiveInit == Init => IInv
<1> SUFFICES ASSUME Init PROVE IInv
  OBVIOUS
<1>1. /\ \A k \in Rotations : rot[k].status = "" /\ rot[k].done = 0 /\ k # 0
      /\ \A k \in Keys : key[k] = "ACTIVE" <=> k = 0
      /\ \A k \in Rotations : key[k] = ""
  BY Numbers, Zenon DEF Init
<1>2. Typed
  <2>1. rot \in [Rotations -> Row]
    <3>1. [status |-> "", done |-> 0] \in Row
      BY DEF Row, Statuses
    <3> QED BY <3>1, Zenon DEF Init
  <2>2. key \in [Keys -> {"", "PENDING", "ACTIVE", "RETIRED"}]
    BY Zenon DEF Init
  <2>3. run \in Run
    BY IdleFields, Zenon DEF Init
  <2>4. declined \subseteq Rotations
    BY RotationAssumption, Zenon DEF Init, Rotations
  <2> QED BY <2>1, <2>2, <2>3, <2>4, Numbers, Zenon DEF Init, Typed
<1>3. run.pc = "idle" /\ issActive = 0 /\ 0 \notin declined /\ wire = {} /\ handling = {} /\ phase = "serving"
  BY <1>1, <1>2, IdleFields, Zenon DEF Init, Typed
<1>4. InOrder
  <2>1. Begun = {}
    BY <1>1, Zenon DEF Begun
  <2>2. 1..0 = {} /\ 0 \in 0..MaxRotations
    BY Numbers
  <2> QED BY <2>1, <2>2, <1>1, <1>3, Zenon DEF InOrder
<1>5. OneActive
  BY <1>1, Numbers, Zenon DEF OneActive
<1>6. OnTheWay /\ Progress
  BY <1>3, Zenon DEF OnTheWay, Progress
<1>7. Through /\ InMemory
  <2>1. \A k \in Rotations : rot[k].done # 4 /\ rot[k].status # "COMPLETED"
    <3>1. 0 # 4
      OBVIOUS
    <3> QED BY <3>1, <1>1, Zenon
  <2> QED BY <2>1, <1>3, Zenon DEF Through, InMemory
<1>8. IssuerSide
  BY <1>1, <1>3, Numbers, Zenon DEF IssuerSide, IssuerKeyKept
<1> QED BY <1>2, <1>4, <1>5, <1>6, <1>7, <1>8 DEF IInv

(* The steps of the runner's goroutine. *)
LEMMA RunnerSteps ==
    ASSUME IInv, RunnerStep
    PROVE  IInv'
<1>0. {"generated", "send", "retire", "sent", "confirm", "fail", "activate"} \subseteq RunSteps
  BY DEF RunSteps
<1>1. CASE Generate
  BY <1>1, GenerateStep
<1>2. CASE Generated
  <2>1. 1 \in 0..4 /\ 1 # 4
    OBVIOUS
  <2>2. run.rc = ""
    BY <1>2, Zenon DEF Generated, CompleteStep, At, IInv, Progress
  <2> QED BY <1>2, <1>0, <2>1, <2>2, StepDone, Zenon DEF Generated
<1>3. CASE SendAttempt
  BY <1>3, SendStep
<1>4. CASE Answer
  BY <1>4, AnswerStep
<1>5. CASE Sent
  <2>1. 2 \in 0..4 /\ 2 # 4
    OBVIOUS
  <2> QED BY <1>5, <1>0, <2>1, StepDone, Zenon DEF Sent
<1>6. CASE Confirm
  <2>1. CASE run.rc = "00"
    <3>1. 3 \in 0..4 /\ 3 # 4
      OBVIOUS
    <3> QED BY <1>6, <1>0, <2>1, <3>1, StepDone, Zenon DEF Confirm
  <2>2. CASE run.rc # "00"
    BY <1>6, <2>2, DeclineStep, Zenon DEF Confirm, issuerVars, historyVars
  <2> QED BY <2>1, <2>2
<1>7. CASE ActivateKey
  BY <1>7, ActivateKeyStep
<1>8. CASE Activated
  BY <1>8, ActivatedStep
<1>9. CASE ReloadActive
  BY <1>9, ReloadStep
<1>10. CASE Complete
  BY <1>10, CompletedStep
<1>11. CASE FailStep
  BY <1>11, FailedStep
<1> QED BY <1>1, <1>2, <1>3, <1>4, <1>5, <1>6, <1>7, <1>8, <1>9, <1>10, <1>11 DEF RunnerStep

(* Responses, the end of the dual-key window, and stuttering. *)
LEMMA OtherSteps ==
    ASSUME IInv, UNCHANGED <<key, zak, rot, phase, run, wire, handling, issActive, declined, late, unreloaded>>
    PROVE  IInv'
<1>1. run' \in Run /\ late' \in BOOLEAN /\ \A q \in handling' : q[1] \notin declined
  BY Zenon DEF IInv, Typed, OnTheWay
<1> QED BY <1>1, IssuerStep, Zenon

(* Every step preserves the invariant. *)
LEMMA InductiveStep == IInv /\ [Next]_vars => IInv'
<1> SUFFICES ASSUME IInv, [Next]_vars PROVE IInv'
  OBVIOUS
<1>1. CASE RunnerStep
  BY <1>1, RunnerSteps
<1>2. CASE Crash \/ Boot \/ RecoverInterrupted
  BY <1>2, CrashStep, BootStep, RecoverStep
<1>3. CASE \E k \in Rotations : Start(k)
  BY <1>3, StartStep
<1>4. CASE \E m \in wire : ReceiveKeyChange(m)
  BY <1>4, ReceiveStep
<1>5. CASE \E m \in handling : IssuerActivates(m)
  BY <1>5, IssuerActivatesStep
<1>6. CASE \E m \in wire \cup handling : Lose(m)
  BY <1>6, LoseStep
<1>7. CASE IssuerMACs \/ ResponseDone \/ WindowPasses
  BY <1>7, OtherSteps, Zenon DEF IssuerMACs, ResponseDone, WindowPasses, gatewayVars, issuerVars, historyVars
<1>8. CASE UNCHANGED vars
  BY <1>8, OtherSteps, Zenon DEF vars, gatewayVars, issuerVars, historyVars
<1> QED BY <1>1, <1>2, <1>3, <1>4, <1>5, <1>6, <1>7, <1>8, Zenon DEF Next

(* The invariant holds of every behaviour. *)
THEOREM Inductive == Spec => []IInv
BY InductiveInit, InductiveStep, PTL DEF Spec

(* The key the issuer uses is never retired at the gateway: neither an unknown outcome, nor an
   error after the 00, nor a crash retires it (failStep, recoverOne, Activate). *)
THEOREM UsedKeyKept == Spec => []IssuerKeyKept
<1>1. IInv => IssuerKeyKept
  BY DEF IInv, IssuerSide
<1> QED BY <1>1, Inductive, PTL

(* Both hosts use the key of the newest COMPLETED rotation, on disk and, once reloaded, in memory
   (execute, onActivate, recoverOne). *)
THEOREM SharedWhenCompleted == Spec => []CompletedIsShared
<1>1. IInv => CompletedIsShared
  BY Zenon DEF IInv, Through, InMemory, Agreed, Newest, CompletedIsShared
<1> QED BY <1>1, Inductive, PTL

-----------------------------------------------------------------------------
(* A key with an activated_at has been ACTIVE, and the ACTIVE one has it. *)
UsedKeys ==
    /\ used \subseteq Keys
    /\ \A k \in used : key[k] \in {"ACTIVE", "RETIRED"}
    /\ \A k \in Keys : key[k] = "ACTIVE" => k \in used

(* The key of a response on its way, when it was ever activated, is the ACTIVE one, or the one
   retired by the only activation since. *)
InFlight ==
    /\ flight \in {NoFlight} \cup [key : Keys, activations : Nat]
    /\ flight # NoFlight /\ flight.activations < 2 /\ flight.key \in used /\ ~late =>
          \/ key[flight.key] = "ACTIVE"
          \/ flight.activations = 1 /\ recent = flight.key

(* Steps that activate nothing and put nothing in flight: an unused key may be generated or retired. *)
LEMMA NothingActivated ==
    ASSUME UsedKeys, InFlight, UNCHANGED <<used, recent>>, flight' \in {flight, NoFlight}, ~late' => ~late,
           \A k \in Keys : key'[k] = key[k] \/ (k \notin used /\ key'[k] # "ACTIVE")
    PROVE  UsedKeys' /\ InFlight'
<1>1. UsedKeys'
  BY Zenon DEF UsedKeys
<1>2. InFlight'
  BY Zenon DEF InFlight, UsedKeys
<1> QED BY <1>1, <1>2, Zenon

(* Activate: the key that was ACTIVE is the one retired last. *)
LEMMA ActivationStep ==
    ASSUME IInv, UsedKeys, InFlight, NEW k \in Keys, Activate(k), UNCHANGED late
    PROVE  UsedKeys' /\ InFlight'
<1>1. /\ \A j \in Keys : key'[j] = IF j = k THEN "ACTIVE"
                                   ELSE IF key[j] \in {"ACTIVE", "PENDING"} THEN "RETIRED" ELSE key[j]
      /\ recent' = ActiveKey /\ used' = used \cup {k}
      /\ key \in [Keys -> {"", "PENDING", "ACTIVE", "RETIRED"}]
  BY Zenon DEF Activate, IInv, Typed
<1>2. UsedKeys'
  BY <1>1, Zenon DEF UsedKeys
<1>3. flight' = [flight EXCEPT !.activations = IF flight.key = None THEN 0 ELSE @ + 1]
  BY DEF Activate
<1>4. CASE flight = NoFlight
  <2>1. flight' = NoFlight
    BY <1>3, <1>4 DEF NoFlight
  <2> QED BY <1>2, <2>1, Zenon DEF InFlight
<1>5. CASE flight # NoFlight
  <2>1. flight.key \in Keys /\ flight.activations \in Nat /\ flight.key # None
    BY <1>5, Numbers, RotationAssumption, Zenon DEF InFlight
  <2>0. flight' = [flight EXCEPT !.activations = flight.activations + 1]
    BY <1>3, <2>1
  <2>2. flight'.key = flight.key /\ flight'.activations = flight.activations + 1
    <3>1. flight \in [key : Keys, activations : Nat]
      BY <1>5, Zenon DEF InFlight
    <3> QED BY <2>0, <3>1
  <2>3. ASSUME flight'.activations < 2, flight.key \in used, ~late, flight.key # k PROVE recent' = flight.key
    <3>1. flight.activations = 0
      BY <2>1, <2>2, <2>3, Counts, Zenon
    <3>2. key[flight.key] = "ACTIVE"
      BY <1>5, <2>3, <3>1, Counts, Zenon DEF InFlight
    <3> QED BY <1>1, <2>1, <3>2, ActiveKeyIs, Zenon DEF IInv
  <2>4. flight'.activations < 2 /\ flight.activations \in Nat => flight'.activations = 1
    BY <2>1, <2>2, Counts, Zenon
  <2>5. flight' \in [key : Keys, activations : Nat]
    BY <1>5, <2>0, <2>1 DEF InFlight
  <2> QED BY <1>1, <1>2, <2>1, <2>2, <2>3, <2>4, <2>5, Zenon DEF InFlight
<1> QED BY <1>4, <1>5

(* Only Activate, WindowPasses and the issuer's next response change the keys used or what is in flight. *)
LEMMA FlightStep == IInv /\ UsedKeys /\ InFlight /\ [Next]_vars => (UsedKeys /\ InFlight)'
<1> SUFFICES ASSUME IInv, UsedKeys, InFlight, [Next]_vars PROVE (UsedKeys /\ InFlight)'
  OBVIOUS
<1> USE DEF gatewayVars, issuerVars, historyVars
<1>1. CASE Generate
  <2>1. run.k \in Keys /\ run.k \notin used /\ key \in [Keys -> {"", "PENDING", "ACTIVE", "RETIRED"}]
    BY <1>1, Zenon DEF Generate, At, IInv, Typed, Run, Progress, UsedKeys
  <2> QED BY <1>1, <2>1, NothingActivated, Zenon DEF Generate
<1>2. CASE Generated \/ Sent \/ Activated
  <2>1. UNCHANGED <<key, used, recent, flight, late>>
    BY <1>2, Zenon DEF Generated, Sent, Activated, CompleteStep
  <2> QED BY <2>1, NothingActivated, Zenon
<1>3. CASE SendAttempt \/ Answer \/ Complete \/ ReloadActive
  <2>1. UNCHANGED <<key, used, recent, flight, late>>
    BY <1>3, Zenon DEF SendAttempt, Answer, Complete, ReloadActive
  <2> QED BY <2>1, NothingActivated, Zenon
<1>4. CASE Confirm
  <2>1. UNCHANGED <<key, used, recent, flight, late>>
    BY <1>4, Zenon DEF Confirm, CompleteStep
  <2> QED BY <2>1, NothingActivated, Zenon
<1>5. CASE ActivateKey
  <2>1. run.k \in Keys
    BY Zenon DEF IInv, Typed, Run
  <2>2. CASE Activate(run.k)
    BY <1>5, <2>1, <2>2, ActivationStep, Zenon DEF ActivateKey
  <2>3. CASE UNCHANGED <<key, used, recent, flight>>
    BY <1>5, <2>3, NothingActivated, Zenon DEF ActivateKey
  <2> QED BY <1>5, <2>2, <2>3, Zenon DEF ActivateKey
<1>6. CASE FailStep
  <2>1. CASE RetirePending(run.k)
    <3>1. \A k \in Keys : key'[k] = key[k] \/ (k \notin used /\ key'[k] # "ACTIVE")
      BY <2>1, Zenon DEF RetirePending, UsedKeys, IInv, Typed
    <3>2. UNCHANGED <<used, recent, flight, late>>
      BY <1>6, Zenon DEF FailStep
    <3> QED BY <3>1, <3>2, NothingActivated, Zenon
  <2>2. CASE UNCHANGED key
    <3>1. UNCHANGED <<used, recent, flight, late>>
      BY <1>6, Zenon DEF FailStep
    <3> QED BY <2>2, <3>1, NothingActivated, Zenon
  <2> QED BY <1>6, <2>1, <2>2, Zenon DEF FailStep
<1>7. CASE Crash \/ Boot \/ RecoverInterrupted \/ ResponseDone
  <2>1. UNCHANGED <<key, used, recent, late>> /\ flight' \in {flight, NoFlight}
    BY <1>7, Zenon DEF Crash, Boot, RecoverInterrupted, ResponseDone, gatewayVars, historyVars
  <2> QED BY <2>1, NothingActivated, Zenon
<1>8. CASE \E k \in Rotations : Start(k)
  <2>1. UNCHANGED <<key, used, recent, flight, late>>
    BY <1>8, Zenon DEF Start
  <2> QED BY <2>1, NothingActivated, Zenon
<1>9. CASE \E m \in wire : ReceiveKeyChange(m)
  <2>1. UNCHANGED <<key, used, recent, flight, late>>
    BY <1>9, Zenon DEF ReceiveKeyChange, historyVars
  <2> QED BY <2>1, NothingActivated, Zenon
<1>10. CASE \E m \in handling : IssuerActivates(m)
  <2>1. PICK m \in handling : IssuerActivates(m)
    BY <1>10
  <2>2. UNCHANGED <<key, used, recent, flight>>
    BY <2>1, Zenon DEF IssuerActivates
  <2>3. ~late' => ~late
    <3>1. CASE IssuerActivate(m[1])
      BY <3>1, Zenon DEF IssuerActivate
    <3>2. CASE UNCHANGED late
      BY <3>2
    <3> QED BY <2>1, <3>1, <3>2, Zenon DEF IssuerActivates
  <2> QED BY <2>2, <2>3, NothingActivated, Zenon
<1>11. CASE \E m \in wire \cup handling : Lose(m)
  <2>1. UNCHANGED <<key, used, recent, flight, late>>
    BY <1>11, Zenon DEF Lose
  <2> QED BY <2>1, NothingActivated, Zenon
<1>12. CASE IssuerMACs
  <2>1. issActive \in Keys /\ 0 \in Nat /\ (~late => key[issActive] \in {"PENDING", "ACTIVE"})
    BY Zenon DEF IInv, Typed, IssuerSide, IssuerKeyKept
  <2>2. UNCHANGED <<key, used, recent, late>> /\ flight' = [key |-> issActive, activations |-> 0]
    BY <1>12, Zenon DEF IssuerMACs
  <2>3. UsedKeys'
    BY <2>2, Zenon DEF UsedKeys
  <2>4. InFlight'
    BY <2>1, <2>2, <2>3, Zenon DEF InFlight, UsedKeys
  <2> QED BY <2>3, <2>4
<1>13. CASE WindowPasses
  <2>1. UsedKeys' /\ (late' <=> late) /\ UNCHANGED <<used, key>>
    BY <1>13, Zenon DEF WindowPasses, UsedKeys
  <2>2. flight' = NoFlight \/ (flight' = flight /\ (flight # NoFlight => flight.activations # 1))
    BY <1>13 DEF WindowPasses
  <2> QED BY <2>1, <2>2, Zenon DEF InFlight
<1>14. CASE UNCHANGED vars
  BY <1>14, NothingActivated, Zenon DEF vars
<1> QED
  BY <1>1, <1>2, <1>3, <1>4, <1>5, <1>6, <1>7, <1>8, <1>9, <1>10, <1>11, <1>12, <1>13, <1>14, Zenon DEF Next, RunnerStep

(* The only key PENDING is the newest one. *)
LEMMA OnlyPending ==
    ASSUME \A i, j \in Pending : i = j, NEW k \in Pending
    PROVE  k \in FindPending
<1>1. Pending = {k} /\ k \in Int
  BY RotationAssumption DEF Pending, Keys
<1>2. Max(Pending) = k
  BY <1>1 DEF Max
<1> QED BY <1>1, <1>2 DEF FindPending

(* A response MACed by the issuer verifies, at every step of a rotation and after every failure of
   one, outside of the cases the property names.  Verify, FallbackKeys, Activate, failStep. *)
THEOREM ResponsesVerify == Spec => []ResponseVerifies
<1>1. Init => UsedKeys /\ InFlight
  BY Numbers, Zenon DEF Init, UsedKeys, InFlight
<1>2. IInv /\ UsedKeys /\ InFlight => ResponseVerifies
  <2> SUFFICES ASSUME IInv, UsedKeys, InFlight, flight # NoFlight, zak = ActiveKey, \A j, k \in Pending : j = k,
                      flight.activations < 2, ~late, flight.key \in used \cup Pending
               PROVE  flight.key \in Tried
    BY DEF ResponseVerifies
  <2>1. flight.key \in Keys /\ flight.key # None
    BY Numbers, RotationAssumption, Zenon DEF InFlight
  <2>2. CASE flight.key \in Pending
    BY <2>1, <2>2, OnlyPending DEF Tried
  <2>3. CASE flight.key \in used
    BY <2>1, <2>3, ActiveKeyIs, Zenon DEF Tried, InFlight, IInv
  <2> QED BY <2>2, <2>3
<1> QED BY <1>1, <1>2, Inductive, FlightStep, PTL DEF Spec
=============================================================================
