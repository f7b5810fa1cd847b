------------------------- MODULE CardNetworkProofs -------------------------
(***************************************************************************)
(* That gateway and issuer together implement Purchase, for any number of  *)
(* purchases, cancellations, sessions, attempts and crashes, as long as no *)
(* reply to a COMMIT is lost and the chaos duplicate is off (Reliable).    *)
(*                                                                         *)
(* The inductive invariants of the two sides and what their steps do to    *)
(* the link are taken from their own proofs.  What joins them is what the  *)
(* journal holds before a 0200 leaves and after its answer is heard        *)
(* (SentOK), and that only a row that is being reversed has its reversal   *)
(* anywhere on the issuer's side (AheadInv).                               *)
(***************************************************************************)
EXTENDS CardNetwork, TLAPS

GP == INSTANCE GatewayProofs WITH Faults <- GatewayFaults, IssuerCodes <- {}
IP == INSTANCE IssuerProofs WITH Originals <- Txns, Arrivals <- {}, Faults <- IssuerFaults

(* A COMMIT's reply is never lost, and a purchase is written to the link once. *)
Reliable == Duplicates = FALSE /\ "commit" \notin IssuerFaults

(* Before its 0200 leaves and once its answer was heard, no copy of it is on the issuer's side; the
   journal then holds nothing, and what the answer says. *)
SentOK(t) ==
    /\ t \notin left => heard[t] = "" /\ IP!Fresh(t) /\ IP!Nowhere(t)
    /\ heard[t] # "" => posted[t] = IP!Journals(heard[t]) /\ IP!Nowhere(t)

CopyInv == IP!CopyInv /\ \A t \in Txns : SentOK(t)

(* A reversal of t is on its way, at work or done only if its row is being reversed, and once the row
   is REVERSED the issuer has settled t, unless it recorded a reversal without original. *)
AheadOK(t) ==
    /\ \A m \in inbox : m.mti = "0420" /\ m.orig = t => GP!Reversing(t)
    /\ \A v \in RevSessions : rev[v].pc # "idle" /\ rev[v].msg.orig = t => GP!Reversing(t)
    /\ t \in rwo \/ log[t].status = "REVERSED" => GP!Reversing(t)
    /\ state[t] = "REVERSED" /\ t \notin rwo => IP!Settled(t)

AheadInv == \A t \in Txns : AheadOK(t)

Sides == IP!IInv /\ GP!IInv /\ GP!HeardInv /\ GP!DeclineInv
NetInv == Sides /\ CopyInv /\ AheadInv

-----------------------------------------------------------------------------
(* The assumptions of the two sides' proofs. *)
LEMMA SidesAssumed == IP!IssuerAssumption /\ GP!GatewayAssumption
<1>1. IP!IssuerAssumption
  BY NetworkAssumption, Zenon DEF IP!IssuerAssumption, I!IssuerAssumption, IP!IsFiniteSet, I!IsFiniteSet, IP!FaultKinds, I!FaultKinds
<1>2. GP!GatewayAssumption
  BY NetworkAssumption, Zenon DEF GP!GatewayAssumption, G!GatewayAssumption, GP!Codes, G!Codes
<1> QED
  BY <1>1, <1>2, Zenon

(* The steps of the issuer are those of its proofs. *)
LEMMA SameIssuer == I!Next => IP!Next
BY Zenon DEF I!CheckReversed, I!Deduplicate, I!CheckCard, I!LogReceived, I!VerifyEmv, I!VerifySecurity, I!CheckLimits,
       I!CheckDailyAmount, I!ReadFails, I!NoFunds, I!Moves, I!Post, I!GotoWith, I!Authorize, I!Goto, I!Finish,
       I!Respond, I!SessionStep, I!Accept, I!Locate, I!Abandonable, I!Effect, I!Floored, I!Undo, I!RevWritten,
       I!Reversible, I!RevGoto, I!Reverse, I!RespondReversal, I!RevStep, I!Answer, I!AcceptReversal,
       I!GrowStale, I!NoRC, I!Idle, I!NoMsg, I!RevIdle, I!dbVars, I!Crash, I!Next, IP!CheckReversed,
       IP!Deduplicate, IP!CheckCard, IP!LogReceived, IP!VerifyEmv, IP!VerifySecurity, IP!CheckLimits,
       IP!CheckDailyAmount, IP!ReadFails, IP!NoFunds, IP!Moves, IP!Post, IP!GotoWith, IP!Authorize, IP!Goto,
       IP!Finish, IP!Respond, IP!SessionStep, IP!Accept, IP!Locate, IP!Abandonable, IP!Effect, IP!Floored,
       IP!Undo, IP!RevWritten, IP!Reversible, IP!RevGoto, IP!Reverse, IP!RespondReversal, IP!RevStep, IP!Answer,
       IP!AcceptReversal, IP!GrowStale, IP!NoRC, IP!Idle, IP!NoMsg, IP!RevIdle, IP!dbVars, IP!Crash, IP!Next

(* The steps of the gateway are those of its proofs. *)
LEMMA SameGateway == G!GatewayNext => GP!GatewayNext
BY Zenon DEF G!Create, G!MarkSent, G!SendDuplicate, G!DuplicateDone, G!Send, G!TimeOut, G!NeedsReversal, G!FinalizeFrom,
       G!RecordStatus, G!Goto, G!QueueReversal, G!ResponseCodeOf, G!Answered, G!Receive, G!RequestStep,
       G!GrowOld, G!RetryDue, G!CancelQueue, G!CancelRead, G!Orphan, G!SweepOnce, G!Queue, G!QueueFails,
       G!FollowUp, G!SweeperStep, G!Due, G!ClaimDue, G!Message, G!SendAdvice, G!AdviceTimeOut, G!Assign,
       G!MarkAcked, G!WaitForLink, G!MarkDead, G!RetryLater, G!Settle, G!WorkerStep, G!LateResponse,
       G!workerVars, G!LinkChanges, G!At, G!Request, G!Started, G!linkVars, G!safVars, G!historyVars, G!Crash,
       G!GatewayNext, GP!Create, GP!MarkSent, GP!SendDuplicate, GP!DuplicateDone, GP!Send, GP!TimeOut,
       GP!NeedsReversal, GP!FinalizeFrom, GP!RecordStatus, GP!Goto, GP!QueueReversal, GP!ResponseCodeOf,
       GP!Answered, GP!Receive, GP!RequestStep, GP!GrowOld, GP!RetryDue, GP!CancelQueue, GP!CancelRead,
       GP!Orphan, GP!SweepOnce, GP!Queue, GP!QueueFails, GP!FollowUp, GP!SweeperStep, GP!Due, GP!ClaimDue,
       GP!Message, GP!SendAdvice, GP!AdviceTimeOut, GP!Assign, GP!MarkAcked, GP!WaitForLink, GP!MarkDead,
       GP!RetryLater, GP!Settle, GP!WorkerStep, GP!LateResponse, GP!workerVars, GP!LinkChanges, GP!At,
       GP!Request, GP!Started, GP!linkVars, GP!safVars, GP!historyVars, GP!Crash, GP!GatewayNext

(* So are their initial states. *)
LEMMA SameStart == (I!Init => IP!Init) /\ (G!Init => GP!Init)
<1>1. I!Init => IP!Init
  BY Zenon DEF I!Init, IP!Init, I!Idle, IP!Idle, I!RevIdle, IP!RevIdle, I!NoMsg, IP!NoMsg, I!NoRC, IP!NoRC
<1>2. G!Init => GP!Init
  BY Zenon DEF G!Init, GP!Init, G!NoAdvice, GP!NoAdvice, G!Started, GP!Started, G!Request, GP!Request
<1> QED
  BY <1>1, <1>2, Zenon

(* And what the tables say of the money. *)
LEMMA SameMoney == \A t : I!Money(t) = IP!Money(t) /\ I!Money(t)' = IP!Money(t)'
BY Zenon DEF I!Money, IP!Money

-----------------------------------------------------------------------------
(* What a step of the gateway does to the link. *)
LEMMA LinkSteps ==
    ASSUME Reliable, Sides, GP!GatewayNext
    PROVE  GP!Quiet \/ \E t \in Txns : GP!Writes(t) \/ \E a \in outbox : GP!Hears(t, a)
BY SidesAssumed, GP!LinkSteps, Zenon DEF Sides, Reliable

(* What a step of the issuer does to the copies, the reversals and the money. *)
LEMMA IssuerSteps ==
    ASSUME Sides, IP!Next
    PROVE  /\ IP!ReversalsFollow
           /\ Reliable /\ CopyInv => IP!CopyInv' /\ \A t \in Txns : IP!CopyKept(t)
<1>1. IP!ReversalsFollow
  BY SidesAssumed, IP!ReversalSteps, Zenon DEF Sides
<1>2. ASSUME Reliable, CopyInv PROVE IP!CopyInv' /\ \A t \in Txns : IP!CopyKept(t)
  <2>1. IP!OneReply
    BY <1>2, NetworkAssumption, Zenon DEF IP!OneReply, Reliable
  <2> QED
    BY <1>2, <2>1, SidesAssumed, IP!CopyStep, Zenon DEF Sides, CopyInv
<1> QED
  BY <1>1, <1>2, Zenon

(* A step of the gateway preserves what both sides proved of themselves. *)
LEMMA SidesGateway ==
    ASSUME Reliable, Sides, GP!GatewayNext, UNCHANGED issuerVars
    PROVE  Sides'
<1>1. GP!Next /\ IP!IInv /\ GP!IInv /\ GP!HeardInv /\ GP!DeclineInv
  BY Zenon DEF GP!Next, Sides
<1>2. GP!IInv' /\ GP!HeardInv' /\ GP!DeclineInv'
  BY <1>1, SidesAssumed, GP!InductiveStep, GP!HeardStep, GP!DeclineStep, GP!PartsOfInvariant, Zenon
<1>3. UNCHANGED <<log, stale, rwo, posted, undone, balance, count, spent, lastAtc, sess, rev>> /\ outbox' \subseteq outbox
  BY LinkSteps, Zenon DEF issuerVars, GP!Quiet, GP!Writes, GP!Hears
<1>4. inbox' \subseteq IP!Messages
  <2>1. \A m \in inbox' : \E mti \in {"0200", "0420"}, t \in Txns : m = GP!Message(mti, t)
    BY <1>2, Zenon DEF GP!IInv, GP!TypeOK
  <2>2. \A mti \in {"0200", "0420"}, t \in Txns : GP!Message(mti, t) \in IP!Messages
    BY Zenon DEF GP!Message, IP!Messages
  <2> QED
    BY <2>1, <2>2, Zenon
<1>5. IP!TypeOK'
  BY <1>1, <1>3, <1>4, Zenon DEF IP!IInv, IP!TypeOK
<1>6. IP!IInv'
  BY <1>1, <1>3, <1>5, SidesAssumed, IP!RowsUntouched, IP!Preserved, Zenon
<1> QED
  BY <1>2, <1>6, Zenon DEF Sides

(* So does a step of the issuer. *)
LEMMA SidesIssuer ==
    ASSUME Sides, IP!Next, UNCHANGED gatewayVars
    PROVE  Sides'
<1>1. IP!IInv' /\ IP!TypeOK'
  BY SidesAssumed, IP!InductiveStep, Zenon DEF Sides, IP!IInv
<1>2. inbox' \subseteq inbox
  BY IssuerSteps, Zenon DEF IP!ReversalsFollow
<1>3. /\ up' = up /\ state' = state /\ code' = code /\ old' = old /\ req' = req /\ queued' = queued /\ adv' = adv
      /\ cancel' = cancel /\ orphans' = orphans /\ claimed' = claimed /\ sending' = sending /\ waiting' = waiting
      /\ crashes' = crashes /\ left' = left /\ heard' = heard
  BY Zenon DEF gatewayVars
<1>4. \A a \in outbox' : a.mti \in {"0210", "0430"} /\ a.orig \in Txns /\ a.rc \in GP!Codes /\ a.signed \in BOOLEAN
  BY <1>1, Zenon DEF IP!TypeOK, IP!Answers, IP!Codes, IP!NoRC, GP!Codes
<1>5. GP!TypeOK'
  BY <1>2, <1>3, <1>4, Zenon DEF Sides, GP!IInv, GP!TypeOK
<1>6. GP!WorkerInv' /\ GP!RequestInv' /\ GP!OneReversal'
  BY <1>3 DEF Sides, GP!IInv, GP!WorkerInv, GP!RequestInv, GP!RequestOK, GP!OneReversal
<1>7. GP!HeardInv' /\ GP!DeclineInv'
  BY <1>3, Zenon DEF Sides, GP!HeardInv, GP!HeardOK, GP!DeclineInv, GP!DeclineOK
<1> QED
  BY <1>1, <1>5, <1>6, <1>7, Zenon DEF Sides, GP!IInv

-----------------------------------------------------------------------------
(* Every step of the gateway keeps the copies in one place. *)
LEMMA CopyGateway ==
    ASSUME Reliable, Sides, CopyInv, GP!GatewayNext, UNCHANGED issuerVars
    PROVE  CopyInv'
<1>1. UNCHANGED <<posted, log, sess>> /\ heard \in [Txns -> GP!Codes] /\ IP!CopyInv /\ \A t \in Txns : SentOK(t)
  BY Zenon DEF issuerVars, Sides, GP!IInv, GP!TypeOK, CopyInv
<1>2. CASE GP!Quiet
  <2>1. IP!CopyInv' /\ \A t \in Txns : IP!CopyKept(t)
    BY <1>1, <1>2, SidesAssumed, IP!CopyQuiet, Zenon DEF GP!Quiet
  <2> QED
    BY <1>1, <1>2, <2>1, Zenon DEF GP!Quiet, CopyInv, SentOK, IP!CopyKept
<1>3. ASSUME NEW t \in Txns, GP!Writes(t) PROVE CopyInv'
  <2>1. IP!Asks(GP!Message("0200", t), t)
    BY Zenon DEF IP!Asks, GP!Message
  <2>2. IP!CopyInv' /\ \A u \in Txns \ {t} : IP!CopyKept(u)
    BY <1>1, <1>3, <2>1, SidesAssumed, IP!CopySent, Zenon DEF GP!Writes, SentOK
  <2> QED
    BY <1>1, <1>3, <2>2, Zenon DEF GP!Writes, CopyInv, SentOK, IP!CopyKept
<1>4. ASSUME NEW t \in Txns, NEW a \in outbox, GP!Hears(t, a) PROVE CopyInv'
  <2>1. IP!CopyInv' /\ (\A u \in Txns : IP!CopyKept(u)) /\ posted[t] = IP!Journals(a.rc) /\ ~IP!Nowhere(t) /\ IP!Nowhere(t)'
    BY <1>1, <1>4, SidesAssumed, IP!CopyHeard, Zenon DEF GP!Hears, IP!Replies
  <2>2. GP!ResponseCodeOf(a) # "" /\ IP!Journals(GP!ResponseCodeOf(a)) = IP!Journals(a.rc)
    BY Zenon DEF GP!ResponseCodeOf, IP!Journals
  <2> QED
    BY <1>1, <1>4, <2>1, <2>2, Zenon DEF GP!Hears, CopyInv, SentOK, IP!CopyKept
<1> QED
  BY <1>2, <1>3, <1>4, LinkSteps, Zenon

(* So does every step of the issuer. *)
LEMMA CopyIssuer ==
    ASSUME Reliable, Sides, CopyInv, IP!Next, UNCHANGED gatewayVars
    PROVE  CopyInv'
<1>1. UNCHANGED <<left, heard>>
  BY Zenon DEF gatewayVars
<1> QED
  BY <1>1, IssuerSteps, Zenon DEF CopyInv, SentOK, IP!CopyKept

-----------------------------------------------------------------------------
(* How a step of the gateway changes the rows. *)
LEMMA RowsMove ==
    ASSUME Sides, GP!GatewayNext
    PROVE  UNCHANGED <<state, code>> \/ \E t \in Txns : GP!RowStep(t)
<1>1. GP!Next /\ GP!Parts /\ GP!DeclineInv
  BY SidesAssumed, GP!PartsOfInvariant, Zenon DEF GP!Next, Sides
<1> QED
  BY <1>1, SidesAssumed, GP!RowSteps, Zenon

(* Every step of the gateway keeps reversals behind the rows they reverse. *)
LEMMA AheadGateway ==
    ASSUME Reliable, Sides, AheadInv, GP!GatewayNext, UNCHANGED issuerVars
    PROVE  AheadInv'
<1>1. log' = log /\ rwo' = rwo /\ rev' = rev
  BY Zenon DEF issuerVars
<1>2. state \in [Txns -> GP!States] /\ \A m \in inbox : m.mti = "0420" => m.orig \in Txns
  BY DEF Sides, GP!IInv, GP!TypeOK, GP!Message
<1>3. \A u \in Txns : GP!Reversing(u) => GP!Reversing(u)'
  BY RowsMove, Zenon DEF GP!RowStep, GP!Successors, GP!Reversing
<1>4. \A u \in Txns : state'[u] = "REVERSED" /\ u \notin rwo => state[u] = "REVERSED" \/ IP!Settled(u)
  BY RowsMove, Zenon DEF GP!RowStep, Sides, IP!IInv, IP!RevInv, IP!AcknowledgedIsSettled, IP!Settled
<1>5. ASSUME NEW t \in Txns PROVE AheadOK(t)'
  <2>1. AheadOK(t)
    BY Zenon DEF AheadInv
  <2>2. \A m \in inbox' : m.mti = "0420" /\ m.orig = t => GP!Reversing(t)'
    BY <1>3, <2>1, LinkSteps, SMTT(40) DEF AheadOK, GP!Quiet, GP!Writes, GP!Hears, GP!Message
  <2>3. \A v \in RevSessions : rev'[v].pc # "idle" /\ rev'[v].msg.orig = t => GP!Reversing(t)'
    BY <1>1, <1>3, <2>1, Zenon DEF AheadOK
  <2>4. t \in rwo' \/ log'[t].status = "REVERSED" => GP!Reversing(t)'
    BY <1>1, <1>3, <2>1, Zenon DEF AheadOK
  <2>5. state'[t] = "REVERSED" /\ t \notin rwo' => IP!Settled(t)'
    BY <1>1, <1>4, <2>1, Zenon DEF AheadOK, IP!Settled
  <2> QED
    BY <2>2, <2>3, <2>4, <2>5, Zenon DEF AheadOK
<1> QED
  BY <1>5, Zenon DEF AheadInv

(* Every step of the issuer keeps reversals behind the rows they reverse. *)
LEMMA AheadIssuer ==
    ASSUME Sides, AheadInv, IP!Next, UNCHANGED gatewayVars
    PROVE  AheadInv'
<1>1. state' = state /\ IP!ReversalsFollow
  BY IssuerSteps, Zenon DEF gatewayVars
<1>2. ASSUME NEW t \in Txns PROVE AheadOK(t)'
  BY <1>1, Zenon DEF AheadInv, AheadOK, IP!ReversalsFollow, GP!Reversing
<1> QED
  BY <1>2, Zenon DEF AheadInv

-----------------------------------------------------------------------------
(* The two variables of Purchase. *)
MoneyMap == [t \in Txns |-> I!Money(t)]
ToldMap == [t \in Txns |-> Told(t)]

(* What a row tells, given whether the issuer has settled it. *)
RowTells(status, rc, settled) ==
    CASE status = "APPROVED" -> "approved"
      [] status = "DECLINED" /\ rc # "96" -> "declined"
      [] status = "REVERSED" /\ settled -> "reversed"
      [] OTHER -> "open"

(* A row that is REVERSED tells so once the issuer has settled it; a final row agrees with the journal. *)
RowOK(t) ==
    /\ Told(t) = RowTells(state[t], code[t], IP!Settled(t))
    /\ state[t] = "APPROVED" => posted[t] = 1
    /\ state[t] = "DECLINED" /\ code[t] # "96" => posted[t] = 0

RowInv == \A t \in Txns : RowOK(t)

(* Both follow from what joins the two sides. *)
LEMMA RowsAgree ==
    ASSUME Reliable
    PROVE  NetInv => RowInv
<1> SUFFICES ASSUME NetInv, NEW t \in Txns PROVE RowOK(t)
  BY Zenon DEF RowInv
<1>1. SentOK(t) /\ AheadOK(t) /\ GP!HeardOK(t) /\ GP!DeclineOK(t)
  BY Zenon DEF NetInv, Sides, CopyInv, AheadInv, GP!HeardInv, GP!DeclineInv
<1>2. Told(t) = RowTells(state[t], code[t], IP!Settled(t))
  BY <1>1, Zenon DEF AheadOK, Told, RowTells, IP!Settled
<1>3. state[t] = "APPROVED" => posted[t] = 1
  BY <1>1, Zenon DEF GP!HeardOK, SentOK, IP!Journals
<1>4. state[t] = "DECLINED" /\ code[t] # "96" => posted[t] = 0
  BY <1>1, Zenon DEF GP!HeardOK, GP!DeclineOK, SentOK, IP!Fresh, IP!Journals, Reliable
<1> QED
  BY <1>2, <1>3, <1>4, Zenon DEF RowOK

(* What is told and what becomes of the money of one purchase, when a step of Purchase is taken. *)
Allowed(m, mm, w, ww) ==
    \/ mm = m /\ ww = w
    \/ m = "free" /\ mm = "held" /\ w = "open" /\ ww = "open"
    \/ m = "free" /\ mm = "void" /\ (ww = w \/ (w = "open" /\ ww = "reversed"))
    \/ m = "held" /\ mm = "returned" /\ w = "open" /\ ww \in {"open", "reversed"}
    \/ mm = m /\ w = "open" /\ \/ m = "held" /\ ww = "approved"
                               \/ m \in {"free", "void"} /\ ww = "declined"
                               \/ m \in {"void", "returned"} /\ ww = "reversed"
    \/ mm = m /\ w = "approved" /\ ww = "open"

(* Such a change of one purchase is a step of Purchase. *)
LEMMA PurchaseStep ==
    ASSUME NEW r \in Txns, Allowed(I!Money(r), I!Money(r)', Told(r), Told(r)'),
           \A u \in Txns \ {r} : I!Money(u)' = I!Money(u) /\ Told(u)' = Told(u)
    PROVE  P!Next \/ UNCHANGED <<MoneyMap, ToldMap>>
<1> DEFINE m == I!Money(r)  mm == I!Money(r)'  w == Told(r)  ww == Told(r)'
<1>1. MoneyMap[r] = m /\ ToldMap[r] = w
  BY Zenon DEF MoneyMap, ToldMap
<1>2. MoneyMap' = [MoneyMap EXCEPT ![r] = mm] /\ ToldMap' = [ToldMap EXCEPT ![r] = ww]
  BY ZenonT(30) DEF MoneyMap, ToldMap
<1>3. mm = m => MoneyMap' = MoneyMap
  BY <1>1, <1>2, Zenon DEF MoneyMap
<1>4. ww = w => ToldMap' = ToldMap
  BY <1>1, <1>2, Zenon DEF ToldMap
<1>5. /\ P!Next <=> \E u \in Txns : P!MoneyMoves(u) \/ P!Approve(u) \/ P!Decline(u) \/ P!Reverse(u) \/ P!ReverseLate(u) \/ P!Cancel(u)
      /\ P!MoneyMoves(r) <=> /\ (ToldMap[r] = "open" /\ (P!Take(r) \/ P!Return(r))) \/ P!Refuse(r)
                             /\ UNCHANGED ToldMap
      /\ P!ReverseLate(r) <=> /\ ToldMap[r] = "open" /\ (P!Refuse(r) \/ P!Return(r))
                              /\ ToldMap' = [ToldMap EXCEPT ![r] = "reversed"]
      /\ P!Approve(r) <=> MoneyMap[r] = "held" /\ P!Tell(r, "open", "approved")
      /\ P!Decline(r) <=> MoneyMap[r] \in {"free", "void"} /\ P!Tell(r, "open", "declined")
      /\ P!Reverse(r) <=> MoneyMap[r] \in {"void", "returned"} /\ P!Tell(r, "open", "reversed")
      /\ P!Cancel(r) <=> P!Tell(r, "approved", "open")
  BY Zenon DEF P!Next, P!MoneyMoves, P!ReverseLate, P!Approve, P!Decline, P!Reverse, P!Cancel, MoneyMap, ToldMap
<1>6. /\ P!Take(r) <=> MoneyMap[r] = "free" /\ MoneyMap' = [MoneyMap EXCEPT ![r] = "held"]
      /\ P!Refuse(r) <=> MoneyMap[r] = "free" /\ MoneyMap' = [MoneyMap EXCEPT ![r] = "void"]
      /\ P!Return(r) <=> MoneyMap[r] = "held" /\ MoneyMap' = [MoneyMap EXCEPT ![r] = "returned"]
      /\ \A from, to : P!Tell(r, from, to) <=> /\ ToldMap[r] = from /\ ToldMap' = [ToldMap EXCEPT ![r] = to]
                                               /\ UNCHANGED MoneyMap
  BY Zenon DEF P!Take, P!Refuse, P!Return, P!Moves, P!Tell, MoneyMap, ToldMap
<1>7. Allowed(m, mm, w, ww)
  BY Zenon
<1> HIDE DEF m, mm, w, ww
<1> USE <1>1, <1>2, <1>3, <1>4, <1>5, <1>6
<1>8. CASE mm = m /\ ww = w
  BY <1>8, Zenon
<1>9. CASE m = "free" /\ mm = "held" /\ w = "open" /\ ww = "open"
  BY <1>9, Zenon
<1>10. CASE m = "free" /\ mm = "void" /\ (ww = w \/ (w = "open" /\ ww = "reversed"))
  BY <1>10, Zenon
<1>11. CASE m = "held" /\ mm = "returned" /\ w = "open" /\ ww \in {"open", "reversed"}
  BY <1>11, Zenon
<1>12. CASE mm = m /\ w = "open" /\ \/ m = "held" /\ ww = "approved"
                                    \/ m \in {"free", "void"} /\ ww = "declined"
                                    \/ m \in {"void", "returned"} /\ ww = "reversed"
  BY <1>12, ZenonT(30)
<1>13. CASE mm = m /\ w = "approved" /\ ww = "open"
  BY <1>13, ZenonT(30)
<1> QED
  BY <1>7, <1>8, <1>9, <1>10, <1>11, <1>12, <1>13, Zenon DEF Allowed

(* A session that is about to book a purchase finds it open: nobody heard an answer to it. *)
LEMMA OpenWhenBooked ==
    ASSUME Reliable, NetInv, NEW o \in Txns, IP!TakeStep(o)
    PROVE  Told(o) = "open" /\ IP!Moves(o)
<1>1. SentOK(o) /\ IP!CopyOK(o) /\ GP!HeardOK(o) /\ GP!DeclineOK(o) /\ RowOK(o)
  BY RowsAgree, Zenon DEF NetInv, Sides, CopyInv, IP!CopyInv, GP!HeardInv, GP!DeclineInv, RowInv
<1>2. heard[o] = "" /\ o \in left /\ Kind[o] # "INVALID"
  BY <1>1, ZenonT(30) DEF IP!TakeStep, IP!Works, IP!WorkOK, IP!CopyOK, IP!Nowhere, SentOK
<1>3. state[o] # "APPROVED" /\ ~(state[o] = "DECLINED" /\ code[o] # "96")
  BY <1>1, <1>2, Zenon DEF GP!HeardOK, GP!DeclineOK, Reliable
<1>4. IP!Moves(o)
  BY <1>2, NetworkAssumption, SidesAssumed, Zenon DEF IP!IssuerAssumption, IP!Moves
<1> QED
  BY <1>1, <1>3, <1>4, Zenon DEF RowOK, RowTells, IP!TakeStep

(* Every step of the issuer is a step of Purchase. *)
LEMMA IssuerImplements ==
    ASSUME Reliable, NetInv, RowInv, RowInv', IP!Next, UNCHANGED gatewayVars
    PROVE  P!Next \/ UNCHANGED <<MoneyMap, ToldMap>>
<1>1. \A t \in Txns : /\ Told(t) = RowTells(state[t], code[t], IP!Settled(t))
                      /\ Told(t)' = RowTells(state[t], code[t], IP!Settled(t)')
                      /\ I!Money(t) = IP!Money(t) /\ I!Money(t)' = IP!Money(t)'
  BY SameMoney, Zenon DEF gatewayVars, RowInv, RowOK
<1>2. CASE \A t \in Txns : IP!Money(t)' = IP!Money(t) /\ (IP!Settled(t)' <=> IP!Settled(t))
  BY <1>1, <1>2, Zenon DEF MoneyMap, ToldMap, RowTells
<1>3. ASSUME NEW o \in Txns, \A u \in Txns \ {o} : IP!Money(u)' = IP!Money(u) /\ (IP!Settled(u)' <=> IP!Settled(u)),
             IP!LogStep(o) \/ IP!TakeStep(o) \/ IP!ReturnStep(o)
      PROVE  P!Next \/ UNCHANGED <<MoneyMap, ToldMap>>
  <2>1. \A u \in Txns \ {o} : I!Money(u)' = I!Money(u) /\ Told(u)' = Told(u)
    BY <1>1, <1>3, Zenon DEF RowTells
  <2>2. ASSUME IP!LogStep(o) PROVE Allowed(I!Money(o), I!Money(o)', Told(o), Told(o)')
    BY <1>1, <2>2, Zenon DEF IP!LogStep, RowTells, Allowed
  <2>3. ASSUME IP!TakeStep(o) PROVE Allowed(I!Money(o), I!Money(o)', Told(o), Told(o)')
    BY <1>1, <2>3, OpenWhenBooked, Zenon DEF IP!TakeStep, RowTells, Allowed
  <2>4. ASSUME IP!ReturnStep(o) PROVE Allowed(I!Money(o), I!Money(o)', Told(o), Told(o)')
    BY <1>1, <2>4 DEF IP!ReturnStep, NetInv, AheadInv, AheadOK, GP!Reversing, RowTells, Allowed
  <2> QED
    BY <1>3, <2>1, <2>2, <2>3, <2>4, PurchaseStep, Zenon
<1> QED
  BY <1>2, <1>3, SidesAssumed, IP!MoneyCases, Zenon DEF NetInv, Sides

(* Every step of the gateway is a step of Purchase. *)
LEMMA GatewayImplements ==
    ASSUME Reliable, NetInv, RowInv, RowInv', GP!GatewayNext, UNCHANGED issuerVars
    PROVE  P!Next \/ UNCHANGED <<MoneyMap, ToldMap>>
<1>1. \A u \in Txns : /\ I!Money(u)' = I!Money(u)
                      /\ Told(u) = RowTells(state[u], code[u], IP!Settled(u))
                      /\ Told(u)' = RowTells(state'[u], code'[u], IP!Settled(u))
  BY Zenon DEF issuerVars, I!Money, IP!Settled, RowInv, RowOK
<1>2. CASE UNCHANGED <<state, code>>
  BY <1>1, <1>2, Zenon DEF MoneyMap, ToldMap
<1>3. ASSUME NEW t \in Txns, GP!RowStep(t) PROVE P!Next \/ UNCHANGED <<MoneyMap, ToldMap>>
  <2>1. \A u \in Txns \ {t} : I!Money(u)' = I!Money(u) /\ Told(u)' = Told(u)
    BY <1>1, <1>3, SMTT(30) DEF GP!RowStep
  <2>2. /\ state'[t] = "APPROVED" /\ log[t].status # "REVERSED" => I!Money(t) = "held"
        /\ state'[t] = "DECLINED" /\ code'[t] # "96" => I!Money(t) \in {"free", "void"}
        /\ IP!Settled(t) => I!Money(t) \in {"void", "returned"}
    BY SidesAssumed, IP!MoneyByRow, SameMoney, ZenonT(30) DEF NetInv, Sides, RowInv, RowOK, issuerVars
  <2>3. /\ state'[t] \in GP!Successors(state[t])
        /\ state'[t] \in {"REVERSAL_PENDING", "REVERSED"} => code'[t] = code[t]
        /\ state'[t] = "REVERSAL_PENDING" /\ state[t] = "DECLINED" => code[t] = "96"
        /\ state[t] \in GP!States
        /\ state[t] = "SENT" => log[t].status # "REVERSED"
    BY <1>3, Zenon DEF GP!RowStep, NetInv, Sides, GP!IInv, GP!TypeOK, AheadInv, AheadOK, GP!Reversing
  <2>4. \/ state'[t] = "APPROVED" /\ state[t] = "SENT"
        \/ state'[t] = "DECLINED" /\ state[t] \in {"NONE", "SENT"}
        \/ state'[t] = "REVERSED" /\ state[t] = "REVERSAL_PENDING"
        \/ state'[t] = "REVERSAL_PENDING" /\ state[t] = "APPROVED"
        \/ state'[t] \in {"CREATED", "SENT", "TIMED_OUT", "REVERSAL_PENDING"}
           /\ (state[t] \in {"NONE", "CREATED", "SENT", "TIMED_OUT"} \/ (state[t] = "DECLINED" /\ code[t] = "96"))
    BY <2>3, Zenon DEF GP!Successors, GP!States
  <2>5. Allowed(I!Money(t), I!Money(t)', Told(t), Told(t)')
    BY <1>1, <2>2, <2>3, <2>4, Zenon DEF RowTells, Allowed
  <2> QED
    BY <2>1, <2>5, PurchaseStep, Zenon
<1> QED
  BY <1>2, <1>3, RowsMove, Zenon DEF NetInv

-----------------------------------------------------------------------------
(* The invariant of the two sides and of what joins them holds initially. *)
LEMMA NetInit == Init => NetInv
<1> SUFFICES ASSUME Init PROVE NetInv
  BY Zenon
<1>1. IP!Init /\ GP!Init
  BY SameStart, Zenon DEF Init
<1>2. Sides
  BY <1>1, SidesAssumed, IP!InductiveInit, GP!InductiveInit, GP!HeardInit, GP!DeclineInit, Zenon DEF Sides
<1>3. /\ inbox = {} /\ outbox = {} /\ rwo = {} /\ left = {}
      /\ \A t \in Txns : heard[t] = "" /\ posted[t] = 0 /\ log[t].status = "NONE" /\ state[t] = "NONE"
      /\ (\A s \in Sessions : sess[s].pc = "idle") /\ (\A v \in RevSessions : rev[v].pc = "idle")
  BY <1>1, Zenon DEF IP!Init, GP!Init, IP!Idle, IP!RevIdle
<1>4. CopyInv
  BY <1>3, Zenon DEF CopyInv, SentOK, IP!CopyInv, IP!CopyOK, IP!Fresh, IP!Nowhere, IP!Works
<1>5. AheadInv
  BY <1>3, Zenon DEF AheadInv, AheadOK
<1> QED
  BY <1>2, <1>4, <1>5, Zenon DEF NetInv

(* A step of either side keeps it. *)
LEMMA NetStep ==
    ASSUME Reliable, NetInv, [Next]_vars
    PROVE  NetInv'
<1>1. CASE GatewayStep
  BY <1>1, SameGateway, SidesGateway, CopyGateway, AheadGateway, Zenon DEF NetInv, GatewayStep
<1>2. CASE IssuerStep
  BY <1>2, SameIssuer, SidesIssuer, CopyIssuer, AheadIssuer, Zenon DEF NetInv, IssuerStep
<1>3. CASE UNCHANGED vars
  <2>1. /\ UNCHANGED <<inbox, outbox>> /\ UNCHANGED issuerVars
        /\ UNCHANGED <<up, state, code, old, req, queued, adv, cancel, orphans, claimed, sending, waiting, crashes, left, heard>>
    BY <1>3, Zenon DEF vars, gatewayVars
  <2>2. UNCHANGED GP!vars /\ UNCHANGED IP!vars
    BY <2>1, Zenon DEF issuerVars, GP!vars, IP!vars, IP!dbVars, GP!linkVars, GP!safVars, GP!workerVars, GP!historyVars
  <2>3. Sides'
    BY <2>2, SidesAssumed, IP!InductiveStep, GP!InductiveStep, GP!HeardStep, GP!DeclineStep, GP!PartsOfInvariant, Zenon DEF NetInv, Sides
  <2>4. CopyInv'
    <3>1. IP!CopyInv' /\ \A t \in Txns : IP!CopyKept(t)
      BY <2>1, SidesAssumed, IP!CopyQuiet, Zenon DEF issuerVars, NetInv, CopyInv
    <3> QED
      BY <2>1, <3>1, Zenon DEF NetInv, CopyInv, SentOK, IP!CopyKept
  <2>5. AheadInv'
    BY <2>1, Zenon DEF issuerVars, NetInv, AheadInv, AheadOK, GP!Reversing, IP!Settled
  <2> QED
    BY <2>3, <2>4, <2>5, Zenon DEF NetInv
<1> QED
  BY <1>1, <1>2, <1>3, Zenon DEF Next

(* Gateway and issuer together implement Purchase, for any number of purchases, cancellations,
   sessions, attempts and crashes and any loss, delay or failure that the two models have, as long as
   no reply to a COMMIT is lost and the chaos duplicate is off: the money and the row of a purchase
   never come apart.  sendPurchase, cancelPurchase, followUp, settle, Authorize, LocateAndReverse. *)
THEOREM NetworkImplementsPurchase ==
    ASSUME Reliable
    PROVE  Spec => ImplementsPurchase
<1>1. NetInv /\ [Next]_vars => NetInv'
  BY NetStep, Zenon
<1>2. Init => P!Init
  <2> SUFFICES ASSUME Init PROVE P!Init
    BY Zenon
  <2>1. ASSUME NEW t \in Txns PROVE I!Money(t) = "free" /\ Told(t) = "open"
    <3>1. log[t].status = "NONE" /\ posted[t] = 0 /\ undone[t] = 0 /\ state[t] = "NONE"
      BY Zenon DEF Init, I!Init, G!Init
    <3> QED
      BY <3>1 DEF I!Money, Told
  <2> QED
    BY <2>1, Zenon DEF P!Init, P!HoldInit
<1>3. NetInv /\ RowInv /\ RowInv' /\ [Next]_vars => [P!Next]_<<MoneyMap, ToldMap>>
  <2> SUFFICES ASSUME NetInv, RowInv, RowInv', [Next]_vars PROVE P!Next \/ UNCHANGED <<MoneyMap, ToldMap>>
    BY Zenon
  <2>1. CASE GatewayStep
    BY <2>1, SameGateway, GatewayImplements, Zenon DEF GatewayStep
  <2>2. CASE IssuerStep
    BY <2>2, SameIssuer, IssuerImplements DEF IssuerStep
  <2>3. CASE UNCHANGED vars
    BY <2>3 DEF vars, gatewayVars, issuerVars, MoneyMap, ToldMap, I!Money, Told
  <2> QED
    BY <2>1, <2>2, <2>3, Zenon DEF Next
<1>4. NetInv => RowInv
  BY RowsAgree, Zenon
<1> QED
  BY <1>1, <1>2, <1>3, <1>4, NetInit, PTL DEF Spec, ImplementsPurchase, P!Spec, MoneyMap, ToldMap

(* Under the same condition a decline that nobody reverses holds no money, as cancelPurchase relies
   on. *)
THEOREM DeclinesHoldNothing ==
    ASSUME Reliable
    PROVE  Spec => []DeclinedHoldsNothing
<1>1. NetInv /\ [Next]_vars => NetInv'
  BY NetStep
<1>2. NetInv => DeclinedHoldsNothing
  <2> SUFFICES ASSUME NetInv, NEW t \in Txns, state[t] = "DECLINED", code[t] # "96" PROVE ~Holds(t)
    BY Zenon DEF DeclinedHoldsNothing
  <2>1. posted[t] = 0
    BY RowsAgree, Zenon DEF RowInv, RowOK
  <2>2. undone[t] \in Nat
    BY Zenon DEF NetInv, Sides, IP!IInv, IP!TypeOK
  <2> QED
    BY <2>1, <2>2 DEF Holds
<1> QED
  BY <1>1, <1>2, NetInit, PTL DEF Spec
=============================================================================
