--------------------------- MODULE GatewayProofs ---------------------------
(***************************************************************************)
(* Proofs about Gateway, for any number of purchases, cancellations,       *)
(* crashes and attempts, and any behaviour of the issuer and of the link.  *)
(*                                                                         *)
(* OneReversal is not inductive: Settle acknowledges the advice the worker *)
(* claimed earlier, so the worker's claim must still be IN_FLIGHT          *)
(* (WorkerInv), and RecordStatus and QueueReversal act on what the request *)
(* remembers of its row (RequestInv).  That outcomes were heard and that   *)
(* declines are final rests on what a request holds between its answer and *)
(* its record (HeardInv, DeclineInv).                                      *)
(***************************************************************************)
EXTENDS Gateway, TLAPS

(* What is claimed or being sent is IN_FLIGHT, and nothing is both. *)
WorkerInv ==
    /\ \A t \in claimed : adv[t].status = "IN_FLIGHT"
    /\ sending # None => adv[sending].status = "IN_FLIGHT"
    /\ sending \notin claimed

(* A request at its step and the state of its row. *)
RequestOK(r, s) ==
    /\ r.pc = "new" => s = "NONE"
    /\ r.pc = "created" => s = "CREATED"
    /\ r.pc \in {"marked", "duplicating", "ready", "waiting", "answered"} =>
          s \in {"SENT", "TIMED_OUT", "REVERSAL_PENDING", "REVERSED"}
    /\ r.pc = "answered" => /\ r.status \in {"APPROVED", "DECLINED", "TIMED_OUT"}
                            /\ r.macFailed = TRUE => r.status = "DECLINED"
    /\ r.pc = "reversing" => r.current \in {"SENT", "TIMED_OUT", "DECLINED"}

RequestInv == \A t \in Txns : RequestOK(req[t], state[t])

(* A row, the number of its 0420s and the last of them. *)
ReversalOK(s, n, status) ==
    /\ n = IF s \in {"REVERSAL_PENDING", "REVERSED"} THEN 1 ELSE 0
    /\ s = "REVERSAL_PENDING" <=> status \in {"PENDING", "IN_FLIGHT", "DEAD"}
    /\ s = "REVERSED" <=> status = "ACKED"

IInv == TypeOK /\ WorkerInv /\ RequestInv /\ OneReversal

(* A request that remembers nothing but its step. *)
LEMMA StartedType ==
    ASSUME NEW step \in Steps
    PROVE  Started(step) \in Requests /\ Started(step).pc = step
BY DEF Started, Request, Requests, States, Codes

(* A request that remembers the outcome of its send. *)
LEMMA AnsweredType ==
    ASSUME NEW status \in States, NEW rc \in Codes, NEW bad \in BOOLEAN
    PROVE  /\ Request("answered", status, rc, bad, "NONE") \in Requests
           /\ Request("answered", status, rc, bad, "NONE").pc = "answered"
           /\ Request("answered", status, rc, bad, "NONE").status = status
           /\ Request("answered", status, rc, bad, "NONE").rc = rc
           /\ Request("answered", status, rc, bad, "NONE").macFailed = bad
BY DEF Request, Requests, States, Steps

(* An advice that is new, or not there, and the attempts of any. *)
LEMMA AdviceType ==
    /\ NoAdvice \in Advices /\ NoAdvice.status = "NONE"
    /\ LET new == [status |-> "PENDING", attempts |-> 0, assigned |-> FALSE, due |-> TRUE] IN
          new \in Advices /\ new.status = "PENDING"
    /\ \A a \in Advices : a.attempts \in 0..(MaxAttempts - 1)
<1>1. /\ 0 \in 0..(MaxAttempts - 1)
      /\ {"NONE", "PENDING"} \subseteq SafStates
  BY GatewayAssumption DEF SafStates
<1>2. NoAdvice \in Advices /\ NoAdvice.status = "NONE"
  BY <1>1 DEF NoAdvice, Advices
<1>3. LET new == [status |-> "PENDING", attempts |-> 0, assigned |-> FALSE, due |-> TRUE] IN
      new \in Advices /\ new.status = "PENDING"
  BY <1>1 DEF Advices
<1>4. \A a \in Advices : a.attempts \in 0..(MaxAttempts - 1)
  BY DEF Advices
<1> QED
  BY <1>2, <1>3, <1>4

(* The initial state satisfies the inductive invariant. *)
LEMMA InductiveInit == Init => IInv
<1> SUFFICES ASSUME Init PROVE IInv
  OBVIOUS
<1>0. "new" \in Steps /\ "NONE" \in States /\ "" \in Codes
  BY DEF Steps, States, Codes
<1>1. TypeOK
  <2>1. req \in [Txns -> Requests] /\ adv \in [Txns -> Advices]
    BY <1>0, StartedType, AdviceType, Zenon DEF Init
  <2>2. /\ \A m \in inbox : \E mti \in {"0200", "0420"}, t \in Txns : m = Message(mti, t)
        /\ \A a \in outbox : a.mti \in {"0210", "0430"} /\ a.orig \in Txns /\ a.rc \in Codes /\ a.signed \in BOOLEAN
        /\ up \in BOOLEAN /\ waiting \in {None, sending}
    BY Zenon DEF Init
  <2>3. state \in [Txns -> States] /\ code \in [Txns -> Codes] /\ heard \in [Txns -> Codes]
    BY <1>0, Zenon DEF Init
  <2>4. queued \in [Txns -> Nat] /\ crashes \in 0..MaxCrashes
    <3>1. MaxCrashes \in Nat
      BY GatewayAssumption
    <3>2. crashes = 0 /\ queued = [t \in Txns |-> 0]
      BY Zenon DEF Init
    <3> QED
      BY <3>1, <3>2
  <2>5. cancel \in [Cancels -> Txns \cup {None}]
    BY Zenon DEF Init
  <2>6. orphans \in [Txns -> {"NONE", "SENT", "TIMED_OUT", "DECLINED"}]
    BY Zenon DEF Init
  <2>7. claimed \subseteq Txns /\ sending \in Txns \cup {None} /\ old \subseteq Txns /\ left \subseteq Txns
    BY Zenon DEF Init
  <2> QED
    BY <2>1, <2>2, <2>3, <2>4, <2>5, <2>6, <2>7, Zenon DEF TypeOK
<1>2. WorkerInv /\ RequestInv
  BY <1>0, StartedType, GatewayAssumption, Zenon DEF Init, WorkerInv, RequestInv, RequestOK
<1>3. OneReversal
  BY AdviceType, Zenon DEF Init, OneReversal
<1> QED
  BY <1>1, <1>2, <1>3 DEF IInv

(* The members of the finite sets of constants that the actions name. *)
LEMMA Constants ==
    /\ Steps = {"new", "created", "marked", "duplicating", "ready", "waiting", "answered", "reversing", "done"}
    /\ States = {"NONE", "CREATED", "SENT", "TIMED_OUT", "APPROVED", "DECLINED", "REVERSAL_PENDING", "REVERSED"}
    /\ {"", "00", "30", "91", "96"} \subseteq Codes
    /\ IssuerCodes \subseteq Codes
    /\ None \notin Txns
BY GatewayAssumption, Zenon DEF Steps, States, Codes

(* TypeOK by the part of the state it is about. *)
LinkType ==
    /\ \A m \in inbox : \E mti \in {"0200", "0420"}, t \in Txns : m = Message(mti, t)
    /\ \A a \in outbox : a.mti \in {"0210", "0430"} /\ a.orig \in Txns /\ a.rc \in Codes /\ a.signed \in BOOLEAN
    /\ up \in BOOLEAN
RowType == state \in [Txns -> States] /\ code \in [Txns -> Codes]
SafType == queued \in [Txns -> Nat] /\ adv \in [Txns -> Advices]
WorkerType == claimed \subseteq Txns /\ sending \in Txns \cup {None} /\ waiting \in {None, sending}
OtherType ==
    /\ old \subseteq Txns
    /\ cancel \in [Cancels -> Txns \cup {None}]
    /\ orphans \in [Txns -> {"NONE", "SENT", "TIMED_OUT", "DECLINED"}]
    /\ crashes \in 0..MaxCrashes
    /\ left \subseteq Txns /\ heard \in [Txns -> Codes]

Parts == LinkType /\ RowType /\ req \in [Txns -> Requests] /\ SafType /\ WorkerType /\ OtherType
            /\ WorkerInv /\ RequestInv /\ OneReversal

(* The inductive invariant is the conjunction of its parts. *)
LEMMA PartsOfInvariant == IInv <=> Parts
BY Zenon DEF IInv, Parts, TypeOK, LinkType, RowType, SafType, WorkerType, OtherType

(* A part that a step does not touch stays true. *)
LEMMA Frames ==
    /\ LinkType /\ UNCHANGED linkVars => LinkType'
    /\ RowType /\ UNCHANGED <<state, code>> => RowType'
    /\ SafType /\ UNCHANGED safVars => SafType'
    /\ WorkerType /\ UNCHANGED workerVars => WorkerType'
    /\ OtherType /\ UNCHANGED <<old, cancel, orphans, crashes, historyVars>> => OtherType'
    /\ WorkerInv /\ UNCHANGED <<claimed, sending, adv>> => WorkerInv'
    /\ RequestInv /\ UNCHANGED <<state, req>> => RequestInv'
    /\ OneReversal /\ UNCHANGED <<state, queued, adv>> => OneReversal'
<1>1. LinkType /\ UNCHANGED linkVars => LinkType'
  BY Zenon DEF LinkType, linkVars
<1>2. RowType /\ UNCHANGED <<state, code>> => RowType'
  BY DEF RowType
<1>3. SafType /\ UNCHANGED safVars => SafType'
  BY DEF SafType, safVars
<1>4. WorkerType /\ UNCHANGED workerVars => WorkerType'
  BY Zenon DEF WorkerType, workerVars
<1>5. OtherType /\ UNCHANGED <<old, cancel, orphans, crashes, historyVars>> => OtherType'
  BY DEF OtherType, historyVars
<1>6. WorkerInv /\ UNCHANGED <<claimed, sending, adv>> => WorkerInv'
  BY DEF WorkerInv
<1>7. RequestInv /\ UNCHANGED <<state, req>> => RequestInv'
  BY DEF RequestInv
<1>8. OneReversal /\ UNCHANGED <<state, queued, adv>> => OneReversal'
  BY DEF OneReversal
<1> QED
  BY <1>1, <1>2, <1>3, <1>4, <1>5, <1>6, <1>7, <1>8

(* RequestInv and OneReversal speak of one transaction at a time. *)
LEMMA OneRow ==
    ASSUME NEW t \in Txns,
           \A u \in Txns \ {t} : /\ state'[u] = state[u] /\ req'[u] = req[u]
                                 /\ queued'[u] = queued[u] /\ adv'[u] = adv[u]
    PROVE  /\ RequestInv /\ RequestOK(req'[t], state'[t]) => RequestInv'
           /\ OneReversal /\ ReversalOK(state'[t], queued'[t], adv'[t].status) => OneReversal'
<1>1. RequestInv /\ RequestOK(req'[t], state'[t]) => RequestInv'
  BY DEF RequestInv
<1>2. OneReversal /\ ReversalOK(state'[t], queued'[t], adv'[t].status) => OneReversal'
  BY DEF OneReversal, ReversalOK
<1> QED
  BY <1>1, <1>2

(* A request that records r and moves its row to s, neither of which is a reversal. *)
LEMMA RequestMoves ==
    ASSUME Parts, NEW t \in Txns, NEW r \in Requests, NEW s \in States,
           req' = [req EXCEPT ![t] = r],
           state' = [state EXCEPT ![t] = s],
           s = state[t] \/ {s, state[t]} \cap {"REVERSAL_PENDING", "REVERSED"} = {},
           RequestOK(r, s),
           UNCHANGED safVars
    PROVE  req' \in [Txns -> Requests] /\ RequestInv' /\ OneReversal' /\ state' \in [Txns -> States]
<1>1. state \in [Txns -> States] /\ req \in [Txns -> Requests]
  BY DEF Parts, RowType
<1>2. state'[t] = s /\ req'[t] = r
  BY <1>1
<1>3. \A u \in Txns \ {t} : /\ state'[u] = state[u] /\ req'[u] = req[u]
                            /\ queued'[u] = queued[u] /\ adv'[u] = adv[u]
  BY <1>1 DEF safVars
<1>4. ReversalOK(state'[t], queued'[t], adv'[t].status)
  <2>1. ReversalOK(state[t], queued[t], adv[t].status)
    BY DEF Parts, OneReversal, ReversalOK
  <2> QED
    BY <1>2, <2>1, Zenon DEF ReversalOK, safVars
<1>5. RequestInv' /\ OneReversal'
  BY <1>2, <1>3, <1>4, OneRow DEF Parts
<1> QED
  BY <1>1, <1>5

(* A step of a request that leaves every row alone. *)
LEMMA RequestGoes ==
    ASSUME Parts, NEW t \in Txns, NEW r \in Requests,
           req' = [req EXCEPT ![t] = r],
           RequestOK(r, state[t]),
           UNCHANGED <<state, queued, adv>>
    PROVE  req' \in [Txns -> Requests] /\ RequestInv' /\ OneReversal'
<1>1. state \in [Txns -> States]
  BY DEF Parts, RowType
<1>2. state' = [state EXCEPT ![t] = state[t]] /\ state[t] \in States
  BY <1>1
<1> QED
  BY <1>2, RequestMoves, Zenon DEF safVars

(* Create inserts a row for a new request only. *)
LEMMA CreateStep ==
    ASSUME Parts, NEW t \in Txns, Create(t)
    PROVE  Parts'
<1>1. /\ state \in [Txns -> States] /\ code \in [Txns -> Codes]
      /\ state[t] = "NONE"
  BY DEF Parts, RowType, RequestInv, RequestOK, Create, At
<1>2. /\ UNCHANGED linkVars /\ UNCHANGED safVars /\ UNCHANGED workerVars
      /\ UNCHANGED <<old, cancel, orphans, crashes, historyVars>>
      /\ UNCHANGED <<claimed, sending, adv>>
  BY DEF Create, workerVars, safVars
<1>3. CASE state' = [state EXCEPT ![t] = "CREATED"] /\ Goto(t, "created") /\ UNCHANGED code
  <2>1. RequestOK(Started("created"), "CREATED") /\ Started("created") \in Requests
    BY Constants, StartedType, Zenon DEF RequestOK
  <2>2. req' \in [Txns -> Requests] /\ RequestInv' /\ OneReversal' /\ state' \in [Txns -> States]
    BY <1>1, <1>2, <1>3, <2>1, Constants, RequestMoves, Zenon DEF Goto
  <2> QED
    BY <1>1, <1>2, <1>3, <2>2, Frames DEF Parts, RowType
<1>4. CASE state' = [state EXCEPT ![t] = "DECLINED"] /\ code' = [code EXCEPT ![t] = "91"] /\ Goto(t, "done")
  <2>1. RequestOK(Started("done"), "DECLINED") /\ Started("done") \in Requests
    BY Constants, StartedType, Zenon DEF RequestOK
  <2>2. req' \in [Txns -> Requests] /\ RequestInv' /\ OneReversal' /\ state' \in [Txns -> States]
    BY <1>1, <1>2, <1>4, <2>1, Constants, RequestMoves, Zenon DEF Goto
  <2>3. code' \in [Txns -> Codes]
    BY <1>1, <1>4, Constants, Zenon
  <2> QED
    BY <1>2, <2>2, <2>3, Frames DEF Parts, RowType
<1>5. CASE Goto(t, "done") /\ UNCHANGED <<state, code>>
  <2>1. RequestOK(Started("done"), state[t]) /\ Started("done") \in Requests
    BY Constants, StartedType, Zenon DEF RequestOK
  <2>2. req' \in [Txns -> Requests] /\ RequestInv' /\ OneReversal'
    BY <1>2, <1>5, <2>1, RequestGoes, Zenon DEF Goto, safVars
  <2> QED
    BY <1>2, <1>5, <2>2, Frames DEF Parts
<1> QED
  BY <1>3, <1>4, <1>5 DEF Create

(* MarkSent makes a CREATED row SENT, or gives up. *)
LEMMA MarkSentStep ==
    ASSUME Parts, NEW t \in Txns, MarkSent(t)
    PROVE  Parts'
<1>1. /\ state \in [Txns -> States] /\ code \in [Txns -> Codes]
      /\ state[t] = "CREATED"
  BY DEF Parts, RowType, RequestInv, RequestOK, MarkSent, At
<1>2. /\ UNCHANGED linkVars /\ UNCHANGED safVars /\ UNCHANGED workerVars /\ UNCHANGED code
      /\ UNCHANGED <<old, cancel, orphans, crashes, historyVars>>
      /\ UNCHANGED <<claimed, sending, adv>>
  BY DEF MarkSent, workerVars, safVars
<1>3. ASSUME NEW step \in {"marked", "ready", "done"}, Goto(t, step), state' = [state EXCEPT ![t] = "SENT"]
      PROVE  Parts'
  <2>1. RequestOK(Started(step), "SENT") /\ Started(step) \in Requests
    BY Constants, StartedType, Zenon DEF RequestOK
  <2>2. req' \in [Txns -> Requests] /\ RequestInv' /\ OneReversal' /\ state' \in [Txns -> States]
    BY <1>1, <1>2, <1>3, <2>1, Constants, RequestMoves, Zenon DEF Goto
  <2> QED
    BY <1>1, <1>2, <2>2, Frames DEF Parts, RowType
<1>4. CASE Goto(t, "done") /\ UNCHANGED state
  <2>1. RequestOK(Started("done"), state[t]) /\ Started("done") \in Requests
    BY Constants, StartedType, Zenon DEF RequestOK
  <2>2. req' \in [Txns -> Requests] /\ RequestInv' /\ OneReversal'
    BY <1>2, <1>4, <2>1, RequestGoes, Zenon DEF Goto, safVars
  <2> QED
    BY <1>2, <1>4, <2>2, Frames DEF Parts
<1> QED
  BY <1>3, <1>4, Zenon DEF MarkSent

(* A written message keeps the link well typed. *)
LEMMA Written ==
    ASSUME LinkType, NEW mti \in {"0200", "0420"}, NEW t \in Txns,
           inbox' = inbox \cup {Message(mti, t)} \/ UNCHANGED inbox,
           \A a \in outbox' : a \in outbox,
           UNCHANGED up
    PROVE  LinkType'
BY Zenon DEF LinkType

(* What a request does while its row may be SENT, apart from recording the outcome. *)
LEMMA RequestSends ==
    ASSUME Parts, NEW t \in Txns, NEW r \in Requests,
           req[t].pc \in {"marked", "duplicating", "ready", "waiting"},
           r.pc \in {"duplicating", "ready", "waiting", "answered"},
           r.pc = "answered" => /\ r.status \in {"APPROVED", "DECLINED", "TIMED_OUT"}
                                /\ r.macFailed = TRUE => r.status = "DECLINED",
           req' = [req EXCEPT ![t] = r],
           LinkType',
           left' \subseteq Txns, heard' \in [Txns -> Codes],
           UNCHANGED <<state, code, old, safVars, cancel, orphans, workerVars, crashes>>
    PROVE  Parts'
<1>1. /\ UNCHANGED safVars /\ UNCHANGED workerVars /\ UNCHANGED <<state, code>>
      /\ UNCHANGED <<claimed, sending, adv>> /\ UNCHANGED <<state, queued, adv>>
      /\ UNCHANGED <<old, cancel, orphans, crashes>>
  BY DEF workerVars, safVars
<1>2. RequestOK(r, state[t])
  BY DEF Parts, RequestInv, RequestOK
<1>3. req' \in [Txns -> Requests] /\ RequestInv' /\ OneReversal'
  BY <1>1, <1>2, RequestGoes, Zenon
<1>4. OtherType'
  BY <1>1, Zenon DEF Parts, OtherType
<1> QED
  BY <1>1, <1>3, <1>4, Frames DEF Parts

(* SendDuplicate and DuplicateDone only write and read the link. *)
LEMMA DuplicateStep ==
    ASSUME Parts, NEW t \in Txns, SendDuplicate(t) \/ DuplicateDone(t)
    PROVE  Parts'
<1>1. /\ LinkType /\ left \subseteq Txns /\ heard \in [Txns -> Codes]
      /\ \A step \in {"duplicating", "ready"} : Started(step) \in Requests /\ Started(step).pc = step
  BY Constants, StartedType, Zenon DEF Parts, OtherType
<1>2. LinkType'
  BY <1>1, Written DEF SendDuplicate, DuplicateDone
<1>3. left' \subseteq Txns /\ heard' \in [Txns -> Codes]
  BY <1>1 DEF SendDuplicate, DuplicateDone, historyVars
<1>4. /\ req[t].pc \in {"marked", "duplicating"}
      /\ UNCHANGED <<state, code, old, safVars, cancel, orphans, workerVars, crashes>>
      /\ \E step \in {"duplicating", "ready"} : req' = [req EXCEPT ![t] = Started(step)]
  BY DEF SendDuplicate, DuplicateDone, Goto, At
<1> QED
  BY <1>1, <1>2, <1>3, <1>4, RequestSends, Zenon

(* The three ways a send ends remember an outcome to record. *)
LEMMA SendStep ==
    ASSUME Parts, NEW t \in Txns,
           Send(t) \/ TimeOut(t) \/ \E a \in outbox : Receive(t, a)
    PROVE  Parts'
<1>1. LinkType /\ left \subseteq Txns /\ heard \in [Txns -> Codes]
  BY DEF Parts, OtherType
<1>2. LinkType'
  <2>1. CASE Send(t)
    BY <1>1, <2>1, Written, Zenon DEF Send
  <2>2. CASE TimeOut(t)
    BY <1>1, <2>2, Frames, Zenon DEF TimeOut
  <2>3. CASE \E a \in outbox : Receive(t, a)
    BY <1>1, <2>3, Written DEF Receive
  <2> QED
    BY <2>1, <2>2, <2>3
<1>3. left' \subseteq Txns /\ heard' \in [Txns -> Codes]
  <2>1. CASE Send(t)
    BY <1>1, <2>1, Zenon DEF Send
  <2>2. CASE TimeOut(t)
    BY <1>1, <2>2, Zenon DEF TimeOut, historyVars
  <2>3. ASSUME NEW a \in outbox, Receive(t, a) PROVE left' \subseteq Txns /\ heard' \in [Txns -> Codes]
    <3>1. ResponseCodeOf(a) \in Codes
      BY <1>1, Constants, Zenon DEF LinkType, ResponseCodeOf
    <3>2. left' = left /\ (heard' = heard \/ heard' = [heard EXCEPT ![t] = ResponseCodeOf(a)])
      BY <2>3, Zenon DEF Receive
    <3> QED
      BY <1>1, <3>1, <3>2
  <2> QED
    BY <2>1, <2>2, <2>3
<1>4. /\ req[t].pc \in {"ready", "waiting"}
      /\ UNCHANGED <<state, code, old, safVars, cancel, orphans, workerVars, crashes>>
  BY Zenon DEF Send, TimeOut, Receive, At
<1>5. ASSUME Goto(t, "waiting") PROVE Parts'
  <2>1. Started("waiting") \in Requests /\ Started("waiting").pc = "waiting"
    BY Constants, StartedType, Zenon
  <2> QED
    BY <1>2, <1>3, <1>4, <1>5, <2>1, RequestSends, Zenon DEF Goto
<1>6. ASSUME NEW status \in {"APPROVED", "DECLINED", "TIMED_OUT"}, NEW rc \in Codes, NEW bad \in BOOLEAN,
             bad => status = "DECLINED",
             Answered(t, status, rc, bad)
      PROVE  Parts'
  <2> DEFINE r == Request("answered", status, rc, bad, "NONE")
  <2>1. r \in Requests /\ r.pc = "answered" /\ r.status = status /\ r.macFailed = bad
    <3>1. status \in States
      BY Constants, Zenon
    <3> QED
      BY <3>1, AnsweredType
  <2>2. req' = [req EXCEPT ![t] = r]
    BY <1>6 DEF Answered
  <2>3. r.macFailed = TRUE => r.status = "DECLINED"
    BY <1>6, <2>1
  <2> HIDE DEF r
  <2> QED
    BY <1>2, <1>3, <1>4, <2>1, <2>2, <2>3, RequestSends, Zenon
<1>7. CASE Send(t)
  BY <1>5, <1>6, <1>7, Constants, Zenon DEF Send
<1>8. CASE TimeOut(t)
  BY <1>6, <1>8, Constants, Zenon DEF TimeOut
<1>9. ASSUME NEW a \in outbox, Receive(t, a) PROVE Parts'
  <2>1. ResponseCodeOf(a) \in Codes
    BY <1>1, Constants, Zenon DEF LinkType, ResponseCodeOf
  <2> QED
    BY <1>6, <1>9, <2>1, Constants, Zenon DEF Receive
<1> QED
  BY <1>7, <1>8, <1>9

(* RecordStatus only moves a row that is still SENT, to an outcome. *)
LEMMA RecordStatusStep ==
    ASSUME Parts, NEW t \in Txns, RecordStatus(t)
    PROVE  Parts'
<1>1. /\ state \in [Txns -> States] /\ code \in [Txns -> Codes] /\ req \in [Txns -> Requests]
      /\ req[t] \in Requests /\ req[t].rc \in Codes
      /\ req[t].status \in {"APPROVED", "DECLINED", "TIMED_OUT"}
      /\ req[t].macFailed = TRUE => req[t].status = "DECLINED"
  BY DEF Parts, RowType, RequestInv, RequestOK, RecordStatus, At, Requests
<1>2. /\ UNCHANGED linkVars /\ UNCHANGED safVars /\ UNCHANGED workerVars
      /\ UNCHANGED <<old, cancel, orphans, crashes, historyVars>>
      /\ UNCHANGED <<claimed, sending, adv>>
  BY Zenon DEF RecordStatus, workerVars, safVars
<1>3. ASSUME NEW current \in {"SENT", req[t].status}, FinalizeFrom(t, current)
      PROVE  \E r \in Requests : /\ req' = [req EXCEPT ![t] = r]
                                 /\ \A s \in States : RequestOK(r, s)
  <2> DEFINE step == IF NeedsReversal(t) THEN "reversing" ELSE "done"
             r == [req[t] EXCEPT !.pc = step, !.current = current]
  <2>1. step \in Steps /\ current \in States /\ (step = "done" \/ step = "reversing")
    BY <1>1, Constants, Zenon
  <2>3. step = "reversing" => current \in {"SENT", "TIMED_OUT", "DECLINED"}
    BY <1>1 DEF NeedsReversal
  <2> HIDE DEF step
  <2>2. r \in Requests /\ r.pc = step /\ r.current = current
    <3>1. req[t] \in Requests /\ step \in Steps /\ current \in States
      BY <1>1, <2>1
    <3> QED
      BY <3>1, Zenon DEF Requests
  <2>4. req' = [req EXCEPT ![t] = r]
    BY <1>3 DEF FinalizeFrom, step
  <2> HIDE DEF r
  <2> QED
    BY <2>1, <2>2, <2>3, <2>4, Zenon DEF RequestOK
<1>4. ASSUME state[t] = "SENT", NEW r \in Requests, req' = [req EXCEPT ![t] = r], \A s \in States : RequestOK(r, s),
             state' = [state EXCEPT ![t] = req[t].status], code' = [code EXCEPT ![t] = req[t].rc]
      PROVE  Parts'
  <2>1. req' \in [Txns -> Requests] /\ RequestInv' /\ OneReversal' /\ state' \in [Txns -> States]
    BY <1>1, <1>2, <1>4, Constants, RequestMoves, Zenon
  <2>2. code' \in [Txns -> Codes]
    BY <1>1, <1>4
  <2> QED
    BY <1>2, <2>1, <2>2, Frames DEF Parts, RowType
<1>5. ASSUME NEW r \in Requests, req' = [req EXCEPT ![t] = r], \A s \in States : RequestOK(r, s), UNCHANGED <<state, code>>
      PROVE  Parts'
  <2>1. req' \in [Txns -> Requests] /\ RequestInv' /\ OneReversal'
    BY <1>1, <1>2, <1>5, RequestGoes, Zenon DEF safVars
  <2> QED
    BY <1>2, <1>5, <2>1, Frames DEF Parts
<1>6. Started("done") \in Requests /\ \A s \in States : RequestOK(Started("done"), s)
  BY StartedType, Constants, Zenon DEF RequestOK
<1>7. CASE state[t] = "SENT" /\ state' = [state EXCEPT ![t] = req[t].status] /\ code' = [code EXCEPT ![t] = req[t].rc]
           /\ (FinalizeFrom(t, req[t].status) \/ FinalizeFrom(t, "SENT"))
  BY <1>3, <1>4, <1>7
<1>8. CASE Goto(t, "done") /\ UNCHANGED <<state, code>>
  BY <1>5, <1>6, <1>8, Zenon DEF Goto
<1>9. CASE FinalizeFrom(t, "SENT") /\ UNCHANGED <<state, code>>
  BY <1>3, <1>5, <1>9
<1> QED
  BY <1>7, <1>8, <1>9, Zenon DEF RecordStatus

(* Queue moves a row that has no reversal to REVERSAL_PENDING, with its advice. *)
LEMMA Queued ==
    ASSUME Parts, NEW t \in Txns, NEW from, Queue(t, from),
           from \in {"SENT", "TIMED_OUT", "DECLINED", "APPROVED"},
           \A u \in Txns \ {t} : req'[u] = req[u],
           req' \in [Txns -> Requests],
           RequestOK(req[t], "REVERSAL_PENDING") => RequestOK(req'[t], "REVERSAL_PENDING"),
           UNCHANGED <<code, claimed, sending>>
    PROVE  RowType' /\ SafType' /\ WorkerInv' /\ RequestInv' /\ OneReversal'
<1>1. /\ state \in [Txns -> States] /\ code \in [Txns -> Codes]
      /\ queued \in [Txns -> Nat] /\ adv \in [Txns -> Advices]
      /\ state[t] = from
  BY DEF Parts, RowType, SafType, Queue
<1>2. PICK new \in Advices : new.status = "PENDING" /\ adv' = [adv EXCEPT ![t] = new]
  BY AdviceType, Zenon DEF Queue
<1>3. state' = [state EXCEPT ![t] = "REVERSAL_PENDING"] /\ queued' = [queued EXCEPT ![t] = @ + 1]
  BY DEF Queue
<1>4. RowType' /\ SafType'
  <2>1. state' \in [Txns -> States] /\ code' \in [Txns -> Codes]
    BY <1>1, <1>3, Constants, Zenon
  <2>2. queued' \in [Txns -> Nat]
    BY <1>1, <1>3
  <2>3. adv' \in [Txns -> Advices]
    BY <1>1, <1>2
  <2> QED
    BY <2>1, <2>2, <2>3 DEF RowType, SafType
<1>5. queued[t] = 0 /\ adv[t].status \notin {"PENDING", "IN_FLIGHT", "DEAD", "ACKED"}
  BY <1>1 DEF Parts, OneReversal
<1>6. WorkerInv'
  BY <1>1, <1>2, <1>5 DEF Parts, WorkerInv, WorkerType
<1>7. ReversalOK(state'[t], queued'[t], adv'[t].status)
  BY <1>1, <1>2, <1>3, <1>5 DEF ReversalOK
<1>8. RequestOK(req'[t], state'[t])
  <2>1. RequestOK(req[t], from)
    BY <1>1 DEF Parts, RequestInv
  <2>2. RequestOK(req[t], "REVERSAL_PENDING")
    BY <2>1 DEF RequestOK
  <2> QED
    BY <1>1, <1>3, <2>2
<1>9. \A u \in Txns \ {t} : /\ state'[u] = state[u] /\ req'[u] = req[u]
                            /\ queued'[u] = queued[u] /\ adv'[u] = adv[u]
  BY <1>1, <1>2, <1>3
<1> QED
  BY <1>4, <1>6, <1>7, <1>8, <1>9, OneRow DEF Parts

(* The reversal a request queues for its own outcome. *)
LEMMA QueueReversalStep ==
    ASSUME Parts, NEW t \in Txns, QueueReversal(t)
    PROVE  Parts'
<1>1. /\ req \in [Txns -> Requests] /\ req[t].current \in {"SENT", "TIMED_OUT", "DECLINED"}
  BY DEF Parts, RequestInv, RequestOK, QueueReversal, At
<1>2. /\ UNCHANGED linkVars /\ UNCHANGED workerVars /\ UNCHANGED <<code, claimed, sending>>
      /\ UNCHANGED <<old, cancel, orphans, crashes, historyVars>>
      /\ req' = [req EXCEPT ![t] = Started("done")]
  BY DEF QueueReversal, workerVars, Goto
<1>3. Started("done") \in Requests /\ \A s : RequestOK(Started("done"), s)
  BY StartedType, Constants, Zenon DEF RequestOK
<1>4. CASE Queue(t, req[t].current)
  <2>1. req' \in [Txns -> Requests] /\ req'[t] = Started("done") /\ \A u \in Txns \ {t} : req'[u] = req[u]
    BY <1>1, <1>2, <1>3
  <2>2. RowType' /\ SafType' /\ WorkerInv' /\ RequestInv' /\ OneReversal'
    BY <1>1, <1>2, <1>3, <1>4, <2>1, Queued
  <2> QED
    BY <1>2, <2>1, <2>2, Frames DEF Parts
<1>5. CASE QueueFails(t, req[t].current)
  <2>1. UNCHANGED <<state, code>> /\ UNCHANGED safVars /\ UNCHANGED <<claimed, sending, adv>> /\ UNCHANGED <<state, queued, adv>>
    BY <1>2, <1>5 DEF QueueFails, safVars
  <2>2. req' \in [Txns -> Requests] /\ RequestInv' /\ OneReversal'
    BY <1>2, <1>3, <2>1, RequestGoes, Zenon
  <2> QED
    BY <1>2, <2>1, <2>2, Frames DEF Parts
<1> QED
  BY <1>4, <1>5 DEF QueueReversal

(* Steps that touch neither rows, requests, advices nor the worker. *)
LEMMA QuietStep ==
    ASSUME Parts, LinkType', OtherType',
           UNCHANGED <<state, code, req, safVars, workerVars>>
    PROVE  Parts'
<1>1. /\ UNCHANGED safVars /\ UNCHANGED workerVars /\ UNCHANGED <<state, code>> /\ UNCHANGED <<state, req>>
      /\ UNCHANGED <<claimed, sending, adv>> /\ UNCHANGED <<state, queued, adv>> /\ UNCHANGED req
  BY DEF workerVars, safVars
<1> QED
  BY <1>1, Frames DEF Parts

(* Cancellations that read, the sweeper's reads, time, the link and the issuer. *)
LEMMA ReadingSteps ==
    ASSUME Parts,
           \/ \E t \in Txns : GrowOld(t)
           \/ \E c \in Cancels, t \in Txns : CancelRead(c, t)
           \/ SweepOnce
           \/ LinkChanges
           \/ \E a \in outbox : LateResponse(a)
           \/ \E m \in inbox : IssuerAnswers(m)
    PROVE  Parts'
<1>1. UNCHANGED <<state, code, req, safVars, workerVars>>
  BY DEF GrowOld, CancelRead, SweepOnce, LinkChanges, LateResponse, IssuerAnswers
<1>2. LinkType /\ OtherType /\ RowType
  BY DEF Parts
<1>3. LinkType'
  <2>1. CASE \/ \E t \in Txns : GrowOld(t)
             \/ \E c \in Cancels, t \in Txns : CancelRead(c, t)
             \/ SweepOnce
    BY <1>2, <2>1, Frames DEF GrowOld, CancelRead, SweepOnce
  <2>2. CASE LinkChanges
    BY <1>2, <2>2, Zenon DEF LinkChanges, LinkType
  <2>3. CASE \E a \in outbox : LateResponse(a)
    BY <1>2, <2>3, Zenon DEF LateResponse, LinkType
  <2>4. ASSUME NEW m \in inbox, IssuerAnswers(m) PROVE LinkType'
    <3>1. m.orig \in Txns
      BY <1>2 DEF LinkType, Message
    <3>2. PICK rc \in IssuerCodes, signed \in BOOLEAN :
             outbox' = outbox \cup {[mti |-> IF m.mti = "0200" THEN "0210" ELSE "0430",
                                     orig |-> m.orig, n |-> m.n, rc |-> rc, signed |-> signed]}
      BY <2>4 DEF IssuerAnswers
    <3> DEFINE b == [mti |-> IF m.mti = "0200" THEN "0210" ELSE "0430",
                     orig |-> m.orig, n |-> m.n, rc |-> rc, signed |-> signed]
    <3>3. b.mti \in {"0210", "0430"} /\ b.orig \in Txns /\ b.rc \in Codes /\ b.signed \in BOOLEAN
      BY <3>1, Constants, Zenon
    <3>4. inbox' \subseteq inbox /\ outbox' = outbox \cup {b} /\ up' = up
      BY <2>4, <3>2 DEF IssuerAnswers
    <3> HIDE DEF b
    <3> QED
      BY <1>2, <3>3, <3>4, Zenon DEF LinkType
  <2> QED
    BY <2>1, <2>2, <2>3, <2>4
<1>4. OtherType'
  <2>1. ASSUME NEW t \in Txns, GrowOld(t) PROVE OtherType'
    BY <1>2, <2>1 DEF GrowOld, OtherType, historyVars
  <2>2. ASSUME NEW c \in Cancels, NEW t \in Txns, CancelRead(c, t) PROVE OtherType'
    BY <1>2, <2>2 DEF CancelRead, OtherType, historyVars
  <2>3. CASE SweepOnce
    <3>1. \A t \in Txns : Orphan(t) => state[t] \in {"SENT", "TIMED_OUT", "DECLINED"}
      BY DEF Orphan
    <3>2. orphans' \in [Txns -> {"NONE", "SENT", "TIMED_OUT", "DECLINED"}]
      BY <2>3, <3>1 DEF SweepOnce
    <3> QED
      BY <1>2, <2>3, <3>2 DEF SweepOnce, OtherType, historyVars
  <2>4. CASE LinkChanges \/ (\E a \in outbox : LateResponse(a)) \/ (\E m \in inbox : IssuerAnswers(m))
    BY <1>2, <2>4, Frames, Zenon DEF LinkChanges, LateResponse, IssuerAnswers
  <2> QED
    BY <2>1, <2>2, <2>3, <2>4
<1> QED
  BY <1>1, <1>3, <1>4, QuietStep

(* A cancellation or the sweeper queues, or finds the row moved on. *)
LEMMA OthersQueue ==
    ASSUME Parts, NEW t \in Txns, NEW from \in {"TIMED_OUT", "DECLINED", "APPROVED"},
           Queue(t, from) \/ QueueFails(t, from),
           OtherType',
           UNCHANGED <<linkVars, code, req, workerVars>>
    PROVE  Parts'
<1>1. UNCHANGED linkVars /\ UNCHANGED workerVars /\ UNCHANGED req /\ UNCHANGED <<code, claimed, sending>>
  BY DEF workerVars
<1>2. req' \in [Txns -> Requests]
  BY <1>1 DEF Parts
<1>3. CASE Queue(t, from)
  <2>1. RowType' /\ SafType' /\ WorkerInv' /\ RequestInv' /\ OneReversal'
    BY <1>1, <1>2, <1>3, Queued
  <2> QED
    BY <1>1, <1>2, <2>1, Frames DEF Parts
<1>4. CASE QueueFails(t, from)
  <2>1. LinkType'
    BY <1>1, Frames DEF Parts
  <2> QED
    BY <1>4, <2>1, QuietStep DEF QueueFails
<1> QED
  BY <1>3, <1>4

(* CancelQueue. *)
LEMMA CancelQueueStep ==
    ASSUME Parts, NEW c \in Cancels, CancelQueue(c)
    PROVE  Parts'
<1>1. cancel \in [Cancels -> Txns \cup {None}] /\ OtherType
  BY DEF Parts, OtherType
<1>2. cancel[c] \in Txns
  BY <1>1 DEF CancelQueue
<1>3. cancel' = [cancel EXCEPT ![c] = None] /\ UNCHANGED <<old, orphans, crashes, historyVars>>
      /\ UNCHANGED <<linkVars, code, req, workerVars>>
      /\ (Queue(cancel[c], "APPROVED") \/ QueueFails(cancel[c], "APPROVED"))
  BY DEF CancelQueue
<1>4. OtherType'
  BY <1>1, <1>3 DEF OtherType, historyVars
<1> QED
  BY <1>2, <1>3, <1>4, OthersQueue

(* FollowUp. *)
LEMMA FollowUpStep ==
    ASSUME Parts, NEW t \in Txns, FollowUp(t)
    PROVE  Parts'
<1>1. /\ OtherType /\ RowType /\ orphans \in [Txns -> {"NONE", "SENT", "TIMED_OUT", "DECLINED"}]
      /\ state \in [Txns -> States] /\ code \in [Txns -> Codes] /\ req \in [Txns -> Requests]
  BY DEF Parts, OtherType, RowType
<1>2. /\ UNCHANGED linkVars /\ UNCHANGED workerVars /\ UNCHANGED code /\ UNCHANGED req
      /\ UNCHANGED <<old, cancel, crashes, historyVars>>
  BY DEF FollowUp
<1>3. ASSUME NEW next \in {"NONE", "TIMED_OUT"}, orphans' = [orphans EXCEPT ![t] = next] PROVE OtherType'
  BY <1>1, <1>2, <1>3 DEF OtherType, historyVars
<1>4. CASE /\ state[t] = "SENT"
           /\ state' = [state EXCEPT ![t] = "TIMED_OUT"]
           /\ orphans' = [orphans EXCEPT ![t] = "TIMED_OUT"]
           /\ UNCHANGED safVars
  <2>1. req[t] \in Requests /\ req' = [req EXCEPT ![t] = req[t]]
    BY <1>1, <1>2
  <2>2. RequestOK(req[t], "TIMED_OUT")
    <3>1. RequestOK(req[t], "SENT")
      BY <1>4 DEF Parts, RequestInv
    <3> QED
      BY <3>1 DEF RequestOK
  <2>3. req' \in [Txns -> Requests] /\ RequestInv' /\ OneReversal' /\ state' \in [Txns -> States]
    BY <1>4, <2>1, <2>2, Constants, RequestMoves, Zenon
  <2>4. OtherType' /\ UNCHANGED <<claimed, sending, adv>>
    BY <1>2, <1>3, <1>4 DEF workerVars, safVars
  <2> QED
    BY <1>1, <1>2, <1>4, <2>3, <2>4, Frames, Zenon DEF Parts, RowType
<1>5. CASE orphans' = [orphans EXCEPT ![t] = "NONE"] /\ UNCHANGED <<state, safVars>>
  <2>1. OtherType' /\ LinkType' /\ UNCHANGED <<state, code, req, safVars, workerVars>>
    BY <1>2, <1>3, <1>5, Frames DEF Parts
  <2> QED
    BY <2>1, QuietStep
<1>6. CASE /\ orphans[t] \in {"TIMED_OUT", "DECLINED"}
           /\ Queue(t, orphans[t]) \/ QueueFails(t, orphans[t])
           /\ orphans' = [orphans EXCEPT ![t] = "NONE"]
  <2>1. OtherType' /\ UNCHANGED <<linkVars, code, req, workerVars>>
    BY <1>2, <1>3, <1>6
  <2> QED
    BY <1>6, <2>1, OthersQueue
<1> QED
  BY <1>4, <1>5, <1>6 DEF FollowUp

(* An advice that is still owed changes and stays owed. *)
LEMMA AdviceMoves ==
    ASSUME Parts, NEW t \in Txns, NEW a \in Advices,
           adv' = [adv EXCEPT ![t] = a],
           {adv[t].status, a.status} \subseteq {"PENDING", "IN_FLIGHT", "DEAD"},
           UNCHANGED <<state, req, queued>>
    PROVE  SafType' /\ RequestInv' /\ OneReversal'
<1>1. adv \in [Txns -> Advices] /\ queued \in [Txns -> Nat]
  BY DEF Parts, SafType
<1>2. adv'[t] = a /\ \A u \in Txns \ {t} : adv'[u] = adv[u]
  BY <1>1
<1>3. ReversalOK(state'[t], queued'[t], adv'[t].status)
  BY <1>2 DEF Parts, OneReversal, ReversalOK
<1>4. RequestInv'
  BY Frames DEF Parts
<1>5. OneReversal'
  BY <1>2, <1>3, OneRow, Zenon DEF Parts
<1> QED
  BY <1>1, <1>4, <1>5 DEF SafType

(* RetryDue only makes an advice due. *)
LEMMA RetryDueStep ==
    ASSUME Parts, NEW t \in Txns, RetryDue(t)
    PROVE  Parts'
<1>1. adv \in [Txns -> Advices] /\ claimed \subseteq Txns /\ sending \in Txns \cup {None} /\ WorkerInv
  BY DEF Parts, SafType, WorkerType
<1>2. adv[t].status = "IN_FLIGHT" /\ adv' = [adv EXCEPT ![t] = [adv[t] EXCEPT !.due = TRUE]]
  BY DEF RetryDue
<1>3. PICK a \in Advices : a.status = "IN_FLIGHT" /\ adv' = [adv EXCEPT ![t] = a]
  <2>1. [adv[t] EXCEPT !.due = TRUE] \in Advices /\ [adv[t] EXCEPT !.due = TRUE].status = "IN_FLIGHT"
    BY <1>1, <1>2, Zenon DEF Advices
  <2> QED
    BY <1>2, <2>1, Zenon
<1>4. /\ UNCHANGED linkVars /\ UNCHANGED workerVars /\ UNCHANGED <<state, code>> /\ UNCHANGED req
      /\ UNCHANGED <<old, cancel, orphans, crashes, historyVars>> /\ UNCHANGED <<state, req, queued>>
      /\ claimed' = claimed /\ sending' = sending
  BY DEF RetryDue, workerVars
<1>5. SafType' /\ RequestInv' /\ OneReversal'
  BY <1>2, <1>3, <1>4, AdviceMoves, Zenon
<1>6. WorkerInv'
  BY <1>1, <1>3, <1>4 DEF WorkerInv
<1> QED
  BY <1>4, <1>5, <1>6, Frames DEF Parts

(* The worker's moves of one advice: it ends delivering t, or starts sending it. *)
LEMMA WorkerMoves ==
    ASSUME Parts, NEW t \in Txns, NEW a \in Advices,
           t \in claimed \/ t = sending, t \in claimed => sending = None,
           adv' = [adv EXCEPT ![t] = a],
           a.status \in {"IN_FLIGHT", "DEAD"},
           claimed' = claimed \ {t},
           sending' = None \/ (sending' = t /\ a.status = "IN_FLIGHT"),
           waiting' \in {None, sending'},
           LinkType',
           UNCHANGED <<state, code, req, queued, old, cancel, orphans, crashes, historyVars>>
    PROVE  Parts'
<1>1. adv \in [Txns -> Advices] /\ claimed \subseteq Txns /\ sending \in Txns \cup {None} /\ WorkerInv
  BY DEF Parts, SafType, WorkerType
<1>2. adv[t].status = "IN_FLIGHT"
  BY <1>1, Constants, Zenon DEF WorkerInv
<1>3. SafType' /\ RequestInv' /\ OneReversal'
  BY <1>2, AdviceMoves, Zenon
<1>4. WorkerInv' /\ WorkerType'
  BY <1>1, Constants, Zenon DEF WorkerInv, WorkerType
<1>5. OtherType' /\ RowType' /\ req' \in [Txns -> Requests]
  BY Frames DEF Parts
<1> QED
  BY <1>3, <1>4, <1>5 DEF Parts

(* The advice the writes of the worker leave behind. *)
LEMMA WorkerWrites ==
    ASSUME SafType, NEW t \in Txns, adv[t].status = "IN_FLIGHT",
           WaitForLink(t) \/ RetryLater(t) \/ MarkDead(t) \/ UNCHANGED adv
    PROVE  \E a \in Advices : a.status \in {"IN_FLIGHT", "DEAD"} /\ adv' = [adv EXCEPT ![t] = a]
<1>1. adv \in [Txns -> Advices] /\ adv[t] \in Advices /\ adv[t].attempts \in 0..(MaxAttempts - 1)
  BY AdviceType DEF SafType
<1>2. CASE WaitForLink(t)
  <2>1. LET a == [adv[t] EXCEPT !.status = "IN_FLIGHT", !.due = FALSE] IN a \in Advices /\ a.status = "IN_FLIGHT"
    BY <1>1, Zenon DEF Advices, SafStates
  <2> QED
    BY <1>2, <2>1, Zenon DEF WaitForLink
<1>3. CASE MarkDead(t)
  <2>1. LET a == [adv[t] EXCEPT !.status = "DEAD"] IN a \in Advices /\ a.status = "DEAD"
    BY <1>1 DEF Advices, SafStates
  <2> QED
    BY <1>3, <2>1, Zenon DEF MarkDead
<1>4. CASE RetryLater(t)
  <2> DEFINE later == [adv[t] EXCEPT !.status = "IN_FLIGHT", !.attempts = adv[t].attempts + 1, !.due = FALSE]
  <2>1. CASE adv[t].attempts + 1 < MaxAttempts /\ adv' = [adv EXCEPT ![t] = later]
    <3>1. adv[t].attempts + 1 \in 0..(MaxAttempts - 1)
      BY <1>1, <2>1, GatewayAssumption
    <3>2. later \in Advices /\ later.status = "IN_FLIGHT"
      BY <1>1, <3>1, Zenon DEF Advices, SafStates
    <3> QED
      BY <2>1, <3>2, Zenon
  <2> QED
    BY <1>3, <1>4, <2>1 DEF RetryLater
<1>5. CASE UNCHANGED adv
  BY <1>1, <1>5
<1> QED
  BY <1>2, <1>3, <1>4, <1>5

(* Assign. *)
LEMMA AssignStep ==
    ASSUME Parts, NEW t \in Txns, Assign(t)
    PROVE  Parts'
<1>1. /\ t \in claimed /\ sending = None /\ claimed' = claimed \ {t} /\ waiting' = waiting
      /\ UNCHANGED linkVars
      /\ UNCHANGED <<state, code, req, queued, old, cancel, orphans, crashes, historyVars>>
  BY DEF Assign
<1>2. SafType /\ adv[t].status = "IN_FLIGHT" /\ waiting = None
  BY <1>1 DEF Parts, WorkerInv, WorkerType
<1>3. LinkType'
  BY <1>1, Frames DEF Parts
<1>4. CASE adv' = [adv EXCEPT ![t] = [@ EXCEPT !.assigned = TRUE]] /\ sending' = t
  <2>1. LET b == [adv[t] EXCEPT !.assigned = TRUE] IN b \in Advices /\ b.status = "IN_FLIGHT"
    BY <1>2, Zenon DEF SafType, Advices
  <2>2. PICK a \in Advices : a.status = "IN_FLIGHT" /\ adv' = [adv EXCEPT ![t] = a]
    BY <1>4, <2>1, Zenon
  <2> QED
    BY <1>1, <1>2, <1>3, <1>4, <2>2, WorkerMoves, Zenon
<1>5. CASE (WaitForLink(t) \/ UNCHANGED adv) /\ UNCHANGED sending
  <2>1. PICK a \in Advices : a.status \in {"IN_FLIGHT", "DEAD"} /\ adv' = [adv EXCEPT ![t] = a]
    BY <1>2, <1>5, WorkerWrites
  <2> QED
    BY <1>1, <1>2, <1>3, <1>5, <2>1, WorkerMoves, Zenon
<1> QED
  BY <1>4, <1>5, Zenon DEF Assign

(* SendAdvice: dead-lettered, put off, or written and awaited. *)
LEMMA SendAdviceStep ==
    ASSUME Parts, SendAdvice
    PROVE  Parts'
<1>1. /\ LinkType /\ SafType /\ sending \in Txns /\ waiting = None /\ sending \notin claimed
      /\ claimed \subseteq Txns /\ adv[sending].status = "IN_FLIGHT"
  BY DEF Parts, WorkerType, WorkerInv, SendAdvice
<1>2. /\ UNCHANGED <<state, code, req, queued, old, cancel, orphans, crashes, historyVars>>
      /\ outbox' = outbox /\ up' = up
      /\ claimed' = claimed \ {sending}
  BY <1>1, Zenon DEF SendAdvice
<1>3. CASE /\ MarkDead(sending) \/ WaitForLink(sending) \/ UNCHANGED adv
           /\ sending' = None /\ UNCHANGED <<inbox, waiting>>
  <2>1. PICK a \in Advices : a.status \in {"IN_FLIGHT", "DEAD"} /\ adv' = [adv EXCEPT ![sending] = a]
    BY <1>1, <1>3, WorkerWrites
  <2>2. LinkType'
    BY <1>1, <1>2, <1>3, Frames DEF linkVars
  <2> QED
    BY <1>1, <1>2, <1>3, <2>1, <2>2, WorkerMoves, Zenon
<1>4. CASE /\ inbox' = inbox \cup {Message("0420", sending)}
           /\ waiting' = sending /\ UNCHANGED <<adv, sending>>
  <2>1. LinkType'
    BY <1>1, <1>2, <1>4, Written, Zenon
  <2>2. adv[sending] \in Advices /\ adv' = [adv EXCEPT ![sending] = adv[sending]]
    BY <1>1, <1>4 DEF SafType
  <2> QED
    BY <1>1, <1>2, <1>4, <2>1, <2>2, WorkerMoves, Zenon
<1> QED
  BY <1>3, <1>4, Zenon DEF SendAdvice

(* MarkAcked finishes the advice and its transaction together. *)
LEMMA Acked ==
    ASSUME Parts, sending \in Txns, MarkAcked(sending), UNCHANGED <<queued, req, code>>,
           claimed' = claimed, sending' = None
    PROVE  RowType' /\ SafType' /\ WorkerInv' /\ RequestInv' /\ OneReversal'
<1>1. /\ adv \in [Txns -> Advices] /\ queued \in [Txns -> Nat] /\ state \in [Txns -> States]
      /\ code \in [Txns -> Codes] /\ WorkerInv /\ claimed \subseteq Txns
  BY DEF Parts, SafType, RowType, WorkerType
<1>2. adv[sending].status = "IN_FLIGHT" /\ state[sending] = "REVERSAL_PENDING" /\ queued[sending] = 1
  BY <1>1, Constants, Zenon DEF WorkerInv, Parts, OneReversal
<1>3. PICK t \in Txns : t = sending
  OBVIOUS
<1>4. PICK a \in Advices : a.status = "ACKED" /\ adv' = [adv EXCEPT ![t] = a]
  <2>1. LET b == [adv[t] EXCEPT !.status = "ACKED"] IN b \in Advices /\ b.status = "ACKED"
    BY <1>1 DEF Advices, SafStates
  <2> QED
    BY <1>3, <2>1, Zenon DEF MarkAcked
<1>5. state' = [state EXCEPT ![t] = "REVERSED"]
  BY <1>2, <1>3 DEF MarkAcked
<1>6. RowType' /\ SafType'
  BY <1>1, <1>4, <1>5, Constants, Zenon DEF RowType, SafType
<1>7. WorkerInv'
  BY <1>1, <1>3, <1>4, Constants, Zenon DEF WorkerInv
<1>8. ReversalOK(state'[t], queued'[t], adv'[t].status)
  BY <1>1, <1>2, <1>3, <1>4, <1>5 DEF ReversalOK
<1>9. RequestOK(req'[t], state'[t])
  <2>1. RequestOK(req[t], "REVERSAL_PENDING")
    BY <1>2, <1>3, Zenon DEF Parts, RequestInv
  <2>2. RequestOK(req[t], "REVERSED")
    BY <2>1, Zenon DEF RequestOK
  <2> QED
    BY <1>1, <1>5, <2>2
<1>10. \A u \in Txns \ {t} : /\ state'[u] = state[u] /\ req'[u] = req[u]
                             /\ queued'[u] = queued[u] /\ adv'[u] = adv[u]
  BY <1>1, <1>4, <1>5
<1> QED
  BY <1>6, <1>7, <1>8, <1>9, <1>10, OneRow, Zenon DEF Parts

(* The worker stops waiting: an answer came, or none in time. *)
LEMMA SettleStep ==
    ASSUME Parts, AdviceTimeOut \/ \E a \in outbox : Settle(a)
    PROVE  Parts'
<1>1. /\ LinkType /\ SafType /\ sending \in Txns /\ sending \notin claimed
      /\ claimed \subseteq Txns /\ adv[sending].status = "IN_FLIGHT"
  BY Constants, Zenon DEF Parts, WorkerType, WorkerInv, AdviceTimeOut, Settle
<1>2. /\ UNCHANGED <<code, req, queued, old, cancel, orphans, crashes, historyVars>>
      /\ inbox' = inbox /\ outbox' \subseteq outbox /\ up' = up
      /\ claimed' = claimed \ {sending} /\ claimed' = claimed
      /\ sending' = None /\ waiting' = None
  BY <1>1, Zenon DEF AdviceTimeOut, Settle, linkVars
<1>3. LinkType'
  BY <1>1, <1>2, Zenon DEF LinkType
<1>4. CASE (WaitForLink(sending) \/ RetryLater(sending) \/ UNCHANGED adv) /\ UNCHANGED state
  <2>1. PICK a \in Advices : a.status \in {"IN_FLIGHT", "DEAD"} /\ adv' = [adv EXCEPT ![sending] = a]
    BY <1>1, <1>4, WorkerWrites
  <2> QED
    BY <1>1, <1>2, <1>3, <1>4, <2>1, WorkerMoves, Zenon
<1>5. CASE MarkAcked(sending)
  <2>1. RowType' /\ SafType' /\ WorkerInv' /\ RequestInv' /\ OneReversal'
    BY <1>1, <1>2, <1>5, Acked
  <2>2. OtherType' /\ req' \in [Txns -> Requests]
    BY <1>2, Frames DEF Parts
  <2>3. WorkerType'
    BY <1>1, <1>2 DEF WorkerType
  <2> QED
    BY <1>3, <2>1, <2>2, <2>3 DEF Parts
<1> QED
  BY <1>4, <1>5, Zenon DEF AdviceTimeOut, Settle

(* ClaimDue leases every due advice. *)
LEMMA ClaimDueStep ==
    ASSUME Parts, ClaimDue
    PROVE  Parts'
<1>1. /\ adv \in [Txns -> Advices] /\ queued \in [Txns -> Nat] /\ claimed = {} /\ sending = None
  BY Zenon DEF Parts, SafType, ClaimDue
<1>2. /\ UNCHANGED linkVars /\ UNCHANGED <<state, code>> /\ UNCHANGED req /\ UNCHANGED <<state, req>>
      /\ UNCHANGED <<old, cancel, orphans, crashes, historyVars>>
      /\ UNCHANGED <<queued, sending, waiting>>
      /\ claimed' = Due
      /\ adv' = [t \in Txns |-> IF t \in Due THEN [adv[t] EXCEPT !.status = "IN_FLIGHT", !.due = FALSE] ELSE adv[t]]
  BY Zenon DEF ClaimDue
<1>3. ASSUME NEW t \in Txns
      PROVE  /\ adv'[t] \in Advices
             /\ t \in Due => adv[t].status \in {"PENDING", "IN_FLIGHT"} /\ adv'[t].status = "IN_FLIGHT"
             /\ t \notin Due => adv'[t] = adv[t]
  <2>1. LET b == [adv[t] EXCEPT !.status = "IN_FLIGHT", !.due = FALSE] IN b \in Advices /\ b.status = "IN_FLIGHT"
    BY <1>1, Zenon DEF Advices, SafStates
  <2>2. t \in Due => adv[t].status \in {"PENDING", "IN_FLIGHT"}
    BY DEF Due
  <2> QED
    BY <1>1, <1>2, <2>1, <2>2, Zenon
<1>4. Due \subseteq Txns
  BY DEF Due
<1>5. SafType' /\ WorkerType' /\ WorkerInv'
  <2>1. adv' \in [Txns -> Advices]
    BY <1>2, <1>3, Zenon
  <2> QED
    BY <1>1, <1>2, <1>3, <1>4, <2>1, Constants, Zenon DEF SafType, WorkerType, WorkerInv, Parts
<1>6. OneReversal'
  BY <1>2, <1>3, ZenonT(30) DEF Parts, OneReversal
<1> QED
  BY <1>2, <1>5, <1>6, Frames, Zenon DEF Parts

(* A crash ends the requests, the cancellations, the sweep and the batch. *)
LEMMA CrashStep ==
    ASSUME Parts, Crash
    PROVE  Parts'
<1>1. /\ OtherType /\ RowType /\ req \in [Txns -> Requests] /\ RequestInv
  BY DEF Parts
<1>2. /\ UNCHANGED linkVars /\ UNCHANGED <<state, code>> /\ UNCHANGED safVars
      /\ UNCHANGED <<state, queued, adv>> /\ UNCHANGED <<old, historyVars>> /\ UNCHANGED state
      /\ req' = [t \in Txns |-> IF At(t, "new") THEN req[t] ELSE Started("done")]
      /\ cancel' = [c \in Cancels |-> None] /\ orphans' = [t \in Txns |-> "NONE"]
      /\ crashes < MaxCrashes /\ crashes' = crashes + 1
      /\ claimed' = {} /\ sending' = None /\ waiting' = None
  BY DEF Crash, safVars
<1>3. Started("done") \in Requests /\ \A s : RequestOK(Started("done"), s)
  BY StartedType, Constants, Zenon DEF RequestOK
<1>4. req' \in [Txns -> Requests] /\ RequestInv'
  BY <1>1, <1>2, <1>3 DEF RequestInv
<1>5. OtherType'
  <2>1. crashes' \in 0..MaxCrashes
    BY <1>1, <1>2, GatewayAssumption DEF OtherType
  <2> QED
    BY <1>1, <1>2, <2>1 DEF OtherType, historyVars
<1>6. WorkerType' /\ WorkerInv'
  BY <1>2 DEF WorkerType, WorkerInv
<1> QED
  BY <1>2, <1>4, <1>5, <1>6, Frames DEF Parts

(* Every step preserves the inductive invariant. *)
LEMMA InductiveStep == IInv /\ [Next]_vars => IInv'
<1> SUFFICES ASSUME Parts, [Next]_vars PROVE Parts'
  BY PartsOfInvariant, PTL
<1>1. CASE UNCHANGED vars
  <2>1. /\ UNCHANGED linkVars /\ UNCHANGED <<old, cancel, orphans, crashes, historyVars>>
        /\ UNCHANGED <<state, code, req, safVars, workerVars>>
    BY <1>1 DEF vars
  <2> QED
    BY <2>1, Frames, QuietStep DEF Parts
<1>2. ASSUME NEW t \in Txns, RequestStep(t) PROVE Parts'
  BY <1>2, CreateStep, MarkSentStep, DuplicateStep, SendStep, RecordStatusStep, QueueReversalStep DEF RequestStep
<1>3. ASSUME NEW t \in Txns, GrowOld(t) \/ RetryDue(t) PROVE Parts'
  BY <1>3, ReadingSteps, RetryDueStep
<1>4. ASSUME NEW c \in Cancels, CancelQueue(c) \/ \E t \in Txns : CancelRead(c, t) PROVE Parts'
  BY <1>4, CancelQueueStep, ReadingSteps
<1>5. CASE SweeperStep
  BY <1>5, ReadingSteps, FollowUpStep DEF SweeperStep
<1>6. CASE WorkerStep
  BY <1>6, ClaimDueStep, SendAdviceStep, SettleStep, AssignStep DEF WorkerStep
<1>7. CASE (\E a \in outbox : LateResponse(a)) \/ LinkChanges \/ (\E m \in inbox : IssuerAnswers(m))
  BY <1>7, ReadingSteps
<1>8. CASE Crash
  BY <1>8, CrashStep
<1> QED
  BY <1>1, <1>2, <1>3, <1>4, <1>5, <1>6, <1>7, <1>8 DEF Next, GatewayNext

(* The inductive invariant holds in every reachable state. *)
THEOREM Inductive == Spec => []IInv
BY InductiveInit, InductiveStep, PTL DEF Spec

(* The state keeps its types. *)
THEOREM TypeCorrect == Spec => []TypeOK
<1>1. IInv => TypeOK
  BY DEF IInv
<1> QED
  BY <1>1, Inductive, PTL

(* A transaction has at most one reversal and the two tables agree, for every interleaving of its
   request, cancellations, the sweeper, the worker and crashes. *)
THEOREM ReversedOnce == Spec => []OneReversal
<1>1. IInv => OneReversal
  BY DEF IInv
<1> QED
  BY <1>1, Inductive, PTL

(* One row moving forward, or none. *)
Forward == \A t \in Txns : state'[t] # state[t] => state'[t] \in Successors(state[t])

(* A step that changes one row forward is a forward step. *)
LEMMA ForwardAt ==
    ASSUME RowType, NEW t \in Txns, NEW s, state' = [state EXCEPT ![t] = s], s \in Successors(state[t])
    PROVE  Forward
BY DEF Forward, RowType

(* The states that may follow a state from which a request or a reversal moves a row. *)
LEMMA SuccessorsOf ==
    /\ Successors("NONE") = {"CREATED", "DECLINED"}
    /\ Successors("CREATED") = {"SENT"}
    /\ Successors("SENT") = {"APPROVED", "DECLINED", "TIMED_OUT", "REVERSAL_PENDING"}
    /\ Successors("REVERSAL_PENDING") = {"REVERSED"}
    /\ \A s \in {"SENT", "TIMED_OUT", "DECLINED", "APPROVED"} : "REVERSAL_PENDING" \in Successors(s)
BY DEF Successors

(* A step moves the rows it changes forward, whoever takes it. *)
LEMMA ForwardStep ==
    ASSUME Parts, [Next]_vars
    PROVE  Forward
<1>1. RowType /\ SafType /\ WorkerType /\ WorkerInv /\ RequestInv /\ OneReversal /\ OtherType
  BY DEF Parts
<1>2. ASSUME UNCHANGED state PROVE Forward
  BY <1>2 DEF Forward
<1>3. ASSUME NEW t \in Txns, NEW from \in {"SENT", "TIMED_OUT", "DECLINED", "APPROVED"}, Queue(t, from) PROVE Forward
  BY <1>1, <1>3, ForwardAt, SuccessorsOf, Zenon DEF Queue
<1>4. ASSUME NEW t \in Txns, RequestStep(t) PROVE Forward
  <2>1. RequestOK(req[t], state[t])
    BY <1>1 DEF RequestInv
  <2>2. CASE Create(t)
    <3>1. state[t] = "NONE"
      BY <2>1, <2>2 DEF Create, At, RequestOK
    <3> QED
      BY <1>1, <1>2, <2>2, <3>1, ForwardAt, SuccessorsOf DEF Create
  <2>3. CASE MarkSent(t)
    <3>1. state[t] = "CREATED"
      BY <2>1, <2>3 DEF MarkSent, At, RequestOK
    <3> QED
      BY <1>1, <1>2, <2>3, <3>1, ForwardAt, SuccessorsOf DEF MarkSent
  <2>4. CASE RecordStatus(t)
    <3>1. req[t].status \in {"APPROVED", "DECLINED", "TIMED_OUT"}
      BY <2>1, <2>4, Zenon DEF RecordStatus, At, RequestOK
    <3> QED
      BY <1>1, <1>2, <2>4, <3>1, ForwardAt, SuccessorsOf, Zenon DEF RecordStatus
  <2>5. CASE QueueReversal(t)
    <3>1. req[t].current \in {"SENT", "TIMED_OUT", "DECLINED"}
      BY <2>1, <2>5 DEF QueueReversal, At, RequestOK
    <3> QED
      BY <1>2, <1>3, <2>5, <3>1, Zenon DEF QueueReversal, QueueFails
  <2>6. CASE SendDuplicate(t) \/ DuplicateDone(t) \/ Send(t) \/ TimeOut(t) \/ \E a \in outbox : Receive(t, a)
    BY <1>2, <2>6, Zenon DEF SendDuplicate, DuplicateDone, Send, TimeOut, Receive
  <2> QED
    BY <1>4, <2>2, <2>3, <2>4, <2>5, <2>6 DEF RequestStep
<1>5. ASSUME NEW c \in Cancels, CancelQueue(c) PROVE Forward
  <2>1. cancel[c] \in Txns
    BY <1>1, <1>5 DEF OtherType, CancelQueue
  <2> QED
    BY <1>2, <1>3, <1>5, <2>1, Zenon DEF CancelQueue, QueueFails
<1>6. ASSUME NEW t \in Txns, FollowUp(t) PROVE Forward
  BY <1>1, <1>2, <1>3, <1>6, ForwardAt, SuccessorsOf DEF FollowUp, QueueFails
<1>7. CASE WorkerStep
  <2>1. ASSUME NEW a \in outbox, Settle(a) PROVE Forward
    <3>1. sending \in Txns /\ adv[sending].status = "IN_FLIGHT"
      BY <1>1, <2>1, Constants, Zenon DEF WorkerType, WorkerInv, Settle
    <3>2. state[sending] = "REVERSAL_PENDING"
      BY <1>1, <3>1 DEF OneReversal
    <3>3. PICK t \in Txns : t = sending
      BY <3>1
    <3>4. state' = state \/ state' = [state EXCEPT ![t] = "REVERSED"]
      BY <2>1, <3>3, Zenon DEF Settle, MarkAcked
    <3> QED
      BY <1>1, <1>2, <3>2, <3>3, <3>4, ForwardAt, SuccessorsOf
  <2>2. CASE ClaimDue \/ SendAdvice \/ AdviceTimeOut \/ \E t \in Txns : Assign(t)
    BY <1>2, <2>2, Zenon DEF ClaimDue, SendAdvice, AdviceTimeOut, Assign
  <2> QED
    BY <1>7, <2>1, <2>2 DEF WorkerStep
<1>8. CASE \/ UNCHANGED vars \/ SweepOnce \/ LinkChanges \/ Crash
           \/ \E t \in Txns : GrowOld(t) \/ RetryDue(t)
           \/ \E c \in Cancels, t \in Txns : CancelRead(c, t)
           \/ \E a \in outbox : LateResponse(a)
           \/ \E m \in inbox : IssuerAnswers(m)
  BY <1>2, <1>8 DEF vars, SweepOnce, LinkChanges, Crash, GrowOld, RetryDue, CancelRead, LateResponse, IssuerAnswers
<1> QED
  BY <1>4, <1>5, <1>6, <1>7, <1>8 DEF Next, GatewayNext, SweeperStep

(* A row only moves forward, whoever moves it. *)
THEOREM RowsMoveForward == Spec => OnlyForward
<1>1. IInv /\ [Next]_vars => [Forward]_vars
  BY ForwardStep, PartsOfInvariant
<1> QED
  BY <1>1, Inductive, PTL DEF Spec, OnlyForward, Forward

(* What the code a request heard has to do with what it is about to record and with its row. *)
HeardOK(t) ==
    /\ req[t].pc \in {"marked", "duplicating"} => Duplicates = TRUE
    /\ req[t].pc \in {"new", "created", "marked"} => t \notin left
    /\ req[t].pc = "ready" => t \notin left \/ Duplicates = TRUE
    /\ req[t].pc = "answered" /\ req[t].status = "APPROVED" => heard[t] = "00"
    /\ req[t].pc = "answered" /\ req[t].status = "DECLINED" /\ t \in left /\ req[t].rc # "96" =>
          heard[t] = req[t].rc \/ (Duplicates = TRUE /\ req[t].rc = "91")
    /\ state[t] = "APPROVED" => heard[t] = "00"
    /\ state[t] = "DECLINED" /\ t \in left /\ code[t] # "96" =>
          heard[t] = code[t] \/ (Duplicates = TRUE /\ code[t] = "91")

HeardInv == \A t \in Txns : HeardOK(t)

(* HeardInv speaks of one transaction at a time. *)
LEMMA HeardAt ==
    ASSUME HeardInv, NEW t \in Txns, HeardOK(t)',
           \A u \in Txns \ {t} : /\ state'[u] = state[u] /\ req'[u] = req[u] /\ code'[u] = code[u]
                                 /\ heard'[u] = heard[u] /\ (u \in left' <=> u \in left)
    PROVE  HeardInv'
<1>1. ASSUME NEW u \in Txns \ {t} PROVE HeardOK(u)'
  <2>1. HeardOK(u)
    BY Zenon DEF HeardInv
  <2>2. /\ state'[u] = state[u] /\ req'[u] = req[u] /\ code'[u] = code[u]
        /\ heard'[u] = heard[u] /\ (u \in left' <=> u \in left)
    OBVIOUS
  <2> QED
    BY <2>1, <2>2, Zenon DEF HeardOK
<1> QED
  BY <1>1 DEF HeardInv

(* A reversal takes the row away from HeardInv's last two clauses. *)
LEMMA HeardQueued ==
    ASSUME Parts, HeardInv, NEW t \in Txns, NEW from, Queue(t, from),
           UNCHANGED <<code, historyVars>>,
           req' = req \/ req' = [req EXCEPT ![t] = Started("done")]
    PROVE  HeardInv'
<1>1. state \in [Txns -> States] /\ req \in [Txns -> Requests]
  BY DEF Parts, RowType
<1>2. Started("done").pc = "done"
  BY StartedType, Constants, Zenon
<1>3. /\ code' = code /\ left' = left /\ heard' = heard
      /\ state' = [state EXCEPT ![t] = "REVERSAL_PENDING"]
  BY DEF historyVars, Queue
<1>4. HeardOK(t)'
  BY <1>1, <1>2, <1>3, Zenon DEF HeardInv, HeardOK
<1> QED
  BY <1>1, <1>3, <1>4, HeardAt

(* A step of a request that ends with a new step and no outcome. *)
LEMMA HeardGoto ==
    ASSUME Parts, HeardInv, NEW t \in Txns, NEW step \in Steps, Goto(t, step),
           step # "answered",
           step \in {"marked", "duplicating"} => Duplicates = TRUE,
           step \in {"new", "created", "marked"} => t \notin left',
           step = "ready" => t \notin left' \/ Duplicates = TRUE,
           state' = state \/ (\E s \in {"CREATED", "SENT"} : state' = [state EXCEPT ![t] = s]),
           left' = left \/ (left' = left \cup {t} /\ state[t] \notin {"APPROVED", "DECLINED"}),
           UNCHANGED <<code, heard>>
    PROVE  HeardInv'
<1>1. state \in [Txns -> States] /\ req \in [Txns -> Requests]
  BY DEF Parts, RowType
<1>2. Started(step).pc = step /\ req' = [req EXCEPT ![t] = Started(step)]
  BY StartedType DEF Goto
<1>3. HeardOK(t)'
  BY <1>1, <1>2, Zenon DEF HeardInv, HeardOK
<1> QED
  BY <1>1, <1>2, <1>3, HeardAt, Zenon

(* A send that ended with an outcome to record, heard or not. *)
LEMMA HeardAnswered ==
    ASSUME Parts, HeardInv, NEW t \in Txns, NEW status \in States, NEW rc \in Codes, NEW bad \in BOOLEAN,
           Answered(t, status, rc, bad),
           req[t].pc \in {"ready", "waiting"},
           status = "APPROVED" => heard'[t] = "00",
           status = "DECLINED" /\ t \in left /\ rc # "96" =>
               heard'[t] = rc \/ (Duplicates = TRUE /\ rc = "91"),
           \A u \in Txns \ {t} : heard'[u] = heard[u],
           UNCHANGED <<state, code, left>>
    PROVE  HeardInv'
<1>1. req \in [Txns -> Requests] /\ state[t] \notin {"APPROVED", "DECLINED"}
  BY Zenon DEF Parts, RequestInv, RequestOK
<1> DEFINE r == Request("answered", status, rc, bad, "NONE")
<1>2. r.pc = "answered" /\ r.status = status /\ r.rc = rc
  BY Zenon DEF Request
<1>3. req' = [req EXCEPT ![t] = r]
  BY DEF Answered
<1> HIDE DEF r
<1>4. HeardOK(t)'
  BY <1>1, <1>2, <1>3, Zenon DEF HeardInv, HeardOK
<1> QED
  BY <1>1, <1>3, <1>4, HeardAt, Zenon

(* The steps of a request preserve HeardInv. *)
LEMMA HeardRequest ==
    ASSUME Parts, HeardInv, NEW t \in Txns, RequestStep(t)
    PROVE  HeardInv'
<1>1. /\ state \in [Txns -> States] /\ code \in [Txns -> Codes] /\ req \in [Txns -> Requests]
      /\ heard \in [Txns -> Codes] /\ HeardOK(t) /\ RequestOK(req[t], state[t])
  BY DEF Parts, RowType, OtherType, HeardInv, RequestInv
<1>2. CASE Create(t)
  <2>1. /\ UNCHANGED heard /\ left' = left /\ t \notin left
    BY <1>1, <1>2 DEF Create, historyVars, HeardOK, At
  <2>2. CASE state' = [state EXCEPT ![t] = "DECLINED"] /\ code' = [code EXCEPT ![t] = "91"] /\ Goto(t, "done")
    <3>1. Started("done").pc = "done" /\ req' = [req EXCEPT ![t] = Started("done")]
      BY <2>2, StartedType, Constants, Zenon DEF Goto
    <3>2. HeardOK(t)'
      BY <1>1, <2>1, <2>2, <3>1, Zenon DEF HeardOK
    <3> QED
      BY <1>1, <2>1, <2>2, <3>1, <3>2, HeardAt
  <2>3. CASE state' = [state EXCEPT ![t] = "CREATED"] /\ Goto(t, "created") /\ UNCHANGED code
    BY <2>1, <2>3, HeardGoto, Constants, Zenon
  <2>4. CASE Goto(t, "done") /\ UNCHANGED <<state, code>>
    BY <2>1, <2>4, HeardGoto, Constants, Zenon
  <2> QED
    BY <1>2, <2>2, <2>3, <2>4, Zenon DEF Create
<1>3. CASE MarkSent(t)
  <2>1. /\ UNCHANGED <<code, heard>> /\ left' = left /\ t \notin left
    BY <1>1, <1>3 DEF MarkSent, historyVars, HeardOK, At
  <2>2. \E step \in {"marked", "ready", "done"} : Goto(t, step) /\ (step = "marked" => Duplicates = TRUE)
    BY <1>3, GatewayAssumption DEF MarkSent
  <2>3. state' = state \/ state' = [state EXCEPT ![t] = "SENT"]
    BY <1>3 DEF MarkSent
  <2> QED
    BY <2>1, <2>2, <2>3, HeardGoto, Constants, Zenon
<1>4. CASE Send(t)
  <2>1. /\ UNCHANGED <<state, code, heard>> /\ (t \notin left \/ Duplicates = TRUE) /\ req[t].pc = "ready"
        /\ state[t] \notin {"APPROVED", "DECLINED"}
    BY <1>1, <1>4, Zenon DEF Send, HeardOK, At, RequestOK
  <2>2. CASE Goto(t, "waiting") /\ left' = left \cup {t}
    BY <2>1, <2>2, HeardGoto, Constants, Zenon
  <2>3. CASE Answered(t, "DECLINED", "91", FALSE) /\ left' = left
    BY <2>1, <2>3, HeardAnswered, Constants, Zenon
  <2> QED
    BY <1>4, <2>2, <2>3, Zenon DEF Send
<1>5. CASE TimeOut(t)
  <2>1. /\ UNCHANGED <<state, code, left>> /\ heard' = heard /\ req[t].pc = "waiting"
        /\ Answered(t, "TIMED_OUT", "", FALSE)
    BY <1>5, Zenon DEF TimeOut, historyVars, At
  <2> QED
    BY <2>1, HeardAnswered, Constants, Zenon
<1>6. ASSUME NEW a \in outbox, Receive(t, a) PROVE HeardInv'
  <2>1. /\ UNCHANGED <<state, code, left>> /\ req[t].pc = "waiting"
    BY <1>6, Zenon DEF Receive, At
  <2>2. ResponseCodeOf(a) \in Codes
    BY Constants, Zenon DEF Parts, LinkType, ResponseCodeOf
  <2> DEFINE rc == ResponseCodeOf(a)
             status == IF rc = "00" THEN "APPROVED" ELSE "DECLINED"
  <2>3. CASE Answered(t, status, rc, FALSE) /\ heard' = [heard EXCEPT ![t] = rc]
    <3>1. /\ heard'[t] = rc /\ \A u \in Txns \ {t} : heard'[u] = heard[u]
          /\ status \in States /\ (status = "APPROVED" => rc = "00")
      BY <1>1, <2>3, Constants, Zenon
    <3> HIDE DEF rc, status
    <3> QED
      BY <2>1, <2>2, <2>3, <3>1, HeardAnswered, Zenon DEF rc
  <2>4. CASE Answered(t, "DECLINED", "96", TRUE) /\ heard' = heard
    BY <2>1, <2>4, HeardAnswered, Constants, Zenon
  <2> QED
    BY <1>6, <2>3, <2>4, Zenon DEF Receive
<1>7. CASE RecordStatus(t)
  <2>1. left' = left /\ heard' = heard /\ req[t].pc = "answered"
    BY <1>7, Zenon DEF RecordStatus, historyVars, At
  <2>2. req' = [req EXCEPT ![t] = req'[t]] /\ req'[t].pc \in {"done", "reversing"}
    <3>1. ASSUME NEW current, FinalizeFrom(t, current) PROVE req' = [req EXCEPT ![t] = req'[t]] /\ req'[t].pc \in {"done", "reversing"}
      <4>1. [req[t] EXCEPT !.pc = IF NeedsReversal(t) THEN "reversing" ELSE "done", !.current = current].pc \in {"done", "reversing"}
        BY <1>1 DEF Requests
      <4> QED
        BY <1>1, <3>1, <4>1 DEF FinalizeFrom
    <3>2. ASSUME Goto(t, "done") PROVE req' = [req EXCEPT ![t] = req'[t]] /\ req'[t].pc \in {"done", "reversing"}
      BY <1>1, <3>2, StartedType, Constants, Zenon DEF Goto
    <3> QED
      BY <1>7, <3>1, <3>2, Zenon DEF RecordStatus
  <2>3. CASE state' = [state EXCEPT ![t] = req[t].status] /\ code' = [code EXCEPT ![t] = req[t].rc]
    <3>1. HeardOK(t)'
      BY <1>1, <2>1, <2>2, <2>3, Zenon DEF HeardOK
    <3> QED
      BY <1>1, <2>1, <2>2, <2>3, <3>1, HeardAt
  <2>4. CASE UNCHANGED <<state, code>>
    <3>1. HeardOK(t)'
      BY <1>1, <2>1, <2>2, <2>4, Zenon DEF HeardOK
    <3> QED
      BY <1>1, <2>1, <2>2, <2>4, <3>1, HeardAt
  <2> QED
    BY <1>7, <2>3, <2>4, Zenon DEF RecordStatus
<1>8. CASE QueueReversal(t)
  <2>1. UNCHANGED <<code, historyVars>> /\ Goto(t, "done")
    BY <1>8 DEF QueueReversal
  <2>2. CASE Queue(t, req[t].current)
    BY <2>1, <2>2, HeardQueued, Zenon DEF Goto
  <2>3. CASE QueueFails(t, req[t].current)
    BY <2>1, <2>3, HeardGoto, Constants, Zenon DEF QueueFails, historyVars
  <2> QED
    BY <1>8, <2>2, <2>3 DEF QueueReversal
<1>9. CASE SendDuplicate(t)
  <2>1. /\ UNCHANGED <<state, code, heard>> /\ Duplicates = TRUE
        /\ state[t] \notin {"APPROVED", "DECLINED"}
    BY <1>1, <1>9 DEF SendDuplicate, HeardOK, At, RequestOK
  <2>2. CASE Goto(t, "duplicating") /\ left' = left \cup {t}
    BY <2>1, <2>2, HeardGoto, Constants, Zenon
  <2>3. CASE Goto(t, "ready") /\ left' = left
    BY <2>1, <2>3, HeardGoto, Constants, Zenon
  <2> QED
    BY <1>9, <2>2, <2>3, Zenon DEF SendDuplicate
<1>10. CASE DuplicateDone(t)
  <2>1. UNCHANGED <<state, code, left, heard>> /\ Duplicates = TRUE /\ Goto(t, "ready")
    BY <1>1, <1>10 DEF DuplicateDone, HeardOK, At, historyVars
  <2> QED
    BY <2>1, HeardGoto, Constants, Zenon
<1> QED
  BY <1>2, <1>3, <1>4, <1>5, <1>6, <1>7, <1>8, <1>9, <1>10 DEF RequestStep

(* Every step preserves HeardInv. *)
LEMMA HeardStep ==
    ASSUME Parts, HeardInv, [Next]_vars
    PROVE  HeardInv'
<1>1. /\ state \in [Txns -> States] /\ req \in [Txns -> Requests]
      /\ RowType /\ WorkerType /\ WorkerInv /\ OneReversal /\ OtherType
  BY DEF Parts, RowType
<1>2. ASSUME UNCHANGED <<state, code, req, historyVars>> PROVE HeardInv'
  BY <1>2, Zenon DEF HeardInv, HeardOK, historyVars
<1>3. ASSUME NEW t \in Txns, RequestStep(t) PROVE HeardInv'
  BY <1>3, HeardRequest
<1>4. ASSUME NEW c \in Cancels, CancelQueue(c) PROVE HeardInv'
  <2>1. cancel[c] \in Txns /\ req' = req /\ UNCHANGED <<code, historyVars>>
    BY <1>1, <1>4 DEF OtherType, CancelQueue
  <2>2. CASE Queue(cancel[c], "APPROVED")
    BY <2>1, <2>2, HeardQueued
  <2>3. CASE QueueFails(cancel[c], "APPROVED")
    BY <1>2, <2>1, <2>3 DEF QueueFails
  <2> QED
    BY <1>4, <2>2, <2>3 DEF CancelQueue
<1>5. ASSUME NEW t \in Txns, FollowUp(t) PROVE HeardInv'
  <2>1. req' = req /\ code' = code /\ left' = left /\ heard' = heard /\ UNCHANGED <<code, historyVars>>
    BY <1>5 DEF FollowUp, historyVars
  <2>2. CASE Queue(t, orphans[t])
    BY <2>1, <2>2, HeardQueued
  <2>3. CASE state' = [state EXCEPT ![t] = "TIMED_OUT"]
    <3>1. HeardOK(t)'
      BY <1>1, <2>1, <2>3, Zenon DEF HeardInv, HeardOK
    <3> QED
      BY <1>1, <2>1, <2>3, <3>1, HeardAt, Zenon
  <2>4. CASE UNCHANGED state
    BY <1>2, <2>1, <2>4
  <2> QED
    BY <1>5, <2>2, <2>3, <2>4 DEF FollowUp, QueueFails
<1>6. ASSUME NEW a \in outbox, Settle(a) PROVE HeardInv'
  <2>1. req' = req /\ code' = code /\ left' = left /\ heard' = heard /\ UNCHANGED <<code, historyVars>>
    BY <1>6 DEF Settle, historyVars
  <2>2. PICK t \in Txns : t = sending
    BY <1>1, <1>6, Constants, Zenon DEF WorkerType, Settle
  <2>3. CASE state' = [state EXCEPT ![t] = "REVERSED"]
    <3>1. HeardOK(t)'
      BY <1>1, <2>1, <2>3, Zenon DEF HeardInv, HeardOK
    <3> QED
      BY <1>1, <2>1, <2>3, <3>1, HeardAt, Zenon
  <2>4. CASE UNCHANGED state
    BY <1>2, <2>1, <2>4
  <2>5. state' = state \/ state' = [state EXCEPT ![t] = "REVERSED"]
    BY <1>6, <2>2, Zenon DEF Settle, MarkAcked
  <2> QED
    BY <2>3, <2>4, <2>5
<1>7. CASE \/ UNCHANGED vars \/ SweepOnce \/ LinkChanges
           \/ ClaimDue \/ SendAdvice \/ AdviceTimeOut \/ \E t \in Txns : Assign(t)
           \/ \E t \in Txns : GrowOld(t) \/ RetryDue(t)
           \/ \E c \in Cancels, t \in Txns : CancelRead(c, t)
           \/ \E a \in outbox : LateResponse(a)
           \/ \E m \in inbox : IssuerAnswers(m)
  BY <1>2, <1>7, Zenon DEF vars, SweepOnce, LinkChanges, GrowOld, RetryDue, CancelRead, LateResponse, IssuerAnswers,
                    ClaimDue, SendAdvice, AdviceTimeOut, Assign
<1>8. CASE Crash
  <2>1. /\ state' = state /\ code' = code /\ left' = left /\ heard' = heard
        /\ req' = [t \in Txns |-> IF At(t, "new") THEN req[t] ELSE Started("done")]
    BY <1>8 DEF Crash, historyVars
  <2>2. Started("done").pc = "done"
    BY StartedType, Constants, Zenon
  <2> QED
    BY <1>1, <2>1, <2>2, Zenon DEF HeardInv, HeardOK
<1> QED
  BY <1>3, <1>4, <1>5, <1>6, <1>7, <1>8 DEF Next, GatewayNext, SweeperStep, WorkerStep

(* Nothing was sent and nothing heard at the start. *)
LEMMA HeardInit == Init => HeardInv
<1> SUFFICES ASSUME Init PROVE HeardInv
  OBVIOUS
<1>1. Started("new").pc = "new"
  BY StartedType, Constants, Zenon
<1> QED
  BY <1>1, Zenon DEF Init, HeardInv, HeardOK

(* A final outcome is one the issuer gave: an unknown outcome is never recorded as an approval, and
   as a decline that nobody reverses only for a link lost after the chaos duplicate left. *)
THEOREM OutcomesAreHeard == Spec => []OutcomeWasHeard
<1>1. IInv /\ HeardInv /\ [Next]_vars => HeardInv'
  BY HeardStep, PartsOfInvariant
<1>2. HeardInv => OutcomeWasHeard
  BY Zenon DEF HeardInv, HeardOK, OutcomeWasHeard
<1> QED
  BY <1>1, <1>2, HeardInit, Inductive, PTL DEF Spec

-----------------------------------------------------------------------------
(* A decline carries a code other than 00, and who means to reverse one knows that it is a 96. *)
DeclineOK(t) ==
    /\ req[t].pc = "answered" /\ req[t].status = "DECLINED" => req[t].rc \notin {"", "00"}
    /\ req[t].pc = "answered" /\ req[t].macFailed = TRUE => req[t].rc = "96"
    /\ req[t].pc = "reversing" /\ state[t] = "DECLINED" => code[t] = "96"
    /\ state[t] = "DECLINED" => code[t] \notin {"", "00"}
    /\ orphans[t] = "DECLINED" => \/ state[t] \in {"REVERSAL_PENDING", "REVERSED"}
                                  \/ state[t] = "DECLINED" /\ code[t] = "96"

DeclineInv == \A t \in Txns : DeclineOK(t)

(* DeclineInv speaks of one transaction at a time. *)
LEMMA DeclineAt ==
    ASSUME DeclineInv, NEW t \in Txns, DeclineOK(t)',
           \A u \in Txns \ {t} : /\ state'[u] = state[u] /\ req'[u] = req[u] /\ code'[u] = code[u]
                                 /\ orphans'[u] = orphans[u]
    PROVE  DeclineInv'
<1>1. ASSUME NEW u \in Txns \ {t} PROVE DeclineOK(u)'
  <2>1. DeclineOK(u)
    BY DEF DeclineInv
  <2>2. /\ state'[u] = state[u] /\ req'[u] = req[u] /\ code'[u] = code[u]
        /\ orphans'[u] = orphans[u]
    OBVIOUS
  <2> QED
    BY <2>1, <2>2, Zenon DEF DeclineOK
<1> QED
  BY <1>1 DEF DeclineInv

(* A step that leaves a row that is not a decline with a state that is none. *)
LEMMA DeclineAvoided ==
    ASSUME Parts, DeclineInv, NEW t \in Txns, NEW s \in States,
           state' = [state EXCEPT ![t] = s],
           s # "DECLINED",
           orphans[t] = "DECLINED" => s = "REVERSAL_PENDING" \/ s = "REVERSED",
           orphans' = orphans \/ (\E o : o # "DECLINED" /\ orphans' = [orphans EXCEPT ![t] = o]),
           req' = req \/ (\E step \in Steps : step # "answered" /\ Goto(t, step)),
           UNCHANGED code
    PROVE  DeclineInv'
<1>1. /\ state \in [Txns -> States] /\ req \in [Txns -> Requests] /\ orphans \in [Txns -> {"NONE", "SENT", "TIMED_OUT", "DECLINED"}]
      /\ DeclineOK(t)
  BY DEF Parts, RowType, OtherType, DeclineInv
<1>2. /\ state'[t] = s /\ code' = code
      /\ \A u \in Txns \ {t} : state'[u] = state[u] /\ orphans'[u] = orphans[u]
      /\ orphans'[t] = "DECLINED" => orphans[t] = "DECLINED"
  BY <1>1
<1>3. (req'[t] = req[t] \/ req'[t].pc # "answered") /\ \A u \in Txns \ {t} : req'[u] = req[u]
  BY <1>1, StartedType DEF Goto
<1>4. DeclineOK(t)'
  BY <1>1, <1>2, <1>3, Zenon DEF DeclineOK
<1> QED
  BY <1>2, <1>3, <1>4, DeclineAt

(* A step of a request that leaves rows and the sweeper alone. *)
LEMMA DeclineWaits ==
    ASSUME Parts, DeclineInv, NEW t \in Txns, NEW r \in Requests,
           req' = [req EXCEPT ![t] = r],
           r.pc = "answered" /\ r.status = "DECLINED" => r.rc \notin {"", "00"},
           r.pc = "answered" /\ r.macFailed = TRUE => r.rc = "96",
           r.pc = "reversing" => state[t] # "DECLINED",
           UNCHANGED <<state, code, orphans>>
    PROVE  DeclineInv'
<1>1. req \in [Txns -> Requests] /\ DeclineOK(t)
  BY Zenon DEF Parts, DeclineInv
<1>2. req'[t] = r /\ \A u \in Txns \ {t} : req'[u] = req[u]
  BY <1>1, Zenon
<1>3. DeclineOK(t)'
  BY <1>1, <1>2, Zenon DEF DeclineOK
<1> QED
  BY <1>2, <1>3, DeclineAt, Zenon

(* The steps of a request preserve DeclineInv. *)
LEMMA DeclineRequest ==
    ASSUME Parts, DeclineInv, NEW t \in Txns, RequestStep(t)
    PROVE  DeclineInv'
<1>1. /\ state \in [Txns -> States] /\ code \in [Txns -> Codes] /\ req \in [Txns -> Requests]
      /\ DeclineOK(t) /\ RequestOK(req[t], state[t])
  BY DEF Parts, RowType, DeclineInv, RequestInv
<1>2. ASSUME NEW step \in Steps, Goto(t, step), step \notin {"answered", "reversing"}, UNCHANGED <<state, code, orphans>>
      PROVE  DeclineInv'
  BY <1>2, DeclineWaits, StartedType, Zenon DEF Goto
<1>3. ASSUME NEW status \in States, NEW rc \in Codes, NEW bad \in BOOLEAN, Answered(t, status, rc, bad),
             status = "DECLINED" => rc \notin {"", "00"}, bad = TRUE => rc = "96",
             UNCHANGED <<state, code, orphans>>
      PROVE  DeclineInv'
  <2> DEFINE r == Request("answered", status, rc, bad, "NONE")
  <2>1. r \in Requests /\ r.pc = "answered" /\ r.status = status /\ r.rc = rc /\ r.macFailed = bad
    BY AnsweredType
  <2>2. req' = [req EXCEPT ![t] = r]
    BY <1>3, Zenon DEF Answered
  <2> HIDE DEF r
  <2> QED
    BY <1>3, <2>1, <2>2, DeclineWaits, Zenon
<1>4. CASE Create(t)
  <2>1. state[t] = "NONE" /\ orphans' = orphans
    BY <1>1, <1>4 DEF Create, At, RequestOK
  <2>2. orphans[t] # "DECLINED"
    BY <1>1, <2>1, Zenon DEF DeclineOK
  <2>3. CASE state' = [state EXCEPT ![t] = "DECLINED"] /\ code' = [code EXCEPT ![t] = "91"] /\ Goto(t, "done")
    <3>1. Started("done").pc = "done" /\ req' = [req EXCEPT ![t] = Started("done")]
      BY <2>3, StartedType, Constants, Zenon DEF Goto
    <3>2. DeclineOK(t)'
      BY <1>1, <2>1, <2>2, <2>3, <3>1, Zenon DEF DeclineOK
    <3> QED
      BY <1>1, <2>1, <2>3, <3>1, <3>2, DeclineAt
  <2>4. CASE state' = [state EXCEPT ![t] = "CREATED"] /\ Goto(t, "created") /\ UNCHANGED code
    BY <2>1, <2>2, <2>4, DeclineAvoided, Constants, Zenon
  <2>5. CASE Goto(t, "done") /\ UNCHANGED <<state, code>>
    BY <1>2, <2>1, <2>5, Constants, Zenon
  <2> QED
    BY <1>4, <2>3, <2>4, <2>5, Zenon DEF Create
<1>5. CASE MarkSent(t)
  <2>1. state[t] = "CREATED" /\ orphans' = orphans /\ code' = code
    BY <1>1, <1>5 DEF MarkSent, At, RequestOK
  <2>2. orphans[t] # "DECLINED"
    BY <1>1, <2>1, Zenon DEF DeclineOK
  <2>3. \E step \in {"marked", "ready", "done"} : Goto(t, step)
    BY <1>5 DEF MarkSent
  <2>4. CASE state' = [state EXCEPT ![t] = "SENT"]
    BY <2>1, <2>2, <2>3, <2>4, DeclineAvoided, Constants, Zenon
  <2>5. CASE UNCHANGED state
    BY <1>2, <2>1, <2>3, <2>5, Constants, Zenon
  <2> QED
    BY <1>5, <2>4, <2>5 DEF MarkSent
<1>6. CASE SendDuplicate(t) \/ DuplicateDone(t) \/ Send(t) \/ TimeOut(t)
  <2>1. UNCHANGED <<state, code, orphans>>
    BY <1>6, Zenon DEF SendDuplicate, DuplicateDone, Send, TimeOut
  <2>2. \/ \E step \in {"duplicating", "ready", "waiting"} : Goto(t, step)
        \/ Answered(t, "DECLINED", "91", FALSE) \/ Answered(t, "TIMED_OUT", "", FALSE)
    BY <1>6, Zenon DEF SendDuplicate, DuplicateDone, Send, TimeOut
  <2> QED
    BY <1>2, <1>3, <2>1, <2>2, Constants, Zenon
<1>7. ASSUME NEW a \in outbox, Receive(t, a) PROVE DeclineInv'
  <2>1. UNCHANGED <<state, code, orphans>>
    BY <1>7 DEF Receive
  <2>2. ResponseCodeOf(a) \in Codes /\ ResponseCodeOf(a) # ""
    BY Constants, Zenon DEF Parts, LinkType, ResponseCodeOf
  <2>3. \/ Answered(t, "APPROVED", ResponseCodeOf(a), FALSE)
        \/ ResponseCodeOf(a) # "00" /\ Answered(t, "DECLINED", ResponseCodeOf(a), FALSE)
        \/ Answered(t, "DECLINED", "96", TRUE)
    BY <1>7, Zenon DEF Receive
  <2> QED
    BY <1>3, <2>1, <2>2, <2>3, Constants, Zenon
<1>8. CASE RecordStatus(t)
  <2>1. /\ orphans' = orphans /\ req[t].pc = "answered" /\ state[t] \notin {"NONE", "CREATED", "APPROVED", "DECLINED"}
        /\ req[t].macFailed \in BOOLEAN
    BY <1>1, <1>8, Zenon DEF RecordStatus, At, RequestOK, Requests, States
  <2>2. ASSUME NEW current, FinalizeFrom(t, current)
        PROVE  /\ \A u \in Txns \ {t} : req'[u] = req[u]
               /\ req'[t].pc \in {"done", "reversing"}
               /\ req'[t].pc = "reversing" => req[t].status = "TIMED_OUT" \/ req[t].macFailed = TRUE
    <3> DEFINE r == [req[t] EXCEPT !.pc = IF NeedsReversal(t) THEN "reversing" ELSE "done", !.current = current]
    <3>1. r.pc = (IF NeedsReversal(t) THEN "reversing" ELSE "done")
      BY <1>1 DEF Requests
    <3>2. req' = [req EXCEPT ![t] = r]
      BY <2>2 DEF FinalizeFrom
    <3> HIDE DEF r
    <3>3. req'[t] = r /\ \A u \in Txns \ {t} : req'[u] = req[u]
      BY <1>1, <3>2
    <3> QED
      BY <2>1, <3>1, <3>3, Zenon DEF NeedsReversal
  <2>3. CASE /\ state[t] = "SENT" /\ (FinalizeFrom(t, req[t].status) \/ FinalizeFrom(t, "SENT"))
             /\ state' = [state EXCEPT ![t] = req[t].status] /\ code' = [code EXCEPT ![t] = req[t].rc]
    <3>1. /\ \A u \in Txns \ {t} : req'[u] = req[u]
          /\ req'[t].pc \in {"done", "reversing"}
          /\ req'[t].pc = "reversing" => req[t].status = "TIMED_OUT" \/ req[t].macFailed = TRUE
      BY <2>2, <2>3, Zenon
    <3>2. orphans[t] # "DECLINED" /\ state'[t] = req[t].status /\ code'[t] = req[t].rc
      BY <1>1, <2>3, Zenon DEF DeclineOK
    <3>3. DeclineOK(t)'
      BY <1>1, <2>1, <3>1, <3>2, Zenon DEF DeclineOK
    <3> QED
      BY <1>1, <2>1, <2>3, <3>1, <3>3, DeclineAt, Zenon
  <2>4. CASE FinalizeFrom(t, "SENT") /\ UNCHANGED <<state, code>>
    <3>1. (\A u \in Txns \ {t} : req'[u] = req[u]) /\ req'[t].pc \in {"done", "reversing"}
      BY <2>2, <2>4, Zenon
    <3>2. DeclineOK(t)'
      BY <1>1, <2>1, <2>4, <3>1, Zenon DEF DeclineOK
    <3> QED
      BY <2>1, <2>4, <3>1, <3>2, DeclineAt, Zenon
  <2>5. CASE Goto(t, "done") /\ UNCHANGED <<state, code>>
    BY <1>2, <2>1, <2>5, Constants, Zenon
  <2> QED
    BY <1>8, <2>3, <2>4, <2>5, Zenon DEF RecordStatus
<1>9. CASE QueueReversal(t)
  <2>1. code' = code /\ orphans' = orphans /\ Goto(t, "done")
    BY <1>9 DEF QueueReversal
  <2>2. CASE Queue(t, req[t].current)
    BY <2>1, <2>2, DeclineAvoided, Constants, Zenon DEF Queue
  <2>3. CASE QueueFails(t, req[t].current)
    BY <1>2, <2>1, <2>3, Constants, Zenon DEF QueueFails
  <2> QED
    BY <1>9, <2>2, <2>3 DEF QueueReversal
<1> QED
  BY <1>4, <1>5, <1>6, <1>7, <1>8, <1>9 DEF RequestStep

(* Every step preserves DeclineInv. *)
LEMMA DeclineStep ==
    ASSUME Parts, DeclineInv, [Next]_vars
    PROVE  DeclineInv'
<1>1. /\ state \in [Txns -> States] /\ req \in [Txns -> Requests]
      /\ orphans \in [Txns -> {"NONE", "SENT", "TIMED_OUT", "DECLINED"}]
      /\ WorkerType /\ WorkerInv /\ OneReversal /\ OtherType
  BY DEF Parts, RowType, OtherType
<1>2. ASSUME UNCHANGED <<state, code, req, orphans>> PROVE DeclineInv'
  BY <1>2, Zenon DEF DeclineInv, DeclineOK
<1>3. ASSUME NEW t \in Txns, RequestStep(t) PROVE DeclineInv'
  BY <1>3, DeclineRequest
<1>4. ASSUME NEW c \in Cancels, CancelQueue(c) PROVE DeclineInv'
  <2>1. cancel[c] \in Txns /\ UNCHANGED <<code, req, orphans>>
    BY <1>1, <1>4 DEF OtherType, CancelQueue
  <2>2. CASE Queue(cancel[c], "APPROVED")
    BY <2>1, <2>2, DeclineAvoided, Constants, Zenon DEF Queue
  <2>3. CASE QueueFails(cancel[c], "APPROVED")
    BY <1>2, <2>1, <2>3, Zenon DEF QueueFails
  <2> QED
    BY <1>4, <2>2, <2>3 DEF CancelQueue
<1>5. ASSUME NEW t \in Txns, FollowUp(t) PROVE DeclineInv'
  <2>1. req' = req /\ code' = code
    BY <1>5 DEF FollowUp
  <2>2. CASE Queue(t, orphans[t]) /\ orphans' = [orphans EXCEPT ![t] = "NONE"]
    BY <2>1, <2>2, DeclineAvoided, Constants, Zenon DEF Queue
  <2>3. CASE orphans[t] = "SENT" /\ state' = [state EXCEPT ![t] = "TIMED_OUT"] /\ orphans' = [orphans EXCEPT ![t] = "TIMED_OUT"]
    BY <2>1, <2>3, DeclineAvoided, Constants, Zenon
  <2>4. CASE UNCHANGED state /\ orphans' = [orphans EXCEPT ![t] = "NONE"]
    <3>1. orphans'[t] = "NONE" /\ \A u \in Txns \ {t} : orphans'[u] = orphans[u]
      BY <1>1, <2>4
    <3>2. DeclineOK(t)'
      BY <2>1, <2>4, <3>1, Zenon DEF DeclineInv, DeclineOK
    <3> QED
      BY <2>1, <2>4, <3>1, <3>2, DeclineAt
  <2> QED
    BY <1>5, <2>2, <2>3, <2>4, Zenon DEF FollowUp, QueueFails
<1>6. ASSUME NEW a \in outbox, Settle(a) PROVE DeclineInv'
  <2>1. UNCHANGED <<code, req, orphans>>
    BY <1>6 DEF Settle
  <2>2. PICK t \in Txns : t = sending
    BY <1>1, <1>6, Constants, Zenon DEF WorkerType, Settle
  <2>3. CASE state' = [state EXCEPT ![t] = "REVERSED"]
    BY <2>1, <2>3, DeclineAvoided, Constants, Zenon
  <2>4. CASE UNCHANGED state
    BY <1>2, <2>1, <2>4
  <2>5. state' = state \/ state' = [state EXCEPT ![t] = "REVERSED"]
    BY <1>6, <2>2, Zenon DEF Settle, MarkAcked
  <2> QED
    BY <2>3, <2>4, <2>5
<1>7. CASE SweepOnce
  <2>1. /\ UNCHANGED <<state, code, req>>
        /\ orphans' = [t \in Txns |-> IF Orphan(t) THEN state[t] ELSE "NONE"]
    BY <1>7, Zenon DEF SweepOnce
  <2> QED
    BY <2>1, Zenon DEF DeclineInv, DeclineOK, Orphan
<1>8. CASE \/ UNCHANGED vars \/ LinkChanges
           \/ ClaimDue \/ SendAdvice \/ AdviceTimeOut \/ \E t \in Txns : Assign(t)
           \/ \E t \in Txns : GrowOld(t) \/ RetryDue(t)
           \/ \E c \in Cancels, t \in Txns : CancelRead(c, t)
           \/ \E a \in outbox : LateResponse(a)
           \/ \E m \in inbox : IssuerAnswers(m)
  BY <1>2, <1>8, Zenon DEF vars, LinkChanges, GrowOld, RetryDue, CancelRead, LateResponse, IssuerAnswers,
                    ClaimDue, SendAdvice, AdviceTimeOut, Assign
<1>9. CASE Crash
  <2>1. /\ UNCHANGED <<state, code>>
        /\ req' = [t \in Txns |-> IF At(t, "new") THEN req[t] ELSE Started("done")]
        /\ orphans' = [t \in Txns |-> "NONE"]
    BY <1>9 DEF Crash
  <2>2. Started("done").pc = "done"
    BY StartedType, Constants, Zenon
  <2>3. \A t \in Txns : req'[t].pc \notin {"answered", "reversing"} /\ orphans'[t] = "NONE"
    BY <2>1, <2>2 DEF At
  <2> QED
    BY <2>1, <2>3, Zenon DEF DeclineInv, DeclineOK
<1> QED
  BY <1>3, <1>4, <1>5, <1>6, <1>7, <1>8, <1>9 DEF Next, GatewayNext, SweeperStep, WorkerStep

(* No request has an outcome, or a follower, at the start. *)
LEMMA DeclineInit == Init => DeclineInv
<1> SUFFICES ASSUME Init PROVE DeclineInv
  OBVIOUS
<1>1. Started("new").pc = "new"
  BY StartedType, Constants, Zenon
<1> QED
  BY <1>1, Zenon DEF Init, DeclineInv, DeclineOK

(* A step changes at most one row, to a state that may follow; it reverses a decline only if that is
   a 96, and ends a reversal only on a signed 00 for it. *)
RowStep(t) ==
    /\ \A u \in Txns \ {t} : state'[u] = state[u] /\ code'[u] = code[u]
    /\ state'[t] \in Successors(state[t])
    /\ state'[t] \in {"REVERSAL_PENDING", "REVERSED"} => code' = code
    /\ state'[t] = "REVERSAL_PENDING" /\ state[t] = "DECLINED" => code[t] = "96"
    /\ state'[t] = "REVERSED" => \E a \in outbox : a.mti = "0430" /\ a.orig = t /\ a.rc = "00" /\ a.signed

(* Every step of the gateway is such a step. *)
LEMMA RowSteps ==
    ASSUME Parts, DeclineInv, [Next]_vars
    PROVE  UNCHANGED <<state, code>> \/ \E t \in Txns : RowStep(t)
<1>1. /\ state \in [Txns -> States] /\ code \in [Txns -> Codes] /\ DeclineInv
      /\ WorkerType /\ WorkerInv /\ RequestInv /\ OneReversal /\ OtherType
  BY DEF Parts, RowType
<1>2. ASSUME NEW t \in Txns, NEW from \in {"SENT", "TIMED_OUT", "DECLINED", "APPROVED"}, Queue(t, from),
             from = "DECLINED" => code[t] = "96", code' = code
      PROVE  RowStep(t)
  BY <1>1, <1>2, SuccessorsOf, Zenon DEF Queue, RowStep
<1>3. ASSUME NEW t \in Txns, RequestStep(t)
      PROVE  UNCHANGED <<state, code>> \/ RowStep(t)
  <2>1. RequestOK(req[t], state[t]) /\ DeclineOK(t)
    BY <1>1 DEF RequestInv, DeclineInv
  <2>2. CASE Create(t)
    <3>1. state[t] = "NONE"
      BY <2>1, <2>2, Zenon DEF Create, At, RequestOK
    <3> QED
      BY <1>1, <2>2, <3>1, SuccessorsOf, Zenon DEF Create, RowStep
  <2>3. CASE MarkSent(t)
    <3>1. state[t] = "CREATED"
      BY <2>1, <2>3, Zenon DEF MarkSent, At, RequestOK
    <3> QED
      BY <1>1, <2>3, <3>1, SuccessorsOf, Zenon DEF MarkSent, RowStep
  <2>4. CASE RecordStatus(t)
    <3>1. req[t].status \in {"APPROVED", "DECLINED", "TIMED_OUT"}
      BY <2>1, <2>4, Zenon DEF RecordStatus, At, RequestOK
    <3> QED
      BY <1>1, <2>4, <3>1, SuccessorsOf, Zenon DEF RecordStatus, RowStep
  <2>5. CASE QueueReversal(t)
    <3>1. req[t].current \in {"SENT", "TIMED_OUT", "DECLINED"} /\ code' = code
      BY <2>1, <2>5, Zenon DEF QueueReversal, At, RequestOK
    <3>2. Queue(t, req[t].current) /\ req[t].current = "DECLINED" => code[t] = "96"
      BY <2>1, <2>5, Zenon DEF Queue, QueueReversal, At, DeclineOK
    <3> QED
      BY <1>2, <2>5, <3>1, <3>2, Zenon DEF QueueReversal, QueueFails
  <2>6. CASE SendDuplicate(t) \/ DuplicateDone(t) \/ Send(t) \/ TimeOut(t) \/ \E a \in outbox : Receive(t, a)
    BY <2>6, Zenon DEF SendDuplicate, DuplicateDone, Send, TimeOut, Receive
  <2> QED
    BY <1>3, <2>2, <2>3, <2>4, <2>5, <2>6, Zenon DEF RequestStep
<1>4. ASSUME NEW c \in Cancels, CancelQueue(c)
      PROVE  UNCHANGED <<state, code>> \/ (RowStep(cancel[c]) /\ cancel[c] \in Txns)
  <2>1. cancel[c] \in Txns /\ code' = code
    BY <1>1, <1>4 DEF OtherType, CancelQueue
  <2> QED
    BY <1>2, <1>4, <2>1, Zenon DEF CancelQueue, QueueFails
<1>5. ASSUME NEW t \in Txns, FollowUp(t)
      PROVE  UNCHANGED <<state, code>> \/ RowStep(t)
  <2>1. code' = code /\ DeclineOK(t)
    BY <1>5 DEF FollowUp, DeclineInv
  <2>2. CASE orphans[t] \in {"TIMED_OUT", "DECLINED"} /\ Queue(t, orphans[t])
    <3>1. orphans[t] = "DECLINED" => code[t] = "96"
      BY <2>1, <2>2, Zenon DEF Queue, DeclineOK
    <3> QED
      BY <1>2, <2>1, <2>2, <3>1, Zenon
  <2>3. CASE state[t] = "SENT" /\ state' = [state EXCEPT ![t] = "TIMED_OUT"]
    BY <1>1, <2>1, <2>3, SuccessorsOf DEF RowStep
  <2> QED
    BY <1>5, <2>1, <2>2, <2>3, Zenon DEF FollowUp, QueueFails
<1>6. ASSUME NEW a \in outbox, Settle(a)
      PROVE  UNCHANGED <<state, code>> \/ (RowStep(sending) /\ sending \in Txns)
  <2>1. PICK t \in Txns : t = sending /\ t = waiting /\ adv[t].status = "IN_FLIGHT"
    BY <1>1, <1>6, Constants, Zenon DEF WorkerType, WorkerInv, Settle
  <2>2. state[t] = "REVERSAL_PENDING" /\ a.orig = t /\ a.mti = "0430" /\ code' = code
    BY <1>1, <1>6, <2>1, Zenon DEF OneReversal, Settle
  <2>3. CASE a.rc = "00" /\ a.signed /\ MarkAcked(sending)
    <3>1. state' = [state EXCEPT ![t] = "REVERSED"]
      BY <2>1, <2>2, <2>3, Zenon DEF MarkAcked
    <3> QED
      BY <1>1, <2>1, <2>2, <2>3, <3>1, SuccessorsOf, Zenon DEF RowStep
  <2>4. UNCHANGED state \/ (a.rc = "00" /\ a.signed /\ MarkAcked(sending))
    BY <1>6, Zenon DEF Settle
  <2> QED
    BY <2>2, <2>3, <2>4, Zenon
<1>7. CASE ClaimDue \/ SendAdvice \/ AdviceTimeOut \/ \E t \in Txns : Assign(t)
  BY <1>7, Zenon DEF ClaimDue, SendAdvice, AdviceTimeOut, Assign
<1>8. CASE \/ UNCHANGED vars \/ SweepOnce \/ LinkChanges \/ Crash
           \/ \E t \in Txns : GrowOld(t) \/ RetryDue(t)
           \/ \E c \in Cancels, t \in Txns : CancelRead(c, t)
           \/ \E a \in outbox : LateResponse(a)
           \/ \E m \in inbox : IssuerAnswers(m)
  BY <1>8 DEF vars, SweepOnce, LinkChanges, Crash, GrowOld, RetryDue, CancelRead, LateResponse, IssuerAnswers
<1> QED
  BY <1>3, <1>4, <1>5, <1>6, <1>7, <1>8 DEF Next, GatewayNext, SweeperStep, WorkerStep

(* "Declines ... have nothing to return" (cancelPurchase): a row that is DECLINED with any code but
   the 96 of a bad MAC stays as it is, whatever its request, the sweeper and the cancellations do. *)
THEOREM DeclinesAreFinal ==
    Spec => [][\A t \in Txns : state[t] = "DECLINED" /\ code[t] # "96" =>
                  state'[t] = state[t] /\ code'[t] = code[t]]_vars
<1> DEFINE Final == \A t \in Txns : state[t] = "DECLINED" /\ code[t] # "96" =>
                        state'[t] = state[t] /\ code'[t] = code[t]
<1>1. ASSUME IInv, DeclineInv, [Next]_vars PROVE Final
  <2>1. CASE UNCHANGED <<state, code>>
    BY <2>1
  <2>2. ASSUME NEW t \in Txns, RowStep(t) PROVE Final
    <3>1. Successors("DECLINED") = {"REVERSAL_PENDING"}
      BY DEF Successors
    <3> QED
      BY <2>2, <3>1 DEF RowStep
  <2> QED
    BY <1>1, <2>1, <2>2, RowSteps, PartsOfInvariant, Zenon
<1>2. IInv /\ DeclineInv /\ [Next]_vars => DeclineInv'
  BY DeclineStep, PartsOfInvariant
<1>3. IInv /\ DeclineInv /\ [Next]_vars => [Final]_vars
  BY <1>1
<1> QED
  BY <1>2, <1>3, DeclineInit, Inductive, PTL DEF Spec, Final

-----------------------------------------------------------------------------
Reversing(t) == state[t] \in {"REVERSAL_PENDING", "REVERSED"}

(* The three things a step does to the link: the request goroutine writes its 0200 or reads a signed
   0210, or else nothing is heard and at most the 0420 of a row whose reversal is pending leaves. *)
Writes(t) ==
    /\ t \notin left /\ left' = left \cup {t} /\ inbox' = inbox \cup {Message("0200", t)}
    /\ UNCHANGED <<outbox, heard>>
Hears(t, a) ==
    /\ a.mti = "0210" /\ a.orig = t /\ outbox' = outbox \ {a}
    /\ heard' = [heard EXCEPT ![t] = ResponseCodeOf(a)]
    /\ UNCHANGED <<inbox, left>>
Quiet ==
    /\ outbox' \subseteq outbox /\ UNCHANGED <<left, heard>>
    /\ \A m \in inbox' \ inbox : m.mti = "0420" /\ Reversing(m.orig)

(* Without the chaos duplicate a purchase leaves once. *)
LEMMA LinkSteps ==
    ASSUME IInv, HeardInv, Duplicates = FALSE, GatewayNext
    PROVE  Quiet \/ \E t \in Txns : Writes(t) \/ \E a \in outbox : Hears(t, a)
<1>1. ASSUME NEW t \in Txns, RequestStep(t) PROVE Quiet \/ Writes(t) \/ \E a \in outbox : Hears(t, a)
  <2>1. HeardOK(t)
    BY DEF HeardInv
  <2>2. CASE Send(t)
    BY <2>1, <2>2, Zenon DEF Send, At, HeardOK, Writes, Quiet
  <2>3. CASE \E a \in outbox : Receive(t, a)
    BY <2>3, Zenon DEF Receive, Hears, Quiet
  <2>4. ~SendDuplicate(t)
    BY <2>1, Zenon DEF SendDuplicate, At, HeardOK
  <2>5. CASE Create(t) \/ MarkSent(t) \/ DuplicateDone(t) \/ TimeOut(t) \/ RecordStatus(t) \/ QueueReversal(t)
    BY <2>5, Zenon DEF Create, MarkSent, DuplicateDone, TimeOut, RecordStatus, QueueReversal, linkVars, historyVars, Quiet
  <2> QED
    BY <1>1, <2>2, <2>3, <2>4, <2>5 DEF RequestStep
<1>2. CASE SendAdvice
  <2>1. UNCHANGED <<outbox, left, heard>> /\ (inbox' = inbox \/ (sending # None /\ inbox' = inbox \cup {Message("0420", sending)}))
    BY <1>2 DEF SendAdvice, historyVars
  <2>2. sending # None => Reversing(sending)
    BY DEF IInv, TypeOK, WorkerInv, OneReversal, Reversing
  <2> QED
    BY <2>1, <2>2 DEF Message, Quiet
<1>3. CASE ClaimDue \/ AdviceTimeOut \/ (\E t \in Txns : Assign(t)) \/ (\E a \in outbox : Settle(a))
  BY <1>3, Zenon DEF ClaimDue, AdviceTimeOut, Assign, Settle, linkVars, historyVars, Quiet
<1>4. CASE \/ SweeperStep \/ LinkChanges \/ Crash
           \/ \E t \in Txns : GrowOld(t) \/ RetryDue(t)
           \/ \E c \in Cancels : CancelQueue(c) \/ \E t \in Txns : CancelRead(c, t)
           \/ \E a \in outbox : LateResponse(a)
  BY <1>4 DEF SweeperStep, SweepOnce, FollowUp, LinkChanges, Crash, GrowOld, RetryDue,
              CancelQueue, CancelRead, LateResponse, linkVars, historyVars, Quiet
<1> QED
  BY <1>1, <1>2, <1>3, <1>4 DEF GatewayNext, WorkerStep
=============================================================================
