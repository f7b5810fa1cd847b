---------------------------- MODULE AdvTxnProofs -----------------------------
(***************************************************************************)
(* Theorems about AdvTxn: the claim of a pre-authorization, and what the   *)
(* request, the sweeper and the worker may do to a row.                    *)
(***************************************************************************)
EXTENDS AdvTxn, TLAPS

(* A decline for a bad MAC, which is reversed, and what becomes of it. *)
Reversing96(t) == state[t] \in {"DECLINED", "REVERSAL_PENDING", "REVERSED"} /\ code[t] = "96"

(* What a request knows of its row. *)
RequestOK(t) ==
    LET r == req[t] IN
    /\ r.pc \in {"new", "checked"} => state[t] = "NONE"
    /\ r.pc = "created" => state[t] = "CREATED"
    /\ r.pc = "advising" => IsCompletion(t)
    /\ r.pc = "reversing" => /\ ~IsCompletion(t)
                             /\ r.current \in {"SENT", "TIMED_OUT"} \/ (r.current = "DECLINED" /\ Reversing96(t))
    /\ r.pc = "answered" => /\ r.status \in {"APPROVED", "DECLINED", "TIMED_OUT"}
                            /\ r.macFailed => IF IsCompletion(t) THEN r.status = "TIMED_OUT"
                                              ELSE r.status = "DECLINED" /\ r.rc = "96"

(* What the sweeper knows of the declines in its batch. *)
SweeperOK(t) == orphans[t] = "DECLINED" => ~IsCompletion(t) /\ Reversing96(t)

Unknown(c) == state[c] \in {"TIMED_OUT", "APPROVED"}
Claims(c) == by[Original[c]] = c
Valid(c) == kind[Original[c]] = "PREAUTH" /\ amount[c] <= amount[Original[c]]

(* A completion, as long as none of its statements failed: whoever may still send it, or already
   did, holds the claim. *)
ClaimKept(c) ==
    /\ \/ req[c].pc \in {"created", "ready", "waiting", "answered", "advising"}
       \/ state[c] = "SENT" \/ Unknown(c)
       => Claims(c)
    /\ req[c].pc \in {"ready", "waiting", "answered"} => state[c] = "SENT" \/ Unknown(c)
    /\ req[c].pc = "advising" => Unknown(c)
    /\ req[c].pc = "releasing" => state[c] \in {"CREATED", "DECLINED"}
    /\ orphans[c] = "TIMED_OUT" => Unknown(c)
    /\ (\E o \in Origins : saf[c][o].status # "NONE") => Unknown(c)
    /\ c \in left => state[c] \in {"SENT", "DECLINED"} \/ Unknown(c)

ClaimOK(c) ==
    IsCompletion(c) =>
        /\ req[c].pc = "checked" => Valid(c)
        /\ Claims(c) => Valid(c) /\ state[Original[c]] = "APPROVED"
        /\ c \notin torn => ClaimKept(c)

Good(t) == RequestOK(t) /\ SweeperOK(t) /\ ClaimOK(t)

SendingOK == sending # None => saf[sending[1]][sending[2]].status # "NONE"

IInv == TypeOK /\ SendingOK /\ \A t \in Txns : Good(t)

-----------------------------------------------------------------------------
(* What a step may do to a row with an outcome: OutcomeKept, for one row. *)
Kept(t) ==
    state[t] \in {"APPROVED", "DECLINED", "REVERSAL_PENDING", "REVERSED"} =>
        \/ state'[t] = state[t] /\ code'[t] = code[t]
        \/ state'[t] = "REVERSAL_PENDING" /\ state[t] = "DECLINED" /\ code[t] = "96" /\ ~IsCompletion(t)
        \/ state'[t] = "REVERSED" /\ state[t] = "REVERSAL_PENDING"

(* A step on t leaves the other transactions alone, except that it takes a free claim or gives up
   its own. *)
LEMMA Frame ==
    ASSUME IInv, TypeOK', SendingOK', NEW t \in Txns, Good(t)',
           UNCHANGED <<kind, amount>>, torn \subseteq torn', left' \subseteq left \cup {t},
           \A c \in Txns \ {t} : /\ state'[c] = state[c] /\ code'[c] = code[c] /\ req'[c] = req[c]
                                 /\ saf'[c] = saf[c] /\ orphans'[c] = orphans[c],
           Kept(t),
           \A p \in Txns : \/ by'[p] = by[p]
                           \/ by[p] = None /\ by'[p] = t
                           \/ by[p] = t /\ by'[p] = None
    PROVE  IInv' /\ \A c \in Txns : Kept(c)
<1> SUFFICES ASSUME NEW c \in Txns, c # t PROVE Good(c)'
  BY DEF IInv, Kept
<1>1. Good(c)
  BY DEF IInv
<1>2. Original[c] \in Txns /\ None \notin Txns
  BY AdvTxnAssumption
<1>3. RequestOK(c)' /\ SweeperOK(c)'
  BY <1>1 DEF Good, RequestOK, SweeperOK, Reversing96, IsCompletion
<1>4. Claims(c)' <=> Claims(c)
  BY <1>2 DEF Claims
<1>5. state[Original[c]] = "APPROVED" => state'[Original[c]] = "APPROVED"
  BY <1>2 DEF Kept
<1>6. ClaimKept(c) => ClaimKept(c)'
  BY <1>4 DEF ClaimKept, Unknown
<1>7. Valid(c)' <=> Valid(c)
  BY DEF Valid
<1>8. ClaimOK(c)'
  BY <1>1, <1>4, <1>5, <1>6, <1>7 DEF Good, ClaimOK, IsCompletion
<1> QED BY <1>3, <1>8 DEF Good

-----------------------------------------------------------------------------
(* The values that the actions write are members of their types. *)
LEMMA Values ==
    /\ {"new", "checked", "created", "ready", "waiting", "answered", "releasing", "advising", "reversing", "done"} = Steps
    /\ {"NONE", "CREATED", "SENT", "TIMED_OUT", "APPROVED", "DECLINED", "REVERSAL_PENDING", "REVERSED"} = States
    /\ {"", "00", "91", "96"} \subseteq Codes /\ IssuerCodes \subseteq Codes
    /\ \A step \in Steps : Started(step) \in Requests /\ Started(step).pc = step /\ Started(step).current = "NONE"
    /\ Queued \in SafRows /\ NoRow \in SafRows /\ Queued.status = "PENDING" /\ NoRow.status = "NONE"
    /\ \A row \in SafRows : \A st \in {"ACKED", "DEAD"} :
          [row EXCEPT !.status = st] \in SafRows /\ [row EXCEPT !.status = st].status = st
<1>1. {"new", "checked", "created", "ready", "waiting", "answered", "releasing", "advising", "reversing", "done"} = Steps
  BY DEF Steps
<1>2. {"NONE", "CREATED", "SENT", "TIMED_OUT", "APPROVED", "DECLINED", "REVERSAL_PENDING", "REVERSED"} = States
  BY DEF States
<1>3. {"", "00", "91", "96"} \subseteq Codes /\ IssuerCodes \subseteq Codes
  BY AdvTxnAssumption, Zenon DEF Codes
<1>4. \A step \in Steps : Started(step) \in Requests /\ Started(step).pc = step /\ Started(step).current = "NONE"
  BY <1>2, <1>3, Zenon DEF Requests, Started
<1>5. 0 \in 0..(MaxAttempts - 1)
  BY AdvTxnAssumption
<1>6. Queued \in SafRows /\ NoRow \in SafRows /\ Queued.status = "PENDING" /\ NoRow.status = "NONE"
  BY <1>5 DEF Queued, NoRow, SafRows
<1>7. \A row \in SafRows : \A st \in {"ACKED", "DEAD"} :
          [row EXCEPT !.status = st] \in SafRows /\ [row EXCEPT !.status = st].status = st
  BY DEF SafRows
<1> QED BY <1>1, <1>2, <1>3, <1>4, <1>6, <1>7, Zenon

(* A jump to a step of the request. *)
LEMMA Jumps ==
    ASSUME TypeOK, NEW t \in Txns, NEW step \in Steps, Goto(t, step)
    PROVE  /\ req' \in [Txns -> Requests] /\ req'[t] = Started(step) /\ req'[t].pc = step
           /\ \A c \in Txns \ {t} : req'[c] = req[c]
BY Values, ZenonT(30) DEF TypeOK, Goto

(* An outcome of the send. *)
LEMMA Outcomes ==
    ASSUME TypeOK, NEW t \in Txns, NEW status \in States, NEW rc \in Codes, NEW bad \in BOOLEAN,
           Answered(t, status, rc, bad)
    PROVE  /\ req' \in [Txns -> Requests]
           /\ req'[t].pc = "answered" /\ req'[t].status = status /\ req'[t].rc = rc /\ req'[t].macFailed = bad
           /\ \A c \in Txns \ {t} : req'[c] = req[c]
<1> DEFINE r == [pc |-> "answered", status |-> status, rc |-> rc, macFailed |-> bad, current |-> "NONE"]
<1>1. r \in Requests
  BY Values, Zenon DEF Requests
<1>2. req' = [req EXCEPT ![t] = r]
  BY DEF Answered
<1> QED BY <1>1, <1>2 DEF TypeOK

(* The step after the outcome is recorded. *)
LEMMA Finalizes ==
    ASSUME TypeOK, NEW t \in Txns, NEW current \in States, Finalize(t, current)
    PROVE  /\ req' \in [Txns -> Requests]
           /\ req'[t].pc = Owed(t) /\ req'[t].current = current
           /\ \A c \in Txns \ {t} : req'[c] = req[c]
           /\ Owed(t) \in {"done", "releasing", "advising", "reversing"}
<1>1. Owed(t) \in {"done", "releasing", "advising", "reversing"}
  BY DEF Owed
<1>2. Owed(t) \in Steps
  BY <1>1, Values, Zenon
<1> DEFINE r == [Started(Owed(t)) EXCEPT !.current = current]
<1>3. r \in Requests /\ r.pc = Owed(t) /\ r.current = current
  <2>1. Started(Owed(t)) \in Requests /\ Started(Owed(t)).pc = Owed(t)
    BY <1>2, Values, Zenon
  <2>2. \A q \in Requests : [q EXCEPT !.current = current] \in Requests
                           /\ [q EXCEPT !.current = current].pc = q.pc
                           /\ [q EXCEPT !.current = current].current = current
    BY DEF Requests
  <2> QED BY <2>1, <2>2
<1>4. req' = [req EXCEPT ![t] = r]
  BY DEF Finalize
<1> HIDE DEF r
<1> QED BY <1>1, <1>3, <1>4 DEF TypeOK

(* The kinds are those of a scenario. *)
LEMMA KindsKnown == TypeOK => kind \in [Txns -> Kinds] /\ amount \in [Txns -> Nat]
<1> SUFFICES ASSUME TypeOK PROVE kind \in [Txns -> Kinds] /\ amount \in [Txns -> Nat]
  OBVIOUS
<1>1. [kind |-> kind, amount |-> amount] \in [kind : [Txns -> Kinds], amount : [Txns -> Nat]]
  BY AdvTxnAssumption DEF TypeOK
<1> QED BY <1>1

-----------------------------------------------------------------------------
(* A completion that createCompletion did not refuse asks for no more than its pre-auth holds. *)
LEMMA CreateStep ==
    ASSUME IInv, NEW t \in Txns, Create(t)
    PROVE  IInv' /\ \A c \in Txns : Kept(c)
<1>0. TypeOK /\ Good(t) /\ Original[t] \in Txns /\ kind \in [Txns -> Kinds] /\ amount \in [Txns -> Nat]
  BY KindsKnown, AdvTxnAssumption DEF IInv
<1>1. /\ At(t, "new") /\ UNCHANGED <<kind, amount, up, by, saf, workVars, crashes, left, failures, torn>>
      /\ \/ up /\ Goto(t, "checked") /\ UNCHANGED <<state, code>> /\ (IsCompletion(t) => Valid(t))
         \/ RecordLinkDown(t)
         \/ Goto(t, "done") /\ UNCHANGED <<state, code>>
  <2>1. Create(t) => CreateCompletion(t) \/ (~IsCompletion(t) /\ (Unresolved(t) \/ Proceed(t)))
    BY DEF Create, CreatePreAuth, CreateRefund, CreateBalanceInquiry, IsCompletion
  <2>2. ~Refused(t) => Valid(t)
    BY <1>0 DEF Refused, Valid
  <2> QED BY <2>1, <2>2 DEF Create, CreateCompletion, Unresolved, Proceed, Refuse, Works
<1>2. state[t] = "NONE"
  BY <1>0, <1>1 DEF Good, RequestOK, At
<1>3. /\ state \in [Txns -> States] /\ code \in [Txns -> Codes] /\ "DECLINED" \in States /\ "91" \in Codes
      /\ "done" \in Steps /\ "checked" \in Steps
  BY <1>0, Values, Zenon DEF TypeOK
<1>4. /\ req' \in [Txns -> Requests] /\ state' \in [Txns -> States] /\ code' \in [Txns -> Codes]
      /\ \A c \in Txns \ {t} : state'[c] = state[c] /\ code'[c] = code[c] /\ req'[c] = req[c]
      /\ \/ req'[t].pc = "checked" /\ state'[t] = "NONE" /\ (IsCompletion(t) => Valid(t))
         \/ req'[t].pc = "done" /\ state'[t] \in {"NONE", "DECLINED"}
  BY <1>0, <1>1, <1>2, <1>3, Jumps DEF RecordLinkDown
<1>5. TypeOK'
  BY <1>0, <1>1, <1>4 DEF TypeOK, workVars
<1>6. Good(t)'
  <2>1. RequestOK(t)'
    BY <1>4 DEF RequestOK
  <2>2. SweeperOK(t)'
    BY <1>0, <1>1, <1>2 DEF Good, SweeperOK, Reversing96, workVars
  <2>3. IsCompletion(t) /\ t \notin torn => ClaimKept(t)'
    BY <1>0, <1>1, <1>2, <1>4 DEF Good, ClaimOK, ClaimKept, Unknown, workVars
  <2>4. Claims(t) /\ IsCompletion(t) => state'[Original[t]] = "APPROVED"
    BY <1>0, <1>2, <1>4 DEF Good, ClaimOK
  <2>5. (Claims(t)' <=> Claims(t)) /\ (Valid(t)' <=> Valid(t)) /\ (IsCompletion(t)' <=> IsCompletion(t))
    BY <1>1 DEF Claims, Valid, IsCompletion
  <2>6. ClaimOK(t)'
    BY <1>0, <1>1, <1>4, <2>3, <2>4, <2>5 DEF Good, ClaimOK
  <2> QED BY <2>1, <2>2, <2>6 DEF Good
<1>7. SendingOK'
  BY <1>1 DEF IInv, SendingOK, workVars
<1>8. Kept(t)
  BY <1>2 DEF Kept
<1> QED BY <1>1, <1>4, <1>5, <1>6, <1>7, <1>8, Frame DEF workVars

(* The row and its claim are one transaction, so the claim is there whenever the row is. *)
LEMMA InsertStep ==
    ASSUME IInv, NEW t \in Txns, Insert(t)
    PROVE  IInv' /\ \A c \in Txns : Kept(c)
<1>0. TypeOK /\ Good(t) /\ Original[t] \in Txns /\ None \notin Txns /\ kind \in [Txns -> Kinds]
  BY KindsKnown, AdvTxnAssumption DEF IInv
<1>1. /\ At(t, "checked") /\ UNCHANGED <<kind, amount, up, code, saf, workVars, crashes, left>>
      /\ state[t] = "NONE"
  BY <1>0 DEF Insert, Good, RequestOK, At
<1>2. /\ torn \subseteq torn' /\ torn' \subseteq Txns /\ failures' \in 0..MaxFailures
      /\ req' \in [Txns -> Requests] /\ \A c \in Txns \ {t} : req'[c] = req[c]
      /\ req'[t].pc \in {"created", "done"} /\ (req'[t].pc = "created" => torn' = torn)
  <2>1. "created" \in Steps /\ "done" \in Steps
    BY Values, Zenon
  <2>2. (Works /\ Goto(t, "created")) \/ (Fails(t) /\ Goto(t, "done")) \/ (Works /\ Goto(t, "done"))
    BY DEF Insert
  <2>3. (Works \/ Fails(t)) => torn \subseteq torn' /\ torn' \subseteq Txns /\ failures' \in 0..MaxFailures
    BY <1>0, AdvTxnAssumption DEF Works, Fails, TypeOK
  <2> QED BY <1>0, <2>1, <2>2, <2>3, Jumps DEF Works
<1>3. CASE state' = [state EXCEPT ![t] = "CREATED"] /\ (IsCompletion(t) => Claimable(t))
           /\ by' = IF IsCompletion(t) THEN [by EXCEPT ![Original[t]] = t] ELSE by
  <2>1. /\ state' \in [Txns -> States] /\ state'[t] = "CREATED" /\ \A c \in Txns \ {t} : state'[c] = state[c]
        /\ by' \in [Txns -> Txns \cup {None}]
    BY <1>0, <1>3, Values, ZenonT(30) DEF TypeOK
  <2>2. \A p \in Txns : by'[p] = by[p] \/ (by[p] = None /\ by'[p] = t)
    BY <1>0, <1>3 DEF TypeOK, Claimable
  <2>3. TypeOK'
    BY <1>0, <1>1, <1>2, <2>1 DEF TypeOK, workVars
  <2>4. RequestOK(t)' /\ SweeperOK(t)'
    BY <1>0, <1>1, <1>2, <2>1 DEF RequestOK, Good, SweeperOK, Reversing96, workVars
  <2>5. IsCompletion(t) => /\ Claims(t)' /\ Valid(t)'
                           /\ state'[Original[t]] = "APPROVED"
    <3>1. IsCompletion(t) => Valid(t) /\ Claimable(t) /\ Original[t] # t
      BY <1>0, <1>1, <1>3 DEF Good, ClaimOK, At, Claimable, IsCompletion
    <3> QED BY <1>0, <1>1, <1>3, <2>1, <3>1 DEF Claims, Valid, Claimable, TypeOK
  <2>6. IsCompletion(t) /\ t \notin torn => ClaimKept(t)'
    BY <1>0, <1>1, <1>2, <2>1, <2>5 DEF Good, ClaimOK, ClaimKept, Unknown, workVars
  <2>7. Good(t)'
    BY <1>1, <1>2, <2>4, <2>5, <2>6 DEF Good, ClaimOK, IsCompletion
  <2>8. SendingOK' /\ Kept(t)
    BY <1>1 DEF IInv, SendingOK, workVars, Kept
  <2> QED BY <1>1, <1>2, <2>1, <2>2, <2>3, <2>7, <2>8, Frame DEF workVars
<1>4. CASE UNCHANGED <<state, by>> /\ Goto(t, "done")
  <2>1. TypeOK'
    BY <1>0, <1>1, <1>2, <1>4 DEF TypeOK, workVars
  <2>2. req'[t].pc = "done"
    BY <1>0, <1>4, Values, Jumps, Zenon
  <2>3. RequestOK(t)' /\ SweeperOK(t)'
    BY <1>0, <1>1, <1>4, <2>2, Zenon DEF RequestOK, Good, SweeperOK, Reversing96, IsCompletion, workVars
  <2>4. IsCompletion(t) /\ t \notin torn => ClaimKept(t)'
    BY <1>0, <1>1, <1>4, <2>2, Zenon DEF Good, ClaimOK, ClaimKept, Unknown, workVars
  <2>5. (Claims(t)' <=> Claims(t)) /\ (Valid(t)' <=> Valid(t)) /\ (IsCompletion(t)' <=> IsCompletion(t))
    BY <1>1, <1>4 DEF Claims, Valid, IsCompletion
  <2>6. Good(t)'
    BY <1>0, <1>2, <1>4, <2>2, <2>3, <2>4, <2>5 DEF Good, ClaimOK
  <2>7. SendingOK' /\ Kept(t)
    BY <1>1 DEF IInv, SendingOK, workVars, Kept
  <2> QED BY <1>1, <1>2, <1>4, <2>1, <2>6, <2>7, Frame DEF workVars
<1> QED BY <1>3, <1>4 DEF Insert

(* A step on the row of t that touches no claim. *)
LEMMA RowStep ==
    ASSUME IInv, TypeOK', SendingOK', NEW t \in Txns,
           UNCHANGED <<kind, amount, by>>, torn \subseteq torn', left' \subseteq left \cup {t},
           \A c \in Txns \ {t} : /\ state'[c] = state[c] /\ code'[c] = code[c] /\ req'[c] = req[c]
                                 /\ saf'[c] = saf[c] /\ orphans'[c] = orphans[c],
           Kept(t), RequestOK(t)', SweeperOK(t)',
           IsCompletion(t) /\ t \notin torn' => ClaimKept(t)',
           req'[t].pc = "checked" => req[t].pc = "checked"
    PROVE  IInv' /\ \A c \in Txns : Kept(c)
<1>1. Original[t] \in Txns /\ Good(t)
  BY AdvTxnAssumption DEF IInv
<1>2. state[Original[t]] = "APPROVED" => state'[Original[t]] = "APPROVED"
  BY <1>1 DEF Kept
<1>3. (Claims(t)' <=> Claims(t)) /\ (Valid(t)' <=> Valid(t)) /\ (IsCompletion(t)' <=> IsCompletion(t))
  BY DEF Claims, Valid, IsCompletion
<1>4. Good(t)'
  BY <1>1, <1>2, <1>3, Zenon DEF Good, ClaimOK
<1> QED BY <1>4, Frame

(* A statement of t works or fails. *)
LEMMA Statement ==
    ASSUME TypeOK, NEW t \in Txns, Works \/ Fails(t)
    PROVE  /\ torn \subseteq torn' /\ torn' \subseteq Txns /\ failures' \in 0..MaxFailures
           /\ Fails(t) => t \in torn'
BY AdvTxnAssumption DEF Works, Fails, TypeOK

(* markSending: the claim it is about to release belongs to a row that is still CREATED, unless the
   UPDATE to SENT failed after its commit. *)
LEMMA MarkSendingStep ==
    ASSUME IInv, NEW t \in Txns, MarkSending(t)
    PROVE  IInv' /\ \A c \in Txns : Kept(c)
<1>0. TypeOK /\ Good(t)
  BY DEF IInv
<1>1. /\ At(t, "created") /\ UNCHANGED <<kind, amount, up, code, by, saf, workVars, crashes, left>>
      /\ state[t] = "CREATED"
  BY <1>0 DEF MarkSending, Good, RequestOK, At
<1>2. \/ state' = [state EXCEPT ![t] = "SENT"] /\ Works /\ Goto(t, "ready")
      \/ state' = [state EXCEPT ![t] = "SENT"] /\ Fails(t) /\ Goto(t, "releasing")
      \/ UNCHANGED state /\ Works /\ Goto(t, "releasing")
  BY DEF MarkSending
<1>3. /\ req' \in [Txns -> Requests] /\ state' \in [Txns -> States]
      /\ \A c \in Txns \ {t} : state'[c] = state[c] /\ req'[c] = req[c]
      /\ \/ req'[t].pc = "ready" /\ state'[t] = "SENT"
         \/ req'[t].pc = "releasing" /\ state'[t] = "SENT" /\ Fails(t)
         \/ req'[t].pc = "releasing" /\ state'[t] = "CREATED"
  <2>1. "ready" \in Steps /\ "releasing" \in Steps /\ "SENT" \in States /\ state \in [Txns -> States]
    BY <1>0, Values, Zenon DEF TypeOK
  <2> QED BY <1>0, <1>1, <1>2, <2>1, Jumps
<1>4. /\ torn \subseteq torn' /\ torn' \subseteq Txns /\ failures' \in 0..MaxFailures /\ (Fails(t) => t \in torn')
  BY <1>0, <1>2, Statement
<1>5. TypeOK' /\ SendingOK' /\ Kept(t)
  BY <1>0, <1>1, <1>3, <1>4 DEF IInv, TypeOK, SendingOK, Kept, workVars
<1>6. RequestOK(t)' /\ SweeperOK(t)'
  BY <1>0, <1>1, <1>3, Zenon DEF Good, RequestOK, SweeperOK, Reversing96, workVars
<1>7. IsCompletion(t) /\ t \notin torn' => ClaimKept(t)'
  BY <1>0, <1>1, <1>3, <1>4, Zenon DEF Good, ClaimOK, ClaimKept, Claims, Unknown, At, workVars
<1> QED BY <1>1, <1>3, <1>4, <1>5, <1>6, <1>7, RowStep, Zenon DEF workVars

(* Send: a 0220 leaves with the row SENT, or given up by the sweeper meanwhile. *)
LEMMA SendStep ==
    ASSUME IInv, NEW t \in Txns, Send(t)
    PROVE  IInv' /\ \A c \in Txns : Kept(c)
<1>0. TypeOK /\ Good(t)
  BY DEF IInv
<1>1. At(t, "ready") /\ Works /\ UNCHANGED <<kind, amount, up, state, code, by, saf, workVars, crashes>>
  BY DEF Send
<1>2. /\ req' \in [Txns -> Requests] /\ \A c \in Txns \ {t} : req'[c] = req[c]
      /\ \/ req'[t].pc = "waiting" /\ left' = left \cup {t}
         \/ /\ req'[t].pc = "answered" /\ req'[t].status = "DECLINED" /\ ~req'[t].macFailed
            /\ UNCHANGED left
  <2>1. "waiting" \in Steps /\ "DECLINED" \in States /\ "91" \in Codes
    BY Values, Zenon
  <2>2. \/ Goto(t, "waiting") /\ left' = left \cup {t}
        \/ Answered(t, "DECLINED", "91", FALSE) /\ UNCHANGED left
    BY Zenon DEF Send
  <2> QED BY <1>0, <2>1, <2>2, Jumps, Outcomes, Zenon
<1>3. torn' = torn /\ failures' = failures
  BY <1>1 DEF Works
<1>4. TypeOK' /\ SendingOK' /\ Kept(t)
  BY <1>0, <1>1, <1>2, <1>3 DEF IInv, TypeOK, SendingOK, Kept, workVars
<1>5. RequestOK(t)' /\ SweeperOK(t)'
  BY <1>0, <1>1, <1>2, SMTT(30) DEF Good, RequestOK, SweeperOK, Reversing96, IsCompletion, workVars
<1>6. IsCompletion(t) /\ t \notin torn' => ClaimKept(t)'
  BY <1>0, <1>1, <1>2, <1>3, Zenon DEF Good, ClaimOK, ClaimKept, Claims, Unknown, At, workVars
<1> QED BY <1>1, <1>2, <1>3, <1>4, <1>5, <1>6, RowStep, Zenon DEF workVars

(* Receive and TimeOut: a bad MAC leaves a completion unknown and declines anything else with 96. *)
LEMMA AnswerStep ==
    ASSUME IInv, NEW t \in Txns,
           TimeOut(t) \/ \E rc \in IssuerCodes, signed \in BOOLEAN : Receive(t, rc, signed)
    PROVE  IInv' /\ \A c \in Txns : Kept(c)
<1>0. TypeOK /\ Good(t)
  BY DEF IInv
<1>1. At(t, "waiting") /\ Works /\ UNCHANGED <<kind, amount, up, state, code, by, saf, workVars, crashes, left>>
  BY Zenon DEF TimeOut, Receive
<1>2. /\ req' \in [Txns -> Requests] /\ \A c \in Txns \ {t} : req'[c] = req[c]
      /\ req'[t].pc = "answered" /\ req'[t].status \in {"APPROVED", "DECLINED", "TIMED_OUT"}
      /\ req'[t].macFailed => IF IsCompletion(t) THEN req'[t].status = "TIMED_OUT"
                              ELSE req'[t].status = "DECLINED" /\ req'[t].rc = "96"
  <2>1. {"APPROVED", "DECLINED", "TIMED_OUT"} \subseteq States /\ {"", "96"} \subseteq Codes /\ IssuerCodes \subseteq Codes
    BY Values, Zenon
  <2>2. CASE TimeOut(t)
    <3>1. Answered(t, "TIMED_OUT", "", FALSE)
      BY <2>2, Zenon DEF TimeOut
    <3> QED BY <1>0, <2>1, <3>1, Outcomes, Zenon
  <2>3. ASSUME NEW rc \in IssuerCodes, NEW signed \in BOOLEAN, Receive(t, rc, signed)
        PROVE  <1>2!1 /\ <1>2!2 /\ <1>2!3
    <3>1. \/ Answered(t, "APPROVED", rc, FALSE) \/ Answered(t, "DECLINED", rc, FALSE)
          \/ IsCompletion(t) /\ Answered(t, "TIMED_OUT", "", TRUE)
          \/ ~IsCompletion(t) /\ Answered(t, "DECLINED", "96", TRUE)
      BY <2>3, Zenon DEF Receive, Outcome
    <3> QED BY <1>0, <2>1, <3>1, Outcomes, ZenonT(30)
  <2> QED BY <2>2, <2>3
<1>3. torn' = torn /\ failures' = failures
  BY <1>1 DEF Works
<1>4. TypeOK' /\ SendingOK' /\ Kept(t)
  BY <1>0, <1>1, <1>2, <1>3 DEF IInv, TypeOK, SendingOK, Kept, workVars
<1>5. RequestOK(t)' /\ SweeperOK(t)'
  BY <1>0, <1>1, <1>2 DEF Good, RequestOK, SweeperOK, Reversing96, IsCompletion, workVars
<1>6. IsCompletion(t) /\ t \notin torn' => ClaimKept(t)'
  BY <1>0, <1>1, <1>2, <1>3, Zenon DEF Good, ClaimOK, ClaimKept, Claims, Unknown, At, workVars
<1> QED BY <1>1, <1>2, <1>3, <1>4, <1>5, <1>6, RowStep, Zenon DEF workVars

(* ReleaseClaim gives up a claim only when nothing was sent or the issuer declined. *)
LEMMA ReleaseStep ==
    ASSUME IInv, NEW t \in Txns, ReleaseClaim(t)
    PROVE  IInv' /\ \A c \in Txns : Kept(c)
<1>0. TypeOK /\ Good(t) /\ Original[t] \in Txns /\ None \notin Txns
  BY AdvTxnAssumption DEF IInv
<1>1. /\ At(t, "releasing") /\ Goto(t, "done")
      /\ UNCHANGED <<kind, amount, up, state, code, saf, workVars, crashes, left>>
  BY DEF ReleaseClaim
<1>2. req' \in [Txns -> Requests] /\ req'[t].pc = "done" /\ \A c \in Txns \ {t} : req'[c] = req[c]
  BY <1>0, <1>1, Values, Jumps, Zenon
<1>3. torn \subseteq torn' /\ torn' \subseteq Txns /\ failures' \in 0..MaxFailures
  <2>1. Works \/ Fails(t)
    BY DEF ReleaseClaim
  <2> QED BY <1>0, <2>1, Statement
<1>4. /\ by' \in [Txns -> Txns \cup {None}]
      /\ \A p \in Txns : by'[p] = by[p] \/ (by[p] = t /\ by'[p] = None)
  <2>1. by' = by \/ (by[Original[t]] = t /\ by' = [by EXCEPT ![Original[t]] = None])
    BY DEF ReleaseClaim, Released
  <2> QED BY <1>0, <2>1, Zenon DEF TypeOK
<1>5. TypeOK' /\ SendingOK' /\ Kept(t)
  BY <1>0, <1>1, <1>2, <1>3, <1>4, Zenon DEF IInv, TypeOK, SendingOK, Kept, workVars
<1>6. RequestOK(t)' /\ SweeperOK(t)'
  BY <1>0, <1>1, <1>2, Zenon DEF Good, RequestOK, SweeperOK, Reversing96, IsCompletion, workVars
<1>7. ClaimOK(t)'
  <2>1. IsCompletion(t) /\ t \notin torn' => ClaimKept(t)'
    BY <1>0, <1>1, <1>2, <1>3, Zenon DEF Good, ClaimOK, ClaimKept, Unknown, At, workVars
  <2>2. Claims(t)' => Claims(t)
    BY <1>0, <1>4 DEF Claims
  <2>3. (Valid(t)' <=> Valid(t)) /\ (IsCompletion(t)' <=> IsCompletion(t))
    BY <1>1 DEF Valid, IsCompletion
  <2> QED BY <1>0, <1>1, <1>2, <2>1, <2>2, <2>3, Zenon DEF Good, ClaimOK
<1> QED BY <1>1, <1>2, <1>3, <1>4, <1>5, <1>6, <1>7, Frame, Zenon DEF Good, workVars

(* recordStatus: the row leaves SENT for the outcome, and only then. *)
LEMMA RecordStep ==
    ASSUME IInv, NEW t \in Txns, RecordStatus(t)
    PROVE  IInv' /\ \A c \in Txns : Kept(c)
<1>0. TypeOK /\ Good(t) /\ req[t] \in Requests
  BY DEF IInv, TypeOK
<1> DEFINE st == req[t].status
           rc == req[t].rc
<1>1. /\ At(t, "answered") /\ UNCHANGED <<kind, amount, up, by, saf, workVars, crashes, left>>
      /\ st \in {"APPROVED", "DECLINED", "TIMED_OUT"} /\ rc \in Codes
      /\ req[t].macFailed => IF IsCompletion(t) THEN st = "TIMED_OUT" ELSE st = "DECLINED" /\ rc = "96"
  BY <1>0, Zenon DEF RecordStatus, Good, RequestOK, At, Requests
<1>2. /\ torn \subseteq torn' /\ torn' \subseteq Txns /\ failures' \in 0..MaxFailures /\ (Fails(t) => t \in torn')
  <2>1. Works \/ Fails(t)
    BY Zenon DEF RecordStatus
  <2> QED BY <1>0, <2>1, Statement
<1>3. /\ Owed(t) = "reversing" => ~IsCompletion(t) /\ (st = "TIMED_OUT" \/ (st = "DECLINED" /\ rc = "96"))
      /\ Owed(t) = "advising" => IsCompletion(t) /\ st = "TIMED_OUT"
      /\ Owed(t) = "releasing" => st = "DECLINED"
  <2>1. Owed(t) = "reversing" => ~IsCompletion(t) /\ (st = "TIMED_OUT" \/ (st = "DECLINED" /\ rc = "96"))
    <3> SUFFICES ASSUME Owed(t) = "reversing"
                 PROVE  ~IsCompletion(t) /\ (st = "TIMED_OUT" \/ (st = "DECLINED" /\ rc = "96"))
      OBVIOUS
    <3>1. st = "TIMED_OUT" \/ req[t].macFailed
      BY DEF Owed
    <3>2. ~(IsCompletion(t) /\ st = "TIMED_OUT")
      BY DEF Owed
    <3> QED BY <1>1, <3>1, <3>2
  <2>2. Owed(t) = "advising" => IsCompletion(t) /\ st = "TIMED_OUT"
    BY DEF Owed
  <2>3. Owed(t) = "releasing" => st = "DECLINED"
    BY DEF Owed
  <2> QED BY <2>1, <2>2, <2>3
<1>4. {st, "SENT", "TIMED_OUT"} \subseteq States /\ state \in [Txns -> States] /\ code \in [Txns -> Codes]
  BY <1>0, <1>1, Values, Zenon DEF TypeOK
<1> HIDE DEF st, rc
<1>5. CASE /\ state[t] = "SENT" /\ state' = [state EXCEPT ![t] = st] /\ code' = [code EXCEPT ![t] = rc]
           /\ (Works /\ Finalize(t, st)) \/ (Fails(t) /\ Finalize(t, "SENT"))
  <2>1. /\ req' \in [Txns -> Requests] /\ \A c \in Txns \ {t} : req'[c] = req[c]
        /\ req'[t].pc = Owed(t) /\ Owed(t) \in {"done", "releasing", "advising", "reversing"}
        /\ req'[t].current \in {st, "SENT"}
    BY <1>0, <1>4, <1>5, Finalizes, SMTT(30)
  <2>2. /\ state' \in [Txns -> States] /\ code' \in [Txns -> Codes] /\ state'[t] = st /\ code'[t] = rc
        /\ \A c \in Txns \ {t} : state'[c] = state[c] /\ code'[c] = code[c]
    BY <1>1, <1>4, <1>5
  <2>3. TypeOK' /\ SendingOK' /\ Kept(t)
    BY <1>0, <1>1, <1>2, <1>5, <2>1, <2>2, Zenon DEF IInv, TypeOK, SendingOK, Kept, workVars
  <2>4. RequestOK(t)'
    BY <1>1, <1>3, <2>1, <2>2, Zenon DEF RequestOK, Reversing96, IsCompletion
  <2>5. SweeperOK(t)'
    BY <1>0, <1>1, <1>5, Zenon DEF Good, SweeperOK, Reversing96, workVars
  <2>6. IsCompletion(t) /\ t \notin torn' => ClaimKept(t)'
    BY <1>0, <1>1, <1>2, <1>3, <1>5, <2>1, <2>2, Zenon DEF Good, ClaimOK, ClaimKept, Claims, Unknown, At, workVars
  <2> QED BY <1>1, <1>2, <2>1, <2>2, <2>3, <2>4, <2>5, <2>6, RowStep, Zenon DEF workVars
<1>6. CASE /\ UNCHANGED <<state, code>>
           /\ (state[t] # "SENT" /\ Goto(t, "done")) \/ (Fails(t) /\ Finalize(t, "SENT"))
  <2>1. /\ req' \in [Txns -> Requests] /\ \A c \in Txns \ {t} : req'[c] = req[c]
        /\ \/ req'[t].pc = "done"
           \/ /\ req'[t].pc = Owed(t) /\ Owed(t) \in {"done", "releasing", "advising", "reversing"}
              /\ req'[t].current = "SENT" /\ Fails(t)
    BY <1>0, <1>4, <1>6, Finalizes, Jumps, Values, ZenonT(30)
  <2>2. TypeOK' /\ SendingOK' /\ Kept(t)
    BY <1>0, <1>1, <1>2, <1>6, <2>1, Zenon DEF IInv, TypeOK, SendingOK, Kept, workVars
  <2>3. RequestOK(t)'
    BY <1>1, <1>3, <2>1, Zenon DEF RequestOK, IsCompletion
  <2>4. SweeperOK(t)'
    BY <1>0, <1>1, <1>6, Zenon DEF Good, SweeperOK, Reversing96, IsCompletion, workVars
  <2>5. IsCompletion(t) /\ t \notin torn' => ClaimKept(t)'
    BY <1>0, <1>1, <1>2, <1>6, <2>1, Zenon DEF Good, ClaimOK, ClaimKept, Claims, Unknown, At, workVars
  <2> QED BY <1>1, <1>2, <1>6, <2>1, <2>2, <2>3, <2>4, <2>5, RowStep, Zenon DEF workVars
<1> QED BY <1>5, <1>6, Zenon DEF RecordStatus, st, rc

(* The rows of saf_queue a step of t writes. *)
LEMMA QueueWrites ==
    ASSUME TypeOK, NEW t \in Txns, NEW o \in Origins, saf' = [saf EXCEPT ![t][o] = Queued]
    PROVE  /\ saf' \in [Txns -> [Origins -> SafRows]]
           /\ \A c \in Txns \ {t} : saf'[c] = saf[c]
           /\ \A u \in Origins : saf'[t][u] = saf[t][u] \/ saf'[t][u].status = "PENDING"
<1>1. saf \in [Txns -> [Origins -> SafRows]] /\ saf[t] \in [Origins -> SafRows]
  BY DEF TypeOK
<1>2. Queued \in SafRows /\ Queued.status = "PENDING"
  BY Values, Zenon
<1> HIDE DEF Queued, SafRows
<1>3. saf' = [saf EXCEPT ![t] = [saf[t] EXCEPT ![o] = Queued]]
  OBVIOUS
<1>4. [saf[t] EXCEPT ![o] = Queued] \in [Origins -> SafRows]
  BY <1>1, <1>2
<1>5. saf' \in [Txns -> [Origins -> SafRows]] /\ saf'[t] = [saf[t] EXCEPT ![o] = Queued]
  BY <1>1, <1>3, <1>4
<1>6. \A c \in Txns \ {t} : saf'[c] = saf[c]
  BY <1>1, <1>3
<1>7. \A u \in Origins : saf'[t][u] = IF u = o THEN Queued ELSE saf[t][u]
  BY <1>1, <1>5
<1> QED BY <1>2, <1>5, <1>6, <1>7

(* Queued rows stay queued, so what the worker waits on stays a row. *)
LEMMA StillQueued ==
    ASSUME IInv, NEW t \in Txns, UNCHANGED sending,
           \A c \in Txns \ {t} : saf'[c] = saf[c],
           \A u \in Origins : saf[t][u].status # "NONE" => saf'[t][u].status # "NONE"
    PROVE  SendingOK'
<1> SUFFICES ASSUME sending # None PROVE saf'[sending[1]][sending[2]].status # "NONE"
  BY DEF SendingOK
<1>1. sending[1] \in Txns /\ sending[2] \in Origins
  BY DEF IInv, TypeOK, SafKeys
<1>2. saf[sending[1]][sending[2]].status # "NONE"
  BY DEF IInv, SendingOK
<1> QED BY <1>1, <1>2

(* The state that Queue leaves, from a state the caller read. *)
LEMMA QueueStep ==
    ASSUME TypeOK, NEW t \in Txns, NEW o \in Origins, NEW from, Queue(t, o, from),
           from \in {"SENT", "TIMED_OUT"} \/ (from = "DECLINED" /\ Reversing96(t)), ~IsCompletion(t),
           UNCHANGED code
    PROVE  /\ state' \in [Txns -> States] /\ state'[t] = "REVERSAL_PENDING"
           /\ saf' \in [Txns -> [Origins -> SafRows]]
           /\ \A c \in Txns \ {t} : state'[c] = state[c] /\ saf'[c] = saf[c]
           /\ \A u \in Origins : saf'[t][u] = saf[t][u] \/ saf'[t][u].status = "PENDING"
           /\ Kept(t)
<1>1. saf' = [saf EXCEPT ![t][o] = Queued] /\ state' = [state EXCEPT ![t] = "REVERSAL_PENDING"] /\ state[t] = from
  BY DEF Queue
<1>2. state \in [Txns -> States] /\ "REVERSAL_PENDING" \in States
  BY Values, Zenon DEF TypeOK
<1>3. Kept(t)
  BY <1>1, <1>2 DEF Kept, Reversing96
<1> QED BY <1>1, <1>2, <1>3, QueueWrites, Zenon

(* finalize's follow-up of an unknown outcome. *)
LEMMA FollowUpRequestStep ==
    ASSUME IInv, NEW t \in Txns, FollowUpRequest(t)
    PROVE  IInv' /\ \A c \in Txns : Kept(c)
<1>0. TypeOK /\ Good(t) /\ "request" \in Origins
  BY DEF IInv, Origins
<1>1. Goto(t, "done") /\ UNCHANGED <<kind, amount, up, code, by, workVars, crashes, left>>
  BY Zenon DEF FollowUpRequest
<1>2. /\ req' \in [Txns -> Requests] /\ req'[t].pc = "done" /\ \A c \in Txns \ {t} : req'[c] = req[c]
  BY <1>0, <1>1, Values, Jumps, Zenon
<1>3. torn \subseteq torn' /\ torn' \subseteq Txns /\ failures' \in 0..MaxFailures
  <2>1. Works \/ Fails(t)
    BY DEF FollowUpRequest
  <2> QED BY <1>0, <2>1, Statement
<1>4. RequestOK(t)'
  BY <1>2 DEF RequestOK
<1>5. CASE At(t, "advising") /\ QueueAdvice(t, "request")
  <2>1. UNCHANGED state /\ saf' = [saf EXCEPT ![t]["request"] = Queued] /\ IsCompletion(t)
    BY <1>0, <1>5 DEF QueueAdvice, Good, RequestOK, At
  <2>2. /\ saf' \in [Txns -> [Origins -> SafRows]]
        /\ \A c \in Txns \ {t} : saf'[c] = saf[c]
        /\ \A u \in Origins : saf'[t][u] = saf[t][u] \/ saf'[t][u].status = "PENDING"
    BY <1>0, <2>1, QueueWrites, Zenon
  <2>3. SendingOK'
    BY <1>1, <2>2, StillQueued DEF workVars
  <2>4. TypeOK' /\ Kept(t) /\ SweeperOK(t)'
    BY <1>0, <1>1, <1>2, <1>3, <2>1, <2>2, Zenon DEF TypeOK, Kept, Good, SweeperOK, Reversing96, IsCompletion, workVars
  <2>5. t \notin torn' => ClaimKept(t)'
    BY <1>0, <1>1, <1>2, <1>3, <1>5, <2>1, <2>2, Zenon DEF Good, ClaimOK, ClaimKept, Claims, Unknown, At, workVars
  <2> QED BY <1>1, <1>2, <1>3, <1>4, <2>1, <2>2, <2>3, <2>4, <2>5, RowStep, Zenon DEF workVars
<1>6. CASE At(t, "reversing") /\ Queue(t, "request", req[t].current)
  <2>1. /\ ~IsCompletion(t)
        /\ req[t].current \in {"SENT", "TIMED_OUT"} \/ (req[t].current = "DECLINED" /\ Reversing96(t))
    BY <1>0, <1>6, Zenon DEF Good, RequestOK, At
  <2>2. /\ state' \in [Txns -> States] /\ state'[t] = "REVERSAL_PENDING"
        /\ saf' \in [Txns -> [Origins -> SafRows]]
        /\ \A c \in Txns \ {t} : state'[c] = state[c] /\ saf'[c] = saf[c]
        /\ \A u \in Origins : saf'[t][u] = saf[t][u] \/ saf'[t][u].status = "PENDING"
        /\ Kept(t)
    BY <1>0, <1>1, <1>6, <2>1, QueueStep, Zenon
  <2>3. SendingOK'
    BY <1>1, <2>2, StillQueued, Zenon DEF workVars
  <2>4. TypeOK' /\ SweeperOK(t)'
    BY <1>0, <1>1, <1>2, <1>3, <2>2 DEF TypeOK, Good, SweeperOK, Reversing96, IsCompletion, workVars
  <2> QED BY <1>1, <1>2, <1>3, <1>4, <2>1, <2>2, <2>3, <2>4, RowStep, Zenon DEF workVars
<1>7. CASE UNCHANGED <<state, saf>> /\ (At(t, "advising") \/ At(t, "reversing"))
  <2>1. TypeOK' /\ Kept(t) /\ SweeperOK(t)' /\ SendingOK'
    BY <1>0, <1>1, <1>2, <1>3, <1>7, SMTT(30)
    DEF IInv, TypeOK, Kept, Good, SweeperOK, Reversing96, IsCompletion, SendingOK, workVars
  <2>2. IsCompletion(t) /\ t \notin torn' => ClaimKept(t)'
    BY <1>0, <1>1, <1>2, <1>3, <1>7, Zenon DEF Good, ClaimOK, ClaimKept, Claims, Unknown, At, workVars
  <2> QED BY <1>1, <1>2, <1>3, <1>4, <1>7, <2>1, <2>2, RowStep, Zenon DEF workVars
<1> QED BY <1>5, <1>6, <1>7 DEF FollowUpRequest

(* The sweeper's followUp of one row of its batch. *)
LEMMA FollowUpStep ==
    ASSUME IInv, NEW t \in Txns, FollowUp(t)
    PROVE  IInv' /\ \A c \in Txns : Kept(c)
<1>0. TypeOK /\ Good(t) /\ "sweeper" \in Origins /\ orphans \in [Txns -> {"NONE", "SENT", "TIMED_OUT", "DECLINED"}]
  BY DEF IInv, Origins, TypeOK
<1>1. UNCHANGED <<kind, amount, up, code, by, req, sending, crashes, left>>
  BY Zenon DEF FollowUp
<1>3. torn \subseteq torn' /\ torn' \subseteq Txns /\ failures' \in 0..MaxFailures
  <2>1. Works \/ Fails(t)
    BY DEF FollowUp
  <2> QED BY <1>0, <2>1, Statement
<1>4. CASE /\ state[t] = "SENT" /\ state' = [state EXCEPT ![t] = "TIMED_OUT"] /\ UNCHANGED saf
           /\ orphans' = [orphans EXCEPT ![t] = IF kind[t] = "BALANCE" THEN "NONE" ELSE "TIMED_OUT"]
  <2>1. /\ state' \in [Txns -> States] /\ state'[t] = "TIMED_OUT"
        /\ orphans' \in [Txns -> {"NONE", "SENT", "TIMED_OUT", "DECLINED"}] /\ orphans'[t] \in {"NONE", "TIMED_OUT"}
        /\ \A c \in Txns \ {t} : state'[c] = state[c] /\ orphans'[c] = orphans[c]
    <3>1. state' \in [Txns -> States] /\ state'[t] = "TIMED_OUT" /\ \A c \in Txns \ {t} : state'[c] = state[c]
      BY <1>0, <1>4, Values, ZenonT(30) DEF TypeOK
    <3>2. orphans'[t] \in {"NONE", "TIMED_OUT"} /\ \A c \in Txns \ {t} : orphans'[c] = orphans[c]
      BY <1>0, <1>4
    <3>3. orphans' \in [Txns -> {"NONE", "SENT", "TIMED_OUT", "DECLINED"}]
      BY <1>0, <1>4
    <3> QED BY <3>1, <3>2, <3>3
  <2>2. TypeOK' /\ Kept(t) /\ SweeperOK(t)' /\ SendingOK'
    BY <1>0, <1>1, <1>3, <1>4, <2>1, Zenon DEF IInv, TypeOK, Kept, SweeperOK, SendingOK
  <2>3. RequestOK(t)'
    BY <1>0, <1>1, <1>4, <2>1, Zenon DEF Good, RequestOK, Reversing96, IsCompletion
  <2>4. IsCompletion(t) /\ t \notin torn' => ClaimKept(t)'
    BY <1>0, <1>1, <1>3, <1>4, <2>1, Zenon DEF Good, ClaimOK, ClaimKept, Claims, Unknown
  <2> QED BY <1>1, <1>3, <1>4, <2>1, <2>2, <2>3, <2>4, RowStep, Zenon
<1>5. CASE orphans' = [orphans EXCEPT ![t] = "NONE"] /\ UNCHANGED <<state, saf>>
  <2>1. /\ orphans' \in [Txns -> {"NONE", "SENT", "TIMED_OUT", "DECLINED"}] /\ orphans'[t] = "NONE"
        /\ \A c \in Txns \ {t} : orphans'[c] = orphans[c]
    BY <1>0, <1>5
  <2>2. TypeOK' /\ Kept(t) /\ SweeperOK(t)' /\ SendingOK'
    BY <1>0, <1>1, <1>3, <1>5, <2>1 DEF IInv, TypeOK, Kept, SweeperOK, SendingOK
  <2>3. RequestOK(t)'
    BY <1>0, <1>1, <1>5, Zenon DEF Good, RequestOK, Reversing96, IsCompletion
  <2>4. IsCompletion(t) /\ t \notin torn' => ClaimKept(t)'
    BY <1>0, <1>1, <1>3, <1>5, <2>1, Zenon DEF Good, ClaimOK, ClaimKept, Claims, Unknown
  <2> QED BY <1>1, <1>3, <1>5, <2>1, <2>2, <2>3, <2>4, RowStep, Zenon
<1>6. CASE /\ orphans[t] \in {"TIMED_OUT", "DECLINED"} /\ IsCompletion(t) /\ QueueAdvice(t, "sweeper")
           /\ orphans' = [orphans EXCEPT ![t] = "NONE"]
  <2>1. /\ orphans' \in [Txns -> {"NONE", "SENT", "TIMED_OUT", "DECLINED"}] /\ orphans'[t] = "NONE"
        /\ \A c \in Txns \ {t} : orphans'[c] = orphans[c]
    BY <1>0, <1>6
  <2>2. UNCHANGED state /\ saf' = [saf EXCEPT ![t]["sweeper"] = Queued] /\ orphans[t] = "TIMED_OUT"
    BY <1>0, <1>6 DEF QueueAdvice, Good, SweeperOK
  <2>3. /\ saf' \in [Txns -> [Origins -> SafRows]]
        /\ \A c \in Txns \ {t} : saf'[c] = saf[c]
        /\ \A u \in Origins : saf'[t][u] = saf[t][u] \/ saf'[t][u].status = "PENDING"
    BY <1>0, <2>2, QueueWrites, Zenon
  <2>4. SendingOK'
    BY <1>1, <2>3, StillQueued
  <2>5. TypeOK' /\ Kept(t) /\ SweeperOK(t)'
    BY <1>0, <1>1, <1>3, <2>1, <2>2, <2>3 DEF TypeOK, Kept, SweeperOK
  <2>6. RequestOK(t)'
    BY <1>0, <1>1, <2>2, SMTT(30) DEF Good, RequestOK, Reversing96, IsCompletion
  <2>7. t \notin torn' => ClaimKept(t)'
    BY <1>0, <1>1, <1>3, <1>6, <2>1, <2>2, <2>3, Zenon DEF Good, ClaimOK, ClaimKept, Claims, Unknown
  <2> QED BY <1>1, <1>3, <2>1, <2>2, <2>3, <2>4, <2>5, <2>6, <2>7, RowStep, Zenon
<1>7. CASE /\ orphans[t] \in {"TIMED_OUT", "DECLINED"} /\ ~IsCompletion(t) /\ Queue(t, "sweeper", orphans[t])
           /\ orphans' = [orphans EXCEPT ![t] = "NONE"]
  <2>1. /\ orphans' \in [Txns -> {"NONE", "SENT", "TIMED_OUT", "DECLINED"}] /\ orphans'[t] = "NONE"
        /\ \A c \in Txns \ {t} : orphans'[c] = orphans[c]
    BY <1>0, <1>7
  <2>2. orphans[t] \in {"SENT", "TIMED_OUT"} \/ (orphans[t] = "DECLINED" /\ Reversing96(t))
    BY <1>0, <1>7 DEF Good, SweeperOK
  <2>3. /\ state' \in [Txns -> States] /\ state'[t] = "REVERSAL_PENDING"
        /\ saf' \in [Txns -> [Origins -> SafRows]]
        /\ \A c \in Txns \ {t} : state'[c] = state[c] /\ saf'[c] = saf[c]
        /\ \A u \in Origins : saf'[t][u] = saf[t][u] \/ saf'[t][u].status = "PENDING"
        /\ Kept(t)
    BY <1>0, <1>1, <1>7, <2>2, QueueStep, Zenon
  <2>4. SendingOK'
    BY <1>1, <2>3, StillQueued, Zenon
  <2>5. TypeOK' /\ SweeperOK(t)'
    BY <1>0, <1>1, <1>3, <2>1, <2>3 DEF TypeOK, SweeperOK
  <2>6. RequestOK(t)'
    <3>1. state[t] \in {"TIMED_OUT", "DECLINED"}
      BY <1>7 DEF Queue
    <3> QED BY <1>0, <1>1, <2>3, <3>1, Zenon DEF Good, RequestOK, Reversing96, IsCompletion
  <2> QED BY <1>1, <1>3, <1>7, <2>1, <2>3, <2>4, <2>5, <2>6, RowStep, Zenon
<1> QED BY <1>4, <1>5, <1>6, <1>7 DEF FollowUp

-----------------------------------------------------------------------------
(* The worker writes one row of saf_queue, and never deletes it. *)
LEMMA SafWrites ==
    ASSUME TypeOK, NEW r \in SafKeys, NEW row \in SafRows, row.status # "NONE", SetSaf(r, row)
    PROVE  /\ r[1] \in Txns /\ r[2] \in Origins
           /\ saf' \in [Txns -> [Origins -> SafRows]]
           /\ \A c \in Txns \ {r[1]} : saf'[c] = saf[c]
           /\ \A u \in Origins : saf'[r[1]][u] = saf[r[1]][u] \/ (u = r[2] /\ saf'[r[1]][u] = row)
<1>1. r[1] \in Txns /\ r[2] \in Origins
  BY DEF SafKeys
<1>2. saf' = [saf EXCEPT ![r[1]][r[2]] = row]
  BY DEF SetSaf
<1> QED BY <1>1, <1>2 DEF TypeOK

(* A retry counts an attempt or gives the row up. *)
LEMMA Retries ==
    ASSUME TypeOK, NEW r \in SafKeys, saf[r[1]][r[2]].status # "NONE", RetryLater(r)
    PROVE  \E row \in SafRows : row.status # "NONE" /\ SetSaf(r, row)
<1> DEFINE row == saf[r[1]][r[2]]
<1>1. row \in SafRows
  BY Zenon DEF TypeOK, SafKeys
<1>2. CASE row.attempts + 1 >= MaxAttempts
  <2>1. [row EXCEPT !.status = "DEAD"] \in SafRows /\ [row EXCEPT !.status = "DEAD"].status = "DEAD"
    BY <1>1, Values, Zenon
  <2> QED BY <1>2, <2>1, Zenon DEF RetryLater
<1>3. CASE ~(row.attempts + 1 >= MaxAttempts)
  <2>1. row.attempts + 1 \in 0..(MaxAttempts - 1)
    BY <1>1, <1>3, AdvTxnAssumption DEF SafRows
  <2>2. [row EXCEPT !.attempts = @ + 1] \in SafRows /\ [row EXCEPT !.attempts = @ + 1].status = row.status
    BY <1>1, <2>1 DEF SafRows
  <2> QED BY <1>3, <2>2, Zenon DEF RetryLater
<1> QED BY <1>2, <1>3

(* A step of the worker on the row r: it writes that row or none, and may acknowledge. *)
LEMMA WorkerWrites ==
    ASSUME IInv, NEW r \in SafKeys, saf[r[1]][r[2]].status # "NONE",
           UNCHANGED saf \/ \E row \in SafRows : row.status # "NONE" /\ SetSaf(r, row),
           UNCHANGED <<state, code>> \/ FinishOnAck(r[1]),
           UNCHANGED <<kind, amount, up, by, req, orphans, crashes>>,
           Works \/ Fails(r[1]),
           sending' \in {None, r}, left' \subseteq left \cup {r[1]}
    PROVE  IInv' /\ \A c \in Txns : Kept(c)
<1> DEFINE t == r[1]
<1>0. TypeOK /\ t \in Txns /\ r[2] \in Origins /\ Good(t)
  BY DEF IInv, SafKeys
<1>1. torn \subseteq torn' /\ torn' \subseteq Txns /\ failures' \in 0..MaxFailures
  BY <1>0, Statement, Zenon
<1>2. /\ saf' \in [Txns -> [Origins -> SafRows]]
      /\ \A c \in Txns \ {t} : saf'[c] = saf[c]
      /\ \A u \in Origins : saf'[t][u] = saf[t][u] \/ (u = r[2] /\ saf'[t][u].status # "NONE")
  <2>1. CASE UNCHANGED saf
    BY <1>0, <2>1 DEF TypeOK
  <2>2. CASE \E row \in SafRows : row.status # "NONE" /\ SetSaf(r, row)
    BY <1>0, <2>2, SafWrites
  <2> QED BY <2>1, <2>2
<1>3. /\ state' \in [Txns -> States] /\ code' \in [Txns -> Codes]
      /\ \A c \in Txns \ {t} : state'[c] = state[c] /\ code'[c] = code[c]
      /\ \/ state'[t] = state[t] /\ code'[t] = code[t]
         \/ IsCompletion(t) /\ state[t] = "TIMED_OUT" /\ state'[t] = "APPROVED"
         \/ ~IsCompletion(t) /\ state[t] = "REVERSAL_PENDING" /\ state'[t] = "REVERSED" /\ code'[t] = code[t]
  <2>1. /\ state \in [Txns -> States] /\ code \in [Txns -> Codes]
        /\ "APPROVED" \in States /\ "REVERSED" \in States /\ "00" \in Codes
    BY <1>0, Values, Zenon DEF TypeOK
  <2>2. \/ UNCHANGED <<state, code>>
        \/ /\ IsCompletion(t) /\ state[t] = "TIMED_OUT"
           /\ state' = [state EXCEPT ![t] = "APPROVED"] /\ code' = [code EXCEPT ![t] = "00"]
        \/ /\ ~IsCompletion(t) /\ state[t] = "REVERSAL_PENDING"
           /\ state' = [state EXCEPT ![t] = "REVERSED"] /\ UNCHANGED code
    BY Zenon DEF FinishOnAck
  <2> QED BY <1>0, <2>1, <2>2, SMTT(30)
<1>4. SendingOK'
  <2> SUFFICES ASSUME sending' # None PROVE saf'[r[1]][r[2]].status # "NONE"
    BY Zenon DEF SendingOK
  <2> QED BY <1>0, <1>2
<1>5. TypeOK' /\ Kept(t)
  BY <1>0, <1>1, <1>2, <1>3, Zenon DEF TypeOK, Kept
<1>6. RequestOK(t)' /\ SweeperOK(t)'
  BY <1>0, <1>3, Zenon DEF Good, RequestOK, SweeperOK, Reversing96, IsCompletion
<1>7. IsCompletion(t) /\ t \notin torn' => ClaimKept(t)'
  <2> SUFFICES ASSUME IsCompletion(t), t \notin torn' PROVE ClaimKept(t)'
    BY Zenon
  <2>1. ClaimKept(t) /\ Unknown(t)
    BY <1>0, <1>1, Zenon DEF Good, ClaimOK, ClaimKept
  <2>2. Unknown(t)' /\ Claims(t)'
    BY <1>3, <2>1, Zenon DEF Unknown, ClaimKept, Claims
  <2> QED BY <1>3, <2>1, <2>2, Zenon DEF ClaimKept, Unknown
<1> HIDE DEF t
<1> QED BY <1>0, <1>1, <1>2, <1>3, <1>4, <1>5, <1>6, <1>7, RowStep, Zenon DEF t

(* The store-and-forward worker: a repeat leaves only for a row that is queued. *)
LEMMA WorkerSteps ==
    ASSUME IInv, WorkerStep
    PROVE  IInv' /\ \A c \in Txns : Kept(c)
<1>0. TypeOK /\ SendingOK
  BY DEF IInv
<1>1. CASE AdviceTimeOut
  <2>1. sending \in SafKeys /\ saf[sending[1]][sending[2]].status # "NONE" /\ RetryLater(sending)
    BY <1>0, <1>1 DEF AdviceTimeOut, TypeOK, SendingOK
  <2>2. \E row \in SafRows : row.status # "NONE" /\ SetSaf(sending, row)
    BY <1>0, <2>1, Retries
  <2> QED BY <1>1, <2>1, <2>2, WorkerWrites DEF AdviceTimeOut
<1>2. ASSUME NEW r \in SafKeys, DeliverRow(r)
      PROVE  IInv' /\ \A c \in Txns : Kept(c)
  <2>1. saf[r[1]][r[2]].status = "PENDING" /\ saf[r[1]][r[2]] \in SafRows
    BY <1>0, <1>2 DEF DeliverRow, TypeOK, SafKeys
  <2>2. UNCHANGED saf \/ \E row \in SafRows : row.status # "NONE" /\ SetSaf(r, row)
    <3>1. UNCHANGED saf \/ SetSaf(r, [saf[r[1]][r[2]] EXCEPT !.status = "DEAD"])
      BY <1>2 DEF DeliverRow
    <3>2. /\ [saf[r[1]][r[2]] EXCEPT !.status = "DEAD"] \in SafRows
          /\ [saf[r[1]][r[2]] EXCEPT !.status = "DEAD"].status = "DEAD"
      BY <2>1, Values, Zenon
    <3> QED BY <3>1, <3>2, Zenon
  <2>3. /\ UNCHANGED <<kind, amount, up, state, code, by, req, orphans, crashes>> /\ Works
        /\ sending' \in {None, r} /\ left' \subseteq left \cup {r[1]}
    BY <1>2 DEF DeliverRow
  <2> QED BY <2>1, <2>2, <2>3, WorkerWrites, Zenon
<1>3. ASSUME NEW rc \in IssuerCodes, NEW signed \in BOOLEAN, Settle(rc, signed)
      PROVE  IInv' /\ \A c \in Txns : Kept(c)
  <2>1. /\ sending \in SafKeys /\ saf[sending[1]][sending[2]].status # "NONE"
        /\ saf[sending[1]][sending[2]] \in SafRows
    BY <1>0, <1>3 DEF Settle, TypeOK, SendingOK, SafKeys
  <2>2. UNCHANGED saf \/ \E row \in SafRows : row.status # "NONE" /\ SetSaf(sending, row)
    <3>1. \/ UNCHANGED saf \/ RetryLater(sending)
          \/ SetSaf(sending, [saf[sending[1]][sending[2]] EXCEPT !.status = "ACKED"])
      BY <1>3 DEF Settle
    <3>2. /\ [saf[sending[1]][sending[2]] EXCEPT !.status = "ACKED"] \in SafRows
          /\ [saf[sending[1]][sending[2]] EXCEPT !.status = "ACKED"].status = "ACKED"
      BY <2>1, Values, Zenon
    <3>3. RetryLater(sending) => \E row \in SafRows : row.status # "NONE" /\ SetSaf(sending, row)
      BY <1>0, <2>1, Retries
    <3> QED BY <3>1, <3>2, <3>3, Zenon
  <2>3. /\ UNCHANGED <<state, code>> \/ FinishOnAck(sending[1])
        /\ UNCHANGED <<kind, amount, up, by, req, orphans, crashes, left>> /\ sending' = None
        /\ Works \/ Fails(sending[1])
    BY <1>3 DEF Settle
  <2> QED BY <2>1, <2>2, <2>3, WorkerWrites, Zenon
<1> QED BY <1>1, <1>2, <1>3 DEF WorkerStep

-----------------------------------------------------------------------------
(* SweepOnce reads; LinkChanges and Crash touch no table. *)
LEMMA OtherSteps ==
    ASSUME IInv, SweepOnce \/ LinkChanges \/ Crash \/ UNCHANGED vars
    PROVE  IInv' /\ \A c \in Txns : Kept(c)
<1>0. TypeOK /\ SendingOK /\ \A t \in Txns : Good(t)
  BY DEF IInv
<1>1. UNCHANGED <<kind, amount, state, code, by, saf, left, torn, failures>> /\ sending' \in {sending, None}
  BY DEF SweepOnce, LinkChanges, Crash, Works, vars, workVars
<1>2. /\ up' \in BOOLEAN /\ crashes' \in 0..MaxCrashes
      /\ orphans' \in [Txns -> {"NONE", "SENT", "TIMED_OUT", "DECLINED"}]
      /\ \A t \in Txns : orphans'[t] = orphans[t] \/ orphans'[t] = "NONE" \/ (Orphan(t) /\ orphans'[t] = state[t])
  <2>1. CASE SweepOnce
    <3>1. \A t \in Txns : Orphan(t) => state[t] \in {"SENT", "TIMED_OUT", "DECLINED"}
      BY DEF Orphan
    <3> QED BY <1>0, <2>1, <3>1 DEF SweepOnce, TypeOK
  <2>2. CASE LinkChanges
    BY <1>0, <2>2 DEF LinkChanges, TypeOK, workVars
  <2>3. CASE Crash
    <3>1. up' = up /\ crashes' = crashes + 1 /\ crashes < MaxCrashes
      BY <2>3 DEF Crash
    <3>2. up' \in BOOLEAN /\ crashes' \in 0..MaxCrashes
      BY <1>0, <3>1, AdvTxnAssumption, SMTT(30) DEF TypeOK
    <3>3. orphans' \in [Txns -> {"NONE", "SENT", "TIMED_OUT", "DECLINED"}] /\ \A t \in Txns : orphans'[t] = "NONE"
      BY <2>3 DEF Crash
    <3> QED BY <3>2, <3>3
  <2>4. CASE UNCHANGED vars
    BY <1>0, <2>4 DEF TypeOK, vars, workVars
  <2> QED BY <2>1, <2>2, <2>3, <2>4, Zenon
<1>3. /\ req' \in [Txns -> Requests]
      /\ \A t \in Txns : req'[t] = req[t] \/ req'[t].pc = "done"
  <2>1. Started("done") \in Requests /\ Started("done").pc = "done"
    BY Values, Zenon
  <2>2. UNCHANGED req \/ req' = [t \in Txns |-> IF At(t, "new") THEN req[t] ELSE Started("done")]
    BY DEF SweepOnce, LinkChanges, Crash, vars, workVars
  <2> QED BY <1>0, <2>1, <2>2 DEF TypeOK
<1>4. TypeOK' /\ SendingOK'
  BY <1>0, <1>1, <1>2, <1>3, Zenon DEF TypeOK, SendingOK
<1>5. ASSUME NEW t \in Txns
      PROVE  Good(t)' /\ Kept(t)
  <2>0. Good(t)
    BY <1>0
  <2>1. RequestOK(t)'
    BY <1>1, <1>3, <2>0, Zenon DEF Good, RequestOK, Reversing96, IsCompletion
  <2>2. SweeperOK(t)'
    BY <1>1, <1>2, <2>0, Zenon DEF Good, SweeperOK, Reversing96, IsCompletion, Orphan
  <2>3. IsCompletion(t) /\ t \notin torn => ClaimKept(t)'
    BY <1>1, <1>2, <1>3, <2>0, Zenon DEF Good, ClaimOK, ClaimKept, Claims, Unknown
  <2>4. (Claims(t)' <=> Claims(t)) /\ (Valid(t)' <=> Valid(t)) /\ (IsCompletion(t)' <=> IsCompletion(t))
    BY <1>1, Zenon DEF Claims, Valid, IsCompletion
  <2>5. ClaimOK(t)'
    BY <1>1, <1>3, <2>0, <2>3, <2>4, Zenon DEF Good, ClaimOK
  <2> QED BY <1>1, <2>1, <2>2, <2>5, Zenon DEF Good, Kept
<1> QED BY <1>4, <1>5 DEF IInv

-----------------------------------------------------------------------------
(* IInv holds before the first request. *)
LEMMA InductiveInit == Init => IInv
<1> SUFFICES ASSUME Init PROVE IInv
  OBVIOUS
<1>1. PICK s \in Scenarios : kind = s.kind /\ amount = s.amount
  BY Zenon DEF Init
<1>2. [kind |-> kind, amount |-> amount] \in Scenarios
  <2>1. s \in [kind : [Txns -> Kinds], amount : [Txns -> Nat]]
    BY <1>1, AdvTxnAssumption
  <2>2. s = [kind |-> s.kind, amount |-> s.amount]
    BY <2>1
  <2> QED BY <1>1, <2>2
<1>3. Started("new") \in Requests /\ Started("new").pc = "new"
  BY Values, Zenon
<1>4. TypeOK
  <2>1. /\ "NONE" \in States /\ "" \in Codes /\ NoRow \in SafRows
    BY Values, Zenon
  <2>2. /\ state \in [Txns -> States] /\ code \in [Txns -> Codes] /\ by \in [Txns -> Txns \cup {None}]
        /\ req \in [Txns -> Requests] /\ orphans \in [Txns -> {"NONE", "SENT", "TIMED_OUT", "DECLINED"}]
    BY <1>3, <2>1, Zenon DEF Init
  <2>3. saf \in [Txns -> [Origins -> SafRows]]
    BY <2>1, Zenon DEF Init
  <2>4. up \in BOOLEAN /\ sending \in SafKeys \cup {None} /\ left \subseteq Txns /\ torn \subseteq Txns
    BY Zenon DEF Init
  <2>5. crashes = 0 /\ failures = 0
    BY Zenon DEF Init
  <2>6. crashes \in 0..MaxCrashes /\ failures \in 0..MaxFailures
    BY <2>5, AdvTxnAssumption
  <2> QED BY <1>2, <2>2, <2>3, <2>4, <2>6 DEF TypeOK
<1>5. SendingOK
  BY Zenon DEF Init, SendingOK
<1>6. ASSUME NEW t \in Txns PROVE Good(t)
  <2>1. /\ req[t].pc = "new" /\ state[t] = "NONE" /\ orphans[t] = "NONE" /\ t \notin left
        /\ \A o \in Origins : saf[t][o].status = "NONE"
    BY <1>3, Values, Zenon DEF Init
  <2>2. by[Original[t]] # t
    BY AdvTxnAssumption, Zenon DEF Init
  <2> QED BY <2>1, <2>2, Zenon DEF Good, RequestOK, SweeperOK, ClaimOK, ClaimKept, Claims, Unknown
<1> QED BY <1>4, <1>5, <1>6 DEF IInv

(* Every step keeps it, and keeps the outcome of every row. *)
LEMMA InductiveStep ==
    ASSUME IInv, [Next]_vars
    PROVE  IInv' /\ \A c \in Txns : Kept(c)
<1>1. ASSUME NEW t \in Txns, RequestStep(t)
      PROVE  IInv' /\ \A c \in Txns : Kept(c)
  BY <1>1, CreateStep, InsertStep, MarkSendingStep, SendStep, AnswerStep, RecordStep, ReleaseStep,
     FollowUpRequestStep DEF RequestStep
<1>2. ASSUME NEW t \in Txns, FollowUp(t)
      PROVE  IInv' /\ \A c \in Txns : Kept(c)
  BY <1>2, FollowUpStep
<1>3. CASE WorkerStep
  BY <1>3, WorkerSteps
<1>4. CASE SweepOnce \/ LinkChanges \/ Crash \/ UNCHANGED vars
  BY <1>4, OtherSteps
<1> QED BY <1>1, <1>2, <1>3, <1>4 DEF Next

(* The inductive invariant. *)
THEOREM Inductive == Spec => []IInv
BY InductiveInit, InductiveStep, PTL DEF Spec

(* The tables and the requests are always well typed. *)
THEOREM WellTyped == Spec => []TypeOK
<1>1. IInv => TypeOK
  BY DEF IInv
<1> QED BY <1>1, Inductive, PTL

(* Whoever sent a completion holds its pre-auth, for any number of completions, pre-auths, crashes
   and failures of the others: the claim is taken with the row, and given up only by a request
   that sent nothing or was declined. *)
THEOREM ClaimHeldWhileSent == Spec => []SentKeepsClaim
<1>1. IInv => SentKeepsClaim
  <2> SUFFICES ASSUME IInv, NEW c \in Txns, IsCompletion(c), c \in left, state[c] # "DECLINED", c \notin torn
               PROVE  by[Original[c]] = c /\ state[Original[c]] = "APPROVED" /\ amount[c] <= amount[Original[c]]
    BY DEF SentKeepsClaim
  <2>1. ClaimOK(c)
    BY DEF IInv, Good
  <2>2. Claims(c)
    BY <2>1, Zenon DEF ClaimOK, ClaimKept
  <2> QED BY <2>1, <2>2, Zenon DEF ClaimOK, Claims, Valid
<1> QED BY <1>1, Inductive, PTL

(* Two completions of one pre-auth are never both approved: each would hold its only claim. *)
THEOREM PreAuthCompletedOnce == Spec => []CompletedOnce
<1>1. IInv => CompletedOnce
  <2> SUFFICES ASSUME IInv, NEW c \in Txns, NEW d \in Txns, c # d, IsCompletion(c), IsCompletion(d),
                      Original[c] = Original[d], state[c] = "APPROVED", state[d] = "APPROVED",
                      c \notin torn, d \notin torn
               PROVE  FALSE
    BY Zenon DEF CompletedOnce
  <2>1. ClaimOK(c) /\ ClaimOK(d)
    BY DEF IInv, Good
  <2>2. Claims(c) /\ Claims(d)
    BY <2>1, Zenon DEF ClaimOK, ClaimKept, Unknown
  <2> QED BY <2>2, Zenon DEF Claims
<1> QED BY <1>1, Inductive, PTL

(* A recorded outcome is final but for its reversal, whatever the request, the sweeper and the
   worker do and in whatever order: each writes only from the state it read. *)
THEOREM OutcomesAreKept == Spec => OutcomeKept
<1> DEFINE AllKept == \A t \in Txns : Kept(t)
<1>1. IInv /\ [Next]_vars => [AllKept]_vars
  BY InductiveStep
<1>2. AllKept => \A t \in Txns : state[t] \in {"APPROVED", "DECLINED", "REVERSAL_PENDING", "REVERSED"} =>
          \/ state'[t] = state[t] /\ code'[t] = code[t]
          \/ state'[t] = "REVERSAL_PENDING" /\ state[t] = "DECLINED" /\ code[t] = "96" /\ ~IsCompletion(t)
          \/ state'[t] = "REVERSED" /\ state[t] = "REVERSAL_PENDING"
  BY DEF Kept
<1> QED BY <1>1, <1>2, Inductive, PTL DEF Spec, OutcomeKept

-----------------------------------------------------------------------------
(* What saf_queue and tran_log say of one another.  The worker waits on a row that is still PENDING. *)
WorkedOn == sending # None => saf[sending[1]][sending[2]].status = "PENDING"

(* A completion's advices. *)
Advices(t) ==
    /\ state[t] \notin {"REVERSAL_PENDING", "REVERSED"}
    /\ t \notin torn => \A o \in Origins : saf[t][o].status = "ACKED" => state[t] = "APPROVED"
    /\ \A o \in Origins : saf[t][o].status = "NONE" => saf[t][o] = NoRow

(* Any other request has no reversal, or one, whose status the row's state follows. *)
Reversals(t) ==
    \/ state[t] \notin {"REVERSAL_PENDING", "REVERSED"} /\ \A o \in Origins : saf[t][o] = NoRow
    \/ \E o \in Origins :
          /\ saf[t][o].status \in {"PENDING", "ACKED", "DEAD"} /\ \A u \in Origins \ {o} : saf[t][u] = NoRow
          /\ state[t] = IF saf[t][o].status = "ACKED" THEN "REVERSED" ELSE "REVERSAL_PENDING"

Owing(t) == IF IsCompletion(t) THEN Advices(t) ELSE Reversals(t)
FollowInv == WorkedOn /\ \A t \in Txns : Owing(t)

(* The four ways a step treats the two tables' rows of t: it queues nothing, and moves the state
   only before there is an outcome; it queues an advice; it queues a reversal; or it is the worker
   at a PENDING row. *)
Stays(t) ==
    /\ saf'[t] = saf[t]
    /\ \/ state'[t] = state[t]
       \/ state[t] \in {"NONE", "CREATED", "SENT"} /\ state'[t] \notin {"REVERSAL_PENDING", "REVERSED"}
Advised(t) ==
    /\ IsCompletion(t) /\ state'[t] = state[t]
    /\ \E o \in Origins : saf'[t] = [saf[t] EXCEPT ![o] = Queued]
Reverses(t) ==
    /\ ~IsCompletion(t) /\ state[t] \in {"SENT", "TIMED_OUT", "DECLINED"} /\ state'[t] = "REVERSAL_PENDING"
    /\ \E o \in Origins : saf'[t] = [saf[t] EXCEPT ![o] = Queued]
Delivered(t) ==
    \E o \in Origins, row \in SafRows :
        /\ saf[t][o].status = "PENDING" /\ saf'[t] = [saf[t] EXCEPT ![o] = row]
        /\ \/ row.status \in {"PENDING", "DEAD"} /\ state'[t] = state[t]
           \/ /\ row.status = "ACKED"
              /\ \/ IsCompletion(t) /\ state[t] = "TIMED_OUT" /\ state'[t] = "APPROVED"
                 \/ ~IsCompletion(t) /\ state[t] = "REVERSAL_PENDING" /\ state'[t] = "REVERSED"
                 \/ /\ state[t] # IF IsCompletion(t) THEN "TIMED_OUT" ELSE "REVERSAL_PENDING"
                    /\ state'[t] = state[t]

(* Whichever of the four it is, the two tables agree afterwards. *)
LEMMA OwingKept ==
    ASSUME IInv, NEW t \in Txns, Owing(t), UNCHANGED kind, torn \subseteq torn',
           Stays(t) \/ Advised(t) \/ Reverses(t) \/ Delivered(t)
    PROVE  Owing(t)'
<1>0. /\ saf[t] \in [Origins -> SafRows] /\ ClaimOK(t) /\ (IsCompletion(t)' <=> IsCompletion(t))
      /\ Queued.status = "PENDING" /\ NoRow.status = "NONE"
      /\ \A row \in SafRows : row.status \in {"NONE", "PENDING", "ACKED", "DEAD"}
  BY Values, Zenon DEF IInv, TypeOK, Good, IsCompletion, SafRows
<1>1. CASE IsCompletion(t)
  <2> SUFFICES Advices(t)'
    BY <1>0, <1>1, Zenon DEF Owing
  <2>1. Advices(t) /\ (t \notin torn => ClaimKept(t))
    BY <1>0, <1>1, Zenon DEF Owing, ClaimOK
  <2>2. CASE Stays(t)
    BY <2>1, <2>2, Zenon DEF Stays, Advices
  <2>3. CASE Advised(t)
    <3>1. PICK o \in Origins : saf'[t] = [saf[t] EXCEPT ![o] = Queued]
      BY <2>3, SMTT(30) DEF Advised
    <3>2. \A u \in Origins : saf'[t][u] = saf[t][u] \/ saf'[t][u].status = "PENDING"
      BY <1>0, <3>1, Zenon
    <3> QED BY <2>1, <2>3, <3>2, Zenon DEF Advised, Advices
  <2>4. CASE Delivered(t)
    <3>1. PICK o \in Origins, row \in SafRows :
              /\ saf[t][o].status = "PENDING" /\ saf'[t] = [saf[t] EXCEPT ![o] = row]
              /\ \/ row.status \in {"PENDING", "DEAD"} /\ state'[t] = state[t]
                 \/ /\ row.status = "ACKED"
                    /\ \/ state[t] = "TIMED_OUT" /\ state'[t] = "APPROVED"
                       \/ state[t] # "TIMED_OUT" /\ state'[t] = state[t]
      BY <1>1, <2>4, Zenon DEF Delivered
    <3>2. \A u \in Origins : saf'[t][u] = saf[t][u] \/ (saf'[t][u] = row /\ row.status # "NONE")
      BY <1>0, <3>1, Zenon
    <3>3. t \notin torn => state[t] \in {"TIMED_OUT", "APPROVED"}
      BY <2>1, <3>1, Zenon DEF ClaimKept, Unknown
    <3> QED BY <2>1, <3>1, <3>2, <3>3, Zenon DEF Advices
  <2> QED BY <1>1, <2>2, <2>3, <2>4, Zenon DEF Reverses
<1>2. CASE ~IsCompletion(t)
  <2> SUFFICES Reversals(t)'
    BY <1>0, <1>2, Zenon DEF Owing
  <2>1. Reversals(t)
    BY <1>2 DEF Owing
  <2>2. CASE Stays(t)
    BY <2>1, <2>2, Zenon DEF Stays, Reversals
  <2>3. CASE Reverses(t)
    <3>1. PICK o \in Origins : saf'[t] = [saf[t] EXCEPT ![o] = Queued]
      BY <2>3, Zenon DEF Reverses
    <3>2. \A u \in Origins : saf[t][u] = NoRow
      BY <2>1, <2>3, Zenon DEF Reverses, Reversals
    <3>3. saf'[t][o].status = "PENDING" /\ \A u \in Origins \ {o} : saf'[t][u] = NoRow
      BY <1>0, <3>1, <3>2, Zenon
    <3> QED BY <2>3, <3>3, Zenon DEF Reverses, Reversals
  <2>4. CASE Delivered(t)
    <3>1. PICK o \in Origins, row \in SafRows :
              /\ saf[t][o].status = "PENDING" /\ saf'[t] = [saf[t] EXCEPT ![o] = row]
              /\ \/ row.status \in {"PENDING", "DEAD"} /\ state'[t] = state[t]
                 \/ /\ row.status = "ACKED"
                    /\ \/ state[t] = "REVERSAL_PENDING" /\ state'[t] = "REVERSED"
                       \/ state[t] # "REVERSAL_PENDING" /\ state'[t] = state[t]
      BY <1>2, <2>4, Zenon DEF Delivered
    <3>2. state[t] = "REVERSAL_PENDING" /\ \A u \in Origins \ {o} : saf[t][u] = NoRow
      BY <1>0, <2>1, <3>1, Zenon DEF Reversals
    <3>3. saf'[t][o] = row /\ \A u \in Origins \ {o} : saf'[t][u] = NoRow
      BY <1>0, <3>1, <3>2, Zenon
    <3> QED BY <3>1, <3>2, <3>3, Zenon DEF Reversals
  <2> QED BY <1>2, <2>2, <2>3, <2>4, Zenon DEF Advised
<1> QED BY <1>1, <1>2

(* A statement of any transaction adds to torn. *)
LEMMA TornGrows == [Next]_vars => torn \subseteq torn' /\ UNCHANGED kind
BY ZenonT(30) DEF Next, vars, workVars, RequestStep, Create, Insert, MarkSending, Send, TimeOut, Receive, RecordStatus,
   ReleaseClaim, FollowUpRequest, FollowUp, SweepOnce, WorkerStep, AdviceTimeOut, DeliverRow, Settle,
   LinkChanges, Crash, Works, Fails

(* A request up to its outcome, and whoever touches neither table, queues nothing. *)
LEMMA StayingSteps ==
    ASSUME IInv, NEW t \in Txns,
           \/ Create(t) \/ Insert(t) \/ MarkSending(t) \/ Send(t) \/ TimeOut(t) \/ RecordStatus(t) \/ ReleaseClaim(t)
           \/ \E rc \in IssuerCodes, signed \in BOOLEAN : Receive(t, rc, signed)
    PROVE  UNCHANGED sending /\ \A c \in Txns : Stays(c)
<1>0. state \in [Txns -> States] /\ RequestOK(t)
  BY SMTT(30) DEF IInv, TypeOK, Good
<1>1. UNCHANGED <<sending, saf>>
  BY Zenon DEF Create, Insert, MarkSending, Send, TimeOut, Receive, RecordStatus, ReleaseClaim, workVars
<1>2. \/ UNCHANGED state
      \/ At(t, "new") /\ state' = [state EXCEPT ![t] = "DECLINED"]
      \/ At(t, "checked") /\ state' = [state EXCEPT ![t] = "CREATED"]
      \/ At(t, "created") /\ state' = [state EXCEPT ![t] = "SENT"]
      \/ At(t, "answered") /\ state[t] = "SENT" /\ state' = [state EXCEPT ![t] = req[t].status]
  BY Zenon DEF Create, CreatePreAuth, CreateRefund, CreateBalanceInquiry, CreateCompletion, Unresolved, Proceed, Refuse,
         RecordLinkDown, Insert, MarkSending, Send, TimeOut, Receive, RecordStatus, ReleaseClaim
<1>3. \/ UNCHANGED state
      \/ /\ state[t] \in {"NONE", "CREATED", "SENT"} /\ state'[t] \notin {"REVERSAL_PENDING", "REVERSED"}
         /\ \A c \in Txns \ {t} : state'[c] = state[c]
  BY <1>0, <1>2, Zenon DEF RequestOK, At
<1> QED BY <1>1, <1>3, Zenon DEF Stays

(* A queued advice or reversal is one row of saf_queue. *)
LEMMA QueuedRow ==
    ASSUME IInv, NEW t \in Txns, NEW o \in Origins, saf' = [saf EXCEPT ![t][o] = Queued]
    PROVE  /\ saf'[t] = [saf[t] EXCEPT ![o] = Queued]
           /\ \A c \in Txns \ {t} : saf'[c] = saf[c]
BY SMTT(30) DEF IInv, TypeOK

(* The follow-up of a request, and the sweeper's: an advice of a completion, or a reversal from the
   state that was read. *)
LEMMA FollowUpSteps ==
    ASSUME IInv, NEW t \in Txns, FollowUpRequest(t) \/ FollowUp(t)
    PROVE  UNCHANGED sending /\ \A c \in Txns : Stays(c) \/ Advised(c) \/ Reverses(c)
<1>0. /\ state \in [Txns -> States] /\ RequestOK(t) /\ SweeperOK(t) /\ "request" \in Origins /\ "sweeper" \in Origins
  BY DEF IInv, TypeOK, Good, Origins
<1>1. UNCHANGED sending
  BY Zenon DEF FollowUpRequest, FollowUp, workVars
<1>2. \/ UNCHANGED <<state, saf>>
      \/ state[t] = "SENT" /\ state' = [state EXCEPT ![t] = "TIMED_OUT"] /\ UNCHANGED saf
      \/ IsCompletion(t) /\ \E o \in Origins : QueueAdvice(t, o)
      \/ ~IsCompletion(t) /\ \E o \in Origins, from \in {"SENT", "TIMED_OUT", "DECLINED"} : Queue(t, o, from)
  <2>1. CASE FollowUpRequest(t)
    BY <1>0, <2>1, Zenon DEF FollowUpRequest, RequestOK, At
  <2>2. CASE FollowUp(t)
    BY <1>0, <2>2, Zenon DEF FollowUp
  <2> QED BY <2>1, <2>2
<1>3. CASE UNCHANGED <<state, saf>>
  BY <1>1, <1>3, SMTT(30) DEF Stays
<1>4. CASE state[t] = "SENT" /\ state' = [state EXCEPT ![t] = "TIMED_OUT"] /\ UNCHANGED saf
  BY <1>0, <1>1, <1>4 DEF Stays
<1>5. ASSUME IsCompletion(t), NEW o \in Origins, QueueAdvice(t, o)
      PROVE  \A c \in Txns : Stays(c) \/ Advised(c) \/ Reverses(c)
  <2>1. saf' = [saf EXCEPT ![t][o] = Queued] /\ UNCHANGED state
    BY <1>5 DEF QueueAdvice
  <2> QED BY <1>5, <2>1, QueuedRow, Zenon DEF Stays, Advised
<1>6. ASSUME ~IsCompletion(t), NEW o \in Origins, NEW from \in {"SENT", "TIMED_OUT", "DECLINED"}, Queue(t, o, from)
      PROVE  \A c \in Txns : Stays(c) \/ Advised(c) \/ Reverses(c)
  <2>1. /\ saf' = [saf EXCEPT ![t][o] = Queued] /\ state[t] = from /\ state'[t] = "REVERSAL_PENDING"
        /\ \A c \in Txns \ {t} : state'[c] = state[c]
    BY <1>0, <1>6 DEF Queue
  <2> QED BY <1>6, <2>1, QueuedRow, Zenon DEF Stays, Reverses
<1> QED BY <1>1, <1>2, <1>3, <1>4, <1>5, <1>6

(* While the worker waits, its row is at most queued again. *)
LEMMA WaitsOnPending ==
    ASSUME IInv, WorkedOn, UNCHANGED sending, \A c \in Txns : Stays(c) \/ Advised(c) \/ Reverses(c)
    PROVE  WorkedOn'
<1> SUFFICES ASSUME sending # None PROVE saf'[sending[1]][sending[2]].status = "PENDING"
  BY Zenon DEF WorkedOn
<1>1. sending[1] \in Txns /\ sending[2] \in Origins /\ saf[sending[1]][sending[2]].status = "PENDING"
  BY Zenon DEF IInv, TypeOK, SafKeys, WorkedOn
<1>2. saf[sending[1]] \in [Origins -> SafRows] /\ Queued.status = "PENDING"
  BY <1>1, Values, Zenon DEF IInv, TypeOK
<1>3. \/ saf'[sending[1]] = saf[sending[1]]
      \/ \E o \in Origins : saf'[sending[1]] = [saf[sending[1]] EXCEPT ![o] = Queued]
  BY <1>1, Zenon DEF Stays, Advised, Reverses
<1> QED BY <1>1, <1>2, <1>3, Zenon

(* The worker writes the row it waits on, or buries the one it claimed, and its acknowledgement
   moves the state in the same transaction. *)
LEMMA WorkedSteps ==
    ASSUME IInv, WorkedOn, WorkerStep
    PROVE  WorkedOn' /\ \A c \in Txns : Stays(c) \/ Delivered(c)
<1>0. TypeOK
  BY DEF IInv
<1>1. ASSUME NEW r \in SafKeys, saf[r[1]][r[2]].status = "PENDING",
             NEW row \in SafRows, SetSaf(r, row),
             \/ row.status \in {"PENDING", "DEAD"} /\ UNCHANGED state
             \/ row.status = "ACKED" /\ FinishOnAck(r[1])
      PROVE  \A c \in Txns : Stays(c) \/ Delivered(c)
  <2>1. r[1] \in Txns /\ r[2] \in Origins /\ state \in [Txns -> States]
    BY <1>0 DEF SafKeys, TypeOK
  <2>2. saf'[r[1]] = [saf[r[1]] EXCEPT ![r[2]] = row] /\ \A c \in Txns \ {r[1]} : saf'[c] = saf[c]
    BY <1>0, <1>1, <2>1, Zenon DEF SetSaf, TypeOK
  <2>3. \A c \in Txns \ {r[1]} : state'[c] = state[c]
    BY <1>1, <2>1 DEF FinishOnAck
  <2>4. FinishOnAck(r[1]) =>
            \/ IsCompletion(r[1]) /\ state[r[1]] = "TIMED_OUT" /\ state'[r[1]] = "APPROVED"
            \/ ~IsCompletion(r[1]) /\ state[r[1]] = "REVERSAL_PENDING" /\ state'[r[1]] = "REVERSED"
            \/ /\ state[r[1]] # IF IsCompletion(r[1]) THEN "TIMED_OUT" ELSE "REVERSAL_PENDING"
               /\ state'[r[1]] = state[r[1]]
    BY <2>1 DEF FinishOnAck
  <2>5. Delivered(r[1])
    BY <1>1, <2>1, <2>2, <2>4, Zenon DEF Delivered
  <2> QED BY <2>2, <2>3, <2>5, Zenon DEF Stays
<1>2. ASSUME NEW r \in SafKeys, saf[r[1]][r[2]].status = "PENDING", RetryLater(r)
      PROVE  \E row \in SafRows : row.status \in {"PENDING", "DEAD"} /\ SetSaf(r, row)
  <2> DEFINE old == saf[r[1]][r[2]]
  <2>1. old \in SafRows
    BY <1>0 DEF TypeOK, SafKeys
  <2>2. CASE old.attempts + 1 >= MaxAttempts
    <3>1. [old EXCEPT !.status = "DEAD"] \in SafRows /\ [old EXCEPT !.status = "DEAD"].status = "DEAD"
      BY <2>1, Values, Zenon
    <3> QED BY <1>2, <2>2, <3>1, Zenon DEF RetryLater
  <2>3. CASE ~(old.attempts + 1 >= MaxAttempts)
    <3>1. old.attempts + 1 \in 0..(MaxAttempts - 1)
      BY <2>1, <2>3, AdvTxnAssumption, SMTT(30) DEF SafRows
    <3>2. [old EXCEPT !.attempts = @ + 1] \in SafRows /\ [old EXCEPT !.attempts = @ + 1].status = old.status
      BY <2>1, <3>1, SMTT(30) DEF SafRows
    <3> QED BY <1>2, <2>3, <3>2, Zenon DEF RetryLater
  <2> QED BY <2>2, <2>3
<1>3. sending # None => sending \in SafKeys /\ saf[sending[1]][sending[2]].status = "PENDING"
  BY <1>0, SMTT(30) DEF TypeOK, WorkedOn
<1>4. CASE AdviceTimeOut
  <2>1. /\ sending \in SafKeys /\ saf[sending[1]][sending[2]].status = "PENDING" /\ RetryLater(sending)
        /\ UNCHANGED state /\ sending' = None
    BY <1>3, <1>4, Zenon DEF AdviceTimeOut
  <2>2. PICK row \in SafRows : row.status \in {"PENDING", "DEAD"} /\ SetSaf(sending, row)
    BY <1>2, <2>1, Zenon
  <2>3. \A c \in Txns : Stays(c) \/ Delivered(c)
    BY <1>1, <2>1, <2>2, Zenon
  <2> QED BY <2>1, <2>3, SMTT(30) DEF WorkedOn
<1>5. ASSUME NEW r \in SafKeys, DeliverRow(r)
      PROVE  WorkedOn' /\ \A c \in Txns : Stays(c) \/ Delivered(c)
  <2>1. saf[r[1]][r[2]].status = "PENDING" /\ UNCHANGED state /\ sending = None
    BY <1>5 DEF DeliverRow
  <2>0. saf[r[1]][r[2]] \in SafRows
    BY <1>0 DEF TypeOK, SafKeys
  <2>2. CASE sending' = r /\ UNCHANGED saf
    <3>1. WorkedOn'
      BY <2>1, <2>2 DEF WorkedOn
    <3> QED BY <2>1, <2>2, <3>1 DEF Stays
  <2>3. CASE SetSaf(r, [saf[r[1]][r[2]] EXCEPT !.status = "DEAD"]) /\ UNCHANGED sending
    <3>1. /\ [saf[r[1]][r[2]] EXCEPT !.status = "DEAD"] \in SafRows
          /\ [saf[r[1]][r[2]] EXCEPT !.status = "DEAD"].status = "DEAD"
      BY <2>0, Values, Zenon
    <3>2. \A c \in Txns : Stays(c) \/ Delivered(c)
      BY <1>1, <2>1, <2>3, <3>1, Zenon
    <3> QED BY <2>1, <2>3, <3>2 DEF WorkedOn
  <2> QED BY <1>5, <2>2, <2>3 DEF DeliverRow
<1>6. ASSUME NEW rc \in IssuerCodes, NEW signed \in BOOLEAN, Settle(rc, signed)
      PROVE  WorkedOn' /\ \A c \in Txns : Stays(c) \/ Delivered(c)
  <2>1. /\ sending \in SafKeys /\ saf[sending[1]][sending[2]].status = "PENDING" /\ sending' = None
        /\ saf[sending[1]][sending[2]] \in SafRows
    BY <1>0, <1>3, <1>6 DEF Settle, TypeOK, SafKeys
  <2>2. CASE SetSaf(sending, [saf[sending[1]][sending[2]] EXCEPT !.status = "ACKED"]) /\ FinishOnAck(sending[1])
    <3>1. /\ [saf[sending[1]][sending[2]] EXCEPT !.status = "ACKED"] \in SafRows
          /\ [saf[sending[1]][sending[2]] EXCEPT !.status = "ACKED"].status = "ACKED"
      BY <2>1, Values, Zenon
    <3>2. \A c \in Txns : Stays(c) \/ Delivered(c)
      BY <1>1, <2>1, <2>2, <3>1, Zenon
    <3> QED BY <2>1, <3>2 DEF WorkedOn
  <2>3. CASE RetryLater(sending) /\ UNCHANGED state
    <3>1. PICK row \in SafRows : row.status \in {"PENDING", "DEAD"} /\ SetSaf(sending, row)
      BY <1>2, <2>1, <2>3, Zenon
    <3>2. \A c \in Txns : Stays(c) \/ Delivered(c)
      BY <1>1, <2>1, <2>3, <3>1, Zenon
    <3> QED BY <2>1, <3>2, Zenon DEF WorkedOn
  <2>4. CASE UNCHANGED <<saf, state>>
    BY <2>1, <2>4 DEF WorkedOn, Stays
  <2> QED BY <1>6, <2>2, <2>3, <2>4 DEF Settle
<1> QED BY <1>4, <1>5, <1>6 DEF WorkerStep

(* FollowInv is kept by every step. *)
LEMMA FollowStep ==
    ASSUME IInv, FollowInv, [Next]_vars
    PROVE  FollowInv'
<1>0. WorkedOn /\ \A t \in Txns : Owing(t)
  BY DEF FollowInv
<1>1. WorkedOn' /\ \A c \in Txns : Stays(c) \/ Advised(c) \/ Reverses(c) \/ Delivered(c)
  <2>1. ASSUME NEW t \in Txns, RequestStep(t) \/ FollowUp(t)
        PROVE  WorkedOn' /\ \A c \in Txns : Stays(c) \/ Advised(c) \/ Reverses(c)
    <3>1. UNCHANGED sending /\ \A c \in Txns : Stays(c) \/ Advised(c) \/ Reverses(c)
      BY <2>1, StayingSteps, FollowUpSteps DEF RequestStep
    <3> QED BY <1>0, <3>1, WaitsOnPending
  <2>2. CASE WorkerStep
    BY <1>0, <2>2, WorkedSteps
  <2>3. CASE SweepOnce \/ LinkChanges \/ Crash \/ UNCHANGED vars
    <3>1. UNCHANGED <<saf, state>> /\ sending' \in {sending, None}
      BY <2>3, Zenon DEF SweepOnce, LinkChanges, Crash, vars, workVars
    <3> QED BY <1>0, <3>1, Zenon DEF WorkedOn, Stays
  <2> QED BY <2>1, <2>2, <2>3 DEF Next
<1>2. \A t \in Txns : Owing(t)'
  BY <1>0, <1>1, TornGrows, OwingKept
<1> QED BY <1>1, <1>2 DEF FollowInv

(* Nothing is queued before the first request. *)
LEMMA FollowInit == Init => FollowInv
<1> SUFFICES ASSUME Init, NEW t \in Txns PROVE WorkedOn /\ Owing(t)
  BY Zenon DEF FollowInv, Init, WorkedOn
<1>1. state[t] = "NONE" /\ (\A o \in Origins : saf[t][o] = NoRow) /\ sending = None /\ NoRow.status = "NONE"
  BY Values, Zenon DEF Init
<1> QED BY <1>1, Zenon DEF WorkedOn, Owing, Advices, Reversals

(* The two tables always agree on what is owed: a completion is advised and never reversed, any
   other unknown outcome has exactly one reversal, and a row is REVERSED exactly when its reversal
   is acknowledged, for any number of requests, retries, failed statements and crashes. *)
THEOREM TablesAgree == Spec => []FollowedUpOnce
<1>1. ASSUME IInv, FollowInv PROVE FollowedUpOnce
  <2> SUFFICES ASSUME NEW t \in Txns,
                      NEW rows, rows = {o \in Origins : saf[t][o] # NoRow},
                      NEW acked, acked = {o \in Origins : saf[t][o].status = "ACKED"}
               PROVE  IF IsCompletion(t)
                      THEN /\ state[t] \notin {"REVERSAL_PENDING", "REVERSED"}
                           /\ rows # {} /\ t \notin torn => state[t] \in {"TIMED_OUT", "APPROVED"}
                           /\ acked # {} /\ t \notin torn => state[t] = "APPROVED"
                      ELSE /\ IF state[t] \in {"REVERSAL_PENDING", "REVERSED"} THEN \E o \in Origins : rows = {o} ELSE rows = {}
                           /\ acked # {} <=> state[t] = "REVERSED"
    BY Zenon DEF FollowedUpOnce
  <2>1. Owing(t) /\ ClaimOK(t) /\ NoRow.status = "NONE"
    BY <1>1, Values, Zenon DEF IInv, FollowInv, Good
  <2>2. CASE IsCompletion(t)
    <3>1. Advices(t) /\ (t \notin torn => ClaimKept(t))
      BY <2>1, <2>2, Zenon DEF Owing, ClaimOK
    <3>2. \A o \in rows : saf[t][o].status # "NONE"
      BY <3>1, SMTT(30) DEF Advices
    <3> QED BY <2>2, <3>1, <3>2, Zenon DEF Advices, ClaimKept, Unknown
  <2>3. CASE ~IsCompletion(t)
    <3>1. CASE state[t] \notin {"REVERSAL_PENDING", "REVERSED"} /\ \A o \in Origins : saf[t][o] = NoRow
      <4>1. rows = {} /\ acked = {}
        BY <2>1, <3>1, SMTT(30)
      <4> QED BY <2>3, <3>1, <4>1, Zenon
    <3>2. ASSUME NEW o \in Origins,
                 saf[t][o].status \in {"PENDING", "ACKED", "DEAD"}, \A u \in Origins \ {o} : saf[t][u] = NoRow,
                 state[t] = IF saf[t][o].status = "ACKED" THEN "REVERSED" ELSE "REVERSAL_PENDING"
          PROVE  rows = {o} /\ (acked # {} <=> state[t] = "REVERSED")
                 /\ state[t] \in {"REVERSAL_PENDING", "REVERSED"}
      <4>1. rows = {o} /\ (acked # {} <=> saf[t][o].status = "ACKED")
        BY <2>1, <3>2, Zenon
      <4>2. state[t] \in {"REVERSAL_PENDING", "REVERSED"} /\ (acked # {} <=> state[t] = "REVERSED")
        BY <3>2, <4>1, Zenon
      <4> QED BY <4>1, <4>2, Zenon
    <3> QED BY <2>1, <2>3, <3>1, <3>2, Zenon DEF Owing, Reversals
  <2> QED BY <2>2, <2>3, Zenon
<1>2. Spec => []FollowInv
  BY FollowInit, FollowStep, Inductive, PTL DEF Spec
<1> QED BY <1>1, <1>2, Inductive, PTL

=============================================================================
