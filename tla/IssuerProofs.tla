---------------------------- MODULE IssuerProofs ----------------------------
(***************************************************************************)
(* What the issuer guarantees for any number of originals, copies,         *)
(* sessions and faults.  The inductive invariant adds three facts to the   *)
(* properties: a busy session holds a message, a code 00 in a session or   *)
(* on a row is backed by a posted row, and the status a reversal session   *)
(* read can only have moved forward since.  The last parts say what a step *)
(* does to the copy of a 0200 its acquirer wrote once, to the reversals    *)
(* and to the money: what CardNetworkProofs builds on.                     *)
(***************************************************************************)
EXTENDS Issuer, FiniteSetTheorems, WellFoundedInduction, TLAPS

Settled(o) == log[o].status \in {"DECLINED", "REVERSED"}

(* The original is on the books. *)
Booked(o) ==
    /\ log[o].status \in {"APPROVED", "REVERSED"}
    /\ Moves(o) => posted[o] = 1

(* Busy sessions hold a message. *)
BusyInv ==
    /\ \A s \in Sessions : sess[s].pc # "idle" => sess[s].msg \in Messages
    /\ \A s \in RevSessions : rev[s].pc # "idle" => rev[s].msg \in Messages

(* A stored, pending or sent 00 is backed by a posted row. *)
CodeInv ==
    /\ \A o \in Originals : log[o].rc = "00" => Booked(o)
    /\ \A s \in Sessions : sess[s].pc # "idle" /\ sess[s].rc = "00" => Booked(sess[s].msg.orig)
    /\ ApprovedAnswerIsPosted

(* What a reversal session read or concluded still holds. *)
RevOK(c) ==
    /\ c.pc = "apply" /\ c.found = "APPROVED" => log[c.msg.orig].status \in {"APPROVED", "REVERSED"}
    /\ c.pc = "apply" /\ c.found \in {"DECLINED", "REVERSED"} => Settled(c.msg.orig)
    /\ c.pc = "respond" /\ c.ok /\ c.msg.orig \notin rwo => Settled(c.msg.orig)

RevInv ==
    /\ \A s \in RevSessions : rev[s].pc # "idle" => RevOK(rev[s])
    /\ AcknowledgedIsSettled

IInv == TypeOK /\ BusyInv /\ RowDecidesMoney /\ CodeInv /\ RevInv

(* What no step undoes: a settled row, a booked original, a recorded early reversal. *)
Forward ==
    /\ rwo \subseteq rwo'
    /\ \A o \in Originals :
        /\ log[o].status = "APPROVED" => log'[o].status \in {"APPROVED", "REVERSED"}
        /\ Settled(o) => log'[o] = log[o]
        /\ Booked(o) => Booked(o)'

-----------------------------------------------------------------------------
(* The names of steps, statuses and codes are members of their sets. *)
LEMMA Members ==
    /\ {"idle", "rwo", "dedupe", "card", "log", "emv", "security", "limits", "amount", "authorize", "finish", "respond"} = Steps
    /\ {"idle", "locate", "apply", "respond"} = RevSteps
    /\ {"00", "05", "30", "51", "55", "61", "62", "65", "91", "94", "96"} = Codes
    /\ {"NONE", "RECEIVED", "APPROVED", "DECLINED", "REVERSED"} = Statuses
BY DEF Steps, RevSteps, Codes, Statuses

(* The context of an idle 0200 session. *)
LEMMA ContextStart ==
    /\ Idle \in Contexts
    /\ Idle.pc = "idle"
BY Members DEF Contexts, Idle

(* The context of an idle reversal session. *)
LEMMA RevContextStart ==
    /\ RevIdle \in RevContexts
    /\ RevIdle.pc = "idle"
BY Members DEF RevContexts, RevIdle

(* The fields of a row. *)
LEMMA RowFields == \A r \in Rows : r.status \in Statuses /\ r.rc \in Codes \cup {NoRC}
BY DEF Rows

-----------------------------------------------------------------------------
(* The invariant survives a step that only moves rows forward, when the row, the session and
   the answer the step writes satisfy it. *)
LEMMA Preserved ==
    ASSUME IInv, TypeOK', Forward, RowDecidesMoney',
           \A o \in Originals : log'[o].rc = "00" => Booked(o)',
           \A s \in Sessions :
               \/ sess'[s] = sess[s]
               \/ sess'[s].pc = "idle"
               \/ /\ sess'[s].msg \in Messages
                  /\ sess'[s].rc = "00" => Booked(sess[s].msg.orig)',
           \A s \in RevSessions :
               \/ rev'[s] = rev[s]
               \/ rev'[s].pc = "idle"
               \/ rev'[s].msg \in Messages /\ RevOK(rev[s])',
           \A a \in outbox' \ outbox :
               /\ a.mti = "0210" /\ a.rc = "00" => Booked(a.orig)'
               /\ a.mti = "0430" /\ a.rc = "00" /\ a.orig \notin rwo' => Settled(a.orig)'
    PROVE  IInv'
<1> USE DEF IInv
<1>1. BusyInv'
  BY DEF BusyInv
<1>2. \A m \in Messages : m.orig \in Originals
  BY DEF Messages
<1>3. \A a \in Answers : a.orig \in Originals
  BY DEF Answers
<1>4. CodeInv'
  <2>1. \A s \in Sessions : sess'[s].pc # "idle" /\ sess'[s].rc = "00" => Booked(sess[s].msg.orig)'
    BY <1>2 DEF BusyInv, CodeInv, Forward
  <2>2. ASSUME NEW a \in outbox', a.mti = "0210", a.rc = "00"
        PROVE  Booked(a.orig)'
    <3>1. CASE a \in outbox
      <4>1. Booked(a.orig) /\ a.orig \in Originals
        BY <1>3, <2>2, <3>1 DEF CodeInv, ApprovedAnswerIsPosted, Booked, TypeOK
      <4> QED BY <4>1 DEF Forward
    <3> QED BY <2>2, <3>1
  <2>3. ApprovedAnswerIsPosted'
    BY <2>2 DEF ApprovedAnswerIsPosted, Booked
  <2> QED BY <2>1, <2>3 DEF CodeInv
<1>5. RevInv'
  <2>1. ASSUME NEW s \in RevSessions, rev'[s].pc # "idle"
        PROVE  RevOK(rev[s])'
    <3>1. CASE rev'[s] = rev[s]
      <4>1. rev[s].msg.orig \in Originals /\ RevOK(rev[s])
        BY <1>2, <2>1, <3>1 DEF BusyInv, RevInv
      <4> QED BY <3>1, <4>1 DEF RevOK, Forward, Settled
    <3> QED BY <2>1, <3>1
  <2>2. ASSUME NEW a \in outbox', a.mti = "0430", a.rc = "00", a.orig \notin rwo'
        PROVE  Settled(a.orig)'
    <3>1. CASE a \in outbox
      <4>1. a.orig \in Originals
        BY <1>3, <3>1 DEF TypeOK
      <4>2. a.orig \notin rwo
        BY <2>2 DEF Forward
      <4>3. Settled(a.orig)
        BY <2>2, <3>1, <4>2 DEF RevInv, AcknowledgedIsSettled, Settled
      <4> QED BY <4>1, <4>3 DEF Forward, Settled
    <3> QED BY <2>2, <3>1
  <2>3. AcknowledgedIsSettled'
    BY <2>2 DEF AcknowledgedIsSettled, Settled
  <2> QED BY <2>1, <2>3 DEF RevInv
<1> QED BY <1>1, <1>4, <1>5

(* A step that leaves the rows and the journals alone. *)
LEMMA RowsUntouched ==
    ASSUME IInv, UNCHANGED <<log, rwo, posted, undone>>
    PROVE  /\ Forward
           /\ RowDecidesMoney'
           /\ \A o \in Originals : log'[o].rc = "00" => Booked(o)'
BY DEF IInv, Forward, RowDecidesMoney, Booked, Settled, CodeInv

(* A step that gives a row without a decision its RECEIVED, DECLINED or abandoned state. *)
LEMMA RowWithoutMoney ==
    ASSUME IInv, NEW o \in Originals, NEW row \in Rows,
           log' = [log EXCEPT ![o] = row],
           log[o].status \in {"NONE", "RECEIVED"},
           row.status \in {"RECEIVED", "DECLINED", "REVERSED"},
           row.rc # "00",
           UNCHANGED <<rwo, posted, undone>>
    PROVE  /\ Forward
           /\ RowDecidesMoney'
           /\ \A p \in Originals : log'[p].rc = "00" => Booked(p)'
<1>1. /\ log'[o] = row
      /\ \A p \in Originals \ {o} : log'[p] = log[p]
  BY DEF IInv, TypeOK
<1>2. posted[o] = 0 /\ undone[o] = 0
  BY DEF IInv, RowDecidesMoney
<1>3. Forward
  BY <1>1 DEF Forward, Settled, Booked
<1>4. RowDecidesMoney'
  BY <1>1, <1>2 DEF IInv, RowDecidesMoney
<1>5. \A p \in Originals : log'[p].rc = "00" => Booked(p)'
  BY <1>1 DEF IInv, CodeInv, Booked
<1> QED BY <1>3, <1>4, <1>5

(* A participant of iso-txn-mgr that only moves its own session on. *)
LEMMA SessionMoves ==
    ASSUME IInv, NEW s \in Sessions, NEW c \in Contexts,
           sess[s].pc # "idle",
           sess' = [sess EXCEPT ![s] = c],
           c.msg = sess[s].msg,
           c.rc = "00" => Booked(sess[s].msg.orig),
           lastAtc' \in Nat,
           UNCHANGED <<inbox, outbox, log, stale, rwo, posted, undone, balance, count, spent, rev>>
    PROVE  IInv'
<1>1. TypeOK'
  BY DEF IInv, TypeOK
<1>2. /\ sess'[s] = c
      /\ \A z \in Sessions \ {s} : sess'[z] = sess[z]
  BY DEF IInv, TypeOK
<1>3. c.msg \in Messages /\ c.msg.orig \in Originals
  BY DEF IInv, BusyInv, Messages
<1>4. c.rc = "00" => Booked(c.msg.orig)'
  BY <1>3 DEF Booked
<1>5. \A z \in Sessions :
          \/ sess'[z] = sess[z]
          \/ /\ sess'[z].msg \in Messages
             /\ sess'[z].rc = "00" => Booked(sess[z].msg.orig)'
  BY <1>2, <1>3, <1>4
<1> QED BY <1>1, <1>5, RowsUntouched, Preserved

(* A busy session's message, original and row. *)
LEMMA SessionFacts ==
    ASSUME IInv, NEW s \in Sessions, sess[s].pc # "idle"
    PROVE  /\ sess[s] \in Contexts
           /\ sess[s].msg \in Messages
           /\ sess[s].msg.orig \in Originals
           /\ log[sess[s].msg.orig] \in Rows
           /\ sess[s].rc = "00" => Booked(sess[s].msg.orig)
<1>1. sess[s].msg \in Messages
  BY DEF IInv, BusyInv
<1>2. sess[s].msg.orig \in Originals
  BY <1>1 DEF Messages
<1> QED BY <1>1, <1>2 DEF IInv, TypeOK, CodeInv

(* Goto and GotoWith, for a code other than 00. *)
LEMMA GotoStep ==
    ASSUME IInv, NEW s \in Sessions, NEW p \in Steps, NEW q \in Codes \cup {NoRC},
           sess[s].pc # "idle",
           Goto(s, p) \/ (q # "00" /\ GotoWith(s, p, q)),
           lastAtc' \in Nat,
           UNCHANGED <<inbox, outbox, log, stale, rwo, posted, undone, balance, count, spent, rev>>
    PROVE  IInv'
<1> DEFINE c == sess[s]
<1>1. c \in Contexts /\ (c.rc = "00" => Booked(c.msg.orig))
  BY SessionFacts
<1>2. CASE Goto(s, p)
  <2> DEFINE d == [c EXCEPT !.pc = p]
  <2>1. sess' = [sess EXCEPT ![s] = d]
    BY <1>2 DEF Goto
  <2>2. d \in Contexts /\ d.msg = c.msg /\ d.rc = c.rc
    BY <1>1 DEF Contexts
  <2> HIDE DEF d
  <2> QED BY <1>1, <2>1, <2>2, SessionMoves, Zenon
<1>3. CASE q # "00" /\ GotoWith(s, p, q)
  <2> DEFINE d == [c EXCEPT !.pc = p, !.rc = q]
  <2>1. sess' = [sess EXCEPT ![s] = d]
    BY <1>3 DEF GotoWith
  <2>2. d \in Contexts /\ d.msg = c.msg /\ d.rc = q
    BY <1>1, Zenon DEF Contexts
  <2> HIDE DEF d
  <2> QED BY <1>1, <1>3, <2>1, <2>2, SessionMoves, Zenon
<1> QED BY <1>2, <1>3

(* The participants that write nothing but their session and the card's counter. *)
LEMMA ReadingSteps ==
    ASSUME IInv, NEW s \in Sessions,
           \/ CheckReversed(s) \/ Deduplicate(s) \/ CheckCard(s) \/ VerifyEmv(s)
           \/ VerifySecurity(s) \/ CheckLimits(s) \/ CheckDailyAmount(s) \/ ReadFails(s)
    PROVE  IInv'
<1> USE Members
<1>0. lastAtc \in Nat
  BY DEF IInv, TypeOK
<1>1. CASE CheckReversed(s)
  BY <1>0, <1>1, GotoStep, Zenon DEF CheckReversed, dbVars
<1>2. CASE Deduplicate(s)
  <2> DEFINE row == log[sess[s].msg.orig]
  <2>1. CASE row.status = "NONE"
    BY <1>0, <1>2, <2>1, GotoStep DEF Deduplicate, dbVars
  <2>2. CASE row.status # "NONE"
    <3>1. sess[s].pc # "idle"
      BY <1>2 DEF Deduplicate
    <3>2. /\ sess[s] \in Contexts
          /\ row.rc \in Codes \cup {NoRC}
          /\ row.rc = "00" => Booked(sess[s].msg.orig)
      BY <3>1, SessionFacts, RowFields, Zenon DEF IInv, CodeInv
    <3> DEFINE d == [sess[s] EXCEPT !.pc = "card", !.dup = TRUE, !.rc = row.rc]
    <3>3. sess' = [sess EXCEPT ![s] = d]
      BY <1>2, <2>2 DEF Deduplicate
    <3>4. UNCHANGED <<inbox, outbox, dbVars, rev>>
      BY <1>2 DEF Deduplicate
    <3>5. d \in Contexts /\ d.msg = sess[s].msg /\ d.rc = row.rc
      BY <3>2, Zenon DEF Contexts
    <3> HIDE DEF d
    <3> QED BY <1>0, <3>1, <3>2, <3>3, <3>4, <3>5, SessionMoves, Zenon DEF dbVars
  <2> QED BY <2>1, <2>2
<1>3. CASE CheckCard(s)
  BY <1>0, <1>3, GotoStep, Zenon DEF CheckCard, dbVars
<1>4. CASE VerifyEmv(s)
  <2>1. sess[s].pc # "idle" /\ Atc[sess[s].msg.orig] \in Nat
    BY <1>4, SessionFacts, IssuerAssumption, Zenon DEF VerifyEmv
  <2> QED BY <1>0, <1>4, <2>1, GotoStep, Zenon DEF VerifyEmv
<1>5. CASE CheckLimits(s)
  BY <1>0, <1>5, GotoStep, Zenon DEF CheckLimits, dbVars
<1>6. CASE ReadFails(s)
  BY <1>0, <1>6, GotoStep DEF ReadFails, dbVars
<1>7. CASE VerifySecurity(s)
  BY <1>0, <1>7, GotoStep, Zenon DEF VerifySecurity, dbVars
<1>8. CASE CheckDailyAmount(s)
  BY <1>0, <1>8, GotoStep, Zenon DEF CheckDailyAmount, dbVars
<1> QED BY <1>1, <1>2, <1>3, <1>4, <1>5, <1>6, <1>7, <1>8

(* A participant that moves its session on and writes the row of its original. *)
LEMMA SessionWrites ==
    ASSUME IInv, NEW s \in Sessions, NEW c \in Contexts, NEW o \in Originals,
           sess[s].pc # "idle",
           sess' = [sess EXCEPT ![s] = c],
           o = sess[s].msg.orig,
           c.msg = sess[s].msg,
           c.rc = "00" => Booked(o)',
           log' \in [Originals -> Rows],
           posted' \in [Originals -> Nat],
           undone' \in [Originals -> Nat],
           balance' \in Int, count' \in Nat, spent' \in Nat,
           Forward, RowDecidesMoney',
           \A p \in Originals : log'[p].rc = "00" => Booked(p)',
           UNCHANGED <<inbox, outbox, stale, rwo, lastAtc, rev>>
    PROVE  IInv'
<1>1. TypeOK'
  BY DEF IInv, TypeOK
<1>2. /\ sess'[s] = c
      /\ \A z \in Sessions \ {s} : sess'[z] = sess[z]
  BY DEF IInv, TypeOK
<1>3. c.msg \in Messages
  BY DEF IInv, BusyInv
<1>4. \A z \in Sessions :
          \/ sess'[z] = sess[z]
          \/ /\ sess'[z].msg \in Messages
             /\ sess'[z].rc = "00" => Booked(sess[z].msg.orig)'
  BY <1>2, <1>3
<1> QED BY <1>1, <1>4, Preserved

(* LogAndOutbox.prepare. *)
LEMMA LogReceivedStep ==
    ASSUME IInv, NEW s \in Sessions, LogReceived(s)
    PROVE  IInv'
<1> USE Members
<1> DEFINE o == sess[s].msg.orig
<1>0. lastAtc \in Nat /\ sess[s].pc # "idle"
  BY DEF IInv, TypeOK, LogReceived
<1>1. /\ sess[s] \in Contexts
      /\ o \in Originals
      /\ sess[s].rc = "00" => Booked(o)
  BY <1>0, SessionFacts
<1>2. CASE UNCHANGED log /\ (Goto(s, "emv") \/ Goto(s, "finish"))
  BY <1>0, <1>2, GotoStep DEF LogReceived
<1>3. CASE /\ log[o].status = "NONE"
           /\ log' = [log EXCEPT ![o] = [status |-> "RECEIVED", rc |-> NoRC]]
           /\ \/ sess' = [sess EXCEPT ![s] = [@ EXCEPT !.pc = "emv", !.tran = TRUE]]
              \/ Goto(s, "finish")
  <2>0. PICK d \in {[sess[s] EXCEPT !.pc = "emv", !.tran = TRUE], [sess[s] EXCEPT !.pc = "finish"]} :
            sess' = [sess EXCEPT ![s] = d]
    BY <1>3 DEF Goto
  <2> DEFINE row == [status |-> "RECEIVED", rc |-> NoRC]
  <2>1. sess' = [sess EXCEPT ![s] = d] /\ log' = [log EXCEPT ![o] = row]
    BY <1>3, <2>0
  <2>2. d \in Contexts /\ d.msg = sess[s].msg /\ d.rc = sess[s].rc
    BY <1>1, <2>0, Zenon DEF Contexts
  <2>3. row \in Rows /\ row.status = "RECEIVED" /\ row.rc # "00"
    BY DEF Rows, NoRC
  <2>4. /\ UNCHANGED <<inbox, outbox, stale, rwo, posted, undone, balance, count, spent, lastAtc, rev>>
        /\ log \in [Originals -> Rows]
        /\ posted \in [Originals -> Nat]
        /\ undone \in [Originals -> Nat]
        /\ balance \in Int /\ count \in Nat /\ spent \in Nat
    BY DEF LogReceived, IInv, TypeOK
  <2> HIDE DEF row
  <2>5. log' \in [Originals -> Rows]
    BY <2>1, <2>3, <2>4, Zenon
  <2>6. /\ Forward
        /\ RowDecidesMoney'
        /\ \A p \in Originals : log'[p].rc = "00" => Booked(p)'
    BY <1>1, <1>3, <2>1, <2>3, <2>4, RowWithoutMoney, Zenon
  <2>7. \A q \in Originals : q = o /\ d.rc = "00" => Booked(q)'
    BY <1>1, <2>2, <2>6 DEF Forward
  <2> QED BY <1>0, <1>1, <2>1, <2>2, <2>4, <2>5, <2>6, <2>7, SessionWrites, Zenon
<1> QED BY <1>2, <1>3 DEF LogReceived

(* LogAndOutbox.commit and abort: with a code 00 the row is already decided. *)
LEMMA FinishStep ==
    ASSUME IInv, NEW s \in Sessions, Finish(s)
    PROVE  IInv'
<1> USE Members
<1> DEFINE o == sess[s].msg.orig
<1>0. lastAtc \in Nat /\ sess[s].pc # "idle" /\ Goto(s, "respond")
  BY DEF IInv, TypeOK, Finish
<1>1. /\ sess[s] \in Contexts
      /\ o \in Originals
      /\ sess[s].rc \in Codes \cup {NoRC}
      /\ sess[s].rc = "00" => Booked(o)
  BY <1>0, SessionFacts DEF Contexts
<1>2. CASE UNCHANGED log
  BY <1>0, <1>2, GotoStep, Zenon DEF Finish
<1> DEFINE row == [status |-> IF sess[s].rc = "00" THEN "APPROVED" ELSE "DECLINED", rc |-> sess[s].rc]
<1>3. CASE /\ log[o].status \in {"RECEIVED", "NONE"}
           /\ log' = [log EXCEPT ![o] = row]
  <2> DEFINE d == [sess[s] EXCEPT !.pc = "respond"]
  <2>1. sess' = [sess EXCEPT ![s] = d]
    BY <1>0 DEF Goto
  <2>2. d \in Contexts /\ d.msg = sess[s].msg /\ d.rc = sess[s].rc
    BY <1>1 DEF Contexts
  <2>3. sess[s].rc # "00"
    BY <1>1, <1>3, Zenon DEF Booked
  <2>4. row \in Rows /\ row.status = "DECLINED" /\ row.rc # "00"
    BY <1>1, <2>3 DEF Rows
  <2>5. /\ UNCHANGED <<inbox, outbox, stale, rwo, posted, undone, balance, count, spent, lastAtc, rev>>
        /\ log \in [Originals -> Rows]
        /\ posted \in [Originals -> Nat]
        /\ undone \in [Originals -> Nat]
        /\ balance \in Int /\ count \in Nat /\ spent \in Nat
    BY DEF Finish, IInv, TypeOK
  <2> HIDE DEF d, row
  <2>6. log' \in [Originals -> Rows]
    BY <1>3, <2>4, <2>5, Zenon
  <2>7. /\ Forward
        /\ RowDecidesMoney'
        /\ \A p \in Originals : log'[p].rc = "00" => Booked(p)'
    BY <1>1, <1>3, <2>4, <2>5, RowWithoutMoney, Zenon
  <2> QED BY <1>0, <1>1, <2>1, <2>2, <2>3, <2>5, <2>6, <2>7, SessionWrites, Zenon
<1> QED BY <1>2, <1>3 DEF Finish

(* approveInOneTransaction books an original that was RECEIVED, once. *)
LEMMA PostBooks ==
    ASSUME IInv, NEW o \in Originals, log[o].status = "RECEIVED", Post(o)
    PROVE  /\ log' \in [Originals -> Rows]
           /\ posted' \in [Originals -> Nat]
           /\ undone' \in [Originals -> Nat]
           /\ balance' \in Int /\ count' \in Nat /\ spent' \in Nat
           /\ Forward
           /\ RowDecidesMoney'
           /\ \A p \in Originals : log'[p].rc = "00" => Booked(p)'
           /\ Booked(o)'
<1> DEFINE row == [status |-> "APPROVED", rc |-> "00"]
<1>1. row \in Rows /\ row.status = "APPROVED" /\ row.rc = "00"
  BY Members DEF Rows
<1>2. /\ log' = [log EXCEPT ![o] = row]
      /\ posted' = IF Moves(o) THEN [posted EXCEPT ![o] = @ + 1] ELSE posted
      /\ UNCHANGED <<rwo, undone>>
  BY DEF Post
<1>3. /\ log \in [Originals -> Rows]
      /\ posted \in [Originals -> Nat]
      /\ undone \in [Originals -> Nat]
      /\ balance \in Int /\ count \in Nat /\ spent \in Nat
      /\ posted[o] = 0 /\ undone[o] = 0
  BY DEF IInv, TypeOK, RowDecidesMoney
<1>4. Amount[o] \in Nat /\ Effect(o) \in Int
  BY IssuerAssumption DEF Effect
<1>5. balance' \in Int /\ count' \in Nat /\ spent' \in Nat
  BY <1>3, <1>4 DEF Post
<1> HIDE DEF row
<1>6. /\ log'[o] = row
      /\ \A p \in Originals \ {o} : log'[p] = log[p]
      /\ log' \in [Originals -> Rows]
  BY <1>1, <1>2, <1>3
<1>7. /\ posted'[o] = IF Moves(o) THEN 1 ELSE 0
      /\ \A p \in Originals \ {o} : posted'[p] = posted[p]
      /\ posted' \in [Originals -> Nat]
      /\ undone' = undone
  BY <1>2, <1>3
<1>8. Booked(o)'
  BY <1>1, <1>6, <1>7 DEF Booked, Moves
<1>9. Forward
  BY <1>2, <1>6, <1>7, <1>8 DEF Forward, Settled, Booked, Moves
<1>10. RowDecidesMoney'
  <2>1. \A p \in Originals \ {o} : log'[p] = log[p] /\ posted'[p] = posted[p] /\ undone'[p] = undone[p]
    BY <1>6, <1>7
  <2>2. log'[o].status = "APPROVED" /\ posted'[o] = (IF Moves(o) THEN 1 ELSE 0) /\ undone'[o] = 0
    BY <1>1, <1>3, <1>6, <1>7
  <2> QED BY <2>1, <2>2 DEF IInv, RowDecidesMoney, Moves
<1>11. \A p \in Originals : log'[p].rc = "00" => Booked(p)'
  BY <1>6, <1>7, <1>8 DEF IInv, CodeInv, Booked, Moves
<1> QED BY <1>3, <1>5, <1>6, <1>7, <1>8, <1>9, <1>10, <1>11

(* Authorize, whether it approves, declines, rolls back or loses the reply to its COMMIT. *)
LEMMA AuthorizeStep ==
    ASSUME IInv, NEW s \in Sessions, Authorize(s)
    PROVE  IInv'
<1> USE Members
<1> DEFINE o == sess[s].msg.orig
<1>0. lastAtc \in Nat /\ sess[s].pc # "idle"
  BY DEF IInv, TypeOK, Authorize
<1>1. /\ sess[s] \in Contexts
      /\ o \in Originals
      /\ sess[s].rc = "00" => Booked(o)
  BY <1>0, SessionFacts
<1>2. UNCHANGED <<inbox, outbox, rev>>
  BY DEF Authorize
<1>3. CASE UNCHANGED dbVars /\ Goto(s, "finish")
  BY <1>0, <1>2, <1>3, GotoStep DEF dbVars
<1>4. CASE UNCHANGED dbVars /\ (GotoWith(s, "finish", "51") \/ GotoWith(s, "finish", "94"))
  BY <1>0, <1>2, <1>4, GotoStep DEF dbVars
<1>5. CASE /\ log[o].status = "RECEIVED"
           /\ Post(o)
           /\ GotoWith(s, "finish", "00") \/ Goto(s, "finish")
  <2>1. PICK d \in Contexts : sess' = [sess EXCEPT ![s] = d] /\ d.msg = sess[s].msg
    <3>1. CASE Goto(s, "finish")
      <4>1. [sess[s] EXCEPT !.pc = "finish"] \in Contexts
            /\ [sess[s] EXCEPT !.pc = "finish"].msg = sess[s].msg
        BY <1>1 DEF Contexts
      <4> QED BY <3>1, <4>1, Zenon DEF Goto
    <3>2. CASE GotoWith(s, "finish", "00")
      <4>1. [sess[s] EXCEPT !.pc = "finish", !.rc = "00"] \in Contexts
            /\ [sess[s] EXCEPT !.pc = "finish", !.rc = "00"].msg = sess[s].msg
        BY <1>1, Zenon DEF Contexts
      <4> QED BY <3>2, <4>1, Zenon DEF GotoWith
    <3> QED BY <1>5, <3>1, <3>2
  <2>2. /\ log' \in [Originals -> Rows]
        /\ posted' \in [Originals -> Nat]
        /\ undone' \in [Originals -> Nat]
        /\ balance' \in Int /\ count' \in Nat /\ spent' \in Nat
        /\ Forward
        /\ RowDecidesMoney'
        /\ \A p \in Originals : log'[p].rc = "00" => Booked(p)'
        /\ \A q \in Originals : q = o => Booked(q)'
    BY <1>1, <1>5, PostBooks
  <2>3. UNCHANGED <<stale, rwo, lastAtc>>
    BY <1>5, Zenon DEF Post
  <2> QED BY <1>0, <1>1, <1>2, <2>1, <2>2, <2>3, SessionWrites, Zenon
<1> QED BY <1>3, <1>4, <1>5, Zenon DEF Authorize

(* The listener accepts or refuses a 0200. *)
LEMMA AcceptStep ==
    ASSUME IInv, NEW s \in Sessions, NEW m \in inbox, Accept(s, m)
    PROVE  IInv'
<1> USE Members
<1>1. m \in Messages
  BY DEF IInv, TypeOK
<1>2. UNCHANGED <<dbVars, rev>> /\ inbox' \subseteq inbox
  BY DEF Accept
<1>3. ASSUME NEW c \in Contexts, sess' = [sess EXCEPT ![s] = c], c.msg = m, c.rc # "00", UNCHANGED outbox
      PROVE  IInv'
  <2>1. TypeOK'
    BY <1>2, <1>3 DEF IInv, TypeOK, dbVars
  <2>2. \A z \in Sessions : sess'[z] = IF z = s THEN c ELSE sess[z]
    BY <1>3 DEF IInv, TypeOK
  <2> QED BY <1>1, <1>2, <1>3, <2>1, <2>2, RowsUntouched, Preserved, Zenon DEF dbVars
<1>4. CASE sess' = [sess EXCEPT ![s] = [Idle EXCEPT !.pc = "rwo", !.msg = m]] /\ UNCHANGED outbox
  <2> DEFINE d == [Idle EXCEPT !.pc = "rwo", !.msg = m]
  <2>1. d \in Contexts /\ d.msg = m /\ d.rc # "00"
    BY <1>1, Zenon DEF Contexts, Idle, NoRC
  <2> HIDE DEF d
  <2> QED BY <1>3, <1>4, <2>1, Zenon DEF d
<1>5. CASE sess' = [sess EXCEPT ![s] = [Idle EXCEPT !.pc = "finish", !.msg = m, !.rc = "30"]] /\ UNCHANGED outbox
  <2> DEFINE d == [Idle EXCEPT !.pc = "finish", !.msg = m, !.rc = "30"]
  <2>1. d \in Contexts /\ d.msg = m /\ d.rc = "30"
    BY <1>1, Zenon DEF Contexts, Idle
  <2> HIDE DEF d
  <2> QED BY <1>3, <1>5, <2>1, Zenon DEF d
<1>6. ASSUME NEW q \in {"91", "96"}, outbox' = outbox \cup {Answer("0210", m, q, FALSE)}, UNCHANGED sess
      PROVE  IInv'
  <2>1. /\ Answer("0210", m, q, FALSE) \in Answers
        /\ Answer("0210", m, q, FALSE).rc # "00"
    BY <1>1, <1>6 DEF Answer, Answers, Messages
  <2>2. TypeOK'
    BY <1>2, <1>6, <2>1, Zenon DEF IInv, TypeOK, dbVars
  <2> QED BY <1>2, <1>6, <2>1, <2>2, RowsUntouched, Preserved, Zenon DEF dbVars
<1> QED BY <1>4, <1>5, <1>6, Zenon DEF Accept

(* Respond sends the code of the session. *)
LEMMA RespondStep ==
    ASSUME IInv, NEW s \in Sessions, Respond(s)
    PROVE  IInv'
<1>0. PICK a : a = Answer("0210", sess[s].msg, sess[s].rc, TRUE)
  BY Zenon
<1>1. /\ sess[s].pc # "idle"
      /\ outbox' = outbox \cup {a}
      /\ sess' = [sess EXCEPT ![s] = Idle]
      /\ UNCHANGED <<inbox, dbVars, rev>>
  BY <1>0 DEF Respond
<1>2. /\ sess[s].rc \in Codes \cup {NoRC}
      /\ sess[s].msg \in Messages
      /\ sess[s].rc = "00" => Booked(sess[s].msg.orig)
  BY <1>1, SessionFacts DEF Contexts
<1>3. /\ a \in Answers
      /\ a.mti = "0210"
      /\ a.rc = "00" => Booked(a.orig)
      /\ a.orig \in Originals
  BY <1>0, <1>2 DEF Answer, Answers, Messages
<1>4. TypeOK'
  BY <1>1, <1>3, ContextStart DEF IInv, TypeOK, dbVars
<1>5. \A z \in Sessions : sess'[z] = IF z = s THEN Idle ELSE sess[z]
  BY <1>1 DEF IInv, TypeOK
<1>6. Forward
  BY <1>1, RowsUntouched DEF dbVars
<1>7. a.rc = "00" => Booked(a.orig)'
  BY <1>3, <1>6 DEF Forward
<1> QED BY <1>1, <1>3, <1>4, <1>5, <1>7, ContextStart, RowsUntouched, Preserved, Zenon DEF dbVars

(* A reversal session that moves on, alone or with the row of its original. *)
LEMMA RevWrites ==
    ASSUME IInv, NEW s \in RevSessions, NEW c \in RevContexts,
           rev' = [rev EXCEPT ![s] = c],
           c.msg \in Messages,
           RevOK(rev[s])',
           inbox' \subseteq inbox,
           log' \in [Originals -> Rows],
           undone' \in [Originals -> Nat],
           balance' \in Int, count' \in Nat, spent' \in Nat,
           rwo' \subseteq Originals,
           Forward, RowDecidesMoney',
           \A p \in Originals : log'[p].rc = "00" => Booked(p)',
           UNCHANGED <<outbox, stale, posted, lastAtc, sess>>
    PROVE  IInv'
<1>1. TypeOK'
  BY DEF IInv, TypeOK
<1>2. /\ rev'[s] = c
      /\ \A z \in RevSessions \ {s} : rev'[z] = rev[z]
  BY DEF IInv, TypeOK
<1>3. \A z \in RevSessions :
          \/ rev'[z] = rev[z]
          \/ rev'[z].msg \in Messages /\ RevOK(rev[z])'
  BY <1>2
<1> QED BY <1>1, <1>3, Preserved

(* A busy reversal session's message, original and row. *)
LEMMA RevFacts ==
    ASSUME IInv, NEW s \in RevSessions, rev[s].pc # "idle"
    PROVE  /\ rev[s] \in RevContexts
           /\ rev[s].msg \in Messages
           /\ rev[s].msg.orig \in Originals
           /\ log[rev[s].msg.orig] \in Rows
           /\ RevOK(rev[s])
<1>1. rev[s].msg \in Messages
  BY DEF IInv, BusyInv
<1>2. rev[s].msg.orig \in Originals
  BY <1>1 DEF Messages
<1> QED BY <1>1, <1>2 DEF IInv, TypeOK, RevInv

(* The listener accepts or refuses a 0420. *)
LEMMA AcceptReversalStep ==
    ASSUME IInv, NEW s \in RevSessions, NEW m \in inbox, AcceptReversal(s, m)
    PROVE  IInv'
<1>1. m \in Messages
  BY DEF IInv, TypeOK
<1>2. UNCHANGED <<dbVars, sess>> /\ inbox' \subseteq inbox
  BY DEF AcceptReversal
<1>3. CASE rev' = [rev EXCEPT ![s] = [RevIdle EXCEPT !.pc = "locate", !.msg = m]] /\ UNCHANGED outbox
  <2>1. PICK c : c = [RevIdle EXCEPT !.pc = "locate", !.msg = m]
    OBVIOUS
  <2>2. c \in RevContexts /\ c.msg = m /\ c.pc = "locate"
    BY <1>1, <2>1, Members, Zenon DEF RevContexts, RevIdle
  <2>3. rev' = [rev EXCEPT ![s] = c]
    BY <1>3, <2>1
  <2>4. rev'[s] = c
    BY <2>3 DEF IInv, TypeOK
  <2>5. RevOK(rev[s])'
    BY <2>2, <2>4 DEF RevOK
  <2>6. /\ log' \in [Originals -> Rows]
        /\ undone' \in [Originals -> Nat]
        /\ balance' \in Int /\ count' \in Nat /\ spent' \in Nat
        /\ rwo' \subseteq Originals
    BY <1>2 DEF IInv, TypeOK, dbVars
  <2> QED BY <1>1, <1>2, <1>3, <2>2, <2>3, <2>5, <2>6, RowsUntouched, RevWrites, Zenon DEF dbVars
<1>4. ASSUME NEW q \in {"91", "96"}, outbox' = outbox \cup {Answer("0430", m, q, TRUE)}, UNCHANGED rev
      PROVE  IInv'
  <2>1. /\ Answer("0430", m, q, TRUE) \in Answers
        /\ Answer("0430", m, q, TRUE).rc # "00"
    BY <1>1, <1>4, Members DEF Answer, Answers, Messages
  <2>2. TypeOK'
    BY <1>2, <1>4, <2>1, Zenon DEF IInv, TypeOK, dbVars
  <2> QED BY <1>2, <1>4, <2>1, <2>2, RowsUntouched, Preserved, Zenon DEF dbVars
<1> QED BY <1>3, <1>4, Zenon DEF AcceptReversal

(* findByReversalKey: what the session reads is true when it reads it. *)
LEMMA LocateStep ==
    ASSUME IInv, NEW s \in RevSessions, Locate(s)
    PROVE  IInv'
<1> DEFINE f == log[rev[s].msg.orig].status
<1>1. /\ rev[s].pc # "idle"
      /\ UNCHANGED <<inbox, outbox, dbVars, sess>>
  BY DEF Locate
<1>2. /\ rev[s] \in RevContexts
      /\ rev[s].msg \in Messages
      /\ f \in Statuses
  BY <1>1, RevFacts, RowFields
<1>3. PICK c : c = [rev[s] EXCEPT !.pc = "apply", !.found = f]
  OBVIOUS
<1>4. c \in RevContexts /\ c.msg = rev[s].msg /\ c.pc = "apply" /\ c.found = f
  BY <1>2, <1>3, Members, Zenon DEF RevContexts
<1>5. rev' = [rev EXCEPT ![s] = c]
  BY <1>3 DEF Locate
<1>6. rev'[s] = c
  BY <1>5 DEF IInv, TypeOK
<1>7. log' = log /\ rwo' = rwo
  BY <1>1 DEF dbVars
<1>8. RevOK(rev[s])'
  BY <1>4, <1>6, <1>7, Zenon DEF RevOK, Settled
<1>9. /\ log' \in [Originals -> Rows]
      /\ undone' \in [Originals -> Nat]
      /\ balance' \in Int /\ count' \in Nat /\ spent' \in Nat
      /\ rwo' \subseteq Originals
  BY <1>1 DEF IInv, TypeOK, dbVars
<1> QED BY <1>1, <1>2, <1>4, <1>5, <1>8, <1>9, RowsUntouched, RevWrites, Zenon DEF dbVars

(* The reversing transaction gives back what was posted, once. *)
LEMMA UndoSettles ==
    ASSUME IInv, NEW o \in Originals, log[o].status = "APPROVED", Undo(o)
    PROVE  /\ log' \in [Originals -> Rows]
           /\ undone' \in [Originals -> Nat]
           /\ balance' \in Int /\ count' \in Nat /\ spent' \in Nat
           /\ Forward
           /\ RowDecidesMoney'
           /\ \A p \in Originals : log'[p].rc = "00" => Booked(p)'
           /\ log'[o].status = "REVERSED"
<1>1. PICK row : row = [log[o] EXCEPT !.status = "REVERSED"]
  BY Zenon
<1>2. /\ log' = [log EXCEPT ![o] = row]
      /\ undone' = IF posted[o] > 0 THEN [undone EXCEPT ![o] = @ + 1] ELSE undone
      /\ posted' = posted /\ rwo' = rwo
  BY <1>1 DEF Undo
<1>3. /\ log \in [Originals -> Rows]
      /\ posted \in [Originals -> Nat]
      /\ undone \in [Originals -> Nat]
      /\ balance \in Int /\ count \in Nat /\ spent \in Nat
      /\ posted[o] \in {0, 1} /\ undone[o] = 0
  BY DEF IInv, TypeOK, RowDecidesMoney
<1>4. row \in Rows /\ row.status = "REVERSED" /\ row.rc = log[o].rc
  BY <1>1, <1>3, Members DEF Rows
<1>5. Amount[o] \in Nat /\ Effect(o) \in Int
  BY IssuerAssumption DEF Effect
<1>6. balance' \in Int /\ count' \in Nat /\ spent' \in Nat
  BY <1>3, <1>5 DEF Undo, Floored
<1>7. /\ log'[o] = row
      /\ \A p \in Originals \ {o} : log'[p] = log[p]
      /\ log' \in [Originals -> Rows]
  BY <1>2, <1>3, <1>4
<1>8. /\ undone'[o] = posted[o]
      /\ \A p \in Originals \ {o} : undone'[p] = undone[p]
      /\ undone' \in [Originals -> Nat]
  BY <1>2, <1>3
<1>9. Forward
  BY <1>2, <1>4, <1>7 DEF Forward, Settled, Booked, Moves
<1>10. RowDecidesMoney'
  BY <1>2, <1>3, <1>4, <1>7, <1>8 DEF IInv, RowDecidesMoney, Moves
<1>11. \A p \in Originals : log'[p].rc = "00" => Booked(p)'
  BY <1>2, <1>4, <1>7, Zenon DEF IInv, CodeInv, Booked, Moves
<1> QED BY <1>4, <1>6, <1>7, <1>8, <1>9, <1>10, <1>11, Zenon

(* LocateAndReverse.prepare after the read: whatever it decided on, an acknowledgement is only
   prepared for a settled row or a recorded early reversal. *)
LEMMA ReverseStep ==
    ASSUME IInv, NEW s \in RevSessions, Reverse(s)
    PROVE  IInv'
<1>0. PICK o : o = rev[s].msg.orig
  OBVIOUS
<1>1. rev[s].pc = "apply" /\ UNCHANGED <<inbox, outbox, sess>>
  BY Zenon DEF Reverse
<1>2. /\ rev[s] \in RevContexts
      /\ rev[s].msg \in Messages
      /\ o \in Originals
      /\ log[o] \in Rows
      /\ RevOK(rev[s])
  BY <1>0, <1>1, RevFacts
<1>3. /\ log \in [Originals -> Rows]
      /\ undone \in [Originals -> Nat]
      /\ balance \in Int /\ count \in Nat /\ spent \in Nat
      /\ rwo \subseteq Originals
  BY DEF IInv, TypeOK
<1>4. ASSUME NEW k \in BOOLEAN, RevGoto(s, k),
             k => o \in rwo' \/ Settled(o)',
             log' \in [Originals -> Rows],
             undone' \in [Originals -> Nat],
             balance' \in Int, count' \in Nat, spent' \in Nat,
             rwo' \subseteq Originals,
             Forward, RowDecidesMoney',
             \A p \in Originals : log'[p].rc = "00" => Booked(p)',
             UNCHANGED <<stale, posted, lastAtc>>
      PROVE  IInv'
  <2>1. PICK c : c = [rev[s] EXCEPT !.pc = "respond", !.ok = k]
    OBVIOUS
  <2>2. c \in RevContexts /\ c.msg = rev[s].msg /\ c.pc = "respond" /\ c.ok = k
    BY <1>2, <2>1, Members, Zenon DEF RevContexts
  <2>3. rev' = [rev EXCEPT ![s] = c]
    BY <1>4, <2>1 DEF RevGoto
  <2>4. rev'[s] = c
    BY <2>3 DEF IInv, TypeOK
  <2>5. RevOK(rev[s])'
    BY <1>0, <1>4, <2>2, <2>4, Zenon DEF RevOK
  <2> QED BY <1>1, <1>2, <1>4, <2>2, <2>3, <2>5, RevWrites, Zenon
<1>w. ASSUME RevWritten(s) PROVE \E k \in BOOLEAN : RevGoto(s, k)
  BY <1>w, Zenon DEF RevWritten
<1>5. CASE /\ rwo' = rwo \cup {o}
           /\ RevWritten(s)
           /\ UNCHANGED <<log, stale, posted, undone, balance, count, spent, lastAtc>>
  <2>0. PICK k \in BOOLEAN : RevGoto(s, k)
    BY <1>w, <1>5
  <2>1. /\ Forward
        /\ RowDecidesMoney'
        /\ \A p \in Originals : log'[p].rc = "00" => Booked(p)'
    BY <1>5, Zenon DEF IInv, Forward, RowDecidesMoney, Booked, Settled, CodeInv
  <2> QED BY <1>2, <1>3, <1>4, <1>5, <2>0, <2>1
<1>6. CASE /\ Abandonable(o)
           /\ log' = [log EXCEPT ![o] = [status |-> "REVERSED", rc |-> "94"]]
           /\ RevWritten(s)
           /\ UNCHANGED <<stale, rwo, posted, undone, balance, count, spent, lastAtc>>
  <2>0. PICK k \in BOOLEAN : RevGoto(s, k)
    BY <1>w, <1>6
  <2>1. PICK row : row = [status |-> "REVERSED", rc |-> "94"]
    BY Zenon
  <2>2. row \in Rows /\ row.status = "REVERSED" /\ row.rc # "00"
    BY <2>1, Members DEF Rows
  <2>3. log' = [log EXCEPT ![o] = row] /\ log[o].status = "RECEIVED"
    BY <1>6, <2>1 DEF Abandonable
  <2>4. /\ Forward
        /\ RowDecidesMoney'
        /\ \A p \in Originals : log'[p].rc = "00" => Booked(p)'
    BY <1>2, <1>6, <2>2, <2>3, RowWithoutMoney, Zenon
  <2>5. log' \in [Originals -> Rows] /\ Settled(o)'
    BY <1>2, <1>3, <2>2, <2>3 DEF Settled
  <2> QED BY <1>3, <1>4, <1>6, <2>0, <2>4, <2>5
<1>7. CASE RevGoto(s, FALSE) /\ UNCHANGED dbVars
  <2>1. UNCHANGED <<log, stale, rwo, posted, undone, balance, count, spent, lastAtc>>
    BY <1>7 DEF dbVars
  <2> QED BY <1>3, <1>4, <1>7, <2>1, RowsUntouched, Zenon
<1>8. CASE /\ log[o].status = "APPROVED"
           /\ Undo(o)
           /\ RevWritten(s)
  <2>0. PICK k \in BOOLEAN : RevGoto(s, k)
    BY <1>w, <1>8
  <2>1. UNCHANGED <<stale, rwo, posted, lastAtc>>
    BY <1>8 DEF Undo
  <2>2. /\ log' \in [Originals -> Rows]
        /\ undone' \in [Originals -> Nat]
        /\ balance' \in Int /\ count' \in Nat /\ spent' \in Nat
        /\ Forward
        /\ RowDecidesMoney'
        /\ \A p \in Originals : log'[p].rc = "00" => Booked(p)'
        /\ log'[o].status = "REVERSED"
    BY <1>2, <1>8, UndoSettles, Zenon
  <2>3. Settled(o)'
    BY <2>2 DEF Settled
  <2> QED BY <1>3, <1>4, <1>8, <2>0, <2>1, <2>2, <2>3
<1>9. CASE /\ \/ rev[s].found = "APPROVED" /\ log[o].status # "APPROVED"
              \/ rev[s].found \in {"DECLINED", "REVERSED"}
           /\ RevGoto(s, TRUE)
           /\ UNCHANGED dbVars
  <2>1. UNCHANGED <<log, stale, rwo, posted, undone, balance, count, spent, lastAtc>>
    BY <1>9 DEF dbVars
  <2>2. Settled(o)
    BY <1>0, <1>1, <1>2, <1>9, Zenon DEF RevOK, Settled
  <2>3. Settled(o)'
    BY <2>1, <2>2 DEF Settled
  <2> QED BY <1>3, <1>4, <1>9, <2>1, <2>3, RowsUntouched, Zenon
<1> QED BY <1>0, <1>5, <1>6, <1>7, <1>8, <1>9, Zenon DEF Reverse, Reversible

(* RespondReversal acknowledges with 00 only what ReverseStep prepared. *)
LEMMA RespondReversalStep ==
    ASSUME IInv, NEW s \in RevSessions, RespondReversal(s)
    PROVE  IInv'
<1>0. PICK a : a = Answer("0430", rev[s].msg, IF rev[s].ok THEN "00" ELSE "96", TRUE)
  BY Zenon
<1>1. /\ rev[s].pc = "respond"
      /\ outbox' = outbox \cup {a}
      /\ rev' = [rev EXCEPT ![s] = RevIdle]
      /\ UNCHANGED <<inbox, dbVars, sess>>
  BY <1>0 DEF RespondReversal
<1>2. rev[s].msg \in Messages /\ RevOK(rev[s])
  BY <1>1, RevFacts
<1>3. /\ a \in Answers
      /\ a.mti = "0430"
      /\ a.orig = rev[s].msg.orig
      /\ a.orig \in Originals
      /\ a.rc = "00" => rev[s].ok
  BY <1>0, <1>2, Members DEF Answer, Answers, Messages
<1>4. a.rc = "00" /\ a.orig \notin rwo => Settled(a.orig)
  BY <1>1, <1>2, <1>3, Zenon DEF RevOK
<1>5. TypeOK'
  BY <1>1, <1>3, RevContextStart, Zenon DEF IInv, TypeOK, dbVars
<1>6. \A z \in RevSessions : rev'[z] = IF z = s THEN RevIdle ELSE rev[z]
  BY <1>1 DEF IInv, TypeOK
<1>7. a.rc = "00" /\ a.orig \notin rwo' => Settled(a.orig)'
  BY <1>1, <1>4, Zenon DEF Settled, dbVars
<1> QED BY <1>1, <1>3, <1>5, <1>6, <1>7, RevContextStart, RowsUntouched, Preserved, Zenon DEF dbVars

(* Time passes for a RECEIVED row, or the process stops: no row changes. *)
LEMMA StaleOrCrashStep ==
    ASSUME IInv, Crash \/ \E o \in Originals : GrowStale(o)
    PROVE  IInv'
<1>1. UNCHANGED <<inbox, outbox, log, rwo, posted, undone, balance, count, spent, lastAtc>>
  BY Zenon DEF Crash, GrowStale, dbVars
<1>2. TypeOK'
  BY <1>1, ContextStart, RevContextStart DEF IInv, TypeOK, Crash, GrowStale, dbVars
<1>3. /\ \A z \in Sessions : sess'[z] = sess[z] \/ sess'[z].pc = "idle"
      /\ \A z \in RevSessions : rev'[z] = rev[z] \/ rev'[z].pc = "idle"
  <2>1. Idle.pc = "idle" /\ RevIdle.pc = "idle"
    BY ContextStart, RevContextStart
  <2>2. CASE Crash
    BY <2>1, <2>2, Zenon DEF Crash
  <2>3. CASE \E o \in Originals : GrowStale(o)
    BY <2>3, Zenon DEF GrowStale
  <2> QED BY <2>2, <2>3
<1> QED BY <1>1, <1>2, <1>3, RowsUntouched, Preserved, Zenon

(* Every step of the issuer keeps the invariant. *)
LEMMA InductiveStep ==
    ASSUME IInv, [Next]_vars
    PROVE  IInv'
<1>1. CASE UNCHANGED vars
  <2>1. UNCHANGED <<inbox, outbox, log, stale, rwo, posted, undone, balance, count, spent, lastAtc, sess, rev>>
    BY <1>1 DEF vars, dbVars
  <2>2. TypeOK'
    BY <2>1 DEF IInv, TypeOK
  <2> QED BY <2>1, <2>2, RowsUntouched, Preserved, Zenon
<1>2. ASSUME NEW s \in Sessions, SessionStep(s)
      PROVE  IInv'
  BY <1>2, ReadingSteps, LogReceivedStep, AuthorizeStep, FinishStep, RespondStep DEF SessionStep
<1>3. ASSUME NEW s \in RevSessions, RevStep(s)
      PROVE  IInv'
  BY <1>3, LocateStep, ReverseStep, RespondReversalStep DEF RevStep
<1>4. ASSUME NEW s \in Sessions, NEW m \in inbox, Accept(s, m)
      PROVE  IInv'
  BY <1>4, AcceptStep
<1>5. ASSUME NEW s \in RevSessions, NEW m \in inbox, AcceptReversal(s, m)
      PROVE  IInv'
  BY <1>5, AcceptReversalStep
<1>6. CASE Crash \/ \E o \in Originals : GrowStale(o)
  BY <1>6, StaleOrCrashStep
<1> QED BY <1>1, <1>2, <1>3, <1>4, <1>5, <1>6 DEF Next

(* The issuer starts with empty tables and idle sessions. *)
LEMMA InductiveInit == Init => IInv
<1> SUFFICES ASSUME Init PROVE IInv
  OBVIOUS
<1>1. \A o \in Originals : log[o] \in Rows /\ log[o].status = "NONE" /\ log[o].rc = NoRC
  BY Members DEF Init, Rows
<1>2. TypeOK
  BY <1>1, IssuerAssumption, ContextStart, RevContextStart DEF Init, TypeOK
<1>3. BusyInv /\ RevInv
  BY ContextStart, RevContextStart, Zenon DEF Init, BusyInv, RevInv, AcknowledgedIsSettled
<1>4. RowDecidesMoney
  BY <1>1 DEF Init, RowDecidesMoney
<1>5. CodeInv
  BY <1>1, ContextStart, Zenon DEF Init, CodeInv, ApprovedAnswerIsPosted, NoRC
<1> QED BY <1>2, <1>3, <1>4, <1>5 DEF IInv

(* The inductive invariant holds in every behaviour of the issuer. *)
THEOREM Inductive == Spec => []IInv
BY InductiveInit, InductiveStep, PTL DEF Spec

(* Tables, contexts and answers are always well typed. *)
THEOREM TypeCorrect == Spec => []TypeOK
BY Inductive, PTL DEF IInv

(* For any number of originals, copies, sessions and crashes, the status of a tran_log row tells
   exactly which journals exist: Authorize and LocateAndReverse post at most once each. *)
THEOREM MoneyFollowsRow == Spec => []RowDecidesMoney
BY Inductive, PTL DEF IInv

(* Every 0210 with 00 that Respond sends is backed by a posted original. *)
THEOREM ApprovalsAreBooked == Spec => []ApprovedAnswerIsPosted
<1>1. IInv => ApprovedAnswerIsPosted
  BY DEF IInv, CodeInv
<1> QED BY <1>1, Inductive, PTL

(* Every 0430 with 00 for an original that was found leaves it declined or reversed for good. *)
THEOREM AcknowledgementsAreFinal == Spec => []AcknowledgedIsSettled
<1>1. IInv => AcknowledgedIsSettled
  BY DEF IInv, RevInv
<1> QED BY <1>1, Inductive, PTL

-----------------------------------------------------------------------------
(* The only steps that touch a row, a journal, the balance or the daily count. *)
RowWrite(o) ==
    /\ log[o].status \in {"NONE", "RECEIVED"}
    /\ \E row \in Rows : log' = [log EXCEPT ![o] = row]
    /\ UNCHANGED <<posted, undone, balance, count, spent>>
BookStep(o) ==
    /\ \E s \in Sessions : sess[s].pc = "authorize" /\ sess[s].msg.orig = o
    /\ log[o].status = "RECEIVED" /\ ~NoFunds(o) /\ Post(o)
UndoStep(o) ==
    /\ \E s \in RevSessions : rev[s].pc = "apply" /\ rev[s].msg.orig = o
    /\ log[o].status = "APPROVED" /\ Undo(o)
Untouched == UNCHANGED <<log, posted, undone, balance, count, spent>>

(* A 0200 session writes the row of its original while it is undecided, or books it. *)
LEMMA SessionMoney ==
    ASSUME IInv, NEW s \in Sessions, SessionStep(s)
    PROVE  Untouched \/ \E o \in Originals : RowWrite(o) \/ BookStep(o)
<1>0. CASE \/ CheckReversed(s) \/ Deduplicate(s) \/ CheckCard(s) \/ VerifyEmv(s) \/ VerifySecurity(s)
           \/ CheckLimits(s) \/ CheckDailyAmount(s) \/ ReadFails(s) \/ Respond(s)
  BY <1>0, Zenon DEF CheckReversed, Deduplicate, CheckCard, VerifyEmv, VerifySecurity, CheckLimits, CheckDailyAmount,
              ReadFails, Respond, dbVars, Untouched
<1> DEFINE o == sess[s].msg.orig
<1>1. CASE LogReceived(s)
  <2>1. o \in Originals
    BY <1>1, SessionFacts DEF LogReceived
  <2>2. [status |-> "RECEIVED", rc |-> NoRC] \in Rows
    BY Members DEF Rows
  <2> QED BY <1>1, <2>1, <2>2 DEF LogReceived, RowWrite, Untouched
<1>2. CASE Authorize(s)
  <2>1. o \in Originals
    BY <1>2, SessionFacts, Zenon DEF Authorize
  <2> QED BY <1>2, <2>1, Zenon DEF Authorize, BookStep, Untouched, dbVars
<1>3. CASE Finish(s)
  <2>1. o \in Originals /\ sess[s].rc \in Codes \cup {NoRC}
    BY <1>3, SessionFacts, Zenon DEF Finish, Contexts
  <2> DEFINE row == [status |-> IF sess[s].rc = "00" THEN "APPROVED" ELSE "DECLINED", rc |-> sess[s].rc]
  <2>2. row \in Rows
    BY <2>1, Members, Zenon DEF Rows
  <2>3. \/ UNCHANGED log
        \/ log[o].status \in {"NONE", "RECEIVED"} /\ log' = [log EXCEPT ![o] = row]
    BY <1>3, Zenon DEF Finish
  <2>4. UNCHANGED <<posted, undone, balance, count, spent>>
    BY <1>3, Zenon DEF Finish
  <2> HIDE DEF row
  <2> QED BY <2>1, <2>2, <2>3, <2>4, Zenon DEF RowWrite, Untouched
<1> QED BY <1>0, <1>1, <1>2, <1>3 DEF SessionStep

(* A reversal session abandons an undecided row or undoes an approval. *)
LEMMA ReversalMoney ==
    ASSUME IInv, NEW s \in RevSessions, RevStep(s)
    PROVE  Untouched \/ \E o \in Originals : RowWrite(o) \/ UndoStep(o)
<1>1. CASE Locate(s) \/ RespondReversal(s)
  BY <1>1, Zenon DEF Locate, RespondReversal, dbVars, Untouched
<1>2. CASE Reverse(s)
  <2> DEFINE o == rev[s].msg.orig
  <2>1. o \in Originals
    BY <1>2, RevFacts, Zenon DEF Reverse
  <2>2. [status |-> "REVERSED", rc |-> "94"] \in Rows
    BY Members DEF Rows
  <2> QED BY <1>2, <2>1, <2>2, Zenon DEF Reverse, Reversible, Abandonable, RowWrite, UndoStep, Untouched, dbVars
<1> QED BY <1>1, <1>2 DEF RevStep

(* Every step touches no money, or is one of the three kinds above on one original. *)
LEMMA MoneySteps ==
    ASSUME IInv, [Next]_vars
    PROVE  Untouched \/ \E o \in Originals : RowWrite(o) \/ BookStep(o) \/ UndoStep(o)
<1>1. CASE UNCHANGED vars
  BY <1>1 DEF vars, dbVars, Untouched
<1>2. CASE \E s \in Sessions : SessionStep(s)
  BY <1>2, SessionMoney
<1>3. CASE \E s \in RevSessions : RevStep(s)
  BY <1>3, ReversalMoney
<1>4. CASE \/ \E s \in Sessions : \E m \in inbox : Accept(s, m)
           \/ \E s \in RevSessions : \E m \in inbox : AcceptReversal(s, m)
           \/ \E o \in Originals : GrowStale(o)
           \/ Crash
  BY <1>4, Zenon DEF Accept, AcceptReversal, GrowStale, Crash, dbVars, Untouched
<1> QED BY <1>1, <1>2, <1>3, <1>4 DEF Next

(* The rows and journals a money step leaves alone, and what becomes of the one it writes. *)
LEMMA MoneyFacts ==
    ASSUME IInv, NEW o \in Originals, RowWrite(o) \/ BookStep(o) \/ UndoStep(o)
    PROVE  /\ \A p \in Originals \ {o} : log'[p] = log[p] /\ posted'[p] = posted[p] /\ undone'[p] = undone[p]
           /\ RowWrite(o) => posted'[o] = posted[o] /\ undone'[o] = undone[o]
           /\ BookStep(o) => /\ log'[o].status = "APPROVED"
                             /\ posted'[o] = IF Moves(o) THEN posted[o] + 1 ELSE posted[o]
                             /\ undone'[o] = undone[o]
           /\ UndoStep(o) => /\ log'[o] = [log[o] EXCEPT !.status = "REVERSED"]
                             /\ posted'[o] = posted[o]
                             /\ undone'[o] = IF posted[o] > 0 THEN undone[o] + 1 ELSE undone[o]
<1>1. log \in [Originals -> Rows] /\ posted \in [Originals -> Nat] /\ undone \in [Originals -> Nat]
  BY DEF IInv, TypeOK
<1>2. CASE RowWrite(o)
  BY <1>1, <1>2 DEF RowWrite, BookStep, UndoStep, Post, Undo
<1>3. CASE BookStep(o)
  BY <1>1, <1>3 DEF RowWrite, BookStep, UndoStep, Post, Undo
<1>4. CASE UndoStep(o)
  BY <1>1, <1>4 DEF RowWrite, BookStep, UndoStep, Post, Undo
<1> QED BY <1>2, <1>3, <1>4

(* "nothing ever overwrites a decided row", for any number of originals, copies, sessions and faults:
   every write to tran_log is conditional on the status its transaction sees. *)
THEOREM DecidedRowsStay == Spec => DecidedRowKept
<1> DEFINE Keeps ==
    \A o \in Originals :
        log[o].status \in {"APPROVED", "DECLINED", "REVERSED"} /\ log'[o] # log[o] =>
            log[o].status = "APPROVED" /\ log'[o] = [log[o] EXCEPT !.status = "REVERSED"]
<1>1. ASSUME IInv, [Next]_vars
      PROVE  [Keeps]_vars
  <2>1. CASE Untouched
    BY <2>1 DEF Untouched
  <2>2. ASSUME NEW o \in Originals, RowWrite(o) \/ BookStep(o) \/ UndoStep(o)
        PROVE  Keeps
    <3>1. UndoStep(o) \/ log[o].status \in {"NONE", "RECEIVED"}
      BY <2>2, Zenon DEF RowWrite, BookStep
    <3>2. UndoStep(o) => log[o].status = "APPROVED"
      BY DEF UndoStep
    <3> QED BY <1>1, <2>2, <3>1, <3>2, MoneyFacts, Zenon
  <2> QED BY <1>1, <2>1, <2>2, MoneySteps
<1> QED BY <1>1, Inductive, PTL DEF Spec, DecidedRowKept

(* The money of one original, before and after a step on it. *)
LEMMA MoneyMoves ==
    ASSUME IInv, NEW o \in Originals, RowWrite(o) \/ BookStep(o) \/ UndoStep(o)
    PROVE  /\ \A p \in Originals \ {o} : Money(p)' = Money(p)
           /\ \/ Money(o)' = Money(o)
              \/ Money(o) = "free" /\ Money(o)' \in {"held", "void"}
              \/ Money(o) = "held" /\ Money(o)' = "returned"
<1>0. /\ log \in [Originals -> Rows] /\ posted \in [Originals -> Nat] /\ undone \in [Originals -> Nat]
      /\ RowDecidesMoney
  BY DEF IInv, TypeOK
<1>1. \A p \in Originals \ {o} : Money(p)' = Money(p)
  BY MoneyFacts, ZenonT(30) DEF Money
<1>2. CASE RowWrite(o)
  <2>1. Money(o) = "free" /\ posted[o] = 0 /\ undone[o] = 0
    BY <1>0, <1>2 DEF RowWrite, RowDecidesMoney, Money
  <2>2. posted'[o] = 0 /\ undone'[o] = 0
    BY <1>2, <2>1, MoneyFacts, Zenon
  <2>3. Money(o)' \in {"free", "void"}
    BY <2>2 DEF Money
  <2> QED BY <1>1, <2>1, <2>3, Zenon
<1>3. CASE BookStep(o)
  <2>1. Money(o) = "free" /\ posted[o] = 0 /\ undone[o] = 0
    BY <1>0, <1>3 DEF BookStep, RowDecidesMoney, Money
  <2>a. /\ posted'[o] = IF Moves(o) THEN posted[o] + 1 ELSE posted[o]
        /\ undone'[o] = undone[o] /\ log'[o].status = "APPROVED"
    BY <1>3, MoneyFacts, Zenon
  <2>2. posted'[o] \in {0, 1} /\ undone'[o] = 0 /\ log'[o].status = "APPROVED"
    BY <2>1, <2>a
  <2>3. Money(o)' \in {"held", "void"}
    BY <2>2 DEF Money
  <2> QED BY <1>1, <2>1, <2>3
<1>4. CASE UndoStep(o)
  <2>1. log[o].status = "APPROVED" /\ posted[o] \in {0, 1} /\ undone[o] = 0
    BY <1>0, <1>4, Zenon DEF UndoStep, RowDecidesMoney
  <2>a. /\ log'[o] = [log[o] EXCEPT !.status = "REVERSED"] /\ posted'[o] = posted[o]
        /\ undone'[o] = IF posted[o] > 0 THEN undone[o] + 1 ELSE undone[o]
    BY <1>4, MoneyFacts
  <2>2. log'[o].status = "REVERSED" /\ posted'[o] = posted[o] /\ undone'[o] = posted[o]
    BY <1>0, <2>1, <2>a DEF Rows
  <2>3. CASE posted[o] = 0
    BY <1>1, <2>1, <2>2, <2>3 DEF Money
  <2>4. CASE posted[o] = 1
    BY <1>1, <2>1, <2>2, <2>4 DEF Money
  <2> QED BY <2>1, <2>3, <2>4, Zenon
<1> QED BY <1>2, <1>3, <1>4

(* The issuer implements Hold: every step of the two chains is, for the money of the originals, a
   Take, a Refuse or a Return of one original, or nothing. *)
THEOREM IssuerImplementsHold == Spec => ImplementsHold
<1> DEFINE money == [o \in Originals |-> Money(o)]
<1>1. Init => H!HoldInit
  <2> SUFFICES ASSUME Init PROVE money = [o \in Originals |-> "free"]
    BY DEF H!HoldInit
  <2>1. \A o \in Originals : Money(o) = "free"
    BY DEF Init, Money
  <2> QED BY <2>1
<1>2. ASSUME IInv, [Next]_vars
      PROVE  [H!HoldNext]_money
  <2>1. CASE Untouched
    <3>1. \A o \in Originals : Money(o)' = Money(o)
      BY <2>1 DEF Untouched, Money
    <3> QED BY <3>1
  <2>2. ASSUME NEW o \in Originals, RowWrite(o) \/ BookStep(o) \/ UndoStep(o)
        PROVE  [H!HoldNext]_money
    <3>1. money' = [money EXCEPT ![o] = Money(o)']
      BY <1>2, <2>2, MoneyMoves, Zenon
    <3>2. money[o] = Money(o)
      OBVIOUS
    <3>3. CASE Money(o)' = Money(o)
      BY <3>1, <3>3, Zenon
    <3>4. CASE Money(o) = "free" /\ Money(o)' = "held"
      BY <3>1, <3>2, <3>4, Zenon DEF H!HoldNext, H!Take, H!Moves
    <3>5. CASE Money(o) = "free" /\ Money(o)' = "void"
      BY <3>1, <3>2, <3>5, Zenon DEF H!HoldNext, H!Refuse, H!Moves
    <3>6. CASE Money(o) = "held" /\ Money(o)' = "returned"
      BY <3>1, <3>2, <3>6, Zenon DEF H!HoldNext, H!Return, H!Moves
    <3> QED BY <1>2, <2>2, <3>3, <3>4, <3>5, <3>6, MoneyMoves
  <2> QED BY <1>2, <2>1, <2>2, MoneySteps
<1> QED BY <1>1, <1>2, Inductive, PTL DEF Spec, ImplementsHold, H!HoldSpec

(* The floor that Authorize checks under the account's lock holds, for any amounts and any number of
   parallel sessions, until a credit is reversed. *)
THEOREM FloorKept == Spec => []OverdrawnOnlyByReversal
<1>1. Init => OverdrawnOnlyByReversal
  BY IssuerAssumption DEF Init, OverdrawnOnlyByReversal
<1>2. ASSUME IInv, [Next]_vars, OverdrawnOnlyByReversal
      PROVE  OverdrawnOnlyByReversal'
  <2>0. /\ posted \in [Originals -> Nat] /\ undone \in [Originals -> Nat] /\ balance \in Int
        /\ RowDecidesMoney
    BY <1>2 DEF IInv, TypeOK
  <2>1. CASE Untouched
    BY <1>2, <2>1 DEF Untouched, OverdrawnOnlyByReversal
  <2>2. ASSUME NEW o \in Originals, RowWrite(o)
        PROVE  OverdrawnOnlyByReversal'
    BY <1>2, <2>2 DEF RowWrite, OverdrawnOnlyByReversal
  <2>3. ASSUME NEW o \in Originals, BookStep(o)
        PROVE  OverdrawnOnlyByReversal'
    <3>1. UNCHANGED undone /\ balance' = balance + Effect(o) /\ ~NoFunds(o)
      BY <2>3, Zenon DEF BookStep, Post
    <3>2. Amount[o] \in Nat /\ Overdraft \in Nat
      BY IssuerAssumption
    <3>3. balance' >= -Overdraft \/ balance' >= balance
      BY <2>0, <3>1, <3>2 DEF NoFunds, Effect
    <3> QED BY <1>2, <2>0, <3>1, <3>2, <3>3 DEF OverdrawnOnlyByReversal, Effect
  <2>4. ASSUME NEW o \in Originals, UndoStep(o)
        PROVE  OverdrawnOnlyByReversal'
    <3>1. posted[o] \in {0, 1} /\ undone[o] = 0 /\ (Moves(o) => posted[o] = 1)
      BY <2>0, <2>4 DEF UndoStep, RowDecidesMoney
    <3>a. /\ \A p \in Originals \ {o} : undone'[p] = undone[p]
          /\ undone'[o] = IF posted[o] > 0 THEN undone[o] + 1 ELSE undone[o]
      BY <1>2, <2>4, MoneyFacts, Zenon
    <3>2. \A p \in Originals : undone[p] > 0 => undone'[p] > 0
      BY <2>0, <3>1, <3>a
    <3>3. Amount[o] \in Nat /\ Overdraft \in Nat
      BY IssuerAssumption
    <3>4. CASE Kind[o] = "CREDIT"
      <4>1. undone'[o] > 0
        BY <3>1, <3>4, <3>a DEF Moves
      <4> QED BY <3>4, <4>1 DEF OverdrawnOnlyByReversal
    <3>5. CASE Kind[o] # "CREDIT"
      <4>1. balance' = balance - posted[o] * Effect(o)
        BY <2>4 DEF UndoStep, Undo
      <4>2. Effect(o) \in Int /\ Effect(o) <= 0
        BY <3>3, <3>5 DEF Effect
      <4>3. posted[o] * Effect(o) = 0 \/ posted[o] * Effect(o) = Effect(o)
        BY <3>1, <4>2
      <4>4. balance' \in Int /\ balance' >= balance
        BY <2>0, <4>1, <4>2, <4>3
      <4>5. balance' < -Overdraft => balance < -Overdraft
        BY <2>0, <3>3, <4>4
      <4> QED BY <1>2, <3>2, <4>5 DEF OverdrawnOnlyByReversal
    <3> QED BY <3>4, <3>5
  <2> QED BY <1>2, <2>1, <2>2, <2>3, <2>4, MoneySteps
<1> QED BY <1>1, <1>2, Inductive, PTL DEF Spec

-----------------------------------------------------------------------------
(* The debits that passed the daily count and are not decided yet. *)
Passing == {s \in Sessions : sess[s].pc \in {"amount", "authorize"} /\ Kind[sess[s].msg.orig] = "DEBIT"}

(* Each of them may still be counted. *)
CountInv == count + Cardinality(Passing) <= DailyCount + Cardinality(Sessions) - 1

(* How a step moves the count and the debits on their way to it. *)
NoneCounted == count' <= count /\ Passing' \subseteq Passing
OneCounted == count' = count + 1 /\ \E s \in Passing : Passing' \subseteq Passing \ {s}
OnePassed == count' = count /\ count < DailyCount

(* A jump moves one session and keeps its message. *)
LEMMA Jumps ==
    ASSUME sess \in [Sessions -> Contexts], NEW s \in Sessions, NEW step, NEW rc,
           Goto(s, step) \/ GotoWith(s, step, rc)
    PROVE  /\ sess'[s].pc = step /\ sess'[s].msg = sess[s].msg
           /\ \A t \in Sessions \ {s} : sess'[t] = sess[t]
<1>1. sess[s] \in Contexts
  OBVIOUS
<1>2. CASE Goto(s, step)
  <2>1. sess' = [sess EXCEPT ![s] = [sess[s] EXCEPT !.pc = step]]
    BY <1>2 DEF Goto
  <2>2. sess'[s] = [sess[s] EXCEPT !.pc = step] /\ \A t \in Sessions \ {s} : sess'[t] = sess[t]
    BY <2>1
  <2> QED BY <1>1, <2>2 DEF Contexts
<1>3. CASE GotoWith(s, step, rc)
  <2>1. sess' = [sess EXCEPT ![s] = [sess[s] EXCEPT !.pc = step, !.rc = rc]]
    BY <1>3 DEF GotoWith
  <2>2. sess'[s] = [sess[s] EXCEPT !.pc = step, !.rc = rc] /\ \A t \in Sessions \ {s} : sess'[t] = sess[t]
    BY <2>1
  <2> QED BY <1>1, <2>2 DEF Contexts
<1> QED BY <1>2, <1>3

(* A 0200 session is counted by Authorize, after CheckLimits let it pass. *)
LEMMA SessionCounts ==
    ASSUME IInv, NEW s \in Sessions, SessionStep(s)
    PROVE  NoneCounted \/ OneCounted \/ OnePassed
<1>0. sess \in [Sessions -> Contexts] /\ count \in Nat /\ DailyCount \in Nat
  BY IssuerAssumption DEF IInv, TypeOK
<1>1. CASE CheckReversed(s) \/ CheckCard(s) \/ VerifySecurity(s) \/ ReadFails(s)
  <2>1. UNCHANGED count
    BY <1>1, Zenon DEF CheckReversed, CheckCard, VerifySecurity, ReadFails, dbVars
  <2>2. \E step \in {"dedupe", "card", "log", "limits", "finish"} :
            Goto(s, step) \/ \E rc \in {"94", "62", "96", "55"} : GotoWith(s, step, rc)
    BY <1>1, Zenon DEF CheckReversed, CheckCard, VerifySecurity, ReadFails
  <2>3. sess'[s].pc \notin {"amount", "authorize"} /\ \A t \in Sessions \ {s} : sess'[t] = sess[t]
    BY <1>0, <2>2, Jumps, Zenon
  <2> QED BY <1>0, <2>1, <2>3 DEF NoneCounted, Passing
<1>2. CASE Deduplicate(s) \/ LogReceived(s) \/ VerifyEmv(s) \/ Finish(s) \/ Respond(s)
  <2>1. UNCHANGED count
    BY <1>2, Zenon DEF Deduplicate, LogReceived, VerifyEmv, Finish, Respond, dbVars
  <2>2. \/ \E step \in {"card", "emv", "security", "finish", "respond"} :
               Goto(s, step) \/ \E rc \in {"05", "30"} : GotoWith(s, step, rc)
        \/ \E rc : sess' = [sess EXCEPT ![s] = [@ EXCEPT !.pc = "card", !.dup = TRUE, !.rc = rc]]
        \/ sess' = [sess EXCEPT ![s] = [@ EXCEPT !.pc = "emv", !.tran = TRUE]]
        \/ sess' = [sess EXCEPT ![s] = Idle]
    BY <1>2, Zenon DEF Deduplicate, LogReceived, VerifyEmv, Finish, Respond
  <2>3. sess[s] \in Contexts
    BY <1>0
  <2>4. sess'[s].pc \notin {"amount", "authorize"} /\ \A t \in Sessions \ {s} : sess'[t] = sess[t]
    <3>1. CASE \E step \in {"card", "emv", "security", "finish", "respond"} :
                   Goto(s, step) \/ \E rc \in {"05", "30"} : GotoWith(s, step, rc)
      BY <1>0, <3>1, Jumps, Zenon
    <3>2. CASE \E rc : sess' = [sess EXCEPT ![s] = [@ EXCEPT !.pc = "card", !.dup = TRUE, !.rc = rc]]
      BY <1>0, <2>3, <3>2 DEF Contexts
    <3>3. CASE sess' = [sess EXCEPT ![s] = [@ EXCEPT !.pc = "emv", !.tran = TRUE]]
      BY <1>0, <2>3, <3>3 DEF Contexts
    <3>4. CASE sess' = [sess EXCEPT ![s] = Idle]
      BY <1>0, <3>4, ContextStart
    <3> QED BY <2>2, <3>1, <3>2, <3>3, <3>4, Zenon
  <2> QED BY <1>0, <2>1, <2>4 DEF NoneCounted, Passing
<1>3. CASE CheckLimits(s)
  <2> DEFINE o == sess[s].msg.orig
  <2>0. Goto(s, "amount") \/ \E rc \in {"61", "65"} : GotoWith(s, "finish", rc)
    BY <1>3, Zenon DEF CheckLimits
  <2>1. UNCHANGED count /\ \A t \in Sessions \ {s} : sess'[t] = sess[t]
    BY <1>0, <1>3, <2>0, Jumps, Zenon DEF CheckLimits, dbVars
  <2>2. CASE sess'[s].pc \notin {"amount", "authorize"}
    BY <1>0, <2>1, <2>2 DEF NoneCounted, Passing
  <2>3. CASE Kind[o] = "DEBIT" /\ count >= DailyCount
    <3>1. GotoWith(s, "finish", "61") \/ GotoWith(s, "finish", "65")
      BY <1>3, <2>3, Zenon DEF CheckLimits
    <3>2. sess'[s].pc = "finish"
      BY <1>0, <3>1, Jumps
    <3> QED BY <2>2, <3>2, Zenon
  <2>4. CASE Kind[o] = "DEBIT" /\ ~(count >= DailyCount)
    BY <1>0, <2>1, <2>4 DEF OnePassed
  <2>5. CASE Kind[o] # "DEBIT"
    <3>1. Goto(s, "amount")
      BY <1>3, <2>5, Zenon DEF CheckLimits
    <3>2. sess'[s].msg = sess[s].msg
      BY <1>0, <3>1, Jumps, Zenon
    <3> QED BY <1>0, <2>1, <2>5, <3>2 DEF NoneCounted, Passing
  <2> QED BY <2>3, <2>4, <2>5
<1>4. CASE CheckDailyAmount(s)
  <2>0. Goto(s, "authorize") \/ GotoWith(s, "finish", "61")
    BY <1>4, Zenon DEF CheckDailyAmount
  <2>1. UNCHANGED count /\ sess[s].pc = "amount"
    BY <1>4, Zenon DEF CheckDailyAmount, dbVars
  <2>2. sess'[s].msg = sess[s].msg /\ \A t \in Sessions \ {s} : sess'[t] = sess[t]
    BY <1>0, <2>0, Jumps, Zenon
  <2> QED BY <1>0, <2>1, <2>2 DEF NoneCounted, Passing
<1>5. CASE Authorize(s)
  <2> DEFINE o == sess[s].msg.orig
  <2>1. Goto(s, "finish") \/ \E rc \in {"51", "94", "00"} : GotoWith(s, "finish", rc)
    BY <1>5, Zenon DEF Authorize
  <2>2. sess'[s].pc = "finish" /\ \A t \in Sessions \ {s} : sess'[t] = sess[t]
    BY <1>0, <2>1, Jumps, Zenon
  <2>3. Passing' \subseteq Passing \ {s}
    BY <2>2 DEF Passing
  <2>4. UNCHANGED count \/ (count' = count + 1 /\ Kind[o] = "DEBIT")
    BY <1>5, Zenon DEF Authorize, Post, dbVars
  <2>5. sess[s].pc = "authorize"
    BY <1>5, Zenon DEF Authorize
  <2>6. CASE UNCHANGED count
    BY <1>0, <2>3, <2>6 DEF NoneCounted
  <2>7. CASE count' = count + 1 /\ Kind[o] = "DEBIT"
    <3>1. s \in Passing
      BY <2>5, <2>7 DEF Passing
    <3> QED BY <2>3, <2>7, <3>1 DEF OneCounted
  <2> QED BY <2>4, <2>6, <2>7
<1> QED BY <1>1, <1>2, <1>3, <1>4, <1>5 DEF SessionStep

(* Nothing else raises the count or lets a debit pass. *)
LEMMA CountSteps ==
    ASSUME IInv, [Next]_vars
    PROVE  NoneCounted \/ OneCounted \/ OnePassed
<1>0. sess \in [Sessions -> Contexts] /\ count \in Nat
  BY DEF IInv, TypeOK
<1>1. CASE \E s \in Sessions : SessionStep(s)
  BY <1>1, SessionCounts
<1>2. CASE \E s \in Sessions : \E m \in inbox : Accept(s, m)
  <2>1. PICK s \in Sessions, m \in inbox : Accept(s, m)
    BY <1>2
  <2>2. UNCHANGED count
    BY <2>1 DEF Accept, dbVars
  <2>3. \/ UNCHANGED sess
        \/ sess' = [sess EXCEPT ![s] = [Idle EXCEPT !.pc = "rwo", !.msg = m]]
        \/ sess' = [sess EXCEPT ![s] = [Idle EXCEPT !.pc = "finish", !.msg = m, !.rc = "30"]]
    BY <2>1, Zenon DEF Accept
  <2>4. UNCHANGED sess \/ (sess'[s].pc \in {"rwo", "finish"} /\ \A t \in Sessions \ {s} : sess'[t] = sess[t])
    <3>1. CASE sess' = [sess EXCEPT ![s] = [Idle EXCEPT !.pc = "rwo", !.msg = m]]
      BY <1>0, <3>1 DEF Idle
    <3>2. CASE sess' = [sess EXCEPT ![s] = [Idle EXCEPT !.pc = "finish", !.msg = m, !.rc = "30"]]
      BY <1>0, <3>2 DEF Idle
    <3> QED BY <2>3, <3>1, <3>2
  <2> QED BY <1>0, <2>2, <2>4 DEF NoneCounted, Passing
<1>3. CASE \E s \in RevSessions : RevStep(s)
  <2>1. UNCHANGED sess
    BY <1>3, Zenon DEF RevStep, Locate, Reverse, RespondReversal
  <2>2. count' <= count
    <3>1. UNCHANGED count \/ count' = Floored(count - 1)
      BY <1>3, Zenon DEF RevStep, Locate, Reverse, RespondReversal, Undo, dbVars
    <3> QED BY <1>0, <3>1 DEF Floored
  <2> QED BY <2>1, <2>2, Zenon DEF NoneCounted, Passing
<1>4. CASE Crash
  <2>1. \A s \in Sessions : sess'[s].pc = "idle"
    BY <1>4, ContextStart DEF Crash
  <2> QED BY <1>0, <1>4, <2>1, SMTT(30) DEF Crash, dbVars, NoneCounted, Passing
<1>5. CASE \/ \E s \in RevSessions : \E m \in inbox : AcceptReversal(s, m)
           \/ \E o \in Originals : GrowStale(o)
           \/ UNCHANGED vars
  <2>1. UNCHANGED <<count, sess>>
    BY <1>5, Zenon DEF AcceptReversal, GrowStale, vars, dbVars
  <2> QED BY <1>0, <2>1 DEF NoneCounted, Passing
<1> QED BY <1>1, <1>2, <1>3, <1>4, <1>5 DEF Next

(* The daily count is exceeded by at most one debit per other session, however many sessions there
   are: the check of CheckLimits and the increment of Authorize are separate transactions, and each
   session has at most one debit between them. *)
THEOREM OvershootBounded == Spec => []CountOvershootBounded
<1>0. /\ IsFiniteSet(Sessions) /\ Cardinality(Sessions) \in Nat /\ Cardinality(Sessions) # 0
      /\ DailyCount \in Nat
  BY IssuerAssumption, FS_CardinalityType, FS_EmptySet
<1>1. Init => CountInv
  <2> SUFFICES ASSUME Init PROVE CountInv
    OBVIOUS
  <2>1. Passing = {}
    BY ContextStart, Zenon DEF Init, Passing
  <2> QED BY <1>0, <2>1, FS_EmptySet, SMTT(30) DEF Init, CountInv
<1>2. ASSUME TypeOK, TypeOK', CountInv, NoneCounted \/ OneCounted \/ OnePassed
      PROVE  CountInv'
  <2>0. count \in Nat /\ count' \in Nat
    BY <1>2 DEF TypeOK
  <2>1. /\ IsFiniteSet(Passing) /\ Cardinality(Passing) \in Nat
        /\ IsFiniteSet(Passing') /\ Cardinality(Passing') \in Nat /\ Cardinality(Passing') <= Cardinality(Sessions)
    <3>1. Passing \in SUBSET Sessions /\ Passing' \in SUBSET Sessions
      BY Zenon DEF Passing
    <3> QED BY <1>0, <3>1, FS_Subset, FS_CardinalityType
  <2>2. CASE NoneCounted
    <3>1. Cardinality(Passing') <= Cardinality(Passing)
      BY <2>1, <2>2, FS_Subset DEF NoneCounted
    <3> QED BY <1>0, <1>2, <2>0, <2>1, <2>2, <3>1 DEF NoneCounted, CountInv
  <2>3. CASE OneCounted
    <3>1. PICK s \in Passing : Passing' \subseteq Passing \ {s}
      BY <2>3 DEF OneCounted
    <3>2. IsFiniteSet(Passing \ {s}) /\ Cardinality(Passing \ {s}) = Cardinality(Passing) - 1
      BY <2>1, FS_RemoveElement, Zenon
    <3>3. Cardinality(Passing') <= Cardinality(Passing \ {s})
      BY <3>1, <3>2, FS_Subset
    <3>4. Cardinality(Passing') <= Cardinality(Passing) - 1 /\ count' = count + 1
      BY <2>3, <3>2, <3>3 DEF OneCounted
    <3> QED BY <1>0, <1>2, <2>0, <2>1, <3>4 DEF CountInv
  <2>4. CASE OnePassed
    BY <1>0, <2>0, <2>1, <2>4 DEF OnePassed, CountInv
  <2> QED BY <1>2, <2>2, <2>3, <2>4
<1>3. TypeOK /\ CountInv => CountOvershootBounded
  <2> SUFFICES ASSUME TypeOK, CountInv PROVE CountOvershootBounded
    OBVIOUS
  <2>1. Cardinality(Passing) \in Nat
    <3>1. Passing \in SUBSET Sessions
      BY Zenon DEF Passing
    <3> QED BY <1>0, <3>1, FS_Subset, FS_CardinalityType, Zenon
  <2> QED BY <1>0, <2>1, SMTT(30) DEF TypeOK, CountInv, CountOvershootBounded
<1>4. IInv => TypeOK
  BY DEF IInv
<1>5. IInv /\ [Next]_vars => NoneCounted \/ OneCounted \/ OnePassed
  BY CountSteps
<1> QED BY <1>1, <1>2, <1>3, <1>4, <1>5, Inductive, PTL DEF Spec

(* The debits of the day can be counted, and the count is their number. *)
TallyInv == IsFiniteSet(HeldDebits) /\ CountIsDebits

(* The count is the number of debits on the books, for any number of originals, sessions, copies and
   faults: each debit is counted by the transaction that posts it and uncounted by the one that
   reverses it, and neither happens twice. *)
THEOREM CountsMatchDebits == Spec => []CountIsDebits
<1>1. Init => TallyInv
  <2> SUFFICES ASSUME Init PROVE TallyInv
    OBVIOUS
  <2>1. HeldDebits = {}
    BY DEF Init, HeldDebits, Held
  <2> QED BY <2>1, FS_EmptySet DEF Init, TallyInv, CountIsDebits
<1>2. ASSUME IInv, [Next]_vars, TallyInv
      PROVE  TallyInv'
  <2>0. posted \in [Originals -> Nat] /\ undone \in [Originals -> Nat] /\ count \in Nat /\ RowDecidesMoney
    BY <1>2 DEF IInv, TypeOK
  <2>1. ASSUME UNCHANGED <<posted, undone, count>> PROVE TallyInv'
    BY <1>2, <2>1 DEF TallyInv, CountIsDebits, HeldDebits, Held
  <2>2. ASSUME NEW o \in Originals, BookStep(o)
        PROVE  TallyInv'
    <3>1. /\ \A p \in Originals \ {o} : posted'[p] = posted[p] /\ undone'[p] = undone[p]
          /\ posted'[o] = IF Moves(o) THEN posted[o] + 1 ELSE posted[o]
          /\ undone'[o] = undone[o]
      BY <1>2, <2>2, MoneyFacts, Zenon
    <3>2. posted[o] = 0 /\ undone[o] = 0
      BY <2>0, <2>2, Zenon DEF BookStep, RowDecidesMoney
    <3>3. count' = IF Kind[o] = "DEBIT" THEN count + 1 ELSE count
      BY <2>2, Zenon DEF BookStep, Post
    <3>4. o \notin HeldDebits
      <4>1. ~(posted[o] > undone[o])
        BY <3>2
      <4> QED BY <4>1 DEF HeldDebits, Held
    <3>5. CASE Kind[o] = "DEBIT"
      <4>1. posted'[o] > undone'[o]
        BY <3>1, <3>2, <3>5 DEF Moves
      <4>2. HeldDebits' = HeldDebits \cup {o}
        BY <3>1, <3>5, <4>1 DEF HeldDebits, Held
      <4> QED BY <1>2, <3>3, <3>4, <3>5, <4>2, FS_AddElement DEF TallyInv, CountIsDebits
    <3>6. CASE Kind[o] # "DEBIT"
      <4>1. HeldDebits' = HeldDebits
        BY <3>1, <3>6 DEF HeldDebits, Held
      <4> QED BY <1>2, <3>3, <3>6, <4>1 DEF TallyInv, CountIsDebits
    <3> QED BY <3>5, <3>6
  <2>3. ASSUME NEW o \in Originals, UndoStep(o)
        PROVE  TallyInv'
    <3>1. /\ \A p \in Originals \ {o} : posted'[p] = posted[p] /\ undone'[p] = undone[p]
          /\ posted'[o] = posted[o]
          /\ undone'[o] = IF posted[o] > 0 THEN undone[o] + 1 ELSE undone[o]
      BY <1>2, <2>3, MoneyFacts, Zenon
    <3>2. posted[o] = (IF Moves(o) THEN 1 ELSE 0) /\ undone[o] = 0
      BY <2>0, <2>3 DEF UndoStep, RowDecidesMoney
    <3>3. count' = IF Kind[o] = "DEBIT" /\ posted[o] > 0 THEN Floored(count - 1) ELSE count
      BY <2>3 DEF UndoStep, Undo
    <3>4. CASE Kind[o] = "DEBIT"
      <4>1. posted[o] = 1 /\ undone'[o] = 1 /\ posted'[o] = 1
        BY <3>1, <3>2, <3>4 DEF Moves
      <4>2. o \in HeldDebits
        BY <3>2, <3>4, <4>1, SMTT(30) DEF HeldDebits, Held
      <4>3. HeldDebits' = HeldDebits \ {o}
        BY <3>1, <4>1 DEF HeldDebits, Held
      <4>4. count # 0
        BY <1>2, <4>2, FS_EmptySet DEF TallyInv, CountIsDebits
      <4>5. count' = count - 1
        BY <2>0, <3>3, <3>4, <4>1, <4>4 DEF Floored
      <4> QED BY <1>2, <4>2, <4>3, <4>5, FS_RemoveElement DEF TallyInv, CountIsDebits
    <3>5. CASE Kind[o] # "DEBIT"
      <4>1. HeldDebits' = HeldDebits
        BY <3>1, <3>5 DEF HeldDebits, Held
      <4> QED BY <1>2, <3>3, <3>5, <4>1 DEF TallyInv, CountIsDebits
    <3> QED BY <3>4, <3>5
  <2>4. Untouched \/ \E o \in Originals : RowWrite(o) \/ BookStep(o) \/ UndoStep(o)
    BY <1>2, MoneySteps
  <2> QED BY <2>1, <2>2, <2>3, <2>4 DEF Untouched, RowWrite
<1>3. TallyInv => CountIsDebits
  BY DEF TallyInv
<1> QED BY <1>1, <1>2, <1>3, Inductive, PTL DEF Spec

-----------------------------------------------------------------------------
(***************************************************************************)
(* Sums.  A fold takes the members of a set in an order of its own; the    *)
(* lemmas show that there is such a sum, only one, and that any member may *)
(* come first.  Each takes a smallest counterexample.                      *)
(***************************************************************************)

(* The smallest member of a set of numbers. *)
LEMMA LeastNumber ==
    ASSUME NEW B \in SUBSET Nat, B # {}
    PROVE  \E n \in B : \A m \in B : n <= m
<1>1. PICK n \in B : \A m \in B : ~(<<m, n>> \in OpToRel(<, Nat))
  BY WFMin, NatLessThanWellFounded, Zenon
<1>2. \A m \in B : ~(m < n)
  BY <1>1, Zenon DEF OpToRel
<1> QED BY <1>2

(* The member of a set that a fold takes first. *)
One(T) == CHOOSE x \in T : TRUE

(* The totals of the subsets of S, added up in the order of the fold. *)
Adds(f, g, T) == IF T = {} THEN 0 ELSE f[One(T)] + g[T \ {One(T)}]
Totals(f, S) == {g \in [SUBSET S -> Int] : \A T \in SUBSET S : g[T] = Adds(f, g, T)}

(* A set without one of its members. *)
LEMMA OneLess ==
    ASSUME NEW T, IsFiniteSet(T), NEW x \in T
    PROVE  IsFiniteSet(T \ {x}) /\ Cardinality(T) \in Nat \ {0} /\ Cardinality(T \ {x}) = Cardinality(T) - 1
<1>1. IsFiniteSet(T \ {x}) /\ Cardinality(T \ {x}) = Cardinality(T) - 1
  BY FS_RemoveElement
<1> QED BY <1>1, FS_CardinalityType, FS_EmptySet

(* The first member is one. *)
LEMMA OneIn ==
    ASSUME NEW T, T # {} PROVE One(T) \in T
BY DEF One

(* There are such totals: they are found for ever larger sets. *)
LEMMA TotalsExist ==
    ASSUME NEW U, NEW f \in [U -> Int], NEW S \in SUBSET U, IsFiniteSet(S)
    PROVE  Totals(f, S) # {}
<1> DEFINE Upto(g, n) == \A T \in SUBSET S : Cardinality(T) <= n => g[T] = Adds(f, g, T)
           Bad == {n \in Nat : ~\E g \in [SUBSET S -> Int] : Upto(g, n)}
<1>0. \A T \in SUBSET S : IsFiniteSet(T) /\ Cardinality(T) \in Nat /\ Cardinality(T) <= Cardinality(S)
  BY FS_Subset, FS_CardinalityType
<1>1. ASSUME NEW g \in [SUBSET S -> Int], NEW T \in SUBSET S
      PROVE  Adds(f, g, T) \in Int
  <2>1. CASE T # {}
    <3>1. One(T) \in U /\ T \ {One(T)} \in SUBSET S
      BY <2>1, OneIn
    <3> QED BY <3>1 DEF Adds
  <2> QED BY <2>1 DEF Adds
<1>2. 0 \notin Bad
  <2> DEFINE z == [T \in SUBSET S |-> 0]
  <2>1. ASSUME NEW T \in SUBSET S, Cardinality(T) <= 0 PROVE z[T] = Adds(f, z, T)
    <3>1. T = {}
      BY <1>0, <2>1, FS_EmptySet
    <3> QED BY <3>1 DEF Adds
  <2>2. z \in [SUBSET S -> Int]
    OBVIOUS
  <2> QED BY <2>1, <2>2, Zenon
<1>3. ASSUME NEW n \in Nat, n \notin Bad
      PROVE  n + 1 \notin Bad
  <2>1. PICK g \in [SUBSET S -> Int] : Upto(g, n)
    BY <1>3, Zenon
  <2> DEFINE h == [T \in SUBSET S |-> IF Cardinality(T) <= n THEN g[T] ELSE Adds(f, g, T)]
  <2>2. h \in [SUBSET S -> Int]
    BY <1>1, Zenon
  <2>3. ASSUME NEW T \in SUBSET S, Cardinality(T) <= n + 1 PROVE h[T] = Adds(f, h, T)
    <3>1. h[T] = Adds(f, g, T)
      BY <2>1
    <3>2. CASE T # {}
      <4>1. T \ {One(T)} \in SUBSET S /\ Cardinality(T \ {One(T)}) <= n
        BY <1>0, <2>3, <3>2, OneIn, OneLess
      <4>2. h[T \ {One(T)}] = g[T \ {One(T)}]
        BY <4>1
      <4> QED BY <3>1, <4>2, Zenon DEF Adds
    <3> QED BY <3>1, <3>2, Zenon DEF Adds
  <2> QED BY <2>2, <2>3, Zenon
<1>4. Bad = {}
  <2> SUFFICES ASSUME Bad # {} PROVE FALSE
    BY Zenon
  <2>1. PICK n \in Bad : \A m \in Bad : n <= m
    BY LeastNumber, Zenon
  <2>2. n # 0 /\ n \in Nat
    BY <1>2, Zenon
  <2> HIDE DEF Bad
  <2>3. n - 1 \in Nat /\ n - 1 \notin Bad
    BY <2>1, <2>2
  <2> QED BY <1>3, <2>2, <2>3
<1>5. PICK g \in [SUBSET S -> Int] : Upto(g, Cardinality(S))
  BY <1>0, <1>4, Zenon
<1> QED BY <1>0, <1>5, Zenon DEF Totals

(* They are the only ones. *)
LEMMA TotalsUnique ==
    ASSUME NEW U, NEW f \in [U -> Int], NEW S \in SUBSET U, IsFiniteSet(S),
           NEW g \in Totals(f, S), NEW h, h = [T \in SUBSET S |-> Adds(f, h, T)]
    PROVE  g = h
<1> DEFINE Bad == {n \in Nat : \E T \in SUBSET S : Cardinality(T) = n /\ g[T] # h[T]}
<1>0. \A T \in SUBSET S : IsFiniteSet(T) /\ Cardinality(T) \in Nat
  BY FS_Subset, FS_CardinalityType
<1>1. ASSUME Bad # {} PROVE FALSE
  <2>1. PICK n \in Bad : \A m \in Bad : n <= m
    BY <1>1, LeastNumber, Zenon
  <2>2. PICK T \in SUBSET S : Cardinality(T) = n /\ g[T] # h[T]
    BY Zenon
  <2>3. g[T] = Adds(f, g, T) /\ h[T] = Adds(f, h, T)
    BY DEF Totals
  <2>4. T # {}
    BY <2>2, <2>3, Zenon DEF Adds
  <2>5. T \ {One(T)} \in SUBSET S /\ Cardinality(T \ {One(T)}) = n - 1
    BY <1>0, <2>2, <2>4, OneIn, OneLess, Zenon
  <2>6. Cardinality(T \ {One(T)}) \in Nat
    BY <1>0, <2>5, Zenon
  <2>7. g[T \ {One(T)}] = h[T \ {One(T)}]
    BY <2>1, <2>5, <2>6, SMTT(30)
  <2> QED BY <2>2, <2>3, <2>7, Zenon DEF Adds
<1>2. \A T \in SUBSET S : g[T] = h[T]
  BY <1>0, <1>1, Zenon
<1> QED BY <1>2, Zenon DEF Totals

(* The order does not matter. *)
LEMMA AnyFirst ==
    ASSUME NEW U, NEW f \in [U -> Int], NEW S \in SUBSET U, IsFiniteSet(S), NEW g \in Totals(f, S),
           NEW x \in S
    PROVE  g[S] = f[x] + g[S \ {x}]
<1> DEFINE Bad == {n \in Nat : \E T \in SUBSET S : Cardinality(T) = n /\ \E y \in T : g[T] # f[y] + g[T \ {y}]}
<1>0. \A T \in SUBSET S : IsFiniteSet(T) /\ Cardinality(T) \in Nat /\ g[T] \in Int
  BY FS_Subset, FS_CardinalityType DEF Totals
<1>1. ASSUME Bad # {} PROVE FALSE
  <2>1. PICK n \in Bad : \A m \in Bad : n <= m
    BY <1>1, LeastNumber, Zenon
  <2>2. PICK T \in SUBSET S : Cardinality(T) = n /\ \E y \in T : g[T] # f[y] + g[T \ {y}]
    OBVIOUS
  <2>3. PICK y \in T : g[T] # f[y] + g[T \ {y}]
    BY <2>2, Zenon
  <2> DEFINE c == One(T)
  <2>4. c \in T /\ g[T] = f[c] + g[T \ {c}]
    BY <2>3, OneIn DEF Totals, Adds
  <2>5. c # y
    BY <2>3, <2>4, Zenon
  <2> HIDE DEF c
  <2>6. ASSUME NEW v \in T, NEW w \in T, v # w
        PROVE  g[T \ {v}] = f[w] + g[(T \ {v}) \ {w}]
    <3>1. T \ {v} \in SUBSET S /\ Cardinality(T \ {v}) = n - 1 /\ w \in T \ {v}
      BY <1>0, <2>2, <2>6, OneLess, Zenon
    <3>2. Cardinality(T \ {v}) \in Nat /\ n - 1 \notin Bad
      BY <1>0, <2>1, <3>1, SMTT(30)
    <3> QED BY <3>1, <3>2, Zenon
  <2>7. g[T \ {c}] = f[y] + g[(T \ {c}) \ {y}] /\ g[T \ {y}] = f[c] + g[(T \ {y}) \ {c}]
    BY <2>4, <2>5, <2>6, Zenon
  <2>8. (T \ {c}) \ {y} = (T \ {y}) \ {c}
    OBVIOUS
  <2>9. f[c] \in Int /\ f[y] \in Int /\ g[(T \ {y}) \ {c}] \in Int
    BY <1>0, <2>4, Zenon
  <2>10. g[T] = f[c] + (f[y] + g[(T \ {y}) \ {c}])
    BY <2>4, <2>7, <2>8, Zenon
  <2>11. f[y] + g[T \ {y}] = f[y] + (f[c] + g[(T \ {y}) \ {c}])
    BY <2>7, Zenon
  <2>12. \A i, j, k \in Int : i + (j + k) = j + (i + k)
    OBVIOUS
  <2> QED BY <2>3, <2>9, <2>10, <2>11, <2>12, Zenon
<1>2. Cardinality(S) \in Nat /\ Cardinality(S) \notin Bad
  BY <1>0, <1>1, Zenon
<1> QED BY <1>2, Zenon

(* Totals of what is not negative are not negative. *)
LEMMA TotalsNatural ==
    ASSUME NEW U, NEW f \in [U -> Nat], NEW S \in SUBSET U, IsFiniteSet(S), NEW g \in Totals(f, S)
    PROVE  g[S] \in Nat
<1> DEFINE Bad == {n \in Nat : \E T \in SUBSET S : Cardinality(T) = n /\ g[T] \notin Nat}
<1>0. \A T \in SUBSET S : IsFiniteSet(T) /\ Cardinality(T) \in Nat
  BY FS_Subset, FS_CardinalityType
<1>1. ASSUME Bad # {} PROVE FALSE
  <2>1. PICK n \in Bad : \A m \in Bad : n <= m
    BY <1>1, LeastNumber, Zenon
  <2>2. PICK T \in SUBSET S : Cardinality(T) = n /\ g[T] \notin Nat
    OBVIOUS
  <2>3. g[T] = Adds(f, g, T)
    BY DEF Totals
  <2>4. T # {}
    BY <2>2, <2>3, SMTT(30) DEF Adds
  <2>5. T \ {One(T)} \in SUBSET S /\ Cardinality(T \ {One(T)}) = n - 1 /\ One(T) \in U
    BY <1>0, <2>2, <2>4, OneIn, OneLess, Zenon
  <2>6. Cardinality(T \ {One(T)}) \in Nat
    BY <1>0, <2>5, Zenon
  <2>7. g[T \ {One(T)}] \in Nat
    BY <2>1, <2>5, <2>6, SMTT(30)
  <2> QED BY <2>2, <2>3, <2>4, <2>5, <2>7 DEF Adds
<1> QED BY <1>0, <1>1, Zenon

(* The totals of the subsets of a set are totals. *)
LEMMA TotalsOfSubset ==
    ASSUME NEW f, NEW S, NEW g \in Totals(f, S), NEW R \in SUBSET S
    PROVE  [T \in SUBSET R |-> g[T]] \in Totals(f, R)
<1> DEFINE h == [T \in SUBSET R |-> g[T]]
<1>1. h \in [SUBSET R -> Int]
  BY DEF Totals
<1>2. ASSUME NEW T \in SUBSET R PROVE h[T] = Adds(f, h, T)
  <2>1. g[T] = Adds(f, g, T)
    BY DEF Totals
  <2>2. T \ {One(T)} \in SUBSET R
    OBVIOUS
  <2> QED BY <2>1, <2>2, Zenon DEF Adds
<1> QED BY <1>1, <1>2, Zenon DEF Totals

(* What the daily amount and the balance are compared with: incrementDaily and adjust of each. *)
Owed(S) == MapThenSumSet(LAMBDA o : Amount[o], S)
Moved(S) == MapThenSumSet(Effect, S)

(* The fold over the amounts is their total. *)
LEMMA OwedIsTotal ==
    ASSUME NEW S \in SUBSET Originals, IsFiniteSet(S), NEW g \in Totals(Amount, S)
    PROVE  Owed(S) = g[S]
<1> DEFINE Body(i) == [s \in SUBSET S |-> IF s = {} THEN 0 ELSE LET x == CHOOSE x \in s : TRUE IN Amount[x] + i[s \ {x}]]
           iter == CHOOSE i : i = Body(i)
<1>1. g = Body(g)
  BY DEF Totals, Adds, One
<1>2. iter = Body(iter)
  BY <1>1, ZenonT(30)
<1>3. iter = [T \in SUBSET S |-> Adds(Amount, iter, T)]
  BY <1>2, Zenon DEF Adds, One
<1>4. Owed(S) = iter[S]
  BY DEF Owed, MapThenSumSet, MapThenFoldSet
<1>5. Amount \in [Originals -> Int]
  BY IssuerAssumption
<1> HIDE DEF iter, Body
<1>6. g = iter
  BY <1>3, <1>5, TotalsUnique
<1> QED BY <1>4, <1>6, Zenon

(* The fold over the effects is their total. *)
LEMMA MovedIsTotal ==
    ASSUME NEW S \in SUBSET Originals, IsFiniteSet(S), NEW f \in [Originals -> Int],
           \A o \in Originals : f[o] = Effect(o), NEW g \in Totals(f, S)
    PROVE  Moved(S) = g[S]
<1> DEFINE Body(i) == [s \in SUBSET S |-> IF s = {} THEN 0 ELSE LET x == CHOOSE x \in s : TRUE IN Effect(x) + i[s \ {x}]]
           iter == CHOOSE i : i = Body(i)
<1>1. \A s \in SUBSET S : s # {} => f[One(s)] = Effect(One(s))
  BY OneIn
<1>2. ASSUME NEW i PROVE Body(i) = [T \in SUBSET S |-> Adds(f, i, T)]
  BY <1>1, SMTT(30) DEF Adds, One
<1>3. Moved(S) = iter[S]
  BY DEF Moved, MapThenSumSet, MapThenFoldSet
<1> HIDE DEF Body
<1>4. g = Body(g)
  BY <1>2 DEF Totals
<1>5. iter = Body(iter)
  BY <1>4
<1> HIDE DEF iter
<1>6. iter = [T \in SUBSET S |-> Adds(f, iter, T)]
  BY <1>2, <1>5, Zenon
<1>7. g = iter
  BY <1>6, TotalsUnique
<1> QED BY <1>3, <1>7

(* Adding up the amounts of a set: any of its members may come first. *)
LEMMA OwedSum ==
    ASSUME NEW S \in SUBSET Originals, IsFiniteSet(S)
    PROVE  /\ Owed(S) \in Nat
           /\ S = {} => Owed(S) = 0
           /\ \A o \in S : Owed(S) = Amount[o] + Owed(S \ {o})
<1>0. Amount \in [Originals -> Int] /\ Amount \in [Originals -> Nat]
  BY IssuerAssumption
<1>1. PICK g : g \in Totals(Amount, S)
  BY <1>0, TotalsExist
<1>2. Owed(S) = g[S] /\ g[S] \in Nat
  BY <1>0, <1>1, OwedIsTotal, TotalsNatural, Zenon
<1>3. S = {} => g[S] = 0
  BY <1>1 DEF Totals, Adds
<1>4. ASSUME NEW o \in S PROVE Owed(S) = Amount[o] + Owed(S \ {o})
  <2> DEFINE R == S \ {o}
             h == [T \in SUBSET R |-> g[T]]
  <2>1. R \in SUBSET S /\ R \in SUBSET Originals /\ IsFiniteSet(R)
    BY FS_Subset
  <2>2. h \in Totals(Amount, R)
    BY <1>1, <2>1, TotalsOfSubset, Zenon
  <2>3. h[R] = g[R]
    OBVIOUS
  <2> HIDE DEF R, h
  <2>4. Owed(R) = g[R]
    BY <2>1, <2>2, <2>3, OwedIsTotal, Zenon
  <2>5. g[S] = Amount[o] + g[R]
    BY <1>0, <1>1, AnyFirst, SMTT(30) DEF R
  <2> QED BY <1>2, <2>4, <2>5, Zenon DEF R
<1> QED BY <1>2, <1>3, <1>4, Zenon

(* The same for the effects. *)
LEMMA MovedSum ==
    ASSUME NEW S \in SUBSET Originals, IsFiniteSet(S)
    PROVE  /\ Moved(S) \in Int
           /\ S = {} => Moved(S) = 0
           /\ \A o \in S : Moved(S) = Effect(o) + Moved(S \ {o})
<1> DEFINE f == [o \in Originals |-> Effect(o)]
<1>0. f \in [Originals -> Int] /\ \A o \in Originals : f[o] = Effect(o)
  BY IssuerAssumption DEF Effect
<1>a. \A T \in SUBSET Originals : \A g : IsFiniteSet(T) /\ g \in Totals(f, T) => Moved(T) = g[T]
  BY <1>0, MovedIsTotal, Zenon
<1> HIDE DEF f
<1>1. PICK g : g \in Totals(f, S)
  BY <1>0, TotalsExist
<1>2. Moved(S) = g[S] /\ g[S] \in Int
  BY <1>1, <1>a DEF Totals
<1>3. S = {} => g[S] = 0
  BY <1>1 DEF Totals, Adds
<1>4. ASSUME NEW o \in S PROVE Moved(S) = Effect(o) + Moved(S \ {o})
  <2> DEFINE R == S \ {o}
             h == [T \in SUBSET R |-> g[T]]
  <2>1. R \in SUBSET S /\ R \in SUBSET Originals /\ IsFiniteSet(R)
    BY FS_Subset
  <2>2. h \in Totals(f, R)
    BY <1>1, <2>1, TotalsOfSubset, Zenon
  <2>3. h[R] = g[R]
    OBVIOUS
  <2> HIDE DEF R, h
  <2>4. Moved(R) = g[R]
    BY <1>a, <2>1, <2>2, <2>3
  <2>5. g[S] = f[o] + g[R]
    BY <1>0, <1>1, AnyFirst, SMTT(30) DEF R
  <2> QED BY <1>0, <1>2, <2>4, <2>5, Zenon DEF R
<1> QED BY <1>2, <1>3, <1>4, Zenon

(* The originals on the books can be added up, and the account and the daily amount are the sums. *)
LedgerInv ==
    /\ IsFiniteSet(Held)
    /\ balance = Opening + Moved(Held)
    /\ spent = Owed(HeldDebits)

(* The books open empty. *)
LEMMA LedgerInit ==
    ASSUME Init PROVE LedgerInv
<1>1. Held = {} /\ HeldDebits = {}
  BY DEF Init, HeldDebits, Held
<1>2. IsFiniteSet({})
  BY FS_EmptySet
<1>3. {} \in SUBSET Originals
  OBVIOUS
<1>4. Moved({}) = 0 /\ Owed({}) = 0
  BY <1>2, <1>3, MovedSum, OwedSum
<1>5. balance = Opening /\ spent = 0 /\ Opening \in Int
  BY IssuerAssumption, Zenon DEF Init
<1> QED BY <1>1, <1>2, <1>4, <1>5 DEF LedgerInv

(* approveInOneTransaction puts an original on the books and moves the balance and, for a debit, the
   daily amount. *)
LEMMA LedgerBooks ==
    ASSUME IInv, LedgerInv, NEW o \in Originals, BookStep(o)
    PROVE  LedgerInv'
<1>0. balance \in Int /\ spent \in Nat /\ RowDecidesMoney /\ Amount[o] \in Nat /\ Opening \in Int
  BY IssuerAssumption DEF IInv, TypeOK
<1>1. /\ \A p \in Originals \ {o} : posted'[p] = posted[p] /\ undone'[p] = undone[p]
      /\ posted'[o] = IF Moves(o) THEN posted[o] + 1 ELSE posted[o]
      /\ undone'[o] = undone[o]
  BY MoneyFacts, Zenon
<1>2. posted[o] = 0 /\ undone[o] = 0
  BY <1>0, Zenon DEF BookStep, RowDecidesMoney
<1>3. balance' = balance + Effect(o) /\ spent' = IF Kind[o] = "DEBIT" THEN spent + Amount[o] ELSE spent
  BY Zenon DEF BookStep, Post
<1>4. o \notin Held /\ Held \in SUBSET Originals /\ HeldDebits \in SUBSET Held
  <2>1. ~(posted[o] > undone[o])
    BY <1>2
  <2> QED BY <2>1, Zenon DEF Held, HeldDebits
<1>5. CASE ~Moves(o)
  <2>1. Effect(o) = 0 /\ Kind[o] # "DEBIT"
    BY <1>5 DEF Moves, Effect
  <2>2. posted'[o] = 0 /\ undone'[o] = 0
    BY <1>1, <1>2, <1>5, Zenon
  <2>3. ~(posted'[o] > undone'[o])
    BY <2>2
  <2>4. Held' = Held
    BY <1>1, <1>4, <2>3, Zenon DEF Held
  <2>5. HeldDebits' = HeldDebits
    BY <2>4 DEF HeldDebits
  <2>6. balance' = balance /\ spent' = spent
    BY <1>0, <1>3, <2>1
  <2> QED BY <2>4, <2>5, <2>6 DEF LedgerInv
<1>6. CASE Moves(o)
  <2>1. posted'[o] > undone'[o]
    BY <1>1, <1>2, <1>6
  <2>2. Held' = Held \cup {o}
    BY <1>1, <2>1, Zenon DEF Held
  <2>3. IsFiniteSet(Held') /\ Held' \in SUBSET Originals /\ o \in Held' /\ Held' \ {o} = Held
    BY <1>4, <2>2, FS_AddElement DEF LedgerInv
  <2>4. Moved(Held') = Effect(o) + Moved(Held) /\ Moved(Held) \in Int
    BY <1>4, <2>3, MovedSum DEF LedgerInv
  <2>5. Effect(o) \in Int
    BY <1>0 DEF Effect
  <2>6. balance' = Opening + Moved(Held')
    BY <1>0, <1>3, <2>4, <2>5 DEF LedgerInv
  <2>7. spent' = Owed(HeldDebits')
    <3>1. CASE Kind[o] = "DEBIT"
      <4>1. HeldDebits' = HeldDebits \cup {o}
        BY <2>2, <3>1 DEF HeldDebits
      <4>2. IsFiniteSet(HeldDebits') /\ HeldDebits' \in SUBSET Originals /\ o \in HeldDebits' /\ HeldDebits' \ {o} = HeldDebits
        <5>1. HeldDebits' \in SUBSET Held'
          BY DEF HeldDebits
        <5> QED BY <1>4, <2>3, <4>1, <5>1, FS_Subset
      <4>3. Owed(HeldDebits') = Amount[o] + Owed(HeldDebits)
        BY <4>2, OwedSum
      <4> QED BY <1>0, <1>3, <3>1, <4>3 DEF LedgerInv
    <3>2. CASE Kind[o] # "DEBIT"
      <4>1. HeldDebits' = HeldDebits
        BY <2>2, <3>2 DEF HeldDebits
      <4> QED BY <1>3, <3>2, <4>1, Zenon DEF LedgerInv
    <3> QED BY <3>1, <3>2
  <2> QED BY <2>3, <2>6, <2>7 DEF LedgerInv
<1> QED BY <1>5, <1>6

(* undo takes it off again; the floor of decrementDaily never acts. *)
LEMMA LedgerUndoes ==
    ASSUME IInv, LedgerInv, NEW o \in Originals, UndoStep(o)
    PROVE  LedgerInv'
<1>0. balance \in Int /\ spent \in Nat /\ RowDecidesMoney /\ Amount[o] \in Nat /\ Opening \in Int
  BY IssuerAssumption DEF IInv, TypeOK
<1>1. /\ \A p \in Originals \ {o} : posted'[p] = posted[p] /\ undone'[p] = undone[p]
      /\ posted'[o] = posted[o]
      /\ undone'[o] = IF posted[o] > 0 THEN undone[o] + 1 ELSE undone[o]
  BY MoneyFacts, Zenon
<1>2. posted[o] = (IF Moves(o) THEN 1 ELSE 0) /\ undone[o] = 0
  BY <1>0, Zenon DEF UndoStep, RowDecidesMoney
<1>3. /\ balance' = balance - posted[o] * Effect(o)
      /\ spent' = IF Kind[o] = "DEBIT" /\ posted[o] > 0 THEN Floored(spent - Amount[o]) ELSE spent
  BY DEF UndoStep, Undo
<1>4. Effect(o) \in Int
  BY <1>0 DEF Effect
<1>5. CASE ~Moves(o)
  <2>1. posted[o] = 0 /\ Kind[o] # "DEBIT"
    BY <1>2, <1>5, Zenon DEF Moves
  <2>2. undone'[o] = undone[o]
    BY <1>1, <2>1
  <2>3. Held' = Held
    BY <1>1, <2>2 DEF Held
  <2>4. HeldDebits' = HeldDebits
    BY <2>3 DEF HeldDebits
  <2>5. balance' = balance /\ spent' = spent
    BY <1>0, <1>3, <1>4, <2>1
  <2> QED BY <2>3, <2>4, <2>5 DEF LedgerInv
<1>6. CASE Moves(o)
  <2>1. posted[o] = 1 /\ undone'[o] = 1 /\ posted'[o] = 1
    BY <1>1, <1>2, <1>6, SMTT(30)
  <2>2. o \in Held /\ Held \in SUBSET Originals /\ HeldDebits \in SUBSET Held
    BY <1>2, <2>1 DEF Held, HeldDebits
  <2>3. Held' = Held \ {o}
    BY <1>1, <2>1, SMTT(30) DEF Held
  <2>4. IsFiniteSet(Held') /\ Held' \in SUBSET Originals
    BY <2>2, <2>3, FS_Subset DEF LedgerInv
  <2>5. Moved(Held) = Effect(o) + Moved(Held')
    BY <2>2, <2>3, MovedSum DEF LedgerInv
  <2>6. Moved(Held') \in Int
    BY <2>4, MovedSum
  <2>7. balance' = balance - Effect(o)
    BY <1>3, <1>4, <2>1
  <2>8. balance' = Opening + Moved(Held')
    BY <1>0, <1>4, <2>5, <2>6, <2>7 DEF LedgerInv
  <2>9. spent' = Owed(HeldDebits')
    <3>1. CASE Kind[o] = "DEBIT"
      <4>1. HeldDebits' = HeldDebits \ {o} /\ o \in HeldDebits
        BY <2>2, <2>3, <3>1 DEF HeldDebits
      <4>2. IsFiniteSet(HeldDebits) /\ HeldDebits \in SUBSET Originals
        BY <2>2, FS_Subset DEF LedgerInv
      <4>3. IsFiniteSet(HeldDebits') /\ HeldDebits' \in SUBSET Originals
        BY <4>1, <4>2, FS_Subset
      <4>4. Owed(HeldDebits) = Amount[o] + Owed(HeldDebits') /\ Owed(HeldDebits') \in Nat
        BY <4>1, <4>2, <4>3, OwedSum
      <4>5. spent' = Floored(spent - Amount[o])
        BY <1>3, <2>1, <3>1
      <4> QED BY <1>0, <4>4, <4>5 DEF LedgerInv, Floored
    <3>2. CASE Kind[o] # "DEBIT"
      <4>1. HeldDebits' = HeldDebits
        BY <2>3, <3>2 DEF HeldDebits
      <4> QED BY <1>3, <3>2, <4>1, Zenon DEF LedgerInv
    <3> QED BY <3>1, <3>2
  <2> QED BY <2>4, <2>8, <2>9 DEF LedgerInv
<1> QED BY <1>5, <1>6

(* The balance is the opening balance moved by every original that is posted and not reversed, and
   the velocity counters count such debits and add up their amounts: adjust, incrementDaily and
   decrementDaily run in the journal's transaction, for any originals, sessions, copies and faults. *)
THEOREM AccountMatchesJournal == Spec => []CountersMatchJournal
<1>1. Init => LedgerInv
  BY LedgerInit
<1>2. ASSUME IInv, [Next]_vars, LedgerInv
      PROVE  LedgerInv'
  <2>1. ASSUME UNCHANGED <<posted, undone, balance, spent>> PROVE LedgerInv'
    <3>1. Held' = Held /\ HeldDebits' = HeldDebits
      BY <2>1, Zenon DEF HeldDebits, Held
    <3> QED BY <1>2, <2>1, <3>1 DEF LedgerInv
  <2>2. Untouched \/ \E o \in Originals : RowWrite(o) \/ BookStep(o) \/ UndoStep(o)
    BY <1>2, MoneySteps
  <2> QED BY <1>2, <2>1, <2>2, LedgerBooks, LedgerUndoes DEF Untouched, RowWrite
<1>3. LedgerInv /\ CountIsDebits => CountersMatchJournal
  BY DEF LedgerInv, CountersMatchJournal, Moved, Owed
<1> QED BY <1>1, <1>2, <1>3, Inductive, CountsMatchDebits, PTL DEF Spec

-----------------------------------------------------------------------------
(* Where the copy of a 0200 is that its acquirer wrote once: unread, in a session, or answered. *)
Asks(m, o) == m.mti = "0200" /\ m.orig = o
Works(s, o) == sess[s].pc # "idle" /\ sess[s].msg.orig = o
Replies(a, o) == a.mti = "0210" /\ a.orig = o

Nowhere(o) ==
    /\ \A m \in inbox : ~Asks(m, o)
    /\ \A s \in Sessions : ~Works(s, o)
    /\ \A a \in outbox : ~Replies(a, o)

(* The journals of an original whose code is rc, unless it is an inquiry. *)
Journals(rc) == IF rc = "00" THEN 1 ELSE 0

Fresh(o) == posted[o] = 0 /\ log[o].status = "NONE"

(* The participants before the RECEIVED row. *)
Early == {"rwo", "dedupe", "card", "log"}

(* What the session that has the copy knows. *)
WorkOK(s, o) ==
    /\ posted[o] = Journals(sess[s].rc)
    /\ sess[s].pc \in Early => log[o].status = "NONE"
    /\ Kind[o] = "INVALID" \/ sess[s].rc = "00" => sess[s].pc \in {"finish", "respond"}

(* The copy is in one place, and the journal holds what the code decided there says. *)
CopyOK(o) ==
    /\ \A m \in inbox : Asks(m, o) => Fresh(o) /\ \A k \in inbox : Asks(k, o) => k = m
    /\ \A s \in Sessions : Works(s, o) => WorkOK(s, o) /\ \A z \in Sessions : Works(z, o) => z = s
    /\ \A a \in outbox : Replies(a, o) => posted[o] = Journals(a.rc) /\ \A b \in outbox : Replies(b, o) => b = a
    /\ \A m \in inbox, s \in Sessions : ~(Asks(m, o) /\ Works(s, o))
    /\ \A m \in inbox, a \in outbox : ~(Asks(m, o) /\ Replies(a, o))
    /\ \A s \in Sessions, a \in outbox : ~(Works(s, o) /\ Replies(a, o))

CopyInv == \A o \in Originals : CopyOK(o)

(* The issuer makes no copies: what is nowhere stays nowhere and is not booked. *)
CopyKept(o) ==
    /\ CopyOK(o)'
    /\ Nowhere(o) => Nowhere(o)' /\ posted'[o] = posted[o] /\ (Fresh(o) => Fresh(o)')

(* No reply to a COMMIT is lost, and every original moves money or is refused. *)
OneReply == "commit" \notin Faults /\ \A o \in Originals : Kind[o] # "NONE"

(* An original whose copy a step leaves where it is, or loses. *)
LEMMA CopyFrame ==
    ASSUME NEW o, CopyOK(o), posted'[o] = posted[o],
           log[o].status = "NONE" => log'[o].status = "NONE",
           \A m \in inbox' : Asks(m, o) => m \in inbox,
           \A a \in outbox' : Replies(a, o) => a \in outbox,
           \A s \in Sessions : Works(s, o)' => sess'[s] = sess[s]
    PROVE  CopyKept(o)
<1>1. \A s \in Sessions : Works(s, o)' => Works(s, o) /\ sess'[s] = sess[s]
  BY Zenon DEF Works
<1>2. Fresh(o) => Fresh(o)'
  BY Zenon DEF Fresh
<1>3. \A s \in Sessions : Works(s, o)' => WorkOK(s, o)'
  BY <1>1, Zenon DEF CopyOK, WorkOK
<1>4. Nowhere(o) => Nowhere(o)'
  BY <1>1, Zenon DEF Nowhere, Asks, Replies
<1>5. CopyOK(o)'
  BY <1>1, <1>2, <1>3, ZenonT(30) DEF CopyOK, Asks, Replies
<1> QED BY <1>2, <1>4, <1>5, Zenon DEF CopyKept

(* The acquirer writes a 0200. *)
LEMMA CopySent ==
    ASSUME CopyInv, NEW o \in Originals, Nowhere(o), Fresh(o), NEW m, Asks(m, o),
           inbox' = inbox \cup {m}, UNCHANGED <<outbox, posted, log, sess>>
    PROVE  CopyInv' /\ \A p \in Originals \ {o} : CopyKept(p)
<1>1. CopyOK(o)'
  BY Zenon DEF CopyInv, CopyOK, Fresh, Nowhere, Works, Replies, Asks
<1>2. ASSUME NEW p \in Originals \ {o} PROVE CopyKept(p)
  BY CopyFrame, Zenon DEF CopyInv, Asks
<1> QED BY <1>1, <1>2 DEF CopyInv, CopyKept

(* The acquirer reads a 0210. *)
LEMMA CopyHeard ==
    ASSUME CopyInv, NEW o \in Originals, NEW a \in outbox, Replies(a, o),
           outbox' = outbox \ {a}, UNCHANGED <<inbox, posted, log, sess>>
    PROVE  /\ CopyInv' /\ \A p \in Originals : CopyKept(p)
           /\ posted[o] = Journals(a.rc) /\ ~Nowhere(o) /\ Nowhere(o)'
<1>1. posted[o] = Journals(a.rc) /\ ~Nowhere(o)
  BY DEF CopyInv, CopyOK, Nowhere
<1>2. Nowhere(o)'
  BY Zenon DEF CopyInv, CopyOK, Nowhere, Asks, Works, Replies
<1>3. ASSUME NEW p \in Originals PROVE CopyKept(p)
  BY CopyFrame, Zenon DEF CopyInv
<1> QED BY <1>1, <1>2, <1>3 DEF CopyInv, CopyKept

(* The acquirer writes no 0200. *)
LEMMA CopyQuiet ==
    ASSUME CopyInv, outbox' \subseteq outbox, \A m \in inbox' \ inbox : m.mti # "0200",
           UNCHANGED <<posted, log, sess>>
    PROVE  CopyInv' /\ \A o \in Originals : CopyKept(o)
<1>1. ASSUME NEW o \in Originals PROVE CopyKept(o)
  BY CopyFrame, Zenon DEF CopyInv, Asks
<1> QED BY <1>1 DEF CopyInv, CopyKept

(* The session that has the copy moves on, and writes the row and the journal of its original. *)
LEMMA CopyMoves ==
    ASSUME IInv, CopyInv, NEW s \in Sessions, NEW c, NEW o \in Originals, Works(s, o),
           sess' = [sess EXCEPT ![s] = c], c.msg = sess[s].msg, c.pc # "idle",
           posted'[o] = Journals(c.rc),
           c.pc \in Early => log'[o].status = "NONE",
           Kind[o] = "INVALID" \/ c.rc = "00" => c.pc \in {"finish", "respond"},
           \A p \in Originals \ {o} : posted'[p] = posted[p] /\ log'[p] = log[p],
           UNCHANGED <<inbox, outbox>>
    PROVE  \A p \in Originals : CopyKept(p)
<1>1. sess'[s] = c /\ \A z \in Sessions \ {s} : sess'[z] = sess[z]
  BY Zenon DEF IInv, TypeOK
<1>2. CopyOK(o) /\ ~Nowhere(o)
  BY Zenon DEF CopyInv, Nowhere
<1>3. \A p : \A z \in Sessions : Works(z, p)' => Works(z, p)
  BY <1>1, SMTT(30) DEF Works
<1>4. WorkOK(s, o)'
  BY <1>1, Zenon DEF WorkOK
<1>5. CopyOK(o)'
  BY <1>2, <1>3, <1>4, Zenon DEF CopyOK, Asks, Replies
<1>6. ASSUME NEW p \in Originals \ {o} PROVE CopyKept(p)
  <2>1. ~Works(s, p)'
    BY <1>1, Zenon DEF Works
  <2> QED BY <1>1, <2>1, CopyFrame, Zenon DEF CopyInv
<1> QED BY <1>2, <1>5, <1>6, Zenon DEF CopyKept

(* Goto and GotoWith before a decision. *)
LEMMA CopyGoes ==
    ASSUME IInv, CopyInv, NEW s \in Sessions, NEW p \in Steps, NEW q,
           sess[s].pc \notin {"idle", "finish", "respond"}, p # "idle",
           Goto(s, p) \/ (q # "00" /\ GotoWith(s, p, q)),
           p \in Early => sess[s].pc \in Early /\ log' = log,
           \A o \in Originals : o # sess[s].msg.orig => log'[o] = log[o],
           UNCHANGED <<inbox, outbox, posted>>
    PROVE  \A o \in Originals : CopyKept(o)
<1>1. sess[s] \in Contexts
  BY SessionFacts, Zenon
<1>2. PICK o \in Originals : o = sess[s].msg.orig /\ Works(s, o) /\ WorkOK(s, o)
  BY SessionFacts, ZenonT(30) DEF Works, CopyInv, CopyOK
<1>3. sess[s].rc # "00" /\ Kind[o] # "INVALID" /\ posted[o] = 0
  BY <1>2, Zenon DEF WorkOK, Journals
<1>4. CASE Goto(s, p)
  <2> DEFINE c == [sess[s] EXCEPT !.pc = p]
  <2>1. c.pc = p /\ c.rc = sess[s].rc /\ c.msg = sess[s].msg /\ sess' = [sess EXCEPT ![s] = c]
    BY <1>1, <1>4 DEF Goto, Contexts
  <2> HIDE DEF c
  <2> QED BY <1>2, <1>3, <2>1, CopyMoves, ZenonT(30) DEF WorkOK, Journals
<1>5. CASE q # "00" /\ GotoWith(s, p, q)
  <2> DEFINE c == [sess[s] EXCEPT !.pc = p, !.rc = q]
  <2>1. c.pc = p /\ c.rc = q /\ c.msg = sess[s].msg /\ sess' = [sess EXCEPT ![s] = c]
    BY <1>1, <1>5 DEF GotoWith, Contexts
  <2> HIDE DEF c
  <2> QED BY <1>2, <1>3, <1>5, <2>1, CopyMoves, Zenon DEF WorkOK, Journals
<1> QED BY <1>4, <1>5, Zenon

(* The participants before Authorize. *)
LEMMA CopyReading ==
    ASSUME IInv, CopyInv, OneReply, NEW s \in Sessions,
           \/ CheckReversed(s) \/ Deduplicate(s) \/ CheckCard(s) \/ LogReceived(s) \/ VerifyEmv(s)
           \/ VerifySecurity(s) \/ CheckLimits(s) \/ CheckDailyAmount(s) \/ ReadFails(s)
    PROVE  \A o \in Originals : CopyKept(o)
<1> DEFINE Skips == \E p \in Steps \ {"idle"} : \E q \in Codes \ {"00"} :
                      (Goto(s, p) \/ GotoWith(s, p, q)) /\ (p \in Early => sess[s].pc \in Early)
           Busy == sess[s].pc \notin {"idle", "finish", "respond"} /\ UNCHANGED <<inbox, outbox, posted, log>>
<1>0. ASSUME Skips, Busy PROVE \A o \in Originals : CopyKept(o)
  <2>1. PICK p \in Steps \ {"idle"} : \E q \in Codes \ {"00"} :
          (Goto(s, p) \/ GotoWith(s, p, q)) /\ (p \in Early => sess[s].pc \in Early)
    BY <1>0, Zenon
  <2>2. PICK q \in Codes \ {"00"} : (Goto(s, p) \/ GotoWith(s, p, q)) /\ (p \in Early => sess[s].pc \in Early)
    BY <2>1, Zenon
  <2>3. log' = log /\ \A o \in Originals : log'[o] = log[o]
    BY <1>0, Zenon
  <2> QED BY <1>0, <2>2, <2>3, CopyGoes, Zenon
<1>1. \A p, q : Goto(s, p) /\ p \in Steps \ {"idle"} /\ (p \in Early => sess[s].pc \in Early) => Skips
  <2>1. "05" \in Codes \ {"00"}
    BY Members
  <2> QED BY <2>1, Zenon
<1>2. \A p, q : /\ GotoWith(s, p, q) /\ p \in Steps \ {"idle"} /\ q \in Codes \ {"00"}
                /\ p \in Early => sess[s].pc \in Early
                => Skips
  BY Zenon
<1> HIDE DEF Skips
<1>3. CASE CheckReversed(s)
  <2>1. Busy
    BY <1>3, Zenon DEF CheckReversed, dbVars
  <2>2. Skips
    BY <1>1, <1>2, <1>3, Members, Zenon DEF CheckReversed, Early
  <2> QED BY <1>0, <2>1, <2>2, Zenon
<1>4. CASE CheckCard(s)
  <2>1. Busy
    BY <1>4, Zenon DEF CheckCard, dbVars
  <2>2. Skips
    BY <1>1, <1>2, <1>4, Members, Zenon DEF CheckCard, Early
  <2> QED BY <1>0, <2>1, <2>2, Zenon
<1>5. CASE VerifyEmv(s)
  <2>1. Busy
    BY <1>5, Zenon DEF VerifyEmv, dbVars
  <2>2. Skips
    BY <1>1, <1>2, <1>5, Members, Zenon DEF VerifyEmv, Early
  <2> QED BY <1>0, <2>1, <2>2, Zenon
<1>6. CASE VerifySecurity(s)
  <2>1. Busy
    BY <1>6, Zenon DEF VerifySecurity, dbVars
  <2>2. Skips
    BY <1>1, <1>2, <1>6, Members, Zenon DEF VerifySecurity, Early
  <2> QED BY <1>0, <2>1, <2>2, Zenon
<1>7. CASE CheckLimits(s) \/ CheckDailyAmount(s)
  <2>1. Busy
    BY <1>7, Zenon DEF CheckLimits, CheckDailyAmount, dbVars
  <2>2. Skips
    BY <1>1, <1>2, <1>7, Members, Zenon DEF CheckLimits, CheckDailyAmount, Early
  <2> QED BY <1>0, <2>1, <2>2, Zenon
<1>8. CASE ReadFails(s)
  <2>1. Busy
    BY <1>8, Zenon DEF ReadFails, dbVars
  <2>2. Skips
    BY <1>1, <1>8, Members, Zenon DEF ReadFails, Early
  <2> QED BY <1>0, <2>1, <2>2, Zenon
<1>9. ASSUME sess[s].pc \in Early
      PROVE  \E o \in Originals : /\ o = sess[s].msg.orig /\ Works(s, o) /\ WorkOK(s, o)
                                  /\ log[o].status = "NONE" /\ sess[s] \in Contexts
  <2> DEFINE o == sess[s].msg.orig
  <2>1. sess[s].pc # "idle"
    BY <1>9, Zenon DEF Early
  <2>2. o \in Originals /\ sess[s] \in Contexts
    BY <2>1, SessionFacts, Zenon
  <2>3. Works(s, o)
    BY <2>1, Zenon DEF Works
  <2>4. WorkOK(s, o)
    BY <2>2, <2>3, Zenon DEF CopyInv, CopyOK
  <2>5. log[o].status = "NONE"
    BY <1>9, <2>4, Zenon DEF WorkOK
  <2> QED BY <2>2, <2>3, <2>4, <2>5, Zenon
<1>10. CASE Deduplicate(s)
  <2>1. sess[s].pc = "dedupe"
    BY <1>10 DEF Deduplicate
  <2>2. log[sess[s].msg.orig].status = "NONE"
    BY <1>9, <2>1, Zenon DEF Early
  <2>3. Busy
    BY <1>10 DEF Deduplicate, dbVars
  <2>4. Skips
    BY <1>1, <1>10, <2>1, <2>2, Members DEF Deduplicate, Early
  <2> QED BY <1>0, <2>3, <2>4
<1>11. CASE LogReceived(s)
  <2>1. PICK o \in Originals : o = sess[s].msg.orig /\ Works(s, o) /\ WorkOK(s, o) /\ sess[s].pc = "log" /\ sess[s] \in Contexts
    BY <1>9, <1>11, Zenon DEF LogReceived, Early
  <2>2. UNCHANGED <<inbox, outbox, posted>> /\ \A p \in Originals : p # o => log'[p] = log[p]
    BY <1>11, <2>1, Zenon DEF LogReceived, IInv, TypeOK
  <2>3. CASE Goto(s, "emv") \/ Goto(s, "finish")
    BY <2>1, <2>2, <2>3, CopyGoes, Members, Zenon DEF Early
  <2>4. CASE sess' = [sess EXCEPT ![s] = [@ EXCEPT !.pc = "emv", !.tran = TRUE]]
    <3> DEFINE c == [sess[s] EXCEPT !.pc = "emv", !.tran = TRUE]
    <3>1. c.pc = "emv" /\ c.rc = sess[s].rc /\ c.msg = sess[s].msg /\ sess' = [sess EXCEPT ![s] = c]
      BY <2>1, <2>4 DEF Contexts
    <3> HIDE DEF c
    <3>2. c.rc # "00" /\ Kind[o] # "INVALID" /\ posted[o] = Journals(c.rc)
      BY <2>1, <3>1, Zenon DEF WorkOK
    <3> QED BY <2>1, <2>2, <3>1, <3>2, CopyMoves, Zenon DEF Early
  <2> QED BY <1>11, <2>3, <2>4, Zenon DEF LogReceived
<1> QED BY <1>3, <1>4, <1>5, <1>6, <1>7, <1>8, <1>10, <1>11, Zenon

(* Authorize and LogAndOutbox.commit. *)
LEMMA CopyDeciding ==
    ASSUME IInv, CopyInv, OneReply, NEW s \in Sessions, Authorize(s) \/ Finish(s)
    PROVE  \A o \in Originals : CopyKept(o)
<1>1. PICK o \in Originals : o = sess[s].msg.orig /\ Works(s, o) /\ WorkOK(s, o) /\ sess[s] \in Contexts
  BY SessionFacts, ZenonT(30) DEF Authorize, Finish, CopyInv, CopyOK, Works
<1>2. log \in [Originals -> Rows] /\ posted \in [Originals -> Nat]
  BY DEF IInv, TypeOK
<1>3. CASE /\ sess[s].pc = "authorize" /\ UNCHANGED <<inbox, outbox, posted, log>>
           /\ Goto(s, "finish") \/ GotoWith(s, "finish", "51") \/ GotoWith(s, "finish", "94")
  BY <1>3, CopyGoes, Members, Zenon DEF Early
<1>4. CASE Authorize(s) /\ Post(o) /\ GotoWith(s, "finish", "00")
  <2> DEFINE c == [sess[s] EXCEPT !.pc = "finish", !.rc = "00"]
  <2>1. c.pc = "finish" /\ c.rc = "00" /\ c.msg = sess[s].msg /\ sess' = [sess EXCEPT ![s] = c]
    BY <1>1, <1>4 DEF GotoWith, Contexts
  <2> HIDE DEF c
  <2>2. posted[o] = 0 /\ Moves(o) /\ UNCHANGED <<inbox, outbox>>
    BY <1>1, <1>4, IssuerAssumption, Zenon DEF Authorize, WorkOK, Journals, OneReply, Moves
  <2>3. posted'[o] = Journals(c.rc) /\ \A p \in Originals \ {o} : posted'[p] = posted[p] /\ log'[p] = log[p]
    BY <1>2, <1>4, <2>1, <2>2, SMTT(30) DEF Post, Journals
  <2> QED BY <1>1, <2>1, <2>2, <2>3, CopyMoves, Zenon DEF Early
<1>5. CASE Finish(s)
  <2> DEFINE c == [sess[s] EXCEPT !.pc = "respond"]
  <2>1. c.pc = "respond" /\ c.rc = sess[s].rc /\ c.msg = sess[s].msg /\ sess' = [sess EXCEPT ![s] = c]
    BY <1>1, <1>5, Zenon DEF Finish, Goto, Contexts
  <2> HIDE DEF c
  <2>2. UNCHANGED <<inbox, outbox, posted>> /\ \A p \in Originals \ {o} : log'[p] = log[p]
    BY <1>1, <1>2, <1>5, Zenon DEF Finish
  <2> QED BY <1>1, <2>1, <2>2, CopyMoves, Zenon DEF WorkOK, Early
<1> QED BY <1>1, <1>3, <1>4, <1>5, Zenon DEF Authorize, OneReply, dbVars

(* An answer to a 0200 leaves, and the copy is nowhere else. *)
LEMMA CopyAnswered ==
    ASSUME CopyInv, NEW o \in Originals, ~Nowhere(o), NEW a, Replies(a, o), posted[o] = Journals(a.rc),
           outbox' = outbox \cup {a}, inbox' \subseteq inbox, UNCHANGED <<posted, log>>,
           \A b \in outbox : ~Replies(b, o), \A m \in inbox' : ~Asks(m, o), \A s \in Sessions : ~Works(s, o)',
           \A p \in Originals \ {o} : \A s \in Sessions : Works(s, p)' => sess'[s] = sess[s]
    PROVE  \A p \in Originals : CopyKept(p)
<1>1. CopyOK(o)'
  BY Zenon DEF CopyOK, Asks, Replies
<1>2. ASSUME NEW p \in Originals \ {o} PROVE CopyKept(p)
  BY CopyFrame, Zenon DEF CopyInv, Replies
<1> QED BY <1>1, <1>2, Zenon DEF CopyKept

(* Respond. *)
LEMMA CopyResponds ==
    ASSUME IInv, CopyInv, NEW s \in Sessions, Respond(s)
    PROVE  \A o \in Originals : CopyKept(o)
<1>1. PICK o \in Originals : o = sess[s].msg.orig /\ Works(s, o) /\ CopyOK(o)
  BY SessionFacts, Zenon DEF Respond, CopyInv, Works
<1> DEFINE a == Answer("0210", sess[s].msg, sess[s].rc, TRUE)
<1>2. Replies(a, o) /\ a.rc = sess[s].rc
  BY <1>1, Zenon DEF Answer, Replies
<1>3. outbox' = outbox \cup {a} /\ UNCHANGED <<inbox, posted, log>> /\ sess' = [sess EXCEPT ![s] = Idle]
  BY DEF Respond, dbVars
<1> HIDE DEF a
<1>4. sess'[s].pc = "idle" /\ \A z \in Sessions \ {s} : sess'[z] = sess[z]
  BY <1>3, ContextStart DEF IInv, TypeOK
<1>5. (\A z \in Sessions : ~Works(z, o)') /\ \A p \in Originals \ {o} : \A z \in Sessions : Works(z, p)' => sess'[z] = sess[z]
  BY <1>1, <1>4, Zenon DEF Works, CopyOK
<1>6. /\ posted[o] = Journals(a.rc) /\ ~Nowhere(o)
      /\ (\A b \in outbox : ~Replies(b, o)) /\ (\A m \in inbox : ~Asks(m, o))
  BY <1>1, <1>2, Zenon DEF CopyOK, WorkOK, Nowhere
<1> QED BY <1>2, <1>3, <1>5, <1>6, CopyAnswered, Zenon

(* AuthorizationListener takes the copy off the link. *)
LEMMA CopyAccepted ==
    ASSUME IInv, CopyInv, NEW s \in Sessions, NEW m \in inbox, Accept(s, m)
    PROVE  \A o \in Originals : CopyKept(o)
<1>1. UNCHANGED <<log, posted>> /\ inbox' = inbox \ {m} /\ sess[s].pc = "idle" /\ sess \in [Sessions -> Contexts]
  BY DEF Accept, dbVars, IInv, TypeOK
<1>2. PICK o \in Originals : m.orig = o /\ Asks(m, o) /\ CopyOK(o)
  BY DEF Accept, IInv, TypeOK, Messages, Asks, CopyInv
<1>3. /\ Fresh(o) /\ ~Nowhere(o) /\ (\A k \in inbox' : ~Asks(k, o))
      /\ (\A z \in Sessions : ~Works(z, o)) /\ (\A a \in outbox : ~Replies(a, o))
  BY <1>1, <1>2, Zenon DEF CopyOK, Nowhere
<1>4. ASSUME NEW c, sess' = [sess EXCEPT ![s] = c], outbox' = outbox, c.msg = m, c.pc \in {"rwo", "finish"}, c.rc # "00",
             Kind[o] = "INVALID" => c.pc = "finish"
      PROVE  \A p \in Originals : CopyKept(p)
  <2>1. sess'[s] = c /\ \A z \in Sessions \ {s} : sess'[z] = sess[z]
    BY <1>1, <1>4
  <2>2. \A z \in Sessions : Works(z, o)' => z = s
    BY <1>3, <2>1, Zenon DEF Works
  <2>3. WorkOK(s, o)'
    BY <1>1, <1>3, <1>4, <2>1, Zenon DEF WorkOK, Fresh, Journals
  <2>4. CopyOK(o)'
    BY <1>3, <1>4, <2>2, <2>3, Zenon DEF CopyOK, Asks, Replies
  <2>5. ASSUME NEW p \in Originals \ {o} PROVE CopyKept(p)
    BY <1>1, <1>2, <1>4, <2>1, CopyFrame, Zenon DEF CopyInv, Works
  <2> QED BY <1>3, <2>4, <2>5, Zenon DEF CopyKept
<1>5. ASSUME NEW rc \in {"91", "96"}, outbox' = outbox \cup {Answer("0210", m, rc, FALSE)}, UNCHANGED sess
      PROVE  \A p \in Originals : CopyKept(p)
  <2> DEFINE a == Answer("0210", m, rc, FALSE)
  <2>1. Replies(a, o) /\ a.rc = rc /\ outbox' = outbox \cup {a}
    BY <1>2, <1>5, Zenon DEF Answer, Replies
  <2> HIDE DEF a
  <2>2. posted[o] = Journals(a.rc) /\ \A z \in Sessions : ~Works(z, o)'
    BY <1>3, <1>5, <2>1, Zenon DEF Fresh, Journals, Works
  <2> QED BY <1>1, <1>3, <1>5, <2>1, <2>2, CopyAnswered, Zenon
<1>6. CASE UNCHANGED outbox /\ Kind[o] # "INVALID" /\ sess' = [sess EXCEPT ![s] = [Idle EXCEPT !.pc = "rwo", !.msg = m]]
  <2> DEFINE c == [Idle EXCEPT !.pc = "rwo", !.msg = m]
  <2>1. c.msg = m /\ c.pc = "rwo" /\ c.rc = ""
    BY DEF Idle, NoRC
  <2> HIDE DEF c
  <2> QED BY <1>4, <1>6, <2>1, Zenon DEF c
<1>7. CASE UNCHANGED outbox /\ sess' = [sess EXCEPT ![s] = [Idle EXCEPT !.pc = "finish", !.msg = m, !.rc = "30"]]
  <2> DEFINE c == [Idle EXCEPT !.pc = "finish", !.msg = m, !.rc = "30"]
  <2>1. c.msg = m /\ c.pc = "finish" /\ c.rc = "30"
    BY DEF Idle
  <2> HIDE DEF c
  <2> QED BY <1>4, <1>7, <2>1, Zenon DEF c
<1> QED BY <1>2, <1>5, <1>6, <1>7, Zenon DEF Accept

(* What the reversal sessions, time and a crash do to the copies: at most, they lose some. *)
LEMMA CopyElsewhere ==
    ASSUME IInv, CopyInv,
           \/ \E v \in RevSessions : RevStep(v) \/ \E m \in inbox : AcceptReversal(v, m)
           \/ \E o \in Originals : GrowStale(o)
           \/ Crash
    PROVE  \A o \in Originals : CopyKept(o)
<1>1. posted' = posted /\ inbox' \subseteq inbox
  BY ZenonT(30) DEF RevStep, Locate, Reverse, RespondReversal, AcceptReversal, GrowStale, Crash, dbVars, Undo
<1>2. \A a \in outbox' \ outbox : a.mti = "0430"
  <2>1. \A m, rc, b : Answer("0430", m, rc, b).mti = "0430"
    BY DEF Answer
  <2>2. outbox' = outbox \/ \E m, rc, b : outbox' = outbox \cup {Answer("0430", m, rc, b)}
    BY Zenon DEF RevStep, Locate, Reverse, RespondReversal, AcceptReversal, GrowStale, Crash
  <2> QED BY <2>1, <2>2
<1>3. \A s \in Sessions : sess'[s] = sess[s] \/ sess'[s].pc = "idle"
  BY ContextStart, Zenon DEF RevStep, Locate, Reverse, RespondReversal, AcceptReversal, GrowStale, Crash
<1>4. \A o \in Originals : log[o].status = "NONE" => log'[o].status = "NONE"
  <2>1. ASSUME NEW v \in RevSessions, Reverse(v)
        PROVE  log' = log \/ (log[rev[v].msg.orig].status # "NONE" /\ \E row : log' = [log EXCEPT ![rev[v].msg.orig] = row])
    BY <2>1, Zenon DEF Reverse, Abandonable, Reversible, Undo, dbVars
  <2>2. CASE \E v \in RevSessions : Reverse(v)
    BY <2>1, <2>2, Zenon DEF IInv, TypeOK
  <2>3. CASE UNCHANGED log
    BY <2>3, Zenon
  <2> QED BY <2>2, <2>3, Zenon DEF RevStep, Locate, RespondReversal, AcceptReversal, GrowStale, Crash, dbVars
<1>5. ASSUME NEW o \in Originals PROVE CopyKept(o)
  BY <1>1, <1>2, <1>3, <1>4, CopyFrame, Zenon DEF CopyInv, Replies, Works
<1> QED BY <1>5

(* The issuer books what it says in its only answer to a 0200 it gets once, and makes no copies of it. *)
LEMMA CopyStep ==
    ASSUME IInv, CopyInv, OneReply, Next
    PROVE  CopyInv' /\ \A o \in Originals : CopyKept(o)
<1>1. \A o \in Originals : CopyKept(o)
  BY CopyReading, CopyDeciding, CopyResponds, CopyAccepted, CopyElsewhere, Zenon DEF Next, SessionStep
<1> QED BY <1>1, Zenon DEF CopyInv, CopyKept

-----------------------------------------------------------------------------
(* How the reversals of a step are derived: a 0420 is read before a session works on it, only a
   session at work records its original as reversed, and what is settled or recorded stays. *)
ReversalsFollow ==
    /\ inbox' \subseteq inbox
    /\ \A v \in RevSessions : rev'[v].pc # "idle" =>
          \/ rev[v].pc # "idle" /\ rev'[v].msg = rev[v].msg
          \/ rev'[v].msg \in inbox /\ rev'[v].msg.mti = "0420"
    /\ \A o \in Originals : o \in rwo' \/ log'[o].status = "REVERSED" =>
          \/ o \in rwo \/ log[o].status = "REVERSED"
          \/ \E v \in RevSessions : rev[v].pc # "idle" /\ rev[v].msg.orig = o
    /\ rwo \subseteq rwo'
    /\ \A o \in Originals : Settled(o) => Settled(o)'

(* What is settled stays: the rows of a money step are undecided or approved. *)
LEMMA SettledStays ==
    ASSUME IInv, Next
    PROVE  \A o \in Originals : Settled(o) => Settled(o)'
<1> SUFFICES ASSUME NEW o \in Originals, Settled(o) PROVE log'[o] = log[o]
  BY DEF Settled
<1>1. ASSUME NEW p \in Originals, RowWrite(p) \/ BookStep(p) \/ UndoStep(p) PROVE log'[o] = log[o]
  <2>1. o # p
    BY <1>1, Zenon DEF RowWrite, BookStep, UndoStep, Settled
  <2> QED BY <1>1, <2>1, MoneyFacts, Zenon
<1> QED BY <1>1, MoneySteps DEF Untouched

(* A 0200 session reverses nothing. *)
LEMMA SessionReversesNothing ==
    ASSUME IInv, NEW s \in Sessions, SessionStep(s)
    PROVE  UNCHANGED <<inbox, rwo, rev>> /\ \A o \in Originals : log'[o].status = "REVERSED" => log[o].status = "REVERSED"
<1>1. UNCHANGED <<inbox, rwo, rev>>
  BY Zenon DEF SessionStep, CheckReversed, Deduplicate, CheckCard, LogReceived, VerifyEmv, VerifySecurity,
         CheckLimits, CheckDailyAmount, ReadFails, Authorize, Post, Finish, Respond, dbVars
<1>2. log' = log \/ \E o, row : row.status # "REVERSED" /\ log' = [log EXCEPT ![o] = row]
  <2>1. CASE \/ CheckReversed(s) \/ Deduplicate(s) \/ CheckCard(s) \/ VerifyEmv(s) \/ VerifySecurity(s)
             \/ CheckLimits(s) \/ CheckDailyAmount(s) \/ ReadFails(s) \/ Respond(s)
    BY <2>1, Zenon DEF CheckReversed, Deduplicate, CheckCard, VerifyEmv, VerifySecurity,
                CheckLimits, CheckDailyAmount, ReadFails, Respond, dbVars
  <2>2. CASE LogReceived(s)
    <3>1. [status |-> "RECEIVED", rc |-> NoRC].status # "REVERSED"
      OBVIOUS
    <3> QED BY <2>2, <3>1, Zenon DEF LogReceived
  <2>3. CASE Authorize(s)
    <3>1. [status |-> "APPROVED", rc |-> "00"].status # "REVERSED"
      OBVIOUS
    <3> QED BY <2>3, <3>1, ZenonT(30) DEF Authorize, Post, dbVars
  <2>4. CASE Finish(s)
    <3> DEFINE row == [status |-> IF sess[s].rc = "00" THEN "APPROVED" ELSE "DECLINED", rc |-> sess[s].rc]
    <3>1. row.status # "REVERSED"
      OBVIOUS
    <3>2. log' = log \/ log' = [log EXCEPT ![sess[s].msg.orig] = row]
      BY <2>4, Zenon DEF Finish
    <3> HIDE DEF row
    <3> QED BY <3>1, <3>2, Zenon
  <2> QED BY <2>1, <2>2, <2>3, <2>4, Zenon DEF SessionStep
<1> QED BY <1>1, <1>2 DEF IInv, TypeOK

(* A reversal session works on the original of its 0420 alone, and keeps its 0420 until it is idle. *)
LEMMA ReversalWorksOnItsOwn ==
    ASSUME IInv, NEW v \in RevSessions, RevStep(v)
    PROVE  /\ rev[v].pc # "idle" /\ UNCHANGED inbox /\ rwo \subseteq rwo'
           /\ \A o \in Originals : /\ o \in rwo' => o \in rwo \/ o = rev[v].msg.orig
                                   /\ log'[o] = log[o] \/ o = rev[v].msg.orig
           /\ \A w \in RevSessions : rev'[w].pc # "idle" => rev[w].pc # "idle" /\ rev'[w].msg = rev[w].msg
<1>1. log \in [Originals -> Rows] /\ rev \in [RevSessions -> RevContexts]
  BY DEF IInv, TypeOK
<1>2. rev[v].pc # "idle" /\ UNCHANGED inbox
  BY Zenon DEF RevStep, Locate, Reverse, RespondReversal
<1>3. rwo' = rwo \/ rwo' = rwo \cup {rev[v].msg.orig}
  BY Zenon DEF RevStep, Locate, Reverse, RespondReversal, Undo, dbVars
<1>4. log' = log \/ \E row : log' = [log EXCEPT ![rev[v].msg.orig] = row]
  BY Zenon DEF RevStep, Locate, Reverse, RespondReversal, Undo, dbVars
<1>5. \E c : rev' = [rev EXCEPT ![v] = c] /\ (c.pc # "idle" => c.msg = rev[v].msg)
  <2>1. CASE Locate(v)
    <3> DEFINE c == [rev[v] EXCEPT !.pc = "apply", !.found = log[rev[v].msg.orig].status]
    <3>1. rev' = [rev EXCEPT ![v] = c] /\ c.msg = rev[v].msg
      BY <1>1, <2>1 DEF Locate, RevContexts
    <3> QED BY <3>1, Zenon
  <2>2. CASE Reverse(v)
    <3>1. PICK ok \in BOOLEAN : RevGoto(v, ok)
      BY <2>2, Zenon DEF Reverse, RevWritten
    <3> DEFINE c == [rev[v] EXCEPT !.pc = "respond", !.ok = ok]
    <3>2. rev' = [rev EXCEPT ![v] = c] /\ c.msg = rev[v].msg
      BY <1>1, <3>1 DEF RevGoto, RevContexts
    <3> QED BY <3>2, Zenon
  <2>3. CASE RespondReversal(v)
    <3>1. RevIdle.pc = "idle"
      BY DEF RevIdle
    <3> QED BY <2>3, <3>1, Zenon DEF RespondReversal
  <2> QED BY <2>1, <2>2, <2>3 DEF RevStep
<1> QED BY <1>1, <1>2, <1>3, <1>4, <1>5, Zenon

(* Every step derives its reversals so. *)
LEMMA ReversalSteps ==
    ASSUME IInv, Next
    PROVE  ReversalsFollow
<1>1. CASE \E s \in Sessions : SessionStep(s)
  BY <1>1, SessionReversesNothing, SettledStays, Zenon DEF ReversalsFollow
<1>2. CASE \E v \in RevSessions : RevStep(v)
  BY <1>2, ReversalWorksOnItsOwn, SettledStays, Zenon DEF ReversalsFollow
<1>3. ASSUME NEW v \in RevSessions, NEW m \in inbox, AcceptReversal(v, m) PROVE ReversalsFollow
  <2> DEFINE c == [RevIdle EXCEPT !.pc = "locate", !.msg = m]
  <2>1. c.msg = m
    BY DEF RevIdle
  <2>2. /\ UNCHANGED <<rwo, log>> /\ m.mti = "0420" /\ inbox' \subseteq inbox /\ rev \in [RevSessions -> RevContexts]
        /\ rev' = rev \/ rev' = [rev EXCEPT ![v] = c]
    BY <1>3, Zenon DEF AcceptReversal, dbVars, IInv, TypeOK
  <2> HIDE DEF c
  <2> QED BY <2>1, <2>2, SettledStays, Zenon DEF ReversalsFollow
<1>4. CASE Crash
  <2>1. UNCHANGED <<inbox, rwo, log>> /\ \A v \in RevSessions : rev'[v].pc = "idle"
    BY <1>4, Zenon DEF Crash, dbVars, RevIdle
  <2> QED BY <2>1, SettledStays, Zenon DEF ReversalsFollow
<1>5. CASE (\E s \in Sessions, m \in inbox : Accept(s, m)) \/ \E o \in Originals : GrowStale(o)
  BY <1>5, SettledStays, Zenon DEF Accept, GrowStale, dbVars, ReversalsFollow
<1> QED BY <1>1, <1>2, <1>3, <1>4, <1>5 DEF Next

-----------------------------------------------------------------------------
(* What a row and its journal say of the money. *)
LEMMA MoneyByRow ==
    ASSUME IInv, NEW o \in Originals
    PROVE  /\ posted[o] = 1 /\ log[o].status # "REVERSED" => Money(o) = "held"
           /\ posted[o] = 0 => Money(o) \in {"free", "void"}
           /\ Settled(o) => Money(o) \in {"void", "returned"}
<1>1. RowDecidesMoney /\ log[o].status \in Statuses
  BY RowFields DEF IInv, TypeOK
<1> QED BY <1>1 DEF RowDecidesMoney, Money, Settled, Statuses

(* The steps of the money of one original, and whether they settle it: LogAndOutbox before a
   decision, Authorize for a session, LocateAndReverse for a 0420. *)
LogStep(o) ==
    /\ Money(o) = "free" /\ ~Settled(o)
    /\ Money(o)' \in {"free", "void"} /\ (Settled(o)' => Money(o)' = "void")
TakeStep(o) ==
    /\ \E s \in Sessions : sess[s].pc = "authorize" /\ sess[s].msg.orig = o
    /\ Money(o) = "free" /\ ~Settled(o) /\ (Moves(o) => Money(o)' = "held") /\ ~Settled(o)'
ReturnStep(o) ==
    /\ \E v \in RevSessions : rev[v].pc # "idle" /\ rev[v].msg.orig = o
    /\ ~Settled(o) /\ Settled(o)'
    /\ \/ Money(o) = "held" /\ Money(o)' = "returned"
       \/ Money(o) = "void" /\ Money(o)' = "void"

(* Every step is one of them for one original and nothing for the others. *)
LEMMA MoneyCases ==
    ASSUME IInv, Next
    PROVE  \/ \A o \in Originals : Money(o)' = Money(o) /\ (Settled(o)' <=> Settled(o))
           \/ \E o \in Originals : /\ \A p \in Originals \ {o} : Money(p)' = Money(p) /\ (Settled(p)' <=> Settled(p))
                                   /\ LogStep(o) \/ TakeStep(o) \/ ReturnStep(o)
<1>1. RowDecidesMoney /\ log \in [Originals -> Rows] /\ posted \in [Originals -> Nat] /\ undone \in [Originals -> Nat]
  BY DEF IInv, TypeOK
<1>2. CASE Untouched
  BY <1>2 DEF Untouched, Money, Settled
<1>3. ASSUME NEW o \in Originals, RowWrite(o) \/ BookStep(o) \/ UndoStep(o)
      PROVE  /\ \A p \in Originals \ {o} : Money(p)' = Money(p) /\ (Settled(p)' <=> Settled(p))
             /\ LogStep(o) \/ TakeStep(o) \/ ReturnStep(o)
  <2>1. \A p \in Originals \ {o} : Money(p)' = Money(p) /\ (Settled(p)' <=> Settled(p))
    BY <1>3, MoneyFacts, ZenonT(30) DEF Money, Settled
  <2>2. CASE RowWrite(o)
    <3>1. log[o].status \in {"NONE", "RECEIVED"} /\ posted[o] = 0 /\ undone[o] = 0 /\ posted'[o] = 0 /\ undone'[o] = 0
      BY <1>1, <2>2, MoneyFacts DEF RowWrite, RowDecidesMoney
    <3> QED BY <2>1, <3>1 DEF LogStep, Money, Settled
  <2>3. CASE BookStep(o)
    <3>1. log[o].status = "RECEIVED" /\ posted[o] = 0 /\ undone[o] = 0
      BY <1>1, <2>3, Zenon DEF BookStep, RowDecidesMoney
    <3>2. log'[o].status = "APPROVED" /\ undone'[o] = 0 /\ (Moves(o) => posted'[o] = 1)
      <4>1. /\ log'[o].status = "APPROVED" /\ undone'[o] = undone[o]
            /\ posted'[o] = IF Moves(o) THEN posted[o] + 1 ELSE posted[o]
        BY <2>3, MoneyFacts, Zenon
      <4> QED BY <3>1, <4>1, SMTT(30)
    <3> QED BY <2>1, <2>3, <3>1, <3>2 DEF TakeStep, BookStep, Money, Settled
  <2>4. CASE UndoStep(o)
    <3>1. log[o].status = "APPROVED" /\ posted[o] \in {0, 1} /\ undone[o] = 0
      BY <1>1, <2>4, Zenon DEF UndoStep, RowDecidesMoney
    <3>2. log'[o].status = "REVERSED" /\ posted'[o] = posted[o] /\ undone'[o] = posted[o]
      <4>1. /\ log'[o] = [log[o] EXCEPT !.status = "REVERSED"] /\ posted'[o] = posted[o]
            /\ undone'[o] = IF posted[o] > 0 THEN undone[o] + 1 ELSE undone[o]
        BY <2>4, MoneyFacts
      <4> QED BY <1>1, <3>1, <4>1 DEF Rows
    <3> QED BY <2>1, <2>4, <3>1, <3>2 DEF ReturnStep, UndoStep, Money, Settled
  <2> QED BY <1>3, <2>2, <2>3, <2>4, Zenon
<1> QED BY <1>2, <1>3, MoneySteps
=============================================================================
