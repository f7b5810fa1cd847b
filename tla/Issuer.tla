------------------------------- MODULE Issuer -------------------------------
(***************************************************************************)
(* The issuer: the two jPOS transaction managers and the tables they share.*)
(*                                                                         *)
(* iso-txn-mgr runs ParseAndValidate, Deduplicate, CheckCard,              *)
(* LogAndOutbox, VerifyEmv, VerifySecurity, CheckLimits, Authorize,        *)
(* Respond for every 0200; reversal-txn-mgr runs ParseReversal,            *)
(* DeduplicateReversal, LocateAndReverse, RespondReversal for every        *)
(* 0420/0421.  Several sessions of each run at the same time.  Every       *)
(* participant opens its own connection, so the database changes between   *)
(* any two of them; one action below is one database transaction.          *)
(*                                                                         *)
(* An original stands for the identity of one request (DE 11, DE 7, DE 32, *)
(* DE 41); copies of a message differ in n only.  All originals use one    *)
(* card, one account and one business date.                                *)
(***************************************************************************)
EXTENDS Integers, FiniteSets, FiniteSetsExt

CONSTANTS
    Originals,      \* requests the acquirer may have sent
    Kind,           \* "DEBIT" (purchase, cash), "CREDIT" (refund), "NONE" (balance inquiry)
                    \* or "INVALID" (ParseAndValidate refuses it)
    Amount,         \* DE 4 of each original
    Atc,            \* tag 9F36 in DE 55, 0 for an original without chip data
    Opening,        \* the account's opening balance
    Overdraft,      \* account.overdraft_limit
    PerTxn,         \* the card's PER_TXN max_amount
    DailyCount,     \* the card's DAILY max_count
    DailyAmount,    \* the card's DAILY max_amount
    Sessions,       \* sessions of iso-txn-mgr
    RevSessions,    \* sessions of reversal-txn-mgr
    Arrivals,       \* the messages that reach the issuer, each at most once, in any order
    Faults          \* what may go wrong besides interleaving, see FaultKinds

(* "refuse": the link is not signed on; "card": the card is blocked; "verify": the MAC, EMV or
   PIN check fails; "db": a statement fails; "commit": a COMMIT succeeds but its reply is lost;
   "crash": the process stops. *)
FaultKinds == {"refuse", "card", "verify", "db", "commit", "crash"}

(* The 0200s and the 0420s (a 0421 repeat is handled like the 0420); n tells copies apart. *)
Messages == [mti : {"0200", "0420"}, orig : Originals, n : Nat]

ASSUME IssuerAssumption ==
    /\ Kind \in [Originals -> {"DEBIT", "CREDIT", "NONE", "INVALID"}]
    /\ Amount \in [Originals -> Nat]
    /\ Atc \in [Originals -> Nat]
    /\ Opening \in Int
    /\ Overdraft \in Nat
    /\ Opening >= -Overdraft
    /\ PerTxn \in Nat
    /\ DailyCount \in Nat
    /\ DailyAmount \in Nat
    /\ IsFiniteSet(Sessions) /\ Sessions # {}
    /\ Arrivals \subseteq Messages
    /\ Faults \subseteq FaultKinds

VARIABLES
    inbox,      \* requests on their way to the issuer
    outbox,     \* answers on their way to the acquirer
    log,        \* tran_log: status and response code of each original
    stale,      \* originals whose row is older than stale-received-after-seconds
    rwo,        \* reversal_without_original
    posted,     \* number of PURCHASE/REFUND journals of each original
    undone,     \* number of REVERSAL journals of each original
    balance,    \* account.available_balance
    count,      \* velocity_counter.txn_count of the day
    spent,      \* velocity_counter.txn_amount of the day
    lastAtc,    \* card.emv_last_atc
    sess,       \* the Context of each 0200 session
    rev         \* the Context of each 0420 session

dbVars == <<log, stale, rwo, posted, undone, balance, count, spent, lastAtc>>
vars == <<inbox, outbox, dbVars, sess, rev>>

(* Response codes; one stands for those that a check tells apart in wording only. *)
Codes == {"00", "05", "30", "51", "55", "61", "62", "65", "91", "94", "96"}
NoRC == ""          \* RESPONSE_CODE not set: the response has no DE 39
Statuses == {"NONE", "RECEIVED", "APPROVED", "DECLINED", "REVERSED"}
Steps == {"idle", "rwo", "dedupe", "card", "log", "emv", "security", "limits", "amount", "authorize", "finish", "respond"}
RevSteps == {"idle", "locate", "apply", "respond"}

NoMsg == [mti |-> "none"]
Answer(mti, m, rc, signed) == [mti |-> mti, orig |-> m.orig, n |-> m.n, rc |-> rc, signed |-> signed]

Rows == [status : Statuses, rc : Codes \cup {NoRC}]
Answers == [mti : {"0210", "0430"}, orig : Originals, n : Nat, rc : Codes \cup {NoRC}, signed : BOOLEAN]
Contexts == [pc : Steps, msg : Messages \cup {NoMsg}, dup : BOOLEAN, tran : BOOLEAN,
             rc : Codes \cup {NoRC}]
RevContexts == [pc : RevSteps, msg : Messages \cup {NoMsg}, found : Statuses, ok : BOOLEAN]

Idle == [pc |-> "idle", msg |-> NoMsg, dup |-> FALSE, tran |-> FALSE, rc |-> NoRC]
RevIdle == [pc |-> "idle", msg |-> NoMsg, found |-> "NONE", ok |-> FALSE]

Moves(o) == Kind[o] \in {"DEBIT", "CREDIT"}

(* What the approval of o does to the customer's balance. *)
Effect(o) ==
    CASE Kind[o] = "DEBIT" -> -Amount[o]
      [] Kind[o] = "CREDIT" -> Amount[o]
      [] OTHER -> 0

Init ==
    /\ inbox = Arrivals
    /\ outbox = {}
    /\ log = [o \in Originals |-> [status |-> "NONE", rc |-> NoRC]]
    /\ stale = {}
    /\ rwo = {}
    /\ posted = [o \in Originals |-> 0]
    /\ undone = [o \in Originals |-> 0]
    /\ balance = Opening
    /\ count = 0
    /\ spent = 0
    /\ lastAtc = 0
    /\ sess = [s \in Sessions |-> Idle]
    /\ rev = [s \in RevSessions |-> RevIdle]

Goto(s, step) == sess' = [sess EXCEPT ![s] = [@ EXCEPT !.pc = step]]
GotoWith(s, step, rc) == sess' = [sess EXCEPT ![s] = [@ EXCEPT !.pc = step, !.rc = rc]]

(***************************************************************************)
(* A 0200 through iso-txn-mgr.                                             *)
(***************************************************************************)

(* AuthorizationListener.process and ParseAndValidate: a refusal by the listener is not MACed. *)
Accept(s, m) ==
    /\ sess[s].pc = "idle"
    /\ m \in inbox /\ m.mti = "0200"
    /\ inbox' = inbox \ {m}
    /\ \/ /\ Kind[m.orig] # "INVALID"
          /\ sess' = [sess EXCEPT ![s] = [Idle EXCEPT !.pc = "rwo", !.msg = m]]
          /\ UNCHANGED outbox
       \/ /\ Kind[m.orig] = "INVALID"
          /\ sess' = [sess EXCEPT ![s] = [Idle EXCEPT !.pc = "finish", !.msg = m, !.rc = "30"]]
          /\ UNCHANGED outbox
       \/ /\ "refuse" \in Faults
          /\ \E rc \in {"91", "96"} : outbox' = outbox \cup {Answer("0210", m, rc, FALSE)}
          /\ UNCHANGED sess
    /\ UNCHANGED <<dbVars, rev>>

(* Deduplicate, first lookup: was this request already reversed? *)
CheckReversed(s) ==
    /\ sess[s].pc = "rwo"
    /\ \/ sess[s].msg.orig \in rwo /\ GotoWith(s, "card", "94")
       \/ sess[s].msg.orig \notin rwo /\ Goto(s, "dedupe")
    /\ UNCHANGED <<inbox, outbox, dbVars, rev>>

(* Deduplicate, second lookup: a hit replays the stored code, which a RECEIVED row has not. *)
Deduplicate(s) ==
    LET row == log[sess[s].msg.orig] IN
    /\ sess[s].pc = "dedupe"
    /\ \/ /\ row.status = "NONE"
          /\ Goto(s, "card")
       \/ /\ row.status # "NONE"
          /\ sess' = [sess EXCEPT ![s] = [@ EXCEPT !.pc = "card", !.dup = TRUE, !.rc = row.rc]]
    /\ UNCHANGED <<inbox, outbox, dbVars, rev>>

(* Here 62 stands for 14, 54 and 75 too. *)
CheckCard(s) ==
    /\ sess[s].pc = "card"
    /\ \/ Goto(s, "log")
       \/ "card" \in Faults /\ GotoWith(s, "finish", "62")
    /\ UNCHANGED <<inbox, outbox, dbVars, rev>>

(* LogAndOutbox.prepare: the RECEIVED row, unless uq_tran_dedupe or the database refuses it. *)
LogReceived(s) ==
    LET o == sess[s].msg.orig IN
    /\ sess[s].pc = "log"
    /\ \/ /\ sess[s].dup
          /\ Goto(s, "emv")
          /\ UNCHANGED log
       \/ /\ ~sess[s].dup /\ log[o].status = "NONE"
          /\ log' = [log EXCEPT ![o] = [status |-> "RECEIVED", rc |-> NoRC]]
          /\ \/ sess' = [sess EXCEPT ![s] = [@ EXCEPT !.pc = "emv", !.tran = TRUE]]
             \/ "commit" \in Faults /\ Goto(s, "finish")
       \/ /\ ~sess[s].dup /\ (log[o].status # "NONE" \/ "db" \in Faults)
          /\ Goto(s, "finish")
          /\ UNCHANGED log
    /\ UNCHANGED <<inbox, outbox, stale, rwo, posted, undone, balance, count, spent, lastAtc, rev>>

(* VerifyEmv: a transaction counter is accepted once, and that is committed before the
   cryptogram is checked. *)
VerifyEmv(s) ==
    LET atc == Atc[sess[s].msg.orig] IN
    /\ sess[s].pc = "emv"
    /\ \/ /\ atc = 0                                           \* no DE 55
          /\ Goto(s, "security")
          /\ UNCHANGED lastAtc
       \/ /\ atc # 0 /\ "verify" \in Faults                    \* malformed TLV
          /\ GotoWith(s, "finish", "30")
          /\ UNCHANGED lastAtc
       \/ /\ atc # 0 /\ atc <= lastAtc
          /\ GotoWith(s, "finish", "05")
          /\ UNCHANGED lastAtc
       \/ /\ atc > lastAtc
          /\ lastAtc' = atc
          /\ \/ Goto(s, "security")
             \/ "verify" \in Faults /\ GotoWith(s, "finish", "05")
             \/ "commit" \in Faults /\ Goto(s, "finish")
    /\ UNCHANGED <<inbox, outbox, log, stale, rwo, posted, undone, balance, count, spent, rev>>

(* VerifySecurity: a bad MAC or an exception is 96, a wrong PIN 55 (or 75). *)
VerifySecurity(s) ==
    /\ sess[s].pc = "security"
    /\ \/ Goto(s, "limits")
       \/ {"verify", "db"} \cap Faults # {} /\ GotoWith(s, "finish", "96")
       \/ "verify" \in Faults /\ GotoWith(s, "finish", "55")
    /\ UNCHANGED <<inbox, outbox, dbVars, rev>>

(* Variant: the daily count is refused one debit too late. *)
CheckLimitsLate(s) ==
    LET o == sess[s].msg.orig
        overTxn == Kind[o] = "DEBIT" /\ Amount[o] > PerTxn
        overCount == Kind[o] = "DEBIT" /\ count > DailyCount
    IN
    /\ sess[s].pc = "limits"
    /\ \/ overTxn /\ GotoWith(s, "finish", "61")
       \/ ~overTxn /\ overCount /\ GotoWith(s, "finish", "65")
       \/ ~overTxn /\ ~overCount /\ Goto(s, "amount")
    /\ UNCHANGED <<inbox, outbox, dbVars, rev>>

(* CheckLimits, for debits only: PerTransactionAmountRule and DailyCountRule. *)
CheckLimits(s) ==
    LET o == sess[s].msg.orig
        overTxn == Kind[o] = "DEBIT" /\ Amount[o] > PerTxn
        overCount == Kind[o] = "DEBIT" /\ count >= DailyCount
    IN
    /\ sess[s].pc = "limits"
    /\ \/ overTxn /\ GotoWith(s, "finish", "61")
       \/ ~overTxn /\ overCount /\ GotoWith(s, "finish", "65")
       \/ ~overTxn /\ ~overCount /\ Goto(s, "amount")
    /\ UNCHANGED <<inbox, outbox, dbVars, rev>>

(* CheckLimits, last rule: DailyAmountRule reads the counter again, on its own connection. *)
CheckDailyAmount(s) ==
    LET o == sess[s].msg.orig
        overAmount == Kind[o] = "DEBIT" /\ spent + Amount[o] > DailyAmount
    IN
    /\ sess[s].pc = "amount"
    /\ \/ overAmount /\ GotoWith(s, "finish", "61")
       \/ ~overAmount /\ Goto(s, "authorize")
    /\ UNCHANGED <<inbox, outbox, dbVars, rev>>

(* Deduplicate, CheckCard, VerifyEmv or CheckLimits throws: the chain aborts, no code is set. *)
ReadFails(s) ==
    /\ "db" \in Faults
    /\ sess[s].pc \in {"rwo", "dedupe", "card", "emv", "limits", "amount"}
    /\ Goto(s, "finish")
    /\ UNCHANGED <<inbox, outbox, dbVars, rev>>

(* Variant: the floor is compared with the balance before the debit. *)
NoFundsBefore(o) == Kind[o] = "DEBIT" /\ balance < -Overdraft

NoFunds(o) == Kind[o] = "DEBIT" /\ balance - Amount[o] < -Overdraft

(* Variant: the row is left to LogAndOutbox, outside the journal's transaction. *)
PostUnlogged(o) ==
    /\ posted' = IF Moves(o) THEN [posted EXCEPT ![o] = @ + 1] ELSE posted
    /\ balance' = balance + Effect(o)
    /\ count' = IF Kind[o] = "DEBIT" THEN count + 1 ELSE count
    /\ spent' = IF Kind[o] = "DEBIT" THEN spent + Amount[o] ELSE spent
    /\ UNCHANGED <<log, stale, rwo, undone, lastAtc>>

(* Variant: the daily counters take credits too. *)
PostCountingAll(o) ==
    /\ log' = [log EXCEPT ![o] = [status |-> "APPROVED", rc |-> "00"]]
    /\ posted' = IF Moves(o) THEN [posted EXCEPT ![o] = @ + 1] ELSE posted
    /\ balance' = balance + Effect(o)
    /\ count' = count + 1
    /\ spent' = spent + Amount[o]
    /\ UNCHANGED <<stale, rwo, undone, lastAtc>>

(* approveInOneTransaction: journal, balance, counters and the APPROVED row commit together. *)
Post(o) ==
    /\ log' = [log EXCEPT ![o] = [status |-> "APPROVED", rc |-> "00"]]
    /\ posted' = IF Moves(o) THEN [posted EXCEPT ![o] = @ + 1] ELSE posted
    /\ balance' = balance + Effect(o)
    /\ count' = IF Kind[o] = "DEBIT" THEN count + 1 ELSE count
    /\ spent' = IF Kind[o] = "DEBIT" THEN spent + Amount[o] ELSE spent
    /\ UNCHANGED <<stale, rwo, undone, lastAtc>>

Authorize(s) ==
    LET o == sess[s].msg.orig IN
    /\ sess[s].pc = "authorize"
    /\ \/ /\ sess[s].rc # NoRC                               \* decided already
          /\ Goto(s, "finish")
          /\ UNCHANGED dbVars
       \/ /\ sess[s].rc = NoRC /\ NoFunds(o)
          /\ GotoWith(s, "finish", "51")
          /\ UNCHANGED dbVars
       \/ /\ sess[s].rc = NoRC                               \* rolled back, exception
          /\ (~sess[s].tran /\ ~NoFunds(o)) \/ "db" \in Faults
          /\ Goto(s, "finish")
          /\ UNCHANGED dbVars
       \/ /\ sess[s].rc = NoRC /\ ~NoFunds(o)
          /\ sess[s].tran /\ log[o].status # "RECEIVED"      \* ReversedBeforeApproval
          /\ GotoWith(s, "finish", "94")
          /\ UNCHANGED dbVars
       \/ /\ sess[s].rc = NoRC /\ ~NoFunds(o)
          /\ sess[s].tran /\ log[o].status = "RECEIVED"
          /\ Post(o)
          /\ \/ GotoWith(s, "finish", "00")
             \/ "commit" \in Faults /\ Goto(s, "finish")
    /\ UNCHANGED <<inbox, outbox, rev>>

(* LogAndOutbox.commit and abort: the outcome of the RECEIVED row, or a row of its own when
   the chain aborted before that row was inserted. *)
Finish(s) ==
    LET o == sess[s].msg.orig
        rc == sess[s].rc
        outcome == [status |-> IF rc = "00" THEN "APPROVED" ELSE "DECLINED", rc |-> rc]
        expected == IF sess[s].tran THEN "RECEIVED" ELSE "NONE"
    IN
    /\ sess[s].pc = "finish"
    /\ \/ /\ ~sess[s].dup /\ log[o].status = expected
          /\ log' = [log EXCEPT ![o] = outcome]
       \/ /\ sess[s].dup \/ log[o].status # expected \/ "db" \in Faults
          /\ UNCHANGED log
    /\ Goto(s, "respond")
    /\ UNCHANGED <<inbox, outbox, stale, rwo, posted, undone, balance, count, spent, lastAtc, rev>>

Respond(s) ==
    /\ sess[s].pc = "respond"
    /\ outbox' = outbox \cup {Answer("0210", sess[s].msg, sess[s].rc, TRUE)}
    /\ sess' = [sess EXCEPT ![s] = Idle]
    /\ UNCHANGED <<inbox, dbVars, rev>>

(***************************************************************************)
(* A 0420 or 0421 through reversal-txn-mgr.                                *)
(***************************************************************************)
AcceptReversal(s, m) ==
    /\ rev[s].pc = "idle"
    /\ m \in inbox /\ m.mti = "0420"
    /\ inbox' = inbox \ {m}
    /\ \/ /\ rev' = [rev EXCEPT ![s] = [RevIdle EXCEPT !.pc = "locate", !.msg = m]]
          /\ UNCHANGED outbox
       \/ /\ "refuse" \in Faults
          /\ \E rc \in {"91", "96"} : outbox' = outbox \cup {Answer("0430", m, rc, TRUE)}
          /\ UNCHANGED rev
    /\ UNCHANGED <<dbVars, sess>>

Locate(s) ==
    /\ rev[s].pc = "locate"
    /\ rev' = [rev EXCEPT ![s] = [@ EXCEPT !.pc = "apply", !.found = log[rev[s].msg.orig].status]]
    /\ UNCHANGED <<inbox, outbox, dbVars, sess>>

(* Variant: a reversal is always acknowledged. *)
RevGotoAcknowledged(s, ok) == rev' = [rev EXCEPT ![s] = [@ EXCEPT !.pc = "respond", !.ok = TRUE]]

RevGoto(s, ok) == rev' = [rev EXCEPT ![s] = [@ EXCEPT !.pc = "respond", !.ok = ok]]

(* A write is acknowledged once it committed and the session learnt so. *)
RevWritten(s) == RevGoto(s, TRUE) \/ ("commit" \in Faults /\ RevGoto(s, FALSE))

(* Variants: markAbandoned relies on the row read before; or only on the journal. *)
AbandonableUnchecked(o) == o \in stale
AbandonableUnposted(o) == o \in stale /\ posted[o] = 0

(* markAbandoned's WHERE clause. *)
Abandonable(o) == log[o].status = "RECEIVED" /\ o \in stale /\ posted[o] = 0

(* Variant: markReversed relies on the row read before. *)
ReversibleUnchecked(o) == TRUE

(* markReversed's WHERE clause. *)
Reversible(o) == log[o].status = "APPROVED"

(* GREATEST(n, 0) in decrementDaily. *)
Floored(n) == IF n > 0 THEN n ELSE 0

(* markReversed and undo commit together; only the reversal that sees APPROVED posts. *)
Undo(o) ==
    LET debited == Kind[o] = "DEBIT" /\ posted[o] > 0 IN
    /\ log' = [log EXCEPT ![o] = [@ EXCEPT !.status = "REVERSED"]]
    /\ undone' = IF posted[o] > 0 THEN [undone EXCEPT ![o] = @ + 1] ELSE undone
    /\ balance' = balance - posted[o] * Effect(o)
    /\ count' = IF debited THEN Floored(count - 1) ELSE count
    /\ spent' = IF debited THEN Floored(spent - Amount[o]) ELSE spent
    /\ UNCHANGED <<stale, rwo, posted, lastAtc>>

Reverse(s) ==
    LET o == rev[s].msg.orig
        found == rev[s].found
    IN
    /\ rev[s].pc = "apply"
    /\ \/ /\ found = "NONE"
          /\ rwo' = rwo \cup {o}
          /\ RevWritten(s)
          /\ UNCHANGED <<log, stale, posted, undone, balance, count, spent, lastAtc>>
       \/ /\ found = "RECEIVED" /\ Abandonable(o)
          /\ log' = [log EXCEPT ![o] = [status |-> "REVERSED", rc |-> "94"]]
          /\ RevWritten(s)
          /\ UNCHANGED <<stale, rwo, posted, undone, balance, count, spent, lastAtc>>
       \/ /\ \/ found = "RECEIVED" /\ ~Abandonable(o)        \* still in flight
             \/ "db" \in Faults
          /\ RevGoto(s, FALSE)
          /\ UNCHANGED dbVars
       \/ /\ found = "APPROVED" /\ Reversible(o)
          /\ Undo(o)
          /\ RevWritten(s)
       \/ /\ \/ found = "APPROVED" /\ ~Reversible(o)
             \/ found \in {"DECLINED", "REVERSED"}
          /\ RevGoto(s, TRUE)
          /\ UNCHANGED dbVars
    /\ UNCHANGED <<inbox, outbox, sess>>

RespondReversal(s) ==
    /\ rev[s].pc = "respond"
    /\ outbox' = outbox \cup {Answer("0430", rev[s].msg, IF rev[s].ok THEN "00" ELSE "96", TRUE)}
    /\ rev' = [rev EXCEPT ![s] = RevIdle]
    /\ UNCHANGED <<inbox, dbVars, sess>>

(***************************************************************************)
(* Time and crashes.                                                       *)
(***************************************************************************)
GrowStale(o) ==
    /\ log[o].status = "RECEIVED" /\ o \notin stale
    /\ stale' = stale \cup {o}
    /\ UNCHANGED <<inbox, outbox, log, rwo, posted, undone, balance, count, spent, lastAtc, sess, rev>>

Crash ==
    /\ "crash" \in Faults
    /\ sess' = [s \in Sessions |-> Idle]
    /\ rev' = [s \in RevSessions |-> RevIdle]
    /\ UNCHANGED <<inbox, outbox, dbVars>>

SessionStep(s) ==
    \/ CheckReversed(s) \/ Deduplicate(s) \/ CheckCard(s) \/ LogReceived(s) \/ VerifyEmv(s)
    \/ VerifySecurity(s) \/ CheckLimits(s) \/ CheckDailyAmount(s) \/ ReadFails(s) \/ Authorize(s) \/ Finish(s) \/ Respond(s)

RevStep(s) == Locate(s) \/ Reverse(s) \/ RespondReversal(s)

Next ==
    \/ \E s \in Sessions : SessionStep(s) \/ \E m \in inbox : Accept(s, m)
    \/ \E s \in RevSessions : RevStep(s) \/ \E m \in inbox : AcceptReversal(s, m)
    \/ \E o \in Originals : GrowStale(o)
    \/ Crash

Spec == Init /\ [][Next]_vars

-----------------------------------------------------------------------------
(* Every table and every session context holds values the code can put there. *)
TypeOK ==
    /\ inbox \subseteq Messages
    /\ outbox \subseteq Answers
    /\ log \in [Originals -> Rows]
    /\ stale \subseteq Originals
    /\ rwo \subseteq Originals
    /\ posted \in [Originals -> Nat]
    /\ undone \in [Originals -> Nat]
    /\ balance \in Int
    /\ count \in Nat
    /\ spent \in Nat
    /\ lastAtc \in Nat
    /\ sess \in [Sessions -> Contexts]
    /\ rev \in [RevSessions -> RevContexts]

(* The tran_log row says what happened to the money: an APPROVED row has exactly one journal, a
   REVERSED row has as many reversing journals as journals and never more than one, and no other
   row has a journal.  Authorize and LocateAndReverse each keep this with one transaction and a
   conditional UPDATE, whatever copies of the 0200, the 0420 and its 0421 do at the same time. *)
RowDecidesMoney ==
    \A o \in Originals :
        /\ log[o].status \in {"NONE", "RECEIVED", "DECLINED"} => posted[o] = 0 /\ undone[o] = 0
        /\ log[o].status = "APPROVED" => posted[o] = (IF Moves(o) THEN 1 ELSE 0) /\ undone[o] = 0
        /\ log[o].status = "REVERSED" => posted[o] \in {0, 1} /\ undone[o] = posted[o]

Held == {o \in Originals : posted[o] > undone[o]}

HeldDebits == {o \in Held : Kind[o] = "DEBIT"}

(* The daily count is the number of debits that are posted and not reversed, so that the floor of
   decrementDaily never has to act: incrementDaily and decrementDaily run in the transaction that
   posts or reverses. *)
CountIsDebits == count = Cardinality(HeldDebits)

(* The account and the velocity counters are the sums of the journals: the balance moved by each
   original that is posted and not reversed, the counters by each such debit (adjust,
   incrementDaily and decrementDaily run in the journal's transaction). *)
CountersMatchJournal ==
    /\ balance = Opening + MapThenSumSet(Effect, Held)
    /\ CountIsDebits
    /\ spent = MapThenSumSet(LAMBDA o : Amount[o], HeldDebits)

(* The overdraft floor Authorize checks under the row lock is only ever crossed because a
   credit was reversed after it had been spent ("reversals must be able to overdraw"). *)
OverdrawnOnlyByReversal ==
    balance < -Overdraft => \E o \in Originals : Kind[o] = "CREDIT" /\ undone[o] > 0

(* The daily count is exceeded by no more than the debits that pass CheckLimits at the same time:
   CheckLimits reads the counter before Authorize increments it, but every later session sees it. *)
CountOvershootBounded == count <= DailyCount + Cardinality(Sessions) - 1

(* An approval that the acquirer was told of is on the books: a 0210 with 00 is only sent, first
   or as a replay, for an original whose row is APPROVED, or REVERSED after that approval. *)
ApprovedAnswerIsPosted ==
    \A a \in outbox :
        a.mti = "0210" /\ a.rc = "00" =>
            /\ log[a.orig].status \in {"APPROVED", "REVERSED"}
            /\ Moves(a.orig) => posted[a.orig] = 1

(* A 0430 with 00 is final: once LocateAndReverse acknowledged the reversal of an original it had
   found, that original is declined or reversed, holds no money, and never will again. *)
AcknowledgedIsSettled ==
    \A a \in outbox :
        a.mti = "0430" /\ a.rc = "00" /\ a.orig \notin rwo =>
            log[a.orig].status \in {"DECLINED", "REVERSED"}

(* "nothing ever overwrites a decided row" (updateOutcome): a step changes a row that has left
   RECEIVED only by reversing an APPROVED one, and then keeps the code a duplicate replays. *)
DecidedRowKept ==
    [][\A o \in Originals :
          log[o].status \in {"APPROVED", "DECLINED", "REVERSED"} /\ log'[o] # log[o] =>
              log[o].status = "APPROVED" /\ log'[o] = [log[o] EXCEPT !.status = "REVERSED"]]_vars

(* What the tables say of an original's money. *)
Money(o) ==
    CASE posted[o] = 0 /\ undone[o] = 0 /\ log[o].status \in {"NONE", "RECEIVED"} -> "free"
      [] posted[o] = 0 /\ undone[o] = 0 /\ log[o].status \notin {"NONE", "RECEIVED"} -> "void"
      [] posted[o] = 1 /\ undone[o] = 0 -> "held"
      [] posted[o] = 1 /\ undone[o] = 1 -> "returned"
      [] OTHER -> "wrong"

H == INSTANCE Hold WITH Requests <- Originals, money <- [o \in Originals |-> Money(o)]

(* The issuer implements Hold: across the chains' separate transactions, copies, faults and crashes,
   each original is posted at most once and returned at most once, one step at a time, and never
   posted once its row is DECLINED or REVERSED.  Authorize, LogAndOutbox, LocateAndReverse. *)
ImplementsHold == H!HoldSpec
=============================================================================
