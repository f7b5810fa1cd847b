---------------------------- MODULE CardNetwork ----------------------------
(***************************************************************************)
(* The acquirer gateway and the issuer together, on one link: Gateway and  *)
(* Issuer share inbox and outbox, so the 0200s and 0420s the issuer works  *)
(* on are those the gateway writes, and the gateway reads only what the    *)
(* issuer answered.  Each side keeps its own database; what the two        *)
(* databases say of one purchase is what the properties compare.           *)
(***************************************************************************)
EXTENDS Integers

CONSTANTS Txns, Cancels, MaxAttempts, Duplicates, MaxCrashes, GatewayFaults, None,
          Kind, Amount, Atc, Opening, Overdraft, PerTxn, DailyCount, DailyAmount, Sessions, RevSessions, IssuerFaults

VARIABLES inbox, outbox,
          up, state, code, old, req, queued, adv, cancel, orphans, claimed, sending, waiting, crashes, left, heard,
          log, stale, rwo, posted, undone, balance, count, spent, lastAtc, sess, rev

gatewayVars == <<up, state, code, old, req, queued, adv, cancel, orphans, claimed, sending, waiting, crashes, left, heard>>
issuerVars == <<log, stale, rwo, posted, undone, balance, count, spent, lastAtc, sess, rev>>
vars == <<inbox, outbox, gatewayVars, issuerVars>>

G == INSTANCE Gateway WITH Faults <- GatewayFaults, IssuerCodes <- {}
I == INSTANCE Issuer WITH Originals <- Txns, Arrivals <- {}, Faults <- IssuerFaults

(* The constants of both sides, and purchases that move money unless the issuer cannot read them. *)
ASSUME NetworkAssumption ==
    /\ G!GatewayAssumption
    /\ I!IssuerAssumption
    /\ \A t \in Txns : Kind[t] # "NONE"

Init == G!Init /\ I!Init

GatewayStep == G!GatewayNext /\ UNCHANGED issuerVars
IssuerStep == I!Next /\ UNCHANGED gatewayVars

Next == GatewayStep \/ IssuerStep

Spec == Init /\ [][Next]_vars

(* The gateway's fairness.  Nothing is asked of the issuer: it may stop for ever between any two of its
   steps, as the gateway's timeouts, retries and dead letters do not rely on its answers. *)
FairSpec == Spec /\ G!Fairness

-----------------------------------------------------------------------------
Holds(t) == posted[t] > undone[t]

(* "Only an approval holds the cardholder's money.  Declines ... have nothing to return"
   (cancelPurchase): a decline that is not the 96 of a bad MAC, whose reversal is owed, holds
   nothing. *)
DeclinedHoldsNothing == \A t \in Txns : state[t] = "DECLINED" /\ code[t] # "96" => ~Holds(t)

(* The two databases agree in the end, through gateway crashes, outages and lost messages, unless
   the advice is dead-lettered: no purchase stays without an outcome or with its reversal pending,
   and the issuer keeps its money for ever exactly when the gateway keeps it APPROVED, unless its
   reversal arrived before it.  SweepOnce, followUp, deliverOnce, settle, LocateAndReverse. *)
EventuallyReconciled ==
    \A t \in Txns :
        <>[](\/ adv[t].status = "DEAD"
             \/ /\ state[t] \notin {"SENT", "TIMED_OUT", "REVERSAL_PENDING"}
                /\ t \in rwo \/ (Holds(t) <=> state[t] = "APPROVED"))

(* What the gateway's row tells of a purchase.  A bad MAC's 96 is not final, and a purchase whose
   reversal is in reversal_without_original is open until the issuer turns it down or returns it. *)
Told(t) ==
    CASE state[t] = "APPROVED" -> "approved"
      [] state[t] = "DECLINED" /\ code[t] # "96" -> "declined"
      [] state[t] = "REVERSED" /\ (t \in rwo => log[t].status \in {"DECLINED", "REVERSED"}) -> "reversed"
      [] OTHER -> "open"

P == INSTANCE Purchase WITH Requests <- Txns, money <- [t \in Txns |-> I!Money(t)], told <- [t \in Txns |-> Told(t)]

(* Gateway and issuer together implement Purchase: no step of one side, in whatever order the two
   take them and whatever is lost or late between them, lets the money and the row come apart.  A
   row that is APPROVED has its money held, one that is REVERSED has it returned (or never taken),
   and one that is DECLINED for good never takes any.
   sendPurchase, cancelPurchase, followUp, settle, Authorize, LocateAndReverse. *)
ImplementsPurchase == P!Spec
=============================================================================
