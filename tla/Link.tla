-------------------------------- MODULE Link --------------------------------
(***************************************************************************)
(* The gateway's side of the issuer link (package isonet): the supervision *)
(* loop that dials, signs on, echoes, signs on again and reconnects; the   *)
(* operator's manual sign-on, sign-off and echo; the requests that share   *)
(* the connection; and the Mux reader that hands each response to the      *)
(* request waiting under its key.  The issuer keeps one sign-on state for  *)
(* the acquirer, whatever the connection (acquirer_link.status).           *)
(*                                                                         *)
(* Every action is one step of one goroutine between two points where it   *)
(* blocks: a lock, a channel, a socket, a database statement.  A request   *)
(* may be sent several times under one key (STAN, DE 7), as the SAF worker *)
(* does with a 0421 repeat, so several responses may bear that key.        *)
(***************************************************************************)
EXTENDS Integers

CONSTANTS
    Reqs,               \* requests that share the connection, each with its key
    MaxSends,           \* bound on the sends of one request
    EchoFailureLimit,   \* echo failures in a row that drop the link
    MaxManual,          \* bound on the operator's actions
    MaxBreaks,          \* bound on connections that the network or the peer breaks
    Nobody

ASSUME LinkAssumption ==
    /\ MaxSends \in Nat /\ MaxManual \in Nat /\ MaxBreaks \in Nat
    /\ EchoFailureLimit \in Nat \ {0}
    /\ Nobody \notin {"loop", "manual"}

VARIABLES
    sup,        \* the supervision loop: its step and the echo failures in a row
    mux,        \* the loop has published a Mux (IsSignedOn)
    alive,      \* its connection is open
    status,     \* link_state.status: DOWN, or UP for CONNECTED and SIGNED_ON
    again,      \* the one-slot channel signOnAgain
    lock,       \* the goroutine that holds triggerMu across its exchange, or Nobody
    manual,     \* the operator's action: its step and its operation
    mgmt,       \* 0800s the issuer has not handled
    acks,       \* goroutines whose 0810 is in the socket
    issuerOn,   \* acquirer_link.status = SIGNED_ON
    req,        \* the goroutine of each request: waiting or not, and its sends so far
    inbox,      \* the messages of each request that the issuer has not read
    replies,    \* the responses in the socket, by key and response code
    chan,       \* the response in the channel of each send that waits or that the reader holds, or ""
    reader,     \* the response the reader is about to put, and in the channel of which send, or Nobody
    breaks, manuals

linkVars == <<sup, mux, alive, status, again>>
exchangeVars == <<lock, manual, mgmt, acks, issuerOn>>
requestVars == <<req, inbox, replies, chan, reader>>
bounds == <<breaks, manuals>>
allVars == <<linkVars, exchangeVars, requestVars, bounds>>

Ops == {"on", "off", "echo"}
Loop(step, failures) == [pc |-> step, failures |-> failures]
LoopSteps == {"dial", "publish", "signing", "up", "echoing", "resigning", "resigned", "closing", "down"}
Sends == Reqs \X (1..MaxSends)
NoManual == [pc |-> "idle", op |-> "echo"]
EmptyChannels == [s \in Sends |-> ""]
NoMessages == [r \in Reqs |-> 0]
NoReplies == [p \in Reqs \X {"00", "91"} |-> 0]

(* The status is that of the process before, whose sign-off may still be on its way. *)
LinkInit ==
    /\ sup = Loop("dial", 0) /\ mux = FALSE /\ alive = FALSE
    /\ status \in {"DOWN", "UP"}
    /\ again = FALSE
    /\ lock = Nobody /\ manual = NoManual
    /\ mgmt \in {{}, {[from |-> "loop", op |-> "off", live |-> FALSE]}} /\ acks = {}
    /\ issuerOn \in BOOLEAN
    /\ req = [r \in Reqs |-> [waiting |-> FALSE, n |-> 0]]
    /\ inbox = NoMessages /\ replies = NoReplies /\ chan = EmptyChannels /\ reader = Nobody
    /\ breaks = 0 /\ manuals = 0

(***************************************************************************)
(* An exchange of network management messages: Mux.Send of an 0800.        *)
(***************************************************************************)
(* A goroutine's earlier 0800s may still be handled, but their 0810s no longer match its key; an
   echo like that has no effect. *)
Forget(who) ==
    {[m EXCEPT !.live = @ /\ m.from # who] : m \in {n \in mgmt : n.from # who \/ n.op # "echo"}}

Write(who, op) ==
    /\ mgmt' = Forget(who) \cup (IF alive THEN {[from |-> who, op |-> op, live |-> TRUE]} ELSE {})
    /\ acks' = acks \ {who}

GiveUp(who) ==
    /\ mgmt' = Forget(who)
    /\ acks' = acks \ {who}

(* The reader, if it is free, hands a goroutine its 0810. *)
Answered(who) ==
    /\ who \in acks /\ reader = Nobody
    /\ acks' = acks \ {who}
    /\ UNCHANGED mgmt

(* handleNetworkManagement; the issuer may read a message after its connection is gone. *)
IssuerHandles(m) ==
    /\ m \in mgmt
    /\ mgmt' = mgmt \ {m}
    /\ issuerOn' = CASE m.op = "on" -> TRUE [] m.op = "off" -> FALSE [] OTHER -> issuerOn
    /\ acks' = IF m.live /\ alive THEN acks \cup {m.from} ELSE acks
    /\ UNCHANGED <<linkVars, lock, manual, requestVars, bounds>>

(***************************************************************************)
(* The supervision loop (Run, runOnce).                                    *)
(***************************************************************************)
(* setStatus drops the store's error: the row may stay as it was, and the caller goes on.  No
   property here tells CONNECTED from SIGNED_ON. *)
SetStatus(s) == status' \in {IF s = "DOWN" THEN "DOWN" ELSE "UP", status}

Dial ==
    /\ sup.pc = "dial"
    /\ \/ /\ sup' = Loop("publish", 0)
          /\ alive' = TRUE
          /\ SetStatus("CONNECTED")
       \/ /\ sup' = Loop("down", 0)
          /\ UNCHANGED <<alive, status>>
    /\ UNCHANGED <<mux, again, exchangeVars, requestVars, bounds>>

(* The Mux is published before the sign-on, which takes no lock. *)
Publish ==
    /\ sup.pc = "publish" /\ lock = Nobody
    /\ mux' = TRUE
    /\ Write("loop", "on")
    /\ sup' = Loop("signing", 0)
    /\ UNCHANGED <<alive, status, again, lock, manual, issuerOn, requestVars, bounds>>

SignOnDone ==
    /\ sup.pc = "signing"
    /\ \/ /\ Answered("loop")
          /\ sup' = Loop("up", 0)
          /\ SetStatus("SIGNED_ON")
       \/ /\ GiveUp("loop")
          /\ sup' = Loop("closing", 0)
          /\ UNCHANGED status
    /\ UNCHANGED <<mux, alive, again, lock, manual, issuerOn, requestVars, bounds>>

(* The ticker: echoTick sends under the lock. *)
EchoTick ==
    /\ sup.pc = "up" /\ lock = Nobody
    /\ lock' = "loop"
    /\ Write("loop", "echo")
    /\ sup' = Loop("echoing", sup.failures)
    /\ UNCHANGED <<mux, alive, status, again, manual, issuerOn, requestVars, bounds>>

(* Variant: the failures are counted over again at every tick. *)
EchoDoneForgetting ==
    /\ sup.pc = "echoing"
    /\ Answered("loop") \/ GiveUp("loop")
    /\ sup' = Loop("up", 0)
    /\ lock' = Nobody
    /\ UNCHANGED <<mux, alive, status, again, manual, issuerOn, requestVars, bounds>>

(* Variant: the return on the last failure leaves the lock taken. *)
EchoDoneKeepingLock ==
    /\ sup.pc = "echoing"
    /\ \/ Answered("loop") /\ sup' = Loop("up", 0) /\ lock' = Nobody
       \/ /\ GiveUp("loop")
          /\ IF sup.failures + 1 >= EchoFailureLimit THEN sup' = Loop("closing", 0) /\ UNCHANGED lock
             ELSE sup' = Loop("up", sup.failures + 1) /\ lock' = Nobody
    /\ UNCHANGED <<mux, alive, status, again, manual, issuerOn, requestVars, bounds>>

EchoDone ==
    /\ sup.pc = "echoing"
    /\ \/ Answered("loop") /\ sup' = Loop("up", 0)
       \/ /\ GiveUp("loop")
          /\ sup' = IF sup.failures + 1 >= EchoFailureLimit THEN Loop("closing", 0)
                    ELSE Loop("up", sup.failures + 1)
    /\ lock' = Nobody
    /\ UNCHANGED <<mux, alive, status, again, manual, issuerOn, requestVars, bounds>>

(* Variant: the slot is emptied and nothing is sent. *)
ResignOnIgnored ==
    /\ sup.pc = "up" /\ again
    /\ again' = FALSE
    /\ UNCHANGED <<sup, mux, alive, status, exchangeVars, requestVars, bounds>>

(* resignOn: a 91 made a request ask for it. *)
ResignOn ==
    /\ sup.pc = "up" /\ again /\ lock = Nobody
    /\ again' = FALSE
    /\ lock' = "loop"
    /\ Write("loop", "on")
    /\ sup' = Loop("resigning", sup.failures)
    /\ UNCHANGED <<mux, alive, status, manual, issuerOn, requestVars, bounds>>

ResignOnDone ==
    /\ sup.pc = "resigning"
    /\ \/ Answered("loop") /\ sup' = Loop("resigned", sup.failures)
       \/ GiveUp("loop") /\ sup' = Loop("up", sup.failures)
    /\ lock' = Nobody
    /\ UNCHANGED <<mux, alive, status, again, manual, issuerOn, requestVars, bounds>>

(* Like the operator's actions, resignOn writes the status after the unlock. *)
ResignOnSetsStatus ==
    /\ sup.pc = "resigned"
    /\ SetStatus("SIGNED_ON")
    /\ sup' = Loop("up", sup.failures)
    /\ UNCHANGED <<mux, alive, again, exchangeVars, requestVars, bounds>>

(* Serve fails on the broken connection, and its error reaches the loop. *)
ServeFails ==
    /\ sup.pc = "up" /\ ~alive /\ reader = Nobody
    /\ sup' = Loop("closing", 0)
    /\ UNCHANGED <<mux, alive, status, again, exchangeVars, requestVars, bounds>>

(* Variant: the Mux is withdrawn without the lock. *)
CloseUnlocked ==
    /\ sup.pc = "closing"
    /\ mux' = FALSE /\ alive' = FALSE
    /\ sup' = Loop("down", 0)
    /\ mgmt' = Forget("loop") /\ acks' = {}
    /\ inbox' = NoMessages /\ replies' = NoReplies /\ chan' = EmptyChannels /\ reader' = Nobody
    /\ UNCHANGED <<status, again, lock, manual, issuerOn, req, bounds>>

(* runOnce's deferred calls: no Mux for the next request, no socket for the responses of the last
   one, and a reader that is blocked stays behind with its Mux. *)
Close ==
    /\ sup.pc = "closing" /\ lock = Nobody
    /\ mux' = FALSE /\ alive' = FALSE
    /\ sup' = Loop("down", 0)
    /\ mgmt' = Forget("loop") /\ acks' = {}
    /\ inbox' = NoMessages /\ replies' = NoReplies /\ chan' = EmptyChannels /\ reader' = Nobody
    /\ UNCHANGED <<status, again, lock, manual, issuerOn, req, bounds>>

(* Variant: an attempt that fails leaves the status as it was. *)
DownUnsaid ==
    /\ sup.pc = "down"
    /\ sup' = Loop("dial", 0)
    /\ UNCHANGED <<mux, alive, status, again, exchangeVars, requestVars, bounds>>

(* Run between two connections; the back-off is a delay. *)
Down ==
    /\ sup.pc = "down"
    /\ SetStatus("DOWN")
    /\ sup' = Loop("dial", 0)
    /\ UNCHANGED <<mux, alive, again, exchangeVars, requestVars, bounds>>

LoopStep ==
    \/ Dial \/ Publish \/ SignOnDone \/ EchoTick \/ EchoDone \/ ResignOn \/ ResignOnDone
    \/ ResignOnSetsStatus \/ ServeFails \/ Close \/ Down

(* The network or the issuer breaks the connection, with what is on its way or without it. *)
Break ==
    /\ alive /\ breaks < MaxBreaks
    /\ breaks' = breaks + 1
    /\ alive' = FALSE
    /\ mgmt' \in {mgmt, {}}
    /\ UNCHANGED <<sup, mux, status, again, lock, manual, acks, issuerOn, requestVars, manuals>>

(***************************************************************************)
(* The operator.  The API runs one sign-on or sign-off at a time.          *)
(***************************************************************************)
(* TriggerEcho, TriggerSignOn, TriggerSignOff up to their exchange, under the lock. *)
Trigger(op) ==
    /\ manual.pc = "idle" /\ manuals < MaxManual
    /\ lock = Nobody /\ mux
    /\ manuals' = manuals + 1
    /\ lock' = "manual"
    /\ Write("manual", op)
    /\ manual' = [pc |-> "waiting", op |-> op]
    /\ UNCHANGED <<linkVars, issuerOn, requestVars, breaks>>

TriggerDone ==
    /\ manual.pc = "waiting"
    /\ \/ Answered("manual") /\ manual' = IF manual.op = "echo" THEN NoManual ELSE [manual EXCEPT !.pc = "setting"]
       \/ GiveUp("manual") /\ manual' = NoManual
    /\ lock' = Nobody
    /\ UNCHANGED <<linkVars, issuerOn, requestVars, bounds>>

(* The status is written after the unlock. *)
TriggerSetsStatus ==
    /\ manual.pc = "setting"
    /\ SetStatus(IF manual.op = "on" THEN "SIGNED_ON" ELSE "CONNECTED")
    /\ manual' = NoManual
    /\ UNCHANGED <<sup, mux, alive, again, lock, mgmt, acks, issuerOn, requestVars, bounds>>

(***************************************************************************)
(* Requests and the reader (Supervisor.Send, Mux.Send, Mux.Serve).         *)
(***************************************************************************)
(* Send registers a fresh channel under the key and writes. *)
MuxSend(r) ==
    /\ mux /\ ~req[r].waiting /\ req[r].n < MaxSends
    /\ req' = [req EXCEPT ![r] = [waiting |-> TRUE, n |-> @.n + 1]]
    /\ inbox' = IF alive THEN [inbox EXCEPT ![r] = @ + 1] ELSE inbox
    /\ UNCHANGED <<linkVars, exchangeVars, replies, chan, reader, bounds>>

(* AuthorizationListener, ReversalListener: 91 unless the acquirer is signed on. *)
IssuerReplies(r) ==
    LET rc == IF issuerOn THEN "00" ELSE "91" IN
    /\ inbox[r] > 0
    /\ inbox' = [inbox EXCEPT ![r] = @ - 1]
    /\ replies' = IF alive THEN [replies EXCEPT ![<<r, rc>>] = @ + 1] ELSE replies
    /\ UNCHANGED <<linkVars, exchangeVars, req, chan, reader, bounds>>

(* Serve looks the key of a response up: its channel is that of the send that waits now; without
   one the response is late. *)
ServeLooksUp(r, rc) ==
    /\ reader = Nobody
    /\ replies[<<r, rc>>] > 0
    /\ replies' = [replies EXCEPT ![<<r, rc>>] = @ - 1]
    /\ reader' = IF req[r].waiting THEN [send |-> <<r, req[r].n>>, rc |-> rc] ELSE Nobody
    /\ UNCHANGED <<linkVars, exchangeVars, req, inbox, chan, bounds>>

(* The send has returned; unless the reader holds it, its channel is garbage. *)
Departed(s) == ~(req[s[1]].waiting /\ req[s[1]].n = s[2])

(* ch <- fields blocks while the channel's one slot is taken. *)
Put ==
    /\ reader # Nobody
    /\ chan[reader.send] = ""
    /\ chan' = IF Departed(reader.send) THEN chan ELSE [chan EXCEPT ![reader.send] = reader.rc]
    /\ reader' = Nobody
    /\ UNCHANGED <<linkVars, exchangeVars, req, inbox, replies, bounds>>

(* The response comes; a 91 asks the loop to sign on again, if its slot is free. *)
Receive(r) ==
    LET s == <<r, req[r].n>> IN
    /\ req[r].waiting /\ chan[s] # ""
    /\ req' = [req EXCEPT ![r].waiting = FALSE]
    /\ again' = (again \/ chan[s] = "91")
    /\ chan' = [chan EXCEPT ![s] = ""]
    /\ UNCHANGED <<sup, mux, alive, status, exchangeVars, inbox, replies, reader, bounds>>

(* ctx is done, perhaps with a response in the channel, or the write failed. *)
TimeOut(r) ==
    LET s == <<r, req[r].n>> IN
    /\ req[r].waiting
    /\ req' = [req EXCEPT ![r].waiting = FALSE]
    /\ chan' = IF reader # Nobody /\ reader.send = s THEN chan ELSE [chan EXCEPT ![s] = ""]
    /\ UNCHANGED <<linkVars, exchangeVars, inbox, replies, reader, bounds>>

RequestStep(r) == Receive(r) \/ TimeOut(r)
ReaderStep == Put \/ \E r \in Reqs, rc \in {"00", "91"} : ServeLooksUp(r, rc)

LinkNext ==
    \/ LoopStep \/ Break
    \/ TriggerDone \/ TriggerSetsStatus \/ \E op \in Ops : Trigger(op)
    \/ ReaderStep
    \/ \E r \in Reqs : MuxSend(r) \/ RequestStep(r) \/ IssuerReplies(r)
    \/ \E m \in mgmt : IssuerHandles(m)

LinkSpec == LinkInit /\ [][LinkNext]_allVars

(* The loop's goroutine runs, its ticker ticks, the operator's exchange ends by its time limit and the
   issuer reads the sign-ons it is sent.  Go's select chooses at random, so a ready signOnAgain is not
   passed over for ever.  Nothing is asked of the reader, of the requests or of the issuer's replies
   to them; what is asked of the issuer's host and of the database, the properties that need it say. *)
FairLinkSpec ==
    /\ LinkSpec
    /\ WF_allVars(LoopStep) /\ SF_allVars(ResignOn)
    /\ WF_allVars(TriggerDone)
    /\ WF_allVars(\E m \in mgmt : m.op = "on" /\ IssuerHandles(m))

(* The issuer does not refuse every connection. *)
IssuerAccepts == SF_allVars(Dial /\ alive')

(* The database does not refuse every DOWN that the loop writes. *)
StoreRecovers == SF_allVars(Down /\ status' = "DOWN")

(***************************************************************************)
(* Properties.                                                             *)
(***************************************************************************)
(* The reader is blocked for good: the channel it found is full and its send has left. *)
Stuck ==
    /\ reader # Nobody
    /\ chan[reader.send] # ""
    /\ Departed(reader.send)

(* An exchange under the lock is the only one on the Mux, but for the first sign-on of a
   connection, which takes no lock; and the operator's exchange never outlives the Mux it
   found, since the loop takes the lock to withdraw it.  triggerMu, runOnce. *)
OneExchange ==
    /\ sup.pc \in {"echoing", "resigning"} <=> lock = "loop"
    /\ manual.pc = "waiting" => lock = "manual" /\ mux

(* A link without a connection is not shown CONNECTED or SIGNED_ON for good, even if the issuer
   never takes another connection: what an operator's action wrote after the loop's DOWN, or an
   earlier process left in link_state, or a failed write left standing, the loop overwrites after
   one of its next attempts.  TriggerSignOn, TriggerSignOff, setStatus, Run. *)
DownIsTold == StoreRecovers => []<>(status = "DOWN" \/ mux)

(* A 91 makes the gateway sign on again, whatever breaks meanwhile: on the live connection, or on
   the next one.  Send, resignOn, runOnce. *)
SignsOnAgain == IssuerAccepts => (again ~> issuerOn)

(* A reader blocked by a second response under one key does not keep the link dead: the echoes it
   cannot read fail, and the loop closes the connection.  Serve, echoTick. *)
StuckReaderHeals == []<>~Stuck

(* A link that fails gets a new connection and a new sign-on: neither an echo nor an operator's action
   keeps the lock that the loop needs to withdraw the old Mux and publish the new one.
   Run, runOnce, triggerMu. *)
Reconnects == IssuerAccepts => []<>(sup.pc \notin {"closing", "down", "dial", "publish"})
=============================================================================
