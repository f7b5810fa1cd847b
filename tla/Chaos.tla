------------------------------- MODULE Chaos --------------------------------
(***************************************************************************)
(* The chaos lab (package chaos): the runner that fires synthetic          *)
(* purchases and compares the issuer's balances with their outcomes, the   *)
(* handlers that start a run once per Idempotency-Key, and the scenarios:  *)
(* toxics kept by Toxiproxy, DUPLICATE_REQUEST kept in memory, and         *)
(* DROP_RESPONSE, which points the proxy's upstream at the fake issuer and *)
(* remembers the real one in memory.                                       *)
(*                                                                         *)
(* Purchases, the SAF worker and the issuer's balances are the environment *)
(* of this module: a purchase has one of the outcomes purchase.Service     *)
(* gives it, and each reversal is acknowledged or given up at any time     *)
(* after.  Money is counted in units of fixedAmountMinor, the one amount   *)
(* every purchase of a run has.                                            *)
(***************************************************************************)
EXTENDS Integers, FiniteSets, Sequences

CONSTANTS
    Cards,          \* the seed cards, in the order balanceTotal reads them
    Keys,           \* Idempotency-Keys
    Sizes,          \* the numbers of purchases a run is asked for
    MaxPurchases,   \* bound on the purchases of all runs
    MaxPuts,        \* bound on the PUTs of scenarios
    Handlers,       \* PUTs that may be under way at once
    MaxRestarts,    \* bound on the restarts of the gateway
    None

ASSUME ChaosAssumption ==
    /\ Len(Cards) \in Nat \ {0} /\ DOMAIN Cards = 1..Len(Cards)
    /\ \A i, j \in DOMAIN Cards : Cards[i] = Cards[j] => i = j
    /\ IsFiniteSet(Keys) /\ None \notin [size : Sizes, run : Nat]
    /\ Sizes \subseteq Nat \ {0}
    /\ MaxPurchases \in Nat /\ MaxPuts \in Nat /\ MaxRestarts \in Nat

VARIABLES
    runs,       \* Runner.runs in Runner.order
    active,     \* Runner.active: the place of the run in progress, 0 for none
    drive,      \* that run's goroutine: its step, the cards read so far and their total, the opening
                \* total, the approved total and the reversals to look up
    replays,    \* runReplays.byKey: the size asked for and the run, per key
    saf,        \* the number of reversals queued or yet to be queued by the sweeper, per card and by
                \* whether the issuer has booked their purchase
    dead,       \* the same of the rows DEAD in saf_queue
    balance,    \* movement of each card's balance at the issuer
    toxics,     \* scenarios whose toxic is at the proxy
    upstream,   \* the proxy's upstream: "issuer" or "fake"
    real,       \* ToxiproxyClient.realIssuerAddr, or ""
    local,      \* ToxiproxyClient.localState: the scenarios on in it
    put,        \* the handlers of PUT /v1/chaos/scenarios/{scenarioId}
    started, puts, restarts,
    undrained,  \* history: reversals were outstanding when the run in progress began to read balances
    kept,       \* history: money, per card, debited since then for no approved purchase and with no
                \* reversal to come
    unreturned, \* history: money debited for no approved purchase, at the closing read of each card
    excused     \* history: PUTs of DROP_RESPONSE overlapped, one lost the proxy's answer, or the
                \* gateway stopped while it was on

runVars == <<runs, active, drive, replays, started>>
moneyVars == <<saf, dead, balance>>
tally == <<undrained, kept, unreturned>>
proxyVars == <<toxics, upstream>>
clientVars == <<real, local, put, puts, excused>>
vars == <<runVars, moneyVars, proxyVars, clientVars, tally, restarts>>

Card == {Cards[i] : i \in DOMAIN Cards}
Kinds == {"booked", "unbooked"}
Toxic == {"SLOW_NETWORK"}
Scenarios == Toxic \cup {"DROP_RESPONSE", "DUPLICATE_REQUEST"}
(* How a purchase ends.  "unknown" is TIMED_OUT, or DECLINED with 96 for a response whose MAC fails;
   "declined booked" is a decline of what the issuer booked: an answer without DE 39, recorded as 30,
   or 91 from a link that went down after the duplicate had left. *)
Outcomes == {"approved", "declined", "declined booked", "unknown", "unknown booked"}

Idle == [pc |-> "idle", read |-> 0, total |-> 0, opening |-> 0, approved |-> 0, reversals |-> 0]
NewRun(size) ==
    [status |-> "RUNNING", failure |-> "", requested |-> size, completed |-> 0, approved |-> 0,
     reversed |-> 0]
NoReversals == [x \in Card \X Kinds |-> 0]
NoPut == [pc |-> "idle", id |-> "DROP_RESPONSE", enabled |-> FALSE]

Init ==
    /\ runs = <<>> /\ active = 0 /\ drive = Idle /\ started = 0
    /\ replays = [k \in Keys |-> None]
    /\ saf = NoReversals /\ dead = NoReversals /\ balance = [c \in Card |-> 0]
    /\ undrained = FALSE /\ kept = [c \in Card |-> 0] /\ unreturned = 0
    /\ toxics = {} /\ upstream = "issuer" /\ real = "" /\ local = {}
    /\ put = [h \in Handlers |-> NoPut] /\ puts = 0 /\ restarts = 0
    /\ excused = FALSE

(***************************************************************************)
(* Runs.                                                                   *)
(***************************************************************************)
(* Variant: the slot is freed by a verdict only. *)
FreesOnVerdict(run) == run.status = "PASSED" \/ run.failure = "LEDGER_MISMATCH"

Frees(run) == run.status \in {"PASSED", "FAILED"}

(* update, on the run in progress *)
Update(run) ==
    /\ runs' = [runs EXCEPT ![active] = run]
    /\ active' = IF Frees(run) THEN 0 ELSE active

Current == runs[active]

Known(k) == replays[k] # None

(* handleStartChaosRun and Start: the lock on the keys is held across both, and a refused POST is
   not remembered.  Bound: a behaviour starts runs or sets scenarios; neither reads the other's state. *)
StartRun(k, size) ==
    /\ ~Known(k) /\ active = 0
    /\ started + size <= MaxPurchases /\ puts = 0
    /\ started' = started + size
    /\ runs' = Append(runs, NewRun(size))
    /\ active' = Len(runs')
    /\ drive' = [Idle EXCEPT !.pc = "drain before"]
    /\ replays' = [replays EXCEPT ![k] = [size |-> size, run |-> active']]
    /\ UNCHANGED <<moneyVars, proxyVars, clientVars, tally, restarts>>

(* failRun: a step of execute returned an error, as each of its calls does at the latest when the
   drain's or the run's time limit is reached or at shutdown, or it panicked. *)
FailRun ==
    /\ active # 0
    /\ Update([Current EXCEPT !.status = "FAILED", !.failure = "RUN_ERROR"])
    /\ drive' = Idle
    /\ UNCHANGED <<replays, started, moneyVars, proxyVars, clientVars, tally, restarts>>

Outstanding(queue) == queue # NoReversals

(* waitForSafDrain waits for the second result of ListPending to be 0: the count of DEAD rows. *)
WaitForSafDrain(at, next) ==
    /\ drive.pc = at
    /\ ~Outstanding(dead)
    /\ drive' = [drive EXCEPT !.pc = next]
    /\ UNCHANGED <<runs, active, replays, started, moneyVars, proxyVars, clientVars, restarts>>

DrainBefore ==
    /\ WaitForSafDrain("drain before", "opening")
    /\ undrained' = Outstanding(saf) /\ kept' = [c \in Card |-> 0] /\ unreturned' = 0
DrainAfter == WaitForSafDrain("drain after", "count") /\ UNCHANGED tally

(* Money of card c debited for no approved purchase. *)
Astray(c) == (saf[<<c, "booked">>] + dead[<<c, "booked">>]) + kept[c]

(* balanceTotal reads one card after another. *)
ReadCard ==
    /\ drive.read < Len(Cards)
    /\ drive' = [drive EXCEPT !.read = @ + 1, !.total = @ + balance[Cards[drive.read + 1]]]
    /\ UNCHANGED <<runs, active, replays, started, moneyVars, proxyVars, clientVars, restarts>>

ReadOpening == drive.pc = "opening" /\ ReadCard /\ UNCHANGED tally
ReadClosing ==
    /\ drive.pc = "closing" /\ ReadCard
    /\ unreturned' = unreturned + Astray(Cards[drive.read + 1])
    /\ UNCHANGED <<undrained, kept>>

Opened ==
    /\ drive.pc = "opening" /\ drive.read = Len(Cards)
    /\ drive' = [Idle EXCEPT !.pc = "fire", !.opening = drive.total]
    /\ UNCHANGED <<runs, active, replays, started, moneyVars, proxyVars, clientVars, tally, restarts>>

ReversalQueued(o) == o \in {"unknown", "unknown booked"}
Books(o) == o \in {"approved", "declined booked", "unknown booked"}

(* Variant: an outcome that moved money counts as approved. *)
CountsBooked(o) == Books(o)

Counts(o) == o = "approved"

More == Current.completed < Current.requested

(* One more reversal of card c in queue, or by = -1 one less. *)
Count(queue, c, kind, by) == [queue EXCEPT ![<<c, kind>>] = @ + by]

(* What a purchase of card c leaves at the issuer and in saf_queue. *)
Purchase(c, o) ==
    /\ balance' = IF Books(o) THEN [balance EXCEPT ![c] = @ - 1] ELSE balance
    /\ saf' = IF ReversalQueued(o) THEN Count(saf, c, IF Books(o) THEN "booked" ELSE "unbooked", 1) ELSE saf
    /\ kept' = IF o = "declined booked" THEN [kept EXCEPT ![c] = @ + 1] ELSE kept
    /\ UNCHANGED <<dead, undrained, unreturned>>

(* fire: one purchase and its outcome. *)
Fire(c, o) ==
    /\ drive.pc = "fire" /\ More
    /\ Update([Current EXCEPT !.completed = @ + 1, !.approved = IF o = "approved" THEN @ + 1 ELSE @])
    /\ drive' = [drive EXCEPT !.approved = IF Counts(o) THEN @ + 1 ELSE @,
                              !.reversals = IF ReversalQueued(o) THEN @ + 1 ELSE @]
    /\ Purchase(c, o)
    /\ UNCHANGED <<replays, started, proxyVars, clientVars, restarts>>

(* A purchase comes back as an error, whatever became of it, and ends the run.  One left SENT is
   reversed by the sweeper. *)
FireFails(c, o) ==
    /\ drive.pc = "fire" /\ More
    /\ Update([Current EXCEPT !.status = "FAILED", !.failure = "RUN_ERROR"])
    /\ drive' = Idle
    /\ Purchase(c, o)
    /\ UNCHANGED <<replays, started, proxyVars, clientVars, restarts>>

Fired ==
    /\ drive.pc = "fire" /\ ~More
    /\ Update([Current EXCEPT !.status = "VERIFYING"])
    /\ drive' = [drive EXCEPT !.pc = "drain after"]
    /\ UNCHANGED <<replays, started, moneyVars, proxyVars, clientVars, tally, restarts>>

(* countReversed: each row is REVERSED by now or it is not. *)
CountReversed ==
    /\ drive.pc = "count" /\ drive.reversals > 0
    /\ drive' = [drive EXCEPT !.reversals = @ - 1]
    /\ \/ Update([Current EXCEPT !.reversed = @ + 1])
       \/ UNCHANGED <<runs, active>>
    /\ UNCHANGED <<replays, started, moneyVars, proxyVars, clientVars, tally, restarts>>

Counted ==
    /\ drive.pc = "count" /\ drive.reversals = 0
    /\ drive' = [drive EXCEPT !.pc = "closing"]
    /\ UNCHANGED <<runs, active, replays, started, moneyVars, proxyVars, clientVars, tally, restarts>>

(* The issuer's movement less what the outcomes say it should be. *)
Discrepancy == (drive.total - drive.opening) - (-drive.approved)

Verify ==
    /\ drive.pc = "closing" /\ drive.read = Len(Cards)
    /\ Update([Current EXCEPT !.status = IF Discrepancy = 0 THEN "PASSED" ELSE "FAILED",
                              !.failure = IF Discrepancy = 0 THEN "" ELSE "LEDGER_MISMATCH"])
    /\ drive' = Idle
    /\ UNCHANGED <<replays, started, moneyVars, proxyVars, clientVars, tally, restarts>>

DriveStep ==
    \/ DrainBefore \/ ReadOpening \/ Opened \/ Fired
    \/ \E c \in Card, o \in Outcomes : Fire(c, o) \/ FireFails(c, o)
    \/ DrainAfter \/ CountReversed \/ Counted \/ ReadClosing \/ Verify

(* The SAF worker delivers a reversal, and what was booked is returned. *)
SafAcked(c, kind) ==
    /\ saf[<<c, kind>>] > 0
    /\ saf' = Count(saf, c, kind, -1)
    /\ balance' = IF kind = "booked" THEN [balance EXCEPT ![c] = @ + 1] ELSE balance
    /\ UNCHANGED <<runVars, dead, proxyVars, clientVars, tally, restarts>>

(* The 0420 finds no original while the 0200 is between Deduplicate and the insert of its row: it is
   acknowledged out of reversal_without_original, and the 0200 is booked. *)
SafMisses(c) ==
    /\ saf[<<c, "unbooked">>] > 0
    /\ saf' = Count(saf, c, "unbooked", -1)
    /\ balance' = [balance EXCEPT ![c] = @ - 1]
    /\ kept' = [kept EXCEPT ![c] = @ + 1]
    /\ UNCHANGED <<runVars, dead, proxyVars, clientVars, undrained, unreturned, restarts>>

(* The worker gives a reversal up. *)
SafDead(c, kind) ==
    /\ saf[<<c, kind>>] > 0
    /\ saf' = Count(saf, c, kind, -1) /\ dead' = Count(dead, c, kind, 1)
    /\ UNCHANGED <<runVars, balance, proxyVars, clientVars, tally, restarts>>

(* The issuer books a purchase the gateway has given up on. *)
BooksLate(c) ==
    /\ \/ /\ saf[<<c, "unbooked">>] > 0
          /\ saf' = Count(Count(saf, c, "unbooked", -1), c, "booked", 1)
          /\ UNCHANGED dead
       \/ /\ dead[<<c, "unbooked">>] > 0
          /\ dead' = Count(Count(dead, c, "unbooked", -1), c, "booked", 1)
          /\ UNCHANGED saf
    /\ balance' = [balance EXCEPT ![c] = @ - 1]
    /\ UNCHANGED <<runVars, proxyVars, clientVars, tally, restarts>>

SafStep(c) == SafMisses(c) \/ BooksLate(c) \/ \E kind \in Kinds : SafAcked(c, kind) \/ SafDead(c, kind)

(***************************************************************************)
(* Scenarios.  SetScenario takes no lock: the steps of two PUTs interleave *)
(* between its calls to Toxiproxy.                                         *)
(***************************************************************************)
SetPut(h, step) == put' = [put EXCEPT ![h] = IF step = "idle" THEN NoPut ELSE [@ EXCEPT !.pc = step]]

(* Where SetScenario and setDropResponse go first. *)
FirstStep(id, enabled) ==
    CASE id \in Toxic -> "toxic"
      [] id = "DUPLICATE_REQUEST" -> "note"
      [] id = "DROP_RESPONSE" -> IF real # "" THEN "update" ELSE IF enabled THEN "ask" ELSE "note"

PutArrives(h, id, enabled) ==
    /\ put[h].pc = "idle" /\ puts < MaxPuts /\ started = 0
    /\ puts' = puts + 1
    /\ put' = [put EXCEPT ![h] = [pc |-> FirstStep(id, enabled), id |-> id, enabled |-> enabled]]
    /\ excused' = \/ excused
                  \/ /\ id = "DROP_RESPONSE"
                     /\ \E g \in Handlers \ {h} : put[g].pc # "idle" /\ put[g].id = id
    /\ UNCHANGED <<runVars, moneyVars, proxyVars, real, local, tally, restarts>>

(* addToxic, removeToxic: a toxic already there, or already gone, is no error. *)
SetToxic(h) ==
    /\ put[h].pc = "toxic"
    /\ \/ toxics' = IF put[h].enabled THEN toxics \cup {put[h].id} ELSE toxics \ {put[h].id}
       \/ UNCHANGED toxics
    /\ SetPut(h, "idle")
    /\ UNCHANGED <<runVars, moneyVars, upstream, real, local, puts, excused, tally, restarts>>

(* Variant: the address the proxy had is not remembered. *)
CurrentUpstreamForgotten(h) ==
    /\ put[h].pc = "ask"
    /\ SetPut(h, "update")
    /\ UNCHANGED <<runVars, moneyVars, proxyVars, real, local, puts, excused, tally, restarts>>

(* currentUpstream: answered, or failed. *)
CurrentUpstream(h) ==
    /\ put[h].pc = "ask"
    /\ \/ real' = upstream /\ SetPut(h, "update")
       \/ UNCHANGED real /\ SetPut(h, "idle")
    /\ UNCHANGED <<runVars, moneyVars, proxyVars, local, puts, excused, tally, restarts>>

(* updateUpstream: done, refused, or done with its answer lost. *)
UpdateUpstream(h) ==
    /\ put[h].pc = "update"
    /\ LET there == upstream' = (IF put[h].enabled THEN "fake" ELSE real) IN
       \/ there /\ SetPut(h, "note") /\ UNCHANGED excused
       \/ UNCHANGED <<upstream, excused>> /\ SetPut(h, "idle")
       \/ there /\ SetPut(h, "idle") /\ excused' = TRUE
    /\ UNCHANGED <<runVars, moneyVars, toxics, real, local, puts, tally, restarts>>

NoteState(h) ==
    /\ put[h].pc = "note"
    /\ local' = IF put[h].enabled THEN local \cup {put[h].id} ELSE local \ {put[h].id}
    /\ SetPut(h, "idle")
    /\ UNCHANGED <<runVars, moneyVars, proxyVars, real, puts, excused, tally, restarts>>

PutStep(h) == SetToxic(h) \/ CurrentUpstream(h) \/ UpdateUpstream(h) \/ NoteState(h)

(* The process stops and starts again.  Runs, keys, realIssuerAddr and localState were in memory, and
   DisableAll removes the toxics, if Toxiproxy answers, and finds no upstream to restore. *)
Restart ==
    /\ restarts < MaxRestarts
    /\ restarts' = restarts + 1
    /\ runs' = <<>> /\ active' = 0 /\ drive' = Idle
    /\ replays' = [k \in Keys |-> None]
    /\ real' = "" /\ local' = {} /\ put' = [h \in Handlers |-> NoPut]
    /\ toxics' \in {{}, toxics}
    /\ excused' = (excused \/ upstream = "fake")
    /\ UNCHANGED <<started, moneyVars, upstream, puts, tally>>

Next ==
    \/ DriveStep \/ FailRun \/ Restart
    \/ \E c \in Card : SafStep(c)
    \/ \E k \in Keys, size \in Sizes : StartRun(k, size)
    \/ \E h \in Handlers :
        PutStep(h) \/ \E id \in Scenarios, enabled \in BOOLEAN : PutArrives(h, id, enabled)

Spec == Init /\ [][Next]_vars

(***************************************************************************)
(* Properties.                                                             *)
(***************************************************************************)
(* The slot is held by the one run in progress: no run that has ended keeps it, whatever ended it,
   and none goes on without it.  Start, update, failRun. *)
OneRun ==
    \A i \in DOMAIN runs : runs[i].status \in {"RUNNING", "VERIFYING"} <=> i = active

(* Each run was started by a key of its own, so that a retried POST never starts a second one.
   handleStartChaosRun, runReplays. *)
KeyStartsOnce ==
    /\ Cardinality({k \in Keys : replays[k] # None}) = Len(runs)
    /\ \A k \in Keys : replays[k] # None => replays[k].size = runs[replays[k].run].requested

(* A verdict is true to the money of the run's own purchases.  A run that began with no reversal
   outstanding passes just when, at the closing read of each card, every one of its purchases that
   moved money was approved or had its money returned: it never passes when a reversal was lost, was
   acknowledged without returning the money, or was never queued for a decline the issuer had booked.
   Exception: DrainBefore lets a run begin while reversals of an earlier one are pending (undrained);
   one of those that lands during the run can hide one of its own that is lost.
   fire, reversalQueued, waitForSafDrain, balanceTotal, verify. *)
VerdictSound ==
    [][drive.pc = "closing" /\ active' = 0 /\ restarts' = restarts =>
        LET run == runs'[active] IN
        run.failure # "RUN_ERROR" /\ ~undrained => (run.status = "PASSED" <=> unreturned = 0)]_vars

(* A run that has ended is never changed, by its time limit or by the next run.  update, failRun. *)
FinalKept ==
    [][\A i \in DOMAIN runs :
        runs[i].status \in {"PASSED", "FAILED"} /\ restarts' = restarts => runs'[i] = runs[i]]_vars

(* What the list of scenarios reports is what is injected, once no PUT is under way: unless two PUTs
   of DROP_RESPONSE overlapped, one lost the proxy's answer, or the gateway stopped while it was on.
   SetScenario, setDropResponse, ListScenarios, DisableAll. *)
ScenariosReported ==
    ~excused /\ (\A h \in Handlers : put[h].pc = "idle") =>
        ("DROP_RESPONSE" \in local <=> upstream = "fake")
=============================================================================
