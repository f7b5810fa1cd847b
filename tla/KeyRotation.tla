---------------------------- MODULE KeyRotation -----------------------------
(***************************************************************************)
(* The rotation of a working key (package rotation): GENERATE, SEND 0800   *)
(* with DE 70 = 161, PARTNER_CONFIRM, ACTIVATE, on the gateway's key_store *)
(* and key_rotation; the issuer's ReceiveKeyChange on its own key_store;   *)
(* the clear ZAK that the gateway holds in memory; and the keys under      *)
(* which it verifies the MAC of a response (MACVerifier, FallbackKeys).    *)
(*                                                                         *)
(* Rotation k generates key k.  Key 0 is the one both hosts are configured *)
(* with.  Every action ends at a statement, an exchange or a lock; the     *)
(* process may crash between any two.  A statement may fail, and a commit  *)
(* may take effect although an error comes back.                           *)
(***************************************************************************)
EXTENDS Integers, FiniteSetsExt

CONSTANTS
    MaxRotations,   \* bound on the rotations
    SendAttempts,   \* sendAttempts of the runner
    MaxFailures,    \* bound on the failures of the gateway's and the issuer's database
    MaxCrashes,     \* bound on the crashes of the gateway
    Declinable,     \* the keys that the partner may be one to decline
    None

ASSUME RotationAssumption ==
    /\ MaxRotations \in Nat /\ MaxFailures \in Nat /\ MaxCrashes \in Nat
    /\ SendAttempts \in Nat \ {0}
    /\ Declinable \subseteq 1..MaxRotations
    /\ None \notin Nat

Rotations == 1..MaxRotations
Keys == 0..MaxRotations

VARIABLES
    key,        \* key_store.status of each key at the gateway, "" for no row
    used,       \* the keys whose activated_at is set
    recent,     \* the activated key retired last, while the dual-key window lasts, or None
    zak,        \* ActiveKeys.zak, or None while the gateway is down
    rot,        \* key_rotation: its status and how many of its steps are DONE
    phase,      \* Runner.Serve: "down", "recovering", "serving"
    run,        \* the goroutine of the running rotation: its step, rotation, attempts, answer
    wire,       \* 0800s <<k, n>> that the issuer has not read
    handling,   \* copies of them that ReceiveKeyChange has inserted and not activated
    issActive, issRetired,  \* the issuer's key_store
    declined,   \* the keys that the partner declines, every copy of them
    flight,     \* a response on its way: the key it was MACed with and the activations since
    failures, crashes,
    late,       \* history: a copy was activated after the next rotation had begun
    unreloaded, \* history: an activated key was not loaded into memory
    unsaid      \* history: RUNNING rotations that no goroutine is left to end before a restart

gatewayVars == <<key, used, recent, zak, rot, phase, run>>
issuerVars == <<handling, issActive, issRetired, declined>>
historyVars == <<late, unreloaded, unsaid>>
vars == <<gatewayVars, wire, issuerVars, flight, failures, crashes, historyVars>>

Idle == [pc |-> "idle", k |-> 0, n |-> 0, rc |-> ""]
NoFlight == [key |-> None, activations |-> 0]

Init ==
    /\ key = [k \in Keys |-> IF k = 0 THEN "ACTIVE" ELSE ""]
    /\ used = {0} /\ recent = None /\ zak = 0
    /\ rot = [k \in Rotations |-> [status |-> "", done |-> 0]]
    /\ phase = "serving" /\ run = Idle
    /\ wire = {} /\ handling = {} /\ issActive = 0 /\ issRetired = {}
    /\ declined \in SUBSET Declinable
    /\ flight = NoFlight
    /\ failures = 0 /\ crashes = 0
    /\ late = FALSE /\ unreloaded = FALSE /\ unsaid = {}

Works == UNCHANGED failures
Fails == failures < MaxFailures /\ failures' = failures + 1

(***************************************************************************)
(* The gateway's key_store.                                                *)
(***************************************************************************)
ActiveKey == CHOOSE k \in Keys : key[k] = "ACTIVE"
Pending == {k \in Keys : key[k] = "PENDING"}

(* FindPending: the newest one only. *)
FindPending == IF Pending = {} THEN {} ELSE {Max(Pending)}

(* Variant: only the key retired last is a fallback. *)
TriedRetired == {zak, recent} \ {None}

(* The keys Verify tries: the ACTIVE one in memory, then FallbackKeys. *)
Tried == ({zak, recent} \cup FindPending) \ {None}

(* Activate, one transaction: the key in use is retired, and so is every other PENDING one. *)
Activate(k) ==
    /\ key' = [j \in Keys |-> IF j = k THEN "ACTIVE"
                              ELSE IF key[j] \in {"ACTIVE", "PENDING"} THEN "RETIRED" ELSE key[j]]
    /\ recent' = ActiveKey /\ used' = used \cup {k}
    /\ flight' = [flight EXCEPT !.activations = IF flight.key = None THEN 0 ELSE @ + 1]

RetirePending(k) == key' = [key EXCEPT ![k] = IF @ = "PENDING" THEN "RETIRED" ELSE @]

(***************************************************************************)
(* The runner (Start, execute).                                            *)
(***************************************************************************)
At(step) == phase # "down" /\ run.pc = step
Goto(step) == run' = [run EXCEPT !.pc = step]

(* handleStartRotation and Start: one rotation at a time.  The row is committed before it is read
   back for the answer; if the request ends in between, no goroutine starts and the row stays. *)
Start(k) ==
    /\ phase = "serving" /\ run.pc = "idle"
    /\ rot[k].status = "" /\ \A j \in 1..(k - 1) : rot[j].status # ""
    /\ rot' = [rot EXCEPT ![k].status = "RUNNING"]
    /\ \/ run' = [Idle EXCEPT !.pc = "insert", !.k = k] /\ UNCHANGED unsaid
       \/ unsaid' = unsaid \cup {k} /\ UNCHANGED run
    /\ UNCHANGED <<key, used, recent, zak, phase, wire, issuerVars, flight, failures, crashes, late, unreloaded>>

(* runGenerate up to the PENDING row: failStep(0) on an error. *)
Generate ==
    /\ At("insert")
    /\ \/ Works /\ key' = [key EXCEPT ![run.k] = "PENDING"] /\ Goto("generated")
       \/ Fails /\ UNCHANGED key /\ Goto("fail")
    /\ UNCHANGED <<used, recent, zak, rot, phase, wire, issuerVars, flight, crashes, historyVars>>

(* completeStep of each step, DONE or an error: where the error leads decides what becomes of the key. *)
CompleteStep(at, step, next, onError) ==
    /\ At(at)
    /\ \/ Works /\ rot' = [rot EXCEPT ![run.k].done = step] /\ Goto(next)
       \/ Fails /\ rot' \in {rot, [rot EXCEPT ![run.k].done = step]} /\ Goto(onError)
    /\ UNCHANGED <<key, used, recent, zak, phase, wire, issuerVars, flight, crashes, late, unsaid>>
    /\ unreloaded' = (unreloaded \/ (run'.pc = "fail" /\ at = "activated"))

(* SetNewKey and completeStep at the end of runGenerate: nothing has been sent, so the key is retired. *)
Generated == CompleteStep("generated", 1, "send", "retire")

(* runSend0800161: the next attempt, unless the link is down; none left is an unknown outcome. *)
SendAttempt ==
    /\ At("send")
    /\ \/ /\ run.n < SendAttempts
          /\ run' = [run EXCEPT !.n = @ + 1, !.pc = "wait"]
          /\ wire' = wire \cup {<<run.k, run.n + 1>>}
       \/ /\ run.n < SendAttempts
          /\ run' = [run EXCEPT !.n = @ + 1]
          /\ UNCHANGED wire
       \/ run.n = SendAttempts /\ Goto("fail") /\ UNCHANGED wire
    /\ UNCHANGED <<key, used, recent, zak, rot, phase, issuerVars, flight, failures, crashes, historyVars>>

(* The 0810, or the attempt's time is up; RC 96 proves nothing. *)
Answer ==
    /\ At("wait")
    /\ run' = [run EXCEPT !.pc = IF run.rc \in {"", "96"} THEN "send" ELSE "sent",
                          !.rc = IF @ = "96" THEN "" ELSE @]
    /\ UNCHANGED <<key, used, recent, zak, rot, phase, wire, issuerVars, flight, failures, crashes, historyVars>>

Sent == CompleteStep("sent", 2, "confirm", "fail")

(* Variant: any failure from here on retires the key. *)
ConfirmRetiring ==
    IF run.rc = "00" THEN CompleteStep("confirm", 3, "activate", "retire")
    ELSE At("confirm") /\ Goto("retire")
         /\ UNCHANGED <<key, used, recent, zak, rot, phase, wire, issuerVars, flight, failures, crashes, historyVars>>

(* runPartnerConfirm: only a decline retires the key. *)
Confirm ==
    IF run.rc = "00" THEN CompleteStep("confirm", 3, "activate", "fail")
    ELSE At("confirm") /\ Goto("retire")
         /\ UNCHANGED <<key, used, recent, zak, rot, phase, wire, issuerVars, flight, failures, crashes, historyVars>>

(* runActivate's transaction: it commits, it does not, or it does and the error says it does not. *)
ActivateKey ==
    /\ At("activate")
    /\ \/ Works /\ Activate(run.k) /\ Goto("activated") /\ UNCHANGED unreloaded
       \/ Fails /\ Goto("fail") /\ UNCHANGED <<key, used, recent, flight, unreloaded>>
       \/ Fails /\ Goto("fail") /\ Activate(run.k) /\ unreloaded' = TRUE
    /\ UNCHANGED <<zak, rot, phase, wire, issuerVars, crashes, late, unsaid>>

Activated == CompleteStep("activated", 4, "reload", "fail")

(* Variant: the rotation completes with the old key still in memory. *)
ReloadNothing ==
    /\ At("reload")
    /\ Goto("complete")
    /\ UNCHANGED <<key, used, recent, zak, rot, phase, wire, issuerVars, flight, failures, crashes, historyVars>>

(* reloadOnActivate: on an error the key in memory stays. *)
ReloadActive ==
    /\ At("reload")
    /\ \/ Works /\ zak' = ActiveKey /\ unreloaded' = FALSE
       \/ Fails /\ unreloaded' = TRUE /\ UNCHANGED zak
    /\ Goto("complete")
    /\ UNCHANGED <<key, used, recent, rot, phase, wire, issuerVars, flight, crashes, late, unsaid>>

Complete ==
    /\ At("complete")
    /\ \/ Works /\ rot' = [rot EXCEPT ![run.k].status = "COMPLETED"] /\ UNCHANGED unsaid
       \/ Fails /\ unsaid' = unsaid \cup {run.k} /\ UNCHANGED rot
    /\ run' = Idle
    /\ UNCHANGED <<key, used, recent, zak, phase, wire, issuerVars, flight, crashes, late, unreloaded>>

(* failStep: its writes ignore their errors. *)
FailStep ==
    /\ phase # "down" /\ run.pc \in {"fail", "retire"}
    /\ \/ /\ Works
          /\ IF run.pc = "retire" THEN RetirePending(run.k) ELSE UNCHANGED key
          /\ rot' = [rot EXCEPT ![run.k].status = "FAILED"] /\ UNCHANGED unsaid
       \/ /\ Fails
          /\ UNCHANGED key
          /\ \/ rot' = [rot EXCEPT ![run.k].status = "FAILED"] /\ UNCHANGED unsaid
             \/ unsaid' = unsaid \cup {run.k} /\ UNCHANGED rot
    /\ run' = Idle
    /\ UNCHANGED <<used, recent, zak, phase, wire, issuerVars, flight, crashes, late, unreloaded>>

Crash ==
    /\ phase # "down" /\ crashes < MaxCrashes
    /\ crashes' = crashes + 1
    /\ phase' = "down" /\ zak' = None /\ run' = Idle /\ flight' = NoFlight
    /\ unsaid' = {}
    /\ UNCHANGED <<key, used, recent, rot, wire, issuerVars, failures, late, unreloaded>>

(* loadActiveZAK at startup: EnsureActive finds a key ACTIVE and changes nothing. *)
Boot ==
    /\ phase = "down"
    /\ phase' = "recovering" /\ zak' = ActiveKey /\ unreloaded' = FALSE
    /\ UNCHANGED <<key, used, recent, rot, run, wire, issuerVars, flight, failures, crashes, late, unsaid>>

Running == {k \in Rotations : rot[k].status = "RUNNING"}

(* Variant: an interrupted rotation whose steps are all DONE is left alone. *)
RecoverOneSkipping(k) == IF rot[k].done = 4 THEN rot[k] ELSE [rot[k] EXCEPT !.status = "FAILED"]

(* recoverOne: by how far the rotation got. *)
RecoverOne(k) == [rot[k] EXCEPT !.status = IF rot[k].done = 4 THEN "COMPLETED" ELSE "FAILED"]

(* recoverInterrupted; failStep's errors are ignored there too, those of the other writes are not. *)
RecoverInterrupted ==
    /\ phase = "recovering"
    /\ \E left \in SUBSET Running :
          /\ IF left = {} THEN Works ELSE Fails /\ \A k \in left : rot[k].done < 4
          /\ rot' = [k \in Rotations |-> IF k \in Running \ left THEN RecoverOne(k) ELSE rot[k]]
          /\ unsaid' = left
    /\ phase' = "serving"
    /\ UNCHANGED <<key, used, recent, zak, run, wire, issuerVars, flight, crashes, late, unreloaded>>

(***************************************************************************)
(* The issuer (ReceiveKeyChange).  Copies on different connections are     *)
(* handled at the same time, and one may be read late.                     *)
(***************************************************************************)
(* The 0810 finds its attempt still waiting, or it is dropped. *)
Reply(m, rc) ==
    run' = IF run.pc = "wait" /\ <<run.k, run.n>> = m THEN [run EXCEPT !.rc = rc] ELSE run

(* receive up to the PENDING row: a key in use is confirmed again, a retired one never comes back. *)
ReceiveKeyChange(m) ==
    /\ m \in wire
    /\ wire' = wire \ {m}
    /\ \/ m[1] = issActive /\ Reply(m, "00") /\ UNCHANGED <<handling, failures>>
       \/ m[1] \in issRetired /\ m[1] # issActive /\ Reply(m, "96") /\ UNCHANGED <<handling, failures>>
       \/ /\ m[1] \notin {issActive} \cup issRetired \cup declined
          /\ handling' = handling \cup {m}
          /\ UNCHANGED <<run, failures>>
       \/ Fails /\ Reply(m, "96") /\ UNCHANGED handling
       \/ m[1] \in declined /\ Reply(m, "57") /\ UNCHANGED <<handling, failures>>
    /\ UNCHANGED <<key, used, recent, zak, rot, phase, issActive, issRetired, declined, flight, crashes, historyVars>>

IssuerActivate(k) ==
    /\ issActive' = k
    /\ issRetired' = issRetired \cup ({issActive} \ {k})
    /\ late' = (late \/ (k # issActive /\ \E j \in Rotations : j > k /\ rot[j].status # ""))

(* activate with its audit entry, one transaction; a failed one is confirmed if the key is ACTIVE. *)
IssuerActivates(m) ==
    /\ m \in handling
    /\ handling' = handling \ {m}
    /\ \/ Works /\ IssuerActivate(m[1]) /\ Reply(m, "00")
       \/ Fails /\ Reply(m, IF issActive = m[1] THEN "00" ELSE "96") /\ UNCHANGED <<issActive, issRetired, late>>
       \/ Fails /\ IssuerActivate(m[1]) /\ Reply(m, "96")
    /\ UNCHANGED <<key, used, recent, zak, rot, phase, wire, declined, flight, crashes, unreloaded, unsaid>>

(* A message or its handling is lost, with its answer. *)
Lose(m) ==
    /\ m \in wire \cup handling
    /\ wire' = wire \ {m} /\ handling' = handling \ {m}
    /\ UNCHANGED <<gatewayVars, issActive, issRetired, declined, flight, failures, crashes, historyVars>>

(***************************************************************************)
(* Responses and time.                                                     *)
(***************************************************************************)
(* The issuer MACs a response to a purchase with its key (external to ReceiveKeyChange). *)
IssuerMACs ==
    /\ phase # "down" /\ flight = NoFlight
    /\ flight' = [key |-> issActive, activations |-> 0]
    /\ UNCHANGED <<gatewayVars, wire, issuerVars, failures, crashes, historyVars>>

(* The purchase has its response, or has stopped waiting for it. *)
ResponseDone ==
    /\ flight # NoFlight
    /\ flight' = NoFlight
    /\ UNCHANGED <<gatewayVars, wire, issuerVars, failures, crashes, historyVars>>

(* dualKeyWindow, many times longer than a purchase waits, has passed since the last activation. *)
WindowPasses ==
    /\ recent # None
    /\ recent' = None
    /\ flight' = IF flight.activations > 0 THEN NoFlight ELSE flight
    /\ UNCHANGED <<key, used, zak, rot, phase, run, wire, issuerVars, failures, crashes, historyVars>>

RunnerStep ==
    \/ Generate \/ Generated \/ SendAttempt \/ Answer \/ Sent \/ Confirm
    \/ ActivateKey \/ Activated \/ ReloadActive \/ Complete \/ FailStep

Next ==
    \/ RunnerStep \/ Crash \/ Boot \/ RecoverInterrupted
    \/ \E k \in Rotations : Start(k)
    \/ \E m \in wire : ReceiveKeyChange(m)
    \/ \E m \in handling : IssuerActivates(m)
    \/ \E m \in wire \cup handling : Lose(m)
    \/ IssuerMACs \/ ResponseDone \/ WindowPasses

Spec == Init /\ [][Next]_vars

(* The goroutine runs, its exchanges end by their time limit, and a crashed gateway is restarted. *)
FairSpec == Spec /\ WF_vars(RunnerStep) /\ WF_vars(Boot \/ RecoverInterrupted)

(***************************************************************************)
(* Properties.                                                             *)
(***************************************************************************)
(* The gateway never retires the key the issuer uses: not on an unknown outcome, not on an error
   after the 00, not in a crash.  The only way there is a copy of an 0800 that the issuer reads
   after the next rotation has begun.  execute, failStep, recoverOne, Activate. *)
IssuerKeyKept == ~late => key[issActive] \in {"PENDING", "ACTIVE"}

(* What the issuer MACed the gateway can verify, whatever step the rotation is at and wherever it
   failed, but in these cases: the activated key is not in memory yet; an older PENDING key is hidden
   by a newer one, or was retired unused; two activations overtook the response; a copy came late.
   Verify, FallbackKeys, FindRecentlyRetired, Activate, failStep. *)
ResponseVerifies ==
    /\ flight # NoFlight
    /\ zak = ActiveKey /\ (\A j, k \in Pending : j = k) /\ flight.activations < 2 /\ ~late
    /\ flight.key \in used \cup Pending
    => flight.key \in Tried

(* After a completed rotation both hosts use its key, on disk and in memory, until the next
   rotation starts.  execute, onActivate, Complete, recoverOne. *)
CompletedIsShared ==
    \A k \in Rotations :
        /\ rot[k].status = "COMPLETED"
        /\ \A j \in Rotations : j > k => rot[j].status = ""
        /\ ~late
        => key[k] = "ACTIVE" /\ issActive = k /\ (zak \in {k, None} \/ unreloaded)

(* A rotation ends, but in two cases: its outcome could not be written, or the request that started
   it ended before Start had read the new row back, which leaves a row and no goroutine.  After a
   crash the restart settles it, and those left so with it.  Start, runSend0800161, failStep,
   recoverInterrupted. *)
EventuallyDecided ==
    \A k \in Rotations : rot[k].status = "RUNNING" ~> rot[k].status # "RUNNING" \/ k \in unsaid
=============================================================================
