----------------------------- MODULE ChaosProofs -----------------------------
(***************************************************************************)
(* Theorems about Chaos: one run at a time, one run per Idempotency-Key,   *)
(* no change of a run that has ended, verdicts that are true to the money  *)
(* and scenarios that are reported as they are, for any number of cards,   *)
(* keys, purchases, handlers and restarts.                                 *)
(***************************************************************************)
EXTENDS Chaos, FiniteSetTheorems, SequenceTheorems, TLAPS

Ended == {"PASSED", "FAILED"}
Run == [status : {"RUNNING", "VERIFYING"} \cup Ended, failure : {"", "RUN_ERROR", "LEDGER_MISMATCH"},
        requested : Nat, completed : Nat, approved : Nat, reversed : Nat]
Steps == {"idle", "drain before", "opening", "fire", "drain after", "count", "closing"}
Drive == [pc : Steps, read : Nat, total : Int, opening : Int, approved : Int, reversals : Int]

(* The types the argument needs. *)
Typed ==
    /\ runs \in Seq(Run) /\ active \in 0..Len(runs)
    /\ drive \in Drive /\ balance \in [Card -> Int]
    /\ replays \in [Keys -> [size : Sizes, run : Nat] \cup {None}]

(* The goroutine of a run lives as long as the run holds the slot. *)
Driven == drive.pc # "idle" <=> active # 0

(* The keys that started a run. *)
Spent == {k \in Keys : replays[k] # None}

Keyed ==
    /\ Cardinality(Spent) = Len(runs)
    /\ \A k \in Spent : /\ replays[k].run \in 1..Len(runs)
                        /\ replays[k].size = runs[replays[k].run].requested

IInv == Typed /\ Driven /\ OneRun /\ Keyed

(* What FinalKept asks of a step. *)
Kept == \A i \in DOMAIN runs : runs[i].status \in Ended /\ restarts' = restarts => runs'[i] = runs[i]

-----------------------------------------------------------------------------
(* A step that touches neither the runs nor the slot. *)
LEMMA RunsStay ==
    ASSUME IInv, UNCHANGED <<runs, active, replays>>,
           drive' \in Drive, balance' \in [Card -> Int], (drive'.pc = "idle") <=> (drive.pc = "idle")
    PROVE  IInv' /\ Kept
<1>1. Typed' /\ Driven' /\ OneRun' /\ Kept
  BY DEF IInv, Typed, Driven, OneRun, Kept
<1>2. Keyed'
  <2>1. Spent' = Spent
    BY DEF Spent
  <2> QED BY <2>1 DEF IInv, Keyed
<1> QED BY <1>1, <1>2 DEF IInv

(* update: the run in progress is replaced by r, and keeps the slot unless it has ended. *)
LEMMA Updated ==
    ASSUME IInv, active # 0, NEW r \in Run, r.requested = Current.requested, Update(r), UNCHANGED replays,
           drive' \in Drive, balance' \in [Card -> Int], (drive'.pc = "idle") <=> Frees(r)
    PROVE  IInv' /\ Kept
<1>1. /\ runs \in Seq(Run) /\ active \in DOMAIN runs /\ DOMAIN runs = 1..Len(runs)
      /\ runs' = [runs EXCEPT ![active] = r] /\ active' = IF Frees(r) THEN 0 ELSE active
  BY DEF IInv, Typed, Update
<1>2. /\ runs' \in Seq(Run) /\ Len(runs') = Len(runs) /\ DOMAIN runs' = DOMAIN runs
      /\ runs'[active] = r /\ \A i \in DOMAIN runs : i # active => runs'[i] = runs[i]
  BY <1>1
<1>3. active' \in 0..Len(runs') /\ active' \in {0, active}
  BY <1>1, <1>2 DEF IInv, Typed
<1>4. Typed'
  BY <1>2, <1>3 DEF IInv, Typed
<1>5. Frees(r) <=> r.status \in Ended
  BY DEF Frees, Ended
<1>6. active' # 0 <=> ~Frees(r)
  BY <1>1
<1>7. Driven'
  BY <1>6 DEF Driven
<1>8. OneRun'
  <2>1. 0 \notin DOMAIN runs
    BY <1>1
  <2>2. r.status \in {"RUNNING", "VERIFYING"} <=> ~Frees(r)
    BY <1>5, Zenon DEF Run, Ended
  <2> QED BY <2>1, <2>2, <1>1, <1>2 DEF IInv, OneRun
<1>9. Kept
  BY <1>2 DEF IInv, OneRun, Kept, Ended
<1>10. Keyed'
  <2>1. Spent' = Spent
    BY DEF Spent
  <2>2. \A i \in DOMAIN runs : runs'[i].requested = runs[i].requested
    BY <1>2 DEF Current
  <2> QED BY <2>1, <2>2, <1>1, <1>2 DEF IInv, Keyed
<1> QED BY <1>4, <1>7, <1>8, <1>9, <1>10 DEF IInv

(* The goroutine's state, idle, at a new step, and after what its steps assign. *)
LEMMA DriveFields ==
    /\ Idle \in Drive /\ Idle.pc = "idle"
    /\ \A e \in Drive, pc \in Steps : [e EXCEPT !.pc = pc] \in Drive /\ [e EXCEPT !.pc = pc].pc = pc
    /\ \A e \in Drive, n \in Int : [e EXCEPT !.opening = n] \in Drive /\ [e EXCEPT !.opening = n].pc = e.pc
    /\ \A e \in Drive, n \in Int : [e EXCEPT !.reversals = n] \in Drive /\ [e EXCEPT !.reversals = n].pc = e.pc
    /\ \A e \in Drive, n \in Int : [e EXCEPT !.approved = n] \in Drive /\ [e EXCEPT !.approved = n].pc = e.pc
    /\ \A e \in Drive, n \in Nat : [e EXCEPT !.read = n] \in Drive /\ [e EXCEPT !.read = n].pc = e.pc
    /\ \A e \in Drive, n \in Int : [e EXCEPT !.total = n] \in Drive /\ [e EXCEPT !.total = n].pc = e.pc
<1>1. Idle \in Drive /\ Idle.pc = "idle"
  BY DEF Idle, Drive, Steps
<1>2. \A e \in Drive, pc \in Steps : [e EXCEPT !.pc = pc] \in Drive /\ [e EXCEPT !.pc = pc].pc = pc
  BY DEF Drive
<1>3. \A e \in Drive, n \in Int : [e EXCEPT !.opening = n] \in Drive /\ [e EXCEPT !.opening = n].pc = e.pc
  BY DEF Drive
<1>4. \A e \in Drive, n \in Int : [e EXCEPT !.reversals = n] \in Drive /\ [e EXCEPT !.reversals = n].pc = e.pc
  BY DEF Drive
<1>5. \A e \in Drive, n \in Int : [e EXCEPT !.approved = n] \in Drive /\ [e EXCEPT !.approved = n].pc = e.pc
  BY DEF Drive
<1>6. \A e \in Drive, n \in Nat : [e EXCEPT !.read = n] \in Drive /\ [e EXCEPT !.read = n].pc = e.pc
  BY DEF Drive
<1>7. \A e \in Drive, n \in Int : [e EXCEPT !.total = n] \in Drive /\ [e EXCEPT !.total = n].pc = e.pc
  BY DEF Drive
<1> QED BY <1>1, <1>2, <1>3, <1>4, <1>5, <1>6, <1>7

(* The run in progress. *)
LEMMA CurrentRun ==
    ASSUME IInv, active # 0
    PROVE  Current \in Run /\ Current.status \in {"RUNNING", "VERIFYING"}
<1>1. runs \in Seq(Run) /\ active \in 1..Len(runs)
  BY DEF IInv, Typed
<1>2. active \in DOMAIN runs /\ runs[active] \in Run
  BY <1>1
<1> QED BY <1>2 DEF IInv, OneRun, Current

(* A run ends: its verdict, an error, or its time limit. *)
LEMMA EndStep ==
    ASSUME IInv, active # 0, NEW st \in Ended, NEW why \in {"", "RUN_ERROR", "LEDGER_MISMATCH"},
           Update([Current EXCEPT !.status = st, !.failure = why]), drive' = Idle,
           balance' \in [Card -> Int], UNCHANGED replays
    PROVE  IInv' /\ Kept
<1> DEFINE r == [Current EXCEPT !.status = st, !.failure = why]
<1>1. Current \in Run
  BY CurrentRun, Zenon
<1>2. r \in Run /\ r.requested = Current.requested /\ r.status = st
  BY <1>1, Zenon DEF Run, Ended
<1>3. Frees(r)
  BY <1>2, Zenon DEF Frees, Ended
<1>4. drive' \in Drive /\ drive'.pc = "idle"
  BY DriveFields, Zenon
<1> HIDE DEF r
<1>5. Update(r)
  BY Zenon DEF r
<1> QED BY <1>2, <1>3, <1>4, <1>5, Updated, Zenon

(* handleStartChaosRun: a key not yet spent takes the free slot. *)
LEMMA StartStep ==
    ASSUME IInv, NEW k \in Keys, NEW size \in Sizes, StartRun(k, size)
    PROVE  IInv' /\ Kept
<1>1. /\ replays[k] = None /\ active = 0 /\ runs' = Append(runs, NewRun(size)) /\ active' = Len(runs')
      /\ drive' = [Idle EXCEPT !.pc = "drain before"] /\ balance' = balance
      /\ replays' = [replays EXCEPT ![k] = [size |-> size, run |-> active']]
  BY Zenon DEF StartRun, Known, moneyVars
<1>2. size \in Nat
  BY ChaosAssumption
<1>3. NewRun(size) \in Run /\ NewRun(size).status = "RUNNING" /\ NewRun(size).requested = size
  BY <1>2 DEF NewRun, Run, Ended
<1>4. runs \in Seq(Run) /\ Len(runs) \in Nat /\ DOMAIN runs = 1..Len(runs)
  BY DEF IInv, Typed
<1> DEFINE n == Len(runs) + 1
<1>5. /\ runs' \in Seq(Run) /\ Len(runs') = n /\ DOMAIN runs' = 1..n
      /\ \A i \in 1..Len(runs) : runs'[i] = runs[i]
      /\ runs'[n] = NewRun(size)
  <2> DEFINE new == NewRun(size)
  <2>1. new \in Run /\ runs' = Append(runs, new)
    BY <1>1, <1>3, Zenon
  <2> HIDE DEF new
  <2>2. /\ Append(runs, new) \in Seq(Run) /\ Len(Append(runs, new)) = Len(runs) + 1
        /\ \A i \in 1..Len(runs) : Append(runs, new)[i] = runs[i]
        /\ Append(runs, new)[Len(runs) + 1] = new
    BY <2>1, <1>4, AppendProperties
  <2>3. runs' \in Seq(Run) /\ Len(runs') = n /\ runs'[n] = new /\ \A i \in 1..Len(runs) : runs'[i] = runs[i]
    BY <2>1, <2>2
  <2>4. \A q \in Seq(Run) : DOMAIN q = 1..Len(q)
    OBVIOUS
  <2>5. DOMAIN runs' = 1..n
    BY <2>3, <2>4, Zenon
  <2> QED BY <2>3, <2>5 DEF new
<1>6. n \in Nat /\ n # 0 /\ n \notin 1..Len(runs) /\ 1..n = 1..Len(runs) \cup {n} /\ n \in 0..n /\ 0 \notin 1..Len(runs)
  <2>1. \A m \in Nat : /\ m + 1 \in Nat /\ m + 1 # 0 /\ m + 1 \notin 1..m /\ 1..(m + 1) = (1..m) \cup {m + 1}
                       /\ m + 1 \in 0..(m + 1) /\ 0 \notin 1..m
    OBVIOUS
  <2> QED BY <2>1, <1>4
<1> HIDE DEF n
<1>7. active' = n
  BY <1>1, <1>5, Zenon
<1>8. drive' \in Drive /\ drive'.pc = "drain before"
  <2>1. "drain before" \in Steps
    BY DEF Steps
  <2> QED BY <1>1, <2>1, DriveFields, ZenonT(30)
<1>9. /\ replays' \in [Keys -> [size : Sizes, run : Nat] \cup {None}]
      /\ replays'[k] = [size |-> size, run |-> n] /\ replays'[k] # None
      /\ \A j \in Keys : j # k => replays'[j] = replays[j]
  <2>1. [size |-> size, run |-> n] \in [size : Sizes, run : Nat]
    BY <1>6
  <2>2. [size |-> size, run |-> n] # None
    BY <2>1, ChaosAssumption
  <2> QED BY <2>1, <2>2, <1>1, <1>7, Zenon DEF IInv, Typed
<1>10. Typed'
  BY <1>1, <1>5, <1>6, <1>7, <1>8, <1>9, Zenon DEF IInv, Typed
<1>11. Driven'
  BY <1>6, <1>7, <1>8, Zenon DEF Driven
<1>12. OneRun'
  BY <1>1, <1>3, <1>4, <1>5, <1>6, <1>7, Zenon DEF IInv, OneRun
<1>13. Kept
  BY <1>4, <1>5 DEF Kept
<1>14. Spent' = Spent \cup {k} /\ k \notin Spent
  BY <1>1, <1>9, Zenon DEF Spent
<1>15. Cardinality(Spent') = n
  <2>1. IsFiniteSet(Spent)
    BY ChaosAssumption, FS_Subset DEF Spent
  <2>2. Cardinality(Spent \cup {k}) = Cardinality(Spent) + 1
    BY <2>1, <1>14, FS_AddElement, Zenon
  <2> QED BY <2>2, <1>14 DEF IInv, Keyed, n
<1>16. Keyed'
  <2>1. replays'[k].run = n /\ replays'[k].size = runs'[n].requested /\ n \in 1..n
    BY <1>3, <1>5, <1>6, <1>9
  <2>2. ASSUME NEW j \in Spent
        PROVE  replays'[j].run \in 1..n /\ replays'[j].size = runs'[replays'[j].run].requested
    <3>1. replays'[j] = replays[j]
      BY <1>9, <1>14 DEF Spent
    <3>2. replays[j].run \in 1..Len(runs) /\ replays[j].size = runs[replays[j].run].requested
      BY DEF IInv, Keyed
    <3> QED BY <3>1, <3>2, <1>5, <1>6
  <2> QED BY <2>1, <2>2, <1>5, <1>14, <1>15 DEF Keyed
<1> QED BY <1>10, <1>11, <1>12, <1>13, <1>16 DEF IInv

-----------------------------------------------------------------------------
(* The goroutine waits, reads a balance or moves on; the run's report stays as it is. *)
LEMMA QuietSteps ==
    ASSUME IInv, DrainBefore \/ DrainAfter \/ ReadOpening \/ ReadClosing \/ Opened \/ Counted
    PROVE  IInv' /\ Kept
<1>1. drive \in Drive /\ balance \in [Card -> Int]
  BY DEF IInv, Typed
<1>2. {"opening", "fire", "count", "closing"} \subseteq Steps
  BY DEF Steps
<1>3. UNCHANGED <<runs, active, replays, balance>>
  BY Zenon DEF DrainBefore, DrainAfter, WaitForSafDrain, ReadOpening, ReadClosing, ReadCard, Opened, Counted, moneyVars
<1>4. drive' \in Drive /\ drive.pc # "idle" /\ drive'.pc # "idle"
  <2>1. CASE DrainBefore
    BY <2>1, <1>1, <1>2, DriveFields, Zenon DEF DrainBefore, WaitForSafDrain
  <2>2. CASE DrainAfter
    BY <2>2, <1>1, <1>2, DriveFields, Zenon DEF DrainAfter, WaitForSafDrain
  <2>3. CASE Counted
    BY <2>3, <1>1, <1>2, DriveFields DEF Counted
  <2>4. CASE Opened
    <3>1. drive' = [[Idle EXCEPT !.pc = "fire"] EXCEPT !.opening = drive.total] /\ drive.pc = "opening"
      BY <2>4 DEF Opened
    <3>2. drive.total \in Int
      BY <1>1 DEF Drive
    <3>3. [Idle EXCEPT !.pc = "fire"] \in Drive /\ [Idle EXCEPT !.pc = "fire"].pc = "fire"
      BY <1>2, DriveFields
    <3> DEFINE e == [Idle EXCEPT !.pc = "fire"]
    <3> HIDE DEF e
    <3>4. drive' = [e EXCEPT !.opening = drive.total] /\ e \in Drive /\ e.pc = "fire"
      BY <3>1, <3>3 DEF e
    <3>5. drive' \in Drive /\ drive'.pc = "fire"
      BY <3>2, <3>4, DriveFields
    <3> QED BY <3>5, <2>4 DEF Opened
  <2>5. ASSUME ReadCard, drive.pc # "idle" PROVE drive' \in Drive /\ drive'.pc # "idle"
    <3> DEFINE c == Cards[drive.read + 1]
    <3>1. drive.read \in Nat /\ drive.total \in Int
      BY <1>1 DEF Drive
    <3>2. drive.read + 1 \in Nat /\ drive.read + 1 \in DOMAIN Cards
      <4>1. drive.read < Len(Cards)
        BY <2>5 DEF ReadCard
      <4> QED BY <4>1, <3>1, ChaosAssumption
    <3>3. c \in Card
      BY <3>2 DEF Card
    <3>4. balance[c] \in Int
      BY <3>3, <1>1
    <3>5. drive' = [[drive EXCEPT !.read = drive.read + 1] EXCEPT !.total = drive.total + balance[c]]
      BY <2>5 DEF ReadCard
    <3> HIDE DEF c
    <3>6. drive.total + balance[c] \in Int
      BY <3>1, <3>4
    <3> DEFINE e == [drive EXCEPT !.read = drive.read + 1]
    <3>7. e \in Drive /\ e.pc = drive.pc
      BY <3>2, <1>1, DriveFields
    <3>8. drive' = [e EXCEPT !.total = drive.total + balance[c]]
      BY <3>5
    <3> HIDE DEF e
    <3> QED BY <3>6, <3>7, <3>8, <2>5, DriveFields
  <2>6. CASE ReadOpening \/ ReadClosing
    BY <2>5, <2>6 DEF ReadOpening, ReadClosing
  <2> QED BY <2>1, <2>2, <2>3, <2>4, <2>6
<1> QED BY <1>1, <1>3, <1>4, RunsStay

(* A purchase moves the balance of its card, if it moves any. *)
LEMMA PurchaseBalance ==
    ASSUME balance \in [Card -> Int], NEW c \in Card, NEW o, Purchase(c, o)
    PROVE  balance' \in [Card -> Int]
<1>1. balance' = IF Books(o) THEN [balance EXCEPT ![c] = @ - 1] ELSE balance
  BY Zenon DEF Purchase
<1> QED BY <1>1

(* A purchase is reported. *)
LEMMA FireStep ==
    ASSUME IInv, NEW c \in Card, NEW o \in Outcomes, Fire(c, o)
    PROVE  IInv' /\ Kept
<1>1. drive \in Drive /\ balance \in [Card -> Int] /\ drive.pc = "fire" /\ active # 0
  BY DEF IInv, Typed, Driven, Fire
<1> DEFINE r == [Current EXCEPT !.completed = @ + 1, !.approved = IF o = "approved" THEN @ + 1 ELSE @]
<1>2. Current \in Run /\ Current.status \in {"RUNNING", "VERIFYING"}
  BY <1>1, CurrentRun
<1>3. r \in Run /\ r.requested = Current.requested /\ r.status = Current.status
  <2>0. Current.completed \in Nat /\ Current.approved \in Nat
    BY <1>2, Zenon DEF Run
  <2>1. Current.completed + 1 \in Nat /\ Current.approved + 1 \in Nat
    BY <2>0
  <2>2. \A x, y \in Nat : LET q == [Current EXCEPT !.completed = x, !.approved = y]
                          IN  q \in Run /\ q.requested = Current.requested /\ q.status = Current.status
    BY <1>2, Zenon DEF Run
  <2>3. (IF o = "approved" THEN Current.approved + 1 ELSE Current.approved) \in Nat
    BY <2>0, <2>1
  <2> QED BY <2>1, <2>2, <2>3, Zenon
<1>4. Update(r) /\ UNCHANGED replays
  BY DEF Fire
<1> HIDE DEF r
<1>5. ~Frees(r)
  BY <1>2, <1>3 DEF Frees
<1>6. drive' \in Drive /\ drive'.pc = "fire"
  <2> DEFINE x == IF Counts(o) THEN drive.approved + 1 ELSE drive.approved
             y == IF ReversalQueued(o) THEN drive.reversals + 1 ELSE drive.reversals
  <2>1. x \in Int /\ y \in Int
    BY <1>1 DEF Drive
  <2>2. drive' = [[drive EXCEPT !.approved = x] EXCEPT !.reversals = y]
    BY DEF Fire
  <2> DEFINE e == [drive EXCEPT !.approved = x]
  <2> HIDE DEF x, y
  <2>3. e \in Drive /\ e.pc = drive.pc
    BY <2>1, <1>1, DriveFields
  <2>4. drive' = [e EXCEPT !.reversals = y]
    BY <2>2
  <2> HIDE DEF e
  <2> QED BY <2>1, <2>3, <2>4, <1>1, DriveFields
<1>7. balance' \in [Card -> Int]
  BY <1>1, PurchaseBalance, Zenon DEF Fire
<1> QED BY <1>1, <1>3, <1>4, <1>5, <1>6, <1>7, Updated

(* The firing is over, and the reversals of the run are looked up. *)
LEMMA ReportSteps ==
    ASSUME IInv, Fired \/ CountReversed
    PROVE  IInv' /\ Kept
<1>1. drive \in Drive /\ balance' \in [Card -> Int] /\ drive.pc \in {"fire", "count"} /\ active # 0 /\ UNCHANGED replays
  BY Zenon DEF IInv, Typed, Driven, Fired, CountReversed, moneyVars
<1>2. Current \in Run /\ Current.status \in {"RUNNING", "VERIFYING"}
  BY <1>1, CurrentRun
<1>3. drive' \in Drive /\ drive'.pc # "idle"
  <2>1. CASE Fired
    <3>1. "drain after" \in Steps
      BY DEF Steps
    <3> QED BY <2>1, <3>1, <1>1, DriveFields, Zenon DEF Fired
  <2>2. CASE CountReversed
    <3>1. drive.reversals \in Int
      BY <1>1 DEF Drive
    <3>2. drive.reversals - 1 \in Int
      BY <3>1
    <3>3. drive' = [drive EXCEPT !.reversals = drive.reversals - 1]
      BY <2>2 DEF CountReversed
    <3> QED BY <3>2, <3>3, <1>1, DriveFields
  <2> QED BY <2>1, <2>2
<1>4. \A q \in Run : q.status \in {"RUNNING", "VERIFYING"} => ~Frees(q)
  BY DEF Frees
<1>5. CASE Fired
  <2> DEFINE r == [Current EXCEPT !.status = "VERIFYING"]
  <2>1. r \in Run /\ r.requested = Current.requested /\ r.status = "VERIFYING"
    BY <1>2, Zenon DEF Run
  <2>2. Update(r)
    BY <1>5, Zenon DEF Fired
  <2> HIDE DEF r
  <2>3. ~Frees(r)
    BY <1>4, <2>1
  <2> QED BY <2>1, <2>2, <2>3, <1>1, <1>3, Updated
<1>6. CASE CountReversed
  <2> DEFINE r == [Current EXCEPT !.reversed = @ + 1]
  <2>1. Update(r) \/ UNCHANGED <<runs, active>>
    BY <1>6 DEF CountReversed
  <2>2. r \in Run /\ r.requested = Current.requested /\ r.status = Current.status
    <3>0. Current.reversed \in Nat
      BY <1>2, Zenon DEF Run
    <3>1. Current.reversed + 1 \in Nat
      BY <3>0
    <3>2. \A x \in Nat : LET q == [Current EXCEPT !.reversed = x]
                         IN  q \in Run /\ q.requested = Current.requested /\ q.status = Current.status
      BY <1>2, Zenon DEF Run
    <3> QED BY <3>1, <3>2
  <2> HIDE DEF r
  <2>3. ~Frees(r)
    BY <1>2, <1>4, <2>2
  <2>4. CASE Update(r)
    BY <2>2, <2>3, <2>4, <1>1, <1>3, Updated
  <2>5. CASE UNCHANGED <<runs, active>>
    BY <2>5, <1>1, <1>3, RunsStay
  <2> QED BY <2>1, <2>4, <2>5
<1> QED BY <1>5, <1>6

(* Every step of a run's goroutine. *)
LEMMA DriveSteps ==
    ASSUME IInv, DriveStep
    PROVE  IInv' /\ Kept
<1>1. CASE DrainBefore \/ DrainAfter \/ ReadOpening \/ ReadClosing \/ Opened \/ Counted
  BY <1>1, QuietSteps
<1>2. CASE Fired \/ CountReversed
  BY <1>2, ReportSteps
<1>3. ASSUME NEW c \in Card, NEW o \in Outcomes, Fire(c, o) PROVE IInv' /\ Kept
  BY <1>3, FireStep
<1>4. ASSUME NEW c \in Card, NEW o \in Outcomes, FireFails(c, o) PROVE IInv' /\ Kept
  <2>1. active # 0 /\ balance' \in [Card -> Int]
    BY <1>4, PurchaseBalance, Zenon DEF IInv, Typed, Driven, FireFails
  <2>2. "FAILED" \in Ended
    BY DEF Ended
  <2> QED BY <1>4, <2>1, <2>2, EndStep, Zenon DEF FireFails
<1>5. CASE Verify
  <2>1. active # 0 /\ balance' \in [Card -> Int]
    BY <1>5 DEF IInv, Typed, Driven, Verify, moneyVars
  <2>2. {"PASSED", "FAILED"} \subseteq Ended
    BY DEF Ended
  <2>3. (IF Discrepancy = 0 THEN "PASSED" ELSE "FAILED") \in Ended
    BY <2>2
  <2>4. (IF Discrepancy = 0 THEN "" ELSE "LEDGER_MISMATCH") \in {"", "RUN_ERROR", "LEDGER_MISMATCH"}
    OBVIOUS
  <2> QED BY <1>5, <2>1, <2>3, <2>4, EndStep, Zenon DEF Verify
<1> QED BY <1>1, <1>2, <1>3, <1>4, <1>5 DEF DriveStep

(* A restart forgets every run and every key. *)
LEMMA RestartStep ==
    ASSUME IInv, Restart
    PROVE  IInv' /\ Kept
<1>1. /\ runs' = <<>> /\ active' = 0 /\ drive' = Idle /\ balance' = balance
      /\ replays' = [k \in Keys |-> None]
  BY Zenon DEF Restart, moneyVars
<1>2. Kept
  <2>1. restarts' # restarts
    <3>1. restarts' = restarts + 1 /\ restarts < MaxRestarts
      BY Zenon DEF Restart
    <3> QED BY <3>1
  <2> QED BY <2>1 DEF Kept
<1>3. Typed' /\ Driven' /\ OneRun'
  <2>1. runs' \in Seq(Run) /\ Len(runs') = 0 /\ DOMAIN runs' = {}
    BY <1>1
  <2>2. active' \in 0..Len(runs')
    BY <1>1, <2>1
  <2> QED BY <1>1, <2>1, <2>2, DriveFields DEF IInv, Typed, Driven, OneRun
<1>4. Keyed'
  <2>1. Spent' = {}
    BY <1>1 DEF Spent
  <2>2. Cardinality({}) = 0
    BY FS_EmptySet
  <2> QED BY <1>1, <2>1, <2>2 DEF Keyed
<1> QED BY <1>2, <1>3, <1>4 DEF IInv

(* Every step preserves the invariant and changes no run that has ended. *)
LEMMA InductiveStep == IInv /\ [Next]_vars => IInv' /\ Kept
<1> SUFFICES ASSUME IInv, [Next]_vars PROVE IInv' /\ Kept
  OBVIOUS
<1>0. drive \in Drive /\ balance \in [Card -> Int]
  BY DEF IInv, Typed
<1>1. CASE DriveStep
  BY <1>1, DriveSteps
<1>2. CASE FailRun
  <2>1. active # 0 /\ balance' \in [Card -> Int] /\ "FAILED" \in Ended
    BY <1>2, <1>0 DEF FailRun, moneyVars, Ended
  <2> QED BY <1>2, <2>1, EndStep, Zenon DEF FailRun
<1>3. CASE \E c \in Card : SafStep(c)
  <2>1. PICK c \in Card : SafStep(c)
    BY <1>3, Zenon
  <2>2. UNCHANGED <<runs, active, replays, drive>>
    BY <2>1, Zenon DEF SafStep, SafMisses, BooksLate, SafAcked, SafDead, runVars
  <2>3. \/ balance' = balance
        \/ balance' = [balance EXCEPT ![c] = @ + 1]
        \/ balance' = [balance EXCEPT ![c] = @ - 1]
    BY <2>1, Zenon DEF SafStep, SafMisses, BooksLate, SafAcked, SafDead
  <2>4. balance' \in [Card -> Int]
    BY <1>0, <2>3
  <2> QED BY <2>2, <2>4, <1>0, RunsStay
<1>4. CASE Restart
  BY <1>4, RestartStep
<1>5. CASE \E k \in Keys, size \in Sizes : StartRun(k, size)
  BY <1>5, StartStep
<1>6. CASE \E h \in Handlers : PutStep(h) \/ \E id \in Scenarios, enabled \in BOOLEAN : PutArrives(h, id, enabled)
  <2>1. UNCHANGED <<runs, active, replays, drive, balance>>
    BY <1>6, Zenon DEF PutStep, SetToxic, CurrentUpstream, UpdateUpstream, NoteState, PutArrives, runVars, moneyVars
  <2> QED BY <2>1, <1>0, RunsStay
<1>7. CASE UNCHANGED vars
  <2>1. UNCHANGED <<runs, active, replays, drive, balance>>
    BY <1>7 DEF vars, runVars, moneyVars
  <2> QED BY <2>1, <1>0, RunsStay
<1> QED BY <1>1, <1>2, <1>3, <1>4, <1>5, <1>6, <1>7 DEF Next

(* The initial state satisfies it. *)
LEMMA InductiveInit == Init => IInv
<1> SUFFICES ASSUME Init PROVE IInv
  OBVIOUS
<1>1. runs = <<>> /\ active = 0 /\ drive = Idle /\ replays = [k \in Keys |-> None] /\ balance = [c \in Card |-> 0]
  BY Zenon DEF Init
<1>2. runs \in Seq(Run) /\ Len(runs) = 0 /\ DOMAIN runs = {} /\ active \in 0..Len(runs)
  BY <1>1
<1>3. balance \in [Card -> Int] /\ replays \in [Keys -> [size : Sizes, run : Nat] \cup {None}]
  BY <1>1
<1>4. Typed /\ Driven /\ OneRun
  BY <1>1, <1>2, <1>3, DriveFields DEF Typed, Driven, OneRun
<1>5. Keyed
  <2>1. Spent = {}
    BY <1>1 DEF Spent
  <2>2. Cardinality({}) = 0
    BY FS_EmptySet
  <2> QED BY <1>2, <2>1, <2>2 DEF Keyed
<1> QED BY <1>4, <1>5 DEF IInv

(* The invariant holds of every behaviour. *)
THEOREM Inductive == Spec => []IInv
BY InductiveInit, InductiveStep, PTL DEF Spec

(* The slot of the runner is held by the one run in progress (Start, update, failRun). *)
THEOREM OneRunAtATime == Spec => []OneRun
<1>1. IInv => OneRun
  BY DEF IInv
<1> QED BY <1>1, Inductive, PTL

(* A key starts one run, the one its replays report (handleStartChaosRun, runReplays). *)
THEOREM RetriesStartNothing == Spec => []KeyStartsOnce
<1>1. IInv => KeyStartsOnce
  BY DEF IInv, Keyed, Spent, KeyStartsOnce
<1> QED BY <1>1, Inductive, PTL

(* A run that has ended is never changed (update, failRun). *)
THEOREM EndedRunsStay == Spec => FinalKept
<1>1. IInv /\ [Next]_vars =>
        [\A i \in DOMAIN runs :
            runs[i].status \in {"PASSED", "FAILED"} /\ restarts' = restarts => runs'[i] = runs[i]]_vars
  BY InductiveStep DEF Kept, Ended
<1> QED BY <1>1, Inductive, PTL DEF Spec, FinalKept

-----------------------------------------------------------------------------
(* A PUT of DROP_RESPONSE under way, and one that has done all but note the new state. *)
Dropping(h) == put[h].pc # "idle" /\ put[h].id = "DROP_RESPONSE"
Noting(h) == put[h].pc = "note" /\ put[h].id = "DROP_RESPONSE"

Put == [pc : {"idle", "toxic", "ask", "update", "note"}, id : Scenarios, enabled : BOOLEAN]

PutTyped ==
    /\ put \in [Handlers -> Put]
    /\ upstream \in {"issuer", "fake"} /\ real \in {"", "issuer"}
    /\ \A h \in Handlers : put[h].pc \in {"ask", "update"} => put[h].id = "DROP_RESPONSE"

(* The proxy drops responses only while the client remembers the address to restore, and the list
   of scenarios lags behind the proxy only until the one PUT under way notes what it has done. *)
Routed ==
    /\ \A g, h \in Handlers : Dropping(g) /\ Dropping(h) => g = h
    /\ upstream = "fake" => real = "issuer"
    /\ \A h \in Handlers : put[h].pc = "ask" => real = "" /\ put[h].enabled
    /\ \A h \in Handlers : put[h].pc = "update" => real = "issuer"
    /\ \A h \in Handlers : Noting(h) => (put[h].enabled <=> upstream = "fake")
    /\ (\A h \in Handlers : ~Noting(h)) => ("DROP_RESPONSE" \in local <=> upstream = "fake")

RouteInv == ~excused => PutTyped /\ Routed

(* A handler moves on to its next step, or is done. *)
LEMMA SetPutFields ==
    ASSUME put \in [Handlers -> Put], NEW h \in Handlers, NEW step \in {"idle", "update", "note"}, SetPut(h, step)
    PROVE  /\ put' \in [Handlers -> Put]
           /\ put'[h].pc = step
           /\ step # "idle" => put'[h].id = put[h].id /\ put'[h].enabled = put[h].enabled
           /\ \A g \in Handlers : g # h => put'[g] = put[g]
<1>1. NoPut \in Put /\ NoPut.pc = "idle"
  BY DEF NoPut, Put, Scenarios
<1>2. \A q \in Put : LET r == [q EXCEPT !.pc = step] IN r \in Put /\ r.pc = step /\ r.id = q.id /\ r.enabled = q.enabled
  BY DEF Put
<1>3. put' = [put EXCEPT ![h] = IF step = "idle" THEN NoPut ELSE [put[h] EXCEPT !.pc = step]]
  BY DEF SetPut
<1> QED BY <1>1, <1>2, <1>3

(* setDropResponse starts from what the client remembers of the real address. *)
LEMMA ArrivalStep ==
    ASSUME RouteInv, NEW h \in Handlers, NEW id \in Scenarios, NEW enabled \in BOOLEAN, PutArrives(h, id, enabled)
    PROVE  RouteInv'
<1> SUFFICES ASSUME ~excused' PROVE PutTyped' /\ Routed'
  BY DEF RouteInv
<1>1. /\ ~excused /\ put[h].pc = "idle" /\ UNCHANGED <<upstream, real, local>>
      /\ id = "DROP_RESPONSE" => \A g \in Handlers \ {h} : ~Dropping(g)
  BY DEF PutArrives, proxyVars, Dropping
<1>2. PutTyped /\ Routed
  BY <1>1 DEF RouteInv
<1> DEFINE new == [pc |-> FirstStep(id, enabled), id |-> id, enabled |-> enabled]
<1>3. /\ FirstStep(id, enabled) \in {"toxic", "ask", "update", "note"}
      /\ FirstStep(id, enabled) \in {"ask", "update"} => id = "DROP_RESPONSE"
      /\ FirstStep(id, enabled) = "ask" => real = "" /\ enabled
      /\ FirstStep(id, enabled) = "update" => real # ""
      /\ FirstStep(id, enabled) = "note" /\ id = "DROP_RESPONSE" => real = "" /\ ~enabled
  BY Zenon DEF FirstStep, Scenarios, Toxic
<1>4. put' = [put EXCEPT ![h] = new]
  BY DEF PutArrives
<1>5. /\ put' \in [Handlers -> Put] /\ put'[h] = new
      /\ new.pc = FirstStep(id, enabled) /\ new.id = id /\ new.enabled = enabled
      /\ \A g \in Handlers : g # h => put'[g] = put[g]
  BY <1>2, <1>3, <1>4, Zenon DEF PutTyped, Put
<1> HIDE DEF new
<1>6. PutTyped'
  BY <1>1, <1>2, <1>3, <1>5, Zenon DEF PutTyped, Put
<1>7. Routed'
  <2>1. \A g \in Handlers : g # h => (Dropping(g)' <=> Dropping(g)) /\ (Noting(g)' <=> Noting(g))
    BY <1>5 DEF Dropping, Noting
  <2>2. Dropping(h)' => id = "DROP_RESPONSE"
    BY <1>5 DEF Dropping
  <2>3. \A g1, g2 \in Handlers : Dropping(g1)' /\ Dropping(g2)' => g1 = g2
    BY <1>1, <1>2, <2>1, <2>2, Zenon DEF Routed
  <2>4. ~Noting(h) /\ (Noting(h)' => (upstream # "fake" /\ ~enabled))
    BY <1>1, <1>2, <1>3, <1>5, Zenon DEF Noting, Routed
  <2>5. \A g \in Handlers : Noting(g)' => (put'[g].enabled <=> upstream' = "fake")
    BY <1>1, <1>2, <1>5, <2>1, <2>4, Zenon DEF Routed
  <2>6. (\A g \in Handlers : ~Noting(g)') => ("DROP_RESPONSE" \in local' <=> upstream' = "fake")
    BY <1>1, <1>2, <2>1, <2>4, Zenon DEF Routed
  <2>7. \A g \in Handlers : (put'[g].pc = "ask" => real' = "" /\ put'[g].enabled)
                            /\ (put'[g].pc = "update" => real' = "issuer")
    BY <1>1, <1>2, <1>3, <1>5, Zenon DEF Routed, PutTyped
  <2> QED BY <1>1, <1>2, <2>3, <2>5, <2>6, <2>7, Zenon DEF Routed
<1> QED BY <1>6, <1>7

(* The calls of a PUT to the proxy, each of which may fail, and the note it makes at the end. *)
LEMMA PutSteps ==
    ASSUME RouteInv, NEW h \in Handlers, PutStep(h)
    PROVE  RouteInv'
<1> SUFFICES ASSUME ~excused' PROVE PutTyped' /\ Routed'
  BY DEF RouteInv
<1>1. ~excused
  BY DEF PutStep, SetToxic, CurrentUpstream, UpdateUpstream, NoteState
<1>2. PutTyped /\ Routed /\ put \in [Handlers -> Put]
  BY <1>1, Zenon DEF RouteInv, PutTyped
<1>3. ASSUME NEW step \in {"idle", "update", "note"}, SetPut(h, step)
      PROVE  /\ put' \in [Handlers -> Put] /\ put'[h].pc = step
             /\ step # "idle" => put'[h].id = put[h].id /\ put'[h].enabled = put[h].enabled
             /\ \A g \in Handlers : g # h => /\ put'[g] = put[g]
                                             /\ Dropping(g)' <=> Dropping(g)
                                             /\ Noting(g)' <=> Noting(g)
  BY <1>2, <1>3, SetPutFields DEF Dropping, Noting
<1>4. CASE SetToxic(h)
  <2>1. put[h].pc = "toxic" /\ SetPut(h, "idle") /\ UNCHANGED <<upstream, real, local>>
    BY <1>4 DEF SetToxic
  <2>2. PutTyped'
    BY <1>2, <1>3, <2>1, Zenon DEF PutTyped
  <2>3. ~Noting(h) /\ ~Dropping(h)' /\ ~Noting(h)'
    BY <1>3, <2>1 DEF Noting, Dropping
  <2>4. \A g \in Handlers : /\ Dropping(g)' => Dropping(g)
                            /\ Noting(g)' <=> Noting(g)
                            /\ Noting(g) => put'[g] = put[g]
                            /\ put'[g].pc \in {"ask", "update"} => put'[g] = put[g]
    BY <1>3, <2>1, <2>3
  <2>5. Routed'
    BY <1>2, <2>1, <2>4, Zenon DEF Routed
  <2> QED BY <2>2, <2>5
<1>5. CASE CurrentUpstream(h)
  <2>1. /\ put[h].pc = "ask" /\ UNCHANGED <<upstream, local>>
        /\ \/ real' = upstream /\ SetPut(h, "update")
           \/ UNCHANGED real /\ SetPut(h, "idle")
    BY <1>5 DEF CurrentUpstream, proxyVars
  <2>2. Dropping(h) /\ real = "" /\ upstream = "issuer" /\ \A g \in Handlers : g # h => ~Dropping(g)
    BY <1>2, <2>1, Zenon DEF PutTyped, Routed, Dropping
  <2>3. PutTyped'
    BY <1>2, <1>3, <2>1, <2>2, Zenon DEF PutTyped, Dropping
  <2>4. ~Noting(h) /\ ~Noting(h)' /\ \A g \in Handlers : ~Noting(g) /\ ~Noting(g)'
    BY <1>3, <2>1, <2>2, Zenon DEF Noting, Dropping
  <2>5. \A g \in Handlers : g # h => put'[g].pc \notin {"ask", "update"}
    BY <1>2, <1>3, <2>1, <2>2, Zenon DEF PutTyped, Dropping
  <2> QED BY <1>2, <1>3, <2>1, <2>2, <2>3, <2>4, <2>5, Zenon DEF Routed
<1>6. CASE UpdateUpstream(h)
  <2>1. /\ put[h].pc = "update" /\ UNCHANGED <<real, local>>
        /\ \/ upstream' = (IF put[h].enabled THEN "fake" ELSE real) /\ SetPut(h, "note")
           \/ UNCHANGED upstream /\ SetPut(h, "idle")
    BY <1>6 DEF UpdateUpstream
  <2>2. Dropping(h) /\ real = "issuer" /\ \A g \in Handlers : g # h => ~Dropping(g)
    BY <1>2, <2>1, Zenon DEF PutTyped, Routed, Dropping
  <2>3. PutTyped'
    BY <1>2, <1>3, <2>1, <2>2 DEF PutTyped, Dropping
  <2>4. \A g \in Handlers : ~Noting(g) /\ (g # h => ~Noting(g)' /\ put'[g].pc \notin {"ask", "update"})
    BY <1>2, <1>3, <2>1, <2>2 DEF Noting, Dropping, PutTyped
  <2>5. Noting(h)' <=> put'[h].pc = "note"
    BY <1>3, <2>1, <2>2 DEF Noting, Dropping
  <2> QED BY <1>2, <1>3, <2>1, <2>2, <2>3, <2>4, <2>5 DEF Routed
<1>7. CASE NoteState(h)
  <2>1. /\ put[h].pc = "note" /\ SetPut(h, "idle") /\ UNCHANGED <<upstream, real>>
        /\ local' = IF put[h].enabled THEN local \cup {put[h].id} ELSE local \ {put[h].id}
    BY <1>7 DEF NoteState, proxyVars
  <2>2. PutTyped'
    BY <1>2, <1>3, <2>1, Zenon DEF PutTyped
  <2>3. ~Dropping(h)' /\ ~Noting(h)'
    BY <1>3, <2>1 DEF Noting, Dropping
  <2>4. CASE put[h].id = "DROP_RESPONSE"
    <3>1. Noting(h) /\ \A g \in Handlers : g # h => ~Noting(g)
      BY <1>2, <2>1, <2>4, Zenon DEF Routed, Noting, Dropping
    <3>2. "DROP_RESPONSE" \in local' <=> upstream' = "fake"
      BY <1>2, <2>1, <2>4, <3>1, Zenon DEF Routed
    <3> QED BY <1>2, <1>3, <2>1, <2>2, <2>3, <3>1, <3>2, Zenon DEF Routed
  <2>5. CASE put[h].id # "DROP_RESPONSE"
    <3>1. ~Noting(h) /\ ("DROP_RESPONSE" \in local' <=> "DROP_RESPONSE" \in local)
      BY <2>1, <2>5 DEF Noting
    <3> QED BY <1>2, <1>3, <2>1, <2>2, <2>3, <3>1, ZenonT(30) DEF Routed
  <2> QED BY <2>4, <2>5
<1> QED BY <1>4, <1>5, <1>6, <1>7 DEF PutStep

(* Runs and money have no part in it, and a restart restores nothing that was not there. *)
LEMMA RouteStep == RouteInv /\ [Next]_vars => RouteInv'
<1> SUFFICES ASSUME RouteInv, [Next]_vars PROVE RouteInv'
  OBVIOUS
<1>1. CASE UNCHANGED <<upstream, real, local, put, excused>>
  BY <1>1, Zenon DEF RouteInv, PutTyped, Routed, Dropping, Noting
<1>2. CASE DriveStep \/ FailRun \/ (\E c \in Card : SafStep(c)) \/ \E k \in Keys, size \in Sizes : StartRun(k, size)
  <2>1. UNCHANGED proxyVars /\ UNCHANGED clientVars
    BY <1>2, Zenon DEF DriveStep, DrainBefore, DrainAfter, WaitForSafDrain, ReadOpening, ReadClosing, ReadCard, Opened, Fired,
                FireFails, Fire, CountReversed, Counted, Verify, FailRun, SafStep, SafMisses, BooksLate, SafAcked, SafDead, StartRun
  <2> QED BY <1>1, <2>1 DEF proxyVars, clientVars
<1>3. CASE Restart
  <2>1. /\ real' = "" /\ local' = {} /\ put' = [h \in Handlers |-> NoPut] /\ UNCHANGED upstream
        /\ ~excused' => ~excused /\ upstream # "fake"
    BY <1>3, Zenon DEF Restart
  <2>2. NoPut \in Put /\ NoPut.pc = "idle"
    BY DEF NoPut, Put, Scenarios
  <2> QED BY <2>1, <2>2, Zenon DEF RouteInv, PutTyped, Routed, Dropping, Noting
<1>4. CASE \E h \in Handlers : PutStep(h) \/ \E id \in Scenarios, enabled \in BOOLEAN : PutArrives(h, id, enabled)
  BY <1>4, PutSteps, ArrivalStep
<1>5. CASE UNCHANGED vars
  BY <1>1, <1>5 DEF vars, proxyVars, clientVars
<1> QED BY <1>2, <1>3, <1>4, <1>5 DEF Next

(* The list of scenarios tells what the proxy injects once no PUT is under way, outside of the cases
   the property names (SetScenario, setDropResponse, ListScenarios). *)
THEOREM ListTellsProxy == Spec => []ScenariosReported
<1>1. Init => RouteInv
  <2> SUFFICES ASSUME Init PROVE PutTyped /\ Routed
    BY DEF RouteInv
  <2>1. NoPut \in Put /\ NoPut.pc = "idle"
    BY DEF NoPut, Put, Scenarios
  <2>2. PutTyped /\ \A h \in Handlers : put[h].pc = "idle"
    BY <2>1, Zenon DEF Init, PutTyped
  <2> QED BY <2>2, Zenon DEF Init, Routed, Dropping, Noting
<1>2. RouteInv => ScenariosReported
  BY Zenon DEF RouteInv, Routed, Noting, ScenariosReported
<1> QED BY <1>1, <1>2, RouteStep, PTL DEF Spec

-----------------------------------------------------------------------------
Queue == [Card \X Kinds -> Nat]

(* What card c would stand at had only approved purchases moved it. *)
Settled(c) == balance[c] + Astray(c)

(* The cards whose opening balance is read. *)
Reached ==
    IF drive.pc \in {"idle", "drain before"} THEN 0 ELSE IF drive.pc = "opening" THEN drive.read ELSE Len(Cards)

(* sum[i] is the total of the first i cards. *)
Totals(sum) ==
    /\ sum \in [0..Len(Cards) -> Int] /\ sum[0] = 0
    /\ \A i \in 1..Reached : sum[i] = sum[i - 1] + Settled(Cards[i])

MoneyTyped ==
    /\ saf \in Queue /\ dead \in Queue /\ kept \in [Card -> Nat] /\ unreturned \in Int
    /\ drive.read \in 0..Len(Cards)
    /\ drive.pc \notin {"opening", "closing"} => drive.read = 0 /\ drive.total = 0

(* Nothing is astray while the opening balances of a run that began drained are read. *)
Drained ==
    drive.pc = "opening" =>
        (\A c \in Card : kept[c] = 0) /\ saf = NoReversals /\ dead = NoReversals

(* The balances read, and the money astray when they were, add up to the cards' settled totals. *)
Read(sum) ==
    /\ drive.pc \in {"opening", "fire", "drain after", "count"} => unreturned = 0
    /\ drive.pc = "opening" => drive.total = sum[drive.read]
    /\ drive.pc \in {"fire", "drain after", "count", "closing"} =>
          drive.opening - drive.approved = sum[Len(Cards)]
    /\ drive.pc = "closing" => drive.total + unreturned = sum[drive.read]

LedgerInv == MoneyTyped /\ (~undrained => Drained /\ \E sum : Totals(sum) /\ Read(sum))

-----------------------------------------------------------------------------
(* A queue after one reversal more or less. *)
LEMMA CountStep ==
    ASSUME NEW q \in Queue, NEW c \in Card, NEW k \in Kinds, NEW by \in Int, q[<<c, k>>] + by \in Nat
    PROVE  /\ Count(q, c, k, by) \in Queue
           /\ Count(q, c, k, by)[<<c, k>>] = q[<<c, k>>] + by
           /\ \A e \in Card, j \in Kinds : e # c \/ j # k => Count(q, c, k, by)[<<e, j>>] = q[<<e, j>>]
BY DEF Count, Queue

(* A reversal of a purchase that is not booked leaves the booked ones as they are. *)
LEMMA UnbookedLeaves ==
    ASSUME NEW q \in Queue, NEW c \in Card, q[<<c, "unbooked">>] > 0
    PROVE  /\ Count(q, c, "unbooked", -1) \in Queue
           /\ \A e \in Card : Count(q, c, "unbooked", -1)[<<e, "booked">>] = q[<<e, "booked">>]
           /\ q # NoReversals
<1>1. "unbooked" \in Kinds /\ "booked" \in Kinds /\ "booked" # "unbooked"
  BY DEF Kinds
<1>2. q[<<c, "unbooked">>] \in Nat
  BY <1>1 DEF Queue
<1>3. q[<<c, "unbooked">>] + (-1) \in Nat /\ -1 \in Int
  BY <1>2
<1>4. q # NoReversals
  BY <1>1 DEF NoReversals
<1>5. Count(q, c, "unbooked", -1) \in Queue
  BY <1>1, <1>3, CountStep
<1>6. \A e \in Card : Count(q, c, "unbooked", -1)[<<e, "booked">>] = q[<<e, "booked">>]
  BY <1>1 DEF Count, Queue
<1> QED BY <1>4, <1>5, <1>6

(* What is astray is a number. *)
LEMMA SettledType ==
    ASSUME Typed, MoneyTyped, NEW c \in Card
    PROVE  balance[c] \in Int /\ Astray(c) \in Nat /\ Settled(c) \in Int
<1>1. /\ <<c, "booked">> \in Card \X Kinds
      /\ saf[<<c, "booked">>] \in Nat /\ dead[<<c, "booked">>] \in Nat /\ kept[c] \in Nat /\ balance[c] \in Int
  BY DEF MoneyTyped, Typed, Queue, Kinds
<1> QED BY <1>1 DEF Astray, Settled

(* The worker, the issuer and the reversals that miss their original settle or keep what was astray:
   no card's settled total moves. *)
LEMMA WorkerSettles ==
    ASSUME Typed, MoneyTyped, NEW c \in Card, SafStep(c)
    PROVE  /\ \A e \in Card : Settled(e)' = Settled(e)
           /\ saf' \in Queue /\ dead' \in Queue /\ kept' \in [Card -> Nat]
           /\ UNCHANGED <<drive, undrained, unreturned>>
           /\ saf # NoReversals \/ dead # NoReversals
<1>1. /\ saf \in Queue /\ dead \in Queue /\ kept \in [Card -> Nat] /\ balance \in [Card -> Int]
      /\ "booked" \in Kinds /\ "unbooked" \in Kinds /\ "booked" # "unbooked"
      /\ \A e \in Card, k \in Kinds : saf[<<e, k>>] \in Nat /\ dead[<<e, k>>] \in Nat
  BY DEF Typed, MoneyTyped, Queue, Kinds
<1>2. \A e \in Card, k \in Kinds : NoReversals[<<e, k>>] = 0
  BY DEF NoReversals
<1>3. CASE SafMisses(c)
  <2>1. /\ saf[<<c, "unbooked">>] > 0 /\ saf' = Count(saf, c, "unbooked", -1)
        /\ balance' = [balance EXCEPT ![c] = @ - 1] /\ kept' = [kept EXCEPT ![c] = @ + 1]
        /\ UNCHANGED <<drive, undrained, unreturned, dead>>
    BY <1>3, Zenon DEF SafMisses, runVars
  <2>3. saf' \in Queue /\ saf # NoReversals /\ \A e \in Card : saf'[<<e, "booked">>] = saf[<<e, "booked">>]
    BY <1>1, <2>1, UnbookedLeaves, Zenon
  <2>4. kept' \in [Card -> Nat] /\ \A e \in Card : kept'[e] + balance'[e] = kept[e] + balance[e]
    BY <1>1, <2>1
  <2>5. \A e \in Card : kept'[e] \in Int /\ balance'[e] \in Int /\ kept[e] \in Int /\ balance[e] \in Int
    BY <1>1, <2>1
  <2> QED BY <1>1, <2>1, <2>3, <2>4, <2>5 DEF Settled, Astray
<1>4. ASSUME NEW k \in Kinds, SafAcked(c, k)
      PROVE  /\ \A e \in Card : Settled(e)' = Settled(e)
             /\ saf' \in Queue /\ UNCHANGED <<dead, kept, drive, undrained, unreturned>> /\ saf # NoReversals
  <2>1. /\ saf[<<c, k>>] > 0 /\ saf' = Count(saf, c, k, -1)
        /\ balance' = IF k = "booked" THEN [balance EXCEPT ![c] = @ + 1] ELSE balance
        /\ UNCHANGED <<drive, undrained, unreturned, dead, kept>>
    BY <1>4, Zenon DEF SafAcked, runVars, tally
  <2>2. saf[<<c, k>>] + (-1) \in Nat /\ saf # NoReversals
    BY <1>1, <1>2, <2>1
  <2>3. /\ saf' \in Queue /\ saf'[<<c, k>>] = saf[<<c, k>>] + (-1)
        /\ \A e \in Card, j \in Kinds : e # c \/ j # k => saf'[<<e, j>>] = saf[<<e, j>>]
    BY <1>1, <2>1, <2>2, CountStep
  <2>4. \A e \in Card : saf'[<<e, "booked">>] + balance'[e] = saf[<<e, "booked">>] + balance[e]
    BY <1>1, <2>1, <2>3
  <2>5. \A e \in Card : /\ saf'[<<e, "booked">>] \in Int /\ saf[<<e, "booked">>] \in Int
                        /\ balance'[e] \in Int /\ balance[e] \in Int
    BY <1>1, <2>1, <2>3 DEF Queue
  <2>6. \A e \in Card : dead[<<e, "booked">>] \in Int /\ kept[e] \in Int
    BY <1>1
  <2> QED BY <2>1, <2>2, <2>3, <2>4, <2>5, <2>6 DEF Settled, Astray
<1>5. ASSUME NEW k \in Kinds, SafDead(c, k)
      PROVE  /\ \A e \in Card : Settled(e)' = Settled(e)
             /\ saf' \in Queue /\ dead' \in Queue /\ UNCHANGED <<kept, drive, undrained, unreturned>>
             /\ saf # NoReversals
  <2>1. /\ saf[<<c, k>>] > 0 /\ saf' = Count(saf, c, k, -1) /\ dead' = Count(dead, c, k, 1)
        /\ UNCHANGED <<drive, undrained, unreturned, balance, kept>>
    BY <1>5, Zenon DEF SafDead, runVars, tally
  <2>2. saf[<<c, k>>] + (-1) \in Nat /\ saf # NoReversals /\ dead[<<c, k>>] + 1 \in Nat
    BY <1>1, <1>2, <2>1
  <2>3. /\ saf' \in Queue /\ saf'[<<c, k>>] = saf[<<c, k>>] + (-1)
        /\ \A e \in Card, j \in Kinds : e # c \/ j # k => saf'[<<e, j>>] = saf[<<e, j>>]
    BY <1>1, <2>1, <2>2, CountStep
  <2>4. /\ dead' \in Queue /\ dead'[<<c, k>>] = dead[<<c, k>>] + 1
        /\ \A e \in Card, j \in Kinds : e # c \/ j # k => dead'[<<e, j>>] = dead[<<e, j>>]
    BY <1>1, <2>1, <2>2, CountStep
  <2>5. \A e \in Card : saf'[<<e, "booked">>] + dead'[<<e, "booked">>] = saf[<<e, "booked">>] + dead[<<e, "booked">>]
    BY <1>1, <2>3, <2>4
  <2> QED BY <2>1, <2>2, <2>3, <2>4, <2>5 DEF Settled, Astray
<1>6. ASSUME NEW q \in Queue, q[<<c, "unbooked">>] > 0, NEW r, r = Count(Count(q, c, "unbooked", -1), c, "booked", 1)
      PROVE  /\ r \in Queue /\ r[<<c, "booked">>] = q[<<c, "booked">>] + 1 /\ q # NoReversals
             /\ \A e \in Card : e # c => r[<<e, "booked">>] = q[<<e, "booked">>]
  <2> DEFINE m == Count(q, c, "unbooked", -1)
  <2>1. q[<<c, "booked">>] + 1 \in Nat
    BY <1>1, <1>6 DEF Queue
  <2>2. m \in Queue /\ q # NoReversals /\ \A e \in Card : m[<<e, "booked">>] = q[<<e, "booked">>]
    BY <1>6, UnbookedLeaves, Zenon
  <2> HIDE DEF m
  <2>3. r = Count(m, c, "booked", 1)
    BY <1>6 DEF m
  <2> QED BY <1>1, <2>1, <2>2, <2>3, CountStep
<1>7. CASE BooksLate(c)
  <2>1. /\ balance' = [balance EXCEPT ![c] = @ - 1] /\ UNCHANGED <<drive, undrained, unreturned, kept>>
        /\ \/ /\ saf[<<c, "unbooked">>] > 0 /\ dead' = dead
              /\ saf' = Count(Count(saf, c, "unbooked", -1), c, "booked", 1)
           \/ /\ dead[<<c, "unbooked">>] > 0 /\ saf' = saf
              /\ dead' = Count(Count(dead, c, "unbooked", -1), c, "booked", 1)
    BY <1>7, Zenon DEF BooksLate, runVars, tally
  <2>2. /\ saf' \in Queue /\ dead' \in Queue /\ (saf # NoReversals \/ dead # NoReversals)
        /\ saf'[<<c, "booked">>] + dead'[<<c, "booked">>] = (saf[<<c, "booked">>] + dead[<<c, "booked">>]) + 1
        /\ \A e \in Card : e # c => saf'[<<e, "booked">>] = saf[<<e, "booked">>]
                                   /\ dead'[<<e, "booked">>] = dead[<<e, "booked">>]
    <3>1. CASE saf[<<c, "unbooked">>] > 0 /\ dead' = dead /\ saf' = Count(Count(saf, c, "unbooked", -1), c, "booked", 1)
      <4>1. /\ saf' \in Queue /\ saf'[<<c, "booked">>] = saf[<<c, "booked">>] + 1 /\ saf # NoReversals
            /\ \A e \in Card : e # c => saf'[<<e, "booked">>] = saf[<<e, "booked">>]
        BY <1>1, <1>6, <3>1, Zenon
      <4> QED BY <1>1, <3>1, <4>1
    <3>2. CASE dead[<<c, "unbooked">>] > 0 /\ saf' = saf /\ dead' = Count(Count(dead, c, "unbooked", -1), c, "booked", 1)
      <4>1. /\ dead' \in Queue /\ dead'[<<c, "booked">>] = dead[<<c, "booked">>] + 1 /\ dead # NoReversals
            /\ \A e \in Card : e # c => dead'[<<e, "booked">>] = dead[<<e, "booked">>]
        BY <1>1, <1>6, <3>2, Zenon
      <4> QED BY <1>1, <3>2, <4>1
    <3> QED BY <2>1, <3>1, <3>2, Zenon
  <2>3. balance'[c] = balance[c] - 1 /\ \A e \in Card : e # c => balance'[e] = balance[e]
    BY <1>1, <2>1
  <2>4. ASSUME NEW e \in Card PROVE Settled(e)' = Settled(e)
    <3>1. /\ saf[<<e, "booked">>] \in Int /\ dead[<<e, "booked">>] \in Int /\ kept[e] \in Int /\ balance[e] \in Int
          /\ saf'[<<e, "booked">>] \in Int /\ dead'[<<e, "booked">>] \in Int
      BY <1>1, <2>2 DEF Queue
    <3>2. Settled(e)' = balance'[e] + ((saf'[<<e, "booked">>] + dead'[<<e, "booked">>]) + kept[e])
      BY <2>1 DEF Settled, Astray
    <3> QED BY <2>2, <2>3, <3>1, <3>2 DEF Settled, Astray
  <2> QED BY <1>1, <2>1, <2>2, <2>4, Zenon
<1> QED BY <1>1, <1>3, <1>4, <1>5, <1>7, Zenon DEF SafStep

(* A purchase moves the settled total of its card by the amount if it is approved, and no other. *)
LEMMA PurchaseSettles ==
    ASSUME Typed, MoneyTyped, NEW c \in Card, NEW o \in Outcomes, Purchase(c, o)
    PROVE  /\ \A e \in Card : Settled(e)' = IF o = "approved" /\ e = c THEN Settled(e) - 1 ELSE Settled(e)
           /\ saf' \in Queue /\ dead' \in Queue /\ kept' \in [Card -> Nat]
<1>1. /\ saf \in Queue /\ dead \in Queue /\ kept \in [Card -> Nat] /\ balance \in [Card -> Int]
      /\ "booked" \in Kinds /\ "unbooked" \in Kinds /\ "booked" # "unbooked"
      /\ \A e \in Card, k \in Kinds : saf[<<e, k>>] \in Nat /\ saf[<<e, k>>] + 1 \in Nat
      /\ \A e \in Card : dead[<<e, "booked">>] \in Nat /\ balance[e] \in Int /\ kept[e] \in Nat
  BY DEF Typed, MoneyTyped, Queue, Kinds
<1>2. /\ balance' = IF Books(o) THEN [balance EXCEPT ![c] = @ - 1] ELSE balance
      /\ saf' = IF ReversalQueued(o) THEN Count(saf, c, IF Books(o) THEN "booked" ELSE "unbooked", 1) ELSE saf
      /\ kept' = IF o = "declined booked" THEN [kept EXCEPT ![c] = @ + 1] ELSE kept
      /\ dead' = dead
  BY Zenon DEF Purchase
<1>3. CASE o = "approved"
  <2>1. balance' = [balance EXCEPT ![c] = @ - 1] /\ saf' = saf /\ kept' = kept
    BY <1>2, <1>3 DEF Books, ReversalQueued
  <2>2. \A e \in Card : balance'[e] = IF e = c THEN balance[e] - 1 ELSE balance[e]
    BY <1>1, <2>1
  <2> QED BY <1>1, <1>2, <1>3, <2>1, <2>2 DEF Settled, Astray
<1>4. CASE o = "declined"
  <2>1. balance' = balance /\ saf' = saf /\ kept' = kept
    BY <1>2, <1>4 DEF Books, ReversalQueued
  <2> QED BY <1>1, <1>2, <1>4, <2>1 DEF Settled, Astray
<1>5. CASE o = "declined booked"
  <2>1. balance' = [balance EXCEPT ![c] = @ - 1] /\ saf' = saf /\ kept' = [kept EXCEPT ![c] = @ + 1]
    BY <1>2, <1>5 DEF Books, ReversalQueued
  <2>2. kept' \in [Card -> Nat] /\ \A e \in Card : /\ kept'[e] + balance'[e] = kept[e] + balance[e]
                                                /\ kept'[e] \in Int /\ balance'[e] \in Int
    BY <1>1, <2>1
  <2>3. ASSUME NEW e \in Card PROVE Settled(e)' = Settled(e)
    <3>1. /\ saf[<<e, "booked">>] \in Int /\ dead[<<e, "booked">>] \in Int /\ kept[e] \in Int /\ balance[e] \in Int
          /\ kept'[e] + balance'[e] = kept[e] + balance[e] /\ kept'[e] \in Int /\ balance'[e] \in Int
      BY <1>1, <2>2
    <3>2. Settled(e)' = balance'[e] + ((saf[<<e, "booked">>] + dead[<<e, "booked">>]) + kept'[e])
      BY <1>2, <2>1 DEF Settled, Astray
    <3>3. Settled(e) = balance[e] + ((saf[<<e, "booked">>] + dead[<<e, "booked">>]) + kept[e])
      BY DEF Settled, Astray
    <3> QED BY <3>1, <3>2, <3>3
  <2> QED BY <1>1, <1>2, <1>5, <2>1, <2>2, <2>3
<1>6. CASE o = "unknown"
  <2>1. balance' = balance /\ saf' = Count(saf, c, "unbooked", 1) /\ kept' = kept
    BY <1>2, <1>6 DEF Books, ReversalQueued
  <2>2. saf' \in Queue /\ \A e \in Card : saf'[<<e, "booked">>] = saf[<<e, "booked">>]
    BY <1>1, <2>1 DEF Count, Queue
  <2>3. \A e \in Card : Settled(e)' = Settled(e)
    BY <1>1, <1>2, <2>1, <2>2 DEF Settled, Astray
  <2> QED BY <1>1, <1>2, <1>6, <2>1, <2>2, <2>3
<1>7. CASE o = "unknown booked"
  <2>1. balance' = [balance EXCEPT ![c] = @ - 1] /\ saf' = Count(saf, c, "booked", 1) /\ kept' = kept
    BY <1>2, <1>7 DEF Books, ReversalQueued
  <2>2. /\ saf' \in Queue /\ saf'[<<c, "booked">>] = saf[<<c, "booked">>] + 1
        /\ \A e \in Card : e # c => saf'[<<e, "booked">>] = saf[<<e, "booked">>]
    BY <1>1, <2>1, CountStep
  <2>3. balance'[c] = balance[c] - 1 /\ \A e \in Card : e # c => balance'[e] = balance[e]
    BY <1>1, <2>1
  <2>4. ASSUME NEW e \in Card PROVE Settled(e)' = Settled(e)
    <3>1. /\ saf[<<e, "booked">>] \in Int /\ dead[<<e, "booked">>] \in Int /\ kept[e] \in Int /\ balance[e] \in Int
          /\ saf'[<<e, "booked">>] + balance'[e] = saf[<<e, "booked">>] + balance[e]
          /\ saf'[<<e, "booked">>] \in Int /\ balance'[e] \in Int
      BY <1>1, <2>2, <2>3
    <3>2. Settled(e)' = balance'[e] + ((saf'[<<e, "booked">>] + dead[<<e, "booked">>]) + kept[e])
      BY <1>2, <2>1 DEF Settled, Astray
    <3>3. Settled(e) = balance[e] + ((saf[<<e, "booked">>] + dead[<<e, "booked">>]) + kept[e])
      BY DEF Settled, Astray
    <3> QED BY <3>1, <3>2, <3>3
  <2> QED BY <1>1, <1>2, <1>7, <2>1, <2>2, <2>4
<1> QED BY <1>3, <1>4, <1>5, <1>6, <1>7, Zenon DEF Outcomes

(* An approved purchase moves the totals from its card on by the amount. *)
LEMMA ApprovedTotals ==
    ASSUME Typed, MoneyTyped, NEW c \in Card, NEW sum, Totals(sum), Reached = Len(Cards), Reached' = Reached,
           \A e \in Card : Settled(e)' = IF e = c THEN Settled(e) - 1 ELSE Settled(e)
    PROVE  \E new : Totals(new)' /\ new[Len(Cards)] = sum[Len(Cards)] - 1
<1>1. PICK j \in 1..Len(Cards) : Cards[j] = c
  BY ChaosAssumption DEF Card
<1> DEFINE N == Len(Cards)
           new == [i \in 0..N |-> IF i >= j THEN sum[i] - 1 ELSE sum[i]]
<1>2. N \in Nat /\ j \in 1..N /\ sum \in [0..N -> Int] /\ sum[0] = 0
      /\ \A i \in 1..N : Cards[i] \in Card /\ (Cards[i] = c <=> i = j) /\ sum[i] = sum[i - 1] + Settled(Cards[i])
  BY <1>1, ChaosAssumption, Zenon DEF Totals, Card
<1>3. \A e \in Card : Settled(e) \in Int /\ Settled(e)' = IF e = c THEN Settled(e) - 1 ELSE Settled(e)
  BY SettledType, Zenon
<1> HIDE DEF N
<1>4. new \in [0..N -> Int] /\ new[0] = 0 /\ new[N] = sum[N] - 1
  BY <1>2
<1>5. ASSUME NEW i \in 1..N PROVE new[i] = new[i - 1] + Settled(Cards[i])'
  <2>1. i \in Int /\ j \in Int /\ i - 1 \in 0..N /\ i \in 0..N /\ sum[i - 1] \in Int /\ sum[i] \in Int
    BY <1>2
  <2>2. new[i] = (IF i >= j THEN sum[i] - 1 ELSE sum[i])
        /\ new[i - 1] = IF i - 1 >= j THEN sum[i - 1] - 1 ELSE sum[i - 1]
    BY <2>1
  <2> DEFINE m == Settled(Cards[i])
             mm == Settled(Cards[i])'
  <2>3. m \in Int /\ sum[i] = sum[i - 1] + m /\ mm = IF i = j THEN m - 1 ELSE m
    BY <1>2, <1>3, Zenon
  <2> HIDE DEF m, mm, new
  <2>4. new[i] = new[i - 1] + mm
    BY <2>1, <2>2, <2>3
  <2> QED BY <2>4 DEF mm
<1> HIDE DEF new
<1>6. Totals(new)'
  BY <1>4, <1>5 DEF Totals, N
<1> QED BY <1>4, <1>6 DEF N

(* A step that moves no card's settled total, given what it does to the goroutine's figures. *)
LEMMA NothingApproved ==
    ASSUME LedgerInv, MoneyTyped', \A c \in Card : Settled(c)' = Settled(c), Reached' = Reached,
           ~undrained' => ~undrained /\ Drained',
           \A sum : Totals(sum) /\ Read(sum) => Read(sum)'
    PROVE  LedgerInv'
<1> SUFFICES ASSUME ~undrained' PROVE \E sum : (Totals(sum) /\ Read(sum))'
  BY DEF LedgerInv
<1>1. PICK sum : Totals(sum) /\ Read(sum)
  BY DEF LedgerInv
<1>2. \A i \in 1..Reached : Cards[i] \in Card
  <2>1. drive.read \in 0..Len(Cards) /\ Len(Cards) \in Nat
    BY ChaosAssumption DEF LedgerInv, MoneyTyped
  <2>2. Reached \in {0, drive.read, Len(Cards)}
    BY Zenon DEF Reached
  <2>3. \A i \in 1..Reached : i \in 1..Len(Cards)
    BY <2>1, <2>2
  <2> QED BY <2>3, ChaosAssumption, Zenon DEF Card
<1>3. Totals(sum)'
  BY <1>1, <1>2, Zenon DEF Totals
<1> QED BY <1>1, <1>3

(* Before any card is read all totals are 0. *)
LEMMA NoTotals ==
    ASSUME NEW n \in Nat
    PROVE  [i \in 0..n |-> 0] \in [0..n -> Int] /\ [i \in 0..n |-> 0][0] = 0 /\ 1..0 = {}
OBVIOUS

(* A step after which no balance has been read, or only a run that began drained has started to read. *)
LEMMA NoneRead ==
    ASSUME MoneyTyped',
           \/ drive'.pc \in {"idle", "drain before"}
           \/ drive'.pc = "opening" /\ drive'.read = 0 /\ drive'.total = 0 /\ unreturned' = 0 /\ (~undrained' => Drained')
    PROVE  LedgerInv'
<1> DEFINE zero == [i \in 0..Len(Cards) |-> 0]
<1>1. Len(Cards) \in Nat
  BY ChaosAssumption
<1>2. zero \in [0..Len(Cards) -> Int] /\ zero[0] = 0 /\ 1..0 = {}
  BY <1>1, NoTotals, Zenon
<1>3. Reached' = 0
  BY Zenon DEF Reached
<1> HIDE DEF zero
<1>4. Totals(zero)'
  BY <1>2, <1>3 DEF Totals
<1>5. Read(zero)'
  BY <1>2 DEF Read
<1>6. ~undrained' => Drained'
  BY DEF Drained
<1> QED BY <1>4, <1>5, <1>6 DEF LedgerInv

(* A step that leaves the money alone. *)
LEMMA MoneyStays ==
    ASSUME UNCHANGED moneyVars, UNCHANGED kept
    PROVE  (\A c \in Card : Settled(c)' = Settled(c)) /\ UNCHANGED <<saf, dead, balance>>
BY DEF moneyVars, Settled, Astray

(* What the opening and the closing read have in common. *)
LEMMA CardRead ==
    ASSUME IInv, LedgerInv, drive.pc \in {"opening", "closing"}, ReadCard, UNCHANGED kept, unreturned' \in Int
    PROVE  LET c == Cards[drive.read + 1] IN
           /\ drive'.pc = drive.pc /\ drive'.read = drive.read + 1 /\ drive'.total = drive.total + balance[c]
           /\ drive'.opening = drive.opening /\ drive'.approved = drive.approved
           /\ c \in Card /\ drive.read \in Nat /\ drive.read + 1 \in 1..Len(Cards) /\ drive.read \in 0..Len(Cards)
           /\ balance[c] \in Int /\ Astray(c) \in Int /\ Settled(c) = balance[c] + Astray(c) /\ drive.total \in Int
           /\ MoneyTyped' /\ \A e \in Card : Settled(e)' = Settled(e)
<1> DEFINE c == Cards[drive.read + 1]
<1>1. /\ drive \in Drive /\ drive.read \in 0..Len(Cards) /\ drive.read < Len(Cards)
      /\ saf \in Queue /\ dead \in Queue /\ kept \in [Card -> Nat]
      /\ drive' = [drive EXCEPT !.read = drive.read + 1, !.total = drive.total + balance[c]]
      /\ UNCHANGED moneyVars
  BY DEF IInv, Typed, LedgerInv, MoneyTyped, ReadCard
<1>2. drive.read + 1 \in 1..Len(Cards) /\ c \in Card /\ drive.read \in Nat
  BY <1>1, ChaosAssumption DEF Card
<1>3. balance[c] \in Int /\ Astray(c) \in Int /\ Settled(c) = balance[c] + Astray(c)
  BY <1>2, SettledType DEF IInv, LedgerInv, Settled
<1>4. drive.total \in Int
  BY <1>1 DEF Drive
<1>5. UNCHANGED <<saf, dead>> /\ \A e \in Card : Settled(e)' = Settled(e)
  BY <1>1, MoneyStays
<1> HIDE DEF c
<1>6. /\ drive'.pc = drive.pc /\ drive'.read = drive.read + 1 /\ drive'.total = drive.total + balance[c]
      /\ drive'.opening = drive.opening /\ drive'.approved = drive.approved
  BY <1>1 DEF Drive
<1>7. drive'.read \in 0..Len(Cards)
  BY <1>2, <1>6, ChaosAssumption
<1>8. MoneyTyped'
  BY <1>1, <1>5, <1>6, <1>7 DEF MoneyTyped
<1> QED BY <1>1, <1>2, <1>3, <1>4, <1>5, <1>6, <1>8, Zenon DEF c

(* The opening read of a card extends the totals by it. *)
LEMMA OpeningStep ==
    ASSUME IInv, LedgerInv, ReadOpening
    PROVE  LedgerInv'
<1> DEFINE c == Cards[drive.read + 1]
<1>1. drive.pc = "opening" /\ ReadCard /\ UNCHANGED <<kept, unreturned, undrained, saf, dead>> /\ unreturned \in Int
  BY Zenon DEF ReadOpening, ReadCard, tally, moneyVars, LedgerInv, MoneyTyped
<1>2. /\ drive'.pc = "opening" /\ drive'.read = drive.read + 1 /\ drive'.total = drive.total + balance[c]
      /\ c \in Card /\ drive.read \in Nat /\ drive.read + 1 \in 1..Len(Cards) /\ drive.read \in 0..Len(Cards)
      /\ balance[c] \in Int /\ Settled(c) = balance[c] + Astray(c) /\ drive.total \in Int
      /\ MoneyTyped' /\ \A e \in Card : Settled(e)' = Settled(e)
  BY <1>1, CardRead, Zenon
<1> SUFFICES ASSUME ~undrained PROVE Drained' /\ \E sum : (Totals(sum) /\ Read(sum))'
  BY <1>1, <1>2 DEF LedgerInv
<1>3. Drained /\ Drained'
  BY <1>1, Zenon DEF LedgerInv, Drained
<1>4. Settled(c) = balance[c]
  <2>1. saf[<<c, "booked">>] = 0 /\ dead[<<c, "booked">>] = 0 /\ kept[c] = 0
    BY <1>1, <1>2, <1>3 DEF Drained, NoReversals, Kinds
  <2> QED BY <1>2, <2>1 DEF Astray
<1>5. PICK sum : Totals(sum) /\ Read(sum)
  BY DEF LedgerInv
<1>n. PICK n : n = drive.read
  OBVIOUS
<1> DEFINE N == Len(Cards)
<1>6. /\ n \in Nat /\ N \in Nat /\ n + 1 \in 1..N /\ sum \in [0..N -> Int] /\ sum[0] = 0
      /\ \A i \in 1..n : sum[i] = sum[i - 1] + Settled(Cards[i]) /\ Cards[i] \in Card
      /\ drive.total = sum[n] /\ unreturned = 0
  <2>1. Reached = n
    BY <1>1, <1>n DEF Reached
  <2>2. N \in Nat /\ \A i \in 1..n : Cards[i] \in Card
    BY <1>2, <1>n, ChaosAssumption DEF Card
  <2> QED BY <1>1, <1>2, <1>5, <1>n, <2>1, <2>2, Zenon DEF Totals, Read
<1>7. Settled(c) \in Int
  BY <1>2, <1>4
<1> HIDE DEF N
<1>m. PICK new : new = [sum EXCEPT ![n + 1] = sum[n] + Settled(c)]
  OBVIOUS
<1>8. /\ new \in [0..N -> Int] /\ new[0] = 0 /\ new[n + 1] = sum[n] + Settled(c)
      /\ \A i \in 0..n : new[i] = sum[i]
  BY <1>6, <1>7, <1>m
<1>9. Reached' = n + 1
  BY <1>2, <1>n DEF Reached
<1>10. ASSUME NEW i \in 1..(n + 1) PROVE new[i] = new[i - 1] + Settled(Cards[i])'
  <2>1. CASE i = n + 1
    <3>1. i - 1 = n /\ n \in 0..n /\ Cards[i] = c
      BY <1>6, <1>n, <2>1
    <3> QED BY <1>2, <1>8, <2>1, <3>1, Zenon
  <2>2. CASE i # n + 1
    <3>1. i \in 1..n /\ i \in 0..n /\ i - 1 \in 0..n
      BY <1>6, <2>2
    <3> QED BY <1>2, <1>6, <1>8, <3>1, Zenon
  <2> QED BY <2>1, <2>2
<1>11. Totals(new)'
  BY <1>8, <1>9, <1>10, Zenon DEF Totals, N
<1>12. Read(new)'
  <2>1. drive'.total = new[drive'.read]
    BY <1>2, <1>4, <1>6, <1>8, <1>n
  <2> QED BY <1>1, <1>2, <1>6, <2>1, Zenon DEF Read
<1> QED BY <1>3, <1>11, <1>12

(* Sums of the four figures of a closing read. *)
LEMMA ReadSums ==
    ASSUME NEW t \in Int, NEW b \in Int, NEW u \in Int, NEW w \in Int
    PROVE  (t + b) + (u + w) = (t + u) + (b + w)
OBVIOUS

(* One approval more. *)
LEMMA OneMore ==
    ASSUME NEW x \in Int, NEW a \in Int
    PROVE  x - (a + 1) = (x - a) - 1
OBVIOUS

(* The closing read of a card: what it read and what was astray then add up to the card's total. *)
LEMMA ClosingStep ==
    ASSUME IInv, LedgerInv, ReadClosing
    PROVE  LedgerInv'
<1> DEFINE c == Cards[drive.read + 1]
<1>1. drive.pc = "closing" /\ ReadCard /\ UNCHANGED <<kept, undrained>> /\ unreturned' = unreturned + Astray(c)
  BY Zenon DEF ReadClosing
<1>2. unreturned \in Int /\ c \in Card /\ Astray(c) \in Int
  <2>1. drive.read \in 0..Len(Cards) /\ drive.read < Len(Cards) /\ unreturned \in Int
    BY <1>1, Zenon DEF LedgerInv, MoneyTyped, ReadCard
  <2>2. c \in Card
    BY <2>1, ChaosAssumption DEF Card
  <2> QED BY <2>1, <2>2, SettledType DEF IInv, LedgerInv
<1>3. unreturned' \in Int
  BY <1>1, <1>2
<1>4. /\ drive'.pc = "closing" /\ drive'.read = drive.read + 1 /\ drive'.total = drive.total + balance[c]
      /\ drive'.opening = drive.opening /\ drive'.approved = drive.approved
      /\ drive.read \in Nat /\ drive.read + 1 \in 1..Len(Cards) /\ drive.read \in 0..Len(Cards)
      /\ balance[c] \in Int /\ Settled(c) = balance[c] + Astray(c) /\ drive.total \in Int
      /\ MoneyTyped' /\ \A e \in Card : Settled(e)' = Settled(e)
  BY <1>1, <1>3, CardRead, Zenon
<1>5. Reached' = Len(Cards) /\ Reached = Len(Cards)
  BY <1>1, <1>4 DEF Reached
<1>6. Drained'
  BY <1>4 DEF Drained
<1>7. ASSUME NEW sum, Totals(sum), Read(sum) PROVE Read(sum)'
  <2>1. sum[drive.read + 1] = sum[drive.read] + (balance[c] + Astray(c)) /\ sum[drive.read] \in Int
    <3>1. sum[drive.read + 1] = sum[(drive.read + 1) - 1] + Settled(c) /\ (drive.read + 1) - 1 = drive.read
      BY <1>4, <1>5, <1>7 DEF Totals
    <3>2. sum[drive.read] \in Int
      BY <1>4, <1>7 DEF Totals
    <3> QED BY <1>4, <3>1, <3>2, Zenon
  <2>2. drive.total + unreturned = sum[drive.read]
    BY <1>1, <1>7, Zenon DEF Read
  <2>3. (drive.total + balance[c]) + (unreturned + Astray(c)) = sum[drive.read] + (balance[c] + Astray(c))
    <3>1. unreturned \in Int /\ Astray(c) \in Int /\ drive.total \in Int /\ balance[c] \in Int
      BY <1>2, <1>4, Zenon
    <3> HIDE DEF c
    <3>2. (drive.total + balance[c]) + (unreturned + Astray(c)) = (drive.total + unreturned) + (balance[c] + Astray(c))
      BY <3>1, ReadSums
    <3> QED BY <2>2, <3>2, Zenon
  <2>4. drive'.total + unreturned' = sum[drive'.read]
    BY <1>1, <1>4, <2>1, <2>3, Zenon
  <2> QED BY <1>1, <1>4, <1>7, <2>4, Zenon DEF Read
<1> HIDE DEF c
<1> QED BY <1>1, <1>4, <1>5, <1>6, <1>7, NothingApproved, Zenon

(* The goroutine moves on with its figures. *)
LEMMA MoveSteps ==
    ASSUME IInv, LedgerInv, DrainAfter \/ Counted \/ Fired \/ CountReversed \/ Opened
    PROVE  LedgerInv'
<1>1. /\ UNCHANGED moneyVars /\ UNCHANGED <<kept, undrained, unreturned>> /\ drive \in Drive /\ MoneyTyped
  BY Zenon DEF IInv, Typed, LedgerInv, DrainAfter, WaitForSafDrain, Counted, Fired, CountReversed, Opened, tally
<1>2. UNCHANGED <<saf, dead>> /\ \A e \in Card : Settled(e)' = Settled(e)
  BY <1>1, MoneyStays
<1>3. CASE Opened
  <2>1. /\ drive.pc = "opening" /\ drive.read = Len(Cards)
        /\ drive'.pc = "fire" /\ drive'.opening = drive.total
        /\ drive'.read = 0 /\ drive'.total = 0 /\ drive'.approved = 0
    BY <1>3 DEF Opened, Idle
  <2>2. MoneyTyped'
    <3>1. 0 \in 0..Len(Cards)
      BY ChaosAssumption
    <3> QED BY <1>1, <1>2, <2>1, <3>1, Zenon DEF MoneyTyped
  <2>3. Reached' = Len(Cards) /\ Reached = Len(Cards) /\ Drained'
    BY <2>1, Zenon DEF Reached, Drained
  <2>4. ASSUME NEW sum, Totals(sum), Read(sum) PROVE Read(sum)'
    <3>1. drive.total = sum[Len(Cards)] /\ unreturned = 0 /\ drive.total \in Int
      BY <1>1, <2>1, <2>4, Zenon DEF Read, Drive
    <3>2. drive.total - 0 = drive.total
      BY <3>1
    <3> QED BY <1>1, <2>1, <3>1, <3>2, Zenon DEF Read
  <2> QED BY <1>1, <1>2, <2>2, <2>3, <2>4, NothingApproved, Zenon
<1>4. CASE DrainAfter \/ Counted \/ Fired \/ CountReversed
  <2>1. /\ drive'.read = drive.read /\ drive'.total = drive.total
        /\ drive'.opening = drive.opening /\ drive'.approved = drive.approved
    BY <1>1, <1>4, Zenon DEF DrainAfter, WaitForSafDrain, Counted, Fired, CountReversed, Drive
  <2>2. drive.pc \in {"fire", "drain after", "count"} /\ drive'.pc \in {"drain after", "count", "closing"}
    BY <1>1, <1>4, Zenon DEF DrainAfter, WaitForSafDrain, Counted, Fired, CountReversed, Drive
  <2>3. drive.read = 0 /\ drive.total = 0 /\ drive.read \in 0..Len(Cards)
    BY <1>1, <2>2, Zenon DEF MoneyTyped
  <2>4. MoneyTyped'
    BY <1>1, <1>2, <2>1, <2>3, Zenon DEF MoneyTyped
  <2>5. Reached' = Len(Cards) /\ Reached = Len(Cards) /\ Drained'
    BY <2>2, Zenon DEF Reached, Drained
  <2>6. ASSUME NEW sum, Totals(sum), Read(sum) PROVE Read(sum)'
    <3>1. sum[0] = 0 /\ unreturned = 0 /\ drive.opening - drive.approved = sum[Len(Cards)]
      BY <2>2, <2>6, Zenon DEF Read, Totals
    <3>2. 0 + 0 = 0
      OBVIOUS
    <3> QED BY <1>1, <2>1, <2>2, <2>3, <3>1, <3>2, Zenon DEF Read
  <2> QED BY <1>1, <1>2, <2>4, <2>5, <2>6, NothingApproved, Zenon
<1> QED BY <1>3, <1>4

(* A purchase: an approved one moves a card and is counted, any other leaves the totals alone. *)
LEMMA PurchaseStep ==
    ASSUME IInv, LedgerInv, NEW c \in Card, NEW o \in Outcomes, Fire(c, o)
    PROVE  LedgerInv'
<1>1. /\ Typed /\ MoneyTyped /\ drive \in Drive /\ drive.pc = "fire" /\ Purchase(c, o)
      /\ UNCHANGED <<undrained, unreturned>> /\ drive.approved \in Int /\ drive.opening \in Int
  BY Zenon DEF IInv, Typed, LedgerInv, Fire, Purchase, Drive
<1>2. /\ drive'.pc = "fire" /\ drive'.read = drive.read /\ drive'.total = drive.total
      /\ drive'.opening = drive.opening
      /\ drive'.approved = IF Counts(o) THEN drive.approved + 1 ELSE drive.approved
  BY <1>1 DEF Fire, Drive
<1>3. /\ \A e \in Card : Settled(e)' = IF o = "approved" /\ e = c THEN Settled(e) - 1 ELSE Settled(e)
      /\ saf' \in Queue /\ dead' \in Queue /\ kept' \in [Card -> Nat]
  BY <1>1, PurchaseSettles, Zenon
<1>4. MoneyTyped' /\ Drained' /\ Reached' = Len(Cards) /\ Reached = Len(Cards)
  BY <1>1, <1>2, <1>3, Zenon DEF MoneyTyped, Drained, Reached
<1>5. CASE o = "approved" /\ ~undrained
  <2>1. PICK sum : Totals(sum) /\ Read(sum)
    BY <1>5 DEF LedgerInv
  <2>2. PICK new : Totals(new)' /\ new[Len(Cards)] = sum[Len(Cards)] - 1
    BY <1>1, <1>3, <1>4, <1>5, <2>1, ApprovedTotals, Zenon
  <2>3. drive'.opening - drive'.approved = new[Len(Cards)]
    <3>1. drive.opening - drive.approved = sum[Len(Cards)]
      BY <1>1, <2>1, Zenon DEF Read
    <3>2. drive'.opening = drive.opening /\ drive'.approved = drive.approved + 1
      BY <1>2, <1>5 DEF Counts
    <3>3. drive.opening - (drive.approved + 1) = (drive.opening - drive.approved) - 1
      BY <1>1, OneMore, Zenon
    <3> QED BY <1>1, <2>2, <3>1, <3>2, <3>3, Zenon
  <2>4. Read(new)'
    BY <1>1, <1>2, <2>1, <2>3, Zenon DEF Read
  <2> QED BY <1>4, <2>2, <2>4, Zenon DEF LedgerInv
<1>6. CASE o # "approved"
  <2>1. ASSUME NEW sum, Totals(sum), Read(sum) PROVE Read(sum)'
    BY <1>1, <1>2, <1>6, <2>1, Zenon DEF Read, Counts
  <2>2. \A e \in Card : Settled(e)' = Settled(e)
    BY <1>3, <1>6, Zenon
  <2> QED BY <1>1, <1>4, <2>1, <2>2, NothingApproved, Zenon
<1>7. CASE undrained
  BY <1>1, <1>4, <1>7, Zenon DEF LedgerInv
<1> QED BY <1>5, <1>6, <1>7

(* Every step preserves it. *)
LEMMA LedgerStep == IInv /\ LedgerInv /\ [Next]_vars => LedgerInv'
<1> SUFFICES ASSUME IInv, LedgerInv, [Next]_vars PROVE LedgerInv'
  OBVIOUS
<1>1. Typed /\ MoneyTyped
  BY DEF IInv, LedgerInv
<1>0. Idle.pc = "idle" /\ Idle.read = 0 /\ Idle.total = 0 /\ 0 \in 0..Len(Cards)
  BY ChaosAssumption DEF Idle
<1>2. CASE UNCHANGED <<drive, saf, dead, balance, kept, undrained, unreturned>>
  <2>1. MoneyTyped' /\ Reached' = Reached /\ (~undrained => Drained')
    BY <1>1, <1>2, Zenon DEF MoneyTyped, Reached, Drained, LedgerInv
  <2>2. \A c \in Card : Settled(c)' = Settled(c)
    BY <1>2, Zenon DEF Settled, Astray
  <2> QED BY <1>2, <2>1, <2>2, NothingApproved, Zenon DEF Read
<1>3. CASE DrainAfter \/ Counted \/ Fired \/ CountReversed \/ Opened
  BY <1>3, MoveSteps
<1>4. CASE ReadOpening \/ ReadClosing
  BY <1>4, OpeningStep, ClosingStep
<1>5. CASE \E c \in Card, o \in Outcomes : Fire(c, o)
  BY <1>5, PurchaseStep
<1>6. ASSUME NEW c \in Card, NEW o \in Outcomes, FireFails(c, o) PROVE LedgerInv'
  <2>1. Purchase(c, o) /\ drive' = Idle /\ unreturned' = unreturned
    BY <1>6, Zenon DEF FireFails, Purchase
  <2>2. saf' \in Queue /\ dead' \in Queue /\ kept' \in [Card -> Nat]
    BY <1>1, <2>1, PurchaseSettles, Zenon
  <2>3. MoneyTyped'
    BY <1>0, <1>1, <2>1, <2>2, Zenon DEF MoneyTyped
  <2> QED BY <1>0, <2>1, <2>3, NoneRead, Zenon
<1>7. CASE FailRun \/ Verify \/ Restart
  <2>1. UNCHANGED <<saf, dead, kept, unreturned>> /\ drive' = Idle
    BY <1>7, Zenon DEF FailRun, Verify, Restart, moneyVars, tally
  <2>2. MoneyTyped'
    BY <1>0, <1>1, <2>1, Zenon DEF MoneyTyped
  <2> QED BY <1>0, <2>1, <2>2, NoneRead, Zenon
<1>8. ASSUME NEW c \in Card, SafStep(c) PROVE LedgerInv'
  <2>1. /\ \A e \in Card : Settled(e)' = Settled(e)
        /\ saf' \in Queue /\ dead' \in Queue /\ kept' \in [Card -> Nat]
        /\ UNCHANGED <<drive, undrained, unreturned>> /\ (saf # NoReversals \/ dead # NoReversals)
    BY <1>1, <1>8, WorkerSettles, Zenon
  <2>2. MoneyTyped' /\ Reached' = Reached
    BY <1>1, <2>1, Zenon DEF MoneyTyped, Reached
  <2>3. ~undrained' => ~undrained /\ Drained'
    BY <2>1, Zenon DEF LedgerInv, Drained
  <2> QED BY <2>1, <2>2, <2>3, NothingApproved, Zenon DEF Read
<1>9. CASE \E k \in Keys, size \in Sizes : StartRun(k, size)
  <2>1. UNCHANGED <<saf, dead, kept, unreturned>> /\ drive' = [Idle EXCEPT !.pc = "drain before"]
    BY <1>9, Zenon DEF StartRun, moneyVars, tally
  <2>2. drive'.pc = "drain before" /\ drive'.read = 0 /\ drive'.total = 0
    BY <2>1, Zenon DEF Idle
  <2>3. MoneyTyped'
    BY <1>0, <1>1, <2>1, <2>2, Zenon DEF MoneyTyped
  <2> QED BY <2>2, <2>3, NoneRead, Zenon
<1>10. CASE DrainBefore
  <2>1. /\ drive.pc = "drain before" /\ dead = NoReversals /\ drive' = [drive EXCEPT !.pc = "opening"]
        /\ UNCHANGED <<saf, dead>> /\ (~undrained' => saf = NoReversals)
        /\ kept' = [c \in Card |-> 0] /\ unreturned' = 0 /\ drive \in Drive
    BY <1>1, <1>10, Zenon DEF DrainBefore, WaitForSafDrain, Outstanding, moneyVars, Typed
  <2>2. drive'.pc = "opening" /\ drive'.read = 0 /\ drive'.total = 0
    BY <1>1, <2>1 DEF MoneyTyped, Drive
  <2>3. kept' \in [Card -> Nat] /\ unreturned' \in Int /\ \A c \in Card : kept'[c] = 0
    <3>1. 0 \in Nat /\ 0 \in Int
      OBVIOUS
    <3> QED BY <2>1, <3>1, Zenon
  <2>4. MoneyTyped'
    BY <1>0, <1>1, <2>1, <2>2, <2>3, Zenon DEF MoneyTyped
  <2>5. ~undrained' => Drained'
    BY <2>1, <2>3, Zenon DEF Drained
  <2> QED BY <2>1, <2>2, <2>4, <2>5, NoneRead, Zenon
<1>11. CASE \E h \in Handlers : PutStep(h) \/ \E id \in Scenarios, enabled \in BOOLEAN : PutArrives(h, id, enabled)
  <2>1. UNCHANGED runVars /\ UNCHANGED moneyVars /\ UNCHANGED tally
    BY <1>11, Zenon DEF PutStep, SetToxic, CurrentUpstream, UpdateUpstream, NoteState, PutArrives
  <2> QED BY <1>2, <2>1 DEF runVars, moneyVars, tally
<1>12. CASE UNCHANGED vars
  BY <1>2, <1>12 DEF vars, runVars, moneyVars, tally
<1> QED BY <1>3, <1>4, <1>5, <1>6, <1>7, <1>8, <1>9, <1>10, <1>11, <1>12, Zenon DEF Next, DriveStep

(* What VerdictSound asks of a step. *)
TrueVerdict ==
    drive.pc = "closing" /\ active' = 0 /\ restarts' = restarts =>
        LET run == runs'[active] IN
        run.failure # "RUN_ERROR" /\ ~undrained => (run.status = "PASSED" <=> unreturned = 0)

(* Two readings of one sum differ, once the approvals are taken off the first, by what was astray. *)
LEMMA Difference ==
    ASSUME drive.total \in Int, drive.opening \in Int, drive.approved \in Int, unreturned \in Int,
           drive.total + unreturned = drive.opening - drive.approved
    PROVE  Discrepancy = 0 <=> unreturned = 0
BY DEF Discrepancy

(* The discrepancy that verify computes is the money astray when the balances were read. *)
LEMMA VerdictStep == IInv /\ LedgerInv /\ [Next]_vars => [TrueVerdict]_vars
<1> SUFFICES ASSUME IInv, LedgerInv, Next, drive.pc = "closing", active' = 0, restarts' = restarts,
                    runs'[active].failure # "RUN_ERROR", ~undrained
             PROVE  runs'[active].status = "PASSED" <=> unreturned = 0
  BY DEF TrueVerdict
<1>1. active # 0 /\ drive \in Drive /\ runs \in Seq(Run) /\ active \in DOMAIN runs
  BY DEF IInv, Typed, Driven
<1>2. Current \in Run
  BY <1>1, CurrentRun
<1>3. CASE Verify
  <2> DEFINE st == IF Discrepancy = 0 THEN "PASSED" ELSE "FAILED"
             why == IF Discrepancy = 0 THEN "" ELSE "LEDGER_MISMATCH"
             r == [Current EXCEPT !.status = st, !.failure = why]
  <2>1. runs'[active].status = st
    <3>1. runs' = [runs EXCEPT ![active] = r]
      BY <1>3 DEF Verify, Update
    <3>2. r.status = st
      BY <1>2, Zenon DEF Run
    <3> HIDE DEF r
    <3> QED BY <1>1, <3>1, <3>2
  <2>2. PICK sum : Totals(sum) /\ Read(sum)
    BY DEF LedgerInv
  <2>3. drive.total + unreturned = sum[Len(Cards)] /\ drive.opening - drive.approved = sum[Len(Cards)]
    BY <1>3, <2>2 DEF Read, Verify
  <2>4. drive.total \in Int /\ drive.opening \in Int /\ drive.approved \in Int /\ unreturned \in Int
    BY <1>1 DEF Drive, LedgerInv, MoneyTyped
  <2>5. Discrepancy = 0 <=> unreturned = 0
    <3>1. drive.total + unreturned = drive.opening - drive.approved
      BY <2>3, Zenon
    <3> QED BY <2>4, <3>1, Difference, Zenon
  <2> QED BY <2>1, <2>5
<1>4. CASE FailRun
  <2> DEFINE r == [Current EXCEPT !.status = "FAILED", !.failure = "RUN_ERROR"]
  <2>1. runs' = [runs EXCEPT ![active] = r]
    BY <1>4 DEF FailRun, Update
  <2>2. r.failure = "RUN_ERROR"
    BY <1>2, Zenon DEF Run
  <2> HIDE DEF r
  <2> QED BY <1>1, <2>1, <2>2
<1>5. CASE Restart
  <2>1. restarts' = restarts + 1 /\ restarts < MaxRestarts
    BY <1>5, Zenon DEF Restart
  <2> QED BY <2>1
<1>6. CASE \/ ReadClosing
           \/ \E c \in Card : SafStep(c)
           \/ \E h \in Handlers : PutStep(h) \/ \E id \in Scenarios, enabled \in BOOLEAN : PutArrives(h, id, enabled)
  <2>1. active' = active
    BY <1>6, Zenon DEF ReadClosing, ReadCard, SafStep, SafAcked, SafMisses, SafDead, BooksLate, PutStep, SetToxic,
                CurrentUpstream, UpdateUpstream, NoteState, PutArrives, runVars
  <2> QED BY <1>1, <2>1
<1>7. ~(DrainBefore \/ DrainAfter \/ Counted \/ Fired \/ CountReversed \/ Opened \/ ReadOpening)
      /\ ~(\E c \in Card, o \in Outcomes : FireFails(c, o) \/ Fire(c, o))
      /\ ~(\E k \in Keys, size \in Sizes : StartRun(k, size))
  BY <1>1, Zenon DEF DrainBefore, DrainAfter, WaitForSafDrain, Counted, Fired, CountReversed, Opened, ReadOpening, FireFails,
              Fire, StartRun
<1> QED BY <1>3, <1>4, <1>5, <1>6, <1>7, Zenon DEF Next, DriveStep

(* A run that found saf_queue empty when its first drain ended, and that no error ended, passes just
   when none of the cards it read last was short of money taken for no approved purchase: a reversal
   pending or dead, a reversal that missed its purchase, a decline that was booked. This for any
   number of cards and of purchases of the one amount, and whatever the SAF worker does between the
   reads (fire, reversalQueued, balanceTotal, verify). *)
THEOREM VerdictsTrue == Spec => VerdictSound
<1>1. Init => LedgerInv
  <2> SUFFICES ASSUME Init PROVE LedgerInv
    OBVIOUS
  <2>1. /\ saf = NoReversals /\ dead = NoReversals /\ kept = [c \in Card |-> 0] /\ unreturned = 0
        /\ balance = [c \in Card |-> 0] /\ drive = Idle
    BY Zenon DEF Init
  <2>2. drive.pc = "idle" /\ drive.read = 0 /\ drive.total = 0
    BY <2>1 DEF Idle
  <2>3. MoneyTyped
    <3>1. saf \in Queue /\ dead \in Queue /\ kept \in [Card -> Nat] /\ unreturned \in Int
      BY <2>1 DEF NoReversals, Queue
    <3> QED BY <2>2, <3>1, ChaosAssumption DEF MoneyTyped
  <2> DEFINE zero == [i \in 0..Len(Cards) |-> 0]
  <2>4. Totals(zero)
    <3>1. 0 \in 0..Len(Cards) /\ 0 \in Int /\ \A i : i \notin 1..0
      BY ChaosAssumption
    <3>2. Reached = 0
      BY <2>2, Zenon DEF Reached
    <3> QED BY <3>1, <3>2, Zenon DEF Totals
  <2>5. Read(zero) /\ Drained
    BY <2>2 DEF Read, Drained
  <2> QED BY <2>3, <2>4, <2>5 DEF LedgerInv
<1>2. VerdictSound <=> [][TrueVerdict]_vars
  BY PTL DEF VerdictSound, TrueVerdict
<1> QED BY <1>1, <1>2, Inductive, LedgerStep, VerdictStep, PTL DEF Spec
=============================================================================
