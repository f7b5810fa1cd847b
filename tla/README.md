# Formal model of the mini card network

TLA+ specifications of the acquirer gateway (`src/gateway-go`), the jPOS issuer
(`src/issuer-jpos`) and the ISO 8583 link between them, TLC configurations that
check them on small instances, and TLAPS proofs of the properties that matter
most. `PROJECT.json` maps every definition to the lines it models.

## The system

A POS posts a purchase to the gateway over REST with an idempotency key. The
gateway logs it, sends a 0200, waits up to 30 s for the 0210 and records the
outcome. Whenever the outcome is unknown it owes the issuer a reversal: a 0420
queued in the same database transaction that moves the row to
`REVERSAL_PENDING`, delivered by a store-and-forward (SAF) worker as 0420 and
then 0421 until a verified 0430 with code 00. An unknown completion of a
pre-authorization is repeated as 0221 instead. An orphan sweeper finds rows
whose request died. The issuer runs each 0200 through a chain of jPOS
participants, each with a database connection of its own, and each 0420 through
a second chain; several sessions of both run in parallel.

| Part | State | Operations | Module |
|---|---|---|---|
| Idempotency keys | `idempotency_record` | Reserve, AttachRRN, Reclaim, Store, Release | `Idempotency` |
| Purchase service | `tran_log` | create, send, finalize, cancel, late response | `Gateway` |
| Reversal queue, SAF worker | `saf_queue`, `tran_log` | Queue, QueueAdvice, ClaimDue, deliverRow, settle, retryLater, waitForLink, MarkAcked, MarkDead | `Gateway`, `AdvTxn` |
| Orphan sweeper | the batch it read | SweepOnce, followUp | `Gateway`, `AdvTxn` |
| Advanced transactions | `tran_log.completed_by` | pre-auth, completion, refund, balance | `AdvTxn` |
| Issuer authorization and reversal chains | `tran_log`, journals, account, counters, card, `reversal_without_original` | thirteen participants | `Issuer` |
| Both hosts together | the two databases and the messages | | `CardNetwork` |
| Link: supervisor and mux | connection, published Mux, lock, pending channels, sign-on | dial, sign-on, echo, re-sign-on, operator's triggers, Send, Serve | `Link` |
| Key rotation | `key_store` on both sides, `key_rotation`, the key in memory | generate, 0800/161, confirm, activate, recover | `KeyRotation` |
| Chaos lab | runs, replays, scenarios, the proxy | start, drive, verify, time limit, PUT | `Chaos` |
| Journey of a transaction | row, history, reversal; what is shown | three reads, BuildJourney | `Journey` |
| Transaction and event lists, STAN, RRN | counter, rows, cursor | draw, resume, insert, list | `TranLog` |
| Codec, HTTP rendering, WebSocket, lab decoder, HSM, seed, business date, card administration, web client, settlement | none, or presentation | | not modelled |

The hard part is that nothing is exactly once. Requests time out while the
issuer is still approving; answers arrive late; the sweeper, the request and a
cancellation race for the same row; a commit succeeds and its reply is lost;
copies of one message run on parallel sessions. The `hazards` of `PROJECT.json`
list these at the lines where they bite, with the property that covers each.

## Modules

**`Idempotency`** models one table row per key and requests that share it. A
request goes through `Reserve` (`Claimable` is the conflict clause), or reads
the stored response (`Lookup`), or takes over a stale reservation (`Reclaim`).
It creates its row, attaches its RRN under its token (`Holds`), marks the row
SENT and sends, records and stores (`Store`) or releases. `Age` lets a
reservation grow stale and then expire; a new life of the key is an epoch,
bounded by `MaxEpoch`. A crash stops one request at any point; a request may
also simply be slow.

**`Gateway`** models the purchase service, cancellations, the sweeper and the
SAF worker over `tran_log` (`state`, `code`) and `saf_queue` (`queued`, `adv`).
An action is one database statement or transaction, one write to the link or
one received response. `inbox` and `outbox` are sets of messages on the link:
a message may wait for ever (lost), overtake another, or be written again.
Timeouts may happen at any moment, so a late answer is any answer after one.
`Faults` enables failing statements, a dropping link and unresolvable tokens.
`left` and `heard` are history variables: what was written to the link, and
the last verified code.

**`AdvTxn`** models the four advanced transactions in the same style. `by` is
`completed_by`: `InsertCompletion` claims the pre-authorization in the
transaction that inserts the completion, `ReleaseClaim` gives it up. `saf[t]`
has one place for the row its request queues and one for the sweeper's, since
`QueueAdvice` has no guard. The issuer has no hold chain yet, so it answers any
code or nothing. `torn` is a history variable: the completions one of whose own
statements failed.

**`Issuer`** models both transaction managers. Each session has a context
(`sess`, `rev`) whose `pc` is the next participant; one action is one database
transaction, so everything may change between two participants. Journals are
counted per original (`posted`, `undone`). `balance`, `count` and `spent` are
the account and the day's velocity counters, `lastAtc` the card's last EMV
counter. `Faults` enables a link not signed on, a blocked card, failing
verification, failing statements, commits whose reply is lost, and crashes.

**`Hold`** is what the issuer promises about money: for each request it is
free, then held or void, and once held may be returned. `Issuer` is shown to
implement it. **`Purchase`** extends it by what the acquirer tells: approved
only while the money is held, declined or reversed only when none is, and the
money then stays where it is. **`CardNetwork`** instantiates `Gateway` and
`Issuer` on one pair of message sets, so that the gateway only reads what this
issuer answered, and is shown to implement `Purchase`. `Told` maps a row to
what it tells: the 96 of a bad MAC is still open, and so is a REVERSED row whose
reversal the issuer recorded in `reversal_without_original` before it had the
original, until the issuer turns that original down or returns its money
(`ReverseLate`).

**`Link`** models the goroutines that share a connection: the supervision loop
(`sup`), the operator (`manual`), requests (`req`) and the reader. A step ends
where the goroutine blocks. `lock` is `triggerMu`, `mux` says whether the Mux
is published, `chan` holds the one-slot channels of the sends and `again` the
wake-up that a 91 leaves for the loop. `status` is `link_state`, told apart only
as DOWN or not: `SetStatus` drops a store error, so each write may be lost.

**`KeyRotation`** models the runner's steps (`run`), `key_rotation` (`rot`),
both key stores, the key in memory (`zak`) and one response under way
(`flight`), which is verified with `Tried`: the key in memory, the newest
PENDING key and the one retired within the window. `Start` may commit its row
and start no goroutine (`runner.go:134-141`). `late`, `unreloaded` and `unsaid`
are history variables that name the excused cases; `unsaid` holds the RUNNING
rotations that no goroutine is left to end before a restart.

**`Chaos`** models runs and the handlers that start them, and the scenarios
with the PUTs that change them. Purchases all have one amount (`fixedAmountMinor`),
which is the unit of money. A purchase may be declined although the issuer
booked it, a reversal may be delivered, given up, or acknowledged while its
purchase has no row yet (`SafMisses`), and the issuer may book late
(`BooksLate`). `kept` and `unreturned` are history variables that follow the
money debited for no approved purchase; `undrained` says that reversals were
outstanding when the run began.

**`Journey`** models the records of one transaction as handler, sweeper,
worker and seed write them, and a client's request as the three reads that
`handleGetTransactionJourney` makes, with `BuildJourney` evaluated on what they
saw. `held` is the money at the issuer, which may still be `deciding` a request
that timed out, and may have booked one it then answers with a decline; `missed`
records a 0420 acknowledged before its request had a row. **`TranLog`** models the STAN counter and the rows, and a client that
follows cursors (`walk`).

**`MC*`** give small instances. **`*Proofs`** hold theorems and lemmas.

In every module, definitions introduced by "Variant" are deliberately wrong
forms of the definition after them. They are used by no action; they show that
the properties are sensitive to the mistake they describe.

### Abstractions

* A message is its type, the original it is about and a copy number. MACs,
  PINs and cryptograms are outcomes of a check. Related response codes share
  one representative (62 stands for 14, 54 and 75).
* One card, one account, one business date, one acquirer, one key type.
* Time is order only: "stale", "old" and "due" become true at any moment.
  `Journey` and `TranLog` have a clock, because their outputs contain times.
* The issuer's double-entry journal is represented by its customer leg.
* `tran_state_history` is in `Journey`; elsewhere only its failing insert is,
  because it ends a request. Metrics, logs and broadcasts are left out.

## Runs

| Run | What it asks | Distinct states |
|---|---|---|
| `idempotency_keys` | three requests under one key, two bodies, takeovers, crashes, expiry: one send at most, no foreign answer | 1,190,337 |
| `issuer_repeats` | two copies of a chip 0200 and two of its 0420, all faults: rows, journals and answers agree, `Hold` is implemented | 2,036,453 |
| `issuer_account` | four debits, a credit, an invalid request and a reversal on one account: counters, floor and limits | 1,148,782 |
| `gateway_race` | one purchase, its duplicate and two cancellations against everything that can happen to them | 956,608 |
| `network_purchase` | the two databases never contradict each other (`Purchase` is implemented), and agree in the end | 385,592 |
| `network_commit` | does a decline hold no money when a commit's reply is lost? Violated | stops after some 3,000 |
| `advtxn_claims` | a pre-authorization with two completions; a refund and an inquiry: claims, follow-ups, outcomes | 349,568 |
| `link_supervision` | the lock; a lost connection told; recovery from a 91, a break and a blocked reader | 400,468 |
| `rotation_keys` | two rotations with failures, crashes and repeated 0800s: a common key, verified responses, a decision | 181,431 |
| `chaos_lab` | runs, replays and concurrent PUTs: one run, true verdicts, true reports | 1,425,745 |
| `journey_told` | is the journey told from torn records ordered, consistent, complete and stable? | 1,851,147 |
| `tranlog_pages` | are RRNs unique and pages complete, while requests, restarts and the clock go on? | 2,188,143 |

All but `network_commit` hold. `ImplementsPurchase` says step by step that an
APPROVED row has its money held, that a REVERSED one has it returned and that a
DECLINED one never takes any, so these are no invariants of their own in
`network_purchase`. `DeclinedHoldsNothing` remains as the sentence that
`network_commit` refutes.

### What the properties excuse

A property that would not hold as the documentation states it names the
exception, and holds without it. The exceptions are the places where code and
documentation differ:

* `network_commit`: a participant that throws leaves the 0210 without DE 39.
  The gateway records it as a decline (30) and queues no reversal. If money was
  posted, by a commit whose reply was lost, it stays posted. `findings` quotes
  the sentence. `network_purchase` has no lost commits and no duplicates.
* `Deduplicate` and `LocateAndReverse` check and write in separate
  transactions, so a 0420 can slip between a 0200's lookup and its insert; both
  are then answered 00 and the money stays debited, where
  `docs/03-iso8583-interface-spec.md:147` has the original declined.
  `EventuallyReconciled` leaves out what is in `reversal_without_original`, and
  `Told` counts it as open until the issuer has settled it. A journey of such a
  purchase shows the reversal as confirmed while the issuer holds the money:
  `ReversalTold` and `NothingHidden` name this case (`missed`).
* A journey has no money for a decline without a reversal. `NothingHidden` names
  it: the decline may be one whose request the issuer had booked, as in
  `network_commit`, or a 96 of a bad MAC whose reversal is yet to be queued.
* Checks after `Deduplicate` also run for duplicates and replace the stored
  code (`docs/03-iso8583-interface-spec.md:156` wants it replayed). The money is
  not affected.
* `Store` is not fenced by the reservation token, so a slow request may replace
  a response that a later one stored, of the same body.
* A completion whose own statement failed after its commit may release a claim
  it still needs; a second completion can then be approved as well (`torn`).
  A completion that stops between its claim and SENT keeps the claim for good.
* Between the commit of a key's activation and its reload in memory a response
  under the new key is refused (`docs/06-user-stories.md:290`: "transactions
  during rotation succeed"). Of two PENDING keys only the newest is tried. A
  copy of an 0800 that the issuer reads after the next rotation has begun makes
  it use the older key, unless it has retired that one (`late`).
* A rotation whose row was committed by a `Start` that then failed, or that
  could not be recovered at start-up, stays RUNNING until the next restart.
  `EventuallyDecided` leaves it out while it is in `unsaid`.
* The chaos runner's drain waits for the number of DEAD rows to be zero, not
  for the queue to be empty (`verify.go:139` takes the second result of
  `ListPending`). A run may therefore begin while reversals of an earlier one are
  pending, and one of those that lands during the run can hide one of its own
  that is lost: `VerdictSound` leaves such runs out (`undrained`). After the
  purchases the same drain makes a run fail when a reversal was merely late;
  there the verdict is still true of what was read, which is what
  `VerdictSound` says. Overlapping PUTs of DROP_RESPONSE, a lost answer
  of the proxy or a restart can leave the fake issuer in place (`excused`).
* After the STANs of one hour wrapped, a restart resumes from the highest and
  not from the last, and RRNs of that hour repeat (`wrapped`).
* The status of the link may be stale: an operator's action writes it after it
  released the lock, and `setStatus` drops the store's error. `DownIsTold` says
  that a lost connection does not stay untold for ever.
* The daily count is read before the account is locked, so parallel sessions
  overshoot it; `CountOvershootBounded` says by how much. A link that drops
  after the chaos duplicate was written leaves a 91 with a copy on the wire;
  `OutcomeWasHeard` excuses exactly that.

### Bounds

* One purchase with its duplicate and up to two cancellations in `Gateway`:
  its races are between a request, the cancellations, the sweeper and the
  worker over one row, and the theorems cover any number of purchases.
* In `Issuer` two sessions and up to six originals; two copies of each message
  where repeats matter, one reversal session where they do not. In `CardNetwork`
  one session of each manager, because the issuer's own races are in its runs;
  the theorem covers any number of sessions and purchases.
  Balance inquiries (kind NONE) are in no run of the issuer; the theorems
  include them.
* Three requests per idempotency key, because a takeover needs a holder, a
  successor and a third that meets both.
* Three advanced transactions: a pre-authorization and two completions compete
  for one claim, and the second scenario has the three other kinds. Database
  failures and crashes are one each; the theorems cover any number.
* One request sent twice in `Link`, which is what fills a channel; one break,
  one operator's action, two echo failures to the limit (the code has 3).
* Two rotations: an unknown outcome of the first meets the second. One failure,
  one crash, two attempts.
* Two keys, two PUTs at once, two cards and three purchases in `Chaos`. A
  behaviour has runs or PUTs, since neither reads the other's state.
* `Journey` has a clock of two readings, two to a second (the precision of
  DE 7), so that times may be equal, differ, and round to one second.
* `TranLog` has 3 STANs, one tick to the hour, pages of one row and three rows,
  so that hours change, counts wrap and a page has a successor.
* `MaxAttempts = 2` distinguishes first send, repeat and dead letter (the code
  has 20). `MaxCrashes = 1`, `MaxEpoch = 1`: each crash or expiry is recovered
  from before another adds anything new.
* Amounts 1 to 6 with opening balances 1 to 3, so that funds, floor and limits
  are each met and exceeded.
* Deadlock is not checked: a run ends when its finite set of requests is done.
* Sessions, cancellations, equal debits and equal requests are interchangeable
  and are declared symmetric in runs without liveness.

### Fairness

* `CardNetwork` and `AdvTxn`: goroutines which can run do run, rows age and
  retries fall due, the sweeper and the worker tick for ever (`time.Ticker`
  loops that log errors and continue), and the link is up for ever from some
  moment on (the supervisor redials without limit, so only the network could
  prevent it). No purchase is assumed to start, and nothing is assumed of the
  issuer: its sessions may stop for ever between any two steps. In `AdvTxn` an
  advice that is sent again and again is at some time answered with something
  other than 91 or times out: each 91 makes the supervisor sign on again.
* `Link`: the loop runs, the operator's exchange ends by its time limit, the
  issuer reads the sign-ons it is sent, and a ready re-sign-on is not passed over
  for ever (Go's `select` chooses at random). The reader and the requests may
  stop for ever. What the code cannot bring about is a premise of the property
  that needs it: the issuer does not refuse every connection (`IssuerAccepts`, in
  `SignsOnAgain` and `Reconnects`), and the database not every DOWN
  (`StoreRecovers`, in `DownIsTold`).
* `KeyRotation`: the runner's goroutine runs and its exchanges end by their time
  limit; a crashed gateway is restarted.
* `Idempotency`, `Issuer`, `Gateway`, `Chaos`, `Journey` and `TranLog` are
  checked for safety only; what must happen in the end is in the runs above.
  That a chaos run ends follows from its time limit alone, so it is not stated.

## Proofs

The theorems hold for any number of requests, purchases, cancellations,
sessions, originals, rotations, runs and messages, and for any bounds. They
assume only the named assumptions on the constants (`IssuerAssumption`,
`GatewayAssumption`, `IdempotencyAssumption`, `AdvTxnAssumption`,
`LinkAssumption`, `RotationAssumption`, `ChaosAssumption`,
`NetworkAssumption`, `TranLogAssumption`, `JourneyAssumption`). Each component
has an inductive invariant, preserved by one lemma per action or group of
actions. `PartsProofs` holds the proofs of three components that share no
state: `Idempotency`, `Link` and `KeyRotation` (the definitions of the first two
carry the component's name, as in `LinkInit`, so that one module can extend all
three).

* **`PartsProofs`, idempotency**: `OneSendPerKey`, `AnswersOwnRequest`. Two requests
  could both be about to send unless the token decides who may: `TokenInv` and
  `RRNInv` say that only the holder whose token is in the row gets past
  AttachRRN, and that a row with an RRN is never reclaimed. `CommittedInv` and
  `OneCommitted` carry this over the sends, `EpochInv` over expiry.
* **`IssuerProofs`**: `MoneyFollowsRow`, `ApprovalsAreBooked`,
  `AcknowledgementsAreFinal`. `RowDecidesMoney` is preserved because every
  write to the journal is conditional on the row. The answers need `CodeInv` (a
  00 that is stored, held by a session or sent is backed by a journal) and
  `RevInv` (what a reversal session read remains true until it acts). `Forward`
  collects what no step undoes, so that sessions other than the acting one are
  handled once. On this invariant rest `DecidedRowsStay`, `FloorKept` and the
  refinement `IssuerImplementsHold`, for which every step is classified as
  touching no money, writing a row, booking or undoing one original.
  `OvershootBounded` counts the sessions between check and increment
  (`CountInv`): count and such sessions together never exceed the limit by more
  than the sessions but one. `AccountMatchesJournal` proves
  `CountersMatchJournal`: balance, count and amount of the day are those of the
  originals on the books (`LedgerInv`), so the floors of `decrementDaily` never
  act. The sums are folds over sets. That such a fold adds up each member once,
  whichever it takes first, is proved by a smallest counterexample
  (`NatLessThanWellFounded`) over the table of the totals of all subsets
  (`Totals`, `AnyFirst`).
* **`GatewayProofs`**: `ReversedOnce`, `RowsMoveForward`, `OutcomesAreHeard`,
  `DeclinesAreFinal`.
  `OneReversal` is inductive with `WorkerInv` (what the worker claimed is
  queued) and `RequestInv` (what a request remembers after its send).
  `OutcomesAreHeard` needs `HeardOK`: a code a request holds after its send is
  the last one heard, so that recording it records what the issuer said.
  `DeclinesAreFinal` says that a decline other than the 96 of a bad MAC never
  changes; `DeclineOK` is why a request or the sweeper that is about to reverse
  a DECLINED row has found a 96.
* **`CardNetworkProofs`**: `NetworkImplementsPurchase` is the refinement of
  `Purchase` for any number of purchases, cancellations, sessions, attempts and
  crashes; `DeclinesHoldNothing` is the sentence that `network_commit` refutes.
  Both assume `Reliable`: no lost COMMIT reply and no chaos duplicate, which are
  the two cases in which the code does not keep them. The invariants of the two
  sides, and what a step of each does to the link, are taken from their own
  proofs by `INSTANCE`. The issuer's `CopyInv` says that the one copy of a 0200
  is in one place (unread, in one session, or answered) and that the journal
  holds what the code decided there says; `CopyStep` proves that the issuer
  keeps it and makes no copies, `LinkSteps` that the gateway writes one. Two
  more facts join the sides. `SentOK` says what the journal holds before a
  0200 leaves and after its answer is heard, so that nobody books a purchase
  whose outcome was told. `AheadInv` says that a reversal is on its way, at work
  or done only if its row is being reversed (`ReversalSteps`: only a 0420 that
  was read reverses), so that nobody returns the money of an APPROVED row. Each
  step is then one change of one purchase (`Allowed`), classified by
  `MoneyCases` on the issuer's side and by `RowSteps` on the gateway's.

  The proof corrected the mapping. With two reversal sessions, as deployed, a
  session that found no original may insert into `reversal_without_original`
  after another copy of the 0420 reversed the original and was acknowledged: a
  row that tells "reversed" would have become open again. `Told` therefore asks
  what the issuer's row says.
* **`AdvTxnProofs`**: `ClaimHeldWhileSent`, `PreAuthCompletedOnce`,
  `OutcomesAreKept`, `TablesAgree`. `ClaimKept` says who holds a claim: whoever may still send
  a completion, or did, through request, sweeper and queue. Two approved
  completions would both hold the one claim. `Reversing96` says that a decline
  someone still means to reverse is that of a bad MAC. `TablesAgree` rests on
  `FollowInv`: the row the worker waits on is PENDING, and what `saf_queue` and
  `tran_log` say of a transaction follow one another.
* **`PartsProofs`, link**: `ExchangesAreAlone`. `Locking` ties the lock to the
  steps at which it is held and the Mux to those at which it is published.
* **`PartsProofs`, key rotation**: `UsedKeyKept`, `SharedWhenCompleted`,
  `ResponsesVerify`. The gateway may
  only retire a key that no copy of an 0800 can still bring to the issuer:
  `OnTheWay` says which copies may exist at each step, `Progress` what an answer
  the runner holds implies, `Through` and `InMemory` that a rotation past its
  activation is shared, on disk and in memory. `InOrder` and `OneActive` make
  "the newest rotation" and "the ACTIVE key" well defined. `ResponsesVerify`
  adds `UsedKeys` (a key once activated is ACTIVE or RETIRED) and `InFlight`
  (the key of a response under way is ACTIVE, or was retired by the only
  activation since).
* **`ChaosProofs`**: `OneRunAtATime`, `RetriesStartNothing`, `EndedRunsStay`.
  `Driven` ties the run's goroutine to the slot, `Keyed` counts the keys that
  started a run: each start uses a new key and appends one run. The last two
  of these (`KeyStartsOnce`, `FinalKept`) have no run of their own.
  `VerdictsTrue` proves `VerdictSound` for any number of cards and of purchases
  of the one amount: the balances read so far, and what was astray when they were
  read, add up to what the approved purchases of those cards account for
  (`LedgerInv`, where some table of running totals exists instead of a sum over
  the cards). `ListTellsProxy` proves `ScenariosReported`: unless
  excused, the list lags behind the proxy only while one PUT is about to note
  what it did (`RouteInv`).
* **`TranLogProofs`**: `RRNsAreUnique`, `RowsListedOnce`, `RowsNotSkipped`, for
  any modulus, hours, requests, restarts, page size and rows. `NumberInv` is
  what uniqueness needs. `CountInv`: no count is drawn twice, and no request
  outlives the process that drew its count. `HourInv`: in an hour that did not
  wrap every RRN of the hour is at or below the counter, which is what
  `ResumeSTANAfter` restores, and none has the STAN of a request that is still
  to name its row. `UniqueInv` extends `RRNUnique` to requests whose insert has
  not committed. `WalkInv` is what the lists need: the cursor is the key of the
  last row given, and a row that is due was given or lies past the cursor. A
  page is characterised by counting the newer rows of each row (`Newer`): every
  place up to the length of the page is taken by exactly one row.
* **`JourneyProofs`**: `JourneysInOrder`, `ReversalsAreTold`, `MoneyIsShown`,
  and the action property `JourneysGrow`, for any clock and any sequence of
  writes and reads. First the algorithms: `withOffsets` keeps the codes and
  never goes back, `insertAtOffset` keeps order and the places of the steps it
  passes, and what `BuildJourney` tells is a function of what was read. Then
  the records: `HandlerInv` says what row and history are at each of the
  handler's statements, `RecordInv` how row, history and `saf_queue` agree, and
  that behind a REVERSED row the issuer holds nothing and decides nothing, unless
  the 0420 missed the request (`Returned`).
  `Grows` collects what no step takes back. `ViewInv` relates the reads made so
  far to the records, and `ShownInv` says that what is shown was built from
  three reads that still tell the truth (`Tells`): because the row is read
  first and the reversal last, a row seen as REVERSED has its history and its
  confirmation, and an outcome that was told is not replaced by another
  (`Settled`). The last theorem compares the reads behind two answers.

`Idempotency`, `Issuer`, `Gateway` and `AdvTxn` state their types as `TypeOK`,
which is proved (`TypeCorrect`, `WellTyped`); the types that the other proofs
need are in their `Typed`, `TypeOK` and `Locking`.

Every invariant, action property and refinement that a passing run checks is
also proved, but for `EventuallyReconciled` and the other liveness properties:
fairness is outside the prover, so these are only model-checked, on the bounds
above. `ImplementsPurchase` is proved under `Reliable`, which is how its run
is configured.

## Not modelled

See `components` in `PROJECT.json` for the list. In short:

* the field-level codec, framing, HTTP rendering, the Message Lab, the web
  client, WebSocket broadcasts, overview queries, metrics and logs change no
  state that another part reads;
* cryptography, whose checks are choices of an outcome;
* start-up: configuration and seed, except that the seed's backdating of a
  finished transaction is in `Journey`;
* the business date, which is wall-clock arithmetic: a repeat after midnight is
  a new request to `Deduplicate`, and no module crosses a date;
* card administration and PIN tries: single-row updates over HTTP, whose
  effects on an authorization are the outcomes of `CheckCard` and
  `VerifySecurity`;
* the issuer's hold and completion chain and settlement, which do not exist yet.
