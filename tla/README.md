# TLA+ models of kasway-axum

Kasway is a payment backend: a merchant mints an invoice, a wallet turns it into a
*covenant address* on the Kaspa chain and funds it, an observer confirms the funding,
and the covenant is later spent (released, refunded, split, or captured by the server).
The interesting part is not any one handler. It is that about a dozen handlers and five
polling workers write the same few rows with SQL statements that **commit one by one**
(no transaction spans two statements anywhere on these paths), while the chain moves on
its own. The coins a settlement spends, the webhooks that report it and the configuration an invoice
is minted from have the same shape: several requests, a few statements each, nothing around
them. These modules model that, model-check it on small instances, and prove the safety of every
part (settlement, payment window, billing, webhooks, coins, set-up and minting) for instances
of every size.

## 1. Inventory

Paths are below `src/crates/kasway-api/src/` unless they say otherwise.

| component | state | operations | hard behaviour | status |
|---|---|---|---|---|
| payment window: `handlers/checkout.rs`, `handlers/invoices.rs`, `invoice_expirer.rs` | `invoices.status`, `kpr1_payment_intents` (status, tx_id, submitted_at), cycle status | submit, show, cancel, fetch intent, `expire_invoice`, expirer tick | expiry is seven statements; a submission can land between any two | `PaymentWindow` |
| covenant finalization: `kpr1.rs` | covenant_state, covenant_address, `invoices.payment_address` | `finalize_covenant_for_invoice` | check-then-write by id; two payers; the deadline | `PaymentWindow`; minting and the split plan in `MerchantSetup` |
| chain observer: `chain_observer.rs` | observation row, anomaly signals, intent | tick: select, depth, outputs, record, mark | chain facts read in two calls, used after both; two-statement failure path | `PaymentWindow` |
| covenant keeper and settlement requests: `covenant_keeper.rs`, `handlers/internal_kpr1_ops.rs` | covenant_state as a lock, tx ids, invoice and cycle | keeper tick; customer release, arbiter release, merchant refund, arbiter refund, mutual settlement | six settlers of one UTXO; a broadcast whose answer is lost; a restart under a claim | `Settlement` (rows and claims), `CovenantLedger` (coins and transactions) |
| covenant crate: `../../kasway-covenant/` (contracts and builders) | coins | six spends of an escrow, two of a subscription cell, their builders | builder, contract and node must agree on every spend; what the parties signed is built a second time | `CovenantLedger`, `EscrowOutcome` |
| node client: `kaspa_wrpc.rs` | none | submit, outputs, DAA score, time | an effect without an answer | as environment |
| subscription biller: `subscription_biller.rs`, `handlers/subscriptions.rs` | subscriptions, cycles | due and orphan scans, generate, retry, pause, cancel | partial minting, unguarded writes, scans with a limit | `SubscriptionBilling` |
| webhook delivery: `webhook_worker.rs`, `handlers/webhooks.rs` | endpoints, events, deliveries | emit and fan out, test send, replays, endpoint changes; reap, claim, attempt, record | reaper against slow attempt; a batch that read its rows before a change; answers nobody hears | `WebhookDelivery`, `DeliveryPromise` |
| stores and setups: `handlers/stores.rs`, `handlers/setups.rs`, `store_context.rs` | stores, setups | lazy default store, switch of the default; save, merge, copy, adopt | read-modify-write without a lock or a unique index; two statements for one switch | `MerchantSetup` |
| payment links: `handlers/payment_links.rs` | links | create, disable, enable, spawn an invoice | disable against spawn | `MerchantSetup` |
| rate limit: `rate_limit.rs` | one process-wide window | `over_limit` | the window's boundary | not modelled |
| accounts, keys, catalogue, media, settings, explorer, utilities | single rows | CRUD, look-ups, formatting | none that crosses rows or time | not modelled |

How they interact: there are no messages and no in-process state between components. They
call one another (`expire_invoice` is called by five callers) and share rows. So a model of
"components" is a model of processes that read rows into locals and write rows later; what
was read and not yet used is the state `job` / `pc`, `cov` of the modules.

What makes each part correct:

* *payment window*: a transaction received by the deadline is never lost to a crossing
  expiry, one received later is never recorded, and a recorded one is never replaced;
* *finalization and observation*: `funded` is written only for a deep payment of the gross by
  the recorded transaction to the address on record; every candidate is decided; a wrong
  payment is reported once;
* *settlement*: one settler at a time, the record equals what the chain did, is final, and
  the books follow it; a covenant past its window gets spent;
* *billing*: a cycle has one invoice waiting for payment, a paid cycle stays paid, every due
  period is billed;
* *coins*: what the builders assemble, the contract and the node accept; each party ends with
  what the settlements promise it, less the gas that was its to pay; a cell loses its claims
  and nothing else; every escrow is settled in the end;
* *webhooks*: a delivery is attempted until it succeeds or its retry profile is used up, its
  outcome is not overwritten, and an accepted event is not sent again for nothing;
* *setups and minting*: one default store; rates that stay in bounds under crossing writes; a
  plan that pays out its invoice to the sompi, whatever row it was made from.

## 2. The modules

### `PaymentWindow`
One invoice, its intent and the cycle it bills; five kinds of request process, and the
expirer, the observer and the keeper. `job[p].pc` names the next statement of process `p`;
the rest of `job[p]` is what `p` has read. One action is one SQL statement, or one call to
the node, with the branch it decides. The `WHERE` clause of an `UPDATE` is evaluated in the
action that writes (`ClaimAccepts`, `ExpireIntentRow`); a check made on an earlier `SELECT`
uses `job[p]`.

* time is `clock`: `window` until `expires_at`, `late` after it, `capture` once the capture
  time is reached. Handlers may cross the payment deadline anywhere. They do not cross the
  whole capture window, which is days long: the second tick waits for `Quiet`;
* a covenant address is determined by the refund address compiled into it, so each finalize
  request stands for the address it computes;
* `chain[t]` says where transaction `t` pays, whether its outputs add up to the gross (`exact`),
  whether one of them is the gross (`whole`), and whether it has the confirmations the policy wants
  (`deep`). The observer compares the sum, the keeper looks for the one output; the policy look-up
  itself is not modelled;
* the observer examines the `CLAIM_BATCH` oldest candidates of all invoices. `ahead` is how many
  of them come before this one: it goes up and down freely (`OthersMove`), and the intent is in the
  batch while `ahead < CLAIM_BATCH`;
* `timely` is the SQL comparison `submitted_at <= expires_at`: the handler stamps the arrival
  before it reads anything, and that stamp is what `submitted_at` records;
* `SubmitRefused` stands for the early returns that depend on the rest of the request;
* any statement may fail (`StatementFails`): what was written before it stays and the request or
  the tick ends, except that the keeper catches an error of its record and gives its claim back
  (`KeeperRecordFails`). `Crash` ends every request in flight and returns the workers to the start of
  their tick. `cut` remembers what such a failure left undone for good: an invoice to reopen, a
  cycle to bring back, a wrong payment to report.

Initially the invoice has been minted with its intent, as `create_for_invoice` leaves it.

### `Settlement` and `EscrowOutcome`
Any number of covenants with funded rows; the keeper, five kinds of settlement request and
cancel. The row's `covenant_state` is the lock: `funded` → a claim state → a terminal one.
`spentBy[c]` is the chain. Failures are explicit: `BroadcastRejected`, `BroadcastAnswerLost`
(the node accepted, the caller got an error), `StatementFails` (with what the caller does with
the error: a request answers and leaves the row as it is, the keeper restores its claim),
`Crash`. The keeper takes the first `ClaimBatch` eligible rows in id order.

`EscrowOutcome` says what that is for: the value leaves the covenant once, along one tier,
and an invoice is booked as paid or refunded only for a spend that did so. `Settlement`
implements it under `outcome <- [c |-> "held" or Pays(spentBy[c])]`, `ledger <- invoice`.

### The proofs
`SettlementProofs`, `PaymentWindowProofs`, `WebhookDeliveryProofs`, `SubscriptionBillingProofs`,
`CovenantLedgerProofs` and `MerchantSetupProofs` each extend the module they are named for and
hold its theorems (section 5). `SumLemmas` has what two of them need of sums over functions and
sequences, as the folds of the community modules compute them: a fold step, that order does not
matter, linearity. The library's induction theorems take operators, which no installed prover can
instantiate; so an induction there is written with the set of naturals, or of subsets of the
domain, for which the claim holds.

### `SubscriptionBilling`
Subscriptions, their cycles (known by `period_start`, in units of an abstract time) and the
invoices that bill them (known by cycle and attempt, as their external id is). The biller's
tick is two scans with their `LIMIT`, and per item the statements of `generate_due_invoice`
and `generate_invoice_for_cycle`; creation and retry run the same statements as processes of
their own. What matters of a merchant's set-up is where a mint fails: `unentitled` before
anything is written, `invalid` after the invoice row is. `Expire`, `Submit` and `Pay` are
`PaymentWindow` and `Settlement` seen from the cycle: `Submit` may reopen an invoice whose
expiry it crossed, the cycle is found by `invoice_id` in the first two and by the invoice's
`subscription_cycle_id` in the third. They wait for nobody: each may come between any two statements
of a mint of the same cycle. A set-up may break `MaxSetups` times and be repaired at any time. A
failed statement ends the item at hand (the tick, when it is a scan); a crash ends every process.

### `WebhookDelivery` and `DeliveryPromise`
One merchant's endpoints, events and delivery rows, the requests that fan events out, and any
number of workers (the program runs one per process, and claims with `SKIP LOCKED` so that two
may run, as they do while a version is rolled out). An action is one statement or one POST;
reaping and claiming, which follow each other at once and touch statuses only, are one. A
worker's `rows` are what it read of its batch: the attempt count, and `conf`, which numbers the
values url and secret have had. Time is relative: `wait` is what is left to `next_attempt_at`,
`age` the time since `updated_at` while delivering. An attempt is refused, answered 2xx,
answered otherwise, or accepted without the answer being heard. `seen` is history: tries,
acceptances, and those never recorded.

`DeliveryPromise` is what a merchant is promised: queued, then delivered (only once accepted)
or exhausted (only after the profile's tries), for ever, unless the endpoint is deleted.

### `CovenantLedger`
The chain's side of settlement. `utxos` is the UTXO set, `pool` the node's mempool, `intent`
the claims, and a spend is what `assemble_unsigned` fixes (outputs, lock, sequence, both
inputs), so two drafts have one sighash exactly if they are equal. The builders of the crate
are operators of their names; `contract` is the two `.sil` files; `Verdict` adds the node's own
rules: known coins, no second spend in the mempool, finality of lock and sequence, value, no empty
output, storage mass, fee. Mass is a sum over the outputs (`settlement_storage_mass`, as
`kpr1.rs:321`), the least fee grows with their number (`state.rs:108`); the credit KIP-9 gives for
inputs is left out, so the model's node refuses at least whatever the real one refuses for mass.
Requests run in two halves, prepare and submit, and the second half in two steps: coins are
looked up and the transaction is built again, then it is claimed and sent. The keeper captures,
and a claimer drives the subscription cell with the crate's functions (no worker in `src/` does,
though `examples/subscription_tn10_smoke.rs` names one). Addresses, signatures and compilation
are abstracted; amounts and order of outputs are not. Claim, broadcast and record are one step
here and four in `Settlement`.

### `MerchantSetup`
One merchant's stores, setups, payment link and invoices. `op[q]` is a request at its next
statement, with the store it resolved and the row it read. Percentages are basis points of
`MaxBps`; `Plan` and `Accepts` are `compute_split_plan`, `customer_paid_amounts` the gross-up of
`customer_pays`. A setup may be read from the store's own rows in any order, since nothing
orders them, or from those of no store. The platform's rates are any a configuration may hold.
`StatementFails` ends one request at its next statement, `Crash` all of them. What writes
entitlements of further stores is not in `src/` (`Entitle`).

## 3. What the runs check

| run | instance | question |
|---|---|---|
| `window_race` | 2 wallets and 2 finalizes, one process either of them or a fetch, 2 transactions | do submission, expiry, finalize, fetch, observer and keeper compose |
| `window_live` | 1 wallet and 1 finalize, each also fetching or viewing, one also cancelling, payments in one output or several, 1 intent ahead, batch of 1, 1 failing statement or restart, fairness | what does a failure leave apart; is everything decided |
| `settle_contention` | 1 covenant, all six settlers, fairness | does the claim exclude; is the covenant spent in the end |
| `settle_failures` | 2 covenants, keeper, release, refund, cancel, 1 fault, 1 restart | do the invariant and the refinement survive failure |
| `billing_cycles` | 1 subscription, 2 periods, 2 attempts, 1 creation, 1 retry or status change, 1 fault | is anybody asked twice; does paid stay paid |
| `billing_live` | 1 subscription, 2 periods, 1 creation, 1 break of the set-up and any repair, 1 fault, fairness | is every due period billed |
| `webhook_outcomes` | 2 workers, 1 endpoint, 2 deliveries, 1 endpoint change or event replay, 1 crash or error, fairness | are outcomes final and counted, is nothing sent for nothing, is everything settled |
| `ledger_settles` | 2 escrows, 1 cell of two claims, 1 request at a time, 3 splits to agree on, fairness | do builders, contract and node agree; do the books balance; does the keeper always get through |
| `setup_plans` | 2 requests, 2 stores, 3 writes, 1 invoice, 1 process death or failing statement | are rates, default store and plans right under every crossing |
| `window_restores`, `window_parts`, `settle_stranded` | least instance each | three disagreements of section 6 |

Bounds. `PaymentWindow` follows one invoice: every statement of the modelled code is keyed by
invoice or intent id, and the one place where invoices meet is the observer's batch, which `ahead`
stands for. A batch of one with at most one intent before it has both cases, in the batch and out
of it. (The keeper's batch is in `Settlement`.) Two wallets with two transactions give every crossing
of the claim (`WHERE tx_id IS NULL OR tx_id = …`); a third submission only repeats one of them. In
`window_race` one process `q` serves any one kind of request, so the crossings of a fetch,
a second wallet and a second finalize with everything else are all there, one at a time, with
payments of the gross in one output or of a wrong amount; `window_live` has every kind of payment,
and a view, a fetch or a cancel beside a submission, or a view or a fetch beside a finalize.
`MaxFailures = 1` cuts one handler short, or all at once. In `Settlement` two covenants give the
keeper a batch in which one row can fail before the other; `MaxFaults = 1` and `MaxCrashes = 1`
bound the failures of a run (each failure is short-lived, and the theorems of section 5 hold for
every bound). In `SubscriptionBilling` two periods give catch-up and a cycle behind another, two
attempts a retry (one process makes a retry or a status change); `MaxTime`, `MaxAttempts`, `MaxSetups` and `MaxFaults` bound the rest, and
`ScanBatch` is large enough there for all orphans (section 6 says what happens when it is not). In
`WebhookDelivery` two workers and a batch of two give every crossing of reaper, claim and record;
`CLAIM_BATCH * AttemptMax <= Stuck` holds there as in the code (300 s against ten attempts of at
most ten seconds each; see section 5 on what this leaves out). In `CovenantLedger` both escrows
and the cell depend on the keeper's one usable coin, its second coin being below the floor; the
merchant and the customer have one coin each, enough for one spend; the contract wants one
signature of a panel of two, so one too many can be given; of the agreed splits one is fine, one has
parts each light enough and together too heavy, one has too many parts for the fee. In
`MerchantSetup` rates are of a hundred parts, one configuration overruns the whole when its sections
are combined, one tax is too high, and at the lower of the two amounts the platform's fee rounds to
nothing. `None`, the sets of processes and the transactions are model values; symmetry is used in
`window_race`, of its transactions, and in no other run.

The runs of `PaymentWindow`, `Settlement`, `CovenantLedger` and `MerchantSetup` do not check
deadlock: with every invoice closed, coin spent or bounded request answered, nothing is left to
do. Those of `SubscriptionBilling` and `WebhookDelivery` do: their workers poll for ever.

Property by property:

* `TimelySubmissionNotExpired`, `CycleFollowsSubmission`: whenever no handler is under way, a
  submission recorded in time is not left on an expired invoice, nor with a past-due cycle. Both
  follow from the reconciliation in `expire_invoice` together with the reopening in submit;
  neither alone is enough. The one exception is named: a handler that had still to reopen the
  invoice, or to bring back the cycle, was cut short (`cut`; section 6).
* `AcceptedInTime`: no interleaving of fetch, expiry and submit lets a late transaction in, whatever
  they write to the intent's status (with cancel too by its theorem, `OnlyInTime`).
* `TxClaimedOnce`: only the `WHERE` of the claim, not the check before it, gives this.
* `FundedExactly`: despite finalize's unguarded `UPDATE`, what the keeper may spend was funded by
  the recorded transaction, deeply and with outputs that add up to the gross, at an address a
  finalize gave out; and that is the address on record unless two finalize requests crossed. Whatever
  is captured was spent from one output of exactly the gross.
* `FailureReportedOnce`: a wrong payment is reported at most once, never without failing the
  covenant (unless a crossing finalize wrote over it), and always unless the observer was cut short
  between failing the covenant and reporting it.
* `DeepPaymentDecided`: the observer finds a deep payment whatever expiry is going on, if from some
  time on the intent stays in its batch. `UnpaidInvoiceCloses`: the expirer loses nothing; its own
  batch shrinks as it expires rows, so it needs no such condition.
* `ClaimExclusive`, `SettledAsSpent`, `SettledForGood`, `EscrowSpec`, `CaptureWindowResolves`:
  section 1, settlement. `IInv` is the inductive invariant of section 5, checked where rows fail.

* `OneAwaitingInvoice`: of a cycle's invoices at most one waits for a payment nobody has
  submitted. The cycle is read and written without guards by up to three processes at once;
  what keeps them apart is that the attempt is part of a unique external id.
* `PaidForGood`: a cycle that is paid while no mint of it is past its check stays paid, and nothing
  starts to bill it again; a later invoice expires without taking the payment back. A mint already
  past its check does take it back (section 6).
* `DuePeriodInvoiced`: no period is skipped, whatever fails between the cycle's row,
  `next_billing_at` and the invoice: the cycle gets its invoice attached once the set-up stays in
  order. The exception is named: a failure, or a set-up broken in the middle of a mint, may have used
  up the external id of the cycle's first invoice (`Burnt`, section 6).

* `EveryTryCounted`, `AcceptedOnce`: neither the reaper nor a second worker makes two attempts
  meet on one row. Both rest on a batch ending before the reaper looks; the claim alone does
  not give them.
* `FannedOut`: a finished fan-out has left a delivery for every endpoint it read, whatever the
  merchant did to the endpoints meanwhile, short of deleting them.
* `OldSecretRetired`: after a rotation, the old secret signs for at most one batch.
* `KeepsPromise`: the refinement of `DeliveryPromise`. `EveryDeliverySettles`: its liveness.

* `RefusedForCause`: of everything the code broadcasts, nothing is refused for its lock, its
  value, or the change the builders give. What may refuse it is named: a coin taken in between,
  a payer's coins that changed between prepare and submit, more arbiters than the contract counts,
  a claim before its period, a fee too low for that many outputs, an empty part, and for an agreed
  split or a spend of the cell, whose parts no code weighs, parts that together are too heavy.
* `BooksBalance`: after any sequence of spends every party holds what it began with, plus what
  each spend promises it, less its own gas. `CellPaysOnlyClaims`: the same for the cell.
* `EscrowsSettle`: the keeper gets every escrow through, whoever competes for its coin.

* `OneDefaultStore`: at most one default, and one at all unless a switch is under way or was cut
  short between its statements, by a restart or because the second one failed.
* `PlansSettle`: a minted plan adds up to the invoice, no output but the platform's fee is ever
  empty (that one is when the fee rounds to nothing), and a payer who bears the fee pays the least total that leaves the merchant what was asked, although total and
  plan are computed at different times from different reads.
* `MerchantSetup`'s type invariant holds the bounds on stored rates, across stale merges and copies.

## 4. Fairness

`PaymentWindow`: weak fairness of each request once begun (tokio runs a spawned handler to
its end) and of the expirer and the observer (an endless loop with a sleep). The observer's
two node calls get strong fairness: `ObserverNodeDown` may happen any number of times, but
not always. Wallets, merchants, payments and confirmations get none.

`Settlement`: weak fairness of every settler and of the keeper's tick, consensus time passes,
and strong fairness of `Broadcast`: the node does not reject a good transaction for ever. No
fairness is given to faults, crashes, requests arriving or cancel.

`WebhookDelivery`: weak fairness of each worker's loop, of a fan-out once begun, and time
passes. `CovenantLedger`: time passes and blocks are found (weak fairness), the keeper sends
what it built (weak) and, since its loop visits every due row again and again while other work
disables the visit, strong fairness of `KeeperGather`; none of requests, parties or claimer.
`MerchantSetup`: none.

`SubscriptionBilling`: weak fairness of the biller's loop and of each request once begun. None
of time, payments, set-ups or failures.

## 5. What is proved

Every invariant and every action or refinement property that a passing run checks, for every value
of the constants: any number of covenants, requests, transactions, endpoints, workers,
subscriptions, stores, coins, payouts, failing statements and restarts. Each component has an inductive
invariant `IInv` (theorem `Invariance`: `Spec => []IInv`) and the others follow from it, one step
per action, below it one per conjunct the action can disturb.

What remains model-checked only: all liveness (`DeepPaymentDecided`, `UnpaidInvoiceCloses`,
`CaptureWindowResolves`, `DuePeriodInvoiced`, `EveryDeliverySettles`, `EscrowsSettle`), since
fairness and `ENABLED` are out of the prover's reach, and the three counterexamples of section 6.
`IInv` is itself an invariant of the run `settle_failures`; the others were found with TLC on
instances like those of section 3 and hold there, but no run repeats that.

### `SettlementProofs`
Theorems: `TypeCorrect`, `ClaimIsExclusive`, `RecordIsTrue`, `BooksAreTrue`, `SettlementIsFinal`
(`SettledForGood`) and `Implementation` (`EscrowSpec`). Assumed: ids are naturals, the kinds of
request are disjoint where the code tells them apart, bounds are naturals.

`SettledAsSpent` is not inductive: `RecordIntent` writes by id without looking
at the row, so one must know that a settler about to record is the one whose transaction was
accepted (`Recording => spentBy = p`). For `ClaimExclusive` one must know that a settler under
a claim sees its own claim state in the row, so that nobody's `WHERE covenant_state =
'funded'` matches. That is *almost* true, and the exception is what makes the proof worth
having: the keeper treats an error after its record like a failed broadcast and goes to
`restore` on a row that is already terminal; its restore is conditional on `settling` and
so does nothing. `LabelsKnow` states both facts with that exception, and `IInv` adds them to
the checked invariants. Refinement: `Broadcast` and `BroadcastAnswerLost` map to `Spend`,
`RecordInvoice` to `Book` or a stutter, `CancelWrite` to `Cancel`; everything else stutters.

### `PaymentWindowProofs`
Theorems: `TypeCorrect`, `OnlyInTime` (`AcceptedInTime`), `SubmissionWins`
(`TimelySubmissionNotExpired`), `CycleWins` (`CycleFollowsSubmission`), `OnlyFundedIsSpent`
(`FundedExactly`), `OneReport` (`FailureReportedOnce`), `FirstClaimStays` (`TxClaimedOnce`).
Assumed: requests are not workers, `None` is no transaction and no address, bounds are naturals.

The argument is about who is on the way to mend. An expired invoice beside a timely submission is
a legal state in the middle of things; the invariant says that then somebody is still at a
statement after which it is open again: a submit before its reopening, or an `expire_invoice`
before the end of its reconciliation (`Reopens`; `Mends` for the cycle), or that such a one was cut
short (`InvoiceMended`, `CycleMended`, with `cut`). Each statement that expires anything is taken by a process that thereby becomes such a somebody, and each statement that
records a submission likewise; when nobody is under way, nothing is left to mend. The other
conjuncts say what is true of locals read earlier: a claim about to be written was checked against
the same deadline stamp (`Placed`), an address on record, or with a payer, is one whose finalize wrote it
(`AddressesGiven`), what the observer read of the chain stays true because payments and
confirmations are not taken back (`FundsKnown`, `ObserverKnows`), and the report is written after
the state by the same process and by no other, unless it was cut short there (`Reported`). That a
capture spends one output of the gross is an invariant of its own (`WholeSpent`): the keeper reaches
its record only through `KeeperBroadcast`, and outputs are not taken back.

### `WebhookDeliveryProofs`
Theorems: `TypeCorrect`, `TriesAreCounted`, `NoSecondAcceptance`, `FanOutIsComplete`,
`SecretsRetire`, and `Implementation` (`KeepsPromise`, the refinement of `DeliveryPromise`).
Assumed: profiles have one to seven attempts (`ProfileAssumption`), there is an endpoint and an
event, and `BatchAssumption`: `CLAIM_BATCH * AttemptMax <= Stuck`. The code's ten attempts with a
timeout of ten seconds each against 300 s justify the last, with a reserve of 200 s for what has
no timeout of its own, the look-ups and the recording of a batch; it is the one assumption here
that a slow database can break, and without it `EveryTryCounted` is false.

A claim is a lease. The invariant bounds the age of a row in a worker's batch by the time the batch
has taken so far (`HeldFresh`, `Spent`), which the assumption keeps below `Stuck`: such a row is
not reaped, so it is in no second batch, and what a worker read of it (the attempt count) is still
the row's when it is recorded. All counting properties follow; the configuration a worker read
(`conf`) is at most as old as its batch.

### `SubscriptionBillingProofs`
Theorems: `TypeCorrect`, `OneAwaiting` (`OneAwaitingInvoice`), `PaidStaysPaid` (`PaidForGood`).
Assumed: periods and attempts are numbered from one, the interval is positive, kinds of request
are disjoint.

The attempt number is the lock. Biller, creation and retry read and write a cycle without guards,
and what keeps two of them from billing it twice is that the external id of an invoice contains
the attempt and is unique. Inductively: the attempts of a cycle are numbered without gaps; a
process that drafts one drafts the next, when nobody is asked to pay the one before it, or a number
that is already taken, whose insert will fail (`Fits`); past its insert it has the next number, and
has it alone (`Owns`, `OneOwner`). An invoice that has stopped waiting for its payment does not
start again without a submission. `PaidForGood` speaks of a cycle that is paid with no mint past its
check (`Settled`): a paid cycle is refused at the check, so no mint gets past it, and every other
write to a cycle asks for another status.

### `CovenantLedgerProofs`
Theorems: `TypeCorrect`, `RefusalsHaveCause` (`RefusedForCause`), `BooksAreBalanced`
(`BooksBalance`), `CellPays` (`CellPaysOnlyClaims`). Assumed: what the constructors of the
contracts require of their arguments (`ParamsAssumption`), that an escrow's payouts together weigh
no more than `compute_split_plan` lets through and that the node's cap leaves room beside them for a
change at the floor (`MassAssumption`, the two constants of `kpr1.rs`; nothing of splits, of what a
cell pays or keeps, or of the fee), and that outputs and splits go to the parties' addresses
(`OutputsAssumption`; `parse_split` takes any address, and what is paid elsewhere would have to be
counted for a further party).

`SpendOK`: whatever is signed, sent, in the mempool or in a block is a spend the builders
assemble, so its outputs are the ones the contract pins followed by the payer's change. `PoolOK`:
the mempool spends coins that exist and shares none, so a block may confirm all of it in any
order. `JobsOK`: what is held between prepare and submit is a draft of the coins it was made from;
the same two coins give the same draft, so a second draft that differs from the signed one (the
cause `signature`) means that the payer's coins moved. `CellOK`: the cell is at most one coin, no
older than its claims allow, and what it holds is what it had less its claims. `BooksBalance` is
inductive with these, by the sums of `SumLemmas`: a confirmation takes two coins of known worth
out and puts outputs of known worth in.

### `MerchantSetupProofs`
Theorems: `GrossUp`, `TypeCorrect`, `DefaultIsOne` (`OneDefaultStore`), `PlansPayOut`
(`PlansSettle`). Assumed: the platform's rates are numbers and the proportional one at most the
whole, as every plan is refused otherwise (`FeeAssumption`; `GrossUp` asks for less than the whole,
as `customer_paid_amounts` does), amounts are naturals, requested configurations are
well-formed but not valid (`ConfigsAssumption`: `Valid` is what the handlers check; only the
legacy row is assumed to satisfy it).

A row a request holds was valid when it was read and is of a store that is still there
(`Holding`), and setups have numbers 1..n of their own, so a stale write is at least a write of
something valid to a row that exists (`Working`). A plan settles its invoice because what was
asked and the total stay related as they were when the invoice was inserted (`InvoiceOK`). For the
default store the invariant follows the two statements of the switch: none is default only while
somebody is between them, or was cut short there. `GrossUp` is about `customer_paid_amounts` alone, for
every request and every rate: the guess it starts from is already enough, so its first loop never
turns, and the second, which only goes down while the total stays enough, ends at the least one.

## 6. Where the code and its words disagree

Runs that end in a counterexample, each with the sentence it refutes (`PROJECT.json`,
`findings`):

* `window_restores`: submit reopens the invoice and the cycle, not the covenant. An expiry
  that ran to its end before the claim leaves `covenant_state = 'expired'`, which the observer
  does not select;
* `window_parts`: the observer adds up the outputs to the covenant address, so a payment of the gross
  in several outputs is `funded`; every settler asks for one UTXO of the gross, finds none, and the
  funds stay where they are, the keeper retrying for ever;
* `settle_stranded`: cancelling the open invoice of a funded covenant takes it out of every
  settler's reach, the keeper's included.

Also present in the models, without a run of their own:

* two concurrent finalizes with different refund addresses both succeed and return two
  addresses (`kpr1.rs:885`), against "Idempotent: re-finalizing returns the same address"
  (`kpr1.rs:782`): the set `receipts` of `PaymentWindow` then has two elements, the observer may
  accept a payment to either, and the row may name the other. The later write can also replace a
  `failed` covenant, after its wrong payment was reported; `FundedExactly` and
  `FailureReportedOnce` say what is left;
* the observer takes the oldest 25 candidates of all invoices (`chain_observer.rs:140`): as many open
  intents whose submitted transactions never appear keep every younger payment from being looked at,
  while they stay open, and a submission in time keeps an invoice open for ever
  (`DeepPaymentDecided` fails without its first line);
* `parse_split` (`covenant_keeper.rs:1022`) checks the sum of an agreed split and nothing else of it:
  parts too small for one transaction, or too many for the fee, are agreed, prepared and signed, and
  the node refuses them (the causes `mass`, `fee` and `empty` of `RefusedForCause`); nor does
  `constructor_args` of the cell look at what its claims pay;
* a platform fee that rounds to nothing leaves an output of nothing in the plan (`kpr1.rs:385`; a tax
  of nothing is dropped, `kpr1.rs:371`): an escrow that pins it cannot be released or captured, as the
  node refuses empty outputs, only refunded or settled by agreement (the cause `empty`);
* after a lost answer, or a statement that fails after the broadcast, the keeper hands its claim
  back and the row of a spent covenant says `funded` again (`covenant_keeper.rs:229`), against
  "return the claim so a later attempt (or expiry refund) can proceed" (`covenant_keeper.rs:608`);
* a mint that fails after it inserted the invoice row burns the external id of the next attempt
  (`handlers/subscriptions.rs:439`), so the orphan scan is refused for ever, although the set-up is
  repaired, against "closes the non-transactional gap" (`subscription_biller.rs:8`) (`Burnt` in
  `DuePeriodInvoiced`);
* a retry attaches its invoice whatever the cycle has become (`handlers/subscriptions.rs:463`): when a
  late payment of the old invoice is recorded between the retry's check and its attachment, the paid
  cycle is `invoiced` again and its customer is asked a second time (the case `Settled` leaves out);
* submit "rebuilds the identical tx" (`covenant_keeper.rs:390`) only while the payer's largest
  coin stays the same: any other settlement that draws on it or outgrows it between prepare and
  submit makes the parties' signatures worthless (the cause `signature` of `RefusedForCause`);
* an arbiter's ruling may carry more signatures than the threshold as far as the server is
  concerned ("at least", `covenant_keeper.rs:441`, and the note of the prepare answer); the
  contract counts exactly the threshold and refuses it (the cause `contract`);
* the keeper's coin look-up does not see the mempool: until a block comes, every other release
  on the same coin is refused as a double spend, the keeper's own captures included;
* a restart between the two statements of `set_default`, or a second one that fails, leaves no
  default store, and
  `ensure_default_store`, "created if absent" (`store_context.rs:71`), then fails for ever on the
  unique `public_id` of the store that is there (`torn` in `OneDefaultStore`);
* two first saves of a setup insert two rows for one store, and mints read either; a PUT writes
  back fields it only read, over whatever was written meanwhile; two switches of the default
  store around a setup of no store can move that setup from one store to the other, after which
  the last read of the handler finds nothing (`handlers/setups.rs:494`, an `unwrap`);
* a store without a setup mints from the merchant's setup of no store until the default store
  adopts it, and is refused from then on;
* `create_for_merchant` inserts the invoice before its plan, so a refused plan leaves an open
  invoice without an intent; only subscriptions ask first (`preflight_invoice`);
* a section copied from another store's setup is not validated beside the target's: tax and
  splits may overrun the whole, and every mint of that store is then refused;
* an endpoint deleted during a fan-out ends it with an error, and the endpoints after it get no
  delivery, against "fan out pending deliveries to every active" (`handlers/webhooks.rs:478`);
* a worker that crashes after a 2xx sends the event again: at least once, not exactly once, and
  "won't double-send" (`webhook_worker.rs:146`) rests on batches shorter than the reaper's 300 s;

* a finalize that crosses the expirer writes `awaiting_funding` over the covenant the expirer
  retired (`src/README.md:99` says it is retired): a payer is invited to fund what nothing
  observes;
* a restart under a claim leaves the row in `settling` (or another claim state), which nothing
  selects: `CaptureWindowResolves` fails with `MaxCrashes = 1`;
* pause and resume check the status they read and write unconditionally: a pause that crosses a
  cancel turns `cancelled` into `paused`, and a resume then bills again, against "stop future
  invoice generation" (`handlers/subscriptions.rs:688`);
* the orphan scan takes the oldest `SCAN_BATCH` orphans: one merchant's cycles that can never be
  minted keep younger orphans of others out of it, against "one broken merchant setup must not
  stall everyone else's billing" (`subscription_biller.rs:17`); `DuePeriodInvoiced` fails with
  two subscriptions and `ScanBatch = 1`;
* a retry between an expiry and the submission that crosses it leaves one cycle with two
  invoices that can both be paid (`OneAwaitingInvoice` counts only those not yet submitted);

* a failing statement or a restart between the expiring statements and the reconciliation leaves a
  timely submission on an expired invoice, which no worker selects (`"invoice"` and `"cycle"` in
  `cut`, without which `TimelySubmissionNotExpired` and `CycleFollowsSubmission` fail);
* a failing INSERT or a restart inside `fail_intent` (`chain_observer.rs:406`) loses the anomaly signal:
  `failed` without a report, for good (`"report"` in `cut`);
* an expiry under way (begun by a second, late submission) can hold the invoice `expired` at
  the moment `mark_invoice_paid` looks: covenant captured, invoice reopened and never paid;
* `cancel` writes over an invoice that became paid or expired after it was read, against
  "Only open invoices can be cancelled" (`handlers/invoices.rs:1042`);
* `fetch_kpr1_intent` can set a submitted intent back to `fetched` or `expired`, against its
  comment at `handlers/invoices.rs:661`;
* the keeper retries the first `CLAIM_BATCH` rows in id order for ever; rows that can never
  succeed there starve the rest;
* `covenant_keeper.rs:3` and `main.rs:40` promise an automatic refund to the customer; the
  code captures to the merchant, as the top-level README says.

## 7. Plan

Done: `PaymentWindow`, `Settlement`, `EscrowOutcome`, `SubscriptionBilling`, `WebhookDelivery`,
`DeliveryPromise`, `CovenantLedger`, `MerchantSetup`, and the proofs of all their invariants and
action properties and of both refinements. Left:

1. Compositions: `PaymentWindow` with `Settlement` (the initial states of one are the funded
   states of the other), billing with the window (a retry against a payment on its way, which
   `SubscriptionBilling` sees only as `Submit` and `Pay`).
2. `CovenantLedger` under `Settlement`: that a `Broadcast` there is a spend here, which would give
   `EscrowOutcome` its amounts.
3. An abstract specification of the payment window (unpaid, submitted, then funded or closed) for
   `PaymentWindow` to implement, from the `IInv` that is there.
4. The price-change notice and the cancellation of a cycle's invoice, in `SubscriptionBilling`.

## 8. Not modelled

Of subscriptions: plans, customers, the plan snapshot and the price-change notice (the UPDATE and
the events after `MintAttach`), cancellation of a cycle's invoice by the merchant.

Of the covenant crate: compilation to script, addresses, signing. Of webhooks: the url policy and
name resolution (an attempt may be refused), signing, and which handler emits which event:
emission starts in `WebhookDelivery` with an event of any topic, and no decision of the other
models depends on it, only its failure, in the keeper (`KeeperEmit`). Of stores and setups:
names, slugs, redirect addresses. The development fallback that signs for an arbiter panel of one
(`CovenantLedger` assumes no arbiter key on the server, as production requires).

Signing and canonical encoding of KPR-1 intents, HTTP and websocket framing, authentication,
API keys, the rate limit (one counter under one mutex), catalogue, media and settings,
read-only views, logging, and the programs under `examples/`: none of it decides the order of
writes to the modelled rows.

## Running

    tlc -workers 2 -config PaymentWindow_race.cfg MCPaymentWindow.tla
    for m in SumLemmas.tla *Proofs.tla; do tlapm $m; done

`PROJECT.json` lists every run with its configuration, the mutants each property is known to
reject, and the source lines of every definition.
