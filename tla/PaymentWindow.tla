--------------------------- MODULE PaymentWindow ---------------------------
(***************************************************************************)
(* One invoice, its KPR-1 payment intent and its subscription cycle, from  *)
(* the minting of the intent to the recording of the payment.              *)
(*                                                                         *)
(* Every SQL statement of the program commits on its own, so an action is  *)
(* one statement (or one call to the node) of one handler or worker, with  *)
(* the decisions that statement leads to.  What a handler has read and not *)
(* yet used is in job[p].  The request processes serve one request each;   *)
(* the three workers poll for ever.                                        *)
(***************************************************************************)
EXTENDS Naturals, FiniteSets

CONSTANTS
  Submitters,   \* POST kpr1-payments: a wallet hands over a transaction id
  Finalizers,   \* POST kpr1-finalize; each brings its own refund address
  Fetchers,     \* GET kpr1-intent
  Viewers,      \* GET invoice (checkout or merchant)
  Cancellers,   \* POST invoice cancel
  TxIds,        \* the transactions a wallet may build
  Fundings,     \* what they may send to a covenant address
  None,         \* SQL NULL
  CLAIM_BATCH,  \* intents the observer examines per tick
  MaxAhead,     \* bound on the other invoices' intents that come before this one
  MaxFailures   \* bound on the statements that fail and the restarts

Expirer  == "expirer"
Observer == "observer"
Keeper   == "keeper"
Workers  == {Expirer, Observer, Keeper}
Requests == Submitters \cup Finalizers \cup Fetchers \cup Viewers \cup Cancellers
Procs    == Workers \cup Requests

(***************************************************************************)
(* A covenant address is determined by the refund address compiled into    *)
(* it, so the finalize requests themselves stand for the addresses.        *)
(***************************************************************************)
Addresses == Finalizers

\* What the outputs of a transaction to one address amount to.
Funding == [exact: BOOLEAN,    \* they add up to the gross
            whole: BOOLEAN]    \* one of them is the gross

ASSUME ProcsAssumption == Requests \cap Workers = {}
ASSUME FundingsAssumption == Fundings \subseteq Funding
ASSUME NoneAssumption == None \notin TxIds \cup Addresses
ASSUME BoundsAssumption ==
  CLAIM_BATCH \in Nat \ {0} /\ MaxAhead \in Nat /\ MaxFailures \in Nat

VARIABLES
  clock,        \* "window" until expires_at, then "late", then "capture" (expiry_ts)
  invoice,      \* invoices.status
  payAddress,   \* invoices.payment_address
  intent,       \* the row of kpr1_payment_intents
  cycle,        \* subscription_cycles.status of the cycle the invoice bills
  observation,  \* payment_observations.status of the row for (invoice, tx)
  anomalies,    \* number of payment_anomaly_signals rows
  chain,        \* what each transaction pays, as the node reports it
  receipts,     \* covenant addresses returned to payers by finalize
  job,          \* per process: where it is and what it has read
  ahead,        \* the observer's candidates with a smaller id, of other invoices
  failures,     \* number of failed statements and restarts so far
  cut           \* history: what a handler was cut short before putting right

books   == <<payAddress, cycle, observation, anomalies>>
outside == <<ahead, failures, cut>>
vars    == <<clock, invoice, payAddress, intent, cycle, observation, anomalies,
             chain, receipts, job, ahead, failures, cut>>

InvoiceStatus  == {"open", "expired", "cancelled", "paid"}
IntentStatus   == {"created", "fetched", "submitted", "verified", "failed",
                   "expired", "settled"}
CovenantState  == {"pending", "awaiting_funding", "expired", "funded", "failed",
                   "settling", "captured"}
Intent == [status: IntentStatus, covenant: CovenantState,
           address: Addresses \cup {None}, tx: TxIds \cup {None},
           timely: BOOLEAN]           \* timely: submitted_at <= expires_at
Payment == [address: Addresses \cup {None}, exact: BOOLEAN, whole: BOOLEAN,
            deep: BOOLEAN]            \* deep: it has the required confirmations

ExpireLabels == {"expire_invoice", "expire_intent", "expire_cycle",
                 "expire_check", "restore_invoice", "restore_intent",
                 "restore_cycle"}
SubmitLabels == {"submit_invoice", "submit_intent", "submit_claim",
                 "submit_reopen", "submit_cycle"}
Labels == {"idle", "done"} \cup ExpireLabels \cup SubmitLabels \cup
          {"finalize_intent", "finalize_address", "finalize_invoice",
           "view_check", "cancel_write", "fetch_clock", "fetch_write",
           "observe_depth", "observe_outputs", "observe_record",
           "observe_intent", "observe_anomaly",
           "keeper_claim", "keeper_broadcast", "keeper_intent",
           "keeper_invoice", "keeper_cycle", "keeper_restore"}

Seen == {"none", "exact", "wrong"}
Job == [pc: Labels,
        timely: BOOLEAN,                   \* received_at <= expires_at
        tx: TxIds \cup {None},             \* offered, or the observer's candidate
        address: Addresses \cup {None},    \* covenant_address as last read
        invoice: InvoiceStatus,            \* invoices.status as last read
        status: IntentStatus,              \* intent status as last read
        deep: BOOLEAN,                     \* the DAA snapshot covers the tx
        seen: Seen,                        \* what the observer found on chain
        closed: BOOLEAN,                   \* rows_affected of the expiring UPDATE
        cancels: BOOLEAN]                  \* the request is a cancel
Idle == [pc |-> "idle", timely |-> FALSE, tx |-> None, address |-> None,
         invoice |-> "open", status |-> "created", deep |-> FALSE,
         seen |-> "none", closed |-> FALSE, cancels |-> FALSE]
Finished(p) == IF p \in Workers THEN Idle ELSE [Idle EXCEPT !.pc = "done"]

Late == clock # "window"

At(p, label)    == job[p].pc = label
Goto(p, label)  == job' = [job EXCEPT ![p].pc = label]
\* Goto, keeping of the request only its arrival and its transaction.
Decided(p, label) ==
  job' = [job EXCEPT ![p] = [Idle EXCEPT !.pc = label, !.timely = job[p].timely,
                                         !.tx = job[p].tx]]
Finish(p)       == job' = [job EXCEPT ![p] = Finished(p)]
Quiet           == \A p \in Procs : job[p].pc \in {"idle", "done"}

Init ==
  /\ clock = "window"
  /\ invoice = "open"
  /\ payAddress = None
  /\ intent = [status |-> "created", covenant |-> "pending", address |-> None,
               tx |-> None, timely |-> FALSE]
  /\ cycle = "invoiced"
  /\ observation = "none"
  /\ anomalies = 0
  /\ chain = [t \in TxIds |-> [address |-> None, exact |-> FALSE, whole |-> FALSE,
                                deep |-> FALSE]]
  /\ receipts = {}
  /\ job = [p \in Procs |-> Idle]
  /\ ahead = 0 /\ failures = 0 /\ cut = {}

-----------------------------------------------------------------------------
(* The environment: time, the payer's wallet and the block DAG.            *)

\* The payment deadline may pass while handlers run; none runs so long that it
\* spans the capture window of days.
ClockTick ==
  /\ \/ clock = "window" /\ clock' = "late"
     \/ clock = "late" /\ Quiet /\ clock' = "capture"
  /\ UNCHANGED <<invoice, books, intent, chain, receipts, job, outside>>

\* The wallet funds a covenant address it was given: exactly or not, in one
\* output or in several, or with an output too many.
Pay(t) ==
  /\ chain[t].address = None
  /\ \E a \in receipts, f \in Fundings :
        chain' = [chain EXCEPT ![t] = [address |-> a, exact |-> f.exact, whole |-> f.whole,
                                       deep |-> FALSE]]
  /\ UNCHANGED <<clock, invoice, books, intent, receipts, job, outside>>

\* The transaction gets the confirmations the merchant's policy requires.
Confirm(t) ==
  /\ chain[t].address # None /\ ~chain[t].deep
  /\ chain' = [chain EXCEPT ![t].deep = TRUE]
  /\ UNCHANGED <<clock, invoice, books, intent, receipts, job, outside>>

\* Other invoices' submissions come before this one's, or leave the queue.
OthersMove ==
  /\ ahead' \in 0..MaxAhead \ {ahead}
  /\ UNCHANGED <<clock, invoice, books, intent, chain, receipts, job, failures, cut>>

-----------------------------------------------------------------------------
(* expire_invoice, called by the expirer, by expire_if_needed (show and    *)
(* cancel), by a late submission and by a late finalize.                   *)

TimelySubmission == intent.tx # None /\ intent.timely

\* What its caller does next: cancel goes on with the status it has in hand.
ExpireReturns(p, closed) ==
  IF job[p].cancels
    THEN job' = [job EXCEPT ![p].pc = "cancel_write",
                            ![p].invoice = IF closed THEN "expired" ELSE @]
    ELSE Finish(p)

ExpireInvoiceRow(p) ==
  /\ At(p, "expire_invoice")
  /\ invoice' = IF invoice = "open" THEN "expired" ELSE invoice
  /\ job' = [job EXCEPT ![p].pc = "expire_intent", ![p].closed = (invoice = "open")]
  /\ UNCHANGED <<clock, books, intent, chain, receipts, outside>>

ExpireIntentRow(p) ==
  /\ At(p, "expire_intent")
  /\ intent' = IF intent.tx = None
                 THEN [intent EXCEPT !.status = "expired",
                         !.covenant = IF @ \in {"pending", "awaiting_funding"}
                                        THEN "expired" ELSE @]
                 ELSE intent
  /\ Goto(p, "expire_cycle")
  /\ UNCHANGED <<clock, invoice, books, chain, receipts, outside>>

ExpireCycleRow(p) ==
  /\ At(p, "expire_cycle")
  /\ cycle' = IF cycle # "paid" THEN "past_due" ELSE cycle
  /\ Goto(p, "expire_check")
  /\ UNCHANGED <<clock, invoice, payAddress, observation, anomalies, intent,
                 chain, receipts, outside>>

\* Mutant: a wallet that crossed the expirer is not looked for.
ExpireCheck_NoReconcile(p) ==
  /\ At(p, "expire_check")
  /\ ExpireReturns(p, job[p].closed)
  /\ UNCHANGED <<clock, invoice, books, intent, chain, receipts, outside>>

\* Reconcile in favour of a wallet that crossed the expirer.
ExpireCheck(p) ==
  /\ At(p, "expire_check")
  /\ IF TimelySubmission THEN Goto(p, "restore_invoice")
                         ELSE ExpireReturns(p, job[p].closed)
  /\ UNCHANGED <<clock, invoice, books, intent, chain, receipts, outside>>

RestoreInvoiceRow(p) ==
  /\ At(p, "restore_invoice")
  /\ invoice' = IF invoice = "expired" THEN "open" ELSE invoice
  /\ Goto(p, "restore_intent")
  /\ UNCHANGED <<clock, books, intent, chain, receipts, outside>>

\* Mutant: the status is written to the column of the covenant state.
RestoreIntentRow_WrongColumn(p) ==
  /\ At(p, "restore_intent")
  /\ intent' = IF intent.tx # None THEN [intent EXCEPT !.covenant = "submitted"] ELSE intent
  /\ Goto(p, "restore_cycle")
  /\ UNCHANGED <<clock, invoice, books, chain, receipts, outside>>

RestoreIntentRow(p) ==
  /\ At(p, "restore_intent")
  /\ intent' = IF intent.tx # None
                 THEN [intent EXCEPT !.status = "submitted",
                         !.covenant = IF @ = "expired" THEN "awaiting_funding" ELSE @]
                 ELSE intent
  /\ Goto(p, "restore_cycle")
  /\ UNCHANGED <<clock, invoice, books, chain, receipts, outside>>

\* Mutant: the reconciliation forgets the cycle.
RestoreCycleRow_Skipped(p) ==
  /\ At(p, "restore_cycle")
  /\ ExpireReturns(p, FALSE)
  /\ UNCHANGED <<clock, invoice, books, intent, chain, receipts, outside>>

RestoreCycleRow(p) ==
  /\ At(p, "restore_cycle")
  /\ cycle' = IF cycle = "past_due" THEN "invoiced" ELSE cycle
  /\ ExpireReturns(p, FALSE)
  /\ UNCHANGED <<clock, invoice, payAddress, observation, anomalies, intent,
                 chain, receipts, outside>>

ExpireStep(p) ==
  \/ ExpireInvoiceRow(p) \/ ExpireIntentRow(p) \/ ExpireCycleRow(p)
  \/ ExpireCheck(p)
  \/ RestoreInvoiceRow(p) \/ RestoreIntentRow(p) \/ RestoreCycleRow(p)

-----------------------------------------------------------------------------
(* The expirer's tick: one due invoice without a timely submission.        *)

\* Mutant: an invoice with a finalized covenant is left alone.
ExpirerScan_FinalizedSkipped ==
  /\ At(Expirer, "idle")
  /\ invoice = "open" /\ Late /\ ~TimelySubmission
  /\ intent.covenant # "awaiting_funding"
  /\ Goto(Expirer, "expire_invoice")
  /\ UNCHANGED <<clock, invoice, books, intent, chain, receipts, outside>>

ExpirerScan ==
  /\ At(Expirer, "idle")
  /\ invoice = "open" /\ Late /\ ~TimelySubmission
  /\ Goto(Expirer, "expire_invoice")
  /\ UNCHANGED <<clock, invoice, books, intent, chain, receipts, outside>>

-----------------------------------------------------------------------------
(* submit_kpr1_payment.                                                    *)

\* The arrival timestamp is taken before anything is read.
SubmitArrive(p, t) ==
  /\ p \in Submitters /\ At(p, "idle")
  /\ job' = [job EXCEPT ![p].pc = "submit_invoice", ![p].timely = ~Late,
                        ![p].tx = t]
  /\ UNCHANGED <<clock, invoice, books, intent, chain, receipts, outside>>

SubmitReadInvoice(p) ==
  /\ At(p, "submit_invoice")
  /\ job' = [job EXCEPT ![p].pc = "submit_intent", ![p].invoice = invoice]
  /\ UNCHANGED <<clock, invoice, books, intent, chain, receipts, outside>>

\* Mutant: no comparison of the arrival with the deadline.
SubmitReadIntent_NoDeadline(p) ==
  /\ At(p, "submit_intent")
  /\ IF job[p].invoice = "open" /\ intent.status \in {"created", "fetched", "submitted"}
       THEN Decided(p, "submit_claim") ELSE Finish(p)
  /\ UNCHANGED <<clock, invoice, books, intent, chain, receipts, outside>>

\* The early returns between the two SELECTs and the claim, in their order.
SubmitReadIntent(p) ==
  /\ At(p, "submit_intent")
  /\ LET timely    == job[p].timely
         payable   == job[p].invoice = "open" \/ (job[p].invoice = "expired" /\ timely)
         accepting == intent.status \in {"created", "fetched", "submitted"}
                      \/ (intent.status = "expired" /\ timely)
         sameTx    == intent.tx \in {None, job[p].tx}
     IN  CASE ~payable                          -> Finish(p)
           [] payable /\ ~timely               -> Decided(p, "expire_invoice")
           [] payable /\ timely /\ accepting /\ sameTx -> Decided(p, "submit_claim")
           [] OTHER                             -> Finish(p)
  /\ UNCHANGED <<clock, invoice, books, intent, chain, receipts, outside>>

\* No active entitlement, or neither a transaction id nor anything else usable.
SubmitRefused(p) ==
  /\ At(p, "submit_intent")
  /\ Finish(p)
  /\ UNCHANGED <<clock, invoice, books, intent, chain, receipts, outside>>

\* Mutant: the claim without its own check of tx_id.
ClaimAccepts_NoTxCheck(p) ==
  \/ intent.status \in {"created", "fetched", "submitted"}
  \/ intent.status = "expired" /\ job[p].timely

\* The WHERE clause of the atomic claim.
ClaimAccepts(p) ==
  /\ \/ intent.status \in {"created", "fetched", "submitted"}
     \/ intent.status = "expired" /\ job[p].timely
  /\ intent.tx \in {None, job[p].tx}

SubmitClaim(p) ==
  /\ At(p, "submit_claim")
  /\ IF ClaimAccepts(p)
       THEN /\ intent' = [intent EXCEPT !.status = "submitted", !.tx = job[p].tx,
                            !.timely = IF intent.tx = None THEN job[p].timely ELSE @]
            /\ Goto(p, "submit_reopen")
       ELSE /\ Finish(p)
            /\ UNCHANGED intent
  /\ UNCHANGED <<clock, invoice, books, chain, receipts, outside>>

\* If the expirer crossed this request, restore the payable state.
SubmitReopen(p) ==
  /\ At(p, "submit_reopen")
  /\ invoice' = IF invoice = "expired" /\ job[p].timely THEN "open" ELSE invoice
  /\ Goto(p, "submit_cycle")
  /\ UNCHANGED <<clock, books, intent, chain, receipts, outside>>

SubmitCycle(p) ==
  /\ At(p, "submit_cycle")
  /\ cycle' = IF cycle = "past_due" THEN "invoiced" ELSE cycle
  /\ Finish(p)
  /\ UNCHANGED <<clock, invoice, payAddress, observation, anomalies, intent,
                 chain, receipts, outside>>

SubmitStep(p) ==
  \/ SubmitReadInvoice(p) \/ SubmitReadIntent(p) \/ SubmitRefused(p)
  \/ SubmitClaim(p) \/ SubmitReopen(p) \/ SubmitCycle(p)

-----------------------------------------------------------------------------
(* expire_if_needed, the first thing show and cancel do with the invoice.  *)

ShowRead(p) ==
  /\ p \in Viewers /\ At(p, "idle")
  /\ IF invoice = "open" /\ Late
       THEN job' = [job EXCEPT ![p].pc = "view_check", ![p].invoice = invoice]
       ELSE Finish(p)
  /\ UNCHANGED <<clock, invoice, books, intent, chain, receipts, outside>>

CancelRead(p) ==
  /\ p \in Cancellers /\ At(p, "idle")
  /\ job' = [job EXCEPT ![p].pc = IF invoice = "open" /\ Late THEN "view_check"
                                                            ELSE "cancel_write",
                        ![p].invoice = invoice, ![p].cancels = TRUE]
  /\ UNCHANGED <<clock, invoice, books, intent, chain, receipts, outside>>

ViewCheck(p) ==
  /\ At(p, "view_check")
  /\ IF TimelySubmission THEN ExpireReturns(p, FALSE) ELSE Goto(p, "expire_invoice")
  /\ UNCHANGED <<clock, invoice, books, intent, chain, receipts, outside>>

\* cancel decides on the status it read and then writes without a guard.
CancelWrite(p) ==
  /\ At(p, "cancel_write")
  /\ invoice' = IF job[p].invoice = "open" THEN "cancelled" ELSE invoice
  /\ Finish(p)
  /\ UNCHANGED <<clock, books, intent, chain, receipts, outside>>

-----------------------------------------------------------------------------
(* fetch_kpr1_intent: bookkeeping on the status as it was read.            *)

FetchRead(p) ==
  /\ p \in Fetchers /\ At(p, "idle")
  /\ job' = [job EXCEPT ![p].pc = "fetch_clock", ![p].status = intent.status]
  /\ UNCHANGED <<clock, invoice, books, intent, chain, receipts, outside>>

\* The two conditions under which anything is written at all; job[p].status
\* becomes the status to write.
FetchClock(p) ==
  /\ At(p, "fetch_clock")
  /\ \/ /\ Late /\ job[p].status \in {"created", "fetched"}
        /\ job' = [job EXCEPT ![p].pc = "fetch_write", ![p].status = "expired"]
     \/ /\ ~Late /\ job[p].status = "created"
        /\ job' = [job EXCEPT ![p].pc = "fetch_write", ![p].status = "fetched"]
     \/ /\ IF Late THEN job[p].status \notin {"created", "fetched"}
                   ELSE job[p].status # "created"
        /\ Finish(p)
  /\ UNCHANGED <<clock, invoice, books, intent, chain, receipts, outside>>

FetchWrite(p) ==
  /\ At(p, "fetch_write")
  /\ intent' = [intent EXCEPT !.status = job[p].status]
  /\ Finish(p)
  /\ UNCHANGED <<clock, invoice, books, chain, receipts, outside>>

-----------------------------------------------------------------------------
(* finalize_covenant_for_invoice.                                          *)

FinalizeReadInvoice(p) ==
  /\ p \in Finalizers /\ At(p, "idle")
  /\ job' = [job EXCEPT ![p].pc = "finalize_intent", ![p].invoice = invoice]
  /\ UNCHANGED <<clock, invoice, books, intent, chain, receipts, outside>>

\* Already finalized: the receipt names the covenant on record.
FinalizeReadIntent(p) ==
  /\ At(p, "finalize_intent")
  /\ LET finalized == intent.covenant # "pending" /\ intent.address # None
     IN  /\ receipts' = IF finalized THEN receipts \cup {intent.address} ELSE receipts
         /\ CASE finalized                                        -> Finish(p)
              [] ~finalized /\ job[p].invoice # "open"             -> Finish(p)
              [] ~finalized /\ job[p].invoice = "open" /\ Late    -> Decided(p, "expire_invoice")
              [] OTHER                                             -> Decided(p, "finalize_address")
  /\ UNCHANGED <<clock, invoice, books, intent, chain, outside>>

\* The UPDATE carries no condition on covenant_state.
FinalizeWriteIntent(p) ==
  /\ At(p, "finalize_address")
  /\ intent' = [intent EXCEPT !.address = p, !.covenant = "awaiting_funding"]
  /\ Goto(p, "finalize_invoice")
  /\ UNCHANGED <<clock, invoice, books, chain, receipts, outside>>

FinalizeWriteInvoice(p) ==
  /\ At(p, "finalize_invoice")
  /\ payAddress' = p
  /\ receipts' = receipts \cup {p}
  /\ Finish(p)
  /\ UNCHANGED <<clock, invoice, cycle, observation, anomalies, intent, chain, outside>>

-----------------------------------------------------------------------------
(* The chain observer's tick: the oldest CLAIM_BATCH candidates of all     *)
(* invoices, of which this module follows one.                             *)

\* Mutant: an intent is looked at only until it was first seen on chain.
ObserverSelect_SubmittedOnly ==
  /\ At(Observer, "idle") /\ ahead < CLAIM_BATCH
  /\ intent.tx # None /\ intent.address # None /\ intent.status = "submitted"
  /\ intent.covenant = "awaiting_funding" /\ invoice = "open"
  /\ job' = [job EXCEPT ![Observer].pc = "observe_depth", ![Observer].tx = intent.tx,
                        ![Observer].address = intent.address]
  /\ UNCHANGED <<clock, invoice, books, intent, chain, receipts, outside>>

ObserverSelect ==
  /\ At(Observer, "idle") /\ ahead < CLAIM_BATCH
  /\ intent.tx # None /\ intent.address # None
  /\ intent.covenant = "awaiting_funding" /\ invoice = "open"
  /\ job' = [job EXCEPT ![Observer].pc = "observe_depth", ![Observer].tx = intent.tx,
                        ![Observer].address = intent.address]
  /\ UNCHANGED <<clock, invoice, books, intent, chain, receipts, outside>>

\* The virtual DAA score is read once, before the transaction is looked up.
ObserverDepth ==
  /\ At(Observer, "observe_depth")
  /\ job' = [job EXCEPT ![Observer].pc = "observe_outputs",
                        ![Observer].deep = chain[job[Observer].tx].deep]
  /\ UNCHANGED <<clock, invoice, books, intent, chain, receipts, outside>>

\* Only outputs to the candidate's covenant address are visible, and of those
\* only their sum is compared with the gross.
ObserverOutputs ==
  /\ At(Observer, "observe_outputs")
  /\ LET paid == chain[job[Observer].tx]
     IN  IF paid.address # job[Observer].address
           THEN Finish(Observer)
           ELSE job' = [job EXCEPT ![Observer] =
                  [Idle EXCEPT !.pc = "observe_record", !.deep = job[Observer].deep,
                               !.seen = IF paid.exact THEN "exact" ELSE "wrong"]]
  /\ UNCHANGED <<clock, invoice, books, intent, chain, receipts, outside>>

\* The node does not answer: try again next tick.
ObserverNodeDown ==
  /\ At(Observer, "observe_depth") \/ At(Observer, "observe_outputs")
  /\ Finish(Observer)
  /\ UNCHANGED <<clock, invoice, books, intent, chain, receipts, outside>>

ObserverRecord ==
  /\ At(Observer, "observe_record")
  /\ observation' = CASE job[Observer].seen = "wrong" -> "mismatched"
                      [] job[Observer].seen = "exact" /\ job[Observer].deep -> "settled"
                      [] OTHER -> "matched"
  /\ Goto(Observer, "observe_intent")
  /\ UNCHANGED <<clock, invoice, payAddress, cycle, anomalies, intent, chain,
                 receipts, outside>>

\* Mutant: an underfunded covenant keeps waiting for funds.
ObserverIntent_KeepAwaiting ==
  /\ At(Observer, "observe_intent")
  /\ CASE job[Observer].seen = "wrong" ->
            /\ intent' = [intent EXCEPT !.status = "failed"]
            /\ Goto(Observer, "observe_anomaly")
       [] OTHER ->
            /\ intent' = [intent EXCEPT !.status = "verified",
                            !.covenant = IF job[Observer].deep THEN "funded" ELSE @]
            /\ Finish(Observer)
  /\ UNCHANGED <<clock, invoice, books, chain, receipts, outside>>

\* Mutant: the first confirmation is enough.
ObserverIntent_Shallow ==
  /\ At(Observer, "observe_intent")
  /\ CASE job[Observer].seen = "wrong" ->
            /\ intent' = [intent EXCEPT !.status = "failed", !.covenant = "failed"]
            /\ Goto(Observer, "observe_anomaly")
       [] OTHER ->
            /\ intent' = [intent EXCEPT !.status = "verified", !.covenant = "funded"]
            /\ Finish(Observer)
  /\ UNCHANGED <<clock, invoice, books, chain, receipts, outside>>

\* mark_verified, mark_funded or the first half of fail_intent: each WHERE id = $.
ObserverIntent ==
  /\ At(Observer, "observe_intent")
  /\ CASE job[Observer].seen = "wrong" ->
            /\ intent' = [intent EXCEPT !.status = "failed", !.covenant = "failed"]
            /\ Goto(Observer, "observe_anomaly")
       [] OTHER ->
            /\ intent' = [intent EXCEPT !.status = "verified",
                            !.covenant = IF job[Observer].deep THEN "funded" ELSE @]
            /\ Finish(Observer)
  /\ UNCHANGED <<clock, invoice, books, chain, receipts, outside>>

ObserverAnomaly ==
  /\ At(Observer, "observe_anomaly")
  /\ anomalies' = anomalies + 1
  /\ Finish(Observer)
  /\ UNCHANGED <<clock, invoice, payAddress, cycle, observation, intent, chain,
                 receipts, outside>>

-----------------------------------------------------------------------------
(* The keeper's tick, as far as this invoice is concerned: the capture and *)
(* the three statements that record it (module Settlement has the rest).   *)

KeeperScan ==
  /\ At(Keeper, "idle")
  /\ intent.covenant = "funded" /\ invoice = "open" /\ clock = "capture"
  /\ job' = [job EXCEPT ![Keeper].pc = "keeper_claim", ![Keeper].tx = intent.tx,
                        ![Keeper].address = intent.address]
  /\ UNCHANGED <<clock, invoice, books, intent, chain, receipts, outside>>

KeeperClaim ==
  /\ At(Keeper, "keeper_claim")
  /\ IF intent.covenant = "funded"
       THEN /\ intent' = [intent EXCEPT !.covenant = "settling"]
            /\ Goto(Keeper, "keeper_broadcast")
       ELSE /\ Finish(Keeper)
            /\ UNCHANGED intent
  /\ UNCHANGED <<clock, invoice, books, chain, receipts, outside>>

\* Mutant: the capture spends whatever adds up to the gross.
KeeperBroadcast_Sum ==
  /\ At(Keeper, "keeper_broadcast")
  /\ \E t \in TxIds : chain[t].address = job[Keeper].address /\ chain[t].exact
  /\ Goto(Keeper, "keeper_intent")
  /\ UNCHANGED <<clock, invoice, books, intent, chain, receipts, outside>>

\* The capture goes out only if some output of the gross sits at the address read.
KeeperBroadcast ==
  /\ At(Keeper, "keeper_broadcast")
  /\ \E t \in TxIds : chain[t].address = job[Keeper].address /\ chain[t].whole
  /\ Goto(Keeper, "keeper_intent")
  /\ UNCHANGED <<clock, invoice, books, intent, chain, receipts, outside>>

\* No UTXO, no fee, a rejection, a statement that failed: hand the claim back.
KeeperRestore ==
  /\ At(Keeper, "keeper_broadcast") \/ At(Keeper, "keeper_restore")
  /\ intent' = IF intent.covenant = "settling"
                 THEN [intent EXCEPT !.covenant = "funded"] ELSE intent
  /\ Finish(Keeper)
  /\ UNCHANGED <<clock, invoice, books, chain, receipts, outside>>

\* A statement of the record fails: the keeper catches the error.
Records == {"keeper_intent", "keeper_invoice", "keeper_cycle"}

KeeperRecordFails ==
  /\ failures < MaxFailures
  /\ job[Keeper].pc \in Records
  /\ failures' = failures + 1
  /\ Goto(Keeper, "keeper_restore")
  /\ UNCHANGED <<clock, invoice, books, intent, chain, receipts, ahead, cut>>

KeeperIntent ==
  /\ At(Keeper, "keeper_intent")
  /\ intent' = [intent EXCEPT !.status = "settled", !.covenant = "captured"]
  /\ Goto(Keeper, "keeper_invoice")
  /\ UNCHANGED <<clock, invoice, books, chain, receipts, outside>>

KeeperInvoice ==
  /\ At(Keeper, "keeper_invoice")
  /\ invoice' = IF invoice = "open" THEN "paid" ELSE invoice
  /\ Goto(Keeper, "keeper_cycle")
  /\ UNCHANGED <<clock, books, intent, chain, receipts, outside>>

KeeperCycle ==
  /\ At(Keeper, "keeper_cycle")
  /\ cycle' = "paid"
  /\ Finish(Keeper)
  /\ UNCHANGED <<clock, invoice, payAddress, observation, anomalies, intent,
                 chain, receipts, outside>>

-----------------------------------------------------------------------------

(***************************************************************************)
(* Who is on the way to open an invoice that expired beside a submission   *)
(* in time, to bring back its cycle, and to report a wrong payment.        *)
(***************************************************************************)
Reopens == {"submit_reopen", "expire_intent", "expire_cycle", "expire_check",
            "restore_invoice"}
Mends   == {"submit_reopen", "submit_cycle", "expire_check", "restore_invoice",
            "restore_intent", "restore_cycle"}
Reports == {"observe_anomaly"}
Duties  == {"invoice", "cycle", "report"}
Owing(d) == CASE d = "invoice" -> Reopens
              [] d = "cycle"   -> Mends
              [] d = "report"  -> Reports
Dropped(p) == {d \in Duties : job[p].pc \in Owing(d)}

\* The statement a handler is at fails and with it the request or the tick: what
\* it wrote stays.  A statement whose answer is lost is the next one's failure.
StatementFails(p) ==
  /\ failures < MaxFailures
  /\ job[p].pc \notin {"idle", "done"} \cup Records
  /\ failures' = failures + 1
  /\ cut' = cut \cup Dropped(p)
  /\ Finish(p)
  /\ UNCHANGED <<clock, invoice, books, intent, chain, receipts, ahead>>

\* The process dies: every request in flight is lost, the workers start over.
Crash ==
  /\ failures < MaxFailures
  /\ ~Quiet
  /\ failures' = failures + 1
  /\ cut' = cut \cup UNION {Dropped(p) : p \in Procs}
  /\ job' = [p \in Procs |-> IF At(p, "idle") THEN Idle ELSE Finished(p)]
  /\ UNCHANGED <<clock, invoice, books, intent, chain, receipts, ahead>>

RequestStep(p) ==
  \/ SubmitStep(p)
  \/ ViewCheck(p) \/ CancelWrite(p)
  \/ FetchClock(p) \/ FetchWrite(p)
  \/ FinalizeReadIntent(p) \/ FinalizeWriteIntent(p) \/ FinalizeWriteInvoice(p)

RequestArrives(p) ==
  \/ \E t \in TxIds : SubmitArrive(p, t)
  \/ ShowRead(p) \/ CancelRead(p) \/ FetchRead(p) \/ FinalizeReadInvoice(p)

ObserverStep ==
  \/ ObserverSelect \/ ObserverDepth \/ ObserverOutputs \/ ObserverNodeDown
  \/ ObserverRecord \/ ObserverIntent \/ ObserverAnomaly

KeeperStep ==
  \/ KeeperScan \/ KeeperClaim \/ KeeperBroadcast \/ KeeperRestore
  \/ KeeperIntent \/ KeeperInvoice \/ KeeperCycle \/ KeeperRecordFails

Environment ==
  \/ ClockTick \/ OthersMove
  \/ \E t \in TxIds : Pay(t) \/ Confirm(t)

Next ==
  \/ Environment
  \/ \E p \in Procs : ExpireStep(p)
  \/ \E p \in Requests : RequestArrives(p) \/ RequestStep(p)
  \/ ExpirerScan \/ ObserverStep \/ KeeperStep
  \/ \E p \in Procs : StatementFails(p)
  \/ Crash

Spec == Init /\ [][Next]_vars

(***************************************************************************)
(* Handlers run to completion and the workers keep polling; the node       *)
(* answers again and again, though any single call may fail.  Nothing is   *)
(* assumed of wallets, merchants or the DAG.                               *)
(***************************************************************************)
Fairness ==
  /\ \A p \in Requests : WF_vars(RequestStep(p) \/ ExpireStep(p))
  /\ WF_vars(ExpirerScan \/ ExpireStep(Expirer))
  /\ WF_vars(ObserverSelect \/ ObserverRecord \/ ObserverIntent \/ ObserverAnomaly)
  /\ SF_vars(ObserverDepth) /\ SF_vars(ObserverOutputs)

FairSpec == Spec /\ Fairness

-----------------------------------------------------------------------------
(* Properties.                                                             *)

TypeOK ==
  /\ clock \in {"window", "late", "capture"}
  /\ invoice \in InvoiceStatus
  /\ payAddress \in Addresses \cup {None}
  /\ intent \in Intent
  /\ cycle \in {"invoiced", "past_due", "paid"}
  /\ observation \in {"none", "matched", "mismatched", "settled"}
  /\ anomalies \in Nat
  /\ chain \in [TxIds -> Payment]
  /\ receipts \subseteq Addresses
  /\ job \in [Procs -> Job]
  /\ ahead \in 0..MaxAhead
  /\ failures \in 0..MaxFailures
  /\ cut \subseteq Duties

\* A transaction submitted before the deadline wins over every expiry that
\* crosses it: once no handler is under way the invoice is not expired, unless
\* one that had still to reopen it was cut short (expire_invoice's reconciliation
\* and submit's reopening together).
TimelySubmissionNotExpired ==
  Quiet /\ TimelySubmission /\ invoice = "expired" => "invoice" \in cut

\* Likewise the billed cycle: it is not left past due beside a payment that was
\* submitted in time, unless one that had still to bring it back was cut short.
CycleFollowsSubmission ==
  Quiet /\ TimelySubmission /\ cycle = "past_due" => "cycle" \in cut

\* Only a request received by the deadline ever gets its transaction recorded,
\* whichever expiry, fetch or other submission runs in between.
AcceptedInTime == intent.tx # None => intent.timely

\* The claim is first-come: a recorded transaction id is never replaced, though
\* several submissions may have passed the SELECT-then-check.
TxClaimedOnce == [][intent.tx # None => intent'.tx = intent.tx]_vars

\* What the keeper may spend was really funded, by the recorded transaction: its
\* outputs add up to the gross, deep enough, at an address that finalize gave a
\* payer, the covenant address on record unless two finalize requests crossed.
\* Nothing here says that they are one output: what is captured, though, was
\* spent from an output of exactly the gross at such an address.
FundedExactly ==
  LET onRecord(a) == a \in receipts /\ (receipts \subseteq {intent.address} => a = intent.address)
  IN  /\ intent.covenant \in {"funded", "settling", "captured"} =>
           /\ intent.tx # None /\ intent.address # None
           /\ chain[intent.tx].exact /\ chain[intent.tx].deep
           /\ onRecord(chain[intent.tx].address)
      /\ intent.covenant = "captured" =>
           \E t \in TxIds : chain[t].whole /\ onRecord(chain[t].address)

\* A wrong payment is reported once: never a second time, never without failing
\* the covenant (whose address a crossing finalize may replace), and always
\* unless the observer was cut short between failing it and reporting it.
FailureReportedOnce ==
  /\ anomalies <= 1
  /\ anomalies = 1 /\ receipts \subseteq {intent.address} => intent.covenant = "failed"
  /\ Quiet /\ intent.covenant = "failed" => anomalies = 1 \/ "report" \in cut

\* A deep payment of the recorded transaction to the covenant on record gets
\* decided: the observer finds it whatever expiry is going on, provided that from
\* some time on fewer than a batch of older candidates wait before it, and that
\* nobody was cut short with the invoice still to reopen.
DeepPaymentDecided ==
  <>[](ahead < CLAIM_BATCH) =>
    ((/\ intent.covenant = "awaiting_funding" /\ intent.tx # None
      /\ intent.address # None /\ invoice = "open"
      /\ chain[intent.tx].address = intent.address /\ chain[intent.tx].deep)
     ~> (intent.covenant \in {"funded", "failed", "settling", "captured"}
         \/ invoice = "cancelled" \/ "invoice" \in cut))

\* An unpaid invoice does not stay open past its deadline.
UnpaidInvoiceCloses ==
  (Late /\ invoice = "open" /\ intent.tx = None)
  ~> (invoice # "open" \/ intent.tx # None)

\* "Submission wins and restores all payable state": an open invoice with a
\* timely submission has a covenant the observer still looks at.
SubmissionRestoresAll ==
  Quiet /\ TimelySubmission /\ invoice = "open" => intent.covenant # "expired"

\* "The payer funds ONE output to the covenant P2SH address with EXACTLY the gross
\* amount": what the observer calls funded has such an output.
FundedByOneOutput ==
  intent.covenant = "funded" => chain[intent.tx].whole
=============================================================================
