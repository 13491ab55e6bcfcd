----------------------------- MODULE Settlement -----------------------------
(***************************************************************************)
(* The settlement of funded covenants: the keeper's automatic capture and  *)
(* the five requests that spend a covenant (customer release, arbiter      *)
(* release, merchant refund, arbiter refund, mutual settlement), competing *)
(* for the same rows and the same UTXOs.                                   *)
(*                                                                         *)
(* Each settler claims the row (covenant_state leaves 'funded'), hands a   *)
(* transaction to the node, and records the result in statements that      *)
(* commit one by one.  An action is one statement or one call to the node. *)
(***************************************************************************)
EXTENDS Naturals, FiniteSets

CONSTANTS
  Covenants,       \* ids of the intents, in the order of their creation
  Releasers,       \* POST kpr1-release
  Arbitrations,    \* POST arbiter release
  MerchantRefunds, \* POST kpr1-refund
  ArbiterRefunds,  \* POST arbiter refund
  Mutuals,         \* POST kpr1-settle
  Cancellers,      \* POST invoice cancel
  ClaimBatch,      \* CLAIM_BATCH: rows a keeper tick looks at
  None,
  MaxFaults,       \* bound on failed statements and lost answers
  MaxCrashes       \* bound on restarts

Keeper   == "keeper"
Refunds  == MerchantRefunds \cup ArbiterRefunds
Releases == Releasers \cup Arbitrations
Spenders == Releases \cup Refunds \cup Mutuals
Settlers == Spenders \cup {Keeper}
Procs    == Settlers \cup Cancellers

ASSUME CovenantsAssumption == Covenants \subseteq Nat
ASSUME NoneAssumption == None \notin Covenants /\ None \notin Procs
ASSUME ProcsAssumption ==
  /\ Keeper \notin Spenders \cup Cancellers
  /\ Releasers \cap Arbitrations = {}
  /\ Releases \cap Refunds = {} /\ Releases \cap Mutuals = {}
  /\ Refunds \cap Mutuals = {}  /\ Spenders \cap Cancellers = {}
ASSUME BoundsAssumption ==
  ClaimBatch \in Nat /\ MaxFaults \in Nat /\ MaxCrashes \in Nat

VARIABLES
  covenant,  \* kpr1_payment_intents.covenant_state
  status,    \* kpr1_payment_intents.status
  recorded,  \* release_tx_id or refund_tx_id: the settler whose transaction it is
  invoice,   \* invoices.status
  cycle,     \* subscription_cycles.status
  due,       \* consensus time has passed the capture time
  spentBy,   \* whose transaction spent the covenant's UTXO
  pc,        \* where each process is
  cov,       \* the covenant it works on
  batch,     \* the keeper's candidates not yet handled in this tick
  faults, crashes

vars == <<covenant, status, recorded, invoice, cycle, due, spentBy, pc, cov,
          batch, faults, crashes>>

\* The state that holds the row while p works on it.
Claim(p) == IF p = Keeper THEN "settling"
            ELSE IF p \in Releases THEN "releasing"
            ELSE IF p \in Refunds THEN "refunding" ELSE "settling_mutual"

\* The covenant_state p leaves behind when it succeeds.
Terminal(p) == IF p = Keeper THEN "captured"
               ELSE IF p \in Releasers THEN "released"
               ELSE IF p \in Arbitrations THEN "arbitrated"
               ELSE IF p \in Refunds THEN "refunded" ELSE "settled_mutual"

\* Whom the transaction of p pays: the branch of the contract it takes.
Pays(p) == IF p \in Refunds THEN "customer"
           ELSE IF p \in Mutuals THEN "split" ELSE "merchant"

Claims    == {"settling", "releasing", "refunding", "settling_mutual"}
Terminals == {"captured", "released", "arbitrated", "refunded", "settled_mutual"}

Labels == {"idle", "done", "lookup", "claim", "next", "keeper_lookup", "broadcast",
           "restore", "record_intent", "record_invoice", "record_cycle", "emit",
           "cancel_write"}

At(p, label)   == pc[p] = label
Goto(p, label) == pc' = [pc EXCEPT ![p] = label]
\* The keeper goes on with its batch, a request has been answered.
Rest(p)   == IF p = Keeper THEN "next" ELSE "done"
Finish(p) == Goto(p, Rest(p))

Init ==
  /\ covenant = [c \in Covenants |-> "funded"]
  /\ status = [c \in Covenants |-> "verified"]
  /\ recorded = [c \in Covenants |-> None]
  /\ invoice = [c \in Covenants |-> "open"]
  /\ cycle = [c \in Covenants |-> "invoiced"]
  /\ due = [c \in Covenants |-> FALSE]
  /\ spentBy = [c \in Covenants |-> None]
  /\ pc = [p \in Procs |-> "idle"]
  /\ cov = [p \in Procs |-> None]
  /\ batch = {}
  /\ faults = 0 /\ crashes = 0

row   == <<covenant, status, recorded>>
books == <<invoice, cycle>>
scan  == <<cov, batch>>

CaptureTimePasses(c) ==
  /\ ~due[c]
  /\ due' = [due EXCEPT ![c] = TRUE]
  /\ UNCHANGED <<row, books, spentBy, pc, scan, faults, crashes>>

-----------------------------------------------------------------------------
(* The requests up to their claim.                                         *)

\* load_funded_open
Load(p, c) ==
  /\ p \in Spenders /\ At(p, "idle")
  /\ covenant[c] = "funded" /\ invoice[c] = "open"
  /\ cov' = [cov EXCEPT ![p] = c]
  /\ Goto(p, "lookup")
  /\ UNCHANGED <<row, books, due, spentBy, batch, faults, crashes>>

\* gather_release_inputs, gather_refund_inputs: the covenant's UTXO and one for the fee.
Lookup(p) ==
  /\ At(p, "lookup")
  /\ IF spentBy[cov[p]] = None THEN Goto(p, "claim") ELSE Goto(p, "done")
  /\ UNCHANGED <<row, books, due, spentBy, scan, faults, crashes>>

\* No UTXO for the fee, no answer, a malformed signature.
LookupFails(p) ==
  /\ At(p, "lookup")
  /\ Goto(p, "done")
  /\ UNCHANGED <<row, books, due, spentBy, scan, faults, crashes>>

\* Mutant: check, then claim whatever the row says by now.
ClaimFunded_Blind(p) ==
  /\ At(p, "claim")
  /\ covenant' = [covenant EXCEPT ![cov[p]] = Claim(p)]
  /\ Goto(p, "broadcast")
  /\ UNCHANGED <<status, recorded, books, due, spentBy, scan, faults, crashes>>

\* claim_funded: conditional on the row still being funded.
ClaimFunded(p) ==
  /\ At(p, "claim")
  /\ IF covenant[cov[p]] = "funded"
       THEN /\ covenant' = [covenant EXCEPT ![cov[p]] = Claim(p)]
            /\ Goto(p, "broadcast")
       ELSE /\ Goto(p, "done")
            /\ UNCHANGED covenant
  /\ UNCHANGED <<status, recorded, books, due, spentBy, scan, faults, crashes>>

-----------------------------------------------------------------------------
(* The keeper up to its claim.                                             *)

Eligible == {c \in Covenants : covenant[c] = "funded" /\ invoice[c] = "open" /\ due[c]}

\* ORDER BY i.id LIMIT CLAIM_BATCH
KeeperScan ==
  /\ At(Keeper, "idle")
  /\ Eligible # {}
  /\ batch' = {c \in Eligible : Cardinality({d \in Eligible : d < c}) < ClaimBatch}
  /\ Goto(Keeper, "next")
  /\ UNCHANGED <<row, books, due, spentBy, cov, faults, crashes>>

\* The claim of the next candidate; a row that is no longer funded is skipped.
KeeperClaim ==
  /\ At(Keeper, "next")
  /\ \E c \in batch :
       /\ \A d \in batch : c <= d
       /\ batch' = batch \ {c}
       /\ cov' = [cov EXCEPT ![Keeper] = c]
       /\ IF covenant[c] = "funded"
            THEN /\ covenant' = [covenant EXCEPT ![c] = "settling"]
                 /\ Goto(Keeper, "keeper_lookup")
            ELSE UNCHANGED <<covenant, pc>>
  /\ UNCHANGED <<status, recorded, books, due, spentBy, faults, crashes>>

\* settle_one looks for the UTXO under the claim; failing otherwise is the same
\* as a rejected broadcast.
KeeperLookup ==
  /\ At(Keeper, "keeper_lookup")
  /\ IF spentBy[cov[Keeper]] = None THEN Goto(Keeper, "broadcast")
                                    ELSE Goto(Keeper, "restore")
  /\ UNCHANGED <<row, books, due, spentBy, scan, faults, crashes>>

KeeperTickEnds ==
  /\ At(Keeper, "next") /\ batch = {}
  /\ Goto(Keeper, "idle")
  /\ UNCHANGED <<row, books, due, spentBy, scan, faults, crashes>>

-----------------------------------------------------------------------------
(* The broadcast.                                                          *)

\* Accepted by the node, and the answer arrives.
Broadcast(p) ==
  /\ At(p, "broadcast")
  /\ spentBy[cov[p]] = None
  /\ spentBy' = [spentBy EXCEPT ![cov[p]] = p]
  /\ Goto(p, "record_intent")
  /\ UNCHANGED <<row, books, due, scan, faults, crashes>>

\* Mutant: the error of the node is taken for an answer.
BroadcastRejected_Ignored(p) ==
  /\ At(p, "broadcast")
  /\ Goto(p, "record_intent")
  /\ UNCHANGED <<row, books, due, spentBy, scan, faults, crashes>>

\* Rejected: a bad signature, the fee input gone, the covenant spent meanwhile.
BroadcastRejected(p) ==
  /\ At(p, "broadcast")
  /\ Goto(p, "restore")
  /\ UNCHANGED <<row, books, due, spentBy, scan, faults, crashes>>

\* Accepted, but the connection drops or the call times out.
BroadcastAnswerLost(p) ==
  /\ At(p, "broadcast")
  /\ faults < MaxFaults
  /\ faults' = faults + 1
  /\ spentBy[cov[p]] = None
  /\ spentBy' = [spentBy EXCEPT ![cov[p]] = p]
  /\ Goto(p, "restore")
  /\ UNCHANGED <<row, books, due, scan, crashes>>

\* Mutant: the claim is handed back whatever became of the row.
Restore_Blind(p) ==
  /\ At(p, "restore")
  /\ covenant' = [covenant EXCEPT ![cov[p]] = "funded"]
  /\ Finish(p)
  /\ UNCHANGED <<status, recorded, books, due, spentBy, scan, faults, crashes>>

\* Mutant: the claim is kept after a failure.
Restore_Kept(p) ==
  /\ At(p, "restore")
  /\ Finish(p)
  /\ UNCHANGED <<row, books, due, spentBy, scan, faults, crashes>>

\* restore_funded, and the keeper's own version of it.
Restore(p) ==
  /\ At(p, "restore")
  /\ covenant' = [covenant EXCEPT ![cov[p]] = IF @ = Claim(p) THEN "funded" ELSE @]
  /\ Finish(p)
  /\ UNCHANGED <<status, recorded, books, due, spentBy, scan, faults, crashes>>

-----------------------------------------------------------------------------
(* Recording: mark_settled_paid and finalize_refund.                       *)

\* Mutant: the parameters of the statement are bound in the wrong order.
RecordIntent_Swapped(p) ==
  /\ At(p, "record_intent")
  /\ covenant' = [covenant EXCEPT ![cov[p]] = "settled"]
  /\ recorded' = [recorded EXCEPT ![cov[p]] = p]
  /\ status' = [status EXCEPT ![cov[p]] = IF p \in Refunds THEN @ ELSE Terminal(p)]
  /\ Goto(p, "record_invoice")
  /\ UNCHANGED <<books, due, spentBy, scan, faults, crashes>>

\* Unconditional: WHERE id = $.
RecordIntent(p) ==
  /\ At(p, "record_intent")
  /\ covenant' = [covenant EXCEPT ![cov[p]] = Terminal(p)]
  /\ recorded' = [recorded EXCEPT ![cov[p]] = p]
  /\ status' = [status EXCEPT ![cov[p]] = IF p \in Refunds THEN @ ELSE "settled"]
  /\ Goto(p, "record_invoice")
  /\ UNCHANGED <<books, due, spentBy, scan, faults, crashes>>

\* Mutant: a refund closes the invoice the way every other settlement does.
Booked_AlwaysPaid(p) == "paid"

\* What the invoice becomes.
Booked(p) == IF p \in Refunds THEN "refunded" ELSE "paid"

RecordInvoice(p) ==
  /\ At(p, "record_invoice")
  /\ invoice' = [invoice EXCEPT ![cov[p]] = IF @ = "open" THEN Booked(p) ELSE @]
  /\ IF p \in Refunds THEN Goto(p, "done") ELSE Goto(p, "record_cycle")
  /\ UNCHANGED <<row, cycle, due, spentBy, scan, faults, crashes>>

\* mark_cycle_paid, for an invoice that bills a cycle.  (Its update of a past_due
\* subscription finds none: nothing sets that status.)
RecordCycle(p) ==
  /\ At(p, "record_cycle")
  /\ cycle' = [cycle EXCEPT ![cov[p]] = "paid"]
  /\ IF p = Keeper THEN Goto(p, "emit") ELSE Goto(p, "done")
  /\ UNCHANGED <<row, invoice, due, spentBy, scan, faults, crashes>>

\* The keeper propagates a failure of emit_invoice_event, the requests ignore it.
KeeperEmit ==
  /\ At(Keeper, "emit")
  /\ Goto(Keeper, "next")
  /\ UNCHANGED <<row, books, due, spentBy, scan, faults, crashes>>

-----------------------------------------------------------------------------
(* Failure.                                                                *)

\* A statement fails.  A request answers with the error as it stands; the keeper
\* gives up the tick before its claim and restores after it.
StatementFails(p) ==
  /\ p \in Settlers
  /\ faults < MaxFaults
  /\ faults' = faults + 1
  /\ \/ /\ pc[p] \in {"claim", "next"}
        /\ IF p = Keeper THEN Goto(p, "idle") /\ batch' = {}
                         ELSE Goto(p, "done") /\ UNCHANGED batch
     \/ /\ pc[p] \in {"record_intent", "record_invoice", "record_cycle", "emit"}
        /\ IF p = Keeper THEN Goto(p, "restore") ELSE Goto(p, "done")
        /\ UNCHANGED batch
     \/ /\ pc[p] = "restore"
        /\ Finish(p)
        /\ UNCHANGED batch
  /\ UNCHANGED <<row, books, due, spentBy, cov, crashes>>

\* The process dies with everything in flight.
Crash ==
  /\ crashes < MaxCrashes
  /\ crashes' = crashes + 1
  /\ \E p \in Procs : pc[p] \notin {"idle", "done"}
  /\ pc' = [p \in Procs |-> IF p = Keeper \/ pc[p] = "idle" THEN "idle" ELSE "done"]
  /\ batch' = {}
  /\ UNCHANGED <<row, books, due, spentBy, cov, faults>>

-----------------------------------------------------------------------------
(* cancel: for a funded covenant expire_if_needed finds the timely         *)
(* submission and does nothing, so a read and an unguarded write remain.   *)

CancelRead(p, c) ==
  /\ p \in Cancellers /\ At(p, "idle")
  /\ cov' = [cov EXCEPT ![p] = c]
  /\ IF invoice[c] = "open" THEN Goto(p, "cancel_write") ELSE Goto(p, "done")
  /\ UNCHANGED <<row, books, due, spentBy, batch, faults, crashes>>

CancelWrite(p) ==
  /\ At(p, "cancel_write")
  /\ invoice' = [invoice EXCEPT ![cov[p]] = "cancelled"]
  /\ Goto(p, "done")
  /\ UNCHANGED <<row, cycle, due, spentBy, scan, faults, crashes>>

-----------------------------------------------------------------------------

Settle(p) ==
  \/ Lookup(p) \/ LookupFails(p) \/ ClaimFunded(p)
  \/ Broadcast(p) \/ BroadcastRejected(p) \/ BroadcastAnswerLost(p)
  \/ Restore(p)
  \/ RecordIntent(p) \/ RecordInvoice(p) \/ RecordCycle(p)

KeeperTick == KeeperScan \/ KeeperClaim \/ KeeperLookup \/ KeeperTickEnds \/ KeeperEmit

Next ==
  \/ \E c \in Covenants : CaptureTimePasses(c)
  \/ \E p \in Spenders, c \in Covenants : Load(p, c)
  \/ \E p \in Cancellers, c \in Covenants : CancelRead(p, c)
  \/ \E p \in Cancellers : CancelWrite(p)
  \/ \E p \in Settlers : Settle(p) \/ StatementFails(p)
  \/ KeeperTick
  \/ Crash

Spec == Init /\ [][Next]_vars

(***************************************************************************)
(* A handler once begun goes on, the keeper keeps polling, consensus time  *)
(* passes, and the node does not reject a good transaction for ever.       *)
(***************************************************************************)
Fairness ==
  /\ \A c \in Covenants : WF_vars(CaptureTimePasses(c))
  /\ \A p \in Settlers : WF_vars(Settle(p)) /\ SF_vars(Broadcast(p))
  /\ WF_vars(KeeperTick)

FairSpec == Spec /\ Fairness

-----------------------------------------------------------------------------
(* Properties.                                                             *)

\* A settler with one of these labels works under its claim.
Holding == {"keeper_lookup", "broadcast", "record_intent", "restore"}

TypeOK ==
  /\ covenant \in [Covenants -> {"funded"} \cup Claims \cup Terminals]
  /\ status \in [Covenants -> {"verified", "settled"}]
  /\ recorded \in [Covenants -> Settlers \cup {None}]
  /\ invoice \in [Covenants -> {"open", "paid", "refunded", "cancelled"}]
  /\ cycle \in [Covenants -> {"invoiced", "paid"}]
  /\ due \in [Covenants -> BOOLEAN]
  /\ spentBy \in [Covenants -> Settlers \cup {None}]
  /\ pc \in [Procs -> Labels]
  /\ cov \in [Procs -> Covenants \cup {None}]
  /\ batch \subseteq Covenants
  /\ faults \in 0..MaxFaults
  /\ crashes \in 0..MaxCrashes

\* The claim of claim_funded and of the keeper is a lock: two settlers never work
\* under a claim on the same covenant, whatever fails or restarts in between.
ClaimExclusive ==
  \A p, q \in Settlers :
    pc[p] \in Holding /\ pc[q] \in Holding /\ cov[p] = cov[q] => p = q

\* The row tells the truth about the chain: a covenant in a final state was
\* spent, by the transaction on record, along the tier the state names.
SettledAsSpent ==
  \A c \in Covenants : covenant[c] \in Terminals =>
    /\ spentBy[c] \in Settlers /\ recorded[c] = spentBy[c]
    /\ covenant[c] = Terminal(spentBy[c])

\* A settlement on record stays: no failed statement, restored claim or late
\* request takes the row back or rewrites it.
SettledForGood ==
  [][\A c \in Covenants : covenant[c] \in Terminals =>
       covenant'[c] = covenant[c] /\ recorded'[c] = recorded[c]]_vars

\* Settlement implements EscrowOutcome: each covenant is spent once, and an
\* invoice becomes paid or refunded only after a spend that did so.
Escrow == INSTANCE EscrowOutcome WITH
  outcome <- [c \in Covenants |-> IF spentBy[c] = None THEN "held" ELSE Pays(spentBy[c])],
  ledger <- invoice

EscrowSpec == Escrow!Spec

\* The books follow the chain: an invoice is paid or refunded only if its
\* covenant was spent, by a transaction that paid accordingly.
BooksMatchChain ==
  \A c \in Covenants :
    /\ invoice[c] = "paid" => spentBy[c] \in Settlers \ Refunds
    /\ invoice[c] = "refunded" => spentBy[c] \in Refunds

\* What each label knows of the row and of the chain; with this the claims and
\* the records above are inductive.
AtWork     == Labels \ {"idle", "done", "next"}
Recording  == {"record_intent", "record_invoice", "record_cycle", "emit"}
LabelsKnow ==
  /\ \A p \in Procs : pc[p] \in AtWork => cov[p] \in Covenants
  /\ \A p \in Settlers : pc[p] \in Holding =>
       \/ covenant[cov[p]] = Claim(p)
       \/ p = Keeper /\ pc[p] = "restore" /\ covenant[cov[p]] \in Terminals
  /\ \A p \in Settlers : pc[p] \in Recording => spentBy[cov[p]] = p
  /\ \A p \in Settlers : pc[p] \in Recording \ {"record_intent"} =>
       covenant[cov[p]] \in Terminals

IInv == TypeOK /\ LabelsKnow /\ ClaimExclusive /\ SettledAsSpent /\ BooksMatchChain

\* "If neither path resolves within COVENANT_CAPTURE_WINDOW_SECS, the keeper
\* auto-captures to the merchant": a covenant past its capture time gets spent.
CaptureWindowResolves == \A c \in Covenants : due[c] ~> spentBy[c] # None
=============================================================================
