--------------------------- MODULE CovenantLedger ---------------------------
(***************************************************************************)
(* The escrow and subscription covenants on the chain: what the contracts  *)
(* of kasway-covenant accept, what its builders and the settlement         *)
(* requests of covenant_keeper.rs assemble, and the node between the two.  *)
(*                                                                         *)
(* Settlement.tla follows one escrow's database row; here the rows are     *)
(* reduced to their claim, and the coins are what matters.  A settlement   *)
(* spends two of them, the covenant's and one of the fee payer's, and      *)
(* every escrow and every cell draws its gas from the same few coins.  The *)
(* parties sign a transaction the server builds for "prepare" and builds   *)
(* again for "submit", and the node sees its own mempool while the         *)
(* server's look-up of coins does not.                                     *)
(***************************************************************************)
EXTENDS Integers, Sequences, FiniteSets, Functions

CONSTANTS
    Escrows,       \* escrow covenants, one per funded invoice
    Cell,          \* the address of one subscription cell
    Requests,      \* settlement requests in progress (prepare ... submit)
    Payouts,       \* the outputs an escrow pins, <<[owner, value], ...>>
    Gross,         \* EscrowV2Params::gross_amount
    CaptureTime,   \* EscrowV2Params::capture_time
    PanelSize,     \* members of EscrowV2Params::arbiter_panel
    Threshold,     \* EscrowV2Params::arbiter_threshold
    Splits,        \* splits the parties may agree on
    CellPayouts,   \* SubscriptionV1Params::payouts
    CellValue,     \* what the customer put into the cell
    PeriodDaa,     \* SubscriptionV1Params::period_daa
    SweepThreshold,\* SubscriptionV1Params::sweep_threshold
    MinFee,        \* keeper_min_fee_sompi: the miner fee of every spend
    ChangeFloor,   \* KEEPER_CHANGE_FLOOR_SOMPI
    MassParam,     \* STORAGE_MASS_PARAM
    SettlementMass,\* MAX_SETTLEMENT_STORAGE_MASS
    MassCap,       \* the node's cap on a transaction's storage mass
    FeeBase,       \* the least fee the node relays a spend for: this much, ...
    FeePerOutput,  \* ... and this much for each of its outputs
    Wallets,       \* the coins the parties start with, <<[owner, value], ...>>
    MedianLag,     \* how far the node's past median time trails the clock
    MaxClock       \* bound: the clock and the DAA score (one unit here)

Parties == {"keeper", "customer", "merchant", "platform"}

Total(outs) == SumFunction([i \in DOMAIN outs |-> outs[i].value])

Worth(coins) == SumFunction([u \in coins |-> u.value])

ClaimTotal == Total(CellPayouts)

\* settlement_storage_mass: what outputs weigh, the smaller the more.
output_mass(value) == IF value > 0 THEN MassParam \div value ELSE 0

settlement_storage_mass(outs) ==
    SumFunction([i \in DOMAIN outs |-> output_mass(outs[i].value)])

least_fee(outs) == FeeBase + FeePerOutput * Len(outs)

\* The two constructor_args compile nothing else (number of payouts and kinds
\* of addresses aside), so no covenant with other parameters is ever funded.
escrow_constructor_args ==
    /\ Payouts # << >> /\ Total(Payouts) = Gross
    /\ Threshold \in 1 .. PanelSize

cell_constructor_args == CellPayouts # << >> /\ PeriodDaa >= 1

ASSUME ParamsAssumption == escrow_constructor_args /\ cell_constructor_args

\* Outputs are paid to the parties: none of them is the address of a covenant.
Output == [owner : Parties, value : Nat]

ASSUME OutputsAssumption ==
    /\ Payouts \in Seq(Output) /\ CellPayouts \in Seq(Output)
    /\ Wallets \in Seq(Output) /\ \A i \in DOMAIN Wallets : Wallets[i].value > 0
    /\ Splits \subseteq Seq(Output)

ASSUME NumbersAssumption ==
    /\ {Gross, CaptureTime, PanelSize, CellValue, PeriodDaa} \subseteq Nat
    /\ {SweepThreshold, MinFee, ChangeFloor, MedianLag, MaxClock} \subseteq Nat
    /\ {MassParam, SettlementMass, MassCap, FeeBase, FeePerOutput} \subseteq Nat

ASSUME NamesAssumption ==
    /\ IsFiniteSet(Escrows) /\ Escrows \cap Parties = {}
    /\ Cell \notin Escrows \cup Parties
    /\ Requests \cap {"keeper", "claimer"} = {}

\* compute_split_plan checked the payouts of an escrow before it was set up, and
\* the numbers of the source leave room for a change above the floor.  An output
\* funds a covenant, so it is not empty.  Nothing else is checked: not a split,
\* not what a cell pays or keeps, not whether the fee is enough.
ASSUME MassAssumption ==
    /\ settlement_storage_mass(Payouts) <= SettlementMass
    /\ SettlementMass + output_mass(ChangeFloor) <= MassCap
    /\ \A value \in {ChangeFloor, Gross, CellValue} : value > 0

VARIABLES
    utxos,    \* the UTXO set: coins [owner, value, id, born]
    pool,     \* transactions the node accepted and no block holds yet
    clock,    \* wall clock and DAA score
    intent,   \* per escrow kpr1_payment_intents.covenant_state, as its claim
    job,      \* per request, for the keeper and for the claimer: what it is at
    spent,    \* history: the transactions blocks hold, in order
    swept     \* history: value a terminating cell left to the miner

vars == << utxos, pool, clock, intent, job, spent, swept >>

Idle == [phase |-> "idle"]

Workers == Requests \cup {"keeper", "claimer"}

MedianTime == clock - MedianLag

CoinsOf(owner) == {u \in utxos : u.owner = owner}

-----------------------------------------------------------------------------
(* Building a spend. *)

\* pick_fee_utxo: the largest coin that covers the fee and leaves a change
\* above the floor, the smallest (txid, index) among equals; none, or one.
Precedes(a, b) ==
    \/ a.id[1] < b.id[1]
    \/ a.id[1] = b.id[1] /\ a.id[2] < b.id[2]

\* Mutant: the first coin by (txid, index) that covers the fee.
pick_fee_utxo_First(coins) ==
    LET usable == {u \in coins : u.value > MinFee}
    IN  {u \in usable : \A v \in usable \ {u} : Precedes(u, v)}

pick_fee_utxo(coins) ==
    LET usable == {u \in coins : u.value > MinFee + ChangeFloor}
    IN  {u \in usable : \A v \in usable \ {u} :
            u.value > v.value \/ (u.value = v.value /\ Precedes(u, v))}

\* Mutant: the change goes to the keeper whoever paid.
push_change_Keeper(outs, fee) ==
    IF fee.value > MinFee
    THEN Append(outs, [owner |-> "keeper", value |-> fee.value - MinFee])
    ELSE outs

push_change(outs, fee) ==
    IF fee.value > MinFee
    THEN Append(outs, [owner |-> fee.owner, value |-> fee.value - MinFee])
    ELSE outs

\* Mutant: the cell pays the miner fee of its claims.
Remainder_Net(cell) == cell.value - ClaimTotal - MinFee

Remainder(cell) == cell.value - ClaimTotal

claim_outputs(cell, fee) ==
    push_change(
        IF Remainder(cell) >= SweepThreshold
        THEN Append(CellPayouts, [owner |-> Cell, value |-> Remainder(cell)])
        ELSE CellPayouts, fee)

merchant_split_outputs(fee) == push_change(Payouts, fee)

customer_refund_outputs(fee) ==
    push_change(<<[owner |-> "customer", value |-> Gross]>>, fee)

settlement_outputs(split, fee) == push_change(split, fee)

\* Everything SIG_HASH_ALL commits to: two drafts have the same sighashes
\* exactly when they are equal.
assemble_unsigned(outs, lock, cov, sequence, fee) ==
    [outs |-> outs, lock |-> lock, cov |-> cov, sequence |-> sequence, fee |-> fee]

\* One function per entry point prepares the draft, another completes it, as
\* the transaction that is sent: its signature script names the entry point.
complete(entry, split, draft) ==
    [entry |-> entry, split |-> split, outs |-> draft.outs, lock |-> draft.lock,
     cov |-> draft.cov, sequence |-> draft.sequence, fee |-> draft.fee]

\* With the customer's signature release_confirmed, with none release_captured.
prepare_release(in, lock) ==
    assemble_unsigned(merchant_split_outputs(in.fee), lock, in.cov, 0, in.fee)

complete_release(entry, draft) == complete(entry, << >>, draft)

prepare_release_arbitrated(in) == prepare_release(in, 0)

complete_release_arbitrated(draft) == complete("release_arbitrated", << >>, draft)

prepare_refund_by_arbiter(in) ==
    assemble_unsigned(customer_refund_outputs(in.fee), 0, in.cov, 0, in.fee)

complete_refund_by_arbiter(draft) == complete("refund_by_arbiter", << >>, draft)

prepare_refund_by_merchant(in) == prepare_refund_by_arbiter(in)

complete_refund_by_merchant(draft) == complete("refund_by_merchant", << >>, draft)

prepare_settlement(split, in) ==
    assemble_unsigned(settlement_outputs(split, in.fee), 0, in.cov, 0, in.fee)

complete_settlement(split, draft) == complete("release_settled", split, draft)

prepare_claim(in) ==
    assemble_unsigned(claim_outputs(in.cov, in.fee), 0, in.cov, PeriodDaa, in.fee)

complete_claim(draft) == complete("claim", << >>, draft)

prepare_withdraw(split, in) ==
    assemble_unsigned(push_change(split, in.fee), 0, in.cov, 0, in.fee)

complete_withdraw(split, draft) == complete("withdraw", split, draft)

\* The entry points of the escrow.
Releases == {"release_confirmed", "release_captured", "release_arbitrated"}
Refunds == {"refund_by_merchant", "refund_by_arbiter"}

\* The covenant's coin holding the gross and the payer's fee coin, both as the
\* node's UTXO index shows them; no inputs when either is missing.
gather_refund_inputs(c, payer) ==
    {[cov |-> cov, fee |-> fee] : cov \in {u \in CoinsOf(c) : u.value = Gross},
                                  fee \in pick_fee_utxo(CoinsOf(payer))}

gather_release_inputs(c) == gather_refund_inputs(c, "keeper")

build_draft(entry, split, in) ==
    CASE entry = "release_confirmed" -> complete_release(entry, prepare_release(in, 0))
      [] entry = "release_captured" ->
             complete_release(entry, prepare_release(in, CaptureTime))
      [] entry = "release_arbitrated" ->
             complete_release_arbitrated(prepare_release_arbitrated(in))
      [] entry = "refund_by_merchant" ->
             complete_refund_by_merchant(prepare_refund_by_merchant(in))
      [] entry = "refund_by_arbiter" ->
             complete_refund_by_arbiter(prepare_refund_by_arbiter(in))
      [] entry = "release_settled" ->
             complete_settlement(split, prepare_settlement(split, in))

\* The spends of an escrow a request or the keeper can build.
Builds(entry, split, c, payer) ==
    {build_draft(entry, split, in) :
        in \in IF entry \in Releases THEN gather_release_inputs(c)
               ELSE gather_refund_inputs(c, payer)}

-----------------------------------------------------------------------------
(* The contracts, escrow_v2.sil and subscription_v1.sil, and the node. *)

StartsWith(outs, pinned) ==
    /\ Len(outs) >= Len(pinned)
    /\ SubSeq(outs, 1, Len(pinned)) = pinned

assert_merchant_split(tx) == tx.cov.value = Gross /\ StartsWith(tx.outs, Payouts)

assert_customer_refund(tx) ==
    /\ tx.cov.value = Gross
    /\ StartsWith(tx.outs, <<[owner |-> "customer", value |-> Gross]>>)

\* prepare_arbiter_signatures sorts the panel's signatures and refuses a
\* repeated or foreign index, so their number is what is left to tell apart:
\* the server asks for at least the threshold, the contract for exactly it.
prepare_arbiter_signatures(arbiters) == arbiters \in Threshold .. PanelSize

assert_arbiter_threshold(arbiters) == arbiters = Threshold

claim_ripe(tx) == tx.sequence >= PeriodDaa

claim_pays(tx) ==
    /\ StartsWith(tx.outs, CellPayouts)
    /\ Remainder(tx.cov) >= 0
    /\ Remainder(tx.cov) >= SweepThreshold =>
           StartsWith(tx.outs, Append(CellPayouts,
                          [owner |-> tx.cov.owner, value |-> Remainder(tx.cov)]))

contract(tx, arbiters) ==
    CASE tx.entry = "release_confirmed" -> assert_merchant_split(tx)
      [] tx.entry = "release_captured" ->
             tx.lock >= CaptureTime /\ assert_merchant_split(tx)
      [] tx.entry = "release_settled" -> tx.cov.value = Gross
      [] tx.entry = "release_arbitrated" ->
             assert_arbiter_threshold(arbiters) /\ assert_merchant_split(tx)
      [] tx.entry = "refund_by_arbiter" ->
             assert_arbiter_threshold(arbiters) /\ assert_customer_refund(tx)
      [] tx.entry = "refund_by_merchant" -> assert_customer_refund(tx)
      [] tx.entry = "claim" -> claim_ripe(tx) /\ claim_pays(tx)
      [] tx.entry = "withdraw" -> TRUE

\* submitTransaction of the node.  Its mempool refuses a second spend of a
\* coin, lock and sequence are final against the median time and the age of
\* the covenant's coin, no output is empty, the outputs together weigh what the
\* cap allows (as kpr1.rs estimates it), and the fee is what their number asks.
Verdict(tx, signed, arbiters) ==
    LET inputs == {tx.cov, tx.fee}
    IN  CASE ~ inputs \subseteq utxos -> "missing"
          [] \E other \in pool : {other.cov, other.fee} \cap inputs # {} -> "double"
          [] tx # signed -> "signature"
          [] ~ contract(tx, arbiters) -> "contract"
          [] tx.lock # 0 /\ ~ tx.lock < MedianTime -> "lock"
          [] clock - tx.cov.born < tx.sequence -> "age"
          [] Worth(inputs) < Total(tx.outs) -> "value"
          [] \E i \in DOMAIN tx.outs : tx.outs[i].value = 0 -> "empty"
          [] settlement_storage_mass(tx.outs) > MassCap -> "mass"
          [] Worth(inputs) - Total(tx.outs) < least_fee(tx.outs) -> "fee"
          [] OTHER -> "accepted"

\* A block takes a transaction of the mempool.
Minted(tx) ==
    {[owner |-> tx.outs[i].owner, value |-> tx.outs[i].value,
      id |-> << Len(spent) + 1, i >>,
      born |-> IF tx.outs[i].owner = Cell THEN clock ELSE 0] : i \in DOMAIN tx.outs}

Confirm ==
    \E tx \in pool :
        /\ pool' = pool \ {tx}
        /\ utxos' = (utxos \ {tx.cov, tx.fee}) \cup Minted(tx)
        /\ spent' = Append(spent, tx)
        /\ swept' = swept + (Worth({tx.cov, tx.fee}) - Total(tx.outs) - MinFee)
        /\ UNCHANGED << clock, intent, job >>

Tick ==
    /\ clock < MaxClock
    /\ clock' = clock + 1
    /\ UNCHANGED << utxos, pool, intent, job, spent, swept >>

-----------------------------------------------------------------------------
(* The settlement requests and the keeper. *)

\* Funded, and its invoice still open.
load_funded_open(c) == intent[c] = "funded"

\* parse_split: the agreed split divides exactly the gross.
Agreeable == {split \in Splits : split # << >> /\ Total(split) = Gross}

\* A prepare endpoint stores nothing: the parties keep the sighashes of the
\* transaction built here.  "seen" is the payer's coins the server was shown.
Prepare(q, entry, split, payer) ==
    /\ job[q] = Idle
    /\ \E c \in {e \in Escrows : load_funded_open(e)} :
        \E tx \in Builds(entry, split, c, payer) :
            job' = [job EXCEPT ![q] =
                [phase |-> "signing", owner |-> c, signed |-> tx,
                 seen |-> CoinsOf(payer)]]
    /\ UNCHANGED << utxos, pool, clock, intent, spent, swept >>

customer_release_prepare(q) == Prepare(q, "release_confirmed", << >>, "keeper")

arbiter_release_prepare(q) == Prepare(q, "release_arbitrated", << >>, "keeper")

\* Refunds and settlements are paid for by a party, never by Kasway.
merchant_refund_prepare(q) == Prepare(q, "refund_by_merchant", << >>, "merchant")

arbiter_refund_prepare(q) == Prepare(q, "refund_by_arbiter", << >>, "customer")

mutual_settle_prepare(q) ==
    \E payer \in {"merchant", "customer"}, split \in Agreeable :
        Prepare(q, "release_settled", split, payer)

\* The first half of a submit endpoint: the coins are looked up again and the
\* transaction is built again, to carry the signatures of the parties.
Gather(q, entry, arbiters) ==
    /\ job[q].phase = "signing" /\ job[q].signed.entry = entry
    /\ LET j == job[q]
           was == j.signed
           now == {tx \in Builds(entry, was.split, j.owner, was.fee.owner) :
                      load_funded_open(j.owner)}
       IN  IF now = {}
           THEN job' = [job EXCEPT ![q] = Idle]
           ELSE \E tx \in now :
                    job' = [job EXCEPT ![q] =
                        [phase |-> "sending", owner |-> j.owner, tx |-> tx,
                         signed |-> was, arbiters |-> arbiters,
                         moved |-> j.seen # CoinsOf(was.fee.owner)]]
    /\ UNCHANGED << utxos, pool, clock, intent, spent, swept >>

customer_release_submit(q) == Gather(q, "release_confirmed", 0)

\* No arbiter's key is on the server, so an empty list of signatures is an
\* error here, as too short a one is.
arbiter_release(q) ==
    \E n \in 0 .. PanelSize :
        prepare_arbiter_signatures(n) /\ Gather(q, "release_arbitrated", n)

merchant_refund_submit(q) == Gather(q, "refund_by_merchant", 0)

arbiter_refund_submit(q) ==
    \E n \in 0 .. PanelSize :
        prepare_arbiter_signatures(n) /\ Gather(q, "refund_by_arbiter", n)

mutual_settle_submit(q) == Gather(q, "release_settled", 0)

\* Mutant: an error of the broadcast is taken for success.
Send_Blind(q) ==
    /\ job[q].phase = "sending"
    /\ job' = [job EXCEPT ![q] = Idle]
    /\ IF intent[job[q].owner] = "funded"
       THEN /\ pool' = pool \cup {job[q].tx}
            /\ intent' = [intent EXCEPT ![job[q].owner] = "settled"]
       ELSE UNCHANGED << pool, intent >>
    /\ UNCHANGED << utxos, clock, spent, swept >>

\* The second half: claim_funded, submit_transaction, and either the
\* settled state or restore_funded.
Send(q) ==
    /\ job[q].phase = "sending"
    /\ job' = [job EXCEPT ![q] = Idle]
    /\ LET j == job[q]
           taken == /\ intent[j.owner] = "funded"
                    /\ Verdict(j.tx, j.signed, j.arbiters) = "accepted"
       IN  IF taken
           THEN /\ pool' = pool \cup {j.tx}
                /\ intent' = [intent EXCEPT ![j.owner] = "settled"]
           ELSE UNCHANGED << pool, intent >>
    /\ UNCHANGED << utxos, clock, spent, swept >>

\* run_tick of covenant_keeper.rs: a funded escrow past its capture time by
\* the node's median time is claimed and its capture built; with no coin to
\* pay from the claim is returned at once.
KeeperGather(c) ==
    /\ job["keeper"] = Idle
    /\ intent[c] = "funded"
    /\ CaptureTime < MedianTime
    /\ \E tx \in Builds("release_captured", << >>, c, "keeper") :
           job' = [job EXCEPT !["keeper"] =
               [phase |-> "sending", owner |-> c, tx |-> tx]]
    /\ intent' = [intent EXCEPT ![c] = "settling"]
    /\ UNCHANGED << utxos, pool, clock, spent, swept >>

\* Mutant: the claim of a failed capture is not returned.
KeeperSend_Keeps ==
    /\ job["keeper"].phase = "sending"
    /\ job' = [job EXCEPT !["keeper"] = Idle]
    /\ LET j == job["keeper"]
       IN  IF Verdict(j.tx, j.tx, 0) = "accepted"
           THEN /\ pool' = pool \cup {j.tx}
                /\ intent' = [intent EXCEPT ![j.owner] = "settled"]
           ELSE UNCHANGED << pool, intent >>
    /\ UNCHANGED << utxos, clock, spent, swept >>

KeeperSend ==
    /\ job["keeper"].phase = "sending"
    /\ job' = [job EXCEPT !["keeper"] = Idle]
    /\ LET j == job["keeper"]
       IN  IF Verdict(j.tx, j.tx, 0) = "accepted"
           THEN /\ pool' = pool \cup {j.tx}
                /\ intent' = [intent EXCEPT ![j.owner] = "settled"]
           ELSE /\ intent' = [intent EXCEPT ![j.owner] = "funded"]
                /\ UNCHANGED pool
    /\ UNCHANGED << utxos, clock, spent, swept >>

-----------------------------------------------------------------------------
(* The cell: prepare_claim and prepare_withdraw of subscription_v1.rs with *)
(* their complete_* halves.  The keeper signs a claim, the customer a      *)
(* withdrawal of everything; the keeper pays the gas of both.              *)

CellInputs ==
    {[cov |-> cov, fee |-> fee] : cov \in CoinsOf(Cell),
                                  fee \in pick_fee_utxo(CoinsOf("keeper"))}

Claim ==
    /\ job["claimer"] = Idle
    /\ \E in \in CellInputs :
        /\ in.cov.value >= ClaimTotal
        /\ job' = [job EXCEPT !["claimer"] =
               [phase |-> "sending", tx |-> complete_claim(prepare_claim(in))]]
    /\ UNCHANGED << utxos, pool, clock, intent, spent, swept >>

Withdraw ==
    /\ job["claimer"] = Idle
    /\ \E in \in CellInputs :
        LET split == <<[owner |-> "customer", value |-> in.cov.value]>>
        IN  job' = [job EXCEPT !["claimer"] =
                [phase |-> "sending",
                 tx |-> complete_withdraw(split, prepare_withdraw(split, in))]]
    /\ UNCHANGED << utxos, pool, clock, intent, spent, swept >>

SendCellSpend ==
    /\ job["claimer"].phase = "sending"
    /\ job' = [job EXCEPT !["claimer"] = Idle]
    /\ LET tx == job["claimer"].tx
       IN  pool' = IF Verdict(tx, tx, 0) = "accepted"
                   THEN pool \cup {tx} ELSE pool
    /\ UNCHANGED << utxos, clock, intent, spent, swept >>

-----------------------------------------------------------------------------

\* Every escrow and the cell are funded, nothing is under way.
Init ==
    /\ utxos = {[owner |-> Wallets[i].owner, value |-> Wallets[i].value,
                 id |-> << 0, i >>, born |-> 0] : i \in DOMAIN Wallets}
               \cup {[owner |-> c, value |-> Gross, id |-> << 0, 0 >>, born |-> 0] :
                        c \in Escrows}
               \cup {[owner |-> Cell, value |-> CellValue, id |-> << 0, 0 >>, born |-> 0]}
    /\ pool = {}
    /\ clock = 0
    /\ intent = [c \in Escrows |-> "funded"]
    /\ job = [w \in Workers |-> Idle]
    /\ spent = << >>
    /\ swept = 0

Request(q) ==
    \/ customer_release_prepare(q) \/ arbiter_release_prepare(q)
    \/ merchant_refund_prepare(q) \/ arbiter_refund_prepare(q)
    \/ mutual_settle_prepare(q)

Submit(q) ==
    \/ customer_release_submit(q) \/ arbiter_release(q)
    \/ merchant_refund_submit(q) \/ arbiter_refund_submit(q)
    \/ mutual_settle_submit(q)

Next ==
    \/ Confirm
    \/ Tick
    \/ \E q \in Requests : Request(q) \/ Submit(q) \/ Send(q)
    \/ \E c \in Escrows : KeeperGather(c)
    \/ KeeperSend
    \/ Claim
    \/ Withdraw
    \/ SendCellSpend

Spec == Init /\ [][Next]_vars

\* Time passes, blocks keep coming, and the keeper's loop comes round again for
\* every due row.  Nothing is assumed of the parties, of a request under way or
\* of the claims of the cell.
FairSpec ==
    /\ Spec
    /\ WF_vars(Tick)
    /\ WF_vars(Confirm)
    /\ \A c \in Escrows : SF_vars(KeeperGather(c))
    /\ WF_vars(KeeperSend)

-----------------------------------------------------------------------------

\* The types; a transaction of the mempool spends coins that exist.
TypeOK ==
    /\ \A u \in utxos :
           /\ u.owner \in Parties \cup Escrows \cup {Cell}
           /\ u.value \in Nat \ {0}
           /\ u.born \in 0 .. clock
    /\ \A tx \in pool : {tx.cov, tx.fee} \subseteq utxos
    /\ clock \in 0 .. MaxClock
    /\ intent \in [Escrows -> {"funded", "settling", "settled"}]
    /\ \A w \in Workers : job[w].phase \in {"idle", "signing", "sending"}
    /\ swept \in Nat

\* What the builders assemble, the contract and the node take.  A spend that
\* is about to be broadcast can only be refused because another spend took
\* one of its coins first; because the payer's coins changed between prepare
\* and submit, so that the parties signed another transaction; because more
\* arbiters signed than the contract counts; for a claim, because the period
\* is not over; because the configured fee is too low for that many outputs;
\* or because of the parts it was told to pay: one is empty, or, in a split or
\* a spend of the cell, which nobody checked, they leave no room for a change
\* at the floor.  Never for its lock or its value; a release or a refund never
\* for its mass, and nothing for the change it gives.
Parts(tx) == SubSeq(tx.outs, 1, Len(tx.outs) - 1)

Causes(tx, arbiters, moved) ==
    {"accepted", "missing", "double"}
    \cup (IF tx.entry = "claim" THEN {"age"} ELSE {})
    \cup (IF arbiters > Threshold THEN {"contract"} ELSE {})
    \cup (IF moved THEN {"signature"} ELSE {})
    \cup (IF MinFee < least_fee(tx.outs) THEN {"fee"} ELSE {})
    \cup (IF \E i \in DOMAIN Parts(tx) : Parts(tx)[i].value = 0 THEN {"empty"} ELSE {})
    \cup (IF /\ tx.entry \notin Releases \cup Refunds
             /\ settlement_storage_mass(Parts(tx)) + output_mass(ChangeFloor) > MassCap
          THEN {"mass"} ELSE {})

RefusedForCause ==
    \A w \in Workers : job[w].phase = "sending" =>
        LET j == job[w]
        IN  IF w \in Requests
            THEN Verdict(j.tx, j.signed, j.arbiters)
                    \in Causes(j.tx, j.arbiters, j.moved)
            ELSE Verdict(j.tx, j.tx, 0) \in Causes(j.tx, 0, FALSE)

\* Whatever settles in whatever order, every party holds what it started
\* with, plus exactly what the settlements of the escrows and
\* the claims of the cell promise it, less one miner fee for each spend whose
\* gas was its to pay.  Gas never comes out of a covenant.
PaidTo(outs, party) ==
    SumFunction([i \in DOMAIN outs |->
                    IF outs[i].owner = party THEN outs[i].value ELSE 0])

Due(tx, party) ==
    LET gas == IF party = tx.fee.owner THEN MinFee ELSE 0
    IN  CASE tx.entry \in Releases -> PaidTo(Payouts, party) - gas
          [] tx.entry \in Refunds ->
                 (IF party = "customer" THEN Gross ELSE 0) - gas
          [] tx.entry = "claim" -> PaidTo(CellPayouts, party) - gas
          [] OTHER -> PaidTo(tx.split, party) - gas

BooksBalance ==
    \A party \in Parties :
        Worth(CoinsOf(party)) =
            PaidTo(Wallets, party)
            + SumFunction([i \in DOMAIN spent |-> Due(spent[i], party)])

\* The cell loses one claim per elapsed period and nothing else before the
\* customer withdraws: no gas, and no dust except what is left, below the
\* threshold, when it ends.
CellPaysOnlyClaims ==
    LET claims == Cardinality({i \in DOMAIN spent : spent[i].entry = "claim"})
    IN  /\ claims * PeriodDaa <= clock
        /\ \/ \E i \in DOMAIN spent : spent[i].entry = "withdraw"
           \/ Worth(CoinsOf(Cell)) + swept = CellValue - claims * ClaimTotal
        /\ swept > 0 => swept < SweepThreshold /\ CoinsOf(Cell) = {}

\* Whatever the parties sign, repeat or abandon, and whoever else draws on
\* the keeper's coins, every escrow is settled on the chain in the end: the
\* capture needs nobody.
EscrowsSettle ==
    <>(\A c \in Escrows : \E i \in DOMAIN spent : spent[i].cov.owner = c)
=============================================================================
