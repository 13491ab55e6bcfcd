----------------------- MODULE CovenantLedgerProofs -----------------------
(***************************************************************************)
(* The four invariants of CovenantLedger, for any number of escrows,       *)
(* requests and coins.  The argument follows a spend from its builder to   *)
(* the block: the builders assemble the pinned outputs and the payer's     *)
(* change and nothing else (SpendOK), so what the inputs are worth comes   *)
(* back as what is due and one miner fee; the mempool holds spends of      *)
(* coins that exist and that no other spend takes (PoolOK); and the cell   *)
(* is one coin, no older than its last claim (CellOK).                     *)
(***************************************************************************)
EXTENDS CovenantLedger, SumLemmas, FiniteSetTheorems, TLAPS

-----------------------------------------------------------------------------
(* The inductive invariant. *)

Entries == Releases \cup Refunds \cup {"release_settled", "claim", "withdraw"}

Coin == [owner : Parties \cup Escrows \cup {Cell}, value : Nat \ {0},
         id : Nat \X Nat, born : Nat]

Paid == [owner : Parties \cup {Cell}, value : Nat]

Spend == [entry : Entries, split : Seq(Output), outs : Seq(Paid), lock : Nat,
          cov : Coin, sequence : Nat, fee : Coin]

Change(fee) == [owner |-> fee.owner, value |-> fee.value - MinFee]

\* The customer's payout of a refund, and the cell that goes on after a claim.
Refund == [owner |-> "customer", value |-> Gross]
Next_cell(cov) == [owner |-> Cell, value |-> Remainder(cov)]

\* What a spend pays before the change: the outputs the contract pins.
Main(tx) ==
    CASE tx.entry \in Releases -> Payouts
      [] tx.entry \in Refunds -> << Refund >>
      [] tx.entry = "claim" ->
             IF Remainder(tx.cov) >= SweepThreshold
             THEN Append(CellPayouts, Next_cell(tx.cov)) ELSE CellPayouts
      [] OTHER -> tx.split

EscrowEntries == Releases \cup Refunds \cup {"release_settled"}

\* A spend as the builders assemble it.
SpendOK(tx) ==
    /\ tx \in Spend
    /\ tx.fee.owner \in Parties
    /\ tx.fee.value > MinFee + ChangeFloor
    /\ tx.outs = Append(Main(tx), Change(tx.fee))
    /\ tx.entry \in EscrowEntries =>
           /\ tx.cov.owner \in Escrows
           /\ tx.cov.value = Gross
    /\ tx.entry \notin EscrowEntries => tx.cov.owner = Cell
    /\ tx.lock = IF tx.entry = "release_captured" THEN CaptureTime ELSE 0
    /\ tx.sequence = IF tx.entry = "claim" THEN PeriodDaa ELSE 0
    /\ tx.entry = "claim" => tx.cov.value >= ClaimTotal
    /\ tx.entry = "release_settled" => Total(tx.split) = Gross
    /\ tx.entry = "withdraw" =>
           tx.split = << [owner |-> "customer", value |-> tx.cov.value] >>
    /\ tx.entry \notin {"release_settled", "withdraw"} => tx.split = << >>

EscrowCoin(c) == [owner |-> c, value |-> Gross, id |-> << 0, 0 >>, born |-> 0]

CoinsOK ==
    /\ IsFiniteSet(utxos)
    /\ \A u \in utxos :
           /\ u \in Coin
           /\ u.born <= clock
           /\ u.id[1] <= Len(spent)
           /\ u.owner \in Escrows => u = EscrowCoin(u.owner)

\* A spend of the mempool has its coins to itself.
Mempool(txs, coins, now) ==
    /\ \A tx \in txs :
           /\ SpendOK(tx)
           /\ tx.cov \in coins /\ tx.fee \in coins
           /\ \A i \in DOMAIN tx.outs : tx.outs[i].value > 0
           /\ tx.entry = "claim" => now - tx.cov.born >= PeriodDaa
    /\ \A t1, t2 \in txs : {t1.cov, t1.fee} \cap {t2.cov, t2.fee} # {} => t1 = t2

PoolOK == Mempool(pool, utxos, clock)

\* The draft that was signed is the one the same coins give again.
Redrafted(tx) == build_draft(tx.entry, tx.split, [cov |-> tx.cov, fee |-> tx.fee])

Signing(j) ==
    /\ j.phase = "signing"
    /\ j.owner \in Escrows
    /\ SpendOK(j.signed)
    /\ j.signed.entry \in EscrowEntries \ {"release_captured"}
    /\ j.signed.cov = EscrowCoin(j.owner)
    /\ j.signed.fee \in pick_fee_utxo(j.seen)
    /\ j.signed.entry \in Releases => j.signed.fee.owner = "keeper"
    /\ j.signed = Redrafted(j.signed)

Sending(j, now) ==
    /\ j.phase = "sending"
    /\ j.owner \in Escrows
    /\ SpendOK(j.tx) /\ j.tx.cov.born <= now
    /\ j.tx.entry \in EscrowEntries \ {"release_captured"}
    /\ j.moved \in BOOLEAN
    /\ ~ j.moved => j.tx = j.signed
    /\ j.arbiters \in Nat
    /\ j.tx.entry \in {"release_arbitrated", "refund_by_arbiter"} =>
           j.arbiters >= Threshold

Capturing(j, now) ==
    /\ j.phase = "sending"
    /\ j.owner \in Escrows
    /\ SpendOK(j.tx) /\ j.tx.cov.born <= now
    /\ j.tx.entry = "release_captured"
    /\ CaptureTime < now - MedianLag

Claiming(j, now) ==
    /\ j.phase = "sending"
    /\ SpendOK(j.tx) /\ j.tx.cov.born <= now
    /\ j.tx.entry \in {"claim", "withdraw"}

JobOK(j, w, now) ==
    \/ j = Idle
    \/ w \in Requests /\ (Signing(j) \/ Sending(j, now))
    \/ w = "keeper" /\ Capturing(j, now)
    \/ w = "claimer" /\ Claiming(j, now)

JobsOK ==
    /\ job = [w \in Workers |-> job[w]]
    /\ \A w \in Workers : JobOK(job[w], w, clock)

SpentOK ==
    /\ spent \in Seq(Spend)
    /\ \A i \in DOMAIN spent : SpendOK(spent[i])

ClaimsOf(s) == {i \in DOMAIN s : s[i].entry = "claim"}
Claims(s) == Cardinality(ClaimsOf(s))
Withdrawn(s) == \E i \in DOMAIN s : s[i].entry = "withdraw"

\* The cell is one coin, as old as its last claim at least, or it has ended.
CellIs(coins, s, dust, now) ==
    /\ Claims(s) * PeriodDaa <= now
    /\ \A u, v \in coins : u = v
    /\ \A u \in coins :
           /\ Claims(s) * PeriodDaa <= u.born
           /\ u.value + Claims(s) * ClaimTotal = CellValue
           /\ dust = 0
           /\ ~ Withdrawn(s)
    /\ coins = {} => Withdrawn(s) \/ dust + Claims(s) * ClaimTotal = CellValue
    /\ dust > 0 => dust < SweepThreshold

CellOK == CellIs(CoinsOf(Cell), spent, swept, clock)

RestOK ==
    /\ clock \in 0 .. MaxClock
    /\ swept \in Nat
    /\ intent \in [Escrows -> {"funded", "settling", "settled"}]

IInv == CoinsOK /\ PoolOK /\ JobsOK /\ SpentOK /\ CellOK /\ RestOK /\ BooksBalance

-----------------------------------------------------------------------------
(* Numbers, outputs and what they come to. *)

(* What the assumptions say of the constants. *)
LEMMA Constants ==
    /\ Gross \in Nat /\ CaptureTime \in Nat /\ PanelSize \in Nat /\ CellValue \in Nat
    /\ PeriodDaa \in Nat /\ SweepThreshold \in Nat /\ MinFee \in Nat
    /\ ChangeFloor \in Nat /\ MedianLag \in Nat /\ MaxClock \in Nat
    /\ MassParam \in Nat /\ SettlementMass \in Nat /\ MassCap \in Nat
    /\ FeeBase \in Nat /\ FeePerOutput \in Nat
    /\ Threshold \in Nat /\ Threshold >= 1
    /\ ChangeFloor > 0 /\ Gross > 0 /\ CellValue > 0
<1>1. ChangeFloor > 0 /\ Gross > 0 /\ CellValue > 0
  BY MassAssumption
<1>2. Threshold \in 1 .. PanelSize /\ PanelSize \in Nat
  BY ParamsAssumption, NumbersAssumption DEF escrow_constructor_args
<1> QED
  BY <1>1, <1>2, NumbersAssumption

(* The parties, the escrows and the cell are told apart. *)
LEMMA Names ==
    /\ \A p \in Parties : p # Cell /\ p \notin Escrows
    /\ Cell \notin Escrows
    /\ "keeper" \in Parties /\ "customer" \in Parties /\ "merchant" \in Parties
    /\ "keeper" \notin Requests /\ "claimer" \notin Requests
BY NamesAssumption DEF Parties

(* What is pinned or agreed is paid to the parties. *)
LEMMA OutputIsPaid == \A outs \in Seq(Output) : outs \in Seq(Paid)
<1>1. Output \subseteq Paid
  BY DEF Output, Paid
<1> QED
  BY <1>1

(* One of the outputs. *)
LEMMA OutputOK ==
    ASSUME NEW outs \in Seq(Paid), NEW i \in DOMAIN outs
    PROVE  outs[i].value \in Nat /\ outs[i].owner \in Parties \cup {Cell}
<1>1. outs[i] \in Paid
  OBVIOUS
<1> QED
  BY <1>1 DEF Paid

Values(outs) == [i \in DOMAIN outs |-> outs[i].value]

\* What each output pays to a party.
Shares(outs, party) ==
    [i \in DOMAIN outs |-> IF outs[i].owner = party THEN outs[i].value ELSE 0]

(* Total and PaidTo are sums of sequences, of naturals. *)
LEMMA TotalIsSum ==
    ASSUME NEW outs \in Seq(Paid)
    PROVE  /\ Values(outs) \in Seq(Nat) /\ Len(Values(outs)) = Len(outs)
           /\ Total(outs) = SeqSum(Values(outs))
           /\ Total(outs) \in Nat
<1>1. Values(outs) \in Seq(Nat) /\ Len(Values(outs)) = Len(outs)
  <2>1. \A i \in DOMAIN outs : outs[i].value \in Nat
    BY OutputOK
  <2> QED
    BY <2>1 DEF Values
<1>2. Total(outs) = SeqSum(Values(outs))
  <2>1. Total(outs) = SumFunction(Values(outs))
    BY DEF Total, Values
  <2>2. SumFunction(Values(outs)) = SumOf(Values(outs), DOMAIN Values(outs))
    BY SumFunctionIsSum
  <2> QED
    BY <2>1, <2>2 DEF SeqSum
<1>3. SeqSum(Values(outs)) \in Nat
  <2> DEFINE v == Values(outs)
  <2>1. DOMAIN v = 1 .. Len(v) /\ Len(v) \in Nat /\ \A i \in DOMAIN v : v[i] \in Nat
    BY <1>1
  <2>3. IsFiniteSet(DOMAIN v)
    BY <2>1, FS_Interval
  <2> HIDE DEF v
  <2>2. SumOf(v, DOMAIN v) \in Nat
    BY <2>1, <2>3, SumOfNaturals
  <2> QED
    BY <2>2 DEF SeqSum, v
<1> QED
  BY <1>1, <1>2, <1>3

(* Likewise what the outputs pay to a party. *)
LEMMA PaidToIsSum ==
    ASSUME NEW outs \in Seq(Paid), NEW party
    PROVE  /\ Shares(outs, party) \in Seq(Nat)
           /\ Len(Shares(outs, party)) = Len(outs)
           /\ PaidTo(outs, party) = SeqSum(Shares(outs, party))
           /\ PaidTo(outs, party) \in Int
<1>1. Shares(outs, party) \in Seq(Nat) /\ Len(Shares(outs, party)) = Len(outs)
  <2>1. \A i \in DOMAIN outs : outs[i].value \in Nat
    BY OutputOK
  <2> QED
    BY <2>1 DEF Shares
<1>2. PaidTo(outs, party) = SeqSum(Shares(outs, party))
  <2>1. PaidTo(outs, party) = SumFunction(Shares(outs, party))
    BY DEF PaidTo, Shares
  <2>2. SumFunction(Shares(outs, party))
          = SumOf(Shares(outs, party), DOMAIN Shares(outs, party))
    BY SumFunctionIsSum
  <2> QED
    BY <2>1, <2>2 DEF SeqSum
<1>3. SeqSum(Shares(outs, party)) \in Int
  <2>1. Shares(outs, party) \in Seq(Int)
    BY <1>1
  <2> QED
    BY <2>1, SeqSumType
<1> QED
  BY <1>1, <1>2, <1>3

(* One output more. *)
LEMMA TotalAppend ==
    ASSUME NEW outs \in Seq(Paid), NEW o \in Paid
    PROVE  Append(outs, o) \in Seq(Paid) /\ Total(Append(outs, o)) = Total(outs) + o.value
<1>1. Append(outs, o) \in Seq(Paid) /\ o.value \in Nat
  BY DEF Paid
<1>2. Values(outs) \in Seq(Int) /\ o.value \in Int
  BY <1>1, TotalIsSum
<1>3. Values(Append(outs, o)) = Append(Values(outs), o.value)
  BY <1>1 DEF Values
<1>4. SeqSum(Append(Values(outs), o.value)) = SeqSum(Values(outs)) + o.value
  BY <1>2, SeqSumAppend
<1>5. /\ Total(Append(outs, o)) = SeqSum(Values(Append(outs, o)))
      /\ Total(outs) = SeqSum(Values(outs))
  BY <1>1, TotalIsSum
<1> QED
  BY <1>1, <1>3, <1>4, <1>5

(* ... and what it pays to whom. *)
LEMMA PaidToAppend ==
    ASSUME NEW outs \in Seq(Paid), NEW o \in Paid, NEW party
    PROVE  PaidTo(Append(outs, o), party)
             = PaidTo(outs, party) + (IF o.owner = party THEN o.value ELSE 0)
<1> DEFINE x == IF o.owner = party THEN o.value ELSE 0
<1>1. Append(outs, o) \in Seq(Paid) /\ x \in Nat
  BY DEF Paid
<1>2. Shares(outs, party) \in Seq(Int) /\ x \in Int
  BY <1>1, PaidToIsSum
<1>3. Shares(Append(outs, o), party) = Append(Shares(outs, party), x)
  BY <1>1 DEF Shares
<1> HIDE DEF x
<1>4. SeqSum(Append(Shares(outs, party), x)) = SeqSum(Shares(outs, party)) + x
  BY <1>2, SeqSumAppend
<1>5. /\ PaidTo(Append(outs, o), party) = SeqSum(Shares(Append(outs, o), party))
      /\ PaidTo(outs, party) = SeqSum(Shares(outs, party))
  BY <1>1, PaidToIsSum
<1>6. PaidTo(Append(outs, o), party) = PaidTo(outs, party) + x
  BY <1>3, <1>4, <1>5
<1> QED
  BY <1>6 DEF x

(* No outputs pay nothing, and a single one its value. *)
LEMMA Single ==
    ASSUME NEW o \in Paid, NEW party
    PROVE  /\ << o >> \in Seq(Paid)
           /\ Total(<< o >>) = o.value
           /\ PaidTo(<< o >>, party) = IF o.owner = party THEN o.value ELSE 0
<1>1. << >> \in Seq(Paid) /\ << o >> = Append(<< >>, o) /\ o.value \in Nat
  BY DEF Paid
<1>2. Total(<< >>) = 0 /\ PaidTo(<< >>, party) = 0
  <2>1. Values(<< >>) = << >> /\ Shares(<< >>, party) = << >>
    BY DEF Values, Shares
  <2> QED
    BY <1>1, <2>1, SeqSumEmpty, TotalIsSum, PaidToIsSum
<1>3. Total(Append(<< >>, o)) = Total(<< >>) + o.value
  BY <1>1, TotalAppend
<1>4. PaidTo(Append(<< >>, o), party)
        = PaidTo(<< >>, party) + (IF o.owner = party THEN o.value ELSE 0)
  BY <1>1, PaidToAppend
<1> QED
  BY <1>1, <1>2, <1>3, <1>4
-----------------------------------------------------------------------------
(* What outputs weigh. *)

(* The larger of two outputs is not the heavier one. *)
LEMMA LargerIsLighter ==
    ASSUME NEW v \in Nat
    PROVE  /\ output_mass(v) \in Nat
           /\ \A least \in Nat : least > 0 /\ v >= least
                                  => output_mass(v) <= output_mass(least)
<1>1. ASSUME NEW n \in Nat, n > 0
      PROVE  /\ MassParam \div n \in Nat
             /\ n * (MassParam \div n) <= MassParam
             /\ MassParam < n * (MassParam \div n) + n
  BY <1>1, Constants
<1>2. output_mass(v) \in Nat
  BY <1>1 DEF output_mass
<1>3. ASSUME NEW least \in Nat, least > 0, v >= least
      PROVE  output_mass(v) <= output_mass(least)
  <2> DEFINE q == MassParam \div v
             r == MassParam \div least
  <2>1. q \in Nat /\ v * q <= MassParam /\ MassParam < v * q + v
    BY <1>1, <1>3
  <2>2. r \in Nat /\ least * r <= MassParam /\ MassParam < least * r + least
    BY <1>1, <1>3
  <2>3. output_mass(v) = q /\ output_mass(least) = r
    BY <1>3 DEF output_mass
  <2> HIDE DEF q, r
  <2>4. ASSUME q >= r + 1 PROVE FALSE
    <3>1. least * (r + 1) <= least * q
      BY <2>1, <2>2, <2>4
    <3>2. least * q <= v * q
      BY <1>3, <2>1
    <3>3. least * (r + 1) = least * r + least
      BY <2>2
    <3> QED
      BY <2>1, <2>2, <3>1, <3>2, <3>3, Constants
  <2> QED
    BY <2>1, <2>2, <2>3, <2>4
<1> QED
  BY <1>2, <1>3

Masses(outs) == [i \in DOMAIN outs |-> output_mass(outs[i].value)]

(* The weight of outputs is a sum of naturals as well. *)
LEMMA MassIsSum ==
    ASSUME NEW outs \in Seq(Paid)
    PROVE  /\ Masses(outs) \in Seq(Nat) /\ Len(Masses(outs)) = Len(outs)
           /\ settlement_storage_mass(outs) = SeqSum(Masses(outs))
           /\ settlement_storage_mass(outs) \in Int
<1>1. Masses(outs) \in Seq(Nat) /\ Len(Masses(outs)) = Len(outs)
  <2>1. \A i \in DOMAIN outs : output_mass(outs[i].value) \in Nat
    BY OutputOK, LargerIsLighter
  <2> QED
    BY <2>1 DEF Masses
<1>2. settlement_storage_mass(outs) = SeqSum(Masses(outs))
  <2>1. settlement_storage_mass(outs) = SumFunction(Masses(outs))
    BY DEF settlement_storage_mass, Masses
  <2>2. SumFunction(Masses(outs)) = SumOf(Masses(outs), DOMAIN Masses(outs))
    BY SumFunctionIsSum
  <2> QED
    BY <2>1, <2>2 DEF SeqSum
<1>3. SeqSum(Masses(outs)) \in Int
  <2>1. Masses(outs) \in Seq(Int)
    BY <1>1
  <2> QED
    BY <2>1, SeqSumType
<1> QED
  BY <1>1, <1>2, <1>3

(* One output more. *)
LEMMA MassAppend ==
    ASSUME NEW outs \in Seq(Paid), NEW o \in Paid
    PROVE  settlement_storage_mass(Append(outs, o))
             = settlement_storage_mass(outs) + output_mass(o.value)
<1>1. Append(outs, o) \in Seq(Paid) /\ o.value \in Nat
  BY DEF Paid
<1>2. Masses(outs) \in Seq(Int) /\ output_mass(o.value) \in Int
  BY <1>1, MassIsSum, LargerIsLighter
<1>3. Masses(Append(outs, o)) = Append(Masses(outs), output_mass(o.value))
  BY <1>1 DEF Masses
<1>4. SeqSum(Append(Masses(outs), output_mass(o.value)))
        = SeqSum(Masses(outs)) + output_mass(o.value)
  BY <1>2, SeqSumAppend
<1>5. /\ settlement_storage_mass(Append(outs, o)) = SeqSum(Masses(Append(outs, o)))
      /\ settlement_storage_mass(outs) = SeqSum(Masses(outs))
  BY <1>1, MassIsSum
<1> QED
  BY <1>3, <1>4, <1>5

(* The gross in one output is no heavier than in the payouts that divide it: *)
(* a payout that is not empty is part of it.                                 *)
LEMMA RefundIsLighter == output_mass(Gross) <= settlement_storage_mass(Payouts)
<1> DEFINE v == Values(Payouts)
           m == Masses(Payouts)
           D == 1 .. Len(Payouts)
<1>1. Payouts \in Seq(Paid)
  BY OutputsAssumption, OutputIsPaid
<1>2. /\ v \in Seq(Nat) /\ Len(v) = Len(Payouts) /\ SeqSum(v) = Gross
      /\ m \in Seq(Nat) /\ Len(m) = Len(Payouts)
      /\ SeqSum(m) = settlement_storage_mass(Payouts)
  BY <1>1, TotalIsSum, MassIsSum, ParamsAssumption DEF escrow_constructor_args
<1>3. /\ IsFiniteSet(D) /\ DOMAIN v = D /\ DOMAIN m = D
      /\ \A i \in D : v[i] \in Nat /\ m[i] \in Nat /\ m[i] = output_mass(v[i])
  <2>1. IsFiniteSet(D)
    BY <1>1, FS_Interval
  <2>2. \A i \in D : m[i] = output_mass(v[i])
    BY <1>1 DEF Values, Masses
  <2> HIDE DEF v, m
  <2> QED
    BY <1>2, <2>1, <2>2
<1> HIDE DEF v, m, D
<1>4. SumOf(v, D) = Gross /\ SumOf(m, D) = settlement_storage_mass(Payouts)
  BY <1>2, <1>3 DEF SeqSum
<1>5. PICK i \in D : v[i] > 0
  <2>1. ASSUME \A i \in D : ~ v[i] > 0 PROVE FALSE
    <3>1. \A i \in D : v[i] = 0
      BY <1>3, <2>1
    <3> QED
      BY <1>3, <1>4, <3>1, SumZero, Constants
  <2> QED
    BY <2>1
<1>6. ASSUME NEW f, \A j \in D : f[j] \in Nat PROVE f[i] <= SumOf(f, D)
  <2>1. IsFiniteSet(D \ {i}) /\ D \ {i} \subseteq D
    BY <1>3, FS_Subset
  <2>2. SumOf(f, D \ {i}) \in Nat
    BY <1>6, <2>1, SumOfNaturals
  <2>3. SumOf(f, D) = f[i] + SumOf(f, D \ {i})
    BY <1>3, <1>6, SumRemove
  <2>4. f[i] \in Nat
    BY <1>6
  <2> QED
    BY <2>2, <2>3, <2>4
<1>7. v[i] <= Gross /\ m[i] <= settlement_storage_mass(Payouts)
  BY <1>3, <1>4, <1>6
<1>8. output_mass(Gross) <= m[i] /\ output_mass(Gross) \in Nat
  BY <1>3, <1>5, <1>7, LargerIsLighter, Constants
<1>9. settlement_storage_mass(Payouts) \in Int /\ m[i] \in Nat
  BY <1>1, <1>3, MassIsSum
<1> QED
  BY <1>7, <1>8, <1>9
-----------------------------------------------------------------------------
(* What a spend that the builders assembled amounts to. *)

\* What a cell that ends leaves to the miner.
Left(tx) ==
    IF tx.entry = "claim" /\ ~ Remainder(tx.cov) >= SweepThreshold
    THEN Remainder(tx.cov) ELSE 0

(* The entries are told apart. *)
LEMMA EntryCases ==
    ASSUME NEW tx, tx.entry \in Entries
    PROVE  \/ /\ tx.entry \in Releases /\ tx.entry \in EscrowEntries
              /\ tx.entry \notin Refunds
              /\ tx.entry \notin {"claim", "release_settled", "withdraw"}
              /\ Main(tx) = Payouts
           \/ /\ tx.entry \in Refunds /\ tx.entry \in EscrowEntries
              /\ tx.entry \notin Releases
              /\ tx.entry \notin {"claim", "release_settled", "withdraw"}
              /\ Main(tx) = << Refund >>
           \/ /\ tx.entry = "release_settled" /\ tx.entry \in EscrowEntries
              /\ tx.entry \notin Releases \cup Refunds
              /\ Main(tx) = tx.split
           \/ /\ tx.entry = "withdraw" /\ tx.entry \notin EscrowEntries
              /\ tx.entry \notin Releases \cup Refunds
              /\ Main(tx) = tx.split
           \/ /\ tx.entry = "claim" /\ tx.entry \notin EscrowEntries
              /\ tx.entry \notin Releases \cup Refunds
              /\ Main(tx) = IF Remainder(tx.cov) >= SweepThreshold
                            THEN Append(CellPayouts, Next_cell(tx.cov))
                            ELSE CellPayouts
<1>1. CASE tx.entry \in Releases
  BY <1>1 DEF Releases, Refunds, EscrowEntries, Main
<1>2. CASE tx.entry \in Refunds
  BY <1>2 DEF Releases, Refunds, EscrowEntries, Main
<1>3. CASE tx.entry \in {"release_settled", "claim", "withdraw"}
  BY <1>3 DEF Releases, Refunds, EscrowEntries, Main
<1> QED
  BY <1>1, <1>2, <1>3 DEF Entries

(* The fields of a spend. *)
LEMMA SpendFields ==
    ASSUME NEW tx, SpendOK(tx)
    PROVE  /\ tx \in Spend /\ tx.entry \in Entries
           /\ tx.split \in Seq(Output) /\ tx.split \in Seq(Paid)
           /\ tx.outs \in Seq(Paid)
           /\ tx.cov \in Coin /\ tx.cov.value \in Nat /\ tx.cov.value > 0
           /\ tx.cov.born \in Nat
           /\ tx.fee \in Coin /\ tx.fee.value \in Nat /\ tx.fee.owner \in Parties
           /\ tx.fee.value > MinFee + ChangeFloor
           /\ tx.cov.owner \in Escrows \cup {Cell}
           /\ tx.lock \in Nat /\ tx.sequence \in Nat
<1>1. tx \in Spend
  BY DEF SpendOK
<1>2. tx.cov \in Coin /\ tx.fee \in Coin /\ tx.entry \in Entries
      /\ tx.split \in Seq(Output) /\ tx.outs \in Seq(Paid)
      /\ tx.lock \in Nat /\ tx.sequence \in Nat
  BY <1>1 DEF Spend
<1>3. /\ tx.cov.value \in Nat /\ tx.cov.value > 0 /\ tx.cov.born \in Nat
      /\ tx.fee.value \in Nat
  BY <1>2 DEF Coin
<1>4. tx.split \in Seq(Paid)
  BY <1>2, OutputIsPaid
<1> QED
  BY <1>1, <1>2, <1>3, <1>4 DEF SpendOK

(* The change, which every payer of gas gets back. *)
LEMMA ChangeOK ==
    ASSUME NEW fee \in Coin, fee.owner \in Parties, fee.value > MinFee + ChangeFloor
    PROVE  /\ Change(fee) \in Paid
           /\ Change(fee).owner = fee.owner
           /\ Change(fee).value + MinFee = fee.value
           /\ Change(fee).value >= ChangeFloor
           /\ \A outs : push_change(outs, fee) = Append(outs, Change(fee))
<1>1. fee.value \in Nat
  BY DEF Coin
<1>2. fee.value > MinFee /\ fee.value - MinFee \in Nat /\ fee.value - MinFee >= ChangeFloor
  BY <1>1, Constants
<1>3. \A outs : push_change(outs, fee) = Append(outs, Change(fee))
  BY <1>2 DEF push_change, Change
<1>4. Change(fee).owner = fee.owner /\ Change(fee).value = fee.value - MinFee
  BY DEF Change
<1>5. Change(fee) \in Paid
  BY <1>2 DEF Change, Paid
<1>6. Change(fee).value + MinFee = fee.value
  BY <1>1, <1>4, Constants
<1> QED
  BY <1>2, <1>3, <1>4, <1>5, <1>6

(* A claim leaves the cell what is not due, or the miner what is too small. *)
LEMMA RemainderOK ==
    ASSUME NEW tx, SpendOK(tx), tx.entry = "claim"
    PROVE  /\ ClaimTotal \in Nat
           /\ Remainder(tx.cov) \in Nat
           /\ Remainder(tx.cov) + ClaimTotal = tx.cov.value
           /\ Next_cell(tx.cov) \in Paid
           /\ Next_cell(tx.cov).owner = Cell
           /\ Next_cell(tx.cov).value = Remainder(tx.cov)
<1>1. CellPayouts \in Seq(Paid)
  BY OutputsAssumption, OutputIsPaid
<1>2. ClaimTotal \in Nat
  BY <1>1, TotalIsSum DEF ClaimTotal
<1>3. tx.cov.value \in Nat /\ tx.cov.value >= ClaimTotal
  BY SpendFields DEF SpendOK
<1>4. Remainder(tx.cov) \in Nat /\ Remainder(tx.cov) + ClaimTotal = tx.cov.value
  BY <1>2, <1>3 DEF Remainder
<1> QED
  BY <1>2, <1>4 DEF Next_cell, Paid

(* The pinned outputs are worth what the covenant held, but for what a cell *)
(* that ends leaves, and they pay each party what it is due and its gas.    *)
LEMMA MainPays ==
    ASSUME NEW tx, SpendOK(tx)
    PROVE  /\ Main(tx) \in Seq(Paid)
           /\ Left(tx) \in Nat
           /\ Total(Main(tx)) \in Nat
           /\ Total(Main(tx)) + Left(tx) = tx.cov.value
           /\ \A p \in Parties :
                  /\ PaidTo(Main(tx), p) \in Int
                  /\ Due(tx, p) = PaidTo(Main(tx), p)
                                    - (IF p = tx.fee.owner THEN MinFee ELSE 0)
<1>0. tx.split \in Seq(Paid) /\ tx.cov.value \in Nat /\ tx.entry \in Entries
  BY SpendFields
<1>1. Payouts \in Seq(Paid) /\ CellPayouts \in Seq(Paid)
  BY OutputsAssumption, OutputIsPaid
<1>2. CASE tx.entry \in Releases
  <2>1. /\ Main(tx) = Payouts /\ tx.entry # "claim"
        /\ tx.entry \in EscrowEntries /\ tx.entry \notin Refunds
    BY <1>0, <1>2, EntryCases
  <2>2. tx.cov.value = Gross /\ Total(Payouts) = Gross
    BY <2>1, ParamsAssumption DEF SpendOK, escrow_constructor_args
  <2>3. Left(tx) = 0
    BY <2>1 DEF Left
  <2>4. \A p \in Parties : Due(tx, p) = PaidTo(Payouts, p)
                                    - (IF p = tx.fee.owner THEN MinFee ELSE 0)
    BY <1>2, <2>1 DEF Due
  <2>5. Total(Payouts) \in Nat /\ \A p \in Parties : PaidTo(Payouts, p) \in Int
    BY <1>1, TotalIsSum, PaidToIsSum
  <2> QED
    BY <1>1, <2>1, <2>2, <2>3, <2>4, <2>5
<1>3. CASE tx.entry \in Refunds
  <2>1. /\ Main(tx) = << Refund >> /\ tx.entry # "claim"
        /\ tx.entry \in EscrowEntries /\ tx.entry \notin Releases
    BY <1>0, <1>3, EntryCases
  <2>2. tx.cov.value = Gross
    BY <2>1 DEF SpendOK
  <2>3. Left(tx) = 0
    BY <2>1 DEF Left
  <2>4. Refund \in Paid /\ Refund.owner = "customer" /\ Refund.value = Gross
    BY Constants, Names DEF Refund, Paid
  <2>5. /\ << Refund >> \in Seq(Paid) /\ Total(<< Refund >>) = Gross
        /\ \A p \in Parties : PaidTo(<< Refund >>, p)
                                = IF p = "customer" THEN Gross ELSE 0
    BY <2>4, Single
  <2>6. \A p \in Parties : Due(tx, p) = (IF p = "customer" THEN Gross ELSE 0)
                                    - (IF p = tx.fee.owner THEN MinFee ELSE 0)
    BY <1>3, <2>1 DEF Due
  <2>7. Total(Main(tx)) = Gross /\ Gross \in Nat
    BY <2>1, <2>5, Constants
  <2>8. \A p \in Parties : PaidTo(Main(tx), p) = IF p = "customer" THEN Gross ELSE 0
    BY <2>1, <2>5
  <2> QED
    BY <2>1, <2>2, <2>3, <2>5, <2>6, <2>7, <2>8
<1>4. CASE tx.entry \in {"release_settled", "withdraw"}
  <2>1. /\ Main(tx) = tx.split /\ tx.entry # "claim"
        /\ tx.entry \notin Releases \cup Refunds
    BY <1>0, <1>4, EntryCases
  <2>2. Total(tx.split) = tx.cov.value
    <3>1. CASE tx.entry = "release_settled"
      BY <1>0, <3>1, EntryCases DEF SpendOK
    <3>2. CASE tx.entry = "withdraw"
      <4> DEFINE o == [owner |-> "customer", value |-> tx.cov.value]
      <4>1. o \in Paid /\ o.value = tx.cov.value
        BY <1>0, Names DEF Paid
      <4>2. tx.split = << o >>
        BY <3>2 DEF SpendOK
      <4> HIDE DEF o
      <4> QED
        BY <4>1, <4>2, Single
    <3> QED
      BY <1>4, <3>1, <3>2
  <2>3. Left(tx) = 0
    BY <2>1 DEF Left
  <2>4. \A p \in Parties : Due(tx, p) = PaidTo(tx.split, p)
                                    - (IF p = tx.fee.owner THEN MinFee ELSE 0)
    BY <2>1 DEF Due
  <2>5. Total(tx.split) \in Nat /\ \A p \in Parties : PaidTo(tx.split, p) \in Int
    BY <1>0, TotalIsSum, PaidToIsSum
  <2> QED
    BY <1>0, <2>1, <2>2, <2>3, <2>4, <2>5
<1>5. CASE tx.entry = "claim"
  <2>1. /\ tx.entry \notin Releases \cup Refunds
        /\ Main(tx) = IF Remainder(tx.cov) >= SweepThreshold
                      THEN Append(CellPayouts, Next_cell(tx.cov))
                      ELSE CellPayouts
    BY <1>0, <1>5, EntryCases
  <2>2. /\ ClaimTotal \in Nat
        /\ Remainder(tx.cov) \in Nat
        /\ Remainder(tx.cov) + ClaimTotal = tx.cov.value
        /\ Next_cell(tx.cov) \in Paid
        /\ Next_cell(tx.cov).owner = Cell
        /\ Next_cell(tx.cov).value = Remainder(tx.cov)
    BY <1>5, RemainderOK
  <2>3. \A p \in Parties : Due(tx, p) = PaidTo(CellPayouts, p)
                                    - (IF p = tx.fee.owner THEN MinFee ELSE 0)
    BY <1>5, <2>1 DEF Due
  <2>4. \A p \in Parties : PaidTo(CellPayouts, p) \in Int
    BY <1>1, PaidToIsSum
  <2>5. Total(CellPayouts) = ClaimTotal
    BY DEF ClaimTotal
  <2>6. CASE Remainder(tx.cov) >= SweepThreshold
    <3> DEFINE o == Next_cell(tx.cov)
    <3> HIDE DEF o
    <3>1. o \in Paid /\ o.owner = Cell /\ o.value = Remainder(tx.cov)
          /\ Main(tx) = Append(CellPayouts, o)
      BY <2>1, <2>2, <2>6 DEF o
    <3>2. /\ Main(tx) \in Seq(Paid)
          /\ Total(Main(tx)) = Total(CellPayouts) + o.value
      BY <1>1, <3>1, TotalAppend
    <3>3. \A p \in Parties : PaidTo(Main(tx), p) = PaidTo(CellPayouts, p)
      <4> SUFFICES ASSUME NEW p \in Parties
                   PROVE  PaidTo(Main(tx), p) = PaidTo(CellPayouts, p)
        OBVIOUS
      <4>1. PaidTo(Append(CellPayouts, o), p)
              = PaidTo(CellPayouts, p) + (IF o.owner = p THEN o.value ELSE 0)
        BY <1>1, <3>1, PaidToAppend
      <4>2. o.owner # p
        BY <3>1, Names
      <4> QED
        BY <2>4, <3>1, <4>1, <4>2
    <3>4. Left(tx) = 0
      BY <2>6 DEF Left
    <3> QED
      BY <2>2, <2>3, <2>4, <2>5, <3>1, <3>2, <3>3, <3>4
  <2>7. CASE ~ Remainder(tx.cov) >= SweepThreshold
    <3>1. Main(tx) = CellPayouts /\ Left(tx) = Remainder(tx.cov)
      BY <1>5, <2>1, <2>7 DEF Left
    <3> QED
      BY <1>1, <2>2, <2>3, <2>4, <2>5, <3>1
  <2> QED
    BY <2>6, <2>7
<1> QED
  BY <1>0, <1>2, <1>3, <1>4, <1>5 DEF Entries

(* Gas never comes out of a covenant: the inputs are worth the outputs, one *)
(* miner fee and what a cell leaves, and whoever paid the gas has back what *)
(* it put in less that fee.                                                 *)
LEMMA SpendPays ==
    ASSUME NEW tx, SpendOK(tx)
    PROVE  /\ Left(tx) \in Nat
           /\ Total(tx.outs) \in Nat
           /\ tx.cov.value + tx.fee.value = Total(tx.outs) + MinFee + Left(tx)
           /\ \A p \in Parties :
                  /\ Due(tx, p) \in Int
                  /\ PaidTo(tx.outs, p)
                       = Due(tx, p) + (IF p = tx.fee.owner THEN tx.fee.value ELSE 0)
<1> DEFINE main == Main(tx)
           change == Change(tx.fee)
<1>1. /\ tx.fee \in Coin /\ tx.fee.owner \in Parties
      /\ tx.fee.value > MinFee + ChangeFloor
      /\ tx.fee.value \in Nat /\ tx.cov.value \in Nat
  BY SpendFields
<1>2. /\ change \in Paid /\ change.owner = tx.fee.owner
      /\ change.value + MinFee = tx.fee.value
  BY <1>1, ChangeOK
<1>3. tx.outs = Append(main, change)
  BY DEF SpendOK
<1>4. /\ main \in Seq(Paid) /\ Left(tx) \in Nat /\ Total(main) \in Nat
      /\ Total(main) + Left(tx) = tx.cov.value
      /\ \A p \in Parties :
             /\ PaidTo(main, p) \in Int
             /\ Due(tx, p) = PaidTo(main, p)
                               - (IF p = tx.fee.owner THEN MinFee ELSE 0)
  BY MainPays
<1>5. change.value \in Nat
  BY <1>2 DEF Paid
<1> HIDE DEF main, change
<1>6. Total(tx.outs) = Total(main) + change.value
  BY <1>2, <1>3, <1>4, TotalAppend
<1>7. ASSUME NEW p \in Parties
      PROVE  /\ Due(tx, p) \in Int
             /\ PaidTo(tx.outs, p)
                  = Due(tx, p) + (IF p = tx.fee.owner THEN tx.fee.value ELSE 0)
  <2>1. PaidTo(tx.outs, p)
          = PaidTo(main, p) + (IF change.owner = p THEN change.value ELSE 0)
    BY <1>2, <1>3, <1>4, PaidToAppend
  <2>2. /\ PaidTo(main, p) \in Int
        /\ Due(tx, p) = PaidTo(main, p) - (IF p = tx.fee.owner THEN MinFee ELSE 0)
    BY <1>4
  <2>3. MinFee \in Nat
    BY Constants
  <2>4. CASE p = tx.fee.owner
    BY <1>1, <1>2, <1>5, <2>1, <2>2, <2>3, <2>4
  <2>5. CASE p # tx.fee.owner
    BY <1>1, <1>2, <1>5, <2>1, <2>2, <2>3, <2>5
  <2> QED
    BY <2>4, <2>5
<1>8. /\ Total(tx.outs) \in Nat
      /\ tx.cov.value + tx.fee.value = Total(tx.outs) + MinFee + Left(tx)
  <2>1. /\ Total(main) \in Nat /\ change.value \in Nat /\ Left(tx) \in Nat
        /\ Total(main) + Left(tx) = tx.cov.value
        /\ change.value + MinFee = tx.fee.value
        /\ MinFee \in Nat
    BY <1>2, <1>4, <1>5, Constants
  <2> QED
    BY <1>6, <2>1
<1> QED
  BY <1>4, <1>7, <1>8
-----------------------------------------------------------------------------
(* The coins. *)

\* What each coin is worth.
Value == [u \in Coin |-> u.value]

(* Worth is a sum over coins, ... *)
LEMMA WorthIsSum ==
    ASSUME NEW coins, IsFiniteSet(coins), coins \subseteq Coin
    PROVE  /\ Worth(coins) = SumOf(Value, coins)
           /\ Worth(coins) \in Int
           /\ \A u \in coins : Value[u] = u.value /\ Value[u] \in Int
<1> DEFINE f == [u \in coins |-> u.value]
<1>1. \A u \in coins : Value[u] = u.value /\ Value[u] \in Int /\ f[u] = Value[u]
  <2> SUFFICES ASSUME NEW u \in coins
               PROVE  Value[u] = u.value /\ Value[u] \in Int /\ f[u] = Value[u]
    OBVIOUS
  <2>1. u \in Coin
    OBVIOUS
  <2>2. u.value \in Nat
    BY <2>1 DEF Coin
  <2> QED
    BY <2>1, <2>2 DEF Value
<1>2. DOMAIN f = coins
  OBVIOUS
<1>3. Worth(coins) = SumFunction(f)
  BY DEF Worth
<1> HIDE DEF f
<1>4. SumFunction(f) = SumOf(f, coins)
  BY <1>2, SumFunctionIsSum
<1>5. SumOf(f, coins) = SumOf(Value, coins)
  BY <1>1, SumEqual
<1>6. SumOf(Value, coins) \in Int
  BY <1>1, SumRemove
<1> QED
  BY <1>1, <1>3, <1>4, <1>5, <1>6

(* ... of which one may be taken out. *)
LEMMA WorthRemove ==
    ASSUME NEW coins, IsFiniteSet(coins), coins \subseteq Coin, NEW u
    PROVE  /\ IsFiniteSet(coins \ {u})
           /\ Worth(coins \ {u}) \in Int
           /\ Worth(coins) = Worth(coins \ {u})
                               + (IF u \in coins THEN u.value ELSE 0)
<1>1. IsFiniteSet(coins \ {u}) /\ coins \ {u} \subseteq Coin
  BY FS_Subset
<1>2. /\ Worth(coins) = SumOf(Value, coins) /\ Worth(coins) \in Int
      /\ \A v \in coins : Value[v] = v.value /\ Value[v] \in Int
      /\ Worth(coins \ {u}) = SumOf(Value, coins \ {u})
      /\ Worth(coins \ {u}) \in Int
  BY <1>1, WorthIsSum
<1>3. CASE u \in coins
  <2>1. SumOf(Value, coins) = Value[u] + SumOf(Value, coins \ {u})
    BY <1>2, <1>3, SumRemove
  <2> QED
    BY <1>1, <1>2, <1>3, <2>1
<1>4. CASE u \notin coins
  <2>1. coins \ {u} = coins
    BY <1>4
  <2>2. Worth(coins \ {u}) = Worth(coins)
    BY <2>1, Zenon
  <2> QED
    BY <1>1, <1>2, <1>4, <2>2
<1> QED
  BY <1>3, <1>4

(* Nothing is worth nothing; one coin, its value; two coins, both. *)
LEMMA WorthSmall ==
    /\ Worth({}) = 0
    /\ \A u \in Coin : Worth({u}) = u.value
    /\ \A u, v \in Coin : u # v => Worth({u, v}) = u.value + v.value
<1>0. IsFiniteSet({}) /\ {} \subseteq Coin
  BY FS_EmptySet
<1>1. Worth({}) = 0
  BY <1>0, WorthIsSum, SumEmpty
<1>2. ASSUME NEW u \in Coin PROVE Worth({u}) = u.value
  <2>1. IsFiniteSet({u}) /\ {u} \subseteq Coin /\ {u} \ {u} = {} /\ u \in {u}
    BY FS_Singleton
  <2>2. Worth({u}) = Worth({u} \ {u}) + (IF u \in {u} THEN u.value ELSE 0)
    BY <2>1, WorthRemove
  <2>3. u.value \in Nat
    BY DEF Coin
  <2> QED
    BY <1>1, <2>1, <2>2, <2>3
<1>3. ASSUME NEW u \in Coin, NEW v \in Coin, u # v
      PROVE  Worth({u, v}) = u.value + v.value
  <2>1. /\ IsFiniteSet({u, v}) /\ {u, v} \subseteq Coin
        /\ {u, v} \ {u} = {v} /\ u \in {u, v}
    <3>1. IsFiniteSet({v} \cup {u})
      BY FS_Singleton, FS_AddElement
    <3>2. {v} \cup {u} = {u, v}
      OBVIOUS
    <3> QED
      BY <1>3, <3>1, <3>2
  <2>2. Worth({u, v}) = Worth({u, v} \ {u}) + (IF u \in {u, v} THEN u.value ELSE 0)
    BY <2>1, WorthRemove
  <2>3. Worth({v}) = v.value /\ u.value \in Nat /\ v.value \in Nat
    BY <1>2 DEF Coin
  <2>4. Worth({u, v} \ {u}) = v.value
    BY <2>1, <2>3, Zenon
  <2> QED
    BY <2>1, <2>2, <2>3, <2>4
<1> QED
  BY <1>1, <1>2, <1>3

(* A spend takes two coins, and what they are worth covers its outputs. *)
LEMMA InputsPay ==
    ASSUME NEW tx, SpendOK(tx)
    PROVE  /\ tx.cov # tx.fee
           /\ Worth({tx.cov, tx.fee}) = tx.cov.value + tx.fee.value
           /\ Worth({tx.cov, tx.fee}) = Total(tx.outs) + MinFee + Left(tx)
           /\ Worth({tx.cov, tx.fee}) >= Total(tx.outs)
<1>1. /\ tx.cov \in Coin /\ tx.fee \in Coin
      /\ tx.cov.owner \in Escrows \cup {Cell} /\ tx.fee.owner \in Parties
  BY SpendFields
<1>2. tx.cov # tx.fee
  BY <1>1, Names
<1>3. Worth({tx.cov, tx.fee}) = tx.cov.value + tx.fee.value
  BY <1>1, <1>2, WorthSmall
<1>4. /\ Left(tx) \in Nat /\ Total(tx.outs) \in Nat /\ MinFee \in Nat
      /\ tx.cov.value + tx.fee.value = Total(tx.outs) + MinFee + Left(tx)
  BY SpendPays, Constants
<1> QED
  BY <1>2, <1>3, <1>4

-----------------------------------------------------------------------------
(* What the contracts and the node say of a spend. *)

(* A sequence starts with what was appended to. *)
LEMMA StartsAppended ==
    ASSUME NEW s \in Seq(Paid), NEW x \in Paid, NEW y \in Paid
    PROVE  /\ StartsWith(Append(s, x), s)
           /\ StartsWith(Append(Append(s, x), y), s)
           /\ StartsWith(Append(Append(s, x), y), Append(s, x))
BY DEF StartsWith

(* The contract takes what the builders assemble, if just as many arbiters  *)
(* signed as it counts.                                                     *)
LEMMA ContractTakes ==
    ASSUME NEW tx, SpendOK(tx), NEW arbiters,
           tx.entry \in {"release_arbitrated", "refund_by_arbiter"} =>
               arbiters = Threshold
    PROVE  contract(tx, arbiters)
<1> DEFINE change == Change(tx.fee)
<1>1. tx.outs = Append(Main(tx), change) /\ change \in Paid /\ tx.entry \in Entries
  BY SpendFields, ChangeOK DEF SpendOK
<1>2. Main(tx) \in Seq(Paid)
  BY MainPays
<1>3. StartsWith(tx.outs, Main(tx))
  BY <1>1, <1>2, StartsAppended
<1>4. CASE tx.entry \in Releases
  <2>1. /\ Main(tx) = Payouts /\ tx.entry \in EscrowEntries
    BY <1>1, <1>4, EntryCases
  <2>2. assert_merchant_split(tx)
    BY <1>3, <2>1 DEF assert_merchant_split, SpendOK
  <2>3. tx.entry = "release_captured" => tx.lock >= CaptureTime
    BY Constants DEF SpendOK
  <2> QED
    BY <1>4, <2>2, <2>3 DEF contract, Releases, assert_arbiter_threshold
<1>5. CASE tx.entry \in Refunds
  <2>1. /\ Main(tx) = << Refund >> /\ tx.entry \in EscrowEntries
    BY <1>1, <1>5, EntryCases
  <2>2. assert_customer_refund(tx)
    BY <1>3, <2>1 DEF assert_customer_refund, SpendOK, Refund
  <2> QED
    BY <1>5, <2>2 DEF contract, Refunds, assert_arbiter_threshold
<1>6. CASE tx.entry = "release_settled"
  BY <1>6 DEF contract, SpendOK, EscrowEntries
<1>7. CASE tx.entry = "withdraw"
  BY <1>7 DEF contract
<1>8. CASE tx.entry = "claim"
  <2>1. /\ tx.entry \notin EscrowEntries
        /\ Main(tx) = IF Remainder(tx.cov) >= SweepThreshold
                      THEN Append(CellPayouts, Next_cell(tx.cov))
                      ELSE CellPayouts
    BY <1>1, <1>8, EntryCases
  <2>2. /\ CellPayouts \in Seq(Paid) /\ Next_cell(tx.cov) \in Paid
        /\ Remainder(tx.cov) \in Nat
    BY <1>8, RemainderOK, OutputsAssumption, OutputIsPaid
  <2>3. StartsWith(tx.outs, CellPayouts)
    BY <1>1, <2>1, <2>2, StartsAppended
  <2>4. tx.cov.owner = Cell
    BY <2>1 DEF SpendOK
  <2>5. Remainder(tx.cov) >= SweepThreshold =>
            StartsWith(tx.outs, Append(CellPayouts, Next_cell(tx.cov)))
    BY <1>3, <2>1
  <2>6. claim_pays(tx)
    BY <2>2, <2>3, <2>4, <2>5 DEF claim_pays, Next_cell
  <2>7. claim_ripe(tx)
    BY <1>8, Constants DEF claim_ripe, SpendOK
  <2> QED
    BY <1>8, <2>6, <2>7 DEF contract
<1> QED
  BY <1>1, <1>4, <1>5, <1>6, <1>7, <1>8 DEF Entries

(* All outputs but the change are the pinned ones. *)
LEMMA PartsAreMain ==
    ASSUME NEW tx, SpendOK(tx)
    PROVE  /\ Parts(tx) = Main(tx) /\ Main(tx) \in Seq(Paid)
           /\ Change(tx.fee) \in Paid /\ Change(tx.fee).value >= ChangeFloor
           /\ tx.outs = Append(Main(tx), Change(tx.fee))
<1> DEFINE change == Change(tx.fee)
<1>1. tx.outs = Append(Main(tx), change) /\ change \in Paid /\ change.value >= ChangeFloor
  BY SpendFields, ChangeOK DEF SpendOK
<1>2. Main(tx) \in Seq(Paid)
  BY MainPays
<1>3. SubSeq(Append(Main(tx), change), 1, Len(Append(Main(tx), change)) - 1) = Main(tx)
  <2> HIDE DEF change
  <2> QED
    BY <1>1, <1>2
<1> QED
  BY <1>1, <1>2, <1>3 DEF Parts

(* An output is empty only if the spend was told so: the change is not. *)
LEMMA EmptyIsTold ==
    ASSUME NEW tx, SpendOK(tx), NEW i \in DOMAIN tx.outs, tx.outs[i].value = 0
    PROVE  \E j \in DOMAIN Parts(tx) : Parts(tx)[j].value = 0
<1> DEFINE change == Change(tx.fee)
           main == Main(tx)
<1>1. /\ Parts(tx) = main /\ main \in Seq(Paid)
      /\ change \in Paid /\ change.value >= ChangeFloor
      /\ tx.outs = Append(main, change)
  BY PartsAreMain
<1> HIDE DEF change, main
<1>2. change.value \in Nat /\ change.value > 0
  BY <1>1, Constants DEF Paid
<1>3. i \in DOMAIN main /\ main[i] = tx.outs[i]
  BY <1>1, <1>2
<1> QED
  BY <1>1, <1>3

(* The change adds at most what one at the floor weighs, for which what was *)
(* checked when the payment was set up leaves room.                         *)
LEMMA MassFits ==
    ASSUME NEW tx, SpendOK(tx)
    PROVE  /\ settlement_storage_mass(tx.outs) \in Int
           /\ settlement_storage_mass(tx.outs)
                <= settlement_storage_mass(Parts(tx)) + output_mass(ChangeFloor)
           /\ tx.entry \in Releases \cup Refunds =>
                  settlement_storage_mass(Parts(tx)) + output_mass(ChangeFloor) <= MassCap
<1> DEFINE change == Change(tx.fee)
           main == Main(tx)
<1>1. /\ Parts(tx) = main /\ main \in Seq(Paid)
      /\ change \in Paid /\ change.value \in Nat /\ change.value >= ChangeFloor
      /\ tx.outs = Append(main, change)
  BY PartsAreMain DEF Paid
<1>2. /\ output_mass(change.value) \in Nat /\ output_mass(ChangeFloor) \in Nat
      /\ output_mass(change.value) <= output_mass(ChangeFloor)
  BY <1>1, LargerIsLighter, Constants
<1>3. settlement_storage_mass(main) \in Int
  BY <1>1, MassIsSum
<1>4. settlement_storage_mass(tx.outs)
        = settlement_storage_mass(main) + output_mass(change.value)
  <2> HIDE DEF change, main
  <2> QED
    BY <1>1, MassAppend
<1>5. ASSUME tx.entry \in Releases \cup Refunds
      PROVE  settlement_storage_mass(main) <= SettlementMass
  <2>0. tx.entry \in Entries
    BY SpendFields
  <2>1. settlement_storage_mass(Payouts) <= SettlementMass
    BY MassAssumption
  <2>2. CASE main = Payouts
    BY <2>1, <2>2
  <2>3. CASE main = << Refund >>
    <3>1. Refund \in Paid /\ Refund.value = Gross
      BY Constants, Names DEF Refund, Paid
    <3>2. << >> \in Seq(Paid) /\ << Refund >> = Append(<< >>, Refund)
      OBVIOUS
    <3>3. settlement_storage_mass(<< >>) = 0
      <4>1. Masses(<< >>) = << >>
        BY DEF Masses
      <4> QED
        BY <3>2, <4>1, MassIsSum, SeqSumEmpty
    <3>4. settlement_storage_mass(<< Refund >>)
            = settlement_storage_mass(<< >>) + output_mass(Refund.value)
      BY <3>1, <3>2, MassAppend
    <3>5. output_mass(Gross) \in Nat /\ settlement_storage_mass(Payouts) \in Int
      BY LargerIsLighter, MassIsSum, Constants, OutputsAssumption, OutputIsPaid
    <3> QED
      BY <2>1, <2>3, <3>1, <3>3, <3>4, <3>5, RefundIsLighter, Constants
  <2> QED
    BY <1>5, <2>0, <2>2, <2>3, EntryCases
<1>6. /\ SettlementMass + output_mass(ChangeFloor) <= MassCap
      /\ SettlementMass \in Nat /\ MassCap \in Nat
  BY MassAssumption, Constants
<1> HIDE DEF change, main
<1> QED
  BY <1>1, <1>2, <1>3, <1>4, <1>5, <1>6

(* A spend is refused for one of its causes only. *)
LEMMA VerdictHasCause ==
    ASSUME NEW tx, SpendOK(tx), tx.cov.born <= clock, clock \in Nat,
           NEW signed, NEW moved \in BOOLEAN, ~ moved => tx = signed,
           NEW arbiters \in Nat,
           tx.entry \in {"release_arbitrated", "refund_by_arbiter"} =>
               arbiters >= Threshold,
           tx.entry = "release_captured" => CaptureTime < MedianTime
    PROVE  Verdict(tx, signed, arbiters) \in Causes(tx, arbiters, moved)
<1> DEFINE causes == Causes(tx, arbiters, moved)
<1>1. "missing" \in causes /\ "double" \in causes /\ "accepted" \in causes
  BY DEF Causes
<1>2. tx # signed => "signature" \in causes
  BY DEF Causes
<1>3. ~ contract(tx, arbiters) => "contract" \in causes
  <2>1. CASE arbiters > Threshold
    BY <2>1 DEF Causes
  <2>2. CASE ~ arbiters > Threshold
    <3>1. tx.entry \in {"release_arbitrated", "refund_by_arbiter"} =>
              arbiters = Threshold
      BY <2>2, Constants
    <3> QED
      BY <3>1, ContractTakes
  <2> QED
    BY <2>1, <2>2
<1>4. tx.lock # 0 => tx.lock < MedianTime
  BY DEF SpendOK
<1>5. clock - tx.cov.born < tx.sequence => "age" \in causes
  <2>1. tx.cov.born \in Nat
    BY SpendFields
  <2>2. tx.entry # "claim" => tx.sequence = 0
    BY DEF SpendOK
  <2>3. tx.entry = "claim" => "age" \in causes
    BY DEF Causes
  <2> QED
    BY <2>1, <2>2, <2>3
<1>6. ~ Worth({tx.cov, tx.fee}) < Total(tx.outs)
  BY InputsPay, SpendPays, SpendFields
<1>7. (\E i \in DOMAIN tx.outs : tx.outs[i].value = 0) => "empty" \in causes
  BY EmptyIsTold DEF Causes
<1>8. settlement_storage_mass(tx.outs) > MassCap => "mass" \in causes
  <2>1. /\ Parts(tx) \in Seq(Paid) /\ output_mass(ChangeFloor) \in Nat /\ MassCap \in Nat
        /\ settlement_storage_mass(Parts(tx)) \in Int
    BY PartsAreMain, MassIsSum, LargerIsLighter, Constants
  <2>2. /\ settlement_storage_mass(tx.outs) \in Int
        /\ settlement_storage_mass(tx.outs)
             <= settlement_storage_mass(Parts(tx)) + output_mass(ChangeFloor)
        /\ tx.entry \in Releases \cup Refunds =>
               settlement_storage_mass(Parts(tx)) + output_mass(ChangeFloor) <= MassCap
    BY MassFits
  <2>3. ASSUME settlement_storage_mass(tx.outs) > MassCap
        PROVE  /\ tx.entry \notin Releases \cup Refunds
               /\ settlement_storage_mass(Parts(tx)) + output_mass(ChangeFloor) > MassCap
    BY <2>1, <2>2, <2>3
  <2> QED
    BY <2>3 DEF Causes
\* The fee that is paid is at least the one configured.
<1>9. Worth({tx.cov, tx.fee}) - Total(tx.outs) < least_fee(tx.outs) => "fee" \in causes
  <2>1. /\ Worth({tx.cov, tx.fee}) = Total(tx.outs) + MinFee + Left(tx)
        /\ Left(tx) \in Nat /\ Total(tx.outs) \in Nat /\ MinFee \in Nat
    BY InputsPay, SpendPays, Constants
  <2>2. least_fee(tx.outs) \in Nat
    <3>1. tx.outs \in Seq(Paid) /\ FeeBase \in Nat /\ FeePerOutput \in Nat
      BY SpendFields, Constants
    <3> QED
      BY <3>1 DEF least_fee
  <2>3. Worth({tx.cov, tx.fee}) - Total(tx.outs) < least_fee(tx.outs) =>
            MinFee < least_fee(tx.outs)
    BY <2>1, <2>2
  <2> QED
    BY <2>3 DEF Causes
<1> HIDE DEF causes
<1>10. Verdict(tx, signed, arbiters) \in causes
  BY <1>1, <1>2, <1>3, <1>4, <1>5, <1>6, <1>7, <1>8, <1>9 DEF Verdict
<1> QED
  BY <1>10 DEF causes
-----------------------------------------------------------------------------
(* The builders. *)

Draft(e, s, o, l, cov, q, fee) ==
    [entry |-> e, split |-> s, outs |-> o, lock |-> l, cov |-> cov,
     sequence |-> q, fee |-> fee]

(* The coin pick_fee_utxo takes is one of those shown, large enough, and no *)
(* other would be taken.                                                    *)
LEMMA FeePicked ==
    ASSUME NEW coins, coins \subseteq Coin, NEW u \in pick_fee_utxo(coins)
    PROVE  /\ u \in coins /\ u \in Coin /\ u.value > MinFee + ChangeFloor
           /\ \A v \in pick_fee_utxo(coins) : v = u
<1>1. \A v \in coins : v.value \in Nat /\ v.id[1] \in Nat /\ v.id[2] \in Nat
  <2> SUFFICES ASSUME NEW v \in coins
               PROVE  v.value \in Nat /\ v.id[1] \in Nat /\ v.id[2] \in Nat
    OBVIOUS
  <2>1. v \in Coin
    OBVIOUS
  <2> QED
    BY <2>1 DEF Coin
<1>2. u \in coins /\ u.value > MinFee + ChangeFloor
  BY DEF pick_fee_utxo
<1>3. ASSUME NEW v \in pick_fee_utxo(coins), v # u PROVE FALSE
  <2>1. /\ v \in coins
        /\ \/ u.value > v.value \/ (u.value = v.value /\ Precedes(u, v))
        /\ \/ v.value > u.value \/ (v.value = u.value /\ Precedes(v, u))
    BY <1>3 DEF pick_fee_utxo
  <2>2. ~ (Precedes(u, v) /\ Precedes(v, u))
    BY <1>1, <1>2, <2>1 DEF Precedes
  <2> QED
    BY <1>1, <1>2, <2>1, <2>2
<1> QED
  BY <1>2, <1>3

(* An escrow's own coin. *)
LEMMA EscrowCoinOK ==
    ASSUME NEW c \in Escrows
    PROVE  /\ EscrowCoin(c) \in Coin
           /\ EscrowCoin(c).owner = c /\ EscrowCoin(c).value = Gross
           /\ EscrowCoin(c).born = 0
<1>1. Gross \in Nat \ {0}
  BY Constants
<1> QED
  BY <1>1 DEF EscrowCoin, Coin

\* What a request may ask a spend for.
Askable(entry, split) ==
    /\ entry \in EscrowEntries
    /\ split \in Seq(Output)
    /\ entry = "release_settled" => Total(split) = Gross
    /\ entry # "release_settled" => split = << >>

\* The lock of an escrow's spend.
Lock(entry) == IF entry = "release_captured" THEN CaptureTime ELSE 0

\* Its outputs before the change.
Pinned(entry, split) ==
    IF entry \in Releases THEN Payouts
    ELSE IF entry \in Refunds THEN << Refund >> ELSE split

(* Which transaction build_draft makes. *)
LEMMA DraftIs ==
    ASSUME NEW entry, NEW split, Askable(entry, split), NEW cov, NEW fee \in Coin,
           fee.owner \in Parties, fee.value > MinFee + ChangeFloor
    PROVE  build_draft(entry, split, [cov |-> cov, fee |-> fee])
             = Draft(entry, split, Append(Pinned(entry, split), Change(fee)),
                     Lock(entry), cov, 0, fee)
<1> DEFINE in == [cov |-> cov, fee |-> fee]
<1>1. \A outs : push_change(outs, fee) = Append(outs, Change(fee))
  BY ChangeOK
<1>2. in.cov = cov /\ in.fee = fee
  OBVIOUS
<1>3. CASE entry = "release_confirmed"
  BY <1>1, <1>2, <1>3
     DEF build_draft, complete_release, prepare_release, complete, assemble_unsigned,
         merchant_split_outputs, Draft, Pinned, Lock, Releases, Askable
<1>4. CASE entry = "release_captured"
  BY <1>1, <1>2, <1>4
     DEF build_draft, complete_release, prepare_release, complete, assemble_unsigned,
         merchant_split_outputs, Draft, Pinned, Lock, Releases, Askable
<1>5. CASE entry = "release_arbitrated"
  BY <1>1, <1>2, <1>5
     DEF build_draft, complete_release_arbitrated, prepare_release_arbitrated,
         prepare_release, complete, assemble_unsigned,
         merchant_split_outputs, Draft, Pinned, Lock, Releases, Askable
<1>6. CASE entry = "refund_by_merchant"
  BY <1>1, <1>2, <1>6
     DEF build_draft, complete_refund_by_merchant, prepare_refund_by_merchant,
         prepare_refund_by_arbiter, complete, assemble_unsigned,
         customer_refund_outputs, Draft, Pinned, Lock, Releases, Refunds, Refund, Askable
<1>7. CASE entry = "refund_by_arbiter"
  BY <1>1, <1>2, <1>7
     DEF build_draft, complete_refund_by_arbiter,
         prepare_refund_by_arbiter, complete, assemble_unsigned,
         customer_refund_outputs, Draft, Pinned, Lock, Releases, Refunds, Refund, Askable
<1>8. CASE entry = "release_settled"
  BY <1>1, <1>2, <1>8
     DEF build_draft, complete_settlement, prepare_settlement, complete,
         assemble_unsigned, settlement_outputs, Draft, Pinned, Lock, Releases, Refunds
<1> QED
  BY <1>3, <1>4, <1>5, <1>6, <1>7, <1>8 DEF Askable, EscrowEntries, Releases, Refunds

(* Such a transaction is a spend, ... *)
LEMMA DraftSpends ==
    ASSUME NEW entry, NEW split, Askable(entry, split), NEW c \in Escrows, NEW fee \in Coin,
           fee.owner \in Parties, fee.value > MinFee + ChangeFloor,
           NEW tx, tx = Draft(entry, split, Append(Pinned(entry, split), Change(fee)),
                              Lock(entry), EscrowCoin(c), 0, fee)
    PROVE  /\ SpendOK(tx)
           /\ tx.entry = entry /\ tx.split = split
           /\ tx.cov = EscrowCoin(c) /\ tx.fee = fee
<1> DEFINE cov == EscrowCoin(c)
           main == Pinned(entry, split)
<1>1. cov \in Coin /\ cov.owner = c /\ cov.value = Gross /\ cov.born = 0
  BY EscrowCoinOK
<1> HIDE DEF cov
<1>2. /\ entry \in Entries /\ entry \in EscrowEntries /\ entry \notin {"claim", "withdraw"}
      /\ split \in Seq(Output)
  BY DEF Askable, Entries, EscrowEntries, Releases, Refunds
<1>3. main \in Seq(Paid)
  <2>1. Payouts \in Seq(Paid) /\ split \in Seq(Paid)
    BY <1>2, OutputsAssumption, OutputIsPaid
  <2>2. Refund \in Paid
    BY Constants, Names DEF Refund, Paid
  <2>3. << Refund >> \in Seq(Paid)
    BY <2>2
  <2> QED
    BY <2>1, <2>3 DEF Pinned
<1>4. Lock(entry) \in Nat /\ 0 \in Nat
  BY Constants DEF Lock
<1>5. tx = Draft(entry, split, Append(main, Change(fee)), Lock(entry), cov, 0, fee)
  BY DEF cov
<1> HIDE DEF main
<1>6. /\ tx \in Spend
      /\ tx.entry = entry /\ tx.split = split /\ tx.outs = Append(main, Change(fee))
      /\ tx.lock = Lock(entry) /\ tx.cov = cov /\ tx.sequence = 0 /\ tx.fee = fee
  <2>1. Append(main, Change(fee)) \in Seq(Paid)
    BY <1>3, ChangeOK
  <2> DEFINE o == Append(main, Change(fee))
             l == Lock(entry)
  <2>2. o \in Seq(Paid) /\ l \in Nat
    BY <1>4, <2>1
  <2>3. tx = Draft(entry, split, o, l, cov, 0, fee)
    BY <1>5
  <2> HIDE DEF o, l
  <2>4. tx = [entry |-> entry, split |-> split, outs |-> o, lock |-> l, cov |-> cov,
              sequence |-> 0, fee |-> fee]
    BY <2>3 DEF Draft
  <2>5. tx \in Spend
    BY <1>1, <1>2, <2>2, <2>4 DEF Spend
  <2> QED
    BY <2>4, <2>5 DEF o, l
<1>7. Main(tx) = main
  BY <1>2, <1>6, EntryCases DEF main, Pinned
<1>8. /\ entry = "release_settled" => Total(split) = Gross
      /\ entry # "release_settled" => split = << >>
  BY DEF Askable
<1>9. SpendOK(tx)
  BY <1>1, <1>2, <1>6, <1>7, <1>8 DEF SpendOK, Lock
<1> QED
  BY <1>6, <1>9 DEF cov

(* ... so what build_draft makes is one. *)
LEMMA DraftOK ==
    ASSUME NEW entry, NEW split, Askable(entry, split), NEW c \in Escrows, NEW fee \in Coin,
           fee.owner \in Parties, fee.value > MinFee + ChangeFloor,
           NEW tx, tx = build_draft(entry, split, [cov |-> EscrowCoin(c), fee |-> fee])
    PROVE  /\ SpendOK(tx)
           /\ tx.entry = entry /\ tx.split = split
           /\ tx.cov = EscrowCoin(c) /\ tx.fee = fee
<1> DEFINE cov == EscrowCoin(c)
<1> HIDE DEF cov
<1>1. build_draft(entry, split, [cov |-> cov, fee |-> fee])
        = Draft(entry, split, Append(Pinned(entry, split), Change(fee)),
                Lock(entry), cov, 0, fee)
  BY DraftIs
<1>2. tx = Draft(entry, split, Append(Pinned(entry, split), Change(fee)),
                 Lock(entry), EscrowCoin(c), 0, fee)
  BY <1>1 DEF cov
<1> QED
  BY <1>2, DraftSpends

(* A claim and a withdrawal are spends of the cell. *)
LEMMA CellSpendOK ==
    ASSUME NEW cov \in Coin, cov.owner = Cell,
           NEW fee \in Coin, fee.owner \in Parties, fee.value > MinFee + ChangeFloor,
           NEW in, in = [cov |-> cov, fee |-> fee]
    PROVE  /\ cov.value >= ClaimTotal =>
                  LET tx == complete_claim(prepare_claim(in))
                  IN  SpendOK(tx) /\ tx.entry = "claim" /\ tx.cov = cov
           /\ LET split == << [owner |-> "customer", value |-> cov.value] >>
                  tx == complete_withdraw(split, prepare_withdraw(split, in))
              IN  SpendOK(tx) /\ tx.entry = "withdraw" /\ tx.cov = cov
<1>1. \A outs : push_change(outs, fee) = Append(outs, Change(fee))
  BY ChangeOK
<1>2. in.cov = cov /\ in.fee = fee
  OBVIOUS
<1>3. cov.value \in Nat
  BY DEF Coin
<1>4. {"claim", "withdraw"} \cap EscrowEntries = {} /\ {"claim", "withdraw"} \subseteq Entries
  BY DEF EscrowEntries, Entries, Releases, Refunds
<1>5. ASSUME cov.value >= ClaimTotal, NEW tx, tx = complete_claim(prepare_claim(in))
      PROVE  SpendOK(tx) /\ tx.entry = "claim" /\ tx.cov = cov
  <2> DEFINE main == IF Remainder(cov) >= SweepThreshold
                     THEN Append(CellPayouts, Next_cell(cov)) ELSE CellPayouts
  <2>1. tx = Draft("claim", << >>, Append(main, Change(fee)), 0, cov, PeriodDaa, fee)
    BY <1>1, <1>2, <1>5 DEF complete_claim, prepare_claim, complete, assemble_unsigned,
           claim_outputs, Draft, Next_cell
  <2>2. main \in Seq(Paid)
    <3>1. CellPayouts \in Seq(Paid)
      BY OutputsAssumption, OutputIsPaid
    <3>2. ClaimTotal \in Nat
      BY <3>1, TotalIsSum DEF ClaimTotal
    <3>3. Next_cell(cov) \in Paid
      BY <1>3, <1>5, <3>2 DEF Next_cell, Paid, Remainder
    <3> QED
      BY <3>1, <3>3
  <2>3. << >> \in Seq(Output) /\ PeriodDaa \in Nat /\ 0 \in Nat /\ "claim" \in Entries
    BY <1>4, Constants
  <2> HIDE DEF main
  <2>4. /\ tx \in Spend
        /\ tx.entry = "claim" /\ tx.split = << >> /\ tx.outs = Append(main, Change(fee))
        /\ tx.lock = 0 /\ tx.cov = cov /\ tx.sequence = PeriodDaa /\ tx.fee = fee
    <3>1. Append(main, Change(fee)) \in Seq(Paid)
      BY <2>2, ChangeOK
    <3> QED
      BY <2>1, <2>3, <3>1 DEF Draft, Spend
  <2>5. Main(tx) = main
    BY <1>4, <2>4, EntryCases DEF main, Entries
  <2> QED
    BY <1>4, <1>5, <2>4, <2>5 DEF SpendOK
<1>6. ASSUME NEW split, split = << [owner |-> "customer", value |-> cov.value] >>,
             NEW tx, tx = complete_withdraw(split, prepare_withdraw(split, in))
      PROVE  SpendOK(tx) /\ tx.entry = "withdraw" /\ tx.cov = cov
  <2>1. tx = Draft("withdraw", split, Append(split, Change(fee)), 0, cov, 0, fee)
    BY <1>1, <1>2, <1>6 DEF complete_withdraw, prepare_withdraw, complete,
           assemble_unsigned, Draft
  <2>2. split \in Seq(Output) /\ split \in Seq(Paid)
    <3>1. [owner |-> "customer", value |-> cov.value] \in Output
      BY <1>3, Names DEF Output
    <3>2. split \in Seq(Output)
      BY <1>6, <3>1
    <3> QED
      BY <3>2, OutputIsPaid
  <2>3. 0 \in Nat /\ "withdraw" \in Entries
    BY <1>4
  <2>4. /\ tx \in Spend
        /\ tx.entry = "withdraw" /\ tx.split = split /\ tx.outs = Append(split, Change(fee))
        /\ tx.lock = 0 /\ tx.cov = cov /\ tx.sequence = 0 /\ tx.fee = fee
    <3>1. Append(split, Change(fee)) \in Seq(Paid)
      BY <2>2, ChangeOK
    <3> QED
      BY <2>1, <2>2, <2>3, <3>1 DEF Draft, Spend
  <2>5. Main(tx) = split
    BY <1>4, <2>4, EntryCases DEF Entries
  <2> QED
    BY <1>4, <1>6, <2>4, <2>5 DEF SpendOK
<1> QED
  BY <1>5, <1>6
-----------------------------------------------------------------------------
(* Minting. *)

\* The coins of a transaction's outputs.
Mint(outs, n, now) ==
    [i \in DOMAIN outs |->
        [owner |-> outs[i].owner, value |-> outs[i].value, id |-> << n, i >>,
         born |-> IF outs[i].owner = Cell THEN now ELSE 0]]

IndicesOf(outs, party) == {i \in DOMAIN outs : outs[i].owner = party}

(* They are coins, no two alike. *)
LEMMA MintOK ==
    ASSUME NEW outs \in Seq(Paid), NEW n \in Nat, NEW now \in Nat,
           \A i \in DOMAIN outs : outs[i].value > 0
    PROVE  /\ \A i \in DOMAIN outs :
                  /\ Mint(outs, n, now)[i] \in Coin
                  /\ Mint(outs, n, now)[i].owner = outs[i].owner
                  /\ Mint(outs, n, now)[i].owner \in Parties \cup {Cell}
                  /\ Mint(outs, n, now)[i].value = outs[i].value
                  /\ Mint(outs, n, now)[i].id = << n, i >>
                  /\ Mint(outs, n, now)[i].born
                        = IF outs[i].owner = Cell THEN now ELSE 0
           /\ \A i, j \in DOMAIN outs :
                  Mint(outs, n, now)[i] = Mint(outs, n, now)[j] => i = j
<1>1. ASSUME NEW i \in DOMAIN outs
      PROVE  /\ Mint(outs, n, now)[i] \in Coin
             /\ Mint(outs, n, now)[i].owner = outs[i].owner
             /\ Mint(outs, n, now)[i].owner \in Parties \cup {Cell}
             /\ Mint(outs, n, now)[i].value = outs[i].value
             /\ Mint(outs, n, now)[i].id = << n, i >>
             /\ Mint(outs, n, now)[i].born = IF outs[i].owner = Cell THEN now ELSE 0
  <2> DEFINE o == outs[i].owner
             v == outs[i].value
             b == IF o = Cell THEN now ELSE 0
  <2>1. v \in Nat \ {0} /\ o \in Parties \cup {Cell} /\ i \in Nat /\ b \in Nat
    BY OutputOK
  <2>2. Mint(outs, n, now)[i] = [owner |-> o, value |-> v, id |-> << n, i >>, born |-> b]
    BY DEF Mint
  <2> HIDE DEF o, v, b
  <2>3. /\ Mint(outs, n, now)[i] \in Coin
        /\ Mint(outs, n, now)[i].owner = o
        /\ Mint(outs, n, now)[i].value = v
        /\ Mint(outs, n, now)[i].id = << n, i >>
        /\ Mint(outs, n, now)[i].born = b
    BY <2>1, <2>2 DEF Coin
  <2> QED
    BY <2>1, <2>3 DEF o, v, b
<1>2. ASSUME NEW i \in DOMAIN outs, NEW j \in DOMAIN outs,
             Mint(outs, n, now)[i] = Mint(outs, n, now)[j]
      PROVE  i = j
  <2> DEFINE u == Mint(outs, n, now)[i]
             v == Mint(outs, n, now)[j]
  <2>1. u.id = << n, i >> /\ v.id = << n, j >> /\ u = v
    BY <1>1, <1>2
  <2> HIDE DEF u, v
  <2>2. << n, i >> = << n, j >>
    BY <2>1
  <2> QED
    BY <2>2
<1> QED
  BY <1>1, <1>2

\* The coins of a transaction's outputs, none of them there before.
Brings(m, outs, coins) ==
    /\ \A i \in DOMAIN outs :
           m[i] \in Coin /\ m[i].value = outs[i].value /\ m[i] \notin coins
    /\ \A i, j \in DOMAIN outs : m[i] = m[j] => i = j

(* What a party's coins are worth once the outputs are minted. *)
LEMMA MintWorth ==
    ASSUME NEW A, IsFiniteSet(A), A \subseteq Coin, NEW outs \in Seq(Paid), NEW party,
           NEW c, Brings(c, outs, A)
    PROVE  LET after == A \cup ImageOf(c, IndicesOf(outs, party))
           IN  /\ IsFiniteSet(after) /\ after \subseteq Coin
               /\ Worth(after) = Worth(A) + PaidTo(outs, party)
<1> DEFINE J == IndicesOf(outs, party)
           after == A \cup ImageOf(c, J)
           w == Shares(outs, party)
           D == DOMAIN outs
<1>0. /\ \A i \in D : c[i] \in Coin /\ c[i].value = outs[i].value /\ c[i] \notin A
      /\ \A i, j \in D : c[i] = c[j] => i = j
  BY DEF Brings
<1>1. D = 1 .. Len(outs) /\ IsFiniteSet(D)
  <2>1. D = 1 .. Len(outs) /\ Len(outs) \in Int /\ 1 \in Int
    OBVIOUS
  <2>2. IsFiniteSet(1 .. Len(outs))
    BY <2>1, FS_Interval
  <2> HIDE DEF D
  <2> QED
    BY <2>1, <2>2, Zenon
<1>2. J \subseteq D
  BY DEF IndicesOf
<1>3. IsFiniteSet(J)
  BY <1>1, <1>2, FS_Subset
<1>4. after \subseteq Coin
  BY <1>0, <1>2 DEF ImageOf
<1>5. DOMAIN w = D /\ w \in Seq(Nat)
  BY PaidToIsSum DEF Shares
<1>6. \A i \in D : w[i] \in Int
  BY <1>5
<1>7. \A j \in J : w[j] = Value[c[j]]
  BY <1>0, <1>2 DEF Shares, IndicesOf, Value
<1>8. \A i \in D \ J : w[i] = 0
  BY DEF Shares, IndicesOf
<1>9. \A u \in after : Value[u] \in Int
  <2> HIDE DEF after
  <2> SUFFICES ASSUME NEW u \in after PROVE Value[u] \in Int
    OBVIOUS
  <2>1. u \in Coin
    BY <1>4
  <2> QED
    BY <2>1 DEF Value, Coin
<1>10. \A j \in J : c[j] \notin A
  BY <1>0, <1>2
<1>11. \A i, j \in J : c[i] = c[j] => i = j
  BY <1>0, <1>2
<1>12. PaidTo(outs, party) = SumOf(w, D)
  BY <1>5, PaidToIsSum DEF SeqSum
<1>13. Worth(A) = SumOf(Value, A)
  BY WorthIsSum
<1> HIDE DEF J, w, D
<1>14. /\ IsFiniteSet(A \cup ImageOf(c, J))
       /\ SumOf(Value, A \cup ImageOf(c, J)) = SumOf(Value, A) + SumOf(w, J)
  BY <1>3, <1>7, <1>9, <1>10, <1>11, SumImage
<1>15. SumOf(w, D) = SumOf(w, J)
  BY <1>1, <1>2, <1>6, <1>8, SumFiltered
<1>16. IsFiniteSet(after) /\ SumOf(Value, after) = SumOf(Value, A) + SumOf(w, J)
  BY <1>14
<1> HIDE DEF after
<1>17. Worth(after) = SumOf(Value, after)
  BY <1>4, <1>16, WorthIsSum
<1>18. Worth(after) = Worth(A) + PaidTo(outs, party)
  BY <1>12, <1>13, <1>15, <1>16, <1>17
<1> QED
  BY <1>4, <1>16, <1>18 DEF after, J
-----------------------------------------------------------------------------
(* The initial state. *)

\* The coins the parties start with.
Funds == [i \in DOMAIN Wallets |->
            [owner |-> Wallets[i].owner, value |-> Wallets[i].value,
             id |-> << 0, i >>, born |-> 0]]

CellCoin == [owner |-> Cell, value |-> CellValue, id |-> << 0, 0 >>, born |-> 0]

(* The funds are coins of the parties, no two alike. *)
LEMMA FundsOK ==
    /\ Wallets \in Seq(Paid)
    /\ \A i \in DOMAIN Wallets :
           /\ Funds[i] \in Coin /\ Funds[i].owner = Wallets[i].owner
           /\ Funds[i].owner \in Parties /\ Funds[i].value = Wallets[i].value
           /\ Funds[i].born = 0 /\ Funds[i].id[1] = 0
    /\ \A i, j \in DOMAIN Wallets : Funds[i] = Funds[j] => i = j
<1>1. Wallets \in Seq(Output) /\ \A i \in DOMAIN Wallets : Wallets[i].value > 0
  BY OutputsAssumption
<1>2. ASSUME NEW i \in DOMAIN Wallets
      PROVE  /\ Funds[i] \in Coin /\ Funds[i].owner = Wallets[i].owner
             /\ Funds[i].owner \in Parties /\ Funds[i].value = Wallets[i].value
             /\ Funds[i].born = 0 /\ Funds[i].id = << 0, i >>
  <2> DEFINE o == Wallets[i].owner
             v == Wallets[i].value
  <2>1. Wallets[i] \in Output /\ i \in Nat
    BY <1>1
  <2>2. o \in Parties /\ v \in Nat \ {0}
    BY <1>1, <2>1 DEF Output
  <2>3. Funds[i] = [owner |-> o, value |-> v, id |-> << 0, i >>, born |-> 0]
    BY DEF Funds
  <2> HIDE DEF o, v
  <2>4. /\ Funds[i] \in Coin /\ Funds[i].owner = o /\ Funds[i].value = v
        /\ Funds[i].born = 0 /\ Funds[i].id = << 0, i >>
    BY <2>1, <2>2, <2>3 DEF Coin
  <2> QED
    BY <2>2, <2>4 DEF o, v
<1>3. ASSUME NEW i \in DOMAIN Wallets, NEW j \in DOMAIN Wallets, Funds[i] = Funds[j]
      PROVE  i = j
  <2>1. Funds[i].id = << 0, i >> /\ Funds[j].id = << 0, j >>
    BY <1>2
  <2>2. << 0, i >> = << 0, j >>
    BY <1>3, <2>1, Zenon
  <2> QED
    BY <2>2
<1>4. Wallets \in Seq(Paid)
  BY <1>1, OutputIsPaid
<1> QED
  BY <1>2, <1>3, <1>4

(* The coins at the start. *)
LEMMA InitCoins ==
    ASSUME Init
    PROVE  /\ utxos = ImageOf(Funds, DOMAIN Wallets)
                        \cup {EscrowCoin(c) : c \in Escrows} \cup {CellCoin}
           /\ CoinsOK
           /\ CoinsOf(Cell) = {CellCoin}
           /\ \A p \in Parties : CoinsOf(p) = ImageOf(Funds, IndicesOf(Wallets, p))
<1> DEFINE funds == ImageOf(Funds, DOMAIN Wallets)
           escrows == {EscrowCoin(c) : c \in Escrows}
<1>1. utxos = funds \cup escrows \cup {CellCoin}
  <2>1. funds = {[owner |-> Wallets[i].owner, value |-> Wallets[i].value,
                  id |-> << 0, i >>, born |-> 0] : i \in DOMAIN Wallets}
    BY DEF ImageOf, Funds
  <2>2. escrows = {[owner |-> c, value |-> Gross, id |-> << 0, 0 >>, born |-> 0] :
                      c \in Escrows}
    BY DEF EscrowCoin
  <2> HIDE DEF funds, escrows
  <2> QED
    BY <2>1, <2>2 DEF Init, CellCoin
<1>2. IsFiniteSet(funds)
  <2> DEFINE D == DOMAIN Wallets
  <2>1. D = 1 .. Len(Wallets) /\ Len(Wallets) \in Nat
    BY FundsOK
  <2>2. IsFiniteSet(D)
    <3> HIDE DEF D
    <3> QED
      BY <2>1, FS_Interval
  <2> HIDE DEF D
  <2>3. IsFiniteSet(ImageOf(Funds, D))
    BY <2>2, ImageFinite
  <2> QED
    BY <2>3 DEF D
<1>3. IsFiniteSet(escrows)
  <2> DEFINE f == [c \in Escrows |-> EscrowCoin(c)]
  <2>1. escrows = ImageOf(f, Escrows)
    BY DEF ImageOf
  <2>2. IsFiniteSet(ImageOf(f, Escrows))
    BY NamesAssumption, ImageFinite
  <2> HIDE DEF f, escrows
  <2> QED
    BY <2>1, <2>2, Zenon
<1>4. /\ CellCoin \in Coin /\ CellCoin.owner = Cell /\ CellCoin.value = CellValue
      /\ CellCoin.born = 0 /\ CellCoin.id[1] = 0
  <2>1. CellValue \in Nat \ {0}
    BY Constants
  <2> QED
    BY <2>1 DEF CellCoin, Coin
<1>5. \A u \in escrows : /\ u \in Coin /\ u.owner \in Escrows /\ u = EscrowCoin(u.owner)
                         /\ u.born = 0 /\ u.id[1] = 0
  <2> SUFFICES ASSUME NEW u \in escrows
               PROVE  /\ u \in Coin /\ u.owner \in Escrows /\ u = EscrowCoin(u.owner)
                      /\ u.born = 0 /\ u.id[1] = 0
    OBVIOUS
  <2>1. PICK c \in Escrows : u = EscrowCoin(c)
    OBVIOUS
  <2>2. u.id[1] = 0
    BY <2>1 DEF EscrowCoin
  <2> QED
    BY <2>1, <2>2, EscrowCoinOK
<1>6. \A u \in funds : /\ u \in Coin /\ u.owner \in Parties
                       /\ u.born = 0 /\ u.id[1] = 0
  BY FundsOK DEF ImageOf
<1>7. IsFiniteSet(utxos)
  <2> HIDE DEF funds, escrows
  <2>1. IsFiniteSet(funds \cup escrows)
    BY <1>2, <1>3, FS_Union
  <2>2. IsFiniteSet((funds \cup escrows) \cup {CellCoin})
    BY <2>1, FS_AddElement
  <2> QED
    BY <1>1, <2>2
<1>8. clock = 0 /\ Len(spent) = 0
  BY DEF Init
<1>9. CoinsOK
  <2> HIDE DEF funds, escrows
  <2> SUFFICES ASSUME NEW u \in utxos
               PROVE  /\ u \in Coin
                      /\ u.born <= clock
                      /\ u.id[1] <= Len(spent)
                      /\ u.owner \in Escrows => u = EscrowCoin(u.owner)
    BY <1>7 DEF CoinsOK
  <2>1. CASE u \in funds
    BY <1>6, <1>8, <2>1, Names
  <2>2. CASE u \in escrows
    BY <1>5, <1>8, <2>2, Names
  <2>3. CASE u = CellCoin
    BY <1>4, <1>8, <2>3, Names, Constants
  <2> QED
    BY <1>1, <2>1, <2>2, <2>3
<1>10. CoinsOf(Cell) = {CellCoin}
  <2> HIDE DEF funds, escrows
  <2> QED
    BY <1>1, <1>4, <1>5, <1>6, Names DEF CoinsOf
<1>11. ASSUME NEW p \in Parties
       PROVE  CoinsOf(p) = ImageOf(Funds, IndicesOf(Wallets, p))
  <2>1. CoinsOf(p) = {u \in funds : u.owner = p}
    <3> HIDE DEF funds, escrows
    <3> QED
      BY <1>1, <1>4, <1>5, Names DEF CoinsOf
  <2>2. {u \in funds : u.owner = p} = ImageOf(Funds, IndicesOf(Wallets, p))
    BY FundsOK DEF ImageOf, IndicesOf
  <2> QED
    BY <2>1, <2>2
<1> QED
  BY <1>1, <1>9, <1>10, <1>11

(* No claim yet. *)
LEMMA NoneYet == Claims(<< >>) = 0 /\ ~ Withdrawn(<< >>)
<1>1. ClaimsOf(<< >>) = {} /\ ~ Withdrawn(<< >>)
  BY DEF ClaimsOf, Withdrawn
<1>2. Cardinality({}) = 0
  BY FS_EmptySet
<1> QED
  BY <1>1, <1>2, Zenon DEF Claims

(* The books of the blocks are sums of sequences. *)
LEMMA BooksAreSums ==
    ASSUME NEW s, NEW p
    PROVE  SumFunction([i \in DOMAIN s |-> Due(s[i], p)])
             = SeqSum([i \in DOMAIN s |-> Due(s[i], p)])
<1> DEFINE f == [i \in DOMAIN s |-> Due(s[i], p)]
<1> HIDE DEF f
<1>1. SumFunction(f) = SumOf(f, DOMAIN f)
  BY SumFunctionIsSum
<1> QED
  BY <1>1 DEF SeqSum, f

(* The invariant holds at the start. *)
LEMMA InitInductive == Init => IInv
<1> SUFFICES ASSUME Init PROVE IInv
  OBVIOUS
<1>1. /\ pool = {} /\ clock = 0 /\ swept = 0 /\ spent = << >>
      /\ intent = [c \in Escrows |-> "funded"]
      /\ job = [w \in Workers |-> Idle]
  BY DEF Init
<1>2. CoinsOK
  BY InitCoins
<1>3. PoolOK
  BY <1>1 DEF PoolOK, Mempool
<1>4. JobsOK
  BY <1>1 DEF JobsOK, JobOK
<1>5. SpentOK
  BY <1>1 DEF SpentOK
<1>6. CellOK
  <2>1. CoinsOf(Cell) = {CellCoin}
    BY InitCoins
  <2>2. CellCoin.value = CellValue /\ CellCoin.born = 0
    BY DEF CellCoin
  <2>3. 0 * PeriodDaa = 0 /\ 0 * ClaimTotal = 0
    <3>1. CellPayouts \in Seq(Paid)
      BY OutputsAssumption, OutputIsPaid
    <3>2. ClaimTotal \in Nat
      BY <3>1, TotalIsSum DEF ClaimTotal
    <3> QED
      BY <3>2, Constants
  <2>4. CellIs({CellCoin}, << >>, 0, 0)
    BY <2>2, <2>3, NoneYet, Constants DEF CellIs
  <2> QED
    BY <1>1, <2>1, <2>4 DEF CellOK
<1>7. RestOK
  BY <1>1, Constants DEF RestOK
<1>8. BooksBalance
  <2> SUFFICES ASSUME NEW p \in Parties
               PROVE  Worth(CoinsOf(p)) = PaidTo(Wallets, p)
                        + SumFunction([i \in DOMAIN spent |-> Due(spent[i], p)])
    BY DEF BooksBalance
  <2>1. SumFunction([i \in DOMAIN spent |-> Due(spent[i], p)]) = 0
    <3>1. [i \in DOMAIN spent |-> Due(spent[i], p)] = << >>
      BY <1>1
    <3> QED
      BY <3>1, BooksAreSums, SeqSumEmpty
  <2>2. IsFiniteSet({}) /\ {} \subseteq Coin /\ Worth({}) = 0
    BY FS_EmptySet, WorthSmall
  <2>3. Worth({} \cup ImageOf(Funds, IndicesOf(Wallets, p)))
          = Worth({}) + PaidTo(Wallets, p)
    <3>1. Brings(Funds, Wallets, {})
      BY FundsOK DEF Brings
    <3> QED
      BY <2>2, <3>1, FundsOK, MintWorth
  <2>4. {} \cup ImageOf(Funds, IndicesOf(Wallets, p)) = CoinsOf(p)
    BY InitCoins
  <2>5. PaidTo(Wallets, p) \in Int
    BY FundsOK, PaidToIsSum
  <2>6. Worth(CoinsOf(p)) = Worth({}) + PaidTo(Wallets, p)
    BY <2>3, <2>4, Zenon
  <2> QED
    BY <2>1, <2>2, <2>5, <2>6
<1> QED
  BY <1>2, <1>3, <1>4, <1>5, <1>6, <1>7, <1>8 DEF IInv
-----------------------------------------------------------------------------
(* What the steps have in common. *)

(* A transaction the node accepts has its coins to itself. *)
LEMMA AcceptedOK ==
    ASSUME PoolOK, clock \in Nat, NEW tx, SpendOK(tx), NEW signed, NEW arbiters,
           Verdict(tx, signed, arbiters) = "accepted"
    PROVE  Mempool(pool \cup {tx}, utxos, clock)
<1>1. /\ {tx.cov, tx.fee} \subseteq utxos
      /\ ~ \E other \in pool : {other.cov, other.fee} \cap {tx.cov, tx.fee} # {}
      /\ ~ clock - tx.cov.born < tx.sequence
      /\ ~ \E i \in DOMAIN tx.outs : tx.outs[i].value = 0
  BY DEF Verdict
<1>2. \A i \in DOMAIN tx.outs : tx.outs[i].value > 0
  <2>1. \A i \in DOMAIN tx.outs : tx.outs[i].value \in Nat
    BY SpendFields, OutputOK
  <2> QED
    BY <1>1, <2>1
<1>3. tx.entry = "claim" => clock - tx.cov.born >= PeriodDaa
  <2>1. tx.entry = "claim" => tx.sequence = PeriodDaa
    BY DEF SpendOK
  <2>2. tx.cov.born \in Nat
    BY SpendFields
  <2> QED
    BY <1>1, <2>1, <2>2, Constants
<1>4. Mempool(pool, utxos, clock)
  BY DEF PoolOK
<1>5. ASSUME NEW t \in pool \cup {tx}
      PROVE  /\ SpendOK(t)
             /\ t.cov \in utxos /\ t.fee \in utxos
             /\ \A i \in DOMAIN t.outs : t.outs[i].value > 0
             /\ t.entry = "claim" => clock - t.cov.born >= PeriodDaa
  <2>1. CASE t \in pool
    BY <1>4, <2>1, Zenon DEF Mempool
  <2>2. CASE t = tx
    BY <1>1, <1>2, <1>3, <2>2, Zenon
  <2> QED
    BY <2>1, <2>2
<1>6. ASSUME NEW t1 \in pool \cup {tx}, NEW t2 \in pool \cup {tx},
             {t1.cov, t1.fee} \cap {t2.cov, t2.fee} # {}
      PROVE  t1 = t2
  <2>1. CASE t1 \in pool /\ t2 \in pool
    BY <1>4, <1>6, <2>1, Zenon DEF Mempool
  <2>2. CASE t1 = tx /\ t2 \in pool
    <3>1. {t2.cov, t2.fee} \cap {t1.cov, t1.fee} # {}
      BY <1>6
    <3> QED
      BY <1>1, <2>2, <3>1, Zenon
  <2>3. CASE t1 \in pool /\ t2 = tx
    BY <1>1, <1>6, <2>3, Zenon
  <2>4. CASE t1 = tx /\ t2 = tx
    BY <2>4
  <2> QED
    BY <2>1, <2>2, <2>3, <2>4
<1> QED
  BY <1>5, <1>6, Zenon DEF Mempool

(* What a request or the keeper builds is a spend of the escrow's coin and  *)
(* of the payer's, which the same two coins would give again.               *)
LEMMA BuildsOK ==
    ASSUME CoinsOK, NEW entry, NEW split, Askable(entry, split), NEW c \in Escrows,
           NEW payer \in Parties, entry \in Releases => payer = "keeper",
           NEW tx \in Builds(entry, split, c, payer)
    PROVE  /\ SpendOK(tx)
           /\ tx.entry = entry /\ tx.split = split
           /\ tx.cov = EscrowCoin(c)
           /\ tx.fee \in pick_fee_utxo(CoinsOf(payer))
           /\ tx.fee.owner = payer
           /\ tx = Redrafted(tx)
<1>1. PICK in \in gather_refund_inputs(c, payer) : tx = build_draft(entry, split, in)
  BY DEF Builds, gather_release_inputs
<1>2. PICK cov \in CoinsOf(c), fee \in pick_fee_utxo(CoinsOf(payer)) :
          in = [cov |-> cov, fee |-> fee]
  BY <1>1 DEF gather_refund_inputs
<1>3. cov = EscrowCoin(c)
  BY <1>2 DEF CoinsOf, CoinsOK
<1>4. CoinsOf(payer) \subseteq Coin
  BY DEF CoinsOf, CoinsOK
<1>5. /\ fee \in CoinsOf(payer) /\ fee \in Coin
      /\ fee.value > MinFee + ChangeFloor
  BY <1>2, <1>4, FeePicked
<1>6. fee.owner = payer
  BY <1>5 DEF CoinsOf
<1>7. tx = build_draft(entry, split, [cov |-> EscrowCoin(c), fee |-> fee])
  BY <1>1, <1>2, <1>3
<1>8. /\ SpendOK(tx)
      /\ tx.entry = entry /\ tx.split = split
      /\ tx.cov = EscrowCoin(c) /\ tx.fee = fee
  BY <1>5, <1>6, <1>7, DraftOK
<1>9. tx = Redrafted(tx)
  BY <1>7, <1>8, Zenon DEF Redrafted
<1> QED
  BY <1>2, <1>6, <1>8, <1>9

(* One worker goes on to something else. *)
LEMMA JobSet ==
    ASSUME JobsOK, NEW w \in Workers, NEW j, JobOK(j, w, clock),
           job' = [job EXCEPT ![w] = j], clock' = clock
    PROVE  JobsOK'
<1>1. /\ job = [v \in Workers |-> job[v]]
      /\ \A v \in Workers : JobOK(job[v], v, clock)
  BY DEF JobsOK
<1>2. job' = [v \in Workers |-> IF v = w THEN j ELSE job[v]]
  BY <1>1
<1>3. \A v \in Workers : job'[v] = IF v = w THEN j ELSE job[v]
  BY <1>2
<1>4. job' = [v \in Workers |-> job'[v]]
  BY <1>2
<1>5. \A v \in Workers : JobOK(job'[v], v, clock')
  <2> SUFFICES ASSUME NEW v \in Workers PROVE JobOK(job'[v], v, clock)
    BY Zenon
  <2>1. CASE v = w
    BY <1>3, <2>1, Zenon
  <2>2. CASE v # w
    BY <1>1, <1>3, <2>2, Zenon
  <2> QED
    BY <2>1, <2>2
<1> QED
  BY <1>4, <1>5, Zenon DEF JobsOK

(* Nothing else matters to a step that leaves the coins and the blocks. *)
LEMMA Quiet ==
    ASSUME IInv, JobsOK', Mempool(pool', utxos, clock),
           intent' \in [Escrows -> {"funded", "settling", "settled"}],
           UNCHANGED << utxos, clock, spent, swept >>
    PROVE  IInv'
<1>1. CoinsOK' /\ SpentOK' /\ CellOK' /\ BooksBalance'
  BY DEF IInv, CoinsOK, SpentOK, CellOK, CoinsOf, BooksBalance
<1>2. PoolOK'
  BY DEF PoolOK
<1>3. RestOK'
  BY DEF IInv, RestOK
<1> QED
  BY <1>1, <1>2, <1>3 DEF IInv
-----------------------------------------------------------------------------
(* The steps of the parties' requests. *)

\* The entry points requests ask for.
Asked == EscrowEntries \ {"release_captured"}

(* What the parts of the invariant say of a step that moves no coin. *)
LEMMA Unmoved ==
    ASSUME IInv
    PROVE  /\ CoinsOK /\ PoolOK /\ JobsOK /\ SpentOK
           /\ Mempool(pool, utxos, clock)
           /\ clock \in Nat
           /\ intent \in [Escrows -> {"funded", "settling", "settled"}]
           /\ \A p : CoinsOf(p) \subseteq Coin
<1>1. \A p : CoinsOf(p) \subseteq Coin
  BY DEF IInv, CoinsOK, CoinsOf
<1>2. clock \in Nat
  BY Constants DEF IInv, RestOK
<1> QED
  BY <1>1, <1>2 DEF IInv, PoolOK, RestOK

(* A prepare request keeps a transaction to be signed. *)
LEMMA PrepareStep ==
    ASSUME IInv, NEW q \in Requests, NEW entry \in Asked, NEW split,
           Askable(entry, split), NEW payer \in Parties,
           entry \in Releases => payer = "keeper",
           Prepare(q, entry, split, payer)
    PROVE  IInv'
<1>0. PICK c \in Escrows : \E tx \in Builds(entry, split, c, payer) :
          job' = [job EXCEPT ![q] = [phase |-> "signing", owner |-> c, signed |-> tx,
                                     seen |-> CoinsOf(payer)]]
  BY DEF Prepare
<1>1. PICK tx \in Builds(entry, split, c, payer) :
          job' = [job EXCEPT ![q] = [phase |-> "signing", owner |-> c, signed |-> tx,
                                     seen |-> CoinsOf(payer)]]
  BY <1>0
<1> DEFINE j == [phase |-> "signing", owner |-> c, signed |-> tx,
                 seen |-> CoinsOf(payer)]
<1>2. /\ CoinsOK /\ JobsOK /\ Mempool(pool, utxos, clock)
      /\ intent \in [Escrows -> {"funded", "settling", "settled"}]
  BY Unmoved
<1>3. /\ SpendOK(tx)
      /\ tx.entry = entry /\ tx.split = split
      /\ tx.cov = EscrowCoin(c)
      /\ tx.fee \in pick_fee_utxo(CoinsOf(payer))
      /\ tx.fee.owner = payer
      /\ tx = Redrafted(tx)
  BY <1>2, BuildsOK
<1>4. Signing(j)
  BY <1>3 DEF Signing, Asked
<1>5. UNCHANGED << utxos, pool, clock, intent, spent, swept >> /\ q \in Workers
  BY DEF Prepare, Workers
<1>6. JobOK(j, q, clock)
  BY <1>4 DEF JobOK
<1>7. job' = [job EXCEPT ![q] = j]
  BY <1>1
<1> HIDE DEF j
<1>8. JobsOK'
  BY <1>2, <1>5, <1>6, <1>7, JobSet
<1>9. Mempool(pool', utxos, clock)
  BY <1>2, <1>5, Zenon
<1> QED
  BY <1>2, <1>5, <1>8, <1>9, Quiet

(* A submit request gives up, or builds the transaction again: the very one *)
(* that was signed, unless the payer's coins are others by now.             *)
LEMMA GatherStep ==
    ASSUME IInv, NEW q \in Requests, NEW entry, NEW arbiters \in Nat,
           entry \in {"release_arbitrated", "refund_by_arbiter"} =>
               arbiters >= Threshold,
           Gather(q, entry, arbiters)
    PROVE  IInv'
<1>1. /\ CoinsOK /\ JobsOK /\ Mempool(pool, utxos, clock) /\ clock \in Nat
      /\ intent \in [Escrows -> {"funded", "settling", "settled"}]
      /\ \A p : CoinsOf(p) \subseteq Coin
  BY Unmoved
<1>2. UNCHANGED << utxos, pool, clock, intent, spent, swept >> /\ q \in Workers
  BY DEF Gather, Workers
<1>3. PICK o : o = job[q]
  OBVIOUS
<1> DEFINE was == o.signed
           payer == o.signed.fee.owner
           again == Builds(entry, was.split, o.owner, payer)
<1>4. o.phase = "signing" /\ was.entry = entry
  BY <1>3 DEF Gather
<1>5. Signing(o)
  <2>1. JobOK(o, q, clock)
    BY <1>1, <1>2, <1>3 DEF JobsOK
  <2>2. o # Idle
    BY <1>4 DEF Idle
  <2> QED
    BY <1>4, <2>1, <2>2, Names DEF JobOK, Sending
<1>6. \/ job' = [job EXCEPT ![q] = Idle]
      \/ \E tx \in again :
             job' = [job EXCEPT ![q] =
                 [phase |-> "sending", owner |-> o.owner, tx |-> tx, signed |-> was,
                  arbiters |-> arbiters, moved |-> o.seen # CoinsOf(payer)]]
  BY <1>3 DEF Gather
<1>7. \E j : JobOK(j, q, clock) /\ job' = [job EXCEPT ![q] = j]
  <2>1. CASE job' = [job EXCEPT ![q] = Idle]
    <3>1. JobOK(Idle, q, clock)
      BY DEF JobOK
    <3> QED
      BY <2>1, <3>1
  <2>2. CASE ~ job' = [job EXCEPT ![q] = Idle]
    <3>1. PICK tx \in again :
             job' = [job EXCEPT ![q] =
                 [phase |-> "sending", owner |-> o.owner, tx |-> tx, signed |-> was,
                  arbiters |-> arbiters, moved |-> o.seen # CoinsOf(payer)]]
      BY <1>6, <2>2
    <3> DEFINE j == [phase |-> "sending", owner |-> o.owner, tx |-> tx, signed |-> was,
                     arbiters |-> arbiters, moved |-> o.seen # CoinsOf(payer)]
    <3>2. /\ SpendOK(was) /\ entry \in Asked /\ was.cov = EscrowCoin(o.owner)
          /\ o.owner \in Escrows
          /\ was.fee \in pick_fee_utxo(o.seen)
          /\ entry \in Releases => payer = "keeper"
          /\ was = Redrafted(was)
      BY <1>4, <1>5, Zenon DEF Signing, Asked
    <3>3. Askable(entry, was.split)
      <4>1. was.split \in Seq(Output)
        BY <3>2, SpendFields
      <4>2. /\ entry = "release_settled" => Total(was.split) = Gross
            /\ entry \notin {"release_settled", "withdraw"} => was.split = << >>
        BY <1>4, <3>2 DEF SpendOK
      <4>3. entry \in EscrowEntries /\ entry # "withdraw"
        BY <3>2 DEF Asked, EscrowEntries, Releases, Refunds
      <4> QED
        BY <4>1, <4>2, <4>3 DEF Askable
    <3>4. payer \in Parties
      BY <3>2, SpendFields
    <3> HIDE DEF was, payer
    <3>5. tx \in Builds(entry, was.split, o.owner, payer)
      OBVIOUS
    <3>6. /\ SpendOK(tx)
          /\ tx.entry = entry /\ tx.split = was.split
          /\ tx.cov = EscrowCoin(o.owner)
          /\ tx.fee \in pick_fee_utxo(CoinsOf(payer))
          /\ tx = Redrafted(tx)
      BY <1>1, <3>2, <3>3, <3>4, <3>5, BuildsOK
    <3>7. o.seen = CoinsOf(payer) => tx = was
      <4>1. SUFFICES ASSUME o.seen = CoinsOf(payer) PROVE tx = was
        OBVIOUS
      <4>2. CoinsOf(payer) \subseteq Coin /\ was.fee \in pick_fee_utxo(CoinsOf(payer))
        BY <1>1, <3>2, <4>1
      <4>3. was.fee = tx.fee
        BY <3>6, <4>2, FeePicked
      <4>4. tx.entry = was.entry /\ tx.split = was.split /\ tx.cov = was.cov
        BY <1>4, <3>2, <3>6 DEF was
      <4>5. Redrafted(tx) = Redrafted(was)
        BY <4>3, <4>4, Zenon DEF Redrafted
      <4> QED
        BY <3>2, <3>6, <4>5
    <3>8. tx.cov.born <= clock
      BY <1>1, <3>2, <3>6, EscrowCoinOK
    <3>9. Sending(j, clock)
      <4>1. /\ j.phase = "sending" /\ j.owner = o.owner /\ j.tx = tx /\ j.signed = was
            /\ j.arbiters = arbiters /\ j.moved \in BOOLEAN
            /\ ~ j.moved => o.seen = CoinsOf(payer)
        OBVIOUS
      <4> HIDE DEF j
      <4> QED
        BY <3>2, <3>6, <3>7, <3>8, <4>1 DEF Sending, Asked
    <3>10. JobOK(j, q, clock)
      BY <3>9 DEF JobOK
    <3>11. job' = [job EXCEPT ![q] = j]
      BY <3>1 DEF was, payer
    <3> HIDE DEF j
    <3> QED
      BY <3>10, <3>11
  <2> QED
    BY <2>1, <2>2
<1>8. JobsOK'
  BY <1>1, <1>2, <1>7, JobSet
<1>9. Mempool(pool', utxos, clock)
  BY <1>1, <1>2, Zenon
<1> QED
  BY <1>1, <1>2, <1>8, <1>9, Quiet

(* Each prepare endpoint. *)
LEMMA RequestStep ==
    ASSUME IInv, NEW q \in Requests, Request(q)
    PROVE  IInv'
<1>0. /\ << >> \in Seq(Output)
      /\ {"keeper", "customer", "merchant"} \subseteq Parties
      /\ "release_confirmed" \in Asked /\ "release_arbitrated" \in Asked
      /\ "refund_by_merchant" \in Asked /\ "refund_by_arbiter" \in Asked
      /\ "release_settled" \in Asked
      /\ "refund_by_merchant" \notin Releases /\ "refund_by_arbiter" \notin Releases
      /\ "release_settled" \notin Releases
  BY Names DEF Asked, EscrowEntries, Releases, Refunds
<1>1. \A e \in Asked : e # "release_settled" => Askable(e, << >>)
  BY <1>0 DEF Askable, Asked
<1>2. CASE customer_release_prepare(q)
  BY <1>0, <1>1, <1>2, PrepareStep DEF customer_release_prepare
<1>3. CASE arbiter_release_prepare(q)
  BY <1>0, <1>1, <1>3, PrepareStep DEF arbiter_release_prepare
<1>4. CASE merchant_refund_prepare(q)
  BY <1>0, <1>1, <1>4, PrepareStep DEF merchant_refund_prepare
<1>5. CASE arbiter_refund_prepare(q)
  BY <1>0, <1>1, <1>5, PrepareStep DEF arbiter_refund_prepare
<1>6. CASE mutual_settle_prepare(q)
  <2>1. PICK payer \in {"merchant", "customer"}, split \in Agreeable :
            Prepare(q, "release_settled", split, payer)
    BY <1>6 DEF mutual_settle_prepare
  <2>2. Askable("release_settled", split)
    BY <1>0, OutputsAssumption DEF Askable, Agreeable, Asked
  <2> QED
    BY <1>0, <2>1, <2>2, PrepareStep
<1> QED
  BY <1>2, <1>3, <1>4, <1>5, <1>6 DEF Request

(* Each submit endpoint, up to its broadcast. *)
LEMMA SubmitStep ==
    ASSUME IInv, NEW q \in Requests, Submit(q)
    PROVE  IInv'
<1>0. \A n \in 0 .. PanelSize :
          prepare_arbiter_signatures(n) => n \in Nat /\ n >= Threshold
  BY Constants DEF prepare_arbiter_signatures
<1>1. 0 \in Nat
  OBVIOUS
<1>2. CASE customer_release_submit(q)
  BY <1>1, <1>2, GatherStep DEF customer_release_submit
<1>3. CASE arbiter_release(q)
  <2>1. PICK n \in 0 .. PanelSize : /\ prepare_arbiter_signatures(n)
                                    /\ Gather(q, "release_arbitrated", n)
    BY <1>3 DEF arbiter_release
  <2> QED
    BY <1>0, <2>1, GatherStep
<1>4. CASE merchant_refund_submit(q)
  BY <1>1, <1>4, GatherStep DEF merchant_refund_submit
<1>5. CASE arbiter_refund_submit(q)
  <2>1. PICK n \in 0 .. PanelSize : /\ prepare_arbiter_signatures(n)
                                    /\ Gather(q, "refund_by_arbiter", n)
    BY <1>5 DEF arbiter_refund_submit
  <2> QED
    BY <1>0, <2>1, GatherStep
<1>6. CASE mutual_settle_submit(q)
  BY <1>1, <1>6, GatherStep DEF mutual_settle_submit
<1> QED
  BY <1>2, <1>3, <1>4, <1>5, <1>6 DEF Submit
-----------------------------------------------------------------------------
(* The broadcasts, the keeper and the claims. *)

(* Claims are counted. *)
LEMMA ClaimsNat ==
    ASSUME NEW s \in Seq(Spend)
    PROVE  IsFiniteSet(ClaimsOf(s)) /\ Claims(s) \in Nat
<1> DEFINE D == DOMAIN s
<1>1. IsFiniteSet(D)
  <2>1. D = 1 .. Len(s) /\ Len(s) \in Int /\ 1 \in Int
    OBVIOUS
  <2>2. IsFiniteSet(1 .. Len(s))
    BY <2>1, FS_Interval
  <2> HIDE DEF D
  <2> QED
    BY <2>1, <2>2, Zenon
<1>2. ClaimsOf(s) \subseteq D
  BY DEF ClaimsOf
<1> HIDE DEF D
<1>3. IsFiniteSet(ClaimsOf(s))
  BY <1>1, <1>2, FS_Subset
<1> QED
  BY <1>3, FS_CardinalityType DEF Claims

(* A worker that is done with its transaction, which the mempool may have. *)
LEMMA BroadcastStep ==
    ASSUME IInv, NEW w \in Workers, NEW tx,
           job' = [job EXCEPT ![w] = Idle],
           pool' = pool \/ (pool' = pool \cup {tx} /\ Mempool(pool', utxos, clock)),
           intent' \in [Escrows -> {"funded", "settling", "settled"}],
           UNCHANGED << utxos, clock, spent, swept >>
    PROVE  IInv'
<1>1. JobsOK /\ Mempool(pool, utxos, clock)
  BY Unmoved
<1>2. JobOK(Idle, w, clock)
  BY DEF JobOK
<1>3. JobsOK'
  BY <1>1, <1>2, JobSet
<1>4. Mempool(pool', utxos, clock)
  BY <1>1, Zenon
<1> QED
  BY <1>3, <1>4, Quiet

(* The second half of a submit request. *)
LEMMA SendStep ==
    ASSUME IInv, NEW q \in Requests, Send(q)
    PROVE  IInv'
<1>1. /\ JobsOK /\ PoolOK /\ clock \in Nat /\ q \in Workers
      /\ intent \in [Escrows -> {"funded", "settling", "settled"}]
  BY Unmoved DEF Workers
<1>2. PICK o : o = job[q]
  OBVIOUS
<1>3. o.phase = "sending"
  BY <1>2 DEF Send
<1>4. Sending(o, clock)
  <2>1. JobOK(o, q, clock)
    BY <1>1, <1>2 DEF JobsOK
  <2>2. o # Idle
    BY <1>3 DEF Idle
  <2> QED
    BY <1>3, <2>1, <2>2, Names DEF JobOK, Signing
<1>5. SpendOK(o.tx) /\ o.owner \in Escrows
  BY <1>4 DEF Sending
<1>6. \/ pool' = pool /\ intent' = intent
      \/ /\ Verdict(o.tx, o.signed, o.arbiters) = "accepted"
         /\ pool' = pool \cup {o.tx}
         /\ intent' = [intent EXCEPT ![o.owner] = "settled"]
  BY <1>2 DEF Send
<1>7. intent' \in [Escrows -> {"funded", "settling", "settled"}]
  BY <1>1, <1>6
<1>8. pool' = pool \/ (pool' = pool \cup {o.tx} /\ Mempool(pool', utxos, clock))
  <2>1. CASE pool' = pool
    BY <2>1
  <2>2. CASE pool' # pool
    <3>1. Verdict(o.tx, o.signed, o.arbiters) = "accepted" /\ pool' = pool \cup {o.tx}
      BY <1>6, <2>2
    <3>2. Mempool(pool \cup {o.tx}, utxos, clock)
      BY <1>1, <1>5, <3>1, AcceptedOK
    <3> QED
      BY <3>1, <3>2, Zenon
  <2> QED
    BY <2>1, <2>2
<1>9. job' = [job EXCEPT ![q] = Idle] /\ UNCHANGED << utxos, clock, spent, swept >>
  BY DEF Send
<1> QED
  BY <1>1, <1>7, <1>8, <1>9, BroadcastStep

(* The keeper claims an escrow and builds its capture. *)
LEMMA KeeperGatherStep ==
    ASSUME IInv, NEW c \in Escrows, KeeperGather(c)
    PROVE  IInv'
<1>1. /\ CoinsOK /\ JobsOK /\ Mempool(pool, utxos, clock) /\ clock \in Nat
      /\ intent \in [Escrows -> {"funded", "settling", "settled"}]
      /\ "keeper" \in Workers /\ "keeper" \in Parties
  BY Unmoved, Names DEF Workers
<1>2. PICK tx \in Builds("release_captured", << >>, c, "keeper") :
          job' = [job EXCEPT !["keeper"] =
               [phase |-> "sending", owner |-> c, tx |-> tx]]
  BY DEF KeeperGather
<1>3. /\ UNCHANGED << utxos, pool, clock, spent, swept >>
      /\ intent' = [intent EXCEPT ![c] = "settling"]
      /\ CaptureTime < clock - MedianLag
  BY DEF KeeperGather, MedianTime
<1>4. Askable("release_captured", << >>)
  BY DEF Askable, EscrowEntries, Releases
<1>5. /\ SpendOK(tx) /\ tx.entry = "release_captured" /\ tx.cov = EscrowCoin(c)
  BY <1>1, <1>4, BuildsOK
<1>6. tx.cov.born <= clock
  BY <1>1, <1>5, EscrowCoinOK
<1> DEFINE j == [phase |-> "sending", owner |-> c, tx |-> tx]
<1>7. Capturing(j, clock)
  BY <1>3, <1>5, <1>6 DEF Capturing
<1>8. JobOK(j, "keeper", clock)
  BY <1>7 DEF JobOK
<1>9. job' = [job EXCEPT !["keeper"] = j]
  BY <1>2
<1> HIDE DEF j
<1>10. JobsOK'
  BY <1>1, <1>3, <1>8, <1>9, JobSet
<1>11. Mempool(pool', utxos, clock)
  BY <1>1, <1>3, Zenon
<1>12. intent' \in [Escrows -> {"funded", "settling", "settled"}]
  BY <1>1, <1>3
<1> QED
  BY <1>3, <1>10, <1>11, <1>12, Quiet

(* The keeper broadcasts it, or gives the claim back. *)
LEMMA KeeperSendStep ==
    ASSUME IInv, KeeperSend
    PROVE  IInv'
<1>1. /\ JobsOK /\ PoolOK /\ clock \in Nat /\ "keeper" \in Workers
      /\ intent \in [Escrows -> {"funded", "settling", "settled"}]
  BY Unmoved DEF Workers
<1>2. PICK o : o = job["keeper"]
  OBVIOUS
<1>3. o.phase = "sending"
  BY <1>2 DEF KeeperSend
<1>4. Capturing(o, clock)
  <2>1. JobOK(o, "keeper", clock)
    BY <1>1, <1>2 DEF JobsOK
  <2>2. o # Idle
    BY <1>3 DEF Idle
  <2> QED
    BY <2>1, <2>2, Names DEF JobOK
<1>5. SpendOK(o.tx) /\ o.owner \in Escrows
  BY <1>4 DEF Capturing
<1>6. \/ pool' = pool /\ intent' = [intent EXCEPT ![o.owner] = "funded"]
      \/ /\ Verdict(o.tx, o.tx, 0) = "accepted"
         /\ pool' = pool \cup {o.tx}
         /\ intent' = [intent EXCEPT ![o.owner] = "settled"]
  BY <1>2 DEF KeeperSend
<1>7. intent' \in [Escrows -> {"funded", "settling", "settled"}]
  BY <1>1, <1>6
<1>8. pool' = pool \/ (pool' = pool \cup {o.tx} /\ Mempool(pool', utxos, clock))
  <2>1. CASE pool' = pool
    BY <2>1
  <2>2. CASE pool' # pool
    <3>1. Verdict(o.tx, o.tx, 0) = "accepted" /\ pool' = pool \cup {o.tx}
      BY <1>6, <2>2
    <3>2. Mempool(pool \cup {o.tx}, utxos, clock)
      BY <1>1, <1>5, <3>1, AcceptedOK
    <3> QED
      BY <3>1, <3>2, Zenon
  <2> QED
    BY <2>1, <2>2
<1>9. job' = [job EXCEPT !["keeper"] = Idle] /\ UNCHANGED << utxos, clock, spent, swept >>
  BY DEF KeeperSend
<1> QED
  BY <1>1, <1>7, <1>8, <1>9, BroadcastStep

(* A claim or a withdrawal is built from the cell and a coin of the keeper. *)
LEMMA CellStep ==
    ASSUME IInv, Claim \/ Withdraw
    PROVE  IInv'
<1>1. /\ CoinsOK /\ JobsOK /\ Mempool(pool, utxos, clock) /\ clock \in Nat
      /\ intent \in [Escrows -> {"funded", "settling", "settled"}]
      /\ CoinsOf("keeper") \subseteq Coin
      /\ "claimer" \in Workers /\ "keeper" \in Parties
  BY Unmoved, Names DEF Workers
<1>2. PICK in \in CellInputs :
          \/ /\ in.cov.value >= ClaimTotal
             /\ job' = [job EXCEPT !["claimer"] =
                    [phase |-> "sending", tx |-> complete_claim(prepare_claim(in))]]
          \/ LET split == <<[owner |-> "customer", value |-> in.cov.value]>>
             IN  job' = [job EXCEPT !["claimer"] =
                     [phase |-> "sending",
                      tx |-> complete_withdraw(split, prepare_withdraw(split, in))]]
  BY DEF Claim, Withdraw
<1>3. PICK cov \in CoinsOf(Cell), fee \in pick_fee_utxo(CoinsOf("keeper")) :
          in = [cov |-> cov, fee |-> fee]
  BY DEF CellInputs
<1>4. cov \in Coin /\ cov.owner = Cell /\ cov.born <= clock
  BY <1>1 DEF CoinsOf, CoinsOK
<1>5. fee \in Coin /\ fee.owner \in Parties /\ fee.value > MinFee + ChangeFloor
  <2>1. fee \in CoinsOf("keeper") /\ fee \in Coin /\ fee.value > MinFee + ChangeFloor
    BY <1>1, <1>3, FeePicked
  <2> QED
    BY <1>1, <2>1 DEF CoinsOf
<1> DEFINE claim == complete_claim(prepare_claim(in))
           split == << [owner |-> "customer", value |-> cov.value] >>
           withdrawal == complete_withdraw(split, prepare_withdraw(split, in))
<1>6. /\ cov.value >= ClaimTotal =>
             SpendOK(claim) /\ claim.entry = "claim" /\ claim.cov = cov
      /\ SpendOK(withdrawal) /\ withdrawal.entry = "withdraw" /\ withdrawal.cov = cov
  BY <1>3, <1>4, <1>5, CellSpendOK
<1>7. in.cov = cov
  BY <1>3
<1>8. \/ /\ cov.value >= ClaimTotal
         /\ job' = [job EXCEPT !["claimer"] = [phase |-> "sending", tx |-> claim]]
      \/ job' = [job EXCEPT !["claimer"] = [phase |-> "sending", tx |-> withdrawal]]
  BY <1>2, <1>7, Zenon
<1> HIDE DEF claim, withdrawal, split
<1>9. PICK tx : /\ SpendOK(tx) /\ tx.entry \in {"claim", "withdraw"} /\ tx.cov = cov
                /\ job' = [job EXCEPT !["claimer"] = [phase |-> "sending", tx |-> tx]]
  BY <1>6, <1>8
<1> DEFINE j == [phase |-> "sending", tx |-> tx]
<1>10. JobOK(j, "claimer", clock)
  BY <1>4, <1>9 DEF JobOK, Claiming
<1>11. job' = [job EXCEPT !["claimer"] = j]
  BY <1>9
<1>12. UNCHANGED << utxos, pool, clock, intent, spent, swept >>
  BY DEF Claim, Withdraw
<1> HIDE DEF j
<1>13. JobsOK'
  BY <1>1, <1>10, <1>11, <1>12, JobSet
<1>14. Mempool(pool', utxos, clock)
  BY <1>1, <1>12, Zenon
<1> QED
  BY <1>1, <1>12, <1>13, <1>14, Quiet

(* It is broadcast. *)
LEMMA SendCellStep ==
    ASSUME IInv, SendCellSpend
    PROVE  IInv'
<1>1. /\ JobsOK /\ PoolOK /\ clock \in Nat /\ "claimer" \in Workers
      /\ intent \in [Escrows -> {"funded", "settling", "settled"}]
  BY Unmoved DEF Workers
<1>2. PICK o : o = job["claimer"]
  OBVIOUS
<1>3. o.phase = "sending"
  BY <1>2 DEF SendCellSpend
<1>4. Claiming(o, clock)
  <2>1. JobOK(o, "claimer", clock)
    BY <1>1, <1>2 DEF JobsOK
  <2>2. o # Idle
    BY <1>3 DEF Idle
  <2> QED
    BY <2>1, <2>2, Names DEF JobOK
<1>5. SpendOK(o.tx)
  BY <1>4 DEF Claiming
<1>6. pool' = IF Verdict(o.tx, o.tx, 0) = "accepted" THEN pool \cup {o.tx} ELSE pool
  BY <1>2 DEF SendCellSpend
<1>7. pool' = pool \/ (pool' = pool \cup {o.tx} /\ Mempool(pool', utxos, clock))
  <2>1. CASE Verdict(o.tx, o.tx, 0) = "accepted"
    <3>1. Mempool(pool \cup {o.tx}, utxos, clock)
      BY <1>1, <1>5, <2>1, AcceptedOK
    <3>2. pool' = pool \cup {o.tx}
      BY <1>6, <2>1
    <3> QED
      BY <3>1, <3>2, Zenon
  <2>2. CASE ~ Verdict(o.tx, o.tx, 0) = "accepted"
    BY <1>6, <2>2
  <2> QED
    BY <2>1, <2>2
<1>8. /\ job' = [job EXCEPT !["claimer"] = Idle]
      /\ UNCHANGED << utxos, clock, intent, spent, swept >>
  BY DEF SendCellSpend
<1>9. intent' \in [Escrows -> {"funded", "settling", "settled"}]
  BY <1>1, <1>8
<1> QED
  BY <1>1, <1>7, <1>8, <1>9, BroadcastStep

(* Time passes. *)
LEMMA TickStep ==
    ASSUME IInv, Tick
    PROVE  IInv'
<1>1. /\ CoinsOK /\ JobsOK /\ SpentOK /\ Mempool(pool, utxos, clock) /\ clock \in Nat
  BY Unmoved
<1>2. /\ clock' = clock + 1 /\ clock' \in 0 .. MaxClock
      /\ UNCHANGED << utxos, pool, intent, job, spent, swept >>
  BY <1>1, Constants DEF Tick
<1>0. PICK later : later = clock + 1
  OBVIOUS
<1>3. CoinsOK'
  <2>1. /\ IsFiniteSet(utxos)
        /\ \A u \in utxos :
               /\ u \in Coin
               /\ u.born <= clock
               /\ u.id[1] <= Len(spent)
               /\ u.owner \in Escrows => u = EscrowCoin(u.owner)
    BY <1>1 DEF CoinsOK
  <2>2. \A u \in utxos : u.born <= clock + 1
    <3> SUFFICES ASSUME NEW u \in utxos PROVE u.born <= clock + 1
      OBVIOUS
    <3>1. u \in Coin /\ u.born <= clock
      BY <2>1
    <3>2. u.born \in Nat
      BY <3>1 DEF Coin
    <3> QED
      BY <1>1, <3>1, <3>2
  <2> QED
    BY <1>2, <2>1, <2>2, Zenon DEF CoinsOK
<1>4. PoolOK'
  <2>1. /\ \A tx \in pool : /\ SpendOK(tx)
                            /\ tx.cov \in utxos /\ tx.fee \in utxos
                            /\ \A i \in DOMAIN tx.outs : tx.outs[i].value > 0
                            /\ tx.entry = "claim" => clock - tx.cov.born >= PeriodDaa
        /\ \A t1, t2 \in pool : {t1.cov, t1.fee} \cap {t2.cov, t2.fee} # {} => t1 = t2
    BY <1>1, Zenon DEF Mempool
  <2>2. \A tx \in pool : tx.entry = "claim" => later - tx.cov.born >= PeriodDaa
    <3> SUFFICES ASSUME NEW tx \in pool, tx.entry = "claim"
                 PROVE  later - tx.cov.born >= PeriodDaa
      OBVIOUS
    <3>1. SpendOK(tx) /\ clock - tx.cov.born >= PeriodDaa
      BY <2>1
    <3>2. tx.cov.born \in Nat
      BY <3>1, SpendFields
    <3> QED
      BY <1>0, <1>1, <3>1, <3>2, Constants
  <2>3. Mempool(pool, utxos, later)
    BY <2>1, <2>2, Zenon DEF Mempool
  <2>4. pool' = pool /\ utxos' = utxos /\ clock' = later
    BY <1>0, <1>2
  <2> QED
    BY <2>3, <2>4, Zenon DEF PoolOK
<1>5. JobsOK'
  <2>1. \A w \in Workers : JobOK(job[w], w, clock)
    BY <1>1 DEF JobsOK
  <2>2. ASSUME NEW j, SpendOK(j.tx), j.tx.cov.born <= clock
        PROVE  j.tx.cov.born <= later
    <3>1. j.tx.cov.born \in Nat
      BY <2>2, SpendFields
    <3> QED
      BY <1>0, <1>1, <2>2, <3>1
  <2>3. CaptureTime < clock - MedianLag => CaptureTime < later - MedianLag
    BY <1>0, <1>1, Constants
  <2>4. ASSUME NEW w \in Workers, NEW j, JobOK(j, w, clock) PROVE JobOK(j, w, later)
    <3>1. Sending(j, clock) => Sending(j, later)
      BY <2>2, Zenon DEF Sending
    <3>2. Capturing(j, clock) => Capturing(j, later)
      BY <2>2, <2>3, Zenon DEF Capturing
    <3>3. Claiming(j, clock) => Claiming(j, later)
      BY <2>2, Zenon DEF Claiming
    <3> QED
      BY <2>4, <3>1, <3>2, <3>3, Zenon DEF JobOK
  <2>5. job' = job /\ clock' = later
    BY <1>0, <1>2
  <2>6. \A w \in Workers : JobOK(job'[w], w, clock')
    BY <2>1, <2>4, <2>5, Zenon
  <2>7. job' = [w \in Workers |-> job'[w]]
    <3>1. job = [w \in Workers |-> job[w]]
      BY <1>1 DEF JobsOK
    <3> QED
      BY <2>5, <3>1, Zenon
  <2> QED
    BY <2>6, <2>7, Zenon DEF JobsOK
<1>6. CellOK'
  <2>1. CellIs(CoinsOf(Cell), spent, swept, clock)
    BY DEF IInv, CellOK
  <2>2. CoinsOf(Cell)' = CoinsOf(Cell)
    BY <1>2 DEF CoinsOf
  <2>3. Claims(spent) * PeriodDaa <= clock => Claims(spent) * PeriodDaa <= clock + 1
    <3>1. Claims(spent) \in Nat
      BY <1>1, ClaimsNat DEF SpentOK
    <3> QED
      BY <1>1, <3>1, Constants
  <2>4. CellIs(CoinsOf(Cell), spent, swept, clock + 1)
    BY <2>1, <2>3, Zenon DEF CellIs
  <2> QED
    BY <1>2, <2>2, <2>4, Zenon DEF CellOK
<1>7. RestOK'
  BY <1>2 DEF IInv, RestOK
<1>8. BooksBalance' /\ SpentOK'
  BY <1>2 DEF IInv, BooksBalance, CoinsOf, SpentOK
<1> QED
  BY <1>3, <1>4, <1>5, <1>6, <1>7, <1>8 DEF IInv
-----------------------------------------------------------------------------
(* A block takes a transaction. *)

(* Only a claim pays to a cell, and only if enough is left. *)
LEMMA CellOutput ==
    ASSUME NEW tx, SpendOK(tx)
    PROVE  IF tx.entry = "claim" /\ Remainder(tx.cov) >= SweepThreshold
           THEN \E k \in DOMAIN tx.outs :
                    /\ IndicesOf(tx.outs, Cell) = {k}
                    /\ tx.outs[k].value = Remainder(tx.cov)
           ELSE IndicesOf(tx.outs, Cell) = {}
<1> DEFINE change == Change(tx.fee)
           main == Main(tx)
<1>1. /\ tx.outs = Append(main, change) /\ main \in Seq(Paid) /\ change \in Paid
      /\ change.owner \in Parties
      /\ tx.entry \in Entries
  BY SpendFields, ChangeOK, MainPays DEF SpendOK
<1>2. change.owner # Cell
  BY <1>1, Names
<1>3. ASSUME NEW outs \in Seq(Output), NEW i \in DOMAIN outs PROVE outs[i].owner # Cell
  <2>1. outs[i] \in Output
    OBVIOUS
  <2>2. outs[i].owner \in Parties
    BY <2>1 DEF Output
  <2> QED
    BY <2>2, Names
<1>4. CASE tx.entry = "claim" /\ Remainder(tx.cov) >= SweepThreshold
  <2> DEFINE o == Next_cell(tx.cov)
             k == Len(CellPayouts) + 1
  <2>1. /\ main = Append(CellPayouts, o) /\ o \in Paid /\ o.owner = Cell
        /\ o.value = Remainder(tx.cov)
    BY <1>1, <1>4, EntryCases, RemainderOK
  <2>2. CellPayouts \in Seq(Output) /\ CellPayouts \in Seq(Paid)
    BY OutputsAssumption, OutputIsPaid
  <2>3. \A i \in DOMAIN CellPayouts : CellPayouts[i].owner # Cell
    BY <1>3, <2>2
  <2> HIDE DEF o, change, main
  <2>4. tx.outs = Append(Append(CellPayouts, o), change)
    BY <1>1, <2>1
  <2>5. /\ k \in DOMAIN tx.outs /\ tx.outs[k] = o
        /\ \A i \in DOMAIN tx.outs : i # k => \/ tx.outs[i] = change
                                              \/ /\ i \in DOMAIN CellPayouts
                                                 /\ tx.outs[i] = CellPayouts[i]
    BY <1>1, <2>1, <2>2, <2>4
  <2> HIDE DEF k
  <2>6. IndicesOf(tx.outs, Cell) = {k}
    BY <1>2, <2>1, <2>3, <2>5 DEF IndicesOf
  <2> QED
    BY <1>4, <2>1, <2>5, <2>6
<1>5. CASE ~ (tx.entry = "claim" /\ Remainder(tx.cov) >= SweepThreshold)
  <2>1. main = << Refund >> \/ main \in Seq(Output)
    <3>1. tx.split \in Seq(Output)
      BY SpendFields
    <3> QED
      BY <1>1, <1>5, <3>1, EntryCases, OutputsAssumption
  <2>2. \A i \in DOMAIN main : main[i].owner # Cell
    <3>1. CASE main = << Refund >>
      <4>1. Refund.owner # Cell
        BY Names DEF Refund
      <4> HIDE DEF main
      <4> QED
        BY <3>1, <4>1
    <3>2. CASE main \in Seq(Output)
      BY <1>3, <3>2
    <3> QED
      BY <2>1, <3>1, <3>2
  <2> HIDE DEF change, main
  <2>3. \A i \in DOMAIN tx.outs : \/ tx.outs[i] = change
                                  \/ i \in DOMAIN main /\ tx.outs[i] = main[i]
    BY <1>1
  <2>4. IndicesOf(tx.outs, Cell) = {}
    BY <1>2, <2>2, <2>3 DEF IndicesOf
  <2> QED
    BY <1>5, <2>4
<1> QED
  BY <1>4, <1>5

(* Another transaction of the blocks. *)
LEMMA ClaimsAppend ==
    ASSUME NEW s \in Seq(Spend), NEW tx \in Spend
    PROVE  /\ Claims(Append(s, tx)) = Claims(s) + (IF tx.entry = "claim" THEN 1 ELSE 0)
           /\ Withdrawn(Append(s, tx)) <=> Withdrawn(s) \/ tx.entry = "withdraw"
<1> DEFINE n == Len(s) + 1
           longer == Append(s, tx)
<1>1. /\ DOMAIN longer = DOMAIN s \cup {n} /\ n \notin DOMAIN s
      /\ longer[n] = tx /\ \A i \in DOMAIN s : longer[i] = s[i]
  OBVIOUS
<1>2. IsFiniteSet(ClaimsOf(s)) /\ Claims(s) \in Nat
  BY ClaimsNat
<1> HIDE DEF n, longer
<1>3. Withdrawn(longer) <=> Withdrawn(s) \/ tx.entry = "withdraw"
  BY <1>1 DEF Withdrawn
<1>4. n \notin ClaimsOf(s)
  BY <1>1 DEF ClaimsOf
<1>5. CASE tx.entry = "claim"
  <2>1. ClaimsOf(longer) = ClaimsOf(s) \cup {n}
    BY <1>1, <1>5 DEF ClaimsOf
  <2>2. Cardinality(ClaimsOf(s) \cup {n}) = Cardinality(ClaimsOf(s)) + 1
    BY <1>2, <1>4, FS_AddElement
  <2>3. Claims(longer) = Claims(s) + 1
    BY <2>1, <2>2, Zenon DEF Claims
  <2> QED
    BY <1>3, <1>5, <2>3 DEF longer
<1>6. CASE tx.entry # "claim"
  <2>1. ClaimsOf(longer) = ClaimsOf(s)
    BY <1>1, <1>6 DEF ClaimsOf
  <2>2. Claims(longer) = Claims(s)
    BY <2>1, Zenon DEF Claims
  <2> QED
    BY <1>2, <1>3, <1>6, <2>2 DEF longer
<1> QED
  BY <1>5, <1>6

(* The cell's coin, after a transaction that spends it or leaves it alone. *)
LEMMA CellAfter ==
    ASSUME NEW coins, coins \subseteq Coin, NEW s \in Seq(Spend), NEW dust \in Nat,
           NEW now \in Nat, CellIs(coins, s, dust, now),
           NEW tx, SpendOK(tx), tx.cov \in coins <=> tx.cov.owner = Cell,
           tx.entry = "claim" => now - tx.cov.born >= PeriodDaa,
           NEW n \in Nat, \A i \in DOMAIN tx.outs : tx.outs[i].value > 0,
           NEW after, after = (coins \ {tx.cov})
                                \cup ImageOf(Mint(tx.outs, n, now), IndicesOf(tx.outs, Cell))
    PROVE  CellIs(after, Append(s, tx), dust + Left(tx), now)
<1> DEFINE C == Claims(s)
           m == Mint(tx.outs, n, now)
           longer == Append(s, tx)
<1>1. /\ tx \in Spend /\ tx.entry \in Entries /\ tx.outs \in Seq(Paid)
      /\ tx.cov \in Coin /\ tx.cov.value \in Nat /\ tx.cov.born \in Nat
  BY SpendFields
<1>2. /\ C \in Nat /\ PeriodDaa \in Nat /\ CellValue \in Nat /\ ClaimTotal \in Nat
  <2>1. CellPayouts \in Seq(Paid)
    BY OutputsAssumption, OutputIsPaid
  <2>2. ClaimTotal \in Nat
    BY <2>1, TotalIsSum DEF ClaimTotal
  <2> QED
    BY <2>2, ClaimsNat, Constants
<1>3. /\ Claims(longer) = C + (IF tx.entry = "claim" THEN 1 ELSE 0)
      /\ Withdrawn(longer) <=> Withdrawn(s) \/ tx.entry = "withdraw"
  BY <1>1, ClaimsAppend
<1>4. /\ C * PeriodDaa <= now
      /\ \A u, v \in coins : u = v
      /\ \A u \in coins :
             /\ C * PeriodDaa <= u.born
             /\ u.value + C * ClaimTotal = CellValue
             /\ dust = 0
             /\ ~ Withdrawn(s)
      /\ coins = {} => Withdrawn(s) \/ dust + C * ClaimTotal = CellValue
      /\ dust > 0 => dust < SweepThreshold
  BY DEF CellIs
<1> HIDE DEF C, longer
<1>5. CASE tx.entry \in EscrowEntries
  <2>1. tx.entry \notin {"claim", "withdraw"}
    BY <1>5 DEF EscrowEntries, Releases, Refunds
  <2>2. tx.cov \notin coins
    BY <1>5, Names DEF SpendOK
  <2>3. IndicesOf(tx.outs, Cell) = {}
    BY <2>1, CellOutput
  <2>4. after = coins
    BY <2>2, <2>3 DEF ImageOf
  <2>5. Left(tx) = 0 /\ Claims(longer) = C
    BY <1>2, <1>3, <2>1 DEF Left
  <2>6. CellIs(coins, longer, dust, now)
    BY <1>3, <1>4, <2>1, <2>5, Zenon DEF CellIs
  <2>7. dust + Left(tx) = dust
    BY <2>5
  <2> QED
    BY <2>4, <2>6, <2>7, Zenon DEF longer
<1>6. CASE tx.entry = "withdraw"
  <2>1. tx.entry \notin EscrowEntries
    BY <1>6 DEF EscrowEntries, Releases, Refunds
  <2>2. tx.cov \in coins
    BY <2>1 DEF SpendOK
  <2>3. IndicesOf(tx.outs, Cell) = {}
    BY <1>6, CellOutput
  <2>4. after = {}
    <3>1. coins \ {tx.cov} = {}
      BY <1>4, <2>2
    <3> QED
      BY <2>3, <3>1 DEF ImageOf
  <2>5. Left(tx) = 0 /\ Claims(longer) = C
    BY <1>2, <1>3, <1>6 DEF Left
  <2>6. CellIs({}, longer, dust, now)
    BY <1>3, <1>4, <1>6, <2>5 DEF CellIs
  <2>7. dust + Left(tx) = dust
    BY <2>5
  <2> QED
    BY <2>4, <2>6, <2>7, Zenon DEF longer
<1>7. CASE tx.entry = "claim"
  <2>1. tx.entry \notin EscrowEntries
    BY <1>7 DEF EscrowEntries, Releases, Refunds
  <2>2. tx.cov \in coins
    BY <2>1 DEF SpendOK
  <2>3. /\ C * PeriodDaa <= tx.cov.born
        /\ tx.cov.value + C * ClaimTotal = CellValue
        /\ dust = 0 /\ ~ Withdrawn(s)
    BY <1>4, <2>2
  <2>4. coins \ {tx.cov} = {}
    BY <1>4, <2>2
  <2>5. /\ Remainder(tx.cov) \in Nat
        /\ Remainder(tx.cov) + ClaimTotal = tx.cov.value
    BY <1>7, RemainderOK
  <2>6. Claims(longer) = C + 1 /\ ~ Withdrawn(longer)
    BY <1>3, <1>7, <2>3
  <2>7. (C + 1) * PeriodDaa = C * PeriodDaa + PeriodDaa /\ C * PeriodDaa \in Nat
    BY <1>2
  <2>8. (C + 1) * ClaimTotal = C * ClaimTotal + ClaimTotal /\ C * ClaimTotal \in Nat
    BY <1>2
  <2>9. Claims(longer) * PeriodDaa <= now
    BY <1>1, <1>2, <1>7, <2>3, <2>6, <2>7
  <2>10. Remainder(tx.cov) + Claims(longer) * ClaimTotal = CellValue
    BY <1>1, <1>2, <2>3, <2>5, <2>6, <2>8
  <2>11. CASE Remainder(tx.cov) >= SweepThreshold
    <3>1. PICK k \in DOMAIN tx.outs : /\ IndicesOf(tx.outs, Cell) = {k}
                                      /\ tx.outs[k].value = Remainder(tx.cov)
      BY <1>7, <2>11, CellOutput
    <3>2. tx.outs[k].owner = Cell
      BY <3>1 DEF IndicesOf
    <3>3. m[k].born = now /\ m[k].value = Remainder(tx.cov)
      BY <1>1, <3>1, <3>2, MintOK
    <3>4. after = {m[k]}
      BY <2>4, <3>1 DEF ImageOf
    <3>5. Left(tx) = 0
      BY <2>11 DEF Left
    <3> HIDE DEF m
    <3>6. CellIs({m[k]}, longer, 0, now)
      <4>1. /\ Claims(longer) * PeriodDaa <= m[k].born
            /\ m[k].value + Claims(longer) * ClaimTotal = CellValue
            /\ 0 = 0 /\ ~ (0 > 0) /\ {m[k]} # {}
        BY <2>9, <2>10, <3>3
      <4> QED
        BY <2>6, <2>9, <4>1, Zenon DEF CellIs
    <3>7. dust + Left(tx) = 0
      BY <2>3, <3>5
    <3> QED
      BY <3>4, <3>6, <3>7, Zenon DEF longer
  <2>12. CASE ~ Remainder(tx.cov) >= SweepThreshold
    <3>1. IndicesOf(tx.outs, Cell) = {}
      BY <1>7, <2>12, CellOutput
    <3>2. after = {}
      BY <2>4, <3>1 DEF ImageOf
    <3>3. dust + Left(tx) = Remainder(tx.cov)
      BY <1>7, <2>3, <2>5, <2>12 DEF Left
    <3>4. Remainder(tx.cov) < SweepThreshold
      BY <2>5, <2>12, Constants
    <3>5. CellIs({}, longer, Remainder(tx.cov), now)
      BY <2>9, <2>10, <3>4 DEF CellIs
    <3> QED
      BY <3>2, <3>3, <3>5, Zenon DEF longer
  <2> QED
    BY <2>11, <2>12
<1> QED
  BY <1>1, <1>5, <1>6, <1>7 DEF Entries, EscrowEntries

(* What the invariant says of a transaction of the mempool. *)
LEMMA InPool ==
    ASSUME IInv, NEW tx \in pool
    PROVE  /\ SpendOK(tx) /\ tx.cov \in utxos /\ tx.fee \in utxos
           /\ tx.outs \in Seq(Paid)
           /\ \A i \in DOMAIN tx.outs : tx.outs[i].value > 0
           /\ tx.entry = "claim" => clock - tx.cov.born >= PeriodDaa
           /\ spent \in Seq(Spend) /\ Len(spent) + 1 \in Nat
           /\ clock \in Nat /\ swept \in Nat
<1>1. /\ SpendOK(tx) /\ tx.cov \in utxos /\ tx.fee \in utxos
      /\ \A i \in DOMAIN tx.outs : tx.outs[i].value > 0
      /\ tx.entry = "claim" => clock - tx.cov.born >= PeriodDaa
  BY DEF IInv, PoolOK, Mempool
<1>2. tx.outs \in Seq(Paid)
  BY <1>1, SpendFields
<1>3. spent \in Seq(Spend) /\ clock \in Nat /\ swept \in Nat
  BY Unmoved DEF SpentOK, IInv, RestOK
<1> QED
  BY <1>1, <1>2, <1>3

(* The coins once a block took it. *)
LEMMA AfterBlock ==
    ASSUME IInv, NEW tx \in pool, utxos' = (utxos \ {tx.cov, tx.fee}) \cup Minted(tx),
           NEW n, n = Len(spent) + 1, NEW m, m = Mint(tx.outs, n, clock)
    PROVE  /\ utxos' = (utxos \ {tx.cov, tx.fee}) \cup ImageOf(m, DOMAIN tx.outs)
           /\ \A i \in DOMAIN tx.outs :
                  /\ m[i] \in Coin /\ m[i] \notin utxos
                  /\ m[i].owner = tx.outs[i].owner /\ m[i].value = tx.outs[i].value
                  /\ m[i].owner \in Parties \cup {Cell}
                  /\ m[i].born <= clock /\ m[i].id[1] = n
           /\ \A i, j \in DOMAIN tx.outs : m[i] = m[j] => i = j
           /\ \A p : CoinsOf(p)' = (CoinsOf(p) \ {tx.cov, tx.fee})
                                      \cup ImageOf(m, IndicesOf(tx.outs, p))
<1>1. /\ tx.outs \in Seq(Paid) /\ \A i \in DOMAIN tx.outs : tx.outs[i].value > 0
      /\ n \in Nat /\ clock \in Nat
  BY InPool
<1>2. /\ \A i \in DOMAIN tx.outs :
             /\ m[i] \in Coin
             /\ m[i].owner = tx.outs[i].owner /\ m[i].value = tx.outs[i].value
             /\ m[i].owner \in Parties \cup {Cell}
             /\ m[i].id = << n, i >>
             /\ m[i].born = IF tx.outs[i].owner = Cell THEN clock ELSE 0
      /\ \A i, j \in DOMAIN tx.outs : m[i] = m[j] => i = j
  <2>1. /\ \A i \in DOMAIN tx.outs :
             /\ Mint(tx.outs, n, clock)[i] \in Coin
             /\ Mint(tx.outs, n, clock)[i].owner = tx.outs[i].owner
             /\ Mint(tx.outs, n, clock)[i].owner \in Parties \cup {Cell}
             /\ Mint(tx.outs, n, clock)[i].value = tx.outs[i].value
             /\ Mint(tx.outs, n, clock)[i].id = << n, i >>
             /\ Mint(tx.outs, n, clock)[i].born
                   = IF tx.outs[i].owner = Cell THEN clock ELSE 0
        /\ \A i, j \in DOMAIN tx.outs :
               Mint(tx.outs, n, clock)[i] = Mint(tx.outs, n, clock)[j] => i = j
    BY <1>1, MintOK
  <2> QED
    BY <2>1, Zenon
<1>3. Minted(tx) = ImageOf(m, DOMAIN tx.outs)
  BY DEF Minted, ImageOf, Mint
<1>4. ASSUME NEW i \in DOMAIN tx.outs PROVE m[i] \notin utxos /\ m[i].id[1] = n
  <2>1. m[i].id[1] = n
    BY <1>2
  <2>2. \A u \in utxos : u.id[1] <= Len(spent) /\ u \in Coin
    BY DEF IInv, CoinsOK
  <2>3. Len(spent) \in Nat
    BY InPool
  <2> QED
    BY <2>1, <2>2, <2>3
<1>5. utxos' = (utxos \ {tx.cov, tx.fee}) \cup ImageOf(m, DOMAIN tx.outs)
  BY <1>3, Zenon
<1>6. ASSUME NEW i \in DOMAIN tx.outs PROVE m[i].born <= clock
  BY <1>1, <1>2
<1>7. ASSUME NEW p
      PROVE  CoinsOf(p)' = (CoinsOf(p) \ {tx.cov, tx.fee})
                              \cup ImageOf(m, IndicesOf(tx.outs, p))
  <2>1. CoinsOf(p)' = {u \in utxos' : u.owner = p}
    BY DEF CoinsOf
  <2>2. \A i \in DOMAIN tx.outs : m[i].owner = tx.outs[i].owner
    BY <1>2
  <2>3. {u \in ImageOf(m, DOMAIN tx.outs) : u.owner = p}
          = ImageOf(m, IndicesOf(tx.outs, p))
    BY <2>2 DEF ImageOf, IndicesOf
  <2>4. CoinsOf(p) = {u \in utxos : u.owner = p}
    BY DEF CoinsOf
  <2> QED
    BY <1>5, <2>1, <2>3, <2>4
<1> QED
  BY <1>2, <1>4, <1>5, <1>6, <1>7, Zenon

(* The books, once the block's transaction is entered. *)
LEMMA BooksAppend ==
    ASSUME SpentOK, NEW tx, SpendOK(tx), NEW p \in Parties
    PROVE  /\ SeqSum([i \in DOMAIN spent |-> Due(spent[i], p)]) \in Int
           /\ SeqSum([i \in DOMAIN Append(spent, tx) |-> Due(Append(spent, tx)[i], p)])
                = SeqSum([i \in DOMAIN spent |-> Due(spent[i], p)]) + Due(tx, p)
<1> DEFINE books == [i \in DOMAIN spent |-> Due(spent[i], p)]
           longer == Append(spent, tx)
           d == Due(tx, p)
<1>1. spent \in Seq(Spend) /\ \A i \in DOMAIN spent : SpendOK(spent[i])
  BY DEF SpentOK
<1>2. d \in Int /\ \A i \in DOMAIN spent : Due(spent[i], p) \in Int
  BY <1>1, SpendPays
<1>3. books \in Seq(Int) /\ Len(books) = Len(spent)
  BY <1>1, <1>2
<1>4. [i \in DOMAIN longer |-> Due(longer[i], p)] = Append(books, d)
  <2>1. /\ DOMAIN longer = 1 .. Len(spent) + 1 /\ longer[Len(spent) + 1] = tx
        /\ \A i \in DOMAIN spent : longer[i] = spent[i]
        /\ DOMAIN spent = 1 .. Len(spent) /\ Len(spent) \in Nat
    BY <1>1
  <2> HIDE DEF longer
  <2> QED
    BY <1>2, <1>3, <2>1
<1> HIDE DEF books, d, longer
<1>5. SeqSum(Append(books, d)) = SeqSum(books) + d
  BY <1>2, <1>3, SeqSumAppend
<1>6. SeqSum(books) \in Int
  BY <1>3, SeqSumType
<1>7. SeqSum([i \in DOMAIN longer |-> Due(longer[i], p)]) = SeqSum(books) + d
  BY <1>4, <1>5, Zenon
<1> QED
  BY <1>6, <1>7 DEF books, d, longer

\* All a party's coins, among them the fee coin it pays with.
Purse(coins, p, fee) ==
    /\ IsFiniteSet(coins) /\ coins \subseteq Coin
    /\ \A u \in coins : u.owner = p
    /\ p = fee.owner => fee \in coins

Emptied(coins, tx, m, p) ==
    (coins \ {tx.cov, tx.fee}) \cup ImageOf(m, IndicesOf(tx.outs, p))

(* Every party's coins then follow the books. *)
LEMMA WorthAfter ==
    ASSUME NEW coins, NEW p \in Parties, NEW tx, SpendOK(tx), NEW m,
           Purse(coins, p, tx.fee), Brings(m, tx.outs, coins)
    PROVE  Worth(Emptied(coins, tx, m, p)) = Worth(coins) + Due(tx, p)
<1> DEFINE A == coins \ {tx.fee}
           after == Emptied(coins, tx, m, p)
<1>0. /\ IsFiniteSet(coins) /\ coins \subseteq Coin
      /\ \A u \in coins : u.owner = p
      /\ p = tx.fee.owner => tx.fee \in coins
      /\ \A i \in DOMAIN tx.outs :
             m[i] \in Coin /\ m[i].value = tx.outs[i].value /\ m[i] \notin coins
      /\ \A i, j \in DOMAIN tx.outs : m[i] = m[j] => i = j
  BY DEF Purse, Brings
<1>1. /\ tx.outs \in Seq(Paid) /\ tx.fee.value \in Nat /\ tx.fee.owner \in Parties
      /\ tx.cov.owner \in Escrows \cup {Cell}
  BY SpendFields
<1>2. tx.cov \notin coins
  BY <1>0, <1>1, Names
<1>3. after = A \cup ImageOf(m, IndicesOf(tx.outs, p))
  <2>1. coins \ {tx.cov, tx.fee} = A
    BY <1>2
  <2> QED
    BY <2>1 DEF Emptied
<1>4. /\ IsFiniteSet(A) /\ Worth(A) \in Int
      /\ Worth(coins) = Worth(A) + (IF tx.fee \in coins THEN tx.fee.value ELSE 0)
  BY <1>0, WorthRemove
<1>5. A \subseteq Coin /\ \A i \in DOMAIN tx.outs : m[i] \notin A
  BY <1>0
<1> HIDE DEF A, after
<1>6. Worth(A \cup ImageOf(m, IndicesOf(tx.outs, p))) = Worth(A) + PaidTo(tx.outs, p)
  <2>1. tx.outs \in Seq(Paid)
    BY <1>1
  <2>2. IsFiniteSet(A) /\ A \subseteq Coin
    BY <1>4, <1>5
  <2>3. Brings(m, tx.outs, A)
    BY <1>0, <1>5 DEF Brings
  <2> QED
    BY <2>1, <2>2, <2>3, MintWorth
<1>7. Worth(after) = Worth(A) + PaidTo(tx.outs, p)
  BY <1>3, <1>6, Zenon
<1>8. /\ Due(tx, p) \in Int
      /\ PaidTo(tx.outs, p) = Due(tx, p) + (IF p = tx.fee.owner THEN tx.fee.value ELSE 0)
  BY SpendPays
<1>9. tx.fee \in coins <=> p = tx.fee.owner
  BY <1>0
<1>10. Worth(after) = Worth(coins) + Due(tx, p)
  BY <1>1, <1>4, <1>7, <1>8, <1>9
<1> QED
  BY <1>10 DEF after

(* A block takes a transaction of the mempool. *)
LEMMA ConfirmStep ==
    ASSUME IInv, Confirm
    PROVE  IInv'
<1>1. PICK tx \in pool :
          /\ pool' = pool \ {tx}
          /\ utxos' = (utxos \ {tx.cov, tx.fee}) \cup Minted(tx)
          /\ spent' = Append(spent, tx)
          /\ swept' = swept + (Worth({tx.cov, tx.fee}) - Total(tx.outs) - MinFee)
          /\ UNCHANGED << clock, intent, job >>
  BY DEF Confirm
<1>2. /\ SpendOK(tx) /\ tx.cov \in utxos /\ tx.fee \in utxos
      /\ tx.outs \in Seq(Paid)
      /\ \A i \in DOMAIN tx.outs : tx.outs[i].value > 0
      /\ tx.entry = "claim" => clock - tx.cov.born >= PeriodDaa
      /\ spent \in Seq(Spend) /\ Len(spent) + 1 \in Nat
      /\ clock \in Nat /\ swept \in Nat
  BY InPool
<1>3. PICK n : n = Len(spent) + 1
  OBVIOUS
<1>4. PICK m : m = Mint(tx.outs, n, clock)
  OBVIOUS
<1>5. /\ utxos' = (utxos \ {tx.cov, tx.fee}) \cup ImageOf(m, DOMAIN tx.outs)
      /\ \A i \in DOMAIN tx.outs :
             /\ m[i] \in Coin /\ m[i] \notin utxos
             /\ m[i].owner = tx.outs[i].owner /\ m[i].value = tx.outs[i].value
             /\ m[i].owner \in Parties \cup {Cell}
             /\ m[i].born <= clock /\ m[i].id[1] = n
      /\ \A i, j \in DOMAIN tx.outs : m[i] = m[j] => i = j
      /\ \A p : CoinsOf(p)' = (CoinsOf(p) \ {tx.cov, tx.fee})
                                 \cup ImageOf(m, IndicesOf(tx.outs, p))
  BY <1>1, <1>3, <1>4, AfterBlock
<1>6. /\ IsFiniteSet(utxos)
      /\ \A u \in utxos :
             /\ u \in Coin
             /\ u.born <= clock
             /\ u.id[1] <= Len(spent)
             /\ u.owner \in Escrows => u = EscrowCoin(u.owner)
  BY DEF IInv, CoinsOK
<1>7. Len(spent') = n
  BY <1>1, <1>2, <1>3
<1>8. CoinsOK'
  <2>1. IsFiniteSet(utxos')
    <3> DEFINE D == DOMAIN tx.outs
               A == utxos \ {tx.cov, tx.fee}
    <3>1. IsFiniteSet(D)
      <4>1. D = 1 .. Len(tx.outs) /\ Len(tx.outs) \in Int /\ 1 \in Int
        BY <1>2
      <4>2. IsFiniteSet(1 .. Len(tx.outs))
        BY <4>1, FS_Interval
      <4> HIDE DEF D
      <4> QED
        BY <4>1, <4>2, Zenon
    <3>2. IsFiniteSet(A)
      BY <1>6, FS_Subset
    <3>3. utxos' = A \cup ImageOf(m, D)
      BY <1>5
    <3> HIDE DEF A, D
    <3>4. IsFiniteSet(ImageOf(m, D))
      BY <3>1, ImageFinite
    <3>5. IsFiniteSet(A \cup ImageOf(m, D))
      BY <3>2, <3>4, FS_Union
    <3> QED
      BY <3>3, <3>5, Zenon
  <2>2. ASSUME NEW u \in utxos'
        PROVE  /\ u \in Coin
               /\ u.born <= clock'
               /\ u.id[1] <= Len(spent')
               /\ u.owner \in Escrows => u = EscrowCoin(u.owner)
    <3>1. CASE u \in utxos
      <4>1. u.id[1] \in Nat /\ u.id[1] <= Len(spent) /\ Len(spent) \in Nat
        BY <1>2, <1>6, <3>1 DEF Coin
      <4>2. u.id[1] <= Len(spent')
        BY <1>3, <1>7, <4>1
      <4> QED
        BY <1>1, <1>6, <3>1, <4>2
    <3>2. CASE u \notin utxos
      <4>1. PICK i \in DOMAIN tx.outs : u = m[i]
        BY <1>5, <3>2 DEF ImageOf
      <4>2. /\ u \in Coin /\ u.owner \in Parties \cup {Cell}
            /\ u.value = tx.outs[i].value /\ u.born <= clock /\ u.id[1] = n
        BY <1>5, <4>1
      <4>3. u.owner \notin Escrows
        BY <4>2, Names
      <4>5. u.id[1] <= Len(spent')
        BY <1>2, <1>3, <1>7, <4>2
      <4> QED
        BY <1>1, <4>2, <4>3, <4>5
    <3> QED
      BY <3>1, <3>2
  <2> QED
    BY <2>1, <2>2, Zenon DEF CoinsOK
<1>9. PoolOK'
  <2>1. /\ \A t \in pool :
               /\ SpendOK(t)
               /\ t.cov \in utxos /\ t.fee \in utxos
               /\ \A i \in DOMAIN t.outs : t.outs[i].value > 0
               /\ t.entry = "claim" => clock - t.cov.born >= PeriodDaa
        /\ \A t1, t2 \in pool : {t1.cov, t1.fee} \cap {t2.cov, t2.fee} # {} => t1 = t2
    BY DEF IInv, PoolOK, Mempool
  <2>2. ASSUME NEW t \in pool', NEW u \in {t.cov, t.fee} PROVE u \in utxos'
    <3>1. t \in pool /\ t # tx
      BY <1>1
    <3>2. u \in utxos /\ u \notin {tx.cov, tx.fee}
      BY <2>1, <3>1
    <3> QED
      BY <1>1, <3>2
  <2>3. \A t \in pool' : t \in pool /\ t.cov \in utxos' /\ t.fee \in utxos'
    BY <1>1, <2>2
  <2>4. Mempool(pool', utxos', clock)
    BY <2>1, <2>3, Zenon DEF Mempool
  <2>5. clock' = clock
    BY <1>1
  <2> QED
    BY <2>4, <2>5, Zenon DEF PoolOK
<1>10. JobsOK'
  BY <1>1 DEF IInv, JobsOK
<1>11. SpentOK'
  <2>1. tx \in Spend /\ \A i \in DOMAIN spent : SpendOK(spent[i])
    BY <1>2, SpendFields DEF IInv, SpentOK
  <2>2. spent' \in Seq(Spend)
    BY <1>1, <1>2, <2>1
  <2>3. \A i \in DOMAIN spent' : spent'[i] = tx \/ (i \in DOMAIN spent /\ spent'[i] = spent[i])
    BY <1>1, <1>2, <2>1
  <2>4. \A i \in DOMAIN spent' : SpendOK(spent'[i])
    BY <1>2, <2>1, <2>3, Zenon
  <2> QED
    BY <2>2, <2>4 DEF SpentOK
<1>12. swept' = swept + Left(tx) /\ Left(tx) \in Nat
  <2>1. /\ Worth({tx.cov, tx.fee}) = Total(tx.outs) + MinFee + Left(tx)
        /\ Left(tx) \in Nat /\ Total(tx.outs) \in Nat /\ MinFee \in Nat
    BY <1>2, InputsPay, SpendPays, Constants
  <2> QED
    BY <1>1, <1>2, <2>1
<1>13. CellOK'
  <2>1. CellIs(CoinsOf(Cell), spent, swept, clock)
    BY DEF IInv, CellOK
  <2>2. PICK coins : coins = CoinsOf(Cell)
    OBVIOUS
  <2>3. coins \subseteq Coin /\ (tx.cov \in coins <=> tx.cov.owner = Cell)
    BY <1>2, <1>6, <2>2 DEF CoinsOf
  <2>4. tx.fee \notin coins
    <3>1. tx.fee.owner \in Parties
      BY <1>2, SpendFields
    <3> QED
      BY <2>2, <3>1, Names DEF CoinsOf
  <2>5. PICK after : after = (coins \ {tx.cov})
                               \cup ImageOf(Mint(tx.outs, n, clock), IndicesOf(tx.outs, Cell))
    OBVIOUS
  <2>6. CoinsOf(Cell)' = after
    <3>1. CoinsOf(Cell)' = (coins \ {tx.cov, tx.fee}) \cup ImageOf(m, IndicesOf(tx.outs, Cell))
      BY <1>5, <2>2, Zenon
    <3>2. coins \ {tx.cov, tx.fee} = coins \ {tx.cov}
      BY <2>4
    <3> QED
      BY <1>4, <2>5, <3>1, <3>2, Zenon
  <2>7. CellIs(coins, spent, swept, clock)
    BY <2>1, <2>2, Zenon
  <2>8. n \in Nat
    BY <1>2, <1>3
  <2>9. CellIs(after, Append(spent, tx), swept + Left(tx), clock)
    BY <1>2, <2>3, <2>5, <2>7, <2>8, CellAfter
  <2>10. clock' = clock /\ spent' = Append(spent, tx) /\ swept' = swept + Left(tx)
    BY <1>1, <1>12
  <2> QED
    BY <2>6, <2>9, <2>10, Zenon DEF CellOK
<1>14. RestOK'
  BY <1>1, <1>2, <1>12 DEF IInv, RestOK
<1>15. BooksBalance'
  <2>1. ASSUME NEW p \in Parties
        PROVE  Worth(CoinsOf(p)')
                 = PaidTo(Wallets, p)
                   + SumFunction([i \in DOMAIN spent' |-> Due(spent'[i], p)])
    <3>1. PICK coins : coins = CoinsOf(p)
      OBVIOUS
    <3>2. PICK after : after = Emptied(coins, tx, m, p)
      OBVIOUS
    <3>3. CoinsOf(p)' = after
      BY <1>5, <3>1, <3>2, Zenon DEF Emptied
    <3>4. coins \subseteq utxos /\ coins \subseteq Coin /\ \A u \in coins : u.owner = p
      BY <1>6, <3>1 DEF CoinsOf
    <3>5. IsFiniteSet(coins)
      BY <1>6, <3>4, FS_Subset
    <3>6. p = tx.fee.owner => tx.fee \in coins
      BY <1>2, <3>1 DEF CoinsOf
    <3>7. \A i \in DOMAIN tx.outs :
              m[i] \in Coin /\ m[i].value = tx.outs[i].value /\ m[i] \notin coins
      BY <1>5, <3>4
    <3>8. \A i, j \in DOMAIN tx.outs : m[i] = m[j] => i = j
      BY <1>5
    <3>9. Worth(after) = Worth(coins) + Due(tx, p)
      <4>1. Purse(coins, p, tx.fee)
        BY <3>4, <3>5, <3>6 DEF Purse
      <4>2. Brings(m, tx.outs, coins)
        BY <3>7, <3>8, Zenon DEF Brings
      <4>3. Worth(Emptied(coins, tx, m, p)) = Worth(coins) + Due(tx, p)
        BY <1>2, <4>1, <4>2, WorthAfter
      <4> QED
        BY <3>2, <4>3, Zenon
    <3>10. PICK books : books = SeqSum([i \in DOMAIN spent |-> Due(spent[i], p)])
      OBVIOUS
    <3>11. PICK longer :
               longer = SeqSum([i \in DOMAIN Append(spent, tx) |-> Due(Append(spent, tx)[i], p)])
      OBVIOUS
    <3>12. books \in Int /\ longer = books + Due(tx, p)
      BY <1>2, <3>10, <3>11, BooksAppend DEF IInv
    <3>13. Worth(coins) = PaidTo(Wallets, p) + books
      BY <3>1, <3>10, BooksAreSums DEF IInv, BooksBalance
    <3>14. SumFunction([i \in DOMAIN spent' |-> Due(spent'[i], p)]) = longer
      <4>1. spent' = Append(spent, tx)
        BY <1>1
      <4>2. SumFunction([i \in DOMAIN Append(spent, tx) |-> Due(Append(spent, tx)[i], p)])
              = longer
        BY <3>11, BooksAreSums
      <4> QED
        BY <4>1, <4>2, Zenon
    <3>15. PaidTo(Wallets, p) \in Int /\ Due(tx, p) \in Int
      BY <1>2, FundsOK, PaidToIsSum, SpendPays
    <3>16. Worth(after) = PaidTo(Wallets, p) + longer
      BY <3>9, <3>12, <3>13, <3>15
    <3> QED
      BY <3>3, <3>14, <3>16, Zenon
  <2> QED
    BY <2>1, Zenon DEF BooksBalance
<1> QED
  BY <1>8, <1>9, <1>10, <1>11, <1>13, <1>14, <1>15 DEF IInv
-----------------------------------------------------------------------------
(* The theorems. *)

(* Each step of the parties, the keeper, the claimer and the node preserves *)
(* the invariant.                                                           *)
LEMMA NextInductive == IInv /\ [Next]_vars => IInv'
<1> SUFFICES ASSUME IInv, [Next]_vars PROVE IInv'
  OBVIOUS
<1>1. CASE Confirm
  BY <1>1, ConfirmStep
<1>2. CASE Tick
  BY <1>2, TickStep
<1>3. CASE \E q \in Requests : Request(q) \/ Submit(q) \/ Send(q)
  BY <1>3, RequestStep, SubmitStep, SendStep
<1>4. CASE \E c \in Escrows : KeeperGather(c)
  BY <1>4, KeeperGatherStep
<1>5. CASE KeeperSend
  BY <1>5, KeeperSendStep
<1>6. CASE Claim \/ Withdraw
  BY <1>6, CellStep
<1>7. CASE SendCellSpend
  BY <1>7, SendCellStep
<1>8. CASE UNCHANGED vars
  <2>1. /\ UNCHANGED << utxos, pool, clock, intent, spent, swept >> /\ job' = job
    BY <1>8 DEF vars
  <2>2. JobsOK'
    BY <2>1 DEF IInv, JobsOK
  <2>3. Mempool(pool', utxos, clock)
    BY <2>1, Unmoved, Zenon
  <2>4. intent' \in [Escrows -> {"funded", "settling", "settled"}]
    BY <2>1, Unmoved
  <2> QED
    BY <2>1, <2>2, <2>3, <2>4, Quiet
<1> QED
  BY <1>1, <1>2, <1>3, <1>4, <1>5, <1>6, <1>7, <1>8 DEF Next

(* The inductive invariant: spends are what the builders assemble, of coins *)
(* that exist; the cell is one coin; the books balance.                     *)
THEOREM Invariance == Spec => []IInv
<1>1. Init => IInv
  BY InitInductive
<1>2. IInv /\ [Next]_vars => IInv'
  BY NextInductive
<1> QED
  BY <1>1, <1>2, PTL DEF Spec

(* The types, and that whatever the mempool holds spends coins that exist:  *)
(* submitTransaction refuses the rest, and blocks take one spend of a coin. *)
THEOREM TypeCorrect == Spec => []TypeOK
<1>1. ASSUME IInv PROVE TypeOK
  <2>1. ASSUME NEW u \in utxos
        PROVE  /\ u.owner \in Parties \cup Escrows \cup {Cell}
               /\ u.value \in Nat \ {0}
               /\ u.born \in 0 .. clock
    <3>1. u \in Coin /\ u.born <= clock /\ clock \in Nat
      BY <1>1, Unmoved DEF CoinsOK
    <3> QED
      BY <3>1 DEF Coin
  <2>2. \A tx \in pool : {tx.cov, tx.fee} \subseteq utxos
    BY <1>1 DEF IInv, PoolOK, Mempool
  <2>3. ASSUME NEW w \in Workers PROVE job[w].phase \in {"idle", "signing", "sending"}
    <3>1. JobOK(job[w], w, clock)
      BY <1>1 DEF IInv, JobsOK
    <3> QED
      BY <3>1 DEF JobOK, Signing, Sending, Capturing, Claiming, Idle
  <2> QED
    BY <1>1, <2>1, <2>2, <2>3 DEF TypeOK, IInv, RestOK
<1> QED
  BY <1>1, Invariance, PTL

(* What the settlement requests, the keeper and the claimer are about to    *)
(* broadcast is refused for one of its causes only: a coin another spend    *)
(* took, a draft signed for other coins, signatures the contract does not   *)
(* count, a period that is not over, a part of a split that is too small.   *)
THEOREM RefusalsHaveCause == Spec => []RefusedForCause
<1>1. ASSUME IInv, NEW w \in Workers, job[w].phase = "sending"
      PROVE  IF w \in Requests
             THEN Verdict(job[w].tx, job[w].signed, job[w].arbiters)
                     \in Causes(job[w].tx, job[w].arbiters, job[w].moved)
             ELSE Verdict(job[w].tx, job[w].tx, 0) \in Causes(job[w].tx, 0, FALSE)
  <2>1. clock \in Nat /\ JobOK(job[w], w, clock) /\ job[w] # Idle
    BY <1>1, Unmoved DEF JobsOK, Idle
  <2>2. PICK j : j = job[w]
    OBVIOUS
  <2>3. CASE w \in Requests
    <3>1. Sending(j, clock)
      BY <1>1, <2>1, <2>2, <2>3, Names DEF JobOK, Signing
    <3>2. /\ SpendOK(j.tx) /\ j.tx.cov.born <= clock
          /\ j.moved \in BOOLEAN /\ (~ j.moved => j.tx = j.signed)
          /\ j.arbiters \in Nat
          /\ j.tx.entry \in {"release_arbitrated", "refund_by_arbiter"} =>
                 j.arbiters >= Threshold
          /\ j.tx.entry # "release_captured"
      BY <3>1 DEF Sending
    <3>3. Verdict(j.tx, j.signed, j.arbiters) \in Causes(j.tx, j.arbiters, j.moved)
      BY <2>1, <3>2, VerdictHasCause
    <3> QED
      BY <2>2, <2>3, <3>3, Zenon
  <2>4. CASE w \notin Requests
    <3>1. Capturing(j, clock) \/ Claiming(j, clock)
      BY <2>1, <2>2, <2>4 DEF JobOK
    <3>2. /\ SpendOK(j.tx) /\ j.tx.cov.born <= clock
          /\ j.tx.entry \notin {"release_arbitrated", "refund_by_arbiter"}
          /\ j.tx.entry = "release_captured" => CaptureTime < MedianTime
      BY <3>1 DEF Capturing, Claiming, MedianTime
    <3>3. FALSE \in BOOLEAN /\ (~ FALSE => j.tx = j.tx) /\ 0 \in Nat
          /\ (j.tx.entry \in {"release_arbitrated", "refund_by_arbiter"} =>
                  0 >= Threshold)
      BY <3>2
    <3>4. Verdict(j.tx, j.tx, 0) \in Causes(j.tx, 0, FALSE)
      BY <2>1, <3>2, <3>3, VerdictHasCause
    <3> QED
      BY <2>2, <2>4, <3>4, Zenon
  <2> QED
    BY <2>3, <2>4
<1>2. IInv => RefusedForCause
  BY <1>1, Zenon DEF RefusedForCause
<1> QED
  BY <1>2, Invariance, PTL

(* Whatever the builders of kasway-covenant assemble and however blocks     *)
(* order it, every party holds what it started with and what the            *)
(* settlements and claims promise it, less one miner fee for each spend     *)
(* whose gas was its to pay.                                                *)
THEOREM BooksAreBalanced == Spec => []BooksBalance
<1>1. IInv => BooksBalance
  BY DEF IInv
<1> QED
  BY <1>1, Invariance, PTL

(* subscription_v1.sil: a cell loses one claim per elapsed period and       *)
(* nothing else, and leaves the miner less than the sweep threshold.        *)
THEOREM CellPays == Spec => []CellPaysOnlyClaims
<1>1. ASSUME IInv PROVE CellPaysOnlyClaims
  <2>1. PICK coins : coins = CoinsOf(Cell)
    OBVIOUS
  <2>2. PICK C : C = Claims(spent)
    OBVIOUS
  <2>3. Cardinality({i \in DOMAIN spent : spent[i].entry = "claim"}) = C
    BY <2>2, Zenon DEF Claims, ClaimsOf
  <2>4. CellIs(coins, spent, swept, clock)
    BY <1>1, <2>1, Zenon DEF IInv, CellOK
  <2>5. /\ C * PeriodDaa <= clock
        /\ \A u, v \in coins : u = v
        /\ \A u \in coins : /\ u.value + C * ClaimTotal = CellValue
                            /\ swept = 0
        /\ coins = {} => Withdrawn(spent) \/ swept + C * ClaimTotal = CellValue
        /\ swept > 0 => swept < SweepThreshold
    BY <2>2, <2>4 DEF CellIs
  <2>6. /\ C \in Nat /\ swept \in Nat /\ coins \subseteq Coin
        /\ ClaimTotal \in Nat /\ CellValue \in Nat
    <3>1. CellPayouts \in Seq(Paid)
      BY OutputsAssumption, OutputIsPaid
    <3>2. ClaimTotal \in Nat
      BY <3>1, TotalIsSum DEF ClaimTotal
    <3>3. C \in Nat
      BY <1>1, <2>2, Unmoved, ClaimsNat DEF SpentOK
    <3>4. coins \subseteq Coin
      BY <1>1, <2>1, Unmoved
    <3> QED
      BY <1>1, <3>2, <3>3, <3>4, Constants DEF IInv, RestOK
  <2>7. Withdrawn(spent) \/ Worth(coins) + swept = CellValue - C * ClaimTotal
    <3>1. C * ClaimTotal \in Nat
      BY <2>6
    <3>2. CASE coins = {}
      <4>1. Worth(coins) = 0
        BY <3>2, WorthSmall, Zenon
      <4> QED
        BY <2>5, <2>6, <3>1, <3>2, <4>1
    <3>3. CASE coins # {}
      <4>1. PICK u \in coins : TRUE
        BY <3>3
      <4>2. coins = {u} /\ u \in Coin
        BY <2>5, <2>6, <4>1
      <4>3. Worth({u}) = u.value
        BY <4>2, WorthSmall
      <4>4. Worth(coins) = u.value
        BY <4>2, <4>3, Zenon
      <4>5. u.value \in Nat
        BY <4>2 DEF Coin
      <4> QED
        BY <2>5, <2>6, <3>1, <4>4, <4>5
    <3> QED
      BY <3>2, <3>3
  <2>8. swept > 0 => swept < SweepThreshold /\ coins = {}
    BY <2>5
  <2>9. /\ Cardinality({i \in DOMAIN spent : spent[i].entry = "claim"}) * PeriodDaa <= clock
        /\ \/ \E i \in DOMAIN spent : spent[i].entry = "withdraw"
           \/ Worth(coins) + swept
                = CellValue - Cardinality({i \in DOMAIN spent : spent[i].entry = "claim"})
                                * ClaimTotal
    BY <2>3, <2>5, <2>7, Zenon DEF Withdrawn
  <2> QED
    BY <2>1, <2>8, <2>9, Zenon DEF CellPaysOnlyClaims
<1> QED
  BY <1>1, Invariance, PTL
=============================================================================
