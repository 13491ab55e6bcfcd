------------------------- MODULE MerchantSetupProofs -------------------------
(***************************************************************************)
(* The three invariants of MerchantSetup, for any number of requests,      *)
(* stores, configurations and amounts. The argument has two halves. What a *)
(* request holds was valid when it was read and is of a store that is      *)
(* still there (Holding), however stale it may be by now, so whatever it   *)
(* writes is in order. And the plan of an invoice pays out its amount by   *)
(* the arithmetic of kpr1.rs: the shares are rounded down, the main output *)
(* takes what they leave, and a plan that leaves it nothing is refused.    *)
(***************************************************************************)
EXTENDS MerchantSetup, SumLemmas, FiniteSetTheorems, TLAPS

-----------------------------------------------------------------------------
(* The arithmetic of kpr1.rs. *)

(* What the assumptions say of the numbers. *)
LEMMA Constants ==
    /\ MaxBps \in Nat /\ MaxBps > 0
    /\ PlatformBps \in Nat /\ PlatformBps <= MaxBps
    /\ PlatformFlat \in Nat /\ MinInvoice \in Nat
BY FeeAssumption, AmountsAssumption

(* What \div gives: the quotient that leaves less than the divisor. *)
LEMMA Division ==
    ASSUME NEW a \in Int, NEW m \in Nat, m > 0
    PROVE  /\ a \div m \in Int
           /\ m * (a \div m) <= a
           /\ a < m * (a \div m) + m
OBVIOUS

(* A product is no larger than another only if its factor is. *)
LEMMA Cancel ==
    ASSUME NEW m \in Nat, m > 0, NEW a \in Int, NEW b \in Int, m * b <= m * a
    PROVE  b <= a
OBVIOUS

(* The fee on an amount is no more than the amount, and grows from nothing. *)
LEMMA FeeBounds ==
    ASSUME NEW gross \in Nat, NEW bps \in Nat
    PROVE  /\ bps_amount(gross, bps) \in Nat
           /\ MaxBps * bps_amount(gross, bps) <= gross * bps
<1> DEFINE p == gross * bps
           q == p \div MaxBps
<1>1. p \in Nat
  OBVIOUS
<1>2. q \in Int /\ MaxBps * q <= p /\ p < MaxBps * q + MaxBps
  <2> HIDE DEF p
  <2> QED
    BY <1>1, Constants, Division
<1>3. q >= 0
  <2> HIDE DEF q, p
  <2>1. ASSUME q < 0 PROVE FALSE
    <3>1. q <= -1
      BY <1>2, <2>1
    <3>2. MaxBps * q <= MaxBps * (-1)
      BY <1>2, <3>1, Constants
    <3> QED
      BY <1>1, <1>2, <3>2, Constants
  <2> QED
    BY <1>2, <2>1
<1> QED
  BY <1>2, <1>3 DEF bps_amount

(* Min of a nonempty set of naturals is its least element. *)
LEMMA LeastOf ==
    ASSUME NEW S, S \subseteq Nat, S # {}
    PROVE  Min(S) \in S /\ \A n \in S : Min(S) <= n
BY LeastNatural DEF Min

\* What enough of customer_paid_amounts asks of a total.
Enough(total, target) == total - bps_amount(total, PlatformBps) >= target

(* From the rounded-up guess on, every total is enough: the first loop of   *)
(* customer_paid_amounts never turns.                                       *)
LEMMA GuessSuffices ==
    ASSUME PlatformBps < MaxBps, NEW target \in Nat, NEW guess,
           guess = (target * MaxBps + (MaxBps - PlatformBps) - 1) \div (MaxBps - PlatformBps)
    PROVE  /\ guess \in Nat /\ guess >= target
           /\ \A t \in Nat : t >= guess => Enough(t, target)
<1> DEFINE d == MaxBps - PlatformBps
           p == target * MaxBps
<1>1. d \in Nat /\ d > 0 /\ d <= MaxBps /\ p \in Nat
  BY Constants
<1>2. guess \in Int /\ p + d - 1 < d * guess + d
  <2> HIDE DEF p
  <2>1. p + d - 1 \in Int /\ guess = (p + d - 1) \div d
    BY <1>1 DEF p
  <2> HIDE DEF d
  <2> QED
    BY <1>1, <2>1, Division
<1>3. d * guess >= p
  <2> HIDE DEF p, d
  <2>1. d * guess \in Int
    BY <1>1, <1>2
  <2> QED
    BY <1>1, <1>2, <2>1
<1>4. p >= d * target
  <2>1. p - d * target = PlatformBps * target
    BY Constants
  <2>2. PlatformBps * target >= 0
    BY Constants
  <2> QED
    BY <2>1, <2>2, Constants
<1>5. guess >= target
  <2> HIDE DEF p, d
  <2>1. d * target <= d * guess
    BY <1>1, <1>2, <1>3, <1>4
  <2> QED
    BY <1>1, <1>2, <2>1, Cancel
<1>6. guess \in Nat
  BY <1>2, <1>5
<1>7. ASSUME NEW t \in Nat, t >= guess PROVE Enough(t, target)
  <2> DEFINE q == bps_amount(t, PlatformBps)
  <2>1. q \in Nat /\ MaxBps * q <= t * PlatformBps
    BY Constants, FeeBounds
  <2> HIDE DEF q
  <2>2. d * t >= d * guess
    <3> HIDE DEF d
    <3>1. t - guess \in Nat
      BY <1>6, <1>7
    <3>2. d * (t - guess) \in Nat
      BY <1>1, <3>1
    <3>3. d * t = d * guess + d * (t - guess)
      BY <1>1, <1>6
    <3> QED
      BY <1>1, <1>6, <3>2, <3>3
  <2>3. MaxBps * (t - q) >= d * t
    BY <2>1, Constants
  <2>4. MaxBps * target <= MaxBps * (t - q)
    <3>1. MaxBps * target = p
      BY Constants
    <3> HIDE DEF d, p
    <3>2. d * t \in Int /\ d * guess \in Int /\ MaxBps * (t - q) \in Int
      BY <1>1, <1>6, <2>1, Constants
    <3> QED
      BY <1>1, <1>3, <2>2, <2>3, <3>1, <3>2
  <2>5. target <= t - q
    BY <2>1, <2>4, Constants, Cancel
  <2> QED
    BY <2>1, <2>5 DEF Enough, q
<1> QED
  BY <1>5, <1>6, <1>7

(* What a payer who bears the fee is asked for leaves the merchant's side   *)
(* what was requested, and one sompi less would not.                        *)
THEOREM GrossUp ==
    ASSUME PlatformBps < MaxBps, NEW requested \in Nat
    PROVE  LET total == customer_paid_amounts(requested)
               left(t) == t - platform_fee_total(t)
           IN  /\ total \in Nat /\ total >= requested + PlatformFlat
               /\ left(total) >= requested
               /\ total > 0 => left(total - 1) < requested
<1> DEFINE target == requested + PlatformFlat
           denominator == MaxBps - PlatformBps
           guess == (target * MaxBps + denominator - 1) \div denominator
           ups == {t \in guess .. guess + MaxBps : Enough(t, target)}
           raised == Min(ups)
           downs == {t \in target .. raised : \A u \in t .. raised : Enough(u, target)}
           total == Min(downs)
<1>1. target \in Nat
  BY Constants
<1>2. /\ guess \in Nat /\ guess >= target
      /\ \A t \in Nat : t >= guess => Enough(t, target)
  <2> HIDE DEF target
  <2> QED
    BY <1>1, GuessSuffices
<1>3. customer_paid_amounts(requested) = total
  BY DEF customer_paid_amounts, Enough
<1>4. raised \in Nat /\ raised >= target /\ Enough(raised, target)
  <2>1. guess \in ups /\ ups \subseteq Nat
    <3> HIDE DEF guess
    <3> QED
      BY <1>2, Constants
  <2>2. raised \in ups
    <3> HIDE DEF ups
    <3> QED
      BY <2>1, LeastOf
  <2> HIDE DEF raised, guess, target
  <2> QED
    BY <1>1, <1>2, <2>2
<1> HIDE DEF guess, ups, raised
<1>5. total \in downs /\ \A n \in downs : total <= n
  <2>1. raised \in downs /\ downs \subseteq Nat
    <3> HIDE DEF target
    <3>1. \A u \in raised .. raised : u = raised
      BY <1>4
    <3> QED
      BY <1>1, <1>4, <3>1
  <2> HIDE DEF downs
  <2> QED
    BY <2>1, LeastOf
<1> HIDE DEF total
<1>6. /\ total \in Nat /\ total >= target /\ total <= raised
      /\ \A u \in total .. raised : Enough(u, target)
  <2> HIDE DEF target
  <2> QED
    BY <1>1, <1>4, <1>5
<1>7. total - platform_fee_total(total) >= requested
  <2>1. Enough(total, target)
    <3> HIDE DEF target
    <3> QED
      BY <1>1, <1>4, <1>6
  <2>2. bps_amount(total, PlatformBps) \in Nat
    BY <1>6, Constants, FeeBounds
  <2> QED
    BY <1>6, <2>1, <2>2, Constants DEF Enough, platform_fee_total
<1>8. ASSUME total > 0
      PROVE  total - 1 - platform_fee_total(total - 1) < requested
  <2>1. total - 1 \in Nat
    BY <1>6, <1>8
  <2>2. bps_amount(total - 1, PlatformBps) \in Nat
    BY <2>1, Constants, FeeBounds
  <2>3. CASE total = target
    BY <2>1, <2>2, <2>3, Constants DEF platform_fee_total
  <2>4. CASE total # target
    <3>1. ~ Enough(total - 1, target)
      <4> HIDE DEF target
      <4>1. total - 1 \in target .. raised /\ total - 1 \notin downs
        BY <1>1, <1>4, <1>5, <1>6, <2>1, <2>4
      <4>2. PICK u \in total - 1 .. raised : ~ Enough(u, target)
        BY <4>1
      <4>3. u = total - 1 \/ u \in total .. raised
        BY <1>4, <1>6
      <4> QED
        BY <1>6, <4>2, <4>3
    <3> QED
      BY <1>6, <2>1, <2>2, <3>1, Constants DEF Enough, platform_fee_total
  <2> QED
    BY <2>3, <2>4
<1> QED
  BY <1>3, <1>6, <1>7, <1>8

-----------------------------------------------------------------------------
(* The split plan. *)

(* Total, in setups.rs's terms, is the sum of the sequence. *)
LEMMA TotalIsSum ==
    ASSUME NEW seq
    PROVE  Total(seq) = SeqSum(seq)
BY DEF Total, FoldSeq, FoldFunction, FoldFunctionOnSet, MapThenFoldSet,
       SeqSum, SumOf, Sums, One

(* The platform's fee on an amount is an amount, and may be nothing. *)
LEMMA FeeIsAmount ==
    ASSUME NEW amount \in Nat
    PROVE  platform_fee_total(amount) \in Nat
<1>1. bps_amount(amount, PlatformBps) \in Nat
  BY Constants, FeeBounds
<1> QED
  BY <1>1, Constants DEF platform_fee_total

(* A function on 1..n is a sequence. *)
LEMMA FunctionIsSeq ==
    ASSUME NEW S, NEW n \in Nat, NEW f \in [1 .. n -> S]
    PROVE  f \in Seq(S)
OBVIOUS

(* A sequence of positive amounts stays one when another is appended. *)
LEMMA PositiveConcat ==
    ASSUME NEW s \in Seq(Int), NEW t \in Seq(Int),
           \A k \in DOMAIN s : s[k] > 0, \A k \in DOMAIN t : t[k] > 0
    PROVE  \A k \in DOMAIN (s \o t) : (s \o t)[k] > 0
<1> SUFFICES ASSUME NEW k \in DOMAIN (s \o t) PROVE (s \o t)[k] > 0
  OBVIOUS
<1>1. k \in 1 .. Len(s) + Len(t)
  OBVIOUS
<1>2. CASE k <= Len(s)
  BY <1>1, <1>2
<1>3. CASE k > Len(s)
  <2>1. (s \o t)[k] = t[k - Len(s)] /\ k - Len(s) \in DOMAIN t
    BY <1>1, <1>3
  <2> QED
    BY <2>1
<1> QED
  BY <1>1, <1>2, <1>3

(* A plan that is accepted pays out the amount to the sompi: the platform's *)
(* fee in its last output, and in the others what is not nothing.           *)
LEMMA PlanPaysOut ==
    ASSUME NEW row, row.tax \in Nat, row.splits \in Seq(Nat),
           NEW amount \in Nat, Accepts(row, amount)
    PROVE  LET outs == Plan(row, amount).outs
           IN  /\ amount > 0
               /\ Total(outs) = amount
               /\ Last(outs) = platform_fee_total(amount)
               /\ \A k \in DOMAIN Front(outs) : outs[k] > 0
               /\ Total(Front(outs)) = amount - platform_fee_total(amount)
<1> DEFINE fee == platform_fee_total(amount)
           tax == bps_amount(amount, row.tax)
           splits == [i \in DOMAIN row.splits |-> bps_amount(amount, row.splits[i])]
           net == amount - fee - tax - Total(splits)
           taxed == IF tax > 0 THEN << tax >> ELSE << >>
           front == << net >> \o taxed \o splits
           outs == front \o << fee >>
<1>1. Plan(row, amount).outs = outs
  BY DEF Plan
<1>2. fee \in Nat /\ tax \in Nat
  BY Constants, FeeBounds, FeeIsAmount
<1>3. splits \in Seq(Nat) /\ \A i \in DOMAIN splits : splits[i] > 0
  <2>1. \A i \in DOMAIN row.splits : bps_amount(amount, row.splits[i]) \in Nat
    <3>1. \A i \in DOMAIN row.splits : row.splits[i] \in Nat
      OBVIOUS
    <3> QED
      BY <3>1, FeeBounds
  <2>2. \A i \in DOMAIN row.splits : bps_amount(amount, row.splits[i]) > 0
    BY DEF Accepts
  <2>3. DOMAIN row.splits = 1 .. Len(row.splits) /\ Len(row.splits) \in Nat
    OBVIOUS
  <2>4. splits \in [1 .. Len(row.splits) -> Nat]
    BY <2>1, <2>3
  <2>5. splits \in Seq(Nat)
    <3> HIDE DEF splits
    <3> QED
      BY <2>3, <2>4, FunctionIsSeq
  <2> QED
    BY <2>2, <2>3, <2>5
<1> HIDE DEF splits
<1>4. Total(splits) = SeqSum(splits) /\ SeqSum(splits) \in Int
  BY <1>3, TotalIsSum, SeqSumType
<1>5. taxed \in Seq(Nat) /\ SeqSum(taxed) = tax /\ \A i \in DOMAIN taxed : taxed[i] > 0
  BY <1>2, SeqSumSingle, SeqSumEmpty
<1> HIDE DEF taxed, fee, tax
<1>6. net \in Int /\ net > 0
  <2>1. net \in Int
    BY <1>2, <1>4
  <2>2. Head(outs) = net
    <3> HIDE DEF net
    <3> QED
      BY <1>2, <1>3, <1>5, <2>1
  <2> QED
    BY <1>1, <2>1, <2>2 DEF Accepts
<1>7. net + tax + SeqSum(splits) + fee = amount
  BY <1>2, <1>4
<1> HIDE DEF net
<1>8. front \in Seq(Int) /\ SeqSum(front) = net + tax + SeqSum(splits)
  <2>1. /\ << net >> \in Seq(Int) /\ SeqSum(<< net >>) = net
        /\ taxed \in Seq(Int) /\ splits \in Seq(Int)
    BY <1>3, <1>5, <1>6, SeqSumSingle
  <2>2. << net >> \o taxed \in Seq(Int) /\ SeqSum(<< net >> \o taxed) = net + tax
    BY <1>5, <2>1, SeqSumConcat
  <2>3. front \in Seq(Int)
        /\ SeqSum(front) = SeqSum(<< net >> \o taxed) + SeqSum(splits)
    BY <2>1, <2>2, SeqSumConcat
  <2> QED
    BY <2>2, <2>3
<1>9. \A k \in DOMAIN front : front[k] > 0
  <2>1. /\ << net >> \in Seq(Int) /\ taxed \in Seq(Int) /\ splits \in Seq(Int)
        /\ \A k \in DOMAIN << net >> : << net >>[k] > 0
    BY <1>3, <1>5, <1>6
  <2>2. << net >> \o taxed \in Seq(Int)
    BY <2>1
  <2>3. \A k \in DOMAIN (<< net >> \o taxed) : (<< net >> \o taxed)[k] > 0
    BY <1>5, <2>1, PositiveConcat
  <2> QED
    BY <1>3, <2>1, <2>2, <2>3, PositiveConcat
<1> HIDE DEF front
<1>10. SeqSum(outs) = amount
  <2>1. << fee >> \in Seq(Int) /\ SeqSum(<< fee >>) = fee
    BY <1>2, SeqSumSingle
  <2> QED
    BY <1>7, <1>8, <2>1, SeqSumConcat
<1>11. /\ outs \in Seq(Int) /\ Len(outs) = Len(front) + 1
       /\ outs[Len(front) + 1] = fee
       /\ \A k \in 1 .. Len(front) : outs[k] = front[k]
  BY <1>2, <1>8
<1>12. Front(outs) = front
  <2>1. outs \in Seq(Int) /\ Len(outs) = Len(front) + 1
    BY <1>11
  <2>2. \A k \in 1 .. Len(front) : outs[k] = front[k]
    BY <1>11
  <2>3. Front(outs) = SubSeq(outs, 1, Len(front))
    BY <1>8, <2>1 DEF Front
  <2> HIDE DEF outs
  <2>4. Len(SubSeq(outs, 1, Len(front))) = Len(front)
    BY <1>8, <2>1
  <2>5. \A k \in 1 .. Len(front) : SubSeq(outs, 1, Len(front))[k] = front[k]
    BY <1>8, <2>1, <2>2
  <2>6. SubSeq(outs, 1, Len(front)) \in Seq(Int)
    BY <1>8, <2>1
  <2> QED
    BY <1>8, <2>3, <2>4, <2>5, <2>6
<1>13. SeqSum(front) = amount - fee
  <2>1. SeqSum(front) = net + tax + SeqSum(splits)
    BY <1>8
  <2>2. SeqSum(splits) \in Int
    BY <1>4
  <2> QED
    BY <1>2, <1>6, <1>7, <2>1, <2>2
<1>14. Last(outs) = fee
  BY <1>8, <1>11 DEF Last
<1>15. \A k \in DOMAIN Front(outs) : outs[k] > 0
  BY <1>8, <1>9, <1>11, <1>12
<1>16. amount > 0
  <2>1. SeqSum(splits) \in Nat
    <3>1. IsFiniteSet(DOMAIN splits)
      <4>1. DOMAIN splits = 1 .. Len(splits) /\ Len(splits) \in Nat
        BY <1>3
      <4> QED
        BY <4>1, FS_Interval
    <3>2. \A i \in DOMAIN splits : splits[i] \in Nat
      BY <1>3
    <3> QED
      BY <3>1, <3>2, SumOfNaturals DEF SeqSum
  <2> QED
    BY <1>2, <1>4, <1>6, <1>7, <2>1
<1> QED
  BY <1>1, <1>10, <1>12, <1>13, <1>14, <1>15, <1>16, TotalIsSum DEF fee

-----------------------------------------------------------------------------
(* The inductive invariant.                                                *)

\* A row of setups, or one in a request's memory.
RowOK(row) ==
    /\ row = [id |-> row.id, store |-> row.store, main |-> row.main,
              tax |-> row.tax, splits |-> row.splits]
    /\ row.tax \in 0 .. MaxBps - PlatformBps
    /\ row.splits \in Seq(Nat) /\ Len(row.splits) <= 5
    /\ Total(row.splits) <= MaxBps

IdsOf(rows) == {r.id : r \in rows}

RowsOK(rows, existing) ==
    /\ IsFiniteSet(rows)
    /\ \A r \in rows :
           /\ RowOK(r) /\ r.store \in existing \cup {NoStore}
           /\ r.id \in 1 .. Cardinality(rows)
    /\ \A r, t \in rows : r.id = t.id => r = t

SetupsOK == RowsOK(setups, Existing)

Store == [exists : BOOLEAN, default : BOOLEAN, mints : BOOLEAN]

\* The included store is there before any other, and only a store that is
\* there is the default.  Between the two statements of a switch there may be
\* no default; there are never two.
StoresOK ==
    /\ stores \in [Stores -> Store]
    /\ Existing # {} => Included \in Existing
    /\ Defaults \subseteq Existing
    /\ \A s, t \in Defaults : s = t

SwitchOK ==
    (Existing # {} /\ Defaults = {}) => (torn \/ \E q \in Requests : op[q].at = "set")

LinkOK ==
    /\ link = [status |-> link.status, store |-> link.store]
    /\ link.status \in {"none", "active", "disabled"}
    /\ link.status # "none" => link.store \in Existing

\* PlansSettle, of one invoice with a plan.
Settles(inv) ==
    LET outs == inv.plan.outs
        left(total) == total - platform_fee_total(total)
    IN  /\ Total(outs) = inv.total
        /\ Last(outs) = platform_fee_total(inv.total)
        /\ \A k \in DOMAIN Front(outs) : outs[k] > 0
        /\ inv.pays = "customer_pays" =>
               /\ Total(Front(outs)) >= inv.asked
               /\ left(inv.total - 1) < inv.asked

\* What was asked and what the payer is asked for stay related as they were
\* when the invoice was inserted.
InvoiceOK(inv) ==
    /\ inv = [store |-> inv.store, asked |-> inv.asked, pays |-> inv.pays,
              total |-> inv.total, plan |-> inv.plan]
    /\ inv.asked \in Nat /\ inv.total \in Nat
    /\ inv.pays = "customer_pays" =>
           PlatformBps < MaxBps /\ inv.total = customer_paid_amounts(inv.asked)
    /\ inv.plan # NoPlan => Settles(inv)

IsSeq(s) == s \in Seq({s[i] : i \in DOMAIN s})

InvoicesOK ==
    /\ IsSeq(invoices)
    /\ \A i \in DOMAIN invoices : InvoiceOK(invoices[i])

\* What a request asks for.
WantOK(want, existing) ==
    /\ want.do \in {"save", "merge", "copy", "default", "create", "link_create",
                    "link_active", "link_disabled", "mint", "checkout"}
    /\ want.do = "save" => want.cfg \in Configs
    /\ want.do = "merge" => want.cfg \in Patches
    /\ want.do = "copy" => want.source \in existing
    /\ want.do \in {"mint", "checkout"} => want.asked \in Nat

Asking(o, existing) ==
    /\ o.at \in {"resolve", "ensure"}
    /\ o = [at |-> o.at, store |-> o.store, want |-> o.want]
    /\ o.store \in existing \cup {NoStore}
    /\ o.store = NoStore => o.want.do \notin {"copy", "default"}
    /\ WantOK(o.want, existing)

\* A request that has its store: what it has read of setups was valid, came
\* from a row that is still there, and a body was validated on the way.
Holding(o, existing) ==
    /\ o.at \in {"find", "adopt", "write", "insert", "set", "default", "create",
                 "link_create", "link_active", "link_disabled"}
    /\ o = [at |-> o.at, store |-> o.store, default |-> o.default, want |-> o.want,
            of |-> o.of, row |-> o.row, source |-> o.source]
    /\ o.store \in existing
    /\ WantOK(o.want, existing)
    /\ o.at \in {"find", "adopt", "write"} => o.want.do \in {"save", "merge", "copy"}
    /\ o.at = "insert" => o.want.do \in {"mint", "checkout"}
    /\ o.want.do = "save" => Valid(o.want.cfg)
    /\ o.of \in {"source", "target"}
    /\ o.of = "source" => o.want.do = "copy"
    /\ RowOK(o.row) /\ RowOK(o.source)

Working(o, existing, ids) ==
    /\ Holding(o, existing)
    /\ o.at = "write" => o.row.id \in ids \cup {0}
    /\ o.at = "adopt" => o.row.id \in ids

Planning(o, minted) == o.at = "plan" /\ o.id \in minted

OpOK(o, existing, ids, minted) ==
    \/ o = Idle
    \/ Asking(o, existing)
    \/ Working(o, existing, ids)
    \/ Planning(o, minted)

OpsOK ==
    /\ op = [q \in Requests |-> op[q]]
    /\ \A q \in Requests : OpOK(op[q], Existing, IdsOf(setups), DOMAIN invoices)

IInv == StoresOK /\ SwitchOK /\ SetupsOK /\ LinkOK /\ InvoicesOK /\ OpsOK

-----------------------------------------------------------------------------
(* Rows. *)

Fields(i, s, m, t, l) == [id |-> i, store |-> s, main |-> m, tax |-> t, splits |-> l]

Updated(row, a, b, c) == [row EXCEPT !.main = a, !.tax = b, !.splits = c]

(* Overwriting the content of a row leaves its store and its number. *)
LEMMA RowUpdate ==
    ASSUME NEW row, RowOK(row), NEW a, NEW b, NEW c
    PROVE  Updated(row, a, b, c) = Fields(row.id, row.store, a, b, c)
<1> DEFINE one == [row EXCEPT !.main = a]
           two == [one EXCEPT !.tax = b]
           three == [two EXCEPT !.splits = c]
<1>1. row = Fields(row.id, row.store, row.main, row.tax, row.splits)
  BY DEF RowOK, Fields
<1>2. one = Fields(row.id, row.store, a, row.tax, row.splits)
  BY <1>1 DEF Fields
<1> HIDE DEF one
<1>3. two = Fields(row.id, row.store, a, b, row.splits)
  BY <1>2 DEF Fields
<1> HIDE DEF two
<1>4. three = Fields(row.id, row.store, a, b, c)
  BY <1>3 DEF Fields
<1> QED
  BY <1>4 DEF one, two, three, Updated

Stored(row, s) == [row EXCEPT !.store = s]
Numbered(row, i, s) == [row EXCEPT !.id = i, !.store = s]

(* A row given to another store, or numbered anew, is still in order. *)
LEMMA RowMoved ==
    ASSUME NEW row, RowOK(row), NEW i, NEW s
    PROVE  /\ RowOK(Stored(row, s))
           /\ Stored(row, s).id = row.id
           /\ Stored(row, s).store = s
           /\ RowOK(Numbered(row, i, s))
           /\ Numbered(row, i, s).id = i
           /\ Numbered(row, i, s).store = s
<1> DEFINE one == [row EXCEPT !.id = i]
           two == [one EXCEPT !.store = s]
           moved == [row EXCEPT !.store = s]
<1>1. row = Fields(row.id, row.store, row.main, row.tax, row.splits)
  BY DEF RowOK, Fields
<1>2. one = Fields(i, row.store, row.main, row.tax, row.splits)
  BY <1>1 DEF Fields
<1>3. moved = Fields(row.id, s, row.main, row.tax, row.splits)
  BY <1>1 DEF Fields
<1> HIDE DEF one, moved
<1>4. two = Fields(i, s, row.main, row.tax, row.splits)
  BY <1>2 DEF Fields
<1> HIDE DEF two
<1>5. \A x, y : RowOK(Fields(x, y, row.main, row.tax, row.splits))
  BY DEF RowOK, Fields
<1>6. \A x, y : /\ Fields(x, y, row.main, row.tax, row.splits).id = x
                /\ Fields(x, y, row.main, row.tax, row.splits).store = y
  BY DEF Fields
<1>7. /\ RowOK(moved) /\ moved.id = row.id /\ moved.store = s
      /\ RowOK(two) /\ two.id = i /\ two.store = s
  BY <1>3, <1>4, <1>5, <1>6
<1> QED
  BY <1>7 DEF one, two, moved, Stored, Numbered

(* The row that stands for "none found" is in order, and has no number. *)
LEMMA NoRowOK == RowOK(NoRow) /\ NoRow.id = 0
<1>1. Total(<< >>) = 0
  BY TotalIsSum, SeqSumEmpty
<1> QED
  BY <1>1, Constants DEF RowOK, NoRow

(* What validate_tax and normalize_splits accept is within the bounds. *)
LEMMA ValidIsOK ==
    ASSUME NEW row, Valid(row)
    PROVE  /\ row.tax \in 0 .. MaxBps - PlatformBps
           /\ Len(row.splits) <= 5 /\ Total(row.splits) <= MaxBps
BY DEF Valid, validate_tax, normalize_splits

(* Whatever a request is about to write stays within the bounds. *)
LEMMA ContentOK ==
    ASSUME NEW o, NEW existing, Holding(o, existing),
           o.want.do \in {"save", "merge", "copy"},
           NEW row, RowOK(row), o.want.do = "merge" => Valid(Content(o, row))
    PROVE  RowOK(Content(o, row)) /\ Content(o, row).id = row.id
<1>1. CASE o.want.do = "save"
  <2> DEFINE c == o.want.cfg
  <2>1. Content(o, row) = Fields(row.id, row.store, c.main, c.tax, c.splits)
    <3>1. Content(o, row) = Updated(row, c.main, c.tax, c.splits)
      BY <1>1 DEF Content, Updated
    <3> QED
      BY <3>1, RowUpdate
  <2>2. c \in Configs /\ Valid(c)
    BY <1>1 DEF Holding, WantOK
  <2>3. c.splits \in Seq(Nat)
    BY <2>2, ConfigsAssumption
  <2> QED
    BY <2>1, <2>2, <2>3, ValidIsOK DEF RowOK, Fields
<1>2. CASE o.want.do = "merge"
  <2> DEFINE p == o.want.cfg
             t == IF p.tax = Keep THEN row.tax ELSE p.tax
             l == IF p.splits = Keep THEN row.splits ELSE p.splits
  <2>1. Content(o, row) = Fields(row.id, row.store, p.main, t, l)
    <3>1. Content(o, row) = Updated(row, p.main, t, l)
      BY <1>2 DEF Content, Updated
    <3> HIDE DEF t, l
    <3> QED
      BY <3>1, RowUpdate
  <2>2. l \in Seq(Nat)
    <3>1. p \in Patches
      BY <1>2 DEF Holding, WantOK
    <3> QED
      BY <3>1, ConfigsAssumption DEF RowOK
  <2>3. Valid(Content(o, row))
    BY <1>2
  <2> HIDE DEF t, l
  <2> QED
    BY <2>1, <2>2, <2>3, ValidIsOK DEF RowOK, Fields
<1>3. CASE o.want.do = "copy"
  <2> DEFINE w == o.want.sections
             m == IF "payout" \in w THEN o.source.main ELSE row.main
             t == IF "tax" \in w THEN o.source.tax ELSE row.tax
             l == IF "split" \in w THEN o.source.splits ELSE row.splits
  <2>1. Content(o, row) = Fields(row.id, row.store, m, t, l)
    <3>1. Content(o, row) = Updated(row, m, t, l)
      BY <1>3 DEF Content, apply_sections, Updated
    <3> HIDE DEF m, t, l
    <3> QED
      BY <3>1, RowUpdate
  <2>2. RowOK(o.source)
    BY DEF Holding
  <2>3. /\ t \in 0 .. MaxBps - PlatformBps
        /\ l \in Seq(Nat) /\ Len(l) <= 5 /\ Total(l) <= MaxBps
    BY <2>2 DEF RowOK
  <2> HIDE DEF m, t, l
  <2> QED
    BY <2>1, <2>3 DEF RowOK, Fields
<1> QED
  BY <1>1, <1>2, <1>3

(* A row written under its own number leaves the rows in order. *)
LEMMA PutOK ==
    ASSUME NEW existing, RowsOK(setups, existing), NEW row, RowOK(row),
           row.store \in existing \cup {NoStore}, row.id \in IdsOf(setups)
    PROVE  RowsOK(Put(row), existing) /\ IdsOf(Put(row)) = IdsOf(setups)
<1>1. PICK r \in setups : r.id = row.id
  BY DEF IdsOf
<1> DEFINE rest == setups \ {r}
<1>2. Put(row) = rest \cup {row} /\ row \notin rest
  BY <1>1 DEF Put, RowsOK
<1>3. IsFiniteSet(setups)
  BY DEF RowsOK
<1>4. /\ IsFiniteSet(rest) /\ Cardinality(rest) = Cardinality(setups) - 1
      /\ Cardinality(setups) \in Nat
  BY <1>1, <1>3, FS_RemoveElement, FS_CardinalityType
<1> HIDE DEF rest
<1>5. IsFiniteSet(Put(row)) /\ Cardinality(Put(row)) = Cardinality(setups)
  <2>1. /\ IsFiniteSet(rest \cup {row})
        /\ Cardinality(rest \cup {row}) = Cardinality(rest) + 1
    BY <1>2, <1>4, FS_AddElement
  <2> QED
    BY <1>2, <1>4, <2>1
<1>6. ASSUME NEW x \in Put(row)
      PROVE  /\ RowOK(x) /\ x.store \in existing \cup {NoStore}
             /\ x.id \in 1 .. Cardinality(setups)
  <2>1. x = row \/ x \in setups
    BY DEF Put
  <2> QED
    BY <1>1, <2>1 DEF RowsOK
<1>7. \A x, y \in Put(row) : x.id = y.id => x = y
  BY DEF Put, RowsOK
<1>8. IdsOf(Put(row)) = IdsOf(setups)
  <2>1. ASSUME NEW i \in IdsOf(Put(row)) PROVE i \in IdsOf(setups)
    BY <1>1 DEF IdsOf, Put
  <2>2. ASSUME NEW x \in setups PROVE x.id \in IdsOf(Put(row))
    BY <1>1 DEF IdsOf, Put
  <2> QED
    BY <2>1, <2>2 DEF IdsOf
<1> QED
  BY <1>5, <1>6, <1>7, <1>8 DEF RowsOK

(* A row inserted under a new number leaves the rows in order. *)
LEMMA InsertOK ==
    ASSUME NEW existing, RowsOK(setups, existing), NEW row, RowOK(row),
           row.store \in existing \cup {NoStore}, row.id = Cardinality(setups) + 1
    PROVE  /\ RowsOK(setups \cup {row}, existing)
           /\ IdsOf(setups) \subseteq IdsOf(setups \cup {row})
<1>1. IsFiniteSet(setups) /\ Cardinality(setups) \in Nat
  BY FS_CardinalityType DEF RowsOK
<1>2. \A r \in setups : r.id # row.id
  BY <1>1 DEF RowsOK
<1>3. /\ IsFiniteSet(setups \cup {row})
      /\ Cardinality(setups \cup {row}) = Cardinality(setups) + 1
  BY <1>1, <1>2, FS_AddElement
<1>4. ASSUME NEW x \in setups \cup {row}
      PROVE  /\ RowOK(x) /\ x.store \in existing \cup {NoStore}
             /\ x.id \in 1 .. Cardinality(setups) + 1
  BY <1>1 DEF RowsOK
<1>5. \A x, y \in setups \cup {row} : x.id = y.id => x = y
  BY <1>2 DEF RowsOK
<1> QED
  BY <1>3, <1>4, <1>5 DEF RowsOK, IdsOf

-----------------------------------------------------------------------------
(* Requests. *)

(* What a request relies on is never taken away. *)
LEMMA OpGrows ==
    ASSUME NEW o, NEW existing, NEW more, NEW ids, NEW moreIds, NEW minted, NEW moreMinted,
           existing \subseteq more, ids \subseteq moreIds, minted \subseteq moreMinted,
           OpOK(o, existing, ids, minted)
    PROVE  OpOK(o, more, moreIds, moreMinted)
<1>1. ASSUME NEW want, WantOK(want, existing) PROVE WantOK(want, more)
  BY <1>1 DEF WantOK
<1>2. CASE o = Idle
  BY <1>2 DEF OpOK
<1>3. CASE Asking(o, existing)
  BY <1>1, <1>3 DEF OpOK, Asking
<1>4. CASE Working(o, existing, ids)
  BY <1>1, <1>4 DEF OpOK, Working, Holding
<1>5. CASE Planning(o, minted)
  BY <1>5 DEF OpOK, Planning
<1> QED
  BY <1>2, <1>3, <1>4, <1>5 DEF OpOK

(* A request moves on while the rest of the server stands or grows. *)
LEMMA OpsBecome ==
    ASSUME OpsOK, NEW q \in Requests, NEW next, Become(q, next),
           Existing \subseteq Existing', IdsOf(setups) \subseteq IdsOf(setups'),
           DOMAIN invoices \subseteq DOMAIN invoices',
           OpOK(next, Existing', IdsOf(setups'), DOMAIN invoices')
    PROVE  OpsOK'
<1>1. op' = [op EXCEPT ![q] = next]
  BY DEF Become
<1>2. op' = [r \in Requests |-> op'[r]] /\ op'[q] = next
  BY <1>1 DEF OpsOK
<1>3. ASSUME NEW r \in Requests
      PROVE  OpOK(op'[r], Existing', IdsOf(setups'), DOMAIN invoices')
  <2>1. CASE r = q
    BY <1>2, <2>1
  <2>2. CASE r # q
    <3>1. op'[r] = op[r] /\ OpOK(op[r], Existing, IdsOf(setups), DOMAIN invoices)
      BY <1>1, <2>2 DEF OpsOK
    <3>2. OpOK(op[r], Existing', IdsOf(setups'), DOMAIN invoices')
      BY <3>1, OpGrows
    <3> QED
      BY <3>1, <3>2
  <2> QED
    BY <2>1, <2>2
<1> QED
  BY <1>2, <1>3 DEF OpsOK

(* Nobody else's switch of the default is ended by it. *)
LEMMA SwitchKept ==
    ASSUME OpsOK, SwitchOK, NEW q \in Requests, NEW next, Become(q, next),
           op[q].at # "set", torn' = torn,
           Existing # {} /\ Defaults' = {} => Defaults = {},
           Existing' # {} /\ Defaults' = {} => Existing # {}
    PROVE  SwitchOK'
<1>1. op' = [op EXCEPT ![q] = next] /\ op = [r \in Requests |-> op[r]]
  BY DEF Become, OpsOK
<1>2. ASSUME NEW r \in Requests, op[r].at = "set" PROVE op'[r].at = "set"
  BY <1>1, <1>2
<1> QED
  BY <1>2 DEF SwitchOK

(* A request that is over relies on nothing. *)
LEMMA IdleOK ==
    ASSUME NEW existing, NEW ids, NEW minted
    PROVE  OpOK(Idle, existing, ids, minted) /\ Idle.at = "idle"
BY DEF OpOK, Idle

(* The label of a request tells what it is: one still to find its store, ... *)
LEMMA AtAsking ==
    ASSUME NEW o, NEW existing, NEW ids, NEW minted, OpOK(o, existing, ids, minted),
           o.at \in {"resolve", "ensure"}
    PROVE  Asking(o, existing)
BY DEF OpOK, Idle, Working, Holding, Planning

(* ... one at work on a store it has found, ... *)
LEMMA AtWorking ==
    ASSUME NEW o, NEW existing, NEW ids, NEW minted, OpOK(o, existing, ids, minted),
           o.at \notin {"idle", "resolve", "ensure", "plan"}
    PROVE  Working(o, existing, ids)
BY DEF OpOK, Idle, Asking, Planning

(* ... and one about to insert the plan of an invoice. *)
LEMMA AtPlanning ==
    ASSUME NEW o, NEW existing, NEW ids, NEW minted, OpOK(o, existing, ids, minted),
           o.at = "plan"
    PROVE  Planning(o, minted)
BY DEF OpOK, Idle, Asking, Working, Holding

(* The first statement after the store is resolved. *)
LEMMA ResolvedOK ==
    ASSUME NEW o, NEW existing, NEW more, Asking(o, existing), existing \subseteq more,
           NEW s \in more, NEW default, NEW ids, NEW minted
    PROVE  OpOK(Resolved(o, s, default), more, ids, minted)
           /\ Resolved(o, s, default).at # "set"
<1>1. CASE o.want.do = "save" /\ ~ Valid(o.want.cfg)
  BY <1>1, IdleOK DEF Resolved
<1>2. CASE ~ (o.want.do = "save" /\ ~ Valid(o.want.cfg))
  <2> DEFINE n == After(o, s, default)
             do == o.want.do
  <2>1. WantOK(o.want, more)
    BY DEF Asking, WantOK
  <2>2. do \in {"save", "merge", "copy", "default", "create", "link_create",
                "link_active", "link_disabled", "mint", "checkout"}
    BY <2>1 DEF WantOK
  <2>3. /\ n.at = IF do \in {"save", "merge", "copy"} THEN "find"
                  ELSE IF do \in {"mint", "checkout"} THEN "insert" ELSE do
        /\ n = [at |-> n.at, store |-> n.store, default |-> n.default, want |-> n.want,
                of |-> n.of, row |-> n.row, source |-> n.source]
        /\ n.store = s /\ n.want = o.want /\ n.row = NoRow /\ n.source = NoRow
        /\ n.of = IF do = "copy" THEN "source" ELSE "target"
    BY <2>2 DEF After
  <2> HIDE DEF n
  <2>4. Working(n, more, ids)
    <3>1. /\ n.at \in {"find", "insert", "default", "create",
                       "link_create", "link_active", "link_disabled"}
          /\ n.at = "find" => do \in {"save", "merge", "copy"}
          /\ n.at = "insert" => do \in {"mint", "checkout"}
      BY <2>2, <2>3
    <3>2. /\ n.of \in {"source", "target"}
          /\ n.of = "source" => do = "copy"
      BY <2>3
    <3>3. do = "save" => Valid(o.want.cfg)
      BY <1>2
    <3> QED
      BY <2>1, <2>3, <3>1, <3>2, <3>3, NoRowOK DEF Working, Holding
  <2>5. Resolved(o, s, default) = n
    BY <1>2 DEF Resolved, n
  <2>6. n.at # "set"
    BY <2>2, <2>3
  <2> QED
    BY <2>4, <2>5, <2>6 DEF OpOK
<1> QED
  BY <1>1, <1>2

(* What a lookup gives. *)
LEMMA FoundOK ==
    ASSUME SetupsOK, NEW o, NEW row \in Found(o)
    PROVE  RowOK(row) /\ (row = NoRow \/ row \in setups)
<1>1. CASE row = NoRow
  BY <1>1, NoRowOK
<1>2. CASE row \in RowsOf(Subject(o))
  BY <1>2 DEF RowsOf, SetupsOK, RowsOK
<1>3. CASE RowsOf(NoStore) # {}
           /\ row = CHOOSE r \in RowsOf(NoStore) : \A t \in RowsOf(NoStore) : r.id <= t.id
  <2> DEFINE old == RowsOf(NoStore)
             ids == {r.id : r \in old}
  <2>1. old \subseteq setups
    BY DEF RowsOf
  <2>2. Cardinality(setups) \in Nat
    BY FS_CardinalityType DEF SetupsOK, RowsOK
  <2>3. \A r \in setups : r.id \in Nat /\ RowOK(r)
    BY <2>2 DEF SetupsOK, RowsOK
  <2>4. ids \subseteq Nat /\ ids # {}
    BY <1>3, <2>1, <2>3
  <2>5. PICK i \in ids : \A j \in ids : i <= j
    <3> HIDE DEF ids
    <3> QED
      BY <2>4, LeastNatural
  <2>6. \E r \in old : \A t \in old : r.id <= t.id
    BY <2>5
  <2>7. row \in old
    BY <1>3, <2>6
  <2> QED
    BY <2>1, <2>3, <2>7
<1> QED
  BY <1>1, <1>2, <1>3 DEF Found

(* The ways a handler moves on, field by field. *)
Handler(at, store, default, want, of, row, source) ==
    [at |-> at, store |-> store, default |-> default, want |-> want,
     of |-> of, row |-> row, source |-> source]

MovedTo(o, at) == [o EXCEPT !.at = at]
Reading(o, row) == [o EXCEPT !.row = row]
MovedWith(o, at, row) == [o EXCEPT !.at = at, !.row = row]
Sourced(o, row) == [o EXCEPT !.at = "find", !.of = "target", !.source = row]

(* What a request is once it has moved on, field by field. *)
LEMMA Moves ==
    ASSUME NEW o, NEW existing, Holding(o, existing), NEW at, NEW row
    PROVE  /\ MovedTo(o, at)
                = Handler(at, o.store, o.default, o.want, o.of, o.row, o.source)
           /\ Reading(o, row)
                = Handler(o.at, o.store, o.default, o.want, o.of, row, o.source)
           /\ MovedWith(o, at, row)
                = Handler(at, o.store, o.default, o.want, o.of, row, o.source)
           /\ Sourced(o, row)
                = Handler("find", o.store, o.default, o.want, "target", o.row, row)
<1> DEFINE one == [o EXCEPT !.at = at]
           read == [o EXCEPT !.row = row]
           with == [one EXCEPT !.row = row]
           find == [o EXCEPT !.at = "find"]
           target == [find EXCEPT !.of = "target"]
           sourced == [target EXCEPT !.source = row]
<1>1. o = Handler(o.at, o.store, o.default, o.want, o.of, o.row, o.source)
  BY DEF Holding, Handler
<1>2. /\ one = Handler(at, o.store, o.default, o.want, o.of, o.row, o.source)
      /\ read = Handler(o.at, o.store, o.default, o.want, o.of, row, o.source)
      /\ find = Handler("find", o.store, o.default, o.want, o.of, o.row, o.source)
  <2>1. one = Handler(at, o.store, o.default, o.want, o.of, o.row, o.source)
    BY <1>1 DEF Handler
  <2>2. read = Handler(o.at, o.store, o.default, o.want, o.of, row, o.source)
    BY <1>1 DEF Handler
  <2>3. find = Handler("find", o.store, o.default, o.want, o.of, o.row, o.source)
    BY <1>1 DEF Handler
  <2> QED
    BY <2>1, <2>2, <2>3
<1> HIDE DEF one, read, find
<1>3. with = Handler(at, o.store, o.default, o.want, o.of, row, o.source)
  BY <1>2 DEF Handler
<1>4. target = Handler("find", o.store, o.default, o.want, "target", o.row, o.source)
  BY <1>2 DEF Handler
<1> HIDE DEF with, target
<1>5. sourced = Handler("find", o.store, o.default, o.want, "target", o.row, row)
  BY <1>4 DEF Handler
<1> HIDE DEF sourced
<1>6. MovedTo(o, at) = one /\ Reading(o, row) = read
  BY DEF MovedTo, Reading, one, read
<1>7. MovedWith(o, at, row) = with
  BY DEF MovedWith, with, one
<1>8. Sourced(o, row) = sourced
  BY DEF Sourced, sourced, target, find
<1> QED
  BY <1>2, <1>3, <1>5, <1>6, <1>7, <1>8

(* Where a lookup, or the adoption after it, leads. *)
LEMMA OnwardOK ==
    ASSUME NEW o, NEW existing, NEW ids, NEW minted, Holding(o, existing),
           o.at \in {"find", "adopt"},
           NEW row, RowOK(row), row = NoRow \/ row.id \in ids
    PROVE  OpOK(Onward(o, row), existing, ids, minted)
           /\ Onward(o, row).at # "set"
<1>1. CASE Onward(o, row) = Idle
  BY <1>1, IdleOK
<1>2. CASE o.of = "source" /\ Onward(o, row) = Sourced(o, row)
  <2>1. Onward(o, row)
          = Handler("find", o.store, o.default, o.want, "target", o.row, row)
    BY <1>2, Moves
  <2>2. Working(Onward(o, row), existing, ids)
    BY <1>2, <2>1 DEF Working, Holding, Handler
  <2> QED
    BY <2>1, <2>2 DEF OpOK, Handler
<1>3. CASE /\ o.of # "source" /\ Onward(o, row) = MovedWith(o, "write", Content(o, row))
           /\ o.want.do = "merge" => Valid(Content(o, row))
  <2>1. o.want.do \in {"save", "merge", "copy"}
    BY DEF Holding
  <2>2. RowOK(Content(o, row)) /\ Content(o, row).id = row.id
    BY <1>3, <2>1, ContentOK
  <2>3. Onward(o, row)
          = Handler("write", o.store, o.default, o.want, o.of, Content(o, row), o.source)
    BY <1>3, Moves
  <2>4. Content(o, row).id \in ids \cup {0}
    BY <2>2, NoRowOK
  <2>5. Working(Onward(o, row), existing, ids)
    BY <2>1, <2>2, <2>3, <2>4 DEF Working, Holding, Handler
  <2> QED
    BY <2>3, <2>5 DEF OpOK, Handler
<1> QED
  BY <1>1, <1>2, <1>3 DEF Onward, Sourced, MovedWith

-----------------------------------------------------------------------------
(* The steps. *)

(* The invariant holds at the start. *)
LEMMA InitInductive == Init => IInv
<1> SUFFICES ASSUME Init PROVE IInv
  OBVIOUS
<1>1. Existing = {} /\ Defaults = {}
  BY DEF Init, Existing, Defaults, Absent
<1>2. StoresOK /\ SwitchOK
  BY <1>1 DEF Init, StoresOK, SwitchOK, Store, Absent
<1>3. SetupsOK
  <2>1. CASE setups = {}
    BY <2>1, FS_EmptySet DEF SetupsOK, RowsOK
  <2>2. CASE setups # {}
    <3> DEFINE row == [id |-> 1, store |-> NoStore, main |-> Legacy.main,
                       tax |-> Legacy.tax, splits |-> Legacy.splits]
    <3>1. setups = {row}
      BY <2>2 DEF Init
    <3>2. IsFiniteSet(setups) /\ Cardinality(setups) = 1
      BY <3>1, FS_Singleton
    <3>3. RowOK(row)
      BY ConfigsAssumption, ValidIsOK DEF RowOK
    <3>4. row.id = 1 /\ row.store = NoStore
      OBVIOUS
    <3> HIDE DEF row
    <3> QED
      BY <3>1, <3>2, <3>3, <3>4 DEF SetupsOK, RowsOK
  <2> QED
    BY <2>1, <2>2
<1>4. LinkOK /\ InvoicesOK
  BY DEF Init, LinkOK, InvoicesOK, IsSeq
<1>5. OpsOK
  BY IdleOK DEF Init, OpsOK
<1> QED
  BY <1>2, <1>3, <1>4, <1>5 DEF IInv

(* A step that only moves a request on. *)
LEMMA OnlyMoves ==
    ASSUME IInv, NEW q \in Requests, NEW next, Become(q, next), op[q].at # "set",
           UNCHANGED << stores, setups, link, invoices, torn >>,
           OpOK(next, Existing, IdsOf(setups), DOMAIN invoices)
    PROVE  IInv'
<1>1. Existing' = Existing /\ Defaults' = Defaults
  BY DEF Existing, Defaults
<1>2. OpsOK /\ SwitchOK
  BY DEF IInv
<1>3. OpsOK'
  BY <1>1, <1>2, OpsBecome
<1>4. SwitchOK'
  BY <1>1, <1>2, SwitchKept
<1>5. StoresOK' /\ SetupsOK' /\ LinkOK' /\ InvoicesOK'
  BY <1>1 DEF IInv, StoresOK, SetupsOK, LinkOK, InvoicesOK, IsSeq
<1> QED
  BY <1>3, <1>4, <1>5 DEF IInv

(* A request arrives. *)
LEMMA BeginInductive ==
    ASSUME IInv, NEW q \in Requests, Begin(q)
    PROVE  IInv'
<1>1. PICK want \in Writes \cup Mints : \E s \in Named(want) :
          Become(q, [at |-> "resolve", store |-> s, want |-> want])
  BY DEF Begin
<1>2. PICK s \in Named(want) : Become(q, [at |-> "resolve", store |-> s, want |-> want])
  BY <1>1
<1> DEFINE next == [at |-> "resolve", store |-> s, want |-> want]
<1>3. LinkOK /\ NoStore \notin Existing
  BY StoresAssumption DEF IInv, Existing
<1>4. WantOK(want, Existing)
  <2>1. CASE want \in Writes
    BY <2>1 DEF Writes, Copies, WantOK
  <2>2. CASE want \in Mints
    BY <2>2, AmountsAssumption DEF Mints, LinkMints, WantOK
  <2> QED
    BY <2>1, <2>2
<1>5. want.do = "checkout" => link.store \in Existing
  <2>1. want.do = "checkout" => link.status = "active"
    BY DEF Writes, Copies, Mints, LinkMints
  <2> QED
    BY <1>3, <2>1 DEF LinkOK
<1>6. s \in Existing \cup {NoStore} /\ (s = NoStore => want.do \notin {"copy", "default"})
  BY <1>3, <1>5 DEF Named
<1>7. OpOK(next, Existing, IdsOf(setups), DOMAIN invoices)
  <2>1. Asking(next, Existing)
    BY <1>4, <1>6 DEF Asking
  <2> QED
    BY <2>1 DEF OpOK
<1>8. op[q].at # "set" /\ UNCHANGED << stores, setups, link, invoices, torn >>
  BY DEF Begin, Idle
<1> HIDE DEF next
<1> QED
  BY <1>2, <1>7, <1>8, OnlyMoves DEF next

(* resolve_store looks for the store. *)
LEMMA ResolveInductive ==
    ASSUME IInv, NEW q \in Requests, resolve_store(q)
    PROVE  IInv'
<1> DEFINE o == op[q]
<1>1. Asking(o, Existing) /\ o.at = "resolve"
  BY AtAsking DEF resolve_store, IInv, OpsOK
<1>2. UNCHANGED << stores, setups, link, invoices, torn >>
  BY DEF resolve_store
<1>3. CASE Become(q, [o EXCEPT !.at = "ensure"])
  <2> DEFINE next == [o EXCEPT !.at = "ensure"]
  <2>1. next = [at |-> "ensure", store |-> o.store, want |-> o.want]
    BY <1>1 DEF Asking
  <2>2. Asking(next, Existing)
    BY <1>1, <2>1 DEF Asking
  <2>3. OpOK(next, Existing, IdsOf(setups), DOMAIN invoices)
    BY <2>2 DEF OpOK
  <2> HIDE DEF next
  <2>4. Become(q, next)
    BY <1>3 DEF next
  <2> QED
    BY <1>1, <1>2, <2>3, <2>4, OnlyMoves
<1>4. CASE \E s \in (IF o.store = NoStore THEN Defaults ELSE {o.store}) :
               Become(q, Resolved(o, s, Defaults))
  <2>1. PICK s \in (IF o.store = NoStore THEN Defaults ELSE {o.store}) :
               Become(q, Resolved(o, s, Defaults))
    BY <1>4
  <2>2. s \in Existing
    BY <1>1 DEF Asking, IInv, StoresOK
  <2>3. OpOK(Resolved(o, s, Defaults), Existing, IdsOf(setups), DOMAIN invoices)
    BY <1>1, <2>2, ResolvedOK
  <2> QED
    BY <1>1, <1>2, <2>1, <2>3, OnlyMoves
<1> QED
  BY <1>3, <1>4 DEF resolve_store

(* ensure_default_store inserts a store, or finds one there. *)
LEMMA EnsureInductive ==
    ASSUME IInv, NEW q \in Requests, ensure_default_store(q)
    PROVE  IInv'
<1> DEFINE o == op[q]
           s == IF o.store = NoStore THEN Included ELSE o.store
           next == Resolved(o, s, Defaults \cup {Included})
<1>1. Asking(o, Existing) /\ o.at = "ensure"
  BY AtAsking DEF ensure_default_store, IInv, OpsOK
<1>2. CASE Included \in Existing
  BY <1>1, <1>2, IdleOK, OnlyMoves DEF ensure_default_store
<1>3. CASE Included \notin Existing
  <2>0. StoresOK /\ OpsOK
    BY DEF IInv
  <2>1. Existing = {} /\ Defaults = {}
    BY <1>3, <2>0 DEF StoresOK
  <2>2. stores' = [stores EXCEPT ![Included] =
                       [exists |-> TRUE, default |-> TRUE, mints |-> TRUE]]
        /\ Become(q, next) /\ UNCHANGED << setups, link, invoices, torn >>
    BY <1>3 DEF ensure_default_store
  <2>3. Existing' = {Included} /\ Defaults' = {Included}
    BY <2>0, <2>1, <2>2 DEF StoresOK, Store, Existing, Defaults, Stores
  <2>4. StoresOK'
    <3>1. stores' \in [Stores -> Store]
      BY <2>0, <2>2 DEF StoresOK, Store
    <3> QED
      BY <2>3, <3>1 DEF StoresOK
  <2>5. SwitchOK'
    BY <2>3 DEF SwitchOK
  <2>6. SetupsOK' /\ LinkOK' /\ InvoicesOK'
    BY <2>1, <2>2 DEF IInv, SetupsOK, RowsOK, LinkOK, InvoicesOK, IsSeq
  <2>7. OpsOK'
    <3>1. s \in Existing'
      BY <1>1, <2>1, <2>3 DEF Asking
    <3>2. Existing \subseteq Existing'
      BY <2>1
    <3>3. OpOK(next, Existing', IdsOf(setups'), DOMAIN invoices')
      <4> HIDE DEF o, s
      <4> QED
        BY <1>1, <3>1, <3>2, ResolvedOK
    <3> HIDE DEF next
    <3> QED
      BY <2>0, <2>2, <3>2, <3>3, OpsBecome
  <2> QED
    BY <2>4, <2>5, <2>6, <2>7 DEF IInv
<1> QED
  BY <1>2, <1>3

(* A step on the stores alone, of which none goes. *)
LEMMA StoresMove ==
    ASSUME IInv, Existing \subseteq Existing', UNCHANGED << setups, link, invoices >>
    PROVE  SetupsOK' /\ LinkOK' /\ InvoicesOK'
           /\ IdsOf(setups') = IdsOf(setups) /\ DOMAIN invoices' = DOMAIN invoices
BY DEF IInv, SetupsOK, RowsOK, LinkOK, InvoicesOK, IsSeq

(* create_store inserts a store that is not the default. *)
LEMMA CreateInductive ==
    ASSUME IInv, NEW q \in Requests, create_store(q)
    PROVE  IInv'
<1>0. StoresOK /\ OpsOK /\ SwitchOK
  BY DEF IInv
<1>1. Working(op[q], Existing, IdsOf(setups)) /\ op[q].at = "create"
  BY <1>0, AtWorking DEF create_store, OpsOK
<1>2. Included \in Existing
  BY <1>0, <1>1 DEF Working, Holding, StoresOK
<1>3. PICK s \in Others \ Existing : stores' = [stores EXCEPT ![s].exists = TRUE]
  BY DEF create_store
<1>4. s \in Stores /\ Become(q, Idle) /\ UNCHANGED << setups, link, invoices, torn >>
  BY DEF create_store, Stores
<1>5. /\ stores' \in [Stores -> Store]
      /\ Existing' = Existing \cup {s} /\ Defaults' = Defaults
  BY <1>0, <1>3, <1>4 DEF StoresOK, Store, Existing, Defaults
<1>6. StoresOK'
  BY <1>0, <1>2, <1>5 DEF StoresOK
<1>7. SwitchOK'
  BY <1>0, <1>1, <1>2, <1>4, <1>5, SwitchKept
<1>8. SetupsOK' /\ LinkOK' /\ InvoicesOK'
  BY <1>4, <1>5, StoresMove
<1>9. OpsOK'
  BY <1>0, <1>4, <1>5, IdleOK, OpsBecome
<1> QED
  BY <1>6, <1>7, <1>8, <1>9 DEF IInv

(* The merchant's plan changes. *)
LEMMA EntitleInductive ==
    ASSUME IInv, NEW s \in Others, Entitle(s)
    PROVE  IInv'
<1>0. StoresOK /\ OpsOK /\ SwitchOK
  BY DEF IInv
<1>1. /\ stores' = [stores EXCEPT ![s].mints = TRUE]
      /\ UNCHANGED << setups, link, invoices, op, torn >>
  BY DEF Entitle
<1>2. /\ stores' \in [Stores -> Store]
      /\ Existing' = Existing /\ Defaults' = Defaults
  BY <1>0, <1>1 DEF StoresOK, Store, Existing, Defaults
<1>3. StoresOK' /\ SwitchOK' /\ OpsOK'
  BY <1>0, <1>1, <1>2 DEF StoresOK, SwitchOK, OpsOK
<1>4. SetupsOK' /\ LinkOK' /\ InvoicesOK'
  BY <1>1, <1>2, StoresMove
<1> QED
  BY <1>3, <1>4 DEF IInv

(* The first statement of the switch: clear_default. *)
LEMMA ClearInductive ==
    ASSUME IInv, NEW q \in Requests, clear_default(q)
    PROVE  IInv'
<1>0. StoresOK /\ OpsOK
  BY DEF IInv
<1>1. Working(op[q], Existing, IdsOf(setups)) /\ op[q].at = "default"
  BY <1>0, AtWorking DEF clear_default, OpsOK
<1>2. CASE ~ assert_can_create_new_payments(op[q].store)
  BY <1>1, <1>2, IdleOK, OnlyMoves DEF clear_default
<1>3. CASE assert_can_create_new_payments(op[q].store)
  <2> DEFINE next == MovedTo(op[q], "set")
  <2>1. /\ stores' = [s \in Stores |-> [stores[s] EXCEPT !.default = FALSE]]
        /\ Become(q, next) /\ UNCHANGED << setups, link, invoices, torn >>
    BY <1>3 DEF clear_default, MovedTo
  <2>2. next = Handler("set", op[q].store, op[q].default, op[q].want,
                       op[q].of, op[q].row, op[q].source)
    BY <1>1, Moves DEF Working
  <2> HIDE DEF next
  <2>3. /\ stores' \in [Stores -> Store]
        /\ Existing' = Existing /\ Defaults' = {}
    BY <1>0, <2>1 DEF StoresOK, Store, Existing, Defaults
  <2>4. StoresOK'
    BY <1>0, <2>3 DEF StoresOK
  <2>5. SwitchOK'
    <3>1. op'[q] = next
      BY <1>0, <2>1 DEF Become, OpsOK
    <3>2. op'[q].at = "set"
      BY <2>2, <3>1 DEF Handler
    <3> QED
      BY <3>2 DEF SwitchOK
  <2>6. SetupsOK' /\ LinkOK' /\ InvoicesOK'
    BY <2>1, <2>3, StoresMove
  <2>7. OpsOK'
    <3>1. Working(next, Existing, IdsOf(setups))
      BY <1>1, <2>2 DEF Working, Holding, Handler
    <3>2. OpOK(next, Existing', IdsOf(setups'), DOMAIN invoices')
      BY <2>1, <2>3, <3>1 DEF OpOK
    <3> QED
      BY <1>0, <2>1, <2>3, <3>2, OpsBecome
  <2> QED
    BY <2>4, <2>5, <2>6, <2>7 DEF IInv
<1> QED
  BY <1>2, <1>3

(* The second statement of the switch: the new default is set. *)
LEMMA SetInductive ==
    ASSUME IInv, NEW q \in Requests, set_default(q)
    PROVE  IInv'
<1>0. StoresOK /\ OpsOK
  BY DEF IInv
<1> DEFINE s == op[q].store
<1>1. s \in Existing
  BY <1>0, AtWorking DEF set_default, OpsOK, Working, Holding
<1>2. /\ stores' = IF Defaults \subseteq {s} THEN [stores EXCEPT ![s].default = TRUE]
                   ELSE stores
      /\ Become(q, Idle) /\ UNCHANGED << setups, link, invoices, torn >>
  BY DEF set_default
<1> HIDE DEF s
<1>3. /\ stores' \in [Stores -> Store]
      /\ Existing' = Existing
      /\ Defaults' = IF Defaults \subseteq {s} THEN {s} ELSE Defaults
  <2>1. CASE Defaults \subseteq {s}
    BY <1>0, <1>1, <1>2, <2>1 DEF StoresOK, Store, Existing, Defaults
  <2>2. CASE ~ (Defaults \subseteq {s})
    BY <1>0, <1>2, <2>2 DEF StoresOK, Existing, Defaults
  <2> QED
    BY <2>1, <2>2
<1>4. StoresOK'
  BY <1>0, <1>1, <1>3 DEF StoresOK
<1>5. SwitchOK'
  BY <1>3 DEF SwitchOK
<1>6. SetupsOK' /\ LinkOK' /\ InvoicesOK'
  BY <1>2, <1>3, StoresMove
<1>7. OpsOK'
  BY <1>0, <1>2, <1>3, IdleOK, OpsBecome
<1> QED
  BY <1>4, <1>5, <1>6, <1>7 DEF IInv

(* A setup is looked up by its store, or by its merchant. *)
LEMMA FindInductive ==
    ASSUME IInv, NEW q \in Requests, find_setup(q)
    PROVE  IInv'
<1>0. OpsOK /\ SetupsOK
  BY DEF IInv
<1> DEFINE o == op[q]
<1>1. Working(o, Existing, IdsOf(setups)) /\ o.at = "find"
  BY <1>0, AtWorking DEF find_setup, OpsOK
<1>2. PICK r \in Found(o) :
          Become(q, IF r # NoRow /\ r.store = NoStore
                    THEN MovedWith(o, "adopt", r) ELSE Onward(o, r))
  BY DEF find_setup, MovedWith
<1>3. RowOK(r) /\ (r = NoRow \/ r \in setups)
  BY <1>0, FoundOK
<1>4. r = NoRow \/ r.id \in IdsOf(setups)
  BY <1>3 DEF IdsOf
<1> DEFINE next == IF r # NoRow /\ r.store = NoStore
                   THEN MovedWith(o, "adopt", r) ELSE Onward(o, r)
<1> HIDE DEF o
<1>5. OpOK(next, Existing, IdsOf(setups), DOMAIN invoices)
  <2>1. CASE r # NoRow /\ r.store = NoStore
    <3>1. next = Handler("adopt", o.store, o.default, o.want, o.of, r, o.source)
      BY <1>1, <2>1, Moves DEF Working
    <3> HIDE DEF next
    <3>2. Working(next, Existing, IdsOf(setups))
      BY <1>1, <1>3, <1>4, <2>1, <3>1 DEF Working, Holding, Handler
    <3> QED
      BY <3>2 DEF OpOK
  <2>2. CASE ~ (r # NoRow /\ r.store = NoStore)
    <3>1. Holding(o, Existing)
      BY <1>1 DEF Working
    <3> QED
      BY <1>1, <1>3, <1>4, <2>2, <3>1, OnwardOK
  <2> QED
    BY <2>1, <2>2
<1>6. op[q].at # "set" /\ UNCHANGED << stores, setups, link, invoices, torn >>
  BY DEF find_setup
<1> HIDE DEF next
<1> QED
  BY <1>2, <1>5, <1>6, OnlyMoves DEF next

(* A step on the rows of setups alone. *)
LEMMA RowsMove ==
    ASSUME IInv, NEW q \in Requests, NEW next, Become(q, next), op[q].at # "set",
           UNCHANGED << stores, link, invoices, torn >>,
           RowsOK(setups', Existing), IdsOf(setups) \subseteq IdsOf(setups'),
           OpOK(next, Existing, IdsOf(setups'), DOMAIN invoices)
    PROVE  IInv'
<1>1. Existing' = Existing /\ Defaults' = Defaults
  BY DEF Existing, Defaults
<1>2. OpsOK /\ SwitchOK
  BY DEF IInv
<1>3. OpsOK'
  BY <1>1, <1>2, OpsBecome
<1>4. SwitchOK'
  BY <1>1, <1>2, SwitchKept
<1>5. StoresOK' /\ SetupsOK' /\ LinkOK' /\ InvoicesOK'
  BY <1>1 DEF IInv, StoresOK, SetupsOK, LinkOK, InvoicesOK, IsSeq
<1> QED
  BY <1>3, <1>4, <1>5 DEF IInv

(* Numbers are unique: the row found by a number is the one that has it. *)
LEMMA RowById ==
    ASSUME SetupsOK, NEW i \in IdsOf(setups)
    PROVE  /\ (CHOOSE r \in setups : r.id = i) \in setups
           /\ (CHOOSE r \in setups : r.id = i).id = i
BY DEF IdsOf

(* The store a lookup is about is one of the merchant's. *)
LEMMA SubjectExists ==
    ASSUME NEW o, NEW existing, Holding(o, existing)
    PROVE  Subject(o) \in existing
BY DEF Holding, WantOK, Subject

(* A row without a store is given to the store that asked. *)
LEMMA AdoptInductive ==
    ASSUME IInv, NEW q \in Requests, adopt_legacy(q)
    PROVE  IInv'
<1>0. OpsOK /\ SetupsOK
  BY DEF IInv
<1> DEFINE o == op[q]
           now == CHOOSE r \in setups : r.id = o.row.id
           moved == Stored(now, Subject(o))
           read == Stored(o.row, Subject(o))
           blank == Reading(o, NoRow)
           next == Onward(blank, read)
<1>1. Working(o, Existing, IdsOf(setups)) /\ o.at = "adopt"
  BY <1>0, AtWorking DEF adopt_legacy, OpsOK
<1>2. Holding(o, Existing) /\ RowOK(o.row) /\ o.row.id \in IdsOf(setups)
  BY <1>1 DEF Working, Holding
<1>3. setups' = Put(moved) /\ Become(q, next)
      /\ UNCHANGED << stores, link, invoices, torn >>
  BY DEF adopt_legacy, Reading, Stored
<1> HIDE DEF o
<1>4. Subject(o) \in Existing
  BY <1>2, SubjectExists
<1>5. now \in setups /\ now.id = o.row.id /\ RowOK(now)
  BY <1>0, <1>2, RowById DEF SetupsOK, RowsOK
<1> HIDE DEF now
<1>6. RowOK(moved) /\ moved.id = o.row.id /\ moved.store = Subject(o)
  BY <1>5, RowMoved
<1>7. RowOK(read) /\ read.id = o.row.id
  BY <1>2, RowMoved
<1> HIDE DEF moved, read
<1>8. RowsOK(setups', Existing) /\ IdsOf(setups') = IdsOf(setups)
  BY <1>0, <1>2, <1>3, <1>4, <1>6, PutOK DEF SetupsOK
<1>9. Holding(blank, Existing) /\ blank.at = "adopt"
  <2>1. blank = Handler(o.at, o.store, o.default, o.want, o.of, NoRow, o.source)
    BY <1>2, Moves
  <2> HIDE DEF blank
  <2> QED
    BY <1>1, <1>2, <2>1, NoRowOK DEF Holding, Handler
<1> HIDE DEF blank
<1>10. OpOK(next, Existing, IdsOf(setups'), DOMAIN invoices)
  BY <1>2, <1>7, <1>8, <1>9, OnwardOK
<1> HIDE DEF next
<1>11. op[q].at # "set"
  BY <1>1 DEF o
<1> QED
  BY <1>3, <1>8, <1>10, <1>11, RowsMove

(* A setup is inserted or overwritten. *)
LEMMA WriteInductive ==
    ASSUME IInv, NEW q \in Requests, write_setup(q)
    PROVE  IInv'
<1>0. OpsOK /\ SetupsOK
  BY DEF IInv
<1> DEFINE o == op[q]
           now == CHOOSE r \in setups : r.id = o.row.id
           fresh == Numbered(o.row, Cardinality(setups) + 1, o.store)
           put == Stored(o.row, now.store)
<1>1. Working(o, Existing, IdsOf(setups)) /\ o.at = "write"
  BY <1>0, AtWorking DEF write_setup, OpsOK
<1>2. /\ RowOK(o.row) /\ o.store \in Existing
      /\ o.row.id \in IdsOf(setups) \cup {0}
  BY <1>1 DEF Working, Holding
<1>3. /\ setups' = IF o.row.id = 0 THEN setups \cup {fresh} ELSE Put(put)
      /\ Become(q, Idle) /\ UNCHANGED << stores, link, invoices, torn >>
  BY DEF write_setup, Fresh, Numbered, Stored
<1> HIDE DEF o
<1>4. CASE o.row.id = 0
  <2>1. /\ RowOK(fresh) /\ fresh.id = Cardinality(setups) + 1
        /\ fresh.store = o.store
    BY <1>2, RowMoved
  <2> HIDE DEF fresh
  <2>2. RowsOK(setups', Existing) /\ IdsOf(setups) \subseteq IdsOf(setups')
    BY <1>0, <1>2, <1>3, <1>4, <2>1, InsertOK DEF SetupsOK
  <2> QED
    BY <1>1, <1>3, <2>2, IdleOK, RowsMove DEF o
<1>5. CASE o.row.id # 0
  <2>1. o.row.id \in IdsOf(setups)
    BY <1>2, <1>5
  <2>2. now \in setups /\ now.store \in Existing \cup {NoStore}
    BY <1>0, <2>1, RowById DEF SetupsOK, RowsOK
  <2> HIDE DEF now
  <2>3. RowOK(put) /\ put.id = o.row.id /\ put.store = now.store
    BY <1>2, RowMoved
  <2> HIDE DEF put
  <2>4. RowsOK(setups', Existing) /\ IdsOf(setups) \subseteq IdsOf(setups')
    BY <1>0, <1>3, <1>5, <2>1, <2>2, <2>3, PutOK DEF SetupsOK
  <2> QED
    BY <1>1, <1>3, <2>4, IdleOK, RowsMove DEF o
<1> QED
  BY <1>4, <1>5

(* A step on the link, or on the invoices, alone. *)
LEMMA ElseMoves ==
    ASSUME IInv, NEW q \in Requests, NEW next, Become(q, next), op[q].at # "set",
           UNCHANGED << stores, setups, torn >>, LinkOK', InvoicesOK',
           DOMAIN invoices \subseteq DOMAIN invoices',
           OpOK(next, Existing, IdsOf(setups), DOMAIN invoices')
    PROVE  IInv'
<1>1. Existing' = Existing /\ Defaults' = Defaults
  BY DEF Existing, Defaults
<1>2. OpsOK /\ SwitchOK
  BY DEF IInv
<1>3. OpsOK'
  BY <1>1, <1>2, OpsBecome
<1>4. SwitchOK'
  BY <1>1, <1>2, SwitchKept
<1>5. StoresOK' /\ SetupsOK'
  BY <1>1 DEF IInv, StoresOK, SetupsOK
<1> QED
  BY <1>3, <1>4, <1>5 DEF IInv

(* The steps on the payment link. *)
LEMMA LinkInductive ==
    ASSUME IInv, NEW q \in Requests, link_store(q) \/ link_set_status(q)
    PROVE  IInv'
<1>0. OpsOK /\ LinkOK /\ InvoicesOK
  BY DEF IInv
<1>1. /\ op[q].at \in {"link_create", "link_active", "link_disabled"}
      /\ Become(q, Idle) /\ UNCHANGED << stores, setups, invoices, torn >>
  BY DEF link_store, link_set_status
<1>2. op[q].store \in Existing
  BY <1>0, <1>1, AtWorking DEF OpsOK, Working, Holding
<1>3. Existing' = Existing
  BY <1>1 DEF Existing
<1>4. LinkOK'
  <2>1. CASE link_store(q)
    BY <1>0, <1>2, <1>3, <2>1 DEF link_store, LinkOK
  <2>2. CASE link_set_status(q)
    <3>1. CASE link.store # op[q].store
      BY <1>0, <1>3, <2>2, <3>1 DEF link_set_status, LinkOK
    <3>2. CASE link.store = op[q].store
      <4> DEFINE status == IF op[q].at = "link_active" THEN "active" ELSE "disabled"
      <4>1. link' = [link EXCEPT !.status = status]
        BY <2>2, <3>2 DEF link_set_status
      <4>2. link' = [status |-> status, store |-> link.store]
        BY <1>0, <4>1 DEF LinkOK
      <4> QED
        BY <1>2, <1>3, <3>2, <4>2 DEF LinkOK
    <3> QED
      BY <3>1, <3>2
  <2> QED
    BY <2>1, <2>2
<1>5. InvoicesOK'
  BY <1>0, <1>1 DEF InvoicesOK, IsSeq
<1> QED
  BY <1>1, <1>4, <1>5, IdleOK, ElseMoves

-----------------------------------------------------------------------------
(* Invoices. *)

(* A sequence is a function on 1 .. n. *)
LEMMA SequenceOf ==
    ASSUME NEW S, NEW s \in Seq(S)
    PROVE  IsSeq(s)
<1> DEFINE R == {s[i] : i \in DOMAIN s}
<1>1. Len(s) \in Nat /\ s \in [1 .. Len(s) -> R]
  OBVIOUS
<1> HIDE DEF R
<1>2. s \in Seq(R)
  BY <1>1, FunctionIsSeq
<1> QED
  BY <1>2 DEF IsSeq, R

(* The invoice is inserted with the total its payer will be asked for. *)
LEMMA MintInductive ==
    ASSUME IInv, NEW q \in Requests, create_for_merchant(q)
    PROVE  IInv'
<1>0. OpsOK /\ LinkOK /\ InvoicesOK
  BY DEF IInv
<1> DEFINE o == op[q]
<1>1. Working(o, Existing, IdsOf(setups)) /\ o.at = "insert"
  BY <1>0, AtWorking DEF create_for_merchant, OpsOK
<1>2. o.want.asked \in Nat
  BY <1>1 DEF Working, Holding, WantOK
<1> DEFINE accepted == assert_can_create_new_payments(o.store) /\ CanCharge(o.want.pays)
<1>3. CASE ~ accepted
  BY <1>1, <1>3, IdleOK, OnlyMoves DEF create_for_merchant
<1>4. CASE accepted
  <2> DEFINE total == IF o.want.pays = "customer_pays"
                      THEN customer_paid_amounts(o.want.asked) ELSE o.want.asked
             inv == [store |-> o.store, asked |-> o.want.asked, pays |-> o.want.pays,
                     total |-> total, plan |-> NoPlan]
             next == [at |-> "plan", id |-> Len(invoices) + 1, want |-> o.want]
             S == {invoices[i] : i \in DOMAIN invoices}
  <2>1. /\ invoices' = Append(invoices, inv) /\ Become(q, next)
        /\ UNCHANGED << stores, setups, link, torn >>
    BY <1>4 DEF create_for_merchant
  <2>2. InvoiceOK(inv)
    <3>1. ASSUME o.want.pays = "customer_pays"
          PROVE  PlatformBps < MaxBps /\ customer_paid_amounts(o.want.asked) \in Nat
      <4>1. PlatformBps < MaxBps
        BY <1>4, <3>1 DEF CanCharge
      <4> QED
        BY <1>2, <4>1, GrossUp
    <3>2. total \in Nat
      BY <1>2, <3>1
    <3> QED
      BY <1>2, <3>1, <3>2 DEF InvoiceOK
  <2> HIDE DEF inv
  <2>3. invoices \in Seq(S)
    BY <1>0 DEF InvoicesOK, IsSeq
  <2>4. /\ invoices' \in Seq(S \cup {inv})
        /\ DOMAIN invoices' = 1 .. Len(invoices) + 1
        /\ DOMAIN invoices = 1 .. Len(invoices) /\ Len(invoices) \in Nat
        /\ \A i \in DOMAIN invoices : invoices'[i] = invoices[i]
        /\ invoices'[Len(invoices) + 1] = inv
    <3> HIDE DEF S
    <3> QED
      BY <2>1, <2>3
  <2>5. InvoicesOK'
    <3>1. IsSeq(invoices')
      <4> HIDE DEF S
      <4> QED
        BY <2>4, SequenceOf
    <3>2. \A i \in DOMAIN invoices' : InvoiceOK(invoices'[i])
      BY <1>0, <2>2, <2>4 DEF InvoicesOK
    <3> QED
      BY <3>1, <3>2 DEF InvoicesOK
  <2>6. LinkOK'
    BY <1>0, <2>1 DEF LinkOK, Existing
  <2>7. OpOK(next, Existing, IdsOf(setups), DOMAIN invoices')
    BY <2>4 DEF OpOK, Planning
  <2>8. DOMAIN invoices \subseteq DOMAIN invoices'
    BY <2>4
  <2> HIDE DEF next
  <2> QED
    BY <1>1, <2>1, <2>5, <2>6, <2>7, <2>8, ElseMoves
<1> QED
  BY <1>3, <1>4

(* A plan made of a stored row settles the invoice it is made for. *)
LEMMA PlanSettles ==
    ASSUME NEW inv, InvoiceOK(inv), NEW row, RowOK(row), Accepts(row, inv.total),
           NEW new, new = [store |-> inv.store, asked |-> inv.asked, pays |-> inv.pays,
                           total |-> inv.total, plan |-> Plan(row, inv.total)]
    PROVE  InvoiceOK(new)
<1> DEFINE outs == Plan(row, inv.total).outs
           t == inv.total
<1>1. t \in Nat /\ inv.asked \in Nat /\ row.tax \in Nat /\ row.splits \in Seq(Nat)
  BY Constants DEF InvoiceOK, RowOK
<1>2. /\ t > 0
      /\ Total(outs) = t
      /\ Last(outs) = platform_fee_total(t)
      /\ \A k \in DOMAIN Front(outs) : outs[k] > 0
      /\ Total(Front(outs)) = t - platform_fee_total(t)
  BY <1>1, PlanPaysOut
<1> HIDE DEF outs
<1>3. ASSUME inv.pays = "customer_pays"
      PROVE  /\ Total(Front(outs)) >= inv.asked
             /\ t - 1 - platform_fee_total(t - 1) < inv.asked
  <2>1. PlatformBps < MaxBps /\ t = customer_paid_amounts(inv.asked)
    BY <1>3 DEF InvoiceOK
  <2>2. /\ t - platform_fee_total(t) >= inv.asked
        /\ t > 0 => t - 1 - platform_fee_total(t - 1) < inv.asked
    BY <1>1, <2>1, GrossUp
  <2> QED
    BY <1>2, <2>2
<1>4. Settles(new)
  BY <1>2, <1>3 DEF Settles, outs
<1> QED
  BY <1>4 DEF InvoiceOK

(* The plan of an invoice is inserted, or refused. *)
LEMMA PlanInductive ==
    ASSUME IInv, NEW q \in Requests, create_for_invoice(q)
    PROVE  IInv'
<1>0. OpsOK /\ LinkOK /\ InvoicesOK /\ SetupsOK
  BY DEF IInv
<1> DEFINE o == op[q]
           inv == invoices[o.id]
<1>1. o.at = "plan" /\ o.id \in DOMAIN invoices
  BY <1>0, AtPlanning DEF create_for_invoice, OpsOK, Planning
<1>2. Become(q, Idle) /\ UNCHANGED << stores, setups, link, torn >>
  BY DEF create_for_invoice
<1>3. LinkOK'
  BY <1>0, <1>2 DEF LinkOK, Existing
<1>4. InvoicesOK' /\ DOMAIN invoices' = DOMAIN invoices
  <2>1. CASE invoices' = invoices
    BY <1>0, <2>1 DEF InvoicesOK, IsSeq
  <2>2. CASE \E p \in compute_split_plan(inv.store, inv.total) :
                  invoices' = [invoices EXCEPT ![o.id].plan = p]
    <3>1. PICK p \in compute_split_plan(inv.store, inv.total) :
                  invoices' = [invoices EXCEPT ![o.id].plan = p]
      BY <2>2
    <3>2. PICK row \in PlanRows(inv.store) :
              Accepts(row, inv.total) /\ p = Plan(row, inv.total)
      BY DEF compute_split_plan
    <3>3. RowOK(row)
      BY <1>0 DEF PlanRows, RowsOf, SetupsOK, RowsOK
    <3>4. InvoiceOK(inv)
      BY <1>0, <1>1 DEF InvoicesOK
    <3> DEFINE new == [inv EXCEPT !.plan = p]
               S == {invoices[i] : i \in DOMAIN invoices}
    <3>5. new = [store |-> inv.store, asked |-> inv.asked, pays |-> inv.pays,
                 total |-> inv.total, plan |-> p]
      BY <3>4 DEF InvoiceOK
    <3>6. invoices' = [invoices EXCEPT ![o.id] = new]
      BY <3>1
    <3> HIDE DEF new, inv
    <3>7. InvoiceOK(new)
      BY <3>2, <3>3, <3>4, <3>5, PlanSettles
    <3>8. invoices \in Seq(S)
      BY <1>0 DEF InvoicesOK, IsSeq
    <3>9. /\ invoices' \in Seq(S \cup {new})
          /\ DOMAIN invoices' = DOMAIN invoices
          /\ \A i \in DOMAIN invoices : invoices'[i] = new \/ invoices'[i] = invoices[i]
      <4> HIDE DEF S, o
      <4> QED
        BY <1>1, <3>6, <3>8
    <3>10. IsSeq(invoices')
      <4> HIDE DEF S
      <4> QED
        BY <3>9, SequenceOf
    <3> QED
      BY <1>0, <3>7, <3>9, <3>10 DEF InvoicesOK
  <2> QED
    BY <2>1, <2>2 DEF create_for_invoice
<1> QED
  BY <1>0, <1>1, <1>2, <1>3, <1>4, IdleOK, ElseMoves

(* The process stops: the requests under way are gone. *)
LEMMA CrashInductive ==
    ASSUME IInv, Crash
    PROVE  IInv'
<1>1. /\ op' = [q \in Requests |-> Idle]
      /\ torn' = (torn \/ \E q \in Requests : op[q].at = "set")
      /\ UNCHANGED << stores, setups, link, invoices >>
  BY DEF Crash
<1>2. Existing' = Existing /\ Defaults' = Defaults
  BY <1>1 DEF Existing, Defaults
<1>3. OpsOK'
  BY <1>1, IdleOK DEF OpsOK
<1>4. SwitchOK'
  BY <1>1, <1>2 DEF IInv, SwitchOK
<1> QED
  BY <1>1, <1>2, <1>3, <1>4
     DEF IInv, StoresOK, SetupsOK, LinkOK, InvoicesOK, IsSeq

(* One request ends before its statement: between the two statements of a   *)
(* switch, that is remembered as torn.                                      *)
LEMMA FailureInductive ==
    ASSUME IInv, NEW q \in Requests, StatementFails(q)
    PROVE  IInv'
<1>1. /\ Become(q, Idle)
      /\ torn' = (torn \/ op[q].at = "set")
      /\ UNCHANGED << stores, setups, link, invoices >>
  BY DEF StatementFails
<1>2. Existing' = Existing /\ Defaults' = Defaults
  BY <1>1 DEF Existing, Defaults
<1>3. op' = [r \in Requests |-> op'[r]] /\ op'[q] = Idle
      /\ \A r \in Requests \ {q} : op'[r] = op[r]
  BY <1>1 DEF IInv, OpsOK, Become
<1>4. OpsOK'
  BY <1>1, <1>2, <1>3, IdleOK DEF IInv, OpsOK
<1>5. SwitchOK'
  <2>1. ASSUME NEW r \in Requests, op[r].at = "set"
        PROVE  torn' \/ op'[r].at = "set"
    BY <1>1, <1>3, <2>1
  <2> QED
    BY <1>1, <1>2, <2>1 DEF IInv, SwitchOK
<1> QED
  BY <1>1, <1>2, <1>4, <1>5
     DEF IInv, StoresOK, SetupsOK, LinkOK, InvoicesOK, IsSeq

(* Every step keeps it. *)
LEMMA StepInductive == IInv /\ [Next]_vars => IInv'
<1> SUFFICES ASSUME IInv, [Next]_vars PROVE IInv'
  OBVIOUS
<1>1. CASE Crash
  BY <1>1, CrashInductive
<1>2. CASE \E q \in Requests : Step(q)
  <2>1. PICK q \in Requests : Step(q)
    BY <1>2
  <2> QED
    BY <2>1, BeginInductive, ResolveInductive, EnsureInductive, CreateInductive,
       ClearInductive, SetInductive, FindInductive, AdoptInductive, WriteInductive,
       LinkInductive, MintInductive, PlanInductive, FailureInductive
    DEF Step
<1>3. CASE \E s \in Others : Entitle(s)
  BY <1>3, EntitleInductive
<1>4. CASE UNCHANGED vars
  BY <1>4 DEF vars, IInv, StoresOK, SwitchOK, SetupsOK, LinkOK, InvoicesOK, IsSeq, OpsOK,
              Existing, Defaults
<1> QED
  BY <1>1, <1>2, <1>3, <1>4 DEF Next

-----------------------------------------------------------------------------

(* The inductive invariant holds in every reachable state: the stores have  *)
(* at most one default, every stored row is in order, and what a request    *)
(* holds was valid when it was read and is of a store still there.          *)
THEOREM Invariance == Spec => []IInv
<1>1. Init => IInv
  BY InitInductive
<1>2. IInv /\ [Next]_vars => IInv'
  BY StepInductive
<1> QED
  BY <1>1, <1>2, PTL DEF Spec

(* However requests cross, and however stale the row one of them writes     *)
(* back, the stored rates stay within the bounds of setups.rs.              *)
THEOREM TypeCorrect == Spec => []TypeOK
<1>1. IInv => TypeOK
  <2> SUFFICES ASSUME IInv PROVE TypeOK
    OBVIOUS
  <2>1. \A s \in Stores : DOMAIN stores[s] = DOMAIN Absent
    BY DEF IInv, StoresOK, Store, Absent
  <2>2. \A r \in setups :
           /\ r.store \in Existing \cup {NoStore}
           /\ r.tax \in 0 .. MaxBps - PlatformBps
           /\ Len(r.splits) <= 5 /\ Total(r.splits) <= MaxBps
    BY DEF IInv, SetupsOK, RowsOK, RowOK
  <2>3. \A r, t \in setups : r.id = t.id => r = t
    BY DEF IInv, SetupsOK, RowsOK
  <2>4. link.status \in {"none", "active", "disabled"}
    BY DEF IInv, LinkOK
  <2>5. \A i \in DOMAIN invoices : invoices[i].total \in Nat
    BY DEF IInv, InvoicesOK, InvoiceOK
  <2>6. \A q \in Requests : op[q].at \in
           {"idle", "resolve", "ensure", "create", "default", "set", "find", "adopt",
            "write", "link_create", "link_active", "link_disabled", "insert", "plan"}
    BY DEF IInv, OpsOK, OpOK, Idle, Asking, Working, Holding, Planning
  <2> QED
    BY <2>1, <2>2, <2>3, <2>4, <2>5, <2>6 DEF TypeOK
<1> QED
  BY <1>1, Invariance, PTL

(* Never two default stores, and always one once there is a store, unless   *)
(* a switch of it is between its two statements or was cut short there.     *)
THEOREM DefaultIsOne == Spec => []OneDefaultStore
<1>1. IInv => OneDefaultStore
  <2> SUFFICES ASSUME IInv PROVE OneDefaultStore
    OBVIOUS
  <2>1. Cardinality(Defaults) <= 1
    <3>1. CASE Defaults = {}
      <4>1. Cardinality({}) = 0
        BY FS_EmptySet
      <4>2. Cardinality(Defaults) = 0
        BY <3>1, <4>1, Zenon
      <4> HIDE DEF Defaults
      <4> QED
        BY <4>2
    <3>2. CASE Defaults # {}
      <4>1. PICK s \in Defaults : TRUE
        BY <3>2
      <4>2. Defaults = {s}
        BY <4>1 DEF IInv, StoresOK
      <4>3. Cardinality({s}) = 1
        BY FS_Singleton
      <4>4. Cardinality(Defaults) = 1
        BY <4>2, <4>3, Zenon
      <4> QED
        BY <4>4
    <3> QED
      BY <3>1, <3>2
  <2> QED
    BY <2>1 DEF IInv, SwitchOK, OneDefaultStore
<1> QED
  BY <1>1, Invariance, PTL

(* Every plan pays out its invoice to the sompi, the platform its fee last, *)
(* which alone may be nothing, and a payer who bears the fee pays the least *)
(* total that leaves the merchant what was asked.                           *)
THEOREM PlansPayOut == Spec => []PlansSettle
<1>1. IInv => PlansSettle
  BY DEF IInv, InvoicesOK, InvoiceOK, Settles, PlansSettle
<1> QED
  BY <1>1, Invariance, PTL
=============================================================================
