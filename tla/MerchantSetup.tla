---------------------------- MODULE MerchantSetup ----------------------------
(***************************************************************************)
(* One merchant's stores, the payout configuration of each store, and the  *)
(* invoices minted from it: stores.rs, store_context.rs, setups.rs,        *)
(* payment_links.rs, create_for_merchant of invoices.rs and the split plan *)
(* of kpr1.rs.                                                             *)
(*                                                                         *)
(* A request is a few statements on the pool with nothing around them: no  *)
(* transaction, and no unique index on setups.  Requests interleave between*)
(* statements, a statement may fail and end its request, and the process   *)
(* may die; the SELECTs of one lookup (a store's own setup, then one of no *)
(* store) are one step.  Percentages are their basis points (two decimals  *)
(* at most are accepted), of MaxBps in the whole.                          *)
(***************************************************************************)
EXTENDS Integers, Sequences, FiniteSetsExt, SequencesExt

CONSTANTS
    Requests,     \* requests in progress at once
    Included,     \* the store ensure_default_store creates
    Others,       \* stores POST /api/stores may create
    Configs,      \* full configurations a POST sets: [main, tax, splits]
    Patches,      \* partial ones a PUT sets; Keep where the body is silent
    Keep,
    Legacy,       \* setups of the merchant with no store (store_id IS NULL)
    Amounts,      \* subtotals an invoice may ask for
    LinkAmount,   \* amount of the merchant's payment link, customer_pays
    MaxBps,       \* MAX_BPS
    PlatformBps,  \* platform_fee_bps
    PlatformFlat, \* platform_fee_flat_sompi
    MinInvoice,   \* min_invoice_sompi
    MassParam,    \* STORAGE_MASS_PARAM
    MaxMass,      \* MAX_SETTLEMENT_STORAGE_MASS
    MaxWrites,    \* bound: writing requests accepted
    MaxInvoices,  \* bound: invoices inserted
    MaxFaults     \* bound: process deaths and failed statements

Stores == {Included} \cup Others

\* The store of a row that has none, and the address of a row that has none.
NoStore == "no store"
NoAddress == "no address"

\* AppConfig::from_env takes any numbers. With others than these bps_amount and
\* platform_fee_total refuse every plan; with these the fee may take everything,
\* and may be nothing.
ASSUME FeeAssumption == PlatformBps \in 0 .. MaxBps /\ PlatformFlat \in Nat

ASSUME AmountsAssumption ==
    /\ MaxBps \in Nat \ {0} /\ MinInvoice \in Nat
    /\ Amounts \cup {LinkAmount} \subseteq Nat

\* The store of a row that has none is none of the merchant's.
ASSUME StoresAssumption == NoStore \notin Stores

VARIABLES
    stores,    \* per store: whether it exists, is_default, and may mint
    setups,    \* rows of the setups table: [id, store, main, tax, splits]
    link,      \* the merchant's payment link: its status and store
    invoices,  \* invoices: [store, asked, pays, total, plan]
    op,        \* per request, where its handler is
    writes,    \* requests accepted so far that change a setup, store or link
    faults,    \* process deaths and failed statements so far
    torn       \* history: one was between the two statements of set_default

vars == << stores, setups, link, invoices, op, writes, faults, torn >>

Absent == [exists |-> FALSE, default |-> FALSE, mints |-> FALSE]
NoRow == [id |-> 0, store |-> NoStore, main |-> NoAddress, tax |-> 0, splits |-> << >>]
NoPlan == [outs |-> << >>]
Idle == [at |-> "idle"]

Total(seq) == FoldSeq(LAMBDA x, sum : x + sum, 0, seq)

Existing == {s \in Stores : stores[s].exists}
Defaults == {s \in Stores : stores[s].default}

-----------------------------------------------------------------------------
(* The validators of setups.rs.  A tax or a split that is disabled is 0 or *)
(* empty: its address and percentage are stored as NULL with it.           *)

\* Mutant: the platform's share is forgotten.
validate_tax_Whole(tax) == tax \in 0 .. MaxBps

validate_tax(tax) == tax \in 0 .. MaxBps - PlatformBps

normalize_splits(splits) ==
    /\ Len(splits) <= 5
    /\ \A i \in DOMAIN splits : splits[i] \in 1 .. MaxBps
    /\ Total(splits) <= MaxBps

Valid(row) == validate_tax(row.tax) /\ normalize_splits(row.splits)

\* Bodies as serde reads them; the setups of before were validated as well.
ASSUME ConfigsAssumption ==
    /\ \A c \in Configs \cup {Legacy} :
           /\ c = [main |-> c.main, tax |-> c.tax, splits |-> c.splits]
           /\ c.tax \in Nat /\ c.splits \in Seq(Nat)
    /\ \A p \in Patches :
           /\ p = [main |-> p.main, tax |-> p.tax, splits |-> p.splits]
           /\ p.tax = Keep \/ p.tax \in Nat
           /\ p.splits = Keep \/ p.splits \in Seq(Nat)
    /\ Valid(Legacy)

-----------------------------------------------------------------------------
(* The split plan of kpr1.rs. *)

bps_amount(gross, bps) == (gross * bps) \div MaxBps

platform_fee_total(gross) == bps_amount(gross, PlatformBps) + PlatformFlat

\* Mutant: the rounded-up guess alone.
customer_paid_amounts_Guess(requested) ==
    ((requested + PlatformFlat) * MaxBps + MaxBps - PlatformBps - 1)
        \div (MaxBps - PlatformBps)

\* customer_paid_amounts: the rounded-up guess and the two loops after it,
\* up while the fee leaves too little, down while one sompi less is enough.
customer_paid_amounts(requested) ==
    LET target == requested + PlatformFlat
        denominator == MaxBps - PlatformBps
        guess == (target * MaxBps + denominator - 1) \div denominator
        enough(total) == total - bps_amount(total, PlatformBps) >= target
        raised == Min({t \in guess .. guess + MaxBps : enough(t)})
    IN  Min({t \in target .. raised : \A u \in t .. raised : enough(u)})

settlement_storage_mass(values) ==
    FoldSeq(LAMBDA v, sum : sum + IF v > 0 THEN MassParam \div v ELSE 0, 0, values)

\* The outputs of a plan: merchant_net, tax when there is one, the splits and
\* the platform's fee; and the commitment to the rates of the row.
Plan(row, amount) ==
    LET fee == platform_fee_total(amount)
        tax == bps_amount(amount, row.tax)
        splits == [i \in DOMAIN row.splits |-> bps_amount(amount, row.splits[i])]
    IN  [outs |-> << amount - fee - tax - Total(splits) >>
                  \o (IF tax > 0 THEN << tax >> ELSE << >>)
                  \o splits \o << fee >>,
         commitment |-> << row.main, row.tax, row.splits >>]

\* Read back from the row, by the rules of normalize_splits once more.
resolve_split_config(row) ==
    /\ Len(row.splits) <= 5
    /\ \A i \in DOMAIN row.splits : row.splits[i] > 0
    /\ Total(row.splits) <= MaxBps

\* Every early return of compute_split_plan.
Accepts(row, amount) ==
    LET outs == Plan(row, amount).outs
    IN  /\ amount >= MinInvoice
        /\ row.main # NoAddress
        /\ resolve_split_config(row)
        /\ row.tax > 0 => bps_amount(amount, row.tax) > 0
        /\ \A i \in DOMAIN row.splits : bps_amount(amount, row.splits[i]) > 0
        /\ row.tax + PlatformBps + Total(row.splits) <= MaxBps
        /\ Head(outs) > 0
        /\ settlement_storage_mass(outs) <= MaxMass

\* The row compute_split_plan works from: one of the store's own, whichever
\* the database returns first, or else one of no store.
RowsOf(s) == {r \in setups : r.store = s}

PlanRows(s) == IF RowsOf(s) # {} THEN RowsOf(s) ELSE RowsOf(NoStore)

compute_split_plan(s, amount) ==
    {Plan(r, amount) : r \in {x \in PlanRows(s) : Accepts(x, amount)}}

-----------------------------------------------------------------------------
(* Requests.  A handler first resolves the store it works on: the one it   *)
(* names, or the default one, created by the first request to need it.     *)

Become(q, next) == op' = [op EXCEPT ![q] = next]

\* Which store a copy is from, and the sections it takes (the redirects and the
\* webhook address have no rate in them).
Copies ==
    {[do |-> "copy", source |-> s, sections |-> w] :
        s \in Existing, w \in {{"payout", "tax"}, {"split"}}}

Writes ==
         {[do |-> "save", cfg |-> c] : c \in Configs}
    \cup {[do |-> "merge", cfg |-> p] : p \in Patches}
    \cup Copies
    \cup {[do |-> d] : d \in {"default", "create", "link_create"}}
    \cup {[do |-> d] : d \in IF link.status = "none" THEN {}
                             ELSE {"link_active", "link_disabled"}}

\* A checkout of the link spawns an invoice, if the link is active when read.
LinkMints ==
    IF link.status = "active"
    THEN {[do |-> "checkout", asked |-> LinkAmount, pays |-> "customer_pays"]} ELSE {}

Mints ==
    LinkMints \cup {[do |-> "mint", asked |-> a, pays |-> p] :
                       a \in Amounts, p \in {"customer_pays", "merchant_subsidized"}}

Minting == {q \in Requests : op[q] # Idle /\ op[q].want.do \in {"mint", "checkout"}}

\* The store a request names: a copy and a switch always name one, a new store
\* none, a checkout that of its link; setups, links and invoices have a route
\* or a field for either.
Named(want) ==
    IF want.do \in {"copy", "default"} THEN Existing
    ELSE IF want.do = "create" THEN {NoStore}
    ELSE IF want.do = "checkout" THEN {link.store}
    ELSE {NoStore} \cup Existing

Begin(q) ==
    /\ op[q] = Idle
    /\ \/ /\ writes < MaxWrites
          /\ writes' = writes + 1
          /\ \E want \in Writes : \E s \in Named(want) :
                 Become(q, [at |-> "resolve", store |-> s, want |-> want])
       \/ /\ Len(invoices) + Cardinality(Minting) < MaxInvoices
          /\ UNCHANGED writes
          /\ \E want \in Mints : \E s \in Named(want) :
                 Become(q, [at |-> "resolve", store |-> s, want |-> want])
    /\ UNCHANGED << stores, setups, link, invoices, faults, torn >>

\* The first statement after the store is resolved.  `default' is what the
\* handler read of is_default, and keeps.
After(o, s, default) ==
    LET first == CASE o.want.do \in {"save", "merge", "copy"} -> "find"
                   [] o.want.do \in {"mint", "checkout"} -> "insert"
                   [] OTHER -> o.want.do
    IN  [at |-> first, store |-> s, default |-> default, want |-> o.want,
         of |-> IF o.want.do = "copy" THEN "source" ELSE "target",
         row |-> NoRow, source |-> NoRow]

\* POST /api/setup validates the body before its first lookup.
Resolved(o, s, default) ==
    IF o.want.do = "save" /\ ~ Valid(o.want.cfg) THEN Idle ELSE After(o, s, default)

\* stores.rs resolves the default store only to create it.
resolve_store(q) ==
    LET o == op[q]
        lazy == o.store = NoStore \/ o.want.do = "default"
    IN  /\ o.at = "resolve"
        /\ IF lazy /\ Defaults = {}
           THEN Become(q, [o EXCEPT !.at = "ensure"])
           ELSE \E s \in (IF o.store = NoStore THEN Defaults ELSE {o.store}) :
                    Become(q, Resolved(o, s, Defaults))
        /\ UNCHANGED << stores, setups, link, invoices, writes, faults, torn >>

\* ensure_default_store finds no default: it inserts the included store, which
\* fails on its public_id when the merchant already has it.
ensure_default_store(q) ==
    LET o == op[q]
        s == IF o.store = NoStore THEN Included ELSE o.store
    IN  /\ o.at = "ensure"
        /\ IF Included \in Existing
           THEN Become(q, Idle) /\ UNCHANGED stores
           ELSE /\ stores' = [stores EXCEPT ![Included] =
                       [exists |-> TRUE, default |-> TRUE, mints |-> TRUE]]
                /\ Become(q, Resolved(o, s, Defaults \cup {Included}))
        /\ UNCHANGED << setups, link, invoices, writes, faults, torn >>

-----------------------------------------------------------------------------
(* stores.rs *)

\* The included store, or one with an entitlement.
assert_can_create_new_payments(s) == stores[s].mints

\* POST /api/stores: disabled, not the default, to be paid for.
create_store(q) ==
    /\ op[q].at = "create"
    /\ \E s \in Others \ Existing :
           stores' = [stores EXCEPT ![s].exists = TRUE]
    /\ Become(q, Idle)
    /\ UNCHANGED << setups, link, invoices, writes, faults, torn >>

\* An entitlement of a created store, bought and activated elsewhere.
Entitle(s) ==
    /\ s \in Existing /\ ~ stores[s].mints
    /\ stores' = [stores EXCEPT ![s].mints = TRUE]
    /\ UNCHANGED << setups, link, invoices, op, writes, faults, torn >>

\* Mutant: assert_can_create_new_payments comes after the clearing statement.
clear_default_First(q) ==
    /\ op[q].at = "default"
    /\ stores' = [s \in Stores |-> [stores[s] EXCEPT !.default = FALSE]]
    /\ Become(q, IF assert_can_create_new_payments(op[q].store) THEN [op[q] EXCEPT !.at = "set"] ELSE Idle)
    /\ UNCHANGED << setups, link, invoices, writes, faults, torn >>

\* set_default clears every default of the merchant first, which the partial
\* unique index asks for, ...
clear_default(q) ==
    /\ op[q].at = "default"
    /\ IF assert_can_create_new_payments(op[q].store)
       THEN /\ stores' = [s \in Stores |-> [stores[s] EXCEPT !.default = FALSE]]
            /\ Become(q, [op[q] EXCEPT !.at = "set"])
       ELSE Become(q, Idle) /\ UNCHANGED stores
    /\ UNCHANGED << setups, link, invoices, writes, faults, torn >>

\* ... then marks the new one; a default set meanwhile fails the index.
set_default(q) ==
    /\ op[q].at = "set"
    /\ stores' = IF Defaults \subseteq {op[q].store}
                 THEN [stores EXCEPT ![op[q].store].default = TRUE]
                 ELSE stores
    /\ Become(q, Idle)
    /\ UNCHANGED << setups, link, invoices, writes, faults, torn >>

-----------------------------------------------------------------------------
(* setups.rs: a setup is looked up, changed in memory, written back.       *)

Subject(o) == IF o.of = "source" THEN o.want.source ELSE o.store

\* find_setup: a row of the store; for the default store, the oldest row of no
\* store, which the next statement adopts; or none.
Found(o) ==
    IF RowsOf(Subject(o)) # {} THEN RowsOf(Subject(o))
    ELSE IF Subject(o) \in o.default /\ RowsOf(NoStore) # {}
         THEN {CHOOSE r \in RowsOf(NoStore) : \A t \in RowsOf(NoStore) : r.id <= t.id}
    ELSE {NoRow}

\* What the write will store: the whole configuration of a POST, the fields
\* a PUT names over the row it read, the copied sections over the target's.
apply_sections(o, row) ==
    LET w == o.want.sections
    IN  [row EXCEPT !.main = IF "payout" \in w THEN o.source.main ELSE @,
                    !.tax = IF "tax" \in w THEN o.source.tax ELSE @,
                    !.splits = IF "split" \in w THEN o.source.splits ELSE @]

Content(o, row) ==
    CASE o.want.do = "save" ->
             [row EXCEPT !.main = o.want.cfg.main, !.tax = o.want.cfg.tax,
                         !.splits = o.want.cfg.splits]
      [] o.want.do = "merge" ->
             [row EXCEPT !.main = o.want.cfg.main,
                         !.tax = IF o.want.cfg.tax = Keep THEN @ ELSE o.want.cfg.tax,
                         !.splits = IF o.want.cfg.splits = Keep THEN @ ELSE o.want.cfg.splits]
      [] OTHER -> apply_sections(o, row)

\* Where the handler goes with the row its lookup gave.
Onward(o, row) ==
    IF o.of = "source"
    THEN IF row = NoRow THEN Idle
         ELSE [o EXCEPT !.at = "find", !.of = "target", !.source = row]
    ELSE IF o.want.do = "merge" /\ (row = NoRow \/ ~ Valid(Content(o, row))) THEN Idle
    ELSE [o EXCEPT !.at = "write", !.row = Content(o, row)]

find_setup(q) ==
    /\ op[q].at = "find"
    /\ \E r \in Found(op[q]) :
           Become(q, IF r # NoRow /\ r.store = NoStore
                     THEN [op[q] EXCEPT !.at = "adopt", !.row = r]
                     ELSE Onward(op[q], r))
    /\ UNCHANGED << stores, setups, link, invoices, writes, faults, torn >>

\* Replace the row of an id.
Put(row) == {r \in setups : r.id # row.id} \cup {row}

\* UPDATE setups SET store_id: whatever the row's store is by now.
adopt_legacy(q) ==
    LET o == op[q]
        now == CHOOSE r \in setups : r.id = o.row.id
    IN  /\ o.at = "adopt"
        /\ setups' = Put([now EXCEPT !.store = Subject(o)])
        /\ Become(q, Onward([o EXCEPT !.row = NoRow], [o.row EXCEPT !.store = Subject(o)]))
        /\ UNCHANGED << stores, link, invoices, writes, faults, torn >>

\* The row an INSERT adds.
Fresh(o) == [o.row EXCEPT !.id = Cardinality(setups) + 1, !.store = o.store]

\* upsert_kaspa_setup, the UPDATE of update_setup_for_store, upsert_full_setup:
\* every rate of the row is overwritten; no row found means a new one.
write_setup(q) ==
    LET o == op[q]
        now == CHOOSE r \in setups : r.id = o.row.id
    IN  /\ o.at = "write"
        /\ setups' = IF o.row.id = 0
                     THEN setups \cup {Fresh(o)}
                     ELSE Put([o.row EXCEPT !.store = now.store])
        /\ Become(q, Idle)
        /\ UNCHANGED << stores, link, invoices, writes, faults, torn >>

-----------------------------------------------------------------------------
(* payment_links.rs, and create_for_merchant of invoices.rs *)

link_store(q) ==
    /\ op[q].at = "link_create"
    /\ link' = IF link.status = "none"
               THEN [status |-> "active", store |-> op[q].store] ELSE link
    /\ Become(q, Idle)
    /\ UNCHANGED << stores, setups, invoices, writes, faults, torn >>

\* disable and enable find the link only under the store they resolved.
link_set_status(q) ==
    /\ op[q].at \in {"link_active", "link_disabled"}
    /\ link' = IF link.store # op[q].store THEN link
               ELSE [link EXCEPT !.status =
                        IF op[q].at = "link_active" THEN "active" ELSE "disabled"]
    /\ Become(q, Idle)
    /\ UNCHANGED << stores, setups, invoices, writes, faults, torn >>

\* customer_paid_amounts refuses a fee of everything.
CanCharge(pays) == pays = "customer_pays" => PlatformBps < MaxBps

\* A store that may not mint refuses.  The invoice is inserted before its
\* plan is computed, with the total its payer will be asked for.
create_for_merchant(q) ==
    LET o == op[q]
        total == IF o.want.pays = "customer_pays"
                 THEN customer_paid_amounts(o.want.asked) ELSE o.want.asked
    IN  /\ o.at = "insert"
        /\ IF assert_can_create_new_payments(o.store) /\ CanCharge(o.want.pays)
           THEN /\ invoices' = Append(invoices,
                       [store |-> o.store, asked |-> o.want.asked, pays |-> o.want.pays,
                        total |-> total, plan |-> NoPlan])
                /\ Become(q, [at |-> "plan", id |-> Len(invoices) + 1, want |-> o.want])
           ELSE Become(q, Idle) /\ UNCHANGED invoices
        /\ UNCHANGED << stores, setups, link, writes, faults, torn >>

\* create_for_invoice: a plan refused leaves the invoice open and without one.
create_for_invoice(q) ==
    LET o == op[q]
        inv == invoices[o.id]
        refused == \E r \in PlanRows(inv.store) : ~ Accepts(r, inv.total)
    IN  /\ o.at = "plan"
        /\ \/ \E p \in compute_split_plan(inv.store, inv.total) :
                  invoices' = [invoices EXCEPT ![o.id].plan = p]
           \/ /\ refused \/ PlanRows(inv.store) = {}
              /\ UNCHANGED invoices
        /\ Become(q, Idle)
        /\ UNCHANGED << stores, setups, link, writes, faults, torn >>

-----------------------------------------------------------------------------

\* The process dies: every request in progress stops where it is.
Crash ==
    /\ faults < MaxFaults
    /\ \E q \in Requests : op[q] # Idle
    /\ faults' = faults + 1
    /\ torn' = (torn \/ \E q \in Requests : op[q].at = "set")
    /\ op' = [q \in Requests |-> Idle]
    /\ UNCHANGED << stores, setups, link, invoices, writes >>

\* The next statement of a request fails, and with it the request; what the
\* statements before it wrote stays.
StatementFails(q) ==
    /\ faults < MaxFaults /\ op[q] # Idle
    /\ faults' = faults + 1
    /\ torn' = (torn \/ op[q].at = "set")
    /\ Become(q, Idle)
    /\ UNCHANGED << stores, setups, link, invoices, writes >>

\* A merchant with nothing yet, or with setups from before there were stores.
Init ==
    /\ stores = [s \in Stores |-> Absent]
    /\ setups \in {{}, {[id |-> 1, store |-> NoStore, main |-> Legacy.main,
                         tax |-> Legacy.tax, splits |-> Legacy.splits]}}
    /\ link = [status |-> "none", store |-> NoStore]
    /\ invoices = << >>
    /\ op = [q \in Requests |-> Idle]
    /\ writes = 0 /\ faults = 0 /\ torn = FALSE

Step(q) ==
    \/ Begin(q) \/ resolve_store(q) \/ ensure_default_store(q)
    \/ create_store(q) \/ clear_default(q) \/ set_default(q)
    \/ find_setup(q) \/ adopt_legacy(q) \/ write_setup(q)
    \/ link_store(q) \/ link_set_status(q)
    \/ create_for_merchant(q) \/ create_for_invoice(q)
    \/ StatementFails(q)

Next == Crash \/ (\E q \in Requests : Step(q)) \/ \E s \in Others : Entitle(s)

Spec == Init /\ [][Next]_vars

-----------------------------------------------------------------------------

\* Types; and whatever saves, merges and copies meet, and however stale the
\* row one of them read, a stored configuration keeps the bounds of
\* setups.rs: at most five splits of at most the whole, and a tax that leaves
\* the platform its share.
TypeOK ==
    /\ \A s \in Stores : DOMAIN stores[s] = DOMAIN Absent
    /\ \A r \in setups :
           /\ r.store \in Existing \cup {NoStore}
           /\ r.tax \in 0 .. MaxBps - PlatformBps
           /\ Len(r.splits) <= 5 /\ Total(r.splits) <= MaxBps
    /\ \A r, t \in setups : r.id = t.id => r = t
    /\ link.status \in {"none", "active", "disabled"}
    /\ \A i \in DOMAIN invoices : invoices[i].total \in Nat
    /\ \A q \in Requests : op[q].at \in
           {"idle", "resolve", "ensure", "create", "default", "set", "find", "adopt",
            "write", "link_create", "link_active", "link_disabled", "insert", "plan"}

\* A merchant with stores has exactly one default store, which
\* ensure_default_store answers every request without a store with, unless a
\* switch of it is between its two statements, or was cut short there: the
\* process died, or the second statement failed.
OneDefaultStore ==
    /\ Cardinality(Defaults) <= 1
    /\ Existing # {} /\ Defaults = {} =>
           torn \/ \E q \in Requests : op[q].at = "set"

\* Every plan an invoice is minted with pays out the invoice to the sompi, the
\* platform its fee in the last output and everybody else more than nothing:
\* the fee's own output alone may be empty, when the fee rounds to nothing, as
\* outputs_json drops an empty tax but never the fee. And a payer who bears the
\* fee pays the least total that leaves the merchant's side what was asked,
\* although the total was fixed before the fee on it was computed, and the
\* setup read after.
PlansSettle ==
    \A i \in DOMAIN invoices :
        LET inv == invoices[i]
            outs == inv.plan.outs
            left(total) == total - platform_fee_total(total)
        IN  inv.plan # NoPlan =>
                /\ Total(outs) = inv.total
                /\ Last(outs) = platform_fee_total(inv.total)
                /\ \A k \in DOMAIN Front(outs) : outs[k] > 0
                /\ inv.pays = "customer_pays" =>
                       /\ Total(Front(outs)) >= inv.asked
                       /\ left(inv.total - 1) < inv.asked
=============================================================================
