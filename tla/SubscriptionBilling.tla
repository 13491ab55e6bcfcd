------------------------- MODULE SubscriptionBilling -------------------------
(***************************************************************************)
(* Subscriptions, their cycles and the invoices that bill them: the biller *)
(* with its two scans, the requests that create a subscription, retry a    *)
(* past due cycle, pause, resume and cancel, and the life of an invoice as *)
(* far as it changes its cycle (module PaymentWindow has the rest of it).  *)
(*                                                                         *)
(* An action is one SQL statement, with the decisions it leads to.  Reads  *)
(* with no write between them and no decision on what they read are one    *)
(* action.                                                                 *)
(***************************************************************************)
EXTENDS Naturals, Sequences, FiniteSets

CONSTANTS
  Subs,         \* ids of the subscriptions that may be created
  Creators,     \* POST subscriptions
  Retriers,     \* POST subscription retry-invoice
  Changers,     \* POST pause, resume, cancel (by the merchant or at checkout)
  Interval,     \* the plan's interval, in units of the model's time
  ScanBatch,    \* SCAN_BATCH
  MaxPeriods,   \* MAX_PERIODS_PER_TICK
  None,         \* SQL NULL
  MaxTime,      \* bound on time
  MaxAttempts,  \* bound on the invoices of one cycle
  MaxSetups,    \* bound on how often a merchant's set-up breaks
  MaxFaults     \* bound on failed statements and restarts

Biller   == "biller"
Requests == Creators \cup Retriers \cup Changers
Procs    == Requests \cup {Biller}
Times    == 0..MaxTime
Cycles   == Subs \X Times          \* a cycle is known by its period_start
Attempts == 1..MaxAttempts

ASSUME SubsAssumption == Subs \subseteq Nat \ {0}
ASSUME NumbersAssumption ==
  /\ Interval \in Nat \ {0} /\ MaxPeriods \in Nat \ {0}
  /\ ScanBatch \in Nat /\ MaxTime \in Nat /\ MaxAttempts \in Nat \ {0}
  /\ MaxSetups \in Nat /\ MaxFaults \in Nat
ASSUME NoneAssumption == None \notin Nat \cup Cycles
\* A request process serves one request: of any kind, if it is in several sets.
ASSUME ProcsAssumption == Biller \notin Requests

VARIABLES
  now,      \* the time
  sub,      \* subscriptions: status and next_billing_at
  cycle,    \* subscription_cycles: status, attempt_count, invoice_id
  order,    \* the cycles in the order of their ids
  invoice,  \* invoices and their intents, by cycle and attempt (external_id)
  setup,    \* what a mint meets: the merchant's entitlement and payout set-up
  job,      \* per process: where it is and what it has read
  queue,    \* the biller's scan results not yet handled
  setups, faults

vars == <<now, sub, cycle, order, invoice, setup, job, queue, setups, faults>>

(***************************************************************************)
(* "unentitled" fails before anything is written, "invalid" (no payout     *)
(* address, an amount that cannot be split) after the invoice row is.      *)
(***************************************************************************)
Setups == {"ok", "unentitled", "invalid"}

Sub     == [status: {"none", "active", "paused", "cancelled"}, next: Nat \cup {None}]
Cycle   == [status: {"none", "pending", "invoiced", "past_due", "paid"},
            attempts: 0..MaxAttempts, invoice: Attempts \cup {None}]
Invoice == [status: {"none", "open", "expired", "paid"},
            intent: {"none", "created", "submitted"}]

DueLabels  == {"due_read", "due_cycle", "due_insert", "due_advance"}
MintLabels == {"mint_cycle", "mint_check", "mint_insert", "mint_intent", "mint_attach"}
Labels     == {"idle", "done", "due_next", "orphan_scan", "orphan_next", "change"}
              \cup DueLabels \cup MintLabels
Changes    == {"pause", "resume", "cancel"}
Job == [pc: Labels, sub: Subs \cup {None}, start: Times \cup {None},
        attempt: Attempts, retry: BOOLEAN, due: BOOLEAN, now: Times, billed: Nat,
        change: Changes, reset: BOOLEAN]
Idle == [pc |-> "idle", sub |-> None, start |-> None, attempt |-> 1,
         retry |-> FALSE, due |-> FALSE, now |-> 0, billed |-> 0, change |-> "pause", reset |-> FALSE]

At(p, label)   == job[p].pc = label
Goto(p, label) == job' = [job EXCEPT ![p].pc = label]
Target(p)      == <<job[p].sub, job[p].start>>
Minting(p, c)  == job[p].pc \in MintLabels \ {"mint_cycle"} /\ Target(p) = c

Init ==
  /\ now = 0
  /\ sub = [s \in Subs |-> [status |-> "none", next |-> None]]
  /\ cycle = [c \in Cycles |-> [status |-> "none", attempts |-> 0, invoice |-> None]]
  /\ order = <<>>
  /\ invoice = [c \in Cycles |-> [k \in Attempts |-> [status |-> "none", intent |-> "none"]]]
  /\ setup = [s \in Subs |-> "ok"]
  /\ job = [p \in Procs |-> Idle]
  /\ queue = {}
  /\ setups = 0 /\ faults = 0

rows  == <<sub, cycle, order, invoice>>
world == <<now, setup, setups, faults>>

(***************************************************************************)
(* How a process goes on after billing one period or one orphan.  The      *)
(* biller bills the same subscription again until it is caught up, has     *)
(* reached its cap, or failed; a request answers.                          *)
(***************************************************************************)
Rest(p) == [Idle EXCEPT !.pc = "done"]
Failed(p) ==
  IF p = Biller
    THEN [Idle EXCEPT !.pc = IF job[p].due THEN "due_next" ELSE "orphan_next",
                      !.due = job[p].due, !.now = job[p].now]
    ELSE Rest(p)
Billed(p) ==
  IF p = Biller /\ job[p].due /\ job[p].billed + 1 < MaxPeriods
    THEN [Idle EXCEPT !.pc = "due_read", !.sub = job[p].sub, !.due = TRUE,
                      !.now = job[p].now, !.billed = job[p].billed + 1]
    ELSE Failed(p)
Gives(p, record) == job' = [job EXCEPT ![p] = record]

-----------------------------------------------------------------------------
(* generate_due_invoice: one period of one subscription.                   *)

\* The subscription as it is now, judged by the time of the tick.
DueRead(p) ==
  /\ At(p, "due_read")
  /\ LET s == sub[job[p].sub]
     IN  IF s.next # None /\ s.status = "active" /\ s.next <= job[p].now
           THEN job' = [job EXCEPT ![p].pc = "due_cycle", ![p].start = s.next]
           ELSE Gives(p, Failed(p))
  /\ UNCHANGED <<rows, world, queue>>

DueCycle(p) ==
  /\ At(p, "due_cycle")
  /\ IF cycle[Target(p)].status = "none" THEN Goto(p, "due_insert")
                                         ELSE Goto(p, "due_advance")
  /\ UNCHANGED <<rows, world, queue>>

\* The index on (subscription_id, period_start) refuses a second row.
DueInsert(p) ==
  /\ At(p, "due_insert")
  /\ IF cycle[Target(p)].status = "none"
       THEN /\ cycle' = [cycle EXCEPT ![Target(p)].status = "pending"]
            /\ order' = Append(order, Target(p))
            /\ Goto(p, "due_advance")
       ELSE /\ Gives(p, Failed(p))
            /\ UNCHANGED <<cycle, order>>
  /\ UNCHANGED <<sub, invoice, world, queue>>

\* next_billing_at := period_end, whatever the row says by now.
DueAdvance(p) ==
  /\ At(p, "due_advance")
  /\ sub' = [sub EXCEPT ![job[p].sub].next = job[p].start + Interval]
  /\ Goto(p, "mint_cycle")
  /\ UNCHANGED <<cycle, order, invoice, world, queue>>

-----------------------------------------------------------------------------
(* generate_invoice_for_cycle, with create_for_merchant inside it.         *)

\* Mutant: an invoice that is already there is not looked for.
MintCycle_Again(p) ==
  /\ At(p, "mint_cycle")
  /\ LET c        == cycle[Target(p)]
         refused  == \/ c.status = "paid"
                     \/ job[p].retry /\ c.status # "past_due"
                     \/ c.attempts = MaxAttempts
     IN  \/ /\ refused
            /\ Gives(p, Failed(p))
         \/ /\ ~refused
            /\ job' = [job EXCEPT ![p].pc = "mint_check", ![p].attempt = c.attempts + 1]
  /\ UNCHANGED <<rows, world, queue>>

\* Refused (or at the bound), already invoiced, or the next attempt.
MintCycle(p) ==
  /\ At(p, "mint_cycle")
  /\ LET c        == cycle[Target(p)]
         refused  == \/ c.status = "paid"
                     \/ job[p].retry /\ c.status # "past_due"
                     \/ c.attempts = MaxAttempts
         existing == ~job[p].retry /\ c.invoice # None
     IN  \/ /\ refused
            /\ Gives(p, Failed(p))
         \/ /\ ~refused /\ existing
            /\ Gives(p, Billed(p))
         \/ /\ ~refused /\ ~existing
            /\ job' = [job EXCEPT ![p].pc = "mint_check", ![p].attempt = c.attempts + 1]
  /\ UNCHANGED <<rows, world, queue>>

\* The external id <subscription>:<cycle>:<attempt> is in use.
Taken(p) == invoice[Target(p)][job[p].attempt].status # "none"

MintCheck(p) ==
  /\ At(p, "mint_check")
  /\ IF setup[job[p].sub] = "unentitled" \/ Taken(p)
       THEN Gives(p, Failed(p)) ELSE Goto(p, "mint_insert")
  /\ UNCHANGED <<rows, world, queue>>

\* The index on (user_id, external_id) refuses a second row.
MintInsert(p) ==
  /\ At(p, "mint_insert")
  /\ IF Taken(p)
       THEN /\ Gives(p, Failed(p))
            /\ UNCHANGED invoice
       ELSE /\ invoice' = [invoice EXCEPT ![Target(p)][job[p].attempt].status = "open"]
            /\ Goto(p, "mint_intent")
  /\ UNCHANGED <<sub, cycle, order, world, queue>>

\* create_for_invoice; the invoice row stays when it fails.
MintIntent(p) ==
  /\ At(p, "mint_intent")
  /\ IF setup[job[p].sub] = "invalid"
       THEN /\ Gives(p, Failed(p))
            /\ UNCHANGED invoice
       ELSE /\ invoice' = [invoice EXCEPT ![Target(p)][job[p].attempt].intent = "created"]
            /\ Goto(p, "mint_attach")
  /\ UNCHANGED <<sub, cycle, order, world, queue>>

\* Mutant: the attempt is added to the count.
MintAttach_Adds(p) ==
  /\ At(p, "mint_attach")
  /\ cycle' = [cycle EXCEPT ![Target(p)] =
                 [status |-> "invoiced", attempts |-> @.attempts + job[p].attempt,
                  invoice |-> job[p].attempt]]
  /\ Gives(p, Billed(p))
  /\ UNCHANGED <<sub, order, invoice, world, queue>>

\* Unconditional: WHERE id = $.  What follows (the snapshot of the plan, the
\* event) changes nothing that is modelled.
MintAttach(p) ==
  /\ At(p, "mint_attach")
  /\ cycle' = [cycle EXCEPT ![Target(p)] =
                 [status |-> "invoiced", attempts |-> job[p].attempt,
                  invoice |-> job[p].attempt]]
  /\ Gives(p, Billed(p))
  /\ UNCHANGED <<sub, order, invoice, world, queue>>

Generate(p) ==
  \/ DueRead(p) \/ DueCycle(p) \/ DueInsert(p) \/ DueAdvance(p)
  \/ MintCycle(p) \/ MintCheck(p) \/ MintInsert(p) \/ MintIntent(p) \/ MintAttach(p)

-----------------------------------------------------------------------------
(* The biller's tick.                                                      *)

Due == {s \in Subs : sub[s].status = "active" /\ sub[s].next # None /\ sub[s].next <= now}

\* ORDER BY next_billing_at, id
Before(r, s) == sub[r].next < sub[s].next \/ (sub[r].next = sub[s].next /\ r < s)

\* LIMIT SCAN_BATCH.  Only the ids are used again: each row is read anew.
BillerScan ==
  /\ At(Biller, "idle")
  /\ LET chosen == {s \in Due : Cardinality({r \in Due : Before(r, s)}) < ScanBatch}
     IN  queue' = {<<s, sub[s].next>> : s \in chosen}
  /\ job' = [job EXCEPT ![Biller].pc = "due_next", ![Biller].due = TRUE, ![Biller].now = now]
  /\ UNCHANGED <<rows, world>>

BillerDueNext ==
  /\ At(Biller, "due_next")
  /\ \/ \E c \in queue :
          /\ queue' = queue \ {c}
          /\ job' = [job EXCEPT ![Biller].pc = "due_read", ![Biller].sub = c[1]]
     \/ /\ queue = {}
        /\ Gives(Biller, [Idle EXCEPT !.pc = "orphan_scan", !.now = job[Biller].now])
        /\ UNCHANGED queue
  /\ UNCHANGED <<rows, world>>

\* The positions in order, the cycles' ids, of pending cycles without an invoice.
Orphans == {i \in 1..Len(order) :
  /\ cycle[order[i]].status = "pending" /\ cycle[order[i]].invoice = None
  /\ sub[order[i][1]].status = "active"}

\* Mutant: only cycles that were tried before.
BillerOrphanScan_Tried ==
  /\ At(Biller, "orphan_scan")
  /\ queue' = {order[i] : i \in {j \in Orphans : cycle[order[j]].attempts > 0}}
  /\ Goto(Biller, "orphan_next")
  /\ UNCHANGED <<rows, world>>

\* ORDER BY cy.id LIMIT SCAN_BATCH
BillerOrphanScan ==
  /\ At(Biller, "orphan_scan")
  /\ queue' = {order[i] : i \in {j \in Orphans :
                                   Cardinality({l \in Orphans : l < j}) < ScanBatch}}
  /\ Goto(Biller, "orphan_next")
  /\ UNCHANGED <<rows, world>>

BillerOrphanNext ==
  /\ At(Biller, "orphan_next")
  /\ \/ \E c \in queue :
          /\ queue' = queue \ {c}
          /\ job' = [job EXCEPT ![Biller].pc = "mint_cycle", ![Biller].sub = c[1],
                                ![Biller].start = c[2]]
     \/ /\ queue = {}
        /\ Gives(Biller, Idle)
        /\ UNCHANGED queue
  /\ UNCHANGED <<rows, world>>

BillerTick == BillerScan \/ BillerDueNext \/ BillerOrphanScan \/ BillerOrphanNext

-----------------------------------------------------------------------------
(* The requests.                                                           *)

\* subs_store, its preflight passed: the row, then the first period if it is due.
Create(p, s, start) ==
  /\ p \in Creators /\ At(p, "idle")
  /\ sub[s].status = "none" /\ setup[s] = "ok"
  /\ sub' = [sub EXCEPT ![s] = [status |-> "active", next |-> start]]
  /\ IF start <= now
       THEN job' = [job EXCEPT ![p].pc = "due_read", ![p].sub = s, ![p].now = now]
       ELSE Gives(p, Rest(p))
  /\ UNCHANGED <<cycle, order, invoice, world, queue>>

\* subs_retry_invoice: the latest past due cycle, whatever became of the
\* subscription.
Retry(p, c) ==
  /\ p \in Retriers /\ At(p, "idle")
  /\ cycle[c].status = "past_due"
  /\ \A t \in Times : cycle[<<c[1], t>>].status = "past_due" => t <= c[2]
  /\ job' = [job EXCEPT ![p].pc = "mint_cycle", ![p].sub = c[1], ![p].start = c[2],
                        ![p].retry = TRUE]
  /\ UNCHANGED <<rows, world, queue>>

\* set_sub_status and cancel_subscription: the status as read decides.
ChangeRead(p, s, change) ==
  /\ p \in Changers /\ At(p, "idle")
  /\ \/ change = "pause"  /\ sub[s].status \in {"active", "paused"}
     \/ change = "resume" /\ sub[s].status = "paused"
     \/ change = "cancel" /\ sub[s].status \in {"active", "paused"}
  /\ job' = [job EXCEPT ![p].pc = "change", ![p].sub = s, ![p].change = change,
                        ![p].reset = (sub[s].next = None)]
  /\ UNCHANGED <<rows, world, queue>>

ChangeWrite(p) ==
  /\ At(p, "change")
  /\ LET s == job[p].sub
     IN  sub' = CASE job[p].change = "pause"  -> [sub EXCEPT ![s].status = "paused"]
                  [] job[p].change = "cancel" ->
                       [sub EXCEPT ![s] = [status |-> "cancelled", next |-> None]]
                  [] job[p].change = "resume" ->
                       [sub EXCEPT ![s].status = "active",
                                   ![s].next = IF job[p].reset THEN now ELSE @]
  /\ Gives(p, Rest(p))
  /\ UNCHANGED <<cycle, order, invoice, world, queue>>

-----------------------------------------------------------------------------
(* What happens to an invoice, as far as its cycle can tell.  None of it   *)
(* waits for a mint of the same cycle that is on its way.                  *)

\* Mutant: the expiry does not look at the status of the cycle.
Expire_PaidToo(c, k) ==
  /\ invoice[c][k].status = "open" /\ invoice[c][k].intent # "submitted"
  /\ invoice' = [invoice EXCEPT ![c][k].status = "expired"]
  /\ cycle' = IF cycle[c].invoice = k
                THEN [cycle EXCEPT ![c].status = "past_due"] ELSE cycle
  /\ UNCHANGED <<sub, order, job, world, queue>>

\* expire_invoice without a timely submission; the cycle is found by invoice_id.
Expire(c, k) ==
  /\ invoice[c][k].status = "open" /\ invoice[c][k].intent # "submitted"
  /\ invoice' = [invoice EXCEPT ![c][k].status = "expired"]
  /\ cycle' = IF cycle[c].invoice = k /\ cycle[c].status # "paid"
                THEN [cycle EXCEPT ![c].status = "past_due"] ELSE cycle
  /\ UNCHANGED <<sub, order, job, world, queue>>

\* A timely submission is recorded: of an open invoice, or of one whose expiry it
\* crossed and which it reopens.
Submit(c, k) ==
  /\ invoice[c][k].status \in {"open", "expired"} /\ invoice[c][k].intent = "created"
  /\ invoice' = [invoice EXCEPT ![c][k] = [status |-> "open", intent |-> "submitted"]]
  /\ cycle' = IF cycle[c].invoice = k /\ cycle[c].status = "past_due"
                THEN [cycle EXCEPT ![c].status = "invoiced"] ELSE cycle
  /\ UNCHANGED <<sub, order, job, world, queue>>

\* mark_invoice_paid and mark_cycle_paid; the cycle is found by the invoice's
\* subscription_cycle_id.
Pay(c, k) ==
  /\ invoice[c][k].status = "open" /\ invoice[c][k].intent = "submitted"
  /\ invoice' = [invoice EXCEPT ![c][k].status = "paid"]
  /\ cycle' = [cycle EXCEPT ![c].status = "paid"]
  /\ UNCHANGED <<sub, order, job, world, queue>>

-----------------------------------------------------------------------------
(* Time, set-ups and failures.                                             *)

TimePasses ==
  /\ now < MaxTime
  /\ now' = now + 1
  /\ UNCHANGED <<rows, setup, job, queue, setups, faults>>

\* The merchant's entitlement or payout set-up breaks, or is put right.
SetupChanges(s, new) ==
  /\ setup[s] # new
  /\ \/ new = "ok" /\ setups' = setups
     \/ new # "ok" /\ setups < MaxSetups /\ setups' = setups + 1
  /\ setup' = [setup EXCEPT ![s] = new]
  /\ UNCHANGED <<rows, now, job, queue, faults>>

Busy(p) == job[p].pc \notin {"idle", "done"}

\* A statement fails: a scan ends the tick, anything else the item at hand.
StatementFails(p) ==
  /\ faults < MaxFaults /\ Busy(p) /\ job[p].pc \notin {"due_next", "orphan_next"}
  /\ faults' = faults + 1
  /\ IF At(p, "orphan_scan") THEN Gives(p, Idle) ELSE Gives(p, Failed(p))
  /\ UNCHANGED <<rows, now, setup, setups, queue>>

\* The process dies with everything in flight.
Crash ==
  /\ faults < MaxFaults
  /\ \E p \in Procs : Busy(p)
  /\ faults' = faults + 1
  /\ job' = [p \in Procs |-> IF p = Biller \/ At(p, "idle") THEN Idle ELSE Rest(p)]
  /\ queue' = {}
  /\ UNCHANGED <<rows, now, setup, setups>>

Next ==
  \/ \E p \in Procs : Generate(p) \/ StatementFails(p)
  \/ BillerTick
  \/ \E p \in Creators, s \in Subs, t \in Times : Create(p, s, t)
  \/ \E p \in Retriers, c \in Cycles : Retry(p, c)
  \/ \E p \in Changers : \/ \E s \in Subs, change \in Changes : ChangeRead(p, s, change)
                         \/ ChangeWrite(p)
  \/ \E c \in Cycles, k \in Attempts : Expire(c, k) \/ Submit(c, k) \/ Pay(c, k)
  \/ TimePasses
  \/ \E s \in Subs, new \in Setups : SetupChanges(s, new)
  \/ Crash

Spec == Init /\ [][Next]_vars

(***************************************************************************)
(* The biller polls, and a request once begun goes on.                     *)
(***************************************************************************)
Fairness ==
  /\ WF_vars(BillerTick \/ Generate(Biller))
  /\ \A p \in Requests : WF_vars(Generate(p) \/ ChangeWrite(p))

FairSpec == Spec /\ Fairness

-----------------------------------------------------------------------------
(* Properties.                                                             *)

TypeOK ==
  /\ now \in Times
  /\ sub \in [Subs -> Sub]
  /\ cycle \in [Cycles -> Cycle]
  /\ order \in Seq(Cycles)
  /\ invoice \in [Cycles -> [Attempts -> Invoice]]
  /\ setup \in [Subs -> Setups]
  /\ job \in [Procs -> Job]
  /\ queue \subseteq Cycles
  /\ setups \in 0..MaxSetups
  /\ faults \in 0..MaxFaults

\* No customer is asked twice for one period: of a cycle's invoices at most one
\* waits for a payment that nobody has submitted, though biller, creation and
\* concurrent retries read and write the cycle without guards and may fail
\* anywhere (the external id of the attempt is what keeps them apart).
OneAwaitingInvoice ==
  \A c \in Cycles :
    Cardinality({k \in Attempts : invoice[c][k].status = "open"
                                  /\ invoice[c][k].intent = "created"}) <= 1

\* A cycle that is paid while nobody is past the check of a mint for it stays so:
\* no expiry of a later invoice takes it back, and no biller, creation or retry
\* starts to bill it again.  (A retry already past its check does take it back: it
\* attaches its invoice whatever the cycle has become.)
Settled(c) == cycle[c].status = "paid" /\ \A p \in Procs : ~Minting(p, c)
PaidForGood == [][\A c \in Cycles : Settled(c) => Settled(c)']_vars

\* An invoice row is there that no cycle knows and nobody is about to attach: its
\* external id is burnt for the next mint of the cycle.
Burnt(c) ==
  /\ cycle[c].invoice = None /\ invoice[c][1].status # "none"
  /\ \A p \in Procs : ~Minting(p, c)

DuePeriod(s, t) ==
  /\ sub[s].status = "active" /\ t <= now
  /\ \/ sub[s].next = t
     \/ \E u \in Times : u + Interval = t /\ cycle[<<s, u>>].status # "none"

\* Every period of an active subscription, from its start on and one interval
\* after another, gets an invoice once it is due and the merchant's set-up works
\* for good, though the biller may have slept, failed or died between the cycle
\* and the invoice, and the creation and the biller may bill it at once.  What a
\* failure or a broken set-up can do is burn the external id of the cycle's first
\* invoice: nothing mints that cycle any more.
DuePeriodInvoiced ==
  \A s \in Subs, t \in Times :
    <>[](setup[s] = "ok") =>
      (DuePeriod(s, t)
       ~> (\/ cycle[<<s, t>>].invoice # None
           \/ Burnt(<<s, t>>) /\ (faults > 0 \/ setups > 0)
           \/ sub[s].status # "active"))
=============================================================================
