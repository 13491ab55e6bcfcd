------------------------- MODULE PaymentWindowProofs -------------------------
(***************************************************************************)
(* Proofs about PaymentWindow for any number of requests of every kind, of *)
(* transactions, failing statements and restarts.                          *)
(*                                                                         *)
(* Each handler writes on what it read some statements before.  The        *)
(* invariant says what is still true of that when it writes, and, where a  *)
(* handler leaves the rows apart, who is on the way to mend them.          *)
(***************************************************************************)
EXTENDS PaymentWindow, TLAPS

USE DEF outside

FinalizeLabels == {"finalize_intent", "finalize_address", "finalize_invoice"}
ObserveLabels  == {"observe_depth", "observe_outputs", "observe_record", "observe_intent",
                   "observe_anomaly"}
KeeperLabels   == {"keeper_claim", "keeper_broadcast", "keeper_intent", "keeper_invoice",
                   "keeper_cycle", "keeper_restore"}

\* Who runs which handler, and what a submission carries: past its checks it is
\* one that arrived by the deadline.
Placed(p, j) ==
  /\ j.pc \in SubmitLabels => p \in Submitters /\ j.tx \in TxIds
  /\ j.pc \in {"submit_claim", "submit_reopen", "submit_cycle"} => j.timely
  /\ j.pc \in FinalizeLabels => p \in Finalizers
  /\ j.pc \in ObserveLabels => p = Observer
  /\ j.pc \in KeeperLabels => p = Keeper
  /\ j.pc \in {"observe_depth", "observe_outputs"} => j.tx \in TxIds
  /\ j.pc \in ExpireLabels => p \notin {Observer, Keeper}

\* Unless one who had to was cut short, someone is on the way to open an invoice
\* that expired beside a submission in time, and to bring back its cycle.
InvoiceMended ==
  "invoice" \notin cut /\ TimelySubmission /\ invoice = "expired" =>
    \E p \in Procs : job[p].pc \in Reopens
CycleMended ==
  "cycle" \notin cut /\ TimelySubmission /\ cycle = "past_due" =>
    \E p \in Procs : job[p].pc \in Mends

\* An address is on record, or with a payer, only once its finalize has written it.
AddressesGiven ==
  /\ \A a \in Addresses : a \in receipts \/ a = intent.address =>
       job[a].pc \in {"finalize_invoice", "done"}
  /\ \A t \in TxIds :
       chain[t].address # None \/ chain[t].deep \/ chain[t].whole =>
         chain[t].address \in receipts

\* The recorded transaction pays an address that was given out.
PaymentSeen == /\ intent.tx # None /\ intent.address # None
               /\ chain[intent.tx].address # None
Funded == PaymentSeen /\ chain[intent.tx].exact /\ chain[intent.tx].deep

Spendable == {"funded", "settling", "captured"}
Spending  == {"keeper_broadcast", "keeper_intent"}
FundsKnown ==
  /\ intent.covenant \in Spendable => Funded
  /\ job[Keeper].pc \in Spending => Funded

\* What the observer has read of the intent and of the chain, and will write.
ObserverKnows(j) ==
  /\ j.pc \in {"observe_depth", "observe_outputs"} =>
       /\ intent.tx # None /\ intent.address # None
       /\ j.tx = intent.tx /\ j.address # None
       /\ anomalies = 1 => chain[j.tx].address # j.address
  /\ j.pc \in {"observe_record", "observe_intent"} =>
       /\ PaymentSeen /\ j.seen # "none"
       /\ j.seen = "exact" <=> chain[intent.tx].exact
       /\ anomalies = 0
  /\ j.pc \in {"observe_outputs", "observe_record", "observe_intent"} =>
       (j.deep => chain[intent.tx].deep)

\* A wrong payment has been recorded: reported, or about to be.
Reporting == job[Observer].pc = "observe_anomaly"
Reported ==
  /\ anomalies \in {0, 1}
  /\ Reporting => anomalies = 0
  /\ anomalies = 1 \/ Reporting =>
       /\ PaymentSeen /\ ~chain[intent.tx].exact
       /\ intent.covenant = "failed" \/ intent.address # chain[intent.tx].address
  /\ "report" \notin cut /\ intent.covenant = "failed" => anomalies = 1 \/ Reporting

Books == FundsKnown /\ ObserverKnows(job[Observer]) /\ Reported

IInv ==
  /\ TypeOK
  /\ \A p \in Procs : Placed(p, job[p])
  /\ AcceptedInTime
  /\ InvoiceMended /\ CycleMended
  /\ AddressesGiven
  /\ Books

-----------------------------------------------------------------------------
(* Facts about the operators.                                               *)

LEMMA Constants ==
  /\ Expirer \in Procs /\ Observer \in Procs /\ Keeper \in Procs
  /\ Expirer \notin Requests /\ Observer \notin Requests /\ Keeper \notin Requests
  /\ Expirer # Observer /\ Expirer # Keeper /\ Observer # Keeper
  /\ Requests \subseteq Procs /\ Finalizers \subseteq Requests /\ Submitters \subseteq Requests
  /\ Fetchers \subseteq Requests /\ Viewers \subseteq Requests /\ Cancellers \subseteq Requests
  /\ Addresses = Finalizers /\ None \notin TxIds /\ None \notin Addresses
  /\ MaxAhead \in Nat /\ MaxFailures \in Nat
BY ProcsAssumption, NoneAssumption, BoundsAssumption
DEF Procs, Workers, Requests, Expirer, Observer, Keeper, Addresses

LEMMA IdleTyped == Idle \in Job /\ Idle.pc = "idle"
BY DEF Idle, Job, Labels, InvoiceStatus, IntentStatus, Seen

\* Where a handler ends nothing is on its mind.
LEMMA FinishedTyped ==
  ASSUME NEW p \in Procs
  PROVE  /\ Finished(p) \in Job /\ Finished(p).pc \in {"idle", "done"}
         /\ p \in Requests => Finished(p).pc = "done"
         /\ p \notin Requests => Finished(p) = Idle
         /\ Placed(p, Finished(p))
<1>1. /\ [Idle EXCEPT !.pc = "done"] \in Job /\ [Idle EXCEPT !.pc = "done"].pc = "done"
  BY IdleTyped DEF Job, Labels
<1>2. p \in Requests <=> p \notin Workers
  BY ProcsAssumption DEF Procs
<1>3. /\ p \in Requests => Finished(p) = [Idle EXCEPT !.pc = "done"]
      /\ p \notin Requests => Finished(p) = Idle
  BY <1>2 DEF Finished
<1>4. /\ Finished(p) \in Job /\ Finished(p).pc \in {"idle", "done"}
      /\ p \in Requests => Finished(p).pc = "done"
  BY <1>1, <1>3, IdleTyped
<1>5. QED
  BY <1>3, <1>4
  DEF Placed, SubmitLabels, FinalizeLabels, ObserveLabels, KeeperLabels, ExpireLabels

\* A handler goes on to a label of its own and keeps what it has read.
LEMMA Goes ==
  ASSUME TypeOK, NEW p \in Procs, NEW pc \in Labels
  PROVE  LET j == [job[p] EXCEPT !.pc = pc] IN
         /\ j \in Job /\ j.pc = pc /\ j.tx = job[p].tx /\ j.timely = job[p].timely
         /\ j.deep = job[p].deep /\ j.seen = job[p].seen /\ j.address = job[p].address
         /\ [job EXCEPT ![p].pc = pc] = [job EXCEPT ![p] = j]
BY DEF TypeOK, Job

\* ... or keeps only its arrival and its transaction.
LEMMA DecidedTyped ==
  ASSUME TypeOK, NEW p \in Procs, NEW pc \in Labels
  PROVE  LET j == [Idle EXCEPT !.pc = pc, !.timely = job[p].timely, !.tx = job[p].tx] IN
         j \in Job /\ j.pc = pc /\ j.tx = job[p].tx /\ j.timely = job[p].timely
<1> DEFINE one == [Idle EXCEPT !.pc = pc]
           two == [one EXCEPT !.timely = job[p].timely]
           j   == [two EXCEPT !.tx = job[p].tx]
<1>1. job[p] \in Job
  BY DEF TypeOK
<1>2. one \in Job /\ one.pc = pc
  BY IdleTyped DEF Job
<1> HIDE DEF one
<1>3. two \in Job /\ two.pc = pc /\ two.timely = job[p].timely
  BY <1>1, <1>2 DEF Job
<1> HIDE DEF two
<1>4. j \in Job /\ j.pc = pc /\ j.tx = job[p].tx /\ j.timely = job[p].timely
  BY <1>1, <1>3 DEF Job
<1>5. QED
  BY <1>4 DEF two, one

LEMMA InitInductive == Init => IInv
<1> SUFFICES ASSUME Init PROVE IInv
  OBVIOUS
<1>1. TypeOK
  <2>1. intent \in Intent /\ chain \in [TxIds -> Payment]
    BY DEF Init, Intent, Payment, IntentStatus, CovenantState
  <2>2. job \in [Procs -> Job] /\ ahead \in 0..MaxAhead /\ failures \in 0..MaxFailures
    BY IdleTyped, Constants DEF Init
  <2>3. QED
    BY <2>1, <2>2 DEF Init, TypeOK, InvoiceStatus
<1>2. \A p \in Procs : Placed(p, job[p]) /\ job[p].pc = "idle"
  BY IdleTyped
  DEF Init, Placed, SubmitLabels, FinalizeLabels, ObserveLabels, KeeperLabels, ExpireLabels
<1>3. AcceptedInTime /\ InvoiceMended /\ CycleMended /\ AddressesGiven
  BY Constants DEF Init, AcceptedInTime, InvoiceMended, CycleMended, AddressesGiven, TimelySubmission
<1>4. job[Observer].pc = "idle" /\ job[Keeper].pc = "idle"
  BY <1>2, Constants
<1>5. Books
  BY <1>4 DEF Init, Books, FundsKnown, ObserverKnows, Reported, Reporting, Spending, Spendable
<1>6. QED
  BY <1>1, <1>2, <1>3, <1>5 DEF IInv

-----------------------------------------------------------------------------
(* What a step keeps.                                                       *)

\* The books are right after a step that neither replaces the recorded
\* transaction nor takes back a payment, makes a covenant spendable only when a
\* spendable one was claimed, and puts on record only an address nobody has; the
\* observer stays where it was or starts over.
LEMMA BooksKept ==
  ASSUME TypeOK, AddressesGiven, Books, TypeOK',
         intent.tx # None => intent'.tx = intent.tx,
         \/ intent'.address = intent.address
         \/ intent'.address # None /\ intent'.address \notin receipts,
         \A t \in TxIds : chain[t].address # None =>
           /\ chain'[t].address = chain[t].address /\ chain'[t].exact = chain[t].exact
           /\ chain[t].deep => chain'[t].deep,
         anomalies' = anomalies,
         "report" \notin cut' => "report" \notin cut,
         intent'.covenant \in Spendable =>
           intent.covenant \in Spendable \/ job[Keeper].pc \in Spending,
         intent'.covenant = "failed" => intent.covenant = "failed",
         intent.covenant = "failed" /\ intent'.covenant # "failed" =>
           Funded \/ (intent'.address # None /\ intent'.address \notin receipts),
         job'[Keeper].pc \in Spending =>
           job[Keeper].pc \in Spending \/ intent.covenant \in Spendable,
         \/ job'[Observer] = job[Observer]
         \/ /\ job'[Observer].pc = "idle"
            /\ job[Observer].pc = "observe_anomaly" => "report" \in cut'
  PROVE  Books'
<1>1. intent.tx # None => intent.tx \in TxIds
  BY DEF TypeOK, Intent
<1>2. PaymentSeen =>
        /\ PaymentSeen' /\ intent'.tx = intent.tx
        /\ chain'[intent.tx].address = chain[intent.tx].address
        /\ chain'[intent.tx].exact = chain[intent.tx].exact
        /\ chain[intent.tx].deep => chain'[intent.tx].deep
        /\ chain[intent.tx].address \in receipts
  BY <1>1, Constants DEF PaymentSeen, AddressesGiven
<1>3. Funded => Funded'
  BY <1>2 DEF Funded
<1>4. FundsKnown'
  BY <1>3 DEF Books, FundsKnown
<1>5. ObserverKnows(job[Observer])'
  <2>1. CASE job'[Observer].pc = "idle"
    BY <2>1 DEF ObserverKnows
  <2>2. CASE job'[Observer] = job[Observer]
    <3> DEFINE j == job[Observer]
    <3>1. ASSUME j.pc \in {"observe_depth", "observe_outputs"}
          PROVE  /\ intent'.tx # None /\ intent'.address # None
                 /\ j.tx = intent'.tx /\ j.address # None
                 /\ anomalies' = 1 => chain'[j.tx].address # j.address
                 /\ j.pc = "observe_outputs" /\ j.deep => chain'[intent'.tx].deep
      <4>1. /\ intent.tx # None /\ intent.address # None
            /\ j.tx = intent.tx /\ j.address # None
            /\ anomalies = 1 => chain[j.tx].address # j.address
            /\ j.pc = "observe_outputs" /\ j.deep => chain[intent.tx].deep
        BY <3>1 DEF Books, ObserverKnows
      <4>2. anomalies = 1 => PaymentSeen
        BY DEF Books, Reported
      <4>3. intent'.tx = intent.tx /\ intent.tx \in TxIds
        BY <1>1, <4>1
      <4>4. chain[intent.tx].deep => chain'[intent.tx].deep
        BY <1>1, <4>1, Constants DEF AddressesGiven, TypeOK
      <4>5. QED
        BY <1>2, <4>1, <4>2, <4>3, <4>4
    <3>2. ASSUME j.pc \in {"observe_record", "observe_intent"}
          PROVE  /\ PaymentSeen' /\ j.seen # "none"
                 /\ j.seen = "exact" <=> chain'[intent'.tx].exact
                 /\ anomalies' = 0
                 /\ j.deep => chain'[intent'.tx].deep
      BY <1>2, <3>2 DEF Books, ObserverKnows
    <3>3. QED
      BY <2>2, <3>1, <3>2 DEF ObserverKnows
  <2>3. QED
    BY <2>1, <2>2
<1>6. Reported'
  <2>1. Reporting' => Reporting
    BY DEF Reporting
  <2>2. "report" \notin cut' => (Reporting' <=> Reporting)
    BY DEF Reporting
  <2>3. ASSUME anomalies = 1 \/ Reporting
        PROVE  /\ PaymentSeen' /\ ~chain'[intent'.tx].exact
               /\ intent'.covenant = "failed" \/ intent'.address # chain'[intent'.tx].address
    <3>1. /\ PaymentSeen /\ ~chain[intent.tx].exact /\ ~Funded
          /\ intent.covenant = "failed" \/ intent.address # chain[intent.tx].address
      BY <2>3 DEF Books, Reported, Funded
    <3>2. QED
      BY <1>2, <3>1
  <2>4. QED
    BY <2>1, <2>2, <2>3 DEF Books, Reported
<1>7. QED
  BY <1>4, <1>5, <1>6 DEF Books

\* Whoever is on the way to mend the invoice, or the cycle, stays on it until
\* that is done.
LEMMA MendsKept ==
  ASSUME TypeOK, InvoiceMended, CycleMended, NEW p \in Procs, NEW j \in Job,
         job' = [job EXCEPT ![p] = j], cut' = cut,
         invoice' = "expired" /\ TimelySubmission' =>
           \/ j.pc \in Reopens
           \/ invoice = "expired" /\ TimelySubmission /\ job[p].pc \notin Reopens,
         cycle' = "past_due" /\ TimelySubmission' =>
           \/ j.pc \in Mends
           \/ cycle = "past_due" /\ TimelySubmission /\ job[p].pc \notin Mends
  PROVE  InvoiceMended' /\ CycleMended'
<1>1. \A q \in Procs : job'[q] = IF q = p THEN j ELSE job[q]
  BY DEF TypeOK
<1>2. InvoiceMended'
  BY <1>1 DEF InvoiceMended
<1>3. CycleMended'
  BY <1>1 DEF CycleMended
<1>4. QED
  BY <1>2, <1>3

\* A step of a process that writes neither the transaction, the address nor
\* what happened on the chain.
LEMMA StepInductive ==
  ASSUME IInv, TypeOK', NEW p \in Procs, NEW j \in Job, job' = [job EXCEPT ![p] = j],
         Placed(p, j),
         UNCHANGED <<chain, receipts, anomalies, outside>>,
         intent'.tx = intent.tx, intent'.timely = intent.timely,
         intent'.address = intent.address,
         intent'.covenant \in Spendable =>
           intent.covenant \in Spendable \/ job[Keeper].pc \in Spending,
         intent'.covenant = "failed" <=> intent.covenant = "failed",
         invoice' = "expired" /\ TimelySubmission =>
           j.pc \in Reopens \/ (invoice = "expired" /\ job[p].pc \notin Reopens),
         cycle' = "past_due" /\ TimelySubmission =>
           j.pc \in Mends \/ (cycle = "past_due" /\ job[p].pc \notin Mends),
         job[p].pc \in {"finalize_invoice", "done"} => j.pc \in {"finalize_invoice", "done"},
         p = Keeper /\ j.pc \in Spending =>
           job[Keeper].pc \in Spending \/ intent.covenant \in Spendable,
         p = Observer => j.pc = "idle" /\ job[p].pc # "observe_anomaly"
  PROVE  IInv'
<1> USE DEF IInv
<1>1. \A q \in Procs : job'[q] = IF q = p THEN j ELSE job[q]
  BY DEF TypeOK
<1>2. \A q \in Procs : Placed(q, job[q])'
  <2> SUFFICES ASSUME NEW q \in Procs PROVE Placed(q, job'[q])
    BY DEF Placed
  <2>1. QED
    BY <1>1
<1>3. AcceptedInTime'
  BY DEF AcceptedInTime
<1>4. TimelySubmission' <=> TimelySubmission
  BY DEF TimelySubmission
<1>5. InvoiceMended' /\ CycleMended'
  <2>1. invoice' = "expired" /\ TimelySubmission' =>
          \/ j.pc \in Reopens
          \/ invoice = "expired" /\ TimelySubmission /\ job[p].pc \notin Reopens
    BY <1>4
  <2>2. cycle' = "past_due" /\ TimelySubmission' =>
          \/ j.pc \in Mends
          \/ cycle = "past_due" /\ TimelySubmission /\ job[p].pc \notin Mends
    BY <1>4
  <2>3. cut' = cut
    OBVIOUS
  <2>4. QED
    BY <2>1, <2>2, <2>3, MendsKept
<1>6. AddressesGiven'
  <2>1. \A a \in Addresses : a \in Procs
    BY Constants
  <2>2. QED
    BY <1>1, <2>1 DEF AddressesGiven
<1>7. Books'
  <2>1. /\ intent.tx # None => intent'.tx = intent.tx
        /\ \/ intent'.address = intent.address
           \/ intent'.address # None /\ intent'.address \notin receipts
        /\ \A t \in TxIds : chain[t].address # None =>
             /\ chain'[t].address = chain[t].address /\ chain'[t].exact = chain[t].exact
             /\ chain[t].deep => chain'[t].deep
        /\ anomalies' = anomalies
        /\ "report" \notin cut' => "report" \notin cut
    OBVIOUS
  <2>2. job'[Keeper].pc \in Spending =>
          job[Keeper].pc \in Spending \/ intent.covenant \in Spendable
    BY <1>1, Constants
  <2>3. \/ job'[Observer] = job[Observer]
        \/ /\ job'[Observer].pc = "idle"
           /\ job[Observer].pc = "observe_anomaly" => "report" \in cut'
    BY <1>1, Constants
  <2>4. /\ intent'.covenant = "failed" => intent.covenant = "failed"
        /\ intent.covenant = "failed" /\ intent'.covenant # "failed" =>
             Funded \/ (intent'.address # None /\ intent'.address \notin receipts)
    OBVIOUS
  <2>5. QED
    BY <2>1, <2>2, <2>3, <2>4, BooksKept
<1>8. QED
  BY <1>2, <1>3, <1>5, <1>6, <1>7

\* ... or that writes nothing at all.
LEMMA ReadInductive ==
  ASSUME IInv, NEW p \in Procs, NEW j \in Job, job' = [job EXCEPT ![p] = j], Placed(p, j),
         UNCHANGED <<clock, invoice, books, intent, chain, receipts, outside>>,
         invoice = "expired" /\ TimelySubmission /\ job[p].pc \in Reopens => j.pc \in Reopens,
         cycle = "past_due" /\ TimelySubmission /\ job[p].pc \in Mends => j.pc \in Mends,
         job[p].pc \in {"finalize_invoice", "done"} => j.pc \in {"finalize_invoice", "done"},
         p = Keeper /\ j.pc \in Spending =>
           job[Keeper].pc \in Spending \/ intent.covenant \in Spendable,
         p = Observer => j.pc = "idle" /\ job[p].pc # "observe_anomaly"
  PROVE  IInv'
<1>1. UNCHANGED <<payAddress, cycle, observation, anomalies>>
  BY DEF books
<1>2. TypeOK'
  BY <1>1 DEF IInv, TypeOK
<1>3. /\ intent'.tx = intent.tx /\ intent'.timely = intent.timely
      /\ intent'.address = intent.address
      /\ intent'.covenant \in Spendable =>
           intent.covenant \in Spendable \/ job[Keeper].pc \in Spending
      /\ intent'.covenant = "failed" <=> intent.covenant = "failed"
  OBVIOUS
<1>4. /\ invoice' = "expired" /\ TimelySubmission =>
           j.pc \in Reopens \/ (invoice = "expired" /\ job[p].pc \notin Reopens)
      /\ cycle' = "past_due" /\ TimelySubmission =>
           j.pc \in Mends \/ (cycle = "past_due" /\ job[p].pc \notin Mends)
  BY <1>1
<1>5. UNCHANGED <<chain, receipts, anomalies, outside>>
  BY <1>1
<1>6. QED
  BY <1>2, <1>3, <1>4, <1>5, StepInductive

-----------------------------------------------------------------------------
(* The steps that only read.                                                *)

\* Labels at which a handler holds nothing Placed speaks of.
LEMMA PlacedElsewhere ==
  ASSUME NEW p, NEW j,
         j.pc \in {"idle", "done", "view_check", "cancel_write", "fetch_clock", "fetch_write"}
  PROVE  Placed(p, j) /\ j.pc \notin Reopens \cup Mends \cup Spending
BY DEF Placed, SubmitLabels, FinalizeLabels, ObserveLabels, KeeperLabels, ExpireLabels,
       Reopens, Mends, Spending

LEMMA PlacedExpiring ==
  ASSUME NEW p \in Procs, p # Observer, p # Keeper, NEW j, j.pc \in ExpireLabels
  PROVE  Placed(p, j)
BY DEF Placed, SubmitLabels, FinalizeLabels, ObserveLabels, KeeperLabels, ExpireLabels

LEMMA Expiring ==
  ASSUME IInv, NEW p \in Procs, job[p].pc \in ExpireLabels
  PROVE  p # Observer /\ p # Keeper
BY DEF IInv, Placed

LEMMA Requesting ==
  ASSUME NEW p \in Requests
  PROVE  p \in Procs /\ p # Observer /\ p # Keeper
BY Constants

\* The caller of expire_invoice goes on with its own work.
LEMMA Returns ==
  ASSUME TypeOK, NEW p \in Procs, NEW closed \in BOOLEAN, ExpireReturns(p, closed)
  PROVE  \E j \in Job : /\ job' = [job EXCEPT ![p] = j]
                        /\ j.pc \in {"idle", "done", "cancel_write"} /\ Placed(p, j)
<1>1. CASE job[p].cancels
  <2> DEFINE one == [job[p] EXCEPT !.pc = "cancel_write"]
             status == IF closed THEN "expired" ELSE job[p].invoice
             two == [one EXCEPT !.invoice = status]
  <2>1. one \in Job /\ one.pc = "cancel_write" /\ job[p] \in Job
    BY DEF TypeOK, Job, Labels
  <2>2. status \in InvoiceStatus
    BY <2>1 DEF Job, InvoiceStatus
  <2>3. job' = [job EXCEPT ![p] = two]
    BY <1>1 DEF ExpireReturns, TypeOK, Job
  <2> HIDE DEF one, status
  <2>4. two \in Job /\ two.pc = "cancel_write"
    BY <2>1, <2>2 DEF Job
  <2> HIDE DEF two
  <2>5. Placed(p, two)
    BY <2>4, PlacedElsewhere
  <2>6. QED
    BY <2>3, <2>4, <2>5
<1>2. CASE ~job[p].cancels
  BY <1>2, FinishedTyped DEF ExpireReturns, Finish
<1>3. QED
  BY <1>1, <1>2

LEMMA ExpireCheckInductive ==
  ASSUME IInv, NEW p \in Procs, ExpireCheck(p) PROVE IInv'
<1>1. job[p].pc = "expire_check" /\ p # Observer /\ p # Keeper /\ TypeOK /\ job[p] \in Job
  BY Expiring DEF ExpireCheck, At, ExpireLabels, IInv, TypeOK
<1>2. PICK j \in Job : /\ job' = [job EXCEPT ![p] = j] /\ Placed(p, j)
                       /\ TimelySubmission => j.pc = "restore_invoice"
  <2>1. CASE TimelySubmission
    <3> DEFINE j == [job[p] EXCEPT !.pc = "restore_invoice"]
    <3>1. j \in Job /\ j.pc = "restore_invoice" /\ job' = [job EXCEPT ![p] = j]
      BY <1>1, <2>1 DEF ExpireCheck, Goto, Job, Labels, ExpireLabels, TypeOK
    <3> HIDE DEF j
    <3>2. Placed(p, j)
      BY <1>1, <3>1, PlacedExpiring DEF ExpireLabels
    <3>3. QED
      BY <3>1, <3>2
  <2>2. CASE ~TimelySubmission
    <3>1. ExpireReturns(p, job[p].closed) /\ job[p].closed \in BOOLEAN
      BY <1>1, <2>2 DEF ExpireCheck, Job
    <3>2. QED
      BY <1>1, <2>2, <3>1, Returns
  <2>3. QED
    BY <2>1, <2>2
<1>3. UNCHANGED <<clock, invoice, books, intent, chain, receipts, outside>>
  BY DEF ExpireCheck
<1>4. /\ invoice = "expired" /\ TimelySubmission /\ job[p].pc \in Reopens => j.pc \in Reopens
      /\ cycle = "past_due" /\ TimelySubmission /\ job[p].pc \in Mends => j.pc \in Mends
  BY <1>2 DEF Reopens, Mends
<1>5. QED
  BY <1>1, <1>2, <1>3, <1>4, ReadInductive

LEMMA ExpirerScanInductive ==
  ASSUME IInv, ExpirerScan PROVE IInv'
<1> DEFINE j == [job[Expirer] EXCEPT !.pc = "expire_invoice"]
<1>1. /\ Expirer \in Procs /\ Expirer # Observer /\ Expirer # Keeper
      /\ job[Expirer].pc = "idle" /\ TypeOK
      /\ UNCHANGED <<clock, invoice, books, intent, chain, receipts, outside>>
  BY Constants DEF ExpirerScan, At, IInv
<1>2. j \in Job /\ j.pc = "expire_invoice" /\ job' = [job EXCEPT ![Expirer] = j]
  BY <1>1 DEF ExpirerScan, Goto, Job, Labels, ExpireLabels, TypeOK
<1> HIDE DEF j
<1>3. Placed(Expirer, j)
  BY <1>1, <1>2, PlacedExpiring DEF ExpireLabels
<1>4. job[Expirer].pc \notin Reopens \cup Mends \cup {"finalize_invoice", "done"}
  BY <1>1 DEF Reopens, Mends
<1>5. QED
  BY <1>1, <1>2, <1>3, <1>4, ReadInductive

\* A request that reads, decides and writes nothing.
LEMMA RequestReads ==
  ASSUME IInv, NEW p \in Requests, NEW j \in Job, job' = [job EXCEPT ![p] = j], Placed(p, j),
         UNCHANGED <<clock, invoice, books, intent, chain, receipts, outside>>,
         job[p].pc \notin Reopens \cup Mends \cup {"finalize_invoice", "done"}
  PROVE  IInv'
<1>1. p \in Procs /\ p # Observer /\ p # Keeper
  BY Requesting
<1>2. QED
  BY <1>1, ReadInductive

\* A request that ends where it is, or goes on to expire the invoice.
LEMMA RequestFinishes ==
  ASSUME IInv, NEW p \in Requests, Finish(p),
         UNCHANGED <<clock, invoice, books, intent, chain, receipts, outside>>,
         job[p].pc \notin Reopens \cup Mends
  PROVE  IInv'
<1>1. /\ Finished(p) \in Job /\ Finished(p).pc = "done" /\ Placed(p, Finished(p))
      /\ job' = [job EXCEPT ![p] = Finished(p)]
  BY Requesting, FinishedTyped DEF Finish
<1>2. /\ invoice = "expired" /\ TimelySubmission /\ job[p].pc \in Reopens =>
           Finished(p).pc \in Reopens
      /\ cycle = "past_due" /\ TimelySubmission /\ job[p].pc \in Mends =>
           Finished(p).pc \in Mends
      /\ job[p].pc \in {"finalize_invoice", "done"} =>
           Finished(p).pc \in {"finalize_invoice", "done"}
  BY <1>1
<1>3. p \in Procs /\ p # Observer /\ p # Keeper
  BY Requesting
<1>4. QED
  BY <1>1, <1>2, <1>3, ReadInductive

LEMMA RequestDecides ==
  ASSUME IInv, NEW p \in Requests, NEW pc \in Labels, Decided(p, pc),
         pc \in {"expire_invoice", "submit_claim", "finalize_address"},
         pc = "submit_claim" => p \in Submitters /\ job[p].tx \in TxIds /\ job[p].timely,
         pc = "finalize_address" => p \in Finalizers,
         UNCHANGED <<clock, invoice, books, intent, chain, receipts, outside>>,
         job[p].pc \notin Reopens \cup Mends \cup {"finalize_invoice", "done"}
  PROVE  IInv'
<1> DEFINE j == [Idle EXCEPT !.pc = pc, !.timely = job[p].timely, !.tx = job[p].tx]
<1>1. j \in Job /\ j.pc = pc /\ j.tx = job[p].tx /\ j.timely = job[p].timely
  BY Requesting, DecidedTyped DEF IInv
<1>2. job' = [job EXCEPT ![p] = j]
  BY DEF Decided
<1> HIDE DEF j
<1>3. Placed(p, j)
  BY <1>1, Requesting
  DEF Placed, SubmitLabels, FinalizeLabels, ObserveLabels, KeeperLabels, ExpireLabels
<1>4. QED
  BY <1>1, <1>2, <1>3, RequestReads

LEMMA SubmitArriveInductive ==
  ASSUME IInv, NEW p \in Requests, NEW t \in TxIds, SubmitArrive(p, t) PROVE IInv'
<1> DEFINE one == [job[p] EXCEPT !.pc = "submit_invoice"]
           two == [one EXCEPT !.timely = ~Late]
           j   == [two EXCEPT !.tx = t]
<1>1. /\ p \in Submitters /\ p \in Procs /\ p # Observer /\ p # Keeper
      /\ job[p].pc = "idle" /\ job[p] \in Job /\ TypeOK
      /\ UNCHANGED <<clock, invoice, books, intent, chain, receipts, outside>>
  BY Requesting DEF SubmitArrive, At, IInv, TypeOK
<1>2. one \in Job /\ one.pc = "submit_invoice"
  BY <1>1 DEF Job, Labels, SubmitLabels
<1>3. job' = [job EXCEPT ![p] = j]
  BY <1>1 DEF SubmitArrive, TypeOK, Job
<1> HIDE DEF one
<1>4. two \in Job /\ two.pc = "submit_invoice"
  BY <1>2 DEF Job, Late
<1> HIDE DEF two
<1>5. j \in Job /\ j.pc = "submit_invoice" /\ j.tx = t
  BY <1>4 DEF Job
<1> HIDE DEF j
<1>6. Placed(p, j)
  BY <1>1, <1>5
  DEF Placed, SubmitLabels, FinalizeLabels, ObserveLabels, KeeperLabels, ExpireLabels
<1>7. job[p].pc \notin Reopens \cup Mends \cup {"finalize_invoice", "done"}
  BY <1>1 DEF Reopens, Mends
<1>8. QED
  BY <1>1, <1>3, <1>5, <1>6, <1>7, RequestReads

\* A request notes the status of the invoice and goes on.
LEMMA RequestReadsInvoice ==
  ASSUME IInv, NEW p \in Requests, NEW pc \in Labels,
         job' = [job EXCEPT ![p].pc = pc, ![p].invoice = invoice],
         pc \in {"submit_intent", "view_check", "cancel_write", "finalize_intent"},
         pc = "submit_intent" => p \in Submitters /\ job[p].tx \in TxIds,
         pc = "finalize_intent" => p \in Finalizers,
         UNCHANGED <<clock, invoice, books, intent, chain, receipts, outside>>,
         job[p].pc \notin Reopens \cup Mends \cup {"finalize_invoice", "done"}
  PROVE  IInv'
<1> DEFINE one == [job[p] EXCEPT !.pc = pc]
           j   == [one EXCEPT !.invoice = invoice]
<1>1. /\ p \in Procs /\ p # Observer /\ p # Keeper
      /\ job[p] \in Job /\ TypeOK /\ invoice \in InvoiceStatus
  BY Requesting DEF IInv, TypeOK
<1>2. one \in Job /\ one.pc = pc /\ one.tx = job[p].tx
  BY <1>1 DEF Job
<1>3. job' = [job EXCEPT ![p] = j]
  BY <1>1 DEF TypeOK, Job
<1> HIDE DEF one
<1>4. j \in Job /\ j.pc = pc /\ j.tx = job[p].tx
  BY <1>1, <1>2 DEF Job
<1> HIDE DEF j
<1>5. Placed(p, j)
  BY <1>1, <1>4
  DEF Placed, SubmitLabels, FinalizeLabels, ObserveLabels, KeeperLabels, ExpireLabels
<1>6. QED
  BY <1>3, <1>4, <1>5, RequestReads

LEMMA SubmitReadInvoiceInductive ==
  ASSUME IInv, NEW p \in Requests, SubmitReadInvoice(p) PROVE IInv'
<1>1. job[p].pc = "submit_invoice" /\ Placed(p, job[p]) /\ "submit_intent" \in Labels
  BY Requesting DEF SubmitReadInvoice, At, IInv, Labels, SubmitLabels
<1>2. p \in Submitters /\ job[p].tx \in TxIds
  BY <1>1 DEF Placed, SubmitLabels
<1>3. /\ job' = [job EXCEPT ![p].pc = "submit_intent", ![p].invoice = invoice]
      /\ UNCHANGED <<clock, invoice, books, intent, chain, receipts, outside>>
  BY DEF SubmitReadInvoice
<1>4. job[p].pc \notin Reopens \cup Mends \cup {"finalize_invoice", "done"}
  BY <1>1 DEF Reopens, Mends
<1>5. QED
  BY <1>1, <1>2, <1>3, <1>4, RequestReadsInvoice

LEMMA SubmitReadIntentInductive ==
  ASSUME IInv, NEW p \in Requests, SubmitReadIntent(p) \/ SubmitRefused(p) PROVE IInv'
<1>1. /\ job[p].pc = "submit_intent" /\ Placed(p, job[p])
      /\ {"submit_claim", "expire_invoice"} \subseteq Labels
      /\ UNCHANGED <<clock, invoice, books, intent, chain, receipts, outside>>
  BY Requesting
  DEF SubmitReadIntent, SubmitRefused, At, IInv, Labels, SubmitLabels, ExpireLabels
<1>2. p \in Submitters /\ job[p].tx \in TxIds
  BY <1>1 DEF Placed, SubmitLabels
<1>3. \/ Finish(p)
      \/ Decided(p, "expire_invoice")
      \/ Decided(p, "submit_claim") /\ job[p].timely
  BY DEF SubmitReadIntent, SubmitRefused
<1>4. job[p].pc \notin Reopens \cup Mends \cup {"finalize_invoice", "done"}
  BY <1>1 DEF Reopens, Mends
<1>5. CASE Finish(p)
  BY <1>1, <1>4, <1>5, RequestFinishes
<1>6. CASE Decided(p, "expire_invoice")
  BY <1>1, <1>4, <1>6, RequestDecides
<1>7. CASE Decided(p, "submit_claim") /\ job[p].timely
  BY <1>1, <1>2, <1>4, <1>7, RequestDecides
<1>8. QED
  BY <1>3, <1>5, <1>6, <1>7

LEMMA ShowReadInductive ==
  ASSUME IInv, NEW p \in Requests, ShowRead(p) PROVE IInv'
<1>1. /\ job[p].pc = "idle" /\ "view_check" \in Labels
      /\ UNCHANGED <<clock, invoice, books, intent, chain, receipts, outside>>
  BY DEF ShowRead, At, Labels
<1>2. \/ Finish(p)
      \/ job' = [job EXCEPT ![p].pc = "view_check", ![p].invoice = invoice]
  BY DEF ShowRead
<1>3. job[p].pc \notin Reopens \cup Mends \cup {"finalize_invoice", "done"}
  BY <1>1 DEF Reopens, Mends
<1>4. CASE Finish(p)
  BY <1>1, <1>3, <1>4, RequestFinishes
<1>5. CASE job' = [job EXCEPT ![p].pc = "view_check", ![p].invoice = invoice]
  BY <1>1, <1>3, <1>5, RequestReadsInvoice
<1>6. QED
  BY <1>2, <1>4, <1>5

LEMMA CancelReadInductive ==
  ASSUME IInv, NEW p \in Requests, CancelRead(p) PROVE IInv'
<1> DEFINE pc  == IF invoice = "open" /\ Late THEN "view_check" ELSE "cancel_write"
           one == [job[p] EXCEPT !.pc = pc]
           two == [one EXCEPT !.invoice = invoice]
           j   == [two EXCEPT !.cancels = TRUE]
<1>1. /\ job[p].pc = "idle" /\ p \in Procs /\ job[p] \in Job /\ TypeOK
      /\ invoice \in InvoiceStatus
      /\ UNCHANGED <<clock, invoice, books, intent, chain, receipts, outside>>
  BY Requesting DEF CancelRead, At, IInv, TypeOK
<1>2. pc \in {"view_check", "cancel_write"} /\ pc \in Labels
  BY DEF Labels
<1>3. job' = [job EXCEPT ![p] = j]
  BY <1>1 DEF CancelRead, TypeOK, Job
<1> HIDE DEF pc
<1>4. one \in Job /\ one.pc = pc
  BY <1>1, <1>2 DEF Job
<1> HIDE DEF one
<1>5. two \in Job /\ two.pc = pc
  BY <1>1, <1>4 DEF Job
<1> HIDE DEF two
<1>6. j \in Job /\ j.pc = pc
  BY <1>5 DEF Job
<1> HIDE DEF j
<1>7. Placed(p, j)
  BY <1>2, <1>6, PlacedElsewhere
<1>8. job[p].pc \notin Reopens \cup Mends \cup {"finalize_invoice", "done"}
  BY <1>1 DEF Reopens, Mends
<1>9. QED
  BY <1>1, <1>3, <1>6, <1>7, <1>8, RequestReads

LEMMA ViewCheckInductive ==
  ASSUME IInv, NEW p \in Requests, ViewCheck(p) PROVE IInv'
<1>1. /\ job[p].pc = "view_check" /\ TypeOK /\ p \in Procs /\ p # Observer /\ p # Keeper
      /\ "expire_invoice" \in Labels /\ job[p] \in Job
      /\ UNCHANGED <<clock, invoice, books, intent, chain, receipts, outside>>
  BY Requesting DEF ViewCheck, At, IInv, Labels, ExpireLabels, TypeOK
<1>2. job[p].pc \notin Reopens \cup Mends \cup {"finalize_invoice", "done"}
  BY <1>1 DEF Reopens, Mends
<1>3. CASE ExpireReturns(p, FALSE)
  <2>1. FALSE \in BOOLEAN
    OBVIOUS
  <2>2. PICK j \in Job : job' = [job EXCEPT ![p] = j] /\ Placed(p, j)
    BY <1>1, <1>3, <2>1, Returns
  <2>3. QED
    BY <1>1, <1>2, <2>2, RequestReads
<1>4. CASE Goto(p, "expire_invoice")
  <2> DEFINE j == [job[p] EXCEPT !.pc = "expire_invoice"]
  <2>1. j \in Job /\ j.pc = "expire_invoice" /\ job' = [job EXCEPT ![p] = j]
    BY <1>1, <1>4 DEF Goto, Job, TypeOK
  <2> HIDE DEF j
  <2>2. Placed(p, j)
    BY <1>1, <2>1, PlacedExpiring DEF ExpireLabels
  <2>3. QED
    BY <1>1, <1>2, <2>1, <2>2, RequestReads
<1>5. QED
  BY <1>3, <1>4 DEF ViewCheck

\* A fetch goes on with a status to write, or with the one it read.
LEMMA FetchGoes ==
  ASSUME IInv, NEW p \in Requests, NEW pc \in {"fetch_clock", "fetch_write"},
         NEW status \in IntentStatus,
         job' = [job EXCEPT ![p].pc = pc, ![p].status = status],
         UNCHANGED <<clock, invoice, books, intent, chain, receipts, outside>>,
         job[p].pc \notin Reopens \cup Mends \cup {"finalize_invoice", "done"}
  PROVE  IInv'
<1> DEFINE one == [job[p] EXCEPT !.pc = pc]
           j   == [one EXCEPT !.status = status]
<1>1. p \in Procs /\ job[p] \in Job /\ TypeOK
  BY Requesting DEF IInv, TypeOK
<1>2. one \in Job /\ one.pc = pc
  BY <1>1 DEF Job, Labels
<1>3. job' = [job EXCEPT ![p] = j]
  BY <1>1 DEF TypeOK, Job
<1> HIDE DEF one
<1>4. j \in Job /\ j.pc = pc
  BY <1>2 DEF Job
<1> HIDE DEF j
<1>5. Placed(p, j)
  BY <1>4, PlacedElsewhere
<1>6. QED
  BY <1>3, <1>4, <1>5, RequestReads

LEMMA FetchReadsInductive ==
  ASSUME IInv, NEW p \in Requests, FetchRead(p) \/ FetchClock(p) PROVE IInv'
<1>1. /\ job[p].pc \in {"idle", "fetch_clock"} /\ intent.status \in IntentStatus
      /\ {"expired", "fetched"} \subseteq IntentStatus
      /\ UNCHANGED <<clock, invoice, books, intent, chain, receipts, outside>>
  BY DEF FetchRead, FetchClock, At, IInv, TypeOK, Intent, IntentStatus
<1>2. job[p].pc \notin Reopens \cup Mends \cup {"finalize_invoice", "done"}
  BY <1>1 DEF Reopens, Mends
<1>3. \/ Finish(p)
      \/ job' = [job EXCEPT ![p].pc = "fetch_clock", ![p].status = intent.status]
      \/ job' = [job EXCEPT ![p].pc = "fetch_write", ![p].status = "expired"]
      \/ job' = [job EXCEPT ![p].pc = "fetch_write", ![p].status = "fetched"]
  BY DEF FetchRead, FetchClock
<1>4. CASE Finish(p)
  BY <1>1, <1>2, <1>4, RequestFinishes
<1>5. CASE job' = [job EXCEPT ![p].pc = "fetch_clock", ![p].status = intent.status]
  BY <1>1, <1>2, <1>5, FetchGoes
<1>6. CASE job' = [job EXCEPT ![p].pc = "fetch_write", ![p].status = "expired"]
  BY <1>1, <1>2, <1>6, FetchGoes
<1>7. CASE job' = [job EXCEPT ![p].pc = "fetch_write", ![p].status = "fetched"]
  BY <1>1, <1>2, <1>7, FetchGoes
<1>8. QED
  BY <1>3, <1>4, <1>5, <1>6, <1>7

LEMMA FinalizeReadInvoiceInductive ==
  ASSUME IInv, NEW p \in Requests, FinalizeReadInvoice(p) PROVE IInv'
<1>1. /\ job[p].pc = "idle" /\ "finalize_intent" \in Labels /\ p \in Finalizers
      /\ job' = [job EXCEPT ![p].pc = "finalize_intent", ![p].invoice = invoice]
      /\ UNCHANGED <<clock, invoice, books, intent, chain, receipts, outside>>
  BY DEF FinalizeReadInvoice, At, Labels
<1>2. job[p].pc \notin Reopens \cup Mends \cup {"finalize_invoice", "done"}
  BY <1>1 DEF Reopens, Mends
<1>3. QED
  BY <1>1, <1>2, RequestReadsInvoice

\* The observer gives up on its candidate.
LEMMA ObserverGivesUp ==
  ASSUME IInv, job[Observer].pc \in {"observe_depth", "observe_outputs"}, Finish(Observer),
         UNCHANGED <<clock, invoice, books, intent, chain, receipts, outside>>
  PROVE  IInv'
<1>1. /\ Observer \in Procs /\ Observer # Keeper
      /\ Idle \in Job /\ Idle.pc = "idle" /\ Placed(Observer, Idle)
      /\ job' = [job EXCEPT ![Observer] = Idle]
  <2>1. Observer \in Procs /\ Observer \notin Requests /\ Observer # Keeper
    BY Constants
  <2>2. Finished(Observer) = Idle /\ Placed(Observer, Finished(Observer))
    BY <2>1, FinishedTyped
  <2>3. QED
    BY <2>1, <2>2, IdleTyped DEF Finish
<1>2. job[Observer].pc \notin Reopens \cup Mends \cup {"finalize_invoice", "done", "observe_anomaly"}
  BY DEF Reopens, Mends
<1>3. QED
  BY <1>1, <1>2, ReadInductive

LEMMA ObserverNodeDownInductive ==
  ASSUME IInv, ObserverNodeDown PROVE IInv'
BY ObserverGivesUp DEF ObserverNodeDown, At

\* The keeper moves on without writing.
LEMMA KeeperMoves ==
  ASSUME IInv, NEW j \in Job, job' = [job EXCEPT ![Keeper] = j],
         j.pc \in KeeperLabels, job[Keeper].pc \in {"idle"} \cup KeeperLabels,
         j.pc \in Spending => job[Keeper].pc \in Spending,
         UNCHANGED <<clock, invoice, books, intent, chain, receipts, outside>>
  PROVE  IInv'
<1>1. Keeper \in Procs /\ Keeper # Observer
  BY Constants
<1>2. Placed(Keeper, j)
  BY DEF Placed, SubmitLabels, FinalizeLabels, ObserveLabels, KeeperLabels, ExpireLabels
<1>3. job[Keeper].pc \notin Reopens \cup Mends \cup {"finalize_invoice", "done"}
  BY DEF Reopens, Mends, KeeperLabels
<1>4. QED
  BY <1>1, <1>2, <1>3, ReadInductive

LEMMA KeeperScanInductive ==
  ASSUME IInv, KeeperScan PROVE IInv'
<1> DEFINE one == [job[Keeper] EXCEPT !.pc = "keeper_claim"]
           two == [one EXCEPT !.tx = intent.tx]
           j   == [two EXCEPT !.address = intent.address]
<1>1. /\ job[Keeper].pc = "idle" /\ Keeper \in Procs /\ job[Keeper] \in Job /\ TypeOK
      /\ intent.tx \in TxIds \cup {None} /\ intent.address \in Addresses \cup {None}
      /\ UNCHANGED <<clock, invoice, books, intent, chain, receipts, outside>>
  BY Constants DEF KeeperScan, At, IInv, TypeOK, Intent
<1>2. one \in Job /\ one.pc = "keeper_claim"
  BY <1>1 DEF Job, Labels
<1>3. job' = [job EXCEPT ![Keeper] = j]
  BY <1>1 DEF KeeperScan, TypeOK, Job
<1> HIDE DEF one
<1>4. two \in Job /\ two.pc = "keeper_claim"
  BY <1>1, <1>2 DEF Job
<1> HIDE DEF two
<1>5. j \in Job /\ j.pc = "keeper_claim"
  BY <1>1, <1>4 DEF Job
<1> HIDE DEF j
<1>6. QED
  BY <1>1, <1>3, <1>5, KeeperMoves DEF KeeperLabels, Spending

LEMMA KeeperBroadcastInductive ==
  ASSUME IInv, KeeperBroadcast PROVE IInv'
<1> DEFINE j == [job[Keeper] EXCEPT !.pc = "keeper_intent"]
<1>1. /\ job[Keeper].pc = "keeper_broadcast" /\ Keeper \in Procs /\ job[Keeper] \in Job
      /\ TypeOK
      /\ UNCHANGED <<clock, invoice, books, intent, chain, receipts, outside>>
  BY Constants DEF KeeperBroadcast, At, IInv, TypeOK
<1>2. j \in Job /\ j.pc = "keeper_intent" /\ job' = [job EXCEPT ![Keeper] = j]
  BY <1>1 DEF KeeperBroadcast, Goto, Job, Labels, TypeOK
<1> HIDE DEF j
<1>3. QED
  BY <1>1, <1>2, KeeperMoves DEF KeeperLabels, Spending

-----------------------------------------------------------------------------
(* The steps that write a row.                                              *)

LEMMA IntentWritten ==
  ASSUME TypeOK, NEW status \in IntentStatus, NEW covenant \in CovenantState
  PROVE  LET row == [intent EXCEPT !.status = status, !.covenant = covenant] IN
         /\ row \in Intent /\ row.status = status /\ row.covenant = covenant
         /\ row.tx = intent.tx /\ row.timely = intent.timely /\ row.address = intent.address
<1> DEFINE one == [intent EXCEPT !.status = status]
           row == [one EXCEPT !.covenant = covenant]
<1>1. /\ one \in Intent /\ one.status = status /\ one.tx = intent.tx
      /\ one.timely = intent.timely /\ one.address = intent.address
  BY DEF TypeOK, Intent
<1> HIDE DEF one
<1>2. /\ row \in Intent /\ row.status = status /\ row.covenant = covenant
      /\ row.tx = intent.tx /\ row.timely = intent.timely /\ row.address = intent.address
  BY <1>1 DEF Intent
<1>3. QED
  BY <1>2 DEF one

\* A step that leaves the intent's address and transaction as they were, and its
\* covenant as spendable and as failed as it was.
SameCovenant ==
  /\ intent' \in Intent
  /\ intent'.tx = intent.tx /\ intent'.timely = intent.timely
  /\ intent'.address = intent.address
  /\ intent'.covenant \in Spendable =>
       intent.covenant \in Spendable \/ job[Keeper].pc \in Spending
  /\ intent'.covenant = "failed" <=> intent.covenant = "failed"

\* A process other than the observer writes the invoice, the intent or the cycle
\* and goes on with j.
LEMMA RowWritten ==
  ASSUME IInv, NEW p \in Procs, NEW j \in Job, job' = [job EXCEPT ![p] = j], Placed(p, j),
         p # Observer, SameCovenant,
         UNCHANGED <<clock, payAddress, observation, chain, receipts, anomalies, outside>>,
         invoice' \in InvoiceStatus, cycle' \in {"invoiced", "past_due", "paid"},
         invoice' = "expired" /\ TimelySubmission =>
           j.pc \in Reopens \/ (invoice = "expired" /\ job[p].pc \notin Reopens),
         cycle' = "past_due" /\ TimelySubmission =>
           j.pc \in Mends \/ (cycle = "past_due" /\ job[p].pc \notin Mends),
         job[p].pc \notin {"finalize_invoice", "done"},
         j.pc \in Spending =>
           job[Keeper].pc \in Spending \/ intent.covenant \in Spendable
  PROVE  IInv'
<1>1. TypeOK
  BY DEF IInv
<1>2. job' \in [Procs -> Job]
  BY <1>1 DEF TypeOK
<1>3. TypeOK'
  BY <1>1, <1>2 DEF TypeOK, SameCovenant
<1>4. /\ intent'.tx = intent.tx /\ intent'.timely = intent.timely
      /\ intent'.address = intent.address
      /\ intent'.covenant \in Spendable =>
           intent.covenant \in Spendable \/ job[Keeper].pc \in Spending
      /\ intent'.covenant = "failed" <=> intent.covenant = "failed"
  BY DEF SameCovenant
<1>5. UNCHANGED <<chain, receipts, anomalies, outside>>
  OBVIOUS
<1>6. QED
  BY <1>3, <1>4, <1>5, StepInductive

LEMMA SameIntent ==
  ASSUME TypeOK, UNCHANGED intent PROVE SameCovenant
BY DEF SameCovenant, TypeOK

LEMMA StatusWritten ==
  ASSUME TypeOK, NEW status \in IntentStatus, NEW covenant \in CovenantState,
         intent' = [intent EXCEPT !.status = status, !.covenant = covenant],
         covenant \in Spendable => intent.covenant \in Spendable \/ job[Keeper].pc \in Spending,
         covenant = "failed" <=> intent.covenant = "failed"
  PROVE  SameCovenant
<1> DEFINE row == [intent EXCEPT !.status = status, !.covenant = covenant]
<1>1. /\ row \in Intent /\ row.status = status /\ row.covenant = covenant
      /\ row.tx = intent.tx /\ row.timely = intent.timely /\ row.address = intent.address
  BY IntentWritten
<1>2. intent' = row
  OBVIOUS
<1> HIDE DEF row
<1>3. QED
  BY <1>1, <1>2 DEF SameCovenant

\* What a writer goes on with: a label of its own, or nothing.
LEMMA Continues ==
  ASSUME TypeOK, NEW p \in Procs, NEW pc \in ExpireLabels \cup SubmitLabels, Goto(p, pc),
         pc \in ExpireLabels => p # Observer /\ p # Keeper,
         pc \in SubmitLabels => p \in Submitters /\ job[p].tx \in TxIds /\ job[p].timely
  PROVE  \E j \in Job : job' = [job EXCEPT ![p] = j] /\ j.pc = pc /\ Placed(p, j)
<1> DEFINE j == [job[p] EXCEPT !.pc = pc]
<1>1. /\ j \in Job /\ j.pc = pc /\ j.tx = job[p].tx /\ j.timely = job[p].timely
      /\ job' = [job EXCEPT ![p] = j]
  BY Goes DEF Goto, Labels
<1> HIDE DEF j
<1>2. Placed(p, j)
  BY <1>1
  DEF Placed, SubmitLabels, FinalizeLabels, ObserveLabels, KeeperLabels, ExpireLabels
<1>3. QED
  BY <1>1, <1>2

LEMMA Ends ==
  ASSUME NEW p \in Procs, Finish(p)
  PROVE  \E j \in Job : /\ job' = [job EXCEPT ![p] = j] /\ j.pc \in {"idle", "done"}
                        /\ p \in Requests => j.pc = "done"
                        /\ p \notin Requests => j.pc = "idle"
                        /\ Placed(p, j)
BY FinishedTyped, IdleTyped DEF Finish

LEMMA ExpireInvoiceRowInductive ==
  ASSUME IInv, NEW p \in Procs, ExpireInvoiceRow(p) PROVE IInv'
<1> DEFINE one == [job[p] EXCEPT !.pc = "expire_intent"]
           closed == (invoice = "open")
           j == [one EXCEPT !.closed = closed]
<1>1. /\ job[p].pc = "expire_invoice" /\ p # Observer /\ p # Keeper /\ TypeOK
      /\ job[p] \in Job /\ SameCovenant
      /\ UNCHANGED <<clock, books, intent, chain, receipts, outside>>
      /\ invoice' \in InvoiceStatus
  BY Expiring, SameIntent DEF ExpireInvoiceRow, At, ExpireLabels, IInv, TypeOK, InvoiceStatus
<1>2. one \in Job /\ one.pc = "expire_intent"
  BY <1>1 DEF Job, Labels, ExpireLabels
<1>3. closed \in BOOLEAN
  OBVIOUS
<1>4. job' = [job EXCEPT ![p] = j]
  BY <1>1 DEF ExpireInvoiceRow, TypeOK, Job
<1> HIDE DEF one, closed
<1>5. j \in Job /\ j.pc = "expire_intent"
  BY <1>2, <1>3 DEF Job
<1> HIDE DEF j
<1>6. Placed(p, j)
  BY <1>1, <1>5, PlacedExpiring DEF ExpireLabels
<1>7. UNCHANGED <<clock, payAddress, observation, chain, receipts, anomalies, outside>>
  BY <1>1 DEF books
<1>8. cycle' = cycle /\ cycle \in {"invoiced", "past_due", "paid"}
  BY <1>1 DEF books, TypeOK
<1>9. /\ j.pc \in Reopens /\ j.pc \notin Spending
      /\ job[p].pc \notin Mends \cup {"finalize_invoice", "done"}
  BY <1>1, <1>5 DEF Reopens, Mends, Spending
<1>10. QED
  BY <1>1, <1>4, <1>5, <1>6, <1>7, <1>8, <1>9, RowWritten

LEMMA ExpireIntentRowInductive ==
  ASSUME IInv, NEW p \in Procs, ExpireIntentRow(p) PROVE IInv'
<1>1. /\ job[p].pc = "expire_intent" /\ p # Observer /\ p # Keeper /\ TypeOK
      /\ UNCHANGED <<clock, invoice, books, chain, receipts, outside>>
  BY Expiring DEF ExpireIntentRow, At, ExpireLabels, IInv
<1>2. SameCovenant
  <2>1. CASE intent.tx # None
    BY <1>1, <2>1, SameIntent DEF ExpireIntentRow
  <2>2. CASE intent.tx = None
    <3> DEFINE covenant == IF intent.covenant \in {"pending", "awaiting_funding"}
                             THEN "expired" ELSE intent.covenant
    <3>1. intent' = [intent EXCEPT !.status = "expired", !.covenant = covenant]
      BY <1>1, <2>2 DEF ExpireIntentRow, TypeOK, Intent
    <3>2. /\ covenant \in CovenantState /\ "expired" \in IntentStatus
          /\ covenant \in Spendable => intent.covenant \in Spendable
          /\ covenant = "failed" <=> intent.covenant = "failed"
      BY <1>1 DEF TypeOK, Intent, CovenantState, IntentStatus, Spendable
    <3> HIDE DEF covenant
    <3>3. QED
      BY <1>1, <3>1, <3>2, StatusWritten
  <2>3. QED
    BY <2>1, <2>2
<1>3. PICK j \in Job : job' = [job EXCEPT ![p] = j] /\ j.pc = "expire_cycle" /\ Placed(p, j)
  BY <1>1, Continues DEF ExpireIntentRow, ExpireLabels, SubmitLabels
<1>4. /\ UNCHANGED <<clock, payAddress, observation, chain, receipts, anomalies, outside>>
      /\ cycle' = cycle /\ cycle \in {"invoiced", "past_due", "paid"}
      /\ invoice' = invoice /\ invoice \in InvoiceStatus
  BY <1>1 DEF books, TypeOK
<1>5. /\ j.pc \in Reopens /\ j.pc \notin Spending
      /\ job[p].pc \notin Mends \cup {"finalize_invoice", "done"}
  BY <1>1, <1>3 DEF Reopens, Mends, Spending
<1>6. QED
  BY <1>1, <1>2, <1>3, <1>4, <1>5, RowWritten

LEMMA ExpireCycleRowInductive ==
  ASSUME IInv, NEW p \in Procs, ExpireCycleRow(p) PROVE IInv'
<1>1. /\ job[p].pc = "expire_cycle" /\ p # Observer /\ p # Keeper /\ TypeOK /\ SameCovenant
      /\ UNCHANGED <<clock, payAddress, observation, chain, receipts, anomalies, outside>>
      /\ cycle' \in {"invoiced", "past_due", "paid"}
      /\ invoice' = invoice /\ invoice \in InvoiceStatus
  BY Expiring, SameIntent DEF ExpireCycleRow, At, ExpireLabels, IInv, TypeOK
<1>2. PICK j \in Job : job' = [job EXCEPT ![p] = j] /\ j.pc = "expire_check" /\ Placed(p, j)
  BY <1>1, Continues DEF ExpireCycleRow, ExpireLabels, SubmitLabels
<1>3. /\ j.pc \in Reopens /\ j.pc \in Mends /\ j.pc \notin Spending
      /\ job[p].pc \notin {"finalize_invoice", "done"}
  BY <1>1, <1>2 DEF Reopens, Mends, Spending
<1>4. QED
  BY <1>1, <1>2, <1>3, RowWritten

LEMMA RestoreInvoiceRowInductive ==
  ASSUME IInv, NEW p \in Procs, RestoreInvoiceRow(p) PROVE IInv'
<1>1. /\ job[p].pc = "restore_invoice" /\ p # Observer /\ p # Keeper /\ TypeOK /\ SameCovenant
      /\ UNCHANGED <<clock, payAddress, observation, chain, receipts, anomalies, outside>>
      /\ cycle' = cycle /\ cycle \in {"invoiced", "past_due", "paid"}
      /\ invoice' # "expired" /\ invoice' \in InvoiceStatus
  BY Expiring, SameIntent
  DEF RestoreInvoiceRow, At, ExpireLabels, IInv, TypeOK, InvoiceStatus, books
<1>2. PICK j \in Job : job' = [job EXCEPT ![p] = j] /\ j.pc = "restore_intent" /\ Placed(p, j)
  BY <1>1, Continues DEF RestoreInvoiceRow, ExpireLabels, SubmitLabels
<1>3. /\ j.pc \in Mends /\ j.pc \notin Spending
      /\ job[p].pc \notin {"finalize_invoice", "done"}
  BY <1>1, <1>2 DEF Mends, Spending
<1>4. QED
  BY <1>1, <1>2, <1>3, RowWritten

LEMMA RestoreIntentRowInductive ==
  ASSUME IInv, NEW p \in Procs, RestoreIntentRow(p) PROVE IInv'
<1>1. /\ job[p].pc = "restore_intent" /\ p # Observer /\ p # Keeper /\ TypeOK
      /\ UNCHANGED <<clock, invoice, books, chain, receipts, outside>>
  BY Expiring DEF RestoreIntentRow, At, ExpireLabels, IInv
<1>2. SameCovenant
  <2>1. CASE intent.tx = None
    BY <1>1, <2>1, SameIntent DEF RestoreIntentRow
  <2>2. CASE intent.tx # None
    <3> DEFINE covenant == IF intent.covenant = "expired" THEN "awaiting_funding"
                                                          ELSE intent.covenant
    <3>1. intent' = [intent EXCEPT !.status = "submitted", !.covenant = covenant]
      BY <1>1, <2>2 DEF RestoreIntentRow, TypeOK, Intent
    <3>2. /\ covenant \in CovenantState /\ "submitted" \in IntentStatus
          /\ covenant \in Spendable => intent.covenant \in Spendable
          /\ covenant = "failed" <=> intent.covenant = "failed"
      BY <1>1 DEF TypeOK, Intent, CovenantState, IntentStatus, Spendable
    <3> HIDE DEF covenant
    <3>3. QED
      BY <1>1, <3>1, <3>2, StatusWritten
  <2>3. QED
    BY <2>1, <2>2
<1>3. PICK j \in Job : job' = [job EXCEPT ![p] = j] /\ j.pc = "restore_cycle" /\ Placed(p, j)
  BY <1>1, Continues DEF RestoreIntentRow, ExpireLabels, SubmitLabels
<1>4. /\ UNCHANGED <<clock, payAddress, observation, chain, receipts, anomalies, outside>>
      /\ cycle' = cycle /\ cycle \in {"invoiced", "past_due", "paid"}
      /\ invoice' = invoice /\ invoice \in InvoiceStatus
  BY <1>1 DEF books, TypeOK
<1>5. /\ j.pc \in Mends /\ j.pc \notin Spending
      /\ job[p].pc \notin Reopens \cup {"finalize_invoice", "done"}
  BY <1>1, <1>3 DEF Reopens, Mends, Spending
<1>6. QED
  BY <1>1, <1>2, <1>3, <1>4, <1>5, RowWritten

LEMMA RestoreCycleRowInductive ==
  ASSUME IInv, NEW p \in Procs, RestoreCycleRow(p) PROVE IInv'
<1>1. /\ job[p].pc = "restore_cycle" /\ p # Observer /\ p # Keeper /\ TypeOK /\ SameCovenant
      /\ UNCHANGED <<clock, payAddress, observation, chain, receipts, anomalies, outside>>
      /\ cycle' # "past_due" /\ cycle' \in {"invoiced", "past_due", "paid"}
      /\ invoice' = invoice /\ invoice \in InvoiceStatus
  BY Expiring, SameIntent DEF RestoreCycleRow, At, ExpireLabels, IInv, TypeOK
<1>2. ExpireReturns(p, FALSE) /\ FALSE \in BOOLEAN
  BY DEF RestoreCycleRow
<1>3. PICK j \in Job : /\ job' = [job EXCEPT ![p] = j]
                       /\ j.pc \in {"idle", "done", "cancel_write"} /\ Placed(p, j)
  BY <1>1, <1>2, Returns
<1>4. /\ j.pc \notin Spending
      /\ job[p].pc \notin Reopens \cup {"finalize_invoice", "done"}
  BY <1>1, <1>3 DEF Reopens, Spending
<1>5. QED
  BY <1>1, <1>3, <1>4, RowWritten

LEMMA SubmitReopenInductive ==
  ASSUME IInv, NEW p \in Requests, SubmitReopen(p) PROVE IInv'
<1>1. /\ job[p].pc = "submit_reopen" /\ p \in Procs /\ p # Observer /\ p # Keeper
      /\ TypeOK /\ SameCovenant /\ Placed(p, job[p])
      /\ UNCHANGED <<clock, payAddress, observation, chain, receipts, anomalies, outside>>
      /\ cycle' = cycle /\ cycle \in {"invoiced", "past_due", "paid"}
  BY Requesting, SameIntent DEF SubmitReopen, At, IInv, TypeOK, books
<1>2. p \in Submitters /\ job[p].tx \in TxIds /\ job[p].timely
  BY <1>1 DEF Placed, SubmitLabels
<1>3. invoice' # "expired" /\ invoice' \in InvoiceStatus
  BY <1>1, <1>2 DEF SubmitReopen, TypeOK, InvoiceStatus
<1>4. PICK j \in Job : job' = [job EXCEPT ![p] = j] /\ j.pc = "submit_cycle" /\ Placed(p, j)
  BY <1>1, <1>2, Continues DEF SubmitReopen, ExpireLabels, SubmitLabels
<1>5. /\ j.pc \in Mends /\ j.pc \notin Spending
      /\ job[p].pc \notin {"finalize_invoice", "done"}
  BY <1>1, <1>4 DEF Mends, Spending
<1>6. QED
  BY <1>1, <1>3, <1>4, <1>5, RowWritten

LEMMA SubmitCycleInductive ==
  ASSUME IInv, NEW p \in Requests, SubmitCycle(p) PROVE IInv'
<1>1. /\ job[p].pc = "submit_cycle" /\ p \in Procs /\ p # Observer /\ p # Keeper
      /\ TypeOK /\ SameCovenant
      /\ UNCHANGED <<clock, payAddress, observation, chain, receipts, anomalies, outside>>
      /\ cycle' # "past_due" /\ cycle' \in {"invoiced", "past_due", "paid"}
      /\ invoice' = invoice /\ invoice \in InvoiceStatus
  BY Requesting, SameIntent DEF SubmitCycle, At, IInv, TypeOK
<1>2. PICK j \in Job : /\ job' = [job EXCEPT ![p] = j]
                       /\ j.pc \in {"idle", "done"} /\ Placed(p, j)
  BY <1>1, Ends DEF SubmitCycle
<1>3. /\ j.pc \notin Spending
      /\ job[p].pc \notin Reopens \cup {"finalize_invoice", "done"}
  BY <1>1, <1>2 DEF Reopens, Spending
<1>4. QED
  BY <1>1, <1>2, <1>3, RowWritten

LEMMA CancelWriteInductive ==
  ASSUME IInv, NEW p \in Requests, CancelWrite(p) PROVE IInv'
<1>1. /\ job[p].pc = "cancel_write" /\ p \in Procs /\ p # Observer /\ p # Keeper
      /\ TypeOK /\ SameCovenant
      /\ UNCHANGED <<clock, payAddress, observation, chain, receipts, anomalies, outside>>
      /\ cycle' = cycle /\ cycle \in {"invoiced", "past_due", "paid"}
      /\ invoice' = "expired" => invoice = "expired"
      /\ invoice' \in InvoiceStatus
  BY Requesting, SameIntent DEF CancelWrite, At, IInv, TypeOK, InvoiceStatus, books
<1>2. PICK j \in Job : /\ job' = [job EXCEPT ![p] = j]
                       /\ j.pc \in {"idle", "done"} /\ Placed(p, j)
  BY <1>1, Ends DEF CancelWrite
<1>3. /\ j.pc \notin Spending
      /\ job[p].pc \notin Reopens \cup Mends \cup {"finalize_invoice", "done"}
  BY <1>1, <1>2 DEF Reopens, Mends, Spending
<1>4. QED
  BY <1>1, <1>2, <1>3, RowWritten

LEMMA FetchWriteInductive ==
  ASSUME IInv, NEW p \in Requests, FetchWrite(p) PROVE IInv'
<1>1. /\ job[p].pc = "fetch_write" /\ p \in Procs /\ p # Observer /\ p # Keeper
      /\ TypeOK /\ job[p].status \in IntentStatus
      /\ UNCHANGED <<clock, invoice, books, chain, receipts, outside>>
  BY Requesting DEF FetchWrite, At, IInv, TypeOK, Job
<1>2. SameCovenant
  BY <1>1 DEF FetchWrite, SameCovenant, TypeOK, Intent
<1>3. PICK j \in Job : /\ job' = [job EXCEPT ![p] = j]
                       /\ j.pc \in {"idle", "done"} /\ Placed(p, j)
  BY <1>1, Ends DEF FetchWrite
<1>4. /\ UNCHANGED <<clock, payAddress, observation, chain, receipts, anomalies, outside>>
      /\ cycle' = cycle /\ cycle \in {"invoiced", "past_due", "paid"}
      /\ invoice' = invoice /\ invoice \in InvoiceStatus
  BY <1>1 DEF books, TypeOK
<1>5. /\ j.pc \notin Spending
      /\ job[p].pc \notin Reopens \cup Mends \cup {"finalize_invoice", "done"}
  BY <1>1, <1>3 DEF Reopens, Mends, Spending
<1>6. QED
  BY <1>1, <1>2, <1>3, <1>4, <1>5, RowWritten

\* The keeper writes the invoice, the intent or the cycle.
LEMMA KeeperWrites ==
  ASSUME IInv, job[Keeper].pc \in KeeperLabels, SameCovenant,
         \/ Finish(Keeper)
         \/ \E pc \in KeeperLabels :
              /\ Goto(Keeper, pc)
              /\ pc \in Spending => job[Keeper].pc \in Spending \/ intent.covenant \in Spendable,
         UNCHANGED <<clock, payAddress, observation, chain, receipts, anomalies, outside>>,
         invoice' \in InvoiceStatus, cycle' \in {"invoiced", "past_due", "paid"},
         invoice' = "expired" => invoice = "expired",
         cycle' = "past_due" => cycle = "past_due"
  PROVE  IInv'
<1>1. Keeper \in Procs /\ Keeper # Observer /\ TypeOK
  BY Constants DEF IInv
<1>2. PICK j \in Job :
        /\ job' = [job EXCEPT ![Keeper] = j] /\ Placed(Keeper, j)
        /\ j.pc \in Spending => job[Keeper].pc \in Spending \/ intent.covenant \in Spendable
  <2>1. CASE Finish(Keeper)
    <3>1. PICK j \in Job : /\ job' = [job EXCEPT ![Keeper] = j]
                           /\ j.pc \in {"idle", "done"} /\ Placed(Keeper, j)
      BY <1>1, <2>1, Ends
    <3>2. QED
      BY <3>1 DEF Spending
  <2>2. ASSUME NEW pc \in KeeperLabels, Goto(Keeper, pc),
               pc \in Spending => job[Keeper].pc \in Spending \/ intent.covenant \in Spendable
        PROVE  \E j \in Job :
                 /\ job' = [job EXCEPT ![Keeper] = j] /\ Placed(Keeper, j)
                 /\ j.pc \in Spending =>
                      job[Keeper].pc \in Spending \/ intent.covenant \in Spendable
    <3> DEFINE j == [job[Keeper] EXCEPT !.pc = pc]
    <3>1. pc \in Labels
      BY DEF KeeperLabels, Labels
    <3>2. j \in Job /\ j.pc = pc /\ job' = [job EXCEPT ![Keeper] = j]
      BY <1>1, <2>2, <3>1, Goes DEF Goto
    <3> HIDE DEF j
    <3>3. Placed(Keeper, j)
      BY <3>2
      DEF Placed, SubmitLabels, FinalizeLabels, ObserveLabels, KeeperLabels, ExpireLabels
    <3>4. QED
      BY <2>2, <3>2, <3>3
  <2>3. QED
    BY <2>1, <2>2
<1>3. job[Keeper].pc \notin Reopens \cup Mends \cup {"finalize_invoice", "done"}
  BY DEF Reopens, Mends, KeeperLabels
<1>4. QED
  BY <1>1, <1>2, <1>3, RowWritten

LEMMA KeeperClaimInductive ==
  ASSUME IInv, KeeperClaim PROVE IInv'
<1>1. /\ job[Keeper].pc \in KeeperLabels /\ TypeOK
      /\ UNCHANGED <<clock, payAddress, observation, chain, receipts, anomalies, outside>>
      /\ cycle' = cycle /\ cycle \in {"invoiced", "past_due", "paid"}
      /\ invoice' = invoice /\ invoice \in InvoiceStatus
  BY DEF KeeperClaim, At, KeeperLabels, IInv, TypeOK, books
<1>2. CASE intent.covenant = "funded"
  <2>1. SameCovenant
    BY <1>1, <1>2 DEF KeeperClaim, SameCovenant, TypeOK, Intent, Spendable, CovenantState
  <2>2. Goto(Keeper, "keeper_broadcast") /\ "keeper_broadcast" \in KeeperLabels
        /\ intent.covenant \in Spendable
    BY <1>2 DEF KeeperClaim, KeeperLabels, Spendable
  <2>3. QED
    BY <1>1, <2>1, <2>2, KeeperWrites
<1>3. CASE intent.covenant # "funded"
  <2>1. SameCovenant /\ Finish(Keeper)
    BY <1>1, <1>3, SameIntent DEF KeeperClaim
  <2>2. QED
    BY <1>1, <2>1, KeeperWrites
<1>4. QED
  BY <1>2, <1>3

LEMMA KeeperRestoreInductive ==
  ASSUME IInv, KeeperRestore PROVE IInv'
<1>1. /\ job[Keeper].pc \in KeeperLabels /\ TypeOK /\ Finish(Keeper)
      /\ UNCHANGED <<clock, payAddress, observation, chain, receipts, anomalies, outside>>
      /\ cycle' = cycle /\ cycle \in {"invoiced", "past_due", "paid"}
      /\ invoice' = invoice /\ invoice \in InvoiceStatus
  BY DEF KeeperRestore, At, KeeperLabels, IInv, TypeOK, books
<1>2. SameCovenant
  <2>1. CASE intent.covenant = "settling"
    BY <1>1, <2>1 DEF KeeperRestore, SameCovenant, TypeOK, Intent, Spendable, CovenantState
  <2>2. CASE intent.covenant # "settling"
    BY <1>1, <2>2, SameIntent DEF KeeperRestore
  <2>3. QED
    BY <2>1, <2>2
<1>3. QED
  BY <1>1, <1>2, KeeperWrites

LEMMA KeeperInvoiceInductive ==
  ASSUME IInv, KeeperInvoice PROVE IInv'
<1>1. /\ job[Keeper].pc \in KeeperLabels /\ TypeOK /\ SameCovenant
      /\ Goto(Keeper, "keeper_cycle") /\ "keeper_cycle" \in KeeperLabels
      /\ "keeper_cycle" \notin Spending
      /\ UNCHANGED <<clock, payAddress, observation, chain, receipts, anomalies, outside>>
      /\ cycle' = cycle /\ cycle \in {"invoiced", "past_due", "paid"}
      /\ invoice' \in InvoiceStatus
      /\ invoice' = "expired" => invoice = "expired"
  BY SameIntent
  DEF KeeperInvoice, At, KeeperLabels, Spending, IInv, TypeOK, books, InvoiceStatus
<1>2. QED
  BY <1>1, KeeperWrites

LEMMA KeeperCycleInductive ==
  ASSUME IInv, KeeperCycle PROVE IInv'
<1>1. /\ job[Keeper].pc \in KeeperLabels /\ TypeOK /\ SameCovenant /\ Finish(Keeper)
      /\ UNCHANGED <<clock, payAddress, observation, chain, receipts, anomalies, outside>>
      /\ cycle' = "paid" /\ invoice' = invoice /\ invoice \in InvoiceStatus
  BY SameIntent DEF KeeperCycle, At, KeeperLabels, IInv, TypeOK
<1>2. QED
  BY <1>1, KeeperWrites

-----------------------------------------------------------------------------
(* The steps that record a transaction, an address or a receipt, and those *)
(* of the environment.                                                     *)


\* A transaction is recorded only by a claim that nobody made before.
LEMMA SubmitClaimInductive ==
  ASSUME IInv, NEW p \in Requests, SubmitClaim(p) PROVE IInv'
<1>1. /\ job[p].pc = "submit_claim" /\ p \in Procs /\ p # Observer /\ p # Keeper
      /\ TypeOK /\ Placed(p, job[p])
      /\ UNCHANGED <<clock, invoice, books, chain, receipts, outside>>
  BY Requesting DEF SubmitClaim, At, IInv
<1>2. p \in Submitters /\ job[p].tx \in TxIds /\ job[p].timely
  BY <1>1 DEF Placed, SubmitLabels
<1>3. CASE ~ClaimAccepts(p)
  <2>1. Finish(p) /\ SameCovenant
    BY <1>1, <1>3, SameIntent DEF SubmitClaim
  <2>2. PICK j \in Job : /\ job' = [job EXCEPT ![p] = j]
                         /\ j.pc \in {"idle", "done"} /\ Placed(p, j)
    BY <1>1, <2>1, Ends
  <2>3. /\ UNCHANGED <<clock, payAddress, observation, chain, receipts, anomalies, outside>>
        /\ cycle' = cycle /\ cycle \in {"invoiced", "past_due", "paid"}
        /\ invoice' = invoice /\ invoice \in InvoiceStatus
    BY <1>1 DEF books, TypeOK
  <2>4. /\ j.pc \notin Spending
        /\ job[p].pc \notin Reopens \cup Mends \cup {"finalize_invoice", "done"}
    BY <1>1, <2>2 DEF Reopens, Mends, Spending
  <2>5. QED
    BY <1>1, <2>1, <2>2, <2>3, <2>4, RowWritten
<1>4. CASE ClaimAccepts(p)
  <2> DEFINE timely == IF intent.tx = None THEN job[p].timely ELSE intent.timely
             one == [intent EXCEPT !.status = "submitted"]
             two == [one EXCEPT !.tx = job[p].tx]
             row == [two EXCEPT !.timely = timely]
  <2>1. /\ one \in Intent /\ one.tx = intent.tx /\ one.timely = intent.timely
        /\ one.address = intent.address /\ one.covenant = intent.covenant
    BY <1>1 DEF TypeOK, Intent, IntentStatus
  <2>2. intent' = row
    BY <1>1, <1>4 DEF SubmitClaim, TypeOK, Intent
  <2>3. timely = TRUE
    BY <1>1, <1>2 DEF IInv, AcceptedInTime
  <2> HIDE DEF one, timely
  <2>4. /\ two \in Intent /\ two.tx = job[p].tx
        /\ two.address = intent.address /\ two.covenant = intent.covenant
    BY <1>2, <2>1 DEF Intent
  <2> HIDE DEF two
  <2>5. /\ row \in Intent /\ row.tx = job[p].tx /\ row.timely = TRUE
        /\ row.address = intent.address /\ row.covenant = intent.covenant
    BY <2>3, <2>4 DEF Intent
  <2> HIDE DEF row
  <2>6. intent.tx # None => intent'.tx = intent.tx
    BY <1>4, <2>2, <2>5 DEF ClaimAccepts
  <2>7. PICK j \in Job : job' = [job EXCEPT ![p] = j] /\ j.pc = "submit_reopen" /\ Placed(p, j)
    <3>1. Goto(p, "submit_reopen") /\ "submit_reopen" \in ExpireLabels \cup SubmitLabels
          /\ "submit_reopen" \notin ExpireLabels
      BY <1>4 DEF SubmitClaim, ExpireLabels, SubmitLabels
    <3>2. QED
      BY <1>1, <1>2, <3>1, Continues
  <2>8. \A q \in Procs : job'[q] = IF q = p THEN j ELSE job[q]
    BY <1>1, <2>7 DEF TypeOK
  <2>9. UNCHANGED <<payAddress, cycle, observation, anomalies>>
    BY <1>1 DEF books
  <2>10. TypeOK'
    <3>1. job' \in [Procs -> Job]
      BY <1>1, <2>7 DEF TypeOK
    <3>2. QED
      BY <1>1, <2>2, <2>5, <2>9, <3>1 DEF TypeOK
  <2>11. \A q \in Procs : Placed(q, job[q])'
    <3> SUFFICES ASSUME NEW q \in Procs PROVE Placed(q, job'[q])
      BY DEF Placed
    <3>1. QED
      BY <2>7, <2>8 DEF IInv
  <2>12. AcceptedInTime'
    BY <2>2, <2>5 DEF AcceptedInTime
  <2>13. InvoiceMended' /\ CycleMended'
    <3>1. j.pc \in Reopens /\ j.pc \in Mends
      BY <2>7 DEF Reopens, Mends
    <3>2. QED
      BY <1>1, <2>8, <3>1 DEF InvoiceMended, CycleMended
  <2>14. AddressesGiven'
    <3>1. \A a \in Addresses : a \in Procs
      BY Constants
    <3>2. job[p].pc \notin {"finalize_invoice", "done"}
      BY <1>1
    <3>3. intent'.address = intent.address
      BY <2>2, <2>5
    <3>4. QED
      BY <1>1, <2>8, <3>1, <3>2, <3>3 DEF IInv, AddressesGiven
  <2>15. Books'
    <3>1. /\ intent'.covenant = intent.covenant /\ intent'.address = intent.address
          /\ chain' = chain /\ anomalies' = anomalies /\ cut' = cut
      BY <1>1, <2>2, <2>5, <2>9
    <3>2. job'[Observer] = job[Observer] /\ job'[Keeper] = job[Keeper]
      BY <1>1, <2>8, Constants
    <3>3. AddressesGiven /\ Books
      BY DEF IInv
    <3>4. /\ \/ intent'.address = intent.address
             \/ intent'.address # None /\ intent'.address \notin receipts
          /\ \A t \in TxIds : chain[t].address # None =>
               /\ chain'[t].address = chain[t].address /\ chain'[t].exact = chain[t].exact
               /\ chain[t].deep => chain'[t].deep
          /\ "report" \notin cut' => "report" \notin cut
          /\ intent'.covenant \in Spendable =>
               intent.covenant \in Spendable \/ job[Keeper].pc \in Spending
          /\ intent'.covenant = "failed" => intent.covenant = "failed"
          /\ intent.covenant = "failed" /\ intent'.covenant # "failed" =>
               Funded \/ (intent'.address # None /\ intent'.address \notin receipts)
          /\ job'[Keeper].pc \in Spending =>
               job[Keeper].pc \in Spending \/ intent.covenant \in Spendable
          /\ \/ job'[Observer] = job[Observer]
             \/ /\ job'[Observer].pc = "idle"
                /\ job[Observer].pc = "observe_anomaly" => "report" \in cut'
      BY <3>1, <3>2
    <3>5. QED
      BY <1>1, <2>6, <2>10, <3>1, <3>3, <3>4, BooksKept
  <2>16. QED
    BY <2>10, <2>11, <2>12, <2>13, <2>14, <2>15 DEF IInv
<1>5. QED
  BY <1>3, <1>4

\* What remains of the invariant after a step of one process.
LEMMA ProcessStep ==
  ASSUME IInv, TypeOK', NEW p \in Procs, NEW j \in Job, job' = [job EXCEPT ![p] = j],
         Placed(p, j), AcceptedInTime', InvoiceMended', CycleMended', AddressesGiven', Books'
  PROVE  IInv'
<1>1. \A q \in Procs : job'[q] = IF q = p THEN j ELSE job[q]
  BY DEF IInv, TypeOK
<1>2. \A q \in Procs : Placed(q, job[q])'
  <2> SUFFICES ASSUME NEW q \in Procs PROVE Placed(q, job'[q])
    BY DEF Placed
  <2>1. QED
    BY <1>1 DEF IInv
<1>3. QED
  BY <1>2 DEF IInv

\* A finalize request writes the address, or hands it out.
LEMMA FinalizeStep ==
  ASSUME IInv, TypeOK', NEW p \in Requests, NEW j \in Job, job' = [job EXCEPT ![p] = j],
         Placed(p, j), job[p].pc \in FinalizeLabels,
         UNCHANGED <<clock, invoice, cycle, observation, anomalies, chain, outside>>,
         receipts \subseteq receipts',
         intent'.tx = intent.tx, intent'.timely = intent.timely,
         \/ /\ intent'.address = intent.address /\ intent'.covenant = intent.covenant
         \/ /\ intent'.address # None /\ intent'.address \notin receipts
            /\ intent'.covenant = "awaiting_funding",
         \A a \in Addresses : a \in receipts' \/ a = intent'.address =>
           \/ a \in receipts \/ a = intent.address
           \/ a = p /\ j.pc \in {"finalize_invoice", "done"},
         job[p].pc = "finalize_invoice" => j.pc = "done"
  PROVE  IInv'
<1>1. p \in Procs /\ p # Observer /\ p # Keeper /\ TypeOK
  BY Requesting DEF IInv
<1>2. \A q \in Procs : job'[q] = IF q = p THEN j ELSE job[q]
  BY <1>1 DEF TypeOK
<1>3. AcceptedInTime'
  BY DEF IInv, AcceptedInTime
<1>4. InvoiceMended' /\ CycleMended'
  <2>1. TimelySubmission' <=> TimelySubmission
    BY DEF TimelySubmission
  <2>2. job[p].pc \notin Reopens \cup Mends
    BY DEF Reopens, Mends, FinalizeLabels
  <2>3. /\ invoice' = "expired" /\ TimelySubmission' =>
             \/ j.pc \in Reopens
             \/ invoice = "expired" /\ TimelySubmission /\ job[p].pc \notin Reopens
        /\ cycle' = "past_due" /\ TimelySubmission' =>
             \/ j.pc \in Mends
             \/ cycle = "past_due" /\ TimelySubmission /\ job[p].pc \notin Mends
        /\ cut' = cut
    BY <2>1, <2>2
  <2>4. TypeOK /\ InvoiceMended /\ CycleMended
    BY DEF IInv
  <2>5. QED
    BY <1>1, <2>3, <2>4, MendsKept
<1>5. AddressesGiven'
  <2>1. \A a \in Addresses : a \in Procs
    BY Constants
  <2>2. AddressesGiven /\ chain' = chain
    BY DEF IInv
  <2>3. ASSUME NEW a \in Addresses, a \in receipts' \/ a = intent'.address
        PROVE  job'[a].pc \in {"finalize_invoice", "done"}
    <3>1. CASE a = p /\ j.pc \in {"finalize_invoice", "done"}
      BY <1>1, <1>2, <3>1
    <3>2. CASE a \in receipts \/ a = intent.address
      <4>1. job[a].pc \in {"finalize_invoice", "done"}
        BY <2>2, <3>2 DEF AddressesGiven
      <4>2. a = p => j.pc = "done"
        BY <4>1 DEF FinalizeLabels
      <4>3. QED
        BY <1>2, <2>1, <4>1, <4>2
    <3>3. QED
      BY <2>3, <3>1, <3>2
  <2>4. QED
    BY <2>2, <2>3 DEF AddressesGiven
<1>6. Books'
  <2>1. AddressesGiven /\ Books
    BY DEF IInv
  <2>2. job'[Observer] = job[Observer] /\ job'[Keeper] = job[Keeper]
    BY <1>1, <1>2, Constants
  <2>3. /\ intent.tx # None => intent'.tx = intent.tx
        /\ \/ intent'.address = intent.address
           \/ intent'.address # None /\ intent'.address \notin receipts
        /\ \A t \in TxIds : chain[t].address # None =>
             /\ chain'[t].address = chain[t].address /\ chain'[t].exact = chain[t].exact
             /\ chain[t].deep => chain'[t].deep
        /\ anomalies' = anomalies
        /\ "report" \notin cut' => "report" \notin cut
        /\ intent'.covenant \in Spendable =>
             intent.covenant \in Spendable \/ job[Keeper].pc \in Spending
        /\ intent'.covenant = "failed" => intent.covenant = "failed"
        /\ intent.covenant = "failed" /\ intent'.covenant # "failed" =>
             Funded \/ (intent'.address # None /\ intent'.address \notin receipts)
        /\ job'[Keeper].pc \in Spending =>
             job[Keeper].pc \in Spending \/ intent.covenant \in Spendable
        /\ \/ job'[Observer] = job[Observer]
           \/ /\ job'[Observer].pc = "idle"
              /\ job[Observer].pc = "observe_anomaly" => "report" \in cut'
    BY <2>2 DEF Spendable
  <2>4. QED
    BY <1>1, <2>1, <2>3, BooksKept
<1>7. QED
  BY <1>1, <1>3, <1>4, <1>5, <1>6, ProcessStep

LEMMA FinalizeReadIntentInductive ==
  ASSUME IInv, NEW p \in Requests, FinalizeReadIntent(p) PROVE IInv'
<1>1. /\ job[p].pc = "finalize_intent" /\ p \in Procs /\ TypeOK /\ Placed(p, job[p])
      /\ UNCHANGED <<clock, invoice, books, intent, chain, outside>>
      /\ UNCHANGED <<payAddress, cycle, observation, anomalies>>
  BY Requesting DEF FinalizeReadIntent, At, IInv, books
<1>2. p \in Finalizers
  BY <1>1 DEF Placed, FinalizeLabels
<1>3. \/ receipts' = receipts
      \/ receipts' = receipts \cup {intent.address} /\ intent.address # None
  BY DEF FinalizeReadIntent
<1>4. PICK j \in Job : job' = [job EXCEPT ![p] = j] /\ Placed(p, j)
  <2>1. CASE Finish(p)
    BY <1>1, <2>1, Ends
  <2>2. ASSUME NEW pc \in {"expire_invoice", "finalize_address"}, Decided(p, pc)
        PROVE  \E j \in Job : job' = [job EXCEPT ![p] = j] /\ Placed(p, j)
    <3> DEFINE j == [Idle EXCEPT !.pc = pc, !.timely = job[p].timely, !.tx = job[p].tx]
    <3>1. pc \in Labels
      BY DEF Labels, ExpireLabels
    <3>2. j \in Job /\ j.pc = pc /\ job' = [job EXCEPT ![p] = j]
      BY <1>1, <2>2, <3>1, DecidedTyped DEF Decided
    <3> HIDE DEF j
    <3>3. Placed(p, j)
      BY <1>2, <3>2, Requesting
      DEF Placed, SubmitLabels, FinalizeLabels, ObserveLabels, KeeperLabels, ExpireLabels
    <3>4. QED
      BY <3>2, <3>3
  <2>3. \/ Finish(p) \/ Decided(p, "expire_invoice") \/ Decided(p, "finalize_address")
    BY DEF FinalizeReadIntent
  <2>4. QED
    BY <2>1, <2>2, <2>3
<1>5. receipts' \subseteq Addresses
  BY <1>1, <1>3 DEF TypeOK, Intent
<1>6. job' \in [Procs -> Job]
  BY <1>1, <1>4 DEF TypeOK
<1>7. TypeOK'
  BY <1>1, <1>5, <1>6 DEF TypeOK
<1>8. job[p].pc \in FinalizeLabels /\ job[p].pc # "finalize_invoice"
  BY <1>1 DEF FinalizeLabels
<1>9. QED
  BY <1>1, <1>3, <1>4, <1>7, <1>8, FinalizeStep

\* The address written is the request's own, and nobody has it yet.
LEMMA FinalizeWriteIntentInductive ==
  ASSUME IInv, NEW p \in Requests, FinalizeWriteIntent(p) PROVE IInv'
<1>1. /\ job[p].pc = "finalize_address" /\ p \in Procs /\ TypeOK /\ Placed(p, job[p])
      /\ UNCHANGED <<clock, invoice, books, chain, receipts, outside>>
      /\ UNCHANGED <<payAddress, cycle, observation, anomalies>>
  BY Requesting DEF FinalizeWriteIntent, At, IInv, books
<1>2. p \in Finalizers /\ p \in Addresses /\ p # None /\ p \notin receipts
  <2>1. p \in Finalizers /\ p \in Addresses /\ p # None
    BY <1>1, Constants DEF Placed, FinalizeLabels
  <2>2. QED
    BY <1>1, <2>1 DEF IInv, AddressesGiven
<1> DEFINE one == [intent EXCEPT !.address = p]
           row == [one EXCEPT !.covenant = "awaiting_funding"]
<1>3. /\ one \in Intent /\ one.address = p /\ one.tx = intent.tx /\ one.timely = intent.timely
  BY <1>1, <1>2 DEF TypeOK, Intent
<1>4. intent' = row
  BY <1>1 DEF FinalizeWriteIntent, TypeOK, Intent
<1> HIDE DEF one
<1>5. /\ row \in Intent /\ row.address = p /\ row.tx = intent.tx
      /\ row.timely = intent.timely /\ row.covenant = "awaiting_funding"
  BY <1>3 DEF Intent, CovenantState
<1> HIDE DEF row
<1> DEFINE j == [job[p] EXCEPT !.pc = "finalize_invoice"]
<1>6. j \in Job /\ j.pc = "finalize_invoice" /\ job' = [job EXCEPT ![p] = j]
  <2>1. "finalize_invoice" \in Labels
    BY DEF Labels
  <2>2. QED
    BY <1>1, <2>1, Goes DEF FinalizeWriteIntent, Goto
<1> HIDE DEF j
<1>7. Placed(p, j)
  BY <1>2, <1>6
  DEF Placed, SubmitLabels, FinalizeLabels, ObserveLabels, KeeperLabels, ExpireLabels
<1>8. job' \in [Procs -> Job]
  BY <1>1, <1>6 DEF TypeOK
<1>9. TypeOK'
  BY <1>1, <1>4, <1>5, <1>8 DEF TypeOK
<1>10. job[p].pc \in FinalizeLabels /\ job[p].pc # "finalize_invoice"
  BY <1>1 DEF FinalizeLabels
<1>11. QED
  BY <1>1, <1>2, <1>4, <1>5, <1>6, <1>7, <1>9, <1>10, FinalizeStep

LEMMA FinalizeWriteInvoiceInductive ==
  ASSUME IInv, NEW p \in Requests, FinalizeWriteInvoice(p) PROVE IInv'
<1>1. /\ job[p].pc = "finalize_invoice" /\ p \in Procs /\ TypeOK /\ Placed(p, job[p])
      /\ UNCHANGED <<clock, invoice, cycle, observation, anomalies, intent, chain, outside>>
      /\ payAddress' = p /\ receipts' = receipts \cup {p}
  BY Requesting DEF FinalizeWriteInvoice, At, IInv
<1>2. p \in Finalizers /\ p \in Addresses
  BY <1>1, Constants DEF Placed, FinalizeLabels
<1>3. PICK j \in Job : job' = [job EXCEPT ![p] = j] /\ j.pc = "done" /\ Placed(p, j)
  BY <1>1, Ends DEF FinalizeWriteInvoice
<1>4. job' \in [Procs -> Job]
  BY <1>1, <1>3 DEF TypeOK
<1>5. TypeOK'
  BY <1>1, <1>2, <1>4 DEF TypeOK
<1>6. job[p].pc \in FinalizeLabels
  BY <1>1 DEF FinalizeLabels
<1>7. QED
  BY <1>1, <1>3, <1>5, <1>6, FinalizeStep

LEMMA KeeperIntentInductive ==
  ASSUME IInv, KeeperIntent PROVE IInv'
<1>1. /\ job[Keeper].pc = "keeper_intent" /\ TypeOK /\ Keeper \in Procs /\ Keeper # Observer
      /\ UNCHANGED <<clock, invoice, books, chain, receipts, outside>>
      /\ UNCHANGED <<payAddress, cycle, observation, anomalies>>
  BY Constants DEF KeeperIntent, At, IInv, books
<1>2. Funded
  BY <1>1 DEF IInv, Books, FundsKnown, Spending
<1> DEFINE row == [intent EXCEPT !.status = "settled", !.covenant = "captured"]
           j   == [job[Keeper] EXCEPT !.pc = "keeper_invoice"]
<1>3. /\ row \in Intent /\ row.covenant = "captured"
      /\ row.tx = intent.tx /\ row.timely = intent.timely /\ row.address = intent.address
  BY <1>1, IntentWritten DEF IntentStatus, CovenantState
<1>4. intent' = row
  BY DEF KeeperIntent
<1> HIDE DEF row
<1>5. j \in Job /\ j.pc = "keeper_invoice" /\ job' = [job EXCEPT ![Keeper] = j]
  <2>1. "keeper_invoice" \in Labels
    BY DEF Labels
  <2>2. QED
    BY <1>1, <2>1, Goes DEF KeeperIntent, Goto
<1> HIDE DEF j
<1>6. Placed(Keeper, j)
  BY <1>5
  DEF Placed, SubmitLabels, FinalizeLabels, ObserveLabels, KeeperLabels, ExpireLabels
<1>7. TypeOK'
  <2>1. job' \in [Procs -> Job]
    BY <1>1, <1>5 DEF TypeOK
  <2>2. QED
    BY <1>1, <1>3, <1>4, <2>1 DEF TypeOK
<1>8. \A q \in Procs : job'[q] = IF q = Keeper THEN j ELSE job[q]
  BY <1>1, <1>5 DEF TypeOK
<1>9. AcceptedInTime'
  BY <1>3, <1>4 DEF IInv, AcceptedInTime
<1>10. InvoiceMended' /\ CycleMended'
  <2>1. TimelySubmission' <=> TimelySubmission
    BY <1>3, <1>4 DEF TimelySubmission
  <2>2. job[Keeper].pc \notin Reopens \cup Mends
    BY <1>1 DEF Reopens, Mends
  <2>3. /\ invoice' = "expired" /\ TimelySubmission' =>
             \/ j.pc \in Reopens
             \/ invoice = "expired" /\ TimelySubmission /\ job[Keeper].pc \notin Reopens
        /\ cycle' = "past_due" /\ TimelySubmission' =>
             \/ j.pc \in Mends
             \/ cycle = "past_due" /\ TimelySubmission /\ job[Keeper].pc \notin Mends
        /\ cut' = cut
    BY <1>1, <2>1, <2>2
  <2>4. InvoiceMended /\ CycleMended
    BY DEF IInv
  <2>5. QED
    BY <1>1, <1>5, <2>3, <2>4, MendsKept
<1>11. AddressesGiven'
  <2>1. \A a \in Addresses : a \in Procs
    BY Constants
  <2>2. intent'.address = intent.address
    BY <1>3, <1>4
  <2>3. QED
    BY <1>1, <1>8, <2>1, <2>2 DEF IInv, AddressesGiven
<1>12. Books'
  <2>1. AddressesGiven /\ Books
    BY DEF IInv
  <2>2. job'[Observer] = job[Observer] /\ job'[Keeper].pc \notin Spending
    BY <1>1, <1>5, <1>8, Constants DEF Spending
  <2>3. /\ intent.tx # None => intent'.tx = intent.tx
        /\ \/ intent'.address = intent.address
           \/ intent'.address # None /\ intent'.address \notin receipts
        /\ \A t \in TxIds : chain[t].address # None =>
             /\ chain'[t].address = chain[t].address /\ chain'[t].exact = chain[t].exact
             /\ chain[t].deep => chain'[t].deep
        /\ anomalies' = anomalies
        /\ "report" \notin cut' => "report" \notin cut
        /\ intent'.covenant \in Spendable =>
             intent.covenant \in Spendable \/ job[Keeper].pc \in Spending
        /\ intent'.covenant = "failed" => intent.covenant = "failed"
        /\ intent.covenant = "failed" /\ intent'.covenant # "failed" =>
             Funded \/ (intent'.address # None /\ intent'.address \notin receipts)
        /\ job'[Keeper].pc \in Spending =>
             job[Keeper].pc \in Spending \/ intent.covenant \in Spendable
        /\ \/ job'[Observer] = job[Observer]
           \/ /\ job'[Observer].pc = "idle"
              /\ job[Observer].pc = "observe_anomaly" => "report" \in cut'
    BY <1>1, <1>2, <1>3, <1>4, <2>2 DEF Spending
  <2>4. QED
    BY <1>1, <1>7, <2>1, <2>3, BooksKept
<1>13. QED
  BY <1>1, <1>5, <1>6, <1>7, <1>9, <1>10, <1>11, <1>12, ProcessStep

\* Time, payments and confirmations: no row and no handler moves.
LEMMA EnvironmentStep ==
  ASSUME IInv, TypeOK', UNCHANGED <<invoice, books, intent, receipts, job, cut>>,
         \A t \in TxIds : chain[t].address # None =>
           /\ chain'[t].address = chain[t].address /\ chain'[t].exact = chain[t].exact
           /\ chain[t].deep => chain'[t].deep,
         \A t \in TxIds :
           chain'[t].address # None \/ chain'[t].deep \/ chain'[t].whole =>
               chain'[t].address \in receipts
  PROVE  IInv'
<1>1. UNCHANGED <<payAddress, cycle, observation, anomalies>>
  BY DEF books
<1>2. /\ \A p \in Procs : Placed(p, job[p])'
      /\ AcceptedInTime' /\ InvoiceMended' /\ CycleMended'
  BY <1>1 DEF IInv, Placed, AcceptedInTime, InvoiceMended, CycleMended, TimelySubmission
<1>3. AddressesGiven'
  BY DEF IInv, AddressesGiven
<1>4. Books'
  <2>1. TypeOK /\ AddressesGiven /\ Books
    BY DEF IInv
  <2>2. /\ intent.tx # None => intent'.tx = intent.tx
        /\ \/ intent'.address = intent.address
           \/ intent'.address # None /\ intent'.address \notin receipts
        /\ anomalies' = anomalies
        /\ "report" \notin cut' => "report" \notin cut
        /\ intent'.covenant \in Spendable =>
             intent.covenant \in Spendable \/ job[Keeper].pc \in Spending
        /\ intent'.covenant = "failed" => intent.covenant = "failed"
        /\ intent.covenant = "failed" /\ intent'.covenant # "failed" =>
             Funded \/ (intent'.address # None /\ intent'.address \notin receipts)
        /\ job'[Keeper].pc \in Spending =>
             job[Keeper].pc \in Spending \/ intent.covenant \in Spendable
        /\ \/ job'[Observer] = job[Observer]
           \/ /\ job'[Observer].pc = "idle"
              /\ job[Observer].pc = "observe_anomaly" => "report" \in cut'
    BY <1>1
  <2>3. QED
    BY <2>1, <2>2, BooksKept
<1>5. QED
  BY <1>2, <1>3, <1>4 DEF IInv

LEMMA EnvironmentInductive ==
  ASSUME IInv, Environment PROVE IInv'
<1>1. TypeOK /\ AddressesGiven
  BY DEF IInv
<1>2. CASE ClockTick
  <2>1. UNCHANGED <<invoice, books, intent, chain, receipts, job, outside>>
        /\ clock' \in {"window", "late", "capture"}
    BY <1>2 DEF ClockTick
  <2>2. TypeOK'
    BY <1>1, <2>1 DEF TypeOK, books
  <2>3. /\ \A t \in TxIds : chain[t].address # None =>
             /\ chain'[t].address = chain[t].address /\ chain'[t].exact = chain[t].exact
             /\ chain[t].deep => chain'[t].deep
        /\ \A t \in TxIds :
             chain'[t].address # None \/ chain'[t].deep \/ chain'[t].whole =>
               chain'[t].address \in receipts
    BY <1>1, <2>1 DEF AddressesGiven
  <2>4. QED
    BY <2>1, <2>2, <2>3, EnvironmentStep
<1>3. ASSUME NEW t \in TxIds, Pay(t) PROVE IInv'
  <2>1. PICK a \in receipts, f \in Fundings :
          chain' = [chain EXCEPT ![t] = [address |-> a, exact |-> f.exact,
                                         whole |-> f.whole, deep |-> FALSE]]
    BY <1>3 DEF Pay
  <2> DEFINE row == [address |-> a, exact |-> f.exact, whole |-> f.whole, deep |-> FALSE]
  <2>0. f.exact \in BOOLEAN /\ f.whole \in BOOLEAN
    BY FundingsAssumption DEF Funding
  <2>2. row \in Payment /\ row.address = a /\ row.deep = FALSE
    BY <1>1, <2>0 DEF TypeOK, Payment
  <2>3. /\ chain[t].address = None
        /\ UNCHANGED <<clock, invoice, books, intent, receipts, job, outside>>
    BY <1>3 DEF Pay
  <2>4. chain' = [chain EXCEPT ![t] = row]
    BY <2>1
  <2> HIDE DEF row
  <2>5. /\ chain' \in [TxIds -> Payment]
        /\ \A u \in TxIds : chain'[u] = IF u = t THEN row ELSE chain[u]
    BY <1>1, <2>2, <2>4 DEF TypeOK
  <2>6. TypeOK'
    BY <1>1, <2>3, <2>5 DEF TypeOK, books
  <2>7. /\ \A u \in TxIds : chain[u].address # None =>
             /\ chain'[u].address = chain[u].address /\ chain'[u].exact = chain[u].exact
             /\ chain[u].deep => chain'[u].deep
        /\ \A u \in TxIds :
             chain'[u].address # None \/ chain'[u].deep \/ chain'[u].whole =>
               chain'[u].address \in receipts
    BY <1>1, <2>2, <2>3, <2>5 DEF AddressesGiven
  <2>8. QED
    BY <2>3, <2>6, <2>7, EnvironmentStep
<1>4. ASSUME NEW t \in TxIds, Confirm(t) PROVE IInv'
  <2> DEFINE row == [chain[t] EXCEPT !.deep = TRUE]
  <2>1. /\ row \in Payment /\ row.address = chain[t].address /\ row.exact = chain[t].exact
        /\ row.whole = chain[t].whole /\ row.deep = TRUE /\ chain' = [chain EXCEPT ![t] = row]
    BY <1>1, <1>4 DEF Confirm, TypeOK, Payment
  <2>2. /\ chain[t].address # None
        /\ UNCHANGED <<clock, invoice, books, intent, receipts, job, outside>>
    BY <1>4 DEF Confirm
  <2> HIDE DEF row
  <2>3. /\ chain' \in [TxIds -> Payment]
        /\ \A u \in TxIds : chain'[u] = IF u = t THEN row ELSE chain[u]
    BY <1>1, <2>1 DEF TypeOK
  <2>4. TypeOK'
    BY <1>1, <2>2, <2>3 DEF TypeOK, books
  <2>5. /\ \A u \in TxIds : chain[u].address # None =>
             /\ chain'[u].address = chain[u].address /\ chain'[u].exact = chain[u].exact
             /\ chain[u].deep => chain'[u].deep
        /\ \A u \in TxIds :
             chain'[u].address # None \/ chain'[u].deep \/ chain'[u].whole =>
               chain'[u].address \in receipts
    BY <1>1, <2>1, <2>2, <2>3 DEF AddressesGiven
  <2>6. QED
    BY <2>2, <2>4, <2>5, EnvironmentStep
<1>5. CASE OthersMove
  <2>1. /\ UNCHANGED <<clock, invoice, books, intent, chain, receipts, job, failures, cut>>
        /\ ahead' \in 0..MaxAhead
    BY <1>5 DEF OthersMove
  <2>2. TypeOK'
    BY <1>1, <2>1 DEF TypeOK, books
  <2>3. /\ \A t \in TxIds : chain[t].address # None =>
             /\ chain'[t].address = chain[t].address /\ chain'[t].exact = chain[t].exact
             /\ chain[t].deep => chain'[t].deep
        /\ \A t \in TxIds :
             chain'[t].address # None \/ chain'[t].deep \/ chain'[t].whole =>
               chain'[t].address \in receipts
    BY <1>1, <2>1 DEF AddressesGiven
  <2>4. QED
    BY <2>1, <2>2, <2>3, EnvironmentStep
<1>6. QED
  BY <1>2, <1>3, <1>4, <1>5 DEF Environment

LEMMA StutterInductive ==
  ASSUME IInv, UNCHANGED vars PROVE IInv'
<1>1. TypeOK /\ AddressesGiven
  BY DEF IInv
<1>2. UNCHANGED <<clock, invoice, books, intent, chain, receipts, job, outside>>
  BY DEF vars, books
<1>3. TypeOK'
  BY <1>1, <1>2 DEF TypeOK, books
<1>4. /\ \A t \in TxIds : chain[t].address # None =>
           /\ chain'[t].address = chain[t].address /\ chain'[t].exact = chain[t].exact
           /\ chain[t].deep => chain'[t].deep
      /\ \A t \in TxIds :
           chain'[t].address # None \/ chain'[t].deep \/ chain'[t].whole =>
               chain'[t].address \in receipts
  BY <1>1, <1>2 DEF AddressesGiven
<1>5. QED
  BY <1>2, <1>3, <1>4, EnvironmentStep

\* Handlers are cut short, one by a failing statement or all by a restart: what
\* they had still to put right is on record.
LEMMA CutShort ==
  ASSUME IInv, TypeOK',
         UNCHANGED <<clock, invoice, books, intent, chain, receipts>>,
         cut \subseteq cut',
         \A q \in Procs :
           \/ job'[q] = job[q]
           \/ /\ Placed(q, job'[q]) /\ job'[q].pc \in {"idle", "done"}
              /\ q \in Requests /\ job[q].pc # "idle" => job'[q].pc = "done"
              /\ q \notin Requests => job'[q].pc = "idle"
              /\ Dropped(q) \subseteq cut'
           \/ /\ q = Keeper /\ job[q].pc \in KeeperLabels
              /\ Placed(q, job'[q]) /\ job'[q].pc = "keeper_restore"
  PROVE  IInv'
<1>1. /\ TypeOK /\ AddressesGiven /\ Books
      /\ UNCHANGED <<payAddress, cycle, observation, anomalies>>
  BY DEF IInv, books
<1>2. \A q \in Procs : Placed(q, job[q])'
  <2> SUFFICES ASSUME NEW q \in Procs PROVE Placed(q, job'[q])
    BY DEF Placed
  <2>1. QED
    BY DEF IInv
<1>3. \A q \in Procs : job'[q] # job[q] =>
        /\ job[q].pc \in Reopens => "invoice" \in cut'
        /\ job[q].pc \in Mends => "cycle" \in cut'
        /\ job[q].pc = "observe_anomaly" => "report" \in cut'
  BY DEF Dropped, Duties, Owing, Reports, Reopens, Mends, KeeperLabels
<1>4. InvoiceMended' /\ CycleMended'
  <2>1. TimelySubmission' <=> TimelySubmission
    BY DEF TimelySubmission
  <2>2. ASSUME "invoice" \notin cut', TimelySubmission, invoice = "expired"
        PROVE  \E q \in Procs : job'[q].pc \in Reopens
    <3>1. PICK q \in Procs : job[q].pc \in Reopens
      BY <2>2 DEF IInv, InvoiceMended
    <3>2. QED
      BY <1>3, <2>2, <3>1
  <2>3. ASSUME "cycle" \notin cut', TimelySubmission, cycle = "past_due"
        PROVE  \E q \in Procs : job'[q].pc \in Mends
    <3>1. PICK q \in Procs : job[q].pc \in Mends
      BY <2>3 DEF IInv, CycleMended
    <3>2. QED
      BY <1>3, <2>3, <3>1
  <2>4. QED
    BY <1>1, <2>1, <2>2, <2>3 DEF InvoiceMended, CycleMended
<1>5. AcceptedInTime'
  BY DEF IInv, AcceptedInTime
<1>6. AddressesGiven'
  <2>1. \A a \in Addresses : a \in Procs /\ a \in Requests
    BY Constants
  <2>2. \A a \in Addresses :
          job[a].pc \in {"finalize_invoice", "done"} =>
            job'[a].pc \in {"finalize_invoice", "done"}
    BY <2>1 DEF KeeperLabels
  <2>3. QED
    BY <1>1, <2>2 DEF AddressesGiven
<1>7. Books'
  <2>1. /\ \/ job'[Observer] = job[Observer]
           \/ /\ job'[Observer].pc = "idle"
              /\ job[Observer].pc = "observe_anomaly" => "report" \in cut'
        /\ job'[Keeper].pc \in Spending => job[Keeper].pc \in Spending
    BY <1>3, Constants DEF Spending, KeeperLabels
  <2>2. /\ intent.tx # None => intent'.tx = intent.tx
        /\ \/ intent'.address = intent.address
           \/ intent'.address # None /\ intent'.address \notin receipts
        /\ \A t \in TxIds : chain[t].address # None =>
             /\ chain'[t].address = chain[t].address /\ chain'[t].exact = chain[t].exact
             /\ chain[t].deep => chain'[t].deep
        /\ anomalies' = anomalies
        /\ "report" \notin cut' => "report" \notin cut
        /\ intent'.covenant \in Spendable =>
             intent.covenant \in Spendable \/ job[Keeper].pc \in Spending
        /\ intent'.covenant = "failed" => intent.covenant = "failed"
        /\ intent.covenant = "failed" /\ intent'.covenant # "failed" =>
             Funded \/ (intent'.address # None /\ intent'.address \notin receipts)
        /\ job'[Keeper].pc \in Spending =>
             job[Keeper].pc \in Spending \/ intent.covenant \in Spendable
    BY <1>1, <2>1
  <2>3. QED
    BY <1>1, <2>1, <2>2, BooksKept
<1>8. QED
  BY <1>2, <1>4, <1>5, <1>6, <1>7 DEF IInv

LEMMA StatementFailsInductive ==
  ASSUME IInv, NEW p \in Procs, StatementFails(p) PROVE IInv'
<1>1. /\ TypeOK /\ failures' \in 0..MaxFailures /\ cut' = cut \cup Dropped(p)
      /\ job' = [job EXCEPT ![p] = Finished(p)]
      /\ UNCHANGED <<clock, invoice, books, intent, chain, receipts, ahead>>
      /\ job[p].pc # "idle"
  BY Constants DEF IInv, StatementFails, TypeOK, Finish
<1>2. /\ Finished(p) \in Job /\ Finished(p).pc \in {"idle", "done"}
      /\ p \in Requests => Finished(p).pc = "done"
      /\ p \notin Requests => Finished(p).pc = "idle"
      /\ Placed(p, Finished(p))
  BY FinishedTyped, IdleTyped
<1>3. \A q \in Procs : job'[q] = IF q = p THEN Finished(p) ELSE job[q]
  BY <1>1 DEF TypeOK
<1>4. TypeOK'
  <2>1. job' \in [Procs -> Job]
    BY <1>1, <1>2 DEF TypeOK
  <2>2. cut' \subseteq Duties
    BY <1>1 DEF TypeOK, Dropped
  <2>3. QED
    BY <1>1, <2>1, <2>2 DEF TypeOK, books
<1>5. QED
  BY <1>1, <1>2, <1>3, <1>4, CutShort

LEMMA KeeperRecordFailsInductive ==
  ASSUME IInv, KeeperRecordFails PROVE IInv'
<1> DEFINE j == [job[Keeper] EXCEPT !.pc = "keeper_restore"]
<1>1. /\ TypeOK /\ failures' \in 0..MaxFailures /\ cut' = cut /\ cut \subseteq Duties
      /\ UNCHANGED <<clock, invoice, books, intent, chain, receipts, ahead>>
      /\ job[Keeper].pc \in KeeperLabels /\ Keeper \in Procs
  BY Constants DEF IInv, KeeperRecordFails, Records, KeeperLabels, TypeOK
<1>2. j \in Job /\ j.pc = "keeper_restore" /\ job' = [job EXCEPT ![Keeper] = j]
  BY <1>1 DEF KeeperRecordFails, Goto, Job, Labels, TypeOK
<1> HIDE DEF j
<1>3. Placed(Keeper, j)
  BY <1>2 DEF Placed, SubmitLabels, FinalizeLabels, ObserveLabels, KeeperLabels, ExpireLabels
<1>4. \A q \in Procs : job'[q] = IF q = Keeper THEN j ELSE job[q]
  BY <1>1, <1>2 DEF TypeOK
<1>5. TypeOK'
  <2>1. job' \in [Procs -> Job]
    BY <1>1, <1>2 DEF TypeOK
  <2>2. QED
    BY <1>1, <2>1 DEF TypeOK, books
<1>6. QED
  BY <1>1, <1>2, <1>3, <1>4, <1>5, CutShort

LEMMA CrashInductive ==
  ASSUME IInv, Crash PROVE IInv'
<1>1. /\ TypeOK /\ failures' \in 0..MaxFailures
      /\ cut' = cut \cup UNION {Dropped(p) : p \in Procs}
      /\ UNCHANGED <<clock, invoice, books, intent, chain, receipts, ahead>>
  BY Constants DEF IInv, Crash, TypeOK
<1>2. \A q \in Procs :
        /\ job'[q] \in Job /\ Placed(q, job'[q]) /\ job'[q].pc \in {"idle", "done"}
        /\ q \in Requests /\ job[q].pc # "idle" => job'[q].pc = "done"
        /\ q \notin Requests => job'[q].pc = "idle"
  <2> SUFFICES ASSUME NEW q \in Procs
      PROVE  /\ job'[q] \in Job /\ Placed(q, job'[q]) /\ job'[q].pc \in {"idle", "done"}
             /\ q \in Requests /\ job[q].pc # "idle" => job'[q].pc = "done"
             /\ q \notin Requests => job'[q].pc = "idle"
    OBVIOUS
  <2>1. job'[q] = IF job[q].pc = "idle" THEN Idle ELSE Finished(q)
    BY DEF Crash, At
  <2>2. Idle \in Job /\ Idle.pc = "idle" /\ Placed(q, Idle)
    BY IdleTyped, PlacedElsewhere
  <2>3. QED
    BY <2>1, <2>2, FinishedTyped
<1>3. TypeOK'
  <2>1. job' \in [Procs -> Job]
    BY <1>2 DEF Crash
  <2>2. cut' \subseteq Duties
    BY <1>1 DEF TypeOK, Dropped
  <2>3. QED
    BY <1>1, <2>1, <2>2 DEF TypeOK, books
<1>4. \A q \in Procs : Dropped(q) \subseteq cut'
  BY <1>1
<1>5. QED
  BY <1>1, <1>2, <1>3, <1>4, CutShort

-----------------------------------------------------------------------------
(* The observer's way from a candidate to its verdict.                      *)

\* The observer writes neither the transaction nor the address: the books
\* decide the rest.
LEMMA ObserverMoves ==
  ASSUME IInv, NEW j \in Job, job' = [job EXCEPT ![Observer] = j],
         j.pc \in {"idle"} \cup ObserveLabels,
         j.pc \in {"observe_depth", "observe_outputs"} => j.tx \in TxIds,
         job[Observer].pc \in {"idle"} \cup ObserveLabels,
         UNCHANGED <<clock, invoice, payAddress, cycle, chain, receipts, outside>>,
         intent' \in Intent,
         intent'.tx = intent.tx, intent'.timely = intent.timely,
         intent'.address = intent.address,
         observation' \in {"none", "matched", "mismatched", "settled"},
         anomalies' \in Nat,
         FundsKnown', ObserverKnows(j)', Reported'
  PROVE  IInv'
<1>1. Observer \in Procs /\ TypeOK
  BY Constants DEF IInv
<1>2. \A q \in Procs : job'[q] = IF q = Observer THEN j ELSE job[q]
  BY <1>1 DEF TypeOK
<1>3. TypeOK'
  <2>1. job' \in [Procs -> Job]
    BY <1>1 DEF TypeOK
  <2>2. QED
    BY <1>1, <2>1 DEF TypeOK
<1>4. Placed(Observer, j)
  BY DEF Placed, SubmitLabels, FinalizeLabels, ObserveLabels, KeeperLabels, ExpireLabels
<1>5. AcceptedInTime'
  BY DEF IInv, AcceptedInTime
<1>6. InvoiceMended' /\ CycleMended'
  <2>1. TimelySubmission' <=> TimelySubmission
    BY DEF TimelySubmission
  <2>2. job[Observer].pc \notin Reopens \cup Mends
    BY DEF Reopens, Mends, ObserveLabels
  <2>3. /\ invoice' = "expired" /\ TimelySubmission' =>
             \/ j.pc \in Reopens
             \/ invoice = "expired" /\ TimelySubmission /\ job[Observer].pc \notin Reopens
        /\ cycle' = "past_due" /\ TimelySubmission' =>
             \/ j.pc \in Mends
             \/ cycle = "past_due" /\ TimelySubmission /\ job[Observer].pc \notin Mends
        /\ cut' = cut
    BY <2>1, <2>2
  <2>4. InvoiceMended /\ CycleMended
    BY DEF IInv
  <2>5. QED
    BY <1>1, <2>3, <2>4, MendsKept
<1>7. AddressesGiven'
  <2>1. \A a \in Addresses : a \in Procs /\ a # Observer
    BY Constants
  <2>2. QED
    BY <1>2, <2>1 DEF IInv, AddressesGiven
<1>8. Books'
  <2>1. job'[Observer] = j
    BY <1>1, <1>2
  <2>2. ObserverKnows(job[Observer])'
    BY <2>1 DEF ObserverKnows
  <2>3. QED
    BY <2>2 DEF Books
<1>9. QED
  BY <1>1, <1>3, <1>4, <1>5, <1>6, <1>7, <1>8, ProcessStep

\* What the observer's reading steps leave alone.
LEMMA ObserverReads ==
  ASSUME IInv, NEW j \in Job, job' = [job EXCEPT ![Observer] = j],
         j.pc \in ObserveLabels \ {"observe_anomaly"},
         j.pc \in {"observe_depth", "observe_outputs"} => j.tx \in TxIds,
         job[Observer].pc \in {"idle"} \cup (ObserveLabels \ {"observe_anomaly"}),
         UNCHANGED <<clock, invoice, payAddress, cycle, anomalies, intent, chain, receipts,
                     outside>>,
         observation' \in {"none", "matched", "mismatched", "settled"},
         ObserverKnows(j)
  PROVE  IInv'
<1>1. TypeOK /\ Books
  BY DEF IInv
<1>2. job'[Observer] = j /\ job'[Keeper] = job[Keeper]
  BY <1>1, Constants DEF TypeOK
<1>3. FundsKnown'
  BY <1>1, <1>2 DEF Books, FundsKnown, Funded, PaymentSeen
<1>4. ObserverKnows(j)'
  BY DEF ObserverKnows, PaymentSeen
<1>5. Reported'
  BY <1>1, <1>2 DEF Books, Reported, Reporting, PaymentSeen
<1>6. intent' \in Intent /\ anomalies' \in Nat
  BY <1>1 DEF TypeOK
<1>7. /\ intent'.tx = intent.tx /\ intent'.timely = intent.timely
      /\ intent'.address = intent.address
      /\ UNCHANGED <<clock, invoice, payAddress, cycle, chain, receipts, outside>>
      /\ j.pc \in {"idle"} \cup ObserveLabels
      /\ job[Observer].pc \in {"idle"} \cup ObserveLabels
  OBVIOUS
<1>8. QED
  BY <1>3, <1>4, <1>5, <1>6, <1>7, ObserverMoves

LEMMA ObserverSelectInductive ==
  ASSUME IInv, ObserverSelect PROVE IInv'
<1> DEFINE one == [job[Observer] EXCEPT !.pc = "observe_depth"]
           two == [one EXCEPT !.tx = intent.tx]
           j   == [two EXCEPT !.address = intent.address]
<1>1. /\ job[Observer].pc = "idle" /\ Observer \in Procs /\ job[Observer] \in Job
      /\ TypeOK /\ Books
      /\ intent.tx \in TxIds /\ intent.tx # None
      /\ intent.address \in Addresses /\ intent.address # None
      /\ intent.covenant = "awaiting_funding"
      /\ UNCHANGED <<clock, invoice, payAddress, cycle, observation, anomalies, intent, chain,
                     receipts, outside>>
  BY Constants DEF ObserverSelect, At, IInv, TypeOK, Intent, books
<1>2. one \in Job /\ one.pc = "observe_depth"
  BY <1>1 DEF Job, Labels
<1>3. job' = [job EXCEPT ![Observer] = j]
  BY <1>1 DEF ObserverSelect, TypeOK, Job
<1> HIDE DEF one
<1>4. two \in Job /\ two.pc = "observe_depth" /\ two.tx = intent.tx
  BY <1>1, <1>2 DEF Job
<1> HIDE DEF two
<1>5. /\ j \in Job /\ j.pc = "observe_depth" /\ j.tx = intent.tx
      /\ j.address = intent.address
  BY <1>1, <1>4 DEF Job
<1> HIDE DEF j
<1>6. anomalies = 1 => chain[intent.tx].address # intent.address
  BY <1>1 DEF Books, Reported
<1>7. ObserverKnows(j)
  BY <1>1, <1>5, <1>6 DEF ObserverKnows
<1>8. observation' \in {"none", "matched", "mismatched", "settled"}
  BY <1>1 DEF TypeOK
<1>9. /\ j.pc \in ObserveLabels \ {"observe_anomaly"}
      /\ job[Observer].pc \in {"idle"} \cup (ObserveLabels \ {"observe_anomaly"})
      /\ j.tx \in TxIds
  BY <1>1, <1>5 DEF ObserveLabels
<1>10. QED
  BY <1>1, <1>3, <1>5, <1>7, <1>8, <1>9, ObserverReads

LEMMA ObserverDepthInductive ==
  ASSUME IInv, ObserverDepth PROVE IInv'
<1> DEFINE one == [job[Observer] EXCEPT !.pc = "observe_outputs"]
           deep == chain[job[Observer].tx].deep
           j   == [one EXCEPT !.deep = deep]
<1>1. /\ job[Observer].pc = "observe_depth" /\ Observer \in Procs /\ job[Observer] \in Job
      /\ TypeOK /\ Books /\ Placed(Observer, job[Observer])
      /\ UNCHANGED <<clock, invoice, payAddress, cycle, observation, anomalies, intent, chain,
                     receipts, outside>>
  BY Constants DEF ObserverDepth, At, IInv, TypeOK, books
<1>2. job[Observer].tx \in TxIds /\ ObserverKnows(job[Observer])
  BY <1>1 DEF Placed, Books
<1>3. deep \in BOOLEAN
  BY <1>1, <1>2 DEF TypeOK, Payment
<1>4. /\ one \in Job /\ one.pc = "observe_outputs" /\ one.tx = job[Observer].tx
      /\ one.address = job[Observer].address
  BY <1>1 DEF Job, Labels
<1>5. job' = [job EXCEPT ![Observer] = j]
  BY <1>1 DEF ObserverDepth, TypeOK, Job
<1>6. deep = chain[job[Observer].tx].deep
  OBVIOUS
<1> HIDE DEF one, deep
<1>7. /\ j \in Job /\ j.pc = "observe_outputs" /\ j.tx = job[Observer].tx
      /\ j.address = job[Observer].address /\ j.deep = deep
  BY <1>3, <1>4 DEF Job
<1> HIDE DEF j
<1>8. ObserverKnows(j)
  BY <1>1, <1>2, <1>6, <1>7 DEF ObserverKnows
<1>9. observation' \in {"none", "matched", "mismatched", "settled"}
  BY <1>1 DEF TypeOK
<1>10. /\ j.pc \in ObserveLabels \ {"observe_anomaly"}
       /\ job[Observer].pc \in {"idle"} \cup (ObserveLabels \ {"observe_anomaly"})
       /\ j.tx \in TxIds
  BY <1>1, <1>2, <1>7 DEF ObserveLabels
<1>11. QED
  BY <1>1, <1>5, <1>7, <1>8, <1>9, <1>10, ObserverReads

LEMMA ObserverOutputsInductive ==
  ASSUME IInv, ObserverOutputs PROVE IInv'
<1>1. /\ job[Observer].pc = "observe_outputs" /\ Observer \in Procs /\ job[Observer] \in Job
      /\ TypeOK /\ Books /\ Placed(Observer, job[Observer])
      /\ UNCHANGED <<clock, invoice, books, intent, chain, receipts, outside>>
      /\ UNCHANGED <<payAddress, cycle, observation, anomalies>>
  BY Constants DEF ObserverOutputs, At, IInv, TypeOK, books
<1>2. job[Observer].tx \in TxIds /\ ObserverKnows(job[Observer])
  BY <1>1 DEF Placed, Books
<1>3. CASE chain[job[Observer].tx].address # job[Observer].address
  <2>1. Finish(Observer)
    BY <1>3 DEF ObserverOutputs
  <2>2. QED
    BY <1>1, <2>1, ObserverGivesUp
<1>4. CASE chain[job[Observer].tx].address = job[Observer].address
  <2> DEFINE seen == IF chain[job[Observer].tx].exact THEN "exact" ELSE "wrong"
             one  == [Idle EXCEPT !.pc = "observe_record"]
             two  == [one EXCEPT !.deep = job[Observer].deep]
             j    == [two EXCEPT !.seen = seen]
  <2>1. one \in Job /\ one.pc = "observe_record"
    BY IdleTyped DEF Job, Labels
  <2>2. job' = [job EXCEPT ![Observer] = j]
    BY <1>4, IdleTyped DEF ObserverOutputs, Job
  <2>3. /\ seen \in {"exact", "wrong"}
        /\ seen = "exact" <=> chain[job[Observer].tx].exact
    BY <1>1, <1>2 DEF TypeOK, Payment
  <2> HIDE DEF one, seen
  <2>4. two \in Job /\ two.pc = "observe_record" /\ two.deep = job[Observer].deep
    BY <1>1, <2>1 DEF Job
  <2> HIDE DEF two
  <2>5. /\ j \in Job /\ j.pc = "observe_record" /\ j.deep = job[Observer].deep
        /\ j.seen = seen
    BY <2>3, <2>4 DEF Job, Seen
  <2> HIDE DEF j
  <2>6. /\ intent.tx # None /\ intent.address # None /\ job[Observer].tx = intent.tx
        /\ chain[intent.tx].address # None /\ anomalies # 1
        /\ job[Observer].deep => chain[intent.tx].deep
    BY <1>1, <1>2, <1>4 DEF ObserverKnows
  <2>7. anomalies = 0
    BY <1>1, <2>6 DEF Books, Reported
  <2>8. ObserverKnows(j)
    BY <2>3, <2>5, <2>6, <2>7 DEF ObserverKnows, PaymentSeen
  <2>9. observation' \in {"none", "matched", "mismatched", "settled"}
    BY <1>1 DEF TypeOK
  <2>10. /\ j.pc \in ObserveLabels \ {"observe_anomaly"}
         /\ job[Observer].pc \in {"idle"} \cup (ObserveLabels \ {"observe_anomaly"})
         /\ j.pc \notin {"observe_depth", "observe_outputs"}
    BY <1>1, <2>5 DEF ObserveLabels
  <2>11. QED
    BY <1>1, <2>2, <2>5, <2>8, <2>9, <2>10, ObserverReads
<1>5. QED
  BY <1>3, <1>4

LEMMA ObserverRecordInductive ==
  ASSUME IInv, ObserverRecord PROVE IInv'
<1> DEFINE j == [job[Observer] EXCEPT !.pc = "observe_intent"]
<1>1. /\ job[Observer].pc = "observe_record" /\ Observer \in Procs
      /\ TypeOK /\ ObserverKnows(job[Observer])
      /\ UNCHANGED <<clock, invoice, payAddress, cycle, anomalies, intent, chain, receipts,
                     outside>>
      /\ observation' \in {"none", "matched", "mismatched", "settled"}
  BY Constants DEF ObserverRecord, At, IInv, Books
<1>2. /\ j \in Job /\ j.pc = "observe_intent" /\ j.deep = job[Observer].deep
      /\ j.seen = job[Observer].seen /\ job' = [job EXCEPT ![Observer] = j]
  <2>1. "observe_intent" \in Labels
    BY DEF Labels
  <2>2. QED
    BY <1>1, <2>1, Goes DEF ObserverRecord, Goto
<1> HIDE DEF j
<1>3. ObserverKnows(j)
  BY <1>1, <1>2 DEF ObserverKnows
<1>4. /\ j.pc \in ObserveLabels \ {"observe_anomaly"}
      /\ job[Observer].pc \in {"idle"} \cup (ObserveLabels \ {"observe_anomaly"})
      /\ j.pc \notin {"observe_depth", "observe_outputs"}
  BY <1>1, <1>2 DEF ObserveLabels
<1>5. QED
  BY <1>1, <1>2, <1>3, <1>4, ObserverReads

\* The verdict: what was seen is still so, for payments are not taken back.
LEMMA ObserverIntentInductive ==
  ASSUME IInv, ObserverIntent PROVE IInv'
<1>1. /\ job[Observer].pc = "observe_intent" /\ Observer \in Procs
      /\ TypeOK /\ FundsKnown /\ ObserverKnows(job[Observer]) /\ Reported
      /\ UNCHANGED <<clock, invoice, payAddress, cycle, observation, anomalies, chain,
                     receipts, outside>>
  BY Constants DEF ObserverIntent, At, IInv, Books, books
<1>2. /\ PaymentSeen /\ anomalies = 0 /\ job[Observer].seen \in {"exact", "wrong"}
      /\ job[Observer].deep => chain[intent.tx].deep
  BY <1>1 DEF ObserverKnows, TypeOK, Job, Seen
<1>3. job[Observer].seen = "exact" <=> chain[intent.tx].exact
  BY <1>1 DEF ObserverKnows
<1>4. /\ observation' \in {"none", "matched", "mismatched", "settled"} /\ anomalies' \in Nat
      /\ job[Observer].pc \in {"idle"} \cup ObserveLabels
  BY <1>1 DEF TypeOK, ObserveLabels
<1>5. CASE job[Observer].seen = "wrong"
  <2> DEFINE row == [intent EXCEPT !.status = "failed", !.covenant = "failed"]
  <2>1. /\ row \in Intent /\ row.covenant = "failed"
        /\ row.tx = intent.tx /\ row.timely = intent.timely /\ row.address = intent.address
    BY <1>1, IntentWritten DEF IntentStatus, CovenantState
  <2>2. intent' = row
    BY <1>5 DEF ObserverIntent
  <2> HIDE DEF row
  <2>3. PICK j \in Job : j.pc = "observe_anomaly" /\ job' = [job EXCEPT ![Observer] = j]
    <3>1. "observe_anomaly" \in Labels /\ Goto(Observer, "observe_anomaly")
      BY <1>5 DEF Labels, ObserverIntent
    <3>2. QED
      BY <1>1, <3>1, Goes DEF Goto
  <2>4. job'[Observer] = j /\ job'[Keeper] = job[Keeper]
    BY <1>1, <2>3, Constants DEF TypeOK
  <2>5. FundsKnown'
    BY <1>1, <2>1, <2>2, <2>4 DEF FundsKnown, Funded, PaymentSeen, Spendable
  <2>6. ObserverKnows(j)'
    BY <2>3 DEF ObserverKnows
  <2>7. Reported'
    <3>1. Reporting' /\ anomalies' = 0
      BY <1>1, <1>2, <2>3, <2>4 DEF Reporting
    <3>2. PaymentSeen' /\ ~chain'[intent'.tx].exact /\ intent'.covenant = "failed"
      BY <1>1, <1>2, <1>3, <1>5, <2>1, <2>2 DEF PaymentSeen
    <3>3. QED
      BY <3>1, <3>2 DEF Reported
  <2>8. j.pc \in {"idle"} \cup ObserveLabels /\ j.pc \notin {"observe_depth", "observe_outputs"}
    BY <2>3 DEF ObserveLabels
  <2>9. QED
    BY <1>1, <1>4, <2>1, <2>2, <2>3, <2>5, <2>6, <2>7, <2>8, ObserverMoves
<1>6. CASE job[Observer].seen = "exact"
  <2> DEFINE covenant == IF job[Observer].deep THEN "funded" ELSE intent.covenant
             row == [intent EXCEPT !.status = "verified", !.covenant = covenant]
  <2>1. covenant \in CovenantState /\ intent' = row
    BY <1>1, <1>6 DEF ObserverIntent, TypeOK, Intent, CovenantState
  <2>2. /\ covenant \in Spendable => intent.covenant \in Spendable \/ job[Observer].deep
        /\ covenant = "failed" => intent.covenant = "failed"
    OBVIOUS
  <2> HIDE DEF covenant
  <2>3. /\ row \in Intent /\ row.covenant = covenant
        /\ row.tx = intent.tx /\ row.timely = intent.timely /\ row.address = intent.address
    BY <1>1, <2>1, IntentWritten DEF IntentStatus
  <2> HIDE DEF row
  <2>4. /\ Idle \in Job /\ Idle.pc = "idle" /\ job' = [job EXCEPT ![Observer] = Idle]
    <3>1. Finish(Observer)
      BY <1>6 DEF ObserverIntent
    <3>2. Finished(Observer) = Idle
      BY <1>1, Constants, FinishedTyped
    <3>3. QED
      BY <3>1, <3>2, IdleTyped DEF Finish
  <2>5. job'[Observer] = Idle /\ job'[Keeper] = job[Keeper]
    BY <1>1, <2>4, Constants DEF TypeOK
  <2>6. job[Observer].deep => Funded
    BY <1>2, <1>3, <1>6 DEF Funded
  <2>7. Funded => Funded'
    BY <1>1, <2>1, <2>3 DEF Funded, PaymentSeen
  <2>8. FundsKnown'
    BY <1>1, <2>1, <2>2, <2>3, <2>5, <2>6, <2>7 DEF FundsKnown
  <2>9. ObserverKnows(Idle)'
    BY <2>4 DEF ObserverKnows, Idle
  <2>10. Reported'
    <3>1. ~Reporting' /\ anomalies' = 0 /\ ~Reporting
      BY <1>1, <1>2, <2>4, <2>5 DEF Reporting
    <3>2. "report" \notin cut' => intent'.covenant # "failed"
      BY <1>1, <1>2, <2>1, <2>2, <2>3, <3>1 DEF Reported
    <3>3. QED
      BY <3>1, <3>2 DEF Reported
  <2>11. /\ Idle.pc \in {"idle"} \cup ObserveLabels
         /\ Idle.pc \notin {"observe_depth", "observe_outputs"}
    BY <2>4
  <2>12. QED
    BY <1>1, <1>4, <2>1, <2>3, <2>4, <2>8, <2>9, <2>10, <2>11, ObserverMoves
<1>7. QED
  BY <1>2, <1>5, <1>6

LEMMA ObserverAnomalyInductive ==
  ASSUME IInv, ObserverAnomaly PROVE IInv'
<1>1. /\ job[Observer].pc = "observe_anomaly" /\ Observer \in Procs /\ Reporting
      /\ TypeOK /\ FundsKnown /\ Reported
      /\ UNCHANGED <<clock, invoice, payAddress, cycle, observation, intent, chain,
                     receipts, outside>>
      /\ anomalies' = anomalies + 1
  BY Constants DEF ObserverAnomaly, At, IInv, Books, Reporting
<1>2. anomalies' = 1
  BY <1>1 DEF Reported
<1>3. Idle \in Job /\ Idle.pc = "idle" /\ job' = [job EXCEPT ![Observer] = Idle]
  <2>1. Finished(Observer) = Idle
    BY <1>1, Constants, FinishedTyped
  <2>2. QED
    BY <2>1, IdleTyped DEF Finish, ObserverAnomaly
<1>4. job'[Observer] = Idle /\ job'[Keeper] = job[Keeper]
  BY <1>1, <1>3, Constants DEF TypeOK
<1>5. FundsKnown'
  BY <1>1, <1>4 DEF FundsKnown, Funded, PaymentSeen
<1>6. ObserverKnows(Idle)'
  BY <1>3 DEF ObserverKnows, Idle
<1>7. Reported'
  <2>1. ~Reporting'
    BY <1>3, <1>4 DEF Reporting
  <2>2. QED
    BY <1>1, <1>2, <2>1 DEF Reported, PaymentSeen
<1>8. /\ observation' \in {"none", "matched", "mismatched", "settled"} /\ anomalies' \in Nat
      /\ job[Observer].pc \in {"idle"} \cup ObserveLabels
      /\ intent' \in Intent
      /\ Idle.pc \in {"idle"} \cup ObserveLabels
      /\ Idle.pc \notin {"observe_depth", "observe_outputs"}
  BY <1>1, <1>2, <1>3 DEF TypeOK, ObserveLabels
<1>9. QED
  BY <1>1, <1>3, <1>5, <1>6, <1>7, <1>8, ObserverMoves

-----------------------------------------------------------------------------
(* The theorems.                                                            *)

LEMMA NextInductive == IInv /\ [Next]_vars => IInv'
<1> SUFFICES ASSUME IInv, [Next]_vars PROVE IInv'
  OBVIOUS
<1>1. CASE UNCHANGED vars
  BY <1>1, StutterInductive
<1>2. CASE Environment
  BY <1>2, EnvironmentInductive
<1>3. ASSUME NEW p \in Procs, ExpireStep(p) PROVE IInv'
  BY <1>3, ExpireInvoiceRowInductive, ExpireIntentRowInductive, ExpireCycleRowInductive,
     ExpireCheckInductive, RestoreInvoiceRowInductive, RestoreIntentRowInductive,
     RestoreCycleRowInductive DEF ExpireStep
<1>4. ASSUME NEW p \in Requests, RequestArrives(p) PROVE IInv'
  BY <1>4, SubmitArriveInductive, ShowReadInductive, CancelReadInductive, FetchReadsInductive,
     FinalizeReadInvoiceInductive DEF RequestArrives
<1>5. ASSUME NEW p \in Requests, RequestStep(p) PROVE IInv'
  <2>1. CASE SubmitStep(p)
    BY <2>1, SubmitReadInvoiceInductive, SubmitReadIntentInductive, SubmitClaimInductive,
       SubmitReopenInductive, SubmitCycleInductive DEF SubmitStep
  <2>2. CASE ViewCheck(p) \/ CancelWrite(p) \/ FetchClock(p) \/ FetchWrite(p)
    BY <2>2, ViewCheckInductive, CancelWriteInductive, FetchReadsInductive,
       FetchWriteInductive
  <2>3. CASE FinalizeReadIntent(p) \/ FinalizeWriteIntent(p) \/ FinalizeWriteInvoice(p)
    BY <2>3, FinalizeReadIntentInductive, FinalizeWriteIntentInductive,
       FinalizeWriteInvoiceInductive
  <2>4. QED
    BY <1>5, <2>1, <2>2, <2>3 DEF RequestStep
<1>6. CASE ExpirerScan
  BY <1>6, ExpirerScanInductive
<1>7. CASE ObserverStep
  BY <1>7, ObserverSelectInductive, ObserverDepthInductive, ObserverOutputsInductive,
     ObserverNodeDownInductive, ObserverRecordInductive, ObserverIntentInductive,
     ObserverAnomalyInductive DEF ObserverStep
<1>8. CASE KeeperStep
  BY <1>8, KeeperScanInductive, KeeperClaimInductive, KeeperBroadcastInductive,
     KeeperRestoreInductive, KeeperIntentInductive, KeeperInvoiceInductive,
     KeeperCycleInductive, KeeperRecordFailsInductive DEF KeeperStep
<1>9. ASSUME NEW p \in Procs, StatementFails(p) PROVE IInv'
  BY <1>9, StatementFailsInductive
<1>10. CASE Crash
  BY <1>10, CrashInductive
<1>11. QED
  BY <1>1, <1>2, <1>3, <1>4, <1>5, <1>6, <1>7, <1>8, <1>9, <1>10 DEF Next

\* The inductive invariant holds in every reachable state.
THEOREM Invariance == Spec => []IInv
<1>1. Init => IInv
  BY InitInductive
<1>2. IInv /\ [Next]_vars => IInv'
  BY NextInductive
<1>3. QED
  BY <1>1, <1>2, PTL DEF Spec

\* The rows keep to their columns' values, whatever was read before they were
\* written.
THEOREM TypeCorrect == Spec => []TypeOK
<1>1. IInv => TypeOK
  BY DEF IInv
<1>2. QED
  BY <1>1, Invariance, PTL

\* Only a request that arrived by the deadline gets its transaction recorded.
THEOREM OnlyInTime == Spec => []AcceptedInTime
<1>1. IInv => AcceptedInTime
  BY DEF IInv
<1>2. QED
  BY <1>1, Invariance, PTL

\* A submission in time wins over every expiry that crosses it.
THEOREM SubmissionWins == Spec => []TimelySubmissionNotExpired
<1>1. IInv => TimelySubmissionNotExpired
  BY DEF IInv, InvoiceMended, TimelySubmissionNotExpired, Quiet, Reopens
<1>2. QED
  BY <1>1, Invariance, PTL

\* ... and takes the billed cycle with it.
THEOREM CycleWins == Spec => []CycleFollowsSubmission
<1>1. IInv => CycleFollowsSubmission
  BY DEF IInv, CycleMended, CycleFollowsSubmission, Quiet, Mends
<1>2. QED
  BY <1>1, Invariance, PTL

\* What is captured, or about to be recorded so, was spent from an output of the
\* gross.
WholeSpent ==
  intent.covenant = "captured" \/ job[Keeper].pc = "keeper_intent" =>
    \E t \in TxIds : chain[t].whole

\* No payment loses its output of the gross, no row becomes captured but by the
\* keeper that broadcast, and it broadcasts only from such an output.
Honest ==
  /\ \A t \in TxIds : chain[t].whole => chain'[t].whole
  /\ intent'.covenant = "captured" =>
       intent.covenant = "captured" \/ job[Keeper].pc = "keeper_intent"
  /\ job'[Keeper].pc = "keeper_intent" =>
       job[Keeper].pc = "keeper_intent" \/ \E t \in TxIds : chain[t].whole

LEMMA EveryStepHonest ==
  ASSUME IInv, Next PROVE Honest
<1>1. /\ TypeOK /\ AddressesGiven /\ Keeper \in Procs /\ Observer # Keeper /\ Expirer # Keeper
      /\ job \in [Procs -> Job] /\ Finished(Keeper).pc # "keeper_intent"
      /\ Observer \in Procs /\ Expirer \in Procs
  BY Constants, FinishedTyped DEF IInv, TypeOK
<1>2. CASE Environment
  <2>1. UNCHANGED <<intent, job>>
    BY <1>2 DEF Environment, ClockTick, OthersMove, Pay, Confirm
  <2>2. \A t \in TxIds : chain[t].whole => chain'[t].whole
    <3>1. CASE ClockTick \/ OthersMove
      BY <3>1 DEF ClockTick, OthersMove
    <3>2. ASSUME NEW t \in TxIds, Pay(t) PROVE \A u \in TxIds : chain[u].whole => chain'[u].whole
      <4>1. chain[t].address = None /\ ~chain[t].whole
        BY <1>1, <3>2, Constants DEF Pay, AddressesGiven, TypeOK
      <4>2. QED
        BY <1>1, <3>2, <4>1 DEF Pay, TypeOK
    <3>3. ASSUME NEW t \in TxIds, Confirm(t)
          PROVE  \A u \in TxIds : chain[u].whole => chain'[u].whole
      BY <1>1, <3>3 DEF Confirm, TypeOK, Payment
    <3>4. QED
      BY <1>2, <3>1, <3>2, <3>3 DEF Environment
  <2>3. QED
    BY <2>1, <2>2 DEF Honest
<1>3. ASSUME NEW p \in Procs, ExpireStep(p) PROVE Honest
  <2>1. p # Keeper /\ chain' = chain
    <3>1. job[p].pc \in ExpireLabels /\ chain' = chain
      BY <1>3
      DEF ExpireStep, ExpireInvoiceRow, ExpireIntentRow, ExpireCycleRow, ExpireCheck,
          RestoreInvoiceRow, RestoreIntentRow, RestoreCycleRow, At, ExpireLabels
    <3>2. QED
      BY <3>1, Expiring
  <2>2. job'[Keeper] = job[Keeper]
    BY <1>1, <1>3, <2>1
    DEF ExpireStep, ExpireInvoiceRow, ExpireIntentRow, ExpireCycleRow, ExpireCheck,
        RestoreInvoiceRow, RestoreIntentRow, RestoreCycleRow, ExpireReturns, Goto, Finish
  <2>3. intent'.covenant = "captured" => intent.covenant = "captured"
    <3>1. CASE ExpireIntentRow(p)
      BY <1>1, <3>1 DEF ExpireIntentRow, TypeOK, Intent
    <3>2. CASE RestoreIntentRow(p)
      BY <1>1, <3>2 DEF RestoreIntentRow, TypeOK, Intent
    <3>3. CASE \/ ExpireInvoiceRow(p) \/ ExpireCycleRow(p) \/ ExpireCheck(p)
               \/ RestoreInvoiceRow(p) \/ RestoreCycleRow(p)
      BY <3>3
      DEF ExpireInvoiceRow, ExpireCycleRow, ExpireCheck, RestoreInvoiceRow, RestoreCycleRow
    <3>4. QED
      BY <1>3, <3>1, <3>2, <3>3 DEF ExpireStep
  <2>4. QED
    BY <2>1, <2>2, <2>3 DEF Honest
<1>4. ASSUME NEW p \in Requests, RequestArrives(p) \/ RequestStep(p) PROVE Honest
  <2>1. p \in Procs /\ p # Keeper
    BY Requesting
  <2>2. chain' = chain /\ job'[Keeper] = job[Keeper]
    BY <1>1, <1>4, <2>1
    DEF RequestArrives, RequestStep, SubmitArrive, ShowRead, CancelRead, FetchRead,
        FinalizeReadInvoice, SubmitStep, SubmitReadInvoice, SubmitReadIntent, SubmitRefused,
        SubmitClaim, SubmitReopen, SubmitCycle, ViewCheck, CancelWrite, FetchClock, FetchWrite,
        FinalizeReadIntent, FinalizeWriteIntent, FinalizeWriteInvoice, ExpireReturns, Goto,
        Finish, Decided
  <2>3. intent'.covenant = "captured" => intent.covenant = "captured"
    <3>1. CASE SubmitClaim(p)
      BY <1>1, <3>1 DEF SubmitClaim, TypeOK, Intent
    <3>2. CASE FetchWrite(p) \/ FinalizeWriteIntent(p)
      BY <1>1, <3>2 DEF FetchWrite, FinalizeWriteIntent, TypeOK, Intent
    <3>3. CASE ~(SubmitClaim(p) \/ FetchWrite(p) \/ FinalizeWriteIntent(p))
      BY <1>4, <3>3
      DEF RequestArrives, RequestStep, SubmitArrive, ShowRead, CancelRead, FetchRead,
          FinalizeReadInvoice, SubmitStep, SubmitReadInvoice, SubmitReadIntent, SubmitRefused,
          SubmitReopen, SubmitCycle, ViewCheck, CancelWrite, FetchClock, FinalizeReadIntent,
          FinalizeWriteInvoice
    <3>4. QED
      BY <3>1, <3>2, <3>3
  <2>4. QED
    BY <2>2, <2>3 DEF Honest
<1>5. CASE ExpirerScan
  BY <1>1, <1>5 DEF ExpirerScan, Goto, Honest
<1>6. CASE ObserverStep
  <2>1. chain' = chain /\ job'[Keeper] = job[Keeper]
    BY <1>1, <1>6
    DEF ObserverStep, ObserverSelect, ObserverDepth, ObserverOutputs, ObserverNodeDown,
        ObserverRecord, ObserverIntent, ObserverAnomaly, Goto, Finish
  <2>2. intent'.covenant = "captured" => intent.covenant = "captured"
    BY <1>1, <1>6
    DEF ObserverStep, ObserverSelect, ObserverDepth, ObserverOutputs, ObserverNodeDown,
        ObserverRecord, ObserverIntent, ObserverAnomaly, TypeOK, Intent
  <2>3. QED
    BY <2>1, <2>2 DEF Honest
<1>7. CASE KeeperStep
  <2>1. chain' = chain
    BY <1>7
    DEF KeeperStep, KeeperScan, KeeperClaim, KeeperBroadcast, KeeperRestore, KeeperIntent,
        KeeperInvoice, KeeperCycle, KeeperRecordFails
  <2>2. job'[Keeper].pc = "keeper_intent" => \E t \in TxIds : chain[t].whole
    <3>1. CASE KeeperBroadcast
      BY <3>1 DEF KeeperBroadcast
    <3>2. CASE KeeperScan \/ KeeperClaim \/ KeeperRestore \/ KeeperIntent \/ KeeperInvoice
               \/ KeeperCycle \/ KeeperRecordFails
      BY <1>1, <3>2
      DEF KeeperScan, KeeperClaim, KeeperRestore, KeeperIntent, KeeperInvoice, KeeperCycle,
          KeeperRecordFails, Goto, Finish, Job
    <3>3. QED
      BY <1>7, <3>1, <3>2 DEF KeeperStep
  <2>3. intent'.covenant = "captured" =>
          intent.covenant = "captured" \/ job[Keeper].pc = "keeper_intent"
    BY <1>1, <1>7
    DEF KeeperStep, KeeperScan, KeeperClaim, KeeperBroadcast, KeeperRestore, KeeperIntent,
        KeeperInvoice, KeeperCycle, KeeperRecordFails, At, TypeOK, Intent
  <2>4. QED
    BY <2>1, <2>2, <2>3 DEF Honest
<1>8. ASSUME NEW p \in Procs, StatementFails(p) PROVE Honest
  BY <1>1, <1>8 DEF StatementFails, Finish, Honest
<1>9. CASE Crash
  <2>1. job'[Keeper].pc # "keeper_intent" /\ UNCHANGED <<intent, chain>>
    BY <1>1, <1>9, IdleTyped DEF Crash, At
  <2>2. QED
    BY <2>1 DEF Honest
<1>10. QED
  BY <1>2, <1>3, <1>4, <1>5, <1>6, <1>7, <1>8, <1>9 DEF Next

\* What the keeper may spend was funded by the recorded transaction, deep enough
\* and at an address that finalize gave out; what it captured was spent from an
\* output of exactly the gross.
THEOREM OnlyFundedIsSpent == Spec => []FundedExactly
<1>1. Init => WholeSpent
  BY Constants DEF Init, WholeSpent, Idle
<1>2. IInv /\ WholeSpent /\ [Next]_vars => WholeSpent'
  <2>1. ASSUME WholeSpent, Honest PROVE WholeSpent'
    BY <2>1 DEF WholeSpent, Honest
  <2>2. ASSUME WholeSpent, UNCHANGED vars PROVE WholeSpent'
    BY <2>2 DEF WholeSpent, vars
  <2>3. QED
    BY <2>1, <2>2, EveryStepHonest
<1>3. IInv /\ WholeSpent => FundedExactly
  <2> SUFFICES ASSUME IInv, WholeSpent PROVE FundedExactly
    OBVIOUS
  <2>1. ASSUME intent.covenant \in {"funded", "settling", "captured"}
        PROVE  Funded /\ chain[intent.tx].address \in receipts
    <3>1. Funded
      BY <2>1 DEF IInv, Books, FundsKnown, Spendable
    <3>2. intent.tx \in TxIds
      BY <3>1 DEF IInv, TypeOK, Intent, Funded, PaymentSeen
    <3>3. QED
      BY <3>1, <3>2 DEF IInv, AddressesGiven, Funded, PaymentSeen
  <2>2. ASSUME intent.covenant = "captured"
        PROVE  \E t \in TxIds : chain[t].whole /\ chain[t].address \in receipts
    BY <2>2 DEF WholeSpent, IInv, AddressesGiven
  <2>3. QED
    BY <2>1, <2>2 DEF FundedExactly, Funded, PaymentSeen
<1>4. QED
  BY <1>1, <1>2, <1>3, Invariance, PTL DEF Spec

\* A wrong payment is reported once.
THEOREM OneReport == Spec => []FailureReportedOnce
<1>1. IInv => FailureReportedOnce
  <2> SUFFICES ASSUME IInv PROVE FailureReportedOnce
    OBVIOUS
  <2>1. Reported /\ TypeOK /\ AddressesGiven
    BY DEF IInv, Books
  <2>2. anomalies <= 1
    BY <2>1 DEF Reported
  <2>3. ASSUME anomalies = 1, receipts \subseteq {intent.address}
        PROVE  intent.covenant = "failed"
    <3>1. PaymentSeen /\ (intent.covenant = "failed" \/ intent.address # chain[intent.tx].address)
      BY <2>1, <2>3 DEF Reported
    <3>2. intent.tx \in TxIds
      BY <2>1, <3>1 DEF TypeOK, Intent, PaymentSeen
    <3>3. chain[intent.tx].address \in receipts
      BY <2>1, <3>1, <3>2 DEF AddressesGiven, PaymentSeen
    <3>4. QED
      BY <2>3, <3>1, <3>3
  <2>4. ASSUME "report" \notin cut, Quiet, intent.covenant = "failed"
        PROVE  anomalies = 1
    <3>1. ~Reporting
      BY <2>4, Constants DEF Quiet, Reporting
    <3>2. QED
      BY <2>1, <2>4, <3>1 DEF Reported
  <2>5. QED
    BY <2>2, <2>3, <2>4 DEF FailureReportedOnce
<1>2. QED
  BY <1>1, Invariance, PTL

\* The claim is first-come: no step replaces a recorded transaction.
THEOREM FirstClaimStays == Spec => TxClaimedOnce
<1> DEFINE Kept == intent.tx # None => intent'.tx = intent.tx
<1>1. IInv /\ [Next]_vars => [Kept]_vars
  <2> SUFFICES ASSUME IInv, Next PROVE Kept
    BY DEF Kept, vars
  <2>1. TypeOK
    BY DEF IInv
  <2>2. CASE \/ Environment \/ Crash \/ ExpirerScan
             \/ \E p \in Procs : StatementFails(p)
    BY <2>2
    DEF Environment, ClockTick, OthersMove, Pay, Confirm, Crash, ExpirerScan, StatementFails
  <2>3. ASSUME NEW p \in Procs, ExpireStep(p) PROVE Kept
    <3>1. CASE ExpireIntentRow(p)
      BY <2>1, <3>1 DEF ExpireIntentRow
    <3>2. CASE RestoreIntentRow(p)
      BY <2>1, <3>2 DEF RestoreIntentRow, TypeOK, Intent
    <3>3. CASE \/ ExpireInvoiceRow(p) \/ ExpireCycleRow(p) \/ ExpireCheck(p)
               \/ RestoreInvoiceRow(p) \/ RestoreCycleRow(p)
      BY <3>3
      DEF ExpireInvoiceRow, ExpireCycleRow, ExpireCheck, RestoreInvoiceRow, RestoreCycleRow
    <3>4. QED
      BY <2>3, <3>1, <3>2, <3>3 DEF ExpireStep
  <2>4. ASSUME NEW p \in Requests, RequestArrives(p) PROVE Kept
    BY <2>4
    DEF RequestArrives, SubmitArrive, ShowRead, CancelRead, FetchRead, FinalizeReadInvoice
  <2>5. ASSUME NEW p \in Requests, RequestStep(p) PROVE Kept
    <3>1. CASE SubmitClaim(p)
      BY <2>1, <3>1 DEF SubmitClaim, ClaimAccepts, TypeOK, Intent
    <3>2. CASE FetchWrite(p) \/ FinalizeWriteIntent(p)
      BY <2>1, <3>2 DEF FetchWrite, FinalizeWriteIntent, TypeOK, Intent
    <3>3. CASE \/ SubmitReadInvoice(p) \/ SubmitReadIntent(p) \/ SubmitRefused(p)
               \/ SubmitReopen(p) \/ SubmitCycle(p) \/ ViewCheck(p) \/ CancelWrite(p)
               \/ FetchClock(p) \/ FinalizeReadIntent(p) \/ FinalizeWriteInvoice(p)
      BY <3>3
      DEF SubmitReadInvoice, SubmitReadIntent, SubmitRefused, SubmitReopen, SubmitCycle,
          ViewCheck, CancelWrite, FetchClock, FinalizeReadIntent, FinalizeWriteInvoice
    <3>4. QED
      BY <2>5, <3>1, <3>2, <3>3 DEF RequestStep, SubmitStep
  <2>6. CASE ObserverStep
    <3>1. CASE ObserverIntent
      BY <2>1, <3>1 DEF ObserverIntent, TypeOK, Intent
    <3>2. CASE \/ ObserverSelect \/ ObserverDepth \/ ObserverOutputs \/ ObserverNodeDown
               \/ ObserverRecord \/ ObserverAnomaly
      BY <3>2
      DEF ObserverSelect, ObserverDepth, ObserverOutputs, ObserverNodeDown, ObserverRecord,
          ObserverAnomaly
    <3>3. QED
      BY <2>6, <3>1, <3>2 DEF ObserverStep
  <2>7. CASE KeeperStep
    <3>1. CASE KeeperClaim \/ KeeperRestore \/ KeeperIntent
      BY <2>1, <3>1 DEF KeeperClaim, KeeperRestore, KeeperIntent, TypeOK, Intent
    <3>2. CASE \/ KeeperScan \/ KeeperBroadcast \/ KeeperInvoice \/ KeeperCycle
               \/ KeeperRecordFails
      BY <3>2 DEF KeeperScan, KeeperBroadcast, KeeperInvoice, KeeperCycle, KeeperRecordFails
    <3>3. QED
      BY <2>7, <3>1, <3>2 DEF KeeperStep
  <2>8. QED
    BY <2>2, <2>3, <2>4, <2>5, <2>6, <2>7 DEF Next
<1>2. QED
  BY <1>1, Invariance, PTL DEF Spec, TxClaimedOnce
=============================================================================
