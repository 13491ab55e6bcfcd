-------------------------- MODULE SettlementProofs --------------------------
(***************************************************************************)
(* Proofs about Settlement for any number of covenants and requests, any   *)
(* number of faults and restarts.                                          *)
(*                                                                         *)
(* IInv is inductive: what a settler's label says of the row it works on   *)
(* (LabelsKnow) makes the claim a lock, and the lock makes the record and  *)
(* the books follow the chain.                                             *)
(***************************************************************************)
EXTENDS Settlement, TLAPS

\* The states of the row are told apart, and every settler has its own two.
LEMMA RowStates ==
  ASSUME NEW p \in Settlers
  PROVE  /\ Claim(p) \in Claims /\ Terminal(p) \in Terminals
         /\ "funded" \notin Claims \cup Terminals
         /\ Claims \cap Terminals = {}
BY DEF Claim, Terminal, Claims, Terminals

LEMMA Processes ==
  /\ Keeper \in Settlers /\ Keeper \in Procs
  /\ Spenders \subseteq Settlers /\ Settlers \subseteq Procs
  /\ Cancellers \subseteq Procs /\ None \notin Settlers
  /\ Keeper \notin Spenders /\ Refunds \subseteq Spenders
BY NoneAssumption, ProcsAssumption DEF Settlers, Procs, Spenders

\* Init puts every variable in its type.
LEMMA TypeInit == Init => TypeOK
BY BoundsAssumption, Processes DEF Init, TypeOK, Labels

\* The two bounded counters stay within their bounds.
LEMMA FaultCounted ==
  ASSUME faults \in 0..MaxFaults, faults < MaxFaults, faults' = faults + 1
  PROVE  faults' \in 0..MaxFaults
BY BoundsAssumption

LEMMA CrashCounted ==
  ASSUME crashes \in 0..MaxCrashes, crashes < MaxCrashes, crashes' = crashes + 1
  PROVE  crashes' \in 0..MaxCrashes
BY BoundsAssumption

\* Every statement of Settle keeps the types.
LEMMA TypeSettle ==
  ASSUME TypeOK, NEW p \in Settlers, Settle(p)
  PROVE  TypeOK'
<1> USE Processes, RowStates DEF TypeOK, Labels, At, Goto, Finish, Rest, row, books, scan
<1>0. p \in Procs /\ pc[p] \in Labels
  OBVIOUS
<1>1. CASE Lookup(p)
  BY <1>1 DEF Lookup
<1>2. CASE LookupFails(p)
  BY <1>2 DEF LookupFails
<1>3. CASE ClaimFunded(p)
  BY <1>3 DEF ClaimFunded
<1>4. CASE Broadcast(p)
  BY <1>4 DEF Broadcast
<1>5. CASE BroadcastRejected(p)
  BY <1>5 DEF BroadcastRejected
<1>6. CASE BroadcastAnswerLost(p)
  <2>1. faults' \in 0..MaxFaults
    BY <1>6, FaultCounted DEF BroadcastAnswerLost
  <2>2. QED
    BY <1>6, <2>1 DEF BroadcastAnswerLost
<1>7. CASE Restore(p)
  BY <1>7 DEF Restore
<1>8. CASE RecordIntent(p)
  BY <1>8 DEF RecordIntent
<1>9. CASE RecordInvoice(p)
  BY <1>9 DEF RecordInvoice, Booked
<1>10. CASE RecordCycle(p)
  BY <1>10 DEF RecordCycle
<1>11. QED
  BY <1>1, <1>2, <1>3, <1>4, <1>5, <1>6, <1>7, <1>8, <1>9, <1>10, Settle(p) DEF Settle

\* The keeper's own steps keep the types.
LEMMA TypeKeeper ==
  ASSUME TypeOK, KeeperTick
  PROVE  TypeOK'
<1> USE Processes DEF TypeOK, Labels, At, Goto, row, books, scan
<1>1. CASE KeeperScan
  BY <1>1 DEF KeeperScan, Eligible
<1>2. CASE KeeperClaim
  <2>1. PICK c \in batch :
          /\ batch' = batch \ {c}
          /\ cov' = [cov EXCEPT ![Keeper] = c]
          /\ IF covenant[c] = "funded"
               THEN /\ covenant' = [covenant EXCEPT ![c] = "settling"]
                    /\ pc' = [pc EXCEPT ![Keeper] = "keeper_lookup"]
               ELSE UNCHANGED <<covenant, pc>>
    BY <1>2 DEF KeeperClaim
  <2>2. QED
    BY <1>2, <2>1 DEF KeeperClaim, Claims
<1>3. CASE KeeperLookup
  BY <1>3 DEF KeeperLookup
<1>4. CASE KeeperTickEnds
  BY <1>4 DEF KeeperTickEnds
<1>5. CASE KeeperEmit
  BY <1>5 DEF KeeperEmit
<1>6. QED
  BY <1>1, <1>2, <1>3, <1>4, <1>5, KeeperTick DEF KeeperTick

\* So do a request's first statement, cancel, a failed statement and a restart.
LEMMA TypeOthers ==
  ASSUME TypeOK,
         \/ \E c \in Covenants : CaptureTimePasses(c)
         \/ \E p \in Spenders, c \in Covenants : Load(p, c)
         \/ \E p \in Cancellers, c \in Covenants : CancelRead(p, c)
         \/ \E p \in Cancellers : CancelWrite(p)
         \/ \E p \in Settlers : StatementFails(p)
         \/ Crash
  PROVE  TypeOK'
<1> USE Processes DEF TypeOK, Labels, At, Goto, Finish, Rest, row, books, scan
<1>1. ASSUME NEW c \in Covenants, CaptureTimePasses(c) PROVE TypeOK'
  BY <1>1 DEF CaptureTimePasses
<1>2. ASSUME NEW p \in Spenders, NEW c \in Covenants, Load(p, c) PROVE TypeOK'
  BY <1>2 DEF Load
<1>3. ASSUME NEW p \in Cancellers, NEW c \in Covenants, CancelRead(p, c) PROVE TypeOK'
  BY <1>3 DEF CancelRead
<1>4. ASSUME NEW p \in Cancellers, CancelWrite(p) PROVE TypeOK'
  BY <1>4 DEF CancelWrite
<1>5. ASSUME NEW p \in Settlers, StatementFails(p) PROVE TypeOK'
  <2>1. faults' \in 0..MaxFaults
    BY <1>5, FaultCounted DEF StatementFails
  <2>2. batch' \subseteq Covenants /\ pc' \in [Procs -> Labels]
    BY <1>5 DEF StatementFails
  <2>3. QED
    BY <1>5, <2>1, <2>2 DEF StatementFails
<1>6. CASE Crash
  <2>1. crashes' \in 0..MaxCrashes
    BY <1>6, CrashCounted DEF Crash
  <2>2. QED
    BY <1>6, <2>1 DEF Crash
<1>7. QED
  BY <1>1, <1>2, <1>3, <1>4, <1>5, <1>6

-----------------------------------------------------------------------------
(* The claim is a lock.                                                    *)

\* A step that moves p to another label and writes nothing of the row, the books
\* or the chain keeps the invariant, unless the new label says more.
LEMMA LabelMoves ==
  ASSUME IInv, TypeOK', NEW p \in Procs, NEW l \in Labels,
         pc' = [pc EXCEPT ![p] = l],
         UNCHANGED <<covenant, recorded, invoice, spentBy, cov>>,
         l \in AtWork => pc[p] \in AtWork,
         l \in Holding => pc[p] \in Holding,
         l \in Recording => pc[p] \in Recording \ {"record_intent"},
         pc[p] = "restore" => l \notin Holding
  PROVE  IInv'
<1> USE Processes DEF IInv
<1>1. LabelsKnow'
  BY DEF LabelsKnow, TypeOK
<1>2. ClaimExclusive'
  BY DEF ClaimExclusive, TypeOK
<1>3. SettledAsSpent' /\ BooksMatchChain'
  BY DEF SettledAsSpent, BooksMatchChain
<1>4. QED
  BY <1>1, <1>2, <1>3

LEMMA ClaimInductive ==
  ASSUME IInv, TypeOK', NEW p \in Settlers, ClaimFunded(p)
  PROVE  IInv'
<1> USE Processes DEF IInv
<1>1. LabelsKnow'
  BY RowStates DEF LabelsKnow, TypeOK, ClaimFunded, At, Goto, Holding, Recording, AtWork, Labels, scan, books
<1>2. ClaimExclusive'
  BY RowStates DEF LabelsKnow, ClaimExclusive, TypeOK, ClaimFunded, At, Goto, Holding, AtWork, Labels, scan, books
<1>3. SettledAsSpent' /\ BooksMatchChain'
  BY RowStates DEF SettledAsSpent, BooksMatchChain, TypeOK, ClaimFunded, scan, books
<1>4. QED
  BY <1>1, <1>2, <1>3

LEMMA KeeperClaimInductive ==
  ASSUME IInv, TypeOK', KeeperClaim
  PROVE  IInv'
<1> USE Processes DEF IInv
<1>1. PICK c \in batch :
        /\ cov' = [cov EXCEPT ![Keeper] = c]
        /\ IF covenant[c] = "funded"
             THEN /\ covenant' = [covenant EXCEPT ![c] = "settling"]
                  /\ pc' = [pc EXCEPT ![Keeper] = "keeper_lookup"]
             ELSE UNCHANGED <<covenant, pc>>
  BY DEF KeeperClaim, Goto
<1>2. c \in Covenants /\ pc[Keeper] = "next" /\ Claim(Keeper) = "settling"
  BY DEF TypeOK, KeeperClaim, At, Claim
<1>3. UNCHANGED <<recorded, invoice, spentBy>>
  BY DEF KeeperClaim, books
<1>4. LabelsKnow'
  BY <1>1, <1>2, <1>3, RowStates DEF LabelsKnow, TypeOK, Holding, Recording, AtWork, Labels
<1>5. ClaimExclusive'
  BY <1>1, <1>2, <1>3, RowStates DEF LabelsKnow, ClaimExclusive, TypeOK, Holding, AtWork, Labels
<1>6. SettledAsSpent' /\ BooksMatchChain'
  BY <1>1, <1>2, <1>3, RowStates DEF SettledAsSpent, BooksMatchChain, TypeOK
<1>7. QED
  BY <1>4, <1>5, <1>6

\* Accepted by the node: nobody had spent the covenant, and p alone holds it.
LEMMA SpendInductive ==
  ASSUME IInv, TypeOK', NEW p \in Settlers, NEW l \in {"record_intent", "restore"},
         pc[p] = "broadcast", pc' = [pc EXCEPT ![p] = l],
         spentBy[cov[p]] = None, spentBy' = [spentBy EXCEPT ![cov[p]] = p],
         UNCHANGED <<row, books, scan>>
  PROVE  IInv'
<1> USE Processes DEF IInv, row, books, scan
<1>1. cov[p] \in Covenants
  BY DEF LabelsKnow, AtWork, Labels
<1>2. \A q \in Settlers : pc[q] \in Recording => cov[q] # cov[p]
  BY DEF LabelsKnow, Recording
<1>3. LabelsKnow'
  BY <1>1, <1>2 DEF LabelsKnow, TypeOK, Holding, Recording, AtWork, Labels
<1>4. ClaimExclusive'
  BY DEF ClaimExclusive, TypeOK, Holding
<1>5. SettledAsSpent' /\ BooksMatchChain'
  BY <1>1 DEF SettledAsSpent, BooksMatchChain, TypeOK
<1>6. QED
  BY <1>3, <1>4, <1>5

\* The claim handed back is p's own, or the row is settled and stays as it is.
LEMMA RestoreInductive ==
  ASSUME IInv, TypeOK', NEW p \in Settlers, Restore(p)
  PROVE  IInv'
<1> USE Processes DEF IInv, books, scan
<1>1. cov[p] \in Covenants /\ pc[p] \in Holding /\ pc[p] = "restore"
  BY DEF Restore, At, LabelsKnow, AtWork, Labels, Holding
<1>2. PICK l \in {"next", "done"} : pc' = [pc EXCEPT ![p] = l]
  BY DEF Restore, Finish, Goto, Rest
<1>3. \A q \in Settlers : q # p /\ pc[q] \in Holding => cov[q] # cov[p]
  BY <1>1 DEF ClaimExclusive
<1>4. LabelsKnow'
  BY <1>1, <1>2, <1>3, RowStates DEF LabelsKnow, TypeOK, Restore, Holding, Recording, AtWork, Labels
<1>5. ClaimExclusive'
  BY <1>2 DEF ClaimExclusive, TypeOK, Restore, Holding
<1>6. SettledAsSpent' /\ BooksMatchChain'
  BY <1>1, RowStates DEF SettledAsSpent, BooksMatchChain, TypeOK, Restore
<1>7. QED
  BY <1>4, <1>5, <1>6

\* Recording the settlement: the spend is p's, so the row comes to name it.
LEMMA RecordIntentInductive ==
  ASSUME IInv, TypeOK', NEW p \in Settlers, RecordIntent(p)
  PROVE  IInv'
<1> USE Processes DEF IInv, books, scan
<1>1. /\ cov[p] \in Covenants /\ spentBy[cov[p]] = p
      /\ pc[p] = "record_intent" /\ pc[p] \in Holding
  BY DEF RecordIntent, At, LabelsKnow, AtWork, Labels, Holding, Recording
<1>2. \A q \in Settlers : q # p /\ pc[q] \in Holding => cov[q] # cov[p]
  BY <1>1 DEF ClaimExclusive
<1>3. LabelsKnow'
  BY <1>1, <1>2, RowStates DEF LabelsKnow, TypeOK, RecordIntent, Goto, Holding, Recording, AtWork, Labels
<1>4. ClaimExclusive'
  BY <1>1 DEF ClaimExclusive, TypeOK, RecordIntent, Goto, Holding
<1>5. SettledAsSpent' /\ BooksMatchChain'
  BY <1>1, RowStates DEF SettledAsSpent, BooksMatchChain, TypeOK, RecordIntent
<1>6. QED
  BY <1>3, <1>4, <1>5

\* The invoice is booked after the spend, for what p's transaction paid.
LEMMA RecordInvoiceInductive ==
  ASSUME IInv, TypeOK', NEW p \in Settlers, RecordInvoice(p)
  PROVE  IInv'
<1> USE Processes DEF IInv, row, scan
<1>1. cov[p] \in Covenants /\ spentBy[cov[p]] = p /\ pc[p] = "record_invoice"
  BY DEF RecordInvoice, At, LabelsKnow, AtWork, Labels, Recording
<1>2. PICK l \in {"done", "record_cycle"} : pc' = [pc EXCEPT ![p] = l]
  BY DEF RecordInvoice, Goto
<1>3. LabelsKnow'
  BY <1>1, <1>2 DEF LabelsKnow, TypeOK, RecordInvoice, Holding, Recording, AtWork, Labels
<1>4. ClaimExclusive'
  BY <1>1, <1>2 DEF ClaimExclusive, TypeOK, RecordInvoice, Holding
<1>5. SettledAsSpent' /\ BooksMatchChain'
  BY <1>1 DEF SettledAsSpent, BooksMatchChain, TypeOK, RecordInvoice, Booked
<1>6. QED
  BY <1>3, <1>4, <1>5

\* The settler's label after a failed statement never says more than before,
\* except for the keeper's restore: the row is its claim or already settled.
LEMMA StatementFailsInductive ==
  ASSUME IInv, TypeOK', NEW p \in Settlers, StatementFails(p)
  PROVE  IInv'
<1> USE Processes DEF IInv, row, books
<1>1. PICK l \in {"idle", "next", "done", "restore"} :
        /\ pc' = [pc EXCEPT ![p] = l]
        /\ l = "restore" => p = Keeper /\ pc[p] \in Recording
  BY DEF StatementFails, Goto, Finish, Rest, Recording
<1>2. UNCHANGED <<covenant, recorded, invoice, spentBy, cov>>
  BY DEF StatementFails
<1>3. LabelsKnow'
  BY <1>1, <1>2 DEF LabelsKnow, TypeOK, Holding, Recording, AtWork, Labels
<1>4. ClaimExclusive'
  <2>1. ASSUME NEW q \in Settlers, q # p, pc[q] \in Holding, l = "restore",
               cov[q] = cov[p]
        PROVE  FALSE
    <3>1. CASE pc[p] = "record_intent"
      BY <2>1, <3>1 DEF ClaimExclusive, Holding
    <3>2. CASE pc[p] # "record_intent"
      <4>1. covenant[cov[p]] \in Terminals
        BY <1>1, <2>1, <3>2 DEF LabelsKnow
      <4>2. covenant[cov[q]] = Claim(q)
        BY <1>1, <2>1 DEF LabelsKnow
      <4>3. QED
        BY <2>1, <4>1, <4>2, RowStates
    <3>3. QED
      BY <3>1, <3>2
  <2>2. QED
    BY <1>1, <1>2, <2>1 DEF ClaimExclusive, TypeOK, Holding
<1>5. SettledAsSpent' /\ BooksMatchChain'
  BY <1>2 DEF SettledAsSpent, BooksMatchChain
<1>6. QED
  BY <1>3, <1>4, <1>5

\* A restart only takes processes away.
LEMMA CrashInductive ==
  ASSUME IInv, TypeOK', Crash
  PROVE  IInv'
<1> USE Processes DEF IInv, row, books
<1>1. \A p \in Procs : pc'[p] \in {"idle", "done"}
  BY DEF Crash
<1>2. UNCHANGED <<covenant, recorded, invoice, spentBy, cov>>
  BY DEF Crash
<1>3. LabelsKnow'
  BY <1>1, <1>2 DEF LabelsKnow, Holding, Recording, AtWork
<1>4. ClaimExclusive'
  BY <1>1, <1>2 DEF ClaimExclusive, Holding
<1>5. SettledAsSpent' /\ BooksMatchChain'
  BY <1>2 DEF SettledAsSpent, BooksMatchChain
<1>6. QED
  BY <1>3, <1>4, <1>5

\* load_funded_open and cancel's read bind the process to a covenant and claim
\* nothing; cancel's write touches the invoice alone.
LEMMA RequestInductive ==
  ASSUME IInv, TypeOK', NEW p \in Procs, NEW c \in Covenants,
         Load(p, c) \/ CancelRead(p, c) \/ (p \in Cancellers /\ CancelWrite(p))
  PROVE  IInv'
<1> USE Processes DEF IInv, row, books, scan
<1>1. CASE Load(p, c) \/ CancelRead(p, c)
  <2>1. PICK l \in {"lookup", "cancel_write", "done"} :
          pc' = [pc EXCEPT ![p] = l] /\ cov' = [cov EXCEPT ![p] = c]
    BY <1>1 DEF Load, CancelRead, Goto
  <2>2. UNCHANGED <<covenant, recorded, invoice, spentBy>>
    BY <1>1 DEF Load, CancelRead
  <2>3. LabelsKnow'
    BY <2>1, <2>2 DEF LabelsKnow, TypeOK, Holding, Recording, AtWork, Labels
  <2>4. ClaimExclusive'
    BY <2>1 DEF ClaimExclusive, TypeOK, Holding
  <2>5. SettledAsSpent' /\ BooksMatchChain'
    BY <2>2 DEF SettledAsSpent, BooksMatchChain
  <2>6. QED
    BY <2>3, <2>4, <2>5
<1>2. CASE p \in Cancellers /\ CancelWrite(p)
  <2>1. pc' = [pc EXCEPT ![p] = "done"] /\ UNCHANGED <<row, spentBy, scan>>
    BY <1>2 DEF CancelWrite, Goto
  <2>2. LabelsKnow'
    BY <2>1 DEF LabelsKnow, TypeOK, Holding, Recording, AtWork
  <2>3. ClaimExclusive'
    BY <2>1 DEF ClaimExclusive, TypeOK, Holding
  <2>4. SettledAsSpent' /\ BooksMatchChain'
    BY <1>2, <2>1 DEF CancelWrite, SettledAsSpent, BooksMatchChain, TypeOK
  <2>5. QED
    BY <2>2, <2>3, <2>4
<1>3. QED
  BY <1>1, <1>2

\* The steps of a settler, each by its own lemma.
LEMMA SettleInductive ==
  ASSUME IInv, TypeOK', NEW p \in Settlers, Settle(p)
  PROVE  IInv'
<1> USE Processes DEF At, Goto, Finish, Rest, row, books, scan
<1>0. p \in Procs
  OBVIOUS
<1>1. CASE Lookup(p) \/ LookupFails(p)
  <2>1. PICK l \in {"claim", "done"} : pc' = [pc EXCEPT ![p] = l]
    BY <1>1 DEF Lookup, LookupFails
  <2>2. pc[p] = "lookup" /\ UNCHANGED <<covenant, recorded, invoice, spentBy, cov>>
    BY <1>1 DEF Lookup, LookupFails
  <2>3. QED
    BY <1>0, <2>1, <2>2, LabelMoves DEF Labels, AtWork, Holding, Recording
<1>2. CASE ClaimFunded(p)
  BY <1>2, ClaimInductive
<1>3. CASE Broadcast(p)
  BY <1>3, SpendInductive DEF Broadcast
<1>4. CASE BroadcastRejected(p)
  BY <1>0, <1>4, LabelMoves DEF BroadcastRejected, Labels, AtWork, Holding, Recording
<1>5. CASE BroadcastAnswerLost(p)
  BY <1>5, SpendInductive DEF BroadcastAnswerLost
<1>6. CASE Restore(p)
  BY <1>6, RestoreInductive
<1>7. CASE RecordIntent(p)
  BY <1>7, RecordIntentInductive
<1>8. CASE RecordInvoice(p)
  BY <1>8, RecordInvoiceInductive
<1>9. CASE RecordCycle(p)
  <2>1. PICK l \in {"emit", "done"} : pc' = [pc EXCEPT ![p] = l]
    BY <1>9 DEF RecordCycle
  <2>2. pc[p] = "record_cycle" /\ UNCHANGED <<covenant, recorded, invoice, spentBy, cov>>
    BY <1>9 DEF RecordCycle
  <2>3. QED
    BY <1>0, <2>1, <2>2, LabelMoves DEF Labels, AtWork, Holding, Recording
<1>10. QED
  BY <1>1, <1>2, <1>3, <1>4, <1>5, <1>6, <1>7, <1>8, <1>9, Settle(p) DEF Settle

LEMMA KeeperInductive ==
  ASSUME IInv, TypeOK', KeeperTick
  PROVE  IInv'
<1> USE Processes DEF At, Goto, row, books, scan
<1>1. CASE KeeperClaim
  BY <1>1, KeeperClaimInductive
<1>2. CASE KeeperScan \/ KeeperLookup \/ KeeperTickEnds \/ KeeperEmit
  <2>1. PICK l \in {"next", "broadcast", "restore", "idle"} :
          /\ pc' = [pc EXCEPT ![Keeper] = l]
          /\ l \in {"broadcast", "restore"} => pc[Keeper] = "keeper_lookup"
    BY <1>2 DEF KeeperScan, KeeperLookup, KeeperTickEnds, KeeperEmit
  <2>2. pc[Keeper] # "restore" /\ UNCHANGED <<covenant, recorded, invoice, spentBy, cov>>
    BY <1>2 DEF KeeperScan, KeeperLookup, KeeperTickEnds, KeeperEmit
  <2>3. QED
    BY <2>1, <2>2, LabelMoves DEF Labels, AtWork, Holding, Recording
<1>3. QED
  BY <1>1, <1>2, KeeperTick DEF KeeperTick

LEMMA NextInductive == IInv /\ [Next]_vars => IInv'
<1> SUFFICES ASSUME IInv, [Next]_vars PROVE IInv'
  OBVIOUS
<1> USE Processes
<1>1. TypeOK
  BY DEF IInv
<1>2. ASSUME NEW c \in Covenants, CaptureTimePasses(c) PROVE IInv'
  <2>1. TypeOK'
    BY <1>1, <1>2, TypeOthers
  <2>2. UNCHANGED <<covenant, recorded, invoice, spentBy, cov, pc>>
    BY <1>2 DEF CaptureTimePasses, row, books, scan
  <2>3. QED
    BY <2>1, <2>2 DEF IInv, LabelsKnow, ClaimExclusive, SettledAsSpent, BooksMatchChain
<1>3. ASSUME NEW p \in Spenders, NEW c \in Covenants, Load(p, c) PROVE IInv'
  BY <1>1, <1>3, TypeOthers, RequestInductive
<1>4. ASSUME NEW p \in Cancellers, NEW c \in Covenants, CancelRead(p, c) PROVE IInv'
  BY <1>1, <1>4, TypeOthers, RequestInductive
<1>5. ASSUME NEW p \in Cancellers, CancelWrite(p) PROVE IInv'
  <2>1. cov[p] \in Covenants
    BY <1>5 DEF IInv, LabelsKnow, CancelWrite, At, AtWork, Labels
  <2>2. QED
    BY <1>1, <1>5, <2>1, TypeOthers, RequestInductive
<1>6. ASSUME NEW p \in Settlers, Settle(p) PROVE IInv'
  BY <1>1, <1>6, TypeSettle, SettleInductive
<1>7. ASSUME NEW p \in Settlers, StatementFails(p) PROVE IInv'
  BY <1>1, <1>7, TypeOthers, StatementFailsInductive
<1>8. CASE KeeperTick
  BY <1>1, <1>8, TypeKeeper, KeeperInductive
<1>9. CASE Crash
  BY <1>1, <1>9, TypeOthers, CrashInductive
<1>10. CASE UNCHANGED vars
  BY <1>10 DEF vars, IInv, TypeOK, LabelsKnow, ClaimExclusive, SettledAsSpent, BooksMatchChain
<1>11. QED
  BY <1>2, <1>3, <1>4, <1>5, <1>6, <1>7, <1>8, <1>9, <1>10 DEF Next

LEMMA InitInductive == Init => IInv
<1> SUFFICES ASSUME Init PROVE IInv
  OBVIOUS
<1>1. TypeOK
  BY TypeInit
<1>2. LabelsKnow /\ ClaimExclusive
  BY Processes DEF Init, LabelsKnow, ClaimExclusive, AtWork, Holding, Recording
<1>3. SettledAsSpent /\ BooksMatchChain
  BY DEF Init, SettledAsSpent, BooksMatchChain, Terminals
<1>4. QED
  BY <1>1, <1>2, <1>3 DEF IInv

THEOREM Invariance == Spec => []IInv
BY InitInductive, NextInductive, PTL DEF Spec

-----------------------------------------------------------------------------
(* What follows from it.                                                   *)

\* Every variable keeps its type, however settlers, failures and restarts
\* interleave.
THEOREM TypeCorrect == Spec => []TypeOK
<1>1. IInv => TypeOK
  BY DEF IInv
<1>2. QED
  BY <1>1, Invariance, PTL

\* The conditional UPDATE that claims a row is a lock on the covenant.
THEOREM ClaimIsExclusive == Spec => []ClaimExclusive
<1>1. IInv => ClaimExclusive
  BY DEF IInv
<1>2. QED
  BY <1>1, Invariance, PTL

\* A settled row names the transaction that spent the covenant, and its tier.
THEOREM RecordIsTrue == Spec => []SettledAsSpent
<1>1. IInv => SettledAsSpent
  BY DEF IInv
<1>2. QED
  BY <1>1, Invariance, PTL

\* An invoice is paid or refunded only when the chain did so.
THEOREM BooksAreTrue == Spec => []BooksMatchChain
<1>1. IInv => BooksMatchChain
  BY DEF IInv
<1>2. QED
  BY <1>1, Invariance, PTL

\* Under the invariant no step leaves or rewrites a settled row: claims need a
\* funded row, restores a claimed one, and the recording settler its own claim.
LEMMA RowStays ==
  ASSUME IInv, [Next]_vars, NEW c \in Covenants, covenant[c] \in Terminals
  PROVE  covenant'[c] = covenant[c] /\ recorded'[c] = recorded[c]
<1> USE Processes, RowStates DEF row, books, scan, IInv, TypeOK
<1>1. ASSUME NEW p \in Settlers, Settle(p)
      PROVE  covenant'[c] = covenant[c] /\ recorded'[c] = recorded[c]
  <2>1. CASE ClaimFunded(p)
    BY <2>1 DEF ClaimFunded
  <2>2. CASE Restore(p)
    BY <2>2 DEF Restore
  <2>3. CASE RecordIntent(p)
    <3>1. covenant[cov[p]] = Claim(p)
      BY <2>3 DEF RecordIntent, At, LabelsKnow, Holding
    <3>2. QED
      BY <2>3, <3>1 DEF RecordIntent
  <2>4. CASE \/ Lookup(p) \/ LookupFails(p) \/ Broadcast(p) \/ BroadcastRejected(p)
             \/ BroadcastAnswerLost(p) \/ RecordInvoice(p) \/ RecordCycle(p)
    BY <2>4 DEF Lookup, LookupFails, Broadcast, BroadcastRejected,
                BroadcastAnswerLost, RecordInvoice, RecordCycle
  <2>5. QED
    BY <1>1, <2>1, <2>2, <2>3, <2>4 DEF Settle
<1>2. CASE KeeperTick
  BY <1>2 DEF KeeperTick, KeeperScan, KeeperClaim, KeeperLookup, KeeperTickEnds, KeeperEmit
<1>3. CASE \/ \E d \in Covenants : CaptureTimePasses(d)
           \/ \E p \in Spenders, d \in Covenants : Load(p, d)
           \/ \E p \in Cancellers, d \in Covenants : CancelRead(p, d)
           \/ \E p \in Cancellers : CancelWrite(p)
           \/ \E p \in Settlers : StatementFails(p)
           \/ Crash
  BY <1>3 DEF CaptureTimePasses, Load, CancelRead, CancelWrite, StatementFails, Crash
<1>4. CASE UNCHANGED vars
  BY <1>4 DEF vars
<1>5. QED
  BY <1>1, <1>2, <1>3, <1>4 DEF Next

\* A settlement on record stays, for any interleaving with failures and restarts.
THEOREM SettlementIsFinal == Spec => SettledForGood
<1>1. IInv /\ [Next]_vars =>
        [\A c \in Covenants : covenant[c] \in Terminals =>
           covenant'[c] = covenant[c] /\ recorded'[c] = recorded[c]]_vars
  BY RowStays
<1>2. QED
  BY <1>1, Invariance, PTL DEF Spec, SettledForGood

-----------------------------------------------------------------------------
(* Settlement implements EscrowOutcome.                                    *)

LEMMA PaysSomeone ==
  ASSUME NEW p \in Settlers
  PROVE  /\ Pays(p) \in Escrow!Outcomes /\ Pays(p) # "held"
         /\ Booked(p) = Escrow!Booking(Pays(p))
BY DEF Pays, Booked, Escrow!Outcomes, Escrow!Booking

LEMMA RefinesInit == Init => Escrow!Init
BY DEF Init, Escrow!Init

\* An accepted broadcast is EscrowOutcome's Spend.
LEMMA RefinesSpend ==
  ASSUME IInv, NEW p \in Settlers, cov[p] \in Covenants, spentBy[cov[p]] = None,
         spentBy' = [spentBy EXCEPT ![cov[p]] = p], UNCHANGED invoice
  PROVE  Escrow!Spend(cov[p], Pays(p))
BY Processes, PaysSomeone DEF IInv, TypeOK, Escrow!Spend

\* A first booking is EscrowOutcome's Book, a later one finds the invoice closed.
LEMMA RefinesBook ==
  ASSUME IInv, NEW p \in Settlers, RecordInvoice(p)
  PROVE  Escrow!Book(cov[p]) \/ UNCHANGED Escrow!vars
<1> USE Processes, PaysSomeone DEF IInv, TypeOK
<1>1. cov[p] \in Covenants /\ spentBy[cov[p]] = p
  BY DEF RecordInvoice, At, LabelsKnow, AtWork, Labels, Recording
<1>2. UNCHANGED spentBy /\ invoice' = [invoice EXCEPT ![cov[p]] = IF @ = "open" THEN Booked(p) ELSE @]
  BY DEF RecordInvoice
<1>3. CASE invoice[cov[p]] = "open"
  BY <1>1, <1>2, <1>3 DEF Escrow!Book
<1>4. CASE invoice[cov[p]] # "open"
  <2>1. invoice' = invoice
    BY <1>1, <1>2, <1>4
  <2>2. QED
    BY <1>2, <2>1 DEF Escrow!vars
<1>5. QED
  BY <1>3, <1>4

LEMMA RefinesNext == IInv /\ [Next]_vars => [Escrow!Next]_(Escrow!vars)
<1> SUFFICES ASSUME IInv, [Next]_vars PROVE Escrow!Next \/ UNCHANGED Escrow!vars
  OBVIOUS
<1> USE Processes
<1>1. ASSUME UNCHANGED <<spentBy, invoice>> PROVE UNCHANGED Escrow!vars
  BY <1>1 DEF Escrow!vars
<1>2. ASSUME NEW p \in Settlers, Settle(p) PROVE Escrow!Next \/ UNCHANGED Escrow!vars
  <2>1. CASE Broadcast(p) \/ BroadcastAnswerLost(p)
    <3>1. cov[p] \in Covenants
      BY <2>1 DEF Broadcast, BroadcastAnswerLost, At, IInv, LabelsKnow, AtWork, Labels
    <3>2. Escrow!Spend(cov[p], Pays(p))
      BY <2>1, <3>1, RefinesSpend DEF Broadcast, BroadcastAnswerLost, books
    <3>3. QED
      BY <3>1, <3>2, PaysSomeone DEF Escrow!Next
  <2>2. CASE RecordInvoice(p)
    <3>1. cov[p] \in Covenants
      BY <2>2 DEF RecordInvoice, At, IInv, LabelsKnow, AtWork, Labels
    <3>2. QED
      BY <2>2, <3>1, RefinesBook DEF Escrow!Next
  <2>3. CASE \/ Lookup(p) \/ LookupFails(p) \/ ClaimFunded(p) \/ BroadcastRejected(p)
             \/ Restore(p) \/ RecordIntent(p) \/ RecordCycle(p)
    BY <1>1, <2>3 DEF Lookup, LookupFails, ClaimFunded, BroadcastRejected, Restore,
                      RecordIntent, RecordCycle, books
  <2>4. QED
    BY <1>2, <2>1, <2>2, <2>3 DEF Settle
<1>3. ASSUME NEW p \in Cancellers, CancelWrite(p) PROVE Escrow!Next
  <2>1. cov[p] \in Covenants
    BY <1>3 DEF CancelWrite, At, IInv, LabelsKnow, AtWork, Labels
  <2>2. Escrow!Cancel(cov[p])
    BY <1>3 DEF CancelWrite, Escrow!Cancel
  <2>3. QED
    BY <2>1, <2>2 DEF Escrow!Next
<1>4. CASE \/ KeeperTick
           \/ \E c \in Covenants : CaptureTimePasses(c)
           \/ \E p \in Spenders, c \in Covenants : Load(p, c)
           \/ \E p \in Cancellers, c \in Covenants : CancelRead(p, c)
           \/ \E p \in Settlers : StatementFails(p)
           \/ Crash
           \/ UNCHANGED vars
  BY <1>1, <1>4 DEF KeeperTick, KeeperScan, KeeperClaim, KeeperLookup, KeeperTickEnds,
                    KeeperEmit, CaptureTimePasses, Load, CancelRead, StatementFails,
                    Crash, vars, books
<1>5. QED
  BY <1>2, <1>3, <1>4 DEF Next

\* Settlement implements EscrowOutcome: one spend for each covenant, and books
\* that follow it.
THEOREM Implementation == Spec => EscrowSpec
BY RefinesInit, RefinesNext, Invariance, PTL DEF Spec, EscrowSpec, Escrow!Spec
=============================================================================
