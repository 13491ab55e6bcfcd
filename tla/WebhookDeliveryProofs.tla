----------------------- MODULE WebhookDeliveryProofs -----------------------
(***************************************************************************)
(* Proofs about WebhookDelivery for any number of endpoints, events,       *)
(* deliveries and workers, any number of faults and edits, and any batch   *)
(* that ends before its rows count as stuck (BatchAssumption).             *)
(*                                                                         *)
(* IInv is inductive.  Its heart is Hands: a claim is a lease.  A row in a *)
(* worker's hands has not aged beyond what its batch has spent, so the     *)
(* reaper does not return it and no second worker claims it; what the      *)
(* worker read of the row is therefore still true when it records.         *)
(***************************************************************************)
EXTENDS WebhookDelivery, FiniteSetTheorems, TLAPS

\* The ticks a worker's batch has taken at most so far.
Spent(w) ==
  IF worker[w].phase = "read" THEN worker[w].busy
  ELSE (CLAIM_BATCH - Len(worker[w].rows)) * AttemptMax + worker[w].busy

\* Worker w will still attempt, or record, delivery d.
Holds(w, d) ==
  \/ d \in worker[w].ids
  \/ \E i \in 1 .. Len(worker[w].rows) : worker[w].rows[i].id = d

\* Ids are used in order, so that the next one is free; a row still queued has
\* tries left; nothing was sent for a row that does not exist.
Queue ==
  /\ \E n \in 0 .. MaxDeliveries : \A d \in Ids : delivery[d].status # "none" <=> d <= n
  /\ \A d \in Ids :
       delivery[d].status \in {"pending", "delivering"} => delivery[d].attempts < max_attempts

\* Every configuration was an edit, and an endpoint not registered yet has the
\* one it will be registered with.
Configs ==
  \A p \in Endpoints :
    /\ endpoint[p].conf <= edits
    /\ endpoint[p].exists => endpoint[p].used
    /\ ~endpoint[p].used => endpoint[p].conf = 0 /\ endpoint[p].confAge = Old

Fans ==
  /\ \A e \in Events :
       /\ event[e] = "none" => fan[e].phase = "idle"
       /\ fan[e].phase # "create" => fan[e].todo = {}
       /\ fan[e].todo \subseteq fan[e].owed
       /\ \A p \in fan[e].owed : endpoint[p].used
  /\ FannedOut

\* What a worker has in its hands in each phase.
Shape ==
  \A w \in Workers :
    /\ worker[w].phase = "idle" => worker[w] = Idle
    /\ worker[w].phase = "read" =>
         worker[w].rows = <<>> /\ Cardinality(worker[w].ids) <= CLAIM_BATCH
    /\ worker[w].phase \in {"attempt", "record"} =>
         worker[w].ids = {} /\ Len(worker[w].rows) \in 1 .. CLAIM_BATCH
    /\ worker[w].heard => worker[w].phase = "record"

\* One worker holds a row, in one place of its batch.
HeldOnce ==
  /\ \A v, w \in Workers : \A d \in Ids : Holds(v, d) /\ Holds(w, d) => v = w
  /\ \A w \in Workers : \A i, j \in 1 .. Len(worker[w].rows) :
       worker[w].rows[i].id = worker[w].rows[j].id => i = j

\* A row held is still claimed, or gone, and younger than its batch.
HeldFresh ==
  \A w \in Workers : \A d \in Ids : Holds(w, d) =>
    /\ delivery[d].status \in {"delivering", "gone"}
    /\ Live(d) => delivery[d].age <= Spent(w)

\* What was read of a row held is still true, but for a configuration replaced
\* since the batch began.
RowsCurrent ==
  \A w \in Workers : \A i \in 1 .. Len(worker[w].rows) :
    LET row == worker[w].rows[i]
        p   == delivery[row.id].endpoint IN
    Live(row.id) => /\ row.attempt_count = delivery[row.id].attempts
                    /\ row.conf # endpoint[p].conf => endpoint[p].confAge <= Spent(w)

Hands == Shape /\ HeldOnce /\ HeldFresh /\ RowsCurrent

Flying(w, d) == worker[w].phase = "record" /\ Head(worker[w].rows).id = d

\* The receiver's view and the row agree up to the answers still in flight.
TriesAgree(d) ==
  Live(d) =>
    /\ (\A w \in Workers : ~Flying(w, d)) => seen[d].tries = delivery[d].attempts + seen[d].lost
    /\ \A w \in Workers : Flying(w, d) => seen[d].tries = delivery[d].attempts + seen[d].lost + 1

AnswersAgree(d) ==
  /\ \A w \in Workers : Holds(w, d) =>
       IF Flying(w, d) /\ worker[w].heard THEN seen[d].acks = seen[d].blind + 1
                                          ELSE seen[d].acks = seen[d].blind
  /\ (\A w \in Workers : ~Holds(w, d)) =>
       IF delivery[d].status \in {"succeeded", "gone"} THEN seen[d].acks <= seen[d].blind + 1
                                                       ELSE seen[d].acks = seen[d].blind

Counts ==
  \A d \in Ids :
    /\ delivery[d].status = "none" =>
         seen[d] = [tries |-> 0, acks |-> 0, lost |-> 0, blind |-> 0]
    /\ TriesAgree(d)
    /\ AnswersAgree(d)

IInv == TypeOK /\ Queue /\ Configs /\ Fans /\ Hands /\ Counts

-----------------------------------------------------------------------------
(* Facts about the operators.                                               *)

\* The constants are naturals, and the sample rows are in their types.
LEMMA Constants ==
  /\ MaxDeliveries \in Nat /\ MaxFaults \in Nat /\ MaxEdits \in Nat
  /\ CLAIM_BATCH \in Nat /\ CLAIM_BATCH >= 1
  /\ Stuck \in Nat /\ AttemptMax \in Nat /\ Old \in Nat /\ Stuck < Old
  /\ max_attempts \in 1 .. 7 /\ base_delay \in Nat
  /\ CLAIM_BATCH * AttemptMax <= Stuck
BY BoundsAssumption, ProfileAssumption, BatchAssumption DEF Old

\* The powers of two the retry profiles can reach.
LEMMA Powers ==
  ASSUME NEW m \in 0 .. 7, NEW n \in 0 .. 7, m <= n
  PROVE  2 ^ m \in Nat /\ 2 ^ n \in Nat /\ 2 ^ m <= 2 ^ n
<1>1. 2^0 = 1 /\ 2^1 = 2 /\ 2^2 = 4 /\ 2^3 = 8
  OBVIOUS
<1>2. 2^4 = 16 /\ 2^5 = 32 /\ 2^6 = 64 /\ 2^7 = 128
  OBVIOUS
<1>3. \A k \in 0 .. 7 : \/ (k = 0 /\ 2^k = 1)  \/ (k = 1 /\ 2^k = 2)  \/ (k = 2 /\ 2^k = 4)
                        \/ (k = 3 /\ 2^k = 8)  \/ (k = 4 /\ 2^k = 16) \/ (k = 5 /\ 2^k = 32)
                        \/ (k = 6 /\ 2^k = 64) \/ (k = 7 /\ 2^k = 128)
  <2> SUFFICES ASSUME NEW k \in 0 .. 7
               PROVE  \/ (k = 0 /\ 2^k = 1)  \/ (k = 1 /\ 2^k = 2)  \/ (k = 2 /\ 2^k = 4)
                      \/ (k = 3 /\ 2^k = 8)  \/ (k = 4 /\ 2^k = 16) \/ (k = 5 /\ 2^k = 32)
                      \/ (k = 6 /\ 2^k = 64) \/ (k = 7 /\ 2^k = 128)
    OBVIOUS
  <2>0. k = 0 => 2^k = 1
    BY <1>1
  <2>1. k = 1 => 2^k = 2
    BY <1>1
  <2>2. k = 2 => 2^k = 4
    BY <1>1
  <2>3. k = 3 => 2^k = 8
    BY <1>1
  <2>4. k = 4 => 2^k = 16
    BY <1>2
  <2>5. k = 5 => 2^k = 32
    BY <1>2
  <2>6. k = 6 => 2^k = 64
    BY <1>2
  <2>7. k = 7 => 2^k = 128
    BY <1>2
  <2>8. QED
    BY <2>0, <2>1, <2>2, <2>3, <2>4, <2>5, <2>6, <2>7
<1> DEFINE a == 2^m
           b == 2^n
<1>4. \/ (m = 0 /\ a = 1)  \/ (m = 1 /\ a = 2)  \/ (m = 2 /\ a = 4)
      \/ (m = 3 /\ a = 8)  \/ (m = 4 /\ a = 16) \/ (m = 5 /\ a = 32)
      \/ (m = 6 /\ a = 64) \/ (m = 7 /\ a = 128)
  BY <1>3, Zenon
<1>5. \/ (n = 0 /\ b = 1)  \/ (n = 1 /\ b = 2)  \/ (n = 2 /\ b = 4)
      \/ (n = 3 /\ b = 8)  \/ (n = 4 /\ b = 16) \/ (n = 5 /\ b = 32)
      \/ (n = 6 /\ b = 64) \/ (n = 7 /\ b = 128)
  BY <1>3, Zenon
<1> HIDE DEF a, b
<1>6. a \in Nat /\ b \in Nat /\ a <= b
  BY <1>4, <1>5
<1>7. QED
  BY <1>6 DEF a, b

\* A factor keeps the order of naturals.
LEMMA Scaled ==
  ASSUME NEW a \in Nat, NEW b \in Nat, NEW c \in Nat, a <= b
  PROVE  c * a \in Nat /\ c * a <= c * b
OBVIOUS

\* The delay after a failed attempt that leaves others is within the row's type.
LEMMA Backoff ==
  ASSUME NEW count \in 1 .. max_attempts
  PROVE  base_delay * 2 ^ (count - 1) \in 0 .. base_delay * 2 ^ max_attempts
<1>1. count - 1 \in 0 .. 7 /\ max_attempts \in 0 .. 7 /\ count - 1 <= max_attempts
  BY Constants
<1>2. 2 ^ (count - 1) \in Nat /\ 2 ^ max_attempts \in Nat /\ 2 ^ (count - 1) <= 2 ^ max_attempts
  BY <1>1, Powers, Zenon
<1> DEFINE a == 2 ^ (count - 1)
           b == 2 ^ max_attempts
<1>3. a \in Nat /\ b \in Nat /\ a <= b
  BY <1>2
<1> HIDE DEF a, b
<1>4. base_delay * a \in Nat /\ base_delay * b \in Nat /\ base_delay * a <= base_delay * b
  BY <1>3, Scaled, Constants
<1>5. base_delay * a \in 0 .. base_delay * b
  BY <1>4
<1>6. QED
  BY <1>5 DEF a, b

\* The ticks of a batch grow by one attempt's share with each row done, and stay
\* within the reaper's threshold.
LEMMA Share ==
  ASSUME NEW r \in 1 .. CLAIM_BATCH, NEW busy \in 0 .. AttemptMax
  PROVE  /\ (CLAIM_BATCH - r) * AttemptMax + busy \in Nat
         /\ (CLAIM_BATCH - r) * AttemptMax + busy <= (CLAIM_BATCH - (r - 1)) * AttemptMax
         /\ (CLAIM_BATCH - r) * AttemptMax + busy <= CLAIM_BATCH * AttemptMax
         /\ busy <= (CLAIM_BATCH - r) * AttemptMax + busy
<1> DEFINE k == CLAIM_BATCH - r
<1>1. k \in Nat /\ k + 1 = CLAIM_BATCH - (r - 1) /\ k + 1 <= CLAIM_BATCH
  BY Constants
<1>2. k * AttemptMax \in Nat /\ (k + 1) * AttemptMax = k * AttemptMax + AttemptMax
  BY <1>1, Constants
<1>3. (k + 1) * AttemptMax <= CLAIM_BATCH * AttemptMax
  BY <1>1, Constants, Scaled
<1>4. QED
  BY <1>1, <1>2, <1>3, Constants

\* Sets of delivery ids are finite.
LEMMA FiniteIds ==
  ASSUME NEW S \in SUBSET Ids
  PROVE  IsFiniteSet(S) /\ Cardinality(S) \in Nat
<1>1. IsFiniteSet(Ids)
  BY FS_Interval, Constants DEF Ids
<1>2. QED
  BY <1>1, FS_Subset, FS_CardinalityType

\* The next id is one more than the last one used, and free.
LEMMA NextIdIsFree ==
  ASSUME NEW n \in 0 .. MaxDeliveries, \A d \in Ids : delivery[d].status # "none" <=> d <= n
  PROVE  /\ NextId = n + 1
         /\ NextId \in Ids => delivery[NextId].status = "none"
<1> DEFINE used == {d \in Ids : delivery[d].status # "none"}
<1>1. used = 1 .. n
  BY Constants DEF Ids
<1>2. Cardinality(1 .. n) = n
  BY FS_Interval
<1>3. NextId = n + 1
  BY <1>1, <1>2 DEF NextId
<1>4. QED
  BY <1>3, Constants DEF Ids

\* A claim takes no more rows than CLAIM_BATCH: no two of them have as many due
\* rows before them.
LEMMA ClaimBounded ==
  ASSUME NEW due \in SUBSET Ids
  PROVE  Claimed(due) \in SUBSET due /\ Cardinality(Claimed(due)) <= CLAIM_BATCH
<1> DEFINE Before(d) == {c \in due : c < d}
           batch == Claimed(due)
           rank  == [d \in batch |-> Cardinality(Before(d))]
           slots == 0 .. CLAIM_BATCH - 1
<1>1. batch \in SUBSET due /\ \A d \in batch : Cardinality(Before(d)) < CLAIM_BATCH
  BY DEF Claimed
<1> HIDE DEF batch
<1>0. batch \in SUBSET Ids /\ \A d \in batch \cup due : d \in Int
  <2>1. batch \in SUBSET Ids
    BY <1>1
  <2>2. QED
    BY <2>1 DEF Ids
<1>2. \A d \in Ids : IsFiniteSet(Before(d)) /\ Cardinality(Before(d)) \in Nat
  BY FiniteIds
<1>3. rank \in [batch -> slots]
  <2>1. \A d \in batch : Cardinality(Before(d)) \in Nat /\ Cardinality(Before(d)) < CLAIM_BATCH
    BY <1>0, <1>1, <1>2
  <2>2. \A d \in batch : Cardinality(Before(d)) \in slots
    BY <2>1, Constants
  <2>3. QED
    BY <2>2
<1>4. ASSUME NEW c \in batch, NEW d \in batch, c < d
      PROVE  rank[c] # rank[d]
  <2>1. Before(c) \in SUBSET Before(d) /\ c \in Before(d) /\ c \notin Before(c)
    BY <1>0, <1>1, <1>4
  <2>2. Cardinality(Before(c)) # Cardinality(Before(d))
    BY <2>1, <1>0, <1>2, FS_Subset
  <2>3. QED
    BY <2>2
<1>5. rank \in Injection(batch, slots)
  <2>1. \A c, d \in batch : c # d => rank[c] # rank[d]
    BY <1>4, <1>0
  <2>2. QED
    BY <1>3, <2>1 DEF Injection, IsInjective
<1>6. IsFiniteSet(slots) /\ Cardinality(slots) = CLAIM_BATCH
  BY FS_Interval, Constants
<1>7. Cardinality(batch) <= CLAIM_BATCH
  BY <1>5, <1>6, FS_Injection
<1>8. QED
  BY <1>1, <1>7 DEF batch

-----------------------------------------------------------------------------
(* The invariant holds at first.                                            *)

\* An unregistered endpoint, an absent row and an idle worker are in their types.
LEMMA SampleRows ==
  /\ NoRow \in Delivery /\ NoRow.status = "none" /\ NoRow.attempts = 0
  /\ Unregistered.conf = 0 /\ Unregistered.confAge = Old /\ ~Unregistered.exists /\ ~Unregistered.used
  /\ Unregistered \in Endpoint
  /\ Idle \in Worker /\ Idle.phase = "idle" /\ Idle.ids = {} /\ Idle.rows = <<>>
  /\ Idle.busy = 0 /\ Idle.heard = FALSE
<1>1. (CHOOSE e \in Events : TRUE) \in Events /\ (CHOOSE p \in Endpoints : TRUE) \in Endpoints
  BY SetsAssumption
<1>2. 0 \in 0 .. base_delay * 2 ^ max_attempts
  <2> DEFINE b == 2 ^ max_attempts
  <2>0. max_attempts \in 0 .. 7 /\ max_attempts <= max_attempts
    BY Constants
  <2>1. b \in Nat
    BY <2>0, Powers, Zenon
  <2> HIDE DEF b
  <2>2. base_delay * b \in Nat
    BY <2>1, Constants
  <2>3. 0 \in 0 .. base_delay * b
    BY <2>2
  <2>4. QED
    BY <2>3 DEF b
<1>3. NoRow \in Delivery /\ NoRow.status = "none" /\ NoRow.attempts = 0
  BY <1>1, <1>2, Constants DEF NoRow, Delivery, Statuses
<1>4. QED
  BY <1>3, Constants DEF Unregistered, Idle, Worker, Endpoint

LEMMA InitInductive == Init => IInv
<1> SUFFICES ASSUME Init PROVE IInv
  OBVIOUS
<1>1. TypeOK
  BY SampleRows, Constants DEF Init, TypeOK, FanOut, Sent
<1>2. Queue
  <2>1. 0 \in 0 .. MaxDeliveries /\ \A d \in Ids : d > 0
    BY Constants DEF Ids
  <2>2. \A d \in Ids : delivery[d] = NoRow
    BY DEF Init
  <2>3. \A d \in Ids : delivery[d].status # "none" <=> d <= 0
    BY <2>1, <2>2, SampleRows DEF Ids
  <2>4. QED
    BY <2>1, <2>2, <2>3, SampleRows DEF Queue
<1>3. Configs
  BY SampleRows DEF Init, Configs
<1>4. Fans
  BY SampleRows DEF Init, Fans, FannedOut
<1>5. \A w \in Workers : \A d \in Ids : ~Holds(w, d)
  BY DEF Init, Holds, Idle
<1>6. Hands
  BY <1>5 DEF Init, Hands, Shape, HeldOnce, HeldFresh, RowsCurrent, Idle
<1>7. Counts
  BY <1>5, SampleRows DEF Init, Counts, TriesAgree, AnswersAgree, Live, Flying, Idle
<1>8. QED
  BY <1>1, <1>2, <1>3, <1>4, <1>6, <1>7 DEF IInv

-----------------------------------------------------------------------------
(* The endpoint handlers.                                                   *)

\* A bounded counter that is raised below its bound stays within it.
LEMMA Raised ==
  ASSUME NEW c, NEW c1, NEW M \in Nat, c \in 0 .. M, c < M, c1 = c + 1
  PROVE  c1 \in 0 .. M
OBVIOUS

\* What the queue and the receivers' view say is about variables these handlers
\* leave alone.
LEMMA QueueStays ==
  ASSUME Queue, UNCHANGED delivery
  PROVE  Queue'
BY DEF Queue

LEMMA CountsStay ==
  ASSUME Counts, UNCHANGED <<delivery, worker, seen>>
  PROVE  Counts'
BY DEF Counts, TriesAgree, AnswersAgree, Live, Flying, Holds

\* A row of a batch is a claimed delivery's.
LEMMA RowTyped ==
  ASSUME TypeOK, NEW w \in Workers, NEW i \in 1 .. Len(worker[w].rows)
  PROVE  /\ worker[w].rows \in Seq(DueRow) /\ worker[w].rows[i] \in DueRow
         /\ worker[w].rows[i].id \in Ids
         /\ delivery[worker[w].rows[i].id] \in Delivery
         /\ delivery[worker[w].rows[i].id].endpoint \in Endpoints
<1>1. worker[w].rows \in Seq(DueRow)
  BY DEF TypeOK, Worker
<1>2. worker[w].rows[i] \in DueRow
  BY <1>1
<1>3. worker[w].rows[i].id \in Ids
  BY <1>2 DEF DueRow
<1>4. QED
  BY <1>1, <1>2, <1>3 DEF TypeOK, Delivery

\* The ticks spent are a natural, and fewer than the reaper waits.
LEMMA SpentNat ==
  ASSUME TypeOK, Shape, NEW w \in Workers, worker[w].phase # "idle"
  PROVE  Spent(w) \in Nat /\ Spent(w) <= Stuck
<1>1. worker[w].busy \in 0 .. AttemptMax /\ worker[w].phase \in {"read", "attempt", "record"}
  BY DEF TypeOK, Worker
<1>2. CASE worker[w].phase = "read"
  <2>1. AttemptMax <= CLAIM_BATCH * AttemptMax
    BY Constants, Scaled
  <2>2. QED
    BY <1>1, <1>2, <2>1, Constants DEF Spent
<1>3. CASE worker[w].phase # "read"
  <2>1. Len(worker[w].rows) \in 1 .. CLAIM_BATCH
    BY <1>1, <1>3 DEF Shape
  <2> DEFINE x == (CLAIM_BATCH - Len(worker[w].rows)) * AttemptMax + worker[w].busy
             y == CLAIM_BATCH * AttemptMax
  <2>2. x \in Nat /\ x <= y
    BY <1>1, <2>1, Share, Constants
  <2>3. Spent(w) = x /\ y <= Stuck
    BY <1>3, Constants DEF Spent
  <2>4. y \in Nat /\ Stuck \in Nat
    BY Constants
  <2> HIDE DEF x, y
  <2>5. QED
    BY <2>2, <2>3, <2>4
<1>4. QED
  BY <1>2, <1>3

\* Only a worker at work has rows.
LEMMA RowsHeldAtWork ==
  ASSUME TypeOK, Shape, NEW w \in Workers, NEW i \in 1 .. Len(worker[w].rows)
  PROVE  worker[w].phase \in {"attempt", "record"}
BY DEF TypeOK, Worker, Shape, Idle

\* The fan-outs stay as they are while used endpoints stay used, deleted ones
\* deleted, and the rows of the others live.
LEMMA FansStay ==
  ASSUME TypeOK, Fans, UNCHANGED <<event, fan>>,
         \A q \in Endpoints : endpoint[q].used => endpoint'[q].used,
         \A q \in Endpoints : endpoint[q].used /\ endpoint'[q].exists => endpoint[q].exists,
         \A d \in Ids : Live(d) /\ endpoint'[delivery[d].endpoint].exists =>
                          /\ Live(d)'
                          /\ delivery'[d].event = delivery[d].event
                          /\ delivery'[d].endpoint = delivery[d].endpoint
  PROVE  Fans'
<1>1. \A e \in Events : fan[e].owed \in SUBSET Endpoints
  BY DEF TypeOK, FanOut
<1>2. ASSUME NEW e \in Events, NEW q \in fan[e].owed \ fan[e].todo, endpoint'[q].exists
      PROVE  \E d \in Ids : /\ Live(d)' /\ delivery'[d].event = e
                             /\ delivery'[d].endpoint = q
  <2>1. q \in Endpoints /\ endpoint[q].used
    BY <1>1 DEF Fans
  <2>2. PICK d \in Ids : Live(d) /\ delivery[d].event = e /\ delivery[d].endpoint = q
    BY <2>1, <1>2 DEF Fans, FannedOut
  <2>3. QED
    BY <2>2, <1>2
<1>3. FannedOut'
  BY <1>2 DEF FannedOut
<1>4. QED
  BY <1>1, <1>3 DEF Fans

\* What the workers hold stays true while no count of a configuration changes
\* without its age starting again.
LEMMA HandsStay ==
  ASSUME TypeOK, Hands, UNCHANGED <<delivery, worker>>,
         \A p \in Endpoints :
           endpoint'[p].confAge = 0 \/ /\ endpoint'[p].conf = endpoint[p].conf
                                       /\ endpoint'[p].confAge = endpoint[p].confAge
  PROVE  Hands'
<1>1. Shape' /\ HeldOnce' /\ HeldFresh'
  BY DEF Hands, Shape, HeldOnce, HeldFresh, Holds, Spent, Live
<1>2. ASSUME NEW w \in Workers, NEW i \in 1 .. Len(worker[w].rows)
      PROVE  LET row == worker[w].rows[i]
                 p   == delivery[row.id].endpoint IN
             Live(row.id) => /\ row.attempt_count = delivery[row.id].attempts
                             /\ row.conf # endpoint'[p].conf => endpoint'[p].confAge <= Spent(w)
  <2> DEFINE row == worker[w].rows[i]
             p   == delivery[row.id].endpoint
  <2>1. row.id \in Ids /\ p \in Endpoints
    BY RowTyped
  <2>2. Spent(w) \in Nat
    BY SpentNat, RowsHeldAtWork DEF Hands
  <2>3. Live(row.id) => /\ row.attempt_count = delivery[row.id].attempts
                        /\ row.conf # endpoint[p].conf => endpoint[p].confAge <= Spent(w)
    BY DEF Hands, RowsCurrent
  <2>4. \/ endpoint'[p].confAge = 0
        \/ endpoint'[p].conf = endpoint[p].conf /\ endpoint'[p].confAge = endpoint[p].confAge
    BY <2>1
  <2> HIDE DEF row, p
  <2>5. Live(row.id) => /\ row.attempt_count = delivery[row.id].attempts
                        /\ row.conf # endpoint'[p].conf => endpoint'[p].confAge <= Spent(w)
    BY <2>2, <2>3, <2>4
  <2>6. QED
    BY <2>5 DEF row, p
<1>3. RowsCurrent'
  BY <1>2 DEF RowsCurrent, Spent, Live
<1>4. QED
  BY <1>1, <1>3 DEF Hands

LEMMA StoreInductive ==
  ASSUME IInv, NEW p \in Endpoints, endpoints_store(p)
  PROVE  IInv'
<1> USE DEF IInv
<1>0. PICK topics \in parse_events, active \in BOOLEAN :
        endpoint' = [endpoint EXCEPT ![p] =
          [exists |-> TRUE, used |-> TRUE, is_active |-> active,
           paused |-> FALSE, events |-> topics, conf |-> 0, confAge |-> Old]]
  BY DEF endpoints_store
<1>1. UNCHANGED <<event, delivery, fan, worker, seen, faults, edits>> /\ ~endpoint[p].used
  BY DEF endpoints_store
<1>2. TypeOK'
  BY <1>0, <1>1, Constants DEF TypeOK, Endpoint, parse_events
<1>3. Queue' /\ Counts'
  BY <1>1, QueueStays, CountsStay
<1>4. Configs'
  BY <1>0, <1>1 DEF Configs, TypeOK, Endpoint
<1>5. Fans'
  BY <1>0, <1>1 DEF Fans, FannedOut, Live, TypeOK, Endpoint
<1>6. Hands'
  BY <1>0, <1>1, HandsStay DEF Configs, TypeOK, Endpoint
<1>7. QED
  BY <1>2, <1>3, <1>4, <1>5, <1>6

\* A handler that rewrites a registered endpoint keeps the invariant if the
\* configuration's age starts again whenever its number grows.
LEMMA RewriteInductive ==
  ASSUME IInv, NEW p \in Endpoints, NEW row \in Endpoint,
         endpoint[p].exists, row.used, edits <= edits', edits' \in 0 .. MaxEdits,
         endpoint' = [endpoint EXCEPT ![p] = row],
         UNCHANGED <<event, delivery, fan, worker, seen, faults>>,
         \/ row.conf = endpoint[p].conf + 1 /\ row.confAge = 0 /\ edits' = edits + 1
         \/ row.conf = endpoint[p].conf /\ row.confAge = endpoint[p].confAge
  PROVE  IInv'
<1> USE DEF IInv
<1>1. TypeOK'
  BY DEF TypeOK
<1>2. \A q \in Endpoints : endpoint'[q] = IF q = p THEN row ELSE endpoint[q]
  BY DEF TypeOK
<1>3. edits \in Int /\ edits' \in Int /\ \A q \in Endpoints : endpoint[q].conf \in Int
  BY DEF TypeOK, Endpoint
<1>4. Queue' /\ Counts'
  BY QueueStays, CountsStay
<1>5. Configs'
  BY <1>2, <1>3 DEF Configs
<1>6. Fans'
  <2>1. endpoint[p].used
    BY DEF Configs
  <2>2. QED
    BY <1>2, <2>1 DEF Fans, FannedOut, Live
<1>7. Hands'
  BY <1>2, HandsStay
<1>8. QED
  BY <1>1, <1>4, <1>5, <1>6, <1>7

\* An edit is counted within its bound.
LEMMA EditCounted ==
  ASSUME IInv, Edit
  PROVE  /\ edits' \in 0 .. MaxEdits /\ edits <= edits'
         /\ \A p \in Endpoints : endpoint[p].conf + 1 \in 0 .. MaxEdits
<1>1. edits \in 0 .. MaxEdits /\ edits < MaxEdits /\ edits' = edits + 1
  BY DEF Edit, IInv, TypeOK
<1>2. \A p \in Endpoints : endpoint[p].conf \in Nat /\ endpoint[p].conf <= edits
  BY DEF IInv, TypeOK, Configs, Endpoint
<1>3. QED
  BY <1>1, <1>2, Constants

\* A new list of events, a switch or a new url: the age starts again with the url.
LEMMA UpdateInductive ==
  ASSUME IInv, NEW p \in Endpoints, endpoints_update(p) \/ endpoints_rotate_secret(p)
  PROVE  IInv'
<1>1. /\ UNCHANGED <<event, delivery, fan, worker, seen, faults>>
      /\ endpoint[p].exists /\ endpoint[p].used /\ endpoint[p] \in Endpoint /\ Edit
  BY DEF endpoints_update, endpoints_rotate_secret, Edit, IInv, TypeOK, Configs
<1>2. /\ edits' \in 0 .. MaxEdits /\ edits <= edits' /\ edits' = edits + 1
      /\ endpoint[p].conf + 1 \in 0 .. MaxEdits
  BY <1>1, EditCounted DEF Edit
<1>3. CASE endpoint' = [endpoint EXCEPT ![p] = Reconfigured(@)]
  <2> DEFINE row == Reconfigured(endpoint[p])
  <2>1. /\ row \in Endpoint /\ row.used
        /\ row.conf = endpoint[p].conf + 1 /\ row.confAge = 0
    <3>1. 0 \in 0 .. Old /\ endpoint[p].conf + 1 \in 0 .. MaxEdits
      BY <1>2, Constants
    <3>2. endpoint[p] \in [exists : BOOLEAN, used : BOOLEAN, is_active : BOOLEAN,
                           paused : BOOLEAN, events : SUBSET Topics,
                           conf : 0 .. MaxEdits, confAge : 0 .. Old]
      BY <1>1 DEF Endpoint
    <3>3. row = [[endpoint[p] EXCEPT !.conf = endpoint[p].conf + 1] EXCEPT !.confAge = 0]
      BY DEF Reconfigured
    <3> DEFINE moved == [endpoint[p] EXCEPT !.conf = endpoint[p].conf + 1]
    <3>4. moved \in Endpoint /\ moved.used /\ moved.conf = endpoint[p].conf + 1
      BY <1>1, <3>1, <3>2 DEF Endpoint
    <3> HIDE DEF moved, row
    <3>5. row = [moved EXCEPT !.confAge = 0]
      BY <3>3 DEF moved
    <3>6. QED
      BY <3>1, <3>4, <3>5 DEF Endpoint
  <2>2. endpoint' = [endpoint EXCEPT ![p] = row]
    BY <1>3
  <2> HIDE DEF row
  <2>3. QED
    BY <1>1, <1>2, <2>1, <2>2, RewriteInductive
<1>4. CASE \E topics \in parse_events : endpoint' = [endpoint EXCEPT ![p].events = topics]
  <2>1. PICK topics \in parse_events : endpoint' = [endpoint EXCEPT ![p].events = topics]
    BY <1>4
  <2> DEFINE row == [endpoint[p] EXCEPT !.events = topics]
  <2>2. /\ row \in Endpoint /\ row.used
        /\ row.conf = endpoint[p].conf /\ row.confAge = endpoint[p].confAge
    BY <1>1 DEF Endpoint, parse_events
  <2>3. endpoint' = [endpoint EXCEPT ![p] = row]
    BY <2>1
  <2> HIDE DEF row
  <2>4. QED
    BY <1>1, <1>2, <2>2, <2>3, RewriteInductive
<1>5. CASE \E active \in BOOLEAN : endpoint' = [endpoint EXCEPT ![p].is_active = active]
  <2>1. PICK active \in BOOLEAN : endpoint' = [endpoint EXCEPT ![p].is_active = active]
    BY <1>5
  <2> DEFINE row == [endpoint[p] EXCEPT !.is_active = active]
  <2>2. /\ row \in Endpoint /\ row.used
        /\ row.conf = endpoint[p].conf /\ row.confAge = endpoint[p].confAge
    BY <1>1 DEF Endpoint
  <2>3. endpoint' = [endpoint EXCEPT ![p] = row]
    BY <2>1
  <2> HIDE DEF row
  <2>4. QED
    BY <1>1, <1>2, <2>2, <2>3, RewriteInductive
<1>6. QED
  BY <1>3, <1>4, <1>5 DEF endpoints_update, endpoints_rotate_secret

LEMMA PauseInductive ==
  ASSUME IInv, NEW p \in Endpoints, endpoints_pause(p) \/ endpoints_resume(p)
  PROVE  IInv'
<1>1. /\ UNCHANGED <<event, delivery, fan, worker, seen, faults>>
      /\ endpoint[p].exists /\ endpoint[p].used /\ endpoint[p] \in Endpoint
  BY DEF endpoints_pause, endpoints_resume, Edit, IInv, TypeOK, Configs
<1>2. edits' \in 0 .. MaxEdits /\ edits <= edits'
  BY EditCounted DEF endpoints_pause, endpoints_resume, IInv, TypeOK
<1>3. PICK flag \in BOOLEAN : endpoint' = [endpoint EXCEPT ![p].paused = flag]
  BY DEF endpoints_pause, endpoints_resume
<1> DEFINE row == [endpoint[p] EXCEPT !.paused = flag]
<1>4. /\ row \in Endpoint /\ row.used
      /\ row.conf = endpoint[p].conf /\ row.confAge = endpoint[p].confAge
  BY <1>1 DEF Endpoint
<1>5. endpoint' = [endpoint EXCEPT ![p] = row]
  BY <1>3
<1> HIDE DEF row
<1>6. QED
  BY <1>1, <1>2, <1>4, <1>5, RewriteInductive

\* The endpoint's rows are gone for whoever holds them.
LEMMA DestroyInductive ==
  ASSUME IInv, NEW p \in Endpoints, endpoints_destroy(p)
  PROVE  IInv'
<1> USE DEF IInv
<1> DEFINE Hit(d) == Live(d) /\ delivery[d].endpoint = p
           gone   == [NoRow EXCEPT !.status = "gone"]
<1>1. /\ UNCHANGED <<event, fan, worker, seen, faults>> /\ endpoint[p].exists
      /\ edits < MaxEdits /\ edits' = edits + 1
      /\ endpoint' = [endpoint EXCEPT ![p] = [Unregistered EXCEPT !.used = TRUE]]
      /\ delivery' = [d \in Ids |-> IF Hit(d) THEN gone ELSE delivery[d]]
  BY DEF endpoints_destroy, Edit
<1>2. edits \in 0 .. MaxEdits /\ edits' \in 0 .. MaxEdits /\ edits <= edits'
  BY <1>1, Raised, Constants DEF TypeOK
<1>3. gone \in Delivery /\ gone.status = "gone"
  BY SampleRows DEF Delivery, Statuses
<1>4. \A d \in Ids : \/ delivery'[d] = delivery[d]
                     \/ Live(d) /\ delivery[d].endpoint = p /\ delivery'[d].status = "gone"
  BY <1>1, <1>3
<1> DEFINE row == [Unregistered EXCEPT !.used = TRUE]
<1>5. /\ row \in Endpoint /\ row.used /\ ~row.exists /\ row.conf = 0
      /\ endpoint' = [endpoint EXCEPT ![p] = row]
  BY <1>1, SampleRows DEF Endpoint
<1> HIDE DEF row, gone, Hit
<1>6. \A q \in Endpoints : endpoint'[q] = IF q = p THEN row ELSE endpoint[q]
  BY <1>5 DEF TypeOK
<1>7. TypeOK'
  BY <1>1, <1>2, <1>3, <1>5 DEF TypeOK
<1>8. Queue'
  <2>1. \A d \in Ids : delivery'[d].status # "none" <=> delivery[d].status # "none"
    BY <1>4 DEF Live
  <2>2. \A d \in Ids : delivery'[d].status \in {"pending", "delivering"} =>
                         delivery'[d] = delivery[d]
    BY <1>4
  <2>3. QED
    BY <2>1, <2>2 DEF Queue
<1>9. Configs'
  <2>1. \A q \in Endpoints : endpoint[q].conf \in Int
    BY DEF TypeOK, Endpoint
  <2>2. QED
    BY <1>2, <1>5, <1>6, <2>1 DEF Configs
<1>10. Fans'
  <2>1. \A q \in Endpoints : (endpoint'[q].exists => q # p /\ endpoint[q].exists)
                             /\ (endpoint[q].used => endpoint'[q].used)
    BY <1>5, <1>6
  <2>2. \A d \in Ids : Live(d) /\ delivery[d].endpoint # p =>
                         delivery'[d] = delivery[d]
    BY <1>4
  <2>3. QED
    BY <1>1, <2>1, <2>2, FansStay DEF Live
<1>11. Hands'
  <2>1. \A d \in Ids : Live(d)' => delivery'[d] = delivery[d] /\ Live(d) /\ delivery[d].endpoint # p
    <3>1. \A d \in Ids : Hit(d) => delivery'[d].status = "gone"
      BY <1>1, <1>3
    <3>2. \A d \in Ids : Live(d)' => ~Hit(d) /\ delivery'[d] = delivery[d]
      BY <1>4, <3>1 DEF Live
    <3>3. QED
      BY <3>2 DEF Live, Hit
  <2>2. Shape' /\ HeldOnce'
    BY <1>1 DEF Hands, Shape, HeldOnce, Holds
  <2>3. HeldFresh'
    BY <1>1, <1>4, <2>1 DEF Hands, HeldFresh, Holds, Spent
  <2>4. ASSUME NEW w \in Workers, NEW i \in 1 .. Len(worker[w].rows)
        PROVE  LET r == worker[w].rows[i]
                   q == delivery'[r.id].endpoint IN
               delivery'[r.id].status \notin {"none", "gone"} =>
                 /\ r.attempt_count = delivery'[r.id].attempts
                 /\ r.conf # endpoint'[q].conf => endpoint'[q].confAge <= Spent(w)
    <3> DEFINE r == worker[w].rows[i]
               q == delivery[r.id].endpoint
    <3>1. r.id \in Ids /\ q \in Endpoints
      BY RowTyped
    <3>2. Live(r.id) => /\ r.attempt_count = delivery[r.id].attempts
                        /\ r.conf # endpoint[q].conf => endpoint[q].confAge <= Spent(w)
      BY DEF Hands, RowsCurrent
    <3>3. delivery'[r.id].status \notin {"none", "gone"} =>
            delivery'[r.id] = delivery[r.id] /\ Live(r.id) /\ endpoint'[q] = endpoint[q]
      BY <1>6, <2>1, <3>1 DEF Live
    <3>4. QED
      BY <3>2, <3>3
  <2>5. RowsCurrent'
    <3>1. UNCHANGED worker
      BY <1>1
    <3>2. QED
      BY <3>1, <2>4 DEF RowsCurrent, Spent, Live
  <2>6. QED
    BY <2>2, <2>3, <2>5 DEF Hands
<1>12. Counts'
  <2>1. \A d \in Ids : seen[d].acks \in Nat /\ seen[d].blind \in Nat
    BY DEF TypeOK, Sent
  <2>2. ASSUME NEW d \in Ids
        PROVE  /\ delivery'[d].status = "none" => delivery[d].status = "none"
               /\ Live(d)' => Live(d) /\ delivery'[d].attempts = delivery[d].attempts
               /\ delivery'[d].status = delivery[d].status \/ delivery'[d].status = "gone"
    BY <1>4 DEF Live
  <2>3. \A d \in Ids : TriesAgree(d)'
    BY <1>1, <2>2 DEF Counts, TriesAgree, Flying
  <2>4. \A d \in Ids : AnswersAgree(d)'
    BY <1>1, <2>1, <2>2 DEF Counts, AnswersAgree, Flying, Holds
  <2>5. QED
    BY <1>1, <2>2, <2>3, <2>4 DEF Counts
<1>13. QED
  BY <1>7, <1>8, <1>9, <1>10, <1>11, <1>12

-----------------------------------------------------------------------------
(* Events and their fan-outs.                                               *)

\* A step of one fan-out that writes no row keeps the invariant if what it still
\* owes is registered and nothing owed is dropped from what is left to do.
LEMMA FanMoves ==
  ASSUME IInv, NEW e \in Events, NEW f \in FanOut, NEW t \in Topics \cup {"none"},
         fan' = [fan EXCEPT ![e] = f], event' = [event EXCEPT ![e] = t],
         t = "none" => f.phase = "idle",
         UNCHANGED <<endpoint, delivery, worker, seen>>,
         faults' \in 0 .. MaxFaults, edits' \in 0 .. MaxEdits, edits <= edits',
         f.phase # "create" => f.todo = {},
         f.todo \subseteq f.owed, \A q \in f.owed : endpoint[q].used,
         f.owed \ f.todo \subseteq fan[e].owed \ fan[e].todo
  PROVE  IInv'
<1> USE DEF IInv
<1>1. TypeOK'
  BY DEF TypeOK
<1>2. Queue' /\ Counts' /\ Hands'
  BY QueueStays, CountsStay, HandsStay
<1>3. Configs'
  <2>1. edits \in Int /\ edits' \in Int /\ \A q \in Endpoints : endpoint[q].conf \in Int
    BY DEF TypeOK, Endpoint
  <2>2. QED
    BY <2>1 DEF Configs
<1>4. \A v \in Events : /\ fan'[v] = IF v = e THEN f ELSE fan[v]
                        /\ event'[v] = IF v = e THEN t ELSE event[v]
  BY DEF TypeOK
<1>5. \A v \in Events : fan'[v].owed \ fan'[v].todo \subseteq fan[v].owed \ fan[v].todo
  BY <1>4
<1>6. FannedOut'
  BY <1>5 DEF Fans, FannedOut, Live
<1>7. Fans'
  BY <1>4, <1>6 DEF Fans
<1>8. QED
  BY <1>1, <1>2, <1>3, <1>7

\* A new event, or the replay of one, starts a fan-out where none runs.
LEMMA EmitInductive ==
  ASSUME IInv, NEW e \in Events, emit_event(e) \/ events_replay(e)
  PROVE  IInv'
<1> DEFINE f == [fan[e] EXCEPT !.phase = "read"]
<1>1. /\ fan' = [fan EXCEPT ![e] = f] /\ fan[e].phase = "idle" /\ fan[e].todo = {}
      /\ UNCHANGED <<endpoint, delivery, worker, seen, faults>>
  BY DEF emit_event, events_replay, IInv, Fans
<1>2. edits' \in 0 .. MaxEdits /\ edits <= edits' /\ faults' \in 0 .. MaxFaults
  BY Raised, Constants DEF emit_event, events_replay, IInv, TypeOK
<1>3. PICK t \in Topics : event' = [event EXCEPT ![e] = t]
  <2>1. CASE emit_event(e)
    BY <2>1 DEF emit_event
  <2>2. CASE events_replay(e)
    <3>1. event[e] \in Topics /\ event' = event
      BY <2>2 DEF events_replay, IInv, TypeOK
    <3>2. event' = [event EXCEPT ![e] = event[e]]
      BY <3>1 DEF IInv, TypeOK
    <3>3. QED
      BY <3>1, <3>2
  <2>3. QED
    BY <2>1, <2>2
<1>4. /\ f \in FanOut /\ f.phase = "read" /\ f.todo = {} /\ f.owed = fan[e].owed
      /\ \A q \in f.owed : endpoint[q].used
  BY <1>1 DEF IInv, TypeOK, FanOut, Fans
<1> HIDE DEF f
<1>5. t # "none"
  BY SetsAssumption
<1>6. QED
  BY <1>1, <1>2, <1>3, <1>4, <1>5, FanMoves

LEMMA TestSendInductive ==
  ASSUME IInv, NEW e \in Events, NEW p \in Endpoints, endpoints_test_send(e, p)
  PROVE  IInv'
<1> DEFINE f == [phase |-> "create", todo |-> {p}, owed |-> {p}]
<1>1. fan' = [fan EXCEPT ![e] = f] /\ UNCHANGED <<endpoint, delivery, worker, seen, faults, edits>>
  BY DEF endpoints_test_send
<1>2. PICK t \in Topics : p \in Subscribed(t) /\ event' = [event EXCEPT ![e] = t]
  BY DEF endpoints_test_send
<1>3. endpoint[p].used
  BY <1>2 DEF Subscribed, Deliverable, IInv, Configs
<1>4. /\ f \in FanOut /\ f.phase = "create" /\ f.todo = {p} /\ f.owed = {p}
  BY DEF FanOut
<1>5. t # "none" /\ edits' \in 0 .. MaxEdits /\ edits <= edits' /\ faults' \in 0 .. MaxFaults
  BY <1>1, SetsAssumption, Constants DEF IInv, TypeOK
<1> HIDE DEF f
<1>6. QED
  BY <1>1, <1>2, <1>3, <1>4, <1>5, FanMoves

\* The endpoints read are owed a row from now on.
LEMMA FanReadInductive ==
  ASSUME IInv, NEW e \in Events, fan_out_read(e)
  PROVE  IInv'
<1> DEFINE targets == Subscribed(event[e])
           f == [phase |-> IF targets = {} THEN "idle" ELSE "create",
                 todo  |-> targets, owed |-> fan[e].owed \cup targets]
<1>1. /\ fan' = [fan EXCEPT ![e] = f] /\ fan[e].phase = "read" /\ fan[e].todo = {}
      /\ UNCHANGED <<endpoint, event, delivery, worker, seen, faults, edits>>
  BY DEF fan_out_read, IInv, Fans
<1>2. targets \in SUBSET Endpoints /\ \A q \in targets : endpoint[q].used
  BY DEF Subscribed, Deliverable, IInv, Configs
<1>3. fan[e].owed \in SUBSET Endpoints /\ event[e] \in Topics /\ event' = [event EXCEPT ![e] = event[e]]
  BY <1>1 DEF IInv, TypeOK, FanOut, Fans
<1>4. /\ f \in FanOut /\ (f.phase # "create" => f.todo = {}) /\ f.todo = targets
      /\ f.owed = fan[e].owed \cup targets
  BY <1>2, <1>3 DEF FanOut
<1>5. \A q \in f.owed : endpoint[q].used
  BY <1>2, <1>4 DEF IInv, Fans
<1>6. event[e] # "none" /\ edits' \in 0 .. MaxEdits /\ edits <= edits' /\ faults' \in 0 .. MaxFaults
  BY <1>1, <1>3, SetsAssumption, Constants DEF IInv, TypeOK
<1> HIDE DEF f, targets
<1>7. f.owed \ f.todo \subseteq fan[e].owed \ fan[e].todo /\ f.todo \subseteq f.owed
  BY <1>1, <1>4
<1>8. QED
  BY <1>1, <1>3, <1>4, <1>5, <1>6, <1>7, FanMoves

\* A fan-out that ends early owes what it had left to do no more.
LEMMA FanEndsInductive ==
  ASSUME IInv, NEW e \in Events,
         fan' = [fan EXCEPT ![e] = [phase |-> "idle", todo |-> {}, owed |-> @.owed \ @.todo]],
         UNCHANGED <<endpoint, event, delivery, worker, seen, edits>>,
         faults' \in 0 .. MaxFaults
  PROVE  IInv'
<1> DEFINE f == [phase |-> "idle", todo |-> {}, owed |-> fan[e].owed \ fan[e].todo]
<1>1. fan[e].owed \in SUBSET Endpoints /\ event[e] \in Topics \cup {"none"}
      /\ event' = [event EXCEPT ![e] = event[e]]
  BY DEF IInv, TypeOK, FanOut
<1>2. fan' = [fan EXCEPT ![e] = f]
  OBVIOUS
<1>3. /\ f \in FanOut /\ f.phase = "idle" /\ f.todo = {}
      /\ f.owed = fan[e].owed \ fan[e].todo
  BY <1>1 DEF FanOut
<1>4. edits' \in 0 .. MaxEdits /\ edits <= edits'
  BY Constants DEF IInv, TypeOK
<1>5. \A q \in f.owed : endpoint[q].used
  BY <1>3 DEF IInv, Fans
<1> HIDE DEF f
<1>6. QED
  BY <1>1, <1>2, <1>3, <1>4, <1>5, FanMoves

\* What is in flight is held.
LEMMA FlyingHeld ==
  ASSUME TypeOK, Shape, NEW w \in Workers, NEW d, Flying(w, d)
  PROVE  Holds(w, d) /\ Len(worker[w].rows) \in 1 .. CLAIM_BATCH
<1>1. worker[w].rows \in Seq(DueRow) /\ Len(worker[w].rows) \in 1 .. CLAIM_BATCH
  BY DEF TypeOK, Worker, Shape, Flying
<1>2. Head(worker[w].rows) = worker[w].rows[1] /\ 1 \in 1 .. Len(worker[w].rows)
  BY <1>1, Constants
<1>3. QED
  BY <1>1, <1>2 DEF Holds, Flying

\* A new row takes the next id, which nobody holds and nothing was sent for.
LEMMA CreateKeeps ==
  ASSUME IInv, NEW e \in Events, NEW p \in Endpoints, NextId \in Ids, create_delivery(e, p),
         UNCHANGED <<endpoint, event, worker, seen, faults, edits>>
  PROVE  /\ fan' \in [Events -> FanOut] => TypeOK'
         /\ Queue' /\ Configs' /\ Hands' /\ Counts'
         /\ \A d \in Ids : Live(d) => d # NextId /\ delivery'[d] = delivery[d]
         /\ delivery'[NextId].status = "pending"
         /\ delivery'[NextId].event = e /\ delivery'[NextId].endpoint = p
<1> USE DEF IInv
<1> DEFINE id  == NextId
           new == [NoRow EXCEPT !.status = "pending", !.event = e, !.endpoint = p]
<1>1. id \in Ids /\ delivery' = [delivery EXCEPT ![id] = new]
  BY DEF create_delivery
<1>2. /\ new \in Delivery /\ new.status = "pending" /\ new.attempts = 0
      /\ new.event = e /\ new.endpoint = p
  BY SampleRows DEF Delivery, Statuses
<1>3. PICK n \in 0 .. MaxDeliveries : \A d \in Ids : delivery[d].status # "none" <=> d <= n
  BY DEF Queue
<1>4. id = n + 1 /\ delivery[id].status = "none"
  BY <1>1, <1>3, NextIdIsFree
<1> HIDE DEF id, new
<1>5. \A d \in Ids : delivery'[d] = IF d = id THEN new ELSE delivery[d]
  BY <1>1 DEF TypeOK
<1>6. \A w \in Workers : ~Holds(w, id) /\ ~Flying(w, id)
  BY <1>1, <1>4, FlyingHeld DEF Hands, HeldFresh
<1>7. fan' \in [Events -> FanOut] => TypeOK'
  BY <1>1, <1>2 DEF TypeOK
<1>8. Queue'
  <2>1. n + 1 \in 0 .. MaxDeliveries
    BY <1>1, <1>4, Constants DEF Ids
  <2>2. \A d \in Ids : delivery'[d].status # "none" <=> d <= n + 1
    BY <1>2, <1>3, <1>4, <1>5, Constants DEF Ids
  <2>3. \A d \in Ids : delivery'[d].status \in {"pending", "delivering"} =>
                         delivery'[d].attempts < max_attempts
    BY <1>2, <1>5, Constants DEF Queue
  <2>4. QED
    BY <2>1, <2>2, <2>3 DEF Queue
<1>9. Configs'
  BY DEF Configs
<1>10. Hands'
  <2>1. \A w \in Workers, d \in Ids : Holds(w, d) => delivery'[d] = delivery[d]
    BY <1>5, <1>6
  <2>2. Shape' /\ HeldOnce' /\ HeldFresh'
    BY <2>1 DEF Hands, Shape, HeldOnce, HeldFresh, Holds, Spent, Live
  <2>3. ASSUME NEW w \in Workers, NEW i \in 1 .. Len(worker[w].rows)
        PROVE  delivery'[worker[w].rows[i].id] = delivery[worker[w].rows[i].id]
    BY <2>1, RowTyped DEF Holds
  <2>4. ASSUME NEW w \in Workers, NEW i \in 1 .. Len(worker[w].rows)
        PROVE  LET r == worker[w].rows[i]
                   q == delivery'[r.id].endpoint IN
               delivery'[r.id].status \notin {"none", "gone"} =>
                 /\ r.attempt_count = delivery'[r.id].attempts
                 /\ r.conf # endpoint[q].conf => endpoint[q].confAge <= Spent(w)
    BY <2>3 DEF Hands, RowsCurrent, Live
  <2>5. RowsCurrent'
    BY <2>4 DEF RowsCurrent, Spent, Live
  <2>6. QED
    BY <2>2, <2>5 DEF Hands
<1>11. Counts'
  <2>1. seen[id] = [tries |-> 0, acks |-> 0, lost |-> 0, blind |-> 0]
    BY <1>1, <1>4 DEF Counts
  <2>2. ASSUME NEW d \in Ids
        PROVE  TriesAgree(d)'
    <3>1. CASE d = id
      BY <3>1, <1>2, <1>5, <1>6, <2>1 DEF TriesAgree, Flying, Live
    <3>2. CASE d # id
      BY <3>2, <1>5 DEF Counts, TriesAgree, Flying, Live
    <3>3. QED
      BY <3>1, <3>2
  <2>3. ASSUME NEW d \in Ids
        PROVE  AnswersAgree(d)'
    <3>1. CASE d = id
      BY <3>1, <1>2, <1>5, <1>6, <2>1 DEF AnswersAgree, Flying, Holds
    <3>2. CASE d # id
      BY <3>2, <1>5 DEF Counts, AnswersAgree, Flying, Holds
    <3>3. QED
      BY <3>1, <3>2
  <2>4. QED
    BY <1>2, <1>5, <2>2, <2>3 DEF Counts
<1>12. \A d \in Ids : Live(d) => d # id /\ delivery'[d] = delivery[d]
  BY <1>4, <1>5 DEF Live
<1>13. delivery'[id].status = "pending" /\ delivery'[id].event = e /\ delivery'[id].endpoint = p
  BY <1>1, <1>2, <1>5
<1>14. QED
  BY <1>7, <1>8, <1>9, <1>10, <1>11, <1>12, <1>13 DEF id

\* The endpoint served leaves the list with its row written; one that was deleted
\* ends the fan-out.
LEMMA FanCreateInductive ==
  ASSUME IInv, NEW e \in Events, fan_out_create(e)
  PROVE  IInv'
<1>1. PICK p \in fan[e].todo :
        IF endpoint[p].exists
        THEN /\ NextId \in Ids
             /\ create_delivery(e, p)
             /\ fan' = [fan EXCEPT ![e].todo = @ \ {p},
                                   ![e].phase = IF fan[e].todo = {p} THEN "idle" ELSE @]
        ELSE /\ fan' = [fan EXCEPT ![e] = [phase |-> "idle", todo |-> {}, owed |-> @.owed \ @.todo]]
             /\ UNCHANGED delivery
  BY DEF fan_out_create
<1>2. fan[e].phase = "create" /\ UNCHANGED <<endpoint, event, worker, seen, faults, edits>>
  BY DEF fan_out_create
<1>3. fan[e] \in FanOut /\ p \in Endpoints
  BY <1>1 DEF IInv, TypeOK, FanOut
<1>4. CASE ~endpoint[p].exists
  <2>1. faults' \in 0 .. MaxFaults
    BY <1>2 DEF IInv, TypeOK
  <2>2. QED
    BY <1>1, <1>2, <1>4, <2>1, FanEndsInductive
<1>5. CASE endpoint[p].exists
  <2> DEFINE served == [fan[e] EXCEPT !.todo = fan[e].todo \ {p}]
             f == [served EXCEPT !.phase = IF fan[e].todo = {p} THEN "idle" ELSE "create"]
  <2>1. /\ served \in FanOut /\ served.phase = "create"
        /\ served.todo = fan[e].todo \ {p} /\ served.owed = fan[e].owed
    BY <1>2, <1>3 DEF FanOut
  <2>2. fan' = [fan EXCEPT ![e] = f]
    BY <1>1, <1>2, <1>5 DEF IInv, TypeOK
  <2>3. /\ f \in FanOut /\ (f.phase # "create" => f.todo = {})
        /\ f.todo = fan[e].todo \ {p} /\ f.owed = fan[e].owed
    <3> HIDE DEF served
    <3>1. QED
      BY <1>1, <2>1 DEF FanOut
  <2> HIDE DEF f, served
  <2>5. fan' \in [Events -> FanOut] /\ \A v \in Events : fan'[v] = IF v = e THEN f ELSE fan[v]
    BY <2>2, <2>3 DEF IInv, TypeOK
  <2>6. /\ TypeOK' /\ Queue' /\ Configs' /\ Hands' /\ Counts'
        /\ \A d \in Ids : Live(d) => d # NextId /\ delivery'[d] = delivery[d]
        /\ NextId \in Ids /\ delivery'[NextId].status = "pending"
        /\ delivery'[NextId].event = e /\ delivery'[NextId].endpoint = p
    BY <1>1, <1>2, <1>3, <1>5, <2>5, CreateKeeps
  <2>7. ASSUME NEW v \in Events, NEW q \in fan'[v].owed \ fan'[v].todo, endpoint[q].exists
        PROVE  \E d \in Ids : /\ delivery'[d].status \notin {"none", "gone"}
                              /\ delivery'[d].event = v /\ delivery'[d].endpoint = q
    <3>1. CASE v = e /\ q = p
      BY <3>1, <2>6
    <3>2. CASE ~(v = e /\ q = p)
      <4>1. q \in fan[v].owed \ fan[v].todo
        BY <3>2, <2>3, <2>5, <2>7
      <4>2. PICK d \in Ids : Live(d) /\ delivery[d].event = v /\ delivery[d].endpoint = q
        BY <4>1, <2>7 DEF IInv, Fans, FannedOut
      <4>3. QED
        BY <4>2, <2>6 DEF Live
    <3>3. QED
      BY <3>1, <3>2
  <2>8. FannedOut'
    BY <1>2, <2>7 DEF FannedOut, Live
  <2>9. Fans'
    BY <1>2, <2>3, <2>5, <2>8 DEF IInv, Fans
  <2>10. QED
    BY <2>6, <2>9 DEF IInv
<1>6. QED
  BY <1>4, <1>5

LEMMA FanFailsInductive ==
  ASSUME IInv, NEW e \in Events, fan_out_fails(e)
  PROVE  IInv'
<1>1. faults' \in 0 .. MaxFaults
  BY Raised, Constants DEF fan_out_fails, IInv, TypeOK
<1>2. QED
  BY <1>1, FanEndsInductive DEF fan_out_fails

\* A replay copies the row's event and endpoint.
LEMMA ReplayInductive ==
  ASSUME IInv, NEW c \in Ids, deliveries_replay(c)
  PROVE  IInv'
<1>1. delivery[c].event \in Events /\ delivery[c].endpoint \in Endpoints
  BY DEF IInv, TypeOK, Delivery
<1>2. UNCHANGED <<endpoint, event, fan, worker, seen, faults, edits>> /\ fan' \in [Events -> FanOut]
  BY DEF deliveries_replay, IInv, TypeOK
<1>3. /\ TypeOK' /\ Queue' /\ Configs' /\ Hands' /\ Counts'
      /\ \A d \in Ids : Live(d) => delivery'[d] = delivery[d]
  BY <1>1, <1>2, CreateKeeps DEF deliveries_replay
<1>4. Fans'
  BY <1>2, <1>3, FansStay DEF IInv, Live
<1>5. QED
  BY <1>3, <1>4 DEF IInv

-----------------------------------------------------------------------------
(* The delivery worker.                                                     *)

\* What the reaper and the claim do to a row.
LEMMA ClaimedRows ==
  ASSUME IInv, NEW w \in Workers, reap_and_claim(w),
         NEW batch, batch = Claimed({d \in Ids : Due(Reaped[d])})
  PROVE  /\ batch \in SUBSET Ids /\ Cardinality(batch) <= CLAIM_BATCH
         /\ delivery' \in [Ids -> Delivery]
         /\ \A d \in Ids :
              /\ delivery'[d].attempts = delivery[d].attempts
              /\ delivery'[d].event = delivery[d].event
              /\ delivery'[d].endpoint = delivery[d].endpoint
              /\ IF delivery[d].status \in {"pending", "delivering"}
                 THEN delivery'[d].status \in {"pending", "delivering"}
                 ELSE delivery'[d] = delivery[d] /\ d \notin batch
              /\ d \in batch => delivery'[d].status = "delivering" /\ delivery'[d].age = 0
         /\ \A v \in Workers, d \in Ids :
              Holds(v, d) => delivery'[d] = delivery[d] /\ d \notin batch
<1> DEFINE due == {d \in Ids : Due(Reaped[d])}
<1>1. /\ batch \in SUBSET Ids /\ Cardinality(batch) <= CLAIM_BATCH
      /\ \A d \in batch : Due(Reaped[d])
  BY ClaimBounded
<1>2. delivery' = [d \in Ids |->
        IF d \in batch THEN [Reaped[d] EXCEPT !.status = "delivering", !.age = 0]
                       ELSE Reaped[d]]
  BY DEF reap_and_claim
<1>3. \A d \in Ids : Reaped[d] = IF Stale(delivery[d])
                                 THEN [delivery[d] EXCEPT !.status = "pending", !.age = 0]
                                 ELSE delivery[d]
  BY DEF Reaped
<1>4. ASSUME NEW d \in Ids
      PROVE  /\ Reaped[d] \in Delivery
             /\ Reaped[d].attempts = delivery[d].attempts
             /\ Reaped[d].event = delivery[d].event
             /\ Reaped[d].endpoint = delivery[d].endpoint
             /\ IF delivery[d].status \in {"pending", "delivering"}
                THEN Reaped[d].status \in {"pending", "delivering"}
                ELSE Reaped[d] = delivery[d]
  <2>1. delivery[d] \in Delivery /\ 0 \in 0 .. Old
    BY Constants DEF IInv, TypeOK
  <2>2. QED
    BY <1>3, <2>1 DEF Stale, Delivery, Statuses
<1>5. ASSUME NEW d \in Ids, d \in batch
      PROVE  /\ delivery'[d] \in Delivery
             /\ delivery'[d].attempts = delivery[d].attempts
             /\ delivery'[d].event = delivery[d].event
             /\ delivery'[d].endpoint = delivery[d].endpoint
             /\ delivery'[d].status = "delivering" /\ delivery'[d].age = 0
             /\ delivery[d].status \in {"pending", "delivering"}
  <2> DEFINE r == Reaped[d]
  <2>1. /\ r \in Delivery /\ 0 \in 0 .. Old
        /\ r.attempts = delivery[d].attempts /\ r.event = delivery[d].event
        /\ r.endpoint = delivery[d].endpoint
        /\ IF delivery[d].status \in {"pending", "delivering"}
           THEN r.status \in {"pending", "delivering"} ELSE r = delivery[d]
    BY <1>4, Constants
  <2>2. r.status = "pending"
    BY <1>1, <1>5 DEF Due
  <2>3. delivery'[d] = [r EXCEPT !.status = "delivering", !.age = 0]
    BY <1>2, <1>5
  <2> HIDE DEF r
  <2>4. QED
    BY <2>1, <2>2, <2>3 DEF Delivery, Statuses
<1>6. ASSUME NEW d \in Ids, d \notin batch
      PROVE  delivery'[d] = Reaped[d]
  BY <1>2, <1>6
<1>7. ASSUME NEW v \in Workers, NEW d \in Ids, Holds(v, d)
      PROVE  delivery'[d] = delivery[d] /\ d \notin batch
  <2>1. v \in Workers /\ worker[v].phase # "idle"
    BY <1>7 DEF IInv, Hands, Shape, Holds, Idle
  <2>2. /\ delivery[d].status \in {"delivering", "gone"}
        /\ delivery[d].status = "delivering" => delivery[d].age <= Spent(v)
    BY <1>7 DEF IInv, Hands, HeldFresh, Live
  <2>3. Spent(v) \in Nat /\ Spent(v) <= Stuck /\ Stuck \in Nat /\ delivery[d].age \in Nat
    BY <2>1, SpentNat, Constants DEF IInv, Hands, TypeOK, Delivery
  <2>4. ~Stale(delivery[d])
    BY <2>2, <2>3 DEF Stale
  <2>5. Reaped[d] = delivery[d] /\ ~Due(Reaped[d])
    BY <1>3, <2>2, <2>4 DEF Due
  <2>6. QED
    BY <1>1, <1>6, <2>5
<1>8. ASSUME NEW d \in Ids
      PROVE  /\ delivery'[d] \in Delivery
             /\ delivery'[d].attempts = delivery[d].attempts
             /\ delivery'[d].event = delivery[d].event
             /\ delivery'[d].endpoint = delivery[d].endpoint
             /\ IF delivery[d].status \in {"pending", "delivering"}
                THEN delivery'[d].status \in {"pending", "delivering"}
                ELSE delivery'[d] = delivery[d] /\ d \notin batch
             /\ d \in batch => delivery'[d].status = "delivering" /\ delivery'[d].age = 0
  BY <1>4, <1>5, <1>6
<1>9. delivery' \in [Ids -> Delivery]
  BY <1>2, <1>8
<1>10. QED
  BY <1>1, <1>7, <1>8, <1>9

\* The claim adds rows nobody held, fresh, to an idle worker's hands.
LEMMA ReapInductive ==
  ASSUME IInv, NEW w \in Workers, reap_and_claim(w)
  PROVE  IInv'
<1> DEFINE batch == Claimed({d \in Ids : Due(Reaped[d])})
           taken == [worker[w] EXCEPT !.phase = "read"]
           wk    == [taken EXCEPT !.ids = batch]
<1>1. /\ worker[w] = Idle /\ UNCHANGED <<endpoint, event, fan, seen, faults, edits>>
      /\ worker' = IF batch = {} THEN worker
                   ELSE [worker EXCEPT ![w].phase = "read", ![w].ids = batch]
  BY DEF reap_and_claim, IInv, Hands, Shape
<1>2. /\ batch \in SUBSET Ids /\ Cardinality(batch) <= CLAIM_BATCH
      /\ delivery' \in [Ids -> Delivery]
      /\ \A d \in Ids :
           /\ delivery'[d].attempts = delivery[d].attempts
           /\ delivery'[d].event = delivery[d].event
           /\ delivery'[d].endpoint = delivery[d].endpoint
           /\ IF delivery[d].status \in {"pending", "delivering"}
              THEN delivery'[d].status \in {"pending", "delivering"}
              ELSE delivery'[d] = delivery[d] /\ d \notin batch
           /\ d \in batch => delivery'[d].status = "delivering" /\ delivery'[d].age = 0
      /\ \A v \in Workers, d \in Ids :
           Holds(v, d) => delivery'[d] = delivery[d] /\ d \notin batch
  BY ClaimedRows
<1> HIDE DEF batch
<1>3. /\ wk \in Worker /\ wk.phase = "read" /\ wk.ids = batch /\ wk.rows = <<>>
      /\ wk.busy = 0 /\ wk.heard = FALSE
  <2>1. /\ taken \in Worker /\ taken.phase = "read" /\ taken.rows = <<>>
        /\ taken.busy = 0 /\ taken.heard = FALSE
    BY <1>1, SampleRows DEF Worker
  <2> HIDE DEF taken
  <2>2. QED
    BY <1>2, <2>1 DEF Worker
<1>4. worker' = IF batch = {} THEN worker ELSE [worker EXCEPT ![w] = wk]
  BY <1>1 DEF IInv, TypeOK
<1> HIDE DEF wk, taken
<1>5. /\ \A v \in Workers : v # w => worker'[v] = worker[v]
      /\ (worker'[w] = worker[w] /\ batch = {}) \/ worker'[w] = wk
      /\ worker' \in [Workers -> Worker]
  BY <1>3, <1>4 DEF IInv, TypeOK
<1>6. /\ worker'[w].ids = batch /\ worker'[w].rows = <<>> /\ worker'[w].phase \in {"idle", "read"}
      /\ worker'[w].heard = FALSE /\ worker'[w].busy = 0
  BY <1>1, <1>3, <1>5, SampleRows
<1>7. TypeOK'
  BY <1>1, <1>2, <1>5 DEF IInv, TypeOK
<1>8. Queue'
  <2>1. \A d \in Ids : delivery'[d].status # "none" <=> delivery[d].status # "none"
    BY <1>2
  <2>2. \A d \in Ids : delivery'[d].status \in {"pending", "delivering"} =>
                         delivery'[d].attempts < max_attempts
    BY <1>2 DEF IInv, Queue
  <2>3. QED
    BY <2>1, <2>2 DEF IInv, Queue
<1>9. Configs'
  BY <1>1 DEF IInv, Configs
<1>10. Fans'
  <2>1. \A d \in Ids : Live(d) => Live(d)'
    BY <1>2 DEF Live
  <2>2. QED
    BY <1>1, <1>2, <2>1, FansStay DEF IInv
<1>11. \A v \in Workers, d \in Ids : Holds(v, d)' <=> Holds(v, d) \/ (v = w /\ d \in batch)
  <2>1. \A d \in Ids : ~Holds(w, d)
    BY <1>1 DEF Holds, Idle
  <2>2. \A d \in Ids : Holds(w, d)' <=> d \in batch
    BY <1>6 DEF Holds
  <2>3. \A v \in Workers, d \in Ids : v # w => (Holds(v, d)' <=> Holds(v, d))
    BY <1>5 DEF Holds
  <2>4. QED
    BY <2>1, <2>2, <2>3
<1>12. Hands'
  <2>1. Shape'
    BY <1>1, <1>2, <1>3, <1>5 DEF IInv, Hands, Shape, Idle
  <2>2. HeldOnce'
    <3>1. \A v, u \in Workers : \A d \in Ids : Holds(v, d)' /\ Holds(u, d)' => v = u
      BY <1>2, <1>11 DEF IInv, Hands, HeldOnce
    <3>2. \A v \in Workers : \A i, j \in 1 .. Len(worker'[v].rows) :
            worker'[v].rows[i].id = worker'[v].rows[j].id => i = j
      BY <1>5, <1>6 DEF IInv, Hands, HeldOnce
    <3>3. QED
      BY <3>1, <3>2 DEF HeldOnce
  <2>3. HeldFresh'
    <3>1. ASSUME NEW v \in Workers, NEW d \in Ids, Holds(v, d)
          PROVE  /\ delivery'[d].status \in {"delivering", "gone"}
                 /\ Live(d)' => delivery'[d].age <= Spent(v)'
      <4>1. v # w
        BY <1>1, <3>1 DEF Holds, Idle
      <4>2. QED
        BY <1>2, <1>5, <3>1, <4>1 DEF IInv, Hands, HeldFresh, Live, Spent
    <3>2. ASSUME NEW d \in Ids, d \in batch
          PROVE  /\ delivery'[d].status \in {"delivering", "gone"}
                 /\ Live(d)' => delivery'[d].age <= Spent(w)'
      <4>1. worker'[w].phase = "read"
        BY <1>3, <1>5, <3>2
      <4>2. QED
        BY <1>2, <1>6, <3>2, <4>1 DEF Spent
    <3>3. QED
      BY <1>11, <3>1, <3>2 DEF HeldFresh
  <2>4. RowsCurrent'
    <3>1. ASSUME NEW v \in Workers, NEW i \in 1 .. Len(worker'[v].rows)
          PROVE  LET r == worker'[v].rows[i]
                     q == delivery'[r.id].endpoint IN
                 delivery'[r.id].status \notin {"none", "gone"} =>
                   /\ r.attempt_count = delivery'[r.id].attempts
                   /\ r.conf # endpoint[q].conf => endpoint[q].confAge <= Spent(v)'
      <4>1. v # w /\ worker'[v] = worker[v]
        BY <1>5, <1>6
      <4>2. Holds(v, worker[v].rows[i].id) /\ worker[v].rows[i].id \in Ids
        BY <4>1, RowTyped DEF Holds, IInv
      <4>3. QED
        <5>1. delivery'[worker[v].rows[i].id] = delivery[worker[v].rows[i].id]
          BY <1>2, <4>2
        <5>2. Spent(v)' = Spent(v)
          BY <4>1 DEF Spent
        <5>3. i \in 1 .. Len(worker[v].rows)
          BY <4>1
        <5>4. LET r == worker[v].rows[i]
                  q == delivery[r.id].endpoint IN
              delivery[r.id].status \notin {"none", "gone"} =>
                /\ r.attempt_count = delivery[r.id].attempts
                /\ r.conf # endpoint[q].conf => endpoint[q].confAge <= Spent(v)
          BY <5>3 DEF IInv, Hands, RowsCurrent, Live
        <5>5. QED
          BY <4>1, <5>1, <5>2, <5>4
    <3>2. UNCHANGED endpoint
      BY <1>1
    <3>3. QED
      BY <3>1, <3>2 DEF RowsCurrent, Live, Spent
  <2>5. QED
    BY <2>1, <2>2, <2>3, <2>4 DEF Hands
<1>13. Counts'
  <2>1. \A v \in Workers, d \in Ids : Flying(v, d)' <=> Flying(v, d)
    BY <1>1, <1>5, <1>6 DEF Flying, Idle
  <2>2. \A v \in Workers, d \in Ids : Flying(v, d) => worker'[v].heard = worker[v].heard
    BY <1>1, <1>5 DEF Flying, Idle
  <2>3. ASSUME NEW d \in Ids
        PROVE  TriesAgree(d)'
    <3>1. Live(d)' => Live(d)
      BY <1>2 DEF Live
    <3>2. QED
      BY <1>1, <1>2, <2>1, <3>1 DEF IInv, Counts, TriesAgree
  <2>4. ASSUME NEW d \in Ids
        PROVE  AnswersAgree(d)'
    <3>1. IF delivery[d].status \in {"pending", "delivering"}
          THEN delivery'[d].status \in {"pending", "delivering"}
          ELSE delivery'[d] = delivery[d] /\ d \notin batch
      BY <1>2
    <3>2. ASSUME NEW v \in Workers, Holds(v, d)'
          PROVE  IF Flying(v, d)' /\ worker'[v].heard THEN seen[d].acks = seen[d].blind + 1
                                                       ELSE seen[d].acks = seen[d].blind
      <4>1. CASE Holds(v, d)
        BY <2>1, <2>2, <4>1 DEF IInv, Counts, AnswersAgree, Flying
      <4>2. CASE v = w /\ d \in batch
        <5>1. \A u \in Workers : ~Holds(u, d)
          BY <1>2, <4>2
        <5>2. ~Flying(v, d)' /\ delivery[d].status \in {"pending", "delivering"}
          BY <1>1, <2>1, <3>1, <4>2, SampleRows DEF Flying
        <5>3. QED
          BY <5>1, <5>2 DEF IInv, Counts, AnswersAgree
      <4>3. QED
        BY <1>11, <3>2, <4>1, <4>2
    <3>3. ASSUME \A v \in Workers : ~Holds(v, d)'
          PROVE  IF delivery'[d].status \in {"succeeded", "gone"}
                 THEN seen[d].acks <= seen[d].blind + 1 ELSE seen[d].acks = seen[d].blind
      BY <1>11, <3>1, <3>3 DEF IInv, Counts, AnswersAgree
    <3>4. QED
      BY <1>1, <3>2, <3>3 DEF AnswersAgree, Flying, Holds
  <2>5. QED
    BY <1>1, <1>2, <2>3, <2>4 DEF IInv, Counts
<1>14. QED
  BY <1>7, <1>8, <1>9, <1>10, <1>12, <1>13 DEF IInv

\* A worker that moves on, letting rows go but taking none, keeps what the
\* workers' hands know.
LEMMA WorkerMoves ==
  ASSUME IInv, NEW w \in Workers, NEW wk \in Worker, NEW spent,
         worker' = [worker EXCEPT ![w] = wk],
         UNCHANGED endpoint,
         \A v \in Workers, d \in Ids : Holds(v, d)' => delivery'[d] = delivery[d],
         wk.phase = "idle" => wk = Idle,
         wk.phase # "read",
         wk.phase \in {"attempt", "record"} => wk.ids = {} /\ Len(wk.rows) \in 1 .. CLAIM_BATCH,
         wk.heard => wk.phase = "record",
         spent = (CLAIM_BATCH - Len(wk.rows)) * AttemptMax + wk.busy,
         \A d \in Ids : Holds(w, d) /\ wk # Idle => delivery[d].age <= spent \/ ~Live(d),
         \A i, j \in 1 .. Len(wk.rows) : wk.rows[i].id = wk.rows[j].id => i = j,
         \A i \in 1 .. Len(wk.rows) :
           LET r == wk.rows[i]
               q == delivery[r.id].endpoint IN
           /\ Holds(w, r.id)
           /\ Live(r.id) => /\ r.attempt_count = delivery[r.id].attempts
                            /\ r.conf # endpoint[q].conf => endpoint[q].confAge <= spent
  PROVE  /\ Hands' /\ worker' \in [Workers -> Worker]
         /\ \A v \in Workers : worker'[v] = IF v = w THEN wk ELSE worker[v]
         /\ \A v \in Workers, d \in Ids : Holds(v, d)' => Holds(v, d)
<1>1. /\ worker' \in [Workers -> Worker]
      /\ \A v \in Workers : worker'[v] = IF v = w THEN wk ELSE worker[v]
  BY DEF IInv, TypeOK
<1>2. wk.ids = {} /\ wk.phase \in {"idle", "attempt", "record"}
  BY SampleRows DEF Worker
<1>3. ASSUME NEW v \in Workers, NEW d \in Ids, Holds(v, d)'
      PROVE  Holds(v, d) /\ (v = w => wk # Idle)
  <2>1. CASE v = w
    <3>1. PICK i \in 1 .. Len(wk.rows) : wk.rows[i].id = d
      BY <1>1, <1>2, <1>3, <2>1 DEF Holds
    <3>2. wk # Idle
      BY <3>1, SampleRows
    <3>3. QED
      BY <2>1, <3>1, <3>2
  <2>2. CASE v # w
    BY <1>1, <1>3, <2>2 DEF Holds
  <2>3. QED
    BY <2>1, <2>2
<1>4. Shape'
  BY <1>1 DEF IInv, Hands, Shape
<1>5. HeldOnce'
  <2>1. \A v, u \in Workers : \A d \in Ids : Holds(v, d)' /\ Holds(u, d)' => v = u
    BY <1>3 DEF IInv, Hands, HeldOnce
  <2>2. \A v \in Workers : \A i, j \in 1 .. Len(worker'[v].rows) :
          worker'[v].rows[i].id = worker'[v].rows[j].id => i = j
    BY <1>1 DEF IInv, Hands, HeldOnce
  <2>3. QED
    BY <2>1, <2>2 DEF HeldOnce
<1>6. HeldFresh'
  <2>1. ASSUME NEW v \in Workers, NEW d \in Ids, Holds(v, d)'
        PROVE  /\ delivery'[d].status \in {"delivering", "gone"}
               /\ delivery'[d].status \notin {"none", "gone"} => delivery'[d].age <= Spent(v)'
    <3>1. delivery[d].status \in {"delivering", "gone"} /\ Holds(v, d) /\ delivery'[d] = delivery[d]
      BY <1>3, <2>1 DEF IInv, Hands, HeldFresh
    <3>2. CASE v = w
      BY <1>1, <1>3, <2>1, <3>1, <3>2 DEF Spent, Live
    <3>3. CASE v # w
      BY <1>1, <3>1, <3>3 DEF Spent, Live, IInv, Hands, HeldFresh
    <3>4. QED
      BY <3>2, <3>3
  <2>2. QED
    BY <2>1 DEF HeldFresh, Live, Holds, Spent
<1>7. RowsCurrent'
  <2>1. ASSUME NEW v \in Workers, NEW i \in 1 .. Len(worker'[v].rows)
        PROVE  LET r == worker'[v].rows[i]
                   q == delivery'[r.id].endpoint IN
               delivery'[r.id].status \notin {"none", "gone"} =>
                 /\ r.attempt_count = delivery'[r.id].attempts
                 /\ r.conf # endpoint'[q].conf => endpoint'[q].confAge <= Spent(v)'
    <3> DEFINE r == worker'[v].rows[i]
    <3>1. r.id \in Ids /\ delivery'[r.id] = delivery[r.id]
      <4>1. worker'[v] \in Worker /\ r \in DueRow
        BY <1>1, <2>1 DEF Worker
      <4>2. r.id \in Ids /\ \A d \in Ids : d = r.id => Holds(v, d)'
        BY <2>1, <4>1 DEF DueRow, Holds
      <4>3. QED
        BY <4>2
    <3>2. CASE v = w
      BY <1>1, <2>1, <3>1, <3>2 DEF Spent, Live
    <3>3. CASE v # w
      <4>1. r = worker[v].rows[i] /\ i \in 1 .. Len(worker[v].rows) /\ Spent(v)' = Spent(v)
        BY <1>1, <2>1, <3>3 DEF Spent
      <4> HIDE DEF r
      <4>2. LET q == delivery[r.id].endpoint IN
            delivery[r.id].status \notin {"none", "gone"} =>
              /\ r.attempt_count = delivery[r.id].attempts
              /\ r.conf # endpoint[q].conf => endpoint[q].confAge <= Spent(v)
        BY <4>1 DEF IInv, Hands, RowsCurrent, Live
      <4>3. QED
        BY <3>1, <4>1, <4>2 DEF r
    <3>4. QED
      BY <3>2, <3>3
  <2>2. QED
    BY <2>1 DEF RowsCurrent, Live, Spent
<1>8. QED
  BY <1>1, <1>3, <1>4, <1>5, <1>6, <1>7 DEF Hands

\* Steps of a worker that leave deliveries and endpoints alone.
LEMMA WorkerLeaves ==
  ASSUME IInv, UNCHANGED <<endpoint, event, delivery, fan, edits>>
  PROVE  Queue' /\ Configs' /\ Fans'
<1>1. Queue'
  BY QueueStays DEF IInv
<1>2. Configs'
  BY DEF IInv, Configs
<1>3. Fans'
  BY FansStay DEF IInv, Live
<1>4. QED
  BY <1>1, <1>2, <1>3

\* An order of a set of ids is a sequence of them without repetition.
LEMMA OrderIsSequence ==
  ASSUME NEW S \in SUBSET Ids, NEW q \in Orders(S)
  PROVE  /\ DOMAIN q = 1 .. Cardinality(S) /\ Cardinality(S) \in Nat
         /\ \A i \in 1 .. Cardinality(S) : q[i] \in S
         /\ \A i, j \in 1 .. Cardinality(S) : q[i] = q[j] => i = j
         /\ q # <<>> => Cardinality(S) >= 1
<1>1. Cardinality(S) \in Nat
  BY FiniteIds
<1>2. q \in [1 .. Cardinality(S) -> S] /\ \A i, j \in DOMAIN q : q[i] = q[j] => i = j
  BY DEF Orders
<1>3. ASSUME Cardinality(S) = 0
      PROVE  q = <<>>
  BY <1>2, <1>3
<1>4. QED
  BY <1>1, <1>2, <1>3

LEMMA ReadInductive ==
  ASSUME IInv, NEW w \in Workers, read_rows(w)
  PROVE  IInv'
<1> DEFINE S == {d \in worker[w].ids : Live(d)}
           n == Cardinality(S)
<1>1. /\ worker[w].phase = "read" /\ UNCHANGED <<endpoint, event, delivery, fan, seen, faults, edits>>
      /\ worker[w] \in Worker /\ worker[w].ids \in SUBSET Ids
      /\ worker[w].rows = <<>> /\ Cardinality(worker[w].ids) <= CLAIM_BATCH
      /\ worker[w].heard = FALSE
  BY DEF read_rows, IInv, TypeOK, Hands, Shape, Worker
<1>2. PICK q \in Orders(S) :
        worker' = [worker EXCEPT ![w] =
          IF q = <<>> THEN Idle
          ELSE [@ EXCEPT !.phase = "attempt", !.ids = {},
                         !.rows = [i \in DOMAIN q |-> [id |-> q[i],
                                     attempt_count |-> delivery[q[i]].attempts,
                                     conf |-> endpoint[delivery[q[i]].endpoint].conf]]]]
  BY DEF read_rows
<1> DEFINE rows == [i \in DOMAIN q |-> [id |-> q[i],
                      attempt_count |-> delivery[q[i]].attempts,
                      conf |-> endpoint[delivery[q[i]].endpoint].conf]]
           wk1  == [worker[w] EXCEPT !.phase = "attempt"]
           wk2  == [wk1 EXCEPT !.ids = {}]
           wk   == IF q = <<>> THEN Idle ELSE [wk2 EXCEPT !.rows = rows]
<1>3. worker' = [worker EXCEPT ![w] = wk]
  BY <1>2 DEF IInv, TypeOK
<1>4. /\ DOMAIN q = 1 .. n /\ n \in Nat /\ \A i \in 1 .. n : q[i] \in S
      /\ \A i, j \in 1 .. n : q[i] = q[j] => i = j
      /\ q # <<>> => n >= 1
  <2>1. S \in SUBSET Ids
    BY <1>1
  <2> HIDE DEF S
  <2>2. QED
    BY <2>1, OrderIsSequence
<1>5. n <= CLAIM_BATCH
  <2>1. S \in SUBSET worker[w].ids /\ IsFiniteSet(worker[w].ids)
    BY <1>1, FiniteIds
  <2>2. n <= Cardinality(worker[w].ids) /\ Cardinality(worker[w].ids) \in Nat
    BY <1>1, <2>1, FS_Subset, FiniteIds
  <2>3. QED
    BY <1>1, <1>4, <2>2, Constants
<1>6. \A d \in S : Live(d) /\ d \in Ids /\ Holds(w, d)
  BY <1>1 DEF Holds
<1> HIDE DEF S, n
<1>7. \A i \in 1 .. n : [id |-> q[i], attempt_count |-> delivery[q[i]].attempts,
                         conf |-> endpoint[delivery[q[i]].endpoint].conf] \in DueRow
  BY <1>4, <1>6 DEF IInv, TypeOK, Delivery, Endpoint, DueRow
<1>8. rows \in Seq(DueRow) /\ Len(rows) = n
  BY <1>4, <1>7
<1>9. \A i \in 1 .. n : /\ rows[i].id = q[i]
                        /\ rows[i].attempt_count = delivery[q[i]].attempts
                        /\ rows[i].conf = endpoint[delivery[q[i]].endpoint].conf
  BY <1>4
<1> HIDE DEF rows
<1>10. /\ wk2 \in Worker /\ wk2.phase = "attempt" /\ wk2.ids = {} /\ wk2.heard = FALSE
       /\ wk2.busy = worker[w].busy
  <2>1. /\ wk1 \in Worker /\ wk1.phase = "attempt" /\ wk1.heard = FALSE
        /\ wk1.busy = worker[w].busy
    BY <1>1 DEF Worker
  <2> HIDE DEF wk1
  <2>2. QED
    BY <2>1 DEF Worker
<1> HIDE DEF wk1, wk2
<1>11. wk \in Worker /\ wk.phase \in {"idle", "attempt"} /\ wk.heard = FALSE
  <2>1. q # <<>> => wk = [wk2 EXCEPT !.rows = rows]
    OBVIOUS
  <2>2. [wk2 EXCEPT !.rows = rows] \in Worker
    BY <1>8, <1>10 DEF Worker
  <2>3. q # <<>> => wk.phase = "attempt" /\ wk.heard = FALSE
    BY <1>10, <2>1 DEF Worker
  <2>4. QED
    BY <2>1, <2>2, <2>3, SampleRows
<1>12. /\ Hands' /\ worker' \in [Workers -> Worker]
       /\ \A v \in Workers : worker'[v] = IF v = w THEN wk ELSE worker[v]
       /\ \A v \in Workers, d \in Ids : Holds(v, d)' => Holds(v, d)
  <2>1. CASE q = <<>>
    <3> DEFINE spent == (CLAIM_BATCH - Len(Idle.rows)) * AttemptMax + Idle.busy
    <3>1. worker' = [worker EXCEPT ![w] = Idle]
      BY <1>3, <2>1
    <3>2. wk = Idle /\ \A i \in 1 .. Len(Idle.rows) : FALSE
      BY <2>1, SampleRows
    <3> HIDE DEF wk
    <3>3. QED
      BY <1>1, <3>1, <3>2, SampleRows, WorkerMoves
  <2>2. CASE q # <<>>
    <3> DEFINE spent == (CLAIM_BATCH - Len(wk.rows)) * AttemptMax + wk.busy
    <3>1. wk = [wk2 EXCEPT !.rows = rows]
      BY <2>2
    <3>2. /\ wk.phase = "attempt" /\ wk.ids = {} /\ wk.heard = FALSE
          /\ wk.rows = rows /\ wk.busy = worker[w].busy /\ n \in 1 .. CLAIM_BATCH
      BY <1>4, <1>5, <1>10, <2>2, <3>1, Constants DEF Worker
    <3> HIDE DEF wk
    <3>3. worker[w].busy \in 0 .. AttemptMax
      BY <1>1 DEF Worker
    <3>4. spent \in Nat /\ worker[w].busy <= spent
      BY <1>8, <3>2, <3>3, Share
    <3> HIDE DEF spent
    <3>5. \A d \in Ids : Holds(w, d) => delivery[d].age <= spent \/ ~Live(d)
      <4>1. Spent(w) = worker[w].busy
        BY <1>1 DEF Spent
      <4>2. \A d \in Ids : delivery[d].age \in Nat
        BY DEF IInv, TypeOK, Delivery
      <4>3. QED
        BY <3>3, <3>4, <4>1, <4>2 DEF IInv, Hands, HeldFresh
    <3>6. \A i, j \in 1 .. Len(wk.rows) : wk.rows[i].id = wk.rows[j].id => i = j
      BY <1>4, <1>8, <1>9, <3>2
    <3>7. \A i \in 1 .. Len(wk.rows) :
            LET r  == wk.rows[i]
                at == delivery[r.id].endpoint IN
            /\ Holds(w, r.id)
            /\ Live(r.id) => /\ r.attempt_count = delivery[r.id].attempts
                             /\ r.conf # endpoint[at].conf => endpoint[at].confAge <= spent
      BY <1>4, <1>6, <1>8, <1>9, <3>2
    <3>8. spent = (CLAIM_BATCH - Len(wk.rows)) * AttemptMax + wk.busy
      BY DEF spent
    <3>9. QED
      BY <1>1, <1>3, <1>8, <1>11, <3>2, <3>5, <3>6, <3>7, <3>8, WorkerMoves
  <2>3. QED
    BY <2>1, <2>2
<1> HIDE DEF wk
<1>13. TypeOK'
  BY <1>1, <1>12 DEF IInv, TypeOK
<1>14. Counts'
  <2>1. \A v \in Workers, d \in Ids : /\ Flying(v, d)' <=> Flying(v, d)
                                      /\ Flying(v, d) => worker'[v].heard = worker[v].heard
    BY <1>1, <1>11, <1>12 DEF Flying
  <2>2. ASSUME NEW d \in Ids
        PROVE  TriesAgree(d)'
    BY <1>1, <2>1 DEF IInv, Counts, TriesAgree, Live
  <2>3. ASSUME NEW d \in Ids
        PROVE  AnswersAgree(d)'
    <3>1. ASSUME NEW v \in Workers, Holds(v, d)'
          PROVE  IF Flying(v, d)' /\ worker'[v].heard THEN seen[d].acks = seen[d].blind + 1
                                                       ELSE seen[d].acks = seen[d].blind
      BY <1>12, <2>1, <3>1 DEF IInv, Counts, AnswersAgree, Flying
    <3>2. ASSUME \A v \in Workers : ~Holds(v, d)'
          PROVE  IF delivery'[d].status \in {"succeeded", "gone"}
                 THEN seen[d].acks <= seen[d].blind + 1 ELSE seen[d].acks = seen[d].blind
      <4>1. seen[d].acks \in Nat /\ seen[d].blind \in Nat
        BY DEF IInv, TypeOK, Sent
      <4>2. CASE Holds(w, d)
        BY <1>1, <4>1, <4>2 DEF IInv, Counts, AnswersAgree, Flying
      <4>3. CASE ~Holds(w, d)
        <5>1. \A v \in Workers : ~Holds(v, d)
          BY <1>12, <3>2, <4>3 DEF Holds
        <5>2. QED
          BY <1>1, <5>1 DEF IInv, Counts, AnswersAgree
      <4>4. QED
        BY <4>2, <4>3
    <3>3. QED
      BY <1>1, <3>1, <3>2 DEF AnswersAgree, Flying, Holds
  <2>4. QED
    BY <1>1, <2>2, <2>3 DEF IInv, Counts
<1>15. QED
  BY <1>1, <1>12, <1>13, <1>14, WorkerLeaves DEF IInv

\* What an attempt adds to the receiver's view.
LEMMA AnswerCounted ==
  ASSUME NEW s \in Sent, NEW answer \in {"refused", "2xx", "unheard", "other"}
  PROVE  LET now == Answered(s, answer) IN
         /\ now \in Sent /\ now.tries = s.tries + 1 /\ now.lost = s.lost
         /\ answer = "2xx" => now.acks = s.acks + 1 /\ now.blind = s.blind
         /\ answer # "2xx" /\ s.acks = s.blind => now.acks = now.blind
<1> DEFINE a == IF answer \in {"2xx", "unheard"} THEN s.acks + 1 ELSE s.acks
           b == IF answer = "unheard" THEN s.blind + 1 ELSE s.blind
           now == Answered(s, answer)
<1>1. /\ s.tries + 1 \in Nat /\ a \in Nat /\ b \in Nat
      /\ answer = "2xx" => a = s.acks + 1 /\ b = s.blind
      /\ answer # "2xx" /\ s.acks = s.blind => a = b
  BY DEF Sent
<1>2. now = [s EXCEPT !.tries = s.tries + 1, !.acks = a, !.blind = b]
  BY DEF Answered
<1> HIDE DEF a, b, now
<1>3. now \in Sent /\ now.tries = s.tries + 1 /\ now.lost = s.lost /\ now.acks = a /\ now.blind = b
  BY <1>1, <1>2 DEF Sent
<1>4. QED
  BY <1>1, <1>3 DEF now

\* An attempt is made for the first row in hand: the receiver's view moves, the
\* row does not yet.
LEMMA AttemptInductive ==
  ASSUME IInv, NEW w \in Workers, attempt_delivery(w)
  PROVE  IInv'
<1> DEFINE id == Head(worker[w].rows).id
<1>1. /\ worker[w].phase = "attempt" /\ UNCHANGED <<endpoint, event, delivery, fan, faults, edits>>
      /\ worker[w] \in Worker /\ worker[w].ids = {} /\ worker[w].heard = FALSE
      /\ Len(worker[w].rows) \in 1 .. CLAIM_BATCH
  BY DEF attempt_delivery, IInv, TypeOK, Hands, Shape
<1>2. PICK answer \in {"refused", "2xx", "unheard", "other"} :
        /\ seen' = [seen EXCEPT ![id] = Answered(@, answer)]
        /\ worker' = [worker EXCEPT ![w].phase = "record", ![w].heard = (answer = "2xx")]
  BY DEF attempt_delivery
<1> DEFINE now == Answered(seen[id], answer)
           wk1 == [worker[w] EXCEPT !.phase = "record"]
           wk  == [wk1 EXCEPT !.heard = (answer = "2xx")]
<1>3. id \in Ids /\ Holds(w, id)
  <2>1. 1 \in 1 .. Len(worker[w].rows) /\ Head(worker[w].rows) = worker[w].rows[1]
    BY <1>1, RowTyped, Constants DEF IInv
  <2>2. QED
    BY <2>1, RowTyped DEF IInv, Holds
<1> HIDE DEF id
<1>4. /\ now \in Sent /\ now.tries = seen[id].tries + 1 /\ now.lost = seen[id].lost
      /\ answer = "2xx" => now.acks = seen[id].acks + 1 /\ now.blind = seen[id].blind
      /\ answer # "2xx" /\ seen[id].acks = seen[id].blind => now.acks = now.blind
  <2>1. seen[id] \in Sent
    BY <1>3 DEF IInv, TypeOK
  <2>2. QED
    BY <2>1, AnswerCounted
<1>5. seen' = [seen EXCEPT ![id] = now]
  BY <1>2, <1>3 DEF IInv, TypeOK
<1> HIDE DEF now
<1>6. seen' \in [Ids -> Sent] /\ \A d \in Ids : seen'[d] = IF d = id THEN now ELSE seen[d]
  BY <1>3, <1>4, <1>5 DEF IInv, TypeOK
<1>7. /\ wk \in Worker /\ wk.phase = "record" /\ wk.ids = {} /\ wk.rows = worker[w].rows
      /\ wk.busy = worker[w].busy /\ wk.heard = (answer = "2xx")
  <2>1. /\ wk1 \in Worker /\ wk1.phase = "record" /\ wk1.ids = {} /\ wk1.rows = worker[w].rows
        /\ wk1.busy = worker[w].busy
    BY <1>1 DEF Worker
  <2> HIDE DEF wk1
  <2>2. QED
    BY <2>1 DEF Worker
<1>8. worker' = [worker EXCEPT ![w] = wk]
  BY <1>2 DEF IInv, TypeOK
<1> HIDE DEF wk
<1>9. /\ Hands' /\ worker' \in [Workers -> Worker]
      /\ \A v \in Workers : worker'[v] = IF v = w THEN wk ELSE worker[v]
      /\ \A v \in Workers, d \in Ids : Holds(v, d)' => Holds(v, d)
  <2> DEFINE spent == (CLAIM_BATCH - Len(wk.rows)) * AttemptMax + wk.busy
  <2>1. spent = Spent(w)
    BY <1>1, <1>7 DEF Spent
  <2>2. \A d \in Ids : Holds(w, d) => delivery[d].age <= spent \/ ~Live(d)
    BY <2>1 DEF IInv, Hands, HeldFresh
  <2>3. \A i, j \in 1 .. Len(wk.rows) : wk.rows[i].id = wk.rows[j].id => i = j
    BY <1>7 DEF IInv, Hands, HeldOnce
  <2>4. \A i \in 1 .. Len(wk.rows) :
          LET r  == wk.rows[i]
              at == delivery[r.id].endpoint IN
          /\ Holds(w, r.id)
          /\ Live(r.id) => /\ r.attempt_count = delivery[r.id].attempts
                           /\ r.conf # endpoint[at].conf => endpoint[at].confAge <= spent
    BY <1>7, <2>1 DEF IInv, Hands, RowsCurrent, Holds
  <2> HIDE DEF spent
  <2>5. spent = (CLAIM_BATCH - Len(wk.rows)) * AttemptMax + wk.busy
    BY DEF spent
  <2>6. QED
    BY <1>1, <1>7, <1>8, <2>2, <2>3, <2>4, <2>5, WorkerMoves
<1>10. TypeOK'
  BY <1>1, <1>6, <1>9 DEF IInv, TypeOK
<1>11. /\ \A v \in Workers, d \in Ids : Holds(v, d)' <=> Holds(v, d)
       /\ \A v \in Workers, d \in Ids : Flying(v, d)' <=> Flying(v, d) \/ (v = w /\ d = id)
  <2>1. \A v \in Workers, d \in Ids : Holds(v, d)' <=> Holds(v, d)
    BY <1>1, <1>7, <1>9 DEF Holds
  <2>2. \A v \in Workers, d \in Ids : Flying(v, d)' <=> Flying(v, d) \/ (v = w /\ d = id)
    BY <1>1, <1>7, <1>9 DEF Flying, id
  <2>3. QED
    BY <2>1, <2>2
<1>12. Counts'
  <2>1. \A v \in Workers : Holds(v, id) => v = w
    BY <1>3 DEF IInv, Hands, HeldOnce
  <2>2. \A v \in Workers : ~Flying(v, id)
    <3>1. \A v \in Workers : Flying(v, id) => Holds(v, id)
      BY FlyingHeld DEF IInv, Hands
    <3>2. QED
      BY <1>1, <2>1, <3>1 DEF Flying
  <2>3. ASSUME NEW d \in Ids
        PROVE  TriesAgree(d)'
    <3>1. CASE d = id
      <4>1. Live(d) => seen[d].tries = delivery[d].attempts + seen[d].lost
        BY <2>2, <3>1 DEF IInv, Counts, TriesAgree
      <4>2. /\ seen[d].tries \in Nat /\ seen[d].lost \in Nat /\ delivery[d].attempts \in Nat
        BY DEF IInv, TypeOK, Sent, Delivery
      <4>3. Live(d)' => /\ seen'[d].tries = delivery'[d].attempts + seen'[d].lost + 1
                        /\ ~ \A v \in Workers : ~Flying(v, d)'
        BY <1>1, <1>4, <1>6, <1>11, <3>1, <4>1, <4>2 DEF Live
      <4>4. QED
        BY <4>3 DEF TriesAgree, Live, Flying
    <3>2. CASE d # id
      BY <1>1, <1>6, <1>11, <3>2 DEF IInv, Counts, TriesAgree, Live, Flying
    <3>3. QED
      BY <3>1, <3>2
  <2>4. ASSUME NEW d \in Ids
        PROVE  AnswersAgree(d)'
    <3>1. CASE d = id
      <4>1. seen[id].acks = seen[id].blind
        BY <1>3, <2>2 DEF IInv, Counts, AnswersAgree
      <4>2. IF answer = "2xx" THEN seen'[d].acks = seen'[d].blind + 1
                              ELSE seen'[d].acks = seen'[d].blind
        BY <1>3, <1>4, <1>6, <3>1, <4>1
      <4>3. \A v \in Workers : Holds(v, d)' => v = w
        BY <1>11, <2>1, <3>1
      <4>4. Holds(w, d)' /\ Flying(w, d)' /\ worker'[w].heard = (answer = "2xx")
        BY <1>3, <1>7, <1>9, <1>11, <3>1
      <4>5. QED
        BY <4>2, <4>3, <4>4 DEF AnswersAgree, Holds, Flying
    <3>2. CASE d # id
      <4>1. \A v \in Workers : Flying(v, d)' => worker'[v].heard = worker[v].heard
        BY <1>1, <1>9, <1>11, <3>2 DEF Flying
      <4>2. ASSUME NEW v \in Workers, Holds(v, d)'
            PROVE  IF Flying(v, d)' /\ worker'[v].heard THEN seen[d].acks = seen[d].blind + 1
                                                         ELSE seen[d].acks = seen[d].blind
        BY <1>11, <3>2, <4>1, <4>2 DEF IInv, Counts, AnswersAgree
      <4>3. ASSUME \A v \in Workers : ~Holds(v, d)'
            PROVE  IF delivery'[d].status \in {"succeeded", "gone"}
                   THEN seen[d].acks <= seen[d].blind + 1 ELSE seen[d].acks = seen[d].blind
        BY <1>1, <1>11, <4>3 DEF IInv, Counts, AnswersAgree
      <4>4. seen'[d] = seen[d]
        BY <1>6, <3>2
      <4>5. QED
        BY <4>2, <4>3, <4>4 DEF AnswersAgree, Flying, Holds
    <3>3. QED
      BY <3>1, <3>2
  <2>5. \A d \in Ids : delivery'[d].status = "none" => seen'[d] = seen[d]
    BY <1>1, <1>3, <1>6 DEF IInv, Hands, HeldFresh
  <2>6. QED
    BY <1>1, <2>3, <2>4, <2>5 DEF IInv, Counts
<1>13. QED
  BY <1>1, <1>9, <1>10, <1>12, WorkerLeaves DEF IInv

\* What a worker that stops takes with it.
LEMMA LossCounted ==
  ASSUME NEW s \in Sent, NEW heard \in BOOLEAN
  PROVE  LET now == Unrecorded(s, heard) IN
         /\ now \in Sent /\ now.tries = s.tries /\ now.lost = s.lost + 1 /\ now.acks = s.acks
         /\ now.blind = IF heard THEN s.blind + 1 ELSE s.blind
<1> DEFINE b   == IF heard THEN s.blind + 1 ELSE s.blind
           now == Unrecorded(s, heard)
<1>1. s.lost + 1 \in Nat /\ b \in Nat
  BY DEF Sent
<1>2. now = [s EXCEPT !.lost = s.lost + 1, !.blind = b]
  BY DEF Unrecorded
<1> HIDE DEF b, now
<1>3. /\ now \in Sent /\ now.tries = s.tries /\ now.lost = s.lost + 1 /\ now.acks = s.acks
      /\ now.blind = b
  BY <1>1, <1>2 DEF Sent
<1>4. QED
  BY <1>3 DEF now, b

\* A worker that stops lets all its rows go; what it had in flight is lost.
LEMMA StopInductive ==
  ASSUME IInv, NEW w \in Workers, worker_stops(w)
  PROVE  IInv'
<1> DEFINE id  == Head(worker[w].rows).id
           now == Unrecorded(seen[id], worker[w].heard)
<1>1. /\ worker' = [worker EXCEPT ![w] = Idle] /\ worker[w] \in Worker
      /\ UNCHANGED <<endpoint, event, delivery, fan, edits>> /\ faults' \in 0 .. MaxFaults
      /\ seen' = IF worker[w].phase = "record" THEN [seen EXCEPT ![id] = now] ELSE seen
  BY Raised, Constants DEF worker_stops, IInv, TypeOK
<1>2. worker[w].phase = "record" => id \in Ids /\ Flying(w, id) /\ now \in Sent
  <2>1. worker[w].phase = "record" => id \in Ids /\ Flying(w, id)
    <3> SUFFICES ASSUME worker[w].phase = "record" PROVE id \in Ids /\ Flying(w, id)
      OBVIOUS
    <3>1. Len(worker[w].rows) \in 1 .. CLAIM_BATCH
      BY DEF IInv, Hands, Shape
    <3>2. 1 \in 1 .. Len(worker[w].rows) /\ Head(worker[w].rows) = worker[w].rows[1]
      BY <3>1, RowTyped, Constants DEF IInv
    <3>3. QED
      BY <3>2, RowTyped DEF IInv, Flying
  <2>2. QED
    BY <1>1, <2>1, LossCounted DEF IInv, TypeOK, Worker
<1>3. \A d \in Ids : Flying(w, d) <=> worker[w].phase = "record" /\ d = id
  BY DEF Flying
<1> HIDE DEF id
<1>4. /\ Hands' /\ worker' \in [Workers -> Worker]
      /\ \A v \in Workers : worker'[v] = IF v = w THEN Idle ELSE worker[v]
      /\ \A v \in Workers, d \in Ids : Holds(v, d)' => Holds(v, d)
  <2> DEFINE spent == (CLAIM_BATCH - Len(Idle.rows)) * AttemptMax + Idle.busy
  <2>1. \A i \in 1 .. Len(Idle.rows) : FALSE
    BY SampleRows
  <2>2. QED
    BY <1>1, <2>1, SampleRows, WorkerMoves
<1>5. /\ seen' \in [Ids -> Sent]
      /\ \A d \in Ids : seen'[d] = IF Flying(w, d) THEN Unrecorded(seen[d], worker[w].heard)
                                                   ELSE seen[d]
  BY <1>1, <1>2, <1>3 DEF IInv, TypeOK
<1>6. TypeOK'
  BY <1>1, <1>4, <1>5 DEF IInv, TypeOK
<1>7. ASSUME NEW d \in Ids
      PROVE  /\ \A v \in Workers : Flying(v, d)' <=> Flying(v, d) /\ v # w
             /\ \A v \in Workers : Holds(v, d)' <=> Holds(v, d) /\ v # w
             /\ \A v \in Workers : Flying(v, d) => Holds(v, d)
             /\ \A v \in Workers : Holds(w, d) /\ Holds(v, d) => v = w
  <2>1. \A v \in Workers : Flying(v, d)' <=> Flying(v, d) /\ v # w
    BY <1>4, SampleRows DEF Flying
  <2>2. \A v \in Workers : Holds(v, d)' <=> Holds(v, d) /\ v # w
    BY <1>4, SampleRows DEF Holds
  <2>3. QED
    BY <2>1, <2>2, FlyingHeld DEF IInv, Hands, HeldOnce
<1>8. Counts'
  <2>1. ASSUME NEW d \in Ids
        PROVE  /\ seen[d].tries \in Nat /\ seen[d].acks \in Nat
               /\ seen[d].lost \in Nat /\ seen[d].blind \in Nat /\ delivery[d].attempts \in Nat
               /\ seen'[d].tries = seen[d].tries /\ seen'[d].acks = seen[d].acks
               /\ IF Flying(w, d)
                  THEN /\ seen'[d].lost = seen[d].lost + 1
                       /\ seen'[d].blind = IF worker[w].heard THEN seen[d].blind + 1 ELSE seen[d].blind
                  ELSE seen'[d] = seen[d]
    <3>1. seen[d] \in Sent /\ worker[w].heard \in BOOLEAN
      BY <1>1 DEF IInv, TypeOK, Worker
    <3>2. QED
      BY <1>5, <3>1, LossCounted DEF IInv, TypeOK, Sent, Delivery
  <2>2. ASSUME NEW d \in Ids
        PROVE  TriesAgree(d)'
    <3>1. CASE Flying(w, d)
      <4>1. \A v \in Workers : ~Flying(v, d)'
        BY <1>7, <3>1
      <4>2. Live(d) => seen[d].tries = delivery[d].attempts + seen[d].lost + 1
        BY <3>1 DEF IInv, Counts, TriesAgree
      <4>3. Live(d) => seen'[d].tries = delivery[d].attempts + seen'[d].lost
        BY <2>1, <3>1, <4>2
      <4>4. QED
        BY <1>1, <4>1, <4>3 DEF TriesAgree, Live, Flying
    <3>2. CASE ~Flying(w, d)
      <4>1. \A v \in Workers : Flying(v, d)' <=> Flying(v, d)
        BY <1>7, <3>2
      <4>2. seen'[d] = seen[d]
        BY <2>1, <3>2
      <4>3. QED
        BY <1>1, <4>1, <4>2 DEF IInv, Counts, TriesAgree, Live, Flying
    <3>3. QED
      BY <3>1, <3>2
  <2>3. ASSUME NEW d \in Ids
        PROVE  AnswersAgree(d)'
    <3>1. CASE Holds(w, d)
      <4>1. seen'[d].acks = seen'[d].blind /\ seen'[d].blind \in Nat
        BY <2>1, <3>1 DEF IInv, Counts, AnswersAgree
      <4>2. \A v \in Workers : ~Holds(v, d)'
        BY <1>7, <3>1
      <4>3. QED
        BY <4>1, <4>2 DEF AnswersAgree, Holds
    <3>2. CASE ~Holds(w, d)
      <4>1. seen'[d] = seen[d] /\ delivery'[d] = delivery[d]
        BY <1>1, <1>7, <2>1, <3>2
      <4>2. \A v \in Workers : /\ Holds(v, d)' <=> Holds(v, d)
                               /\ Flying(v, d)' <=> Flying(v, d)
                               /\ Holds(v, d) => worker'[v] = worker[v]
        BY <1>4, <1>7, <3>2
      <4>3. QED
        BY <4>1, <4>2 DEF IInv, Counts, AnswersAgree, Holds, Flying
    <3>3. QED
      BY <3>1, <3>2
  <2>4. \A d \in Ids : delivery'[d].status = "none" => seen'[d] = seen[d]
    BY <1>1, <1>5, <1>7 DEF IInv, Hands, HeldFresh
  <2>5. QED
    BY <1>1, <2>2, <2>3, <2>4 DEF IInv, Counts
<1>9. QED
  BY <1>1, <1>4, <1>6, <1>8, WorkerLeaves DEF IInv

\* What a recording makes of a row.
LEMMA RecordedRow ==
  ASSUME NEW row \in Delivery, NEW count \in 1 .. max_attempts, NEW heard \in BOOLEAN
  PROVE  LET new == Recorded(row, count, heard) IN
         /\ new \in Delivery /\ new.attempts = count
         /\ new.event = row.event /\ new.endpoint = row.endpoint
         /\ new.status = IF heard THEN "succeeded"
                         ELSE IF count >= max_attempts THEN "failed" ELSE "pending"
<1> DEFINE tried == [row EXCEPT !.attempts = count, !.age = 0]
           delay == base_delay * 2 ^ (count - 1)
           new   == Recorded(row, count, heard)
<1>1. tried \in Delivery /\ tried.attempts = count /\ tried.event = row.event /\ tried.endpoint = row.endpoint
  <2>1. 0 \in 0 .. Old /\ count \in 0 .. max_attempts
    BY Constants
  <2>2. QED
    BY <2>1 DEF Delivery
<1>2. 0 \in 0 .. base_delay * 2 ^ max_attempts /\ delay \in 0 .. base_delay * 2 ^ max_attempts
  <2>1. NoRow.wait \in 0 .. base_delay * 2 ^ max_attempts /\ NoRow.wait = 0
    BY SampleRows DEF Delivery, NoRow
  <2>2. QED
    BY <2>1, Backoff
<1>3. new = IF heard THEN [tried EXCEPT !.status = "succeeded", !.wait = 0]
            ELSE IF count >= max_attempts THEN [tried EXCEPT !.status = "failed", !.wait = 0]
            ELSE [tried EXCEPT !.status = "pending", !.wait = delay]
  BY DEF Recorded
<1> HIDE DEF tried, delay, new
<1>4. ASSUME NEW wait \in 0 .. base_delay * 2 ^ max_attempts, NEW status \in Statuses,
             new = [tried EXCEPT !.status = status, !.wait = wait]
      PROVE  /\ new \in Delivery /\ new.attempts = count /\ new.status = status
             /\ new.event = row.event /\ new.endpoint = row.endpoint
  BY <1>1, <1>4 DEF Delivery
<1>5. \A status \in {"succeeded", "failed", "pending"} : status \in Statuses
  BY DEF Statuses
<1>6. CASE heard
  <2>1. new = [tried EXCEPT !.status = "succeeded", !.wait = 0]
    BY <1>3, <1>6
  <2>2. QED
    BY <1>2, <1>4, <1>5, <1>6, <2>1 DEF new
<1>7. CASE ~heard /\ count >= max_attempts
  <2>1. new = [tried EXCEPT !.status = "failed", !.wait = 0]
    BY <1>3, <1>7
  <2>2. QED
    BY <1>2, <1>4, <1>5, <1>7, <2>1 DEF new
<1>8. CASE ~heard /\ ~(count >= max_attempts)
  <2>1. new = [tried EXCEPT !.status = "pending", !.wait = delay]
    BY <1>3, <1>8
  <2>2. QED
    BY <1>2, <1>4, <1>5, <1>8, <2>1 DEF new
<1>9. QED
  BY <1>6, <1>7, <1>8

\* The row recorded is let go, and the next one of the batch is attempted.
LEMMA RecordInductive ==
  ASSUME IInv, NEW w \in Workers, record(w)
  PROVE  IInv'
<1> DEFINE rows == worker[w].rows
           rest == Tail(rows)
           id   == Head(rows).id
           n    == Len(rows)
           new  == Recorded(delivery[id], Head(rows).attempt_count + 1, worker[w].heard)
           wk1  == [worker[w] EXCEPT !.phase = "attempt"]
           wk2  == [wk1 EXCEPT !.rows = rest]
           wk3  == [wk2 EXCEPT !.busy = 0]
           wk   == IF rest = <<>> THEN Idle ELSE [wk3 EXCEPT !.heard = FALSE]
<1>1. /\ worker[w].phase = "record" /\ UNCHANGED <<endpoint, event, fan, seen, faults, edits>>
      /\ delivery' = IF Live(id) THEN [delivery EXCEPT ![id] = new] ELSE delivery
      /\ worker[w] \in Worker /\ rows \in Seq(DueRow) /\ n \in 1 .. CLAIM_BATCH
      /\ worker[w].ids = {}
  BY DEF record, IInv, TypeOK, Hands, Shape, Worker
<1>2. worker' = [worker EXCEPT ![w] = wk]
  BY DEF record, IInv, TypeOK
<1>3. /\ rest \in Seq(DueRow) /\ Len(rest) = n - 1 /\ Head(rows) = rows[1]
      /\ 1 \in 1 .. n /\ \A i \in 1 .. n - 1 : rest[i] = rows[i + 1] /\ i + 1 \in 1 .. n
      /\ rest = <<>> <=> n = 1
  <2> HIDE DEF rows
  <2>1. rows \in Seq(DueRow) /\ n \in Nat /\ n >= 1
    BY <1>1, Constants
  <2>2. rest \in Seq(DueRow) /\ Len(rest) = n - 1 /\ Head(rows) = rows[1]
    BY <2>1
  <2>3. \A i \in 1 .. n - 1 : rest[i] = rows[i + 1] /\ i + 1 \in 1 .. n
    BY <2>1
  <2> HIDE DEF rest
  <2>4. rest = <<>> <=> n = 1
    BY <2>1, <2>2
  <2>5. QED
    BY <2>1, <2>2, <2>3, <2>4
<1>4. id \in Ids /\ Holds(w, id) /\ Flying(w, id) /\ delivery[id] \in Delivery
  <2>1. id \in Ids /\ delivery[id] \in Delivery
    BY <1>3, RowTyped DEF IInv
  <2>2. Flying(w, id)
    BY <1>1 DEF Flying
  <2>3. QED
    BY <2>1, <2>2, FlyingHeld DEF IInv, Hands
<1>5. Live(id) =>
        /\ new \in Delivery /\ new.attempts = delivery[id].attempts + 1
        /\ new.event = delivery[id].event /\ new.endpoint = delivery[id].endpoint
        /\ delivery[id].status = "delivering"
        /\ new.status = IF worker[w].heard THEN "succeeded"
                        ELSE IF new.attempts >= max_attempts THEN "failed" ELSE "pending"
  <2> SUFFICES ASSUME Live(id)
               PROVE  /\ new \in Delivery /\ new.attempts = delivery[id].attempts + 1
                      /\ new.event = delivery[id].event /\ new.endpoint = delivery[id].endpoint
                      /\ delivery[id].status = "delivering"
                      /\ new.status = IF worker[w].heard THEN "succeeded"
                                      ELSE IF new.attempts >= max_attempts THEN "failed" ELSE "pending"
    OBVIOUS
  <2>1. Head(rows).attempt_count = delivery[id].attempts
    BY <1>3 DEF IInv, Hands, RowsCurrent
  <2>2. delivery[id].status = "delivering"
    BY <1>4 DEF IInv, Hands, HeldFresh, Live
  <2>3. delivery[id].attempts + 1 \in 1 .. max_attempts /\ worker[w].heard \in BOOLEAN
    <3>1. delivery[id].attempts \in Nat /\ delivery[id].attempts < max_attempts
      BY <1>4, <2>2 DEF IInv, Queue, Delivery
    <3>2. worker[w].heard \in BOOLEAN
      BY <1>1 DEF Worker
    <3>3. QED
      BY <3>1, <3>2, Constants
  <2>4. QED
    BY <1>4, <2>1, <2>2, <2>3, RecordedRow
<1> HIDE DEF new
<1>6. \A d \in Ids : delivery'[d] = IF d = id /\ Live(d) THEN new ELSE delivery[d]
  BY <1>1, <1>4 DEF IInv, TypeOK
<1>7. /\ wk \in Worker /\ wk.heard = FALSE
      /\ \/ wk = Idle
         \/ /\ wk.phase = "attempt" /\ wk.ids = {} /\ wk.rows = rest /\ wk.busy = 0
            /\ n - 1 \in 1 .. CLAIM_BATCH
  <2>1. CASE rest = <<>>
    BY <2>1, SampleRows
  <2>2. CASE rest # <<>>
    <3>1. wk1 \in Worker /\ wk1.phase = "attempt" /\ wk1.ids = {}
      BY <1>1 DEF Worker
    <3> HIDE DEF wk1
    <3>2. wk2 \in Worker /\ wk2.phase = "attempt" /\ wk2.ids = {} /\ wk2.rows = rest
      BY <1>3, <3>1 DEF Worker
    <3> HIDE DEF wk2
    <3>3. /\ wk3 \in Worker /\ wk3.phase = "attempt" /\ wk3.ids = {} /\ wk3.rows = rest
          /\ wk3.busy = 0
      <4>1. 0 \in 0 .. AttemptMax
        BY Constants
      <4>2. QED
        BY <3>2, <4>1 DEF Worker
    <3> HIDE DEF wk3
    <3>4. wk = [wk3 EXCEPT !.heard = FALSE]
      BY <2>2
    <3>5. n - 1 \in 1 .. CLAIM_BATCH
      BY <1>1, <1>3, <2>2, Constants
    <3> HIDE DEF wk
    <3>6. QED
      BY <3>3, <3>4, <3>5 DEF Worker
  <2>3. QED
    BY <2>1, <2>2
<1> HIDE DEF wk
<1>8. \A i \in 1 .. Len(wk.rows) :
        /\ i \in 1 .. n - 1 /\ i + 1 \in 1 .. n /\ wk.rows[i] = rows[i + 1]
        /\ rows[i + 1].id \in Ids /\ rows[i + 1].id # id /\ Holds(w, rows[i + 1].id)
  <2> SUFFICES ASSUME NEW i \in 1 .. Len(wk.rows)
               PROVE  /\ i \in 1 .. n - 1 /\ i + 1 \in 1 .. n /\ wk.rows[i] = rows[i + 1]
                      /\ rows[i + 1].id \in Ids /\ rows[i + 1].id # id /\ Holds(w, rows[i + 1].id)
    OBVIOUS
  <2>1. wk.rows = rest
    BY <1>7, SampleRows
  <2>2. i \in 1 .. n - 1 /\ i + 1 \in 1 .. n /\ wk.rows[i] = rows[i + 1] /\ i + 1 # 1
    BY <1>3, <2>1
  <2>3. rows[i + 1].id \in Ids
    BY <2>2, RowTyped DEF IInv
  <2>4. rows[i + 1].id # id
    BY <1>3, <2>2 DEF IInv, Hands, HeldOnce
  <2>5. Holds(w, rows[i + 1].id)
    BY <2>2 DEF Holds
  <2>6. QED
    BY <2>2, <2>3, <2>4, <2>5
<1> HIDE DEF id
<1>9. \A v \in Workers : worker'[v] = IF v = w THEN wk ELSE worker[v]
  BY <1>2 DEF IInv, TypeOK
<1>10. ASSUME NEW v \in Workers, NEW d \in Ids
       PROVE  Holds(v, d)' => Holds(v, d) /\ d # id
  <2>1. CASE v = w
    BY <1>7, <1>8, <1>9, <2>1, SampleRows DEF Holds
  <2>2. CASE v # w
    <3>1. Holds(v, d)' => Holds(v, d)
      BY <1>9, <2>2 DEF Holds
    <3>2. ~Holds(v, id)
      BY <1>4, <2>2 DEF IInv, Hands, HeldOnce
    <3>3. QED
      BY <3>1, <3>2
  <2>3. QED
    BY <2>1, <2>2
<1>11. Hands' /\ worker' \in [Workers -> Worker]
  <2> DEFINE spent == (CLAIM_BATCH - Len(wk.rows)) * AttemptMax + wk.busy
  <2>1. wk # Idle => Spent(w) <= spent /\ Spent(w) \in Nat /\ spent \in Nat
    <3> SUFFICES ASSUME wk # Idle PROVE Spent(w) <= spent /\ Spent(w) \in Nat /\ spent \in Nat
      OBVIOUS
    <3>1. spent = (CLAIM_BATCH - (n - 1)) * AttemptMax + 0
      BY <1>3, <1>7
    <3>2. Spent(w) = (CLAIM_BATCH - n) * AttemptMax + worker[w].busy
      BY <1>1 DEF Spent
    <3>3. worker[w].busy \in 0 .. AttemptMax /\ 0 \in 0 .. AttemptMax /\ n - 1 \in 1 .. CLAIM_BATCH
      BY <1>1, <1>7, Constants DEF Worker
    <3>4. /\ (CLAIM_BATCH - n) * AttemptMax + worker[w].busy <= (CLAIM_BATCH - (n - 1)) * AttemptMax
          /\ (CLAIM_BATCH - n) * AttemptMax + worker[w].busy \in Nat
          /\ (CLAIM_BATCH - (n - 1)) * AttemptMax + 0 \in Nat
      BY <1>1, <3>3, Share
    <3> DEFINE x == (CLAIM_BATCH - (n - 1)) * AttemptMax
               y == (CLAIM_BATCH - n) * AttemptMax + worker[w].busy
    <3>5. x \in Int
      <4> DEFINE k == CLAIM_BATCH - (n - 1)
      <4>1. k \in Nat
        BY <3>3, Constants
      <4> HIDE DEF k
      <4>2. k * AttemptMax \in Nat
        BY <4>1, Constants
      <4>3. QED
        BY <4>2 DEF k
    <3>6. spent = x + 0 /\ Spent(w) = y /\ y <= x /\ y \in Nat /\ x + 0 \in Nat
      BY <3>1, <3>2, <3>4
    <3> HIDE DEF x, y, spent
    <3>7. QED
      BY <3>5, <3>6
  <2>2. spent = (CLAIM_BATCH - Len(wk.rows)) * AttemptMax + wk.busy
    OBVIOUS
  <2> HIDE DEF spent
  <2>3. \A d \in Ids : Holds(w, d) /\ wk # Idle => delivery[d].age <= spent \/ ~Live(d)
    <3>1. \A d \in Ids : delivery[d].age \in Nat
      BY DEF IInv, TypeOK, Delivery
    <3>2. QED
      BY <2>1, <3>1 DEF IInv, Hands, HeldFresh
  <2>4. \A i, j \in 1 .. Len(wk.rows) : wk.rows[i].id = wk.rows[j].id => i = j
    <3>1. \A i, j \in 1 .. n : rows[i].id = rows[j].id => i = j
      BY DEF IInv, Hands, HeldOnce
    <3>2. SUFFICES ASSUME NEW i \in 1 .. Len(wk.rows), NEW j \in 1 .. Len(wk.rows),
                          wk.rows[i].id = wk.rows[j].id
                   PROVE  i = j
      OBVIOUS
    <3>3. rows[i + 1].id = rows[j + 1].id /\ i + 1 \in 1 .. n /\ j + 1 \in 1 .. n
      BY <1>8, <3>2
    <3>4. i + 1 = j + 1 /\ i \in Int /\ j \in Int
      BY <3>1, <3>3
    <3>5. QED
      BY <3>4
  <2>5. ASSUME NEW i \in 1 .. Len(wk.rows)
        PROVE  LET r == wk.rows[i]
                   q == delivery[r.id].endpoint IN
               /\ Holds(w, r.id)
               /\ Live(r.id) => /\ r.attempt_count = delivery[r.id].attempts
                                /\ r.conf # endpoint[q].conf => endpoint[q].confAge <= spent
    <3> DEFINE r == rows[i + 1]
               q == delivery[r.id].endpoint
    <3>1. i + 1 \in 1 .. n /\ wk.rows[i] = r /\ Holds(w, r.id) /\ wk # Idle
      BY <1>8, SampleRows
    <3>2. Live(r.id) => /\ r.attempt_count = delivery[r.id].attempts
                        /\ r.conf # endpoint[q].conf => endpoint[q].confAge <= Spent(w)
      BY <3>1 DEF IInv, Hands, RowsCurrent
    <3>3. Live(r.id) => endpoint[q].confAge \in Nat
      BY <3>1, RowTyped DEF IInv, TypeOK, Endpoint
    <3> HIDE DEF q
    <3>4. Live(r.id) => (r.conf # endpoint[q].conf => endpoint[q].confAge <= spent)
      BY <2>1, <3>1, <3>2, <3>3
    <3>5. QED
      BY <3>1, <3>2, <3>4 DEF q
  <2>6. wk.phase = "idle" => wk = Idle
    BY <1>7
  <2>7. wk.phase # "read"
    BY <1>7, SampleRows
  <2>8. wk.phase \in {"attempt", "record"} => wk.ids = {} /\ Len(wk.rows) \in 1 .. CLAIM_BATCH
    BY <1>3, <1>7, SampleRows
  <2>13. wk.heard => wk.phase = "record"
    BY <1>7
  <2>9. \A v \in Workers, d \in Ids : Holds(v, d)' => delivery'[d] = delivery[d]
    BY <1>6, <1>10
  <2>10. \A i \in 1 .. Len(wk.rows) :
          LET r == wk.rows[i]
              q == delivery[r.id].endpoint IN
          /\ Holds(w, r.id)
          /\ Live(r.id) => /\ r.attempt_count = delivery[r.id].attempts
                           /\ r.conf # endpoint[q].conf => endpoint[q].confAge <= spent
    BY <2>5
  <2>11. wk \in Worker
    BY <1>7
  <2>12. UNCHANGED endpoint
    BY <1>1
  <2>14. QED
    BY <1>2, <2>2, <2>3, <2>4, <2>6, <2>7, <2>8, <2>9, <2>10, <2>11, <2>12, <2>13, WorkerMoves, ZenonT(60)
<1>12. TypeOK'
  BY <1>1, <1>5, <1>11 DEF IInv, TypeOK
<1>13. /\ \A d \in Ids : delivery'[d].status = "none" <=> delivery[d].status = "none"
       /\ \A d \in Ids : Live(d)' <=> Live(d)
       /\ \A d \in Ids : /\ delivery'[d].event = delivery[d].event
                         /\ delivery'[d].endpoint = delivery[d].endpoint
  BY <1>5, <1>6 DEF Live
<1>14. Queue'
  <2>1. \A d \in Ids : delivery'[d].status \in {"pending", "delivering"} =>
                         delivery'[d].attempts < max_attempts
    <3>1. Live(id) /\ new.status = "pending" => new.attempts < max_attempts
      BY <1>5, Constants DEF Delivery
    <3>2. QED
      BY <1>5, <1>6, <3>1 DEF IInv, Queue
  <2>2. QED
    BY <1>13, <2>1 DEF IInv, Queue
<1>15. Configs' /\ Fans'
  <2>1. Fans'
    BY <1>1, <1>13, FansStay DEF IInv
  <2>2. QED
    BY <1>1, <2>1 DEF IInv, Configs
<1>16. Counts'
  <2>1. ASSUME NEW d \in Ids
        PROVE  /\ seen[d].tries \in Nat /\ seen[d].acks \in Nat
               /\ seen[d].lost \in Nat /\ seen[d].blind \in Nat /\ delivery[d].attempts \in Nat
               /\ seen'[d] = seen[d]
               /\ \A v \in Workers : Flying(v, d) => Holds(v, d)
               /\ \A v \in Workers : Holds(w, d) /\ Holds(v, d) => v = w
               /\ Flying(w, d) <=> d = id
               /\ \A v \in Workers : Flying(v, d)' <=> Flying(v, d) /\ v # w
    <3>1. /\ seen[d].tries \in Nat /\ seen[d].acks \in Nat
          /\ seen[d].lost \in Nat /\ seen[d].blind \in Nat /\ delivery[d].attempts \in Nat
          /\ seen'[d] = seen[d]
      BY <1>1 DEF IInv, TypeOK, Sent, Delivery
    <3>2. Flying(w, d) <=> d = id
      BY <1>1 DEF Flying, id
    <3>3. \A v \in Workers : Flying(v, d)' <=> Flying(v, d) /\ v # w
      BY <1>7, <1>9, SampleRows DEF Flying
    <3>4. QED
      BY <3>1, <3>2, <3>3, FlyingHeld DEF IInv, Hands, HeldOnce
  <2>2. ASSUME NEW d \in Ids, d # id PROVE TriesAgree(d)' /\ AnswersAgree(d)'
    <3>1. delivery'[d] = delivery[d] /\ \A v \in Workers : Flying(v, d)' <=> Flying(v, d)
      BY <1>6, <2>1, <2>2
    <3>2. TriesAgree(d)'
      BY <2>1, <3>1 DEF IInv, Counts, TriesAgree, Live
    <3>3. \A v \in Workers : Holds(v, d)' => Holds(v, d)
      BY <1>10
    <3>4. \A v \in Workers : v # w => (Holds(v, d)' <=> Holds(v, d)) /\ worker'[v] = worker[v]
      BY <1>9 DEF Holds
    <3>5. ~Flying(w, d) /\ ~Flying(w, d)'
      BY <2>1, <2>2
    <3>6. ASSUME NEW v \in Workers, Holds(v, d)'
          PROVE  IF Flying(v, d)' /\ worker'[v].heard THEN seen'[d].acks = seen'[d].blind + 1
                                                      ELSE seen'[d].acks = seen'[d].blind
      <4>1. CASE v = w
        BY <2>1, <3>3, <3>5, <3>6, <4>1 DEF IInv, Counts, AnswersAgree
      <4>2. CASE v # w
        BY <2>1, <3>1, <3>3, <3>4, <3>6, <4>2 DEF IInv, Counts, AnswersAgree
      <4>3. QED
        BY <4>1, <4>2
    <3>7. ASSUME \A v \in Workers : ~Holds(v, d)'
          PROVE  IF delivery'[d].status \in {"succeeded", "gone"}
                   THEN seen'[d].acks <= seen'[d].blind + 1
                   ELSE seen'[d].acks = seen'[d].blind
      <4>1. CASE Holds(w, d)
        BY <2>1, <3>5, <4>1 DEF IInv, Counts, AnswersAgree
      <4>2. CASE ~Holds(w, d)
        BY <2>1, <3>1, <3>4, <3>7, <4>2 DEF IInv, Counts, AnswersAgree
      <4>3. QED
        BY <4>1, <4>2
    <3>8. QED
      BY <3>2, <3>6, <3>7 DEF AnswersAgree
  <2>3. ASSUME NEW d \in Ids, d = id PROVE TriesAgree(d)' /\ AnswersAgree(d)'
    <3>1. \A v \in Workers : ~Flying(v, d)' /\ ~Holds(v, d)'
      BY <2>3, <1>4, <1>10, <2>1
    <3>2. seen[d].tries = delivery[d].attempts + seen[d].lost + 1 \/ ~Live(d)
      BY <2>3, <1>4 DEF IInv, Counts, TriesAgree
    <3>3. TriesAgree(d)'
      BY <2>3, <1>4, <1>5, <1>6, <1>13, <2>1, <3>1, <3>2 DEF TriesAgree, Live
    <3>4. IF worker[w].heard THEN seen[d].acks = seen[d].blind + 1
                             ELSE seen[d].acks = seen[d].blind
      BY <2>3, <1>4 DEF IInv, Counts, AnswersAgree
    <3>5. ~Live(d) => delivery'[d].status = "gone"
      BY <2>3, <1>4, <1>6 DEF IInv, Hands, HeldFresh, Live
    <3>6. IF delivery'[d].status \in {"succeeded", "gone"}
            THEN seen'[d].acks <= seen'[d].blind + 1
            ELSE seen'[d].acks = seen'[d].blind
      BY <2>3, <1>4, <1>5, <1>6, <2>1, <3>4, <3>5
    <3>7. QED
      BY <3>1, <3>3, <3>6 DEF AnswersAgree
  <2>4. ASSUME NEW d \in Ids, delivery'[d].status = "none"
        PROVE  seen'[d] = [tries |-> 0, acks |-> 0, lost |-> 0, blind |-> 0]
    BY <1>13, <2>1, <2>4 DEF IInv, Counts
  <2>5. \A d \in Ids : TriesAgree(d)' /\ AnswersAgree(d)'
    BY <2>2, <2>3
  <2>6. QED
    BY <2>4, <2>5 DEF Counts
<1>17. QED
  BY <1>11, <1>12, <1>14, <1>15, <1>16 DEF IInv

-----------------------------------------------------------------------------
(* The tick: rows, batches and configurations age together.                 *)

\* A queued row ages by a tick at most, and keeps everything else it is.
LEMMA ElapsedRow ==
  ASSUME NEW row \in Delivery
  PROVE  LET new == Elapsed(row) IN
         /\ new \in Delivery /\ new.status = row.status /\ new.attempts = row.attempts
         /\ new.event = row.event /\ new.endpoint = row.endpoint /\ new.age <= row.age + 1
<1> DEFINE B    == base_delay * 2 ^ max_attempts
           wait == IF row.wait = 0 THEN 0 ELSE row.wait - 1
           age  == IF row.status = "delivering" THEN Smaller(row.age + 1, Old) ELSE 0
           one  == [row EXCEPT !.wait = wait]
           new  == Elapsed(row)
<1>1. wait \in 0 .. B
  <2>1. row.wait \in 0 .. B
    BY DEF Delivery
  <2> DEFINE b == 2 ^ max_attempts
  <2>2. max_attempts \in 0 .. 7 /\ max_attempts <= max_attempts
    BY Constants
  <2>3. b \in Nat
    BY <2>2, Powers, Zenon
  <2> HIDE DEF b
  <2>4. base_delay * b \in Nat
    BY <2>3, Constants
  <2>5. B \in Nat
    BY <2>4 DEF b
  <2> HIDE DEF B
  <2>6. QED
    BY <2>1, <2>5
<1>2. age \in 0 .. Old /\ age <= row.age + 1
  <2>1. row.age \in 0 .. Old
    BY DEF Delivery
  <2>2. QED
    BY <2>1, Constants DEF Smaller
<1>3. new = [one EXCEPT !.age = age]
  BY DEF Elapsed
<1> HIDE DEF wait, age, new
<1>4. /\ one \in Delivery /\ one.status = row.status /\ one.attempts = row.attempts
      /\ one.event = row.event /\ one.endpoint = row.endpoint
  BY <1>1 DEF Delivery
<1> HIDE DEF one
<1>5. /\ new \in Delivery /\ new.status = one.status /\ new.attempts = one.attempts
      /\ new.event = one.event /\ new.endpoint = one.endpoint /\ new.age = age
  BY <1>2, <1>3, <1>4 DEF Delivery
<1>6. QED
  BY <1>2, <1>4, <1>5 DEF new

\* A tick passes only while every attempt in flight has time left, and all that
\* is measured against a batch ages no faster than the batch.
LEMMA TickInductive ==
  ASSUME IInv, tick
  PROVE  IInv'
<1>1. /\ UNCHANGED <<event, fan, seen, faults, edits>>
      /\ \A w \in Workers : worker[w].phase # "idle" => worker[w].busy < AttemptMax
  BY DEF tick
<1>2. /\ delivery' \in [Ids -> Delivery]
      /\ \A d \in Ids : /\ delivery'[d].status = delivery[d].status
                        /\ delivery'[d].attempts = delivery[d].attempts
                        /\ delivery'[d].event = delivery[d].event
                        /\ delivery'[d].endpoint = delivery[d].endpoint
                        /\ delivery'[d].age <= delivery[d].age + 1
                        /\ delivery[d].age \in Nat /\ delivery'[d].age \in Nat
  <2> DEFINE aged == [d \in Ids |-> IF delivery[d].status \in {"pending", "delivering"}
                                    THEN Elapsed(delivery[d]) ELSE delivery[d]]
  <2>1. delivery' = aged
    BY DEF tick
  <2>2. ASSUME NEW d \in Ids
        PROVE  /\ aged[d] \in Delivery /\ aged[d].status = delivery[d].status
               /\ aged[d].attempts = delivery[d].attempts
               /\ aged[d].event = delivery[d].event
               /\ aged[d].endpoint = delivery[d].endpoint
               /\ aged[d].age <= delivery[d].age + 1
               /\ delivery[d].age \in Nat /\ aged[d].age \in Nat
    <3>1. delivery[d] \in Delivery /\ delivery[d].age \in 0 .. Old
      BY DEF IInv, TypeOK, Delivery
    <3>2. aged[d] \in Delivery => aged[d].age \in 0 .. Old
      BY DEF Delivery
    <3>3. QED
      BY <3>1, <3>2, ElapsedRow, Constants
  <2>3. QED
    BY <2>1, <2>2
<1>3. /\ endpoint' \in [Endpoints -> Endpoint]
      /\ \A p \in Endpoints : /\ endpoint'[p].exists = endpoint[p].exists
                              /\ endpoint'[p].used = endpoint[p].used
                              /\ endpoint'[p].conf = endpoint[p].conf
                              /\ endpoint'[p].confAge <= endpoint[p].confAge + 1
                              /\ endpoint[p].confAge = Old => endpoint'[p].confAge = Old
                              /\ endpoint[p].confAge \in Nat /\ endpoint'[p].confAge \in Nat
  <2> DEFINE aged == [p \in Endpoints |-> [endpoint[p] EXCEPT !.confAge = Smaller(@ + 1, Old)]]
  <2>1. endpoint' = aged
    BY DEF tick
  <2>2. ASSUME NEW p \in Endpoints
        PROVE  /\ aged[p] \in Endpoint /\ aged[p].exists = endpoint[p].exists
               /\ aged[p].used = endpoint[p].used /\ aged[p].conf = endpoint[p].conf
               /\ aged[p].confAge <= endpoint[p].confAge + 1
               /\ endpoint[p].confAge = Old => aged[p].confAge = Old
               /\ endpoint[p].confAge \in Nat /\ aged[p].confAge \in Nat
    <3> DEFINE age == Smaller(endpoint[p].confAge + 1, Old)
    <3>1. endpoint[p] \in Endpoint /\ endpoint[p].confAge \in 0 .. Old
      BY DEF IInv, TypeOK, Endpoint
    <3>2. /\ age \in 0 .. Old /\ age <= endpoint[p].confAge + 1
          /\ endpoint[p].confAge = Old => age = Old
      BY <3>1, Constants DEF Smaller
    <3> HIDE DEF age
    <3>3. aged[p] = [endpoint[p] EXCEPT !.confAge = age]
      BY DEF age
    <3> HIDE DEF aged
    <3>4. QED
      BY <3>1, <3>2, <3>3, Constants DEF Endpoint
  <2>3. QED
    BY <2>1, <2>2
<1>4. /\ worker' \in [Workers -> Worker]
      /\ \A w \in Workers : /\ worker'[w].phase = worker[w].phase
                            /\ worker'[w].ids = worker[w].ids
                            /\ worker'[w].rows = worker[w].rows
                            /\ worker'[w].heard = worker[w].heard
                            /\ worker[w].phase = "idle" => worker'[w] = Idle
                            /\ worker[w].phase # "idle" => worker'[w].busy = worker[w].busy + 1
  <2> DEFINE aged == [w \in Workers |->
         IF worker[w].phase = "idle" THEN Idle ELSE [worker[w] EXCEPT !.busy = @ + 1]]
  <2>1. worker' = aged
    BY DEF tick
  <2>2. ASSUME NEW w \in Workers
        PROVE  /\ aged[w] \in Worker /\ aged[w].phase = worker[w].phase
               /\ aged[w].ids = worker[w].ids /\ aged[w].rows = worker[w].rows
               /\ aged[w].heard = worker[w].heard
               /\ worker[w].phase = "idle" => aged[w] = Idle
               /\ worker[w].phase # "idle" => aged[w].busy = worker[w].busy + 1
    <3>1. CASE worker[w].phase = "idle"
      <4>1. worker[w] = Idle /\ aged[w] = Idle
        BY <3>1 DEF IInv, Hands, Shape
      <4>2. QED
        BY <3>1, <4>1, SampleRows
    <3>2. CASE worker[w].phase # "idle"
      <4> DEFINE busy == worker[w].busy + 1
      <4>1. worker[w] \in Worker /\ worker[w].busy \in 0 .. AttemptMax /\ worker[w].busy < AttemptMax
        BY <1>1, <3>2 DEF IInv, TypeOK, Worker
      <4>2. busy \in 0 .. AttemptMax
        BY <4>1, Raised, Constants
      <4>3. aged[w] = [worker[w] EXCEPT !.busy = busy]
        BY <3>2
      <4> HIDE DEF aged, busy
      <4>4. QED
        BY <3>2, <4>1, <4>2, <4>3 DEF Worker, busy
    <3>3. QED
      BY <3>1, <3>2
  <2>3. QED
    BY <2>1, <2>2
<1>5. TypeOK'
  BY <1>1, <1>2, <1>3, <1>4 DEF IInv, TypeOK
<1>6. Queue'
  BY <1>2 DEF IInv, Queue
<1>7. Configs'
  BY <1>1, <1>3 DEF IInv, Configs
<1>8. Fans'
  <2>1. \A d \in Ids : Live(d)' <=> Live(d)
    BY <1>2 DEF Live
  <2>2. QED
    BY <1>1, <1>2, <1>3, <2>1, FansStay DEF IInv, TypeOK, Delivery
<1>9. \A w \in Workers, d \in Ids : (Holds(w, d)' <=> Holds(w, d)) /\ (Flying(w, d)' <=> Flying(w, d))
  BY <1>4 DEF Holds, Flying
<1>10. Shape' /\ HeldOnce'
  <2>1. Shape'
    BY <1>4 DEF IInv, Hands, Shape
  <2>2. HeldOnce'
    BY <1>4, <1>9 DEF IInv, Hands, HeldOnce
  <2>3. QED
    BY <2>1, <2>2
<1>11. ASSUME NEW w \in Workers, worker[w].phase # "idle"
       PROVE  Spent(w)' = Spent(w) + 1 /\ Spent(w) \in Nat
  <2>1. Spent(w) \in Nat /\ worker[w].busy \in 0 .. AttemptMax
    BY <1>11, SpentNat DEF IInv, Hands, TypeOK, Worker
  <2>2. CASE worker[w].phase = "read"
    BY <1>4, <2>1, <2>2 DEF Spent
  <2>3. CASE worker[w].phase # "read"
    <3> DEFINE past == (CLAIM_BATCH - Len(worker[w].rows)) * AttemptMax
    <3>1. past \in Int
      <4> DEFINE k == CLAIM_BATCH - Len(worker[w].rows)
      <4>1. worker[w].phase \in {"attempt", "record"}
        BY <1>11, <2>3 DEF IInv, TypeOK, Worker
      <4>2. k \in Nat
        BY <4>1, Constants DEF IInv, Hands, Shape
      <4> HIDE DEF k
      <4>3. k * AttemptMax \in Nat
        BY <4>2, Constants
      <4>4. QED
        BY <4>3 DEF k
    <3>2. Spent(w) = past + worker[w].busy
      BY <2>3 DEF Spent
    <3>3. Spent(w)' = past + (worker[w].busy + 1)
      BY <1>4, <1>11, <2>3 DEF Spent
    <3> HIDE DEF past
    <3>4. QED
      BY <2>1, <3>1, <3>2, <3>3
  <2>4. QED
    BY <2>2, <2>3
<1>12. HeldFresh'
  <2>1. ASSUME NEW w \in Workers, NEW d \in Ids, Holds(w, d)'
        PROVE  /\ delivery'[d].status \in {"delivering", "gone"}
               /\ Live(d)' => delivery'[d].age <= Spent(w)'
    <3>1. Holds(w, d) /\ worker[w].phase # "idle"
      BY <1>9, <2>1, SampleRows DEF IInv, Hands, Shape, Holds
    <3>2. /\ delivery[d].status \in {"delivering", "gone"}
          /\ Live(d) => delivery[d].age <= Spent(w)
      BY <3>1 DEF IInv, Hands, HeldFresh
    <3>3. Live(d)' <=> Live(d)
      BY <1>2 DEF Live
    <3>4. QED
      BY <1>2, <1>11, <3>1, <3>2, <3>3
  <2>2. QED
    BY <2>1 DEF HeldFresh
<1>13. RowsCurrent'
  <2>1. ASSUME NEW w \in Workers, NEW i \in 1 .. Len(worker'[w].rows)
        PROVE  LET row == worker'[w].rows[i]
                   p   == delivery'[row.id].endpoint IN
               (delivery'[row.id].status \notin {"none", "gone"}) =>
                 /\ row.attempt_count = delivery'[row.id].attempts
                 /\ row.conf # endpoint'[p].conf => endpoint'[p].confAge <= Spent(w)'
    <3> DEFINE row == worker[w].rows[i]
               p   == delivery[row.id].endpoint
               live == delivery[row.id].status \notin {"none", "gone"}
    <3>1. i \in 1 .. Len(worker[w].rows) /\ worker'[w].rows[i] = row
      BY <1>4
    <3>2. row.id \in Ids /\ p \in Endpoints
      BY <3>1, RowTyped DEF IInv
    <3>3. worker[w].phase # "idle"
      BY <3>1, RowsHeldAtWork DEF IInv, Hands
    <3>4. live => /\ row.attempt_count = delivery[row.id].attempts
                  /\ row.conf # endpoint[p].conf => endpoint[p].confAge <= Spent(w)
      BY <3>1 DEF IInv, Hands, RowsCurrent, Live
    <3>5. /\ delivery'[row.id].status = delivery[row.id].status
          /\ delivery'[row.id].attempts = delivery[row.id].attempts
          /\ delivery'[row.id].endpoint = p
      BY <1>2, <3>2
    <3>6. Spent(w)' = Spent(w) + 1 /\ Spent(w) \in Nat
      BY <1>11, <3>3
    <3> HIDE DEF p
    <3>7. /\ endpoint'[p].conf = endpoint[p].conf
          /\ endpoint[p].confAge <= Spent(w) => endpoint'[p].confAge <= Spent(w)'
      BY <1>3, <3>2, <3>6
    <3> HIDE DEF row
    <3>8. QED
      BY <3>1, <3>4, <3>5, <3>7
  <2>2. QED
    BY <2>1 DEF RowsCurrent, Live
<1>14. Counts'
  <2>1. ASSUME NEW d \in Ids
        PROVE  /\ seen'[d] = seen[d] /\ delivery'[d].status = delivery[d].status
               /\ delivery'[d].attempts = delivery[d].attempts
               /\ \A w \in Workers : (Holds(w, d)' <=> Holds(w, d)) /\ (Flying(w, d)' <=> Flying(w, d))
               /\ \A w \in Workers : worker'[w].heard = worker[w].heard
    BY <1>1, <1>2, <1>4, <1>9
  <2>2. ASSUME NEW d \in Ids PROVE TriesAgree(d)'
    BY <2>1 DEF IInv, Counts, TriesAgree, Live
  <2>3. ASSUME NEW d \in Ids PROVE AnswersAgree(d)'
    BY <2>1 DEF IInv, Counts, AnswersAgree
  <2>4. QED
    BY <2>1, <2>2, <2>3 DEF IInv, Counts
<1>15. QED
  BY <1>5, <1>6, <1>7, <1>8, <1>10, <1>12, <1>13, <1>14 DEF IInv, Hands

-----------------------------------------------------------------------------
(* The invariant.                                                           *)

LEMMA NextInductive ==
  ASSUME IInv, [Next]_vars
  PROVE  IInv'
<1>1. ASSUME NEW p \in Endpoints,
             \/ endpoints_store(p) \/ endpoints_update(p) \/ endpoints_destroy(p)
             \/ endpoints_pause(p) \/ endpoints_resume(p) \/ endpoints_rotate_secret(p)
      PROVE  IInv'
  BY <1>1, StoreInductive, UpdateInductive, PauseInductive, DestroyInductive
<1>2. ASSUME NEW e \in Events,
             \/ emit_event(e) \/ events_replay(e) \/ \E p \in Endpoints : endpoints_test_send(e, p)
             \/ fan_out_read(e) \/ fan_out_create(e) \/ fan_out_fails(e)
      PROVE  IInv'
  <2>1. CASE emit_event(e) \/ events_replay(e)
    BY <2>1, EmitInductive
  <2>2. CASE \E p \in Endpoints : endpoints_test_send(e, p)
    BY <2>2, TestSendInductive
  <2>3. CASE fan_out_read(e)
    BY <2>3, FanReadInductive
  <2>4. CASE fan_out_create(e)
    BY <2>4, FanCreateInductive
  <2>5. CASE fan_out_fails(e)
    BY <2>5, FanFailsInductive
  <2>6. QED
    BY <1>2, <2>1, <2>2, <2>3, <2>4, <2>5
<1>3. ASSUME NEW d \in Ids, deliveries_replay(d) PROVE IInv'
  BY <1>3, ReplayInductive
<1>4. ASSUME NEW w \in Workers, run_tick(w) \/ worker_stops(w) PROVE IInv'
  BY <1>4, ReapInductive, ReadInductive, AttemptInductive, RecordInductive, StopInductive
     DEF run_tick
<1>5. CASE tick
  BY <1>5, TickInductive
<1>6. CASE UNCHANGED vars
  <2>1. UNCHANGED <<endpoint, event, delivery, fan, worker, seen, faults, edits>>
    BY <1>6 DEF vars
  <2>2. Hands'
    BY <2>1, HandsStay DEF IInv
  <2>3. Queue' /\ Counts'
    BY <2>1, QueueStays, CountsStay DEF IInv
  <2>4. TypeOK' /\ Configs' /\ Fans'
    BY <2>1 DEF IInv, TypeOK, Configs, Fans, FannedOut, Live
  <2>5. QED
    BY <2>2, <2>3, <2>4 DEF IInv
<1>7. QED
  BY <1>1, <1>2, <1>3, <1>4, <1>5, <1>6 DEF Next

THEOREM Invariance == Spec => []IInv
BY InitInductive, NextInductive, PTL DEF Spec

-----------------------------------------------------------------------------
(* What follows from it.                                                    *)

\* Endpoints, rows, batches and the receivers' view keep their types: attempt
\* counts stay within the profile, delays within its last one, batches within
\* the rows there are.
THEOREM TypeCorrect == Spec => []TypeOK
<1>1. IInv => TypeOK
  BY DEF IInv
<1>2. QED
  BY <1>1, Invariance, PTL

\* No recording overwrites another's count: a delivery's attempts, those lost
\* with a worker and the one in flight are all that was sent for it.
THEOREM TriesAreCounted == Spec => []EveryTryCounted
<1>1. ASSUME IInv, NEW d \in Ids, Live(d)
      PROVE  seen[d].tries = delivery[d].attempts + seen[d].lost + Cardinality(InFlight(d))
  <2>1. delivery[d].attempts \in Nat /\ seen[d].lost \in Nat
    BY <1>1 DEF IInv, TypeOK, Delivery, Sent
  <2>2. TriesAgree(d)
    BY <1>1 DEF IInv, Counts
  <2>3. CASE \A w \in Workers : ~Flying(w, d)
    <3>1. InFlight(d) = {}
      BY <2>3 DEF InFlight, Flying
    <3>2. Cardinality(InFlight(d)) = 0
      BY <3>1, FS_EmptySet
    <3>3. QED
      BY <1>1, <2>1, <2>2, <2>3, <3>2 DEF TriesAgree
  <2>4. ASSUME NEW w \in Workers, Flying(w, d)
        PROVE  seen[d].tries = delivery[d].attempts + seen[d].lost + Cardinality(InFlight(d))
    <3>1. \A v \in Workers : Flying(v, d) => v = w
      BY <1>1, <2>4, FlyingHeld DEF IInv, Hands, HeldOnce
    <3>2. InFlight(d) = {w}
      BY <2>4, <3>1 DEF InFlight, Flying
    <3>3. Cardinality(InFlight(d)) = 1
      BY <3>2, FS_Singleton
    <3>4. QED
      BY <1>1, <2>1, <2>2, <2>4, <3>3 DEF TriesAgree
  <2>5. QED
    BY <2>3, <2>4
<1>2. IInv => EveryTryCounted
  BY <1>1 DEF EveryTryCounted
<1>3. QED
  BY <1>2, Invariance, PTL

\* Accepted deliveries are not sent again: the one extra acceptance is an answer
\* that was heard and recorded, or is about to be.
THEOREM NoSecondAcceptance == Spec => []AcceptedOnce
<1>1. ASSUME IInv, NEW d \in Ids PROVE seen[d].acks <= seen[d].blind + 1
  <2>1. seen[d].acks \in Nat /\ seen[d].blind \in Nat
    BY <1>1 DEF IInv, TypeOK, Sent
  <2>2. QED
    BY <1>1, <2>1 DEF IInv, Counts, AnswersAgree
<1>2. IInv => AcceptedOnce
  BY <1>1 DEF AcceptedOnce
<1>3. QED
  BY <1>2, Invariance, PTL

\* Every subscribed endpoint gets its row.
THEOREM FanOutIsComplete == Spec => []FannedOut
<1>1. IInv => FannedOut
  BY DEF IInv, Fans
<1>2. QED
  BY <1>1, Invariance, PTL

\* A worker uses what it read of an endpoint for one batch at most.
THEOREM SecretsRetire == Spec => []OldSecretRetired
<1>1. ASSUME IInv, NEW w \in Workers, NEW i \in 1 .. Len(worker[w].rows)
      PROVE  LET row == worker[w].rows[i]
                 p   == delivery[row.id].endpoint IN
             (Live(row.id) /\ row.conf # endpoint[p].conf) =>
               endpoint[p].confAge <= CLAIM_BATCH * AttemptMax
  <2> DEFINE row == worker[w].rows[i]
             p   == delivery[row.id].endpoint
             most == CLAIM_BATCH * AttemptMax
  <2>1. p \in Endpoints /\ endpoint[p].confAge \in Nat
    BY <1>1, RowTyped, Constants DEF IInv, TypeOK, Endpoint
  <2>2. worker[w].phase \in {"attempt", "record"} /\ worker[w].busy \in 0 .. AttemptMax
    BY <1>1, RowsHeldAtWork DEF IInv, Hands, TypeOK, Worker
  <2>3. Len(worker[w].rows) \in 1 .. CLAIM_BATCH
    BY <1>1, <2>2 DEF IInv, Hands, Shape
  <2>4. Spent(w) <= most /\ Spent(w) \in Nat
    BY <2>2, <2>3, Share DEF Spent
  <2>5. most \in Nat
    BY Constants
  <2> HIDE DEF most, p
  <2>6. (Live(row.id) /\ row.conf # endpoint[p].conf) => endpoint[p].confAge <= Spent(w)
    BY <1>1 DEF IInv, Hands, RowsCurrent, p
  <2>7. (Live(row.id) /\ row.conf # endpoint[p].conf) => endpoint[p].confAge <= most
    BY <2>1, <2>4, <2>5, <2>6
  <2>8. QED
    BY <2>7 DEF most, p
<1>2. ASSUME IInv, NEW w \in Workers PROVE DOMAIN worker[w].rows = 1 .. Len(worker[w].rows)
  BY <1>2 DEF IInv, TypeOK, Worker
<1>3. IInv => OldSecretRetired
  BY <1>1, <1>2 DEF OldSecretRetired
<1>4. QED
  BY <1>3, Invariance, PTL

-----------------------------------------------------------------------------
(* WebhookDelivery implements DeliveryPromise.                              *)

LEMMA RefinesInit == Init => Promise!Init
<1> SUFFICES ASSUME Init PROVE Promise!Init
  OBVIOUS
<1>1. \A d \in Ids : Outcome(d) = "none" /\ seen[d].tries = 0 /\ (seen[d].acks > 0) = FALSE
  BY SampleRows DEF Init, Outcome
<1>2. QED
  BY <1>1 DEF Promise!Init

\* A step that leaves every outcome and the receivers' view alone.
LEMMA Unseen ==
  ASSUME UNCHANGED seen, \A d \in Ids : Outcome(d)' = Outcome(d)
  PROVE  UNCHANGED Promise!vars
BY DEF Promise!vars

LEMMA QueueUntouched ==
  ASSUME UNCHANGED <<delivery, seen>>
  PROVE  UNCHANGED Promise!vars
BY Unseen DEF Outcome

\* A row created is a delivery promised.
LEMMA RefinesCreate ==
  ASSUME IInv, NEW e \in Events, NEW p \in Endpoints, NextId \in Ids, create_delivery(e, p),
         UNCHANGED seen
  PROVE  Promise!Next
<1> DEFINE row == [NoRow EXCEPT !.status = "pending", !.event = e, !.endpoint = p]
<1>1. PICK id \in Ids : id = NextId /\ delivery[id].status = "none"
  BY NextIdIsFree DEF IInv, Queue
<1>2. delivery' = [delivery EXCEPT ![id] = row] /\ row.status = "pending"
  BY <1>1, SampleRows DEF create_delivery, Delivery
<1> HIDE DEF row
<1>3. \A d \in Ids : delivery'[d] = IF d = id THEN row ELSE delivery[d]
  BY <1>2 DEF IInv, TypeOK
<1>4. Outcome(id) = "none" /\ Outcome(id)' = "queued"
  BY <1>1, <1>2, <1>3 DEF Outcome
<1>5. \A d \in Ids : d # id => Outcome(d)' = Outcome(d)
  BY <1>3 DEF Outcome
<1>6. Promise!Enqueue(id)
  BY <1>4, <1>5 DEF Promise!Enqueue
<1>7. QED
  BY <1>6 DEF Promise!Next

\* A POST, heard or not, is a try of a row still queued or of one removed.
LEMMA RefinesAttempt ==
  ASSUME IInv, NEW w \in Workers, attempt_delivery(w)
  PROVE  Promise!Next
<1>1. worker[w].phase = "attempt" /\ UNCHANGED delivery
  BY DEF attempt_delivery
<1>2. PICK id \in Ids, answer \in {"refused", "2xx", "unheard", "other"} :
        /\ id = Head(worker[w].rows).id /\ Holds(w, id)
        /\ seen' = [seen EXCEPT ![id] = Answered(@, answer)]
  <2>1. Len(worker[w].rows) \in 1 .. CLAIM_BATCH
    BY <1>1 DEF IInv, Hands, Shape
  <2>2. 1 \in 1 .. Len(worker[w].rows) /\ Head(worker[w].rows) = worker[w].rows[1]
    BY <2>1, RowTyped, Constants DEF IInv
  <2>3. Head(worker[w].rows).id \in Ids /\ Holds(w, Head(worker[w].rows).id)
    BY <2>2, RowTyped DEF IInv, Holds
  <2>4. QED
    BY <2>3 DEF attempt_delivery
<1> DEFINE now == Answered(seen[id], answer)
<1>3. /\ now.tries = seen[id].tries + 1
      /\ (now.acks > 0) = ((seen[id].acks > 0) \/ answer \in {"2xx", "unheard"})
  <2> DEFINE a == IF answer \in {"2xx", "unheard"} THEN seen[id].acks + 1 ELSE seen[id].acks
             b == IF answer = "unheard" THEN seen[id].blind + 1 ELSE seen[id].blind
  <2>1. seen[id] \in Sent /\ seen[id].acks \in Nat
    BY DEF IInv, TypeOK, Sent
  <2>2. (a > 0) = ((seen[id].acks > 0) \/ answer \in {"2xx", "unheard"})
    BY <2>1
  <2>3. now = [seen[id] EXCEPT !.tries = @ + 1, !.acks = a, !.blind = b]
    BY DEF Answered
  <2> HIDE DEF a, b, now
  <2>4. now.tries = seen[id].tries + 1 /\ now.acks = a
    BY <2>1, <2>3 DEF Sent
  <2>5. QED
    BY <2>2, <2>4
<1>4. \A d \in Ids : seen'[d] = IF d = id THEN now ELSE seen[d]
  BY <1>2 DEF IInv, TypeOK
<1> HIDE DEF now
<1>5. \A d \in Ids : Outcome(d)' = Outcome(d)
  BY <1>1 DEF Outcome
<1>6. Outcome(id) \in {"queued", "gone"}
  BY <1>2 DEF IInv, Hands, HeldFresh, Outcome
<1>7. [d \in Ids |-> seen'[d].tries] =
        [[d \in Ids |-> seen[d].tries] EXCEPT ![id] = @ + 1]
  BY <1>3, <1>4
<1>8. PICK heard \in BOOLEAN : heard = (answer \in {"2xx", "unheard"})
  <2>1. (answer \in {"2xx", "unheard"}) \in BOOLEAN
    OBVIOUS
  <2>2. QED
    BY <2>1, Zenon
<1>9. [d \in Ids |-> seen'[d].acks > 0] =
        [[d \in Ids |-> seen[d].acks > 0] EXCEPT ![id] = @ \/ heard]
  BY <1>3, <1>4, <1>8
<1>10. Promise!Try(id)
  BY <1>5, <1>6, <1>7, <1>9 DEF Promise!Try
<1>11. QED
  BY <1>10 DEF Promise!Next

\* Recording a 2xx delivers, recording the last failure exhausts, and recording
\* any other failure, or for a row removed meanwhile, settles nothing.
LEMMA RefinesRecord ==
  ASSUME IInv, NEW w \in Workers, record(w)
  PROVE  Promise!Next \/ UNCHANGED Promise!vars
<1> DEFINE head  == Head(worker[w].rows)
           heard == worker[w].heard
<1>1. worker[w].phase = "record" /\ UNCHANGED seen
  BY DEF record
<1>2. PICK id \in Ids : id = head.id /\ Holds(w, id) /\ Flying(w, id)
  <2>1. Len(worker[w].rows) \in 1 .. CLAIM_BATCH
    BY <1>1 DEF IInv, Hands, Shape
  <2>2. 1 \in 1 .. Len(worker[w].rows) /\ Head(worker[w].rows) = worker[w].rows[1]
    BY <2>1, RowTyped, Constants DEF IInv
  <2>3. head.id \in Ids /\ Flying(w, head.id)
    BY <1>1, <2>2, RowTyped DEF IInv, Flying
  <2>4. Holds(w, head.id)
    BY <2>3, FlyingHeld DEF IInv, Hands
  <2>5. QED
    BY <2>3, <2>4
<1> DEFINE new == Recorded(delivery[id], head.attempt_count + 1, heard)
<1>3. CASE ~Live(id)
  <2>1. UNCHANGED delivery
    BY <1>2, <1>3 DEF record
  <2>2. QED
    BY <1>1, <2>1, QueueUntouched
<1>4. CASE Live(id)
  <2>1. /\ delivery[id].status = "delivering" /\ delivery[id].attempts \in Nat
        /\ delivery[id].attempts < max_attempts /\ delivery[id] \in Delivery
    BY <1>2, <1>4 DEF IInv, TypeOK, Queue, Delivery, Hands, HeldFresh, Live
  <2>2. head.attempt_count = delivery[id].attempts
    <3>1. Len(worker[w].rows) \in 1 .. CLAIM_BATCH
      BY <1>1 DEF IInv, Hands, Shape
    <3>2. 1 \in 1 .. Len(worker[w].rows) /\ head = worker[w].rows[1]
      BY <3>1, RowTyped, Constants DEF IInv
    <3>3. QED
      BY <1>2, <1>4, <3>2 DEF IInv, Hands, RowsCurrent
  <2>3. /\ new.attempts = delivery[id].attempts + 1
        /\ new.status = IF heard THEN "succeeded"
                        ELSE IF new.attempts >= max_attempts THEN "failed" ELSE "pending"
    <3>1. delivery[id].attempts + 1 \in 1 .. max_attempts
      BY <2>1, Constants
    <3>2. heard \in BOOLEAN
      BY DEF IInv, TypeOK, Worker
    <3>3. QED
      BY <2>1, <2>2, <3>1, <3>2, RecordedRow
  <2>4. \A d \in Ids : delivery'[d] = IF d = id THEN new ELSE delivery[d]
    BY <1>2, <1>4 DEF record, IInv, TypeOK
  <2> HIDE DEF new
  <2>5. \A d \in Ids : d # id => Outcome(d)' = Outcome(d)
    BY <2>4 DEF Outcome
  <2>6. /\ Outcome(id) = "queued"
        /\ Outcome(id)' = IF heard THEN "delivered"
                          ELSE IF new.attempts >= max_attempts THEN "exhausted" ELSE "queued"
    BY <2>1, <2>3, <2>4 DEF Outcome
  <2>7. /\ seen[id].tries = delivery[id].attempts + seen[id].lost + 1
        /\ heard => seen[id].acks = seen[id].blind + 1
        /\ seen[id].lost \in Nat /\ seen[id].blind \in Nat
    BY <1>2, <1>4 DEF IInv, TypeOK, Sent, Counts, TriesAgree, AnswersAgree
  <2>8. CASE heard
    <3>1. seen[id].acks > 0
      BY <2>7, <2>8
    <3>2. Promise!Deliver(id)
      BY <1>1, <2>5, <2>6, <2>8, <3>1 DEF Promise!Deliver
    <3>3. QED
      BY <3>2 DEF Promise!Next
  <2>9. CASE ~heard /\ new.attempts >= max_attempts
    <3>1. seen[id].tries >= max_attempts
      BY <2>1, <2>3, <2>7, <2>9, Constants
    <3>2. Promise!Exhaust(id)
      BY <1>1, <2>5, <2>6, <2>9, <3>1 DEF Promise!Exhaust
    <3>3. QED
      BY <3>2 DEF Promise!Next
  <2>10. CASE ~heard /\ ~(new.attempts >= max_attempts)
    <3>1. \A d \in Ids : Outcome(d)' = Outcome(d)
      BY <2>5, <2>6, <2>10
    <3>2. QED
      BY <1>1, <3>1, Unseen
  <2>11. QED
    BY <2>8, <2>9, <2>10
<1>5. QED
  BY <1>3, <1>4

\* Deleting an endpoint removes the deliveries queued or settled for it.
LEMMA RefinesDestroy ==
  ASSUME IInv, NEW p \in Endpoints, endpoints_destroy(p)
  PROVE  Promise!Next \/ UNCHANGED Promise!vars
<1> DEFINE S    == {d \in Ids : Live(d) /\ delivery[d].endpoint = p}
           gone == [NoRow EXCEPT !.status = "gone"]
<1>1. UNCHANGED seen /\ \A d \in Ids : delivery'[d] = IF d \in S THEN gone ELSE delivery[d]
  BY DEF endpoints_destroy, Edit
<1>2. gone.status = "gone"
  BY SampleRows DEF Delivery
<1>3. \A d \in S : d \in Ids /\ Outcome(d) # "none"
  BY DEF Live, Outcome
<1> HIDE DEF gone, S
<1>4. \A d \in Ids : Outcome(d)' = IF d \in S THEN "gone" ELSE Outcome(d)
  BY <1>1, <1>2 DEF Outcome
<1>5. CASE S = {}
  BY <1>1, <1>4, <1>5, Unseen
<1>6. CASE S # {}
  <2>1. S \in SUBSET Ids
    BY <1>3
  <2>2. Promise!Remove(S)
    BY <1>1, <1>3, <1>4, <1>6 DEF Promise!Remove
  <2>3. QED
    BY <2>1, <2>2 DEF Promise!Next
<1>7. QED
  BY <1>5, <1>6

\* Claiming and reaping move rows between two states of being queued.
LEMMA RefinesReap ==
  ASSUME IInv, NEW w \in Workers, reap_and_claim(w)
  PROVE  UNCHANGED Promise!vars
<1>1. \A d \in Ids : IF delivery[d].status \in {"pending", "delivering"}
                     THEN delivery'[d].status \in {"pending", "delivering"}
                     ELSE delivery'[d] = delivery[d]
  BY ClaimedRows
<1>2. UNCHANGED seen
  BY DEF reap_and_claim
<1>3. \A d \in Ids : Outcome(d)' = Outcome(d)
  BY <1>1 DEF Outcome
<1>4. QED
  BY <1>2, <1>3, Unseen

\* What a stopped worker loses was sent already.
LEMMA RefinesStop ==
  ASSUME IInv, NEW w \in Workers, worker_stops(w)
  PROVE  UNCHANGED Promise!vars
<1>1. UNCHANGED delivery
  BY DEF worker_stops
<1>2. ASSUME NEW d \in Ids PROVE seen'[d].tries = seen[d].tries /\ seen'[d].acks = seen[d].acks
  <2>1. seen[d] \in Sent /\ worker[w].heard \in BOOLEAN
    BY DEF IInv, TypeOK, Worker
  <2>2. seen'[d] = seen[d] \/ seen'[d] = Unrecorded(seen[d], worker[w].heard)
    BY DEF worker_stops, IInv, TypeOK
  <2>3. QED
    BY <2>1, <2>2, LossCounted
<1>3. QED
  BY <1>1, <1>2 DEF Promise!vars, Outcome

LEMMA RefinesTick ==
  ASSUME IInv, tick
  PROVE  UNCHANGED Promise!vars
<1>1. UNCHANGED seen /\ \A d \in Ids : delivery'[d].status = delivery[d].status
  <2>1. \A d \in Ids : delivery[d] \in Delivery
    BY DEF IInv, TypeOK
  <2>2. QED
    BY <2>1, ElapsedRow DEF tick
<1>2. QED
  BY <1>1, Unseen DEF Outcome

LEMMA RefinesNext == IInv /\ [Next]_vars => [Promise!Next]_(Promise!vars)
<1> SUFFICES ASSUME IInv, [Next]_vars PROVE Promise!Next \/ UNCHANGED Promise!vars
  OBVIOUS
<1>1. ASSUME NEW p \in Endpoints,
             \/ endpoints_store(p) \/ endpoints_update(p) \/ endpoints_destroy(p)
             \/ endpoints_pause(p) \/ endpoints_resume(p) \/ endpoints_rotate_secret(p)
      PROVE  Promise!Next \/ UNCHANGED Promise!vars
  <2>1. CASE endpoints_destroy(p)
    BY <2>1, RefinesDestroy
  <2>2. CASE ~endpoints_destroy(p)
    <3>1. UNCHANGED <<delivery, seen>>
      BY <1>1, <2>2 DEF endpoints_store, endpoints_update, endpoints_pause, endpoints_resume,
                        endpoints_rotate_secret, Edit
    <3>2. QED
      BY <3>1, QueueUntouched
  <2>3. QED
    BY <2>1, <2>2
<1>2. ASSUME NEW e \in Events,
             \/ emit_event(e) \/ events_replay(e) \/ \E p \in Endpoints : endpoints_test_send(e, p)
             \/ fan_out_read(e) \/ fan_out_create(e) \/ fan_out_fails(e)
      PROVE  Promise!Next \/ UNCHANGED Promise!vars
  <2>1. CASE fan_out_create(e)
    <3>1. PICK p \in fan[e].todo :
            IF endpoint[p].exists THEN NextId \in Ids /\ create_delivery(e, p)
                                  ELSE UNCHANGED delivery
      BY <2>1 DEF fan_out_create
    <3>2. p \in Endpoints /\ UNCHANGED seen
      BY <2>1 DEF fan_out_create, IInv, TypeOK, FanOut
    <3>3. QED
      BY <3>1, <3>2, RefinesCreate, QueueUntouched
  <2>2. CASE ~fan_out_create(e)
    <3>1. UNCHANGED <<delivery, seen>>
      BY <1>2, <2>2 DEF emit_event, events_replay, endpoints_test_send, fan_out_read, fan_out_fails
    <3>2. QED
      BY <3>1, QueueUntouched
  <2>3. QED
    BY <2>1, <2>2
<1>3. ASSUME NEW d \in Ids, deliveries_replay(d) PROVE Promise!Next
  <2>1. delivery[d].event \in Events /\ delivery[d].endpoint \in Endpoints
    BY DEF IInv, TypeOK, Delivery
  <2>2. QED
    BY <1>3, <2>1, RefinesCreate DEF deliveries_replay
<1>4. ASSUME NEW w \in Workers, run_tick(w) \/ worker_stops(w)
      PROVE  Promise!Next \/ UNCHANGED Promise!vars
  <2>1. CASE read_rows(w)
    BY <2>1, QueueUntouched DEF read_rows
  <2>2. QED
    BY <1>4, <2>1, RefinesReap, RefinesAttempt, RefinesRecord, RefinesStop DEF run_tick
<1>5. CASE tick
  BY <1>5, RefinesTick
<1>6. CASE UNCHANGED vars
  BY <1>6, QueueUntouched DEF vars
<1>7. QED
  BY <1>1, <1>2, <1>3, <1>4, <1>5, <1>6 DEF Next

\* The queue of endpoints, claims, retries, reaping and crashes keeps the promise
\* made to a merchant: outcomes are final, a success was accepted, and nothing is
\* given up before its tries were made.
THEOREM Implementation == Spec => KeepsPromise
BY RefinesInit, RefinesNext, Invariance, PTL DEF Spec, KeepsPromise, Promise!Spec
=============================================================================
