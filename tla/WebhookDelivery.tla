--------------------------- MODULE WebhookDelivery ---------------------------
(***************************************************************************)
(* The webhook queue of one merchant: endpoints, events, the fan-out of an *)
(* event into delivery rows, and the workers that claim and post them.     *)
(*                                                                         *)
(* Every SQL statement commits on its own, so an action is one statement   *)
(* (or one POST) of a handler or of a worker.  A worker process is one     *)
(* replica of the server: the program is meant to run one, but claims with *)
(* SKIP LOCKED so that several may run, as they do while a new version is  *)
(* rolled out.                                                             *)
(*                                                                         *)
(* Time is relative: a row carries the ticks left until next_attempt_at    *)
(* and, while it is delivering, its age since updated_at (up to just       *)
(* beyond the reaper's threshold).  last_attempted_at is never later than  *)
(* updated_at, so the reaper's condition on it follows from the other.     *)
(***************************************************************************)
EXTENDS Naturals, Sequences, FiniteSets

CONSTANTS
  Workers,        \* replicas running the delivery worker
  Endpoints,      \* webhook_endpoints ids the merchant may register
  Events,         \* webhook_events ids that may be emitted
  Topics,         \* event types (of the endpoint's store)
  MaxDeliveries,  \* bound: webhook_deliveries ids that may be used
  CLAIM_BATCH,    \* deliveries claimed per tick
  Stuck,          \* DELIVERING_STUCK_SECS in ticks
  AttemptMax,     \* longest attempt (DNS, POST and recording), in ticks
  max_attempts,   \* the merchant's retry profile
  base_delay,     \* ... and its first delay, in ticks
  MaxFaults,      \* bound: crashes and statement errors
  MaxEdits        \* bound: changes of endpoints after their registration

ASSUME BoundsAssumption ==
  /\ MaxDeliveries \in Nat /\ MaxFaults \in Nat /\ MaxEdits \in Nat
  /\ CLAIM_BATCH \in Nat \ {0} /\ Stuck \in Nat /\ AttemptMax \in Nat
ASSUME SetsAssumption == Endpoints # {} /\ Events # {} /\ "none" \notin Topics
\* The three profiles allow 3, 5 and 7 attempts.
ASSUME ProfileAssumption == max_attempts \in 1 .. 7 /\ base_delay \in Nat
\* A batch ends before its rows count as stuck: ten POSTs of at most ten seconds
\* leave the look-ups and the recording 200 of the 300 seconds.
ASSUME BatchAssumption == CLAIM_BATCH * AttemptMax <= Stuck

VARIABLES
  endpoint,   \* webhook_endpoints rows
  event,      \* webhook_events rows: the topic, or "none"
  delivery,   \* webhook_deliveries rows
  fan,        \* per event: the request or worker fanning it out, and to whom
  worker,     \* per worker: its phase, the claimed ids or rows, and time spent
  seen,       \* per delivery: tries made, 2xx answers given, and how many of
              \* either the worker never got to record
  faults, edits

vars == <<endpoint, event, delivery, fan, worker, seen, faults, edits>>

Ids  == 1 .. MaxDeliveries
Old  == Stuck + 1

Statuses == {"none", "pending", "delivering", "succeeded", "failed", "gone"}

NoRow == [status |-> "none", attempts |-> 0, wait |-> 0, age |-> 0,
          event |-> CHOOSE e \in Events : TRUE,
          endpoint |-> CHOOSE p \in Endpoints : TRUE]

Unregistered == [exists |-> FALSE, used |-> FALSE, is_active |-> FALSE,
                 paused |-> FALSE, events |-> {}, conf |-> 0, confAge |-> Old]

Idle == [phase |-> "idle", ids |-> {}, rows |-> <<>>, busy |-> 0, heard |-> FALSE]

Live(d) == delivery[d].status \notin {"none", "gone"}
NextId  == Cardinality({d \in Ids : delivery[d].status # "none"}) + 1

Smaller(a, b) == IF a < b THEN a ELSE b

Init ==
  /\ endpoint = [p \in Endpoints |-> Unregistered]
  /\ event    = [e \in Events |-> "none"]
  /\ delivery = [d \in Ids |-> NoRow]
  /\ fan      = [e \in Events |-> [phase |-> "idle", todo |-> {}, owed |-> {}]]
  /\ worker   = [w \in Workers |-> Idle]
  /\ seen     = [d \in Ids |-> [tries |-> 0, acks |-> 0, lost |-> 0, blind |-> 0]]
  /\ faults = 0 /\ edits = 0

-----------------------------------------------------------------------------
(* The merchant's endpoints.  A PUT carrying several fields is several of   *)
(* these updates, one statement each.                                       *)

Edit ==
  /\ edits < MaxEdits
  /\ edits' = edits + 1
  /\ UNCHANGED <<event, fan, worker, seen, faults>>

\* The URL and the event list have passed validation: a list is never empty.
parse_events == SUBSET Topics \ {{}}

endpoints_store(p) ==
  /\ ~endpoint[p].used
  /\ \E topics \in parse_events, active \in BOOLEAN :
       endpoint' = [endpoint EXCEPT ![p] =
         [exists |-> TRUE, used |-> TRUE, is_active |-> active,
          paused |-> FALSE, events |-> topics, conf |-> 0, confAge |-> Old]]
  /\ UNCHANGED <<event, delivery, fan, worker, seen, faults, edits>>

\* conf numbers the values url and signing_secret have had.
Reconfigured(row) == [row EXCEPT !.conf = @ + 1, !.confAge = 0]

endpoints_update(p) ==
  /\ Edit /\ endpoint[p].exists
  /\ \/ endpoint' = [endpoint EXCEPT ![p] = Reconfigured(@)]
     \/ \E topics \in parse_events :
          endpoint' = [endpoint EXCEPT ![p].events = topics]
     \/ \E active \in BOOLEAN : endpoint' = [endpoint EXCEPT ![p].is_active = active]
  /\ UNCHANGED delivery

\* ON DELETE CASCADE takes the endpoint's deliveries with it.
endpoints_destroy(p) ==
  /\ Edit /\ endpoint[p].exists
  /\ endpoint' = [endpoint EXCEPT ![p] = [Unregistered EXCEPT !.used = TRUE]]
  /\ delivery' = [d \in Ids |->
       IF Live(d) /\ delivery[d].endpoint = p
       THEN [NoRow EXCEPT !.status = "gone"] ELSE delivery[d]]

endpoints_pause(p) ==
  /\ Edit /\ endpoint[p].exists /\ ~endpoint[p].paused
  /\ endpoint' = [endpoint EXCEPT ![p].paused = TRUE]
  /\ UNCHANGED delivery

\* Each follows a pause: no bound of its own.
endpoints_resume(p) ==
  /\ endpoint[p].exists /\ endpoint[p].paused
  /\ endpoint' = [endpoint EXCEPT ![p].paused = FALSE]
  /\ UNCHANGED <<event, delivery, fan, worker, seen, faults, edits>>

endpoints_rotate_secret(p) ==
  /\ Edit /\ endpoint[p].exists
  /\ endpoint' = [endpoint EXCEPT ![p] = Reconfigured(@)]
  /\ UNCHANGED delivery

-----------------------------------------------------------------------------
(* Events and the rows they fan out to.                                     *)

Deliverable(p) == endpoint[p].exists /\ endpoint[p].is_active /\ ~endpoint[p].paused
Subscribed(t)  == {p \in Endpoints : Deliverable(p) /\ t \in endpoint[p].events}

create_delivery(e, p) ==
  delivery' = [delivery EXCEPT ![NextId] =
    [NoRow EXCEPT !.status = "pending", !.event = e, !.endpoint = p]]

emit_event(e) ==
  /\ event[e] = "none"
  /\ \E t \in Topics : event' = [event EXCEPT ![e] = t]
  /\ fan' = [fan EXCEPT ![e].phase = "read"]
  /\ UNCHANGED <<endpoint, delivery, worker, seen, faults, edits>>

events_replay(e) ==
  /\ event[e] # "none" /\ fan[e].phase = "idle"
  /\ edits < MaxEdits /\ edits' = edits + 1
  /\ fan' = [fan EXCEPT ![e].phase = "read"]
  /\ UNCHANGED <<endpoint, event, delivery, worker, seen, faults>>

\* The subscription is checked on the endpoint as it was read; the event row is
\* inserted next and the delivery after it.
endpoints_test_send(e, p) ==
  /\ event[e] = "none"
  /\ \E t \in Topics :
       /\ p \in Subscribed(t)
       /\ event' = [event EXCEPT ![e] = t]
  /\ fan' = [fan EXCEPT ![e] = [phase |-> "create", todo |-> {p}, owed |-> {p}]]
  /\ UNCHANGED <<endpoint, delivery, worker, seen, faults, edits>>

fan_out_read(e) ==
  /\ fan[e].phase = "read"
  /\ LET targets == Subscribed(event[e]) IN
     fan' = [fan EXCEPT ![e] =
       [phase |-> IF targets = {} THEN "idle" ELSE "create",
        todo  |-> targets, owed |-> @.owed \cup targets]]
  /\ UNCHANGED <<endpoint, event, delivery, worker, seen, faults, edits>>

\* Mutant: the insert looks at the endpoint again and skips one that was paused.
fan_out_create_Recheck(e) ==
  /\ fan[e].phase = "create"
  /\ \E p \in fan[e].todo :
       /\ fan' = [fan EXCEPT ![e].todo = @ \ {p},
                             ![e].phase = IF fan[e].todo = {p} THEN "idle" ELSE @]
       /\ IF Deliverable(p) THEN NextId \in Ids /\ create_delivery(e, p)
                            ELSE UNCHANGED delivery
  /\ UNCHANGED <<endpoint, event, worker, seen, faults, edits>>

\* An endpoint deleted since it was read fails its insert (foreign key), and the
\* error ends the fan-out.
fan_out_create(e) ==
  /\ fan[e].phase = "create"
  /\ \E p \in fan[e].todo :
       IF endpoint[p].exists
       THEN /\ NextId \in Ids
            /\ create_delivery(e, p)
            /\ fan' = [fan EXCEPT ![e].todo = @ \ {p},
                                  ![e].phase = IF fan[e].todo = {p} THEN "idle" ELSE @]
       ELSE /\ fan' = [fan EXCEPT ![e] = [phase |-> "idle", todo |-> {}, owed |-> @.owed \ @.todo]]
            /\ UNCHANGED delivery
  /\ UNCHANGED <<endpoint, event, worker, seen, faults, edits>>

\* A crash or a failing statement loses what was still to be created: the event
\* row stays.
fan_out_fails(e) ==
  /\ fan[e].phase # "idle" /\ faults < MaxFaults
  /\ faults' = faults + 1
  /\ fan' = [fan EXCEPT ![e] = [phase |-> "idle", todo |-> {}, owed |-> @.owed \ @.todo]]
  /\ UNCHANGED <<endpoint, event, delivery, worker, seen, edits>>

deliveries_replay(d) ==
  /\ Live(d) /\ NextId \in Ids
  /\ create_delivery(delivery[d].event, delivery[d].endpoint)
  /\ UNCHANGED <<endpoint, event, fan, worker, seen, faults, edits>>

-----------------------------------------------------------------------------
(* The delivery worker.                                                     *)

\* Mutant: the reaper does not wait.
Stale_AtOnce(row) == row.status = "delivering"

\* Mutant: nothing is reaped.
Stale_Never(row) == row.status = "delivering" /\ row.age > Old

Stale(row) == row.status = "delivering" /\ row.age > Stuck

\* Rows returned to pending before the claim looks at them.
Reaped == [d \in Ids |-> IF Stale(delivery[d])
                         THEN [delivery[d] EXCEPT !.status = "pending", !.age = 0]
                         ELSE delivery[d]]

\* Mutant: rows a worker already claimed are due as well.
Due_Again(row) == /\ row.status \in {"pending", "delivering"} /\ row.wait = 0
                  /\ Deliverable(row.endpoint)

Due(row) == row.status = "pending" /\ row.wait = 0 /\ Deliverable(row.endpoint)

\* The oldest CLAIM_BATCH due rows, in one statement under row locks.
Claimed(due) == {d \in due : Cardinality({c \in due : c < d}) < CLAIM_BATCH}

\* run_tick reaps, then claims.  The two statements follow each other at once and
\* write nothing but statuses: what another process does between them it could do
\* before or after, so they are one step.
reap_and_claim(w) ==
  /\ worker[w].phase = "idle"
  /\ LET batch == Claimed({d \in Ids : Due(Reaped[d])}) IN
     /\ delivery' = [d \in Ids |->
          IF d \in batch THEN [Reaped[d] EXCEPT !.status = "delivering", !.age = 0]
                         ELSE Reaped[d]]
     /\ worker' = IF batch = {} THEN worker
                  ELSE [worker EXCEPT ![w].phase = "read", ![w].ids = batch]
  /\ UNCHANGED <<endpoint, event, fan, seen, faults, edits>>

\* What an attempt will use of each claimed row still there (its count, and the url
\* and secret of its endpoint), in an order RETURNING leaves open.
Orders(S) == {q \in [1 .. Cardinality(S) -> S] : \A i, j \in DOMAIN q : q[i] = q[j] => i = j}

read_rows(w) ==
  /\ worker[w].phase = "read"
  /\ \E q \in Orders({d \in worker[w].ids : Live(d)}) :
       worker' = [worker EXCEPT ![w] =
         IF q = <<>> THEN Idle
         ELSE [@ EXCEPT !.phase = "attempt", !.ids = {},
                        !.rows = [i \in DOMAIN q |-> [id |-> q[i],
                                    attempt_count |-> delivery[q[i]].attempts,
                                    conf |-> endpoint[delivery[q[i]].endpoint].conf]]]]
  /\ UNCHANGED <<endpoint, event, delivery, fan, seen, faults, edits>>

\* The URL policy or the name lookup refuses it, or the event is posted and the
\* receiver answers.  A 2xx may also be given to a POST whose answer is not heard
\* in time; every other answer, redirects included, is a failure.
Answered(sent, answer) ==
  [sent EXCEPT !.tries = @ + 1,
               !.acks  = IF answer \in {"2xx", "unheard"} THEN @ + 1 ELSE @,
               !.blind = IF answer = "unheard" THEN @ + 1 ELSE @]

attempt_delivery(w) ==
  /\ worker[w].phase = "attempt"
  /\ \E answer \in {"refused", "2xx", "unheard", "other"} :
       /\ seen' = [seen EXCEPT ![Head(worker[w].rows).id] = Answered(@, answer)]
       /\ worker' = [worker EXCEPT ![w].phase = "record", ![w].heard = (answer = "2xx")]
  /\ UNCHANGED <<endpoint, event, delivery, fan, faults, edits>>

\* Mutant: gives up one attempt early.
Recorded_Early(row, count, heard) ==
  LET tried == [row EXCEPT !.attempts = count, !.age = 0] IN
  CASE heard                                  -> [tried EXCEPT !.status = "succeeded", !.wait = 0]
    [] ~heard /\ count + 1 >= max_attempts    -> [tried EXCEPT !.status = "failed", !.wait = 0]
    [] OTHER                                  -> [tried EXCEPT !.status = "pending", !.wait = base_delay]

\* Mutant: gives up one attempt late.
Recorded_Late(row, count, heard) ==
  LET tried == [row EXCEPT !.attempts = count, !.age = 0] IN
  CASE heard                             -> [tried EXCEPT !.status = "succeeded", !.wait = 0]
    [] ~heard /\ count > max_attempts    -> [tried EXCEPT !.status = "failed", !.wait = 0]
    [] OTHER                             -> [tried EXCEPT !.status = "pending", !.wait = base_delay]

Recorded(row, count, heard) ==
  LET tried == [row EXCEPT !.attempts = count, !.age = 0] IN
  CASE heard                 -> [tried EXCEPT !.status = "succeeded", !.wait = 0]
    [] ~heard /\ count >= max_attempts
                             -> [tried EXCEPT !.status = "failed", !.wait = 0]
    [] OTHER                 -> [tried EXCEPT !.status = "pending",
                                              !.wait = base_delay * 2 ^ (count - 1)]

\* Mutant: a failed attempt is repeated at once, with the row read before.
record_InPlace(w) ==
  /\ worker[w].phase = "record"
  /\ LET row  == Head(worker[w].rows)
         rest == Tail(worker[w].rows) IN
     /\ delivery' = IF Live(row.id) /\ worker[w].heard
                    THEN [delivery EXCEPT ![row.id] = Recorded(@, row.attempt_count + 1, TRUE)]
                    ELSE delivery
     /\ worker' = [worker EXCEPT ![w] =
          IF worker[w].heard /\ rest = <<>> THEN Idle
          ELSE [@ EXCEPT !.phase = "attempt", !.busy = 0, !.heard = FALSE,
                         !.rows = IF worker[w].heard THEN rest ELSE @]]
  /\ UNCHANGED <<endpoint, event, fan, seen, faults, edits>>

\* record_success and record_failure write the row by its id, whatever it is now.
record(w) ==
  /\ worker[w].phase = "record"
  /\ LET row  == Head(worker[w].rows)
         rest == Tail(worker[w].rows) IN
     /\ delivery' = IF Live(row.id)
                    THEN [delivery EXCEPT ![row.id] =
                            Recorded(@, row.attempt_count + 1, worker[w].heard)]
                    ELSE delivery
     /\ worker' = [worker EXCEPT ![w] =
          IF rest = <<>> THEN Idle
          ELSE [@ EXCEPT !.phase = "attempt", !.rows = rest, !.busy = 0, !.heard = FALSE]]
  /\ UNCHANGED <<endpoint, event, fan, seen, faults, edits>>

Unrecorded(sent, heard) ==
  [sent EXCEPT !.lost = @ + 1, !.blind = IF heard THEN @ + 1 ELSE @]

\* A crash, or an error of any statement: the rest of the batch stays delivering.
worker_stops(w) ==
  /\ worker[w].phase # "idle" /\ faults < MaxFaults
  /\ faults' = faults + 1
  /\ seen' = IF worker[w].phase = "record"
             THEN [seen EXCEPT ![Head(worker[w].rows).id] = Unrecorded(@, worker[w].heard)]
             ELSE seen
  /\ worker' = [worker EXCEPT ![w] = Idle]
  /\ UNCHANGED <<endpoint, event, delivery, fan, edits>>

-----------------------------------------------------------------------------
\* A tick passes; no attempt takes longer than AttemptMax.
Elapsed(row) == [row EXCEPT !.wait = IF @ = 0 THEN 0 ELSE @ - 1,
                            !.age  = IF row.status = "delivering" THEN Smaller(@ + 1, Old) ELSE 0]

tick ==
  /\ \A w \in Workers : worker[w].phase # "idle" => worker[w].busy < AttemptMax
  /\ delivery' = [d \in Ids |-> IF delivery[d].status \in {"pending", "delivering"}
                                THEN Elapsed(delivery[d]) ELSE delivery[d]]
  /\ worker' = [w \in Workers |->
       IF worker[w].phase = "idle" THEN Idle ELSE [worker[w] EXCEPT !.busy = @ + 1]]
  /\ endpoint' = [p \in Endpoints |-> [endpoint[p] EXCEPT !.confAge = Smaller(@ + 1, Old)]]
  /\ UNCHANGED <<event, fan, seen, faults, edits>>

run_tick(w) == reap_and_claim(w) \/ read_rows(w) \/ attempt_delivery(w) \/ record(w)

Next ==
  \/ \E p \in Endpoints :
       \/ endpoints_store(p) \/ endpoints_update(p) \/ endpoints_destroy(p)
       \/ endpoints_pause(p) \/ endpoints_resume(p) \/ endpoints_rotate_secret(p)
  \/ \E e \in Events :
       \/ emit_event(e) \/ events_replay(e) \/ \E p \in Endpoints : endpoints_test_send(e, p)
       \/ fan_out_read(e) \/ fan_out_create(e) \/ fan_out_fails(e)
  \/ \E d \in Ids : deliveries_replay(d)
  \/ \E w \in Workers : run_tick(w) \/ worker_stops(w)
  \/ tick

Spec == Init /\ [][Next]_vars

\* The workers keep polling, requests run to their end, and time passes.
FairSpec ==
  /\ Spec
  /\ \A w \in Workers : WF_vars(run_tick(w))
  /\ \A e \in Events : WF_vars(fan_out_read(e)) /\ WF_vars(fan_out_create(e))
  /\ WF_vars(tick)
-----------------------------------------------------------------------------
Endpoint == [exists : BOOLEAN, used : BOOLEAN, is_active : BOOLEAN, paused : BOOLEAN,
             events : SUBSET Topics, conf : 0 .. MaxEdits, confAge : 0 .. Old]
Delivery == [status : Statuses, attempts : 0 .. max_attempts,
             wait : 0 .. base_delay * 2 ^ max_attempts, age : 0 .. Old,
             event : Events, endpoint : Endpoints]
DueRow   == [id : Ids, attempt_count : 0 .. max_attempts, conf : 0 .. MaxEdits]
FanOut   == [phase : {"idle", "read", "create"}, todo : SUBSET Endpoints, owed : SUBSET Endpoints]
Worker   == [phase : {"idle", "read", "attempt", "record"}, ids : SUBSET Ids,
             rows : Seq(DueRow), busy : 0 .. AttemptMax, heard : BOOLEAN]
Sent     == [tries : Nat, acks : Nat, lost : Nat, blind : Nat]

TypeOK ==
  /\ endpoint \in [Endpoints -> Endpoint]
  /\ event \in [Events -> Topics \cup {"none"}]
  /\ delivery \in [Ids -> Delivery]
  /\ fan \in [Events -> FanOut]
  /\ worker \in [Workers -> Worker]
  /\ seen \in [Ids -> Sent]
  /\ faults \in 0 .. MaxFaults /\ edits \in 0 .. MaxEdits

InFlight(d) == {w \in Workers : worker[w].phase = "record" /\ Head(worker[w].rows).id = d}

\* Every attempt made for a delivery is in its attempt_count, unless a crash or
\* an error took its worker before it was recorded: no recording overwrites
\* another's count, whatever the reaper and a second worker do meanwhile.
EveryTryCounted ==
  \A d \in Ids : Live(d) =>
    seen[d].tries = delivery[d].attempts + seen[d].lost + Cardinality(InFlight(d))

\* A receiver that accepted a delivery is sent it again only when its answer was
\* never recorded (it was not heard, or the worker stopped first).
AcceptedOnce == \A d \in Ids : seen[d].acks <= seen[d].blind + 1

\* A replaced url or secret stays in use no longer than one batch may last.
OldSecretRetired ==
  \A w \in Workers : \A i \in DOMAIN worker[w].rows :
    LET row == worker[w].rows[i]
        p   == delivery[row.id].endpoint IN
    (Live(row.id) /\ row.conf # endpoint[p].conf) => endpoint[p].confAge <= CLAIM_BATCH * AttemptMax

\* A finished fan-out has left a row for every endpoint that was subscribed when
\* it read them, but for those deleted since and those a failure took away.
FannedOut ==
  \A e \in Events : \A p \in fan[e].owed \ fan[e].todo :
    endpoint[p].exists =>
      \E d \in Ids : Live(d) /\ delivery[d].event = e /\ delivery[d].endpoint = p

\* The queue keeps the promise of DeliveryPromise.
Outcome(d) ==
  CASE delivery[d].status \in {"pending", "delivering"} -> "queued"
    [] delivery[d].status = "succeeded"                 -> "delivered"
    [] delivery[d].status = "failed"                    -> "exhausted"
    [] OTHER                                            -> delivery[d].status

Promise == INSTANCE DeliveryPromise WITH
  MinTries <- max_attempts,
  outcome  <- [d \in Ids |-> Outcome(d)],
  tries    <- [d \in Ids |-> seen[d].tries],
  accepted <- [d \in Ids |-> seen[d].acks > 0]

KeepsPromise == Promise!Spec

\* A queued delivery is settled in the end, whatever crashes and errors happened
\* on the way, unless its endpoint is deleted, paused or deactivated.
EveryDeliverySettles ==
  \A d \in Ids :
    (delivery[d].status \in {"pending", "delivering"}) ~>
      (\/ delivery[d].status \in {"succeeded", "failed", "gone"}
       \/ ~Deliverable(delivery[d].endpoint))
=============================================================================
