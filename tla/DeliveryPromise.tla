--------------------------- MODULE DeliveryPromise ---------------------------
(***************************************************************************)
(* What the webhook queue promises a merchant, whatever worker carries it  *)
(* out: a queued delivery ends delivered or exhausted and never leaves     *)
(* that outcome; it is delivered only after the receiver has accepted it;  *)
(* it is given up only after the profile's number of tries; and after its  *)
(* outcome is settled nothing more is sent.                                *)
(***************************************************************************)
EXTENDS Naturals

CONSTANTS
  Ids,          \* delivery ids
  MinTries      \* the tries a delivery is owed before it may be given up

VARIABLES
  outcome,      \* per delivery: none, queued, delivered, exhausted or gone
  tries,        \* attempts made for it
  accepted      \* has the receiver answered 2xx to one of them

vars == <<outcome, tries, accepted>>

Init ==
  /\ outcome  = [d \in Ids |-> "none"]
  /\ tries    = [d \in Ids |-> 0]
  /\ accepted = [d \in Ids |-> FALSE]

Enqueue(d) ==
  /\ outcome[d] = "none"
  /\ outcome' = [outcome EXCEPT ![d] = "queued"]
  /\ UNCHANGED <<tries, accepted>>

\* A removed delivery may still be in the hands of a worker.
Try(d) ==
  /\ outcome[d] \in {"queued", "gone"}
  /\ tries' = [tries EXCEPT ![d] = @ + 1]
  /\ \E answer \in BOOLEAN : accepted' = [accepted EXCEPT ![d] = @ \/ answer]
  /\ UNCHANGED outcome

Deliver(d) ==
  /\ outcome[d] = "queued" /\ accepted[d]
  /\ outcome' = [outcome EXCEPT ![d] = "delivered"]
  /\ UNCHANGED <<tries, accepted>>

Exhaust(d) ==
  /\ outcome[d] = "queued" /\ tries[d] >= MinTries
  /\ outcome' = [outcome EXCEPT ![d] = "exhausted"]
  /\ UNCHANGED <<tries, accepted>>

\* Deleting an endpoint removes all its deliveries at once.
Remove(S) ==
  /\ S # {} /\ \A d \in S : outcome[d] # "none"
  /\ outcome' = [d \in Ids |-> IF d \in S THEN "gone" ELSE outcome[d]]
  /\ UNCHANGED <<tries, accepted>>

Next ==
  \/ \E d \in Ids : Enqueue(d) \/ Try(d) \/ Deliver(d) \/ Exhaust(d)
  \/ \E S \in SUBSET Ids : Remove(S)

Spec == Init /\ [][Next]_vars
=============================================================================
