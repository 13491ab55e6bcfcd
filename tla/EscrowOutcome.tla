--------------------------- MODULE EscrowOutcome ---------------------------
(***************************************************************************)
(* What settlement promises, with nothing said of how: the value held by a *)
(* covenant leaves it once, by one of the tiers of the contract, and an    *)
(* invoice is booked as paid or refunded only for what really happened.    *)
(***************************************************************************)
CONSTANT Covenants

VARIABLES
  outcome,   \* where the gross of each covenant is
  ledger     \* what the books say of each invoice

vars == <<outcome, ledger>>

Outcomes == {"held", "merchant", "customer", "split"}
Ledger   == {"open", "paid", "refunded", "cancelled"}

Booking(o) == IF o = "customer" THEN "refunded" ELSE "paid"

Init ==
  /\ outcome = [c \in Covenants |-> "held"]
  /\ ledger = [c \in Covenants |-> "open"]

\* The covenant is spent.
Spend(c, o) ==
  /\ outcome[c] = "held" /\ o # "held"
  /\ outcome' = [outcome EXCEPT ![c] = o]
  /\ UNCHANGED ledger

\* The outcome is booked, after it happened.
Book(c) ==
  /\ outcome[c] # "held" /\ ledger[c] = "open"
  /\ ledger' = [ledger EXCEPT ![c] = Booking(outcome[c])]
  /\ UNCHANGED outcome

\* The merchant cancels the invoice.  Nothing is promised of when.
Cancel(c) ==
  /\ ledger' = [ledger EXCEPT ![c] = "cancelled"]
  /\ UNCHANGED outcome

Next == \E c \in Covenants : (\E o \in Outcomes : Spend(c, o)) \/ Book(c) \/ Cancel(c)

Spec == Init /\ [][Next]_vars
=============================================================================
