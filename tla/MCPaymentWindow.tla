-------------------------- MODULE MCPaymentWindow --------------------------
(* Instances of PaymentWindow for TLC.                                     *)
EXTENDS PaymentWindow, TLC

\* Transactions are interchangeable: no action names one of them.  Used in safety
\* runs only.
Symmetry == Permutations(TxIds)

\* The gross in one output, or an amount that is not the gross.
PlainFundings == {[exact |-> TRUE, whole |-> TRUE], [exact |-> FALSE, whole |-> FALSE]}
=============================================================================
