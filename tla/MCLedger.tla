------------------------------ MODULE MCLedger ------------------------------
(* Values for CovenantLedger: two escrows, one cell of two claims. *)
EXTENDS CovenantLedger

To(party, amount) == [owner |-> party, value |-> amount]

MCPayouts == << To("merchant", 16), To("platform", 8) >>
MCCellPayouts == << To("merchant", 6), To("platform", 4) >>
\* The parts of the second split are together too heavy, though none is alone;
\* those of the third are too many for the fee.
MCSplits == { << To("customer", 12), To("merchant", 12) >>,
              << To("customer", 20), To("merchant", 2), To("platform", 2) >>,
              << To("customer", 6), To("merchant", 6), To("customer", 6), To("platform", 6) >> }
\* The keeper's first coin is a leftover no spend may be built on.
MCWallets == << To("keeper", 6), To("keeper", 34), To("merchant", 14), To("customer", 15) >>
=============================================================================
