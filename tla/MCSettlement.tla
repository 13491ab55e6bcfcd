---------------------------- MODULE MCSettlement ----------------------------
(* Instances of Settlement for TLC.                                        *)
EXTENDS Settlement, TLC

\* Covenants are ordered by id, so that only the requests of one kind are
\* interchangeable.  Used in safety runs only.
Symmetry == Permutations(Releasers) \cup Permutations(MerchantRefunds)
=============================================================================
