------------------------- MODULE MCEmiTransactions -------------------------
(* EmiTransactions with interchangeable sessions and payment rows. *)
EXTENDS EmiTransactions, TLC

\* Sessions and payment rows are only compared for equality.
SessionSymmetry == Permutations(Txns) \union Permutations(Payments)
=============================================================================
