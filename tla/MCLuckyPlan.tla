---------------------------- MODULE MCLuckyPlan ----------------------------
(* LuckyPlan with its rows as interchangeable model values. *)
EXTENDS LuckyPlan, TLC

\* Rows of the same table are interchangeable: the actions only compare them.
RowSymmetry == Permutations(Subs) \union Permutations(Luckies) \union Permutations(Payments)
=============================================================================
