------------------------- MODULE MCCommissionPayout -------------------------
(* CommissionPayout with two payments of one partner and one of another, *)
(* whose commissions differ.                                             *)
EXTENDS CommissionPayout

MCPartnerOf == [p \in Payments |-> IF p = 3 THEN "partner_b" ELSE "partner_a"]
MCAmount == [p \in Payments |-> p]
=============================================================================
