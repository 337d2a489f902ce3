----------------------- MODULE CommissionPayoutProofs -----------------------
(***************************************************************************)
(* Proofs about commissions and payouts, for any number of payments,       *)
(* batches, partners and amounts. What the requests in flight have read    *)
(* stays true enough of the rows for what they write: that is RequestsHold *)
(* below, the part of the inductive invariant no run checks by itself.     *)
(***************************************************************************)
EXTENDS CommissionPayout, TLAPS

\* A batch being finalised is a draft and keeps its lines. A payment being reversed is not
\* reversed yet, and a commission it found missing or reversed is so still; a settlement by
\* a batch that it found is still backed by that batch.
RequestsHold ==
  /\ \A b \in Batches : finalizing[b] # {} =>
       batch[b].status = "DRAFT" /\ finalizing[b] = Lines(b)
  /\ \A p \in Payments : reversing[p] # NotRunning =>
       /\ p \notin reversed
       /\ reversing[p].status \in {"NONE", "REVERSED"} =>
            commission[p].status = reversing[p].status
       /\ reversing[p].settlement \in Batches =>
            line[p] = reversing[p].settlement /\ batch[line[p]].status \in PaidOut

\* Lines are held by live batches, for commissions that exist, and drafts have their total.
LinesHeld ==
  /\ \A p \in Payments : line[p] # NoBatch =>
       commission[p].status # "NONE" /\ batch[line[p]].status \in {"DRAFT"} \union PaidOut
  /\ \A b \in Batches : batch[b].status = "DRAFT" => batch[b].total = Total(Lines(b))

PayoutInv ==
  /\ TypeOK
  /\ ReversedPaymentEarnsNothing
  /\ SettlementTraceable
  /\ PayoutCoversItsLines
  /\ RequestsHold
  /\ LinesHeld

\* The invariant holds initially.
LEMMA InitPayoutInv ==
  ASSUME Init PROVE PayoutInv
<1>1. TypeOK
  BY DEF Init, TypeOK, CommissionRows, BatchRows, Settlements
<1>2. \A b \in Batches : batch[b].status = "NONE"
  BY DEF Init
<1>3. \A p \in Payments : line[p] = NoBatch /\ commission[p].settlement = "NOBODY"
  BY DEF Init
<1> QED
  BY <1>1, <1>2, <1>3, NamesDiffer
     DEF Init, PayoutInv, ReversedPaymentEarnsNothing, SettlementTraceable,
         PayoutCoversItsLines, RequestsHold, LinesHeld, PaidOut

-----------------------------------------------------------------------------
(* One lemma per request *)

\* Creating a commission keeps the invariant.
LEMMA CreateCommissionInv ==
  ASSUME PayoutInv, NEW p \in Payments, CreateCommission(p) PROVE PayoutInv'
<1> USE DEF PayoutInv, TypeOK
<1>1. \A q \in Payments : commission'[q] =
        IF q = p THEN [status |-> "PENDING", settlement |-> commission[q].settlement]
        ELSE commission[q]
  BY DEF CreateCommission, CommissionRows
<1>2. TypeOK'
  BY DEF CreateCommission, CommissionRows
<1>3. \A b \in Batches : Lines(b)' = Lines(b)
  BY DEF CreateCommission, Lines
<1>4. \A b \in Batches : batch[b].status \in PaidOut => p \notin Lines(b)
  BY DEF CreateCommission, PayoutCoversItsLines
<1>5. PayoutCoversItsLines'
  BY <1>1, <1>3, <1>4 DEF CreateCommission, PayoutCoversItsLines, Lines
<1>6. RequestsHold' /\ LinesHeld'
  BY <1>1, <1>3 DEF CreateCommission, RequestsHold, LinesHeld
<1> QED
  BY <1>1, <1>2, <1>5, <1>6
     DEF CreateCommission, ReversedPaymentEarnsNothing, SettlementTraceable

\* What settling locked commissions does to each of them.
LEMMA SettledEffect ==
  ASSUME PayoutInv, NEW ps \in SUBSET Payments, NEW by \in Settlements,
         commission' = Settled(ps, by), NEW q \in Payments
  PROVE  /\ commission'[q] \in CommissionRows
         /\ \/ commission'[q] = commission[q] /\ ~ (q \in ps /\ commission[q].status = "PENDING")
            \/ /\ q \in ps /\ commission[q].status = "PENDING"
               /\ commission'[q] = [status |-> "SETTLED", settlement |-> by]
BY DEF Settled, PayoutInv, TypeOK, CommissionRows

\* Settling by hand keeps the invariant.
LEMMA SettleByHandInv ==
  ASSUME PayoutInv, NEW ps \in SUBSET Payments, SettleByHand(ps) PROVE PayoutInv'
<1> USE DEF PayoutInv, TypeOK
<1>1. \A q \in Payments :
        /\ commission'[q] \in CommissionRows
        /\ \/ commission'[q] = commission[q]
           \/ /\ commission[q].status = "PENDING"
              /\ commission'[q] = [status |-> "SETTLED", settlement |-> "HAND"]
  BY SettledEffect DEF SettleByHand, Settlements
<1>2. TypeOK'
  BY <1>1 DEF SettleByHand, Settled
<1>3. \A b \in Batches : Lines(b)' = Lines(b)
  BY DEF SettleByHand, Lines
<1>4. ReversedPaymentEarnsNothing' /\ SettlementTraceable'
  BY <1>1, NamesDiffer DEF SettleByHand, ReversedPaymentEarnsNothing, SettlementTraceable
<1>5. PayoutCoversItsLines'
  BY <1>1, <1>3 DEF SettleByHand, PayoutCoversItsLines, Lines
<1>6. RequestsHold' /\ LinesHeld'
  BY <1>1, <1>3 DEF SettleByHand, RequestsHold, LinesHeld
<1> QED
  BY <1>2, <1>4, <1>5, <1>6

\* Beginning or giving up a reversal keeps the invariant.
LEMMA BeginReversalInv ==
  ASSUME PayoutInv, NEW p \in Payments, BeginReversal(p) \/ AbortReversal(p) PROVE PayoutInv'
<1> USE DEF PayoutInv, TypeOK
<1>1. UNCHANGED <<reversed, commission, line, batch, finalizing>>
  BY DEF BeginReversal, AbortReversal
<1>2. TypeOK'
  BY <1>1 DEF BeginReversal, AbortReversal
<1>3. \A b \in Batches : Lines(b)' = Lines(b)
  BY <1>1 DEF Lines
<1>4. \A q \in Payments : reversing'[q] = reversing[q] \/ reversing'[q] = NotRunning
        \/ (reversing'[q] = commission[q] /\ q \notin reversed)
  BY DEF BeginReversal, AbortReversal
<1>5. RequestsHold'
  BY <1>1, <1>3, <1>4 DEF RequestsHold, SettlementTraceable
<1> QED
  BY <1>1, <1>2, <1>3, <1>5 DEF ReversedPaymentEarnsNothing, SettlementTraceable,
     PayoutCoversItsLines, LinesHeld

\* What committing a reversal does to commissions.
LEMMA CommitReversalEffect ==
  ASSUME PayoutInv, NEW p \in Payments, CommitReversal(p), NEW q \in Payments
  PROVE  /\ commission'[q] \in CommissionRows
         /\ \/ commission'[q] = commission[q] /\ (q = p => commission[q].status \in {"NONE", "REVERSED"})
            \/ /\ q = p /\ commission'[q].status = "REVERSED"
               /\ commission'[q].settlement = reversing[q].settlement
               /\ commission[q].status # "NONE" \/ reversing[q].status # "NONE"
<1>1. reversing[p] \in CommissionRows
  BY DEF CommitReversal, PayoutInv, TypeOK
<1> QED
  BY <1>1 DEF CommitReversal, PayoutInv, TypeOK, CommissionRows, RequestsHold

\* Committing a reversal keeps the invariant.
LEMMA CommitReversalInv ==
  ASSUME PayoutInv, NEW p \in Payments, CommitReversal(p) PROVE PayoutInv'
<1> USE DEF PayoutInv, TypeOK
<1>1. /\ UNCHANGED <<line, batch, finalizing>>
      /\ reversed' = reversed \union {p}
      /\ reversing[p] # NotRunning
      /\ \A q \in Payments : reversing'[q] = IF q = p THEN NotRunning ELSE reversing[q]
  BY DEF CommitReversal
<1>2. TypeOK'
  BY CommitReversalEffect, <1>1 DEF CommitReversal
<1>3. \A b \in Batches : Lines(b)' = Lines(b)
  BY <1>1 DEF Lines
<1>4. ReversedPaymentEarnsNothing'
  BY CommitReversalEffect, <1>1 DEF ReversedPaymentEarnsNothing
<1>5. SettlementTraceable'
  BY CommitReversalEffect, <1>1 DEF SettlementTraceable, RequestsHold
<1>6. PayoutCoversItsLines'
  BY CommitReversalEffect, <1>1, <1>3 DEF PayoutCoversItsLines, Lines
<1>7. RequestsHold'
  BY CommitReversalEffect, <1>1, <1>3 DEF RequestsHold
<1>8. LinesHeld'
  BY CommitReversalEffect, <1>1, <1>3 DEF LinesHeld
<1> QED
  BY <1>2, <1>4, <1>5, <1>6, <1>7, <1>8

\* Creating a draft batch keeps the invariant: its lines belonged to no batch.
LEMMA CreateBatchInv ==
  ASSUME PayoutInv, NEW c \in Batches, NEW ps \in SUBSET Payments, CreateBatch(c, ps)
  PROVE  PayoutInv'
<1> USE DEF PayoutInv, TypeOK
<1>1. /\ UNCHANGED <<reversed, commission, finalizing, reversing>>
      /\ batch[c].status = "NONE"
      /\ \A p \in ps : commission[p].status = "PENDING" /\ line[p] = NoBatch
      /\ \A p \in Payments : line'[p] = IF p \in ps THEN c ELSE line[p]
      /\ \A b \in Batches : batch'[b] = IF b = c THEN [status |-> "DRAFT", total |-> Total(ps)]
                                        ELSE batch[b]
  BY DEF CreateBatch
<1>2. TypeOK'
  BY <1>1 DEF CreateBatch, BatchRows
<1>3. Lines(c)' = ps
  <2>1. \A p \in Payments : line[p] # c
    BY <1>1, NamesDiffer DEF LinesHeld, PaidOut
  <2> QED
    BY <1>1, <2>1 DEF Lines
<1>4. \A b \in Batches \ {c} : Lines(b)' = Lines(b) /\ batch'[b] = batch[b]
  BY <1>1, NamesDiffer DEF Lines
<1>5. ReversedPaymentEarnsNothing'
  BY <1>1 DEF ReversedPaymentEarnsNothing
<1>6. \A p \in Payments : line[p] \in Batches => line[p] # c /\ line'[p] = line[p]
  BY <1>1, NamesDiffer DEF LinesHeld, PaidOut
<1>7. SettlementTraceable'
  BY <1>1, <1>6 DEF SettlementTraceable
<1>8. PayoutCoversItsLines'
  <2>1. \A b \in Batches \ {c} : batch'[b].total = batch[b].total /\ Lines(b)' = Lines(b)
    BY <1>4
  <2>2. \A b \in Batches \ {c} : batch'[b].status \in PaidOut => batch'[b].total = Total(Lines(b)')
    BY <1>4, <2>1 DEF PayoutCoversItsLines
  <2>3. batch'[c].status \notin PaidOut
    BY <1>1 DEF PaidOut
  <2> QED
    BY <1>1, <1>4, <2>2, <2>3 DEF PayoutCoversItsLines
<1>9. RequestsHold'
  BY <1>1, <1>4, <1>6 DEF RequestsHold, PaidOut
<1>10. LinesHeld'
  BY <1>1, <1>3, <1>4, <1>6, NamesDiffer DEF LinesHeld
<1> QED
  BY <1>2, <1>5, <1>7, <1>8, <1>9, <1>10

\* Beginning or giving up a finalisation keeps the invariant.
LEMMA BeginFinalizeInv ==
  ASSUME PayoutInv, NEW c \in Batches, BeginFinalize(c) \/ AbortFinalize(c) PROVE PayoutInv'
<1> USE DEF PayoutInv, TypeOK
<1>1. /\ UNCHANGED <<reversed, commission, line, batch, reversing>>
      /\ \A b \in Batches : finalizing'[b] = finalizing[b] \/ finalizing'[b] = {}
           \/ (finalizing'[b] = Lines(b) /\ batch[b].status = "DRAFT")
  BY DEF BeginFinalize, AbortFinalize
<1>2. TypeOK'
  BY <1>1 DEF BeginFinalize, AbortFinalize, Lines
<1>3. \A b \in Batches : Lines(b)' = Lines(b)
  BY <1>1 DEF Lines
<1>4. RequestsHold'
  BY <1>1, <1>3 DEF RequestsHold
<1> QED
  BY <1>1, <1>2, <1>3, <1>4 DEF ReversedPaymentEarnsNothing, SettlementTraceable,
     PayoutCoversItsLines, LinesHeld

\* Committing a finalisation settles what is pending of its lines and keeps the invariant.
LEMMA CommitFinalizeInv ==
  ASSUME PayoutInv, NEW c \in Batches, CommitFinalize(c)
  PROVE  PayoutInv' /\ \A p \in Lines(c)' : commission'[p].status = "SETTLED" /\ p \notin reversed'
<1> USE DEF PayoutInv, TypeOK
<1>1. /\ UNCHANGED <<reversed, line, reversing>>
      /\ batch[c].status = "DRAFT" /\ finalizing[c] = Lines(c)
      /\ batch[c].total = Total(Lines(c))
      /\ \A b \in Batches : finalizing'[b] = IF b = c THEN {} ELSE finalizing[b]
      /\ batch'[c].status = "FINALIZED" /\ batch'[c].total = batch[c].total
      /\ \A b \in Batches \ {c} : batch'[b] = batch[b]
      /\ \A p \in Lines(c) : commission[p].status # "REVERSED"
  BY DEF CommitFinalize, RequestsHold, LinesHeld, BatchRows
<1>2. \A q \in Payments :
        /\ commission'[q] \in CommissionRows
        /\ \/ commission'[q] = commission[q] /\ ~ (q \in Lines(c) /\ commission[q].status = "PENDING")
           \/ /\ q \in Lines(c) /\ commission[q].status = "PENDING"
              /\ commission'[q] = [status |-> "SETTLED", settlement |-> c]
  <2>1. commission' = Settled(Lines(c), c) /\ Lines(c) \in SUBSET Payments /\ c \in Settlements
    BY <1>1 DEF CommitFinalize, Lines, Settlements
  <2> QED
    BY <2>1, SettledEffect
<1>3. TypeOK'
  BY <1>2 DEF CommitFinalize, Settled, BatchRows
<1>4. \A b \in Batches : Lines(b)' = Lines(b)
  BY <1>1 DEF Lines
<1>5. \A p \in Lines(c) : line[p] = c /\ p \in Payments
  BY DEF Lines
<1>6. \A p \in Lines(c) : commission[p].status # "NONE"
  BY <1>5, NamesDiffer DEF LinesHeld
<1>7. \A p \in Lines(c) : commission'[p].status = "SETTLED" /\ p \notin reversed
  BY <1>1, <1>2, <1>5, <1>6 DEF CommissionRows, ReversedPaymentEarnsNothing
<1>8. ReversedPaymentEarnsNothing'
  BY <1>1, <1>2 DEF ReversedPaymentEarnsNothing
<1>9. SettlementTraceable'
  BY <1>1, <1>2, <1>5 DEF SettlementTraceable, PaidOut
<1>10. PayoutCoversItsLines'
  <2>1. \A b \in Batches : batch'[b].status \in PaidOut => batch'[b].total = Total(Lines(b)')
    BY <1>1, <1>4 DEF PayoutCoversItsLines
  <2>2. \A b \in Batches \ {c}, p \in Payments : line[p] = b => p \notin Lines(c)
    BY DEF Lines
  <2>3. \A b \in Batches \ {c} : batch'[b].status \in PaidOut =>
          \A p \in Lines(b)' : commission'[p].status \in {"SETTLED", "REVERSED"}
    BY <1>1, <1>2, <1>4, <2>2 DEF PayoutCoversItsLines, Lines
  <2> QED
    BY <1>4, <1>7, <2>1, <2>3 DEF PayoutCoversItsLines
<1>11. RequestsHold'
  <2>1. \A b \in Batches : finalizing'[b] # {} =>
          batch'[b].status = "DRAFT" /\ finalizing'[b] = Lines(b)'
    BY <1>1, <1>4 DEF RequestsHold
  <2>2. \A p \in Payments : line[p] \in Batches /\ batch[line[p]].status \in PaidOut =>
          batch'[line[p]].status \in PaidOut
    BY <1>1 DEF PaidOut
  <2> QED
    BY <1>1, <1>2, <2>1, <2>2 DEF RequestsHold
<1>12. LinesHeld'
  BY <1>1, <1>2, <1>4 DEF LinesHeld, PaidOut
<1> QED
  BY <1>1, <1>3, <1>4, <1>7, <1>8, <1>9, <1>10, <1>11, <1>12

\* Cancelling a draft batch frees its lines and keeps the invariant.
LEMMA CancelBatchInv ==
  ASSUME PayoutInv, NEW c \in Batches, CancelBatch(c) PROVE PayoutInv'
<1> USE DEF PayoutInv, TypeOK
<1>1. /\ UNCHANGED <<reversed, commission, finalizing, reversing>>
      /\ batch[c].status = "DRAFT" /\ finalizing[c] = {}
      /\ batch'[c].status = "CANCELLED"
      /\ \A b \in Batches \ {c} : batch'[b] = batch[b]
      /\ \A p \in Payments : line'[p] = IF line[p] = c THEN NoBatch ELSE line[p]
  BY DEF CancelBatch, BatchRows
<1>2. TypeOK'
  BY DEF CancelBatch, BatchRows
<1>3. \A b \in Batches \ {c} : Lines(b)' = Lines(b)
  BY <1>1, NamesDiffer DEF Lines
<1>4. ReversedPaymentEarnsNothing' /\ SettlementTraceable'
  BY <1>1 DEF ReversedPaymentEarnsNothing, SettlementTraceable, PaidOut
<1>5. PayoutCoversItsLines'
  <2>1. batch'[c].status \notin PaidOut
    BY <1>1 DEF PaidOut
  <2> QED
    BY <1>1, <1>3, <2>1 DEF PayoutCoversItsLines
<1>6. RequestsHold'
  BY <1>1, <1>3 DEF RequestsHold, PaidOut
<1>7. LinesHeld'
  BY <1>1, <1>3, NamesDiffer DEF LinesHeld
<1> QED
  BY <1>2, <1>4, <1>5, <1>6, <1>7

\* Marking a finalised batch paid keeps the invariant.
LEMMA MarkPaidInv ==
  ASSUME PayoutInv, NEW c \in Batches, MarkPaid(c) PROVE PayoutInv'
<1> USE DEF PayoutInv, TypeOK
<1>1. /\ UNCHANGED <<reversed, commission, line, finalizing, reversing>>
      /\ batch[c].status = "FINALIZED"
      /\ batch'[c].status = "PAID" /\ batch'[c].total = batch[c].total
      /\ \A b \in Batches \ {c} : batch'[b] = batch[b]
  BY DEF MarkPaid, BatchRows
<1>2. TypeOK'
  BY DEF MarkPaid, BatchRows
<1>3. \A b \in Batches : Lines(b)' = Lines(b)
  BY <1>1 DEF Lines
<1>4. ReversedPaymentEarnsNothing' /\ SettlementTraceable'
  BY <1>1 DEF ReversedPaymentEarnsNothing, SettlementTraceable, PaidOut
<1>5. PayoutCoversItsLines'
  BY <1>1, <1>3 DEF PayoutCoversItsLines, PaidOut
<1>6. RequestsHold' /\ LinesHeld'
  BY <1>1, <1>3 DEF RequestsHold, LinesHeld, PaidOut
<1> QED
  BY <1>2, <1>4, <1>5, <1>6

-----------------------------------------------------------------------------
(* The invariant and what follows from it *)

\* Every step keeps the invariant.
LEMMA NextPayoutInv ==
  ASSUME PayoutInv, [Next]_vars PROVE PayoutInv'
<1>1. CASE UNCHANGED vars
  <2>1. \A b \in Batches : Lines(b)' = Lines(b)
    BY <1>1 DEF vars, Lines
  <2> QED
    BY <1>1, <2>1 DEF vars, PayoutInv, TypeOK, ReversedPaymentEarnsNothing, SettlementTraceable,
       PayoutCoversItsLines, RequestsHold, LinesHeld
<1>2. CASE Next
  BY <1>2, CreateCommissionInv, SettleByHandInv, BeginReversalInv, CommitReversalInv,
     CreateBatchInv, BeginFinalizeInv, CommitFinalizeInv, CancelBatchInv, MarkPaidInv DEF Next
<1> QED
  BY <1>1, <1>2

\* The inductive invariant of commissions and payout batches.
THEOREM PayoutInvariant == Spec => []PayoutInv
<1>1. Init => PayoutInv
  BY InitPayoutInv
<1>2. PayoutInv /\ [Next]_vars => PayoutInv'
  BY NextPayoutInv
<1> QED
  BY <1>1, <1>2, PTL DEF Spec

\* Rows keep the fields and statuses the code gives them.
THEOREM PayoutTypes == Spec => []TypeOK
<1>1. PayoutInv => TypeOK
  BY DEF PayoutInv
<1> QED
  BY <1>1, PayoutInvariant, PTL

\* No interleaving of settlements, payouts and reversals leaves a commission on a reversed
\* payment owed or settled.
THEOREM ReversalTakesCommission == Spec => []ReversedPaymentEarnsNothing
<1>1. PayoutInv => ReversedPaymentEarnsNothing
  BY DEF PayoutInv
<1> QED
  BY <1>1, PayoutInvariant, PTL

\* A settlement that names a batch leads to a line of that batch, finalised or paid.
THEOREM SettlementsTraced == Spec => []SettlementTraceable
<1>1. PayoutInv => SettlementTraceable
  BY DEF PayoutInv
<1> QED
  BY <1>1, PayoutInvariant, PTL

\* A batch pays the total of its lines, none of them pending.
THEOREM PayoutsCovered == Spec => []PayoutCoversItsLines
<1>1. PayoutInv => PayoutCoversItsLines
  BY DEF PayoutInv
<1> QED
  BY <1>1, PayoutInvariant, PTL

\* Only the commit of a finalisation makes a batch FINALIZED.
LEMMA FinalizingStep ==
  ASSUME PayoutInv, [Next]_vars, NEW b \in Batches,
         batch'[b].status = "FINALIZED", batch[b].status # "FINALIZED"
  PROVE  CommitFinalize(b)
<1> USE DEF PayoutInv, TypeOK, BatchRows
<1>1. batch'[b] # batch[b]
  OBVIOUS
<1>2. batch' # batch
  BY <1>1
<1>3. PICK c \in Batches : \/ CommitFinalize(c) \/ CancelBatch(c) \/ MarkPaid(c)
                           \/ \E ps \in SUBSET Payments : CreateBatch(c, ps)
  BY <1>2 DEF Next, vars, CreateCommission, BeginReversal, CommitReversal, AbortReversal,
     SettleByHand, BeginFinalize, AbortFinalize
<1>4. c = b /\ ~ CancelBatch(c) /\ ~ MarkPaid(c) /\ ~ \E ps \in SUBSET Payments : CreateBatch(c, ps)
  BY <1>1, <1>3 DEF CommitFinalize, CancelBatch, MarkPaid, CreateBatch
<1> QED
  BY <1>3, <1>4

\* A batch becomes FINALIZED only with every commission on it settled and every payment
\* standing.
THEOREM FinalizedWhenEarned == Spec => FinalizedOnEarnedCommissions
<1>1. ASSUME PayoutInv, [Next]_vars, NEW b \in Batches,
             batch'[b].status = "FINALIZED", batch[b].status # "FINALIZED"
      PROVE  \A p \in Lines(b)' : commission'[p].status = "SETTLED" /\ p \notin reversed'
  BY <1>1, FinalizingStep, CommitFinalizeInv
<1>2. PayoutInv /\ [Next]_vars =>
        [\A b \in Batches : batch'[b].status = "FINALIZED" /\ batch[b].status # "FINALIZED" =>
           \A p \in Lines(b)' : commission'[p].status = "SETTLED" /\ p \notin reversed']_vars
  BY <1>1
<1> QED
  BY <1>2, PayoutInvariant, PTL DEF Spec, FinalizedOnEarnedCommissions

\* Nothing but the reversal of its payment follows a settlement.
THEOREM SettlementsFinal == Spec => SettledOnce
<1>1. ASSUME PayoutInv, [Next]_vars, NEW p \in Payments, commission[p].status = "SETTLED"
      PROVE  commission'[p] = commission[p] \/ p \in reversed'
  BY <1>1 DEF PayoutInv, TypeOK, Next, vars, CreateCommission, BeginReversal, CommitReversal,
     AbortReversal, SettleByHand, CreateBatch, BeginFinalize, CommitFinalize, AbortFinalize,
     CancelBatch, MarkPaid, Settled
<1>2. PayoutInv /\ [Next]_vars =>
        [\A p \in Payments : commission[p].status = "SETTLED" =>
           commission'[p] = commission[p] \/ p \in reversed']_vars
  BY <1>1
<1> QED
  BY <1>2, PayoutInvariant, PTL DEF Spec, SettledOnce
=============================================================================
