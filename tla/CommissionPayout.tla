-------------------------- MODULE CommissionPayout --------------------------
(***************************************************************************)
(* Partner commissions and the batches that pay them out. A payment earns  *)
(* one commission, so a payment stands for its commission too. A           *)
(* commission is settled by hand or by the payout batch that holds its     *)
(* line, and the reversal of its payment reverses it.                      *)
(*                                                                         *)
(* Requests are READ COMMITTED transactions. Those that decide on rows     *)
(* they hold locked take effect in one step. Two decide on more than they  *)
(* have locked, and are steps of their own: finalising a batch holds the   *)
(* batch row and checks commissions and payments it has only read, and     *)
(* reversing a payment holds the payment row and saves a commission object *)
(* loaded before.                                                          *)
(***************************************************************************)
EXTENDS Integers, FiniteSetsExt

CONSTANTS
  Payments,   \* payments of partner subscriptions
  Batches,    \* CommissionPayoutBatch rows
  PartnerOf,  \* the partner of each payment's subscription
  Amount,     \* the commission each payment earns
  NoBatch     \* a null reference to a batch

ASSUME AmountsPositive == Amount \in [Payments -> Nat \ {0}]
ASSUME NamesDiffer == NoBatch \notin Batches /\ {"NOBODY", "HAND"} \intersect Batches = {}

VARIABLES
  reversed,    \* payments with reversal.is_reversed in their allocation metadata
  commission,  \* Commission rows: status, and who settled it in the metadata
  line,        \* the batch that holds the payout line of a commission
  batch,       \* CommissionPayoutBatch rows
  finalizing,  \* requests that finalise a batch: the commissions of the lines they read
  reversing    \* requests that reverse a payment: the commission as they loaded it

vars == <<reversed, commission, line, batch, finalizing, reversing>>

Settlements == {"NOBODY", "HAND"} \union Batches

CommissionRows ==
  [status : {"NONE", "PENDING", "SETTLED", "REVERSED"}, settlement : Settlements]

NotRunning == [status |-> "NOT_RUNNING", settlement |-> "NOBODY"]

Lines(b) == {p \in Payments : line[p] = b}

Total(ps) == MapThenSumSet(LAMBDA p : Amount[p], ps)

BatchRows ==
  [status : {"NONE", "DRAFT", "FINALIZED", "CANCELLED", "PAID"},
   total : {0} \union {Total(ps) : ps \in SUBSET Payments}]

PaidOut == {"FINALIZED", "PAID"}

\* Rows have the fields and statuses the code gives them.
TypeOK ==
  /\ reversed \subseteq Payments
  /\ commission \in [Payments -> CommissionRows]
  /\ line \in [Payments -> Batches \union {NoBatch}]
  /\ batch \in [Batches -> BatchRows]
  /\ finalizing \in [Batches -> SUBSET Payments]
  /\ reversing \in [Payments -> CommissionRows \union {NotRunning}]

\* Payments posted with their commission, or before their partner had a rate.
Init ==
  /\ reversed = {}
  /\ commission \in [Payments -> [status : {"NONE", "PENDING"}, settlement : {"NOBODY"}]]
  /\ line = [p \in Payments |-> NoBatch]
  /\ batch = [b \in Batches |-> [status |-> "NONE", total |-> 0]]
  /\ finalizing = [b \in Batches |-> {}]
  /\ reversing = [p \in Payments |-> NotRunning]

-----------------------------------------------------------------------------
(* Commissions *)

\* verify_payment and create_commission_for_payment, under the lock of the payment row.
CreateCommission(p) ==
  /\ reversing[p] = NotRunning
  /\ p \notin reversed /\ commission[p].status = "NONE"
  /\ commission' = [commission EXCEPT ![p].status = "PENDING"]
  /\ UNCHANGED <<reversed, line, batch, finalizing, reversing>>

\* Mutant of Settled: the status is not read again after the lock.
SettledUnchecked(ps, settlement) ==
  [p \in Payments |-> IF p \in ps THEN [status |-> "SETTLED", settlement |-> settlement]
                      ELSE commission[p]]

\* What settle_commission writes on the pending ones among locked commissions.
Settled(ps, settlement) ==
  [p \in Payments |-> IF p \in ps /\ commission[p].status = "PENDING"
                      THEN [status |-> "SETTLED", settlement |-> settlement]
                      ELSE commission[p]]

\* settle_commission for one commission, or for each of a list: the reversed are reported.
SettleByHand(ps) ==
  /\ \E p \in ps : commission[p].status = "PENDING"
  /\ commission' = Settled(ps, "HAND")
  /\ UNCHANGED <<reversed, line, batch, finalizing, reversing>>

-----------------------------------------------------------------------------
(* reverse_payment_for_admin *)

\* Mutant of BeginReversal: only a commission in no payout batch is looked up.
BeginReversalOfUnbatched(p) ==
  /\ reversing[p] = NotRunning /\ p \notin reversed
  /\ reversing' = [reversing EXCEPT ![p] =
       IF line[p] = NoBatch THEN commission[p]
       ELSE [status |-> "NONE", settlement |-> "NOBODY"]]
  /\ UNCHANGED <<reversed, commission, line, batch, finalizing>>

\* Lock the payment, mark it reversed, load its commission without a lock.
BeginReversal(p) ==
  /\ reversing[p] = NotRunning /\ p \notin reversed
  /\ reversing' = [reversing EXCEPT ![p] = commission[p]]
  /\ UNCHANGED <<reversed, commission, line, batch, finalizing>>

\* Save the commission as it was loaded, now REVERSED, unless there is none; commit.
CommitReversal(p) ==
  /\ reversing[p] # NotRunning
  /\ reversed' = reversed \union {p}
  /\ commission' = [commission EXCEPT ![p] =
       IF reversing[p].status \in {"NONE", "REVERSED"} THEN @
       ELSE [status |-> "REVERSED", settlement |-> reversing[p].settlement]]
  /\ reversing' = [reversing EXCEPT ![p] = NotRunning]
  /\ UNCHANGED <<line, batch, finalizing>>

\* A reversal without a reason, or one that fails later on, is rolled back.
AbortReversal(p) ==
  /\ reversing[p] # NotRunning
  /\ reversing' = [reversing EXCEPT ![p] = NotRunning]
  /\ UNCHANGED <<reversed, commission, line, batch, finalizing>>

-----------------------------------------------------------------------------
(* Payout batches *)

\* Mutant of CreateBatch: a commission that has a payout line is taken again.
CreateBatchAgain(b, ps) ==
  /\ batch[b].status = "NONE" /\ ps # {}
  /\ \A p, q \in ps : PartnerOf[p] = PartnerOf[q]
  /\ \A p \in ps : p \notin reversed /\ commission[p].status = "PENDING"
  /\ batch' = [batch EXCEPT ![b] = [status |-> "DRAFT", total |-> Total(ps)]]
  /\ line' = [p \in Payments |-> IF p \in ps THEN b ELSE line[p]]
  /\ UNCHANGED <<reversed, commission, finalizing, reversing>>

\* create_commission_payout_batch, on locked commissions.
CreateBatch(b, ps) ==
  /\ batch[b].status = "NONE" /\ ps # {}
  /\ \A p, q \in ps : PartnerOf[p] = PartnerOf[q]
  /\ \A p \in ps : p \notin reversed /\ commission[p].status = "PENDING" /\ line[p] = NoBatch
  /\ batch' = [batch EXCEPT ![b] = [status |-> "DRAFT", total |-> Total(ps)]]
  /\ line' = [p \in Payments |-> IF p \in ps THEN b ELSE line[p]]
  /\ UNCHANGED <<reversed, commission, finalizing, reversing>>

\* Lock the batch, read its lines with their commissions and payments, check each of them.
BeginFinalize(b) ==
  /\ batch[b].status = "DRAFT" /\ finalizing[b] = {}
  /\ Lines(b) # {}
  /\ \A p \in Lines(b) : commission[p].status = "PENDING" /\ p \notin reversed
  /\ finalizing' = [finalizing EXCEPT ![b] = Lines(b)]
  /\ UNCHANGED <<reversed, commission, line, batch, reversing>>

\* Mutant of CommitFinalize: a commission reversed meanwhile is passed over.
CommitFinalizeUnchecked(b) ==
  /\ finalizing[b] # {}
  /\ commission' = Settled(finalizing[b], b)
  /\ batch' = [batch EXCEPT ![b].status = "FINALIZED"]
  /\ finalizing' = [finalizing EXCEPT ![b] = {}]
  /\ UNCHANGED <<reversed, line, reversing>>

\* Mutant of CommitFinalize: the settlement is recorded without its batch.
CommitFinalizeUntraced(b) ==
  /\ finalizing[b] # {}
  /\ \A p \in finalizing[b] : commission[p].status # "REVERSED"
  /\ commission' = Settled(finalizing[b], NoBatch)
  /\ batch' = [batch EXCEPT ![b].status = "FINALIZED"]
  /\ finalizing' = [finalizing EXCEPT ![b] = {}]
  /\ UNCHANGED <<reversed, line, reversing>>

\* settle_commission for each line: it refuses a commission reversed by now, and skips one
\* that was settled by now. The batch is FINALIZED.
CommitFinalize(b) ==
  /\ finalizing[b] # {}
  /\ \A p \in finalizing[b] : commission[p].status # "REVERSED"
  /\ commission' = Settled(finalizing[b], b)
  /\ batch' = [batch EXCEPT ![b].status = "FINALIZED"]
  /\ finalizing' = [finalizing EXCEPT ![b] = {}]
  /\ UNCHANGED <<reversed, line, reversing>>

\* The request fails, on a reversed commission for one, and is rolled back.
AbortFinalize(b) ==
  /\ finalizing[b] # {}
  /\ finalizing' = [finalizing EXCEPT ![b] = {}]
  /\ UNCHANGED <<reversed, commission, line, batch, reversing>>

\* Mutant of CancelBatch: the batch is read without select_for_update.
CancelBatchUnlocked(b) ==
  /\ batch[b].status = "DRAFT"
  /\ batch' = [batch EXCEPT ![b].status = "CANCELLED"]
  /\ line' = [p \in Payments |-> IF line[p] = b THEN NoBatch ELSE line[p]]
  /\ UNCHANGED <<reversed, commission, finalizing, reversing>>

\* cancel_commission_payout_batch deletes the lines; their commissions can be batched again.
CancelBatch(b) ==
  /\ batch[b].status = "DRAFT" /\ finalizing[b] = {}
  /\ batch' = [batch EXCEPT ![b].status = "CANCELLED"]
  /\ line' = [p \in Payments |-> IF line[p] = b THEN NoBatch ELSE line[p]]
  /\ UNCHANGED <<reversed, commission, finalizing, reversing>>

\* mark_commission_payout_batch_paid
MarkPaid(b) ==
  /\ batch[b].status = "FINALIZED"
  /\ batch' = [batch EXCEPT ![b].status = "PAID"]
  /\ UNCHANGED <<reversed, commission, line, finalizing, reversing>>

-----------------------------------------------------------------------------
Next ==
  \/ \E p \in Payments :
       CreateCommission(p) \/ BeginReversal(p) \/ CommitReversal(p) \/ AbortReversal(p)
  \/ \E ps \in SUBSET Payments : SettleByHand(ps)
  \/ \E b \in Batches, ps \in SUBSET Payments : CreateBatch(b, ps)
  \/ \E b \in Batches :
       \/ BeginFinalize(b) \/ CommitFinalize(b) \/ AbortFinalize(b)
       \/ CancelBatch(b) \/ MarkPaid(b)

Spec == Init /\ [][Next]_vars

-----------------------------------------------------------------------------
(* Properties *)

\* Whatever runs beside it, the reversal of a payment leaves its commission REVERSED, and
\* nothing creates or settles one afterwards.
ReversedPaymentEarnsNothing ==
  \A p \in reversed : commission[p].status \in {"NONE", "REVERSED"}

\* A commission that names a batch as its settlement has kept its line in that batch, which
\* is neither cancelled nor back in draft: the settlement can be traced to a payout.
SettlementTraceable ==
  \A p \in Payments : commission[p].settlement \in Batches =>
    line[p] = commission[p].settlement /\ batch[line[p]].status \in PaidOut

\* A batch pays the sum of its lines, and pays no commission that is still PENDING and
\* could be settled a second time.
PayoutCoversItsLines ==
  \A b \in Batches : batch[b].status \in PaidOut =>
    /\ batch[b].total = Total(Lines(b))
    /\ \A p \in Lines(b) : commission[p].status \in {"SETTLED", "REVERSED"}

\* When a batch becomes FINALIZED each of its commissions is settled and its payment
\* stands, though both were read before they were locked.
FinalizedOnEarnedCommissions ==
  [][\A b \in Batches : batch'[b].status = "FINALIZED" /\ batch[b].status # "FINALIZED" =>
       \A p \in Lines(b)' : commission'[p].status = "SETTLED" /\ p \notin reversed']_vars

\* A settlement is recorded once: until its payment is reversed no later request, and no
\* other batch, settles the commission again.
SettledOnce ==
  [][\A p \in Payments : commission[p].status = "SETTLED" =>
       commission'[p] = commission[p] \/ p \in reversed']_vars

-----------------------------------------------------------------------------
(* What the repository says of payouts and the code does not keep *)

\* "Same commission cannot be paid twice": no batch pays out what was settled by hand.
PaidOnce ==
  \A p \in Payments : commission[p].settlement = "HAND" =>
    \A b \in Batches : line[p] = b => batch[b].status \notin PaidOut
=============================================================================
