-------------------------- MODULE EmiTransactions --------------------------
(***************************************************************************)
(* The payment path of one subscription at the grain of its row locks.     *)
(* Requests run as READ COMMITTED transactions: a statement sees what was  *)
(* committed before it and the transaction's own writes; a row locked or   *)
(* written by one transaction cannot be locked or written by another until *)
(* the first commits or is rolled back.                                    *)
(*                                                                         *)
(* A payment locks its EMI and the subscription in one statement. A reveal *)
(* locks the draw, the subscription, its Lucky ID and the EMIs. A reversal *)
(* locks only the payment row, and other rows when it first writes them.   *)
(* The Lucky ID row is locked only after the subscription row, so the      *)
(* subscription's lock stands for both.                                    *)
(*                                                                         *)
(* The variables are committed rows, except txn, which holds what each     *)
(* running transaction has read, locked and written. The deferred foreign  *)
(* key checks at COMMIT, which can only delay a reversal, are left out.    *)
(***************************************************************************)
EXTENDS PlanRules, FiniteSets

CONSTANTS
  Txns,          \* database sessions
  Payments, Tenure, EmiAmount, Sub, LuckyId, NoLucky, NoSub,  \* as in LuckyPlan
  NoPay,         \* a null reference to a payment
  Ops            \* the kinds of transaction that run: "PAY", "REVERSE", "REVEAL"

ASSUME TxnTenure == Tenure \in Nat \ {0}
ASSUME TxnAmount == EmiAmount \in Nat \ {0}
ASSUME TxnPayments == IsFiniteSet(Payments)
ASSUME TxnNulls == NoPay \notin Payments /\ NoLucky # LuckyId /\ NoSub # Sub
ASSUME TxnOps == Ops \subseteq {"PAY", "REVERSE", "REVEAL"}

Months == 1..Tenure

VARIABLES
  status, winnerMonth,  \* the Subscription row
  lucky,                \* LuckyId.status
  emi,                  \* Emi.status of each month
  payment,              \* Payment rows
  ledger, waiver,       \* sums of the ledger entries of each EMI
  draw,                 \* the LuckyDraw rows, committed one per month
  txn                   \* the running transactions

rows == <<status, winnerMonth, lucky, emi, payment, ledger, waiver, draw>>
vars == <<rows, txn>>

NoPayment == [state |-> "NONE", month |-> 1, amount |-> 1]

\* A session with no transaction. at: the statement that comes next. status, winner: the
\* subscription as loaded into memory. locked: EMI rows locked or written, emi: what the
\* transaction made of those. sub: whether it holds the subscription row. saves: whether
\* it writes the subscription. mixed, which no action reads: whether it overlapped another
\* transaction and one of the two is a reversal.
Idle == [op |-> "NONE", at |-> "IDLE", pay |-> NoPay, month |-> 1, amount |-> 1,
         status |-> "ACTIVE", winner |-> 0, emi |-> [m \in Months |-> "PENDING"],
         locked |-> {}, sub |-> FALSE, saves |-> FALSE, mixed |-> FALSE]

\* Rows and transactions have the fields and statuses the code gives them.
TypeOK ==
  /\ status \in SubscriptionStatuses
  /\ winnerMonth \in 0..Tenure
  /\ lucky \in LuckyStatuses
  /\ emi \in [Months -> EmiStatuses]
  /\ payment \in [Payments -> [state : {"NONE", "POSTED", "REVERSED"}, month : Months,
                               amount : 1..EmiAmount]]
  /\ ledger \in [Months -> Int]
  /\ waiver \in [Months -> Nat]
  /\ draw \in [Months -> {"COMMITTED", "REVEALED"}]
  /\ txn \in [Txns ->
       [op : Ops \union {"NONE"}, at : {"IDLE", "EMI", "GUARD", "WRITE", "SUB", "SAVE", "COMMIT"},
        pay : Payments \union {NoPay}, month : Months, amount : 1..EmiAmount,
        status : SubscriptionStatuses, winner : 0..Tenure, emi : [Months -> EmiStatuses],
        locked : SUBSET Months, sub : BOOLEAN, saves : BOOLEAN, mixed : BOOLEAN]]

\* A sold-out batch with one subscription and its monthly draws committed.
Init ==
  /\ status = "ACTIVE" /\ winnerMonth = 0 /\ lucky = "ASSIGNED"
  /\ emi = [m \in Months |-> "PENDING"]
  /\ payment = [p \in Payments |-> NoPayment]
  /\ ledger = [m \in Months |-> 0]
  /\ waiver = [m \in Months |-> 0]
  /\ draw = [m \in Months |-> "COMMITTED"]
  /\ txn = [t \in Txns |-> Idle]

-----------------------------------------------------------------------------
(* Locks and views *)

EmisFree(t, months) == \A u \in Txns \ {t} : txn[u].locked \intersect months = {}
SubFree(t) == \A u \in Txns \ {t} : ~txn[u].sub
PaymentFree(p) == \A u \in Txns : txn[u].pay # p
DrawFree(month) == \A u \in Txns : txn[u].op = "REVEAL" => txn[u].month # month

\* The EMIs as a statement of t sees them.
Seen(t) == [m \in Months |-> IF m \in txn[t].locked THEN txn[t].emi[m] ELSE emi[m]]

EmiSet(view) == {view[m] : m \in Months}

Running(t, op, at) == txn[t].op = op /\ txn[t].at = at

Goes(t, new) == txn' = [txn EXCEPT ![t] = new] /\ UNCHANGED rows

\* The running transactions that a transaction of kind op overlaps, a reversal among the two.
Mixes(t, op) == {u \in Txns \ {t} : txn[u] # Idle /\ "REVERSE" \in {op, txn[u].op}}

Begins(t, new) ==
  /\ txn' = [u \in Txns |->
       IF u = t THEN [new EXCEPT !.mixed = Mixes(t, new.op) # {}]
       ELSE IF u \in Mixes(t, new.op) THEN [txn[u] EXCEPT !.mixed = TRUE] ELSE txn[u]]
  /\ UNCHANGED rows

-----------------------------------------------------------------------------
(* record_emi_payment *)

\* Mutant of BeginPayment: the rows are read without select_for_update.
BeginPaymentUnlocked(t, p, m, amount) ==
  /\ "PAY" \in Ops /\ txn[t] = Idle
  /\ payment[p].state = "NONE" /\ PaymentFree(p)
  /\ status \notin {"COMPLETED", "CANCELLED"}
  /\ emi[m] \notin SettledEmi
  /\ amount <= EmiAmount - NetPaid(ledger[m])
  /\ Begins(t, [Idle EXCEPT !.op = "PAY", !.at = "EMI", !.pay = p, !.month = m,
                            !.amount = amount, !.status = status, !.winner = winnerMonth,
                            !.emi = emi, !.locked = {m}, !.sub = TRUE])

\* Lock the EMI with its subscription, check both, create the payment and its ledger entry.
BeginPayment(t, p, m, amount) ==
  /\ "PAY" \in Ops /\ txn[t] = Idle
  /\ payment[p].state = "NONE" /\ PaymentFree(p)
  /\ EmisFree(t, {m}) /\ SubFree(t)
  /\ status \notin {"COMPLETED", "CANCELLED"}
  /\ emi[m] \notin SettledEmi
  /\ amount <= EmiAmount - NetPaid(ledger[m])
  /\ Begins(t, [Idle EXCEPT !.op = "PAY", !.at = "EMI", !.pay = p, !.month = m,
                            !.amount = amount, !.status = status, !.winner = winnerMonth,
                            !.emi = emi, !.locked = {m}, !.sub = TRUE])

\* _refresh_emi_status of a payment, which owns the EMI row.
RefreshPaidEmi(t) ==
  LET m == txn[t].month
      new == RefreshedEmi(txn[t].emi[m], ledger[m] + txn[t].amount, EmiAmount)
  IN  /\ Running(t, "PAY", "EMI")
      /\ Goes(t, [txn[t] EXCEPT !.emi = [txn[t].emi EXCEPT ![m] = new], !.at = "SUB"])

-----------------------------------------------------------------------------
(* reverse_payment_for_admin *)

\* Mutant of BeginReversal: the payment row is read without select_for_update.
BeginReversalUnlocked(t, p) ==
  /\ "REVERSE" \in Ops /\ txn[t] = Idle
  /\ payment[p].state = "POSTED"
  /\ Begins(t, [Idle EXCEPT !.op = "REVERSE", !.at = "EMI", !.pay = p,
                            !.month = payment[p].month, !.amount = payment[p].amount,
                            !.status = status, !.winner = winnerMonth])

\* Lock the payment, mark it reversed, load its subscription, create the ledger entry.
BeginReversal(t, p) ==
  /\ "REVERSE" \in Ops /\ txn[t] = Idle
  /\ payment[p].state = "POSTED" /\ PaymentFree(p)
  /\ Begins(t, [Idle EXCEPT !.op = "REVERSE", !.at = "EMI", !.pay = p,
                            !.month = payment[p].month, !.amount = payment[p].amount,
                            !.status = status, !.winner = winnerMonth])

\* _refresh_emi_status of a reversal: status and ledger as committed now, no lock. A PAID
\* row is updated past the model's guard, any other is saved through it.
ReadReversedEmi(t) ==
  LET m == txn[t].month
      new == RefreshedEmi(emi[m], ledger[m] - txn[t].amount, EmiAmount)
  IN  /\ Running(t, "REVERSE", "EMI")
      /\ Goes(t, [txn[t] EXCEPT
           !.emi = [txn[t].emi EXCEPT ![m] = new],
           !.at = CASE emi[m] = "WAIVED" -> "SUB"
                    [] emi[m] = "PAID" /\ new # "PAID" -> "WRITE"
                    [] OTHER -> "GUARD"])

\* Emi.save reads the row again and refuses to change one that is PAID or WAIVED.
PassEmiGuard(t) ==
  LET m == txn[t].month
  IN  /\ Running(t, "REVERSE", "GUARD")
      /\ emi[m] \in SettledEmi => txn[t].emi[m] = emi[m]
      /\ Goes(t, [txn[t] EXCEPT !.at = "WRITE"])

\* The UPDATE of the EMI row, which waits for its lock and then overwrites what it finds.
WriteReversedEmi(t) ==
  /\ Running(t, "REVERSE", "WRITE")
  /\ EmisFree(t, {txn[t].month})
  /\ Goes(t, [txn[t] EXCEPT !.locked = {txn[t].month}, !.at = "SUB"])

-----------------------------------------------------------------------------
(* What payments and reversals end with *)

\* Mutant of RefreshSubscription: the EMIs are read before the transaction's own write.
RefreshSubscriptionBefore(t) ==
  LET new == ResolvedStatus(EmiSet(emi),
               txn[t].winner # 0 \/ txn[t].status = "WON" \/ lucky = "WON")
  IN  /\ txn[t].op \in {"PAY", "REVERSE"} /\ txn[t].at = "SUB"
      /\ Goes(t, [txn[t] EXCEPT !.status = new, !.saves = new # txn[t].status,
                                !.at = IF new # txn[t].status THEN "SAVE" ELSE "COMMIT"])

\* _refresh_subscription_status: EMIs and Lucky ID as seen now, the subscription as loaded.
RefreshSubscription(t) ==
  LET new == ResolvedStatus(EmiSet(Seen(t)),
               txn[t].winner # 0 \/ txn[t].status = "WON" \/ lucky = "WON")
  IN  /\ txn[t].op \in {"PAY", "REVERSE"} /\ txn[t].at = "SUB"
      /\ Goes(t, [txn[t] EXCEPT !.status = new, !.saves = new # txn[t].status,
                                !.at = IF new # txn[t].status THEN "SAVE" ELSE "COMMIT"])

\* Subscription.save: the UPDATE waits for the row.
SaveSubscription(t) ==
  /\ txn[t].at = "SAVE"
  /\ SubFree(t)
  /\ Goes(t, [txn[t] EXCEPT !.sub = TRUE, !.at = "COMMIT"])

\* What the transaction wrote on the subscription and its Lucky ID, if it saved it.
PublishSubscription(t) ==
  IF txn[t].saves
  THEN status' = txn[t].status /\ lucky' = SavedLucky(txn[t].status, txn[t].winner)
  ELSE UNCHANGED <<status, lucky>>

CommitPayment(t) ==
  /\ Running(t, "PAY", "COMMIT")
  /\ payment' = [payment EXCEPT ![txn[t].pay] =
                   [state |-> "POSTED", month |-> txn[t].month, amount |-> txn[t].amount]]
  /\ ledger' = [ledger EXCEPT ![txn[t].month] = @ + txn[t].amount]
  /\ emi' = Seen(t)
  /\ PublishSubscription(t)
  /\ txn' = [txn EXCEPT ![t] = Idle]
  /\ UNCHANGED <<winnerMonth, waiver, draw>>

CommitReversal(t) ==
  /\ Running(t, "REVERSE", "COMMIT")
  /\ payment' = [payment EXCEPT ![txn[t].pay].state = "REVERSED"]
  /\ ledger' = [ledger EXCEPT ![txn[t].month] = @ - txn[t].amount]
  /\ emi' = Seen(t)
  /\ PublishSubscription(t)
  /\ txn' = [txn EXCEPT ![t] = Idle]
  /\ UNCHANGED <<winnerMonth, waiver, draw>>

-----------------------------------------------------------------------------
(* reveal_and_execute_draw *)

\* Mutant of BeginReveal: the eligible subscriptions are read without select_for_update.
BeginRevealUnlocked(t, month) ==
  /\ "REVEAL" \in Ops /\ txn[t] = Idle
  /\ draw[month] = "COMMITTED" /\ DrawFree(month)
  /\ status = "ACTIVE" /\ lucky = "ASSIGNED"
  /\ Begins(t, [Idle EXCEPT !.op = "REVEAL", !.at = "EMI", !.month = month])

\* Lock the draw, the eligible subscription and its Lucky ID.
BeginReveal(t, month) ==
  /\ "REVEAL" \in Ops /\ txn[t] = Idle
  /\ draw[month] = "COMMITTED" /\ DrawFree(month)
  /\ SubFree(t)
  /\ status = "ACTIVE" /\ lucky = "ASSIGNED"
  /\ Begins(t, [Idle EXCEPT !.op = "REVEAL", !.at = "EMI", !.month = month, !.sub = TRUE])

\* apply_winner_state: lock the EMIs, waive the later ones still pending, mark the win.
WaiveFutureEmis(t) ==
  LET view == [m \in Months |-> IF m > txn[t].month /\ emi[m] = "PENDING"
                                THEN "WAIVED" ELSE emi[m]]
  IN  /\ Running(t, "REVEAL", "EMI")
      /\ EmisFree(t, Months)
      /\ Goes(t, [txn[t] EXCEPT !.emi = view, !.locked = Months,
                                !.status = ResolvedStatus(EmiSet(view), TRUE), !.saves = TRUE,
                                !.winner = txn[t].month, !.at = "COMMIT"])

CommitReveal(t) ==
  /\ Running(t, "REVEAL", "COMMIT")
  /\ draw' = [draw EXCEPT ![txn[t].month] = "REVEALED"]
  /\ emi' = Seen(t)
  /\ waiver' = [m \in Months |-> waiver[m] +
                  (IF Seen(t)[m] = "WAIVED" /\ emi[m] # "WAIVED" THEN EmiAmount ELSE 0)]
  /\ winnerMonth' = txn[t].winner
  /\ PublishSubscription(t)
  /\ txn' = [txn EXCEPT ![t] = Idle]
  /\ UNCHANGED <<payment, ledger>>

-----------------------------------------------------------------------------
\* A request fails, its session dies, or it is the victim of a deadlock: rolled back.
Rollback(t) == txn[t] # Idle /\ Goes(t, Idle)

Next == \E t \in Txns :
  \/ \E p \in Payments, m \in Months, amount \in 1..EmiAmount : BeginPayment(t, p, m, amount)
  \/ RefreshPaidEmi(t)
  \/ \E p \in Payments : BeginReversal(t, p)
  \/ ReadReversedEmi(t)
  \/ PassEmiGuard(t)
  \/ WriteReversedEmi(t)
  \/ RefreshSubscription(t)
  \/ SaveSubscription(t)
  \/ CommitPayment(t)
  \/ CommitReversal(t)
  \/ \E month \in Months : BeginReveal(t, month)
  \/ WaiveFutureEmis(t)
  \/ CommitReveal(t)
  \/ Rollback(t)

Spec == Init /\ [][Next]_vars

-----------------------------------------------------------------------------
(* The committed rows as the rows of a LuckyPlan batch with one subscription *)

Plan == INSTANCE LuckyPlan WITH
  Subs <- {Sub}, Luckies <- {LuckyId},
  batch <- "FULL", snapshot <- {},
  lucky <- [l \in {LuckyId} |-> lucky],
  status <- [s \in {Sub} |-> status],
  holds <- [s \in {Sub} |-> LuckyId],
  winnerMonth <- [s \in {Sub} |-> winnerMonth],
  emi <- [s \in {Sub} |-> emi],
  ledger <- [s \in {Sub} |-> ledger],
  waiver <- [s \in {Sub} |-> waiver],
  payment <- [p \in Payments |->
    [state |-> payment[p].state, month |-> payment[p].month, amount |-> payment[p].amount,
     sub |-> IF payment[p].state = "NONE" THEN NoSub ELSE Sub]],
  draw <- [m \in Months |->
    [state |-> draw[m], coordinated |-> FALSE,
     winner |-> IF draw[m] = "REVEALED" THEN Sub ELSE NoSub,
     lucky |-> IF draw[m] = "REVEALED" THEN LuckyId ELSE NoLucky]]

\* Payments and reveals are serialised by the subscription row: in whatever order their
\* statements run, what each commits is one atomic step of LuckyPlan. So is what a reversal
\* commits, and what is committed beside it, unless the two overlapped.
CommitsAreAtomic ==
  [][(\E t \in Txns : txn[t].mixed /\ txn'[t] = Idle) \/ Plan!Next]_(Plan!vars)

\* No revealed draw waived EMIs of this month.
NeverWaived(m) == \A d \in Months : draw[d] = "REVEALED" => d >= m

\* A reversal reads the ledger and writes the EMI without the lock that payments take, and
\* still an EMI that its ledger covers is PAID, nobody collects more than its amount, and
\* it is PAID only while it is covered, unless a draw reached its month: a reversal that
\* met the waiver skips the EMI (see WaivedStaysWaived).
EmiCoveredWhenPaid ==
  \A m \in Months :
    /\ ledger[m] \in 0..EmiAmount
    /\ ledger[m] = EmiAmount => emi[m] = "PAID"
    /\ NeverWaived(m) /\ emi[m] = "PAID" => ledger[m] = EmiAmount

\* Requests to reverse one payment twice, and payments sent side by side, leave a ledger
\* that counts every unreversed payment once.
LedgerCountsPayments == Plan!LedgerMatchesPayments

-----------------------------------------------------------------------------
(* What a comment promises and interleaved transactions do not keep *)

\* "WAIVED is a permanent terminal state ... Payment recalculation must never reverse it".
WaivedStaysWaived ==
  [][\A m \in Months : emi[m] = "WAIVED" => emi'[m] = "WAIVED"]_vars
=============================================================================
