----------------------------- MODULE LuckyPlan -----------------------------
(***************************************************************************)
(* One batch of the Lucky Plan: its Lucky IDs, the subscriptions enrolled  *)
(* in it, their instalments (EMIs), the payments on those, and the draws.  *)
(* Every action is one committed database transaction of the service or    *)
(* view it names; EmiTransactions splits those of the payment path into    *)
(* statements and says when the steps here are still what is seen.         *)
(*                                                                         *)
(* Left out, because no property here depends on them: customers, dates,   *)
(* audit rows, business events, notifications, the accounting postings,    *)
(* and stored waived_amount, which each writer recomputes from the EMIs.   *)
(***************************************************************************)
EXTENDS PlanRules, FiniteSets, FiniteSetsExt, Functions

CONSTANTS
  Subs,       \* subscription rows that may be created in the batch
  Luckies,    \* the Lucky IDs of the batch, total_slots of them
  Payments,   \* payment rows that may be created
  Tenure,     \* duration_months: EMIs of a subscription, draws of the batch
  EmiAmount,  \* the amount of one EMI
  NoLucky,    \* subscription.lucky_id is null
  NoSub       \* a null reference to a subscription

ASSUME SetAssumption == IsFiniteSet(Luckies) /\ Luckies # {} /\ IsFiniteSet(Payments)
ASSUME TenureAssumption == Tenure \in Nat \ {0}
ASSUME AmountAssumption == EmiAmount \in Nat \ {0}
ASSUME NullAssumption == NoLucky \notin Luckies /\ NoSub \notin Subs

Months == 1..Tenure
Amounts == 1..EmiAmount

VARIABLES
  batch,        \* Batch.status
  lucky,        \* LuckyId.status
  status,       \* Subscription.status
  holds,        \* Subscription.lucky_id
  winnerMonth,  \* Subscription.winner_month, 0 when null
  emi,          \* Emi.status of each subscription and month
  payment,      \* Payment rows, with allocation_metadata.reversal as a state
  ledger,       \* EMI_PAYMENT minus PAYMENT_REVERSAL entries of each EMI
  waiver,       \* EMI_WAIVER entries of each EMI, summed
  snapshot,     \* subscriptions with a DrawEligibilitySnapshot row
  draw          \* LuckyDraw row of each month

emiVars == <<emi, ledger, waiver>>
batchVars == <<batch, snapshot, draw>>
vars == <<batch, lucky, status, holds, winnerMonth, emi, payment, ledger, waiver,
          snapshot, draw>>

NoPayment == [state |-> "NONE", sub |-> NoSub, month |-> 1, amount |-> 1]
NoDraw == [state |-> "NONE", coordinated |-> FALSE, winner |-> NoSub, lucky |-> NoLucky]

PaymentRows == [state : {"NONE", "POSTED", "REVERSED"}, sub : Subs \union {NoSub},
                month : Months, amount : Amounts]
DrawRows == [state : {"NONE", "COMMITTED", "REVEALED"}, coordinated : BOOLEAN,
             winner : Subs \union {NoSub}, lucky : Luckies \union {NoLucky}]

\* Rows have the values their columns admit, and only those the code ever writes there.
TypeOK ==
  /\ batch \in BatchStatuses
  /\ lucky \in [Luckies -> LuckyStatuses]
  /\ status \in [Subs -> SubscriptionStatuses]
  /\ holds \in [Subs -> Luckies \union {NoLucky}]
  /\ winnerMonth \in [Subs -> 0..Tenure]
  /\ emi \in [Subs -> [Months -> EmiStatuses]]
  /\ payment \in [Payments -> PaymentRows]
  /\ ledger \in [Subs -> [Months -> Int]]
  /\ waiver \in [Subs -> [Months -> Nat]]
  /\ snapshot \subseteq Subs
  /\ draw \in [Months -> DrawRows]

\* A batch in DRAFT with its Lucky IDs prepared and nobody enrolled.
Init ==
  /\ batch = "DRAFT"
  /\ lucky = [l \in Luckies |-> "AVAILABLE"]
  /\ status = [s \in Subs |-> "NONE"]
  /\ holds = [s \in Subs |-> NoLucky]
  /\ winnerMonth = [s \in Subs |-> 0]
  /\ emi = [s \in Subs |-> [m \in Months |-> "PENDING"]]
  /\ payment = [p \in Payments |-> NoPayment]
  /\ ledger = [s \in Subs |-> [m \in Months |-> 0]]
  /\ waiver = [s \in Subs |-> [m \in Months |-> 0]]
  /\ snapshot = {}
  /\ draw = [m \in Months |-> NoDraw]

-----------------------------------------------------------------------------
(* Reading the rows *)

EmiSet(row) == {row[m] : m \in Months}

Linked(s) == holds[s] # NoLucky

Winner(s) ==
  \/ winnerMonth[s] # 0
  \/ status[s] = "WON"
  \/ Linked(s) /\ lucky[holds[s]] = "WON"

Enrolled == {s \in Subs : status[s] # "NONE"}

Draws == {m \in Months : draw[m].state # "NONE"}

Rows(s) == {p \in Payments : payment[p].state # "NONE" /\ payment[p].sub = s}

\* Unreversed payments of an EMI: effective_paid_for_emi.
Posted(s, m) ==
  {p \in Payments : payment[p].state = "POSTED" /\ payment[p].sub = s /\ payment[p].month = m}

EffectivePaid(s, m) == SumFunction([p \in Posted(s, m) |-> payment[p].amount])

\* Mutant of LiveEligible: winners are not taken out of the monthly draw.
LiveEligibleWithWinners == {s \in Subs : status[s] \in {"ACTIVE", "WON"} /\ Linked(s)}

\* _eligible_queryset, and _eligible_winner_subscriptions of a batch with no snapshot.
LiveEligible ==
  {s \in Subs : status[s] = "ACTIVE" /\ Linked(s) /\ lucky[holds[s]] = "ASSIGNED"}

\* _eligible_winner_subscriptions: the snapshot as it was frozen once there is one.
Eligible == IF snapshot # {} THEN snapshot ELSE LiveEligible

-----------------------------------------------------------------------------
(* Parts of a transaction that several services share *)

\* Subscription.save of a new status, done only when it differs. Validation refuses to
\* save a subscription with no Lucky ID unless it is CANCELLED.
SaveStatus(s, new) ==
  /\ new = status[s] \/ Linked(s)
  /\ status' = [status EXCEPT ![s] = new]
  /\ lucky' = IF new = status[s]
              THEN lucky
              ELSE [lucky EXCEPT ![holds[s]] = SavedLucky(new, winnerMonth[s])]

\* _reconcile_after_payment: the EMI and then the subscription follow the ledger.
Reconcile(s, m, net) ==
  LET row == [emi[s] EXCEPT ![m] = RefreshedEmi(emi[s][m], net, EmiAmount)]
  IN  /\ ledger' = [ledger EXCEPT ![s] = [ledger[s] EXCEPT ![m] = net]]
      /\ emi' = [emi EXCEPT ![s] = row]
      /\ SaveStatus(s, ResolvedStatus(EmiSet(row), Winner(s)))

\* Mutant of FuturePending: the winning month itself is waived.
FuturePendingFromWin(s, month) == {m \in Months : m >= month /\ emi[s][m] = "PENDING"}

\* Mutant of FuturePending: EMIs already waived are waived again.
FutureUnpaid(s, month) == {m \in Months : m > month /\ emi[s][m] # "PAID"}

\* The EMIs a win in month waives: later than the month and still pending.
FuturePending(s, month) == {m \in Months : m > month /\ emi[s][m] = "PENDING"}

\* apply_winner_state: waive the future EMIs in full, mark the subscription and its Lucky ID.
ApplyWinner(s, month) ==
  LET future == FuturePending(s, month)
      row == [m \in Months |-> IF m \in future THEN "WAIVED" ELSE emi[s][m]]
  IN  /\ Linked(s)
      /\ emi' = [emi EXCEPT ![s] = row]
      /\ waiver' = [waiver EXCEPT ![s] =
                      [m \in Months |-> waiver[s][m] + (IF m \in future THEN EmiAmount ELSE 0)]]
      /\ status' = [status EXCEPT ![s] = ResolvedStatus(EmiSet(row), TRUE)]
      /\ winnerMonth' = [winnerMonth EXCEPT ![s] = month]
      /\ lucky' = [lucky EXCEPT ![holds[s]] = "WON"]

-----------------------------------------------------------------------------
(* The batch and its subscriptions *)

\* Mutant of TransitionBatch: the coordinated statuses are open to a plain edit.
TransitionBatchUnguarded(next) ==
  /\ next \in BatchTransitions[batch]
  /\ next = "FULL" => \A l \in Luckies : lucky[l] # "AVAILABLE"
  /\ next = "COMPLETED" => Draws # {}
  /\ batch' = next
  /\ UNCHANGED <<lucky, status, holds, winnerMonth, emiVars, payment, snapshot, draw>>

\* transition_status / perform_update: an admin moves the batch along.
TransitionBatch(next) ==
  /\ next \in BatchTransitions[batch] \ Coordinated
  /\ next = "FULL" => \A l \in Luckies : lucky[l] # "AVAILABLE"
  /\ next = "COMPLETED" => Draws # {}
  /\ batch' = next
  /\ UNCHANGED <<lucky, status, holds, winnerMonth, emiVars, payment, snapshot, draw>>

\* The rows every enrolment writes: a free Lucky ID, an ACTIVE subscription. The schedule
\* is pending, as Init has it.
NewSubscription(s, l) ==
  /\ status[s] = "NONE"
  /\ lucky[l] = "AVAILABLE"
  /\ status' = [status EXCEPT ![s] = "ACTIVE"]
  /\ holds' = [holds EXCEPT ![s] = l]
  /\ lucky' = [lucky EXCEPT ![l] = "ASSIGNED"]
  /\ UNCHANGED <<winnerMonth, emiVars, payment, snapshot, draw>>

\* create_emi_subscription: the last Lucky ID sold makes the batch FULL.
Enrol(s, l) ==
  /\ batch = "OPEN"
  /\ NewSubscription(s, l)
  /\ batch' = IF \E k \in Luckies : lucky'[k] = "AVAILABLE" THEN batch ELSE "FULL"

\* SubscriptionAdminSerializer.create: the admin endpoint's own enrolment.
AdminEnrol(s, l) ==
  /\ batch \in PreLock
  /\ NewSubscription(s, l)
  /\ UNCHANGED batch

\* The edits that change terms: refused once a payment row or a settled EMI exists.
TermsEditable(s) ==
  /\ status[s] \notin {"NONE", "WON", "COMPLETED"}
  /\ Rows(s) = {}
  /\ EmiSet(emi[s]) \intersect SettledEmi = {}

\* SubscriptionAdminSerializer.update with another Lucky ID; a subscription that lost its
\* Lucky ID is given a free one by any edit at all.
AdminAssignLucky(s, l) ==
  /\ status[s] # "NONE"
  /\ Linked(s) => TermsEditable(s)
  /\ batch \in PreLock
  /\ lucky[l] = "AVAILABLE"
  /\ holds' = [holds EXCEPT ![s] = l]
  /\ lucky' = [k \in Luckies |-> IF k = l THEN SavedLucky(status[s], winnerMonth[s])
                                ELSE IF k = holds[s] THEN "AVAILABLE" ELSE lucky[k]]
  /\ UNCHANGED <<batch, status, winnerMonth, emiVars, payment, snapshot, draw>>

\* SubscriptionAdminSerializer.update with another product: the schedule is rebuilt.
AdminRebuildSchedule(s) ==
  /\ Linked(s)
  /\ TermsEditable(s)
  /\ emi' = [emi EXCEPT ![s] = [m \in Months |-> "PENDING"]]
  /\ UNCHANGED <<batchVars, lucky, status, holds, winnerMonth, payment, ledger, waiver>>

\* Mutant of CancelSubscription: the Lucky ID is freed and stays linked.
CancelSubscriptionKeepsLink(s, force) ==
  /\ status[s] = "ACTIVE"
  /\ force \/ \A m \in Months : Posted(s, m) = {}
  /\ emi' = [emi EXCEPT ![s] =
               [m \in Months |-> IF emi[s][m] = "PENDING" THEN "CANCELLED" ELSE emi[s][m]]]
  /\ status' = [status EXCEPT ![s] = "CANCELLED"]
  /\ lucky' = [lucky EXCEPT ![holds[s]] = "AVAILABLE"]
  /\ UNCHANGED <<batchVars, holds, winnerMonth, payment, ledger, waiver>>

\* cancel_subscription and release_lucky_id_for_cancelled_subscription.
CancelSubscription(s, force) ==
  /\ status[s] = "ACTIVE"
  /\ force \/ \A m \in Months : Posted(s, m) = {}
  /\ emi' = [emi EXCEPT ![s] =
               [m \in Months |-> IF emi[s][m] = "PENDING" THEN "CANCELLED" ELSE emi[s][m]]]
  /\ status' = [status EXCEPT ![s] = "CANCELLED"]
  /\ IF batch \in PreLock
     THEN /\ holds' = [holds EXCEPT ![s] = NoLucky]
          /\ lucky' = [lucky EXCEPT ![holds[s]] = "AVAILABLE"]
     ELSE UNCHANGED <<holds, lucky>>
  /\ UNCHANGED <<batchVars, winnerMonth, payment, ledger, waiver>>

\* close_contract, through the lifecycle table.
CloseContract(s) ==
  /\ status[s] = "COMPLETED"
  /\ SaveStatus(s, "CLOSED")
  /\ UNCHANGED <<batchVars, holds, winnerMonth, emiVars, payment>>

-----------------------------------------------------------------------------
(* Draws *)

\* create_lucky_draw_commit: the legacy commitment to the next month's draw.
CreateDrawCommit ==
  LET month == Cardinality(Draws) + 1
  IN  /\ batch \notin {"DRAFT", "COMPLETED", "CANCELLED"} \union Coordinated
      /\ month \in Months
      /\ draw[month].state = "NONE"
      /\ draw' = [draw EXCEPT ![month] = [NoDraw EXCEPT !.state = "COMMITTED"]]
      /\ UNCHANGED <<batch, lucky, status, holds, winnerMonth, emiVars, payment, snapshot>>

\* lock_batch_for_draw: freeze who may win. minimum is the caller's minimum_active.
LockBatch(minimum) ==
  /\ batch \in {"FULL", "READY_TO_LOCK"}
  /\ \A l \in Luckies : lucky[l] # "AVAILABLE"
  /\ Cardinality({s \in Subs : status[s] = "ACTIVE"}) >= minimum
  /\ LiveEligible # {}
  /\ snapshot' = LiveEligible
  /\ batch' = "LOCKED"
  /\ UNCHANGED <<lucky, status, holds, winnerMonth, emiVars, payment, draw>>

\* commit_batch_draw: the coordinated commitment to the month-1 draw.
CommitBatchDraw ==
  /\ batch = "LOCKED"
  /\ snapshot # {}
  /\ draw[1].state = "NONE"
  /\ draw' = [draw EXCEPT ![1] = [NoDraw EXCEPT !.state = "COMMITTED", !.coordinated = TRUE]]
  /\ batch' = "DRAW_COMMITTED"
  /\ UNCHANGED <<lucky, status, holds, winnerMonth, emiVars, payment, snapshot>>

\* Mutant of RevealDraw: the answer for a draw already revealed is missing.
RevealDrawAgain(month, s) ==
  /\ draw[month].state # "NONE"
  /\ s \in Eligible
  /\ ApplyWinner(s, month)
  /\ draw' = [draw EXCEPT ![month] = [@ EXCEPT !.state = "REVEALED", !.winner = s,
                                               !.lucky = holds[s]]]
  /\ batch' = IF draw[month].coordinated /\ batch = "DRAW_COMMITTED"
              THEN "DRAW_COMPLETED" ELSE batch
  /\ UNCHANGED <<holds, payment, ledger, snapshot>>

\* reveal_and_execute_draw: the seed picks one of the eligible, any of them here.
RevealDraw(month, s) ==
  /\ draw[month].state = "COMMITTED"
  /\ s \in Eligible
  /\ ApplyWinner(s, month)
  /\ draw' = [draw EXCEPT ![month] = [@ EXCEPT !.state = "REVEALED", !.winner = s,
                                               !.lucky = holds[s]]]
  /\ batch' = IF draw[month].coordinated /\ batch = "DRAW_COMMITTED"
              THEN "DRAW_COMPLETED" ELSE batch
  /\ UNCHANGED <<holds, payment, ledger, snapshot>>

\* execute_batch_draw: the same reveal behind the coordination endpoint's own guard.
ExecuteBatchDraw(s) ==
  /\ batch = "DRAW_COMMITTED"
  /\ RevealDraw(1, s)

\* WinnerService.execute_winner: an admin names the winner without a draw.
ExecuteWinner(s, month) ==
  /\ status[s] = "ACTIVE"
  /\ winnerMonth[s] = 0
  /\ \A m \in 1..month : emi[s][m] # "PENDING"
  /\ ApplyWinner(s, month)
  /\ UNCHANGED <<batchVars, holds, payment, ledger>>

\* get_revealed_winning_draw: revealed draws naming the subscription or its Lucky ID.
WonDraws(s) ==
  {d \in Months : /\ draw[d].state = "REVEALED"
                  /\ draw[d].winner = s \/ (Linked(s) /\ draw[d].lucky = holds[s])}

\* get_subscription_winner_evidence: the month the subscription is taken to have won in.
EvidenceMonth(s) ==
  CASE winnerMonth[s] # 0 -> winnerMonth[s]
    [] winnerMonth[s] = 0 /\ WonDraws(s) # {} -> Max(WonDraws(s))
    [] OTHER -> 0

\* What besides a revealed draw makes winner_month count as evidence of a win.
WinTraces(s) ==
  \/ \E m \in Months : waiver[s][m] # 0 \/ (m > EvidenceMonth(s) /\ emi[s][m] = "WAIVED")
  \/ status[s] = "WON"
  \/ Linked(s) /\ lucky[holds[s]] = "WON"

\* sync_winner_state, which reading a subscription's detail page also runs.
SyncWinnerState(s) ==
  /\ s \in Enrolled
  /\ WonDraws(s) # {} \/ (EvidenceMonth(s) # 0 /\ WinTraces(s))
  /\ Linked(s)
  /\ status' = [status EXCEPT ![s] = ResolvedStatus(EmiSet(emi[s]), TRUE)]
  /\ winnerMonth' = [winnerMonth EXCEPT ![s] = EvidenceMonth(s)]
  /\ lucky' = [lucky EXCEPT ![holds[s]] = "WON"]
  /\ UNCHANGED <<batchVars, holds, emiVars, payment>>

-----------------------------------------------------------------------------
(* Payments *)

\* Mutant of RecordPayment: the outstanding balance is not checked.
RecordPaymentUnbounded(p, s, m, amount) ==
  /\ payment[p].state = "NONE"
  /\ status[s] \notin {"NONE", "COMPLETED", "CANCELLED"}
  /\ emi[s][m] \notin SettledEmi
  /\ payment' = [payment EXCEPT ![p] = [state |-> "POSTED", sub |-> s, month |-> m,
                                        amount |-> amount]]
  /\ Reconcile(s, m, ledger[s][m] + amount)
  /\ UNCHANGED <<batchVars, holds, winnerMonth, waiver>>

\* record_emi_payment: never more than is outstanding, never on a settled EMI.
RecordPayment(p, s, m, amount) ==
  /\ payment[p].state = "NONE"
  /\ status[s] \notin {"NONE", "COMPLETED", "CANCELLED"}
  /\ emi[s][m] \notin SettledEmi
  /\ amount <= EmiAmount - NetPaid(ledger[s][m])
  /\ payment' = [payment EXCEPT ![p] = [state |-> "POSTED", sub |-> s, month |-> m,
                                        amount |-> amount]]
  /\ Reconcile(s, m, ledger[s][m] + amount)
  /\ UNCHANGED <<batchVars, holds, winnerMonth, waiver>>

\* Mutant of ReversePayment: a payment can be reversed again.
ReversePaymentAgain(p) ==
  LET row == payment[p]
  IN  /\ row.state # "NONE"
      /\ payment' = [payment EXCEPT ![p] = [row EXCEPT !.state = "REVERSED"]]
      /\ Reconcile(row.sub, row.month, ledger[row.sub][row.month] - row.amount)
      /\ UNCHANGED <<batchVars, holds, winnerMonth, waiver>>

\* reverse_payment_for_admin: once per payment, whatever the subscription's status.
ReversePayment(p) ==
  LET row == payment[p]
  IN  /\ row.state = "POSTED"
      /\ payment' = [payment EXCEPT ![p] = [row EXCEPT !.state = "REVERSED"]]
      /\ Reconcile(row.sub, row.month, ledger[row.sub][row.month] - row.amount)
      /\ UNCHANGED <<batchVars, holds, winnerMonth, waiver>>

\* reconcile_subscription_emis run by the reconcile_financials command: each EMI follows
\* its unreversed payments. The command has no transaction, so when the subscription
\* cannot be saved the EMI rows stay as written.
ReconcileFinancials(s) ==
  LET row == [m \in Months |-> RefreshedEmi(emi[s][m], EffectivePaid(s, m), EmiAmount)]
      new == ResolvedStatus(EmiSet(row), Winner(s))
  IN  /\ s \in Enrolled
      /\ \A m \in Months : emi[s][m] = "PAID" => row[m] = "PAID"
      /\ emi' = [emi EXCEPT ![s] = row]
      /\ SaveStatus(s, IF Linked(s) THEN new ELSE status[s])
      /\ UNCHANGED <<batchVars, holds, winnerMonth, payment, ledger, waiver>>

-----------------------------------------------------------------------------
Next ==
  \/ \E next \in BatchStatuses : TransitionBatch(next)
  \/ \E s \in Subs, l \in Luckies : Enrol(s, l) \/ AdminEnrol(s, l) \/ AdminAssignLucky(s, l)
  \/ \E s \in Subs : AdminRebuildSchedule(s)
  \/ \E s \in Subs, force \in BOOLEAN : CancelSubscription(s, force)
  \/ \E s \in Subs : CloseContract(s)
  \/ CreateDrawCommit
  \/ \E minimum \in 0..Cardinality(Luckies) : LockBatch(minimum)
  \/ CommitBatchDraw
  \/ \E month \in Months, s \in Subs : RevealDraw(month, s)
  \/ \E s \in Subs : ExecuteBatchDraw(s)
  \/ \E s \in Subs, month \in Months : ExecuteWinner(s, month)
  \/ \E s \in Subs : SyncWinnerState(s)
  \/ \E p \in Payments, s \in Subs, m \in Months, amount \in Amounts :
       RecordPayment(p, s, m, amount)
  \/ \E p \in Payments : ReversePayment(p)
  \/ \E s \in Subs : ReconcileFinancials(s)

Spec == Init /\ [][Next]_vars

-----------------------------------------------------------------------------
(* Properties *)

\* A Lucky ID is AVAILABLE exactly when no subscription holds it, and none is held twice:
\* enrolment, admin edits, cancellation and every later save of a subscription agree on it.
LuckyIdAvailability ==
  /\ \A l \in Luckies : lucky[l] = "AVAILABLE" <=> \A s \in Subs : holds[s] # l
  /\ \A s, t \in Subs : s # t /\ Linked(s) => holds[s] # holds[t]

\* Partial payments, reversals and reconciliation keep an EMI PAID exactly while its
\* ledger covers it, and never let the ledger leave 0..EmiAmount.
PaidExactlyWhenCovered ==
  \A s \in Subs, m \in Months :
    /\ ledger[s][m] \in 0..EmiAmount
    /\ emi[s][m] = "PAID" <=> ledger[s][m] = EmiAmount

\* reconcile_emi_ledger: the ledger of an EMI is the sum of its unreversed payments, so a
\* payment is counted once and reversed at most once.
LedgerMatchesPayments ==
  \A s \in Subs, m \in Months : ledger[s][m] = EffectivePaid(s, m)

\* Winning again, revealing again or repairing a winner never posts a second waiver:
\* an EMI carries one EMI_WAIVER entry if it is WAIVED and none otherwise.
WaiverPostedOnce ==
  \A s \in Subs, m \in Months :
    waiver[s][m] = IF emi[s][m] = "WAIVED" THEN EmiAmount ELSE 0

\* A win is recorded in four places, written by different services; they never disagree:
\* the draw, the subscription's winner_month, its status and its Lucky ID.
WinnerRecordsAgree ==
  /\ \A d \in Months : draw[d].state = "REVEALED" =>
        /\ draw[d].winner \in Subs /\ winnerMonth[draw[d].winner] # 0
        /\ holds[draw[d].winner] = draw[d].lucky
  /\ \A s \in Subs : winnerMonth[s] # 0 =>
        /\ Linked(s) /\ lucky[holds[s]] = "WON"
        /\ status[s] \in {"WON", "COMPLETED", "CLOSED"}
  /\ \A s \in Subs : status[s] = "WON" => winnerMonth[s] # 0
  /\ \A l \in Luckies : lucky[l] = "WON" =>
        \E s \in Subs : holds[s] = l /\ winnerMonth[s] # 0
  /\ \A s \in Subs, m \in Months : emi[s][m] = "WAIVED" => winnerMonth[s] # 0

\* A subscription that has not won is ACTIVE only while an EMI is open, and COMPLETED or
\* CLOSED only when all are settled, though payments, reversals and cancellations rewrite
\* it. Winners are left out: the rulebook (line 102) keeps one WON when all its EMIs are
\* settled, and ResolvedStatus, as the code does, makes it COMPLETED.
StatusMatchesSchedule ==
  \A s \in Subs : winnerMonth[s] = 0 =>
    /\ status[s] = "ACTIVE" => ~(EmiSet(emi[s]) \subseteq SettledEmi)
    /\ status[s] \in {"COMPLETED", "CLOSED"} => EmiSet(emi[s]) \subseteq SettledEmi

\* From the lock on, the batch status says what exists: LOCKED a snapshot, DRAW_COMMITTED
\* an unrevealed coordinated draw, DRAW_COMPLETED one revealed from the snapshot. Draws
\* fill the months in order.
CoordinationIntegrity ==
  /\ batch \in Coordinated => snapshot # {}
  /\ batch = "DRAW_COMMITTED" => draw[1].state = "COMMITTED" /\ draw[1].coordinated
  /\ batch = "DRAW_COMPLETED" =>
       draw[1].state = "REVEALED" /\ draw[1].coordinated /\ draw[1].winner \in snapshot
  /\ Draws = 1..Cardinality(Draws)

\* While a batch has no snapshot its monthly draws have different winners.
LegacyWinnersDiffer ==
  snapshot = {} =>
    \A c, d \in Months : c # d /\ draw[c].state = "REVEALED" /\ draw[d].state = "REVEALED"
                           => draw[c].winner # draw[d].winner

\* A waived EMI stays waived: no payment, reversal, cancellation or command undoes it.
WaivedForever ==
  [][\A s \in Subs, m \in Months : emi[s][m] = "WAIVED" => emi'[s][m] = "WAIVED"]_vars

\* Only a pending EMI of a month after the winning one is ever waived.
FutureOnlyWaiver ==
  [][\A s \in Subs, m \in Months :
       emi[s][m] # "WAIVED" /\ emi'[s][m] = "WAIVED"
         => emi[s][m] = "PENDING" /\ winnerMonth'[s] # 0 /\ winnerMonth'[s] < m]_vars

\* A revealed draw is never revealed again or altered, a committed one never replaced, and
\* the snapshot, once frozen, is the one every later draw uses.
DrawsAreFinal ==
  [][/\ \A d \in Months :
          /\ draw[d].state = "REVEALED" => draw'[d] = draw[d]
          /\ draw[d].state = "COMMITTED" =>
               draw'[d].state # "NONE" /\ draw'[d].coordinated = draw[d].coordinated
     /\ snapshot # {} => snapshot' = snapshot]_vars
=============================================================================
