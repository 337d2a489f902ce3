----------------------------- MODULE PlanRules -----------------------------
(***************************************************************************)
(* The rules of the Lucky Plan that several services share: which batch    *)
(* status may follow which, what status a subscription and an instalment   *)
(* (EMI) must have, and what saving a subscription writes on its Lucky ID. *)
(* They are functions of values the caller has read, with no state.        *)
(***************************************************************************)
EXTENDS Integers

BatchStatuses ==
  {"DRAFT", "OPEN", "FULL", "READY_TO_LOCK", "LOCKED", "DRAW_IN_PROGRESS",
   "DRAW_COMMITTED", "DRAW_COMPLETED", "COMPLETED", "CLOSED", "CANCELLED"}

\* BATCH_STATUS_TRANSITIONS: the statuses that may follow a batch status.
BatchTransitions ==
  [DRAFT |-> {"OPEN"},
   OPEN |-> {"FULL", "DRAW_IN_PROGRESS"},
   FULL |-> {"DRAW_IN_PROGRESS", "READY_TO_LOCK", "LOCKED"},
   READY_TO_LOCK |-> {"LOCKED"},
   LOCKED |-> {"DRAW_COMMITTED"},
   DRAW_COMMITTED |-> {"DRAW_COMPLETED"},
   DRAW_COMPLETED |-> {"COMPLETED"},
   DRAW_IN_PROGRESS |-> {"COMPLETED"},
   COMPLETED |-> {"CLOSED"},
   CLOSED |-> {},
   CANCELLED |-> {}]

\* PRE_LOCK_BATCH_STATUSES: a Lucky ID may still change hands.
PreLock == {"DRAFT", "OPEN"}

\* Statuses only the coordination endpoints (lock, commit-draw, execute-draw) set.
Coordinated == {"LOCKED", "DRAW_COMMITTED", "DRAW_COMPLETED"}

LuckyStatuses == {"AVAILABLE", "ASSIGNED", "WON"}

\* The statuses the code gives an EMI row; OVERDUE is declared and never assigned.
EmiStatuses == {"PENDING", "PAID", "WAIVED", "CANCELLED"}

SettledEmi == {"PAID", "WAIVED"}

\* Statuses of a subscription of the EMI plan; NONE before enrolment.
\* DEFAULTED is declared and never assigned, so its branches are left out.
SubscriptionStatuses == {"NONE", "ACTIVE", "WON", "COMPLETED", "CANCELLED", "CLOSED"}

\* Mutant of ResolvedStatus: one settled EMI is enough.
ResolvedByAnySettled(emis, winner) ==
  CASE emis \intersect SettledEmi # {} -> "COMPLETED"
    [] emis \intersect SettledEmi = {} /\ winner -> "WON"
    [] OTHER -> "ACTIVE"

\* resolve_expected_subscription_status: the status the set of EMI statuses asks for.
ResolvedStatus(emis, winner) ==
  CASE emis \subseteq SettledEmi -> "COMPLETED"
    [] ~(emis \subseteq SettledEmi) /\ winner -> "WON"
    [] OTHER -> "ACTIVE"

\* _get_emi_net_paid never reports a negative amount.
NetPaid(ledger) == IF ledger < 0 THEN 0 ELSE ledger

\* Mutant of RefreshedEmi: the dormant PARTIAL branch of the code is taken.
RefreshedPartial(emi, ledger, due) ==
  CASE emi = "WAIVED" -> "WAIVED"
    [] emi # "WAIVED" /\ NetPaid(ledger) >= due -> "PAID"
    [] emi # "WAIVED" /\ NetPaid(ledger) \in 1..due - 1 -> "PARTIAL"
    [] OTHER -> "PENDING"

\* Mutant of RefreshedEmi: the early return for WAIVED is missing.
RefreshedForgetsWaiver(emi, ledger, due) == IF NetPaid(ledger) >= due THEN "PAID" ELSE "PENDING"

\* _refresh_emi_status: the status of an EMI after its ledger changed. WAIVED is permanent.
RefreshedEmi(emi, ledger, due) ==
  CASE emi = "WAIVED" -> "WAIVED"
    [] emi # "WAIVED" /\ NetPaid(ledger) >= due -> "PAID"
    [] OTHER -> "PENDING"

\* Mutant of SavedLucky: winner_month is not looked at.
SavedLuckyByStatus(status, winnerMonth) == IF status = "WON" THEN "WON" ELSE "ASSIGNED"

\* Subscription.save: what every save of a linked subscription writes on its Lucky ID.
SavedLucky(status, winnerMonth) ==
  IF status = "WON" \/ winnerMonth # 0 THEN "WON" ELSE "ASSIGNED"
=============================================================================
