-------------------------- MODULE LuckyPlanProofs --------------------------
(***************************************************************************)
(* Proofs that the records of a batch agree with each other, for any       *)
(* number of subscriptions, Lucky IDs, payments and months.                *)
(***************************************************************************)
EXTENDS LuckyPlan, SumTheorems, TLAPS

\* A recorded payment names a subscription that was enrolled.
PaymentsNamed ==
  \A p \in Payments : payment[p].state # "NONE" => payment[p].sub \in Enrolled

\* A subscription is untouched before its enrolment, and loses its Lucky ID only when cancelled.
EnrolmentShape ==
  \A s \in Subs :
    /\ status[s] = "NONE" => ~Linked(s) /\ \A m \in Months : emi[s][m] = "PENDING"
    /\ status[s] \notin {"NONE", "CANCELLED"} => Linked(s)

\* What the code makes of every status, a winner's included: ACTIVE or WON while an EMI is
\* open, COMPLETED or CLOSED only when all are settled.
ScheduleDecidesStatus ==
  \A s \in Subs :
    /\ status[s] \in {"ACTIVE", "WON"} => ~(EmiSet(emi[s]) \subseteq SettledEmi)
    /\ status[s] \in {"COMPLETED", "CLOSED"} => EmiSet(emi[s]) \subseteq SettledEmi

\* Everything an action needs to know about the state it starts in.
PlanInv ==
  /\ TypeOK
  /\ PaymentsNamed
  /\ EnrolmentShape
  /\ LuckyIdAvailability
  /\ ScheduleDecidesStatus
  /\ WinnerRecordsAgree

-----------------------------------------------------------------------------
(* The rules *)

\* A schedule is settled when each of its EMIs is.
LEMMA SettledSchedule ==
  ASSUME NEW row
  PROVE  EmiSet(row) \subseteq SettledEmi <=> \A m \in Months : row[m] \in SettledEmi
BY DEF EmiSet

\* The ledger can turn an EMI PAID or PENDING, and leaves a waiver alone.
LEMMA RefreshedCases ==
  ASSUME NEW e, NEW net, NEW due
  PROVE  /\ e = "WAIVED" => RefreshedEmi(e, net, due) = "WAIVED"
         /\ e # "WAIVED" => RefreshedEmi(e, net, due) \in {"PAID", "PENDING"}
BY DEF RefreshedEmi

\* The resolved status is COMPLETED for a settled schedule, else WON for a winner, else ACTIVE.
LEMMA ResolvedCases ==
  ASSUME NEW emis, NEW winner \in BOOLEAN
  PROVE  /\ emis \subseteq SettledEmi => ResolvedStatus(emis, winner) = "COMPLETED"
         /\ ~(emis \subseteq SettledEmi) /\ winner => ResolvedStatus(emis, winner) = "WON"
         /\ ~(emis \subseteq SettledEmi) /\ ~winner => ResolvedStatus(emis, winner) = "ACTIVE"
<1> DEFINE settled == emis \subseteq SettledEmi
<1>1. ResolvedStatus(emis, winner) = CASE settled -> "COMPLETED"
                                       [] ~settled /\ winner -> "WON"
                                       [] OTHER -> "ACTIVE"
  BY DEF ResolvedStatus
<1> HIDE DEF settled
<1>2. /\ settled => ResolvedStatus(emis, winner) = "COMPLETED"
      /\ ~settled /\ winner => ResolvedStatus(emis, winner) = "WON"
      /\ ~settled /\ ~winner => ResolvedStatus(emis, winner) = "ACTIVE"
  BY <1>1
<1> QED
  BY <1>2 DEF settled

\* A subscription counts as a winner exactly when its winner_month is set.
LEMMA WinnerIsRecorded ==
  ASSUME PlanInv, NEW s \in Subs
  PROVE  Winner(s) <=> winnerMonth[s] # 0
BY DEF PlanInv, TypeOK, Winner, Linked, LuckyIdAvailability, WinnerRecordsAgree

\* Saving a status keeps the Lucky ID of the subscription in use.
LEMMA SavedStatuses ==
  ASSUME NEW new, NEW month \in Int
  PROVE  /\ SavedLucky(new, month) \in {"WON", "ASSIGNED"}
         /\ SavedLucky(new, month) = "WON" <=> new = "WON" \/ month # 0
BY DEF SavedLucky

-----------------------------------------------------------------------------
(* Steps *)

\* A new batch satisfies the invariant.
LEMMA InitInv == Init => PlanInv
<1> SUFFICES ASSUME Init PROVE PlanInv
  OBVIOUS
<1> USE DEF Init
<1>1. TypeOK
  BY TenureAssumption, AmountAssumption
  DEF TypeOK, BatchStatuses, LuckyStatuses, SubscriptionStatuses, EmiStatuses, PaymentRows,
      DrawRows, NoPayment, NoDraw, Months, Amounts
<1>2. PaymentsNamed /\ EnrolmentShape
  BY DEF PaymentsNamed, EnrolmentShape, NoPayment, Linked
<1>3. LuckyIdAvailability
  BY NullAssumption DEF LuckyIdAvailability, Linked
<1>4. ScheduleDecidesStatus
  BY DEF ScheduleDecidesStatus
<1>5. WinnerRecordsAgree
  BY DEF WinnerRecordsAgree, NoDraw
<1> QED
  BY <1>1, <1>2, <1>3, <1>4, <1>5 DEF PlanInv

\* Either enrolment route: a free Lucky ID goes to a subscription that did not exist.
LEMMA EnrolStep ==
  ASSUME PlanInv, NEW s \in Subs, NEW l \in Luckies, NewSubscription(s, l), batch' \in BatchStatuses
  PROVE  PlanInv'
<1> USE DEF PlanInv, NewSubscription, emiVars
<1>1. TypeOK'
  BY DEF TypeOK, LuckyStatuses, SubscriptionStatuses
<1>2. PaymentsNamed'
  BY DEF PaymentsNamed, Enrolled, TypeOK
<1>3. EnrolmentShape'
  BY NullAssumption DEF EnrolmentShape, Linked, TypeOK
<1>4. LuckyIdAvailability'
  BY NullAssumption DEF LuckyIdAvailability, EnrolmentShape, Linked, TypeOK
<1>5. ScheduleDecidesStatus'
  <2>1. 1 \in Months /\ emi[s][1] \notin SettledEmi
    BY TenureAssumption DEF EnrolmentShape, SettledEmi, Months
  <2>2. ~(EmiSet(emi[s]) \subseteq SettledEmi)
    BY <2>1, SettledSchedule
  <2> QED
    BY <2>2 DEF ScheduleDecidesStatus, EmiSet, TypeOK
<1>6. WinnerRecordsAgree'
  <2>1. winnerMonth[s] = 0
    BY DEF WinnerRecordsAgree, EnrolmentShape
  <2>2. \A t \in Subs : t # s => holds'[t] = holds[t] /\ holds[t] # l /\ status'[t] = status[t]
    BY DEF LuckyIdAvailability, TypeOK
  <2>3. /\ status'[s] = "ACTIVE" /\ lucky'[l] = "ASSIGNED"
        /\ \A k \in Luckies : k # l => lucky'[k] = lucky[k]
    BY DEF TypeOK
  <2>4. \A t \in Subs : winnerMonth[t] # 0 => t # s /\ holds[t] \in Luckies
    BY <2>1 DEF WinnerRecordsAgree, Linked, TypeOK
  <2>5. winnerMonth' = winnerMonth /\ draw' = draw /\ emi' = emi
    OBVIOUS
  <2> HIDE DEF NewSubscription
  <2> QED
    BY <2>1, <2>2, <2>3, <2>4, <2>5 DEF WinnerRecordsAgree, Linked
<1> QED
  BY <1>1, <1>2, <1>3, <1>4, <1>5, <1>6

\* An edit of the rows of s that follows its schedule: a payment, a reversal, a reconciliation.
LEMMA FollowStep ==
  ASSUME PlanInv,
         NEW s \in Subs, status[s] # "NONE",
         NEW row \in [Months -> EmiStatuses],
         \A m \in Months : row[m] = "WAIVED" <=> emi[s][m] = "WAIVED",
         emi' = [emi EXCEPT ![s] = row],
         NEW new, SaveStatus(s, new),
         new = IF Linked(s) THEN ResolvedStatus(EmiSet(row), Winner(s)) ELSE status[s],
         payment' \in [Payments -> PaymentRows],
         \A p \in Payments : payment'[p].state # "NONE" => payment'[p].sub \in Enrolled,
         ledger' \in [Subs -> [Months -> Int]],
         UNCHANGED <<batchVars, holds, winnerMonth, waiver>>
  PROVE  PlanInv'
<1> DEFINE settled == \A m \in Months : row[m] \in SettledEmi
<1> USE DEF PlanInv, batchVars
<1>1. Winner(s) <=> winnerMonth[s] # 0
  BY WinnerIsRecorded
<1>2. /\ ~Linked(s) => new = "CANCELLED"
      /\ Linked(s) /\ settled => new = "COMPLETED"
      /\ Linked(s) /\ ~settled /\ winnerMonth[s] # 0 => new = "WON"
      /\ Linked(s) /\ ~settled /\ winnerMonth[s] = 0 => new = "ACTIVE"
  <2>1. ~Linked(s) => new = "CANCELLED"
    BY DEF EnrolmentShape, TypeOK
  <2>2. Winner(s) \in BOOLEAN
    BY DEF Winner, Linked
  <2>3. EmiSet(row) \subseteq SettledEmi <=> settled
    BY SettledSchedule
  <2> QED
    BY <1>1, <2>1, <2>2, <2>3, ResolvedCases
<1>3. new \in SubscriptionStatuses /\ new # "NONE"
  BY <1>2 DEF SubscriptionStatuses
<1>4. /\ status' = [status EXCEPT ![s] = new]
      /\ lucky' = lucky \/ (Linked(s) /\ lucky' = [lucky EXCEPT ![holds[s]] = SavedLucky(new, winnerMonth[s])])
      /\ new # status[s] => Linked(s) /\ lucky' = [lucky EXCEPT ![holds[s]] = SavedLucky(new, winnerMonth[s])]
  BY DEF SaveStatus
<1>5. winnerMonth[s] \in Int
  BY DEF TypeOK
<1>6. /\ SavedLucky(new, winnerMonth[s]) \in {"WON", "ASSIGNED"}
      /\ SavedLucky(new, winnerMonth[s]) = "WON" <=> new = "WON" \/ winnerMonth[s] # 0
  BY <1>5, SavedStatuses
<1>7. TypeOK'
  BY <1>3, <1>4, <1>6 DEF TypeOK, LuckyStatuses, Linked
<1>8. PaymentsNamed'
  BY <1>3, <1>4 DEF PaymentsNamed, Enrolled, TypeOK
<1>9. EnrolmentShape'
  BY <1>2, <1>3, <1>4 DEF EnrolmentShape, Linked, TypeOK
<1>10. LuckyIdAvailability'
  BY <1>4, <1>6 DEF LuckyIdAvailability, Linked, TypeOK
<1>11. ScheduleDecidesStatus'
  <2>1. SUFFICES ASSUME NEW t \in Subs
                 PROVE  /\ status'[t] \in {"ACTIVE", "WON"} => ~(\A m \in Months : emi'[t][m] \in SettledEmi)
                        /\ status'[t] \in {"COMPLETED", "CLOSED"} => \A m \in Months : emi'[t][m] \in SettledEmi
    BY SettledSchedule DEF ScheduleDecidesStatus, EmiSet
  <2>2. CASE t = s
    BY <1>2, <1>4, <2>2 DEF TypeOK
  <2>3. CASE t # s
    BY <1>4, <2>3, SettledSchedule DEF TypeOK, ScheduleDecidesStatus
  <2> QED
    BY <2>2, <2>3
<1>12. WinnerRecordsAgree'
  <2>1. \A t \in Subs : winnerMonth[t] # 0 => Linked(t) /\ lucky'[holds[t]] = "WON"
    BY <1>4, <1>6 DEF WinnerRecordsAgree, LuckyIdAvailability, Linked, TypeOK
  <2>2. \A t \in Subs : winnerMonth[t] # 0 => status'[t] \in {"WON", "COMPLETED", "CLOSED"}
    BY <1>2, <1>4 DEF WinnerRecordsAgree, TypeOK
  <2>3. \A t \in Subs : status'[t] = "WON" => winnerMonth[t] # 0
    BY <1>2, <1>4 DEF WinnerRecordsAgree, TypeOK
  <2>4. \A l \in Luckies : lucky'[l] = "WON" => \E t \in Subs : holds[t] = l /\ winnerMonth[t] # 0
    BY <1>2, <1>4, <1>6 DEF WinnerRecordsAgree, TypeOK, Linked
  <2>5. \A t \in Subs, m \in Months : emi'[t][m] = "WAIVED" => winnerMonth[t] # 0
    BY DEF WinnerRecordsAgree, TypeOK
  <2>6. \A d \in Months : draw[d].state = "REVEALED" =>
          /\ draw[d].winner \in Subs /\ winnerMonth[draw[d].winner] # 0
          /\ holds[draw[d].winner] = draw[d].lucky
    BY DEF WinnerRecordsAgree
  <2> QED
    BY <2>1, <2>2, <2>3, <2>4, <2>5, <2>6 DEF WinnerRecordsAgree, Linked
<1> QED
  BY <1>7, <1>8, <1>9, <1>10, <1>11, <1>12

\* A win: the draw, or the admin, names a subscription that holds a Lucky ID.
LEMMA WinStep ==
  ASSUME PlanInv,
         NEW s \in Subs, NEW month \in Months, ApplyWinner(s, month),
         batch' \in BatchStatuses, draw' \in [Months -> DrawRows],
         \A d \in Months : draw'[d].state = "REVEALED" =>
            draw'[d] = draw[d] \/ (draw'[d].winner = s /\ draw'[d].lucky = holds[s]),
         UNCHANGED <<holds, payment, ledger, snapshot>>
  PROVE  PlanInv'
<1> DEFINE future == FuturePending(s, month)
           row == [m \in Months |-> IF m \in future THEN "WAIVED" ELSE emi[s][m]]
           settled == \A m \in Months : row[m] \in SettledEmi
           new == ResolvedStatus(EmiSet(row), TRUE)
<1> USE DEF PlanInv
<1>1. /\ Linked(s)
      /\ emi' = [emi EXCEPT ![s] = row]
      /\ waiver' = [waiver EXCEPT ![s] =
                      [m \in Months |-> waiver[s][m] + (IF m \in future THEN EmiAmount ELSE 0)]]
      /\ status' = [status EXCEPT ![s] = new]
      /\ winnerMonth' = [winnerMonth EXCEPT ![s] = month]
      /\ lucky' = [lucky EXCEPT ![holds[s]] = "WON"]
  BY DEF ApplyWinner
<1>2. new = IF settled THEN "COMPLETED" ELSE "WON"
  BY SettledSchedule, ResolvedCases
<1>3. row \in [Months -> EmiStatuses]
  BY DEF TypeOK, EmiStatuses
<1>4. month \in 0..Tenure /\ month # 0 /\ holds[s] \in Luckies
  BY <1>1, TenureAssumption DEF Months, Linked, TypeOK
<1>5. status[s] # "NONE"
  BY <1>1 DEF EnrolmentShape
<1> HIDE DEF row, new
<1>6. TypeOK'
  <2>1. waiver' \in [Subs -> [Months -> Nat]]
    BY <1>1, AmountAssumption DEF TypeOK
  <2> QED
    BY <1>1, <1>2, <1>3, <1>4, <2>1 DEF TypeOK, SubscriptionStatuses, LuckyStatuses
<1>7. PaymentsNamed'
  BY <1>1, <1>2 DEF PaymentsNamed, Enrolled, TypeOK
<1>8. EnrolmentShape'
  BY <1>1, <1>2 DEF EnrolmentShape, Linked, TypeOK
<1>9. LuckyIdAvailability'
  BY <1>1, <1>4 DEF LuckyIdAvailability, Linked, TypeOK
<1>10. ScheduleDecidesStatus'
  <2>1. SUFFICES ASSUME NEW t \in Subs
                 PROVE  /\ status'[t] \in {"ACTIVE", "WON"} => ~(\A m \in Months : emi'[t][m] \in SettledEmi)
                        /\ status'[t] \in {"COMPLETED", "CLOSED"} => \A m \in Months : emi'[t][m] \in SettledEmi
    BY SettledSchedule DEF ScheduleDecidesStatus, EmiSet
  <2>2. CASE t = s
    BY <1>1, <1>2, <2>2 DEF TypeOK
  <2>3. CASE t # s
    BY <1>1, <2>3, SettledSchedule DEF TypeOK, ScheduleDecidesStatus
  <2> QED
    BY <2>2, <2>3
<1>11. WinnerRecordsAgree'
  <2>1. /\ winnerMonth'[s] = month /\ lucky'[holds[s]] = "WON" /\ status'[s] \in {"WON", "COMPLETED"}
        /\ \A t \in Subs : t # s => /\ winnerMonth'[t] = winnerMonth[t] /\ status'[t] = status[t]
                                     /\ emi'[t] = emi[t]
        /\ \A l \in Luckies : l # holds[s] => lucky'[l] = lucky[l]
    BY <1>1, <1>2, <1>4 DEF TypeOK
  <2>2. \A d \in Months : draw'[d].state = "REVEALED" =>
          /\ draw'[d].winner \in Subs /\ winnerMonth'[draw'[d].winner] # 0
          /\ holds[draw'[d].winner] = draw'[d].lucky
    BY <1>4, <2>1 DEF WinnerRecordsAgree
  <2>3. \A t \in Subs : winnerMonth'[t] # 0 =>
          /\ Linked(t) /\ lucky'[holds[t]] = "WON"
          /\ status'[t] \in {"WON", "COMPLETED", "CLOSED"}
    BY <1>1, <2>1 DEF WinnerRecordsAgree, Linked, TypeOK
  <2>4. \A t \in Subs : status'[t] = "WON" => winnerMonth'[t] # 0
    BY <1>4, <2>1 DEF WinnerRecordsAgree
  <2>5. \A l \in Luckies : lucky'[l] = "WON" => \E t \in Subs : holds[t] = l /\ winnerMonth'[t] # 0
    BY <1>4, <2>1 DEF WinnerRecordsAgree
  <2>6. \A t \in Subs, m \in Months : emi'[t][m] = "WAIVED" => winnerMonth'[t] # 0
    BY <1>4, <2>1 DEF WinnerRecordsAgree
  <2> QED
    BY <2>2, <2>3, <2>4, <2>5, <2>6 DEF WinnerRecordsAgree, Linked
<1> QED
  BY <1>6, <1>7, <1>8, <1>9, <1>10, <1>11

\* Steps of the batch and of its draws that reveal nothing.
LEMMA BatchStep ==
  ASSUME PlanInv,
         batch' \in BatchStatuses, snapshot' \subseteq Subs, draw' \in [Months -> DrawRows],
         \A d \in Months : draw'[d].state = "REVEALED" => draw'[d] = draw[d],
         UNCHANGED <<lucky, status, holds, winnerMonth, emiVars, payment>>
  PROVE  PlanInv'
<1> USE DEF PlanInv, emiVars
<1>1. TypeOK'
  BY DEF TypeOK
<1>2. PaymentsNamed' /\ EnrolmentShape' /\ LuckyIdAvailability' /\ ScheduleDecidesStatus'
  BY DEF PaymentsNamed, Enrolled, EnrolmentShape, LuckyIdAvailability, ScheduleDecidesStatus, Linked, EmiSet
<1>3. WinnerRecordsAgree'
  BY DEF WinnerRecordsAgree, Linked
<1> QED
  BY <1>1, <1>2, <1>3

\* A subscription whose terms can still change, or that has no Lucky ID, has not won.
LEMMA EditableNotWon ==
  ASSUME PlanInv, NEW s \in Subs, Linked(s) => TermsEditable(s)
  PROVE  winnerMonth[s] = 0 /\ status[s] # "WON"
<1> USE DEF PlanInv
<1>1. CASE ~Linked(s)
  BY <1>1 DEF WinnerRecordsAgree
<1>2. CASE TermsEditable(s)
  <2>1. 1 \in Months
    BY TenureAssumption DEF Months
  <2>2. ~(EmiSet(emi[s]) \subseteq SettledEmi)
    BY <1>2, <2>1 DEF TermsEditable, EmiSet
  <2>3. status[s] \notin {"WON", "COMPLETED", "CLOSED"}
    BY <1>2, <2>2 DEF TermsEditable, ScheduleDecidesStatus
  <2> QED
    BY <2>3 DEF WinnerRecordsAgree
<1> QED
  BY <1>1, <1>2

\* Moving a subscription to another Lucky ID frees the one it had and takes a free one.
LEMMA AdminAssignStep ==
  ASSUME PlanInv, NEW s \in Subs, NEW l \in Luckies, AdminAssignLucky(s, l)
  PROVE  PlanInv'
<1> USE DEF PlanInv
<1>1. /\ status[s] # "NONE" /\ lucky[l] = "AVAILABLE"
      /\ holds' = [holds EXCEPT ![s] = l]
      /\ lucky' = [k \in Luckies |-> IF k = l THEN SavedLucky(status[s], winnerMonth[s])
                                    ELSE IF k = holds[s] THEN "AVAILABLE" ELSE lucky[k]]
      /\ UNCHANGED <<batch, status, winnerMonth, emi, ledger, waiver, payment, snapshot, draw>>
  BY DEF AdminAssignLucky, emiVars
<1>2. winnerMonth[s] = 0 /\ status[s] # "WON"
  BY EditableNotWon DEF AdminAssignLucky
<1>3. SavedLucky(status[s], winnerMonth[s]) = "ASSIGNED"
  BY <1>2, SavedStatuses DEF TypeOK
<1>4. l # holds[s] /\ \A t \in Subs : holds[t] # l
  BY <1>1 DEF LuckyIdAvailability
<1>5. /\ holds'[s] = l /\ \A t \in Subs : t # s => holds'[t] = holds[t]
      /\ lucky'[l] = "ASSIGNED"
      /\ \A k \in Luckies : k = holds[s] => lucky'[k] = "AVAILABLE"
      /\ \A k \in Luckies : k # l /\ k # holds[s] => lucky'[k] = lucky[k]
  BY <1>1, <1>3, <1>4 DEF TypeOK
<1>6. TypeOK'
  BY <1>1, <1>3 DEF TypeOK, LuckyStatuses
<1>7. PaymentsNamed' /\ ScheduleDecidesStatus'
  BY <1>1 DEF PaymentsNamed, Enrolled, ScheduleDecidesStatus, EmiSet
<1>8. EnrolmentShape'
  BY <1>1, <1>5, NullAssumption DEF EnrolmentShape, Linked
<1>9. LuckyIdAvailability'
  <2>1. /\ l # NoLucky
        /\ \A t \in Subs : t # s => holds[t] # l
        /\ Linked(s) => \A t \in Subs : t # s => holds[t] # holds[s]
    BY <1>4, NullAssumption DEF LuckyIdAvailability
  <2>2. ASSUME NEW k \in Luckies
        PROVE  lucky'[k] = "AVAILABLE" <=> \A t \in Subs : holds'[t] # k
    <3>1. CASE k = l
      BY <1>5, <3>1
    <3>2. CASE k = holds[s]
      BY <1>4, <1>5, <2>1, <3>2, NullAssumption DEF Linked
    <3>3. CASE k # l /\ k # holds[s]
      BY <1>5, <3>3 DEF LuckyIdAvailability
    <3> QED
      BY <3>1, <3>2, <3>3
  <2>3. \A t, u \in Subs : t # u /\ Linked(t)' => holds'[t] # holds'[u]
    BY <1>5, <2>1 DEF LuckyIdAvailability, Linked
  <2> QED
    BY <2>2, <2>3 DEF LuckyIdAvailability
<1>10. WinnerRecordsAgree'
  <2>1. \A t \in Subs : winnerMonth[t] # 0 => t # s /\ holds[t] \in Luckies /\ holds[t] # l /\ holds[t] # holds[s]
    BY <1>2, <1>4 DEF WinnerRecordsAgree, LuckyIdAvailability, Linked, TypeOK
  <2> QED
    BY <1>1, <1>5, <2>1 DEF WinnerRecordsAgree, Linked, TypeOK
<1> QED
  BY <1>6, <1>7, <1>8, <1>9, <1>10

\* Rebuilding a schedule nobody has paid or won anything on leaves it open.
LEMMA AdminRebuildStep ==
  ASSUME PlanInv, NEW s \in Subs, AdminRebuildSchedule(s)
  PROVE  PlanInv'
<1> USE DEF PlanInv
<1> DEFINE row == [m \in Months |-> "PENDING"]
<1>1. /\ Linked(s) /\ TermsEditable(s)
      /\ emi' = [emi EXCEPT ![s] = row]
      /\ UNCHANGED <<batch, snapshot, draw, lucky, status, holds, winnerMonth, payment, ledger, waiver>>
  BY DEF AdminRebuildSchedule, batchVars
<1>2. status[s] \notin {"NONE", "WON", "COMPLETED", "CLOSED"}
  <2>1. 1 \in Months
    BY TenureAssumption DEF Months
  <2>2. ~(EmiSet(emi[s]) \subseteq SettledEmi)
    BY <1>1, <2>1 DEF TermsEditable, EmiSet
  <2> QED
    BY <1>1, <2>2 DEF TermsEditable, ScheduleDecidesStatus
<1>3. ~(EmiSet(row) \subseteq SettledEmi)
  BY TenureAssumption DEF EmiSet, SettledEmi, Months
<1>4. emi'[s] = row /\ \A t \in Subs : t # s => emi'[t] = emi[t]
  BY <1>1 DEF TypeOK
<1>5. TypeOK'
  BY <1>1 DEF TypeOK, EmiStatuses
<1>6. PaymentsNamed' /\ EnrolmentShape' /\ LuckyIdAvailability'
  BY <1>1, <1>4 DEF PaymentsNamed, Enrolled, EnrolmentShape, LuckyIdAvailability, Linked
<1>7. ScheduleDecidesStatus'
  BY <1>1, <1>2, <1>3, <1>4 DEF ScheduleDecidesStatus, EmiSet
<1>8. WinnerRecordsAgree'
  BY <1>1, <1>4 DEF WinnerRecordsAgree, Linked
<1> QED
  BY <1>5, <1>6, <1>7, <1>8

\* Cancellation, with the Lucky ID released before the lock and kept after it.
LEMMA CancelStep ==
  ASSUME PlanInv, NEW s \in Subs, NEW force \in BOOLEAN, CancelSubscription(s, force)
  PROVE  PlanInv'
<1> USE DEF PlanInv
<1> DEFINE row == [m \in Months |-> IF emi[s][m] = "PENDING" THEN "CANCELLED" ELSE emi[s][m]]
<1>1. /\ status[s] = "ACTIVE"
      /\ emi' = [emi EXCEPT ![s] = row]
      /\ status' = [status EXCEPT ![s] = "CANCELLED"]
      /\ UNCHANGED <<batch, snapshot, draw, winnerMonth, payment, ledger, waiver>>
      /\ \/ /\ holds' = [holds EXCEPT ![s] = NoLucky]
            /\ lucky' = [lucky EXCEPT ![holds[s]] = "AVAILABLE"]
         \/ UNCHANGED <<holds, lucky>>
  BY DEF CancelSubscription, batchVars
<1>2. winnerMonth[s] = 0 /\ holds[s] \in Luckies /\ NoLucky \notin Luckies
  <2>1. status[s] # "NONE" /\ status[s] \notin {"NONE", "CANCELLED"} /\ status[s] \notin {"WON", "COMPLETED", "CLOSED"}
    BY <1>1
  <2>2. Linked(s)
    BY <2>1 DEF EnrolmentShape
  <2>3. winnerMonth[s] = 0
    BY <2>1 DEF WinnerRecordsAgree
  <2> QED
    BY <2>2, <2>3, NullAssumption DEF Linked, TypeOK
<1>3. /\ status'[s] = "CANCELLED"
      /\ \A m \in Months : emi'[s][m] = "WAIVED" => emi[s][m] = "WAIVED"
      /\ \A t \in Subs : t # s => status'[t] = status[t] /\ emi'[t] = emi[t] /\ holds'[t] = holds[t]
      /\ \A k \in Luckies : k # holds[s] => lucky'[k] = lucky[k]
      /\ \/ holds'[s] = holds[s] /\ lucky'[holds[s]] = lucky[holds[s]]
         \/ holds'[s] = NoLucky /\ lucky'[holds[s]] = "AVAILABLE"
  BY <1>1, <1>2 DEF TypeOK
<1>4. TypeOK'
  <2>1. row \in [Months -> EmiStatuses]
    BY DEF TypeOK, EmiStatuses
  <2> QED
    BY <1>1, <2>1 DEF TypeOK, LuckyStatuses, SubscriptionStatuses
<1>5. PaymentsNamed'
  BY <1>1, <1>3 DEF PaymentsNamed, Enrolled
<1>6. EnrolmentShape'
  BY <1>3 DEF EnrolmentShape, Linked
<1>7. LuckyIdAvailability'
  BY <1>2, <1>3 DEF LuckyIdAvailability, Linked
<1>8. ScheduleDecidesStatus'
  BY <1>3 DEF ScheduleDecidesStatus, EmiSet
<1>9. WinnerRecordsAgree'
  <2>1. \A t \in Subs : winnerMonth[t] # 0 => t # s /\ holds[t] \in Luckies /\ holds[t] # holds[s]
    BY <1>2 DEF WinnerRecordsAgree, LuckyIdAvailability, Linked, TypeOK
  <2> QED
    BY <1>1, <1>2, <1>3, <2>1 DEF WinnerRecordsAgree, Linked
<1> QED
  BY <1>4, <1>5, <1>6, <1>7, <1>8, <1>9

\* Closing a completed contract saves its Lucky ID as the win left it.
LEMMA CloseStep ==
  ASSUME PlanInv, NEW s \in Subs, CloseContract(s)
  PROVE  PlanInv'
<1> USE DEF PlanInv
<1> DEFINE saved == SavedLucky("CLOSED", winnerMonth[s])
<1>1. /\ status[s] = "COMPLETED" /\ Linked(s)
      /\ status' = [status EXCEPT ![s] = "CLOSED"]
      /\ lucky' = [lucky EXCEPT ![holds[s]] = saved]
      /\ UNCHANGED <<batch, snapshot, draw, holds, winnerMonth, emi, ledger, waiver, payment>>
  BY DEF CloseContract, SaveStatus, batchVars, emiVars
<1>2. saved \in {"WON", "ASSIGNED"} /\ (saved = "WON" <=> winnerMonth[s] # 0)
  BY SavedStatuses DEF TypeOK
<1> HIDE DEF saved
<1>3. TypeOK'
  BY <1>1, <1>2 DEF TypeOK, LuckyStatuses, SubscriptionStatuses, Linked
<1>4. PaymentsNamed' /\ EnrolmentShape' /\ ScheduleDecidesStatus'
  BY <1>1 DEF PaymentsNamed, Enrolled, EnrolmentShape, ScheduleDecidesStatus, EmiSet, Linked, TypeOK
<1>5. LuckyIdAvailability'
  BY <1>1, <1>2 DEF LuckyIdAvailability, Linked, TypeOK
<1>6. WinnerRecordsAgree'
  BY <1>1, <1>2 DEF WinnerRecordsAgree, LuckyIdAvailability, Linked, TypeOK
<1> QED
  BY <1>3, <1>4, <1>5, <1>6

\* A draw that names a Lucky ID names its holder, so the evidence is always winner_month.
LEMMA EvidenceIsWinnerMonth ==
  ASSUME PlanInv, NEW s \in Subs, s \in Enrolled, Linked(s),
         WonDraws(s) # {} \/ (EvidenceMonth(s) # 0 /\ WinTraces(s))
  PROVE  winnerMonth[s] # 0 /\ EvidenceMonth(s) = winnerMonth[s]
<1> USE DEF PlanInv
<1>1. WonDraws(s) # {} => winnerMonth[s] # 0
  BY DEF WonDraws, WinnerRecordsAgree, LuckyIdAvailability, Linked
<1>2. winnerMonth[s] # 0 => EvidenceMonth(s) = winnerMonth[s]
  BY DEF EvidenceMonth
<1>3. winnerMonth[s] = 0 /\ WonDraws(s) = {} => EvidenceMonth(s) = 0
  BY DEF EvidenceMonth
<1> QED
  BY <1>1, <1>2, <1>3

\* Repairing the records of a winner writes what they already say.
LEMMA SyncStep ==
  ASSUME PlanInv, NEW s \in Subs, SyncWinnerState(s)
  PROVE  PlanInv'
<1> USE DEF PlanInv
<1> DEFINE new == ResolvedStatus(EmiSet(emi[s]), TRUE)
<1>1. winnerMonth[s] # 0 /\ EvidenceMonth(s) = winnerMonth[s]
  BY EvidenceIsWinnerMonth DEF SyncWinnerState
<1>2. /\ Linked(s) /\ status[s] # "NONE"
      /\ status' = [status EXCEPT ![s] = new]
      /\ winnerMonth' = winnerMonth
      /\ lucky' = [lucky EXCEPT ![holds[s]] = "WON"]
      /\ UNCHANGED <<batch, snapshot, draw, holds, emi, ledger, waiver, payment>>
  BY <1>1 DEF SyncWinnerState, Enrolled, batchVars, emiVars, TypeOK
<1>3. new = IF EmiSet(emi[s]) \subseteq SettledEmi THEN "COMPLETED" ELSE "WON"
  BY ResolvedCases
<1> HIDE DEF new
<1>4. lucky' = lucky
  BY <1>1, <1>2 DEF WinnerRecordsAgree, TypeOK
<1>5. TypeOK'
  BY <1>2, <1>3, <1>4 DEF TypeOK, SubscriptionStatuses
<1>6. PaymentsNamed' /\ EnrolmentShape' /\ LuckyIdAvailability'
  BY <1>2, <1>3, <1>4 DEF PaymentsNamed, Enrolled, EnrolmentShape, LuckyIdAvailability, Linked, TypeOK
<1>7. ScheduleDecidesStatus'
  BY <1>2, <1>3 DEF ScheduleDecidesStatus, EmiSet, TypeOK
<1>8. WinnerRecordsAgree'
  BY <1>1, <1>2, <1>3, <1>4 DEF WinnerRecordsAgree, Linked, TypeOK
<1> QED
  BY <1>5, <1>6, <1>7, <1>8

\* A payment or its reversal, which differ in the payment row and in the new ledger value.
LEMMA ReconcileStep ==
  ASSUME PlanInv,
         NEW s \in Enrolled, NEW m \in Months, NEW net \in Int, Reconcile(s, m, net),
         payment' \in [Payments -> PaymentRows],
         \A p \in Payments : payment'[p].state # "NONE" => payment'[p].sub \in Enrolled,
         UNCHANGED <<batchVars, holds, winnerMonth, waiver>>
  PROVE  PlanInv'
<1> DEFINE row == [emi[s] EXCEPT ![m] = RefreshedEmi(emi[s][m], net, EmiAmount)]
           resolved == ResolvedStatus(EmiSet(row), Winner(s))
<1>1. /\ ledger' = [ledger EXCEPT ![s] = [ledger[s] EXCEPT ![m] = net]]
      /\ emi' = [emi EXCEPT ![s] = row]
      /\ SaveStatus(s, resolved)
  BY DEF Reconcile
<1>2. s \in Subs /\ status[s] # "NONE"
  BY DEF Enrolled
<1>3. /\ RefreshedEmi(emi[s][m], net, EmiAmount) \in EmiStatuses
      /\ RefreshedEmi(emi[s][m], net, EmiAmount) = "WAIVED" <=> emi[s][m] = "WAIVED"
  BY RefreshedCases DEF EmiStatuses
<1>4. emi[s] \in [Months -> EmiStatuses]
  BY <1>2 DEF PlanInv, TypeOK
<1>5. row \in [Months -> EmiStatuses] /\ \A k \in Months : row[k] = "WAIVED" <=> emi[s][k] = "WAIVED"
  BY <1>3, <1>4
<1>6. ledger' \in [Subs -> [Months -> Int]]
  BY <1>1, <1>2 DEF PlanInv, TypeOK
<1>7. resolved = IF Linked(s) THEN ResolvedStatus(EmiSet(row), Winner(s)) ELSE status[s]
  BY <1>1 DEF SaveStatus
<1> HIDE DEF row, resolved
<1> QED
  BY <1>1, <1>2, <1>5, <1>6, <1>7, FollowStep

\* Recording a payment.
LEMMA RecordStep ==
  ASSUME PlanInv,
         NEW p \in Payments, NEW s \in Subs, NEW m \in Months, NEW amount \in Amounts,
         RecordPayment(p, s, m, amount)
  PROVE  PlanInv'
<1> DEFINE new == [state |-> "POSTED", sub |-> s, month |-> m, amount |-> amount]
<1>1. /\ s \in Enrolled
      /\ payment' = [payment EXCEPT ![p] = new]
      /\ Reconcile(s, m, ledger[s][m] + amount)
      /\ UNCHANGED <<batchVars, holds, winnerMonth, waiver>>
  BY DEF RecordPayment, Enrolled
<1>2. ledger[s][m] + amount \in Int
  BY AmountAssumption DEF PlanInv, TypeOK, Amounts
<1>3. payment' \in [Payments -> PaymentRows]
  BY <1>1 DEF PlanInv, TypeOK, PaymentRows
<1>4. \A q \in Payments : payment'[q].state # "NONE" => payment'[q].sub \in Enrolled
  BY <1>1 DEF PlanInv, TypeOK, PaymentsNamed
<1> QED
  BY <1>1, <1>2, <1>3, <1>4, ReconcileStep

\* Reversing a payment.
LEMMA ReverseStep ==
  ASSUME PlanInv, NEW p \in Payments, ReversePayment(p)
  PROVE  PlanInv'
<1> DEFINE row == payment[p]
<1>1. /\ row.state = "POSTED"
      /\ payment' = [payment EXCEPT ![p] = [row EXCEPT !.state = "REVERSED"]]
      /\ Reconcile(row.sub, row.month, ledger[row.sub][row.month] - row.amount)
      /\ UNCHANGED <<batchVars, holds, winnerMonth, waiver>>
  BY DEF ReversePayment
<1>2. row \in PaymentRows /\ row.sub \in Enrolled
  BY <1>1 DEF PlanInv, TypeOK, PaymentsNamed
<1>3. row.sub \in Subs /\ row.month \in Months /\ row.amount \in Int
  BY <1>2, AmountAssumption DEF PaymentRows, Enrolled, Amounts
<1>4. ledger[row.sub][row.month] - row.amount \in Int
  BY <1>3 DEF PlanInv, TypeOK
<1>5. payment' \in [Payments -> PaymentRows]
  BY <1>1, <1>2 DEF PlanInv, TypeOK, PaymentRows
<1>6. \A q \in Payments : payment'[q].state # "NONE" => payment'[q].sub \in Enrolled
  BY <1>1, <1>2 DEF PlanInv, TypeOK, PaymentsNamed, PaymentRows
<1> QED
  BY <1>1, <1>2, <1>3, <1>4, <1>5, <1>6, ReconcileStep

\* The reconcile command rewrites the schedule from the payments.
LEMMA ReconcileFinancialsStep ==
  ASSUME PlanInv, NEW s \in Subs, ReconcileFinancials(s)
  PROVE  PlanInv'
<1> DEFINE row == [m \in Months |-> RefreshedEmi(emi[s][m], EffectivePaid(s, m), EmiAmount)]
           new == IF Linked(s) THEN ResolvedStatus(EmiSet(row), Winner(s)) ELSE status[s]
<1>1. /\ status[s] # "NONE"
      /\ emi' = [emi EXCEPT ![s] = row]
      /\ SaveStatus(s, new)
      /\ UNCHANGED <<batchVars, holds, winnerMonth, payment, ledger, waiver>>
  BY DEF ReconcileFinancials, Enrolled
<1>2. ASSUME NEW m \in Months
      PROVE  row[m] \in EmiStatuses /\ (row[m] = "WAIVED" <=> emi[s][m] = "WAIVED")
  <2>1. row[m] = RefreshedEmi(emi[s][m], EffectivePaid(s, m), EmiAmount)
    OBVIOUS
  <2> QED
    BY <2>1, RefreshedCases DEF EmiStatuses
<1>3. row = [m \in Months |-> row[m]]
  OBVIOUS
<1>5. new = IF Linked(s) THEN ResolvedStatus(EmiSet(row), Winner(s)) ELSE status[s]
  OBVIOUS
<1> HIDE DEF row, new
<1>6. row \in [Months -> EmiStatuses]
  BY <1>2, <1>3
<1>4. /\ payment' \in [Payments -> PaymentRows]
      /\ \A p \in Payments : payment'[p].state # "NONE" => payment'[p].sub \in Enrolled
      /\ ledger' \in [Subs -> [Months -> Int]]
  BY <1>1 DEF PlanInv, TypeOK, PaymentsNamed
<1> QED
  BY <1>1, <1>2, <1>4, <1>5, <1>6, FollowStep

\* Revealing a committed draw.
LEMMA RevealStep ==
  ASSUME PlanInv, NEW month \in Months, NEW s \in Subs, RevealDraw(month, s)
  PROVE  PlanInv'
<1> DEFINE new == [draw[month] EXCEPT !.state = "REVEALED", !.winner = s, !.lucky = holds[s]]
<1>1. /\ ApplyWinner(s, month)
      /\ draw' = [draw EXCEPT ![month] = new]
      /\ batch' \in {batch, "DRAW_COMPLETED"}
      /\ UNCHANGED <<holds, payment, ledger, snapshot>>
  BY DEF RevealDraw
<1>2. batch' \in BatchStatuses
  BY <1>1 DEF PlanInv, TypeOK, BatchStatuses
<1>3. holds[s] \in Luckies \union {NoLucky} /\ draw[month] \in DrawRows
  BY DEF PlanInv, TypeOK
<1>4. new \in DrawRows /\ new.winner = s /\ new.lucky = holds[s]
  BY <1>3 DEF DrawRows
<1>5. draw' \in [Months -> DrawRows]
  BY <1>1, <1>4 DEF PlanInv, TypeOK
<1>6. \A d \in Months : draw'[d] = draw[d] \/ (draw'[d].winner = s /\ draw'[d].lucky = holds[s])
  BY <1>1, <1>4 DEF PlanInv, TypeOK
<1> HIDE DEF new
<1> QED
  BY <1>1, <1>2, <1>5, <1>6, WinStep

\* Naming a winner without a draw.
LEMMA ExecuteWinnerStep ==
  ASSUME PlanInv, NEW s \in Subs, NEW month \in Months, ExecuteWinner(s, month)
  PROVE  PlanInv'
<1>1. ApplyWinner(s, month) /\ UNCHANGED <<batch, snapshot, draw, holds, payment, ledger>>
  BY DEF ExecuteWinner, batchVars
<1>2. batch' \in BatchStatuses /\ draw' \in [Months -> DrawRows]
  BY <1>1 DEF PlanInv, TypeOK
<1> QED
  BY <1>1, <1>2, WinStep

\* No step of the batch itself reveals a draw.
LEMMA BatchActionsStep ==
  ASSUME PlanInv,
         \/ \E next \in BatchStatuses : TransitionBatch(next)
         \/ CreateDrawCommit
         \/ \E minimum \in 0..Cardinality(Luckies) : LockBatch(minimum)
         \/ CommitBatchDraw
  PROVE  PlanInv'
<1> USE DEF PlanInv
<1>1. CASE \E next \in BatchStatuses : TransitionBatch(next)
  <2>1. batch' \in BatchStatuses
    BY <1>1 DEF TransitionBatch
  <2>2. UNCHANGED <<lucky, status, holds, winnerMonth, emiVars, payment, snapshot, draw>>
    BY <1>1 DEF TransitionBatch
  <2> QED
    BY <2>1, <2>2, BatchStep DEF TypeOK
<1>2. CASE CreateDrawCommit
  <2>1. PICK month \in Months :
          /\ draw' = [draw EXCEPT ![month] = [NoDraw EXCEPT !.state = "COMMITTED"]]
          /\ UNCHANGED <<batch, lucky, status, holds, winnerMonth, emiVars, payment, snapshot>>
    BY <1>2 DEF CreateDrawCommit
  <2>2. draw' \in [Months -> DrawRows]
    BY <2>1 DEF TypeOK, DrawRows, NoDraw
  <2>3. \A d \in Months : draw'[d].state = "REVEALED" => draw'[d] = draw[d]
    BY <2>1 DEF TypeOK, NoDraw
  <2> QED
    BY <2>1, <2>2, <2>3, BatchStep DEF TypeOK
<1>3. CASE \E minimum \in 0..Cardinality(Luckies) : LockBatch(minimum)
  <2>1. /\ batch' = "LOCKED" /\ snapshot' = LiveEligible
        /\ UNCHANGED <<lucky, status, holds, winnerMonth, emiVars, payment, draw>>
    BY <1>3 DEF LockBatch
  <2> QED
    BY <2>1, BatchStep DEF TypeOK, LiveEligible, BatchStatuses
<1>4. CASE CommitBatchDraw
  <2>1. /\ batch' = "DRAW_COMMITTED"
        /\ draw' = [draw EXCEPT ![1] = [NoDraw EXCEPT !.state = "COMMITTED", !.coordinated = TRUE]]
        /\ UNCHANGED <<lucky, status, holds, winnerMonth, emiVars, payment, snapshot>>
    BY <1>4 DEF CommitBatchDraw
  <2>2. draw' \in [Months -> DrawRows]
    BY <2>1 DEF TypeOK, DrawRows, NoDraw
  <2>3. \A d \in Months : draw'[d].state = "REVEALED" => draw'[d] = draw[d]
    BY <2>1 DEF TypeOK, NoDraw
  <2> QED
    BY <2>1, <2>2, <2>3, BatchStep DEF TypeOK, BatchStatuses
<1> QED
  BY <1>1, <1>2, <1>3, <1>4

\* Every step keeps the invariant.
LEMMA NextInv == PlanInv /\ [Next]_vars => PlanInv'
<1> SUFFICES ASSUME PlanInv, [Next]_vars PROVE PlanInv'
  OBVIOUS
<1>1. CASE \/ \E next \in BatchStatuses : TransitionBatch(next)
           \/ CreateDrawCommit
           \/ \E minimum \in 0..Cardinality(Luckies) : LockBatch(minimum)
           \/ CommitBatchDraw
  BY <1>1, BatchActionsStep
<1>2. ASSUME NEW s \in Subs, NEW l \in Luckies, Enrol(s, l) \/ AdminEnrol(s, l) PROVE PlanInv'
  <2>1. NewSubscription(s, l) /\ batch' \in {batch, "FULL"}
    BY <1>2 DEF Enrol, AdminEnrol
  <2>2. batch' \in BatchStatuses
    BY <2>1 DEF PlanInv, TypeOK, BatchStatuses
  <2> QED
    BY <2>1, <2>2, EnrolStep
<1>3. ASSUME NEW s \in Subs, NEW l \in Luckies, AdminAssignLucky(s, l) PROVE PlanInv'
  BY <1>3, AdminAssignStep
<1>4. ASSUME NEW s \in Subs, AdminRebuildSchedule(s) PROVE PlanInv'
  BY <1>4, AdminRebuildStep
<1>5. ASSUME NEW s \in Subs, NEW force \in BOOLEAN, CancelSubscription(s, force) PROVE PlanInv'
  BY <1>5, CancelStep
<1>6. ASSUME NEW s \in Subs, CloseContract(s) PROVE PlanInv'
  BY <1>6, CloseStep
<1>7. ASSUME NEW month \in Months, NEW s \in Subs, RevealDraw(month, s) PROVE PlanInv'
  BY <1>7, RevealStep
<1>8. ASSUME NEW s \in Subs, ExecuteBatchDraw(s) PROVE PlanInv'
  BY <1>8, RevealStep, TenureAssumption DEF ExecuteBatchDraw, Months
<1>9. ASSUME NEW s \in Subs, NEW month \in Months, ExecuteWinner(s, month) PROVE PlanInv'
  BY <1>9, ExecuteWinnerStep
<1>10. ASSUME NEW s \in Subs, SyncWinnerState(s) PROVE PlanInv'
  BY <1>10, SyncStep
<1>11. ASSUME NEW p \in Payments, NEW s \in Subs, NEW m \in Months, NEW amount \in Amounts,
              RecordPayment(p, s, m, amount)
       PROVE  PlanInv'
  BY <1>11, RecordStep
<1>12. ASSUME NEW p \in Payments, ReversePayment(p) PROVE PlanInv'
  BY <1>12, ReverseStep
<1>13. ASSUME NEW s \in Subs, ReconcileFinancials(s) PROVE PlanInv'
  BY <1>13, ReconcileFinancialsStep
<1>14. CASE UNCHANGED vars
  BY <1>14, BatchStep DEF vars, emiVars, PlanInv, TypeOK
<1> QED
  BY <1>1, <1>2, <1>3, <1>4, <1>5, <1>6, <1>7, <1>8, <1>9, <1>10, <1>11, <1>12, <1>13, <1>14
  DEF Next

-----------------------------------------------------------------------------
(* What holds of every batch *)

\* The rows of a batch always agree, whatever sequence of requests is made of it.
THEOREM PlanInvariant == Spec => []PlanInv
<1> QED
  BY InitInv, NextInv, PTL DEF Spec

\* The fields keep to the values the code knows, for batches of any size.
THEOREM TypeCorrect == Spec => []TypeOK
<1>1. PlanInv => TypeOK
  BY DEF PlanInv
<1> QED
  BY <1>1, PlanInvariant, PTL

\* A Lucky ID is for sale exactly when nobody holds it, and never held twice.
THEOREM LuckyIdsSoldOnce == Spec => []LuckyIdAvailability
<1>1. PlanInv => LuckyIdAvailability
  BY DEF PlanInv
<1> QED
  BY <1>1, PlanInvariant, PTL

\* No order of payments, reversals, draws and cancellations detaches the status of a
\* subscription that did not win from its schedule.
THEOREM StatusFollowsSchedule == Spec => []StatusMatchesSchedule
<1>1. PlanInv => StatusMatchesSchedule
  BY DEF PlanInv, ScheduleDecidesStatus, StatusMatchesSchedule
<1> QED
  BY <1>1, PlanInvariant, PTL

\* The four records of a win agree, whichever service wrote each of them.
THEOREM WinsAgree == Spec => []WinnerRecordsAgree
<1>1. PlanInv => WinnerRecordsAgree
  BY DEF PlanInv
<1> QED
  BY <1>1, PlanInvariant, PTL

-----------------------------------------------------------------------------
(* The ledger of an EMI *)

\* The ledger counts the unreversed payments, and the status of an EMI follows its ledger.
LedgerInv == LedgerMatchesPayments /\ PaidExactlyWhenCovered

\* A sum over unreversed payments is a natural number and at least each of the payments.
LEMMA EffectivePaidBounds ==
  ASSUME TypeOK, NEW s, NEW m
  PROVE  /\ EffectivePaid(s, m) \in Nat
         /\ \A p \in Posted(s, m) : payment[p].amount <= EffectivePaid(s, m)
<1> DEFINE f == [p \in Posted(s, m) |-> payment[p].amount]
<1>1. IsFiniteSet(Posted(s, m))
  BY SetAssumption, FS_Subset DEF Posted
<1>2. f \in [Posted(s, m) -> Nat]
  BY AmountAssumption DEF Posted, TypeOK, PaymentRows, Amounts
<1>3. SumFunction(f) \in Nat /\ \A p \in Posted(s, m) : f[p] <= SumFunction(f)
  BY <1>1, <1>2, SumOfNaturals
<1> QED
  BY <1>3 DEF EffectivePaid

\* A payment that becomes POSTED is added to the sum of its own EMI only.
LEMMA PostedAdds ==
  ASSUME TypeOK, NEW p \in Payments, payment[p].state = "NONE",
         NEW new \in PaymentRows, new.state = "POSTED",
         payment'[p] = new, \A q \in Payments \ {p} : payment'[q] = payment[q],
         NEW t, NEW k
  PROVE  EffectivePaid(t, k)' = IF t = new.sub /\ k = new.month THEN EffectivePaid(t, k) + new.amount
                                ELSE EffectivePaid(t, k)
<1> DEFINE S == Posted(t, k)
           f == [q \in Posted(t, k) |-> payment[q].amount]
           g == [q \in Posted(t, k)' |-> payment'[q].amount]
<1>1. EffectivePaid(t, k) = SumFunction(f) /\ EffectivePaid(t, k)' = SumFunction(g)
  BY DEF EffectivePaid
<1>2. \A q \in Payments : payment'[q] = IF q = p THEN new ELSE payment[q]
  OBVIOUS
<1>3. p \notin S /\ S \subseteq Payments /\ IsFiniteSet(S) /\ f \in [S -> Nat]
  BY SetAssumption, AmountAssumption, FS_Subset DEF Posted, TypeOK, PaymentRows, Amounts
<1>4. CASE t = new.sub /\ k = new.month
  <2>1. Posted(t, k)' = S \union {p}
    BY <1>2, <1>4 DEF Posted
  <2>2. g \in [S \union {p} -> Nat] /\ g[p] = new.amount /\ \A q \in S : g[q] = f[q]
    BY <1>2, <1>3, <2>1, AmountAssumption DEF PaymentRows, Amounts
  <2> HIDE DEF S, f, g
  <2>3. SumFunction(g) = SumFunction(f) + g[p]
    <3>1. p \notin S /\ IsFiniteSet(S) /\ f \in [S -> Int] /\ g \in [S \union {p} -> Int]
      BY <1>3, <2>2
    <3>2. \A q \in S : g[q] = f[q]
      BY <2>2
    <3>3. PICK R, F, G : R = S /\ F = f /\ G = g
      OBVIOUS
    <3>4. SumFunction(G) = SumFunction(F) + G[p]
      BY <3>1, <3>2, <3>3, SumWithOneMore
    <3> QED
      BY <3>3, <3>4
  <2> QED
    BY <1>1, <1>4, <2>2, <2>3
<1>5. CASE ~(t = new.sub /\ k = new.month)
  <2>1. Posted(t, k)' = S
    BY <1>2, <1>3, <1>5 DEF Posted
  <2>2. \A q \in S : payment'[q].amount = payment[q].amount
    BY <1>2, <1>3
  <2>3. g = f
    BY <2>1, <2>2
  <2> QED
    BY <1>1, <1>5, <2>3
<1> QED
  BY <1>4, <1>5

\* A payment that becomes REVERSED leaves the sum of its own EMI only.
LEMMA ReversedSubtracts ==
  ASSUME TypeOK, NEW p \in Payments, payment[p].state = "POSTED",
         payment' = [payment EXCEPT ![p] = [payment[p] EXCEPT !.state = "REVERSED"]],
         NEW t, NEW k
  PROVE  EffectivePaid(t, k)' = IF t = payment[p].sub /\ k = payment[p].month
                                THEN EffectivePaid(t, k) - payment[p].amount
                                ELSE EffectivePaid(t, k)
<1> DEFINE S == Posted(t, k)'
           f == [q \in Posted(t, k) |-> payment[q].amount]
           g == [q \in Posted(t, k)' |-> payment'[q].amount]
<1>1. EffectivePaid(t, k) = SumFunction(f) /\ EffectivePaid(t, k)' = SumFunction(g)
  BY DEF EffectivePaid
<1>2. /\ \A q \in Payments : q # p => payment'[q] = payment[q]
      /\ payment'[p].state = "REVERSED"
  BY DEF TypeOK, PaymentRows
<1>3. /\ p \notin S /\ S \subseteq Payments /\ S \subseteq Posted(t, k)
      /\ \A q \in S : payment'[q] = payment[q]
  BY <1>2 DEF Posted
<1>4. IsFiniteSet(S)
  BY <1>3, SetAssumption, FS_Subset
<1>5. f \in [Posted(t, k) -> Nat] /\ g \in [S -> Nat]
  BY <1>3, AmountAssumption DEF Posted, TypeOK, PaymentRows, Amounts
<1>6. CASE t = payment[p].sub /\ k = payment[p].month
  <2>1. Posted(t, k) = S \union {p}
    BY <1>2, <1>3, <1>6 DEF Posted
  <2>2. f[p] = payment[p].amount /\ \A q \in S : f[q] = g[q]
    BY <1>3, <2>1
  <2>3. f \in [S \union {p} -> Int] /\ g \in [S -> Int]
    BY <1>5, <2>1
  <2> HIDE DEF S, f, g
  <2>4. SumFunction(g) \in Int /\ f[p] \in Int
    <3>1. SumFunction(g) \in Int
      BY <1>4, <2>3, SumIsInteger
    <3>2. f[p] \in Int
      BY <2>3
    <3> QED
      BY <3>1, <3>2
  <2>5. p \notin S /\ \A q \in S : f[q] = g[q]
    BY <1>3, <2>2
  <2>6. SumFunction(f) = SumFunction(g) + f[p]
    <3>1. PICK R, F, G : R = S /\ F = f /\ G = g
      OBVIOUS
    <3>2. SumFunction(F) = SumFunction(G) + F[p]
      BY <1>4, <2>3, <2>5, <3>1, SumWithOneMore
    <3> QED
      BY <3>1, <3>2
  <2> QED
    BY <1>1, <1>6, <2>2, <2>4, <2>6
<1>7. CASE ~(t = payment[p].sub /\ k = payment[p].month)
  <2>1. Posted(t, k) = S
    BY <1>2, <1>3, <1>7 DEF Posted
  <2>2. g = f
    BY <1>3, <2>1
  <2> QED
    BY <1>1, <1>7, <2>2
<1> QED
  BY <1>6, <1>7

\* Which status the refreshed EMI has, by the amount its ledger shows.
LEMMA RefreshedByLedger ==
  ASSUME NEW e \in EmiStatuses, NEW net \in 0..EmiAmount, e = "WAIVED" => net # EmiAmount
  PROVE  RefreshedEmi(e, net, EmiAmount) = "PAID" <=> net = EmiAmount
BY AmountAssumption DEF RefreshedEmi, NetPaid

\* Steps that leave payments and ledger alone, and no EMI becomes PAID or stops being it.
LEMMA SettledKeepsLedger ==
  ASSUME LedgerInv, UNCHANGED <<payment, ledger>>,
         \A s \in Subs, m \in Months : emi'[s][m] = "PAID" <=> emi[s][m] = "PAID"
  PROVE  LedgerInv'
<1>1. LedgerMatchesPayments'
  BY DEF LedgerInv, LedgerMatchesPayments, EffectivePaid, Posted
<1>2. PaidExactlyWhenCovered'
  BY DEF LedgerInv, PaidExactlyWhenCovered
<1> QED
  BY <1>1, <1>2 DEF LedgerInv

\* The ledger moves with the payment that is recorded or reversed.
LEMMA ReconcileKeepsLedger ==
  ASSUME PlanInv, LedgerInv, NEW s \in Subs, NEW m \in Months, NEW net \in 0..EmiAmount,
         emi[s][m] = "WAIVED" => net # EmiAmount,
         Reconcile(s, m, net),
         \A t \in Subs, k \in Months :
           EffectivePaid(t, k)' = IF t = s /\ k = m THEN net ELSE EffectivePaid(t, k)
  PROVE  LedgerInv'
<1> DEFINE new == RefreshedEmi(emi[s][m], net, EmiAmount)
<1>1. /\ ledger' = [ledger EXCEPT ![s] = [ledger[s] EXCEPT ![m] = net]]
      /\ emi' = [emi EXCEPT ![s] = [emi[s] EXCEPT ![m] = new]]
  BY DEF Reconcile
<1>2. new = "PAID" <=> net = EmiAmount
  BY RefreshedByLedger DEF PlanInv, TypeOK
<1> HIDE DEF new
<1>3. \A t \in Subs, k \in Months :
        /\ ledger'[t][k] = IF t = s /\ k = m THEN net ELSE ledger[t][k]
        /\ emi'[t][k] = IF t = s /\ k = m THEN new ELSE emi[t][k]
  BY <1>1 DEF PlanInv, TypeOK
<1>4. LedgerMatchesPayments'
  BY <1>3 DEF LedgerInv, LedgerMatchesPayments
<1>5. PaidExactlyWhenCovered'
  BY <1>2, <1>3 DEF LedgerInv, PaidExactlyWhenCovered
<1> QED
  BY <1>4, <1>5 DEF LedgerInv

LEMMA RecordKeepsLedger ==
  ASSUME PlanInv, LedgerInv, NEW p \in Payments, NEW s \in Subs, NEW m \in Months,
         NEW amount \in Amounts, RecordPayment(p, s, m, amount)
  PROVE  LedgerInv'
<1> DEFINE net == ledger[s][m] + amount
<1>1. /\ payment[p].state = "NONE" /\ emi[s][m] \notin SettledEmi
      /\ amount <= EmiAmount - NetPaid(ledger[s][m])
      /\ payment' = [payment EXCEPT ![p] = [state |-> "POSTED", sub |-> s, month |-> m,
                                            amount |-> amount]]
      /\ Reconcile(s, m, net)
  BY DEF RecordPayment
<1>2. ledger[s][m] \in 0..EmiAmount /\ amount \in Nat
  BY AmountAssumption DEF LedgerInv, PaidExactlyWhenCovered, Amounts
<1>3. net \in 0..EmiAmount
  BY <1>1, <1>2, AmountAssumption DEF NetPaid
<1>4. \A t \in Subs, k \in Months :
        EffectivePaid(t, k)' = IF t = s /\ k = m THEN net ELSE EffectivePaid(t, k)
  <2> TAKE t \in Subs, k \in Months
  <2>1. EffectivePaid(t, k)' = IF t = s /\ k = m THEN EffectivePaid(t, k) + amount
                               ELSE EffectivePaid(t, k)
    <3>1. TypeOK /\ amount \in Nat /\ payment[p].state = "NONE"
      BY <1>1, <1>2 DEF PlanInv
    <3>2. PICK new \in PaymentRows :
            new = [state |-> "POSTED", sub |-> s, month |-> m, amount |-> amount]
      BY DEF PaymentRows
    <3>3. payment'[p] = new /\ \A q \in Payments \ {p} : payment'[q] = payment[q]
      BY <1>1, <3>2 DEF PlanInv, TypeOK
    <3>4. new.state = "POSTED" /\ new.sub = s /\ new.month = m /\ new.amount = amount
      BY <3>2
    <3>5. EffectivePaid(t, k)' = IF t = new.sub /\ k = new.month THEN EffectivePaid(t, k) + new.amount
                                 ELSE EffectivePaid(t, k)
      BY <3>1, <3>3, <3>4, PostedAdds
    <3> QED
      BY <3>4, <3>5
  <2> QED
    BY <2>1 DEF LedgerInv, LedgerMatchesPayments
<1> HIDE DEF net
<1> QED
  BY <1>1, <1>3, <1>4, ReconcileKeepsLedger DEF SettledEmi

LEMMA ReverseKeepsLedger ==
  ASSUME PlanInv, LedgerInv, NEW p \in Payments, ReversePayment(p)
  PROVE  LedgerInv'
<1> DEFINE s == payment[p].sub
           m == payment[p].month
           net == ledger[s][m] - payment[p].amount
<1>1. /\ payment[p].state = "POSTED"
      /\ payment' = [payment EXCEPT ![p] = [payment[p] EXCEPT !.state = "REVERSED"]]
      /\ Reconcile(s, m, net)
  BY DEF ReversePayment
<1>2. s \in Subs /\ m \in Months /\ payment[p].amount \in 1..EmiAmount
  BY <1>1 DEF PlanInv, TypeOK, PaymentRows, PaymentsNamed, Enrolled, Amounts
<1>3. ledger[s][m] \in 0..EmiAmount /\ ledger[s][m] = EffectivePaid(s, m)
  BY <1>2 DEF LedgerInv, LedgerMatchesPayments, PaidExactlyWhenCovered
<1>4. payment[p].amount <= EffectivePaid(s, m)
  BY <1>1, EffectivePaidBounds DEF PlanInv, Posted
<1>5. net \in 0..EmiAmount /\ net # EmiAmount
  BY <1>2, <1>3, <1>4, AmountAssumption
<1>6. \A t \in Subs, k \in Months :
        EffectivePaid(t, k)' = IF t = s /\ k = m THEN net ELSE EffectivePaid(t, k)
  <2> TAKE t \in Subs, k \in Months
  <2>1. EffectivePaid(t, k)' = IF t = s /\ k = m THEN EffectivePaid(t, k) - payment[p].amount
                               ELSE EffectivePaid(t, k)
    BY <1>1, ReversedSubtracts DEF PlanInv
  <2> QED
    BY <1>3, <2>1
<1> HIDE DEF s, m, net
<1> QED
  BY <1>1, <1>2, <1>5, <1>6, ReconcileKeepsLedger

\* The command finds nothing to correct: what it writes is what the ledger says already.
LEMMA ReconcileFinancialsKeepsLedger ==
  ASSUME PlanInv, LedgerInv, NEW s \in Subs, ReconcileFinancials(s)
  PROVE  LedgerInv'
<1>1. emi' = [emi EXCEPT ![s] = [m \in Months |-> RefreshedEmi(emi[s][m], EffectivePaid(s, m), EmiAmount)]]
  BY DEF ReconcileFinancials
<1>2. ASSUME NEW m \in Months
      PROVE  RefreshedEmi(emi[s][m], EffectivePaid(s, m), EmiAmount) = "PAID" <=> emi[s][m] = "PAID"
  <2>1. /\ EffectivePaid(s, m) \in 0..EmiAmount
        /\ emi[s][m] = "PAID" <=> EffectivePaid(s, m) = EmiAmount
    BY DEF LedgerInv, LedgerMatchesPayments, PaidExactlyWhenCovered
  <2> QED
    BY <2>1, RefreshedByLedger DEF PlanInv, TypeOK
<1>3. \A t \in Subs, m \in Months : emi'[t][m] = "PAID" <=> emi[t][m] = "PAID"
  BY <1>1, <1>2 DEF PlanInv, TypeOK
<1> QED
  BY <1>3, SettledKeepsLedger DEF ReconcileFinancials

\* A win waives pending EMIs, and no other.
LEMMA WinKeepsLedger ==
  ASSUME PlanInv, LedgerInv, NEW s \in Subs, NEW month, ApplyWinner(s, month),
         UNCHANGED <<payment, ledger>>
  PROVE  LedgerInv'
<1>1. emi' = [emi EXCEPT ![s] = [m \in Months |-> IF m \in FuturePending(s, month)
                                                   THEN "WAIVED" ELSE emi[s][m]]]
  BY DEF ApplyWinner
<1>2. \A t \in Subs, m \in Months : emi'[t][m] = "PAID" <=> emi[t][m] = "PAID"
  BY <1>1 DEF PlanInv, TypeOK, FuturePending
<1> QED
  BY <1>2, SettledKeepsLedger

LEMMA NextLedgerInv == PlanInv /\ LedgerInv /\ [Next]_vars => LedgerInv'
<1> SUFFICES ASSUME PlanInv, LedgerInv, [Next]_vars PROVE LedgerInv'
  OBVIOUS
<1>1. CASE \/ \E next \in BatchStatuses : TransitionBatch(next)
           \/ \E s \in Subs, l \in Luckies : Enrol(s, l) \/ AdminEnrol(s, l) \/ AdminAssignLucky(s, l)
           \/ \E s \in Subs : CloseContract(s)
           \/ CreateDrawCommit
           \/ \E minimum \in 0..Cardinality(Luckies) : LockBatch(minimum)
           \/ CommitBatchDraw
           \/ \E s \in Subs : SyncWinnerState(s)
           \/ UNCHANGED vars
  <2>1. UNCHANGED <<emi, payment, ledger>>
    BY <1>1 DEF TransitionBatch, Enrol, AdminEnrol, AdminAssignLucky, NewSubscription, CloseContract,
                CreateDrawCommit, LockBatch, CommitBatchDraw, SyncWinnerState, emiVars, vars
  <2> QED
    BY <2>1, SettledKeepsLedger
<1>2. ASSUME NEW s \in Subs, AdminRebuildSchedule(s) PROVE LedgerInv'
  <2>1. /\ \A m \in Months : emi[s][m] # "PAID"
        /\ emi' = [emi EXCEPT ![s] = [m \in Months |-> "PENDING"]]
        /\ UNCHANGED <<payment, ledger>>
    BY <1>2 DEF AdminRebuildSchedule, TermsEditable, EmiSet, SettledEmi
  <2>2. \A t \in Subs, m \in Months : emi'[t][m] = "PAID" <=> emi[t][m] = "PAID"
    BY <2>1 DEF PlanInv, TypeOK
  <2> QED
    BY <2>1, <2>2, SettledKeepsLedger
<1>3. ASSUME NEW s \in Subs, NEW force \in BOOLEAN, CancelSubscription(s, force) PROVE LedgerInv'
  <2>1. /\ emi' = [emi EXCEPT ![s] = [m \in Months |-> IF emi[s][m] = "PENDING"
                                                        THEN "CANCELLED" ELSE emi[s][m]]]
        /\ UNCHANGED <<payment, ledger>>
    BY <1>3 DEF CancelSubscription
  <2>2. \A t \in Subs, m \in Months : emi'[t][m] = "PAID" <=> emi[t][m] = "PAID"
    BY <2>1 DEF PlanInv, TypeOK
  <2> QED
    BY <2>1, <2>2, SettledKeepsLedger
<1>4. ASSUME NEW s \in Subs, NEW month \in Months,
             RevealDraw(month, s) \/ ExecuteWinner(s, month)
      PROVE  LedgerInv'
  BY <1>4, WinKeepsLedger DEF RevealDraw, ExecuteWinner
<1>5. ASSUME NEW s \in Subs, ExecuteBatchDraw(s) PROVE LedgerInv'
  BY <1>5, WinKeepsLedger DEF ExecuteBatchDraw, RevealDraw
<1>6. ASSUME NEW p \in Payments, NEW s \in Subs, NEW m \in Months, NEW amount \in Amounts,
             RecordPayment(p, s, m, amount)
      PROVE  LedgerInv'
  BY <1>6, RecordKeepsLedger
<1>7. ASSUME NEW p \in Payments, ReversePayment(p) PROVE LedgerInv'
  BY <1>7, ReverseKeepsLedger
<1>8. ASSUME NEW s \in Subs, ReconcileFinancials(s) PROVE LedgerInv'
  BY <1>8, ReconcileFinancialsKeepsLedger
<1> QED
  BY <1>1, <1>2, <1>3, <1>4, <1>5, <1>6, <1>7, <1>8 DEF Next

LEMMA InitLedgerInv == Init => LedgerInv
<1> SUFFICES ASSUME Init PROVE LedgerInv
  OBVIOUS
<1>1. ASSUME NEW s, NEW m PROVE EffectivePaid(s, m) = 0
  <2>1. Posted(s, m) = {}
    BY DEF Init, Posted, NoPayment
  <2> QED
    BY <2>1, SumOfNothing DEF EffectivePaid
<1> QED
  BY <1>1, AmountAssumption DEF Init, LedgerInv, LedgerMatchesPayments, PaidExactlyWhenCovered

\* The ledger is the sum of the payments not reversed, for any number and size of payments.
THEOREM LedgerCounts == Spec => []LedgerMatchesPayments
<1>1. Spec => []LedgerInv
  BY InitLedgerInv, NextLedgerInv, PlanInvariant, PTL DEF Spec
<1>2. LedgerInv => LedgerMatchesPayments
  BY DEF LedgerInv
<1> QED
  BY <1>1, <1>2, PTL

\* No sequence of partial payments, reversals, waivers and repairs leaves an EMI PAID that
\* is not covered, or one covered that is not PAID, or collects more than its amount.
THEOREM CoveredIsPaid == Spec => []PaidExactlyWhenCovered
<1>1. Spec => []LedgerInv
  BY InitLedgerInv, NextLedgerInv, PlanInvariant, PTL DEF Spec
<1>2. LedgerInv => PaidExactlyWhenCovered
  BY DEF LedgerInv
<1> QED
  BY <1>1, <1>2, PTL
=============================================================================
