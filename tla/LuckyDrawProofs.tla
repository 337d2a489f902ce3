-------------------------- MODULE LuckyDrawProofs --------------------------
(***************************************************************************)
(* Proofs about waivers and draws: what a win waives, that it is posted    *)
(* once and for good, and that the commitment of a draw is kept.           *)
(***************************************************************************)
EXTENDS LuckyPlanProofs, FiniteSetTheorems

\* A step leaves the waiver of an EMI as it was.
WaiverKept(s, m) ==
  /\ emi'[s][m] = "WAIVED" <=> emi[s][m] = "WAIVED"
  /\ waiver'[s][m] = waiver[s][m]

\* A step waives a pending EMI of a month after the one its subscription won in.
WaiverGranted(s, m) ==
  /\ emi[s][m] = "PENDING" /\ emi'[s][m] = "WAIVED"
  /\ waiver'[s][m] = waiver[s][m] + EmiAmount
  /\ winnerMonth'[s] \in Months /\ winnerMonth'[s] < m

-----------------------------------------------------------------------------
(* Waivers *)

\* A win waives the future pending EMIs of its subscription and nothing else.
LEMMA WinWaives ==
  ASSUME PlanInv, NEW w \in Subs, NEW month \in Months, ApplyWinner(w, month),
         NEW s \in Subs, NEW m \in Months
  PROVE  WaiverKept(s, m) \/ WaiverGranted(s, m)
<1> DEFINE future == FuturePending(w, month)
           row == [k \in Months |-> IF k \in future THEN "WAIVED" ELSE emi[w][k]]
           posted == [k \in Months |-> waiver[w][k] + (IF k \in future THEN EmiAmount ELSE 0)]
<1>1. /\ emi' = [emi EXCEPT ![w] = row]
      /\ waiver' = [waiver EXCEPT ![w] = posted]
      /\ winnerMonth' = [winnerMonth EXCEPT ![w] = month]
  BY DEF ApplyWinner
<1>2. m \in future <=> m > month /\ emi[w][m] = "PENDING"
  BY DEF FuturePending
<1>3. /\ row[m] = IF m \in future THEN "WAIVED" ELSE emi[w][m]
      /\ posted[m] = IF m \in future THEN waiver[w][m] + EmiAmount ELSE waiver[w][m]
  BY DEF PlanInv, TypeOK
<1> HIDE DEF row, posted, future
<1>4. CASE s # w
  BY <1>1, <1>4 DEF PlanInv, TypeOK, WaiverKept
<1>5. CASE s = w
  <2>1. emi'[s] = row /\ waiver'[s] = posted /\ winnerMonth'[s] = month
    BY <1>1, <1>5 DEF PlanInv, TypeOK
  <2>2. CASE m \in future
    BY <1>2, <1>3, <1>5, <2>1, <2>2 DEF WaiverGranted, Months
  <2>3. CASE m \notin future
    BY <1>3, <1>5, <2>1, <2>3 DEF WaiverKept
  <2> QED
    BY <2>2, <2>3
<1> QED
  BY <1>4, <1>5

\* Following the ledger neither grants nor undoes a waiver.
LEMMA LedgerKeepsWaivers ==
  ASSUME PlanInv, NEW u, NEW k, NEW net, Reconcile(u, k, net), waiver' = waiver,
         NEW s \in Subs, NEW m \in Months
  PROVE  WaiverKept(s, m)
<1>1. emi' = [emi EXCEPT ![u] = [emi[u] EXCEPT ![k] = RefreshedEmi(emi[u][k], net, EmiAmount)]]
  BY DEF Reconcile
<1>2. emi'[s][m] = emi[s][m] \/ (s = u /\ m = k /\ emi'[s][m] = RefreshedEmi(emi[s][m], net, EmiAmount))
  BY <1>1 DEF PlanInv, TypeOK
<1> QED
  BY <1>2, RefreshedCases DEF WaiverKept

\* The reconcile command neither grants nor undoes a waiver.
LEMMA ReconcileFinancialsKeepsWaivers ==
  ASSUME PlanInv, NEW u \in Subs, ReconcileFinancials(u), NEW s \in Subs, NEW m \in Months
  PROVE  WaiverKept(s, m)
<1> DEFINE row == [k \in Months |-> RefreshedEmi(emi[u][k], EffectivePaid(u, k), EmiAmount)]
<1>1. emi' = [emi EXCEPT ![u] = row] /\ waiver' = waiver
  BY DEF ReconcileFinancials
<1>2. row[m] = RefreshedEmi(emi[u][m], EffectivePaid(u, m), EmiAmount)
  OBVIOUS
<1>3. row[m] = "WAIVED" <=> emi[u][m] = "WAIVED"
  BY <1>2, RefreshedCases
<1> HIDE DEF row
<1>4. emi'[s] = IF s = u THEN row ELSE emi[s]
  BY <1>1 DEF PlanInv, TypeOK
<1> QED
  BY <1>1, <1>3, <1>4 DEF WaiverKept

\* What any step can do to the waiver of an EMI.
LEMMA WaiverEffect ==
  ASSUME PlanInv, [Next]_vars, NEW s \in Subs, NEW m \in Months
  PROVE  WaiverKept(s, m) \/ WaiverGranted(s, m)
<1>1. CASE emi' = emi /\ waiver' = waiver
  BY <1>1 DEF WaiverKept
<1>2. ASSUME NEW w \in Subs, NEW month \in Months, ApplyWinner(w, month)
      PROVE  WaiverKept(s, m) \/ WaiverGranted(s, m)
  BY <1>2, WinWaives
<1>3. ASSUME NEW u \in Subs, AdminRebuildSchedule(u) PROVE WaiverKept(s, m)
  <2>1. /\ waiver' = waiver /\ EmiSet(emi[u]) \intersect SettledEmi = {}
        /\ emi' = [emi EXCEPT ![u] = [k \in Months |-> "PENDING"]]
    BY <1>3 DEF AdminRebuildSchedule, TermsEditable
  <2>2. emi[u][m] # "WAIVED"
    BY <2>1 DEF EmiSet, SettledEmi
  <2> QED
    BY <2>1, <2>2 DEF WaiverKept, PlanInv, TypeOK
<1>4. ASSUME NEW u \in Subs, NEW force \in BOOLEAN, CancelSubscription(u, force) PROVE WaiverKept(s, m)
  <2>1. /\ waiver' = waiver
        /\ emi' = [emi EXCEPT ![u] =
                    [k \in Months |-> IF emi[u][k] = "PENDING" THEN "CANCELLED" ELSE emi[u][k]]]
    BY <1>4 DEF CancelSubscription
  <2> QED
    BY <2>1 DEF WaiverKept, PlanInv, TypeOK
<1>5. ASSUME NEW p \in Payments, NEW u \in Subs, NEW k \in Months, NEW amount \in Amounts,
             RecordPayment(p, u, k, amount)
      PROVE  WaiverKept(s, m)
  BY <1>5, LedgerKeepsWaivers DEF RecordPayment
<1>6. ASSUME NEW p \in Payments, ReversePayment(p) PROVE WaiverKept(s, m)
  BY <1>6, LedgerKeepsWaivers DEF ReversePayment
<1>7. ASSUME NEW u \in Subs, ReconcileFinancials(u) PROVE WaiverKept(s, m)
  BY <1>7, ReconcileFinancialsKeepsWaivers
<1>8. CASE \/ UNCHANGED vars
           \/ \E next \in BatchStatuses : TransitionBatch(next)
           \/ \E u \in Subs, l \in Luckies : Enrol(u, l) \/ AdminEnrol(u, l) \/ AdminAssignLucky(u, l)
           \/ \E u \in Subs : CloseContract(u) \/ SyncWinnerState(u)
           \/ CreateDrawCommit
           \/ \E minimum \in 0..Cardinality(Luckies) : LockBatch(minimum)
           \/ CommitBatchDraw
  BY <1>1, <1>8
  DEF vars, emiVars, TransitionBatch, Enrol, AdminEnrol, NewSubscription, AdminAssignLucky,
      CloseContract, SyncWinnerState, CreateDrawCommit, LockBatch, CommitBatchDraw
<1>9. CASE \/ \E month \in Months, u \in Subs : RevealDraw(month, u) \/ ExecuteWinner(u, month)
           \/ \E u \in Subs : ExecuteBatchDraw(u)
  <2>1. ASSUME NEW month \in Months, NEW u \in Subs, RevealDraw(month, u) \/ ExecuteWinner(u, month)
        PROVE  WaiverKept(s, m) \/ WaiverGranted(s, m)
    BY <2>1, <1>2 DEF RevealDraw, ExecuteWinner
  <2>2. 1 \in Months
    BY TenureAssumption DEF Months
  <2> QED
    BY <1>9, <2>1, <2>2 DEF ExecuteBatchDraw
<1> QED
  BY <1>3, <1>4, <1>5, <1>6, <1>7, <1>8, <1>9 DEF Next

\* A waived EMI stays waived, whatever is paid, reversed, cancelled or reconciled.
THEOREM WaiversPermanent == Spec => WaivedForever
<1>1. PlanInv /\ [Next]_vars =>
        [\A s \in Subs, m \in Months : emi[s][m] = "WAIVED" => emi'[s][m] = "WAIVED"]_vars
  BY WaiverEffect DEF WaiverKept, WaiverGranted
<1> QED
  BY <1>1, PlanInvariant, PTL DEF Spec, WaivedForever

\* A win waives only pending EMIs of later months.
THEOREM OnlyFutureWaived == Spec => FutureOnlyWaiver
<1>1. PlanInv /\ [Next]_vars =>
        [\A s \in Subs, m \in Months :
           emi[s][m] # "WAIVED" /\ emi'[s][m] = "WAIVED"
             => emi[s][m] = "PENDING" /\ winnerMonth'[s] # 0 /\ winnerMonth'[s] < m]_vars
  BY WaiverEffect DEF WaiverKept, WaiverGranted, Months
<1> QED
  BY <1>1, PlanInvariant, PTL DEF Spec, FutureOnlyWaiver

\* However often a subscription wins or is repaired, each waiver is posted once.
THEOREM WaiversPostedOnce == Spec => []WaiverPostedOnce
<1>1. Init => WaiverPostedOnce
  BY DEF Init, WaiverPostedOnce
<1>2. PlanInv /\ WaiverPostedOnce /\ [Next]_vars => WaiverPostedOnce'
  <2> SUFFICES ASSUME PlanInv, WaiverPostedOnce, [Next]_vars, NEW s \in Subs, NEW m \in Months
               PROVE  waiver'[s][m] = IF emi'[s][m] = "WAIVED" THEN EmiAmount ELSE 0
    BY DEF WaiverPostedOnce
  <2>1. waiver[s][m] = IF emi[s][m] = "WAIVED" THEN EmiAmount ELSE 0
    BY DEF WaiverPostedOnce
  <2>2. CASE WaiverKept(s, m)
    BY <2>1, <2>2 DEF WaiverKept
  <2>3. CASE WaiverGranted(s, m)
    BY <2>1, <2>3, AmountAssumption DEF WaiverGranted
  <2> QED
    BY <2>2, <2>3, WaiverEffect
<1> QED
  BY <1>1, <1>2, PlanInvariant, PTL DEF Spec

-----------------------------------------------------------------------------
(* Draws *)

\* The statuses a batch has before it is locked.
BeforeLock == {"DRAFT", "OPEN", "FULL", "READY_TO_LOCK"}

\* What the draw endpoints rely on: no snapshot before the lock, coordination of month 1 only.
DrawInv ==
  /\ batch \in BeforeLock => snapshot = {}
  /\ \A d \in Months : draw[d].coordinated => d = 1
  /\ CoordinationIntegrity
  /\ LegacyWinnersDiffer

\* A batch that left the statuses before the lock never returns to them.
LEMMA NoWayBack ==
  ASSUME NEW old \in BatchStatuses, NEW next \in BatchTransitions[old], next \in BeforeLock
  PROVE  old \in BeforeLock
<1>1. /\ BatchTransitions["LOCKED"] = {"DRAW_COMMITTED"}
      /\ BatchTransitions["DRAW_COMMITTED"] = {"DRAW_COMPLETED"}
      /\ BatchTransitions["DRAW_COMPLETED"] = {"COMPLETED"}
      /\ BatchTransitions["DRAW_IN_PROGRESS"] = {"COMPLETED"}
      /\ BatchTransitions["COMPLETED"] = {"CLOSED"}
      /\ BatchTransitions["CLOSED"] = {}
      /\ BatchTransitions["CANCELLED"] = {}
  BY DEF BatchTransitions
<1> QED
  BY <1>1 DEF BatchStatuses, BeforeLock

\* Draws are a finite set of months.
LEMMA DrawsFinite == IsFiniteSet(Draws) /\ Cardinality(Draws) \in Nat
<1>1. IsFiniteSet(Months)
  BY FS_Interval, TenureAssumption DEF Months
<1>2. IsFiniteSet(Draws)
  BY <1>1, FS_Subset DEF Draws
<1> QED
  BY <1>2, FS_CardinalityType

\* The first n months are counted by n.
LEMMA FirstMonths ==
  ASSUME NEW n \in Nat
  PROVE  Cardinality(1..n) = n
BY FS_Interval

\* A new batch has no draw.
LEMMA InitDrawInv == Init => DrawInv
<1> SUFFICES ASSUME Init PROVE DrawInv
  OBVIOUS
<1>1. Draws = {}
  BY DEF Init, Draws, NoDraw
<1>2. Draws = 1..Cardinality(Draws)
  BY <1>1, FS_EmptySet
<1> QED
  BY <1>2 DEF Init, DrawInv, CoordinationIntegrity, LegacyWinnersDiffer, NoDraw, Coordinated

\* A step of the batch status alone.
LEMMA StatusOnlyStep ==
  ASSUME DrawInv, UNCHANGED <<snapshot, draw>>,
         batch' \in BeforeLock => batch \in BeforeLock,
         batch' = batch \/ batch' \notin Coordinated
  PROVE  DrawInv'
<1>1. Draws' = Draws
  BY DEF Draws
<1>2. CoordinationIntegrity'
  BY <1>1 DEF DrawInv, CoordinationIntegrity, Coordinated
<1> QED
  BY <1>2 DEF DrawInv, LegacyWinnersDiffer

\* The legacy commitment takes the month after the last one.
LEMMA CreateDrawCommitStep ==
  ASSUME PlanInv, DrawInv, CreateDrawCommit
  PROVE  DrawInv'
<1> DEFINE month == Cardinality(Draws) + 1
           new == [NoDraw EXCEPT !.state = "COMMITTED"]
<1>1. /\ month \in Months /\ batch \notin Coordinated
      /\ draw[month].state = "NONE" /\ draw' = [draw EXCEPT ![month] = new]
      /\ UNCHANGED <<batch, snapshot>>
  BY DEF CreateDrawCommit
<1>2. /\ draw'[month].state = "COMMITTED" /\ ~draw'[month].coordinated
      /\ \A d \in Months : d # month => draw'[d] = draw[d]
  BY <1>1 DEF PlanInv, TypeOK, NoDraw
<1>3. Draws' = 1..month
  <2>1. Draws' = Draws \union {month}
    BY <1>1, <1>2 DEF Draws
  <2>2. PICK n \in Nat : n = Cardinality(Draws)
    BY DrawsFinite
  <2>3. Draws = 1..n /\ month = n + 1
    BY <2>2 DEF DrawInv, CoordinationIntegrity
  <2>4. (1..n) \union {n + 1} = 1..(n + 1)
    OBVIOUS
  <2> QED
    BY <2>1, <2>3, <2>4
<1>4. Draws' = 1..Cardinality(Draws')
  <2>1. month \in Nat
    BY DrawsFinite
  <2> HIDE DEF month
  <2>2. Cardinality(1..month) = month
    BY <2>1, FirstMonths
  <2> QED
    BY <1>3, <2>2
<1> HIDE DEF month, new
<1>5. CoordinationIntegrity'
  BY <1>1, <1>4 DEF CoordinationIntegrity, Coordinated
<1>6. LegacyWinnersDiffer'
  BY <1>1, <1>2 DEF DrawInv, LegacyWinnersDiffer
<1> QED
  BY <1>1, <1>2, <1>5, <1>6 DEF DrawInv

\* The lock freezes a snapshot that is not empty.
LEMMA LockBatchStep ==
  ASSUME DrawInv, NEW minimum, LockBatch(minimum)
  PROVE  DrawInv'
<1>1. batch' = "LOCKED" /\ snapshot' # {} /\ draw' = draw
  BY DEF LockBatch
<1>2. Draws' = Draws
  BY <1>1 DEF Draws
<1> QED
  BY <1>1, <1>2 DEF DrawInv, CoordinationIntegrity, LegacyWinnersDiffer, BeforeLock

\* The coordinated commitment is the first draw of its batch.
LEMMA CommitBatchDrawStep ==
  ASSUME PlanInv, DrawInv, CommitBatchDraw
  PROVE  DrawInv'
<1> DEFINE new == [NoDraw EXCEPT !.state = "COMMITTED", !.coordinated = TRUE]
<1>1. /\ snapshot # {} /\ snapshot' = snapshot /\ batch' = "DRAW_COMMITTED"
      /\ draw[1].state = "NONE" /\ draw' = [draw EXCEPT ![1] = new]
  BY DEF CommitBatchDraw
<1>2. 1 \in Months
  BY TenureAssumption DEF Months
<1>3. /\ draw'[1].state = "COMMITTED" /\ draw'[1].coordinated
      /\ \A d \in Months : d # 1 => draw'[d] = draw[d]
  BY <1>1, <1>2 DEF PlanInv, TypeOK, NoDraw
<1>4. Draws' = 1..1
  <2>1. 1 \notin Draws /\ Draws = 1..Cardinality(Draws)
    BY <1>1 DEF Draws, DrawInv, CoordinationIntegrity
  <2>2. Draws = {}
    BY <2>1, DrawsFinite
  <2> QED
    BY <1>2, <1>3, <2>2 DEF Draws
<1>5. Draws' = 1..Cardinality(Draws')
  BY <1>4, FirstMonths
<1> HIDE DEF new
<1>6. CoordinationIntegrity'
  BY <1>1, <1>3, <1>5 DEF CoordinationIntegrity
<1> QED
  BY <1>1, <1>3, <1>6 DEF DrawInv, LegacyWinnersDiffer, BeforeLock

\* A reveal names an eligible winner and moves the batch along.
LEMMA RevealDrawStep ==
  ASSUME PlanInv, DrawInv, NEW month \in Months, NEW s \in Subs, RevealDraw(month, s)
  PROVE  DrawInv'
<1>1. /\ draw[month].state = "COMMITTED" /\ s \in Eligible /\ snapshot' = snapshot
      /\ draw' = [draw EXCEPT ![month] = [draw[month] EXCEPT !.state = "REVEALED", !.winner = s,
                                                            !.lucky = holds[s]]]
      /\ batch' = IF draw[month].coordinated /\ batch = "DRAW_COMMITTED" THEN "DRAW_COMPLETED" ELSE batch
  BY DEF RevealDraw
<1>2. /\ draw'[month].state = "REVEALED" /\ draw'[month].winner = s
      /\ draw'[month].coordinated = draw[month].coordinated
      /\ \A d \in Months : d # month => draw'[d] = draw[d]
  BY <1>1 DEF PlanInv, TypeOK, DrawRows
<1>3. Draws' = Draws
  BY <1>1, <1>2 DEF Draws
<1>4. snapshot # {} => s \in snapshot
  BY <1>1 DEF Eligible
<1>5. CoordinationIntegrity'
  <2>1. 1 \in Months
    BY TenureAssumption DEF Months
  <2>2. batch' \in Coordinated => snapshot' # {}
    BY <1>1 DEF DrawInv, CoordinationIntegrity, Coordinated
  <2>3. batch' = "DRAW_COMMITTED" => draw'[1].state = "COMMITTED" /\ draw'[1].coordinated
    BY <1>1, <1>2, <2>1 DEF DrawInv, CoordinationIntegrity
  <2>4. batch' = "DRAW_COMPLETED" =>
          draw'[1].state = "REVEALED" /\ draw'[1].coordinated /\ draw'[1].winner \in snapshot'
    <3>1. CASE batch = "DRAW_COMPLETED"
      BY <1>1, <1>2, <2>1, <3>1 DEF DrawInv, CoordinationIntegrity
    <3>2. CASE batch = "DRAW_COMMITTED" /\ draw[month].coordinated
      BY <1>1, <1>2, <1>4, <3>2 DEF DrawInv, CoordinationIntegrity, Coordinated
    <3> QED
      BY <1>1, <3>1, <3>2
  <2> QED
    BY <1>3, <2>2, <2>3, <2>4 DEF DrawInv, CoordinationIntegrity
<1>6. LegacyWinnersDiffer'
  <2>1. snapshot = {} => winnerMonth[s] = 0
    BY <1>1 DEF Eligible, LiveEligible, PlanInv, WinnerRecordsAgree
  <2>2. \A d \in Months : draw[d].state = "REVEALED" => winnerMonth[draw[d].winner] # 0
    BY DEF PlanInv, WinnerRecordsAgree
  <2> QED
    BY <1>1, <1>2, <2>1, <2>2 DEF DrawInv, LegacyWinnersDiffer
<1>7. batch' \in BeforeLock => snapshot' = {}
  BY <1>1 DEF DrawInv, BeforeLock
<1>8. \A d \in Months : draw'[d].coordinated => d = 1
  BY <1>2 DEF DrawInv
<1> QED
  BY <1>5, <1>6, <1>7, <1>8 DEF DrawInv

\* Every step keeps the invariant of draws.
LEMMA NextDrawInv == PlanInv /\ DrawInv /\ [Next]_vars => DrawInv'
<1> SUFFICES ASSUME PlanInv, DrawInv, [Next]_vars PROVE DrawInv'
  OBVIOUS
<1>1. CASE UNCHANGED batchVars
  BY <1>1, StatusOnlyStep DEF batchVars
<1>2. ASSUME NEW next \in BatchStatuses, TransitionBatch(next) PROVE DrawInv'
  <2>1. next \in BatchTransitions[batch] /\ next \notin Coordinated /\ batch' = next
    BY <1>2 DEF TransitionBatch
  <2>2. UNCHANGED <<snapshot, draw>> /\ batch \in BatchStatuses
    BY <1>2 DEF TransitionBatch, PlanInv, TypeOK
  <2> QED
    BY <2>1, <2>2, NoWayBack, StatusOnlyStep
<1>3. ASSUME NEW s \in Subs, NEW l \in Luckies, Enrol(s, l) \/ AdminEnrol(s, l) PROVE DrawInv'
  <2>1. UNCHANGED <<snapshot, draw>> /\ (batch' = batch \/ (batch = "OPEN" /\ batch' = "FULL"))
    BY <1>3 DEF Enrol, AdminEnrol, NewSubscription
  <2> QED
    BY <2>1, StatusOnlyStep DEF BeforeLock, Coordinated
<1>4. CASE CreateDrawCommit
  BY <1>4, CreateDrawCommitStep
<1>5. ASSUME NEW minimum, LockBatch(minimum) PROVE DrawInv'
  BY <1>5, LockBatchStep
<1>6. CASE CommitBatchDraw
  BY <1>6, CommitBatchDrawStep
<1>7. ASSUME NEW month \in Months, NEW s \in Subs, RevealDraw(month, s) PROVE DrawInv'
  BY <1>7, RevealDrawStep
<1>8. ASSUME NEW s \in Subs, ExecuteBatchDraw(s) PROVE DrawInv'
  BY <1>8, RevealDrawStep, TenureAssumption DEF ExecuteBatchDraw, Months
<1>9. CASE \/ UNCHANGED vars
           \/ \E s \in Subs, l \in Luckies : AdminAssignLucky(s, l)
           \/ \E s \in Subs : AdminRebuildSchedule(s) \/ CloseContract(s) \/ SyncWinnerState(s)
           \/ \E s \in Subs : ReconcileFinancials(s)
           \/ \E s \in Subs, force \in BOOLEAN : CancelSubscription(s, force)
           \/ \E s \in Subs, month \in Months : ExecuteWinner(s, month)
           \/ \E p \in Payments, s \in Subs, m \in Months, amount \in Amounts :
                 RecordPayment(p, s, m, amount)
           \/ \E p \in Payments : ReversePayment(p)
  BY <1>1, <1>9
  DEF vars, batchVars, AdminAssignLucky, AdminRebuildSchedule, CloseContract, SyncWinnerState,
      ReconcileFinancials, CancelSubscription, ExecuteWinner, RecordPayment, ReversePayment
<1> QED
  BY <1>2, <1>3, <1>4, <1>5, <1>6, <1>7, <1>8, <1>9 DEF Next

\* Snapshot, draws and batch status agree at all times.
THEOREM DrawInvariant == Spec => []DrawInv
<1> QED
  BY InitDrawInv, NextDrawInv, PlanInvariant, PTL DEF Spec

\* After the lock the batch status tells which draw exists, and the winner of the coordinated
\* draw was frozen in the snapshot, for any order of the two draw routes and of plain edits.
THEOREM CoordinationCorrect == Spec => []CoordinationIntegrity
<1>1. DrawInv => CoordinationIntegrity
  BY DEF DrawInv
<1> QED
  BY <1>1, DrawInvariant, PTL

\* Until a snapshot is frozen nobody wins two monthly draws of a batch.
THEOREM NobodyWinsTwice == Spec => []LegacyWinnersDiffer
<1>1. DrawInv => LegacyWinnersDiffer
  BY DEF DrawInv
<1> QED
  BY <1>1, DrawInvariant, PTL

\* A commitment is never replaced, a revealed draw never altered, a snapshot never refrozen.
THEOREM DrawsFinal == Spec => DrawsAreFinal
<1> DEFINE kept == /\ \A d \in Months :
                        /\ draw[d].state = "REVEALED" => draw'[d] = draw[d]
                        /\ draw[d].state = "COMMITTED" =>
                             draw'[d].state # "NONE" /\ draw'[d].coordinated = draw[d].coordinated
                   /\ snapshot # {} => snapshot' = snapshot
<1>1. PlanInv /\ DrawInv /\ [Next]_vars => [kept]_vars
  <2> SUFFICES ASSUME PlanInv, DrawInv, Next PROVE kept
    OBVIOUS
  <2>1. CASE UNCHANGED <<snapshot, draw>>
    BY <2>1
  <2>2. CASE CreateDrawCommit
    <3>1. PICK month \in Months : /\ draw[month].state = "NONE" /\ snapshot' = snapshot
                                  /\ draw' = [draw EXCEPT ![month] = [NoDraw EXCEPT !.state = "COMMITTED"]]
      BY <2>2 DEF CreateDrawCommit
    <3> QED
      BY <3>1 DEF PlanInv, TypeOK
  <2>3. CASE CommitBatchDraw
    <3>1. /\ draw[1].state = "NONE" /\ snapshot' = snapshot
          /\ draw' = [draw EXCEPT ![1] = [NoDraw EXCEPT !.state = "COMMITTED", !.coordinated = TRUE]]
      BY <2>3 DEF CommitBatchDraw
    <3> QED
      BY <3>1 DEF PlanInv, TypeOK
  <2>4. ASSUME NEW minimum, LockBatch(minimum) PROVE kept
    BY <2>4 DEF LockBatch, DrawInv, BeforeLock
  <2>5. ASSUME NEW month \in Months, NEW s \in Subs, RevealDraw(month, s) PROVE kept
    <3>1. /\ draw[month].state = "COMMITTED" /\ snapshot' = snapshot
          /\ draw' = [draw EXCEPT ![month] = [draw[month] EXCEPT !.state = "REVEALED", !.winner = s,
                                                                !.lucky = holds[s]]]
      BY <2>5 DEF RevealDraw
    <3> QED
      BY <3>1 DEF PlanInv, TypeOK, DrawRows
  <2>6. ASSUME NEW s \in Subs, ExecuteBatchDraw(s) PROVE kept
    BY <2>5, <2>6, TenureAssumption DEF ExecuteBatchDraw, Months
  <2>7. CASE \/ \E next \in BatchStatuses : TransitionBatch(next)
             \/ \E s \in Subs, l \in Luckies : Enrol(s, l) \/ AdminEnrol(s, l) \/ AdminAssignLucky(s, l)
             \/ \E s \in Subs : AdminRebuildSchedule(s) \/ CloseContract(s) \/ SyncWinnerState(s)
             \/ \E s \in Subs : ReconcileFinancials(s)
             \/ \E s \in Subs, force \in BOOLEAN : CancelSubscription(s, force)
             \/ \E s \in Subs, month \in Months : ExecuteWinner(s, month)
             \/ \E p \in Payments, s \in Subs, m \in Months, amount \in Amounts :
                   RecordPayment(p, s, m, amount)
             \/ \E p \in Payments : ReversePayment(p)
    <3>1. UNCHANGED <<snapshot, draw>>
      BY <2>7
      DEF batchVars, TransitionBatch, Enrol, AdminEnrol, NewSubscription, AdminAssignLucky,
          AdminRebuildSchedule, CloseContract, SyncWinnerState, ReconcileFinancials,
          CancelSubscription, ExecuteWinner, RecordPayment, ReversePayment
    <3> QED
      BY <2>1, <3>1
  <2> QED
    BY <2>2, <2>3, <2>4, <2>5, <2>6, <2>7 DEF Next
<1> QED
  BY <1>1, PlanInvariant, DrawInvariant, PTL DEF Spec, DrawsAreFinal

=============================================================================
