----------------------- MODULE EmiTransactionsProofs -----------------------
(***************************************************************************)
(* Interleaved transactions implement LuckyPlan, for any number of         *)
(* sessions, payments and months. A payment and a reveal hold the          *)
(* subscription row from their first statement, so two of them never       *)
(* overlap; a reversal marks what it overlaps as mixed. A transaction that *)
(* is not mixed is therefore alone, what it has read is still so when it   *)
(* commits, and its commit is the atomic step.                             *)
(*                                                                         *)
(* What no isolation gives is that an EMI is PAID just when its ledger     *)
(* covers it: a reversal reads and writes it without the lock. The second  *)
(* half of the module says what every transaction, mixed or not, may rely  *)
(* on between its statements (Covered), and proves it.                     *)
(***************************************************************************)
EXTENDS EmiTransactions, SumTheorems, TLAPS

Statements == {"IDLE", "EMI", "GUARD", "WRITE", "SUB", "SAVE", "COMMIT"}

TxnRows ==
  [op : Ops \union {"NONE"}, at : Statements, pay : Payments \union {NoPay}, month : Months,
   amount : 1..EmiAmount, status : SubscriptionStatuses, winner : 0..Tenure,
   emi : [Months -> EmiStatuses], locked : SUBSET Months, sub : BOOLEAN, saves : BOOLEAN,
   mixed : BOOLEAN]

Busy(t) == txn[t].op # "NONE"

\* Who may overlap whom.
Serial ==
  /\ status # "NONE"
  /\ \A t \in Txns :
       /\ ~Busy(t) => txn[t] = Idle
       /\ txn[t].status # "NONE"
       /\ txn[t].op \in {"PAY", "REVEAL"} => txn[t].sub
  /\ \A t, u \in Txns : t # u =>
       /\ ~(txn[t].sub /\ txn[u].sub)
       /\ Busy(t) /\ Busy(u) /\ "REVERSE" \in {txn[t].op, txn[u].op} => txn[t].mixed

Alone(t) == Busy(t) /\ ~txn[t].mixed

\* Where no payment is ever reversed, nothing is mixed.
Unmixed == "REVERSE" \notin Ops /\ \A t \in Txns : ~txn[t].mixed

\* What a transaction with the row x will have made of its ledger sum and its EMI.
Net(x) == IF x.op = "PAY" THEN ledger[x.month] + x.amount ELSE ledger[x.month] - x.amount

NewEmi(x) == RefreshedEmi(emi[x.month], Net(x), EmiAmount)

Outcome(x) == [emi EXCEPT ![x.month] = NewEmi(x)]

\* The EMIs as it sees them: Seen, of the row.
Shown(x) == [m \in Months |-> IF m \in x.locked THEN x.emi[m] ELSE emi[m]]

WonNow == winnerMonth # 0 \/ status = "WON" \/ lucky = "WON"

\* What a payment or a reversal knows of the subscription.
SubscriptionLoaded(x) ==
  x.op \in {"PAY", "REVERSE"} =>
    /\ x.winner = winnerMonth
    /\ x.at \notin {"SAVE", "COMMIT"} => x.status = status /\ ~x.saves
    /\ x.at \in {"SAVE", "COMMIT"} =>
         /\ x.status = ResolvedStatus(EmiSet(Outcome(x)), WonNow)
         /\ x.saves <=> x.status # status

\* What its payment checked still holds, and its EMI is written as LuckyPlan has it.
PaymentFaithful(x) ==
  x.op = "PAY" =>
    /\ x.pay \in Payments /\ payment[x.pay].state = "NONE"
    /\ status \notin {"COMPLETED", "CANCELLED"}
    /\ emi[x.month] \notin SettledEmi
    /\ x.amount <= EmiAmount - NetPaid(ledger[x.month])
    /\ x.at = "EMI" => x.locked = {x.month} /\ x.emi = emi
    /\ x.at # "EMI" => Shown(x) = Outcome(x)

ReversalFaithful(x) ==
  x.op = "REVERSE" =>
    /\ x.pay \in Payments /\ payment[x.pay].state = "POSTED"
    /\ x.month = payment[x.pay].month /\ x.amount = payment[x.pay].amount
    /\ x.at \in {"EMI", "GUARD", "WRITE"} => x.locked = {}
    /\ x.at \in {"GUARD", "WRITE"} => x.emi[x.month] = NewEmi(x)
    /\ x.at \in {"SUB", "SAVE", "COMMIT"} => Shown(x) = Outcome(x)

Waived(month) ==
  [m \in Months |-> IF m > month /\ emi[m] = "PENDING" THEN "WAIVED" ELSE emi[m]]

RevealFaithful(x) ==
  x.op = "REVEAL" =>
    /\ draw[x.month] = "COMMITTED" /\ status = "ACTIVE" /\ lucky = "ASSIGNED"
    /\ x.at \in {"EMI", "COMMIT"}
    /\ x.at = "COMMIT" =>
         /\ x.emi = Waived(x.month) /\ x.locked = Months
         /\ x.status = ResolvedStatus(EmiSet(Waived(x.month)), TRUE)
         /\ x.saves /\ x.winner = x.month

Faithful(x) ==
  /\ SubscriptionLoaded(x)
  /\ PaymentFaithful(x)
  /\ ReversalFaithful(x)
  /\ RevealFaithful(x)

FaithfulRow(t) == \E x \in TxnRows : txn[t] = x /\ Faithful(x)

TxnInv == TypeOK /\ Serial /\ \A t \in Txns : Alone(t) => FaithfulRow(t)

-----------------------------------------------------------------------------
(* The rules give values of their types *)

LEMMA RefreshedType ==
  ASSUME NEW e \in EmiStatuses, NEW net \in Int
  PROVE  RefreshedEmi(e, net, EmiAmount) \in EmiStatuses
BY DEF RefreshedEmi, EmiStatuses

LEMMA ResolvedType ==
  ASSUME NEW es, NEW won \in BOOLEAN
  PROVE  ResolvedStatus(es, won) \in SubscriptionStatuses \ {"NONE"}
BY DEF ResolvedStatus, SubscriptionStatuses

LEMMA SavedType ==
  ASSUME NEW s, NEW w
  PROVE  SavedLucky(s, w) \in LuckyStatuses
BY DEF SavedLucky, LuckyStatuses

\* A session with nothing to do.
LEMMA IdleType == /\ Idle \in TxnRows /\ Idle.op = "NONE" /\ ~Idle.sub
                  /\ Idle.status = "ACTIVE" /\ ~Idle.mixed /\ Idle.locked = {} /\ ~Idle.saves
<1>1. 1 \in Months /\ 1 \in 1..EmiAmount /\ 0 \in 0..Tenure
  BY TxnTenure, TxnAmount DEF Months
<1> QED
  BY <1>1 DEF Idle, TxnRows, Statements, SubscriptionStatuses, EmiStatuses

-----------------------------------------------------------------------------
(* The three things a step does to the transactions: begin one, carry it on, end it *)

Marked(row) == [row EXCEPT !.mixed = TRUE]

LEMMA MarkedRow ==
  ASSUME NEW row \in TxnRows
  PROVE  /\ Marked(row) \in TxnRows /\ Marked(row).mixed = TRUE
         /\ Marked(row).op = row.op /\ Marked(row).sub = row.sub
         /\ Marked(row).status = row.status
BY DEF TxnRows, Marked

LEMMA UnmarkedRow ==
  ASSUME NEW row \in TxnRows, row.mixed = FALSE
  PROVE  [row EXCEPT !.mixed = FALSE] = row
BY DEF TxnRows

\* A transaction that begins marks and is marked as mixed; the others stay as they are.
LEMMA BeginsStep ==
  ASSUME TypeOK, Serial, NEW t \in Txns, NEW new \in TxnRows, txn[t] = Idle, Begins(t, new),
         new.mixed = FALSE, new.op # "NONE", new.status # "NONE", new.sub => SubFree(t),
         new.op \in {"PAY", "REVEAL"} => new.sub
  PROVE  /\ TypeOK' /\ Serial'
         /\ \A u \in Txns \ {t} : ~Alone(u)'
         /\ Alone(t)' => txn'[t] = new
         /\ Unmixed => Unmixed'
<1> DEFINE other(u) == IF u \in Mixes(t, new.op) THEN Marked(txn[u]) ELSE txn[u]
<1>1. txn \in [Txns -> TxnRows]
  BY DEF TypeOK, TxnRows, Statements
<1>2. /\ txn' = [u \in Txns |-> IF u = t THEN [new EXCEPT !.mixed = Mixes(t, new.op) # {}]
                                 ELSE other(u)]
      /\ UNCHANGED rows
  BY Zenon DEF Begins, Marked
<1>0. [new EXCEPT !.mixed = Mixes(t, new.op) # {}]
        = IF Mixes(t, new.op) = {} THEN new ELSE Marked(new)
  <2>1. CASE Mixes(t, new.op) = {}
    <3>1. (Mixes(t, new.op) # {}) = FALSE
      BY <2>1
    <3> QED
      BY <2>1, <3>1, UnmarkedRow, Zenon
  <2>2. CASE Mixes(t, new.op) # {}
    <3>1. (Mixes(t, new.op) # {}) = TRUE
      BY <2>2
    <3> QED
      BY <2>2, <3>1, Zenon DEF Marked
  <2> QED
    BY <2>1, <2>2
<1>3. txn'[t] = IF Mixes(t, new.op) = {} THEN new ELSE Marked(new)
  BY <1>2, <1>0, Zenon
<1>4. \A u \in Txns \ {t} : txn'[u] = other(u)
  BY <1>2
<1>5. txn'[t] \in TxnRows
  BY <1>3, MarkedRow
<1>6. \A u \in Txns \ {t} : txn'[u] \in TxnRows
  BY <1>1, <1>4, MarkedRow
<1>7. txn' \in [Txns -> TxnRows]
  BY <1>2, <1>5, <1>6
<1>8. TypeOK'
  BY <1>2, <1>7 DEF TypeOK, rows, TxnRows, Statements
<1>9. /\ txn'[t].op = new.op /\ txn'[t].sub = new.sub /\ txn'[t].status = new.status
      /\ txn'[t].mixed <=> Mixes(t, new.op) # {}
  BY <1>3, MarkedRow
<1>10. \A u \in Txns \ {t} :
         /\ txn'[u].op = txn[u].op /\ txn'[u].sub = txn[u].sub
         /\ txn'[u].status = txn[u].status
         /\ txn'[u].mixed <=> txn[u].mixed \/ u \in Mixes(t, new.op)
         /\ ~Busy(u) => txn'[u] = txn[u]
  <2> TAKE u \in Txns \ {t}
  <2>1. CASE u \in Mixes(t, new.op)
    <3>1. txn'[u] = Marked(txn[u]) /\ txn[u] \in TxnRows
      BY <1>1, <1>4, <2>1
    <3>2. Busy(u)
      BY <2>1 DEF Mixes, Serial, Busy
    <3> QED
      BY <2>1, <3>1, <3>2, MarkedRow, Zenon
  <2>2. CASE u \notin Mixes(t, new.op)
    BY <1>4, <2>2
  <2> QED
    BY <2>1, <2>2
<1>11. \A u \in Txns \ {t} : u \in Mixes(t, new.op) <=> Busy(u) /\ "REVERSE" \in {new.op, txn[u].op}
  BY IdleType DEF Mixes, Busy, Serial
<1>12. Serial'
  <2>1. status' # "NONE"
    BY <1>2 DEF Serial, rows
  <2>2. ASSUME NEW u \in Txns
        PROVE  /\ ~(txn'[u].op # "NONE") => txn'[u] = Idle
               /\ txn'[u].status # "NONE"
               /\ txn'[u].op \in {"PAY", "REVEAL"} => txn'[u].sub
    <3>1. CASE u = t
      BY <1>9, <3>1
    <3>2. CASE u # t
      BY <1>10, <3>2 DEF Serial, Busy
    <3> QED
      BY <3>1, <3>2
  <2>3. ASSUME NEW u \in Txns, NEW v \in Txns, u # v
        PROVE  /\ ~(txn'[u].sub /\ txn'[v].sub)
               /\ txn'[u].op # "NONE" /\ txn'[v].op # "NONE"
                    /\ "REVERSE" \in {txn'[u].op, txn'[v].op} => txn'[u].mixed
    <3>1. CASE u = t
      BY <1>9, <1>10, <1>11, <2>3, <3>1 DEF Serial, Busy, SubFree
    <3>2. CASE v = t
      BY <1>9, <1>10, <1>11, <2>3, <3>2 DEF Serial, Busy, SubFree
    <3>3. CASE u # t /\ v # t
      BY <1>10, <2>3, <3>3 DEF Serial, Busy
    <3> QED
      BY <3>1, <3>2, <3>3
  <2> QED
    BY <2>1, <2>2, <2>3 DEF Serial, Busy
<1>13. \A u \in Txns \ {t} : ~Alone(u)'
  <2> TAKE u \in Txns \ {t}
  <2>1. CASE u \in Mixes(t, new.op)
    BY <1>10, <2>1 DEF Alone
  <2>2. CASE u \notin Mixes(t, new.op) /\ Busy(u)
    <3>1. new.op # "REVERSE" /\ txn[u].op # "REVERSE"
      BY <1>11, <2>2
    <3>2. new.op \in {"PAY", "REVEAL"} /\ txn[u].op \in {"PAY", "REVEAL"}
      BY <1>1, <2>2, <3>1, TxnOps DEF TxnRows, Busy
    <3> QED
      BY <3>2 DEF Serial, SubFree
  <2>3. CASE ~Busy(u)
    BY <1>10, <2>3 DEF Alone, Busy
  <2> QED
    BY <2>1, <2>2, <2>3
<1>14. Alone(t)' => txn'[t] = new
  BY <1>3, <1>9 DEF Alone
<1>15. Unmixed => Unmixed'
  <2> SUFFICES ASSUME Unmixed PROVE Unmixed'
    OBVIOUS
  <2>1. new.op \in Ops /\ \A u \in Txns : txn[u].op \in Ops \union {"NONE"}
    BY <1>1 DEF TxnRows
  <2>2. Mixes(t, new.op) = {}
    BY <2>1 DEF Unmixed, Mixes
  <2> QED
    BY <1>9, <1>10, <2>2 DEF Unmixed
<1> QED
  BY <1>8, <1>12, <1>13, <1>14, <1>15

\* Beside a transaction that runs, another is mixed.
LEMMA OthersMixed ==
  ASSUME TypeOK, Serial, NEW t \in Txns, NEW u \in Txns \ {t}, Busy(t)
  PROVE  ~Alone(u)
<1>1. txn[t].op \in {"PAY", "REVERSE", "REVEAL", "NONE"}
      /\ txn[u].op \in {"PAY", "REVERSE", "REVEAL", "NONE"}
  BY TxnOps DEF TypeOK
<1> QED
  BY <1>1 DEF Serial, Alone, Busy

\* A statement in the middle of a transaction, which may take the subscription row.
LEMMA GoesStep ==
  ASSUME TypeOK, Serial, NEW t \in Txns, NEW new \in TxnRows, Busy(t), Goes(t, new),
         new.op = txn[t].op, new.mixed = txn[t].mixed, new.status # "NONE",
         new.sub = txn[t].sub \/ (new.sub /\ SubFree(t))
  PROVE  /\ TypeOK' /\ Serial'
         /\ \A u \in Txns \ {t} : ~Alone(u)'
         /\ UNCHANGED rows /\ txn'[t] = new /\ (Alone(t)' => Alone(t))
         /\ Unmixed => Unmixed'
<1>1. txn \in [Txns -> TxnRows]
  BY DEF TypeOK, TxnRows, Statements
<1>2. txn' = [txn EXCEPT ![t] = new] /\ UNCHANGED rows
  BY DEF Goes
<1>3. txn'[t] = new /\ \A u \in Txns \ {t} : txn'[u] = txn[u]
  BY <1>1, <1>2
<1>4. txn' \in [Txns -> TxnRows]
  BY <1>1, <1>2
<1>5. TypeOK'
  BY <1>2, <1>4 DEF TypeOK, rows, TxnRows, Statements
<1>6. \A u \in Txns \ {t} : ~Alone(u)'
  BY <1>3, OthersMixed DEF Alone, Busy
<1>7. Alone(t)' => Alone(t)
  BY <1>3 DEF Alone, Busy
<1>8. Serial'
  <2>1. status' # "NONE"
    BY <1>2 DEF Serial, rows
  <2>2. ASSUME NEW u \in Txns
        PROVE  /\ ~(txn'[u].op # "NONE") => txn'[u] = Idle
               /\ txn'[u].status # "NONE"
               /\ txn'[u].op \in {"PAY", "REVEAL"} => txn'[u].sub
    BY <1>3 DEF Serial, Busy
  <2>3. ASSUME NEW u \in Txns, NEW v \in Txns, u # v
        PROVE  /\ ~(txn'[u].sub /\ txn'[v].sub)
               /\ txn'[u].op # "NONE" /\ txn'[v].op # "NONE"
                    /\ "REVERSE" \in {txn'[u].op, txn'[v].op} => txn'[u].mixed
    <3>1. CASE u = t
      BY <1>3, <2>3, <3>1 DEF Serial, Busy, SubFree
    <3>2. CASE v = t
      BY <1>3, <2>3, <3>2 DEF Serial, Busy, SubFree
    <3>3. CASE u # t /\ v # t
      BY <1>3, <2>3, <3>3 DEF Serial, Busy
    <3> QED
      BY <3>1, <3>2, <3>3
  <2> QED
    BY <2>1, <2>2, <2>3 DEF Serial, Busy
<1>9. Unmixed => Unmixed'
  BY <1>3 DEF Unmixed
<1> QED
  BY <1>2, <1>3, <1>5, <1>6, <1>7, <1>8, <1>9

\* A commit or a rollback.
LEMMA EndsStep ==
  ASSUME TypeOK, Serial, NEW t \in Txns, Busy(t), txn' = [txn EXCEPT ![t] = Idle],
         status' # "NONE"
  PROVE  /\ txn' \in [Txns -> TxnRows] /\ Serial'
         /\ \A u \in Txns : ~Alone(u)'
         /\ Unmixed => Unmixed'
<1>1. txn \in [Txns -> TxnRows]
  BY DEF TypeOK, TxnRows, Statements
<1>2. txn'[t] = Idle /\ \A u \in Txns \ {t} : txn'[u] = txn[u]
  BY <1>1
<1>3. txn' \in [Txns -> TxnRows]
  BY <1>1, IdleType
<1>4. \A u \in Txns : ~Alone(u)'
  BY <1>2, IdleType, OthersMixed DEF Alone, Busy
<1>5. ASSUME NEW u \in Txns
      PROVE  /\ ~(txn'[u].op # "NONE") => txn'[u] = Idle
             /\ txn'[u].status # "NONE"
             /\ txn'[u].op \in {"PAY", "REVEAL"} => txn'[u].sub
  BY <1>2, IdleType DEF Serial, Busy
<1>6. ASSUME NEW u \in Txns, NEW v \in Txns, u # v
      PROVE  /\ ~(txn'[u].sub /\ txn'[v].sub)
             /\ txn'[u].op # "NONE" /\ txn'[v].op # "NONE"
                  /\ "REVERSE" \in {txn'[u].op, txn'[v].op} => txn'[u].mixed
  BY <1>2, <1>6, IdleType DEF Serial, Busy
<1>7. Serial'
  BY <1>5, <1>6 DEF Serial, Busy
<1>8. Unmixed => Unmixed'
  BY <1>2, IdleType DEF Unmixed
<1> QED
  BY <1>3, <1>4, <1>7, <1>8

-----------------------------------------------------------------------------
(* Statements before the commit: no row changes, and a transaction that is alone stays *)
(* faithful.                                                                           *)

Quiet(t) == /\ TypeOK' /\ Serial' /\ UNCHANGED rows
            /\ \A u \in Txns : Alone(u)' => FaithfulRow(u)'
            /\ Unmixed => Unmixed'

LEMMA FaithfulRows ==
  ASSUME NEW x, UNCHANGED rows, Faithful(x)
  PROVE  Faithful(x)'
<1>1. /\ status' = status /\ winnerMonth' = winnerMonth /\ lucky' = lucky /\ emi' = emi
      /\ payment' = payment /\ ledger' = ledger /\ draw' = draw
  BY DEF rows
<1>2. NewEmi(x)' = NewEmi(x)
  BY <1>1, Zenon DEF NewEmi, Net
<1>3. Outcome(x)' = Outcome(x) /\ Shown(x)' = Shown(x) /\ Waived(x.month)' = Waived(x.month)
  BY <1>1, <1>2, Zenon DEF Outcome, Shown, Waived
<1>4. WonNow' <=> WonNow
  BY <1>1 DEF WonNow
<1>5. SubscriptionLoaded(x)'
  <2>1. EmiSet(Outcome(x))' = EmiSet(Outcome(x))
    BY <1>3, Zenon DEF EmiSet
  <2>2. ResolvedStatus(EmiSet(Outcome(x)), WonNow)' = ResolvedStatus(EmiSet(Outcome(x)), WonNow)
    BY <1>4, <2>1 DEF ResolvedStatus
  <2> QED
    BY <1>1, <2>2 DEF Faithful, SubscriptionLoaded
<1>6. PaymentFaithful(x)'
  BY <1>1, <1>3 DEF Faithful, PaymentFaithful
<1>7. ReversalFaithful(x)'
  BY <1>1, <1>2, <1>3 DEF Faithful, ReversalFaithful
<1>8. RevealFaithful(x)'
  <2>1. EmiSet(Waived(x.month))' = EmiSet(Waived(x.month))
    BY <1>3, Zenon DEF EmiSet
  <2> QED
    BY <1>1, <1>3, <2>1 DEF Faithful, RevealFaithful
<1> QED
  BY <1>5, <1>6, <1>7, <1>8 DEF Faithful

LEMMA BeginsQuietly ==
  ASSUME TypeOK, Serial, NEW t \in Txns, NEW new \in TxnRows, txn[t] = Idle, Begins(t, new),
         new.mixed = FALSE, new.op # "NONE", new.status # "NONE", new.sub => SubFree(t),
         new.op \in {"PAY", "REVEAL"} => new.sub, Faithful(new)
  PROVE  Quiet(t)
<1>1. UNCHANGED rows
  BY DEF Begins
<1>2. /\ TypeOK' /\ Serial' /\ \A u \in Txns \ {t} : ~Alone(u)'
      /\ Alone(t)' => txn'[t] = new
      /\ Unmixed => Unmixed'
  BY BeginsStep
<1>3. Faithful(new)'
  BY <1>1, FaithfulRows
<1>4. Alone(t)' => FaithfulRow(t)'
  BY <1>2, <1>3 DEF FaithfulRow
<1> QED
  BY <1>1, <1>2, <1>4 DEF Quiet

LEMMA GoesQuietly ==
  ASSUME TypeOK, Serial, NEW t \in Txns, NEW new \in TxnRows, Busy(t), Goes(t, new),
         new.op = txn[t].op, new.mixed = txn[t].mixed, new.status # "NONE",
         new.sub = txn[t].sub \/ (new.sub /\ SubFree(t)), Alone(t) => Faithful(new)
  PROVE  Quiet(t)
<1>1. /\ TypeOK' /\ Serial' /\ \A u \in Txns \ {t} : ~Alone(u)'
      /\ UNCHANGED rows /\ txn'[t] = new /\ (Alone(t)' => Alone(t))
      /\ Unmixed => Unmixed'
  BY GoesStep
<1>2. Alone(t)' => Faithful(new)'
  BY <1>1, FaithfulRows
<1>3. Alone(t)' => FaithfulRow(t)'
  BY <1>1, <1>2 DEF FaithfulRow
<1> QED
  BY <1>1, <1>3 DEF Quiet

LEMMA BeginPaymentStep ==
  ASSUME TxnInv, NEW t \in Txns, NEW p \in Payments, NEW m \in Months,
         NEW amount \in 1..EmiAmount, BeginPayment(t, p, m, amount)
  PROVE  Quiet(t)
<1>1. PICK new : new = [Idle EXCEPT !.op = "PAY", !.at = "EMI", !.pay = p, !.month = m,
                          !.amount = amount, !.status = status, !.winner = winnerMonth,
                          !.emi = emi, !.locked = {m}, !.sub = TRUE]
  OBVIOUS
<1>2. /\ txn[t] = Idle /\ Begins(t, new)
      /\ "PAY" \in Ops /\ payment[p].state = "NONE" /\ SubFree(t)
      /\ status \notin {"NONE", "COMPLETED", "CANCELLED"} /\ emi[m] \notin SettledEmi
      /\ amount <= EmiAmount - NetPaid(ledger[m])
  BY <1>1, Zenon DEF BeginPayment, TxnInv, Serial
<1>3. new \in TxnRows
  BY <1>1, <1>2, IdleType DEF TxnInv, TypeOK, TxnRows, Statements
<1>4. /\ new.op = "PAY" /\ new.at = "EMI" /\ new.pay = p /\ new.month = m
      /\ new.amount = amount /\ new.status = status /\ new.winner = winnerMonth
      /\ new.emi = emi /\ new.locked = {m} /\ new.sub = TRUE
      /\ new.mixed = FALSE /\ new.saves = FALSE
  BY <1>1, IdleType DEF TxnRows
<1>5. Faithful(new)
  BY <1>2, <1>4 DEF Faithful, SubscriptionLoaded, PaymentFaithful, ReversalFaithful,
     RevealFaithful
<1> QED
  BY <1>2, <1>3, <1>4, <1>5, BeginsQuietly DEF TxnInv

LEMMA BeginReversalStep ==
  ASSUME TxnInv, NEW t \in Txns, NEW p \in Payments, BeginReversal(t, p)
  PROVE  Quiet(t)
<1>1. PICK new : new = [Idle EXCEPT !.op = "REVERSE", !.at = "EMI", !.pay = p,
                          !.month = payment[p].month, !.amount = payment[p].amount,
                          !.status = status, !.winner = winnerMonth]
  OBVIOUS
<1>2. /\ txn[t] = Idle /\ Begins(t, new)
      /\ "REVERSE" \in Ops /\ payment[p].state = "POSTED" /\ status # "NONE"
  BY <1>1, Zenon DEF BeginReversal, TxnInv, Serial
<1>3. payment[p].month \in Months /\ payment[p].amount \in 1..EmiAmount
  BY DEF TxnInv, TypeOK
<1>4. new \in TxnRows
  BY <1>1, <1>2, <1>3, IdleType DEF TxnInv, TypeOK, TxnRows, Statements
<1>5. /\ new.op = "REVERSE" /\ new.at = "EMI" /\ new.pay = p
      /\ new.month = payment[p].month /\ new.amount = payment[p].amount
      /\ new.status = status /\ new.winner = winnerMonth
      /\ new.locked = {} /\ new.sub = FALSE /\ new.mixed = FALSE /\ new.saves = FALSE
  BY <1>1, IdleType DEF TxnRows
<1>6. Faithful(new)
  BY <1>2, <1>5 DEF Faithful, SubscriptionLoaded, PaymentFaithful, ReversalFaithful,
     RevealFaithful
<1> QED
  BY <1>2, <1>4, <1>5, <1>6, BeginsQuietly DEF TxnInv

LEMMA BeginRevealStep ==
  ASSUME TxnInv, NEW t \in Txns, NEW month \in Months, BeginReveal(t, month)
  PROVE  Quiet(t)
<1>1. PICK new : new = [Idle EXCEPT !.op = "REVEAL", !.at = "EMI", !.month = month, !.sub = TRUE]
  OBVIOUS
<1>2. /\ txn[t] = Idle /\ Begins(t, new) /\ "REVEAL" \in Ops /\ SubFree(t)
      /\ draw[month] = "COMMITTED" /\ status = "ACTIVE" /\ lucky = "ASSIGNED"
  BY <1>1, Zenon DEF BeginReveal
<1>3. new \in TxnRows
  BY <1>1, <1>2, IdleType DEF TxnRows, Statements
<1>4. /\ new.op = "REVEAL" /\ new.at = "EMI" /\ new.month = month /\ new.sub = TRUE
      /\ new.status = "ACTIVE" /\ new.mixed = FALSE
  BY <1>1, IdleType DEF TxnRows
<1>5. Faithful(new)
  BY <1>2, <1>4 DEF Faithful, SubscriptionLoaded, PaymentFaithful, ReversalFaithful,
     RevealFaithful
<1> QED
  BY <1>2, <1>3, <1>4, <1>5, BeginsQuietly DEF TxnInv

\* The row of a running transaction, and what it knows if nothing runs beside it.
LEMMA RunningRow ==
  ASSUME TxnInv, NEW t \in Txns, Busy(t)
  PROVE  \E row \in TxnRows :
           /\ txn[t] = row /\ row.op \in {"PAY", "REVERSE", "REVEAL"} /\ row.status # "NONE"
           /\ row.op \in {"PAY", "REVEAL"} => row.sub
           /\ Alone(t) => Faithful(row)
<1>1. txn[t] \in TxnRows
  BY DEF TxnInv, TypeOK, TxnRows, Statements
<1>2. txn[t].op \in {"PAY", "REVERSE", "REVEAL"}
  BY <1>1, TxnOps DEF TxnRows, Busy
<1>3. PICK row \in TxnRows : txn[t] = row
  BY <1>1
<1>4. Alone(t) => Faithful(row)
  BY <1>3 DEF TxnInv, FaithfulRow
<1> QED
  BY <1>2, <1>3, <1>4 DEF TxnInv, Serial

LEMMA RefreshPaidEmiStep ==
  ASSUME TxnInv, NEW t \in Txns, RefreshPaidEmi(t)
  PROVE  Quiet(t)
<1>1. Busy(t) /\ txn[t].op = "PAY" /\ txn[t].at = "EMI"
  BY DEF RefreshPaidEmi, Running, Busy
<1>2. PICK row \in TxnRows : /\ txn[t] = row /\ row.status # "NONE" /\ row.sub
                             /\ Alone(t) => Faithful(row)
  BY <1>1, RunningRow
<1>3. PICK e : e = RefreshedEmi(row.emi[row.month], ledger[row.month] + row.amount, EmiAmount)
  OBVIOUS
<1>4. PICK new : new = [row EXCEPT !.emi = [row.emi EXCEPT ![row.month] = e], !.at = "SUB"]
  OBVIOUS
<1>5. Goes(t, new)
  BY <1>2, <1>3, <1>4, Zenon DEF RefreshPaidEmi
<1>6. row.month \in Months /\ row.emi \in [Months -> EmiStatuses]
      /\ ledger[row.month] + row.amount \in Int
  BY TxnAmount DEF TxnInv, TypeOK, TxnRows
<1>7. e \in EmiStatuses
  BY <1>3, <1>6, RefreshedType
<1>8. new \in TxnRows
  BY <1>4, <1>6, <1>7 DEF TxnRows, Statements
<1>9. /\ new.op = row.op /\ new.at = "SUB" /\ new.pay = row.pay /\ new.month = row.month
      /\ new.amount = row.amount /\ new.status = row.status /\ new.winner = row.winner
      /\ new.emi = [row.emi EXCEPT ![row.month] = e] /\ new.locked = row.locked
      /\ new.sub = row.sub /\ new.mixed = row.mixed /\ new.saves = row.saves
  BY <1>4 DEF TxnRows
<1>10. Alone(t) => Faithful(new)
  <2> SUFFICES ASSUME Alone(t) PROVE Faithful(new)
    OBVIOUS
  <2>1. Faithful(row) /\ row.op = "PAY" /\ row.at = "EMI"
    BY <1>1, <1>2
  <2>2. row.locked = {row.month} /\ row.emi = emi
    BY <2>1 DEF Faithful, PaymentFaithful
  <2>3. NewEmi(new) = e
    BY <1>3, <1>9, <2>1, <2>2 DEF NewEmi, Net
  <2>4. Shown(new) = Outcome(new)
    BY <1>6, <1>9, <2>2, <2>3 DEF Shown, Outcome
  <2> QED
    BY <1>9, <2>1, <2>4 DEF Faithful, SubscriptionLoaded, PaymentFaithful, ReversalFaithful,
       RevealFaithful
<1> QED
  BY <1>1, <1>2, <1>5, <1>8, <1>9, <1>10, GoesQuietly DEF TxnInv

LEMMA ReadReversedEmiStep ==
  ASSUME TxnInv, NEW t \in Txns, ReadReversedEmi(t)
  PROVE  Quiet(t)
<1>1. Busy(t) /\ txn[t].op = "REVERSE" /\ txn[t].at = "EMI"
  BY DEF ReadReversedEmi, Running, Busy
<1>2. PICK row \in TxnRows : /\ txn[t] = row /\ row.status # "NONE"
                             /\ Alone(t) => Faithful(row)
  BY <1>1, RunningRow
<1>3. PICK e : e = RefreshedEmi(emi[row.month], ledger[row.month] - row.amount, EmiAmount)
  OBVIOUS
<1>4. PICK at : at = CASE emi[row.month] = "WAIVED" -> "SUB"
                       [] emi[row.month] = "PAID" /\ e # "PAID" -> "WRITE"
                       [] OTHER -> "GUARD"
  OBVIOUS
<1>5. PICK new : new = [row EXCEPT !.emi = [row.emi EXCEPT ![row.month] = e], !.at = at]
  OBVIOUS
<1>6. Goes(t, new)
  BY <1>2, <1>3, <1>4, <1>5, Zenon DEF ReadReversedEmi
<1>7. /\ row.month \in Months /\ row.emi \in [Months -> EmiStatuses]
      /\ emi \in [Months -> EmiStatuses] /\ ledger[row.month] - row.amount \in Int
  BY TxnAmount DEF TxnInv, TypeOK, TxnRows
<1>8. e \in EmiStatuses /\ (emi[row.month] = "WAIVED" => e = "WAIVED")
  BY <1>3, <1>7, RefreshedType DEF RefreshedEmi
<1>9. /\ at \in {"SUB", "WRITE", "GUARD"}
      /\ at = "SUB" <=> emi[row.month] = "WAIVED"
  BY <1>4
<1>10. new \in TxnRows
  BY <1>5, <1>7, <1>8, <1>9 DEF TxnRows, Statements
<1>11. /\ new.op = row.op /\ new.at = at /\ new.pay = row.pay /\ new.month = row.month
       /\ new.amount = row.amount /\ new.status = row.status /\ new.winner = row.winner
       /\ new.emi = [row.emi EXCEPT ![row.month] = e] /\ new.locked = row.locked
       /\ new.sub = row.sub /\ new.mixed = row.mixed /\ new.saves = row.saves
  BY <1>5 DEF TxnRows
<1>12. Alone(t) => Faithful(new)
  <2> SUFFICES ASSUME Alone(t) PROVE Faithful(new)
    OBVIOUS
  <2>1. Faithful(row) /\ row.op = "REVERSE" /\ row.at = "EMI"
    BY <1>1, <1>2
  <2>2. row.locked = {}
    BY <2>1 DEF Faithful, ReversalFaithful
  <2>3. NewEmi(new) = e /\ new.emi[row.month] = e
    BY <1>3, <1>7, <1>11, <2>1 DEF NewEmi, Net
  <2>4. at = "SUB" => Shown(new) = Outcome(new)
    <3>1. new.locked = {} /\ new.month = row.month
      BY <1>11, <2>2
    <3>2. Shown(new) = emi
      BY <1>7, <3>1 DEF Shown
    <3>3. at = "SUB" => e = emi[row.month]
      BY <1>8, <1>9
    <3>4. at = "SUB" => Outcome(new) = emi
      BY <1>7, <2>3, <3>1, <3>3 DEF Outcome
    <3> QED
      BY <3>2, <3>4
  <2> QED
    BY <1>9, <1>11, <2>1, <2>2, <2>3, <2>4 DEF Faithful, SubscriptionLoaded, PaymentFaithful,
       ReversalFaithful, RevealFaithful
<1> QED
  BY <1>1, <1>2, <1>6, <1>10, <1>11, <1>12, GoesQuietly DEF TxnInv

LEMMA PassEmiGuardStep ==
  ASSUME TxnInv, NEW t \in Txns, PassEmiGuard(t)
  PROVE  Quiet(t)
<1>1. Busy(t) /\ txn[t].op = "REVERSE" /\ txn[t].at = "GUARD"
  BY DEF PassEmiGuard, Running, Busy
<1>2. PICK row \in TxnRows : /\ txn[t] = row /\ row.status # "NONE"
                             /\ Alone(t) => Faithful(row)
  BY <1>1, RunningRow
<1>3. PICK new : new = [row EXCEPT !.at = "WRITE"]
  OBVIOUS
<1>4. Goes(t, new)
  BY <1>2, <1>3, Zenon DEF PassEmiGuard
<1>5. new \in TxnRows
  BY <1>3 DEF TxnRows, Statements
<1>6. /\ new.op = row.op /\ new.at = "WRITE" /\ new.pay = row.pay /\ new.month = row.month
      /\ new.amount = row.amount /\ new.status = row.status /\ new.winner = row.winner
      /\ new.emi = row.emi /\ new.locked = row.locked
      /\ new.sub = row.sub /\ new.mixed = row.mixed /\ new.saves = row.saves
  BY <1>3 DEF TxnRows
<1>7. Alone(t) => Faithful(new)
  <2> SUFFICES ASSUME Alone(t) PROVE Faithful(new)
    OBVIOUS
  <2>1. Faithful(row) /\ row.op = "REVERSE" /\ row.at = "GUARD"
    BY <1>1, <1>2
  <2>2. NewEmi(new) = NewEmi(row)
    BY <1>6 DEF NewEmi, Net
  <2> QED
    BY <1>6, <2>1, <2>2 DEF Faithful, SubscriptionLoaded, PaymentFaithful, ReversalFaithful,
       RevealFaithful
<1> QED
  BY <1>1, <1>2, <1>4, <1>5, <1>6, <1>7, GoesQuietly DEF TxnInv

LEMMA WriteReversedEmiStep ==
  ASSUME TxnInv, NEW t \in Txns, WriteReversedEmi(t)
  PROVE  Quiet(t)
<1>1. Busy(t) /\ txn[t].op = "REVERSE" /\ txn[t].at = "WRITE"
  BY DEF WriteReversedEmi, Running, Busy
<1>2. PICK row \in TxnRows : /\ txn[t] = row /\ row.status # "NONE"
                             /\ Alone(t) => Faithful(row)
  BY <1>1, RunningRow
<1>3. PICK new : new = [row EXCEPT !.locked = {row.month}, !.at = "SUB"]
  OBVIOUS
<1>4. Goes(t, new)
  BY <1>2, <1>3, Zenon DEF WriteReversedEmi
<1>5. row.month \in Months /\ emi \in [Months -> EmiStatuses]
  BY DEF TxnInv, TypeOK, TxnRows
<1>6. new \in TxnRows
  BY <1>3, <1>5 DEF TxnRows, Statements
<1>7. /\ new.op = row.op /\ new.at = "SUB" /\ new.pay = row.pay /\ new.month = row.month
      /\ new.amount = row.amount /\ new.status = row.status /\ new.winner = row.winner
      /\ new.emi = row.emi /\ new.locked = {row.month}
      /\ new.sub = row.sub /\ new.mixed = row.mixed /\ new.saves = row.saves
  BY <1>3 DEF TxnRows
<1>8. Alone(t) => Faithful(new)
  <2> SUFFICES ASSUME Alone(t) PROVE Faithful(new)
    OBVIOUS
  <2>1. Faithful(row) /\ row.op = "REVERSE" /\ row.at = "WRITE"
    BY <1>1, <1>2
  <2>2. NewEmi(new) = row.emi[row.month]
    BY <1>7, <2>1 DEF NewEmi, Net, Faithful, ReversalFaithful
  <2>3. Shown(new) = Outcome(new)
    BY <1>5, <1>7, <2>2 DEF Shown, Outcome
  <2> QED
    BY <1>7, <2>1, <2>3 DEF Faithful, SubscriptionLoaded, PaymentFaithful, ReversalFaithful,
       RevealFaithful
<1> QED
  BY <1>1, <1>2, <1>4, <1>6, <1>7, <1>8, GoesQuietly DEF TxnInv

LEMMA RefreshSubscriptionStep ==
  ASSUME TxnInv, NEW t \in Txns, RefreshSubscription(t)
  PROVE  Quiet(t)
<1>1. Busy(t) /\ txn[t].op \in {"PAY", "REVERSE"} /\ txn[t].at = "SUB"
  BY DEF RefreshSubscription, Busy
<1>2. PICK row \in TxnRows : /\ txn[t] = row /\ row.status # "NONE"
                             /\ Alone(t) => Faithful(row)
  BY <1>1, RunningRow
<1>3. PICK s : s = ResolvedStatus(EmiSet(Seen(t)),
                                 row.winner # 0 \/ row.status = "WON" \/ lucky = "WON")
  OBVIOUS
<1>4. s \in SubscriptionStatuses /\ s # "NONE"
  BY <1>3 DEF ResolvedStatus, SubscriptionStatuses
<1>5. PICK saves \in BOOLEAN : saves = (s # row.status)
  OBVIOUS
<1>6. PICK at : at = IF s # row.status THEN "SAVE" ELSE "COMMIT"
  OBVIOUS
<1>7. PICK new : new = [row EXCEPT !.status = s, !.saves = saves, !.at = at]
  OBVIOUS
<1>8. Goes(t, new)
  BY <1>2, <1>3, <1>5, <1>6, <1>7, Zenon DEF RefreshSubscription
<1>9. at \in {"SAVE", "COMMIT"}
  BY <1>6
<1>10. new \in TxnRows
  BY <1>4, <1>7, <1>9 DEF TxnRows, Statements
<1>11. /\ new.op = row.op /\ new.at = at /\ new.pay = row.pay /\ new.month = row.month
       /\ new.amount = row.amount /\ new.status = s /\ new.winner = row.winner
       /\ new.emi = row.emi /\ new.locked = row.locked
       /\ new.sub = row.sub /\ new.mixed = row.mixed /\ (new.saves <=> saves)
  BY <1>7 DEF TxnRows
<1>12. Alone(t) => Faithful(new)
  <2> SUFFICES ASSUME Alone(t) PROVE Faithful(new)
    OBVIOUS
  <2>1. Faithful(row) /\ row.op \in {"PAY", "REVERSE"} /\ row.at = "SUB"
    BY <1>1, <1>2
  <2>2. /\ row.winner = winnerMonth /\ row.status = status
        /\ Shown(row) = Outcome(row)
    BY <2>1 DEF Faithful, SubscriptionLoaded, PaymentFaithful, ReversalFaithful
  <2>3. Shown(new) = Shown(row)
    BY <1>11 DEF Shown
  <2>4. NewEmi(new) = NewEmi(row)
    BY <1>11 DEF NewEmi, Net
  <2>5. Outcome(new) = Outcome(row)
    BY <1>11, <2>4 DEF Outcome
  <2>6. Seen(t) = Outcome(new)
    BY <1>2, <2>2, <2>5, Zenon DEF Seen, Shown
  <2>7. s = ResolvedStatus(EmiSet(Outcome(new)), WonNow)
    BY <1>3, <2>2, <2>6, Zenon DEF WonNow
  <2>8. saves <=> s # status
    BY <1>5, <2>2
  <2> QED
    BY <1>9, <1>11, <2>1, <2>2, <2>3, <2>5, <2>7, <2>8 DEF Faithful, SubscriptionLoaded,
       PaymentFaithful, ReversalFaithful, RevealFaithful
<1> QED
  BY <1>1, <1>2, <1>4, <1>8, <1>10, <1>11, <1>12, GoesQuietly DEF TxnInv

LEMMA SaveSubscriptionStep ==
  ASSUME TxnInv, NEW t \in Txns, SaveSubscription(t)
  PROVE  Quiet(t)
<1>1. Busy(t) /\ txn[t].at = "SAVE" /\ SubFree(t)
  BY IdleType DEF SaveSubscription, Busy, TxnInv, Serial, Idle
<1>2. PICK row \in TxnRows : /\ txn[t] = row /\ row.status # "NONE"
                             /\ row.op \in {"PAY", "REVERSE", "REVEAL"}
                             /\ Alone(t) => Faithful(row)
  BY <1>1, RunningRow
<1>3. PICK new : new = [row EXCEPT !.sub = TRUE, !.at = "COMMIT"]
  OBVIOUS
<1>4. Goes(t, new)
  BY <1>2, <1>3, Zenon DEF SaveSubscription
<1>5. new \in TxnRows
  BY <1>3 DEF TxnRows, Statements
<1>6. /\ new.op = row.op /\ new.at = "COMMIT" /\ new.pay = row.pay /\ new.month = row.month
      /\ new.amount = row.amount /\ new.status = row.status /\ new.winner = row.winner
      /\ new.emi = row.emi /\ new.locked = row.locked
      /\ new.sub = TRUE /\ new.mixed = row.mixed /\ new.saves = row.saves
  BY <1>3 DEF TxnRows
<1>7. Alone(t) => Faithful(new)
  <2> SUFFICES ASSUME Alone(t) PROVE Faithful(new)
    OBVIOUS
  <2>1. Faithful(row) /\ row.at = "SAVE"
    BY <1>1, <1>2
  <2>2. Shown(new) = Shown(row)
    BY <1>6 DEF Shown
  <2>3. NewEmi(new) = NewEmi(row)
    BY <1>6 DEF NewEmi, Net
  <2>4. Outcome(new) = Outcome(row)
    BY <1>6, <2>3 DEF Outcome
  <2>5. row.op \in {"PAY", "REVERSE"}
    BY <1>2, <2>1 DEF Faithful, RevealFaithful
  <2> QED
    BY <1>6, <2>1, <2>2, <2>4, <2>5 DEF Faithful, SubscriptionLoaded, PaymentFaithful,
       ReversalFaithful, RevealFaithful
<1>8. new.sub = row.sub \/ (new.sub /\ SubFree(t))
  BY <1>1, <1>6
<1> QED
  BY <1>1, <1>2, <1>4, <1>5, <1>6, <1>7, <1>8, GoesQuietly DEF TxnInv

LEMMA WaiveFutureEmisStep ==
  ASSUME TxnInv, NEW t \in Txns, WaiveFutureEmis(t)
  PROVE  Quiet(t)
<1>1. Busy(t) /\ txn[t].op = "REVEAL" /\ txn[t].at = "EMI"
  BY DEF WaiveFutureEmis, Running, Busy
<1>2. PICK row \in TxnRows : /\ txn[t] = row /\ row.status # "NONE"
                             /\ Alone(t) => Faithful(row)
  BY <1>1, RunningRow
<1>3. PICK view : view = Waived(row.month)
  OBVIOUS
<1>4. PICK s : s = ResolvedStatus(EmiSet(view), TRUE)
  OBVIOUS
<1>5. PICK new : new = [row EXCEPT !.emi = view, !.locked = Months, !.status = s,
                                   !.saves = TRUE, !.winner = row.month, !.at = "COMMIT"]
  OBVIOUS
<1>6. Goes(t, new)
  BY <1>2, <1>3, <1>4, <1>5, Zenon DEF WaiveFutureEmis, Waived
<1>7. s \in SubscriptionStatuses /\ s # "NONE"
  BY <1>4, ResolvedType
<1>8. view \in [Months -> EmiStatuses] /\ row.month \in 0..Tenure
  BY <1>3 DEF TxnInv, TypeOK, TxnRows, Waived, EmiStatuses, Months
<1>9. new \in TxnRows
  BY <1>5, <1>7, <1>8 DEF TxnRows, Statements
<1>10. /\ new.op = row.op /\ new.at = "COMMIT" /\ new.month = row.month /\ new.status = s
       /\ new.winner = row.month /\ new.emi = view /\ new.locked = Months
       /\ new.sub = row.sub /\ new.mixed = row.mixed /\ new.saves
  BY <1>5 DEF TxnRows
<1>11. Alone(t) => Faithful(new)
  BY <1>1, <1>2, <1>3, <1>4, <1>10 DEF Faithful, SubscriptionLoaded, PaymentFaithful,
     ReversalFaithful, RevealFaithful
<1> QED
  BY <1>1, <1>2, <1>6, <1>7, <1>9, <1>10, <1>11, GoesQuietly DEF TxnInv

-----------------------------------------------------------------------------
(* Ends: afterwards nobody is alone, so nobody has anything to be faithful to *)

LEMMA PublishType ==
  ASSUME TxnInv, NEW t \in Txns, PublishSubscription(t)
  PROVE  status' \in SubscriptionStatuses \ {"NONE"} /\ lucky' \in LuckyStatuses
BY SavedType DEF PublishSubscription, TxnInv, TypeOK, Serial

LEMMA EndInv ==
  ASSUME TxnInv, NEW t \in Txns, Busy(t), txn' = [txn EXCEPT ![t] = Idle],
         status' \in SubscriptionStatuses \ {"NONE"}, lucky' \in LuckyStatuses,
         winnerMonth' \in 0..Tenure, emi' \in [Months -> EmiStatuses],
         payment' \in [Payments -> [state : {"NONE", "POSTED", "REVERSED"}, month : Months,
                                    amount : 1..EmiAmount]],
         ledger' \in [Months -> Int], waiver' \in [Months -> Nat],
         draw' \in [Months -> {"COMMITTED", "REVEALED"}]
  PROVE  TxnInv' /\ (Unmixed => Unmixed')
<1>1. /\ txn' \in [Txns -> TxnRows] /\ Serial' /\ \A u \in Txns : ~Alone(u)'
      /\ Unmixed => Unmixed'
  BY EndsStep DEF TxnInv
<1>2. TypeOK'
  BY <1>1 DEF TypeOK, TxnRows, Statements
<1> QED
  BY <1>1, <1>2 DEF TxnInv

LEMMA SeenType ==
  ASSUME TxnInv, NEW t \in Txns
  PROVE  Seen(t) \in [Months -> EmiStatuses]
<1>1. txn[t].emi \in [Months -> EmiStatuses] /\ emi \in [Months -> EmiStatuses]
  BY DEF TxnInv, TypeOK
<1> QED
  BY <1>1 DEF Seen

LEMMA CommitPaymentInv ==
  ASSUME TxnInv, NEW t \in Txns, CommitPayment(t)
  PROVE  TxnInv' /\ txn'[t] = Idle /\ (Unmixed => Unmixed')
<1>1. Busy(t) /\ txn \in [Txns -> TxnRows]
  BY DEF CommitPayment, Running, Busy, TxnInv, TypeOK, TxnRows, Statements
<1>2. /\ txn[t].month \in Months /\ txn[t].amount \in 1..EmiAmount
      /\ ledger \in [Months -> Int]
  BY DEF TxnInv, TypeOK
<1>3. [state |-> "POSTED", month |-> txn[t].month, amount |-> txn[t].amount]
        \in [state : {"NONE", "POSTED", "REVERSED"}, month : Months, amount : 1..EmiAmount]
  BY <1>2
<1>4. payment' \in [Payments -> [state : {"NONE", "POSTED", "REVERSED"}, month : Months,
                                 amount : 1..EmiAmount]]
  BY <1>3 DEF CommitPayment, TxnInv, TypeOK
<1>5. ledger' \in [Months -> Int]
  BY <1>2, TxnAmount DEF CommitPayment
<1>6. emi' \in [Months -> EmiStatuses]
  BY SeenType DEF CommitPayment
<1>7. /\ winnerMonth' \in 0..Tenure /\ waiver' \in [Months -> Nat]
      /\ draw' \in [Months -> {"COMMITTED", "REVEALED"}]
  BY DEF CommitPayment, TxnInv, TypeOK
<1>8. txn' = [txn EXCEPT ![t] = Idle] /\ PublishSubscription(t)
  BY DEF CommitPayment
<1> QED
  BY <1>1, <1>4, <1>5, <1>6, <1>7, <1>8, PublishType, EndInv

LEMMA CommitReversalInv ==
  ASSUME TxnInv, NEW t \in Txns, CommitReversal(t)
  PROVE  TxnInv' /\ txn'[t] = Idle /\ (Unmixed => Unmixed')
<1>1. Busy(t) /\ txn \in [Txns -> TxnRows]
  BY DEF CommitReversal, Running, Busy, TxnInv, TypeOK, TxnRows, Statements
<1>2. /\ txn[t].month \in Months /\ txn[t].amount \in 1..EmiAmount
      /\ ledger \in [Months -> Int]
  BY DEF TxnInv, TypeOK
<1>3. payment' \in [Payments -> [state : {"NONE", "POSTED", "REVERSED"}, month : Months,
                                 amount : 1..EmiAmount]]
  <2> DEFINE Rows == [state : {"NONE", "POSTED", "REVERSED"}, month : Months,
                      amount : 1..EmiAmount]
  <2>1. payment \in [Payments -> Rows]
    BY DEF TxnInv, TypeOK
  <2>2. payment' = [payment EXCEPT ![txn[t].pay] = [payment[txn[t].pay] EXCEPT !.state = "REVERSED"]]
    BY DEF CommitReversal
  <2>3. ASSUME NEW row \in Rows PROVE [row EXCEPT !.state = "REVERSED"] \in Rows
    OBVIOUS
  <2> HIDE DEF Rows
  <2>4. payment' \in [Payments -> Rows]
    BY <2>1, <2>2, <2>3
  <2> QED
    BY <2>4 DEF Rows
<1>4. ledger' \in [Months -> Int]
  BY <1>2, TxnAmount DEF CommitReversal
<1>5. emi' \in [Months -> EmiStatuses]
  BY SeenType DEF CommitReversal
<1>6. /\ winnerMonth' \in 0..Tenure /\ waiver' \in [Months -> Nat]
      /\ draw' \in [Months -> {"COMMITTED", "REVEALED"}]
  BY DEF CommitReversal, TxnInv, TypeOK
<1>7. txn' = [txn EXCEPT ![t] = Idle] /\ PublishSubscription(t)
  BY DEF CommitReversal
<1> QED
  BY <1>1, <1>3, <1>4, <1>5, <1>6, <1>7, PublishType, EndInv

LEMMA CommitRevealInv ==
  ASSUME TxnInv, NEW t \in Txns, CommitReveal(t)
  PROVE  TxnInv' /\ txn'[t] = Idle /\ (Unmixed => Unmixed')
<1>1. Busy(t) /\ txn \in [Txns -> TxnRows]
  BY DEF CommitReveal, Running, Busy, TxnInv, TypeOK, TxnRows, Statements
<1>2. waiver' \in [Months -> Nat]
  BY TxnAmount DEF CommitReveal, TxnInv, TypeOK
<1>3. emi' \in [Months -> EmiStatuses]
  BY SeenType DEF CommitReveal
<1>4. winnerMonth' \in 0..Tenure
  BY DEF CommitReveal, TxnInv, TypeOK
<1>5. /\ payment' = payment /\ ledger' = ledger
      /\ draw' \in [Months -> {"COMMITTED", "REVEALED"}]
  BY DEF CommitReveal, TxnInv, TypeOK
<1>6. txn' = [txn EXCEPT ![t] = Idle] /\ PublishSubscription(t)
  BY DEF CommitReveal
<1> QED
  BY <1>1, <1>2, <1>3, <1>4, <1>5, <1>6, PublishType, EndInv DEF TxnInv, TypeOK

LEMMA RollbackInv ==
  ASSUME TxnInv, NEW t \in Txns, Rollback(t)
  PROVE  TxnInv' /\ UNCHANGED rows /\ (Unmixed => Unmixed')
<1>1. /\ Busy(t) /\ txn' = [txn EXCEPT ![t] = Idle] /\ UNCHANGED rows
  BY DEF Rollback, Goes, TxnInv, Serial
<1> QED
  BY <1>1, EndInv DEF TxnInv, TypeOK, Serial, rows

-----------------------------------------------------------------------------
(* The commit of a transaction that is alone is a step of LuckyPlan *)

\* The instance has its own copy of PlanRules.
LEMMA SameRules ==
  ASSUME NEW a, NEW b, NEW c
  PROVE  /\ Plan!RefreshedEmi(a, b, c) = RefreshedEmi(a, b, c)
         /\ Plan!SavedLucky(a, b) = SavedLucky(a, b)
         /\ Plan!NetPaid(a) = NetPaid(a) /\ Plan!SettledEmi = SettledEmi
         /\ Plan!EmiSet(a) = EmiSet(a) /\ Plan!Months = Months
BY DEF Plan!RefreshedEmi, RefreshedEmi, Plan!SavedLucky, SavedLucky, Plan!NetPaid, NetPaid,
       Plan!SettledEmi, SettledEmi, Plan!EmiSet, EmiSet, Plan!Months, Months

LEMMA SameStatus ==
  ASSUME NEW es, NEW won \in BOOLEAN
  PROVE  Plan!ResolvedStatus(es, won) = ResolvedStatus(es, won)
BY DEF Plan!ResolvedStatus, ResolvedStatus, Plan!SettledEmi, SettledEmi

\* A column of a table with one row.
LEMMA OneRow ==
  ASSUME NEW old, NEW new
  PROVE  /\ [s \in {Sub} |-> old][Sub] = old
         /\ [[s \in {Sub} |-> old] EXCEPT ![Sub] = new] = [s \in {Sub} |-> new]
OBVIOUS

LEMMA SameWinner == Plan!Winner(Sub) <=> WonNow
BY TxnNulls DEF Plan!Winner, Plan!Linked, WonNow

\* What payments and reversals have in common with LuckyPlan: rows follow the ledger.
LEMMA FollowsLedger ==
  ASSUME TxnInv, NEW m \in Months, NEW net \in Int, NEW e, NEW s,
         e = [emi EXCEPT ![m] = RefreshedEmi(emi[m], net, EmiAmount)],
         s = ResolvedStatus(EmiSet(e), WonNow),
         emi' = e, ledger' = [ledger EXCEPT ![m] = net],
         status' = s, lucky' = IF s = status THEN lucky ELSE SavedLucky(s, winnerMonth)
  PROVE  Plan!Reconcile(Sub, m, net)
<1>1. PICK won \in BOOLEAN : won = WonNow
  BY DEF WonNow
<1>2. Plan!ResolvedStatus(Plan!EmiSet(e), Plan!Winner(Sub)) = s
  <2>1. Plan!Winner(Sub) = WonNow
    BY SameWinner, <1>1 DEF Plan!Winner, WonNow
  <2> QED
    BY <1>1, <2>1, SameRules, SameStatus, Zenon
<1>3. Plan!SaveStatus(Sub, s)
  BY TxnNulls, SameRules DEF Plan!SaveStatus, Plan!Linked
<1>4. [[x \in {Sub} |-> emi][Sub] EXCEPT ![m] = Plan!RefreshedEmi([x \in {Sub} |-> emi][Sub][m], net, EmiAmount)] = e
  BY OneRow, SameRules, Zenon
<1> QED
  BY <1>2, <1>3, <1>4, OneRow, Zenon DEF Plan!Reconcile

\* What a payment or a reversal that is alone publishes: its EMI and its subscription
\* follow the ledger.
LEMMA PublishesOutcome ==
  ASSUME TxnInv, NEW t \in Txns, NEW row \in TxnRows, txn[t] = row, Faithful(row),
         row.op \in {"PAY", "REVERSE"}, row.at = "COMMIT",
         emi' = Seen(t), PublishSubscription(t), ledger' = [ledger EXCEPT ![row.month] = Net(row)]
  PROVE  Plan!Reconcile(Sub, row.month, Net(row))
<1>1. /\ row.winner = winnerMonth
      /\ row.status = ResolvedStatus(EmiSet(Outcome(row)), WonNow)
      /\ row.saves <=> row.status # status
      /\ Shown(row) = Outcome(row)
  BY DEF Faithful, SubscriptionLoaded, PaymentFaithful, ReversalFaithful
<1>2. Seen(t) = Outcome(row)
  BY <1>1, Zenon DEF Seen, Shown
<1>3. status' = row.status
      /\ lucky' = IF row.status = status THEN lucky ELSE SavedLucky(row.status, winnerMonth)
  BY <1>1 DEF PublishSubscription
<1>4. PICK m \in Months : m = row.month
  BY DEF TxnRows
<1>5. PICK net \in Int : net = Net(row)
  <2>1. row.amount \in 1..EmiAmount /\ row.month \in Months
    BY DEF TxnRows
  <2>2. ledger[row.month] \in Int
    BY <2>1 DEF TxnInv, TypeOK
  <2> QED
    BY <2>1, <2>2, TxnAmount DEF Net
<1>6. Outcome(row) = [emi EXCEPT ![m] = RefreshedEmi(emi[m], net, EmiAmount)]
  BY <1>4, <1>5, Zenon DEF Outcome, NewEmi
<1>7. Plan!Reconcile(Sub, m, net)
  BY <1>1, <1>2, <1>3, <1>4, <1>5, <1>6, FollowsLedger, Zenon
<1> QED
  BY <1>4, <1>5, <1>7, Zenon

\* A payment that is alone commits as record_emi_payment of LuckyPlan.
LEMMA PaymentIsAtomic ==
  ASSUME TxnInv, NEW t \in Txns, CommitPayment(t), Alone(t)
  PROVE  \E p \in Payments, m \in Months, amount \in 1..EmiAmount :
           Plan!RecordPayment(p, Sub, m, amount)
<1>1. Busy(t) /\ txn[t].op = "PAY" /\ txn[t].at = "COMMIT"
  BY DEF CommitPayment, Running, Busy
<1>2. PICK row \in TxnRows : txn[t] = row /\ row.status # "NONE" /\ Faithful(row)
  BY <1>1, RunningRow
<1>3. /\ row.pay \in Payments /\ payment[row.pay].state = "NONE"
      /\ status \notin {"COMPLETED", "CANCELLED"}
      /\ emi[row.month] \notin SettledEmi
      /\ row.amount <= EmiAmount - NetPaid(ledger[row.month])
  BY <1>1, <1>2 DEF Faithful, PaymentFaithful
<1>4. status # "NONE"
  BY DEF TxnInv, Serial
<1>5. /\ payment' = [payment EXCEPT ![row.pay] =
                       [state |-> "POSTED", month |-> row.month, amount |-> row.amount]]
      /\ ledger' = [ledger EXCEPT ![row.month] = @ + row.amount]
      /\ emi' = Seen(t) /\ PublishSubscription(t)
      /\ winnerMonth' = winnerMonth /\ waiver' = waiver /\ draw' = draw
  BY <1>2, Zenon DEF CommitPayment
<1>6. Net(row) = ledger[row.month] + row.amount
  BY <1>1, <1>2 DEF Net
<1>7. Plan!Reconcile(Sub, row.month, Net(row))
  BY <1>1, <1>2, <1>5, <1>6, PublishesOutcome
<1>8. [p \in Payments |->
         [state |-> payment'[p].state, month |-> payment'[p].month,
          amount |-> payment'[p].amount,
          sub |-> IF payment'[p].state = "NONE" THEN NoSub ELSE Sub]]
      = [[p \in Payments |->
           [state |-> payment[p].state, month |-> payment[p].month,
            amount |-> payment[p].amount,
            sub |-> IF payment[p].state = "NONE" THEN NoSub ELSE Sub]]
          EXCEPT ![row.pay] = [state |-> "POSTED", sub |-> Sub, month |-> row.month,
                               amount |-> row.amount]]
  BY <1>3, <1>5 DEF TxnInv, TypeOK
<1>9. Plan!RecordPayment(row.pay, Sub, row.month, row.amount)
  BY <1>3, <1>4, <1>5, <1>6, <1>7, <1>8, OneRow, SameRules DEF Plan!RecordPayment, Plan!batchVars
<1>10. row.month \in Months /\ row.amount \in 1..EmiAmount
  BY DEF TxnRows
<1> QED
  BY <1>3, <1>9, <1>10, Zenon

\* A reversal that is alone commits as reverse_payment_for_admin of LuckyPlan.
LEMMA ReversalIsAtomic ==
  ASSUME TxnInv, NEW t \in Txns, CommitReversal(t), Alone(t)
  PROVE  \E p \in Payments : Plan!ReversePayment(p)
<1>1. Busy(t) /\ txn[t].op = "REVERSE" /\ txn[t].at = "COMMIT"
  BY DEF CommitReversal, Running, Busy
<1>2. PICK row \in TxnRows : txn[t] = row /\ row.status # "NONE" /\ Faithful(row)
  BY <1>1, RunningRow
<1>3. /\ row.pay \in Payments /\ payment[row.pay].state = "POSTED"
      /\ row.month = payment[row.pay].month /\ row.amount = payment[row.pay].amount
  BY <1>1, <1>2 DEF Faithful, ReversalFaithful
<1>4. /\ payment' = [payment EXCEPT ![row.pay].state = "REVERSED"]
      /\ ledger' = [ledger EXCEPT ![row.month] = @ - row.amount]
      /\ emi' = Seen(t) /\ PublishSubscription(t)
      /\ winnerMonth' = winnerMonth /\ waiver' = waiver /\ draw' = draw
  BY <1>2, Zenon DEF CommitReversal
<1>5. Net(row) = ledger[row.month] - row.amount
  BY <1>1, <1>2 DEF Net
<1>6. Plan!Reconcile(Sub, row.month, Net(row))
  BY <1>1, <1>2, <1>4, <1>5, PublishesOutcome
<1>7. PICK old : old = [p \in Payments |->
           [state |-> payment[p].state, month |-> payment[p].month,
            amount |-> payment[p].amount,
            sub |-> IF payment[p].state = "NONE" THEN NoSub ELSE Sub]]
  OBVIOUS
<1>8. old[row.pay] = [state |-> "POSTED", month |-> row.month, amount |-> row.amount,
                      sub |-> Sub]
  BY <1>3, <1>7
<1>9. [p \in Payments |->
         [state |-> payment'[p].state, month |-> payment'[p].month,
          amount |-> payment'[p].amount,
          sub |-> IF payment'[p].state = "NONE" THEN NoSub ELSE Sub]]
      = [old EXCEPT ![row.pay] = [old[row.pay] EXCEPT !.state = "REVERSED"]]
  <2>1. [old[row.pay] EXCEPT !.state = "REVERSED"]
          = [state |-> "REVERSED", month |-> row.month, amount |-> row.amount, sub |-> Sub]
    BY <1>8
  <2>2. payment'[row.pay].state = "REVERSED" /\ payment'[row.pay].month = row.month
        /\ payment'[row.pay].amount = row.amount
    BY <1>3, <1>4 DEF TxnInv, TypeOK
  <2>3. \A p \in Payments \ {row.pay} : payment'[p] = payment[p]
    BY <1>3, <1>4 DEF TxnInv, TypeOK
  <2> QED
    BY <1>3, <1>7, <2>1, <2>2, <2>3
<1>10. Plan!ReversePayment(row.pay)
  BY <1>3, <1>4, <1>5, <1>6, <1>7, <1>8, <1>9, OneRow DEF Plan!ReversePayment, Plan!batchVars
<1> QED
  BY <1>3, <1>10, Zenon

\* apply_winner_state on rows of one subscription is that of LuckyPlan.
LEMMA WaivesTheFuture ==
  ASSUME TxnInv, NEW month \in Months,
         emi' = Waived(month), winnerMonth' = month, lucky' = "WON",
         status' = ResolvedStatus(EmiSet(Waived(month)), TRUE),
         waiver' = [m \in Months |-> waiver[m] +
                      (IF Waived(month)[m] = "WAIVED" /\ emi[m] # "WAIVED" THEN EmiAmount ELSE 0)]
  PROVE  Plan!ApplyWinner(Sub, month)
<1>1. PICK future : future = {m \in Months : m > month /\ emi[m] = "PENDING"}
  OBVIOUS
<1>2. Plan!FuturePending(Sub, month) = future
  BY <1>1, OneRow, SameRules DEF Plan!FuturePending
<1>3. Waived(month) = [m \in Months |-> IF m \in future THEN "WAIVED" ELSE emi[m]]
  BY <1>1 DEF Waived
<1>4. waiver' = [m \in Months |-> waiver[m] + (IF m \in future THEN EmiAmount ELSE 0)]
  BY <1>1, <1>3
<1>5. Plan!ResolvedStatus(Plan!EmiSet(Waived(month)), TRUE) = status'
  BY SameRules, SameStatus
<1>6. Plan!Linked(Sub)
  BY TxnNulls DEF Plan!Linked
<1>7. [[l \in {LuckyId} |-> lucky] EXCEPT ![[s \in {Sub} |-> LuckyId][Sub]] = "WON"]
        = [l \in {LuckyId} |-> lucky']
  OBVIOUS
<1>8. [m \in Plan!Months |->
         IF m \in Plan!FuturePending(Sub, month) THEN "WAIVED" ELSE [s \in {Sub} |-> emi][Sub][m]]
        = emi'
  BY <1>2, <1>3, OneRow, SameRules
<1>9. [m \in Plan!Months |-> [s \in {Sub} |-> waiver][Sub][m] +
         (IF m \in Plan!FuturePending(Sub, month) THEN EmiAmount ELSE 0)]
        = waiver'
  BY <1>2, <1>4, OneRow, SameRules
<1>10. [[s \in {Sub} |-> emi] EXCEPT ![Sub] =
          [m \in Plan!Months |->
            IF m \in Plan!FuturePending(Sub, month) THEN "WAIVED" ELSE [s \in {Sub} |-> emi][Sub][m]]]
        = [s \in {Sub} |-> emi']
  BY <1>8, OneRow, Zenon
<1>11. [[s \in {Sub} |-> waiver] EXCEPT ![Sub] =
          [m \in Plan!Months |-> [s \in {Sub} |-> waiver][Sub][m] +
            (IF m \in Plan!FuturePending(Sub, month) THEN EmiAmount ELSE 0)]]
        = [s \in {Sub} |-> waiver']
  BY <1>9, OneRow, Zenon
<1>12. [[s \in {Sub} |-> status] EXCEPT ![Sub] =
          Plan!ResolvedStatus(Plan!EmiSet(
            [m \in Plan!Months |->
              IF m \in Plan!FuturePending(Sub, month) THEN "WAIVED" ELSE [s \in {Sub} |-> emi][Sub][m]]),
            TRUE)]
        = [s \in {Sub} |-> status']
  <2>1. Plan!ResolvedStatus(Plan!EmiSet(emi'), TRUE) = status'
    BY <1>5, Zenon
  <2> QED
    BY <1>8, <2>1, OneRow, Zenon
<1>13. [[s \in {Sub} |-> winnerMonth] EXCEPT ![Sub] = month] = [s \in {Sub} |-> winnerMonth']
  BY OneRow
<1> QED
  BY <1>6, <1>7, <1>10, <1>11, <1>12, <1>13, Zenon DEF Plan!ApplyWinner

\* Revealing a draw row.
LEMMA RevealedRow ==
  ASSUME NEW row \in [state : {"COMMITTED", "REVEALED"}, coordinated : {FALSE},
                      winner : {NoSub, Sub}, lucky : {NoLucky, LuckyId}]
  PROVE  [row EXCEPT !.state = "REVEALED", !.winner = Sub, !.lucky = LuckyId]
           = [state |-> "REVEALED", coordinated |-> FALSE, winner |-> Sub, lucky |-> LuckyId]
<1>1. PICK new : new = [row EXCEPT !.state = "REVEALED", !.winner = Sub, !.lucky = LuckyId]
  OBVIOUS
<1>2. new \in [state : {"COMMITTED", "REVEALED"}, coordinated : {FALSE},
               winner : {NoSub, Sub}, lucky : {NoLucky, LuckyId}]
  BY <1>1
<1>3. /\ new.state = "REVEALED" /\ new.winner = Sub /\ new.lucky = LuckyId
      /\ new.coordinated = FALSE
  BY <1>1
<1>4. new = [state |-> new.state, coordinated |-> new.coordinated, winner |-> new.winner,
             lucky |-> new.lucky]
  BY <1>2
<1> QED
  BY <1>1, <1>3, <1>4, Zenon

\* A reveal that is alone commits as reveal_and_execute_draw of LuckyPlan.
LEMMA RevealIsAtomic ==
  ASSUME TxnInv, NEW t \in Txns, CommitReveal(t), Alone(t)
  PROVE  \E month \in Months : Plan!RevealDraw(month, Sub)
<1>1. Busy(t) /\ txn[t].op = "REVEAL" /\ txn[t].at = "COMMIT"
  BY DEF CommitReveal, Running, Busy
<1>2. PICK row \in TxnRows : txn[t] = row /\ row.status # "NONE" /\ Faithful(row)
  BY <1>1, RunningRow
<1>3. PICK month \in Months : month = row.month
  BY DEF TxnRows
<1>4. /\ draw[month] = "COMMITTED" /\ status = "ACTIVE" /\ lucky = "ASSIGNED"
      /\ row.emi = Waived(month) /\ row.locked = Months
      /\ row.status = ResolvedStatus(EmiSet(Waived(month)), TRUE)
      /\ row.saves /\ row.winner = month
  BY <1>1, <1>2, <1>3, Zenon DEF Faithful, RevealFaithful
<1>5. Seen(t) = Waived(month)
  BY <1>2, <1>4 DEF Seen, Waived
<1>6. /\ draw' = [draw EXCEPT ![month] = "REVEALED"]
      /\ emi' = Waived(month)
      /\ waiver' = [m \in Months |-> waiver[m] +
                      (IF Waived(month)[m] = "WAIVED" /\ emi[m] # "WAIVED" THEN EmiAmount ELSE 0)]
      /\ winnerMonth' = month /\ PublishSubscription(t)
      /\ payment' = payment /\ ledger' = ledger
  BY <1>2, <1>3, <1>4, <1>5, Zenon DEF CommitReveal
<1>7. SavedLucky(row.status, month) = "WON"
  BY DEF SavedLucky, Months
<1>8. status' = ResolvedStatus(EmiSet(Waived(month)), TRUE) /\ lucky' = "WON"
  BY <1>2, <1>4, <1>6, <1>7 DEF PublishSubscription
<1>9. Plan!ApplyWinner(Sub, month)
  BY <1>6, <1>8, WaivesTheFuture
<1>10. Sub \in Plan!Eligible
  BY <1>4, TxnNulls DEF Plan!Eligible, Plan!LiveEligible, Plan!Linked
<1>11. PICK old : old = [m \in Months |->
         [state |-> draw[m], coordinated |-> FALSE,
          winner |-> IF draw[m] = "REVEALED" THEN Sub ELSE NoSub,
          lucky |-> IF draw[m] = "REVEALED" THEN LuckyId ELSE NoLucky]]
  OBVIOUS
<1>12. old[month] = [state |-> "COMMITTED", coordinated |-> FALSE, winner |-> NoSub,
                     lucky |-> NoLucky]
  BY <1>4, <1>11
<1>13. [m \in Months |->
         [state |-> draw'[m], coordinated |-> FALSE,
          winner |-> IF draw'[m] = "REVEALED" THEN Sub ELSE NoSub,
          lucky |-> IF draw'[m] = "REVEALED" THEN LuckyId ELSE NoLucky]]
       = [old EXCEPT ![month] = [@ EXCEPT !.state = "REVEALED", !.winner = Sub,
                                          !.lucky = [s \in {Sub} |-> LuckyId][Sub]]]
  <2>1. [old[month] EXCEPT !.state = "REVEALED", !.winner = Sub,
                           !.lucky = [s \in {Sub} |-> LuckyId][Sub]]
          = [state |-> "REVEALED", coordinated |-> FALSE, winner |-> Sub, lucky |-> LuckyId]
    <3>1. PICK d \in [state : {"COMMITTED", "REVEALED"}, coordinated : {FALSE},
                      winner : {NoSub, Sub}, lucky : {NoLucky, LuckyId}] : d = old[month]
      BY <1>12
    <3>2. [s \in {Sub} |-> LuckyId][Sub] = LuckyId
      OBVIOUS
    <3> QED
      BY <3>1, <3>2, RevealedRow, Zenon
  <2>2. draw'[month] = "REVEALED" /\ \A m \in Months \ {month} : draw'[m] = draw[m]
    BY <1>6 DEF TxnInv, TypeOK
  <2> QED
    BY <1>11, <2>1, <2>2
<1>14. Plan!RevealDraw(month, Sub)
  BY <1>4, <1>6, <1>9, <1>10, <1>11, <1>12, <1>13, OneRow DEF Plan!RevealDraw
<1> QED
  BY <1>14, Zenon

-----------------------------------------------------------------------------
(* The specification *)

LEMMA QuietInv ==
  ASSUME NEW t \in Txns, Quiet(t)
  PROVE  TxnInv' /\ UNCHANGED rows /\ (Unmixed => Unmixed')
BY DEF Quiet, TxnInv

LEMMA InitInv == Init => TxnInv /\ ("REVERSE" \notin Ops => Unmixed)
<1> SUFFICES ASSUME Init PROVE TxnInv /\ ("REVERSE" \notin Ops => Unmixed)
  OBVIOUS
<1>1. \A t \in Txns : txn[t] = Idle
  BY DEF Init
<1>2. 1 \in Months /\ 1 \in 1..EmiAmount
  BY TxnTenure, TxnAmount DEF Months
<1>3. payment \in [Payments -> [state : {"NONE", "POSTED", "REVERSED"}, month : Months,
                                amount : 1..EmiAmount]]
  BY <1>2 DEF Init, NoPayment
<1>4. /\ status \in SubscriptionStatuses /\ winnerMonth \in 0..Tenure /\ lucky \in LuckyStatuses
      /\ emi \in [Months -> EmiStatuses] /\ ledger \in [Months -> Int]
      /\ waiver \in [Months -> Nat] /\ draw \in [Months -> {"COMMITTED", "REVEALED"}]
  BY TxnTenure DEF Init, SubscriptionStatuses, LuckyStatuses, EmiStatuses
<1>5. txn \in [Txns -> TxnRows]
  BY <1>1, IdleType DEF Init
<1>6. TypeOK
  BY <1>3, <1>4, <1>5 DEF TypeOK, TxnRows, Statements
<1>7. Serial
  BY <1>1, IdleType DEF Serial, Busy, Init
<1> QED
  BY <1>1, <1>6, <1>7, IdleType DEF TxnInv, Alone, Busy, Unmixed

\* A commit that is not mixed is a step of LuckyPlan; every other step but a mixed commit
\* leaves the rows alone.
LEMMA NextStep ==
  ASSUME TxnInv, Next
  PROVE  /\ TxnInv' /\ (Unmixed => Unmixed')
         /\ \/ UNCHANGED rows
            \/ \E t \in Txns : txn[t].mixed /\ txn'[t] = Idle
            \/ Plan!Next
<1> PICK t \in Txns :
      \/ \E p \in Payments, m \in Months, amount \in 1..EmiAmount : BeginPayment(t, p, m, amount)
      \/ RefreshPaidEmi(t)
      \/ \E p \in Payments : BeginReversal(t, p)
      \/ ReadReversedEmi(t)
      \/ PassEmiGuard(t)
      \/ WriteReversedEmi(t)
      \/ RefreshSubscription(t)
      \/ SaveSubscription(t)
      \/ CommitPayment(t)
      \/ CommitReversal(t)
      \/ \E month \in Months : BeginReveal(t, month)
      \/ WaiveFutureEmis(t)
      \/ CommitReveal(t)
      \/ Rollback(t)
  BY DEF Next
<1>1. CASE \E p \in Payments, m \in Months, amount \in 1..EmiAmount : BeginPayment(t, p, m, amount)
  BY <1>1, BeginPaymentStep, QuietInv
<1>2. CASE RefreshPaidEmi(t)
  BY <1>2, RefreshPaidEmiStep, QuietInv
<1>3. CASE \E p \in Payments : BeginReversal(t, p)
  BY <1>3, BeginReversalStep, QuietInv
<1>4. CASE ReadReversedEmi(t)
  BY <1>4, ReadReversedEmiStep, QuietInv
<1>5. CASE PassEmiGuard(t)
  BY <1>5, PassEmiGuardStep, QuietInv
<1>6. CASE WriteReversedEmi(t)
  BY <1>6, WriteReversedEmiStep, QuietInv
<1>7. CASE RefreshSubscription(t)
  BY <1>7, RefreshSubscriptionStep, QuietInv
<1>8. CASE SaveSubscription(t)
  BY <1>8, SaveSubscriptionStep, QuietInv
<1>9. CASE CommitPayment(t)
  <2>1. TxnInv' /\ txn'[t] = Idle /\ (Unmixed => Unmixed')
    BY <1>9, CommitPaymentInv
  <2>2. Alone(t) \/ txn[t].mixed
    BY <1>9 DEF CommitPayment, Running, Alone, Busy
  <2>3. Alone(t) => Plan!Next
    <3> SUFFICES ASSUME Alone(t) PROVE Plan!Next
      OBVIOUS
    <3>1. PICK p \in Payments, m \in Months, amount \in 1..EmiAmount :
            Plan!RecordPayment(p, Sub, m, amount)
      BY <1>9, PaymentIsAtomic
    <3>2. m \in Plan!Months /\ amount \in Plan!Amounts /\ Sub \in {Sub}
      BY SameRules DEF Plan!Amounts
    <3> QED
      BY <3>1, <3>2, Zenon DEF Plan!Next
  <2> QED
    BY <2>1, <2>2, <2>3
<1>10. CASE CommitReversal(t)
  <2>1. TxnInv' /\ txn'[t] = Idle /\ (Unmixed => Unmixed')
    BY <1>10, CommitReversalInv
  <2>2. Alone(t) \/ txn[t].mixed
    BY <1>10 DEF CommitReversal, Running, Alone, Busy
  <2>3. Alone(t) => Plan!Next
    BY <1>10, ReversalIsAtomic, Zenon DEF Plan!Next
  <2> QED
    BY <2>1, <2>2, <2>3
<1>11. CASE \E month \in Months : BeginReveal(t, month)
  BY <1>11, BeginRevealStep, QuietInv
<1>12. CASE WaiveFutureEmis(t)
  BY <1>12, WaiveFutureEmisStep, QuietInv
<1>13. CASE CommitReveal(t)
  <2>1. TxnInv' /\ txn'[t] = Idle /\ (Unmixed => Unmixed')
    BY <1>13, CommitRevealInv
  <2>2. Alone(t) \/ txn[t].mixed
    BY <1>13 DEF CommitReveal, Running, Alone, Busy
  <2>3. Alone(t) => Plan!Next
    <3> SUFFICES ASSUME Alone(t) PROVE Plan!Next
      OBVIOUS
    <3>1. PICK month \in Months : Plan!RevealDraw(month, Sub)
      BY <1>13, RevealIsAtomic
    <3>2. month \in Plan!Months /\ Sub \in {Sub}
      BY SameRules
    <3> QED
      BY <3>1, <3>2, Zenon DEF Plan!Next
  <2> QED
    BY <2>1, <2>2, <2>3
<1>14. CASE Rollback(t)
  BY <1>14, RollbackInv
<1> QED
  BY <1>1, <1>2, <1>3, <1>4, <1>5, <1>6, <1>7, <1>8, <1>9, <1>10, <1>11, <1>12, <1>13, <1>14

\* A step that changes nothing.
LEMMA StutterInv == TxnInv /\ UNCHANGED vars => TxnInv'
<1> SUFFICES ASSUME TxnInv, UNCHANGED vars PROVE TxnInv'
  OBVIOUS
<1>1. UNCHANGED rows /\ txn' = txn
  BY DEF vars
<1>2. TypeOK'
  BY <1>1 DEF TxnInv, TypeOK, rows
<1>3. Serial'
  BY <1>1 DEF TxnInv, Serial, Busy, rows
<1>4. ASSUME NEW t \in Txns, Alone(t)' PROVE FaithfulRow(t)'
  <2>1. Alone(t)
    BY <1>1, <1>4 DEF Alone, Busy
  <2>2. PICK x \in TxnRows : txn[t] = x /\ Faithful(x)
    BY <2>1 DEF TxnInv, FaithfulRow
  <2>3. Faithful(x)' /\ txn'[t] = x
    BY <1>1, <2>2, FaithfulRows
  <2> QED
    BY <2>3 DEF FaithfulRow
<1> QED
  BY <1>2, <1>3, <1>4 DEF TxnInv

\* Two transactions that both hold the subscription row never overlap, and one that no
\* reversal has overlapped still sees, at every statement, the rows it began with.
THEOREM TxnInvariant == Spec => []TxnInv
<1>1. TxnInv /\ [Next]_vars => TxnInv'
  BY NextStep, StutterInv
<1> QED
  BY InitInv, <1>1, PTL DEF Spec

\* Rows and transactions keep the types of their columns through every statement.
THEOREM TxnTypes == Spec => []TypeOK
<1>1. TxnInv => TypeOK
  BY DEF TxnInv
<1> QED
  BY <1>1, TxnInvariant, PTL

\* However payments, reveals and reversals interleave, and whichever are rolled back, each
\* commit is one step of LuckyPlan or belongs to a transaction that a reversal overlapped.
THEOREM AtomicCommits == Spec => CommitsAreAtomic
<1>1. UNCHANGED rows => UNCHANGED Plan!vars
  BY DEF rows, Plan!vars
<1>2. UNCHANGED vars => UNCHANGED rows
  BY DEF vars
<1>3. TxnInv /\ [Next]_vars =>
        [(\E t \in Txns : txn[t].mixed /\ txn'[t] = Idle) \/ Plan!Next]_(Plan!vars)
  BY <1>1, <1>2, NextStep
<1> QED
  BY <1>3, TxnInvariant, PTL DEF Spec, CommitsAreAtomic

\* Payments and reveals alone are serialisable: where none is reversed, every step is one
\* of LuckyPlan or leaves the rows as they are.
THEOREM SerialWithoutReversals == "REVERSE" \notin Ops => (Spec => [][Plan!Next]_(Plan!vars))
<1> SUFFICES ASSUME "REVERSE" \notin Ops PROVE Spec => [][Plan!Next]_(Plan!vars)
  OBVIOUS
<1>1. UNCHANGED rows => UNCHANGED Plan!vars
  BY DEF rows, Plan!vars
<1>2. UNCHANGED vars => UNCHANGED rows /\ txn' = txn
  BY DEF vars
<1>3. Init => TxnInv /\ Unmixed
  BY InitInv
<1>4. TxnInv /\ Unmixed /\ [Next]_vars => TxnInv' /\ Unmixed'
  BY <1>2, NextStep, StutterInv DEF Unmixed
<1>5. TxnInv /\ Unmixed /\ [Next]_vars => [Plan!Next]_(Plan!vars)
  BY <1>1, <1>2, NextStep DEF Unmixed
<1> QED
  BY <1>3, <1>4, <1>5, PTL DEF Spec

-----------------------------------------------------------------------------
(* What an EMI's lock protects: the ledger and the status of the EMI *)

\* A payment owns its EMI from its first statement: the EMI stays open, what the payment adds
\* still fits, and the status it computed is that of the ledger it will leave behind.
PaymentOwnsEmi(x) ==
  x.op = "PAY" =>
    /\ x.pay \in Payments /\ payment[x.pay].state = "NONE"
    /\ x.locked = {x.month} /\ emi[x.month] \notin SettledEmi
    /\ ledger[x.month] + x.amount <= EmiAmount
    /\ x.at = "EMI" => x.emi[x.month] \notin SettledEmi
    /\ x.at # "EMI" =>
         /\ x.emi[x.month] # "WAIVED"
         /\ ledger[x.month] + x.amount = EmiAmount => x.emi[x.month] = "PAID"
         /\ NeverWaived(x.month) /\ x.emi[x.month] = "PAID" => ledger[x.month] + x.amount = EmiAmount

\* A reversal writes PENDING, under the lock, or nothing at all because it met a waiver.
ReversalWritesPending(x) ==
  x.op = "REVERSE" =>
    /\ x.pay \in Payments /\ payment[x.pay].state = "POSTED"
    /\ x.month = payment[x.pay].month /\ x.amount = payment[x.pay].amount
    /\ x.at \in {"EMI", "GUARD", "WRITE"} => x.locked = {}
    /\ x.at \in {"GUARD", "WRITE"} => x.emi[x.month] = "PENDING"
    /\ x.at \in {"SUB", "SAVE", "COMMIT"} =>
         \/ x.locked = {x.month} /\ x.emi[x.month] = "PENDING"
         \/ x.locked = {} /\ ~NeverWaived(x.month)

\* A reveal waives, under the locks of all EMIs, those that are pending.
RevealHoldsEmis(x) ==
  x.op = "REVEAL" =>
    \/ x.at = "EMI" /\ x.locked = {}
    \/ x.at = "COMMIT" /\ x.locked = Months /\ x.emi = Waived(x.month)

Covered(x) == PaymentOwnsEmi(x) /\ ReversalWritesPending(x) /\ RevealHoldsEmis(x)

\* Row locks exclude each other, and no two transactions work on one payment.
LocksExclude ==
  \A t, u \in Txns : t # u =>
    /\ txn[t].locked \intersect txn[u].locked = {}
    /\ txn[t].pay = txn[u].pay => txn[t].pay = NoPay

PostedOn(m) == {p \in Payments : payment[p].state = "POSTED" /\ payment[p].month = m}

PaidOn(m) == SumFunction([p \in PostedOn(m) |-> payment[p].amount])

RowsCovered ==
  /\ \A m \in Months : emi[m] = "WAIVED" => ~NeverWaived(m)
  /\ EmiCoveredWhenPaid
  /\ \A m \in Months : ledger[m] = PaidOn(m)

CoverInv == LocksExclude /\ (\A t \in Txns : Covered(txn[t])) /\ RowsCovered

\* The instance of LuckyPlan sums the same payments.
LEMMA SamePaid ==
  ASSUME TypeOK, NEW m \in Months
  PROVE  Plan!EffectivePaid(Sub, m) = PaidOn(m)
<1>1. Plan!Posted(Sub, m) = PostedOn(m)
  BY TxnNulls DEF Plan!Posted, PostedOn
<1>2. [p \in Plan!Posted(Sub, m) |->
         [q \in Payments |->
            [state |-> payment[q].state, month |-> payment[q].month,
             amount |-> payment[q].amount,
             sub |-> IF payment[q].state = "NONE" THEN NoSub ELSE Sub]][p].amount]
        = [p \in PostedOn(m) |-> payment[p].amount]
  BY <1>1 DEF PostedOn
<1>3. ASSUME NEW f PROVE Plan!SumFunction(f) = SumFunction(f)
  BY DEF Plan!SumFunction, SumFunction, Plan!SumFunctionOnSet, SumFunctionOnSet,
     Plan!FoldFunctionOnSet, FoldFunctionOnSet, Plan!MapThenFoldSet, MapThenFoldSet
<1> QED
  BY <1>2, <1>3, Zenon DEF Plan!EffectivePaid, PaidOn

LEMMA LedgerIsPaid ==
  ASSUME TypeOK
  PROVE  LedgerCountsPayments <=> \A m \in Months : ledger[m] = PaidOn(m)
<1>1. LedgerCountsPayments <=> \A m \in Months : ledger[m] = Plan!EffectivePaid(Sub, m)
  BY SameRules DEF LedgerCountsPayments, Plan!LedgerMatchesPayments
<1> QED
  BY <1>1, SamePaid

\* A payment that is committed counts on its own EMI only.
LEMMA PaidOnAdds ==
  ASSUME TypeOK, NEW p \in Payments, payment[p].state = "NONE",
         NEW m \in Months, NEW amount \in 1..EmiAmount,
         payment'[p].state = "POSTED", payment'[p].month = m, payment'[p].amount = amount,
         \A q \in Payments \ {p} : payment'[q] = payment[q], NEW k
  PROVE  PaidOn(k)' = IF k = m THEN PaidOn(k) + amount ELSE PaidOn(k)
<1> DEFINE S == PostedOn(k)
           f == [q \in PostedOn(k) |-> payment[q].amount]
           g == [q \in PostedOn(k)' |-> payment'[q].amount]
<1>1. PaidOn(k) = SumFunction(f) /\ PaidOn(k)' = SumFunction(g)
  BY DEF PaidOn
<1>2. p \notin S /\ S \subseteq Payments /\ IsFiniteSet(S) /\ f \in [S -> Int]
  BY TxnPayments, TxnAmount, FS_Subset DEF PostedOn, TypeOK
<1>3. CASE k = m
  <2>1. PostedOn(k)' = S \union {p}
    BY <1>3 DEF PostedOn
  <2>2. g \in [S \union {p} -> Int] /\ g[p] = amount /\ \A q \in S : g[q] = f[q]
    BY <1>2, <2>1, TxnAmount
  <2> HIDE DEF S, f, g
  <2>3. PICK R, F, G : R = S /\ F = f /\ G = g
    OBVIOUS
  <2>4. SumFunction(G) = SumFunction(F) + G[p]
    BY <1>2, <2>2, <2>3, SumWithOneMore
  <2> QED
    BY <1>1, <1>3, <2>2, <2>3, <2>4
<1>4. CASE k # m
  <2>1. PostedOn(k)' = S
    BY <1>2, <1>4 DEF PostedOn
  <2>2. g = f
    BY <1>2, <2>1
  <2> QED
    BY <1>1, <1>4, <2>2
<1> QED
  BY <1>3, <1>4

\* A payment that is reversed counts no more.
LEMMA PaidOnSubtracts ==
  ASSUME TypeOK, NEW p \in Payments, payment[p].state = "POSTED",
         payment'[p].state = "REVERSED",
         \A q \in Payments \ {p} : payment'[q] = payment[q], NEW k
  PROVE  PaidOn(k)' = IF k = payment[p].month THEN PaidOn(k) - payment[p].amount ELSE PaidOn(k)
<1> DEFINE S == PostedOn(k)'
           f == [q \in PostedOn(k) |-> payment[q].amount]
           g == [q \in PostedOn(k)' |-> payment'[q].amount]
<1>1. PaidOn(k) = SumFunction(f) /\ PaidOn(k)' = SumFunction(g)
  BY DEF PaidOn
<1>2. /\ p \notin S /\ S \subseteq Payments /\ S \subseteq PostedOn(k)
      /\ \A q \in S : payment'[q] = payment[q]
  BY DEF PostedOn
<1>3. IsFiniteSet(S) /\ f \in [PostedOn(k) -> Int] /\ g \in [S -> Int]
  BY <1>2, TxnPayments, TxnAmount, FS_Subset DEF PostedOn, TypeOK
<1>4. CASE k = payment[p].month
  <2>1. PostedOn(k) = S \union {p}
    BY <1>2, <1>4 DEF PostedOn
  <2>2. f[p] = payment[p].amount /\ (\A q \in S : f[q] = g[q]) /\ f \in [S \union {p} -> Int]
    BY <1>2, <1>3, <2>1
  <2>3. payment[p].amount \in Int
    BY TxnAmount DEF TypeOK
  <2> HIDE DEF S, f, g
  <2>4. PICK R, F, G : R = S /\ F = f /\ G = g
    OBVIOUS
  <2>5. SumFunction(G) = SumFunction(F) - F[p]
    <3>1. IsFiniteSet(R) /\ p \notin R
      BY <1>2, <1>3, <2>4
    <3>2. F \in [R \union {p} -> Int] /\ G \in [R -> Int]
      BY <1>3, <2>2, <2>4
    <3>3. \A q \in R : G[q] = F[q]
      BY <2>2, <2>4
    <3> QED
      BY <3>1, <3>2, <3>3, SumWithOneLess
  <2> QED
    BY <1>1, <1>4, <2>2, <2>4, <2>5
<1>5. CASE k # payment[p].month
  <2>1. PostedOn(k) = S
    BY <1>2, <1>5 DEF PostedOn
  <2>2. g = f
    BY <1>2, <2>1
  <2> QED
    BY <1>1, <1>5, <2>2
<1> QED
  BY <1>4, <1>5

\* No payment is larger than what its EMI has received.
LEMMA PaidOnBounds ==
  ASSUME TypeOK, NEW p \in Payments, payment[p].state = "POSTED"
  PROVE  payment[p].amount <= PaidOn(payment[p].month)
<1> DEFINE S == PostedOn(payment[p].month)
           f == [q \in S |-> payment[q].amount]
<1>1. IsFiniteSet(S) /\ p \in S
  BY TxnPayments, FS_Subset DEF PostedOn
<1>2. f \in [S -> Nat]
  BY TxnAmount DEF PostedOn, TypeOK
<1>3. f[p] <= SumFunction(f)
  BY <1>1, <1>2, SumOfNaturals
<1> QED
  BY <1>1, <1>3 DEF PaidOn

-----------------------------------------------------------------------------
(* Every statement keeps what the locks protect *)

\* Two rows of a transaction that differ in what covers no EMI.
Like(x, y) ==
  /\ x.op = y.op /\ x.at = y.at /\ x.pay = y.pay /\ x.month = y.month
  /\ x.amount = y.amount /\ x.emi = y.emi /\ x.locked = y.locked

LEMMA LikeCovered ==
  ASSUME NEW x, NEW y, Like(x, y), Covered(x)
  PROVE  Covered(y)
BY DEF Like, Covered, PaymentOwnsEmi, ReversalWritesPending, RevealHoldsEmis

LEMMA RowsCover ==
  ASSUME NEW x, UNCHANGED rows, Covered(x)
  PROVE  Covered(x)'
<1>1. payment' = payment /\ emi' = emi /\ ledger' = ledger /\ draw' = draw
  BY DEF rows
<1>2. Waived(x.month)' = Waived(x.month)
  BY <1>1 DEF Waived
<1>3. \A m : NeverWaived(m)' <=> NeverWaived(m)
  BY <1>1 DEF NeverWaived
<1> QED
  BY <1>1, <1>2, <1>3 DEF Covered, PaymentOwnsEmi, ReversalWritesPending, RevealHoldsEmis

LEMMA RowsStayCovered ==
  ASSUME RowsCovered, UNCHANGED rows
  PROVE  RowsCovered'
<1>1. payment' = payment /\ emi' = emi /\ ledger' = ledger /\ draw' = draw
  BY DEF rows
<1>2. \A m : (NeverWaived(m)' <=> NeverWaived(m)) /\ PaidOn(m)' = PaidOn(m)
  BY <1>1 DEF NeverWaived, PaidOn, PostedOn
<1> QED
  BY <1>1, <1>2 DEF RowsCovered, EmiCoveredWhenPaid

\* A statement that writes no row yet.
LEMMA QuietCover ==
  ASSUME CoverInv, NEW t \in Txns, NEW new, UNCHANGED rows,
         Like(new, txn'[t]), \A u \in Txns \ {t} : Like(txn[u], txn'[u]),
         Covered(new),
         \A u \in Txns \ {t} : /\ new.locked \intersect txn[u].locked = {}
                               /\ new.pay = txn[u].pay => new.pay = NoPay
  PROVE  CoverInv'
<1>1. ASSUME NEW u \in Txns PROVE Covered(txn[u])'
  <2>1. PICK x : x = txn'[u]
    OBVIOUS
  <2>2. Covered(x)
    BY <2>1, LikeCovered DEF CoverInv
  <2>3. Covered(x)'
    BY <2>2, RowsCover
  <2> QED
    BY <2>1, <2>3 DEF Covered, PaymentOwnsEmi, ReversalWritesPending, RevealHoldsEmis
<1>2. LocksExclude'
  BY DEF LocksExclude, CoverInv, Like
<1>3. RowsCovered'
  BY RowsStayCovered DEF CoverInv
<1> QED
  BY <1>1, <1>2, <1>3 DEF CoverInv

LEMMA LikeItself ==
  ASSUME NEW x
  PROVE  Like(x, x)
BY DEF Like

LEMMA LikeMarked ==
  ASSUME NEW x \in TxnRows, NEW mixed \in BOOLEAN
  PROVE  Like(x, [x EXCEPT !.mixed = mixed])
BY DEF Like, TxnRows

LEMMA BeginsCover ==
  ASSUME TxnInv, CoverInv, NEW t \in Txns, NEW new \in TxnRows, Begins(t, new), Covered(new),
         EmisFree(t, new.locked), new.pay = NoPay \/ PaymentFree(new.pay)
  PROVE  CoverInv'
<1>1. PICK mixed \in BOOLEAN : mixed = (Mixes(t, new.op) # {})
  OBVIOUS
<1>2. txn'[t] = [new EXCEPT !.mixed = mixed]
  BY <1>1 DEF Begins
<1>3. \A u \in Txns \ {t} : txn'[u] \in {txn[u], [txn[u] EXCEPT !.mixed = TRUE]}
  BY DEF Begins
<1>4. \A u \in Txns : txn[u] \in TxnRows
  BY DEF TxnInv, TypeOK, TxnRows, Statements
<1>5. Like(new, txn'[t]) /\ \A u \in Txns \ {t} : Like(txn[u], txn'[u])
  <2>1. Like(new, txn'[t])
    BY <1>2, LikeMarked
  <2>2. ASSUME NEW u \in Txns \ {t} PROVE Like(txn[u], txn'[u])
    <3>1. PICK x \in TxnRows : x = txn[u]
      BY <1>4
    <3>2. Like(x, x) /\ Like(x, [x EXCEPT !.mixed = TRUE])
      BY LikeItself, LikeMarked
    <3> QED
      BY <1>3, <3>1, <3>2
  <2> QED
    BY <2>1, <2>2
<1>6. \A u \in Txns \ {t} : /\ new.locked \intersect txn[u].locked = {}
                            /\ new.pay = txn[u].pay => new.pay = NoPay
  BY DEF EmisFree, PaymentFree
<1> QED
  BY <1>5, <1>6, QuietCover DEF Begins

LEMMA GoesCover ==
  ASSUME TxnInv, CoverInv, NEW t \in Txns, NEW row, txn[t] = row, NEW new, Goes(t, new),
         Covered(new), new.pay \in {row.pay, NoPay},
         new.locked \subseteq row.locked \/ EmisFree(t, new.locked)
  PROVE  CoverInv'
<1>1. txn'[t] = new /\ (\A u \in Txns \ {t} : txn'[u] = txn[u]) /\ UNCHANGED rows
  BY DEF Goes, TxnInv, TypeOK
<1>2. Like(new, txn'[t]) /\ \A u \in Txns \ {t} : Like(txn[u], txn'[u])
  BY <1>1, LikeItself
<1>3. \A u \in Txns \ {t} : /\ new.locked \intersect txn[u].locked = {}
                            /\ new.pay = txn[u].pay => new.pay = NoPay
  BY DEF EmisFree, CoverInv, LocksExclude
<1> QED
  BY <1>1, <1>2, <1>3, QuietCover

LEMMA IdleCovered == Idle.pay = NoPay /\ Idle.locked = {} /\ Covered(Idle)
BY DEF Idle, Covered, PaymentOwnsEmi, ReversalWritesPending, RevealHoldsEmis

LEMMA BeginPaymentCover ==
  ASSUME TxnInv, CoverInv, NEW t \in Txns, NEW p \in Payments, NEW m \in Months,
         NEW amount \in 1..EmiAmount, BeginPayment(t, p, m, amount)
  PROVE  CoverInv'
<1>1. PICK new : new = [Idle EXCEPT !.op = "PAY", !.at = "EMI", !.pay = p, !.month = m,
                          !.amount = amount, !.status = status, !.winner = winnerMonth,
                          !.emi = emi, !.locked = {m}, !.sub = TRUE]
  OBVIOUS
<1>2. /\ "PAY" \in Ops /\ payment[p].state = "NONE" /\ PaymentFree(p) /\ EmisFree(t, {m})
      /\ emi[m] \notin SettledEmi /\ amount <= EmiAmount - NetPaid(ledger[m])
      /\ Begins(t, new)
  BY <1>1, Zenon DEF BeginPayment
<1>3. new \in TxnRows
  BY <1>1, <1>2, IdleType DEF TxnInv, TypeOK, TxnRows, Statements
<1>4. /\ new.op = "PAY" /\ new.at = "EMI" /\ new.pay = p /\ new.month = m
      /\ new.amount = amount /\ new.emi = emi /\ new.locked = {m}
  BY <1>1, IdleType DEF TxnRows
<1>5. ledger[m] \in 0..EmiAmount
  BY DEF CoverInv, RowsCovered, EmiCoveredWhenPaid
<1>6. ledger[m] + amount <= EmiAmount
  BY <1>2, <1>5, TxnAmount DEF NetPaid
<1>7. Covered(new)
  BY <1>2, <1>4, <1>6 DEF Covered, PaymentOwnsEmi, ReversalWritesPending, RevealHoldsEmis
<1> QED
  BY <1>2, <1>3, <1>4, <1>7, BeginsCover

LEMMA RefreshPaidEmiCover ==
  ASSUME TxnInv, CoverInv, NEW t \in Txns, RefreshPaidEmi(t)
  PROVE  CoverInv'
<1>1. Busy(t) /\ txn[t].op = "PAY" /\ txn[t].at = "EMI"
  BY DEF RefreshPaidEmi, Running, Busy
<1>2. PICK row \in TxnRows : txn[t] = row /\ Covered(row)
  BY <1>1, RunningRow DEF CoverInv
<1>3. PICK e : e = RefreshedEmi(row.emi[row.month], ledger[row.month] + row.amount, EmiAmount)
  OBVIOUS
<1>4. PICK new : new = [row EXCEPT !.emi = [row.emi EXCEPT ![row.month] = e], !.at = "SUB"]
  OBVIOUS
<1>5. Goes(t, new)
  BY <1>2, <1>3, <1>4, Zenon DEF RefreshPaidEmi
<1>6. row.month \in Months /\ row.emi \in [Months -> EmiStatuses] /\ row.amount \in 1..EmiAmount
  BY DEF TxnRows
<1>7. /\ new.op = "PAY" /\ new.at = "SUB" /\ new.pay = row.pay /\ new.month = row.month
      /\ new.amount = row.amount /\ new.locked = row.locked /\ new.emi[row.month] = e
  BY <1>1, <1>2, <1>4, <1>6 DEF TxnRows
<1>8. /\ row.pay \in Payments /\ payment[row.pay].state = "NONE"
      /\ row.locked = {row.month} /\ emi[row.month] \notin SettledEmi
      /\ ledger[row.month] + row.amount <= EmiAmount /\ row.emi[row.month] \notin SettledEmi
  BY <1>1, <1>2 DEF Covered, PaymentOwnsEmi
<1>9. ledger[row.month] \in 0..EmiAmount
  BY <1>6 DEF CoverInv, RowsCovered, EmiCoveredWhenPaid
<1>10. e # "WAIVED" /\ (e = "PAID" <=> ledger[row.month] + row.amount = EmiAmount)
  BY <1>3, <1>6, <1>8, <1>9, TxnAmount DEF RefreshedEmi, SettledEmi, NetPaid
<1>11. Covered(new)
  BY <1>7, <1>8, <1>10 DEF Covered, PaymentOwnsEmi, ReversalWritesPending, RevealHoldsEmis
<1> QED
  BY <1>2, <1>5, <1>7, <1>11, GoesCover

LEMMA BeginReversalCover ==
  ASSUME TxnInv, CoverInv, NEW t \in Txns, NEW p \in Payments, BeginReversal(t, p)
  PROVE  CoverInv'
<1>1. PICK new : new = [Idle EXCEPT !.op = "REVERSE", !.at = "EMI", !.pay = p,
                          !.month = payment[p].month, !.amount = payment[p].amount,
                          !.status = status, !.winner = winnerMonth]
  OBVIOUS
<1>2. /\ "REVERSE" \in Ops /\ payment[p].state = "POSTED" /\ PaymentFree(p) /\ Begins(t, new)
  BY <1>1, Zenon DEF BeginReversal
<1>3. payment[p].month \in Months /\ payment[p].amount \in 1..EmiAmount
  BY DEF TxnInv, TypeOK
<1>4. new \in TxnRows
  BY <1>1, <1>2, <1>3, IdleType DEF TxnInv, TypeOK, TxnRows, Statements
<1>5. /\ new.op = "REVERSE" /\ new.at = "EMI" /\ new.pay = p /\ new.locked = {}
      /\ new.month = payment[p].month /\ new.amount = payment[p].amount
  BY <1>1, IdleType DEF TxnRows
<1>6. Covered(new)
  BY <1>2, <1>5 DEF Covered, PaymentOwnsEmi, ReversalWritesPending, RevealHoldsEmis
<1> QED
  BY <1>2, <1>4, <1>5, <1>6, BeginsCover DEF EmisFree

\* The reversed payment is part of what its EMI has received.
LEMMA ReversalFits ==
  ASSUME TxnInv, CoverInv, NEW row \in TxnRows, row.op = "REVERSE", Covered(row)
  PROVE  /\ ledger[row.month] \in 0..EmiAmount /\ row.amount \in 1..EmiAmount
         /\ ledger[row.month] - row.amount \in 0..EmiAmount - 1
<1>1. /\ row.pay \in Payments /\ payment[row.pay].state = "POSTED"
      /\ row.month = payment[row.pay].month /\ row.amount = payment[row.pay].amount
      /\ row.month \in Months /\ row.amount \in 1..EmiAmount
  BY DEF Covered, ReversalWritesPending, TxnRows
<1>2. row.amount <= PaidOn(row.month)
  BY <1>1, PaidOnBounds DEF TxnInv
<1>3. ledger[row.month] = PaidOn(row.month) /\ ledger[row.month] \in 0..EmiAmount
  BY <1>1 DEF CoverInv, RowsCovered, EmiCoveredWhenPaid
<1> QED
  BY <1>1, <1>2, <1>3, TxnAmount

LEMMA ReadReversedEmiCover ==
  ASSUME TxnInv, CoverInv, NEW t \in Txns, ReadReversedEmi(t)
  PROVE  CoverInv'
<1>1. Busy(t) /\ txn[t].op = "REVERSE" /\ txn[t].at = "EMI"
  BY DEF ReadReversedEmi, Running, Busy
<1>2. PICK row \in TxnRows : txn[t] = row /\ Covered(row)
  BY <1>1, RunningRow DEF CoverInv
<1>3. PICK e : e = RefreshedEmi(emi[row.month], ledger[row.month] - row.amount, EmiAmount)
  OBVIOUS
<1>4. PICK at : at = CASE emi[row.month] = "WAIVED" -> "SUB"
                       [] emi[row.month] = "PAID" /\ e # "PAID" -> "WRITE"
                       [] OTHER -> "GUARD"
  OBVIOUS
<1>5. PICK new : new = [row EXCEPT !.emi = [row.emi EXCEPT ![row.month] = e], !.at = at]
  OBVIOUS
<1>6. Goes(t, new)
  BY <1>2, <1>3, <1>4, <1>5, Zenon DEF ReadReversedEmi
<1>7. row.month \in Months /\ row.emi \in [Months -> EmiStatuses]
  BY DEF TxnRows
<1>8. /\ new.op = "REVERSE" /\ new.at = at /\ new.pay = row.pay /\ new.month = row.month
      /\ new.amount = row.amount /\ new.locked = row.locked /\ new.emi[row.month] = e
  BY <1>1, <1>2, <1>5, <1>7 DEF TxnRows
<1>9. /\ at \in {"SUB", "WRITE", "GUARD"}
      /\ at = "SUB" <=> emi[row.month] = "WAIVED"
  BY <1>4
<1>10. emi[row.month] # "WAIVED" => e = "PENDING"
  BY <1>1, <1>2, <1>3, ReversalFits, TxnAmount DEF RefreshedEmi, NetPaid
<1>11. emi[row.month] = "WAIVED" => ~NeverWaived(row.month)
  BY <1>7 DEF CoverInv, RowsCovered
<1>12. Covered(new)
  BY <1>1, <1>2, <1>8, <1>9, <1>10, <1>11 DEF Covered, PaymentOwnsEmi, ReversalWritesPending,
     RevealHoldsEmis
<1> QED
  BY <1>2, <1>6, <1>8, <1>12, GoesCover

LEMMA PassEmiGuardCover ==
  ASSUME TxnInv, CoverInv, NEW t \in Txns, PassEmiGuard(t)
  PROVE  CoverInv'
<1>1. Busy(t) /\ txn[t].op = "REVERSE" /\ txn[t].at = "GUARD"
  BY DEF PassEmiGuard, Running, Busy
<1>2. PICK row \in TxnRows : txn[t] = row /\ Covered(row)
  BY <1>1, RunningRow DEF CoverInv
<1>3. PICK new : new = [row EXCEPT !.at = "WRITE"]
  OBVIOUS
<1>4. Goes(t, new)
  BY <1>2, <1>3, Zenon DEF PassEmiGuard
<1>5. /\ new.op = "REVERSE" /\ new.at = "WRITE" /\ new.pay = row.pay /\ new.month = row.month
      /\ new.amount = row.amount /\ new.locked = row.locked /\ new.emi = row.emi
  BY <1>1, <1>2, <1>3 DEF TxnRows
<1>6. Covered(new)
  BY <1>1, <1>2, <1>5 DEF Covered, PaymentOwnsEmi, ReversalWritesPending, RevealHoldsEmis
<1> QED
  BY <1>2, <1>4, <1>5, <1>6, GoesCover

LEMMA WriteReversedEmiCover ==
  ASSUME TxnInv, CoverInv, NEW t \in Txns, WriteReversedEmi(t)
  PROVE  CoverInv'
<1>1. Busy(t) /\ txn[t].op = "REVERSE" /\ txn[t].at = "WRITE"
  BY DEF WriteReversedEmi, Running, Busy
<1>2. PICK row \in TxnRows : txn[t] = row /\ Covered(row)
  BY <1>1, RunningRow DEF CoverInv
<1>3. PICK new : new = [row EXCEPT !.locked = {row.month}, !.at = "SUB"]
  OBVIOUS
<1>4. Goes(t, new) /\ EmisFree(t, {row.month})
  BY <1>2, <1>3, Zenon DEF WriteReversedEmi
<1>5. /\ new.op = "REVERSE" /\ new.at = "SUB" /\ new.pay = row.pay /\ new.month = row.month
      /\ new.amount = row.amount /\ new.locked = {row.month} /\ new.emi = row.emi
  BY <1>1, <1>2, <1>3 DEF TxnRows
<1>6. Covered(new)
  BY <1>1, <1>2, <1>5 DEF Covered, PaymentOwnsEmi, ReversalWritesPending, RevealHoldsEmis
<1> QED
  BY <1>2, <1>4, <1>5, <1>6, GoesCover

\* The statements on the subscription row change nothing about the EMI.
LEMMA SubscriptionCover ==
  ASSUME TxnInv, CoverInv, NEW t \in Txns, RefreshSubscription(t) \/ SaveSubscription(t)
  PROVE  CoverInv'
<1>1. Busy(t) /\ txn[t].at \in {"SUB", "SAVE"}
  BY IdleType DEF RefreshSubscription, SaveSubscription, Busy, TxnInv, Serial, Idle
<1>2. PICK row \in TxnRows : txn[t] = row /\ Covered(row)
  BY <1>1, RunningRow DEF CoverInv
<1>3. PICK new \in TxnRows :
        /\ Goes(t, new) /\ new.at \in {"SAVE", "COMMIT"}
        /\ new.op = row.op /\ new.pay = row.pay /\ new.month = row.month
        /\ new.amount = row.amount /\ new.locked = row.locked /\ new.emi = row.emi
  <2>1. CASE RefreshSubscription(t)
    <3>1. PICK s : s = ResolvedStatus(EmiSet(Seen(t)),
                                     row.winner # 0 \/ row.status = "WON" \/ lucky = "WON")
      OBVIOUS
    <3>2. s \in SubscriptionStatuses
      BY <3>1 DEF ResolvedStatus, SubscriptionStatuses
    <3>3. PICK saves \in BOOLEAN : saves = (s # row.status)
      OBVIOUS
    <3>4. PICK at \in {"SAVE", "COMMIT"} : at = IF s # row.status THEN "SAVE" ELSE "COMMIT"
      OBVIOUS
    <3>5. PICK new : new = [row EXCEPT !.status = s, !.saves = saves, !.at = at]
      OBVIOUS
    <3>6. Goes(t, new)
      BY <1>2, <2>1, <3>1, <3>3, <3>4, <3>5, Zenon DEF RefreshSubscription
    <3>7. /\ new \in TxnRows /\ new.at \in {"SAVE", "COMMIT"}
          /\ new.op = row.op /\ new.pay = row.pay /\ new.month = row.month
          /\ new.amount = row.amount /\ new.locked = row.locked /\ new.emi = row.emi
      BY <3>2, <3>5 DEF TxnRows, Statements
    <3> QED
      BY <3>6, <3>7
  <2>2. CASE SaveSubscription(t)
    <3>1. PICK new : new = [row EXCEPT !.sub = TRUE, !.at = "COMMIT"]
      OBVIOUS
    <3>2. Goes(t, new)
      BY <1>2, <2>2, <3>1, Zenon DEF SaveSubscription
    <3>3. /\ new \in TxnRows /\ new.at \in {"SAVE", "COMMIT"}
          /\ new.op = row.op /\ new.pay = row.pay /\ new.month = row.month
          /\ new.amount = row.amount /\ new.locked = row.locked /\ new.emi = row.emi
      BY <3>1 DEF TxnRows, Statements
    <3> QED
      BY <3>2, <3>3
  <2> QED
    BY <2>1, <2>2
<1>4. Covered(new)
  BY <1>1, <1>2, <1>3 DEF Covered, PaymentOwnsEmi, ReversalWritesPending, RevealHoldsEmis
<1> QED
  BY <1>2, <1>3, <1>4, GoesCover

LEMMA BeginRevealCover ==
  ASSUME TxnInv, CoverInv, NEW t \in Txns, NEW month \in Months, BeginReveal(t, month)
  PROVE  CoverInv'
<1>1. PICK new : new = [Idle EXCEPT !.op = "REVEAL", !.at = "EMI", !.month = month, !.sub = TRUE]
  OBVIOUS
<1>2. Begins(t, new) /\ "REVEAL" \in Ops
  BY <1>1, Zenon DEF BeginReveal
<1>3. new \in TxnRows
  BY <1>1, <1>2, IdleType DEF TxnRows, Statements
<1>4. new.op = "REVEAL" /\ new.at = "EMI" /\ new.locked = {} /\ new.pay = NoPay
  BY <1>1, IdleType, IdleCovered DEF TxnRows
<1>5. Covered(new)
  BY <1>4 DEF Covered, PaymentOwnsEmi, ReversalWritesPending, RevealHoldsEmis
<1> QED
  BY <1>2, <1>3, <1>4, <1>5, BeginsCover DEF EmisFree

LEMMA WaiveFutureEmisCover ==
  ASSUME TxnInv, CoverInv, NEW t \in Txns, WaiveFutureEmis(t)
  PROVE  CoverInv'
<1>1. Busy(t) /\ txn[t].op = "REVEAL" /\ txn[t].at = "EMI"
  BY DEF WaiveFutureEmis, Running, Busy
<1>2. PICK row \in TxnRows : txn[t] = row
  BY <1>1, RunningRow
<1>3. PICK view : view = Waived(row.month)
  OBVIOUS
<1>4. PICK s : s = ResolvedStatus(EmiSet(view), TRUE)
  OBVIOUS
<1>5. PICK new : new = [row EXCEPT !.emi = view, !.locked = Months, !.status = s,
                                   !.saves = TRUE, !.winner = row.month, !.at = "COMMIT"]
  OBVIOUS
<1>6. Goes(t, new) /\ EmisFree(t, Months)
  BY <1>2, <1>3, <1>4, <1>5, Zenon DEF WaiveFutureEmis, Waived
<1>7. /\ new.op = "REVEAL" /\ new.at = "COMMIT" /\ new.month = row.month /\ new.pay = row.pay
      /\ new.emi = Waived(row.month) /\ new.locked = Months
  BY <1>1, <1>2, <1>3, <1>5 DEF TxnRows
<1>8. Covered(new)
  BY <1>7 DEF Covered, PaymentOwnsEmi, ReversalWritesPending, RevealHoldsEmis
<1> QED
  BY <1>2, <1>6, <1>7, <1>8, GoesCover

LEMMA RollbackCover ==
  ASSUME TxnInv, CoverInv, NEW t \in Txns, Rollback(t)
  PROVE  CoverInv'
BY IdleCovered, GoesCover DEF Rollback

-----------------------------------------------------------------------------
(* The commits *)

\* After a commit the other transactions are as they were; what they rely on must be so still.
LEMMA EndCover ==
  ASSUME TxnInv, CoverInv, NEW t \in Txns, txn' = [txn EXCEPT ![t] = Idle], RowsCovered',
         \A x \in TxnRows : Covered(x) /\ x.locked \intersect txn[t].locked = {}
                              /\ (x.pay = txn[t].pay => x.pay = NoPay) => Covered(x)'
  PROVE  CoverInv'
<1>1. txn'[t] = Idle /\ \A u \in Txns \ {t} : txn'[u] = txn[u]
  BY DEF TxnInv, TypeOK
<1>2. ASSUME NEW u \in Txns PROVE Covered(txn[u])'
  <2>1. PICK x : x = txn'[u]
    OBVIOUS
  <2>2. Covered(x)'
    <3>1. CASE u = t
      BY <1>1, <2>1, <3>1 DEF Idle, Covered, PaymentOwnsEmi, ReversalWritesPending,
         RevealHoldsEmis
    <3>2. CASE u # t
      <4>1. x \in TxnRows /\ x = txn[u] /\ Covered(x)
        BY <1>1, <2>1, <3>2 DEF TxnInv, TypeOK, TxnRows, Statements, CoverInv
      <4>2. x.locked \intersect txn[t].locked = {} /\ (x.pay = txn[t].pay => x.pay = NoPay)
        BY <3>2, <4>1 DEF CoverInv, LocksExclude
      <4> QED
        BY <4>1, <4>2
    <3> QED
      BY <3>1, <3>2
  <2> QED
    BY <2>1, <2>2 DEF Covered, PaymentOwnsEmi, ReversalWritesPending, RevealHoldsEmis
<1>3. LocksExclude'
  BY <1>1, IdleCovered DEF CoverInv, LocksExclude
<1> QED
  BY <1>2, <1>3 DEF CoverInv

LEMMA CommitPaymentCover ==
  ASSUME TxnInv, CoverInv, NEW t \in Txns, CommitPayment(t)
  PROVE  CoverInv'
<1>1. Busy(t) /\ txn[t].op = "PAY" /\ txn[t].at = "COMMIT"
  BY DEF CommitPayment, Running, Busy
<1>2. PICK row \in TxnRows : txn[t] = row /\ Covered(row)
  BY <1>1, RunningRow DEF CoverInv
<1>3. /\ row.pay \in Payments /\ payment[row.pay].state = "NONE"
      /\ row.locked = {row.month} /\ emi[row.month] \notin SettledEmi
      /\ ledger[row.month] + row.amount <= EmiAmount
      /\ row.emi[row.month] # "WAIVED"
      /\ ledger[row.month] + row.amount = EmiAmount => row.emi[row.month] = "PAID"
      /\ NeverWaived(row.month) /\ row.emi[row.month] = "PAID"
           => ledger[row.month] + row.amount = EmiAmount
  BY <1>1, <1>2 DEF Covered, PaymentOwnsEmi
<1>4. row.month \in Months /\ row.amount \in 1..EmiAmount /\ row.pay # NoPay
  BY <1>3, TxnNulls DEF TxnRows
<1>5. /\ payment'[row.pay].state = "POSTED" /\ payment'[row.pay].month = row.month
      /\ payment'[row.pay].amount = row.amount
      /\ \A q \in Payments \ {row.pay} : payment'[q] = payment[q]
      /\ \A m \in Months : ledger'[m] = IF m = row.month THEN ledger[m] + row.amount ELSE ledger[m]
      /\ \A m \in Months : emi'[m] = IF m = row.month THEN row.emi[m] ELSE emi[m]
      /\ draw' = draw /\ txn' = [txn EXCEPT ![t] = Idle]
  BY <1>2, <1>3, <1>4 DEF CommitPayment, Seen, TxnInv, TypeOK
<1>6. \A m \in Months : NeverWaived(m)' <=> NeverWaived(m)
  BY <1>5 DEF NeverWaived
<1>7. RowsCovered'
  <2>1. \A m \in Months : PaidOn(m)' = IF m = row.month THEN PaidOn(m) + row.amount ELSE PaidOn(m)
    BY <1>3, <1>4, <1>5, PaidOnAdds DEF TxnInv
  <2>2. \A m \in Months : ledger[m] = PaidOn(m) /\ ledger[m] \in 0..EmiAmount
    BY DEF CoverInv, RowsCovered, EmiCoveredWhenPaid
  <2>3. \A m \in Months : ledger'[m] = PaidOn(m)'
    BY <1>5, <2>1, <2>2
  <2>4. \A m \in Months : emi'[m] = "WAIVED" => ~NeverWaived(m)'
    BY <1>3, <1>5, <1>6 DEF CoverInv, RowsCovered
  <2>5. ASSUME NEW m \in Months
        PROVE  /\ ledger'[m] \in 0..EmiAmount
               /\ ledger'[m] = EmiAmount => emi'[m] = "PAID"
               /\ NeverWaived(m)' /\ emi'[m] = "PAID" => ledger'[m] = EmiAmount
    <3>1. CASE m = row.month
      BY <1>3, <1>4, <1>5, <1>6, <2>2, <3>1, TxnAmount
    <3>2. CASE m # row.month
      BY <1>5, <1>6, <3>2 DEF CoverInv, RowsCovered, EmiCoveredWhenPaid
    <3> QED
      BY <3>1, <3>2
  <2> QED
    BY <2>3, <2>4, <2>5 DEF RowsCovered, EmiCoveredWhenPaid
<1>8. ASSUME NEW x \in TxnRows, Covered(x), x.locked \intersect row.locked = {},
             x.pay = row.pay => x.pay = NoPay
      PROVE  Covered(x)'
  <2>1. x.month \in Months /\ x.pay # row.pay
    BY <1>4, <1>8 DEF TxnRows
  <2>2. PaymentOwnsEmi(x)'
    <3>1. x.op = "PAY" => x.month # row.month
      BY <1>3, <1>8 DEF Covered, PaymentOwnsEmi
    <3> QED
      BY <1>5, <1>6, <1>8, <2>1, <3>1 DEF Covered, PaymentOwnsEmi
  <2>3. ReversalWritesPending(x)'
    BY <1>5, <1>6, <1>8, <2>1 DEF Covered, ReversalWritesPending
  <2>4. RevealHoldsEmis(x)'
    BY <1>3, <1>4, <1>8 DEF Covered, RevealHoldsEmis
  <2> QED
    BY <2>2, <2>3, <2>4 DEF Covered
<1> QED
  BY <1>2, <1>5, <1>7, <1>8, EndCover

\* A reversal that met a waiver leaves the EMI alone; a payment that runs beside it and
\* takes the EMI for paid up does so on a month a draw has reached.
LEMMA CommitReversalCover ==
  ASSUME TxnInv, CoverInv, NEW t \in Txns, CommitReversal(t)
  PROVE  CoverInv'
<1>1. Busy(t) /\ txn[t].op = "REVERSE" /\ txn[t].at = "COMMIT"
  BY DEF CommitReversal, Running, Busy
<1>2. PICK row \in TxnRows : txn[t] = row /\ Covered(row)
  BY <1>1, RunningRow DEF CoverInv
<1>3. /\ row.pay \in Payments /\ payment[row.pay].state = "POSTED"
      /\ row.month = payment[row.pay].month /\ row.amount = payment[row.pay].amount
      /\ \/ row.locked = {row.month} /\ row.emi[row.month] = "PENDING"
         \/ row.locked = {} /\ ~NeverWaived(row.month)
  BY <1>1, <1>2 DEF Covered, ReversalWritesPending
<1>4. row.month \in Months /\ row.amount \in 1..EmiAmount /\ row.pay # NoPay
  BY <1>3, TxnNulls DEF TxnRows
<1>5. ledger[row.month] - row.amount \in 0..EmiAmount - 1
  BY <1>1, <1>2, ReversalFits
<1>6. /\ payment'[row.pay].state = "REVERSED"
      /\ \A q \in Payments \ {row.pay} : payment'[q] = payment[q]
      /\ \A m \in Months : ledger'[m] = IF m = row.month THEN ledger[m] - row.amount ELSE ledger[m]
      /\ \A m \in Months : emi'[m] = IF m \in row.locked THEN row.emi[m] ELSE emi[m]
      /\ draw' = draw /\ txn' = [txn EXCEPT ![t] = Idle]
  BY <1>2, <1>3, <1>4 DEF CommitReversal, Seen, TxnInv, TypeOK
<1>7. \A m \in Months : NeverWaived(m)' <=> NeverWaived(m)
  BY <1>6 DEF NeverWaived
<1>8. \A m \in Months : m # row.month => emi'[m] = emi[m]
  BY <1>3, <1>6
<1>9. RowsCovered'
  <2>1. \A m \in Months : PaidOn(m)' = IF m = row.month THEN PaidOn(m) - row.amount ELSE PaidOn(m)
    BY <1>3, <1>6, PaidOnSubtracts DEF TxnInv
  <2>2. \A m \in Months : ledger[m] = PaidOn(m) /\ ledger[m] \in 0..EmiAmount
    BY DEF CoverInv, RowsCovered, EmiCoveredWhenPaid
  <2>3. \A m \in Months : ledger'[m] = PaidOn(m)'
    BY <1>6, <2>1, <2>2
  <2>4. \A m \in Months : emi'[m] = "WAIVED" => ~NeverWaived(m)'
    BY <1>3, <1>6, <1>7 DEF CoverInv, RowsCovered
  <2>5. ASSUME NEW m \in Months
        PROVE  /\ ledger'[m] \in 0..EmiAmount
               /\ ledger'[m] = EmiAmount => emi'[m] = "PAID"
               /\ NeverWaived(m)' /\ emi'[m] = "PAID" => ledger'[m] = EmiAmount
    <3>1. CASE m = row.month
      BY <1>3, <1>4, <1>5, <1>6, <1>7, <3>1, TxnAmount
    <3>2. CASE m # row.month
      BY <1>6, <1>7, <1>8, <3>2 DEF CoverInv, RowsCovered, EmiCoveredWhenPaid
    <3> QED
      BY <3>1, <3>2
  <2> QED
    BY <2>3, <2>4, <2>5 DEF RowsCovered, EmiCoveredWhenPaid
<1>10. ASSUME NEW x \in TxnRows, Covered(x), x.locked \intersect row.locked = {},
              x.pay = row.pay => x.pay = NoPay
       PROVE  Covered(x)'
  <2>1. x.month \in Months /\ x.pay # row.pay /\ x.amount \in 1..EmiAmount
    BY <1>4, <1>10 DEF TxnRows
  <2>2. PaymentOwnsEmi(x)'
    <3>1. CASE x.op = "PAY" /\ x.month = row.month
      <4>1. row.locked = {} /\ ~NeverWaived(x.month) /\ emi'[x.month] = emi[x.month]
        BY <1>3, <1>6, <1>10, <2>1, <3>1 DEF Covered, PaymentOwnsEmi
      <4>2. ledger'[x.month] < ledger[x.month] /\ ledger'[x.month] \in Int /\ ledger[x.month] \in Int
        BY <1>4, <1>6, <3>1, TxnAmount DEF TxnInv, TypeOK
      <4>3. ledger'[x.month] + x.amount < EmiAmount
        BY <1>10, <2>1, <3>1, <4>2, TxnAmount DEF Covered, PaymentOwnsEmi
      <4> QED
        BY <1>6, <1>7, <1>10, <2>1, <3>1, <4>1, <4>3, <4>2, TxnAmount DEF Covered, PaymentOwnsEmi
    <3>2. CASE x.op = "PAY" /\ x.month # row.month
      BY <1>6, <1>7, <1>8, <1>10, <2>1, <3>2 DEF Covered, PaymentOwnsEmi
    <3> QED
      BY <3>1, <3>2 DEF PaymentOwnsEmi
  <2>3. ReversalWritesPending(x)'
    BY <1>6, <1>7, <1>10, <2>1 DEF Covered, ReversalWritesPending
  <2>4. RevealHoldsEmis(x)'
    <3>1. CASE row.locked = {}
      <4>1. \A m \in Months : emi'[m] = emi[m]
        BY <1>6, <3>1
      <4>2. Waived(x.month)' = Waived(x.month)
        BY <4>1 DEF Waived
      <4> QED
        BY <1>10, <4>2 DEF Covered, RevealHoldsEmis
    <3>2. CASE row.locked = {row.month}
      BY <1>4, <1>10, <3>2 DEF Covered, RevealHoldsEmis
    <3> QED
      BY <1>3, <3>1, <3>2
  <2> QED
    BY <2>2, <2>3, <2>4 DEF Covered
<1> QED
  BY <1>2, <1>6, <1>9, <1>10, EndCover

LEMMA CommitRevealCover ==
  ASSUME TxnInv, CoverInv, NEW t \in Txns, CommitReveal(t)
  PROVE  CoverInv'
<1>1. Busy(t) /\ txn[t].op = "REVEAL" /\ txn[t].at = "COMMIT"
  BY DEF CommitReveal, Running, Busy
<1>2. PICK row \in TxnRows : txn[t] = row /\ Covered(row)
  BY <1>1, RunningRow DEF CoverInv
<1>3. row.locked = Months /\ row.emi = Waived(row.month) /\ row.month \in Months
  BY <1>1, <1>2 DEF Covered, RevealHoldsEmis, TxnRows
<1>4. /\ \A m \in Months : emi'[m] = IF m > row.month /\ emi[m] = "PENDING" THEN "WAIVED" ELSE emi[m]
      /\ draw'[row.month] = "REVEALED"
      /\ \A m \in Months : draw[m] = "REVEALED" => draw'[m] = "REVEALED"
      /\ payment' = payment /\ ledger' = ledger /\ txn' = [txn EXCEPT ![t] = Idle]
  BY <1>2, <1>3 DEF CommitReveal, Seen, Waived, TxnInv, TypeOK
<1>5. \A m \in Months : ~NeverWaived(m) => ~NeverWaived(m)'
  BY <1>4 DEF NeverWaived
<1>6. \A m \in Months : m > row.month => ~NeverWaived(m)'
  BY <1>3, <1>4 DEF NeverWaived, Months
<1>7. RowsCovered'
  <2>1. \A m \in Months : PaidOn(m)' = PaidOn(m)
    BY <1>4 DEF PaidOn, PostedOn
  <2>2. \A m \in Months : emi'[m] = "WAIVED" => ~NeverWaived(m)'
    BY <1>4, <1>5, <1>6 DEF CoverInv, RowsCovered
  <2>3. \A m \in Months : emi'[m] = "PAID" <=> emi[m] = "PAID"
    BY <1>4
  <2> QED
    BY <1>4, <1>5, <2>1, <2>2, <2>3 DEF CoverInv, RowsCovered, EmiCoveredWhenPaid
<1>8. ASSUME NEW x \in TxnRows, Covered(x), x.locked \intersect row.locked = {},
             x.pay = row.pay => x.pay = NoPay
      PROVE  Covered(x)'
  <2>1. x.month \in Months /\ x.month \notin x.locked
    BY <1>3, <1>8 DEF TxnRows
  <2>2. PaymentOwnsEmi(x)'
    BY <1>8, <2>1 DEF Covered, PaymentOwnsEmi
  <2>3. ReversalWritesPending(x)'
    BY <1>4, <1>5, <1>8, <2>1 DEF Covered, ReversalWritesPending
  <2>4. RevealHoldsEmis(x)'
    BY <1>8, <2>1 DEF Covered, RevealHoldsEmis
  <2> QED
    BY <2>2, <2>3, <2>4 DEF Covered
<1> QED
  BY <1>2, <1>4, <1>7, <1>8, EndCover

LEMMA NextCover == TxnInv /\ CoverInv /\ [Next]_vars => CoverInv'
<1> SUFFICES ASSUME TxnInv, CoverInv, [Next]_vars PROVE CoverInv'
  OBVIOUS
<1>1. CASE UNCHANGED vars
  <2>1. UNCHANGED rows /\ txn' = txn
    BY <1>1 DEF vars
  <2>2. ASSUME NEW u \in Txns PROVE Covered(txn[u])'
    <3>1. PICK x : x = txn[u]
      OBVIOUS
    <3>2. Covered(x)'
      BY <2>1, <3>1, RowsCover DEF CoverInv
    <3> QED
      BY <2>1, <3>1, <3>2 DEF Covered, PaymentOwnsEmi, ReversalWritesPending, RevealHoldsEmis
  <2>3. LocksExclude' /\ RowsCovered'
    BY <2>1, RowsStayCovered DEF CoverInv, LocksExclude
  <2> QED
    BY <2>2, <2>3 DEF CoverInv
<1>2. CASE Next
  <2> PICK t \in Txns :
      \/ \E p \in Payments, m \in Months, amount \in 1..EmiAmount : BeginPayment(t, p, m, amount)
      \/ RefreshPaidEmi(t)
      \/ \E p \in Payments : BeginReversal(t, p)
      \/ ReadReversedEmi(t)
      \/ PassEmiGuard(t)
      \/ WriteReversedEmi(t)
      \/ RefreshSubscription(t)
      \/ SaveSubscription(t)
      \/ CommitPayment(t)
      \/ CommitReversal(t)
      \/ \E month \in Months : BeginReveal(t, month)
      \/ WaiveFutureEmis(t)
      \/ CommitReveal(t)
      \/ Rollback(t)
    BY <1>2 DEF Next
  <2> QED
    BY BeginPaymentCover, RefreshPaidEmiCover, BeginReversalCover, ReadReversedEmiCover,
       PassEmiGuardCover, WriteReversedEmiCover, SubscriptionCover, CommitPaymentCover,
       CommitReversalCover, BeginRevealCover, WaiveFutureEmisCover, CommitRevealCover,
       RollbackCover
<1> QED
  BY <1>1, <1>2

LEMMA InitCover == Init => CoverInv
<1> SUFFICES ASSUME Init PROVE CoverInv
  OBVIOUS
<1>1. \A t \in Txns : txn[t] = Idle
  BY DEF Init
<1>2. \A m : PaidOn(m) = 0
  <2> TAKE m
  <2>1. PostedOn(m) = {}
    BY DEF Init, PostedOn, NoPayment
  <2> QED
    BY <2>1, SumOfNothing DEF PaidOn
<1>3. LocksExclude /\ \A t \in Txns : Covered(txn[t])
  BY <1>1, IdleCovered DEF LocksExclude
<1>4. RowsCovered
  BY <1>2, TxnAmount DEF Init, RowsCovered, EmiCoveredWhenPaid
<1> QED
  BY <1>3, <1>4 DEF CoverInv

\* What each running transaction may rely on about its EMI stays so until it commits.
THEOREM CoverInvariant == Spec => []CoverInv
BY InitCover, NextCover, TxnInvariant, PTL DEF Spec

\* A reversal writes its EMI without the lock that a payment takes, and still no EMI is
\* PAID that its ledger does not cover, nor covered without being PAID, nor overpaid,
\* unless a draw has reached its month.
THEOREM EmisCovered == Spec => []EmiCoveredWhenPaid
<1>1. CoverInv => EmiCoveredWhenPaid
  BY DEF CoverInv, RowsCovered
<1> QED
  BY <1>1, CoverInvariant, PTL

\* However payments and reversals interleave, the ledger counts each unreversed one once.
THEOREM LedgerSums == Spec => []LedgerCountsPayments
<1>1. TxnInv /\ CoverInv => LedgerCountsPayments
  BY LedgerIsPaid DEF TxnInv, CoverInv, RowsCovered
<1> QED
  BY <1>1, TxnInvariant, CoverInvariant, PTL
=============================================================================
