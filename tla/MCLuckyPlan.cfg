SPECIFICATION Spec
CONSTANTS
  Subs = {s1, s2}
  Luckies = {l1, l2}
  Payments = {p1, p2}
  Tenure = 2
  EmiAmount = 2
  NoLucky = NoLucky
  NoSub = NoSub
SYMMETRY RowSymmetry
\* A batch may simply be over: closed, everything settled, no payment row left.
CHECK_DEADLOCK FALSE
INVARIANTS
  TypeOK
  LuckyIdAvailability
  PaidExactlyWhenCovered
  LedgerMatchesPayments
  StatusMatchesSchedule
  WaiverPostedOnce
PROPERTIES
  WaivedForever
