SPECIFICATION Spec
CONSTANTS
  Subs = {s1, s2, s3}
  Luckies = {l1, l2}
  Payments = {p1}
  Tenure = 3
  EmiAmount = 1
  NoLucky = NoLucky
  NoSub = NoSub
SYMMETRY RowSymmetry
\* A batch may simply be over: closed, everything settled, no payment row left.
CHECK_DEADLOCK FALSE
INVARIANTS
  WaiverPostedOnce
  WinnerRecordsAgree
  CoordinationIntegrity
  LegacyWinnersDiffer
PROPERTIES
  FutureOnlyWaiver
  DrawsAreFinal
