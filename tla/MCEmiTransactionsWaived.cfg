SPECIFICATION Spec
CONSTANTS
  Txns = {t1, t2}
  Payments = {p1, p2}
  Tenure = 2
  EmiAmount = 2
  Sub = Sub
  LuckyId = LuckyId
  NoLucky = NoLucky
  NoSub = NoSub
  NoPay = NoPay
  Ops = {"PAY", "REVERSE", "REVEAL"}
SYMMETRY SessionSymmetry
\* When every payment row is used and every draw revealed no request is left.
CHECK_DEADLOCK FALSE
PROPERTIES
  WaivedStaysWaived
