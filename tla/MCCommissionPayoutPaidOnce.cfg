SPECIFICATION Spec
CONSTANTS
  Payments = {1, 2, 3}
  Batches = {b1, b2}
  PartnerOf <- MCPartnerOf
  Amount <- MCAmount
  NoBatch = NoBatch
CHECK_DEADLOCK FALSE
INVARIANT
  PaidOnce
