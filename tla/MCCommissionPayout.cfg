SPECIFICATION Spec
CONSTANTS
  Payments = {1, 2, 3}
  Batches = {b1, b2}
  PartnerOf <- MCPartnerOf
  Amount <- MCAmount
  NoBatch = NoBatch
\* When every payment is reversed and every batch is cancelled or paid no request is left.
CHECK_DEADLOCK FALSE
INVARIANTS
  TypeOK
  ReversedPaymentEarnsNothing
  SettlementTraceable
  PayoutCoversItsLines
PROPERTIES
  FinalizedOnEarnedCommissions
  SettledOnce
