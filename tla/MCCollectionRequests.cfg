SPECIFICATION Spec
CONSTANTS
  Collections = {c1, c2}
  Intents <- MCIntents
  Emis = {1, 2}
  Due = 2
  MaxAttempts = 2
  NoIntent = NoIntent
  NoReference = NoReference
  NoRequest = NoRequest
  u1 = u1
  u2 = u2
  Ref = Ref
SYMMETRY Symmetry
\* When every form is closed or out of attempts no request is left.
CHECK_DEADLOCK FALSE
INVARIANTS
  TypeOK
  NoOverCollection
  PaymentsDistinct
  SuccessIsRecorded
PROPERTIES
  RepeatedKeyAppliesOnce
