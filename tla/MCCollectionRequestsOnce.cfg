SPECIFICATION Spec
CONSTANTS
  Collections = {c1}
  Intents <- MCIntents
  Emis = {1, 2}
  Due = 2
  MaxAttempts = 2
  NoIntent = NoIntent
  NoReference = NoReference
  NoRequest = NoRequest
  u1 = u1
  u2 = u2
  Ref = Ref
CHECK_DEADLOCK FALSE
INVARIANTS
  CollectedOnce
