SPECIFICATION Spec
CONSTANTS
  Emis = {e1, e2}
  Admins = {a1}
  Workers = {w1, w2}
  Desks = {}
  MaxMessages = 1
  MaxRuns = 0
  MaxFaults = 2
INVARIANTS TypeOK OneRunPerKey
PROPERTIES SuccessMeansReminded ToldWithTheReminders
CHECK_DEADLOCK FALSE
