SPECIFICATION Spec
CONSTANTS
  Emis = {e1}
  Admins = {a1}
  Workers = {w1, w2}
  Desks = {}
  MaxMessages = 1
  MaxRuns = 0
  MaxFaults = 1
INVARIANTS KilledRunRetried
CHECK_DEADLOCK FALSE
