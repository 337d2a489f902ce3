SPECIFICATION FairSpec
CONSTANTS
  Emis = {e1}
  Admins = {a1}
  Workers = {w1, w2}
  Desks = {desk}
  MaxMessages = 1
  MaxRuns = 1
  MaxFaults = 2
INVARIANTS RemindedOncePerRacer FailureReachedAdmins
PROPERTIES OverdueRemindedInTheEnd
CHECK_DEADLOCK FALSE
