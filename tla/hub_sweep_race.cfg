SPECIFICATION Spec
CONSTANTS
  Account = {a1}
  Label = {l1}
  Slugged = {}
  Socket = {w1, w2}
  Request = {}
  Conn = {}
  PlanLimits = {1}
  MaxMissedPings = 2
  None = None
INVARIANTS
  SweepEvictsWhatItExamined
\* Connections are used once: when all are, nothing is left to do.
CHECK_DEADLOCK FALSE
