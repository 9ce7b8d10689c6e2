SPECIFICATION Spec
CONSTANTS
  Account = {a1, a2}
  Label = {l1}
  Slugged = {a1}
  Socket = {w1, w2}
  Request = {r1}
  Conn = {}
  PlanLimits = {1}
  MaxMissedPings = 1
  None = None
SYMMETRY Symmetry
CONSTRAINT SweepWhileBusy
INVARIANTS
  PendingFiledUnderAgent
  StrandedOnlyAfterBody
  RoutedToOwnAgent
PROPERTIES
  LiveRouteNotRemoved
\* Connections are used once: when all are, nothing is left to do.
CHECK_DEADLOCK FALSE
