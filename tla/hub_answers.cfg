SPECIFICATION FairSpec
CONSTANTS
  Account = {a1}
  Label = {l1}
  Slugged = {a1}
  Socket = {w1}
  Request = {r1, r2}
  Conn = {}
  PlanLimits = {1}
  MaxMissedPings = 2
  None = None
PROPERTIES
  RequestsAnswered
  ClosedSessionsLeave
\* Connections are used once: when all are, nothing is left to do.
CHECK_DEADLOCK FALSE
