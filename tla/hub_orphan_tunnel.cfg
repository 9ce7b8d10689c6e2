SPECIFICATION Spec
CONSTANTS
  Account = {a1}
  Label = {l1}
  Slugged = {a1}
  Socket = {w1, w2}
  Request = {}
  Conn = {c1}
  PlanLimits = {1}
  MaxMissedPings = 2
  None = None
INVARIANTS
  NoOrphanTunnel
\* Connections are used once: when all are, nothing is left to do.
CHECK_DEADLOCK FALSE
