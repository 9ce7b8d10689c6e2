SPECIFICATION Spec
CONSTANTS
  Account = {a1}
  Label = {l1, l2}
  Slugged = {}
  Socket = {w1, w2, w3}
  Request = {}
  Conn = {}
  PlanLimits = {1}
  MaxMissedPings = 1
  None = None
SYMMETRY Symmetry
INVARIANTS
  TypeOK
  IndexesAgree
  AgentLimit
  RegisteredUntilClosed
  LiveRowNotDisconnected
\* Connections are used once: when all are, nothing is left to do.
CHECK_DEADLOCK FALSE
