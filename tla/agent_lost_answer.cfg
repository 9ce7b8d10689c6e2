SPECIFICATION Spec
CONSTANTS
  Request = {r1}
  Large = {}
  Conn = {}
  Pong = Pong
  Bytes <- MCBytes
  BatchMaxBytes = 3
  BatchMaxSize = 3
  MaxHeld = 2
  MaxHeldBytes = 5
  RequestTimeout = 1
  MaxTime = 0
  MaxLinks = 1
INVARIANT NoAnswerLost
\* The clock and the links are bounded: when they are used up, nothing is left to do.
CHECK_DEADLOCK FALSE
