SPECIFICATION Spec
CONSTANTS
  Request = {r1, r2, r3}
  Large = {r3}
  Conn = {}
  Pong = Pong
  Bytes <- MCBytes
  BatchMaxBytes = 3
  BatchMaxSize = 3
  MaxHeld = 2
  MaxHeldBytes = 5
  RequestTimeout = 2
  MaxTime = 3
  MaxLinks = 3
SYMMETRY Symmetry
INVARIANTS
  AnswersAccounted
  SingleLink
  ConnectedHasLink
  DropsOnlyGivenUp
\* The clock and the links are bounded: when they are used up, nothing is left to do.
CHECK_DEADLOCK FALSE
