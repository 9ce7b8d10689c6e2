SPECIFICATION LifecycleSpec
CONSTANTS
  Agent = {g1, g2}
  Label = {l1}
  Id = {h1, h2}
  None = None
INVARIANT NothingLeftByACrash
\* Each process has an id of its own: when all are taken, none is started.
CHECK_DEADLOCK FALSE
