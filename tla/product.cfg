SPECIFICATION Spec
CONSTANTS
  x1 = x1
  x2 = x2
  y1 = y1
  y2 = y2
  Muts = {1, 2}
  Screens <- MCScreens
  Listings <- MCListings
  Limits = {1, 2}
  Cap = 2
  MaxRows = 3
  MaxChanges = 1
  MaxTurns = 3
  Period = 1
  Ranges <- MCRanges
  Month = 3
  MaxTicks = 4
  MaxQuantity = 2
  Notes = {n1, n2}
  Tickets = {t1}
  Handlers = {x1, x2}
  NoTime = NoTime
  MaxHour = 1
  Links = {x1, x2}
  People = {y1, y2}
  Moments = {0, 1, 24, 72}
  FormViews <- Views
  MaxOpenings = 5
  Paths <- MCPaths
  Creds = {x1, x2}
  Langs = {l1, l2}
  Forwards = {y1, y2}
  MaxAge = 1
  Timeout = 1
  MaxEntries = 1
  MaxNow = 2
  MaxVersion = 1
  Items = {x1, x2}
  Replays = {y1, y2}
  MaxAttempts = 2
  MaxTicksR = 2
  LogRequests = {q1, q2, q3}
  Agent = {g1, g2, g3}
  Label = {l1}
  Id = {h1, h2}
  None = None
  KeySlots = {"k1"}
  KnownKeys = {"k1"}
  Flushers = {y1, y2}
  Lookers = {x1, x2}
  PlanRate <- MCRates
  ProRate = 2
  MaxListed = 2
  MaxServed = 2
  MaxMinutes = 2
  MaxLosses = 1
INVARIANTS
  QuietMeansFresh
  ListingSound
  CacheHonest
  LogTruthful
  NothingStaleAfterStart
  UsageCounted
PROPERTIES
  ChartAccountsAll
  InboxConsistent
  MailsKeepTheirWord
  FormsSound
  ReplayAccounted
SYMMETRY Symmetry
\* The bounds on requests and time end a behaviour.
CHECK_DEADLOCK FALSE
