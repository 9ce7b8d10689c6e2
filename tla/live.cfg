SPECIFICATION Spec
CONSTANTS
  a1 = a1
  s1 = s1
  Accounts = {a1}
  Subs = {s1}
  AccountOf <- MCAccountOf
  Deliveries = {d1}
  Checkouts = {c1}
  GracePeriod = 1
  MaxClock = 3
  MaxEvents = 2
  MaxRetries = 1
  KeySlots = {"k1"}
  KnownKeys = {}
  Flushers = {w1}
  Lookers = {r1}
  PlanRate = {1}
  ProRate = 2
  MaxListed = 2
  MaxServed = 2
  MaxMinutes = 0
  MaxLosses = 1
  Sockets = {s1, s2}
  Calls = {c1}
  NoSocket = NoSocket
  MaxQueue = 2
  Tabs = {t1, t2}
  Requests = {r1, r2}
  Nobody = Nobody
  MaxToken = 2
INVARIANTS
  SdkSound
PROPERTIES
  GraceEnds
  CountersDrained
  CallsAnswered
  WebSessionSound
\* A caller may have nothing more to ask for.
CHECK_DEADLOCK FALSE
