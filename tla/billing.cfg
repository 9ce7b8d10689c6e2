SPECIFICATION BillingSpec
CONSTANTS
  a1 = a1
  s1 = s1
  d1 = d1
  d2 = d2
  Accounts = {a1}
  Subs = {s1}
  AccountOf <- MCAccountOf
  Deliveries = {d1, d2}
  Checkouts = {c1}
  GracePeriod = 1
  MaxClock = 1
  MaxEvents = 4
  MaxRetries = 1
PROPERTY BillingConsistent
SYMMETRY Symmetry
\* The bounds on events and time end a behaviour.
CHECK_DEADLOCK FALSE
