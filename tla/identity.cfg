SPECIFICATION Spec
CONSTANTS
  u1 = u1
  u2 = u2
  j1 = j1
  j2 = j2
  Keys = {k1}
  Actors = {u1, u2}
  RoleOf <- MCRoleOf
  Limits <- MCLimits
  ScopeChoices <- MCScopeChoices
  Requests = {j1, j2}
  Validators = {v1}
  CacheTtl = 1
  RotationGrace = 2
  KeyLife = 2
  MaxTime = 3
  MaxSecret = 2
  Signed = {"q1", "q2"}
  TsOf <- MCTsOf
  Checks = {j1, j2}
  Window = 1
  ReplayTtl = 4
  MaxDelay = 1
  RateLimit = 1
  Minute = 3
  MaxNow = 6
  MaxFaults = 1
  Jobs = {j1, j2}
  MaxSessions = 1
  MaxFailures = 2
  LockTime = 1
  RefreshTtl = 3
  RotationGraceT = 0
  TokenTtl = 1
  AuthTtl = 1
  MaxSid = 3
  MaxTok = 1
  MaxVersion = 1
  MaxTick = 1
  MaxRequests = 4
  Admins = {"root", "ann"}
  Supers = {"root"}
  Roles = {"Admin", "custom"}
  SystemRoles = {"Admin"}
  Abilities = {"role.assign", "custom.read"}
  SystemAbilities = {"role.assign"}
  AdminJobs = {j1, j2}
  AdminSids = {1, 2}
  AdminTtl = 2
  AdminAuthTtl = 1
  MaxAdminTick = 1
  MaxAdminOps = 4
INVARIANTS
  KeysBounded
  RequestsAdmitted
  SessionsSound
  AdminSound
SYMMETRY Symmetry
\* The bounds on requests and time end a behaviour.
CHECK_DEADLOCK FALSE
