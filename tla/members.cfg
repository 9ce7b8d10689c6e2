SPECIFICATION MembersSpec
CONSTANTS
  Users = {u1, u2, u3}
  Invites = {i1, i2}
  OrgJobs = {j1, j2}
  MemberLimits = {2, 3}
  InviteTtl = 1
  MaxDay = 1
  MaxOrgOps = 5
INVARIANT MembersSound
SYMMETRY Symmetry
\* The bound on requests ends a behaviour.
CHECK_DEADLOCK FALSE
