----------------------------- MODULE AdminAccess -----------------------------
(***************************************************************************)
(* The administration console's API: admin accounts, their roles and       *)
(* abilities, admin sessions, the ability guard and its cached state       *)
(* (src/apps/api/src/modules/identity, admin routes and use cases).        *)
(*                                                                         *)
(* A request passes the guard, reads, writes and is audited; requests      *)
(* overlap and no row is locked.  A use case writes and audits in one      *)
(* transaction; a handler that works on the repositories itself does so in *)
(* separate statements, any of which may fail.  save(admin) writes the     *)
(* status that was read.                                                   *)
(***************************************************************************)
EXTENDS Integers, FiniteSets

CONSTANTS Admins, Supers,  \* Supers \subseteq Admins: isSuperAdmin
          Roles, SystemRoles, Abilities, SystemAbilities,
          AdminJobs, AdminSids,
          AdminTtl,        \* life of a refresh token
          AdminAuthTtl,    \* AUTH_STATE_TTL_SEC
          MaxAdminTick, MaxAdminOps

ASSUME AdminAssumption ==
  /\ Supers \subseteq Admins /\ Supers # {} /\ IsFiniteSet(Supers)
  /\ "nobody" \notin Admins /\ SystemRoles \subseteq Roles
  /\ SystemAbilities \subseteq Abilities
  /\ AdminTtl \in Nat \ {0} /\ AdminAuthTtl \in Nat \ {0}
  /\ MaxAdminTick \in Nat /\ MaxAdminOps \in Nat

VARIABLES
  admin,      \* AdminUser rows: "NONE", "ENABLED" or "DISABLED"
  role,       \* AdminRole rows that exist (all of them active)
  ability,    \* AdminAbility rows that exist (all of them active)
  userRole,   \* AdminUserRole: pairs <<admin, role>>
  roleAbility, \* AdminRoleAbility: pairs <<role, ability>>
  aSession,   \* AdminSession rows
  aAuth,      \* Redis: the cached state of an admin
  aJob, aTick, aOps,
  audit,      \* AdminAuditLog: how many rows each action has
  disabledAt  \* when the admin was last disabled

adminVars == <<admin, role, ability, userRole, roleAbility, aSession, aAuth, aJob,
               aTick, aOps, audit, disabledAt>>
adminRows == <<admin, role, ability, userRole, roleAbility, aSession, disabledAt>>

NoASession == [of |-> "nobody", revoked |-> FALSE, expiresAt |-> 0]
NoAAuth == [active |-> FALSE, at |-> -1]
IdleAdminJob == [pc |-> "idle"]
Actions == {"login", "refresh", "logout", "admin.created", "admin.updated", "admin.disabled",
            "admin.enabled", "role.created", "role.updated", "role.assigned",
            "role.revoked", "ability.created", "ability.deleted", "ability.assigned",
            "ability.revoked"}

(***************************************************************************)
(* Entities and repositories.                                              *)
(***************************************************************************)
isSuperAdmin(a) == a \in Supers
ensureCanLoginA(st) == st = "ENABLED"
\* Mutant of canDisable.
canDisableAnyone(a) == TRUE
canDisable(a) == ~isSuperAdmin(a)
mayModifyRole(r) == r \notin SystemRoles
canBeDeleted(b) == b \notin SystemAbilities

findRolesByAdmin(a) == {r \in role : <<a, r>> \in userRole}
findAbilitiesByRole(r) == {b \in ability : <<r, b>> \in roleAbility}
\* Mutant of adminHasAbility.
hasAbilityThroughAnyRole(a, b) == b \in ability /\ \E r \in role : <<r, b>> \in roleAbility
adminHasAbility(a, b) == b \in ability /\ \E r \in role : <<a, r>> \in userRole /\ <<r, b>> \in roleAbility
saveAdmin(a, st) ==
  /\ admin' = [admin EXCEPT ![a] = st]
  /\ disabledAt' = IF st = "DISABLED" /\ admin[a] # st
                   THEN [disabledAt EXCEPT ![a] = aTick] ELSE disabledAt
revokeAllByAdminId(a) ==
  [s \in AdminSids |-> IF aSession[s].of = a THEN [aSession[s] EXCEPT !.revoked = TRUE]
                       ELSE aSession[s]]
AdminSession_create(a) == [of |-> a, revoked |-> FALSE, expiresAt |-> aTick + AdminTtl]
saveAudit(action) == audit' = [audit EXCEPT ![action] = @ + 1]

(***************************************************************************)
(* The guards.                                                             *)
(***************************************************************************)
\* The row of an admin as the cache's loader reads it.
loadAdmin(a) == admin[a] = "ENABLED"
getAdminState(a) == IF aAuth[a] # NoAAuth THEN aAuth[a].active ELSE loadAdmin(a)
adminAuthGuard(a) == admin[a] # "NONE" /\ getAdminState(a)
VerifyAdminAbility(a, b) == isSuperAdmin(a) \/ adminHasAbility(a, b)
requireAbility(a, b) == adminAuthGuard(a) /\ VerifyAdminAbility(a, b)

\* What GET /me/abilities tells the console.
GetAdminAbilities(a) ==
  IF isSuperAdmin(a) THEN ability
  ELSE UNION {findAbilitiesByRole(r) : r \in findRolesByAdmin(a)}

\* The console's pages.
getUser(a) == [status |-> admin[a], isSuperAdmin |-> isSuperAdmin(a), roles |-> findRolesByAdmin(a)]
getRoleAbilities(r) == findAbilitiesByRole(r)
getMyAbilities(a) == IF adminAuthGuard(a) THEN GetAdminAbilities(a) ELSE {}

(***************************************************************************)
(* Requests.                                                               *)
(***************************************************************************)
AStep(j, rec) == aJob' = [aJob EXCEPT ![j] = rec]
Asks(j) == aJob[j].pc = "idle" /\ aOps < MaxAdminOps /\ aOps' = aOps + 1

\* The guard passed and the handler has read what it needs.
Guarded(j, a, b, work) ==
  /\ Asks(j) /\ requireAbility(a, b)
  /\ AStep(j, work)
  /\ UNCHANGED adminRows /\ UNCHANGED <<aAuth, aTick, audit>>

\* Mutant of Transaction.
TransactionUnaudited(j, action) ==
  /\ aJob[j].pc = action
  /\ AStep(j, IdleAdminJob)
  /\ UNCHANGED <<aAuth, aTick, aOps, audit>>
\* A use case: one transaction, its audit row included.
Transaction(j, action) ==
  /\ aJob[j].pc = action
  /\ AStep(j, IdleAdminJob)
  /\ saveAudit(action)
  /\ UNCHANGED <<aAuth, aTick, aOps>>

\* A handler's own write; the audit row is a statement of its own.
HandlerWrites(j, action, next) ==
  /\ aJob[j].pc = action
  /\ AStep(j, next)
  /\ UNCHANGED <<aAuth, aTick, aOps, audit>>

HandlerAudits(j) ==
  /\ aJob[j].pc = "audit"
  /\ AStep(j, IdleAdminJob)
  /\ saveAudit(aJob[j].action)
  /\ UNCHANGED adminRows /\ UNCHANGED <<aAuth, aTick, aOps>>

\* A statement throws: the transaction leaves nothing, a handler what it wrote.
AdminRequestFails(j) ==
  /\ aJob[j].pc \notin {"idle", "cache"}
  /\ AStep(j, IdleAdminJob)
  /\ UNCHANGED adminRows /\ UNCHANGED <<aAuth, aTick, aOps, audit>>

AuditNext(action) == [pc |-> "audit", action |-> action]

\* POST /auth/login: the admin is read before the password is compared.
AdminLoginReads(j, a) ==
  /\ Asks(j) /\ ensureCanLoginA(admin[a])
  /\ AStep(j, [pc |-> "login", a |-> a, status |-> admin[a]])
  /\ UNCHANGED adminRows /\ UNCHANGED <<aAuth, aTick, audit>>

AdminLogin(j, s) ==
  /\ Transaction(j, "login")
  /\ aSession[s] = NoASession
  /\ saveAdmin(aJob[j].a, aJob[j].status)
  /\ aSession' = [aSession EXCEPT ![s] = AdminSession_create(aJob[j].a)]
  /\ UNCHANGED <<role, ability, userRole, roleAbility>>

\* POST /auth/refresh.
AdminRefreshReads(j, s) ==
  /\ Asks(j) /\ aSession[s] # NoASession
  /\ AStep(j, IF aSession[s].revoked THEN [pc |-> "reuse", a |-> aSession[s].of]
              ELSE [pc |-> "refresh", s |-> s])
  /\ ~aSession[s].revoked =>
       aSession[s].expiresAt > aTick /\ ensureCanLoginA(admin[aSession[s].of])
  /\ UNCHANGED adminRows /\ UNCHANGED <<aAuth, aTick, audit>>

AdminRefreshToken(j, n) ==
  LET s == aJob[j].s IN
  /\ Transaction(j, "refresh")
  /\ aSession[n] = NoASession
  /\ aSession' = [aSession EXCEPT ![s].revoked = TRUE,
                                  ![n] = AdminSession_create(aSession[s].of)]
  /\ UNCHANGED <<admin, role, ability, userRole, roleAbility, disabledAt>>

AdminReuse(j) ==
  /\ HandlerWrites(j, "reuse", IdleAdminJob)
  /\ aSession' = revokeAllByAdminId(aJob[j].a)
  /\ UNCHANGED <<admin, role, ability, userRole, roleAbility, disabledAt>>

postLogout(j) ==
  \/ \E a \in Admins, s \in AdminSids :
       /\ Asks(j) /\ adminAuthGuard(a)
       /\ aSession[s].of = a
       /\ AStep(j, [pc |-> "logout", s |-> s])
       /\ UNCHANGED adminRows /\ UNCHANGED <<aAuth, aTick, audit>>
  \/ /\ HandlerWrites(j, "logout", AuditNext("logout"))
     /\ aSession' = [aSession EXCEPT ![aJob[j].s].revoked = TRUE]
     /\ UNCHANGED <<admin, role, ability, userRole, roleAbility, disabledAt>>

\* POST /users
postUsers(j) ==
  \E a, n \in Admins :
    admin[n] = "NONE" /\ Guarded(j, a, "admin.create", [pc |-> "admin.created", a |-> n])
CreateAdmin(j) ==
  /\ Transaction(j, "admin.created")
  /\ admin[aJob[j].a] = "NONE"
  /\ saveAdmin(aJob[j].a, "ENABLED")
  /\ UNCHANGED <<role, ability, userRole, roleAbility, aSession>>

\* PUT /users/:id saves the whole row it read.
putUser(j) ==
  \/ \E a, t \in Admins :
       admin[t] # "NONE" /\ Guarded(j, a, "admin.update",
                                    [pc |-> "admin.updated", a |-> t, status |-> admin[t]])
  \/ /\ HandlerWrites(j, "admin.updated", AuditNext("admin.updated"))
     /\ saveAdmin(aJob[j].a, aJob[j].status)
     /\ UNCHANGED <<role, ability, userRole, roleAbility, aSession>>

\* POST /users/:id/disable and /enable: save, drop the cached state, audit.
postDisable(j) ==
  \/ \E a, t \in Admins :
       /\ admin[t] # "NONE" /\ canDisable(t)
       /\ Guarded(j, a, "admin.disable", [pc |-> "admin.disabled", a |-> t])
  \/ /\ HandlerWrites(j, "admin.disabled",
                      [pc |-> "invalidate", a |-> aJob[j].a, action |-> "admin.disabled"])
     /\ saveAdmin(aJob[j].a, "DISABLED")
     /\ UNCHANGED <<role, ability, userRole, roleAbility, aSession>>

postEnable(j) ==
  \/ \E a, t \in Admins :
       /\ admin[t] # "NONE"
       /\ Guarded(j, a, "admin.enable", [pc |-> "admin.enabled", a |-> t])
  \/ /\ HandlerWrites(j, "admin.enabled",
                      [pc |-> "invalidate", a |-> aJob[j].a, action |-> "admin.enabled"])
     /\ saveAdmin(aJob[j].a, "ENABLED")
     /\ UNCHANGED <<role, ability, userRole, roleAbility, aSession>>

\* invalidateAdmin fails soft.
InvalidateAdmin(j) ==
  /\ aJob[j].pc = "invalidate"
  /\ aAuth' \in {[aAuth EXCEPT ![aJob[j].a] = NoAAuth], aAuth}
  /\ AStep(j, AuditNext(aJob[j].action))
  /\ UNCHANGED adminRows /\ UNCHANGED <<aTick, aOps, audit>>

\* POST /roles, PUT /roles/:id
postRoles(j) ==
  \E a \in Admins, r \in Roles \ role :
    Guarded(j, a, "role.create", [pc |-> "role.created", r |-> r])
CreateRole(j) ==
  /\ Transaction(j, "role.created")
  /\ role' = role \cup {aJob[j].r}
  /\ UNCHANGED <<admin, ability, userRole, roleAbility, aSession, disabledAt>>

putRole(j) ==
  \/ \E a \in Admins, r \in role :
       mayModifyRole(r) /\ Guarded(j, a, "role.update", [pc |-> "role.updated"])
  \/ /\ HandlerWrites(j, "role.updated", AuditNext("role.updated"))
     /\ UNCHANGED adminRows

\* POST and DELETE /users/:adminId/roles
postUserRole(j) ==
  \E a, t \in Admins, r \in role :
    /\ admin[t] # "NONE" /\ ~isSuperAdmin(t)
    /\ Guarded(j, a, "role.assign", [pc |-> "role.assigned", a |-> t, r |-> r])
AssignRoleToAdmin(j) ==
  /\ Transaction(j, "role.assigned")
  /\ userRole' = userRole \cup {<<aJob[j].a, aJob[j].r>>}
  /\ UNCHANGED <<admin, role, ability, roleAbility, aSession, disabledAt>>

deleteUserRole(j) ==
  \E a, t \in Admins, r \in role :
    /\ admin[t] # "NONE" /\ ~isSuperAdmin(t)
    /\ Guarded(j, a, "role.assign", [pc |-> "role.revoked", a |-> t, r |-> r])
RevokeRoleFromAdmin(j) ==
  /\ Transaction(j, "role.revoked")
  /\ <<aJob[j].a, aJob[j].r>> \in userRole
  /\ userRole' = userRole \ {<<aJob[j].a, aJob[j].r>>}
  /\ UNCHANGED <<admin, role, ability, roleAbility, aSession, disabledAt>>

\* POST and DELETE /abilities; deleting cascades to the roles that have it.
postAbilities(j) ==
  \E a \in Admins, b \in Abilities \ ability :
    Guarded(j, a, "ability.create", [pc |-> "ability.created", b |-> b])
CreateAbility(j) ==
  /\ Transaction(j, "ability.created")
  /\ ability' = ability \cup {aJob[j].b}
  /\ UNCHANGED <<admin, role, userRole, roleAbility, aSession, disabledAt>>

\* Mutant of deleteAbility.
deleteAbilityNoCascade(j) ==
  \/ \E a \in Admins, b \in ability :
       canBeDeleted(b) /\ Guarded(j, a, "ability.delete", [pc |-> "ability.deleted", b |-> b])
  \/ /\ HandlerWrites(j, "ability.deleted", AuditNext("ability.deleted"))
     /\ ability' = ability \ {aJob[j].b}
     /\ UNCHANGED <<admin, role, userRole, roleAbility, aSession, disabledAt>>
deleteAbility(j) ==
  \/ \E a \in Admins, b \in ability :
       canBeDeleted(b) /\ Guarded(j, a, "ability.delete", [pc |-> "ability.deleted", b |-> b])
  \/ /\ HandlerWrites(j, "ability.deleted", AuditNext("ability.deleted"))
     /\ aJob[j].b \in ability
     /\ ability' = ability \ {aJob[j].b}
     /\ roleAbility' = {p \in roleAbility : p[2] # aJob[j].b}
     /\ UNCHANGED <<admin, role, userRole, aSession, disabledAt>>

\* POST and DELETE /roles/:roleId/abilities.  The foreign key refuses an
\* ability that has gone.
postRoleAbility(j) ==
  \E a \in Admins, r \in role, b \in ability :
    Guarded(j, a, "role.update", [pc |-> "ability.assigned", r |-> r, b |-> b])
AssignAbilityToRole(j) ==
  /\ Transaction(j, "ability.assigned")
  /\ aJob[j].b \in ability
  /\ roleAbility' = roleAbility \cup {<<aJob[j].r, aJob[j].b>>}
  /\ UNCHANGED <<admin, role, ability, userRole, aSession, disabledAt>>

deleteRoleAbility(j) ==
  \E a \in Admins, r \in role, b \in ability :
    Guarded(j, a, "role.update", [pc |-> "ability.revoked", r |-> r, b |-> b])
RevokeAbilityFromRole(j) ==
  /\ Transaction(j, "ability.revoked")
  /\ <<aJob[j].r, aJob[j].b>> \in roleAbility
  /\ roleAbility' = roleAbility \ {<<aJob[j].r, aJob[j].b>>}
  /\ UNCHANGED <<admin, role, ability, userRole, aSession, disabledAt>>

\* AuthStateCache.getAdmin on a miss: load, then store.
AdminStateLoads(j, a) ==
  /\ Asks(j) /\ aAuth[a] = NoAAuth /\ admin[a] # "NONE"
  /\ AStep(j, [pc |-> "cache", a |-> a, active |-> loadAdmin(a)])
  /\ UNCHANGED adminRows /\ UNCHANGED <<aAuth, aTick, audit>>

AdminStateStores(j) ==
  /\ aJob[j].pc = "cache"
  /\ aAuth' \in {[aAuth EXCEPT ![aJob[j].a] = [active |-> aJob[j].active, at |-> aTick]], aAuth}
  /\ AStep(j, IdleAdminJob)
  /\ UNCHANGED adminRows /\ UNCHANGED <<aTick, aOps, audit>>

\* Mutant of AdminTick.
AdminTickKeepsCache ==
  /\ aTick < MaxAdminTick /\ \A j \in AdminJobs : aJob[j].pc = "idle"
  /\ aTick' = aTick + 1
  /\ UNCHANGED adminRows /\ UNCHANGED <<aAuth, aJob, aOps, audit>>
\* No request outlasts a unit of time.
AdminTick ==
  /\ aTick < MaxAdminTick /\ \A j \in AdminJobs : aJob[j].pc = "idle"
  /\ aTick' = aTick + 1
  /\ aAuth' = [a \in Admins |-> IF aTick + 1 >= aAuth[a].at + AdminAuthTtl
                                THEN NoAAuth ELSE aAuth[a]]
  /\ UNCHANGED adminRows /\ UNCHANGED <<aJob, aOps, audit>>

(***************************************************************************)
(* The specification.                                                      *)
(***************************************************************************)
seedAbilities == ability = SystemAbilities
seedRoles == role = SystemRoles /\ roleAbility = SystemRoles \X SystemAbilities
seedSuperAdmin == admin = [a \in Admins |-> IF a \in Supers THEN "ENABLED" ELSE "NONE"]

AdminInit ==
  /\ seedAbilities /\ seedRoles /\ seedSuperAdmin
  /\ userRole = {} /\ aSession = [s \in AdminSids |-> NoASession]
  /\ aAuth = [a \in Admins |-> NoAAuth] /\ aJob = [j \in AdminJobs |-> IdleAdminJob]
  /\ aTick = 0 /\ aOps = 0 /\ audit = [x \in Actions |-> 0]
  /\ disabledAt = [a \in Admins |-> 0]

SessionRoutes(j) ==
  \/ \E a \in Admins : AdminLoginReads(j, a) \/ AdminStateLoads(j, a)
  \/ \E s \in AdminSids : AdminLogin(j, s) \/ AdminRefreshReads(j, s) \/ AdminRefreshToken(j, s)
  \/ AdminReuse(j) \/ postLogout(j) \/ AdminStateStores(j)

ManagementRoutes(j) ==
  \/ postUsers(j) \/ putUser(j) \/ postDisable(j) \/ postEnable(j)
  \/ postRoles(j) \/ putRole(j) \/ postUserRole(j) \/ deleteUserRole(j)
  \/ postAbilities(j) \/ deleteAbility(j) \/ postRoleAbility(j) \/ deleteRoleAbility(j)
  \/ HandlerAudits(j) \/ InvalidateAdmin(j)

AdminUseCases(j) ==
  \/ CreateAdmin(j) \/ CreateRole(j) \/ AssignRoleToAdmin(j) \/ RevokeRoleFromAdmin(j)
  \/ CreateAbility(j) \/ AssignAbilityToRole(j) \/ RevokeAbilityFromRole(j)

AdminNext ==
  \/ \E j \in AdminJobs :
       SessionRoutes(j) \/ ManagementRoutes(j) \/ AdminUseCases(j) \/ AdminRequestFails(j)
  \/ AdminTick

AdminSpec == AdminInit /\ [][AdminNext]_adminVars

(***************************************************************************)
(* Properties.                                                             *)
(***************************************************************************)
(* Rows have their types, and the join tables refer to rows that exist.     *)
AdminTypeOK ==
  /\ admin \in [Admins -> {"NONE", "ENABLED", "DISABLED"}]
  /\ role \subseteq Roles /\ ability \subseteq Abilities
  /\ userRole \subseteq Admins \X role /\ roleAbility \subseteq role \X ability
  /\ \A s \in AdminSids : aSession[s] # NoASession => admin[aSession[s].of] # "NONE"

(* What the console is told an admin may do, and what its pages show of     *)
(* their roles and the roles' abilities, is what the guard's single query   *)
(* lets them do, in every state that creating, assigning, revoking and      *)
(* deleting can reach.                                                      *)
ConsoleMatchesGuard ==
  \A a \in Admins, b \in ability :
    /\ b \in getMyAbilities(a) <=> requireAbility(a, b)
    /\ VerifyAdminAbility(a, b) <=>
         getUser(a).isSuperAdmin \/ \E r \in getUser(a).roles : b \in getRoleAbilities(r)

(* A disabled admin is refused within the TTL of the cached state, even     *)
(* when the state was loaded before and stored after the change, or Redis   *)
(* lost the delete ("takes effect within the cache TTL").                   *)
DisabledWithinTtl ==
  \A a \in Admins : admin[a] = "DISABLED" /\ adminAuthGuard(a)
                      => aTick < disabledAt[a] + AdminAuthTtl

(* No order of requests locks everybody out: an enabled super admin is      *)
(* left, although handlers write back the status they read.                 *)
SuperAdminRemains == \E a \in Supers : admin[a] = "ENABLED" /\ requireAbility(a, "admin.enable")

(* Every admin, role assignment and role ability that was not seeded has    *)
(* its audit row, although requests fail half way.                          *)
GrantsAudited ==
  /\ Cardinality({a \in Admins : admin[a] # "NONE"}) = Cardinality(Supers) + audit["admin.created"]
  /\ Cardinality(userRole) + audit["role.revoked"] =< audit["role.assigned"]
  /\ Cardinality(roleAbility \ (SystemRoles \X SystemAbilities)) =< audit["ability.assigned"]

(* Access to the console stays sound under overlapping requests that fail    *)
(* half way (admin.routes, the admin use cases, AdminAuthState.service).     *)
AdminSound ==
  /\ AdminTypeOK
  /\ ConsoleMatchesGuard /\ DisabledWithinTtl /\ SuperAdminRemains /\ GrantsAudited

=============================================================================
