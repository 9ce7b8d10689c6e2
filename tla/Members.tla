------------------------------- MODULE Members -------------------------------
(***************************************************************************)
(* One organization: its members and their roles, its invitations and the  *)
(* API keys its members created                                            *)
(* (src/apps/api/src/modules/identity, account routes and use cases).      *)
(*                                                                         *)
(* Requests overlap.  A use case reads what is committed, decides, and     *)
(* writes when it commits; nothing locks what it read.  The reads of one   *)
(* request are taken together, its writes together.  save() is an upsert   *)
(* of the whole row.  Two history variables record who lost a race, for    *)
(* the properties to say what such a loss can cost and what it cannot.     *)
(***************************************************************************)
EXTENDS Integers, FiniteSets, OrgRoles

CONSTANTS Users, Invites, \* people (and their e-mails), invitation rows
          OrgJobs,        \* requests that may run at once
          MemberLimits,   \* maxMembers of the plans an account may have
          InviteTtl, MaxDay,
          MaxOrgOps       \* bound on the requests begun

ASSUME MembersAssumption ==
  /\ IsFiniteSet(Users) /\ IsFiniteSet(OrgJobs) /\ OrgJobs # {}
  /\ MemberLimits \subseteq Nat \ {0} /\ MemberLimits # {} /\ InviteTtl \in Nat \ {0}
  /\ MaxDay \in Nat /\ MaxOrgOps \in Nat

NONE == 0
NoInvite == [status |-> "NONE"]

VARIABLES
  level,     \* AccountMember rows: the role level of a user, NONE without a row
  invite,    \* AccountInvitation rows
  orgKey,    \* status of the API key a user created here
  orgStatus, \* Account.status; "NONE" before the account exists
  maxMembers, \* the plan's limit; the plan does not change here
  orgJob,    \* requests between their reads and their commit
  day, orgOps,
  stale,     \* history: requests under way that others have overtaken
  overtaken  \* history: the kinds of request that committed although overtaken

raceVars == <<stale, overtaken>>
orgVars == <<level, invite, orgKey, orgStatus, maxMembers, orgJob, day, orgOps, raceVars>>
NoWork == [op |-> "idle"]

(***************************************************************************)
(* Entities.                                                               *)
(***************************************************************************)
isOwner(l) == l = OWNER
isAdmin(l) == l >= ADMIN
canManage(actor, target) == actor > target
canPromoteTo(actor, l) == l < actor

Invitation_create(by, email, l) ==
  [status |-> "PENDING", by |-> by, email |-> email, level |-> l,
   expiresAt |-> day + InviteTtl]
ensureInviteValid(i) == i.status = "PENDING" /\ i.expiresAt > day
\* Mutant of markAccepted.
marksExpired(i) == [i EXCEPT !.status = "EXPIRED"]
markAccepted(i) == [i EXCEPT !.status = "ACCEPTED"]
cancelInvite(i) == [i EXCEPT !.status = "CANCELED"]

(***************************************************************************)
(* Repositories.                                                           *)
(***************************************************************************)
findByAccountAndUser(u) == level[u]
MembersNow == {u \in Users : level[u] # NONE}
countOwners == Cardinality({u \in Users : isOwner(level[u])})
countMembers == Cardinality(MembersNow)
findInvitesByStatus(s) == {i \in Invites : invite[i].status = s}
findPendingByEmail(e) == {i \in findInvitesByStatus("PENDING") : invite[i].email = e}
saveMembership(u, l) == level' = [level EXCEPT ![u] = l]
deleteMembership(u) == level' = [level EXCEPT ![u] = NONE]
saveInvitation(i, row) == invite' = [invite EXCEPT ![i] = row]
\* seedSystemRoles: every account has its three roles from the start.
findSystemRoleByLevel(l) == l \in RoleLevel
\* Mutant of canAddMember.
canAddMemberLate(n) == n =< maxMembers
canAddMember(n) == n < maxMembers

\* The tables a use case writes, and the ones whose reads it relies on when it
\* commits: a request is overtaken when another writes what it relies on.
writesTo(op) ==
  CASE op = "accept" -> {"members", "invitations"}
    [] op = "remove" -> {"members", "invitations", "keys"}
    [] op \in {"role", "transfer"} -> {"members"}
    [] op \in {"invite", "cancel"} -> {"invitations"}
    [] op = "key" -> {"keys"}
    [] OTHER -> {}
reliesOn(op) ==
  CASE op = "invite" -> {"members", "invitations"}
    [] op = "remove" -> {"members", "keys"}
    [] op \in {"accept", "role", "transfer", "key"} -> {"members"}
    [] OTHER -> {}

Reads(j, work) ==
  /\ orgJob[j] = NoWork /\ orgOps < MaxOrgOps
  /\ orgJob' = [orgJob EXCEPT ![j] = work]
  /\ orgOps' = orgOps + 1
  /\ UNCHANGED <<level, invite, orgKey, orgStatus, day, raceVars>>
Commits(j, op) ==
  /\ orgJob[j].op = op
  /\ orgJob' = [orgJob EXCEPT ![j] = NoWork]
  /\ stale' = {k \in OrgJobs \ {j} :
                 k \in stale \/ writesTo(op) \cap reliesOn(orgJob[k].op) # {}}
  /\ overtaken' = IF j \in stale THEN overtaken \cup {op} ELSE overtaken
  /\ UNCHANGED orgOps

\* The transaction fails, or the write does.
WorkFails(j) ==
  /\ orgJob[j] # NoWork
  /\ orgJob' = [orgJob EXCEPT ![j] = NoWork]
  /\ stale' = stale \ {j}
  /\ UNCHANGED <<level, invite, orgKey, orgStatus, day, orgOps, overtaken>>

(***************************************************************************)
(* Use cases.                                                              *)
(***************************************************************************)
\* The creator must own an active personal account: every verified user does.
CreateOrganization(u) ==
  /\ orgStatus = "NONE"
  /\ orgStatus' = "ACTIVE"
  /\ saveMembership(u, OWNER)
  /\ UNCHANGED <<invite, orgKey, orgJob, day, orgOps, raceVars>>

mayInvite(l, granted) == isAdmin(l) /\ (l = OWNER \/ granted < l)
projectedCount == countMembers + Cardinality(findInvitesByStatus("PENDING"))

InviteMember(j, by, email, granted) ==
  /\ mayInvite(findByAccountAndUser(by), granted)
  /\ canAddMember(projectedCount)
  /\ findPendingByEmail(email) = {}
  /\ findSystemRoleByLevel(granted)
  /\ Reads(j, [op |-> "invite", row |-> Invitation_create(by, email, granted)])

InviteCommits(j) ==
  /\ Commits(j, "invite")
  /\ \E i \in Invites : invite[i] = NoInvite /\ saveInvitation(i, orgJob[j].row)
  /\ UNCHANGED <<level, orgKey, orgStatus, day>>

AcceptInvitation(j, u, i) ==
  /\ ensureInviteValid(invite[i])
  /\ invite[i].email = u
  /\ findByAccountAndUser(u) = NONE
  /\ canAddMember(countMembers)
  /\ Reads(j, [op |-> "accept", user |-> u, inv |-> i, row |-> markAccepted(invite[i])])

AcceptCommits(j) ==
  /\ Commits(j, "accept")
  /\ saveMembership(orgJob[j].user, orgJob[j].row.level)
  /\ saveInvitation(orgJob[j].inv, orgJob[j].row)
  /\ UNCHANGED <<orgKey, orgStatus, day>>

mayChangeRole(actor, target, l) ==
  /\ actor # NONE /\ target # NONE
  /\ isAdmin(actor)
  /\ canManage(actor, target)
  /\ canPromoteTo(actor, l)
  /\ isOwner(target) /\ l # OWNER => countOwners > 1

ChangeMemberRole(j, a, t, l) ==
  /\ mayChangeRole(findByAccountAndUser(a), findByAccountAndUser(t), l)
  /\ findSystemRoleByLevel(l)
  /\ Reads(j, [op |-> "role", user |-> t, level |-> l])

\* updateRole fails when the row has gone.
ChangeRoleCommits(j) ==
  /\ Commits(j, "role")
  /\ level[orgJob[j].user] # NONE
  /\ saveMembership(orgJob[j].user, orgJob[j].level)
  /\ UNCHANGED <<invite, orgKey, orgStatus, day>>

\* Mutant of mayLeave.
mayLeaveAlways(l) == l # NONE
mayLeave(l) == l # NONE /\ (isOwner(l) => countOwners > 1)
\* Mutant of mayRemove.
mayRemoveEqual(actor, target) ==
  actor # NONE /\ target # NONE /\ isAdmin(actor) /\ actor >= target
mayRemove(actor, target) ==
  /\ actor # NONE /\ target # NONE
  /\ isAdmin(actor) /\ canManage(actor, target)
  /\ isOwner(target) => countOwners > 1

RemoveMember(j, a, t) ==
  /\ IF a = t THEN mayLeave(findByAccountAndUser(t))
     ELSE mayRemove(findByAccountAndUser(a), findByAccountAndUser(t))
  /\ Reads(j, [op |-> "remove", user |-> t, keys |-> {u \in {t} : orgKey[u] = "ACTIVE"}])

\* revokeAccess: the keys it saw, and the invitations that are pending now.
revokeKeys(keys) ==
  [u \in Users |-> IF u \in keys /\ orgKey[u] = "ACTIVE" THEN "REVOKED" ELSE orgKey[u]]
\* Mutant of cancelInvitesOf.
cancelsAcceptedToo(t) ==
  [i \in Invites |-> IF invite[i].status = "ACCEPTED" /\ invite[i].by = t
                     THEN cancelInvite(invite[i]) ELSE invite[i]]
cancelInvitesOf(t) ==
  [i \in Invites |-> IF invite[i].status = "PENDING" /\ invite[i].by = t
                     THEN cancelInvite(invite[i]) ELSE invite[i]]
revokeAccess(t, keys) == orgKey' = revokeKeys(keys) /\ invite' = cancelInvitesOf(t)

RemoveCommits(j) ==
  /\ Commits(j, "remove")
  /\ level[orgJob[j].user] # NONE
  /\ revokeAccess(orgJob[j].user, orgJob[j].keys)
  /\ deleteMembership(orgJob[j].user)
  /\ UNCHANGED <<orgStatus, day>>

TransferOwnership(j, a, t) ==
  /\ findByAccountAndUser(t) # NONE
  /\ isOwner(findByAccountAndUser(a)) /\ a # t
  /\ Reads(j, [op |-> "transfer", user |-> a, target |-> t])

TransferCommits(j) ==
  /\ Commits(j, "transfer")
  /\ level' = [level EXCEPT ![orgJob[j].target] = OWNER, ![orgJob[j].user] = ADMIN]
  /\ UNCHANGED <<invite, orgKey, orgStatus, day>>

\* Not in a transaction: the row is read, then saved.
CancelInvitation(j, a, i) ==
  /\ isAdmin(findByAccountAndUser(a))
  /\ invite[i].status = "PENDING"
  /\ Reads(j, [op |-> "cancel", inv |-> i, row |-> cancelInvite(invite[i])])

CancelCommits(j) ==
  /\ Commits(j, "cancel")
  /\ saveInvitation(orgJob[j].inv, orgJob[j].row)
  /\ UNCHANGED <<level, orgKey, orgStatus, day>>

\* The whole account is saved with the new name, its status included.
RenameOrganization(j, a) ==
  /\ isAdmin(findByAccountAndUser(a))
  /\ Reads(j, [op |-> "rename", status |-> orgStatus])

RenameCommits(j) ==
  /\ Commits(j, "rename")
  /\ orgStatus' = orgJob[j].status
  /\ UNCHANGED <<level, invite, orgKey, day>>

\* The key-management module: a member creates a key (CreateApiKey).
MemberCreatesKey(j, u) ==
  /\ level[u] # NONE /\ orgKey[u] # "ACTIVE"
  /\ Reads(j, [op |-> "key", user |-> u])

KeyCommits(j) ==
  /\ Commits(j, "key")
  /\ orgKey' = [orgKey EXCEPT ![orgJob[j].user] = "ACTIVE"]
  /\ UNCHANGED <<level, invite, orgStatus, day>>

\* The billing module changes the account's status.
BillingWrites ==
  /\ orgStatus = "ACTIVE"
  /\ orgStatus' = "SUSPENDED"
  /\ UNCHANGED <<level, invite, orgKey, orgJob, day, orgOps, raceVars>>

DayPasses ==
  /\ day < MaxDay /\ \A j \in OrgJobs : orgJob[j] = NoWork
  /\ day' = day + 1
  /\ UNCHANGED <<level, invite, orgKey, orgStatus, orgJob, orgOps, raceVars>>

(***************************************************************************)
(* The routes.                                                             *)
(***************************************************************************)
postOrganizations == \E u \in Users : CreateOrganization(u)
postInvite(j) ==
  \/ \E by, e \in Users, l \in RoleLevel : InviteMember(j, by, e, l)
  \/ InviteCommits(j)
postAccept(j) ==
  \/ \E u \in Users, i \in Invites : invite[i] # NoInvite /\ AcceptInvitation(j, u, i)
  \/ AcceptCommits(j)
patchRole(j) ==
  \/ \E a, t \in Users, l \in RoleLevel : ChangeMemberRole(j, a, t, l)
  \/ ChangeRoleCommits(j)
deleteMember(j) ==
  \/ \E a, t \in Users : RemoveMember(j, a, t)
  \/ RemoveCommits(j)
postTransfer(j) ==
  \/ \E a, t \in Users : TransferOwnership(j, a, t)
  \/ TransferCommits(j)
deleteInvitation(j) ==
  \/ \E a \in Users, i \in Invites : CancelInvitation(j, a, i)
  \/ CancelCommits(j)
patchOrganization(j) ==
  \/ \E a \in Users : RenameOrganization(j, a)
  \/ RenameCommits(j)

\* What the dashboard is told.
getOrganization(u) ==
  [isOwner |-> isOwner(level[u]), isAdmin |-> isAdmin(level[u]),
   memberCount |-> countMembers,
   activeApiKeys |-> Cardinality({k \in Users : orgKey[k] = "ACTIVE"})]
getMember(viewer, t) ==
  [isYou |-> viewer = t, canManage |-> canManage(level[viewer], level[t])]
getInvitations(u, s) == IF isAdmin(level[u]) THEN findInvitesByStatus(s) ELSE {}
getMe(u) == [member |-> level[u] # NONE, status |-> orgStatus]

(***************************************************************************)
(* The specification.                                                      *)
(***************************************************************************)
MembersInit ==
  /\ level = [u \in Users |-> NONE] /\ invite = [i \in Invites |-> NoInvite]
  /\ orgKey = [u \in Users |-> "NONE"] /\ orgStatus = "NONE"
  /\ orgJob = [j \in OrgJobs |-> NoWork] /\ day = 0 /\ orgOps = 0
  /\ maxMembers \in MemberLimits
  /\ stale = {} /\ overtaken = {}

MembersNext ==
  \/ postOrganizations
  \/ \E j \in OrgJobs :
       \/ postInvite(j) \/ postAccept(j) \/ patchRole(j) \/ deleteMember(j)
       \/ postTransfer(j) \/ deleteInvitation(j) \/ patchOrganization(j) \/ WorkFails(j)
       \/ \E u \in Users : MemberCreatesKey(j, u)
       \/ KeyCommits(j)
  \/ BillingWrites
  \/ DayPasses

MembersSpec == MembersInit /\ [][MembersNext /\ UNCHANGED maxMembers]_orgVars

(***************************************************************************)
(* Properties.                                                             *)
(***************************************************************************)
(* Rows have their types and an invitation's row is written whole.          *)
MembersTypeOK ==
  /\ level \in [Users -> RoleLevel \cup {NONE}]
  /\ orgKey \in [Users -> {"NONE", "ACTIVE", "REVOKED"}]
  /\ \A i \in Invites : invite[i] # NoInvite =>
       /\ invite[i].status \in {"PENDING", "ACCEPTED", "CANCELED"}
       /\ invite[i].email \in Users /\ invite[i].by \in Users
       /\ invite[i].level \in RoleLevel
  /\ day \in 0..MaxDay
  /\ stale \subseteq OrgJobs

(* A request of one of these kinds has committed on reads that another      *)
(* request's commit had made out of date.                                   *)
Raced(ops) == overtaken \cap ops # {}

(* An organization always has an owner: no sequence of invitations to any   *)
(* role, transfers, demotions, removals and departures leaves it without    *)
(* one ("Last OWNER cannot leave without transferring ownership first"),    *)
(* unless an acceptance, a new role or a departure lost a race.             *)
HasOwner ==
  \/ orgStatus # "NONE" => countOwners >= 1
  \/ Raced({"accept", "role", "remove"})

(* Members never exceed the plan: an invitation counts those still pending, *)
(* and acceptance checks again, because they may be accepted in any order.  *)
(* Requests that overlap exceed it, but however often they do by at most    *)
(* one for each other request at once; or two, when a transfer, which saves *)
(* two rows, re-creates those of people who have left meanwhile.            *)
AtOnce == Cardinality(OrgJobs)
WithinMemberLimit ==
  /\ countMembers =< maxMembers + 2 * (AtOnce - 1)
  /\ Raced({"transfer"}) \/ countMembers =< maxMembers + (AtOnce - 1)
  /\ Raced({"accept", "transfer"}) \/ countMembers =< maxMembers

(* Leaving takes away what the member could still use: no key they created  *)
(* stays active, and nobody can join on an invitation they sent, unless the *)
(* departure overlapped the creation of that key or invitation.             *)
NothingLeftBehind ==
  \A u \in Users : level[u] = NONE =>
    /\ orgKey[u] # "ACTIVE" \/ Raced({"key", "remove"})
    /\ \/ \A i \in Invites : invite[i].status = "PENDING" => invite[i].by # u
       \/ Raced({"invite"})

(* What the dashboard shows is what the server will allow: canManage is     *)
(* shown for exactly the members the viewer may remove, and the pending     *)
(* list, shown to those who may invite, has at most one entry per e-mail,   *)
(* unless two invitations overlapped.                                       *)
DashboardHonest ==
  \A u, t \in Users :
    /\ level[u] # NONE /\ level[t] # NONE /\ u # t =>
         (getMember(u, t).canManage <=> mayRemove(level[u], level[t]))
    /\ getOrganization(u).isAdmin <=> mayInvite(level[u], MEMBER)
    /\ \A i, k \in getInvitations(u, "PENDING") :
         invite[i].email = invite[k].email => i = k \/ Raced({"invite"})

(* An organization stays manageable through any sequence of its routes       *)
(* (account.routes, the account use cases), requests that overlap included: *)
(* an owner, no more members than the plan allows, nothing a former member   *)
(* could still use, and a dashboard that offers what the server allows; and  *)
(* each of these is lost only where a request of a few kinds lost a race.    *)
MembersSound ==
  /\ MembersTypeOK
  /\ HasOwner /\ WithinMemberLimit /\ NothingLeftBehind /\ DashboardHonest
=============================================================================
