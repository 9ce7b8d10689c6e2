----------------------------- MODULE QueryCache -----------------------------
(***************************************************************************)
(* What the dashboard and the admin console keep of the api's data: the    *)
(* React Query cache as the hooks under application/hooks fill, write,     *)
(* invalidate and roll it back while their mutations overlap.              *)
(*                                                                         *)
(* A cache entry is named by its query key, a sequence; invalidateQueries, *)
(* cancelQueries and setQueriesData act on every entry whose key extends   *)
(* the given one.  The data of an entry is the set of mutations whose      *)
(* effect it shows, the data on the api the set of those it has applied.   *)
(***************************************************************************)
EXTENDS Naturals, Sequences, FiniteSets, SequencesExt

CONSTANTS Muts,           \* mutations of one behaviour
          Screens         \* the sets of hooks those mutations are taken from

-----------------------------------------------------------------------------
(* Keys. *)

\* @vhyx/api-kit createQueryKeys: [name], [name, "list"], [name, "list", params],
\* [name, "detail", id].
createQueryKeys(name) ==
  [all |-> <<name>>, lists |-> <<name, "list">>, list |-> <<name, "list", "params">>,
   detail |-> <<name, "detail", "id">>]

memberKeys == createQueryKeys("members")
meKeys_detail == <<"me", "detail">>
apiKeyKeys == [all |-> <<"api-keys">>, lists |-> <<"api-keys", "list">>, list |-> <<"api-keys", "list", "params">>,
               detail |-> <<"api-keys", "detail", "id">>, usage |-> <<"api-keys", "usage">>]
tunnelKeys_summary == <<"tunnels", "summary">>
billingKeys == [all |-> <<"billing">>, subscription |-> <<"billing", "subscription">>,
                invoices |-> <<"billing", "invoices">>]
feedbackKeys == createQueryKeys("feedback")
notificationKeys == [all |-> <<"notifications">>, list |-> <<"notifications", "list">>]
adminUserKeys == createQueryKeys("admin-users")
adminRoleKeys == createQueryKeys("admin-roles")
adminAbilityKeys == createQueryKeys("admin-abilities")
adminFeedbackKeys == createQueryKeys("admin-feedback")
adminAuditLogKeys == createQueryKeys("admin-audit-logs")
roleAbilitiesKey == <<"admin-role-abilities", "id">>

-----------------------------------------------------------------------------
(* The entries the query hooks read. *)

useMembersData == memberKeys.list
useMembersList == useMembersData
useMembersTableListKey == memberKeys.list \o <<"page">>
useOrgDetail == <<"org", "account">>
usePermissions == useOrgDetail
useInvitations == <<"invitations", "account">>
useMe == meKeys_detail
useMyAccounts == meKeys_detail
useMyProfile == meKeys_detail
useApiKeys == apiKeyKeys.lists
useApiKeysTableListKey == apiKeyKeys.list
useApiKey == apiKeyKeys.detail
useApiKeyUsage == apiKeyKeys.usage
useUsageSummary == tunnelKeys_summary
useSubscription == billingKeys.subscription
useInvoices == billingKeys.invoices
useNotifications == notificationKeys.list
useUnreadCount == notificationKeys.list
useMyFeedback == feedbackKeys.list
useMyFeedbackTableListKey == useMyFeedback
useFeedbackDetail == feedbackKeys.detail
useAdminUsers == adminUserKeys.list
useAdminUserDetail == adminUserKeys.detail
useAdminRolesList == adminRoleKeys.list
useAdminRoleDetail == adminRoleKeys.detail
useRoleAbilities == roleAbilitiesKey
useAdminAbilitiesList == adminAbilityKeys.list
useAdminFeedbackTableListKey == adminFeedbackKeys.list
useAdminFeedbackDetail == adminFeedbackKeys.detail
useAdminAuditLogListKey == adminAuditLogKeys.list

Entries == {useMembersData, useMembersTableListKey, useOrgDetail, useInvitations, useMe, useApiKeys,
            useApiKeysTableListKey, useApiKey, useApiKeyUsage, useUsageSummary, useSubscription, useInvoices,
            useNotifications, useMyFeedback, useFeedbackDetail, useAdminUsers,
            useAdminUserDetail, useAdminRolesList, useAdminRoleDetail, useRoleAbilities,
            useAdminAbilitiesList, useAdminFeedbackTableListKey, useAdminFeedbackDetail,
            useAdminAuditLogListKey}

-----------------------------------------------------------------------------
(* What the calls of the services change on the api, as the entries whose   *)
(* data is another after the call.                                          *)

memberTables == {useMembersData, useMembersTableListKey}
keyTables == {useApiKeys, useApiKeysTableListKey}
counts == {useOrgDetail, useUsageSummary}  \* both show members and active keys as numbers

memberService ==
  [inviteMember |-> {useInvitations}, changeMemberRole |-> memberTables,
   removeMember |-> memberTables \cup {useInvitations, useMe, useApiKey} \cup keyTables \cup counts,
   transferOwnership |-> memberTables \cup {useMe, usePermissions},
   acceptInvitation |-> {useMyAccounts}, cancelInvitation |-> {useInvitations}]
orgService ==
  [createOrg |-> {useMyAccounts}, updateProfile |-> {useMyProfile} \cup memberTables,
   renameOrg |-> {useOrgDetail, useMyAccounts}]
apiKeyService ==
  [create |-> keyTables \cup counts, update |-> keyTables \cup {useApiKey},
   revoke |-> keyTables \cup counts \cup {useApiKey}, rotate |-> keyTables \cup {useApiKey}]
notificationService == [markRead |-> {useNotifications}, markAllRead |-> {useUnreadCount}]
feedbackService == [submit |-> {useMyFeedback}]
billingService == [createCheckout |-> {}, createPortal |-> {}]
adminUserService ==
  [create |-> {useAdminUsers, useAdminAuditLogListKey},
   change |-> {useAdminUsers, useAdminUserDetail, useAdminAuditLogListKey}]
adminRoleService ==
  [create |-> {useAdminRolesList, useAdminAuditLogListKey},
   update |-> {useAdminRolesList, useAdminRoleDetail, useAdminUserDetail, useAdminAuditLogListKey},
   abilities |-> {useRoleAbilities, useAdminAuditLogListKey}]
adminAbilityService ==
  [create |-> {useAdminAbilitiesList, useAdminAuditLogListKey},
   remove |-> {useAdminAbilitiesList, useRoleAbilities, useAdminAuditLogListKey}]
adminFeedbackService == [update |-> {useAdminFeedbackTableListKey, useAdminFeedbackDetail}]

-----------------------------------------------------------------------------
(* The mutation hooks: the call, and the keys each callback acts on. *)

Mutation(call, onSuccess) ==
  [call |-> call, onMutate |-> {}, writes |-> {}, onSuccess |-> onSuccess, onSettled |-> {}]

\* onMutate cancels, snapshots and writes the entries under key, onError restores
\* them, onSettled invalidates them.
Optimistic(call, key) ==
  [call |-> call, onMutate |-> {key}, writes |-> {}, onSuccess |-> {}, onSettled |-> {key}]

\* Mutant of useInviteMember.
useInviteMemberListOnly == Mutation(memberService.inviteMember, {memberKeys.list})
useInviteMember == Mutation(memberService.inviteMember, {memberKeys.list, useInvitations})
useChangeMemberRole == Mutation(memberService.changeMemberRole, {memberKeys.list})
useRemoveMember == Optimistic(memberService.removeMember, memberKeys.lists)
useTransferOwnership == Mutation(memberService.transferOwnership, {memberKeys.list, meKeys_detail})
useAcceptInvitation == Mutation(memberService.acceptInvitation, {meKeys_detail})
useCancelInvitation == Mutation(memberService.cancelInvitation, {useInvitations})
useCreateOrg == Mutation(orgService.createOrg, {meKeys_detail})
useUpdateProfile == Mutation(orgService.updateProfile, {meKeys_detail})
useRenameOrg == Mutation(orgService.renameOrg, {useOrgDetail, meKeys_detail})
useCreateApiKey == Mutation(apiKeyService.create, {apiKeyKeys.lists})
useUpdateApiKey == [Mutation(apiKeyService.update, {apiKeyKeys.lists}) EXCEPT !.writes = {apiKeyKeys.detail}]
useRevokeApiKey == Optimistic(apiKeyService.revoke, apiKeyKeys.lists)
useRotateApiKey == Mutation(apiKeyService.rotate, {apiKeyKeys.all})
useMarkRead == Optimistic(notificationService.markRead, notificationKeys.all)
useMarkAllRead == Optimistic(notificationService.markAllRead, notificationKeys.all)
useSubmitFeedback == Mutation(feedbackService.submit, {feedbackKeys.lists})
useCreateCheckout == Mutation(billingService.createCheckout, {})
useCreatePortal == Mutation(billingService.createPortal, {billingKeys.all})
useCreateAdmin == Mutation(adminUserService.create, {adminUserKeys.all})
useUpdateAdmin == Mutation(adminUserService.change, {adminUserKeys.all, adminUserKeys.detail})
useDisableAdmin == Mutation(adminUserService.change, {adminUserKeys.all, adminUserKeys.detail})
useEnableAdmin == Mutation(adminUserService.change, {adminUserKeys.all, adminUserKeys.detail})
useAssignRoleToAdmin == Mutation(adminUserService.change, {adminUserKeys.detail, adminUserKeys.all})
useRevokeRoleFromAdmin == Mutation(adminUserService.change, {adminUserKeys.detail, adminUserKeys.all})
useCreateRole == Mutation(adminRoleService.create, {adminRoleKeys.all})
useUpdateRole == Mutation(adminRoleService.update, {adminRoleKeys.all, adminRoleKeys.detail})
useAssignAbilityToRole == Mutation(adminRoleService.abilities, {roleAbilitiesKey})
useRevokeAbilityFromRole == Mutation(adminRoleService.abilities, {roleAbilitiesKey})
useCreateAbility == Mutation(adminAbilityService.create, {adminAbilityKeys.all})
useDeleteAbility == Mutation(adminAbilityService.remove, {adminAbilityKeys.all})
useUpdateFeedback == Mutation(adminFeedbackService.update, {adminFeedbackKeys.detail, adminFeedbackKeys.lists})

\* The screens whose mutations a user can have in flight together.
memberHooks == {useInviteMember, useChangeMemberRole, useRemoveMember, useTransferOwnership,
                useAcceptInvitation, useCancelInvitation, useCreateOrg, useUpdateProfile, useRenameOrg}
keyHooks == {useCreateApiKey, useUpdateApiKey, useRevokeApiKey, useRotateApiKey,
             useCreateCheckout, useCreatePortal}
bellHooks == {useMarkRead, useMarkAllRead, useSubmitFeedback}
adminHooks == {useCreateAdmin, useUpdateAdmin, useDisableAdmin, useEnableAdmin, useAssignRoleToAdmin,
               useRevokeRoleFromAdmin, useCreateRole, useUpdateRole, useAssignAbilityToRole,
               useRevokeAbilityFromRole, useCreateAbility, useDeleteAbility, useUpdateFeedback}
Hooks == memberHooks \cup keyHooks \cup bellHooks \cup adminHooks

ASSUME QueryAssumption == \A S \in Screens : S \subseteq Hooks

-----------------------------------------------------------------------------

VARIABLES
  hook,      \* hook[m]: the hook of mutation m
  entry,     \* the entry this behaviour watches: entries do not affect each other
  stage,     \* stage[m]: "idle", "asked", "applied", "done"
  lost,      \* the mutations whose answer was lost after they were applied
  reply,     \* reply[m]: what the response of m says of the entry
  snapshot,  \* snapshot[m]: the data before m's optimistic write
  server,    \* the mutations the api has applied to the data of the entry
  data,      \* the mutations the cached data shows
  stale,     \* the entry is invalidated
  fetch      \* the running fetch: [st: "none", "asked" or "read", got: what it read]

queryVars == <<hook, entry, stage, lost, reply, snapshot, server, data, stale, fetch>>

Running(m) == stage[m] \in {"asked", "applied"}
Matches(keys) == \E k \in keys : IsPrefix(k, entry)
Concerns(h, e) ==
  e \in h.call \/ \E k \in h.onSuccess \cup h.onSettled \cup h.writes : IsPrefix(k, e)
noFetch == [st |-> "none", got |-> {}]
asked == [st |-> "asked", got |-> {}]

QueryInit ==
  /\ \E S \in Screens : hook \in [Muts -> S]
  /\ entry \in {e \in Entries : \A m \in Muts : Concerns(hook[m], e)}
  /\ stage = [m \in Muts |-> "idle"] /\ lost = {}
  /\ reply = [m \in Muts |-> {}] /\ snapshot = [m \in Muts |-> {}]
  /\ server = {} /\ data = {} /\ stale = FALSE /\ fetch = noFetch

\* mutate(): onMutate stops the fetches under its keys and writes the expected
\* result; a written entry counts as fresh.
mutate(m) ==
  LET written == Matches(hook[m].onMutate) IN
  /\ stage[m] = "idle" /\ stage' = [stage EXCEPT ![m] = "asked"]
  /\ snapshot' = [snapshot EXCEPT ![m] = data]
  /\ fetch' = IF written THEN noFetch ELSE fetch
  /\ data' = IF written THEN data \cup {m} ELSE data
  /\ stale' = (stale /\ ~written)
  /\ UNCHANGED <<hook, entry, lost, reply, server>>

\* The api applies the call, and answers with the row as it is then.
applied(m) ==
  /\ stage[m] = "asked" /\ stage' = [stage EXCEPT ![m] = "applied"]
  /\ server' = IF entry \in hook[m].call THEN server \cup {m} ELSE server
  /\ reply' = [reply EXCEPT ![m] = server']
  /\ UNCHANGED <<hook, entry, lost, snapshot, data, stale, fetch>>

\* invalidateQueries(): the entry is stale and is fetched again; a fetch that is
\* already running is dropped.
invalidateQueries(keys) ==
  /\ stale' = (stale \/ Matches(keys))
  /\ fetch' = IF Matches(keys) THEN asked ELSE fetch

succeeds(m) ==
  /\ stage[m] = "applied" /\ stage' = [stage EXCEPT ![m] = "done"]
  /\ data' = IF Matches(hook[m].writes) THEN reply[m] ELSE data
  /\ invalidateQueries(hook[m].onSuccess \cup hook[m].onSettled)
  /\ UNCHANGED <<hook, entry, lost, reply, snapshot, server>>

\* The call is refused, or it is applied and its answer lost: onError restores the
\* snapshot, onSettled invalidates.
fails(m) ==
  /\ Running(m) /\ stage' = [stage EXCEPT ![m] = "done"]
  /\ lost' = IF stage[m] = "applied" THEN lost \cup {m} ELSE lost
  /\ data' = IF Matches(hook[m].onMutate) THEN snapshot[m] ELSE data
  /\ invalidateQueries(hook[m].onSettled)
  /\ UNCHANGED <<hook, entry, reply, snapshot, server>>

\* A mounted query is fetched again: on an interval, on focus, on a new mount.
refetch ==
  /\ fetch = noFetch /\ fetch' = asked
  /\ UNCHANGED <<hook, entry, stage, lost, reply, snapshot, server, data, stale>>

fetchReads ==
  /\ fetch = asked /\ fetch' = [st |-> "read", got |-> server]
  /\ UNCHANGED <<hook, entry, stage, lost, reply, snapshot, server, data, stale>>

fetchEnds ==
  /\ fetch.st = "read" /\ fetch' = noFetch
  /\ \/ data' = fetch.got /\ stale' = FALSE
     \/ UNCHANGED <<data, stale>>
  /\ UNCHANGED <<hook, entry, stage, lost, reply, snapshot, server>>

QueryNext ==
  \/ \E m \in Muts : mutate(m) \/ applied(m) \/ succeeds(m) \/ fails(m)
  \/ refetch \/ fetchReads \/ fetchEnds

QuerySpec == QueryInit /\ [][QueryNext]_queryVars

-----------------------------------------------------------------------------
(* Properties. *)

\* The entries a call changes and its hook is known not to refresh.
leavesStale ==
  {<<useRemoveMember, e>> : e \in {useInvitations, useMe, useApiKey} \cup keyTables \cup counts}
  \cup {<<useTransferOwnership, usePermissions>>}
  \cup {<<useUpdateProfile, e>> : e \in memberTables}
  \cup {<<useCreateApiKey, e>> : e \in counts}
  \cup {<<useUpdateApiKey, useApiKey>>}
  \cup {<<useRevokeApiKey, e>> : e \in counts \cup {useApiKey}}
  \cup {<<h, useAdminAuditLogListKey>> : h \in adminHooks}
  \cup {<<useUpdateRole, useAdminUserDetail>>, <<useDeleteAbility, useRoleAbilities>>}

Refreshed(m) == <<hook[m], entry>> \notin leavesStale
                /\ (m \in lost => Matches(hook[m].onSettled))

\* When no mutation is running and an entry is neither stale nor being fetched,
\* it shows exactly what the api holds: whatever fetches were in flight when the
\* mutations began or ended, whichever of two overlapping optimistic writes was
\* rolled back, no ghost of a refused call stays and no applied call is missing.
\* Left out are the entries a hook is known not to refresh, and hooks without
\* onSettled whose answer was lost.
QuietMeansFresh ==
  ((\A m \in Muts : ~Running(m)) /\ fetch = noFetch /\ ~stale /\ \A m \in server : Refreshed(m))
    => data = server

=============================================================================
