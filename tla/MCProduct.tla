----------------------------- MODULE MCProduct ------------------------------
(***************************************************************************)
(* What the people around a tunnel work with, for TLC: the tables, caches, *)
(* forms and charts of the dashboard and the console; notifications,       *)
(* tickets and mails; the agent's cache and replay queue, the hub's        *)
(* request log and what its restarts leave; the counting of requests.      *)
(* They share no state, so a behaviour exercises one of them, which focus  *)
(* names, and leaves the others in one initial state.                      *)
(***************************************************************************)
EXTENDS QueryCache, Listing, UsageChart, Inbox, Mails, Forms,
        ResponseCache, ReplayQueue, RequestLog, HubLifecycle, UsageFlush, TLC

CONSTANTS x1, x2, y1, y2

VARIABLE focus

MCScreens == {memberHooks, keyHooks, bellHooks, adminHooks}
MCListings ==
  {MembersTable, ApiKeysView, TunnelsView, useTunnelRequests, ActiveTunnelsCard,
   FeedbackHistoryTab, AdminFeedbackTable, InvitationsTab, MyAccountsTable,
   AdminUsersTable, AdminRolesTable, AdminAbilitiesTable, AuditLogView}
MCRanges == {[len |-> 2, bucket |-> 1], [len |-> 3, bucket |-> 2]}
MCRates == {1, Unlimited}
MCPaths == {<<"items", "i1">>}

\* The links and people of Mails, the requests of Inbox, ReplayQueue and the
\* limiter, the credentials and forwards of ResponseCache and the flush ticks are
\* interchangeable.
Symmetry == Permutations({x1, x2}) \cup Permutations({y1, y2})

\* The two halves of UsageFlush meet in the accumulator only: a behaviour about
\* the limiter drains nothing, and one about the drains has one minute, no limit,
\* one lookup and the hub does not end in it.
OnePlan ==
  /\ UNCHANGED <<minutes, minuteCounter>>
  /\ planCache # NoPlan => UNCHANGED <<planCache, lookup>>
  /\ planCache'.limit \in {NoPlan.limit, Unlimited}
  /\ \A q, r \in Lookers : lookup'[q] # NoLookup /\ lookup'[r] # NoLookup => q = r

Init ==
  /\ focus \in {"queries", "lists", "chart", "inbox", "mails", "forms",
                "cache", "queue", "log", "lifecycle", "limits", "counters"}
  /\ QueryInit
  /\ focus # "queries" => entry = useNotifications /\ \A m \in Muts : hook[m] = useMarkRead
  /\ ListInit
  /\ focus # "lists" =>
       /\ listing = MembersTable /\ role = 0 /\ db = <<>>
       /\ table = [page |-> 1, limit |-> 1, filter |-> "all", sort |-> newestFirst]
  /\ ChartInit /\ InboxInit
  /\ MailsInit /\ subscription.paidUntil = 0
  /\ FormsInit /\ (focus # "forms" => view = Login)
  /\ CacheInit
  /\ QueueInit /\ (focus # "queue" => queue = <<>>)
  /\ LogInit /\ UsageInit
  /\ LifecycleInit /\ (focus # "lifecycle" => configuredId = None)

Next ==
  /\ UNCHANGED focus
  /\ IF focus = "queries" THEN QueryNext ELSE UNCHANGED queryVars
  /\ IF focus = "lists" THEN ListNext ELSE UNCHANGED listVars
  /\ IF focus = "chart" THEN ChartNext ELSE UNCHANGED chartVars
  /\ IF focus = "inbox" THEN InboxNext ELSE UNCHANGED inboxVars
  /\ IF focus = "mails" THEN MailsNext ELSE UNCHANGED mailVars
  /\ IF focus = "forms" THEN FormsNext ELSE UNCHANGED formVars
  /\ IF focus = "cache" THEN CacheNext ELSE UNCHANGED cacheVars
  /\ IF focus = "queue" THEN QueueNext ELSE UNCHANGED queueVars
  /\ IF focus = "log" THEN LogNext ELSE UNCHANGED logVars
  /\ IF focus = "lifecycle" THEN LifecycleNext ELSE UNCHANGED lifecycleVars
  /\ CASE focus = "limits" -> UsageNext /\ UNCHANGED drainState
       [] focus = "counters" -> UsageNext /\ OnePlan
       [] OTHER -> UNCHANGED usageVars

vars == <<focus, queryVars, listVars, chartVars, inboxVars, mailVars, formVars,
          cacheVars, queueVars, logVars, lifecycleVars, usageVars>>

Spec == Init /\ [][Next]_vars
=============================================================================
