------------------------------- MODULE Listing -------------------------------
(***************************************************************************)
(* The lists of the dashboard and the admin console, from the finder of a  *)
(* repository through the use case and the route to the hook and the table *)
(* that walks the pages, while rows are inserted and change status.        *)
(*                                                                         *)
(* A listing says how its rows are read: a slice of the table, all of it,  *)
(* or its newest rows up to a cap; where its total comes from; by what its *)
(* rows may be sorted; who may read it; and who cuts the pages.  The rows  *)
(* are those of the reader's account (and, for the keys a plain member     *)
(* lists, the reader's own), numbered in the order of their createdAt.     *)
(***************************************************************************)
EXTENDS Naturals, Sequences, SequencesExt, FiniteSetsExt, OrgRoles

CONSTANTS Listings,    \* the listings of a run
          Limits,      \* page sizes the table offers
          Cap,         \* take of the invitations query
          MaxRows, MaxChanges, MaxTurns \* bounds: rows, status changes, table operations

ASSUME ListingAssumption ==
  /\ Limits \subseteq Nat \ {0} /\ Cap \in Nat \ {0}
  /\ MaxRows \in Nat /\ MaxChanges \in Nat /\ MaxTurns \in Nat

VARIABLES
  listing,   \* the listing on the screen
  role,      \* role level of the reader
  db,        \* status of the rows, in the order of creation
  table,     \* useServerTable: page, limit, filter, sort
  pageFetch, \* the query of the page: what of it has been answered
  shown,     \* the page on the screen
  walk,      \* items of the pages turned since page 1, in order
  before,    \* rows there when the walk began
  changed,   \* what happened to rows during the walk
  count      \* changes and table operations so far

listVars == <<listing, role, db, table, pageFetch, shown, walk, before, changed, count>>

-----------------------------------------------------------------------------
(* Finders of the repositories. *)

Finder(reads, total, sorts) ==
  [reads |-> reads, total |-> total, sorts |-> sorts, level |-> 0, pages |-> "server"]

newestFirst == [by |-> "createdAt", order |-> "desc"]
ByAge == {newestFirst}
ByAny == [by : {"createdAt", "status"}, order : {"asc", "desc"}]

\* take and skip, newest first.
notification_findByUserId == Finder("slice", "none", ByAge)
auditLog_findAll == Finder("slice", "none", ByAge)
auditLog_findByAdminId == auditLog_findAll
auditLog_findByAction == auditLog_findAll
auditLog_findByTargetId == auditLog_findAll
tunnelRequest_findByAgentId == Finder("first", "none", ByAge)
\* The same slice, and a count of the same rows, as two queries of one Promise.all.
feedback_findByUserId == Finder("slice", "count", ByAge)
feedback_findAll == Finder("slice", "count", ByAge)
\* Every row.
tunnelSession_findConnectedByAccount == Finder("all", "none", ByAge)
membership_findAllByAccount == Finder("all", "none", ByAge)
apiKey_findAllByAccount == Finder("all", "none", ByAge)
adminUser_findAll == Finder("all", "none", ByAge)
adminRole_findAll == Finder("all", "none", ByAge)
adminAbility_findAll == Finder("all", "none", ByAge)

-----------------------------------------------------------------------------
(* Use cases and routes. *)

Roles == {0, MEMBER, ADMIN}

Guarded(f, level) == [f EXCEPT !.level = level]
\* Rows read whole, searched, sorted and sliced in memory: one snapshot gives
\* the items and the total.
InMemory(f) == [f EXCEPT !.reads = "slice", !.total = "snapshot", !.sorts = ByAny]

GetAccountMembersUseCase == InMemory(membership_findAllByAccount)
ListApiKeysUseCase == InMemory(apiKey_findAllByAccount)
GetMyFeedbackUseCase == feedback_findByUserId
AdminListFeedbackUseCase == feedback_findAll
GetNotificationsUseCase == notification_findByUserId

GET_members == Guarded(GetAccountMembersUseCase, MEMBER)
GET_apiKeys == Guarded(ListApiKeysUseCase, MEMBER)
GET_invitations == Guarded(Finder("first", "none", ByAge), ADMIN)
GET_me_accounts == Finder("all", "none", ByAge)
GET_tunnels == Guarded(tunnelSession_findConnectedByAccount, MEMBER)
GET_tunnels_history == Guarded(Finder("slice", "count", ByAny), ADMIN)
GET_tunnels_requests == Guarded(Finder("slice", "count", ByAny), ADMIN)
GET_feedback_my == GetMyFeedbackUseCase
GET_admin_feedback == Guarded(AdminListFeedbackUseCase, ADMIN)
GET_notifications == GetNotificationsUseCase
GET_admin_users == Guarded(adminUser_findAll, ADMIN)
GET_admin_roles == Guarded(adminRole_findAll, ADMIN)
GET_admin_abilities == Guarded(adminAbility_findAll, ADMIN)
GET_audit_logs == Guarded(auditLog_findAll, ADMIN)

-----------------------------------------------------------------------------
(* Hooks: what the table pages over. *)

\* The whole batch is in the browser; search, sort and pages are cut there.
InBrowser(r) == [r EXCEPT !.pages = "browser", !.sorts = ByAny, !.total = "snapshot"]
\* One row more than the page tells whether there is another page.
Overfetching(r) == [r EXCEPT !.pages = "overfetch"]

useMembersTableList == GET_members
useApiKeysTableList == GET_apiKeys
useTunnelHistoryTableList == GET_tunnels_history
useTunnelRequests == GET_tunnels_requests
useMyFeedbackTableList == GET_feedback_my
useAdminFeedbackTableList == GET_admin_feedback
useInvitationsTableList == InBrowser(GET_invitations)
useMyAccountsTableList == InBrowser(GET_me_accounts)
useActiveTunnels == InBrowser(GET_tunnels)
useAdminUsersTableList == InBrowser(GET_admin_users)
useAdminRolesTableList == InBrowser(GET_admin_roles)
useAdminAbilitiesTableList == InBrowser(GET_admin_abilities)
useAdminAuditLogList == Overfetching(GET_audit_logs)

(* The tables: their columns offer the sorts the list supports, or none. *)

\* The columns with enableSorting, next to the order the list has by itself.
memberColumns == ByAny
apiKeyColumns == ByAny
historyColumns == ByAny
feedbackColumns == ByAge
adminFeedbackColumns == ByAge
invitationColumns == ByAny
myAccountColumns == ByAny
adminUserColumns == ByAny
adminRoleColumns == ByAny
adminAbilityColumns == ByAny

Table(hook, columns) == [hook EXCEPT !.sorts = @ \cap columns]

MembersTable == Table(useMembersTableList, memberColumns)
ApiKeysView == Table(useApiKeysTableList, apiKeyColumns)
TunnelsView == Table(useTunnelHistoryTableList, historyColumns)
FeedbackHistoryTab == Table(useMyFeedbackTableList, feedbackColumns)
AdminFeedbackTable == Table(useAdminFeedbackTableList, adminFeedbackColumns)
InvitationsTab == Table(useInvitationsTableList, invitationColumns)
MyAccountsTable == Table(useMyAccountsTableList, myAccountColumns)
AdminUsersTable == Table(useAdminUsersTableList, adminUserColumns)
AdminRolesTable == Table(useAdminRolesTableList, adminRoleColumns)
AdminAbilitiesTable == Table(useAdminAbilitiesTableList, adminAbilityColumns)
ActiveTunnelsCard == Table(useActiveTunnels, ByAge)
AuditLogView == Table(useAdminAuditLogList, ByAge)

-----------------------------------------------------------------------------
(* Rows, sorted and cut. *)

Statuses == {"open", "closed"}
Matching(filter) == {i \in DOMAIN db : filter = "all" \/ db[i] = filter}
Key(sort, i) == IF sort.by = "status" THEN IF db[i] = "open" THEN 1 ELSE 0 ELSE i
InOrder(sort, i, j) == IF sort.order = "asc" THEN Key(sort, i) =< Key(sort, j)
                                             ELSE Key(sort, j) =< Key(sort, i)
Sorted(sort, s) == \A i, j \in DOMAIN s : i < j => InOrder(sort, s[i], s[j])

\* The database promises no order between rows with equal keys; sort() in
\* memory is stable, over rows that come in some order.
Orders(sort, S) == {s \in SetToSeqs(S) : Sorted(sort, s)}

SliceShort(s, skip, take) == SubSeq(s, skip + 1, IF skip + take < Len(s) THEN skip + take - 1 ELSE Len(s))
Slice(s, skip, take) == SubSeq(s, skip + 1, IF skip + take < Len(s) THEN skip + take ELSE Len(s))

\* What one read of the rows returns.
Reads ==
  LET S == Matching(table.filter)
      skip == (table.page - 1) * table.limit
      take == IF listing.pages = "overfetch" THEN table.limit + 1 ELSE table.limit
  IN CASE listing.pages = "browser" /\ listing.reads = "first"
            -> {Slice(s, 0, Cap) : s \in Orders(newestFirst, S)}
       [] listing.pages = "browser" /\ listing.reads # "first" -> Orders(newestFirst, S)
       [] OTHER -> {Slice(s, skip, take) : s \in Orders(table.sort, S)}

\* tableResponse; TablePaginationComponent.
ceilDiv(n, m) == (n + m - 1) \div m
pageCountFloor(total, limit) == IF total < limit THEN 1 ELSE total \div limit
pageCount(total, limit) == IF total = 0 THEN 1 ELSE ceilDiv(total, limit)

Position(s, e) == CHOOSE i \in DOMAIN s : s[i] = e
\* paginateAdminUsers and its like: sort and slice the batch.  sort() is stable.
paginate(batch) ==
  LET sorted == CHOOSE s \in SetToSeqs(ToSet(batch)) :
                  \A i, j \in DOMAIN s : i < j =>
                    /\ InOrder(table.sort, s[i], s[j])
                    /\ InOrder(table.sort, s[j], s[i]) =>
                         Position(batch, s[i]) < Position(batch, s[j])
  IN [items |-> Slice(sorted, (table.page - 1) * table.limit, table.limit),
      pages |-> pageCount(Len(batch), table.limit)]

sliceAuditLogPage(rows) ==
  [items |-> IF Len(rows) > table.limit THEN Slice(rows, 0, table.limit) ELSE rows,
   pages |-> IF Len(rows) > table.limit THEN table.page + 1 ELSE table.page]

\* The page a completed query shows.
Page(rows, total) ==
  CASE listing.pages = "browser" -> paginate(rows)
    [] listing.pages = "overfetch" -> sliceAuditLogPage(rows)
    [] OTHER -> [items |-> rows, pages |-> pageCount(total, table.limit)]

-----------------------------------------------------------------------------
(* The walk. *)

Idle == [rows |-> <<>>, read |-> FALSE, total |-> 0, counted |-> FALSE]
Blank == [items |-> <<>>, pages |-> 0]
Broken == <<0>>          \* the pages on the screen are no walk from page 1

\* A walk over a batch that is in the browser is a walk over its rows.
StartWalk ==
  /\ walk' = <<>> /\ changed' = {}
  /\ before' = IF pageFetch'.read THEN ToSet(pageFetch'.rows) ELSE Matching(table'.filter)

ListInit ==
  /\ listing \in Listings /\ role \in Roles
  /\ db \in UNION {[1..n -> Statuses] : n \in 0..MaxRows - 1}
  /\ table \in [page : {1}, limit : Limits, filter : {"all", "open"},
                sort : listing.sorts]
  /\ pageFetch = Idle /\ shown = Blank /\ walk = <<>>
  /\ before = Matching(table.filter) /\ changed = {}
  /\ count = [changes |-> 0, turns |-> 0]

\* The two queries of a page are answered in either order.
ReadRows ==
  /\ role >= listing.level /\ shown = Blank /\ ~pageFetch.read
  /\ \E rows \in Reads : pageFetch' = [pageFetch EXCEPT !.rows = rows, !.read = TRUE,
       !.total = IF listing.total = "snapshot" THEN Cardinality(Matching(table.filter)) ELSE @,
       !.counted = @ \/ listing.total # "count"]
  /\ UNCHANGED <<listing, role, db, table, shown, walk, before, changed, count>>

CountRows ==
  /\ role >= listing.level /\ shown = Blank /\ ~pageFetch.counted /\ listing.total = "count"
  /\ pageFetch' = [pageFetch EXCEPT !.total = Cardinality(Matching(table.filter)), !.counted = TRUE]
  /\ UNCHANGED <<listing, role, db, table, shown, walk, before, changed, count>>

ShowPage ==
  /\ shown = Blank /\ pageFetch.read /\ pageFetch.counted
  /\ shown' = Page(pageFetch.rows, pageFetch.total)
  /\ walk' = IF walk = Broken THEN Broken ELSE walk \o shown'.items
  /\ pageFetch' = IF listing.pages = "browser" THEN pageFetch ELSE Idle
  /\ UNCHANGED <<listing, role, db, table, before, changed, count>>

\* The batch in the browser is fetched again (it is stale, or was invalidated)
\* and the page on the screen cut from the new one.
Refetch ==
  /\ listing.pages = "browser" /\ shown # Blank
  /\ \E rows \in Reads :
       /\ rows # pageFetch.rows
       /\ pageFetch' = [pageFetch EXCEPT !.rows = rows]
       /\ shown' = Page(rows, Len(rows))
  /\ walk' = IF walk = Broken \/ shown'.items = shown.items THEN walk ELSE walk \o shown'.items
  /\ changed' = changed \cup {IF ToSet(pageFetch.rows) \subseteq ToSet(pageFetch'.rows) THEN "grown" ELSE "closed"}
  /\ UNCHANGED <<listing, role, db, table, before, count>>

TableStep ==
  /\ shown # Blank /\ count.turns < MaxTurns
  /\ count' = [count EXCEPT !.turns = @ + 1] /\ shown' = Blank
  /\ UNCHANGED <<listing, role, db>>

\* Pagination offers the pages there are; turning to the next one goes on
\* with the walk, to the first begins another.
setPage ==
  /\ TableStep /\ UNCHANGED pageFetch
  /\ \E p \in 1..shown.pages :
       /\ p # table.page /\ table' = [table EXCEPT !.page = p]
       /\ CASE p = 1 -> StartWalk
            [] p = table.page + 1 -> UNCHANGED <<walk, before, changed>>
            [] OTHER -> walk' = Broken /\ UNCHANGED <<before, changed>>

limitKeepingPage(t, n) == [t EXCEPT !.limit = n]
withLimit(t, n) == [t EXCEPT !.limit = n, !.page = 1]

setLimit ==
  /\ TableStep /\ UNCHANGED pageFetch
  /\ \E n \in Limits \ {table.limit} : table' = withLimit(table, n)
  /\ StartWalk

\* setFilters and setSearch go back to page 1.
withFilters(t, filter) == [t EXCEPT !.filter = filter, !.page = 1]

setFilters ==
  /\ TableStep /\ pageFetch' = Idle
  /\ \E filter \in {"all", "open"} \ {table.filter} : table' = withFilters(table, filter)
  /\ StartWalk

\* setSorting stays on the page.
setSorting ==
  /\ TableStep /\ UNCHANGED pageFetch
  /\ \E s \in listing.sorts \ {table.sort} :
       table' = [table EXCEPT !.sort = s]
  /\ IF table.page = 1 THEN StartWalk
     ELSE walk' = Broken /\ UNCHANGED <<before, changed>>

reset ==
  /\ TableStep /\ pageFetch' = IF table.filter = "all" THEN pageFetch ELSE Idle
  /\ table' = [page |-> 1, limit |-> Min(Limits), filter |-> "all", sort |-> newestFirst]
  /\ StartWalk

Change(what) ==
  /\ count.changes < MaxChanges
  /\ count' = [count EXCEPT !.changes = @ + 1]
  /\ changed' = changed \cup {what}
  /\ UNCHANGED <<listing, role, table, pageFetch, shown, walk, before>>

Insert ==
  /\ Len(db) < MaxRows /\ db' = Append(db, "open") /\ Change("grown")

\* A key is revoked, an invitation answered, a ticket resolved.
CloseRow ==
  \E i \in DOMAIN db :
    /\ db[i] = "open" /\ db' = [db EXCEPT ![i] = "closed"] /\ Change("closed")

ListNext == \/ ReadRows \/ CountRows \/ ShowPage \/ Refetch
            \/ setPage \/ setLimit \/ setFilters \/ setSorting \/ reset
            \/ Insert \/ CloseRow
ListSpec == ListInit /\ [][ListNext]_listVars

-----------------------------------------------------------------------------
(* Properties. *)

WalkDone == shown # Blank /\ walk # Broken /\ table.page = shown.pages
Tied == listing.pages # "browser" /\ table.sort.by # "createdAt"
Visible == IF listing.reads = "first" /\ listing.pages = "browser"
           THEN {i \in before : Cardinality({j \in before : j > i}) < Cap} ELSE before

\* Turning the pages of a list nobody changes meanwhile shows every row the
\* reader may see once, in the order asked for: the offsets of the route, the
\* number of pages of tableResponse, the slices cut in the browser and the row
\* over-fetched from the audit log fit together at every page size.  Lists the
\* database sorts by a column with equal values are left out: it owes them no
\* order from one page to the next.
QuietWalkExact ==
  WalkDone /\ changed = {} /\ ~Tied =>
    /\ ToSet(walk) = Visible
    /\ Len(walk) = Cardinality(Visible)
    /\ Sorted(table.sort, walk)

\* Rows inserted during the walk hide no row that was there when it began,
\* where the total is of the same read as the rows (a list sorted in memory, in the
\* browser or over-fetched) or the order is ascending.  A total counted before the
\* insertion ends a descending walk one page early.
GrowingWalkComplete ==
  WalkDone /\ changed \subseteq {"grown"} /\ ~Tied /\ listing.reads # "first"
    /\ (listing.total # "count" \/ table.sort.order = "asc") =>
       before \subseteq ToSet(walk)

\* Unless rows left the list, the table never sits on a page past the end,
\* showing "No records found" over a list that has some.
NoEmptyPage ==
  shown # Blank /\ changed \subseteq {"grown"} /\ shown.items = <<>> => table.page = 1

\* The tables of the dashboard and of the console (useServerTable, the list
\* hooks, tableResponse and the repositories' queries) page through their lists
\* without losing, repeating or hiding rows.
ListingSound == QuietWalkExact /\ GrowingWalkComplete /\ NoEmptyPage

=============================================================================
