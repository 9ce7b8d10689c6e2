# Vhyxvoid: TLA+ models of the tunnel and of the services around it

Vhyxvoid exposes a developer's local server on a public host name. An *agent* on
the developer's machine keeps a WebSocket to the *hub*; the hub relays HTTP
requests, browser WebSockets and requests of the *SDK* to it. An *API* keeps
users, organizations, keys, billing and usage; a *dashboard* and an *admin
console* are its front ends.

This directory models these parts, checks the models with TLC and proves, with
TLAPS, most of their safety properties for every size of instance (section 4). Paths
below are relative to `src/`.

## 1. The system

### The tunnel

| Part | State | Operations | What is hard |
|---|---|---|---|
| Agent registry (`apps/hub/src/registry/Agent.registry.ts`) | sessions by account and label; indexes by agentId and by socket | `register`, `evict`, `evictAll`, `find*` | five callers, each after its own awaits |
| Pending requests (`registry/Pending.registry.ts`) | request id -> account, label, timer, callbacks | `enqueue`, `resolve`, `reject`, `rejectAllForAgent` | answer, timeout, failed send and disconnect race |
| Tunnel WebSockets (`registry/TunnelWs.registry.ts`) | connection -> browser socket and agentId; agentId -> connections | `add`, `delete`, `closeAllForAgent` | torn down from five sides |
| Routing table (`services/SubdomainRegistry.service.ts`) | Redis: host -> agentId; per-key promise chain | `register`, `unregister` (compare and delete), `resolve`, `unregisterAllForHub` | two commands per unregister; reconnects |
| Message router (`router/Message.router.ts`) | none of its own | `agent:register`, `agent:pong`, `tunnel:response`, `tunnel:agent-error`, batches, `tunnel:ws:*`, `sdk:register`, `sdk:request`, close events | registration awaits authentication, plan, key and slug; row and route are written later, unawaited |
| HTTP and WebSocket handler (`handlers/HttpTunnel.handler.ts`) | request being handled | `handle`, `handleWebSocket`, frames from the agent | agent looked up before the body is awaited |
| Heartbeat, account sweep (`services/`) | `missedPings` of each session | `tick`, `evict`, `handlePong` | eviction does part of what a close does; acts on sessions read before awaits |
| Session rows, request log (`repositories/`) | database rows | `upsert`, `markDisconnected`, `evictStaleForInstance`, `create`, `recordResponse` | unawaited writes in any order |
| Process (`HubServer.ts`, `main.ts`) | instance id | `start`, `stop`, crash | what outlives the process |
| Hub authentication (`services/HubAuth.service.ts`, `packages/shared/src/validateApiKey.ts`) | request-id marks, key cache, rate counters | `authenticateAgent`, `authenticateRequest`, `checkTimestamp`, `markRequestId` | cached key against revocation; marks against the timestamp window |
| Public path usage (`services/PublicPathUsageLimiter`, `HubUsage`) | the minute's counter, an accumulator | `check`, `flush` | restarts and lost writes between three stores |
| Agent (`packages/agent/src`) | connection state, held responses, batch, durable queue, response cache | `onForward`, `onClose`, `flush`, replay, `stop` | reconnects while requests are being served |
| SDK (`packages/sdk/src`) | calls waiting for an answer, sockets, a discovered local agent | `connect`, `request`, `disconnect` | an old socket's events act on the new one; local attempt and fallback |

### The API

| Part | State | Operations | What is hard |
|---|---|---|---|
| Key management (`modules/key-management`) | key rows, cache entries, usage counters | create, update, rotate, revoke, expiry workers, usage flush | read, save and cache delete are three awaits |
| Sessions and tokens (`modules/identity`, user auth) | user, sessions, e-mailed tokens, cached auth state | register, verify, login, refresh, logout, password changes | overlapping transactions under row locks; stale saves |
| Accounts and members (`modules/identity`, accounts) | members, roles, invitations, their keys | invite, accept, cancel, change role, remove, leave, transfer | limits and the last owner checked before the commit |
| Admins (`modules/identity`, admin) | admins, roles, abilities, audit rows | every admin route, seeds | cached guard; handlers of several statements that fail half way |
| Billing (`modules/billing`) | account status and grace deadline, subscriptions, invoices | the webhook handlers, checkout, grace period worker | events reordered, repeated, overlapping and failing |
| Notifications and feedback (`modules/notification`, `modules/feedback`) | notifications, tickets, mails | create, mark read, submit, triage, send | read-then-save; what a mail promises |
| Usage charts (`modules/identity`, tunnel routes) | aggregates, request log | `usage`, `usage/summary`, tunnel usage | windows that are no whole number of buckets |

### The front ends

| Part | State | Operations | What is hard |
|---|---|---|---|
| Web session (`apps/web`, `apps/admin`: `http.ts`, `bootstrapSession`, `crossTabLock`, `AuthGuard`, `proxy.ts`) | access token per tab, shared cookies, refresh queue | calls, refresh, bootstrap, sign in and out | tabs that refresh at once; calls queued behind a refresh |
| Queries (`application/hooks`) | React Query cache | query and mutation hooks with optimistic writes | overlapping mutations, rollback, fetches in flight |
| Lists (`useServerTable`, the list hooks and their repositories) | page, size, filter, sort | turn, sort, filter | rows inserted and changed while pages are walked |
| Forms (`views`, dialogs) | open, draft, submission, timers, a secret shown once | open, submit, close, answers | an answer that meets a closed or reopened dialog |

Every process is Node.js or a browser tab: a handler is never interrupted between
two awaits, and anything may happen at an await. The hub's parts share their
registries by direct calls; rows, Redis and cookies are shared between processes.
The hub and the API meet in the key cache, the account's status and the usage
counters; the hub, the agent and the SDK by messages; the front ends and the API
by calls whose answers may be lost.

What makes each part correct: the registry's maps agree and hold every agent that
was told it is registered; limits hold under races; a caller is answered exactly
once and only by an agent of the account asked for; routes and rows follow the
registry; where a process has a configured identity, nothing of a dead one is listed
or routed after its start; a key, a
session or an admin that was stopped stops within a stated time; an account's
standing follows its subscription whatever the order of events; usage is counted,
and twice only where a drain reads a counter twice; what a screen shows, when it is
quiet, is what the server holds.

## 2. The modules

| Module | Models |
|---|---|
| `AgentRegistry`, `PendingRegistry`, `TunnelWsRegistry`, `SubdomainRegistry` | the hub's four registries and the effects of their operations |
| `Hub` | the handlers: one action per stretch of code between two awaits, composing the four registries |
| `RequestReply` | abstract specification: a request taken up is answered exactly once |
| `HubLifecycle` | starts, stops and crashes of the hub, and the rows and routes that outlive them |
| `RequestLog` | the log of SDK requests, whose writes nobody waits for |
| `ReplayWindow` | admission of signed requests: timestamp window, request-id mark, rate limit |
| `UsageFlush` | counting requests: the hub's limiter and accumulator, Redis, the API's flush worker |
| `AgentClient` | the agent: link and reconnects, batch, held responses, WebSockets to the local backend |
| `ResponseCache` | the agent's proxy and its cache of GET responses, against a backend that changes |
| `ReplayQueue` | the agent's durable queue and its replay |
| `SdkClient` | the SDK's client, the local agent it tries first, and the hub's side of the conversation |
| `ApiKeys` | key rows, their cache entries, validation, rotation, revocation, expiry |
| `Sessions` | sign-up, login, refresh rotation, logout and passwords of one user |
| `Members`, `OrgRoles` | one organization: members, roles, invitations, keys its members made |
| `AdminAccess` | the console's API: admins, roles, abilities, guard, audit |
| `Billing` | Stripe's webhooks, checkout, the grace period worker, the plan in force |
| `Inbox`, `Mails` | notifications and tickets; mails with the links and dates they state |
| `UsageChart`, `Listing` | what the dashboard shows of usage and of lists, from the query to the table |
| `QueryCache`, `WebSession`, `Forms` | the front ends' cache, session and forms |
| `MCHub`, `MCAgentClient`, `MCBilling`, `MCIdentity`, `MCMembers`, `MCProduct`, `MCLive` | instances for TLC |
| `HubProofs`, `HubRoutingProofs` | proofs about `Hub`: registry, limits; routes, rows, tunnels, requests |
| `HubServiceProofs` | proofs about `HubLifecycle` and `ReplayWindow` |
| `AgentClientProofs`, `SdkProofs` | proofs about `AgentClient`, `ReplayQueue`, `ResponseCache`; about `SdkClient`, `RequestLog` |
| `IdentityProofs`, `AccountProofs` | proofs about `ApiKeys`, `AdminAccess`, `Sessions`; about `Members`, `Billing` |
| `ProductProofs` | proofs about `Inbox`, `Mails`, `QueryCache`, `Forms`, `WebSession`, `UsageFlush`, `UsageChart`, `Listing` |

An operator whose comment begins with "Mutant of" is a deliberate error: put in
the place of the definition it names, it must break a property.

### The hub

**State.** A session is created once per agent connection with a fresh agentId,
so a connection (`Socket`) stands for the socket, the session and the agentId.
`byAgentId` and `byWs` are the sets of connections those maps have an entry for.
`Name`, an account and a label, is what a session is filed under and, through
the account's unique slug, what a host name stands for.

**Actions.** `handleAgentRegister` is `Connect`, `Authenticate` (admitted, and
the limit read), then either `RegisterAgent` or `RegisterOverLimit` after the
last await; `Refuse` and `RegisterThrows` are its other ends. `RegisterAgent`
leaves two pieces of work that nobody waits for, the row (`UpsertSession`) and,
chained to it, the route. `onAgentClose` is `OnAgentClose` up to its await and
`OnAgentCloseUnregister` after it. `HeartbeatTick` and the `Sweep...` actions
are the two services. `HttpResolve`, `HttpReadBody`, `HttpForward` and so on are
the stretches of `HttpTunnelHandler.handle`, `Sdk...` those of
`handleSdkRequest`, `Upgrade...`, `Browser...` and `AgentWsClose` those of the
browser WebSockets. What a handler read before an await stays in `rq`,
`upgrade`, `sweepSessions` or `doomed` and is used after it, however stale.

**Abstractions.** Credentials, plan tables, headers, bodies and paths are
nondeterministic outcomes. The account's agent limit is a member of
`PlanLimits`; an unlimited plan is a limit larger than the number of
connections. Each connection registers once. There is one sweep tick at a time.
Request ids are distinct. A database write that fails has no effect, as one that
does not complete. `ws.send` on a socket that is not open does nothing and does
not throw. The keys `hub:pending:*` and `hub:agent:*` in Redis are written and
never read, and are left out. `gone` is a history variable: how a session left
the registry.

`RequestLog` takes the part of the router that writes `TunnelRequest` rows:
`create` looks the session's row up and inserts later, `recordResponse` updates
whatever it finds, and either may fail or overtake the other.

### Admission and usage

`ReplayWindow` follows one validation from the timestamp check, before its first
await, to the mark of the request id and the rate counter; Redis may fail at each,
and the code then lets the request pass (`openMarks` counts that). `MaxDelay`
bounds the time between the two, which is the key's load. `ApiKeys` has the key's
own checks: a management request reads an entity, changes it in memory, saves all
of it and deletes the cache entry; a validation that misses reads the row and
writes the entry. Both interleave, and a delete may be lost. A secret is the
number of its generation. A validation of the gateway and the hub's handshake of an
agent (`loadKeyHash`, `authenticateAgent` in `main.ts`) read the entry first and the
row on a miss; the handshake then checks the status and the expiry of what it read.

`UsageFlush` follows a count from the hub's accumulator through the Redis counters
to `UsageAggregate` rows. A drain is a SCAN, whose pages may return a key more than
once (`MaxListed`) and are appended, a GET per key returned, one DEL and one write per
value read, which for counters without a key is a find and then an update or a
create. Ticks of the worker may overlap. Either process may restart at any of these,
and a write may be lost. `unread` and `rereads` are history: what a counter holds that no
drain has read, and what a drain read that had been read before. The limiter's plan
limit is kept for a minute from the moment its lookup was asked, so into the next
minute, and requests that look it up may overlap.

### The agent

**State.** Each `connect()` makes a new WebSocket, a *link*; links are numbered
and `current` is the one in `this.ws`. `ready` is each link's `readyState`, which
the library sets to CLOSING some time before the close event, and `told` what the
hub said to `agent:register` over it. `buffer`, `batchTimer` and `held` are the
batcher's and the agent's; `wsConnections` maps a browser's WebSocket to the link
it was asked for over. `at` and `fate` are history variables: when a request was
forwarded, and how its answer left the agent (sent; written to a link that is not
open and so lost; dropped as too old or for want of room; given up by `stop`).

**Actions.** `OnOpen`, `OnRegistered`, `OnHubError`, `OnForward`, `OnPing`,
`OnWsOpen` and `OnClose` are the event handlers, each one step as Node.js runs
them; `OnForwardDone` is the rest of `onForward` once the backend has answered;
`Reconnect` and `BatchTimer` are the timers, `Start` and `Stop` the calls of the
agent's owner. `LinkEnds`, `Tick` and the moments at which messages arrive are the
environment's. The WebSocket library is external: it delivers messages while
CLOSING and drops what is sent then, without an exception.

**Abstractions.** A message is a request's answer or a pong, with a size
(`Bytes`), which the batch's and the held responses' limits are about. Time is a
small clock; how long a reconnect or a batch waits is left open. The hub answers
`agent:register` once per link.

The response cache is `ResponseCache`: a response is described by what it was made
from (path, credentials, varying header, version of the resource), the store keeps
its order of insertion, and forwards read the backend at one moment and store at a
later one. The durable queue is `ReplayQueue`; nothing puts requests in it today,
so it starts with the rows an earlier agent left.

### The SDK

`connect()` makes a socket whose handlers write the fields of the one client; the
model keeps every socket, so that an old one's close can meet the new one's
calls. Messages of each direction of a socket are a queue of at most `MaxQueue`;
the connection may drop at any time. A call is first discovered and tried on the
local agent, which may have executed it when the attempt fails.

### The API

`Sessions` models use cases as transactions at READ COMMITTED: reads see what is
committed, a row written or selected FOR UPDATE is locked until the commit, a
`save` writes every column as read, and a transaction may fail at any step and
leave nothing. `Members` takes the reads of a request together and its writes
together, with anything in between, other requests included, and reads nothing under
a lock. `stale` and `overtaken` are history: the requests under way whose reads another
commit has made out of date, and the kinds of those that committed all the same. `AdminAccess`
distinguishes use cases (one transaction, audit row included) from handlers that
work on the repositories in separate statements, any of which may fail.

`Billing` makes every await of a webhook handler a step. Stripe moves its
subscriptions and posts an event for each move; events are delivered in any
order, at the same time, and again when the answer was an error or was lost. The
account repository's updates are guarded by the status they expect. The event
number is Stripe's order of creation, which the code does not read: it is there to
say which deliveries were in order.

`Mails` has the mails that state something the server must keep: the life of a
link, the end of access. Times are in hours. A verification or reset link has its
token; an invitation is a row with a status and an address besides: it may be canceled, and accepting it asks for the invited address, a person who is no
member yet and a free place, each of which may refuse it (whether there is a place is
left open here and followed in `Members`). A new link ends the earlier ones of its
kind where the use case says so. `Inbox` is the read-then-save of
notifications and tickets. `UsageChart` computes the series, totals and hourly
sums over arbitrary rows at arbitrary moments.

### The front ends

`Listing` gives each list by how it is read (a slice, everything, the newest up to
a cap), where its total comes from, what it may be sorted by, who may read it and
who cuts the pages, and walks the pages while rows come and change. `QueryCache`
gives each hook by its key, its optimistic write and its invalidations; an entry
is the set of mutations whose effect it shows. `Forms` gives each dialog and page
form by how it closes and what it does with the answer. `WebSession` is the
interceptor's queue, the lock between tabs, the bootstrap, the guard and the
middleware; tokens and cookies are generation numbers. Wording and layout are left
out throughout.

## 3. What TLC checks

### Passing runs

| Run | Instance | Shows |
|---|---|---|
| `hub_registry` | 1 account, 2 labels, 3 connections, limit 1, 1 missed ping | `IndexesAgree`, `AgentLimit`, `RegisteredUntilClosed`, `LiveRowNotDisconnected`, `TypeOK` |
| `hub_requests` | 2 accounts, one with a host name; 2 connections; 1 request | `PendingFiledUnderAgent`, `StrandedOnlyAfterBody`, `RoutedToOwnAgent`, `LiveRouteNotRemoved` |
| `hub_tunnels` | 1 name, 2 connections, 1 browser, 2 missed pings | `TunnelsOwned` |
| `hub_answers` | 1 connection, 2 requests, with fairness | `RequestsAnswered`: `Hub` implements `RequestReply`; `ClosedSessionsLeave` |
| `agent_answers` | 3 requests, one with an answer larger than a batch; 2 held; 3 links; clock to 3, answers held for 2 | `AnswersAccounted`, `SingleLink`, `ConnectedHasLink`, `DropsOnlyGivenUp` |
| `agent_batches` | 2 requests, 2 browser WebSockets, 3 links, with fairness | `AnswersLeaveBatch`, `BackendSocketsFollowLink` |
| `billing` | 1 subscription, 4 events, 2 deliveries at once, 1 checkout, 1 fault, a clock of 2 moments | `BillingConsistent` |
| `identity` | see below | `KeysBounded`, `RequestsAdmitted`, `SessionsSound`, `AdminSound` |
| `members` | 3 people, 2 invitations, member limits 2 and 3, 2 requests at once and 5 in all, 2 days | `MembersSound` |
| `product` | see below | `QuietMeansFresh`, `ListingSound`, `CacheHonest`, `LogTruthful`, `NothingStaleAfterStart`, `UsageCounted`, `ChartAccountsAll`, `InboxConsistent`, `MailsKeepTheirWord`, `FormsSound`, `ReplayAccounted` |
| `live` | see below, with fairness | `SdkSound`, `GraceEnds`, `CountersDrained`, `CallsAnswered`, `WebSessionSound` |

**The hub.** Two connections under one name give every replacement, and a
reconnect racing what is left of the connection before; a third gives a
registration racing a replacement. One request is enough for the safety
properties, which speak of one request at a time; two requests are rejected
together when an agent is lost. `hub_requests` follows the sweep only while a
request is being handled or waits (`SweepWhileBusy`): a sweep at another time only
takes agents out of the registry, as the heartbeat does. The other runs have no
such constraint. One connection is enough for `ClosedSessionsLeave`: its close
event may come before, between and after the awaits of its registration.
Connections are used once, which bounds every counter but `missed`; a ping count
ends with the eviction at `MaxMissedPings`.

**The agent.** In `agent_answers` the sizes are chosen so that two answers do not
fit in one batch, three pongs fill it, one answer goes past it alone, and both
limits on what is held are met. Three links give an answer held over two
reconnects; the clock passes the time for which answers are held once.

**Billing.** Four events are a subscription that becomes active, falls past due,
recovers or not, and ends, with every pair of them handled at once or in the wrong
order. The fault is a handler or a tick that throws at any await, an answer that
is lost, or a restart. `BillingConsistent` says of every step: a deadline exists
exactly while the account is PAST_DUE, a running grace period is not extended, a
suspended or canceled account is not revived by a webhook, the owner is mailed at most
once per grace period, and when the events were handled in order the rows mirror
Stripe's. Out of order delivery leaves rows that differ from Stripe until the next
event; the property claims nothing else for it, as the code reads no timestamps.

**Sums of components.** `MCIdentity`, `MCProduct` and `MCLive` each put several
components, which share no state, into one specification. A variable `focus`,
chosen at the start, names the one whose steps are taken; the others stay in an
initial state. A run is therefore the union of the runs of the single components,
and each property is checked over all the behaviours of its own component.

- `identity`: one key, an admin and a member, two management requests and a
  validation at once, two secrets, a clock to 3 with a cache life of 1 and a
  rotation grace of 2; two signed messages, each delivered any number of times, two
  validations at once, one Redis failure; one user with two overlapping requests
  (four in all), three sessions, transactions that fail and deletes that are lost; two admins, one of them super, a system and a custom
  role, two overlapping requests (four in all). The clocks pass the
  life of a cached state at least once.
- `product`: the hooks of a screen, two at a time, over every entry they touch;
  thirteen lists of up to three rows, walked in up to three table operations with
  one change of a row; two chart windows, one of which is no whole number of
  buckets; two notifications, a ticket and two requests at once; two links of any
  kind and two people, at the hours around each limit; each of 27 forms opened up to five
  times; a cache of one entry with two credentials and two forwards; a queue of two
  rows, two attempts and two replays; three logged requests; three registrations
  of a hub and any number of crashes, under a configured id, which the processes share,
  or none, when each has one of its own; two requests counted under a key and the
  public path, two ticks at once, a SCAN that returns a key twice, two lookups of the
  limit at once in three minutes, one lost write or restart.
- `live`: two Stripe events and a clock of 3 with a grace period of 1; two
  requests counted under a key that is no row's and the public path, with one lost
  write or restart; two sockets of an SDK client and one call; two tabs with two calls and
  two tokens.

`SdkSound` is the safety side of `CallsAnswered`, on the same instance.

**Members.** Two requests overlap wherever their transactions allow it. Each part of
`MembersSound` is exact: it is lost only when a request of the kinds it names committed on
outdated reads, each of those kinds does lose it, and the limit is then exceeded by
no more than the other requests at once.

**Windows.** In `product` the chart's `Period` is 1, so every row lies on one side of a
window's edge; rows that an edge cuts are left to the theorem `ChartsCorrect`.

**Refinement.** `RequestReply` says that a request is taken up and then answered
once, and that it is answered in the end. Two specifications implement it. In
`Hub`, `RequestsAnswered` maps the state of each request to a phase: new until the
handler takes it up, open while it is handled or pending, answered when one answer
was written. In `SdkClient`, `CallsAnswered` maps a call: new until it is handed to
the hub, open while it waits, answered when its promise settled. A second answer,
an answer to a request that was never open, and a request left for ever would each
be a violation of one of them. They meet at the hub: the hub answers every request
it took up, and a caller whose answer is lost on the way is answered by its own
timer.

**Fairness.** What is assumed fair is what a process does by itself:

- the hub's heartbeat interval and each request's timer fire, and a handler or a
  write waiting for Redis, the database or the rest of a body goes on
  (`hub_answers`);
- the batch's timer, a `setTimeout` of the agent (`agent_batches`);
- the worker's hourly tick, its statements and the clock (`GraceEnds`); a tick may
  fail and the process restart, `MaxRetries` times, since a database that never
  answers keeps an account past due for ever;
- the hub's flush timer (30 s) and the API's (5 min) with the awaits of a drain
  (`CountersDrained`);
- the SDK's own timers (`CallsAnswered`), and nothing of the hub or of the network;
- in the browser, the bootstrap, the guard, the refresh and an API call, which end
  by an answer or an error; the lock between tabs is granted to a tab that keeps
  asking, as the Web Locks queue does, which is strong fairness
  (`WebSessionSound`).

Callers, browsers, agents, users, Stripe and the sweep may do nothing for ever.

Deadlock is not checked: connections, requests, events and clocks are bounded, and
the components really may have nothing more to do.

### Disagreements between the code and what it says

`hub_late_route` is a run that ends in a violation. The other configurations of
this table are kept beside it, to be run in the same way, and end in one too; the
last row has no configuration of its own.

| Configuration | What the code does |
|---|---|
| `hub_late_route` (`MCHub`) | `register` of the routing table writes blindly and is chained to the row's `upsert`: a late one of the older connection overwrites the newer one's route. |
| `hub_orphan_tunnel` (`MCHub`) | The heartbeat evicts an agent without closing its browser WebSockets; the close event that follows finds no session, so nobody does. |
| `hub_sweep_race` (`MCHub`) | The sweep evicts by label after two awaits: an agent that reconnected meanwhile is removed unexamined and untold, with its socket open. |
| `agent_lost_answer` (`MCAgentClient`) | Between CLOSING and the close event the state is still CONNECTED, so a batch flushed then is written to a socket that drops it: the answer is neither sent nor held. |
| `lifecycle_default` (`HubLifecycle`) | `main.ts` configures no instance id, so each process has a random one and start-up cleans nothing of the previous process: `NothingLeftByACrash` is false. |
| `AccessUntilStated` as an invariant of `MailsSpec`, with `Links = {l1, l2}`, `Moments = {0, 1, 24, 72, 96}` (`Mails`) | The mail about a canceled subscription promises access until the end of the paid period; the handler that sends it has just ended the access. |
| `WithinMemberLimit` without `Raced`, in `members.cfg` | Two acceptances that overlap both find the last free place: the count at accept time does not hold the line it is said to hold. |
| `HasOwner` without `Raced`, in `members.cfg` | Two owners who leave at once each count the other: the organization has none. |
| `NeverOvercounts` without `rereads`, in `product.cfg` | A key that SCAN returns twice, or that two ticks read, is added to its row twice by a flush said to be idempotent. |

The passing properties make the following exceptions. They are these findings,
documented trade-offs and the limits listed next, and a hazard they leave open is
said to be open in `PROJECT.json`; the properties say that there are no others.

| Property | Excepts |
|---|---|
| `RegisteredUntilClosed` | a session evicted by a sweep that had examined another (`gone = "mistaken"`) |
| `TunnelsOwned` | tunnels of an agent evicted by the heartbeat, or by that sweep |
| `StrandedOnlyAfterBody` | a request with a body, whose agent left while the body was read |
| `AnswersAccounted` | nothing is left out, but "lost" is one of the ends it counts: an answer flushed while the link is CLOSING |
| `ConnectedHasLink` | a link in CLOSING, and an agent that was stopped |
| `DropsOnlyGivenUp` | speaks of the protocol's timeout, not of a hub that waits longer |
| `NothingStaleAfterStart` | what processes with another id left: all of it where no id is configured |
| `CacheHonest` | in `OwnWritesSeen`, a response whose read overlapped the write (`raced`), and paths that others change too |
| `HasOwner`, `WithinMemberLimit`, `NothingLeftBehind`, `DashboardHonest` | what a request that committed on outdated reads did, of the kinds named (`Raced`) |
| `UsageCounted` | what a drain read again (`rereads`) |
| `RequestsAdmitted`, `SessionsSound` | a mark that Redis refused (`openMarks`); in `SessionLimit`, a rotation |
| `QuietMeansFresh` | the hooks that refresh less than they change (`leavesStale`) |
| `ListingSound` | rows that leave the list during a walk (`changed \subseteq {"grown"}`); a descending walk under a total counted apart; ties |
| `FormsSound` | in `AnswersOwnOpening`, the dialogs that close freely under a submission, and a submission of the feedback dialog made while the timer of an earlier success ran |

Limits of the code met while modelling, which no run is about:

- *Hub.* A `markDisconnected` that reaches the database before the session's
  `upsert` leaves the row CONNECTED for good. Two ticks of the sweep may overlap
  (`AccountStatusSweep.service.ts:83`). An `sdk:request` whose id is still pending
  replaces the entry (`Message.router.ts:583`). `stop()` evicts the agents without
  rejecting their requests (`HubServer.ts:396`). A registration whose lookup throws
  leaves the agent connected and unregistered until the link closes
  (`Message.router.ts:119`). A request answered after its row's `create` failed, or
  answered before it, has no status in the log.
- *Agent.* Held answers are dropped after the protocol's fixed `REQUEST_TIMEOUT_MS`,
  while the hub's wait is configured by `TUNNEL_REQUEST_TIMEOUT_MS`: under a hub that
  waits longer, an answer it still waits for may be dropped (`AgentClient.ts:516`; a
  finding). `DropsOnlyGivenUp` says what the code does, whatever the hub waits.
  A `hub:registered` that arrives after `stop()`
  makes the stopped agent's state CONNECTED. A read that overlaps a write may store
  the older response after the invalidation, which comes before the write
  (`AgentClient.ts:376`), for at most its max-age.
- *Keys and usage.* A whole-entity save that read the key before a revocation may
  write it back as active. The handshake, too, takes a revoked key from the cache for
  as long as its entry lives where the entry's delete was lost. Nothing keeps two
  flush ticks apart (`apiKeyPlugin.ts:206`): each may create the rollup row.
- *Identity.* Where requests on an organization overlap, a key or an invitation made
  by someone who is leaving stays behind, two invitations to one address are both
  pending, and a transfer, which saves both rows whole, brings back a member who left
  meanwhile. An
  invitation that expired stays PENDING and blocks a new one to the address. A
  rename writes back the status it read. A password reset token can be used twice
  by two requests that overlap. Abilities of system roles can be taken away.
- *Billing.* The worker's update is not guarded by the status it read: it may
  suspend an account whose payment landed in between. When the owner's lookup
  throws, the payment failed mail is not sent again.
- *Screens.* Rows with equal sort values may change places between two pages. A row
  that leaves the list between two page reads makes the next page skip one, or be
  empty. The feedback dialog closes 2 s after a success whatever it shows by then
  (`FeedbackButton.tsx:129`): opened again within that time, it is closed under the user,
  and under a submission. A
  feedback ticket that is reopened keeps its `resolvedAt`. A call made between a
  refresh and the end of its handler is queued and settled only by the next
  refresh. The audit list is refreshed by no hook of the console.

## 4. What is proved

TLAPS proves the theorems below for every value of the constants: any number of
connections, requests, tabs, events, and any limits and clocks. Each rests on
an inductive invariant that is stronger than the property; what the strengthening
adds, and why the property needs it, is said with each.

### The hub

`HubProofs`, from `ConstantsAssumption`:

- `TypeCorrect`: `Spec => [](TypeOK /\ Named)`. `TypeOK` alone is not inductive:
  `Named` adds that a connection has a name from the moment it connects, that
  only connections that registered are in the registry, in the sweep's sets and
  in the pending writes, and that a request being handled has its host and its
  agent. With it every lookup `name[w]`, `accounts[name[w]]` has a value.
- `RegistryCorrect`, `IndexesCorrect`: `IndexesAgree` and `RegisteredUntilClosed`.
  The two are inductive together, relative to the first theorem: an eviction by
  name takes the same session out of all three maps only because each session is
  filed under its own name, and `OnAgentClose` may trust `byWs` for the same reason.
- `AgentLimitHolds`: the sessions admitted under a limit of at most m grow only
  in `RegisterAgent`, where `otherAgents` has just been counted in the same
  synchronous step; the argument is the cardinality of the account's sessions
  without the one replaced.

`HubRoutingProofs`, from the same assumption and theorems:

- `TunnelsCorrect`: `TunnelsOwned`. `TunnelInv` adds that a browser whose upgrade
  is being resolved has no entry yet.
- `RowsCorrect`: `LiveRowNotDisconnected`. `RowInv` adds that no `markDisconnected`
  is under way for a session that is registered, and that a session that never
  registered has no row: the writes may then arrive in any order.
- `RoutingCorrect`: `RoutedToOwnAgent`. `LiveRoutesSafe`: `LiveRouteNotRemoved`.
  Both follow from `RouteInv`, which describes the chain of calls waiting for the
  lock of each key: a queued call is for a connection of that name that has
  registered, an `unregister` for one that has left the registry; a call that
  compared and is about to delete is at the head of its chain, and the entry still
  names its agent (`LocksInv`). Entries in Redis name connections of that name that
  have registered (`RedisInv`); the agent a request looked up belongs to its host
  (`RoutedInv`); a closed session whose slug is being read has left the registry
  (`ClosedGone`). Without the lock a `register` could come between the compare and
  the delete.
- `PendingCorrect` and `StrandedCorrect`: `PendingFiledUnderAgent` and
  `StrandedOnlyAfterBody`.
- `AnsweredOnce`: every step of `Hub` is a step of `RequestReply` on the phases of
  the requests, or leaves them alone. This is the safety part of the refinement
  `RequestsAnswered`. The invariant of these three, `RequestInv`, says what each state
  of a request's handler implies (`RequestOk`: an entry is filed exactly while its
  timer runs, and the caller was answered once exactly when the handler is done or
  the entry has left the map), and that the entry of a request whose stale route is
  being removed is awaited by one call (`CleanupInv`).

`HubServiceProofs`, about the hub's start and the admission of signed requests:

- `LifecycleTypeCorrect`, `StartLeavesNothingStale`: `NothingStaleAfterStart` always
  holds, with a configured instance id and without. Of a hub with a configured id it
  says that nothing of an earlier process is left; of the shipped one, whose processes
  have random ids, that nothing of its own id is, and no more (section 3). The
  invariant `Cleaned` also says that, if an id is configured,
  what is listed or routed was written under it, that writes under
  way belong to agents served by the process that is up, and that, once the start's
  cleaning of the rows and then of the routes has succeeded, what is left of them
  is of agents this process serves.
- `AdmissionCorrect`: `RequestsAdmitted`. A message is admitted once, save for
  deliveries whose mark Redis refused, and no minute exceeds the limit. `MarkCovers`
  says that a mark, once set, lasts longer than any validation that passed the
  timestamp check can still wait: it is set no earlier than `ts - Window` and lasts
  `ReplayTtl`, the check passes no later than `ts + Window` and marks within
  `MaxDelay`; so `ReplayTtl > 2 * Window + MaxDelay` is what the code's two constants
  must satisfy (`ReplayAssumption`). `AcceptedByMark` then counts: those admitted and
  those between the mark and the rate counter are at most one more than the failed
  marks. `RateInv` ties the minute's admissions to the counter.

### The agent and the SDK

`AgentClientProofs`:

- `LinkCorrect`, `SingleLinkHolds`, `BackendSocketsFollow`: `SingleLink`,
  `ConnectedHasLink`, `BackendSocketsFollowLink`. `LinkInv` adds that links are
  opened in turn: those before `current` have closed, those after it do not exist
  yet, and while a reconnect is scheduled the current one has closed too. The three
  need this because the handlers do not look at the link an event came over: they
  change the state, and close the backend's WebSockets, for whichever link it was.
- `AnswersCorrect`: `AnswersAccounted`, for any sizes, limits and number of links.
  `AnswersInv` says that the requests forwarded are those with the backend, in the
  batch, among the held and ended, that no two of these sets meet, and that the two
  sequences have no answer twice (`InOnePlace`). `add`, `trim`, `hold` and the two loops
  over messages (`holdAll`, `sendHeldResponses`) are described by a lemma each; a loop
  is a `FoldLeft`, that is a function chosen on the sets of indices, and
  `FoldExists` shows once that there is one.
- `DropsCorrect`: `DropsOnlyGivenUp`. `HeldSince`
  adds that an answer is held no earlier than its request was forwarded.
- `CacheOfProxyCorrect`: `CacheHonest` of the proxy's cache. `ProxyInv` adds that every
  entry is filed under what it answers, with a bounded end (`StoreOk`); that while a
  write to a path runs nothing of that path is stored or was read and is on its way,
  unless a read overlapped it (`WritesClear`); and that what is stored or on its way is
  the current version of every path that no read raced a write on and nobody else
  changed (`Current`). The store is a sequence; `Kept` filters it by a recursive
  function, whose properties are proved by induction on the length.
- `QueueCorrect`: `ReplayAccounted` of the durable queue. `QueueInv` adds what each
  replay is about to do: one that will mark a row done has had the backend's answer.

`SdkProofs`:

- `SdkCorrect`: `SdkSound`. `OneCopy` follows a call through the local attempt, the
  socket's queue, the hub and the answer: it is in one of these places, once.
  `RunsLeft` counts how often it may still be executed, and `Earned` says that an
  answer under way was given by a backend that ran it. Without the first, nothing
  would bound the runs.
- `CallsSettledOnce`: the safety part of the refinement `CallsAnswered`, from the
  same invariant.
- `LogCorrect`: `LogTruthful`. `LogInv` says of every write under way that it writes what
  the agent sent (`CallsTruthful`), since the write that arrives last wins.

### The API

`IdentityProofs`:

- `KeysCorrect`: `KeysBounded`. A key's row is copied four times: read by a
  management request, written back by its save, read by a validation, and written
  to the cache. In `KeysInv`, every secret in a copy is one the key had
  (`SecretsOk`) and its grace ends within the period from the rotation (`GraceBounded`).
  The copies validations use, entries and reads, are dated besides (`Dated`): what
  they say was the row's no longer ago than an entry lives. The saves are not: a
  stale one may revive a revoked row (section 3). What the handshake decides on is a
  copy of the validations' kind, an entry or, on a miss, the row.
- `AdminsCorrect`: `AdminSound`. `AdminInv` says that super admins stay enabled
  (`SupersEnabled`), that a cached active state is within its life and the admin was
  disabled no earlier than it was read (`CachedDated`), that grants are covered by
  audit rows (`GrantsAudited`, with `GrantsFinite` to count them), and what each
  handler has read when it acts on it (`WorkOk`). That an enabled super admin is left
  needs `Supers` nonempty and finite, as the seed makes them.
- `SessionsCorrect`: `SessionsSound`. The invariant is about what the row locks give:
  which steps hold which locks (`LocksHeld`), what a transaction read under them still
  stands (`TxOk`), the session rows in use come before the others and roots are rows
  in use (`RowsInOrder`), a login evicts a session that is still active or has room
  under the limit (`EvictOk`), and a cached auth state is dated (`AuthDated`).

`AccountProofs`:

- `MembersCorrect`: `MembersSound`, for any number of overlapping requests.
  `WorkStands` says what a request has read and relies on; it holds until another
  request that writes it commits, which is when `stale` gets the request (`JobsStand`). A
  request that is not stale may therefore use what it read, and one that is costs only
  what `Raced` names of its kind. `Room` bounds the members by counting those there may
  come to be besides those there are: each acceptance under way brings one, a transfer
  up to two, and a request that commits leaves its place to the others.
- `BillingCorrect`: `BillingConsistent`, in two halves. `StandingInv`: a deadline exists
  exactly while an account is PAST_DUE, with which the second update of
  `markPastDue`, guarded by a missing deadline, never changes anything; the mails due
  or sent in a grace period are at most one; and what each handler holds fits its
  step. `OrderInv`, which holds as long as nothing was out of order: events under way
  are numbered without gaps, the newest of each subscription says where Stripe is and
  every other one is followed by a move of Stripe's from it; the rows are where the last
  event handled left them; and the handler at work has the oldest event and has done
  what its step says, so that a retry after an error or a restart repeats the same
  writes. `disorder`, set by the first delivery out of order, is all that is assumed
  away, as in the property itself.

### The front ends

`ProductProofs`:

- `InboxCorrect` and `MailsCorrect`: `InboxConsistent`, `MailsKeepTheirWord`. The
  invariants are about the copies that handlers save whole, and about the link of
  each kind that a mail states a date for.
- `CacheCorrect`: `QuietMeansFresh`. `CacheInv` says for each entry what stands between
  it and the API: while there is no gap of the kind `leavesStale` lists (`NoGap`), an
  entry that is not invalidated and not written in advance by a running mutation
  shows what the API holds, but for the calls that still run, and so does what a
  fetch has read (`Shows`). It is proved for any set of screens made of the 31 `Hooks`.
- `FormsCorrect`: `FormsSound`, for all 27 forms (`Views`, which the run checks too).
  `SecretsOk`: while a secret is shown its dialog is closed and nothing more is
  awaited. `LeftPage`: a page that was left shows and hears nothing.
- `CookieSpentOnce`: `NoCookieReuse`, a conjunct of `WebSessionSound`. `CookieInv`: the
  refresh under way is that of the tab that holds the lock, and the cookie it read has
  not been exchanged.
- `UsageCorrect`: `UsageCounted`, for any number of overlapping ticks and repeats of a
  key. `CountInv` says that what is stored, accumulated in the hub, unread in the
  counters and held by the drains is no more than was served and read again; and that
  the rollup rows, with the ticks about to create one, are no more than the ticks. These
  are sums over finite sets; they are reasoned about with lemmas on `Total` and `Sigma`,
  proved by induction on the set. `RateHolds` is its conjunct `PublicRateRespected`: a
  cached limit is one that a lookup gave in this minute or the one before.
- `ChartsCorrect`: `ChartAccountsAll`, for any window, period and bucket size: the
  buckets of a series, or the hours of a period, cut the counts into disjoint parts
  whose sums add up (`SigmaParts`), and none exceeds the total (`PeakInTotal`).
- `ListsCorrect`: `ListingSound`, for any set of the 13 `Tables` of the dashboard and the
  console, any page sizes, number of rows, of changes and of table operations. A set
  of rows is listed in one way (`LinedExists`, `LinedOnce`), in which a row's place is the
  number of rows ahead of it (`LinedRanks`); so a page is a slice whose rows have their
  rank between two multiples of the page size (`SliceHolds`). `QuietInv`: while nothing
  changes, the walk is the beginning of that list. `GrowInv`: while rows are only
  inserted, a row that was there moves towards the end of the list or stays, so each is
  on the pages turned or still to come; under a count taken apart from the rows this
  needs the ascending order (`OldestFirst`). `PageInv`: every page that is offered
  begins before the end of the list. A batch in the browser is paged by the same
  lemmas, since a stable sort of rows that come newest first is a strict order (`Ahead`).

### Assumptions

Those on constants are the `ASSUME`s of the modules, which TLC evaluates on every
run: types; finite sets of connections, validations, users, key slots and webhook
deliveries, which a process always has; paths that are not empty; values standing for
"nobody" or "nothing" that are no member of the set they complete; the clock condition
of `ReplayAssumption`; `Supers` nonempty and finite. No theorem has a hypothesis
besides them but `ListsCorrect`, whose `Listings \subseteq Tables` says that the
listings are the code's.

### Only model-checked

- Liveness under fairness, which is out of the prover's reach:
  `ClosedSessionsLeave`, `AnswersLeaveBatch`, `GraceEnds`, `CountersDrained`, the
  liveness halves of `RequestsAnswered` and `CallsAnswered`, and what `WebSessionSound`
  has beyond `NoCookieReuse`, most of which is liveness.

## 5. Plan

Next, in order:

1. `AgentClient` composed with the hub, for the path of an answer across a
   reconnect and for a registration that failed without being refused.
2. Rows that leave a list during a walk (`Listing`): how many rows a walk can then miss.

Not modelled:

- *Protocol* (`packages/protocol`): types, encoding, the text that is signed. The
  models exchange abstract messages.
- *Middleware and Next.js helpers* (`packages/middleware`, `packages/next`): they
  start an agent from a framework's server and keep no state of their own.
- *Hub pub/sub*: its methods do nothing in the single-hub deployment the code
  supports. The internal proxy endpoint: nothing resolves its requests yet.
- *Documentation site and its generator*: pages made at build time.
- *Layout and wording* of the front ends and of mails that state nothing the
  server must keep; tables of plans, which are data.

## 6. Running

    tlc -workers 2 -config hub_registry.cfg MCHub
    tlc -workers 2 -config agent_answers.cfg MCAgentClient
    tlc -workers 2 -config identity.cfg MCIdentity
    tlc -workers 2 -config live.cfg MCLive
    tlc -workers 2 -config lifecycle_default.cfg HubLifecycle
    tlapm HubProofs.tla
    tlapm HubServiceProofs.tla

`PROJECT.json` lists the runs, the mutants, the source lines of every definition,
the findings and the hazards.
