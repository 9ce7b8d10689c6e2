-------------------------------- MODULE Hub --------------------------------
(***************************************************************************)
(* The tunnel hub (apps/hub/src): agents connect and register, callers'    *)
(* requests and browser WebSockets are relayed to them, and four things    *)
(* may take an agent out of the registry: its socket closing, another      *)
(* registration under its label, the heartbeat and the account sweep.      *)
(*                                                                         *)
(* The hub is one Node.js process.  A handler runs without interruption up *)
(* to its next await, so an action is what runs between two awaits; what a *)
(* handler read before an await is kept in a variable and used after it.   *)
(* Calls the code does not wait for (writes to the database, the routing   *)
(* table in Redis) are pending work that completes, or fails, later and in *)
(* any order the code does not exclude.                                    *)
(***************************************************************************)
EXTENDS Naturals, Sequences, FiniteSets

CONSTANTS Account, Label, \* tenants and the labels their agents use
          Slugged,        \* the accounts that have a slug, so a host name
          Socket,         \* agent connections, one registration each
          Request,        \* requests of HTTP callers and of SDKs
          Conn,           \* browser WebSockets
          PlanLimits,     \* agent limits a plan lookup can return
          MaxMissedPings, \* unanswered pings after which an agent is evicted
          None

ASSUME ConstantsAssumption ==
  /\ Slugged \subseteq Account
  /\ IsFiniteSet(Socket)
  /\ None \notin Socket \cup Request \cup (Account \X Label)
  /\ PlanLimits \subseteq Nat \ {0}
  /\ MaxMissedPings \in Nat \ {0}

VARIABLES
  \* Agent connections.
  ws,        \* state of the hub's end of the socket
  reg,       \* how far handleAgentRegister has got
  name,      \* the account and label the connection registers
  limit,     \* the agent limit read for it
  slug,      \* whether a slug was found, so a host name is routed to it
  missed,    \* session.missedPings
  gone,      \* how the session left the registry
  \* AgentRegistry, PendingRegistry, TunnelWsRegistry, SubdomainRegistry.
  accounts, byAgentId, byWs,
  pending, timers, replies,
  byConnection, ofAgent, browser,
  redis, locks,
  \* Requests and WebSocket upgrades being handled.
  rq,        \* request -> progress, kind, name asked for, agent found
  delivered, \* requests whose forward reached an agent
  upgrade,   \* connection -> agentId read from the routing table
  \* AccountStatusSweepService.tick.
  sweepPc, sweepSessions, doomed,
  \* Work the code does not wait for.
  dbRow,     \* TunnelSession rows
  dbOps,     \* writes of them in flight
  awaitingSlug \* closed sessions whose slug is being read

sockVars  == <<ws, reg, name, limit, slug, missed, gone>>
regVars   == <<accounts, byAgentId, byWs>>
pendVars  == <<pending, timers, replies>>
tunVars   == <<byConnection, ofAgent, browser>>
subVars   == <<redis, locks>>
reqVars   == <<rq, delivered>>
sweepVars == <<sweepPc, sweepSessions, doomed>>
dbVars    == <<dbRow, dbOps, awaitingSlug>>
vars == <<sockVars, regVars, pendVars, tunVars, subVars, reqVars, upgrade,
          sweepVars, dbVars>>

agentRegistry     == INSTANCE AgentRegistry
Name              == agentRegistry!Name
pendingRegistry   == INSTANCE PendingRegistry
tunnelWsRegistry  == INSTANCE TunnelWsRegistry
subdomainRegistry == INSTANCE SubdomainRegistry

\* TunnelSession writes: an upsert, or a markDisconnected with its status.
DbOp == Socket \X {"CONNECTED", "DISCONNECTED", "EVICTED"}

Progress == {"new", "limiting", "reading", "cleaning", "enqueued", "forwarded", "done", "thrown"}

RequestState == [st : Progress, kind : {"none", "get", "post", "sdk"},
                 host : Name \cup {None}, agent : Socket \cup {None}]

TypeOK ==
  /\ ws \in [Socket -> {"absent", "open", "closing", "closed"}]
  /\ reg \in [Socket -> {"none", "limited", "registered", "refused", "failed"}]
  /\ name \in [Socket -> Name \cup {None}]
  /\ limit \in [Socket -> PlanLimits \cup {0}]
  /\ slug \in [Socket -> BOOLEAN]
  /\ missed \in [Socket -> Nat]
  /\ gone \in [Socket -> {"no", "replaced", "closed", "heartbeat", "sweep", "mistaken"}]
  /\ agentRegistry!TypeOK
  /\ pendingRegistry!TypeOK
  /\ tunnelWsRegistry!TypeOK
  /\ subdomainRegistry!TypeOK
  /\ rq \in [Request -> RequestState]
  /\ delivered \in SUBSET Request
  /\ upgrade \in [Conn -> Socket \cup {None}]
  /\ sweepPc \in {"idle", "statuses", "keys", "evict"}
  /\ sweepSessions \in SUBSET Socket
  /\ doomed \in SUBSET Socket
  /\ dbRow \in [Socket -> {"none", "CONNECTED", "DISCONNECTED", "EVICTED"}]
  /\ dbOps \in SUBSET DbOp
  /\ awaitingSlug \in SUBSET Socket

Init ==
  /\ ws = [w \in Socket |-> "absent"]
  /\ reg = [w \in Socket |-> "none"]
  /\ name = [w \in Socket |-> None]
  /\ limit = [w \in Socket |-> 0]
  /\ slug = [w \in Socket |-> FALSE]
  /\ missed = [w \in Socket |-> 0]
  /\ gone = [w \in Socket |-> "no"]
  /\ agentRegistry!Init
  /\ pendingRegistry!Init
  /\ tunnelWsRegistry!Init
  /\ subdomainRegistry!Init
  /\ rq = [r \in Request |-> [st |-> "new", kind |-> "none", host |-> None, agent |-> None]]
  /\ delivered = {}
  /\ upgrade = [c \in Conn |-> None]
  /\ sweepPc = "idle"
  /\ sweepSessions = {}
  /\ doomed = {}
  /\ dbRow = [w \in Socket |-> "none"]
  /\ dbOps = {}
  /\ awaitingSlug = {}

-----------------------------------------------------------------------------
(***************************************************************************)
(* Agent connections and registration.                                     *)
(***************************************************************************)

\* ws.close() by the hub: the close event comes later.
closing(S) == [w \in Socket |-> IF w \in S /\ ws[w] = "open" THEN "closing" ELSE ws[w]]

\* How each session of S that leaves the registry in this step left it.
left(S, how) == [w \in Socket |-> IF w \in S THEN how ELSE gone[w]]

\* An agent connects and sends agent:register for its account and label.
Connect(w, n) ==
  /\ ws[w] = "absent"
  /\ ws' = [ws EXCEPT ![w] = "open"]
  /\ name' = [name EXCEPT ![w] = n]
  /\ UNCHANGED <<reg, limit, slug, missed, gone, regVars, pendVars, tunVars, subVars,
                 reqVars, upgrade, sweepVars, dbVars>>

\* Mutant of Authenticate: one agent more than the plan allows.
AuthenticateOneMore(w) ==
  /\ ws[w] # "absent"
  /\ reg[w] = "none"
  /\ \E m \in PlanLimits : limit' = [limit EXCEPT ![w] = m + 1]
  /\ reg' = [reg EXCEPT ![w] = "limited"]
  /\ UNCHANGED <<ws, name, slug, missed, gone, regVars, pendVars, tunVars, subVars,
                 reqVars, upgrade, sweepVars, dbVars>>

\* authenticateAgent admits it, and resolveAgentLimit has read the limit of
\* the account's plan (PRO's if the lookup failed).  The key record may come
\* from a cache, so what is admitted is not tied to the database's state now.
Authenticate(w) ==
  /\ ws[w] # "absent"
  /\ reg[w] = "none"
  /\ \E m \in PlanLimits : limit' = [limit EXCEPT ![w] = m]
  /\ reg' = [reg EXCEPT ![w] = "limited"]
  /\ UNCHANGED <<ws, name, slug, missed, gone, regVars, pendVars, tunVars, subVars,
                 reqVars, upgrade, sweepVars, dbVars>>

\* A fatal hub:error, and the socket is closed: the credentials are refused,
\* or findApiKeyByPublicId finds no key.
Refuse(w) ==
  /\ ws[w] # "absent"
  /\ reg[w] \in {"none", "limited"}
  /\ reg' = [reg EXCEPT ![w] = "refused"]
  /\ ws' = closing({w})
  /\ UNCHANGED <<name, limit, slug, missed, gone, regVars, pendVars, tunVars, subVars,
                 reqVars, upgrade, sweepVars, dbVars>>

\* A lookup throws: routeAgentMessage sends a non-fatal INTERNAL_ERROR and
\* leaves the socket open, unregistered.
RegisterThrows(w) ==
  /\ ws[w] # "absent"
  /\ reg[w] \in {"none", "limited"}
  /\ reg' = [reg EXCEPT ![w] = "failed"]
  /\ UNCHANGED <<ws, name, limit, slug, missed, gone, regVars, pendVars, tunVars, subVars,
                 reqVars, upgrade, sweepVars, dbVars>>

\* Mutant of otherAgents: a session is taken to be replaced in any case.
otherAgentsIfReplaced(w) ==
  LET count == agentRegistry!countByAccount(name[w][1]) IN
  IF count = 0 THEN 0 ELSE count - 1

\* Sessions the account would have besides the one that w replaces.
otherAgents(w) ==
  agentRegistry!countByAccount(name[w][1]) - (IF accounts[name[w]] # None THEN 1 ELSE 0)

\* The slug has been read; everything else is synchronous.  The limit is
\* reached.
RegisterOverLimit(w) ==
  /\ reg[w] = "limited"
  /\ otherAgents(w) >= limit[w]
  /\ reg' = [reg EXCEPT ![w] = "refused"]
  /\ ws' = closing({w})
  /\ UNCHANGED <<name, limit, slug, missed, gone, regVars, pendVars, tunVars, subVars,
                 reqVars, upgrade, sweepVars, dbVars>>

\* The session is registered; the one under the same label is closed with its
\* tunnels.  The row and, with a slug, the route are written later.
RegisterAgent(w) ==
  LET n == name[w]
      old == {accounts[n]} \ {None} IN
  /\ reg[w] = "limited"
  /\ otherAgents(w) < limit[w]
  /\ reg' = [reg EXCEPT ![w] = "registered"]
  /\ \E found \in BOOLEAN :
       /\ found => n[1] \in Slugged
       /\ slug' = [slug EXCEPT ![w] = found]
  /\ tunnelWsRegistry!closeAllForAgent(old)
  /\ agentRegistry!register(w, n)
  /\ ws' = closing(old)
  /\ gone' = left(old, "replaced")
  /\ dbOps' = dbOps \cup {<<w, "CONNECTED">>}
  /\ UNCHANGED <<name, limit, missed, pendVars, subVars, reqVars, upgrade, sweepVars,
                 dbRow, awaitingSlug>>

\* Mutant of OnAgentClose: the session is looked up by its label.
OnAgentCloseByLabel(w) ==
  /\ ws[w] \in {"open", "closing"}
  /\ ws' = [ws EXCEPT ![w] = "closed"]
  /\ IF reg[w] = "registered"
     THEN /\ agentRegistry!evict({name[w]})
          /\ gone' = left(agentRegistry!evicted({name[w]}), "closed")
          /\ pendingRegistry!rejectAllForAgent({name[w]})
          /\ tunnelWsRegistry!closeAllForAgent({w})
          /\ dbOps' = dbOps \cup {<<w, "DISCONNECTED">>}
          /\ awaitingSlug' = awaitingSlug \cup {w}
     ELSE UNCHANGED <<regVars, gone, pendVars, tunVars, dbOps, awaitingSlug>>
  /\ UNCHANGED <<reg, name, limit, slug, missed, subVars, reqVars, upgrade, sweepVars, dbRow>>

\* The socket's close event: onAgentClose up to its first await.
OnAgentClose(w) ==
  /\ ws[w] \in {"open", "closing"}
  /\ ws' = [ws EXCEPT ![w] = "closed"]
  /\ IF w \in byWs
     THEN /\ agentRegistry!evict({name[w]})
          /\ gone' = left(agentRegistry!evicted({name[w]}), "closed")
          /\ pendingRegistry!rejectAllForAgent({name[w]})
          /\ tunnelWsRegistry!closeAllForAgent({w})
          /\ dbOps' = dbOps \cup {<<w, "DISCONNECTED">>}
          /\ awaitingSlug' = awaitingSlug \cup {w}
     ELSE UNCHANGED <<regVars, gone, pendVars, tunVars, dbOps, awaitingSlug>>
  /\ UNCHANGED <<reg, name, limit, slug, missed, subVars, reqVars, upgrade, sweepVars, dbRow>>

\* The rest of onAgentClose: with the slug, the route is removed.  (An account
\* without one, or a failed read of it, ends the handler with no effect.)
OnAgentCloseUnregister(w) ==
  /\ w \in awaitingSlug
  /\ awaitingSlug' = awaitingSlug \ {w}
  /\ name[w][1] \in Slugged
  /\ subdomainRegistry!unregister(name[w], w, None)
  /\ UNCHANGED <<sockVars, regVars, pendVars, tunVars, reqVars, upgrade, sweepVars, dbRow, dbOps>>

-----------------------------------------------------------------------------
(***************************************************************************)
(* HeartbeatService and AccountStatusSweepService.                         *)
(***************************************************************************)

\* agent:pong.  A pong naming an agentId that is not registered is ignored.
HandlePong(w) ==
  /\ ws[w] \in {"open", "closing"}
  /\ w \in byAgentId
  /\ missed' = [missed EXCEPT ![w] = 0]
  /\ UNCHANGED <<ws, reg, name, limit, slug, gone, regVars, pendVars, tunVars, subVars,
                 reqVars, upgrade, sweepVars, dbVars>>

\* The sessions whose count of unanswered pings reaches the limit at a tick.
missedTooMany == {w \in agentRegistry!allSessions : missed[w] + 1 >= MaxMissedPings}

\* Mutant of HeartbeatTick: a session whose socket is not open is passed over.
HeartbeatTickIfOpen ==
  LET pinged == {w \in agentRegistry!allSessions : ws[w] = "open"}
      out == missedTooMany \cap pinged
      names == {name[w] : w \in out} IN
  /\ agentRegistry!allSessions # {}
  /\ missed' = [w \in Socket |-> IF w \in pinged THEN missed[w] + 1 ELSE missed[w]]
  /\ agentRegistry!evict(names)
  /\ gone' = left(agentRegistry!evicted(names), "heartbeat")
  /\ pendingRegistry!rejectAllForAgent(names)
  /\ dbOps' = dbOps \cup (out \X {"EVICTED"})
  /\ ws' = closing(out)
  /\ UNCHANGED <<reg, name, limit, slug, tunVars, subVars, reqVars, upgrade, sweepVars,
                 dbRow, awaitingSlug>>

\* A tick: every session is pinged and counted, then the silent are evicted.
\* Eviction leaves the agent's tunnels and its route as they are.
HeartbeatTick ==
  LET out == missedTooMany
      names == {name[w] : w \in out} IN
  /\ agentRegistry!allSessions # {}
  /\ missed' = [w \in Socket |-> IF w \in agentRegistry!allSessions THEN missed[w] + 1 ELSE missed[w]]
  /\ agentRegistry!evict(names)
  /\ gone' = left(agentRegistry!evicted(names), "heartbeat")
  /\ pendingRegistry!rejectAllForAgent(names)
  /\ dbOps' = dbOps \cup (out \X {"EVICTED"})
  /\ ws' = closing(out)
  /\ UNCHANGED <<reg, name, limit, slug, tunVars, subVars, reqVars, upgrade, sweepVars,
                 dbRow, awaitingSlug>>

\* The sweep takes the sessions there are now and asks for their accounts.
SweepStart ==
  /\ sweepPc = "idle"
  /\ agentRegistry!allSessions # {}
  /\ sweepPc' = "statuses"
  /\ sweepSessions' = agentRegistry!allSessions
  /\ UNCHANGED <<doomed, sockVars, regVars, pendVars, tunVars, subVars, reqVars, upgrade, dbVars>>

\* The accounts' statuses are in: the sessions of the accounts that are not
\* connectable are to go.
SweepReadStatuses ==
  /\ sweepPc = "statuses"
  /\ sweepPc' = "keys"
  /\ \E inactive \in SUBSET Account :
       doomed' = {w \in sweepSessions : name[w][1] \in inactive}
  /\ UNCHANGED <<sweepSessions, sockVars, regVars, pendVars, tunVars, subVars, reqVars, upgrade,
                 dbVars>>

\* The read fails: this tick is skipped.
SweepReadFails ==
  /\ sweepPc = "statuses"
  /\ sweepPc' = "idle"
  /\ sweepSessions' = {}
  /\ UNCHANGED <<doomed, sockVars, regVars, pendVars, tunVars, subVars, reqVars, upgrade, dbVars>>

\* The keys' states are in: the sessions whose key no longer admits them are
\* to go as well (none of them if this read fails).
SweepReadKeys ==
  /\ sweepPc = "keys"
  /\ sweepPc' = "evict"
  /\ \E rejected \in SUBSET sweepSessions : doomed' = doomed \cup rejected
  /\ sweepSessions' = {}
  /\ UNCHANGED <<sockVars, regVars, pendVars, tunVars, subVars, reqVars, upgrade, dbVars>>

\* Each of them is evicted: by label from the registry and from the pending
\* requests, by agentId from the tunnels and in the database, and its own
\* socket is told why and closed.
SweepEvict ==
  LET names == {name[w] : w \in doomed}
      out == agentRegistry!evicted(names) IN
  /\ sweepPc = "evict"
  /\ sweepPc' = "idle"
  /\ doomed' = {}
  /\ agentRegistry!evict(names)
  /\ gone' = [w \in Socket |-> IF w \in out \cap doomed THEN "sweep"
                               ELSE IF w \in out THEN "mistaken" ELSE gone[w]]
  /\ pendingRegistry!rejectAllForAgent(names)
  /\ tunnelWsRegistry!closeAllForAgent(doomed)
  /\ dbOps' = dbOps \cup (doomed \X {"EVICTED"})
  /\ ws' = closing(doomed)
  /\ UNCHANGED <<reg, name, limit, slug, missed, subVars, reqVars, upgrade, sweepSessions,
                 dbRow, awaitingSlug>>

-----------------------------------------------------------------------------
(***************************************************************************)
(* Writes that nobody waits for.  One that fails has no effect, as one that *)
(* never completes: a failure is not an action of its own.                 *)
(***************************************************************************)

\* TunnelSessionRepository.upsert succeeds; then, with a slug, the route is
\* registered.
UpsertSession(w) ==
  /\ <<w, "CONNECTED">> \in dbOps
  /\ dbOps' = dbOps \ {<<w, "CONNECTED">>}
  /\ dbRow' = [dbRow EXCEPT ![w] = "CONNECTED"]
  /\ IF slug[w] THEN subdomainRegistry!register(name[w], w) ELSE UNCHANGED subVars
  /\ UNCHANGED <<sockVars, regVars, pendVars, tunVars, reqVars, upgrade, sweepVars, awaitingSlug>>

\* Mutant of MarkDisconnected: the rows of the account and label.
MarkLabelDisconnected(w, status) ==
  /\ status # "CONNECTED"
  /\ <<w, status>> \in dbOps
  /\ dbOps' = dbOps \ {<<w, status>>}
  /\ dbRow' = [v \in Socket |-> IF dbRow[v] = "CONNECTED" /\ name[v] = name[w]
                                THEN status ELSE dbRow[v]]
  /\ UNCHANGED <<sockVars, regVars, pendVars, tunVars, subVars, reqVars, upgrade, sweepVars,
                 awaitingSlug>>

\* markDisconnected changes a row that is CONNECTED, and no other.
MarkDisconnected(w, status) ==
  /\ status # "CONNECTED"
  /\ <<w, status>> \in dbOps
  /\ dbOps' = dbOps \ {<<w, status>>}
  /\ dbRow' = [dbRow EXCEPT ![w] = IF @ = "CONNECTED" THEN status ELSE @]
  /\ UNCHANGED <<sockVars, regVars, pendVars, tunVars, subVars, reqVars, upgrade, sweepVars,
                 awaitingSlug>>

\* A step of the call that holds the lock of a name, which leaves it running.
SubdomainRead(n) ==
  /\ subdomainRegistry!GetOwn(n)
  /\ UNCHANGED <<sockVars, regVars, pendVars, tunVars, reqVars, upgrade, sweepVars, dbVars>>

\* A step that ends the call.  An HTTP request that waits for it, for its
\* stale-entry cleanup, is answered: 503, or 500 when Redis failed.
SubdomainSettle(n) ==
  LET r == subdomainRegistry!running(n).req IN
  /\ \/ subdomainRegistry!Set(n)
     \/ subdomainRegistry!GetOther(n)
     \/ subdomainRegistry!Del(n)
     \/ subdomainRegistry!Fail(n)
  /\ IF r # None
     THEN /\ pendingRegistry!answer(r)
          /\ rq' = [rq EXCEPT ![r].st = "done"]
     ELSE UNCHANGED <<pendVars, rq>>
  /\ UNCHANGED <<sockVars, regVars, tunVars, delivered, upgrade, sweepVars, dbVars>>

-----------------------------------------------------------------------------
(***************************************************************************)
(* Requests: over HTTP to a tunnel's host name, and from SDKs.             *)
(***************************************************************************)

notRequests == <<sockVars, regVars, tunVars, upgrade, sweepVars, dbVars>>

advance(r, st) == rq' = [rq EXCEPT ![r].st = st]

\* ws.send reaches the agent only while its socket is open; on a socket that
\* is closing or closed it does nothing and does not throw.
send(r) ==
  delivered' = IF ws[rq[r].agent] = "open" THEN delivered \cup {r} ELSE delivered

\* HttpTunnelHandler.handle: the routing table has an entry for the host.
HttpResolve(r, n) ==
  /\ rq[r].st = "new"
  /\ redis[n] # None
  /\ \E kind \in {"get", "post"} :
       rq' = [rq EXCEPT ![r] = [st |-> "limiting", kind |-> kind, host |-> n, agent |-> redis[n]]]
  /\ UNCHANGED <<delivered, pendVars, subVars, notRequests>>

\* An error is answered without an agent: a bad host or path (400), no entry
\* (404), the rate limit (429), a body too large (413), or a lookup or the
\* reading of the body that fails (500).
HttpRefuse(r) ==
  /\ rq[r].st \in {"new", "limiting", "reading"}
  /\ advance(r, "done")
  /\ pendingRegistry!answer(r)
  /\ UNCHANGED <<delivered, subVars, notRequests>>

\* The entry's agent is not registered: the entry is removed, and the 503 is
\* sent once that is done.
HttpStale(r) ==
  /\ rq[r].st = "limiting"
  /\ rq[r].agent \notin byAgentId
  /\ advance(r, "cleaning")
  /\ subdomainRegistry!unregister(rq[r].host, rq[r].agent, r)
  /\ UNCHANGED <<delivered, pendVars, notRequests>>

\* The body is awaited after the agent has been looked up.
HttpReadBody(r) ==
  /\ rq[r].st = "limiting"
  /\ rq[r].agent \in byAgentId
  /\ rq[r].kind = "post"
  /\ advance(r, "reading")
  /\ UNCHANGED <<delivered, pendVars, subVars, notRequests>>

\* Mutant of readyToForward: the entry's agent is not looked up.
readyUnchecked(r) ==
  \/ rq[r].st = "limiting" /\ rq[r].kind = "get"
  \/ rq[r].st = "reading"

readyToForward(r) ==
  \/ rq[r].st = "limiting" /\ rq[r].agent \in byAgentId /\ rq[r].kind = "get"
  \/ rq[r].st = "reading"

\* The request is filed under the host's label and sent to the agent found.
HttpForward(r) ==
  /\ readyToForward(r)
  /\ pendingRegistry!enqueue(r, rq[r].host)
  /\ send(r)
  /\ advance(r, "forwarded")
  /\ UNCHANGED <<subVars, notRequests>>

\* The send throws: the request is filed and rejected (SEND_FAILED) at once.
HttpSendThrows(r) ==
  /\ readyToForward(r)
  /\ pendingRegistry!answer(r)
  /\ advance(r, "done")
  /\ UNCHANGED <<delivered, subVars, notRequests>>

\* Mutant of SdkEnqueue: the first agent of any account.
SdkEnqueueAnyAccount(r, n) ==
  \E m \in Name :
    /\ rq[r].st = "new"
    /\ accounts[m] # None
    /\ rq' = [rq EXCEPT ![r] = [st |-> "enqueued", kind |-> "sdk", host |-> n, agent |-> accounts[m]]]
    /\ pendingRegistry!enqueue(r, m)
    /\ UNCHANGED <<delivered, subVars, notRequests>>

\* handleSdkRequest: the caller is authenticated, the request passes the
\* checks, an agent of the account is found (the one with the label asked
\* for, or the first) and the request is filed under its label.
SdkEnqueue(r, n) ==
  /\ rq[r].st = "new"
  /\ accounts[n] # None
  /\ rq' = [rq EXCEPT ![r] = [st |-> "enqueued", kind |-> "sdk", host |-> n, agent |-> accounts[n]]]
  /\ pendingRegistry!enqueue(r, n)
  /\ UNCHANGED <<delivered, subVars, notRequests>>

\* After the await of the Redis mirror, the request is sent to the agent
\* found before it.
SdkForward(r) ==
  /\ rq[r].st = "enqueued"
  /\ send(r)
  /\ advance(r, "forwarded")
  /\ UNCHANGED <<pendVars, subVars, notRequests>>

\* An sdk:error is answered: refused, too large, bad path, no agent.
SdkRefuse(r) ==
  /\ rq[r].st = "new"
  /\ rq' = [rq EXCEPT ![r].st = "done", ![r].kind = "sdk"]
  /\ pendingRegistry!answer(r)
  /\ UNCHANGED <<delivered, subVars, notRequests>>

\* The authentication throws: the sdk:error names no request.
SdkThrows(r) ==
  /\ rq[r].st = "new"
  /\ rq' = [rq EXCEPT ![r].st = "thrown", ![r].kind = "sdk"]
  /\ UNCHANGED <<delivered, pendVars, subVars, notRequests>>

\* tunnel:response or tunnel:agent-error, over any connection of the agent
\* the request was sent to: an agent that reconnects sends the responses it
\* held over its new socket.  Only the requestId is looked at.
AgentAnswer(r, w) ==
  /\ r \in delivered
  /\ ws[w] \in {"open", "closing"}
  /\ reg[w] = "registered"
  /\ name[w] = name[rq[r].agent]
  /\ pendingRegistry!settle(r)
  /\ UNCHANGED <<reqVars, subVars, notRequests>>

\* The request's timer fires.
RequestTimeout(r) ==
  /\ r \in timers
  /\ pendingRegistry!settle(r)
  /\ UNCHANGED <<reqVars, subVars, notRequests>>

-----------------------------------------------------------------------------
(***************************************************************************)
(* Browser WebSockets.                                                     *)
(***************************************************************************)

notTunnels == <<sockVars, regVars, pendVars, subVars, reqVars, sweepVars, dbVars>>

\* handleWebSocket: the routing table has an entry for the host.
UpgradeResolve(c, n) ==
  /\ browser[c] = "none"
  /\ upgrade[c] = None
  /\ redis[n] # None
  /\ upgrade' = [upgrade EXCEPT ![c] = redis[n]]
  /\ UNCHANGED <<tunVars, notTunnels>>

\* The agent is registered: the upgrade is completed and recorded.
UpgradeOpen(c) ==
  /\ upgrade[c] \in byAgentId
  /\ upgrade' = [upgrade EXCEPT ![c] = None]
  /\ tunnelWsRegistry!add(c, upgrade[c])
  /\ UNCHANGED notTunnels

\* It is not: 503.
UpgradeRefuse(c) ==
  /\ upgrade[c] # None
  /\ upgrade[c] \notin byAgentId
  /\ upgrade' = [upgrade EXCEPT ![c] = None]
  /\ browser' = [browser EXCEPT ![c] = "closed"]
  /\ UNCHANGED <<byConnection, ofAgent, notTunnels>>

\* The browser sends a frame and its agent is no longer registered.  (A frame
\* for a registered agent is relayed and changes nothing here.)
BrowserMessageUnowned(c) ==
  /\ browser[c] = "open"
  /\ byConnection[c] \notin byAgentId
  /\ tunnelWsRegistry!teardown({c})
  /\ UNCHANGED <<upgrade, notTunnels>>

\* The browser closes; the agent, if registered, is told.  (The teardown after
\* a frame that cannot be sent has the same effect here.)
BrowserClose(c) ==
  /\ browser[c] = "open"
  /\ tunnelWsRegistry!teardown({c})
  /\ UNCHANGED <<upgrade, notTunnels>>

\* tunnel:ws:close or tunnel:ws:error from the socket of the agent that owns
\* the connection.
AgentWsClose(w, c) ==
  /\ ws[w] \in {"open", "closing"}
  /\ w \in byWs
  /\ byConnection[c] = w
  /\ tunnelWsRegistry!teardown({c})
  /\ UNCHANGED <<upgrade, notTunnels>>

-----------------------------------------------------------------------------
SocketStep(w) ==
  \/ \E n \in Name : Connect(w, n)
  \/ Authenticate(w)
  \/ Refuse(w)
  \/ RegisterThrows(w)
  \/ RegisterOverLimit(w)
  \/ RegisterAgent(w)
  \/ OnAgentClose(w)
  \/ OnAgentCloseUnregister(w)
  \/ HandlePong(w)
  \/ UpsertSession(w)
  \/ \E status \in {"DISCONNECTED", "EVICTED"} : MarkDisconnected(w, status)

SweepStep ==
  SweepStart \/ SweepReadStatuses \/ SweepReadFails \/ SweepReadKeys \/ SweepEvict

RequestStep(r) ==
  \/ \E n \in Name : HttpResolve(r, n) \/ SdkEnqueue(r, n)
  \/ HttpRefuse(r)
  \/ HttpStale(r)
  \/ HttpReadBody(r)
  \/ HttpForward(r)
  \/ HttpSendThrows(r)
  \/ SdkForward(r)
  \/ SdkRefuse(r)
  \/ SdkThrows(r)
  \/ \E w \in Socket : AgentAnswer(r, w)
  \/ RequestTimeout(r)

TunnelStep(c) ==
  \/ \E n \in Name : UpgradeResolve(c, n)
  \/ UpgradeOpen(c)
  \/ UpgradeRefuse(c)
  \/ BrowserMessageUnowned(c)
  \/ BrowserClose(c)
  \/ \E w \in Socket : AgentWsClose(w, c)

Next ==
  \/ \E w \in Socket : SocketStep(w)
  \/ HeartbeatTick
  \/ SweepStep
  \/ \E n \in Name : SubdomainRead(n) \/ SubdomainSettle(n)
  \/ \E r \in Request : RequestStep(r)
  \/ \E c \in Conn : TunnelStep(c)

Spec == Init /\ [][Next]_vars

(***************************************************************************)
(* Fairness.  Timers fire: the heartbeat's interval and the timer of each  *)
(* request.  A handler waiting for Redis, for the database or for the rest *)
(* of a request's body goes on: these calls end or fail in bounded time.   *)
(* Nothing makes callers, browsers or agents act.                          *)
(***************************************************************************)
ContinueRequest(r) ==
  /\ rq[r].st # "new"
  /\ \/ HttpRefuse(r) \/ HttpStale(r) \/ HttpReadBody(r) \/ HttpForward(r)
     \/ HttpSendThrows(r) \/ SdkForward(r)

Fairness ==
  /\ WF_vars(HeartbeatTick)
  /\ \A r \in Request : WF_vars(RequestTimeout(r)) /\ WF_vars(ContinueRequest(r))
  /\ \A n \in Name : WF_vars(SubdomainRead(n) \/ SubdomainSettle(n))
  /\ \A w \in Socket :
       /\ WF_vars(UpsertSession(w))
       /\ \A status \in {"DISCONNECTED", "EVICTED"} : WF_vars(MarkDisconnected(w, status))

FairSpec == Spec /\ Fairness

-----------------------------------------------------------------------------
(***************************************************************************)
(* Safety.                                                                 *)
(***************************************************************************)

\* The three maps of AgentRegistry hold the same sessions, each filed under
\* its own account and label, through every register and evict of the
\* handlers (Agent.registry.ts: register, evict).
IndexesAgree ==
  /\ byAgentId = agentRegistry!allSessions
  /\ byWs = agentRegistry!allSessions
  /\ \A n \in Name : accounts[n] # None => name[accounts[n]] = n

\* Registrations racing each other do not take an account over its limit
\* (Message.router.ts, handleAgentRegister): of the sessions that were
\* admitted under a limit of at most m there are never more than m, although
\* each limit was read some awaits before the session was registered.
AgentLimit ==
  \A a \in Account, m \in PlanLimits :
    Cardinality({w \in agentRegistry!sessionsOf(a) : limit[w] <= m}) <= m

\* An agent that was told hub:registered and whose socket the hub has not
\* closed is in the registry, so its frames count and requests reach it;
\* the exception is a session the sweep evicted in place of the one it had
\* examined (see SweepEvictsWhatItExamined).
RegisteredUntilClosed ==
  \A w \in Socket :
    reg[w] = "registered" /\ ws[w] = "open" => w \in byWs \/ gone[w] = "mistaken"

\* An open browser WebSocket has an entry and an agent that owns it, and the
\* agent's index has it; the owner is registered unless the heartbeat, or
\* the sweep by mistake, evicted it (see NoOrphanTunnel).
TunnelsOwned ==
  \A c \in Conn :
    /\ browser[c] = "open" <=> byConnection[c] # None
    /\ \A w \in Socket : c \in ofAgent[w] <=> byConnection[c] = w
    /\ byConnection[c] # None =>
         \/ byConnection[c] \in byAgentId
         \/ gone[byConnection[c]] \in {"heartbeat", "mistaken"}

\* A request waits under the name of the agent it was sent to, with its timer
\* armed and unanswered: the eviction of that agent, and only it, rejects it
\* (PendingRegistry.rejectAllForAgent).
PendingFiledUnderAgent ==
  \A r \in Request :
    /\ pending[r] # None => r \in timers /\ replies[r] = 0 /\ pending[r] = name[rq[r].agent]
    /\ r \in timers => pending[r] # None

\* No request waits for a label nobody is registered under, except an HTTP
\* request with a body: its agent was looked up before the body was awaited
\* (HttpTunnel.handler.ts, handle), and it then waits for its timeout.
StrandedOnlyAfterBody ==
  \A r \in Request :
    pending[r] # None /\ accounts[pending[r]] = None => rq[r].kind = "post"

\* A caller gets the agent of the account and label it asked for: routes and
\* requests never name an agent of another (HttpTunnelHandler.handle,
\* handleSdkRequest).
RoutedToOwnAgent ==
  /\ \A n \in Name : redis[n] # None => name[redis[n]] = n /\ slug[redis[n]]
  /\ \A r \in Request : rq[r].agent # None => name[rq[r].agent] = rq[r].host

\* No step removes the route of a registered agent: an unregister that was
\* called for an earlier connection, or by the stale-entry cleanup, finds the
\* newer entry and leaves it (SubdomainRegistry.unregister).
LiveRouteNotRemoved ==
  [][\A n \in Name : redis[n] \in byAgentId => redis'[n] # None]_vars

\* The row of a registered session is never one of a disconnected session,
\* in whatever order the writes of rows arrive (upsert, markDisconnected).
LiveRowNotDisconnected ==
  \A w \in byAgentId : dbRow[w] \in {"none", "CONNECTED"}

-----------------------------------------------------------------------------
(***************************************************************************)
(* Liveness, and the requests' specification.                              *)
(***************************************************************************)

\* A session whose socket has closed does not stay registered: if the close
\* event came before the registration ended, onAgentClose found no session,
\* and the heartbeat is what removes it (Heartbeat.service.ts, tick).
ClosedSessionsLeave ==
  \A w \in Socket : ws[w] = "closed" /\ w \in byAgentId ~> w \notin byAgentId

\* Callers' requests as RequestReply sees them.  An sdk:request whose
\* authentication throws is not taken up.
phase ==
  [r \in Request |->
     IF rq[r].st \in {"new", "thrown"} THEN "new"
     ELSE IF replies[r] = 0 THEN "open"
     ELSE IF replies[r] = 1 THEN "answered" ELSE "answered again"]

requestReply == INSTANCE RequestReply WITH Request <- Request, phase <- phase

\* The hub answers every request it takes up, once (PendingRegistry, with
\* HttpTunnelHandler.handle and handleSdkRequest).
RequestsAnswered == requestReply!Spec

-----------------------------------------------------------------------------
(***************************************************************************)
(* What comments and documentation say and the code does not keep.         *)
(***************************************************************************)

\* HttpTunnel.handler.ts: every tunnel WebSocket of an agent whose hub link
\* is gone is closed.
NoOrphanTunnel ==
  \A c \in Conn : byConnection[c] # None => byConnection[c] \in byAgentId

\* AccountStatusSweep.service.ts: the sweep evicts a session whose account or
\* key is no longer admitted, and sends it a hub:error first.
SweepEvictsWhatItExamined == \A w \in Socket : gone[w] # "mistaken"

\* SubdomainRegistry.service.ts: the route of a newer connection survives
\* what is left to do for an older one.
LiveRouteKept ==
  [][\A n \in Name : redis[n] \in byAgentId \cap byAgentId' => redis'[n] = redis[n]]_vars
=============================================================================
