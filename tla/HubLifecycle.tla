--------------------------- MODULE HubLifecycle ---------------------------
(***************************************************************************)
(* Starts, stops and crashes of the hub process (apps/hub/src/HubServer.ts,*)
(* main.ts), and what outlives the process: the rows of agent sessions in  *)
(* the database and the routing table in Redis.  Both carry the id of the  *)
(* hub instance that wrote them, and start() removes the leftovers of its  *)
(* own id before it listens.  A deployment either configures the id, or    *)
(* gives every process a random one, as the shipped main.ts does.          *)
(*                                                                         *)
(* How sessions come and go inside one process is module Hub; here a       *)
(* registration is its writes, in the order the code makes them.           *)
(***************************************************************************)
CONSTANTS Agent,        \* agentIds, fresh for every registration
          Label,        \* host names
          Id,           \* ids hub instances can have
          None

ASSUME LifecycleAssumption == None \notin Id \cup Agent

VARIABLES configuredId,   \* HubServerConfig.hubInstanceId, or None; never changes
          hubStage,       \* of the current process
          id,             \* its hubInstanceId
          used,           \* ids taken so far
          clean,          \* both clean-ups of its start() succeeded
          registeredHere, \* agents this process has registered
          live,           \* the ones in its AgentRegistry
          labelOf,        \* agent -> the label it registered
          writes,         \* registrations whose row, then route, is still to be written
          sessionRows,    \* agent -> status and writer of its TunnelSession row
          route           \* label -> agent and writer of its entry

lifecycleVars == <<configuredId, hubStage, id, used, clean, registeredHere, live, labelOf,
                   writes, sessionRows, route>>

noRow   == [status |-> "none", by |-> None]
noRoute == [agent |-> None, by |-> None]

LifecycleTypeOK ==
  /\ configuredId \in Id \cup {None}
  /\ hubStage \in {"down", "evicting", "scanning", "up"}
  /\ id \in Id \cup {None}
  /\ used \in SUBSET Id
  /\ clean \in BOOLEAN
  /\ registeredHere \in SUBSET Agent
  /\ live \in SUBSET Agent
  /\ labelOf \in [Agent -> Label \cup {None}]
  /\ writes \in SUBSET (Agent \X {"row", "route"})
  /\ sessionRows \in [Agent -> [status : {"none", "CONNECTED", "DISCONNECTED", "EVICTED"},
                         by : Id \cup {None}]]
  /\ route \in [Label -> [agent : Agent \cup {None}, by : Id \cup {None}]]

LifecycleInit ==
  /\ configuredId \in Id \cup {None}
  /\ hubStage = "down"
  /\ id = None
  /\ used = {}
  /\ clean = FALSE
  /\ registeredHere = {}
  /\ live = {}
  /\ labelOf = [a \in Agent |-> None]
  /\ writes = {}
  /\ sessionRows = [a \in Agent |-> noRow]
  /\ route = [l \in Label |-> noRoute]

\* new HubServer(config): without a configured id, a random one.
Construct ==
  /\ hubStage = "down"
  /\ hubStage' = "evicting"
  /\ \E i \in Id :
       /\ IF configuredId # None THEN i = configuredId ELSE i \notin used
       /\ id' = i
       /\ used' = used \cup {i}
  /\ clean' = TRUE
  /\ registeredHere' = {}
  /\ UNCHANGED <<configuredId, live, labelOf, writes, sessionRows, route>>

\* Mutant of EvictStale: the rows are looked for with another status.
EvictStaleDisconnected ==
  /\ hubStage = "evicting"
  /\ hubStage' = "scanning"
  /\ sessionRows' = [a \in Agent |->
                IF sessionRows[a].by = id /\ sessionRows[a].status = "DISCONNECTED"
                THEN [sessionRows[a] EXCEPT !.status = "EVICTED"] ELSE sessionRows[a]]
  /\ UNCHANGED <<configuredId, id, used, clean, registeredHere, live, labelOf, writes, route>>

\* start(), evictStaleForInstance.
EvictStale ==
  /\ hubStage = "evicting"
  /\ hubStage' = "scanning"
  /\ sessionRows' = [a \in Agent |->
                IF sessionRows[a].by = id /\ sessionRows[a].status = "CONNECTED"
                THEN [sessionRows[a] EXCEPT !.status = "EVICTED"] ELSE sessionRows[a]]
  /\ UNCHANGED <<configuredId, id, used, clean, registeredHere, live, labelOf, writes, route>>

\* start(), unregisterAllForHub; then the hub listens.
UnregisterAllForHub ==
  /\ hubStage = "scanning"
  /\ hubStage' = "up"
  /\ route' = [l \in Label |-> IF route[l].by = id THEN noRoute ELSE route[l]]
  /\ UNCHANGED <<configuredId, id, used, clean, registeredHere, live, labelOf, writes, sessionRows>>

\* Either of the two fails: start() logs it and goes on.
CleanupFails ==
  /\ \/ hubStage = "evicting" /\ hubStage' = "scanning"
     \/ hubStage = "scanning" /\ hubStage' = "up"
  /\ clean' = FALSE
  /\ UNCHANGED <<configuredId, id, used, registeredHere, live, labelOf, writes, sessionRows, route>>

\* An agent registers; a registration under its label replaces it.
AgentRegisters(a, l) ==
  /\ hubStage = "up"
  /\ labelOf[a] = None
  /\ labelOf' = [labelOf EXCEPT ![a] = l]
  /\ live' = {b \in live : labelOf[b] # l} \cup {a}
  /\ registeredHere' = registeredHere \cup {a}
  /\ writes' = writes \cup {<<a, "row">>}
  /\ UNCHANGED <<configuredId, hubStage, id, used, clean, sessionRows, route>>

\* upsert, and then the route.
WriteRow(a) ==
  /\ hubStage = "up"
  /\ <<a, "row">> \in writes
  /\ sessionRows' = [sessionRows EXCEPT ![a] = [status |-> "CONNECTED", by |-> id]]
  /\ writes' = (writes \ {<<a, "row">>}) \cup {<<a, "route">>}
  /\ UNCHANGED <<configuredId, hubStage, id, used, clean, registeredHere, live, labelOf, route>>

WriteRoute(a) ==
  /\ hubStage = "up"
  /\ <<a, "route">> \in writes
  /\ route' = [route EXCEPT ![labelOf[a]] = [agent |-> a, by |-> id]]
  /\ writes' = writes \ {<<a, "route">>}
  /\ UNCHANGED <<configuredId, hubStage, id, used, clean, registeredHere, live, labelOf, sessionRows>>

\* onAgentClose: the row is marked and the agent's own route removed.
Close(a) ==
  /\ hubStage = "up"
  /\ a \in live
  /\ live' = live \ {a}
  /\ sessionRows' = [sessionRows EXCEPT ![a] = IF @.status = "CONNECTED"
                                 THEN [@ EXCEPT !.status = "DISCONNECTED"] ELSE @]
  /\ route' = [route EXCEPT ![labelOf[a]] = IF @.agent = a THEN noRoute ELSE @]
  /\ UNCHANGED <<configuredId, hubStage, id, used, clean, registeredHere, labelOf, writes>>

\* The process ends: a crash at any point, or stop(), whose evictAll empties
\* the registry, so that no close event finds a session and nothing is
\* marked or unregistered.
Exit ==
  /\ hubStage # "down"
  /\ hubStage' = "down"
  /\ live' = {}
  /\ writes' = {}
  /\ UNCHANGED <<configuredId, id, used, clean, registeredHere, labelOf, sessionRows, route>>

LifecycleNext ==
  \/ Construct \/ EvictStale \/ UnregisterAllForHub \/ CleanupFails \/ Exit
  \/ \E a \in Agent :
       \/ \E l \in Label : AgentRegisters(a, l)
       \/ WriteRow(a) \/ WriteRoute(a) \/ Close(a)

LifecycleSpec == LifecycleInit /\ [][LifecycleNext]_lifecycleVars

\* What the running process must answer for: everything, when every process
\* of the deployment has the one configured id, and else what carries its own.
Ours(by) == configuredId # None \/ by = id

\* HubServer.ts, start: once the hub listens and its clean-ups succeeded, the
\* CONNECTED rows and the routes it answers for are those of agents that
\* registered with this process; with a configured id that is all there are,
\* whatever crashes and stops came before.
NothingStaleAfterStart ==
  hubStage = "up" /\ clean =>
    /\ \A a \in Agent :
         sessionRows[a].status = "CONNECTED" /\ Ours(sessionRows[a].by) => a \in registeredHere
    /\ \A l \in Label :
         route[l].agent # None /\ Ours(route[l].by) => route[l].agent \in registeredHere

\* HubServer.ts:185 and SubdomainRegistry.service.ts:10-11: the start handles
\* what a crash left.  False of the shipped deployment, whose processes share
\* no id: lifecycle_default.cfg.
NothingLeftByACrash ==
  hubStage = "up" /\ clean =>
    /\ \A a \in Agent : sessionRows[a].status = "CONNECTED" => a \in registeredHere
    /\ \A l \in Label : route[l].agent # None => route[l].agent \in registeredHere
=============================================================================
