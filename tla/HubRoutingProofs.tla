-------------------------- MODULE HubRoutingProofs --------------------------
(***************************************************************************)
(* Proofs about what the hub does with its registry: browser WebSockets,   *)
(* session rows, routes and callers' requests, for any number of each.     *)
(***************************************************************************)
EXTENDS HubProofs

(***************************************************************************)
(* What every step leaves alone.                                           *)
(***************************************************************************)

\* Once registered, a connection keeps its name and its route's slug, and if
\* it has left the registry it does not come back (handleAgentRegister runs
\* once for each).
Settled(v) ==
  /\ reg'[v] = "registered"
  /\ name'[v] = name[v]
  /\ slug'[v] = slug[v]
  /\ v \in byAgentId' => v \in byAgentId

LEMMA RegisteredIsSettled ==
  ASSUME TypeOK, Named, [Next]_vars
  PROVE  \A v \in Socket : reg[v] = "registered" => Settled(v)
<1> USE DEF Settled
<1>1. ASSUME UNCHANGED <<sockVars, regVars>>
      PROVE  \A v \in Socket : reg[v] = "registered" => Settled(v)
  BY <1>1 DEF sockVars, regVars
<1>2. ASSUME NEW ns, agentRegistry!evict(ns), UNCHANGED <<reg, name, slug>>
      PROVE  \A v \in Socket : reg[v] = "registered" => Settled(v)
  BY <1>2 DEF agentRegistry!evict
<1>3. ASSUME NEW w \in Socket, SocketStep(w)
      PROVE  \A v \in Socket : reg[v] = "registered" => Settled(v)
  <2>1. CASE \E n \in Name : Connect(w, n)
    BY <2>1 DEF Connect, Named, TypeOK, regVars
  <2>2. CASE Authenticate(w) \/ Refuse(w) \/ RegisterThrows(w) \/ RegisterOverLimit(w)
    BY <2>2 DEF Authenticate, Refuse, RegisterThrows, RegisterOverLimit, TypeOK, regVars
  <2>3. CASE RegisterAgent(w)
    BY <2>3 DEF RegisterAgent, agentRegistry!register, TypeOK
  <2>4. CASE OnAgentClose(w)
    BY <1>2, <2>4 DEF OnAgentClose, regVars
  <2>5. CASE HandlePong(w)
    BY <2>5 DEF HandlePong, regVars
  <2>6. CASE OnAgentCloseUnregister(w) \/ UpsertSession(w)
             \/ \E status \in {"DISCONNECTED", "EVICTED"} : MarkDisconnected(w, status)
    BY <1>1, <2>6 DEF OnAgentCloseUnregister, UpsertSession, MarkDisconnected
  <2> QED BY <1>3, <2>1, <2>2, <2>3, <2>4, <2>5, <2>6 DEF SocketStep
<1>4. CASE HeartbeatTick
  BY <1>2, <1>4 DEF HeartbeatTick
<1>5. CASE SweepStep
  BY <1>1, <1>2, <1>5
  DEF SweepStep, SweepStart, SweepReadStatuses, SweepReadFails, SweepReadKeys, SweepEvict
<1>6. ASSUME NEW n \in Name, SubdomainRead(n) \/ SubdomainSettle(n)
      PROVE  \A v \in Socket : reg[v] = "registered" => Settled(v)
  BY <1>1, <1>6 DEF SubdomainRead, SubdomainSettle
<1>7. ASSUME NEW r \in Request, RequestStep(r)
      PROVE  \A v \in Socket : reg[v] = "registered" => Settled(v)
  BY <1>1, <1>7, RequestStepFrame DEF notRequests
<1>8. ASSUME NEW c \in Conn, TunnelStep(c)
      PROVE  \A v \in Socket : reg[v] = "registered" => Settled(v)
  BY <1>1, <1>8, TunnelStepFrame DEF notTunnels
<1>9. CASE UNCHANGED vars
  BY <1>1, <1>9 DEF vars
<1> QED BY <1>3, <1>4, <1>5, <1>6, <1>7, <1>8, <1>9 DEF Next

\* The handlers that take sessions out of the registry, and which ones: the
\* close event takes the closed one, the heartbeat the silent ones, the sweep
\* whatever is registered under the names it examined.
Leaving(out) ==
  /\ byAgentId' = byAgentId \ out
  /\ out \subseteq byAgentId
  /\ UNCHANGED <<reg, name>>

LEMMA CloseTakesItsOwn ==
  ASSUME TypeOK, Named, IndexesAgree, NEW w \in Socket, OnAgentClose(w), w \in byWs
  PROVE  /\ Leaving({w})
         /\ gone' = left({w}, "closed")
         /\ \A n \in Name : accounts'[n] = IF n = name[w] THEN None ELSE accounts[n]
<1>1. /\ agentRegistry!evict({name[w]})
      /\ gone' = left(agentRegistry!evicted({name[w]}), "closed")
      /\ UNCHANGED <<reg, name>>
  BY DEF OnAgentClose
<1>2. name[w] \in Name /\ w \in agentRegistry!allSessions /\ w \in byAgentId
  BY DEF Named, IndexesAgree
<1>3. agentRegistry!evicted({name[w]}) = {w}
  <2>1. {name[w]} = {name[v] : v \in {w}}
    OBVIOUS
  <2>2. {w} \in SUBSET agentRegistry!allSessions
    BY <1>2
  <2>3. agentRegistry!evicted({name[v] : v \in {w}}) = {w}
    BY <2>2, EvictedAreNamed
  <2> QED BY <2>1, <2>3 DEF agentRegistry!evicted
<1> QED BY <1>1, <1>2, <1>3 DEF Leaving, agentRegistry!evict, Name

LEMMA HeartbeatTakesTheSilent ==
  ASSUME TypeOK, Named, IndexesAgree, HeartbeatTick
  PROVE  /\ Leaving(missedTooMany)
         /\ gone' = left(missedTooMany, "heartbeat")
<1>1. /\ agentRegistry!evict({name[w] : w \in missedTooMany})
      /\ gone' = left(agentRegistry!evicted({name[w] : w \in missedTooMany}), "heartbeat")
      /\ UNCHANGED <<reg, name>>
  BY DEF HeartbeatTick
<1>2. missedTooMany \in SUBSET agentRegistry!allSessions
  BY DEF missedTooMany
<1>3. agentRegistry!evicted({name[w] : w \in missedTooMany}) = missedTooMany
  BY <1>2, EvictedAreNamed
<1> QED BY <1>1, <1>2, <1>3 DEF Leaving, agentRegistry!evict, IndexesAgree

LEMMA SweepTakesTheNamed ==
  ASSUME TypeOK, Named, IndexesAgree, SweepEvict
  PROVE  LET out == agentRegistry!evicted({name[w] : w \in doomed}) IN
         /\ Leaving(out)
         /\ doomed \cap byAgentId \subseteq out
         /\ gone' = [w \in Socket |-> IF w \in out \cap doomed THEN "sweep"
                                      ELSE IF w \in out THEN "mistaken" ELSE gone[w]]
<1> DEFINE names == {name[w] : w \in doomed}
           out == agentRegistry!evicted(names)
<1>1. /\ agentRegistry!evict(names)
      /\ gone' = [w \in Socket |-> IF w \in out \cap doomed THEN "sweep"
                                   ELSE IF w \in out THEN "mistaken" ELSE gone[w]]
      /\ UNCHANGED <<reg, name>>
  BY DEF SweepEvict
<1>2. names \subseteq Name
  BY DEF Named, TypeOK
<1>3. out \subseteq byAgentId
  BY <1>2 DEF IndexesAgree, agentRegistry!evicted, agentRegistry!allSessions, Name
<1>4. doomed \cap byAgentId \subseteq out
  <2> SUFFICES ASSUME NEW w \in doomed, w \in byAgentId
               PROVE  w \in out
    OBVIOUS
  <2>1. w \in Socket /\ accounts[name[w]] = w
    BY ConstantsAssumption DEF IndexesAgree, agentRegistry!allSessions, Name
  <2> QED BY <2>1 DEF agentRegistry!evicted
<1> QED BY <1>1, <1>3, <1>4 DEF Leaving, agentRegistry!evict

(***************************************************************************)
(* Browser WebSockets.                                                     *)
(***************************************************************************)

\* Besides the property: a browser whose upgrade is being resolved has no
\* entry yet.
TunnelInv ==
  /\ TunnelsOwned
  /\ \A c \in Conn : upgrade[c] # None => browser[c] = "none"

\* A teardown takes the connections out of both indexes and closes them.
LEMMA TeardownKeepsLinks ==
  ASSUME tunnelWsRegistry!TypeOK, TunnelInv, NEW cs, tunnelWsRegistry!teardown(cs)
  PROVE  \A c \in Conn :
           /\ browser'[c] = "open" <=> byConnection'[c] # None
           /\ \A w \in Socket : c \in ofAgent'[w] <=> byConnection'[c] = w
           /\ byConnection'[c] = IF c \in cs THEN None ELSE byConnection[c]
           /\ browser[c] = "none" => browser'[c] = "none"
BY ConstantsAssumption
DEF tunnelWsRegistry!TypeOK, TunnelInv, TunnelsOwned, tunnelWsRegistry!teardown

LEMMA CloseAllKeepsLinks ==
  ASSUME tunnelWsRegistry!TypeOK, TunnelInv, NEW S \in SUBSET Socket,
         tunnelWsRegistry!closeAllForAgent(S)
  PROVE  \A c \in Conn :
           /\ browser'[c] = "open" <=> byConnection'[c] # None
           /\ \A w \in Socket : c \in ofAgent'[w] <=> byConnection'[c] = w
           /\ byConnection'[c] = IF byConnection[c] \in S THEN None ELSE byConnection[c]
           /\ browser[c] = "none" => browser'[c] = "none"
<1> DEFINE cs == UNION {ofAgent[w] : w \in S}
<1>1. tunnelWsRegistry!teardown(cs)
  BY DEF tunnelWsRegistry!closeAllForAgent
<1>2. \A c \in Conn : c \in cs <=> byConnection[c] \in S
  BY DEF TunnelInv, TunnelsOwned, tunnelWsRegistry!TypeOK
<1> HIDE DEF cs
<1> QED BY <1>1, <1>2, TeardownKeepsLinks

\* A step that leaves the tunnels of the agents that stay, and closes those of
\* the agents that go, except where the heartbeat or a mistaken sweep took
\* the agent.
LEMMA TunnelFrame ==
  ASSUME TypeOK, TunnelInv, UNCHANGED upgrade, NEW S \in SUBSET Socket,
         \/ tunnelWsRegistry!closeAllForAgent(S)
         \/ UNCHANGED tunVars /\ S = {},
         \A w \in Socket \ S :
           \/ w \in byAgentId /\ w \in byAgentId'
           \/ gone'[w] \in {"heartbeat", "mistaken"}
           \/ w \notin byAgentId /\ gone'[w] = gone[w]
  PROVE  TunnelInv'
<1>1. \A c \in Conn :
        /\ browser'[c] = "open" <=> byConnection'[c] # None
        /\ \A w \in Socket : c \in ofAgent'[w] <=> byConnection'[c] = w
        /\ byConnection'[c] = IF byConnection[c] \in S THEN None ELSE byConnection[c]
        /\ browser[c] = "none" => browser'[c] = "none"
  <2>1. CASE tunnelWsRegistry!closeAllForAgent(S)
    BY <2>1, CloseAllKeepsLinks DEF TypeOK
  <2>2. CASE UNCHANGED tunVars /\ S = {}
    BY <2>2 DEF TunnelInv, TunnelsOwned, tunVars
  <2> QED BY <2>1, <2>2
<1>2. ASSUME NEW c \in Conn, byConnection'[c] # None
      PROVE  byConnection'[c] \in byAgentId' \/ gone'[byConnection'[c]] \in {"heartbeat", "mistaken"}
  <2>1. byConnection'[c] = byConnection[c] /\ byConnection[c] \in Socket \ S
    BY <1>1, <1>2 DEF TypeOK, tunnelWsRegistry!TypeOK
  <2> QED BY <1>2, <2>1 DEF TunnelInv, TunnelsOwned
<1> QED BY <1>1, <1>2 DEF TunnelInv, TunnelsOwned

LEMMA TunnelStepKeepsTunnels ==
  ASSUME TypeOK, TunnelInv, NEW c \in Conn, TunnelStep(c)
  PROVE  TunnelInv'
<1> USE DEF TunnelInv, TunnelsOwned
<1>0. UNCHANGED <<gone, byAgentId>>
  BY TunnelStepFrame DEF notTunnels, sockVars, regVars
<1>1. ASSUME tunnelWsRegistry!teardown({c}), UNCHANGED upgrade
      PROVE  TunnelInv'
  BY <1>0, <1>1, TeardownKeepsLinks DEF TypeOK
<1>2. CASE \E n \in Name : UpgradeResolve(c, n)
  BY <1>0, <1>2 DEF UpgradeResolve, tunVars, TypeOK
<1>3. CASE UpgradeOpen(c)
  <2> DEFINE w == upgrade[c]
  <2>1. w \in byAgentId /\ w \in Socket /\ w # None
    BY <1>3, ConstantsAssumption DEF UpgradeOpen, TypeOK, agentRegistry!TypeOK
  <2>2. browser[c] = "none" /\ byConnection[c] = None
    BY <2>1
  <2>3. /\ byConnection' = [byConnection EXCEPT ![c] = w]
        /\ ofAgent' = [ofAgent EXCEPT ![w] = @ \cup {c}]
        /\ browser' = [browser EXCEPT ![c] = "open"]
        /\ upgrade' = [upgrade EXCEPT ![c] = None]
    BY <1>3 DEF UpgradeOpen, tunnelWsRegistry!add
  <2> HIDE DEF w
  <2> QED BY <1>0, <2>1, <2>2, <2>3, ConstantsAssumption DEF TypeOK, tunnelWsRegistry!TypeOK
<1>4. CASE UpgradeRefuse(c)
  BY <1>0, <1>4 DEF UpgradeRefuse, TypeOK, tunnelWsRegistry!TypeOK
<1>5. CASE BrowserMessageUnowned(c) \/ BrowserClose(c) \/ \E w \in Socket : AgentWsClose(w, c)
  BY <1>1, <1>5 DEF BrowserMessageUnowned, BrowserClose, AgentWsClose
<1> QED BY <1>2, <1>3, <1>4, <1>5 DEF TunnelStep

\* An open browser WebSocket always has an entry, the agent that owns it and
\* a place in that agent's index, and loses its agent only to the heartbeat
\* or to a mistaken sweep (TunnelWs.registry.ts; Message.router.ts,
\* handleAgentRegister and onAgentClose; HttpTunnel.handler.ts).
THEOREM TunnelsCorrect == Spec => []TunnelsOwned
<1>1. Init => TunnelInv
  BY ConstantsAssumption
  DEF Init, TunnelInv, TunnelsOwned, tunnelWsRegistry!Init
<1>2. TypeOK /\ Named /\ IndexesAgree /\ TunnelInv /\ [Next]_vars => TunnelInv'
  <2> SUFFICES ASSUME TypeOK, Named, IndexesAgree, TunnelInv, [Next]_vars
               PROVE  TunnelInv'
    OBVIOUS
  <2>1. ASSUME UNCHANGED <<gone, regVars, tunVars, upgrade>>
        PROVE  TunnelInv'
    BY <2>1 DEF TunnelInv, TunnelsOwned, regVars, tunVars
  <2>2. ASSUME NEW w \in Socket, SocketStep(w)
        PROVE  TunnelInv'
    <3>1. CASE RegisterAgent(w)
      <4> DEFINE old == {accounts[name[w]]} \ {None}
      <4>1. /\ tunnelWsRegistry!closeAllForAgent(old)
            /\ gone' = left(old, "replaced")
            /\ agentRegistry!register(w, name[w])
            /\ UNCHANGED upgrade
            /\ name[w] \in Name
        BY <3>1 DEF RegisterAgent, Named
      <4>2. old \in SUBSET Socket
        BY <4>1 DEF TypeOK, agentRegistry!TypeOK, Name
      <4>3. w \notin byAgentId
        BY <3>1 DEF RegisterAgent, Named
      <4>4. \A v \in Socket \ old : \/ v \in byAgentId /\ v \in byAgentId'
                                    \/ v \notin byAgentId /\ gone'[v] = gone[v]
        BY <4>1, ConstantsAssumption DEF agentRegistry!register, left
      <4> HIDE DEF old
      <4> QED BY <4>1, <4>2, <4>4, TunnelFrame
    <3>2. CASE OnAgentClose(w) /\ w \in byWs
      <4>1. Leaving({w}) /\ gone' = left({w}, "closed")
        BY <3>2, CloseTakesItsOwn
      <4>2. tunnelWsRegistry!closeAllForAgent({w}) /\ UNCHANGED upgrade
        BY <3>2 DEF OnAgentClose
      <4>3. \A v \in Socket \ {w} : \/ v \in byAgentId /\ v \in byAgentId'
                                    \/ v \notin byAgentId /\ gone'[v] = gone[v]
        BY <4>1 DEF Leaving, left
      <4>4. {w} \in SUBSET Socket
        OBVIOUS
      <4> QED BY <4>2, <4>3, <4>4, TunnelFrame
    <3>3. CASE OnAgentClose(w) /\ w \notin byWs
      BY <2>1, <3>3 DEF OnAgentClose
    <3>4. CASE ~(RegisterAgent(w) \/ OnAgentClose(w))
      BY <2>1, <2>2, <3>4
      DEF SocketStep, Connect, Authenticate, Refuse, RegisterThrows, RegisterOverLimit, HandlePong,
          sockVars, OnAgentCloseUnregister, UpsertSession, MarkDisconnected
    <3> QED BY <3>1, <3>2, <3>3, <3>4
  <2>3. CASE HeartbeatTick
    <3>1. Leaving(missedTooMany) /\ gone' = left(missedTooMany, "heartbeat")
      BY <2>3, HeartbeatTakesTheSilent
    <3>2. UNCHANGED <<tunVars, upgrade>>
      BY <2>3 DEF HeartbeatTick
    <3>3. \A v \in Socket \ {} : \/ v \in byAgentId /\ v \in byAgentId'
                                 \/ gone'[v] \in {"heartbeat", "mistaken"}
                                 \/ v \notin byAgentId /\ gone'[v] = gone[v]
      BY <3>1 DEF Leaving, left
    <3>4. {} \in SUBSET Socket
      OBVIOUS
    <3> QED BY <3>2, <3>3, <3>4, TunnelFrame
  <2>4. CASE SweepEvict
    <3> DEFINE out == agentRegistry!evicted({name[w] : w \in doomed})
    <3>1. /\ Leaving(out)
          /\ gone' = [w \in Socket |-> IF w \in out \cap doomed THEN "sweep"
                                       ELSE IF w \in out THEN "mistaken" ELSE gone[w]]
      BY <2>4, SweepTakesTheNamed
    <3>2. tunnelWsRegistry!closeAllForAgent(doomed) /\ UNCHANGED upgrade
      BY <2>4 DEF SweepEvict
    <3>3. doomed \in SUBSET Socket
      BY DEF TypeOK
    <3>4. \A v \in Socket \ doomed : \/ v \in byAgentId /\ v \in byAgentId'
                                     \/ gone'[v] \in {"heartbeat", "mistaken"}
                                     \/ v \notin byAgentId /\ gone'[v] = gone[v]
      <4> HIDE DEF out
      <4> QED BY <3>1 DEF Leaving
    <3> QED BY <3>2, <3>3, <3>4, TunnelFrame
  <2>5. CASE SweepStart \/ SweepReadStatuses \/ SweepReadFails \/ SweepReadKeys
    BY <2>1, <2>5 DEF SweepStart, SweepReadStatuses, SweepReadFails, SweepReadKeys, sockVars
  <2>6. ASSUME NEW n \in Name, SubdomainRead(n) \/ SubdomainSettle(n)
        PROVE  TunnelInv'
    BY <2>1, <2>6 DEF SubdomainRead, SubdomainSettle, sockVars
  <2>7. ASSUME NEW r \in Request, RequestStep(r)
        PROVE  TunnelInv'
    BY <2>1, <2>7, RequestStepFrame DEF notRequests, sockVars
  <2>8. CASE UNCHANGED vars
    BY <2>1, <2>8 DEF vars, sockVars
  <2> QED BY <2>2, <2>3, <2>4, <2>5, <2>6, <2>7, <2>8, TunnelStepKeepsTunnels DEF Next, SweepStep
<1>3. TunnelInv => TunnelsOwned
  BY DEF TunnelInv
<1> QED BY <1>1, <1>2, <1>3, TypeCorrect, RegistryCorrect, PTL DEF Spec

(***************************************************************************)
(* Session rows.                                                           *)
(***************************************************************************)

\* Besides the property: no write that marks the row of a registered session
\* is in flight, and a connection that never registered has no row.
RowInv ==
  /\ LiveRowNotDisconnected
  /\ \A w \in byAgentId : <<w, "DISCONNECTED">> \notin dbOps /\ <<w, "EVICTED">> \notin dbOps
  /\ \A w \in Socket : reg[w] # "registered" => dbRow[w] = "none"

\* Sessions leave the registry, and marks are written for those that left.
LEMMA LeavingKeepsRows ==
  ASSUME TypeOK, RowInv, NEW out, Leaving(out), UNCHANGED dbRow,
         NEW marked, NEW status, marked \cap byAgentId \subseteq out,
         dbOps' = dbOps \cup (marked \X {status})
  PROVE  RowInv'
<1>1. \A w \in byAgentId' : w \in byAgentId /\ w \notin marked
  BY DEF Leaving
<1>2. \A w \in byAgentId' : \A st \in {"DISCONNECTED", "EVICTED"} : <<w, st>> \notin dbOps'
  BY <1>1 DEF RowInv
<1> QED BY <1>1, <1>2 DEF RowInv, LiveRowNotDisconnected, Leaving

\* However the writes of rows are ordered, the row of a session that is
\* registered is never marked as one of a session that has gone
\* (TunnelSession repository, upsert and markDisconnected, called without
\* waiting from Message.router.ts, Heartbeat.service.ts and
\* AccountStatusSweep.service.ts).
THEOREM RowsCorrect == Spec => []LiveRowNotDisconnected
<1>1. Init => RowInv
  BY DEF Init, RowInv, LiveRowNotDisconnected, agentRegistry!Init
<1>2. TypeOK /\ Named /\ IndexesAgree /\ RowInv /\ [Next]_vars => RowInv'
  <2> SUFFICES ASSUME TypeOK, Named, IndexesAgree, RowInv, [Next]_vars
               PROVE  RowInv'
    OBVIOUS
  <2>1. ASSUME UNCHANGED <<byAgentId, dbRow, dbOps>>,
               \A w \in Socket : reg[w] = "registered" => reg'[w] = "registered"
        PROVE  RowInv'
    BY <2>1 DEF RowInv, LiveRowNotDisconnected
  <2>2. ASSUME NEW w \in Socket, SocketStep(w)
        PROVE  RowInv'
    <3>0. \A v \in Socket : reg[v] = "registered" => reg'[v] = "registered"
      BY RegisteredIsSettled DEF Settled
    <3>1. CASE RegisterAgent(w)
      <4>1. /\ reg[w] = "limited"
            /\ reg' = [reg EXCEPT ![w] = "registered"]
            /\ dbOps' = dbOps \cup {<<w, "CONNECTED">>}
            /\ byAgentId' \subseteq byAgentId \cup {w}
            /\ UNCHANGED dbRow
        BY <3>1 DEF RegisterAgent, agentRegistry!register
      <4>2. dbRow[w] = "none" /\ \A op \in dbOps : op[1] # w
        BY <4>1 DEF RowInv, Named
      <4> QED BY <3>0, <4>1, <4>2 DEF RowInv, LiveRowNotDisconnected
    <3>2. CASE OnAgentClose(w) /\ w \in byWs
      <4>1. Leaving({w})
        BY <3>2, CloseTakesItsOwn
      <4>2. dbOps' = dbOps \cup ({w} \X {"DISCONNECTED"}) /\ UNCHANGED dbRow
        BY <3>2 DEF OnAgentClose
      <4> QED BY <4>1, <4>2, LeavingKeepsRows
    <3>3. CASE OnAgentClose(w) /\ w \notin byWs
      BY <2>1, <3>0, <3>3 DEF OnAgentClose, regVars
    <3>4. CASE UpsertSession(w)
      <4>1. /\ <<w, "CONNECTED">> \in dbOps
            /\ dbOps' \subseteq dbOps
            /\ dbRow' = [dbRow EXCEPT ![w] = "CONNECTED"]
            /\ UNCHANGED <<byAgentId, reg>>
        BY <3>4 DEF UpsertSession, regVars, sockVars
      <4>2. reg[w] = "registered"
        BY <4>1 DEF Named
      <4> QED BY <4>1, <4>2 DEF RowInv, LiveRowNotDisconnected, TypeOK
    <3>5. CASE \E status \in {"DISCONNECTED", "EVICTED"} : MarkDisconnected(w, status)
      <4>1. PICK status \in {"DISCONNECTED", "EVICTED"} : MarkDisconnected(w, status)
        BY <3>5
      <4>2. /\ <<w, status>> \in dbOps
            /\ dbOps' \subseteq dbOps
            /\ \A v \in Socket : v # w => dbRow'[v] = dbRow[v]
            /\ UNCHANGED <<byAgentId, reg>>
        BY <4>1 DEF MarkDisconnected, regVars, sockVars, TypeOK
      <4>3. w \notin byAgentId /\ reg[w] = "registered"
        BY <4>2 DEF RowInv, Named
      <4> QED BY <4>2, <4>3 DEF RowInv, LiveRowNotDisconnected, TypeOK, agentRegistry!TypeOK
    <3>6. CASE ~(RegisterAgent(w) \/ OnAgentClose(w) \/ UpsertSession(w)
                 \/ \E status \in {"DISCONNECTED", "EVICTED"} : MarkDisconnected(w, status))
      BY <2>1, <2>2, <3>0, <3>6
      DEF SocketStep, Connect, Authenticate, Refuse, RegisterThrows, RegisterOverLimit, HandlePong,
          OnAgentCloseUnregister, regVars, dbVars
    <3> QED BY <3>1, <3>2, <3>3, <3>4, <3>5, <3>6
  <2>3. CASE HeartbeatTick
    <3>1. Leaving(missedTooMany)
      BY <2>3, HeartbeatTakesTheSilent
    <3>2. dbOps' = dbOps \cup (missedTooMany \X {"EVICTED"}) /\ UNCHANGED dbRow
      BY <2>3 DEF HeartbeatTick
    <3> QED BY <3>1, <3>2, LeavingKeepsRows
  <2>4. CASE SweepEvict
    <3>1. /\ Leaving(agentRegistry!evicted({name[w] : w \in doomed}))
          /\ doomed \cap byAgentId \subseteq agentRegistry!evicted({name[w] : w \in doomed})
      BY <2>4, SweepTakesTheNamed
    <3>2. dbOps' = dbOps \cup (doomed \X {"EVICTED"}) /\ UNCHANGED dbRow
      BY <2>4 DEF SweepEvict
    <3> QED BY <3>1, <3>2, LeavingKeepsRows
  <2>5. CASE SweepStart \/ SweepReadStatuses \/ SweepReadFails \/ SweepReadKeys
    BY <2>1, <2>5
    DEF SweepStart, SweepReadStatuses, SweepReadFails, SweepReadKeys, sockVars, regVars, dbVars
  <2>6. ASSUME NEW n \in Name, SubdomainRead(n) \/ SubdomainSettle(n)
        PROVE  RowInv'
    BY <2>1, <2>6 DEF SubdomainRead, SubdomainSettle, sockVars, regVars, dbVars
  <2>7. ASSUME NEW r \in Request, RequestStep(r)
        PROVE  RowInv'
    BY <2>1, <2>7, RequestStepFrame DEF notRequests, sockVars, regVars, dbVars
  <2>8. ASSUME NEW c \in Conn, TunnelStep(c)
        PROVE  RowInv'
    BY <2>1, <2>8, TunnelStepFrame DEF notTunnels, sockVars, regVars, dbVars
  <2>9. CASE UNCHANGED vars
    BY <2>1, <2>9 DEF vars, sockVars, regVars, dbVars
  <2> QED BY <2>2, <2>3, <2>4, <2>5, <2>6, <2>7, <2>8, <2>9 DEF Next, SweepStep
<1>3. RowInv => LiveRowNotDisconnected
  BY DEF RowInv
<1> QED BY <1>1, <1>2, <1>3, TypeCorrect, RegistryCorrect, PTL DEF Spec

(***************************************************************************)
(* The routing table.                                                      *)
(***************************************************************************)

\* What the operations on a lock's queue do to its elements.
LEMMA AppendElements ==
  ASSUME NEW S, NEW q \in Seq(S), NEW e \in S
  PROVE  /\ Len(Append(q, e)) = Len(q) + 1
         /\ \A i \in 1..Len(Append(q, e)) : \/ i \in 1..Len(q) /\ Append(q, e)[i] = q[i]
                                            \/ i = Len(q) + 1 /\ Append(q, e)[i] = e
OBVIOUS

LEMMA TailElements ==
  ASSUME NEW S, NEW q \in Seq(S), q # << >>
  PROVE  /\ 1 \in 1..Len(q) /\ Head(q) = q[1]
         /\ \A i \in 1..Len(Tail(q)) : i + 1 \in 1..Len(q) /\ Tail(q)[i] = q[i + 1] /\ i + 1 # 1
OBVIOUS

\* The call at a place of the queue for a name's lock.
QueuedAt(n, i, k) == i \in 1..Len(locks[n]) /\ locks[n][i] = k

Calls == subdomainRegistry!Call

LEMMA QueuedAreCalls ==
  ASSUME subdomainRegistry!TypeOK, NEW n \in Name, NEW i, NEW k, QueuedAt(n, i, k)
  PROVE  k \in Calls /\ k.agent \in Socket /\ k.req \in Request \cup {None} /\ i \in Nat
<1>1. locks[n] \in Seq(Calls)
  BY DEF subdomainRegistry!TypeOK, Calls
<1>2. k \in Calls /\ i \in Nat
  BY <1>1 DEF QueuedAt
<1> QED BY <1>2 DEF Calls, subdomainRegistry!Call

\* What the operations on the routing table do to the calls in the queues:
\* a call of the new queues is one of the old ones, at its place or one place
\* on, or the one that was added.
LEMMA WithLockCalls ==
  ASSUME subdomainRegistry!TypeOK, NEW n \in Name, NEW call \in Calls,
         subdomainRegistry!withLock(n, call),
         NEW m \in Name, NEW i, NEW k, QueuedAt(m, i, k)'
  PROVE  QueuedAt(m, i, k) \/ (m = n /\ i = Len(locks[n]) + 1 /\ k = call)
<1>1. locks \in [Name -> Seq(Calls)]
  BY DEF subdomainRegistry!TypeOK, Calls
<1>2. locks' = [locks EXCEPT ![n] = Append(locks[n], call)]
  BY DEF subdomainRegistry!withLock
<1>3. CASE m # n
  BY <1>1, <1>2, <1>3 DEF QueuedAt
<1>4. CASE m = n
  <2>1. locks'[n] = Append(locks[n], call) /\ locks[n] \in Seq(Calls)
    BY <1>1, <1>2
  <2> QED BY <1>4, <2>1, AppendElements DEF QueuedAt
<1> QED BY <1>3, <1>4

LEMMA SettledCalls ==
  ASSUME subdomainRegistry!TypeOK, NEW n \in Name, locks[n] # << >>, subdomainRegistry!settled(n)
  PROVE  /\ QueuedAt(n, 1, subdomainRegistry!running(n))
         /\ \A m \in Name : \A i, k : m # n /\ QueuedAt(m, i, k)' => QueuedAt(m, i, k)
         /\ \A i, k : QueuedAt(n, i, k)' => i \in Nat \ {0} /\ QueuedAt(n, i + 1, k)
<1>1. locks \in [Name -> Seq(Calls)]
  BY DEF subdomainRegistry!TypeOK, Calls
<1>2. locks' = [locks EXCEPT ![n] = Tail(locks[n])] /\ subdomainRegistry!running(n) = Head(locks[n])
  BY DEF subdomainRegistry!settled, subdomainRegistry!running
<1>3. locks'[n] = Tail(locks[n]) /\ locks[n] \in Seq(Calls)
  BY <1>1, <1>2
<1>4. \A m \in Name : m # n => locks'[m] = locks[m]
  BY <1>1, <1>2
<1>5. /\ 1 \in 1..Len(locks[n]) /\ Head(locks[n]) = locks[n][1]
      /\ \A i \in 1..Len(Tail(locks[n])) :
           i + 1 \in 1..Len(locks[n]) /\ Tail(locks[n])[i] = locks[n][i + 1] /\ i \in Nat \ {0}
  BY <1>3, TailElements
<1> QED BY <1>2, <1>3, <1>4, <1>5 DEF QueuedAt

LEMMA GetOwnCalls ==
  ASSUME subdomainRegistry!TypeOK, NEW n \in Name, subdomainRegistry!GetOwn(n)
  PROVE  \E head :
           /\ QueuedAt(n, 1, head)
           /\ head.op = "unregister" /\ redis[n] = head.agent
           /\ \A m \in Name : \A i, k : QueuedAt(m, i, k)' =>
                \/ QueuedAt(m, i, k) /\ (m # n \/ i # 1)
                \/ m = n /\ i = 1 /\ k = [head EXCEPT !.deleting = TRUE]
<1> DEFINE marked == [locks[n][1] EXCEPT !.deleting = TRUE]
<1>1. locks \in [Name -> Seq(Calls)]
  BY DEF subdomainRegistry!TypeOK, Calls
<1>2. locks[n] # << >> /\ locks' = [locks EXCEPT ![n] = [locks[n] EXCEPT ![1] = marked]]
  BY DEF subdomainRegistry!GetOwn
<1>3. Head(locks[n]).op = "unregister" /\ redis[n] = Head(locks[n]).agent
  BY DEF subdomainRegistry!GetOwn, subdomainRegistry!running
<1> HIDE DEF marked
<1>4. 1 \in 1..Len(locks[n]) /\ Head(locks[n]) = locks[n][1] /\ locks[n] \in Seq(Calls)
  BY <1>1, <1>2
<1>5. locks'[n] = [locks[n] EXCEPT ![1] = marked]
  BY <1>1, <1>2
<1>6. \A m \in Name : m # n => locks'[m] = locks[m]
  BY <1>1, <1>2
<1>7. DOMAIN locks[n] = 1..Len(locks[n]) /\ Len(locks[n]) \in Nat
  BY <1>4
<1>8. /\ Len(locks'[n]) = Len(locks[n])
      /\ locks'[n][1] = marked
      /\ \A i \in 1..Len(locks[n]) : i # 1 => locks'[n][i] = locks[n][i]
  BY <1>4, <1>5, <1>7
<1>9. \A m \in Name : \A i, k : QueuedAt(m, i, k)' =>
        \/ QueuedAt(m, i, k) /\ (m # n \/ i # 1)
        \/ m = n /\ i = 1 /\ k = marked
  BY <1>6, <1>8 DEF QueuedAt
<1>10. QueuedAt(n, 1, locks[n][1])
  BY <1>4 DEF QueuedAt
<1> QED BY <1>3, <1>4, <1>9, <1>10 DEF marked

\* A call waiting for the lock of n is for a registered connection of that
\* name; one that registers a route is for a connection with a slug, and one
\* that removes it for a connection that has left the registry.
CallFor(n, k) ==
  /\ reg[k.agent] = "registered"
  /\ name[k.agent] = n
  /\ k.op = "register" => slug[k.agent]
  /\ k.op = "unregister" => k.agent \notin byAgentId

LocksInv ==
  \A n \in Name : \A i, k : QueuedAt(n, i, k) =>
    /\ CallFor(n, k)
    /\ k.deleting => i = 1 /\ k.op = "unregister" /\ redis[n] = k.agent

\* The entries, and the requests that read one, name registered connections.
RedisInv ==
  \A n \in Name : redis[n] # None =>
    reg[redis[n]] = "registered" /\ name[redis[n]] = n /\ slug[redis[n]]

RoutedInv ==
  \A r \in Request : rq[r].agent # None =>
    reg[rq[r].agent] = "registered" /\ name[rq[r].agent] = rq[r].host

\* A closed session whose slug is being read has left the registry.
ClosedGone == \A w \in awaitingSlug : w \notin byAgentId

RouteInv == LocksInv /\ RedisInv /\ RoutedInv /\ ClosedGone

\* A call stays in order, whatever the step.
LEMMA CallForKept ==
  ASSUME TypeOK, Named, [Next]_vars, NEW n \in Name, NEW k, k.agent \in Socket, CallFor(n, k)
  PROVE  CallFor(n, k)'
BY RegisteredIsSettled DEF CallFor, Settled

\* The handlers that queue a call, and the calls they queue.
LEMMA QueueStepKeepsLocks ==
  ASSUME TypeOK, Named, LocksInv, [Next]_vars, NEW n \in Name, NEW call \in Calls,
         subdomainRegistry!withLock(n, call), UNCHANGED redis, ~call.deleting, CallFor(n, call)
  PROVE  LocksInv'
<1> SUFFICES ASSUME NEW m \in Name, NEW i, NEW k, QueuedAt(m, i, k)'
             PROVE  /\ CallFor(m, k)'
                    /\ k.deleting => i = 1 /\ k.op = "unregister" /\ redis[m] = k.agent
  BY DEF LocksInv
<1>1. CASE QueuedAt(m, i, k)
  <2>1. k.agent \in Socket
    BY <1>1, QueuedAreCalls DEF TypeOK
  <2>2. CallFor(m, k)'
    BY <1>1, <2>1, CallForKept DEF LocksInv
  <2> QED BY <1>1, <2>2 DEF LocksInv
<1>2. CASE m = n /\ k = call
  <2>1. call.agent \in Socket
    BY DEF Calls, subdomainRegistry!Call
  <2>2. CallFor(n, call)'
    BY <2>1, CallForKept
  <2> QED BY <1>2, <2>2
<1> QED BY <1>1, <1>2, WithLockCalls DEF TypeOK

\* A step that leaves the queues and the entries alone.
LEMMA LocksFrame ==
  ASSUME TypeOK, Named, LocksInv, [Next]_vars, UNCHANGED subVars
  PROVE  LocksInv'
<1> SUFFICES ASSUME NEW m \in Name, NEW i, NEW k, QueuedAt(m, i, k)
             PROVE  CallFor(m, k)'
  BY DEF LocksInv, subVars, QueuedAt
<1>1. k.agent \in Socket
  BY QueuedAreCalls DEF TypeOK
<1> QED BY <1>1, CallForKept DEF LocksInv

\* A step of the call that holds the lock.
LEMMA SubdomainStepKeepsLocks ==
  ASSUME TypeOK, Named, LocksInv, [Next]_vars, NEW n \in Name,
         SubdomainRead(n) \/ SubdomainSettle(n)
  PROVE  LocksInv'
<1> SUFFICES ASSUME NEW m \in Name, NEW i, NEW k, QueuedAt(m, i, k)'
             PROVE  /\ CallFor(m, k)'
                    /\ k.deleting => i = 1 /\ k.op = "unregister" /\ redis'[m] = k.agent
  BY DEF LocksInv
<1>1. ASSUME NEW j, QueuedAt(m, j, k)
      PROVE  CallFor(m, k)'
  <2>1. k.agent \in Socket
    BY <1>1, QueuedAreCalls DEF TypeOK
  <2> QED BY <1>1, <2>1, CallForKept DEF LocksInv
<1>2. CASE SubdomainRead(n)
  <2>1. subdomainRegistry!GetOwn(n) /\ UNCHANGED redis
    BY <1>2 DEF SubdomainRead, subdomainRegistry!GetOwn
  <2>2. PICK head :
          /\ QueuedAt(n, 1, head)
          /\ head.op = "unregister" /\ redis[n] = head.agent
          /\ \/ QueuedAt(m, i, k) /\ (m # n \/ i # 1)
             \/ m = n /\ i = 1 /\ k = [head EXCEPT !.deleting = TRUE]
    BY <2>1, GetOwnCalls DEF TypeOK
  <2>3. CASE QueuedAt(m, i, k)
    BY <1>1, <2>1, <2>3 DEF LocksInv
  <2>4. CASE m = n /\ i = 1 /\ k = [head EXCEPT !.deleting = TRUE]
    <3>1. head \in Calls /\ CallFor(n, head) /\ head.agent \in Socket
      BY <2>2, QueuedAreCalls DEF LocksInv, TypeOK
    <3>2. k.agent = head.agent /\ k.op = head.op
      BY <2>4, <3>1 DEF Calls, subdomainRegistry!Call
    <3>3. CallFor(n, head)'
      BY <3>1, CallForKept
    <3> QED BY <2>1, <2>2, <2>4, <3>2, <3>3 DEF CallFor
  <2> QED BY <2>2, <2>3, <2>4
<1>3. CASE SubdomainSettle(n)
  <2>1. /\ locks[n] # << >> /\ subdomainRegistry!settled(n)
        /\ \A l \in Name : l # n => redis'[l] = redis[l]
    BY <1>3 DEF SubdomainSettle, subdomainRegistry!Set, subdomainRegistry!GetOther,
                subdomainRegistry!Del, subdomainRegistry!Fail, TypeOK, subdomainRegistry!TypeOK
  <2>2. CASE m # n
    <3>1. QueuedAt(m, i, k)
      BY <2>1, <2>2, SettledCalls DEF TypeOK
    <3> QED BY <1>1, <2>1, <2>2, <3>1 DEF LocksInv
  <2>3. CASE m = n
    <3>1. QueuedAt(m, i + 1, k) /\ i \in Nat \ {0}
      BY <2>1, <2>3, SettledCalls DEF TypeOK
    <3>2. ~k.deleting
      BY <3>1 DEF LocksInv
    <3> QED BY <1>1, <3>1, <3>2
  <2> QED BY <2>2, <2>3
<1> QED BY <1>2, <1>3

\* What a step may do to an entry: nothing, the write of a waiting register,
\* or the delete of an unregister that found its own entry.
LEMMA EntryChanges ==
  ASSUME TypeOK, Named, LocksInv, [Next]_vars, NEW n \in Name
  PROVE  \/ redis'[n] = redis[n]
         \/ /\ redis'[n] \in Socket /\ reg[redis'[n]] = "registered"
            /\ name[redis'[n]] = n /\ slug[redis'[n]]
         \/ redis'[n] = None /\ redis[n] \in Socket \ byAgentId
<1>1. CASE UNCHANGED redis
  BY <1>1
<1>2. CASE redis' # redis
  <2>1. PICK m \in Name : SubdomainSettle(m)
    BY <1>2, RequestStepFrame, TunnelStepFrame
    DEF Next, SocketStep, Connect, Authenticate, Refuse, RegisterThrows, RegisterOverLimit,
        RegisterAgent, OnAgentClose, OnAgentCloseUnregister, HandlePong, UpsertSession,
        MarkDisconnected, HeartbeatTick, SweepStep, SweepStart, SweepReadStatuses, SweepReadFails,
        SweepReadKeys, SweepEvict, SubdomainRead, subdomainRegistry!GetOwn, notTunnels, vars,
        RequestStep, HttpResolve, SdkEnqueue, HttpRefuse, HttpStale, HttpReadBody, HttpForward,
        HttpSendThrows, SdkForward, SdkRefuse, SdkThrows, AgentAnswer, RequestTimeout, subVars,
        subdomainRegistry!register, subdomainRegistry!unregister
  <2>2. /\ locks[m] # << >> /\ subdomainRegistry!settled(m)
        /\ \/ /\ subdomainRegistry!running(m).op = "register"
              /\ redis' = [redis EXCEPT ![m] = subdomainRegistry!running(m).agent]
           \/ /\ subdomainRegistry!running(m).deleting
              /\ redis' = [redis EXCEPT ![m] = None]
    BY <1>2, <2>1 DEF SubdomainSettle, subdomainRegistry!Set, subdomainRegistry!GetOther,
                      subdomainRegistry!Del, subdomainRegistry!Fail
  <2>3. QueuedAt(m, 1, subdomainRegistry!running(m))
    BY <2>2, SettledCalls DEF TypeOK
  <2>4. subdomainRegistry!running(m).agent \in Socket
    BY <2>3, QueuedAreCalls DEF TypeOK
  <2>5. CASE n # m
    BY <2>2, <2>5 DEF TypeOK, subdomainRegistry!TypeOK
  <2>6. CASE n = m /\ subdomainRegistry!running(m).op = "register"
                   /\ redis' = [redis EXCEPT ![m] = subdomainRegistry!running(m).agent]
    BY <2>3, <2>4, <2>6 DEF LocksInv, CallFor, TypeOK, subdomainRegistry!TypeOK
  <2>7. CASE n = m /\ subdomainRegistry!running(m).deleting /\ redis' = [redis EXCEPT ![m] = None]
    BY <2>3, <2>4, <2>7 DEF LocksInv, CallFor, TypeOK, subdomainRegistry!TypeOK
  <2> QED BY <2>2, <2>5, <2>6, <2>7
<1> QED BY <1>1, <1>2

\* What a step may do to the agent a request was given: nothing, or it is
\* read from the routing table or from the registry.
LEMMA RouteChanges ==
  ASSUME TypeOK, Named, [Next]_vars, NEW r \in Request
  PROVE  \/ rq'[r].agent = rq[r].agent /\ rq'[r].host = rq[r].host
         \/ \E n \in Name : /\ rq'[r].host = n
                            /\ rq'[r].agent # None
                            /\ rq'[r].agent \in {redis[n], accounts[n]}
<1>1. CASE UNCHANGED rq
  BY <1>1
<1>2. ASSUME NEW q \in Request, RequestStep(q)
      PROVE  \/ rq'[r].agent = rq[r].agent /\ rq'[r].host = rq[r].host
             \/ \E n \in Name : /\ rq'[r].host = n
                                /\ rq'[r].agent # None
                                /\ rq'[r].agent \in {redis[n], accounts[n]}
  <2> USE DEF TypeOK, RequestState
  <2>1. CASE \E n \in Name : HttpResolve(q, n)
    BY <2>1 DEF HttpResolve
  <2>2. CASE \E n \in Name : SdkEnqueue(q, n)
    BY <2>2 DEF SdkEnqueue
  <2>3. CASE HttpRefuse(q) \/ HttpStale(q) \/ HttpReadBody(q) \/ HttpForward(q)
             \/ HttpSendThrows(q) \/ SdkForward(q)
    BY <2>3
    DEF HttpRefuse, HttpStale, HttpReadBody, HttpForward, HttpSendThrows, SdkForward, advance
  <2>4. CASE SdkRefuse(q) \/ SdkThrows(q)
    BY <2>4 DEF SdkRefuse, SdkThrows
  <2>5. CASE (\E w \in Socket : AgentAnswer(q, w)) \/ RequestTimeout(q)
    BY <1>1, <2>5 DEF AgentAnswer, RequestTimeout, reqVars
  <2> QED BY <1>2, <2>1, <2>2, <2>3, <2>4, <2>5 DEF RequestStep
<1>3. ASSUME NEW n \in Name, SubdomainSettle(n)
      PROVE  rq'[r].agent = rq[r].agent /\ rq'[r].host = rq[r].host
  <2>1. \/ rq' = [rq EXCEPT ![subdomainRegistry!running(n).req].st = "done"]
        \/ UNCHANGED rq
    BY <1>3 DEF SubdomainSettle
  <2>2. PICK q : q = subdomainRegistry!running(n).req
    OBVIOUS
  <2> QED BY <2>1, <2>2 DEF TypeOK, RequestState
<1>4. CASE ~((\E q \in Request : RequestStep(q)) \/ \E n \in Name : SubdomainSettle(n))
  BY <1>1, <1>4, TunnelStepFrame
  DEF Next, SocketStep, Connect, Authenticate, Refuse, RegisterThrows, RegisterOverLimit,
      RegisterAgent, OnAgentClose, OnAgentCloseUnregister, HandlePong, UpsertSession,
      MarkDisconnected, HeartbeatTick, SweepStep, SweepStart, SweepReadStatuses, SweepReadFails,
      SweepReadKeys, SweepEvict, SubdomainRead, notTunnels, vars, reqVars
<1> QED BY <1>2, <1>3, <1>4

\* Whichever step: the locks' queues stay in order.
LEMMA LocksKept ==
  ASSUME TypeOK, Named, RouteInv, [Next]_vars
  PROVE  LocksInv'
<1> USE DEF RouteInv
<1>1. ASSUME UNCHANGED subVars
      PROVE  LocksInv'
  BY <1>1, LocksFrame
<1>2. ASSUME NEW w \in Socket, SocketStep(w)
      PROVE  LocksInv'
  <2>1. CASE UpsertSession(w) /\ slug[w]
    <3> DEFINE call == [op |-> "register", agent |-> w, req |-> None, deleting |-> FALSE]
    <3>1. <<w, "CONNECTED">> \in dbOps /\ subdomainRegistry!withLock(name[w], call) /\ UNCHANGED redis
      BY <2>1 DEF UpsertSession, subdomainRegistry!register
    <3>2. reg[w] = "registered"
      BY <3>1 DEF Named
    <3>3. name[w] \in Name
      BY <3>2 DEF Named
    <3>4. call \in Calls /\ ~call.deleting
      BY DEF Calls, subdomainRegistry!Call
    <3>5. CallFor(name[w], call)
      BY <2>1, <3>2 DEF CallFor
    <3> HIDE DEF call
    <3> QED BY <3>1, <3>3, <3>4, <3>5, QueueStepKeepsLocks
  <2>2. CASE OnAgentCloseUnregister(w)
    <3> DEFINE call == [op |-> "unregister", agent |-> w, req |-> None, deleting |-> FALSE]
    <3>1. w \in awaitingSlug /\ subdomainRegistry!withLock(name[w], call) /\ UNCHANGED redis
      BY <2>2 DEF OnAgentCloseUnregister, subdomainRegistry!unregister
    <3>2. reg[w] = "registered" /\ w \notin byAgentId
      BY <3>1 DEF Named, ClosedGone
    <3>3. name[w] \in Name
      BY <3>2 DEF Named
    <3>4. call \in Calls /\ ~call.deleting
      BY DEF Calls, subdomainRegistry!Call
    <3>5. CallFor(name[w], call)
      BY <3>2 DEF CallFor
    <3> HIDE DEF call
    <3> QED BY <3>1, <3>3, <3>4, <3>5, QueueStepKeepsLocks
  <2>3. CASE ~(UpsertSession(w) /\ slug[w]) /\ ~OnAgentCloseUnregister(w)
    BY <1>1, <1>2, <2>3
    DEF SocketStep, Connect, Authenticate, Refuse, RegisterThrows, RegisterOverLimit, RegisterAgent,
        OnAgentClose, HandlePong, UpsertSession, MarkDisconnected
  <2> QED BY <2>1, <2>2, <2>3
<1>3. ASSUME NEW r \in Request, RequestStep(r)
      PROVE  LocksInv'
  <2>1. CASE HttpStale(r)
    <3> DEFINE call == [op |-> "unregister", agent |-> rq[r].agent, req |-> r, deleting |-> FALSE]
    <3>1. /\ rq[r].st = "limiting" /\ rq[r].agent \notin byAgentId
          /\ subdomainRegistry!withLock(rq[r].host, call) /\ UNCHANGED redis
      BY <2>1 DEF HttpStale, subdomainRegistry!unregister
    <3>2. rq[r].agent \in Socket /\ rq[r].host \in Name
      BY <3>1 DEF Named
    <3>3. call \in Calls /\ ~call.deleting
      BY <3>2 DEF Calls, subdomainRegistry!Call
    <3>4. CallFor(rq[r].host, call)
      BY <3>1, <3>2, ConstantsAssumption DEF CallFor, RoutedInv
    <3> HIDE DEF call
    <3> QED BY <3>1, <3>2, <3>3, <3>4, QueueStepKeepsLocks
  <2>2. CASE ~HttpStale(r)
    BY <1>1, <1>3, <2>2
    DEF RequestStep, HttpResolve, SdkEnqueue, HttpRefuse, HttpReadBody, HttpForward,
        HttpSendThrows, SdkForward, SdkRefuse, SdkThrows, AgentAnswer, RequestTimeout
  <2> QED BY <2>1, <2>2
<1>4. CASE HeartbeatTick \/ SweepStep
  BY <1>1, <1>4
  DEF HeartbeatTick, SweepStep, SweepStart, SweepReadStatuses, SweepReadFails, SweepReadKeys,
      SweepEvict
<1>5. ASSUME NEW c \in Conn, TunnelStep(c)
      PROVE  LocksInv'
  BY <1>1, <1>5, TunnelStepFrame DEF notTunnels
<1>6. CASE UNCHANGED vars
  BY <1>1, <1>6 DEF vars
<1> QED BY <1>2, <1>3, <1>4, <1>5, <1>6, SubdomainStepKeepsLocks DEF Next

LEMMA RouteInvKept ==
  ASSUME TypeOK, Named, IndexesAgree, RouteInv, [Next]_vars
  PROVE  RouteInv'
<1>1. RedisInv'
  <2> SUFFICES ASSUME NEW n \in Name, redis'[n] # None
               PROVE  reg'[redis'[n]] = "registered" /\ name'[redis'[n]] = n /\ slug'[redis'[n]]
    BY DEF RedisInv
  <2>1. /\ redis'[n] \in Socket /\ reg[redis'[n]] = "registered"
        /\ name[redis'[n]] = n /\ slug[redis'[n]]
    BY EntryChanges DEF RouteInv, RedisInv, TypeOK, subdomainRegistry!TypeOK
  <2> QED BY <2>1, RegisteredIsSettled DEF Settled
<1>2. RoutedInv'
  <2> SUFFICES ASSUME NEW r \in Request, rq'[r].agent # None
               PROVE  reg'[rq'[r].agent] = "registered" /\ name'[rq'[r].agent] = rq'[r].host
    BY DEF RoutedInv
  <2>1. /\ rq'[r].agent \in Socket /\ reg[rq'[r].agent] = "registered"
        /\ name[rq'[r].agent] = rq'[r].host
    <3>1. CASE rq'[r].agent = rq[r].agent /\ rq'[r].host = rq[r].host
      BY <3>1 DEF RouteInv, RoutedInv, TypeOK, RequestState
    <3>2. ASSUME NEW n \in Name, rq'[r].host = n, rq'[r].agent # None, rq'[r].agent = redis[n]
          PROVE  /\ rq'[r].agent \in Socket /\ reg[rq'[r].agent] = "registered"
                 /\ name[rq'[r].agent] = rq'[r].host
      BY <3>2 DEF RouteInv, RedisInv, TypeOK, subdomainRegistry!TypeOK
    <3>3. ASSUME NEW n \in Name, rq'[r].host = n, rq'[r].agent # None, rq'[r].agent = accounts[n]
          PROVE  /\ rq'[r].agent \in Socket /\ reg[rq'[r].agent] = "registered"
                 /\ name[rq'[r].agent] = rq'[r].host
      BY <3>3 DEF Named, IndexesAgree, TypeOK, agentRegistry!TypeOK, Name
    <3> QED BY <3>1, <3>2, <3>3, RouteChanges
  <2> QED BY <2>1, RegisteredIsSettled DEF Settled
<1>3. ClosedGone'
  <2> SUFFICES ASSUME NEW w \in awaitingSlug'
               PROVE  w \notin byAgentId'
    BY DEF ClosedGone
  <2>1. CASE w \in awaitingSlug
    BY <2>1, RegisteredIsSettled DEF Settled, RouteInv, ClosedGone, Named, TypeOK
  <2>2. CASE w \notin awaitingSlug
    <3>1. PICK v \in Socket : OnAgentClose(v) /\ v \in byWs
      BY <2>2, RequestStepFrame, TunnelStepFrame
      DEF Next, SocketStep, Connect, Authenticate, Refuse, RegisterThrows, RegisterOverLimit,
          RegisterAgent, OnAgentClose, OnAgentCloseUnregister, HandlePong, UpsertSession,
          MarkDisconnected, HeartbeatTick, SweepStep, SweepStart, SweepReadStatuses,
          SweepReadFails, SweepReadKeys, SweepEvict, SubdomainRead, SubdomainSettle, notTunnels,
          notRequests, vars, dbVars
    <3>2. w = v
      BY <2>2, <3>1 DEF OnAgentClose
    <3> QED BY <3>1, <3>2, CloseTakesItsOwn DEF Leaving
  <2> QED BY <2>1, <2>2
<1> QED BY <1>1, <1>2, <1>3, LocksKept DEF RouteInv

LEMMA RoutesInvariant == Spec => []RouteInv
<1>1. Init => RouteInv
  <2> SUFFICES ASSUME Init PROVE RouteInv
    OBVIOUS
  <2>1. LocksInv
    <3>1. \A n \in Name : locks[n] = << >>
      BY DEF Init, subdomainRegistry!Init
    <3> QED BY <3>1 DEF LocksInv, QueuedAt
  <2>2. RedisInv /\ RoutedInv /\ ClosedGone
    BY DEF Init, RedisInv, RoutedInv, ClosedGone, subdomainRegistry!Init
  <2> QED BY <2>1, <2>2 DEF RouteInv
<1> QED BY <1>1, RouteInvKept, TypeCorrect, RegistryCorrect, PTL DEF Spec

\* Routes and requests never name an agent of another account or label
\* (SubdomainRegistry.service.ts; HttpTunnel.handler.ts, handle;
\* Message.router.ts, handleSdkRequest).
THEOREM RoutingCorrect == Spec => []RoutedToOwnAgent
<1>1. RouteInv => RoutedToOwnAgent
  BY DEF RouteInv, RedisInv, RoutedInv, RoutedToOwnAgent
<1> QED BY <1>1, RoutesInvariant, PTL

\* No step removes the route of a registered agent: an unregister deletes
\* only an entry that names the agent it was called for, and it is called
\* only for agents that have left the registry and cannot come back
\* (SubdomainRegistry.service.ts, unregister under withLock).
THEOREM LiveRoutesSafe == Spec => LiveRouteNotRemoved
<1>1. TypeOK /\ Named /\ RouteInv /\ [Next]_vars
        => [\A n \in Name : redis[n] \in byAgentId => redis'[n] # None]_vars
  <2> SUFFICES ASSUME TypeOK, Named, RouteInv, [Next]_vars, NEW n \in Name, redis[n] \in byAgentId
               PROVE  redis'[n] # None
    OBVIOUS
  <2>1. redis[n] # None
    BY ConstantsAssumption DEF TypeOK, agentRegistry!TypeOK
  <2> QED BY <2>1, EntryChanges, ConstantsAssumption DEF RouteInv
<1> QED BY <1>1, RoutesInvariant, TypeCorrect, PTL DEF Spec, LiveRouteNotRemoved

(***************************************************************************)
(* Callers' requests.                                                      *)
(***************************************************************************)

\* Where a request is in its handler, and what the registry of pending
\* requests has of it: it is filed while it waits for its agent, under the
\* host it asked for, and it has been answered once when it is done or when
\* it no longer waits.
RequestOk(r) ==
  /\ pending[r] # None <=> r \in timers
  /\ pending[r] # None => rq[r].st \in {"enqueued", "forwarded"} /\ pending[r] = rq[r].host
  /\ rq[r].st = "reading" => rq[r].kind = "post"
  /\ replies[r] = IF rq[r].st = "done" \/ (rq[r].st \in {"enqueued", "forwarded"} /\ pending[r] = None)
                  THEN 1 ELSE 0

\* A request whose stale entry is being removed is awaited by one call.
CleanupInv ==
  \A n \in Name : \A i, k : QueuedAt(n, i, k) /\ k.req # None =>
    /\ rq[k.req].st = "cleaning"
    /\ \A m \in Name : \A j, l : QueuedAt(m, j, l) /\ l.req = k.req => m = n /\ j = i

RequestInv == (\A r \in Request : RequestOk(r)) /\ CleanupInv

\* A step that leaves a request and what is known of it alone.
Untouched(r) ==
  /\ rq'[r] = rq[r]
  /\ pending'[r] = pending[r]
  /\ replies'[r] = replies[r]
  /\ r \in timers' <=> r \in timers

LEMMA UntouchedOk ==
  ASSUME NEW r \in Request, RequestOk(r), Untouched(r)
  PROVE  RequestOk(r)'
BY DEF RequestOk, Untouched

\* What the steps of a request do to it: from where to where, with which
\* effect on its entry and its answers.
Files(r) ==
  /\ pending'[r] = rq'[r].host /\ pending'[r] # None
  /\ r \in timers'
  /\ replies'[r] = replies[r]

Answers(r) ==
  /\ replies'[r] = replies[r] + 1
  /\ pending'[r] = pending[r]
  /\ r \in timers' <=> r \in timers

Advances(r) ==
  /\ replies'[r] = replies[r]
  /\ pending'[r] = pending[r]
  /\ r \in timers' <=> r \in timers

Settles(r) ==
  /\ rq'[r] = rq[r]
  /\ IF pending[r] # None
     THEN pending'[r] = None /\ r \notin timers' /\ replies'[r] = replies[r] + 1
     ELSE Advances(r)

RequestMoves(r) ==
  \/ rq[r].st = "new" /\ rq'[r].st = "limiting" /\ Advances(r)
  \/ rq[r].st = "new" /\ rq'[r].st = "enqueued" /\ rq'[r].kind = "sdk" /\ Files(r)
                      /\ accounts[rq'[r].host] # None
  \/ rq[r].st = "new" /\ rq'[r].st = "thrown" /\ Advances(r)
  \/ rq[r].st \in {"new", "limiting", "reading"} /\ rq'[r].st = "done" /\ Answers(r)
  \/ rq[r].st = "limiting" /\ rq'[r].st = "cleaning" /\ Advances(r)
  \/ rq[r].st = "limiting" /\ rq'[r].st = "reading" /\ rq'[r].kind = "post" /\ Advances(r)
  \/ /\ \/ rq[r].st = "limiting" /\ rq[r].agent \in byAgentId
        \/ rq[r].st = "reading"
     /\ rq'[r] = [rq[r] EXCEPT !.st = "forwarded"] /\ Files(r)
  \/ rq[r].st = "enqueued" /\ rq'[r] = [rq[r] EXCEPT !.st = "forwarded"] /\ Advances(r)
  \/ Settles(r)

LEMMA RequestStepMoves ==
  ASSUME TypeOK, Named, NEW r \in Request, RequestStep(r)
  PROVE  RequestMoves(r) /\ \A q \in Request \ {r} : Untouched(q)
<1> USE DEF RequestMoves, Untouched
<1>0. /\ rq \in [Request -> RequestState] /\ rq[r] \in RequestState
      /\ pending \in [Request -> Name \cup {None}]
      /\ timers \in SUBSET Request
      /\ replies \in [Request -> Nat]
      /\ None \notin Name
  BY ConstantsAssumption DEF TypeOK, pendingRegistry!TypeOK, Name, agentRegistry!Name
<1>1. CASE \E n \in Name : HttpResolve(r, n)
  BY <1>0, <1>1 DEF HttpResolve, pendVars, Advances
<1>2. CASE \E n \in Name : SdkEnqueue(r, n)
  BY <1>0, <1>2 DEF SdkEnqueue, pendingRegistry!enqueue, Files
<1>3. CASE HttpRefuse(r)
  BY <1>0, <1>3 DEF HttpRefuse, advance, pendingRegistry!answer, Answers, RequestState
<1>4. CASE HttpStale(r)
  BY <1>0, <1>4 DEF HttpStale, advance, pendVars, Advances, RequestState
<1>5. CASE HttpReadBody(r)
  BY <1>0, <1>5 DEF HttpReadBody, advance, pendVars, Advances, RequestState
<1>6. CASE HttpForward(r)
  BY <1>0, <1>6
  DEF HttpForward, readyToForward, advance, pendingRegistry!enqueue, Files, RequestState, Named
<1>7. CASE HttpSendThrows(r)
  BY <1>0, <1>7
  DEF HttpSendThrows, readyToForward, advance, pendingRegistry!answer, Answers, RequestState
<1>8. CASE SdkForward(r)
  BY <1>0, <1>8 DEF SdkForward, advance, pendVars, Advances, RequestState
<1>9. CASE SdkRefuse(r)
  BY <1>0, <1>9 DEF SdkRefuse, pendingRegistry!answer, Answers, RequestState
<1>10. CASE SdkThrows(r)
  BY <1>0, <1>10 DEF SdkThrows, pendVars, Advances, RequestState
<1>11. CASE (\E w \in Socket : AgentAnswer(r, w)) \/ RequestTimeout(r)
  BY <1>0, <1>11
  DEF AgentAnswer, RequestTimeout, reqVars, pendingRegistry!settle, Settles, Advances
<1> QED BY <1>1, <1>2, <1>3, <1>4, <1>5, <1>6, <1>7, <1>8, <1>9, <1>10, <1>11 DEF RequestStep

LEMMA MovesKeepOk ==
  ASSUME TypeOK, NEW r \in Request, RequestOk(r), RequestMoves(r)
  PROVE  RequestOk(r)'
<1>1. replies[r] \in Nat /\ rq[r] \in RequestState
  BY DEF TypeOK, pendingRegistry!TypeOK
<1> QED BY <1>1 DEF RequestMoves, RequestOk, Files, Answers, Advances, Settles, RequestState

\* The eviction of names rejects the requests that wait under them.
LEMMA RejectAllKeepsOk ==
  ASSUME TypeOK, NEW ns \in SUBSET Name, pendingRegistry!rejectAllForAgent(ns), UNCHANGED rq,
         NEW r \in Request, RequestOk(r)
  PROVE  /\ RequestOk(r)'
         /\ IF pending[r] \in ns THEN Settles(r) /\ pending[r] # None ELSE Untouched(r)
         /\ pending'[r] \notin ns
<1>1. /\ pending[r] \in Name \cup {None} /\ None \notin Name
      /\ timers \in SUBSET Request /\ replies[r] \in Nat
  BY ConstantsAssumption DEF TypeOK, pendingRegistry!TypeOK, Name, agentRegistry!Name
<1>2. /\ pending'[r] = IF pending[r] \in ns THEN None ELSE pending[r]
      /\ replies'[r] = IF pending[r] \in ns THEN replies[r] + 1 ELSE replies[r]
      /\ r \in timers' <=> r \in timers /\ pending[r] \notin ns
  BY DEF pendingRegistry!rejectAllForAgent, pendingRegistry!waitingFor
<1>3. IF pending[r] \in ns THEN Settles(r) /\ pending[r] # None ELSE Untouched(r)
  BY <1>1, <1>2 DEF Settles, Untouched
<1> QED BY <1>1, <1>2, <1>3 DEF RequestOk

\* The end of the call that holds a lock answers the request that waits for
\* it, if one does.
LEMMA SettleMoves ==
  ASSUME TypeOK, RequestInv, NEW n \in Name, SubdomainSettle(n), NEW r \in Request
  PROVE  /\ QueuedAt(n, 1, subdomainRegistry!running(n))
         /\ IF r = subdomainRegistry!running(n).req
            THEN rq[r].st = "cleaning" /\ rq'[r].st = "done" /\ Answers(r)
            ELSE Untouched(r)
<1> DEFINE q == subdomainRegistry!running(n).req
<1>1. /\ rq \in [Request -> RequestState] /\ rq[r] \in RequestState
      /\ pending \in [Request -> Name \cup {None}]
      /\ timers \in SUBSET Request
      /\ replies \in [Request -> Nat]
      /\ None \notin Request
  BY ConstantsAssumption DEF TypeOK, pendingRegistry!TypeOK
<1>2. QueuedAt(n, 1, subdomainRegistry!running(n))
  <2>1. locks[n] # << >> /\ subdomainRegistry!settled(n)
    BY DEF SubdomainSettle, subdomainRegistry!Set, subdomainRegistry!GetOther,
           subdomainRegistry!Del, subdomainRegistry!Fail
  <2> QED BY <2>1, SettledCalls DEF TypeOK
<1>3. q \in Request \cup {None}
  BY <1>2, QueuedAreCalls DEF TypeOK
<1>4. IF q # None THEN pendingRegistry!answer(q) /\ rq' = [rq EXCEPT ![q].st = "done"]
                  ELSE UNCHANGED <<pendVars, rq>>
  BY DEF SubdomainSettle
<1>5. CASE r = q
  <2>1. rq[r].st = "cleaning"
    BY <1>1, <1>2, <1>5 DEF RequestInv, CleanupInv
  <2>2. rq'[r].st = "done"
    BY <1>1, <1>4, <1>5 DEF RequestState
  <2>3. Answers(r)
    BY <1>1, <1>4, <1>5 DEF pendingRegistry!answer, Answers
  <2> QED BY <1>2, <1>5, <2>1, <2>2, <2>3
<1>6. CASE r # q
  <2> HIDE DEF q
  <2>1. Untouched(r)
    BY <1>1, <1>3, <1>4, <1>6 DEF pendingRegistry!answer, pendVars, Untouched
  <2> QED BY <1>2, <1>6, <2>1 DEF q
<1> QED BY <1>5, <1>6

\* The steps as the requests see them: a step of one request, the end of a
\* call that holds a lock, the rejection of what waits for evicted names, or
\* nothing.
LEMMA RequestsSee ==
  ASSUME TypeOK, Named, [Next]_vars
  PROVE  \/ \E r \in Request : RequestStep(r)
         \/ \E n \in Name : SubdomainSettle(n)
         \/ \E ns \in SUBSET Name :
              /\ pendingRegistry!rejectAllForAgent(ns)
              /\ agentRegistry!evict(ns)
              /\ UNCHANGED <<rq, subVars>>
         \/ UNCHANGED <<rq, pendVars>>
<1>1. ASSUME NEW w \in Socket, OnAgentClose(w), w \in byWs
      PROVE  /\ pendingRegistry!rejectAllForAgent({name[w]})
             /\ agentRegistry!evict({name[w]})
             /\ {name[w]} \in SUBSET Name /\ UNCHANGED <<rq, subVars>>
  BY <1>1 DEF OnAgentClose, Named, reqVars
<1>2. ASSUME HeartbeatTick
      PROVE  /\ pendingRegistry!rejectAllForAgent({name[w] : w \in missedTooMany})
             /\ agentRegistry!evict({name[w] : w \in missedTooMany})
             /\ {name[w] : w \in missedTooMany} \in SUBSET Name /\ UNCHANGED <<rq, subVars>>
  <2>1. \A w \in missedTooMany : name[w] \in Name
    BY SessionsRegistered DEF missedTooMany, Named
  <2> QED BY <1>2, <2>1 DEF HeartbeatTick, reqVars
<1>3. ASSUME SweepEvict
      PROVE  /\ pendingRegistry!rejectAllForAgent({name[w] : w \in doomed})
             /\ agentRegistry!evict({name[w] : w \in doomed})
             /\ {name[w] : w \in doomed} \in SUBSET Name /\ UNCHANGED <<rq, subVars>>
  BY <1>3 DEF SweepEvict, reqVars, Named, TypeOK
<1>4. ASSUME NEW w \in Socket, SocketStep(w), ~(OnAgentClose(w) /\ w \in byWs)
      PROVE  UNCHANGED <<rq, pendVars>>
  BY <1>4
  DEF SocketStep, Connect, Authenticate, Refuse, RegisterThrows, RegisterOverLimit, RegisterAgent,
      OnAgentClose, OnAgentCloseUnregister, HandlePong, UpsertSession, MarkDisconnected, reqVars
<1>5. ASSUME SweepStep, ~SweepEvict
      PROVE  UNCHANGED <<rq, pendVars>>
  BY <1>5 DEF SweepStep, SweepStart, SweepReadStatuses, SweepReadFails, SweepReadKeys, reqVars
<1>6. ASSUME NEW c \in Conn, TunnelStep(c)
      PROVE  UNCHANGED <<rq, pendVars>>
  BY <1>6, TunnelStepFrame DEF notTunnels, reqVars
<1>7. ASSUME NEW n \in Name, SubdomainRead(n)
      PROVE  UNCHANGED <<rq, pendVars>>
  BY <1>7 DEF SubdomainRead, reqVars
<1>8. ASSUME UNCHANGED vars
      PROVE  UNCHANGED <<rq, pendVars>>
  BY <1>8 DEF vars, reqVars
<1> QED BY <1>1, <1>2, <1>3, <1>4, <1>5, <1>6, <1>7, <1>8 DEF Next

LEMMA RequestsKept ==
  ASSUME TypeOK, Named, RequestInv, [Next]_vars, NEW r \in Request
  PROVE  RequestOk(r)'
<1> USE DEF RequestInv
<1>1. ASSUME NEW q \in Request, RequestStep(q)
      PROVE  RequestOk(r)'
  BY <1>1, RequestStepMoves, MovesKeepOk, UntouchedOk
<1>2. ASSUME NEW n \in Name, SubdomainSettle(n)
      PROVE  RequestOk(r)'
  <2>1. CASE Untouched(r)
    BY <2>1, UntouchedOk
  <2>2. CASE rq[r].st = "cleaning" /\ rq'[r].st = "done" /\ Answers(r)
    <3>1. replies[r] \in Nat
      BY DEF TypeOK, pendingRegistry!TypeOK
    <3> QED BY <2>2, <3>1 DEF RequestOk, Answers
  <2> QED BY <1>2, <2>1, <2>2, SettleMoves
<1>3. ASSUME NEW ns \in SUBSET Name, pendingRegistry!rejectAllForAgent(ns), UNCHANGED rq
      PROVE  RequestOk(r)'
  BY <1>3, RejectAllKeepsOk
<1>4. CASE UNCHANGED <<rq, pendVars>>
  BY <1>4, UntouchedOk DEF Untouched, pendVars
<1> QED BY <1>1, <1>2, <1>3, <1>4, RequestsSee

\* The requests that wait for a clean-up go on waiting.
CleaningKept == \A r \in Request : rq[r].st = "cleaning" => rq'[r].st = "cleaning"

LEMMA CleanupAdded ==
  ASSUME TypeOK, CleanupInv, CleaningKept, NEW n \in Name, NEW call \in Calls,
         subdomainRegistry!withLock(n, call),
         call.req # None => rq[call.req].st # "cleaning" /\ rq'[call.req].st = "cleaning"
  PROVE  CleanupInv'
<1>1. ASSUME NEW m \in Name, NEW i, NEW k, QueuedAt(m, i, k)', k.req # None
      PROVE  \/ QueuedAt(m, i, k) /\ k.req \in Request /\ rq[k.req].st = "cleaning"
             \/ m = n /\ i = Len(locks[n]) + 1 /\ k = call
  BY <1>1, WithLockCalls, QueuedAreCalls DEF TypeOK, CleanupInv
<1> SUFFICES ASSUME NEW m \in Name, NEW i, NEW k, QueuedAt(m, i, k)', k.req # None
             PROVE  /\ rq'[k.req].st = "cleaning"
                    /\ \A o \in Name : \A j, l : QueuedAt(o, j, l)' /\ l.req = k.req => o = m /\ j = i
  BY DEF CleanupInv
<1>2. rq'[k.req].st = "cleaning"
  BY <1>1 DEF CleaningKept
<1>3. ASSUME NEW o \in Name, NEW j, NEW l, QueuedAt(o, j, l)', l.req = k.req
      PROVE  o = m /\ j = i
  <2>1. CASE QueuedAt(m, i, k) /\ QueuedAt(o, j, l)
    BY <1>3, <2>1 DEF CleanupInv
  <2>2. CASE k = call /\ l = call
    BY <1>1, <1>3, <2>2 DEF CleanupInv
  <2> QED BY <1>1, <1>3, <2>1, <2>2
<1> QED BY <1>2, <1>3

LEMMA CleanupRead ==
  ASSUME TypeOK, CleanupInv, NEW n \in Name, SubdomainRead(n)
  PROVE  CleanupInv'
<1>1. subdomainRegistry!GetOwn(n) /\ UNCHANGED rq
  BY DEF SubdomainRead, reqVars
<1>2. ASSUME NEW m \in Name, NEW i, NEW k, QueuedAt(m, i, k)'
      PROVE  \E l : QueuedAt(m, i, l) /\ l.req = k.req
  <2>1. PICK head : /\ QueuedAt(n, 1, head)
                    /\ \/ QueuedAt(m, i, k)
                       \/ m = n /\ i = 1 /\ k = [head EXCEPT !.deleting = TRUE]
    BY <1>1, <1>2, GetOwnCalls DEF TypeOK
  <2>2. head \in Calls
    BY <2>1, QueuedAreCalls DEF TypeOK
  <2>3. [head EXCEPT !.deleting = TRUE].req = head.req
    BY <2>2 DEF Calls, subdomainRegistry!Call
  <2> QED BY <2>1, <2>3
<1> SUFFICES ASSUME NEW m \in Name, NEW i, NEW k, QueuedAt(m, i, k)', k.req # None
             PROVE  /\ rq[k.req].st = "cleaning"
                    /\ \A o \in Name : \A j, l : QueuedAt(o, j, l)' /\ l.req = k.req => o = m /\ j = i
  BY <1>1 DEF CleanupInv
<1>3. PICK k0 : QueuedAt(m, i, k0) /\ k0.req = k.req
  BY <1>2
<1>4. rq[k.req].st = "cleaning"
  BY <1>3 DEF CleanupInv
<1>5. ASSUME NEW o \in Name, NEW j, NEW l, QueuedAt(o, j, l)', l.req = k.req
      PROVE  o = m /\ j = i
  <2>1. PICK l0 : QueuedAt(o, j, l0) /\ l0.req = l.req
    BY <1>2, <1>5
  <2> QED BY <1>3, <1>5, <2>1 DEF CleanupInv
<1> QED BY <1>4, <1>5

LEMMA CleanupSettled ==
  ASSUME TypeOK, RequestInv, NEW n \in Name, SubdomainSettle(n)
  PROVE  CleanupInv'
<1> DEFINE place(m, i) == IF m = n THEN i + 1 ELSE i
<1>1. locks[n] # << >> /\ subdomainRegistry!settled(n)
  BY DEF SubdomainSettle, subdomainRegistry!Set, subdomainRegistry!GetOther,
         subdomainRegistry!Del, subdomainRegistry!Fail
<1>2. ASSUME NEW m \in Name, NEW i, NEW k, QueuedAt(m, i, k)'
      PROVE  /\ QueuedAt(m, place(m, i), k)
             /\ m # n \/ (i \in Nat \ {0} /\ place(m, i) # 1)
  BY <1>1, <1>2, SettledCalls DEF TypeOK
<1>3. QueuedAt(n, 1, subdomainRegistry!running(n))
  BY <1>1, SettledCalls DEF TypeOK
<1> SUFFICES ASSUME NEW m \in Name, NEW i, NEW k, QueuedAt(m, i, k)', k.req # None
             PROVE  /\ rq'[k.req].st = "cleaning"
                    /\ \A o \in Name : \A j, l : QueuedAt(o, j, l)' /\ l.req = k.req => o = m /\ j = i
  BY DEF CleanupInv
<1>4. QueuedAt(m, place(m, i), k) /\ (m # n \/ (i \in Nat \ {0} /\ place(m, i) # 1))
  BY <1>2
<1>5. rq[k.req].st = "cleaning" /\ k.req \in Request
  BY <1>4, QueuedAreCalls DEF TypeOK, RequestInv, CleanupInv
<1>6. k.req # subdomainRegistry!running(n).req
  BY <1>3, <1>4 DEF RequestInv, CleanupInv
<1>7. rq'[k.req].st = "cleaning"
  BY <1>5, <1>6, SettleMoves DEF Untouched
<1>8. ASSUME NEW o \in Name, NEW j, NEW l, QueuedAt(o, j, l)', l.req = k.req
      PROVE  o = m /\ j = i
  <2>1. QueuedAt(o, place(o, j), l) /\ (o # n \/ j \in Nat \ {0})
    BY <1>2, <1>8
  <2>2. o = m /\ place(o, j) = place(m, i)
    BY <1>4, <1>8, <2>1 DEF RequestInv, CleanupInv
  <2> QED BY <1>4, <2>1, <2>2
<1> QED BY <1>7, <1>8

LEMMA CleanupsKept ==
  ASSUME TypeOK, Named, RequestInv, [Next]_vars
  PROVE  CleanupInv'
<1> USE DEF RequestInv
<1>1. ASSUME UNCHANGED locks, CleaningKept
      PROVE  CleanupInv'
  <2>1. \A m \in Name : \A i, k : QueuedAt(m, i, k)' <=> QueuedAt(m, i, k)
    BY <1>1 DEF QueuedAt
  <2>2. \A m \in Name : \A i, k : QueuedAt(m, i, k) /\ k.req # None => k.req \in Request
    BY QueuedAreCalls DEF TypeOK
  <2> QED BY <1>1, <2>1, <2>2 DEF CleanupInv, CleaningKept
<1>2. ASSUME NEW r \in Request, RequestStep(r)
      PROVE  CleanupInv'
  <2>1. CleaningKept
    <3> SUFFICES ASSUME NEW q \in Request, rq[q].st = "cleaning"
                 PROVE  rq'[q].st = "cleaning"
      BY DEF CleaningKept
    <3>1. CASE q = r
      BY <1>2, <3>1, RequestStepMoves DEF RequestMoves, Settles
    <3>2. CASE q # r
      BY <1>2, <3>2, RequestStepMoves DEF Untouched
    <3> QED BY <3>1, <3>2
  <2>2. CASE HttpStale(r)
    <3> DEFINE call == [op |-> "unregister", agent |-> rq[r].agent, req |-> r, deleting |-> FALSE]
    <3>1. /\ rq[r].st = "limiting" /\ rq' = [rq EXCEPT ![r].st = "cleaning"]
          /\ subdomainRegistry!withLock(rq[r].host, call)
      BY <2>2 DEF HttpStale, subdomainRegistry!unregister, advance
    <3>2. rq[r].agent \in Socket /\ rq[r].host \in Name
      BY <3>1 DEF Named
    <3>3. call \in Calls /\ call.req = r
      BY <3>2 DEF Calls, subdomainRegistry!Call
    <3>4. rq[r].st # "cleaning" /\ rq'[r].st = "cleaning"
      BY <3>1 DEF TypeOK, RequestState
    <3> HIDE DEF call
    <3> QED BY <2>1, <3>1, <3>2, <3>3, <3>4, CleanupAdded
  <2>3. CASE ~HttpStale(r)
    BY <1>1, <1>2, <2>1, <2>3
    DEF RequestStep, HttpResolve, SdkEnqueue, HttpRefuse, HttpReadBody, HttpForward,
        HttpSendThrows, SdkForward, SdkRefuse, SdkThrows, AgentAnswer, RequestTimeout, subVars
  <2> QED BY <2>2, <2>3
<1>3. ASSUME NEW w \in Socket, SocketStep(w)
      PROVE  CleanupInv'
  <2>1. CleaningKept
    <3>1. UNCHANGED rq
      BY <1>3
      DEF SocketStep, Connect, Authenticate, Refuse, RegisterThrows, RegisterOverLimit,
          RegisterAgent, OnAgentClose, OnAgentCloseUnregister, HandlePong, UpsertSession,
          MarkDisconnected, reqVars
    <3> QED BY <3>1 DEF CleaningKept
  <2>2. CASE UpsertSession(w) /\ slug[w]
    <3> DEFINE call == [op |-> "register", agent |-> w, req |-> None, deleting |-> FALSE]
    <3>1. <<w, "CONNECTED">> \in dbOps /\ subdomainRegistry!withLock(name[w], call)
      BY <2>2 DEF UpsertSession, subdomainRegistry!register
    <3>2. reg[w] = "registered"
      BY <3>1 DEF Named
    <3>3. name[w] \in Name
      BY <3>2 DEF Named
    <3>4. call \in Calls /\ call.req = None
      BY DEF Calls, subdomainRegistry!Call
    <3> HIDE DEF call
    <3> QED BY <2>1, <3>1, <3>3, <3>4, CleanupAdded
  <2>3. CASE OnAgentCloseUnregister(w)
    <3> DEFINE call == [op |-> "unregister", agent |-> w, req |-> None, deleting |-> FALSE]
    <3>1. w \in awaitingSlug /\ subdomainRegistry!withLock(name[w], call)
      BY <2>3 DEF OnAgentCloseUnregister, subdomainRegistry!unregister
    <3>2. name[w] \in Name
      BY <3>1 DEF Named
    <3>3. call \in Calls /\ call.req = None
      BY DEF Calls, subdomainRegistry!Call
    <3> HIDE DEF call
    <3> QED BY <2>1, <3>1, <3>2, <3>3, CleanupAdded
  <2>4. CASE ~(UpsertSession(w) /\ slug[w]) /\ ~OnAgentCloseUnregister(w)
    BY <1>1, <1>3, <2>1, <2>4
    DEF SocketStep, Connect, Authenticate, Refuse, RegisterThrows, RegisterOverLimit, RegisterAgent,
        OnAgentClose, HandlePong, UpsertSession, MarkDisconnected, subVars
  <2> QED BY <2>2, <2>3, <2>4
<1>4. CASE HeartbeatTick \/ SweepStep
  BY <1>1, <1>4
  DEF HeartbeatTick, SweepStep, SweepStart, SweepReadStatuses, SweepReadFails, SweepReadKeys,
      SweepEvict, subVars, reqVars, CleaningKept
<1>5. ASSUME NEW c \in Conn, TunnelStep(c)
      PROVE  CleanupInv'
  BY <1>1, <1>5, TunnelStepFrame DEF notTunnels, subVars, reqVars, CleaningKept
<1>6. CASE UNCHANGED vars
  BY <1>1, <1>6 DEF vars, subVars, reqVars, CleaningKept
<1> QED BY <1>2, <1>3, <1>4, <1>5, <1>6, CleanupRead, CleanupSettled DEF Next

LEMMA RequestsInvariant == Spec => []RequestInv
<1>1. Init => RequestInv
  <2> SUFFICES ASSUME Init PROVE RequestInv
    OBVIOUS
  <2>1. CleanupInv
    <3>1. \A n \in Name : locks[n] = << >>
      BY DEF Init, subdomainRegistry!Init
    <3> QED BY <3>1 DEF CleanupInv, QueuedAt
  <2>2. \A r \in Request : RequestOk(r)
    BY DEF Init, RequestOk, pendingRegistry!Init
  <2> QED BY <2>1, <2>2 DEF RequestInv
<1>2. TypeOK /\ Named /\ RequestInv /\ [Next]_vars => RequestInv'
  BY RequestsKept, CleanupsKept DEF RequestInv
<1> QED BY <1>1, <1>2, TypeCorrect, PTL DEF Spec

\* A request waits under the name of the agent it was sent to, its timer
\* armed and its caller unanswered, whatever happens to agents and routes
\* meanwhile (Pending.registry.ts, enqueue and rejectAllForAgent).
THEOREM PendingCorrect == Spec => []PendingFiledUnderAgent
<1>1. TypeOK /\ Named /\ RouteInv /\ RequestInv => PendingFiledUnderAgent
  <2> SUFFICES ASSUME TypeOK, Named, RouteInv, RequestInv, NEW r \in Request
               PROVE  /\ pending[r] # None => /\ r \in timers /\ replies[r] = 0
                                              /\ pending[r] = name[rq[r].agent]
                      /\ r \in timers => pending[r] # None
    BY DEF PendingFiledUnderAgent
  <2>1. RequestOk(r)
    BY DEF RequestInv
  <2>2. ASSUME pending[r] # None
        PROVE  pending[r] = name[rq[r].agent]
    <3>1. rq[r].agent \in Socket /\ pending[r] = rq[r].host
      BY <2>1, <2>2 DEF RequestOk, Named
    <3> QED BY <3>1, ConstantsAssumption DEF RouteInv, RoutedInv
  <2> QED BY <2>1, <2>2 DEF RequestOk
<1> QED BY <1>1, RequestsInvariant, RoutesInvariant, TypeCorrect, PTL

\* What a step may do to the session filed under a name: nothing, a
\* registration, or an eviction that rejects what waits under it.
LEMMA SessionChanges ==
  ASSUME TypeOK, Named, [Next]_vars, NEW n \in Name
  PROVE  \/ accounts'[n] = accounts[n]
         \/ accounts'[n] # None
         \/ \E ns \in SUBSET Name : /\ n \in ns
                                    /\ pendingRegistry!rejectAllForAgent(ns)
                                    /\ UNCHANGED rq
<1>1. CASE UNCHANGED accounts
  BY <1>1
<1>2. ASSUME NEW ns \in SUBSET Name, agentRegistry!evict(ns), n \notin ns
      PROVE  accounts'[n] = accounts[n]
  BY <1>2 DEF agentRegistry!evict, Name
<1>3. ASSUME NEW w \in Socket, RegisterAgent(w)
      PROVE  accounts'[n] = accounts[n] \/ accounts'[n] # None
  BY <1>3, ConstantsAssumption
  DEF RegisterAgent, agentRegistry!register, TypeOK, agentRegistry!TypeOK, Name
<1>4. ASSUME NEW w \in Socket, SocketStep(w), ~RegisterAgent(w), ~(OnAgentClose(w) /\ w \in byWs)
      PROVE  UNCHANGED accounts
  BY <1>4
  DEF SocketStep, Connect, Authenticate, Refuse, RegisterThrows, RegisterOverLimit, OnAgentClose,
      OnAgentCloseUnregister, HandlePong, UpsertSession, MarkDisconnected, regVars
<1>5. ASSUME NEW w \in Socket, OnAgentClose(w), w \in byWs
      PROVE  /\ pendingRegistry!rejectAllForAgent({name[w]})
             /\ agentRegistry!evict({name[w]})
             /\ {name[w]} \in SUBSET Name /\ UNCHANGED rq
  BY <1>5 DEF OnAgentClose, Named, reqVars
<1>6. ASSUME HeartbeatTick
      PROVE  /\ pendingRegistry!rejectAllForAgent({name[w] : w \in missedTooMany})
             /\ agentRegistry!evict({name[w] : w \in missedTooMany})
             /\ {name[w] : w \in missedTooMany} \in SUBSET Name /\ UNCHANGED rq
  <2>1. \A w \in missedTooMany : name[w] \in Name
    BY SessionsRegistered DEF missedTooMany, Named
  <2> QED BY <1>6, <2>1 DEF HeartbeatTick, reqVars
<1>7. ASSUME SweepEvict
      PROVE  /\ pendingRegistry!rejectAllForAgent({name[w] : w \in doomed})
             /\ agentRegistry!evict({name[w] : w \in doomed})
             /\ {name[w] : w \in doomed} \in SUBSET Name /\ UNCHANGED rq
  BY <1>7 DEF SweepEvict, reqVars, Named, TypeOK
<1>8. ASSUME SweepStep, ~SweepEvict
      PROVE  UNCHANGED accounts
  BY <1>8 DEF SweepStep, SweepStart, SweepReadStatuses, SweepReadFails, SweepReadKeys, regVars
<1>9. ASSUME \/ \E m \in Name : SubdomainRead(m) \/ SubdomainSettle(m)
             \/ \E r \in Request : RequestStep(r)
             \/ \E c \in Conn : TunnelStep(c)
             \/ UNCHANGED vars
      PROVE  UNCHANGED accounts
  BY <1>9, RequestStepFrame, TunnelStepFrame
  DEF SubdomainRead, SubdomainSettle, notRequests, notTunnels, vars, regVars
<1> QED BY <1>1, <1>2, <1>3, <1>4, <1>5, <1>6, <1>7, <1>8, <1>9 DEF Next

\* A request whose agent has been looked up, and is still registered, has a
\* session filed under its host.
LEMMA LookedUpIsFiled ==
  ASSUME TypeOK, IndexesAgree, RouteInv, NEW r \in Request, rq[r].agent \in byAgentId
  PROVE  accounts[rq[r].host] # None
<1>1. rq[r].agent \in Socket /\ rq[r].agent # None
  BY ConstantsAssumption DEF TypeOK, agentRegistry!TypeOK
<1>2. PICK n \in Name : accounts[n] = rq[r].agent
  BY DEF IndexesAgree, agentRegistry!allSessions, Name
<1>3. name[rq[r].agent] = n /\ name[rq[r].agent] = rq[r].host
  BY <1>1, <1>2 DEF IndexesAgree, RouteInv, RoutedInv
<1> QED BY <1>1, <1>2, <1>3

\* Of the requests that wait for a label nobody is registered under, all
\* came with a body: an eviction rejects what waits under its names, and only
\* a request whose body was awaited after the look-up is filed later
\* (HttpTunnel.handler.ts, handle; Pending.registry.ts, rejectAllForAgent).
THEOREM StrandedCorrect == Spec => []StrandedOnlyAfterBody
<1>1. Init => StrandedOnlyAfterBody
  BY DEF Init, StrandedOnlyAfterBody, pendingRegistry!Init
<1>2. /\ TypeOK /\ Named /\ IndexesAgree /\ RouteInv /\ RequestInv /\ StrandedOnlyAfterBody
      /\ [Next]_vars
      => StrandedOnlyAfterBody'
  <2> SUFFICES ASSUME TypeOK, Named, IndexesAgree, RouteInv, RequestInv, StrandedOnlyAfterBody,
                      [Next]_vars, NEW r \in Request,
                      pending'[r] # None, accounts'[pending'[r]] = None
               PROVE  rq'[r].kind = "post"
    BY DEF StrandedOnlyAfterBody
  <2>0. RequestOk(r) /\ None \notin Name /\ pending[r] \in Name \cup {None}
    BY ConstantsAssumption DEF RequestInv, Name, agentRegistry!Name, TypeOK, pendingRegistry!TypeOK
  <2>1. ASSUME pending'[r] = pending[r], rq'[r].kind = rq[r].kind
        PROVE  rq'[r].kind = "post"
    <3>1. pending[r] \in Name /\ pending[r] # None
      BY <2>0, <2>1
    <3>2. CASE accounts'[pending[r]] = accounts[pending[r]]
      BY <2>1, <3>1, <3>2 DEF StrandedOnlyAfterBody
    <3>3. ASSUME NEW ns \in SUBSET Name, pending[r] \in ns,
                 pendingRegistry!rejectAllForAgent(ns), UNCHANGED rq
          PROVE  FALSE
      BY <2>0, <2>1, <3>3, RejectAllKeepsOk
    <3> QED BY <2>1, <3>1, <3>2, <3>3, SessionChanges
  <2>2. ASSUME NEW q \in Request, RequestStep(q)
        PROVE  rq'[r].kind = "post"
    <3>1. CASE q # r
      BY <2>1, <2>2, <3>1, RequestStepMoves DEF Untouched
    <3>2. CASE q = r
      <4>0. UNCHANGED accounts /\ rq[r] \in RequestState
        BY <2>2, RequestStepFrame DEF notRequests, regVars, TypeOK
      <4>1. RequestMoves(r)
        BY <2>2, <3>2, RequestStepMoves
      <4>2. CASE pending[r] # None
        <5>1. rq[r].st \in {"enqueued", "forwarded"}
          BY <2>0, <4>2 DEF RequestOk
        <5>2. pending'[r] = pending[r] /\ rq'[r].kind = rq[r].kind
          BY <4>0, <4>1, <4>2, <5>1 DEF RequestMoves, Advances, Settles, RequestState
        <5> QED BY <2>1, <5>2
      <4>3. CASE pending[r] = None
        <5>1. Files(r) /\ \/ accounts[rq'[r].host] # None
                          \/ /\ rq[r].st = "limiting" /\ rq[r].agent \in byAgentId
                             /\ rq'[r] = [rq[r] EXCEPT !.st = "forwarded"]
                          \/ rq[r].st = "reading" /\ rq'[r] = [rq[r] EXCEPT !.st = "forwarded"]
          BY <4>1, <4>3 DEF RequestMoves, Advances, Answers, Settles
        <5>2. accounts[rq'[r].host] = None
          BY <4>0, <5>1 DEF Files
        <5>3. CASE /\ rq[r].st = "limiting" /\ rq[r].agent \in byAgentId
                   /\ rq'[r] = [rq[r] EXCEPT !.st = "forwarded"]
          <6>1. rq'[r].host = rq[r].host
            BY <4>0, <5>3 DEF RequestState
          <6> QED BY <5>2, <5>3, <6>1, LookedUpIsFiled
        <5>4. CASE rq[r].st = "reading" /\ rq'[r] = [rq[r] EXCEPT !.st = "forwarded"]
          BY <2>0, <4>0, <5>4 DEF RequestOk, RequestState
        <5> QED BY <5>1, <5>2, <5>3, <5>4
      <4> QED BY <4>2, <4>3
    <3> QED BY <3>1, <3>2
  <2>3. ASSUME NEW n \in Name, SubdomainSettle(n)
        PROVE  rq'[r].kind = "post"
    <3>1. CASE Untouched(r)
      BY <2>1, <3>1 DEF Untouched
    <3>2. CASE rq[r].st = "cleaning" /\ Answers(r)
      BY <2>0, <3>2 DEF RequestOk, Answers
    <3> QED BY <2>3, <3>1, <3>2, SettleMoves
  <2>4. ASSUME NEW ns \in SUBSET Name, pendingRegistry!rejectAllForAgent(ns), UNCHANGED rq
        PROVE  rq'[r].kind = "post"
    <3>1. pending'[r] = pending[r]
      BY <2>0, <2>4, RejectAllKeepsOk DEF Settles, Untouched
    <3> QED BY <2>1, <2>4, <3>1
  <2>5. CASE UNCHANGED <<rq, pendVars>>
    BY <2>1, <2>5 DEF pendVars
  <2> QED BY <2>2, <2>3, <2>4, <2>5, RequestsSee
<1> QED BY <1>1, <1>2, RequestsInvariant, RoutesInvariant, RegistryCorrect, TypeCorrect, PTL DEF Spec

(***************************************************************************)
(* The hub implements the specification of its callers' requests.          *)
(***************************************************************************)
PhaseOf(r) ==
  IF rq[r].st \in {"new", "thrown"} THEN "new"
  ELSE IF replies[r] = 0 THEN "open"
  ELSE IF replies[r] = 1 THEN "answered" ELSE "answered again"

LEMMA PhaseIs ==
  /\ phase = [r \in Request |-> PhaseOf(r)]
  /\ phase' = [r \in Request |-> PhaseOf(r)']
BY DEF phase, PhaseOf

\* A step that moves one request on is a step of the specification.
LEMMA OneRequestMoves ==
  ASSUME NEW q \in Request, \A r \in Request \ {q} : PhaseOf(r)' = PhaseOf(r),
         \/ PhaseOf(q)' = PhaseOf(q)
         \/ PhaseOf(q) = "new" /\ PhaseOf(q)' \in {"open", "answered"}
         \/ PhaseOf(q) = "open" /\ PhaseOf(q)' = "answered"
  PROVE  [requestReply!Next]_phase
<1> DEFINE old(r) == PhaseOf(r)
           new(r) == PhaseOf(r)'
<1>1. phase = [r \in Request |-> old(r)] /\ phase' = [r \in Request |-> new(r)]
  BY PhaseIs
<1>2. \A r \in Request \ {q} : new(r) = old(r)
  OBVIOUS
<1>3. CASE new(q) = old(q)
  <2> HIDE DEF old, new
  <2> QED BY <1>1, <1>2, <1>3
<1>4. CASE old(q) = "new" /\ new(q) \in {"open", "answered"}
  <2> HIDE DEF old, new
  <2>1. requestReply!Take(q)
    BY <1>1, <1>2, <1>4 DEF requestReply!Take
  <2> QED BY <2>1 DEF requestReply!Next
<1>5. CASE old(q) = "open" /\ new(q) = "answered"
  <2> HIDE DEF old, new
  <2>1. requestReply!Answer({q})
    BY <1>1, <1>2, <1>5 DEF requestReply!Answer
  <2> QED BY <2>1 DEF requestReply!Next
<1> QED BY <1>3, <1>4, <1>5

\* A step that rejects the requests of a set, all of them unanswered.
LEMMA RejectedAreAnswered ==
  ASSUME NEW R \in SUBSET Request,
         \A r \in R : PhaseOf(r) = "open" /\ PhaseOf(r)' = "answered",
         \A r \in Request \ R : PhaseOf(r)' = PhaseOf(r)
  PROVE  [requestReply!Next]_phase
<1> DEFINE old(r) == PhaseOf(r)
           new(r) == PhaseOf(r)'
<1>1. phase = [r \in Request |-> old(r)] /\ phase' = [r \in Request |-> new(r)]
  BY PhaseIs
<1>2. (\A r \in R : old(r) = "open" /\ new(r) = "answered") /\ \A r \in Request \ R : new(r) = old(r)
  OBVIOUS
<1> HIDE DEF old, new
<1>3. CASE R = {}
  BY <1>1, <1>2, <1>3
<1>4. CASE R # {}
  <2>1. requestReply!Answer(R)
    BY <1>1, <1>2, <1>4 DEF requestReply!Answer
  <2> QED BY <2>1 DEF requestReply!Next
<1> QED BY <1>3, <1>4

\* The safety part of RequestsAnswered: a request the hub has taken up is
\* never answered twice and never un-answered, however responses, timeouts,
\* evictions, stale-entry clean-ups and refusals race (Pending.registry.ts;
\* HttpTunnel.handler.ts, handle; Message.router.ts, handleSdkRequest).
THEOREM AnsweredOnce == Spec => requestReply!Init /\ [][requestReply!Next]_phase
<1>1. Init => requestReply!Init
  BY PhaseIs DEF Init, requestReply!Init, PhaseOf, phase
<1>2. TypeOK /\ Named /\ RequestInv /\ [Next]_vars => [requestReply!Next]_phase
  <2> SUFFICES ASSUME TypeOK, Named, RequestInv, [Next]_vars
               PROVE  [requestReply!Next]_phase
    OBVIOUS
  <2>0. ASSUME NEW r \in Request
        PROVE  RequestOk(r) /\ replies[r] \in Nat /\ rq[r] \in RequestState
    BY DEF RequestInv, TypeOK, pendingRegistry!TypeOK
  <2>1. ASSUME NEW r \in Request, Untouched(r)
        PROVE  PhaseOf(r)' = PhaseOf(r)
    BY <2>1 DEF Untouched, PhaseOf
  <2>2. ASSUME NEW q \in Request, RequestStep(q)
        PROVE  [requestReply!Next]_phase
    <3>1. RequestMoves(q) /\ \A r \in Request \ {q} : PhaseOf(r)' = PhaseOf(r)
      BY <2>1, <2>2, RequestStepMoves
    <3>2. \/ PhaseOf(q)' = PhaseOf(q)
          \/ PhaseOf(q) = "new" /\ PhaseOf(q)' \in {"open", "answered"}
          \/ PhaseOf(q) = "open" /\ PhaseOf(q)' = "answered"
      <4>1. /\ replies[q] \in {0, 1} /\ rq[q] \in RequestState
            /\ rq[q].st \in {"new", "thrown", "limiting", "reading", "cleaning"} => replies[q] = 0
            /\ pending[q] # None => replies[q] = 0 /\ rq[q].st \in {"enqueued", "forwarded"}
        BY <2>0 DEF RequestOk
      <4>2. \/ rq[q].st = "new" /\ rq'[q].st \in {"limiting", "enqueued", "thrown"}
                                /\ replies'[q] = 0
            \/ rq[q].st \in {"new", "limiting", "reading"} /\ rq'[q].st = "done" /\ replies'[q] = 1
            \/ /\ rq[q].st \in {"limiting", "reading", "enqueued"}
               /\ rq'[q].st \in {"cleaning", "reading", "forwarded"}
               /\ replies'[q] = replies[q]
            \/ rq'[q] = rq[q] /\ replies'[q] = replies[q]
            \/ rq'[q] = rq[q] /\ replies[q] = 0 /\ replies'[q] = 1
                              /\ rq[q].st \in {"enqueued", "forwarded"}
        BY <3>1, <4>1 DEF RequestMoves, Files, Answers, Advances, Settles, RequestState
      <4> QED BY <4>1, <4>2 DEF PhaseOf
    <3> QED BY <3>1, <3>2, OneRequestMoves
  <2>3. ASSUME NEW n \in Name, SubdomainSettle(n)
        PROVE  [requestReply!Next]_phase
    <3> DEFINE q == subdomainRegistry!running(n).req
    <3>1. ASSUME NEW r \in Request
          PROVE  IF r = q THEN PhaseOf(r) = "open" /\ PhaseOf(r)' = "answered"
                          ELSE PhaseOf(r)' = PhaseOf(r)
      <4>1. CASE r = q
        <5>1. rq[r].st = "cleaning" /\ rq'[r].st = "done" /\ replies'[r] = replies[r] + 1
          BY <2>3, <4>1, SettleMoves DEF Answers
        <5>2. replies[r] = 0
          BY <2>0, <5>1 DEF RequestOk
        <5> QED BY <4>1, <5>1, <5>2 DEF PhaseOf
      <4>2. CASE r # q
        BY <2>1, <2>3, <4>2, SettleMoves
      <4> QED BY <4>1, <4>2
    <3>2. \A r \in {q} \cap Request : PhaseOf(r) = "open" /\ PhaseOf(r)' = "answered"
      BY <3>1
    <3>3. \A r \in Request \ ({q} \cap Request) : PhaseOf(r)' = PhaseOf(r)
      BY <3>1
    <3> HIDE DEF q
    <3> QED BY <3>2, <3>3, RejectedAreAnswered
  <2>4. ASSUME NEW ns \in SUBSET Name, pendingRegistry!rejectAllForAgent(ns), UNCHANGED rq
        PROVE  [requestReply!Next]_phase
    <3> DEFINE R == {r \in Request : pending[r] \in ns}
    <3>1. \A r \in R : PhaseOf(r) = "open" /\ PhaseOf(r)' = "answered"
      BY <2>0, <2>4, RejectAllKeepsOk DEF Settles, RequestOk, PhaseOf
    <3>2. \A r \in Request \ R : PhaseOf(r)' = PhaseOf(r)
      BY <2>0, <2>1, <2>4, RejectAllKeepsOk
    <3>3. R \in SUBSET Request
      OBVIOUS
    <3> HIDE DEF R
    <3> QED BY <3>1, <3>2, <3>3, RejectedAreAnswered
  <2>5. CASE UNCHANGED <<rq, pendVars>>
    BY <2>5 DEF phase, pendVars
  <2> QED BY <2>2, <2>3, <2>4, <2>5, RequestsSee
<1> QED BY <1>1, <1>2, RequestsInvariant, TypeCorrect, PTL DEF Spec
=============================================================================
