----------------------------- MODULE HubProofs -----------------------------
(***************************************************************************)
(* Proofs about the hub, for any number of accounts, labels, connections,  *)
(* requests and browser sockets.                                           *)
(***************************************************************************)
EXTENDS Hub, FiniteSetTheorems, TLAPS

(***************************************************************************)
(* Type correctness.                                                       *)
(***************************************************************************)
LEMMA InitTypeOK == Init => TypeOK
BY ConstantsAssumption
DEF Init, TypeOK, agentRegistry!Init, agentRegistry!TypeOK, pendingRegistry!Init,
    pendingRegistry!TypeOK, tunnelWsRegistry!Init, tunnelWsRegistry!TypeOK,
    subdomainRegistry!Init, subdomainRegistry!TypeOK, RequestState, Progress, Name

\* The registries' operations keep the registries' types.
LEMMA RegisterType ==
  ASSUME agentRegistry!TypeOK, NEW w \in Socket, NEW n \in Name, agentRegistry!register(w, n)
  PROVE  agentRegistry!TypeOK'
BY DEF agentRegistry!TypeOK, agentRegistry!register, Name

LEMMA EvictType ==
  ASSUME agentRegistry!TypeOK, NEW ns, agentRegistry!evict(ns)
  PROVE  agentRegistry!TypeOK'
BY DEF agentRegistry!TypeOK, agentRegistry!evict

LEMMA EnqueueType ==
  ASSUME pendingRegistry!TypeOK, NEW r \in Request, NEW n \in Name, pendingRegistry!enqueue(r, n)
  PROVE  pendingRegistry!TypeOK'
BY DEF pendingRegistry!TypeOK, pendingRegistry!enqueue

LEMMA SettleType ==
  ASSUME pendingRegistry!TypeOK, NEW r \in Request, pendingRegistry!settle(r)
  PROVE  pendingRegistry!TypeOK'
BY DEF pendingRegistry!TypeOK, pendingRegistry!settle

LEMMA RejectAllType ==
  ASSUME pendingRegistry!TypeOK, NEW ns, pendingRegistry!rejectAllForAgent(ns)
  PROVE  pendingRegistry!TypeOK'
BY DEF pendingRegistry!TypeOK, pendingRegistry!rejectAllForAgent

LEMMA AnswerType ==
  ASSUME pendingRegistry!TypeOK, NEW r \in Request, pendingRegistry!answer(r)
  PROVE  pendingRegistry!TypeOK'
BY DEF pendingRegistry!TypeOK, pendingRegistry!answer

LEMMA AddType ==
  ASSUME tunnelWsRegistry!TypeOK, NEW c \in Conn, NEW w \in Socket, tunnelWsRegistry!add(c, w)
  PROVE  tunnelWsRegistry!TypeOK'
BY DEF tunnelWsRegistry!TypeOK, tunnelWsRegistry!add

LEMMA TeardownType ==
  ASSUME tunnelWsRegistry!TypeOK, NEW cs, tunnelWsRegistry!teardown(cs)
  PROVE  tunnelWsRegistry!TypeOK'
BY DEF tunnelWsRegistry!TypeOK, tunnelWsRegistry!teardown

LEMMA CloseAllType ==
  ASSUME tunnelWsRegistry!TypeOK, NEW S, tunnelWsRegistry!closeAllForAgent(S)
  PROVE  tunnelWsRegistry!TypeOK'
BY TeardownType DEF tunnelWsRegistry!closeAllForAgent

LEMMA AppendType ==
  ASSUME subdomainRegistry!TypeOK, NEW n \in Name, NEW call \in subdomainRegistry!Call,
         subdomainRegistry!withLock(n, call), UNCHANGED redis
  PROVE  subdomainRegistry!TypeOK'
<1> DEFINE Calls == subdomainRegistry!Call
<1>1. locks \in [Name -> Seq(Calls)]
  BY DEF subdomainRegistry!TypeOK
<1>2. Append(locks[n], call) \in Seq(Calls)
  <2>1. call \in Calls
    OBVIOUS
  <2> HIDE DEF Calls
  <2> QED BY <1>1, <2>1
<1>3. locks' \in [Name -> Seq(Calls)]
  <2> HIDE DEF Calls
  <2> QED BY <1>1, <1>2 DEF subdomainRegistry!withLock
<1> QED BY <1>3 DEF subdomainRegistry!TypeOK

LEMMA RegisterCallType ==
  ASSUME subdomainRegistry!TypeOK, NEW n \in Name, NEW w \in Socket,
         subdomainRegistry!register(n, w)
  PROVE  subdomainRegistry!TypeOK'
<1> DEFINE call == [op |-> "register", agent |-> w, req |-> None, deleting |-> FALSE]
<1>1. call \in subdomainRegistry!Call
  BY DEF subdomainRegistry!Call
<1> QED BY <1>1, AppendType DEF subdomainRegistry!register

LEMMA UnregisterCallType ==
  ASSUME subdomainRegistry!TypeOK, NEW n \in Name, NEW w \in Socket,
         NEW r \in Request \cup {None}, subdomainRegistry!unregister(n, w, r)
  PROVE  subdomainRegistry!TypeOK'
<1> DEFINE call == [op |-> "unregister", agent |-> w, req |-> r, deleting |-> FALSE]
<1>1. call \in subdomainRegistry!Call
  BY DEF subdomainRegistry!Call
<1> QED BY <1>1, AppendType DEF subdomainRegistry!unregister

LEMMA RunningType ==
  ASSUME subdomainRegistry!TypeOK, NEW n \in Name, locks[n] # << >>
  PROVE  /\ subdomainRegistry!running(n) \in subdomainRegistry!Call
         /\ Tail(locks[n]) \in Seq(subdomainRegistry!Call)
<1> DEFINE Calls == subdomainRegistry!Call
<1>1. locks[n] \in Seq(Calls)
  BY DEF subdomainRegistry!TypeOK
<1>2. Head(locks[n]) \in Calls /\ Tail(locks[n]) \in Seq(Calls)
  <2> HIDE DEF Calls
  <2> QED BY <1>1
<1> QED BY <1>2 DEF subdomainRegistry!running

LEMMA SettledType ==
  ASSUME subdomainRegistry!TypeOK, NEW n \in Name,
         \/ subdomainRegistry!Set(n)
         \/ subdomainRegistry!GetOther(n)
         \/ subdomainRegistry!Del(n)
         \/ subdomainRegistry!Fail(n)
  PROVE  /\ subdomainRegistry!TypeOK'
         /\ subdomainRegistry!running(n) \in subdomainRegistry!Call
<1> DEFINE Calls == subdomainRegistry!Call
<1>0. locks[n] # << >> /\ subdomainRegistry!settled(n)
  BY DEF subdomainRegistry!Set, subdomainRegistry!GetOther, subdomainRegistry!Del,
         subdomainRegistry!Fail
<1>1. subdomainRegistry!running(n) \in Calls /\ Tail(locks[n]) \in Seq(Calls)
  BY <1>0, RunningType
<1>2. locks' \in [Name -> Seq(Calls)]
  <2>1. locks \in [Name -> Seq(Calls)]
    BY DEF subdomainRegistry!TypeOK
  <2> HIDE DEF Calls
  <2> QED BY <1>0, <1>1, <2>1 DEF subdomainRegistry!settled
<1>3. subdomainRegistry!running(n).agent \in Socket
  BY <1>1 DEF subdomainRegistry!Call
<1>4. redis' \in [Name -> Socket \cup {None}]
  BY <1>3 DEF subdomainRegistry!TypeOK, subdomainRegistry!Set, subdomainRegistry!GetOther,
              subdomainRegistry!Del, subdomainRegistry!Fail
<1> QED BY <1>1, <1>2, <1>4 DEF subdomainRegistry!TypeOK

LEMMA GetOwnType ==
  ASSUME subdomainRegistry!TypeOK, NEW n \in Name, subdomainRegistry!GetOwn(n)
  PROVE  subdomainRegistry!TypeOK'
<1> DEFINE Calls == subdomainRegistry!Call
           q == locks[n]
           q1 == [q EXCEPT ![1].deleting = TRUE]
<1>1. q \in Seq(Calls) /\ q # << >>
  BY DEF subdomainRegistry!TypeOK, subdomainRegistry!GetOwn
<1>2. q[1] \in Calls /\ 1 \in 1..Len(q)
  <2> HIDE DEF Calls, q
  <2> QED BY <1>1
<1>3. [q[1] EXCEPT !.deleting = TRUE] \in Calls
  BY <1>2 DEF subdomainRegistry!Call
<1>4. q1 \in Seq(Calls)
  <2> HIDE DEF Calls, q
  <2> QED BY <1>1, <1>2, <1>3
<1>5. locks' = [locks EXCEPT ![n] = q1]
  BY DEF subdomainRegistry!GetOwn
<1>6. locks' \in [Name -> Seq(Calls)]
  <2>1. locks \in [Name -> Seq(Calls)]
    BY DEF subdomainRegistry!TypeOK
  <2> HIDE DEF Calls, q1
  <2> QED BY <1>4, <1>5, <2>1
<1> QED BY <1>6 DEF subdomainRegistry!TypeOK, subdomainRegistry!GetOwn

\* A step that leaves a registry's variables alone keeps its type.
LEMMA RegistriesUnchanged ==
  /\ agentRegistry!TypeOK /\ UNCHANGED regVars => agentRegistry!TypeOK'
  /\ pendingRegistry!TypeOK /\ UNCHANGED pendVars => pendingRegistry!TypeOK'
  /\ tunnelWsRegistry!TypeOK /\ UNCHANGED tunVars => tunnelWsRegistry!TypeOK'
  /\ subdomainRegistry!TypeOK /\ UNCHANGED subVars => subdomainRegistry!TypeOK'
BY DEF regVars, pendVars, tunVars, subVars, agentRegistry!TypeOK, pendingRegistry!TypeOK,
       tunnelWsRegistry!TypeOK, subdomainRegistry!TypeOK

\* Besides the types: a connection has a name from when it is made, work is
\* only ever left over for connections that were registered, and a request
\* being handled has a host and an agent.
Named ==
  /\ \A w \in Socket : ws[w] # "absent" => name[w] \in Name
  /\ \A w \in Socket : reg[w] # "none" => ws[w] # "absent"
  /\ \A w \in byAgentId \cup byWs \cup awaitingSlug \cup sweepSessions \cup doomed :
       reg[w] = "registered"
  /\ \A n \in Name : accounts[n] # None => reg[accounts[n]] = "registered"
  /\ \A op \in dbOps : reg[op[1]] = "registered"
  /\ \A r \in Request : rq[r].st \notin {"new", "done", "thrown"} =>
       rq[r].host \in Name /\ rq[r].agent \in Socket

\* The parts of TypeOK that are not a registry's.
SocketType ==
  /\ ws \in [Socket -> {"absent", "open", "closing", "closed"}]
  /\ reg \in [Socket -> {"none", "limited", "registered", "refused", "failed"}]
  /\ name \in [Socket -> Name \cup {None}]
  /\ limit \in [Socket -> PlanLimits \cup {0}]
  /\ slug \in [Socket -> BOOLEAN]
  /\ missed \in [Socket -> Nat]
  /\ gone \in [Socket -> {"no", "replaced", "closed", "heartbeat", "sweep", "mistaken"}]

RequestType ==
  /\ rq \in [Request -> RequestState]
  /\ delivered \in SUBSET Request
  /\ upgrade \in [Conn -> Socket \cup {None}]

WorkType ==
  /\ sweepPc \in {"idle", "statuses", "keys", "evict"}
  /\ sweepSessions \in SUBSET Socket
  /\ doomed \in SUBSET Socket
  /\ dbRow \in [Socket -> {"none", "CONNECTED", "DISCONNECTED", "EVICTED"}]
  /\ dbOps \in SUBSET DbOp
  /\ awaitingSlug \in SUBSET Socket

LEMMA TypeParts ==
  TypeOK <=> /\ SocketType /\ RequestType /\ WorkType
             /\ agentRegistry!TypeOK /\ pendingRegistry!TypeOK
             /\ tunnelWsRegistry!TypeOK /\ subdomainRegistry!TypeOK
BY DEF TypeOK, SocketType, RequestType, WorkType

LEMMA TypePartsNext ==
  TypeOK' <=> /\ SocketType' /\ RequestType' /\ WorkType'
              /\ agentRegistry!TypeOK' /\ pendingRegistry!TypeOK'
              /\ tunnelWsRegistry!TypeOK' /\ subdomainRegistry!TypeOK'
BY DEF TypeOK, SocketType, RequestType, WorkType

\* A step that leaves a part's variables alone keeps its type.
LEMMA PartsUnchanged ==
  /\ SocketType /\ UNCHANGED sockVars => SocketType'
  /\ RequestType /\ UNCHANGED <<reqVars, upgrade>> => RequestType'
  /\ WorkType /\ UNCHANGED <<sweepVars, dbVars>> => WorkType'
BY DEF SocketType, RequestType, WorkType, sockVars, reqVars, sweepVars, dbVars

\* What the steps of a request and of a browser WebSocket leave alone.
LEMMA TunnelStepFrame ==
  ASSUME NEW c \in Conn, TunnelStep(c)
  PROVE  UNCHANGED notTunnels
BY DEF TunnelStep, UpgradeResolve, UpgradeOpen, UpgradeRefuse, BrowserMessageUnowned,
       BrowserClose, AgentWsClose

LEMMA RequestStepFrame ==
  ASSUME NEW r \in Request, RequestStep(r)
  PROVE  UNCHANGED notRequests
BY DEF RequestStep, HttpResolve, SdkEnqueue, HttpRefuse, HttpStale, HttpReadBody, HttpForward,
       HttpSendThrows, SdkForward, SdkRefuse, SdkThrows, AgentAnswer, RequestTimeout

LEMMA TunnelStepType ==
  ASSUME TypeOK, NEW c \in Conn, TunnelStep(c)
  PROVE  TypeOK'
<1> USE TypeParts, PartsUnchanged, RegistriesUnchanged
<1>0. UNCHANGED notTunnels
  BY TunnelStepFrame
<1>1. SocketType' /\ WorkType' /\ agentRegistry!TypeOK' /\ pendingRegistry!TypeOK'
      /\ subdomainRegistry!TypeOK'
  BY <1>0 DEF notTunnels
<1>2. RequestType'
  <2>1. UNCHANGED reqVars
    BY <1>0 DEF notTunnels
  <2>2. upgrade' \in [Conn -> Socket \cup {None}]
    BY DEF RequestType, TunnelStep, UpgradeResolve, UpgradeOpen, UpgradeRefuse,
           BrowserMessageUnowned, BrowserClose, AgentWsClose, subdomainRegistry!TypeOK
  <2> QED BY <2>1, <2>2 DEF RequestType, reqVars
<1>3. tunnelWsRegistry!TypeOK'
  <2>1. CASE \E n \in Name : UpgradeResolve(c, n)
    BY <2>1 DEF UpgradeResolve
  <2>2. CASE UpgradeOpen(c)
    BY <2>2, AddType DEF UpgradeOpen, agentRegistry!TypeOK
  <2>3. CASE UpgradeRefuse(c)
    BY <2>3 DEF UpgradeRefuse, tunnelWsRegistry!TypeOK
  <2>4. CASE BrowserMessageUnowned(c)
    BY <2>4, TeardownType DEF BrowserMessageUnowned
  <2>5. CASE BrowserClose(c)
    BY <2>5, TeardownType DEF BrowserClose
  <2>6. CASE \E w \in Socket : AgentWsClose(w, c)
    BY <2>6, TeardownType DEF AgentWsClose
  <2> QED BY <2>1, <2>2, <2>3, <2>4, <2>5, <2>6 DEF TunnelStep
<1> QED BY <1>1, <1>2, <1>3, TypePartsNext

LEMMA TunnelStepNamed ==
  ASSUME Named, NEW c \in Conn, TunnelStep(c)
  PROVE  Named'
<1>0. UNCHANGED notTunnels
  BY TunnelStepFrame
<1> QED BY <1>0 DEF Named, notTunnels, sockVars, regVars, reqVars, sweepVars, dbVars

LEMMA RequestStepType ==
  ASSUME TypeOK, Named, NEW r \in Request, RequestStep(r)
  PROVE  TypeOK' /\ Named'
<1> USE TypeParts, PartsUnchanged, RegistriesUnchanged
<1>0. UNCHANGED notRequests
  BY RequestStepFrame
<1>1. SocketType' /\ WorkType' /\ agentRegistry!TypeOK' /\ tunnelWsRegistry!TypeOK'
  BY <1>0 DEF notRequests
<1>2. rq[r] \in RequestState
  BY DEF RequestType
<1>3. delivered' \in SUBSET Request
  BY DEF RequestType, RequestStep, HttpResolve, SdkEnqueue, HttpRefuse, HttpStale, HttpReadBody,
         HttpForward, HttpSendThrows, SdkForward, SdkRefuse, SdkThrows, AgentAnswer,
         RequestTimeout, send, reqVars
<1>4. /\ rq' \in [Request -> RequestState]
      /\ rq' = [rq EXCEPT ![r] = rq'[r]]
      /\ rq'[r].st \notin {"new", "done", "thrown"} =>
           rq'[r].host \in Name /\ rq'[r].agent \in Socket
  <2> USE <1>2 DEF RequestState, Progress
  <2>1. CASE \E n \in Name : HttpResolve(r, n)
    BY <2>1 DEF HttpResolve, RequestType, subdomainRegistry!TypeOK
  <2>2. CASE \E n \in Name : SdkEnqueue(r, n)
    BY <2>2 DEF SdkEnqueue, RequestType, agentRegistry!TypeOK, Name
  <2>3. CASE HttpRefuse(r) \/ HttpSendThrows(r)
    BY <2>3 DEF HttpRefuse, HttpSendThrows, advance, RequestType
  <2>4. CASE HttpStale(r) \/ HttpReadBody(r) \/ HttpForward(r) \/ SdkForward(r)
    BY <2>4 DEF HttpStale, HttpReadBody, HttpForward, SdkForward, readyToForward, advance,
                RequestType, Named
  <2>5. CASE SdkRefuse(r) \/ SdkThrows(r)
    BY <2>5 DEF SdkRefuse, SdkThrows, RequestType
  <2>6. CASE (\E w \in Socket : AgentAnswer(r, w)) \/ RequestTimeout(r)
    BY <2>6 DEF AgentAnswer, RequestTimeout, reqVars, RequestType, Named
  <2> QED BY <2>1, <2>2, <2>3, <2>4, <2>5, <2>6 DEF RequestStep
<1>5. RequestType'
  BY <1>0, <1>3, <1>4 DEF RequestType, notRequests
<1>6. pendingRegistry!TypeOK'
  <2>1. CASE (\E n \in Name : HttpResolve(r, n)) \/ HttpStale(r) \/ HttpReadBody(r)
             \/ SdkForward(r) \/ SdkThrows(r)
    BY <2>1 DEF HttpResolve, HttpStale, HttpReadBody, SdkForward, SdkThrows
  <2>2. CASE \E n \in Name : SdkEnqueue(r, n)
    BY <2>2, EnqueueType DEF SdkEnqueue
  <2>3. CASE HttpForward(r)
    BY <2>3, EnqueueType DEF HttpForward, readyToForward, Named
  <2>4. CASE HttpRefuse(r) \/ HttpSendThrows(r) \/ SdkRefuse(r)
    BY <2>4, AnswerType DEF HttpRefuse, HttpSendThrows, SdkRefuse
  <2>5. CASE (\E w \in Socket : AgentAnswer(r, w)) \/ RequestTimeout(r)
    BY <2>5, SettleType DEF AgentAnswer, RequestTimeout
  <2> QED BY <2>1, <2>2, <2>3, <2>4, <2>5 DEF RequestStep
<1>7. subdomainRegistry!TypeOK'
  <2>1. CASE HttpStale(r)
    BY <2>1, UnregisterCallType DEF HttpStale, Named
  <2>2. CASE ~HttpStale(r)
    BY <2>2 DEF RequestStep, HttpResolve, SdkEnqueue, HttpRefuse, HttpReadBody, HttpForward,
         HttpSendThrows, SdkForward, SdkRefuse, SdkThrows, AgentAnswer, RequestTimeout
  <2> QED BY <2>1, <2>2
<1>8. Named'
  BY <1>0, <1>4 DEF Named, RequestType, notRequests, sockVars, regVars, sweepVars, dbVars
<1> QED BY <1>1, <1>5, <1>6, <1>7, <1>8, TypePartsNext

LEMMA SubdomainStepType ==
  ASSUME TypeOK, Named, NEW n \in Name, SubdomainRead(n) \/ SubdomainSettle(n)
  PROVE  TypeOK' /\ Named'
<1> USE TypeParts, PartsUnchanged, RegistriesUnchanged
<1> DEFINE r == subdomainRegistry!running(n).req
<1>0. UNCHANGED <<sockVars, regVars, tunVars, delivered, upgrade, sweepVars, dbVars>>
  BY DEF SubdomainRead, SubdomainSettle, reqVars
<1>1. SocketType' /\ WorkType' /\ agentRegistry!TypeOK' /\ tunnelWsRegistry!TypeOK'
  BY <1>0
<1>2. CASE SubdomainRead(n)
  <2>1. subdomainRegistry!TypeOK'
    BY <1>2, GetOwnType DEF SubdomainRead
  <2>2. RequestType' /\ pendingRegistry!TypeOK'
    BY <1>2 DEF SubdomainRead
  <2>3. Named'
    BY <1>2 DEF SubdomainRead, Named, sockVars, regVars, reqVars, sweepVars, dbVars
  <2> QED BY <1>1, <2>1, <2>2, <2>3, TypePartsNext
<1>3. CASE SubdomainSettle(n)
  <2>1. subdomainRegistry!TypeOK' /\ subdomainRegistry!running(n) \in subdomainRegistry!Call
    BY <1>3, SettledType DEF SubdomainSettle
  <2>2. r \in Request \cup {None}
    BY <2>1 DEF subdomainRegistry!Call
  <2>3. \/ r \in Request /\ pendingRegistry!answer(r) /\ rq' = [rq EXCEPT ![r].st = "done"]
        \/ UNCHANGED <<pendVars, rq>>
    BY <1>3, <2>2 DEF SubdomainSettle
  <2>4. pendingRegistry!TypeOK'
    BY <2>3, AnswerType
  <2>5. /\ rq' \in [Request -> RequestState]
        /\ \A q \in Request : rq'[q].st \notin {"new", "done", "thrown"} => rq'[q] = rq[q]
    BY <2>3 DEF RequestType, RequestState, Progress
  <2>6. RequestType'
    BY <1>0, <2>5 DEF RequestType
  <2>7. Named'
    BY <1>0, <2>5 DEF Named, RequestType, sockVars, regVars, sweepVars, dbVars
  <2> QED BY <1>1, <2>1, <2>4, <2>6, <2>7, TypePartsNext
<1> QED BY <1>2, <1>3

\* The effects on sockets and sessions that several handlers share.
LEMMA SocketEffectType ==
  ASSUME SocketType, NEW S, NEW how \in {"replaced", "closed", "heartbeat", "sweep", "mistaken"}
  PROVE  /\ closing(S) \in [Socket -> {"absent", "open", "closing", "closed"}]
         /\ \A w \in Socket : closing(S)[w] = "absent" <=> ws[w] = "absent"
         /\ left(S, how) \in [Socket -> {"no", "replaced", "closed", "heartbeat", "sweep", "mistaken"}]
BY DEF SocketType, closing, left

LEMMA SessionsRegistered ==
  ASSUME Named
  PROVE  /\ agentRegistry!allSessions \subseteq Socket
         /\ \A w \in agentRegistry!allSessions : reg[w] = "registered"
BY ConstantsAssumption DEF agentRegistry!allSessions, Named, Name

LEMMA HeartbeatTickType ==
  ASSUME TypeOK, Named, HeartbeatTick
  PROVE  TypeOK' /\ Named'
<1> USE TypeParts, PartsUnchanged, RegistriesUnchanged
<1> DEFINE names == {name[w] : w \in missedTooMany}
<1>1. /\ agentRegistry!evict(names)
      /\ pendingRegistry!rejectAllForAgent(names)
      /\ UNCHANGED <<reg, name, limit, slug, tunVars, subVars, reqVars, upgrade, sweepVars,
                     dbRow, awaitingSlug>>
      /\ dbOps' = dbOps \cup (missedTooMany \X {"EVICTED"})
      /\ ws' = closing(missedTooMany)
      /\ gone' = left(agentRegistry!evicted(names), "heartbeat")
  BY DEF HeartbeatTick
<1>2. missedTooMany \subseteq Socket /\ \A w \in missedTooMany : reg[w] = "registered"
  BY SessionsRegistered DEF missedTooMany
<1>3. missed' \in [Socket -> Nat]
  BY DEF HeartbeatTick, SocketType
<1>4. SocketType'
  BY <1>1, <1>3, SocketEffectType DEF SocketType
<1>5. WorkType'
  BY <1>1, <1>2 DEF WorkType, DbOp, sweepVars
<1>6. RequestType' /\ tunnelWsRegistry!TypeOK' /\ subdomainRegistry!TypeOK'
  BY <1>1
<1>7. agentRegistry!TypeOK' /\ pendingRegistry!TypeOK'
  BY <1>1, EvictType, RejectAllType
<1>8. Named'
  <2>1. \A w \in Socket : ws'[w] = "absent" <=> ws[w] = "absent"
    BY <1>1, SocketEffectType
  <2>2. /\ byAgentId' \subseteq byAgentId /\ byWs' \subseteq byWs
        /\ \A n \in Name : accounts'[n] # None => accounts'[n] = accounts[n]
    BY <1>1 DEF agentRegistry!evict, Name
  <2>3. \A op \in dbOps' : reg[op[1]] = "registered"
    BY <1>1, <1>2 DEF Named
  <2> QED BY <1>1, <2>1, <2>2, <2>3 DEF Named, sweepVars, reqVars
<1> QED BY <1>4, <1>5, <1>6, <1>7, <1>8, TypePartsNext

LEMMA SweepStepType ==
  ASSUME TypeOK, Named, SweepStep
  PROVE  TypeOK' /\ Named'
<1> USE TypeParts, PartsUnchanged, RegistriesUnchanged
<1>1. CASE SweepStart \/ SweepReadStatuses \/ SweepReadFails \/ SweepReadKeys
  <2>1. UNCHANGED <<sockVars, regVars, pendVars, tunVars, subVars, reqVars, upgrade, dbVars>>
    BY <1>1 DEF SweepStart, SweepReadStatuses, SweepReadFails, SweepReadKeys
  <2>2. /\ sweepPc' \in {"idle", "statuses", "keys", "evict"}
        /\ sweepSessions' \subseteq agentRegistry!allSessions \cup sweepSessions
        /\ doomed' \subseteq doomed \cup sweepSessions
    BY <1>1 DEF SweepStart, SweepReadStatuses, SweepReadFails, SweepReadKeys
  <2>3. agentRegistry!allSessions \subseteq Socket
        /\ \A w \in agentRegistry!allSessions : reg[w] = "registered"
    BY SessionsRegistered
  <2>4. WorkType'
    BY <2>1, <2>2, <2>3 DEF WorkType, dbVars
  <2>5. Named'
    BY <2>1, <2>2, <2>3 DEF Named, sockVars, regVars, reqVars, dbVars
  <2> QED BY <2>1, <2>4, <2>5, TypePartsNext
<1>2. CASE SweepEvict
  <2> DEFINE names == {name[w] : w \in doomed}
  <2>1. /\ agentRegistry!evict(names)
        /\ pendingRegistry!rejectAllForAgent(names)
        /\ tunnelWsRegistry!closeAllForAgent(doomed)
        /\ UNCHANGED <<reg, name, limit, slug, missed, subVars, reqVars, upgrade, sweepSessions,
                       dbRow, awaitingSlug>>
        /\ sweepPc' = "idle" /\ doomed' = {}
        /\ dbOps' = dbOps \cup (doomed \X {"EVICTED"})
        /\ ws' = closing(doomed)
    BY <1>2 DEF SweepEvict
  <2>2. gone' \in [Socket -> {"no", "replaced", "closed", "heartbeat", "sweep", "mistaken"}]
    BY <1>2 DEF SweepEvict, SocketType
  <2>3. SocketType'
    BY <2>1, <2>2, SocketEffectType DEF SocketType
  <2>4. WorkType'
    BY <2>1 DEF WorkType, DbOp
  <2>5. RequestType' /\ subdomainRegistry!TypeOK'
    BY <2>1
  <2>6. agentRegistry!TypeOK' /\ pendingRegistry!TypeOK' /\ tunnelWsRegistry!TypeOK'
    BY <2>1, EvictType, RejectAllType, CloseAllType
  <2>7. Named'
    <3>1. \A w \in Socket : ws'[w] = "absent" <=> ws[w] = "absent"
      BY <2>1, SocketEffectType
    <3>2. /\ byAgentId' \subseteq byAgentId /\ byWs' \subseteq byWs
          /\ \A n \in Name : accounts'[n] # None => accounts'[n] = accounts[n]
      BY <2>1 DEF agentRegistry!evict, Name
    <3>3. \A op \in dbOps' : reg[op[1]] = "registered"
      BY <2>1 DEF Named
    <3> QED BY <2>1, <3>1, <3>2, <3>3 DEF Named, reqVars
  <2> QED BY <2>3, <2>4, <2>5, <2>6, <2>7, TypePartsNext
<1> QED BY <1>1, <1>2 DEF SweepStep

\* The steps of a connection that come before it is registered, and its pong.
LEMMA HandshakeStepType ==
  ASSUME TypeOK, Named, NEW w \in Socket,
         \/ \E n \in Name : Connect(w, n)
         \/ Authenticate(w)
         \/ Refuse(w)
         \/ RegisterThrows(w)
         \/ RegisterOverLimit(w)
         \/ HandlePong(w)
  PROVE  TypeOK' /\ Named'
<1> USE TypeParts, PartsUnchanged, RegistriesUnchanged
<1>0. UNCHANGED <<slug, gone, regVars, pendVars, tunVars, subVars, reqVars, upgrade, sweepVars,
                  dbVars>>
  BY DEF Connect, Authenticate, Refuse, RegisterThrows, RegisterOverLimit, HandlePong
<1>1. /\ SocketType'
      /\ \A v \in Socket : /\ ws'[v] # "absent" => name'[v] \in Name
                           /\ reg'[v] # "none" => ws'[v] # "absent"
                           /\ reg[v] = "registered" => reg'[v] = "registered"
  <2>1. CASE \E n \in Name : Connect(w, n)
    BY <1>0, <2>1 DEF Connect, SocketType, Named
  <2>2. CASE Authenticate(w) \/ RegisterThrows(w)
    BY <1>0, <2>2 DEF Authenticate, RegisterThrows, SocketType, Named
  <2>3. CASE Refuse(w) \/ RegisterOverLimit(w)
    <3>1. /\ reg' = [reg EXCEPT ![w] = "refused"] /\ ws' = closing({w})
          /\ reg[w] \in {"none", "limited"} /\ ws[w] # "absent"
          /\ UNCHANGED <<name, limit, missed>>
      BY <2>3 DEF Refuse, RegisterOverLimit, Named
    <3>2. SocketType' /\ \A v \in Socket : ws'[v] = "absent" <=> ws[v] = "absent"
      BY <1>0, <3>1, SocketEffectType DEF SocketType
    <3>3. \A v \in Socket : /\ reg[v] = "registered" => reg'[v] = "registered"
                            /\ reg'[v] # "none" => v = w \/ reg[v] # "none"
      BY <3>1 DEF SocketType
    <3> QED BY <3>1, <3>2, <3>3 DEF Named
  <2>4. CASE HandlePong(w)
    BY <1>0, <2>4 DEF HandlePong, SocketType, Named
  <2> QED BY <2>1, <2>2, <2>3, <2>4
<1>2. Named'
  BY <1>0, <1>1 DEF Named, agentRegistry!TypeOK, WorkType, DbOp, Name, regVars, sweepVars, dbVars,
                    reqVars
<1> QED BY <1>0, <1>1, <1>2, TypePartsNext

LEMMA RegisterAgentType ==
  ASSUME TypeOK, Named, NEW w \in Socket, RegisterAgent(w)
  PROVE  TypeOK' /\ Named'
<1> USE TypeParts, PartsUnchanged, RegistriesUnchanged
<1> DEFINE old == {accounts[name[w]]} \ {None}
<1>1. /\ reg[w] = "limited" /\ name[w] \in Name /\ ws[w] # "absent"
      /\ reg' = [reg EXCEPT ![w] = "registered"]
      /\ tunnelWsRegistry!closeAllForAgent(old)
      /\ agentRegistry!register(w, name[w])
      /\ ws' = closing(old)
      /\ gone' = left(old, "replaced")
      /\ dbOps' = dbOps \cup {<<w, "CONNECTED">>}
      /\ UNCHANGED <<name, limit, missed, pendVars, subVars, reqVars, upgrade, sweepVars,
                     dbRow, awaitingSlug>>
  BY DEF RegisterAgent, Named
<1>2. slug' \in [Socket -> BOOLEAN]
  BY DEF RegisterAgent, SocketType
<1>3. SocketType'
  BY <1>1, <1>2, SocketEffectType DEF SocketType
<1>4. WorkType'
  BY <1>1 DEF WorkType, DbOp, sweepVars
<1>5. agentRegistry!TypeOK' /\ tunnelWsRegistry!TypeOK'
  BY <1>1, RegisterType, CloseAllType
<1>6. Named'
  <2>1. \A v \in Socket : ws'[v] = "absent" <=> ws[v] = "absent"
    BY <1>1, SocketEffectType
  <2>2. /\ byAgentId' \subseteq byAgentId \cup {w} /\ byWs' \subseteq byWs \cup {w}
        /\ \A n \in Name : accounts'[n] \in {accounts[n], w}
    BY <1>1 DEF agentRegistry!register, agentRegistry!TypeOK, Name
  <2>3. \A v \in Socket : reg[v] = "registered" => reg'[v] = "registered"
    BY <1>1 DEF SocketType
  <2>4. \A v \in Socket : reg'[v] # "none" => reg[v] # "none"
    BY <1>1 DEF SocketType
  <2>5. reg'[w] = "registered"
    BY <1>1 DEF SocketType
  <2>6. \A n \in Name : accounts'[n] # None => reg'[accounts'[n]] = "registered"
    BY <2>2, <2>3, <2>5 DEF Named, agentRegistry!TypeOK, Name
  <2>7. \A op \in dbOps' : reg'[op[1]] = "registered"
    BY <1>1, <2>3, <2>5 DEF Named, WorkType, DbOp
  <2>8. \A v \in byAgentId' \cup byWs' \cup awaitingSlug' \cup sweepSessions' \cup doomed' :
          reg'[v] = "registered"
    BY <1>1, <2>2, <2>3, <2>5 DEF Named, WorkType, sweepVars, agentRegistry!TypeOK
  <2> QED BY <1>1, <2>1, <2>4, <2>6, <2>7, <2>8 DEF Named, reqVars
<1> QED BY <1>1, <1>3, <1>4, <1>5, <1>6, TypePartsNext

LEMMA OnAgentCloseType ==
  ASSUME TypeOK, Named, NEW w \in Socket, OnAgentClose(w)
  PROVE  TypeOK' /\ Named'
<1> USE TypeParts, PartsUnchanged, RegistriesUnchanged
<1>1. /\ ws[w] # "absent" /\ ws' = [ws EXCEPT ![w] = "closed"]
      /\ UNCHANGED <<reg, name, limit, slug, missed, subVars, reqVars, upgrade, sweepVars, dbRow>>
  BY DEF OnAgentClose
<1>2. RequestType' /\ subdomainRegistry!TypeOK'
  BY <1>1
<1>3. CASE w \in byWs
  <2>1. /\ agentRegistry!evict({name[w]})
        /\ gone' = left(agentRegistry!evicted({name[w]}), "closed")
        /\ pendingRegistry!rejectAllForAgent({name[w]})
        /\ tunnelWsRegistry!closeAllForAgent({w})
        /\ dbOps' = dbOps \cup {<<w, "DISCONNECTED">>}
        /\ awaitingSlug' = awaitingSlug \cup {w}
    BY <1>3 DEF OnAgentClose
  <2>2. agentRegistry!TypeOK' /\ pendingRegistry!TypeOK' /\ tunnelWsRegistry!TypeOK'
    BY <2>1, EvictType, RejectAllType, CloseAllType
  <2>3. SocketType'
    BY <1>1, <2>1, SocketEffectType DEF SocketType
  <2>4. WorkType'
    BY <1>1, <2>1 DEF WorkType, DbOp, sweepVars
  <2>5. Named'
    <3>1. /\ byAgentId' \subseteq byAgentId /\ byWs' \subseteq byWs
          /\ \A n \in Name : accounts'[n] # None => accounts'[n] = accounts[n]
      BY <2>1 DEF agentRegistry!evict, Name
    <3>2. reg[w] = "registered"
      BY <1>3 DEF Named
    <3> QED BY <1>1, <2>1, <3>1, <3>2 DEF Named, SocketType, sweepVars, reqVars
  <2> QED BY <1>2, <2>2, <2>3, <2>4, <2>5, TypePartsNext
<1>4. CASE w \notin byWs
  <2>1. UNCHANGED <<regVars, gone, pendVars, tunVars, dbOps, awaitingSlug>>
    BY <1>4 DEF OnAgentClose
  <2>2. SocketType' /\ WorkType'
    BY <1>1, <2>1 DEF SocketType, WorkType, sweepVars
  <2>3. Named'
    BY <1>1, <2>1 DEF Named, SocketType, regVars, sweepVars, reqVars
  <2> QED BY <1>2, <2>1, <2>2, <2>3, TypePartsNext
<1> QED BY <1>3, <1>4

\* The writes that come after a registration or a close.
LEMMA LeftoverStepType ==
  ASSUME TypeOK, Named, NEW w \in Socket,
         \/ OnAgentCloseUnregister(w)
         \/ UpsertSession(w)
         \/ \E status \in {"DISCONNECTED", "EVICTED"} : MarkDisconnected(w, status)
  PROVE  TypeOK' /\ Named'
<1> USE TypeParts, PartsUnchanged, RegistriesUnchanged
<1>1. UNCHANGED <<sockVars, regVars, pendVars, tunVars, reqVars, upgrade, sweepVars>>
  BY DEF OnAgentCloseUnregister, UpsertSession, MarkDisconnected
<1>2. dbOps' \subseteq dbOps /\ awaitingSlug' \subseteq awaitingSlug
  BY DEF OnAgentCloseUnregister, UpsertSession, MarkDisconnected
<1>3. dbRow' \in [Socket -> {"none", "CONNECTED", "DISCONNECTED", "EVICTED"}]
  BY DEF OnAgentCloseUnregister, UpsertSession, MarkDisconnected, WorkType
<1>4. WorkType'
  BY <1>1, <1>2, <1>3 DEF WorkType, sweepVars
<1>5. Named'
  BY <1>1, <1>2 DEF Named, sockVars, regVars, sweepVars, reqVars
<1>6. subdomainRegistry!TypeOK'
  <2>1. CASE OnAgentCloseUnregister(w)
    <3>1. name[w] \in Name /\ subdomainRegistry!unregister(name[w], w, None)
      BY <2>1 DEF OnAgentCloseUnregister, Named
    <3> QED BY <3>1, UnregisterCallType
  <2>2. CASE UpsertSession(w)
    <3>1. <<w, "CONNECTED">> \in dbOps
      BY <2>2 DEF UpsertSession
    <3>2. reg[w] = "registered"
      BY <3>1 DEF Named
    <3>3. name[w] \in Name
      BY <3>2 DEF Named
    <3> QED BY <2>2, <3>3, RegisterCallType DEF UpsertSession
  <2>3. CASE \E status \in {"DISCONNECTED", "EVICTED"} : MarkDisconnected(w, status)
    BY <2>3 DEF MarkDisconnected
  <2> QED BY <2>1, <2>2, <2>3
<1> QED BY <1>1, <1>4, <1>5, <1>6, TypePartsNext

\* The hub's state keeps its types, whatever the constants: the registries'
\* maps are maps from names, requests and connections to sessions, and the
\* lock queues hold calls (Hub, Next).
THEOREM TypeCorrect == Spec => [](TypeOK /\ Named)
<1>1. Init => TypeOK /\ Named
  BY InitTypeOK, ConstantsAssumption
  DEF Init, Named, agentRegistry!Init, Name
<1>2. TypeOK /\ Named /\ [Next]_vars => TypeOK' /\ Named'
  <2> SUFFICES ASSUME TypeOK, Named, [Next]_vars
               PROVE  TypeOK' /\ Named'
    OBVIOUS
  <2>1. ASSUME NEW w \in Socket, SocketStep(w)
        PROVE  TypeOK' /\ Named'
    BY <2>1, HandshakeStepType, RegisterAgentType, OnAgentCloseType, LeftoverStepType
    DEF SocketStep
  <2>2. CASE UNCHANGED vars
    <3>1. TypeOK'
      BY <2>2, TypeParts, TypePartsNext, PartsUnchanged, RegistriesUnchanged DEF vars
    <3> QED BY <2>2, <3>1
      DEF vars, Named, sockVars, regVars, sweepVars, dbVars, reqVars
  <2> QED BY <2>1, <2>2, HeartbeatTickType, SweepStepType, SubdomainStepType, RequestStepType,
             TunnelStepType, TunnelStepNamed DEF Next
<1> QED BY <1>1, <1>2, PTL DEF Spec

(***************************************************************************)
(* The registry of agents.                                                 *)
(***************************************************************************)
RegistryInv == IndexesAgree /\ RegisteredUntilClosed

\* A step that leaves the registry alone keeps it in order if it registers
\* and reopens nothing.
LEMMA RegistryFrame ==
  ASSUME TypeOK, Named, RegistryInv, UNCHANGED <<regVars, gone>>,
         \A w \in Socket : /\ reg'[w] = "registered" => reg[w] = "registered"
                           /\ reg[w] = "registered" => name'[w] = name[w]
                           /\ ws'[w] = "open" /\ reg[w] = "registered" => ws[w] = "open"
  PROVE  RegistryInv'
<1> USE DEF regVars
<1>1. agentRegistry!allSessions' = agentRegistry!allSessions
  BY DEF agentRegistry!allSessions
<1>2. \A n \in Name : accounts[n] # None => name'[accounts[n]] = name[accounts[n]]
  BY DEF Named, TypeOK, agentRegistry!TypeOK, Name
<1>3. IndexesAgree'
  BY <1>1, <1>2 DEF RegistryInv, IndexesAgree
<1>4. RegisteredUntilClosed'
  BY DEF RegistryInv, RegisteredUntilClosed
<1> QED BY <1>3, <1>4 DEF RegistryInv

\* Evicting the names of a set of registered sessions evicts that set.
LEMMA EvictedAreNamed ==
  ASSUME TypeOK, IndexesAgree, NEW S \in SUBSET agentRegistry!allSessions
  PROVE  agentRegistry!evicted({name[w] : w \in S}) = S
<1>1. \A w \in S : w \in Socket /\ name[w] \in Name /\ accounts[name[w]] = w
  BY ConstantsAssumption DEF IndexesAgree, agentRegistry!allSessions, Name
<1> QED BY <1>1 DEF agentRegistry!evicted

\* An eviction takes the same sessions out of the three maps.
LEMMA EvictKeepsIndexes ==
  ASSUME TypeOK, IndexesAgree, NEW ns \in SUBSET Name, agentRegistry!evict(ns), UNCHANGED name
  PROVE  IndexesAgree' /\ byWs' = byWs \ agentRegistry!evicted(ns)
<1>1. \A n \in Name : accounts'[n] = IF n \in ns THEN None ELSE accounts[n]
  BY DEF agentRegistry!evict, Name
<1>2. agentRegistry!allSessions' = agentRegistry!allSessions \ agentRegistry!evicted(ns)
  <2> DEFINE now == {w \in Socket : \E n \in Name : accounts[n] = w}
             out == {w \in Socket : \E n \in ns : accounts[n] = w}
             then == {w \in Socket : \E n \in Name : accounts'[n] = w}
  <2>1. ASSUME NEW w \in Socket
        PROVE  w \in then <=> w \in now \ out
    <3>1. ASSUME NEW n \in Name, accounts'[n] = w
          PROVE  accounts[n] = w /\ n \notin ns /\ name[w] = n
      BY <1>1, <3>1, ConstantsAssumption DEF IndexesAgree
    <3>2. ASSUME NEW n \in Name, accounts[n] = w
          PROVE  name[w] = n
      BY <3>2, ConstantsAssumption DEF IndexesAgree
    <3> QED BY <1>1, <3>1, <3>2
  <2>2. then = now \ out
    BY <2>1
  <2> QED BY <2>2 DEF agentRegistry!allSessions, agentRegistry!evicted, Name
<1> QED BY <1>1, <1>2 DEF IndexesAgree, agentRegistry!evict

\* handleAgentRegister: the replaced session leaves the maps, the new one is
\* in all of them under its own name.
LEMMA RegisterAgentKeepsRegistry ==
  ASSUME TypeOK, Named, RegistryInv, NEW w \in Socket, RegisterAgent(w)
  PROVE  RegistryInv'
<1> DEFINE n == name[w]
           old == {accounts[n]} \ {None}
<1>1. /\ reg[w] = "limited" /\ n \in Name /\ ws[w] # "absent"
      /\ reg' = [reg EXCEPT ![w] = "registered"]
      /\ agentRegistry!register(w, n)
      /\ ws' = closing(old)
      /\ gone' = left(old, "replaced")
      /\ UNCHANGED name
  BY DEF RegisterAgent, Named
<1>2. /\ \A m \in Name : accounts'[m] = IF m = n THEN w ELSE accounts[m]
      /\ byWs' = (byWs \ {accounts[n]}) \cup {w}
      /\ byAgentId' = (byAgentId \ {accounts[n]}) \cup {w}
  BY <1>1 DEF agentRegistry!register, TypeOK, agentRegistry!TypeOK, Name
<1>3. \A m \in Name : accounts[m] # w
  BY <1>1, ConstantsAssumption DEF Named, TypeOK
<1>4. agentRegistry!allSessions' = (agentRegistry!allSessions \ {accounts[n]}) \cup {w}
  <2> DEFINE now == {v \in Socket : \E m \in Name : accounts[m] = v}
             then == {v \in Socket : \E m \in Name : accounts'[m] = v}
  <2>1. ASSUME NEW v \in Socket
        PROVE  v \in then <=> v \in (now \ {accounts[n]}) \cup {w}
    <3>1. ASSUME NEW m \in Name, accounts[m] = v
          PROVE  name[v] = m
      BY <3>1, ConstantsAssumption DEF RegistryInv, IndexesAgree
    <3> QED BY <1>1, <1>2, <3>1, ConstantsAssumption
  <2>2. then = (now \ {accounts[n]}) \cup {w}
    BY <2>1
  <2> QED BY <2>2 DEF agentRegistry!allSessions, Name
<1>5. IndexesAgree'
  BY <1>1, <1>2, <1>4 DEF RegistryInv, IndexesAgree
<1>6. RegisteredUntilClosed'
  <2> SUFFICES ASSUME NEW v \in Socket, reg'[v] = "registered", ws'[v] = "open", v # w
               PROVE  v \in byWs' \/ gone'[v] = "mistaken"
    BY <1>2 DEF RegisteredUntilClosed
  <2>1. reg[v] = "registered"
    BY <1>1 DEF TypeOK
  <2>2. ws[v] = "open" /\ v \notin old
    BY <1>1 DEF closing
  <2>3. v # accounts[n]
    BY <2>2, ConstantsAssumption
  <2> QED BY <1>1, <1>2, <2>1, <2>2, <2>3 DEF RegistryInv, RegisteredUntilClosed, left
<1> QED BY <1>5, <1>6 DEF RegistryInv

\* onAgentClose, the heartbeat and the sweep.
LEMMA EvictionsKeepRegistry ==
  ASSUME TypeOK, Named, RegistryInv,
         \/ \E w \in Socket : OnAgentClose(w)
         \/ HeartbeatTick
         \/ SweepEvict
  PROVE  RegistryInv'
<1> USE DEF RegistryInv
<1>1. ASSUME NEW w \in Socket, OnAgentClose(w), w \in byWs
      PROVE  RegistryInv'
  <2>1. /\ agentRegistry!evict({name[w]}) /\ ws' = [ws EXCEPT ![w] = "closed"]
        /\ gone' = left(agentRegistry!evicted({name[w]}), "closed")
        /\ UNCHANGED <<reg, name>>
    BY <1>1 DEF OnAgentClose
  <2>2. name[w] \in Name /\ w \in agentRegistry!allSessions
    BY <1>1 DEF Named, IndexesAgree
  <2>3. agentRegistry!evicted({name[w]}) = {w}
    <3>1. {name[w]} = {name[v] : v \in {w}}
      OBVIOUS
    <3>2. {w} \in SUBSET agentRegistry!allSessions
      BY <2>2
    <3>3. agentRegistry!evicted({name[v] : v \in {w}}) = {w}
      BY <3>2, EvictedAreNamed
    <3> QED BY <3>1, <3>3 DEF agentRegistry!evicted
  <2>4. IndexesAgree' /\ byWs' = byWs \ {w}
    BY <2>1, <2>2, <2>3, EvictKeepsIndexes
  <2>5. RegisteredUntilClosed'
    BY <2>1, <2>3, <2>4 DEF RegisteredUntilClosed, left, TypeOK
  <2> QED BY <2>4, <2>5
<1>2. ASSUME NEW w \in Socket, OnAgentClose(w), w \notin byWs
      PROVE  RegistryInv'
  BY <1>2, RegistryFrame DEF OnAgentClose, TypeOK
<1>3. CASE HeartbeatTick
  <2> DEFINE names == {name[w] : w \in missedTooMany}
  <2>1. /\ agentRegistry!evict(names) /\ ws' = closing(missedTooMany)
        /\ gone' = left(agentRegistry!evicted(names), "heartbeat")
        /\ UNCHANGED <<reg, name>>
    BY <1>3 DEF HeartbeatTick
  <2>2. names \in SUBSET Name /\ agentRegistry!evicted(names) = missedTooMany
    <3>1. missedTooMany \in SUBSET agentRegistry!allSessions
      BY DEF missedTooMany
    <3>2. \A w \in missedTooMany : name[w] \in Name
      BY <3>1, SessionsRegistered DEF Named
    <3> QED BY <3>1, <3>2, EvictedAreNamed
  <2>3. IndexesAgree' /\ byWs' = byWs \ missedTooMany
    BY <2>1, <2>2, EvictKeepsIndexes
  <2>4. RegisteredUntilClosed'
    BY <2>1, <2>2, <2>3 DEF RegisteredUntilClosed, closing, left, TypeOK
  <2> QED BY <2>3, <2>4
<1>4. CASE SweepEvict
  <2> DEFINE names == {name[w] : w \in doomed}
             out == agentRegistry!evicted(names)
  <2>1. /\ agentRegistry!evict(names) /\ ws' = closing(doomed)
        /\ gone' = [w \in Socket |-> IF w \in out \cap doomed THEN "sweep"
                                     ELSE IF w \in out THEN "mistaken" ELSE gone[w]]
        /\ UNCHANGED <<reg, name>>
    BY <1>4 DEF SweepEvict
  <2>2. names \in SUBSET Name
    BY DEF Named, TypeOK
  <2>3. IndexesAgree' /\ byWs' = byWs \ out
    BY <2>1, <2>2, EvictKeepsIndexes
  <2>4. RegisteredUntilClosed'
    BY <2>1, <2>3 DEF RegisteredUntilClosed, closing, TypeOK
  <2> QED BY <2>3, <2>4
<1> QED BY <1>1, <1>2, <1>3, <1>4

\* The registry's three maps agree and no registered agent drops out of them
\* while its socket is open, whatever the interleaving of registrations,
\* closes, heartbeats and sweeps (Agent.registry.ts; Message.router.ts,
\* Heartbeat.service.ts and AccountStatusSweep.service.ts, evict).
THEOREM RegistryCorrect == Spec => [](IndexesAgree /\ RegisteredUntilClosed)
<1>1. Init => RegistryInv
  BY ConstantsAssumption
  DEF Init, RegistryInv, IndexesAgree, RegisteredUntilClosed, agentRegistry!Init,
      agentRegistry!allSessions, Name
<1>2. TypeOK /\ Named /\ RegistryInv /\ [Next]_vars => RegistryInv'
  <2> SUFFICES ASSUME TypeOK, Named, RegistryInv, [Next]_vars
               PROVE  RegistryInv'
    OBVIOUS
  <2>1. ASSUME UNCHANGED <<sockVars, regVars>>
        PROVE  RegistryInv'
    BY <2>1, RegistryFrame DEF sockVars
  <2>2. ASSUME NEW w \in Socket, SocketStep(w)
        PROVE  RegistryInv'
    <3>1. CASE \E n \in Name : Connect(w, n)
      BY <3>1, RegistryFrame DEF Connect, TypeOK, Named
    <3>2. CASE Authenticate(w) \/ RegisterThrows(w) \/ HandlePong(w)
      BY <3>2, RegistryFrame DEF Authenticate, RegisterThrows, HandlePong, TypeOK
    <3>3. CASE Refuse(w) \/ RegisterOverLimit(w)
      <4>1. /\ reg' = [reg EXCEPT ![w] = "refused"] /\ ws' = closing({w})
            /\ UNCHANGED <<name, gone, regVars>>
        BY <3>3 DEF Refuse, RegisterOverLimit
      <4> QED BY <4>1, RegistryFrame DEF closing, TypeOK
    <3>4. CASE OnAgentCloseUnregister(w) \/ UpsertSession(w)
               \/ \E status \in {"DISCONNECTED", "EVICTED"} : MarkDisconnected(w, status)
      BY <2>1, <3>4 DEF OnAgentCloseUnregister, UpsertSession, MarkDisconnected
    <3> QED BY <2>2, <3>1, <3>2, <3>3, <3>4, RegisterAgentKeepsRegistry, EvictionsKeepRegistry
            DEF SocketStep
  <2>3. CASE SweepStep
    BY <2>1, <2>3, EvictionsKeepRegistry
    DEF SweepStep, SweepStart, SweepReadStatuses, SweepReadFails, SweepReadKeys
  <2>4. ASSUME NEW n \in Name, SubdomainRead(n) \/ SubdomainSettle(n)
        PROVE  RegistryInv'
    BY <2>1, <2>4 DEF SubdomainRead, SubdomainSettle
  <2>5. ASSUME NEW r \in Request, RequestStep(r)
        PROVE  RegistryInv'
    BY <2>1, <2>5, RequestStepFrame DEF notRequests
  <2>6. ASSUME NEW c \in Conn, TunnelStep(c)
        PROVE  RegistryInv'
    BY <2>1, <2>6, TunnelStepFrame DEF notTunnels
  <2>7. CASE UNCHANGED vars
    BY <2>1, <2>7 DEF vars
  <2> QED BY <2>2, <2>3, <2>4, <2>5, <2>6, <2>7, EvictionsKeepRegistry DEF Next
<1> QED BY <1>1, <1>2, TypeCorrect, PTL DEF Spec, RegistryInv

\* In particular the three maps hold the same sessions, each under its own
\* account and label (Agent.registry.ts, register and evict).
THEOREM IndexesCorrect == Spec => []IndexesAgree
BY RegistryCorrect, PTL

(***************************************************************************)
(* The agent limit.                                                        *)
(***************************************************************************)
admitted(a, m) == {w \in agentRegistry!sessionsOf(a) : limit[w] <= m}

LEMMA SessionsFinite ==
  ASSUME NEW a
  PROVE  /\ IsFiniteSet(agentRegistry!sessionsOf(a))
         /\ Cardinality(agentRegistry!sessionsOf(a)) \in Nat
<1>1. agentRegistry!sessionsOf(a) \subseteq Socket
  BY DEF agentRegistry!sessionsOf
<1> QED BY <1>1, ConstantsAssumption, FS_Subset, FS_CardinalityType

\* Sessions leaving the registry cannot break the limit.
LEMMA FewerSessions ==
  ASSUME AgentLimit, NEW a \in Account, NEW m \in PlanLimits,
         NEW S \in SUBSET admitted(a, m)
  PROVE  Cardinality(S) <= m
<1>1. IsFiniteSet(admitted(a, m)) /\ Cardinality(admitted(a, m)) \in Nat
  BY SessionsFinite, FS_Subset, FS_CardinalityType DEF admitted
<1>2. Cardinality(admitted(a, m)) <= m
  BY DEF AgentLimit, admitted
<1>3. Cardinality(S) \in Nat /\ Cardinality(S) <= Cardinality(admitted(a, m))
  BY <1>1, FS_Subset, FS_CardinalityType
<1> QED BY <1>1, <1>2, <1>3, ConstantsAssumption

\* otherAgents(w) is the number of sessions that w would share the account
\* with.
LEMMA OtherAgentsCounts ==
  ASSUME TypeOK, NEW w \in Socket, name[w] \in Name
  PROVE  LET others == agentRegistry!sessionsOf(name[w][1]) \ {accounts[name[w]]} IN
         /\ IsFiniteSet(others)
         /\ Cardinality(others) \in Nat
         /\ Cardinality(others) = otherAgents(w)
<1> DEFINE a == name[w][1]
           S == agentRegistry!sessionsOf(a)
           old == accounts[name[w]]
<1>1. IsFiniteSet(S) /\ Cardinality(S) \in Nat
  BY SessionsFinite
<1>2. IsFiniteSet(S \ {old}) /\ Cardinality(S \ {old}) \in Nat
  BY <1>1, FS_Subset, FS_CardinalityType
<1>0. otherAgents(w) = Cardinality(S) - (IF old # None THEN 1 ELSE 0)
  BY Zenon DEF otherAgents, agentRegistry!countByAccount, agentRegistry!Cardinality, Cardinality,
     agentRegistry!IsFiniteSet, IsFiniteSet
<1> SUFFICES Cardinality(S \ {old}) = otherAgents(w)
  BY <1>2
<1> HIDE DEF S, old
<1>3. CASE old = None
  <2>1. S \ {old} = S
    BY <1>3, ConstantsAssumption DEF S, agentRegistry!sessionsOf
  <2> QED BY <1>0, <1>1, <1>3, <2>1
<1>4. CASE old # None
  <2>1. old \in Socket
    BY <1>4 DEF old, TypeOK, agentRegistry!TypeOK, Name
  <2>2. \E l \in Label : accounts[<<a, l>>] = old
    BY DEF old, Name, agentRegistry!Name
  <2>3. old \in S
    BY <2>1, <2>2 DEF S, agentRegistry!sessionsOf
  <2>4. Cardinality(S \ {old}) = Cardinality(S) - 1
    BY <1>1, <2>3, FS_RemoveElement
  <2> QED BY <1>0, <1>1, <1>4, <2>4
<1> QED BY <1>3, <1>4

\* A step after which every account has only sessions it had before, with the
\* limits they had, keeps the limit.
LEMMA LimitFrame ==
  ASSUME AgentLimit,
         \A a \in Account, m \in PlanLimits : admitted(a, m)' \subseteq admitted(a, m)
  PROVE  AgentLimit'
<1> SUFFICES ASSUME NEW a \in Account, NEW m \in PlanLimits
             PROVE  Cardinality(admitted(a, m)') <= m
  BY DEF AgentLimit, admitted
<1> QED BY FewerSessions

\* A registration is checked against the sessions there are when it is made.
LEMMA RegisterAgentKeepsLimit ==
  ASSUME TypeOK, Named, IndexesAgree, AgentLimit, NEW w \in Socket, RegisterAgent(w)
  PROVE  AgentLimit'
<1> DEFINE n == name[w]
           others == agentRegistry!sessionsOf(n[1]) \ {accounts[n]}
<1>1. /\ n \in Name /\ otherAgents(w) < limit[w] /\ limit[w] \in PlanLimits \cup {0}
      /\ agentRegistry!register(w, n) /\ UNCHANGED limit
  BY DEF RegisterAgent, Named, TypeOK
<1>2. \A a \in Account, l \in Label :
        accounts'[<<a, l>>] = IF <<a, l>> = n THEN w ELSE accounts[<<a, l>>]
  BY <1>1 DEF agentRegistry!register, TypeOK, agentRegistry!TypeOK, agentRegistry!Name, Name
<1>3. ASSUME NEW a \in Account, NEW v \in agentRegistry!sessionsOf(a)'
      PROVE  v \in agentRegistry!sessionsOf(a) \/ (v = w /\ a = n[1])
  <2>1. v \in Socket
    BY DEF agentRegistry!sessionsOf
  <2>2. PICK l \in Label : accounts'[<<a, l>>] = v
    BY DEF agentRegistry!sessionsOf
  <2>3. CASE <<a, l>> = n
    BY <1>2, <2>2, <2>3
  <2>4. CASE <<a, l>> # n
    BY <1>2, <2>1, <2>2, <2>4 DEF agentRegistry!sessionsOf
  <2> QED BY <2>3, <2>4
<1>8. ASSUME NEW m \in PlanLimits
      PROVE  limit[w] \in Nat /\ m \in Nat
  <2>1. limit[w] \in PlanLimits \cup {0}
    BY <1>1
  <2>2. PlanLimits \subseteq Nat
    BY ConstantsAssumption
  <2>3. 0 \in Nat
    OBVIOUS
  <2> QED BY <1>8, <2>1, <2>2, <2>3, Zenon
<1> SUFFICES ASSUME NEW a \in Account, NEW m \in PlanLimits
             PROVE  Cardinality(admitted(a, m)') <= m
  BY DEF AgentLimit, admitted
<1>6. CASE a # n[1] \/ limit[w] > m
  <2>1. admitted(a, m)' \subseteq admitted(a, m)
    BY <1>1, <1>3, <1>6, <1>8 DEF admitted
  <2> QED BY <2>1, FewerSessions
<1>7. CASE a = n[1] /\ limit[w] <= m
  <2>1. /\ IsFiniteSet(others) /\ Cardinality(others) \in Nat
        /\ Cardinality(others) = otherAgents(w)
    BY <1>1, OtherAgentsCounts
  <2>2. admitted(a, m)' \subseteq others \cup {w}
    <3> SUFFICES ASSUME NEW v \in agentRegistry!sessionsOf(a)', v # w
                 PROVE  v \in others
      BY DEF admitted
    <3>1. v \in Socket
      BY DEF agentRegistry!sessionsOf
    <3>2. PICK l \in Label : accounts'[<<a, l>>] = v
      BY DEF agentRegistry!sessionsOf
    <3>3. accounts[<<a, l>>] = v /\ <<a, l>> # n
      BY <1>2, <3>2
    <3>4. name[v] = <<a, l>>
      BY <3>1, <3>3, ConstantsAssumption DEF IndexesAgree, Name, agentRegistry!Name
    <3>5. accounts[n] # v
      BY <1>1, <3>1, <3>3, <3>4, ConstantsAssumption DEF IndexesAgree
    <3> QED BY <1>7, <3>1, <3>3, <3>5 DEF agentRegistry!sessionsOf
  <2>3. /\ IsFiniteSet(others \cup {w}) /\ Cardinality(others \cup {w}) \in Nat
        /\ Cardinality(others \cup {w}) <= Cardinality(others) + 1
    <3> HIDE DEF others
    <3>1. /\ IsFiniteSet(others \cup {w})
          /\ Cardinality(others \cup {w}) = IF w \in others THEN Cardinality(others)
                                            ELSE Cardinality(others) + 1
      BY <2>1, FS_AddElement
    <3> QED BY <2>1, <3>1
  <2>4. /\ Cardinality(admitted(a, m)') \in Nat
        /\ Cardinality(admitted(a, m)') <= Cardinality(others \cup {w})
    BY <2>2, <2>3, FS_Subset, FS_CardinalityType
  <2> HIDE DEF others
  <2> QED BY <1>1, <1>7, <1>8, <2>1, <2>3, <2>4
<1> QED BY <1>6, <1>7, <1>8

\* An account never has more agents registered than the limit each of them
\* was admitted under, although handleAgentRegister reads the limit several
\* awaits before it registers (Message.router.ts).
THEOREM AgentLimitHolds == Spec => []AgentLimit
<1>1. Init => AgentLimit
  <2> SUFFICES ASSUME Init, NEW a \in Account, NEW m \in PlanLimits
               PROVE  Cardinality(admitted(a, m)) <= m
    BY DEF AgentLimit, admitted
  <2>1. admitted(a, m) = {}
    BY ConstantsAssumption
    DEF Init, admitted, agentRegistry!Init, agentRegistry!sessionsOf, agentRegistry!Name
  <2> QED BY <2>1, FS_EmptySet, ConstantsAssumption
<1>2. TypeOK /\ Named /\ IndexesAgree /\ AgentLimit /\ [Next]_vars => AgentLimit'
  <2> SUFFICES ASSUME TypeOK, Named, IndexesAgree, AgentLimit, [Next]_vars
               PROVE  AgentLimit'
    OBVIOUS
  <2>1. ASSUME UNCHANGED <<limit, regVars>>
        PROVE  AgentLimit'
    BY <2>1, LimitFrame DEF admitted, agentRegistry!sessionsOf, regVars
  <2>2. ASSUME NEW ns, agentRegistry!evict(ns), UNCHANGED limit
        PROVE  AgentLimit'
    <3>1. \A a \in Account, l \in Label : accounts'[<<a, l>>] \in {None, accounts[<<a, l>>]}
      BY <2>2 DEF agentRegistry!evict, agentRegistry!Name
    <3>2. \A a \in Account : agentRegistry!sessionsOf(a)' \subseteq agentRegistry!sessionsOf(a)
      BY <3>1, ConstantsAssumption DEF agentRegistry!sessionsOf
    <3> QED BY <2>2, <3>2, LimitFrame DEF admitted
  <2>3. ASSUME NEW w \in Socket, SocketStep(w)
        PROVE  AgentLimit'
    <3>1. CASE Authenticate(w)
      <4>1. \A v \in Socket : limit'[v] = limit[v] \/ v = w
        BY <3>1 DEF Authenticate, TypeOK
      <4>2. \A a \in Account : w \notin agentRegistry!sessionsOf(a)
        BY <3>1, ConstantsAssumption
        DEF Authenticate, agentRegistry!sessionsOf, Named, agentRegistry!Name, Name
      <4>3. UNCHANGED regVars
        BY <3>1 DEF Authenticate
      <4>4. \A a \in Account : agentRegistry!sessionsOf(a)' = agentRegistry!sessionsOf(a)
                               /\ agentRegistry!sessionsOf(a) \subseteq Socket
        BY <4>3 DEF agentRegistry!sessionsOf, regVars
      <4> QED BY <4>1, <4>2, <4>4, LimitFrame DEF admitted
    <3>2. CASE RegisterAgent(w)
      BY <3>2, RegisterAgentKeepsLimit
    <3>3. CASE OnAgentClose(w)
      BY <2>1, <2>2, <3>3 DEF OnAgentClose
    <3>4. CASE ~(Authenticate(w) \/ RegisterAgent(w) \/ OnAgentClose(w))
      BY <2>1, <2>3, <3>4
      DEF SocketStep, Connect, Refuse, RegisterThrows, RegisterOverLimit, HandlePong, sockVars,
          OnAgentCloseUnregister, UpsertSession, MarkDisconnected
    <3> QED BY <3>1, <3>2, <3>3, <3>4
  <2>4. CASE HeartbeatTick
    BY <2>2, <2>4 DEF HeartbeatTick
  <2>5. CASE SweepStep
    BY <2>1, <2>2, <2>5
    DEF SweepStep, SweepStart, SweepReadStatuses, SweepReadFails, SweepReadKeys, SweepEvict, sockVars
  <2>6. ASSUME NEW n \in Name, SubdomainRead(n) \/ SubdomainSettle(n)
        PROVE  AgentLimit'
    BY <2>1, <2>6 DEF SubdomainRead, SubdomainSettle, sockVars
  <2>7. ASSUME NEW r \in Request, RequestStep(r)
        PROVE  AgentLimit'
    BY <2>1, <2>7, RequestStepFrame DEF notRequests, sockVars
  <2>8. ASSUME NEW c \in Conn, TunnelStep(c)
        PROVE  AgentLimit'
    BY <2>1, <2>8, TunnelStepFrame DEF notTunnels, sockVars
  <2>9. CASE UNCHANGED vars
    BY <2>1, <2>9 DEF vars, sockVars
  <2> QED BY <2>3, <2>4, <2>5, <2>6, <2>7, <2>8, <2>9 DEF Next
<1> QED BY <1>1, <1>2, TypeCorrect, RegistryCorrect, PTL DEF Spec
=============================================================================
