----------------------------- MODULE SdkClient -----------------------------
(***************************************************************************)
(* The WebSocket client of the SDK (packages/sdk/src/TunnelClient.ts), its *)
(* local shortcut (LocalAgentClient.ts), the discovery server of the agent *)
(* it looks for (LocalDiscoveryServer.ts) and the hub's side of an SDK     *)
(* connection (Message.router.ts, Sdk.registry.ts).                        *)
(*                                                                         *)
(* connect() makes a new socket every time and registers handlers that     *)
(* close over that socket but write the fields of the one client: an old   *)
(* socket's late onmessage or onclose therefore acts on the state of the   *)
(* new one.  A call is first tried on the local agent, and is sent through *)
(* the hub when that fails.                                                *)
(***************************************************************************)
EXTENDS Naturals, Sequences, FiniteSets

CONSTANTS Sockets,      \* the WebSocket objects connect() may create
          Calls,        \* the calls the application may make
          NoSocket,     \* this.ws = null
          MaxQueue      \* bound: messages in flight per direction of a socket

ASSUME SdkAssumption == NoSocket \notin Sockets /\ MaxQueue \in Nat \ {0}

VARIABLES sock,         \* sock[s]: readyState of the socket at the client
          link,         \* link[s]: TRUE while the TCP connection of s is up
          toHub, toSdk, \* messages in flight
          connectP,     \* connectP[s]: the promise of the connect() that made s
          sdkWs, connected, \* the fields ws and connected of the client
          sdkPending,   \* keys of the map pending
          call,         \* call[c]: where the promise of call c stands
          ran,          \* ran[c]: how often a local backend executed c
          cachedAgent,  \* LocalAgentClient.cachedAgent: "none", "valid", "expired"
          discovery,    \* "up" while a local agent answers on port 4242
          hubSdk,       \* sdkRegistry.byWs: sockets with a session
          hubAuth,      \* messages whose authentication the hub awaits
          hubCalls      \* hubCalls[c]: socket whose request waits for the agent

sdkVars == <<sock, link, toHub, toSdk, connectP, sdkWs, connected, sdkPending, call,
             ran, cachedAgent, discovery, hubSdk, hubAuth, hubCalls>>

Settled == {"ok", "failed"}
RequestMsg(c) == [t |-> "request", c |-> c]
RegisterMsg == [t |-> "register"]
Registered == [t |-> "registered"]
Response(c) == [t |-> "response", c |-> c]
buildSdkError(c) == [t |-> "error", c |-> c]
NoCall == "no request id"

\* A new client: no socket, no call made, nothing cached.
SdkInit ==
  /\ sock = [s \in Sockets |-> "unused"]
  /\ link = [s \in Sockets |-> FALSE]
  /\ toHub = [s \in Sockets |-> <<>>] /\ toSdk = [s \in Sockets |-> <<>>]
  /\ connectP = [s \in Sockets |-> "none"]
  /\ sdkWs = NoSocket /\ connected = FALSE
  /\ sdkPending = {}
  /\ call = [c \in Calls |-> "idle"]
  /\ ran = [c \in Calls |-> 0]
  /\ cachedAgent = "none" /\ discovery = "down"
  /\ hubSdk = {} /\ hubAuth = {}
  /\ hubCalls = [c \in Calls |-> NoSocket]

-----------------------------------------------------------------------------
(* Sockets. *)

Unsent == UNCHANGED <<toHub, toSdk>>
HubIdle == UNCHANGED <<hubSdk, hubAuth, hubCalls>>
LocalIdle == UNCHANGED <<ran, cachedAgent, discovery>>

\* A promise settles once: later resolve and reject calls do nothing.
settle(p, outcome) == IF p = "waiting" THEN outcome ELSE p

\* connect(): a new socket becomes this.ws at once, before it opens.
connect ==
  \E s \in Sockets :
    /\ sock[s] = "unused"
    /\ sock' = [sock EXCEPT ![s] = "connecting"]
    /\ connectP' = [connectP EXCEPT ![s] = "waiting"]
    /\ sdkWs' = s
    /\ Unsent /\ HubIdle /\ LocalIdle /\ UNCHANGED <<link, connected, sdkPending, call>>

\* ws.onopen: the handshake is sent.
onopen ==
  \E s \in Sockets :
    /\ sock[s] = "connecting"
    /\ sock' = [sock EXCEPT ![s] = "open"]
    /\ link' = [link EXCEPT ![s] = TRUE]
    /\ toHub' = [toHub EXCEPT ![s] = <<RegisterMsg>>]
    /\ HubIdle /\ LocalIdle
    /\ UNCHANGED <<toSdk, connectP, sdkWs, connected, sdkPending, call>>

\* ws.onerror: the connection could not be made; onclose follows.
onerror ==
  \E s \in Sockets :
    /\ sock[s] = "connecting"
    /\ sock' = [sock EXCEPT ![s] = "closing"]
    /\ connectP' = IF connected THEN connectP
                   ELSE [connectP EXCEPT ![s] = settle(@, "rejected")]
    /\ Unsent /\ HubIdle /\ LocalIdle
    /\ UNCHANGED <<link, sdkWs, connected, sdkPending, call>>

\* The network or the hub drops the connection under a live socket, with or
\* without the answers that were on their way.
LinkDrops ==
  \E s \in Sockets, lost \in BOOLEAN :
    /\ link[s] /\ sock[s] = "open"
    /\ link' = [link EXCEPT ![s] = FALSE]
    /\ sock' = [sock EXCEPT ![s] = "closing"]
    /\ toHub' = [toHub EXCEPT ![s] = <<>>]
    /\ toSdk' = IF lost THEN [toSdk EXCEPT ![s] = <<>>] ELSE toSdk
    /\ HubIdle /\ LocalIdle
    /\ UNCHANGED <<connectP, sdkWs, connected, sdkPending, call>>

\* Mutant of rejectAll.
rejectNone == call

\* What onclose does to the calls: all that are in pending are rejected,
\* whichever socket they were sent on.
rejectAll == [c \in Calls |-> IF c \in sdkPending /\ call[c] = "waiting" THEN "failed" ELSE call[c]]

\* ws.onclose, after the messages received before it were delivered.
onclose ==
  \E s \in Sockets :
    /\ sock[s] = "closing" /\ toSdk[s] = <<>>
    /\ sock' = [sock EXCEPT ![s] = "closed"]
    /\ link' = [link EXCEPT ![s] = FALSE]
    /\ connected' = FALSE
    /\ call' = rejectAll
    /\ sdkPending' = {}
    /\ Unsent /\ HubIdle /\ LocalIdle /\ UNCHANGED <<connectP, sdkWs>>

\* disconnect(): the fields are reset now; onclose runs later.
disconnect ==
  /\ sdkWs # NoSocket
  /\ sock' = [sock EXCEPT ![sdkWs] = IF @ = "closed" THEN @ ELSE "closing"]
  /\ sdkWs' = NoSocket /\ connected' = FALSE
  /\ Unsent /\ HubIdle /\ LocalIdle /\ UNCHANGED <<link, connectP, sdkPending, call>>

-----------------------------------------------------------------------------
(* Calls. *)

\* get, post, put, patch and delete fill in the method and start request().
startCall ==
  \E c \in Calls :
    /\ call[c] = "idle"
    /\ call' = [call EXCEPT ![c] = "discovering"]
    /\ Unsent /\ HubIdle /\ LocalIdle
    /\ UNCHANGED <<sock, link, connectP, sdkWs, connected, sdkPending>>

\* The part of request() after the local attempt: refuse without a connection,
\* else file the call with its timer and send it.  send throws on a socket that
\* is still connecting, which rejects the promise and leaves the entry behind;
\* on a closing or closed socket it drops the message.
sendsToHub(c) ==
  IF ~connected \/ sdkWs = NoSocket
  THEN /\ call' = [call EXCEPT ![c] = "failed"]
       /\ UNCHANGED <<sdkPending, toHub>>
  ELSE /\ sdkPending' = sdkPending \cup {c}
       /\ call' = [call EXCEPT ![c] = IF sock[sdkWs] = "connecting" THEN "failed" ELSE "waiting"]
       /\ toHub' = IF sock[sdkWs] = "open" /\ Len(toHub[sdkWs]) < MaxQueue
                   THEN [toHub EXCEPT ![sdkWs] = Append(@, RequestMsg(c))] ELSE toHub

\* discover(): a valid cache entry is used without asking port 4242.  A probe
\* that fails or times out means no local agent.
discover(c) ==
  \/ /\ cachedAgent = "valid" /\ UNCHANGED <<cachedAgent, sdkPending, toHub>>
     /\ call' = [call EXCEPT ![c] = "local"]
  \/ /\ cachedAgent # "valid" /\ discovery = "up"
     /\ cachedAgent' = "valid"
     /\ call' = [call EXCEPT ![c] = "local"] /\ UNCHANGED <<sdkPending, toHub>>
  \/ /\ cachedAgent # "valid"
     /\ UNCHANGED cachedAgent /\ sendsToHub(c)

DiscoverStep ==
  \E c \in Calls :
    /\ call[c] = "discovering" /\ discover(c)
    /\ HubIdle /\ UNCHANGED <<toSdk, sock, link, connectP, sdkWs, connected, ran, discovery>>

\* httpRequest() answered: the call is done without the hub.
LocalAnswers ==
  \E c \in Calls :
    /\ call[c] = "local"
    /\ ran' = [ran EXCEPT ![c] = @ + 1]
    /\ call' = [call EXCEPT ![c] = "ok"]
    /\ Unsent /\ HubIdle
    /\ UNCHANGED <<sock, link, connectP, sdkWs, connected, sdkPending, cachedAgent, discovery>>

\* Mutant of LocalFails.
LocalFailsRetriesLocal ==
  \E c \in Calls, executed \in {0, 1} :
    /\ call[c] = "local" /\ ran[c] < 3
    /\ ran' = [ran EXCEPT ![c] = @ + executed]
    /\ Unsent /\ HubIdle
    /\ UNCHANGED <<sock, link, connectP, sdkWs, connected, sdkPending, call, cachedAgent, discovery>>

\* httpRequest() failed, before the backend ran the call or after it: the
\* cached agent is forgotten and the call is sent through the hub.
LocalFails ==
  \E c \in Calls, executed \in {0, 1} :
    /\ call[c] = "local"
    /\ ran' = [ran EXCEPT ![c] = @ + executed]
    /\ cachedAgent' = "none"
    /\ sendsToHub(c)
    /\ HubIdle /\ UNCHANGED <<toSdk, sock, link, connectP, sdkWs, connected, discovery>>

\* The five seconds of a discovery result pass; the agent starts or stops.
CacheExpires ==
  /\ cachedAgent = "valid" /\ cachedAgent' = "expired"
  /\ Unsent /\ HubIdle
  /\ UNCHANGED <<sock, link, connectP, sdkWs, connected, sdkPending, call, ran, discovery>>

DiscoveryServer ==
  /\ discovery' = IF discovery = "up" THEN "down" ELSE "up"
  /\ Unsent /\ HubIdle
  /\ UNCHANGED <<sock, link, connectP, sdkWs, connected, sdkPending, call, ran, cachedAgent>>

\* Mutant of TimeoutFires.
TimeoutOnlyConnected(c) ==
  /\ connected /\ c \in sdkPending
  /\ sdkPending' = sdkPending \ {c}
  /\ call' = [call EXCEPT ![c] = IF @ = "waiting" THEN "failed" ELSE @]
  /\ Unsent /\ HubIdle /\ LocalIdle
  /\ UNCHANGED <<sock, link, connectP, sdkWs, connected>>

\* The timer of a pending call.  The callback deletes the entry and rejects.
TimeoutFires(c) ==
  /\ c \in sdkPending
  /\ sdkPending' = sdkPending \ {c}
  /\ call' = [call EXCEPT ![c] = IF @ = "waiting" THEN "failed" ELSE @]
  /\ Unsent /\ HubIdle /\ LocalIdle
  /\ UNCHANGED <<sock, link, connectP, sdkWs, connected>>

\* Mutant of outcomeOf.
outcomeAlwaysOk(m) == "ok"

\* onMessage(): an answer for an id that is not pending is dropped.
outcomeOf(m) == IF m.t = "response" THEN "ok" ELSE "failed"

onMessage(m) ==
  /\ sdkPending' = sdkPending \ {m.c}
  /\ call' = [c \in Calls |-> IF c = m.c /\ c \in sdkPending /\ call[c] = "waiting"
                              THEN outcomeOf(m) ELSE call[c]]
  /\ UNCHANGED <<connectP, connected>>

\* ws.onmessage of any socket that has not reported its close.
onmessage ==
  \E s \in Sockets :
    /\ sock[s] \in {"open", "closing"} /\ toSdk[s] # <<>>
    /\ toSdk' = [toSdk EXCEPT ![s] = Tail(@)]
    /\ \/ /\ Head(toSdk[s]) = Registered
          /\ connected' = TRUE
          /\ connectP' = [connectP EXCEPT ![s] = settle(@, "resolved")]
          /\ UNCHANGED <<sdkPending, call>>
       \/ Head(toSdk[s]) # Registered /\ onMessage(Head(toSdk[s]))
    /\ HubIdle /\ LocalIdle /\ UNCHANGED <<toHub, sock, link, sdkWs>>

-----------------------------------------------------------------------------
(* The hub. *)

\* sendToWs(): nothing is sent on a socket that is gone.
sendToWs(s, m) ==
  IF link[s] /\ Len(toSdk[s]) < MaxQueue
  THEN [toSdk EXCEPT ![s] = Append(@, m)] ELSE toSdk

ClientIdle == UNCHANGED <<connectP, sdkWs, connected, sdkPending, call>>

\* routeSdkMessage(): every message starts with a call to the key service that
\* is awaited.
routeSdkMessage ==
  \E s \in Sockets :
    /\ link[s] /\ toHub[s] # <<>>
    /\ hubAuth' = hubAuth \cup {<<s, Head(toHub[s])>>}
    /\ toHub' = [toHub EXCEPT ![s] = Tail(@)]
    /\ ClientIdle /\ LocalIdle /\ UNCHANGED <<toSdk, sock, link, hubSdk, hubCalls>>

\* handleSdkRegister(), from the answer of authenticateSdkRegister() on: a
\* session, or an error and a close.
authenticateSdkRegister(s, valid) ==
  IF valid
  THEN /\ hubSdk' = hubSdk \cup {s}
       /\ toSdk' = sendToWs(s, Registered) /\ UNCHANGED <<sock, link>>
  ELSE /\ toSdk' = sendToWs(s, buildSdkError(NoCall))
       /\ sock' = [sock EXCEPT ![s] = IF @ = "open" THEN "closing" ELSE @]
       /\ link' = [link EXCEPT ![s] = FALSE] /\ UNCHANGED hubSdk

handleSdkRegister ==
  \E s \in Sockets, valid \in BOOLEAN :
    /\ <<s, RegisterMsg>> \in hubAuth
    /\ hubAuth' = hubAuth \ {<<s, RegisterMsg>>}
    /\ authenticateSdkRegister(s, valid)
    /\ ClientIdle /\ LocalIdle /\ UNCHANGED <<toHub, hubCalls>>

\* handleSdkRequest() refuses: the key, the payload size, the path, or no agent
\* with the label.
RequestRefused ==
  \E s \in Sockets, c \in Calls :
    /\ <<s, RequestMsg(c)>> \in hubAuth
    /\ hubAuth' = hubAuth \ {<<s, RequestMsg(c)>>}
    /\ toSdk' = sendToWs(s, buildSdkError(c))
    /\ ClientIdle /\ LocalIdle /\ UNCHANGED <<toHub, sock, link, hubSdk, hubCalls>>

\* A lookup throws: the error that is sent names no request.
RequestThrows ==
  \E s \in Sockets, c \in Calls :
    /\ <<s, RequestMsg(c)>> \in hubAuth
    /\ hubAuth' = hubAuth \ {<<s, RequestMsg(c)>>}
    /\ toSdk' = sendToWs(s, buildSdkError(NoCall))
    /\ ClientIdle /\ LocalIdle /\ UNCHANGED <<toHub, sock, link, hubSdk, hubCalls>>

\* handleSdkRequest() enqueues and forwards to the agent.
handleSdkRequest ==
  \E s \in Sockets, c \in Calls :
    /\ <<s, RequestMsg(c)>> \in hubAuth
    /\ hubAuth' = hubAuth \ {<<s, RequestMsg(c)>>}
    /\ hubCalls' = [hubCalls EXCEPT ![c] = s]
    /\ ClientIdle /\ LocalIdle /\ UNCHANGED <<toHub, toSdk, sock, link, hubSdk>>

\* The agent's answer, and the failures the pending registry reports.
AgentResponds ==
  \E c \in Calls :
    /\ hubCalls[c] # NoSocket
    /\ ran' = [ran EXCEPT ![c] = @ + 1]
    /\ toSdk' = sendToWs(hubCalls[c], Response(c))
    /\ hubCalls' = [hubCalls EXCEPT ![c] = NoSocket]
    /\ ClientIdle /\ UNCHANGED <<toHub, sock, link, hubSdk, hubAuth, cachedAgent, discovery>>

AgentFails ==
  \E c \in Calls, executed \in {0, 1} :
    /\ hubCalls[c] # NoSocket
    /\ ran' = [ran EXCEPT ![c] = @ + executed]
    /\ toSdk' = sendToWs(hubCalls[c], buildSdkError(c))
    /\ hubCalls' = [hubCalls EXCEPT ![c] = NoSocket]
    /\ ClientIdle /\ UNCHANGED <<toHub, sock, link, hubSdk, hubAuth, cachedAgent, discovery>>

\* onSdkClose(): the hub sees the end of the socket.
evictByWs(s) == hubSdk \ {s}

onSdkClose ==
  \E s \in Sockets :
    /\ s \in hubSdk /\ (~link[s] \/ sock[s] \in {"closing", "closed"})
    /\ hubSdk' = evictByWs(s)
    /\ link' = [link EXCEPT ![s] = FALSE]
    /\ ClientIdle /\ LocalIdle /\ Unsent /\ UNCHANGED <<sock, hubAuth, hubCalls>>

HubSteps == routeSdkMessage \/ handleSdkRegister \/ RequestRefused \/ RequestThrows
            \/ handleSdkRequest \/ AgentResponds \/ AgentFails \/ onSdkClose
SocketSteps == connect \/ onopen \/ onerror \/ LinkDrops \/ onclose \/ disconnect
CallSteps == startCall \/ DiscoverStep \/ LocalAnswers \/ LocalFails \/ CacheExpires
             \/ DiscoveryServer \/ onmessage \/ \E c \in Calls : TimeoutFires(c)

SdkNext == HubSteps \/ SocketSteps \/ CallSteps

\* setTimeout callbacks run: the event loop is never starved here.
SdkFairness == \A c \in Calls : WF_sdkVars(TimeoutFires(c))
SdkSpec == SdkInit /\ [][SdkNext]_sdkVars /\ SdkFairness

-----------------------------------------------------------------------------
(* Properties. *)

\* A call that waits for the hub always has its entry, and with it its timer, in
\* pending: neither an old socket's close, nor a disconnect, nor a lost message
\* leaves a promise nobody will settle.
WaitingHasTimer == \A c \in Calls : call[c] = "waiting" => c \in sdkPending

\* A call is reported as successful only when some backend executed it: an
\* error the hub sends, also one for another request, never resolves a call.
OkMeansExecuted == \A c \in Calls : call[c] = "ok" => ran[c] > 0

\* A call is executed at most twice: once by the local attempt that failed
\* after the backend had run it, and once through the hub.
AtMostLocalThenHub == \A c \in Calls : ran[c] <= 2

\* What a caller may conclude from a call (TunnelClient.ts, LocalDiscovery): it
\* will be settled, success is success, and a fallback runs it twice at most.
SdkSound == WaitingHasTimer /\ OkMeansExecuted /\ AtMostLocalThenHub

\* The client as an implementation of RequestReply: a call is new until it is
\* handed to the hub, open while it waits, and then answered.
callPhase ==
  [c \in Calls |-> IF call[c] = "waiting" THEN "open"
                   ELSE IF call[c] \in Settled THEN "answered" ELSE "new"]
reply == INSTANCE RequestReply WITH Request <- Calls, phase <- callPhase

\* TunnelClient.request keeps what the hub promises its callers: a call sent
\* through the hub is settled exactly once, whatever becomes of the sockets and
\* of the hub, also when the hub's error names no request.
CallsAnswered == reply!Spec

=============================================================================
